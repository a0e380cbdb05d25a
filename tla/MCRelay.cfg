CONSTANTS
    MaxMessageBytes = 65536
    MaxTypeBytes = 64
    Frames <- MCFrames
SPECIFICATION Spec
INVARIANTS DecodedCanBeEncoded
