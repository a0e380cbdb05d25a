CONSTANTS
    s1 = s1  s2 = s2  c1 = c1  c2 = c2
    Senders <- MCOneSender
    Closers <- MCOneCloser
    Writer = writer
    MaxQueued = 2
    MaxAccepted = 3
SPECIFICATION Spec
INVARIANTS AcceptedIsWritten
CHECK_DEADLOCK FALSE
