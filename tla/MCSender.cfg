CONSTANTS
    s1 = s1  s2 = s2  c1 = c1  c2 = c2
    Senders <- MCSenders
    Closers <- MCClosers
    Writer = writer
    MaxQueued = 2
    MaxAccepted = 4
SPECIFICATION FairSpec
INVARIANTS TypeOK OneWriteAtATime PromiseKept
PROPERTIES OutboxSpec StopEnds
CHECK_DEADLOCK FALSE
