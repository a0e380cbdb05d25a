CONSTANTS
    u1 = u1  c1 = c1  c2 = c2  k1 = k1  k2 = k2
    UnitIds <- MCOneUnit
    Collects <- MCCollects
    Loads <- MCLoads
    MaxCommitted = 2
    Bounds <- MCBounds
    AgeCap = 2
    AskedCauses <- MCOneCause
    Keys <- MCKeys
    OperatorKey = k1
    ProofOffsets <- MCOffsets
    TicksPerSecond = 2
    MaxProofAge = 1
    MaxDuration = 2
    MaxGiven = 3
    ReportsAtOnce = FALSE
SPECIFICATION HistorySpec
INVARIANTS NeverCountedTwice AdmittedOnARecentProof
PROPERTIES LostOnlyToAnEarlierAnswer
