CONSTANTS
    u1 = u1  u2 = u2  c1 = c1  k1 = k1
    UnitIds <- MCUnits
    Collects <- MCOneCollect
    Loads <- MCLoads
    MaxCommitted = 1
    Bounds <- MCBounds
    AgeCap = 2
    AskedCauses <- MCOneCause
    Keys <- MCOneKey
    OperatorKey = k1
    ProofOffsets <- MCNowOnly
    TicksPerSecond = 1
    MaxProofAge = 1
    MaxDuration = 4
SPECIFICATION FairSpec
INVARIANTS TypeOK AdmittingIsVerified CauseTold
PROPERTIES GoneIsFinal LifeSpec SilentUnitsLeave
