CONSTANTS
    u1 = u1  c1 = c1  c2 = c2  k1 = k1  k2 = k2
    UnitIds <- MCOneUnit
    Collects <- MCOneCollect
    Loads <- MCLoads
    MaxCommitted = 1
    Bounds <- MCBounds
    AgeCap = 2
    AskedCauses <- MCOneCause
    Keys <- MCOneKey
    OperatorKey = k1
    ProofOffsets <- MCNowOnly
    TicksPerSecond = 1
    MaxProofAge = 1
    MaxDuration = 4
    MaxGiven = 3
    ReportsAtOnce = TRUE
SPECIFICATION HistorySpec
INVARIANTS EffectiveLoadCarriesEveryCommitment
