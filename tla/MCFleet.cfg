CONSTANTS
    k1 = k1
    UnitIds = {1, 2}
    Machines = {1, 2}
    Blank = 0
    Absent = Absent
    Delay = 1
    Files <- MCFiles
    Collects = {}
    Loads = {}
    MaxCommitted = 0
    Bounds = {}
    AgeCap = 1
    AskedCauses <- MCOneCause
    Keys <- MCOneKey
    OperatorKey = k1
    ProofOffsets = {0}
    TicksPerSecond = 1
    MaxProofAge = 1
    MaxDuration = 4
SPECIFICATION FleetSpec
INVARIANTS LoadedOpensUnlessListedTwice CountIsWhatExists OnlyAReusedNameIsMistaken
CHECK_DEADLOCK FALSE
