CONSTANTS
    j1 = j1  j2 = j2
    UnitIds <- MCUnits
    Collects <- MCNone
    Loads <- MCLoads
    Newcomers <- MCNewcomers
    UnitCeilings <- MCCeilings
    EligibilityCeiling = 2
    MaxCommitted = 4
    Bounds <- MCNone
    AgeCap = 0
    AskedCauses <- MCOneCause
    Keys <- MCOneKey
    OperatorKey = "k1"
    ProofOffsets <- MCNowOnly
    TicksPerSecond = 1
    MaxProofAge = 1
    MaxDuration = 4
    Joins <- MCJoins
SPECIFICATION PlacingSpec
INVARIANTS OvershootIsBounded CeilingOvershootIsBounded OrderDoesNotMatter SecondUnitIsTheLastResort GrowingHelpsUnlessAtTheCeiling
SYMMETRY MCSymmetry
