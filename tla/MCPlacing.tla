------------------------------ MODULE MCPlacing ------------------------------
(***************************************************************************)
(* Small instance of Placing: two joins of a conference that may be on one *)
(* unit or two, in a pool of three. MaxCommitted is more than two joins    *)
(* reach, so the bound the model puts on Commit never refuses one. The two *)
(* joins are interchangeable.                                              *)
(***************************************************************************)
EXTENDS Placing

LOCAL INSTANCE TLC

CONSTANTS j1, j2

MCUnits     == {1, 2, 3}
MCJoins     == {j1, j2}
MCNone      == {}
MCLoads     == {1}
MCCeilings  == {1, 2}
MCNewcomers == {0, 4}
MCOneCause  == {"the operator asked"}
MCOneKey    == {"k1"}
MCNowOnly   == {0}
MCSymmetry  == Permutations(MCJoins)
=============================================================================
