------------------------------- MODULE MCPool -------------------------------
(***************************************************************************)
(* Small instance of Pool: two units, one Collect over both of them.       *)
(***************************************************************************)
EXTENDS Pool

CONSTANTS u1, u2, c1, k1

MCUnits        == {u1, u2}
MCOneCollect   == {c1}
MCOneKey       == {k1}
MCLoads        == {1}
MCBounds       == {1}
MCOneCause     == {"the operator asked"}
MCNowOnly      == {0}
=============================================================================
