------------------------------- MODULE MCPoolHistory -------------------------------
(***************************************************************************)
(* Small instances of PoolHistory: one unit, one or two Collects.          *)
(***************************************************************************)
EXTENDS PoolHistory

CONSTANTS u1, c1, c2, k1, k2

MCOneUnit      == {u1}
MCOneCollect   == {c1}
MCCollects     == {c1, c2}
MCKeys         == {k1, k2}
MCOneKey       == {k1}
MCLoads        == {1}
MCBounds       == {1}
MCOneCause     == {"the operator asked"}
\* From beyond the smallest duration to beyond the largest.
MCOffsets      == -4..3
MCNowOnly      == {0}
=============================================================================
