------------------------------ MODULE MCFleet ------------------------------
(***************************************************************************)
(* A small instance of Fleet: two machines, and every file in which the    *)
(* four keys are absent or hold something near the edge of what is valid.  *)
(***************************************************************************)
EXTENDS Fleet

CONSTANTS k1

MCOneKey   == {k1}
MCOneCause == {"the operator asked"}

MCLists == {<<>>, <<1>>, <<2, 1>>, <<1, 1>>, <<1, Blank>>}
MCFiles ==
    [object : BOOLEAN, unknown : BOOLEAN, plain : BOOLEAN,
     minimum : {Absent, 0, 2}, maximum : {Absent, 2},
     driver : {Absent, "none", "listed", "cloud"}, machines : MCLists \cup {Absent}]
=============================================================================
