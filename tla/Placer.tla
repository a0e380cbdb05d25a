------------------------------- MODULE Placer -------------------------------
(***************************************************************************)
(* The naive placer: internal/placement/placement.go.                      *)
(*                                                                         *)
(* Naive holds nothing between calls, so it is operators: a pool is the    *)
(* sequence of rows it was built from, a conference the set of units it is *)
(* on and how many it may be on. Loads are whole numbers and identifiers   *)
(* are numbers, compared the way the code compares strings.                *)
(***************************************************************************)
EXTENDS Integers, Sequences, FiniteSets

CONSTANT EligibilityCeiling \* the load at which a unit takes nothing new

ASSUME PlacerAssumption == EligibilityCeiling \in Nat \ {0}

RowIds(rows) == {rows[i].id : i \in DOMAIN rows}

-----------------------------------------------------------------------------
(* The policy, as the code runs it. *)

\* Mutant: a unit at the ceiling is still eligible.
EligibleAtTheCeiling(row) == row.state = "admitting" /\ row.load <= EligibilityCeiling

Eligible(row) == row.state = "admitting" /\ row.load < EligibilityCeiling

\* Mutant: equal loads are not told apart.
PreferByLoad(a, b) == a.load < b.load

Prefer(a, b) == IF a.load # b.load THEN a.load < b.load ELSE a.id < b.id

\* The loop of lowest over the first i of them, on the units to consider: the
\* position of the best row so far, 0 while none was found.
Lowest(rows, consider) ==
    LET best[i \in 0..Len(rows)] ==
            IF i = 0 THEN 0
            ELSE LET before == best[i - 1] IN
                 IF /\ Eligible(rows[i]) /\ rows[i].id \in consider
                    /\ before = 0 \/ Prefer(rows[i], rows[before])
                 THEN i ELSE before
    IN best[Len(rows)]

Place(id)      == [placed |-> TRUE, unit |-> id]
Refuse(reason) == [placed |-> FALSE, reason |-> reason]

PlaceConference(rows) ==
    LET best == Lowest(rows, RowIds(rows)) IN
    IF rows = <<>> THEN Refuse("no units")
    ELSE IF best = 0 THEN Refuse("no eligible unit")
    ELSE Place(rows[best].id)

\* Mutant: the least loaded unit first, whether the conference is on it or not.
PlaceAnywhere(rows, on, unitCeiling) ==
    LET best == Lowest(rows, RowIds(rows))
    IN  IF rows = <<>> THEN Refuse("no units")
        ELSE IF best = 0 THEN Refuse("no eligible unit")
        ELSE IF rows[best].id \notin on /\ Cardinality(on) >= unitCeiling
             THEN Refuse("reached unit ceiling")
        ELSE Place(rows[best].id)

\* Mutant: the ceiling is looked at last.
PlaceBeforeTheCeiling(rows, on, unitCeiling) ==
    LET carrier == Lowest(rows, on)
        other   == Lowest(rows, RowIds(rows) \ on)
    IN  IF rows = <<>> THEN Refuse("no units")
        ELSE IF carrier # 0 THEN Place(rows[carrier].id)
        ELSE IF other = 0 THEN Refuse("no eligible unit")
        ELSE IF Cardinality(on) >= unitCeiling THEN Refuse("reached unit ceiling")
        ELSE Place(rows[other].id)

\* Mutant: a conference at its ceiling may still grow.
PlaceAtTheCeiling(rows, on, unitCeiling) ==
    LET carrier == Lowest(rows, on)
        other   == Lowest(rows, RowIds(rows) \ on)
    IN  IF rows = <<>> THEN Refuse("no units")
        ELSE IF carrier # 0 THEN Place(rows[carrier].id)
        ELSE IF Cardinality(on) > unitCeiling THEN Refuse("reached unit ceiling")
        ELSE IF other # 0 THEN Place(rows[other].id)
        ELSE Refuse("no eligible unit")

PlaceParticipant(rows, on, unitCeiling) ==
    LET carrier == Lowest(rows, on)
        other   == Lowest(rows, RowIds(rows) \ on)
    IN  IF rows = <<>> THEN Refuse("no units")
        ELSE IF carrier # 0 THEN Place(rows[carrier].id)
        ELSE IF Cardinality(on) >= unitCeiling THEN Refuse("reached unit ceiling")
        ELSE IF other # 0 THEN Place(rows[other].id)
        ELSE Refuse("no eligible unit")
=============================================================================
