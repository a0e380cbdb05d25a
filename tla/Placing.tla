------------------------------- MODULE Placing -------------------------------
(***************************************************************************)
(* The placer over the pool: internal/placement/placement.go asked with    *)
(* internal/pool/pool.go's View, several joins of one conference at once.  *)
(*                                                                         *)
(* A join reads View and the conference's record, asks the placer and      *)
(* commits its answer. Nothing is locked over the three, so the answer is  *)
(* of a pool that may have moved on: other joins committed, the unit       *)
(* reported, drained or went. docs/decisions/placement-seam.md chose this:       *)
(* absorbed rather than prevented. The placer is a pure function, so what  *)
(* a join carries over the gap is its answer.                              *)
(*                                                                         *)
(* Units begin past their registration, since until then no view lists     *)
(* them, and only what changes a view is left of the pool's methods. The   *)
(* caller itself is not in the repository.                                 *)
(***************************************************************************)
EXTENDS Pool, Placer, FiniteSets, Functions

CONSTANTS
    Joins,          \* the joins that may be in progress at once
    UnitCeilings,   \* how many units a conference may occupy
    Newcomers       \* identifiers another machine may come under

ASSUME PlacingAssumption ==
    /\ UnitIds \subseteq Nat /\ IsFiniteSet(UnitIds)
    /\ IsFiniteSet(Joins)
    /\ UnitCeilings \subseteq Nat \ {0}
    /\ Newcomers \subseteq Nat \ UnitIds

VARIABLES
    chosen,     \* per join, the unit the placer answered, Nowhere for none
    carrying,   \* the units the conference is on
    ceiling     \* how many it may be on

joinVars == <<chosen, carrying, ceiling>>
allVars  == <<vars, joinVars>>

Nowhere == -1

\* What Commit is told a placement costs.
Cost == 1

RowOf(u) == [id |-> u, load |-> View[u].load, state |-> View[u].state]

\* The records NewPool makes of View, whose units come sorted.
ViewRecord ==
    CHOOSE rows \in [1..Cardinality(DOMAIN View) -> {RowOf(u) : u \in DOMAIN View}] :
        \A i, j \in DOMAIN rows : i < j => rows[i].id < rows[j].id

PlacingInit ==
    /\ order \in [1..Cardinality(UnitIds) -> UnitIds]
    /\ \A i, j \in DOMAIN order : i < j => order[i] < order[j]
    /\ state = [u \in UnitIds |-> "admitting"]
    /\ cause = [u \in UnitIds |-> NoCause]
    /\ reachable = [u \in UnitIds |-> TRUE]
    /\ healthy = [u \in UnitIds |-> TRUE]
    /\ reported = [u \in UnitIds |-> 0]
    /\ age = [u \in UnitIds |-> Never]
    /\ committed = [u \in UnitIds |-> 0]
    /\ registered = [u \in UnitIds |-> TRUE]
    /\ asking = [c \in Collects |-> {}]
    /\ answer = [c \in Collects |-> NoAnswer]
    /\ chosen = [j \in Joins |-> Nowhere]
    /\ carrying = {}
    /\ ceiling \in UnitCeilings

-----------------------------------------------------------------------------
\* A conference on no unit is the placer's first question, and one more
\* participant of a conference its second.
Answer(rows) ==
    IF carrying = {} THEN PlaceConference(rows)
    ELSE PlaceParticipant(rows, carrying, ceiling)

\* A join the placer refuses is over.
Ask(j) ==
    /\ chosen[j] = Nowhere
    /\ Answer(ViewRecord).placed
    /\ chosen' = [chosen EXCEPT ![j] = Answer(ViewRecord).unit]
    /\ UNCHANGED <<vars, carrying, ceiling>>

Join(j) ==
    /\ chosen[j] # Nowhere
    /\ Commit(chosen[j], Cost)
    /\ carrying' = carrying \cup {chosen[j]}
    /\ chosen' = [chosen EXCEPT ![j] = Nowhere]
    /\ UNCHANGED ceiling

\* Commit refuses a unit that does not admit any more; the join starts over.
JoinRefused(j) ==
    /\ chosen[j] # Nowhere
    /\ state[chosen[j]] # "admitting"
    /\ chosen' = [chosen EXCEPT ![j] = Nowhere]
    /\ UNCHANGED <<vars, carrying, ceiling>>

PoolMoves ==
    /\ \E u \in UnitIds :
        \/ \E load \in Loads : Report(u, load)
        \/ \E why \in AskedCauses : Drain(u, why) \/ Retire(u, why)
    /\ UNCHANGED joinVars

PlacingNext ==
    \/ \E j \in Joins : Ask(j) \/ Join(j) \/ JoinRefused(j)
    \/ PoolMoves

PlacingSpec == PlacingInit /\ [][PlacingNext]_allVars

-----------------------------------------------------------------------------
\* A unit is over the load it takes nothing new at by no more than the joins
\* that were in progress, whatever it reported in between: the overshoot the
\* seam accepts for holding no lock has a bound, because every commitment is
\* in the next view.
OvershootIsBounded ==
    \A u \in UnitIds :
        \/ EffectiveLoad(u) < EligibilityCeiling + Cost * Cardinality(Joins)
        \/ EffectiveLoad(u) <= reported[u] + Cost * Cardinality(Joins)

\* And so is a conference over its unit ceiling: by the joins that each
\* found room for one more unit at the same moment.
CeilingOvershootIsBounded ==
    Cardinality(carrying) < ceiling + Cardinality(Joins)

-----------------------------------------------------------------------------
(* What an answer means, read off the set of rows. *)

RowSet == {RowOf(u) : u \in DOMAIN View}
Fit(S) == {r \in RowSet : Eligible(r) /\ r.id \in S}

\* The units nothing that fits in S is preferred to.
Best(S) == {r.id : r \in {a \in Fit(S) : \A b \in Fit(S) \ {a} : Prefer(a, b)}}

\* The same rows in every order.
Shuffles ==
    {[i \in DOMAIN ViewRecord |-> ViewRecord[p[i]]] :
        p \in Bijection(DOMAIN ViewRecord, DOMAIN ViewRecord)}

\* Two instances reading the same rows in different orders make the same
\* choice, for a conference on no unit and for one on some: whenever units fit
\* exactly one of them is the best.
OrderDoesNotMatter ==
    \A rows \in Shuffles :
        /\ Answer(rows) = Answer(ViewRecord)
        /\ LET first == PlaceConference(rows) IN
           IF Fit(UnitIds) = {} THEN ~first.placed ELSE Best(UnitIds) = {first.unit}

\* A conference reaches for another unit last: never while one it is on can
\* take the arrival, never past its ceiling, and then to the best there is.
SecondUnitIsTheLastResort ==
    LET answered == Answer(ViewRecord) IN
    carrying # {} /\ answered.placed =>
        IF answered.unit \in carrying
        THEN Best(carrying) = {answered.unit}
        ELSE /\ Fit(carrying) = {}
             /\ Cardinality(carrying) < ceiling
             /\ Best(UnitIds \ carrying) = {answered.unit}

\* The two refusals lead a caller to different places, and each is the right
\* one: another machine, empty and admitting, would have taken the arrival
\* exactly when the refusal was not the conference's ceiling.
GrowingHelpsUnlessAtTheCeiling ==
    \A fresh \in Newcomers :
        LET machine  == [id |-> fresh, load |-> 0, state |-> "admitting"]
            answered == Answer(ViewRecord)
            grown    == Answer(Append(ViewRecord, machine))
        IN  /\ answered = Refuse("no eligible unit") => grown = Place(fresh)
            /\ answered = Refuse("reached unit ceiling") => grown = answered
=============================================================================
