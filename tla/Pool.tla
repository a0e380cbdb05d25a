-------------------------------- MODULE Pool --------------------------------
(***************************************************************************)
(* The pool of forwarding units: internal/pool/pool.go.                    *)
(*                                                                         *)
(* One mutex guards the rows, so each exported method is one action, except *)
(* Collect: it takes the lock to note whom to ask, lets it go, asks each   *)
(* unit over the port and takes the lock again to record each answer. The  *)
(* actions of a Collect interleave with everything else, other Collects    *)
(* included. A call the code refuses changes nothing and is a stuttering   *)
(* step here, so the refusals are the guards.                              *)
(*                                                                         *)
(* Times are kept as ages. A row's age is how long ago the pool's clock    *)
(* saw the unit's last answer arrive, and Tick ages every row; an age past *)
(* AgeCap is AgeCap, which no bound a caller sweeps with can tell apart.   *)
(***************************************************************************)
EXTENDS Integers, Sequences

CONSTANTS
    UnitIds,        \* the identifiers units enter under
    Collects,       \* the Collect calls that may be in progress at once
    Loads,          \* the loads a unit answers and a placement commits
    MaxCommitted,   \* bound: what is committed to one unit between reports
    Bounds,         \* the staleness bounds callers sweep with
    AgeCap,         \* ages are told apart up to here
    AskedCauses,    \* the causes a caller drains or retires with
    Keys,           \* the keys a registration may be proved with
    OperatorKey,    \* the one the pool was built with
    ProofOffsets,   \* how long before now the moment of a proof lies
    TicksPerSecond, \* moments are finer than the seconds a proof covers
    MaxProofAge,    \* how far either side of now a proof is accepted
    MaxDuration     \* the largest time.Duration

NoCause   == "none"
OwnCauses == {"health failed", "reachability failed", "the signal went stale"}

\* A caller's cause is told apart from the pool's own; the code has free text.
ASSUME PoolAssumption ==
    /\ Loads \subseteq Nat
    /\ MaxCommitted \in Nat
    /\ AgeCap \in Nat
    /\ \A b \in Bounds : b \in Nat /\ 0 < b /\ b < AgeCap
    /\ AskedCauses \cap (OwnCauses \cup {NoCause}) = {}
    /\ OperatorKey \in Keys
    /\ ProofOffsets \subseteq Int
    /\ MaxDuration \in Nat
    /\ MaxProofAge \in Nat /\ MaxProofAge < MaxDuration
    /\ TicksPerSecond \in Nat \ {0}

VARIABLES
    order,      \* the identifiers in the order they entered
    state,      \* what the pool says of a unit, "absent" for no row
    cause,      \* why it last left a state
    reachable,  \* the reachability input as last recorded
    healthy,    \* the health input as last recorded
    reported,   \* the last load the unit answered
    age,        \* how long ago that answer arrived, Never for no answer
    committed,  \* the placements committed since
    registered, \* whether the row holds a port to ask
    asking,     \* per Collect, the units still to ask
    answer      \* per Collect, the answer it carries back to the lock

inputVars   == <<reachable, healthy>>
loadVars    == <<reported, age, committed>>
collectVars == <<asking, answer>>
vars == <<order, state, cause, registered, inputVars, loadVars, collectVars>>

Never    == -1
NoAnswer == -1   \* the Collect has asked nobody yet
NotALoad == -2   \* the unit answered NaN or a negative number

States == {"absent", "requested", "starting", "admitting", "draining", "gone"}
Causes == AskedCauses \cup OwnCauses \cup {NoCause}

Held(u) == state[u] # "absent"

\* The placer's number for a unit.
EffectiveLoad(u) == reported[u] + committed[u]

\* The rows View hands the placer: the three states the seam has a word for.
View == [u \in {v \in UnitIds : state[v] \in {"admitting", "draining", "gone"}}
            |-> [state |-> state[u], load |-> EffectiveLoad(u)]]

Init ==
    /\ order = <<>>
    /\ state = [u \in UnitIds |-> "absent"]
    /\ cause = [u \in UnitIds |-> NoCause]
    /\ reachable = [u \in UnitIds |-> FALSE]
    /\ healthy = [u \in UnitIds |-> TRUE]
    /\ reported = [u \in UnitIds |-> 0]
    /\ age = [u \in UnitIds |-> Never]
    /\ committed = [u \in UnitIds |-> 0]
    /\ registered = [u \in UnitIds |-> FALSE]
    /\ asking = [c \in Collects |-> {}]
    /\ answer = [c \in Collects |-> NoAnswer]

-----------------------------------------------------------------------------
(* The moves. *)

\* A row is never removed, so an identifier enters once.
Enter(u, at) ==
    /\ ~Held(u)
    /\ state' = [state EXCEPT ![u] = at]
    /\ order' = Append(order, u)
    /\ UNCHANGED <<cause, registered, inputVars, loadVars, collectVars>>

Request(u) == Enter(u, "requested")
Listed(u)  == Enter(u, "starting")

Move(u, to, why) ==
    /\ state' = [state EXCEPT ![u] = to]
    /\ cause' = [cause EXCEPT ![u] = why]

Started(u) ==
    /\ state[u] = "requested"
    /\ state' = [state EXCEPT ![u] = "starting"]
    /\ UNCHANGED <<order, cause, registered, inputVars, loadVars, collectVars>>

\* time.Time.Sub saturates at the ends of time.Duration, and negating the
\* smallest duration gives it back.
MinDuration == -MaxDuration - 1
Saturate(d) == IF d > MaxDuration THEN MaxDuration
               ELSE IF d < MinDuration THEN MinDuration ELSE d
Negate(d)   == IF d = MinDuration THEN MinDuration ELSE -d

\* Mutant: a moment that has not come yet is not too far away.
ProofAgeOfThePast(issued) == Saturate(issued)

\* How far from now the moment a registration states is.
ProofAge(issued) ==
    LET since == Saturate(issued) IN IF since < 0 THEN Negate(since) ELSE since

\* A proof is what Prove answers for a key, a unit and a moment.
Proofs == [key : Keys, unit : UnitIds, made : ProofOffsets]

\* The payload writes a moment as its whole second, here counted from the one
\* it is now. The pool's clock is phase ticks into that one.
Phases == 0..(TicksPerSecond - 1)
SecondOf(offset, phase) == (phase - offset) \div TicksPerSecond

\* Mutant: the digest covers the unit and not the moment.
VerifiesAtAnyMoment(proof, u, issued, phase) ==
    proof.key = OperatorKey /\ proof.unit = u

\* The digest of what the registration states is the one it carries.
Verifies(proof, u, issued, phase) ==
    /\ proof.key = OperatorKey /\ proof.unit = u
    /\ SecondOf(proof.made, phase) = SecondOf(issued, phase)

\* Mutant: the reachability verdict is not asked for.
RegisterUnverified(u, issued, proof, phase) ==
    /\ Verifies(proof, u, issued, phase)
    /\ ProofAge(issued) <= MaxProofAge
    /\ state[u] = "starting"
    /\ Move(u, "admitting", NoCause)
    /\ registered' = [registered EXCEPT ![u] = TRUE]
    /\ UNCHANGED <<order, inputVars, loadVars, collectVars>>

Register(u, issued, proof, phase) ==
    /\ Verifies(proof, u, issued, phase)
    /\ ProofAge(issued) <= MaxProofAge
    /\ state[u] = "starting"
    /\ reachable[u]
    /\ Move(u, "admitting", NoCause)
    /\ registered' = [registered EXCEPT ![u] = TRUE]
    /\ UNCHANGED <<order, inputVars, loadVars, collectVars>>

\* Mutant: any unit that has a row drains.
DrainAny(u, why) ==
    /\ Held(u)
    /\ Move(u, "draining", why)
    /\ UNCHANGED <<order, registered, inputVars, loadVars, collectVars>>

Drain(u, why) ==
    /\ state[u] = "admitting"
    /\ Move(u, "draining", why)
    /\ UNCHANGED <<order, registered, inputVars, loadVars, collectVars>>

\* Mutant: a unit that is gone is retired again.
RetireAgain(u, why) ==
    /\ Held(u)
    /\ Move(u, "gone", why)
    /\ UNCHANGED <<order, registered, inputVars, loadVars, collectVars>>

Retire(u, why) ==
    /\ Held(u)
    /\ state[u] # "gone"
    /\ Move(u, "gone", why)
    /\ UNCHANGED <<order, registered, inputVars, loadVars, collectVars>>

-----------------------------------------------------------------------------
(* The three inputs. *)

Reachable(u, ok) ==
    /\ Held(u)
    /\ reachable' = [reachable EXCEPT ![u] = ok]
    /\ IF ~ok /\ state[u] = "admitting"
       THEN Move(u, "draining", "reachability failed")
       ELSE UNCHANGED <<state, cause>>
    /\ UNCHANGED <<order, healthy, registered, loadVars, collectVars>>

Healthy(u, ok) ==
    /\ Held(u)
    /\ healthy' = [healthy EXCEPT ![u] = ok]
    /\ IF ~ok /\ state[u] # "gone"
       THEN Move(u, "gone", "health failed")
       ELSE UNCHANGED <<state, cause>>
    /\ UNCHANGED <<order, reachable, registered, loadVars, collectVars>>

\* Mutant: what was committed stays on top of the unit's own number.
RecordLoadKeeping(u, load) ==
    /\ Held(u)
    /\ reported' = [reported EXCEPT ![u] = load]
    /\ age' = [age EXCEPT ![u] = 0]
    /\ UNCHANGED committed

\* Report's part of a row: in any state, and the committed load goes, because
\* the unit's number is taken to carry it.
RecordLoad(u, load) ==
    /\ Held(u)
    /\ reported' = [reported EXCEPT ![u] = load]
    /\ age' = [age EXCEPT ![u] = 0]
    /\ committed' = [committed EXCEPT ![u] = 0]

Report(u, load) ==
    /\ RecordLoad(u, load)
    /\ UNCHANGED <<order, state, cause, registered, inputVars, collectVars>>

\* Mutant: the last commitment replaces the ones before it.
CommitLast(u, load) ==
    /\ state[u] = "admitting"
    /\ committed[u] + load <= MaxCommitted
    /\ committed' = [committed EXCEPT ![u] = load]
    /\ UNCHANGED <<order, state, cause, registered, inputVars, reported, age,
                   collectVars>>

\* Commit is bounded by MaxCommitted; the code has no bound.
Commit(u, load) ==
    /\ state[u] = "admitting"
    /\ committed[u] + load <= MaxCommitted
    /\ committed' = [committed EXCEPT ![u] = @ + load]
    /\ UNCHANGED <<order, state, cause, registered, inputVars, reported, age,
                   collectVars>>

-----------------------------------------------------------------------------
(* Collect, in three steps, and Sweep. *)

Answers(u) == registered[u] /\ state[u] \in {"admitting", "draining"}

\* Under the lock: whom to ask. A Collect with nobody to ask is over.
CollectBegin(c) ==
    /\ asking[c] = {}
    /\ asking' = [asking EXCEPT ![c] = {u \in UnitIds : Answers(u)}]
    /\ UNCHANGED <<order, state, cause, registered, inputVars, loadVars, answer>>

\* The units are asked in the order they entered the pool.
Before(u, v) == \E i, j \in DOMAIN order : i < j /\ order[i] = u /\ order[j] = v
IsNext(c, u) == u \in asking[c] /\ \A v \in asking[c] \ {u} : Before(u, v)

\* Not under the lock: the next unit's ReportCapacity answers a number.
CollectAnswer(c, u, load) ==
    /\ IsNext(c, u)
    /\ answer[c] = NoAnswer
    /\ answer' = [answer EXCEPT ![c] = load]
    /\ UNCHANGED <<order, state, cause, registered, inputVars, loadVars, asking>>

\* Or an error, which leaves the row alone and goes on to the next unit.
CollectUnanswered(c, u) ==
    /\ IsNext(c, u)
    /\ answer[c] = NoAnswer
    /\ asking' = [asking EXCEPT ![c] = @ \ {u}]
    /\ UNCHANGED <<order, state, cause, registered, inputVars, loadVars, answer>>

\* Mutant: whatever the unit answered is taken for a load.
CollectRecordAnything(c, u) ==
    /\ IsNext(c, u)
    /\ answer[c] # NoAnswer
    /\ RecordLoad(u, answer[c])
    /\ asking' = [asking EXCEPT ![c] = @ \ {u}]
    /\ answer' = [answer EXCEPT ![c] = NoAnswer]
    /\ UNCHANGED <<order, state, cause, registered, inputVars>>

\* Under the lock again: record it, unless it is not a load.
CollectRecord(c, u) ==
    /\ IsNext(c, u)
    /\ answer[c] # NoAnswer
    /\ IF answer[c] = NotALoad THEN UNCHANGED loadVars ELSE RecordLoad(u, answer[c])
    /\ asking' = [asking EXCEPT ![c] = @ \ {u}]
    /\ answer' = [answer EXCEPT ![c] = NoAnswer]
    /\ UNCHANGED <<order, state, cause, registered, inputVars>>

\* Mutant: a unit that never answered is left alone.
StaleAnswers(u, bound) ==
    /\ state[u] \in {"admitting", "draining"}
    /\ age[u] # Never /\ age[u] > bound

\* What a sweep with this bound retires.
Stale(u, bound) ==
    /\ state[u] \in {"admitting", "draining"}
    /\ IF age[u] = Never THEN registered[u] ELSE age[u] > bound

\* Mutant: the sweep does not say why.
SweepSilently(bound) ==
    LET stale == {u \in UnitIds : Stale(u, bound)} IN
    /\ stale # {}
    /\ state' = [u \in UnitIds |-> IF u \in stale THEN "gone" ELSE state[u]]
    /\ UNCHANGED <<order, cause, registered, inputVars, loadVars, collectVars>>

Sweep(bound) ==
    LET stale == {u \in UnitIds : Stale(u, bound)} IN
    /\ stale # {}
    /\ state' = [u \in UnitIds |-> IF u \in stale THEN "gone" ELSE state[u]]
    /\ cause' = [u \in UnitIds |->
                    IF u \in stale THEN "the signal went stale" ELSE cause[u]]
    /\ UNCHANGED <<order, registered, inputVars, loadVars, collectVars>>

\* The pool's clock.
Tick ==
    /\ age' = [u \in UnitIds |->
                  IF age[u] \in {Never, AgeCap} THEN age[u] ELSE age[u] + 1]
    /\ UNCHANGED <<order, state, cause, registered, inputVars, reported,
                   committed, collectVars>>

-----------------------------------------------------------------------------
Answered == Loads \cup {NotALoad}

PlainCall(u) ==
    \/ Request(u) \/ Listed(u) \/ Started(u)
    \/ \E why \in AskedCauses : Drain(u, why) \/ Retire(u, why)
    \/ \E ok \in BOOLEAN : Reachable(u, ok) \/ Healthy(u, ok)

Next ==
    \/ \E u \in UnitIds :
        \/ PlainCall(u)
        \/ \E issued \in ProofOffsets, proof \in Proofs, phase \in Phases :
                Register(u, issued, proof, phase)
        \/ \E load \in Loads : Report(u, load) \/ Commit(u, load)
    \/ \E c \in Collects : CollectBegin(c)
    \/ \E c \in Collects, u \in UnitIds :
        \/ \E load \in Answered : CollectAnswer(c, u, load)
        \/ CollectUnanswered(c, u)
        \/ CollectRecord(c, u)
    \/ \E bound \in Bounds : Sweep(bound)
    \/ Tick

Spec == Init /\ [][Next]_vars

(***************************************************************************)
(* Time passes, and the pool's caller goes on sweeping with some bound, as *)
(* the comment on Collect requires of it: what retires a silent unit is    *)
(* Sweep. No port is assumed ever to answer.                               *)
(***************************************************************************)
FairSpec == Spec /\ WF_vars(Tick) /\ \A b \in Bounds : WF_vars(Sweep(b))

-----------------------------------------------------------------------------
\* The values the variables range over.
TypeOK ==
    /\ order \in Seq(UnitIds)
    /\ state \in [UnitIds -> States]
    /\ cause \in [UnitIds -> Causes]
    /\ reachable \in [UnitIds -> BOOLEAN]
    /\ healthy \in [UnitIds -> BOOLEAN]
    /\ reported \in [UnitIds -> Nat]
    /\ age \in [UnitIds -> {Never} \cup (0..AgeCap)]
    /\ committed \in [UnitIds -> Nat]
    /\ registered \in [UnitIds -> BOOLEAN]
    /\ asking \in [Collects -> SUBSET UnitIds]
    /\ answer \in [Collects -> Loads \cup {NoAnswer, NotALoad}]

\* The placer may be offered a unit only while all three inputs stand: it
\* registered, was last seen reachable and was last seen healthy. Every
\* method that changes an input or a state has its part in this.
AdmittingIsVerified ==
    \A u \in UnitIds : state[u] = "admitting" =>
        registered[u] /\ reachable[u] /\ healthy[u]

\* A unit last heard unhealthy is gone, whichever call came last.
UnhealthyIsGone ==
    \A u \in UnitIds : Held(u) /\ ~healthy[u] => state[u] = "gone"

\* A row says why exactly when its unit has left a state it was put out of:
\* an operator asking why a unit is no longer placed onto finds an answer.
CauseTold ==
    \A u \in UnitIds :
        cause[u] = NoCause <=> state[u] \notin {"draining", "gone"}

\* Whatever a Collect carries over the gap where it does not hold the lock,
\* it records against a unit that has a row and a port.
CollectsAskRegistered ==
    \A c \in Collects :
        /\ \A u \in asking[c] : Held(u) /\ registered[u]
        /\ answer[c] # NoAnswer => asking[c] # {}

\* A unit that is gone stays gone, for the reason it first went.
GoneIsFinal ==
    [][\A u \in UnitIds : state[u] = "gone" =>
            state'[u] = "gone" /\ cause'[u] = cause[u]]_vars

\* A unit the placer can see either goes on answering or leaves.
SilentUnitsLeave ==
    \A u \in UnitIds :
        \/ []<>(age[u] = 0)
        \/ <>[](state[u] \notin {"admitting", "draining"})

\* The rows implement the life of a unit.
Life == INSTANCE UnitLifecycle
LifeSpec == Life!Spec
=============================================================================
