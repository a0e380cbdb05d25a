----------------------------- MODULE PoolHistory -----------------------------
(***************************************************************************)
(* The pool with what happened to it remembered: the history variables say *)
(* what was true outside the lock, so that a row can be compared with it.  *)
(* Every step of Pool is a step here and nothing else is.                  *)
(***************************************************************************)
EXTENDS Pool

CONSTANTS
    MaxGiven,       \* bound: what is ever committed to one unit
    ReportsAtOnce   \* whether who calls Report does so as the unit answers

ASSUME HistoryAssumption == MaxGiven \in Nat /\ ReportsAtOnce \in BOOLEAN

VARIABLES
    given,      \* all that was ever committed to the unit
    moments,    \* what given has been, at any moment since the unit entered
    seen,       \* per Collect, given when the answer it carries was made
    mark,       \* given when the answer in the row was made
    silence,    \* how long since the unit registered or last answered
    provedOn    \* the moment its registration stated, and that of the proof

historyVars == <<given, moments, seen, mark, silence, provedOn>>
allVars == <<vars, historyVars>>

HistoryInit ==
    /\ Init
    /\ given = [u \in UnitIds |-> 0]
    /\ moments = [u \in UnitIds |-> {0}]
    /\ seen = [c \in Collects |-> 0]
    /\ mark = [u \in UnitIds |-> 0]
    /\ silence = [u \in UnitIds |-> 0]
    /\ provedOn = [u \in UnitIds |-> [issued |-> 0, made |-> 0]]

CommitSeen(u, load) ==
    /\ Commit(u, load)
    /\ given[u] + load <= MaxGiven
    /\ given' = [given EXCEPT ![u] = @ + load]
    /\ moments' = [moments EXCEPT ![u] = @ \cup {given[u] + load}]
    /\ UNCHANGED <<seen, mark, silence, provedOn>>

RegisterSeen(u, issued, proof, phase) ==
    /\ Register(u, issued, proof, phase)
    /\ silence' = [silence EXCEPT ![u] = 0]
    /\ provedOn' = [provedOn EXCEPT ![u] = [issued |-> issued, made |-> proof.made]]
    /\ UNCHANGED <<given, moments, seen, mark>>

\* The number of a Report was the caller's before it came for the lock: the
\* unit made it at this moment, or at any moment before.
ReportSeen(u, load) ==
    /\ Report(u, load)
    /\ \E old \in IF ReportsAtOnce THEN {given[u]} ELSE moments[u] :
            mark' = [mark EXCEPT ![u] = old]
    /\ silence' = [silence EXCEPT ![u] = 0]
    /\ UNCHANGED <<given, moments, seen, provedOn>>

AnswerSeen(c, u, load) ==
    /\ CollectAnswer(c, u, load)
    /\ seen' = [seen EXCEPT ![c] = given[u]]
    /\ UNCHANGED <<given, moments, mark, silence, provedOn>>

RecordSeen(c, u) ==
    /\ CollectRecord(c, u)
    /\ IF answer[c] = NotALoad
       THEN UNCHANGED <<mark, silence>>
       ELSE /\ mark' = [mark EXCEPT ![u] = seen[c]]
            /\ silence' = [silence EXCEPT ![u] = 0]
    /\ seen' = [seen EXCEPT ![c] = 0]
    /\ UNCHANGED <<given, moments, provedOn>>

TickSeen ==
    /\ Tick
    /\ silence' = [u \in UnitIds |->
                    IF registered[u] /\ silence[u] < AgeCap
                    THEN silence[u] + 1 ELSE silence[u]]
    /\ UNCHANGED <<given, moments, seen, mark, provedOn>>

HistoryNext ==
    \/ \E u \in UnitIds :
        \/ PlainCall(u) /\ UNCHANGED historyVars
        \/ \E issued \in ProofOffsets, proof \in Proofs, phase \in Phases :
                RegisterSeen(u, issued, proof, phase)
        \/ \E load \in Loads : ReportSeen(u, load) \/ CommitSeen(u, load)
    \/ \E c \in Collects : CollectBegin(c) /\ UNCHANGED historyVars
    \/ \E c \in Collects, u \in UnitIds :
        \/ \E load \in Answered : AnswerSeen(c, u, load)
        \/ CollectUnanswered(c, u) /\ UNCHANGED historyVars
        \/ RecordSeen(c, u)
    \/ \E bound \in Bounds : Sweep(bound) /\ UNCHANGED historyVars
    \/ TickSeen

HistorySpec == HistoryInit /\ [][HistoryNext]_allVars

-----------------------------------------------------------------------------
\* The part of a unit's load no number of the row carries.
Lost(u) == given[u] - mark[u] - committed[u]

\* A placement is never counted twice: what the row adds to a unit's answer
\* was committed after the unit made that answer, however many Collects
\* record their answers late or out of order.
NeverCountedTwice == \A u \in UnitIds : Lost(u) >= 0

\* The row takes an answer the unit made before the last commitment to it: one
\* a Collect carried over its gap, or one the caller of Report had had for some
\* time. Both ask outside the lock.
TakesEarlierAnswer(u) ==
    /\ age'[u] = 0 /\ committed'[u] = 0
    /\ mark'[u] < given[u]
    /\ \/ \E c \in Collects :
            /\ answer[c] \in Loads
            /\ IsNext(c, u)
            /\ mark'[u] = seen[c]
            /\ asking'[c] = asking[c] \ {u}
       \/ UNCHANGED collectVars

\* A commitment drops out of the effective load only where an answer made
\* before it is recorded. No placement, drain, sweep or answer that is not a
\* load takes one away, however many Collects and Reports overlap.
LostOnlyToAnEarlierAnswer ==
    [][\A u \in UnitIds : Lost(u)' > Lost(u) => TakesEarlierAnswer(u)]_allVars

\* EffectiveLoad's comment: the reported load and every placement committed
\* since. The code does not keep it in the gap of Collect, also where every
\* Report is made at once.
EffectiveLoadCarriesEveryCommitment == \A u \in UnitIds : Lost(u) = 0

\* Sweep's comment: a unit that has registered and never answered is retired
\* when it has not answered for that long.
NeverReportedWaitsOutTheBound ==
    [][\A u \in UnitIds :
            /\ state[u] # "gone"
            /\ state'[u] = "gone"
            /\ cause'[u] = "the signal went stale"
            => \E b \in Bounds : silence[u] > b]_allVars

\* ErrProof's comment: a proof made further than MaxProofAge from now, before
\* or after it, admits nobody. Of the moment a registration states the code
\* keeps that, but for one the whole of time.Duration ahead, whose distance
\* overflows into the past; the proof may be of any other moment of the same
\* second, and so less than a second further from now.
AdmittedOnARecentProof ==
    \A u \in UnitIds : registered[u] =>
        LET on == provedOn[u] IN
        /\ on.issued \in -MaxProofAge..MaxProofAge \/ on.issued <= MinDuration
        /\ on.made - on.issued \in -(TicksPerSecond - 1)..(TicksPerSecond - 1)
=============================================================================
