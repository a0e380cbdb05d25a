-------------------------- MODULE PoolHistoryProofs --------------------------
(***************************************************************************)
(* What the rows of the pool are worth, for every set of units, of         *)
(* overlapping Collects and of loads: HistoryInv says how the numbers of a *)
(* row stand to what happened outside the lock, and is inductive given     *)
(* PoolInv, which every step of PoolHistory keeps because it is a step of  *)
(* Pool.                                                                   *)
(***************************************************************************)
EXTENDS PoolHistory, PoolProofs

\* The history's values.
HistoryTypeOK ==
    /\ given \in [UnitIds -> Nat]
    /\ moments \in [UnitIds -> SUBSET Nat]
    /\ seen \in [Collects -> Nat]
    /\ mark \in [UnitIds -> Nat]
    /\ silence \in [UnitIds -> Nat]
    /\ provedOn \in [UnitIds -> [issued : Int, made : Int]]

\* A unit is in the order once, and only if it has a row, so that at most one
\* unit is the next of a Collect.
EnteredOnce ==
    /\ \A i \in DOMAIN order : Held(order[i])
    /\ \A i, j \in DOMAIN order : order[i] = order[j] => i = j

\* What was given to a unit at any moment is no more than now.
MomentsAreOld == \A u \in UnitIds : \A old \in moments[u] : old <= given[u]

\* What a Collect carries over the gap was made no later than now.
CarriedIsOld ==
    \A c \in Collects, u \in UnitIds :
        answer[c] # NoAnswer /\ IsNext(c, u) => seen[c] <= given[u]

\* The row's numbers stand for no more than was committed to the unit.
RowIsCovered == \A u \in UnitIds : mark[u] + committed[u] <= given[u]

HistoryInv ==
    HistoryTypeOK /\ EnteredOnce /\ MomentsAreOld /\ CarriedIsOld /\ RowIsCovered

-----------------------------------------------------------------------------
\* Every step of the history is a step of the pool.
LEMMA HistoryStepIsStep == [HistoryNext]_allVars => [Next]_vars
BY DEF HistoryNext, Next, allVars, CommitSeen, RegisterSeen, ReportSeen,
       AnswerSeen, RecordSeen, TickSeen

\* The pool with its history behaves as the pool does.
THEOREM HistoryImplementsPool == HistorySpec => Spec
<1>1. HistoryInit => Init
  BY DEF HistoryInit
<1> QED
  BY <1>1, HistoryStepIsStep, PTL DEF HistorySpec, Spec

\* The units of a Collect are asked one at a time: there is one next.
LEMMA OneIsNext ==
    ASSUME TypeOK, EnteredOnce, NEW c \in Collects,
           NEW u \in UnitIds, NEW v \in UnitIds, IsNext(c, u), IsNext(c, v)
    PROVE  u = v
<1> SUFFICES ASSUME u # v PROVE FALSE
  OBVIOUS
<1>1. Before(u, v) /\ Before(v, u)
  BY DEF IsNext
<1>2. PICK i, j \in DOMAIN order : i < j /\ order[i] = u /\ order[j] = v
  BY <1>1 DEF Before
<1>3. PICK k, l \in DOMAIN order : k < l /\ order[k] = v /\ order[l] = u
  BY <1>1 DEF Before
<1>4. k = j /\ l = i
  BY <1>2, <1>3 DEF EnteredOnce
<1>5. i \in Int /\ j \in Int
  BY <1>2 DEF TypeOK
<1> QED
  BY <1>2, <1>3, <1>4, <1>5

\* A unit that enters the pool is not before anybody a Collect is asking.
LEMMA EnteringIsNotAsked ==
    ASSUME TypeOK, CollectsAskRegistered, NEW w \in UnitIds, ~Held(w),
           order' = Append(order, w), UNCHANGED asking,
           NEW c \in Collects, NEW u \in UnitIds, IsNext(c, u)'
    PROVE  IsNext(c, u)
<1>1. asking[c] \subseteq UnitIds
  BY DEF TypeOK
<1>2. u \in asking[c]
  BY DEF IsNext
<1>3. ASSUME NEW v \in asking[c] \ {u} PROVE Before(u, v)
  <2>1. Before(u, v)'
    BY <1>3 DEF IsNext
  <2>2. PICK i, j \in DOMAIN order' : i < j /\ order'[i] = u /\ order'[j] = v
    BY <2>1 DEF Before
  <2>3. Held(v)
    BY <1>1, <1>3 DEF CollectsAskRegistered
  <2>4. /\ Len(order) \in Nat
        /\ DOMAIN order = 1..Len(order)
        /\ DOMAIN order' = 1..(Len(order) + 1)
        /\ \A k \in 1..Len(order) : order'[k] = order[k]
        /\ order'[Len(order) + 1] = w
    BY AppendProperties DEF TypeOK
  <2>5. j # Len(order) + 1
    BY <2>2, <2>3, <2>4
  <2>6. i \in DOMAIN order /\ j \in DOMAIN order
    BY <2>2, <2>4, <2>5
  <2> QED
    BY <2>2, <2>4, <2>6 DEF Before
<1> QED
  BY <1>2, <1>3 DEF IsNext

-----------------------------------------------------------------------------
(* The invariant is inductive. *)

\* Every step keeps the order free of repetitions.
LEMMA EnteredOnceStep ==
    ASSUME TypeOK, EnteredOnce, [Next]_vars PROVE EnteredOnce'
<1>1. ASSUME NEW w \in UnitIds, NEW at \in {"requested", "starting"}, Enter(w, at)
      PROVE  EnteredOnce'
  <2>1. /\ Len(order) \in Nat
        /\ DOMAIN order = 1..Len(order)
        /\ DOMAIN order' = 1..(Len(order) + 1)
        /\ \A k \in 1..Len(order) : order'[k] = order[k] /\ order[k] \in UnitIds
        /\ order'[Len(order) + 1] = w
    BY <1>1, AppendProperties DEF TypeOK, Enter
  <2>2. \A k \in DOMAIN order : order[k] # w
    BY <1>1 DEF EnteredOnce, Enter
  <2>3. ASSUME NEW k \in DOMAIN order' PROVE state'[order'[k]] # "absent"
    BY <1>1, <2>1, <2>2 DEF EnteredOnce, Enter, Held, TypeOK
  <2>4. ASSUME NEW i \in DOMAIN order', NEW j \in DOMAIN order',
               order'[i] = order'[j]
        PROVE  i = j
    BY <2>1, <2>2, <2>4 DEF EnteredOnce
  <2> QED
    BY <2>3, <2>4 DEF EnteredOnce, Held
<1>2. ASSUME UNCHANGED order, \A u \in UnitIds : Held(u) => Held(u)'
      PROVE  EnteredOnce'
  <2>1. \A i \in DOMAIN order : order[i] \in UnitIds
    BY DEF TypeOK
  <2> QED
    BY <1>2, <2>1 DEF EnteredOnce
<1>3. ASSUME NEW u \in UnitIds, PlainCall(u), ~Request(u), ~Listed(u)
      PROVE  UNCHANGED order /\ \A v \in UnitIds : Held(v) => Held(v)'
  <2> USE DEF TypeOK, Held, Move
  <2>1. ASSUME NEW why \in AskedCauses, Drain(u, why) \/ Retire(u, why)
        PROVE  UNCHANGED order /\ \A v \in UnitIds : Held(v) => Held(v)'
    BY <2>1 DEF Drain, Retire
  <2>2. ASSUME NEW ok \in BOOLEAN, Reachable(u, ok)
        PROVE  UNCHANGED order /\ \A v \in UnitIds : Held(v) => Held(v)'
    BY <2>2 DEF Reachable
  <2>3. ASSUME NEW ok \in BOOLEAN, Healthy(u, ok)
        PROVE  UNCHANGED order /\ \A v \in UnitIds : Held(v) => Held(v)'
    BY <2>3 DEF Healthy
  <2>4. CASE Started(u)
    BY <2>4 DEF Started
  <2> QED
    BY <1>3, <2>1, <2>2, <2>3, <2>4 DEF PlainCall
<1>4. ASSUME NEW u \in UnitIds, NEW issued \in ProofOffsets, NEW proof \in Proofs,
             NEW phase \in Phases, Register(u, issued, proof, phase)
      PROVE  UNCHANGED order /\ \A v \in UnitIds : Held(v) => Held(v)'
  BY <1>4 DEF Register, Move, TypeOK, Held
<1>5. ASSUME NEW bound \in Bounds, Sweep(bound)
      PROVE  UNCHANGED order /\ \A v \in UnitIds : Held(v) => Held(v)'
  BY <1>5 DEF Sweep, TypeOK, Held
<1>6. CASE UNCHANGED <<order, state>>
  BY <1>2, <1>6 DEF Held
<1> QED
  BY <1>1, <1>2, <1>3, <1>4, <1>5, <1>6
     DEF Next, Request, Listed, vars, Report, Commit, CollectBegin,
         CollectAnswer, CollectUnanswered, CollectRecord, Tick

\* The history keeps its types.
LEMMA HistoryTypeStep ==
    ASSUME HistoryTypeOK, [HistoryNext]_allVars PROVE HistoryTypeOK'
<1> USE PoolAssumption DEF PoolAssumption, HistoryTypeOK, historyVars
<1>0. ASSUME NEW u \in UnitIds, NEW load \in Loads, ReportSeen(u, load)
      PROVE  HistoryTypeOK'
  BY <1>0 DEF ReportSeen
<1>1. ASSUME NEW u \in UnitIds, NEW load \in Loads, CommitSeen(u, load)
      PROVE  HistoryTypeOK'
  BY <1>1 DEF CommitSeen
<1>2. ASSUME NEW u \in UnitIds, NEW issued \in ProofOffsets, NEW proof \in Proofs,
             NEW phase \in Phases, RegisterSeen(u, issued, proof, phase)
      PROVE  HistoryTypeOK'
  <2>1. [issued |-> issued, made |-> proof.made] \in [issued : Int, made : Int]
    BY DEF Proofs
  <2> QED
    BY <1>2, <2>1 DEF RegisterSeen
<1>3. ASSUME NEW c \in Collects, NEW u \in UnitIds, NEW load \in Answered,
             AnswerSeen(c, u, load)
      PROVE  HistoryTypeOK'
  BY <1>3 DEF AnswerSeen
<1>4. ASSUME NEW c \in Collects, NEW u \in UnitIds, RecordSeen(c, u)
      PROVE  HistoryTypeOK'
  BY <1>4 DEF RecordSeen
<1>5. CASE TickSeen
  BY <1>5 DEF TickSeen
<1>6. CASE UNCHANGED historyVars
  BY <1>6
<1> QED
  BY <1>0, <1>1, <1>2, <1>3, <1>4, <1>5, <1>6 DEF HistoryNext, allVars

\* What was given to a unit only grows.
LEMMA MomentsStep ==
    ASSUME HistoryTypeOK, MomentsAreOld, [HistoryNext]_allVars PROVE MomentsAreOld'
<1> USE DEF HistoryTypeOK, MomentsAreOld
<1>1. ASSUME NEW w \in UnitIds, NEW load \in Loads, CommitSeen(w, load)
      PROVE  MomentsAreOld'
  <2>1. /\ given' = [given EXCEPT ![w] = @ + load]
        /\ moments' = [moments EXCEPT ![w] = @ \cup {given[w] + load}]
        /\ load \in Nat
    BY <1>1, PoolAssumption DEF CommitSeen, PoolAssumption
  <2> SUFFICES ASSUME NEW u \in UnitIds, NEW old \in moments'[u]
               PROVE  old <= given'[u]
    OBVIOUS
  <2>2. CASE u = w
    <3>1. given'[u] = given[w] + load /\ old \in moments[w] \cup {given[w] + load}
      BY <2>1, <2>2
    <3>2. given[w] \in Nat /\ moments[w] \subseteq Nat
      OBVIOUS
    <3> QED
      BY <2>1, <3>1, <3>2
  <2>3. CASE u # w
    BY <2>1, <2>3
  <2> QED
    BY <2>2, <2>3
<1>2. CASE UNCHANGED <<given, moments>>
  BY <1>2
<1> QED
  BY <1>1, <1>2
     DEF HistoryNext, allVars, historyVars, RegisterSeen, ReportSeen,
         AnswerSeen, RecordSeen, TickSeen

\* What a Collect carries stays older than the unit it asked.
LEMMA CarriedStep ==
    ASSUME PoolInv, HistoryInv, [HistoryNext]_allVars PROVE CarriedIsOld'
<1> USE DEF PoolInv, HistoryInv
<1>t. HistoryTypeOK'
  BY HistoryTypeStep
<1>1. ASSUME UNCHANGED <<seen, answer>>,
             \A u \in UnitIds : given'[u] >= given[u],
             \A c \in Collects, u \in UnitIds : IsNext(c, u)' => IsNext(c, u)
      PROVE  CarriedIsOld'
  <2> SUFFICES ASSUME NEW c \in Collects, NEW u \in UnitIds,
                      answer'[c] # NoAnswer, IsNext(c, u)'
               PROVE  seen'[c] <= given'[u]
    BY DEF CarriedIsOld, NoAnswer
  <2>1. seen[c] <= given[u] /\ given'[u] >= given[u]
    BY <1>1 DEF CarriedIsOld
  <2>2. seen[c] \in Int /\ given[u] \in Int /\ given'[u] \in Int
    BY <1>t DEF HistoryTypeOK
  <2> QED
    BY <1>1, <2>1, <2>2
<1>2. CASE UNCHANGED <<seen, answer, given, order, asking>>
  BY <1>2 DEF CarriedIsOld, IsNext, Before
<1>3. ASSUME NEW w \in UnitIds, NEW at \in {"requested", "starting"},
             Enter(w, at), UNCHANGED historyVars
      PROVE  CarriedIsOld'
  <2>1. UNCHANGED <<seen, answer, given, asking>>
    BY <1>3 DEF Enter, historyVars, collectVars
  <2>2. ASSUME NEW c \in Collects, NEW u \in UnitIds, IsNext(c, u)'
        PROVE  IsNext(c, u)
    BY <1>3, <2>1, <2>2, EnteringIsNotAsked DEF Enter
  <2>3. \A u \in UnitIds : given'[u] >= given[u]
    BY <2>1 DEF HistoryTypeOK
  <2> QED
    BY <1>1, <2>1, <2>2, <2>3
<1>4. ASSUME NEW w \in UnitIds, NEW load \in Loads, CommitSeen(w, load)
      PROVE  CarriedIsOld'
  <2>1. UNCHANGED <<seen, answer, order, asking>>
    BY <1>4 DEF CommitSeen, Commit, collectVars
  <2>2. \A u \in UnitIds : given'[u] >= given[u]
    BY <1>4, PoolAssumption DEF HistoryTypeOK, CommitSeen, PoolAssumption
  <2>3. \A c \in Collects, u \in UnitIds : IsNext(c, u)' => IsNext(c, u)
    BY <2>1 DEF IsNext, Before
  <2> QED
    BY <1>1, <2>1, <2>2, <2>3
\* A step of one Collect that leaves it carrying nothing.
<1>5. ASSUME NEW d \in Collects, answer'[d] = NoAnswer,
             UNCHANGED <<given, order>>,
             \A c \in Collects \ {d} : /\ seen'[c] = seen[c]
                                       /\ answer'[c] = answer[c]
                                       /\ asking'[c] = asking[c]
      PROVE  CarriedIsOld'
  <2> SUFFICES ASSUME NEW c \in Collects \ {d}, NEW u \in UnitIds,
                      answer'[c] # NoAnswer, IsNext(c, u)'
               PROVE  seen'[c] <= given'[u]
    BY <1>5 DEF CarriedIsOld, NoAnswer
  <2> QED
    BY <1>5 DEF CarriedIsOld, IsNext, Before
<1>6. ASSUME NEW d \in Collects, CollectBegin(d), UNCHANGED historyVars
      PROVE  CarriedIsOld'
  <2>1. answer[d] = NoAnswer
    BY <1>6 DEF CollectBegin, CollectsAskRegistered
  <2> QED
    BY <1>5, <1>6, <2>1 DEF CollectBegin, historyVars, TypeOK
<1>7. ASSUME NEW d \in Collects, NEW w \in UnitIds, NEW load \in Answered,
             AnswerSeen(d, w, load)
      PROVE  CarriedIsOld'
  <2> SUFFICES ASSUME NEW c \in Collects, NEW u \in UnitIds,
                      answer'[c] # NoAnswer, IsNext(c, u)'
               PROVE  seen'[c] <= given'[u]
    BY DEF CarriedIsOld, NoAnswer
  <2>1. IsNext(d, w) /\ IsNext(c, u)
    BY <1>7 DEF AnswerSeen, CollectAnswer, IsNext, Before
  <2>2. CASE c = d
    <3>1. u = w
      BY <2>1, <2>2, OneIsNext
    <3>2. seen'[c] = given[u] /\ given' = given
      BY <1>7, <2>2, <3>1 DEF AnswerSeen, HistoryTypeOK
    <3> QED
      BY <3>2 DEF HistoryTypeOK
  <2>3. CASE c # d
    BY <1>7, <2>1, <2>3 DEF AnswerSeen, CollectAnswer, CarriedIsOld,
                            HistoryTypeOK, TypeOK
  <2> QED
    BY <2>2, <2>3
<1>8. ASSUME NEW d \in Collects, NEW w \in UnitIds, CollectUnanswered(d, w),
             UNCHANGED historyVars
      PROVE  CarriedIsOld'
  BY <1>5, <1>8 DEF CollectUnanswered, historyVars, TypeOK
<1>9. ASSUME NEW d \in Collects, NEW w \in UnitIds, RecordSeen(d, w)
      PROVE  CarriedIsOld'
  BY <1>5, <1>9 DEF RecordSeen, CollectRecord, HistoryTypeOK, TypeOK
<1>10. ASSUME NEW u \in UnitIds, PlainCall(u), ~Request(u), ~Listed(u),
              UNCHANGED historyVars
       PROVE  UNCHANGED <<seen, answer, given, order, asking>>
  BY <1>10 DEF PlainCall, Started, Drain, Retire, Reachable, Healthy,
               historyVars, collectVars
<1>11. ASSUME NEW u \in UnitIds, NEW issued \in ProofOffsets,
              NEW proof \in Proofs, NEW phase \in Phases,
              RegisterSeen(u, issued, proof, phase)
       PROVE  UNCHANGED <<seen, answer, given, order, asking>>
  BY <1>11 DEF RegisterSeen, Register, collectVars
<1>12. ASSUME NEW u \in UnitIds, NEW load \in Loads, ReportSeen(u, load)
       PROVE  UNCHANGED <<seen, answer, given, order, asking>>
  BY <1>12 DEF ReportSeen, Report, collectVars
<1>13. ASSUME NEW bound \in Bounds, Sweep(bound), UNCHANGED historyVars
       PROVE  UNCHANGED <<seen, answer, given, order, asking>>
  BY <1>13 DEF Sweep, collectVars, historyVars
<1>14. CASE TickSeen
  BY <1>2, <1>14 DEF TickSeen, Tick, collectVars
<1>15. CASE UNCHANGED allVars
  BY <1>2, <1>15 DEF allVars, vars, historyVars, collectVars
<1>16. ASSUME NEW u \in UnitIds, PlainCall(u), UNCHANGED historyVars
       PROVE  CarriedIsOld'
  BY <1>2, <1>3, <1>10, <1>16 DEF Request, Listed
<1> QED
  BY <1>2, <1>4, <1>6, <1>7, <1>8, <1>9, <1>11, <1>12, <1>13, <1>14, <1>15,
     <1>16 DEF HistoryNext

-----------------------------------------------------------------------------
(* What a step does to the numbers of a row. *)

\* A placement commits a load to the unit.
GivenMore(w, load) ==
    /\ given' = [given EXCEPT ![w] = @ + load]
    /\ committed' = [committed EXCEPT ![w] = @ + load]
    /\ mark' = mark

\* The row takes an answer the unit made when it had been given old.
Replaced(w, old) ==
    /\ mark' = [mark EXCEPT ![w] = old]
    /\ committed' = [committed EXCEPT ![w] = 0]
    /\ given' = given

\* A step commits, takes an answer the unit made by now, or leaves the numbers
\* alone.
LEMMA NumbersStep ==
    ASSUME PoolInv, HistoryInv, [HistoryNext]_allVars
    PROVE  \/ UNCHANGED <<given, mark, committed>>
           \/ \E w \in UnitIds, load \in Nat : GivenMore(w, load)
           \/ \E w \in UnitIds, old \in Nat :
                /\ old <= given[w]
                /\ old < given[w] => TakesEarlierAnswer(w)
                /\ Replaced(w, old)
<1> DEFINE Goal == \/ UNCHANGED <<given, mark, committed>>
                   \/ \E w \in UnitIds, load \in Nat : GivenMore(w, load)
                   \/ \E w \in UnitIds, old \in Nat :
                        /\ old <= given[w]
                        /\ old < given[w] => TakesEarlierAnswer(w)
                        /\ Replaced(w, old)
<1>n. /\ given \in [UnitIds -> Nat]
      /\ moments \in [UnitIds -> SUBSET Nat]
      /\ seen \in [Collects -> Nat]
      /\ mark \in [UnitIds -> Nat]
      /\ committed \in [UnitIds -> Nat]
      /\ age \in [UnitIds -> {Never} \cup (0..AgeCap)]
      /\ asking \in [Collects -> SUBSET UnitIds]
  BY DEF HistoryInv, HistoryTypeOK, PoolInv, TypeOK
<1>1. ASSUME NEW w \in UnitIds, NEW load \in Loads, CommitSeen(w, load)
      PROVE  Goal
  <2>1. GivenMore(w, load) /\ load \in Nat
    BY <1>1, PoolAssumption DEF CommitSeen, Commit, GivenMore, PoolAssumption
  <2> QED
    BY <2>1
<1>2. ASSUME NEW w \in UnitIds, NEW load \in Loads, ReportSeen(w, load)
      PROVE  Goal
  <2>1. PICK old \in IF ReportsAtOnce THEN {given[w]} ELSE moments[w] :
            mark' = [mark EXCEPT ![w] = old]
    BY <1>2 DEF ReportSeen
  <2>2. old \in Nat /\ old <= given[w]
    BY <1>n, <2>1 DEF HistoryInv, MomentsAreOld
  <2>3. /\ Replaced(w, old)
        /\ age' = [age EXCEPT ![w] = 0] /\ UNCHANGED collectVars
    BY <1>2, <2>1 DEF ReportSeen, Report, RecordLoad, Replaced
  <2>4. old < given[w] => TakesEarlierAnswer(w)
    BY <1>n, <2>3 DEF Replaced, TakesEarlierAnswer
  <2> QED
    BY <2>2, <2>3, <2>4
<1>3. ASSUME NEW c \in Collects, NEW w \in UnitIds, RecordSeen(c, w)
      PROVE  Goal
  <2>1. IsNext(c, w) /\ answer[c] # NoAnswer
    BY <1>3 DEF RecordSeen, CollectRecord
  <2>2. seen[c] \in Nat /\ seen[c] <= given[w]
    BY <1>n, <2>1 DEF HistoryInv, CarriedIsOld
  <2>3. CASE answer[c] = NotALoad
    BY <1>3, <2>3 DEF RecordSeen, CollectRecord, loadVars
  <2>4. CASE answer[c] # NotALoad
    <3>1. answer[c] \in Loads
      BY <2>1, <2>4 DEF PoolInv, TypeOK
    <3>3. /\ Replaced(w, seen[c])
          /\ age' = [age EXCEPT ![w] = 0]
          /\ asking' = [asking EXCEPT ![c] = @ \ {w}]
      BY <1>3, <2>4 DEF RecordSeen, CollectRecord, RecordLoad, Replaced
    <3>2. seen[c] < given[w] => TakesEarlierAnswer(w)
      BY <1>n, <2>1, <3>1, <3>3 DEF Replaced, TakesEarlierAnswer
    <3> QED
      BY <2>2, <3>2, <3>3
  <2> QED
    BY <2>3, <2>4
<1>4. ASSUME NEW u \in UnitIds, PlainCall(u), UNCHANGED historyVars
      PROVE  Goal
  <2>1. ASSUME NEW why \in AskedCauses, Drain(u, why) \/ Retire(u, why)
        PROVE  UNCHANGED loadVars
    BY <2>1 DEF Drain, Retire
  <2>2. ASSUME NEW ok \in BOOLEAN, Reachable(u, ok) \/ Healthy(u, ok)
        PROVE  UNCHANGED loadVars
    BY <2>2 DEF Reachable, Healthy
  <2>3. UNCHANGED loadVars
    BY <1>4, <2>1, <2>2 DEF PlainCall, Request, Listed, Enter, Started
  <2> QED
    BY <1>4, <2>3 DEF loadVars, historyVars
<1>5. ASSUME NEW u \in UnitIds, NEW issued \in ProofOffsets,
             NEW proof \in Proofs, NEW phase \in Phases,
             RegisterSeen(u, issued, proof, phase)
      PROVE  Goal
  BY <1>5 DEF RegisterSeen, Register, loadVars
<1>6. ASSUME NEW bound \in Bounds, Sweep(bound), UNCHANGED historyVars
      PROVE  Goal
  BY <1>6 DEF Sweep, loadVars, historyVars
<1>7. ASSUME NEW c \in Collects, UNCHANGED historyVars,
             \/ CollectBegin(c)
             \/ \E u \in UnitIds : CollectUnanswered(c, u)
      PROVE  Goal
  BY <1>7 DEF CollectBegin, CollectUnanswered, loadVars, historyVars
<1>8. ASSUME NEW c \in Collects, NEW u \in UnitIds, NEW load \in Answered,
             AnswerSeen(c, u, load)
      PROVE  Goal
  BY <1>8 DEF AnswerSeen, CollectAnswer, loadVars
<1>9. CASE TickSeen
  BY <1>9 DEF TickSeen, Tick
<1>10. CASE UNCHANGED allVars
  BY <1>10 DEF allVars, vars, loadVars, historyVars
<1> QED
  BY <1>1, <1>2, <1>3, <1>4, <1>5, <1>6, <1>7, <1>8, <1>9, <1>10 DEF HistoryNext

\* What a step does to the part of a load the row does not carry: it grows only
\* where an answer older than a commitment is taken, and the row stays covered.
LEMMA LostStep ==
    ASSUME PoolInv, HistoryInv, [HistoryNext]_allVars
    PROVE  /\ RowIsCovered'
           /\ \A u \in UnitIds : Lost(u)' > Lost(u) => TakesEarlierAnswer(u)
<1> DEFINE Goal == /\ RowIsCovered'
                   /\ \A u \in UnitIds : Lost(u)' > Lost(u) => TakesEarlierAnswer(u)
<1>d. /\ given \in [UnitIds -> Nat]
      /\ mark \in [UnitIds -> Nat]
      /\ committed \in [UnitIds -> Nat]
      /\ \A u \in UnitIds : mark[u] + committed[u] <= given[u]
  BY DEF PoolInv, HistoryInv, TypeOK, HistoryTypeOK, RowIsCovered
<1>1. CASE UNCHANGED <<given, mark, committed>>
  BY <1>1, <1>d DEF Lost, RowIsCovered
<1>2. ASSUME NEW w \in UnitIds, NEW load \in Nat, GivenMore(w, load)
      PROVE  Goal
  <2>1. RowIsCovered'
    BY <1>2, <1>d DEF GivenMore, RowIsCovered
  <2>2. ASSUME NEW u \in UnitIds PROVE ~(Lost(u)' > Lost(u))
    BY <1>2, <1>d DEF GivenMore, Lost
  <2> QED
    BY <2>1, <2>2
<1>3. ASSUME NEW w \in UnitIds, NEW old \in Nat, old <= given[w],
             old < given[w] => TakesEarlierAnswer(w), Replaced(w, old)
      PROVE  Goal
  <2>1. RowIsCovered'
    BY <1>3, <1>d DEF Replaced, RowIsCovered
  <2>2. ASSUME NEW u \in UnitIds, Lost(u)' > Lost(u) PROVE TakesEarlierAnswer(u)
    <3>1. u = w /\ old < given[w]
      BY <1>3, <1>d, <2>2 DEF Replaced, Lost
    <3> QED
      BY <1>3, <3>1
  <2> QED
    BY <2>1, <2>2
<1> QED
  BY <1>1, <1>2, <1>3, NumbersStep

-----------------------------------------------------------------------------
(* The properties. *)

\* The invariants of the pool and of its history hold throughout.
THEOREM HistoryInvariant == HistorySpec => [](PoolInv /\ HistoryInv)
<1>1. HistoryInit => HistoryInv
  <2> SUFFICES ASSUME HistoryInit PROVE HistoryInv
    OBVIOUS
  <2>1. HistoryTypeOK /\ RowIsCovered /\ MomentsAreOld
    BY DEF HistoryInit, Init, HistoryTypeOK, RowIsCovered, MomentsAreOld
  <2>2. EnteredOnce /\ CarriedIsOld
    BY DEF HistoryInit, Init, EnteredOnce, CarriedIsOld
  <2> QED
    BY <2>1, <2>2 DEF HistoryInv
<1>2. PoolInv /\ HistoryInv /\ [HistoryNext]_allVars => HistoryInv'
  BY HistoryTypeStep, EnteredOnceStep, MomentsStep, CarriedStep, LostStep,
     HistoryStepIsStep DEF HistoryInv, PoolInv
<1> QED
  BY <1>1, <1>2, HistoryImplementsPool, PoolInvariant, PTL DEF HistorySpec

\* A placement is never counted twice (RecordLoad, Commit, Collect).
THEOREM NoPlacementCountsTwice == HistorySpec => []NeverCountedTwice
<1>1. PoolInv /\ HistoryInv => NeverCountedTwice
  <2> SUFFICES ASSUME PoolInv, HistoryInv, NEW u \in UnitIds PROVE Lost(u) >= 0
    BY DEF NeverCountedTwice
  <2>1. given[u] \in Nat /\ mark[u] \in Nat /\ committed[u] \in Nat
    BY DEF PoolInv, TypeOK, HistoryInv, HistoryTypeOK
  <2>2. mark[u] + committed[u] <= given[u]
    BY DEF HistoryInv, RowIsCovered
  <2> QED
    BY <2>1, <2>2 DEF Lost
<1> QED
  BY <1>1, HistoryInvariant, PTL

\* What drops out of an effective load drops out where an answer older than a
\* commitment is recorded, a Collect's or that of a caller of Report, and in no
\* other step (Report, Commit, Collect).
THEOREM CommitmentsAreLostToEarlierAnswersOnly ==
    HistorySpec => LostOnlyToAnEarlierAnswer
<1>1. PoolInv /\ HistoryInv /\ [HistoryNext]_allVars =>
        [\A u \in UnitIds :
            Lost(u)' > Lost(u) => TakesEarlierAnswer(u)]_allVars
  BY LostStep
<1> QED
  BY <1>1, HistoryInvariant, PTL DEF HistorySpec, LostOnlyToAnEarlierAnswer

-----------------------------------------------------------------------------
(* Registration. *)

\* The moments Register takes for near, of all there are: those within
\* MaxProofAge of now, and every one that is the whole of time.Duration ahead
\* or more, because the distance saturates at the smallest duration and the
\* negation of that is itself (Register, time.Time.Sub).
THEOREM FarAheadIsNear ==
    \A issued \in Int :
        ProofAge(issued) <= MaxProofAge <=>
            issued \in -MaxProofAge..MaxProofAge \/ issued <= MinDuration
<1>1. MaxProofAge \in Nat /\ MaxDuration \in Nat /\ MaxProofAge < MaxDuration
  BY PoolAssumption DEF PoolAssumption
<1> QED
  BY <1>1 DEF ProofAge, Saturate, Negate, MinDuration

\* A proof that verifies is of a moment of the same second as the one stated
\* (payload).
LEMMA WithinTheSecond ==
    ASSUME NEW proof, NEW u, NEW issued \in Int, proof.made \in Int,
           NEW phase \in Phases, Verifies(proof, u, issued, phase)
    PROVE  proof.made - issued \in -(TicksPerSecond - 1)..(TicksPerSecond - 1)
<1> DEFINE t == TicksPerSecond
           a == phase - proof.made
           b == phase - issued
<1>1. t \in Nat \ {0} /\ a \in Int /\ b \in Int
  BY PoolAssumption DEF PoolAssumption, Phases
<1>2. a \div t = b \div t
  BY DEF Verifies, SecondOf
<1>3. proof.made - issued = b - a
  BY PoolAssumption DEF PoolAssumption, Phases
<1> HIDE DEF t, a, b
<1>4. a = t * (a \div t) + (a % t) /\ a % t \in 0..(t - 1) /\ a \div t \in Int
  BY <1>1
<1>5. b = t * (b \div t) + (b % t) /\ b % t \in 0..(t - 1)
  BY <1>1
<1>6. b - a = (b % t) - (a % t)
  <2> DEFINE q == t * (a \div t)
  <2>1. q \in Int /\ a = q + (a % t) /\ b = q + (b % t)
    BY <1>1, <1>2, <1>4, <1>5
  <2> HIDE DEF q
  <2> QED
    BY <1>4, <1>5, <2>1
<1>7. b - a \in -(t - 1)..(t - 1)
  BY <1>1, <1>4, <1>5, <1>6
<1> QED
  BY <1>3, <1>7 DEF t

\* Whoever is registered stated a moment within MaxProofAge of now, before or
\* after it, or the whole of time.Duration ahead, and proved one of the same
\* second (Register, Prove, payload).
THEOREM RegistrationIsRecent == HistorySpec => []AdmittedOnARecentProof
<1> DEFINE Inv == /\ registered \in [UnitIds -> BOOLEAN]
                  /\ provedOn \in [UnitIds -> [issued : Int, made : Int]]
                  /\ AdmittedOnARecentProof
<1>1. HistoryInit => Inv
  BY DEF HistoryInit, Init, AdmittedOnARecentProof
<1>2. TypeOK /\ TypeOK' /\ Inv /\ [HistoryNext]_allVars => Inv'
  <2> SUFFICES ASSUME TypeOK, TypeOK', Inv, [HistoryNext]_allVars PROVE Inv'
    OBVIOUS
  <2>1. ASSUME NEW u \in UnitIds, NEW issued \in ProofOffsets,
               NEW proof \in Proofs, NEW phase \in Phases,
               RegisterSeen(u, issued, proof, phase)
        PROVE  Inv'
    <3>1. /\ registered' = [registered EXCEPT ![u] = TRUE]
          /\ provedOn' = [provedOn EXCEPT
                            ![u] = [issued |-> issued, made |-> proof.made]]
          /\ Verifies(proof, u, issued, phase)
          /\ ProofAge(issued) <= MaxProofAge
      BY <2>1 DEF RegisterSeen, Register
    <3>2. issued \in Int /\ proof.made \in Int
      BY PoolAssumption DEF PoolAssumption, Proofs
    <3>3. issued \in -MaxProofAge..MaxProofAge \/ issued <= MinDuration
      BY <3>1, <3>2, FarAheadIsNear
    <3>4. proof.made - issued \in -(TicksPerSecond - 1)..(TicksPerSecond - 1)
      BY <3>1, <3>2, WithinTheSecond
    <3> QED
      BY <3>1, <3>2, <3>3, <3>4 DEF AdmittedOnARecentProof
  <2>2. CASE UNCHANGED <<registered, provedOn>>
    BY <2>2 DEF AdmittedOnARecentProof
  <2>3. ASSUME NEW u \in UnitIds, PlainCall(u), UNCHANGED historyVars
        PROVE  UNCHANGED <<registered, provedOn>>
    <3>1. ASSUME NEW why \in AskedCauses, Drain(u, why) \/ Retire(u, why)
          PROVE  UNCHANGED registered
      BY <3>1 DEF Drain, Retire
    <3>2. ASSUME NEW ok \in BOOLEAN, Reachable(u, ok) \/ Healthy(u, ok)
          PROVE  UNCHANGED registered
      BY <3>2 DEF Reachable, Healthy
    <3> QED
      BY <2>3, <3>1, <3>2 DEF PlainCall, Request, Listed, Enter, Started,
                              historyVars
  <2>4. ASSUME NEW u \in UnitIds, NEW load \in Loads,
               ReportSeen(u, load) \/ CommitSeen(u, load)
        PROVE  UNCHANGED <<registered, provedOn>>
    BY <2>4 DEF ReportSeen, Report, CommitSeen, Commit
  <2>5. ASSUME NEW c \in Collects, CollectBegin(c), UNCHANGED historyVars
        PROVE  UNCHANGED <<registered, provedOn>>
    BY <2>5 DEF CollectBegin, historyVars
  <2>6. ASSUME NEW c \in Collects, NEW u \in UnitIds,
               \/ \E load \in Answered : AnswerSeen(c, u, load)
               \/ CollectUnanswered(c, u) /\ UNCHANGED historyVars
               \/ RecordSeen(c, u)
        PROVE  UNCHANGED <<registered, provedOn>>
    BY <2>6 DEF AnswerSeen, CollectAnswer, CollectUnanswered, RecordSeen,
                CollectRecord, historyVars
  <2>7. ASSUME NEW bound \in Bounds, Sweep(bound), UNCHANGED historyVars
        PROVE  UNCHANGED <<registered, provedOn>>
    BY <2>7 DEF Sweep, historyVars
  <2>8. CASE TickSeen
    BY <2>2, <2>8 DEF TickSeen, Tick
  <2>9. CASE UNCHANGED allVars
    BY <2>2, <2>9 DEF allVars, vars, historyVars
  <2> QED
    BY <2>1, <2>2, <2>3, <2>4, <2>5, <2>6, <2>7, <2>8, <2>9 DEF HistoryNext
<1> QED
  BY <1>1, <1>2, HistoryImplementsPool, TypeCorrect, PTL DEF HistorySpec
=============================================================================
