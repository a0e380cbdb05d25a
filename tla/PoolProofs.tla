----------------------------- MODULE PoolProofs -----------------------------
(***************************************************************************)
(* What Pool does for every set of units, of Collects, of loads and of     *)
(* bounds. PoolInv is the inductive invariant; the properties of Pool      *)
(* follow from it.                                                         *)
(***************************************************************************)
EXTENDS Pool, SequenceTheorems, TLAPS

\* A unit the pool may ask has registered: what makes the port of a Collect's
\* snapshot, and Sweep's clause for units that never reported, sound.
AnsweringIsRegistered ==
    \A u \in UnitIds : state[u] \in {"admitting", "draining"} => registered[u]

\* An identifier without a row still has the inputs a new row starts with, so
\* that entering the pool cannot make a unit unhealthy or registered at once.
AbsentIsBlank ==
    \A u \in UnitIds : ~Held(u) => healthy[u] /\ ~registered[u]

PoolInv ==
    /\ TypeOK
    /\ AdmittingIsVerified
    /\ UnhealthyIsGone
    /\ CauseTold
    /\ AnsweringIsRegistered
    /\ AbsentIsBlank
    /\ CollectsAskRegistered

-----------------------------------------------------------------------------
\* A step keeps the types, whatever the rows say.
LEMMA TypeStep == TypeOK /\ [Next]_vars => TypeOK'
<1> SUFFICES ASSUME TypeOK, [Next]_vars PROVE TypeOK'
  OBVIOUS
<1> USE PoolAssumption DEF PoolAssumption, TypeOK, States, Never, NoAnswer,
                           NotALoad, inputVars, loadVars, collectVars
<1>c. /\ AskedCauses \subseteq Causes
      /\ {NoCause, "health failed", "reachability failed",
          "the signal went stale"} \subseteq Causes
  BY DEF Causes, OwnCauses
<1>1. ASSUME NEW u \in UnitIds, PlainCall(u) PROVE TypeOK'
  <2>1. ASSUME NEW at \in {"requested", "starting"}, Enter(u, at) PROVE TypeOK'
    <3>1. order' \in Seq(UnitIds)
      BY <2>1, AppendProperties DEF Enter
    <3> QED
      BY <2>1, <3>1 DEF Enter
  <2>2. CASE Started(u)
    BY <2>2 DEF Started
  <2>m. ASSUME NEW to \in States, NEW why \in Causes, Move(u, to, why)
        PROVE state' \in [UnitIds -> States] /\ cause' \in [UnitIds -> Causes]
    BY <2>m DEF Move
  <2>3. ASSUME NEW why \in AskedCauses, Drain(u, why) \/ Retire(u, why)
        PROVE TypeOK'
    <3>1. state' \in [UnitIds -> States] /\ cause' \in [UnitIds -> Causes]
      BY <2>3, <2>m, <1>c DEF Drain, Retire
    <3> QED
      BY <2>3, <3>1 DEF Drain, Retire
  <2>4. ASSUME NEW ok \in BOOLEAN, Reachable(u, ok) PROVE TypeOK'
    <3>1. state' \in [UnitIds -> States] /\ cause' \in [UnitIds -> Causes]
      BY <2>4, <2>m, <1>c DEF Reachable
    <3> QED
      BY <2>4, <3>1 DEF Reachable
  <2>5. ASSUME NEW ok \in BOOLEAN, Healthy(u, ok) PROVE TypeOK'
    <3>1. state' \in [UnitIds -> States] /\ cause' \in [UnitIds -> Causes]
      BY <2>5, <2>m, <1>c DEF Healthy
    <3> QED
      BY <2>5, <3>1 DEF Healthy
  <2> QED
    BY <1>1, <2>1, <2>2, <2>3, <2>4, <2>5 DEF PlainCall, Request, Listed
<1>2. ASSUME NEW u \in UnitIds, NEW issued \in ProofOffsets, NEW proof \in Proofs,
             NEW phase \in Phases, Register(u, issued, proof, phase)
      PROVE TypeOK'
  BY <1>2, <1>c DEF Register, Move
<1>3. ASSUME NEW u \in UnitIds, NEW load \in Loads, Commit(u, load)
      PROVE TypeOK'
  BY <1>3 DEF Commit
<1>r. ASSUME NEW u \in UnitIds, NEW load \in Nat, RecordLoad(u, load)
      PROVE /\ reported' \in [UnitIds -> Nat]
            /\ committed' \in [UnitIds -> Nat]
            /\ age' \in [UnitIds -> {Never} \cup (0..AgeCap)]
  BY <1>r DEF RecordLoad
<1>11. ASSUME NEW u \in UnitIds, NEW load \in Loads, Report(u, load)
      PROVE TypeOK'
  BY <1>11, <1>r DEF Report
<1>4. ASSUME NEW c \in Collects, CollectBegin(c) PROVE TypeOK'
  BY <1>4 DEF CollectBegin
<1>5. ASSUME NEW c \in Collects, NEW u \in UnitIds, NEW load \in Answered,
             CollectAnswer(c, u, load)
      PROVE TypeOK'
  BY <1>5 DEF CollectAnswer, Answered
<1>6. ASSUME NEW c \in Collects, NEW u \in UnitIds, CollectUnanswered(c, u)
      PROVE TypeOK'
  BY <1>6 DEF CollectUnanswered
<1>7. ASSUME NEW c \in Collects, NEW u \in UnitIds, CollectRecord(c, u)
      PROVE TypeOK'
  <2>1. answer[c] \in Nat \/ answer[c] = NotALoad
    BY <1>7 DEF CollectRecord
  <2>2. /\ reported' \in [UnitIds -> Nat]
        /\ committed' \in [UnitIds -> Nat]
        /\ age' \in [UnitIds -> {Never} \cup (0..AgeCap)]
    <3>1. CASE answer[c] = NotALoad
      BY <1>7, <3>1 DEF CollectRecord
    <3> QED
      BY <1>7, <2>1, <3>1, <1>r DEF CollectRecord
  <2> QED
    BY <1>7, <2>2 DEF CollectRecord
<1>8. ASSUME NEW bound \in Bounds, Sweep(bound) PROVE TypeOK'
  BY <1>8, <1>c DEF Sweep
<1>9. CASE Tick
  BY <1>9 DEF Tick
<1>10. CASE UNCHANGED vars
  BY <1>10 DEF vars
<1> QED
  BY <1>1, <1>2, <1>3, <1>4, <1>5, <1>6, <1>7, <1>8, <1>9, <1>10, <1>11
  DEF Next

\* The variables keep their types, in every instance.
THEOREM TypeCorrect == Spec => []TypeOK
<1>1. Init => TypeOK
  BY PoolAssumption DEF Init, TypeOK, States, Causes, NoCause, Never, NoAnswer
<1> QED
  BY <1>1, TypeStep, PTL DEF Spec
-----------------------------------------------------------------------------
\* Every action keeps the inductive invariant.
LEMMA PoolInvStep == PoolInv /\ [Next]_vars => PoolInv'
<1> SUFFICES ASSUME PoolInv, [Next]_vars PROVE PoolInv'
  OBVIOUS
<1>t. TypeOK'
  BY TypeStep DEF PoolInv
<1> USE <1>t DEF PoolInv, Held, inputVars, loadVars, collectVars
<1>1. ASSUME NEW u \in UnitIds, NEW at \in {"requested", "starting"}, Enter(u, at)
      PROVE PoolInv'
  <2> USE <1>1 DEF Enter
  <2>1. AdmittingIsVerified'
    BY DEF TypeOK, AdmittingIsVerified
  <2>2. UnhealthyIsGone'
    BY DEF TypeOK, UnhealthyIsGone, AbsentIsBlank
  <2>3. CauseTold'
    BY DEF TypeOK, CauseTold
  <2>4. AnsweringIsRegistered' /\ AbsentIsBlank'
    BY DEF TypeOK, AnsweringIsRegistered, AbsentIsBlank
  <2>5. CollectsAskRegistered'
    BY DEF TypeOK, CollectsAskRegistered
  <2> QED
    BY <2>1, <2>2, <2>3, <2>4, <2>5
<1>2. ASSUME NEW u \in UnitIds, Started(u) PROVE PoolInv'
  <2> USE <1>2 DEF Started
  <2>1. AdmittingIsVerified' /\ UnhealthyIsGone' /\ CauseTold'
    BY DEF TypeOK, AdmittingIsVerified, UnhealthyIsGone, CauseTold
  <2>2. AnsweringIsRegistered' /\ AbsentIsBlank' /\ CollectsAskRegistered'
    BY DEF TypeOK, AnsweringIsRegistered, AbsentIsBlank, CollectsAskRegistered
  <2> QED
    BY <2>1, <2>2
<1>3. ASSUME NEW u \in UnitIds, NEW issued \in ProofOffsets, NEW proof \in Proofs,
             NEW phase \in Phases, Register(u, issued, proof, phase)
      PROVE PoolInv'
  <2> USE <1>3 DEF Register, Move
  <2>1. AdmittingIsVerified'
    BY DEF TypeOK, AdmittingIsVerified, UnhealthyIsGone
  <2>2. UnhealthyIsGone' /\ CauseTold'
    BY DEF TypeOK, UnhealthyIsGone, CauseTold
  <2>3. AnsweringIsRegistered' /\ AbsentIsBlank' /\ CollectsAskRegistered'
    BY DEF TypeOK, AnsweringIsRegistered, AbsentIsBlank, CollectsAskRegistered
  <2> QED
    BY <2>1, <2>2, <2>3
<1>4. ASSUME NEW u \in UnitIds, NEW why \in AskedCauses, Drain(u, why)
      PROVE PoolInv'
  <2> USE <1>4 DEF Drain, Move
  <2>1. AdmittingIsVerified' /\ UnhealthyIsGone'
    BY DEF TypeOK, AdmittingIsVerified, UnhealthyIsGone
  <2>2. CauseTold'
    BY PoolAssumption, SMT DEF TypeOK, CauseTold, NoCause
  <2>3. AnsweringIsRegistered' /\ AbsentIsBlank' /\ CollectsAskRegistered'
    BY DEF TypeOK, AnsweringIsRegistered, AbsentIsBlank, CollectsAskRegistered
  <2> QED
    BY <2>1, <2>2, <2>3
<1>5. ASSUME NEW u \in UnitIds, NEW why \in AskedCauses, Retire(u, why)
      PROVE PoolInv'
  <2> USE <1>5 DEF Retire, Move
  <2>1. AdmittingIsVerified' /\ UnhealthyIsGone'
    BY DEF TypeOK, AdmittingIsVerified, UnhealthyIsGone
  <2>2. CauseTold'
    BY PoolAssumption, SMT DEF TypeOK, CauseTold, NoCause
  <2>3. AnsweringIsRegistered' /\ AbsentIsBlank' /\ CollectsAskRegistered'
    BY DEF TypeOK, AnsweringIsRegistered, AbsentIsBlank, CollectsAskRegistered
  <2> QED
    BY <2>1, <2>2, <2>3
<1>6. ASSUME NEW u \in UnitIds, NEW ok \in BOOLEAN, Reachable(u, ok)
      PROVE PoolInv'
  <2>1. CASE ~ok /\ state[u] = "admitting"
    <3>1. /\ state' = [state EXCEPT ![u] = "draining"]
          /\ cause' = [cause EXCEPT ![u] = "reachability failed"]
          /\ reachable' = [reachable EXCEPT ![u] = FALSE]
          /\ UNCHANGED <<healthy, registered, asking, answer>>
          /\ state[u] = "admitting"
      BY <1>6, <2>1 DEF Reachable, Move
    <3>2. AdmittingIsVerified'
      BY <3>1 DEF TypeOK, AdmittingIsVerified
    <3>3. UnhealthyIsGone'
      BY <3>1 DEF TypeOK, UnhealthyIsGone
    <3>4. CauseTold'
      BY <3>1 DEF TypeOK, CauseTold, NoCause
    <3>5. AnsweringIsRegistered'
      BY <3>1 DEF TypeOK, AnsweringIsRegistered, AdmittingIsVerified
    <3>6. AbsentIsBlank'
      BY <3>1 DEF TypeOK, AbsentIsBlank
    <3>7. CollectsAskRegistered'
      BY <3>1 DEF TypeOK, CollectsAskRegistered
    <3> QED
      BY <3>2, <3>3, <3>4, <3>5, <3>6, <3>7
  <2>2. CASE ~(~ok /\ state[u] = "admitting")
    <3>1. /\ reachable' = [reachable EXCEPT ![u] = ok]
          /\ UNCHANGED <<state, cause, healthy, registered, asking, answer>>
          /\ state[u] # "absent"
      BY <1>6, <2>2 DEF Reachable
    <3>2. AdmittingIsVerified' /\ UnhealthyIsGone' /\ AbsentIsBlank'
      BY <3>1, <2>2 DEF TypeOK, AdmittingIsVerified, UnhealthyIsGone, AbsentIsBlank
    <3>3. CauseTold' /\ AnsweringIsRegistered' /\ CollectsAskRegistered'
      BY <3>1 DEF CauseTold, AnsweringIsRegistered, CollectsAskRegistered
    <3> QED
      BY <3>2, <3>3
  <2> QED
    BY <2>1, <2>2
<1>7. ASSUME NEW u \in UnitIds, NEW ok \in BOOLEAN, Healthy(u, ok)
      PROVE PoolInv'
  <2>1. CASE ~ok /\ state[u] # "gone"
    <3>1. /\ state' = [state EXCEPT ![u] = "gone"]
          /\ cause' = [cause EXCEPT ![u] = "health failed"]
          /\ healthy' = [healthy EXCEPT ![u] = FALSE]
          /\ UNCHANGED <<reachable, registered, asking, answer>>
          /\ state[u] # "absent"
      BY <1>7, <2>1 DEF Healthy, Move
    <3>2. AdmittingIsVerified'
      BY <3>1 DEF TypeOK, AdmittingIsVerified
    <3>3. UnhealthyIsGone'
      BY <3>1 DEF TypeOK, UnhealthyIsGone
    <3>4. CauseTold'
      BY <3>1 DEF TypeOK, CauseTold, NoCause
    <3>5. AnsweringIsRegistered'
      BY <3>1 DEF TypeOK, AnsweringIsRegistered, AdmittingIsVerified
    <3>6. AbsentIsBlank'
      BY <3>1 DEF TypeOK, AbsentIsBlank
    <3>7. CollectsAskRegistered'
      BY <3>1 DEF TypeOK, CollectsAskRegistered
    <3> QED
      BY <3>2, <3>3, <3>4, <3>5, <3>6, <3>7
  <2>2. CASE ~(~ok /\ state[u] # "gone")
    <3>1. /\ healthy' = [healthy EXCEPT ![u] = ok]
          /\ UNCHANGED <<state, cause, reachable, registered, asking, answer>>
          /\ state[u] # "absent"
      BY <1>7, <2>2 DEF Healthy
    <3>2. AdmittingIsVerified' /\ UnhealthyIsGone' /\ AbsentIsBlank'
      BY <3>1, <2>2 DEF TypeOK, AdmittingIsVerified, UnhealthyIsGone, AbsentIsBlank
    <3>3. CauseTold' /\ AnsweringIsRegistered' /\ CollectsAskRegistered'
      BY <3>1 DEF CauseTold, AnsweringIsRegistered, CollectsAskRegistered
    <3> QED
      BY <3>2, <3>3
  <2> QED
    BY <2>1, <2>2
<1>8. ASSUME NEW u \in UnitIds, NEW load \in Loads, Commit(u, load)
      PROVE PoolInv'
  <2> USE <1>8 DEF Commit
  <2>1. UNCHANGED <<state, cause, reachable, healthy, registered>>
    OBVIOUS
  <2>2. /\ AdmittingIsVerified' /\ UnhealthyIsGone' /\ CauseTold'
        /\ AnsweringIsRegistered' /\ AbsentIsBlank'
    BY <2>1 DEF AdmittingIsVerified, UnhealthyIsGone, CauseTold,
               AnsweringIsRegistered, AbsentIsBlank
  <2>3. CollectsAskRegistered'
    BY DEF TypeOK, CollectsAskRegistered
  <2> QED
    BY <2>2, <2>3
<1>16. ASSUME NEW u \in UnitIds, NEW load \in Loads, Report(u, load)
      PROVE PoolInv'
  <2> USE <1>16 DEF Report
  <2>1. UNCHANGED <<state, cause, reachable, healthy, registered>>
    OBVIOUS
  <2>2. /\ AdmittingIsVerified' /\ UnhealthyIsGone' /\ CauseTold'
        /\ AnsweringIsRegistered' /\ AbsentIsBlank'
    BY <2>1 DEF AdmittingIsVerified, UnhealthyIsGone, CauseTold,
               AnsweringIsRegistered, AbsentIsBlank
  <2>3. CollectsAskRegistered'
    BY DEF TypeOK, CollectsAskRegistered
  <2> QED
    BY <2>2, <2>3
<1>9. ASSUME NEW c \in Collects, CollectBegin(c)
      PROVE PoolInv'
  <2> USE <1>9 DEF CollectBegin
  <2>1. UNCHANGED <<state, cause, reachable, healthy, registered>>
    OBVIOUS
  <2>2. /\ AdmittingIsVerified' /\ UnhealthyIsGone' /\ CauseTold'
        /\ AnsweringIsRegistered' /\ AbsentIsBlank'
    BY <2>1 DEF AdmittingIsVerified, UnhealthyIsGone, CauseTold,
               AnsweringIsRegistered, AbsentIsBlank
  <2>3. CollectsAskRegistered'
    BY DEF TypeOK, CollectsAskRegistered, Answers, AnsweringIsRegistered
  <2> QED
    BY <2>2, <2>3
<1>10. ASSUME NEW c \in Collects, NEW u \in UnitIds, NEW load \in Answered,
             CollectAnswer(c, u, load)
      PROVE PoolInv'
  <2> USE <1>10 DEF CollectAnswer, IsNext
  <2>1. UNCHANGED <<state, cause, reachable, healthy, registered>>
    OBVIOUS
  <2>2. /\ AdmittingIsVerified' /\ UnhealthyIsGone' /\ CauseTold'
        /\ AnsweringIsRegistered' /\ AbsentIsBlank'
    BY <2>1 DEF AdmittingIsVerified, UnhealthyIsGone, CauseTold,
               AnsweringIsRegistered, AbsentIsBlank
  <2>3. CollectsAskRegistered'
    BY DEF TypeOK, CollectsAskRegistered
  <2> QED
    BY <2>2, <2>3
<1>11. ASSUME NEW c \in Collects, NEW u \in UnitIds, CollectUnanswered(c, u)
      PROVE PoolInv'
  <2> USE <1>11 DEF CollectUnanswered, IsNext
  <2>1. UNCHANGED <<state, cause, reachable, healthy, registered>>
    OBVIOUS
  <2>2. /\ AdmittingIsVerified' /\ UnhealthyIsGone' /\ CauseTold'
        /\ AnsweringIsRegistered' /\ AbsentIsBlank'
    BY <2>1 DEF AdmittingIsVerified, UnhealthyIsGone, CauseTold,
               AnsweringIsRegistered, AbsentIsBlank
  <2>3. CollectsAskRegistered'
    BY DEF TypeOK, CollectsAskRegistered
  <2> QED
    BY <2>2, <2>3
<1>12. ASSUME NEW c \in Collects, NEW u \in UnitIds, CollectRecord(c, u)
      PROVE PoolInv'
  <2> USE <1>12 DEF CollectRecord
  <2>1. UNCHANGED <<state, cause, reachable, healthy, registered>>
    OBVIOUS
  <2>2. /\ AdmittingIsVerified' /\ UnhealthyIsGone' /\ CauseTold'
        /\ AnsweringIsRegistered' /\ AbsentIsBlank'
    BY <2>1 DEF AdmittingIsVerified, UnhealthyIsGone, CauseTold,
               AnsweringIsRegistered, AbsentIsBlank
  <2>3. CollectsAskRegistered'
    BY DEF TypeOK, CollectsAskRegistered
  <2> QED
    BY <2>2, <2>3
<1>13. ASSUME NEW bound \in Bounds, Sweep(bound)
      PROVE PoolInv'
  <2> USE <1>13 DEF Sweep, Stale
  <2>1. AdmittingIsVerified' /\ UnhealthyIsGone'
    BY DEF TypeOK, AdmittingIsVerified, UnhealthyIsGone
  <2>2. CauseTold'
    BY DEF TypeOK, CauseTold, NoCause
  <2>3. AnsweringIsRegistered' /\ AbsentIsBlank' /\ CollectsAskRegistered'
    BY DEF TypeOK, AnsweringIsRegistered, AbsentIsBlank, CollectsAskRegistered
  <2> QED
    BY <2>1, <2>2, <2>3
<1>14. CASE Tick
  <2> USE <1>14 DEF Tick
  <2>1. UNCHANGED <<state, cause, reachable, healthy, registered>>
    OBVIOUS
  <2>2. /\ AdmittingIsVerified' /\ UnhealthyIsGone' /\ CauseTold'
        /\ AnsweringIsRegistered' /\ AbsentIsBlank'
    BY <2>1 DEF AdmittingIsVerified, UnhealthyIsGone, CauseTold,
               AnsweringIsRegistered, AbsentIsBlank
  <2>3. CollectsAskRegistered'
    BY DEF TypeOK, CollectsAskRegistered
  <2> QED
    BY <2>2, <2>3
<1>15. CASE UNCHANGED vars
  BY <1>15 DEF vars, AdmittingIsVerified, UnhealthyIsGone, CauseTold,
               AnsweringIsRegistered, AbsentIsBlank, CollectsAskRegistered
<1> QED
  BY <1>1, <1>2, <1>3, <1>4, <1>5, <1>6, <1>7, <1>8, <1>9, <1>10, <1>11, <1>12,
     <1>13, <1>14, <1>15, <1>16 DEF Next, PlainCall, Request, Listed

\* The inductive invariant holds throughout.
THEOREM PoolInvariant == Spec => []PoolInv
<1>1. Init => PoolInv
  <2> SUFFICES ASSUME Init PROVE PoolInv
    OBVIOUS
  <2>1. TypeOK
    BY PoolAssumption DEF Init, TypeOK, States, Causes, NoCause, Never, NoAnswer
  <2> QED
    BY <2>1 DEF Init, PoolInv, AdmittingIsVerified, UnhealthyIsGone, CauseTold,
                AnsweringIsRegistered, AbsentIsBlank, CollectsAskRegistered, Held
<1> QED
  BY <1>1, PoolInvStep, PTL DEF Spec

\* The placer is only ever offered a unit that registered, was last seen
\* reachable and was last seen healthy (Register, Reachable, Healthy).
THEOREM OnlyVerifiedUnitsAdmit == Spec => []AdmittingIsVerified
BY PoolInvariant, PTL DEF PoolInv

\* A unit last heard unhealthy has left for good (Healthy).
THEOREM UnhealthyUnitsAreGone == Spec => []UnhealthyIsGone
BY PoolInvariant, PTL DEF PoolInv

\* The rows say why exactly of the units that were put out (move).
THEOREM EveryDepartureIsExplained == Spec => []CauseTold
BY PoolInvariant, PTL DEF PoolInv

\* However Collects overlap with everything else, they ask units with a port
\* and carry an answer only while there is a unit it belongs to (Collect).
THEOREM CollectsAreSound == Spec => []CollectsAskRegistered
BY PoolInvariant, PTL DEF PoolInv

-----------------------------------------------------------------------------
(* What a step may never do. *)

\* A unit that is gone stays gone for the reason it first went: move is only
\* called from states the caller has just checked (Drain, Retire, Healthy,
\* Reachable, Sweep).
THEOREM GoneForGood == Spec => GoneIsFinal
<1>1. TypeOK /\ [Next]_vars =>
        [\A u \in UnitIds : state[u] = "gone" =>
            state'[u] = "gone" /\ cause'[u] = cause[u]]_vars
  <2> DEFINE Final == \A u \in UnitIds : state[u] = "gone" =>
                        state'[u] = "gone" /\ cause'[u] = cause[u]
  <2> SUFFICES ASSUME TypeOK, [Next]_vars, UNCHANGED <<state, cause>> \/ Next
               PROVE  Final
    BY DEF vars
  <2>1. ASSUME NEW w \in UnitIds, PlainCall(w) PROVE Final
    <3>1. CASE Request(w) \/ Listed(w) \/ Started(w)
      BY <3>1 DEF TypeOK, Request, Listed, Enter, Held, Started
    <3>2. ASSUME NEW why \in AskedCauses, Drain(w, why) \/ Retire(w, why)
          PROVE  Final
      BY <3>2 DEF TypeOK, Drain, Retire, Move
    <3>3. ASSUME NEW ok \in BOOLEAN, Reachable(w, ok) \/ Healthy(w, ok)
          PROVE  Final
      BY <3>3 DEF TypeOK, Reachable, Healthy, Move
    <3> QED
      BY <2>1, <3>1, <3>2, <3>3 DEF PlainCall
  <2>2. ASSUME NEW w \in UnitIds, NEW issued \in ProofOffsets,
               NEW proof \in Proofs, NEW phase \in Phases,
               Register(w, issued, proof, phase)
        PROVE  Final
    BY <2>2 DEF TypeOK, Register, Move
  <2>3. ASSUME NEW bound \in Bounds, Sweep(bound) PROVE Final
    BY <2>3 DEF TypeOK, Sweep, Stale
  <2>4. CASE UNCHANGED <<state, cause>>
    BY <2>4
  <2> QED
    BY <2>1, <2>2, <2>3, <2>4
       DEF Next, CollectBegin, CollectUnanswered, CollectRecord, Tick, Commit,
           Report, CollectAnswer
<1> QED
  BY <1>1, TypeCorrect, PTL DEF Spec, GoneIsFinal

-----------------------------------------------------------------------------
\* The rows, the locks and the overlapping Collects implement the life of a
\* unit: every critical section is one move of UnitLifecycle or none.
THEOREM PoolImplementsLife == Spec => LifeSpec
<1>1. Init => Life!Init
  BY DEF Init, Life!Init
<1>2. TypeOK /\ [Next]_vars => [Life!Next]_(Life!lifeVars)
  <2> SUFFICES ASSUME TypeOK, [Next]_vars
               PROVE  Life!Next \/ UNCHANGED Life!lifeVars
    OBVIOUS
  <2> USE DEF inputVars, Life!lifeVars
  <2>1. ASSUME NEW u \in UnitIds, PlainCall(u)
        PROVE  Life!Next \/ UNCHANGED Life!lifeVars
    <3>1. CASE Request(u) \/ Listed(u)
      <4>1. Life!Appear(u)
        BY <3>1 DEF Request, Listed, Enter, Held, Life!Appear, Life!Move
      <4> QED
        BY <4>1 DEF Life!Next
    <3>2. CASE Started(u)
      BY <3>2 DEF Started, Life!Next, Life!Exist, Life!Move
    <3>3. ASSUME NEW why \in AskedCauses, Drain(u, why) PROVE Life!Next
      BY <3>3 DEF Drain, Move, Life!Next, Life!StopAdmitting, Life!Move
    <3>4. ASSUME NEW why \in AskedCauses, Retire(u, why) PROVE Life!Next
      <4>1. Life!End({u})
        BY <3>4 DEF TypeOK, Retire, Held, Move, Life!End
      <4> QED
        BY <4>1 DEF Life!Next
    <3>5. ASSUME NEW ok \in BOOLEAN, Reachable(u, ok) PROVE Life!Next
      <4>1. Life!HearReachable(u, ok)
        BY <3>5 DEF TypeOK, Reachable, Held, Move, Life!HearReachable
      <4> QED
        BY <4>1 DEF Life!Next
    <3>6. ASSUME NEW ok \in BOOLEAN, Healthy(u, ok) PROVE Life!Next
      <4>1. Life!HearHealthy(u, ok)
        BY <3>6 DEF TypeOK, Healthy, Held, Move, Life!HearHealthy
      <4> QED
        BY <4>1 DEF Life!Next
    <3> QED
      BY <2>1, <3>1, <3>2, <3>3, <3>4, <3>5, <3>6 DEF PlainCall
  <2>2. ASSUME NEW u \in UnitIds, NEW issued \in ProofOffsets,
               NEW proof \in Proofs, NEW phase \in Phases,
               Register(u, issued, proof, phase)
        PROVE  Life!Next
    BY <2>2 DEF Register, Move, Life!Next, Life!Admit, Life!Move
  <2>3. ASSUME NEW bound \in Bounds, Sweep(bound) PROVE Life!Next
    <3>1. Life!End({u \in UnitIds : Stale(u, bound)})
      BY <2>3 DEF Sweep, Stale, Life!End
    <3> QED
      BY <3>1 DEF Life!Next
  <2>4. CASE UNCHANGED <<state, reachable, healthy>>
    BY <2>4
  <2> QED
    BY <2>1, <2>2, <2>3, <2>4
       DEF Next, vars, CollectBegin, CollectUnanswered, CollectRecord, Tick,
           Commit, Report, CollectAnswer
<1> QED
  BY <1>1, <1>2, TypeCorrect, PTL DEF Spec, LifeSpec, Life!Spec
=============================================================================
