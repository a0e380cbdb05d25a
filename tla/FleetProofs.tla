----------------------------- MODULE FleetProofs -----------------------------
(***************************************************************************)
(* The drivers and the pool together, for every set of machines and of     *)
(* configuration files: what the caller pays for is what exists, and one   *)
(* hand-out is not mistaken for another but where a listed name is reused. *)
(***************************************************************************)
EXTENDS Fleet, PoolProofs, FiniteSetTheorems

\* The values of the drivers' and the caller's variables.
FleetTypeOK ==
    /\ driver \in Drivers \cup {"unopened", "refused", "slow", "failing"}
    /\ listed \in Seq(Machines \cup {Blank})
    /\ inUse \subseteq Machines /\ IsFiniteSet(inUse)
    /\ next \in Nat
    /\ coming \in [Machines -> Nat]
    /\ handed \subseteq Machines
    /\ kept \subseteq Machines
    /\ returned \subseteq Machines

\* It was handed out: the caller has its handle still to enter, entered it into
\* the pool, keeps it or gave it back.
Known(m) == m \in handed \/ Held(m) \/ m \in kept \/ m \in returned

\* Nothing was handed out by a driver that hands out nothing.
NothingYet ==
    driver \notin {"slow", DriverListed} =>
        \A m \in Machines : ~Known(m) /\ m \notin inUse

\* The double numbers its machines upwards, so the next one is new to all, and
\* what was given back is not handed out again.
Numbered ==
    driver = "slow" => /\ \A m \in Machines : Known(m) \/ m \in inUse => m <= next
                       /\ kept \cap returned = {}

\* What was handed out is held still, or was given back.
Accounted == \A m \in Machines : Known(m) => m \in kept \/ m \in returned

FleetInv ==
    /\ FleetTypeOK
    /\ NothingYet
    /\ Numbered
    /\ Accounted
    /\ LoadedOpensUnlessListedTwice
    /\ CountIsWhatExists
    /\ OnlyAReusedNameIsMistaken

-----------------------------------------------------------------------------
\* Every step of the fleet is a step of the pool or leaves the pool alone.
LEMMA FleetStepIsStep == [FleetNext]_allVars => [Next]_vars
<1> SUFFICES ASSUME [FleetNext]_allVars PROVE [Next]_vars
  OBVIOUS
<1>1. ASSUME NEW m \in Machines, EnterHanded(m) \/ Appeared(m) \/ UnitLives(m)
      PROVE  Next
  <2>1. m \in UnitIds
    BY FleetAssumption
  <2> QED
    BY <1>1, <2>1 DEF EnterHanded, Appeared, UnitLives, Next, PlainCall
<1>2. ASSUME NEW m \in Machines, AskFor(m) \/ GiveBack(m) \/ GiveBackAgain(m)
      PROVE  UNCHANGED vars
  BY <1>2 DEF AskFor, GiveBack, GiveBackAgain
<1>3. CASE (\E file \in Files : Start(file)) \/ StartWithDouble
  BY <1>3 DEF Start, StartWithDouble
<1>4. CASE UNCHANGED allVars
  BY <1>4 DEF allVars
<1> QED
  BY <1>1, <1>2, <1>3, <1>4 DEF FleetNext

\* The pool behaves in a fleet as it does alone, so that what is proved of the
\* pool holds in the fleet.
THEOREM FleetImplementsPool == FleetSpec => Spec
<1>1. FleetInit => Init
  BY DEF FleetInit
<1> QED
  BY <1>1, FleetStepIsStep, PTL DEF FleetSpec, Spec

-----------------------------------------------------------------------------
(* What the operations of the drivers do. *)

\* A machine asked for is not in use, and of the double it has a new number.
LEMMA AskedIsFree ==
    ASSUME FleetTypeOK, Numbered, NEW m \in Machines, Ask(m)
    PROVE  /\ m \notin inUse
           /\ inUse' = inUse \cup {m}
           /\ UNCHANGED <<driver, listed>>
           /\ driver \in {"slow", DriverListed}
           /\ driver = "slow" => m = next + 1 /\ next' = m /\ ~Known(m)
           /\ next' \in Nat
           /\ coming' \in [Machines -> Nat]
<1> USE ProvisionAssumption DEF ProvisionAssumption, FleetTypeOK, Hold
<1>1. CASE AskListed(m)
  <2>1. PICK i \in DOMAIN listed :
            listed[i] = m /\ \A j \in 1..i : listed[j] \in inUse <=> j < i
    BY <1>1 DEF AskListed
  <2>2. i \in 1..i /\ ~(i < i)
    BY <2>1
  <2>3. m \notin inUse
    BY <2>1, <2>2
  <2> QED
    BY <1>1, <2>3 DEF AskListed, DriverListed
<1>2. CASE AskSlow(m)
  <2>1. m = next + 1 /\ driver = "slow" /\ next' = m
    BY <1>2 DEF AskSlow
  <2>2. m \notin inUse /\ ~Known(m)
    BY <2>1 DEF Numbered
  <2> QED
    BY <1>2, <2>1, <2>2 DEF AskSlow
<1> QED
  BY <1>1, <1>2 DEF Ask

\* The count follows a machine that is handed out or taken back.
LEMMA CountStep ==
    ASSUME FleetTypeOK, CountIsWhatExists, NEW m \in Machines,
           \/ /\ m \notin inUse
              /\ inUse' = inUse \cup {m} /\ paid' = paid + 1
           \/ /\ m \in inUse
              /\ inUse' = inUse \ {m} /\ paid' = paid - 1
    PROVE  CountIsWhatExists' /\ IsFiniteSet(inUse')
<1>1. IsFiniteSet(inUse) /\ Cardinality(inUse) \in Nat
  BY FS_CardinalityType DEF FleetTypeOK
<1>2. CASE m \notin inUse /\ inUse' = inUse \cup {m} /\ paid' = paid + 1
  BY <1>1, <1>2, FS_AddElement DEF CountIsWhatExists
<1>3. CASE m \in inUse /\ inUse' = inUse \ {m} /\ paid' = paid - 1
  BY <1>1, <1>3, FS_RemoveElement DEF CountIsWhatExists
<1> QED
  BY <1>2, <1>3

\* What config.Load accepts, Open refuses for a name that is listed twice and
\* for nothing else (Load, provision.Open, NewListed).
LEMMA LoadedOpens ==
    ASSUME NEW file \in Files, Accepts(file), Open(Read(file))
    PROVE  /\ driver' \in Drivers \cup {"refused"}
           /\ driver' = "refused" =>
                \E i, j \in DOMAIN listed' : i # j /\ listed'[i] = listed'[j]
           /\ listed' \in Seq(Machines \cup {Blank})
<1> DEFINE s == Read(file)
<1>1. /\ Valid(s)
      /\ s.machines \in Seq(Machines \cup {Blank})
      /\ driver' = IF s.driver = DriverNone \/ CanList(s.machines)
                   THEN s.driver ELSE "refused"
      /\ listed' = s.machines
  BY FleetAssumption DEF Accepts, Open
<1> HIDE DEF s
<1>2. s.driver \in {"none", "listed"}
  BY <1>1 DEF Valid, Drivers, DriverNone, DriverListed
<1>3. ASSUME driver' = "refused" PROVE s.driver # DriverNone /\ ~CanList(s.machines)
  BY <1>1, <1>2, <1>3
<1>4. ASSUME driver' = "refused"
      PROVE  \E i, j \in DOMAIN listed' : i # j /\ listed'[i] = listed'[j]
  BY <1>1, <1>3, <1>4 DEF Valid, CanList
<1>5. driver' \in Drivers \cup {"refused"}
  BY <1>1 DEF Valid
<1> QED
  BY <1>1, <1>4, <1>5

-----------------------------------------------------------------------------
\* Whatever a unit's life brings, it has a row as it had before.
LEMMA LifeKeepsRows ==
    ASSUME TypeOK, NEW w \in Machines, UnitLives(w) \/ Appeared(w)
    PROVE  /\ \A m \in Machines : Held(m)' <=> Held(m)
           /\ UNCHANGED <<driverVars, fleetVars>>
<1> USE FleetAssumption DEF TypeOK, Held, Move
<1>1. ASSUME NEW issued \in ProofOffsets, NEW proof \in Proofs, NEW phase \in Phases,
             Register(w, issued, proof, phase)
      PROVE  \A m \in Machines : Held(m)' <=> Held(m)
  BY <1>1 DEF Register
<1>2. ASSUME NEW why \in AskedCauses, Drain(w, why) \/ Retire(w, why)
      PROVE  \A m \in Machines : Held(m)' <=> Held(m)
  BY <1>2 DEF Drain, Retire
<1>3. ASSUME NEW ok \in BOOLEAN, Reachable(w, ok)
      PROVE  \A m \in Machines : Held(m)' <=> Held(m)
  BY <1>3 DEF Reachable
<1>4. ASSUME NEW ok \in BOOLEAN, Healthy(w, ok)
      PROVE  \A m \in Machines : Held(m)' <=> Held(m)
  BY <1>4 DEF Healthy
<1>5. CASE Appeared(w)
  BY <1>5 DEF Appeared, Started
<1> QED
  BY <1>1, <1>2, <1>3, <1>4, <1>5 DEF UnitLives, Appeared

\* Entering a machine gives it a row and takes it from the caller's hands.
LEMMA EnterKeepsKnown ==
    ASSUME TypeOK, NEW w \in Machines, EnterHanded(w)
    PROVE  /\ w \in handed /\ handed' = handed \ {w}
           /\ ~Held(w)
           /\ \A m \in Machines : Held(m)' <=> Held(m) \/ m = w
           /\ UNCHANGED <<driverVars, settings, kept, paid, returned>>
<1> USE FleetAssumption DEF TypeOK, Held
<1>1. w \in handed /\ handed' = handed \ {w}
      /\ UNCHANGED <<driverVars, settings, kept, paid, returned>>
  BY DEF EnterHanded
<1>2. PICK at \in {"requested", "starting"} : Enter(w, at)
  BY DEF EnterHanded, Request, Listed
<1>3. ~Held(w) /\ state' = [state EXCEPT ![w] = at]
  BY <1>2 DEF Enter
<1> QED
  BY <1>1, <1>3

\* Every action keeps the inductive invariant.
LEMMA FleetInvStep ==
    ASSUME TypeOK, FleetInv, [FleetNext]_allVars PROVE FleetInv'
<1> USE DEF FleetInv
<1>1. ASSUME NEW file \in Files, Start(file) PROVE FleetInv'
  <2>1. /\ driver = "unopened" /\ UNCHANGED <<inUse, next, coming>>
        /\ UNCHANGED <<vars, handed, kept, paid, returned>>
        /\ Accepts(file) /\ Open(Read(file))
    BY <1>1 DEF Start, Open
  <2>2. /\ driver' \in Drivers \cup {"refused"}
        /\ driver' = "refused" =>
             \E i, j \in DOMAIN listed' : i # j /\ listed'[i] = listed'[j]
        /\ listed' \in Seq(Machines \cup {Blank})
    BY <2>1, LoadedOpens
  <2>3. UNCHANGED state
    BY <2>1 DEF vars
  <2>4. \A m \in Machines : ~Known(m) /\ m \notin inUse
    BY <2>1 DEF NothingYet, DriverListed
  <2>5. \A m \in Machines : ~Known(m)' /\ m \notin inUse'
    BY <2>1, <2>3, <2>4 DEF Known, Held
  <2>6. FleetTypeOK'
    BY <2>1, <2>2 DEF FleetTypeOK
  <2>7. NothingYet' /\ Numbered' /\ Accounted' /\ OnlyAReusedNameIsMistaken'
    BY <2>5, <2>6 DEF NothingYet, Numbered, Accounted, OnlyAReusedNameIsMistaken,
                      Known, FleetTypeOK
  <2>8. LoadedOpensUnlessListedTwice' /\ CountIsWhatExists'
    BY <2>1, <2>2 DEF LoadedOpensUnlessListedTwice, CountIsWhatExists
  <2> QED
    BY <2>6, <2>7, <2>8
<1>2. CASE StartWithDouble
  <2>1. PICK which \in {"slow", "failing"} : OpenDouble(which)
    BY <1>2 DEF StartWithDouble
  <2>2. /\ driver = "unopened" /\ driver' = which
        /\ UNCHANGED <<listed, inUse, next, coming, vars, fleetVars>>
    BY <1>2, <2>1 DEF StartWithDouble, OpenDouble
  <2>3. UNCHANGED <<state, handed, kept, paid, returned>>
    BY <2>2 DEF vars, fleetVars
  <2>4. \A m \in Machines : ~Known(m) /\ m \notin inUse
    BY <2>2 DEF NothingYet, DriverListed
  <2>5. \A m \in Machines : ~Known(m)' /\ m \notin inUse'
    BY <2>2, <2>3, <2>4 DEF Known, Held
  <2>6. FleetTypeOK'
    BY <2>2, <2>3 DEF FleetTypeOK
  <2>7. NothingYet' /\ Numbered' /\ Accounted' /\ OnlyAReusedNameIsMistaken'
    BY <2>5, <2>6 DEF NothingYet, Numbered, Accounted, OnlyAReusedNameIsMistaken,
                      Known, FleetTypeOK
  <2>8. LoadedOpensUnlessListedTwice' /\ CountIsWhatExists'
    BY <2>2, <2>3 DEF LoadedOpensUnlessListedTwice, CountIsWhatExists
  <2> QED
    BY <2>6, <2>7, <2>8
<1>3. ASSUME NEW w \in Machines, AskFor(w) PROVE FleetInv'
  <2>1. /\ w \notin inUse
        /\ inUse' = inUse \cup {w}
        /\ UNCHANGED <<driver, listed>>
        /\ driver \in {"slow", DriverListed}
        /\ driver = "slow" => w = next + 1 /\ next' = w /\ ~Known(w)
        /\ next' \in Nat
        /\ coming' \in [Machines -> Nat]
    BY <1>3, AskedIsFree DEF AskFor
  <2>2. /\ handed' = handed \cup {w} /\ kept' = kept \cup {w} /\ paid' = paid + 1
        /\ UNCHANGED <<returned, state>>
    BY <1>3 DEF AskFor, vars
  <2>3. CountIsWhatExists' /\ IsFiniteSet(inUse')
    BY <2>1, <2>2, CountStep
  <2>4. FleetTypeOK'
    BY <2>1, <2>2, <2>3 DEF FleetTypeOK
  <2>5. \A m \in Machines : Known(m)' <=> Known(m) \/ m = w
    BY <2>2 DEF Known, Held
  <2>6. NothingYet' /\ Accounted' /\ LoadedOpensUnlessListedTwice'
    BY <2>1, <2>2, <2>5
       DEF NothingYet, Accounted, LoadedOpensUnlessListedTwice
  <2>7. Numbered'
    <3>1. ASSUME driver = "slow", NEW m \in Machines, Known(m)' \/ m \in inUse'
          PROVE  m <= next'
      <4>1. m = w \/ m <= next
        BY <2>1, <2>5, <3>1 DEF Numbered
      <4>2. m \in Nat /\ next \in Nat
        BY ProvisionAssumption DEF ProvisionAssumption, FleetTypeOK
      <4> QED
        BY <2>1, <3>1, <4>1, <4>2
    <3>2. driver = "slow" => kept' \cap returned' = {}
      BY <2>1, <2>2 DEF Numbered, Known
    <3> QED
      BY <2>1, <3>1, <3>2 DEF Numbered
  <2>8. OnlyAReusedNameIsMistaken'
    <3>1. Held(w) => driver = DriverListed /\ w \in returned
      <4>1. driver = "slow" => ~Held(w)
        BY <2>1 DEF Known
      <4>2. Held(w) => w \in kept \/ w \in returned
        BY DEF Accounted, Known
      <4>3. w \in kept => driver = DriverListed /\ w \in returned
        BY <2>1 DEF OnlyAReusedNameIsMistaken
      <4> QED
        BY <2>1, <4>1, <4>2, <4>3
    <3> QED
      BY <2>1, <2>2, <3>1 DEF OnlyAReusedNameIsMistaken, Held
  <2> QED
    BY <2>3, <2>4, <2>6, <2>7, <2>8
<1>4. ASSUME NEW w \in Machines, EnterHanded(w) PROVE FleetInv'
  <2>1. /\ w \in handed /\ handed' = handed \ {w}
        /\ ~Held(w)
        /\ \A m \in Machines : Held(m)' <=> Held(m) \/ m = w
        /\ UNCHANGED <<driver, listed, inUse, next, coming, kept, paid, returned>>
    BY <1>4, EnterKeepsKnown DEF driverVars
  <2>2. \A m \in Machines : Known(m)' <=> Known(m)
    BY <2>1 DEF Known
  <2>3. FleetTypeOK'
    BY <2>1 DEF FleetTypeOK
  <2>4. NothingYet' /\ Numbered' /\ Accounted'
    BY <2>1, <2>2 DEF NothingYet, Numbered, Accounted
  <2>5. LoadedOpensUnlessListedTwice' /\ CountIsWhatExists'
    BY <2>1 DEF LoadedOpensUnlessListedTwice, CountIsWhatExists
  <2>6. OnlyAReusedNameIsMistaken'
    BY <2>1 DEF OnlyAReusedNameIsMistaken, FleetTypeOK
  <2> QED
    BY <2>3, <2>4, <2>5, <2>6
<1>5. ASSUME NEW w \in Machines, GiveBack(w) PROVE FleetInv'
  <2>1. /\ w \in inUse /\ inUse' = inUse \ {w}
        /\ coming' = [coming EXCEPT ![w] = 0]
        /\ UNCHANGED <<driver, listed, next>>
        /\ paid' = paid - 1 /\ UNCHANGED <<state, handed>>
        /\ w \in kept
        /\ kept' = kept \ {w} /\ returned' = returned \cup {w}
    BY <1>5 DEF GiveBack, Remove, NotComing, vars
  <2>2. CountIsWhatExists' /\ IsFiniteSet(inUse')
    BY <2>1, CountStep
  <2>3. FleetTypeOK'
    BY <2>1, <2>2 DEF FleetTypeOK
  <2>4. \A m \in Machines : Known(m)' <=> Known(m)
    BY <2>1 DEF Known, Held
  <2>5. NothingYet' /\ Numbered' /\ Accounted' /\ LoadedOpensUnlessListedTwice'
    BY <2>1, <2>4
       DEF NothingYet, Numbered, Accounted, LoadedOpensUnlessListedTwice
  <2>6. OnlyAReusedNameIsMistaken'
    BY <2>1 DEF OnlyAReusedNameIsMistaken, Held
  <2> QED
    BY <2>2, <2>3, <2>5, <2>6
<1>10. ASSUME NEW w \in Machines, GiveBackAgain(w) PROVE FleetInv'
  <2>1. /\ w \in inUse /\ inUse' = inUse \ {w}
        /\ coming' = [coming EXCEPT ![w] = 0]
        /\ UNCHANGED <<driver, listed, next>>
        /\ paid' = paid - 1 /\ UNCHANGED <<state, handed, kept, returned>>
        /\ w \in returned
    BY <1>10 DEF GiveBackAgain, Remove, NotComing, vars
  <2>2. CountIsWhatExists' /\ IsFiniteSet(inUse')
    BY <2>1, CountStep
  <2>3. FleetTypeOK'
    BY <2>1, <2>2 DEF FleetTypeOK
  <2>4. \A m \in Machines : Known(m)' <=> Known(m)
    BY <2>1 DEF Known, Held
  <2>5. NothingYet' /\ Numbered' /\ Accounted' /\ LoadedOpensUnlessListedTwice'
    BY <2>1, <2>4
       DEF NothingYet, Numbered, Accounted, LoadedOpensUnlessListedTwice
  <2>6. driver = DriverListed
    <3>1. w \in kept
      BY <2>1 DEF OnlyAReusedNameIsMistaken
    <3>2. driver \in {"slow", DriverListed} /\ driver # "slow"
      BY <2>1, <3>1 DEF NothingYet, Numbered
    <3> QED
      BY <3>2
  <2>7. OnlyAReusedNameIsMistaken'
    BY <2>1, <2>6 DEF OnlyAReusedNameIsMistaken, Held
  <2> QED
    BY <2>2, <2>3, <2>5, <2>7
<1>6. ASSUME \A m \in Machines : Held(m)' <=> Held(m),
             UNCHANGED <<driver, listed, inUse, next, handed, kept, paid, returned>>,
             coming' \in [Machines -> Nat]
      PROVE  FleetInv'
  <2>1. \A m \in Machines : Known(m)' <=> Known(m)
    BY <1>6 DEF Known
  <2>2. FleetTypeOK'
    BY <1>6 DEF FleetTypeOK
  <2>3. NothingYet' /\ Numbered' /\ Accounted'
    BY <1>6, <2>1 DEF NothingYet, Numbered, Accounted
  <2>4. /\ LoadedOpensUnlessListedTwice' /\ CountIsWhatExists'
        /\ OnlyAReusedNameIsMistaken'
    BY <1>6 DEF LoadedOpensUnlessListedTwice, CountIsWhatExists,
                OnlyAReusedNameIsMistaken, FleetTypeOK
  <2> QED
    BY <2>2, <2>3, <2>4
<1>7. ASSUME NEW w \in Machines, UnitLives(w) \/ Appeared(w) PROVE FleetInv'
  BY <1>6, <1>7, LifeKeepsRows DEF driverVars, fleetVars, FleetTypeOK
<1>8. CASE DriverTick /\ UNCHANGED <<vars, fleetVars>>
  <2>1. coming' \in [Machines -> Nat]
    BY <1>8 DEF DriverTick, FleetTypeOK
  <2> QED
    BY <1>6, <1>8, <2>1 DEF DriverTick, vars, fleetVars, Held
<1>9. CASE UNCHANGED allVars
  BY <1>6, <1>9 DEF allVars, vars, driverVars, fleetVars, Held, FleetTypeOK
<1> QED
  BY <1>1, <1>2, <1>3, <1>4, <1>5, <1>7, <1>8, <1>9, <1>10 DEF FleetNext

\* The inductive invariant holds throughout.
THEOREM FleetInvariant == FleetSpec => []FleetInv
<1>1. FleetInit => FleetInv
  <2> SUFFICES ASSUME FleetInit PROVE FleetInv
    OBVIOUS
  <2>1. /\ driver = "unopened" /\ listed = <<>> /\ inUse = {} /\ next = 0
        /\ coming = [m \in Machines |-> 0]
        /\ handed = {} /\ kept = {} /\ paid = 0 /\ returned = {}
        /\ state = [u \in UnitIds |-> "absent"]
    BY DEF FleetInit, Init, DriverInit
  <2>2. \A m \in Machines : ~Known(m)
    BY <2>1, FleetAssumption DEF Known, Held
  <2>3. IsFiniteSet(inUse) /\ Cardinality(inUse) = 0
    BY <2>1, FS_EmptySet
  <2>4. FleetTypeOK
    BY <2>1, <2>3 DEF FleetTypeOK
  <2>5. NothingYet /\ Numbered /\ Accounted
    BY <2>1, <2>2 DEF NothingYet, Numbered, Accounted
  <2>6. /\ LoadedOpensUnlessListedTwice /\ CountIsWhatExists
        /\ OnlyAReusedNameIsMistaken
    BY <2>1, <2>3 DEF LoadedOpensUnlessListedTwice, CountIsWhatExists,
                      OnlyAReusedNameIsMistaken
  <2> QED
    BY <2>4, <2>5, <2>6 DEF FleetInv
<1> QED
  BY <1>1, FleetInvStep, FleetImplementsPool, TypeCorrect, PTL DEF FleetSpec

\* What config.Load accepts provision.Open builds, unless a machine is listed
\* twice (Load, Open, NewListed).
THEOREM JudgesAgreeUnlessListedTwice == FleetSpec => []LoadedOpensUnlessListedTwice
BY FleetInvariant, PTL DEF FleetInv

\* The machines the caller pays for are the ones the driver holds, whatever is
\* given back twice (Request, Remove of the drivers).
THEOREM PaidForIsHeld == FleetSpec => []CountIsWhatExists
BY FleetInvariant, PTL DEF FleetInv

\* A machine handed out stays the caller's until that hand-out is given back,
\* and is new to the pool, unless it is a listed one that was given back before
\* (Ask and Remove of Listed and Slow, Pool.Request).
THEOREM HandOutsAreToldApart == FleetSpec => []OnlyAReusedNameIsMistaken
BY FleetInvariant, PTL DEF FleetInv

=============================================================================
