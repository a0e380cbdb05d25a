------------------------------ MODULE Provision ------------------------------
(***************************************************************************)
(* The drivers the control plane asks for machines: None and Listed of     *)
(* internal/provision/provision.go, and the two doubles of                 *)
(* internal/provisionfake, Failing and Slow. Each call is one critical     *)
(* section. A refused call changes nothing and is not an action.           *)
(*                                                                         *)
(* A machine and the unit on it have one name, which is what a handle is.  *)
(* Names are numbers, and the n-th machine Slow makes is called n.         *)
(***************************************************************************)
EXTENDS Configuration, FiniteSets

CONSTANT Delay  \* how long a machine of Slow takes to appear

ASSUME ProvisionAssumption ==
    /\ Machines \subseteq Nat \ {0} /\ Blank \notin Machines
    /\ Delay \in Nat

VARIABLES
    driver,     \* what Open or a harness built
    listed,     \* the machines of Listed, in the order they were written
    inUse,      \* the machines the driver holds
    next,       \* how many Slow has made
    coming      \* how long until a held machine appears

driverVars == <<driver, listed, inUse, next, coming>>

DriverInit ==
    /\ driver = "unopened" /\ listed = <<>> /\ inUse = {} /\ next = 0
    /\ coming = [m \in Machines |-> 0]

\* NewListed refuses what it could not hand out once.
CanList(machines) ==
    /\ machines # <<>>
    /\ \A i \in DOMAIN machines : machines[i] # Blank
    /\ \A i, j \in DOMAIN machines : machines[i] = machines[j] => i = j

Open(s) ==
    /\ driver = "unopened"
    /\ driver' = IF s.driver = DriverNone \/ CanList(s.machines)
                 THEN s.driver ELSE "refused"
    /\ listed' = s.machines
    /\ UNCHANGED <<inUse, next, coming>>

\* NewSlow and NewFailing, which no configuration names.
OpenDouble(which) ==
    /\ driver = "unopened"
    /\ driver' = which
    /\ UNCHANGED <<listed, inUse, next, coming>>

Hold(m, delay) ==
    /\ inUse' = inUse \cup {m}
    /\ coming' = [coming EXCEPT ![m] = delay]
    /\ UNCHANGED <<driver, listed>>

\* The first listed machine not in use. Asking when there is none answers
\* ErrNoCapacity, as None does always; Failing answers its error.
AskListed(m) ==
    /\ driver = DriverListed
    /\ \E i \in DOMAIN listed :
            listed[i] = m /\ \A j \in 1..i : listed[j] \in inUse <=> j < i
    /\ Hold(m, 0)
    /\ UNCHANGED next

\* Mutant: machines are numbered by how many are held.
AskSlowByCount(m) ==
    /\ driver = "slow"
    /\ m = Cardinality(inUse) + 1
    /\ next' = m
    /\ Hold(m, Delay)

AskSlow(m) ==
    /\ driver = "slow"
    /\ m = next + 1
    /\ next' = m
    /\ Hold(m, Delay)

Ask(m) == m \in Machines /\ (AskListed(m) \/ AskSlow(m))

\* Slow's part of Exists: its moment has passed on the clock.
HasAppeared(m) == coming[m] = 0

\* What Exists reports of a machine it holds. None and Failing hold none.
Exists(m) == m \in inUse /\ HasAppeared(m)

\* Slow's part of Remove: it forgets when the machine was to appear.
NotComing(m) == coming' = [coming EXCEPT ![m] = 0]

\* Mutant: a machine that is not held is taken back quietly.
RemoveQuietly(m) ==
    /\ inUse' = inUse \ {m}
    /\ NotComing(m)
    /\ UNCHANGED <<driver, listed, next>>

Remove(m) ==
    /\ m \in inUse
    /\ inUse' = inUse \ {m}
    /\ NotComing(m)
    /\ UNCHANGED <<driver, listed, next>>

\* The clock Slow was given.
DriverTick ==
    /\ \E m \in inUse : coming[m] > 0
    /\ coming' = [m \in Machines |-> IF coming[m] = 0 THEN 0 ELSE coming[m] - 1]
    /\ UNCHANGED <<driver, listed, inUse, next>>
=============================================================================
