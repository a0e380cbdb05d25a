--------------------------- MODULE UnitLifecycle ---------------------------
(***************************************************************************)
(* What the pool promises about a forwarding unit, said without its rows,  *)
(* its locks or its clock: a unit goes forward through five states and     *)
(* never back, it starts admitting only when it has been verified          *)
(* reachable, and failing its health ends it in the same step.             *)
(*                                                                         *)
(* The pool makes every move in one critical section, so a step is one     *)
(* move of one unit, or the end of several units at once.                  *)
(***************************************************************************)
CONSTANT UnitIds

VARIABLES state, reachable, healthy

lifeVars == <<state, reachable, healthy>>

Init ==
    /\ state = [u \in UnitIds |-> "absent"]
    /\ reachable = [u \in UnitIds |-> FALSE]
    /\ healthy = [u \in UnitIds |-> TRUE]

Move(u, from, to) ==
    /\ state[u] = from
    /\ state' = [state EXCEPT ![u] = to]
    /\ UNCHANGED <<reachable, healthy>>

\* A machine is asked for, or is listed by the operator and exists already.
Appear(u) == \E to \in {"requested", "starting"} : Move(u, "absent", to)

\* The provisioner says the machine it was asked for exists.
Exist(u) == Move(u, "requested", "starting")

\* The only way to admit: from starting, verified reachable.
Admit(u) == reachable[u] /\ Move(u, "starting", "admitting")

StopAdmitting(u) == Move(u, "admitting", "draining")

\* Any held units end together. Nothing leaves "gone".
End(S) ==
    /\ \A u \in S : state[u] \notin {"absent", "gone"}
    /\ state' = [u \in UnitIds |-> IF u \in S THEN "gone" ELSE state[u]]
    /\ UNCHANGED <<reachable, healthy>>

\* A verdict arrives. Losing reachability costs an admitting unit its place.
HearReachable(u, ok) ==
    /\ state[u] # "absent"
    /\ reachable' = [reachable EXCEPT ![u] = ok]
    /\ state' = [state EXCEPT ![u] =
                    IF ~ok /\ @ = "admitting" THEN "draining" ELSE @]
    /\ UNCHANGED healthy

\* Failing health ends a unit whatever it was doing.
HearHealthy(u, ok) ==
    /\ state[u] # "absent"
    /\ healthy' = [healthy EXCEPT ![u] = ok]
    /\ state' = [state EXCEPT ![u] = IF ok THEN @ ELSE "gone"]
    /\ UNCHANGED reachable

Next ==
    \/ \E u \in UnitIds :
        \/ Appear(u) \/ Exist(u) \/ Admit(u) \/ StopAdmitting(u)
        \/ \E ok \in BOOLEAN : HearReachable(u, ok) \/ HearHealthy(u, ok)
    \/ \E S \in SUBSET UnitIds : End(S)

Spec == Init /\ [][Next]_lifeVars
=============================================================================
