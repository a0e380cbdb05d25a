------------------------------ MODULE Admission ------------------------------
(***************************************************************************)
(* The admission desk: internal/admission/admission.go, with the verifier  *)
(* of Credential and the placer of Placer, in front of the units behind    *)
(* internal/mediaport/mediaport.go. The model is of one room.              *)
(*                                                                         *)
(* Every Admit is a call of its own and many run at once. What a call      *)
(* reads before it asks a unit is its own arguments and, in Verify, the    *)
(* clock, so that part is one step; the unit's answer, the second reading  *)
(* of the clock and the critical section that makes the admission          *)
(* outstanding are the steps after it. Arrived is one critical section.    *)
(* Sweep reads the clock before it takes the lock, so it is two steps.     *)
(*                                                                         *)
(* The participant an Admit mints is named after the call. How old a grant *)
(* is counts up to Window, where its deadline is; the desk never asks for  *)
(* more. The clock stands still at Horizon, when every window has closed.  *)
(***************************************************************************)
EXTENDS Placer, Credential

CONSTANTS
    Calls,       \* the Admit calls, and the participants they mint
    Units,       \* the units this deployment can reach
    RoomId,      \* the room
    Rooms,       \* the room records callers pass: what they saw of the pool
    Requests,    \* the messages clients send
    Issued,      \* the claims this service has minted credentials for
    OperatorKey, \* the key it mints and verifies with
    MayPublish,  \* the roles the powers let publish
    Sweeps,      \* the Sweep calls that may be in progress at once
    Window,      \* how long a grant is held, in ticks of the clock
    Horizon      \* bound: the instants after this are not told apart

Tokens  == {r.token : r \in Requests}
Framed  == {t \in Tokens : t.framed}

ASSUME AdmissionAssumption ==
    /\ OperatorKey \in HeldKeys
    /\ Issued \subseteq Claims /\ \A c \in Issued : Mintable(c)
    /\ \A r \in Requests : r.readable \in BOOLEAN /\ r.publishing \in BOOLEAN
    /\ Window \in Nat \ {0}
    /\ Horizon \in Nat
    /\ \A t \in Framed : AtUnix(t.payload.expires) < Horizon

\* Who does not hold the key makes no signature: a token it signed is one of
\* those issued, or is in a layout of another build that holds it.
ASSUME Unforgeable ==
    \A t \in Framed : t.key = OperatorKey =>
        t.payload.version # Version \/ t \in {Mint(OperatorKey, c) : c \in Issued}

PortErrors == {"refused", "unavailable", "lost", "unknown", "conflict", "invalid"}
Reasons == {"malformed-request", "credential-refused", "not-permitted",
            "conference-not-open", "no-capacity", "room-full",
            "conference-at-its-unit-ceiling", "unit-refused", "unit-unavailable"}
NoToken == [bytes |-> 0, framed |-> FALSE]
NoAsk == [publishing |-> FALSE, token |-> NoToken, unit |-> 0]
NotStamped == -1

VARIABLES
    now,        \* the clock, up to Horizon
    pc,         \* where each call is
    outcome,    \* the reason a call answered with, "granted" or "none"
    ask,        \* what the call asked which unit for
    age,        \* how long ago the grant was stamped, NotStamped before it
    outstanding,\* the desk's admissions not yet completed, by participant
    due,        \* per Sweep, those past their deadline when it read the clock
    openOn,     \* the units that hold the conference
    onUnit,     \* what each unit holds: participants, by kind
    arrived,    \* history: Arrived answered true, how often
    swept       \* history: a Sweep reported it, how often

deskVars == <<outstanding, due>>
unitVars == <<openOn, onUnit>>
pastVars == <<arrived, swept>>
vars == <<now, pc, outcome, ask, age, deskVars, unitVars, pastVars>>

Init ==
    /\ now = 0
    /\ pc = [a \in Calls |-> "new"]
    /\ outcome = [a \in Calls |-> "none"]
    /\ ask = [a \in Calls |-> NoAsk]
    /\ age = [a \in Calls |-> NotStamped]
    /\ outstanding = {}
    /\ due = [s \in Sweeps |-> {}]
    /\ openOn \in SUBSET Units
    /\ onUnit = [u \in Units |-> {}]
    /\ arrived = [a \in Calls |-> 0]
    /\ swept = [a \in Calls |-> 0]

-----------------------------------------------------------------------------
(* Admit, up to the unit. *)

PlacementReason(reason) ==
    IF reason = "no units" THEN "no-capacity"
    ELSE IF reason = "reached unit ceiling" THEN "conference-at-its-unit-ceiling"
    ELSE "room-full"

Placed(room) == PlaceParticipant(room.rows, room.carrying, room.ceiling)

\* Mutant: a publisher is let through on any credential.
RefusedButForItsRole(request) ==
    IF ~request.readable \/ request.conference # RoomId THEN "malformed-request"
    ELSE IF Verify(OperatorKey, request.token, RoomId, now) # "valid"
         THEN "credential-refused"
    ELSE "no"

\* What is wrong with the message, before the room is looked at.
Refused(request) ==
    IF ~request.readable \/ request.conference # RoomId THEN "malformed-request"
    ELSE IF \/ Verify(OperatorKey, request.token, RoomId, now) # "valid"
            \/ request.token.payload.role = NoText
         THEN "credential-refused"
    ELSE IF request.publishing /\ request.token.payload.role \notin MayPublish
         THEN "not-permitted"
    ELSE "no"

\* The first check that fails, in the order they run; "ask" when none does.
\* A record that names another room is the caller's fault and not an answer.
Verdict(request, room) ==
    IF ~room.usable THEN "fault"
    ELSE IF Refused(request) # "no" THEN Refused(request)
    ELSE IF ~room.open THEN "conference-not-open"
    ELSE IF request.publishing /\ ~request.offersGood THEN "malformed-request"
    ELSE IF ~Placed(room).placed THEN PlacementReason(Placed(room).reason)
    ELSE IF Placed(room).unit \notin Units THEN "unit-unavailable"
    ELSE "ask"

End(a, why) ==
    /\ pc' = [pc EXCEPT ![a] = "ended"]
    /\ outcome' = [outcome EXCEPT ![a] = why]

AdmitRefuses(a, request, room) ==
    /\ pc[a] = "new"
    /\ Verdict(request, room) # "ask"
    /\ End(a, Verdict(request, room))
    /\ UNCHANGED <<now, ask, age, deskVars, unitVars, pastVars>>

\* The identifier source fails: a fault, after the room was found open.
AdmitFaults(a, request, room) ==
    /\ pc[a] = "new"
    /\ room.usable /\ Refused(request) = "no" /\ room.open
    /\ End(a, "fault")
    /\ UNCHANGED <<now, ask, age, deskVars, unitVars, pastVars>>

AdmitAsks(a, request, room) ==
    /\ pc[a] = "new"
    /\ Verdict(request, room) = "ask"
    /\ pc' = [pc EXCEPT ![a] = "asking"]
    /\ ask' = [ask EXCEPT ![a] = [publishing |-> request.publishing,
                                  token |-> request.token,
                                  unit |-> Placed(room).unit]]
    /\ UNCHANGED <<now, outcome, age, deskVars, unitVars, pastVars>>

-----------------------------------------------------------------------------
(* The unit's answer. It may do what it was asked and the answer be lost. *)

\* Mutant: no answer is taken for a refusal.
UnitReasonRefused(err) == IF err = "invalid" THEN "malformed-request" ELSE "unit-refused"

UnitReason(err) ==
    IF err = "refused" THEN "unit-refused"
    ELSE IF err = "invalid" THEN "malformed-request"
    ELSE "unit-unavailable"

Admits(a) ==
    /\ pc[a] = "asking"
    /\ ask[a].unit \in openOn
    /\ onUnit' = [onUnit EXCEPT ![ask[a].unit] =
                    @ \cup {[participant |-> a, publishing |-> ask[a].publishing]}]
    /\ UNCHANGED openOn

UnitAdmits(a) ==
    /\ Admits(a)
    /\ pc' = [pc EXCEPT ![a] = "admitted"]
    /\ UNCHANGED <<now, outcome, ask, age, deskVars, pastVars>>

UnitAnswerLost(a) ==
    /\ Admits(a)
    /\ End(a, UnitReason("unavailable"))
    /\ UNCHANGED <<now, ask, age, deskVars, pastVars>>

\* The port's errors: unknown or lost where the conference is not there,
\* conflict, refused and (for a publisher) invalid where it is.
UnitErrs(a, err) ==
    /\ pc[a] = "asking"
    /\ err \in {"unknown", "lost"} => ask[a].unit \notin openOn
    /\ err \in {"refused", "conflict", "invalid"} => ask[a].unit \in openOn
    /\ err = "invalid" => ask[a].publishing
    /\ End(a, UnitReason(err))
    /\ UNCHANGED <<now, ask, age, deskVars, unitVars, pastVars>>

-----------------------------------------------------------------------------
(* Admit, after the unit. *)

Stamp(a) ==
    /\ pc[a] = "admitted"
    /\ pc' = [pc EXCEPT ![a] = "stamped"]
    /\ age' = [age EXCEPT ![a] = 0]
    /\ UNCHANGED <<now, outcome, ask, deskVars, unitVars, pastVars>>

Grant(a) ==
    /\ pc[a] = "stamped"
    /\ outstanding' = outstanding \cup {a}
    /\ End(a, "granted")
    /\ UNCHANGED <<now, ask, age, due, unitVars, pastVars>>

\* Mutant: the admission stays after the client has arrived.
ArrivedKeeping(a) ==
    /\ outcome[a] = "granted"
    /\ a \in outstanding
    /\ arrived' = [arrived EXCEPT ![a] = @ + 1]
    /\ UNCHANGED <<now, pc, outcome, ask, age, deskVars, unitVars, swept>>

\* A granted client connects, once or again. Only the first finds it held.
Arrived(a) ==
    /\ outcome[a] = "granted"
    /\ a \in outstanding
    /\ outstanding' = outstanding \ {a}
    /\ arrived' = [arrived EXCEPT ![a] = @ + 1]
    /\ UNCHANGED <<now, pc, outcome, ask, age, due, unitVars, swept>>

PastDeadline == {a \in Calls : age[a] >= Window}

\* Sweep reads the clock, and then takes the lock. A grant's deadline does
\* not move, so what will be swept was past it then, granted by now.
SweepReads(s) ==
    /\ due[s] = {}
    /\ due' = [due EXCEPT ![s] = PastDeadline]
    /\ UNCHANGED <<now, pc, outcome, ask, age, outstanding, unitVars, pastVars>>

\* Mutant: what is past its deadline is held on to.
SweepKeeps(s) ==
    /\ due[s] # {}
    /\ due' = [due EXCEPT ![s] = {}]
    /\ UNCHANGED <<now, pc, outcome, ask, age, outstanding, unitVars, pastVars>>

SweepForgets(s) ==
    /\ due[s] # {}
    /\ outstanding' = outstanding \ due[s]
    /\ swept' = [a \in Calls |->
                    IF a \in outstanding \cap due[s] THEN swept[a] + 1 ELSE swept[a]]
    /\ due' = [due EXCEPT ![s] = {}]
    /\ UNCHANGED <<now, pc, outcome, ask, age, unitVars, arrived>>

-----------------------------------------------------------------------------
(* Around the desk: time, and what happens to the units. *)

Tick ==
    /\ now' = IF now = Horizon THEN now ELSE now + 1
    /\ age' = [a \in Calls |->
                  IF age[a] \in {NotStamped, Window} THEN age[a] ELSE age[a] + 1]
    /\ UNCHANGED <<pc, outcome, ask, deskVars, unitVars, pastVars>>

\* The control plane opens the conference on a unit; it closes it, or the
\* unit restarts, and every participant there is released.
OpenConference(u) ==
    /\ openOn' = openOn \cup {u}
    /\ UNCHANGED <<now, pc, outcome, ask, age, deskVars, onUnit, pastVars>>

LoseConference(u) ==
    /\ openOn' = openOn \ {u}
    /\ onUnit' = [onUnit EXCEPT ![u] = {}]
    /\ UNCHANGED <<now, pc, outcome, ask, age, deskVars, pastVars>>

-----------------------------------------------------------------------------
CallStep(a) ==
    \/ UnitAdmits(a) \/ UnitAnswerLost(a)
    \/ \E err \in PortErrors : UnitErrs(a, err)
    \/ Stamp(a) \/ Grant(a)

Next ==
    \/ \E a \in Calls :
        \/ \E request \in Requests, room \in Rooms :
            \/ AdmitRefuses(a, request, room)
            \/ AdmitFaults(a, request, room)
            \/ AdmitAsks(a, request, room)
        \/ CallStep(a)
        \/ Arrived(a)
    \/ \E s \in Sweeps : SweepReads(s) \/ SweepForgets(s)
    \/ Tick
    \/ \E u \in Units : OpenConference(u) \/ LoseConference(u)

Spec == Init /\ [][Next]_vars

(***************************************************************************)
(* A call that was made goes on, a unit answers somehow (the port answers  *)
(* for a unit that does not, with ErrUnavailable), time passes, and the    *)
(* desk's owner keeps sweeping. No client has to arrive.                   *)
(***************************************************************************)
FairSpec ==
    /\ Spec
    /\ \A a \in Calls : WF_vars(CallStep(a))
    /\ WF_vars(Tick)
    /\ \A s \in Sweeps : WF_vars(SweepReads(s)) /\ WF_vars(SweepForgets(s))

-----------------------------------------------------------------------------
\* The values the variables range over.
TypeOK ==
    /\ now \in 0..Horizon
    /\ pc \in [Calls -> {"new", "asking", "admitted", "stamped", "ended"}]
    /\ outcome \in [Calls -> Reasons \cup {"none", "granted", "fault"}]
    /\ ask \in [Calls -> [publishing : BOOLEAN, token : Tokens \cup {NoToken},
                          unit : Units \cup {0}]]
    /\ age \in [Calls -> {NotStamped} \cup (0..Window)]
    /\ outstanding \subseteq Calls
    /\ due \in [Sweeps -> SUBSET Calls]
    /\ openOn \subseteq Units
    /\ onUnit \in [Units -> SUBSET [participant : Calls, publishing : BOOLEAN]]
    /\ arrived \in [Calls -> Nat]
    /\ swept \in [Calls -> Nat]

\* An admission ends once: it is completed by the first arrival or reported
\* abandoned by one Sweep, never both and never twice, however many Sweeps
\* and arrivals race for it; and it is the desk's until then.
EndsOnce ==
    \A a \in Calls :
        outcome[a] = "granted" =>
            arrived[a] + swept[a] + (IF a \in outstanding THEN 1 ELSE 0) = 1

\* A client that was told no left nothing on any unit, unless it was told the
\* unit did not answer: everything else is refused before the unit is told,
\* or by the unit. (A unit that did not answer may hold the participant.)
RefusalLeavesNothing ==
    \A u \in Units : \A h \in onUnit[u] :
        outcome[h.participant] \in {"none", "granted", "unit-unavailable"}

\* No unit accepts a publication from a role that may not publish, and every
\* participant is on the one unit it was placed on.
UnitsHoldWhatWasAllowed ==
    \A u \in Units : \A h \in onUnit[u] :
        LET asked == ask[h.participant] IN
        /\ asked.unit = u /\ asked.publishing = h.publishing
        /\ h.publishing => asked.token.payload.role \in MayPublish

\* A credential is good throughout the window it was minted for, kept in whole
\* seconds, for its own room, and no longer than it is.
CredentialsOpenTheirDoor == \A c \in Issued : OpensItsDoor(OperatorKey, c, now)

\* A unit is asked only on a credential that was minted here, for this room,
\* not past the end it was asked for and less than a second before its
\* beginning, whatever became of both on the way through whole seconds.
AskedOnACredential ==
    [][\A a \in Calls : pc[a] = "new" /\ pc'[a] = "asking" =>
        \E c \in Issued :
            /\ ask'[a].token = Mint(OperatorKey, c)
            /\ c.conference = RoomId
            /\ c.notBefore < now + TicksPerSecond /\ now <= c.expires]_vars

\* Every admission ends: the desk does not go on believing in one for ever.
AdmissionsEnd == \A a \in Calls : a \in outstanding ~> a \notin outstanding
=============================================================================
