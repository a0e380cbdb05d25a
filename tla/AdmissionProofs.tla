--------------------------- MODULE AdmissionProofs ---------------------------
(***************************************************************************)
(* What a room credential is worth, for every length of text and key and   *)
(* every clock; and the admission desk that checks it, for every set of    *)
(* calls, Sweeps and units, every room record and request.                 *)
(***************************************************************************)
EXTENDS Admission, TLAPS

(***************************************************************************)
(* Whole seconds are cut off: an instant is not before the second it is    *)
(* kept as, and less than a second after it.                               *)
(***************************************************************************)
LEMMA KeptSecond ==
    ASSUME NEW t \in Nat
    PROVE  /\ Unix(t) \in Nat
           /\ AtUnix(Unix(t)) \in Nat
           /\ AtUnix(Unix(t)) <= t
           /\ t < AtUnix(Unix(t)) + TicksPerSecond
<1>1. TicksPerSecond \in Nat /\ TicksPerSecond > 0
  BY CredentialAssumption
<1>2. /\ t \div TicksPerSecond \in Nat
      /\ t = TicksPerSecond * (t \div TicksPerSecond) + (t % TicksPerSecond)
      /\ t % TicksPerSecond \in 0..(TicksPerSecond - 1)
  BY <1>1, SMT
<1> QED
  BY <1>1, <1>2, SMT DEF Unix, AtUnix

(***************************************************************************)
(* Whatever Issue accepts is short enough for Verify: three fields at      *)
(* their longest make a token below the longest that is read.              *)
(***************************************************************************)
LEMMA MintedFits ==
    ASSUME NEW c \in Claims, Mintable(c)
    PROVE  TokenBytes(c) <= MaxTokenBytes
<1>1. \A text \in Fields(c) : TextBytes[text] \in Nat /\ TextBytes[text] <= MaxFieldBytes
  BY CredentialAssumption DEF Claims, Fields, Mintable
<1>2. /\ TextBytes[c.conference] \in Nat /\ TextBytes[c.conference] <= 128
      /\ TextBytes[c.subject] \in Nat /\ TextBytes[c.subject] <= 128
      /\ TextBytes[c.role] \in Nat /\ TextBytes[c.role] <= 128
  BY <1>1 DEF Fields, MaxFieldBytes
<1>3. PayloadBytes(c) \in Nat /\ PayloadBytes(c) <= 407
  BY <1>2, SMT DEF PayloadBytes
<1>4. TokenBytes(c) <= 1024
  BY <1>3, SMT DEF TokenBytes, MacBytes
<1> QED
  BY <1>4 DEF MaxTokenBytes

(***************************************************************************)
(* A credential that was minted opens its conference in the whole seconds  *)
(* of its window and at no other instant, whatever the lengths of its      *)
(* texts: no limit of Verify refuses what the limits of Issue let through. *)
(***************************************************************************)
THEOREM MintedOpensItsDoor ==
    \A key \in SigningKeys, c \in Claims, at \in Nat : OpensItsDoor(key, c, at)
<1> SUFFICES ASSUME NEW key \in SigningKeys, NEW c \in Claims, NEW at \in Nat,
                    Mintable(c)
             PROVE  Verify(key, Mint(key, c), c.conference, at) = "valid"
                        <=> WindowKept(c, at)
  BY DEF OpensItsDoor
<1> DEFINE token == Mint(key, c)
<1>1. /\ token.bytes = TokenBytes(c) /\ token.framed = TRUE /\ token.key = key
      /\ token.payload = Encode(c)
  BY DEF Mint
<1>2. /\ token.payload.version = Version /\ token.payload.conference = c.conference
      /\ token.payload.notBefore = Unix(c.notBefore)
      /\ token.payload.expires = Unix(c.expires)
      /\ ~Unreadable(token.payload)
  <2>1. /\ Encode(c).fits = TRUE /\ Fields(Encode(c)) = Fields(c)
    BY DEF Encode, Fields
  <2>2. \A text \in Fields(c) : TextBytes[text] \in Nat /\ TextBytes[text] <= MaxFieldBytes
    BY CredentialAssumption DEF Claims, Fields, Mintable
  <2>3. ~Unreadable(Encode(c))
    BY <2>1, <2>2, SMT DEF Unreadable, MaxFieldBytes
  <2> QED
    BY <1>1, <2>3 DEF Encode
<1>3. ~(token.bytes > MaxTokenBytes)
  <2>1. TokenBytes(c) \in Nat
    <3>1. \A text \in Fields(c) : TextBytes[text] \in Nat
      BY CredentialAssumption DEF Claims, Fields
    <3> QED
      BY <3>1, SMT DEF TokenBytes, PayloadBytes, MacBytes, Fields
  <2> QED
    BY <1>1, <2>1, MintedFits, SMT DEF MaxTokenBytes
<1>4. c.conference # NoText
  BY DEF Mintable
<1>5. c.notBefore \in Nat /\ c.expires \in Nat
  BY DEF Mintable, Claims, Instants, NoTime
<1>6. AtUnix(Unix(c.notBefore)) \in Nat /\ AtUnix(Unix(c.expires)) \in Nat
  BY <1>5, KeptSecond
<1> QED
  BY <1>1, <1>2, <1>3, <1>4, <1>6, SMT DEF Verify, WindowKept

(***************************************************************************)
(* What Verify accepts carries the signature of its own key, and where it  *)
(* is a credential that was minted it is for the conference it is shown    *)
(* at, no more than a second early and not late.                           *)
(***************************************************************************)
THEOREM AcceptedWasAskedFor ==
    \A key \in SigningKeys, conference \in Texts, at \in Nat, c \in Claims :
        Mintable(c) /\ Verify(key, Mint(key, c), conference, at) = "valid" =>
            /\ c.conference = conference
            /\ c.notBefore < at + TicksPerSecond
            /\ at <= c.expires
<1> SUFFICES ASSUME NEW key \in SigningKeys, NEW conference \in Texts, NEW at \in Nat,
                    NEW c \in Claims, Mintable(c),
                    Verify(key, Mint(key, c), conference, at) = "valid"
             PROVE  /\ c.conference = conference
                    /\ c.notBefore < at + TicksPerSecond
                    /\ at <= c.expires
  OBVIOUS
<1>1. /\ Mint(key, c).payload.conference = c.conference
      /\ Mint(key, c).payload.notBefore = Unix(c.notBefore)
      /\ Mint(key, c).payload.expires = Unix(c.expires)
  BY DEF Mint, Encode
<1>2. c.conference = conference
  BY <1>1 DEF Verify
<1>3. OpensItsDoor(key, c, at)
  BY MintedOpensItsDoor
<1>4. AtUnix(Unix(c.notBefore)) <= at /\ at <= AtUnix(Unix(c.expires))
  BY <1>2, <1>3 DEF OpensItsDoor, WindowKept
<1>5. c.notBefore \in Nat /\ c.expires \in Nat /\ TicksPerSecond \in Nat
  BY CredentialAssumption DEF Mintable, Claims, Instants, NoTime
<1>6. /\ AtUnix(Unix(c.notBefore)) \in Nat /\ AtUnix(Unix(c.expires)) \in Nat
      /\ c.notBefore < AtUnix(Unix(c.notBefore)) + TicksPerSecond
      /\ AtUnix(Unix(c.expires)) <= c.expires
  BY <1>5, KeptSecond
<1> QED
  BY <1>2, <1>4, <1>5, <1>6, SMT

-----------------------------------------------------------------------------
(* The desk. *)

\* A call has answered exactly when it is over.
AnsweredAtTheEnd == \A a \in Calls : pc[a] = "ended" <=> outcome[a] # "none"

\* Arrivals, Sweeps and the desk account for the grants and for nothing else.
GrantsAccounted ==
    \A a \in Calls :
        arrived[a] + swept[a] + (IF a \in outstanding THEN 1 ELSE 0)
            = IF outcome[a] = "granted" THEN 1 ELSE 0

\* A unit is asked to take a publisher only on a role that may publish.
AskingIsAllowed ==
    \A a \in Calls : pc[a] = "asking" /\ ask[a].publishing =>
        ask[a].token.payload.role \in MayPublish

\* Whom a unit holds was admitted by the call it was asked in.
HeldWasAdmitted ==
    \A u \in Units : \A h \in onUnit[u] :
        /\ pc[h.participant] \in {"admitted", "stamped", "ended"}
        /\ outcome[h.participant] \in {"none", "granted", "unit-unavailable"}

\* What is true of the desk and the units between any two steps.
DeskInv ==
    /\ TypeOK /\ AnsweredAtTheEnd /\ GrantsAccounted /\ AskingIsAllowed
    /\ HeldWasAdmitted /\ UnitsHoldWhatWasAllowed

\* The verdict on a message is a reason, a fault or none of them.
LEMMA VerdictType ==
    ASSUME NEW request, NEW room
    PROVE  /\ Verdict(request, room) \in Reasons \cup {"fault", "ask"}
           /\ Verdict(request, room) \notin {"none", "granted"}
<1>1. PlacementReason(Placed(room).reason) \in Reasons
  BY DEF PlacementReason, Reasons
<1>2. Refused(request) \in {"malformed-request", "credential-refused", "not-permitted", "no"}
  BY DEF Refused
<1>3. Verdict(request, room) \in Reasons \cup {"fault", "ask"}
  BY <1>1, <1>2 DEF Verdict, Reasons
<1> QED
  BY <1>3 DEF Reasons

\* Every error of the port is answered with a reason.
LEMMA UnitReasonType ==
    ASSUME NEW err
    PROVE  UnitReason(err) \in Reasons /\ UnitReason(err) \notin {"none", "granted"}
BY DEF UnitReason, Reasons

\* What a verdict of "ask" says of the message and of the placement.
LEMMA AskIsAllowed ==
    ASSUME NEW request, NEW room, Verdict(request, room) = "ask"
    PROVE  /\ Verify(OperatorKey, request.token, RoomId, now) = "valid"
           /\ request.publishing => request.token.payload.role \in MayPublish
           /\ Placed(room).unit \in Units
<1>1. Refused(request) = "no"
  BY DEF Verdict, Refused
<1>2. PlacementReason(Placed(room).reason) # "ask"
  BY DEF PlacementReason
<1>3. Placed(room).unit \in Units
  BY <1>1, <1>2 DEF Verdict
<1> QED
  BY <1>1, <1>3 DEF Refused

-----------------------------------------------------------------------------
\* Every step of the desk keeps the types.
LEMMA TypeStep == TypeOK /\ [Next]_vars => TypeOK'
<1> SUFFICES ASSUME TypeOK, [Next]_vars PROVE TypeOK'
  OBVIOUS
<1>w. Window \in Nat /\ Window > 0 /\ Horizon \in Nat
  BY AdmissionAssumption DEF AdmissionAssumption
<1>p. \A request \in Requests : request.publishing \in BOOLEAN
  BY AdmissionAssumption DEF AdmissionAssumption
<1> USE DEF TypeOK, NotStamped
<1>1. ASSUME NEW a \in Calls, NEW request \in Requests, NEW room \in Rooms,
             AdmitRefuses(a, request, room)
      PROVE  TypeOK'
  BY <1>1, VerdictType DEF AdmitRefuses, End, deskVars, unitVars, pastVars
<1>2. ASSUME NEW a \in Calls, NEW request \in Requests, NEW room \in Rooms,
             AdmitFaults(a, request, room)
      PROVE  TypeOK'
  BY <1>2 DEF AdmitFaults, End, deskVars, unitVars, pastVars
<1>3. ASSUME NEW a \in Calls, NEW request \in Requests, NEW room \in Rooms,
             AdmitAsks(a, request, room)
      PROVE  TypeOK'
  <2>1. request.token \in Tokens /\ request.publishing \in BOOLEAN
    BY <1>p DEF Tokens
  <2>2. Placed(room).unit \in Units
    BY <1>3, AskIsAllowed DEF AdmitAsks
  <2> QED
    BY <1>3, <2>1, <2>2 DEF AdmitAsks, deskVars, unitVars, pastVars
<1>4. ASSUME NEW a \in Calls, Admits(a) PROVE
        onUnit' \in [Units -> SUBSET [participant : Calls, publishing : BOOLEAN]]
        /\ openOn' \subseteq Units
  BY <1>4 DEF Admits
<1>5. ASSUME NEW a \in Calls, UnitAdmits(a) PROVE TypeOK'
  BY <1>4, <1>5 DEF UnitAdmits, deskVars, pastVars
<1>6. ASSUME NEW a \in Calls, UnitAnswerLost(a) PROVE TypeOK'
  BY <1>4, <1>6, UnitReasonType DEF UnitAnswerLost, End, deskVars, pastVars
<1>7. ASSUME NEW a \in Calls, NEW err \in PortErrors, UnitErrs(a, err) PROVE TypeOK'
  BY <1>7, UnitReasonType DEF UnitErrs, End, deskVars, unitVars, pastVars
<1>8. ASSUME NEW a \in Calls, Stamp(a) PROVE TypeOK'
  BY <1>w, <1>8 DEF Stamp, deskVars, unitVars, pastVars
<1>9. ASSUME NEW a \in Calls, Grant(a) PROVE TypeOK'
  BY <1>9 DEF Grant, End, unitVars, pastVars
<1>10. ASSUME NEW a \in Calls, Arrived(a) PROVE TypeOK'
  BY <1>10 DEF Arrived, unitVars
<1>11. ASSUME NEW s \in Sweeps, SweepReads(s) PROVE TypeOK'
  BY <1>11 DEF SweepReads, PastDeadline, unitVars, pastVars
<1>12. ASSUME NEW s \in Sweeps, SweepForgets(s) PROVE TypeOK'
  BY <1>12 DEF SweepForgets, unitVars
<1>13. ASSUME Tick PROVE TypeOK'
  <2>1. now' \in 0..Horizon
    BY <1>w, <1>13 DEF Tick
  <2>2. ASSUME NEW a \in Calls, age[a] \notin {-1, Window}
        PROVE  age[a] + 1 \in 0..Window
    <3>1. age[a] \in {-1} \cup (0..Window)
      OBVIOUS
    <3>2. age[a] \in 0..Window /\ age[a] # Window
      BY <2>2, <3>1
    <3> HIDE DEF TypeOK
    <3> QED
      BY <1>w, <3>2
  <2>3. age' \in [Calls -> {-1} \cup (0..Window)]
    BY <1>13, <2>2 DEF Tick
  <2> QED
    BY <1>13, <2>1, <2>3 DEF Tick, deskVars, unitVars, pastVars
<1>14. ASSUME NEW u \in Units, OpenConference(u) PROVE TypeOK'
  BY <1>14 DEF OpenConference, deskVars, pastVars
<1>15. ASSUME NEW u \in Units, LoseConference(u) PROVE TypeOK'
  BY <1>15 DEF LoseConference, deskVars, pastVars
<1>16. CASE UNCHANGED vars
  BY <1>16 DEF vars, deskVars, unitVars, pastVars
<1> QED
  BY <1>1, <1>2, <1>3, <1>5, <1>6, <1>7, <1>8, <1>9, <1>10, <1>11, <1>12, <1>13,
     <1>14, <1>15, <1>16 DEF Next, CallStep

(***************************************************************************)
(* The variables of the desk keep their types.                             *)
(***************************************************************************)
THEOREM TypeCorrect == Spec => []TypeOK
<1>1. Init => TypeOK
  BY AdmissionAssumption DEF AdmissionAssumption, Init, TypeOK, NoAsk, NotStamped
<1> QED
  BY <1>1, TypeStep, PTL DEF Spec

-----------------------------------------------------------------------------
(***************************************************************************)
(* A call that ends without a grant, from where it has answered nothing    *)
(* yet, leaves the accounts of the others and its own as they were.        *)
(***************************************************************************)
LEMMA EndsUngranted ==
    ASSUME DeskInv, NEW a \in Calls, NEW why \in Reasons \cup {"fault"},
           why \notin {"none", "granted"}, pc[a] \in {"new", "asking"},
           End(a, why), UNCHANGED <<deskVars, pastVars>>
    PROVE  AnsweredAtTheEnd' /\ GrantsAccounted'
<1>1. outcome[a] = "none"
  BY DEF DeskInv, AnsweredAtTheEnd
<1>2. /\ pc' = [pc EXCEPT ![a] = "ended"]
      /\ pc \in [Calls -> {"new", "asking", "admitted", "stamped", "ended"}]
      /\ outcome' = [outcome EXCEPT ![a] = why]
      /\ outcome \in [Calls -> Reasons \cup {"none", "granted", "fault"}]
  BY DEF End, DeskInv, TypeOK
<1>3. AnsweredAtTheEnd'
  BY <1>2 DEF DeskInv, AnsweredAtTheEnd
<1>4. \A b \in Calls : outcome'[b] = "granted" <=> outcome[b] = "granted"
  BY <1>1, <1>2
<1>5. arrived' = arrived /\ swept' = swept /\ outstanding' = outstanding
  BY DEF deskVars, pastVars
<1>6. GrantsAccounted'
  BY <1>4, <1>5 DEF DeskInv, GrantsAccounted
<1> QED
  BY <1>3, <1>6

(***************************************************************************)
(* A participant the desk has not admitted is on no unit.                  *)
(***************************************************************************)
LEMMA NotYetHeld ==
    ASSUME DeskInv, NEW a \in Calls, pc[a] \in {"new", "asking"}
    PROVE  \A u \in Units : \A h \in onUnit[u] : h.participant # a
BY DEF DeskInv, HeldWasAdmitted

(***************************************************************************)
(* What the units hold stays in order when they hold no more than before   *)
(* and what is known of those they hold does not change.                   *)
(***************************************************************************)
LEMMA UnitsUndisturbed ==
    ASSUME DeskInv,
           \A u \in Units : onUnit'[u] \subseteq onUnit[u],
           \A u \in Units : \A h \in onUnit[u] :
               /\ ask'[h.participant] = ask[h.participant]
               /\ pc'[h.participant] = pc[h.participant]
               /\ outcome'[h.participant] = outcome[h.participant]
    PROVE  HeldWasAdmitted' /\ UnitsHoldWhatWasAllowed'
<1>1. HeldWasAdmitted'
  BY DEF DeskInv, HeldWasAdmitted
<1>2. UnitsHoldWhatWasAllowed'
  BY DEF DeskInv, UnitsHoldWhatWasAllowed
<1> QED
  BY <1>1, <1>2

(***************************************************************************)
(* The unit takes a participant in: the one of the call, as it was asked.  *)
(***************************************************************************)
LEMMA UnitTakes ==
    ASSUME DeskInv, NEW a \in Calls, Admits(a), ask' = ask,
           \/ pc' = [pc EXCEPT ![a] = "admitted"] /\ outcome' = outcome
           \/ End(a, "unit-unavailable")
    PROVE  HeldWasAdmitted' /\ UnitsHoldWhatWasAllowed'
<1> DEFINE new == [participant |-> a, publishing |-> ask[a].publishing]
<1>1. /\ pc[a] = "asking" /\ outcome[a] = "none" /\ ask[a].unit \in Units
      /\ new.participant = a /\ new.publishing = ask[a].publishing
  BY DEF Admits, DeskInv, AnsweredAtTheEnd, TypeOK
<1>2. \A u \in Units : \A h \in onUnit'[u] :
          h \in onUnit[u] \/ (h = new /\ u = ask[a].unit)
  BY <1>1 DEF Admits, DeskInv, TypeOK
<1>3. \A u \in Units : \A h \in onUnit[u] : h.participant \in Calls \ {a}
  BY <1>1, NotYetHeld DEF DeskInv, TypeOK
<1>4. /\ pc'[a] \in {"admitted", "ended"}
      /\ outcome'[a] \in {"none", "unit-unavailable"}
      /\ \A b \in Calls \ {a} : pc'[b] = pc[b] /\ outcome'[b] = outcome[b]
  BY <1>1 DEF End, DeskInv, TypeOK
<1>5. HeldWasAdmitted'
  <2> SUFFICES ASSUME NEW u \in Units, NEW h \in onUnit'[u]
               PROVE  /\ pc'[h.participant] \in {"admitted", "stamped", "ended"}
                      /\ outcome'[h.participant] \in {"none", "granted", "unit-unavailable"}
    BY DEF HeldWasAdmitted
  <2>1. CASE h \in onUnit[u]
    BY <2>1, <1>3, <1>4 DEF DeskInv, HeldWasAdmitted
  <2>2. CASE h = new
    BY <2>2, <1>1, <1>4
  <2> QED
    BY <1>2, <2>1, <2>2
<1>6. UnitsHoldWhatWasAllowed'
  <2> SUFFICES ASSUME NEW u \in Units, NEW h \in onUnit'[u]
               PROVE  /\ ask[h.participant].unit = u
                      /\ ask[h.participant].publishing = h.publishing
                      /\ h.publishing =>
                            ask[h.participant].token.payload.role \in MayPublish
    BY DEF UnitsHoldWhatWasAllowed
  <2>1. CASE h \in onUnit[u]
    BY <2>1 DEF DeskInv, UnitsHoldWhatWasAllowed
  <2>2. CASE h = new /\ u = ask[a].unit
    BY <2>2, <1>1 DEF DeskInv, AskingIsAllowed
  <2> QED
    BY <1>2, <2>1, <2>2
<1> QED
  BY <1>5, <1>6

-----------------------------------------------------------------------------
(***************************************************************************)
(* Every step keeps the invariant: what a call asks is fixed before a unit *)
(* holds its participant, and a grant is handed from the desk to an        *)
(* arrival or to one Sweep under the lock.                                 *)
(***************************************************************************)
LEMMA DeskStep == DeskInv /\ [Next]_vars => DeskInv'
<1> SUFFICES ASSUME DeskInv, [Next]_vars PROVE DeskInv'
  OBVIOUS
<1>t. TypeOK /\ TypeOK'
  BY TypeStep DEF DeskInv
<1>1. ASSUME NEW a \in Calls, NEW why \in Reasons \cup {"fault"},
             why \notin {"none", "granted"}, pc[a] \in {"new", "asking"}, End(a, why),
             UNCHANGED <<ask, deskVars, unitVars, pastVars>>
      PROVE  DeskInv'
  <2>1. AnsweredAtTheEnd' /\ GrantsAccounted'
    BY <1>1, EndsUngranted
  <2>2. AskingIsAllowed'
    BY <1>1, <1>t DEF End, TypeOK, DeskInv, AskingIsAllowed
  <2>3. HeldWasAdmitted' /\ UnitsHoldWhatWasAllowed'
    <3>1. \A u \in Units : \A h \in onUnit[u] : h.participant \in Calls \ {a}
      BY <1>1, <1>t, NotYetHeld DEF TypeOK
    <3>2. \A b \in Calls \ {a} : pc'[b] = pc[b] /\ outcome'[b] = outcome[b]
      BY <1>1, <1>t DEF End, TypeOK
    <3>3. onUnit' = onUnit /\ ask' = ask
      BY <1>1 DEF unitVars
    <3> QED
      BY <3>1, <3>2, <3>3, UnitsUndisturbed
  <2> QED
    BY <1>t, <2>1, <2>2, <2>3 DEF DeskInv
<1>2. ASSUME NEW a \in Calls, NEW request \in Requests, NEW room \in Rooms,
             AdmitRefuses(a, request, room)
      PROVE  DeskInv'
  BY <1>1, <1>2, VerdictType DEF AdmitRefuses
<1>3. ASSUME NEW a \in Calls, NEW request \in Requests, NEW room \in Rooms,
             AdmitFaults(a, request, room)
      PROVE  DeskInv'
  BY <1>1, <1>3 DEF AdmitFaults
<1>4. ASSUME NEW a \in Calls, NEW err \in PortErrors, UnitErrs(a, err)
      PROVE  DeskInv'
  BY <1>1, <1>4, UnitReasonType DEF UnitErrs
<1>5. ASSUME NEW a \in Calls, NEW request \in Requests, NEW room \in Rooms,
             AdmitAsks(a, request, room)
      PROVE  DeskInv'
  <2>1. /\ pc[a] = "new" /\ pc' = [pc EXCEPT ![a] = "asking"]
        /\ ask' = [ask EXCEPT ![a] = [publishing |-> request.publishing,
                                      token |-> request.token,
                                      unit |-> Placed(room).unit]]
        /\ outcome' = outcome /\ onUnit' = onUnit /\ outstanding' = outstanding
        /\ arrived' = arrived /\ swept' = swept
    BY <1>5 DEF AdmitAsks, deskVars, unitVars, pastVars
  <2>2. AnsweredAtTheEnd'
    BY <1>t, <2>1 DEF DeskInv, AnsweredAtTheEnd, TypeOK
  <2>3. GrantsAccounted'
    BY <2>1 DEF DeskInv, GrantsAccounted
  <2>4. AskingIsAllowed'
    <3>1. request.publishing => request.token.payload.role \in MayPublish
      BY <1>5, AskIsAllowed DEF AdmitAsks
    <3> QED
      BY <1>t, <2>1, <3>1 DEF DeskInv, AskingIsAllowed, TypeOK
  <2>5. HeldWasAdmitted' /\ UnitsHoldWhatWasAllowed'
    <3>1. \A u \in Units : \A h \in onUnit[u] : h.participant \in Calls \ {a}
      BY <1>t, <2>1, NotYetHeld DEF TypeOK
    <3>2. \A b \in Calls \ {a} : pc'[b] = pc[b] /\ ask'[b] = ask[b]
      BY <1>t, <2>1 DEF TypeOK
    <3> QED
      BY <2>1, <3>1, <3>2, UnitsUndisturbed
  <2> QED
    BY <1>t, <2>2, <2>3, <2>4, <2>5 DEF DeskInv
<1>6. ASSUME NEW a \in Calls, UnitAdmits(a) PROVE DeskInv'
  <2>1. /\ pc[a] = "asking" /\ pc' = [pc EXCEPT ![a] = "admitted"]
        /\ ask' = ask /\ outcome' = outcome /\ outstanding' = outstanding
        /\ arrived' = arrived /\ swept' = swept
    BY <1>6 DEF UnitAdmits, Admits, deskVars, pastVars
  <2>2. AnsweredAtTheEnd'
    BY <1>t, <2>1 DEF DeskInv, AnsweredAtTheEnd, TypeOK
  <2>3. GrantsAccounted'
    BY <2>1 DEF DeskInv, GrantsAccounted
  <2>4. AskingIsAllowed'
    BY <1>t, <2>1 DEF DeskInv, AskingIsAllowed, TypeOK
  <2>5. HeldWasAdmitted' /\ UnitsHoldWhatWasAllowed'
    BY <1>6, <2>1, UnitTakes DEF UnitAdmits
  <2> QED
    BY <1>t, <2>2, <2>3, <2>4, <2>5 DEF DeskInv
<1>7. ASSUME NEW a \in Calls, UnitAnswerLost(a) PROVE DeskInv'
  <2>1. /\ pc[a] = "asking" /\ End(a, "unit-unavailable") /\ ask' = ask
        /\ UNCHANGED <<deskVars, pastVars>> /\ Admits(a)
    BY <1>7 DEF UnitAnswerLost, Admits, UnitReason
  <2>2. AnsweredAtTheEnd' /\ GrantsAccounted'
    BY <2>1, EndsUngranted DEF Reasons
  <2>3. AskingIsAllowed'
    BY <1>t, <2>1 DEF End, DeskInv, AskingIsAllowed, TypeOK
  <2>4. HeldWasAdmitted' /\ UnitsHoldWhatWasAllowed'
    BY <2>1, UnitTakes
  <2> QED
    BY <1>t, <2>2, <2>3, <2>4 DEF DeskInv
<1>8. ASSUME NEW a \in Calls, Stamp(a) PROVE DeskInv'
  <2>1. /\ pc[a] = "admitted" /\ pc' = [pc EXCEPT ![a] = "stamped"]
        /\ ask' = ask /\ outcome' = outcome /\ outstanding' = outstanding
        /\ arrived' = arrived /\ swept' = swept /\ onUnit' = onUnit
    BY <1>8 DEF Stamp, deskVars, unitVars, pastVars
  <2>2. AnsweredAtTheEnd'
    BY <1>t, <2>1 DEF DeskInv, AnsweredAtTheEnd, TypeOK
  <2>3. GrantsAccounted'
    BY <2>1 DEF DeskInv, GrantsAccounted
  <2>4. AskingIsAllowed'
    BY <1>t, <2>1 DEF DeskInv, AskingIsAllowed, TypeOK
  <2>5. HeldWasAdmitted'
    <3>1. \A b \in Calls : pc[b] \in {"admitted", "stamped", "ended"}
                               => pc'[b] \in {"admitted", "stamped", "ended"}
      BY <1>t, <2>1 DEF TypeOK
    <3>2. \A u \in Units : \A h \in onUnit[u] : h.participant \in Calls
      BY <1>t DEF TypeOK
    <3> QED
      BY <2>1, <3>1, <3>2 DEF DeskInv, HeldWasAdmitted
  <2>6. UnitsHoldWhatWasAllowed'
    BY <2>1 DEF DeskInv, UnitsHoldWhatWasAllowed
  <2> QED
    BY <1>t, <2>2, <2>3, <2>4, <2>5, <2>6 DEF DeskInv
<1>9. ASSUME NEW a \in Calls, Grant(a) PROVE DeskInv'
  <2>1. /\ pc[a] = "stamped" /\ End(a, "granted") /\ outstanding' = outstanding \cup {a}
        /\ ask' = ask /\ arrived' = arrived /\ swept' = swept /\ onUnit' = onUnit
    BY <1>9 DEF Grant, unitVars, pastVars
  <2>2. outcome[a] = "none" /\ outcome'[a] = "granted"
    BY <1>t, <2>1 DEF End, TypeOK, DeskInv, AnsweredAtTheEnd
  <2>3. \A b \in Calls \ {a} : pc'[b] = pc[b] /\ outcome'[b] = outcome[b]
    BY <1>t, <2>1 DEF End, TypeOK
  <2>4. AnsweredAtTheEnd'
    BY <1>t, <2>1, <2>2 DEF End, DeskInv, AnsweredAtTheEnd, TypeOK
  <2>5. GrantsAccounted'
    <3>1. arrived[a] \in Nat /\ swept[a] \in Nat
      BY <1>t DEF TypeOK
    <3>2. arrived[a] = 0 /\ swept[a] = 0 /\ a \notin outstanding
      BY <2>2, <3>1 DEF DeskInv, GrantsAccounted
    <3> QED
      BY <2>1, <2>2, <2>3, <3>2 DEF DeskInv, GrantsAccounted
  <2>6. AskingIsAllowed'
    BY <1>t, <2>1 DEF End, DeskInv, AskingIsAllowed, TypeOK
  <2>7. HeldWasAdmitted'
    <3>1. pc'[a] = "ended"
      BY <1>t, <2>1 DEF End, TypeOK
    <3>2. \A u \in Units : \A h \in onUnit[u] : h.participant \in Calls
      BY <1>t DEF TypeOK
    <3> QED
      BY <2>1, <2>2, <2>3, <3>1, <3>2 DEF DeskInv, HeldWasAdmitted
  <2>8. UnitsHoldWhatWasAllowed'
    BY <2>1 DEF DeskInv, UnitsHoldWhatWasAllowed
  <2> QED
    BY <1>t, <2>4, <2>5, <2>6, <2>7, <2>8 DEF DeskInv
<1>10. ASSUME NEW a \in Calls, Arrived(a) PROVE DeskInv'
  <2>1. /\ outcome[a] = "granted" /\ a \in outstanding
        /\ outstanding' = outstanding \ {a} /\ arrived' = [arrived EXCEPT ![a] = @ + 1]
        /\ pc' = pc /\ outcome' = outcome /\ ask' = ask /\ onUnit' = onUnit
        /\ swept' = swept
    BY <1>10 DEF Arrived, unitVars
  <2>2. GrantsAccounted'
    <3>1. arrived \in [Calls -> Nat] /\ swept \in [Calls -> Nat]
      BY <1>t DEF TypeOK
    <3>2. arrived'[a] = arrived[a] + 1 /\ \A b \in Calls \ {a} : arrived'[b] = arrived[b]
      BY <2>1, <3>1
    <3>3. arrived[a] \in Nat /\ swept[a] \in Nat
      BY <3>1
    <3>4. arrived[a] + swept[a] + 1 = 1
      BY <2>1 DEF DeskInv, GrantsAccounted
    <3>5. arrived'[a] + swept'[a] + 0 = 1
      BY <2>1, <3>2, <3>3, <3>4
    <3> QED
      BY <2>1, <3>2, <3>5 DEF DeskInv, GrantsAccounted
  <2>3. AnsweredAtTheEnd' /\ AskingIsAllowed' /\ HeldWasAdmitted' /\ UnitsHoldWhatWasAllowed'
    BY <2>1 DEF DeskInv, AnsweredAtTheEnd, AskingIsAllowed, HeldWasAdmitted,
                UnitsHoldWhatWasAllowed
  <2> QED
    BY <1>t, <2>2, <2>3 DEF DeskInv
<1>11. ASSUME NEW s \in Sweeps, SweepForgets(s) PROVE DeskInv'
  <2>1. /\ outstanding' = outstanding \ due[s]
        /\ swept' = [a \in Calls |->
               IF a \in outstanding \cap due[s] THEN swept[a] + 1 ELSE swept[a]]
        /\ pc' = pc /\ outcome' = outcome /\ ask' = ask /\ onUnit' = onUnit
        /\ arrived' = arrived
    BY <1>11 DEF SweepForgets, unitVars
  <2>2. GrantsAccounted'
    <3> SUFFICES ASSUME NEW a \in Calls
                 PROVE  arrived'[a] + swept'[a] + (IF a \in outstanding' THEN 1 ELSE 0)
                            = IF outcome'[a] = "granted" THEN 1 ELSE 0
      BY DEF GrantsAccounted
    <3>1. arrived[a] \in Nat /\ swept[a] \in Nat
      BY <1>t DEF TypeOK
    <3>2. arrived[a] + swept[a] + (IF a \in outstanding THEN 1 ELSE 0)
              = IF outcome[a] = "granted" THEN 1 ELSE 0
      BY DEF DeskInv, GrantsAccounted
    <3>3. CASE a \in outstanding \cap due[s]
      <4>1. swept'[a] = swept[a] + 1 /\ a \in outstanding /\ a \notin outstanding'
        BY <2>1, <3>3
      <4> QED
        BY <2>1, <3>1, <3>2, <4>1
    <3>4. CASE a \notin outstanding \cap due[s]
      <4>1. swept'[a] = swept[a] /\ (a \in outstanding' <=> a \in outstanding)
        BY <2>1, <3>4
      <4> QED
        BY <2>1, <3>2, <4>1
    <3> QED
      BY <3>3, <3>4
  <2>3. AnsweredAtTheEnd' /\ AskingIsAllowed' /\ HeldWasAdmitted' /\ UnitsHoldWhatWasAllowed'
    BY <2>1 DEF DeskInv, AnsweredAtTheEnd, AskingIsAllowed, HeldWasAdmitted,
                UnitsHoldWhatWasAllowed
  <2> QED
    BY <1>t, <2>2, <2>3 DEF DeskInv
<1>12. ASSUME UNCHANGED <<pc, outcome, ask, outstanding, pastVars>>,
              \A u \in Units : onUnit'[u] \subseteq onUnit[u]
       PROVE  DeskInv'
  <2>1. AnsweredAtTheEnd' /\ GrantsAccounted' /\ AskingIsAllowed'
    BY <1>12 DEF DeskInv, AnsweredAtTheEnd, GrantsAccounted, AskingIsAllowed, pastVars
  <2>2. HeldWasAdmitted' /\ UnitsHoldWhatWasAllowed'
    BY <1>12, UnitsUndisturbed
  <2> QED
    BY <1>t, <2>1, <2>2 DEF DeskInv
<1>13. ASSUME NEW s \in Sweeps, SweepReads(s) PROVE DeskInv'
  BY <1>12, <1>13 DEF SweepReads, unitVars
<1>14. CASE Tick
  BY <1>12, <1>14 DEF Tick, deskVars, unitVars
<1>15. ASSUME NEW u \in Units, OpenConference(u) PROVE DeskInv'
  BY <1>12, <1>15 DEF OpenConference, deskVars
<1>16. ASSUME NEW u \in Units, LoseConference(u) PROVE DeskInv'
  BY <1>12, <1>16, <1>t DEF LoseConference, deskVars, TypeOK
<1>17. CASE UNCHANGED vars
  BY <1>12, <1>17 DEF vars, deskVars, unitVars
<1> QED
  BY <1>2, <1>3, <1>4, <1>5, <1>6, <1>7, <1>8, <1>9, <1>10, <1>11, <1>13, <1>14,
     <1>15, <1>16, <1>17 DEF Next, CallStep

(***************************************************************************)
(* The invariant holds from the start.                                     *)
(***************************************************************************)
THEOREM DeskCorrect == Spec => []DeskInv
<1>1. Init => DeskInv
  <2> SUFFICES ASSUME Init PROVE DeskInv
    OBVIOUS
  <2>1. TypeOK
    BY AdmissionAssumption DEF AdmissionAssumption, Init, TypeOK, NoAsk, NotStamped
  <2>2. AnsweredAtTheEnd /\ GrantsAccounted /\ AskingIsAllowed /\ HeldWasAdmitted
        /\ UnitsHoldWhatWasAllowed
    BY DEF Init, AnsweredAtTheEnd, GrantsAccounted, AskingIsAllowed, HeldWasAdmitted,
           UnitsHoldWhatWasAllowed
  <2> QED
    BY <2>1, <2>2 DEF DeskInv
<1> QED
  BY <1>1, DeskStep, PTL DEF Spec

(***************************************************************************)
(* An admission ends once: of all the arrivals and Sweeps that race for it *)
(* one takes it, and until then the desk holds it.                         *)
(***************************************************************************)
THEOREM GrantsEndOnce == Spec => []EndsOnce
<1>1. DeskInv => EndsOnce
  BY DEF DeskInv, GrantsAccounted, EndsOnce
<1> QED
  BY <1>1, DeskCorrect, PTL

(***************************************************************************)
(* A refused client is on no unit, unless its unit did not answer.         *)
(***************************************************************************)
THEOREM RefusalsLeaveNothing == Spec => []RefusalLeavesNothing
<1>1. DeskInv => RefusalLeavesNothing
  BY DEF DeskInv, HeldWasAdmitted, RefusalLeavesNothing
<1> QED
  BY <1>1, DeskCorrect, PTL

(***************************************************************************)
(* Whom a unit holds it was asked to hold, and a publisher's role may      *)
(* publish.                                                                *)
(***************************************************************************)
THEOREM UnitsHoldTheAllowed == Spec => []UnitsHoldWhatWasAllowed
<1>1. DeskInv => UnitsHoldWhatWasAllowed
  BY DEF DeskInv
<1> QED
  BY <1>1, DeskCorrect, PTL

(***************************************************************************)
(* Every credential issued opens its own room throughout its window, at    *)
(* every instant the clock shows, and at no other.                         *)
(***************************************************************************)
THEOREM CredentialsOpen == Spec => []CredentialsOpenTheirDoor
<1>1. TypeOK => CredentialsOpenTheirDoor
  <2> SUFFICES ASSUME TypeOK, NEW c \in Issued PROVE OpensItsDoor(OperatorKey, c, now)
    BY DEF CredentialsOpenTheirDoor
  <2>1. now \in Nat
    BY AdmissionAssumption DEF AdmissionAssumption, TypeOK
  <2>2. OperatorKey \in SigningKeys /\ c \in Claims
    BY AdmissionAssumption DEF AdmissionAssumption, HeldKeys
  <2> QED
    BY <2>1, <2>2, MintedOpensItsDoor
<1> QED
  BY <1>1, TypeCorrect, PTL

(***************************************************************************)
(* A unit is asked only on a credential minted here for this room, within  *)
(* what was asked of it give or take the second its times are kept to.     *)
(* It rests on the signature: Unforgeable.                                 *)
(***************************************************************************)
THEOREM AskedOnly == Spec => AskedOnACredential
<1> DEFINE Step == \A a \in Calls : pc[a] = "new" /\ pc'[a] = "asking" =>
                      \E c \in Issued :
                          /\ ask'[a].token = Mint(OperatorKey, c)
                          /\ c.conference = RoomId
                          /\ c.notBefore < now + TicksPerSecond /\ now <= c.expires
<1>1. TypeOK /\ [Next]_vars => [Step]_vars
  <2> SUFFICES ASSUME TypeOK, Next, NEW a \in Calls, pc[a] = "new", pc'[a] = "asking"
               PROVE  \E c \in Issued :
                          /\ ask'[a].token = Mint(OperatorKey, c)
                          /\ c.conference = RoomId
                          /\ c.notBefore < now + TicksPerSecond /\ now <= c.expires
    OBVIOUS
  <2>1. PICK request \in Requests, room \in Rooms : AdmitAsks(a, request, room)
    <3>1. ASSUME NEW b \in Calls, NEW request \in Requests, NEW room \in Rooms,
                 AdmitRefuses(b, request, room) \/ AdmitFaults(b, request, room)
          PROVE  FALSE
      BY <3>1 DEF AdmitRefuses, AdmitFaults, End, TypeOK
    <3>2. ASSUME NEW b \in Calls, CallStep(b) \/ Arrived(b) PROVE FALSE
      BY <3>2 DEF CallStep, UnitAdmits, UnitAnswerLost, UnitErrs, Stamp, Grant, Arrived,
                  Admits, End, TypeOK
    <3>3. ASSUME NEW b \in Calls, NEW request \in Requests, NEW room \in Rooms,
                 AdmitAsks(b, request, room)
          PROVE  b = a
      BY <3>3 DEF AdmitAsks, TypeOK
    <3>4. ASSUME \/ \E s \in Sweeps : SweepReads(s) \/ SweepForgets(s)
                 \/ Tick
                 \/ \E u \in Units : OpenConference(u) \/ LoseConference(u)
          PROVE  FALSE
      BY <3>4 DEF SweepReads, SweepForgets, Tick, OpenConference, LoseConference
    <3> QED
      BY <3>1, <3>2, <3>3, <3>4 DEF Next
  <2>2. /\ ask'[a].token = request.token
        /\ Verify(OperatorKey, request.token, RoomId, now) = "valid"
    BY <2>1, AskIsAllowed DEF AdmitAsks, TypeOK
  <2>3. /\ request.token \in Framed /\ request.token.key = OperatorKey
        /\ request.token.payload.version = Version /\ RoomId # NoText
    BY <2>2 DEF Verify, Framed, Tokens
  <2>4. PICK c \in Issued : request.token = Mint(OperatorKey, c)
    BY <2>3, Unforgeable
  <2>5. now \in Nat /\ OperatorKey \in SigningKeys /\ c \in Claims /\ Mintable(c)
    BY AdmissionAssumption DEF AdmissionAssumption, TypeOK, HeldKeys
  <2>6. RoomId \in Texts
    BY <2>2, <2>4, <2>5 DEF Verify, Mint, Encode, Claims
  <2> QED
    BY <2>2, <2>4, <2>5, <2>6, AcceptedWasAskedFor
<1> QED
  BY <1>1, TypeCorrect, PTL DEF Spec, AskedOnACredential
=============================================================================
