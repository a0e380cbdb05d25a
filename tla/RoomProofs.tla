----------------------------- MODULE RoomProofs -----------------------------
(***************************************************************************)
(* One conference over any number of units, people, sources and streams:   *)
(* what the units hold, what the control plane believes of them and what   *)
(* the conference arranged, through every order of calls, deaths and       *)
(* restarts. RoomInv is inductive; its parts beyond the checked invariants *)
(* say what the conference's arrangement rests on, that the units hold     *)
(* only what it published, and that a unit delivers to every stream opened *)
(* on it.                                                                  *)
(***************************************************************************)
EXTENDS Room, TLAPS

\* The type invariant in three parts: the conference, the units, the streams.
HallOK ==
    /\ admitted \subseteq ParticipantValues /\ published \subseteq SourceValues
    /\ subscribed \subseteq Subscriptions
    /\ \A p, q \in admitted : p.id = q.id => p = q
    /\ \A s, t \in published : s.id = t.id => s = t

UnitsOK ==
    /\ alive \in [Units -> BOOLEAN]
    /\ lost \in [Units -> SUBSET Conferences]
    /\ profile \in [Units -> [Conferences -> Profiles \cup {NoProfile}]]
    /\ publishers \in [Units -> [Conferences -> SUBSET Participants]]
    /\ subscribers \in [Units -> [Conferences -> SUBSET Participants]]
    /\ sources \in [Units -> [Conferences -> SUBSET Sources]]
    /\ receptions \in [Units -> [Conferences -> [Participants -> SUBSET Entries]]]
    /\ links \in [Units -> [Conferences -> SUBSET Units]]
    /\ believed \in [Units -> SUBSET Conferences]

StreamsOK ==
    /\ listening \in [Units -> SUBSET Streams]
    /\ stream \in [Streams -> [is : {"unused", "open", "stopped", "broken"},
                               of : SUBSET Units]]
    /\ unread \in [Streams -> 0..StreamBuffer]
    /\ missed \subseteq Streams

\* What the conference arranged stands: a subscription is of a source it
\* holds, to a layer that source has, by somebody else than its publisher.
SubscriptionStands(x) ==
    \E held \in published :
        held.id = x.source /\ held.publisher # x.subscriber /\ x.layer < held.layers

ArrangementStands ==
    /\ \A x \in subscribed : SubscriptionStands(x)
    /\ \A x, y \in subscribed :
            x.subscriber = y.subscriber /\ x.source = y.source => x = y

\* A unit holds of the conference only what the conference published.
HeldIsPublished == \A u \in Units : sources[u][Here] \subseteq published

\* An open stream is one its unit delivers to.
OpenIsHeard ==
    \A u \in Units, s \in Streams :
        stream[s].is = "open" /\ stream[s].of = {u} => s \in listening[u]

HallInv   == HallOK /\ ArrangementStands
UnitsInv  == /\ UnitsOK /\ BeliefIsRightOrToBeTold /\ NothingOutlivesItsConference
             /\ HeldIsPublished /\ SentIsSubscribed
StreamInv == StreamsOK /\ OpenIsHeard /\ MissedMeansBroken
RoomInv   == HallInv /\ UnitsInv /\ StreamInv

\* Together the parts are the type invariant.
LEMMA PartsAreTypeOK == HallOK /\ UnitsOK /\ StreamsOK <=> TypeOK
BY DEF HallOK, UnitsOK, StreamsOK, TypeOK

-----------------------------------------------------------------------------
(* The conference. *)

\* The conference keeps its arrangement, forgets no source, and keeps every
\* subscription or replaces it (Admit, Publish, Subscribe).
LEMMA HallStep ==
    ASSUME HallInv, [ConferenceNext]_conferenceVars
    PROVE  /\ HallInv'
           /\ published \subseteq published' /\ admitted \subseteq admitted'
           /\ \A x \in subscribed : \E y \in subscribed' :
                y.subscriber = x.subscriber /\ y.source = x.source
<1> USE DEF HallInv, HallOK, ArrangementStands, SubscriptionStands
<1>1. ASSUME NEW p \in ParticipantValues, Admit(p)
      PROVE  /\ HallInv'
             /\ published \subseteq published' /\ admitted \subseteq admitted'
             /\ subscribed' = subscribed
  BY <1>1 DEF Admit, IsAdmitted
<1>2. ASSUME NEW s \in SourceValues, Publish(s)
      PROVE  /\ HallInv'
             /\ published \subseteq published' /\ admitted \subseteq admitted'
             /\ subscribed' = subscribed
  BY <1>2 DEF Publish
<1>3. ASSUME NEW x \in Subscriptions, Subscribe(x)
      PROVE  /\ HallInv'
             /\ published \subseteq published' /\ admitted \subseteq admitted'
             /\ \A z \in subscribed : \E y \in subscribed' :
                    y.subscriber = z.subscriber /\ y.source = z.source
  <2>1. /\ SubscriptionStands(x)
        /\ subscribed' = {y \in subscribed : <<y.subscriber, y.source>>
                                          # <<x.subscriber, x.source>>} \cup {x}
        /\ UNCHANGED <<admitted, published>>
    BY <1>3 DEF Subscribe
  <2>2. \A y : <<y.subscriber, y.source>> # <<x.subscriber, x.source>>
                <=> ~(y.subscriber = x.subscriber /\ y.source = x.source)
    OBVIOUS
  <2>3. HallOK'
    BY <2>1
  <2>4. ArrangementStands'
    BY <2>1, <2>2
  <2>5. \A z \in subscribed : \E y \in subscribed' :
            y.subscriber = z.subscriber /\ y.source = z.source
    BY <2>1, <2>2
  <2> QED
    BY <2>1, <2>3, <2>4, <2>5
<1>4. CASE UNCHANGED conferenceVars
  BY <1>4 DEF conferenceVars
<1> QED
  BY <1>1, <1>2, <1>3, <1>4 DEF ConferenceNext

\* What is wanted is of the kind a unit sends, and one entry to a source.
LEMMA WantedIsEntries ==
    ASSUME HallInv, NEW p
    PROVE  /\ Wanted(p) \subseteq Entries
           /\ \A e, f \in Wanted(p) : e.source = f.source => e = f
           /\ \A e \in Wanted(p) :
                /\ \E x \in subscribed : x.subscriber = p /\ x.source = e.source
                /\ \E s \in published :
                     s.id = e.source /\ e.layer < s.layers /\ s.publisher # p
<1>1. \A e \in Wanted(p) : \E x \in subscribed :
        x.subscriber = p /\ e = [source |-> x.source, layer |-> x.layer]
  BY DEF Wanted, Reception
<1>2. ASSUME NEW x \in subscribed
      PROVE  [source |-> x.source, layer |-> x.layer] \in Entries
  <2>1. PICK s \in SourceValues :
          x \in [subscriber : People \ {s.publisher}, source : {s.id},
                 layer : 0..(s.layers - 1)]
    BY DEF HallInv, HallOK, Subscriptions
  <2>2. s \in Sources /\ x.source \in {s.id} /\ x.layer \in 0..(s.layers - 1)
    BY <2>1, RoomAssumption
  <2> QED
    BY <2>2 DEF Entries
<1>3. \A e \in Wanted(p) : e \in Entries
  BY <1>1, <1>2
<1>4. ASSUME NEW e \in Wanted(p), NEW f \in Wanted(p), e.source = f.source
      PROVE  e = f
  <2>1. PICK x \in subscribed :
          x.subscriber = p /\ e = [source |-> x.source, layer |-> x.layer]
    BY <1>1
  <2>2. PICK y \in subscribed :
          y.subscriber = p /\ f = [source |-> y.source, layer |-> y.layer]
    BY <1>1
  <2>3. x = y
    BY <1>4, <2>1, <2>2 DEF HallInv, ArrangementStands
  <2> QED
    BY <2>1, <2>2, <2>3
<1>5. ASSUME NEW e \in Wanted(p)
      PROVE  /\ \E x \in subscribed : x.subscriber = p /\ x.source = e.source
             /\ \E s \in published :
                  s.id = e.source /\ e.layer < s.layers /\ s.publisher # p
  <2>1. PICK x \in subscribed :
          x.subscriber = p /\ e = [source |-> x.source, layer |-> x.layer]
    BY <1>1
  <2>2. e.source = x.source /\ e.layer = x.layer
    BY <2>1
  <2>3. SubscriptionStands(x)
    BY DEF HallInv, ArrangementStands
  <2> QED
    BY <2>1, <2>2, <2>3 DEF SubscriptionStands
<1> QED
  BY <1>3, <1>4, <1>5

-----------------------------------------------------------------------------
(* The units. *)

\* A record grown for one conference of one unit.
LEMMA RecordGrows ==
    ASSUME NEW S, NEW f \in [Units -> [Conferences -> SUBSET S]],
           NEW u \in Units, NEW c \in Conferences, NEW A \in SUBSET S
    PROVE  LET g == [f EXCEPT ![u][c] = @ \cup A] IN
           /\ g \in [Units -> [Conferences -> SUBSET S]]
           /\ \A v \in Units : \A d \in Conferences :
                g[v][d] = IF v = u /\ d = c THEN f[v][d] \cup A ELSE f[v][d]
<1>1. [f[u] EXCEPT ![c] = @ \cup A] \in [Conferences -> SUBSET S]
  OBVIOUS
<1> QED
  BY <1>1

\* NothingOutlivesItsConference of one unit and one conference.
Within(u, c) ==
    /\ Holds(u, c) \/ publishers[u][c] \cup subscribers[u][c] \cup links[u][c] = {}
    /\ \A s \in sources[u][c] :
            s.publisher \in publishers[u][c] /\ InsideProfile(profile[u][c], s)
    /\ \A p \in Participants : receptions[u][c][p] # {} => p \in subscribers[u][c]

\* It is said of each, now and after a step.
LEMMA WithinEach ==
    /\ NothingOutlivesItsConference
            <=> \A u \in Units : \A c \in Conferences : Within(u, c)
    /\ NothingOutlivesItsConference'
            <=> \A u \in Units : \A c \in Conferences : Within(u, c)'
BY DEF NothingOutlivesItsConference, Within

\* What the units hold is left alone where the unit's records are, whatever
\* the conference does meanwhile (Admit, Publish, Subscribe).
LEMMA UnitsLeft ==
    ASSUME RoomInv, [ConferenceNext]_conferenceVars, alive' \in [Units -> BOOLEAN],
           UNCHANGED conferenceState
    PROVE  UnitsInv'
<1> USE DEF conferenceState, memberVars
<1>1. UnitsOK'
  BY DEF RoomInv, UnitsInv, UnitsOK
<1>2. BeliefIsRightOrToBeTold' /\ NothingOutlivesItsConference'
  BY DEF RoomInv, UnitsInv, BeliefIsRightOrToBeTold,
         NothingOutlivesItsConference, Holds
<1>3. /\ published \subseteq published'
      /\ \A x \in subscribed : \E y \in subscribed' :
            y.subscriber = x.subscriber /\ y.source = x.source
  BY HallStep DEF RoomInv
<1>4. HeldIsPublished'
  BY <1>3 DEF RoomInv, UnitsInv, HeldIsPublished
<1>5. SentIsSubscribed'
  <2> SUFFICES ASSUME NEW u \in Units, NEW p \in People,
                      NEW e \in receptions[u][Here][p]
               PROVE  /\ \A f \in receptions[u][Here][p] : e.source = f.source => e = f
                      /\ \E x \in subscribed' : x.subscriber = p /\ x.source = e.source
                      /\ \E s \in published' :
                           s.id = e.source /\ e.layer < s.layers /\ s.publisher # p
    BY DEF SentIsSubscribed
  <2>1. /\ \A f \in receptions[u][Here][p] : e.source = f.source => e = f
        /\ \E x \in subscribed : x.subscriber = p /\ x.source = e.source
        /\ \E s \in published :
             s.id = e.source /\ e.layer < s.layers /\ s.publisher # p
    BY DEF RoomInv, UnitsInv, SentIsSubscribed
  <2>2. \E x \in subscribed' : x.subscriber = p /\ x.source = e.source
    BY <1>3, <2>1
  <2> QED
    BY <1>3, <2>1, <2>2
<1> QED
  BY <1>1, <1>2, <1>4, <1>5 DEF UnitsInv

\* The answer that a conference was lost is the end of the belief in it.
LEMMA AnswerLostStep ==
    ASSUME RoomInv, NEW u \in Units, NEW c \in Conferences, AnswerLost(u, c),
           UNCHANGED conferenceVars
    PROVE  UnitsInv'
<1> USE DEF RoomInv, UnitsInv, UnitsOK
<1>1. /\ UNCHANGED <<alive, profile, publishers, subscribers, sources,
                     receptions, links, published, subscribed>>
      /\ c \in lost[u]
      /\ \A v \in Units : \A d \in Conferences :
            /\ d \in lost'[v] <=> d \in lost[v] /\ ~(v = u /\ d = c)
            /\ d \in believed'[v] <=> d \in believed[v] /\ ~(v = u /\ d = c)
  BY DEF AnswerLost, memberVars, conferenceVars
<1>2. UnitsOK'
  BY DEF AnswerLost, memberVars
<1>3. BeliefIsRightOrToBeTold'
  BY <1>1 DEF BeliefIsRightOrToBeTold, Holds
<1>4. NothingOutlivesItsConference' /\ HeldIsPublished' /\ SentIsSubscribed'
  BY <1>1 DEF NothingOutlivesItsConference, Holds, HeldIsPublished, SentIsSubscribed
<1> QED
  BY <1>2, <1>3, <1>4

\* A conference is opened where nothing is left of it.
LEMMA OpenStep ==
    ASSUME RoomInv, NEW u \in Units, NEW c \in Conferences, NEW p \in Profiles,
           OpenConference(u, c, p), UNCHANGED conferenceVars
    PROVE  UnitsInv'
<1> USE DEF RoomInv, UnitsInv, UnitsOK
<1>1. /\ UNCHANGED <<alive, lost, publishers, subscribers, sources,
                     receptions, links, published, subscribed>>
      /\ c \notin lost[u] /\ ~Holds(u, c) /\ p # NoProfile
      /\ \A v \in Units : \A d \in Conferences :
            /\ profile'[v][d] = IF v = u /\ d = c THEN p ELSE profile[v][d]
            /\ d \in believed'[v] <=> d \in believed[v] \/ (v = u /\ d = c)
  BY FabricAssumption DEF OpenConference, memberVars, conferenceVars
<1>2. UnitsOK'
  BY DEF OpenConference, memberVars
<1>3. BeliefIsRightOrToBeTold'
  BY <1>1 DEF BeliefIsRightOrToBeTold, Holds
<1>4. ASSUME NEW v \in Units, NEW d \in Conferences PROVE Within(v, d)'
  <2>1. Within(v, d)
    BY WithinEach
  <2>2. CASE v = u /\ d = c
    <3>1. publishers[v][d] = {} /\ Holds(v, d)'
      BY <1>1, <2>1, <2>2 DEF Holds, Within
    <3> QED
      BY <1>1, <2>1, <3>1 DEF Within
  <2>3. CASE ~(v = u /\ d = c)
    <3>1. profile'[v][d] = profile[v][d]
      BY <1>1, <2>3
    <3> QED
      BY <1>1, <2>1, <3>1 DEF Within, Holds
  <2> QED
    BY <2>2, <2>3
<1>5. HeldIsPublished' /\ SentIsSubscribed'
  BY <1>1 DEF HeldIsPublished, SentIsSubscribed
<1> QED
  BY <1>2, <1>3, <1>4, <1>5, WithinEach

\* What Forget makes of a unit's records.
LEMMA Forgotten ==
    ASSUME UnitsOK, NEW u \in Units, NEW gone, Forget(u, gone)
    PROVE  /\ profile' \in [Units -> [Conferences -> Profiles \cup {NoProfile}]]
           /\ publishers' \in [Units -> [Conferences -> SUBSET Participants]]
           /\ subscribers' \in [Units -> [Conferences -> SUBSET Participants]]
           /\ sources' \in [Units -> [Conferences -> SUBSET Sources]]
           /\ receptions' \in
                [Units -> [Conferences -> [Participants -> SUBSET Entries]]]
           /\ \A v \in Units : \A d \in Conferences :
                IF v = u /\ d \in gone
                THEN /\ profile'[v][d] = NoProfile
                     /\ publishers'[v][d] = {} /\ subscribers'[v][d] = {}
                     /\ sources'[v][d] = {}
                     /\ \A q \in Participants : receptions'[v][d][q] = {}
                ELSE /\ profile'[v][d] = profile[v][d]
                     /\ publishers'[v][d] = publishers[v][d]
                     /\ subscribers'[v][d] = subscribers[v][d]
                     /\ sources'[v][d] = sources[v][d]
                     /\ receptions'[v][d] = receptions[v][d]
<1>1. /\ profile' \in [Units -> [Conferences -> Profiles \cup {NoProfile}]]
      /\ \A v \in Units : \A d \in Conferences :
            profile'[v][d] = IF v = u /\ d \in gone THEN NoProfile ELSE profile[v][d]
  BY DEF Forget, UnitsOK
<1>2. /\ publishers' \in [Units -> [Conferences -> SUBSET Participants]]
      /\ \A v \in Units : \A d \in Conferences :
            publishers'[v][d] = IF v = u /\ d \in gone THEN {} ELSE publishers[v][d]
  BY DEF Forget, UnitsOK
<1>3. /\ subscribers' \in [Units -> [Conferences -> SUBSET Participants]]
      /\ \A v \in Units : \A d \in Conferences :
            subscribers'[v][d] = IF v = u /\ d \in gone THEN {} ELSE subscribers[v][d]
  BY DEF Forget, UnitsOK
<1>4. /\ sources' \in [Units -> [Conferences -> SUBSET Sources]]
      /\ \A v \in Units : \A d \in Conferences :
            sources'[v][d] = IF v = u /\ d \in gone THEN {} ELSE sources[v][d]
  BY DEF Forget, UnitsOK
<1>5. /\ receptions' \in
            [Units -> [Conferences -> [Participants -> SUBSET Entries]]]
      /\ \A v \in Units : \A d \in Conferences :
            receptions'[v][d] = IF v = u /\ d \in gone
                                THEN [q \in Participants |-> {}] ELSE receptions[v][d]
  BY DEF Forget, UnitsOK
<1> QED
  BY <1>1, <1>2, <1>3, <1>4, <1>5

\* Closing leaves nothing of the conference on the unit, and no link to it.
LEMMA CloseStep ==
    ASSUME RoomInv, NEW u \in Units, NEW c \in Conferences,
           CloseConference(u, c), UNCHANGED conferenceVars
    PROVE  UnitsInv'
<1> USE DEF RoomInv, UnitsInv, UnitsOK
<1>1. /\ UNCHANGED <<alive, published, subscribed>> /\ Forget(u, {c})
      /\ links' \in [Units -> [Conferences -> SUBSET Units]]
      /\ \A v \in Units : \A d \in Conferences :
            /\ links'[v][d] \subseteq links[v][d]
            /\ v = u /\ d = c => links'[v][d] = {}
            /\ d \in lost'[v] <=> d \in lost[v] /\ ~(v = u /\ d = c)
            /\ d \in believed'[v] <=> d \in believed[v] /\ ~(v = u /\ d = c)
  BY DEF CloseConference, conferenceVars
<1>2. \A v \in Units : \A d \in Conferences :
        IF v = u /\ d = c
        THEN /\ profile'[v][d] = NoProfile
             /\ publishers'[v][d] = {} /\ subscribers'[v][d] = {}
             /\ sources'[v][d] = {}
             /\ \A q \in Participants : receptions'[v][d][q] = {}
        ELSE /\ profile'[v][d] = profile[v][d]
             /\ publishers'[v][d] = publishers[v][d]
             /\ subscribers'[v][d] = subscribers[v][d]
             /\ sources'[v][d] = sources[v][d]
             /\ receptions'[v][d] = receptions[v][d]
  BY <1>1, Forgotten
<1>3. UnitsOK'
  <2>1. /\ lost' \in [Units -> SUBSET Conferences]
        /\ believed' \in [Units -> SUBSET Conferences]
    BY DEF CloseConference
  <2> QED
    BY <1>1, <2>1, Forgotten
<1>4. BeliefIsRightOrToBeTold'
  BY <1>1, <1>2 DEF BeliefIsRightOrToBeTold, Holds
<1>5. ASSUME NEW v \in Units, NEW d \in Conferences PROVE Within(v, d)'
  <2>1. Within(v, d)
    BY WithinEach
  <2>2. CASE v = u /\ d = c
    BY <1>1, <1>2, <2>2 DEF Within
  <2>3. CASE ~(v = u /\ d = c)
    BY <1>1, <1>2, <2>1, <2>3 DEF Within, Holds
  <2> QED
    BY <2>2, <2>3
<1>6. HeldIsPublished' /\ SentIsSubscribed'
  <2>1. ASSUME NEW v \in Units
        PROVE  /\ sources'[v][Here] \subseteq sources[v][Here]
               /\ \A q \in Participants :
                    receptions'[v][Here][q] \subseteq receptions[v][Here][q]
    <3> HIDE DEF RoomInv, UnitsInv, UnitsOK
    <3>1. Here \in Conferences
      BY RoomAssumption
    <3> QED
      BY <1>2, <3>1
  <2> QED
    BY <1>1, <2>1, RoomAssumption DEF HeldIsPublished, SentIsSubscribed
<1> QED
  BY <1>3, <1>4, <1>5, <1>6, WithinEach

\* A restart forgets everything and owes an answer for each conference it had.
LEMMA RestartStep ==
    ASSUME RoomInv, NEW u \in Units, Restart(u), UNCHANGED conferenceVars
    PROVE  UnitsInv'
<1> USE DEF RoomInv, UnitsInv, UnitsOK
<1>1. /\ UNCHANGED <<believed, published, subscribed>> /\ Forget(u, Conferences)
      /\ links' \in [Units -> [Conferences -> SUBSET Units]]
      /\ \A v \in Units : \A d \in Conferences :
            /\ links'[v][d] = IF v = u THEN {} ELSE links[v][d]
            /\ d \in lost'[v] <=> d \in lost[v] \/ (v = u /\ Holds(v, d))
  BY DEF Restart, conferenceVars, NothingOpen
<1>2. \A v \in Units : \A d \in Conferences :
        IF v = u
        THEN /\ profile'[v][d] = NoProfile
             /\ publishers'[v][d] = {} /\ subscribers'[v][d] = {}
             /\ sources'[v][d] = {}
             /\ \A q \in Participants : receptions'[v][d][q] = {}
        ELSE /\ profile'[v][d] = profile[v][d]
             /\ publishers'[v][d] = publishers[v][d]
             /\ subscribers'[v][d] = subscribers[v][d]
             /\ sources'[v][d] = sources[v][d]
             /\ receptions'[v][d] = receptions[v][d]
  BY <1>1, Forgotten
<1>3. UnitsOK'
  <2>1. /\ lost' \in [Units -> SUBSET Conferences]
        /\ alive' \in [Units -> BOOLEAN]
    BY DEF Restart
  <2> QED
    BY <1>1, <2>1, Forgotten
<1>4. BeliefIsRightOrToBeTold'
  BY <1>1, <1>2 DEF BeliefIsRightOrToBeTold, Holds
<1>5. ASSUME NEW v \in Units, NEW d \in Conferences PROVE Within(v, d)'
  <2>1. Within(v, d)
    BY WithinEach
  <2>2. CASE v = u
    BY <1>1, <1>2, <2>2 DEF Within
  <2>3. CASE v # u
    BY <1>1, <1>2, <2>1, <2>3 DEF Within, Holds
  <2> QED
    BY <2>2, <2>3
<1>6. HeldIsPublished' /\ SentIsSubscribed'
  <2>1. ASSUME NEW v \in Units
        PROVE  /\ sources'[v][Here] \subseteq sources[v][Here]
               /\ \A q \in Participants :
                    receptions'[v][Here][q] \subseteq receptions[v][Here][q]
    <3> HIDE DEF RoomInv, UnitsInv, UnitsOK
    <3>1. Here \in Conferences
      BY RoomAssumption
    <3> QED
      BY <1>2, <3>1
  <2> QED
    BY <1>1, <2>1, RoomAssumption DEF HeldIsPublished, SentIsSubscribed
<1> QED
  BY <1>3, <1>4, <1>5, <1>6, WithinEach

\* A link is recorded of a conference the unit holds.
LEMMA LinkStep ==
    ASSUME RoomInv, NEW u \in Units, NEW c \in Conferences, NEW v \in Units,
           LinkConference(u, c, v), UNCHANGED conferenceVars
    PROVE  UnitsInv'
<1> USE DEF RoomInv, UnitsInv, UnitsOK
<1>1. /\ UNCHANGED <<alive, lost, profile, publishers, subscribers, sources,
                     receptions, believed, published, subscribed>>
      /\ Holds(u, c)
      /\ links' \in [Units -> [Conferences -> SUBSET Units]]
      /\ \A w \in Units : \A d \in Conferences :
            ~(w = u /\ d = c) => links'[w][d] = links[w][d]
  BY DEF LinkConference, memberVars, conferenceVars, Serves
<1>2. UnitsOK' /\ BeliefIsRightOrToBeTold' /\ HeldIsPublished' /\ SentIsSubscribed'
  BY <1>1 DEF BeliefIsRightOrToBeTold, Holds, HeldIsPublished, SentIsSubscribed
<1>3. ASSUME NEW w \in Units, NEW d \in Conferences PROVE Within(w, d)'
  <2>1. Within(w, d)
    BY WithinEach
  <2>2. CASE w = u /\ d = c
    BY <1>1, <2>1, <2>2 DEF Within, Holds
  <2>3. CASE ~(w = u /\ d = c)
    BY <1>1, <2>1, <2>3 DEF Within, Holds
  <2> QED
    BY <2>2, <2>3
<1> QED
  BY <1>2, <1>3, WithinEach

\* A publisher brings sources of its own, published and inside the profile.
LEMMA PublishStep ==
    ASSUME RoomInv, NEW u \in Units, NEW p \in People, PublishOnto(u, p),
           UNCHANGED conferenceVars
    PROVE  UnitsInv'
<1> USE DEF RoomInv, UnitsInv, UnitsOK
<1>1. PICK offered \in SUBSET {s \in published : s.publisher = p} :
        AdmitPublisher(u, Here, p, offered)
  BY DEF PublishOnto
<1>2. /\ UNCHANGED <<alive, lost, profile, subscribers, receptions, links,
                     believed, published, subscribed>>
      /\ Holds(u, Here)
      /\ \A s \in offered : s.publisher = p /\ InsideProfile(profile[u][Here], s)
      /\ \A v \in Units : \A d \in Conferences :
            /\ publishers'[v][d] = IF v = u /\ d = Here
                                   THEN publishers[v][d] \cup {p} ELSE publishers[v][d]
            /\ sources'[v][d] = IF v = u /\ d = Here
                                THEN sources[v][d] \cup offered ELSE sources[v][d]
  BY <1>1, RoomAssumption DEF AdmitPublisher, conferenceVars, Serves
<1>3. UnitsOK'
  <2>1. p \in Participants /\ offered \subseteq Sources
    BY RoomAssumption DEF HallInv, HallOK
  <2>2. publishers' \in [Units -> [Conferences -> SUBSET Participants]]
    BY <1>1, <2>1, RecordGrows, RoomAssumption DEF AdmitPublisher
  <2>3. sources' \in [Units -> [Conferences -> SUBSET Sources]]
    BY <1>1, <2>1, RecordGrows, RoomAssumption DEF AdmitPublisher
  <2> QED
    BY <1>2, <2>2, <2>3
<1>4. BeliefIsRightOrToBeTold' /\ SentIsSubscribed'
  BY <1>2 DEF BeliefIsRightOrToBeTold, Holds, SentIsSubscribed
<1>5. HeldIsPublished'
  BY <1>2, RoomAssumption DEF HeldIsPublished
<1>6. ASSUME NEW v \in Units, NEW d \in Conferences PROVE Within(v, d)'
  <2>1. Within(v, d)
    BY WithinEach
  <2> HIDE DEF RoomInv, UnitsInv, UnitsOK
  <2>2. CASE v = u /\ d = Here
    <3>1. /\ publishers'[v][d] = publishers[v][d] \cup {p}
          /\ sources'[v][d] = sources[v][d] \cup offered
          /\ Holds(v, d)'
          /\ \A s \in offered : s.publisher = p /\ InsideProfile(profile[v][d], s)
      BY <1>2, <2>2 DEF Holds
    <3> QED
      BY <1>2, <2>1, <3>1 DEF Within
  <2>3. CASE ~(v = u /\ d = Here)
    <3>1. /\ publishers'[v][d] = publishers[v][d]
          /\ sources'[v][d] = sources[v][d]
      BY <1>2, <2>3
    <3> QED
      BY <1>2, <2>1, <3>1 DEF Within, Holds
  <2> QED
    BY <2>2, <2>3
<1> QED
  BY <1>3, <1>4, <1>5, <1>6, WithinEach

\* A subscriber is somebody, on a unit that holds the conference.
LEMMA SubscribeStep ==
    ASSUME RoomInv, NEW u \in Units, NEW p \in People, SubscribeOnto(u, p),
           UNCHANGED conferenceVars
    PROVE  UnitsInv'
<1> USE DEF RoomInv, UnitsInv, UnitsOK
<1>1. /\ UNCHANGED <<alive, lost, profile, publishers, sources, receptions,
                     links, believed, published, subscribed>>
      /\ Holds(u, Here)
      /\ \A v \in Units : \A d \in Conferences :
            subscribers'[v][d] = IF v = u /\ d = Here
                                 THEN subscribers[v][d] \cup {p} ELSE subscribers[v][d]
  BY RoomAssumption DEF SubscribeOnto, AdmitSubscriber, conferenceVars, Serves
<1>2. UnitsOK'
  <2>1. p \in Participants
    BY RoomAssumption
  <2>2. subscribers' \in [Units -> [Conferences -> SUBSET Participants]]
    BY <2>1, RecordGrows, RoomAssumption DEF SubscribeOnto, AdmitSubscriber
  <2> QED
    BY <1>1, <2>2
<1>3. BeliefIsRightOrToBeTold' /\ SentIsSubscribed' /\ HeldIsPublished'
  BY <1>1 DEF BeliefIsRightOrToBeTold, Holds, SentIsSubscribed, HeldIsPublished
<1>4. ASSUME NEW v \in Units, NEW d \in Conferences PROVE Within(v, d)'
  <2>1. Within(v, d)
    BY WithinEach
  <2>2. CASE v = u /\ d = Here
    BY <1>1, <2>1, <2>2 DEF Within, Holds
  <2>3. CASE ~(v = u /\ d = Here)
    BY <1>1, <2>1, <2>3 DEF Within, Holds
  <2> QED
    BY <2>2, <2>3
<1> QED
  BY <1>2, <1>3, <1>4, WithinEach

\* A reception is set to some of what the conference wants for a subscriber.
LEMMA ReceiveStep ==
    ASSUME RoomInv, NEW u \in Units, NEW p \in People, ReceiveFrom(u, p),
           UNCHANGED conferenceVars
    PROVE  UnitsInv'
<1> USE DEF RoomInv, UnitsInv, UnitsOK
<1>1. PICK atMost \in 0..Cardinality(Wanted(p)) :
        SetReception(u, Here, p, Wanted(p), atMost)
  BY DEF ReceiveFrom
<1> DEFINE set == FirstOf(Wanted(p), atMost)
<1>2. set \subseteq Wanted(p)
  BY DEF FirstOf
<1> HIDE DEF set
<1>3. /\ UNCHANGED <<alive, lost, profile, publishers, subscribers, sources,
                     links, believed, published, subscribed>>
      /\ p \in subscribers[u][Here]
      /\ receptions' = [receptions EXCEPT ![u][Here][p] = set]
  BY <1>1 DEF SetReception, conferenceVars, set
<1>4. /\ Here \in Conferences /\ p \in Participants /\ set \subseteq Entries
  BY <1>2, WantedIsEntries, RoomAssumption
<1>5. /\ receptions' \in
            [Units -> [Conferences -> [Participants -> SUBSET Entries]]]
      /\ \A v \in Units : \A d \in Conferences : \A q \in Participants :
            receptions'[v][d][q] = IF v = u /\ d = Here /\ q = p
                                   THEN set ELSE receptions[v][d][q]
  BY <1>3, <1>4
<1>6. UnitsOK' /\ BeliefIsRightOrToBeTold' /\ HeldIsPublished'
  BY <1>3, <1>5 DEF BeliefIsRightOrToBeTold, Holds, HeldIsPublished
<1>7. ASSUME NEW v \in Units, NEW d \in Conferences PROVE Within(v, d)'
  <2>1. Within(v, d)
    BY WithinEach
  <2>2. \A q \in Participants : receptions'[v][d][q] # {} => q \in subscribers[v][d]
    BY <1>3, <1>5, <2>1 DEF Within
  <2> QED
    BY <1>3, <2>1, <2>2 DEF Within, Holds
<1>8. SentIsSubscribed'
  <2> SUFFICES ASSUME NEW v \in Units, NEW q \in People,
                      NEW e \in receptions'[v][Here][q]
               PROVE  /\ \A f \in receptions'[v][Here][q] : e.source = f.source => e = f
                      /\ \E x \in subscribed : x.subscriber = q /\ x.source = e.source
                      /\ \E s \in published :
                           s.id = e.source /\ e.layer < s.layers /\ s.publisher # q
    BY <1>3 DEF SentIsSubscribed
  <2>1. q \in Participants
    BY RoomAssumption
  <2>2. CASE v = u /\ q = p
    <3>1. receptions'[v][Here][q] = set
      BY <1>4, <1>5, <2>1, <2>2
    <3> QED
      BY <1>2, <2>2, <3>1, WantedIsEntries
  <2>3. CASE ~(v = u /\ q = p)
    <3>1. receptions'[v][Here][q] = receptions[v][Here][q]
      BY <1>4, <1>5, <2>1, <2>3
    <3> QED
      BY <3>1 DEF SentIsSubscribed
  <2> QED
    BY <2>2, <2>3
<1> QED
  BY <1>6, <1>7, <1>8, WithinEach

-----------------------------------------------------------------------------
(* The streams. *)

\* Breaking streams breaks the open ones of them and touches no other.
LEMMA BreakingBreaks ==
    ASSUME StreamsOK, NEW gone, Broken(gone)
    PROVE  /\ stream' \in [Streams -> [is : {"unused", "open", "stopped", "broken"},
                                       of : SUBSET Units]]
           /\ \A s \in Streams :
                /\ stream'[s].of = stream[s].of
                /\ stream'[s].is = IF s \in gone /\ stream[s].is = "open"
                                   THEN "broken" ELSE stream[s].is
<1>1. \A s \in Streams : stream[s] \in
        [is : {"unused", "open", "stopped", "broken"}, of : SUBSET Units]
  BY DEF StreamsOK
<1>2. ASSUME NEW s \in Streams
      PROVE  /\ stream'[s] = IF s \in gone /\ stream[s].is = "open"
                             THEN [stream[s] EXCEPT !.is = "broken"] ELSE stream[s]
             /\ stream'[s] \in
                    [is : {"unused", "open", "stopped", "broken"}, of : SUBSET Units]
             /\ stream'[s].of = stream[s].of
             /\ stream'[s].is = IF s \in gone /\ stream[s].is = "open"
                                THEN "broken" ELSE stream[s].is
  <2>1. stream'[s] = IF s \in gone /\ stream[s].is = "open"
                     THEN [stream[s] EXCEPT !.is = "broken"] ELSE stream[s]
    BY DEF Broken
  <2>2. stream[s] \in
            [is : {"unused", "open", "stopped", "broken"}, of : SUBSET Units]
    BY <1>1
  <2> QED
    BY <2>1, <2>2
<1>3. DOMAIN stream' = Streams /\ stream' = [s \in Streams |-> stream'[s]]
  BY DEF Broken
<1> QED
  BY <1>2, <1>3

\* A stream's unit delivers to it while it is open, and it breaks before it
\* misses a notice or with its unit (Die, Fail, ReportFaults, Stop).
LEMMA StreamsStep ==
    ASSUME StreamInv, StreamStep \/ UNCHANGED streamVars
    PROVE  StreamInv'
<1> USE DEF StreamInv, OpenIsHeard, MissedMeansBroken
<1>t. /\ listening \in [Units -> SUBSET Streams]
      /\ unread \in [Streams -> 0..StreamBuffer] /\ missed \subseteq Streams
      /\ \A s \in Streams : stream[s] \in
            [is : {"unused", "open", "stopped", "broken"}, of : SUBSET Units]
  BY DEF StreamsOK
<1>1. ASSUME NEW u \in Units, Die(u) PROVE StreamInv'
  <2>1. /\ UNCHANGED <<unread, missed>> /\ Broken(listening[u])
        /\ listening' = [listening EXCEPT ![u] = {}]
    BY <1>1 DEF Die
  <2>2. StreamsOK'
    BY <1>t, <2>1, BreakingBreaks DEF StreamsOK
  <2>3. \A s \in Streams :
            /\ stream'[s].of = stream[s].of
            /\ stream'[s].is = IF s \in listening[u] /\ stream[s].is = "open"
                               THEN "broken" ELSE stream[s].is
    BY <2>1, BreakingBreaks
  <2>4. OpenIsHeard'
    <3> SUFFICES ASSUME NEW v \in Units, NEW s \in Streams,
                        stream'[s].is = "open", stream'[s].of = {v}
                 PROVE  s \in listening'[v]
      OBVIOUS
    <3>1. stream[s].is = "open" /\ stream[s].of = {v} /\ s \notin listening[u]
      BY <2>3
    <3>2. s \in listening[v] /\ v # u
      BY <3>1
    <3> QED
      BY <1>t, <2>1, <3>2
  <2>5. MissedMeansBroken'
    BY <1>t, <2>1, <2>3
  <2> QED
    BY <2>2, <2>4, <2>5
<1>2. ASSUME NEW u \in Units, Fail(u) PROVE StreamInv'
  <2> DEFINE open == {s \in listening[u] : stream[s].is = "open"}
             full == {s \in open : unread[s] = StreamBuffer}
             told == {s \in Streams : stream[s].of = {u} /\ stream[s].is = "open"}
  <2>1. /\ unread' = [s \in Streams |->
                        IF s \in open \ full THEN unread[s] + 1 ELSE unread[s]]
        /\ Broken(full)
        /\ missed' = missed \cup (told \ (open \ full))
        /\ listening' = [listening EXCEPT ![u] = open \ full]
    BY <1>2 DEF Fail
  <2>2. told \subseteq open
    OBVIOUS
  <2>3. \A s \in open \ full : unread[s] \in 0..StreamBuffer /\ unread[s] # StreamBuffer
    BY <1>t
  <2>4. open \subseteq Streams /\ open \subseteq listening[u] /\ full \subseteq open
    BY <1>t
  <2>5. \A s \in open : stream[s].is = "open"
    OBVIOUS
  <2>6. told \subseteq Streams /\ \A s \in told : stream[s].is = "open"
    OBVIOUS
  <2>7. \A s \in Streams :
            stream[s].is = "open" /\ s \in listening[u] => s \in open
    OBVIOUS
  <2> HIDE DEF open, full, told
  <2>8. \A s \in Streams :
            /\ stream'[s].of = stream[s].of
            /\ stream'[s].is = IF s \in full /\ stream[s].is = "open"
                               THEN "broken" ELSE stream[s].is
    BY <2>1, BreakingBreaks
  <2>9. StreamsOK'
    <3>1. unread' \in [Streams -> 0..StreamBuffer]
      <4>1. StreamBuffer \in Nat
        BY FabricAssumption
      <4>2. ASSUME NEW s \in Streams
            PROVE  (IF s \in open \ full THEN unread[s] + 1 ELSE unread[s])
                        \in 0..StreamBuffer
        BY <1>t, <2>3, <4>1
      <4> QED
        BY <2>1, <4>2
    <3>2. listening' \in [Units -> SUBSET Streams]
      BY <1>t, <2>1, <2>4
    <3>3. missed' \subseteq Streams
      BY <1>t, <2>1, <2>6
    <3> QED
      BY <2>1, <3>1, <3>2, <3>3, BreakingBreaks DEF StreamsOK
  <2>10. OpenIsHeard'
    <3> SUFFICES ASSUME NEW v \in Units, NEW s \in Streams,
                        stream'[s].is = "open", stream'[s].of = {v}
                 PROVE  s \in listening'[v]
      OBVIOUS
    <3>1. stream[s].is = "open" /\ stream[s].of = {v} /\ s \notin full
      BY <2>8
    <3>2. s \in listening[v]
      BY <3>1
    <3>3. CASE v = u
      BY <1>t, <2>1, <2>7, <3>1, <3>2, <3>3
    <3>4. CASE v # u
      BY <1>t, <2>1, <3>2, <3>4
    <3> QED
      BY <3>3, <3>4
  <2>11. MissedMeansBroken'
    <3> SUFFICES ASSUME NEW s \in missed' PROVE stream'[s].is = "broken"
      OBVIOUS
    <3>1. CASE s \in missed
      BY <1>t, <2>8, <3>1
    <3>2. CASE s \in told \ (open \ full)
      BY <2>2, <2>6, <2>8, <3>2
    <3> QED
      BY <2>1, <3>1, <3>2
  <2> QED
    BY <2>9, <2>10, <2>11
<1>3. ASSUME NEW u \in Units, NEW s \in Streams, ReportFaults(u, s)
      PROVE  StreamInv'
  <2>1. /\ UNCHANGED <<unread, missed>> /\ stream[s].is = "unused"
        /\ stream' = [stream EXCEPT ![s] = [is |-> "open", of |-> {u}]]
        /\ listening' = [listening EXCEPT ![u] = @ \cup {s}]
    BY <1>3 DEF ReportFaults
  <2>2. StreamsOK'
    <3>1. [is |-> "open", of |-> {u}] \in
            [is : {"unused", "open", "stopped", "broken"}, of : SUBSET Units]
      OBVIOUS
    <3> QED
      BY <2>1, <3>1 DEF StreamsOK
  <2>3. \A q \in Streams : stream'[q] = IF q = s THEN [is |-> "open", of |-> {u}]
                                        ELSE stream[q]
    BY <2>1 DEF StreamsOK
  <2>4. \A v \in Units : listening'[v] = IF v = u THEN listening[v] \cup {s}
                                         ELSE listening[v]
    BY <1>t, <2>1
  <2>5. OpenIsHeard'
    <3> SUFFICES ASSUME NEW v \in Units, NEW q \in Streams,
                        stream'[q].is = "open", stream'[q].of = {v}
                 PROVE  q \in listening'[v]
      OBVIOUS
    <3>1. CASE q = s
      <4>1. stream'[q].of = {u}
        BY <2>3, <3>1
      <4>2. v = u
        BY <4>1
      <4> QED
        BY <2>4, <3>1, <4>2
    <3>2. CASE q # s
      BY <2>3, <2>4, <3>2
    <3> QED
      BY <3>1, <3>2
  <2>6. MissedMeansBroken'
    <3>1. s \notin missed
      BY <2>1
    <3> QED
      BY <1>t, <2>1, <2>3, <3>1
  <2> QED
    BY <2>2, <2>5, <2>6
<1>4. ASSUME NEW s \in Streams, Stop(s) PROVE StreamInv'
  <2>1. /\ UNCHANGED <<unread, missed, listening>> /\ stream[s].is = "open"
        /\ stream' = [stream EXCEPT ![s].is = "stopped"]
    BY <1>4 DEF Stop
  <2>2. \A q \in Streams :
            /\ stream'[q].of = stream[q].of
            /\ stream'[q].is = IF q = s THEN "stopped" ELSE stream[q].is
    BY <1>t, <2>1 DEF StreamsOK
  <2>3. StreamsOK'
    BY <2>1 DEF StreamsOK
  <2>4. OpenIsHeard'
    BY <2>1, <2>2
  <2>5. MissedMeansBroken'
    BY <1>t, <2>1, <2>2
  <2> QED
    BY <2>3, <2>4, <2>5
<1>5. ASSUME NEW s \in Streams, Read(s) PROVE StreamInv'
  <2>1. /\ UNCHANGED <<stream, missed, listening>> /\ unread[s] > 0
        /\ unread' = [unread EXCEPT ![s] = @ - 1]
    BY <1>5 DEF Read
  <2>2. unread' \in [Streams -> 0..StreamBuffer]
    BY <1>t, <2>1, FabricAssumption
  <2> QED
    BY <2>1, <2>2 DEF StreamsOK
<1>6. CASE UNCHANGED streamVars
  BY <1>6 DEF streamVars, StreamsOK
<1> QED
  BY <1>1, <1>2, <1>3, <1>4, <1>5, <1>6 DEF StreamStep

-----------------------------------------------------------------------------
\* Every step keeps the three parts of the invariant.
LEMMA RoomInvStep == RoomInv /\ [Next]_vars => RoomInv'
<1> SUFFICES ASSUME RoomInv, [Next]_vars PROVE RoomInv'
  OBVIOUS
<1>1. [ConferenceNext]_conferenceVars
  BY DEF Next, vars
<1>2. HallInv'
  BY <1>1, HallStep DEF RoomInv
<1>3. StreamStep \/ UNCHANGED streamVars
  <2>1. CASE UNCHANGED fabricVars
    BY <2>1 DEF fabricVars
  <2>2. CASE UnitStep
    BY <2>2 DEF UnitStep, AnswerLost, CloseConference, OpenConference,
       LinkConference, PublishOnto, AdmitPublisher, SubscribeOnto,
       AdmitSubscriber, ReceiveFrom, SetReception, Restart
  <2> QED
    BY <2>1, <2>2 DEF Next, vars
<1>4. StreamInv'
  BY <1>3, StreamsStep DEF RoomInv
<1>5. UnitsInv'
  <2>1. CASE UNCHANGED fabricVars
    <3>1. UNCHANGED conferenceState /\ alive' = alive
      BY <2>1 DEF fabricVars
    <3> QED
      BY <1>1, <3>1, UnitsLeft DEF RoomInv, UnitsInv, UnitsOK
  <2>2. CASE StreamStep /\ UNCHANGED conferenceVars
    <3>1. UNCHANGED conferenceState
      BY <2>2 DEF StreamStep, Die, Fail, ReportFaults, Stop, Read
    <3>2. alive' \in [Units -> BOOLEAN]
      BY <2>2 DEF StreamStep, Die, Fail, ReportFaults, Stop, Read, RoomInv,
                  UnitsInv, UnitsOK
    <3> QED
      BY <1>1, <3>1, <3>2, UnitsLeft
  <2>3. ASSUME NEW u \in Units, NEW c \in Conferences, UNCHANGED conferenceVars,
               \/ AnswerLost(u, c) \/ CloseConference(u, c)
               \/ \E p \in Profiles : OpenConference(u, c, p)
               \/ \E v \in Units : LinkConference(u, c, v)
        PROVE  UnitsInv'
    BY <2>3, AnswerLostStep, CloseStep, OpenStep, LinkStep
  <2>4. ASSUME NEW u \in Units, NEW p \in People, UNCHANGED conferenceVars,
               PublishOnto(u, p) \/ SubscribeOnto(u, p) \/ ReceiveFrom(u, p)
        PROVE  UnitsInv'
    BY <2>4, PublishStep, SubscribeStep, ReceiveStep
  <2>5. ASSUME NEW u \in Units, UNCHANGED conferenceVars, Restart(u)
        PROVE  UnitsInv'
    BY <2>5, RestartStep
  <2> QED
    BY <2>1, <2>2, <2>3, <2>4, <2>5 DEF Next, vars, UnitStep
<1> QED
  BY <1>2, <1>4, <1>5 DEF RoomInv

\* It holds from the start: nobody is anywhere.
LEMMA RoomBegins == Init => RoomInv
<1> SUFFICES ASSUME Init PROVE RoomInv
  OBVIOUS
<1> USE DEF Init, ConferenceInit, FabricInit
<1>1. HallInv
  BY DEF HallInv, HallOK, ArrangementStands
<1>2. UnitsInv
  <2>1. UnitsOK
    BY DEF UnitsOK, NothingOpen, NoReceptions
  <2>2. BeliefIsRightOrToBeTold
    BY DEF BeliefIsRightOrToBeTold, Holds
  <2>3. NothingOutlivesItsConference
    BY DEF NothingOutlivesItsConference, NothingOpen, NoReceptions
  <2>4. HeldIsPublished /\ SentIsSubscribed
    BY RoomAssumption
    DEF HeldIsPublished, SentIsSubscribed, NothingOpen, NoReceptions
  <2> QED
    BY <2>1, <2>2, <2>3, <2>4 DEF UnitsInv
<1>3. StreamInv
  BY FabricAssumption DEF StreamInv, StreamsOK, OpenIsHeard, MissedMeansBroken
<1> QED
  BY <1>1, <1>2, <1>3 DEF RoomInv

\* The invariant holds throughout, whatever is called, dies and restarts.
THEOREM RoomInvariant == Spec => []RoomInv
BY RoomBegins, RoomInvStep, PTL DEF Spec

\* The values are right, and identifiers stay one participant's or source's
\* (Admit, Publish).
THEOREM TypeCorrect == Spec => []TypeOK
<1>1. RoomInv => TypeOK
  BY PartsAreTypeOK DEF RoomInv, HallInv, UnitsInv, StreamInv
<1> QED
  BY <1>1, RoomInvariant, PTL

\* What the control plane believes of a unit is right or it is about to be
\* told, through every death and restart (reachableState, Restart).
THEOREM LossesAreToldOnce == Spec => []BeliefIsRightOrToBeTold
BY RoomInvariant, PTL DEF RoomInv, UnitsInv

\* Closing and restarting leave nothing of a conference behind
\* (CloseConference, Restart).
THEOREM ClosedIsEmpty == Spec => []NothingOutlivesItsConference
BY RoomInvariant, PTL DEF RoomInv, UnitsInv

\* A unit sends somebody what they subscribed to and nothing of their own,
\* whichever order the two were told in (SetReception, Subscribe).
THEOREM SendsWhatWasAskedFor == Spec => []SentIsSubscribed
BY RoomInvariant, PTL DEF RoomInv, UnitsInv

\* A unit that reaches the sources the conference answers with never calls
\* the answer invalid (Reception, checkReception).
THEOREM ReceptionsAreServable == Spec => []SubscribedIsServable
<1>1. RoomInv => SubscribedIsServable
  <2> SUFFICES ASSUME RoomInv, NEW u \in Units, NEW p \in People,
                      {e.source : e \in Wanted(p)}
                            \subseteq {s.id : s \in Reachable(u, Here)}
               PROVE  Servable(u, Here, Wanted(p))
    BY DEF SubscribedIsServable
  <2>1. Reachable(u, Here) \subseteq published
    BY DEF Reachable, RoomInv, UnitsInv, HeldIsPublished
  <2>2. ASSUME NEW e \in Wanted(p)
        PROVE  \E s \in Reachable(u, Here) : s.id = e.source /\ e.layer < s.layers
    <3>1. PICK s \in published : s.id = e.source /\ e.layer < s.layers
      BY WantedIsEntries DEF RoomInv
    <3>2. PICK t \in Reachable(u, Here) : t.id = e.source
      OBVIOUS
    <3>3. s = t
      BY <2>1, <3>1, <3>2 DEF RoomInv, HallInv, HallOK
    <3> QED
      BY <3>1, <3>2, <3>3
  <2>3. \A e, f \in Wanted(p) : e.source = f.source => e = f
    BY WantedIsEntries DEF RoomInv
  <2> QED
    BY <2>2, <2>3 DEF Servable
<1> QED
  BY <1>1, RoomInvariant, PTL

\* A stream that missed a notice says it broke (breakStream, Fail).
THEOREM NoSilentGap == Spec => []MissedMeansBroken
BY RoomInvariant, PTL DEF RoomInv, StreamInv
=============================================================================
