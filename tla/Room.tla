-------------------------------- MODULE Room --------------------------------
(***************************************************************************)
(* One conference of internal/domain carried by the units of a fabric. The *)
(* control plane tells the units about the people, the sources and the     *)
(* receptions the conference holds, as the comments on Conference.Reception *)
(* and mediaport.Unit describe, in any order and onto any unit; it need    *)
(* not tell a unit anything, and units die and restart underneath it.      *)
(***************************************************************************)
EXTENDS Conference, Fabric

ASSUME RoomAssumption ==
    Here \in Conferences /\ People \subseteq Participants /\ SourceValues \subseteq Sources

vars == <<conferenceVars, fabricVars>>

Init == ConferenceInit /\ FabricInit

\* What SetReception is handed for this participant.
Wanted(p) == {[source |-> x.source, layer |-> x.layer] : x \in Reception(p)}

PublishOnto(u, p) ==
    /\ IsAdmitted(p)
    /\ \E offered \in SUBSET {s \in published : s.publisher = p} :
            AdmitPublisher(u, Here, p, offered)

SubscribeOnto(u, p) == IsAdmitted(p) /\ AdmitSubscriber(u, Here, p)

ReceiveFrom(u, p) ==
    \E atMost \in 0..Cardinality(Wanted(p)) :
        SetReception(u, Here, p, Wanted(p), atMost)

UnitStep ==
    \/ \E u \in Units, c \in Conferences :
        \/ AnswerLost(u, c) \/ CloseConference(u, c)
        \/ \E p \in Profiles : OpenConference(u, c, p)
        \/ \E v \in Units : LinkConference(u, c, v)
    \/ \E u \in Units, p \in People :
        PublishOnto(u, p) \/ SubscribeOnto(u, p) \/ ReceiveFrom(u, p)
    \/ \E u \in Units : Restart(u)
    \/ StreamStep

Next ==
    \/ ConferenceNext /\ UNCHANGED fabricVars
    \/ UnitStep /\ UNCHANGED conferenceVars

Spec == Init /\ [][Next]_vars

-----------------------------------------------------------------------------
\* The values the variables range over; a conference holds one participant
\* and one source under an identifier.
TypeOK ==
    /\ admitted \subseteq ParticipantValues /\ published \subseteq SourceValues
    /\ subscribed \subseteq Subscriptions
    /\ \A p, q \in admitted : p.id = q.id => p = q
    /\ \A s, t \in published : s.id = t.id => s = t
    /\ alive \in [Units -> BOOLEAN]
    /\ lost \in [Units -> SUBSET Conferences]
    /\ profile \in [Units -> [Conferences -> Profiles \cup {NoProfile}]]
    /\ publishers \in [Units -> [Conferences -> SUBSET Participants]]
    /\ subscribers \in [Units -> [Conferences -> SUBSET Participants]]
    /\ sources \in [Units -> [Conferences -> SUBSET Sources]]
    /\ receptions \in [Units -> [Conferences -> [Participants -> SUBSET Entries]]]
    /\ links \in [Units -> [Conferences -> SUBSET Units]]
    /\ believed \in [Units -> SUBSET Conferences]
    /\ listening \in [Units -> SUBSET Streams]
    /\ stream \in [Streams -> [is : {"unused", "open", "stopped", "broken"},
                               of : SUBSET Units]]
    /\ unread \in [Streams -> 0..StreamBuffer]
    /\ missed \subseteq Streams

\* A control plane that believes a unit carries a conference is right, or its
\* next word about it is answered ErrLost: never both, and it is told of no
\* loss it did not believe in. However often units die and restart between.
BeliefIsRightOrToBeTold ==
    \A u \in Units : \A c \in Conferences :
        /\ c \in believed[u] <=> Holds(u, c) \/ c \in lost[u]
        /\ ~(Holds(u, c) /\ c \in lost[u])

\* Nobody and nothing is left on a unit of a conference that was closed or
\* lost there, and nothing is on it that was not admitted into it.
NothingOutlivesItsConference ==
    \A u \in Units : \A c \in Conferences :
        /\ Holds(u, c) \/ publishers[u][c] \cup subscribers[u][c] \cup links[u][c] = {}
        /\ \A s \in sources[u][c] :
                s.publisher \in publishers[u][c] /\ InsideProfile(profile[u][c], s)
        /\ \A p \in Participants : receptions[u][c][p] # {} => p \in subscribers[u][c]

\* What a unit sends somebody, they subscribed to: one layer of each source,
\* a layer the source has, and never what they publish themselves. The unit
\* does not ask whose source it is; the conference does.
SentIsSubscribed ==
    \A u \in Units, p \in People : \A e \in receptions[u][Here][p] :
        /\ \A f \in receptions[u][Here][p] : e.source = f.source => e = f
        /\ \E x \in subscribed : x.subscriber = p /\ x.source = e.source
        /\ \E s \in published :
                s.id = e.source /\ e.layer < s.layers /\ s.publisher # p

\* A reception the conference answers with is never ErrInvalid on a unit that
\* reaches the sources in it: the two check the same arrangement.
SubscribedIsServable ==
    \A u \in Units, p \in People :
        /\ Serves(u, Here)
        /\ {e.source : e \in Wanted(p)} \subseteq {s.id : s \in Reachable(u, Here)}
        => Servable(u, Here, Wanted(p))

\* A stream that missed a notice says it broke: a reader that sees it open,
\* or stopped it, has every notice up to then.
MissedMeansBroken == \A s \in missed : stream[s].is = "broken"
=============================================================================
