----------------------------- MODULE Conference -----------------------------
(***************************************************************************)
(* The conference aggregate of internal/domain: who was admitted, what     *)
(* they publish, and what each of them receives. It only ever grows, but   *)
(* for a subscription replaced by another to the same source.              *)
(*                                                                         *)
(* A refused call changes nothing and is not an action. A source value is  *)
(* a copy: the one a subscription is made from may differ from the one the *)
(* conference holds under that identifier.                                 *)
(***************************************************************************)
EXTENDS Naturals, FiniteSets

CONSTANTS
    ParticipantValues,  \* what a caller may offer to Admit
    SourceValues,       \* what a caller may offer to Publish
    Here                \* the identifier of this conference

ASSUME ConferenceAssumption ==
    /\ \A p \in ParticipantValues : DOMAIN p = {"id", "identity", "conference"}
    /\ SourceValues \subseteq
            [id : Nat, publisher : {p.id : p \in ParticipantValues},
             kind : {"audio", "video"}, layers : Nat \ {0}]

VARIABLES admitted, published, subscribed

conferenceVars == <<admitted, published, subscribed>>

People == {p.id : p \in ParticipantValues}

\* NewSubscription: what can be subscribed to with a copy of the source.
Subscriptions ==
    UNION {[subscriber : People \ {s.publisher}, source : {s.id},
            layer : 0..(s.layers - 1)] : s \in SourceValues}

ConferenceInit == admitted = {} /\ published = {} /\ subscribed = {}

IsAdmitted(id) == \E p \in admitted : p.id = id

Admit(p) ==
    /\ p.conference = Here
    /\ ~IsAdmitted(p.id)
    /\ admitted' = admitted \cup {p}
    /\ UNCHANGED <<published, subscribed>>

\* Mutant: a second source under one identifier is taken too.
PublishTwice(s) ==
    /\ IsAdmitted(s.publisher)
    /\ published' = published \cup {s}
    /\ UNCHANGED <<admitted, subscribed>>

Publish(s) ==
    /\ IsAdmitted(s.publisher)
    /\ \A held \in published : held.id # s.id
    /\ published' = published \cup {s}
    /\ UNCHANGED <<admitted, subscribed>>

\* Mutant: the layer is not looked at again, the copy's word is taken.
SubscribeUnchecked(x) ==
    /\ IsAdmitted(x.subscriber)
    /\ \E held \in published : held.id = x.source /\ held.publisher # x.subscriber
    /\ subscribed' = {y \in subscribed : <<y.subscriber, y.source>>
                                            # <<x.subscriber, x.source>>} \cup {x}
    /\ UNCHANGED <<admitted, published>>

Subscribe(x) ==
    /\ IsAdmitted(x.subscriber)
    /\ \E held \in published :
            /\ held.id = x.source
            /\ held.publisher # x.subscriber
            /\ x.layer < held.layers
    /\ subscribed' = {y \in subscribed : <<y.subscriber, y.source>>
                                            # <<x.subscriber, x.source>>} \cup {x}
    /\ UNCHANGED <<admitted, published>>

\* Everything one participant receives: what SetReception is handed.
Reception(id) == {x \in subscribed : x.subscriber = id}

ParticipantCount == Cardinality(admitted)
IdentityCount == Cardinality({p.identity : p \in admitted})

ConferenceNext ==
    \/ \E p \in ParticipantValues : Admit(p)
    \/ \E s \in SourceValues : Publish(s)
    \/ \E x \in Subscriptions : Subscribe(x)
=============================================================================
