------------------------------- MODULE Fabric -------------------------------
(***************************************************************************)
(* The forwarding units of internal/mediafake, which enforce the rules of  *)
(* the port against their own records. One lock covers every unit of a     *)
(* fabric, so each operation is one step; what pause waits for happens     *)
(* before the operation looks at anything. A call that is answered with an *)
(* error and changes nothing is not an action.                             *)
(*                                                                         *)
(* The knobs of a unit (what it refuses, which profiles it serves, how     *)
(* many entries it accepts) can be turned between any two calls: an        *)
(* operation that may be refused simply need not happen.                   *)
(*                                                                         *)
(* believed is what the one control plane was last told each unit holds.   *)
(***************************************************************************)
EXTENDS Naturals, FiniteSets, Sequences

CONSTANTS
    Units, Conferences, Participants,
    Profiles,       \* records with the layers a profile carries
    NoProfile,      \* a conference that is not on the unit
    Sources,        \* records: id, publisher, kind, layers
    Streams,        \* the fault streams that are ever opened
    StreamBuffer

ASSUME FabricAssumption ==
    /\ NoProfile \notin Profiles
    /\ \A profile \in Profiles : profile.layers \in Nat \ {0}
    /\ Sources \subseteq [id : Nat, publisher : Participants,
                          kind : {"audio", "video"}, layers : Nat \ {0}]
    /\ StreamBuffer \in Nat \ {0}

VARIABLES
    alive, lost, profile, publishers, subscribers, sources, receptions,
    links,      \* per unit and conference, the units it was linked to
    believed,
    listening,  \* per unit, the streams it delivers to
    stream,     \* per stream: where it stands and whose it is
    unread,     \* per stream, the notices in the channel
    missed      \* the streams open at a notice that did not get into them

memberVars == <<publishers, subscribers, sources, receptions>>
conferenceState == <<lost, profile, memberVars, links, believed>>
streamVars == <<listening, stream, unread, missed>>
fabricVars == <<alive, conferenceState, streamVars>>

Holds(u, c) == profile[u][c] # NoProfile

Entries ==
    UNION {[source : {s.id}, layer : 0..(s.layers - 1)] : s \in Sources}

NothingOpen == [c \in Conferences |-> {}]
NoReceptions == [c \in Conferences |-> [p \in Participants |-> {}]]

FabricInit ==
    /\ alive = [u \in Units |-> TRUE]
    /\ lost = [u \in Units |-> {}]
    /\ profile = [u \in Units |-> [c \in Conferences |-> NoProfile]]
    /\ publishers = [u \in Units |-> NothingOpen]
    /\ subscribers = [u \in Units |-> NothingOpen]
    /\ sources = [u \in Units |-> NothingOpen]
    /\ receptions = [u \in Units |-> NoReceptions]
    /\ links = [u \in Units |-> NothingOpen]
    /\ believed = [u \in Units |-> {}]
    /\ listening = [u \in Units |-> {}]
    /\ stream = [s \in Streams |-> [is |-> "unused", of |-> {}]]
    /\ unread = [s \in Streams |-> 0]
    /\ missed = {}

-----------------------------------------------------------------------------
\* reachableState: the answer ErrLost, given once. Every operation that names
\* the conference gives it, but for CloseConference.
AnswerLost(u, c) ==
    /\ alive[u] /\ c \in lost[u]
    /\ lost' = [lost EXCEPT ![u] = @ \ {c}]
    /\ believed' = [believed EXCEPT ![u] = @ \ {c}]
    /\ UNCHANGED <<alive, profile, memberVars, links, streamVars>>

\* Opening what is open changes nothing and is answered the same.
OpenConference(u, c, p) ==
    /\ alive[u] /\ c \notin lost[u] /\ ~Holds(u, c)
    /\ profile' = [profile EXCEPT ![u][c] = p]
    /\ believed' = [believed EXCEPT ![u] = @ \cup {c}]
    /\ UNCHANGED <<alive, lost, memberVars, links, streamVars>>

\* Mutant: the sources stay.
ForgetTheRest(u, gone) ==
    /\ profile' = [profile EXCEPT ![u] =
            [c \in Conferences |-> IF c \in gone THEN NoProfile ELSE @[c]]]
    /\ publishers' = [publishers EXCEPT ![u] =
            [c \in Conferences |-> IF c \in gone THEN {} ELSE @[c]]]
    /\ subscribers' = [subscribers EXCEPT ![u] =
            [c \in Conferences |-> IF c \in gone THEN {} ELSE @[c]]]
    /\ receptions' = [receptions EXCEPT ![u] =
            [c \in Conferences |->
                IF c \in gone THEN [p \in Participants |-> {}] ELSE @[c]]]
    /\ UNCHANGED sources

\* The records of a unit without these conferences.
Forget(u, gone) ==
    /\ profile' = [profile EXCEPT ![u] =
            [c \in Conferences |-> IF c \in gone THEN NoProfile ELSE @[c]]]
    /\ publishers' = [publishers EXCEPT ![u] =
            [c \in Conferences |-> IF c \in gone THEN {} ELSE @[c]]]
    /\ subscribers' = [subscribers EXCEPT ![u] =
            [c \in Conferences |-> IF c \in gone THEN {} ELSE @[c]]]
    /\ sources' = [sources EXCEPT ![u] =
            [c \in Conferences |-> IF c \in gone THEN {} ELSE @[c]]]
    /\ receptions' = [receptions EXCEPT ![u] =
            [c \in Conferences |->
                IF c \in gone THEN [p \in Participants |-> {}] ELSE @[c]]]

\* Closing takes the conference's links down on both sides.
CloseConference(u, c) ==
    /\ alive[u]
    /\ Forget(u, {c})
    /\ links' = [v \in Units |-> [links[v] EXCEPT ![c] =
                    IF v = u THEN {} ELSE @ \ {u}]]
    /\ lost' = [lost EXCEPT ![u] = @ \ {c}]
    /\ believed' = [believed EXCEPT ![u] = @ \ {c}]
    /\ UNCHANGED <<alive, streamVars>>

\* conferenceFor, once the unit is not to answer ErrLost.
Serves(u, c) == alive[u] /\ c \notin lost[u] /\ Holds(u, c)

InsideProfile(p, s) ==
    s.layers <= (IF s.kind = "audio" THEN 1 ELSE p.layers)

AdmitPublisher(u, c, p, offered) ==
    /\ Serves(u, c)
    /\ p \notin publishers[u][c]
    /\ \A s \in offered :
            /\ s.publisher = p
            /\ InsideProfile(profile[u][c], s)
            /\ \A held \in sources[u][c] : held.id # s.id
    /\ publishers' = [publishers EXCEPT ![u][c] = @ \cup {p}]
    /\ sources' = [sources EXCEPT ![u][c] = @ \cup offered]
    /\ UNCHANGED <<alive, lost, profile, subscribers, receptions, links,
                   believed, streamVars>>

AdmitSubscriber(u, c, p) ==
    /\ Serves(u, c)
    /\ p \notin subscribers[u][c]
    /\ subscribers' = [subscribers EXCEPT ![u][c] = @ \cup {p}]
    /\ UNCHANGED <<alive, lost, profile, publishers, sources, receptions,
                   links, believed, streamVars>>

\* Two units carry one conference between them once both have linked it.
Spans(u, v, c) ==
    Holds(u, c) /\ Holds(v, c) /\ v \in links[u][c] /\ u \in links[v][c]

\* Every source a subscriber on this unit may be given.
Reachable(u, c) ==
    sources[u][c] \cup UNION {sources[v][c] : v \in {w \in Units : Spans(u, w, c)}}

\* The set names no source twice, and each of them at a layer it has.
Servable(u, c, entries) ==
    /\ \A e, f \in entries : e.source = f.source => e = f
    /\ \A e \in entries : \E s \in Reachable(u, c) :
            s.id = e.source /\ e.layer < s.layers

\* The first so many entries in the order of their sources.
FirstOf(entries, atMost) ==
    {e \in entries : Cardinality({f \in entries : f.source < e.source}) < atMost}

\* Mutant: the new set is added to the one before.
SetReceptionAdding(u, c, p, entries, atMost) ==
    /\ Serves(u, c) /\ p \in subscribers[u][c]
    /\ Servable(u, c, entries)
    /\ receptions' = [receptions EXCEPT ![u][c][p] = @ \cup FirstOf(entries, atMost)]
    /\ UNCHANGED <<alive, lost, profile, publishers, subscribers, sources,
                   links, believed, streamVars>>

SetReception(u, c, p, entries, atMost) ==
    /\ Serves(u, c) /\ p \in subscribers[u][c]
    /\ Servable(u, c, entries)
    /\ receptions' = [receptions EXCEPT ![u][c][p] = FirstOf(entries, atMost)]
    /\ UNCHANGED <<alive, lost, profile, publishers, subscribers, sources,
                   links, believed, streamVars>>

\* The other unit need not hold the conference. Linking what is linked
\* changes nothing and is answered the same.
LinkConference(u, c, v) ==
    /\ Serves(u, c)
    /\ v # u /\ v \notin links[u][c]
    /\ links' = [links EXCEPT ![u][c] = @ \cup {v}]
    /\ UNCHANGED <<alive, lost, profile, memberVars, believed, streamVars>>

-----------------------------------------------------------------------------
\* The streams a unit delivers to are broken and let go: breakStream.
Broken(gone) ==
    stream' = [s \in Streams |->
        IF s \in gone /\ stream[s].is = "open"
        THEN [stream[s] EXCEPT !.is = "broken"] ELSE stream[s]]

Die(u) ==
    /\ alive' = [alive EXCEPT ![u] = FALSE]
    /\ Broken(listening[u])
    /\ listening' = [listening EXCEPT ![u] = {}]
    /\ UNCHANGED <<conferenceState, unread, missed>>

\* Mutant: what was lost before and not told of is forgotten.
RestartForgetting(u) ==
    /\ alive' = [alive EXCEPT ![u] = TRUE]
    /\ lost' = [lost EXCEPT ![u] = {c \in Conferences : Holds(u, c)}]
    /\ Forget(u, Conferences)
    /\ links' = [links EXCEPT ![u] = NothingOpen]
    /\ UNCHANGED <<believed, streamVars>>

\* The links of the other units are left, and so are this unit's streams if
\* it did not die first.
Restart(u) ==
    /\ alive' = [alive EXCEPT ![u] = TRUE]
    /\ lost' = [lost EXCEPT ![u] = @ \cup {c \in Conferences : Holds(u, c)}]
    /\ Forget(u, Conferences)
    /\ links' = [links EXCEPT ![u] = NothingOpen]
    /\ UNCHANGED <<believed, streamVars>>

ReportFaults(u, s) ==
    /\ alive[u]
    /\ stream[s].is = "unused"
    /\ stream' = [stream EXCEPT ![s] = [is |-> "open", of |-> {u}]]
    /\ listening' = [listening EXCEPT ![u] = @ \cup {s}]
    /\ UNCHANGED <<alive, conferenceState, unread, missed>>

\* Mutant: a notice a full stream has no room for is dropped.
FailDropping(u) ==
    LET open == {s \in listening[u] : stream[s].is = "open"}
        full == {s \in open : unread[s] = StreamBuffer} IN
    /\ unread' = [s \in Streams |->
                    IF s \in open \ full THEN unread[s] + 1 ELSE unread[s]]
    /\ missed' = missed \cup full
    /\ listening' = [listening EXCEPT ![u] = open]
    /\ UNCHANGED <<alive, conferenceState, stream>>

\* One notice to every open stream: one that is full breaks, and one that is
\* not open any more is let go.
Fail(u) ==
    LET open == {s \in listening[u] : stream[s].is = "open"}
        full == {s \in open : unread[s] = StreamBuffer}
        told == {s \in Streams : stream[s].of = {u} /\ stream[s].is = "open"} IN
    /\ unread' = [s \in Streams |->
                    IF s \in open \ full THEN unread[s] + 1 ELSE unread[s]]
    /\ Broken(full)
    /\ missed' = missed \cup (told \ (open \ full))
    /\ listening' = [listening EXCEPT ![u] = open \ full]
    /\ UNCHANGED <<alive, conferenceState>>

Stop(s) ==
    /\ stream[s].is = "open"
    /\ stream' = [stream EXCEPT ![s].is = "stopped"]
    /\ UNCHANGED <<alive, conferenceState, listening, unread, missed>>

\* The reader takes a notice from the channel, without the lock.
Read(s) ==
    /\ unread[s] > 0
    /\ unread' = [unread EXCEPT ![s] = @ - 1]
    /\ UNCHANGED <<alive, conferenceState, listening, stream, missed>>

\* The steps of the streams, and of the units that end them.
StreamStep ==
    \/ \E u \in Units : Die(u) \/ Fail(u)
    \/ \E u \in Units, s \in Streams : ReportFaults(u, s)
    \/ \E s \in Streams : Stop(s) \/ Read(s)
=============================================================================
