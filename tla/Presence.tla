------------------------------ MODULE Presence ------------------------------
(***************************************************************************)
(* A room that changes, the emitter that says when its summary is sent,    *)
(* and a client that walks the pages of the full list meanwhile.           *)
(*                                                                         *)
(* The caller in between is the one the package asks for: it notes every   *)
(* change after making it, schedules against Wait, and when a summary is   *)
(* due builds it from the roll of that moment. It may do nothing for any   *)
(* number of steps between a change and its note. Whom the room attends to *)
(* is kept apart from who is in it, so that it may name somebody who left, *)
(* and then there is no roll to make a summary or a page of.               *)
(***************************************************************************)
EXTENDS Roll, Emitter

CONSTANTS
    Speakers,     \* whom the room may attend to
    MaxAttending, \* how many of them a summary names
    SummaryFrame, \* what a summary that names nobody encodes to
    PageSizes,    \* what a client asks for
    Stretch       \* bound: the stretch of time summaries are counted over

ASSUME PresenceAssumption ==
    /\ Speakers \subseteq People /\ MaxAttending \in Nat /\ SummaryFrame \in Nat
    /\ PageSizes \subseteq 1..MaxPage /\ Stretch \in Nat

VARIABLES
    present,    \* who is in the room
    attending,  \* whom it attends to, the first in order before the others
    unnoted,    \* the room changed and Note was not called yet
    untold,     \* the room changed after the last summary the client received
    lag,        \* how long the oldest noted change was not in a summary
    walk,       \* where the client stands in its walk
    cursor,
    listed,     \* what the client was given in this walk
    again,      \* whether it was given somebody twice
    stayed,     \* who was present all through the walk
    counting,   \* how far along the stretch is, and the summaries in it
    taken

roomVars == <<present, attending, unnoted, untold>>
walkVars == <<walk, cursor, listed, again, stayed>>
stretchVars == <<counting, taken>>
vars == <<emitterVars, roomVars, lag, walkVars, stretchVars>>

Init ==
    /\ EmitterInit
    /\ present = {} /\ attending = {} /\ unnoted = FALSE /\ untold = FALSE
    /\ lag = 0
    /\ walk = "idle" /\ cursor = 0 /\ listed = {} /\ again = FALSE /\ stayed = {}
    /\ counting = 0 /\ taken = 0

Join(p) ==
    /\ p \notin present
    /\ present' = present \cup {p}
    /\ unnoted' = TRUE /\ untold' = TRUE
    /\ UNCHANGED <<attending, emitterVars, lag, walkVars, stretchVars>>

Leave(p) ==
    /\ p \in present
    /\ present' = present \ {p}
    /\ stayed' = stayed \ {p}
    /\ unnoted' = TRUE /\ untold' = TRUE
    /\ UNCHANGED <<attending, emitterVars, lag, walk, cursor, listed, again,
                   stretchVars>>

\* The room begins to attend to somebody in it, or leaves off.
Attend(p) ==
    /\ p \in Speakers \cap present
    /\ p \notin attending
    /\ attending' = attending \cup {p}
    /\ unnoted' = TRUE /\ untold' = TRUE
    /\ UNCHANGED <<present, emitterVars, lag, walkVars, stretchVars>>

Unattend(p) ==
    /\ p \in attending
    /\ attending' = attending \ {p}
    /\ unnoted' = TRUE /\ untold' = TRUE
    /\ UNCHANGED <<present, emitterVars, lag, walkVars, stretchVars>>

NoteChange ==
    /\ unnoted /\ unnoted' = FALSE
    /\ Note
    /\ UNCHANGED <<present, attending, untold, lag, walkVars, stretchVars>>

\* NewRoll refuses one that attends to somebody who is not in it.
HasRoll == attending \subseteq present

TypeSummary == [copied |-> 16, separators |-> 0, invalid |-> 0]

\* The counts, and the entries of the first MaxAttending.
SummaryMessage ==
    [type |-> TypeSummary,
     data |-> [tight |-> SummaryFrame + EntriesBytes(Front(attending, MaxAttending)),
               spaces |-> 0]]

\* Take, then the summary: from then on the change is not pending any more,
\* whether or not there was a roll and the message could be encoded. Where it
\* could not, the change goes on waiting, with nothing that says so but the
\* revision.
TakeSummary ==
    /\ Take
    /\ IF HasRoll /\ Fitting(SummaryMessage)
       THEN untold' = FALSE /\ revision' = 0 /\ lag' = 0
       ELSE untold' = untold /\ revision' = NextRevision /\ lag' = lag
    /\ taken' = IF counting < Stretch THEN taken + 1 ELSE taken
    /\ UNCHANGED <<present, attending, unnoted, walkVars, counting>>

\* Time does not pass a moment at which the caller is to take a summary.
Tick ==
    /\ ~(pending /\ Wait = 0)
    /\ TimePasses
    /\ lag' = IF (pending \/ revision > 0) /\ lag <= Window THEN lag + 1 ELSE lag
    /\ counting' = IF counting < Stretch THEN counting + 1 ELSE counting
    /\ UNCHANGED <<roomVars, walkVars, taken>>

\* Counting the summaries of a stretch begins at any moment.
Count ==
    /\ counting = Stretch
    /\ counting' = 0 /\ taken' = 0
    /\ UNCHANGED <<emitterVars, roomVars, lag, walkVars>>

-----------------------------------------------------------------------------
StartWalk ==
    /\ walk # "walking"
    /\ walk' = "walking"
    /\ cursor' = 0 /\ listed' = {} /\ again' = FALSE
    /\ stayed' = present
    /\ UNCHANGED <<emitterVars, roomVars, lag, stretchVars>>

\* The caller has nothing to answer a page from, and the client gives up.
NoPage ==
    /\ walk = "walking"
    /\ ~HasRoll
    /\ walk' = "failed"
    /\ UNCHANGED <<emitterVars, roomVars, lag, cursor, listed, again, stayed, stretchVars>>

NextPage(size) ==
    /\ walk = "walking"
    /\ HasRoll
    /\ \E page \in {Page[<<present, cursor, size>>]} :
       IF page.refused
       THEN /\ walk' = "refused"
            /\ UNCHANGED <<cursor, listed, again>>
       ELSE /\ walk' = IF page.next = 0 THEN "ended" ELSE "walking"
            /\ cursor' = page.next
            /\ listed' = listed \cup page.entries
            /\ again' = (again \/ page.entries \cap listed # {})
    /\ UNCHANGED <<emitterVars, roomVars, lag, stayed, stretchVars>>

Next ==
    \/ \E p \in People : Join(p) \/ Leave(p) \/ Attend(p) \/ Unattend(p)
    \/ NoteChange \/ TakeSummary \/ Tick \/ Count
    \/ StartWalk \/ NoPage
    \/ \E size \in PageSizes : NextPage(size)

Spec == Init /\ [][Next]_vars

(***************************************************************************)
(* A client that is walking asks for the next page, of some size, and is   *)
(* answered. Nobody has to join or leave, and the room may change as often *)
(* as it likes.                                                            *)
(***************************************************************************)
FairSpec == Spec /\ WF_vars(NoPage \/ \E size \in PageSizes : NextPage(size))

-----------------------------------------------------------------------------
\* No change is lost without a trace: what the client was not told is about
\* to be noted or pending, or shows in the revision of the next summary it
\* receives, because a summary was taken and could not be built.
NothingIsDropped == untold => unnoted \/ pending \/ revision > 0

(***************************************************************************)
(* With a caller that takes when Wait says that there is nothing to wait   *)
(* for any more, a change that was noted is in a summary the client        *)
(* received within the window. The exception is a summary that was taken   *)
(* and could not be built: what it was to say may wait for ever, and until *)
(* the client receives another the revision is past the one it has. And    *)
(* Wait and Take, which work out the moment separately, agree on it: a     *)
(* caller is told no neither at that moment nor after it.                  *)
(***************************************************************************)
LagIsBounded ==
    /\ revision = 0 => lag <= Window
    /\ pending => (Wait = 0 <=> Due)

\* What bounds the summaries is elapsed time, over any stretch of it: one per
\* window that was gone through, and one more.
SummariesAreBoundedByTime == taken <= 1 + (counting \div Window)

\* A client that was given every page was given everybody who was there all
\* along, whoever came and went between its requests, and nobody twice.
WalkMissesNobody ==
    /\ walk = "ended" => stayed \subseteq listed
    /\ ~again

\* The walk comes to an end although people go on joining and leaving.
WalkEnds == walk = "walking" ~> walk # "walking"

(***************************************************************************)
(* The walk stops short only at the entry the client asks for next, every  *)
(* entry before which it was given. Either no page could carry that entry, *)
(* or others follow it and the cursor does not fit beside it. The second   *)
(* is not what Page and the decision on presence say, which is that only   *)
(* an entry no paging could carry is refused: it would have fitted as the  *)
(* last entry there is, or before others on a longer page.                 *)
(***************************************************************************)
StopsOnlyAtWhatDoesNotFit ==
    [][walk = "walking" /\ walk' = "refused" =>
        \E p \in Behind(present, cursor) :
            /\ \A q \in Behind(present, cursor) : p <= q
            /\ \/ ~Sendable({p}, 0)
               \/ ~Sendable({p}, p) /\ Behind(present, cursor) # {p}
            /\ {q \in stayed : q < p} \subseteq listed]_vars
=============================================================================
