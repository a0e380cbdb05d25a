------------------------------ MODULE Emitter ------------------------------
(***************************************************************************)
(* The Emitter of internal/presence: when a summary may be sent. Time is   *)
(* whole ticks since the last one was taken, up to the window. The         *)
(* revision is counted from the last one the client received, so zero says *)
(* that it has seen them all; how many more than RevisionCap is not told.  *)
(***************************************************************************)
EXTENDS Naturals

CONSTANTS Window, RevisionCap

\* NewEmitter refuses a window that is not positive.
ASSUME WindowAssumption == Window \in Nat \ {0} /\ RevisionCap \in Nat \ {0}

VARIABLES pending, sent, since, revision

emitterVars == <<pending, sent, since, revision>>

EmitterInit == pending = FALSE /\ sent = FALSE /\ since = 0 /\ revision = 0

\* Mutant: a change inside the window is coalesced away.
NoteOutsideTheWindow ==
    /\ pending' = (pending \/ ~sent \/ since >= Window)
    /\ UNCHANGED <<sent, since, revision>>

Note == pending' = TRUE /\ UNCHANGED <<sent, since, revision>>

\* Mutant: the window is not looked at.
DueAtOnce == pending

\* Mutant: a summary is not due at the moment the window has passed.
DueWhileWaitIsNotOver == pending /\ ~sent

\* Take yields a revision.
Due == pending /\ (sent => since >= Window)

\* Mutant: a summary has the revision of the one before.
SameRevision == revision

NextRevision == IF revision < RevisionCap THEN revision + 1 ELSE revision

\* What Take leaves but for the revision, which the summary carries.
Take ==
    /\ Due
    /\ pending' = FALSE
    /\ sent' = TRUE
    /\ since' = 0

\* Mutant: one tick too many.
WaitLonger == IF sent THEN Window + 1 - since ELSE 0

\* How long until a pending change may be taken.
Wait == IF sent THEN Window - since ELSE 0

TimePasses ==
    /\ since' = IF since < Window THEN since + 1 ELSE since
    /\ UNCHANGED <<pending, sent, revision>>
=============================================================================
