------------------------------- MODULE Sender -------------------------------
(***************************************************************************)
(* The outbound side of one client: internal/wire/send.go.                 *)
(*                                                                         *)
(* Any number of goroutines call Send and Close; one goroutine, run, takes *)
(* messages off the queue and hands each to the connection in a goroutine  *)
(* of its own, which may never come back. Each atomic step is one channel  *)
(* operation, one critical section or one call of the connection, so every *)
(* gap the scheduler can find between them is a state here.                *)
(*                                                                         *)
(* The messages themselves are never looked at. The k-th message the queue *)
(* accepts is the number k, the queue holds taken+1 .. accepted, and a Go  *)
(* channel hands them out in that order.                                   *)
(***************************************************************************)
EXTENDS Naturals, Sequences, FiniteSets

CONSTANTS
    Senders,        \* goroutines that call Send, one call after another
    Closers,        \* goroutines that call Close, once each
    Writer,         \* the goroutine running run
    MaxQueued,      \* the capacity of the queue
    MaxAccepted     \* bound: messages accepted before callers stop sending

ASSUME SenderAssumption ==
    /\ Senders \cap Closers = {}
    /\ Writer \notin Senders \cup Closers
    /\ MaxQueued \in Nat \ {0}
    /\ MaxAccepted \in Nat

Threads == Senders \cup Closers \cup {Writer}

VARIABLES
    accepted,   \* messages put on the queue
    taken,      \* messages taken off it by run
    writing,    \* messages inside a Write of the connection
    delivered,  \* messages the connection has sent, in order
    result,     \* what the Write run waits for came back with
    timer,      \* that write's timeout: "off", "running" or "expired"
    fault,      \* the failure run has seen, not yet recorded
    stop,       \* the stop channel is closed
    done,       \* the done channel is closed
    open,       \* the connection has not been closed
    once,       \* stopOnce: "free", "taken" or "over"
    reason,     \* why this Sender stopped, nil while it has no reason
    pc,         \* where each goroutine is
    promised    \* history: accepted when stop was closed

queueVars == <<accepted, taken>>
connVars  == <<writing, delivered, result, timer>>
stopVars  == <<stop, done, open, once, reason, promised>>
vars == <<queueVars, connVars, stopVars, fault, pc>>

Reasons == {"nil", "too slow", "write timeout", "write failed"}
Places ==
    {"idle", "checked", "waiting", "closed", "look", "take", "write", "drain",
     "draining", "drain write", "leave", "exit", "end", "finish", "stop", "conn"}

Queued == accepted - taken

Init ==
    /\ accepted = 0 /\ taken = 0
    /\ writing = {} /\ delivered = <<>> /\ result = "none" /\ timer = "off"
    /\ fault = "nil"
    /\ stop = FALSE /\ done = FALSE /\ open = TRUE
    /\ once = "free" /\ reason = "nil" /\ promised = 0
    /\ pc = [t \in Threads |-> IF t = Writer THEN "look" ELSE "idle"]

Goto(t, from, to) == pc[t] = from /\ pc' = [pc EXCEPT ![t] = to]

\* A goroutine looks at something and moves on.
Passes(t, from, to) ==
    Goto(t, from, to) /\ UNCHANGED <<queueVars, connVars, fault, stopVars>>

\* record keeps the first reason.
Record(why) == reason' = IF reason = "nil" THEN why ELSE reason

-----------------------------------------------------------------------------
(* finish: a sync.Once around recording the reason, closing stop and, for a *)
(* fault, closing the connection. Whoever comes second waits for the first. *)

\* What this goroutine finishes for, and where it goes afterwards.
Why(t) == CASE t \in Senders -> "too slow"
            [] t \in Closers -> "nil"
            [] OTHER         -> fault
Afterwards(t) == CASE t \in Senders -> "idle"
                   [] t \in Closers -> "waiting"
                   [] OTHER         -> "leave"

FinishFirst(t) ==
    /\ Goto(t, "finish", "stop")
    /\ once = "free"
    /\ once' = "taken"
    /\ Record(Why(t))
    /\ UNCHANGED <<queueVars, connVars, fault, stop, done, open, promised>>

FinishSecond(t) == Passes(t, "finish", Afterwards(t)) /\ once = "over"

FinishStop(t) ==
    /\ Goto(t, "stop", "conn")
    /\ stop' = TRUE
    /\ promised' = accepted
    /\ UNCHANGED <<queueVars, connVars, fault, done, open, once, reason>>

FinishConn(t) ==
    /\ Goto(t, "conn", Afterwards(t))
    /\ open' = (open /\ Why(t) = "nil")
    /\ once' = "over"
    /\ UNCHANGED <<queueVars, connVars, fault, stop, done, reason, promised>>

Finish(t) == FinishFirst(t) \/ FinishSecond(t) \/ FinishStop(t) \/ FinishConn(t)

-----------------------------------------------------------------------------
(* Send and Close. A Send that finds stop closed changes nothing. *)

SendCheck(s) ==
    /\ Passes(s, "idle", "checked")
    /\ ~stop
    /\ accepted < MaxAccepted

\* Mutant: one message too many.
SendAcceptOneMore(s) ==
    /\ Goto(s, "checked", "idle")
    /\ Queued <= MaxQueued
    /\ accepted' = accepted + 1
    /\ UNCHANGED <<taken, connVars, fault, stopVars>>

SendAccept(s) ==
    /\ Goto(s, "checked", "idle")
    /\ Queued < MaxQueued
    /\ accepted' = accepted + 1
    /\ UNCHANGED <<taken, connVars, fault, stopVars>>

SendOverflow(s) == Passes(s, "checked", "finish") /\ Queued = MaxQueued

CloseCall(c) == Passes(c, "idle", "finish")

CloseReturn(c) == Passes(c, "waiting", "closed") /\ done

-----------------------------------------------------------------------------
(* run, drain and write. *)

\* The first select: stop on its own.
RunLook == Passes(Writer, "look", IF stop THEN "drain" ELSE "take")

\* The second select sees stop closed.
RunStop == Passes(Writer, "take", "drain") /\ stop

\* Mutant: the write is waited for without a timeout.
TakeAndWait(from, to) ==
    /\ Goto(Writer, from, to)
    /\ Queued > 0
    /\ taken' = taken + 1
    /\ result' = "none"
    /\ writing' = writing \cup {taken + 1}
    /\ UNCHANGED <<accepted, delivered, timer, fault, stopVars>>

\* A message comes off the queue and its write begins, timeout first. In the
\* second select of run it may be chosen although stop is closed.
TakeAndWrite(from, to) ==
    /\ Goto(Writer, from, to)
    /\ Queued > 0
    /\ taken' = taken + 1
    /\ timer' = "running"
    /\ result' = "none"
    /\ writing' = writing \cup {taken + 1}
    /\ UNCHANGED <<accepted, delivered, fault, stopVars>>

RunTake   == TakeAndWrite("take", "write")
DrainTake == TakeAndWrite("draining", "drain write")

\* The write came back well.
Written(from, to) ==
    /\ Goto(Writer, from, to)
    /\ result = "ok"
    /\ timer' = "off"
    /\ UNCHANGED <<queueVars, writing, delivered, result, fault, stopVars>>

RunWritten   == Written("write", "look")
DrainWritten == Written("drain write", "draining")

\* The select in write: either side that is ready may be chosen.
Failure(why) == \/ result = "error" /\ why = "write failed"
                \/ timer = "expired" /\ why = "write timeout"

WriteFailed(from, to) ==
    /\ Goto(Writer, from, to)
    /\ \E why \in Reasons : Failure(why) /\ fault' = why
    /\ timer' = "off"
    /\ UNCHANGED <<queueVars, writing, delivered, result>>

\* Mutant: a failed write is passed over.
RunFailedGoesOn == WriteFailed("write", "look") /\ UNCHANGED stopVars

RunFailed == WriteFailed("write", "finish") /\ UNCHANGED stopVars

DrainFailed ==
    /\ WriteFailed("drain write", "leave")
    /\ Record(fault')
    /\ UNCHANGED <<stop, done, open, once, promised>>

\* Mutant: stopping drops the queue.
DrainNothing == Passes(Writer, "drain", "leave")

\* drain is for a deliberate close only.
DrainBegin ==
    Passes(Writer, "drain", IF reason = "nil" THEN "draining" ELSE "leave")

DrainEmpty == Passes(Writer, "draining", "leave") /\ Queued = 0

\* The deferred calls, in their order.
RunLeave ==
    /\ Goto(Writer, "leave", "exit")
    /\ open' = FALSE
    /\ UNCHANGED <<queueVars, connVars, fault, stop, done, once, reason, promised>>

RunExit ==
    /\ Goto(Writer, "exit", "end")
    /\ done' = TRUE
    /\ UNCHANGED <<queueVars, connVars, fault, stop, open, once, reason, promised>>

Run ==
    \/ RunLook \/ RunStop \/ RunTake \/ RunWritten \/ RunFailed
    \/ DrainBegin \/ DrainTake \/ DrainWritten \/ DrainFailed \/ DrainEmpty
    \/ RunLeave \/ RunExit

-----------------------------------------------------------------------------
(* The connection and the clock, which the Sender is handed. *)

\* A Write sends its message, while the connection is open.
ConnWrites(m) ==
    /\ m \in writing
    /\ open
    /\ delivered' = Append(delivered, m)
    /\ writing' = writing \ {m}
    /\ result' = "ok"
    /\ UNCHANGED <<queueVars, timer, fault, stopVars, pc>>

\* Or fails, at any time.
ConnFails(m) ==
    /\ m \in writing
    /\ writing' = writing \ {m}
    /\ result' = "error"
    /\ UNCHANGED <<queueVars, delivered, timer, fault, stopVars, pc>>

\* WriteTimeout passes, however far along the write is.
TimerExpires ==
    /\ timer = "running"
    /\ timer' = "expired"
    /\ UNCHANGED <<queueVars, writing, delivered, result, fault, stopVars, pc>>

-----------------------------------------------------------------------------
Next ==
    \/ \E s \in Senders : SendCheck(s) \/ SendAccept(s) \/ SendOverflow(s)
    \/ \E c \in Closers : CloseCall(c) \/ CloseReturn(c)
    \/ \E t \in Threads : Finish(t)
    \/ Run
    \/ \E m \in writing : ConnWrites(m) \/ ConnFails(m)
    \/ TimerExpires

Spec == Init /\ [][Next]_vars

(***************************************************************************)
(* A goroutine that can take its next step takes it, and a timeout that is *)
(* running expires. Nobody has to call Send or Close, and a Write need     *)
(* never come back.                                                        *)
(***************************************************************************)
FairSpec ==
    /\ Spec
    /\ \A t \in Threads : WF_vars(Finish(t))
    /\ WF_vars(Run)
    /\ WF_vars(TimerExpires)

-----------------------------------------------------------------------------
\* The values the variables range over.
TypeOK ==
    /\ accepted \in Nat /\ taken \in 0..accepted /\ Queued <= MaxQueued
    /\ writing \subseteq 1..taken
    /\ delivered \in Seq(Nat)
    /\ result \in {"none", "ok", "error"}
    /\ timer \in {"off", "running", "expired"}
    /\ fault \in Reasons /\ reason \in Reasons
    /\ stop \in BOOLEAN /\ done \in BOOLEAN /\ open \in BOOLEAN
    /\ once \in {"free", "taken", "over"}
    /\ pc \in [Threads -> Places]
    /\ promised \in Nat

\* The client never has two messages on their way at once, which is what run
\* being the only writer is for: also not when a write was given up on.
OneWriteAtATime == Cardinality(writing) <= 1

\* Closed deliberately and with no write failing, what was accepted before
\* stop was closed has all been sent when Done is closed.
PromiseKept ==
    done /\ reason = "nil" /\ fault = "nil" => Len(delivered) >= promised

\* However the client behaves, a Sender that is told to stop does.
StopEnds == stop ~> done

\* drain's comment: a message that was accepted has been promised, and a
\* deliberate close writes what was accepted. A Send that passed its check
\* before the close may be accepted after the queue was drained.
AcceptedIsWritten ==
    done /\ reason = "nil" /\ fault = "nil" => Len(delivered) = accepted

\* The queue, the writer and the connection together are an outbox.
Box == INSTANCE Outbox WITH connected <- open
OutboxSpec == Box!Spec
=============================================================================
