----------------------------- MODULE SenderProofs -----------------------------
(***************************************************************************)
(* The outbound side of a client, for every number of goroutines that send *)
(* and close, every capacity of the queue and every connection.            *)
(***************************************************************************)
EXTENDS Sender, TLAPS, FiniteSetTheorems, SequenceTheorems

\* Where run is when no write is under way, where it waits for one, where it
\* only looks once stop is closed, and where it takes nothing any more.
Free     == {"look", "take", "drain", "draining"}
Awaiting == {"write", "drain write"}
Draining == {"drain", "draining", "drain write"}
Faulted  == {"finish", "stop", "conn"}
Leaving  == {"leave", "exit", "end"}

\* The last message taken is the only one that may be inside a Write, and
\* what was delivered is what was taken, but for that one.
WritesTheLast ==
    /\ writing \subseteq {taken}
    /\ writing # {} => Len(delivered) + 1 = taken
    /\ pc[Writer] \in Free => writing = {} /\ Len(delivered) = taken
    /\ pc[Writer] \in Awaiting =>
        CASE result = "none"  -> writing = {taken}
          [] result = "ok"    -> writing = {} /\ Len(delivered) = taken
          [] result = "error" -> writing = {}

\* The sync.Once: one goroutine is inside it, and stop is closed there.
InOnce == {t \in Threads : pc[t] \in {"stop", "conn"}}

OnceIsOnce ==
    /\ \A t \in InOnce : once = "taken" /\ \A u \in InOnce : t = u
    /\ stop => once # "free" /\ \A t \in Threads : pc[t] # "stop"

\* How run comes to its end: on a fault of its own, or on stop with a reason
\* or with all that was promised delivered.
EndsForCause ==
    /\ pc[Writer] \in Faulted => fault # "nil"
    /\ pc[Writer] \in Draining => stop
    /\ pc[Writer] \in Leaving =>
        \/ fault # "nil"
        \/ stop /\ (reason # "nil" \/ Len(delivered) >= promised)
    /\ done => pc[Writer] = "end"
    /\ promised <= accepted

SenderInv == TypeOK /\ WritesTheLast /\ OnceIsOnce /\ EndsForCause

-----------------------------------------------------------------------------
\* Where a goroutine goes after finish, and why it finishes, are known places
\* and reasons.
LEMMA FinishType ==
    ASSUME TypeOK, NEW t \in Threads
    PROVE  Why(t) \in Reasons /\ Afterwards(t) \in {"idle", "waiting", "leave"}
BY DEF Why, Afterwards, Reasons, TypeOK

\* A goroutine goes from one known place to another and the rest stay.
LEMMA GotoType ==
    ASSUME TypeOK, NEW t \in Threads, NEW from \in Places, NEW to \in Places,
           Goto(t, from, to)
    PROVE  /\ pc' \in [Threads -> Places]
           /\ pc[t] = from /\ pc'[t] = to
           /\ \A u \in Threads \ {t} : pc'[u] = pc[u]
BY DEF Goto, TypeOK

\* Looking and moving on keeps every type.
LEMMA PassesType ==
    ASSUME TypeOK, NEW t \in Threads, NEW from \in Places, NEW to \in Places,
           Passes(t, from, to)
    PROVE  TypeOK'
<1>1. pc' \in [Threads -> Places]
  BY GotoType DEF Passes
<1> QED
  BY <1>1 DEF Passes, TypeOK, queueVars, connVars, stopVars, Queued

\* Every step of the sender keeps the types.
LEMMA TypeStep == TypeOK /\ [Next]_vars => TypeOK'
<1> SUFFICES ASSUME TypeOK, [Next]_vars PROVE TypeOK'
  OBVIOUS
<1>w. Writer \in Threads /\ Senders \subseteq Threads /\ Closers \subseteq Threads
  BY DEF Threads
<1>1. ASSUME NEW s \in Senders, SendCheck(s) PROVE TypeOK'
  BY <1>1, <1>w, PassesType DEF SendCheck, Places
<1>2. ASSUME NEW s \in Senders, SendAccept(s) PROVE TypeOK'
  <2>1. pc' \in [Threads -> Places]
    BY <1>2, <1>w, GotoType DEF SendAccept, Places
  <2> QED
    BY <1>2, <2>1, SenderAssumption
       DEF SendAccept, TypeOK, connVars, stopVars, Queued, SenderAssumption
<1>3. ASSUME NEW s \in Senders, SendOverflow(s) PROVE TypeOK'
  BY <1>3, <1>w, PassesType DEF SendOverflow, Places
<1>4. ASSUME NEW c \in Closers, CloseCall(c) \/ CloseReturn(c) PROVE TypeOK'
  BY <1>4, <1>w, PassesType DEF CloseCall, CloseReturn, Places
<1>5. ASSUME NEW t \in Threads, Finish(t) PROVE TypeOK'
  <2>1. CASE FinishFirst(t)
    <3>1. pc' \in [Threads -> Places]
      BY <2>1, GotoType DEF FinishFirst, Places
    <3>2. reason' \in Reasons
      BY <2>1, FinishType DEF FinishFirst, Record, TypeOK
    <3> QED
      BY <2>1, <3>1, <3>2 DEF FinishFirst, TypeOK, queueVars, connVars, Queued
  <2>2. CASE FinishSecond(t)
    BY <2>2, FinishType, PassesType DEF FinishSecond, Places
  <2>3. CASE FinishStop(t)
    <3>1. pc' \in [Threads -> Places]
      BY <2>3, GotoType DEF FinishStop, Places
    <3> QED
      BY <2>3, <3>1 DEF FinishStop, TypeOK, queueVars, connVars, Queued
  <2>4. CASE FinishConn(t)
    <3>1. pc' \in [Threads -> Places]
      BY <2>4, FinishType, GotoType DEF FinishConn, Places
    <3> QED
      BY <2>4, <3>1 DEF FinishConn, TypeOK, queueVars, connVars, Queued
  <2> QED
    BY <1>5, <2>1, <2>2, <2>3, <2>4 DEF Finish
<1>6. CASE RunLook \/ RunStop \/ DrainBegin \/ DrainEmpty
  BY <1>6, <1>w, PassesType DEF RunLook, RunStop, DrainBegin, DrainEmpty, Places
<1>7. ASSUME NEW from \in Places, NEW to \in Places, TakeAndWrite(from, to)
      PROVE  TypeOK'
  <2>1. pc' \in [Threads -> Places]
    BY <1>7, <1>w, GotoType DEF TakeAndWrite
  <2>2. taken' \in 0..accepted /\ accepted - taken' <= MaxQueued
    BY <1>7, SenderAssumption DEF TakeAndWrite, TypeOK, Queued, SenderAssumption
  <2>3. writing' \subseteq 1..taken'
    BY <1>7 DEF TakeAndWrite, TypeOK
  <2> QED
    BY <1>7, <2>1, <2>2, <2>3 DEF TakeAndWrite, TypeOK, stopVars, Queued
<1>8. ASSUME NEW from \in Places, NEW to \in Places, Written(from, to)
      PROVE  TypeOK'
  <2>1. pc' \in [Threads -> Places]
    BY <1>8, <1>w, GotoType DEF Written
  <2> QED
    BY <1>8, <2>1 DEF Written, TypeOK, queueVars, stopVars, Queued
<1>9. CASE RunFailed
  <2>1. pc' \in [Threads -> Places]
    BY <1>9, <1>w, GotoType DEF RunFailed, WriteFailed, Places
  <2> QED
    BY <1>9, <2>1 DEF RunFailed, WriteFailed, TypeOK, queueVars, stopVars, Queued
<1>10. CASE DrainFailed
  <2>1. pc' \in [Threads -> Places]
    BY <1>10, <1>w, GotoType DEF DrainFailed, WriteFailed, Places
  <2>2. fault' \in Reasons
    BY <1>10 DEF DrainFailed, WriteFailed
  <2>3. reason' \in Reasons
    BY <1>10, <2>2 DEF DrainFailed, Record, TypeOK
  <2> QED
    BY <1>10, <2>1, <2>2, <2>3 DEF DrainFailed, WriteFailed, TypeOK, queueVars, Queued
<1>11. CASE RunLeave \/ RunExit
  <2>1. pc' \in [Threads -> Places]
    BY <1>11, <1>w, GotoType DEF RunLeave, RunExit, Places
  <2> QED
    BY <1>11, <2>1 DEF RunLeave, RunExit, TypeOK, queueVars, connVars, Queued
<1>12. ASSUME NEW m \in writing, ConnWrites(m) PROVE TypeOK'
  <2>1. delivered' \in Seq(Nat)
    BY <1>12, AppendProperties DEF ConnWrites, TypeOK
  <2> QED
    BY <1>12, <2>1 DEF ConnWrites, TypeOK, queueVars, stopVars, Queued
<1>13. ASSUME NEW m \in writing, ConnFails(m) PROVE TypeOK'
  BY <1>13 DEF ConnFails, TypeOK, queueVars, stopVars, Queued
<1>14. CASE TimerExpires
  BY <1>14 DEF TimerExpires, TypeOK, queueVars, stopVars, Queued
<1>15. CASE UNCHANGED vars
  BY <1>15 DEF vars, TypeOK, queueVars, connVars, stopVars, Queued
<1>16. CASE Run
  BY <1>16, <1>6, <1>7, <1>8, <1>9, <1>10, <1>11
     DEF Run, RunTake, DrainTake, RunWritten, DrainWritten, Places
<1> QED
  BY <1>1, <1>2, <1>3, <1>4, <1>5, <1>12, <1>13, <1>14, <1>15, <1>16 DEF Next

\* A sender starts with the types it keeps.
LEMMA TypeInit == Init => TypeOK
<1> SUFFICES ASSUME Init PROVE TypeOK
  OBVIOUS
<1>1. pc \in [Threads -> Places]
  BY DEF Init, Places
<1>2. delivered \in Seq(Nat) /\ writing \subseteq 1..taken
  BY DEF Init
<1>3. accepted \in Nat /\ taken \in 0..accepted /\ Queued <= MaxQueued
  BY SenderAssumption DEF Init, Queued, SenderAssumption
<1> QED
  BY <1>1, <1>2, <1>3 DEF Init, TypeOK, Reasons

(***************************************************************************)
(* The variables of the sender keep their types: the queue never holds     *)
(* more than its capacity, and only what was taken is being written.       *)
(***************************************************************************)
THEOREM TypeCorrect == Spec => []TypeOK
BY TypeInit, TypeStep, PTL DEF Spec

-----------------------------------------------------------------------------
\* A goroutine that moves outside the sync.Once leaves it as it is.
LEMMA OnceKept ==
    ASSUME TypeOK, OnceIsOnce, NEW t \in Threads,
           NEW from \in Places, NEW to \in Places \ {"stop", "conn"},
           from \notin {"stop", "conn"},
           Goto(t, from, to), once' = once, stop' = stop
    PROVE  OnceIsOnce'
<1>1. \A u \in Threads : pc'[u] = pc[u] \/ pc'[u] \notin {"stop", "conn"}
  BY GotoType
<1>2. InOnce' \subseteq InOnce
  BY <1>1 DEF InOnce
<1>3. \A u \in Threads : pc[u] # "stop" => pc'[u] # "stop"
  BY <1>1
<1> QED
  BY <1>2, <1>3 DEF OnceIsOnce

\* The sync.Once is taken once, and whoever took it is alone inside.
LEMMA OnceStep == TypeOK /\ OnceIsOnce /\ [Next]_vars => OnceIsOnce'
<1> SUFFICES ASSUME TypeOK, OnceIsOnce, [Next]_vars PROVE OnceIsOnce'
  OBVIOUS
<1>w. Writer \in Threads /\ Senders \subseteq Threads /\ Closers \subseteq Threads
  BY DEF Threads
<1>1. ASSUME NEW t \in Threads, NEW from \in Places, NEW to \in Places \ {"stop", "conn"},
             from \notin {"stop", "conn"}, Goto(t, from, to), UNCHANGED <<once, stop>>
      PROVE  OnceIsOnce'
  BY <1>1, OnceKept
<1>2. ASSUME NEW s \in Senders, SendCheck(s) \/ SendAccept(s) \/ SendOverflow(s)
      PROVE  OnceIsOnce'
  BY <1>1, <1>2, <1>w DEF SendCheck, SendAccept, SendOverflow, Passes, stopVars, Places
<1>3. ASSUME NEW c \in Closers, CloseCall(c) \/ CloseReturn(c) PROVE OnceIsOnce'
  BY <1>1, <1>3, <1>w DEF CloseCall, CloseReturn, Passes, stopVars, Places
<1>4. ASSUME NEW t \in Threads, Finish(t) PROVE OnceIsOnce'
  <2>1. CASE FinishFirst(t)
    <3>1. pc'[t] = "stop" /\ \A u \in Threads \ {t} : pc'[u] = pc[u]
      BY <2>1, GotoType DEF FinishFirst, Places
    <3>2. once = "free" /\ once' = "taken" /\ stop' = stop
      BY <2>1 DEF FinishFirst
    <3>3. InOnce = {} /\ ~stop
      BY <3>2 DEF OnceIsOnce
    <3>4. InOnce' = {t}
      BY <3>1, <3>3 DEF InOnce
    <3> QED
      BY <3>2, <3>3, <3>4 DEF OnceIsOnce
  <2>2. CASE FinishSecond(t)
    BY <1>1, <2>2, FinishType DEF FinishSecond, Passes, stopVars, Places
  <2>3. CASE FinishStop(t)
    <3>1. pc[t] = "stop" /\ pc'[t] = "conn" /\ \A u \in Threads \ {t} : pc'[u] = pc[u]
      BY <2>3, GotoType DEF FinishStop, Places
    <3>2. once' = once
      BY <2>3 DEF FinishStop
    <3>3. t \in InOnce /\ once = "taken" /\ InOnce' = InOnce
      BY <3>1 DEF InOnce, OnceIsOnce
    <3>4. \A u \in Threads : pc'[u] # "stop"
      BY <3>1, <3>3 DEF InOnce, OnceIsOnce
    <3> QED
      BY <3>2, <3>3, <3>4 DEF OnceIsOnce
  <2>4. CASE FinishConn(t)
    <3>1. /\ pc[t] = "conn" /\ pc'[t] \notin {"stop", "conn"}
          /\ \A u \in Threads \ {t} : pc'[u] = pc[u]
      BY <2>4, FinishType, GotoType DEF FinishConn, Places
    <3>2. once' = "over" /\ stop' = stop
      BY <2>4 DEF FinishConn
    <3>3. t \in InOnce /\ InOnce' = {}
      BY <3>1 DEF InOnce, OnceIsOnce
    <3>4. \A u \in Threads : pc'[u] # "stop"
      BY <3>3 DEF InOnce
    <3> QED
      BY <3>2, <3>3, <3>4 DEF OnceIsOnce
  <2> QED
    BY <1>4, <2>1, <2>2, <2>3, <2>4 DEF Finish
<1>5. CASE Run
  <2>1. CASE RunLook \/ RunStop \/ DrainBegin \/ DrainEmpty
    BY <1>1, <1>w, <2>1
       DEF RunLook, RunStop, DrainBegin, DrainEmpty, Passes, stopVars, Places
  <2>2. CASE RunTake \/ DrainTake \/ RunWritten \/ DrainWritten
    BY <1>1, <1>w, <2>2
       DEF RunTake, DrainTake, RunWritten, DrainWritten, TakeAndWrite, Written, stopVars, Places
  <2>3. CASE RunFailed \/ DrainFailed \/ RunLeave \/ RunExit
    BY <1>1, <1>w, <2>3
       DEF RunFailed, DrainFailed, WriteFailed, RunLeave, RunExit, stopVars, Places
  <2> QED
    BY <1>5, <2>1, <2>2, <2>3 DEF Run
<1>6. ASSUME UNCHANGED <<pc, once, stop>> PROVE OnceIsOnce'
  BY <1>6 DEF OnceIsOnce, InOnce
<1>7. ASSUME NEW m \in writing, ConnWrites(m) \/ ConnFails(m) PROVE OnceIsOnce'
  BY <1>6, <1>7 DEF ConnWrites, ConnFails, stopVars
<1>8. CASE TimerExpires \/ UNCHANGED vars
  BY <1>6, <1>8 DEF TimerExpires, stopVars, vars
<1> QED
  BY <1>2, <1>3, <1>4, <1>5, <1>7, <1>8 DEF Next

-----------------------------------------------------------------------------
\* The order of the queue is the order of the writes.
LEMMA WritesStep == TypeOK /\ WritesTheLast /\ [Next]_vars => WritesTheLast'
<1> SUFFICES ASSUME TypeOK, WritesTheLast, [Next]_vars PROVE WritesTheLast'
  OBVIOUS
<1>w. Writer \in Threads /\ Writer \notin Senders /\ Writer \notin Closers
      /\ Senders \subseteq Threads /\ Closers \subseteq Threads
  BY SenderAssumption DEF Threads, SenderAssumption
<1>a. taken \in Nat /\ delivered \in Seq(Nat) /\ Len(delivered) \in Nat
      /\ result \in {"none", "ok", "error"} /\ pc[Writer] \in Places
  BY <1>w, LenProperties DEF TypeOK
\* run stays, or goes from a place where no write is under way to another, or
\* to where it does not write any more.
<1>1. ASSUME UNCHANGED <<writing, delivered, result, taken>>,
             pc'[Writer] = pc[Writer] \/ pc'[Writer] \notin Free \cup Awaiting
                \/ (pc[Writer] \in Free /\ pc'[Writer] \in Free)
      PROVE  WritesTheLast'
  <2>1. Free \cap Awaiting = {}
    BY DEF Free, Awaiting
  <2> QED
    BY <1>1, <2>1 DEF WritesTheLast
<1>2. ASSUME NEW t \in Threads \ {Writer}, NEW from \in Places, NEW to \in Places,
             Goto(t, from, to)
      PROVE  pc'[Writer] = pc[Writer]
  BY <1>2, <1>w, GotoType
<1>3. ASSUME NEW s \in Senders, SendCheck(s) \/ SendAccept(s) \/ SendOverflow(s)
      PROVE  WritesTheLast'
  BY <1>1, <1>2, <1>3, <1>w DEF SendCheck, SendAccept, SendOverflow, Passes, queueVars,
                                connVars, Places
<1>4. ASSUME NEW c \in Closers, CloseCall(c) \/ CloseReturn(c) PROVE WritesTheLast'
  BY <1>1, <1>2, <1>4, <1>w DEF CloseCall, CloseReturn, Passes, queueVars, connVars, Places
<1>5. ASSUME NEW t \in Threads, Finish(t) PROVE WritesTheLast'
  <2>1. UNCHANGED <<writing, delivered, result, taken>>
    BY <1>5 DEF Finish, FinishFirst, FinishSecond, FinishStop, FinishConn, Passes,
                queueVars, connVars
  <2>2. PICK to \in {"stop", "conn", Afterwards(t)}, from \in {"finish", "stop", "conn"} :
            Goto(t, from, to)
    BY <1>5 DEF Finish, FinishFirst, FinishSecond, FinishStop, FinishConn, Passes
  <2>3. from \in Places /\ to \in Places
    BY <2>2, FinishType DEF Places
  <2>4. t = Writer => to \in {"stop", "conn", "leave"}
    BY <1>w, <2>2 DEF Afterwards
  <2>5. pc'[Writer] = pc[Writer] \/ pc'[Writer] \in {"stop", "conn", "leave"}
    BY <1>2, <1>w, <2>2, <2>3, <2>4, GotoType
  <2> QED
    BY <1>1, <2>1, <2>5 DEF Free, Awaiting
<1>6. CASE RunLook \/ RunStop \/ DrainBegin \/ DrainEmpty
  <2>1. UNCHANGED <<writing, delivered, result, taken>>
    BY <1>6 DEF RunLook, RunStop, DrainBegin, DrainEmpty, Passes, queueVars, connVars
  <2>2. pc[Writer] \in Free /\ pc'[Writer] \in Free \cup {"leave"}
    BY <1>6, <1>w, GotoType
       DEF RunLook, RunStop, DrainBegin, DrainEmpty, Passes, Places, Free
  <2> QED
    BY <1>1, <2>1, <2>2 DEF Free, Awaiting
<1>7. CASE RunTake \/ DrainTake
  <2>1. /\ pc[Writer] \in Free /\ pc'[Writer] \in Awaiting
        /\ taken' = taken + 1 /\ result' = "none" /\ delivered' = delivered
        /\ writing' = writing \cup {taken + 1}
    BY <1>7, <1>w, GotoType
       DEF RunTake, DrainTake, TakeAndWrite, Places, Free, Awaiting
  <2>2. writing' = {taken'} /\ Len(delivered') + 1 = taken'
    BY <2>1 DEF WritesTheLast
  <2> QED
    BY <2>1, <2>2 DEF WritesTheLast, Free, Awaiting
<1>8. CASE RunWritten \/ DrainWritten
  <2>1. /\ pc[Writer] \in Awaiting /\ pc'[Writer] \in Free /\ result = "ok"
        /\ UNCHANGED <<writing, delivered, result, taken>>
    BY <1>8, <1>w, GotoType
       DEF RunWritten, DrainWritten, Written, Places, Free, Awaiting, queueVars
  <2>2. writing = {} /\ Len(delivered) = taken
    BY <2>1 DEF WritesTheLast
  <2> QED
    BY <2>1, <2>2 DEF WritesTheLast, Free, Awaiting
<1>9. CASE RunFailed \/ DrainFailed \/ RunLeave \/ RunExit
  <2>1. pc'[Writer] \in {"finish", "leave", "exit", "end"}
        /\ UNCHANGED <<writing, delivered, result, taken>>
    BY <1>9, <1>w, GotoType
       DEF RunFailed, DrainFailed, WriteFailed, RunLeave, RunExit, Places, queueVars, connVars
  <2> QED
    BY <1>1, <2>1 DEF Free, Awaiting
<1>10. ASSUME NEW m \in writing, ConnWrites(m) PROVE WritesTheLast'
  <2>1. m = taken /\ writing = {taken} /\ Len(delivered) + 1 = taken
    BY <1>10 DEF WritesTheLast
  <2>2. writing' = {} /\ result' = "ok" /\ taken' = taken /\ pc' = pc
    BY <1>10, <2>1 DEF ConnWrites, queueVars
  <2>3. Len(delivered') = taken
    BY <1>a, <1>10, <2>1, AppendProperties DEF ConnWrites
  <2> QED
    BY <2>1, <2>2, <2>3 DEF WritesTheLast, Free
<1>11. ASSUME NEW m \in writing, ConnFails(m) PROVE WritesTheLast'
  <2>1. m = taken /\ writing = {taken} /\ Len(delivered) + 1 = taken
    BY <1>11 DEF WritesTheLast
  <2>2. /\ writing' = {} /\ result' = "error" /\ taken' = taken /\ pc' = pc
        /\ delivered' = delivered
    BY <1>11, <2>1 DEF ConnFails, queueVars
  <2> QED
    BY <2>1, <2>2 DEF WritesTheLast, Free
<1>12. CASE TimerExpires \/ UNCHANGED vars
  BY <1>1, <1>12 DEF TimerExpires, queueVars, vars, connVars
<1> QED
  BY <1>3, <1>4, <1>5, <1>6, <1>7, <1>8, <1>9, <1>10, <1>11, <1>12 DEF Next, Run

-----------------------------------------------------------------------------
\* run comes to its end for a cause, and what was promised is not less for
\* what happens around it.
LEMMA EndsStep == SenderInv /\ [Next]_vars => EndsForCause'
<1> SUFFICES ASSUME SenderInv, [Next]_vars PROVE EndsForCause'
  OBVIOUS
<1>t. TypeOK /\ WritesTheLast /\ OnceIsOnce /\ EndsForCause
  BY DEF SenderInv
<1>w. Writer \in Threads /\ Writer \notin Senders /\ Writer \notin Closers
      /\ Senders \subseteq Threads /\ Closers \subseteq Threads
  BY SenderAssumption DEF Threads, SenderAssumption
<1>a. accepted \in Nat /\ promised \in Nat /\ taken \in Nat /\ Len(delivered) \in Nat
      /\ pc[Writer] \in Places
  BY <1>t, <1>w, LenProperties DEF TypeOK
<1>1. ASSUME pc'[Writer] = pc[Writer],
             UNCHANGED <<accepted, delivered, fault, done, promised>>,
             stop => stop', reason # "nil" => reason' # "nil"
      PROVE  EndsForCause'
  BY <1>1, <1>t DEF EndsForCause
<1>2. ASSUME NEW t \in Threads \ {Writer}, NEW from \in Places, NEW to \in Places,
             Goto(t, from, to)
      PROVE  pc'[Writer] = pc[Writer]
  BY <1>2, <1>t, <1>w, GotoType
<1>3. ASSUME NEW s \in Senders, SendCheck(s) \/ SendOverflow(s) PROVE EndsForCause'
  BY <1>1, <1>2, <1>3, <1>w DEF SendCheck, SendOverflow, Passes, queueVars, connVars,
                                stopVars, Places
<1>4. ASSUME NEW s \in Senders, SendAccept(s) PROVE EndsForCause'
  <2>1. pc'[Writer] = pc[Writer]
    BY <1>2, <1>4, <1>w DEF SendAccept, Places
  <2>2. /\ accepted' = accepted + 1
        /\ UNCHANGED <<delivered, fault, stop, done, reason, promised>>
    BY <1>4 DEF SendAccept, connVars, stopVars
  <2> QED
    BY <1>a, <1>t, <2>1, <2>2 DEF EndsForCause
<1>5. ASSUME NEW c \in Closers, CloseCall(c) \/ CloseReturn(c) PROVE EndsForCause'
  BY <1>1, <1>2, <1>5, <1>w DEF CloseCall, CloseReturn, Passes, queueVars, connVars,
                                stopVars, Places
<1>6. ASSUME NEW t \in Threads, Finish(t) PROVE EndsForCause'
  <2>1. UNCHANGED <<accepted, delivered, fault, done>>
    BY <1>6 DEF Finish, FinishFirst, FinishSecond, FinishStop, FinishConn, Passes,
                queueVars, connVars, stopVars
  <2>2. (stop => stop') /\ (reason # "nil" => reason' # "nil")
    BY <1>6 DEF Finish, FinishFirst, FinishSecond, FinishStop, FinishConn, Passes,
                Record, stopVars
  <2>3. promised' = promised \/ (promised' = accepted /\ ~stop)
    <3>1. FinishStop(t) => ~stop
      BY <1>t DEF FinishStop, Goto, OnceIsOnce
    <3> QED
      BY <1>6, <3>1 DEF Finish, FinishFirst, FinishSecond, FinishStop, FinishConn, Passes,
                        stopVars
  <2>4. PICK from \in {"finish", "stop", "conn"}, to \in {"stop", "conn", Afterwards(t)} :
            Goto(t, from, to)
    BY <1>6 DEF Finish, FinishFirst, FinishSecond, FinishStop, FinishConn, Passes
  <2>5. from \in Places /\ to \in Places
    BY <1>t, <2>4, FinishType DEF Places
  <2>6. CASE t = Writer
    <3>1. pc[Writer] \in Faulted /\ pc'[Writer] \in {"stop", "conn", "leave"}
      BY <1>t, <1>w, <2>4, <2>5, <2>6, GotoType DEF Afterwards, Faulted
    <3>2. fault' # "nil" /\ ~done'
      BY <1>t, <2>1, <3>1 DEF EndsForCause, Faulted
    <3>3. promised' <= accepted'
      BY <1>a, <1>t, <2>1, <2>3 DEF EndsForCause
    <3>4. pc'[Writer] \notin Draining
      BY <3>1 DEF Draining
    <3> QED
      BY <3>2, <3>3, <3>4 DEF EndsForCause
  <2>7. CASE t # Writer
    <3>1. pc'[Writer] = pc[Writer]
      BY <1>2, <2>4, <2>5, <2>7
    <3> QED
      BY <1>a, <1>t, <2>1, <2>2, <2>3, <3>1 DEF EndsForCause
  <2> QED
    BY <2>6, <2>7
<1>7. CASE RunLook \/ RunStop \/ RunTake \/ DrainTake \/ RunWritten \/ DrainWritten
  <2>1. /\ pc'[Writer] \in {"look", "take", "drain", "draining", "write", "drain write"}
        /\ pc'[Writer] \in Draining => stop
        /\ pc[Writer] # "end"
    <3>1. pc[Writer] \in Draining => stop
      BY <1>t DEF EndsForCause
    <3>2. CASE RunLook \/ RunStop
      BY <3>2, <1>t, <1>w, GotoType DEF RunLook, RunStop, Passes, Places, Draining
    <3>3. CASE RunTake \/ DrainTake
      BY <3>1, <3>3, <1>t, <1>w, GotoType
         DEF RunTake, DrainTake, TakeAndWrite, Places, Draining
    <3>4. CASE RunWritten \/ DrainWritten
      BY <3>1, <3>4, <1>t, <1>w, GotoType
         DEF RunWritten, DrainWritten, Written, Places, Draining
    <3> QED
      BY <1>7, <3>2, <3>3, <3>4
  <2>2. UNCHANGED <<accepted, delivered, fault, stop, done, reason, promised>>
    BY <1>7 DEF RunLook, RunStop, RunTake, DrainTake, RunWritten, DrainWritten,
                TakeAndWrite, Written, Passes, queueVars, connVars, stopVars
  <2> QED
    BY <1>t, <2>1, <2>2 DEF EndsForCause, Faulted, Leaving
<1>8. CASE RunFailed \/ DrainFailed
  <2>1. pc'[Writer] \in {"finish", "leave"} /\ pc[Writer] # "end"
    BY <1>8, <1>t, <1>w, GotoType DEF RunFailed, DrainFailed, WriteFailed, Places
  <2>2. fault' # "nil"
    BY <1>8 DEF RunFailed, DrainFailed, WriteFailed, Failure
  <2>3. UNCHANGED <<accepted, done, promised>>
    BY <1>8 DEF RunFailed, DrainFailed, WriteFailed, queueVars, stopVars
  <2> QED
    BY <1>t, <2>1, <2>2, <2>3 DEF EndsForCause, Draining
<1>9. CASE DrainBegin
  <2>1. pc[Writer] = "drain" /\ pc'[Writer] = IF reason = "nil" THEN "draining" ELSE "leave"
    BY <1>9, <1>t, <1>w, GotoType DEF DrainBegin, Passes, Places
  <2>2. UNCHANGED <<accepted, delivered, fault, stop, done, reason, promised>>
    BY <1>9 DEF DrainBegin, Passes, queueVars, connVars, stopVars
  <2> QED
    BY <1>t, <2>1, <2>2 DEF EndsForCause, Draining, Faulted, Leaving
<1>10. CASE DrainEmpty
  <2>1. pc[Writer] = "draining" /\ pc'[Writer] = "leave" /\ accepted - taken = 0
    BY <1>10, <1>t, <1>w, GotoType DEF DrainEmpty, Passes, Places, Queued
  <2>2. UNCHANGED <<accepted, delivered, fault, stop, done, reason, promised>>
    BY <1>10 DEF DrainEmpty, Passes, queueVars, connVars, stopVars
  <2>3. Len(delivered) = accepted
    BY <1>a, <1>t, <2>1 DEF WritesTheLast, Free
  <2> QED
    BY <1>a, <1>t, <2>1, <2>2, <2>3 DEF EndsForCause, Draining, Faulted, Leaving
<1>11. CASE RunLeave \/ RunExit
  <2>1. /\ pc[Writer] \in {"leave", "exit"} /\ pc'[Writer] \in {"exit", "end"}
        /\ pc[Writer] = "exit" => pc'[Writer] = "end"
        /\ pc[Writer] = "leave" => done' = done
    <3>1. CASE RunLeave
      BY <3>1, <1>t, <1>w, GotoType DEF RunLeave, Places
    <3>2. CASE RunExit
      BY <3>2, <1>t, <1>w, GotoType DEF RunExit, Places
    <3> QED
      BY <1>11, <3>1, <3>2
  <2>2. UNCHANGED <<accepted, delivered, fault, stop, reason, promised>>
    BY <1>11 DEF RunLeave, RunExit, queueVars, connVars
  <2>3. done' => pc'[Writer] = "end"
    <3>1. CASE pc[Writer] = "leave"
      <4>1. ~done
        BY <1>t, <3>1 DEF EndsForCause
      <4> QED
        BY <2>1, <3>1, <4>1
    <3>2. CASE pc[Writer] = "exit"
      BY <2>1, <3>2
    <3> QED
      BY <2>1, <3>1, <3>2
  <2>4. pc[Writer] \in Leaving /\ pc'[Writer] \notin Faulted \cup Draining
    BY <2>1 DEF Leaving, Faulted, Draining
  <2> QED
    BY <1>t, <2>2, <2>3, <2>4 DEF EndsForCause
<1>12. ASSUME NEW m \in writing, ConnWrites(m) PROVE EndsForCause'
  <2>1. Len(delivered') = Len(delivered) + 1
    BY <1>12, <1>t, AppendProperties DEF ConnWrites, TypeOK
  <2>2. UNCHANGED <<pc, accepted, fault, stop, done, reason, promised>>
    BY <1>12 DEF ConnWrites, queueVars, stopVars
  <2> QED
    BY <1>a, <1>t, <2>1, <2>2 DEF EndsForCause
<1>13. ASSUME NEW m \in writing, ConnFails(m) PROVE EndsForCause'
  BY <1>1, <1>13 DEF ConnFails, queueVars, stopVars
<1>14. CASE TimerExpires \/ UNCHANGED vars
  BY <1>1, <1>14 DEF TimerExpires, queueVars, connVars, stopVars, vars
<1> QED
  BY <1>3, <1>4, <1>5, <1>6, <1>7, <1>8, <1>9, <1>10, <1>11, <1>12, <1>13, <1>14
     DEF Next, Run

(***************************************************************************)
(* The invariant holds from the start and every step keeps it.             *)
(***************************************************************************)
THEOREM SenderCorrect == Spec => []SenderInv
<1>1. Init => SenderInv
  <2> SUFFICES ASSUME Init PROVE SenderInv
    OBVIOUS
  <2>1. \A t \in Threads : pc[t] \in {"look", "idle"}
    BY DEF Init
  <2>2. pc[Writer] = "look" /\ Len(delivered) = 0
    BY DEF Init, Threads
  <2>3. TypeOK
    BY TypeInit
  <2>4. WritesTheLast
    BY <2>2 DEF Init, WritesTheLast, Free, Awaiting
  <2>5. OnceIsOnce
    BY <2>1 DEF Init, OnceIsOnce, InOnce
  <2>6. EndsForCause
    <3>1. pc[Writer] \notin Faulted \cup Draining \cup Leaving
      BY <2>2 DEF Faulted, Draining, Leaving
    <3>2. done = FALSE /\ promised <= accepted
      BY DEF Init
    <3> QED
      BY <3>1, <3>2 DEF EndsForCause
  <2> QED
    BY <2>3, <2>4, <2>5, <2>6 DEF SenderInv
<1>2. SenderInv /\ [Next]_vars => SenderInv'
  BY TypeStep, OnceStep, WritesStep, EndsStep DEF SenderInv
<1> QED
  BY <1>1, <1>2, PTL DEF Spec

(***************************************************************************)
(* The client never has two messages on their way at once, however many    *)
(* writes were given up on.                                                *)
(***************************************************************************)
THEOREM WritesOneAtATime == Spec => []OneWriteAtATime
<1>1. SenderInv => OneWriteAtATime
  <2> SUFFICES ASSUME SenderInv PROVE Cardinality(writing) <= 1
    BY DEF OneWriteAtATime
  <2>1. writing = {} \/ writing = {taken}
    BY DEF SenderInv, WritesTheLast
  <2>2. Cardinality({}) = 0 /\ Cardinality({taken}) = 1
    BY FS_EmptySet, FS_Singleton
  <2> QED
    BY <2>1, <2>2
<1> QED
  BY <1>1, SenderCorrect, PTL

(***************************************************************************)
(* A deliberate close that no write spoils delivers what was accepted      *)
(* before stop was closed, before Done is.                                 *)
(***************************************************************************)
THEOREM PromisesAreKept == Spec => []PromiseKept
<1>1. SenderInv => PromiseKept
  BY DEF SenderInv, EndsForCause, Leaving, PromiseKept
<1> QED
  BY <1>1, SenderCorrect, PTL

-----------------------------------------------------------------------------
(***************************************************************************)
(* The queue, the writer and the connection implement the outbox: a        *)
(* SendAccept is its Accept, a Write that succeeds its Deliver, closing    *)
(* the connection its Disconnect, and everything else a stutter.           *)
(***************************************************************************)
THEOREM SenderImplementsOutbox == Spec => OutboxSpec
<1>1. Init => Box!Init
  BY DEF Init, Box!Init
<1>2. SenderInv /\ [Next]_vars => [Box!Next]_(Box!outboxVars)
  <2> SUFFICES ASSUME SenderInv, [Next]_vars PROVE [Box!Next]_(Box!outboxVars)
    OBVIOUS
  <2> USE DEF Box!outboxVars
  <2>1. ASSUME UNCHANGED <<accepted, delivered, open>> PROVE [Box!Next]_(Box!outboxVars)
    BY <2>1
  <2>2. ASSUME UNCHANGED <<accepted, delivered>>, open' = FALSE
        PROVE  [Box!Next]_(Box!outboxVars)
    BY <2>2 DEF Box!Next, Box!Disconnect
  <2>3. ASSUME NEW s \in Senders, SendCheck(s) \/ SendAccept(s) \/ SendOverflow(s)
        PROVE  [Box!Next]_(Box!outboxVars)
    BY <2>1, <2>3 DEF SendCheck, SendAccept, SendOverflow, Passes, queueVars, connVars,
                      stopVars, Box!Next, Box!Accept
  <2>4. ASSUME NEW c \in Closers, CloseCall(c) \/ CloseReturn(c)
        PROVE  [Box!Next]_(Box!outboxVars)
    BY <2>1, <2>4 DEF CloseCall, CloseReturn, Passes, queueVars, connVars, stopVars
  <2>5. ASSUME NEW t \in Threads, Finish(t) PROVE [Box!Next]_(Box!outboxVars)
    <3>1. CASE FinishFirst(t) \/ FinishSecond(t) \/ FinishStop(t)
      BY <2>1, <3>1 DEF FinishFirst, FinishSecond, FinishStop, Passes, queueVars,
                        connVars, stopVars
    <3>2. CASE FinishConn(t)
      <4>1. open' = open \/ open' = FALSE
        BY <3>2 DEF FinishConn, SenderInv, TypeOK
      <4> QED
        BY <2>1, <2>2, <3>2, <4>1 DEF FinishConn, queueVars, connVars
    <3> QED
      BY <2>5, <3>1, <3>2 DEF Finish
  <2>6. CASE RunLook \/ RunStop \/ RunTake \/ RunWritten \/ RunFailed
    BY <2>1, <2>6 DEF RunLook, RunStop, RunTake, RunWritten, RunFailed, Passes,
                      TakeAndWrite, Written, WriteFailed, queueVars, connVars, stopVars
  <2>7. CASE DrainBegin \/ DrainTake \/ DrainWritten \/ DrainFailed \/ DrainEmpty
    BY <2>1, <2>7 DEF DrainBegin, DrainTake, DrainWritten, DrainFailed, DrainEmpty, Passes,
                      TakeAndWrite, Written, WriteFailed, queueVars, connVars, stopVars
  <2>8. CASE RunLeave \/ RunExit
    BY <2>1, <2>2, <2>8 DEF RunLeave, RunExit, queueVars, connVars
  <2>9. ASSUME NEW m \in writing, ConnWrites(m) PROVE [Box!Next]_(Box!outboxVars)
    <3>1. m = taken /\ Len(delivered) + 1 = taken
      BY <2>9 DEF SenderInv, WritesTheLast
    <3>2. Len(delivered) \in Nat /\ taken \in 0..accepted /\ accepted \in Nat
      BY LenProperties DEF SenderInv, TypeOK
    <3>3. Len(delivered) < accepted
      BY <3>1, <3>2
    <3> QED
      BY <2>9, <3>1, <3>3 DEF ConnWrites, queueVars, stopVars, Box!Next, Box!Deliver
  <2>10. ASSUME NEW m \in writing, ConnFails(m) PROVE [Box!Next]_(Box!outboxVars)
    BY <2>1, <2>10 DEF ConnFails, queueVars, stopVars
  <2>11. CASE TimerExpires \/ UNCHANGED vars
    BY <2>1, <2>11 DEF TimerExpires, queueVars, connVars, stopVars, vars
  <2> QED
    BY <2>3, <2>4, <2>5, <2>6, <2>7, <2>8, <2>9, <2>10, <2>11 DEF Next, Run
<1> QED
  BY <1>1, <1>2, SenderCorrect, PTL DEF Spec, OutboxSpec, Box!Spec
=============================================================================
