--------------------------- MODULE EventLoopProofs ---------------------------
(***************************************************************************)
(* What TLAPS proves of EventLoop, for any number of threads, functors and *)
(* handlers: its type invariant, that the loop thread never sleeps on      *)
(* work, and that every step implements a step of TaskQueue.               *)
(***************************************************************************)
EXTENDS EventLoop, SequenceTheorems, TLAPS

\* TypeOK is inductive by itself: every action of the loop, of user code in it and
\* of the other threads keeps the types and the phase of the per-iteration data.
LEMMA TypeStep == TypeOK /\ [Next]_vars => TypeOK'
<1> SUFFICES ASSUME TypeOK, [Next]_vars PROVE TypeOK'
  OBVIOUS
<1> USE DEF TypeOK, LoopPcs
<1>1. CASE EnterLoop
  BY <1>1 DEF EnterLoop
<1>2. CASE TestStop
  BY <1>2 DEF TestStop
<1>3. CASE HandleWakeup
  BY <1>3 DEF HandleWakeup
<1>4. CASE SwapPending
  BY <1>4 DEF SwapPending
<1>5. CASE RunFunctor
  <2>1. /\ Head(funcs) \in Tasks
        /\ Tail(funcs) \in Seq(Tasks)
    BY <1>5 DEF RunFunctor
  <2> QED
    BY <1>5, <2>1 DEF RunFunctor
<1>6. CASE FinishPending
  BY <1>6 DEF FinishPending
<1>7. CASE ReturnFromUserCode
  BY <1>7 DEF ReturnFromUserCode, InUserCode
<1>8. CASE \E h \in Handlers : HandleEvents(h)
  BY <1>8 DEF HandleEvents
<1>9. CASE Poll
  <2>1. activeQueue_' \subseteq Handlers \cup {Wakeup}
    BY <1>9 DEF Poll
  <2> QED
    BY <1>9, <2>1 DEF Poll
<1>10. CASE PollTimeout
  BY <1>10 DEF PollTimeout
<1>11. CASE StopFromLoop
  BY <1>11 DEF StopFromLoop
<1>12. ASSUME NEW t \in Tasks, QueueFromLoop(t) PROVE TypeOK'
  BY <1>12, AppendProperties DEF QueueFromLoop
<1>13. ASSUME NEW t \in Tasks, RunFromLoop(t) PROVE TypeOK'
  BY <1>13, AppendProperties DEF RunFromLoop
<1>14. ASSUME NEW f \in Threads, StopFromThread(f) PROVE TypeOK'
  BY <1>14 DEF StopFromThread
<1>15. ASSUME NEW f \in Threads, WakeupFromThread(f) PROVE TypeOK'
  BY <1>15 DEF WakeupFromThread
<1>16. ASSUME NEW f \in Threads, NEW t \in Tasks, QueueFromThread(f, t) PROVE TypeOK'
  BY <1>16, AppendProperties DEF QueueFromThread
<1>17. CASE UNCHANGED vars
  BY <1>17 DEF vars
<1> QED
  BY <1>1, <1>2, <1>3, <1>4, <1>5, <1>6, <1>7, <1>8, <1>9, <1>10, <1>11, <1>12, <1>13,
     <1>14, <1>15, <1>16, <1>17
  DEF Next, LoopStep, UserStep, ThreadStep

\* The loop's state is well formed in every behaviour.
THEOREM TypeInvariant == Spec => []TypeOK
<1>1. Init => TypeOK
  BY EmptySeq DEF Init, TypeOK, LoopPcs
<1> QED
  BY <1>1, TypeStep, PTL DEF Spec

-----------------------------------------------------------------------------
\* The lost-wakeup argument.  A push leaves a wakeup due: the pushing thread has
\* still to write, or the owner wrote because callingPendingunctors_ was up.  Only
\* HandleWakeup consumes it, and it runs before the doPendingFuncs_ of the same
\* iteration; a push by the owner outside doPendingFuncs_ is followed by it too.
LEMMA WakeupStep == TypeOK /\ WorkHasWakeup /\ [Next]_vars => WorkHasWakeup'
<1> SUFFICES ASSUME TypeOK, WorkHasWakeup, [Next]_vars PROVE WorkHasWakeup'
  OBVIOUS
<1> USE DEF WorkHasWakeup, WakeupDue
<1>1. CASE EnterLoop
  BY <1>1 DEF EnterLoop
<1>2. CASE TestStop
  BY <1>2 DEF TestStop
<1>3. CASE HandleWakeup
  BY <1>3 DEF HandleWakeup
<1>4. CASE SwapPending
  BY <1>4 DEF SwapPending
<1>5. CASE RunFunctor \/ FinishPending
  BY <1>5 DEF RunFunctor, FinishPending
<1>6. CASE ReturnFromUserCode
  BY <1>6 DEF ReturnFromUserCode, InUserCode
<1>7. CASE \E h \in Handlers : HandleEvents(h)
  BY <1>7 DEF HandleEvents
<1>8. CASE Poll \/ PollTimeout
  BY <1>8 DEF Poll, PollTimeout
<1>9. ASSUME NEW t \in Tasks, QueueFromLoop(t) PROVE WorkHasWakeup'
  <2>1. CASE loopPc = "callback"
    BY <1>9, <2>1 DEF QueueFromLoop
  <2>2. CASE loopPc = "functor"
    BY <1>9, <2>2 DEF QueueFromLoop, TypeOK
  <2> QED
    BY <1>9, <2>1, <2>2 DEF QueueFromLoop, InUserCode
<1>10. ASSUME NEW t \in Tasks, RunFromLoop(t) PROVE WorkHasWakeup'
  BY <1>10 DEF RunFromLoop
<1>11. CASE StopFromLoop
  BY <1>11 DEF StopFromLoop, InUserCode
<1>12. ASSUME NEW f \in Threads, StopFromThread(f) PROVE WorkHasWakeup'
  <2>1. threadPc'[f] = "wakeup"
    BY <1>12 DEF StopFromThread, TypeOK
  <2> QED
    BY <1>12, <2>1
<1>13. ASSUME NEW f \in Threads, WakeupFromThread(f) PROVE WorkHasWakeup'
  BY <1>13 DEF WakeupFromThread
<1>14. ASSUME NEW f \in Threads, NEW t \in Tasks, QueueFromThread(f, t)
       PROVE WorkHasWakeup'
  <2>1. threadPc'[f] = "wakeup"
    BY <1>14 DEF QueueFromThread, TypeOK
  <2> QED
    BY <1>14, <2>1
<1>15. CASE UNCHANGED vars
  BY <1>15 DEF vars
<1> QED
  BY <1>1, <1>2, <1>3, <1>4, <1>5, <1>6, <1>7, <1>8, <1>9, <1>10, <1>11, <1>12,
     <1>13, <1>14, <1>15 DEF Next, LoopStep, UserStep, ThreadStep

\* In epoll_wait the loop's thread has no functor queued and no stop asked for without
\* a wakeup on its way.
THEOREM NoLostWakeup == Spec => [](WorkHasWakeup /\ NeverSleepsOnWork)
<1>1. Init => WorkHasWakeup
  BY DEF Init, WorkHasWakeup
<1>2. WorkHasWakeup => NeverSleepsOnWork
  BY DEF WorkHasWakeup, NeverSleepsOnWork
<1> QED
  BY <1>1, <1>2, WakeupStep, TypeInvariant, PTL DEF Spec

-----------------------------------------------------------------------------
\* Moving the head of the batch, or adding to the queue behind it, moves the head
\* of, or adds to, the whole line of waiting functors.
LEMMA TailOfConcat ==
  ASSUME NEW S, NEW s \in Seq(S), NEW u \in Seq(S), s # <<>>
  PROVE  /\ s \o u # <<>>
         /\ Head(s \o u) = Head(s)
         /\ Tail(s \o u) = Tail(s) \o u
<1>1. /\ s \o u \in Seq(S)
      /\ Len(s \o u) = Len(s) + Len(u)
      /\ \A i \in 1 .. Len(s) + Len(u) :
           (s \o u)[i] = IF i <= Len(s) THEN s[i] ELSE u[i - Len(s)]
  BY ConcatProperties
<1>2. Len(s) \in Nat \ {0} /\ Len(u) \in Nat
  BY EmptySeq, LenProperties
<1>3. s \o u # <<>>
  BY <1>1, <1>2, EmptySeq
<1>4. Head(s \o u) = Head(s)
  BY <1>1, <1>2, <1>3
<1>5. /\ Tail(s) \in Seq(S)
      /\ Len(Tail(s)) = Len(s) - 1
      /\ \A i \in 1 .. Len(Tail(s)) : Tail(s)[i] = s[i+1]
  BY HeadTailProperties
<1>6. /\ Tail(s \o u) \in Seq(S)
      /\ Len(Tail(s \o u)) = Len(s) + Len(u) - 1
      /\ \A i \in 1 .. Len(s) + Len(u) - 1 : Tail(s \o u)[i] = (s \o u)[i+1]
  BY <1>1, <1>3, HeadTailProperties
<1>7. /\ Tail(s) \o u \in Seq(S)
      /\ Len(Tail(s) \o u) = Len(s) - 1 + Len(u)
      /\ \A i \in 1 .. Len(s) - 1 + Len(u) :
           (Tail(s) \o u)[i] = IF i <= Len(s) - 1 THEN Tail(s)[i] ELSE u[i - (Len(s) - 1)]
  BY <1>5, ConcatProperties
<1>8. ASSUME NEW i \in 1 .. Len(Tail(s \o u))
      PROVE  Tail(s \o u)[i] = (Tail(s) \o u)[i]
  <2>1. i \in 1 .. Len(s) + Len(u) - 1 /\ i + 1 \in 1 .. Len(s) + Len(u)
    BY <1>2, <1>6
  <2>2. Tail(s \o u)[i] = IF i + 1 <= Len(s) THEN s[i+1] ELSE u[i + 1 - Len(s)]
    BY <1>1, <1>6, <2>1
  <2>3. CASE i <= Len(s) - 1
    BY <1>2, <1>5, <1>7, <2>1, <2>2, <2>3
  <2>4. CASE ~(i <= Len(s) - 1)
    <3>1. i + 1 - Len(s) = i - (Len(s) - 1)
      BY <1>2, <2>1
    <3> QED
      BY <1>2, <1>7, <2>1, <2>2, <2>4, <3>1
  <2> QED
    BY <2>3, <2>4
<1>9. Tail(s \o u) = Tail(s) \o u
  <2>1. Len(Tail(s \o u)) = Len(Tail(s) \o u)
    BY <1>2, <1>6, <1>7
  <2> QED
    BY <1>6, <1>7, <1>8, <2>1, SeqEqual
<1> QED
  BY <1>3, <1>4, <1>9

LEMMA AppendOfConcat ==
  ASSUME NEW S, NEW s \in Seq(S), NEW u \in Seq(S), NEW e \in S
  PROVE  s \o Append(u, e) = Append(s \o u, e)
<1>1. s \o u \in Seq(S) /\ <<e>> \in Seq(S)
  BY ConcatProperties
<1>2. Append(u, e) = u \o <<e>> /\ Append(s \o u, e) = (s \o u) \o <<e>>
  BY <1>1, AppendIsConcat
<1> QED
  BY <1>1, <1>2, ConcatAssociative

\* EventLoop implements TaskQueue: what is left of the batch followed by
\* pendingFuncs_ is one FIFO, and swapping the two is invisible.
THEOREM Refinement == Spec => RefinesTaskQueue
<1>1. Init => TaskQueue!Init
  <2>1. Init => funcs \o pendingFuncs_ = <<>>
    BY EmptySeq, ConcatEmptySeq DEF Init
  <2> QED
    BY <2>1 DEF Init, TaskQueue!Init
<1>2. TypeOK /\ [Next]_vars => [TaskQueue!Next]_(TaskQueue!vars)
  <2> SUFFICES ASSUME TypeOK, [Next]_vars
               PROVE  TaskQueue!Next \/ UNCHANGED TaskQueue!vars
    BY DEF TypeOK
  <2> DEFINE waiting == funcs \o pendingFuncs_
             open == loopPc # "exited"
  <2>0. /\ funcs \in Seq(Tasks)
        /\ pendingFuncs_ \in Seq(Tasks)
    BY DEF TypeOK
  <2>1. CASE TestStop
    <3>1. CASE stopLoop_
      BY <2>1, <3>1 DEF TestStop, TaskQueue!Next, TaskQueue!Close
    <3>2. CASE ~stopLoop_
      BY <2>1, <3>2 DEF TestStop, TaskQueue!vars
    <3> QED
      BY <3>1, <3>2
  <2>2. CASE SwapPending
    <3>1. funcs = <<>>
      BY <2>2 DEF SwapPending, TypeOK
    <3>2. waiting' = waiting
      BY <2>0, <2>2, <3>1, ConcatEmptySeq DEF SwapPending
    <3> QED
      BY <2>2, <3>2 DEF SwapPending, TaskQueue!vars
  <2>3. CASE RunFunctor
    <3>1. /\ waiting # <<>>
          /\ Head(waiting) = Head(funcs)
          /\ Tail(waiting) = Tail(funcs) \o pendingFuncs_
      BY <2>0, <2>3, TailOfConcat DEF RunFunctor
    <3> QED
      BY <2>3, <3>1 DEF RunFunctor, TaskQueue!Next, TaskQueue!Execute
  <2>4. ASSUME NEW t \in Tasks, QueueFromLoop(t) PROVE TaskQueue!Next
    <3>1. waiting' = Append(waiting, t)
      BY <2>0, <2>4, AppendOfConcat DEF QueueFromLoop
    <3> QED
      BY <2>4, <3>1 DEF QueueFromLoop, TaskQueue!Next, TaskQueue!Submit
  <2>5. ASSUME NEW f \in Threads, NEW t \in Tasks, QueueFromThread(f, t)
        PROVE TaskQueue!Next
    <3>1. waiting' = Append(waiting, t)
      BY <2>0, <2>5, AppendOfConcat DEF QueueFromThread
    <3> QED
      BY <2>5, <3>1 DEF QueueFromThread, TaskQueue!Next, TaskQueue!Submit
  <2>6. ASSUME NEW t \in Tasks, RunFromLoop(t) PROVE TaskQueue!Next
    BY <2>6 DEF RunFromLoop, InUserCode, TaskQueue!Next, TaskQueue!RunNow
  <2>7. CASE EnterLoop \/ HandleWakeup \/ FinishPending \/ Poll \/ PollTimeout
    BY <2>7 DEF EnterLoop, HandleWakeup, FinishPending, Poll, PollTimeout, TaskQueue!vars
  <2>8. CASE ReturnFromUserCode \/ StopFromLoop \/ \E h \in Handlers : HandleEvents(h)
    BY <2>8 DEF ReturnFromUserCode, StopFromLoop, HandleEvents, InUserCode, TaskQueue!vars
  <2>9. ASSUME NEW f \in Threads, StopFromThread(f) \/ WakeupFromThread(f)
        PROVE UNCHANGED TaskQueue!vars
    BY <2>9 DEF StopFromThread, WakeupFromThread, TaskQueue!vars
  <2>10. CASE UNCHANGED vars
    BY <2>10 DEF vars, TaskQueue!vars
  <2> QED
    BY <2>1, <2>2, <2>3, <2>4, <2>5, <2>6, <2>7, <2>8, <2>9, <2>10
    DEF Next, LoopStep, UserStep, ThreadStep
<1> QED
  BY <1>1, <1>2, TypeInvariant, PTL DEF Spec, RefinesTaskQueue, TaskQueue!Spec
=============================================================================
