------------------------ MODULE EventLoopThreadProofs ------------------------
(***************************************************************************)
(* What TLAPS proves of EventLoopThread, for any functors and handlers:    *)
(* its type invariant, that startLoop misses no notification, that the     *)
(* loop it returns is there until the destructor stops it, and that this   *)
(* loop still never sleeps on work (EventLoopProofs), although its         *)
(* EventLoop comes and goes with the thread.                               *)
(***************************************************************************)
EXTENDS EventLoopThread, EventLoopProofs

\* Who was early can be told from where both are: the thread is past its lock of a mutex
\* the owner has still to construct.
EarlyIsKnown ==
  /\ thread = "start" => ~early
  /\ owner = "constructing" /\ thread # "start" => early

ThreadTypeInv == ThreadTypeOK /\ EarlyIsKnown

\* A step of the loop's own, and a step of the owner on the loop alone.
LoopOnly == UNCHANGED threadVars

LEMMA ThreadTypeStep == ThreadTypeInv /\ [ThreadNext]_allVars => ThreadTypeInv'
<1> SUFFICES ASSUME ThreadTypeInv, [ThreadNext]_allVars PROVE ThreadTypeInv'
  OBVIOUS
<1> USE DEF ThreadTypeInv, ThreadTypeOK, EarlyIsKnown
<1>1. CASE LoopOnly
  BY <1>1 DEF LoopOnly, threadVars
<1>2. CASE LockToPublish
  BY <1>2 DEF LockToPublish, MayStick
<1>3. CASE Publish \/ Unlock \/ ExitThread
  BY <1>3 DEF Publish, Unlock, ExitThread
<1>4. CASE Notify
  BY <1>4 DEF Notify, MayStick
<1>5. CASE ConstructMutex
  BY <1>5 DEF ConstructMutex
<1>6. CASE TestLp \/ Sleep
  <2>1. CASE TestLp
    BY <2>1 DEF TestLp
  <2>2. CASE Sleep
    BY <2>2 DEF Sleep
  <2> QED
    BY <1>6, <2>1, <2>2
<1>10. CASE LockToWait
  BY <1>10 DEF LockToWait
<1>9. CASE Check
  BY <1>9 DEF Check
<1>7. CASE WakesUp
  BY <1>7 DEF WakesUp
<1>8. CASE Destroy \/ Join
  BY <1>8 DEF Destroy, Join
<1> QED
  BY <1>1, <1>2, <1>3, <1>4, <1>5, <1>6, <1>7, <1>8, <1>9, <1>10
  DEF ThreadNext, ThreadFuncStep, OwnerStep, InLoop, LoopOnly, Awake, AwakeForNothing,
      QueueFromOwner, WakeupFromOwner, allVars

\* Unless the thread was early mutex_ does its work: it is held by who is between its
\* lock and unlock, and by nobody else; and lp_ is set on the way to loop().
THEOREM ThreadTypeInvariant == ThreadSpec => []ThreadTypeInv
<1>1. ThreadInit => ThreadTypeInv
  BY DEF ThreadInit, ThreadTypeInv, ThreadTypeOK, EarlyIsKnown
<1> QED
  BY <1>1, ThreadTypeStep, PTL DEF ThreadSpec

\* Every variable has its type and, unless the thread came to the mutex before it was
\* constructed, mutex_ is held by who is between its lock and unlock and by nobody else.
THEOREM ThreadTypeCorrect == ThreadSpec => []ThreadTypeOK
<1>1. ThreadTypeInv => ThreadTypeOK
  BY DEF ThreadTypeInv
<1> QED
  BY <1>1, ThreadTypeInvariant, PTL

-----------------------------------------------------------------------------
\* The predicate of wait is tested and the wait begun under the same mutex as lp_ is set:
\* what the owner found null is null until it sleeps.
WaitIsAtomic ==
  /\ thread \in {"start", "publish"} => ~lp_
  /\ owner = "sleep" /\ ~early => ~lp_

\* The handshake of startLoop and threadFunc: the notification cannot come between the
\* owner's test of lp_ and its wait.
THEOREM NoMissedNotification == ThreadSpec => []NoMissedLoop
<1> DEFINE IInv == WaitIsAtomic /\ NoMissedLoop
<1>1. ThreadInit => IInv
  BY DEF ThreadInit, WaitIsAtomic, NoMissedLoop
<1>2. ThreadTypeInv /\ IInv /\ [ThreadNext]_allVars => IInv'
  <2> SUFFICES ASSUME ThreadTypeInv, IInv, [ThreadNext]_allVars PROVE IInv'
    OBVIOUS
  <2> USE DEF ThreadTypeInv, ThreadTypeOK, EarlyIsKnown, WaitIsAtomic, NoMissedLoop
  <2>1. CASE LoopOnly
    BY <2>1 DEF LoopOnly, threadVars
  <2>2. CASE LockToPublish
    BY <2>2 DEF LockToPublish, MayStick
  <2>3. CASE Publish
    BY <2>3 DEF Publish
  <2>4. CASE Notify
    BY <2>4 DEF Notify, MayStick
  <2>5. CASE Unlock \/ ExitThread
    BY <2>5 DEF Unlock, ExitThread
  <2>6. CASE ConstructMutex \/ TestLp \/ LockToWait \/ Check
    BY <2>6 DEF ConstructMutex, TestLp, LockToWait, Check
  <2>7. CASE Sleep
    BY <2>7 DEF Sleep
  <2>8. CASE WakesUp
    BY <2>8 DEF WakesUp
  <2>9. CASE Destroy \/ Join
    BY <2>9 DEF Destroy, Join
  <2> QED
    BY <2>1, <2>2, <2>3, <2>4, <2>5, <2>6, <2>7, <2>8, <2>9
    DEF ThreadNext, ThreadFuncStep, OwnerStep, InLoop, LoopOnly, Awake, AwakeForNothing,
        QueueFromOwner, WakeupFromOwner, allVars
<1> QED
  BY <1>1, <1>2, ThreadTypeInvariant, PTL DEF ThreadSpec

-----------------------------------------------------------------------------
\* stopLoop_ is set from the start, but loop() clears it; whoever sets it then is the
\* destructor, and loop() returns for no other reason.
StoppedByOwner ==
  /\ thread \notin {"loop", "exited"} => loopPc = "before"
  /\ thread = "exited" => loopPc = "exited"
  /\ loopPc = "exited" \/ (loopPc # "before" /\ stopLoop_) => owner \in {"stopping", "joined"}
  /\ owner = "using" => lp_

\* The EventLoop* that startLoop returns may be used until the destructor is called.
THEOREM LoopIsThere == ThreadSpec => []LoopOutlivesItsUse
<1>1. ThreadInit => StoppedByOwner
  BY DEF ThreadInit, Init, StoppedByOwner
<1>2. StoppedByOwner /\ [ThreadNext]_allVars => StoppedByOwner'
  <2> SUFFICES ASSUME StoppedByOwner, [ThreadNext]_allVars PROVE StoppedByOwner'
    OBVIOUS
  <2> USE DEF StoppedByOwner
  <2>1. CASE InLoop /\ LoopStep
    BY <2>1 DEF InLoop, threadVars, LoopStep, EnterLoop, TestStop, HandleWakeup, SwapPending,
                RunFunctor, FinishPending, ReturnFromUserCode, InUserCode, HandleEvents
  <2>2. CASE InLoop /\ (Poll \/ PollTimeout)
    BY <2>2 DEF InLoop, threadVars, Poll, PollTimeout
  <2>3. ASSUME NEW t \in Tasks, InLoop, QueueFromLoop(t) \/ RunFromLoop(t)
        PROVE  StoppedByOwner'
    BY <2>3 DEF InLoop, threadVars, QueueFromLoop, RunFromLoop
  <2>4. CASE LockToPublish \/ Publish \/ Notify \/ Unlock
    BY <2>4 DEF LockToPublish, Publish, Notify, Unlock, MayStick, loopVars
  <2>5. CASE ExitThread
    BY <2>5 DEF ExitThread, loopVars
  <2>6. CASE ConstructMutex \/ TestLp \/ LockToWait \/ Check \/ Sleep \/ WakesUp \/ Join
    BY <2>6 DEF ConstructMutex, TestLp, LockToWait, Check, Sleep, WakesUp, Join, loopVars
  <2>7. CASE QueueFromOwner
    BY <2>7 DEF QueueFromOwner, QueueFromThread, threadVars
  <2>8. CASE WakeupFromOwner
    BY <2>8 DEF WakeupFromOwner, WakeupFromThread, threadVars
  <2>9. CASE Destroy
    BY <2>9 DEF Destroy, StopFromThread
  <2>10. CASE UNCHANGED allVars
    BY <2>10 DEF allVars, loopVars, threadVars
  <2> QED
    BY <2>1, <2>2, <2>3, <2>4, <2>5, <2>6, <2>7, <2>8, <2>9, <2>10
    DEF ThreadNext, ThreadFuncStep, OwnerStep, Awake, AwakeForNothing
<1>3. StoppedByOwner => LoopOutlivesItsUse
  BY DEF StoppedByOwner, LoopOutlivesItsUse
<1> QED
  BY <1>1, <1>2, <1>3, PTL DEF ThreadSpec

-----------------------------------------------------------------------------
\* Until the thread has left loop(), every step is one of EventLoop, or none of its.
LEMMA StepsOfEventLoop ==
  ASSUME [ThreadNext]_allVars
  PROVE  \/ [Next]_vars
         \/ /\ thread = "exited" /\ threadPc[Owner] = "wakeup"
            /\ threadPc' = [threadPc EXCEPT ![Owner] = "idle"]
            /\ UNCHANGED <<stopLoop_, callingPendingunctors_, wakeupFd_, pendingFuncs_,
                           activeQueue_, funcs, loopPc, fresh, ran>>
<1>0. Owner \in Threads
  BY OwnerAssumption
<1>1. CASE InLoop /\ (LoopStep \/ Poll \/ PollTimeout)
  BY <1>1 DEF Next
<1>2. ASSUME NEW t \in Tasks, QueueFromLoop(t) \/ RunFromLoop(t)
      PROVE  Next
  BY <1>2 DEF Next, UserStep
<1>3. CASE QueueFromOwner
  BY <1>0, <1>3 DEF QueueFromOwner, Next, ThreadStep
<1>4. CASE WakeupFromOwner /\ thread # "exited"
  BY <1>0, <1>4 DEF WakeupFromOwner, Next, ThreadStep
<1>5. CASE WakeupFromOwner /\ thread = "exited"
  BY <1>5 DEF WakeupFromOwner
<1>6. CASE Destroy
  BY <1>0, <1>6 DEF Destroy, Next, ThreadStep
<1>7. CASE \/ LockToPublish \/ Publish \/ Notify \/ Unlock \/ ExitThread
           \/ ConstructMutex \/ TestLp \/ LockToWait \/ Check \/ Sleep \/ WakesUp \/ Join
           \/ UNCHANGED allVars
  <2>1. UNCHANGED loopVars
    BY <1>7 DEF LockToPublish, Publish, Notify, Unlock, ExitThread, ConstructMutex, TestLp,
                LockToWait, Check, Sleep, WakesUp, Join, allVars
  <2> QED
    BY <2>1 DEF loopVars, vars
<1> QED
  BY <1>1, <1>2, <1>3, <1>4, <1>5, <1>6, <1>7
  DEF ThreadNext, ThreadFuncStep, OwnerStep, Awake, AwakeForNothing

\* The promise of the loop survives its thread: in a worker's EventLoop, too, nothing
\* is queued, and no stop asked for, without a wakeup on its way to epoll_wait, although
\* the last wakeup of the owner may go to a closed eventfd.
THEOREM WorkerNeverSleepsOnWork == ThreadSpec => []NeverSleepsOnWork
<1> DEFINE IInv == TypeOK /\ (WorkHasWakeup \/ loopPc = "exited")
           Gone == thread = "exited" => loopPc = "exited"
<1>1. ThreadInit => IInv /\ Gone
  BY EmptySeq DEF ThreadInit, Init, TypeOK, LoopPcs, WorkHasWakeup
<1>2. IInv /\ Gone /\ [ThreadNext]_allVars => IInv'
  <2> SUFFICES ASSUME IInv, Gone, [ThreadNext]_allVars PROVE IInv'
    OBVIOUS
  <2>1. CASE [Next]_vars
    <3>1. TypeOK'
      BY <2>1, TypeStep
    <3>2. CASE WorkHasWakeup
      BY <2>1, <3>1, <3>2, WakeupStep
    <3>3. CASE loopPc = "exited"
      <4>1. loopPc' = "exited"
        BY <2>1, <3>3
        DEF Next, LoopStep, UserStep, ThreadStep, EnterLoop, TestStop, HandleWakeup,
            SwapPending, RunFunctor, FinishPending, ReturnFromUserCode, InUserCode,
            HandleEvents, Poll, PollTimeout, StopFromLoop, QueueFromLoop, RunFromLoop,
            QueueFromThread, StopFromThread, WakeupFromThread, vars
      <4> QED
        BY <3>1, <4>1
    <3> QED
      BY <3>2, <3>3
  <2>2. CASE /\ thread = "exited" /\ threadPc[Owner] = "wakeup"
             /\ threadPc' = [threadPc EXCEPT ![Owner] = "idle"]
             /\ UNCHANGED <<stopLoop_, callingPendingunctors_, wakeupFd_, pendingFuncs_,
                            activeQueue_, funcs, loopPc, fresh, ran>>
    BY <2>2 DEF TypeOK
  <2> QED
    BY <2>1, <2>2, StepsOfEventLoop
<1>3. Gone /\ IInv /\ [ThreadNext]_allVars => Gone'
  <2> SUFFICES ASSUME Gone, [ThreadNext]_allVars PROVE Gone'
    OBVIOUS
  <2>1. CASE ExitThread
    BY <2>1 DEF ExitThread, loopVars
  <2>2. CASE ~ExitThread /\ thread' = "exited"
    <3>1. thread = "exited"
      BY <2>2 DEF ThreadNext, ThreadFuncStep, OwnerStep, Awake, AwakeForNothing, InLoop,
                  LockToPublish, Publish, Notify, Unlock, ConstructMutex, TestLp, LockToWait,
                  Check, Sleep, WakesUp, Join, QueueFromOwner, WakeupFromOwner, Destroy,
                  MayStick, threadVars, allVars
    <3>2. loopPc' = loopPc
      BY <2>2, <3>1
      DEF ThreadNext, ThreadFuncStep, OwnerStep, Awake, AwakeForNothing, InLoop,
          LockToPublish, Publish, Notify, Unlock, ConstructMutex, TestLp, LockToWait,
          Check, Sleep, WakesUp, Join, QueueFromOwner, WakeupFromOwner, Destroy,
          QueueFromThread, WakeupFromThread, StopFromThread, loopVars, allVars
    <3> QED
      BY <3>1, <3>2
  <2> QED
    BY <2>1, <2>2
<1>4. IInv => NeverSleepsOnWork
  BY DEF WorkHasWakeup, NeverSleepsOnWork
<1> QED
  BY <1>1, <1>2, <1>3, <1>4, PTL DEF ThreadSpec
=============================================================================
