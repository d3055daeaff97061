--------------------------- MODULE EventLoopThread ---------------------------
(***************************************************************************)
(* An EventLoopThread (src/src/reactor/EventLoopThread.cpp) from its       *)
(* constructor to its destructor, around the EventLoop its thread runs:    *)
(* EventLoopThreadPool::start constructs one after the other, waits in     *)
(* startLoop for its EventLoop and hands that out; the pool's destructor   *)
(* stops and joins them.                                                   *)
(*                                                                         *)
(* The members are initialised in the order of their declaration, so the   *)
(* thread runs before mutex_ and cond_ exist.  Until then they are what    *)
(* the memory held: a mutex the thread can lock, or one it never can;      *)
(* their constructors then make the mutex free, whoever holds it.          *)
(*                                                                         *)
(* The EventLoop is on the thread's stack and gone when threadFunc is.     *)
(* The owner hands functors to it only between startLoop and the           *)
(* destructor, and no functor stops a worker's loop: so it is in TcpServer.*)
(***************************************************************************)
EXTENDS EventLoop

CONSTANT Owner    \* the thread that has the pool

ASSUME OwnerAssumption == Threads = {Owner}

VARIABLES
  lp_,        \* TRUE: it points to the thread's EventLoop, FALSE: null
  mutex_,     \* who holds it, or "none"
  notified,   \* cond_ has been notified since the owner began to wait
  owner,      \* "constructing"; in startLoop "test", "lock", "check", "sleep", "waiting";
              \* "using"; in the destructor "stopping"; "joined"
  thread,     \* in threadFunc "start", "publish", "notify", "unlock", "loop"; "exited";
              \* "stuck" in what was not a mutex, or not a condition variable, yet
  early       \* history: the thread came to mutex_ before it was constructed

loopVars == <<stopLoop_, callingPendingunctors_, wakeupFd_, pendingFuncs_, activeQueue_,
              funcs, loopPc, threadPc, fresh, ran>>
threadVars == <<lp_, mutex_, notified, owner, thread, early>>
allVars == <<loopVars, threadVars>>

ThreadInit ==
  /\ Init
  /\ lp_ = FALSE
  /\ mutex_ = "none"
  /\ notified = FALSE
  /\ owner = "constructing"
  /\ thread = "start"
  /\ early = FALSE

-----------------------------------------------------------------------------
(* threadFunc.                                                             *)

\* Before mutex_ or cond_ is constructed a call may go well, or never return.
MayStick(pc) == IF owner = "constructing" THEN {pc, "stuck"} ELSE {pc}

\* Slip: lp_ is set without the mutex.
PublishUnlocked ==
  /\ thread = "start"
  /\ lp_' = TRUE
  /\ thread' = "notify"
  /\ UNCHANGED <<loopVars, mutex_, notified, owner, early>>

LockToPublish ==
  /\ thread = "start" /\ mutex_ = "none"
  /\ thread' \in MayStick("publish")
  /\ mutex_' = IF thread' = "stuck" THEN mutex_ ELSE "thread"
  /\ early' = (owner = "constructing")
  /\ UNCHANGED <<loopVars, lp_, notified, owner>>

Publish ==
  /\ thread = "publish"
  /\ lp_' = TRUE
  /\ thread' = "notify"
  /\ UNCHANGED <<loopVars, mutex_, notified, owner, early>>

\* Slip: nobody is notified.
NotifyNobody ==
  /\ thread = "notify"
  /\ thread' \in MayStick("unlock")
  /\ UNCHANGED <<loopVars, lp_, mutex_, notified, owner, early>>

Notify ==
  /\ thread = "notify"
  /\ thread' \in MayStick("unlock")
  /\ notified' = (notified \/ owner = "waiting")
  /\ UNCHANGED <<loopVars, lp_, mutex_, owner, early>>

Unlock ==
  /\ thread = "unlock"
  /\ mutex_' = "none"
  /\ thread' = "loop"
  /\ UNCHANGED <<loopVars, lp_, notified, owner, early>>

\* loop() has returned: the EventLoop is destroyed and its eventfd closed.
ExitThread ==
  /\ thread = "loop" /\ loopPc = "exited"
  /\ thread' = "exited"
  /\ UNCHANGED <<loopVars, lp_, mutex_, notified, owner, early>>

-----------------------------------------------------------------------------
(* The owner: the constructor and startLoop.                               *)

ConstructMutex ==
  /\ owner = "constructing"
  /\ mutex_' = "none"
  /\ owner' = "test"
  /\ UNCHANGED <<loopVars, lp_, notified, thread, early>>

\* `while' reads lp_ without the mutex.
TestLp ==
  /\ owner = "test"
  /\ owner' = IF lp_ THEN "using" ELSE "lock"
  /\ UNCHANGED <<loopVars, lp_, mutex_, notified, thread, early>>

LockToWait ==
  /\ owner = "lock" /\ mutex_ = "none"
  /\ mutex_' = "owner"
  /\ owner' = "check"
  /\ UNCHANGED <<loopVars, lp_, notified, thread, early>>

\* wait's predicate ...
Check ==
  /\ owner = "check"
  /\ owner' = IF lp_ THEN "test" ELSE "sleep"
  /\ mutex_' = IF lp_ THEN "none" ELSE mutex_
  /\ UNCHANGED <<loopVars, lp_, notified, thread, early>>

\* Slip: it keeps the mutex.
SleepLocked ==
  /\ owner = "sleep"
  /\ owner' = "waiting"
  /\ notified' = FALSE
  /\ UNCHANGED <<loopVars, lp_, mutex_, thread, early>>

\* ... and the wait itself, which releases the mutex.
Sleep ==
  /\ owner = "sleep"
  /\ owner' = "waiting"
  /\ mutex_' = "none"
  /\ notified' = FALSE
  /\ UNCHANGED <<loopVars, lp_, thread, early>>

WakesUp ==
  /\ owner = "waiting" /\ mutex_ = "none"
  /\ mutex_' = "owner"
  /\ owner' = "check"
  /\ UNCHANGED <<loopVars, lp_, notified, thread, early>>

Awake == notified /\ WakesUp

\* A condition variable may wake up for nothing.
AwakeForNothing == ~notified /\ WakesUp

-----------------------------------------------------------------------------
(* The owner: the loop's user, and ~EventLoopThread.                       *)

QueueFromOwner ==
  /\ owner = "using"
  /\ \E t \in Tasks : QueueFromThread(Owner, t)
  /\ UNCHANGED threadVars

\* A wakeup that comes when the EventLoop is gone goes to a closed eventfd, and its
\* failure is not noticed: -1 is not less than sizeof(one).
WakeupFromOwner ==
  /\ \/ thread # "exited" /\ WakeupFromThread(Owner)
     \/ /\ thread = "exited" /\ threadPc[Owner] = "wakeup"
        /\ threadPc' = [threadPc EXCEPT ![Owner] = "idle"]
        /\ UNCHANGED <<stopLoop_, callingPendingunctors_, wakeupFd_, pendingFuncs_,
                       activeQueue_, funcs, loopPc, fresh, ran>>
  /\ UNCHANGED threadVars

Destroy ==
  /\ owner = "using"
  /\ StopFromThread(Owner)
  /\ owner' = "stopping"
  /\ UNCHANGED <<lp_, mutex_, notified, thread, early>>

Join ==
  /\ owner = "stopping" /\ threadPc[Owner] = "idle"
  /\ thread = "exited"
  /\ owner' = "joined"
  /\ UNCHANGED <<loopVars, lp_, mutex_, notified, thread, early>>

-----------------------------------------------------------------------------
\* What the thread does in loop(), in functors and callbacks too.
InLoop == thread = "loop" /\ UNCHANGED threadVars

ThreadFuncStep ==
  \/ LockToPublish \/ Publish \/ Notify \/ Unlock \/ ExitThread
  \/ InLoop /\ LoopStep

OwnerStep ==
  \/ ConstructMutex
  \/ TestLp \/ LockToWait \/ Check \/ Sleep \/ Awake
  \/ WakeupFromOwner \/ Join

ThreadNext ==
  \/ ThreadFuncStep \/ OwnerStep
  \/ AwakeForNothing \/ QueueFromOwner \/ Destroy
  \/ InLoop /\ (Poll \/ PollTimeout)
  \/ InLoop /\ \E t \in Tasks : QueueFromLoop(t) \/ RunFromLoop(t)

ThreadSpec == ThreadInit /\ [][ThreadNext]_allVars

\* Both threads run when they can, and the loop's leaves epoll_wait when its eventfd is
\* readable (not: after 500 ms).  An owner that wakes up for nothing again and again does
\* not keep the mutex from the thread.  The owner need neither use the loop nor destroy it.
FairThreadSpec ==
  /\ ThreadSpec
  /\ WF_allVars(ThreadFuncStep \/ (InLoop /\ wakeupFd_ /\ Poll))
  /\ SF_allVars(LockToPublish)
  /\ WF_allVars(OwnerStep)

-----------------------------------------------------------------------------
(* Properties.                                                             *)

\* Every variable has its type, lp_ is set on the way to loop(), and, unless the thread
\* was early, mutex_ is held by who is between its lock and unlock, and by nobody else.
ThreadTypeOK ==
  /\ lp_ \in BOOLEAN /\ notified \in BOOLEAN /\ early \in BOOLEAN
  /\ mutex_ \in {"none", "owner", "thread"}
  /\ owner \in {"constructing", "test", "lock", "check", "sleep", "waiting", "using",
                "stopping", "joined"}
  /\ thread \in {"start", "publish", "notify", "unlock", "loop", "exited", "stuck"}
  /\ thread \in {"notify", "unlock", "loop", "exited"} => lp_
  /\ ~early =>
       /\ (mutex_ = "owner") <=> owner \in {"check", "sleep"}
       /\ (mutex_ = "thread") <=> thread \in {"publish", "notify", "unlock"}

\* From the return of startLoop until the destructor stops it, the EventLoop that the
\* pool hands out is there: loop() does not return by itself, although it is
\* constructed with stopLoop_ set.
LoopOutlivesItsUse == owner = "using" => lp_ /\ thread # "exited"

\* The owner does not sleep in startLoop on a loop that is there without being notified,
\* unless the thread was early: then the notification may have come between the test
\* of lp_ and the wait.
NoMissedLoop == owner = "waiting" /\ lp_ /\ ~early => notified \/ thread = "notify"

\* startLoop returns, unless the thread was early.
StartLoopReturns == (owner = "test") ~> (owner = "using" \/ early)

\* The request to stop was made before loop() was entered, which has forgotten it.
StopForgotten == owner = "stopping" /\ ~stopLoop_

\* The destructor returns, without help of the poll timeout, unless its request to stop
\* the loop is lost because loop() had not been entered (or the thread was early).
DestructorReturns == (owner = "stopping") ~> (owner = "joined" \/ StopForgotten \/ early)
=============================================================================
