------------------------------ MODULE EventLoop ------------------------------
(***************************************************************************)
(* One EventLoop (src/src/reactor/EventLoop.cpp) with the thread that runs *)
(* loop() and other threads that call queueInLoop, runInLoop and stopLoop  *)
(* on it.  The loop thread sleeps in epoll_wait; the others wake it up by  *)
(* writing to an eventfd after they have pushed their functor, or set      *)
(* stopLoop_, in a step of their own.                                      *)
(*                                                                         *)
(* wakeupFd_ is the readability of the eventfd: its counter is only ever   *)
(* incremented (wakeup) and read, which resets it (handleWakeup), and      *)
(* nothing looks at its value.  The functors and the callbacks of the      *)
(* other handlers are user code: while one runs, the loop thread may queue *)
(* functors, run them directly and stop the loop, any number of times.     *)
(***************************************************************************)
EXTENDS Naturals, Sequences

CONSTANTS
  Threads,    \* the threads other than the loop's own that use the loop
  Tasks,      \* the functors, each handed over at most once
  Handlers,   \* the handlers registered with the poller besides wakeupHandler_
  Wakeup      \* wakeupHandler_

ASSUME WakeupAssumption == Wakeup \notin Handlers

VARIABLES
  stopLoop_,
  callingPendingunctors_,
  wakeupFd_,      \* the eventfd is readable: its counter is not zero
  pendingFuncs_,  \* guarded by lpMutex_ in the code
  activeQueue_,   \* handlers poll() returned and not yet served; the kernel orders them
  funcs,          \* the local batch of doPendingFuncs_, what is left of it
  loopPc,         \* where the loop thread is
  threadPc,       \* where each other thread is
  fresh,          \* functors not handed over yet
  ran             \* history: the functors started, oldest first

vars == <<stopLoop_, callingPendingunctors_, wakeupFd_, pendingFuncs_,
          activeQueue_, funcs, loopPc, threadPc, fresh, ran>>

\* "before" loop() is entered; "test" at the while; "poll" in epoll_wait;
\* "handle" between two handlers; "callback" inside one; "batch" between two
\* functors; "functor" inside one; "exited" after loop() has returned.
LoopPcs == {"before", "test", "poll", "handle", "callback", "batch", "functor", "exited"}

Init ==
  /\ stopLoop_ = TRUE
  /\ callingPendingunctors_ = FALSE
  /\ wakeupFd_ = FALSE
  /\ pendingFuncs_ = <<>>
  /\ activeQueue_ = {}
  /\ funcs = <<>>
  /\ loopPc = "before"
  /\ threadPc = [f \in Threads |-> "idle"]
  /\ fresh = Tasks
  /\ ran = <<>>

-----------------------------------------------------------------------------
(* The loop thread, in loop().                                             *)

\* Slip: stopLoop_ is left as the constructor set it.
EnterLoopStopped ==
  /\ loopPc = "before"
  /\ loopPc' = "test"
  /\ UNCHANGED <<stopLoop_, callingPendingunctors_, wakeupFd_, pendingFuncs_, activeQueue_,
                 funcs, threadPc, fresh, ran>>

\* loop() clears stopLoop_ before its first test of it.
EnterLoop ==
  /\ loopPc = "before"
  /\ stopLoop_' = FALSE
  /\ loopPc' = "test"
  /\ UNCHANGED <<callingPendingunctors_, wakeupFd_, pendingFuncs_, activeQueue_,
                 funcs, threadPc, fresh, ran>>

TestStop ==
  /\ loopPc = "test"
  /\ loopPc' = IF stopLoop_ THEN "exited" ELSE "poll"
  /\ UNCHANGED <<stopLoop_, callingPendingunctors_, wakeupFd_, pendingFuncs_,
                 activeQueue_, funcs, threadPc, fresh, ran>>

\* epoll_wait is level-triggered: it may return any of the ready handlers, at
\* most maxEventNum_ of them; the other handlers are ready when the network says.
Poll ==
  /\ loopPc = "poll"
  /\ \E ready \in SUBSET (Handlers \cup (IF wakeupFd_ THEN {Wakeup} ELSE {})) :
       /\ ready # {}
       /\ activeQueue_' = ready
  /\ loopPc' = "handle"
  /\ UNCHANGED <<stopLoop_, callingPendingunctors_, wakeupFd_, pendingFuncs_,
                 funcs, threadPc, fresh, ran>>

\* timeOut_ expires, or epoll_wait is interrupted, and nothing is active.
PollTimeout ==
  /\ loopPc = "poll"
  /\ activeQueue_' = {}
  /\ loopPc' = "handle"
  /\ UNCHANGED <<stopLoop_, callingPendingunctors_, wakeupFd_, pendingFuncs_,
                 funcs, threadPc, fresh, ran>>

HandleWakeup ==
  /\ loopPc = "handle"
  /\ Wakeup \in activeQueue_
  /\ activeQueue_' = activeQueue_ \ {Wakeup}
  /\ wakeupFd_' = FALSE
  /\ UNCHANGED <<stopLoop_, callingPendingunctors_, pendingFuncs_, funcs, loopPc,
                 threadPc, fresh, ran>>

HandleEvents(h) ==
  /\ loopPc = "handle"
  /\ h \in activeQueue_
  /\ activeQueue_' = activeQueue_ \ {h}
  /\ loopPc' = "callback"
  /\ UNCHANGED <<stopLoop_, callingPendingunctors_, wakeupFd_, pendingFuncs_, funcs,
                 threadPc, fresh, ran>>

\* Slip: the handlers of an iteration are not all served before its batch.
SwapPendingEarly ==
  /\ loopPc = "handle"
  /\ callingPendingunctors_' = TRUE
  /\ funcs' = pendingFuncs_
  /\ pendingFuncs_' = <<>>
  /\ loopPc' = "batch"
  /\ UNCHANGED <<stopLoop_, wakeupFd_, activeQueue_, threadPc, fresh, ran>>

\* Slip: the batch is copied, not swapped out.
CopyPending ==
  /\ loopPc = "handle"
  /\ activeQueue_ = {}
  /\ callingPendingunctors_' = TRUE
  /\ funcs' = pendingFuncs_
  /\ loopPc' = "batch"
  /\ UNCHANGED <<stopLoop_, wakeupFd_, pendingFuncs_, activeQueue_, threadPc, fresh, ran>>

\* doPendingFuncs_ raises the flag and swaps the queue out under the lock.
SwapPending ==
  /\ loopPc = "handle"
  /\ activeQueue_ = {}
  /\ callingPendingunctors_' = TRUE
  /\ funcs' = pendingFuncs_
  /\ pendingFuncs_' = <<>>
  /\ loopPc' = "batch"
  /\ UNCHANGED <<stopLoop_, wakeupFd_, activeQueue_, threadPc, fresh, ran>>

RunFunctor ==
  /\ loopPc = "batch"
  /\ funcs # <<>>
  /\ funcs' = Tail(funcs)
  /\ ran' = Append(ran, Head(funcs))
  /\ loopPc' = "functor"
  /\ UNCHANGED <<stopLoop_, callingPendingunctors_, wakeupFd_, pendingFuncs_,
                 activeQueue_, threadPc, fresh>>

FinishPending ==
  /\ loopPc = "batch"
  /\ funcs = <<>>
  /\ callingPendingunctors_' = FALSE
  /\ loopPc' = "test"
  /\ UNCHANGED <<stopLoop_, wakeupFd_, pendingFuncs_, activeQueue_, funcs,
                 threadPc, fresh, ran>>

-----------------------------------------------------------------------------
(* User code in the loop thread: a handler's callback or a functor.        *)

InUserCode == loopPc \in {"callback", "functor"}

ReturnFromUserCode ==
  /\ InUserCode
  /\ loopPc' = IF loopPc = "callback" THEN "handle" ELSE "batch"
  /\ UNCHANGED <<stopLoop_, callingPendingunctors_, wakeupFd_, pendingFuncs_,
                 activeQueue_, funcs, threadPc, fresh, ran>>

\* Slip: the owner never wakes itself up.
QueueQuietly(t) ==
  /\ InUserCode
  /\ t \in fresh
  /\ fresh' = fresh \ {t}
  /\ pendingFuncs_' = Append(pendingFuncs_, t)
  /\ UNCHANGED <<stopLoop_, callingPendingunctors_, wakeupFd_, activeQueue_, funcs, loopPc,
                 threadPc, ran>>

\* queueInLoop: the owner wakes itself up only while it runs a batch.
QueueFromLoop(t) ==
  /\ InUserCode
  /\ t \in fresh
  /\ fresh' = fresh \ {t}
  /\ pendingFuncs_' = Append(pendingFuncs_, t)
  /\ wakeupFd_' = (wakeupFd_ \/ callingPendingunctors_)
  /\ UNCHANGED <<stopLoop_, callingPendingunctors_, activeQueue_, funcs, loopPc,
                 threadPc, ran>>

\* runInLoop in the loop thread calls the functor there and then.
RunFromLoop(t) ==
  /\ InUserCode
  /\ t \in fresh
  /\ fresh' = fresh \ {t}
  /\ ran' = Append(ran, t)
  /\ UNCHANGED <<stopLoop_, callingPendingunctors_, wakeupFd_, pendingFuncs_,
                 activeQueue_, funcs, loopPc, threadPc>>

StopFromLoop ==
  /\ InUserCode
  /\ stopLoop_' = TRUE
  /\ UNCHANGED <<callingPendingunctors_, wakeupFd_, pendingFuncs_, activeQueue_,
                 funcs, loopPc, threadPc, fresh, ran>>

-----------------------------------------------------------------------------
(* The other threads: push or set the flag, then write to the eventfd.     *)

\* Slip: another thread pushes and does not write.
PushFromThread(f, t) ==
  /\ threadPc[f] = "idle"
  /\ t \in fresh
  /\ fresh' = fresh \ {t}
  /\ pendingFuncs_' = Append(pendingFuncs_, t)
  /\ UNCHANGED <<stopLoop_, callingPendingunctors_, wakeupFd_, activeQueue_, funcs,
                 loopPc, threadPc, ran>>

\* queueInLoop, and runInLoop, of another thread.
QueueFromThread(f, t) ==
  /\ threadPc[f] = "idle"
  /\ t \in fresh
  /\ fresh' = fresh \ {t}
  /\ pendingFuncs_' = Append(pendingFuncs_, t)
  /\ threadPc' = [threadPc EXCEPT ![f] = "wakeup"]
  /\ UNCHANGED <<stopLoop_, callingPendingunctors_, wakeupFd_, activeQueue_, funcs,
                 loopPc, ran>>

\* Slip: stopLoop() only sets the flag.
SetStopFromThread(f) ==
  /\ threadPc[f] = "idle"
  /\ stopLoop_' = TRUE
  /\ UNCHANGED <<callingPendingunctors_, wakeupFd_, pendingFuncs_, activeQueue_,
                 funcs, loopPc, threadPc, fresh, ran>>

StopFromThread(f) ==
  /\ threadPc[f] = "idle"
  /\ stopLoop_' = TRUE
  /\ threadPc' = [threadPc EXCEPT ![f] = "wakeup"]
  /\ UNCHANGED <<callingPendingunctors_, wakeupFd_, pendingFuncs_, activeQueue_,
                 funcs, loopPc, fresh, ran>>

WakeupFromThread(f) ==
  /\ threadPc[f] = "wakeup"
  /\ wakeupFd_' = TRUE
  /\ threadPc' = [threadPc EXCEPT ![f] = "idle"]
  /\ UNCHANGED <<stopLoop_, callingPendingunctors_, pendingFuncs_, activeQueue_,
                 funcs, loopPc, fresh, ran>>

-----------------------------------------------------------------------------
LoopStep ==
  \/ EnterLoop \/ TestStop \/ HandleWakeup \/ SwapPending \/ RunFunctor
  \/ FinishPending \/ ReturnFromUserCode
  \/ \E h \in Handlers : HandleEvents(h)

UserStep ==
  \/ StopFromLoop
  \/ \E t \in Tasks : QueueFromLoop(t) \/ RunFromLoop(t)

ThreadStep(f) ==
  \/ StopFromThread(f)
  \/ WakeupFromThread(f)
  \/ \E t \in Tasks : QueueFromThread(f, t)

Next ==
  \/ LoopStep
  \/ Poll
  \/ PollTimeout
  \/ UserStep
  \/ \E f \in Threads : ThreadStep(f)

Spec == Init /\ [][Next]_vars

\* The scheduler runs every thread that can run, and user code returns.  The loop
\* thread is taken out of epoll_wait by a readable eventfd; neither the 500 ms
\* timeout nor traffic on another handler is assumed to come.  Whoever pushed or
\* set the flag goes on to write; nobody has to call the loop at all.
Fairness ==
  /\ WF_vars(LoopStep \/ (wakeupFd_ /\ Poll))
  /\ \A f \in Threads : WF_vars(WakeupFromThread(f))

FairSpec == Spec /\ Fairness

-----------------------------------------------------------------------------
(* Properties.                                                             *)

\* Every variable has its type, and what only exists during one phase of an
\* iteration is empty outside it: unserved handlers between poll() and
\* doPendingFuncs_, a batch and the raised flag inside doPendingFuncs_.
TypeOK ==
  /\ stopLoop_ \in BOOLEAN
  /\ callingPendingunctors_ \in BOOLEAN
  /\ wakeupFd_ \in BOOLEAN
  /\ pendingFuncs_ \in Seq(Tasks)
  /\ activeQueue_ \subseteq Handlers \cup {Wakeup}
  /\ funcs \in Seq(Tasks)
  /\ loopPc \in LoopPcs
  /\ threadPc \in [Threads -> {"idle", "wakeup"}]
  /\ fresh \subseteq Tasks
  /\ ran \in Seq(Tasks)
  /\ activeQueue_ # {} => loopPc \in {"handle", "callback"}
  /\ funcs # <<>> => loopPc \in {"batch", "functor"}
  /\ callingPendingunctors_ <=> loopPc \in {"batch", "functor"}

\* Something is about to take the loop thread out of epoll_wait.
WakeupDue == wakeupFd_ \/ \E f \in Threads : threadPc[f] = "wakeup"

\* The loop thread never sleeps in epoll_wait on queued functors, or on a request
\* to stop, unless the eventfd is readable or a thread is about to write to it:
\* the wakeup protocol of queueInLoop, stopLoop and handleWakeup loses no wakeup,
\* so the poll timeout is never needed.
NeverSleepsOnWork ==
  loopPc = "poll" /\ (pendingFuncs_ # <<>> \/ stopLoop_) => WakeupDue

\* Why: outside the part of an iteration that still has doPendingFuncs_ ahead of
\* it, queued functors always come with a wakeup; a stop asked for after the loop
\* thread's last test of stopLoop_ does too.
WorkHasWakeup ==
  /\ pendingFuncs_ # <<>> => WakeupDue \/ loopPc \in {"handle", "callback"}
  /\ stopLoop_ /\ loopPc = "poll" => WakeupDue

\* Once the loop runs, a request to stop it is honoured: stopLoop(), from any
\* thread, makes loop() return without waiting for a poll timeout.
StopHonoured == (stopLoop_ /\ loopPc # "before") ~> (loopPc = "exited")

\* The loop is a FIFO that runs every functor at most once, and, as long as it has
\* not returned, every queued one eventually.
TaskQueue == INSTANCE TaskQueue WITH
  waiting <- funcs \o pendingFuncs_,
  open <- loopPc # "exited"

RefinesTaskQueue == TaskQueue!Spec
RunsEveryTask == TaskQueue!FairSpec
=============================================================================
