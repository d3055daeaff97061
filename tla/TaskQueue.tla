------------------------------ MODULE TaskQueue ------------------------------
(***************************************************************************)
(* What an EventLoop promises the code that hands functors to it           *)
(* (EventLoop::runInLoop and EventLoop::queueInLoop): a functor is run at  *)
(* most once, queued functors are run in the order in which they were      *)
(* queued whichever thread queued them, and while the loop is open every   *)
(* queued functor is eventually run.  A functor handed over by runInLoop   *)
(* in the loop's own thread is run at once, ahead of the queue.            *)
(* EventLoop implements this specification (EventLoop!RefinesTaskQueue).   *)
(***************************************************************************)
EXTENDS Sequences

CONSTANT Tasks    \* the functors

VARIABLES
  fresh,      \* the functors nobody has handed over yet
  waiting,    \* the queued functors, oldest first
  ran,        \* the functors the loop has started, oldest first
  open        \* FALSE once the loop has returned

vars == <<fresh, waiting, ran, open>>

Init ==
  /\ fresh = Tasks
  /\ waiting = <<>>
  /\ ran = <<>>
  /\ open = TRUE

\* Any thread queues a functor; after the loop has returned it waits forever.
Submit(t) ==
  /\ t \in fresh
  /\ fresh' = fresh \ {t}
  /\ waiting' = Append(waiting, t)
  /\ UNCHANGED <<ran, open>>

\* The loop's thread runs the oldest queued functor.
Execute ==
  /\ open
  /\ waiting # <<>>
  /\ waiting' = Tail(waiting)
  /\ ran' = Append(ran, Head(waiting))
  /\ UNCHANGED <<fresh, open>>

\* The loop's thread runs a functor directly.
RunNow(t) ==
  /\ open
  /\ t \in fresh
  /\ fresh' = fresh \ {t}
  /\ ran' = Append(ran, t)
  /\ UNCHANGED <<waiting, open>>

Close ==
  /\ open
  /\ open' = FALSE
  /\ UNCHANGED <<fresh, waiting, ran>>

Next ==
  \/ \E t \in Tasks : Submit(t) \/ RunNow(t)
  \/ Execute
  \/ Close

Spec == Init /\ [][Next]_vars

FairSpec == Spec /\ WF_vars(Execute)
=============================================================================
