----------------------------- MODULE TimerQueue -----------------------------
(***************************************************************************)
(* The timers of one EventLoop (src/src/reactor/TimerQueue.cpp).  Timers   *)
(* are heap objects: timers_ orders them by expiration, active_timers_     *)
(* finds them for cancel(), and one timerfd is armed for the earliest.     *)
(* The loop's thread adds and cancels directly; other threads do it        *)
(* through functors (module EventLoop: run one by one, in order).          *)
(*                                                                         *)
(* Expirations are in the time of gettimeofday (wall), which may be set;   *)
(* the timerfd counts on CLOCK_MONOTONIC (clock).  A unit of time is the   *)
(* least delay how_much_time_from_now gives, 100 us.  An address freed by  *)
(* `delete' may be the next `new' returns.                                 *)
(***************************************************************************)
EXTENDS Naturals, Sequences, FiniteSets

CONSTANTS
  Threads,     \* threads other than the loop's that use it
  MaxAddr,     \* bound: timers that exist at one time
  MaxSeq,      \* bound: timers ever created
  MaxTime,     \* bound: time
  Delays,      \* expirations asked for, from now
  Intervals,   \* of the timers asked for; 0: not repeated
  MaxPending,  \* bound: functors queued by other threads
  MaxSteps     \* bound: times the wall clock is set

ASSUME TimerAssumption ==
  /\ MaxAddr \in Nat \ {0} /\ MaxSeq \in Nat /\ MaxTime \in Nat
  /\ Delays \subseteq Nat /\ Intervals \subseteq Nat
  /\ MaxPending \in Nat /\ MaxSteps \in Nat

Addrs == 1 .. MaxAddr
Seqs == 1 .. MaxSeq

VARIABLES
  status,          \* "up", or "use after free"
  clock,           \* CLOCK_MONOTONIC
  wall,            \* gettimeofday()
  steps,           \* times wall was set (bound)
  deadline,        \* the timerfd: when it fires, 0 if it is not armed
  heap,            \* the Timer at each address
  s_num_created_,
  timers_,         \* set of [when, addr]
  active_timers_,  \* set of <<addr, sequence>>, as is canceling_timers_
  canceling_timers_,
  calling_expired_timers_,
  expired,         \* handle_read's batch, entries of timers_
  begun,           \* the part of it whose callbacks have begun
  now,             \* handle_read's time
  pending,         \* functors of this queue in the loop's pendingFuncs_
  caller,          \* each thread: the timer whose add_timer has yet to return, or 0
  ids              \* the TimerIds returned by add_timer

queueVars == <<timers_, active_timers_, heap, deadline>>
batchVars == <<calling_expired_timers_, canceling_timers_, expired, begun, now>>
timeVars == <<clock, wall, steps>>
vars == <<status, timeVars, queueVars, batchVars, s_num_created_, pending, caller, ids>>

Entry(w, a) == [when |-> w, addr |-> a]
Nowhere == [addr |-> 0, seq |-> 0]

Init ==
  /\ status = "up"
  /\ clock = 1 /\ wall = 1 /\ steps = 0
  /\ deadline = 0
  /\ heap = [a \in Addrs |-> [live |-> FALSE, seq |-> 0, exp |-> 0, interval |-> 0]]
  /\ s_num_created_ = 0
  /\ timers_ = {} /\ active_timers_ = {} /\ canceling_timers_ = {}
  /\ calling_expired_timers_ = FALSE
  /\ expired = {} /\ begun = {} /\ now = 0
  /\ pending = <<>>
  /\ caller = [t \in Threads |-> Nowhere]
  /\ ids = {}

-----------------------------------------------------------------------------
(* Time.                                                                   *)

Tick ==
  /\ status = "up" /\ clock < MaxTime
  /\ clock' = clock + 1 /\ wall' = wall + 1
  /\ UNCHANGED <<status, steps, queueVars, batchVars, s_num_created_, pending, caller, ids>>

\* The administrator, or ntpd, sets the time of day.
SetWall ==
  /\ status = "up" /\ steps < MaxSteps
  /\ wall' \in {wall + 1, wall - 1} \ {0}
  /\ steps' = steps + 1
  /\ UNCHANGED <<status, clock, queueVars, batchVars, s_num_created_, pending, caller, ids>>

\* reset_timerfd: at w, but not before the least delay is over.
Alarm(w) == IF w <= wall THEN clock + 1 ELSE clock + (w - wall)

-----------------------------------------------------------------------------
(* insert and add_timer.                                                   *)

EarliestOfSome(w) == \E e \in timers_ : w < e.when /\ \A f \in timers_ : e.when <= f.when    \* slip: a first timer is not the earliest
EarliestChanged(w) == \A e \in timers_ : w < e.when

\* new Timer, at any free address.
Creates(a, w, i) ==
  /\ s_num_created_ < MaxSeq
  /\ ~heap[a].live
  /\ s_num_created_' = s_num_created_ + 1
  /\ heap' = [heap EXCEPT ![a] = [live |-> TRUE, seq |-> s_num_created_ + 1, exp |-> w,
                                  interval |-> i]]

\* add_timer_in_loop
Inserts(a, s, w) ==
  /\ timers_' = timers_ \cup {Entry(w, a)}
  /\ active_timers_' = active_timers_ \cup {<<a, s>>}
  /\ deadline' = IF EarliestChanged(w) THEN Alarm(w) ELSE deadline

\* User code runs in the loop's thread: a timer's callback, or another handler's.
InLoopThread == status = "up" /\ (calling_expired_timers_ => begun # {})

\* runAt, runAfter and runEvery in the loop's thread.
AddFromLoop ==
  /\ InLoopThread
  /\ \E a \in Addrs, d \in Delays, i \in Intervals :
       /\ Creates(a, wall + d, i)
       /\ Inserts(a, s_num_created_ + 1, wall + d)
       /\ ids' = ids \cup {<<a, s_num_created_ + 1>>}
  /\ UNCHANGED <<status, timeVars, batchVars, pending, caller>>

\* In another thread add_timer queues add_timer_in_loop ...
AddFromThread(t) ==
  /\ status = "up" /\ caller[t] = Nowhere /\ Len(pending) < MaxPending
  /\ \E a \in Addrs, d \in Delays, i \in Intervals :
       /\ Creates(a, wall + d, i)
       /\ caller' = [caller EXCEPT ![t] = [addr |-> a, seq |-> s_num_created_ + 1]]
       /\ pending' = Append(pending, [op |-> "add", addr |-> a, seq |-> s_num_created_ + 1])
  /\ UNCHANGED <<status, timeVars, timers_, active_timers_, deadline, batchVars, ids>>

\* ... and then reads timer->sequence() for the TimerId.
AddReturns(t) ==
  LET c == caller[t] IN
  /\ status = "up" /\ c # Nowhere
  /\ status' = IF heap[c.addr].live /\ heap[c.addr].seq = c.seq THEN "up" ELSE "use after free"
  /\ ids' = ids \cup {<<c.addr, heap[c.addr].seq>>}
  /\ caller' = [caller EXCEPT ![t] = Nowhere]
  /\ UNCHANGED <<timeVars, queueVars, batchVars, s_num_created_, pending>>

AddInLoop ==
  /\ status = "up" /\ ~calling_expired_timers_
  /\ pending # <<>> /\ Head(pending).op = "add"
  /\ LET a == Head(pending).addr IN Inserts(a, heap[a].seq, heap[a].exp)
  /\ pending' = Tail(pending)
  /\ UNCHANGED <<status, timeVars, heap, batchVars, s_num_created_, caller, ids>>

-----------------------------------------------------------------------------
(* cancel.                                                                 *)

Frees(a) == heap' = [heap EXCEPT ![a].live = FALSE]

\* Slip: the timer is not deleted.
CancelsAndLeaks(a, s) ==
  \/ /\ <<a, s>> \in active_timers_
     /\ timers_' = timers_ \ {Entry(heap[a].exp, a)}
     /\ active_timers_' = active_timers_ \ {<<a, s>>}
     /\ UNCHANGED <<heap, canceling_timers_>>
  \/ /\ <<a, s>> \notin active_timers_
     /\ UNCHANGED <<timers_, active_timers_, heap, canceling_timers_>>

\* Slip: a cancelled timer stays in active_timers_.
CancelsHalf(a, s) ==
  \/ /\ <<a, s>> \in active_timers_
     /\ timers_' = timers_ \ {Entry(heap[a].exp, a)}
     /\ Frees(a)
     /\ UNCHANGED <<active_timers_, canceling_timers_>>
  \/ /\ <<a, s>> \notin active_timers_
     /\ UNCHANGED <<timers_, active_timers_, heap, canceling_timers_>>

\* cancel_in_loop: a timer in the queue is taken out and deleted; one that expires just
\* now is kept from being restarted; a timer that is gone, or not inserted yet, is not
\* found, whatever else is at its address.
Cancels(a, s) ==
  \/ /\ <<a, s>> \in active_timers_
     /\ timers_' = timers_ \ {Entry(heap[a].exp, a)}
     /\ active_timers_' = active_timers_ \ {<<a, s>>}
     /\ Frees(a)
     /\ UNCHANGED canceling_timers_
  \/ /\ <<a, s>> \notin active_timers_
     /\ canceling_timers_' = IF calling_expired_timers_ THEN canceling_timers_ \cup {<<a, s>>}
                             ELSE canceling_timers_
     /\ UNCHANGED <<timers_, active_timers_, heap>>

CancelFromLoop ==
  /\ InLoopThread
  /\ \E id \in ids : Cancels(id[1], id[2])
  /\ UNCHANGED <<status, timeVars, deadline, calling_expired_timers_, expired, begun, now,
                 s_num_created_, pending, caller, ids>>

CancelFromThread ==
  /\ status = "up" /\ Len(pending) < MaxPending
  /\ \E id \in ids :
       pending' = Append(pending, [op |-> "cancel", addr |-> id[1], seq |-> id[2]])
  /\ UNCHANGED <<status, timeVars, queueVars, batchVars, s_num_created_, caller, ids>>

CancelInLoop ==
  /\ status = "up" /\ ~calling_expired_timers_
  /\ pending # <<>> /\ Head(pending).op = "cancel"
  /\ Cancels(Head(pending).addr, Head(pending).seq)
  /\ pending' = Tail(pending)
  /\ UNCHANGED <<status, timeVars, deadline, calling_expired_timers_, expired, begun, now,
                 s_num_created_, caller, ids>>

-----------------------------------------------------------------------------
(* handle_read.                                                            *)

\* Slip: calling_expired_timers_ is not raised.
HandleReadUnmarked ==
  /\ status = "up" /\ ~calling_expired_timers_
  /\ deadline # 0 /\ deadline <= clock
  /\ deadline' = 0
  /\ now' = wall
  /\ expired' = {e \in timers_ : e.when <= wall}
  /\ timers_' = timers_ \ expired'
  /\ active_timers_' = {x \in active_timers_ : \A e \in expired' : e.addr # x[1]}
  /\ canceling_timers_' = {}
  /\ UNCHANGED <<status, timeVars, heap, calling_expired_timers_, begun, s_num_created_,
                 pending, caller, ids>>

\* The timerfd is readable: read it, and take what has expired out of both sets.
HandleRead ==
  /\ status = "up" /\ ~calling_expired_timers_
  /\ deadline # 0 /\ deadline <= clock
  /\ deadline' = 0
  /\ now' = wall
  /\ expired' = {e \in timers_ : e.when <= wall}
  /\ timers_' = timers_ \ expired'
  /\ active_timers_' = {x \in active_timers_ : \A e \in expired' : e.addr # x[1]}
  /\ calling_expired_timers_' = TRUE
  /\ canceling_timers_' = {}
  /\ UNCHANGED <<status, timeVars, heap, begun, s_num_created_, pending, caller, ids>>

\* The order of std::set<Entry>.
Before(e, f) == e.when < f.when \/ (e.when = f.when /\ e.addr < f.addr)

RunTimer ==
  /\ status = "up" /\ calling_expired_timers_
  /\ \E e \in expired \ begun :
       /\ \A f \in expired \ begun : f = e \/ Before(e, f)
       /\ begun' = begun \cup {e}
  /\ UNCHANGED <<status, timeVars, queueVars, calling_expired_timers_, canceling_timers_,
                 expired, now, s_num_created_, pending, caller, ids>>

RestartsAnyway(e) == heap[e.addr].interval > 0    \* slip: cancelled or not
Restarts(e) == heap[e.addr].interval > 0 /\ <<e.addr, heap[e.addr].seq>> \notin canceling_timers_

\* Timer::restart: the next expiration counts from the time of the batch.
restart(a) == now + heap[a].interval

\* reset(): restart what repeats and is not cancelled, delete the rest, and arm the
\* timerfd for what is now the earliest.
Reset ==
  LET again == {e \in expired : Restarts(e)}
      restarted == {e.addr : e \in again}
      deleted == {e.addr : e \in expired \ again}
  IN
  /\ status = "up" /\ calling_expired_timers_ /\ begun = expired
  /\ heap' = [a \in Addrs |-> IF a \in restarted THEN [heap[a] EXCEPT !.exp = restart(a)]
                              ELSE IF a \in deleted THEN [heap[a] EXCEPT !.live = FALSE]
                              ELSE heap[a]]
  /\ timers_' = timers_ \cup {Entry(restart(a), a) : a \in restarted}
  /\ active_timers_' = active_timers_ \cup {<<a, heap[a].seq>> : a \in restarted}
  /\ \/ timers_' = {} /\ deadline' = deadline
     \/ \E e \in timers_' : /\ \A f \in timers_' : e.when <= f.when
                            /\ deadline' = Alarm(e.when)
  /\ calling_expired_timers_' = FALSE
  /\ expired' = {} /\ begun' = {} /\ now' = 0
  /\ UNCHANGED <<status, timeVars, canceling_timers_, s_num_created_, pending, caller, ids>>

-----------------------------------------------------------------------------
LoopStep ==
  \/ HandleRead \/ RunTimer \/ Reset
  \/ AddInLoop \/ CancelInLoop
  \/ AddFromLoop \/ CancelFromLoop

ThreadStep == CancelFromThread \/ \E t \in Threads : AddFromThread(t) \/ AddReturns(t)

Next == Tick \/ SetWall \/ LoopStep \/ ThreadStep

Spec == Init /\ [][Next]_vars

-----------------------------------------------------------------------------
(* Properties.                                                             *)

\* Every variable has its type, and handle_read's locals exist only while it runs.
TypeOK ==
  /\ status \in {"up", "use after free"}
  /\ clock \in Nat /\ wall \in Nat \ {0} /\ steps \in 0 .. MaxSteps
  /\ deadline \in Nat /\ now \in Nat
  /\ heap \in [Addrs -> [live : BOOLEAN, seq : 0 .. MaxSeq, exp : Nat, interval : Intervals \cup {0}]]
  /\ s_num_created_ \in 0 .. MaxSeq
  /\ timers_ \subseteq [when : Nat, addr : Addrs]
  /\ expired \subseteq [when : Nat, addr : Addrs]
  /\ begun \subseteq expired
  /\ active_timers_ \subseteq Addrs \X Seqs
  /\ canceling_timers_ \subseteq Addrs \X Seqs
  /\ calling_expired_timers_ \in BOOLEAN
  /\ pending \in Seq([op : {"add", "cancel"}, addr : Addrs, seq : Seqs])
  /\ caller \in [Threads -> [addr : Addrs, seq : Seqs] \cup {Nowhere}]
  /\ ids \subseteq Addrs \X (0 .. MaxSeq)
  /\ expired # {} => calling_expired_timers_

\* timers_ and active_timers_ hold the same timers, each once and under its own
\* expiration: what the asserts of get_expired, insert and cancel_in_loop rely on.
QueuesAgree ==
  /\ active_timers_ = {<<e.addr, heap[e.addr].seq>> : e \in timers_}
  /\ Cardinality(active_timers_) = Cardinality(timers_)
  /\ \A e \in timers_ : heap[e.addr].exp = e.when

\* A timer belongs to one of the loop's functors, to the queue or to the batch being
\* run, and to exactly one of them, until it is deleted, and to none after that: no
\* timer is leaked, run or deleted twice.
OwnedOnce ==
  \A a \in Addrs :
    Cardinality({e \in timers_ : e.addr = a})
      + Cardinality({e \in expired : e.addr = a})
      + Cardinality({i \in DOMAIN pending : pending[i].op = "add" /\ pending[i].addr = a})
    = IF heap[a].live THEN 1 ELSE 0

\* Between two handle_reads the timerfd is armed whenever there is a timer, and, if
\* nobody has set the clock, early enough for the earliest of them.
AlarmArmed ==
  ~calling_expired_timers_ /\ timers_ # {} =>
    /\ deadline # 0
    /\ steps = 0 => \A e \in timers_ : deadline <= e.when \/ deadline <= clock + 1

\* What module Timers says of the timer numbered s.
Entries(es, s) == {e \in es : heap[e.addr].seq = s}
TimerOf(s) ==
  LET is(what, e) == [is |-> what, due |-> e.when, every |-> heap[e.addr].interval]
      asked == {i \in DOMAIN pending : pending[i].op = "add" /\ pending[i].seq = s}
  IN  CASE s > s_num_created_ -> [is |-> "none", due |-> 0, every |-> 0]
        [] asked # {} -> LET a == pending[CHOOSE i \in asked : TRUE].addr
                         IN  is("asked", Entry(heap[a].exp, a))
        [] Entries(timers_, s) # {} -> is("waiting", CHOOSE e \in Entries(timers_, s) : TRUE)
        [] Entries(expired \ begun, s) # {} -> is("due", CHOOSE e \in Entries(expired, s) : TRUE)
        [] Entries(begun, s) # {} -> is("running", CHOOSE e \in Entries(begun, s) : TRUE)
        [] OTHER -> [is |-> "over", due |-> 0, every |-> 0]

AsTimers == INSTANCE Timers WITH
  timer <- [s \in Seqs |-> TimerOf(s)],
  stopped <- {s \in Seqs : \E e \in Entries(expired, s) : <<e.addr, s>> \in canceling_timers_}

\* The timers are those of module Timers, through two sets, reused addresses and
\* cancels from callbacks and threads: none runs before its time or after a cancel that
\* was final, none of those that have expired is left out or overtaken by a later one.
RefinesTimers == AsTimers!Spec

\* add_timer may be called from any thread: the timer it has handed to the loop is
\* still there when it takes its sequence number.
AddTimerIsThreadSafe == status # "use after free"
=============================================================================
