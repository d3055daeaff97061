--------------------------- MODULE NonBlockingLog ---------------------------
(***************************************************************************)
(* The asynchronous log (src/src/logging/NonBlockingLog.cpp): any thread   *)
(* appends a message to nowBuffer_ under mtx_; a buffer without room joins *)
(* buffers_ and the log thread is notified; the log thread takes           *)
(* everything, at a notification or when flushInterval_ is over, and       *)
(* writes it without the lock.                                             *)
(*                                                                         *)
(* A vector of buffers is its number of buffers and the messages in them,  *)
(* oldest first.  The members are initialised in the order of their        *)
(* declaration, so the log thread, logThread_, runs before flushInterval_  *)
(* and running_ have a value: it may read anything there until the         *)
(* constructor is through.                                                 *)
(*                                                                         *)
(* As in the program (a static) and in nonBlockingLogTest (delete after    *)
(* the joins), nobody appends before the constructor has returned or once  *)
(* the destructor has begun.                                               *)
(***************************************************************************)
EXTENDS Naturals, Sequences

CONSTANTS
  Appenders,   \* the threads that log
  MsgCount,    \* bound: messages each of them appends
  Capacity     \* messages that fit in a LargeFixBuffer

ASSUME LogAssumption == MsgCount \in Nat /\ Capacity \in Nat \ {0}

Msgs == [by : Appenders, nr : 1 .. MsgCount]

VARIABLES
  running_,
  nowBuffer_,        \* [here |-> it is not null, msgs |-> its messages]
  nextBuffer_,       \* TRUE: not null, and then empty
  buffers_,          \* [count |-> size(), msgs |-> their messages]
  writeBackBuffers,  \* the log thread's, like buffers_
  newBuffer1,        \* the log thread's spare buffers, TRUE: not null
  newBuffer2,
  timed,             \* its timeout is flushInterval_, and not what was there before
  logPc,             \* the log thread: "start", "test", "lock", "waiting", "write", "recycle",
                     \* "drain", "lastWrite", "exited"
  signalled,         \* cond_ has been notified since the log thread began to wait
  owner,             \* the owning thread: "constructing", "using", "stopping",
                     \* "joining", "joined"
  sent,              \* how many messages each appender has appended
  crashed,           \* append dereferenced a null nowBuffer_
  appended,          \* history: the messages appended, in the order of mtx_
  file               \* the log file

shared == <<running_, nowBuffer_, nextBuffer_, buffers_>>
threadLocal == <<writeBackBuffers, newBuffer1, newBuffer2, timed>>
vars == <<shared, threadLocal, logPc, signalled, owner, sent, crashed, appended, file>>

NoBuffers == [count |-> 0, msgs |-> <<>>]
EmptyBuffer == [here |-> TRUE, msgs |-> <<>>]
NullBuffer == [here |-> FALSE, msgs |-> <<>>]

\* Slip: nowBuffer_ goes in front.
NowBufferFirst == [count |-> buffers_.count + 1, msgs |-> nowBuffer_.msgs \o buffers_.msgs]

\* The buffers and, behind them, nowBuffer_.
AllBuffers == [count |-> buffers_.count + 1, msgs |-> buffers_.msgs \o nowBuffer_.msgs]

Init ==
  /\ running_ \in BOOLEAN
  /\ nowBuffer_ = EmptyBuffer
  /\ nextBuffer_ = TRUE
  /\ buffers_ = NoBuffers
  /\ writeBackBuffers = NoBuffers
  /\ newBuffer1 = TRUE
  /\ newBuffer2 = TRUE
  /\ timed = FALSE
  /\ logPc = "start"
  /\ signalled = FALSE
  /\ owner = "constructing"
  /\ sent = [t \in Appenders |-> 0]
  /\ crashed = FALSE
  /\ appended = <<>>
  /\ file = <<>>

-----------------------------------------------------------------------------
(* The thread that owns the log.                                           *)

Construct ==
  /\ owner = "constructing"
  /\ running_' = TRUE
  /\ owner' = "using"
  /\ UNCHANGED <<nowBuffer_, nextBuffer_, buffers_, threadLocal, logPc, signalled, sent,
                 crashed, appended, file>>

\* Slip: stop() only notifies.
StopOnlyNotifies ==
  /\ owner = "using" /\ running_ /\ ~crashed
  /\ \A t \in Appenders : sent[t] = MsgCount
  /\ owner' = "stopping"
  /\ UNCHANGED <<shared, threadLocal, logPc, signalled, sent, crashed, appended, file>>

\* ~NonBlockingLog calls stop().
StopRunning ==
  /\ owner = "using" /\ running_ /\ ~crashed
  /\ \A t \in Appenders : sent[t] = MsgCount
  /\ running_' = FALSE
  /\ owner' = "stopping"
  /\ UNCHANGED <<nowBuffer_, nextBuffer_, buffers_, threadLocal, logPc, signalled, sent,
                 crashed, appended, file>>

\* The notification is not given under mtx_.
StopNotify ==
  /\ owner = "stopping"
  /\ signalled' = (signalled \/ logPc = "waiting")
  /\ owner' = "joining"
  /\ UNCHANGED <<shared, threadLocal, logPc, sent, crashed, appended, file>>

StopJoin ==
  /\ owner = "joining" /\ logPc = "exited"
  /\ owner' = "joined"
  /\ UNCHANGED <<shared, threadLocal, logPc, signalled, sent, crashed, appended, file>>

-----------------------------------------------------------------------------
(* append(), by any thread, under mtx_.                                    *)

CanAppend(t) == owner = "using" /\ ~crashed /\ sent[t] < MsgCount

Appends(t, m) ==
  /\ m = [by |-> t, nr |-> sent[t] + 1]
  /\ sent' = [sent EXCEPT ![t] = @ + 1]
  /\ appended' = Append(appended, m)

AppendInPlace(t) ==
  /\ CanAppend(t)
  /\ nowBuffer_.here /\ Len(nowBuffer_.msgs) < Capacity
  /\ \E m \in Msgs :
       /\ Appends(t, m)
       /\ nowBuffer_' = [nowBuffer_ EXCEPT !.msgs = Append(@, m)]
  /\ UNCHANGED <<running_, nextBuffer_, buffers_, threadLocal, logPc, signalled, owner,
                 crashed, file>>

\* Slip: no notification.
AppendQuietly(t) ==
  /\ CanAppend(t)
  /\ nowBuffer_.here /\ Len(nowBuffer_.msgs) >= Capacity
  /\ buffers_' = AllBuffers
  /\ nextBuffer_' = FALSE
  /\ \E m \in Msgs :
       /\ Appends(t, m)
       /\ nowBuffer_' = [here |-> TRUE, msgs |-> <<m>>]
  /\ UNCHANGED <<running_, threadLocal, logPc, signalled, owner, crashed, file>>

\* nowBuffer_ has no room: it joins buffers_, and nextBuffer_, or a new buffer, takes
\* its place.
AppendToNext(t) ==
  /\ CanAppend(t)
  /\ nowBuffer_.here /\ Len(nowBuffer_.msgs) >= Capacity
  /\ buffers_' = AllBuffers
  /\ nextBuffer_' = FALSE
  /\ \E m \in Msgs :
       /\ Appends(t, m)
       /\ nowBuffer_' = [here |-> TRUE, msgs |-> <<m>>]
  /\ signalled' = (signalled \/ logPc = "waiting")
  /\ UNCHANGED <<running_, threadLocal, logPc, owner, crashed, file>>

AppendToNull(t) ==
  /\ CanAppend(t)
  /\ ~nowBuffer_.here
  /\ crashed' = TRUE
  /\ UNCHANGED <<shared, threadLocal, logPc, signalled, owner, sent, appended, file>>

-----------------------------------------------------------------------------
(* threadFunc(), the log thread.                                           *)

\* threadFunc computes its timeout once, from what it finds in flushInterval_.
StartThread ==
  /\ ~crashed /\ logPc = "start"
  /\ timed' \in IF owner = "constructing" THEN BOOLEAN ELSE {TRUE}
  /\ logPc' = "test"
  /\ UNCHANGED <<shared, writeBackBuffers, newBuffer1, newBuffer2, signalled, owner, sent,
                 crashed, appended, file>>

\* Slip: no drain after the loop.
TestAndLeave ==
  /\ ~crashed /\ logPc = "test"
  /\ logPc' = IF running_ THEN "lock" ELSE "exited"
  /\ UNCHANGED <<shared, threadLocal, signalled, owner, sent, crashed, appended, file>>

TestRunning ==
  /\ ~crashed /\ logPc = "test"
  /\ logPc' = IF running_ THEN "lock" ELSE "drain"
  /\ UNCHANGED <<shared, threadLocal, signalled, owner, sent, crashed, appended, file>>

\* Still under mtx_ after the wait: everything appended so far is taken, newBuffer1
\* becomes nowBuffer_, and newBuffer2 nextBuffer_ if that is gone.
Take ==
  /\ writeBackBuffers' = AllBuffers
  /\ buffers_' = NoBuffers
  /\ nowBuffer_' = IF newBuffer1 THEN EmptyBuffer ELSE NullBuffer
  /\ newBuffer1' = FALSE
  /\ nextBuffer_' = (nextBuffer_ \/ newBuffer2)
  /\ newBuffer2' = (newBuffer2 /\ nextBuffer_)
  /\ signalled' = FALSE
  /\ logPc' = "write"
  /\ UNCHANGED <<running_, timed, owner, sent, crashed, appended, file>>

TakeAtOnce ==
  /\ ~crashed /\ logPc = "lock" /\ buffers_.count > 0
  /\ Take

Wait ==
  /\ ~crashed /\ logPc = "lock" /\ buffers_.count = 0
  /\ logPc' = "waiting"
  /\ UNCHANGED <<shared, threadLocal, signalled, owner, sent, crashed, appended, file>>

\* wait_for returns when a notification finds buffers_ not empty ...
Notified ==
  /\ ~crashed /\ logPc = "waiting" /\ signalled /\ buffers_.count > 0
  /\ Take

\* ... goes back to wait when it finds it empty, as stop()'s does ...
NotifiedForNothing ==
  /\ ~crashed /\ logPc = "waiting" /\ signalled /\ buffers_.count = 0
  /\ signalled' = FALSE
  /\ UNCHANGED <<shared, threadLocal, logPc, owner, sent, crashed, appended, file>>

\* Slip: the interval counts for nothing while no buffer is full.
TimeoutIfFull ==
  /\ ~crashed /\ logPc = "waiting" /\ buffers_.count > 0
  /\ Take

\* ... and in any case when the interval is over.
FlushTimeout ==
  /\ ~crashed /\ logPc = "waiting"
  /\ Take

\* The file is seen by nobody else: writing the buffers is one step.
WriteBack ==
  /\ ~crashed /\ logPc \in {"write", "lastWrite"}
  /\ file' = file \o writeBackBuffers.msgs
  /\ writeBackBuffers' = [writeBackBuffers EXCEPT !.msgs = <<>>]
  /\ logPc' = IF logPc = "write" THEN "recycle" ELSE "exited"
  /\ UNCHANGED <<shared, newBuffer1, newBuffer2, timed, signalled, owner, sent, crashed,
                 appended>>

\* Slip: no buffer is kept for the next round.
RecycleNothing ==
  /\ ~crashed /\ logPc = "recycle"
  /\ writeBackBuffers' = NoBuffers
  /\ logPc' = "test"
  /\ UNCHANGED <<shared, newBuffer1, newBuffer2, timed, signalled, owner, sent, crashed,
                 appended, file>>

\* The last buffer written is the next newBuffer1; newBuffer2 only gets one if
\* newBuffer1 did not take it: back() is released, not removed.
Recycle ==
  /\ ~crashed /\ logPc = "recycle"
  /\ newBuffer1' = TRUE
  /\ newBuffer2' = (newBuffer2 \/ newBuffer1)
  /\ writeBackBuffers' = NoBuffers
  /\ logPc' = "test"
  /\ UNCHANGED <<shared, timed, signalled, owner, sent, crashed, appended, file>>

\* The loop is over: nothing replaces nowBuffer_ any more.
Drain ==
  /\ ~crashed /\ logPc = "drain"
  /\ writeBackBuffers' = AllBuffers
  /\ buffers_' = NoBuffers
  /\ nowBuffer_' = NullBuffer
  /\ logPc' = "lastWrite"
  /\ UNCHANGED <<running_, nextBuffer_, newBuffer1, newBuffer2, timed, signalled, owner,
                 sent, crashed, appended, file>>

-----------------------------------------------------------------------------
OwnerStep == Construct \/ StopRunning \/ StopNotify \/ StopJoin

AppendStep(t) == AppendInPlace(t) \/ AppendToNext(t) \/ AppendToNull(t)

LogThreadStep ==
  \/ StartThread \/ TestRunning \/ TakeAtOnce \/ Wait \/ Notified \/ NotifiedForNothing
  \/ WriteBack \/ Recycle \/ Drain

Next ==
  \/ OwnerStep
  \/ \E t \in Appenders : AppendStep(t)
  \/ LogThreadStep
  \/ FlushTimeout

Spec == Init /\ [][Next]_vars

\* The log thread runs when it can, wait_for keeps to its timeout if that is
\* flushInterval_, and stop(), once called, goes on to join.  Nobody has to append or to stop.
Fairness ==
  /\ WF_vars(LogThreadStep)
  /\ WF_vars(timed /\ FlushTimeout)
  /\ WF_vars(StopNotify \/ StopJoin)

FairSpec == Spec /\ Fairness

-----------------------------------------------------------------------------
(* Properties.                                                             *)

LogPcs == {"start", "test", "lock", "waiting", "write", "recycle", "drain", "lastWrite",
           "exited"}

\* Every variable has its type; nowBuffer_ is null only after the drain, and the log
\* thread has a spare for it whenever it takes the buffers.
TypeOK ==
  /\ running_ \in BOOLEAN
  /\ nowBuffer_ \in [here : BOOLEAN, msgs : Seq(Msgs)]
  /\ nextBuffer_ \in BOOLEAN
  /\ buffers_ \in [count : Nat, msgs : Seq(Msgs)]
  /\ writeBackBuffers \in [count : Nat, msgs : Seq(Msgs)]
  /\ newBuffer1 \in BOOLEAN
  /\ newBuffer2 \in BOOLEAN
  /\ timed \in BOOLEAN
  /\ logPc \in LogPcs
  /\ signalled \in BOOLEAN
  /\ owner \in {"constructing", "using", "stopping", "joining", "joined"}
  /\ sent \in [Appenders -> 0 .. MsgCount]
  /\ crashed \in BOOLEAN
  /\ appended \in Seq(Msgs)
  /\ file \in Seq(Msgs)
  /\ ~nowBuffer_.here => logPc \in {"lastWrite", "exited"} /\ nowBuffer_.msgs = <<>>
  /\ logPc \in {"start", "test", "lock", "waiting"} => newBuffer1
  /\ logPc \notin {"write", "lastWrite"} => writeBackBuffers.msgs = <<>>

\* Nothing is lost, duplicated or reordered on the way to the file: what is written,
\* what the log thread holds, what waits in buffers_ and what nowBuffer_ has make up
\* what was appended.
InOrder ==
  appended = ((file \o writeBackBuffers.msgs) \o buffers_.msgs) \o nowBuffer_.msgs

\* The log thread is not left waiting with a full buffer in buffers_: the check of
\* buffers_ before the wait and append's notification miss none.
FullBufferSignalled ==
  logPc = "waiting" /\ buffers_.count > 0 => signalled

\* When stop() has returned the whole log is in the file.
CompleteWhenStopped == owner = "joined" => file = appended

\* A message appended is eventually in the file, flushInterval_ later at the latest,
\* unless the log thread started before the members it reads were initialised and
\* has ended (append crashes) or waits for some other time.
EveryMessageWritten ==
  \A m \in Msgs :
    (\E i \in DOMAIN appended : appended[i] = m)
      ~> (crashed \/ ~timed \/ \E i \in DOMAIN file : file[i] = m)

\* stop() returns even if its notification is lost, as its order of stores and
\* notifications without mtx_ allows: the timeout is what it then waits for.
StopReturns == (owner = "stopping") ~> (owner = "joined" \/ ~timed)

\* The log thread runs from the construction of the log until it is stopped, so that
\* append always has a buffer.
AppendHasBuffer == ~crashed
=============================================================================
