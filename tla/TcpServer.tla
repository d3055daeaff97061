------------------------------ MODULE TcpServer ------------------------------
(***************************************************************************)
(* A TcpServer and its TcpConnections: the main loop accepts and forgets   *)
(* connections, a worker loop per thread serves them, and the two talk     *)
(* only through functors queued on each other's EventLoop (module          *)
(* EventLoop: a FIFO, swapped out in batches, run after the handlers of an *)
(* iteration).  The life of a connection is a relay:                       *)
(*                                                                         *)
(*   main    handleNewConnection       -> worker  connectEstablished       *)
(*   worker  handleClose               -> main    handleRemoveConnection-  *)
(*                                                InLoop                   *)
(*   main    handleRemoveConnectionInLoop -> worker connectDestroyed       *)
(*                                                                         *)
(* A functor that binds a shared_ptr keeps its connection alive until the  *)
(* batch it belongs to is destroyed; one that binds a raw `this' does not. *)
(*                                                                         *)
(* The kernel and the peer of each connection are part of the model.  The  *)
(* program on top calls send, shutdown and forceClose from its callbacks,  *)
(* and, if IdleShutdown, shutdown from a timer of the main loop, as the    *)
(* idle-connection entries of webServer do.  Data is abstracted to whether *)
(* there is any.                                                           *)
(***************************************************************************)
EXTENDS Naturals, Sequences, Poller

CONSTANTS
  MaxConns,          \* bound: connections accepted
  ThreadNum,         \* worker loops in the EventLoopThreadPool
  MaxMsgs,           \* bound: times a peer sends
  CallingCallbacks,  \* the callbacks that make calls: among "connection", "message", "write"
  UserCalls,         \* the calls they make: among "send", "shutdown", "forceClose"
  MaxCalls,          \* bound: calls the callbacks make on one connection
  MaxQueue,          \* bound: a worker polls while the main loop has fewer functors queued
  CallsAfterClose,   \* a callback goes on calling after it has called forceClose
  IdleShutdown,      \* a main-loop timer calls shutdown()
  HasWriteCallback   \* writeCb_ is set

ASSUME ServerAssumption ==
  /\ MaxConns \in Nat \ {0} /\ ThreadNum \in Nat \ {0}
  /\ MaxMsgs \in Nat /\ MaxCalls \in Nat /\ MaxQueue \in Nat
  /\ CallingCallbacks \subseteq {"connection", "message", "write"}
  /\ UserCalls \subseteq {"send", "shutdown", "forceClose"}
  /\ CallsAfterClose \in BOOLEAN /\ IdleShutdown \in BOOLEAN
  /\ HasWriteCallback \in BOOLEAN

Conns == 1 .. MaxConns       \* numbered by nextConnId_; a connection stands for its fd too
Main == 0
Workers == 1 .. ThreadNum
Loops == Workers \cup {Main}

VARIABLES
  status,         \* "up", or what ended the process
  nextConnId_,
  next_,          \* EventLoopThreadPool: the next worker
  connections_,   \* TcpServer's map, by connection
  listening_,     \* Acceptor: it listens, and its Handler is enabled
  backlog,        \* the kernel's: connections completed and not accepted
  loopOf,         \* TcpConnection::lp_
  state_,         \* TcpConnection::state_
  outputBuffer_,  \* TRUE: it has readable bytes
  handler,        \* the connection's Handler and its registration (Poller)
  seen,           \* history: what connected() said at each connection callback
  net,            \* the kernel's and the peer's side of each connection
  phase,          \* of each loop: "poll", "io" (handlers) or "batch" (functors)
  active,         \* of each worker: [conn, revs], returned by poll and not served
  frame,          \* of each worker: the handleEvents or callback in progress
  pending,        \* of each loop: pendingFuncs_
  batch,          \* of each loop: the whole of funcs in doPendingFuncs_
  pos,            \* of each loop: how many functors of the batch have started
  budget,         \* of each connection: calls its callbacks may still make (bound)
  idler           \* the main thread inside a timer's TcpConnection::shutdown()

connVars == <<loopOf, state_, outputBuffer_, handler, seen>>
queueVars == <<batch, pos, phase>>
acceptVars == <<nextConnId_, next_, listening_, backlog>>
serverVars == <<acceptVars, connections_>>
vars == <<status, serverVars, connVars, net, active, frame, pending, queueVars, budget, idler>>

\* handleEvents(): the callbacks still due; cb: the user callback now running, if
\* any, and whether it goes on calling.
Idle == [conn |-> 0, todo |-> <<>>, cb |-> "none", calling |-> FALSE]
Callback(c, todo, cb) == [conn |-> c, todo |-> todo, cb |-> cb, calling |-> cb \in CallingCallbacks]

SharedOps == {"connectEstablished", "connectDestroyed", "handleRemoveConnectionInLoop",
              "writeComplete"}
RawOps == {"shutdownInLoop"}
Functor(o, c) == [op |-> o, conn |-> c]
Functors == [op : SharedOps \cup RawOps, conn : Conns]

Init ==
  /\ status = "up"
  /\ nextConnId_ = 1
  /\ next_ = 1
  /\ connections_ = {}
  /\ listening_ = FALSE
  /\ backlog = 0
  /\ loopOf = [c \in Conns |-> Main]
  /\ state_ = [c \in Conns |-> "CONNECTING"]
  /\ outputBuffer_ = [c \in Conns |-> FALSE]
  /\ handler = [c \in Conns |-> NewHandler]
  /\ seen = [c \in Conns |-> <<>>]
  /\ net = [c \in Conns |-> [sent |-> 0, queued |-> FALSE, fin |-> FALSE, rst |-> FALSE,
                             err |-> FALSE, shut |-> FALSE]]
  /\ phase = [l \in Loops |-> IF l = Main THEN "io" ELSE "poll"]
  /\ active = [l \in Workers |-> {}]
  /\ frame = [l \in Workers |-> Idle]
  /\ pending = [l \in Loops |-> <<>>]
  /\ batch = [l \in Loops |-> <<>>]
  /\ pos = [l \in Loops |-> 0]
  /\ budget = [c \in Conns |-> MaxCalls]
  /\ idler = [pc |-> "idle", conn |-> 0]

-----------------------------------------------------------------------------
(* Who keeps a connection alive.                                           *)

SharedFunctor(q, c) == \E i \in DOMAIN q : q[i].conn = c /\ q[i].op \in SharedOps

\* The TcpConnectionPtrs: the map's, those bound in functors, the one passed to a
\* callback, and the one an idle entry's weak_ptr was locked into.
Referenced(c) ==
  \/ c \in connections_
  \/ \E l \in Loops : SharedFunctor(pending[l], c) \/ SharedFunctor(batch[l], c)
  \/ \E l \in Workers : frame[l].cb # "none" /\ frame[l].conn = c
  \/ idler.pc # "idle" /\ idler.conn = c

Alive(c) == c < nextConnId_ /\ Referenced(c)

\* The status after code of connection c that ends the process if `fails' (called
\* name), or runs on a destroyed object.
Outcome(c, fails, name) ==
  IF ~Alive(c) THEN "use after free" ELSE IF fails THEN name ELSE status

-----------------------------------------------------------------------------
(* The peer and the kernel.                                                *)

Reachable(c) == Alive(c) /\ ~net[c].fin /\ ~net[c].rst

PeerConnect ==
  /\ status = "up" /\ listening_ /\ nextConnId_ + backlog \in Conns
  /\ backlog' = backlog + 1
  /\ UNCHANGED <<status, nextConnId_, next_, listening_, connections_, connVars, net, active,
                 frame, pending, queueVars, budget, idler>>

PeerSend(c) ==
  /\ status = "up" /\ Reachable(c) /\ net[c].sent < MaxMsgs
  /\ net' = [net EXCEPT ![c].sent = @ + 1, ![c].queued = TRUE]
  /\ UNCHANGED <<status, serverVars, connVars, active, frame, pending, queueVars, budget, idler>>

PeerClose(c) ==
  /\ status = "up" /\ Reachable(c)
  /\ net' = [net EXCEPT ![c].fin = TRUE]
  /\ UNCHANGED <<status, serverVars, connVars, active, frame, pending, queueVars, budget, idler>>

PeerReset(c) ==
  /\ status = "up" /\ Alive(c) /\ ~net[c].rst
  /\ net' = [net EXCEPT ![c].rst = TRUE, ![c].err = TRUE]
  /\ UNCHANGED <<status, serverVars, connVars, active, frame, pending, queueVars, budget, idler>>

\* Data, end of file or an error: the socket is readable.  EPOLLHUP and EPOLLERR
\* are reported whatever the interest.
Revents(c) ==
  (IF net[c].queued \/ net[c].fin \/ net[c].rst THEN {"in"} \cap handler[c].interest ELSE {})
  \cup (IF net[c].rst \/ (net[c].fin /\ net[c].shut) THEN {"hup"} ELSE {})
  \cup (IF net[c].err THEN {"err"} ELSE {})

\* A write can be taken in full; otherwise part of it, or nothing, is.
Writable(c) == ~net[c].rst /\ ~net[c].shut

\* shutdown(SHUT_WR) fails with ENOTCONN once the connection is gone.
ShutdownFails(c) == net[c].rst \/ (net[c].fin /\ net[c].shut)

-----------------------------------------------------------------------------
(* The main loop: Acceptor, TcpServer, the idle timer.                     *)

MainIsFree == status = "up" /\ phase[Main] = "io" /\ idler.pc = "idle"

\* Acceptor::listen: its Handler is enabled and never disabled.
Listen == listening_' = TRUE

\* TcpServer::start, in the main thread and before its loop: listen at once.
Start ==
  /\ MainIsFree /\ ~listening_
  /\ Listen
  /\ UNCHANGED <<status, nextConnId_, next_, backlog, connections_, connVars, net, active, frame,
                 pending, queueVars, budget, idler>>

\* getNextLoop: the workers in turn.
NextLoop == IF next_ = ThreadNum THEN 1 ELSE next_ + 1

\* sockets::accept takes the oldest connection; when it fails it has taken none.
AcceptOldest == backlog > 0 /\ backlog' = backlog - 1

\* Enter the connection in the map, give it to the next worker, and establish it there.
HandleNewConnection ==
  /\ nextConnId_' = nextConnId_ + 1
  /\ next_' = NextLoop
  /\ loopOf' = [loopOf EXCEPT ![nextConnId_] = next_]
  /\ connections_' = connections_ \cup {nextConnId_}
  /\ pending' = [pending EXCEPT ![next_] =
                   Append(@, Functor("connectEstablished", nextConnId_))]

\* Acceptor::handleRead: one connection at a time, and nothing if accept fails.
AcceptConnection ==
  /\ MainIsFree /\ listening_
  /\ AcceptOldest
  /\ HandleNewConnection
  /\ UNCHANGED <<status, listening_, state_, outputBuffer_, handler, seen, net, active, frame,
                 queueVars, budget, idler>>

\* ~Entry: lock the weak_ptr, and shutdown() tests state_ ...
IdleTest(c) ==
  /\ MainIsFree
  /\ IdleShutdown /\ Alive(c) /\ seen[c] # <<>>
  /\ state_[c] = "CONNECTED"
  /\ idler' = [pc |-> "set", conn |-> c]
  /\ UNCHANGED <<status, serverVars, connVars, net, active, frame, pending, queueVars, budget>>

\* ... sets it, while the worker goes on ...
IdleSet ==
  /\ status = "up" /\ idler.pc = "set"
  /\ state_' = [state_ EXCEPT ![idler.conn] = "DISCONNECTING"]
  /\ idler' = [idler EXCEPT !.pc = "queue"]
  /\ UNCHANGED <<status, serverVars, loopOf, outputBuffer_, handler, seen, net, active,
                 frame, pending, queueVars, budget>>

\* ... and queues shutdownInLoop, bound to a raw this, on the worker.
IdleQueue ==
  /\ status = "up" /\ idler.pc = "queue"
  /\ pending' = [pending EXCEPT ![loopOf[idler.conn]] =
                   Append(@, Functor("shutdownInLoop", idler.conn))]
  /\ idler' = [pc |-> "idle", conn |-> 0]
  /\ UNCHANGED <<status, serverVars, connVars, net, active, frame, queueVars, budget>>

-----------------------------------------------------------------------------
(* doPendingFuncs_, of every loop.                                         *)

\* Slip: a worker goes on to its functors after the first handler.
ServedOne(l) == IF l = Main THEN idler.pc = "idle" ELSE frame[l] = Idle

\* All handlers poll returned have been served.
ServingDone(l) ==
  IF l = Main THEN idler.pc = "idle" ELSE active[l] = {} /\ frame[l] = Idle

SwapPending(l) ==
  /\ status = "up" /\ phase[l] = "io" /\ ServingDone(l)
  /\ l = Main => pending[Main] # <<>>
  /\ batch' = [batch EXCEPT ![l] = pending[l]]
  /\ pending' = [pending EXCEPT ![l] = <<>>]
  /\ phase' = [phase EXCEPT ![l] = "batch"]
  /\ UNCHANGED <<status, serverVars, connVars, net, active, frame, pos, idler, budget>>

\* The batch is destroyed, and with it the references its functors hold.
FinishBatch(l) ==
  /\ status = "up" /\ phase[l] = "batch" /\ pos[l] = Len(batch[l])
  /\ l \in Workers => frame[l] = Idle
  /\ batch' = [batch EXCEPT ![l] = <<>>]
  /\ pos' = [pos EXCEPT ![l] = 0]
  /\ phase' = [phase EXCEPT ![l] = IF l = Main THEN "io" ELSE "poll"]
  /\ UNCHANGED <<status, serverVars, connVars, net, active, frame, pending, idler, budget>>

\* The next functor of l's batch is `o' of connection c.
Runs(l, o, c) ==
  /\ status = "up" /\ phase[l] = "batch" /\ pos[l] < Len(batch[l])
  /\ l \in Workers => frame[l] = Idle
  /\ batch[l][pos[l] + 1] = Functor(o, c)
  /\ pos' = [pos EXCEPT ![l] = @ + 1]

\* Slip: the connection stays in the map.
KeepConnection(c) ==
  /\ Runs(Main, "handleRemoveConnectionInLoop", c)
  /\ status' = Outcome(c, FALSE, "")
  /\ pending' = [pending EXCEPT ![loopOf[c]] = Append(@, Functor("connectDestroyed", c))]
  /\ UNCHANGED <<serverVars, connVars, net, active, frame, batch, phase, idler, budget>>

\* Slip: a second removal is not noticed, as in a build without assertions.
RemoveAnyNumber(c) ==
  /\ Runs(Main, "handleRemoveConnectionInLoop", c)
  /\ status' = Outcome(c, FALSE, "")
  /\ connections_' = connections_ \ {c}
  /\ pending' = [pending EXCEPT ![loopOf[c]] = Append(@, Functor("connectDestroyed", c))]
  /\ UNCHANGED <<acceptVars, connVars, net, active, frame, batch, phase, idler, budget>>

\* Slip: the connection is forgotten and not destroyed.
ForgetConnection(c) ==
  /\ Runs(Main, "handleRemoveConnectionInLoop", c)
  /\ status' = Outcome(c, c \notin connections_, "assert(n == 1)")
  /\ connections_' = connections_ \ {c}
  /\ UNCHANGED <<acceptVars, connVars, net, active, frame, pending, batch, phase,
                 idler, budget>>

\* Slip: a connection is destroyed on whatever worker comes next.
DestroyOnNextLoop(c) ==
  /\ Runs(Main, "handleRemoveConnectionInLoop", c)
  /\ status' = Outcome(c, c \notin connections_, "assert(n == 1)")
  /\ connections_' = connections_ \ {c}
  /\ pending' = [pending EXCEPT ![next_] = Append(@, Functor("connectDestroyed", c))]
  /\ UNCHANGED <<acceptVars, connVars, net, active, frame, batch, phase, idler, budget>>

\* The connection leaves the map; the worker will destroy it.
HandleRemoveConnectionInLoop(c) ==
  /\ Runs(Main, "handleRemoveConnectionInLoop", c)
  /\ status' = Outcome(c, c \notin connections_, "assert(n == 1)")
  /\ connections_' = connections_ \ {c}
  /\ pending' = [pending EXCEPT ![loopOf[c]] = Append(@, Functor("connectDestroyed", c))]
  /\ UNCHANGED <<acceptVars, connVars, net, active, frame, batch, phase, idler, budget>>

\* What connected() says to the connection callback.
Said(s) == IF s = "CONNECTED" THEN "up" ELSE "down"

\* connectEstablished: only from CONNECTING, and nothing closes it before it is up.
ConnectEstablished(l, c) ==
  /\ Runs(l, "connectEstablished", c)
  /\ status' = Outcome(c, state_[c] # "CONNECTING" \/ UpdateFails(handler[c]),
                       "connectEstablished failed")
  /\ state_' = [state_ EXCEPT ![c] = "CONNECTED"]
  /\ handler' = [handler EXCEPT ![c] = Enable(@, "in")]
  /\ seen' = [seen EXCEPT ![c] = Append(@, Said(state_'[c]))]
  /\ frame' = [frame EXCEPT ![l] = Callback(c, <<>>, "connection")]
  /\ UNCHANGED <<serverVars, loopOf, outputBuffer_, net, active, pending, batch, phase, idler, budget>>

\* The connection callback comes between disableAll and removeHandler; none of
\* the calls it can make does anything to a connection that is not CONNECTED.
ConnectDestroyed(l, c) ==
  /\ Runs(l, "connectDestroyed", c)
  /\ status' = Outcome(c, UpdateFails(handler[c]) \/ RemoveFails(DisableAll(handler[c])),
                       "connectDestroyed failed")
  /\ state_' = [state_ EXCEPT ![c] = "DISCONNECTED"]
  /\ handler' = [handler EXCEPT ![c] = RemoveHandler(DisableAll(@))]
  /\ seen' = [seen EXCEPT ![c] = Append(@, Said(state_'[c]))]
  /\ UNCHANGED <<serverVars, loopOf, outputBuffer_, net, active, frame, pending, batch,
                 phase, idler, budget>>

WriteComplete(l, c) ==
  /\ Runs(l, "writeComplete", c)
  /\ frame' = [frame EXCEPT ![l] = Callback(c, <<>>, "write")]
  /\ UNCHANGED <<status, serverVars, connVars, net, active, pending, batch, phase, idler, budget>>

\* sockets::shutdownWrite, if asked to, sends the FIN, or ends the process.
ShutdownWrite(c, asked) ==
  /\ status' = Outcome(c, asked /\ ShutdownFails(c), "shutdownWrite failed")
  /\ net' = [net EXCEPT ![c].shut = @ \/ asked]

\* Slip: it does not look at isWriting().
ShutdownAtOnce(c) == ShutdownWrite(c, TRUE)

\* shutdownInLoop: the FIN is sent now, unless handleWrite will when it has flushed.
ShutdownInLoop(c) == ShutdownWrite(c, "out" \notin handler[c].events)

RunShutdownInLoop(l, c) ==
  /\ Runs(l, "shutdownInLoop", c)
  /\ ShutdownInLoop(c)
  /\ UNCHANGED <<serverVars, connVars, active, frame, pending, batch, phase, idler, budget>>

-----------------------------------------------------------------------------
(* The worker loop: Poller::poll and Handler::handleEvents.                *)

\* Slip: a queued functor does not wake the loop up.
HandlerReady(l, served) == served # {}

\* epoll_wait returns: a handler is ready, or the eventfd is (EventLoop!NeverSleepsOnWork).
Ready(l, served) == served # {} \/ pending[l] # <<>>

\* Fewer fds than maxEventNum_ are open, so poll returns all that are ready; the
\* kernel decides whether there is room to write.
Poll(l) ==
  /\ status = "up" /\ phase[l] = "poll" /\ Len(pending[Main]) < MaxQueue
  /\ LET polled == {c \in Conns : loopOf[c] = l /\ handler[c].polled}
         waiting == {c \in polled : "out" \in handler[c].interest}
     IN  \E room \in SUBSET waiting :
           active' = [active EXCEPT ![l] =
             {[conn |-> c, revs |-> Revents(c) \cup (IF c \in room THEN {"out"} ELSE {})] :
                c \in {d \in polled : Revents(d) # {} \/ d \in room}}]
  /\ Ready(l, active'[l])
  /\ phase' = [phase EXCEPT ![l] = "io"]
  /\ UNCHANGED <<status, serverVars, connVars, net, frame, pending, batch, pos, idler, budget>>

\* The callbacks of handleEvents, in its order; errorCb_ does nothing.
Due(revs) ==
  (IF "hup" \in revs /\ "in" \notin revs THEN <<"handleClose">> ELSE <<>>)
  \o (IF revs \cap {"in", "hup"} # {} THEN <<"handleRead">> ELSE <<>>)
  \o (IF "out" \in revs THEN <<"handleWrite">> ELSE <<>>)

HandleEvents(l) ==
  /\ status = "up" /\ phase[l] = "io" /\ frame[l] = Idle
  /\ \E a \in active[l] :
       /\ active' = [active EXCEPT ![l] = @ \ {a}]
       /\ status' = Outcome(a.conn, FALSE, "")
       /\ frame' = [frame EXCEPT ![l] =
                      IF Due(a.revs) = <<>> THEN Idle
                      ELSE [conn |-> a.conn, todo |-> Due(a.revs), cb |-> "none", calling |-> FALSE]]
  /\ UNCHANGED <<serverVars, connVars, net, pending, queueVars, budget, idler>>

\* The frame after the callback due now has returned.
NextDue(l) == IF Len(frame[l].todo) = 1 THEN Idle ELSE [frame[l] EXCEPT !.todo = Tail(@)]

Calls(l, callback) ==
  /\ status = "up" /\ frame[l].cb = "none"
  /\ frame[l].todo # <<>> /\ Head(frame[l].todo) = callback

\* Slip: the handler stays enabled.
CloseOnly(c) ==
  /\ status' = Outcome(c, state_[c] # "CONNECTED", "handleClose failed")
  /\ pending' = [pending EXCEPT ![Main] = Append(@, Functor("handleRemoveConnectionInLoop", c))]
  /\ UNCHANGED handler

\* handleClose: only when CONNECTED; state_ stays so.
HandleClose(c) ==
  /\ status' = Outcome(c, state_[c] # "CONNECTED" \/ UpdateFails(handler[c]),
                       "handleClose failed")
  /\ handler' = [handler EXCEPT ![c] = DisableAll(@)]
  /\ pending' = [pending EXCEPT ![Main] = Append(@, Functor("handleRemoveConnectionInLoop", c))]

HandleHangup(l) ==
  /\ Calls(l, "handleClose")
  /\ HandleClose(frame[l].conn)
  /\ frame' = [frame EXCEPT ![l] = NextDue(l)]
  /\ UNCHANGED <<serverVars, loopOf, state_, outputBuffer_, seen, net, active, queueVars, budget, idler>>

\* handleRead, n > 0: the message callback.
ReadMessage(l) ==
  LET c == frame[l].conn IN
  /\ Calls(l, "handleRead") /\ net[c].queued
  /\ status' = Outcome(c, FALSE, "")
  /\ net' = [net EXCEPT ![c].queued = FALSE]
  /\ frame' = [frame EXCEPT ![l] = Callback(c, Tail(@.todo), "message")]
  /\ UNCHANGED <<serverVars, connVars, active, pending, queueVars, budget, idler>>

\* handleRead, n < 0: handleError does nothing; the socket's error is cleared.
ReadError(l) ==
  LET c == frame[l].conn IN
  /\ Calls(l, "handleRead") /\ ~net[c].queued
  /\ net[c].err \/ ~(net[c].fin \/ net[c].rst)
  /\ status' = Outcome(c, FALSE, "")
  /\ net' = [net EXCEPT ![c].err = FALSE]
  /\ frame' = [frame EXCEPT ![l] = NextDue(l)]
  /\ UNCHANGED <<serverVars, connVars, active, pending, queueVars, budget, idler>>

\* handleRead, n = 0: the peer has closed.
ReadEof(l) ==
  LET c == frame[l].conn IN
  /\ Calls(l, "handleRead")
  /\ ~net[c].queued /\ ~net[c].err /\ (net[c].fin \/ net[c].rst)
  /\ HandleClose(c)
  /\ frame' = [frame EXCEPT ![l] = NextDue(l)]
  /\ UNCHANGED <<serverVars, loopOf, state_, outputBuffer_, seen, net, active, queueVars, budget, idler>>

Completed(l, c) ==
  pending' = IF HasWriteCallback
             THEN [pending EXCEPT ![l] = Append(@, Functor("writeComplete", c))]
             ELSE pending

\* handleWrite that leaves something in outputBuffer_, or finds writing disabled
\* by a callback that came before it in handleEvents.
WriteSome(l) ==
  LET c == frame[l].conn IN
  /\ Calls(l, "handleWrite")
  /\ status' = Outcome(c, FALSE, "")
  /\ frame' = [frame EXCEPT ![l] = NextDue(l)]
  /\ UNCHANGED <<serverVars, connVars, net, active, pending, queueVars, budget, idler>>

\* handleWrite that empties outputBuffer_; it sends the FIN a shutdown() waits for.
WriteRest(l) ==
  LET c == frame[l].conn IN
  /\ Calls(l, "handleWrite") /\ "out" \in handler[c].events /\ outputBuffer_[c] /\ Writable(c)
  /\ outputBuffer_' = [outputBuffer_ EXCEPT ![c] = FALSE]
  /\ handler' = [handler EXCEPT ![c] = Disable(@, "out")]
  /\ Completed(l, c)
  /\ status' = Outcome(c, UpdateFails(handler[c]), "handleWrite failed")
  /\ net' = [net EXCEPT ![c].shut = @ \/ state_[c] = "DISCONNECTING"]
  /\ frame' = [frame EXCEPT ![l] = NextDue(l)]
  /\ UNCHANGED <<serverVars, loopOf, state_, seen, active, queueVars, budget, idler>>

-----------------------------------------------------------------------------
(* The program's callbacks, on the worker: connection, message and write-  *)
(* complete callbacks may call the connection they are given.              *)

UserCall(l, call) ==
  /\ status = "up" /\ frame[l].calling /\ call \in UserCalls
  /\ budget[frame[l].conn] > 0
  /\ state_[frame[l].conn] = "CONNECTED"

Counted(l) == budget' = [budget EXCEPT ![frame[l].conn] = @ - 1]

\* send() and sendInLoop: write at once if nothing is waiting, keep the rest.
SendAll(l) ==
  LET c == frame[l].conn IN
  /\ UserCall(l, "send")
  /\ "out" \notin handler[c].events /\ ~outputBuffer_[c] /\ Writable(c)
  /\ Completed(l, c)
  /\ Counted(l)
  /\ UNCHANGED <<status, serverVars, connVars, net, active, frame, queueVars, idler>>

SendSome(l) ==
  LET c == frame[l].conn
      writing == "out" \in handler[c].events
  IN
  /\ UserCall(l, "send")
  /\ outputBuffer_' = [outputBuffer_ EXCEPT ![c] = TRUE]
  /\ handler' = IF writing THEN handler ELSE [handler EXCEPT ![c] = Enable(@, "out")]
  /\ status' = Outcome(c, ~writing /\ UpdateFails(handler[c]), "send failed")
  /\ Counted(l)
  /\ UNCHANGED <<serverVars, loopOf, state_, seen, net, active, frame, pending, queueVars, idler>>

Shutdown(l) ==
  LET c == frame[l].conn IN
  /\ UserCall(l, "shutdown")
  /\ state_' = [state_ EXCEPT ![c] = "DISCONNECTING"]
  /\ ShutdownInLoop(c)
  /\ Counted(l)
  /\ UNCHANGED <<serverVars, loopOf, outputBuffer_, handler, seen, active, frame, pending,
                 queueVars, idler>>

ForceClose(l) ==
  /\ UserCall(l, "forceClose")
  /\ HandleClose(frame[l].conn)
  /\ frame' = [frame EXCEPT ![l].calling = CallsAfterClose]
  /\ Counted(l)
  /\ UNCHANGED <<serverVars, loopOf, state_, outputBuffer_, seen, net, active, queueVars, idler>>

CallbackReturns(l) ==
  /\ status = "up" /\ frame[l].cb # "none"
  /\ frame' = [frame EXCEPT ![l] =
       IF @.todo = <<>> THEN Idle ELSE [@ EXCEPT !.cb = "none", !.calling = FALSE]]
  /\ UNCHANGED <<status, serverVars, connVars, net, active, pending, queueVars, budget, idler>>

-----------------------------------------------------------------------------
PeerStep == PeerConnect \/ \E c \in Conns : PeerSend(c) \/ PeerClose(c) \/ PeerReset(c)

IdleTimer == \E c \in Conns : IdleTest(c)

MainStep ==
  \/ Start \/ AcceptConnection
  \/ IdleSet \/ IdleQueue
  \/ SwapPending(Main) \/ FinishBatch(Main)
  \/ \E c \in Conns : HandleRemoveConnectionInLoop(c)

WorkerStep(l) ==
  \/ Poll(l) \/ HandleEvents(l)
  \/ HandleHangup(l) \/ ReadMessage(l) \/ ReadError(l) \/ ReadEof(l)
  \/ WriteSome(l) \/ WriteRest(l)
  \/ SwapPending(l) \/ FinishBatch(l)
  \/ \E c \in Conns : ConnectEstablished(l, c) \/ ConnectDestroyed(l, c)
                      \/ WriteComplete(l, c) \/ RunShutdownInLoop(l, c)
  \/ SendAll(l) \/ SendSome(l) \/ Shutdown(l) \/ ForceClose(l) \/ CallbackReturns(l)

Next ==
  \/ PeerStep
  \/ IdleTimer
  \/ MainStep
  \/ \E l \in Workers : WorkerStep(l)

Spec == Init /\ [][Next]_vars

\* Every loop thread runs whenever it has work (EventLoop!NeverSleepsOnWork), and
\* user callbacks return.  Peers owe nothing; the program need not call anything.
Fairness == WF_vars(MainStep) /\ \A l \in Workers : WF_vars(WorkerStep(l))

FairSpec == Spec /\ Fairness

-----------------------------------------------------------------------------
(* Properties.                                                             *)

ConnStates == {"CONNECTING", "CONNECTED", "DISCONNECTING", "DISCONNECTED"}

\* Every variable has its type, a worker's handlers are served and its callbacks
\* run in the phase they belong to, and a batch exists only while it is run.
TypeOK ==
  /\ nextConnId_ \in 1 .. MaxConns + 1
  /\ next_ \in Workers
  /\ connections_ \subseteq 1 .. nextConnId_ - 1
  /\ listening_ \in BOOLEAN
  /\ backlog \in 0 .. MaxConns + 1 - nextConnId_
  /\ loopOf \in [Conns -> Loops]
  /\ state_ \in [Conns -> ConnStates]
  /\ outputBuffer_ \in [Conns -> BOOLEAN]
  /\ handler \in [Conns -> HandlerRecords]
  /\ seen \in [Conns -> Seq({"up", "down"})]
  /\ budget \in [Conns -> 0 .. MaxCalls]
  /\ net \in [Conns -> [sent : 0 .. MaxMsgs, queued : BOOLEAN, fin : BOOLEAN, rst : BOOLEAN,
                        err : BOOLEAN, shut : BOOLEAN]]
  /\ idler \in [pc : {"idle", "set", "queue"}, conn : Conns \cup {0}]
  /\ phase \in [Loops -> {"poll", "io", "batch"}]
  /\ pending \in [Loops -> Seq(Functors)]
  /\ batch \in [Loops -> Seq(Functors)]
  /\ pos \in [Loops -> Nat]
  /\ active \in [Workers -> SUBSET [conn : Conns, revs : SUBSET {"in", "out", "hup", "err"}]]
  /\ frame \in [Workers -> [conn : Conns \cup {0}, calling : BOOLEAN,
                            todo : Seq({"handleClose", "handleRead", "handleWrite"}),
                            cb : {"none", "connection", "message", "write"}]]
  /\ \A l \in Loops : pos[l] <= Len(batch[l]) /\ (phase[l] # "batch" => batch[l] = <<>>)
  /\ \A l \in Workers :
       /\ active[l] # {} => phase[l] = "io"
       /\ phase[l] = "poll" => frame[l] = Idle
       /\ phase[l] = "batch" => frame[l].todo = <<>>

\* The process is not ended by one of its own checks, by a failing epoll_ctl or
\* shutdown, or by running code of a destroyed connection.
NeverFails == status = "up"

\* TcpConnection::handleClose is only ever reached by a connection that is CONNECTED,
\* as its check says.
HandleCloseWhenConnected == status # "handleClose failed"

\* TcpServer::handleRemoveConnectionInLoop runs once for a connection: its erase
\* finds the connection in the map, as assert(n == 1) says.
RemovedOnce == status # "assert(n == 1)"

\* What module Connection says of c.
RunningOn(l, c) == frame[l].conn = c /\ frame[l].cb # "none"
Running(c) ==
  IF status = "up" /\ \E l \in Workers : RunningOn(l, c)
  THEN frame[CHOOSE l \in Workers : RunningOn(l, c)].cb ELSE "none"

AsConnection(c) == INSTANCE Connection WITH
  ended <- status # "up", held <- Alive(c), said <- seen[c], running <- Running(c)

\* What the program on top sees of a connection, whatever it calls: it is up once and
\* down at most once, its callbacks come one at a time, messages only in between, and
\* it is let go of after it has been down, with no callback to come.
RefinesConnection ==
  /\ \A c \in Conns : AsConnection(c)!Init
  /\ [][\A c \in Conns : [AsConnection(c)!Next]_(AsConnection(c)!vars)]_vars

\* Whatever the program calls, and whenever, the process is only ended in the four ways
\* this code knows, and for their reasons: not by a connection that is established,
\* written to or destroyed; by the use of a destroyed one only in a functor with a raw
\* `this'; by a removal of what is gone only if the program went on calling a connection
\* that was closed, after its forceClose or from a write-complete callback; by handleClose
\* only after a shutdown(); by the shutdown of a socket only if its peer has reset it, or
\* both sides have closed it.
Just(l) == batch[l][pos[l]]
EndsAreExplained ==
  \/ status = "up"
  \/ /\ status = "use after free"
     /\ \E l \in Workers : pos[l] > 0 /\ Just(l).op \in RawOps /\ ~Alive(Just(l).conn)
  \/ /\ status = "assert(n == 1)"
     /\ CallsAfterClose \/ (HasWriteCallback /\ "write" \in CallingCallbacks)
     /\ budget[Just(Main).conn] + 2 <= MaxCalls
  \/ status = "handleClose failed" /\ \E c \in Conns : state_[c] = "DISCONNECTING"
  \/ status = "shutdownWrite failed" /\ \E c \in Conns : ShutdownFails(c)

\* A Poller never holds the Handler of a destroyed connection, and no handler of one
\* is left to serve: its fd may be reused, and its Handler* dangles.
NoDanglingHandler ==
  status = "up" =>
    /\ \A c \in Conns : handler[c].listed => Alive(c)
    /\ \A l \in Workers : \A a \in active[l] : Alive(a.conn)

\* Handler, handlerList_ and the kernel's interest list agree, and an open
\* connection waits for EPOLLOUT exactly while it has output to write.
RegistrationConsistent ==
  status = "up" =>
    \A c \in Conns :
      /\ Consistent(handler[c])
      /\ handler[c].events # {} => ("out" \in handler[c].events <=> outputBuffer_[c])

\* A connection the server has forgotten is on its way out, and one that is out is
\* forgotten: main erases it before the worker it was given to, and no other, destroys
\* it, never the reverse.
RemovedBeforeDestroyed ==
  status = "up" =>
    \A c \in 1 .. nextConnId_ - 1 :
      LET l == loopOf[c] IN
      c \notin connections_ <=>
        \/ Len(seen[c]) = 2
        \/ \E i \in DOMAIN pending[l] : pending[l][i] = Functor("connectDestroyed", c)
        \/ \E i \in DOMAIN batch[l] :
             i > pos[l] /\ batch[l][i] = Functor("connectDestroyed", c)

\* shutdown() is graceful: the FIN follows the last byte of the output, unless the
\* connection was closed in between.
FinAfterOutput ==
  [][\A c \in Conns :
       ~net[c].shut /\ net'[c].shut /\ "in" \in handler[c].events => ~outputBuffer_'[c]]_vars

\* A peer that connects is served: its connection comes up, whatever the others do.
ConnectedIsUp ==
  \A c \in Conns : (nextConnId_ + backlog > c) ~> (status # "up" \/ seen[c] # <<>>)

\* When the peer closes or resets, the program hears of it and the server lets go of
\* the connection, whatever else is going on, unless one of its checks ends the process.
ClosedIsDestroyed ==
  \A c \in Conns :
    (net[c].fin \/ net[c].rst)
      ~> (status # "up" \/ (~Alive(c) /\ seen[c] = <<"up", "down">>))
=============================================================================
