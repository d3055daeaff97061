------------------------- MODULE TcpServerRefinement -------------------------
(***************************************************************************)
(* TcpServer implements Connection: every step of the server is, for every *)
(* connection, a step of what the program on top was promised, or none.    *)
(***************************************************************************)
EXTENDS TcpServerProofs

\* What keeps connection c alive, and the callback of c that runs, by loop; the one
\* that runs now.
Holds(l, c) == SharedFunctor(pending[l], c) \/ SharedFunctor(batch[l], c)
Call(l, c) == IF frame[l].conn = c THEN frame[l].cb ELSE "none"
Now(c) == IF c < nextConnId_ THEN Call(loopOf[c], c) ELSE "none"

\* No callback of a connection runs but on its own worker, and the connections without
\* a reference are those not accepted yet and those that are down.
Watched(c) ==
  /\ Running(c) = Now(c)
  /\ ~Alive(c) => /\ Now(c) = "none"
                  /\ \/ ~(c < nextConnId_) /\ seen[c] = <<>>
                     \/ c < nextConnId_ /\ seen[c] = <<"up", "down">>

AllWatched == status = "up" => \A c \in Conns : Watched(c)

LEMMA RunningNow ==
  ASSUME TypeOK, Good, status = "up", NEW c \in Conns
  PROVE  Running(c) = Now(c)
<1>1. ASSUME NEW l \in Workers, RunningOn(l, c)
      PROVE  c < nextConnId_ /\ loopOf[c] = l /\ frame[l].conn = c
  BY <1>1, InCallback DEF RunningOn, Serves
<1>2. CASE \E l \in Workers : RunningOn(l, c)
  <2>1. PICK l \in Workers : RunningOn(l, c)
    BY <1>2
  <2>2. \A k \in Workers : RunningOn(k, c) => k = l
    BY <1>1, <2>1
  <2>3. (CHOOSE k \in Workers : RunningOn(k, c)) = l
    BY <2>1, <2>2
  <2>4. Running(c) = frame[l].cb
    BY <1>2, <2>3 DEF Running
  <2> QED
    BY <1>1, <2>1, <2>4 DEF Now, Call
<1>3. CASE ~\E l \in Workers : RunningOn(l, c)
  <2>1. Running(c) = "none"
    BY <1>3 DEF Running
  <2>2. c < nextConnId_ => loopOf[c] \in Workers
    BY DEF Good, ConnInv
  <2>3. c < nextConnId_ => Call(loopOf[c], c) = "none"
    BY <1>3, <2>2 DEF Call, RunningOn
  <2> QED
    BY <2>1, <2>3 DEF Now
<1> QED
  BY <1>2, <1>3

LEMMA ServerWatched ==
  ASSUME TypeOK, Good, status = "up", NEW c \in Conns
  PROVE  Watched(c)
<1>1. Running(c) = Now(c)
  BY RunningNow
<1>2. ASSUME ~Alive(c) PROVE Now(c) = "none"
  <2>1. c < nextConnId_ => loopOf[c] \in Workers
    BY DEF Good, ConnInv
  <2> QED
    BY <1>2, <2>1 DEF Now, Call, Alive, Referenced
<1>3. ASSUME ~Alive(c)
      PROVE  \/ ~(c < nextConnId_) /\ seen[c] = <<>>
             \/ c < nextConnId_ /\ seen[c] = <<"up", "down">>
  <2>1. PICK l \in Loops : loopOf[c] = l
    BY DEF TypeOK
  <2>2. Life(c, l)
    BY <2>1 DEF Good, ConnInv
  <2>3. ~Open(c, l)
    BY <1>3, OpenIsAlive
  <2>4. ~Coming(c, l)
    BY <1>3 DEF Coming, Alive, Referenced
  <2> QED
    BY <2>2, <2>3, <2>4, Numbers, NextIsNat DEF Life, Fresh, Unused, Gone
<1> QED
  BY <1>1, <1>2, <1>3 DEF Watched

-----------------------------------------------------------------------------
(* The steps of a connection.                                              *)

\* Nothing is told of c, and no new reference to it is made: at most it is let go of.
Stays(c) ==
  /\ seen'[c] = seen[c] /\ Now(c)' = Now(c)
  /\ c < nextConnId_ => c < nextConnId_'
  /\ Alive(c)' => Alive(c)

Accepted(c) ==
  /\ ~Alive(c) /\ Alive(c)' /\ seen[c] = <<>>
  /\ seen'[c] = seen[c] /\ Now(c)' = Now(c)

Told(c) ==
  /\ Alive(c) /\ Alive(c)'
  /\ \/ seen[c] = <<>> /\ seen'[c] = <<"up">> /\ Now(c)' = "connection"
     \/ /\ seen'[c] = seen[c] /\ Now(c) = "none"
        /\ \/ seen[c] = <<"up">> /\ Now(c)' = "message"
           \/ seen[c] # <<>> /\ Now(c)' = "write"
     \/ seen'[c] = seen[c] /\ Now(c) # "none" /\ Now(c)' = "none"
     \/ seen[c] = <<"up">> /\ seen'[c] = <<"up", "down">> /\ Now(c) = "none" /\ Now(c)' = "none"

LEMMA ImplementsNext ==
  ASSUME status = "up", status' = "up", NEW c \in Conns, Watched(c), Watched(c)',
         Stays(c) \/ Accepted(c) \/ Told(c)
  PROVE  [AsConnection(c)!Next]_(AsConnection(c)!vars)
<1>1. Running(c) = Now(c) /\ Running(c)' = Now(c)'
  BY DEF Watched
<1>2. CASE Stays(c)
  <2>1. CASE Alive(c)' <=> Alive(c)
    <3>1. Alive(c)' = Alive(c)
      BY <2>1 DEF Alive
    <3>2. (status' # "up") = (status # "up")
      OBVIOUS
    <3>3. Running(c)' = Running(c) /\ seen'[c] = seen[c]
      BY <1>1, <1>2 DEF Stays
    <3> QED
      BY <3>1, <3>2, <3>3, Zenon DEF AsConnection!vars
  <2>2. CASE Alive(c) /\ ~Alive(c)'
    <3>1. c < nextConnId_'
      BY <1>2, <2>2 DEF Stays, Alive
    <3>2. Now(c)' = "none" /\ (~(c < nextConnId_') \/ seen'[c] = <<"up", "down">>)
      BY <2>2 DEF Watched
    <3> QED
      BY <1>1, <1>2, <2>2, <3>1, <3>2 DEF Stays, AsConnection!Next, AsConnection!Release
  <2> QED
    BY <1>2, <2>1, <2>2 DEF Stays
<1>3. CASE Accepted(c)
  BY <1>1, <1>3 DEF Accepted, AsConnection!Next, AsConnection!Accept
<1>4. CASE Told(c)
  BY <1>1, <1>4 DEF Told, AsConnection!Next, AsConnection!Up, AsConnection!Message,
     AsConnection!WriteComplete, AsConnection!Return, AsConnection!Down
<1> QED
  BY <1>2, <1>3, <1>4

-----------------------------------------------------------------------------
(* Who holds c after a step.                                               *)

LEMMA AliveNow ==
  ASSUME NEW c \in Conns
  PROVE  Alive(c) <=>
           /\ c < nextConnId_
           /\ \/ c \in connections_
              \/ \E l \in Loops : Holds(l, c)
              \/ \E l \in Workers : Call(l, c) # "none"
              \/ idler.pc # "idle" /\ idler.conn = c
  BY DEF Alive, Referenced, Holds, Call

\* The queues change by at most one functor, which does not hold c if nothing else does.
Quiet(c) ==
  /\ batch' = batch
  /\ \/ pending' = pending
     \/ \E k \in Loops, f \in Functors :
          /\ pending' = [pending EXCEPT ![k] = Append(@, f)]
          /\ f.op \in SharedOps /\ f.conn = c => Alive(c)

HeldSame(c) == \A l \in Loops : Holds(l, c)' => Holds(l, c) \/ Alive(c)

LEMMA SharedAfterAppend ==
  ASSUME NEW S, NEW q \in Seq(S), NEW f \in S, NEW c
  PROVE  SharedFunctor(Append(q, f), c) =>
           SharedFunctor(q, c) \/ (f.conn = c /\ f.op \in SharedOps)
<1> DEFINE r == Append(q, f)
           n == Len(q)
<1>1. /\ n \in Nat /\ DOMAIN q = 1 .. n /\ DOMAIN r = 1 .. n + 1
      /\ \A i \in 1 .. n : r[i] = q[i]
      /\ r[n + 1] = f
  BY AppendProperties, LenProperties
<1> HIDE DEF r, n
<1>2. SharedFunctor(r, c) => SharedFunctor(q, c) \/ (f.conn = c /\ f.op \in SharedOps)
  <2> SUFFICES ASSUME NEW i \in 1 .. n + 1, r[i].conn = c, r[i].op \in SharedOps
               PROVE  SharedFunctor(q, c) \/ (f.conn = c /\ f.op \in SharedOps)
    BY <1>1 DEF SharedFunctor
  <2>1. i \in 1 .. n \/ i = n + 1
    BY <1>1
  <2> QED
    BY <1>1, <2>1 DEF SharedFunctor
<1> QED
  BY <1>2 DEF r

LEMMA QuietHolds ==
  ASSUME TypeOK, NEW c \in Conns, Quiet(c)
  PROVE  HeldSame(c)
<1> SUFFICES ASSUME NEW l \in Loops, Holds(l, c)' PROVE Holds(l, c) \/ Alive(c)
  BY DEF HeldSame
<1>1. CASE pending' = pending
  BY <1>1 DEF Quiet, Holds
<1>2. CASE pending' # pending
  <2>1. PICK k \in Loops, f \in Functors :
          /\ pending' = [pending EXCEPT ![k] = Append(@, f)]
          /\ f.op \in SharedOps /\ f.conn = c => Alive(c)
    BY <1>2 DEF Quiet
  <2>2. pending[l] \in Seq(Functors)
    BY QueueTypes
  <2>3. CASE l # k
    <3>1. pending'[l] = pending[l] /\ batch'[l] = batch[l]
      BY <2>1, <2>3 DEF TypeOK, Quiet
    <3> QED
      BY <3>1 DEF Holds
  <2>4. CASE l = k
    <3>1. pending'[l] = Append(pending[l], f) /\ batch'[l] = batch[l]
      BY <2>1, <2>4 DEF TypeOK, Quiet
    <3>2. SharedFunctor(Append(pending[l], f), c) \/ SharedFunctor(batch[l], c)
      BY <3>1 DEF Holds
    <3> QED
      BY <2>1, <2>2, <3>2, SharedAfterAppend DEF Holds
  <2> QED
    BY <2>3, <2>4
<1> QED
  BY <1>1, <1>2

LEMMA BatchHolds ==
  ASSUME TypeOK, NEW c \in Conns, NEW k \in Loops, SwapPending(k) \/ FinishBatch(k)
  PROVE  HeldSame(c)
<1> SUFFICES ASSUME NEW l \in Loops, Holds(l, c)' PROVE Holds(l, c)
  BY DEF HeldSame
<1>1. \/ pending'[l] = pending[l] /\ batch'[l] = batch[l]
      \/ pending'[l] = <<>> /\ batch'[l] = pending[l]
      \/ pending'[l] = pending[l] /\ batch'[l] = <<>>
  BY DEF SwapPending, FinishBatch, TypeOK
<1>2. ~SharedFunctor(<<>>, c)
  BY DEF SharedFunctor
<1> QED
  BY <1>1, <1>2 DEF Holds

\* A step that tells c nothing, and accepts nothing.
LEMMA NothingTold ==
  ASSUME TypeOK, Good, NEW c \in Conns, loopOf'[c] = loopOf[c], seen'[c] = seen[c],
         c < nextConnId_' <=> c < nextConnId_, c \in connections_' => c \in connections_,
         idler'.pc # "idle" /\ idler'.conn = c => (idler.pc # "idle" /\ idler.conn = c) \/ Alive(c),
         HeldSame(c), \A l \in Workers : Call(l, c)' = Call(l, c)
  PROVE  Stays(c)
<1>1. Now(c)' = Now(c)
  <2>1. c < nextConnId_ => loopOf[c] \in Workers
    BY DEF Good, ConnInv
  <2>2. c < nextConnId_ => Call(loopOf[c], c)' = Call(loopOf[c], c)
    BY <2>1
  <2> QED
    BY <2>2 DEF Now
<1>2. Alive(c)' => Alive(c)
  <2>1. Alive(c)' =>
          /\ c < nextConnId_
          /\ \/ c \in connections_'
             \/ \E l \in Loops : Holds(l, c)'
             \/ \E l \in Workers : Call(l, c)' # "none"
             \/ idler'.pc # "idle" /\ idler'.conn = c
    BY DEF Alive, Referenced, Holds, Call
  <2> QED
    BY <2>1, AliveNow DEF HeldSame
<1> QED
  BY <1>1, <1>2 DEF Stays

\* A step of main or of the peer.
LEMMA PeerTells ==
  ASSUME TypeOK, Good, NEW c \in Conns, PeerStep
  PROVE  Stays(c)
<1>1. UNCHANGED <<nextConnId_, loopOf, seen, connections_, idler, pending, batch, frame>>
  BY DEF PeerStep, PeerConnect, PeerSend, PeerClose, PeerReset, serverVars, acceptVars, connVars,
     queueVars
<1>2. HeldSame(c)
  BY <1>1, QuietHolds DEF Quiet
<1> QED
  BY <1>1, <1>2, NothingTold DEF Call

LEMMA MainTells ==
  ASSUME TypeOK, Good, status' = "up", NEW c \in Conns, IdleTimer \/ MainStep
  PROVE  Stays(c) \/ Accepted(c)
<1>1. CASE Start \/ IdleTimer \/ IdleSet
  <2>1. UNCHANGED <<nextConnId_, loopOf, seen, connections_, pending, batch, frame>>
    BY <1>1 DEF Start, IdleTimer, IdleTest, IdleSet, serverVars, acceptVars, connVars, queueVars
  <2>2. HeldSame(c)
    BY <2>1, QuietHolds DEF Quiet
  <2>3. idler'.pc # "idle" /\ idler'.conn = c => (idler.pc # "idle" /\ idler.conn = c) \/ Alive(c)
    <3>1. CASE Start
      BY <3>1 DEF Start
    <3>2. CASE IdleTimer
      BY <3>2 DEF IdleTimer, IdleTest
    <3>3. CASE IdleSet
      <4>1. idler'.conn = idler.conn /\ idler.pc = "set"
        BY <3>3 DEF IdleSet, TypeOK
      <4> QED
        BY <4>1
    <3> QED
      BY <1>1, <3>1, <3>2, <3>3
  <2> QED
    BY <2>1, <2>2, <2>3, NothingTold DEF Call
<1>2. CASE IdleQueue
  <2>1. /\ UNCHANGED <<nextConnId_, loopOf, seen, connections_, batch, frame>>
        /\ idler'.pc = "idle"
    BY <1>2 DEF IdleQueue, serverVars, acceptVars, connVars, queueVars
  <2>2. PICK d \in Conns : idler.conn = d
    BY <1>2 DEF IdleQueue, Good, IdlerFits
  <2>3. loopOf[d] \in Loops
    BY DEF TypeOK
  <2>4. Functor("shutdownInLoop", d) \in Functors /\ Functor("shutdownInLoop", d).op \notin SharedOps
    BY FunctorFields, Ops
  <2>5. pending' = [pending EXCEPT ![loopOf[d]] = Append(@, Functor("shutdownInLoop", d))]
    BY <1>2, <2>2 DEF IdleQueue
  <2>6. HeldSame(c)
    BY <2>1, <2>3, <2>4, <2>5, QuietHolds DEF Quiet
  <2> QED
    BY <2>1, <2>6, NothingTold DEF Call
<1>3. CASE SwapPending(Main) \/ FinishBatch(Main)
  <2>1. UNCHANGED <<nextConnId_, loopOf, seen, connections_, idler, frame>>
    BY <1>3 DEF SwapPending, FinishBatch, serverVars, acceptVars, connVars
  <2>2. HeldSame(c)
    BY <1>3, Numbers, BatchHolds
  <2> QED
    BY <2>1, <2>2, NothingTold DEF Call
<1>4. ASSUME NEW d \in Conns, HandleRemoveConnectionInLoop(d) PROVE Stays(c)
  <2>1. /\ UNCHANGED <<nextConnId_, loopOf, seen, idler, batch, frame>>
        /\ connections_' \subseteq connections_
        /\ pending' = [pending EXCEPT ![loopOf[d]] = Append(@, Functor("connectDestroyed", d))]
        /\ status' = Outcome(d, d \notin connections_, "assert(n == 1)")
    BY <1>4 DEF HandleRemoveConnectionInLoop, acceptVars, connVars
  <2>2. Alive(d)
    BY <2>1, GoesOn
  <2>3. loopOf[d] \in Loops
    BY DEF TypeOK
  <2>4. Functor("connectDestroyed", d) \in Functors /\ Functor("connectDestroyed", d).conn = d
    BY FunctorFields, Ops
  <2>5. HeldSame(c)
    BY <2>1, <2>2, <2>3, <2>4, QuietHolds DEF Quiet
  <2> QED
    BY <2>1, <2>5, NothingTold DEF Call
<1>5. CASE AcceptConnection
  <2>1. PICK d \in Conns, k \in Workers : nextConnId_ = d /\ next_ = k
    <3>1. backlog > 0
      BY <1>5 DEF AcceptConnection, AcceptOldest
    <3>2. nextConnId_ \in 1 .. MaxConns + 1 /\ backlog \in 0 .. MaxConns + 1 - nextConnId_
      BY DEF TypeOK
    <3>3. nextConnId_ \in 1 .. MaxConns
      BY <3>1, <3>2, ServerAssumption
    <3> QED
      BY <3>3 DEF TypeOK, Conns
  <2>2. /\ nextConnId_' = d + 1
        /\ loopOf' = [loopOf EXCEPT ![d] = k]
        /\ connections_' = connections_ \cup {d}
        /\ pending' = [pending EXCEPT ![k] = Append(@, Est(d))]
        /\ UNCHANGED <<seen, batch, frame, idler>>
    BY <1>5, <2>1 DEF AcceptConnection, HandleNewConnection, Est, queueVars
  <2>3. CASE c = d
    <3>1. ~(c < nextConnId_) /\ c < nextConnId_'
      BY <2>1, <2>2, <2>3, Numbers
    <3>2. ~Alive(c) /\ Alive(c)'
      BY <2>2, <2>3, <3>1 DEF Alive, Referenced
    <3>3. status = "up"
      BY <1>5 DEF AcceptConnection, MainIsFree
    <3>4. seen[c] = <<>>
      BY <3>1, <3>2, <3>3, ServerWatched DEF Watched
    <3>5. frame[k].conn # c \/ frame[k].cb = "none"
      BY <3>1, InCallback DEF Serves
    <3>6. loopOf'[c] = k
      BY <2>2, <2>3 DEF TypeOK
    <3>7. Now(c) = "none" /\ Now(c)' = "none"
      BY <2>2, <3>1, <3>5, <3>6 DEF Now, Call
    <3> QED
      BY <2>2, <3>2, <3>4, <3>7 DEF Accepted
  <2>4. CASE c # d
    <3>1. c < d + 1 <=> c < d
      BY <2>4, Numbers
    <3>2. loopOf'[c] = loopOf[c]
      BY <2>2, <2>4 DEF TypeOK
    <3>3. HeldSame(c)
      <4>1. Est(d) \in Functors /\ Est(d).conn # c /\ k \in Loops
        BY <2>4, Ops, Numbers
      <4> QED
        BY <2>2, <4>1, QuietHolds DEF Quiet
    <3> QED
      BY <2>1, <2>2, <2>4, <3>1, <3>2, <3>3, NothingTold DEF Call
  <2> QED
    BY <2>3, <2>4
<1> QED
  BY <1>1, <1>2, <1>3, <1>4, <1>5 DEF MainStep

-----------------------------------------------------------------------------
(* The steps of a worker.                                                  *)

\* A step of worker l that is about connection d, and leaves the frames of the others:
\* it tells the connections nothing, or it tells d.
WorkerLeaves == UNCHANGED <<nextConnId_, loopOf, connections_, idler>>

LEMMA FrameOfOne ==
  ASSUME TypeOK, NEW l \in Workers, NEW c \in Conns, Call(l, c)' = Call(l, c),
         \/ frame' = frame
         \/ \E f : frame' = [frame EXCEPT ![l] = f]
  PROVE  \A k \in Workers : Call(k, c)' = Call(k, c)
<1> SUFFICES ASSUME NEW k \in Workers, k # l PROVE Call(k, c)' = Call(k, c)
  OBVIOUS
<1>1. frame'[k] = frame[k]
  BY DEF TypeOK
<1> QED
  BY <1>1 DEF Call

LEMMA WorkerTellsNothing ==
  ASSUME TypeOK, Good, NEW l \in Workers, NEW c \in Conns, WorkerLeaves, seen'[c] = seen[c],
         HeldSame(c), Call(l, c)' = Call(l, c),
         \/ frame' = frame
         \/ \E f : frame' = [frame EXCEPT ![l] = f]
  PROVE  Stays(c)
<1>1. \A k \in Workers : Call(k, c)' = Call(k, c)
  BY FrameOfOne
<1> QED
  BY <1>1, NothingTold DEF WorkerLeaves

\* Between two callbacks of handleEvents none of the program's runs.
LEMMA NoneRuns ==
  ASSUME TypeOK, Good, NEW l \in Workers, NEW op, Calls(l, op),
         frame' = [frame EXCEPT ![l] = NextDue(l)]
  PROVE  \A c \in Conns : Call(l, c) = "none" /\ Call(l, c)' = "none"
<1>1. frame[l].cb = "none" /\ frame'[l] = NextDue(l) /\ frame[l] \in FrameRecord
  BY TypeParts DEF Calls, TypeOK, WorkerType
<1>2. NextDue(l) = Idle \/ NextDue(l).cb = "none"
  <2>1. [frame[l] EXCEPT !.todo = Tail(@)].cb = frame[l].cb
    BY <1>1, Zenon DEF FrameRecord
  <2> QED
    BY <1>1, <2>1 DEF NextDue
<1> QED
  BY <1>1, <1>2, IdleFields DEF Call

LEMMA LoopTells ==
  ASSUME TypeOK, Good, NEW l \in Workers, NEW c \in Conns,
         \/ Poll(l) \/ HandleEvents(l) \/ SwapPending(l) \/ FinishBatch(l)
         \/ ReadError(l) \/ WriteSome(l) \/ SendSome(l) \/ Shutdown(l)
         \/ \E d \in Conns : RunShutdownInLoop(l, d)
  PROVE  Stays(c)
<1>1. WorkerLeaves /\ seen'[c] = seen[c]
  BY DEF Poll, HandleEvents, SwapPending, FinishBatch, ReadError, WriteSome, SendSome, Shutdown,
     RunShutdownInLoop, serverVars, acceptVars, connVars, WorkerLeaves
<1>2. HeldSame(c)
  <2>1. CASE SwapPending(l) \/ FinishBatch(l)
    BY <2>1, Numbers, BatchHolds
  <2>2. CASE ~(SwapPending(l) \/ FinishBatch(l))
    <3>1. pending' = pending /\ batch' = batch
      BY <2>2 DEF Poll, HandleEvents, ReadError, WriteSome, SendSome, Shutdown, RunShutdownInLoop,
         queueVars
    <3> QED
      BY <3>1, QuietHolds DEF Quiet
  <2> QED
    BY <2>1, <2>2
<1>3. CASE HandleEvents(l)
  <2>1. PICK f : frame' = [frame EXCEPT ![l] = f] /\ (f = Idle \/ f.cb = "none")
    BY <1>3 DEF HandleEvents
  <2>2. frame[l] = Idle /\ frame'[l] = f
    BY <1>3, <2>1 DEF HandleEvents, TypeOK
  <2>3. Call(l, c) = "none" /\ Call(l, c)' = "none"
    BY <2>1, <2>2, IdleFields DEF Call
  <2> QED
    BY <1>1, <1>2, <2>1, <2>3, WorkerTellsNothing
<1>4. CASE ReadError(l) \/ WriteSome(l)
  <2>1. frame' = [frame EXCEPT ![l] = NextDue(l)] /\ \E op : Calls(l, op)
    BY <1>4 DEF ReadError, WriteSome
  <2>2. Call(l, c) = "none" /\ Call(l, c)' = "none"
    BY <2>1, NoneRuns
  <2> QED
    BY <1>1, <1>2, <2>1, <2>2, WorkerTellsNothing
<1>5. CASE ~(HandleEvents(l) \/ ReadError(l) \/ WriteSome(l))
  <2>1. frame' = frame
    BY <1>5 DEF Poll, SwapPending, FinishBatch, SendSome, Shutdown, RunShutdownInLoop
  <2> QED
    BY <1>1, <1>2, <2>1, WorkerTellsNothing DEF Call
<1> QED
  BY <1>3, <1>4, <1>5

\* handleClose and the completion of a write queue a functor of a connection that lives.
LEMMA QueuerTells ==
  ASSUME TypeOK, Good, status = "up", status' = "up", NEW l \in Workers, NEW c \in Conns,
         \/ HandleHangup(l) \/ ReadEof(l) \/ ForceClose(l) \/ WriteRest(l) \/ SendAll(l)
  PROVE  Stays(c)
<1>1. WorkerLeaves /\ seen' = seen /\ batch' = batch
  BY DEF HandleHangup, ReadEof, ForceClose, WriteRest, SendAll, serverVars, acceptVars, connVars,
     queueVars, WorkerLeaves
<1>2. l \in Loops /\ Main \in Loops
  BY Numbers
<1>3. PICK d \in Conns : frame[l].conn = d /\ Open(d, l)
  BY DueNow, InCall DEF HandleHangup, ReadEof, ForceClose, WriteRest, SendAll
<1>4. Alive(d)
  BY <1>2, <1>3, OpenIsAlive
<1>5. HeldSame(c)
  <2>1. HandleClose(d) \/ Completed(l, d)
    BY <1>3 DEF HandleHangup, ReadEof, ForceClose, WriteRest, SendAll
  <2>2. \/ pending' = pending
        \/ pending' = [pending EXCEPT ![Main] = Append(@, Rem(d))]
        \/ pending' = [pending EXCEPT ![l] = Append(@, Wri(d))]
    BY <2>1 DEF HandleClose, Completed, Rem, Wri
  <2> QED
    BY <1>1, <1>2, <1>4, <2>2, Ops, QuietHolds DEF Quiet
<1>6. CASE HandleHangup(l) \/ ReadEof(l) \/ WriteRest(l)
  <2>1. frame' = [frame EXCEPT ![l] = NextDue(l)] /\ \E op : Calls(l, op)
    BY <1>6 DEF HandleHangup, ReadEof, WriteRest
  <2>2. Call(l, c) = "none" /\ Call(l, c)' = "none"
    BY <2>1, NoneRuns
  <2> QED
    BY <1>1, <1>5, <2>1, <2>2, WorkerTellsNothing
<1>7. CASE ForceClose(l)
  <2>1. frame' = [frame EXCEPT ![l] = [frame[l] EXCEPT !.calling = CallsAfterClose]]
    BY <1>7 DEF ForceClose
  <2>2. frame[l] \in FrameRecord
    BY TypeParts DEF WorkerType
  <2>3. /\ [frame[l] EXCEPT !.calling = CallsAfterClose].conn = frame[l].conn
        /\ [frame[l] EXCEPT !.calling = CallsAfterClose].cb = frame[l].cb
    BY <2>2, Zenon DEF FrameRecord
  <2>4. frame'[l].conn = frame[l].conn /\ frame'[l].cb = frame[l].cb
    BY <2>1, <2>3 DEF TypeOK
  <2> QED
    BY <1>1, <1>5, <2>1, <2>4, WorkerTellsNothing DEF Call
<1>8. CASE SendAll(l)
  <2>1. frame' = frame
    BY <1>8 DEF SendAll
  <2> QED
    BY <1>1, <1>5, <2>1, WorkerTellsNothing DEF Call
<1> QED
  BY <1>6, <1>7, <1>8

\* The worker calls the program back about connection d.
LEMMA CalledBackAbout ==
  ASSUME TypeOK, NEW l \in Workers, NEW d \in Conns, NEW todo, NEW cb,
         frame' = [frame EXCEPT ![l] = Callback(d, todo, cb)]
  PROVE  Call(l, d)' = cb /\ \A c \in Conns : c # d => Call(l, c)' = "none"
<1>1. frame'[l] = Callback(d, todo, cb)
  BY DEF TypeOK
<1>2. Callback(d, todo, cb).conn = d /\ Callback(d, todo, cb).cb = cb
  BY DEF Callback
<1> QED
  BY <1>1, <1>2 DEF Call

LEMMA MessageTells ==
  ASSUME TypeOK, Good, status' = "up", NEW l \in Workers, NEW c \in Conns, Watched(c)',
         ReadMessage(l)
  PROVE  Stays(c) \/ Told(c)
<1>1. /\ WorkerLeaves /\ UNCHANGED <<seen, pending, batch>>
      /\ Calls(l, "handleRead")
  BY DEF ReadMessage, serverVars, acceptVars, connVars, queueVars, WorkerLeaves
<1>2. PICK d \in Conns : frame[l].conn = d /\ Handling(l, d) /\ Serves(l, d) /\ Open(d, l)
  BY <1>1, DueNow
<1>3. /\ frame' = [frame EXCEPT ![l] = Callback(d, Tail(frame[l].todo), "message")]
      /\ status' = Outcome(d, FALSE, "")
  BY <1>2 DEF ReadMessage
<1>4. Call(l, d)' = "message" /\ \A b \in Conns : b # d => Call(l, b)' = "none"
  BY <1>3, CalledBackAbout
<1>5. \A b \in Conns : Call(l, b) = "none"
  BY <1>1 DEF Calls, Call
<1>6. CASE c = d
  <2>1. Alive(c) /\ seen[c] = <<"up">> /\ loopOf[c] = l /\ c < nextConnId_
    BY <1>2, <1>3, <1>6, GoesOn DEF Handling, Serves
  <2>2. Now(c) = "none" /\ Now(c)' = "message"
    BY <1>1, <1>4, <1>5, <1>6, <2>1 DEF Now, WorkerLeaves
  <2>3. Alive(c)'
    BY <2>2 DEF Watched
  <2> QED
    BY <1>1, <2>1, <2>2, <2>3 DEF Told
<1>7. CASE c # d
  <2>1. HeldSame(c)
    BY <1>1, QuietHolds DEF Quiet
  <2> QED
    BY <1>1, <1>3, <1>4, <1>5, <1>7, <2>1, WorkerTellsNothing
<1> QED
  BY <1>6, <1>7

LEMMA FunctorTells ==
  ASSUME TypeOK, Good, status = "up", status' = "up", NEW l \in Workers, NEW c \in Conns,
         Watched(c)', NEW d \in Conns,
         ConnectEstablished(l, d) \/ ConnectDestroyed(l, d) \/ WriteComplete(l, d)
  PROVE  Stays(c) \/ Told(c)
<1>1. /\ WorkerLeaves /\ UNCHANGED <<pending, batch>>
      /\ \A b \in Conns : b # d => seen'[b] = seen[b]
  BY DEF ConnectEstablished, ConnectDestroyed, WriteComplete, serverVars, acceptVars, connVars,
     queueVars, WorkerLeaves, TypeOK
<1>2. PICK o \in WorkerOps :
        /\ o \in SharedOps /\ Runs(l, o, d)
        /\ \/ o = "connectEstablished" /\ ConnectEstablished(l, d)
           \/ o = "connectDestroyed" /\ ConnectDestroyed(l, d)
           \/ o = "writeComplete" /\ WriteComplete(l, d)
  BY DEF WorkerOps, SharedOps, ConnectEstablished, ConnectDestroyed, WriteComplete
<1>3. /\ l \in Loops /\ loopOf[d] = l /\ d < nextConnId_ /\ frame[l] = Idle
      /\ pos'[l] \in DOMAIN batch[l] /\ batch[l][pos'[l]] = Functor(o, d)
      /\ Functor(o, d).op = o /\ Functor(o, d).conn = d
      /\ Queued(l, Functor(o, d))
  BY <1>1, <1>2, WorkerRun DEF WorkerLeaves, TakesAt
<1>4. Alive(d) /\ Alive(d)'
  <2>1. SharedFunctor(batch[l], d)
    BY <1>2, <1>3 DEF SharedFunctor
  <2>2. SharedFunctor(batch[l], d)'
    BY <1>1, <2>1 DEF SharedFunctor
  <2> QED
    BY <1>1, <1>3, <2>1, <2>2 DEF Alive, Referenced, WorkerLeaves
<1>5. \A b \in Conns : Call(l, b) = "none"
  BY <1>3, IdleFields DEF Call
<1>6. \/ frame' = frame
      \/ \E cb : frame' = [frame EXCEPT ![l] = Callback(d, <<>>, cb)]
  BY DEF ConnectEstablished, ConnectDestroyed, WriteComplete
<1>7. CASE c # d
  <2>1. HeldSame(c)
    BY <1>1, QuietHolds DEF Quiet
  <2>2. Call(l, c)' = "none"
    BY <1>5, <1>6, <1>7, CalledBackAbout DEF Call
  <2> QED
    BY <1>1, <1>5, <1>6, <1>7, <2>1, <2>2, WorkerTellsNothing
<1>8. CASE c = d
  <2>1. Life(d, l) /\ ~(d >= nextConnId_)
    BY <1>3, Numbers, NextIsNat DEF Good, ConnInv
  <2>2. Now(d) = "none" /\ Now(d)' = Call(l, d)'
    BY <1>1, <1>3, <1>5 DEF Now, WorkerLeaves
  <2>3. CASE o = "connectEstablished" /\ ConnectEstablished(l, d)
    <3>1. Queued(l, Est(d))
      BY <1>3, <2>3 DEF Est
    <3>2. seen[d] = <<>>
      BY <2>1, <3>1 DEF Life, Fresh, Open, Gone, Coming, Unused
    <3>3. /\ state_' = [state_ EXCEPT ![d] = "CONNECTED"]
          /\ seen' = [seen EXCEPT ![d] = Append(@, Said(state_'[d]))]
          /\ frame' = [frame EXCEPT ![l] = Callback(d, <<>>, "connection")]
      BY <2>3 DEF ConnectEstablished
    <3>4. seen'[d] = <<"up">>
      BY <3>2, <3>3, Saying
    <3>5. Now(d)' = "connection"
      BY <2>2, <3>3, CalledBackAbout
    <3> QED
      BY <1>4, <1>8, <3>2, <3>4, <3>5 DEF Told
  <2>4. CASE o = "connectDestroyed" /\ ConnectDestroyed(l, d)
    <3>1. Queued(l, Des(d))
      BY <1>3, <2>4 DEF Des
    <3>2. seen[d] = <<"up">>
      BY <2>1, <3>1 DEF Life, Fresh, Open, Gone, Coming
    <3>3. /\ state_' = [state_ EXCEPT ![d] = "DISCONNECTED"]
          /\ seen' = [seen EXCEPT ![d] = Append(@, Said(state_'[d]))]
          /\ frame' = frame
      BY <2>4 DEF ConnectDestroyed
    <3>4. seen'[d] = <<"up", "down">>
      BY <3>2, <3>3, Saying
    <3>5. Now(d)' = "none"
      BY <1>5, <2>2, <3>3 DEF Call
    <3> QED
      BY <1>4, <1>8, <2>2, <3>2, <3>4, <3>5 DEF Told
  <2>5. CASE o = "writeComplete" /\ WriteComplete(l, d)
    <3>1. Queued(l, Wri(d))
      BY <1>3, <2>5 DEF Wri
    <3>2. seen[d] # <<>>
      BY <2>1, <3>1, Sayings DEF Life, Fresh, Open, Gone, Coming
    <3>3. /\ seen' = seen
          /\ frame' = [frame EXCEPT ![l] = Callback(d, <<>>, "write")]
      BY <2>5 DEF WriteComplete, connVars
    <3>4. Now(d)' = "write"
      BY <2>2, <3>3, CalledBackAbout
    <3> QED
      BY <1>4, <1>8, <2>2, <3>2, <3>3, <3>4 DEF Told
  <2> QED
    BY <1>2, <2>3, <2>4, <2>5
<1> QED
  BY <1>7, <1>8

LEMMA ReturnTells ==
  ASSUME TypeOK, Good, status = "up", status' = "up", NEW l \in Workers, NEW c \in Conns,
         Watched(c)', CallbackReturns(l)
  PROVE  Stays(c) \/ Told(c)
<1>1. /\ WorkerLeaves /\ UNCHANGED <<seen, pending, batch>>
      /\ frame[l].cb # "none" /\ frame[l] \in FrameRecord
  BY TypeParts
     DEF CallbackReturns, serverVars, acceptVars, connVars, queueVars, WorkerLeaves, WorkerType
<1>2. PICK d \in Conns :
        frame[l].conn = d /\ Serves(l, d) /\ (Reading(l, d) \/ CalledBack(l, d))
  BY <1>1, InCallback
<1>3. loopOf[d] = l /\ d < nextConnId_ /\ l \in Loops
  BY <1>2, Numbers DEF Serves
<1>4. PICK f : frame' = [frame EXCEPT ![l] = f] /\ f.cb = "none"
  <2>1. [frame[l] EXCEPT !.cb = "none", !.calling = FALSE].cb = "none"
    BY <1>1, Zenon DEF FrameRecord
  <2>2. frame' = [frame EXCEPT ![l] = IF frame[l].todo = <<>> THEN Idle
                                      ELSE [frame[l] EXCEPT !.cb = "none", !.calling = FALSE]]
    BY DEF CallbackReturns
  <2> QED
    BY <2>1, <2>2, IdleFields
<1>5. \A b \in Conns : Call(l, b)' = "none"
  BY <1>4 DEF Call, TypeOK
<1>6. CASE c # d
  <2>1. HeldSame(c)
    BY <1>1, QuietHolds DEF Quiet
  <2>2. Call(l, c) = "none"
    BY <1>2, <1>6 DEF Call
  <2> QED
    BY <1>1, <1>4, <1>5, <2>1, <2>2, WorkerTellsNothing
<1>7. CASE c = d
  <2>1. Now(c) # "none" /\ Now(c)' = "none"
    BY <1>1, <1>2, <1>3, <1>5, <1>7 DEF Now, Call, WorkerLeaves
  <2>2. Alive(c)
    BY <2>1, ServerWatched DEF Watched
  <2>3. Alive(c)'
    <3>1. CASE Reading(l, d)
      <4>1. seen'[c] = <<"up">>
        BY <1>1, <1>7, <3>1 DEF Reading
      <4> QED
        BY <4>1, Sayings DEF Watched
    <3>2. CASE CalledBack(l, d)
      <4>1. SharedFunctor(batch[l], d)
        BY <3>2 DEF CalledBack, SharedFunctor
      <4>2. SharedFunctor(batch[l], d)'
        BY <1>1, <4>1 DEF SharedFunctor
      <4> QED
        BY <1>1, <1>3, <1>7, <4>2 DEF Alive, Referenced, WorkerLeaves
    <3> QED
      BY <1>2, <3>1, <3>2
  <2> QED
    BY <1>1, <2>1, <2>2, <2>3 DEF Told
<1> QED
  BY <1>6, <1>7

-----------------------------------------------------------------------------
(* The refinement.                                                         *)

LEMMA StartsAsConnection ==
  ASSUME Init, NEW c \in Conns
  PROVE  AsConnection(c)!Init
<1>1. ~Alive(c)
  BY Numbers DEF Init, Alive
<1>2. \A l \in Workers : frame[l].cb = "none"
  BY IdleFields DEF Init
<1>3. Running(c) = "none"
  BY <1>2 DEF Running, RunningOn
<1> QED
  BY <1>1, <1>3 DEF Init, AsConnection!Init

\* What TcpServer promises of a connection, whatever the program calls: up once, down at
\* most once and after that, one callback at a time, messages only in between, and the
\* TcpConnection let go of only when it is down and no callback of it runs
\* (TcpConnection::connectEstablished, connectDestroyed, handleRead; its shared_ptrs).
THEOREM ImplementsConnection == Spec => RefinesConnection
<1>1. Init => \A c \in Conns : AsConnection(c)!Init
  BY StartsAsConnection
<1>2. ServerInv => AllWatched
  BY ServerWatched DEF ServerInv, AllWatched
<1>3. ServerInv /\ AllWatched /\ AllWatched' /\ [Next]_vars =>
        [\A c \in Conns : [AsConnection(c)!Next]_(AsConnection(c)!vars)]_vars
  <2> SUFFICES ASSUME ServerInv, AllWatched, AllWatched', Next, NEW c \in Conns
               PROVE  [AsConnection(c)!Next]_(AsConnection(c)!vars)
    OBVIOUS
  <2>1. status = "up" /\ TypeOK /\ Good
    BY OnlyWhileUp DEF ServerInv
  <2>2. CASE status' # "up"
    BY <2>1, <2>2 DEF AsConnection!Next, AsConnection!End
  <2>3. CASE status' = "up"
    <3>1. Watched(c) /\ Watched(c)'
      BY <2>1, <2>3 DEF AllWatched
    <3>2. Stays(c) \/ Accepted(c) \/ Told(c)
      <4>1. CASE PeerStep
        BY <2>1, <4>1, PeerTells
      <4>2. CASE IdleTimer \/ MainStep
        BY <2>1, <2>3, <4>2, MainTells
      <4>3. ASSUME NEW l \in Workers, WorkerStep(l) PROVE Stays(c) \/ Told(c)
        BY <2>1, <2>3, <3>1, <4>3, LoopTells, QueuerTells, MessageTells, FunctorTells, ReturnTells
           DEF WorkerStep
      <4> QED
        BY <4>1, <4>2, <4>3 DEF Next
    <3> QED
      BY <2>1, <2>3, <3>1, <3>2, ImplementsNext
  <2> QED
    BY <2>2, <2>3
<1> QED
  BY <1>1, <1>2, <1>3, ServerInvariant, PTL DEF Spec, RefinesConnection
=============================================================================
