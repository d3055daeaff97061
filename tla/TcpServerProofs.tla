--------------------------- MODULE TcpServerProofs ---------------------------
(***************************************************************************)
(* What TLAPS proves of TcpServer, for any number of connections, workers, *)
(* messages and calls, and any program on top: its type invariant, the     *)
(* life of a connection and of its registration, how the process may end,  *)
(* the order of output and FIN, and that a program which keeps to the      *)
(* rules is never ended.                                                   *)
(***************************************************************************)
EXTENDS TcpServer, SequenceTheorems, TLAPS

HandlerOps == {"handleClose", "handleRead", "handleWrite"}

-----------------------------------------------------------------------------
(* The inductive invariant.                                                *)

\* Functor f is in q after position n; it is there twice.
In(q, n, f) == \E i \in DOMAIN q : i > n /\ q[i] = f
Two(q, n, f) == \E i, j \in DOMAIN q : n < i /\ i < j /\ q[i] = f /\ q[j] = f

\* Loop l holds f, run or not; it has yet to run f; it has yet to run it twice.
Bound(l, f) == In(pending[l], 0, f) \/ In(batch[l], 0, f)
Queued(l, f) == In(pending[l], 0, f) \/ In(batch[l], pos[l], f)
Twice(l, f) ==
  \/ Two(pending[l], 0, f) \/ Two(batch[l], pos[l], f)
  \/ In(pending[l], 0, f) /\ In(batch[l], pos[l], f)

Est(c) == Functor("connectEstablished", c)
Rem(c) == Functor("handleRemoveConnectionInLoop", c)
Des(c) == Functor("connectDestroyed", c)
Wri(c) == Functor("writeComplete", c)

\* The functors of a loop are those of accepted connections, of its own ones if it is
\* a worker; main only removes.
Fits(l, f) ==
  /\ f.conn < nextConnId_
  /\ IF f.op = "handleRemoveConnectionInLoop" THEN l = Main ELSE l = loopOf[f.conn]

QueuesFit == \A l \in Loops, f \in Functors : Bound(l, f) => Fits(l, f)

IdlerFits ==
  idler.pc # "idle" =>
    idler.conn \in Conns /\ idler.conn < nextConnId_ /\ seen[idler.conn] # <<>>

\* The stages of a connection's life.
Unused(c) ==
  /\ seen[c] = <<>> /\ state_[c] = "CONNECTING" /\ handler[c] = NewHandler
  /\ ~outputBuffer_[c]

Fresh(c) == Unused(c) /\ c >= nextConnId_ /\ c \notin connections_

Coming(c, l) ==
  /\ Unused(c) /\ c < nextConnId_ /\ c \in connections_
  /\ Queued(l, Est(c)) /\ ~Twice(l, Est(c)) /\ ~Queued(l, Des(c)) /\ ~Queued(l, Wri(c))
  /\ ~Queued(Main, Rem(c))

Open(c, l) ==
  /\ seen[c] = <<"up">> /\ c < nextConnId_
  /\ state_[c] \in {"CONNECTED", "DISCONNECTING"}
  /\ handler[c].state # "NEW"
  /\ ~Queued(l, Est(c))
  /\ Queued(l, Des(c)) <=> c \notin connections_
  /\ ~Twice(l, Des(c))
  /\ "in" \in handler[c].events => c \in connections_ /\ ~Queued(Main, Rem(c))

Gone(c, l) ==
  /\ seen[c] = <<"up", "down">> /\ c < nextConnId_
  /\ state_[c] \in {"DISCONNECTING", "DISCONNECTED"}
  /\ handler[c].state = "NEW"
  /\ c \notin connections_
  /\ ~Queued(l, Est(c)) /\ ~Queued(l, Des(c))

Life(c, l) == Fresh(c) \/ Coming(c, l) \/ Open(c, l) \/ Gone(c, l)

\* The registration of a handler.
Registered(h, output) ==
  /\ Consistent(h)
  /\ h.events # {} => h.polled /\ ("out" \in h.events <=> output)

\* What the program must have called for a connection to be closed again.
CallsOnClosed == CallsAfterClose \/ (HasWriteCallback /\ "write" \in CallingCallbacks)
Called(c) == budget[c] + 1 <= MaxCalls
Again(c) == CallsOnClosed /\ budget[c] + 2 <= MaxCalls
Closed(c) == "in" \notin handler[c].events

Closing(c) ==
  /\ Queued(Main, Rem(c)) /\ c \notin connections_ => Again(c)
  /\ Twice(Main, Rem(c)) => Again(c)
  /\ Closed(c) /\ handler[c].polled => Again(c)
  /\ outputBuffer_[c] => Called(c)
  /\ \A l \in Workers : Queued(l, Wri(c)) => HasWriteCallback /\ Called(c)

ConnInv(c) ==
  /\ c < nextConnId_ => loopOf[c] \in Workers
  /\ \A l \in Loops : loopOf[c] = l => Life(c, l)
  /\ Registered(handler[c], outputBuffer_[c])
  /\ Closing(c)

\* What a worker is in the middle of: the handlers poll returned ...
Reported(l, a) ==
  /\ a.conn < nextConnId_ /\ loopOf[a.conn] = l
  /\ seen[a.conn] = <<"up">> /\ frame[l].conn # a.conn
  /\ "hup" \in a.revs /\ "in" \notin a.revs => Again(a.conn)
  /\ a.revs \cap {"in", "hup"} # {} /\ Closed(a.conn) => Again(a.conn)

Reports(l) ==
  /\ \A a \in active[l] : Reported(l, a)
  /\ \A a, b \in active[l] : a.conn = b.conn => a = b

\* ... handleEvents, between two of its callbacks, or in the message callback, and the
\* callback of a functor.
Dues == {<<"handleClose", "handleRead">>, <<"handleClose", "handleRead", "handleWrite">>,
         <<"handleRead">>, <<"handleRead", "handleWrite">>, <<"handleWrite">>}

Handling(l, c) ==
  /\ phase[l] = "io" /\ frame[l].cb = "none" /\ ~frame[l].calling
  /\ seen[c] = <<"up">> /\ frame[l].todo \in Dues
  /\ Head(frame[l].todo) = "handleClose" => Again(c)
  /\ Head(frame[l].todo) = "handleRead" /\ Closed(c) => Again(c)

Reading(l, c) ==
  /\ phase[l] = "io" /\ frame[l].cb = "message"
  /\ seen[c] = <<"up">> /\ frame[l].todo \in {<<>>, <<"handleWrite">>}

CalledBack(l, c) ==
  /\ phase[l] = "batch" /\ frame[l].cb \in {"connection", "write"}
  /\ frame[l].todo = <<>> /\ seen[c] # <<>>
  /\ pos[l] \in DOMAIN batch[l]
  /\ batch[l][pos[l]].op \in SharedOps /\ batch[l][pos[l]].conn = c

Serves(l, c) ==
  /\ c \in Conns /\ c < nextConnId_ /\ loopOf[c] = l
  /\ Handling(l, c) \/ Reading(l, c) \/ CalledBack(l, c)
  /\ frame[l].calling /\ Closed(c) /\ state_[c] = "CONNECTED" => CallsOnClosed /\ Called(c)

WorkerInv(l) ==
  /\ Reports(l)
  /\ frame[l] = Idle \/ \E c \in Conns : frame[l].conn = c /\ Serves(l, c)

Good ==
  /\ QueuesFit /\ IdlerFits
  /\ \A c \in Conns : ConnInv(c)
  /\ \A l \in Workers : WorkerInv(l)

ServerInv == TypeOK /\ (status = "up" => Good)

-----------------------------------------------------------------------------
(* Functors and queues.                                                    *)

LEMMA FunctorFields ==
  /\ \A o \in SharedOps \cup RawOps, c \in Conns :
       Functor(o, c) \in Functors /\ Functor(o, c).op = o /\ Functor(o, c).conn = c
  /\ \A f \in Functors : f.op \in SharedOps \cup RawOps /\ f.conn \in Conns /\ f = Functor(f.op, f.conn)
  BY DEF Functor, Functors

LEMMA EmptyQueue ==
  ASSUME NEW f, NEW n \in Nat
  PROVE  ~In(<<>>, n, f) /\ ~Two(<<>>, n, f)
  BY DEF In, Two

LEMMA WholeQueue ==
  ASSUME NEW S, NEW q \in Seq(S), NEW f
  PROVE  ~In(q, Len(q), f) /\ ~Two(q, Len(q), f)
  BY LenProperties DEF In, Two

LEMMA LaterInQueue ==
  ASSUME NEW S, NEW q \in Seq(S), NEW n \in Nat, NEW f
  PROVE  In(q, n, f) => In(q, 0, f)
  BY LenProperties DEF In

LEMMA AppendedQueue ==
  ASSUME NEW S, NEW q \in Seq(S), NEW g \in S, NEW f
  PROVE  /\ In(Append(q, g), 0, f) <=> In(q, 0, f) \/ f = g
         /\ Two(Append(q, g), 0, f) <=> Two(q, 0, f) \/ (f = g /\ In(q, 0, f))
<1> DEFINE r == Append(q, g)
           n == Len(q)
<1>1. /\ n \in Nat /\ DOMAIN q = 1 .. n /\ DOMAIN r = 1 .. n + 1
      /\ \A i \in 1 .. n : r[i] = q[i]
      /\ r[n + 1] = g
  BY AppendProperties, LenProperties
<1> HIDE DEF r, n
<1>2. In(r, 0, f) <=> In(q, 0, f) \/ f = g
  BY <1>1 DEF In
<1>3. Two(q, 0, f) => Two(r, 0, f)
  BY <1>1 DEF Two
<1>4. f = g /\ In(q, 0, f) => Two(r, 0, f)
  <2> SUFFICES ASSUME f = g, In(q, 0, f) PROVE Two(r, 0, f)
    OBVIOUS
  <2>1. PICK i \in 1 .. n : q[i] = f
    BY <1>1 DEF In
  <2>2. i \in 1 .. n + 1 /\ n + 1 \in 1 .. n + 1 /\ 0 < i /\ i < n + 1 /\ r[i] = f /\ r[n + 1] = f
    BY <1>1, <2>1
  <2> QED
    BY <1>1, <2>2 DEF Two
<1>5. Two(r, 0, f) => Two(q, 0, f) \/ (f = g /\ In(q, 0, f))
  <2> SUFFICES ASSUME Two(r, 0, f), ~(f = g /\ In(q, 0, f)) PROVE Two(q, 0, f)
    OBVIOUS
  <2>1. PICK i \in 1 .. n + 1, j \in 1 .. n + 1 : 0 < i /\ i < j /\ r[i] = f /\ r[j] = f
    BY <1>1 DEF Two
  <2>2. i \in 1 .. n /\ q[i] = f
    BY <1>1, <2>1
  <2>3. j # n + 1
    BY <1>1, <2>1, <2>2 DEF In
  <2>4. j \in 1 .. n /\ q[j] = f
    BY <1>1, <2>1, <2>3
  <2> QED
    BY <1>1, <2>1, <2>2, <2>4 DEF Two
<1> QED
  BY <1>2, <1>3, <1>4, <1>5 DEF r

LEMMA AdvancedQueue ==
  ASSUME NEW S, NEW q \in Seq(S), NEW n \in Nat, n < Len(q), NEW f
  PROVE  /\ In(q, n, f) <=> q[n + 1] = f \/ In(q, n + 1, f)
         /\ Two(q, n, f) <=> Two(q, n + 1, f) \/ (q[n + 1] = f /\ In(q, n + 1, f))
<1>1. DOMAIN q = 1 .. Len(q) /\ Len(q) \in Nat /\ n + 1 \in 1 .. Len(q)
  BY LenProperties
<1>2. In(q, n, f) => q[n + 1] = f \/ In(q, n + 1, f)
  BY <1>1 DEF In
<1>3. q[n + 1] = f \/ In(q, n + 1, f) => In(q, n, f)
  BY <1>1 DEF In
<1>4. Two(q, n, f) => Two(q, n + 1, f) \/ (q[n + 1] = f /\ In(q, n + 1, f))
  BY <1>1 DEF In, Two
<1>5. Two(q, n + 1, f) => Two(q, n, f)
  BY <1>1 DEF In, Two
<1>6. q[n + 1] = f /\ In(q, n + 1, f) => Two(q, n, f)
  <2> SUFFICES ASSUME q[n + 1] = f, In(q, n + 1, f) PROVE Two(q, n, f)
    OBVIOUS
  <2>1. PICK j \in 1 .. Len(q) : j > n + 1 /\ q[j] = f
    BY <1>1 DEF In
  <2> QED
    BY <1>1, <2>1 DEF Two
<1> QED
  BY <1>2, <1>3, <1>4, <1>5, <1>6

\* What a step does to the functors of loop l: nothing that counts, it queues g, or it
\* takes g to run it.
SameAt(l) ==
  \A f \in Functors : /\ Queued(l, f)' <=> Queued(l, f)
                      /\ Twice(l, f)' <=> Twice(l, f)
                      /\ Bound(l, f)' => Bound(l, f)
AddsAt(l, g) ==
  \A f \in Functors : /\ Queued(l, f)' <=> Queued(l, f) \/ f = g
                      /\ Twice(l, f)' <=> Twice(l, f) \/ (f = g /\ Queued(l, f))
                      /\ Bound(l, f)' <=> Bound(l, f) \/ f = g
TakesAt(l, g) ==
  /\ Queued(l, g)
  /\ \A f \in Functors :
       /\ f # g => (Queued(l, f)' <=> Queued(l, f)) /\ (Twice(l, f)' <=> Twice(l, f))
       /\ Bound(l, f)' <=> Bound(l, f)
  /\ Queued(l, g)' <=> Twice(l, g)
  /\ Twice(l, g)' => Twice(l, g)

LEMMA QueueTypes ==
  ASSUME TypeOK, NEW l \in Loops
  PROVE  /\ pending[l] \in Seq(Functors) /\ batch[l] \in Seq(Functors)
         /\ pos[l] \in Nat /\ Len(batch[l]) \in Nat /\ pos[l] <= Len(batch[l])
  BY LenProperties DEF TypeOK

LEMMA QueuedIsBound ==
  ASSUME TypeOK, NEW l \in Loops, NEW f \in Functors
  PROVE  Queued(l, f) => Bound(l, f)
  BY QueueTypes, LaterInQueue DEF Queued, Bound

LEMMA SameStep ==
  ASSUME NEW l \in Loops, pending'[l] = pending[l], batch'[l] = batch[l], pos'[l] = pos[l]
  PROVE  SameAt(l)
  BY DEF SameAt, Queued, Twice, Bound

LEMMA AddStep ==
  ASSUME TypeOK, NEW l \in Loops, NEW g \in Functors,
         pending'[l] = Append(pending[l], g), batch'[l] = batch[l], pos'[l] = pos[l]
  PROVE  AddsAt(l, g)
<1> SUFFICES ASSUME NEW f \in Functors
             PROVE  /\ Queued(l, f)' <=> Queued(l, f) \/ f = g
                    /\ Twice(l, f)' <=> Twice(l, f) \/ (f = g /\ Queued(l, f))
                    /\ Bound(l, f)' <=> Bound(l, f) \/ f = g
  BY DEF AddsAt
<1>1. /\ In(Append(pending[l], g), 0, f) <=> In(pending[l], 0, f) \/ f = g
      /\ Two(Append(pending[l], g), 0, f) <=>
           Two(pending[l], 0, f) \/ (f = g /\ In(pending[l], 0, f))
  BY QueueTypes, AppendedQueue
<1> QED
  BY <1>1 DEF Queued, Twice, Bound

LEMMA TakeStep ==
  ASSUME TypeOK, NEW l \in Loops, NEW g \in Functors,
         pos[l] < Len(batch[l]), batch[l][pos[l] + 1] = g,
         pending'[l] = pending[l], batch'[l] = batch[l], pos'[l] = pos[l] + 1
  PROVE  TakesAt(l, g)
<1>1. ASSUME NEW f \in Functors
      PROVE  /\ In(batch[l], pos[l], f) <=> f = g \/ In(batch[l], pos[l] + 1, f)
             /\ Two(batch[l], pos[l], f) <=>
                  Two(batch[l], pos[l] + 1, f) \/ (f = g /\ In(batch[l], pos[l] + 1, f))
  BY QueueTypes, AdvancedQueue
<1>2. ASSUME NEW f \in Functors
      PROVE  /\ Queued(l, f)' <=> In(pending[l], 0, f) \/ In(batch[l], pos[l] + 1, f)
             /\ Twice(l, f)' <=> \/ Two(pending[l], 0, f) \/ Two(batch[l], pos[l] + 1, f)
                                 \/ In(pending[l], 0, f) /\ In(batch[l], pos[l] + 1, f)
             /\ Bound(l, f)' <=> Bound(l, f)
  BY DEF Queued, Twice, Bound
<1>3. ASSUME NEW f \in Functors
      PROVE  Two(batch[l], pos[l] + 1, f) => In(batch[l], pos[l] + 1, f)
  BY DEF In, Two
<1>4. ASSUME NEW f \in Functors
      PROVE  Two(pending[l], 0, f) => In(pending[l], 0, f)
  BY QueueTypes, LenProperties DEF In, Two
<1>5. Queued(l, g)
  BY <1>1 DEF Queued
<1>6. \A f \in Functors :
        /\ f # g => (Queued(l, f)' <=> Queued(l, f)) /\ (Twice(l, f)' <=> Twice(l, f))
        /\ Bound(l, f)' <=> Bound(l, f)
  BY <1>1, <1>2 DEF Queued, Twice
<1>7. Queued(l, g)' <=> Twice(l, g)
  BY <1>1, <1>2, <1>3, <1>4 DEF Twice
<1>8. Twice(l, g)' => Twice(l, g)
  BY <1>1, <1>2 DEF Twice
<1> QED
  BY <1>5, <1>6, <1>7, <1>8 DEF TakesAt

LEMMA SwapStep ==
  ASSUME TypeOK, NEW l \in Loops, phase[l] # "batch",
         pending'[l] = <<>>, batch'[l] = pending[l], pos'[l] = pos[l]
  PROVE  SameAt(l)
<1>1. batch[l] = <<>>
  BY DEF TypeOK
<1>2. pos[l] = 0
  BY <1>1, QueueTypes, EmptySeq, LenProperties
<1>3. \A f \in Functors : ~In(<<>>, 0, f) /\ ~Two(<<>>, 0, f)
  BY EmptyQueue
<1> QED
  BY <1>1, <1>2, <1>3 DEF SameAt, Queued, Twice, Bound

LEMMA FinishStep ==
  ASSUME TypeOK, NEW l \in Loops, pos[l] = Len(batch[l]),
         pending'[l] = pending[l], batch'[l] = <<>>, pos'[l] = 0
  PROVE  SameAt(l)
<1>1. \A f \in Functors : ~In(<<>>, 0, f) /\ ~Two(<<>>, 0, f)
  BY EmptyQueue
<1>2. \A f \in Functors : ~In(batch[l], pos[l], f) /\ ~Two(batch[l], pos[l], f)
  BY QueueTypes, WholeQueue
<1> QED
  BY <1>1, <1>2 DEF SameAt, Queued, Twice, Bound

-----------------------------------------------------------------------------
(* Handlers.                                                               *)

LEMMA HandlerFields ==
  ASSUME NEW h \in HandlerRecords
  PROVE  /\ h.state \in HandlerStates /\ h.events \subseteq Events /\ h.interest \subseteq Events
         /\ h.listed \in BOOLEAN /\ h.polled \in BOOLEAN
  BY Zenon DEF HandlerRecords

LEMMA EventsSet ==
  ASSUME NEW h \in HandlerRecords, NEW es \in SUBSET Events
  PROVE  /\ [h EXCEPT !.events = es] \in HandlerRecords
         /\ [h EXCEPT !.events = es].events = es
         /\ [h EXCEPT !.events = es].state = h.state
         /\ [h EXCEPT !.events = es].listed = h.listed
         /\ [h EXCEPT !.events = es].polled = h.polled
  BY Zenon DEF HandlerRecords

LEMMA HandlerDeleted ==
  ASSUME NEW h \in HandlerRecords
  PROVE  LET g == [h EXCEPT !.state = "DELETED", !.polled = FALSE, !.interest = {}]
         IN  /\ g \in HandlerRecords /\ g.state = "DELETED" /\ g.polled = FALSE
             /\ g.interest = {} /\ g.listed = h.listed /\ g.events = h.events
  BY Zenon DEF HandlerRecords, HandlerStates

LEMMA HandlerUsed ==
  ASSUME NEW h \in HandlerRecords
  PROVE  LET g == [h EXCEPT !.state = "USING", !.listed = TRUE, !.polled = TRUE,
                            !.interest = h.events]
         IN  /\ g \in HandlerRecords /\ g.state = "USING" /\ g.polled = TRUE
             /\ g.interest = h.events /\ g.listed = TRUE /\ g.events = h.events
  BY Zenon DEF HandlerRecords, HandlerStates

LEMMA HandlerRemoved ==
  ASSUME NEW h \in HandlerRecords
  PROVE  LET g == RemoveHandler(h)
         IN  /\ g \in HandlerRecords /\ g.state = "NEW" /\ g.listed = FALSE
             /\ g.interest = {} /\ g.events = h.events
             /\ g.polled = IF h.state = "USING" THEN FALSE ELSE h.polled
  BY Zenon DEF HandlerRecords, HandlerStates, RemoveHandler

\* Nothing that keeps to the protocol makes updateHandler fail, and it leaves handler,
\* handlerList_ and kernel in agreement; it forgets a handler without events, and
\* registers one it had forgotten, even without events.
LEMMA Updated ==
  ASSUME NEW h \in HandlerRecords, Consistent(h), NEW es \in SUBSET Events,
         NEW g, g = UpdateHandler([h EXCEPT !.events = es])
  PROVE  /\ ~UpdateFails(h)
         /\ g \in HandlerRecords /\ g.events = es /\ Consistent(g) /\ g.state # "NEW"
         /\ es # {} => g.polled
         /\ g.polled => es # {} \/ ~h.polled
<1> DEFINE k == [h EXCEPT !.events = es]
<1>1. /\ k \in HandlerRecords /\ k.events = es /\ k.state = h.state
      /\ k.listed = h.listed /\ k.polled = h.polled
  BY EventsSet
<1> HIDE DEF k
<1>2. ~UpdateFails(h)
  <2>1. h.polled = TRUE \/ h.polled = FALSE
    BY HandlerFields
  <2>2. (h.state = "USING") = h.polled
    BY <2>1, Zenon DEF Consistent
  <2> QED
    BY <2>2, Zenon DEF Consistent, UpdateFails
<1>3. g = UpdateHandler(k)
  BY DEF k
<1>4. CASE k.state = "USING" /\ k.events = {}
  <2>1. g = [k EXCEPT !.state = "DELETED", !.polled = FALSE, !.interest = {}]
    BY <1>3, <1>4 DEF UpdateHandler
  <2>2. /\ g \in HandlerRecords /\ g.state = "DELETED" /\ g.polled = FALSE
        /\ g.interest = {} /\ g.listed = k.listed /\ g.events = k.events
    BY <1>1, <2>1, HandlerDeleted
  <2>3. h.listed /\ es = {}
    BY <1>1, <1>4 DEF Consistent
  <2> QED
    BY <1>1, <1>2, <2>2, <2>3, Zenon DEF Consistent
<1>5. CASE ~(k.state = "USING" /\ k.events = {})
  <2>1. g = [k EXCEPT !.state = "USING", !.listed = TRUE, !.polled = TRUE, !.interest = k.events]
    BY <1>3, <1>5 DEF UpdateHandler
  <2>2. /\ g \in HandlerRecords /\ g.state = "USING" /\ g.polled = TRUE
        /\ g.interest = k.events /\ g.listed = TRUE /\ g.events = k.events
    BY <1>1, <2>1, HandlerUsed
  <2>3. es # {} \/ ~h.polled
    BY <1>1, <1>5 DEF Consistent
  <2>4. Consistent(g)
    BY <2>2 DEF Consistent
  <2> QED
    BY <1>1, <1>2, <2>2, <2>3, <2>4
<1> QED
  BY <1>4, <1>5

\* disableAll and removeHandler, of a handler that has been registered once.
LEMMA Removed ==
  ASSUME NEW h \in HandlerRecords, Consistent(h), h.state # "NEW",
         NEW g, g = RemoveHandler(DisableAll(h))
  PROVE  /\ ~UpdateFails(h) /\ ~RemoveFails(DisableAll(h))
         /\ g \in HandlerRecords /\ g.events = {} /\ Consistent(g) /\ g.state = "NEW"
<1> DEFINE k == DisableAll(h)
<1>1. /\ ~UpdateFails(h)
      /\ k \in HandlerRecords /\ k.events = {} /\ Consistent(k) /\ k.state # "NEW"
  BY Updated DEF DisableAll
<1> HIDE DEF k
<1>2. ~RemoveFails(k)
  BY <1>1 DEF RemoveFails, Consistent
<1>3. g = RemoveHandler(k)
  BY DEF k
<1>4. /\ g \in HandlerRecords /\ g.state = "NEW" /\ g.listed = FALSE
      /\ g.interest = {} /\ g.events = k.events
      /\ g.polled = IF k.state = "USING" THEN FALSE ELSE k.polled
  BY <1>1, <1>3, HandlerRemoved
<1>5. g.polled = FALSE
  BY <1>1, <1>4, HandlerFields DEF Consistent
<1>6. Consistent(g)
  BY <1>4, <1>5 DEF Consistent
<1> QED
  BY <1>1, <1>2, <1>4, <1>6 DEF k

LEMMA NewIsRegistered ==
  /\ NewHandler \in HandlerRecords /\ NewHandler.events = {} /\ NewHandler.state = "NEW"
  /\ NewHandler.polled = FALSE /\ Registered(NewHandler, FALSE)
  BY Zenon DEF NewHandler, HandlerRecords, HandlerStates, Registered, Consistent

-----------------------------------------------------------------------------
(* Types.                                                                  *)

NetRecord == [sent : 0 .. MaxMsgs, queued : BOOLEAN, fin : BOOLEAN, rst : BOOLEAN,
              err : BOOLEAN, shut : BOOLEAN]
FrameRecord == [conn : Conns \cup {0}, calling : BOOLEAN, todo : Seq(HandlerOps),
                cb : {"none", "connection", "message", "write"}]
ReportRecord == [conn : Conns, revs : SUBSET {"in", "out", "hup", "err"}]

AcceptType ==
  /\ nextConnId_ \in 1 .. MaxConns + 1
  /\ next_ \in Workers
  /\ connections_ \subseteq 1 .. nextConnId_ - 1
  /\ listening_ \in BOOLEAN
  /\ backlog \in 0 .. MaxConns + 1 - nextConnId_
  /\ loopOf \in [Conns -> Loops]

ConnType ==
  /\ state_ \in [Conns -> ConnStates]
  /\ outputBuffer_ \in [Conns -> BOOLEAN]
  /\ handler \in [Conns -> HandlerRecords]
  /\ seen \in [Conns -> Seq({"up", "down"})]
  /\ budget \in [Conns -> 0 .. MaxCalls]

NetType == net \in [Conns -> NetRecord]

IdlerType == idler \in [pc : {"idle", "set", "queue"}, conn : Conns \cup {0}]

QueueType ==
  /\ phase \in [Loops -> {"poll", "io", "batch"}]
  /\ pending \in [Loops -> Seq(Functors)]
  /\ batch \in [Loops -> Seq(Functors)]
  /\ pos \in [Loops -> Nat]
  /\ \A l \in Loops : pos[l] <= Len(batch[l]) /\ (phase[l] # "batch" => batch[l] = <<>>)

WorkerType ==
  /\ active \in [Workers -> SUBSET ReportRecord]
  /\ frame \in [Workers -> FrameRecord]
  /\ \A l \in Workers :
       /\ active[l] # {} => phase[l] = "io"
       /\ phase[l] = "poll" => frame[l] = Idle
       /\ phase[l] = "batch" => frame[l].todo = <<>>

LEMMA TypeParts ==
  TypeOK <=> AcceptType /\ ConnType /\ NetType /\ IdlerType /\ QueueType /\ WorkerType
<1>1. TypeOK => AcceptType /\ ConnType /\ NetType /\ IdlerType /\ QueueType /\ WorkerType
  BY Zenon DEF TypeOK, AcceptType, ConnType, NetType, NetRecord, IdlerType, QueueType, WorkerType,
               FrameRecord, HandlerOps, ReportRecord
<1>2. AcceptType /\ ConnType /\ NetType /\ IdlerType /\ QueueType /\ WorkerType => TypeOK
  BY Zenon DEF TypeOK, AcceptType, ConnType, NetType, NetRecord, IdlerType, QueueType, WorkerType,
               FrameRecord, HandlerOps, ReportRecord
<1> QED
  BY <1>1, <1>2

LEMMA TypePartsAfter ==
  ASSUME AcceptType', ConnType', NetType', IdlerType', QueueType', WorkerType'
  PROVE  TypeOK'
  BY Zenon DEF TypeOK, AcceptType, ConnType, NetType, NetRecord, IdlerType, QueueType, WorkerType,
               FrameRecord, HandlerOps, ReportRecord

LEMMA FrameFields ==
  ASSUME NEW f \in FrameRecord
  PROVE  /\ f.conn \in Conns \cup {0} /\ f.calling \in BOOLEAN /\ f.todo \in Seq(HandlerOps)
         /\ f.cb \in {"none", "connection", "message", "write"}
  BY Zenon DEF FrameRecord

LEMMA NetFields ==
  ASSUME NEW n \in NetRecord
  PROVE  /\ n.sent \in 0 .. MaxMsgs /\ n.queued \in BOOLEAN /\ n.fin \in BOOLEAN
         /\ n.rst \in BOOLEAN /\ n.err \in BOOLEAN /\ n.shut \in BOOLEAN
  BY Zenon DEF NetRecord

LEMMA NetMarked ==
  ASSUME NEW n \in NetRecord
  PROVE  /\ [n EXCEPT !.fin = TRUE] \in NetRecord
         /\ [n EXCEPT !.rst = TRUE, !.err = TRUE] \in NetRecord
         /\ [n EXCEPT !.queued = FALSE] \in NetRecord
         /\ [n EXCEPT !.err = FALSE] \in NetRecord
  BY Zenon DEF NetRecord

LEMMA NetSent ==
  ASSUME NEW n \in NetRecord, NEW k \in 0 .. MaxMsgs
  PROVE  [n EXCEPT !.sent = k, !.queued = TRUE] \in NetRecord
  BY Zenon DEF NetRecord

LEMMA NetShut ==
  ASSUME NEW n \in NetRecord, NEW b \in BOOLEAN
  PROVE  [n EXCEPT !.shut = b] \in NetRecord
  BY Zenon DEF NetRecord

LEMMA IdleFrame == Idle \in FrameRecord
<1>1. <<>> \in Seq(HandlerOps)
  BY EmptySeq
<1> QED
  BY <1>1 DEF Idle, FrameRecord

LEMMA AcceptKept ==
  ASSUME AcceptType, UNCHANGED <<nextConnId_, next_, connections_, listening_, backlog, loopOf>>
  PROVE  AcceptType'
  BY DEF AcceptType

LEMMA ConnKept ==
  ASSUME ConnType, UNCHANGED <<state_, outputBuffer_, handler, seen, budget>>
  PROVE  ConnType'
  BY DEF ConnType

LEMMA NetKept == ASSUME NetType, UNCHANGED net PROVE NetType'
  BY DEF NetType

LEMMA IdlerKept == ASSUME IdlerType, UNCHANGED idler PROVE IdlerType'
  BY DEF IdlerType

LEMMA QueueKept ==
  ASSUME QueueType, UNCHANGED <<phase, pending, batch, pos>>
  PROVE  QueueType'
  BY DEF QueueType

LEMMA WorkerKept ==
  ASSUME WorkerType, UNCHANGED <<phase, active, frame>>
  PROVE  WorkerType'
  BY DEF WorkerType

LEMMA QueueAppended ==
  ASSUME QueueType, NEW l \in Loops, NEW f \in Functors,
         pending' = [pending EXCEPT ![l] = Append(@, f)], UNCHANGED <<phase, batch, pos>>
  PROVE  QueueType'
<1>1. Append(pending[l], f) \in Seq(Functors)
  BY AppendProperties DEF QueueType
<1> QED
  BY <1>1 DEF QueueType

LEMMA QueueRun ==
  ASSUME QueueType, NEW l \in Loops, NEW o, NEW c, Runs(l, o, c), UNCHANGED <<phase, pending, batch>>
  PROVE  QueueType'
<1>1. /\ pos[l] \in Nat /\ Len(batch[l]) \in Nat /\ pos[l] < Len(batch[l])
      /\ pos' = [pos EXCEPT ![l] = pos[l] + 1]
  BY LenProperties DEF QueueType, Runs
<1>2. pos' \in [Loops -> Nat]
  BY <1>1 DEF QueueType
<1>3. \A k \in Loops : pos'[k] <= Len(batch'[k])
  BY <1>1 DEF QueueType
<1> QED
  BY <1>2, <1>3 DEF QueueType

\* The connection a worker is busy with.
Busy(l) == frame[l].cb # "none" \/ frame[l].todo # <<>> \/ frame[l].calling

LEMMA BusyWorker ==
  ASSUME TypeOK, Good, NEW l \in Workers, Busy(l)
  PROVE  /\ frame[l] # Idle /\ frame[l].conn \in Conns /\ frame[l].conn < nextConnId_
         /\ loopOf[frame[l].conn] = l
         /\ frame[l].calling => frame[l].cb # "none"
<1>1. frame[l] # Idle
  BY DEF Busy, Idle
<1>2. PICK c \in Conns : frame[l].conn = c /\ Serves(l, c)
  BY <1>1 DEF Good, WorkerInv
<1> QED
  BY <1>1, <1>2 DEF Serves, Handling, Reading, CalledBack

LEMMA Numbers ==
  /\ Workers \subseteq Nat \ {0} /\ Workers \subseteq Loops /\ Main \in Loops /\ Main \notin Workers
  /\ Conns \subseteq Nat \ {0}
  BY ServerAssumption DEF Workers, Loops, Main, Conns

LEMMA NextIsNat == ASSUME TypeOK PROVE nextConnId_ \in Nat \ {0}
<1>1. nextConnId_ \in 1 .. MaxConns + 1
  BY DEF TypeOK
<1> QED
  BY <1>1, ServerAssumption

LEMMA FrameSet ==
  ASSUME WorkerType, NEW l \in Workers, NEW f \in FrameRecord,
         frame' = [frame EXCEPT ![l] = f], UNCHANGED <<phase, active>>,
         phase[l] # "poll", phase[l] = "batch" => f.todo = <<>>
  PROVE  WorkerType'
  BY DEF WorkerType

LEMMA CallbackFrame ==
  ASSUME NEW c \in Conns, NEW todo \in Seq(HandlerOps), NEW cb \in {"none", "connection", "message", "write"}
  PROVE  /\ Callback(c, todo, cb) \in FrameRecord
         /\ Callback(c, todo, cb).todo = todo /\ Callback(c, todo, cb).cb = cb
         /\ Callback(c, todo, cb).conn = c
         /\ Callback(c, todo, cb).calling <=> cb \in CallingCallbacks
<1> DEFINE b == cb \in CallingCallbacks
<1>1. b \in BOOLEAN
  OBVIOUS
<1>2. Callback(c, todo, cb) = [conn |-> c, todo |-> todo, cb |-> cb, calling |-> b]
  BY DEF Callback
<1> HIDE DEF b
<1>3. c \in Conns \cup {0}
  OBVIOUS
<1>4. [conn |-> c, todo |-> todo, cb |-> cb, calling |-> b] \in FrameRecord
  BY <1>1, <1>3, Zenon DEF FrameRecord
<1>5. /\ [conn |-> c, todo |-> todo, cb |-> cb, calling |-> b].todo = todo
      /\ [conn |-> c, todo |-> todo, cb |-> cb, calling |-> b].cb = cb
      /\ [conn |-> c, todo |-> todo, cb |-> cb, calling |-> b].conn = c
      /\ [conn |-> c, todo |-> todo, cb |-> cb, calling |-> b].calling = b
  BY Zenon
<1> QED
  BY <1>2, <1>4, <1>5 DEF b

LEMMA FrameCalling ==
  ASSUME NEW f \in FrameRecord, NEW b \in BOOLEAN, NEW g, g = [f EXCEPT !.calling = b]
  PROVE  /\ g \in FrameRecord /\ g.todo = f.todo /\ g.cb = f.cb
         /\ g.conn = f.conn /\ g.calling = b
  BY Zenon DEF FrameRecord

LEMMA FrameReturned ==
  ASSUME NEW f \in FrameRecord, NEW g, g = [f EXCEPT !.cb = "none", !.calling = FALSE]
  PROVE  /\ g \in FrameRecord /\ g.todo = f.todo /\ g.cb = "none"
         /\ g.conn = f.conn /\ g.calling = FALSE
  BY Zenon DEF FrameRecord

LEMMA NextDueFrame ==
  ASSUME TypeOK, NEW l \in Workers, frame[l].todo # <<>>
  PROVE  /\ NextDue(l) \in FrameRecord
         /\ Len(frame[l].todo) = 1 => NextDue(l) = Idle
         /\ Len(frame[l].todo) # 1 =>
              /\ NextDue(l).conn = frame[l].conn /\ NextDue(l).cb = frame[l].cb
              /\ NextDue(l).calling = frame[l].calling /\ NextDue(l).todo = Tail(frame[l].todo)
<1>1. frame[l] \in FrameRecord
  BY TypeParts DEF WorkerType
<1>2. frame[l].todo \in Seq(HandlerOps) /\ Tail(frame[l].todo) \in Seq(HandlerOps)
  BY <1>1, FrameFields, HeadTailProperties
<1>3. CASE Len(frame[l].todo) = 1
  BY <1>3, IdleFrame DEF NextDue
<1>4. CASE Len(frame[l].todo) # 1
  <2>1. NextDue(l) = [frame[l] EXCEPT !.todo = Tail(frame[l].todo)]
    BY <1>4 DEF NextDue
  <2>2. /\ NextDue(l) \in FrameRecord /\ NextDue(l).todo = Tail(frame[l].todo)
        /\ NextDue(l).cb = frame[l].cb /\ NextDue(l).conn = frame[l].conn
        /\ NextDue(l).calling = frame[l].calling
    BY <1>1, <1>2, <2>1, Zenon DEF FrameRecord
  <2> QED
    BY <1>4, <2>2, Zenon
<1> QED
  BY <1>3, <1>4

LEMMA WorkerServed ==
  ASSUME TypeOK, NEW l \in Workers, frame[l].todo # <<>>, UNCHANGED <<phase, active>>,
         frame' = [frame EXCEPT ![l] = NextDue(l)]
  PROVE  WorkerType'
<1>1. phase[l] # "poll" /\ phase[l] # "batch" /\ WorkerType
  BY TypeParts DEF WorkerType, Idle
<1> QED
  BY <1>1, NextDueFrame, FrameSet

LEMMA NetUpdated ==
  ASSUME NetType, NEW c \in Conns, NEW n \in NetRecord, net' = [net EXCEPT ![c] = n]
  PROVE  NetType'
  BY DEF NetType

LEMMA PeerTypes ==
  ASSUME TypeOK, PeerStep
  PROVE  TypeOK'
<1>1. AcceptType /\ ConnType /\ NetType /\ IdlerType /\ QueueType /\ WorkerType
  BY TypeParts
<1>2. ConnType' /\ IdlerType' /\ QueueType' /\ WorkerType'
  <2>1. UNCHANGED <<connVars, budget, idler, queueVars, pending, active, frame>>
    BY DEF PeerStep, PeerConnect, PeerSend, PeerClose, PeerReset
  <2> QED
    BY <1>1, <2>1, ConnKept, IdlerKept, QueueKept, WorkerKept DEF connVars, queueVars
<1>3. CASE PeerConnect
  <2>1. AcceptType'
    <3>1. /\ UNCHANGED <<nextConnId_, next_, connections_, listening_, loopOf>>
          /\ nextConnId_ + backlog <= MaxConns /\ backlog' = backlog + 1
      BY <1>3 DEF PeerConnect, connVars, Conns
    <3>2. nextConnId_ \in 1 .. MaxConns + 1 /\ backlog \in 0 .. MaxConns + 1 - nextConnId_
      BY <1>1 DEF AcceptType
    <3>3. backlog' \in 0 .. MaxConns + 1 - nextConnId_
      BY <3>1, <3>2, ServerAssumption
    <3> QED
      BY <1>1, <3>1, <3>3 DEF AcceptType
  <2>2. NetType'
    BY <1>1, <1>3, NetKept DEF PeerConnect
  <2> QED
    BY <1>2, <2>1, <2>2, TypePartsAfter
<1>4. ASSUME NEW c \in Conns, PeerSend(c) \/ PeerClose(c) \/ PeerReset(c)
      PROVE  TypeOK'
  <2>1. AcceptType'
    BY <1>1, <1>4, AcceptKept
       DEF PeerSend, PeerClose, PeerReset, serverVars, acceptVars, connVars
  <2>2. net[c] \in NetRecord
    BY <1>1 DEF NetType
  <2>3. net[c].sent \in 0 .. MaxMsgs
    BY <2>2, NetFields
  <2>4. CASE PeerSend(c)
    <3>1. net[c].sent + 1 \in 0 .. MaxMsgs
      BY <2>3, <2>4, ServerAssumption DEF PeerSend
    <3>2. [net[c] EXCEPT !.sent = net[c].sent + 1, !.queued = TRUE] \in NetRecord
      BY <2>2, <3>1, NetSent
    <3>3. net' = [net EXCEPT ![c] = [net[c] EXCEPT !.sent = net[c].sent + 1, !.queued = TRUE]]
      BY <1>1, <2>4 DEF PeerSend, NetType
    <3>4. NetType'
      BY <1>1, <3>2, <3>3, NetUpdated
    <3> QED
      BY <1>2, <2>1, <3>4, TypePartsAfter
  <2>5. CASE PeerClose(c)
    <3>1. [net[c] EXCEPT !.fin = TRUE] \in NetRecord
      BY <2>2, NetMarked
    <3>2. net' = [net EXCEPT ![c] = [net[c] EXCEPT !.fin = TRUE]]
      BY <2>5 DEF PeerClose
    <3>3. NetType'
      BY <1>1, <3>1, <3>2, NetUpdated
    <3> QED
      BY <1>2, <2>1, <3>3, TypePartsAfter
  <2>6. CASE PeerReset(c)
    <3>1. [net[c] EXCEPT !.rst = TRUE, !.err = TRUE] \in NetRecord
      BY <2>2, NetMarked
    <3>2. net' = [net EXCEPT ![c] = [net[c] EXCEPT !.rst = TRUE, !.err = TRUE]]
      BY <1>1, <2>6 DEF PeerReset, NetType
    <3>3. NetType'
      BY <1>1, <3>1, <3>2, NetUpdated
    <3> QED
      BY <1>2, <2>1, <3>3, TypePartsAfter
  <2> QED
    BY <1>4, <2>4, <2>5, <2>6
<1> QED
  BY <1>3, <1>4 DEF PeerStep

LEMMA BatchTypes ==
  ASSUME TypeOK, NEW l \in Loops, SwapPending(l) \/ FinishBatch(l)
  PROVE  TypeOK'
<1>1. AcceptType /\ ConnType /\ NetType /\ IdlerType /\ QueueType /\ WorkerType
  BY TypeParts
<1>2. AcceptType' /\ ConnType' /\ NetType' /\ IdlerType'
  <2>1. UNCHANGED <<serverVars, connVars, budget, net, idler, active, frame>>
    BY DEF SwapPending, FinishBatch
  <2> QED
    BY <1>1, <2>1, AcceptKept, ConnKept, NetKept, IdlerKept DEF serverVars, acceptVars, connVars
<1>3. \A k \in Workers : active'[k] = active[k] /\ frame'[k] = frame[k]
  BY DEF SwapPending, FinishBatch
<1>4. active' \in [Workers -> SUBSET ReportRecord] /\ frame' \in [Workers -> FrameRecord]
  BY <1>1 DEF SwapPending, FinishBatch, WorkerType
<1>5. CASE SwapPending(l)
  <2>1. /\ phase' = [phase EXCEPT ![l] = "batch"] /\ phase[l] = "io"
        /\ batch' = [batch EXCEPT ![l] = pending[l]]
        /\ pending' = [pending EXCEPT ![l] = <<>>] /\ pos' = pos
        /\ l # Main => active[l] = {} /\ frame[l] = Idle
    BY <1>5 DEF SwapPending, ServingDone
  <2>2. batch[l] = <<>> /\ pos[l] \in Nat /\ pos[l] <= Len(batch[l]) /\ Len(pending[l]) \in Nat
    BY <1>1, <2>1, LenProperties DEF QueueType
  <2>3. pos[l] = 0
    BY <2>2, EmptySeq
  <2>4. QueueType'
    BY <1>1, <2>1, <2>2, <2>3, EmptySeq DEF QueueType
  <2>5. WorkerType'
    BY <1>1, <1>3, <1>4, <2>1, Numbers DEF WorkerType, QueueType, Idle
  <2> QED
    BY <1>2, <2>4, <2>5, TypePartsAfter
<1>6. CASE FinishBatch(l)
  <2>1. /\ phase' = [phase EXCEPT ![l] = IF l = Main THEN "io" ELSE "poll"] /\ phase[l] = "batch"
        /\ batch' = [batch EXCEPT ![l] = <<>>] /\ pos' = [pos EXCEPT ![l] = 0]
        /\ pending' = pending
        /\ l \in Workers => frame[l] = Idle
    BY <1>6 DEF FinishBatch
  <2>2. QueueType'
    BY <1>1, <2>1, EmptySeq DEF QueueType
  <2>3. WorkerType'
    BY <1>1, <1>3, <1>4, <2>1, Numbers DEF WorkerType, QueueType, Idle
  <2> QED
    BY <1>2, <2>2, <2>3, TypePartsAfter
<1> QED
  BY <1>5, <1>6

LEMMA MainTypes ==
  ASSUME TypeOK, Good, IdleTimer \/ MainStep
  PROVE  TypeOK'
<1>1. AcceptType /\ ConnType /\ NetType /\ IdlerType /\ QueueType /\ WorkerType
  BY TypeParts
<1>2. CASE Start
  <2>1. AcceptType'
    BY <1>1, <1>2 DEF Start, Listen, AcceptType, connVars
  <2> QED
    BY <1>1, <1>2, <2>1, ConnKept, NetKept, IdlerKept, QueueKept, WorkerKept, TypePartsAfter
       DEF Start, connVars, queueVars
<1>3. CASE AcceptConnection
  <2>1. /\ nextConnId_' = nextConnId_ + 1 /\ next_' = NextLoop /\ listening_' = listening_
        /\ loopOf' = [loopOf EXCEPT ![nextConnId_] = next_]
        /\ connections_' = connections_ \cup {nextConnId_}
        /\ backlog > 0 /\ backlog' = backlog - 1
        /\ pending' = [pending EXCEPT ![next_] =
                         Append(@, Functor("connectEstablished", nextConnId_))]
        /\ UNCHANGED <<state_, outputBuffer_, handler, seen, net, active, frame, queueVars,
                       budget, idler>>
    BY <1>3 DEF AcceptConnection, AcceptOldest, HandleNewConnection
  <2>2. /\ nextConnId_ \in 1 .. MaxConns + 1 /\ backlog \in 0 .. MaxConns + 1 - nextConnId_
        /\ next_ \in 1 .. ThreadNum
    BY <1>1 DEF AcceptType, Workers
  <2>3. nextConnId_ \in Conns
    BY <2>1, <2>2, ServerAssumption DEF Conns
  <2>4. /\ nextConnId_' \in 1 .. MaxConns + 1 /\ backlog' \in 0 .. MaxConns + 1 - nextConnId_'
        /\ nextConnId_ \in 1 .. nextConnId_' - 1
        /\ \A c \in 1 .. nextConnId_ - 1 : c \in 1 .. nextConnId_' - 1
    BY <2>1, <2>2, ServerAssumption
  <2>5. next_' \in Workers
    BY <2>1, <2>2, ServerAssumption DEF NextLoop, Workers
  <2>6. connections_' \subseteq 1 .. nextConnId_' - 1
    BY <1>1, <2>1, <2>4 DEF AcceptType
  <2>7. loopOf' \in [Conns -> Loops]
    BY <1>1, <2>1, <2>3, Numbers DEF AcceptType
  <2>8. AcceptType'
    BY <1>1, <2>1, <2>4, <2>5, <2>6, <2>7 DEF AcceptType
  <2>9. next_ \in Loops /\ Functor("connectEstablished", nextConnId_) \in Functors
    BY <1>1, <2>3, Numbers, FunctorFields DEF AcceptType, SharedOps
  <2>10. QueueType'
    BY <1>1, <2>1, <2>9, QueueAppended DEF queueVars
  <2> QED
    BY <1>1, <2>1, <2>8, <2>10, ConnKept, NetKept, IdlerKept, WorkerKept, TypePartsAfter
       DEF queueVars
<1>4. ASSUME NEW c \in Conns, IdleTest(c) PROVE TypeOK'
  <2>1. IdlerType'
    BY <1>4 DEF IdleTest, IdlerType
  <2> QED
    BY <1>1, <1>4, <2>1, AcceptKept, ConnKept, NetKept, QueueKept, WorkerKept, TypePartsAfter
       DEF IdleTest, serverVars, acceptVars, connVars, queueVars
<1>5. CASE IdleSet
  <2>1. idler.conn \in Conns
    BY <1>5 DEF IdleSet, Good, IdlerFits
  <2>2. ConnType'
    BY <1>1, <1>5, <2>1 DEF IdleSet, ConnType, ConnStates
  <2>3. IdlerType'
    BY <1>1, <1>5 DEF IdleSet, IdlerType
  <2> QED
    BY <1>1, <1>5, <2>2, <2>3, AcceptKept, NetKept, QueueKept, WorkerKept, TypePartsAfter
       DEF IdleSet, serverVars, acceptVars, queueVars
<1>6. CASE IdleQueue
  <2>1. idler.conn \in Conns
    BY <1>6 DEF IdleQueue, Good, IdlerFits
  <2>2. loopOf[idler.conn] \in Loops /\ Functor("shutdownInLoop", idler.conn) \in Functors
    BY <1>1, <2>1, FunctorFields DEF AcceptType, RawOps
  <2>3. QueueType'
    BY <1>1, <1>6, <2>2, QueueAppended DEF IdleQueue, queueVars
  <2>4. IdlerType'
    BY <1>6 DEF IdleQueue, IdlerType
  <2> QED
    BY <1>1, <1>6, <2>3, <2>4, AcceptKept, ConnKept, NetKept, WorkerKept, TypePartsAfter
       DEF IdleQueue, serverVars, acceptVars, connVars, queueVars
<1>7. CASE SwapPending(Main) \/ FinishBatch(Main)
  BY <1>7, BatchTypes, Numbers
<1>8. ASSUME NEW c \in Conns, HandleRemoveConnectionInLoop(c) PROVE TypeOK'
  <2>1. /\ Runs(Main, "handleRemoveConnectionInLoop", c)
        /\ connections_' = connections_ \ {c}
        /\ pending' = [pending EXCEPT ![loopOf[c]] = Append(@, Functor("connectDestroyed", c))]
        /\ UNCHANGED <<acceptVars, connVars, net, active, frame, batch, phase, idler, budget>>
    BY <1>8 DEF HandleRemoveConnectionInLoop
  <2>2. AcceptType'
    BY <1>1, <2>1 DEF AcceptType, acceptVars, connVars
  <2>3. loopOf[c] \in Loops /\ Append(pending[loopOf[c]], Functor("connectDestroyed", c)) \in Seq(Functors)
    BY <1>1, FunctorFields, AppendProperties DEF AcceptType, QueueType, SharedOps
  <2>4. pending' \in [Loops -> Seq(Functors)]
    BY <1>1, <2>1, <2>3 DEF QueueType
  <2>5. /\ pos[Main] \in Nat /\ Len(batch[Main]) \in Nat /\ pos[Main] < Len(batch[Main])
        /\ pos' = [pos EXCEPT ![Main] = pos[Main] + 1]
    BY <1>1, <2>1, Numbers, LenProperties DEF QueueType, Runs
  <2>6. pos' \in [Loops -> Nat] /\ \A k \in Loops : pos'[k] <= Len(batch'[k])
    <3>1. pos' \in [Loops -> Nat]
      BY <1>1, <2>5, Numbers DEF QueueType
    <3>2. \A k \in Loops : pos'[k] <= Len(batch'[k])
      BY <1>1, <2>1, <2>5 DEF QueueType
    <3> QED
      BY <3>1, <3>2
  <2>7. QueueType'
    BY <1>1, <2>1, <2>4, <2>6 DEF QueueType
  <2> QED
    BY <1>1, <2>1, <2>2, <2>7, ConnKept, NetKept, IdlerKept, WorkerKept, TypePartsAfter
       DEF connVars
<1> QED
  BY <1>2, <1>3, <1>4, <1>5, <1>6, <1>7, <1>8 DEF IdleTimer, MainStep

\* g is h after its events have been set to es.
UpdatedTo(h, g, es) ==
  /\ ~UpdateFails(h)
  /\ g \in HandlerRecords /\ g.events = es /\ Consistent(g) /\ g.state # "NEW"
  /\ es # {} => g.polled
  /\ g.polled => es # {} \/ ~h.polled

LEMMA Setters ==
  ASSUME TypeOK, Good, NEW c \in Conns
  PROVE  /\ handler[c] \in HandlerRecords /\ handler[c].events \subseteq Events
         /\ \A e \in Events :
              /\ UpdatedTo(handler[c], Enable(handler[c], e), handler[c].events \cup {e})
              /\ UpdatedTo(handler[c], Disable(handler[c], e), handler[c].events \ {e})
         /\ UpdatedTo(handler[c], DisableAll(handler[c]), {})
<1>1. handler[c] \in HandlerRecords
  BY TypeParts DEF ConnType
<1>2. handler[c].events \subseteq Events
  BY <1>1, HandlerFields
<1>3. Consistent(handler[c])
  BY DEF Good, ConnInv, Registered
<1>4. \A es \in SUBSET Events :
        UpdatedTo(handler[c], UpdateHandler([handler[c] EXCEPT !.events = es]), es)
  BY <1>1, <1>3, Updated DEF UpdatedTo
<1>5. ASSUME NEW e \in Events
      PROVE  /\ UpdatedTo(handler[c], Enable(handler[c], e), handler[c].events \cup {e})
             /\ UpdatedTo(handler[c], Disable(handler[c], e), handler[c].events \ {e})
  <2>1. handler[c].events \cup {e} \in SUBSET Events /\ handler[c].events \ {e} \in SUBSET Events
    BY <1>2
  <2>2. /\ Enable(handler[c], e) = UpdateHandler([handler[c] EXCEPT !.events = handler[c].events \cup {e}])
        /\ Disable(handler[c], e) = UpdateHandler([handler[c] EXCEPT !.events = handler[c].events \ {e}])
    BY DEF Enable, Disable
  <2> QED
    BY <1>4, <2>1, <2>2
<1>6. UpdatedTo(handler[c], DisableAll(handler[c]), {})
  <2>1. DisableAll(handler[c]) = UpdateHandler([handler[c] EXCEPT !.events = {}])
    BY DEF DisableAll
  <2>2. {} \in SUBSET Events
    OBVIOUS
  <2> QED
    BY <1>4, <2>1, <2>2
<1> QED
  BY <1>1, <1>2, <1>5, <1>6

LEMMA ShutSet ==
  ASSUME NetType, NEW c \in Conns, NEW v \in BOOLEAN,
         net' = [net EXCEPT ![c] = [net[c] EXCEPT !.shut = v]]
  PROVE  /\ NetType' /\ net'[c].shut = v
         /\ net'[c].rst = net[c].rst /\ net'[c].fin = net[c].fin
         /\ \A d \in Conns : d # c => net'[d] = net[d]
<1> DEFINE n == [net[c] EXCEPT !.shut = v]
<1>1. net[c] \in NetRecord
  BY DEF NetType
<1>2. n \in NetRecord
  BY <1>1, NetShut
<1>3. n.shut = v /\ n.rst = net[c].rst /\ n.fin = net[c].fin
  BY <1>1, Zenon DEF NetRecord
<1>4. net' = [net EXCEPT ![c] = n]
  OBVIOUS
<1> HIDE DEF n
<1>5. NetType'
  BY <1>2, <1>4, NetUpdated
<1>6. net'[c] = n /\ \A d \in Conns : d # c => net'[d] = net[d]
  BY <1>4 DEF NetType
<1> QED
  BY <1>3, <1>5, <1>6, Zenon

\* shutdown of the socket, if asked to.
LEMMA ShutdownWritten ==
  ASSUME NetType, NEW c \in Conns, ShutdownInLoop(c)
  PROVE  /\ NetType'
         /\ net'[c].shut <=> net[c].shut \/ "out" \notin handler[c].events
         /\ net'[c].rst = net[c].rst /\ net'[c].fin = net[c].fin
         /\ \A d \in Conns : d # c => net'[d] = net[d]
<1> DEFINE v == net[c].shut \/ "out" \notin handler[c].events
<1>1. v \in BOOLEAN
  OBVIOUS
<1>2. net' = [net EXCEPT ![c] = [net[c] EXCEPT !.shut = v]]
  BY DEF ShutdownInLoop, ShutdownWrite
<1>3. v <=> net[c].shut \/ "out" \notin handler[c].events
  OBVIOUS
<1> HIDE DEF v
<1>4. /\ NetType' /\ net'[c].shut = v
      /\ net'[c].rst = net[c].rst /\ net'[c].fin = net[c].fin
      /\ \A d \in Conns : d # c => net'[d] = net[d]
  BY <1>1, <1>2, ShutSet
<1> QED
  BY <1>3, <1>4, Zenon

LEMMA BudgetType ==
  ASSUME ConnType, NEW c \in Conns, budget[c] > 0, budget' = [budget EXCEPT ![c] = @ - 1]
  PROVE  budget' \in [Conns -> 0 .. MaxCalls] /\ budget'[c] = budget[c] - 1
<1>1. budget[c] \in 0 .. MaxCalls
  BY DEF ConnType
<1>2. budget[c] - 1 \in 0 .. MaxCalls
  BY <1>1, ServerAssumption
<1> QED
  BY <1>2 DEF ConnType

\* A functor of a worker; it may start a callback.
LEMMA FunctorTypes ==
  ASSUME TypeOK, Good, NEW l \in Workers, NEW c \in Conns,
         ConnectEstablished(l, c) \/ ConnectDestroyed(l, c) \/ WriteComplete(l, c)
           \/ RunShutdownInLoop(l, c)
  PROVE  TypeOK'
<1>1. AcceptType /\ ConnType /\ NetType /\ IdlerType /\ QueueType /\ WorkerType
  BY TypeParts
<1>2. AcceptType' /\ IdlerType'
  <2>1. UNCHANGED <<serverVars, loopOf, idler>>
    BY DEF ConnectEstablished, ConnectDestroyed, WriteComplete, RunShutdownInLoop, connVars
  <2> QED
    BY <1>1, <2>1, AcceptKept, IdlerKept DEF serverVars, acceptVars
<1>3. QueueType'
  <2>1. \E o : Runs(l, o, c)
    BY DEF ConnectEstablished, ConnectDestroyed, WriteComplete, RunShutdownInLoop
  <2>2. UNCHANGED <<phase, pending, batch>>
    BY DEF ConnectEstablished, ConnectDestroyed, WriteComplete, RunShutdownInLoop
  <2> QED
    BY <1>1, <2>1, <2>2, Numbers, QueueRun
<1>4. ASSUME NEW cb \in {"connection", "write"},
             frame' = [frame EXCEPT ![l] = Callback(c, <<>>, cb)], UNCHANGED <<phase, active>>,
             phase[l] = "batch"
      PROVE  WorkerType'
  <2>1. <<>> \in Seq(HandlerOps)
    BY EmptySeq
  <2>2. \A q \in Seq(HandlerOps) :
          Callback(c, q, cb) \in FrameRecord /\ Callback(c, q, cb).todo = q
    <3>1. cb \in {"none", "connection", "message", "write"}
      OBVIOUS
    <3> QED
      BY <3>1, CallbackFrame
  <2>3. Callback(c, <<>>, cb) \in FrameRecord /\ Callback(c, <<>>, cb).todo = <<>>
    BY <2>1, <2>2, Zenon
  <2> QED
    BY <1>1, <1>4, <2>3, FrameSet
<1>5. CASE ConnectEstablished(l, c)
  <2>1. Enable(handler[c], "in") \in HandlerRecords
    BY Setters DEF UpdatedTo, Events
  <2>2. /\ state_' = [state_ EXCEPT ![c] = "CONNECTED"]
        /\ handler' = [handler EXCEPT ![c] = Enable(handler[c], "in")]
        /\ seen' = [seen EXCEPT ![c] = Append(seen[c], Said(state_'[c]))]
        /\ UNCHANGED <<outputBuffer_, budget, net>>
    BY <1>5 DEF ConnectEstablished
  <2>3. Append(seen[c], Said(state_'[c])) \in Seq({"up", "down"})
    BY <1>1, AppendProperties DEF ConnType, Said
  <2>4. ConnType'
    BY <1>1, <2>1, <2>2, <2>3 DEF ConnType, ConnStates
  <2>5. WorkerType'
    BY <1>4, <1>5 DEF ConnectEstablished, Runs
  <2> QED
    BY <1>1, <1>2, <1>3, <2>2, <2>4, <2>5, NetKept, TypePartsAfter
<1>6. CASE ConnectDestroyed(l, c)
  <2>1. DisableAll(handler[c]) \in HandlerRecords
    BY Setters DEF UpdatedTo
  <2>2. RemoveHandler(DisableAll(handler[c])) \in HandlerRecords
    BY <2>1, HandlerRemoved
  <2>3. /\ state_' = [state_ EXCEPT ![c] = "DISCONNECTED"]
        /\ handler' = [handler EXCEPT ![c] = RemoveHandler(DisableAll(handler[c]))]
        /\ seen' = [seen EXCEPT ![c] = Append(seen[c], Said(state_'[c]))]
        /\ UNCHANGED <<outputBuffer_, budget, net, phase, active, frame>>
    BY <1>6 DEF ConnectDestroyed
  <2>4. Append(seen[c], Said(state_'[c])) \in Seq({"up", "down"})
    BY <1>1, AppendProperties DEF ConnType, Said
  <2>5. ConnType'
    BY <1>1, <2>2, <2>3, <2>4 DEF ConnType, ConnStates
  <2> QED
    BY <1>1, <1>2, <1>3, <2>3, <2>5, NetKept, WorkerKept, TypePartsAfter
<1>7. CASE WriteComplete(l, c)
  <2>1. WorkerType'
    BY <1>4, <1>7 DEF WriteComplete, Runs
  <2> QED
    BY <1>1, <1>2, <1>3, <1>7, <2>1, NetKept, ConnKept, TypePartsAfter
       DEF WriteComplete, connVars
<1>8. CASE RunShutdownInLoop(l, c)
  <2>1. NetType'
    <3>1. ShutdownInLoop(c)
      BY <1>8 DEF RunShutdownInLoop
    <3> QED
      BY <1>1, <3>1, ShutdownWritten
  <2> QED
    BY <1>1, <1>2, <1>3, <1>8, <2>1, ConnKept, WorkerKept, TypePartsAfter
       DEF RunShutdownInLoop, connVars
<1> QED
  BY <1>5, <1>6, <1>7, <1>8

LEMMA PairIs ==
  ASSUME NEW S, NEW x \in S, NEW y \in S
  PROVE  <<x>> \o <<y>> = <<x, y>>
<1> DEFINE s == <<x>> \o <<y>>
           t == <<x, y>>
<1>1. <<x>> \in Seq(S) /\ <<y>> \in Seq(S) /\ t \in Seq(S)
  OBVIOUS
<1>2. Len(s) = 2 /\ s[1] = x /\ s[2] = y /\ s \in Seq(S)
  BY <1>1, ConcatProperties
<1>3. Len(t) = 2 /\ t[1] = x /\ t[2] = y
  OBVIOUS
<1> HIDE DEF s, t
<1>4. s = t
  BY <1>1, <1>2, <1>3, SeqEqual
<1> QED
  BY <1>4 DEF s, t

LEMMA TripleIs ==
  ASSUME NEW S, NEW x \in S, NEW y \in S, NEW z \in S
  PROVE  <<x, y>> \o <<z>> = <<x, y, z>>
<1> DEFINE s == <<x, y>> \o <<z>>
           t == <<x, y, z>>
<1>1. <<x, y>> \in Seq(S) /\ <<z>> \in Seq(S) /\ t \in Seq(S)
  OBVIOUS
<1>2. Len(s) = 3 /\ s[1] = x /\ s[2] = y /\ s[3] = z /\ s \in Seq(S)
  BY <1>1, ConcatProperties
<1>3. Len(t) = 3 /\ t[1] = x /\ t[2] = y /\ t[3] = z
  OBVIOUS
<1> HIDE DEF s, t
<1>4. s = t
  BY <1>1, <1>2, <1>3, SeqEqual
<1> QED
  BY <1>4 DEF s, t

LEMMA AppendedPair ==
  ASSUME NEW S, NEW x \in S, NEW y \in S
  PROVE  Append(<<x>>, y) = <<x, y>>
<1> DEFINE s == Append(<<x>>, y)
           t == <<x, y>>
<1>1. <<x>> \in Seq(S) /\ t \in Seq(S)
  OBVIOUS
<1>2. Len(s) = 2 /\ s[1] = x /\ s[2] = y /\ s \in Seq(S)
  BY <1>1, AppendProperties
<1>3. Len(t) = 2 /\ t[1] = x /\ t[2] = y
  OBVIOUS
<1> HIDE DEF s, t
<1>4. s = t
  BY <1>1, <1>2, <1>3, SeqEqual
<1> QED
  BY <1>4 DEF s, t

LEMMA DueCallbacks ==
  ASSUME NEW revs
  PROVE  /\ Due(revs) \in {<<>>, <<"handleRead">>, <<"handleRead", "handleWrite">>, <<"handleWrite">>}
              \/ /\ "hup" \in revs /\ "in" \notin revs
                 /\ Due(revs) \in {<<"handleClose", "handleRead">>,
                                   <<"handleClose", "handleRead", "handleWrite">>}
         /\ Due(revs) \in {<<"handleRead">>, <<"handleRead", "handleWrite">>}
              => revs \cap {"in", "hup"} # {}
<1> DEFINE c == "hup" \in revs /\ "in" \notin revs
           r == revs \cap {"in", "hup"} # {}
           w == "out" \in revs
<1>1. c => r
  OBVIOUS
<1>2. /\ <<>> \o <<>> \o <<>> = <<>>
      /\ <<>> \o <<>> \o <<"handleWrite">> = <<"handleWrite">>
      /\ <<>> \o <<"handleRead">> \o <<>> = <<"handleRead">>
      /\ <<>> \o <<"handleRead">> \o <<"handleWrite">> = <<"handleRead", "handleWrite">>
      /\ <<"handleClose">> \o <<"handleRead">> \o <<>> = <<"handleClose", "handleRead">>
      /\ <<"handleClose">> \o <<"handleRead">> \o <<"handleWrite">>
           = <<"handleClose", "handleRead", "handleWrite">>
  <2>1. "handleClose" \in HandlerOps /\ "handleRead" \in HandlerOps /\ "handleWrite" \in HandlerOps
    BY DEF HandlerOps
  <2>2. /\ <<"handleRead">> \o <<"handleWrite">> = <<"handleRead", "handleWrite">>
        /\ <<"handleClose">> \o <<"handleRead">> = <<"handleClose", "handleRead">>
    BY <2>1, PairIs
  <2>3. <<"handleClose", "handleRead">> \o <<"handleWrite">>
          = <<"handleClose", "handleRead", "handleWrite">>
    BY <2>1, TripleIs
  <2>4. \A q \in Seq(HandlerOps) : <<>> \o q = q /\ q \o <<>> = q
    BY ConcatEmptySeq
  <2>5. /\ <<>> \in Seq(HandlerOps) /\ <<"handleRead">> \in Seq(HandlerOps)
        /\ <<"handleWrite">> \in Seq(HandlerOps) /\ <<"handleClose", "handleRead">> \in Seq(HandlerOps)
    BY <2>1
  <2> QED
    BY <2>2, <2>3, <2>4, <2>5, Zenon
<1>3. Due(revs) = (IF c THEN <<"handleClose">> ELSE <<>>)
                    \o (IF r THEN <<"handleRead">> ELSE <<>>)
                    \o (IF w THEN <<"handleWrite">> ELSE <<>>)
  BY DEF Due
<1> HIDE DEF r, w
<1>4. CASE c
  BY <1>1, <1>2, <1>3, <1>4
<1> HIDE DEF c
<1>5. CASE ~c /\ r
  BY <1>2, <1>3, <1>5 DEF r
<1>6. CASE ~c /\ ~r
  BY <1>2, <1>3, <1>6
<1> QED
  BY <1>4, <1>5, <1>6

LEMMA DueType == ASSUME NEW revs PROVE Due(revs) \in Seq(HandlerOps)
<1>1. "handleClose" \in HandlerOps /\ "handleRead" \in HandlerOps /\ "handleWrite" \in HandlerOps
  BY DEF HandlerOps
<1>2. /\ <<>> \in Seq(HandlerOps) /\ <<"handleRead">> \in Seq(HandlerOps)
      /\ <<"handleRead", "handleWrite">> \in Seq(HandlerOps)
      /\ <<"handleWrite">> \in Seq(HandlerOps)
      /\ <<"handleClose", "handleRead">> \in Seq(HandlerOps)
      /\ <<"handleClose", "handleRead", "handleWrite">> \in Seq(HandlerOps)
  BY <1>1
<1> QED
  BY <1>2, DueCallbacks

LEMMA PollTypes ==
  ASSUME TypeOK, NEW l \in Workers, Poll(l) \/ HandleEvents(l)
  PROVE  TypeOK'
<1>1. AcceptType /\ ConnType /\ NetType /\ IdlerType /\ QueueType /\ WorkerType
  BY TypeParts
<1>2. AcceptType' /\ ConnType' /\ NetType' /\ IdlerType'
  <2>1. UNCHANGED <<serverVars, connVars, net, idler, budget>>
    BY DEF Poll, HandleEvents
  <2> QED
    BY <1>1, <2>1, AcceptKept, ConnKept, NetKept, IdlerKept DEF serverVars, acceptVars, connVars
<1>3. CASE Poll(l)
  <2>1. PICK A : active' = [active EXCEPT ![l] = A] /\ A \subseteq ReportRecord
    <3> DEFINE polled == {c \in Conns : loopOf[c] = l /\ handler[c].polled}
               R(room) == {[conn |-> c, revs |-> Revents(c) \cup (IF c \in room THEN {"out"} ELSE {})] :
                             c \in {d \in polled : Revents(d) # {} \/ d \in room}}
    <3>1. PICK room : active' = [active EXCEPT ![l] = R(room)]
      BY <1>3 DEF Poll
    <3>2. \A c \in Conns : [conn |-> c, revs |-> Revents(c) \cup (IF c \in room THEN {"out"} ELSE {})]
                             \in ReportRecord
      <4>1. \A c : Revents(c) \subseteq {"in", "out", "hup", "err"}
        BY DEF Revents
      <4> HIDE DEF Revents
      <4> QED
        BY <4>1 DEF ReportRecord
    <3> QED
      BY <3>1, <3>2
  <2>2. /\ phase[l] = "poll" /\ phase' = [phase EXCEPT ![l] = "io"]
        /\ UNCHANGED <<frame, pending, batch, pos>>
    BY <1>3 DEF Poll
  <2>3. QueueType'
    BY <1>1, <2>2 DEF QueueType
  <2>4. WorkerType'
    BY <1>1, <2>1, <2>2, Numbers DEF WorkerType, QueueType
  <2> QED
    BY <1>2, <2>3, <2>4, TypePartsAfter
<1>4. CASE HandleEvents(l)
  <2>1. PICK a \in active[l] :
          /\ active' = [active EXCEPT ![l] = active[l] \ {a}]
          /\ frame' = [frame EXCEPT ![l] =
                         IF Due(a.revs) = <<>> THEN Idle
                         ELSE [conn |-> a.conn, todo |-> Due(a.revs), cb |-> "none", calling |-> FALSE]]
    BY <1>4 DEF HandleEvents
  <2>2. phase[l] = "io" /\ UNCHANGED <<phase, pending, batch, pos>>
    BY <1>4 DEF HandleEvents, queueVars
  <2>3. a.conn \in Conns
    BY <1>1, <2>1 DEF WorkerType, ReportRecord
  <2>4. [conn |-> a.conn, todo |-> Due(a.revs), cb |-> "none", calling |-> FALSE] \in FrameRecord
    BY <2>3, DueType DEF FrameRecord
  <2>5. QueueType'
    BY <1>1, <2>2, QueueKept
  <2>6. PICK f \in FrameRecord : frame' = [frame EXCEPT ![l] = f]
    BY <2>1, <2>4, IdleFrame
  <2>7. WorkerType'
    BY <1>1, <2>1, <2>2, <2>6 DEF WorkerType
  <2> QED
    BY <1>2, <2>5, <2>7, TypePartsAfter
<1> QED
  BY <1>3, <1>4

\* The parts of the type invariant that no handler or callback of a worker touches.
LEMMA ServingTypes ==
  ASSUME TypeOK, NEW l \in Workers,
         \/ HandleHangup(l) \/ ReadMessage(l) \/ ReadError(l) \/ ReadEof(l)
         \/ WriteSome(l) \/ WriteRest(l)
         \/ SendAll(l) \/ SendSome(l) \/ Shutdown(l) \/ ForceClose(l) \/ CallbackReturns(l)
  PROVE  /\ AcceptType' /\ IdlerType' /\ UNCHANGED <<serverVars, loopOf, idler, seen, active, queueVars>>
<1>1. AcceptType /\ IdlerType
  BY TypeParts
<1>2. UNCHANGED <<serverVars, loopOf, idler, seen, active, queueVars>>
  BY DEF HandleHangup, ReadMessage, ReadError, ReadEof, WriteSome, WriteRest, SendAll, SendSome,
         Shutdown, ForceClose, CallbackReturns, connVars
<1> QED
  BY <1>1, <1>2, AcceptKept, IdlerKept DEF serverVars, acceptVars

\* handleClose, from whatever reaches it.
LEMMA HandleCloseTypes ==
  ASSUME TypeOK, Good, NEW c \in Conns, HandleClose(c), UNCHANGED queueVars
  PROVE  QueueType' /\ handler' \in [Conns -> HandlerRecords]
<1>1. ConnType /\ QueueType
  BY TypeParts
<1>2. DisableAll(handler[c]) \in HandlerRecords
  BY Setters DEF UpdatedTo
<1>3. handler' \in [Conns -> HandlerRecords]
  BY <1>1, <1>2 DEF HandleClose, ConnType
<1>4. Functor("handleRemoveConnectionInLoop", c) \in Functors
  BY FunctorFields DEF SharedOps
<1>5. QueueType'
  BY <1>1, <1>4, Numbers, QueueAppended DEF HandleClose, queueVars
<1> QED
  BY <1>3, <1>5

LEMMA CompletedTypes ==
  ASSUME TypeOK, NEW l \in Workers, NEW c \in Conns, Completed(l, c), UNCHANGED queueVars
  PROVE  QueueType'
<1>1. QueueType /\ Functor("writeComplete", c) \in Functors
  BY TypeParts, FunctorFields DEF SharedOps
<1> QED
  BY <1>1, Numbers, QueueAppended, QueueKept DEF Completed, queueVars

LEMMA HandlerTypes ==
  ASSUME TypeOK, Good, NEW l \in Workers,
         \/ HandleHangup(l) \/ ReadMessage(l) \/ ReadError(l) \/ ReadEof(l)
         \/ WriteSome(l) \/ WriteRest(l)
  PROVE  TypeOK'
<1>1. AcceptType /\ ConnType /\ NetType /\ IdlerType /\ QueueType /\ WorkerType
  BY TypeParts
<1>2. AcceptType' /\ IdlerType' /\ UNCHANGED <<serverVars, loopOf, idler, seen, active, queueVars>>
  BY ServingTypes
<1>3. frame[l].todo # <<>> /\ Busy(l) /\ phase' = phase
  BY <1>2 DEF HandleHangup, ReadMessage, ReadError, ReadEof, WriteSome, WriteRest, Calls, Busy,
              queueVars
<1> DEFINE c == frame[l].conn
<1>4. c \in Conns
  BY <1>3, BusyWorker
<1>5. frame[l] \in FrameRecord
  BY <1>1 DEF WorkerType
<1>6. net[c] \in NetRecord
  BY <1>1, <1>4 DEF NetType
<1>7. ~ReadMessage(l) => WorkerType'
  <2>1. ~ReadMessage(l) => frame' = [frame EXCEPT ![l] = NextDue(l)]
    BY DEF HandleHangup, ReadError, ReadEof, WriteSome, WriteRest
  <2> QED
    BY <1>2, <1>3, <2>1, WorkerServed DEF queueVars
<1>8. CASE HandleHangup(l) \/ ReadEof(l)
  <2>1. HandleClose(c) /\ UNCHANGED <<state_, outputBuffer_, seen, budget, net>>
    BY <1>8 DEF HandleHangup, ReadEof
  <2>2. QueueType' /\ handler' \in [Conns -> HandlerRecords]
    BY <1>2, <1>4, <2>1, HandleCloseTypes
  <2>3. ConnType'
    BY <1>1, <2>1, <2>2 DEF ConnType
  <2>4. NetType'
    BY <1>1, <2>1, NetKept
  <2>5. WorkerType'
    BY <1>7, <1>8 DEF ReadMessage, HandleHangup, ReadEof, Calls
  <2> QED
    BY <1>2, <2>2, <2>3, <2>4, <2>5, TypePartsAfter
<1>9. CASE ReadMessage(l)
  <2>1. /\ net' = [net EXCEPT ![c] = [net[c] EXCEPT !.queued = FALSE]]
        /\ frame' = [frame EXCEPT ![l] = Callback(c, Tail(frame[l].todo), "message")]
        /\ UNCHANGED <<connVars, budget, pending, active>>
    BY <1>9 DEF ReadMessage
  <2>2. NetType'
    BY <1>1, <1>4, <1>6, <2>1, NetMarked, NetUpdated
  <2>3. Tail(frame[l].todo) \in Seq(HandlerOps)
    BY <1>3, <1>5, FrameFields, HeadTailProperties
  <2>4. \A q \in Seq(HandlerOps) : Callback(c, q, "message") \in FrameRecord
    BY <1>4, CallbackFrame
  <2>5. phase[l] # "poll" /\ phase[l] # "batch"
    BY <1>1, <1>3 DEF WorkerType, Idle
  <2>6. WorkerType'
    <3> HIDE DEF c
    <3> QED
      BY <1>1, <1>3, <2>1, <2>3, <2>4, <2>5, FrameSet
  <2> QED
    BY <1>1, <1>2, <2>1, <2>2, <2>6, ConnKept, QueueKept, TypePartsAfter DEF connVars, queueVars
<1>10. CASE ReadError(l) \/ WriteSome(l)
  <2>1. /\ net' = net \/ net' = [net EXCEPT ![c] = [net[c] EXCEPT !.err = FALSE]]
        /\ UNCHANGED <<connVars, budget, pending, active>>
    BY <1>10 DEF ReadError, WriteSome
  <2>2. NetType'
    BY <1>1, <1>4, <1>6, <2>1, NetMarked, NetUpdated, NetKept
  <2>3. CASE ReadMessage(l)
    BY <1>9, <2>3
  <2>4. CASE ~ReadMessage(l)
    BY <1>1, <1>2, <1>7, <2>1, <2>2, <2>4, ConnKept, QueueKept, TypePartsAfter DEF connVars, queueVars
  <2> QED
    BY <2>3, <2>4
<1>11. CASE WriteRest(l)
  <2>1. /\ outputBuffer_' = [outputBuffer_ EXCEPT ![c] = FALSE]
        /\ handler' = [handler EXCEPT ![c] = Disable(handler[c], "out")]
        /\ Completed(l, c)
        /\ UNCHANGED <<state_, seen, budget>>
    BY <1>11 DEF WriteRest
  <2>2. QueueType'
    BY <1>2, <1>4, <2>1, CompletedTypes
  <2>3. Disable(handler[c], "out") \in HandlerRecords
    BY <1>4, Setters DEF UpdatedTo, Events
  <2>4. ConnType'
    <3> HIDE DEF c
    <3> QED
      BY <1>1, <1>4, <2>1, <2>3 DEF ConnType
  <2>5. NetType'
    <3> DEFINE v == net[c].shut \/ state_[c] = "DISCONNECTING"
    <3>1. v \in BOOLEAN
      OBVIOUS
    <3>2. net' = [net EXCEPT ![c] = [net[c] EXCEPT !.shut = v]]
      BY <1>11 DEF WriteRest
    <3> HIDE DEF v
    <3> QED
      BY <1>1, <1>4, <3>1, <3>2, ShutSet
  <2>6. CASE ReadMessage(l)
    BY <1>9, <2>6
  <2>7. CASE ~ReadMessage(l)
    BY <1>2, <1>7, <2>2, <2>4, <2>5, <2>7, TypePartsAfter
  <2> QED
    BY <2>6, <2>7
<1> QED
  BY <1>8, <1>9, <1>10, <1>11

LEMMA CallTypes ==
  ASSUME TypeOK, Good, NEW l \in Workers,
         SendAll(l) \/ SendSome(l) \/ Shutdown(l) \/ ForceClose(l) \/ CallbackReturns(l)
  PROVE  TypeOK'
<1>1. AcceptType /\ ConnType /\ NetType /\ IdlerType /\ QueueType /\ WorkerType
  BY TypeParts
<1>2. AcceptType' /\ IdlerType' /\ UNCHANGED <<serverVars, loopOf, idler, seen, active, queueVars>>
  BY ServingTypes
<1>3. Busy(l) /\ phase' = phase
  BY <1>2 DEF SendAll, SendSome, Shutdown, ForceClose, CallbackReturns, UserCall, Busy, queueVars
<1>4. frame[l] \in FrameRecord /\ phase[l] # "poll"
  BY <1>1, <1>3 DEF WorkerType, Busy, Idle
<1> DEFINE c == frame[l].conn
<1>5. c \in Conns
  BY <1>3, BusyWorker
<1>6. ~CallbackReturns(l) => budget' \in [Conns -> 0 .. MaxCalls]
  <2>1. ~CallbackReturns(l) => budget[c] > 0 /\ budget' = [budget EXCEPT ![c] = @ - 1]
    BY DEF SendAll, SendSome, Shutdown, ForceClose, UserCall, Counted
  <2> QED
    BY <1>1, <1>5, <2>1, BudgetType
<1>7. CASE CallbackReturns(l)
  <2>1. /\ UNCHANGED <<connVars, net, pending, budget>>
        /\ frame' = [frame EXCEPT ![l] = IF frame[l].todo = <<>> THEN Idle
                                         ELSE [frame[l] EXCEPT !.cb = "none", !.calling = FALSE]]
    BY <1>7 DEF CallbackReturns
  <2>2. [frame[l] EXCEPT !.cb = "none", !.calling = FALSE] \in FrameRecord
    BY <1>4, Zenon DEF FrameRecord
  <2>3. [frame[l] EXCEPT !.cb = "none", !.calling = FALSE].todo = frame[l].todo
    BY <1>4, Zenon DEF FrameRecord
  <2>4. Idle.todo = <<>>
    BY DEF Idle
  <2>5. PICK f \in FrameRecord : frame' = [frame EXCEPT ![l] = f] /\ f.todo = frame[l].todo
    BY <2>1, <2>2, <2>3, <2>4, IdleFrame
  <2>6. phase[l] = "batch" => frame[l].todo = <<>>
    BY <1>1 DEF WorkerType
  <2>7. WorkerType'
    BY <1>1, <1>2, <1>3, <1>4, <2>5, <2>6, FrameSet
  <2> QED
    BY <1>1, <1>2, <2>1, <2>7, ConnKept, NetKept, QueueKept, TypePartsAfter DEF connVars, queueVars
<1>8. CASE SendAll(l) /\ ~CallbackReturns(l)
  <2>1. Completed(l, c) /\ UNCHANGED <<connVars, net, active, frame>>
    BY <1>8 DEF SendAll
  <2>2. QueueType'
    BY <1>2, <1>5, <2>1, CompletedTypes
  <2>3. ConnType'
    BY <1>1, <1>6, <1>8, <2>1 DEF ConnType, connVars
  <2> QED
    BY <1>1, <1>2, <1>3, <2>1, <2>2, <2>3, NetKept, WorkerKept, TypePartsAfter
<1>9. CASE SendSome(l) /\ ~CallbackReturns(l)
  <2>1. /\ outputBuffer_' = [outputBuffer_ EXCEPT ![c] = TRUE]
        /\ handler' = handler \/ handler' = [handler EXCEPT ![c] = Enable(handler[c], "out")]
        /\ UNCHANGED <<state_, seen, net, active, frame, pending>>
    BY <1>9 DEF SendSome
  <2>2. Enable(handler[c], "out") \in HandlerRecords
    BY <1>5, Setters DEF UpdatedTo, Events
  <2>3. ConnType'
    <3> HIDE DEF c
    <3> QED
      BY <1>1, <1>5, <1>6, <1>9, <2>1, <2>2 DEF ConnType
  <2> QED
    BY <1>1, <1>2, <1>3, <2>1, <2>3, NetKept, WorkerKept, QueueKept, TypePartsAfter DEF queueVars
<1>10. CASE Shutdown(l) /\ ~CallbackReturns(l)
  <2>1. /\ state_' = [state_ EXCEPT ![c] = "DISCONNECTING"] /\ ShutdownInLoop(c)
        /\ UNCHANGED <<outputBuffer_, handler, seen, active, frame, pending>>
    BY <1>10 DEF Shutdown
  <2>2. NetType'
    BY <1>1, <1>5, <2>1, ShutdownWritten
  <2>3. ConnType'
    <3> HIDE DEF c
    <3> QED
      BY <1>1, <1>5, <1>6, <1>10, <2>1 DEF ConnType, ConnStates
  <2> QED
    BY <1>1, <1>2, <1>3, <2>1, <2>2, <2>3, WorkerKept, QueueKept, TypePartsAfter DEF queueVars
<1>11. CASE ForceClose(l) /\ ~CallbackReturns(l)
  <2>1. /\ HandleClose(c) /\ UNCHANGED <<state_, outputBuffer_, seen, net, active>>
        /\ frame' = [frame EXCEPT ![l] = [frame[l] EXCEPT !.calling = CallsAfterClose]]
    BY <1>11 DEF ForceClose
  <2>2. QueueType' /\ handler' \in [Conns -> HandlerRecords]
    BY <1>2, <1>5, <2>1, HandleCloseTypes
  <2>3. ConnType'
    BY <1>1, <1>6, <1>11, <2>1, <2>2 DEF ConnType
  <2>4. CallsAfterClose \in BOOLEAN
    BY ServerAssumption
  <2>5. /\ [frame[l] EXCEPT !.calling = CallsAfterClose] \in FrameRecord
        /\ [frame[l] EXCEPT !.calling = CallsAfterClose].todo = frame[l].todo
    BY <1>4, <2>4, Zenon DEF FrameRecord
  <2>6. PICK f \in FrameRecord : frame' = [frame EXCEPT ![l] = f] /\ f.todo = frame[l].todo
    BY <2>1, <2>5
  <2>7. phase[l] = "batch" => frame[l].todo = <<>>
    BY <1>1 DEF WorkerType
  <2>8. WorkerType'
    BY <1>1, <1>2, <1>3, <1>4, <2>6, <2>7, FrameSet
  <2> QED
    BY <1>1, <1>2, <2>1, <2>2, <2>3, <2>8, NetKept, TypePartsAfter
<1> QED
  BY <1>7, <1>8, <1>9, <1>10, <1>11

\* Nothing happens once the process has ended.
LEMMA OnlyWhileUp == Next => status = "up"
<1>1. PeerStep => status = "up"
  BY DEF PeerStep, PeerConnect, PeerSend, PeerClose, PeerReset
<1>2. IdleTimer \/ MainStep => status = "up"
  BY DEF IdleTimer, MainStep, IdleTest, Start, AcceptConnection, IdleSet, IdleQueue, SwapPending,
         FinishBatch, HandleRemoveConnectionInLoop, MainIsFree, Runs
<1>3. ASSUME NEW l \in Workers, WorkerStep(l) PROVE status = "up"
  BY <1>3 DEF WorkerStep, Poll, HandleEvents, HandleHangup, ReadMessage, ReadError, ReadEof,
         WriteSome, WriteRest, SwapPending, FinishBatch, ConnectEstablished, ConnectDestroyed,
         WriteComplete, RunShutdownInLoop, Runs, Calls, SendAll, SendSome, Shutdown, ForceClose,
         UserCall, CallbackReturns
<1> QED
  BY <1>1, <1>2, <1>3 DEF Next

LEMMA TypeStep ==
  ASSUME TypeOK, status = "up" => Good, [Next]_vars
  PROVE  TypeOK'
<1>1. CASE UNCHANGED vars
  <2>1. AcceptType /\ ConnType /\ NetType /\ IdlerType /\ QueueType /\ WorkerType
    BY TypeParts
  <2> QED
    BY <1>1, <2>1, AcceptKept, ConnKept, NetKept, IdlerKept, QueueKept, WorkerKept, TypePartsAfter
       DEF vars, serverVars, acceptVars, connVars, queueVars
<1>2. CASE Next
  <2>1. Good
    BY <1>2, OnlyWhileUp
  <2>2. ASSUME NEW l \in Workers, WorkerStep(l) PROVE TypeOK'
    BY <2>1, <2>2, FunctorTypes, BatchTypes, PollTypes, HandlerTypes, CallTypes, Numbers
       DEF WorkerStep
  <2> QED
    BY <1>2, <2>1, <2>2, PeerTypes, MainTypes DEF Next
<1> QED
  BY <1>1, <1>2

-----------------------------------------------------------------------------
(* What a step leaves alone.                                               *)

\* The step leaves a connection and its functors as they are, as far as Good goes ...
SameConn(c) ==
  /\ seen'[c] = seen[c] /\ state_'[c] = state_[c] /\ handler'[c] = handler[c]
  /\ outputBuffer_'[c] = outputBuffer_[c] /\ budget'[c] = budget[c]
  /\ loopOf'[c] = loopOf[c]
  /\ c < nextConnId_' <=> c < nextConnId_
  /\ c >= nextConnId_' <=> c >= nextConnId_
  /\ c \in connections_' <=> c \in connections_

SameFunctors(c) ==
  \A l \in Loops, o \in SharedOps :
    /\ Queued(l, Functor(o, c))' <=> Queued(l, Functor(o, c))
    /\ Twice(l, Functor(o, c))' <=> Twice(l, Functor(o, c))

\* ... and a worker, with what it sees of its connections.
SameView(c) ==
  /\ seen'[c] = seen[c] /\ state_'[c] = state_[c] /\ handler'[c] = handler[c]
  /\ budget'[c] = budget[c] /\ loopOf'[c] = loopOf[c]

SameWorker(l) ==
  /\ active'[l] = active[l] /\ frame'[l] = frame[l] /\ phase'[l] = phase[l]
  /\ pos'[l] = pos[l] /\ batch'[l] = batch[l]
  /\ nextConnId_' \in Nat /\ nextConnId_' >= nextConnId_
  /\ \A c \in Conns : c < nextConnId_ /\ loopOf[c] = l => SameView(c)

LEMMA LifeKept ==
  ASSUME NEW c \in Conns, NEW l \in Loops, Life(c, l), SameConn(c), SameFunctors(c)
  PROVE  Life(c, l)'
<1>1. /\ Queued(l, Est(c))' <=> Queued(l, Est(c))
      /\ Queued(l, Des(c))' <=> Queued(l, Des(c))
      /\ Queued(l, Wri(c))' <=> Queued(l, Wri(c))
      /\ Queued(Main, Rem(c))' <=> Queued(Main, Rem(c))
      /\ Twice(l, Est(c))' <=> Twice(l, Est(c))
      /\ Twice(l, Des(c))' <=> Twice(l, Des(c))
  BY Numbers DEF SameFunctors, Est, Des, Wri, Rem, SharedOps
<1> QED
  BY <1>1 DEF Life, SameConn, Fresh, Coming, Open, Gone, Unused

LEMMA ClosingKept ==
  ASSUME NEW c \in Conns, Closing(c), SameConn(c), SameFunctors(c)
  PROVE  Closing(c)'
<1>1. /\ \A l \in Workers : Queued(l, Wri(c))' <=> Queued(l, Wri(c))
      /\ Queued(Main, Rem(c))' <=> Queued(Main, Rem(c))
      /\ Twice(Main, Rem(c))' <=> Twice(Main, Rem(c))
  BY Numbers DEF SameFunctors, Wri, Rem, SharedOps
<1> QED
  BY <1>1 DEF Closing, SameConn, Again, Called, Closed

LEMMA ConnKeeps ==
  ASSUME NEW c \in Conns, ConnInv(c), SameConn(c), SameFunctors(c)
  PROVE  ConnInv(c)'
<1>1. Closing(c)'
  BY ClosingKept DEF ConnInv
<1>2. ASSUME NEW l \in Loops, loopOf'[c] = l PROVE Life(c, l)'
  BY <1>2, LifeKept DEF ConnInv, SameConn
<1> QED
  BY <1>1, <1>2 DEF ConnInv, SameConn

LEMMA WorkerKeeps ==
  ASSUME TypeOK, NEW l \in Workers, WorkerInv(l), SameWorker(l)
  PROVE  WorkerInv(l)'
<1>1. \A a \in active[l] : a.conn \in Conns
  BY TypeParts DEF WorkerType, ReportRecord
<1>2. ASSUME NEW a \in active[l] PROVE Reported(l, a)'
  <2>1. Reported(l, a) /\ a.conn \in Conns
    BY <1>1 DEF WorkerInv, Reports
  <2>2. SameView(a.conn)
    BY <2>1 DEF SameWorker, Reported
  <2>3. nextConnId_ \in Nat /\ a.conn \in Nat
    BY <2>1, Numbers, NextIsNat
  <2> QED
    BY <2>1, <2>2, <2>3 DEF Reported, SameWorker, SameView, Again, Closed
<1>3. Reports(l)'
  BY <1>2 DEF Reports, SameWorker, WorkerInv
<1>4. ASSUME NEW c \in Conns, frame[l].conn = c, Serves(l, c)
      PROVE  frame'[l].conn = c /\ Serves(l, c)'
  <2>1. SameView(c) /\ frame'[l] = frame[l] /\ c < nextConnId_'
    <3>1. SameView(c) /\ frame'[l] = frame[l] /\ c < nextConnId_
      BY <1>4 DEF SameWorker, Serves
    <3>2. nextConnId_ \in Nat /\ c \in Nat /\ nextConnId_' \in Nat /\ nextConnId_' >= nextConnId_
      BY Numbers, NextIsNat DEF SameWorker
    <3> QED
      BY <3>1, <3>2
  <2>2. Handling(l, c)' <=> Handling(l, c)
    BY <2>1 DEF Handling, SameWorker, SameView, Again, Closed
  <2>3. Reading(l, c)' <=> Reading(l, c)
    BY <2>1 DEF Reading, SameWorker, SameView
  <2>4. CalledBack(l, c)' <=> CalledBack(l, c)
    BY <2>1 DEF CalledBack, SameWorker, SameView
  <2> QED
    BY <1>4, <2>1, <2>2, <2>3, <2>4 DEF Serves, SameView, Closed, Called
<1> QED
  BY <1>3, <1>4 DEF WorkerInv, SameWorker

LEMMA TwiceIsQueued ==
  ASSUME TypeOK, NEW l \in Loops, NEW f \in Functors
  PROVE  Twice(l, f) => Queued(l, f)
<1>1. \A q, n : Two(q, n, f) => In(q, n, f)
  BY DEF In, Two
<1> QED
  BY <1>1 DEF Twice, Queued

LEMMA QueuedFits ==
  ASSUME TypeOK, Good, NEW l \in Loops, NEW f \in Functors, Queued(l, f)
  PROVE  Fits(l, f)
  BY QueuedIsBound DEF Good, QueuesFit

\* What a step does to loop l does not concern connection c.
Apart(l, c) ==
  \/ SameAt(l)
  \/ \E f \in Functors : (AddsAt(l, f) \/ TakesAt(l, f)) /\ (f.conn # c \/ f.op \notin SharedOps)

LEMMA FunctorsKept ==
  ASSUME NEW c \in Conns, \A l \in Loops : Apart(l, c)
  PROVE  SameFunctors(c)
<1> SUFFICES ASSUME NEW l \in Loops, NEW o \in SharedOps
             PROVE  /\ Queued(l, Functor(o, c))' <=> Queued(l, Functor(o, c))
                    /\ Twice(l, Functor(o, c))' <=> Twice(l, Functor(o, c))
  BY DEF SameFunctors
<1> DEFINE g == Functor(o, c)
<1>1. g \in Functors /\ g.conn = c /\ g.op = o
  BY FunctorFields
<1> HIDE DEF g
<1>2. CASE SameAt(l)
  <2>1. (Queued(l, g)' <=> Queued(l, g)) /\ (Twice(l, g)' <=> Twice(l, g))
    BY <1>1, <1>2 DEF SameAt
  <2> QED
    BY <2>1 DEF g
<1>3. ASSUME NEW f \in Functors, AddsAt(l, f) \/ TakesAt(l, f), f.conn # c \/ f.op \notin SharedOps
      PROVE  (Queued(l, g)' <=> Queued(l, g)) /\ (Twice(l, g)' <=> Twice(l, g))
  BY <1>1, <1>3 DEF AddsAt, TakesAt
<1> QED
  BY <1>2, <1>3 DEF Apart, g

LEMMA QueuesFitKept ==
  ASSUME TypeOK, Good,
         nextConnId_' \in Nat /\ nextConnId_' >= nextConnId_,
         \A c \in Conns : c < nextConnId_ => loopOf'[c] = loopOf[c],
         \A l \in Loops :
           \/ SameAt(l)
           \/ \E f \in Functors : TakesAt(l, f) \/ (AddsAt(l, f) /\ Fits(l, f)')
  PROVE  QueuesFit'
<1> SUFFICES ASSUME NEW l \in Loops, NEW f \in Functors, Bound(l, f)'
             PROVE  Fits(l, f)'
  BY DEF QueuesFit
<1>1. Bound(l, f) => Fits(l, f)'
  <2>1. Bound(l, f) => Fits(l, f)
    BY DEF Good, QueuesFit
  <2>2. f.conn \in Conns /\ f.conn \in Nat /\ nextConnId_ \in Nat
    BY FunctorFields, Numbers, NextIsNat
  <2> QED
    BY <2>1, <2>2 DEF Fits
<1>2. CASE Bound(l, f)
  BY <1>1, <1>2
<1>3. CASE ~Bound(l, f)
  <2>1. PICK g \in Functors : TakesAt(l, g) \/ (AddsAt(l, g) /\ Fits(l, g)')
    BY <1>3 DEF SameAt
  <2>2. f = g /\ Fits(l, g)'
    BY <1>3, <2>1 DEF TakesAt, AddsAt
  <2> QED
    BY <2>2
<1> QED
  BY <1>2, <1>3

\* A step that changes no connection.
LEMMA ConnsKept ==
  ASSUME TypeOK, Good, UNCHANGED <<nextConnId_, connections_, connVars, budget>>,
         \A l \in Loops, c \in Conns : Apart(l, c)
  PROVE  \A c \in Conns : ConnInv(c)'
<1> SUFFICES ASSUME NEW c \in Conns PROVE ConnInv(c)'
  OBVIOUS
<1>1. SameConn(c)
  BY DEF SameConn, connVars
<1>2. SameFunctors(c)
  BY FunctorsKept
<1> QED
  BY <1>1, <1>2, ConnKeeps DEF Good

\* The workers whose own state, and whose connections, a step leaves alone.
LEMMA WorkersKept ==
  ASSUME TypeOK, Good, NEW l \in Workers, UNCHANGED nextConnId_,
         active'[l] = active[l] /\ frame'[l] = frame[l] /\ phase'[l] = phase[l],
         pos'[l] = pos[l] /\ batch'[l] = batch[l],
         \A c \in Conns : c < nextConnId_ /\ loopOf[c] = l => SameView(c)
  PROVE  WorkerInv(l)'
<1>1. SameWorker(l)
  BY NextIsNat DEF SameWorker
<1> QED
  BY <1>1, WorkerKeeps DEF Good

LEMMA Untouched ==
  ASSUME TypeOK, Good,
         UNCHANGED <<nextConnId_, connections_, connVars, active, frame, pending, queueVars,
                     budget, idler>>
  PROVE  Good'
<1>1. \A l \in Loops : SameAt(l)
  BY SameStep DEF queueVars
<1>2. \A c \in Conns : ConnInv(c)'
  BY <1>1, ConnsKept DEF Apart
<1>3. \A c \in Conns : SameView(c)
  BY DEF SameView, connVars
<1>4. \A l \in Workers : WorkerInv(l)'
  BY <1>3, WorkersKept DEF queueVars
<1>5. QueuesFit'
  BY <1>1, NextIsNat, QueuesFitKept DEF connVars
<1>6. IdlerFits'
  BY DEF Good, IdlerFits, connVars
<1> QED
  BY <1>2, <1>4, <1>5, <1>6 DEF Good

-----------------------------------------------------------------------------
(* The invariant, step by step: the peer, the main loop.                   *)

LEMMA PeerKeeps ==
  ASSUME TypeOK, Good, PeerStep \/ Start
  PROVE  Good'
<1>1. UNCHANGED <<nextConnId_, connections_, connVars, active, frame, pending, queueVars,
                  budget, idler>>
  BY DEF PeerStep, PeerConnect, PeerSend, PeerClose, PeerReset, Start, serverVars, acceptVars
<1> QED
  BY <1>1, Untouched

\* A step that changes neither queues nor workers, and one connection c.
LEMMA OneConn ==
  ASSUME TypeOK, Good, NEW c \in Conns, UNCHANGED <<nextConnId_, loopOf, pending, queueVars>>,
         \A d \in Conns : d # c => SameConn(d),
         ConnInv(c)', IdlerFits', \A l \in Workers : WorkerInv(l)'
  PROVE  Good'
<1>1. \A l \in Loops : SameAt(l)
  BY SameStep DEF queueVars
<1>2. ASSUME NEW d \in Conns, d # c PROVE ConnInv(d)'
  <2>1. SameFunctors(d)
    BY <1>1, FunctorsKept DEF Apart
  <2> QED
    BY <1>2, <2>1, ConnKeeps DEF Good
<1>3. QueuesFit'
  BY <1>1, NextIsNat, QueuesFitKept
<1> QED
  BY <1>2, <1>3 DEF Good

LEMMA IdleTestKeeps ==
  ASSUME TypeOK, Good, NEW c \in Conns, IdleTest(c)
  PROVE  Good'
<1>1. /\ UNCHANGED <<nextConnId_, connections_, connVars, active, frame, pending, queueVars, budget>>
      /\ idler' = [pc |-> "set", conn |-> c] /\ c < nextConnId_ /\ seen[c] # <<>>
  BY DEF IdleTest, serverVars, acceptVars, Alive
<1>2. \A l \in Loops : SameAt(l)
  BY <1>1, SameStep DEF queueVars
<1>3. \A d \in Conns : ConnInv(d)'
  BY <1>1, <1>2, ConnsKept DEF Apart
<1>4. \A d \in Conns : SameView(d)
  BY <1>1 DEF SameView, connVars
<1>5. \A l \in Workers : WorkerInv(l)'
  BY <1>1, <1>4, WorkersKept DEF queueVars
<1>6. QueuesFit'
  BY <1>1, <1>2, NextIsNat, QueuesFitKept DEF connVars
<1>7. IdlerFits'
  BY <1>1 DEF IdlerFits, connVars
<1> QED
  BY <1>3, <1>5, <1>6, <1>7 DEF Good

\* A connection that has been up is open, or gone.
LEMMA SeenIsUp ==
  ASSUME TypeOK, Good, NEW c \in Conns, NEW l \in Loops, loopOf[c] = l, seen[c] # <<>>
  PROVE  Open(c, l) \/ Gone(c, l)
  BY DEF Good, ConnInv, Life, Fresh, Coming, Unused

LEMMA IdleSetKeeps ==
  ASSUME TypeOK, Good, NEW c \in Conns, idler.conn = c, IdleSet
  PROVE  Good'
<1>1. /\ UNCHANGED <<nextConnId_, connections_, loopOf, outputBuffer_, handler, seen, active, frame,
                     pending, queueVars, budget>>
      /\ state_' = [state_ EXCEPT ![c] = "DISCONNECTING"]
      /\ idler' = [idler EXCEPT !.pc = "queue"] /\ idler.pc = "set"
  BY DEF IdleSet, serverVars, acceptVars
<1>2. c < nextConnId_ /\ seen[c] # <<>>
  BY <1>1 DEF Good, IdlerFits
<1>3. idler'.conn = c
  BY <1>1 DEF TypeOK
<1>4. IdlerFits'
  BY <1>1, <1>2, <1>3 DEF IdlerFits
<1>5. /\ state_'[c] = "DISCONNECTING"
      /\ \A d \in Conns : d # c => state_'[d] = state_[d]
  BY <1>1, <1>2 DEF TypeOK
<1>6. \A d \in Conns : d # c => SameConn(d) /\ SameView(d)
  BY <1>1, <1>5 DEF SameConn, SameView
<1>7. \A l \in Loops : SameAt(l)
  BY <1>1, SameStep DEF queueVars
<1>8. ConnInv(c)'
  <2>1. ConnInv(c) /\ SameFunctors(c)
    BY <1>2, <1>7, FunctorsKept DEF Good, Apart
  <2>2. Closing(c)'
    <3>1. /\ \A l \in Workers : Queued(l, Wri(c))' <=> Queued(l, Wri(c))
          /\ Queued(Main, Rem(c))' <=> Queued(Main, Rem(c))
          /\ Twice(Main, Rem(c))' <=> Twice(Main, Rem(c))
      BY <2>1, Numbers DEF SameFunctors, Wri, Rem, SharedOps
    <3> QED
      BY <1>1, <2>1, <3>1 DEF ConnInv, Closing, Again, Called, Closed
  <2>3. ASSUME NEW l \in Loops, loopOf'[c] = l PROVE Life(c, l)'
    <3>1. Open(c, l) \/ Gone(c, l)
      BY <1>1, <1>2, <2>3, SeenIsUp
    <3>2. /\ Queued(l, Est(c))' <=> Queued(l, Est(c))
          /\ Queued(l, Des(c))' <=> Queued(l, Des(c))
          /\ Queued(Main, Rem(c))' <=> Queued(Main, Rem(c))
          /\ Twice(l, Des(c))' <=> Twice(l, Des(c))
      BY <2>1, Numbers DEF SameFunctors, Est, Des, Rem, SharedOps
    <3>3. Open(c, l)' \/ Gone(c, l)'
      BY <1>1, <1>5, <3>1, <3>2 DEF Open, Gone
    <3> QED
      BY <3>3 DEF Life
  <2> QED
    BY <1>1, <2>1, <2>2, <2>3 DEF ConnInv
<1>9. ASSUME NEW l \in Workers PROVE WorkerInv(l)'
  <2>1. WorkerInv(l) /\ UNCHANGED <<active, frame, phase, pos, batch>>
    BY <1>1 DEF Good, queueVars
  <2>2. Reports(l)'
    BY <1>1, <2>1 DEF WorkerInv, Reports, Reported, Again, Closed
  <2>3. ASSUME NEW d \in Conns, frame[l].conn = d, Serves(l, d) PROVE Serves(l, d)'
    <3>1. /\ Handling(l, d)' <=> Handling(l, d)
          /\ Reading(l, d)' <=> Reading(l, d)
          /\ CalledBack(l, d)' <=> CalledBack(l, d)
      BY <1>1, <2>1 DEF Handling, Reading, CalledBack, Again, Closed
    <3>2. state_'[d] = "CONNECTED" => state_[d] = "CONNECTED"
      BY <1>5
    <3> QED
      BY <1>1, <2>1, <2>3, <3>1, <3>2 DEF Serves, Closed, Called
  <2> QED
    BY <2>1, <2>2, <2>3 DEF WorkerInv
<1> QED
  BY <1>1, <1>2, <1>4, <1>6, <1>8, <1>9, OneConn

LEMMA IdleQueueKeeps ==
  ASSUME TypeOK, Good, NEW c \in Conns, idler.conn = c, IdleQueue
  PROVE  Good'
<1> DEFINE f == Functor("shutdownInLoop", c)
<1>1. /\ UNCHANGED <<nextConnId_, connections_, connVars, active, frame, queueVars, budget>>
      /\ pending' = [pending EXCEPT ![loopOf[c]] = Append(@, f)]
      /\ idler' = [pc |-> "idle", conn |-> 0]
      /\ idler.pc = "queue"
  BY DEF IdleQueue, serverVars, acceptVars
<1>2. c < nextConnId_
  BY <1>1 DEF Good, IdlerFits
<1>3. f \in Functors /\ f.op \notin SharedOps /\ f.conn = c
  BY <1>2, FunctorFields DEF SharedOps, RawOps
<1>4. f.op # "handleRemoveConnectionInLoop"
  BY <1>2, FunctorFields DEF SharedOps, RawOps
<1>5. \A l \in Loops : loopOf[c] = l => Fits(l, f)'
  BY <1>1, <1>2, <1>3, <1>4 DEF Fits, connVars
<1>6. loopOf[c] \in Loops
  BY DEF TypeOK
<1> HIDE DEF f
<1>7. ASSUME NEW l \in Loops PROVE SameAt(l) \/ (AddsAt(l, f) /\ Fits(l, f)')
  <2>1. CASE l = loopOf[c]
    BY <1>1, <1>3, <1>5, <1>6, <2>1, AddStep DEF queueVars, TypeOK
  <2>2. CASE l # loopOf[c]
    BY <1>1, <2>2, SameStep DEF queueVars, TypeOK
  <2> QED
    BY <2>1, <2>2
<1>8. \A d \in Conns : ConnInv(d)'
  BY <1>1, <1>3, <1>7, ConnsKept DEF Apart
<1>9. \A d \in Conns : SameView(d)
  BY <1>1 DEF SameView, connVars
<1>10. \A l \in Workers : WorkerInv(l)'
  BY <1>1, <1>9, WorkersKept DEF queueVars
<1>11. QueuesFit'
  BY <1>1, <1>3, <1>7, NextIsNat, QueuesFitKept DEF connVars
<1>12. IdlerFits'
  BY <1>1 DEF IdlerFits
<1> QED
  BY <1>8, <1>10, <1>11, <1>12 DEF Good

LEMMA AcceptKeeps ==
  ASSUME TypeOK, Good, NEW c \in Conns, nextConnId_ = c, NEW k \in Workers, next_ = k,
         AcceptConnection
  PROVE  Good'
<1> DEFINE f == Est(c)
<1>1. /\ nextConnId_' = c + 1
      /\ loopOf' = [loopOf EXCEPT ![c] = k]
      /\ connections_' = connections_ \cup {c}
      /\ pending' = [pending EXCEPT ![k] = Append(@, f)]
      /\ UNCHANGED <<state_, outputBuffer_, handler, seen, active, frame, queueVars, budget, idler>>
  BY DEF AcceptConnection, HandleNewConnection, Est
<1>2. /\ f \in Functors /\ f.conn = c /\ f.op = "connectEstablished"
      /\ Des(c) \in Functors /\ Wri(c) \in Functors /\ Rem(c) \in Functors
      /\ Des(c) # f /\ Wri(c) # f /\ Rem(c) # f
  BY FunctorFields DEF Est, Des, Wri, Rem, SharedOps
<1> HIDE DEF f
<1>3. /\ loopOf'[c] = k /\ \A d \in Conns : d # c => loopOf'[d] = loopOf[d]
      /\ k \in Loops /\ k # Main
  BY <1>1, Numbers DEF TypeOK
<1>4. c \in Nat /\ c + 1 \in Nat /\ c < c + 1 /\ ~(c < c)
  BY Numbers
<1>5. AddsAt(k, f)
  BY <1>1, <1>2, <1>3, AddStep DEF queueVars, TypeOK
<1>6. \A l \in Loops : l # k => SameAt(l)
  BY <1>1, SameStep DEF queueVars, TypeOK
<1>7. ASSUME NEW d \in Conns, d # c PROVE SameConn(d) /\ SameView(d) /\ SameFunctors(d)
  <2>1. d < c + 1 <=> d < c
    BY <1>4, <1>7, Numbers
  <2>2. d >= c + 1 <=> d >= c
    BY <1>4, <1>7, Numbers
  <2>3. SameConn(d) /\ SameView(d)
    BY <1>1, <1>3, <1>7, <2>1, <2>2 DEF SameConn, SameView
  <2>4. SameFunctors(d)
    BY <1>2, <1>5, <1>6, <1>7, FunctorsKept DEF Apart
  <2> QED
    BY <2>3, <2>4
<1>8. \A l \in Loops, g \in Functors : g.conn = c => ~Queued(l, g) /\ ~Twice(l, g)
  <2>1. \A l \in Loops, g \in Functors : g.conn = c => ~Fits(l, g)
    BY <1>4 DEF Fits
  <2> QED
    BY <2>1, QueuedFits, TwiceIsQueued
<1>9. ConnInv(c)'
  <2>1. Unused(c)
    <3>1. c \notin connections_
      <4>1. c \notin 1 .. nextConnId_ - 1
        BY <1>4
      <4> QED
        BY <4>1 DEF TypeOK
    <3>2. PICK l \in Loops : loopOf[c] = l
      BY DEF TypeOK
    <3>3. Life(c, l)
      BY <3>2 DEF Good, ConnInv
    <3> QED
      BY <1>4, <3>3 DEF Life, Fresh, Coming, Open, Gone
  <2>2. Unused(c)'
    BY <1>1, <2>1 DEF Unused
  <2>3. /\ Queued(k, f)' /\ ~Twice(k, f)'
        /\ ~Queued(k, Des(c))' /\ ~Queued(k, Wri(c))'
        /\ ~Queued(Main, Rem(c))' /\ ~Twice(Main, Rem(c))'
        /\ \A l \in Workers : ~Queued(l, Wri(c))'
    <3>1. Des(c).conn = c /\ Wri(c).conn = c /\ Rem(c).conn = c
      BY FunctorFields DEF Des, Wri, Rem, SharedOps
    <3>2. Queued(k, f)' /\ ~Twice(k, f)' /\ ~Queued(k, Des(c))' /\ ~Queued(k, Wri(c))'
      BY <1>2, <1>3, <1>5, <1>8, <3>1 DEF AddsAt
    <3>3. ~Queued(Main, Rem(c))' /\ ~Twice(Main, Rem(c))'
      BY <1>2, <1>3, <1>6, <1>8, <3>1, Numbers DEF SameAt
    <3>4. ASSUME NEW l \in Workers, l # k PROVE ~Queued(l, Wri(c))'
      BY <1>2, <1>6, <1>8, <3>1, <3>4, Numbers DEF SameAt
    <3> QED
      BY <3>2, <3>3, <3>4
  <2>4. c < nextConnId_' /\ c \in connections_'
    BY <1>1, <1>4
  <2>5. Coming(c, k)'
    BY <2>2, <2>3, <2>4 DEF Coming, f
  <2>6. Registered(handler[c], outputBuffer_[c])'
    BY <1>1 DEF Good, ConnInv, Registered
  <2>7. Closing(c)'
    <3>1. handler'[c].polled = FALSE /\ ~outputBuffer_'[c]
      BY <2>2, NewIsRegistered DEF Unused
    <3> QED
      BY <2>3, <3>1 DEF Closing
  <2> QED
    BY <1>3, <2>5, <2>6, <2>7 DEF ConnInv, Life
<1>10. \A d \in Conns : ConnInv(d)'
  BY <1>7, <1>9, ConnKeeps DEF Good
<1>11. ASSUME NEW l \in Workers PROVE WorkerInv(l)'
  <2>1. \A d \in Conns : d < nextConnId_ => d # c
    BY <1>4
  <2>2. SameWorker(l)
    BY <1>1, <1>4, <1>7, <2>1 DEF SameWorker, queueVars
  <2> QED
    BY <2>2, WorkerKeeps DEF Good
<1>12. QueuesFit'
  <2>1. Fits(k, f)'
    BY <1>1, <1>2, <1>3, <1>4 DEF Fits
  <2>2. \A d \in Conns : d < nextConnId_ => loopOf'[d] = loopOf[d]
    BY <1>3, <1>4
  <2> QED
    BY <1>1, <1>2, <1>4, <1>5, <1>6, <2>1, <2>2, QueuesFitKept
<1>13. IdlerFits'
  <2>1. IdlerFits /\ UNCHANGED <<idler, seen>>
    BY <1>1 DEF Good
  <2>2. \A d \in Conns : d < nextConnId_ => d < nextConnId_'
    BY <1>1, <1>4, Numbers
  <2> QED
    BY <2>1, <2>2 DEF IdlerFits
<1> QED
  BY <1>10, <1>11, <1>12, <1>13 DEF Good

\* The functors of a loop are taken in a batch; the batch is destroyed.
LEMMA BatchKeeps ==
  ASSUME TypeOK, Good, NEW l \in Loops, SwapPending(l) \/ FinishBatch(l)
  PROVE  Good'
<1>1. /\ UNCHANGED <<nextConnId_, connections_, connVars, active, frame, budget, idler>>
      /\ l \in Workers => frame[l] = Idle
  BY DEF SwapPending, FinishBatch, serverVars, acceptVars, ServingDone, Workers, Main
<1>2. \A k \in Loops : k # l =>
        pending'[k] = pending[k] /\ batch'[k] = batch[k] /\ pos'[k] = pos[k] /\ phase'[k] = phase[k]
  BY DEF SwapPending, FinishBatch, TypeOK
<1>3. SameAt(l)
  <2>1. CASE SwapPending(l)
    BY <2>1, SwapStep DEF SwapPending, TypeOK
  <2>2. CASE FinishBatch(l)
    BY <2>2, FinishStep DEF FinishBatch, TypeOK
  <2> QED
    BY <2>1, <2>2
<1>4. \A k \in Loops : SameAt(k)
  BY <1>2, <1>3, SameStep
<1>5. \A d \in Conns : ConnInv(d)'
  BY <1>1, <1>4, ConnsKept DEF Apart
<1>6. \A d \in Conns : SameView(d)
  BY <1>1 DEF SameView, connVars
<1>7. ASSUME NEW k \in Workers PROVE WorkerInv(k)'
  <2>1. CASE k = l
    <3>1. active[k] = {}
      BY <2>1 DEF SwapPending, FinishBatch, ServingDone, TypeOK, Workers, Main
    <3> QED
      BY <1>1, <2>1, <3>1 DEF WorkerInv, Reports
  <2>2. CASE k # l
    BY <1>1, <1>2, <1>6, <2>2, Numbers, WorkersKept
  <2> QED
    BY <2>1, <2>2
<1>8. QueuesFit'
  BY <1>1, <1>4, NextIsNat, QueuesFitKept DEF connVars
<1>9. IdlerFits'
  BY <1>1 DEF Good, IdlerFits, connVars
<1> QED
  BY <1>5, <1>7, <1>8, <1>9 DEF Good

\* A loop runs a functor of connection c.
LEMMA Run ==
  ASSUME TypeOK, Good, NEW l \in Loops, NEW o \in SharedOps \cup RawOps, NEW c \in Conns,
         Runs(l, o, c)
  PROVE  /\ Functor(o, c) \in Functors /\ Functor(o, c).op = o /\ Functor(o, c).conn = c
         /\ Queued(l, Functor(o, c)) /\ Fits(l, Functor(o, c)) /\ c < nextConnId_
         /\ pos[l] + 1 \in DOMAIN batch[l] /\ pos'[l] = pos[l] + 1
         /\ \A k \in Loops : k # l => pos'[k] = pos[k]
         /\ pending'[l] = pending[l] /\ batch' = batch => TakesAt(l, Functor(o, c))
         /\ l \in Workers => loopOf[c] = l \/ o = "handleRemoveConnectionInLoop"
         /\ l \in Workers => frame[l] = Idle /\ active[l] = {}
<1> DEFINE f == Functor(o, c)
<1>1. f \in Functors /\ f.op = o /\ f.conn = c
  BY FunctorFields
<1>2. pos[l] < Len(batch[l]) /\ batch[l][pos[l] + 1] = f /\ pos' = [pos EXCEPT ![l] = pos[l] + 1]
  BY DEF Runs
<1>3. l \in Workers => frame[l] = Idle /\ active[l] = {}
  BY DEF Runs, TypeOK
<1> HIDE DEF f
<1>4. pos[l] + 1 \in DOMAIN batch[l]
  BY <1>2, QueueTypes, LenProperties
<1>5. In(batch[l], pos[l], f)
  BY <1>2, <1>4, QueueTypes DEF In
<1>6. Queued(l, f)
  BY <1>5 DEF Queued
<1>7. Fits(l, f)
  BY <1>1, <1>6, QueuedFits
<1>8. pos'[l] = pos[l] + 1 /\ \A k \in Loops : k # l => pos'[k] = pos[k]
  BY <1>2 DEF TypeOK
<1>9. pending'[l] = pending[l] /\ batch' = batch => TakesAt(l, f)
  BY <1>1, <1>2, <1>8, TakeStep
<1> QED
  BY <1>1, <1>3, <1>4, <1>6, <1>7, <1>8, <1>9 DEF Fits, f

LEMMA Ops ==
  /\ "handleRemoveConnectionInLoop" \in SharedOps /\ "connectDestroyed" \in SharedOps
  /\ "connectEstablished" \in SharedOps /\ "writeComplete" \in SharedOps
  /\ "shutdownInLoop" \in RawOps /\ "shutdownInLoop" \notin SharedOps
  /\ \A c \in Conns :
       /\ Est(c) \in Functors /\ Est(c).conn = c /\ Est(c).op = "connectEstablished"
       /\ Des(c) \in Functors /\ Des(c).conn = c /\ Des(c).op = "connectDestroyed"
       /\ Rem(c) \in Functors /\ Rem(c).conn = c /\ Rem(c).op = "handleRemoveConnectionInLoop"
       /\ Wri(c) \in Functors /\ Wri(c).conn = c /\ Wri(c).op = "writeComplete"
  BY FunctorFields DEF SharedOps, RawOps, Est, Des, Rem, Wri

\* Code of a connection ends the process, or goes on with a connection that is alive.
LEMMA GoesOn ==
  ASSUME NEW c, NEW fails, NEW name, name # "up", status' = Outcome(c, fails, name), status' = "up"
  PROVE  Alive(c) /\ ~fails
  BY DEF Outcome

\* A step of loop l or of main changes one connection c of worker l.
LEMMA OneWorker ==
  ASSUME TypeOK, Good, NEW c \in Conns, NEW l \in Workers, loopOf[c] = l,
         UNCHANGED <<nextConnId_, loopOf, idler>>,
         \A d \in Conns : d # c => SameConn(d) /\ SameFunctors(d),
         \A k \in Workers : k # l =>
           /\ active'[k] = active[k] /\ frame'[k] = frame[k] /\ phase'[k] = phase[k]
           /\ pos'[k] = pos[k] /\ batch'[k] = batch[k],
         QueuesFit', ConnInv(c)', WorkerInv(l)', seen[c] # <<>> => seen'[c] # <<>>
  PROVE  Good'
<1>1. \A d \in Conns : ConnInv(d)'
  BY ConnKeeps DEF Good
<1>2. ASSUME NEW k \in Workers PROVE WorkerInv(k)'
  <2>1. k # l => \A d \in Conns : d < nextConnId_ /\ loopOf[d] = k => SameView(d)
    BY DEF SameConn, SameView
  <2> QED
    BY <2>1, WorkersKept
<1>3. IdlerFits'
  BY DEF Good, IdlerFits, SameConn
<1> QED
  BY <1>1, <1>2, <1>3 DEF Good

LEMMA RemoveKeeps ==
  ASSUME TypeOK, Good, NEW c \in Conns, NEW l \in Workers, loopOf[c] = l,
         HandleRemoveConnectionInLoop(c), status' = "up"
  PROVE  Good'
<1>1. /\ Runs(Main, "handleRemoveConnectionInLoop", c)
      /\ connections_' = connections_ \ {c}
      /\ pending' = [pending EXCEPT ![l] = Append(@, Des(c))]
      /\ UNCHANGED <<nextConnId_, connVars, active, frame, batch, phase, idler, budget>>
  BY DEF HandleRemoveConnectionInLoop, acceptVars, Des
<1>2. c \in connections_
  BY GoesOn DEF HandleRemoveConnectionInLoop
<1>3. l \in Loops /\ l # Main /\ Main \in Loops /\ Main \notin Workers
  BY Numbers
<1>4. /\ Des(c) \in Functors /\ Rem(c) \in Functors /\ Est(c) \in Functors /\ Wri(c) \in Functors
      /\ Des(c).conn = c /\ Rem(c).conn = c
      /\ Des(c) # Rem(c) /\ Des(c) # Est(c) /\ Des(c) # Wri(c)
  BY Ops
<1>5. /\ Queued(Main, Rem(c)) /\ c < nextConnId_
      /\ \A k \in Loops : k # Main => pos'[k] = pos[k]
      /\ TakesAt(Main, Rem(c))
  <2>1. pending'[Main] = pending[Main] /\ batch' = batch
    BY <1>1, <1>3 DEF TypeOK
  <2> QED
    BY <1>1, <1>3, <2>1, Run, Ops DEF Rem
<1>6. AddsAt(l, Des(c))
  BY <1>1, <1>3, <1>4, <1>5, AddStep DEF TypeOK
<1>7. \A k \in Loops : k # Main /\ k # l => SameAt(k)
  BY <1>1, <1>3, <1>5, SameStep DEF TypeOK
<1>8. ASSUME NEW d \in Conns, d # c PROVE SameConn(d) /\ SameFunctors(d)
  <2>1. SameConn(d)
    BY <1>1, <1>8 DEF SameConn, connVars
  <2>2. SameFunctors(d)
    BY <1>4, <1>5, <1>6, <1>7, <1>8, FunctorsKept DEF Apart
  <2> QED
    BY <2>1, <2>2
<1>9. QueuesFit'
  <2>1. Fits(l, Des(c))'
    BY <1>1, <1>3, <1>5, Ops DEF Fits, connVars
  <2> QED
    BY <1>1, <1>4, <1>5, <1>6, <1>7, <2>1, NextIsNat, QueuesFitKept DEF connVars
<1>10. ConnInv(c)'
  <2>1. ConnInv(c) /\ Life(c, l)
    BY <1>3 DEF Good, ConnInv
  <2>2. Open(c, l)
    BY <1>2, <1>5, <2>1 DEF Life, Fresh, Coming, Gone
  <2>3. Open(c, l)'
    <3>1. ~Queued(l, Est(c))' /\ Queued(l, Des(c))' /\ ~Twice(l, Des(c))'
      BY <1>2, <1>4, <1>6, <2>2 DEF AddsAt, Open
    <3>2. c \notin connections_'
      BY <1>1
    <3>3. "in" \notin handler[c].events
      BY <1>5, <2>2 DEF Open
    <3> QED
      BY <1>1, <2>2, <3>1, <3>2, <3>3 DEF Open, connVars
  <2>4. Closing(c)'
    <3>1. Queued(Main, Rem(c))' => Again(c)
      BY <1>5, <2>1 DEF TakesAt, ConnInv, Closing
    <3>2. Twice(Main, Rem(c))' => Again(c)
      BY <1>5, <2>1 DEF TakesAt, ConnInv, Closing
    <3>3. \A k \in Workers : Queued(k, Wri(c))' => Queued(k, Wri(c))
      BY <1>3, <1>4, <1>6, <1>7, Numbers DEF AddsAt, SameAt
    <3> QED
      BY <1>1, <2>1, <3>1, <3>2, <3>3 DEF ConnInv, Closing, Again, Called, Closed, connVars
  <2> QED
    BY <1>1, <2>1, <2>3, <2>4 DEF ConnInv, Life, connVars
<1>11. WorkerInv(l)'
  <2>1. \A d \in Conns : SameView(d)
    BY <1>1 DEF SameView, connVars
  <2> QED
    BY <1>1, <1>3, <1>5, <2>1, WorkersKept
<1>12. \A k \in Workers : pos'[k] = pos[k]
  BY <1>3, <1>5, Numbers
<1> QED
  BY <1>1, <1>8, <1>9, <1>10, <1>11, <1>12, OneWorker DEF connVars

-----------------------------------------------------------------------------
(* The invariant, step by step: the functors of the workers.               *)

WorkerOps == {"connectEstablished", "connectDestroyed", "writeComplete", "shutdownInLoop"}

LEMMA WorkerRun ==
  ASSUME TypeOK, Good, NEW l \in Workers, NEW o \in WorkerOps, NEW c \in Conns,
         Runs(l, o, c), UNCHANGED <<nextConnId_, loopOf, pending, batch>>
  PROVE  /\ l \in Loops /\ loopOf[c] = l /\ c < nextConnId_
         /\ Functor(o, c) \in Functors /\ Functor(o, c).op = o /\ Functor(o, c).conn = c
         /\ TakesAt(l, Functor(o, c)) /\ \A k \in Loops : k # l => SameAt(k)
         /\ \A d \in Conns : d # c => SameFunctors(d)
         /\ QueuesFit'
         /\ phase[l] = "batch" /\ frame[l] = Idle /\ active[l] = {}
         /\ pos'[l] \in DOMAIN batch[l] /\ batch[l][pos'[l]] = Functor(o, c)
         /\ \A k \in Workers : k # l => pos'[k] = pos[k]
<1> DEFINE f == Functor(o, c)
<1>1. o \in SharedOps \cup RawOps /\ o # "handleRemoveConnectionInLoop"
  BY DEF WorkerOps, SharedOps, RawOps
<1>2. /\ f \in Functors /\ f.op = o /\ f.conn = c /\ Queued(l, f) /\ Fits(l, f) /\ c < nextConnId_
      /\ pos[l] + 1 \in DOMAIN batch[l] /\ pos'[l] = pos[l] + 1
      /\ \A k \in Loops : k # l => pos'[k] = pos[k]
      /\ TakesAt(l, f) /\ loopOf[c] = l /\ frame[l] = Idle /\ active[l] = {} /\ l \in Loops
  BY <1>1, Run, Numbers
<1>3. phase[l] = "batch" /\ batch[l][pos[l] + 1] = f
  BY DEF Runs
<1> HIDE DEF f
<1>4. \A k \in Loops : k # l => SameAt(k)
  BY <1>2, SameStep
<1>5. \A d \in Conns : d # c => SameFunctors(d)
  BY <1>2, <1>4, FunctorsKept DEF Apart
<1>6. QueuesFit'
  BY <1>2, <1>4, NextIsNat, QueuesFitKept
<1> QED
  BY <1>2, <1>3, <1>4, <1>5, <1>6, Numbers DEF f

\* Taking a functor o of c leaves the others of c where they are.
LEMMA OthersOf ==
  ASSUME TypeOK, NEW l \in Workers, NEW c \in Conns, NEW f \in Functors, TakesAt(l, f),
         \A k \in Loops : k # l => SameAt(k)
  PROVE  /\ f # Est(c) => (Queued(l, Est(c))' <=> Queued(l, Est(c)))
         /\ f # Des(c) => (Queued(l, Des(c))' <=> Queued(l, Des(c)))
                          /\ (Twice(l, Des(c))' <=> Twice(l, Des(c)))
         /\ Queued(Main, Rem(c))' <=> Queued(Main, Rem(c))
         /\ Twice(Main, Rem(c))' <=> Twice(Main, Rem(c))
         /\ \A k \in Workers : Queued(k, Wri(c))' => Queued(k, Wri(c))
<1>1. l \in Loops /\ Main \in Loops /\ l # Main
  BY Numbers
<1>2. /\ f # Est(c) => (Queued(l, Est(c))' <=> Queued(l, Est(c)))
      /\ f # Des(c) => (Queued(l, Des(c))' <=> Queued(l, Des(c)))
                       /\ (Twice(l, Des(c))' <=> Twice(l, Des(c)))
  BY Ops DEF TakesAt
<1>3. /\ Queued(Main, Rem(c))' <=> Queued(Main, Rem(c))
      /\ Twice(Main, Rem(c))' <=> Twice(Main, Rem(c))
  BY <1>1, Ops DEF SameAt
<1>4. Queued(l, Wri(c))' => Queued(l, Wri(c))
  BY <1>1, Ops, TwiceIsQueued DEF TakesAt
<1>5. \A k \in Workers : k # l => (Queued(k, Wri(c))' <=> Queued(k, Wri(c)))
  BY Numbers, Ops DEF SameAt
<1> QED
  BY <1>2, <1>3, <1>4, <1>5

LEMMA Sayings == <<"up">> # <<>> /\ <<"up", "down">> # <<>> /\ <<"up">> # <<"up", "down">>
  OBVIOUS

LEMMA Saying ==
  ASSUME TypeOK, NEW c \in Conns, NEW s \in {"CONNECTED", "DISCONNECTED"},
         state_' = [state_ EXCEPT ![c] = s],
         seen' = [seen EXCEPT ![c] = Append(@, Said(state_'[c]))]
  PROVE  /\ state_'[c] = s /\ \A d \in Conns : d # c => state_'[d] = state_[d]
         /\ \A d \in Conns : d # c => seen'[d] = seen[d]
         /\ s = "CONNECTED" /\ seen[c] = <<>> => seen'[c] = <<"up">>
         /\ s = "DISCONNECTED" /\ seen[c] = <<"up">> => seen'[c] = <<"up", "down">>
<1>1. state_'[c] = s /\ \A d \in Conns : d # c => state_'[d] = state_[d]
  BY DEF TypeOK
<1>2. /\ seen'[c] = Append(seen[c], Said(s))
      /\ \A d \in Conns : d # c => seen'[d] = seen[d]
  BY <1>1 DEF TypeOK
<1>3. Append(<<>>, "up") = <<"up">>
  OBVIOUS
<1>4. Append(<<"up">>, "down") = <<"up", "down">>
  <2>1. "up" \in {"up", "down"} /\ "down" \in {"up", "down"}
    OBVIOUS
  <2> QED
    BY <2>1, AppendedPair
<1> QED
  BY <1>1, <1>2, <1>3, <1>4 DEF Said

LEMMA EstablishedKeeps ==
  ASSUME TypeOK, Good, NEW l \in Workers, NEW c \in Conns, ConnectEstablished(l, c), status' = "up"
  PROVE  Good'
<1>1. /\ Runs(l, "connectEstablished", c)
      /\ state_' = [state_ EXCEPT ![c] = "CONNECTED"]
      /\ handler' = [handler EXCEPT ![c] = Enable(handler[c], "in")]
      /\ seen' = [seen EXCEPT ![c] = Append(seen[c], Said(state_'[c]))]
      /\ frame' = [frame EXCEPT ![l] = Callback(c, <<>>, "connection")]
      /\ UNCHANGED <<nextConnId_, connections_, loopOf, outputBuffer_, active, pending, batch, phase,
                     idler, budget>>
  BY DEF ConnectEstablished, serverVars, acceptVars
<1>2. /\ l \in Loops /\ loopOf[c] = l /\ c < nextConnId_ /\ TakesAt(l, Est(c))
      /\ \A k \in Loops : k # l => SameAt(k)
      /\ \A d \in Conns : d # c => SameFunctors(d)
      /\ QueuesFit'
      /\ phase[l] = "batch" /\ active[l] = {}
      /\ pos'[l] \in DOMAIN batch[l] /\ batch[l][pos'[l]] = Est(c)
      /\ \A k \in Workers : k # l => pos'[k] = pos[k]
  BY <1>1, WorkerRun DEF Est, WorkerOps
<1>3. Queued(l, Est(c)) /\ (Queued(l, Est(c))' <=> Twice(l, Est(c)))
  BY <1>2 DEF TakesAt
<1>4. ConnInv(c) /\ Coming(c, l)
  <2>1. ~(c >= nextConnId_)
    BY <1>2, Numbers, NextIsNat
  <2> QED
    BY <1>2, <1>3, <2>1 DEF Good, ConnInv, Life, Fresh, Open, Gone
<1>5. /\ state_'[c] = "CONNECTED" /\ \A d \in Conns : d # c => state_'[d] = state_[d]
      /\ \A d \in Conns : d # c => seen'[d] = seen[d]
      /\ seen'[c] = <<"up">>
  BY <1>1, <1>4, Saying DEF Coming, Unused
<1>6. /\ handler'[c].events = {"in"} /\ Consistent(handler'[c]) /\ handler'[c].state # "NEW"
      /\ handler'[c].polled
      /\ \A d \in Conns : d # c => handler'[d] = handler[d]
  <2>1. UpdatedTo(handler[c], Enable(handler[c], "in"), handler[c].events \cup {"in"})
    BY Setters DEF Events
  <2>2. handler[c].events = {}
    BY <1>4, NewIsRegistered DEF Coming, Unused
  <2>3. /\ handler'[c] = Enable(handler[c], "in")
        /\ \A d \in Conns : d # c => handler'[d] = handler[d]
    BY <1>1 DEF TypeOK
  <2> QED
    BY <2>1, <2>2, <2>3 DEF UpdatedTo
<1>7. \A d \in Conns : d # c => SameConn(d)
  BY <1>1, <1>5, <1>6 DEF SameConn
<1>8. Est(c) # Des(c)
  BY Ops
<1>9. /\ ~Queued(l, Des(c))' /\ ~Twice(l, Des(c))'
      /\ ~Queued(Main, Rem(c))' /\ ~Twice(Main, Rem(c))'
      /\ \A k \in Workers : Queued(k, Wri(c))' => Queued(k, Wri(c))
  BY <1>2, <1>4, <1>8, Ops, Numbers, OthersOf, TwiceIsQueued DEF Coming
<1>10. ConnInv(c)'
  <2>1. Open(c, l)'
    BY <1>1, <1>3, <1>4, <1>5, <1>6, <1>9 DEF Open, Coming
  <2>2. Registered(handler[c], outputBuffer_[c])'
    BY <1>1, <1>4, <1>6 DEF Registered, Coming, Unused
  <2>3. Closing(c)'
    <3>1. ~Closed(c)' /\ ~outputBuffer_'[c]
      BY <1>1, <1>4, <1>6 DEF Closed, Coming, Unused
    <3> QED
      BY <1>1, <1>4, <1>9, <3>1 DEF Closing, ConnInv, Called
  <2> QED
    BY <1>1, <1>2, <2>1, <2>2, <2>3 DEF ConnInv, Life
<1>11. WorkerInv(l)'
  <2>1. \A q \in Seq(HandlerOps) :
          /\ Callback(c, q, "connection").todo = q /\ Callback(c, q, "connection").cb = "connection"
          /\ Callback(c, q, "connection").conn = c
    BY CallbackFrame
  <2>2. <<>> \in Seq(HandlerOps)
    BY EmptySeq
  <2>3. /\ Callback(c, <<>>, "connection").todo = <<>>
        /\ Callback(c, <<>>, "connection").cb = "connection"
        /\ Callback(c, <<>>, "connection").conn = c
    BY <2>1, <2>2, Zenon
  <2>4. frame'[l].todo = <<>> /\ frame'[l].cb = "connection" /\ frame'[l].conn = c
    BY <1>1, <2>3 DEF TypeOK
  <2>5. CalledBack(l, c)'
    BY <1>1, <1>2, <1>5, <2>4, Ops DEF CalledBack
  <2>6. Serves(l, c)'
    BY <1>1, <1>2, <1>6, <2>5 DEF Serves, Closed
  <2> QED
    BY <1>1, <1>2, <2>4, <2>6 DEF WorkerInv, Reports
<1>12. \A k \in Workers : k # l => frame'[k] = frame[k]
  BY <1>1 DEF TypeOK
<1>13. seen'[c] # <<>>
  BY <1>5
<1> QED
  BY <1>1, <1>2, <1>7, <1>10, <1>11, <1>12, <1>13, OneWorker

LEMMA DestroyedKeeps ==
  ASSUME TypeOK, Good, NEW l \in Workers, NEW c \in Conns, ConnectDestroyed(l, c)
  PROVE  /\ Good' /\ ~UpdateFails(handler[c]) /\ ~RemoveFails(DisableAll(handler[c]))
<1>1. /\ Runs(l, "connectDestroyed", c)
      /\ state_' = [state_ EXCEPT ![c] = "DISCONNECTED"]
      /\ handler' = [handler EXCEPT ![c] = RemoveHandler(DisableAll(handler[c]))]
      /\ seen' = [seen EXCEPT ![c] = Append(seen[c], Said(state_'[c]))]
      /\ UNCHANGED <<nextConnId_, connections_, loopOf, outputBuffer_, active, frame, pending, batch,
                     phase, idler, budget>>
  BY DEF ConnectDestroyed, serverVars, acceptVars
<1>2. /\ l \in Loops /\ loopOf[c] = l /\ c < nextConnId_ /\ TakesAt(l, Des(c))
      /\ \A k \in Loops : k # l => SameAt(k)
      /\ \A d \in Conns : d # c => SameFunctors(d)
      /\ QueuesFit'
      /\ frame[l] = Idle /\ active[l] = {}
      /\ \A k \in Workers : k # l => pos'[k] = pos[k]
  BY <1>1, WorkerRun DEF Des, WorkerOps
<1>3. Queued(l, Des(c)) /\ (Queued(l, Des(c))' <=> Twice(l, Des(c)))
  BY <1>2 DEF TakesAt
<1>4. ConnInv(c) /\ Open(c, l)
  <2>1. ~(c >= nextConnId_)
    BY <1>2, Numbers, NextIsNat
  <2> QED
    BY <1>2, <1>3, <2>1 DEF Good, ConnInv, Life, Fresh, Coming, Gone
<1>5. /\ state_'[c] = "DISCONNECTED" /\ \A d \in Conns : d # c => state_'[d] = state_[d]
      /\ \A d \in Conns : d # c => seen'[d] = seen[d]
      /\ seen'[c] = <<"up", "down">>
  BY <1>1, <1>4, Saying DEF Open
<1>6. /\ ~UpdateFails(handler[c]) /\ ~RemoveFails(DisableAll(handler[c]))
      /\ handler'[c] \in HandlerRecords /\ handler'[c].events = {} /\ Consistent(handler'[c])
      /\ handler'[c].state = "NEW" /\ ~handler'[c].polled
      /\ \A d \in Conns : d # c => handler'[d] = handler[d]
  <2>1. /\ handler'[c] = RemoveHandler(DisableAll(handler[c]))
        /\ \A d \in Conns : d # c => handler'[d] = handler[d]
    BY <1>1 DEF TypeOK
  <2>2. handler[c] \in HandlerRecords /\ Consistent(handler[c]) /\ handler[c].state # "NEW"
    BY <1>4, Setters DEF ConnInv, Registered, Open
  <2>3. /\ ~UpdateFails(handler[c]) /\ ~RemoveFails(DisableAll(handler[c]))
        /\ handler'[c] \in HandlerRecords /\ handler'[c].events = {} /\ Consistent(handler'[c])
        /\ handler'[c].state = "NEW"
    BY <2>1, <2>2, Removed
  <2>4. ~handler'[c].polled
    BY <2>3, HandlerFields DEF Consistent
  <2> QED
    BY <2>1, <2>3, <2>4
<1>7. \A d \in Conns : d # c => SameConn(d)
  BY <1>1, <1>5, <1>6 DEF SameConn
<1>8. /\ ~Queued(l, Est(c))' /\ ~Queued(l, Des(c))'
      /\ Queued(Main, Rem(c))' <=> Queued(Main, Rem(c))
      /\ Twice(Main, Rem(c))' <=> Twice(Main, Rem(c))
      /\ \A k \in Workers : Queued(k, Wri(c))' => Queued(k, Wri(c))
  BY <1>2, <1>3, <1>4, Ops, OthersOf DEF Open
<1>9. ConnInv(c)'
  <2>1. Gone(c, l)'
    BY <1>1, <1>2, <1>3, <1>4, <1>5, <1>6, <1>8 DEF Open, Gone
  <2>2. Registered(handler[c], outputBuffer_[c])'
    BY <1>6 DEF Registered
  <2>3. Closing(c)'
    BY <1>1, <1>4, <1>6, <1>8 DEF ConnInv, Closing, Again, Called
  <2> QED
    BY <1>1, <1>2, <2>1, <2>2, <2>3 DEF ConnInv, Life
<1>10. WorkerInv(l)'
  BY <1>1, <1>2 DEF WorkerInv, Reports
<1>11. seen'[c] # <<>>
  BY <1>5
<1>12. Good'
  BY <1>1, <1>2, <1>7, <1>9, <1>10, <1>11, OneWorker
<1> QED
  BY <1>6, <1>12

LEMMA WriteCompleteKeeps ==
  ASSUME TypeOK, Good, NEW l \in Workers, NEW c \in Conns, WriteComplete(l, c)
  PROVE  Good'
<1>1. /\ Runs(l, "writeComplete", c)
      /\ frame' = [frame EXCEPT ![l] = Callback(c, <<>>, "write")]
      /\ UNCHANGED <<nextConnId_, connections_, connVars, active, pending, batch, phase, idler,
                     budget>>
  BY DEF WriteComplete, serverVars, acceptVars
<1>2. /\ l \in Loops /\ loopOf[c] = l /\ c < nextConnId_ /\ TakesAt(l, Wri(c))
      /\ \A k \in Loops : k # l => SameAt(k)
      /\ \A d \in Conns : d # c => SameFunctors(d)
      /\ QueuesFit'
      /\ phase[l] = "batch" /\ active[l] = {}
      /\ pos'[l] \in DOMAIN batch[l] /\ batch[l][pos'[l]] = Wri(c)
      /\ \A k \in Workers : k # l => pos'[k] = pos[k]
  BY <1>1, WorkerRun DEF Wri, WorkerOps, connVars
<1>3. Queued(l, Wri(c))
  BY <1>2 DEF TakesAt
<1>4. ConnInv(c) /\ (Open(c, l) \/ Gone(c, l))
  <2>1. ~(c >= nextConnId_)
    BY <1>2, Numbers, NextIsNat
  <2> QED
    BY <1>2, <1>3, <2>1 DEF Good, ConnInv, Life, Fresh, Coming
<1>5. HasWriteCallback /\ Called(c) /\ seen[c] # <<>>
  BY <1>3, <1>4, Sayings DEF ConnInv, Closing, Open, Gone
<1>6. \A d \in Conns : SameConn(d) /\ SameView(d)
  BY <1>1 DEF SameConn, SameView, connVars
<1>7. /\ Queued(l, Est(c))' <=> Queued(l, Est(c))
      /\ Queued(l, Des(c))' <=> Queued(l, Des(c))
      /\ Twice(l, Des(c))' <=> Twice(l, Des(c))
      /\ Queued(Main, Rem(c))' <=> Queued(Main, Rem(c))
      /\ Twice(Main, Rem(c))' <=> Twice(Main, Rem(c))
      /\ \A k \in Workers : Queued(k, Wri(c))' => Queued(k, Wri(c))
  <2>1. Wri(c) # Est(c) /\ Wri(c) # Des(c) /\ Wri(c) \in Functors
    BY Ops
  <2> QED
    BY <1>2, <2>1, OthersOf
<1>8. ConnInv(c)'
  <2>1. Open(c, l)' \/ Gone(c, l)'
    BY <1>1, <1>4, <1>7 DEF Open, Gone, connVars
  <2>2. Registered(handler[c], outputBuffer_[c])'
    BY <1>1, <1>4 DEF ConnInv, connVars
  <2>3. Closing(c)'
    BY <1>1, <1>4, <1>7 DEF ConnInv, Closing, Again, Called, Closed, connVars
  <2> QED
    BY <1>1, <1>2, <2>1, <2>2, <2>3 DEF ConnInv, Life, connVars
<1>9. WorkerInv(l)'
  <2>1. \A q \in Seq(HandlerOps) :
          /\ Callback(c, q, "write").todo = q /\ Callback(c, q, "write").cb = "write"
          /\ Callback(c, q, "write").conn = c
          /\ Callback(c, q, "write").calling <=> "write" \in CallingCallbacks
    BY CallbackFrame
  <2>2. <<>> \in Seq(HandlerOps)
    BY EmptySeq
  <2>3. /\ Callback(c, <<>>, "write").todo = <<>>
        /\ Callback(c, <<>>, "write").cb = "write"
        /\ Callback(c, <<>>, "write").conn = c
        /\ Callback(c, <<>>, "write").calling <=> "write" \in CallingCallbacks
    BY <2>1, <2>2, Zenon
  <2>4. frame'[l] = Callback(c, <<>>, "write")
    BY <1>1 DEF TypeOK
  <2>5. CalledBack(l, c)'
    BY <1>1, <1>2, <1>5, <2>3, <2>4, Ops DEF CalledBack, connVars
  <2>6. frame'[l].calling => CallsOnClosed /\ Called(c)'
    BY <1>1, <1>5, <2>3, <2>4 DEF CallsOnClosed, Called
  <2>7. Serves(l, c)'
    BY <1>1, <1>2, <2>5, <2>6 DEF Serves, connVars
  <2> QED
    BY <1>1, <1>2, <2>3, <2>4, <2>7 DEF WorkerInv, Reports
<1>10. \A k \in Workers : k # l => frame'[k] = frame[k]
  BY <1>1 DEF TypeOK
<1> QED
  BY <1>1, <1>2, <1>6, <1>8, <1>9, <1>10, OneWorker DEF connVars

LEMMA ShutdownInLoopKeeps ==
  ASSUME TypeOK, Good, NEW l \in Workers, NEW c \in Conns, RunShutdownInLoop(l, c)
  PROVE  Good'
<1> DEFINE f == Functor("shutdownInLoop", c)
<1>1. /\ Runs(l, "shutdownInLoop", c)
      /\ UNCHANGED <<nextConnId_, connections_, connVars, active, frame, pending, batch, phase, idler,
                     budget>>
  BY DEF RunShutdownInLoop, serverVars, acceptVars
<1>2. /\ f \in Functors /\ f.op = "shutdownInLoop" /\ TakesAt(l, f)
      /\ \A k \in Loops : k # l => SameAt(k)
      /\ QueuesFit' /\ loopOf[c] = l
      /\ frame[l] = Idle /\ active[l] = {}
      /\ \A k \in Workers : k # l => pos'[k] = pos[k]
  BY <1>1, WorkerRun DEF WorkerOps, connVars
<1> HIDE DEF f
<1>3. \A k \in Loops, d \in Conns : Apart(k, d)
  BY <1>2, Ops DEF Apart
<1>4. \A d \in Conns : SameConn(d) /\ SameFunctors(d)
  BY <1>1, <1>3, FunctorsKept DEF SameConn, connVars
<1>5. ConnInv(c)'
  BY <1>4, ConnKeeps DEF Good
<1>6. WorkerInv(l)'
  BY <1>1, <1>2 DEF WorkerInv, Reports
<1> QED
  BY <1>1, <1>2, <1>4, <1>5, <1>6, OneWorker DEF connVars

-----------------------------------------------------------------------------
(* The invariant, step by step: the handlers of the workers.               *)

\* A step that changes only what a worker is in the middle of.
LEMMA OnlyWorker ==
  ASSUME TypeOK, Good, NEW l \in Workers,
         UNCHANGED <<nextConnId_, connections_, connVars, pending, batch, pos, budget, idler>>,
         \A k \in Workers : k # l =>
           active'[k] = active[k] /\ frame'[k] = frame[k] /\ phase'[k] = phase[k],
         WorkerInv(l)'
  PROVE  Good'
<1>1. \A k \in Loops : SameAt(k)
  BY SameStep
<1>2. \A d \in Conns : ConnInv(d)'
  BY <1>1, ConnsKept DEF Apart
<1>3. \A d \in Conns : SameView(d)
  BY DEF SameView, connVars
<1>4. \A k \in Workers : WorkerInv(k)'
  BY <1>3, WorkersKept
<1>5. QueuesFit'
  BY <1>1, NextIsNat, QueuesFitKept DEF connVars
<1>6. IdlerFits'
  BY DEF Good, IdlerFits, connVars
<1> QED
  BY <1>2, <1>4, <1>5, <1>6 DEF Good

LEMMA ReportsKept ==
  ASSUME TypeOK, Good, NEW l \in Workers, NEW c \in Conns, frame[l].conn = c,
         UNCHANGED <<nextConnId_, loopOf>>, active'[l] = active[l],
         \A d \in Conns : d # c => SameView(d),
         frame'[l].conn = 0 \/ frame'[l].conn = c
  PROVE  Reports(l)'
<1>1. ASSUME NEW a \in active[l] PROVE Reported(l, a)'
  <2>1. Reported(l, a) /\ a.conn \in Conns /\ a.conn # 0
    BY TypeParts, Numbers DEF WorkerType, ReportRecord, Good, WorkerInv, Reports
  <2>2. SameView(a.conn) /\ frame'[l].conn # a.conn
    BY <2>1 DEF Reported
  <2> QED
    BY <2>1, <2>2 DEF Reported, SameView, Again, Closed
<1> QED
  BY <1>1 DEF Good, WorkerInv, Reports

LEMMA DueParts ==
  /\ \A t \in Dues :
       /\ t # <<>>
       /\ Head(t) = "handleClose" =>
            Len(t) # 1 /\ Tail(t) \in {<<"handleRead">>, <<"handleRead", "handleWrite">>}
       /\ Head(t) = "handleRead" => t = <<"handleRead">> \/ t = <<"handleRead", "handleWrite">>
       /\ Head(t) = "handleWrite" => Len(t) = 1
  /\ Len(<<"handleRead">>) = 1 /\ Tail(<<"handleRead">>) = <<>>
  /\ Len(<<"handleRead", "handleWrite">>) # 1
  /\ Tail(<<"handleRead", "handleWrite">>) = <<"handleWrite">>
  /\ Head(<<"handleRead">>) = "handleRead"
  /\ Head(<<"handleRead", "handleWrite">>) = "handleRead"
  /\ Head(<<"handleWrite">>) = "handleWrite"
<1>1. /\ Tail(<<"handleRead">>) = <<>>
      /\ Tail(<<"handleRead", "handleWrite">>) = <<"handleWrite">>
      /\ Tail(<<"handleClose", "handleRead">>) = <<"handleRead">>
      /\ Tail(<<"handleClose", "handleRead", "handleWrite">>) = <<"handleRead", "handleWrite">>
  OBVIOUS
<1>2. /\ Head(<<"handleRead">>) = "handleRead"
      /\ Head(<<"handleRead", "handleWrite">>) = "handleRead"
      /\ Head(<<"handleWrite">>) = "handleWrite"
      /\ Head(<<"handleClose", "handleRead">>) = "handleClose"
      /\ Head(<<"handleClose", "handleRead", "handleWrite">>) = "handleClose"
  OBVIOUS
<1>3. /\ Len(<<"handleRead">>) = 1 /\ Len(<<"handleWrite">>) = 1
      /\ Len(<<"handleRead", "handleWrite">>) # 1
      /\ Len(<<"handleClose", "handleRead">>) # 1
      /\ Len(<<"handleClose", "handleRead", "handleWrite">>) # 1
  OBVIOUS
<1>4. /\ <<"handleRead">> # <<>> /\ <<"handleWrite">> # <<>>
      /\ <<"handleRead", "handleWrite">> # <<>>
      /\ <<"handleClose", "handleRead">> # <<>>
      /\ <<"handleClose", "handleRead", "handleWrite">> # <<>>
  OBVIOUS
<1> QED
  BY <1>1, <1>2, <1>3, <1>4, Zenon DEF Dues

LEMMA IdleFields ==
  Idle.conn = 0 /\ Idle.todo = <<>> /\ Idle.cb = "none" /\ Idle.calling = FALSE
  BY DEF Idle

\* The callback due of a worker, and the frame when it has returned.
LEMMA DueNow ==
  ASSUME TypeOK, Good, NEW l \in Workers, NEW op, Calls(l, op)
  PROVE  \E c \in Conns :
           /\ frame[l].conn = c /\ Handling(l, c) /\ Serves(l, c) /\ ConnInv(c) /\ Open(c, l)
           /\ op = "handleClose" =>
                /\ NextDue(l).conn = c /\ NextDue(l).cb = "none" /\ ~NextDue(l).calling
                /\ NextDue(l).todo \in Dues /\ Head(NextDue(l).todo) = "handleRead"
           /\ op = "handleRead" =>
                \/ NextDue(l) = Idle
                \/ /\ NextDue(l).conn = c /\ NextDue(l).cb = "none" /\ ~NextDue(l).calling
                   /\ NextDue(l).todo = <<"handleWrite">>
           /\ op = "handleRead" => Tail(frame[l].todo) \in {<<>>, <<"handleWrite">>}
           /\ op = "handleWrite" => NextDue(l) = Idle
<1>1. frame[l].cb = "none" /\ frame[l].todo # <<>> /\ Head(frame[l].todo) = op
  BY DEF Calls
<1>2. frame[l] # Idle
  BY <1>1, IdleFields
<1>3. PICK c \in Conns : frame[l].conn = c /\ Serves(l, c)
  BY <1>2 DEF Good, WorkerInv
<1>4. Handling(l, c)
  BY <1>1, <1>3 DEF Serves, Reading, CalledBack
<1>5. frame[l].todo \in Dues /\ ~frame[l].calling
  BY <1>4 DEF Handling
<1>6. ConnInv(c) /\ Open(c, l)
  <2>1. seen[c] = <<"up">> /\ loopOf[c] = l /\ l \in Loops
    BY <1>3, <1>4, Numbers DEF Handling, Serves
  <2> QED
    BY <2>1, SeenIsUp, Sayings DEF Good, Gone
<1>7. op = "handleClose" =>
        /\ NextDue(l).conn = c /\ NextDue(l).cb = "none" /\ ~NextDue(l).calling
        /\ NextDue(l).todo \in Dues /\ Head(NextDue(l).todo) = "handleRead"
  <2> SUFFICES ASSUME op = "handleClose"
               PROVE  /\ NextDue(l).conn = c /\ NextDue(l).cb = "none" /\ ~NextDue(l).calling
                      /\ NextDue(l).todo \in Dues /\ Head(NextDue(l).todo) = "handleRead"
    OBVIOUS
  <2>1. /\ Len(frame[l].todo) # 1
        /\ Tail(frame[l].todo) \in {<<"handleRead">>, <<"handleRead", "handleWrite">>}
    BY <1>1, <1>5, DueParts
  <2>2. /\ NextDue(l).conn = c /\ NextDue(l).cb = "none" /\ ~NextDue(l).calling
        /\ NextDue(l).todo = Tail(frame[l].todo)
    BY <1>1, <1>3, <1>5, <2>1, NextDueFrame
  <2> QED
    BY <2>1, <2>2, DueParts DEF Dues
<1>8. op = "handleRead" =>
        /\ Tail(frame[l].todo) \in {<<>>, <<"handleWrite">>}
        /\ \/ NextDue(l) = Idle
           \/ /\ NextDue(l).conn = c /\ NextDue(l).cb = "none" /\ ~NextDue(l).calling
              /\ NextDue(l).todo = <<"handleWrite">>
  <2> SUFFICES ASSUME op = "handleRead"
               PROVE  /\ Tail(frame[l].todo) \in {<<>>, <<"handleWrite">>}
                      /\ \/ NextDue(l) = Idle
                         \/ /\ NextDue(l).conn = c /\ NextDue(l).cb = "none" /\ ~NextDue(l).calling
                            /\ NextDue(l).todo = <<"handleWrite">>
    OBVIOUS
  <2>1. CASE frame[l].todo = <<"handleRead">>
    BY <1>1, <2>1, DueParts, NextDueFrame
  <2>2. CASE frame[l].todo = <<"handleRead", "handleWrite">>
    <3>1. Tail(frame[l].todo) = <<"handleWrite">> /\ Len(frame[l].todo) # 1
      BY <2>2, DueParts
    <3> QED
      BY <1>1, <1>3, <1>5, <3>1, NextDueFrame
  <2> QED
    BY <1>1, <1>5, <2>1, <2>2, DueParts
<1>9. op = "handleWrite" => NextDue(l) = Idle
  BY <1>1, <1>5, DueParts, NextDueFrame
<1> QED
  BY <1>3, <1>4, <1>6, <1>7, <1>8, <1>9

LEMMA PollKeeps ==
  ASSUME TypeOK, Good, NEW l \in Workers, Poll(l)
  PROVE  Good'
<1>1. /\ UNCHANGED <<nextConnId_, connections_, connVars, frame, pending, batch, pos, idler, budget>>
      /\ phase[l] = "poll" /\ phase' = [phase EXCEPT ![l] = "io"]
  BY DEF Poll, serverVars, acceptVars
<1>2. frame[l] = Idle
  BY <1>1 DEF TypeOK
<1>3. PICK room : active' = [active EXCEPT ![l] =
             {[conn |-> c, revs |-> Revents(c) \cup (IF c \in room THEN {"out"} ELSE {})] :
                c \in {d \in {e \in Conns : loopOf[e] = l /\ handler[e].polled} :
                         Revents(d) # {} \/ d \in room}}]
  BY DEF Poll
<1>4. ASSUME NEW a \in active'[l]
      PROVE  \E c \in Conns :
               /\ loopOf[c] = l /\ handler[c].polled
               /\ a = [conn |-> c, revs |-> Revents(c) \cup (IF c \in room THEN {"out"} ELSE {})]
  BY <1>3 DEF TypeOK
<1>5. ASSUME NEW a \in active'[l], NEW b \in active'[l], a.conn = b.conn PROVE a = b
  BY <1>4, <1>5
<1>6. ASSUME NEW a \in active'[l] PROVE Reported(l, a)'
  <2>1. PICK c \in Conns :
          /\ loopOf[c] = l /\ handler[c].polled
          /\ a = [conn |-> c, revs |-> Revents(c) \cup (IF c \in room THEN {"out"} ELSE {})]
    BY <1>4
  <2>2. l \in Loops /\ c # 0 /\ ConnInv(c)
    BY Numbers DEF Good
  <2>3. handler[c].state # "NEW" /\ handler[c].interest = handler[c].events
    BY <2>1, <2>2 DEF ConnInv, Registered, Consistent
  <2>4. Open(c, l)
    BY <2>1, <2>2, <2>3, NewIsRegistered DEF ConnInv, Life, Fresh, Coming, Gone, Unused
  <2>5. Closed(c) => Again(c)
    BY <2>1, <2>2 DEF ConnInv, Closing
  <2>6. "hup" \in a.revs /\ "in" \notin a.revs => Closed(c)
    <3> SUFFICES ASSUME "hup" \in a.revs, "in" \notin a.revs PROVE Closed(c)
      OBVIOUS
    <3>1. "hup" \in Revents(c) /\ "in" \notin Revents(c)
      BY <2>1
    <3>2. net[c].rst \/ net[c].fin
      BY <3>1 DEF Revents
    <3> QED
      BY <2>3, <3>1, <3>2 DEF Revents, Closed
  <2>7. a.conn = c
    BY <2>1
  <2>8. Reported(l, a)' <=>
          /\ a.conn < nextConnId_ /\ loopOf[a.conn] = l
          /\ seen[a.conn] = <<"up">> /\ frame[l].conn # a.conn
          /\ "hup" \in a.revs /\ "in" \notin a.revs => Again(a.conn)
          /\ a.revs \cap {"in", "hup"} # {} /\ Closed(a.conn) => Again(a.conn)
    BY <1>1 DEF Reported, Again, Closed, connVars
  <2> QED
    BY <1>2, <2>1, <2>2, <2>4, <2>5, <2>6, <2>7, <2>8, IdleFields DEF Open
<1>7. WorkerInv(l)'
  BY <1>1, <1>2, <1>5, <1>6 DEF WorkerInv, Reports
<1>8. \A k \in Workers : k # l =>
        active'[k] = active[k] /\ frame'[k] = frame[k] /\ phase'[k] = phase[k]
  BY <1>1, <1>3, Numbers DEF TypeOK
<1> QED
  BY <1>1, <1>7, <1>8, OnlyWorker

LEMMA HandleEventsKeeps ==
  ASSUME TypeOK, Good, NEW l \in Workers, HandleEvents(l)
  PROVE  Good'
<1>1. /\ UNCHANGED <<nextConnId_, connections_, connVars, phase, pending, batch, pos, idler, budget>>
      /\ phase[l] = "io"
  BY DEF HandleEvents, serverVars, acceptVars, queueVars
<1>2. PICK a \in active[l] :
        /\ active' = [active EXCEPT ![l] = active[l] \ {a}]
        /\ frame' = [frame EXCEPT ![l] =
                       IF Due(a.revs) = <<>> THEN Idle
                       ELSE [conn |-> a.conn, todo |-> Due(a.revs), cb |-> "none", calling |-> FALSE]]
  BY DEF HandleEvents
<1>3. \A b \in active[l] : Reported(l, b) /\ b.conn \in Conns /\ b.conn # 0 /\ (b.conn = a.conn => b = a)
  BY TypeParts, Numbers DEF WorkerType, ReportRecord, Good, WorkerInv, Reports
<1>4. PICK c \in Conns : a.conn = c
  BY <1>3
<1>5. active'[l] = active[l] \ {a}
  BY <1>2 DEF TypeOK
<1>6. frame'[l] = IF Due(a.revs) = <<>> THEN Idle
                  ELSE [conn |-> c, todo |-> Due(a.revs), cb |-> "none", calling |-> FALSE]
  BY <1>2, <1>4 DEF TypeOK
<1>7. frame'[l].conn \in {0, c}
  BY <1>6, IdleFields
<1>8. \A b : Reported(l, b)' <=>
          /\ b.conn < nextConnId_ /\ loopOf[b.conn] = l
          /\ seen[b.conn] = <<"up">> /\ frame'[l].conn # b.conn
          /\ "hup" \in b.revs /\ "in" \notin b.revs => Again(b.conn)
          /\ b.revs \cap {"in", "hup"} # {} /\ Closed(b.conn) => Again(b.conn)
  BY <1>1 DEF Reported, Again, Closed, connVars
<1>9. Reports(l)'
  <2>1. ASSUME NEW b \in active'[l] PROVE Reported(l, b)'
    <3>1. b \in active[l] /\ b.conn # c /\ b.conn # 0 /\ Reported(l, b)
      BY <1>3, <1>4, <1>5
    <3>2. frame'[l].conn # b.conn
      BY <1>7, <3>1
    <3> QED
      BY <1>8, <3>1, <3>2 DEF Reported
  <2>2. \A b, d \in active'[l] : b.conn = d.conn => b = d
    BY <1>5 DEF Good, WorkerInv, Reports
  <2> QED
    BY <2>1, <2>2 DEF Reports
<1>10. CASE Due(a.revs) = <<>>
  <2>1. WorkerInv(l)'
    BY <1>6, <1>9, <1>10 DEF WorkerInv
  <2> QED
    BY <1>1, <1>2, <2>1, OnlyWorker DEF TypeOK
<1>11. CASE Due(a.revs) # <<>>
  <2>1. /\ frame'[l].conn = c /\ frame'[l].todo = Due(a.revs) /\ frame'[l].cb = "none"
        /\ frame'[l].calling = FALSE
    BY <1>6, <1>11
  <2>2. Due(a.revs) \in Dues
    BY <1>11, DueCallbacks DEF Dues
  <2>3. Head(Due(a.revs)) = "handleClose" => Again(c)
    <3>1. Head(Due(a.revs)) = "handleClose" => "hup" \in a.revs /\ "in" \notin a.revs
      BY <1>11, DueCallbacks, DueParts
    <3> QED
      BY <1>3, <1>4, <3>1 DEF Reported
  <2>4. Head(Due(a.revs)) = "handleRead" /\ Closed(c) => Again(c)
    <3>1. Head(Due(a.revs)) = "handleRead" => a.revs \cap {"in", "hup"} # {}
      BY <2>2, DueCallbacks, DueParts
    <3> QED
      BY <1>3, <1>4, <3>1 DEF Reported
  <2>5. c < nextConnId_ /\ loopOf[c] = l /\ seen[c] = <<"up">>
    BY <1>3, <1>4 DEF Reported
  <2>6. Handling(l, c)'
    BY <1>1, <2>1, <2>2, <2>3, <2>4, <2>5 DEF Handling, Again, Closed, connVars
  <2>7. Serves(l, c)'
    BY <1>1, <2>1, <2>5, <2>6 DEF Serves, connVars
  <2>8. WorkerInv(l)'
    BY <1>9, <2>1, <2>7 DEF WorkerInv
  <2> QED
    BY <1>1, <1>2, <2>8, OnlyWorker DEF TypeOK
<1> QED
  BY <1>10, <1>11

\* A worker's frame when it is idle again, or still in handleEvents.
LEMMA Proceeds ==
  ASSUME TypeOK, Good, NEW l \in Workers, NEW c \in Conns, frame[l].conn = c, Handling(l, c),
         Serves(l, c),
         UNCHANGED <<nextConnId_, loopOf, phase, seen>>,
         active'[l] = active[l],
         \A d \in Conns : d # c => SameView(d),
         \/ frame'[l] = Idle
         \/ /\ frame'[l].conn = c /\ frame'[l].cb = "none" /\ ~frame'[l].calling
            /\ \/ frame'[l].todo = <<"handleWrite">>
               \/ /\ frame'[l].todo \in Dues /\ Head(frame'[l].todo) = "handleRead"
                  /\ Closed(c)' => Again(c)'
  PROVE  WorkerInv(l)'
<1>1. Reports(l)'
  BY ReportsKept, IdleFields
<1>2. CASE frame'[l] = Idle
  BY <1>1, <1>2 DEF WorkerInv
<1>3. CASE frame'[l] # Idle
  <2>1. /\ frame'[l].conn = c /\ frame'[l].cb = "none" /\ ~frame'[l].calling
        /\ frame'[l].todo \in Dues
        /\ Head(frame'[l].todo) # "handleClose"
        /\ Head(frame'[l].todo) = "handleRead" /\ Closed(c)' => Again(c)'
    BY <1>3, DueParts DEF Dues
  <2>2. Handling(l, c)'
    BY <2>1 DEF Handling
  <2>3. Serves(l, c)'
    BY <2>1, <2>2 DEF Serves
  <2> QED
    BY <1>1, <2>1, <2>3 DEF WorkerInv
<1> QED
  BY <1>2, <1>3

LEMMA ReadMessageKeeps ==
  ASSUME TypeOK, Good, NEW l \in Workers, ReadMessage(l)
  PROVE  Good'
<1>1. Calls(l, "handleRead")
  BY DEF ReadMessage
<1>2. PICK c \in Conns :
        /\ frame[l].conn = c /\ Handling(l, c) /\ Serves(l, c)
        /\ Tail(frame[l].todo) \in {<<>>, <<"handleWrite">>}
  BY <1>1, DueNow
<1>3. /\ UNCHANGED <<nextConnId_, connections_, connVars, active, pending, queueVars, idler, budget>>
      /\ frame' = [frame EXCEPT ![l] = Callback(c, Tail(frame[l].todo), "message")]
  BY <1>2 DEF ReadMessage, serverVars, acceptVars
<1>4. Tail(frame[l].todo) \in Seq(HandlerOps)
  <2>1. <<>> \in Seq(HandlerOps) /\ <<"handleWrite">> \in Seq(HandlerOps)
    <3>1. "handleWrite" \in HandlerOps
      BY DEF HandlerOps
    <3> QED
      BY <3>1
  <2> QED
    BY <1>2, <2>1
<1>5. \A q \in Seq(HandlerOps) :
        /\ Callback(c, q, "message").todo = q /\ Callback(c, q, "message").cb = "message"
        /\ Callback(c, q, "message").conn = c
  BY CallbackFrame
<1>6. /\ frame'[l].todo = Tail(frame[l].todo) /\ frame'[l].cb = "message" /\ frame'[l].conn = c
  BY <1>3, <1>4, <1>5 DEF TypeOK
<1>7. \A d \in Conns : SameView(d)
  BY <1>3 DEF SameView, connVars
<1>8. Reports(l)'
  BY <1>2, <1>3, <1>6, <1>7, ReportsKept DEF connVars
<1>9. Reading(l, c)'
  BY <1>2, <1>3, <1>6 DEF Handling, Reading, connVars, queueVars
<1>10. Closed(c) => CallsOnClosed /\ Called(c)
  <2>1. Closed(c) => Again(c)
    BY <1>1, <1>2 DEF Handling, Calls
  <2>2. budget[c] \in 0 .. MaxCalls
    BY DEF TypeOK
  <2> QED
    BY <2>1, <2>2, ServerAssumption DEF Again, Called
<1>11. Serves(l, c)'
  BY <1>2, <1>3, <1>9, <1>10 DEF Serves, Closed, Called, connVars
<1>12. WorkerInv(l)'
  BY <1>6, <1>8, <1>11 DEF WorkerInv
<1> QED
  BY <1>3, <1>12, OnlyWorker DEF TypeOK, queueVars

LEMMA ReadErrorKeeps ==
  ASSUME TypeOK, Good, NEW l \in Workers, ReadError(l) \/ WriteSome(l)
  PROVE  Good'
<1>1. /\ UNCHANGED <<nextConnId_, connections_, connVars, active, pending, queueVars, idler, budget>>
      /\ frame' = [frame EXCEPT ![l] = NextDue(l)]
      /\ Calls(l, "handleRead") \/ Calls(l, "handleWrite")
  BY DEF ReadError, WriteSome, serverVars, acceptVars
<1>2. PICK c \in Conns :
        /\ frame[l].conn = c /\ Handling(l, c) /\ Serves(l, c)
        /\ \/ NextDue(l) = Idle
           \/ /\ NextDue(l).conn = c /\ NextDue(l).cb = "none" /\ ~NextDue(l).calling
              /\ NextDue(l).todo = <<"handleWrite">>
  BY <1>1, DueNow
<1>3. frame'[l] = NextDue(l)
  BY <1>1 DEF TypeOK
<1>4. \A d \in Conns : SameView(d)
  BY <1>1 DEF SameView, connVars
<1>5. WorkerInv(l)'
  BY <1>1, <1>2, <1>3, <1>4, Proceeds DEF connVars, queueVars
<1> QED
  BY <1>1, <1>5, OnlyWorker DEF TypeOK, queueVars

\* A callback in progress.
LEMMA InCallback ==
  ASSUME TypeOK, Good, NEW l \in Workers, frame[l].cb # "none"
  PROVE  \E c \in Conns :
           /\ frame[l].conn = c /\ Serves(l, c) /\ (Reading(l, c) \/ CalledBack(l, c))
           /\ ConnInv(c) /\ (Open(c, l) \/ Gone(c, l))
<1>1. PICK c \in Conns : frame[l].conn = c /\ Serves(l, c)
  BY IdleFields DEF Good, WorkerInv
<1>2. Reading(l, c) \/ CalledBack(l, c)
  BY <1>1 DEF Serves, Handling
<1>3. loopOf[c] = l /\ seen[c] # <<>> /\ l \in Loops
  BY <1>1, <1>2, Numbers, Sayings DEF Reading, CalledBack, Serves
<1> QED
  BY <1>1, <1>2, <1>3, SeenIsUp DEF Good

LEMMA CallbackReturnsKeeps ==
  ASSUME TypeOK, Good, NEW l \in Workers, CallbackReturns(l)
  PROVE  Good'
<1>1. /\ UNCHANGED <<nextConnId_, connections_, connVars, active, pending, queueVars, idler, budget>>
      /\ frame' = [frame EXCEPT ![l] = IF frame[l].todo = <<>> THEN Idle
                                       ELSE [frame[l] EXCEPT !.cb = "none", !.calling = FALSE]]
      /\ frame[l].cb # "none"
  BY DEF CallbackReturns, serverVars, acceptVars
<1>2. PICK c \in Conns : frame[l].conn = c /\ Serves(l, c) /\ (Reading(l, c) \/ CalledBack(l, c))
  BY <1>1, InCallback
<1>3. \A d \in Conns : SameView(d)
  BY <1>1 DEF SameView, connVars
<1>4. CASE frame[l].todo = <<>>
  <2>1. frame'[l] = Idle
    BY <1>1, <1>4 DEF TypeOK
  <2>2. Reports(l)'
    BY <1>1, <1>2, <1>3, <2>1, IdleFields, ReportsKept DEF connVars
  <2>3. WorkerInv(l)'
    BY <2>1, <2>2 DEF WorkerInv
  <2> QED
    BY <1>1, <2>3, OnlyWorker DEF TypeOK, queueVars
<1>5. CASE frame[l].todo # <<>>
  <2>1. frame[l] \in FrameRecord
    BY TypeParts DEF WorkerType
  <2>2. frame'[l] = [frame[l] EXCEPT !.cb = "none", !.calling = FALSE]
    BY <1>1, <1>5 DEF TypeOK
  <2>3. /\ frame'[l].todo = frame[l].todo /\ frame'[l].cb = "none"
        /\ frame'[l].conn = c /\ frame'[l].calling = FALSE
    BY <1>2, <2>1, <2>2, FrameReturned
  <2>4. Reading(l, c) /\ frame[l].todo = <<"handleWrite">>
    BY <1>2, <1>5 DEF Reading, CalledBack
  <2>5. Reports(l)'
    BY <1>1, <1>2, <1>3, <2>3, ReportsKept DEF connVars
  <2>6. Head(frame[l].todo) = "handleWrite" /\ frame[l].todo \in Dues
    BY <2>4, DueParts DEF Dues
  <2>7. Handling(l, c)'
    BY <1>1, <2>3, <2>4, <2>6 DEF Handling, Reading, connVars, queueVars
  <2>8. Serves(l, c)'
    BY <1>1, <1>2, <2>3, <2>7 DEF Serves, connVars
  <2>9. WorkerInv(l)'
    BY <2>3, <2>5, <2>8 DEF WorkerInv
  <2> QED
    BY <1>1, <2>9, OnlyWorker DEF TypeOK, queueVars
<1> QED
  BY <1>4, <1>5

-----------------------------------------------------------------------------
(* The invariant, step by step: what changes a connection.                 *)

LEMMA BudgetSpent ==
  ASSUME TypeOK, NEW c \in Conns, budget'[c] = budget[c] \/ budget'[c] = budget[c] - 1
  PROVE  /\ Called(c) => Called(c)'
         /\ Again(c) => Again(c)'
         /\ budget'[c] = budget[c] - 1 => Called(c)'
         /\ CallsOnClosed /\ Called(c) /\ budget'[c] = budget[c] - 1 => Again(c)'
<1>1. budget[c] \in Int /\ budget[c] <= MaxCalls /\ MaxCalls \in Int
  BY ServerAssumption DEF TypeOK
<1>2. Called(c) => Called(c)'
  BY <1>1 DEF Called
<1>3. Again(c) => Again(c)'
  BY <1>1 DEF Again
<1>4. budget'[c] = budget[c] - 1 => Called(c)'
  BY <1>1 DEF Called
<1>5. CallsOnClosed /\ Called(c) /\ budget'[c] = budget[c] - 1 => Again(c)'
  BY <1>1 DEF Called, Again
<1> QED
  BY <1>2, <1>3, <1>4, <1>5

\* handleClose of an open connection, as often as it is called.
LEMMA CloseKeeps ==
  ASSUME TypeOK, Good, NEW l \in Workers, NEW c \in Conns, loopOf[c] = l, Open(c, l),
         HandleClose(c),
         UNCHANGED <<nextConnId_, connections_, loopOf, state_, outputBuffer_, seen, batch, pos>>,
         budget'[c] = budget[c] \/ budget'[c] = budget[c] - 1,
         Closed(c) => Again(c)'
  PROVE  /\ ConnInv(c)' /\ QueuesFit' /\ Closed(c)'
         /\ \A d \in Conns : d # c => SameFunctors(d) /\ handler'[d] = handler[d]
<1>1. /\ handler' = [handler EXCEPT ![c] = DisableAll(handler[c])]
      /\ pending' = [pending EXCEPT ![Main] = Append(@, Rem(c))]
  BY DEF HandleClose, Rem
<1>2. l \in Loops /\ l # Main /\ Main \in Loops /\ ConnInv(c) /\ c < nextConnId_
  BY Numbers DEF Good, Open
<1>3. Rem(c) \in Functors /\ Rem(c).conn = c /\ Rem(c).op = "handleRemoveConnectionInLoop"
  BY Ops
<1>4. AddsAt(Main, Rem(c))
  BY <1>1, <1>2, <1>3, AddStep DEF TypeOK
<1>5. \A k \in Loops : k # Main => SameAt(k)
  BY <1>1, <1>2, SameStep DEF TypeOK
<1>6. \A d \in Conns : d # c => SameFunctors(d)
  BY <1>3, <1>4, <1>5, FunctorsKept DEF Apart
<1>7. QueuesFit'
  <2>1. Fits(Main, Rem(c))'
    BY <1>2, <1>3 DEF Fits
  <2> QED
    BY <1>3, <1>4, <1>5, <2>1, NextIsNat, QueuesFitKept
<1>8. /\ handler'[c].events = {} /\ Consistent(handler'[c]) /\ handler'[c].state # "NEW"
      /\ handler'[c].polled => ~handler[c].polled
      /\ \A d \in Conns : d # c => handler'[d] = handler[d]
  <2>1. UpdatedTo(handler[c], DisableAll(handler[c]), {})
    BY Setters
  <2>2. handler'[c] = DisableAll(handler[c]) /\ \A d \in Conns : d # c => handler'[d] = handler[d]
    BY <1>1 DEF TypeOK
  <2> QED
    BY <2>1, <2>2 DEF UpdatedTo
<1>9. Closed(c)'
  BY <1>8 DEF Closed
<1>10. /\ Queued(l, Est(c))' <=> Queued(l, Est(c))
       /\ Queued(l, Des(c))' <=> Queued(l, Des(c))
       /\ Twice(l, Des(c))' <=> Twice(l, Des(c))
       /\ \A k \in Workers : Queued(k, Wri(c))' => Queued(k, Wri(c))
  BY <1>2, <1>5, Numbers, Ops DEF SameAt
<1>11. Open(c, l)'
  BY <1>8, <1>10 DEF Open
<1>12. Registered(handler[c], outputBuffer_[c])'
  BY <1>8 DEF Registered
<1>13. Closing(c)'
  <2>1. Called(c) => Called(c)'
    BY BudgetSpent
  <2>2. /\ outputBuffer_'[c] => Called(c)'
        /\ \A k \in Workers : Queued(k, Wri(c))' => HasWriteCallback /\ Called(c)'
    BY <1>2, <1>10, <2>1 DEF ConnInv, Closing
  <2>3. CASE Closed(c)
    BY <2>2, <2>3 DEF Closing
  <2>4. CASE ~Closed(c)
    <3>1. "in" \in handler[c].events /\ handler[c].polled
      BY <1>2, <2>4 DEF Closed, ConnInv, Registered
    <3>2. c \in connections_ /\ ~Queued(Main, Rem(c))
      BY <3>1 DEF Open
    <3>3. ~Twice(Main, Rem(c))'
      BY <1>2, <1>3, <1>4, <3>2, TwiceIsQueued DEF AddsAt
    <3> QED
      BY <1>8, <2>2, <3>1, <3>2, <3>3 DEF Closing
  <2> QED
    BY <2>3, <2>4
<1>14. ConnInv(c)'
  BY <1>2, <1>11, <1>12, <1>13 DEF ConnInv, Life
<1> QED
  BY <1>6, <1>7, <1>8, <1>9, <1>14

LEMMA HandlerClosesKeeps ==
  ASSUME TypeOK, Good, NEW l \in Workers, HandleHangup(l) \/ ReadEof(l)
  PROVE  Good'
<1> DEFINE op == IF HandleHangup(l) THEN "handleClose" ELSE "handleRead"
<1>1. Calls(l, op)
  BY DEF HandleHangup, ReadEof
<1>2. PICK c \in Conns :
        /\ frame[l].conn = c /\ Handling(l, c) /\ Serves(l, c) /\ ConnInv(c) /\ Open(c, l)
        /\ \/ /\ NextDue(l).conn = c /\ NextDue(l).cb = "none" /\ ~NextDue(l).calling
              /\ NextDue(l).todo \in Dues /\ Head(NextDue(l).todo) = "handleRead"
              /\ op = "handleClose"
           \/ NextDue(l) = Idle
           \/ /\ NextDue(l).conn = c /\ NextDue(l).cb = "none" /\ ~NextDue(l).calling
              /\ NextDue(l).todo = <<"handleWrite">>
  <2>1. op = "handleClose" \/ op = "handleRead"
    OBVIOUS
  <2> HIDE DEF op
  <2> QED
    BY <1>1, <2>1, DueNow
<1>3. /\ HandleClose(c)
      /\ frame' = [frame EXCEPT ![l] = NextDue(l)]
      /\ UNCHANGED <<nextConnId_, connections_, loopOf, state_, outputBuffer_, seen, active, queueVars,
                     budget, idler>>
  BY <1>2 DEF HandleHangup, ReadEof, serverVars, acceptVars
<1>4. Closed(c) \/ op = "handleClose" => Again(c)
  <2>1. Head(frame[l].todo) = op /\ (op = "handleClose" \/ op = "handleRead")
    BY <1>1 DEF Calls
  <2> QED
    BY <1>2, <2>1 DEF Handling
<1>5. Again(c) => Again(c)'
  BY <1>3 DEF Again
<1>6. /\ ConnInv(c)' /\ QueuesFit' /\ Closed(c)'
      /\ \A d \in Conns : d # c => SameFunctors(d) /\ handler'[d] = handler[d]
  <2>1. loopOf[c] = l
    BY <1>2 DEF Serves
  <2> QED
    BY <1>2, <1>3, <1>4, <1>5, <2>1, CloseKeeps DEF queueVars
<1>7. \A d \in Conns : d # c => SameView(d) /\ SameConn(d)
  BY <1>3, <1>6 DEF SameView, SameConn
<1>8. frame'[l] = NextDue(l)
  BY <1>3 DEF TypeOK
<1>9. WorkerInv(l)'
  BY <1>2, <1>3, <1>4, <1>5, <1>7, <1>8, Proceeds DEF queueVars
<1>10. \A k \in Workers : k # l =>
         /\ active'[k] = active[k] /\ frame'[k] = frame[k] /\ phase'[k] = phase[k]
         /\ pos'[k] = pos[k] /\ batch'[k] = batch[k]
  BY <1>3 DEF queueVars, TypeOK
<1> QED
  BY <1>2, <1>3, <1>6, <1>7, <1>9, <1>10, OneWorker DEF Serves

\* The frame of a callback that has called something.
LEMMA GoesOnCalling ==
  ASSUME TypeOK, Good, NEW l \in Workers, NEW c \in Conns, frame[l].conn = c, Serves(l, c),
         Reading(l, c) \/ CalledBack(l, c),
         UNCHANGED <<nextConnId_, loopOf, phase, seen, pos, batch>>, active'[l] = active[l],
         \A d \in Conns : d # c => SameView(d),
         frame'[l].conn = c /\ frame'[l].cb = frame[l].cb /\ frame'[l].todo = frame[l].todo,
         frame'[l].calling /\ Closed(c)' /\ state_'[c] = "CONNECTED" => CallsOnClosed /\ Called(c)'
  PROVE  WorkerInv(l)'
<1>1. Reports(l)'
  BY ReportsKept
<1>2. Reading(l, c)' \/ CalledBack(l, c)'
  BY DEF Reading, CalledBack
<1>3. Serves(l, c)'
  BY <1>2 DEF Serves
<1> QED
  BY <1>1, <1>3 DEF WorkerInv

LEMMA ForceCloseKeeps ==
  ASSUME TypeOK, Good, NEW l \in Workers, ForceClose(l)
  PROVE  Good'
<1>1. frame[l].cb # "none" /\ frame[l].calling
  BY BusyWorker DEF ForceClose, UserCall, Busy
<1>2. PICK c \in Conns :
        /\ frame[l].conn = c /\ Serves(l, c) /\ (Reading(l, c) \/ CalledBack(l, c))
        /\ ConnInv(c) /\ (Open(c, l) \/ Gone(c, l))
  BY <1>1, InCallback
<1>3. /\ HandleClose(c) /\ state_[c] = "CONNECTED" /\ budget[c] > 0
      /\ frame' = [frame EXCEPT ![l] = [frame[l] EXCEPT !.calling = CallsAfterClose]]
      /\ budget' = [budget EXCEPT ![c] = @ - 1]
      /\ UNCHANGED <<nextConnId_, connections_, loopOf, state_, outputBuffer_, seen, active, queueVars,
                     idler>>
  BY <1>2 DEF ForceClose, UserCall, Counted, serverVars, acceptVars
<1>4. budget'[c] = budget[c] - 1 /\ \A d \in Conns : d # c => budget'[d] = budget[d]
  BY <1>3 DEF TypeOK
<1>5. Open(c, l)
  BY <1>2, <1>3 DEF Gone
<1>6. Closed(c) => Again(c)'
  <2>1. Closed(c) => CallsOnClosed /\ Called(c)
    BY <1>1, <1>2, <1>3 DEF Serves
  <2> QED
    BY <1>4, <2>1, BudgetSpent
<1>7. loopOf[c] = l
  BY <1>2 DEF Serves
<1>8. /\ ConnInv(c)' /\ QueuesFit' /\ Closed(c)'
      /\ \A d \in Conns : d # c => SameFunctors(d) /\ handler'[d] = handler[d]
  BY <1>3, <1>4, <1>5, <1>6, <1>7, CloseKeeps DEF queueVars
<1>9. \A d \in Conns : d # c => SameView(d) /\ SameConn(d)
  BY <1>3, <1>4, <1>8 DEF SameView, SameConn
<1>10. /\ frame'[l].conn = c /\ frame'[l].cb = frame[l].cb /\ frame'[l].todo = frame[l].todo
       /\ frame'[l].calling = CallsAfterClose
  <2>1. frame[l] \in FrameRecord /\ CallsAfterClose \in BOOLEAN
    BY TypeParts, ServerAssumption DEF WorkerType
  <2>2. frame'[l] = [frame[l] EXCEPT !.calling = CallsAfterClose]
    BY <1>3 DEF TypeOK
  <2> QED
    BY <1>2, <2>1, <2>2, FrameCalling
<1>11. WorkerInv(l)'
  <2>1. frame'[l].calling => CallsOnClosed
    BY <1>10 DEF CallsOnClosed
  <2>2. Called(c)'
    BY <1>4, BudgetSpent
  <2> QED
    BY <1>2, <1>3, <1>9, <1>10, <2>1, <2>2, GoesOnCalling DEF queueVars
<1>12. \A k \in Workers : k # l =>
         /\ active'[k] = active[k] /\ frame'[k] = frame[k] /\ phase'[k] = phase[k]
         /\ pos'[k] = pos[k] /\ batch'[k] = batch[k]
  BY <1>3 DEF queueVars, TypeOK
<1> QED
  BY <1>3, <1>7, <1>8, <1>9, <1>11, <1>12, OneWorker

\* The write-complete callback is queued, if there is one.
LEMMA CompletedKeeps ==
  ASSUME TypeOK, Good, NEW l \in Workers, NEW c \in Conns, loopOf[c] = l, c < nextConnId_,
         Completed(l, c), UNCHANGED <<nextConnId_, loopOf, batch, pos>>
  PROVE  /\ QueuesFit' /\ \A d \in Conns : d # c => SameFunctors(d)
         /\ Queued(l, Est(c))' <=> Queued(l, Est(c))
         /\ Queued(l, Des(c))' <=> Queued(l, Des(c))
         /\ Twice(l, Des(c))' <=> Twice(l, Des(c))
         /\ Queued(Main, Rem(c))' <=> Queued(Main, Rem(c))
         /\ Twice(Main, Rem(c))' <=> Twice(Main, Rem(c))
         /\ \A k \in Workers : Queued(k, Wri(c))' => Queued(k, Wri(c)) \/ HasWriteCallback
<1>1. /\ l \in Loops /\ l # Main /\ Main \in Loops
      /\ Wri(c) \in Functors /\ Wri(c).conn = c /\ Wri(c).op = "writeComplete"
      /\ Wri(c) # Est(c) /\ Wri(c) # Des(c)
  BY Numbers, Ops
<1>2. SameAt(l) \/ (AddsAt(l, Wri(c)) /\ HasWriteCallback)
  <2>1. CASE HasWriteCallback
    <3>1. pending' = [pending EXCEPT ![l] = Append(@, Wri(c))]
      BY <2>1 DEF Completed, Wri
    <3> QED
      BY <1>1, <2>1, <3>1, AddStep DEF TypeOK
  <2>2. CASE ~HasWriteCallback
    BY <1>1, <2>2, SameStep DEF Completed
  <2> QED
    BY <2>1, <2>2
<1>3. ASSUME NEW k \in Loops, k # l PROVE SameAt(k)
  <2>1. pending'[k] = pending[k]
    BY <1>3 DEF Completed, TypeOK
  <2> QED
    BY <2>1, SameStep
<1>4. \A d \in Conns : d # c => SameFunctors(d)
  BY <1>1, <1>2, <1>3, FunctorsKept DEF Apart
<1>5. QueuesFit'
  <2>1. Fits(l, Wri(c))'
    BY <1>1 DEF Fits
  <2> QED
    BY <1>1, <1>2, <1>3, <2>1, NextIsNat, QueuesFitKept
<1>6. /\ Queued(l, Est(c))' <=> Queued(l, Est(c))
      /\ Queued(l, Des(c))' <=> Queued(l, Des(c))
      /\ Twice(l, Des(c))' <=> Twice(l, Des(c))
  BY <1>1, <1>2, Ops DEF SameAt, AddsAt
<1>7. /\ Queued(Main, Rem(c))' <=> Queued(Main, Rem(c))
      /\ Twice(Main, Rem(c))' <=> Twice(Main, Rem(c))
  BY <1>1, <1>3, Ops DEF SameAt
<1>8. ASSUME NEW k \in Workers PROVE Queued(k, Wri(c))' => Queued(k, Wri(c)) \/ HasWriteCallback
  <2>1. CASE k = l
    BY <1>1, <1>2, <2>1 DEF SameAt, AddsAt
  <2>2. CASE k # l
    BY <1>1, <1>3, <2>2, Numbers DEF SameAt
  <2> QED
    BY <2>1, <2>2
<1> QED
  BY <1>4, <1>5, <1>6, <1>7, <1>8

LEMMA WriteRestKeeps ==
  ASSUME TypeOK, Good, NEW l \in Workers, WriteRest(l)
  PROVE  Good'
<1>1. Calls(l, "handleWrite")
  BY DEF WriteRest
<1>2. PICK c \in Conns :
        /\ frame[l].conn = c /\ Handling(l, c) /\ Serves(l, c) /\ ConnInv(c) /\ Open(c, l)
        /\ NextDue(l) = Idle
  BY <1>1, DueNow
<1>3. /\ "out" \in handler[c].events /\ outputBuffer_[c]
      /\ outputBuffer_' = [outputBuffer_ EXCEPT ![c] = FALSE]
      /\ handler' = [handler EXCEPT ![c] = Disable(handler[c], "out")]
      /\ Completed(l, c)
      /\ frame' = [frame EXCEPT ![l] = NextDue(l)]
      /\ UNCHANGED <<nextConnId_, connections_, loopOf, state_, seen, active, queueVars, budget, idler>>
  BY <1>2 DEF WriteRest, serverVars, acceptVars
<1>4. loopOf[c] = l /\ c < nextConnId_ /\ handler[c].polled
  BY <1>2, <1>3 DEF Serves, ConnInv, Registered
<1>5. /\ QueuesFit' /\ \A d \in Conns : d # c => SameFunctors(d)
      /\ Queued(l, Est(c))' <=> Queued(l, Est(c))
      /\ Queued(l, Des(c))' <=> Queued(l, Des(c))
      /\ Twice(l, Des(c))' <=> Twice(l, Des(c))
      /\ Queued(Main, Rem(c))' <=> Queued(Main, Rem(c))
      /\ Twice(Main, Rem(c))' <=> Twice(Main, Rem(c))
      /\ \A k \in Workers : Queued(k, Wri(c))' => Queued(k, Wri(c)) \/ HasWriteCallback
  BY <1>3, <1>4, CompletedKeeps DEF queueVars
<1>6. /\ handler'[c].events = handler[c].events \ {"out"} /\ Consistent(handler'[c])
      /\ handler'[c].state # "NEW"
      /\ handler[c].events \ {"out"} # {} => handler'[c].polled
      /\ handler'[c].polled => handler[c].events \ {"out"} # {}
      /\ \A d \in Conns : d # c => handler'[d] = handler[d]
  <2>1. UpdatedTo(handler[c], Disable(handler[c], "out"), handler[c].events \ {"out"})
    BY Setters DEF Events
  <2>2. /\ handler'[c] = Disable(handler[c], "out")
        /\ \A d \in Conns : d # c => handler'[d] = handler[d]
    BY <1>3 DEF TypeOK
  <2> QED
    BY <1>4, <2>1, <2>2 DEF UpdatedTo
<1>7. ~outputBuffer_'[c] /\ \A d \in Conns : d # c => outputBuffer_'[d] = outputBuffer_[d]
  BY <1>3 DEF TypeOK
<1>8. \A d \in Conns : d # c => SameView(d) /\ SameConn(d)
  BY <1>3, <1>6, <1>7 DEF SameView, SameConn
<1>9. ConnInv(c)'
  <2>1. Open(c, l)'
    BY <1>2, <1>3, <1>5, <1>6 DEF Open
  <2>2. Registered(handler[c], outputBuffer_[c])'
    BY <1>6, <1>7 DEF Registered
  <2>3. Closing(c)'
    <3>1. Closed(c)' => ~handler'[c].polled
      <4>1. handler[c].events \subseteq {"in", "out"}
        BY Setters DEF Events
      <4> QED
        BY <1>6, <4>1 DEF Closed
    <3>2. Called(c)
      BY <1>2, <1>3 DEF ConnInv, Closing
    <3>3. Closing(c)
      BY <1>2 DEF ConnInv
    <3> QED
      BY <1>3, <1>5, <1>7, <3>1, <3>2, <3>3 DEF Closing, Again, Called
  <2> QED
    BY <1>2, <1>3, <1>4, <2>1, <2>2, <2>3 DEF ConnInv, Life
<1>10. WorkerInv(l)'
  <2>1. frame'[l] = Idle
    BY <1>2, <1>3 DEF TypeOK
  <2> QED
    BY <1>2, <1>3, <1>8, <2>1, Proceeds DEF queueVars
<1>11. \A k \in Workers : k # l =>
         /\ active'[k] = active[k] /\ frame'[k] = frame[k] /\ phase'[k] = phase[k]
         /\ pos'[k] = pos[k] /\ batch'[k] = batch[k]
  BY <1>3 DEF queueVars, TypeOK
<1> QED
  BY <1>3, <1>4, <1>5, <1>8, <1>9, <1>10, <1>11, OneWorker

\* A call of a callback, from a connection that is CONNECTED.
LEMMA InCall ==
  ASSUME TypeOK, Good, NEW l \in Workers, NEW call, UserCall(l, call)
  PROVE  \E c \in Conns :
           /\ frame[l].conn = c /\ Serves(l, c) /\ (Reading(l, c) \/ CalledBack(l, c))
           /\ ConnInv(c) /\ Open(c, l) /\ loopOf[c] = l /\ c < nextConnId_
           /\ frame[l].cb # "none" /\ frame[l].calling /\ budget[c] > 0 /\ state_[c] = "CONNECTED"
           /\ Closed(c) => CallsOnClosed /\ Called(c)
<1>1. frame[l].cb # "none" /\ frame[l].calling
  BY BusyWorker DEF UserCall, Busy
<1>2. PICK c \in Conns :
        /\ frame[l].conn = c /\ Serves(l, c) /\ (Reading(l, c) \/ CalledBack(l, c))
        /\ ConnInv(c) /\ (Open(c, l) \/ Gone(c, l))
  BY <1>1, InCallback
<1>3. budget[c] > 0 /\ state_[c] = "CONNECTED"
  BY <1>2 DEF UserCall
<1> QED
  BY <1>1, <1>2, <1>3 DEF Gone, Serves

LEMMA SendAllKeeps ==
  ASSUME TypeOK, Good, NEW l \in Workers, SendAll(l)
  PROVE  Good'
<1>1. UserCall(l, "send")
  BY DEF SendAll
<1>2. PICK c \in Conns :
        /\ frame[l].conn = c /\ Serves(l, c) /\ (Reading(l, c) \/ CalledBack(l, c))
        /\ ConnInv(c) /\ Open(c, l) /\ loopOf[c] = l /\ c < nextConnId_
        /\ Closed(c) => CallsOnClosed /\ Called(c)
  BY <1>1, InCall
<1>3. /\ Completed(l, c)
      /\ budget' = [budget EXCEPT ![c] = @ - 1]
      /\ UNCHANGED <<nextConnId_, connections_, connVars, active, frame, queueVars, idler>>
  BY <1>2 DEF SendAll, Counted, serverVars, acceptVars
<1>4. budget'[c] = budget[c] - 1 /\ \A d \in Conns : d # c => budget'[d] = budget[d]
  BY <1>3 DEF TypeOK
<1>5. /\ QueuesFit' /\ \A d \in Conns : d # c => SameFunctors(d)
      /\ Queued(l, Est(c))' <=> Queued(l, Est(c))
      /\ Queued(l, Des(c))' <=> Queued(l, Des(c))
      /\ Twice(l, Des(c))' <=> Twice(l, Des(c))
      /\ Queued(Main, Rem(c))' <=> Queued(Main, Rem(c))
      /\ Twice(Main, Rem(c))' <=> Twice(Main, Rem(c))
      /\ \A k \in Workers : Queued(k, Wri(c))' => Queued(k, Wri(c)) \/ HasWriteCallback
  BY <1>2, <1>3, CompletedKeeps DEF queueVars, connVars
<1>6. Called(c)' /\ (Again(c) => Again(c)')
  BY <1>4, BudgetSpent
<1>7. \A d \in Conns : d # c => SameView(d) /\ SameConn(d)
  BY <1>3, <1>4 DEF SameView, SameConn, connVars
<1>8. ConnInv(c)'
  <2>1. Open(c, l)'
    BY <1>2, <1>3, <1>5 DEF Open, connVars
  <2>2. Closing(c)'
    BY <1>2, <1>3, <1>5, <1>6 DEF ConnInv, Closing, Closed, connVars
  <2>3. Registered(handler[c], outputBuffer_[c])'
    BY <1>2, <1>3 DEF ConnInv, connVars
  <2> QED
    BY <1>2, <1>3, <2>1, <2>2, <2>3 DEF ConnInv, Life, connVars
<1>9. WorkerInv(l)'
  BY <1>2, <1>3, <1>6, <1>7, GoesOnCalling DEF queueVars, connVars, Closed
<1> QED
  BY <1>2, <1>3, <1>5, <1>7, <1>8, <1>9, OneWorker DEF queueVars, connVars

\* A call that queues nothing.
LEMMA CallKeeps ==
  ASSUME TypeOK, Good, NEW l \in Workers, NEW c \in Conns, frame[l].conn = c, Serves(l, c),
         Reading(l, c) \/ CalledBack(l, c), Open(c, l),
         UNCHANGED <<nextConnId_, connections_, loopOf, seen, active, frame, pending, queueVars, idler>>,
         budget'[c] = budget[c] - 1, state_'[c] \in {"CONNECTED", "DISCONNECTING"},
         handler'[c].state # "NEW", Registered(handler'[c], outputBuffer_'[c]),
         "in" \in handler'[c].events <=> "in" \in handler[c].events,
         Closed(c) => CallsOnClosed, Closed(c) /\ handler'[c].polled => Again(c)',
         \A d \in Conns : d # c => SameConn(d) /\ SameView(d)
  PROVE  Good'
<1>1. loopOf[c] = l /\ l \in Loops /\ ConnInv(c)
  BY Numbers DEF Serves, Good
<1>2. \A k \in Loops : SameAt(k)
  BY SameStep DEF queueVars
<1>3. \A d \in Conns : SameFunctors(d)
  BY <1>2, FunctorsKept DEF Apart
<1>4. QueuesFit'
  BY <1>2, NextIsNat, QueuesFitKept
<1>5. Called(c)' /\ (Again(c) => Again(c)') /\ (Closed(c)' <=> Closed(c))
  BY BudgetSpent DEF Closed
<1>6. /\ Queued(l, Est(c))' <=> Queued(l, Est(c))
      /\ Queued(l, Des(c))' <=> Queued(l, Des(c))
      /\ Twice(l, Des(c))' <=> Twice(l, Des(c))
      /\ Queued(Main, Rem(c))' <=> Queued(Main, Rem(c))
      /\ Twice(Main, Rem(c))' <=> Twice(Main, Rem(c))
      /\ \A k \in Workers : Queued(k, Wri(c))' <=> Queued(k, Wri(c))
  BY <1>1, <1>2, Numbers, Ops DEF SameAt
<1>7. Open(c, l)'
  BY <1>6 DEF Open
<1>8. Closing(c)'
  BY <1>1, <1>5, <1>6 DEF ConnInv, Closing
<1>9. ConnInv(c)'
  BY <1>1, <1>7, <1>8 DEF ConnInv, Life
<1>10. WorkerInv(l)'
  BY <1>1, <1>5, GoesOnCalling DEF queueVars
<1> QED
  BY <1>1, <1>3, <1>4, <1>9, <1>10, OneWorker DEF queueVars

LEMMA ShutdownKeeps ==
  ASSUME TypeOK, Good, NEW l \in Workers, Shutdown(l)
  PROVE  Good'
<1>1. UserCall(l, "shutdown")
  BY DEF Shutdown
<1>2. PICK c \in Conns :
        /\ frame[l].conn = c /\ Serves(l, c) /\ (Reading(l, c) \/ CalledBack(l, c))
        /\ ConnInv(c) /\ Open(c, l) /\ loopOf[c] = l
        /\ Closed(c) => CallsOnClosed /\ Called(c)
  BY <1>1, InCall
<1>3. /\ state_' = [state_ EXCEPT ![c] = "DISCONNECTING"]
      /\ budget' = [budget EXCEPT ![c] = @ - 1]
      /\ UNCHANGED <<nextConnId_, connections_, loopOf, outputBuffer_, handler, seen, active, frame,
                     pending, queueVars, idler>>
  BY <1>2 DEF Shutdown, Counted, serverVars, acceptVars
<1>4. /\ budget'[c] = budget[c] - 1 /\ \A d \in Conns : d # c => budget'[d] = budget[d]
      /\ state_'[c] = "DISCONNECTING" /\ \A d \in Conns : d # c => state_'[d] = state_[d]
  BY <1>3 DEF TypeOK
<1>5. \A d \in Conns : d # c => SameView(d) /\ SameConn(d)
  BY <1>3, <1>4 DEF SameView, SameConn
<1>6. Closed(c) /\ handler'[c].polled => Again(c)'
  BY <1>2, <1>4, BudgetSpent
<1>7. handler'[c].state # "NEW" /\ Registered(handler'[c], outputBuffer_'[c])
  BY <1>2, <1>3 DEF Open, ConnInv
<1> QED
  BY <1>2, <1>3, <1>4, <1>5, <1>6, <1>7, CallKeeps

LEMMA SendSomeKeeps ==
  ASSUME TypeOK, Good, NEW l \in Workers, SendSome(l)
  PROVE  Good'
<1>1. UserCall(l, "send")
  BY DEF SendSome
<1>2. PICK c \in Conns :
        /\ frame[l].conn = c /\ Serves(l, c) /\ (Reading(l, c) \/ CalledBack(l, c))
        /\ ConnInv(c) /\ Open(c, l) /\ loopOf[c] = l /\ state_[c] = "CONNECTED"
        /\ Closed(c) => CallsOnClosed /\ Called(c)
  BY <1>1, InCall
<1>3. /\ outputBuffer_' = [outputBuffer_ EXCEPT ![c] = TRUE]
      /\ \/ "out" \in handler[c].events /\ handler' = handler
         \/ handler' = [handler EXCEPT ![c] = Enable(handler[c], "out")]
      /\ budget' = [budget EXCEPT ![c] = @ - 1]
      /\ UNCHANGED <<nextConnId_, connections_, loopOf, state_, seen, active, frame,
                     pending, queueVars, idler>>
  BY <1>2 DEF SendSome, Counted, serverVars, acceptVars
<1>4. /\ budget'[c] = budget[c] - 1 /\ \A d \in Conns : d # c => budget'[d] = budget[d]
      /\ outputBuffer_'[c] = TRUE /\ \A d \in Conns : d # c => outputBuffer_'[d] = outputBuffer_[d]
  BY <1>3 DEF TypeOK
<1>5. /\ Consistent(handler'[c]) /\ handler'[c].state # "NEW" /\ handler'[c].polled
      /\ "out" \in handler'[c].events
      /\ "in" \in handler'[c].events <=> "in" \in handler[c].events
      /\ \A d \in Conns : d # c => handler'[d] = handler[d]
  <2>1. CASE "out" \in handler[c].events /\ handler' = handler
    BY <1>2, <2>1 DEF Open, ConnInv, Registered
  <2>2. CASE handler' = [handler EXCEPT ![c] = Enable(handler[c], "out")]
    <3>1. UpdatedTo(handler[c], Enable(handler[c], "out"), handler[c].events \cup {"out"})
      BY Setters DEF Events
    <3>2. /\ handler'[c] = Enable(handler[c], "out")
          /\ \A d \in Conns : d # c => handler'[d] = handler[d]
      BY <2>2 DEF TypeOK
    <3> QED
      BY <3>1, <3>2 DEF UpdatedTo
  <2> QED
    BY <1>3, <2>1, <2>2
<1>6. \A d \in Conns : d # c => SameView(d) /\ SameConn(d)
  BY <1>3, <1>4, <1>5 DEF SameView, SameConn
<1>7. Closed(c) /\ handler'[c].polled => Again(c)'
  BY <1>2, <1>4, BudgetSpent
<1>8. Registered(handler'[c], outputBuffer_'[c])
  BY <1>4, <1>5 DEF Registered
<1>9. state_'[c] \in {"CONNECTED", "DISCONNECTING"}
  BY <1>2, <1>3
<1> QED
  BY <1>2, <1>3, <1>4, <1>5, <1>6, <1>7, <1>8, <1>9, CallKeeps

-----------------------------------------------------------------------------
(* The theorems.                                                           *)

LEMMA WorkerStepKeeps ==
  ASSUME TypeOK, Good, NEW l \in Workers, WorkerStep(l), status' = "up"
  PROVE  Good'
<1>1. CASE \E c \in Conns : ConnectEstablished(l, c) \/ ConnectDestroyed(l, c)
                            \/ WriteComplete(l, c) \/ RunShutdownInLoop(l, c)
  BY <1>1, EstablishedKeeps, DestroyedKeeps, WriteCompleteKeeps, ShutdownInLoopKeeps
<1>2. CASE SwapPending(l) \/ FinishBatch(l)
  BY <1>2, Numbers, BatchKeeps
<1>3. CASE \/ Poll(l) \/ HandleEvents(l)
           \/ HandleHangup(l) \/ ReadMessage(l) \/ ReadError(l) \/ ReadEof(l)
           \/ WriteSome(l) \/ WriteRest(l)
  BY <1>3, PollKeeps, HandleEventsKeeps, HandlerClosesKeeps, ReadMessageKeeps, ReadErrorKeeps,
     WriteRestKeeps
<1>4. CASE SendAll(l) \/ SendSome(l) \/ Shutdown(l) \/ ForceClose(l) \/ CallbackReturns(l)
  BY <1>4, SendAllKeeps, SendSomeKeeps, ShutdownKeeps, ForceCloseKeeps, CallbackReturnsKeeps
<1> QED
  BY <1>1, <1>2, <1>3, <1>4 DEF WorkerStep

LEMMA MainStepKeeps ==
  ASSUME TypeOK, Good, IdleTimer \/ MainStep, status' = "up"
  PROVE  Good'
<1>1. CASE IdleTimer
  BY <1>1, IdleTestKeeps DEF IdleTimer
<1>2. CASE Start
  BY <1>2, PeerKeeps
<1>3. CASE AcceptConnection
  <2>1. nextConnId_ \in 1 .. MaxConns + 1 /\ backlog \in 0 .. MaxConns + 1 - nextConnId_
        /\ backlog > 0 /\ next_ \in Workers
    BY <1>3 DEF AcceptConnection, AcceptOldest, TypeOK
  <2>2. nextConnId_ \in Conns
    BY <2>1, ServerAssumption DEF Conns
  <2>3. PICK c \in Conns, k \in Workers : nextConnId_ = c /\ next_ = k
    BY <2>1, <2>2
  <2> QED
    BY <1>3, <2>3, AcceptKeeps
<1>4. CASE IdleSet \/ IdleQueue
  <2>1. PICK c \in Conns : idler.conn = c
    BY <1>4 DEF IdleSet, IdleQueue, Good, IdlerFits
  <2> QED
    BY <1>4, <2>1, IdleSetKeeps, IdleQueueKeeps
<1>5. CASE SwapPending(Main) \/ FinishBatch(Main)
  BY <1>5, Numbers, BatchKeeps
<1>6. ASSUME NEW c \in Conns, HandleRemoveConnectionInLoop(c) PROVE Good'
  <2>1. c < nextConnId_
    BY <1>6, Numbers, Ops, Run DEF HandleRemoveConnectionInLoop
  <2>2. PICK l \in Workers : loopOf[c] = l
    BY <2>1 DEF Good, ConnInv
  <2> QED
    BY <1>6, <2>2, RemoveKeeps
<1> QED
  BY <1>1, <1>2, <1>3, <1>4, <1>5, <1>6 DEF MainStep

LEMMA InitFits == Init => ServerInv
<1> SUFFICES ASSUME Init PROVE ServerInv
  OBVIOUS
<1>1. <<>> \in Seq(Functors) /\ <<>> \in Seq({"up", "down"}) /\ Len(<<>>) = 0
  BY EmptySeq
<1>2. AcceptType
  <2>1. 1 \in 1 .. MaxConns + 1 /\ 0 \in 0 .. MaxConns + 1 - 1 /\ 1 \in 1 .. ThreadNum
    BY ServerAssumption
  <2> QED
    BY <2>1, Numbers DEF Init, AcceptType, Workers
<1>3. ConnType
  <2>1. MaxCalls \in 0 .. MaxCalls
    BY ServerAssumption
  <2> QED
    BY <1>1, <2>1, NewIsRegistered DEF Init, ConnType, ConnStates
<1>4. NetType
  <2>1. 0 \in 0 .. MaxMsgs
    BY ServerAssumption
  <2> QED
    BY <2>1 DEF Init, NetType, NetRecord
<1>5. IdlerType
  BY DEF Init, IdlerType
<1>6. QueueType
  BY <1>1 DEF Init, QueueType
<1>7. WorkerType
  BY IdleFrame, Numbers DEF Init, WorkerType
<1>8. TypeOK
  BY <1>2, <1>3, <1>4, <1>5, <1>6, <1>7, TypeParts
<1>9. \A l \in Loops, f \in Functors : ~Queued(l, f) /\ ~Twice(l, f) /\ ~Bound(l, f)
  <2>1. \A f : ~In(<<>>, 0, f) /\ ~Two(<<>>, 0, f)
    BY EmptyQueue
  <2> QED
    BY <2>1 DEF Init, Queued, Twice, Bound
<1>10. QueuesFit /\ IdlerFits
  BY <1>9 DEF QueuesFit, IdlerFits, Init
<1>11. ASSUME NEW c \in Conns PROVE ConnInv(c)
  <2>1. c >= nextConnId_ /\ ~(c < nextConnId_)
    BY Numbers DEF Init
  <2>2. Unused(c) /\ c \notin connections_
    BY DEF Init, Unused
  <2>3. Registered(handler[c], outputBuffer_[c])
    BY NewIsRegistered DEF Init, Registered
  <2>4. Closing(c)
    BY <1>9, <2>2, Numbers, Ops, NewIsRegistered DEF Closing, Unused
  <2> QED
    BY <2>1, <2>2, <2>3, <2>4 DEF ConnInv, Life, Fresh
<1>12. \A l \in Workers : WorkerInv(l)
  BY DEF Init, WorkerInv, Reports
<1> QED
  BY <1>8, <1>10, <1>11, <1>12 DEF ServerInv, Good

\* The inductive invariant: while the process is up, every queued functor belongs to the
\* loop that runs it, every connection is in a stage of its life, its registration is
\* consistent, and whatever is to be closed a second time has been called for.
THEOREM ServerInvariant == Spec => []ServerInv
<1>1. Init => ServerInv
  BY InitFits
<1>2. ServerInv /\ [Next]_vars => ServerInv'
  <2> SUFFICES ASSUME ServerInv, [Next]_vars PROVE ServerInv'
    OBVIOUS
  <2>1. TypeOK'
    BY TypeStep DEF ServerInv
  <2>2. ASSUME status' = "up" PROVE Good'
    <3>1. CASE UNCHANGED vars
      <4>1. UNCHANGED <<status, nextConnId_, connections_, connVars, active, frame, pending, queueVars,
                        budget, idler>>
        BY <3>1 DEF vars, serverVars, acceptVars
      <4> QED
        BY <2>2, <4>1, Untouched DEF ServerInv
    <3>2. CASE Next
      <4>1. TypeOK /\ Good
        BY <3>2, OnlyWhileUp DEF ServerInv
      <4> QED
        BY <2>2, <3>2, <4>1, PeerKeeps, MainStepKeeps, WorkerStepKeeps DEF Next
    <3> QED
      BY <3>1, <3>2
  <2> QED
    BY <2>1, <2>2 DEF ServerInv
<1> QED
  BY <1>1, <1>2, PTL DEF Spec

\* Every variable has its type, a worker's handlers are served and its callbacks run in
\* the phase they belong to, and a batch exists only while it is run.
THEOREM TypeCorrect == Spec => []TypeOK
<1>1. ServerInv => TypeOK
  BY DEF ServerInv
<1> QED
  BY <1>1, ServerInvariant, PTL

\* Handler, handlerList_ and the kernel's interest list agree on every connection, and an
\* open one waits for EPOLLOUT exactly while it has output (Handler::update, send,
\* handleWrite).
THEOREM RegistrationsAgree == Spec => []RegistrationConsistent
<1>1. ServerInv => RegistrationConsistent
  BY DEF ServerInv, Good, ConnInv, Registered, RegistrationConsistent
<1> QED
  BY <1>1, ServerInvariant, PTL

\* Main erases a connection before the worker it was given to destroys it, and that one
\* does (TcpServer::handleRemoveConnectionInLoop, TcpConnection::connectDestroyed).
THEOREM RemovedFirst == Spec => []RemovedBeforeDestroyed
<1>1. ServerInv => RemovedBeforeDestroyed
  <2> SUFFICES ASSUME ServerInv, status = "up", NEW c \in 1 .. nextConnId_ - 1,
                      NEW l \in Loops, loopOf[c] = l
               PROVE  c \notin connections_ <=>
                        \/ Len(seen[c]) = 2
                        \/ \E i \in DOMAIN pending[l] : pending[l][i] = Functor("connectDestroyed", c)
                        \/ \E i \in DOMAIN batch[l] :
                             i > pos[l] /\ batch[l][i] = Functor("connectDestroyed", c)
    <3>1. ServerInv => \A c \in 1 .. nextConnId_ - 1 : loopOf[c] \in Loops
      <4> SUFFICES ASSUME ServerInv, NEW c \in 1 .. nextConnId_ - 1 PROVE loopOf[c] \in Loops
        OBVIOUS
      <4>1. nextConnId_ \in 1 .. MaxConns + 1
        BY DEF ServerInv, TypeOK
      <4>2. c \in Conns
        BY <4>1, ServerAssumption DEF Conns
      <4> QED
        BY <4>2 DEF ServerInv, TypeOK
    <3> QED
      BY <3>1 DEF RemovedBeforeDestroyed
  <2>1. TypeOK /\ Good /\ nextConnId_ \in 1 .. MaxConns + 1
    BY DEF ServerInv, TypeOK
  <2>2. c \in Conns /\ ~(c >= nextConnId_)
    BY <2>1, ServerAssumption DEF Conns
  <2>3. Coming(c, l) \/ Open(c, l) \/ Gone(c, l)
    BY <2>1, <2>2 DEF Good, ConnInv, Life, Fresh
  <2>4. Len(<<>>) # 2 /\ Len(<<"up">>) # 2 /\ Len(<<"up", "down">>) = 2
    OBVIOUS
  <2>5. c \notin connections_ <=> Len(seen[c]) = 2 \/ Queued(l, Des(c))
    BY <2>3, <2>4 DEF Coming, Open, Gone, Unused
  <2>6. Queued(l, Des(c)) <=>
          \/ \E i \in DOMAIN pending[l] : pending[l][i] = Des(c)
          \/ \E i \in DOMAIN batch[l] : i > pos[l] /\ batch[l][i] = Des(c)
    <3>1. \A i \in DOMAIN pending[l] : i > 0
      BY <2>1, QueueTypes, LenProperties
    <3> QED
      BY <3>1 DEF Queued, In
  <2> QED
    BY <2>5, <2>6 DEF Des
<1> QED
  BY <1>1, ServerInvariant, PTL

\* Whoever has a connection's functor bound to its shared_ptr to run holds it.
LEMMA HeldByFunctor ==
  ASSUME TypeOK, NEW c \in Conns, c < nextConnId_, NEW l \in Loops, NEW o \in SharedOps,
         Queued(l, Functor(o, c))
  PROVE  Alive(c)
<1>1. Functor(o, c).conn = c /\ Functor(o, c).op = o
  BY FunctorFields
<1>2. SharedFunctor(pending[l], c) \/ SharedFunctor(batch[l], c)
  BY <1>1 DEF Queued, In, SharedFunctor
<1> QED
  BY <1>2 DEF Alive, Referenced

LEMMA OpenIsAlive ==
  ASSUME TypeOK, NEW c \in Conns, NEW l \in Loops, Open(c, l)
  PROVE  Alive(c)
<1>1. c \in connections_ \/ Queued(l, Des(c))
  BY DEF Open
<1>2. CASE c \in connections_
  BY <1>2 DEF Open, Alive, Referenced
<1>3. CASE Queued(l, Des(c))
  BY <1>3, Ops, HeldByFunctor DEF Open, Des
<1> QED
  BY <1>1, <1>2, <1>3

\* A Poller never holds the Handler of a destroyed connection, and no handler of one is
\* left to serve (Poller::handlerList_, EventLoop::activeHandlers_).
THEOREM NoHandlerDangles == Spec => []NoDanglingHandler
<1>1. ServerInv => NoDanglingHandler
  <2> SUFFICES ASSUME ServerInv, status = "up"
               PROVE  /\ \A c \in Conns : handler[c].listed => Alive(c)
                      /\ \A l \in Workers : \A a \in active[l] : Alive(a.conn)
    BY DEF NoDanglingHandler
  <2>1. TypeOK /\ Good
    BY DEF ServerInv
  <2>2. ASSUME NEW c \in Conns, handler[c].listed PROVE Alive(c)
    <3>1. PICK l \in Loops : loopOf[c] = l
      BY <2>1 DEF TypeOK
    <3>2. handler[c].state # "NEW" /\ Life(c, l)
      BY <2>1, <2>2, <3>1 DEF Good, ConnInv, Registered, Consistent
    <3>3. Open(c, l)
      BY <3>2, NewIsRegistered DEF Life, Fresh, Coming, Gone, Unused
    <3> QED
      BY <2>1, <3>3, OpenIsAlive
  <2>3. ASSUME NEW l \in Workers, NEW a \in active[l] PROVE Alive(a.conn)
    <3>1. PICK c \in Conns : a.conn = c
      BY <2>1, <2>3, TypeParts DEF WorkerType, ReportRecord
    <3>2. loopOf[c] = l /\ seen[c] = <<"up">> /\ l \in Loops
      BY <2>1, <3>1, Numbers DEF Good, WorkerInv, Reports, Reported
    <3>3. Open(c, l)
      BY <2>1, <3>2, SeenIsUp, Sayings DEF Gone
    <3> QED
      BY <2>1, <3>1, <3>2, <3>3, OpenIsAlive
  <2> QED
    BY <2>2, <2>3
<1> QED
  BY <1>1, ServerInvariant, PTL

LEMMA NotEnded ==
  ASSUME status = "up", NEW c, Alive(c), NEW name, status' = Outcome(c, FALSE, name)
  PROVE  status' = "up"
  BY DEF Outcome

\* The removal of a connection that is gone ends the process only if the program called
\* it after it was closed.
LEMMA RemovalExplained ==
  ASSUME TypeOK, Good, status = "up", NEW c \in Conns, HandleRemoveConnectionInLoop(c)
  PROVE  EndsAreExplained'
<1>1. /\ Runs(Main, "handleRemoveConnectionInLoop", c)
      /\ status' = Outcome(c, c \notin connections_, "assert(n == 1)")
      /\ UNCHANGED <<batch, budget>>
  BY DEF HandleRemoveConnectionInLoop
<1>2. Queued(Main, Rem(c)) /\ c < nextConnId_ /\ pos'[Main] = pos[Main] + 1
  BY <1>1, Numbers, Ops, Run DEF Rem
<1>3. Alive(c)
  BY <1>2, Numbers, Ops, HeldByFunctor DEF Rem
<1>4. status' = "up" \/ (status' = "assert(n == 1)" /\ c \notin connections_)
  BY <1>1, <1>3 DEF Outcome
<1>5. c \notin connections_ => Again(c)
  BY <1>2 DEF Good, ConnInv, Closing
<1>6. Just(Main)'.conn = c
  <2>1. batch[Main][pos[Main] + 1] = Rem(c)
    BY <1>1 DEF Runs, Rem
  <2>2. Just(Main)' = Rem(c)
    BY <1>1, <1>2, <2>1 DEF Just
  <2> QED
    BY <2>2, Ops
<1>7. CASE status' = "up"
  BY <1>7 DEF EndsAreExplained
<1>8. CASE status' = "assert(n == 1)" /\ c \notin connections_
  <2>1. CallsOnClosed /\ budget'[Just(Main)'.conn] + 2 <= MaxCalls
    BY <1>1, <1>5, <1>6, <1>8 DEF Again
  <2> QED
    BY <1>8, <2>1 DEF EndsAreExplained, CallsOnClosed
<1> QED
  BY <1>4, <1>7, <1>8

\* Of the functors of a worker, only the one with a raw `this' can end the process.
LEMMA FunctorExplained ==
  ASSUME TypeOK, Good, status = "up", NEW l \in Workers, NEW c \in Conns,
         ConnectEstablished(l, c) \/ ConnectDestroyed(l, c) \/ WriteComplete(l, c)
           \/ RunShutdownInLoop(l, c)
  PROVE  EndsAreExplained'
<1>1. CASE ConnectEstablished(l, c)
  <2>1. /\ Runs(l, "connectEstablished", c)
        /\ status' = Outcome(c, state_[c] # "CONNECTING" \/ UpdateFails(handler[c]),
                             "connectEstablished failed")
    BY <1>1 DEF ConnectEstablished
  <2>2. l \in Loops /\ Queued(l, Est(c)) /\ c < nextConnId_ /\ Fits(l, Est(c))
    BY <2>1, Numbers, Ops, Run DEF Est
  <2>3. Alive(c) /\ loopOf[c] = l /\ ~(c >= nextConnId_)
    <3>1. Alive(c)
      BY <2>2, Ops, HeldByFunctor DEF Est
    <3>2. loopOf[c] = l
      BY <2>2, Ops DEF Fits
    <3> QED
      BY <2>2, <3>1, <3>2, Numbers, NextIsNat
  <2>4. Coming(c, l)
    BY <2>2, <2>3 DEF Good, ConnInv, Life, Fresh, Open, Gone
  <2>5. ~UpdateFails(handler[c])
    BY Setters DEF UpdatedTo
  <2>6. status' = "up"
    BY <2>1, <2>3, <2>4, <2>5 DEF Coming, Unused, Outcome
  <2> QED
    BY <2>6 DEF EndsAreExplained
<1>2. CASE ConnectDestroyed(l, c)
  <2>1. /\ Runs(l, "connectDestroyed", c)
        /\ status' = Outcome(c, UpdateFails(handler[c]) \/ RemoveFails(DisableAll(handler[c])),
                             "connectDestroyed failed")
    BY <1>2 DEF ConnectDestroyed
  <2>2. l \in Loops /\ Queued(l, Des(c)) /\ c < nextConnId_
    BY <2>1, Numbers, Ops, Run DEF Des
  <2>3. Alive(c)
    BY <2>2, Ops, HeldByFunctor DEF Des
  <2>4. ~UpdateFails(handler[c]) /\ ~RemoveFails(DisableAll(handler[c]))
    BY <1>2, DestroyedKeeps
  <2>5. status' = "up"
    BY <2>1, <2>3, <2>4 DEF Outcome
  <2> QED
    BY <2>5 DEF EndsAreExplained
<1>3. CASE WriteComplete(l, c)
  BY <1>3 DEF WriteComplete, EndsAreExplained
<1>4. CASE RunShutdownInLoop(l, c)
  <2>1. /\ Runs(l, "shutdownInLoop", c) /\ ShutdownInLoop(c)
        /\ UNCHANGED <<nextConnId_, connections_, frame, pending, batch, idler>>
    BY <1>4 DEF RunShutdownInLoop, serverVars, acceptVars
  <2>2. pos'[l] = pos[l] + 1 /\ pos'[l] > 0
    <3>1. pos'[l] = pos[l] + 1 /\ pos[l] \in Nat
      BY <2>1, Numbers, Ops, Run DEF TypeOK
    <3> QED
      BY <3>1
  <2>3. Just(l)' = Functor("shutdownInLoop", c)
    BY <2>1, <2>2 DEF Just, Runs
  <2>4. Just(l)'.op \in RawOps /\ Just(l)'.conn = c
    BY <2>3, FunctorFields DEF RawOps
  <2>5. Alive(c)' <=> Alive(c)
    BY <2>1 DEF Alive, Referenced, SharedFunctor
  <2>6. CASE ~Alive(c)
    <3>1. status' = "use after free"
      BY <2>1, <2>6 DEF ShutdownInLoop, ShutdownWrite, Outcome
    <3>2. ~Alive(Just(l).conn)'
      BY <2>4, <2>5, <2>6
    <3> QED
      BY <2>2, <2>4, <3>1, <3>2 DEF EndsAreExplained
  <2>7. CASE Alive(c)
    <3>1. status' = "up" \/ (status' = "shutdownWrite failed" /\ ShutdownFails(c))
      BY <2>1, <2>7 DEF ShutdownInLoop, ShutdownWrite, Outcome
    <3>2. ShutdownFails(c) => ShutdownFails(c)'
      BY <2>1, TypeParts, ShutdownWritten DEF ShutdownFails
    <3> QED
      BY <3>1, <3>2 DEF EndsAreExplained
  <2> QED
    BY <2>6, <2>7
<1> QED
  BY <1>1, <1>2, <1>3, <1>4

\* handleClose ends the process only if the connection has been shut down.
LEMMA CloseExplained ==
  ASSUME TypeOK, Good, status = "up", NEW l \in Loops, NEW c \in Conns, Open(c, l),
         HandleClose(c), UNCHANGED state_
  PROVE  EndsAreExplained'
<1>1. Alive(c) /\ ~UpdateFails(handler[c])
  BY OpenIsAlive, Setters DEF UpdatedTo
<1>2. status' = "up" \/ (status' = "handleClose failed" /\ state_[c] = "DISCONNECTING")
  BY <1>1 DEF HandleClose, Outcome, Open
<1> QED
  BY <1>2 DEF EndsAreExplained

LEMMA HandlerExplained ==
  ASSUME TypeOK, Good, status = "up", NEW l \in Workers,
         \/ HandleEvents(l)
         \/ HandleHangup(l) \/ ReadMessage(l) \/ ReadError(l) \/ ReadEof(l)
         \/ WriteSome(l) \/ WriteRest(l)
  PROVE  EndsAreExplained'
<1>1. l \in Loops
  BY Numbers
<1>2. CASE HandleEvents(l)
  <2>1. PICK a \in active[l] : status' = Outcome(a.conn, FALSE, "")
    BY <1>2 DEF HandleEvents
  <2>2. PICK c \in Conns : a.conn = c
    <3>1. \A b \in active[l] : b.conn \in Conns
      BY TypeParts DEF WorkerType, ReportRecord
    <3> QED
      BY <2>1, <3>1
  <2>3. loopOf[c] = l /\ seen[c] = <<"up">>
    BY <2>1, <2>2 DEF Good, WorkerInv, Reports, Reported
  <2>4. Alive(c)
    BY <1>1, <2>3, SeenIsUp, Sayings, OpenIsAlive DEF Gone
  <2>5. status' = "up"
    BY <2>1, <2>2, <2>4, NotEnded
  <2> QED
    BY <2>5 DEF EndsAreExplained
<1>3. CASE \/ HandleHangup(l) \/ ReadMessage(l) \/ ReadError(l) \/ ReadEof(l)
           \/ WriteSome(l) \/ WriteRest(l)
  <2>1. \E op : Calls(l, op)
    BY <1>3 DEF HandleHangup, ReadMessage, ReadError, ReadEof, WriteSome, WriteRest
  <2>2. PICK c \in Conns : frame[l].conn = c /\ Open(c, l)
    BY <2>1, DueNow
  <2>3. Alive(c) /\ ~UpdateFails(handler[c])
    BY <1>1, <2>2, OpenIsAlive, Setters DEF UpdatedTo
  <2>4. CASE HandleHangup(l) \/ ReadEof(l)
    <3>1. HandleClose(c) /\ UNCHANGED state_
      BY <2>2, <2>4 DEF HandleHangup, ReadEof
    <3> QED
      BY <1>1, <2>2, <3>1, CloseExplained
  <2>5. CASE ReadMessage(l) \/ ReadError(l) \/ WriteSome(l)
    <3>1. status' = Outcome(c, FALSE, "")
      BY <2>2, <2>5 DEF ReadMessage, ReadError, WriteSome
    <3>2. status' = "up"
      BY <2>3, <3>1, NotEnded
    <3> QED
      BY <3>2 DEF EndsAreExplained
  <2>6. CASE WriteRest(l)
    <3>1. status' = Outcome(c, UpdateFails(handler[c]), "handleWrite failed")
      BY <2>2, <2>6 DEF WriteRest
    <3>2. status' = "up"
      BY <2>3, <3>1 DEF Outcome
    <3> QED
      BY <3>2 DEF EndsAreExplained
  <2> QED
    BY <1>3, <2>4, <2>5, <2>6
<1> QED
  BY <1>2, <1>3

LEMMA CallExplained ==
  ASSUME TypeOK, Good, status = "up", NEW l \in Workers,
         SendSome(l) \/ Shutdown(l) \/ ForceClose(l)
  PROVE  EndsAreExplained'
<1>1. l \in Loops /\ \E call : UserCall(l, call)
  BY Numbers DEF SendSome, Shutdown, ForceClose
<1>2. PICK c \in Conns : frame[l].conn = c /\ Open(c, l)
  BY <1>1, InCall
<1>3. Alive(c) /\ ~UpdateFails(handler[c])
  BY <1>1, <1>2, OpenIsAlive, Setters DEF UpdatedTo
<1>4. CASE SendSome(l)
  <2>1. status' = Outcome(c, "out" \notin handler[c].events /\ UpdateFails(handler[c]), "send failed")
    BY <1>2, <1>4 DEF SendSome
  <2>2. status' = "up"
    BY <1>3, <2>1 DEF Outcome
  <2> QED
    BY <2>2 DEF EndsAreExplained
<1>5. CASE Shutdown(l)
  <2>1. ShutdownInLoop(c)
    BY <1>2, <1>5 DEF Shutdown
  <2>2. status' = "up" \/ (status' = "shutdownWrite failed" /\ ShutdownFails(c))
    BY <1>3, <2>1 DEF ShutdownInLoop, ShutdownWrite, Outcome
  <2>3. ShutdownFails(c) => ShutdownFails(c)'
    BY <2>1, TypeParts, ShutdownWritten DEF ShutdownFails
  <2> QED
    BY <2>2, <2>3 DEF EndsAreExplained
<1>6. CASE ForceClose(l)
  <2>1. HandleClose(c) /\ UNCHANGED state_
    BY <1>2, <1>6 DEF ForceClose
  <2> QED
    BY <1>1, <1>2, <2>1, CloseExplained
<1> QED
  BY <1>4, <1>5, <1>6

LEMMA StaysEnded == ASSUME EndsAreExplained, UNCHANGED vars PROVE EndsAreExplained'
<1>1. \A c : Alive(c)' <=> Alive(c)
  BY DEF Alive, Referenced, SharedFunctor, vars, serverVars, acceptVars, queueVars
<1>2. \A c : ShutdownFails(c)' <=> ShutdownFails(c)
  BY DEF ShutdownFails, vars
<1>3. UNCHANGED <<status, batch, pos, budget, state_>>
  BY DEF vars, queueVars, connVars
<1>4. CASE status = "use after free"
  <2>1. PICK l \in Workers : pos[l] > 0 /\ Just(l).op \in RawOps /\ ~Alive(Just(l).conn)
    BY <1>4 DEF EndsAreExplained
  <2>2. Just(l)' = Just(l) /\ ~Alive(Just(l).conn)'
    BY <1>1, <1>3, <2>1 DEF Just
  <2> QED
    BY <1>3, <1>4, <2>1, <2>2 DEF EndsAreExplained
<1>5. CASE status = "assert(n == 1)"
  BY <1>3, <1>5 DEF EndsAreExplained, Just
<1>6. CASE status # "use after free" /\ status # "assert(n == 1)"
  BY <1>2, <1>3, <1>6 DEF EndsAreExplained
<1> QED
  BY <1>4, <1>5, <1>6

\* Whatever the program calls, and whenever, the process only ends in the four ways
\* this code knows, and for their reasons (the asserts, LOG_SYSFATAL and raw functors of
\* TcpServer and TcpConnection).
THEOREM EndsExplained == Spec => []EndsAreExplained
<1>1. Init => EndsAreExplained
  BY DEF Init, EndsAreExplained
<1>2. ServerInv /\ EndsAreExplained /\ [Next]_vars => EndsAreExplained'
  <2> SUFFICES ASSUME ServerInv, EndsAreExplained, Next PROVE EndsAreExplained'
    BY StaysEnded
  <2>1. TypeOK /\ Good /\ status = "up"
    BY OnlyWhileUp DEF ServerInv
  <2>2. status' = "up" => EndsAreExplained'
    BY DEF EndsAreExplained
  <2>3. CASE PeerStep \/ IdleTimer
    BY <2>1, <2>2, <2>3 DEF PeerStep, PeerConnect, PeerSend, PeerClose, PeerReset, IdleTimer, IdleTest
  <2>4. CASE MainStep
    <3>1. CASE \E c \in Conns : HandleRemoveConnectionInLoop(c)
      BY <2>1, <3>1, RemovalExplained
    <3>2. CASE ~\E c \in Conns : HandleRemoveConnectionInLoop(c)
      BY <2>1, <2>2, <2>4, <3>2 DEF MainStep, Start, AcceptConnection, IdleSet, IdleQueue,
         SwapPending, FinishBatch
    <3> QED
      BY <3>1, <3>2
  <2>5. ASSUME NEW l \in Workers, WorkerStep(l) PROVE EndsAreExplained'
    <3>1. CASE Poll(l) \/ SwapPending(l) \/ FinishBatch(l) \/ SendAll(l) \/ CallbackReturns(l)
      BY <2>1, <2>2, <3>1 DEF Poll, SwapPending, FinishBatch, SendAll, CallbackReturns
    <3>2. CASE ~(Poll(l) \/ SwapPending(l) \/ FinishBatch(l) \/ SendAll(l) \/ CallbackReturns(l))
      BY <2>1, <2>5, <3>2, FunctorExplained, HandlerExplained, CallExplained DEF WorkerStep
    <3> QED
      BY <3>1, <3>2
  <2> QED
    BY <2>3, <2>4, <2>5 DEF Next
<1> QED
  BY <1>1, <1>2, ServerInvariant, PTL DEF Spec

-----------------------------------------------------------------------------
(* What follows from the steps alone.                                      *)

\* A FIN is sent with the buffer empty: TcpConnection::shutdownInLoop sends it only if
\* nothing waits to be written, handleWrite only when it has written everything.
LEMMA ShutWhenFlushed ==
  ASSUME TypeOK, Good, status = "up", NEW c \in Conns, NEW d \in Conns,
         ShutdownInLoop(d), outputBuffer_' = outputBuffer_,
         ~net[c].shut, net'[c].shut, "in" \in handler[c].events
  PROVE  ~outputBuffer_'[c]
<1>1. net' = [net EXCEPT ![d].shut = @ \/ ("out" \notin handler[d].events)]
  BY DEF ShutdownInLoop, ShutdownWrite
<1>2. c = d
  BY <1>1 DEF TypeOK
<1>3. net'[c].shut <=> net[c].shut \/ "out" \notin handler[c].events
  BY <1>1, <1>2 DEF TypeOK
<1>4. "out" \notin handler[c].events
  BY <1>3
<1>5. "out" \in handler[c].events <=> outputBuffer_[c]
  BY DEF Good, ConnInv, Registered
<1> QED
  BY <1>4, <1>5

\* Nothing else on the socket counts as a FIN of ours.
LEMMA ShutFields ==
  ASSUME NEW n \in NetRecord, NEW k
  PROVE  /\ [n EXCEPT !.fin = TRUE].shut = n.shut
         /\ [n EXCEPT !.rst = TRUE, !.err = TRUE].shut = n.shut
         /\ [n EXCEPT !.queued = FALSE].shut = n.shut
         /\ [n EXCEPT !.err = FALSE].shut = n.shut
         /\ [n EXCEPT !.sent = k, !.queued = TRUE].shut = n.shut
  BY Zenon DEF NetRecord

LEMMA ShutLeft ==
  ASSUME NetType, NEW c \in Conns, NEW d \in Conns, NEW n, n.shut = net[d].shut,
         net' = [net EXCEPT ![d] = n]
  PROVE  net'[c].shut = net[c].shut
<1>1. net'[c] = IF c = d THEN n ELSE net[c]
  BY DEF NetType
<1> QED
  BY <1>1, Zenon

\* The FIN of a graceful close follows the last byte of the output
\* (TcpConnection::shutdownInLoop, handleWrite).
THEOREM FinFollowsOutput == Spec => FinAfterOutput
<1>1. ServerInv /\ [Next]_vars =>
        [\A c \in Conns :
           ~net[c].shut /\ net'[c].shut /\ "in" \in handler[c].events => ~outputBuffer_'[c]]_vars
  <2> SUFFICES ASSUME ServerInv, Next, NEW c \in Conns,
                      ~net[c].shut, net'[c].shut, "in" \in handler[c].events
               PROVE  ~outputBuffer_'[c]
    OBVIOUS
  <2>1. TypeOK /\ NetType /\ Good /\ status = "up"
    BY OnlyWhileUp, TypeParts DEF ServerInv
  <2>2. CASE PeerStep
    <3>1. CASE PeerConnect
      BY <3>1 DEF PeerConnect
    <3>2. ASSUME NEW d \in Conns, PeerSend(d) \/ PeerClose(d) \/ PeerReset(d)
          PROVE  net'[c].shut = net[c].shut
      <4>1. net[d] \in NetRecord
        BY <2>1 DEF NetType
      <4>2. \/ net' = [net EXCEPT ![d] = [net[d] EXCEPT !.sent = net[d].sent + 1, !.queued = TRUE]]
            \/ net' = [net EXCEPT ![d] = [net[d] EXCEPT !.fin = TRUE]]
            \/ net' = [net EXCEPT ![d] = [net[d] EXCEPT !.rst = TRUE, !.err = TRUE]]
        BY <2>1, <3>2 DEF PeerSend, PeerClose, PeerReset, NetType
      <4>3. \E n : n.shut = net[d].shut /\ net' = [net EXCEPT ![d] = n]
        BY <4>1, <4>2, ShutFields, Zenon
      <4> QED
        BY <2>1, <4>3, ShutLeft
    <3> QED
      BY <2>2, <3>1, <3>2 DEF PeerStep
  <2>3. CASE IdleTimer \/ MainStep
    <3>1. net' = net
      BY <2>3 DEF IdleTimer, IdleTest, MainStep, Start, AcceptConnection, IdleSet, IdleQueue,
         SwapPending, FinishBatch, HandleRemoveConnectionInLoop
    <3> QED
      BY <3>1
  <2>4. ASSUME NEW l \in Workers, WorkerStep(l) PROVE ~outputBuffer_'[c]
    <3>1. CASE \/ Poll(l) \/ HandleEvents(l) \/ HandleHangup(l) \/ ReadEof(l) \/ WriteSome(l)
               \/ SwapPending(l) \/ FinishBatch(l)
               \/ \E d \in Conns : ConnectEstablished(l, d) \/ ConnectDestroyed(l, d)
                                   \/ WriteComplete(l, d)
               \/ SendAll(l) \/ SendSome(l) \/ ForceClose(l) \/ CallbackReturns(l)
      <4>1. net' = net
        BY <3>1 DEF Poll, HandleEvents, HandleHangup, ReadEof, WriteSome, SwapPending,
           FinishBatch, ConnectEstablished, ConnectDestroyed, WriteComplete, SendAll, SendSome,
           ForceClose, CallbackReturns
      <4> QED
        BY <4>1
    <3>2. CASE ReadMessage(l) \/ ReadError(l)
      <4>1. PICK d \in Conns : frame[l].conn = d
        BY <2>1, <3>2, DueNow DEF ReadMessage, ReadError
      <4>2. \/ net' = [net EXCEPT ![d] = [net[d] EXCEPT !.queued = FALSE]]
            \/ net' = [net EXCEPT ![d] = [net[d] EXCEPT !.err = FALSE]]
        BY <3>2, <4>1 DEF ReadMessage, ReadError
      <4>3. net[d] \in NetRecord
        BY <2>1 DEF NetType
      <4>4. net'[c].shut = net[c].shut
        <5>1. \E n : n.shut = net[d].shut /\ net' = [net EXCEPT ![d] = n]
          BY <4>2, <4>3, ShutFields, Zenon
        <5> QED
          BY <2>1, <5>1, ShutLeft
      <4> QED
        BY <4>4
    <3>3. CASE WriteRest(l)
      <4>1. PICK d \in Conns : frame[l].conn = d
        BY <2>1, <3>3, DueNow DEF WriteRest
      <4>2. /\ net' = [net EXCEPT ![d].shut = @ \/ state_[d] = "DISCONNECTING"]
            /\ outputBuffer_' = [outputBuffer_ EXCEPT ![d] = FALSE]
        BY <3>3, <4>1 DEF WriteRest
      <4>3. c = d
        BY <2>1, <4>2 DEF TypeOK
      <4> QED
        BY <2>1, <4>2, <4>3 DEF TypeOK
    <3>4. CASE Shutdown(l)
      <4>1. PICK d \in Conns : frame[l].conn = d
        BY <2>1, <3>4, InCall, Numbers DEF Shutdown
      <4>2. ShutdownInLoop(d) /\ outputBuffer_' = outputBuffer_
        BY <3>4, <4>1 DEF Shutdown
      <4> QED
        BY <2>1, <4>2, ShutWhenFlushed
    <3>5. CASE \E d \in Conns : RunShutdownInLoop(l, d)
      <4>1. PICK d \in Conns : ShutdownInLoop(d) /\ outputBuffer_' = outputBuffer_
        BY <3>5 DEF RunShutdownInLoop, connVars
      <4> QED
        BY <2>1, <4>1, ShutWhenFlushed
    <3> QED
      BY <2>4, <3>1, <3>2, <3>3, <3>4, <3>5 DEF WorkerStep
  <2> QED
    BY <2>2, <2>3, <2>4 DEF Next
<1> QED
  BY <1>1, ServerInvariant, PTL DEF Spec, FinAfterOutput

-----------------------------------------------------------------------------
(* A server that never shuts down.                                         *)

\* Without shutdown() no functor is bound to a raw `this', and no connection is ever
\* DISCONNECTING.
SharedFunctors == [op : SharedOps, conn : Conns]

NoShutdown ==
  /\ idler.pc = "idle"
  /\ \A c \in Conns : state_[c] # "DISCONNECTING"
  /\ pending \in [Loops -> Seq(SharedFunctors)]
  /\ batch \in [Loops -> Seq(SharedFunctors)]
  /\ status # "shutdownWrite failed"

LEMMA SharedFunctorFields ==
  /\ \A o \in SharedOps, c \in Conns : Functor(o, c) \in SharedFunctors
  /\ \A f \in SharedFunctors : f.op \in SharedOps
  BY DEF Functor, SharedFunctors

LEMMA SharedAppended ==
  ASSUME pending \in [Loops -> Seq(SharedFunctors)],
         NEW l \in Loops, NEW o \in SharedOps, NEW c \in Conns
  PROVE  [pending EXCEPT ![l] = Append(@, Functor(o, c))] \in [Loops -> Seq(SharedFunctors)]
<1>1. Append(pending[l], Functor(o, c)) \in Seq(SharedFunctors)
  BY SharedFunctorFields, AppendProperties
<1> QED
  BY <1>1

\* The functor a worker runs is one of its batch.
LEMMA SharedRun ==
  ASSUME TypeOK, batch \in [Loops -> Seq(SharedFunctors)],
         NEW l \in Loops, NEW o, NEW c \in Conns, Runs(l, o, c)
  PROVE  o \in SharedOps
<1>1. batch[l] \in Seq(SharedFunctors) /\ pos[l] \in Nat /\ pos[l] < Len(batch[l])
  BY DEF Runs, TypeOK
<1>2. pos[l] + 1 \in 1 .. Len(batch[l])
  BY <1>1, LenProperties
<1>3. batch[l][pos[l] + 1] \in SharedFunctors
  BY <1>1, <1>2, ElementOfSeq
<1>4. Functor(o, c).op = o
  BY DEF Functor
<1> QED
  BY <1>3, <1>4, SharedFunctorFields DEF Runs

LEMMA StaysWithoutShutdown ==
  ASSUME "shutdown" \notin UserCalls, ~IdleShutdown, TypeOK, Good, NoShutdown, Next
  PROVE  NoShutdown'
<1>1. CASE PeerStep
  BY <1>1 DEF PeerStep, PeerConnect, PeerSend, PeerClose, PeerReset, NoShutdown, connVars, queueVars
<1>2. ~IdleTimer /\ ~IdleSet /\ ~IdleQueue
  BY DEF IdleTimer, IdleTest, IdleSet, IdleQueue, NoShutdown
<1>3. CASE MainStep
  <2>1. UNCHANGED <<idler, state_>> /\ status' # "shutdownWrite failed"
    BY <1>2, <1>3 DEF MainStep, Start, AcceptConnection, SwapPending, FinishBatch,
       HandleRemoveConnectionInLoop, connVars, NoShutdown, Outcome
  <2>2. pending' \in [Loops -> Seq(SharedFunctors)] /\ batch' \in [Loops -> Seq(SharedFunctors)]
    <3>1. CASE Start
      BY <3>1 DEF Start, queueVars, NoShutdown
    <3>2. CASE AcceptConnection
      <4>1. /\ batch' = batch
            /\ pending' = [pending EXCEPT ![next_] =
                             Append(@, Functor("connectEstablished", nextConnId_))]
        BY <3>2 DEF AcceptConnection, HandleNewConnection, queueVars
      <4>2. next_ \in Loops /\ nextConnId_ \in Conns
        <5>1. next_ \in Loops
          BY Numbers DEF TypeOK
        <5>2. backlog > 0
          BY <3>2 DEF AcceptConnection, AcceptOldest
        <5>3. nextConnId_ \in 1 .. MaxConns + 1 /\ backlog \in 0 .. MaxConns + 1 - nextConnId_
          BY DEF TypeOK
        <5>4. nextConnId_ \in 1 .. MaxConns
          BY <5>2, <5>3, ServerAssumption
        <5> QED
          BY <5>1, <5>4 DEF Conns
      <4> QED
        BY <4>1, <4>2, SharedAppended DEF SharedOps, NoShutdown
    <3>3. CASE SwapPending(Main) \/ FinishBatch(Main)
      <4>1. <<>> \in Seq(SharedFunctors)
        BY EmptySeq
      <4> QED
        BY <3>3, <4>1 DEF SwapPending, FinishBatch, NoShutdown
    <3>4. ASSUME NEW c \in Conns, HandleRemoveConnectionInLoop(c)
          PROVE  pending' \in [Loops -> Seq(SharedFunctors)] /\ batch' \in [Loops -> Seq(SharedFunctors)]
      <4>1. loopOf[c] \in Loops
        BY DEF TypeOK
      <4>2. /\ batch' = batch
            /\ pending' = [pending EXCEPT ![loopOf[c]] = Append(@, Functor("connectDestroyed", c))]
        BY <3>4 DEF HandleRemoveConnectionInLoop
      <4> QED
        BY <4>1, <4>2, SharedAppended DEF SharedOps, NoShutdown
    <3> QED
      BY <1>2, <1>3, <3>1, <3>2, <3>3, <3>4 DEF MainStep
  <2> QED
    BY <2>1, <2>2 DEF NoShutdown
<1>4. ASSUME NEW l \in Workers, WorkerStep(l) PROVE NoShutdown'
  <2>1. ~Shutdown(l) /\ l \in Loops
    BY Numbers DEF Shutdown, UserCall
  <2>2. ASSUME NEW c \in Conns PROVE ~RunShutdownInLoop(l, c)
    <3> SUFFICES ASSUME Runs(l, "shutdownInLoop", c) PROVE FALSE
      BY DEF RunShutdownInLoop
    <3>1. "shutdownInLoop" \in SharedOps
      BY <2>1, SharedRun DEF NoShutdown
    <3> QED
      BY <3>1 DEF SharedOps
  <2>3. ASSUME NEW c \in Conns, HandleClose(c)
        PROVE  /\ pending' \in [Loops -> Seq(SharedFunctors)]
               /\ status' # "shutdownWrite failed"
    <3>1. pending' = [pending EXCEPT ![Main] = Append(@, Functor("handleRemoveConnectionInLoop", c))]
      BY <2>3 DEF HandleClose
    <3>2. pending' \in [Loops -> Seq(SharedFunctors)]
      BY <3>1, Numbers, SharedAppended DEF SharedOps, NoShutdown
    <3> QED
      BY <2>3, <3>2 DEF HandleClose, Outcome, NoShutdown
  <2>4. ASSUME NEW c \in Conns, Completed(l, c)
        PROVE  pending' \in [Loops -> Seq(SharedFunctors)]
    BY <2>1, <2>4, SharedAppended DEF Completed, SharedOps, NoShutdown
  <2>5. CASE HandleHangup(l) \/ ReadEof(l) \/ ForceClose(l)
    <3>1. PICK c \in Conns : HandleClose(c)
      <4>1. PICK c \in Conns : frame[l].conn = c
        BY <2>1, <2>5, DueNow, InCall DEF HandleHangup, ReadEof, ForceClose
      <4> QED
        BY <2>5, <4>1 DEF HandleHangup, ReadEof, ForceClose
    <3>2. UNCHANGED <<idler, state_, batch>>
      BY <2>5 DEF HandleHangup, ReadEof, ForceClose, queueVars
    <3> QED
      BY <2>3, <3>1, <3>2 DEF NoShutdown
  <2>6. CASE WriteRest(l) \/ SendAll(l)
    <3>1. PICK c \in Conns : frame[l].conn = c
      BY <2>1, <2>6, DueNow, InCall DEF WriteRest, SendAll
    <3>2. Completed(l, c) /\ status' # "shutdownWrite failed"
      BY <2>6, <3>1 DEF WriteRest, SendAll, Outcome, NoShutdown
    <3>3. UNCHANGED <<idler, state_, batch>>
      BY <2>6 DEF WriteRest, SendAll, queueVars, connVars
    <3> QED
      BY <2>4, <3>2, <3>3 DEF NoShutdown
  <2>7. CASE \/ Poll(l) \/ HandleEvents(l) \/ ReadMessage(l) \/ ReadError(l) \/ WriteSome(l)
             \/ \E c \in Conns : WriteComplete(l, c)
             \/ SendSome(l) \/ CallbackReturns(l)
    <3>1. UNCHANGED <<idler, state_, pending, batch>> /\ status' # "shutdownWrite failed"
      BY <2>7 DEF Poll, HandleEvents, ReadMessage, ReadError, WriteSome, WriteComplete, SendSome,
         CallbackReturns, connVars, queueVars, Outcome, NoShutdown
    <3> QED
      BY <3>1 DEF NoShutdown
  <2>8. CASE SwapPending(l) \/ FinishBatch(l)
    <3>1. <<>> \in Seq(SharedFunctors)
      BY EmptySeq
    <3>2. pending' \in [Loops -> Seq(SharedFunctors)] /\ batch' \in [Loops -> Seq(SharedFunctors)]
      BY <2>1, <2>8, <3>1 DEF SwapPending, FinishBatch, NoShutdown
    <3> QED
      BY <2>8, <3>2 DEF SwapPending, FinishBatch, NoShutdown, connVars
  <2>9. ASSUME NEW c \in Conns, ConnectEstablished(l, c) \/ ConnectDestroyed(l, c)
        PROVE  NoShutdown'
    <3>1. UNCHANGED <<idler, pending, batch>> /\ status' # "shutdownWrite failed"
      BY <2>9 DEF ConnectEstablished, ConnectDestroyed, Outcome, NoShutdown
    <3>2. \/ state_' = [state_ EXCEPT ![c] = "CONNECTED"]
          \/ state_' = [state_ EXCEPT ![c] = "DISCONNECTED"]
      BY <2>9 DEF ConnectEstablished, ConnectDestroyed
    <3>3. \A d \in Conns : state_'[d] # "DISCONNECTING"
      BY <3>2 DEF TypeOK, NoShutdown
    <3> QED
      BY <3>1, <3>3 DEF NoShutdown
  <2> QED
    BY <1>4, <2>1, <2>2, <2>5, <2>6, <2>7, <2>8, <2>9 DEF WorkerStep
<1> QED
  BY <1>1, <1>2, <1>3, <1>4 DEF Next

\* The process of a program that never calls shutdown(), has no timer that does, and does
\* not go on calling a connection that is closed, is never ended by TcpServer, TcpConnection
\* or Poller: the asserts and LOG_SYSFATALs of this code all pass.
THEOREM NothingFails ==
  ASSUME "shutdown" \notin UserCalls, ~IdleShutdown, ~CallsOnClosed
  PROVE  Spec => []NeverFails
<1>1. Init => NoShutdown
  <2> SUFFICES ASSUME Init PROVE NoShutdown
    OBVIOUS
  <2>1. <<>> \in Seq(SharedFunctors)
    BY EmptySeq
  <2> QED
    BY <2>1 DEF Init, NoShutdown
<1>2. NoShutdown /\ UNCHANGED vars => NoShutdown'
  BY DEF NoShutdown, vars, connVars, queueVars
<1>3. ServerInv /\ NoShutdown /\ [Next]_vars => NoShutdown'
  BY <1>2, OnlyWhileUp, StaysWithoutShutdown DEF ServerInv
<1>4. ServerInv /\ EndsAreExplained /\ NoShutdown => NeverFails
  <2> SUFFICES ASSUME ServerInv, EndsAreExplained, NoShutdown PROVE NeverFails
    OBVIOUS
  <2>1. ASSUME NEW l \in Workers, pos[l] > 0 PROVE Just(l).op \notin RawOps
    <3>1. batch[l] \in Seq(SharedFunctors) /\ pos[l] \in Nat /\ pos[l] <= Len(batch[l])
      BY Numbers DEF NoShutdown, ServerInv, TypeOK
    <3>2. pos[l] \in 1 .. Len(batch[l])
      BY <2>1, <3>1, LenProperties
    <3>3. Just(l) \in SharedFunctors
      BY <3>1, <3>2, ElementOfSeq DEF Just
    <3> QED
      BY <3>3, SharedFunctorFields DEF SharedOps, RawOps
  <2> QED
    BY <2>1 DEF EndsAreExplained, NeverFails, NoShutdown, CallsOnClosed
<1> QED
  BY <1>1, <1>3, <1>4, ServerInvariant, EndsExplained, PTL DEF Spec
=============================================================================
