-------------------------- MODULE TimerQueueProofs --------------------------
(***************************************************************************)
(* What TLAPS proves of TimerQueue, for any number of timers, threads and  *)
(* functors: its type invariant, that every timer has one owner until it   *)
(* is deleted, that its two sets agree, that the timerfd is armed, and     *)
(* that it implements Timers.                                              *)
(***************************************************************************)
EXTENDS TimerQueue, SequenceTheorems, FiniteSetTheorems, TLAPS

Timer == [live : BOOLEAN, seq : 0 .. MaxSeq, exp : Nat, interval : Intervals \cup {0}]
Functor == [op : {"add", "cancel"}, addr : Addrs, seq : Seqs]

-----------------------------------------------------------------------------
(* The heap.                                                               *)

HeapType == heap \in [Addrs -> Timer]

LEMMA TimerFields ==
  ASSUME NEW r \in Timer
  PROVE  /\ r.live \in BOOLEAN /\ r.seq \in 0 .. MaxSeq
         /\ r.exp \in Nat /\ r.interval \in Nat
<1>1. r.interval \in Intervals \cup {0}
  BY DEF Timer
<1>2. \A i \in Intervals \cup {0} : i \in Nat
  BY TimerAssumption
<1>3. r.live \in BOOLEAN /\ r.seq \in 0 .. MaxSeq /\ r.exp \in Nat
  BY Zenon DEF Timer
<1>4. r.interval \in Nat
  BY <1>1, <1>2, Zenon
<1> QED
  BY <1>3, <1>4, Zenon

LEMMA FreedTimer ==
  ASSUME NEW r \in Timer
  PROVE  /\ [r EXCEPT !.live = FALSE] \in Timer
         /\ [r EXCEPT !.live = FALSE].live = FALSE
         /\ [r EXCEPT !.live = FALSE].seq = r.seq
         /\ [r EXCEPT !.live = FALSE].exp = r.exp
         /\ [r EXCEPT !.live = FALSE].interval = r.interval
  BY Zenon DEF Timer

LEMMA RestartedTimer ==
  ASSUME NEW r \in Timer, NEW w \in Nat
  PROVE  /\ [r EXCEPT !.exp = w] \in Timer
         /\ [r EXCEPT !.exp = w].live = r.live
         /\ [r EXCEPT !.exp = w].seq = r.seq
         /\ [r EXCEPT !.exp = w].exp = w
         /\ [r EXCEPT !.exp = w].interval = r.interval
  BY Zenon DEF Timer

\* A new timer at a free address.
LEMMA CreatesHeap ==
  ASSUME HeapType, s_num_created_ \in 0 .. MaxSeq,
         NEW a \in Addrs, NEW w \in Nat, NEW i \in Intervals, Creates(a, w, i)
  PROVE  /\ HeapType' /\ ~heap[a].live
         /\ s_num_created_' = s_num_created_ + 1 /\ s_num_created_' \in Seqs
         /\ heap'[a].live /\ heap'[a].seq = s_num_created_ + 1
         /\ heap'[a].exp = w /\ heap'[a].interval = i
         /\ \A b \in Addrs : b # a => heap'[b] = heap[b]
<1> DEFINE r == [live |-> TRUE, seq |-> s_num_created_ + 1, exp |-> w, interval |-> i]
<1>1. /\ s_num_created_ < MaxSeq /\ s_num_created_' = s_num_created_ + 1 /\ ~heap[a].live
      /\ heap' = [heap EXCEPT ![a] = r]
  BY DEF Creates
<1>2. s_num_created_' \in Seqs /\ s_num_created_ + 1 \in 0 .. MaxSeq
  BY <1>1, TimerAssumption DEF Seqs
<1>3. r \in Timer
  BY <1>2 DEF Timer
<1>4. r.live /\ r.seq = s_num_created_ + 1 /\ r.exp = w /\ r.interval = i
  OBVIOUS
<1> HIDE DEF r
<1> QED
  BY <1>1, <1>2, <1>3, <1>4 DEF HeapType

LEMMA FreesHeap ==
  ASSUME HeapType, NEW a \in Addrs, Frees(a)
  PROVE  /\ HeapType'
         /\ \A b \in Addrs : /\ heap'[b].live <=> heap[b].live /\ b # a
                             /\ heap'[b].seq = heap[b].seq /\ heap'[b].exp = heap[b].exp
                             /\ heap'[b].interval = heap[b].interval
<1> DEFINE r == [heap[a] EXCEPT !.live = FALSE]
<1>1. heap' = [heap EXCEPT ![a] = r]
  BY DEF Frees
<1>2. heap[a] \in Timer
  BY DEF HeapType
<1>3. /\ r \in Timer /\ r.live = FALSE /\ r.seq = heap[a].seq /\ r.exp = heap[a].exp
      /\ r.interval = heap[a].interval
  BY <1>2, FreedTimer
<1> HIDE DEF r
<1>4. HeapType' /\ heap'[a] = r /\ \A b \in Addrs : b # a => heap'[b] = heap[b]
  BY <1>1, <1>3 DEF HeapType
<1>5. ASSUME NEW b \in Addrs
      PROVE  /\ heap'[b].live <=> heap[b].live /\ b # a
             /\ heap'[b].seq = heap[b].seq /\ heap'[b].exp = heap[b].exp
             /\ heap'[b].interval = heap[b].interval
  <2>1. CASE b = a
    BY <1>3, <1>4, <2>1
  <2>2. CASE b # a
    BY <1>4, <2>2
  <2> QED
    BY <2>1, <2>2
<1> QED
  BY <1>4, <1>5

Again == {e \in expired : Restarts(e)}
Restarted == {e.addr : e \in Again}
Deleted == {e.addr : e \in expired \ Again}

LEMMA ResetHeap ==
  ASSUME HeapType, now \in Nat, Reset
  PROVE  /\ HeapType'
         /\ \A b \in Addrs :
              /\ heap'[b].live <=> heap[b].live /\ (b \in Restarted \/ b \notin Deleted)
              /\ heap'[b].exp = IF b \in Restarted THEN restart(b) ELSE heap[b].exp
              /\ heap'[b].seq = heap[b].seq /\ heap'[b].interval = heap[b].interval
              /\ restart(b) \in Nat
<1> DEFINE F(a) == IF a \in Restarted THEN [heap[a] EXCEPT !.exp = restart(a)]
                   ELSE IF a \in Deleted THEN [heap[a] EXCEPT !.live = FALSE]
                   ELSE heap[a]
<1>1. heap' = [a \in Addrs |-> F(a)]
  BY DEF Reset, Again, Restarted, Deleted
<1>2. ASSUME NEW b \in Addrs
      PROVE  /\ heap'[b] \in Timer
             /\ heap'[b].live <=> heap[b].live /\ (b \in Restarted \/ b \notin Deleted)
             /\ heap'[b].exp = IF b \in Restarted THEN restart(b) ELSE heap[b].exp
             /\ heap'[b].seq = heap[b].seq /\ heap'[b].interval = heap[b].interval
             /\ restart(b) \in Nat
  <2>1. heap[b] \in Timer
    BY DEF HeapType
  <2>2. heap[b].interval \in Nat
    BY <2>1, TimerFields
  <2>3. restart(b) \in Nat
    BY <2>2 DEF restart
  <2>4. CASE b \in Restarted
    <3>1. heap'[b] = [heap[b] EXCEPT !.exp = restart(b)]
      BY <1>1, <2>4
    <3> QED
      BY <2>1, <2>3, <2>4, <3>1, RestartedTimer
  <2>5. CASE b \notin Restarted /\ b \in Deleted
    <3>1. heap'[b] = [heap[b] EXCEPT !.live = FALSE]
      BY <1>1, <2>5
    <3> QED
      BY <2>1, <2>3, <2>5, <3>1, FreedTimer
  <2>6. CASE b \notin Restarted /\ b \notin Deleted
    <3>1. heap'[b] = heap[b]
      BY <1>1, <2>6
    <3> QED
      BY <2>1, <2>3, <2>6, <3>1
  <2> QED
    BY <2>4, <2>5, <2>6
<1>3. HeapType'
  <2>1. \A a \in Addrs : heap'[a] \in Timer
    BY <1>2
  <2> HIDE DEF F
  <2>2. DOMAIN heap' = Addrs /\ heap' = [a \in Addrs |-> heap'[a]]
    BY <1>1, Zenon
  <2> QED
    BY <2>1, <2>2, Zenon DEF HeapType
<1> QED
  BY <1>2, <1>3

-----------------------------------------------------------------------------
(* The functors.                                                           *)

AddsOf(q) == {i \in DOMAIN q : q[i].op = "add"}
AskedOf(q) == {q[i].addr : i \in AddsOf(q)}

\* No timer is to be inserted twice, and each functor knows the number of its own.
FunctorsFit(q, h) ==
  /\ \A i, j \in AddsOf(q) : q[i].addr = q[j].addr => i = j
  /\ \A i \in AddsOf(q) : h[q[i].addr].seq = q[i].seq

LEMMA FunctorFields ==
  ASSUME NEW p \in Functor
  PROVE  p.op \in {"add", "cancel"} /\ p.addr \in Addrs /\ p.seq \in Seqs
  BY DEF Functor

LEMMA AppendFunctor ==
  ASSUME NEW q \in Seq(Functor), NEW p \in Functor, NEW h, FunctorsFit(q, h)
  PROVE  /\ Append(q, p) \in Seq(Functor)
         /\ AskedOf(Append(q, p)) = IF p.op = "add" THEN AskedOf(q) \cup {p.addr} ELSE AskedOf(q)
         /\ p.op = "cancel" \/ (p.addr \notin AskedOf(q) /\ h[p.addr].seq = p.seq)
              => FunctorsFit(Append(q, p), h)
<1> DEFINE r == Append(q, p)
           n == Len(q)
<1>1. /\ r \in Seq(Functor) /\ Len(r) = n + 1 /\ n \in Nat
      /\ \A i \in 1 .. n : r[i] = q[i]
      /\ r[n + 1] = p
  BY AppendProperties, LenProperties
<1>2. DOMAIN q = 1 .. n /\ DOMAIN r = 1 .. n + 1
  BY <1>1, LenProperties
<1> HIDE DEF r, n
<1>3. \A i : i \in AddsOf(r) <=> i \in AddsOf(q) \/ (i = n + 1 /\ p.op = "add")
  BY <1>1, <1>2 DEF AddsOf
<1>4. \A i \in AddsOf(q) : r[i] = q[i] /\ i # n + 1
  BY <1>1, <1>2 DEF AddsOf
<1>5. AskedOf(r) = IF p.op = "add" THEN AskedOf(q) \cup {p.addr} ELSE AskedOf(q)
  BY <1>1, <1>3, <1>4 DEF AskedOf
<1>6. ASSUME p.op = "cancel" \/ (p.addr \notin AskedOf(q) /\ h[p.addr].seq = p.seq)
      PROVE  FunctorsFit(r, h)
  <2>1. ASSUME NEW i \in AddsOf(r), NEW j \in AddsOf(r), r[i].addr = r[j].addr
        PROVE  i = j
    <3>1. CASE i \in AddsOf(q) /\ j \in AddsOf(q)
      BY <1>4, <2>1, <3>1 DEF FunctorsFit
    <3>2. CASE i = n + 1 /\ j = n + 1
      BY <3>2
    <3>3. CASE i \in AddsOf(q) /\ j = n + 1 /\ p.op = "add"
      BY <1>1, <1>4, <1>6, <2>1, <3>3 DEF AskedOf
    <3>4. CASE j \in AddsOf(q) /\ i = n + 1 /\ p.op = "add"
      BY <1>1, <1>4, <1>6, <2>1, <3>4 DEF AskedOf
    <3> QED
      BY <1>3, <2>1, <3>1, <3>2, <3>3, <3>4
  <2>2. ASSUME NEW i \in AddsOf(r)
        PROVE  h[r[i].addr].seq = r[i].seq
    <3>1. CASE i \in AddsOf(q)
      BY <1>4, <3>1 DEF FunctorsFit
    <3>2. CASE i = n + 1 /\ p.op = "add"
      BY <1>1, <1>6, <3>2
    <3> QED
      BY <1>3, <2>2, <3>1, <3>2
  <2> QED
    BY <2>1, <2>2 DEF FunctorsFit
<1> QED
  BY <1>1, <1>5, <1>6 DEF r

LEMMA NextFunctor ==
  ASSUME NEW q \in Seq(Functor), q # <<>>, NEW h, FunctorsFit(q, h)
  PROVE  /\ Head(q) \in Functor /\ Tail(q) \in Seq(Functor)
         /\ FunctorsFit(Tail(q), h)
         /\ Head(q).op = "cancel" => AskedOf(Tail(q)) = AskedOf(q)
         /\ Head(q).op = "add" => /\ Head(q).addr \in AskedOf(q)
                                  /\ h[Head(q).addr].seq = Head(q).seq
                                  /\ AskedOf(Tail(q)) = AskedOf(q) \ {Head(q).addr}
<1> DEFINE r == Tail(q)
           p == Head(q)
           n == Len(q)
<1>1. /\ p \in Functor /\ r \in Seq(Functor) /\ Len(r) = n - 1
      /\ \A i \in 1 .. Len(r) : r[i] = q[i + 1]
      /\ n \in Nat /\ n >= 1 /\ q[1] = p
  BY HeadTailProperties, LenProperties, EmptySeq
<1>2. DOMAIN q = 1 .. n /\ DOMAIN r = 1 .. n - 1
  BY <1>1, LenProperties
<1> HIDE DEF r, p, n
<1>3. \A i \in AddsOf(r) : i \in Nat /\ i + 1 # 1 /\ i + 1 \in AddsOf(q) /\ r[i] = q[i + 1]
  BY <1>1, <1>2 DEF AddsOf
<1>4. ASSUME NEW j \in AddsOf(q), j # 1
      PROVE  j - 1 \in AddsOf(r) /\ r[j - 1] = q[j]
  <2>1. j \in 1 .. n /\ j - 1 \in 1 .. n - 1 /\ (j - 1) + 1 = j
    BY <1>1, <1>2, <1>4 DEF AddsOf
  <2> QED
    BY <1>1, <1>2, <1>4, <2>1 DEF AddsOf
<1>5. 1 \in AddsOf(q) <=> p.op = "add"
  BY <1>1, <1>2 DEF AddsOf
<1>6. FunctorsFit(r, h)
  <2>1. ASSUME NEW i \in AddsOf(r), NEW j \in AddsOf(r), r[i].addr = r[j].addr
        PROVE  i = j
    <3>1. i + 1 = j + 1
      BY <1>3, <2>1 DEF FunctorsFit
    <3> QED
      BY <1>3, <2>1, <3>1
  <2>2. \A i \in AddsOf(r) : h[r[i].addr].seq = r[i].seq
    BY <1>3 DEF FunctorsFit
  <2> QED
    BY <2>1, <2>2 DEF FunctorsFit
<1>7. AskedOf(r) \subseteq AskedOf(q)
  BY <1>3 DEF AskedOf
<1>8. \A j \in AddsOf(q) : j # 1 => q[j].addr \in AskedOf(r)
  BY <1>4 DEF AskedOf
<1>9. p.op = "cancel" => AskedOf(r) = AskedOf(q)
  BY <1>5, <1>7, <1>8 DEF AskedOf
<1>10. ASSUME p.op = "add"
       PROVE  /\ p.addr \in AskedOf(q) /\ h[p.addr].seq = p.seq
              /\ AskedOf(r) = AskedOf(q) \ {p.addr}
  <2>1. 1 \in AddsOf(q) /\ q[1] = p
    BY <1>1, <1>5, <1>10
  <2>2. p.addr \in AskedOf(q) /\ h[p.addr].seq = p.seq
    BY <2>1 DEF AskedOf, FunctorsFit
  <2>3. p.addr \notin AskedOf(r)
    <3>1. \A i \in AddsOf(r) : q[i + 1].addr # p.addr
      BY <1>3, <2>1 DEF FunctorsFit
    <3> QED
      BY <1>3, <3>1 DEF AskedOf
  <2>4. \A a \in AskedOf(q) : a = p.addr \/ a \in AskedOf(r)
    BY <1>8, <2>1 DEF AskedOf
  <2> QED
    BY <1>7, <2>2, <2>3, <2>4
<1> QED
  BY <1>1, <1>6, <1>9, <1>10 DEF r, p

-----------------------------------------------------------------------------
(* The inductive invariant.                                                *)

\* Timers that exist have different numbers, of those given out, and who waits for the
\* number of a timer, or has it, has the number of one that exists or has existed.
Numbered ==
  /\ \A a \in Addrs : heap[a].live =>
       /\ heap[a].seq \in Seqs /\ heap[a].seq <= s_num_created_
       /\ \A b \in Addrs : heap[b].live /\ heap[b].seq = heap[a].seq => b = a
  /\ \A t \in Threads : caller[t] # Nowhere => heap[caller[t].addr].seq \in Seqs
  /\ ids \subseteq Addrs \X Seqs

\* A timer exists if and only if a functor, timers_ or the batch has it; only one of them
\* does, and the sets have it under its own expiration.
Owned ==
  /\ FunctorsFit(pending, heap)
  /\ \A a \in Addrs :
       heap[a].live <=> a \in AskedOf(pending) \/ Entry(heap[a].exp, a) \in timers_ \cup expired
  /\ \A e \in timers_ \cup expired :
       e.addr \in Addrs /\ e.addr \notin AskedOf(pending) /\ e = Entry(heap[e.addr].exp, e.addr)
  /\ timers_ \cap expired = {}
  /\ active_timers_ = {<<e.addr, heap[e.addr].seq>> : e \in timers_}

TimerInv == TypeOK /\ Numbered /\ Owned

LEMMA TypeParts ==
  ASSUME TypeOK
  PROVE  /\ clock \in Nat /\ wall \in Nat \ {0} /\ steps \in 0 .. MaxSteps
         /\ deadline \in Nat /\ now \in Nat
         /\ s_num_created_ \in 0 .. MaxSeq
         /\ HeapType /\ pending \in Seq(Functor)
         /\ timers_ \subseteq [when : Nat, addr : Addrs]
         /\ expired \subseteq [when : Nat, addr : Addrs] /\ begun \subseteq expired
         /\ active_timers_ \subseteq Addrs \X Seqs
         /\ canceling_timers_ \subseteq Addrs \X Seqs
         /\ caller \in [Threads -> [addr : Addrs, seq : Seqs] \cup {Nowhere}]
         /\ expired # {} => calling_expired_timers_
<1>1. HeapType /\ pending \in Seq(Functor)
  BY Zenon DEF TypeOK, HeapType, Timer, Functor
<1>2. /\ clock \in Nat /\ wall \in Nat \ {0} /\ steps \in 0 .. MaxSteps
      /\ deadline \in Nat /\ now \in Nat
      /\ s_num_created_ \in 0 .. MaxSeq
  BY DEF TypeOK
<1>3. /\ timers_ \subseteq [when : Nat, addr : Addrs]
      /\ expired \subseteq [when : Nat, addr : Addrs] /\ begun \subseteq expired
      /\ active_timers_ \subseteq Addrs \X Seqs
      /\ canceling_timers_ \subseteq Addrs \X Seqs
      /\ caller \in [Threads -> [addr : Addrs, seq : Seqs] \cup {Nowhere}]
      /\ expired # {} => calling_expired_timers_
  BY Zenon DEF TypeOK
<1> QED
  BY <1>1, <1>2, <1>3, Zenon

LEMMA AskedAddrs ==
  ASSUME NEW q \in Seq(Functor)
  PROVE  AskedOf(q) \subseteq Addrs
<1>1. \A i \in DOMAIN q : q[i] \in Functor
  BY LenProperties
<1>2. \A i \in AddsOf(q) : q[i].addr \in Addrs
  BY <1>1, FunctorFields DEF AddsOf
<1> QED
  BY <1>2 DEF AskedOf

LEMMA EntryFields ==
  ASSUME NEW w, NEW a
  PROVE  /\ Entry(w, a).when = w /\ Entry(w, a).addr = a
         /\ w \in Nat /\ a \in Addrs => Entry(w, a) \in [when : Nat, addr : Addrs]
  BY DEF Entry

LEMMA AlarmType ==
  ASSUME NEW w \in Nat, clock \in Nat, wall \in Nat
  PROVE  Alarm(w) \in Nat /\ Alarm(w) # 0
  BY DEF Alarm

\* A step that leaves the timers where they are.
LEMMA OwnersStay ==
  ASSUME Owned, UNCHANGED <<heap, timers_, active_timers_, expired>>,
         FunctorsFit(pending', heap), AskedOf(pending') = AskedOf(pending)
  PROVE  Owned'
<1>1. FunctorsFit(pending', heap')
  BY DEF FunctorsFit
<1>2. \A a \in Addrs :
        heap'[a].live <=>
          a \in AskedOf(pending') \/ Entry(heap'[a].exp, a) \in timers_' \cup expired'
  BY DEF Owned
<1>3. \A e \in timers_' \cup expired' :
        /\ e.addr \in Addrs /\ e.addr \notin AskedOf(pending')
        /\ e = Entry(heap'[e.addr].exp, e.addr)
  BY DEF Owned
<1>4. /\ timers_' \cap expired' = {}
      /\ active_timers_' = {<<e.addr, heap'[e.addr].seq>> : e \in timers_'}
  BY DEF Owned
<1> QED
  BY <1>1, <1>2, <1>3, <1>4 DEF Owned

\* add_timer_in_loop, of a new timer or of one a functor has brought.
LEMMA OwnersAfterInsert ==
  ASSUME Owned, HeapType, NEW a \in Addrs,
         Inserts(a, heap'[a].seq, heap'[a].exp), heap'[a].live,
         \A b \in Addrs : b # a => heap'[b] = heap[b],
         UNCHANGED expired,
         FunctorsFit(pending', heap'), AskedOf(pending') = AskedOf(pending) \ {a},
         \A e \in timers_ \cup expired : e.addr # a
  PROVE  Owned'
<1> DEFINE new == Entry(heap'[a].exp, a)
<1>1. timers_' = timers_ \cup {new} /\ active_timers_' = active_timers_ \cup {<<a, heap'[a].seq>>}
  BY DEF Inserts
<1>2. new.addr = a /\ new \notin timers_ \cup expired
  BY EntryFields
<1>3. \A e \in timers_ \cup expired : e.addr \in Addrs /\ heap'[e.addr] = heap[e.addr]
  BY DEF Owned
<1>4. ASSUME NEW e \in timers_' \cup expired'
      PROVE  /\ e.addr \in Addrs /\ e.addr \notin AskedOf(pending')
             /\ e = Entry(heap'[e.addr].exp, e.addr)
  <2>1. CASE e = new
    BY <1>2, <2>1
  <2>2. CASE e \in timers_ \cup expired
    BY <1>3, <2>2 DEF Owned
  <2> QED
    BY <1>1, <1>4, <2>1, <2>2
<1>5. ASSUME NEW b \in Addrs
      PROVE  heap'[b].live <=> b \in AskedOf(pending') \/ Entry(heap'[b].exp, b) \in timers_' \cup expired'
  <2>1. CASE b = a
    BY <1>1, <2>1
  <2>2. CASE b # a
    <3>1. Entry(heap[b].exp, b) # new
      BY <1>2, <2>2, EntryFields
    <3> QED
      BY <1>1, <2>2, <3>1 DEF Owned
  <2> QED
    BY <2>1, <2>2
<1>6. timers_' \cap expired' = {}
  BY <1>1, <1>2 DEF Owned
<1>7. active_timers_' = {<<e.addr, heap'[e.addr].seq>> : e \in timers_'}
  <2>1. active_timers_ = {<<e.addr, heap'[e.addr].seq>> : e \in timers_}
    BY <1>3 DEF Owned
  <2> HIDE DEF new
  <2> QED
    BY <1>1, <1>2, <2>1
<1> QED
  BY <1>4, <1>5, <1>6, <1>7 DEF Owned

\* cancel_in_loop.
LEMMA OwnersAfterCancel ==
  ASSUME Owned, HeapType, NEW a \in Addrs, NEW s \in Seqs, Cancels(a, s),
         UNCHANGED expired, AskedOf(pending) \subseteq Addrs,
         FunctorsFit(pending', heap), AskedOf(pending') = AskedOf(pending)
  PROVE  /\ HeapType' /\ Owned'
         /\ timers_' \subseteq timers_ /\ active_timers_' \subseteq active_timers_
         /\ \A b \in Addrs : /\ heap'[b].seq = heap[b].seq /\ heap'[b].exp = heap[b].exp
                             /\ heap'[b].interval = heap[b].interval
                             /\ heap'[b].live => heap[b].live
<1>1. CASE <<a, s>> \notin active_timers_
  <2>1. UNCHANGED <<heap, timers_, active_timers_>>
    BY <1>1 DEF Cancels
  <2> QED
    BY <2>1, OwnersStay DEF HeapType
<1>2. CASE <<a, s>> \in active_timers_
  <2> DEFINE gone == Entry(heap[a].exp, a)
  <2>1. /\ timers_' = timers_ \ {gone} /\ active_timers_' = active_timers_ \ {<<a, s>>}
        /\ Frees(a)
    BY <1>2 DEF Cancels
  <2>2. /\ HeapType'
        /\ \A b \in Addrs : /\ heap'[b].live <=> heap[b].live /\ b # a
                            /\ heap'[b].seq = heap[b].seq /\ heap'[b].exp = heap[b].exp
                            /\ heap'[b].interval = heap[b].interval
    BY <2>1, FreesHeap
  <2>3. gone \in timers_ /\ heap[a].seq = s
    BY <1>2 DEF Owned
  <2>4. gone.addr = a
    BY EntryFields
  <2> HIDE DEF gone
  <2>5. \A e \in timers_ \cup expired : e.addr = a <=> e = gone
    BY <2>4 DEF Owned, gone
  <2>6. a \notin AskedOf(pending)
    BY <2>3, <2>4 DEF Owned
  <2>7. FunctorsFit(pending', heap')
    <3>1. \A i \in AddsOf(pending') : pending'[i].addr \in AskedOf(pending')
      BY DEF AskedOf
    <3>2. \A i \in AddsOf(pending') : heap'[pending'[i].addr].seq = heap[pending'[i].addr].seq
      BY <2>2, <3>1
    <3> QED
      BY <3>2 DEF FunctorsFit
  <2>8. ASSUME NEW e \in timers_' \cup expired'
        PROVE  /\ e.addr \in Addrs /\ e.addr \notin AskedOf(pending')
               /\ e = Entry(heap'[e.addr].exp, e.addr)
    <3>1. e \in timers_ \cup expired
      BY <2>1, <2>8
    <3> QED
      BY <2>2, <3>1 DEF Owned
  <2>9. ASSUME NEW b \in Addrs
        PROVE  heap'[b].live <=> b \in AskedOf(pending') \/ Entry(heap'[b].exp, b) \in timers_' \cup expired'
    <3> DEFINE e == Entry(heap[b].exp, b)
    <3>1. heap[b].live <=> b \in AskedOf(pending) \/ e \in timers_ \cup expired
      BY DEF Owned
    <3>2. e.addr = b /\ Entry(heap'[b].exp, b) = e
      BY <2>2, EntryFields
    <3> HIDE DEF e
    <3>3. CASE b = a
      <4>1. e = gone /\ e \notin expired
        BY <2>3, <3>3 DEF e, gone, Owned
      <4> QED
        BY <2>1, <2>2, <2>6, <3>2, <3>3, <4>1
    <3>4. CASE b # a
      <4>1. e # gone
        BY <2>4, <3>2, <3>4
      <4> QED
        BY <2>1, <2>2, <3>1, <3>2, <3>4, <4>1
    <3> QED
      BY <3>3, <3>4
  <2>10. active_timers_' = {<<e.addr, heap'[e.addr].seq>> : e \in timers_'}
    <3>1. \A e \in timers_ : e.addr \in Addrs /\ heap'[e.addr].seq = heap[e.addr].seq
      BY <2>2 DEF Owned
    <3>2. active_timers_ = {<<e.addr, heap'[e.addr].seq>> : e \in timers_}
      BY <3>1 DEF Owned
    <3>3. \A e \in timers_ : e = gone <=> <<e.addr, heap'[e.addr].seq>> = <<a, s>>
      BY <2>2, <2>3, <2>4, <2>5
    <3> QED
      BY <2>1, <3>2, <3>3
  <2>11. timers_' \cap expired' = {}
    BY <2>1 DEF Owned
  <2> QED
    BY <2>1, <2>2, <2>7, <2>8, <2>9, <2>10, <2>11 DEF Owned
<1> QED
  BY <1>1, <1>2

-----------------------------------------------------------------------------
(* handle_read.                                                            *)

LEMMA OwnersAfterHandleRead ==
  ASSUME Owned, HandleRead, expired = {}
  PROVE  Owned'
<1>1. /\ expired' \subseteq timers_ /\ timers_' = timers_ \ expired'
      /\ active_timers_' = {x \in active_timers_ : \A e \in expired' : e.addr # x[1]}
      /\ heap' = heap /\ pending' = pending
  BY DEF HandleRead
<1>2. FunctorsFit(pending', heap')
  BY <1>1 DEF Owned, FunctorsFit
<1>3. timers_' \cup expired' = timers_ \cup expired /\ timers_' \cap expired' = {}
  BY <1>1
<1>4. \A a \in Addrs :
        heap'[a].live <=>
          a \in AskedOf(pending') \/ Entry(heap'[a].exp, a) \in timers_' \cup expired'
  BY <1>1, <1>3 DEF Owned
<1>5. \A e \in timers_' \cup expired' :
        /\ e.addr \in Addrs /\ e.addr \notin AskedOf(pending')
        /\ e = Entry(heap'[e.addr].exp, e.addr)
  BY <1>1, <1>3 DEF Owned
<1>6. active_timers_' = {<<e.addr, heap'[e.addr].seq>> : e \in timers_'}
  <2>1. \A e, f \in timers_ : e.addr = f.addr => e = f
    BY DEF Owned
  <2>2. \A e \in timers_ : e \in timers_' <=> \A f \in expired' : f.addr # e.addr
    BY <1>1, <2>1
  <2>3. active_timers_ = {<<e.addr, heap[e.addr].seq>> : e \in timers_}
    BY DEF Owned
  <2>4. \A x : x \in active_timers_' <=> \E e \in timers_' : x = <<e.addr, heap[e.addr].seq>>
    <3>1. ASSUME NEW x \in active_timers_'
          PROVE  \E e \in timers_' : x = <<e.addr, heap[e.addr].seq>>
      <4>1. PICK e \in timers_ : x = <<e.addr, heap[e.addr].seq>>
        BY <1>1, <2>3
      <4>2. x[1] = e.addr
        BY <4>1
      <4> QED
        BY <1>1, <2>2, <4>1, <4>2
    <3>2. ASSUME NEW e \in timers_'
          PROVE  <<e.addr, heap[e.addr].seq>> \in active_timers_'
      <4>1. <<e.addr, heap[e.addr].seq>> \in active_timers_
        BY <1>1, <2>3
      <4>2. \A f \in expired' : f.addr # <<e.addr, heap[e.addr].seq>>[1]
        BY <1>1, <2>2
      <4> QED
        BY <1>1, <4>1, <4>2
    <3> QED
      BY <3>1, <3>2
  <2> QED
    BY <1>1, <2>4
<1> QED
  BY <1>2, <1>3, <1>4, <1>5, <1>6 DEF Owned

\* reset().
LEMMA OwnersAfterReset ==
  ASSUME Owned, HeapType, now \in Nat, Reset, AskedOf(pending) \subseteq Addrs
  PROVE  Owned'
<1>1. /\ HeapType'
      /\ \A b \in Addrs :
           /\ heap'[b].live <=> heap[b].live /\ (b \in Restarted \/ b \notin Deleted)
           /\ heap'[b].exp = IF b \in Restarted THEN restart(b) ELSE heap[b].exp
           /\ heap'[b].seq = heap[b].seq /\ heap'[b].interval = heap[b].interval
           /\ restart(b) \in Nat
  BY ResetHeap
<1>2. /\ timers_' = timers_ \cup {Entry(restart(a), a) : a \in Restarted}
      /\ active_timers_' = active_timers_ \cup {<<a, heap[a].seq>> : a \in Restarted}
      /\ expired' = {} /\ pending' = pending
  BY DEF Reset, Again, Restarted
<1>3. \A e \in expired : e.addr \in Restarted \/ e.addr \in Deleted
  BY DEF Restarted, Deleted
<1>4. \A a \in Restarted \cup Deleted : a \in Addrs /\ Entry(heap[a].exp, a) \in expired
  BY DEF Owned, Restarted, Deleted, Again
<1>5. \A a \in Restarted \cup Deleted :
        a \notin AskedOf(pending) /\ heap[a].live /\ \A e \in timers_ : e.addr # a
  <2>1. \A a \in Restarted \cup Deleted : heap[a].live /\ a \notin AskedOf(pending)
    BY <1>4, EntryFields DEF Owned
  <2>2. ASSUME NEW a \in Restarted \cup Deleted, NEW e \in timers_, e.addr = a
        PROVE  FALSE
    BY <1>4, <2>2 DEF Owned
  <2> QED
    BY <2>1, <2>2
<1>6. FunctorsFit(pending', heap')
  <2>1. \A i \in AddsOf(pending) : pending[i].addr \in AskedOf(pending)
    BY DEF AskedOf
  <2>2. \A i \in AddsOf(pending) : heap'[pending[i].addr].seq = heap[pending[i].addr].seq
    BY <1>1, <2>1
  <2> QED
    BY <1>2, <2>2 DEF FunctorsFit, Owned
<1>7. \A a \in Restarted : Entry(restart(a), a).addr = a
  BY EntryFields
<1>8. ASSUME NEW e \in timers_'
      PROVE  /\ e.addr \in Addrs /\ e.addr \notin AskedOf(pending')
             /\ e = Entry(heap'[e.addr].exp, e.addr)
             /\ e \in timers_ \/ e.addr \in Restarted
  <2>1. CASE e \in timers_
    <3>1. e.addr \in Addrs /\ e.addr \notin Restarted
      BY <1>5, <2>1 DEF Owned
    <3> QED
      BY <1>1, <1>2, <2>1, <3>1 DEF Owned
  <2>2. CASE e \notin timers_
    <3>1. PICK a \in Restarted : e = Entry(restart(a), a)
      BY <1>2, <1>8, <2>2
    <3>2. e.addr = a
      BY <1>7, <3>1
    <3> QED
      BY <1>1, <1>2, <1>4, <1>5, <3>1, <3>2
  <2> QED
    BY <2>1, <2>2
<1>9. ASSUME NEW b \in Addrs
      PROVE  heap'[b].live <=> b \in AskedOf(pending') \/ Entry(heap'[b].exp, b) \in timers_' \cup expired'
  <2>1. CASE b \in Restarted
    <3>1. Entry(heap'[b].exp, b) \in timers_' /\ heap'[b].live
      BY <1>1, <1>2, <1>5, <2>1
    <3> QED
      BY <3>1
  <2>2. CASE b \in Deleted /\ b \notin Restarted
    <3>1. ~heap'[b].live /\ b \notin AskedOf(pending')
      BY <1>1, <1>2, <1>5, <2>2
    <3>2. Entry(heap'[b].exp, b) \notin timers_'
      BY <1>5, <1>8, <2>2, EntryFields
    <3> QED
      BY <1>2, <3>1, <3>2
  <2>3. CASE b \notin Deleted /\ b \notin Restarted
    <3> DEFINE e == Entry(heap[b].exp, b)
    <3>1. (heap'[b].live <=> heap[b].live) /\ Entry(heap'[b].exp, b) = e /\ e.addr = b
      BY <1>1, <2>3, EntryFields
    <3>2. heap[b].live <=> b \in AskedOf(pending) \/ e \in timers_ \cup expired
      BY DEF Owned
    <3> HIDE DEF e
    <3>3. e \notin expired
      BY <1>3, <2>3, <3>1
    <3>4. e \in timers_' <=> e \in timers_
      BY <1>2, <1>8, <2>3, <3>1
    <3> QED
      BY <1>2, <3>1, <3>2, <3>3, <3>4
  <2> QED
    BY <2>1, <2>2, <2>3
<1>10. active_timers_' = {<<e.addr, heap'[e.addr].seq>> : e \in timers_'}
  <2>1. \A e \in timers_' : heap'[e.addr].seq = heap[e.addr].seq
    BY <1>1, <1>8
  <2>2. \A a \in Restarted : \E e \in timers_' : e.addr = a
    BY <1>2, <1>7
  <2>3. active_timers_ = {<<e.addr, heap[e.addr].seq>> : e \in timers_}
    BY DEF Owned
  <2>4. \A e \in timers_' : <<e.addr, heap[e.addr].seq>> \in active_timers_'
    BY <1>2, <1>8, <2>3
  <2>5. \A x \in active_timers_' : \E e \in timers_' : x = <<e.addr, heap[e.addr].seq>>
    BY <1>2, <2>2, <2>3
  <2> QED
    BY <2>1, <2>4, <2>5
<1> QED
  BY <1>2, <1>6, <1>8, <1>9, <1>10 DEF Owned

LEMMA OwnedStep == TimerInv /\ [Next]_vars => Owned'
<1> SUFFICES ASSUME TimerInv, [Next]_vars PROVE Owned'
  OBVIOUS
<1> USE TypeParts DEF TimerInv
<1>1. CASE Tick \/ SetWall \/ RunTimer \/ UNCHANGED vars \/ \E t \in Threads : AddReturns(t)
  <2>1. UNCHANGED <<heap, timers_, active_timers_, expired, pending>>
    BY <1>1 DEF Tick, SetWall, RunTimer, AddReturns, vars, queueVars, batchVars
  <2> QED
    BY <2>1, OwnersStay DEF Owned
<1>2. CASE HandleRead
  <2>1. expired = {}
    BY <1>2 DEF HandleRead
  <2> QED
    BY <1>2, <2>1, OwnersAfterHandleRead
<1>3. CASE Reset
  BY <1>3, AskedAddrs, OwnersAfterReset
<1>4. CASE AddInLoop
  <2> DEFINE p == Head(pending)
  <2>1. /\ pending # <<>> /\ p.op = "add" /\ Inserts(p.addr, heap[p.addr].seq, heap[p.addr].exp)
        /\ pending' = Tail(pending) /\ UNCHANGED <<heap, expired>>
    BY <1>4 DEF AddInLoop, batchVars
  <2>2. FunctorsFit(pending, heap)
    BY DEF Owned
  <2>3. /\ p \in Functor /\ FunctorsFit(Tail(pending), heap) /\ p.addr \in AskedOf(pending)
        /\ AskedOf(Tail(pending)) = AskedOf(pending) \ {p.addr}
    BY <2>1, <2>2, NextFunctor
  <2>4. p.addr \in Addrs
    BY <2>3, FunctorFields
  <2> HIDE DEF p
  <2>5. heap[p.addr].live /\ \A e \in timers_ \cup expired : e.addr # p.addr
    BY <2>3, <2>4 DEF Owned
  <2> QED
    BY <2>1, <2>3, <2>4, <2>5, OwnersAfterInsert
<1>5. CASE CancelInLoop
  <2> DEFINE p == Head(pending)
  <2>1. /\ pending # <<>> /\ p.op = "cancel" /\ Cancels(p.addr, p.seq)
        /\ pending' = Tail(pending) /\ UNCHANGED expired
    BY <1>5 DEF CancelInLoop
  <2>2. FunctorsFit(pending, heap)
    BY DEF Owned
  <2>3. /\ p \in Functor /\ FunctorsFit(Tail(pending), heap)
        /\ AskedOf(Tail(pending)) = AskedOf(pending)
    BY <2>1, <2>2, NextFunctor
  <2>4. p.addr \in Addrs /\ p.seq \in Seqs
    BY <2>3, FunctorFields
  <2> HIDE DEF p
  <2> QED
    BY <2>1, <2>3, <2>4, AskedAddrs, OwnersAfterCancel
<1>6. CASE AddFromLoop
  <2>1. PICK a \in Addrs, d \in Delays, i \in Intervals :
          /\ Creates(a, wall + d, i) /\ Inserts(a, s_num_created_ + 1, wall + d)
    BY <1>6 DEF AddFromLoop
  <2>2. UNCHANGED <<expired, pending>>
    BY <1>6 DEF AddFromLoop, batchVars
  <2>3. wall + d \in Nat
    BY TimerAssumption
  <2>4. /\ ~heap[a].live /\ heap'[a].live /\ heap'[a].seq = s_num_created_ + 1
        /\ heap'[a].exp = wall + d
        /\ \A b \in Addrs : b # a => heap'[b] = heap[b]
    BY <2>1, <2>3, CreatesHeap
  <2>5. a \notin AskedOf(pending) /\ \A e \in timers_ \cup expired : e.addr # a
    BY <2>4 DEF Owned
  <2>6. FunctorsFit(pending', heap')
    <3>1. \A j \in AddsOf(pending) : pending[j].addr \in AskedOf(pending)
      BY DEF AskedOf
    <3>2. \A j \in AddsOf(pending) : heap'[pending[j].addr] = heap[pending[j].addr]
      BY <2>4, <2>5, <3>1, AskedAddrs
    <3> QED
      BY <2>2, <3>2 DEF FunctorsFit, Owned
  <2> QED
    BY <2>1, <2>2, <2>4, <2>5, <2>6, OwnersAfterInsert
<1>7. CASE CancelFromLoop
  <2>1. PICK id \in ids : Cancels(id[1], id[2])
    BY <1>7 DEF CancelFromLoop
  <2>2. id[1] \in Addrs /\ id[2] \in Seqs
    BY DEF Numbered
  <2>3. UNCHANGED <<expired, pending>> /\ FunctorsFit(pending', heap)
    BY <1>7 DEF CancelFromLoop, Owned
  <2> QED
    BY <2>1, <2>2, <2>3, AskedAddrs, OwnersAfterCancel
<1>8. CASE CancelFromThread
  <2>1. PICK id \in ids : pending' = Append(pending, [op |-> "cancel", addr |-> id[1], seq |-> id[2]])
    BY <1>8 DEF CancelFromThread
  <2> DEFINE p == [op |-> "cancel", addr |-> id[1], seq |-> id[2]]
  <2>2. p \in Functor /\ p.op = "cancel"
    BY DEF Numbered, Functor
  <2> HIDE DEF p
  <2>3. FunctorsFit(Append(pending, p), heap) /\ AskedOf(Append(pending, p)) = AskedOf(pending)
    BY <2>2, AppendFunctor DEF Owned
  <2>4. UNCHANGED <<heap, timers_, active_timers_, expired>>
    BY <1>8 DEF CancelFromThread, queueVars, batchVars
  <2> QED
    BY <2>1, <2>3, <2>4, OwnersStay DEF p
<1>9. ASSUME NEW t \in Threads, AddFromThread(t) PROVE Owned'
  <2>1. PICK a \in Addrs, d \in Delays, i \in Intervals :
          /\ Creates(a, wall + d, i)
          /\ pending' = Append(pending, [op |-> "add", addr |-> a, seq |-> s_num_created_ + 1])
    BY <1>9 DEF AddFromThread
  <2>2. UNCHANGED <<timers_, active_timers_, expired>>
    BY <1>9 DEF AddFromThread, batchVars
  <2>3. wall + d \in Nat
    BY TimerAssumption
  <2>4. /\ ~heap[a].live /\ heap'[a].live /\ heap'[a].seq = s_num_created_ + 1
        /\ s_num_created_ + 1 \in Seqs
        /\ \A b \in Addrs : b # a => heap'[b] = heap[b]
    BY <2>1, <2>3, CreatesHeap
  <2>5. a \notin AskedOf(pending) /\ \A e \in timers_ \cup expired : e.addr \in Addrs /\ e.addr # a
    BY <2>4 DEF Owned
  <2>6. FunctorsFit(pending, heap')
    <3>1. \A j \in AddsOf(pending) : pending[j].addr \in AskedOf(pending)
      BY DEF AskedOf
    <3>2. \A j \in AddsOf(pending) : heap'[pending[j].addr] = heap[pending[j].addr]
      BY <2>4, <2>5, <3>1, AskedAddrs
    <3> QED
      BY <3>2 DEF FunctorsFit, Owned
  <2> DEFINE p == [op |-> "add", addr |-> a, seq |-> s_num_created_ + 1]
  <2>7. p \in Functor /\ p.op = "add" /\ p.addr = a /\ p.seq = s_num_created_ + 1
    BY <2>4 DEF Functor
  <2> HIDE DEF p
  <2>8. /\ FunctorsFit(Append(pending, p), heap')
        /\ AskedOf(Append(pending, p)) = AskedOf(pending) \cup {a}
    BY <2>4, <2>5, <2>6, <2>7, AppendFunctor
  <2>9. FunctorsFit(pending', heap') /\ AskedOf(pending') = AskedOf(pending) \cup {a}
    BY <2>1, <2>8 DEF p
  <2>10. \A e \in timers_ \cup expired : heap'[e.addr] = heap[e.addr]
    BY <2>4, <2>5
  <2>11. ASSUME NEW b \in Addrs
         PROVE  heap'[b].live <=> b \in AskedOf(pending') \/ Entry(heap'[b].exp, b) \in timers_' \cup expired'
    <3>1. CASE b = a
      BY <2>4, <2>9, <3>1
    <3>2. CASE b # a
      BY <2>2, <2>4, <2>9, <3>2 DEF Owned
    <3> QED
      BY <3>1, <3>2
  <2> QED
    BY <2>2, <2>5, <2>9, <2>10, <2>11 DEF Owned
<1> QED
  BY <1>1, <1>2, <1>3, <1>4, <1>5, <1>6, <1>7, <1>8, <1>9 DEF Next, LoopStep, ThreadStep

\* A step that creates no timer.
LEMMA NumbersStay ==
  ASSUME Numbered, UNCHANGED <<s_num_created_, caller, ids>>,
         caller \in [Threads -> [addr : Addrs, seq : Seqs] \cup {Nowhere}],
         \A b \in Addrs : heap'[b].seq = heap[b].seq /\ (heap'[b].live => heap[b].live)
  PROVE  Numbered'
<1>1. \A t \in Threads : caller[t] # Nowhere => caller[t].addr \in Addrs
  OBVIOUS
<1> QED
  BY <1>1 DEF Numbered

LEMMA NumberOfNew ==
  ASSUME Numbered, HeapType, s_num_created_ \in 0 .. MaxSeq,
         caller \in [Threads -> [addr : Addrs, seq : Seqs] \cup {Nowhere}],
         NEW a \in Addrs, NEW w \in Nat, NEW i \in Intervals, Creates(a, w, i)
  PROVE  /\ \A b \in Addrs : heap'[b].live =>
              /\ heap'[b].seq \in Seqs /\ heap'[b].seq <= s_num_created_'
              /\ \A c \in Addrs : heap'[c].live /\ heap'[c].seq = heap'[b].seq => c = b
         /\ \A t \in Threads : caller[t] # Nowhere => heap'[caller[t].addr].seq \in Seqs
<1>1. /\ ~heap[a].live
      /\ s_num_created_' = s_num_created_ + 1 /\ s_num_created_' \in Seqs
      /\ heap'[a].live /\ heap'[a].seq = s_num_created_ + 1
      /\ \A b \in Addrs : b # a => heap'[b] = heap[b]
  BY CreatesHeap
<1>2. \A b \in Addrs : b # a /\ heap'[b].live =>
        heap'[b].seq \in Seqs /\ heap'[b].seq <= s_num_created_ /\ heap'[b].seq \in Nat
  BY <1>1 DEF Numbered, Seqs
<1>3. \A b \in Addrs : b # a /\ heap'[b].live => heap'[b].seq # heap'[a].seq
  BY <1>1, <1>2
<1>4. ASSUME NEW b \in Addrs, heap'[b].live
      PROVE  heap'[b].seq \in Seqs /\ heap'[b].seq <= s_num_created_'
  <2>1. CASE b = a
    BY <1>1, <2>1
  <2>2. CASE b # a
    BY <1>1, <1>2, <1>4, <2>2
  <2> QED
    BY <2>1, <2>2
<1>5. ASSUME NEW b \in Addrs, heap'[b].live, NEW c \in Addrs, heap'[c].live,
             heap'[c].seq = heap'[b].seq
      PROVE  c = b
  <2>1. CASE b # a /\ c # a
    BY <1>1, <1>5, <2>1 DEF Numbered
  <2> QED
    BY <1>3, <1>5, <2>1
<1>6. ASSUME NEW t \in Threads, caller[t] # Nowhere
      PROVE  heap'[caller[t].addr].seq \in Seqs
  <2>1. caller[t].addr \in Addrs
    BY <1>6
  <2>2. CASE caller[t].addr = a
    BY <1>1, <2>2
  <2>3. CASE caller[t].addr # a
    BY <1>1, <1>6, <2>1, <2>3 DEF Numbered
  <2> QED
    BY <2>2, <2>3
<1> QED
  BY <1>4, <1>5, <1>6

LEMMA NumberedStep == TimerInv /\ [Next]_vars => Numbered'
<1> SUFFICES ASSUME TimerInv, [Next]_vars PROVE Numbered'
  OBVIOUS
<1> USE TypeParts DEF TimerInv
<1>1. CASE \/ Tick \/ SetWall \/ RunTimer \/ UNCHANGED vars \/ HandleRead \/ AddInLoop
           \/ CancelFromThread
  <2>1. UNCHANGED <<heap, s_num_created_, caller, ids>>
    BY <1>1 DEF Tick, SetWall, RunTimer, HandleRead, AddInLoop, CancelFromThread, vars, queueVars,
                batchVars
  <2> QED
    BY <2>1, NumbersStay
<1>2. CASE Reset
  <2>1. \A b \in Addrs : heap'[b].seq = heap[b].seq /\ (heap'[b].live => heap[b].live)
    BY <1>2, ResetHeap
  <2>2. UNCHANGED <<s_num_created_, caller, ids>>
    BY <1>2 DEF Reset
  <2> QED
    BY <2>1, <2>2, NumbersStay
<1>3. CASE CancelInLoop \/ CancelFromLoop
  <2>1. heap' = heap \/ \E a \in Addrs : Frees(a)
    <3>1. CASE CancelInLoop
      <4>1. pending # <<>> /\ Cancels(Head(pending).addr, Head(pending).seq)
        BY <3>1 DEF CancelInLoop
      <4>2. Head(pending).addr \in Addrs
        BY <4>1, NextFunctor, FunctorFields DEF Owned
      <4> QED
        BY <4>1, <4>2 DEF Cancels
    <3>2. CASE CancelFromLoop
      <4>1. PICK id \in ids : Cancels(id[1], id[2])
        BY <3>2 DEF CancelFromLoop
      <4>2. id[1] \in Addrs
        BY DEF Numbered
      <4> QED
        BY <4>1, <4>2 DEF Cancels
    <3> QED
      BY <1>3, <3>1, <3>2
  <2>2. \A b \in Addrs : heap'[b].seq = heap[b].seq /\ (heap'[b].live => heap[b].live)
    BY <2>1, FreesHeap
  <2>3. UNCHANGED <<s_num_created_, caller, ids>>
    BY <1>3 DEF CancelInLoop, CancelFromLoop
  <2> QED
    BY <2>2, <2>3, NumbersStay
<1>4. CASE AddFromLoop
  <2>1. PICK a \in Addrs, d \in Delays, i \in Intervals :
          Creates(a, wall + d, i) /\ ids' = ids \cup {<<a, s_num_created_ + 1>>}
    BY <1>4 DEF AddFromLoop
  <2>2. wall + d \in Nat
    BY TimerAssumption
  <2>3. caller' = caller /\ s_num_created_ + 1 \in Seqs
    BY <1>4, <2>1, <2>2, CreatesHeap DEF AddFromLoop
  <2>4. ids' \subseteq Addrs \X Seqs
    BY <2>1, <2>3 DEF Numbered
  <2> QED
    BY <2>1, <2>2, <2>3, <2>4, NumberOfNew DEF Numbered
<1>5. ASSUME NEW t \in Threads, AddFromThread(t) PROVE Numbered'
  <2>1. PICK a \in Addrs, d \in Delays, i \in Intervals :
          /\ Creates(a, wall + d, i)
          /\ caller' = [caller EXCEPT ![t] = [addr |-> a, seq |-> s_num_created_ + 1]]
    BY <1>5 DEF AddFromThread
  <2>2. wall + d \in Nat
    BY TimerAssumption
  <2>3. ids' = ids /\ heap'[a].seq \in Seqs
    BY <1>5, <2>1, <2>2, CreatesHeap DEF AddFromThread
  <2>4. \A u \in Threads : caller'[u] # Nowhere => heap'[caller'[u].addr].seq \in Seqs
    <3>1. caller'[t].addr = a /\ \A u \in Threads : u # t => caller'[u] = caller[u]
      BY <2>1
    <3>2. \A u \in Threads : caller[u] # Nowhere => heap'[caller[u].addr].seq \in Seqs
      BY <2>1, <2>2, NumberOfNew
    <3> QED
      BY <2>3, <3>1, <3>2
  <2> QED
    BY <2>1, <2>2, <2>3, <2>4, NumberOfNew DEF Numbered
<1>6. ASSUME NEW t \in Threads, AddReturns(t) PROVE Numbered'
  <2>1. /\ caller[t] # Nowhere /\ ids' = ids \cup {<<caller[t].addr, heap[caller[t].addr].seq>>}
        /\ caller' = [caller EXCEPT ![t] = Nowhere]
        /\ UNCHANGED <<heap, s_num_created_>>
    BY <1>6 DEF AddReturns, queueVars
  <2>2. caller[t].addr \in Addrs /\ heap[caller[t].addr].seq \in Seqs
    BY <2>1 DEF Numbered
  <2>3. ids' \subseteq Addrs \X Seqs
    BY <2>1, <2>2 DEF Numbered
  <2>4. \A u \in Threads : caller'[u] # Nowhere => heap'[caller'[u].addr].seq \in Seqs
    BY <2>1 DEF Numbered
  <2> QED
    BY <2>1, <2>3, <2>4 DEF Numbered
<1> QED
  BY <1>1, <1>2, <1>3, <1>4, <1>5, <1>6 DEF Next, LoopStep, ThreadStep

LEMMA SeqsAreNumbers == Seqs \subseteq 0 .. MaxSeq
  BY TimerAssumption DEF Seqs

LEMMA TypesAfter ==
  ASSUME status' \in {"up", "use after free"},
         clock' \in Nat, wall' \in Nat \ {0}, steps' \in 0 .. MaxSteps,
         deadline' \in Nat, now' \in Nat, HeapType', s_num_created_' \in 0 .. MaxSeq,
         timers_' \subseteq [when : Nat, addr : Addrs],
         expired' \subseteq [when : Nat, addr : Addrs], begun' \subseteq expired',
         active_timers_' \subseteq Addrs \X Seqs, canceling_timers_' \subseteq Addrs \X Seqs,
         calling_expired_timers_' \in BOOLEAN, pending' \in Seq(Functor),
         caller' \in [Threads -> [addr : Addrs, seq : Seqs] \cup {Nowhere}],
         ids' \subseteq Addrs \X Seqs,
         expired' # {} => calling_expired_timers_'
  PROVE  TypeOK'
<1>1. ids' \subseteq Addrs \X (0 .. MaxSeq)
  BY SeqsAreNumbers
<1> QED
  BY <1>1, Zenon DEF TypeOK, HeapType, Timer, Functor

LEMMA TypeStep == TimerInv /\ [Next]_vars => TypeOK'
<1> SUFFICES ASSUME TimerInv, [Next]_vars PROVE TypeOK'
  OBVIOUS
<1> USE DEF TimerInv
<1>1. /\ clock \in Nat /\ wall \in Nat \ {0} /\ steps \in 0 .. MaxSteps
      /\ deadline \in Nat /\ now \in Nat /\ s_num_created_ \in 0 .. MaxSeq
      /\ HeapType /\ pending \in Seq(Functor)
      /\ timers_ \subseteq [when : Nat, addr : Addrs]
      /\ expired \subseteq [when : Nat, addr : Addrs] /\ begun \subseteq expired
      /\ active_timers_ \subseteq Addrs \X Seqs /\ canceling_timers_ \subseteq Addrs \X Seqs
      /\ caller \in [Threads -> [addr : Addrs, seq : Seqs] \cup {Nowhere}]
      /\ expired # {} => calling_expired_timers_
      /\ MaxSteps \in Nat
  BY TypeParts, TimerAssumption
<1>2. status \in {"up", "use after free"} /\ calling_expired_timers_ \in BOOLEAN
  BY DEF TypeOK
<1>3. ids' \subseteq Addrs \X Seqs
  BY NumberedStep DEF Numbered
<1>4. \A w \in Nat : Alarm(w) \in Nat
  BY <1>1, AlarmType
<1>5. CASE Tick \/ SetWall \/ UNCHANGED vars
  <2>1. /\ UNCHANGED <<status, deadline, now, heap, s_num_created_, timers_, expired, begun,
                       active_timers_, canceling_timers_, calling_expired_timers_, pending,
                       caller, ids>>
        /\ clock' \in Nat /\ wall' \in Nat \ {0} /\ steps' \in 0 .. MaxSteps
    BY <1>1, <1>5 DEF Tick, SetWall, vars, timeVars, queueVars, batchVars
  <2>2. HeapType'
    BY <1>1, <2>1 DEF HeapType
  <2> QED
    BY <1>1, <1>2, <1>3, <2>1, <2>2, TypesAfter
<1>6. CASE HandleRead
  <2>1. /\ UNCHANGED <<status, clock, wall, steps, heap, s_num_created_, begun, pending, caller, ids>>
        /\ deadline' = 0 /\ now' = wall /\ expired' \subseteq timers_ /\ timers_' \subseteq timers_
        /\ active_timers_' \subseteq active_timers_ /\ canceling_timers_' = {}
        /\ calling_expired_timers_' = TRUE /\ ~calling_expired_timers_
    BY <1>6 DEF HandleRead, timeVars
  <2>2. HeapType'
    BY <1>1, <2>1 DEF HeapType
  <2>3. begun' \subseteq expired'
    BY <1>1, <2>1
  <2>4. deadline' \in Nat /\ now' \in Nat
    BY <1>1, <2>1
  <2>5. /\ timers_' \subseteq [when : Nat, addr : Addrs]
        /\ expired' \subseteq [when : Nat, addr : Addrs]
        /\ active_timers_' \subseteq Addrs \X Seqs /\ canceling_timers_' \subseteq Addrs \X Seqs
    BY <1>1, <2>1
  <2> QED
    BY <1>1, <1>2, <1>3, <2>1, <2>2, <2>3, <2>4, <2>5, TypesAfter
<1>7. CASE RunTimer
  <2>1. /\ UNCHANGED <<status, clock, wall, steps, deadline, now, heap, s_num_created_, timers_,
                       expired, active_timers_, canceling_timers_, calling_expired_timers_,
                       pending, caller, ids>>
        /\ begun' \subseteq expired
    BY <1>1, <1>7 DEF RunTimer, timeVars, queueVars
  <2>2. HeapType'
    BY <1>1, <2>1 DEF HeapType
  <2> QED
    BY <1>1, <1>2, <1>3, <2>1, <2>2, TypesAfter
<1>8. CASE Reset
  <2>1. /\ UNCHANGED <<status, clock, wall, steps, s_num_created_, canceling_timers_, pending, caller, ids>>
        /\ calling_expired_timers_' = FALSE /\ expired' = {} /\ begun' = {} /\ now' = 0
        /\ timers_' = timers_ \cup {Entry(restart(a), a) : a \in Restarted}
        /\ active_timers_' = active_timers_ \cup {<<a, heap[a].seq>> : a \in Restarted}
        /\ deadline' = deadline \/ \E e \in timers_' : deadline' = Alarm(e.when)
    BY <1>8 DEF Reset, Again, Restarted, timeVars
  <2>2. HeapType' /\ \A b \in Addrs : restart(b) \in Nat
    BY <1>1, <1>8, ResetHeap
  <2>3. \A a \in Restarted : a \in Addrs /\ heap[a].seq \in Seqs
    <3>1. \A e \in expired : e.addr \in Addrs /\ heap[e.addr].live
      BY DEF Owned
    <3> QED
      BY <3>1 DEF Restarted, Again, Numbered
  <2>4. timers_' \subseteq [when : Nat, addr : Addrs]
    BY <1>1, <2>1, <2>2, <2>3, EntryFields
  <2>5. active_timers_' \subseteq Addrs \X Seqs
    BY <1>1, <2>1, <2>3
  <2>6. deadline' \in Nat /\ now' \in Nat
    BY <1>1, <1>4, <2>1, <2>4
  <2> QED
    BY <1>1, <1>2, <1>3, <2>1, <2>2, <2>4, <2>5, <2>6, TypesAfter
<1>9. CASE AddInLoop
  <2> DEFINE p == Head(pending)
  <2>1. /\ UNCHANGED <<status, clock, wall, steps, now, heap, s_num_created_, expired, begun,
                       canceling_timers_, calling_expired_timers_, caller, ids>>
        /\ Inserts(p.addr, heap[p.addr].seq, heap[p.addr].exp)
        /\ pending # <<>> /\ p.op = "add" /\ pending' = Tail(pending)
    BY <1>9 DEF AddInLoop, timeVars, batchVars
  <2>2. p \in Functor /\ pending' \in Seq(Functor) /\ heap[p.addr].seq = p.seq
    BY <1>1, <2>1, NextFunctor DEF Owned
  <2>3. p.addr \in Addrs /\ heap[p.addr].seq \in Seqs
    BY <2>2, FunctorFields
  <2> HIDE DEF p
  <2>4. heap[p.addr].exp \in Nat
    BY <1>1, <2>3, TimerFields DEF HeapType
  <2>5. /\ timers_' = timers_ \cup {Entry(heap[p.addr].exp, p.addr)}
        /\ active_timers_' = active_timers_ \cup {<<p.addr, heap[p.addr].seq>>}
        /\ deadline' \in {deadline, Alarm(heap[p.addr].exp)}
    BY <2>1 DEF Inserts
  <2>6. /\ timers_' \subseteq [when : Nat, addr : Addrs]
        /\ active_timers_' \subseteq Addrs \X Seqs /\ deadline' \in Nat
    <3>1. Entry(heap[p.addr].exp, p.addr) \in [when : Nat, addr : Addrs]
      BY <2>3, <2>4, EntryFields
    <3> DEFINE E == [when : Nat, addr : Addrs]
    <3> HIDE DEF E
    <3>2. timers_' \subseteq E
      BY <1>1, <2>5, <3>1 DEF E
    <3>3. active_timers_' \subseteq Addrs \X Seqs
      BY <1>1, <2>3, <2>5
    <3>4. deadline' \in Nat
      BY <1>1, <1>4, <2>4, <2>5
    <3> QED
      BY <3>2, <3>3, <3>4 DEF E
  <2>7. HeapType'
    BY <1>1, <2>1 DEF HeapType
  <2> QED
    BY <1>1, <1>2, <1>3, <2>1, <2>2, <2>6, <2>7, TypesAfter
<1>10. CASE CancelInLoop \/ CancelFromLoop
  <2>1. /\ UNCHANGED <<status, clock, wall, steps, deadline, now, s_num_created_, expired, begun,
                       calling_expired_timers_, caller, ids>>
    BY <1>10 DEF CancelInLoop, CancelFromLoop, timeVars
  <2>2. /\ pending' \in Seq(Functor)
        /\ \E a \in Addrs, s \in Seqs : Cancels(a, s)
    <3>1. CASE CancelInLoop
      <4>1. /\ pending # <<>> /\ Cancels(Head(pending).addr, Head(pending).seq)
            /\ pending' = Tail(pending)
        BY <3>1 DEF CancelInLoop
      <4>2. Head(pending) \in Functor /\ pending' \in Seq(Functor)
        BY <1>1, <4>1, NextFunctor DEF Owned
      <4> QED
        BY <4>1, <4>2, FunctorFields
    <3>2. CASE CancelFromLoop
      <4>1. PICK id \in ids : Cancels(id[1], id[2])
        BY <3>2 DEF CancelFromLoop
      <4>2. id[1] \in Addrs /\ id[2] \in Seqs
        BY DEF Numbered
      <4> QED
        BY <1>1, <3>2, <4>1, <4>2 DEF CancelFromLoop
    <3> QED
      BY <1>10, <3>1, <3>2
  <2>3. PICK a \in Addrs, s \in Seqs : Cancels(a, s)
    BY <2>2
  <2>4. /\ heap' = heap \/ Frees(a)
        /\ timers_' \subseteq timers_ /\ active_timers_' \subseteq active_timers_
        /\ canceling_timers_' \subseteq canceling_timers_ \cup {<<a, s>>}
    BY <2>3 DEF Cancels
  <2>5. HeapType'
    BY <1>1, <2>4, FreesHeap DEF HeapType
  <2>6. /\ timers_' \subseteq [when : Nat, addr : Addrs] /\ active_timers_' \subseteq Addrs \X Seqs
        /\ canceling_timers_' \subseteq Addrs \X Seqs
    BY <1>1, <2>4
  <2> QED
    BY <1>1, <1>2, <1>3, <2>1, <2>2, <2>5, <2>6, TypesAfter
<1>11. CASE AddFromLoop
  <2>1. PICK a \in Addrs, d \in Delays, i \in Intervals :
          /\ Creates(a, wall + d, i) /\ Inserts(a, s_num_created_ + 1, wall + d)
    BY <1>11 DEF AddFromLoop
  <2>2. UNCHANGED <<status, clock, wall, steps, now, expired, begun, canceling_timers_,
                    calling_expired_timers_, pending, caller>>
    BY <1>11 DEF AddFromLoop, timeVars, batchVars
  <2>3. wall + d \in Nat
    BY <1>1, TimerAssumption
  <2>4. HeapType' /\ s_num_created_' \in Seqs /\ s_num_created_' = s_num_created_ + 1
    BY <1>1, <2>1, <2>3, CreatesHeap
  <2>5. s_num_created_' \in 0 .. MaxSeq
    BY <2>4, TimerAssumption DEF Seqs
  <2>6. /\ timers_' = timers_ \cup {Entry(wall + d, a)}
        /\ active_timers_' = active_timers_ \cup {<<a, s_num_created_ + 1>>}
        /\ deadline' \in {deadline, Alarm(wall + d)}
    BY <2>1 DEF Inserts
  <2>7. /\ timers_' \subseteq [when : Nat, addr : Addrs]
        /\ active_timers_' \subseteq Addrs \X Seqs /\ deadline' \in Nat
    <3>1. Entry(wall + d, a) \in [when : Nat, addr : Addrs]
      BY <2>3, <2>3, EntryFields
    <3> DEFINE E == [when : Nat, addr : Addrs]
    <3> HIDE DEF E
    <3>2. timers_' \subseteq E
      BY <1>1, <2>6, <3>1 DEF E
    <3>3. active_timers_' \subseteq Addrs \X Seqs
      BY <1>1, <2>4, <2>6
    <3>4. deadline' \in Nat
      BY <1>1, <1>4, <2>3, <2>6
    <3> QED
      BY <3>2, <3>3, <3>4 DEF E
  <2> QED
    BY <1>1, <1>2, <1>3, <2>2, <2>4, <2>5, <2>7, TypesAfter
<1>12. CASE CancelFromThread
  <2>1. PICK id \in ids : pending' = Append(pending, [op |-> "cancel", addr |-> id[1], seq |-> id[2]])
    BY <1>12 DEF CancelFromThread
  <2>2. [op |-> "cancel", addr |-> id[1], seq |-> id[2]] \in Functor
    BY DEF Numbered, Functor
  <2>3. pending' \in Seq(Functor)
    BY <1>1, <2>1, <2>2, AppendProperties
  <2>4. UNCHANGED <<status, clock, wall, steps, deadline, now, heap, s_num_created_, timers_, expired,
                    begun, active_timers_, canceling_timers_, calling_expired_timers_, caller, ids>>
    BY <1>12 DEF CancelFromThread, timeVars, queueVars, batchVars
  <2>5. HeapType'
    BY <1>1, <2>4 DEF HeapType
  <2> QED
    BY <1>1, <1>2, <1>3, <2>3, <2>4, <2>5, TypesAfter
<1>13. ASSUME NEW t \in Threads, AddFromThread(t) PROVE TypeOK'
  <2>1. PICK a \in Addrs, d \in Delays, i \in Intervals :
          /\ Creates(a, wall + d, i)
          /\ caller' = [caller EXCEPT ![t] = [addr |-> a, seq |-> s_num_created_ + 1]]
          /\ pending' = Append(pending, [op |-> "add", addr |-> a, seq |-> s_num_created_ + 1])
    BY <1>13 DEF AddFromThread
  <2>2. UNCHANGED <<status, clock, wall, steps, deadline, now, timers_, expired, begun,
                    active_timers_, canceling_timers_, calling_expired_timers_, ids>>
    BY <1>13 DEF AddFromThread, timeVars, batchVars
  <2>3. wall + d \in Nat
    BY <1>1, TimerAssumption
  <2>4. HeapType' /\ s_num_created_' \in Seqs /\ s_num_created_' = s_num_created_ + 1
    BY <1>1, <2>1, <2>3, CreatesHeap
  <2>5. s_num_created_' \in 0 .. MaxSeq
    BY <2>4, TimerAssumption DEF Seqs
  <2>6. /\ [op |-> "add", addr |-> a, seq |-> s_num_created_ + 1] \in Functor
        /\ [addr |-> a, seq |-> s_num_created_ + 1] \in [addr : Addrs, seq : Seqs]
    BY <2>4 DEF Functor
  <2>7. pending' \in Seq(Functor)
    BY <1>1, <2>1, <2>6, AppendProperties
  <2>8. caller' \in [Threads -> [addr : Addrs, seq : Seqs] \cup {Nowhere}]
    BY <1>1, <2>1, <2>6
  <2> QED
    BY <1>1, <1>2, <1>3, <2>2, <2>4, <2>5, <2>7, <2>8, TypesAfter
<1>14. ASSUME NEW t \in Threads, AddReturns(t) PROVE TypeOK'
  <2>1. /\ UNCHANGED <<clock, wall, steps, deadline, now, heap, s_num_created_, timers_, expired, begun,
                       active_timers_, canceling_timers_, calling_expired_timers_, pending>>
        /\ status' \in {"up", "use after free"}
        /\ caller' = [caller EXCEPT ![t] = Nowhere]
    BY <1>14 DEF AddReturns, timeVars, queueVars, batchVars
  <2>2. caller' \in [Threads -> [addr : Addrs, seq : Seqs] \cup {Nowhere}]
    BY <1>1, <2>1
  <2>3. HeapType'
    BY <1>1, <2>1 DEF HeapType
  <2> QED
    BY <1>1, <1>2, <1>3, <2>1, <2>2, <2>3, TypesAfter
<1> QED
  BY <1>5, <1>6, <1>7, <1>8, <1>9, <1>10, <1>11, <1>12, <1>13, <1>14 DEF Next, LoopStep, ThreadStep

\* Whatever the loop and the other threads do: every timer has one owner, and what the
\* sets say of it is so.
THEOREM TimerInvariant == Spec => []TimerInv
<1>1. Init => TimerInv
  <2> SUFFICES ASSUME Init PROVE TimerInv
    OBVIOUS
  <2>1. heap = [a \in Addrs |-> [live |-> FALSE, seq |-> 0, exp |-> 0, interval |-> 0]]
    BY DEF Init
  <2>2. 0 \in 0 .. MaxSeq
    BY TimerAssumption
  <2>3. [live |-> FALSE, seq |-> 0, exp |-> 0, interval |-> 0] \in Timer
    BY <2>2 DEF Timer
  <2>4. HeapType /\ \A a \in Addrs : ~heap[a].live
    BY <2>1, <2>3 DEF HeapType
  <2>5. AddsOf(pending) = {} /\ AskedOf(pending) = {} /\ pending \in Seq(Functor)
    BY EmptySeq DEF Init, AddsOf, AskedOf
  <2>6. TypeOK
    <3>1. caller \in [Threads -> [addr : Addrs, seq : Seqs] \cup {Nowhere}]
      BY DEF Init
    <3>2. heap \in [Addrs -> [live : BOOLEAN, seq : 0 .. MaxSeq, exp : Nat,
                              interval : Intervals \cup {0}]]
      BY <2>4 DEF HeapType, Timer
    <3>3. pending \in Seq([op : {"add", "cancel"}, addr : Addrs, seq : Seqs])
      BY <2>5 DEF Functor
    <3>4. steps \in 0 .. MaxSteps /\ s_num_created_ \in 0 .. MaxSeq
      BY TimerAssumption DEF Init
    <3> QED
      <4>1. status = "up" /\ clock = 1 /\ wall = 1 /\ deadline = 0 /\ now = 0
        BY DEF Init
      <4>2. /\ timers_ = {} /\ active_timers_ = {} /\ canceling_timers_ = {} /\ ids = {}
            /\ expired = {} /\ begun = {} /\ calling_expired_timers_ = FALSE
        BY DEF Init
      <4>3. /\ timers_ \subseteq [when : Nat, addr : Addrs]
            /\ expired \subseteq [when : Nat, addr : Addrs] /\ begun \subseteq expired
            /\ active_timers_ \subseteq Addrs \X Seqs /\ canceling_timers_ \subseteq Addrs \X Seqs
            /\ ids \subseteq Addrs \X (0 .. MaxSeq) /\ calling_expired_timers_ \in BOOLEAN
            /\ expired # {} => calling_expired_timers_
        BY <4>2
      <4>4. /\ status \in {"up", "use after free"} /\ clock \in Nat /\ wall \in Nat \ {0}
            /\ deadline \in Nat /\ now \in Nat
        BY <4>1
      <4> QED
        BY <3>1, <3>2, <3>3, <3>4, <4>3, <4>4, Zenon DEF TypeOK
  <2>7. Numbered
    BY <2>4 DEF Init, Numbered
  <2>8. Owned
    BY <2>4, <2>5 DEF Init, Owned, FunctorsFit
  <2> QED
    BY <2>6, <2>7, <2>8 DEF TimerInv
<1>2. TimerInv /\ [Next]_vars => TimerInv'
  BY TypeStep, NumberedStep, OwnedStep DEF TimerInv
<1> QED
  BY <1>1, <1>2, PTL DEF Spec

\* Every variable has its type, and handle_read's locals exist only while it runs.
THEOREM TypeCorrect == Spec => []TypeOK
<1>1. TimerInv => TypeOK
  BY DEF TimerInv
<1> QED
  BY <1>1, TimerInvariant, PTL

\* The entries of one address.
LEMMA OneEntry ==
  ASSUME Owned, NEW a \in Addrs, NEW S \in {timers_, expired}
  PROVE  {e \in S : e.addr = a}
           = IF Entry(heap[a].exp, a) \in S THEN {Entry(heap[a].exp, a)} ELSE {}
<1>1. \A e \in S : e.addr = a => e = Entry(heap[a].exp, a)
  BY DEF Owned
<1>2. Entry(heap[a].exp, a).addr = a
  BY EntryFields
<1> QED
  BY <1>1, <1>2

\* timers_ and active_timers_ hold the same timers, each under its own expiration.
THEOREM TheQueuesAgree == Spec => []QueuesAgree
<1>1. TimerInv => QueuesAgree
  <2> SUFFICES ASSUME TimerInv PROVE QueuesAgree
    OBVIOUS
  <2>1. /\ active_timers_ = {<<e.addr, heap[e.addr].seq>> : e \in timers_}
        /\ \A e \in timers_ : e.addr \in Addrs /\ e = Entry(heap[e.addr].exp, e.addr)
    BY DEF TimerInv, Owned
  <2>2. \A e \in timers_ : heap[e.addr].exp = e.when
    BY <2>1, EntryFields
  <2>3. \A e, f \in timers_ : e.addr = f.addr => e = f
    BY <2>1
  <2>4. IsFiniteSet(timers_)
    <3>1. IsFiniteSet(Addrs)
      BY FS_Interval, TimerAssumption DEF Addrs
    <3> DEFINE g == [e \in timers_ |-> e.addr]
    <3>2. g \in Injection(timers_, Addrs)
      BY <2>1, <2>3 DEF Injection, IsInjective
    <3> HIDE DEF g
    <3> QED
      BY <3>1, <3>2, FS_Injection
  <2>5. ExistsBijection(timers_, active_timers_)
    <3> DEFINE g == [e \in timers_ |-> <<e.addr, heap[e.addr].seq>>]
    <3>1. g \in [timers_ -> active_timers_]
      BY <2>1
    <3>2. g \in Injection(timers_, active_timers_)
      BY <2>3, <3>1 DEF Injection, IsInjective
    <3>3. g \in Surjection(timers_, active_timers_)
      BY <2>1, <3>1 DEF Surjection
    <3>4. g \in Bijection(timers_, active_timers_)
      BY <3>2, <3>3 DEF Bijection
    <3> QED
      BY <3>4 DEF ExistsBijection
  <2>6. Cardinality(active_timers_) = Cardinality(timers_)
    BY <2>4, <2>5, FS_Bijection
  <2> QED
    BY <2>1, <2>2, <2>6 DEF QueuesAgree
<1> QED
  BY <1>1, TimerInvariant, PTL

\* No timer is leaked, run or deleted twice: until it is deleted it is in exactly one
\* functor, in timers_ once, or in the batch once.
THEOREM TimersAreOwnedOnce == Spec => []OwnedOnce
<1>1. TimerInv => OwnedOnce
  <2> SUFFICES ASSUME TimerInv, NEW a \in Addrs
               PROVE  Cardinality({e \in timers_ : e.addr = a})
                        + Cardinality({e \in expired : e.addr = a})
                        + Cardinality({i \in DOMAIN pending : pending[i].op = "add" /\ pending[i].addr = a})
                      = IF heap[a].live THEN 1 ELSE 0
    BY DEF OwnedOnce
  <2> DEFINE E == Entry(heap[a].exp, a)
             P == {i \in DOMAIN pending : pending[i].op = "add" /\ pending[i].addr = a}
             nT == Cardinality({e \in timers_ : e.addr = a})
             nE == Cardinality({e \in expired : e.addr = a})
             nP == Cardinality(P)
  <2>1. /\ heap[a].live <=> a \in AskedOf(pending) \/ E \in timers_ \/ E \in expired
        /\ ~(E \in timers_ /\ E \in expired)
        /\ a \in AskedOf(pending) => E \notin timers_ /\ E \notin expired
    BY EntryFields DEF TimerInv, Owned
  <2>2. nT = IF E \in timers_ THEN 1 ELSE 0
    BY OneEntry, FS_Singleton, FS_EmptySet DEF TimerInv
  <2>3. nE = IF E \in expired THEN 1 ELSE 0
    BY OneEntry, FS_Singleton, FS_EmptySet DEF TimerInv
  <2>4. nP = IF a \in AskedOf(pending) THEN 1 ELSE 0
    <3>1. CASE a \in AskedOf(pending)
      <4>1. PICK i \in AddsOf(pending) : pending[i].addr = a
        BY <3>1 DEF AskedOf
      <4>2. \A j \in AddsOf(pending) : pending[j].addr = a => j = i
        BY <4>1 DEF TimerInv, Owned, FunctorsFit
      <4>3. P = {i}
        BY <4>1, <4>2 DEF AddsOf
      <4> QED
        BY <3>1, <4>3, FS_Singleton
    <3>2. CASE a \notin AskedOf(pending)
      <4>1. P = {}
        BY <3>2 DEF AskedOf, AddsOf
      <4> QED
        BY <3>2, <4>1, FS_EmptySet
    <3> QED
      BY <3>1, <3>2
  <2> HIDE DEF E, nT, nE, nP
  <2>5. nT + nE + nP = IF heap[a].live THEN 1 ELSE 0
    BY <2>1, <2>2, <2>3, <2>4
  <2> QED
    BY <2>5 DEF nT, nE, nP
<1> QED
  BY <1>1, TimerInvariant, PTL

-----------------------------------------------------------------------------
(* The timerfd.                                                            *)

\* A time the timerfd may be armed for when a timer expires at w.
InTime(w) == deadline # 0 /\ (steps = 0 => deadline <= w \/ deadline <= clock + 1)

AlarmInv ==
  /\ steps = 0 => wall = clock
  /\ ~calling_expired_timers_ => \A e \in timers_ : InTime(e.when)

LEMMA StillInTime ==
  ASSUME NEW d \in Nat, NEW w \in Nat, NEW c \in Nat, NEW c1 \in Nat,
         d <= w \/ d <= c + 1, c <= c1
  PROVE  d <= w \/ d <= c1 + 1
  OBVIOUS

LEMMA InTimeAgain ==
  ASSUME NEW w \in Nat, InTime(w), clock \in Nat, deadline \in Nat, steps \in Nat,
         deadline' = deadline, clock' = clock \/ clock' = clock + 1, steps' = 0 => steps = 0
  PROVE  InTime(w)'
<1>1. clock' \in Nat /\ clock <= clock' /\ deadline' \in Nat
  OBVIOUS
<1>2. ASSUME steps' = 0 PROVE deadline' <= w \/ deadline' <= clock' + 1
  <2>1. steps = 0
    BY <1>2
  <2>2. deadline <= w \/ deadline <= clock + 1
    BY <2>1 DEF InTime
  <2>3. deadline <= w \/ deadline <= clock' + 1
    BY <1>1, <2>2, StillInTime
  <2> QED
    BY <2>3
<1> QED
  BY <1>2 DEF InTime

LEMMA ArmedFor ==
  ASSUME NEW v \in Nat, NEW w \in Nat, v <= w, clock \in Nat, wall \in Nat, steps = 0 => wall = clock,
         deadline' = Alarm(v), UNCHANGED <<clock, steps>>
  PROVE  InTime(w)'
  BY DEF InTime, Alarm

LEMMA ArmedByInsert ==
  ASSUME TypeOK, AlarmInv, ~calling_expired_timers_, UNCHANGED <<clock, wall, steps>>,
         NEW a \in Addrs, NEW s, NEW w \in Nat, Inserts(a, s, w)
  PROVE  \A e \in timers_' : InTime(e.when)'
<1>1. /\ clock \in Nat /\ wall \in Nat /\ deadline \in Nat /\ steps \in Nat
      /\ \A e \in timers_ : e.when \in Nat
  BY TypeParts
<1>2. timers_' = timers_ \cup {Entry(w, a)} /\ Entry(w, a).when = w
  BY EntryFields DEF Inserts
<1>3. CASE EarliestChanged(w)
  <2>1. deadline' = Alarm(w)
    BY <1>3 DEF Inserts
  <2>2. \A e \in timers_' : e.when \in Nat /\ w <= e.when
    BY <1>1, <1>2, <1>3 DEF EarliestChanged
  <2> QED
    BY <1>1, <2>1, <2>2, ArmedFor DEF AlarmInv
<1>4. CASE ~EarliestChanged(w)
  <2>1. deadline' = deadline
    BY <1>4 DEF Inserts
  <2>2. PICK f \in timers_ : ~(w < f.when)
    BY <1>4 DEF EarliestChanged
  <2>3. \A e \in timers_ : InTime(e.when)
    BY DEF AlarmInv
  <2>4. f.when \in Nat /\ f.when <= w /\ InTime(f.when)
    BY <1>1, <2>2, <2>3
  <2>5. InTime(w)
    BY <1>1, <2>4 DEF InTime
  <2>6. \A e \in timers_' : e.when \in Nat /\ InTime(e.when)
    BY <1>1, <1>2, <2>3, <2>5
  <2>7. ASSUME NEW e \in timers_'
        PROVE  InTime(e.when)'
    BY <1>1, <2>1, <2>6, InTimeAgain
  <2> QED
    BY <2>7
<1> QED
  BY <1>3, <1>4

LEMMA AlarmStep == TimerInv /\ AlarmInv /\ [Next]_vars => AlarmInv'
<1> SUFFICES ASSUME TimerInv, AlarmInv, [Next]_vars PROVE AlarmInv'
  OBVIOUS
<1>0. /\ clock \in Nat /\ wall \in Nat /\ deadline \in Nat /\ steps \in Nat
      /\ HeapType /\ \A e \in timers_ : e.when \in Nat
      /\ TypeOK /\ pending \in Seq(Functor) /\ now \in Nat
      /\ s_num_created_ \in 0 .. MaxSeq
  BY TypeParts DEF TimerInv
<1>1. CASE \/ Tick \/ SetWall \/ RunTimer \/ UNCHANGED vars \/ CancelInLoop \/ CancelFromLoop
           \/ CancelFromThread \/ \E t \in Threads : AddFromThread(t) \/ AddReturns(t)
  <2>1. deadline' = deadline /\ calling_expired_timers_' = calling_expired_timers_
    BY <1>1 DEF Tick, SetWall, RunTimer, CancelInLoop, CancelFromLoop, CancelFromThread,
                AddFromThread, AddReturns, vars, timeVars, queueVars, batchVars
  <2>2. timers_' \subseteq timers_
    BY <1>1 DEF Tick, SetWall, RunTimer, CancelInLoop, CancelFromLoop, CancelFromThread,
                AddFromThread, AddReturns, Cancels, vars, timeVars, queueVars, batchVars
  <2>3. \/ clock' = clock + 1 /\ wall' = wall + 1 /\ steps' = steps
        \/ clock' = clock /\ wall' = wall /\ steps' = steps
        \/ clock' = clock /\ steps' = steps + 1
    BY <1>1 DEF Tick, SetWall, RunTimer, CancelInLoop, CancelFromLoop, CancelFromThread,
                AddFromThread, AddReturns, vars, timeVars, queueVars, batchVars
  <2>4. (clock' = clock \/ clock' = clock + 1) /\ (steps' = 0 => steps = 0)
    BY <1>0, <2>3
  <2>5. \A e \in timers_ : InTime(e.when) => InTime(e.when)'
    BY <1>0, <2>1, <2>4, InTimeAgain
  <2>6. steps' = 0 => wall' = clock'
    BY <1>0, <2>3 DEF AlarmInv
  <2>7. ~calling_expired_timers_' => \A e \in timers_' : InTime(e.when)'
    BY <2>1, <2>2, <2>5 DEF AlarmInv
  <2> QED
    BY <2>6, <2>7 DEF AlarmInv
<1>2. CASE HandleRead
  BY <1>2 DEF HandleRead, timeVars, AlarmInv
<1>3. CASE Reset
  <2>1. /\ UNCHANGED <<clock, wall, steps>>
        /\ \/ timers_' = {}
           \/ \E e \in timers_' : /\ \A f \in timers_' : e.when <= f.when
                                  /\ deadline' = Alarm(e.when)
    BY <1>3 DEF Reset, timeVars
  <2>2. \A e \in timers_' : e.when \in Nat
    <3>1. timers_' \subseteq [when : Nat, addr : Addrs]
      <4>1. TypeOK'
        BY TypeStep
      <4> QED
        BY <4>1, Zenon DEF TypeOK
    <3> QED
      BY <3>1
  <2>3. \A f \in timers_' : InTime(f.when)'
    BY <1>0, <2>1, <2>2, ArmedFor DEF AlarmInv
  <2> QED
    BY <2>1, <2>3 DEF AlarmInv
<1>4. CASE AddInLoop
  <2> DEFINE p == Head(pending)
  <2>1. /\ pending # <<>> /\ ~calling_expired_timers_
        /\ Inserts(p.addr, heap[p.addr].seq, heap[p.addr].exp)
        /\ UNCHANGED <<clock, wall, steps>>
    BY <1>4 DEF AddInLoop, timeVars
  <2>2. p \in Functor
    BY <1>0, <2>1, HeadTailProperties
  <2>3. p.addr \in Addrs
    BY <2>2, FunctorFields
  <2> HIDE DEF p
  <2>4. heap[p.addr].exp \in Nat
    BY <1>0, <2>3, TimerFields DEF HeapType
  <2>5. \A e \in timers_' : InTime(e.when)'
    BY <1>0, <2>1, <2>3, <2>4, ArmedByInsert
  <2> QED
    BY <2>1, <2>5 DEF AlarmInv
<1>5. CASE AddFromLoop
  <2>1. PICK a \in Addrs, d \in Delays, i \in Intervals : Inserts(a, s_num_created_ + 1, wall + d)
    BY <1>5 DEF AddFromLoop
  <2>2. wall + d \in Nat
    BY <1>0, TimerAssumption
  <2>3. /\ UNCHANGED <<clock, wall, steps>> /\ calling_expired_timers_' = calling_expired_timers_
    BY <1>5 DEF AddFromLoop, timeVars, batchVars
  <2>4. ~calling_expired_timers_ => \A e \in timers_' : InTime(e.when)'
    BY <1>0, <2>1, <2>2, <2>3, ArmedByInsert
  <2> QED
    BY <2>3, <2>4 DEF AlarmInv
<1> QED
  BY <1>1, <1>2, <1>3, <1>4, <1>5 DEF Next, LoopStep, ThreadStep

\* Between two handle_reads the timerfd is armed whenever there is a timer, and, if nobody
\* has set the clock, early enough for the earliest of them.
THEOREM TheAlarmIsArmed == Spec => []AlarmArmed
<1>1. Init => AlarmInv
  BY DEF Init, AlarmInv
<1>2. AlarmInv => AlarmArmed
  BY DEF AlarmInv, AlarmArmed, InTime
<1> QED
  BY <1>1, <1>2, AlarmStep, TimerInvariant, PTL DEF Spec

-----------------------------------------------------------------------------
(* The timers of module Timers.                                            *)

\* The timer numbered s is the one at address a; where it is, and what Timers says of it.
Has(a, s) == heap[a].live /\ heap[a].seq = s
Place(a) == Entry(heap[a].exp, a)
Stage(a) ==
  IF a \in AskedOf(pending) THEN "asked"
  ELSE IF Place(a) \in timers_ THEN "waiting"
  ELSE IF Place(a) \in begun THEN "running" ELSE "due"
Record(is, w, i) == [is |-> is, due |-> w, every |-> i]
AsIs(a) == Record(Stage(a), heap[a].exp, heap[a].interval)

Staged(s) ==
  /\ s > s_num_created_ => TimerOf(s) = Record("none", 0, 0)
  /\ s <= s_num_created_ /\ (\A a \in Addrs : ~Has(a, s)) => TimerOf(s) = Record("over", 0, 0)
  /\ \A a \in Addrs : Has(a, s) =>
       TimerOf(s) = AsIs(a) /\ s <= s_num_created_

\* A number determines its timer, so the choices in TimerOf have one candidate.
LEMMA StageOfTimer ==
  ASSUME TimerInv, NEW s \in Seqs
  PROVE  Staged(s)
<1> DEFINE asked == {i \in DOMAIN pending : pending[i].op = "add" /\ pending[i].seq = s}
           is(what, e) == [is |-> what, due |-> e.when, every |-> heap[e.addr].interval]
<1>1. TimerOf(s) =
        CASE s > s_num_created_ -> [is |-> "none", due |-> 0, every |-> 0]
          [] asked # {} -> LET a == pending[CHOOSE i \in asked : TRUE].addr
                           IN  is("asked", Entry(heap[a].exp, a))
          [] Entries(timers_, s) # {} -> is("waiting", CHOOSE e \in Entries(timers_, s) : TRUE)
          [] Entries(expired \ begun, s) # {} -> is("due", CHOOSE e \in Entries(expired, s) : TRUE)
          [] Entries(begun, s) # {} -> is("running", CHOOSE e \in Entries(begun, s) : TRUE)
          [] OTHER -> [is |-> "over", due |-> 0, every |-> 0]
  BY DEF TimerOf
<1>2. /\ s_num_created_ \in 0 .. MaxSeq /\ begun \subseteq expired
      /\ AskedOf(pending) \subseteq Addrs /\ s \in Nat
  BY TypeParts, AskedAddrs, TimerAssumption DEF TimerInv, Seqs
<1>3. ASSUME NEW i \in asked
      PROVE  /\ pending[i].addr \in Addrs /\ pending[i].addr \in AskedOf(pending)
             /\ Has(pending[i].addr, s)
  <2>1. i \in AddsOf(pending)
    BY DEF AddsOf
  <2>2. pending[i].addr \in AskedOf(pending)
    BY <2>1 DEF AskedOf
  <2>3. heap[pending[i].addr].seq = s
    BY <2>1 DEF TimerInv, Owned, FunctorsFit
  <2> QED
    BY <1>2, <2>2, <2>3 DEF Has, TimerInv, Owned
<1>4. ASSUME NEW e \in timers_ \cup expired, heap[e.addr].seq = s
      PROVE  /\ e.addr \in Addrs /\ e.addr \notin AskedOf(pending)
             /\ Has(e.addr, s) /\ e = Place(e.addr) /\ e.when = heap[e.addr].exp
  BY <1>4, EntryFields DEF TimerInv, Owned, Has, Place
<1>5. ASSUME NEW a \in Addrs, Has(a, s) PROVE s <= s_num_created_
  BY <1>5 DEF Has, TimerInv, Numbered
<1>6. ASSUME s > s_num_created_ PROVE TimerOf(s) = Record("none", 0, 0)
  <2>1. \A a \in Addrs : ~Has(a, s)
    BY <1>2, <1>5, <1>6
  <2>2. asked = {}
    BY <1>3, <2>1
  <2>3. Entries(timers_, s) = {} /\ Entries(expired \ begun, s) = {} /\ Entries(begun, s) = {}
    BY <1>2, <1>4, <2>1 DEF Entries
  <2> HIDE DEF asked
  <2> QED
    BY <1>1, <1>6, <2>2, <2>3 DEF Record
<1>7. ASSUME s <= s_num_created_, \A a \in Addrs : ~Has(a, s)
      PROVE  TimerOf(s) = Record("over", 0, 0)
  <2>1. asked = {}
    BY <1>3, <1>7
  <2>2. Entries(timers_, s) = {} /\ Entries(expired \ begun, s) = {} /\ Entries(begun, s) = {}
    BY <1>2, <1>4, <1>7 DEF Entries
  <2>3. ~(s > s_num_created_)
    BY <1>2, <1>7
  <2> HIDE DEF asked
  <2> QED
    BY <1>1, <2>1, <2>2, <2>3 DEF Record
<1>8. ASSUME NEW a \in Addrs, Has(a, s)
      PROVE  TimerOf(s) = Record(Stage(a), heap[a].exp, heap[a].interval)
  <2>1. ~(s > s_num_created_)
    BY <1>2, <1>5, <1>8
  <2>2. \A b \in Addrs : Has(b, s) => b = a
    BY <1>8 DEF Has, TimerInv, Numbered
  <2>3. CASE a \in AskedOf(pending)
    <3>1. PICK j \in AddsOf(pending) : pending[j].addr = a
      BY <2>3 DEF AskedOf
    <3>2. pending[j].seq = s
      BY <1>8, <3>1 DEF Has, TimerInv, Owned, FunctorsFit
    <3>3. j \in asked
      BY <3>1, <3>2 DEF AddsOf
    <3> DEFINE i == CHOOSE i \in asked : TRUE
    <3>4. i \in asked
      BY <3>3
    <3>5. pending[i].addr = a
      BY <1>3, <2>2, <3>4
    <3>9. Entries(timers_, s) = {} /\ Entries(expired \ begun, s) = {} /\ Entries(begun, s) = {}
      BY <1>2, <1>4, <2>2, <2>3 DEF Entries
    <3> HIDE DEF asked, i
    <3>6. TimerOf(s) = is("asked", Entry(heap[a].exp, a))
      BY <1>1, <2>1, <3>3, <3>5, <3>9 DEF i
    <3>7. Entry(heap[a].exp, a).when = heap[a].exp /\ Entry(heap[a].exp, a).addr = a
      BY EntryFields
    <3>8. Stage(a) = "asked"
      BY <2>3 DEF Stage
    <3> QED
      BY <3>6, <3>7, <3>8 DEF Record
  <2>4. CASE a \notin AskedOf(pending)
    <3>1. asked = {}
      BY <1>3, <2>2, <2>4
    <3> HIDE DEF asked
    <3>2. Place(a).addr = a /\ Place(a).when = heap[a].exp
      BY EntryFields DEF Place
    <3>3. Place(a) \in timers_ \cup expired /\ timers_ \cap expired = {}
      BY <1>8, <2>4 DEF Has, Place, TimerInv, Owned
    <3>4. \A e \in timers_ \cup expired : heap[e.addr].seq = s => e = Place(a)
      BY <1>4, <2>2
    <3>5. heap[Place(a).addr].seq = s
      BY <1>8, <3>2 DEF Has
    <3> DEFINE p == Place(a)
    <3> HIDE DEF p
    <3>6. p \in timers_ \/ p \in expired
      BY <3>3 DEF p
    <3>7. CASE p \in timers_
      <4>1. /\ Entries(timers_, s) = {p}
            /\ Entries(expired \ begun, s) = {} /\ Entries(begun, s) = {}
        BY <1>2, <3>3, <3>4, <3>5, <3>7 DEF Entries, p
      <4>2. (CHOOSE e \in Entries(timers_, s) : TRUE) = p
        BY <4>1
      <4>3. TimerOf(s) = is("waiting", p)
        BY <1>1, <2>1, <3>1, <4>1, <4>2
      <4>4. Stage(a) = "waiting"
        BY <2>4, <3>7 DEF Stage, p
      <4> QED
        BY <3>2, <4>3, <4>4 DEF Record, p
    <3>8. CASE p \in expired
      <4>1. Entries(timers_, s) = {} /\ Entries(expired, s) = {p}
        BY <3>3, <3>4, <3>5, <3>8 DEF Entries, p
      <4>2. (CHOOSE e \in Entries(expired, s) : TRUE) = p
        BY <4>1
      <4>3. CASE p \in begun
        <5>1. Entries(begun, s) = {p} /\ Entries(expired \ begun, s) = {}
          BY <1>2, <3>4, <3>5, <4>3 DEF Entries, p
        <5>2. (CHOOSE e \in Entries(begun, s) : TRUE) = p
          BY <5>1
        <5>3. TimerOf(s) = is("running", p)
          BY <1>1, <2>1, <3>1, <4>1, <5>1, <5>2
        <5>4. Stage(a) = "running"
          BY <2>4, <3>3, <3>8, <4>3 DEF Stage, p
        <5> QED
          BY <3>2, <5>3, <5>4 DEF Record, p
      <4>4. CASE p \notin begun
        <5>1. Entries(expired \ begun, s) = {p} /\ Entries(begun, s) = {}
          BY <1>2, <3>4, <3>5, <3>8, <4>4 DEF Entries, p
        <5>2. TimerOf(s) = is("due", p)
          BY <1>1, <2>1, <3>1, <4>1, <4>2, <5>1
        <5>3. Stage(a) = "due"
          BY <2>4, <3>3, <3>8, <4>4 DEF Stage, p
        <5> QED
          BY <3>2, <5>2, <5>3 DEF Record, p
      <4> QED
        BY <4>3, <4>4
    <3> QED
      BY <3>6, <3>7, <3>8
  <2> QED
    BY <2>3, <2>4
<1> QED
  BY <1>5, <1>6, <1>7, <1>8 DEF Staged, AsIs

-----------------------------------------------------------------------------
(* The steps of Timers, by what they do to one timer.                      *)

\* TimerQueue's variables as those of Timers, and its steps.
TimerMap == [s \in Seqs |-> TimerOf(s)]
StoppedSet == {s \in Seqs : \E e \in Entries(expired, s) : <<e.addr, s>> \in canceling_timers_}

LEMMA MapKept ==
  ASSUME \A s \in Seqs : TimerOf(s)' = TimerOf(s)
  PROVE  TimerMap' = TimerMap
  BY DEF TimerMap

LEMMA MapChanged ==
  ASSUME NEW s \in Seqs, NEW r, TimerOf(s)' = r,
         \A q \in Seqs : q # s => TimerOf(q)' = TimerOf(q)
  PROVE  TimerMap' = [TimerMap EXCEPT ![s] = r]
  BY DEF TimerMap

LEMMA StoppedKept ==
  ASSUME UNCHANGED <<expired, canceling_timers_>>,
         \A e \in expired : heap'[e.addr].seq = heap[e.addr].seq
  PROVE  StoppedSet' = StoppedSet
<1>1. \A s \in Seqs : Entries(expired, s)' = Entries(expired, s)
  BY DEF Entries
<1> QED
  BY <1>1 DEF StoppedSet

LEMMA StutterMapped ==
  ASSUME UNCHANGED <<wall, now>>, TimerMap' = TimerMap, StoppedSet' = StoppedSet
  PROVE  UNCHANGED AsTimers!vars
  BY DEF AsTimers!vars, TimerMap, StoppedSet

LEMMA SetTimeMapped ==
  ASSUME wall' # wall, UNCHANGED now, TimerMap' = TimerMap, StoppedSet' = StoppedSet
  PROVE  AsTimers!Next
  BY DEF AsTimers!Next, AsTimers!SetTime, TimerMap, StoppedSet

LEMMA AddMapped ==
  ASSUME NEW s \in Seqs, NEW is \in {"waiting", "asked"}, NEW d \in Delays, NEW i \in Intervals,
         \A r \in Seqs : TimerOf(r) = Record("none", 0, 0) <=> r >= s,
         TimerMap' = [TimerMap EXCEPT ![s] = Record(is, wall + d, i)],
         UNCHANGED <<wall, now>>, StoppedSet' = StoppedSet
  PROVE  AsTimers!Next
<1>1. \A r \in Seqs : TimerMap[r] = AsTimers!None <=> r >= s
  BY DEF TimerMap, AsTimers!None, AsTimers!Timer, Record
<1>2. TimerMap' = [TimerMap EXCEPT ![s] = AsTimers!Timer(is, wall + d, i)]
  BY DEF AsTimers!Timer, Record
<1>3. AsTimers!Add(s)
  BY <1>1, <1>2 DEF AsTimers!Add, TimerMap, StoppedSet
<1> QED
  BY <1>3 DEF AsTimers!Next

LEMMA ArriveMapped ==
  ASSUME NEW s \in Seqs, NEW w, NEW i, now = 0,
         TimerOf(s) = Record("asked", w, i),
         TimerMap' = [TimerMap EXCEPT ![s] = Record("waiting", w, i)],
         UNCHANGED <<wall, now>>, StoppedSet' = StoppedSet
  PROVE  AsTimers!Next
<1>1. /\ TimerMap[s] = Record("asked", w, i) /\ TimerMap[s].is = "asked"
      /\ [TimerMap[s] EXCEPT !.is = "waiting"] = Record("waiting", w, i)
  BY DEF TimerMap, Record
<1>2. TimerMap' = [TimerMap EXCEPT ![s].is = "waiting"]
  BY <1>1
<1>3. AsTimers!Arrive(s)
  BY <1>1, <1>2 DEF AsTimers!Arrive, TimerMap, StoppedSet
<1> QED
  BY <1>3 DEF AsTimers!Next

LEMMA CancelWaitingMapped ==
  ASSUME NEW s \in Seqs, NEW w, NEW i,
         TimerOf(s) = Record("waiting", w, i),
         TimerMap' = [TimerMap EXCEPT ![s] = Record("over", 0, 0)],
         UNCHANGED <<wall, now>>, StoppedSet' = StoppedSet
  PROVE  AsTimers!Next
<1>1. TimerMap[s].is = "waiting"
  BY DEF TimerMap, Record
<1>2. TimerMap' = [TimerMap EXCEPT ![s] = AsTimers!Over]
  BY DEF AsTimers!Over, AsTimers!Timer, Record
<1>3. AsTimers!CancelWaiting(s)
  BY <1>1, <1>2 DEF AsTimers!CancelWaiting, TimerMap, StoppedSet
<1> QED
  BY <1>3 DEF AsTimers!Next

LEMMA CancelExpiredMapped ==
  ASSUME NEW s \in Seqs, NEW is \in {"due", "running"}, NEW w, NEW i,
         TimerOf(s) = Record(is, w, i), TimerMap' = TimerMap,
         UNCHANGED <<wall, now>>, StoppedSet' = StoppedSet \cup {s}
  PROVE  AsTimers!Next
<1>1. TimerMap[s].is \in {"due", "running"}
  BY DEF TimerMap, Record
<1>2. AsTimers!CancelExpired(s)
  BY <1>1 DEF AsTimers!CancelExpired, TimerMap, StoppedSet
<1> QED
  BY <1>2 DEF AsTimers!Next

LEMMA RunMapped ==
  ASSUME NEW s \in Seqs, NEW w, NEW i, TimerOf(s) = Record("due", w, i),
         \A r \in Seqs : TimerOf(r).is = "due" => w <= TimerOf(r).due,
         TimerMap' = [TimerMap EXCEPT ![s] = Record("running", w, i)],
         UNCHANGED <<wall, now>>, StoppedSet' = StoppedSet
  PROVE  AsTimers!Next
<1>1. /\ TimerMap[s] = Record("due", w, i) /\ TimerMap[s].is = "due" /\ TimerMap[s].due = w
      /\ [TimerMap[s] EXCEPT !.is = "running"] = Record("running", w, i)
  BY DEF TimerMap, Record
<1>2. TimerMap' = [TimerMap EXCEPT ![s].is = "running"]
  BY <1>1
<1>3. \A r \in Seqs : TimerMap[r].is = "due" => TimerMap[s].due <= TimerMap[r].due
  BY <1>1 DEF TimerMap
<1>4. AsTimers!Run(s)
  BY <1>1, <1>2, <1>3 DEF AsTimers!Run, TimerMap, StoppedSet
<1> QED
  BY <1>4 DEF AsTimers!Next

LEMMA ExpireMapped ==
  ASSUME now = 0, now' = wall, UNCHANGED wall, StoppedSet' = StoppedSet,
         \A s \in Seqs :
           TimerOf(s)' = IF TimerOf(s).is = "waiting" /\ TimerOf(s).due <= wall
                         THEN [TimerOf(s) EXCEPT !.is = "due"] ELSE TimerOf(s)
  PROVE  AsTimers!Next
<1>1. TimerMap' = [s \in Seqs |-> IF TimerMap[s].is = "waiting" /\ TimerMap[s].due <= wall
                                  THEN [TimerMap[s] EXCEPT !.is = "due"] ELSE TimerMap[s]]
  BY DEF TimerMap
<1>2. AsTimers!Expire
  BY <1>1 DEF AsTimers!Expire, TimerMap, StoppedSet
<1> QED
  BY <1>2 DEF AsTimers!Next

LEMMA RepeatMapped ==
  ASSUME now # 0, now' = 0, UNCHANGED wall, StoppedSet' = {},
         \A s \in Seqs :
           /\ TimerOf(s).is # "due"
           /\ TimerOf(s).is # "running" => TimerOf(s)' = TimerOf(s)
           /\ TimerOf(s).is = "running" =>
                TimerOf(s)' = IF TimerOf(s).every > 0 /\ s \notin StoppedSet
                              THEN Record("waiting", now + TimerOf(s).every, TimerOf(s).every)
                              ELSE Record("over", 0, 0)
  PROVE  AsTimers!Next
<1> DEFINE F(s) ==
             CASE TimerMap[s].is # "running" -> TimerMap[s]
               [] TimerMap[s].is = "running" /\ TimerMap[s].every > 0 /\ s \notin StoppedSet
                    -> AsTimers!Timer("waiting", now + TimerMap[s].every, TimerMap[s].every)
               [] OTHER -> AsTimers!Over
<1>1. ASSUME NEW s \in Seqs PROVE TimerOf(s)' = F(s)
  <2>1. TimerMap[s] = TimerOf(s)
    BY DEF TimerMap
  <2>2. CASE TimerOf(s).is # "running"
    BY <2>1, <2>2
  <2>3. CASE TimerOf(s).is = "running" /\ TimerOf(s).every > 0 /\ s \notin StoppedSet
    BY <2>1, <2>3 DEF AsTimers!Timer, Record
  <2>4. CASE TimerOf(s).is = "running" /\ ~(TimerOf(s).every > 0 /\ s \notin StoppedSet)
    BY <2>1, <2>4 DEF AsTimers!Over, AsTimers!Timer, Record
  <2> QED
    BY <2>2, <2>3, <2>4
<1>2. TimerMap' = [s \in Seqs |-> F(s)]
  <2> HIDE DEF F
  <2> QED
    BY <1>1 DEF TimerMap
<1>3. \A s \in Seqs : TimerMap[s].is # "due"
  BY DEF TimerMap
<1>4. AsTimers!Repeat
  BY <1>2, <1>3 DEF AsTimers!Repeat, TimerMap, StoppedSet
<1> QED
  BY <1>4 DEF AsTimers!Next

\* Every number has its timer's stage.
AllStaged == \A s \in Seqs : Staged(s)

\* A step that is nothing to the timer numbered s.
Kept(a, s) == (Has(a, s)' <=> Has(a, s)) /\ (Has(a, s) => AsIs(a)' = AsIs(a))

LEMMA TimerKept ==
  ASSUME NEW s \in Seqs, Staged(s), Staged(s)',
         s_num_created_ \in Nat, s_num_created_' \in Nat,
         s <= s_num_created_' <=> s <= s_num_created_,
         \A a \in Addrs : Kept(a, s)
  PROVE  TimerOf(s)' = TimerOf(s)
<1>0. s \in Nat
  BY DEF Seqs
<1>1. CASE s > s_num_created_
  <2>1. s > s_num_created_'
    BY <1>0, <1>1
  <2> QED
    BY <1>1, <2>1 DEF Staged
<1>2. CASE s <= s_num_created_ /\ \A a \in Addrs : ~Has(a, s)
  <2>1. \A a \in Addrs : ~Has(a, s)'
    BY <1>2 DEF Kept
  <2>2. TimerOf(s) = Record("over", 0, 0)
    BY <1>2 DEF Staged
  <2>3. TimerOf(s)' = Record("over", 0, 0)
    BY <1>2, <2>1 DEF Staged
  <2> QED
    BY <2>2, <2>3
<1>3. ASSUME NEW a \in Addrs, Has(a, s)
      PROVE  TimerOf(s)' = TimerOf(s)
  <2>1. Has(a, s)' /\ AsIs(a)' = AsIs(a)
    BY <1>3 DEF Kept
  <2>2. TimerOf(s) = AsIs(a)
    BY <1>3 DEF Staged
  <2>3. TimerOf(s)' = AsIs(a)'
    BY <2>1 DEF Staged
  <2> QED
    BY <2>1, <2>2, <2>3
<1> QED
  BY <1>0, <1>1, <1>2, <1>3

\* A step that is nothing to any timer.
LEMMA TimersStay ==
  ASSUME AllStaged, AllStaged', s_num_created_ \in Nat,
         UNCHANGED <<heap, timers_, begun, s_num_created_>>,
         AskedOf(pending') = AskedOf(pending)
  PROVE  TimerMap' = TimerMap
<1>1. ASSUME NEW a \in Addrs PROVE AsIs(a)' = AsIs(a)
  <2>1. Place(a)' = Place(a)
    BY DEF Place
  <2>2. Stage(a)' = Stage(a)
    BY <2>1 DEF Stage
  <2> QED
    BY <2>2 DEF AsIs
<1>2. \A s \in Seqs : \A a \in Addrs : Kept(a, s)
  BY <1>1 DEF Kept, Has
<1>3. \A s \in Seqs : TimerOf(s)' = TimerOf(s)
  BY <1>2, TimerKept DEF AllStaged
<1> QED
  BY <1>3, MapKept

LEMMA StageValues ==
  ASSUME NEW a
  PROVE  /\ AsIs(a).is = Stage(a) /\ AsIs(a).due = heap[a].exp /\ AsIs(a).every = heap[a].interval
         /\ Stage(a) \in {"asked", "waiting", "running", "due"}
  BY DEF AsIs, Record, Stage

\* What there is of a number depends on how far it was given out.
LEMMA NumbersGivenOut ==
  ASSUME AllStaged, s_num_created_ \in Nat, NEW r \in Seqs
  PROVE  TimerOf(r) = Record("none", 0, 0) <=> r >= s_num_created_ + 1
<1>0. r \in Nat
  BY DEF Seqs
<1>1. CASE r > s_num_created_
  BY <1>0, <1>1 DEF AllStaged, Staged
<1>2. CASE r <= s_num_created_ /\ \A a \in Addrs : ~Has(a, r)
  <2>1. TimerOf(r) = Record("over", 0, 0)
    BY <1>2 DEF AllStaged, Staged
  <2>2. Record("over", 0, 0) # Record("none", 0, 0)
    BY DEF Record
  <2> QED
    BY <1>0, <1>2, <2>1, <2>2
<1>3. ASSUME NEW a \in Addrs, Has(a, r), r <= s_num_created_
      PROVE  TimerOf(r) # Record("none", 0, 0)
  <2>1. TimerOf(r) = AsIs(a)
    BY <1>3 DEF AllStaged, Staged
  <2>2. AsIs(a).is # "none" /\ Record("none", 0, 0).is = "none"
    BY StageValues DEF Record
  <2> QED
    BY <2>1, <2>2
<1> QED
  BY <1>0, <1>1, <1>2, <1>3

\* A new timer.
LEMMA TimerAdded ==
  ASSUME AllStaged, AllStaged', s_num_created_ \in Nat,
         NEW a \in Addrs, ~heap[a].live, heap'[a].live,
         s_num_created_ + 1 \in Seqs, s_num_created_' = s_num_created_ + 1,
         heap'[a].seq = s_num_created_ + 1, UNCHANGED begun,
         \A b \in Addrs : b # a =>
           /\ heap'[b] = heap[b]
           /\ b \in AskedOf(pending') <=> b \in AskedOf(pending)
           /\ Place(b) \in timers_' <=> Place(b) \in timers_
  PROVE  TimerMap' = [TimerMap EXCEPT ![s_num_created_ + 1] = AsIs(a)']
<1>0. PICK s \in Seqs : s = s_num_created_ + 1
  OBVIOUS
<1>1. TimerOf(s)' = AsIs(a)'
  BY <1>0 DEF AllStaged, Staged, Has
<1>2. ASSUME NEW q \in Seqs, q # s PROVE TimerOf(q)' = TimerOf(q)
  <2>1. ASSUME NEW b \in Addrs PROVE Kept(b, q)
    <3>1. CASE b = a
      BY <1>0, <1>2, <3>1 DEF Kept, Has
    <3>2. CASE b # a
      <4>1. Place(b)' = Place(b)
        BY <3>2 DEF Place
      <4>2. Stage(b)' = Stage(b)
        BY <3>2, <4>1 DEF Stage
      <4> QED
        BY <3>2, <4>2 DEF Kept, Has, AsIs
    <3> QED
      BY <3>1, <3>2
  <2>2. q <= s_num_created_' <=> q <= s_num_created_
    BY <1>0, <1>2 DEF Seqs
  <2> QED
    BY <2>1, <2>2, TimerKept DEF AllStaged
<1>3. ASSUME NEW r, r = AsIs(a)' PROVE TimerMap' = [TimerMap EXCEPT ![s] = r]
  BY <1>1, <1>2, <1>3, MapChanged
<1> QED
  BY <1>0, <1>3

\* A timer that exists moves on.
LEMMA TimerMoved ==
  ASSUME AllStaged, AllStaged', TimerInv, s_num_created_ \in Nat, UNCHANGED s_num_created_,
         NEW a \in Addrs, heap[a].live, heap[a].seq \in Seqs,
         \A b \in Addrs : /\ heap'[b].seq = heap[b].seq
                          /\ heap'[b].live => heap[b].live
                          /\ b # a /\ heap[b].live => heap'[b].live /\ AsIs(b)' = AsIs(b)
  PROVE  /\ TimerOf(heap[a].seq) = AsIs(a)
         /\ \A r : (IF heap'[a].live THEN r = AsIs(a)' ELSE r = Record("over", 0, 0)) =>
              TimerMap' = [TimerMap EXCEPT ![heap[a].seq] = r]
<1> DEFINE s == heap[a].seq
<1>1. Has(a, s) /\ s \in Seqs
  BY DEF Has
<1>2. TimerOf(s) = AsIs(a) /\ s <= s_num_created_
  BY <1>1 DEF AllStaged, Staged
<1>3. ASSUME NEW q \in Seqs, q # s PROVE TimerOf(q)' = TimerOf(q)
  <2>1. \A b \in Addrs : Kept(b, q)
    BY <1>3 DEF Kept, Has
  <2> QED
    BY <2>1, TimerKept DEF AllStaged
<1>4. PICK s0 \in Seqs : s0 = s
  BY <1>1
<1>5. heap'[a].live => TimerOf(s0)' = AsIs(a)'
  BY <1>4 DEF AllStaged, Staged, Has
<1>6. ~heap'[a].live => TimerOf(s0)' = Record("over", 0, 0)
  <2>1. \A b \in Addrs : Has(b, s0) => b = a
    BY <1>1, <1>4 DEF Has, TimerInv, Numbered
  <2>2. ~heap'[a].live => \A b \in Addrs : ~Has(b, s0)'
    BY <2>1 DEF Has
  <2> QED
    BY <1>2, <1>4, <2>2 DEF AllStaged, Staged
<1> HIDE DEF s
<1>7. ASSUME NEW r, IF heap'[a].live THEN r = AsIs(a)' ELSE r = Record("over", 0, 0)
      PROVE  TimerMap' = [TimerMap EXCEPT ![s] = r]
  <2>1. TimerOf(s0)' = r
    BY <1>5, <1>6, <1>7
  <2> QED
    BY <1>3, <1>4, <2>1, MapChanged
<1> QED
  BY <1>2, <1>7 DEF s

-----------------------------------------------------------------------------
(* The steps of TimerQueue.                                                *)

\* handle_read has a time while it runs.
NowIsSet == calling_expired_timers_ <=> now # 0

\* What the steps start and end with.
Mapped == TimerInv /\ AllStaged /\ NowIsSet

LEMMA MappedParts ==
  ASSUME Mapped
  PROVE  /\ s_num_created_ \in Nat /\ s_num_created_ \in 0 .. MaxSeq
         /\ HeapType /\ wall \in Nat \ {0} /\ now \in Nat
         /\ pending \in Seq(Functor) /\ AskedOf(pending) \subseteq Addrs
         /\ \A e \in timers_ \cup expired :
              /\ e.addr \in Addrs /\ heap[e.addr].live /\ e = Place(e.addr)
              /\ e.when = heap[e.addr].exp /\ e.addr \notin AskedOf(pending)
         /\ timers_ \cap expired = {} /\ begun \subseteq expired
         /\ \A a \in Addrs : heap[a].live => heap[a].seq \in Seqs
         /\ expired # {} => calling_expired_timers_
<1>1. \A e \in timers_ \cup expired :
        /\ e.addr \in Addrs /\ heap[e.addr].live /\ e = Place(e.addr)
        /\ e.when = heap[e.addr].exp /\ e.addr \notin AskedOf(pending)
  BY EntryFields DEF Mapped, TimerInv, Owned, Place
<1> QED
  BY <1>1, TypeParts, AskedAddrs, TimerAssumption DEF Mapped, TimerInv, Numbered, Owned

LEMMA PlaceFields ==
  ASSUME NEW a
  PROVE  Place(a).addr = a /\ Place(a).when = heap[a].exp
  BY EntryFields DEF Place

\* Between its batches the queue has nobody stopped.
LEMMA NobodyStopped ==
  ASSUME expired = {}
  PROVE  StoppedSet = {}
  BY DEF StoppedSet, Entries

LEMMA AddFromLoopMapped ==
  ASSUME Mapped, AllStaged', AddFromLoop
  PROVE  AsTimers!Next
<1> USE MappedParts
<1>1. PICK a \in Addrs, d \in Delays, i \in Intervals :
        /\ Creates(a, wall + d, i) /\ Inserts(a, s_num_created_ + 1, wall + d)
  BY DEF AddFromLoop
<1>2. UNCHANGED <<wall, now, expired, begun, canceling_timers_, pending>>
  BY DEF AddFromLoop, batchVars, timeVars
<1>3. wall + d \in Nat
  BY TimerAssumption
<1>4. /\ s_num_created_' = s_num_created_ + 1 /\ s_num_created_' \in Seqs
      /\ ~heap[a].live /\ heap'[a].live /\ heap'[a].seq = s_num_created_ + 1
      /\ heap'[a].exp = wall + d /\ heap'[a].interval = i
      /\ \A b \in Addrs : b # a => heap'[b] = heap[b]
  BY <1>1, <1>3, CreatesHeap
<1>5. timers_' = timers_ \cup {Entry(wall + d, a)}
  BY <1>1 DEF Inserts
<1>6. Entry(wall + d, a).addr = a
  BY EntryFields
<1>7. \A b \in Addrs : b # a => (Place(b) \in timers_' <=> Place(b) \in timers_)
  BY <1>5, <1>6, PlaceFields
<1>8. a \notin AskedOf(pending)
  BY <1>4 DEF Mapped, TimerInv, Owned
<1>9. Stage(a)' = "waiting"
  BY <1>2, <1>4, <1>5, <1>8 DEF Stage, Place
<1>10. AsIs(a)' = Record("waiting", wall + d, i)
  BY <1>4, <1>9 DEF AsIs
<1>11. TimerMap' = [TimerMap EXCEPT ![s_num_created_ + 1] = AsIs(a)']
  BY <1>2, <1>4, <1>7, TimerAdded DEF Mapped
<1>12. StoppedSet' = StoppedSet
  BY <1>2, <1>4, StoppedKept
<1>13. PICK s \in Seqs : s = s_num_created_ + 1
  BY <1>4
<1>14. \A r \in Seqs : TimerOf(r) = Record("none", 0, 0) <=> r >= s
  BY <1>13, NumbersGivenOut DEF Mapped
<1>15. TimerMap' = [TimerMap EXCEPT ![s] = Record("waiting", wall + d, i)]
  BY <1>10, <1>11, <1>13
<1> QED
  BY <1>2, <1>12, <1>14, <1>15, AddMapped

LEMMA AddFromThreadMapped ==
  ASSUME Mapped, AllStaged', NEW t \in Threads, AddFromThread(t)
  PROVE  AsTimers!Next
<1> USE MappedParts
<1>1. PICK a \in Addrs, d \in Delays, i \in Intervals :
        /\ Creates(a, wall + d, i)
        /\ pending' = Append(pending, [op |-> "add", addr |-> a, seq |-> s_num_created_ + 1])
  BY DEF AddFromThread
<1>2. UNCHANGED <<wall, now, expired, begun, canceling_timers_, timers_>>
  BY DEF AddFromThread, batchVars, timeVars
<1>3. wall + d \in Nat
  BY TimerAssumption
<1>4. /\ s_num_created_' = s_num_created_ + 1 /\ s_num_created_' \in Seqs
      /\ ~heap[a].live /\ heap'[a].live /\ heap'[a].seq = s_num_created_ + 1
      /\ heap'[a].exp = wall + d /\ heap'[a].interval = i
      /\ \A b \in Addrs : b # a => heap'[b] = heap[b]
  BY <1>1, <1>3, CreatesHeap
<1> DEFINE p == [op |-> "add", addr |-> a, seq |-> s_num_created_ + 1]
<1>5. p \in Functor /\ p.op = "add" /\ p.addr = a
  BY <1>4 DEF Functor
<1> HIDE DEF p
<1>6. AskedOf(Append(pending, p)) = AskedOf(pending) \cup {a}
  BY <1>5, AppendFunctor DEF Mapped, TimerInv, Owned
<1>7. AskedOf(pending') = AskedOf(pending) \cup {a}
  BY <1>1, <1>6 DEF p
<1>9. Stage(a)' = "asked"
  BY <1>7 DEF Stage
<1>10. AsIs(a)' = Record("asked", wall + d, i)
  BY <1>4, <1>9 DEF AsIs
<1>11. TimerMap' = [TimerMap EXCEPT ![s_num_created_ + 1] = AsIs(a)']
  BY <1>2, <1>4, <1>7, TimerAdded DEF Mapped
<1>12. StoppedSet' = StoppedSet
  BY <1>2, <1>4, StoppedKept
<1>13. PICK s \in Seqs : s = s_num_created_ + 1
  BY <1>4
<1>14. \A r \in Seqs : TimerOf(r) = Record("none", 0, 0) <=> r >= s
  BY <1>13, NumbersGivenOut DEF Mapped
<1>15. TimerMap' = [TimerMap EXCEPT ![s] = Record("asked", wall + d, i)]
  BY <1>10, <1>11, <1>13
<1> QED
  BY <1>2, <1>12, <1>14, <1>15, AddMapped

LEMMA AddInLoopMapped ==
  ASSUME Mapped, AllStaged', AddInLoop
  PROVE  AsTimers!Next
<1> USE MappedParts
<1> DEFINE p == Head(pending)
<1>1. /\ pending # <<>> /\ p.op = "add" /\ Inserts(p.addr, heap[p.addr].seq, heap[p.addr].exp)
      /\ pending' = Tail(pending) /\ ~calling_expired_timers_
      /\ UNCHANGED <<heap, s_num_created_, wall, now, expired, begun, canceling_timers_>>
  BY DEF AddInLoop, batchVars, timeVars
<1>2. /\ p \in Functor /\ p.addr \in AskedOf(pending)
      /\ AskedOf(Tail(pending)) = AskedOf(pending) \ {p.addr}
  BY <1>1, NextFunctor DEF Mapped, TimerInv, Owned
<1>3. PICK a \in Addrs : a = p.addr
  BY <1>2
<1> HIDE DEF p
<1>4. heap[a].live /\ heap[a].seq \in Seqs
  BY <1>2, <1>3 DEF Mapped, TimerInv, Owned
<1>5. timers_' = timers_ \cup {Place(a)} /\ AskedOf(pending') = AskedOf(pending) \ {a}
  BY <1>1, <1>2, <1>3 DEF Inserts, Place
<1>6. ASSUME NEW b \in Addrs, b # a PROVE AsIs(b)' = AsIs(b)
  <2>1. Place(b)' = Place(b) /\ Place(b) # Place(a)
    BY <1>1, <1>6, PlaceFields DEF Place
  <2>2. Stage(b)' = Stage(b)
    BY <1>1, <1>5, <1>6, <2>1 DEF Stage
  <2> QED
    BY <1>1, <2>2 DEF AsIs
<1>7. Stage(a) = "asked" /\ Stage(a)' = "waiting"
  BY <1>1, <1>2, <1>3, <1>5 DEF Stage, Place
<1>8. AsIs(a) = Record("asked", heap[a].exp, heap[a].interval)
  BY <1>7 DEF AsIs
<1>9. AsIs(a)' = Record("waiting", heap[a].exp, heap[a].interval)
  BY <1>1, <1>7 DEF AsIs
<1> DEFINE r == Record("waiting", heap[a].exp, heap[a].interval)
<1>10. r = AsIs(a)' /\ heap'[a].live
  BY <1>1, <1>4, <1>9
<1> HIDE DEF r
<1>11. TimerOf(heap[a].seq) = AsIs(a) /\ TimerMap' = [TimerMap EXCEPT ![heap[a].seq] = r]
  BY <1>1, <1>4, <1>6, <1>10, TimerMoved DEF Mapped
<1>12. StoppedSet' = StoppedSet
  BY <1>1, StoppedKept
<1>13. now = 0
  BY <1>1 DEF Mapped, NowIsSet
<1> QED
  BY <1>1, <1>4, <1>8, <1>11, <1>12, <1>13, ArriveMapped DEF r

\* cancel_in_loop, directly or in a functor.
LEMMA CancelsMapped ==
  ASSUME Mapped, AllStaged', NEW a \in Addrs, NEW s \in Seqs, Cancels(a, s),
         UNCHANGED <<s_num_created_, wall, now, expired, begun>>,
         AskedOf(pending') = AskedOf(pending)
  PROVE  [AsTimers!Next]_(AsTimers!vars)
<1> USE MappedParts
<1>1. CASE <<a, s>> \in active_timers_
  <2>1. /\ timers_' = timers_ \ {Place(a)} /\ Frees(a) /\ UNCHANGED canceling_timers_
    BY <1>1 DEF Cancels, Place
  <2>2. \A b \in Addrs : /\ heap'[b].live <=> heap[b].live /\ b # a
                         /\ heap'[b].seq = heap[b].seq /\ heap'[b].exp = heap[b].exp
                         /\ heap'[b].interval = heap[b].interval
    BY <2>1, FreesHeap
  <2>3. PICK e \in timers_ : e.addr = a /\ heap[a].seq = s
    BY <1>1 DEF Mapped, TimerInv, Owned
  <2>4. heap[a].live /\ Place(a) \in timers_ /\ a \notin AskedOf(pending)
    BY <2>3
  <2>5. ASSUME NEW b \in Addrs, b # a PROVE AsIs(b)' = AsIs(b)
    <3>1. Place(b)' = Place(b) /\ Place(b) # Place(a)
      BY <2>2, <2>5, PlaceFields DEF Place
    <3>2. Stage(b)' = Stage(b)
      BY <2>1, <2>5, <3>1 DEF Stage
    <3> QED
      BY <2>2, <3>2 DEF AsIs
  <2>6. AsIs(a) = Record("waiting", heap[a].exp, heap[a].interval)
    BY <2>4 DEF AsIs, Stage
  <2>7. /\ TimerOf(heap[a].seq) = AsIs(a)
        /\ TimerMap' = [TimerMap EXCEPT ![heap[a].seq] = Record("over", 0, 0)]
    BY <2>2, <2>4, <2>5, TimerMoved DEF Mapped
  <2>8. StoppedSet' = StoppedSet
    BY <2>1, <2>2, StoppedKept
  <2> QED
    BY <2>3, <2>6, <2>7, <2>8, CancelWaitingMapped
<1>2. CASE <<a, s>> \notin active_timers_
  <2>1. /\ UNCHANGED <<timers_, heap>>
        /\ canceling_timers_' = IF calling_expired_timers_ THEN canceling_timers_ \cup {<<a, s>>}
                                ELSE canceling_timers_
    BY <1>2 DEF Cancels
  <2>2. TimerMap' = TimerMap
    BY <2>1, TimersStay DEF Mapped
  <2>3. \A q \in Seqs : Entries(expired, q)' = Entries(expired, q)
    BY <2>1 DEF Entries
  <2>4. CASE \E e \in Entries(expired, s) : e.addr = a
    <3>1. PICK e \in Entries(expired, s) : e.addr = a
      BY <2>4
    <3>2. e \in expired /\ heap[a].seq = s /\ e = Place(a) /\ heap[a].live
          /\ a \notin AskedOf(pending) /\ e \notin timers_
      BY <3>1 DEF Entries
    <3>3. Stage(a) \in {"due", "running"}
      BY <3>2 DEF Stage
    <3>4. TimerOf(s) = Record(Stage(a), heap[a].exp, heap[a].interval)
      BY <3>2 DEF Mapped, AllStaged, Staged, Has, AsIs
    <3>5. canceling_timers_' = canceling_timers_ \cup {<<a, s>>}
      BY <2>1, <3>2
    <3>6. ASSUME NEW q \in Seqs
          PROVE  q \in StoppedSet' <=> q \in StoppedSet \/ q = s
      <4>1. \A f \in Entries(expired, q) : <<f.addr, q>> = <<a, s>> => q = s
        OBVIOUS
      <4>2. q = s => e \in Entries(expired, q)' /\ <<e.addr, q>> \in canceling_timers_'
        BY <2>3, <3>1, <3>5
      <4> QED
        BY <2>3, <3>5, <4>2 DEF StoppedSet
    <3>7. StoppedSet' = StoppedSet \cup {s}
      BY <3>6 DEF StoppedSet
    <3> QED
      BY <2>2, <3>3, <3>4, <3>7, CancelExpiredMapped
  <2>5. CASE ~\E e \in Entries(expired, s) : e.addr = a
    <3>1. ASSUME NEW q \in Seqs
          PROVE  q \in StoppedSet' <=> q \in StoppedSet
      <4>1. \A f \in Entries(expired, q) : <<f.addr, q>> # <<a, s>>
        BY <2>5
      <4> QED
        BY <2>1, <2>3, <4>1 DEF StoppedSet
    <3>2. StoppedSet' = StoppedSet
      BY <3>1 DEF StoppedSet
    <3> QED
      BY <2>2, <3>2, StutterMapped
  <2> QED
    BY <2>4, <2>5
<1> QED
  BY <1>1, <1>2

LEMMA HandleReadMapped ==
  ASSUME Mapped, AllStaged', HandleRead
  PROVE  AsTimers!Next
<1> USE MappedParts
<1>1. /\ ~calling_expired_timers_ /\ now' = wall
      /\ expired' = {e \in timers_ : e.when <= wall} /\ timers_' = timers_ \ expired'
      /\ UNCHANGED <<heap, begun, pending, wall, s_num_created_>>
      /\ canceling_timers_' = {}
  BY DEF HandleRead, timeVars
<1>2. now = 0 /\ expired = {} /\ begun = {}
  BY <1>1 DEF Mapped, NowIsSet
<1>3. StoppedSet = {} /\ StoppedSet' = {}
  BY <1>1, <1>2, NobodyStopped DEF StoppedSet
<1>4. ASSUME NEW s \in Seqs
      PROVE  TimerOf(s)' = IF TimerOf(s).is = "waiting" /\ TimerOf(s).due <= wall
                           THEN [TimerOf(s) EXCEPT !.is = "due"] ELSE TimerOf(s)
  <2>1. s \in Nat
    BY DEF Seqs
  <2>2. CASE s > s_num_created_
    <3>1. TimerOf(s) = Record("none", 0, 0) /\ TimerOf(s)' = Record("none", 0, 0)
      BY <1>1, <2>2 DEF Mapped, AllStaged, Staged
    <3> QED
      BY <3>1 DEF Record
  <2>3. CASE s <= s_num_created_ /\ \A a \in Addrs : ~Has(a, s)
    <3>1. TimerOf(s) = Record("over", 0, 0) /\ TimerOf(s)' = Record("over", 0, 0)
      BY <1>1, <2>3 DEF Mapped, AllStaged, Staged, Has
    <3> QED
      BY <3>1 DEF Record
  <2>4. ASSUME NEW a \in Addrs, Has(a, s)
        PROVE  TimerOf(s)' = IF TimerOf(s).is = "waiting" /\ TimerOf(s).due <= wall
                             THEN [TimerOf(s) EXCEPT !.is = "due"] ELSE TimerOf(s)
    <3>1. TimerOf(s) = Record(Stage(a), heap[a].exp, heap[a].interval)
      BY <2>4 DEF Mapped, AllStaged, Staged, AsIs
    <3>2. TimerOf(s)' = Record(Stage(a)', heap[a].exp, heap[a].interval)
      BY <1>1, <2>4 DEF AllStaged, Staged, AsIs, Has
    <3>3. Place(a)' = Place(a) /\ Place(a).when = heap[a].exp
      BY <1>1, PlaceFields DEF Place
    <3>4. a \in AskedOf(pending) \/ Place(a) \in timers_
      BY <1>2, <2>4 DEF Has, Place, Mapped, TimerInv, Owned
    <3>5. Stage(a) \in {"asked", "waiting"}
      BY <3>4 DEF Stage
    <3>6. Stage(a)' = IF Stage(a) = "waiting" /\ heap[a].exp <= wall THEN "due" ELSE Stage(a)
      <4>1. CASE a \in AskedOf(pending)
        BY <1>1, <4>1 DEF Stage
      <4>2. CASE a \notin AskedOf(pending)
        <5>1. Stage(a) = "waiting" /\ Place(a) \in timers_
          BY <3>4, <4>2 DEF Stage
        <5>2. Place(a) \in timers_' <=> ~(heap[a].exp <= wall)
          BY <1>1, <3>3, <5>1
        <5>3. Stage(a)' = IF Place(a) \in timers_' THEN "waiting" ELSE "due"
          BY <1>1, <1>2, <3>3, <4>2 DEF Stage
        <5> QED
          BY <5>1, <5>2, <5>3
      <4> QED
        BY <4>1, <4>2
    <3> QED
      BY <3>1, <3>2, <3>5, <3>6 DEF Record
  <2> QED
    BY <2>1, <2>2, <2>3, <2>4
<1> QED
  BY <1>1, <1>2, <1>3, <1>4, ExpireMapped

LEMMA RunTimerMapped ==
  ASSUME Mapped, AllStaged', RunTimer
  PROVE  AsTimers!Next
<1> USE MappedParts
<1>1. PICK e \in expired \ begun : /\ \A f \in expired \ begun : f = e \/ Before(e, f)
                                   /\ begun' = begun \cup {e}
  BY DEF RunTimer
<1>2. UNCHANGED <<heap, timers_, expired, canceling_timers_, pending, s_num_created_, wall, now>>
  BY DEF RunTimer, queueVars, timeVars
<1>3. PICK a \in Addrs : a = e.addr
  BY <1>1
<1>4. /\ heap[a].live /\ heap[a].seq \in Seqs /\ e = Place(a) /\ e.when = heap[a].exp
      /\ a \notin AskedOf(pending) /\ e \notin timers_ /\ e \notin begun
  BY <1>1, <1>3
<1>5. ASSUME NEW b \in Addrs, b # a PROVE AsIs(b)' = AsIs(b)
  <2>1. Place(b)' = Place(b) /\ Place(b) # e
    BY <1>2, <1>4, <1>5, PlaceFields DEF Place
  <2>2. Stage(b)' = Stage(b)
    BY <1>1, <1>2, <2>1 DEF Stage
  <2> QED
    BY <1>2, <2>2 DEF AsIs
<1>6. Stage(a) = "due" /\ Stage(a)' = "running"
  <2>1. Place(a)' = e
    BY <1>2, <1>4 DEF Place
  <2> QED
    BY <1>1, <1>2, <1>4, <2>1 DEF Stage
<1>7. AsIs(a) = Record("due", heap[a].exp, heap[a].interval)
  BY <1>6 DEF AsIs
<1>8. AsIs(a)' = Record("running", heap[a].exp, heap[a].interval)
  BY <1>2, <1>6 DEF AsIs
<1> DEFINE r == Record("running", heap[a].exp, heap[a].interval)
<1>9. r = AsIs(a)' /\ heap'[a].live
  BY <1>2, <1>4, <1>8
<1> HIDE DEF r
<1>10. TimerOf(heap[a].seq) = AsIs(a) /\ TimerMap' = [TimerMap EXCEPT ![heap[a].seq] = r]
  BY <1>2, <1>4, <1>5, <1>9, TimerMoved DEF Mapped
<1>11. ASSUME NEW q \in Seqs, TimerOf(q).is = "due" PROVE heap[a].exp <= TimerOf(q).due
  <2>1. q \in Nat /\ ~(TimerOf(q) = Record("none", 0, 0)) /\ ~(TimerOf(q) = Record("over", 0, 0))
    BY <1>11 DEF Record, Seqs
  <2>2. PICK b \in Addrs : Has(b, q)
    BY <2>1 DEF Mapped, AllStaged, Staged
  <2>3. TimerOf(q) = AsIs(b)
    BY <2>2 DEF Mapped, AllStaged, Staged
  <2>4. Stage(b) = "due" /\ TimerOf(q).due = heap[b].exp
    BY <1>11, <2>3, StageValues
  <2>5. Place(b) \in expired \ begun
    BY <2>2, <2>4 DEF Stage, Place, Has, Mapped, TimerInv, Owned
  <2>6. Place(b).when = heap[b].exp /\ heap[b].exp \in Nat /\ heap[a].exp \in Nat
    BY PlaceFields, TimerFields DEF HeapType
  <2>7. Place(b) = e \/ e.when <= Place(b).when
    BY <1>1, <1>4, <2>5, <2>6 DEF Before
  <2> QED
    BY <1>4, <2>4, <2>6, <2>7
<1>12. StoppedSet' = StoppedSet
  BY <1>2, StoppedKept
<1> QED
  BY <1>2, <1>4, <1>7, <1>10, <1>11, <1>12, RunMapped DEF r

LEMMA ResetMapped ==
  ASSUME Mapped, AllStaged', Reset
  PROVE  AsTimers!Next
<1> USE MappedParts
<1>1. /\ calling_expired_timers_ /\ begun = expired
      /\ timers_' = timers_ \cup {Entry(restart(a), a) : a \in Restarted}
      /\ expired' = {} /\ begun' = {} /\ now' = 0
      /\ UNCHANGED <<pending, wall, s_num_created_>>
  BY DEF Reset, Again, Restarted, timeVars
<1>2. \A b \in Addrs :
        /\ heap'[b].live <=> heap[b].live /\ (b \in Restarted \/ b \notin Deleted)
        /\ heap'[b].exp = IF b \in Restarted THEN restart(b) ELSE heap[b].exp
        /\ heap'[b].seq = heap[b].seq /\ heap'[b].interval = heap[b].interval
  BY ResetHeap
<1>3. now # 0 /\ StoppedSet' = {}
  <2>1. StoppedSet' = {}
    BY <1>1 DEF StoppedSet, Entries
  <2> QED
    BY <1>1, <2>1 DEF Mapped, NowIsSet
<1>4. ASSUME NEW a \in Addrs, NEW s \in Seqs, Has(a, s)
      PROVE  /\ TimerOf(s) = AsIs(a) /\ Stage(a) # "due"
             /\ Stage(a) # "running" => TimerOf(s)' = TimerOf(s)
             /\ Stage(a) = "running" =>
                  TimerOf(s)' = IF heap[a].interval > 0 /\ s \notin StoppedSet
                                THEN Record("waiting", now + heap[a].interval, heap[a].interval)
                                ELSE Record("over", 0, 0)
  <2>1. TimerOf(s) = AsIs(a) /\ s <= s_num_created_
    BY <1>4 DEF Mapped, AllStaged, Staged
  <2>2. Stage(a) # "due"
    BY <1>1, <1>4 DEF Stage, Place, Has, Mapped, TimerInv, Owned
  <2>3. Place(a).addr = a
    BY PlaceFields
  <2>4. \A e \in expired : e.addr = a => e = Place(a)
    OBVIOUS
  <2>5. CASE Stage(a) = "running"
    <3>1. Place(a) \in expired /\ a \notin AskedOf(pending) /\ Place(a) \notin timers_
      BY <1>1, <2>3, <2>5 DEF Stage
    <3>2. s \in StoppedSet <=> <<a, s>> \in canceling_timers_
      <4>1. Entries(expired, s) = {Place(a)}
        <5>1. \A e \in expired : heap[e.addr].seq = s => e.addr = a
          BY <1>4 DEF Has, Mapped, TimerInv, Numbered
        <5> QED
          BY <1>4, <2>3, <2>4, <3>1, <5>1 DEF Entries, Has
      <4> QED
        BY <2>3, <4>1 DEF StoppedSet
    <3>3. Restarts(Place(a)) <=> heap[a].interval > 0 /\ s \notin StoppedSet
      BY <1>4, <2>3, <3>2 DEF Restarts, Has
    <3>4. CASE Restarts(Place(a))
      <4>1. a \in Restarted
        BY <2>3, <3>1, <3>4 DEF Restarted, Again
      <4>2. Has(a, s)' /\ heap'[a].exp = now + heap[a].interval
        BY <1>2, <1>4, <4>1 DEF Has, restart
      <4>3. Place(a)' \in timers_'
        BY <1>1, <1>2, <4>1 DEF Place
      <4>4. Stage(a)' = "waiting"
        BY <1>1, <3>1, <4>3 DEF Stage
      <4>5. TimerOf(s)' = AsIs(a)'
        BY <4>2 DEF AllStaged, Staged
      <4>6. TimerOf(s)' = Record("waiting", now + heap[a].interval, heap[a].interval)
        BY <1>2, <4>2, <4>4, <4>5 DEF AsIs
      <4> QED
        BY <2>1, <2>2, <2>5, <3>3, <3>4, <4>6
    <3>5. CASE ~Restarts(Place(a))
      <4>1. a \in Deleted /\ a \notin Restarted
        BY <2>3, <2>4, <3>1, <3>5 DEF Restarted, Deleted, Again
      <4>2. \A b \in Addrs : ~Has(b, s)'
        BY <1>2, <1>4, <4>1 DEF Has, Mapped, TimerInv, Numbered
      <4>3. TimerOf(s)' = Record("over", 0, 0)
        BY <1>1, <2>1, <4>2 DEF AllStaged, Staged
      <4> QED
        BY <2>1, <2>2, <2>5, <3>3, <3>5, <4>3
    <3> QED
      BY <3>4, <3>5
  <2>6. CASE Stage(a) # "running"
    <3>1. Place(a) \notin expired
      <4>1. ~(Place(a) \in expired /\ a \in AskedOf(pending))
        BY <2>3
      <4>2. ~(Place(a) \in expired /\ Place(a) \in timers_)
        BY <2>3
      <4> QED
        BY <1>1, <2>6, <4>1, <4>2 DEF Stage
    <3>2. \A e \in expired : e.addr # a
      BY <2>4, <3>1
    <3>3. a \notin Restarted /\ a \notin Deleted
      BY <3>2 DEF Restarted, Deleted, Again
    <3>4. Has(a, s)' /\ heap'[a].exp = heap[a].exp
      BY <1>2, <1>4, <3>3 DEF Has
    <3>5. Place(a)' = Place(a)
      BY <3>4 DEF Place
    <3>6. \A b \in Restarted : Entry(restart(b), b).addr # a
      BY <3>3, EntryFields
    <3>7. Place(a) \in timers_' <=> Place(a) \in timers_
      BY <1>1, <2>3, <3>6
    <3>8. a \in AskedOf(pending) \/ Place(a) \in timers_
      BY <1>4, <3>1 DEF Has, Place, Mapped, TimerInv, Owned
    <3>9. Stage(a)' = Stage(a)
      BY <1>1, <3>5, <3>7, <3>8 DEF Stage
    <3>10. AsIs(a)' = AsIs(a)
      BY <1>2, <3>4, <3>9 DEF AsIs
    <3>11. TimerOf(s)' = AsIs(a)'
      BY <3>4 DEF AllStaged, Staged
    <3> QED
      BY <2>1, <2>2, <2>6, <3>10, <3>11
  <2> QED
    BY <2>5, <2>6
<1>5. ASSUME NEW s \in Seqs
      PROVE  /\ TimerOf(s).is # "due"
             /\ TimerOf(s).is # "running" => TimerOf(s)' = TimerOf(s)
             /\ TimerOf(s).is = "running" =>
                  TimerOf(s)' = IF TimerOf(s).every > 0 /\ s \notin StoppedSet
                                THEN Record("waiting", now + TimerOf(s).every, TimerOf(s).every)
                                ELSE Record("over", 0, 0)
  <2>1. s \in Nat
    BY DEF Seqs
  <2>2. CASE s > s_num_created_
    <3>1. TimerOf(s) = Record("none", 0, 0) /\ TimerOf(s)' = Record("none", 0, 0)
      BY <1>1, <2>2 DEF Mapped, AllStaged, Staged
    <3>2. Record("none", 0, 0).is = "none"
      BY DEF Record
    <3> QED
      BY <3>1, <3>2
  <2>3. CASE s <= s_num_created_ /\ \A a \in Addrs : ~Has(a, s)
    <3>1. \A a \in Addrs : ~Has(a, s)'
      BY <1>2, <2>3 DEF Has
    <3>2. TimerOf(s) = Record("over", 0, 0) /\ TimerOf(s)' = Record("over", 0, 0)
      BY <1>1, <2>3, <3>1 DEF Mapped, AllStaged, Staged
    <3>3. Record("over", 0, 0).is = "over"
      BY DEF Record
    <3> QED
      BY <3>2, <3>3
  <2>4. ASSUME NEW a \in Addrs, Has(a, s)
        PROVE  /\ TimerOf(s).is # "due"
               /\ TimerOf(s).is # "running" => TimerOf(s)' = TimerOf(s)
               /\ TimerOf(s).is = "running" =>
                    TimerOf(s)' = IF TimerOf(s).every > 0 /\ s \notin StoppedSet
                                  THEN Record("waiting", now + TimerOf(s).every, TimerOf(s).every)
                                  ELSE Record("over", 0, 0)
    <3>1. TimerOf(s) = AsIs(a)
      BY <1>4, <2>4
    <3>2. TimerOf(s).is = Stage(a) /\ TimerOf(s).every = heap[a].interval
      BY <3>1, StageValues
    <3> QED
      BY <1>4, <2>4, <3>2
  <2> QED
    BY <2>1, <2>2, <2>3, <2>4
<1> QED
  BY <1>1, <1>3, <1>5, RepeatMapped

-----------------------------------------------------------------------------
(* The implementation.                                                     *)

LEMMA StepMapped == Mapped /\ AllStaged' /\ [Next]_vars => [AsTimers!Next]_(AsTimers!vars)
<1> SUFFICES ASSUME Mapped, AllStaged', [Next]_vars PROVE [AsTimers!Next]_(AsTimers!vars)
  OBVIOUS
<1> USE MappedParts
<1>1. CASE Tick \/ SetWall
  <2>1. /\ wall' # wall
        /\ UNCHANGED <<heap, timers_, expired, begun, canceling_timers_, pending, s_num_created_, now>>
    BY <1>1 DEF Tick, SetWall, queueVars, batchVars
  <2>2. TimerMap' = TimerMap /\ StoppedSet' = StoppedSet
    BY <2>1, TimersStay, StoppedKept DEF Mapped
  <2> QED
    BY <2>1, <2>2, SetTimeMapped
<1>2. CASE UNCHANGED vars \/ \E t \in Threads : AddReturns(t)
  <2>1. UNCHANGED <<heap, timers_, expired, begun, canceling_timers_, pending, s_num_created_, now, wall>>
    BY <1>2 DEF AddReturns, vars, queueVars, batchVars, timeVars
  <2>2. TimerMap' = TimerMap /\ StoppedSet' = StoppedSet
    BY <2>1, TimersStay, StoppedKept DEF Mapped
  <2> QED
    BY <2>1, <2>2, StutterMapped
<1>3. CASE CancelFromThread
  <2>1. PICK id \in ids : pending' = Append(pending, [op |-> "cancel", addr |-> id[1], seq |-> id[2]])
    BY <1>3 DEF CancelFromThread
  <2> DEFINE p == [op |-> "cancel", addr |-> id[1], seq |-> id[2]]
  <2>2. p \in Functor /\ p.op = "cancel"
    BY DEF Mapped, TimerInv, Numbered, Functor
  <2> HIDE DEF p
  <2>3. AskedOf(Append(pending, p)) = AskedOf(pending)
    BY <2>2, AppendFunctor DEF Mapped, TimerInv, Owned
  <2>4. /\ AskedOf(pending') = AskedOf(pending)
        /\ UNCHANGED <<heap, timers_, expired, begun, canceling_timers_, s_num_created_, now, wall>>
    BY <1>3, <2>1, <2>3 DEF CancelFromThread, queueVars, batchVars, timeVars, p
  <2>5. TimerMap' = TimerMap /\ StoppedSet' = StoppedSet
    BY <2>4, TimersStay, StoppedKept DEF Mapped
  <2> QED
    BY <2>4, <2>5, StutterMapped
<1>4. CASE CancelFromLoop
  <2>1. PICK id \in ids : Cancels(id[1], id[2])
    BY <1>4 DEF CancelFromLoop
  <2>2. id[1] \in Addrs /\ id[2] \in Seqs
    BY DEF Mapped, TimerInv, Numbered
  <2>3. UNCHANGED <<s_num_created_, wall, now, expired, begun, pending>>
    BY <1>4 DEF CancelFromLoop, timeVars
  <2> QED
    BY <2>1, <2>2, <2>3, CancelsMapped
<1>5. CASE CancelInLoop
  <2> DEFINE p == Head(pending)
  <2>1. /\ pending # <<>> /\ p.op = "cancel" /\ Cancels(p.addr, p.seq)
        /\ pending' = Tail(pending)
        /\ UNCHANGED <<s_num_created_, wall, now, expired, begun>>
    BY <1>5 DEF CancelInLoop, timeVars
  <2>2. p \in Functor /\ AskedOf(Tail(pending)) = AskedOf(pending)
    BY <2>1, NextFunctor DEF Mapped, TimerInv, Owned
  <2>3. p.addr \in Addrs /\ p.seq \in Seqs
    BY <2>2, FunctorFields
  <2> HIDE DEF p
  <2> QED
    BY <2>1, <2>2, <2>3, CancelsMapped
<1>6. CASE HandleRead
  BY <1>6, HandleReadMapped
<1>7. CASE RunTimer
  BY <1>7, RunTimerMapped
<1>8. CASE Reset
  BY <1>8, ResetMapped
<1>9. CASE AddInLoop
  BY <1>9, AddInLoopMapped
<1>10. CASE AddFromLoop
  BY <1>10, AddFromLoopMapped
<1>11. CASE \E t \in Threads : AddFromThread(t)
  BY <1>11, AddFromThreadMapped
<1> QED
  BY <1>1, <1>2, <1>3, <1>4, <1>5, <1>6, <1>7, <1>8, <1>9, <1>10, <1>11
  DEF Next, LoopStep, ThreadStep

LEMMA StartsMapped == Init /\ AllStaged => AsTimers!Init
<1> SUFFICES ASSUME Init, AllStaged PROVE AsTimers!Init
  OBVIOUS
<1>1. /\ wall = 1 /\ now = 0 /\ s_num_created_ = 0 /\ expired = {}
  BY DEF Init
<1>2. \A s \in Seqs : TimerOf(s) = AsTimers!None
  <2>1. \A s \in Seqs : s > s_num_created_
    BY <1>1 DEF Seqs
  <2> QED
    BY <2>1 DEF AllStaged, Staged, Record, AsTimers!None, AsTimers!Timer
<1>3. TimerMap = [s \in Seqs |-> AsTimers!None] /\ StoppedSet = {}
  BY <1>1, <1>2, NobodyStopped DEF TimerMap
<1> QED
  BY <1>1, <1>3 DEF AsTimers!Init, TimerMap, StoppedSet

\* To the program the timers are those of module Timers: each begins when its time has
\* come and not before, earlier ones first, once or every interval, and not after a cancel
\* that was final, whatever addresses and stale ids there are (TimerQueue::add_timer,
\* cancel_in_loop, handle_read, reset).
THEOREM ImplementsTimers == Spec => RefinesTimers
<1>1. TimerInv => AllStaged
  BY StageOfTimer DEF AllStaged
<1>2. Init => NowIsSet
  BY DEF Init, NowIsSet
<1>3. TypeOK /\ NowIsSet /\ [Next]_vars => NowIsSet'
  <2> SUFFICES ASSUME TypeOK, NowIsSet, [Next]_vars PROVE NowIsSet'
    OBVIOUS
  <2>1. CASE HandleRead
    <3>1. wall # 0
      BY DEF TypeOK
    <3> QED
      BY <2>1, <3>1 DEF HandleRead, NowIsSet
  <2>2. CASE Reset
    BY <2>2 DEF Reset, NowIsSet
  <2>3. CASE UNCHANGED <<calling_expired_timers_, now>>
    BY <2>3 DEF NowIsSet
  <2>4. CASE Tick \/ SetWall \/ AddInLoop \/ AddFromLoop \/ UNCHANGED vars
    BY <2>3, <2>4 DEF Tick, SetWall, AddInLoop, AddFromLoop, vars, batchVars
  <2>5. CASE RunTimer \/ CancelInLoop \/ CancelFromLoop
    BY <2>3, <2>5 DEF RunTimer, CancelInLoop, CancelFromLoop
  <2>6. CASE ThreadStep
    BY <2>3, <2>6 DEF ThreadStep, CancelFromThread, AddFromThread, AddReturns, batchVars
  <2> QED
    BY <2>1, <2>2, <2>4, <2>5, <2>6 DEF Next, LoopStep
<1>4. Mapped /\ AllStaged' /\ [Next]_vars => [AsTimers!Next]_(AsTimers!vars)
  BY StepMapped
<1>5. Init /\ AllStaged => AsTimers!Init
  BY StartsMapped
<1>6. Spec => [](TimerInv /\ TypeOK /\ AllStaged /\ NowIsSet)
  BY <1>1, <1>2, <1>3, TimerInvariant, TypeCorrect, PTL DEF Spec
<1>7. TimerInv /\ AllStaged /\ NowIsSet => Mapped
  BY DEF Mapped
<1>8. Spec => AsTimers!Spec
  BY <1>4, <1>5, <1>6, <1>7, PTL DEF Spec, AsTimers!Spec
<1> QED
  BY <1>8 DEF RefinesTimers
=============================================================================
