------------------------ MODULE NonBlockingLogProofs ------------------------
(***************************************************************************)
(* What TLAPS proves of NonBlockingLog, for any number of appenders and    *)
(* messages and any capacity: its type invariant, that the log loses,      *)
(* duplicates and reorders nothing, that the log thread misses no          *)
(* notification, and that the file is complete once stop() has returned.   *)
(***************************************************************************)
EXTENDS NonBlockingLog, SequenceTheorems, TLAPS

USE LogAssumption

LEMMA AllBuffersType ==
  ASSUME TypeOK
  PROVE  AllBuffers \in [count : Nat, msgs : Seq(Msgs)]
<1>1. buffers_.msgs \o nowBuffer_.msgs \in Seq(Msgs)
  BY ConcatProperties DEF TypeOK
<1>2. buffers_.count + 1 \in Nat
  BY DEF TypeOK
<1> QED
  BY <1>1, <1>2 DEF AllBuffers

\* TypeOK is inductive: in particular nowBuffer_ is null only once the log thread has
\* drained, because Recycle gives Take its spare buffer back every time.
THEOREM TypeInvariant == Spec => []TypeOK
<1>1. Init => TypeOK
  <2>1. <<>> \in Seq(Msgs)
    BY EmptySeq
  <2>2. Init => /\ nowBuffer_ \in [here : BOOLEAN, msgs : Seq(Msgs)] /\ nowBuffer_.here
                /\ buffers_ \in [count : Nat, msgs : Seq(Msgs)]
                /\ writeBackBuffers \in [count : Nat, msgs : Seq(Msgs)]
                /\ writeBackBuffers.msgs = <<>>
                /\ sent \in [Appenders -> 0 .. MsgCount]
    BY <2>1 DEF Init, EmptyBuffer, NoBuffers
  <2>3. Init => appended \in Seq(Msgs) /\ file \in Seq(Msgs)
    BY <2>1 DEF Init
  <2> QED
    BY <2>2, <2>3 DEF Init, TypeOK, LogPcs
<1>2. TypeOK /\ [Next]_vars => TypeOK'
  <2> SUFFICES ASSUME TypeOK, [Next]_vars PROVE TypeOK'
    OBVIOUS
  <2>0. <<>> \in Seq(Msgs)
    BY EmptySeq
  <2> USE DEF TypeOK, LogPcs, NoBuffers, EmptyBuffer, NullBuffer
  <2>1. CASE Construct
    BY <2>1 DEF Construct, threadLocal
  <2>2. CASE StopRunning
    BY <2>2 DEF StopRunning, threadLocal
  <2>3. CASE StopNotify
    BY <2>3 DEF StopNotify, shared, threadLocal
  <2>4. CASE StopJoin
    BY <2>4 DEF StopJoin, shared, threadLocal
  <2>5. ASSUME NEW t \in Appenders, AppendInPlace(t) PROVE TypeOK'
    <3>1. PICK m \in Msgs : /\ Appends(t, m)
                            /\ nowBuffer_' = [nowBuffer_ EXCEPT !.msgs = Append(@, m)]
      BY <2>5 DEF AppendInPlace
    <3>2. /\ appended' \in Seq(Msgs)
          /\ nowBuffer_' \in [here : BOOLEAN, msgs : Seq(Msgs)]
          /\ nowBuffer_'.here
      BY <2>5, <3>1, AppendProperties DEF AppendInPlace, Appends
    <3>3. sent' \in [Appenders -> 0 .. MsgCount]
      BY <2>5, <3>1 DEF AppendInPlace, CanAppend, Appends
    <3> QED
      BY <2>5, <3>2, <3>3 DEF AppendInPlace, threadLocal
  <2>6. ASSUME NEW t \in Appenders, AppendToNext(t) PROVE TypeOK'
    <3>1. PICK m \in Msgs : /\ Appends(t, m)
                            /\ nowBuffer_' = [here |-> TRUE, msgs |-> <<m>>]
      BY <2>6 DEF AppendToNext
    <3>2. /\ appended' \in Seq(Msgs)
          /\ nowBuffer_' \in [here : BOOLEAN, msgs : Seq(Msgs)]
          /\ nowBuffer_'.here
      BY <2>6, <3>1, AppendProperties DEF Appends
    <3>3. sent' \in [Appenders -> 0 .. MsgCount]
      BY <2>6, <3>1 DEF AppendToNext, CanAppend, Appends
    <3>4. buffers_' \in [count : Nat, msgs : Seq(Msgs)] /\ signalled' \in BOOLEAN
      BY <2>6, AllBuffersType DEF AppendToNext
    <3> QED
      BY <2>6, <3>2, <3>3, <3>4 DEF AppendToNext, threadLocal
  <2>7. ASSUME NEW t \in Appenders, AppendToNull(t) PROVE TypeOK'
    BY <2>7 DEF AppendToNull, shared, threadLocal
  <2>8. CASE StartThread \/ TestRunning
    BY <2>8 DEF StartThread, TestRunning, shared, threadLocal
  <2>9. ASSUME Take, logPc \in {"lock", "waiting"} PROVE TypeOK'
    <3>1. newBuffer1
      BY <2>9
    <3>2. writeBackBuffers' \in [count : Nat, msgs : Seq(Msgs)]
      BY <2>9, AllBuffersType DEF Take
    <3>3. /\ buffers_' \in [count : Nat, msgs : Seq(Msgs)]
          /\ nowBuffer_' \in [here : BOOLEAN, msgs : Seq(Msgs)]
          /\ nowBuffer_'.here
      BY <2>0, <2>9, <3>1 DEF Take
    <3>4. nextBuffer_' \in BOOLEAN /\ newBuffer2' \in BOOLEAN /\ newBuffer1' \in BOOLEAN
      BY <2>9 DEF Take
    <3> QED
      BY <2>9, <3>2, <3>3, <3>4 DEF Take
  <2>10. CASE Wait
    BY <2>10 DEF Wait, shared, threadLocal
  <2>11. CASE NotifiedForNothing
    BY <2>11 DEF NotifiedForNothing, shared, threadLocal
  <2>12. CASE WriteBack
    <3>1. file' \in Seq(Msgs)
      BY <2>12, ConcatProperties DEF WriteBack
    <3>2. writeBackBuffers' \in [count : Nat, msgs : Seq(Msgs)] /\ writeBackBuffers'.msgs = <<>>
      BY <2>0, <2>12 DEF WriteBack
    <3> QED
      BY <2>12, <3>1, <3>2 DEF WriteBack, shared
  <2>13. CASE Recycle
    BY <2>0, <2>13 DEF Recycle, shared
  <2>14. CASE Drain
    <3>1. writeBackBuffers' \in [count : Nat, msgs : Seq(Msgs)]
      BY <2>14, AllBuffersType DEF Drain
    <3> QED
      BY <2>0, <2>14, <3>1 DEF Drain
  <2>15. CASE UNCHANGED vars
    BY <2>15 DEF vars, shared, threadLocal
  <2> QED
    BY <2>1, <2>2, <2>3, <2>4, <2>5, <2>6, <2>7, <2>8, <2>9, <2>10, <2>11, <2>12, <2>13,
       <2>14, <2>15
    DEF Next, OwnerStep, AppendStep, LogThreadStep, TakeAtOnce, Notified, FlushTimeout
<1> QED
  BY <1>1, <1>2, PTL DEF Spec

-----------------------------------------------------------------------------
\* Moving a message along the pipeline, or adding one at its end, does not change
\* what the pipeline holds.
LEMMA Regroup ==
  \A a, b, c \in Seq(Msgs) :
    ((a \o <<>>) \o b) \o c = ((a \o (b \o c)) \o <<>>) \o <<>>
<1> SUFFICES ASSUME NEW a \in Seq(Msgs), NEW b \in Seq(Msgs), NEW c \in Seq(Msgs)
             PROVE  ((a \o <<>>) \o b) \o c = ((a \o (b \o c)) \o <<>>) \o <<>>
  OBVIOUS
<1>1. /\ a \o <<>> = a
      /\ b \o c \in Seq(Msgs)
      /\ a \o (b \o c) \in Seq(Msgs)
  BY ConcatProperties, ConcatEmptySeq
<1>2. (a \o b) \o c = a \o (b \o c)
  BY ConcatAssociative
<1> QED
  BY <1>1, <1>2, ConcatEmptySeq

LEMMA Reassociate ==
  \A a, b, c \in Seq(Msgs) : (a \o b) \o c = a \o (b \o c)
BY ConcatAssociative

LEMMA AppendAtEnd ==
  \A a, b \in Seq(Msgs), m \in Msgs : Append(a \o b, m) = a \o Append(b, m)
<1> SUFFICES ASSUME NEW a \in Seq(Msgs), NEW b \in Seq(Msgs), NEW m \in Msgs
             PROVE  Append(a \o b, m) = a \o Append(b, m)
  OBVIOUS
<1>1. a \o b \in Seq(Msgs) /\ <<m>> \in Seq(Msgs)
  BY ConcatProperties
<1>2. Append(b, m) = b \o <<m>> /\ Append(a \o b, m) = (a \o b) \o <<m>>
  BY <1>1, AppendIsConcat
<1> QED
  BY <1>1, <1>2, ConcatAssociative

\* The two takers of the buffers, Take and Drain, find nothing left in
\* writeBackBuffers (TypeOK), so what they take goes right behind what is written.
THEOREM LogOrder == Spec => []InOrder
<1>1. Init => InOrder
  <2>1. ((<<>> \o <<>>) \o <<>>) \o <<>> = <<>>
    BY EmptySeq, ConcatEmptySeq
  <2> QED
    BY <2>1 DEF Init, InOrder, EmptyBuffer, NoBuffers
<1>2. TypeOK /\ InOrder /\ [Next]_vars => InOrder'
  <2> SUFFICES ASSUME TypeOK, InOrder, [Next]_vars PROVE InOrder'
    OBVIOUS
  <2>0. /\ file \in Seq(Msgs)
        /\ writeBackBuffers.msgs \in Seq(Msgs)
        /\ buffers_.msgs \in Seq(Msgs)
        /\ nowBuffer_.msgs \in Seq(Msgs)
        /\ <<>> \in Seq(Msgs)
        /\ file \o writeBackBuffers.msgs \in Seq(Msgs)
        /\ (file \o writeBackBuffers.msgs) \o buffers_.msgs \in Seq(Msgs)
    BY EmptySeq, ConcatProperties DEF TypeOK
  <2>1. ASSUME NEW t \in Appenders, AppendInPlace(t) PROVE InOrder'
    <3>1. PICK m \in Msgs : /\ Appends(t, m)
                            /\ nowBuffer_' = [nowBuffer_ EXCEPT !.msgs = Append(@, m)]
      BY <2>1 DEF AppendInPlace
    <3>2. appended' = Append(appended, m) /\ nowBuffer_'.msgs = Append(nowBuffer_.msgs, m)
      BY <3>1 DEF Appends, TypeOK
    <3> DEFINE w == (file \o writeBackBuffers.msgs) \o buffers_.msgs
    <3>3. Append(w \o nowBuffer_.msgs, m) = w \o Append(nowBuffer_.msgs, m)
      BY <2>0, AppendAtEnd
    <3>4. appended' = w \o nowBuffer_'.msgs
      BY <3>2, <3>3 DEF InOrder
    <3> QED
      BY <2>1, <3>4 DEF AppendInPlace, threadLocal, InOrder
  <2>2. ASSUME NEW t \in Appenders, AppendToNext(t) PROVE InOrder'
    <3>1. PICK m \in Msgs : /\ Appends(t, m)
                            /\ nowBuffer_' = [here |-> TRUE, msgs |-> <<m>>]
      BY <2>2 DEF AppendToNext
    <3> DEFINE w == file \o writeBackBuffers.msgs
    <3>2. /\ appended' = Append(appended, m)
          /\ nowBuffer_'.msgs = <<m>>
          /\ buffers_'.msgs = buffers_.msgs \o nowBuffer_.msgs
      BY <2>2, <3>1 DEF AppendToNext, Appends, AllBuffers
    <3>3. appended = w \o (buffers_.msgs \o nowBuffer_.msgs)
      BY <2>0, Reassociate DEF InOrder
    <3>4. w \o (buffers_.msgs \o nowBuffer_.msgs) \in Seq(Msgs)
      BY <2>0, ConcatProperties
    <3>5. Append(w \o (buffers_.msgs \o nowBuffer_.msgs), m)
            = (w \o (buffers_.msgs \o nowBuffer_.msgs)) \o <<m>>
      BY <3>4, AppendIsConcat
    <3>6. appended' = (w \o buffers_'.msgs) \o nowBuffer_'.msgs
      BY <3>2, <3>3, <3>5
    <3> QED
      BY <2>2, <3>6 DEF AppendToNext, threadLocal, InOrder
  <2>3. ASSUME writeBackBuffers.msgs = <<>>,
               writeBackBuffers' = AllBuffers, buffers_' = NoBuffers,
               nowBuffer_'.msgs = <<>>, UNCHANGED <<appended, file>>
        PROVE  InOrder'
    <3>1. /\ writeBackBuffers'.msgs = buffers_.msgs \o nowBuffer_.msgs
          /\ buffers_'.msgs = <<>>
      BY <2>3 DEF AllBuffers, NoBuffers
    <3>2. file \in Seq(Msgs) /\ buffers_.msgs \in Seq(Msgs) /\ nowBuffer_.msgs \in Seq(Msgs)
      BY <2>0
    <3>3. ((file \o <<>>) \o buffers_.msgs) \o nowBuffer_.msgs
            = ((file \o (buffers_.msgs \o nowBuffer_.msgs)) \o <<>>) \o <<>>
      BY <3>2, Regroup
    <3> QED
      BY <2>3, <3>1, <3>3 DEF InOrder
  <2>4. ASSUME Take, logPc \in {"lock", "waiting"} PROVE InOrder'
    <3>1. writeBackBuffers.msgs = <<>>
      BY <2>4 DEF TypeOK
    <3>2. nowBuffer_'.msgs = <<>>
      BY <2>4 DEF Take, EmptyBuffer, NullBuffer
    <3> QED
      BY <2>3, <2>4, <3>1, <3>2 DEF Take
  <2>5. CASE Drain
    <3>1. writeBackBuffers.msgs = <<>> /\ nowBuffer_'.msgs = <<>>
      BY <2>5 DEF TypeOK, Drain, NullBuffer
    <3> QED
      BY <2>3, <2>5, <3>1 DEF Drain
  <2>6. CASE WriteBack
    <3>1. /\ file' = file \o writeBackBuffers.msgs
          /\ writeBackBuffers'.msgs = <<>>
          /\ UNCHANGED <<buffers_, nowBuffer_, appended>>
      BY <2>6 DEF WriteBack, shared, TypeOK
    <3>2. file' \o writeBackBuffers'.msgs = file \o writeBackBuffers.msgs
      BY <2>0, <3>1, ConcatEmptySeq
    <3> QED
      BY <3>1, <3>2 DEF InOrder
  <2>7. CASE Recycle
    <3>1. writeBackBuffers.msgs = <<>> /\ writeBackBuffers'.msgs = <<>>
      BY <2>7 DEF Recycle, TypeOK, NoBuffers
    <3> QED
      BY <2>7, <3>1 DEF Recycle, shared, InOrder
  <2>8. CASE Construct \/ StopRunning \/ StopNotify \/ StopJoin
    BY <2>8 DEF Construct, StopRunning, StopNotify, StopJoin, shared, threadLocal, InOrder
  <2>9. CASE StartThread \/ TestRunning \/ Wait \/ NotifiedForNothing
    BY <2>9 DEF StartThread, TestRunning, Wait, NotifiedForNothing, shared, threadLocal, InOrder
  <2>10. ASSUME NEW t \in Appenders, AppendToNull(t) PROVE InOrder'
    BY <2>10 DEF AppendToNull, shared, threadLocal, InOrder
  <2>11. CASE UNCHANGED vars
    BY <2>11 DEF vars, shared, threadLocal, InOrder
  <2> QED
    BY <2>1, <2>2, <2>4, <2>5, <2>6, <2>7, <2>8, <2>9, <2>10, <2>11
    DEF Next, OwnerStep, AppendStep, LogThreadStep, TakeAtOnce, Notified, FlushTimeout
<1> QED
  BY <1>1, <1>2, TypeInvariant, PTL DEF Spec

-----------------------------------------------------------------------------
\* append notifies in the step in which it adds a buffer, and the log thread tests
\* buffers_ and begins to wait in one step of mtx_; it is notified in vain only when
\* buffers_ is empty.
THEOREM NoMissedNotification == Spec => []FullBufferSignalled
<1>1. Init => FullBufferSignalled
  BY DEF Init, FullBufferSignalled
<1>2. FullBufferSignalled /\ [Next]_vars => FullBufferSignalled'
  <2> SUFFICES ASSUME FullBufferSignalled, [Next]_vars PROVE FullBufferSignalled'
    OBVIOUS
  <2> USE DEF FullBufferSignalled
  <2>1. CASE Construct \/ StopRunning \/ StopNotify \/ StopJoin
    BY <2>1 DEF Construct, StopRunning, StopNotify, StopJoin, shared
  <2>2. ASSUME NEW t \in Appenders, AppendInPlace(t) \/ AppendToNull(t)
        PROVE  FullBufferSignalled'
    BY <2>2 DEF AppendInPlace, AppendToNull, shared
  <2>3. ASSUME NEW t \in Appenders, AppendToNext(t) PROVE FullBufferSignalled'
    BY <2>3 DEF AppendToNext
  <2>4. CASE Wait
    <3>1. buffers_'.count = 0
      BY <2>4 DEF Wait, shared
    <3> QED
      BY <3>1
  <2>5. CASE NotifiedForNothing
    <3>1. buffers_'.count = 0
      BY <2>5 DEF NotifiedForNothing, shared
    <3> QED
      BY <3>1
  <2>6. ASSUME logPc' # "waiting" PROVE FullBufferSignalled'
    BY <2>6
  <2>7. CASE StartThread \/ TestRunning \/ Take \/ WriteBack \/ Recycle \/ Drain
    <3>1. logPc' # "waiting"
      BY <2>7 DEF StartThread, TestRunning, Take, WriteBack, Recycle, Drain
    <3> QED
      BY <2>6, <3>1
  <2>8. CASE UNCHANGED vars
    BY <2>8 DEF vars, shared
  <2> QED
    BY <2>1, <2>2, <2>3, <2>4, <2>5, <2>7, <2>8
    DEF Next, OwnerStep, AppendStep, LogThreadStep, TakeAtOnce, Notified, FlushTimeout
<1> QED
  BY <1>1, <1>2, PTL DEF Spec

-----------------------------------------------------------------------------
\* Why the file is complete after stop(): the drain leaves nothing behind, nothing can
\* be added after it because nowBuffer_ is null, and stop() waits for the log thread.
DrainedForGood ==
  /\ logPc \in {"lastWrite", "exited"} => ~nowBuffer_.here /\ buffers_.msgs = <<>>
  /\ owner = "joined" => logPc = "exited"

\* The file holds everything appended once stop() has returned.
THEOREM Completeness == Spec => []CompleteWhenStopped
<1>1. Init => DrainedForGood
  BY DEF Init, DrainedForGood
<1>2. TypeOK /\ DrainedForGood /\ [Next]_vars => DrainedForGood'
  <2> SUFFICES ASSUME TypeOK, DrainedForGood, [Next]_vars PROVE DrainedForGood'
    OBVIOUS
  <2> USE DEF DrainedForGood
  <2>1. CASE Construct \/ StopRunning \/ StopNotify \/ StopJoin
    BY <2>1 DEF Construct, StopRunning, StopNotify, StopJoin, shared
  <2>2. ASSUME NEW t \in Appenders, AppendStep(t) PROVE DrainedForGood'
    <3>1. owner' # "joined" /\ logPc' = logPc
      BY <2>2 DEF AppendStep, AppendInPlace, AppendToNext, AppendToNull, CanAppend
    <3>2. nowBuffer_.here => logPc \notin {"lastWrite", "exited"}
      OBVIOUS
    <3>3. ~nowBuffer_.here => UNCHANGED <<nowBuffer_, buffers_>>
      BY <2>2 DEF AppendStep, AppendInPlace, AppendToNext, AppendToNull, shared
    <3> QED
      BY <3>1, <3>2, <3>3
  <2>3. CASE StartThread \/ TestRunning \/ Wait \/ NotifiedForNothing
    BY <2>3 DEF StartThread, TestRunning, Wait, NotifiedForNothing, shared
  <2>4. ASSUME Take, logPc \in {"lock", "waiting"} PROVE DrainedForGood'
    BY <2>4 DEF Take
  <2>5. CASE WriteBack
    BY <2>5 DEF WriteBack, shared
  <2>6. CASE Recycle
    BY <2>6 DEF Recycle, shared
  <2>7. CASE Drain
    BY <2>7 DEF Drain, NullBuffer, NoBuffers
  <2>8. CASE UNCHANGED vars
    BY <2>8 DEF vars, shared
  <2> QED
    BY <2>1, <2>2, <2>3, <2>4, <2>5, <2>6, <2>7, <2>8
    DEF Next, OwnerStep, LogThreadStep, TakeAtOnce, Notified, FlushTimeout
<1>3. TypeOK /\ InOrder /\ DrainedForGood => CompleteWhenStopped
  <2> SUFFICES ASSUME TypeOK, InOrder, DrainedForGood, owner = "joined"
               PROVE  file = appended
    BY DEF CompleteWhenStopped
  <2>1. /\ writeBackBuffers.msgs = <<>>
        /\ buffers_.msgs = <<>>
        /\ nowBuffer_.msgs = <<>>
    BY DEF DrainedForGood, TypeOK
  <2>2. file \in Seq(Msgs)
    BY DEF TypeOK
  <2>3. file \o <<>> = file
    BY <2>2, ConcatEmptySeq
  <2> QED
    BY <2>1, <2>3 DEF InOrder
<1> QED
  BY <1>1, <1>2, <1>3, TypeInvariant, LogOrder, PTL DEF Spec
=============================================================================
