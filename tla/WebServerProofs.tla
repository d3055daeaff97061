--------------------------- MODULE WebServerProofs ---------------------------
(***************************************************************************)
(* What TLAPS proves of WebServer, for any connections, any expiredSec_    *)
(* and messages of any length: its type invariant, that idle connections   *)
(* are shut down in time and no other is, and that whole requests, alone   *)
(* or pipelined, are each answered once.                                   *)
(***************************************************************************)
EXTENDS WebServer, SequenceTheorems, FiniteSetTheorems, WellFoundedInduction, TLAPS

\* A set of numbers has a smallest one.
LEMMA Smallest ==
  ASSUME NEW T, T \subseteq Nat, T # {}
  PROVE  \E x \in T : \A y \in T : x <= y
<1>1. PICK x \in T : \A y \in T : <<y, x>> \notin OpToRel(<, Nat)
  BY NatLessThanWellFounded, WFMin
<1>2. \A y \in T : y < x => <<y, x>> \in OpToRel(<, Nat)
  BY DEF OpToRel
<1>3. \A y \in T : ~(y < x)
  BY <1>1, <1>2, Zenon
<1> QED
  BY <1>3

LEMMA FunctionIsSeq ==
  ASSUME NEW S, NEW n \in Nat, NEW f \in [1 .. n -> S]
  PROVE  f \in Seq(S) /\ Len(f) = n
<1>1. f \in Seq(S)
  BY SeqDef
<1>2. DOMAIN f = 1 .. n /\ DOMAIN f = 1 .. Len(f) /\ Len(f) \in Nat
  BY <1>1, LenProperties
<1> QED
  BY <1>1, <1>2

\* The headers end somewhere: at the first blank line, or with the last line.
LEMMA HeaderEndExists ==
  ASSUME NEW ls \in Seq(Lines), ls # <<>>
  PROVE  /\ HeaderEnd(ls) \in 1 .. Len(ls)
         /\ ls[HeaderEnd(ls)] = "blank" \/ HeaderEnd(ls) = Len(ls)
         /\ \A i \in 2 .. HeaderEnd(ls) - 1 : ls[i] # "blank"
<1> DEFINE T == {e \in 1 .. Len(ls) : ls[e] = "blank" \/ e = Len(ls)}
<1>0. Len(ls) \in Nat \ {0}
  BY EmptySeq
<1>1. T \subseteq Nat /\ Len(ls) \in T
  BY <1>0
<1>2. PICK x \in T : \A y \in T : x <= y
  <2> HIDE DEF T
  <2> QED
    BY <1>1, Smallest
<1>3. x \in 1 .. Len(ls) /\ (ls[x] = "blank" \/ x = Len(ls))
  BY <1>2
<1>4. ASSUME NEW i \in 2 .. x - 1
      PROVE  ls[i] # "blank"
  <2>1. i \in 1 .. Len(ls) /\ ~(x <= i)
    BY <1>0, <1>3, <1>4
  <2>2. i \notin T
    BY <1>2, <2>1
  <2> QED
    BY <2>1, <2>2
<1>5. \E e \in 1 .. Len(ls) : /\ ls[e] = "blank" \/ e = Len(ls)
                              /\ \A i \in 2 .. e - 1 : ls[i] # "blank"
  BY <1>3, <1>4
<1> QED
  BY <1>5 DEF HeaderEnd

\* What is left when a request has been taken is shorter.
LEMMA RequestIsTaken ==
  ASSUME NEW ls \in Seq(Lines), ls # <<>>
  PROVE  /\ AfterRequest(ls) \in Seq(Lines)
         /\ Len(AfterRequest(ls)) = Len(ls) - HeaderEnd(ls)
         /\ Len(AfterRequest(ls)) < Len(ls)
         /\ \A i \in 1 .. Len(AfterRequest(ls)) : AfterRequest(ls)[i] = ls[HeaderEnd(ls) + i]
<1>1. HeaderEnd(ls) \in 1 .. Len(ls) /\ Len(ls) \in Nat
  BY HeaderEndExists
<1>2. \A i \in HeaderEnd(ls) + 1 .. Len(ls) : ls[i] \in Lines
  BY <1>1
<1> DEFINE n == HeaderEnd(ls) + 1
<1>3. n \in Int /\ Len(ls) \in Int
  BY <1>1
<1>4. /\ SubSeq(ls, n, Len(ls)) \in Seq(Lines)
      /\ Len(SubSeq(ls, n, Len(ls))) = IF n <= Len(ls) THEN Len(ls) - n + 1 ELSE 0
      /\ \A i \in 1 .. Len(ls) - n + 1 : SubSeq(ls, n, Len(ls))[i] = ls[n + i - 1]
  BY <1>2, <1>3, SubSeqProperties
<1>5. Len(AfterRequest(ls)) = Len(ls) - HeaderEnd(ls)
  BY <1>1, <1>4 DEF AfterRequest
<1>6. ASSUME NEW i \in 1 .. Len(AfterRequest(ls))
      PROVE  AfterRequest(ls)[i] = ls[HeaderEnd(ls) + i]
  <2>1. i \in 1 .. Len(ls) - n + 1 /\ n + i - 1 = HeaderEnd(ls) + i
    BY <1>1, <1>5
  <2> QED
    BY <1>4, <2>1 DEF AfterRequest
<1> QED
  BY <1>1, <1>4, <1>5, <1>6 DEF AfterRequest

\* What arrives at a time is a sequence of at most MaxLines lines.
LEMMA ReadableLines ==
  ASSUME NEW c \in Conns, NEW r \in Readable(c)
  PROVE  /\ r[1] \in Seq(Lines) /\ Len(r[1]) <= MaxLines
         /\ r[2] \in BOOLEAN
         /\ r[1] # <<>> \/ r[2]
<1> USE WebAssumption
<1>1. CASE c \in Quiet
  <2>1. r = << <<"get", "blank">>, FALSE>>
    BY <1>1 DEF Readable
  <2> QED
    BY <2>1 DEF Lines, RequestLines
<1>2. CASE c \notin Quiet
  <2>1. CASE r \in (LinesUpTo(MaxLines - 1) \X BOOLEAN) \ {<< <<>>, FALSE>>}
    <3>1. PICK k \in 0 .. MaxLines - 1 : r[1] \in [1 .. k -> Lines]
      BY <2>1 DEF LinesUpTo
    <3>2. k \in Nat /\ k <= MaxLines
      BY <3>1
    <3>3. r[1] \in Seq(Lines) /\ Len(r[1]) = k
      BY <3>1, <3>2, FunctionIsSeq
    <3>4. r = <<r[1], r[2]>> /\ r[2] \in BOOLEAN
      BY <2>1
    <3>5. r[1] # <<>> \/ r[2]
      BY <2>1, <3>4
    <3> QED
      BY <3>2, <3>3, <3>4, <3>5
  <2>2. CASE r \in {<<Append(ls, "blank"), FALSE>> : ls \in [1 .. MaxLines - 1 -> Lines]}
    <3>1. PICK ls \in [1 .. MaxLines - 1 -> Lines] : r = <<Append(ls, "blank"), FALSE>>
      BY <2>2
    <3>2. MaxLines - 1 \in Nat
      OBVIOUS
    <3>3. ls \in Seq(Lines) /\ Len(ls) = MaxLines - 1
      BY <3>2, FunctionIsSeq
    <3>4. "blank" \in Lines
      BY DEF Lines
    <3>5. /\ Append(ls, "blank") \in Seq(Lines) /\ Append(ls, "blank") # <<>>
          /\ Len(Append(ls, "blank")) = MaxLines - 1 + 1
      BY <3>3, <3>4, AppendProperties
    <3> QED
      BY <3>1, <3>5
  <2> QED
    BY <1>2, <2>1, <2>2 DEF Readable
<1> QED
  BY <1>1, <1>2

-----------------------------------------------------------------------------
\* What one message has been answered and what is left of it are no more than came, and
\* the next one starts with nothing.
AnswersFit ==
  \A c \in Conns :
    /\ answered[c] + Len(inBuffer[c]) <= MaxLines
    /\ pc[c] \in {"idle", "enter", "insert"} => answered[c] = 0
    /\ conn[c] = "new" => pc[c] = "idle"

WebTypeInv == TypeOK /\ AnswersFit

\* onTimer's push moves every bucket one place to the front; an Entry goes into the last.
LEMMA BucketsMove ==
  ASSUME NEW b \in [1 .. ExpiredSec -> SUBSET Conns]
  PROVE  /\ Pushed(b) \in [1 .. ExpiredSec -> SUBSET Conns]
         /\ \A i \in 1 .. ExpiredSec - 1 : Pushed(b)[i] = b[i + 1]
         /\ Pushed(b)[ExpiredSec] = {}
         /\ \A c : Inserted(b, c) = [b EXCEPT ![ExpiredSec] = @ \cup {c}]
<1> DEFINE S == SUBSET Conns
<1>1. ExpiredSec \in Nat /\ ExpiredSec >= 1
  BY WebAssumption
<1>2. {} \in S
  OBVIOUS
<1>3. b \in [1 .. ExpiredSec -> S]
  OBVIOUS
<1> HIDE DEF S
<1>4. b \in Seq(S) /\ Len(b) = ExpiredSec
  BY <1>1, <1>3, FunctionIsSeq
<1>5. b # <<>>
  BY <1>1, <1>4, EmptySeq
<1>6. /\ Tail(b) \in Seq(S) /\ Len(Tail(b)) = ExpiredSec - 1
      /\ \A i \in 1 .. Len(Tail(b)) : Tail(b)[i] = b[i + 1]
  BY <1>4, <1>5, HeadTailProperties
<1>7. /\ Append(Tail(b), {}) \in Seq(S)
      /\ Len(Append(Tail(b), {})) = Len(Tail(b)) + 1
      /\ \A i \in 1 .. Len(Tail(b)) : Append(Tail(b), {})[i] = Tail(b)[i]
      /\ Append(Tail(b), {})[Len(Tail(b)) + 1] = {}
  BY <1>2, <1>6, AppendProperties
<1>8. Len(Append(Tail(b), {})) = ExpiredSec
  BY <1>1, <1>6, <1>7
<1>9. Append(Tail(b), {}) \in [1 .. ExpiredSec -> S]
  BY <1>7, <1>8, LenProperties
<1>10. \A c : Inserted(b, c) = [b EXCEPT ![ExpiredSec] = @ \cup {c}]
  BY <1>4 DEF Inserted
<1> QED
  BY <1>1, <1>6, <1>7, <1>9, <1>10 DEF Pushed, S

LEMMA WebTypeStep == WebTypeInv /\ [Next]_vars => WebTypeInv'
<1> SUFFICES ASSUME WebTypeInv, [Next]_vars PROVE WebTypeInv'
  OBVIOUS
<1> USE WebAssumption DEF WebTypeInv, TypeOK, AnswersFit
<1>0. MaxLines \in Nat
  OBVIOUS
<1>a. /\ answered \in [Conns -> 0 .. MaxLines]
      /\ inBuffer \in [Conns -> Seq(Lines)] /\ message \in [Conns -> Seq(Lines)]
      /\ part \in [Conns -> BOOLEAN] /\ keepAlive \in [Conns -> BOOLEAN]
      /\ pc \in [Conns -> {"idle", "enter", "insert", "parse", "finish"}]
      /\ conn \in [Conns -> {"new", "CONNECTED", "DISCONNECTING", "gone"}]
  OBVIOUS
<1>b. \A c \in Conns :
        /\ answered[c] \in Nat /\ Len(inBuffer[c]) \in Nat
        /\ answered[c] + Len(inBuffer[c]) <= MaxLines
        /\ pc[c] \in {"idle", "enter", "insert"} => answered[c] = 0
        /\ conn[c] = "new" => pc[c] = "idle"
  <2>1. AnswersFit
    OBVIOUS
  <2> HIDE DEF WebTypeInv, TypeOK, AnswersFit
  <2>2. \A c \in Conns : answered[c] \in Nat
    BY <1>0, <1>a
  <2>3. \A c \in Conns : Len(inBuffer[c]) \in Nat
    BY <1>a, LenProperties
  <2> QED
    BY <2>1, <2>2, <2>3 DEF AnswersFit
<1>1. CASE OnTimer
  BY <1>1 DEF OnTimer, Entering, bufferVars
<1>2. CASE OnTimerDone
  <2>1. connBuckets_' \in [1 .. ExpiredSec -> SUBSET Conns]
    BY <1>2, BucketsMove DEF OnTimerDone
  <2>2. conn' \in [Conns -> {"new", "CONNECTED", "DISCONNECTING", "gone"}]
    BY <1>2 DEF OnTimerDone
  <2>3. \A c \in Conns : conn'[c] = "new" => conn[c] = "new"
    BY <1>2 DEF OnTimerDone
  <2>4. age' \in [Conns -> 0 .. ExpiredSec]
    BY <1>2 DEF OnTimerDone
  <2> QED
    BY <1>2, <2>1, <2>2, <2>3, <2>4 DEF OnTimerDone, bufferVars
<1>3. ASSUME NEW c \in Conns, OnConnection(c) PROVE WebTypeInv'
  BY <1>3 DEF OnConnection, bufferVars
<1>4. ASSUME NEW c \in Conns, OnMessage(c) PROVE WebTypeInv'
  <2>1. PICK r \in Readable(c) : /\ inBuffer' = [inBuffer EXCEPT ![c] = r[1]]
                                 /\ part' = [part EXCEPT ![c] = r[2]]
                                 /\ message' = [message EXCEPT ![c] = r[1]]
    BY <1>4 DEF OnMessage
  <2>2. r[1] \in Seq(Lines) /\ Len(r[1]) <= MaxLines /\ r[2] \in BOOLEAN
    BY ReadableLines
  <2>3. Len(r[1]) \in Nat
    BY <2>2, LenProperties
  <2>4. pc[c] = "idle" /\ conn[c] # "new" /\ answered[c] = 0
    BY <1>4 DEF OnMessage
  <2>5. /\ pc' \in {[pc EXCEPT ![c] = "enter"], [pc EXCEPT ![c] = "parse"]}
        /\ UNCHANGED <<status, connBuckets_, mainPc, conn, keepAlive, closes, answered, age>>
    BY <1>4 DEF OnMessage
  <2>6. TypeOK'
    BY <2>1, <2>2, <2>5
  <2>7. AnswersFit'
    <3> HIDE DEF WebTypeInv, TypeOK, AnswersFit
    <3> QED
      BY <1>0, <1>a, <1>b, <2>1, <2>2, <2>3, <2>4, <2>5 DEF AnswersFit
  <2> QED
    BY <2>6, <2>7
<1>5. ASSUME NEW c \in Conns, Destroyed(c) PROVE WebTypeInv'
  BY <1>5 DEF Destroyed, bufferVars
<1>6. ASSUME NEW c \in Conns, Enter(c) PROVE WebTypeInv'
  BY <1>6 DEF Enter, Entering, bufferVars
<1>7. ASSUME NEW c \in Conns, Insert(c) PROVE WebTypeInv'
  <2>1. connBuckets_' = [connBuckets_ EXCEPT ![ExpiredSec] = @ \cup {c}]
    BY <1>7, BucketsMove DEF Insert
  <2>2. connBuckets_' \in [1 .. ExpiredSec -> SUBSET Conns]
    BY <2>1
  <2>3. pc' \in [Conns -> {"idle", "enter", "insert", "parse", "finish"}]
    BY <1>7 DEF Insert
  <2>4. \A d \in Conns : pc'[d] = "idle" => inBuffer[d] = <<>> /\ ~part[d]
    BY <1>7 DEF Insert
  <2>5. AnswersFit'
    BY <1>7 DEF Insert, bufferVars
  <2>6. age' \in [Conns -> 0 .. ExpiredSec]
    BY <1>7 DEF Insert
  <2> QED
    BY <1>7, <2>2, <2>3, <2>4, <2>5, <2>6 DEF Insert, bufferVars
<1>8. ASSUME NEW c \in Conns, ParseError(c) PROVE WebTypeInv'
  <2>1. CASE inBuffer[c] = <<>>
    BY <1>0, <1>8, <2>1 DEF ParseError
  <2>2. CASE inBuffer[c] # <<>>
    <3>1. Tail(inBuffer[c]) \in Seq(Lines) /\ Len(Tail(inBuffer[c])) = Len(inBuffer[c]) - 1
      BY <2>2, HeadTailProperties
    <3> QED
      BY <1>0, <1>8, <2>2, <3>1 DEF ParseError
  <2> QED
    BY <2>1, <2>2
<1>9. ASSUME NEW c \in Conns, ParseRequest(c) PROVE WebTypeInv'
  <2> DEFINE rest == AfterRequest(inBuffer[c])
             new == IF Answers(c, Head(inBuffer[c]))
                         /\ ~(rest # <<>> /\ Head(rest) \notin RequestLines) THEN 1 ELSE 0
             keep == ~AsksToClose(inBuffer[c])
  <2>1. inBuffer[c] # <<>> /\ inBuffer[c] \in Seq(Lines)
    BY <1>9 DEF ParseRequest
  <2>2. rest \in Seq(Lines) /\ Len(rest) < Len(inBuffer[c])
    BY <2>1, RequestIsTaken
  <2>3. Len(rest) \in Nat
    BY <2>2, LenProperties
  <2>4. status' \in {status, "assert(len <= readable_bytes())"}
    BY <1>9 DEF ParseRequest
  <2>5. /\ inBuffer' = [inBuffer EXCEPT ![c] = rest]
        /\ answered' = [answered EXCEPT ![c] = @ + new]
        /\ keepAlive' = [keepAlive EXCEPT ![c] = keep]
        /\ pc' = [pc EXCEPT ![c] = "finish"]
        /\ UNCHANGED <<connBuckets_, mainPc, conn, part, closes, message, age>>
        /\ pc[c] = "parse"
    BY <1>9 DEF ParseRequest
  <2>6. new \in {0, 1} /\ keep \in BOOLEAN
    OBVIOUS
  <2> HIDE DEF rest, new, keep
  <2>7. answered[c] + new + Len(rest) <= MaxLines
    <3> HIDE DEF WebTypeInv, TypeOK, AnswersFit
    <3> QED
      BY <1>0, <1>b, <2>2, <2>3, <2>6
  <2>8. answered' \in [Conns -> 0 .. MaxLines]
    <3> HIDE DEF WebTypeInv, TypeOK, AnswersFit
    <3> QED
      BY <1>0, <1>a, <1>b, <2>3, <2>5, <2>6, <2>7
  <2>9. inBuffer' \in [Conns -> Seq(Lines)] /\ keepAlive' \in [Conns -> BOOLEAN]
    BY <2>2, <2>5, <2>6
  <2>10. AnswersFit'
    BY <2>3, <2>5, <2>6, <2>7
  <2>11. TypeOK'
    BY <2>4, <2>5, <2>8, <2>9
  <2> QED
    BY <2>10, <2>11
<1>10. ASSUME NEW c \in Conns, Finish(c) PROVE WebTypeInv'
  <2> DEFINE more == inBuffer[c] # <<>> \/ part[c]
  <2>1. closes' \in [Conns -> 0 .. MaxCloses]
    BY <1>10 DEF Finish, ClosesNow
  <2>2. /\ pc' = [pc EXCEPT ![c] = IF more THEN "parse" ELSE "idle"]
        /\ keepAlive' = [keepAlive EXCEPT ![c] = TRUE]
        /\ message' = IF more THEN message ELSE [message EXCEPT ![c] = <<>>]
        /\ answered' = IF more THEN answered ELSE [answered EXCEPT ![c] = 0]
        /\ UNCHANGED <<status, connBuckets_, mainPc, conn, inBuffer, part, age>>
        /\ pc[c] = "finish"
    BY <1>10 DEF Finish, Returns
  <2>3. CASE more
    <3> HIDE DEF more
    <3> QED
      BY <1>0, <2>1, <2>2, <2>3
  <2>4. CASE ~more
    <3>1. inBuffer[c] = <<>> /\ ~part[c]
      BY <2>4
    <3> HIDE DEF more
    <3>2. message' \in [Conns -> Seq(Lines)]
      BY <2>2, <2>4, EmptySeq
    <3>3. answered' \in [Conns -> 0 .. MaxLines]
      <4> HIDE DEF WebTypeInv, TypeOK, AnswersFit
      <4> QED
        BY <1>0, <1>a, <2>2, <2>4
    <3>4. /\ pc' \in [Conns -> {"idle", "enter", "insert", "parse", "finish"}]
          /\ keepAlive' \in [Conns -> BOOLEAN]
      BY <2>2
    <3>5. \A d \in Conns : pc'[d] = "idle" => inBuffer[d] = <<>> /\ ~part[d]
      BY <2>2, <3>1
    <3>6. TypeOK'
      BY <2>1, <2>2, <3>2, <3>3, <3>4, <3>5
    <3>7. AnswersFit'
      <4> HIDE DEF WebTypeInv, TypeOK, AnswersFit
      <4> QED
        BY <1>0, <1>a, <1>b, <2>2, <2>4 DEF AnswersFit
    <3> QED
      BY <3>6, <3>7
  <2> QED
    BY <2>3, <2>4
<1>11. CASE UNCHANGED vars
  BY <1>11 DEF vars, bufferVars
<1> QED
  BY <1>1, <1>2, <1>3, <1>4, <1>5, <1>6, <1>7, <1>8, <1>9, <1>10, <1>11
  DEF Next, CallbackStep

\* onMessage never leaves a line of one message in the buffer for the next.
THEOREM WebTypeInvariant == Spec => []WebTypeInv
<1>1. Init => WebTypeInv
  BY WebAssumption, EmptySeq DEF Init, WebTypeInv, TypeOK, AnswersFit, Lines
<1> QED
  BY <1>1, WebTypeStep, PTL DEF Spec

\* Every variable has its type, and when onMessage has returned nothing is left in the
\* buffer.
THEOREM TypeCorrect == Spec => []TypeOK
<1>1. WebTypeInv => TypeOK
  BY DEF WebTypeInv
<1> QED
  BY <1>1, WebTypeInvariant, PTL

-----------------------------------------------------------------------------
(* The idle timer.                                                         *)

\* The last of a connection's Entries is as many buckets from the end as there were ticks
\* since it was put there: no Entry stays longer, and a connection that is open, and
\* that no callback is just putting into a bucket, has that one.
EntriesAge ==
  /\ \A c \in Conns, i \in 1 .. ExpiredSec : c \in connBuckets_[i] => i + age[c] <= ExpiredSec
  /\ \A c \in Conns : conn[c] = "CONNECTED" /\ ~Held(c) =>
       age[c] < ExpiredSec /\ c \in connBuckets_[ExpiredSec - age[c]]

\* What a tick does to one connection.
LEMMA Tick ==
  ASSUME TypeOK, EntriesAge, OnTimerDone, NEW c \in Conns
  PROVE  /\ \A i \in 1 .. ExpiredSec : c \in connBuckets_'[i] => i + age'[c] <= ExpiredSec
         /\ conn[c] = "CONNECTED" /\ ~Held(c) =>
              IF age[c] + 1 = ExpiredSec
              THEN conn'[c] = "DISCONNECTING"
              ELSE /\ age'[c] = age[c] + 1 /\ age'[c] < ExpiredSec
                   /\ c \in connBuckets_'[ExpiredSec - age'[c]]
                   /\ conn'[c] = "CONNECTED"
         /\ conn'[c] = "CONNECTED" => conn[c] = "CONNECTED"
         /\ conn'[c] # conn[c] => conn[c] = "CONNECTED" /\ ~Held(c)
<1>0. ExpiredSec \in Nat /\ ExpiredSec >= 1
  BY WebAssumption
<1>1. /\ ExpiredSec \in Nat /\ ExpiredSec >= 1
      /\ age \in [Conns -> 0 .. ExpiredSec]
      /\ connBuckets_ \in [1 .. ExpiredSec -> SUBSET Conns]
  BY <1>0 DEF TypeOK
<1>2. age[c] \in 0 .. ExpiredSec /\ age'[c] = IF age[c] < ExpiredSec THEN age[c] + 1 ELSE age[c]
  BY <1>1 DEF OnTimerDone
<1>3. /\ connBuckets_' \in [1 .. ExpiredSec -> SUBSET Conns]
      /\ \A i \in 1 .. ExpiredSec - 1 : connBuckets_'[i] = connBuckets_[i + 1]
      /\ connBuckets_'[ExpiredSec] = {}
  BY <1>1, BucketsMove DEF OnTimerDone
<1>4. ASSUME NEW i \in 1 .. ExpiredSec, c \in connBuckets_'[i]
      PROVE  i + age'[c] <= ExpiredSec
  <2>1. i \in 1 .. ExpiredSec - 1
    BY <1>1, <1>3, <1>4
  <2>2. i + 1 \in 1 .. ExpiredSec /\ c \in connBuckets_[i + 1]
    BY <1>1, <1>3, <1>4, <2>1
  <2>3. i + 1 + age[c] <= ExpiredSec
    BY <2>2 DEF EntriesAge
  <2> QED
    BY <1>1, <1>2, <2>1, <2>3
<1> DEFINE drops == /\ InBucket(c) /\ ~Held(c)
                    /\ \A i \in DOMAIN connBuckets_' : c \notin connBuckets_'[i]
<1>5. conn'[c] = IF drops /\ conn[c] = "CONNECTED" THEN "DISCONNECTING" ELSE conn[c]
  BY DEF OnTimerDone
<1>6. ASSUME conn[c] = "CONNECTED", ~Held(c)
      PROVE  IF age[c] + 1 = ExpiredSec
             THEN conn'[c] = "DISCONNECTING"
             ELSE /\ age'[c] = age[c] + 1 /\ age'[c] < ExpiredSec
                  /\ c \in connBuckets_'[ExpiredSec - age'[c]]
                  /\ conn'[c] = "CONNECTED"
  <2>1. age[c] < ExpiredSec /\ c \in connBuckets_[ExpiredSec - age[c]]
    BY <1>6 DEF EntriesAge
  <2>2. age'[c] = age[c] + 1
    BY <1>2, <2>1
  <2>3. CASE age[c] + 1 = ExpiredSec
    <3>1. \A i \in DOMAIN connBuckets_' : c \notin connBuckets_'[i]
      BY <1>1, <1>3, <1>4, <2>2, <2>3
    <3>2. InBucket(c)
      <4>1. ExpiredSec - age[c] \in 1 .. ExpiredSec
        BY <1>1, <1>2, <2>1
      <4> QED
        BY <1>1, <2>1, <4>1 DEF InBucket
    <3>3. drops
      BY <1>6, <3>1, <3>2
    <3> QED
      BY <1>5, <1>6, <2>3, <3>3
  <2>4. CASE age[c] + 1 # ExpiredSec
    <3>1. /\ age'[c] < ExpiredSec /\ ExpiredSec - age'[c] \in 1 .. ExpiredSec - 1
          /\ ExpiredSec - age'[c] + 1 = ExpiredSec - age[c]
      BY <1>1, <1>2, <2>1, <2>2, <2>4
    <3>2. c \in connBuckets_'[ExpiredSec - age'[c]]
      BY <1>3, <2>1, <3>1
    <3>3. ~drops
      BY <1>1, <1>3, <3>1, <3>2
    <3> QED
      BY <1>5, <1>6, <2>2, <2>4, <3>1, <3>2, <3>3
  <2> QED
    BY <2>3, <2>4
<1> QED
  BY <1>4, <1>5, <1>6

LEMMA AgeStep == TypeOK /\ EntriesAge /\ [Next]_vars => EntriesAge'
<1> SUFFICES ASSUME TypeOK, EntriesAge, [Next]_vars PROVE EntriesAge'
  OBVIOUS
<1>a. ExpiredSec \in Nat /\ ExpiredSec >= 1
  BY WebAssumption
<1>0. /\ ExpiredSec \in Nat /\ ExpiredSec >= 1
      /\ age \in [Conns -> 0 .. ExpiredSec]
      /\ connBuckets_ \in [1 .. ExpiredSec -> SUBSET Conns]
      /\ conn \in [Conns -> {"new", "CONNECTED", "DISCONNECTING", "gone"}]
      /\ pc \in [Conns -> {"idle", "enter", "insert", "parse", "finish"}]
  BY <1>a DEF TypeOK
<1>1. CASE OnTimer
  BY <1>1 DEF OnTimer, EntriesAge, Held
<1>2. CASE OnTimerDone
  <2>1. \A c \in Conns : Held(c)' = Held(c)
    BY <1>2 DEF OnTimerDone, Held
  <2>2. \A c \in Conns, i \in 1 .. ExpiredSec : c \in connBuckets_'[i] => i + age'[c] <= ExpiredSec
    BY <1>2, Tick
  <2>3. ASSUME NEW c \in Conns, conn'[c] = "CONNECTED", ~Held(c)'
        PROVE  age'[c] < ExpiredSec /\ c \in connBuckets_'[ExpiredSec - age'[c]]
    BY <1>2, <2>1, <2>3, Tick
  <2> QED
    BY <2>2, <2>3 DEF EntriesAge
<1>3. ASSUME NEW c \in Conns, OnConnection(c) PROVE EntriesAge'
  BY <1>0, <1>3 DEF OnConnection, EntriesAge, Held
<1>4. ASSUME NEW c \in Conns, OnMessage(c) PROVE EntriesAge'
  <2>1. pc[c] = "idle" /\ UNCHANGED <<connBuckets_, conn, age>>
    BY <1>4 DEF OnMessage
  <2>2. \A d \in Conns : d # c => pc'[d] = pc[d]
    BY <1>0, <1>4 DEF OnMessage
  <2> QED
    BY <2>1, <2>2 DEF EntriesAge, Held
<1>5. ASSUME NEW c \in Conns, Destroyed(c) PROVE EntriesAge'
  BY <1>0, <1>5 DEF Destroyed, EntriesAge, Held
<1>6. ASSUME NEW c \in Conns, Enter(c) PROVE EntriesAge'
  BY <1>0, <1>6 DEF Enter, EntriesAge, Held
<1>7. ASSUME NEW c \in Conns, Insert(c) PROVE EntriesAge'
  <2>1. connBuckets_' = [connBuckets_ EXCEPT ![ExpiredSec] = @ \cup {c}]
    BY <1>0, <1>7, BucketsMove DEF Insert
  <2>2. age' = [age EXCEPT ![c] = 0] /\ conn' = conn
    BY <1>7 DEF Insert
  <2>3. \A d \in Conns : d # c => pc'[d] = pc[d]
    BY <1>0, <1>7 DEF Insert
  <2>4. ASSUME NEW d \in Conns, NEW i \in 1 .. ExpiredSec, d \in connBuckets_'[i]
        PROVE  i + age'[d] <= ExpiredSec
    <3>1. CASE d = c
      BY <1>0, <2>2, <3>1
    <3>2. CASE d # c
      <4>1. d \in connBuckets_[i] /\ age'[d] = age[d]
        BY <1>0, <2>1, <2>2, <2>4, <3>2
      <4> QED
        BY <4>1 DEF EntriesAge
    <3> QED
      BY <3>1, <3>2
  <2>5. ASSUME NEW d \in Conns, conn'[d] = "CONNECTED", ~Held(d)'
        PROVE  age'[d] < ExpiredSec /\ d \in connBuckets_'[ExpiredSec - age'[d]]
    <3>1. CASE d = c
      BY <1>0, <2>1, <2>2, <3>1
    <3>2. CASE d # c
      <4>1. age'[d] = age[d] /\ conn[d] = "CONNECTED" /\ ~Held(d)
        BY <1>0, <2>2, <2>3, <2>5, <3>2 DEF Held
      <4>2. age[d] < ExpiredSec /\ d \in connBuckets_[ExpiredSec - age[d]]
        BY <4>1 DEF EntriesAge
      <4>3. ExpiredSec - age[d] \in 1 .. ExpiredSec
        BY <1>0, <4>2
      <4> QED
        BY <1>0, <2>1, <4>1, <4>2, <4>3
    <3> QED
      BY <3>1, <3>2
  <2> QED
    BY <2>4, <2>5 DEF EntriesAge
<1>8. ASSUME NEW c \in Conns, ParseError(c) \/ ParseRequest(c) \/ Finish(c) PROVE EntriesAge'
  <2>1. pc[c] \in {"parse", "finish"} /\ UNCHANGED <<connBuckets_, conn, age>>
    BY <1>8 DEF ParseError, ParseRequest, Finish
  <2>2. \A d \in Conns : d # c => pc'[d] = pc[d]
    BY <1>0, <1>8 DEF ParseError, ParseRequest, Finish, Returns
  <2> QED
    BY <2>1, <2>2 DEF EntriesAge, Held
<1>9. CASE UNCHANGED vars
  BY <1>9 DEF vars, EntriesAge, Held
<1> QED
  BY <1>1, <1>2, <1>3, <1>4, <1>5, <1>6, <1>7, <1>8, <1>9 DEF Next, CallbackStep

\* The buckets are the idle time of the connections in them.
THEOREM BucketsTellAge == Spec => []EntriesAge
<1>1. Init => EntriesAge
  BY WebAssumption DEF Init, EntriesAge
<1> QED
  BY <1>1, AgeStep, TypeCorrect, PTL DEF Spec

\* No connection stays open when it has been silent for expiredSec_ ticks.
THEOREM IdleAreShutDown == Spec => []IdleIsShutDown
<1>1. EntriesAge => IdleIsShutDown
  BY DEF EntriesAge, IdleIsShutDown
<1> QED
  BY <1>1, BucketsTellAge, PTL

\* The idle timer shuts down no connection that has not been silent for that long, and
\* none that a callback is just putting into a bucket.
THEOREM ActiveAreKept == Spec => ActiveIsKept
<1> DEFINE Kept == \A c \in Conns :
                     conn[c] = "CONNECTED" /\ conn'[c] = "DISCONNECTING"
                     => age'[c] = ExpiredSec /\ ~Held(c)
<1>1. TypeOK /\ EntriesAge /\ [Next]_vars => [Kept]_vars
  <2> SUFFICES ASSUME TypeOK, EntriesAge, Next, NEW c \in Conns,
                      conn[c] = "CONNECTED", conn'[c] = "DISCONNECTING"
               PROVE  age'[c] = ExpiredSec /\ ~Held(c)
    OBVIOUS
  <2>0. conn \in [Conns -> {"new", "CONNECTED", "DISCONNECTING", "gone"}]
    BY DEF TypeOK
  <2>1. OnTimerDone
    BY <2>0 DEF Next, CallbackStep, OnTimer, OnConnection, OnMessage, Destroyed, Enter, Insert,
                ParseError, ParseRequest, Finish
  <2>2. ~Held(c) /\ age[c] + 1 = ExpiredSec
    BY <2>1, Tick
  <2>3. ExpiredSec \in Nat /\ age[c] \in 0 .. ExpiredSec
    BY WebAssumption DEF TypeOK
  <2>4. age'[c] = IF age[c] < ExpiredSec THEN age[c] + 1 ELSE age[c]
    BY <2>1 DEF OnTimerDone
  <2> QED
    BY <2>2, <2>3, <2>4
<1>2. Spec => [][Kept]_vars
  BY <1>1, BucketsTellAge, TypeCorrect, PTL DEF Spec
<1> QED
  BY <1>2 DEF ActiveIsKept

-----------------------------------------------------------------------------
(* Pipelined requests.                                                     *)

Gets(m, k) == {i \in 1 .. k : m[i] = "get"}

\* b is what is left of m behind its line k.
LeftAfter(m, k, b) ==
  /\ k \in Nat /\ k + Len(b) = Len(m)
  /\ \A i \in 1 .. Len(b) : b[i] = m[k + i]

LEMMA GetsAreFinite ==
  ASSUME NEW m, NEW k \in Nat
  PROVE  IsFiniteSet(Gets(m, k)) /\ Cardinality(Gets(m, k)) \in Nat
<1>1. IsFiniteSet(1 .. k)
  BY FS_Interval
<1>2. Gets(m, k) \in SUBSET (1 .. k)
  BY DEF Gets
<1> QED
  BY <1>1, <1>2, FS_Subset, FS_CardinalityType

\* What ParseRequest takes is exactly the next one of the whole requests that came.
LEMMA NextRequest ==
  ASSUME NEW m \in Seq(Lines), WholeRequests(m, FALSE),
         NEW b \in Seq(Lines), b # <<>>,
         NEW k, LeftAfter(m, k, b), k = 0 \/ m[k] = "blank"
  PROVE  LET e == k + HeaderEnd(b)
             rest == AfterRequest(b)
         IN  /\ Head(b) \in RequestLines
             /\ LeftAfter(m, e, rest) /\ m[e] = "blank" /\ e # 0
             /\ rest # <<>> => Head(rest) \in RequestLines
             /\ Cardinality(Gets(m, e))
                  = Cardinality(Gets(m, k)) + IF Head(b) = "get" THEN 1 ELSE 0
             /\ AsksToClose(b) <=> \E i \in k + 1 .. e : m[i] = "close"
<1> DEFINE e == k + HeaderEnd(b)
           rest == AfterRequest(b)
<1>1. /\ Len(b) \in Nat /\ Len(b) >= 1 /\ Len(m) \in Nat
      /\ k \in Nat /\ k + Len(b) = Len(m)
      /\ \A i \in 1 .. Len(b) : b[i] = m[k + i]
  BY EmptySeq DEF LeftAfter
<1>2. /\ HeaderEnd(b) \in 1 .. Len(b)
      /\ b[HeaderEnd(b)] = "blank" \/ HeaderEnd(b) = Len(b)
      /\ \A i \in 2 .. HeaderEnd(b) - 1 : b[i] # "blank"
  BY HeaderEndExists
<1>3. /\ m[Len(m)] = "blank"
      /\ \A i \in 1 .. Len(m) : m[i] \in RequestLines <=> (i = 1 \/ m[i - 1] = "blank")
  BY DEF WholeRequests
<1>4. e \in 1 .. Len(m) /\ k + 1 \in 1 .. Len(m) /\ k + 1 <= e
  BY <1>1, <1>2
<1>5. m[k + 1] \in RequestLines
  <2>1. k + 1 = 1 \/ m[(k + 1) - 1] = "blank"
    BY <1>1
  <2> QED
    BY <1>3, <1>4, <2>1
<1>6. Head(b) = m[k + 1]
  BY <1>1
<1>7. m[e] = "blank"
  <2>1. b[HeaderEnd(b)] = m[e]
    BY <1>1, <1>2
  <2>2. CASE HeaderEnd(b) = Len(b)
    BY <1>1, <1>3, <2>2
  <2> QED
    BY <1>2, <2>1, <2>2
<1>8. /\ rest \in Seq(Lines) /\ Len(rest) = Len(b) - HeaderEnd(b)
      /\ \A i \in 1 .. Len(rest) : rest[i] = b[HeaderEnd(b) + i]
  BY RequestIsTaken
<1>9. LeftAfter(m, e, rest)
  <2>1. ASSUME NEW i \in 1 .. Len(rest)
        PROVE  rest[i] = m[e + i]
    <3>1. HeaderEnd(b) + i \in 1 .. Len(b) /\ k + (HeaderEnd(b) + i) = e + i
      BY <1>1, <1>2, <1>8
    <3> QED
      BY <1>1, <1>8, <3>1
  <2>2. e \in Nat /\ e + Len(rest) = Len(m)
    BY <1>1, <1>2, <1>8
  <2> QED
    BY <2>1, <2>2 DEF LeftAfter
<1>10. ASSUME rest # <<>>
       PROVE  Head(rest) \in RequestLines
  <2>1. Len(rest) \in Nat /\ Len(rest) >= 1
    BY <1>8, <1>10, EmptySeq
  <2>2. Head(rest) = m[e + 1] /\ e + 1 \in 1 .. Len(m) /\ (e + 1) - 1 = e
    BY <1>4, <1>9, <2>1 DEF LeftAfter
  <2> QED
    BY <1>3, <1>7, <2>2
<1>11. ASSUME NEW i \in k + 2 .. e
       PROVE  m[i] \notin RequestLines
  <2>1. i \in 1 .. Len(m) /\ i # 1 /\ i - 1 \in k + 1 .. e - 1
    BY <1>1, <1>4
  <2>2. CASE i - 1 = k + 1
    BY <1>3, <1>5, <2>1, <2>2 DEF RequestLines
  <2>3. CASE i - 1 # k + 1
    <3>1. (i - 1) - k \in 2 .. HeaderEnd(b) - 1 /\ (i - 1) - k \in 1 .. Len(b)
      BY <1>1, <1>2, <2>1, <2>3
    <3>2. m[i - 1] = b[(i - 1) - k]
      BY <1>1, <2>1, <3>1
    <3> QED
      BY <1>2, <1>3, <2>1, <3>1, <3>2
  <2> QED
    BY <2>2, <2>3
<1>12. Cardinality(Gets(m, e)) = Cardinality(Gets(m, k)) + IF Head(b) = "get" THEN 1 ELSE 0
  <2>1. Gets(m, e) = Gets(m, k) \cup (IF m[k + 1] = "get" THEN {k + 1} ELSE {})
    <3>1. \A i \in k + 2 .. e : m[i] # "get"
      BY <1>11 DEF RequestLines
    <3> QED
      BY <1>1, <1>4, <3>1 DEF Gets
  <2>2. k + 1 \notin Gets(m, k)
    BY <1>1 DEF Gets
  <2>3. IsFiniteSet(Gets(m, k)) /\ Cardinality(Gets(m, k)) \in Nat
    BY <1>1, GetsAreFinite
  <2>4. CASE m[k + 1] = "get"
    BY <1>6, <2>1, <2>2, <2>3, <2>4, FS_AddElement
  <2>5. CASE m[k + 1] # "get"
    <3>1. Gets(m, e) = Gets(m, k)
      BY <2>1, <2>5
    <3> QED
      BY <1>6, <2>3, <2>5, <3>1
  <2> QED
    BY <2>4, <2>5
<1>13. AsksToClose(b) <=> \E i \in k + 1 .. e : m[i] = "close"
  <2>1. m[k + 1] # "close"
    BY <1>5 DEF RequestLines
  <2>2. \A i \in 2 .. HeaderEnd(b) : b[i] = m[k + i] /\ k + i \in k + 1 .. e
    BY <1>1, <1>2
  <2>3. ASSUME NEW i \in k + 2 .. e
        PROVE  i - k \in 2 .. HeaderEnd(b) /\ b[i - k] = m[i]
    <3>1. i - k \in 2 .. HeaderEnd(b) /\ i - k \in 1 .. Len(b) /\ k + (i - k) = i
      BY <1>1, <1>2
    <3> QED
      BY <1>1, <3>1
  <2>4. ASSUME NEW i \in k + 1 .. e, m[i] = "close"
        PROVE  AsksToClose(b)
    <3>1. i \in k + 2 .. e
      BY <1>1, <1>4, <2>1, <2>4
    <3> QED
      BY <2>3, <2>4, <3>1 DEF AsksToClose
  <2> QED
    BY <2>2, <2>4 DEF AsksToClose
<1>14. e # 0
  BY <1>4
<1> QED
  BY <1>5, <1>6, <1>7, <1>9, <1>10, <1>12, <1>13, <1>14

\* Of a message of whole requests that came by a connection still open: every GET behind
\* which onMessage has got is answered, and the connection is, or is about to be,
\* closed if and only if one of the requests behind it says so.
SoFar(c) ==
  LET k == Len(message[c]) - Len(inBuffer[c]) IN
  /\ LeftAfter(message[c], k, inBuffer[c])
  /\ k = 0 \/ message[c][k] = "blank"
  /\ answered[c] = Cardinality(Gets(message[c], k))
  /\ (closes[c] = 0 /\ keepAlive[c]) <=> \A i \in 1 .. k : message[c][i] # "close"

Answering(c) ==
  /\ pc[c] = "idle" => message[c] = <<>>
  /\ pc[c] \in {"enter", "insert"} => message[c] = inBuffer[c]
  /\ pc[c] = "parse" => inBuffer[c] # <<>> \/ part[c]
  /\ pc[c] # "finish" => keepAlive[c]
  /\ conn[c] = "CONNECTED" /\ WholeRequests(message[c], part[c]) => SoFar(c)

AnswersSoFar == \A c \in Conns : Answering(c)

\* A step that leaves a connection and its buffer alone.
LEMMA OtherAnswering ==
  ASSUME NEW d, Answering(d),
         UNCHANGED <<message[d], inBuffer[d], part[d], keepAlive[d], closes[d], answered[d]>>,
         conn'[d] = "CONNECTED" => conn[d] = "CONNECTED",
         pc'[d] = pc[d]
           \/ (/\ pc'[d] = "idle" => message[d] = <<>>
               /\ pc'[d] \in {"enter", "insert"} => message[d] = inBuffer[d]
               /\ pc'[d] = "parse" => inBuffer[d] # <<>> \/ part[d]
               /\ pc[d] # "finish")
  PROVE  Answering(d)'
<1>1. SoFar(d) => SoFar(d)'
  BY DEF SoFar
<1> QED
  BY <1>1 DEF Answering

LEMMA AnsweringStep == WebTypeInv /\ AnswersSoFar /\ [Next]_vars => AnswersSoFar'
<1> SUFFICES ASSUME WebTypeInv, AnswersSoFar, [Next]_vars, NEW d \in Conns
             PROVE  Answering(d)'
  BY DEF AnswersSoFar
<1>0. Answering(d)
  BY DEF AnswersSoFar
<1>a. /\ message \in [Conns -> Seq(Lines)] /\ inBuffer \in [Conns -> Seq(Lines)]
      /\ part \in [Conns -> BOOLEAN] /\ keepAlive \in [Conns -> BOOLEAN]
      /\ closes \in [Conns -> 0 .. MaxCloses] /\ answered \in [Conns -> 0 .. MaxLines]
      /\ conn \in [Conns -> {"new", "CONNECTED", "DISCONNECTING", "gone"}]
      /\ pc \in [Conns -> {"idle", "enter", "insert", "parse", "finish"}]
  BY DEF WebTypeInv, TypeOK
<1>b. MaxCloses \in Nat /\ MaxCloses >= 1
  BY WebAssumption
<1>1. CASE OnTimer
  BY <1>0, <1>1, OtherAnswering DEF OnTimer, bufferVars
<1>2. CASE OnTimerDone
  <2>1. conn'[d] = "CONNECTED" => conn[d] = "CONNECTED"
    BY <1>2 DEF OnTimerDone
  <2> QED
    BY <1>0, <1>2, <2>1, OtherAnswering DEF OnTimerDone, bufferVars
<1>3. ASSUME NEW c \in Conns, OnConnection(c) PROVE Answering(d)'
  <2>1. CASE d = c
    <3>1. /\ pc[c] = "idle" /\ pc'[c] = "enter"
          /\ UNCHANGED <<message, inBuffer, part, keepAlive, closes, answered>>
      BY <1>a, <1>3 DEF OnConnection, bufferVars, WebTypeInv, AnswersFit
    <3>2. message[c] = <<>> /\ inBuffer[c] = <<>>
      BY <1>0, <2>1, <3>1 DEF Answering, WebTypeInv, TypeOK
    <3> QED
      BY <1>0, <2>1, <3>1, <3>2 DEF Answering, WholeRequests
  <2>2. CASE d # c
    BY <1>0, <1>a, <1>3, <2>2, OtherAnswering DEF OnConnection, bufferVars
  <2> QED
    BY <2>1, <2>2
<1>4. ASSUME NEW c \in Conns, OnMessage(c) PROVE Answering(d)'
  <2>1. PICK r \in Readable(c) : /\ inBuffer' = [inBuffer EXCEPT ![c] = r[1]]
                                 /\ part' = [part EXCEPT ![c] = r[2]]
                                 /\ message' = [message EXCEPT ![c] = r[1]]
    BY <1>4 DEF OnMessage
  <2>2. /\ pc[c] = "idle" /\ closes[c] = 0
        /\ pc' \in {[pc EXCEPT ![c] = "enter"], [pc EXCEPT ![c] = "parse"]}
        /\ UNCHANGED <<conn, keepAlive, closes, answered>>
    BY <1>4 DEF OnMessage
  <2>3. CASE d = c
    <3>1. r[1] \in Seq(Lines) /\ (r[1] # <<>> \/ r[2])
      BY ReadableLines
    <3>2. inBuffer'[c] = r[1] /\ message'[c] = r[1] /\ part'[c] = r[2]
      BY <1>a, <2>1
    <3>3. keepAlive[c] /\ answered[c] = 0
      BY <1>0, <2>2, <2>3 DEF Answering, WebTypeInv, AnswersFit
    <3>4. Len(r[1]) \in Nat /\ Len(r[1]) - Len(r[1]) = 0
      BY <3>1, LenProperties
    <3>5. Cardinality(Gets(r[1], 0)) = 0
      BY FS_EmptySet DEF Gets
    <3>6. SoFar(c)'
      BY <2>2, <3>2, <3>3, <3>4, <3>5 DEF SoFar, LeftAfter
    <3>7. pc'[c] \in {"enter", "parse"}
      BY <1>a, <2>2
    <3> QED
      BY <2>2, <2>3, <3>1, <3>2, <3>3, <3>6, <3>7 DEF Answering
  <2>4. CASE d # c
    BY <1>0, <1>a, <2>1, <2>2, <2>4, OtherAnswering
  <2> QED
    BY <2>3, <2>4
<1>5. ASSUME NEW c \in Conns, Destroyed(c) PROVE Answering(d)'
  BY <1>0, <1>a, <1>5, OtherAnswering DEF Destroyed, bufferVars
<1>6. ASSUME NEW c \in Conns, Enter(c) PROVE Answering(d)'
  <2>1. CASE d = c
    BY <1>0, <1>a, <1>6, <2>1, OtherAnswering DEF Enter, bufferVars, Answering
  <2>2. CASE d # c
    BY <1>0, <1>a, <1>6, <2>2, OtherAnswering DEF Enter, bufferVars
  <2> QED
    BY <2>1, <2>2
<1>7. ASSUME NEW c \in Conns, Insert(c) PROVE Answering(d)'
  <2>1. CASE d = c
    <3>1. /\ pc[c] = "insert" /\ pc'[c] \in {"parse", "idle"}
          /\ pc'[c] = "parse" <=> (inBuffer[c] # <<>> \/ part[c])
          /\ UNCHANGED <<message, inBuffer, part, keepAlive, closes, answered, conn>>
      BY <1>a, <1>7 DEF Insert, bufferVars
    <3>2. pc'[c] = "idle" => message[c] = <<>>
      BY <1>0, <1>a, <2>1, <3>1 DEF Answering
    <3> QED
      BY <1>0, <2>1, <3>1, <3>2, OtherAnswering
  <2>2. CASE d # c
    BY <1>0, <1>a, <1>7, <2>2, OtherAnswering DEF Insert, bufferVars
  <2> QED
    BY <2>1, <2>2
<1>8. ASSUME NEW c \in Conns, ParseError(c) PROVE Answering(d)'
  <2>1. CASE d = c
    <3>1. /\ pc[c] = "parse" /\ pc'[c] = "finish"
          /\ inBuffer[c] # <<>> => Head(inBuffer[c]) \notin RequestLines
          /\ UNCHANGED <<message, part, conn>>
      BY <1>a, <1>8 DEF ParseError
    <3>2. ASSUME conn[c] = "CONNECTED", WholeRequests(message[c], part[c])
          PROVE  FALSE
      <4>1. SoFar(c) /\ ~part[c] /\ inBuffer[c] # <<>>
        BY <1>0, <2>1, <3>1, <3>2 DEF Answering, WholeRequests
      <4>2. WholeRequests(message[c], FALSE)
        BY <3>2 DEF WholeRequests
      <4>3. /\ LeftAfter(message[c], Len(message[c]) - Len(inBuffer[c]), inBuffer[c])
            /\ \/ Len(message[c]) - Len(inBuffer[c]) = 0
               \/ message[c][Len(message[c]) - Len(inBuffer[c])] = "blank"
        BY <4>1 DEF SoFar
      <4>4. message[c] \in Seq(Lines) /\ inBuffer[c] \in Seq(Lines)
        BY <1>a
      <4>5. Head(inBuffer[c]) \in RequestLines
        BY <4>1, <4>2, <4>3, <4>4, NextRequest
      <4> QED
        BY <3>1, <4>1, <4>5
    <3> QED
      BY <2>1, <3>1, <3>2 DEF Answering
  <2>2. CASE d # c
    BY <1>0, <1>a, <1>8, <2>2, OtherAnswering DEF ParseError
  <2> QED
    BY <2>1, <2>2
<1>9. ASSUME NEW c \in Conns, ParseRequest(c) PROVE Answering(d)'
  <2> DEFINE m == message[c]
             b == inBuffer[c]
             k == Len(m) - Len(b)
             e == k + HeaderEnd(b)
             rest == AfterRequest(b)
             n == IF Head(b) = "get" THEN 1 ELSE 0
  <2>1. CASE d = c
    <3>1. /\ pc[c] = "parse" /\ pc'[c] = "finish" /\ b # <<>>
          /\ inBuffer'[c] = rest /\ message'[c] = m
          /\ keepAlive'[c] = ~AsksToClose(b)
          /\ UNCHANGED <<part, conn, closes>>
      BY <1>a, <1>9 DEF ParseRequest
    <3>2. conn[c] = "CONNECTED" /\ ~(rest # <<>> /\ Head(rest) \notin RequestLines)
            => answered'[c] = answered[c] + n
      BY <1>a, <1>9 DEF ParseRequest, Answers
    <3>3. ASSUME conn[c] = "CONNECTED", WholeRequests(m, part[c])
          PROVE  SoFar(c)'
      <4>1. SoFar(c) /\ keepAlive[c]
        BY <1>0, <2>1, <3>1, <3>3 DEF Answering
      <4>2. WholeRequests(m, FALSE) /\ m \in Seq(Lines) /\ b \in Seq(Lines)
        BY <1>a, <3>3 DEF WholeRequests
      <4>3. LeftAfter(m, k, b) /\ (k = 0 \/ m[k] = "blank")
        BY <4>1 DEF SoFar
      <4>4. /\ LeftAfter(m, e, rest) /\ m[e] = "blank"
            /\ rest # <<>> => Head(rest) \in RequestLines
            /\ Cardinality(Gets(m, e)) = Cardinality(Gets(m, k)) + n
            /\ AsksToClose(b) <=> \E i \in k + 1 .. e : m[i] = "close"
        <5> HIDE DEF m, b, k
        <5> QED
          BY <3>1, <4>2, <4>3, NextRequest
      <4>5. answered'[c] = Cardinality(Gets(m, e))
        BY <3>2, <3>3, <4>1, <4>4 DEF SoFar
      <4>6. e \in Nat /\ k \in Nat /\ k <= e /\ e = Len(m) - Len(rest)
        <5>1. rest \in Seq(Lines)
          BY <3>1, <4>2, RequestIsTaken
        <5>2. HeaderEnd(b) \in 1 .. Len(b) /\ Len(b) \in Nat /\ Len(m) \in Nat
          BY <3>1, <4>2, HeaderEndExists, LenProperties
        <5>3. e = k + HeaderEnd(b) /\ k = Len(m) - Len(b)
          OBVIOUS
        <5> HIDE DEF m, b, k, e, rest
        <5>4. Len(rest) \in Nat
          BY <5>1, LenProperties
        <5>5. k \in Nat /\ e \in Nat /\ e + Len(rest) = Len(m)
          BY <4>3, <4>4 DEF LeftAfter
        <5> QED
          BY <5>2, <5>3, <5>4, <5>5
      <4>7. (closes'[c] = 0 /\ keepAlive'[c]) <=> \A i \in 1 .. e : m[i] # "close"
        <5>1. closes[c] = 0 <=> \A i \in 1 .. k : m[i] # "close"
          BY <4>1 DEF SoFar
        <5> HIDE DEF m, b, k, e
        <5>2. \A i \in 1 .. e : i \in 1 .. k \/ i \in k + 1 .. e
          BY <4>6
        <5>3. \A i \in k + 1 .. e : i \in 1 .. e
          BY <4>6
        <5>4. \A i \in 1 .. k : i \in 1 .. e
          BY <4>6
        <5> QED
          BY <3>1, <4>4, <5>1, <5>2, <5>3, <5>4
      <4> HIDE DEF m, b, k, e, rest, n
      <4> QED
        BY <3>1, <4>4, <4>5, <4>6, <4>7 DEF SoFar
    <3> QED
      BY <2>1, <3>1, <3>3 DEF Answering
  <2>2. CASE d # c
    BY <1>0, <1>a, <1>9, <2>2, OtherAnswering DEF ParseRequest
  <2> QED
    BY <2>1, <2>2
<1>10. ASSUME NEW c \in Conns, Finish(c) PROVE Answering(d)'
  <2>1. CASE d = c
    <3>1. /\ pc[c] = "finish" /\ UNCHANGED <<inBuffer, part, conn>>
          /\ closes'[c] = closes[c] + IF ClosesNow(c) THEN 1 ELSE 0
          /\ keepAlive'[c]
      BY <1>a, <1>10 DEF Finish, Returns
    <3>2. CASE inBuffer[c] # <<>> \/ part[c]
      <4>1. pc'[c] = "parse" /\ UNCHANGED <<message, answered>>
        BY <1>a, <1>10, <3>2 DEF Finish, Returns
      <4>2. ASSUME conn[c] = "CONNECTED", SoFar(c)
            PROVE  SoFar(c)'
        <5>1. closes'[c] = 0 <=> closes[c] = 0 /\ keepAlive[c]
          BY <1>a, <1>b, <3>1, <4>2 DEF ClosesNow
        <5> QED
          BY <3>1, <4>1, <4>2, <5>1 DEF SoFar
      <4> QED
        BY <1>0, <2>1, <3>1, <3>2, <4>1, <4>2 DEF Answering
    <3>3. CASE ~(inBuffer[c] # <<>> \/ part[c])
      <4>1. pc'[c] = "idle" /\ message'[c] = <<>>
        BY <1>a, <1>10, <3>3 DEF Finish, Returns
      <4> QED
        BY <2>1, <3>1, <4>1 DEF Answering, WholeRequests
    <3> QED
      BY <3>2, <3>3
  <2>2. CASE d # c
    BY <1>0, <1>a, <1>10, <2>2, OtherAnswering DEF Finish, Returns
  <2> QED
    BY <2>1, <2>2
<1>11. CASE UNCHANGED vars
  BY <1>0, <1>11, OtherAnswering DEF vars, bufferVars
<1> QED
  BY <1>1, <1>2, <1>3, <1>4, <1>5, <1>6, <1>7, <1>8, <1>9, <1>10, <1>11 DEF Next, CallbackStep

\* Nothing of one request is left over for the next, however many come at a time.
THEOREM AnswersKeepUp == Spec => []AnswersSoFar
<1>1. Init => AnswersSoFar
  BY DEF Init, AnswersSoFar, Answering, WholeRequests
<1> QED
  BY <1>1, AnsweringStep, WebTypeInvariant, PTL DEF Spec

\* When onMessage returns from requests that came whole, pipelined or not, each GET has
\* been answered once, and the connection was closed if and only if one asked for it.
THEOREM EachRequestAnswered == Spec => WholeRequestsAnswered
<1> DEFINE Answered ==
      \A c \in Conns :
        pc[c] = "finish" /\ pc'[c] = "idle" /\ conn'[c] = "CONNECTED"
          /\ WholeRequests(message[c], part[c])
        => /\ answered[c] = Count(message[c], "get")
           /\ closes'[c] = 0 <=> ~\E i \in DOMAIN message[c] : message[c][i] = "close"
<1>1. WebTypeInv /\ AnswersSoFar /\ [Next]_vars => [Answered]_vars
  <2> SUFFICES ASSUME WebTypeInv, AnswersSoFar, Next, NEW c \in Conns,
                      pc[c] = "finish", pc'[c] = "idle", conn'[c] = "CONNECTED",
                      WholeRequests(message[c], part[c])
               PROVE  /\ answered[c] = Count(message[c], "get")
                      /\ closes'[c] = 0 <=> ~\E i \in DOMAIN message[c] : message[c][i] = "close"
    OBVIOUS
  <2>0. /\ pc \in [Conns -> {"idle", "enter", "insert", "parse", "finish"}]
        /\ conn \in [Conns -> {"new", "CONNECTED", "DISCONNECTING", "gone"}]
        /\ message \in [Conns -> Seq(Lines)] /\ inBuffer \in [Conns -> Seq(Lines)]
        /\ closes \in [Conns -> 0 .. MaxCloses] /\ keepAlive \in [Conns -> BOOLEAN]
    BY DEF WebTypeInv, TypeOK
  <2>1. Finish(c)
    <3>1. \A d \in Conns : \/ OnConnection(d) \/ OnMessage(d) \/ Destroyed(d) \/ Enter(d)
                           \/ Insert(d) \/ ParseError(d) \/ ParseRequest(d)
                           \/ (Finish(d) /\ d # c)
             => ~(pc[c] = "finish" /\ pc'[c] = "idle")
      BY <2>0 DEF OnConnection, OnMessage, Destroyed, Enter, Insert, ParseError, ParseRequest,
                  Finish, Returns
    <3>2. OnTimer \/ OnTimerDone => pc' = pc
      BY DEF OnTimer, OnTimerDone
    <3> QED
      BY <3>1, <3>2 DEF Next, CallbackStep
  <2>2. /\ conn[c] = "CONNECTED" /\ inBuffer[c] = <<>>
        /\ closes'[c] = closes[c] + IF ClosesNow(c) THEN 1 ELSE 0
    BY <2>0, <2>1 DEF Finish, Returns
  <2>3. SoFar(c)
    BY <2>2 DEF AnswersSoFar, Answering
  <2>4. /\ Len(message[c]) \in Nat /\ Len(message[c]) - Len(inBuffer[c]) = Len(message[c])
        /\ DOMAIN message[c] = 1 .. Len(message[c])
    BY <2>0, <2>2, LenProperties, EmptySeq
  <2>5. /\ answered[c] = Cardinality(Gets(message[c], Len(message[c])))
        /\ (closes[c] = 0 /\ keepAlive[c]) <=>
             \A i \in 1 .. Len(message[c]) : message[c][i] # "close"
    BY <2>3, <2>4 DEF SoFar
  <2>6. closes'[c] = 0 <=> closes[c] = 0 /\ keepAlive[c]
    <3>1. MaxCloses \in Nat /\ MaxCloses >= 1
      BY WebAssumption
    <3> QED
      BY <2>0, <2>2, <3>1 DEF ClosesNow
  <2> QED
    BY <2>4, <2>5, <2>6 DEF Count, Gets
<1>2. Spec => [][Answered]_vars
  BY <1>1, AnswersKeepUp, WebTypeInvariant, PTL DEF Spec
<1> QED
  BY <1>2 DEF WholeRequestsAnswered
=============================================================================
