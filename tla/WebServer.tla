------------------------------ MODULE WebServer ------------------------------
(***************************************************************************)
(* The program on top of TcpServer (src/httpancake/webServer.cpp): every   *)
(* worker parses and answers the requests of its connections in onMessage, *)
(* and the main loop's timer shuts connections down that have been idle    *)
(* for ExpiredSec ticks.                                                   *)
(*                                                                         *)
(* A connection's Entry is shared by the buckets it is in and by the       *)
(* callback that is putting it into the last one; onTimer overwrites the   *)
(* first bucket, and the Entries this was the last reference to shut their *)
(* connections down.  connBuckets_ has no lock: an access begins and ends, *)
(* and when two threads are in it at once anything may come of it; status  *)
(* says so and the model ends there.                                       *)
(*                                                                         *)
(* Input is a sequence of lines ending in CRLF, possibly with an           *)
(* incomplete one at the end.  Only what onMessage asks of a line counts:  *)
(* is it a request line, does it say "Connection: close", is it blank.     *)
(*                                                                         *)
(* What closing a connection takes is TcpServer's; here a connection just  *)
(* goes, unless closing it would end the process.                          *)
(***************************************************************************)
EXTENDS Naturals, Sequences, FiniteSets

CONSTANTS
  Conns,       \* the connections, each on a worker of its own
  ExpiredSec,  \* expiredSec_
  MaxLines,    \* bound: the lines that arrive at a time
  Quiet,       \* bound: connections that only ever send one whole GET
  MaxCloses    \* bound: forceClose calls counted

ASSUME WebAssumption ==
  /\ ExpiredSec \in Nat \ {0} /\ MaxLines \in Nat \ {0, 1} /\ MaxCloses \in Nat \ {0}
  /\ Quiet \subseteq Conns

RequestLines == {"get", "post"}
Lines == RequestLines \cup {"close", "text", "blank"}

LinesUpTo(n) == UNION {[1 .. k -> Lines] : k \in 0 .. n}

\* What can be read at a time: complete lines, and TRUE if an incomplete one follows.
\* The longest messages are complete and end in a blank line.
Readable(c) ==
  IF c \in Quiet THEN {<< <<"get", "blank">>, FALSE>>}
  ELSE ((LinesUpTo(MaxLines - 1) \X BOOLEAN) \ {<< <<>>, FALSE>>})
         \cup {<<Append(ls, "blank"), FALSE>> : ls \in [1 .. MaxLines - 1 -> Lines]}

VARIABLES
  status,        \* "up", or what ended the process
  connBuckets_,  \* the circular buffer, first to last: the connections of the Entries
  mainPc,        \* the main loop: "idle", or in onTimer's "push"
  conn,          \* "new", CONNECTED, DISCONNECTING, or "gone"
  pc,            \* the worker of each connection: "idle", "enter" and "insert" (an Entry),
                 \* "parse" and "finish" (onMessage's loop)
  inBuffer,      \* complete lines
  part,          \* an incomplete line is behind them
  keepAlive,     \* keepAliveState of this turn of the loop
  closes,        \* how often forceClose has closed the connection
  message,       \* history: the lines this onMessage began with
  answered,      \* history: responses it has sent
  age            \* history: ticks since the Entry was last put into a bucket

bufferVars == <<inBuffer, part, keepAlive, closes, message, answered>>
vars == <<status, connBuckets_, mainPc, conn, pc, bufferVars, age>>

Init ==
  /\ status = "up"
  /\ connBuckets_ = [i \in 1 .. ExpiredSec |-> {}]
  /\ mainPc = "idle"
  /\ conn = [c \in Conns |-> "new"]
  /\ pc = [c \in Conns |-> "idle"]
  /\ inBuffer = [c \in Conns |-> <<>>]
  /\ part = [c \in Conns |-> FALSE]
  /\ keepAlive = [c \in Conns |-> TRUE]
  /\ closes = [c \in Conns |-> 0]
  /\ message = [c \in Conns |-> <<>>]
  /\ answered = [c \in Conns |-> 0]
  /\ age = [c \in Conns |-> 0]

-----------------------------------------------------------------------------
(* connBuckets_.                                                           *)

InBucket(c) == \E i \in DOMAIN connBuckets_ : c \in connBuckets_[i]
Held(c) == pc[c] \in {"enter", "insert"}

InBuckets == {c \in Conns : pc[c] = "insert"}

\* The status when one more thread comes to connBuckets_.
Entering == IF InBuckets # {} \/ mainPc = "push" THEN "data race" ELSE status

InsertedFirst(b, c) == [b EXCEPT ![1] = @ \cup {c}]     \* slip: front() for back()
Inserted(b, c) == [b EXCEPT ![Len(b)] = @ \cup {c}]

PushedGrowing(b) == Append(b, {})                       \* slip: the buffer is never full
Pushed(b) == Append(Tail(b), {})

\* onTimer: push_back on a full circular buffer ...
OnTimer ==
  /\ status = "up" /\ mainPc = "idle"
  /\ mainPc' = "push"
  /\ status' = Entering
  /\ UNCHANGED <<connBuckets_, conn, pc, bufferVars, age>>

\* ... destroys the first bucket, and shutdown() is called by every ~Entry whose
\* connection is still there.
OnTimerDone ==
  /\ status = "up" /\ mainPc = "push"
  /\ mainPc' = "idle"
  /\ connBuckets_' = Pushed(connBuckets_)
  /\ LET dropped == {c \in Conns : InBucket(c) /\ ~Held(c)
                       /\ \A i \in DOMAIN connBuckets_' : c \notin connBuckets_'[i]}
     IN  conn' = [c \in Conns |->
                    IF c \in dropped /\ conn[c] = "CONNECTED" THEN "DISCONNECTING" ELSE conn[c]]
  /\ age' = [c \in Conns |-> IF age[c] < ExpiredSec THEN age[c] + 1 ELSE age[c]]
  /\ UNCHANGED <<status, pc, bufferVars>>

-----------------------------------------------------------------------------
(* The workers.                                                            *)

\* connectEstablished, and onConnection makes the Entry.
OnConnection(c) ==
  /\ status = "up" /\ conn[c] = "new"
  /\ conn' = [conn EXCEPT ![c] = "CONNECTED"]
  /\ pc' = [pc EXCEPT ![c] = "enter"]
  /\ UNCHANGED <<status, connBuckets_, mainPc, bufferVars, age>>

\* handleRead, and onMessage locks the weak pointer to the Entry.
OnMessage(c) ==
  /\ status = "up" /\ pc[c] = "idle"
  /\ conn[c] \in {"CONNECTED", "DISCONNECTING"} /\ closes[c] = 0
  /\ \E r \in Readable(c) :
       /\ inBuffer' = [inBuffer EXCEPT ![c] = r[1]]
       /\ part' = [part EXCEPT ![c] = r[2]]
       /\ message' = [message EXCEPT ![c] = r[1]]
  /\ pc' = [pc EXCEPT ![c] = IF InBucket(c) THEN "enter" ELSE "parse"]
  /\ UNCHANGED <<status, connBuckets_, mainPc, conn, keepAlive, closes, answered, age>>

Enter(c) ==
  /\ status = "up" /\ pc[c] = "enter"
  /\ status' = Entering
  /\ pc' = [pc EXCEPT ![c] = "insert"]
  /\ UNCHANGED <<connBuckets_, mainPc, conn, bufferVars, age>>

\* onConnection is done then; onMessage goes on.
Insert(c) ==
  /\ status = "up" /\ pc[c] = "insert"
  /\ connBuckets_' = Inserted(connBuckets_, c)
  /\ age' = [age EXCEPT ![c] = 0]
  /\ pc' = [pc EXCEPT ![c] = IF inBuffer[c] # <<>> \/ part[c] THEN "parse" ELSE "idle"]
  /\ UNCHANGED <<status, mainPc, conn, bufferVars>>

HeaderEndLast(ls) == Len(ls)        \* slip: the blank line does not end the headers

\* The lines from the second to the blank one, or all there are: the headers.
HeaderEnd(ls) ==
  CHOOSE e \in 1 .. Len(ls) :
    /\ ls[e] = "blank" \/ e = Len(ls)
    /\ \A i \in 2 .. e - 1 : ls[i] # "blank"

AfterNothing(ls) == ls              \* slip: the request is not retrieved
AfterRequest(ls) == SubSeq(ls, HeaderEnd(ls) + 1, Len(ls))

AsksToClose(ls) == \E i \in 2 .. HeaderEnd(ls) : ls[i] = "close"

\* responseToGet sends the file or a 404 by a connection that is still open; a POST
\* gets nothing.
Answers(c, line) == line = "get" /\ conn[c] = "CONNECTED"

\* No request line: nothing is answered, and keepAlive_ is false.
ParseError(c) ==
  /\ status = "up" /\ pc[c] = "parse"
  /\ inBuffer[c] # <<>> => Head(inBuffer[c]) \notin RequestLines
  /\ inBuffer' = [inBuffer EXCEPT ![c] = IF @ = <<>> THEN @ ELSE Tail(@)]
  /\ keepAlive' = [keepAlive EXCEPT ![c] = FALSE]
  /\ pc' = [pc EXCEPT ![c] = "finish"]
  /\ UNCHANGED <<status, connBuckets_, mainPc, conn, part, closes, message, answered, age>>

\* Request line and headers are taken.  The body loop leaves the next request alone
\* and never gets past any other line: it retrieves until an assert fails.
ParseRequest(c) ==
  LET ls == inBuffer[c]
      rest == AfterRequest(ls)
      stuck == rest # <<>> /\ Head(rest) \notin RequestLines
  IN
  /\ status = "up" /\ pc[c] = "parse"
  /\ ls # <<>> /\ Head(ls) \in RequestLines
  /\ status' = IF stuck THEN "assert(len <= readable_bytes())" ELSE status
  /\ inBuffer' = [inBuffer EXCEPT ![c] = rest]
  /\ keepAlive' = [keepAlive EXCEPT ![c] = ~AsksToClose(ls)]
  /\ answered' = [answered EXCEPT ![c] = @ + IF Answers(c, Head(ls)) /\ ~stuck THEN 1 ELSE 0]
  /\ pc' = [pc EXCEPT ![c] = "finish"]
  /\ UNCHANGED <<connBuckets_, mainPc, conn, part, closes, message, age>>

\* clearState; once the message is read its history is over.
Returns(c, more) ==
  /\ pc' = [pc EXCEPT ![c] = IF more THEN "parse" ELSE "idle"]
  /\ keepAlive' = [keepAlive EXCEPT ![c] = TRUE]
  /\ message' = IF more THEN message ELSE [message EXCEPT ![c] = <<>>]
  /\ answered' = IF more THEN answered ELSE [answered EXCEPT ![c] = 0]

ClosesNow(c) == ~keepAlive[c] /\ conn[c] = "CONNECTED" /\ closes[c] < MaxCloses

\* Slip: the loop is left after the first request.
FinishFirst(c) ==
  /\ status = "up" /\ pc[c] = "finish"
  /\ closes' = [closes EXCEPT ![c] = @ + IF ClosesNow(c) THEN 1 ELSE 0]
  /\ Returns(c, FALSE)
  /\ UNCHANGED <<status, connBuckets_, mainPc, conn, inBuffer, part, age>>

\* forceClose if the request says so, clearState, and once more if anything is left in inBuffer.
Finish(c) ==
  /\ status = "up" /\ pc[c] = "finish"
  /\ closes' = [closes EXCEPT ![c] = @ + IF ClosesNow(c) THEN 1 ELSE 0]
  /\ Returns(c, inBuffer[c] # <<>> \/ part[c])
  /\ UNCHANGED <<status, connBuckets_, mainPc, conn, inBuffer, part, age>>

\* The connection is destroyed: it was closed here, or its peer closed it.  (handleClose
\* refuses one the idle timer has shut down.)
Destroyed(c) ==
  /\ status = "up" /\ pc[c] = "idle"
  /\ conn[c] = "CONNECTED" \/ (conn[c] = "DISCONNECTING" /\ closes[c] > 0)
  /\ conn' = [conn EXCEPT ![c] = "gone"]
  /\ UNCHANGED <<status, connBuckets_, mainPc, pc, bufferVars, age>>

-----------------------------------------------------------------------------
CallbackStep(c) == Enter(c) \/ Insert(c) \/ ParseError(c) \/ ParseRequest(c) \/ Finish(c)

Next ==
  \/ OnTimer \/ OnTimerDone
  \/ \E c \in Conns : OnConnection(c) \/ OnMessage(c) \/ Destroyed(c) \/ CallbackStep(c)

Spec == Init /\ [][Next]_vars

\* A worker in a callback goes on with it.
FairSpec == Spec /\ \A c \in Conns : WF_vars(CallbackStep(c))

-----------------------------------------------------------------------------
(* Properties.                                                             *)

\* Every variable has its type, and onMessage leaves nothing in the buffer: what a
\* connection has sent never waits for the next time it sends.
TypeOK ==
  /\ status \in {"up", "data race", "assert(len <= readable_bytes())"}
  /\ connBuckets_ \in [1 .. ExpiredSec -> SUBSET Conns]
  /\ mainPc \in {"idle", "push"}
  /\ conn \in [Conns -> {"new", "CONNECTED", "DISCONNECTING", "gone"}]
  /\ pc \in [Conns -> {"idle", "enter", "insert", "parse", "finish"}]
  /\ inBuffer \in [Conns -> Seq(Lines)]
  /\ message \in [Conns -> Seq(Lines)]
  /\ part \in [Conns -> BOOLEAN]
  /\ keepAlive \in [Conns -> BOOLEAN]
  /\ closes \in [Conns -> 0 .. MaxCloses]
  /\ answered \in [Conns -> 0 .. MaxLines]
  /\ age \in [Conns -> 0 .. ExpiredSec]
  /\ \A c \in Conns : pc[c] = "idle" => inBuffer[c] = <<>> /\ ~part[c]

\* One or more requests, all of each, and none with a body.
WholeRequests(m, p) ==
  /\ ~p
  /\ m # <<>> /\ m[Len(m)] = "blank"
  /\ \A i \in DOMAIN m : m[i] \in RequestLines <=> (i = 1 \/ m[i - 1] = "blank")

Count(m, line) == Cardinality({i \in DOMAIN m : m[i] = line})

\* Requests that arrive whole are each answered once, pipelined or not, and each that
\* asks for it closes the connection, none that does not: nothing of one request is
\* left over for the next.
WholeRequestsAnswered ==
  [][\A c \in Conns :
       pc[c] = "finish" /\ pc'[c] = "idle" /\ conn'[c] = "CONNECTED"
         /\ WholeRequests(message[c], part[c])
       => /\ answered[c] = Count(message[c], "get")
          /\ closes'[c] = 0 <=> ~\E i \in DOMAIN message[c] : message[c][i] = "close"]_vars

\* A line that is no request line comes behind the headers.
HasBody(m) == \E i \in DOMAIN m \ {1} : m[i - 1] = "blank" /\ m[i] \notin RequestLines

\* onMessage returns from whatever lines there are, requests or not, if none is
\* incomplete, so that the worker goes on to its other connections; its assert ends the
\* process only over a body.
CompleteLinesReturn ==
  \A c \in Conns :
    (pc[c] # "idle" /\ ~part[c])
      ~> (pc[c] = "idle" \/ status = "data race" \/ \E d \in Conns : HasBody(message[d]))

\* No connection stays open when it has been silent for ExpiredSec ticks ...
IdleIsShutDown ==
  status = "up" =>
    \A c \in Conns : conn[c] = "CONNECTED" /\ ~Held(c) => age[c] < ExpiredSec

\* ... and none is shut down before: an Entry that a callback has in its hands, or
\* that a later bucket has too, survives the bucket it was in.
ActiveIsKept ==
  [][\A c \in Conns :
       conn[c] = "CONNECTED" /\ conn'[c] = "DISCONNECTING" => age'[c] = ExpiredSec /\ ~Held(c)]_vars
=============================================================================
