----------------------------- MODULE Connection ------------------------------
(***************************************************************************)
(* What a TcpServer promises the program on top about one connection: the  *)
(* callbacks it gets, in which order, and for how long the object behind   *)
(* the TcpConnectionPtr it is given lives.                                 *)
(***************************************************************************)
EXTENDS Sequences

VARIABLES
  ended,    \* the process has been ended by one of its own checks
  held,     \* the server has the connection
  said,     \* what connected() said at each of its connection callbacks so far
  running   \* the callback that runs now: "connection", "message", "write" or "none"

vars == <<ended, held, said, running>>

Init == ~ended /\ ~held /\ said = <<>> /\ running = "none"

Accept ==
  /\ ~held /\ said = <<>>
  /\ held' = TRUE
  /\ UNCHANGED <<ended, said, running>>

Up ==
  /\ held /\ said = <<>>
  /\ said' = <<"up">>
  /\ running' = "connection"
  /\ UNCHANGED <<ended, held>>

Message ==
  /\ held /\ said = <<"up">> /\ running = "none"
  /\ running' = "message"
  /\ UNCHANGED <<ended, held, said>>

\* Also when the connection is down, if a callback went on sending after forceClose.
WriteComplete ==
  /\ held /\ said # <<>> /\ running = "none"
  /\ running' = "write"
  /\ UNCHANGED <<ended, held, said>>

Return ==
  /\ running # "none"
  /\ running' = "none"
  /\ UNCHANGED <<ended, held, said>>

\* Here nothing the callback calls has an effect: it is as if it returned at once.
Down ==
  /\ held /\ said = <<"up">> /\ running = "none"
  /\ said' = <<"up", "down">>
  /\ UNCHANGED <<ended, held, running>>

Release ==
  /\ held /\ said = <<"up", "down">> /\ running = "none"
  /\ held' = FALSE
  /\ UNCHANGED <<ended, said, running>>

End == ended'

Next == ~ended /\ (Accept \/ Up \/ Message \/ WriteComplete \/ Return \/ Down \/ Release \/ End)

Spec == Init /\ [][Next]_vars
=============================================================================
