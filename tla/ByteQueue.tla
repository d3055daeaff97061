------------------------------ MODULE ByteQueue ------------------------------
(***************************************************************************)
(* What a Buffer promises a TcpConnection and the callbacks it is handed   *)
(* to: the bytes that went in, at the end (or, by prepend, in front) come  *)
(* out at the front, none lost, changed or invented.  Buffer implements it *)
(* (Buffer!RefinesByteQueue).                                              *)
(***************************************************************************)
EXTENDS Naturals, Sequences

CONSTANT Chunks     \* the sequences of bytes that are put in

VARIABLES
  call,      \* the last call: what was put in, or how much was taken
  content    \* the readable bytes, next to be read first

Init ==
  /\ call = <<"take", 0>>
  /\ content = <<>>

Put(s) ==
  /\ call' = <<"put", s>>
  /\ content' = content \o s

PutInFront(s) ==
  /\ call' = <<"prepend", s>>
  /\ content' = s \o content

Take(n) ==
  /\ call' = <<"take", n>>
  /\ content' = SubSeq(content, n + 1, Len(content))

Next ==
  \/ \E s \in Chunks : Put(s) \/ PutInFront(s)
  \/ \E n \in 0 .. Len(content) : Take(n)

Spec == Init /\ [][Next]_<<call, content>>
=============================================================================
