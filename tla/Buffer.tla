------------------------------- MODULE Buffer -------------------------------
(***************************************************************************)
(* A Buffer (src/src/network/Buffer.hpp, Buffer.cpp): a vector and two     *)
(* indices into it.  The readable bytes lie between the indices; those     *)
(* before reader_idx_ have been read, and when the room behind write_idx_  *)
(* is too small make_space moves the readable bytes over them, or lets the *)
(* vector grow.                                                            *)
(*                                                                         *)
(* The operations are operators on a record [data, size, reader, write];   *)
(* data is a function on 0 .. size - 1.  The state machine is one Buffer   *)
(* on which its owner calls them in any order, as TcpConnection and its    *)
(* callbacks do, never asking for more bytes than are readable.            *)
(***************************************************************************)
EXTENDS Naturals, Sequences

CONSTANTS
  k_cheap_prepend,
  k_init_size,
  ExtraBuf,      \* bytes read_fd can take beyond the writable ones: sizeof(extrabuf)
  Byte,
  Zero,          \* what resize() fills with
  MaxChunk,      \* bound: bytes put in by one call
  MaxReadable    \* bound: the readable bytes

ASSUME BufferAssumption ==
  /\ k_cheap_prepend \in Nat /\ k_init_size \in Nat /\ ExtraBuf \in Nat
  /\ Zero \in Byte
  /\ MaxChunk \in Nat /\ MaxReadable \in Nat

Chunks == UNION {[1 .. n -> Byte] : n \in 0 .. MaxChunk}

Buf(data, size, reader, write) ==
  [data |-> data, size |-> size, reader |-> reader, write |-> write]

\* What the members of a Buffer may be.
IsBuffer(b) ==
  /\ b = Buf(b.data, b.size, b.reader, b.write)
  /\ b.size \in Nat /\ b.reader \in Nat /\ b.write \in Nat
  /\ b.data \in [0 .. b.size - 1 -> Byte]
  /\ b.reader <= b.write
  /\ b.write <= b.size
  /\ k_cheap_prepend <= b.size

-----------------------------------------------------------------------------
(* The operations.                                                         *)

NewBuffer ==
  Buf([i \in 0 .. k_init_size + k_cheap_prepend - 1 |-> Zero],
      k_init_size + k_cheap_prepend, k_cheap_prepend, k_cheap_prepend)

readable_bytes(b) == b.write - b.reader
writable_bytes(b) == b.size - b.write
prependable_bytes(b) == b.reader

\* What the owner sees at peek().
Content(b) == [i \in 1 .. readable_bytes(b) |-> b.data[b.reader + i - 1]]

\* std::copy of s to position p on.
Copied(data, p, s) ==
  [i \in DOMAIN data |-> IF p <= i /\ i < p + Len(s) THEN s[i - p + 1] ELSE data[i]]

\* buffer_.resize(n)
Resized(b, n) ==
  Buf([i \in 0 .. n - 1 |-> IF i < b.size THEN b.data[i] ELSE Zero], n, b.reader, b.write)

\* Slip: reader_idx_ is forgotten.
MovedHalf(b) ==
  Buf(Copied(b.data, k_cheap_prepend, Content(b)), b.size,
      b.reader, k_cheap_prepend + readable_bytes(b))

\* The readable bytes go to the front, behind the prependable ones.
Moved(b) ==
  Buf(Copied(b.data, k_cheap_prepend, Content(b)), b.size,
      k_cheap_prepend, k_cheap_prepend + readable_bytes(b))

MustGrow(b, len) == writable_bytes(b) + prependable_bytes(b) < len + k_cheap_prepend

GrowsAlways(b, len) == Resized(b, b.write + len)    \* slip: nothing is moved
GrowsShort(b, len) ==                               \* slip: one byte too few
  IF MustGrow(b, len) THEN Resized(b, b.write + len - 1) ELSE Moved(b)

make_space(b, len) == IF MustGrow(b, len) THEN Resized(b, b.write + len) ELSE Moved(b)

ensure_writable_bytes(b, len) == IF writable_bytes(b) < len THEN make_space(b, len) ELSE b

\* A copy to begin_write() and has_written.
Written(b, s) == Buf(Copied(b.data, b.write, s), b.size, b.reader, b.write + Len(s))

append(b, s) == Written(ensure_writable_bytes(b, Len(s)), s)

\* Slip: the wrong part of extrabuf is appended.
read_fd_misplaced(b, s) ==
  LET w == writable_bytes(b)
  IN  IF Len(s) <= w THEN Written(b, s)
      ELSE append(Written(b, SubSeq(s, 1, w)), SubSeq(s, 1, Len(s) - w))

\* readv fills the writable bytes, then extrabuf; what is in extrabuf is appended.
read_fd(b, s) ==
  LET w == writable_bytes(b)
  IN  IF Len(s) <= w THEN Written(b, s)
      ELSE append(Written(b, SubSeq(s, 1, w)), SubSeq(s, w + 1, Len(s)))

retrieve(b, n) == Buf(b.data, b.size, b.reader + n, b.write)

retrieve_all(b) == Buf(b.data, b.size, k_cheap_prepend, k_cheap_prepend)

prepend(b, s) ==
  Buf(Copied(b.data, b.reader - Len(s), s), b.size, b.reader - Len(s), b.write)

-----------------------------------------------------------------------------
(* One buffer.                                                             *)

VARIABLES
  buffer,
  call       \* the last call and its argument, for ByteQueue to compare

vars == <<buffer, call>>

Init ==
  /\ buffer = NewBuffer
  /\ call = <<"take", 0>>

HasRoom(s) == readable_bytes(buffer) + Len(s) <= MaxReadable

AppendBytes(s) ==
  /\ HasRoom(s)
  /\ buffer' = append(buffer, s)
  /\ call' = <<"put", s>>

ReadFd(s) ==
  /\ HasRoom(s)
  /\ Len(s) <= writable_bytes(buffer) + ExtraBuf
  /\ buffer' = read_fd(buffer, s)
  /\ call' = <<"put", s>>

Retrieve(n) ==
  /\ n <= readable_bytes(buffer)
  /\ buffer' = retrieve(buffer, n)
  /\ call' = <<"take", n>>

RetrieveAll ==
  /\ buffer' = retrieve_all(buffer)
  /\ call' = <<"take", readable_bytes(buffer)>>

Prepend(s) ==
  /\ HasRoom(s)
  /\ Len(s) <= prependable_bytes(buffer)
  /\ buffer' = prepend(buffer, s)
  /\ call' = <<"prepend", s>>

Next ==
  \/ \E s \in Chunks : AppendBytes(s) \/ ReadFd(s) \/ Prepend(s)
  \/ \E n \in 0 .. MaxReadable : Retrieve(n)
  \/ RetrieveAll

Spec == Init /\ [][Next]_vars

-----------------------------------------------------------------------------
(* Properties.                                                             *)

\* The vector has its size and the indices are inside it, in order: the asserts of
\* retrieve and prepend then keep every access inside the vector.
TypeOK == IsBuffer(buffer)

\* The asserts of ensure_writable_bytes and make_space: whatever length is asked for
\* there is room for it afterwards, and the readable bytes are only ever moved
\* towards the front.
SpaceIsMade ==
  \A len \in 0 .. MaxChunk :
    /\ writable_bytes(ensure_writable_bytes(buffer, len)) >= len
    /\ writable_bytes(buffer) < len /\ ~MustGrow(buffer, len)
         => k_cheap_prepend < buffer.reader

\* The vector only grows when its bytes would not fit behind the prependable ones:
\* reading and writing a bounded amount at a time never makes it grow for good.
GrowsOnlyWhenFull ==
  [][buffer'.size # buffer.size => buffer.size < k_cheap_prepend + readable_bytes(buffer')]_vars

\* The bytes come out as they went in, through every move and growth of the vector.
ByteQueue == INSTANCE ByteQueue WITH content <- Content(buffer)

RefinesByteQueue == ByteQueue!Spec
=============================================================================
