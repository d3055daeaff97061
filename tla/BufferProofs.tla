---------------------------- MODULE BufferProofs ----------------------------
(***************************************************************************)
(* Buffer is a queue of bytes, whatever its sizes: one lemma per operation *)
(* says what it does to the members and to the content, and the theorems   *)
(* combine them.                                                           *)
(***************************************************************************)
EXTENDS Buffer, TLAPS

\* The content is a sequence of bytes.
LEMMA ContentIsSeq ==
  ASSUME NEW b, IsBuffer(b)
  PROVE  /\ Content(b) \in Seq(Byte)
         /\ Len(Content(b)) = readable_bytes(b)
         /\ readable_bytes(b) \in Nat
         /\ \A i \in 1 .. readable_bytes(b) : Content(b)[i] = b.data[b.reader + i - 1]
<1>1. readable_bytes(b) \in Nat
  BY DEF IsBuffer, readable_bytes
<1>2. \A i \in 1 .. readable_bytes(b) : b.data[b.reader + i - 1] \in Byte
  BY DEF IsBuffer, readable_bytes
<1> QED BY <1>1, <1>2 DEF Content

\* Sequences with the same length and elements are equal.
LEMMA SameSeq ==
  ASSUME NEW s \in Seq(Byte), NEW t \in Seq(Byte), Len(s) = Len(t),
         \A i \in 1 .. Len(s) : s[i] = t[i]
  PROVE  s = t
OBVIOUS

\* A chunk is a sequence of bytes.
LEMMA ChunkIsSeq ==
  ASSUME NEW s \in Chunks
  PROVE  s \in Seq(Byte) /\ Len(s) \in 0 .. MaxChunk
BY BufferAssumption DEF Chunks

\* A new buffer is empty.
LEMMA NewIsEmpty == IsBuffer(NewBuffer) /\ Content(NewBuffer) = <<>>
<1>1. IsBuffer(NewBuffer)
  BY BufferAssumption DEF IsBuffer, NewBuffer, Buf
<1>2. readable_bytes(NewBuffer) = 0
  BY BufferAssumption DEF NewBuffer, Buf, readable_bytes
<1> QED BY <1>1, <1>2 DEF Content

\* Growing changes nothing but the size.
LEMMA ResizedKeeps ==
  ASSUME NEW b, IsBuffer(b), NEW n \in Nat, b.size <= n
  PROVE  /\ IsBuffer(Resized(b, n))
         /\ Content(Resized(b, n)) = Content(b)
         /\ Resized(b, n).size = n
         /\ Resized(b, n).write = b.write
         /\ Resized(b, n).reader = b.reader
<1> DEFINE r == Resized(b, n)
<1>1. r.size = n /\ r.write = b.write /\ r.reader = b.reader
  BY DEF Resized, Buf, IsBuffer
<1>2. r.data = [i \in 0 .. n - 1 |-> IF i < b.size THEN b.data[i] ELSE Zero]
  BY DEF Resized, Buf, IsBuffer
<1>3. /\ r = Buf(r.data, r.size, r.reader, r.write)
      /\ r.size \in Nat /\ r.reader \in Nat /\ r.write \in Nat
  BY DEF Resized, Buf, IsBuffer
<1>4. IsBuffer(r)
  <2>1. \A i \in 0 .. n - 1 : (IF i < b.size THEN b.data[i] ELSE Zero) \in Byte
    BY BufferAssumption DEF IsBuffer
  <2>2. r.data \in [0 .. r.size - 1 -> Byte]
    BY <1>1, <1>2, <2>1
  <2> QED BY <1>1, <1>3, <2>2, BufferAssumption DEF IsBuffer
<1>5. \A i \in 1 .. readable_bytes(b) : r.data[r.reader + i - 1] = b.data[b.reader + i - 1]
  BY <1>1, <1>2 DEF IsBuffer, readable_bytes
<1>6. Content(r) = Content(b)
  BY <1>1, <1>5 DEF Content, readable_bytes
<1> QED BY <1>1, <1>4, <1>6

\* Moving the readable bytes to the front changes nothing but the indices.
LEMMA MovedKeeps ==
  ASSUME NEW b, IsBuffer(b), k_cheap_prepend <= b.reader
  PROVE  /\ IsBuffer(Moved(b))
         /\ Content(Moved(b)) = Content(b)
         /\ Moved(b).size = b.size
         /\ Moved(b).write = k_cheap_prepend + readable_bytes(b)
         /\ Moved(b).reader = k_cheap_prepend
<1> DEFINE m == Moved(b)
<1>1. /\ m.size = b.size
      /\ m.write = k_cheap_prepend + readable_bytes(b)
      /\ m.reader = k_cheap_prepend
  BY DEF Moved, Buf
<1>2. m.data = Copied(b.data, k_cheap_prepend, Content(b))
  BY DEF Moved, Buf
<1>c. /\ Content(b) \in Seq(Byte)
      /\ Len(Content(b)) = readable_bytes(b)
      /\ readable_bytes(b) \in Nat
  BY ContentIsSeq
<1>3. /\ m = Buf(m.data, m.size, m.reader, m.write)
      /\ m.size \in Nat /\ m.reader \in Nat /\ m.write \in Nat
  BY <1>1, <1>c, BufferAssumption DEF Moved, Buf, IsBuffer
<1>4. m.data \in [0 .. m.size - 1 -> Byte]
  <2>1. DOMAIN b.data = 0 .. b.size - 1
    BY DEF IsBuffer
  <2>2. ASSUME NEW i \in 0 .. b.size - 1
        PROVE  (IF k_cheap_prepend <= i /\ i < k_cheap_prepend + Len(Content(b))
                THEN Content(b)[i - k_cheap_prepend + 1] ELSE b.data[i]) \in Byte
    <3>1. b.data[i] \in Byte
      BY DEF IsBuffer
    <3>2. CASE k_cheap_prepend <= i /\ i < k_cheap_prepend + Len(Content(b))
      <4>1. i - k_cheap_prepend + 1 \in 1 .. Len(Content(b))
        BY <1>c, <3>2, BufferAssumption
      <4> QED BY <1>c, <3>2, <4>1
    <3> QED BY <3>1, <3>2
  <2> QED BY <1>1, <1>2, <2>1, <2>2 DEF Copied
<1>5. IsBuffer(m)
  BY <1>1, <1>3, <1>4, BufferAssumption DEF IsBuffer, readable_bytes
<1>6. ASSUME NEW i \in 1 .. readable_bytes(b)
      PROVE  m.data[m.reader + i - 1] = b.data[b.reader + i - 1]
  <2>1. k_cheap_prepend + i - 1 \in DOMAIN b.data
    BY BufferAssumption DEF IsBuffer, readable_bytes
  <2>2. m.data[k_cheap_prepend + i - 1] = Content(b)[i]
    BY <1>2, <2>1, ContentIsSeq, BufferAssumption DEF Copied
  <2> QED BY <1>1, <2>2, ContentIsSeq
<1>7. readable_bytes(m) = readable_bytes(b)
  BY <1>1, ContentIsSeq, BufferAssumption DEF readable_bytes
<1>8. Content(m) = Content(b)
  BY <1>6, <1>7 DEF Content
<1> QED BY <1>1, <1>5, <1>8

\* Writing behind the readable bytes, where there is room, appends.
LEMMA WrittenAppends ==
  ASSUME NEW b, IsBuffer(b), NEW s \in Seq(Byte), Len(s) <= writable_bytes(b)
  PROVE  /\ IsBuffer(Written(b, s))
         /\ Content(Written(b, s)) = Content(b) \o s
         /\ Written(b, s).size = b.size
         /\ Written(b, s).write = b.write + Len(s)
         /\ Written(b, s).reader = b.reader
<1> DEFINE w == Written(b, s)
<1>1. w.size = b.size /\ w.write = b.write + Len(s) /\ w.reader = b.reader
  BY DEF Written, Buf
<1>2. w.data = Copied(b.data, b.write, s)
  BY DEF Written, Buf
<1>c. /\ Content(b) \in Seq(Byte)
      /\ Len(Content(b)) = readable_bytes(b)
      /\ readable_bytes(b) \in Nat
      /\ Len(s) \in Nat
  BY ContentIsSeq
<1>3. /\ w = Buf(w.data, w.size, w.reader, w.write)
      /\ w.size \in Nat /\ w.reader \in Nat /\ w.write \in Nat
  BY <1>1, <1>c DEF Written, Buf, IsBuffer
<1>4. w.data \in [0 .. w.size - 1 -> Byte]
  <2>1. DOMAIN b.data = 0 .. b.size - 1
    BY DEF IsBuffer
  <2>2. ASSUME NEW i \in 0 .. b.size - 1
        PROVE  (IF b.write <= i /\ i < b.write + Len(s) THEN s[i - b.write + 1]
                ELSE b.data[i]) \in Byte
    BY DEF IsBuffer
  <2> QED BY <1>1, <1>2, <2>1, <2>2 DEF Copied
<1>5. IsBuffer(w)
  BY <1>1, <1>3, <1>4 DEF IsBuffer, writable_bytes
<1>6. readable_bytes(w) = readable_bytes(b) + Len(s)
  BY <1>1 DEF readable_bytes, IsBuffer
<1>7. ASSUME NEW i \in 1 .. readable_bytes(w)
      PROVE  Content(w)[i] = (Content(b) \o s)[i]
  <2>1. Content(w)[i] = w.data[b.reader + i - 1]
    BY <1>1, <1>5, ContentIsSeq
  <2>2. b.reader + i - 1 \in DOMAIN b.data
    BY <1>6 DEF IsBuffer, readable_bytes, writable_bytes
  <2>3. CASE i <= readable_bytes(b)
    <3>1. w.data[b.reader + i - 1] = b.data[b.reader + i - 1]
      BY <1>2, <2>2, <2>3 DEF Copied, IsBuffer, readable_bytes
    <3>2. (Content(b) \o s)[i] = Content(b)[i]
      BY <2>3, ContentIsSeq
    <3> QED BY <2>1, <2>3, <3>1, <3>2, ContentIsSeq
  <2>4. CASE i > readable_bytes(b)
    <3>1. w.data[b.reader + i - 1] = s[i - readable_bytes(b)]
      BY <1>2, <1>6, <2>2, <2>4 DEF Copied, IsBuffer, readable_bytes
    <3>2. (Content(b) \o s)[i] = s[i - readable_bytes(b)]
      BY <1>6, <2>4, ContentIsSeq
    <3> QED BY <2>1, <3>1, <3>2
  <2> QED BY <1>c, <1>6, <2>3, <2>4
<1>8. Content(w) = Content(b) \o s
  <2>1. Content(w) \in Seq(Byte) /\ Len(Content(w)) = readable_bytes(w)
    BY <1>5, ContentIsSeq
  <2>2. Content(b) \o s \in Seq(Byte) /\ Len(Content(b) \o s) = readable_bytes(b) + Len(s)
    BY <1>c
  <2> QED BY <1>6, <1>7, <2>1, <2>2, SameSeq
<1> QED BY <1>1, <1>5, <1>8

\* After ensure_writable_bytes there is room, and the content is the same; the vector
\* has only grown if it had to.
LEMMA EnsureMakesRoom ==
  ASSUME NEW b, IsBuffer(b), NEW len \in Nat
  PROVE  LET e == ensure_writable_bytes(b, len) IN
         /\ IsBuffer(e)
         /\ Content(e) = Content(b)
         /\ len <= writable_bytes(e)
         /\ e.size # b.size => writable_bytes(b) < len /\ MustGrow(b, len)
<1>1. CASE writable_bytes(b) >= len
  <2>1. ensure_writable_bytes(b, len) = b
    BY <1>1 DEF ensure_writable_bytes, IsBuffer, writable_bytes
  <2> QED BY <1>1, <2>1 DEF IsBuffer, writable_bytes
<1>2. CASE writable_bytes(b) < len /\ MustGrow(b, len)
  <2>1. ensure_writable_bytes(b, len) = Resized(b, b.write + len)
    BY <1>2 DEF ensure_writable_bytes, make_space
  <2>2. b.write + len \in Nat /\ b.size <= b.write + len
    BY <1>2 DEF IsBuffer, writable_bytes
  <2>3. /\ IsBuffer(Resized(b, b.write + len))
        /\ Content(Resized(b, b.write + len)) = Content(b)
        /\ Resized(b, b.write + len).size = b.write + len
        /\ Resized(b, b.write + len).write = b.write
    BY <2>2, ResizedKeeps
  <2>4. len <= writable_bytes(Resized(b, b.write + len))
    BY <2>3 DEF IsBuffer, writable_bytes
  <2> QED BY <1>2, <2>1, <2>3, <2>4
<1>3. CASE writable_bytes(b) < len /\ ~MustGrow(b, len)
  <2>1. ensure_writable_bytes(b, len) = Moved(b)
    BY <1>3 DEF ensure_writable_bytes, make_space
  <2>2. k_cheap_prepend <= b.reader
    BY <1>3, BufferAssumption
       DEF IsBuffer, MustGrow, writable_bytes, prependable_bytes
  <2>3. /\ IsBuffer(Moved(b))
        /\ Content(Moved(b)) = Content(b)
        /\ Moved(b).size = b.size
        /\ Moved(b).write = k_cheap_prepend + readable_bytes(b)
    BY <2>2, MovedKeeps
  <2>4. len <= writable_bytes(Moved(b))
    BY <1>3, <2>3, BufferAssumption
       DEF IsBuffer, MustGrow, writable_bytes, prependable_bytes, readable_bytes
  <2> QED BY <2>1, <2>3, <2>4
<1> QED BY <1>1, <1>2, <1>3 DEF IsBuffer, writable_bytes

\* append puts a chunk at the end.
LEMMA AppendAppends ==
  ASSUME NEW b, IsBuffer(b), NEW s \in Seq(Byte)
  PROVE  /\ IsBuffer(append(b, s))
         /\ Content(append(b, s)) = Content(b) \o s
         /\ append(b, s).size # b.size
              => b.size < k_cheap_prepend + readable_bytes(append(b, s))
<1> DEFINE e == ensure_writable_bytes(b, Len(s))
<1>1. Len(s) \in Nat
  OBVIOUS
<1>2. /\ IsBuffer(e)
      /\ Content(e) = Content(b)
      /\ Len(s) <= writable_bytes(e)
      /\ e.size # b.size => writable_bytes(b) < Len(s) /\ MustGrow(b, Len(s))
  BY <1>1, EnsureMakesRoom
<1>3. append(b, s) = Written(e, s)
  BY DEF append
<1> HIDE DEF e
<1>4. /\ IsBuffer(Written(e, s))
      /\ Content(Written(e, s)) = Content(e) \o s
      /\ Written(e, s).size = e.size
  BY <1>2, WrittenAppends
<1>5. readable_bytes(append(b, s)) = readable_bytes(b) + Len(s)
  <2>1. Content(b) \in Seq(Byte) /\ Len(Content(b)) = readable_bytes(b)
    BY ContentIsSeq
  <2>2. Len(Content(append(b, s))) = readable_bytes(append(b, s))
    BY <1>3, <1>4, ContentIsSeq
  <2>3. Len(Content(b) \o s) = Len(Content(b)) + Len(s)
    BY <2>1
  <2>4. Content(append(b, s)) = Content(b) \o s
    BY <1>2, <1>3, <1>4
  <2> QED BY <2>1, <2>2, <2>3, <2>4
<1>6. ASSUME append(b, s).size # b.size
      PROVE  b.size < k_cheap_prepend + readable_bytes(append(b, s))
  <2>1. MustGrow(b, Len(s))
    BY <1>2, <1>3, <1>4, <1>6
  <2>2. b.size < k_cheap_prepend + (readable_bytes(b) + Len(s))
    BY <1>1, <2>1, BufferAssumption
       DEF IsBuffer, MustGrow, writable_bytes, prependable_bytes, readable_bytes
  <2> QED BY <1>5, <2>2
<1> QED BY <1>2, <1>3, <1>4, <1>6

\* read_fd puts a chunk at the end, if need be in two pieces.
LEMMA ReadFdAppends ==
  ASSUME NEW b, IsBuffer(b), NEW s \in Seq(Byte)
  PROVE  /\ IsBuffer(read_fd(b, s))
         /\ Content(read_fd(b, s)) = Content(b) \o s
         /\ read_fd(b, s).size # b.size
              => b.size < k_cheap_prepend + readable_bytes(read_fd(b, s))
<1> DEFINE w == writable_bytes(b)
<1>1. w \in Nat /\ Len(s) \in Nat
  BY DEF IsBuffer, writable_bytes
<1>2. CASE Len(s) <= w
  BY <1>2, WrittenAppends DEF read_fd
<1>3. CASE Len(s) > w
  <2> DEFINE p == SubSeq(s, 1, w)
             q == SubSeq(s, w + 1, Len(s))
             f == Written(b, p)
  <2>1. p \in Seq(Byte) /\ Len(p) = w /\ q \in Seq(Byte)
    BY <1>1, <1>3
  <2>2. p \o q = s
    <3>1. p \o q \in Seq(Byte) /\ Len(p \o q) = Len(s)
      BY <1>1, <1>3, <2>1
    <3>2. \A i \in 1 .. Len(s) : (p \o q)[i] = s[i]
      BY <1>1, <1>3, <2>1
    <3> QED BY <3>1, <3>2, SameSeq
  <2>3. IsBuffer(f) /\ Content(f) = Content(b) \o p /\ f.size = b.size
    <3>1. Len(p) <= writable_bytes(b)
      BY <1>1, <2>1
    <3> HIDE DEF p
    <3> QED BY <2>1, <3>1, WrittenAppends
  <2>4. read_fd(b, s) = append(f, q)
    BY <1>1, <1>3 DEF read_fd
  <2> HIDE DEF p, q, f
  <2>5. /\ IsBuffer(append(f, q))
        /\ Content(append(f, q)) = Content(f) \o q
        /\ append(f, q).size # f.size
             => f.size < k_cheap_prepend + readable_bytes(append(f, q))
    BY <2>1, <2>3, AppendAppends
  <2>6. (Content(b) \o p) \o q = Content(b) \o (p \o q)
    <3>1. Content(b) \in Seq(Byte)
      BY ContentIsSeq
    <3> QED BY <2>1, <3>1
  <2> QED BY <2>2, <2>3, <2>4, <2>5, <2>6
<1> QED BY <1>1, <1>2, <1>3

\* retrieve drops bytes from the front.
LEMMA RetrieveTakes ==
  ASSUME NEW b, IsBuffer(b), NEW n \in 0 .. readable_bytes(b)
  PROVE  /\ IsBuffer(retrieve(b, n))
         /\ Content(retrieve(b, n)) = SubSeq(Content(b), n + 1, Len(Content(b)))
<1> DEFINE r == retrieve(b, n)
<1>c. /\ Content(b) \in Seq(Byte)
      /\ Len(Content(b)) = readable_bytes(b)
      /\ readable_bytes(b) \in Nat
  BY ContentIsSeq
<1>1. /\ r = Buf(b.data, b.size, b.reader + n, b.write)
      /\ r.data = b.data /\ r.size = b.size /\ r.reader = b.reader + n /\ r.write = b.write
  BY DEF retrieve, Buf
<1>2. IsBuffer(r)
  BY <1>1 DEF IsBuffer, readable_bytes
<1>3. readable_bytes(r) = readable_bytes(b) - n
  BY <1>1 DEF readable_bytes, IsBuffer
<1> DEFINE t == SubSeq(Content(b), n + 1, Len(Content(b)))
<1>4. t \in Seq(Byte) /\ Len(t) = readable_bytes(b) - n
  BY <1>c
<1>5. ASSUME NEW i \in 1 .. readable_bytes(r)
      PROVE  Content(r)[i] = t[i]
  <2>1. Content(r)[i] = b.data[b.reader + n + i - 1]
    BY <1>1, <1>2, ContentIsSeq
  <2>2. t[i] = Content(b)[n + i]
    BY <1>c, <1>3, <1>4
  <2>3. Content(b)[n + i] = b.data[b.reader + (n + i) - 1]
    BY <1>c, <1>3, ContentIsSeq
  <2>4. b.reader + n + i - 1 = b.reader + (n + i) - 1
    BY <1>c, <1>3 DEF IsBuffer
  <2> QED BY <2>1, <2>2, <2>3, <2>4
<1> HIDE DEF t
<1>6. Content(r) \in Seq(Byte) /\ Len(Content(r)) = readable_bytes(r)
  BY <1>2, ContentIsSeq
<1>7. Content(r) = t
  BY <1>3, <1>4, <1>5, <1>6, SameSeq
<1> QED BY <1>2, <1>7 DEF t

\* retrieve_all drops them all.
LEMMA RetrieveAllTakes ==
  ASSUME NEW b, IsBuffer(b)
  PROVE  /\ IsBuffer(retrieve_all(b))
         /\ Content(retrieve_all(b)) = SubSeq(Content(b), Len(Content(b)) + 1, Len(Content(b)))
<1>1. IsBuffer(retrieve_all(b))
  BY BufferAssumption DEF retrieve_all, Buf, IsBuffer
<1>2. readable_bytes(retrieve_all(b)) = 0
  BY BufferAssumption DEF retrieve_all, Buf, readable_bytes
<1>3. Content(b) \in Seq(Byte) /\ Len(Content(b)) \in Nat
  BY ContentIsSeq
<1>4. Content(retrieve_all(b)) = <<>>
  BY <1>2 DEF Content
<1>5. SubSeq(Content(b), Len(Content(b)) + 1, Len(Content(b))) = <<>>
  BY <1>3
<1> QED BY <1>1, <1>4, <1>5

\* prepend puts a chunk in front.
LEMMA PrependPrepends ==
  ASSUME NEW b, IsBuffer(b), NEW s \in Seq(Byte), Len(s) <= prependable_bytes(b)
  PROVE  /\ IsBuffer(prepend(b, s))
         /\ Content(prepend(b, s)) = s \o Content(b)
         /\ prepend(b, s).size = b.size
<1> DEFINE r == prepend(b, s)
<1>c. /\ Content(b) \in Seq(Byte)
      /\ Len(Content(b)) = readable_bytes(b)
      /\ readable_bytes(b) \in Nat
      /\ Len(s) \in Nat
  BY ContentIsSeq
<1>1. /\ r = Buf(r.data, r.size, r.reader, r.write)
      /\ r.data = Copied(b.data, b.reader - Len(s), s)
      /\ r.size = b.size /\ r.reader = b.reader - Len(s) /\ r.write = b.write
  BY DEF prepend, Buf
<1>2. r.data \in [0 .. b.size - 1 -> Byte]
  <2>1. DOMAIN b.data = 0 .. b.size - 1
    BY DEF IsBuffer
  <2>2. ASSUME NEW i \in 0 .. b.size - 1
        PROVE  (IF b.reader - Len(s) <= i /\ i < b.reader - Len(s) + Len(s)
                THEN s[i - (b.reader - Len(s)) + 1] ELSE b.data[i]) \in Byte
    BY <1>c DEF IsBuffer, prependable_bytes
  <2> QED BY <1>1, <2>1, <2>2 DEF Copied
<1>3. IsBuffer(r)
  BY <1>1, <1>2, <1>c DEF IsBuffer, prependable_bytes
<1>4. readable_bytes(r) = Len(s) + readable_bytes(b)
  BY <1>1, <1>c DEF readable_bytes, IsBuffer
<1>5. ASSUME NEW i \in 1 .. readable_bytes(r)
      PROVE  Content(r)[i] = (s \o Content(b))[i]
  <2>1. Content(r)[i] = r.data[b.reader - Len(s) + i - 1]
    BY <1>1, <1>3, ContentIsSeq
  <2>2. b.reader - Len(s) + i - 1 \in DOMAIN b.data
    BY <1>4, <1>c DEF IsBuffer, readable_bytes, prependable_bytes
  <2>3. CASE i <= Len(s)
    <3>1. r.data[b.reader - Len(s) + i - 1] = s[i]
      BY <1>1, <1>c, <2>2, <2>3 DEF Copied, IsBuffer, prependable_bytes
    <3>2. (s \o Content(b))[i] = s[i]
      BY <1>c, <2>3
    <3> QED BY <2>1, <3>1, <3>2
  <2>4. CASE i > Len(s)
    <3>1. r.data[b.reader - Len(s) + i - 1] = b.data[b.reader - Len(s) + i - 1]
      BY <1>1, <1>c, <2>2, <2>4 DEF Copied, IsBuffer, prependable_bytes
    <3>2. (s \o Content(b))[i] = Content(b)[i - Len(s)]
      BY <1>c, <1>4, <2>4
    <3>3. Content(b)[i - Len(s)] = b.data[b.reader + (i - Len(s)) - 1]
      <4>1. i - Len(s) \in 1 .. readable_bytes(b)
        BY <1>c, <1>4, <2>4
      <4> QED BY <4>1, ContentIsSeq
    <3>4. b.reader + (i - Len(s)) - 1 = b.reader - Len(s) + i - 1
      BY <1>c, <1>4 DEF IsBuffer
    <3> QED BY <2>1, <3>1, <3>2, <3>3, <3>4
  <2> QED BY <1>c, <1>4, <2>3, <2>4
<1>6. Content(r) = s \o Content(b)
  <2>1. Content(r) \in Seq(Byte) /\ Len(Content(r)) = readable_bytes(r)
    BY <1>3, ContentIsSeq
  <2>2. s \o Content(b) \in Seq(Byte) /\ Len(s \o Content(b)) = Len(s) + readable_bytes(b)
    BY <1>c
  <2> QED BY <1>4, <1>5, <2>1, <2>2, SameSeq
<1> QED BY <1>1, <1>3, <1>6

-----------------------------------------------------------------------------
\* The indices stay inside the vector, in order, for every size and every chunk:
\* each operation of Buffer.hpp and read_fd keeps them so.
THEOREM TypeInvariant == Spec => []TypeOK
<1>1. Init => TypeOK
  BY NewIsEmpty DEF Init, TypeOK
<1>2. TypeOK /\ [Next]_vars => TypeOK'
  <2> SUFFICES ASSUME TypeOK, [Next]_vars PROVE TypeOK'
    OBVIOUS
  <2>0. IsBuffer(buffer)
    BY DEF TypeOK
  <2>1. ASSUME NEW s \in Chunks, AppendBytes(s) PROVE IsBuffer(buffer')
    BY <2>0, <2>1, ChunkIsSeq, AppendAppends DEF AppendBytes
  <2>2. ASSUME NEW s \in Chunks, ReadFd(s) PROVE IsBuffer(buffer')
    BY <2>0, <2>2, ChunkIsSeq, ReadFdAppends DEF ReadFd
  <2>3. ASSUME NEW s \in Chunks, Prepend(s) PROVE IsBuffer(buffer')
    BY <2>0, <2>3, ChunkIsSeq, PrependPrepends DEF Prepend
  <2>4. ASSUME NEW n \in 0 .. MaxReadable, Retrieve(n) PROVE IsBuffer(buffer')
    <3>1. n \in 0 .. readable_bytes(buffer)
      BY <2>0, <2>4, ContentIsSeq, BufferAssumption DEF Retrieve
    <3> QED BY <2>0, <2>4, <3>1, RetrieveTakes DEF Retrieve
  <2>5. CASE RetrieveAll
    BY <2>0, <2>5, RetrieveAllTakes DEF RetrieveAll, TypeOK
  <2>6. CASE UNCHANGED vars
    BY <2>0, <2>6 DEF TypeOK, vars
  <2> QED BY <2>1, <2>2, <2>3, <2>4, <2>5, <2>6 DEF Next, TypeOK
<1> QED BY <1>1, <1>2, PTL DEF Spec

\* The asserts of ensure_writable_bytes and make_space hold.
THEOREM Space == Spec => []SpaceIsMade
<1>1. TypeOK => SpaceIsMade
  <2> SUFFICES ASSUME IsBuffer(buffer), NEW len \in 0 .. MaxChunk
               PROVE  /\ writable_bytes(ensure_writable_bytes(buffer, len)) >= len
                      /\ writable_bytes(buffer) < len /\ ~MustGrow(buffer, len)
                           => k_cheap_prepend < buffer.reader
    BY DEF TypeOK, SpaceIsMade
  <2>1. len \in Nat
    BY BufferAssumption
  <2>2. /\ IsBuffer(ensure_writable_bytes(buffer, len))
        /\ len <= writable_bytes(ensure_writable_bytes(buffer, len))
    BY <2>1, EnsureMakesRoom
  <2>3. writable_bytes(ensure_writable_bytes(buffer, len)) >= len
    BY <2>1, <2>2 DEF IsBuffer, writable_bytes
  <2>4. writable_bytes(buffer) < len /\ ~MustGrow(buffer, len) => k_cheap_prepend < buffer.reader
    BY <2>1, BufferAssumption
       DEF IsBuffer, MustGrow, writable_bytes, prependable_bytes
  <2> QED BY <2>3, <2>4
<1> QED BY <1>1, TypeInvariant, PTL

\* The vector grows only when its bytes would not fit in it.
THEOREM Growth == Spec => GrowsOnlyWhenFull
<1>1. TypeOK /\ [Next]_vars =>
        [buffer'.size # buffer.size
           => buffer.size < k_cheap_prepend + readable_bytes(buffer')]_vars
  <2> SUFFICES ASSUME TypeOK, Next, buffer'.size # buffer.size
               PROVE  buffer.size < k_cheap_prepend + readable_bytes(buffer')
    OBVIOUS
  <2>0. IsBuffer(buffer)
    BY DEF TypeOK
  <2>1. ASSUME NEW s \in Chunks, AppendBytes(s)
        PROVE  buffer.size < k_cheap_prepend + readable_bytes(buffer')
    BY <2>0, <2>1, ChunkIsSeq, AppendAppends DEF AppendBytes
  <2>2. ASSUME NEW s \in Chunks, ReadFd(s)
        PROVE  buffer.size < k_cheap_prepend + readable_bytes(buffer')
    BY <2>0, <2>2, ChunkIsSeq, ReadFdAppends DEF ReadFd
  <2>3. ASSUME NEW s \in Chunks, Prepend(s) PROVE FALSE
    BY <2>0, <2>3, ChunkIsSeq, PrependPrepends DEF Prepend
  <2>4. ASSUME NEW n \in 0 .. MaxReadable, Retrieve(n) PROVE FALSE
    BY <2>4 DEF Retrieve, retrieve, Buf
  <2>5. CASE RetrieveAll
    BY <2>5 DEF RetrieveAll, retrieve_all, Buf
  <2> QED BY <2>1, <2>2, <2>3, <2>4, <2>5 DEF Next
<1> QED BY <1>1, TypeInvariant, PTL DEF Spec, GrowsOnlyWhenFull

\* A Buffer is a queue of bytes: nothing is lost, changed or reordered by moving and
\* growing, for every initial size, reserve and chunk.
THEOREM Refinement == Spec => RefinesByteQueue
<1>1. Init => ByteQueue!Init
  BY NewIsEmpty DEF Init, ByteQueue!Init
<1>2. TypeOK /\ [Next]_vars => [ByteQueue!Next]_<<call, Content(buffer)>>
  <2> SUFFICES ASSUME TypeOK, [Next]_vars
               PROVE  ByteQueue!Next \/ UNCHANGED <<call, Content(buffer)>>
    OBVIOUS
  <2>0. IsBuffer(buffer)
    BY DEF TypeOK
  <2>1. ASSUME NEW s \in Chunks, AppendBytes(s) PROVE ByteQueue!Put(s)
    BY <2>0, <2>1, ChunkIsSeq, AppendAppends DEF AppendBytes, ByteQueue!Put
  <2>2. ASSUME NEW s \in Chunks, ReadFd(s) PROVE ByteQueue!Put(s)
    BY <2>0, <2>2, ChunkIsSeq, ReadFdAppends DEF ReadFd, ByteQueue!Put
  <2>3. ASSUME NEW s \in Chunks, Prepend(s) PROVE ByteQueue!PutInFront(s)
    BY <2>0, <2>3, ChunkIsSeq, PrependPrepends DEF Prepend, ByteQueue!PutInFront
  <2>4. ASSUME NEW n \in 0 .. MaxReadable, Retrieve(n)
        PROVE  n \in 0 .. Len(Content(buffer)) /\ ByteQueue!Take(n)
    <3>1. n \in 0 .. readable_bytes(buffer) /\ Len(Content(buffer)) = readable_bytes(buffer)
      BY <2>0, <2>4, ContentIsSeq, BufferAssumption DEF Retrieve
    <3> QED BY <2>0, <2>4, <3>1, RetrieveTakes DEF Retrieve, ByteQueue!Take
  <2>5. CASE RetrieveAll
    <3>1. Len(Content(buffer)) \in 0 .. Len(Content(buffer))
      BY <2>0, ContentIsSeq
    <3>2. ByteQueue!Take(Len(Content(buffer)))
      BY <2>0, <2>5, ContentIsSeq, RetrieveAllTakes DEF RetrieveAll, ByteQueue!Take
    <3> QED BY <3>1, <3>2 DEF ByteQueue!Next
  <2>6. CASE UNCHANGED vars
    BY <2>6 DEF vars
  <2> QED BY <2>1, <2>2, <2>3, <2>4, <2>5, <2>6 DEF Next, ByteQueue!Next
<1> QED BY <1>1, <1>2, TypeInvariant, PTL DEF Spec, RefinesByteQueue, ByteQueue!Spec
=============================================================================
