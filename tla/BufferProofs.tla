---------------------------- MODULE BufferProofs ----------------------------
(***************************************************************************)
(* Proofs about Buffer, for every initial size, every size of extrabuf and *)
(* every number of bytes: the indices stay in order, the calls that        *)
(* overrun the vector are exactly those for which makeSpace moves the      *)
(* bytes although that frees too little room, and until such a call the    *)
(* buffer is a queue of bytes.                                             *)
(***************************************************************************)
EXTENDS Buffer, SequenceTheorems, TLAPS

Places == [data : Seq(Nat), reader : Nat, writer : Nat]

Good(p) == p \in Places /\ p.reader <= p.writer /\ p.writer <= Len(p.data)

(* What ensureWriteBytes asserts at its end. *)
Fits(p, len) == Len(p.data) - p.writer >= len

(* Where makeSpace goes wrong: the bytes readable and writable are at      *)
(* least len, but what is free once the data is moved is less.             *)
Short(reader, writable, readable, len) == reader + writable < len /\ len <= writable + readable

ContentOf(p) == SubSeq(p.data, p.reader + 1, p.writer)

(* What lies between the two indices. *)
LEMMA Window ==
    ASSUME NEW p, Good(p)
    PROVE  /\ ContentOf(p) \in Seq(Nat) /\ Len(ContentOf(p)) = p.writer - p.reader
           /\ p.writer - p.reader \in Nat
           /\ \A i \in 1..(p.writer - p.reader) : ContentOf(p)[i] = p.data[p.reader + i]
<1> DEFINE r == p.reader w == p.writer d == p.data
<1>1. d \in Seq(Nat) /\ r \in Nat /\ w \in Nat /\ r <= w /\ w <= Len(d) /\ Len(d) \in Nat
  BY LenProperties DEF Good, Places
<1> HIDE DEF r, w, d
<1>2. \A i \in (r + 1)..w : i \in 1..Len(d)
  BY <1>1
<1>3. \A i \in (r + 1)..w : d[i] \in Nat
  BY <1>1, <1>2, ElementOfSeq
<1>4. /\ SubSeq(d, r + 1, w) \in Seq(Nat)
      /\ Len(SubSeq(d, r + 1, w)) = IF r + 1 <= w THEN w - (r + 1) + 1 ELSE 0
      /\ \A i \in 1..(w - (r + 1) + 1) : SubSeq(d, r + 1, w)[i] = d[(r + 1) + i - 1]
  <2>1. r + 1 \in Int /\ w \in Int
    BY <1>1
  <2> QED  BY <1>3, <2>1, SubSeqProperties
<1>5. w - (r + 1) + 1 = w - r /\ w - r \in Nat /\ \A i \in 1..(w - r) : (r + 1) + i - 1 = r + i
  BY <1>1
<1>6. Len(SubSeq(d, r + 1, w)) = w - r
  BY <1>1, <1>4
<1>7. \A i \in 1..(w - r) : SubSeq(d, r + 1, w)[i] = d[r + i]
  BY <1>4, <1>5
<1> QED  BY <1>4, <1>5, <1>6, <1>7 DEF ContentOf, r, w, d

LEMMA SameContent ==
    ASSUME NEW p, Good(p), NEW q, Good(q), q.writer - q.reader = p.writer - p.reader,
           \A i \in 1..(p.writer - p.reader) : q.data[q.reader + i] = p.data[p.reader + i]
    PROVE  ContentOf(q) = ContentOf(p)
<1> DEFINE n == p.writer - p.reader
<1>1. /\ ContentOf(q) \in Seq(Nat) /\ Len(ContentOf(q)) = n
      /\ \A i \in 1..n : ContentOf(q)[i] = q.data[q.reader + i]
  BY Window
<1>2. /\ ContentOf(p) \in Seq(Nat) /\ Len(ContentOf(p)) = n
      /\ \A i \in 1..n : ContentOf(p)[i] = p.data[p.reader + i]
  BY Window
<1>3. \A i \in 1..n : ContentOf(q)[i] = ContentOf(p)[i]
  BY <1>1, <1>2
<1> HIDE DEF n
<1> QED  BY <1>1, <1>2, <1>3, SeqEqual

LEMMA BytesTyped ==
    ASSUME NEW first \in Nat, first > 0, NEW n \in Nat
    PROVE  /\ Queue!Bytes(first, n) \in Seq(Nat) /\ Len(Queue!Bytes(first, n)) = n
           /\ \A i \in 1..n : Queue!Bytes(first, n)[i] = first + i - 1
<1>1. \A i \in 1..n : first + i - 1 \in Nat
  OBVIOUS
<1> QED  BY <1>1 DEF Queue!Bytes

-----------------------------------------------------------------------------
(* The vector grows. *)
LEMMA ResizedGood ==
    ASSUME NEW p, Good(p), NEW size \in Nat, size >= Len(p.data)
    PROVE  /\ Good(Resized(p, size)) /\ Len(Resized(p, size).data) = size
           /\ ContentOf(Resized(p, size)) = ContentOf(p)
<1> DEFINE q == Resized(p, size)
<1>1. p \in Places /\ p.data \in Seq(Nat) /\ Len(p.data) \in Nat
      /\ p.reader \in Nat /\ p.writer \in Nat /\ p.reader <= p.writer /\ p.writer <= Len(p.data)
  BY LenProperties DEF Good, Places
<1>2. \A i \in 1..Len(p.data) : p.data[i] \in Nat
  BY <1>1, ElementOfSeq
<1>3. q.data = [i \in 1..size |-> IF i <= Len(p.data) THEN p.data[i] ELSE 0]
      /\ q.reader = p.reader /\ q.writer = p.writer
  BY <1>1 DEF Resized, Places
<1>4. q.data \in Seq(Nat) /\ Len(q.data) = size /\ \A i \in 1..Len(p.data) : q.data[i] = p.data[i]
  BY <1>1, <1>2, <1>3
<1>5. q \in Places
  BY <1>1, <1>4 DEF Resized, Places
<1>6. Good(q)
  BY <1>1, <1>3, <1>4, <1>5 DEF Good
<1> HIDE DEF q
<1>7. ASSUME NEW i \in 1..(p.writer - p.reader) PROVE q.data[q.reader + i] = p.data[p.reader + i]
  <2>1. p.reader + i \in 1..Len(p.data)
    BY <1>1
  <2> QED  BY <1>3, <1>4, <2>1
<1>8. ContentOf(q) = ContentOf(p)
  BY <1>3, <1>6, <1>7, SameContent
<1> QED  BY <1>4, <1>6, <1>8 DEF q

(* The bytes are moved to the front. *)
LEMMA MovedGood ==
    ASSUME NEW p, Good(p)
    PROVE  /\ Good(Moved(p)) /\ ContentOf(Moved(p)) = ContentOf(p)
           /\ Len(Moved(p).data) = Len(p.data)
<1> DEFINE q == Moved(p) readable == p.writer - p.reader
<1>1. p \in Places /\ p.data \in Seq(Nat) /\ Len(p.data) \in Nat /\ DOMAIN p.data = 1..Len(p.data)
      /\ p.reader \in Nat /\ p.writer \in Nat /\ p.reader <= p.writer /\ p.writer <= Len(p.data)
  BY LenProperties DEF Good, Places
<1>2. \A i \in 1..Len(p.data) : p.data[i] \in Nat
  BY <1>1, ElementOfSeq
<1>3. readable \in Nat /\ \A i \in 1..readable : p.reader + i \in 1..Len(p.data) /\ i \in 1..Len(p.data)
  BY <1>1
<1>4. q.data = [i \in 1..Len(p.data) |-> IF i <= readable THEN p.data[p.reader + i] ELSE p.data[i]]
      /\ q.reader = 0 /\ q.writer = readable
  BY <1>1 DEF Moved, Places
<1> HIDE DEF readable
<1>5. q.data \in Seq(Nat) /\ Len(q.data) = Len(p.data) /\ \A i \in 1..readable : q.data[i] = p.data[p.reader + i]
  <2>1. \A i \in 1..Len(p.data) : (IF i <= readable THEN p.data[p.reader + i] ELSE p.data[i]) \in Nat
    <3>1. \A i \in 1..Len(p.data) : i <= readable => i \in 1..readable
      BY <1>1, <1>3
    <3> QED  BY <1>2, <1>3, <3>1
  <2>2. q.data \in Seq(Nat) /\ Len(q.data) = Len(p.data)
    BY <1>1, <1>4, <2>1
  <2>3. \A i \in 1..readable : q.data[i] = p.data[p.reader + i]
    BY <1>3, <1>4
  <2> QED  BY <2>2, <2>3
<1>6. q \in Places
  BY <1>1, <1>3, <1>5 DEF Moved, Places, readable
<1>7. Good(q)
  BY <1>1, <1>3, <1>4, <1>5, <1>6 DEF Good, readable
<1> HIDE DEF q
<1>8. \A i \in 1..readable : q.data[q.reader + i] = p.data[p.reader + i]
  BY <1>3, <1>4, <1>5
<1>9. q.writer - q.reader = p.writer - p.reader
  BY <1>1, <1>3, <1>4 DEF readable
<1>10. ContentOf(q) = ContentOf(p)
  BY <1>7, <1>8, <1>9, SameContent DEF readable
<1> QED  BY <1>5, <1>7, <1>10 DEF q

(* Making room does not touch what the buffer holds. *)
LEMMA RoomGood ==
    ASSUME NEW p, Good(p), NEW len \in Nat
    PROVE  Good(ensureWriteBytes(p, len)) /\ ContentOf(ensureWriteBytes(p, len)) = ContentOf(p)
<1>1. p.writer \in Nat /\ Len(p.data) \in Nat
  BY LenProperties DEF Good, Places
<1>2. CASE Len(p.data) - p.writer < len
  <2>1. p.writer + len \in Nat /\ p.writer + len >= Len(p.data)
    BY <1>1, <1>2
  <2> QED  BY <1>2, <2>1, ResizedGood, MovedGood DEF ensureWriteBytes, makeSpace
<1>3. CASE ~(Len(p.data) - p.writer < len)
  BY <1>3 DEF ensureWriteBytes
<1> QED  BY <1>2, <1>3

(* Exactly then does ensureWriteBytes not make the room. *)
LEMMA RoomShort ==
    ASSUME NEW p, Good(p), NEW len \in Nat
    PROVE  Fits(ensureWriteBytes(p, len), len) <=>
              ~Short(p.reader, Len(p.data) - p.writer, p.writer - p.reader, len)
<1> DEFINE r == p.reader w == p.writer m == Len(p.data)
<1>1. r \in Nat /\ w \in Nat /\ m \in Nat /\ r <= w /\ w <= m
  BY LenProperties DEF Good, Places
<1>2. CASE m - w >= len
  <2>1. ~Short(r, m - w, w - r, len)
    <3> HIDE DEF r, w, m
    <3> QED  BY <1>1, <1>2 DEF Short
  <2>2. ensureWriteBytes(p, len) = p
    BY <1>1, <1>2 DEF ensureWriteBytes
  <2> QED  BY <1>2, <2>1, <2>2 DEF Fits
<1>3. CASE m - w < len /\ (m - w) + (w - r) < len
  <2>1. ~Short(r, m - w, w - r, len) /\ w + len \in Nat /\ w + len >= m /\ (w + len) - w >= len
    <3> HIDE DEF r, w, m
    <3> QED  BY <1>1, <1>3 DEF Short
  <2>2. ensureWriteBytes(p, len) = Resized(p, w + len)
    BY <1>3 DEF ensureWriteBytes, makeSpace
  <2>3. Len(Resized(p, w + len).data) = w + len
    BY <2>1, ResizedGood
  <2>4. Resized(p, w + len).writer = w
    BY DEF Resized, Good, Places
  <2> QED  BY <2>1, <2>2, <2>3, <2>4 DEF Fits
<1>4. CASE m - w < len /\ ~((m - w) + (w - r) < len)
  <2>1. Short(r, m - w, w - r, len) <=> ~(m - (w - r) >= len)
    <3> HIDE DEF r, w, m
    <3> QED  BY <1>1, <1>4 DEF Short
  <2>2. ensureWriteBytes(p, len) = Moved(p)
    BY <1>4 DEF ensureWriteBytes, makeSpace
  <2>3. Moved(p).writer = w - r
    BY DEF Moved, Good, Places
  <2>4. Len(Moved(p).data) = m
    BY MovedGood
  <2> QED  BY <2>1, <2>2, <2>3, <2>4 DEF Fits
<1>5. (m - w >= len) \/ (m - w < len)
  <2> HIDE DEF w, m
  <2> QED  BY <1>1
<1> QED  BY <1>2, <1>3, <1>4, <1>5

(* Written past the end or not, the data is a vector of the same size. *)
LEMMA WrittenTyped ==
    ASSUME NEW p, Good(p), NEW first \in Nat, first > 0, NEW len \in Nat
    PROVE  /\ Written(p, first, len) \in Places
           /\ Written(p, first, len).reader = p.reader /\ Written(p, first, len).writer = p.writer + len
           /\ Len(Written(p, first, len).data) = Len(p.data)
<1> DEFINE q == Written(p, first, len) w == p.writer
<1>1. p \in Places /\ p.data \in Seq(Nat) /\ Len(p.data) \in Nat /\ DOMAIN p.data = 1..Len(p.data)
      /\ p.reader \in Nat /\ w \in Nat
  BY LenProperties DEF Good, Places
<1>2. \A i \in 1..Len(p.data) : p.data[i] \in Nat
  BY <1>1, ElementOfSeq
<1>3. q.data = [i \in 1..Len(p.data) |-> IF i > w /\ i <= w + len THEN first + i - w - 1 ELSE p.data[i]]
      /\ q.reader = p.reader /\ q.writer = w + len
  BY <1>1 DEF Written, Places
<1>4. \A i \in 1..Len(p.data) : i > w => first + i - w - 1 \in Nat
  BY <1>1
<1>5. q.data \in Seq(Nat) /\ Len(q.data) = Len(p.data)
  BY <1>1, <1>2, <1>3, <1>4
<1>6. q \in Places
  <2>1. q \in [data : {q.data}, reader : {p.reader}, writer : {w + len}]
    BY <1>1, <1>3 DEF Written, Places
  <2>2. w + len \in Nat
    BY <1>1
  <2> QED  BY <1>1, <1>5, <2>1, <2>2 DEF Places
<1> QED  BY <1>3, <1>5, <1>6

(* Bytes are written behind those that the buffer holds. *)
LEMMA WrittenGood ==
    ASSUME NEW p, Good(p), NEW first \in Nat, first > 0, NEW len \in Nat, Fits(p, len)
    PROVE  /\ Good(Written(p, first, len))
           /\ ContentOf(Written(p, first, len)) = ContentOf(p) \o Queue!Bytes(first, len)
           /\ Len(Written(p, first, len).data) = Len(p.data)
           /\ Written(p, first, len).writer = p.writer + len
<1> DEFINE q == Written(p, first, len) w == p.writer
<1>1. p \in Places /\ p.data \in Seq(Nat) /\ Len(p.data) \in Nat /\ DOMAIN p.data = 1..Len(p.data)
      /\ p.reader \in Nat /\ w \in Nat /\ p.reader <= w /\ w <= Len(p.data) /\ w + len <= Len(p.data)
  BY LenProperties DEF Good, Places, Fits
<1>3. q.data = [i \in 1..Len(p.data) |-> IF i > w /\ i <= w + len THEN first + i - w - 1 ELSE p.data[i]]
      /\ q.reader = p.reader /\ q.writer = w + len
  BY <1>1 DEF Written, Places
<1>5. Len(q.data) = Len(p.data) /\ q \in Places
  BY WrittenTyped
<1>7. Good(q)
  BY <1>1, <1>3, <1>5 DEF Good
<1> HIDE DEF q
<1> DEFINE n == w - p.reader
<1>8. n \in Nat /\ n + len \in Nat /\ q.writer - q.reader = n + len
  BY <1>1, <1>3
<1>9. \A i \in 1..n : q.data[q.reader + i] = p.data[p.reader + i]
  <2> SUFFICES ASSUME NEW i \in 1..n
               PROVE  q.data[q.reader + i] = p.data[p.reader + i]
    OBVIOUS
  <2>1. p.reader + i \in 1..Len(p.data) /\ ~(p.reader + i > w)
    <3> DEFINE r == p.reader m == Len(p.data)
    <3>1. r \in Nat /\ w \in Nat /\ r <= w /\ w <= m /\ m \in Nat /\ i \in Int /\ 1 <= i /\ i <= w - r
      BY <1>1, <1>8
    <3> HIDE DEF r, m, n, w
    <3>2. r + i \in 1..m /\ ~(r + i > w)
      BY <3>1
    <3> QED  BY <3>2 DEF r, m
  <2> HIDE DEF n
  <2> QED  BY <1>3, <2>1
<1>10. \A i \in (n + 1)..(n + len) : q.data[q.reader + i] = first + (i - n) - 1
  <2> SUFFICES ASSUME NEW i \in (n + 1)..(n + len)
               PROVE  q.data[q.reader + i] = first + (i - n) - 1
    OBVIOUS
  <2>1. /\ p.reader + i \in 1..Len(p.data) /\ p.reader + i > w /\ p.reader + i <= w + len
        /\ first + (p.reader + i) - w - 1 = first + (i - n) - 1
    <3> DEFINE r == p.reader m == Len(p.data)
    <3>1. r \in Nat /\ w \in Nat /\ r <= w /\ w + len <= m /\ m \in Nat /\ n = w - r /\ i \in Int /\ n + 1 <= i /\ i <= n + len
      BY <1>1, <1>8
    <3> HIDE DEF r, m, n, w
    <3>2. r + i \in 1..m /\ r + i > w /\ r + i <= w + len /\ first + (r + i) - w - 1 = first + (i - n) - 1
      BY <3>1
    <3> QED  BY <3>2 DEF r, m
  <2> HIDE DEF n
  <2> QED  BY <1>3, <2>1
<1>11. /\ ContentOf(p) \in Seq(Nat) /\ Len(ContentOf(p)) = n
       /\ \A i \in 1..n : ContentOf(p)[i] = p.data[p.reader + i]
  BY Window
<1> HIDE DEF n, w
<1>12. /\ ContentOf(q) \in Seq(Nat) /\ Len(ContentOf(q)) = n + len
       /\ \A i \in 1..(n + len) : ContentOf(q)[i] = q.data[q.reader + i]
  BY <1>7, <1>8, Window
<1>13. /\ Queue!Bytes(first, len) \in Seq(Nat) /\ Len(Queue!Bytes(first, len)) = len
       /\ \A i \in 1..len : Queue!Bytes(first, len)[i] = first + i - 1
  BY BytesTyped
<1>14. /\ ContentOf(p) \o Queue!Bytes(first, len) \in Seq(Nat)
       /\ Len(ContentOf(p) \o Queue!Bytes(first, len)) = n + len
       /\ \A i \in 1..(n + len) : (ContentOf(p) \o Queue!Bytes(first, len))[i] =
              IF i <= n THEN ContentOf(p)[i] ELSE Queue!Bytes(first, len)[i - n]
  <2> DEFINE c == ContentOf(p) d == Queue!Bytes(first, len)
  <2>1. c \in Seq(Nat) /\ Len(c) = n /\ d \in Seq(Nat) /\ Len(d) = len
    BY <1>11, <1>13
  <2> HIDE DEF c, d
  <2>2. /\ c \o d \in Seq(Nat) /\ Len(c \o d) = n + len
        /\ \A i \in 1..(n + len) : (c \o d)[i] = IF i <= n THEN c[i] ELSE d[i - n]
    BY <2>1, ConcatProperties
  <2> QED  BY <2>2 DEF c, d
<1>15. ASSUME NEW i \in 1..(n + len)
       PROVE  ContentOf(q)[i] = (ContentOf(p) \o Queue!Bytes(first, len))[i]
  <2>1. CASE i <= n
    <3>1. i \in 1..n
      BY <1>8, <2>1
    <3> QED  BY <1>9, <1>11, <1>12, <1>14, <2>1, <3>1
  <2>2. CASE ~(i <= n)
    <3>1. i \in (n + 1)..(n + len) /\ i - n \in 1..len
      BY <1>8, <2>2
    <3>2. ContentOf(q)[i] = first + (i - n) - 1
      BY <1>10, <1>12, <3>1
    <3>3. (ContentOf(p) \o Queue!Bytes(first, len))[i] = first + (i - n) - 1
      BY <1>13, <1>14, <2>2, <3>1
    <3> QED  BY <3>2, <3>3
  <2> QED  BY <2>1, <2>2
<1>16. ContentOf(q) = ContentOf(p) \o Queue!Bytes(first, len)
  BY <1>12, <1>14, <1>15, SeqEqual
<1> QED  BY <1>3, <1>5, <1>7, <1>16 DEF q, w

-----------------------------------------------------------------------------
LEMMA PlaceGood ==
    ASSUME TypeOK, ~overflow
    PROVE  Good(Place) /\ ContentOf(Place) = Content
<1>1. Len(buffer_) \in Nat
  BY LenProperties DEF TypeOK
<1>2. writerIndex_ <= Len(buffer_)
  BY <1>1 DEF TypeOK, overflow
<1>3. Good(Place)
  BY <1>2 DEF TypeOK, Place, Good, Places
<1> QED  BY <1>3 DEF Place, ContentOf, Content

(* What the variables are after a step that adds bytes; whether the vector *)
(* was overrun is `over`, and what the buffer holds if not, c.             *)
After(over, c) ==
    /\ buffer_' \in Seq(Nat) /\ readerIndex_' \in Nat /\ writerIndex_' \in Nat
    /\ readerIndex_' <= writerIndex_'
    /\ overflow' <=> over
    /\ overflow' \/ Content' = c

LEMMA BecomeGood ==
    ASSUME NEW q, Good(q), Become(q)
    PROVE  After(FALSE, ContentOf(q))
<1>1. Len(q.data) \in Nat
  BY LenProperties DEF Good, Places
<1>2. buffer_' = q.data /\ readerIndex_' = q.reader /\ writerIndex_' = q.writer
  BY DEF Become
<1>3. ~overflow'
  BY <1>1, <1>2 DEF Good, Places, overflow
<1>4. Content' = ContentOf(q)
  BY <1>2 DEF ContentOf, Content
<1> QED  BY <1>2, <1>3, <1>4 DEF Good, Places, After

(* append() to a place adds its bytes at the end, or overruns the vector. *)
LEMMA AppendStep ==
    ASSUME NEW p, Good(p), NEW first \in Nat, first > 0, NEW len \in Nat, AppendTo(p, first, len)
    PROVE  After(Short(p.reader, Len(p.data) - p.writer, p.writer - p.reader, len),
                 ContentOf(p) \o Queue!Bytes(first, len))
<1> DEFINE q == ensureWriteBytes(p, len)
           over == Short(p.reader, Len(p.data) - p.writer, p.writer - p.reader, len)
<1>1. Good(q) /\ ContentOf(q) = ContentOf(p)
  BY RoomGood
<1>2. Become(Written(q, first, len))
  BY DEF AppendTo
<1>3. Fits(q, len) <=> ~over
  BY RoomShort
<1> HIDE DEF q, over
<1> DEFINE r == Written(q, first, len)
<1>4. CASE Fits(q, len)
  <2>1. Good(r) /\ ContentOf(r) = ContentOf(p) \o Queue!Bytes(first, len)
    BY <1>1, <1>4, WrittenGood
  <2> HIDE DEF r
  <2>2. After(FALSE, ContentOf(r))
    BY <1>2, <2>1, BecomeGood DEF r
  <2> QED  BY <1>3, <1>4, <2>1, <2>2 DEF After, over
<1>5. CASE ~Fits(q, len)
  <2>1. r \in Places /\ r.reader = q.reader /\ r.writer = q.writer + len /\ Len(r.data) = Len(q.data)
    BY <1>1, WrittenTyped
  <2>2. q.reader \in Nat /\ q.writer \in Nat /\ q.reader <= q.writer /\ Len(q.data) \in Nat
    BY <1>1, LenProperties DEF Good, Places
  <2>3. q.reader <= q.writer + len /\ q.writer + len > Len(q.data)
    BY <1>5, <2>2 DEF Fits
  <2> HIDE DEF r
  <2>4. buffer_' = r.data /\ readerIndex_' = r.reader /\ writerIndex_' = r.writer
    BY <1>2 DEF Become, r
  <2>5. overflow'
    BY <2>1, <2>3, <2>4 DEF overflow
  <2>6. r.data \in Seq(Nat) /\ r.reader \in Nat /\ r.writer \in Nat
    BY <2>1 DEF Places
  <2>7. readerIndex_' <= writerIndex_'
    BY <2>1, <2>3, <2>4
  <2> QED  BY <1>3, <1>5, <2>4, <2>5, <2>6, <2>7 DEF After, over
<1> QED  BY <1>4, <1>5

(* Two rows of bytes that follow each other are one. *)
LEMMA BytesJoin ==
    ASSUME NEW first \in Nat, first > 0, NEW m \in Nat, NEW n \in Nat
    PROVE  Queue!Bytes(first, m) \o Queue!Bytes(first + m, n) = Queue!Bytes(first, m + n)
<1> DEFINE b == Queue!Bytes(first, m) c == Queue!Bytes(first + m, n) d == Queue!Bytes(first, m + n)
<1>1. b \in Seq(Nat) /\ Len(b) = m /\ \A i \in 1..m : b[i] = first + i - 1
  BY BytesTyped
<1>2. c \in Seq(Nat) /\ Len(c) = n /\ \A i \in 1..n : c[i] = (first + m) + i - 1
  <2>1. first + m \in Nat /\ first + m > 0
    OBVIOUS
  <2> QED  BY <2>1, BytesTyped
<1>3. d \in Seq(Nat) /\ Len(d) = m + n /\ \A i \in 1..(m + n) : d[i] = first + i - 1
  <2>1. m + n \in Nat
    OBVIOUS
  <2> QED  BY <2>1, BytesTyped
<1> HIDE DEF b, c, d
<1>4. /\ b \o c \in Seq(Nat) /\ Len(b \o c) = m + n
      /\ \A i \in 1..(m + n) : (b \o c)[i] = IF i <= m THEN b[i] ELSE c[i - m]
  BY <1>1, <1>2, ConcatProperties
<1>5. ASSUME NEW i \in 1..(m + n) PROVE (b \o c)[i] = d[i]
  <2>1. CASE i <= m
    BY <1>1, <1>3, <1>4, <2>1
  <2>2. CASE ~(i <= m)
    <3>1. i - m \in 1..n /\ (first + m) + (i - m) - 1 = first + i - 1
      BY <2>2
    <3> QED  BY <1>2, <1>3, <1>4, <2>2, <3>1
  <2> QED  BY <2>1, <2>2
<1>6. b \o c = d
  BY <1>3, <1>4, <1>5, SeqEqual
<1> QED  BY <1>6 DEF b, c, d

-----------------------------------------------------------------------------
(* The appends and the reads that overrun the vector. *)
AppendOverruns(n) == Short(readerIndex_, writableBytes, readableBytes, n)

ReadOverruns(n) ==
    n > writableBytes /\ Short(readerIndex_, 0, Len(buffer_) - readerIndex_, n - writableBytes)

LEMMA AppendPuts ==
    ASSUME TypeOK, NEW n \in 0..MaxBytes, append(n)
    PROVE  TypeOK' /\ (overflow' \/ Queue!Put(n)) /\ (overflow' <=> AppendOverruns(n))
<1>1. in + 1 \in Nat /\ in + 1 > 0 /\ n \in Nat
  BY SizesAssumption DEF TypeOK
<1>2. ~overflow /\ AppendTo(Place, in + 1, n) /\ in' = in + n /\ out' = out
  BY DEF append
<1>3. Good(Place) /\ ContentOf(Place) = Content
  BY <1>2, PlaceGood
<1>4. Place.reader = readerIndex_ /\ Len(Place.data) - Place.writer = writableBytes
      /\ Place.writer - Place.reader = readableBytes
  BY DEF Place, writableBytes, readableBytes
<1>5. After(Short(Place.reader, Len(Place.data) - Place.writer, Place.writer - Place.reader, n),
            ContentOf(Place) \o Queue!Bytes(in + 1, n))
  BY <1>1, <1>2, <1>3, AppendStep
<1>6. After(AppendOverruns(n), Content \o Queue!Bytes(in + 1, n))
  BY <1>3, <1>4, <1>5, Zenon DEF AppendOverruns
<1>7. in' \in Nat /\ out' \in Nat
  BY <1>1, <1>2 DEF TypeOK
<1>8. TypeOK'
  BY <1>6, <1>7 DEF TypeOK, After
<1> QED  BY <1>2, <1>6, <1>8 DEF Queue!Put, After

LEMMA Regroup ==
    \A a, b, c \in Seq(Nat) : (a \o b) \o c = a \o (b \o c)
  BY ConcatAssociative

LEMMA ReadPuts ==
    ASSUME TypeOK, NEW n \in 0..MaxBytes, readFd(n)
    PROVE  TypeOK' /\ (overflow' \/ Queue!Put(n)) /\ (overflow' <=> ReadOverruns(n))
<1> DEFINE w == writableBytes
<1>1. ~overflow /\ in' = in + n /\ out' = out
  BY DEF readFd
<1>2. in + 1 \in Nat /\ in + 1 > 0 /\ n \in Nat /\ w \in Nat /\ Len(buffer_) \in Nat
  BY <1>1, SizesAssumption, LenProperties DEF TypeOK, writableBytes, overflow
<1>3. Good(Place) /\ ContentOf(Place) = Content
  BY <1>1, PlaceGood
<1>4. \A k \in Nat : k <= w => Fits(Place, k)
  BY <1>2 DEF Fits, Place, writableBytes, TypeOK
<1>5. in' \in Nat /\ out' \in Nat
  BY <1>1, <1>2 DEF TypeOK
<1> DEFINE Result == After(ReadOverruns(n), Content \o Queue!Bytes(in + 1, n))
<1>6. ASSUME n <= w, Become(Written(Place, in + 1, n))
      PROVE  Result
  <2> DEFINE r == Written(Place, in + 1, n)
  <2>1. Good(r) /\ ContentOf(r) = Content \o Queue!Bytes(in + 1, n)
    BY <1>2, <1>3, <1>4, <1>6, WrittenGood
  <2>2. ~ReadOverruns(n)
    BY <1>2, <1>6 DEF ReadOverruns
  <2> HIDE DEF r
  <2>3. After(FALSE, ContentOf(r))
    BY <1>6, <2>1, BecomeGood DEF r
  <2> QED  BY <2>1, <2>2, <2>3 DEF After
<1>7. ASSUME n > w, AppendTo(Written(Place, in + 1, w), in + w + 1, n - w)
      PROVE  Result
  <2> DEFINE r == Written(Place, in + 1, w)
  <2>1. Good(r) /\ ContentOf(r) = Content \o Queue!Bytes(in + 1, w)
    <3>1. Fits(Place, w)
      BY <1>2, <1>4
    <3> HIDE DEF w
    <3> QED  BY <1>2, <1>3, <3>1, WrittenGood
  <2>2. in + w + 1 \in Nat /\ in + w + 1 > 0 /\ n - w \in Nat /\ in + w + 1 = (in + 1) + w /\ w + (n - w) = n
    BY <1>2, <1>7 DEF TypeOK
  <2>3. AppendTo(r, in + w + 1, n - w)
    BY <1>7
  <2>4. r.reader = readerIndex_ /\ Len(r.data) - r.writer = 0 /\ r.writer - r.reader = Len(buffer_) - readerIndex_
    <3>1. Place.reader = readerIndex_ /\ Place.writer = writerIndex_ /\ Place.data = buffer_
      BY DEF Place
    <3>2. r.reader = readerIndex_ /\ r.writer = writerIndex_ + w /\ Len(r.data) = Len(buffer_)
      <4> HIDE DEF w
      <4> QED  BY <1>2, <1>3, <3>1, WrittenTyped
    <3>3. writerIndex_ + w = Len(buffer_)
      BY <1>2 DEF writableBytes, TypeOK
    <3> HIDE DEF r, w
    <3> QED  BY <1>2, <3>2, <3>3 DEF TypeOK
  <2> HIDE DEF r
  <2>5. After(Short(r.reader, Len(r.data) - r.writer, r.writer - r.reader, n - w),
              ContentOf(r) \o Queue!Bytes(in + w + 1, n - w))
    <3> HIDE DEF w
    <3> QED  BY <2>1, <2>2, <2>3, AppendStep
  <2>6. Short(r.reader, Len(r.data) - r.writer, r.writer - r.reader, n - w) <=> ReadOverruns(n)
    BY <1>7, <2>4, Zenon DEF ReadOverruns
  <2> HIDE DEF w
  <2>7. (Content \o Queue!Bytes(in + 1, w)) \o Queue!Bytes(in + w + 1, n - w) = Content \o Queue!Bytes(in + 1, n)
    <3> DEFINE b == Queue!Bytes(in + 1, w) c == Queue!Bytes(in + w + 1, n - w)
    <3>1. b \in Seq(Nat) /\ c \in Seq(Nat) /\ Content \in Seq(Nat)
      BY <1>2, <1>3, <2>2, BytesTyped, Window
    <3>2. b \o c = Queue!Bytes(in + 1, n)
      <4>1. Queue!Bytes(in + 1, w) \o Queue!Bytes((in + 1) + w, n - w) = Queue!Bytes(in + 1, w + (n - w))
        BY <1>2, <2>2, BytesJoin, Zenon
      <4> QED  BY <2>2, <4>1, Zenon
    <3> HIDE DEF b, c
    <3>3. (Content \o b) \o c = Content \o (b \o c)
      BY <3>1, Regroup
    <3> QED  BY <3>2, <3>3 DEF b, c
  <2> QED  BY <2>1, <2>5, <2>6, <2>7 DEF After
<1>8. Result
  BY <1>6, <1>7 DEF readFd
<1>9. TypeOK'
  BY <1>5, <1>8 DEF TypeOK, After
<1> QED  BY <1>1, <1>8, <1>9 DEF Queue!Put, After

(* The bytes in front go, the others stay. *)
LEMMA FrontGoes ==
    ASSUME TypeOK, ~overflow, NEW n \in Nat, n <= readableBytes, buffer_' = buffer_
    PROVE  /\ n <= Len(Content) /\ readableBytes \in Nat
           /\ readerIndex_' = readerIndex_ + n /\ writerIndex_' = writerIndex_ =>
                 Content' = SubSeq(Content, n + 1, Len(Content))
           /\ n = readableBytes /\ readerIndex_' = writerIndex_' /\ writerIndex_' \in Nat =>
                 Content' = SubSeq(Content, n + 1, Len(Content))
<1> DEFINE k == readableBytes
<1>1. k \in Nat /\ k = writerIndex_ - readerIndex_ /\ readerIndex_ \in Nat /\ writerIndex_ \in Nat
  BY DEF TypeOK, readableBytes
<1>2. /\ Content \in Seq(Nat) /\ Len(Content) = k
      /\ \A i \in 1..k : Content[i] = buffer_[readerIndex_ + i]
  <2>1. Good(Place) /\ ContentOf(Place) = Content /\ Place.writer - Place.reader = k
        /\ Place.data = buffer_ /\ Place.reader = readerIndex_
    BY PlaceGood DEF Place, readableBytes
  <2> HIDE DEF k
  <2> QED  BY <2>1, Window
<1> HIDE DEF k
<1>3. n <= k
  BY DEF k
<1>4. ASSUME readerIndex_' = readerIndex_ + n, writerIndex_' = writerIndex_
      PROVE  Content' = SubSeq(Content, n + 1, Len(Content))
  <2> DEFINE r == [data |-> buffer_, reader |-> readerIndex_ + n, writer |-> writerIndex_]
             s == [data |-> Content, reader |-> n, writer |-> k]
  <2>1. Good(r) /\ r.writer - r.reader = k - n /\ r.data = buffer_ /\ r.reader = readerIndex_ + n
    <3>1. Len(buffer_) \in Nat /\ writerIndex_ <= Len(buffer_)
      BY <1>1, LenProperties DEF TypeOK, overflow
    <3> QED  BY <1>1, <1>3, <3>1 DEF TypeOK, Good, Places
  <2>2. Good(s) /\ s.writer - s.reader = k - n /\ s.data = Content /\ s.reader = n
    BY <1>1, <1>2, <1>3 DEF Good, Places
  <2>3. Content' = ContentOf(r) /\ SubSeq(Content, n + 1, Len(Content)) = ContentOf(s)
    BY <1>2, <1>4 DEF Content, ContentOf
  <2> HIDE DEF r, s
  <2>4. \A i \in 1..(k - n) : r.data[r.reader + i] = s.data[s.reader + i]
    <3>1. \A i \in 1..(k - n) : n + i \in 1..k /\ (readerIndex_ + n) + i = readerIndex_ + (n + i)
      BY <1>1, <1>3
    <3> QED  BY <1>2, <2>1, <2>2, <3>1
  <2> QED  BY <2>1, <2>2, <2>3, <2>4, SameContent
<1>5. ASSUME n = k, readerIndex_' = writerIndex_', writerIndex_' \in Nat
      PROVE  Content' = SubSeq(Content, n + 1, Len(Content))
  <2>1. Content' = <<>>
    <3>1. PICK j \in Nat : readerIndex_' = j /\ writerIndex_' = j
      BY <1>5
    <3>2. j + 1 \in Int /\ j \in Int /\ j < j + 1
      OBVIOUS
    <3> QED  BY <3>1, <3>2, SubSeqEmpty DEF Content
  <2>2. SubSeq(Content, n + 1, Len(Content)) = <<>>
    <3>1. n + 1 \in Int /\ Len(Content) \in Int /\ Len(Content) < n + 1
      BY <1>1, <1>2, <1>5
    <3> QED  BY <3>1, SubSeqEmpty
  <2> QED  BY <2>1, <2>2
<1> QED  BY <1>1, <1>2, <1>3, <1>4, <1>5 DEF k

LEMMA RetrieveTakes ==
    ASSUME TypeOK, NEW n \in 0..MaxBytes, retrieve(n) \/ writeFd(n)
    PROVE  TypeOK' /\ ~overflow' /\ Queue!Take(n)
<1>1. /\ n \in Nat /\ n <= readableBytes /\ ~overflow
      /\ buffer_' = buffer_ /\ in' = in /\ out' = out + n
  BY SizesAssumption DEF retrieve, writeFd
<1>2. TypeOK'
  BY <1>1 DEF TypeOK, retrieve, writeFd, readableBytes
<1>3. ~overflow'
  <2>1. Len(buffer_) \in Nat
    BY LenProperties DEF TypeOK
  <2> QED  BY <1>1, <2>1 DEF TypeOK, retrieve, writeFd, overflow
<1>4. Content' = SubSeq(Content, n + 1, Len(Content)) /\ n <= Len(Content)
  <2>1. \/ readerIndex_' = readerIndex_ + n /\ writerIndex_' = writerIndex_
        \/ n = readableBytes /\ readerIndex_' = writerIndex_' /\ writerIndex_' \in Nat
    BY <1>1 DEF retrieve, writeFd, readableBytes, TypeOK
  <2> QED  BY <1>1, <2>1, FrontGoes
<1> QED  BY <1>1, <1>2, <1>3, <1>4 DEF Queue!Take

-----------------------------------------------------------------------------
LEMMA TypeInit ==
    ASSUME Init
    PROVE  TypeOK /\ Queue!Init
<1>1. Zeros(kInitialSize) \in Seq(Nat) /\ Len(Zeros(kInitialSize)) = kInitialSize
  BY SizesAssumption DEF Zeros
<1>3. TypeOK
  BY <1>1, SizesAssumption DEF Init, TypeOK
<1>4. Content = <<>>
  BY SubSeqEmpty DEF Init, Content
<1> QED  BY <1>3, <1>4 DEF Init, Queue!Init

LEMMA BufferStep ==
    ASSUME TypeOK, [Next]_vars
    PROVE  TypeOK' /\ [overflow' \/ Queue!Next]_<<Content, in, out>>
<1>1. CASE Next
  <2>1. PICK n \in 0..MaxBytes : append(n) \/ readFd(n) \/ retrieve(n) \/ writeFd(n)
    BY <1>1 DEF Next
  <2>2. TypeOK' /\ (overflow' \/ Queue!Put(n) \/ Queue!Take(n))
    BY <2>1, AppendPuts, ReadPuts, RetrieveTakes
  <2> QED  BY <2>2 DEF Queue!Next
<1>2. CASE UNCHANGED vars
  BY <1>2 DEF vars, TypeOK, Content
<1> QED  BY <1>1, <1>2

(* The reader index never passes the writer index, through every append(), *)
(* readFd(), retrieve() and writeFd(), whether room is made by moving the  *)
(* bytes or by growing the vector, and also in a call that overruns it.    *)
THEOREM TypeCorrect == Spec => []TypeOK
<1>1. Init => TypeOK
  BY TypeInit
<1>2. TypeOK /\ [Next]_vars => TypeOK'
  BY BufferStep
<1> QED  BY <1>1, <1>2, PTL DEF Spec

(* Which calls overrun the vector. *)
OverrunsExactly ==
    \A n \in 0..MaxBytes :
        /\ append(n) => (overflow' <=> AppendOverruns(n))
        /\ readFd(n) => (overflow' <=> ReadOverruns(n))
        /\ retrieve(n) \/ writeFd(n) => ~overflow'

(* The calls that write past the end of the vector are exactly these: an   *)
(* append() of more than is free before the readable bytes and behind them *)
(* together, but of no more than is readable and writable; a readFd() of   *)
(* more than is writable whose rest is more than is free before the        *)
(* readable bytes, but no more than fills the vector from the reader index *)
(* to its end.  retrieve() and writeFd() never do.  Every other append     *)
(* stays inside, so that the defect of makeSpace() is this one only.       *)
THEOREM OverrunsKnown == Spec => [][OverrunsExactly]_vars
<1>1. TypeOK /\ [Next]_vars => [OverrunsExactly]_vars
  BY AppendPuts, ReadPuts, RetrieveTakes DEF OverrunsExactly
<1> QED  BY <1>1, TypeCorrect, PTL DEF Spec

(* Until append() overruns the vector, Buffer implements ByteQueue: every  *)
(* byte comes out once and in the order in which it went in, whatever the  *)
(* vector and the indices do.                                              *)
THEOREM ImplementsQueue == Spec => BufferIsQueue
<1>1. Init => TypeOK /\ Queue!Init
  BY TypeInit
<1>2. TypeOK /\ [Next]_vars => TypeOK' /\ [overflow' \/ Queue!Next]_<<Content, in, out>>
  BY BufferStep
<1> QED  BY <1>1, <1>2, PTL DEF Spec, BufferIsQueue
=============================================================================
