-------------------------- MODULE HttpServerProofs ---------------------------
(***************************************************************************)
(* Proofs about the buffer of a connection and about HttpServer, for any   *)
(* streams and any sizes of buffer, line and read.                         *)
(***************************************************************************)
EXTENDS HttpServer, SequenceTheorems, WellFoundedInduction, TLAPS

-----------------------------------------------------------------------------
(* The buffer                                                               *)

LEMMA SameUnits ==
  ASSUME NEW s \in Seq(Units), NEW t \in Seq(Units), NEW n, Len(s) = n, Len(t) = n,
         \A i \in 1..n : s[i] = t[i]
  PROVE  s = t
BY SeqEqual

\* The part of s behind its first m units, up to the n-th.
LEMMA PartProperties ==
  ASSUME NEW s \in Seq(Units), NEW m \in Nat, NEW n \in Nat, m <= n, n <= Len(s)
  PROVE  /\ SubSeq(s, m + 1, n) \in Seq(Units)
         /\ Len(SubSeq(s, m + 1, n)) = n - m
         /\ \A i \in 1..(n - m) : SubSeq(s, m + 1, n)[i] = s[m + i]
<1>1. Len(s) \in Nat /\ m + 1 \in Int /\ n \in Int
  OBVIOUS
<1>2. \A i \in (m + 1)..n : s[i] \in Units
  BY <1>1, ElementOfSeq
<1>3. /\ SubSeq(s, m + 1, n) \in Seq(Units)
      /\ Len(SubSeq(s, m + 1, n)) = IF m + 1 <= n THEN n - (m + 1) + 1 ELSE 0
      /\ \A i \in 1..(n - (m + 1) + 1) : SubSeq(s, m + 1, n)[i] = s[(m + 1) + i - 1]
  BY <1>1, <1>2, SubSeqProperties
<1>4. \A i \in 1..(n - m) : i \in 1..(n - (m + 1) + 1) /\ (m + 1) + i - 1 = m + i
  BY <1>1
<1> QED BY <1>1, <1>3, <1>4

LEMMA ContentProperties ==
  ASSUME NEW b, B!WellFormed(b)
  PROVE  /\ b.cells \in Seq(Units) /\ Len(b.cells) \in Nat /\ b.r \in Nat /\ b.w \in Nat
         /\ b.r <= b.w /\ b.w <= Len(b.cells)
         /\ B!Content(b) \in Seq(Units)
         /\ Len(B!Content(b)) = b.w - b.r
         /\ B!ReadableBytes(b) = b.w - b.r /\ B!ReadableBytes(b) \in Nat
         /\ \A i \in 1..(b.w - b.r) : B!Content(b)[i] = b.cells[b.r + i]
<1>1. /\ b.cells \in Seq(Units) /\ b.r \in Nat /\ b.w \in Nat
      /\ b.r <= b.w /\ b.w <= Len(b.cells)
  BY DEF B!WellFormed, B!ByteBuffers
<1>2. Len(b.cells) \in Nat
  BY <1>1
<1>3. /\ SubSeq(b.cells, b.r + 1, b.w) \in Seq(Units)
      /\ Len(SubSeq(b.cells, b.r + 1, b.w)) = b.w - b.r
      /\ \A i \in 1..(b.w - b.r) : SubSeq(b.cells, b.r + 1, b.w)[i] = b.cells[b.r + i]
  BY <1>1, PartProperties
<1>4. b.w - b.r \in Nat
  BY <1>1
<1> QED BY <1>1, <1>2, <1>3, <1>4 DEF B!Content, B!ReadableBytes

LEMMA CopyToProperties ==
  ASSUME NEW cells \in Seq(Units), NEW at \in Nat, NEW data \in Seq(Units),
         at + Len(data) <= Len(cells)
  PROVE  /\ B!CopyTo(cells, at, data) \in Seq(Units)
         /\ Len(B!CopyTo(cells, at, data)) = Len(cells)
         /\ \A i \in 1..Len(cells) : B!CopyTo(cells, at, data)[i] =
                IF i \in (at + 1)..(at + Len(data)) THEN data[i - at] ELSE cells[i]
<1>1. Len(cells) \in Nat /\ Len(data) \in Nat
  OBVIOUS
<1>2. ASSUME NEW i \in 1..Len(cells)
      PROVE  (IF i \in (at + 1)..(at + Len(data)) THEN data[i - at] ELSE cells[i]) \in Units
  <2>1. CASE i \in (at + 1)..(at + Len(data))
    <3>1. i - at \in 1..Len(data)
      BY <1>1, <2>1
    <3> QED BY <2>1, <3>1, ElementOfSeq
  <2>2. CASE i \notin (at + 1)..(at + Len(data))
    BY <2>2, ElementOfSeq
  <2> QED BY <2>1, <2>2
<1> QED BY <1>1, <1>2, SeqDef DEF B!CopyTo

\* Finding room neither loses nor moves a byte of the content.
LEMMA EnsureWritableKeepsContent ==
  ASSUME NEW b, B!WellFormed(b), NEW len \in Nat
  PROVE  LET room == B!EnsureWritableBytes(b, len)
         IN  /\ B!WellFormed(room) /\ B!Content(room) = B!Content(b)
             /\ room.w + len <= Len(room.cells)
<1> DEFINE room == B!EnsureWritableBytes(b, len)
           size == b.w - b.r
<1> SUFFICES /\ B!WellFormed(room) /\ B!Content(room) = B!Content(b)
             /\ room.w + len <= Len(room.cells)
  OBVIOUS
<1>1. /\ b.cells \in Seq(Units) /\ Len(b.cells) \in Nat /\ b.r \in Nat /\ b.w \in Nat
      /\ b.r <= b.w /\ b.w <= Len(b.cells)
      /\ B!Content(b) \in Seq(Units) /\ Len(B!Content(b)) = size /\ size \in Nat
      /\ \A i \in 1..size : B!Content(b)[i] = b.cells[b.r + i]
  BY ContentProperties
<1>2. B!TailIdleSize(b) = Len(b.cells) - b.w /\ B!HeadIdleSize(b) = b.r
      /\ B!ReadableBytes(b) = size
  BY DEF B!TailIdleSize, B!HeadIdleSize, B!ReadableBytes
<1>6. room = B!EnsureWritableBytes(b, len)
  OBVIOUS
<1> HIDE DEF size, room
<1>3. CASE Len(b.cells) - b.w >= len
  <2>1. room = b
    BY <1>2, <1>3, <1>6 DEF B!EnsureWritableBytes
  <2> QED BY <1>1, <1>3, <2>1
<1>4. CASE ~(Len(b.cells) - b.w >= len) /\ b.r + (Len(b.cells) - b.w) >= len
  <2> DEFINE cells == B!CopyTo(b.cells, 0, B!Content(b))
  <2>1. room = [cells |-> cells, r |-> 0, w |-> size]
    BY <1>2, <1>4, <1>6 DEF B!EnsureWritableBytes
  <2>2. size <= Len(b.cells) /\ size + len <= Len(b.cells)
    BY <1>1, <1>4 DEF size
  <2>3. /\ cells \in Seq(Units) /\ Len(cells) = Len(b.cells)
        /\ \A i \in 1..size : cells[i] = B!Content(b)[i]
    <3>1. 0 + Len(B!Content(b)) <= Len(b.cells)
      BY <1>1, <2>2
    <3>2. /\ cells \in Seq(Units) /\ Len(cells) = Len(b.cells)
          /\ \A i \in 1..Len(b.cells) : cells[i] =
                 IF i \in (0 + 1)..(0 + Len(B!Content(b))) THEN B!Content(b)[i - 0] ELSE b.cells[i]
      BY <1>1, <3>1, CopyToProperties
    <3> HIDE DEF cells
    <3> QED BY <1>1, <2>2, <3>2
  <2> HIDE DEF cells
  <2>6. room.w = size /\ room.r = 0 /\ room.cells = cells
    BY <2>1
  <2>4. B!WellFormed(room)
    BY <1>1, <2>1, <2>2, <2>3 DEF B!WellFormed, B!ByteBuffers
  <2>5. B!Content(room) = B!Content(b)
    <3>1. /\ B!Content(room) \in Seq(Units) /\ Len(B!Content(room)) = size
          /\ \A i \in 1..size : B!Content(room)[i] = cells[i]
      <4>1. size - 0 = size /\ \A i \in 1..size : 0 + i = i
        BY <1>1
      <4> QED BY <2>4, <2>6, <4>1, ContentProperties
    <3>2. \A i \in 1..size : B!Content(room)[i] = B!Content(b)[i]
      BY <1>1, <2>3, <3>1
    <3> QED BY <1>1, <3>1, <3>2, SameUnits
  <2> QED BY <1>1, <2>2, <2>3, <2>4, <2>5, <2>6
<1>5. CASE ~(Len(b.cells) - b.w >= len) /\ ~(b.r + (Len(b.cells) - b.w) >= len)
  <2> DEFINE more == [i \in 1..(b.w + len - Len(b.cells)) |-> Nothing]
             cells == b.cells \o more
  <2>1. room = [b EXCEPT !.cells = cells]
    BY <1>2, <1>5, <1>6 DEF B!EnsureWritableBytes
  <2>2. more \in Seq(Units) /\ Len(more) = b.w + len - Len(b.cells)
    <3>1. b.w + len - Len(b.cells) \in Nat
      BY <1>1, <1>5
    <3>2. Nothing \in Units
      BY DEF Units
    <3> QED BY <3>1, <3>2, SeqDef
  <2> HIDE DEF more
  <2>3. /\ cells \in Seq(Units) /\ Len(cells) = b.w + len
        /\ \A i \in 1..Len(b.cells) : cells[i] = b.cells[i]
    <3>1. Len(cells) = Len(b.cells) + Len(more)
      BY <1>1, <2>2, ConcatProperties
    <3> QED BY <1>1, <2>2, <3>1, ConcatProperties
  <2> HIDE DEF cells
  <2>6. room.w = b.w /\ room.r = b.r /\ room.cells = cells /\ room \in B!ByteBuffers
    BY <2>1, <2>3 DEF B!WellFormed, B!ByteBuffers
  <2>4. B!WellFormed(room)
    BY <1>1, <1>5, <2>3, <2>6 DEF B!WellFormed
  <2>5. B!Content(room) = B!Content(b)
    <3>1. /\ B!Content(room) \in Seq(Units) /\ Len(B!Content(room)) = size
          /\ \A i \in 1..size : B!Content(room)[i] = cells[b.r + i]
      BY <1>1, <2>4, <2>6, ContentProperties DEF size
    <3>2. \A i \in 1..size : b.r + i \in 1..Len(b.cells)
      BY <1>1 DEF size
    <3>3. \A i \in 1..size : B!Content(room)[i] = B!Content(b)[i]
      BY <1>1, <2>3, <3>1, <3>2
    <3> QED BY <1>1, <3>1, <3>3, SameUnits
  <2> QED BY <1>1, <2>3, <2>4, <2>5, <2>6
<1> QED BY <1>3, <1>4, <1>5

\* WriteAndpush puts the data behind the content, whatever room it has to find.
LEMMA WriteAppends ==
  ASSUME NEW b, B!WellFormed(b), NEW data \in Seq(Units)
  PROVE  LET after == B!WriteAndpush(b, data)
         IN  B!WellFormed(after) /\ B!Content(after) = B!Content(b) \o data
<1> DEFINE after == B!WriteAndpush(b, data)
           room == B!EnsureWritableBytes(b, Len(data))
           cells == B!CopyTo(room.cells, room.w, data)
           size == room.w - room.r
           len == Len(data)
<1> SUFFICES B!WellFormed(after) /\ B!Content(after) = B!Content(b) \o data
  OBVIOUS
<1>1. len \in Nat
  OBVIOUS
<1>2. /\ B!WellFormed(room) /\ B!Content(room) = B!Content(b)
      /\ room.w + len <= Len(room.cells)
  BY <1>1, EnsureWritableKeepsContent
<1>3. after = [[room EXCEPT !.cells = cells] EXCEPT !.w = room.w + len]
  <2>1. after = [[room EXCEPT !.cells = cells] EXCEPT !.w = @ + len]
    BY DEF B!WriteAndpush, B!Write, B!MoveWriteoffset
  <2>2. room \in B!ByteBuffers
    BY <1>2 DEF B!WellFormed
  <2> HIDE DEF room, cells, after, len
  <2> QED BY <2>1, <2>2 DEF B!ByteBuffers
<1> HIDE DEF room, after
<1>4. /\ room.cells \in Seq(Units) /\ Len(room.cells) \in Nat /\ room.r \in Nat
      /\ room.w \in Nat /\ room.r <= room.w /\ room.w <= Len(room.cells)
      /\ B!Content(room) \in Seq(Units) /\ Len(B!Content(room)) = size
      /\ \A i \in 1..size : B!Content(room)[i] = room.cells[room.r + i]
  BY <1>2, ContentProperties
<1>5. /\ cells \in Seq(Units) /\ Len(cells) = Len(room.cells)
      /\ \A i \in 1..Len(room.cells) : cells[i] =
             IF i \in (room.w + 1)..(room.w + len) THEN data[i - room.w] ELSE room.cells[i]
  BY <1>2, <1>4, CopyToProperties
<1> HIDE DEF cells, len
<1>6. after.cells = cells /\ after.r = room.r /\ after.w = room.w + len
  BY <1>2, <1>3 DEF B!WellFormed, B!ByteBuffers
<1>7. after \in B!ByteBuffers
  <2>1. room.w + len \in Nat /\ room \in B!ByteBuffers
    BY <1>1, <1>2, <1>4 DEF B!WellFormed
  <2> QED BY <1>3, <1>5, <2>1 DEF B!ByteBuffers
<1>8. B!WellFormed(after)
  BY <1>1, <1>2, <1>4, <1>5, <1>6, <1>7 DEF B!WellFormed
<1>9. B!Content(after) = B!Content(room) \o data
  <2> DEFINE both == B!Content(room) \o data
  <2>1. size + len = after.w - after.r /\ size \in Nat
    BY <1>1, <1>4, <1>6
  <2>2. /\ both \in Seq(Units) /\ Len(both) = size + len
        /\ \A i \in 1..(size + len) :
               both[i] = IF i <= size THEN B!Content(room)[i] ELSE data[i - size]
    <3>1. /\ both \in Seq(Units) /\ Len(both) = Len(B!Content(room)) + Len(data)
          /\ \A i \in 1..(Len(B!Content(room)) + Len(data)) : both[i] =
                 IF i <= Len(B!Content(room)) THEN B!Content(room)[i]
                 ELSE data[i - Len(B!Content(room))]
      BY <1>4, ConcatProperties
    <3> HIDE DEF both, size
    <3> QED BY <1>4, <3>1 DEF len
  <2>3. /\ B!Content(after) \in Seq(Units) /\ Len(B!Content(after)) = size + len
        /\ \A i \in 1..(size + len) : B!Content(after)[i] = cells[room.r + i]
    BY <1>6, <1>8, <2>1, ContentProperties
  <2> HIDE DEF both
  <2>4. ASSUME NEW i \in 1..(size + len)
        PROVE  B!Content(after)[i] = both[i]
    <3>1. room.r + i \in 1..Len(room.cells)
      BY <1>1, <1>2, <1>4, <2>1, <1>6
    <3>2. CASE i <= size
      <4>1. room.r + i <= room.w
        BY <1>4, <2>1, <3>2
      <4>3. room.r + i \notin (room.w + 1)..(room.w + len)
        BY <1>4, <2>1, <4>1
      <4>2. cells[room.r + i] = room.cells[room.r + i]
        BY <1>5, <3>1, <4>3
      <4> QED BY <1>4, <2>1, <2>2, <2>3, <3>2, <4>2
    <3>3. CASE i > size
      <4>1. /\ room.r + i \in (room.w + 1)..(room.w + len)
            /\ (room.r + i) - room.w = i - size
        BY <1>1, <1>4, <2>1, <3>3
      <4>2. cells[room.r + i] = data[i - size]
        BY <1>5, <3>1, <4>1
      <4> QED BY <1>1, <2>1, <2>2, <2>3, <3>3, <4>2
    <3> QED BY <1>1, <2>1, <3>2, <3>3
  <2>5. B!Content(after) = both
    BY <2>2, <2>3, <2>4, SameUnits
  <2> QED BY <2>5 DEF both
<1> QED BY <1>2, <1>8, <1>9

\* MoveReadoffset takes what it passes off the front of the content.
LEMMA ReadTakesFront ==
  ASSUME NEW b, B!WellFormed(b), NEW n \in 0..B!ReadableBytes(b)
  PROVE  LET after == B!MoveReadoffset(b, n)
         IN  /\ B!WellFormed(after)
             /\ B!Content(after) = SubSeq(B!Content(b), n + 1, Len(B!Content(b)))
<1> DEFINE after == B!MoveReadoffset(b, n)
           size == b.w - b.r
<1> SUFFICES /\ B!WellFormed(after)
             /\ B!Content(after) = SubSeq(B!Content(b), n + 1, Len(B!Content(b)))
  OBVIOUS
<1>1. /\ b.cells \in Seq(Units) /\ Len(b.cells) \in Nat /\ b.r \in Nat /\ b.w \in Nat
      /\ b.r <= b.w /\ b.w <= Len(b.cells)
      /\ B!Content(b) \in Seq(Units) /\ Len(B!Content(b)) = size
      /\ \A i \in 1..size : B!Content(b)[i] = b.cells[b.r + i]
      /\ n \in 0..size
  BY ContentProperties
<1>2. b \in B!ByteBuffers /\ after = [b EXCEPT !.r = b.r + n]
  BY DEF B!WellFormed, B!MoveReadoffset, B!ByteBuffers
<1> HIDE DEF after
<1>3. /\ after \in B!ByteBuffers /\ after.cells = b.cells /\ after.r = b.r + n
      /\ after.w = b.w
  <2>1. b.r + n \in Nat
    BY <1>1
  <2> QED BY <1>2, <2>1 DEF B!ByteBuffers
<1>4. B!WellFormed(after)
  BY <1>1, <1>3 DEF B!WellFormed
<1>5. B!Content(after) = SubSeq(B!Content(b), n + 1, size)
  <2>1. after.w - after.r = size - n /\ n \in Nat /\ size \in Nat /\ n <= size
    BY <1>1, <1>3
  <2>2. /\ B!Content(after) \in Seq(Units) /\ Len(B!Content(after)) = size - n
        /\ \A i \in 1..(size - n) : B!Content(after)[i] = b.cells[(b.r + n) + i]
    BY <1>3, <1>4, <2>1, ContentProperties
  <2> DEFINE rest == SubSeq(B!Content(b), n + 1, size)
  <2>3. /\ rest \in Seq(Units) /\ Len(rest) = size - n
        /\ \A i \in 1..(size - n) : rest[i] = B!Content(b)[n + i]
    BY <1>1, <2>1, PartProperties
  <2> HIDE DEF rest
  <2>4. ASSUME NEW i \in 1..(size - n)
        PROVE  B!Content(after)[i] = rest[i]
    <3>1. n + i \in 1..size /\ b.r + (n + i) = (b.r + n) + i
      BY <1>1, <2>1
    <3> QED BY <1>1, <2>2, <2>3, <3>1
  <2>5. B!Content(after) = rest
    BY <2>2, <2>3, <2>4, SameUnits
  <2> QED BY <2>5 DEF rest
<1> QED BY <1>1, <1>4, <1>5

\* A smallest one of some natural numbers, and Min finds it.
LEMMA MinIsThere ==
  ASSUME NEW T \in SUBSET Nat, T # {}
  PROVE  Min(T) \in T /\ \A y \in T : Min(T) <= y
<1>1. PICK x \in T : \A y \in T : ~(<<y, x>> \in OpToRel(<, Nat))
  BY NatLessThanWellFounded, WFMin, Zenon
<1>2. \A y \in T : ~(y < x)
  BY <1>1 DEF OpToRel
<1>3. \E z \in T : \A y \in T : z <= y
  BY <1>2
<1> QED BY <1>3 DEF Min

LEMMA MinIs ==
  ASSUME NEW T \in SUBSET Nat, NEW x \in T, \A y \in T : x <= y
  PROVE  Min(T) = x
<1>1. Min(T) \in T /\ \A y \in T : Min(T) <= y
  BY MinIsThere
<1>2. Min(T) \in Nat /\ x \in Nat /\ Min(T) <= x /\ x <= Min(T)
  BY <1>1
<1> QED BY <1>2

\* GetLine reads the first line of the content and leaves it there.
LEMMA LineProperties ==
  ASSUME NEW b, B!WellFormed(b)
  PROVE  LET line == B!GetLine(b, LineEnds)
         IN  /\ line \in Seq(Units) /\ Len(line) \in 0..B!ReadableBytes(b)
             /\ line # <<>> =>
                   /\ Len(line) > 0 /\ Last(line) \in Units
                   /\ Last(line) = B!Content(b)[Len(line)] /\ EndsLine(Last(line))
             /\ line = <<>> => \A i \in 1..B!ReadableBytes(b) : ~EndsLine(B!Content(b)[i])
             /\ \A i \in 1..(Len(line) - 1) : ~EndsLine(B!Content(b)[i])
<1> DEFINE E == {i \in 1..B!ReadableBytes(b) : b.cells[b.r + i] \in LineEnds}
           n == IF E = {} THEN 0 ELSE Min(E)
           line == SubSeq(b.cells, b.r + 1, b.r + n)
<1>1. B!GetLine(b, LineEnds) = line
  BY DEF B!GetLine, B!ReadAsstring, B!Min, Min
<1>2. /\ b.cells \in Seq(Units) /\ Len(b.cells) \in Nat /\ b.r \in Nat /\ b.w \in Nat
      /\ b.r <= b.w /\ b.w <= Len(b.cells)
      /\ Len(B!Content(b)) = b.w - b.r /\ B!ReadableBytes(b) = b.w - b.r
  BY ContentProperties
<1>3. /\ E \in SUBSET Nat /\ \A i \in E : i <= b.w - b.r
      /\ \A i \in 1..(b.w - b.r) : i \in E <=> EndsLine(B!Content(b)[i])
  <2>1. ASSUME NEW i \in 1..(b.w - b.r)
        PROVE  b.cells[b.r + i] \in Units /\ B!Content(b)[i] = b.cells[b.r + i]
    <3>1. b.r + i \in 1..Len(b.cells)
      BY <1>2
    <3> QED BY <1>2, <3>1, ContentProperties, ElementOfSeq
  <2>2. ASSUME NEW i \in 1..(b.w - b.r)
        PROVE  b.cells[b.r + i] \in LineEnds <=> EndsLine(B!Content(b)[i])
    BY <2>1 DEF LineEnds
  <2> QED BY <1>2, <2>2
<1> HIDE DEF E
<1>4. /\ n \in 0..(b.w - b.r) /\ (n # 0 => n \in E) /\ (n = 0 => E = {})
      /\ \A i \in 1..(n - 1) : i \notin E
  <2>1. b.w - b.r \in Nat
    BY <1>2
  <2>2. CASE E # {}
    <3>1. Min(E) \in E /\ \A i \in E : Min(E) <= i
      BY <1>3, <2>2, MinIsThere
    <3>2. Min(E) \in Nat /\ Min(E) <= b.w - b.r /\ Min(E) # 0
      <4>1. \A i \in E : i # 0
        BY DEF E
      <4> QED BY <1>3, <3>1, <4>1
    <3> QED BY <1>3, <2>1, <2>2, <3>1, <3>2
  <2>3. CASE E = {}
    BY <2>1, <2>3
  <2> QED BY <2>2, <2>3
<1> HIDE DEF n
<1>5. b.r + n \in Nat /\ b.r <= b.r + n /\ b.r + n <= Len(b.cells) /\ (b.r + n) - b.r = n
  BY <1>2, <1>4
<1>6. /\ line \in Seq(Units) /\ Len(line) = n
      /\ \A i \in 1..n : line[i] = b.cells[b.r + i]
  <2>1. /\ line \in Seq(Units) /\ Len(line) = (b.r + n) - b.r
        /\ \A i \in 1..((b.r + n) - b.r) : line[i] = b.cells[b.r + i]
    BY <1>2, <1>5, PartProperties
  <2> QED BY <1>5, <2>1
<1> HIDE DEF line
<1>7. line # <<>> => /\ n > 0 /\ Last(line) \in Units
                     /\ Last(line) = B!Content(b)[n] /\ EndsLine(Last(line))
  <2> SUFFICES ASSUME line # <<>> PROVE n > 0 /\ Last(line) \in Units
                     /\ Last(line) = B!Content(b)[n] /\ EndsLine(Last(line))
    OBVIOUS
  <2>1. n > 0 /\ n \in 1..(b.w - b.r) /\ n \in 1..n /\ n \in E
    BY <1>2, <1>4, <1>6, EmptySeq
  <2>2. Last(line) = line[n] /\ line[n] \in Units
    BY <1>6, <2>1, ElementOfSeq DEF Last
  <2>3. line[n] = B!Content(b)[n]
    BY <1>2, <1>6, <2>1, ContentProperties
  <2> QED BY <1>3, <2>1, <2>2, <2>3
<1>8. line = <<>> => \A i \in 1..(b.w - b.r) : ~EndsLine(B!Content(b)[i])
  <2>1. line = <<>> => n = 0
    BY <1>6
  <2> QED BY <1>3, <1>4, <2>1
<1>9. \A i \in 1..(n - 1) : ~EndsLine(B!Content(b)[i])
  BY <1>2, <1>3, <1>4
<1> QED BY <1>1, <1>2, <1>4, <1>6, <1>7, <1>8, <1>9

-----------------------------------------------------------------------------
(* Units                                                                    *)

LEMMA UnitsOfStreams ==
  /\ \A s \in Streams : s \in Seq(Units)
  /\ Units \subseteq LineUnits \cup HeadUnits \cup OtherUnits \cup {Nothing}
<1>1. ASSUME NEW s \in Streams
      PROVE  s \in Seq(Units) /\ Range(s) \subseteq LineUnits \cup HeadUnits \cup OtherUnits
  <2> DEFINE K == LineUnits \cup HeadUnits \cup OtherUnits
  <2>1. s \in Seq(K)
    BY HttpAssumption
  <2> HIDE DEF K
  <2>2. Range(s) \in SUBSET K /\ s \in Seq(Range(s))
    BY <2>1, RangeOfSeq, SeqOfRange
  <2>3. Range(s) \subseteq Units
    BY DEF Units
  <2>4. s \in Seq(Units)
    BY <2>2, <2>3, SeqMonotonic
  <2> QED BY <2>2, <2>4 DEF K
<1> QED BY <1>1 DEF Units

Keys == {"Content-Length", "Connection", "other"}

\* What the kind of a unit says about it.
LEMMA UnitKinds ==
  ASSUME NEW u \in Units
  PROVE  /\ u.kind = "line" => u.route \in Routes /\ u.version \in {"1.0", "1.1"}
         /\ u.kind = "head" => u.key \in Keys /\ ValueOf(u) \in {"close", "keep-alive", "other"} \cup Longs
         /\ u.kind = "head" /\ u.key = "Content-Length" => u.len \in Longs /\ ValueOf(u) = u.len
         /\ u.kind = "blank" => u = [kind |-> "blank"]
<1>1. CASE u \in LineUnits
  BY <1>1 DEF LineUnits
<1>2. CASE u \in HeadUnits
  BY <1>2 DEF HeadUnits, Keys, ValueOf
<1>3. CASE u \in OtherUnits
  BY <1>3 DEF OtherUnits
<1>4. CASE u = Nothing
  BY <1>4 DEF Nothing
<1> QED BY <1>1, <1>2, <1>3, <1>4, UnitsOfStreams

LEMMA SizeIsNatural ==
  ASSUME NEW n \in Longs
  PROVE  Size(n) \in Nat
BY HttpAssumption DEF Longs, Size

-----------------------------------------------------------------------------
(* The inductive invariant                                                  *)

Headers == UNION {[K -> {"close", "keep-alive", "other"} \cup Longs] : K \in SUBSET Keys}
Requests == [route : Routes \cup {"none"}, version : {"1.0", "1.1"}, headers : Headers,
             body : Seq(Units)]
Contexts == [statu : {200, 400, 414}, recv : {"LINE", "HEAD", "BODY", "OVER", "ERROR"},
             request : Requests, pending : BOOLEAN]

Statuses == {"CONNECTED", "DISCONNECTING", "DISCONNECTED", "TERMINATED"}

\* The types, those of the context in full.
Shape ==
    /\ stream \in Streams /\ sent \in 0..Len(stream) /\ consumed \in 0..sent
    /\ B!WellFormed(in) /\ ctx \in Contexts
    /\ status \in Statuses /\ handling \in BOOLEAN /\ releasing \in BOOLEAN
    /\ job \in [at : {"none", "worker", "loop"}, close : BOOLEAN]

\* A length in the headers is a number, and no body is longer than it said.
LengthKnown(req) ==
    "Content-Length" \in DOMAIN req.headers => req.headers["Content-Length"] \in Longs

BodyFits ==
    /\ LengthKnown(ctx.request)
    /\ ctx.recv \in {"LINE", "HEAD"} => ctx.request.body = <<>>
    /\ ctx.recv = "BODY" => Len(ctx.request.body) <= ContentLength(ctx.request)

ErrorsMarked == ctx.statu # 200 <=> ctx.recv = "ERROR"

\* The context is pending exactly while another thread has the request.
PendingIsDeferred ==
    /\ ctx.pending <=> job.at # "none"
    /\ ctx.pending => ctx.recv = "OVER" /\ ctx.request.route = "deferred"

IInv == Shape /\ BufferIsTheStream /\ BodyFits /\ ErrorsMarked /\ PendingIsDeferred

-----------------------------------------------------------------------------
(* Steps of the buffer                                                      *)

LEMMA StreamTypes ==
  ASSUME Shape
  PROVE  stream \in Seq(Units) /\ Len(stream) \in Nat
<1>1. stream \in Streams
  BY DEF Shape
<1>2. stream \in Seq(Units)
  BY <1>1, UnitsOfStreams
<1> QED BY <1>2

\* Len(stream) is what the two histories and the buffer account for.
LEMMA BufferSpan ==
  ASSUME Shape, BufferIsTheStream
  PROVE  /\ sent \in Nat /\ consumed \in Nat /\ consumed <= sent /\ sent <= Len(stream)
         /\ B!ReadableBytes(in) = sent - consumed
         /\ B!Content(in) \in Seq(Units) /\ Len(B!Content(in)) = sent - consumed
<1>1. /\ stream \in Seq(Units) /\ Len(stream) \in Nat /\ sent \in Nat /\ consumed \in Nat
      /\ consumed <= sent /\ sent <= Len(stream)
  BY StreamTypes DEF Shape
<1>2. Len(SubSeq(stream, consumed + 1, sent)) = sent - consumed
  BY <1>1, PartProperties
<1>3. /\ B!Content(in) \in Seq(Units) /\ B!ReadableBytes(in) = in.w - in.r
      /\ Len(B!Content(in)) = in.w - in.r
  BY ContentProperties DEF Shape
<1> QED BY <1>1, <1>2, <1>3 DEF BufferIsTheStream

LEMMA TakeStep ==
  ASSUME Shape, BufferIsTheStream, NEW n \in 0..B!ReadableBytes(in), Take(n),
         UNCHANGED <<stream, sent>>
  PROVE  B!WellFormed(in') /\ consumed' \in 0..sent' /\ BufferIsTheStream'
<1>1. /\ stream \in Seq(Units) /\ Len(stream) \in Nat /\ sent \in Nat /\ consumed \in Nat
      /\ consumed <= sent /\ sent <= Len(stream) /\ n \in 0..(sent - consumed)
      /\ Len(B!Content(in)) = sent - consumed
  BY StreamTypes, BufferSpan
<1>2. in' = B!MoveReadoffset(in, n) /\ consumed' = consumed + n
  BY DEF Take
<1>3. /\ B!WellFormed(in')
      /\ B!Content(in') = SubSeq(B!Content(in), n + 1, sent - consumed)
  BY <1>1, <1>2, ReadTakesFront DEF Shape
<1>4. consumed' \in 0..sent'
  BY <1>1, <1>2
<1>5. SubSeq(SubSeq(stream, consumed + 1, sent), n + 1, sent - consumed)
        = SubSeq(stream, (consumed + n) + 1, sent)
  <2> DEFINE rest == SubSeq(stream, consumed + 1, sent)
             size == sent - consumed
  <2>1. /\ rest \in Seq(Units) /\ Len(rest) = size
        /\ \A i \in 1..size : rest[i] = stream[consumed + i]
    BY <1>1, PartProperties
  <2>2. size \in Nat /\ n \in Nat /\ n <= size
    BY <1>1
  <2> HIDE DEF rest
  <2>3. /\ SubSeq(rest, n + 1, size) \in Seq(Units) /\ Len(SubSeq(rest, n + 1, size)) = size - n
        /\ \A i \in 1..(size - n) : SubSeq(rest, n + 1, size)[i] = rest[n + i]
    BY <2>1, <2>2, PartProperties
  <2> DEFINE part == SubSeq(stream, (consumed + n) + 1, sent)
  <2>4. /\ part \in Seq(Units) /\ Len(part) = size - n
        /\ \A i \in 1..(size - n) : part[i] = stream[(consumed + n) + i]
    <3>1. consumed + n \in Nat /\ consumed + n <= sent /\ sent - (consumed + n) = size - n
      BY <1>1
    <3> QED BY <1>1, <3>1, PartProperties
  <2> HIDE DEF part
  <2>5. ASSUME NEW i \in 1..(size - n)
        PROVE  SubSeq(rest, n + 1, size)[i] = part[i]
    <3>1. n + i \in 1..size /\ consumed + (n + i) = (consumed + n) + i
      BY <1>1, <2>2
    <3> QED BY <2>1, <2>3, <2>4, <3>1
  <2>6. SubSeq(rest, n + 1, size) = part
    BY <2>3, <2>4, <2>5, SameUnits
  <2> QED BY <2>6 DEF rest, part
<1> QED BY <1>2, <1>3, <1>4, <1>5 DEF BufferIsTheStream

-----------------------------------------------------------------------------
(* Steps of the context                                                     *)

LEMMA NewContextTypes ==
  /\ NewContext \in Contexts /\ NewRequest.body = <<>> /\ LengthKnown(NewRequest)
  /\ NewContext.statu = 200 /\ NewContext.recv = "LINE" /\ ~NewContext.pending
  /\ NewContext.request = NewRequest
<1>1. DOMAIN NewRequest.headers = {}
  BY DEF NewRequest
<1>2. <<>> \in Headers
  <2>1. <<>> \in [{} -> {"close", "keep-alive", "other"} \cup Longs]
    OBVIOUS
  <2>2. {} \in SUBSET Keys
    OBVIOUS
  <2> QED BY <2>1, <2>2 DEF Headers
<1>3. NewRequest \in Requests
  <2>1. <<>> \in Seq(Units)
    OBVIOUS
  <2> DEFINE none == <<>>
  <2>2. /\ NewRequest = [route |-> "none", version |-> "1.1", headers |-> none, body |-> none]
        /\ none \in Headers /\ none \in Seq(Units)
    BY <1>2, <2>1 DEF NewRequest
  <2> HIDE DEF none
  <2>3. "none" \in Routes \cup {"none"} /\ "1.1" \in {"1.0", "1.1"}
    OBVIOUS
  <2> QED BY <2>2, <2>3 DEF Requests
<1>4. NewContext \in Contexts
  BY <1>3 DEF NewContext, Contexts
<1> QED BY <1>1, <1>4 DEF NewContext, NewRequest, LengthKnown

\* The steps of OnMessage that leave the loop, and those of the loop's callers,
\* reset the context or leave it alone.
LEMMA ResetStep ==
  ASSUME Shape, BufferIsTheStream, ctx' = NewContext, UNCHANGED <<stream, sent>>,
         job'.at = "none", job' \in [at : {"none", "worker", "loop"}, close : BOOLEAN],
         status' \in Statuses, handling' \in BOOLEAN, releasing' \in BOOLEAN,
         \/ UNCHANGED <<consumed, in>>
         \/ Take(B!ReadableBytes(in))
  PROVE  IInv'
<1>1. B!WellFormed(in') /\ consumed' \in 0..sent' /\ BufferIsTheStream'
  <2>1. CASE UNCHANGED <<consumed, in>>
    BY <2>1 DEF Shape, BufferIsTheStream
  <2>2. CASE Take(B!ReadableBytes(in))
    <3>1. B!ReadableBytes(in) \in 0..B!ReadableBytes(in)
      BY ContentProperties DEF Shape
    <3> QED BY <2>2, <3>1, TakeStep
  <2> QED BY <2>1, <2>2
<1>2. Shape'
  BY <1>1, NewContextTypes DEF Shape
<1>3. BodyFits'
  BY NewContextTypes DEF BodyFits
<1>4. ErrorsMarked' /\ PendingIsDeferred'
  BY NewContextTypes DEF ErrorsMarked, PendingIsDeferred
<1> QED BY <1>1, <1>2, <1>3, <1>4 DEF IInv

LEMMA FailStep ==
  ASSUME IInv, NEW code \in {400, 414}, Fail(code), ~ctx.pending
  PROVE  ctx' \in Contexts /\ BodyFits' /\ ErrorsMarked' /\ (UNCHANGED job => PendingIsDeferred')
<1>1. ctx \in Contexts /\ ctx' = [ctx EXCEPT !.recv = "ERROR", !.statu = code]
  BY DEF IInv, Shape, Fail
<1>2. /\ ctx' = [statu |-> code, recv |-> "ERROR", request |-> ctx.request,
                  pending |-> ctx.pending]
      /\ ctx.request \in Requests /\ ctx.pending \in BOOLEAN
  BY <1>1 DEF Contexts
<1>3. /\ ctx' \in Contexts /\ ctx'.recv = "ERROR" /\ ctx'.statu # 200
      /\ ctx'.request = ctx.request /\ ctx'.pending = ctx.pending
  BY <1>2 DEF Contexts
<1> QED BY <1>3 DEF IInv, BodyFits, ErrorsMarked, PendingIsDeferred

\* A line parsed as the first one of a request.
LEMMA FirstLineStep ==
  ASSUME IInv, ctx.recv = "LINE", ~ctx.pending, UNCHANGED job,
         NEW line, Last(line) \in Units, ParseHttpLine(line)
  PROVE  ctx' \in Contexts /\ BodyFits' /\ ErrorsMarked' /\ PendingIsDeferred'
<1>1. CASE Last(line).kind # "line"
  BY <1>1, FailStep DEF ParseHttpLine
<1>2. CASE Last(line).kind = "line"
  <2>1. Last(line).route \in Routes /\ Last(line).version \in {"1.0", "1.1"}
    BY <1>2, UnitKinds
  <2>2. /\ ctx \in Contexts
        /\ ctx' = [ctx EXCEPT !.recv = "HEAD", !.request.route = Last(line).route,
                              !.request.version = Last(line).version]
    BY <1>2 DEF IInv, Shape, ParseHttpLine
  <2>3. /\ ctx'.recv = "HEAD" /\ ctx'.statu = ctx.statu /\ ctx'.pending = ctx.pending
        /\ ctx'.request = [ctx.request EXCEPT !.route = Last(line).route,
                                              !.version = Last(line).version]
        /\ ctx' = [statu |-> ctx.statu, recv |-> "HEAD", request |-> ctx'.request,
                   pending |-> ctx.pending]
    BY <2>2 DEF Contexts
  <2>4. /\ ctx'.request \in Requests /\ ctx'.request.headers = ctx.request.headers
        /\ ctx'.request.body = ctx.request.body
    BY <2>1, <2>2, <2>3 DEF Contexts, Requests
  <2>5. ctx' \in Contexts
    BY <2>2, <2>3, <2>4 DEF Contexts
  <2> QED BY <2>3, <2>4, <2>5 DEF IInv, BodyFits, LengthKnown, ErrorsMarked, PendingIsDeferred
<1> QED BY <1>1, <1>2

\* A header, or the line that ends them.
LEMMA HeaderLineStep ==
  ASSUME IInv, ctx.recv = "HEAD", ~ctx.pending, UNCHANGED job,
         NEW line, Last(line) \in Units, ParseHttpHead(line)
  PROVE  ctx' \in Contexts /\ BodyFits' /\ ErrorsMarked' /\ PendingIsDeferred'
<1> DEFINE unit == Last(line)
<1>1. ctx \in Contexts /\ ctx.request \in Requests /\ ctx.request.body = <<>>
  BY DEF IInv, Shape, BodyFits, Contexts
<1>2. CASE line = <<[kind |-> "blank"]>>
  <2>1. ctx' = [ctx EXCEPT !.recv = "BODY"]
    BY <1>2 DEF ParseHttpHead
  <2>2. /\ ctx' \in Contexts /\ ctx'.recv = "BODY" /\ ctx'.statu = ctx.statu
        /\ ctx'.pending = ctx.pending /\ ctx'.request = ctx.request
    BY <1>1, <2>1 DEF Contexts
  <2>3. Len(ctx.request.body) <= ContentLength(ctx.request)
    <3>1. Len(ctx.request.body) = 0
      BY <1>1
    <3>2. ContentLength(ctx.request) \in Nat
      BY SizeIsNatural DEF IInv, BodyFits, LengthKnown, ContentLength
    <3> QED BY <3>1, <3>2
  <2> QED BY <2>2, <2>3 DEF IInv, BodyFits, ErrorsMarked, PendingIsDeferred, ContentLength
<1>3. CASE line # <<[kind |-> "blank"]>> /\ unit.kind # "head"
  <2>1. Fail(400)
    BY <1>3 DEF ParseHttpHead
  <2> QED BY <2>1, FailStep
<1>4. CASE line # <<[kind |-> "blank"]>> /\ unit.kind = "head"
  <2> DEFINE old == ctx.request.headers
             value == ValueOf(unit)
             new == [key \in DOMAIN old \cup {unit.key} |->
                        IF key \in DOMAIN old THEN old[key] ELSE value]
             V == {"close", "keep-alive", "other"} \cup Longs
  <2>1. /\ unit.key \in Keys /\ value \in V
        /\ unit.key = "Content-Length" => value \in Longs
    BY <1>4, UnitKinds
  <2>2. ctx'.request = [ctx.request EXCEPT !.headers = new] /\ ctx' = [ctx EXCEPT !.request = ctx'.request]
    <3>1. ctx' = [ctx EXCEPT !.request = [ctx.request EXCEPT !.headers = new]]
      BY <1>1, <1>4 DEF ParseHttpHead, SetHeader, Contexts
    <3> HIDE DEF new
    <3> QED BY <1>1, <3>1 DEF Contexts
  <2> HIDE DEF unit, V, value
  <2>3. PICK K \in SUBSET Keys : old \in [K -> V]
    BY <1>1 DEF Requests, Headers, V
  <2>4. new \in Headers
    <3>1. DOMAIN old = K /\ K \cup {unit.key} \in SUBSET Keys
      BY <2>1, <2>3
    <3>2. new \in [K \cup {unit.key} -> V]
      BY <2>1, <2>3, <3>1
    <3> QED BY <3>1, <3>2 DEF Headers, V
  <2>5. "Content-Length" \in DOMAIN new => new["Content-Length"] \in Longs
    <3>1. "Content-Length" \in DOMAIN old => old["Content-Length"] \in Longs
      BY DEF IInv, BodyFits, LengthKnown
    <3> QED BY <2>1, <3>1
  <2> HIDE DEF new
  <2>6. /\ ctx'.request \in Requests /\ ctx'.request.headers = new
        /\ ctx'.request.body = ctx.request.body
    BY <1>1, <2>2, <2>4 DEF Requests
  <2>7. /\ ctx' = [statu |-> ctx.statu, recv |-> ctx.recv, request |-> ctx'.request,
                   pending |-> ctx.pending]
        /\ ctx'.recv = ctx.recv /\ ctx'.statu = ctx.statu /\ ctx'.pending = ctx.pending
    BY <1>1, <2>2 DEF Contexts
  <2>8. ctx' \in Contexts
    BY <1>1, <2>6, <2>7 DEF Contexts
  <2> QED BY <1>1, <2>5, <2>6, <2>7, <2>8 DEF IInv, BodyFits, LengthKnown, ErrorsMarked,
             PendingIsDeferred
<1> QED BY <1>2, <1>3, <1>4

\* What there is of the body is taken, never more than is missing.
LEMMA BodyStep ==
  ASSUME IInv, RecvHttpBody
  PROVE  IInv'
<1> DEFINE missing == ContentLength(ctx.request) - Len(ctx.request.body)
           n == IF B!ReadableBytes(in) >= missing THEN missing ELSE B!ReadableBytes(in)
           body == ctx.request.body \o B!ReadAsstring(in, n)
           recv == IF n = missing THEN "OVER" ELSE "BODY"
<1>1. /\ Shape /\ BufferIsTheStream /\ ctx.recv = "BODY"
      /\ ctx \in Contexts /\ ctx.request \in Requests /\ ctx.request.body \in Seq(Units)
  BY DEF IInv, Shape, RecvHttpBody, Contexts, Requests
<1>2. /\ Len(ctx.request.body) \in Nat /\ ContentLength(ctx.request) \in Nat
      /\ Len(ctx.request.body) <= ContentLength(ctx.request)
  BY <1>1, SizeIsNatural DEF IInv, BodyFits, LengthKnown, ContentLength
<1>3. /\ in.cells \in Seq(Units) /\ Len(in.cells) \in Nat /\ in.r \in Nat /\ in.w \in Nat
      /\ in.r <= in.w /\ in.w <= Len(in.cells)
      /\ B!ReadableBytes(in) = in.w - in.r /\ B!ReadableBytes(in) \in Nat
  BY <1>1, ContentProperties DEF Shape
<1>4. n \in 0..B!ReadableBytes(in) /\ n <= missing /\ n \in Nat /\ missing \in Nat
  BY <1>2, <1>3
<1>5. /\ ctx' = [ctx EXCEPT !.request.body = ctx.request.body \o B!ReadAsstring(in, n),
                            !.recv = recv]
      /\ Take(n) /\ handling' = (n = missing) /\ UNCHANGED <<stream, sent, status, releasing, job>>
  BY <1>1 DEF RecvHttpBody, Contexts, Requests
<1> HIDE DEF missing, n
<1>6. body \in Seq(Units) /\ Len(body) = Len(ctx.request.body) + n
  <2>1. in.r + n \in Nat /\ in.r <= in.r + n /\ in.r + n <= Len(in.cells) /\ (in.r + n) - in.r = n
    BY <1>3, <1>4
  <2>2. B!ReadAsstring(in, n) \in Seq(Units) /\ Len(B!ReadAsstring(in, n)) = n
    BY <1>3, <2>1, PartProperties DEF B!ReadAsstring
  <2>3. /\ body \in Seq(Units)
        /\ Len(body) = Len(ctx.request.body) + Len(B!ReadAsstring(in, n))
    BY <1>1, <2>2, ConcatProperties
  <2> QED BY <2>2, <2>3
<1> HIDE DEF recv
<1>7. /\ ctx'.request = [ctx.request EXCEPT !.body = body]
      /\ ctx' = [statu |-> ctx.statu, recv |-> recv, request |-> ctx'.request,
                 pending |-> ctx.pending]
      /\ ctx'.recv = recv /\ ctx'.statu = ctx.statu /\ ctx'.pending = ctx.pending
  <2> DEFINE req == [ctx.request EXCEPT !.body = body]
  <2>1. ctx' = [[ctx EXCEPT !.request = req] EXCEPT !.recv = recv]
    BY <1>1, <1>5 DEF Contexts
  <2> HIDE DEF req, body
  <2>2. ctx'.request = req
    BY <1>1, <2>1 DEF Contexts
  <2> QED BY <1>1, <2>1, <2>2 DEF Contexts, req
<1> HIDE DEF body
<1>8. /\ ctx'.request \in Requests /\ ctx'.request.body = body
      /\ ctx'.request.headers = ctx.request.headers
      /\ ctx'.request.route = ctx.request.route
  BY <1>1, <1>6, <1>7 DEF Requests
<1>9. recv \in {"OVER", "BODY"}
  BY DEF recv
<1>10. ctx' \in Contexts
  BY <1>1, <1>7, <1>8, <1>9 DEF Contexts
<1>11. B!WellFormed(in') /\ consumed' \in 0..sent' /\ BufferIsTheStream'
  BY <1>1, <1>4, <1>5, TakeStep
<1>12. handling' \in BOOLEAN
  BY <1>5
<1>13. Shape'
  BY <1>1, <1>5, <1>10, <1>11, <1>12 DEF Shape
<1>14. BodyFits'
  <2>1. LengthKnown(ctx'.request)
    BY <1>8 DEF IInv, BodyFits, LengthKnown
  <2>2. ContentLength(ctx'.request) = ContentLength(ctx.request)
    BY <1>8 DEF ContentLength
  <2>3. Len(ctx'.request.body) <= ContentLength(ctx'.request)
    BY <1>2, <1>4, <1>6, <1>8, <2>2 DEF missing
  <2> QED BY <1>7, <1>9, <2>1, <2>3 DEF BodyFits
<1>15. ErrorsMarked'
  BY <1>1, <1>7, <1>9 DEF IInv, ErrorsMarked
<1>16. PendingIsDeferred'
  BY <1>1, <1>5, <1>7 DEF IInv, PendingIsDeferred
<1> QED BY <1>11, <1>13, <1>14, <1>15, <1>16 DEF IInv

\* Data of the peer go behind what the buffer holds.
LEMMA ReadStep ==
  ASSUME IInv, HandleRead
  PROVE  IInv'
<1>1. PICK n \in 1..MaxRecv :
        /\ sent + n <= Len(stream)
        /\ in' = B!WriteAndpush(in, SubSeq(stream, sent + 1, sent + n))
        /\ sent' = sent + n
  BY DEF HandleRead
<1>2. /\ handling' = TRUE /\ UNCHANGED <<stream, consumed, ctx, status, releasing, job>>
      /\ Shape /\ BufferIsTheStream
  BY DEF HandleRead, IInv
<1>3. /\ stream \in Seq(Units) /\ Len(stream) \in Nat /\ sent \in Nat /\ consumed \in Nat
      /\ consumed <= sent
  BY <1>2, StreamTypes, BufferSpan
<1>4. n \in Nat /\ sent + n \in Nat
  BY <1>3, HttpAssumption
<1> DEFINE first == SubSeq(stream, consumed + 1, sent)
           data == SubSeq(stream, sent + 1, sent + n)
           whole == SubSeq(stream, consumed + 1, sent + n)
<1>5. /\ first \in Seq(Units) /\ Len(first) = sent - consumed
      /\ \A i \in 1..(sent - consumed) : first[i] = stream[consumed + i]
  BY <1>1, <1>3, <1>4, PartProperties
<1>6. /\ data \in Seq(Units) /\ Len(data) = n
      /\ \A i \in 1..n : data[i] = stream[sent + i]
  <2>1. sent <= sent + n /\ (sent + n) - sent = n
    BY <1>3, <1>4
  <2> QED BY <1>1, <1>3, <1>4, <2>1, PartProperties
<1>7. /\ whole \in Seq(Units) /\ Len(whole) = sent + n - consumed
      /\ \A i \in 1..(sent + n - consumed) : whole[i] = stream[consumed + i]
  <2>1. PICK last : last = sent + n
    OBVIOUS
  <2>2. last \in Nat /\ consumed <= last /\ last <= Len(stream)
    BY <1>1, <1>3, <1>4, <2>1
  <2>3. /\ SubSeq(stream, consumed + 1, last) \in Seq(Units)
        /\ Len(SubSeq(stream, consumed + 1, last)) = last - consumed
        /\ \A i \in 1..(last - consumed) :
               SubSeq(stream, consumed + 1, last)[i] = stream[consumed + i]
    BY <1>3, <2>2, PartProperties
  <2>4. whole = SubSeq(stream, consumed + 1, last)
    BY <2>1
  <2> HIDE DEF whole
  <2>5. last - consumed = sent + n - consumed
    BY <1>3, <1>4, <2>1, <2>2
  <2> QED BY <2>3, <2>4, <2>5
<1>8. B!WellFormed(in') /\ B!Content(in') = B!Content(in) \o data
  BY <1>1, <1>2, <1>6, WriteAppends DEF Shape
<1>9. B!Content(in) = first
  BY <1>2 DEF BufferIsTheStream
<1> HIDE DEF first, data, whole
<1>10. first \o data = whole
  <2> DEFINE both == first \o data
             size == sent - consumed
  <2>1. size \in Nat /\ sent + n - consumed = size + n /\ consumed + size = sent
    BY <1>3, <1>4
  <2>2. /\ both \in Seq(Units) /\ Len(both) = size + n
        /\ \A i \in 1..(size + n) : both[i] = IF i <= size THEN first[i] ELSE data[i - size]
    <3>1. /\ both \in Seq(Units) /\ Len(both) = Len(first) + Len(data)
          /\ \A i \in 1..(Len(first) + Len(data)) : both[i] =
                 IF i <= Len(first) THEN first[i] ELSE data[i - Len(first)]
      BY <1>5, <1>6, ConcatProperties
    <3> HIDE DEF both, size
    <3> QED BY <1>5, <1>6, <3>1 DEF size
  <2> HIDE DEF both
  <2>3. ASSUME NEW i \in 1..(size + n)
        PROVE  both[i] = whole[i]
    <3>1. CASE i <= size
      <4>1. i \in 1..size
        BY <2>1, <3>1
      <4> QED BY <1>5, <1>7, <2>1, <2>2, <3>1, <4>1
    <3>2. CASE i > size
      <4>1. i - size \in 1..n /\ sent + (i - size) = consumed + i
        BY <1>3, <1>4, <2>1, <3>2
      <4>2. both[i] = data[i - size]
        BY <2>1, <2>2, <3>2
      <4> QED BY <1>6, <1>7, <2>1, <4>1, <4>2
    <3> QED BY <2>1, <3>1, <3>2
  <2>4. both = whole
    BY <1>7, <2>1, <2>2, <2>3, SameUnits
  <2> QED BY <2>4 DEF both
<1>11. BufferIsTheStream'
  BY <1>1, <1>2, <1>8, <1>9, <1>10 DEF BufferIsTheStream, whole
<1>12. sent' \in 0..Len(stream') /\ consumed' \in 0..sent'
  BY <1>1, <1>2, <1>3, <1>4
<1>13. Shape'
  BY <1>2, <1>8, <1>12 DEF Shape
<1> QED BY <1>2, <1>11, <1>13 DEF IInv, BodyFits, ErrorsMarked, PendingIsDeferred

\* Without a whole line nothing is taken; a line is taken before it is parsed.
LEMMA LineStep ==
  ASSUME IInv, RecvLine
  PROVE  IInv'
<1> DEFINE line == B!GetLine(in, LineEnds)
<1>1. /\ Shape /\ BufferIsTheStream /\ ~ctx.pending /\ ctx.recv \in {"LINE", "HEAD"}
      /\ UNCHANGED <<stream, sent, status, releasing, job>>
  BY DEF IInv, RecvLine
<1>2. /\ Len(line) \in 0..B!ReadableBytes(in) /\ line \in Seq(Units)
      /\ line # <<>> => Last(line) \in Units
  BY <1>1, LineProperties DEF Shape
<1>3. IF line = <<>>
      THEN IF B!ReadableBytes(in) > MaxLine
           THEN Fail(414) /\ UNCHANGED <<consumed, in, handling>>
           ELSE Stop
      ELSE /\ Take(Len(line)) /\ UNCHANGED handling
           /\ IF Len(line) > MaxLine THEN Fail(414)
              ELSE IF ctx.recv = "LINE" THEN ParseHttpLine(line) ELSE ParseHttpHead(line)
  BY DEF RecvLine
<1> HIDE DEF line
<1>4. CASE line = <<>> /\ UNCHANGED <<consumed, in, handling>> /\ Fail(414)
  <2>1. ctx' \in Contexts /\ BodyFits' /\ ErrorsMarked' /\ PendingIsDeferred'
    BY <1>1, <1>4, FailStep
  <2> QED BY <1>1, <1>4, <2>1 DEF IInv, Shape, BufferIsTheStream
<1>5. CASE line = <<>> /\ Stop
  BY <1>1, <1>5 DEF IInv, Stop, Shape, BufferIsTheStream, BodyFits, ErrorsMarked,
     PendingIsDeferred
<1>6. CASE line # <<>>
  <2>1. Take(Len(line)) /\ UNCHANGED handling
    BY <1>3, <1>6
  <2>2. B!WellFormed(in') /\ consumed' \in 0..sent' /\ BufferIsTheStream'
    BY <1>1, <1>2, <2>1, TakeStep
  <2>3. ctx' \in Contexts /\ BodyFits' /\ ErrorsMarked' /\ PendingIsDeferred'
    <3>1. CASE Fail(414)
      BY <1>1, <3>1, FailStep
    <3>2. CASE ctx.recv = "LINE" /\ ParseHttpLine(line)
      BY <1>1, <1>2, <1>6, <3>2, FirstLineStep
    <3>3. CASE ctx.recv = "HEAD" /\ ParseHttpHead(line)
      BY <1>1, <1>2, <1>6, <3>3, HeaderLineStep
    <3> QED BY <1>1, <1>3, <1>6, <3>1, <3>2, <3>3
  <2> QED BY <1>1, <2>1, <2>2, <2>3 DEF IInv, Shape
<1> QED BY <1>3, <1>4, <1>5, <1>6

\* A request is handed to another thread with its context marked.
LEMMA DeferStep ==
  ASSUME IInv, DeferRequest
  PROVE  IInv'
<1>1. /\ ctx' = [ctx EXCEPT !.pending = TRUE] /\ handling' = FALSE
      /\ job' = [at |-> "worker", close |-> IsClose(ctx.request)]
      /\ UNCHANGED <<stream, sent, consumed, in, status, releasing>>
      /\ ctx.recv = "OVER" /\ ctx.request.route = "deferred"
  BY DEF DeferRequest
<1>2. ctx \in Contexts
  BY DEF IInv, Shape
<1>3. /\ ctx' \in Contexts /\ ctx'.pending = TRUE /\ ctx'.recv = ctx.recv
      /\ ctx'.statu = ctx.statu /\ ctx'.request = ctx.request
  BY <1>1, <1>2 DEF Contexts
<1>4. IsClose(ctx.request) \in BOOLEAN
  BY DEF IsClose
<1>5. job' \in [at : {"none", "worker", "loop"}, close : BOOLEAN] /\ job'.at = "worker"
  BY <1>1, <1>4
<1>6. Shape' /\ BufferIsTheStream'
  BY <1>1, <1>3, <1>5 DEF IInv, Shape, BufferIsTheStream
<1>7. BodyFits' /\ ErrorsMarked' /\ PendingIsDeferred'
  BY <1>1, <1>3, <1>5 DEF IInv, BodyFits, ErrorsMarked, PendingIsDeferred
<1> QED BY <1>6, <1>7 DEF IInv

\* Half-closing the connection leaves buffer and context alone.
LEMMA ShutdownTypes ==
  ASSUME Shape, Shutdown(in)
  PROVE  status' \in Statuses /\ handling' \in BOOLEAN
<1>1. CASE status = "CONNECTED"
  <2>1. status' = "DISCONNECTING" /\ handling' = (B!ReadableBytes(in) > 0)
    BY <1>1 DEF Shutdown
  <2>2. (B!ReadableBytes(in) > 0) \in BOOLEAN
    OBVIOUS
  <2> QED BY <2>1, <2>2 DEF Statuses
<1>2. CASE status # "CONNECTED"
  BY <1>2 DEF Shape, Shutdown
<1> QED BY <1>1, <1>2

-----------------------------------------------------------------------------
(* The invariant and the theorem                                            *)

LEMMA InitInv == Init => IInv
<1> SUFFICES ASSUME Init PROVE IInv
  OBVIOUS
<1>1. /\ stream \in Streams /\ sent = 0 /\ consumed = 0 /\ in = B!NewBuffer(BufferSize)
      /\ ctx = NewContext /\ status = "CONNECTED" /\ handling = FALSE /\ job = NoJob
      /\ releasing = FALSE
  BY DEF Init
<1>2. stream \in Seq(Units) /\ Len(stream) \in Nat
  BY <1>1, UnitsOfStreams
<1>3. B!WellFormed(in) /\ in.r = 0 /\ in.w = 0
  <2> DEFINE cells == [i \in 1..BufferSize |-> Nothing]
  <2>1. BufferSize \in Nat /\ Nothing \in Units
    BY HttpAssumption DEF Units
  <2>2. cells \in Seq(Units) /\ Len(cells) = BufferSize
    BY <2>1, SeqDef
  <2>3. in = [cells |-> cells, r |-> 0, w |-> 0]
    BY <1>1 DEF B!NewBuffer
  <2> HIDE DEF cells
  <2>4. in.r = 0 /\ in.w = 0 /\ in.cells = cells /\ in \in B!ByteBuffers
    BY <2>2, <2>3 DEF B!ByteBuffers
  <2> QED BY <2>1, <2>2, <2>4 DEF B!WellFormed
<1>4. Shape
  <2>1. sent \in 0..Len(stream) /\ consumed \in 0..sent
    BY <1>1, <1>2
  <2>2. job \in [at : {"none", "worker", "loop"}, close : BOOLEAN]
    BY <1>1 DEF NoJob
  <2> QED BY <1>1, <1>3, <2>1, <2>2, NewContextTypes DEF Shape, Statuses
<1>5. BufferIsTheStream
  <2>1. B!Content(in) \in Seq(Units) /\ Len(B!Content(in)) = 0
    BY <1>3, ContentProperties
  <2>2. /\ SubSeq(stream, consumed + 1, sent) \in Seq(Units)
        /\ Len(SubSeq(stream, consumed + 1, sent)) = 0
    BY <1>1, <1>2, PartProperties
  <2> QED BY <2>1, <2>2, EmptySeq DEF BufferIsTheStream
<1>6. BodyFits /\ ErrorsMarked /\ PendingIsDeferred
  BY <1>1, NewContextTypes DEF BodyFits, ErrorsMarked, PendingIsDeferred, NoJob
<1> QED BY <1>4, <1>5, <1>6 DEF IInv

LEMMA Inductive ==
  ASSUME IInv, [Next]_vars
  PROVE  IInv'
<1>1. Shape /\ BufferIsTheStream
  BY DEF IInv
<1>2. CASE HandleRead
  BY <1>2, ReadStep
<1>3. CASE PeerCloses
  <2>1. UNCHANGED <<stream, sent, consumed, in, ctx, releasing, job>> /\ Shutdown(in)
    BY <1>3 DEF PeerCloses
  <2>2. status' \in Statuses /\ handling' \in BOOLEAN
    BY <1>1, <2>1, ShutdownTypes
  <2> QED BY <2>1, <2>2 DEF IInv, Shape, BufferIsTheStream, BodyFits, ErrorsMarked,
             PendingIsDeferred
<1>4. CASE WorkerPosts
  <2>1. /\ job.at = "worker" /\ job' = [job EXCEPT !.at = "loop"]
        /\ UNCHANGED <<stream, sent, consumed, in, ctx, status, releasing, handling>>
    BY <1>4 DEF WorkerPosts
  <2>2. job' \in [at : {"none", "worker", "loop"}, close : BOOLEAN] /\ job'.at = "loop"
    BY <1>1, <2>1 DEF Shape
  <2> QED BY <2>1, <2>2 DEF IInv, Shape, BufferIsTheStream, BodyFits, ErrorsMarked,
             PendingIsDeferred
<1>5. CASE Answer
  <2>1. /\ ctx' = NewContext /\ job' = NoJob /\ UNCHANGED <<stream, sent, consumed, in, releasing>>
        /\ Shutdown(in) \/ UNCHANGED <<status, handling>>
    BY <1>5 DEF Answer
  <2>2. status' \in Statuses /\ handling' \in BOOLEAN
    BY <1>1, <2>1, ShutdownTypes DEF Shape
  <2>3. job'.at = "none" /\ job' \in [at : {"none", "worker", "loop"}, close : BOOLEAN]
    BY <2>1 DEF NoJob
  <2> QED BY <1>1, <2>1, <2>2, <2>3, ResetStep DEF Shape
<1>6. CASE Pause
  BY <1>6 DEF Pause, Stop, IInv, Shape, BufferIsTheStream, BodyFits, ErrorsMarked,
     PendingIsDeferred
<1>7. CASE RecvLine
  BY <1>7, LineStep
<1>8. CASE RecvHttpBody
  BY <1>8, BodyStep
<1>9. CASE HandleError
  <2>1. /\ ctx' = NewContext /\ Take(B!ReadableBytes(in)) /\ UNCHANGED <<stream, sent, releasing, job>>
        /\ status' = (IF status = "CONNECTED" THEN "DISCONNECTING" ELSE status)
        /\ handling' = FALSE /\ ctx.statu >= 400
    BY <1>9 DEF HandleError
  <2>2. job.at = "none"
    BY <2>1 DEF IInv, ErrorsMarked, PendingIsDeferred, Shape
  <2>3. status' \in Statuses
    BY <1>1, <2>1 DEF Shape, Statuses
  <2> QED BY <1>1, <2>1, <2>2, <2>3, ResetStep DEF Shape
<1>10. CASE HandleRequest
  <2>1. /\ ctx' = NewContext /\ UNCHANGED <<stream, sent, consumed, in, releasing, job>> /\ ~ctx.pending
        /\ Shutdown(in) \/ UNCHANGED <<status, handling>>
    BY <1>10 DEF HandleRequest
  <2>2. status' \in Statuses /\ handling' \in BOOLEAN
    BY <1>1, <2>1, ShutdownTypes DEF Shape
  <2>3. job.at = "none"
    BY <2>1 DEF IInv, PendingIsDeferred
  <2> QED BY <1>1, <2>1, <2>2, <2>3, ResetStep DEF Shape
<1>11. CASE DeferRequest
  BY <1>11, DeferStep
<1>12. CASE UNCHANGED vars
  BY <1>12 DEF vars, IInv, Shape, BufferIsTheStream, BodyFits, ErrorsMarked,
     PendingIsDeferred
<1>13. ASSUME UNCHANGED <<stream, sent, consumed, in, ctx, job>>,
              status' \in Statuses, handling' \in BOOLEAN, releasing' \in BOOLEAN
       PROVE  IInv'
  BY <1>13 DEF IInv, Shape, BufferIsTheStream, BodyFits, ErrorsMarked, PendingIsDeferred
<1>14. CASE HandleClose
  <2>1. /\ UNCHANGED <<stream, sent, consumed, in, ctx, status, job>> /\ releasing' = TRUE
        /\ handling' = (B!ReadableBytes(in) > 0)
    BY <1>14 DEF HandleClose
  <2>2. (B!ReadableBytes(in) > 0) \in BOOLEAN
    OBVIOUS
  <2> QED BY <1>1, <1>13, <2>1, <2>2 DEF Shape
<1>15. CASE ReleaseInLoop
  <2>1. /\ UNCHANGED <<stream, sent, consumed, in, ctx, releasing, handling, job>>
        /\ status' = "DISCONNECTED"
    BY <1>15 DEF ReleaseInLoop
  <2> QED BY <1>1, <1>13, <2>1 DEF Shape, Statuses
<1>16. CASE ContentLengthThrows
  <2>1. /\ UNCHANGED <<stream, sent, consumed, in, ctx, releasing, handling, job>>
        /\ status' = "TERMINATED"
    BY <1>16 DEF ContentLengthThrows
  <2> QED BY <1>1, <1>13, <2>1 DEF Shape, Statuses
<1> QED BY <1>2, <1>3, <1>4, <1>5, <1>6, <1>7, <1>8, <1>9, <1>10, <1>11, <1>12, <1>14,
           <1>15, <1>16 DEF Next, OnMessage, Done

LEMMA InvariantKept ==
  ASSUME IInv
  PROVE  HttpInv
<1>1. ctx \in Contexts /\ ctx.request \in Requests
  BY DEF IInv, Shape, Contexts
<1>2. TypeOK
  BY <1>1 DEF IInv, Shape, Statuses, ErrorsMarked, TypeOK, Contexts, Requests
<1>3. PendingGuardsContext
  BY DEF IInv, PendingIsDeferred, PendingGuardsContext
<1> QED BY <1>2, <1>3 DEF IInv, HttpInv

\* Whatever is sent in whatever pieces, and whenever the peer leaves: the buffer
\* holds exactly the part of the stream that has arrived and has not been taken
\* (Buffer.cc), and while another thread works on an answer the context keeps
\* the request it is for (HttpServer::OnMessage).
THEOREM BufferAndContextAgree == Spec => []HttpInv
<1>1. Init => IInv
  BY InitInv
<1>2. IInv /\ [Next]_vars => IInv'
  BY Inductive
<1>3. IInv => HttpInv
  BY InvariantKept
<1> QED BY <1>1, <1>2, <1>3, PTL DEF Spec

-----------------------------------------------------------------------------
(* What a whole stream is answered with                                     *)

LEMMA LineEndProperties ==
  ASSUME NEW s \in Seq(Units), NEW i \in Nat \ {0}
  PROVE  /\ LineEnd(s, i) \in Nat
         /\ LineEnd(s, i) = 0 => \A j \in i..Len(s) : ~EndsLine(s[j])
         /\ LineEnd(s, i) # 0 =>
               /\ LineEnd(s, i) \in i..Len(s) /\ EndsLine(s[LineEnd(s, i)])
               /\ \A j \in i..(LineEnd(s, i) - 1) : ~EndsLine(s[j])
<1> DEFINE ends == {j \in i..Len(s) : EndsLine(s[j])}
<1>1. LineEnd(s, i) = IF ends = {} THEN 0 ELSE Min(ends)
  BY DEF LineEnd
<1>2. ends \in SUBSET Nat /\ ends \subseteq i..Len(s) /\ Len(s) \in Nat
  OBVIOUS
<1>3. CASE ends = {}
  BY <1>1, <1>3
<1>4. CASE ends # {}
  <2>1. Min(ends) \in ends /\ \A j \in ends : Min(ends) <= j
    <3> HIDE DEF ends
    <3> QED BY <1>2, <1>4, MinIsThere
  <2>2. PICK k : k = Min(ends)
    OBVIOUS
  <2>3. LineEnd(s, i) = k /\ k \in i..Len(s) /\ EndsLine(s[k]) /\ k # 0
    BY <1>1, <1>4, <2>1, <2>2
  <2>4. ASSUME NEW j \in i..(k - 1) PROVE ~EndsLine(s[j])
    <3>1. j \in i..Len(s) /\ ~(k <= j)
      BY <1>2, <2>3
    <3>2. j \notin ends
      BY <2>1, <2>2, <3>1
    <3> QED BY <3>1, <3>2
  <2> QED BY <1>2, <2>3, <2>4
<1> QED BY <1>3, <1>4

LEMMA LineEndIs ==
  ASSUME NEW s \in Seq(Units), NEW i \in Nat \ {0}, NEW k \in i..Len(s), EndsLine(s[k]),
         \A j \in i..(k - 1) : ~EndsLine(s[j])
  PROVE  LineEnd(s, i) = k
<1>1. /\ LineEnd(s, i) \in Nat
      /\ LineEnd(s, i) = 0 => \A j \in i..Len(s) : ~EndsLine(s[j])
      /\ LineEnd(s, i) # 0 =>
               /\ LineEnd(s, i) \in i..Len(s) /\ EndsLine(s[LineEnd(s, i)])
               /\ \A j \in i..(LineEnd(s, i) - 1) : ~EndsLine(s[j])
  BY LineEndProperties
<1> QED BY <1>1

\* Only complete lines are read, and only headers are read over.
LEMMA VerdictProperties ==
  ASSUME NEW s \in Seq(Units), NEW i \in Nat \ {0}
  PROVE  /\ Verdict(s, i) \in {0, 1, 2, 400, 414}
         /\ Verdict(s, i) \in {0, 2, 400} => LineEnd(s, i) \in i..Len(s)
         /\ Verdict(s, i) = 0 => s[LineEnd(s, i)].kind = "head"
         /\ Verdict(s, i) = 2 => LineEnd(s, i) = i
BY LineEndProperties DEF Verdict

LEMMA LineStartsTypes ==
  ASSUME NEW s \in Seq(Units), NEW first \in 1..(Len(s) + 1)
  PROVE  /\ LineStarts(s, first) \in SUBSET (Nat \ {0}) /\ first \in LineStarts(s, first)
         /\ \A p \in LineStarts(s, first) : first <= p /\ p <= Len(s) + 1
         /\ \A p \in LineStarts(s, first) :
               LineEnd(s, p) # 0 => LineEnd(s, p) + 1 \in LineStarts(s, first)
<1>1. Len(s) \in Nat
  OBVIOUS
<1>2. ASSUME NEW p \in LineStarts(s, first), LineEnd(s, p) # 0
      PROVE  LineEnd(s, p) + 1 \in LineStarts(s, first)
  <2>1. p \in Nat \ {0} /\ first <= p
    BY <1>1, <1>2 DEF LineStarts
  <2>2. LineEnd(s, p) \in p..Len(s) /\ EndsLine(s[LineEnd(s, p)])
    BY <1>2, <2>1, LineEndProperties
  <2>3. (LineEnd(s, p) + 1) - 1 = LineEnd(s, p) /\ LineEnd(s, p) + 1 \in first..(Len(s) + 1)
    BY <1>1, <2>1, <2>2
  <2> QED BY <2>2, <2>3 DEF LineStarts
<1> QED BY <1>1, <1>2 DEF LineStarts

LEMMA HeadEndIs ==
  ASSUME NEW s \in Seq(Units), NEW first \in 1..(Len(s) + 1), NEW q \in LineStarts(s, first),
         Verdict(s, q) # 0, \A p \in LineStarts(s, first) : p < q => Verdict(s, p) = 0
  PROVE  HeadEnd(s, first) = q
<1> DEFINE T == {p \in LineStarts(s, first) : Verdict(s, p) # 0}
<1>1. T \in SUBSET Nat /\ q \in T
  BY LineStartsTypes
<1>2. \A p \in T : p \in Nat /\ ~(p < q)
  BY <1>1
<1>3. \A p \in T : q <= p
  BY <1>1, <1>2
<1> HIDE DEF T
<1>4. Min(T) = q
  BY <1>1, <1>3, MinIs
<1> QED BY <1>4 DEF HeadEnd, T

\* The last line is not complete, so there is an end to the headers.
LEMMA HeadEndProperties ==
  ASSUME NEW s \in Seq(Units), NEW first \in 1..(Len(s) + 1)
  PROVE  /\ HeadEnd(s, first) \in LineStarts(s, first) /\ Verdict(s, HeadEnd(s, first)) # 0
         /\ \A p \in LineStarts(s, first) : p < HeadEnd(s, first) => Verdict(s, p) = 0
<1> DEFINE T == {p \in LineStarts(s, first) : Verdict(s, p) # 0}
           n == Len(s)
<1>1. n \in Nat
  OBVIOUS
<1>2. T # {}
  <2> SUFFICES ASSUME T = {} PROVE FALSE
    OBVIOUS
  <2>1. \A p \in LineStarts(s, first) : Verdict(s, p) = 0
    OBVIOUS
  <2> DEFINE left == {n + 1 - p : p \in LineStarts(s, first)}
  <2>2. left \in SUBSET Nat /\ left # {}
    BY <1>1, LineStartsTypes
  <2> HIDE DEF left
  <2>3. PICK x \in left : \A y \in left : x <= y
    BY <2>2, MinIsThere
  <2>4. PICK p \in LineStarts(s, first) : x = n + 1 - p
    BY <2>3 DEF left
  <2>5. p \in Nat \ {0} /\ p <= n + 1
    BY LineStartsTypes
  <2>6. LineEnd(s, p) \in p..n
    BY <2>1, <2>5, VerdictProperties
  <2>7. LineEnd(s, p) # 0
    BY <2>5, <2>6
  <2>8. LineEnd(s, p) + 1 \in LineStarts(s, first)
    BY <2>7, LineStartsTypes
  <2>9. n + 1 - (LineEnd(s, p) + 1) \in left
    BY <2>8 DEF left
  <2> QED BY <1>1, <2>3, <2>4, <2>5, <2>6, <2>9
<1>3. T \in SUBSET Nat
  BY LineStartsTypes
<1>4. Min(T) \in T /\ \A p \in T : Min(T) <= p
  <2> HIDE DEF T
  <2> QED BY <1>2, <1>3, MinIsThere
<1>5. HeadEnd(s, first) = Min(T)
  BY DEF HeadEnd
<1>6. ASSUME NEW p \in LineStarts(s, first), p < Min(T) PROVE Verdict(s, p) = 0
  <2>1. p \in Nat /\ Min(T) \in Nat
    BY <1>3, <1>4, LineStartsTypes
  <2>2. p \notin T
    BY <1>4, <1>6, <2>1
  <2> QED BY <2>2
<1> QED BY <1>4, <1>5, <1>6

\* The lengths among headers that were read are numbers.
LEMMA LengthsProperties ==
  ASSUME NEW s \in Seq(Units), NEW first \in 1..(Len(s) + 1), NEW q \in LineStarts(s, first),
         \A p \in LineStarts(s, first) : p < q => Verdict(s, p) = 0
  PROVE  /\ Lengths(s, first, q) \in SUBSET Nat /\ BodySize(s, first, q) \in Nat
         /\ Lengths(s, first, q) # {} =>
               /\ Min(Lengths(s, first, q)) \in Lengths(s, first, q)
               /\ \A p \in Lengths(s, first, q) : Min(Lengths(s, first, q)) <= p
               /\ BodySize(s, first, q) = Size(s[LineEnd(s, Min(Lengths(s, first, q)))].len)
<1> DEFINE L == Lengths(s, first, q)
<1>1. L \in SUBSET Nat
  BY LineStartsTypes DEF Lengths
<1>2. CASE L = {}
  BY <1>1, <1>2 DEF BodySize
<1>3. CASE L # {}
  <2> HIDE DEF L
  <2>1. Min(L) \in L /\ \A p \in L : Min(L) <= p
    BY <1>1, <1>3, MinIsThere
  <2>2. PICK p : p = Min(L)
    OBVIOUS
  <2>3. /\ p \in LineStarts(s, first) /\ p < q /\ s[LineEnd(s, p)].key = "Content-Length"
    BY <2>1, <2>2 DEF L, Lengths
  <2>4. Verdict(s, p) = 0 /\ p \in Nat \ {0}
    BY <2>3, LineStartsTypes
  <2>5. LineEnd(s, p) \in p..Len(s) /\ s[LineEnd(s, p)].kind = "head"
    BY <2>4, VerdictProperties
  <2>6. LineEnd(s, p) \in 1..Len(s)
    BY <2>4, <2>5
  <2>7. s[LineEnd(s, p)] \in Units
    BY <2>6, ElementOfSeq
  <2>8. Size(s[LineEnd(s, p)].len) \in Nat
    BY <2>3, <2>5, <2>7, UnitKinds, SizeIsNatural
  <2>9. BodySize(s, first, q) = Size(s[LineEnd(s, p)].len)
    BY <1>3, <2>2 DEF BodySize, L
  <2> QED BY <1>1, <2>1, <2>2, <2>8, <2>9 DEF L
<1> QED BY <1>2, <1>3

-----------------------------------------------------------------------------
(* The reference is defined by its recursion                                *)

IsFrom(f, s) == f = [i \in 1..(Len(s) + 1) |-> CodesFrom(s, f, i)]

\* Where the next request begins.
NextStart(s, first) == HeadEnd(s, first) + BodySize(s, first, HeadEnd(s, first)) + 1

LEMMA NextIsLater ==
  ASSUME NEW s \in Seq(Units), NEW i \in 1..(Len(s) + 1), LineEnd(s, i) # 0
  PROVE  /\ LineEnd(s, i) \in i..Len(s) /\ LineEnd(s, i) + 1 \in 1..(Len(s) + 1)
         /\ HeadEnd(s, LineEnd(s, i) + 1) \in Nat \ {0}
         /\ NextStart(s, LineEnd(s, i) + 1) \in Nat /\ NextStart(s, LineEnd(s, i) + 1) > i
<1> DEFINE first == LineEnd(s, i) + 1
           last == HeadEnd(s, first)
           size == BodySize(s, first, last)
<1>1. i \in Nat \ {0} /\ Len(s) \in Nat
  OBVIOUS
<1>2. LineEnd(s, i) \in i..Len(s) /\ first \in 1..(Len(s) + 1) /\ first > i
  <2>1. LineEnd(s, i) \in i..Len(s)
    BY <1>1, LineEndProperties
  <2> QED BY <1>1, <2>1
<1> HIDE DEF first
<1>3. /\ last \in LineStarts(s, first)
      /\ \A p \in LineStarts(s, first) : p < last => Verdict(s, p) = 0
  BY <1>2, HeadEndProperties
<1>4. last \in Nat \ {0} /\ first <= last
  BY <1>2, <1>3, LineStartsTypes
<1>5. size \in Nat
  BY <1>2, <1>3, LengthsProperties
<1> HIDE DEF last, size
<1>6. last + size + 1 \in Nat /\ last + size + 1 > i
  BY <1>1, <1>2, <1>4, <1>5
<1> QED BY <1>2, <1>4, <1>6 DEF NextStart, first, last, size

LEMMA LooksOnlyAhead ==
  ASSUME NEW s \in Seq(Units), NEW i \in 1..(Len(s) + 1), NEW f, NEW g,
         \A j \in (i + 1)..(Len(s) + 1) : f[j] = g[j]
  PROVE  CodesFrom(s, f, i) = CodesFrom(s, g, i)
<1>1. CASE LineEnd(s, i) = 0
  BY <1>1 DEF CodesFrom
<1>2. CASE LineEnd(s, i) # 0
  <2> DEFINE next == NextStart(s, LineEnd(s, i) + 1)
  <2>1. next \in Nat /\ next > i
    BY <1>2, NextIsLater
  <2>2. CASE next > Len(s) + 1
    BY <2>2 DEF CodesFrom, NextStart
  <2>3. CASE ~(next > Len(s) + 1)
    <3>1. next \in (i + 1)..(Len(s) + 1)
      BY <2>1, <2>3
    <3>2. f[next] = g[next]
      BY <3>1
    <3> QED BY <3>2 DEF CodesFrom, NextStart
  <2> QED BY <2>2, <2>3
<1> QED BY <1>1, <1>2

LEMMA FromExists ==
  ASSUME NEW s \in Seq(Units) PROVE \E f : IsFrom(f, s)
<1> DEFINE n == Len(s)
           To(f, k) == f = [i \in (n + 2 - k)..(n + 1) |-> CodesFrom(s, f, i)]
           T == {k \in Nat : k <= n + 1 /\ ~\E f : To(f, k)}
<1>1. n \in Nat
  OBVIOUS
<1>2. ASSUME T # {} PROVE FALSE
  <2>1. T \in SUBSET Nat
    OBVIOUS
  <2>2. PICK m \in T : \A y \in T : m <= y
    <3> HIDE DEF T
    <3> QED BY <1>2, <2>1, MinIsThere
  <2>3. m \in Nat /\ m <= n + 1 /\ ~\E f : To(f, m)
    BY <2>2
  <2>4. CASE m = 0
    <3> DEFINE f == [i \in (n + 2)..(n + 1) |-> <<>>]
    <3>1. (n + 2 - 0)..(n + 1) = {}
      BY <1>1
    <3>2. (n + 2)..(n + 1) = {}
      BY <1>1
    <3>3. To(f, 0)
      BY <3>1, <3>2
    <3> QED BY <2>3, <2>4, <3>3
  <2>5. CASE m # 0
    <3> DEFINE c == n + 2 - m
    <3>1. m - 1 \in Nat /\ m - 1 <= n + 1 /\ n + 2 - (m - 1) = c + 1 /\ c \in 1..(n + 1)
      BY <1>1, <2>3, <2>5
    <3>2. m - 1 \notin T
      <4> HIDE DEF T
      <4> QED BY <2>2, <2>3, <3>1
    <3>3. PICK h : To(h, m - 1)
      BY <3>1, <3>2
    <3>4. h = [i \in (c + 1)..(n + 1) |-> CodesFrom(s, h, i)]
      BY <3>1, <3>3
    <3> HIDE DEF c, To
    <3> DEFINE f == [i \in c..(n + 1) |-> IF i = c THEN CodesFrom(s, h, i) ELSE h[i]]
    <3>5. \A j \in (c + 1)..(n + 1) : f[j] = h[j]
      BY <1>1, <3>1
    <3>6. ASSUME NEW i \in c..(n + 1) PROVE f[i] = CodesFrom(s, f, i)
      <4>1. i \in 1..(n + 1) /\ \A j \in (i + 1)..(n + 1) : f[j] = h[j]
        BY <1>1, <3>1, <3>5
      <4>2. CodesFrom(s, f, i) = CodesFrom(s, h, i)
        <5> HIDE DEF f
        <5> QED BY <4>1, LooksOnlyAhead
      <4>3. f[i] = CodesFrom(s, h, i)
        <5>1. CASE i = c
          BY <5>1
        <5>2. CASE i # c
          <6>1. i \in (c + 1)..(n + 1)
            BY <1>1, <3>1, <5>2
          <6>2. h[i] = CodesFrom(s, h, i)
            BY <3>4, <6>1
          <6> QED BY <5>2, <6>2
        <5> QED BY <5>1, <5>2
      <4> QED BY <4>2, <4>3
    <3>7. f = [i \in c..(n + 1) |-> CodesFrom(s, f, i)]
      <4>1. DOMAIN f = c..(n + 1) /\ f = [i \in DOMAIN f |-> f[i]]
        OBVIOUS
      <4> HIDE DEF f
      <4> QED BY <3>6, <4>1
    <3>8. To(f, m)
      BY <3>7 DEF To, c
    <3> QED BY <2>3, <3>8
  <2> QED BY <2>4, <2>5
<1>3. n + 1 \notin T
  BY <1>2
<1>4. PICK f : To(f, n + 1)
  BY <1>1, <1>3
<1>5. n + 2 - (n + 1) = 1
  BY <1>1
<1>6. IsFrom(f, s)
  BY <1>4, <1>5 DEF IsFrom
<1> QED BY <1>6

LEMMA FromIs ==
  ASSUME NEW s \in Seq(Units), NEW i \in 1..(Len(s) + 1)
  PROVE  From(s)[i] = CodesFrom(s, From(s), i)
<1> DEFINE f == CHOOSE from : IsFrom(from, s)
<1>1. From(s) = f
  BY DEF From, IsFrom
<1>2. IsFrom(f, s)
  BY FromExists
<1> HIDE DEF f
<1>3. f[i] = CodesFrom(s, f, i)
  BY <1>2 DEF IsFrom
<1> QED BY <1>1, <1>3

LEMMA FromType ==
  ASSUME NEW s \in Seq(Units), NEW i \in 1..(Len(s) + 1)
  PROVE  From(s)[i] \in Seq(Nat)
<1> DEFINE n == Len(s)
           T == {k \in Nat : k <= n /\ From(s)[n + 1 - k] \notin Seq(Nat)}
<1>1. n \in Nat
  OBVIOUS
<1>2. ASSUME T # {} PROVE FALSE
  <2>1. T \in SUBSET Nat
    OBVIOUS
  <2>2. PICK m \in T : \A y \in T : m <= y
    <3> HIDE DEF T
    <3> QED BY <1>2, <2>1, MinIsThere
  <2> DEFINE c == n + 1 - m
             end == LineEnd(s, c)
             next == NextStart(s, end + 1)
             last == HeadEnd(s, end + 1)
  <2>3. m \in Nat /\ m <= n /\ From(s)[c] \notin Seq(Nat)
    BY <2>2
  <2>4. c \in 1..(n + 1) /\ c \in Nat
    BY <1>1, <2>3
  <2>5. From(s)[c] = CodesFrom(s, From(s), c)
    BY <2>4, FromIs
  <2>6. <<414>> \in Seq(Nat) /\ <<400>> \in Seq(Nat) /\ <<>> \in Seq(Nat)
    OBVIOUS
  <2>7. CASE end = 0
    BY <2>3, <2>5, <2>6, <2>7 DEF CodesFrom
  <2>8. CASE end # 0
    <3>1. /\ next \in Nat /\ next > c /\ last \in Nat \ {0} /\ end \in c..n
      BY <2>4, <2>8, NextIsLater
    <3>2. Verdict(s, last) \in Nat
      <4>1. last \in Nat \ {0}
        BY <3>1
      <4> HIDE DEF last
      <4>2. Verdict(s, last) \in {0, 1, 2, 400, 414}
        BY <4>1, VerdictProperties
      <4> QED BY <4>2
    <3>3. <<Verdict(s, last)>> \in Seq(Nat)
      BY <3>2
    <3>4. next <= n + 1 => From(s)[next] \in Seq(Nat)
      <4> SUFFICES ASSUME next <= n + 1 PROVE From(s)[next] \in Seq(Nat)
        OBVIOUS
      <4> DEFINE k == n + 1 - next
      <4>1. k \in Nat /\ k <= n /\ k < m /\ n + 1 - k = next
        BY <1>1, <2>3, <2>4, <3>1
      <4>2. k \notin T
        <5> HIDE DEF T, k
        <5> QED BY <2>1, <2>2, <4>1
      <4> QED BY <4>1, <4>2
    <3>5. CodeOf(s[end].route) \in Nat
      BY DEF CodeOf
    <3>6. next <= n + 1 => <<CodeOf(s[end].route)>> \o From(s)[next] \in Seq(Nat)
      <4>1. <<CodeOf(s[end].route)>> \in Seq(Nat)
        BY <3>5
      <4> QED BY <3>4, <4>1, ConcatProperties
    <3>7. next > n + 1 \/ next <= n + 1
      BY <1>1, <3>1
    <3> HIDE DEF c
    <3> QED BY <2>3, <2>5, <2>6, <3>3, <3>6, <3>7 DEF CodesFrom, NextStart
  <2> QED BY <2>7, <2>8
<1>3. n + 1 - i \notin T
  BY <1>2
<1>4. n + 1 - i \in Nat /\ n + 1 - i <= n /\ n + 1 - (n + 1 - i) = i
  BY <1>1
<1> QED BY <1>3, <1>4

-----------------------------------------------------------------------------
(* What begins at a place does not depend on what went before it            *)

\* t is what s has behind its first k units.
Rest(s, k, t) ==
    Len(t) = Len(s) - k /\ \A j \in 1..(Len(s) - k) : t[j] = s[k + j]

LEMMA RestOfLine ==
  ASSUME NEW s \in Seq(Units), NEW k \in 0..Len(s), NEW t \in Seq(Units), Rest(s, k, t),
         NEW i \in Nat \ {0}
  PROVE  /\ LineEnd(t, i) = 0 <=> LineEnd(s, k + i) = 0
         /\ LineEnd(t, i) # 0 => LineEnd(s, k + i) = k + LineEnd(t, i)
         /\ LineEnd(t, i) # 0 => s[k + LineEnd(t, i)] = t[LineEnd(t, i)]
         /\ TooLong(t, i) <=> TooLong(s, k + i)
         /\ Verdict(t, i) = Verdict(s, k + i)
<1>1. /\ k \in Nat /\ Len(s) \in Nat /\ Len(t) \in Nat /\ Len(t) = Len(s) - k
      /\ k + i \in Nat \ {0}
      /\ \A j \in 1..Len(t) : t[j] = s[k + j]
  BY DEF Rest
<1>2. /\ LineEnd(t, i) = 0 => \A j \in i..Len(t) : ~EndsLine(t[j])
      /\ LineEnd(t, i) # 0 => /\ LineEnd(t, i) \in i..Len(t) /\ EndsLine(t[LineEnd(t, i)])
                              /\ \A j \in i..(LineEnd(t, i) - 1) : ~EndsLine(t[j])
      /\ LineEnd(t, i) \in Nat
  BY LineEndProperties
<1>3. CASE LineEnd(t, i) = 0
  <2>1. LineEnd(s, k + i) = 0
    <3>1. ASSUME LineEnd(s, k + i) # 0 PROVE FALSE
      <4>1. PICK j : j = LineEnd(s, k + i)
        OBVIOUS
      <4>2. j \in (k + i)..Len(s) /\ EndsLine(s[j])
        BY <1>1, <3>1, <4>1, LineEndProperties
      <4>3. j - k \in i..Len(t) /\ j - k \in 1..Len(t) /\ k + (j - k) = j
        BY <1>1, <4>2
      <4>4. t[j - k] = s[j]
        BY <1>1, <4>3
      <4> QED BY <1>2, <1>3, <4>2, <4>3, <4>4
    <3> QED BY <3>1
  <2>2. TooLong(t, i) <=> TooLong(s, k + i)
    BY <1>1, <1>3, <2>1 DEF TooLong
  <2> QED BY <1>3, <2>1, <2>2 DEF Verdict
<1>4. CASE LineEnd(t, i) # 0
  <2>1. PICK e : e = LineEnd(t, i)
    OBVIOUS
  <2>2. /\ e \in i..Len(t) /\ EndsLine(t[e]) /\ \A j \in i..(e - 1) : ~EndsLine(t[j])
        /\ e \in 1..Len(t) /\ k + e \in (k + i)..Len(s) /\ s[k + e] = t[e]
    BY <1>1, <1>2, <1>4, <2>1
  <2>3. ASSUME NEW j \in (k + i)..(k + e - 1) PROVE ~EndsLine(s[j])
    <3>1. j - k \in i..(e - 1) /\ j - k \in 1..Len(t) /\ k + (j - k) = j
      BY <1>1, <2>2
    <3> QED BY <1>1, <2>2, <3>1
  <2>4. LineEnd(s, k + i) = k + e
    <3>1. PICK x, y : x = k + i /\ y = k + e
      OBVIOUS
    <3>2. x \in Nat \ {0} /\ y \in x..Len(s) /\ EndsLine(s[y])
      BY <1>1, <2>2, <3>1
    <3>3. ASSUME NEW j \in x..(y - 1) PROVE ~EndsLine(s[j])
      <4>1. j \in (k + i)..(k + e - 1)
        BY <1>1, <2>2, <3>1
      <4> QED BY <2>3, <4>1
    <3> QED BY <3>1, <3>2, <3>3, LineEndIs
  <2>5. k + e # 0 /\ e # 0
    BY <1>1, <2>2
  <2>6. TooLong(t, i) <=> TooLong(s, k + i)
    <3>1. TooLong(t, i) <=> e - i + 1 > MaxLine
      BY <2>1, <2>5 DEF TooLong
    <3>2. TooLong(s, k + i) <=> (k + e) - (k + i) + 1 > MaxLine
      BY <2>4, <2>5 DEF TooLong
    <3>3. (k + e) - (k + i) + 1 = e - i + 1
      BY <1>1, <2>2
    <3> QED BY <3>1, <3>2, <3>3
  <2>7. e = i <=> k + e = k + i
    BY <1>1, <2>2
  <2>8. e = i => t[i] = s[k + i]
    BY <2>2
  <2>9. Verdict(t, i) = Verdict(s, k + i)
    BY <2>1, <2>2, <2>4, <2>5, <2>6, <2>7, <2>8 DEF Verdict
  <2> QED BY <2>1, <2>2, <2>4, <2>5, <2>6, <2>9
<1> QED BY <1>3, <1>4

LEMMA RestOfStarts ==
  ASSUME NEW s \in Seq(Units), NEW k \in 0..Len(s), NEW t \in Seq(Units), Rest(s, k, t),
         NEW first \in 1..(Len(t) + 1)
  PROVE  /\ k + first \in 1..(Len(s) + 1)
         /\ \A p \in Nat : p \in LineStarts(t, first) <=> k + p \in LineStarts(s, k + first)
         /\ \A q \in LineStarts(s, k + first) : q - k \in LineStarts(t, first) /\ q - k \in Nat
<1>1. /\ k \in Nat /\ Len(s) \in Nat /\ Len(t) \in Nat /\ Len(t) = Len(s) - k
      /\ k + first \in 1..(Len(s) + 1) /\ first \in Nat \ {0}
      /\ \A j \in 1..Len(t) : t[j] = s[k + j]
  BY DEF Rest
<1>2. ASSUME NEW p \in Nat
      PROVE  p \in LineStarts(t, first) <=> k + p \in LineStarts(s, k + first)
  <2>1. p \in first..(Len(t) + 1) <=> k + p \in (k + first)..(Len(s) + 1)
    BY <1>1
  <2>2. p = first <=> k + p = k + first
    BY <1>1
  <2>3. ASSUME p \in first..(Len(t) + 1), p # first PROVE t[p - 1] = s[(k + p) - 1]
    <3>1. p - 1 \in 1..Len(t) /\ k + (p - 1) = (k + p) - 1
      BY <1>1, <2>3
    <3> QED BY <1>1, <3>1
  <2> QED BY <2>1, <2>2, <2>3 DEF LineStarts
<1>3. ASSUME NEW q \in LineStarts(s, k + first)
      PROVE  q - k \in LineStarts(t, first) /\ q - k \in Nat
  <2>1. q \in (k + first)..(Len(s) + 1)
    BY DEF LineStarts
  <2>2. q - k \in Nat /\ k + (q - k) = q
    BY <1>1, <2>1
  <2> QED BY <1>2, <2>2
<1> QED BY <1>1, <1>2, <1>3

LEMMA RestOfHead ==
  ASSUME NEW s \in Seq(Units), NEW k \in 0..Len(s), NEW t \in Seq(Units), Rest(s, k, t),
         NEW first \in 1..(Len(t) + 1)
  PROVE  /\ HeadEnd(s, k + first) = k + HeadEnd(t, first)
         /\ BodySize(s, k + first, HeadEnd(s, k + first)) = BodySize(t, first, HeadEnd(t, first))
<1>1. k \in Nat /\ Len(s) \in Nat /\ Len(t) \in Nat /\ Len(t) = Len(s) - k
  BY DEF Rest
<1>2. /\ k + first \in 1..(Len(s) + 1)
      /\ \A p \in Nat : p \in LineStarts(t, first) <=> k + p \in LineStarts(s, k + first)
      /\ \A q \in LineStarts(s, k + first) : q - k \in LineStarts(t, first) /\ q - k \in Nat
  BY RestOfStarts
<1>3. PICK last : last = HeadEnd(t, first)
  OBVIOUS
<1>4. /\ last \in LineStarts(t, first) /\ Verdict(t, last) # 0
      /\ \A p \in LineStarts(t, first) : p < last => Verdict(t, p) = 0
  BY <1>3, HeadEndProperties
<1>5. last \in Nat \ {0} /\ LineStarts(t, first) \subseteq Nat \ {0}
  BY <1>4, LineStartsTypes
<1>6. k + last \in LineStarts(s, k + first) /\ Verdict(s, k + last) # 0
  BY <1>2, <1>4, <1>5, RestOfLine
<1>7. ASSUME NEW q \in LineStarts(s, k + first), q < k + last PROVE Verdict(s, q) = 0
  <2>1. q - k \in LineStarts(t, first) /\ q - k \in Nat
    BY <1>2
  <2>2. q \in Nat
    BY <1>2, LineStartsTypes
  <2>3. q - k < last /\ k + (q - k) = q
    BY <1>1, <1>5, <1>7, <2>2
  <2>4. Verdict(t, q - k) = 0 /\ q - k \in Nat \ {0}
    BY <1>4, <1>5, <2>1, <2>3
  <2> QED BY <2>3, <2>4, RestOfLine
<1>8. HeadEnd(s, k + first) = k + last
  BY <1>2, <1>6, <1>7, HeadEndIs
<1> DEFINE S == Lengths(s, k + first, k + last)
           L == Lengths(t, first, last)
<1>9. ASSUME NEW p \in Nat PROVE p \in L <=> k + p \in S
  <2>1. p < last <=> k + p < k + last
    BY <1>1, <1>5
  <2>2. ASSUME p \in LineStarts(t, first), p < last
        PROVE  s[LineEnd(s, k + p)] = t[LineEnd(t, p)]
    <3>1. p \in Nat \ {0} /\ Verdict(t, p) = 0
      BY <1>4, <1>5, <2>2
    <3>2. LineEnd(t, p) \in p..Len(t)
      BY <3>1, VerdictProperties
    <3>3. LineEnd(t, p) # 0
      BY <3>1, <3>2
    <3>4. LineEnd(s, k + p) = k + LineEnd(t, p) /\ s[k + LineEnd(t, p)] = t[LineEnd(t, p)]
      BY <3>1, <3>3, RestOfLine
    <3> QED BY <3>4
  <2> QED BY <1>2, <2>1, <2>2 DEF Lengths
<1>10. ASSUME NEW q \in S PROVE q - k \in L /\ q - k \in Nat /\ k + (q - k) = q
  <2>1. q \in LineStarts(s, k + first)
    BY DEF Lengths
  <2>2. q - k \in Nat /\ q \in Nat
    BY <1>2, <2>1, LineStartsTypes
  <2>3. k + (q - k) = q
    BY <1>1, <2>2
  <2> HIDE DEF S, L
  <2> QED BY <1>9, <1>10, <2>2, <2>3
<1>11. L \subseteq Nat /\ S \subseteq Nat
  BY <1>2, <1>5, LineStartsTypes DEF Lengths
<1>12. CASE L = {}
  <2>1. S = {}
    <3> HIDE DEF L, S
    <3> QED BY <1>10, <1>12
  <2> QED BY <1>3, <1>8, <1>12, <2>1 DEF BodySize
<1>13. CASE L # {}
  <2>1. PICK p : p = Min(L)
    OBVIOUS
  <2>2. /\ p \in L /\ \A r \in L : p <= r
    <3> HIDE DEF L
    <3> QED BY <1>11, <1>13, <2>1, MinIsThere
  <2>3. p \in Nat /\ k + p \in S
    <3> HIDE DEF L, S
    <3> QED BY <1>9, <1>11, <2>2
  <2>4. \A q \in S : k + p <= q
    <3> HIDE DEF L, S
    <3> QED BY <1>1, <1>10, <1>11, <2>2, <2>3
  <2>5. Min(S) = k + p
    <3> HIDE DEF L, S
    <3> QED BY <1>11, <2>3, <2>4, MinIs
  <2>6. p \in LineStarts(t, first) /\ p < last
    BY <2>2 DEF Lengths
  <2>7. p \in Nat \ {0} /\ Verdict(t, p) = 0
    BY <1>4, <1>5, <2>6
  <2>8. LineEnd(t, p) \in p..Len(t)
    BY <2>7, VerdictProperties
  <2>9. LineEnd(t, p) # 0
    BY <2>7, <2>8
  <2>10. s[LineEnd(s, k + p)] = t[LineEnd(t, p)]
    <3>1. LineEnd(s, k + p) = k + LineEnd(t, p) /\ s[k + LineEnd(t, p)] = t[LineEnd(t, p)]
      BY <2>7, <2>9, RestOfLine
    <3> QED BY <3>1
  <2>11. S # {}
    <3> HIDE DEF S
    <3> QED BY <2>3
  <2>12. BodySize(s, k + first, k + last) = Size(s[LineEnd(s, k + p)].len)
    BY <2>5, <2>11 DEF BodySize
  <2>13. BodySize(t, first, last) = Size(t[LineEnd(t, p)].len)
    BY <1>13, <2>1 DEF BodySize
  <2> QED BY <1>3, <1>8, <2>10, <2>12, <2>13
<1> QED BY <1>3, <1>8, <1>12, <1>13

LEMMA RestOfFrom ==
  ASSUME NEW s \in Seq(Units), NEW k \in 0..Len(s), NEW t \in Seq(Units), Rest(s, k, t),
         NEW i \in 1..(Len(t) + 1)
  PROVE  From(t)[i] = From(s)[k + i]
<1> DEFINE n == Len(t)
           T == {m \in Nat : m <= n /\ From(t)[n + 1 - m] # From(s)[k + (n + 1 - m)]}
<1>1. n \in Nat /\ k \in Nat /\ Len(s) \in Nat /\ n = Len(s) - k
  BY DEF Rest
<1>2. ASSUME T # {} PROVE FALSE
  <2>1. T \in SUBSET Nat
    OBVIOUS
  <2>2. PICK m \in T : \A y \in T : m <= y
    <3> HIDE DEF T
    <3> QED BY <1>2, <2>1, MinIsThere
  <2>3. PICK c : c = n + 1 - m
    OBVIOUS
  <2>4. m \in Nat /\ m <= n /\ From(t)[c] # From(s)[k + c]
    BY <2>2, <2>3
  <2>5. c \in 1..(n + 1) /\ c \in Nat \ {0} /\ k + c \in 1..(Len(s) + 1)
    BY <1>1, <2>3, <2>4
  <2>6. /\ From(t)[c] = CodesFrom(t, From(t), c)
        /\ From(s)[k + c] = CodesFrom(s, From(s), k + c)
    BY <2>5, FromIs
  <2>7. /\ LineEnd(t, c) = 0 <=> LineEnd(s, k + c) = 0
        /\ LineEnd(t, c) # 0 => LineEnd(s, k + c) = k + LineEnd(t, c)
        /\ LineEnd(t, c) # 0 => s[k + LineEnd(t, c)] = t[LineEnd(t, c)]
        /\ TooLong(t, c) <=> TooLong(s, k + c)
    BY <2>5, RestOfLine
  <2>8. CASE LineEnd(t, c) = 0
    BY <2>4, <2>6, <2>7, <2>8 DEF CodesFrom
  <2>9. CASE LineEnd(t, c) # 0
    <3>1. PICK end : end = LineEnd(t, c)
      OBVIOUS
    <3>2. PICK last : last = HeadEnd(t, end + 1)
      OBVIOUS
    <3>3. PICK next : next = NextStart(t, end + 1)
      OBVIOUS
    <3>4. /\ end \in c..n /\ end + 1 \in 1..(n + 1) /\ last \in Nat \ {0}
          /\ next \in Nat /\ next > c
      BY <2>5, <2>9, <3>1, <3>2, <3>3, NextIsLater
    <3>5. (k + end) + 1 = k + (end + 1) /\ end \in Nat
      BY <1>1, <2>5, <3>4
    <3>6. /\ HeadEnd(s, (k + end) + 1) = k + last
          /\ BodySize(s, (k + end) + 1, k + last) = BodySize(t, end + 1, last)
      <4>1. /\ HeadEnd(s, k + (end + 1)) = k + last
            /\ BodySize(s, k + (end + 1), HeadEnd(s, k + (end + 1))) = BodySize(t, end + 1, last)
        BY <3>2, <3>4, RestOfHead
      <4> QED BY <3>5, <4>1
    <3>7. Verdict(s, k + last) = Verdict(t, last)
      BY <3>4, RestOfLine
    <3>8. PICK size : size = BodySize(t, end + 1, last)
      OBVIOUS
    <3>9. size \in Nat
      <4>1. /\ last \in LineStarts(t, end + 1)
            /\ \A p \in LineStarts(t, end + 1) : p < last => Verdict(t, p) = 0
        BY <3>2, <3>4, HeadEndProperties
      <4> QED BY <3>4, <3>8, <4>1, LengthsProperties
    <3>10. next = last + size + 1
      BY <3>2, <3>3, <3>8 DEF NextStart
    <3>11. /\ (k + last) + size + 1 = k + next
           /\ k + next > Len(s) + 1 <=> next > n + 1
      BY <1>1, <3>4, <3>9, <3>10
    <3>12. ~(next > n + 1) => From(t)[next] = From(s)[k + next]
      <4> SUFFICES ASSUME ~(next > n + 1) PROVE From(t)[next] = From(s)[k + next]
        OBVIOUS
      <4>1. PICK j : j = n + 1 - next
        OBVIOUS
      <4>2. j \in Nat /\ j <= n /\ j < m /\ n + 1 - j = next
        BY <1>1, <2>3, <2>4, <2>5, <3>4, <4>1
      <4>3. j \notin T
        <5> HIDE DEF T
        <5> QED BY <2>1, <2>2, <4>2
      <4> QED BY <4>2, <4>3
    <3>13. s[k + end] = t[end] /\ LineEnd(s, k + c) = k + end /\ k + end # 0 /\ end # 0
      BY <1>1, <2>7, <2>9, <3>1, <3>5
    <3>14. CodesFrom(s, From(s), k + c)
             = IF TooLong(t, c) THEN <<414>>
               ELSE IF t[end].kind # "line" THEN <<400>>
               ELSE IF Verdict(t, last) >= 400 THEN <<Verdict(t, last)>>
               ELSE IF Verdict(t, last) # 2 \/ next > n + 1 THEN <<>>
               ELSE <<CodeOf(t[end].route)>> \o From(s)[k + next]
      <4>1. PICK here, end2, last2, next2 :
              /\ here = k + c /\ end2 = k + end /\ last2 = k + last /\ next2 = k + next
        OBVIOUS
      <4>2. /\ LineEnd(s, here) = end2 /\ end2 # 0 /\ HeadEnd(s, end2 + 1) = last2
            /\ last2 + BodySize(s, end2 + 1, last2) + 1 = next2
            /\ TooLong(s, here) <=> TooLong(t, c)
            /\ s[end2] = t[end] /\ Verdict(s, last2) = Verdict(t, last)
            /\ next2 > Len(s) + 1 <=> next > n + 1
        BY <2>7, <3>6, <3>7, <3>8, <3>11, <3>13, <4>1
      <4>3. CodesFrom(s, From(s), here)
             = IF TooLong(t, c) THEN <<414>>
               ELSE IF t[end].kind # "line" THEN <<400>>
               ELSE IF Verdict(t, last) >= 400 THEN <<Verdict(t, last)>>
               ELSE IF Verdict(t, last) # 2 \/ next > n + 1 THEN <<>>
               ELSE <<CodeOf(t[end].route)>> \o From(s)[next2]
        BY <4>2 DEF CodesFrom
      <4> QED BY <4>1, <4>3
    <3>15. CodesFrom(t, From(t), c)
             = IF TooLong(t, c) THEN <<414>>
               ELSE IF t[end].kind # "line" THEN <<400>>
               ELSE IF Verdict(t, last) >= 400 THEN <<Verdict(t, last)>>
               ELSE IF Verdict(t, last) # 2 \/ next > n + 1 THEN <<>>
               ELSE <<CodeOf(t[end].route)>> \o From(t)[next]
      BY <3>1, <3>2, <3>8, <3>10, <3>13 DEF CodesFrom
    <3> QED BY <2>4, <2>6, <3>12, <3>14, <3>15
  <2> QED BY <2>8, <2>9
<1>3. n + 1 - i \notin T
  BY <1>2
<1>4. n + 1 - i \in Nat /\ n + 1 - i <= n /\ n + 1 - (n + 1 - i) = i
  BY <1>1
<1> QED BY <1>3, <1>4

-----------------------------------------------------------------------------
(* The parser and the stream                                                *)

\* The first header begins at first, the next one that is not read yet at q, and
\* those between them are in the headers of the request, the first length too.
HeadRead(s, first, q) ==
    /\ q \in LineStarts(s, first)
    /\ \A p \in LineStarts(s, first) : p < q => Verdict(s, p) = 0
    /\ Lengths(s, first, q) = {} <=> "Content-Length" \notin DOMAIN ctx.request.headers
    /\ Lengths(s, first, q) # {} =>
          ctx.request.headers["Content-Length"] = s[LineEnd(s, Min(Lengths(s, first, q)))].len

\* The body begins behind q.
BodyRead(s, first, q) ==
    /\ HeadRead(s, first, q) /\ Verdict(s, q) = 2
    /\ consumed = q + Len(ctx.request.body)
    /\ ctx.recv \in {"BODY", "OVER"}
    /\ ctx.recv = "OVER" => Len(ctx.request.body) = ContentLength(ctx.request)

RequestLineRead(s, p, end) ==
    /\ LineEnd(s, p) = end /\ ~TooLong(s, p)
    /\ s[end].kind = "line" /\ s[end].route = ctx.request.route

\* The context is what the parser makes of s from p to what is consumed.
Parsed(s, p) ==
    \/ ctx.recv = "LINE" /\ p = consumed + 1 /\ ctx.request.headers = <<>>
    \/ ctx.recv = "ERROR" /\ From(s)[p] = <<ctx.statu>>
    \/ \E end \in p..consumed :
          /\ RequestLineRead(s, p, end)
          /\ \/ ctx.recv = "HEAD" /\ HeadRead(s, end + 1, consumed + 1)
             \/ \E q \in (end + 1)..consumed : BodyRead(s, end + 1, q)

\* What was answered and what is to come from the current request on is what the
\* reference answers.
Follows(s) == \E p \in 1..(consumed + 1) : Parsed(s, p) /\ Reference(s) = Codes \o From(s)[p]

\* What the stream may turn out to be, if it ends earlier.
Beginnings == {SubSeq(stream, 1, m) : m \in sent..Len(stream)}

Responses == [code : Nat, close : BOOLEAN]

ParserInv ==
    /\ answers \in Seq(Responses)
    /\ status = "CONNECTED" => \A s \in Beginnings : Follows(s)
    /\ AnswersAsExpected

-----------------------------------------------------------------------------
(* What the reference says of a request that is being read                  *)

\* A header that is read moves the place of the next one behind it.
LEMMA HeaderIsRead ==
  ASSUME NEW s \in Seq(Units), NEW first \in 1..(Len(s) + 1), NEW q \in LineStarts(s, first),
         LineEnd(s, q) # 0
  PROVE  /\ LineEnd(s, q) + 1 \in LineStarts(s, first)
         /\ \A p \in LineStarts(s, first) : p < LineEnd(s, q) + 1 <=> p <= q
         /\ \A p : p \in Lengths(s, first, LineEnd(s, q) + 1) <=>
                  \/ p \in Lengths(s, first, q)
                  \/ p = q /\ s[LineEnd(s, q)].key = "Content-Length"
<1>1. q \in Nat \ {0} /\ first <= q /\ Len(s) \in Nat /\ first \in Nat
  BY LineStartsTypes
<1>2. PICK end : end = LineEnd(s, q)
  OBVIOUS
<1>3. end \in q..Len(s) /\ \A j \in q..(end - 1) : ~EndsLine(s[j])
  BY <1>1, <1>2, LineEndProperties
<1>4. ASSUME NEW p \in LineStarts(s, first) PROVE p < end + 1 <=> p <= q
  <2>1. p \in Nat /\ p \in first..(Len(s) + 1) /\ (p = first \/ EndsLine(s[p - 1]))
    BY LineStartsTypes DEF LineStarts
  <2>2. ASSUME p < end + 1, ~(p <= q) PROVE FALSE
    <3>1. p # first /\ p - 1 \in q..(end - 1)
      BY <1>1, <1>3, <2>1, <2>2
    <3> QED BY <1>3, <2>1, <3>1
  <2> QED BY <1>1, <1>3, <2>1, <2>2
<1>5. end + 1 \in LineStarts(s, first)
  BY <1>2, LineStartsTypes
<1>6. \A p \in LineStarts(s, first) : p < end + 1 <=> p < q \/ p = q
  BY <1>1, <1>4, LineStartsTypes
<1>7. ASSUME NEW p
      PROVE  p \in Lengths(s, first, end + 1) <=>
                \/ p \in Lengths(s, first, q)
                \/ p = q /\ s[LineEnd(s, q)].key = "Content-Length"
  <2> DEFINE Long(r) == s[LineEnd(s, r)].key = "Content-Length"
  <2>1. p \in Lengths(s, first, end + 1) <=> p \in LineStarts(s, first) /\ p < end + 1 /\ Long(p)
    BY DEF Lengths
  <2>2. p \in Lengths(s, first, q) <=> p \in LineStarts(s, first) /\ p < q /\ Long(p)
    BY DEF Lengths
  <2>3. p = q => (Long(p) <=> Long(q))
    OBVIOUS
  <2> HIDE DEF Long
  <2>4. p \in Lengths(s, first, end + 1) <=> p \in Lengths(s, first, q) \/ (p = q /\ Long(q))
    BY <1>6, <2>1, <2>2, <2>3
  <2> QED BY <2>4 DEF Long
<1> QED BY <1>2, <1>4, <1>5, <1>7

\* A request line that cannot be read.
LEMMA RequestLineFails ==
  ASSUME NEW s \in Seq(Units), NEW p \in 1..(Len(s) + 1)
  PROVE  /\ TooLong(s, p) => From(s)[p] = <<414>>
         /\ ~TooLong(s, p) /\ LineEnd(s, p) # 0 /\ s[LineEnd(s, p)].kind # "line" =>
               From(s)[p] = <<400>>
BY FromIs DEF CodesFrom

\* The headers of a request whose first line, from p to end, has been read.
LEMMA HeadersDecide ==
  ASSUME NEW s \in Seq(Units), NEW p \in 1..(Len(s) + 1), NEW end \in Nat \ {0},
         LineEnd(s, p) = end, ~TooLong(s, p), s[end].kind = "line",
         NEW q \in LineStarts(s, end + 1), Verdict(s, q) # 0,
         \A r \in LineStarts(s, end + 1) : r < q => Verdict(s, r) = 0
  PROVE  /\ Verdict(s, q) >= 400 => From(s)[p] = <<Verdict(s, q)>>
         /\ Verdict(s, q) = 2 /\ q + BodySize(s, end + 1, q) + 1 <= Len(s) + 1 =>
               From(s)[p] = <<CodeOf(s[end].route)>>
                               \o From(s)[q + BodySize(s, end + 1, q) + 1]
<1>1. end \in p..Len(s) /\ end + 1 \in 1..(Len(s) + 1) /\ Len(s) \in Nat
  BY NextIsLater
<1>2. PICK first : first = end + 1
  OBVIOUS
<1>3. HeadEnd(s, first) = q
  BY <1>1, <1>2, HeadEndIs
<1>4. BodySize(s, first, q) \in Nat
  BY <1>1, <1>2, LengthsProperties
<1>5. PICK next : next = q + BodySize(s, first, q) + 1
  OBVIOUS
<1>6. q \in Nat /\ next \in Nat
  <2>1. q \in Nat
    BY <1>1, LineStartsTypes
  <2> QED BY <1>4, <1>5, <2>1
<1>7. CodesFrom(s, From(s), p)
        = IF Verdict(s, q) >= 400 THEN <<Verdict(s, q)>>
          ELSE IF Verdict(s, q) # 2 \/ next > Len(s) + 1 THEN <<>>
          ELSE <<CodeOf(s[end].route)>> \o From(s)[next]
  BY <1>2, <1>3, <1>5 DEF CodesFrom
<1>8. From(s)[p] = CodesFrom(s, From(s), p)
  BY FromIs
<1>9. ~(2 >= 400)
  OBVIOUS
<1>10. next <= Len(s) + 1 => ~(next > Len(s) + 1)
  BY <1>1, <1>6
<1> QED BY <1>2, <1>5, <1>7, <1>8, <1>9, <1>10

-----------------------------------------------------------------------------
(* The buffer and what the stream may turn out to be                        *)

LEMMA BeginningProperties ==
  ASSUME Shape, NEW s, s \in Beginnings
  PROVE  /\ s \in Seq(Units) /\ Len(s) \in Nat /\ sent <= Len(s) /\ sent \in Nat
         /\ \A i \in 1..sent : s[i] = stream[i]
<1>1. stream \in Seq(Units) /\ Len(stream) \in Nat /\ sent \in Nat
  BY StreamTypes DEF Shape
<1>2. PICK m \in sent..Len(stream) : s = SubSeq(stream, 1, m)
  BY DEF Beginnings
<1>3. m \in Nat /\ 0 <= m /\ m <= Len(stream) /\ sent <= m
  BY <1>1
<1>4. /\ SubSeq(stream, 0 + 1, m) \in Seq(Units) /\ Len(SubSeq(stream, 0 + 1, m)) = m - 0
      /\ \A i \in 1..(m - 0) : SubSeq(stream, 0 + 1, m)[i] = stream[0 + i]
  BY <1>1, <1>3, PartProperties
<1>5. s \in Seq(Units) /\ Len(s) = m /\ \A i \in 1..m : s[i] = stream[i]
  <2>1. 0 + 1 = 1 /\ m - 0 = m /\ \A i \in 1..m : 0 + i = i
    BY <1>3
  <2> QED BY <1>2, <1>4, <2>1
<1> QED BY <1>1, <1>3, <1>5

\* The line that GetLine finds is the one that begins there in the stream.
LEMMA LineOfTheStream ==
  ASSUME Shape, BufferIsTheStream, NEW s, s \in Beginnings,
         NEW line, line = B!GetLine(in, LineEnds)
  PROVE  /\ line # <<>> =>
               /\ Len(line) \in Nat /\ Len(line) > 0 /\ consumed + Len(line) <= sent
               /\ LineEnd(s, consumed + 1) = consumed + Len(line)
               /\ s[consumed + Len(line)] = Last(line)
               /\ TooLong(s, consumed + 1) <=> Len(line) > MaxLine
         /\ line = <<>> /\ B!ReadableBytes(in) > MaxLine => TooLong(s, consumed + 1)
<1>1. /\ s \in Seq(Units) /\ Len(s) \in Nat /\ sent <= Len(s)
      /\ \A i \in 1..sent : s[i] = stream[i]
  BY BeginningProperties
<1>2. /\ sent \in Nat /\ consumed \in Nat /\ consumed <= sent /\ sent <= Len(stream)
      /\ B!ReadableBytes(in) = sent - consumed /\ MaxLine \in Nat
  BY BufferSpan, HttpAssumption
<1>3. \A i \in 1..(sent - consumed) : B!Content(in)[i] = s[consumed + i]
  <2>1. \A i \in 1..(sent - consumed) :
           SubSeq(stream, consumed + 1, sent)[i] = stream[consumed + i]
    BY <1>2, PartProperties, StreamTypes
  <2> TAKE i \in 1..(sent - consumed)
  <2>2. consumed + i \in 1..sent
    BY <1>2
  <2> QED BY <1>1, <2>1, <2>2 DEF BufferIsTheStream
<1>4. /\ line \in Seq(Units) /\ Len(line) \in 0..(sent - consumed)
      /\ line # <<>> =>
            /\ Len(line) > 0 /\ Last(line) = B!Content(in)[Len(line)] /\ EndsLine(Last(line))
      /\ line = <<>> => \A i \in 1..(sent - consumed) : ~EndsLine(B!Content(in)[i])
      /\ \A i \in 1..(Len(line) - 1) : ~EndsLine(B!Content(in)[i])
  BY <1>2, LineProperties DEF Shape
<1>5. ASSUME line # <<>>
      PROVE  /\ Len(line) \in Nat /\ Len(line) > 0 /\ consumed + Len(line) <= sent
             /\ LineEnd(s, consumed + 1) = consumed + Len(line)
             /\ s[consumed + Len(line)] = Last(line)
             /\ TooLong(s, consumed + 1) <=> Len(line) > MaxLine
  <2>1. PICK n : n = Len(line)
    OBVIOUS
  <2>2. n \in Nat /\ n > 0 /\ n \in 1..(sent - consumed) /\ consumed + n <= sent
    BY <1>2, <1>4, <1>5, <2>1
  <2>3. Last(line) = s[consumed + n] /\ EndsLine(s[consumed + n])
    BY <1>3, <1>4, <1>5, <2>1, <2>2
  <2>4. PICK x, y : x = consumed + 1 /\ y = consumed + n
    OBVIOUS
  <2>5. x \in Nat \ {0} /\ y \in x..Len(s) /\ EndsLine(s[y])
    BY <1>1, <1>2, <2>2, <2>3, <2>4
  <2>6. ASSUME NEW j \in x..(y - 1) PROVE ~EndsLine(s[j])
    <3>1. j - consumed \in 1..(n - 1) /\ j - consumed \in 1..(sent - consumed)
          /\ consumed + (j - consumed) = j
      BY <1>2, <2>2, <2>4
    <3> QED BY <1>3, <1>4, <2>1, <3>1
  <2>7. LineEnd(s, x) = y
    BY <1>1, <2>5, <2>6, LineEndIs
  <2>8. TooLong(s, x) <=> y - x + 1 > MaxLine
    BY <2>5, <2>7 DEF TooLong
  <2>9. y - x + 1 = n
    BY <1>2, <2>2, <2>4
  <2> QED BY <2>1, <2>2, <2>3, <2>4, <2>7, <2>8, <2>9
<1>6. ASSUME line = <<>>, B!ReadableBytes(in) > MaxLine
      PROVE  TooLong(s, consumed + 1)
  <2>1. PICK x, y : x = consumed + 1 /\ y = LineEnd(s, x)
    OBVIOUS
  <2>2. x \in Nat \ {0}
    BY <1>2, <2>1
  <2>3. y # 0 => y \in x..Len(s) /\ EndsLine(s[y])
    BY <1>1, <2>1, <2>2, LineEndProperties
  <2>4. ASSUME y # 0, y <= sent PROVE FALSE
    <3>1. y - consumed \in 1..(sent - consumed) /\ consumed + (y - consumed) = y
      BY <1>1, <1>2, <2>1, <2>3, <2>4
    <3>2. B!Content(in)[y - consumed] = s[y]
      BY <1>3, <3>1
    <3> QED BY <1>4, <1>6, <2>3, <2>4, <3>1, <3>2
  <2>5. CASE y = 0
    <3>1. TooLong(s, x) <=> Len(s) - x + 1 > MaxLine
      BY <2>1, <2>5 DEF TooLong
    <3>2. Len(s) - x + 1 > MaxLine
      BY <1>1, <1>2, <1>6, <2>1
    <3> QED BY <2>1, <3>1, <3>2
  <2>6. CASE y # 0
    <3>1. TooLong(s, x) <=> y - x + 1 > MaxLine
      BY <2>1, <2>6 DEF TooLong
    <3>2. y \in Nat /\ y > sent
      BY <1>1, <1>2, <2>2, <2>3, <2>4, <2>6
    <3>3. y - x + 1 > MaxLine
      BY <1>2, <1>6, <2>1, <3>2
    <3> QED BY <2>1, <3>1, <3>3
  <2> QED BY <2>5, <2>6
<1> QED BY <1>5, <1>6

-----------------------------------------------------------------------------
(* Answers                                                                  *)

LEMMA CodesTypes ==
  ASSUME answers \in Seq(Responses)
  PROVE  Codes \in Seq(Nat) /\ Len(Codes) = Len(answers)
<1>1. Len(answers) \in Nat /\ \A i \in 1..Len(answers) : answers[i].code \in Nat
  <2>1. ASSUME NEW i \in 1..Len(answers) PROVE answers[i].code \in Nat
    <3>1. answers[i] \in Responses
      BY ElementOfSeq
    <3> QED BY <3>1 DEF Responses
  <2> QED BY <2>1
<1> DEFINE codes == [i \in 1..Len(answers) |-> answers[i].code]
<1>2. codes \in Seq(Nat) /\ Len(codes) = Len(answers)
  BY <1>1, SeqDef
<1> QED BY <1>2 DEF Codes

LEMMA CodesStep ==
  ASSUME answers \in Seq(Responses), status = "CONNECTED",
         NEW code \in Nat, NEW close \in BOOLEAN, WriteResponse(code, close)
  PROVE  answers' \in Seq(Responses) /\ Codes' = Codes \o <<code>>
<1> DEFINE r == [code |-> code, close |-> close]
           n == Len(answers)
<1>1. r \in Responses /\ r.code = code
  BY DEF Responses
<1>2. answers' = Append(answers, r)
  BY DEF WriteResponse
<1> HIDE DEF r
<1>3. /\ answers' \in Seq(Responses) /\ Len(answers') = n + 1 /\ n \in Nat
      /\ \A i \in 1..n : answers'[i] = answers[i]
      /\ answers'[n + 1] = r
  BY <1>1, <1>2, AppendProperties
<1>4. Codes \in Seq(Nat) /\ Len(Codes) = n /\ \A i \in 1..n : Codes[i] = answers[i].code
  BY CodesTypes DEF Codes
<1> DEFINE after == [i \in 1..Len(answers') |-> answers'[i].code]
<1>5. /\ after \in Seq(Nat) /\ Len(after) = n + 1
      /\ \A i \in 1..(n + 1) : after[i] = answers'[i].code
  <2>1. \A i \in 1..(n + 1) : answers'[i].code \in Nat
    <3>1. ASSUME NEW i \in 1..(n + 1) PROVE answers'[i] \in Responses
      <4>1. i \in 1..Len(answers')
        BY <1>3
      <4> QED BY <1>3, <4>1, ElementOfSeq
    <3> QED BY <3>1 DEF Responses
  <2>2. after = [i \in 1..(n + 1) |-> answers'[i].code]
    BY <1>3
  <2> HIDE DEF after, n
  <2> QED BY <1>3, <2>1, <2>2, SeqDef
<1>6. Codes' = after
  BY DEF Codes
<1> DEFINE both == Codes \o <<code>>
<1>7. /\ <<code>> \in Seq(Nat) /\ Len(<<code>>) = 1 /\ <<code>>[1] = code
  OBVIOUS
<1>8. /\ both \in Seq(Nat) /\ Len(both) = n + 1
      /\ \A i \in 1..(n + 1) : both[i] = IF i <= n THEN Codes[i] ELSE code
  <2>1. /\ both \in Seq(Nat) /\ Len(both) = Len(Codes) + Len(<<code>>)
        /\ \A i \in 1..(Len(Codes) + Len(<<code>>)) : both[i] =
              IF i <= Len(Codes) THEN Codes[i] ELSE <<code>>[i - Len(Codes)]
    BY <1>4, <1>7, ConcatProperties
  <2> HIDE DEF both, n
  <2>2. ASSUME NEW i \in 1..(n + 1)
        PROVE  both[i] = IF i <= n THEN Codes[i] ELSE code
    <3>1. ~(i <= n) => i - n = 1
      BY <1>3
    <3> QED BY <1>4, <1>7, <2>1, <3>1
  <2> QED BY <1>4, <1>7, <2>1, <2>2
<1> HIDE DEF after, both, n
<1>9. ASSUME NEW i \in 1..(n + 1) PROVE after[i] = both[i]
  <2>1. CASE i <= n
    <3>1. i \in 1..n
      BY <1>3, <2>1
    <3> QED BY <1>3, <1>4, <1>5, <1>8, <2>1, <3>1
  <2>2. CASE ~(i <= n)
    <3>1. i = n + 1
      BY <1>3, <2>2
    <3> QED BY <1>1, <1>3, <1>5, <1>8, <2>2, <3>1
  <2> QED BY <2>1, <2>2
<1>10. after = both
  BY <1>5, <1>8, <1>9, SeqEqual
<1> QED BY <1>3, <1>6, <1>10 DEF both

LEMMA PrefixOfConcat ==
  ASSUME NEW a \in Seq(Nat), NEW b \in Seq(Nat)
  PROVE  IsPrefix(a, a \o b)
<1>1. /\ a \o b \in Seq(Nat) /\ Len(a \o b) = Len(a) + Len(b)
      /\ Len(a) \in Nat /\ Len(b) \in Nat
      /\ \A i \in 1..(Len(a) + Len(b)) : (a \o b)[i] =
            IF i <= Len(a) THEN a[i] ELSE b[i - Len(a)]
  BY ConcatProperties
<1> DEFINE c == a \o b
           n == Len(a)
<1> HIDE DEF c
<1>2. /\ c \in Seq(Nat) /\ Len(c) = n + Len(b) /\ n \in Nat /\ n <= Len(c)
      /\ \A i \in 1..n : i \in 1..Len(c) /\ c[i] = a[i]
  BY <1>1 DEF c
<1>3. SubSeq(a, 1, n) = a
  BY SubSeqFull
<1>4. /\ SubSeq(c, 1, n) \in Seq(Nat) /\ Len(SubSeq(c, 1, n)) = n
      /\ \A i \in 1..n : SubSeq(c, 1, n)[i] = c[i]
  <2>1. \A i \in 1..n : c[i] \in Nat
    BY <1>2, ElementOfSeq
  <2>2. /\ SubSeq(c, 1, n) \in Seq(Nat)
        /\ Len(SubSeq(c, 1, n)) = IF 1 <= n THEN n - 1 + 1 ELSE 0
        /\ \A i \in 1..(n - 1 + 1) : SubSeq(c, 1, n)[i] = c[1 + i - 1]
    BY <1>2, <2>1, SubSeqProperties
  <2>3. /\ n - 1 + 1 = n /\ (~(1 <= n) => n = 0) /\ \A i \in 1..n : 1 + i - 1 = i
    BY <1>2
  <2> QED BY <2>2, <2>3
<1>5. SubSeq(c, 1, n) = a
  <2> DEFINE d == SubSeq(c, 1, n)
  <2>1. d \in Seq(Nat) /\ Len(d) = n /\ \A i \in 1..n : d[i] = a[i]
    BY <1>2, <1>4
  <2> HIDE DEF d
  <2>2. d = a
    BY <1>2, <2>1, SeqEqual
  <2> QED BY <2>2 DEF d
<1>6. SubSeq(c, 1, n) = SubSeq(a, 1, n) /\ n <= Len(c)
  BY <1>2, <1>3, <1>5
<1> QED BY <1>6 DEF IsPrefix, c

LEMMA WholeStream ==
  ASSUME Shape
  PROVE  stream \in Beginnings
<1>1. stream \in Seq(Units) /\ Len(stream) \in Nat /\ sent \in 0..Len(stream)
  BY StreamTypes DEF Shape
<1>2. Len(stream) \in sent..Len(stream) /\ SubSeq(stream, 1, Len(stream)) = stream
  BY <1>1, SubSeqFull
<1> QED BY <1>2 DEF Beginnings

LEMMA FollowingIsExpected ==
  ASSUME Shape, answers \in Seq(Responses), Follows(stream)
  PROVE  AnswersAsExpected
<1>1. PICK p \in 1..(consumed + 1) : Reference(stream) = Codes \o From(stream)[p]
  BY DEF Follows
<1>2. stream \in Seq(Units) /\ p \in 1..(Len(stream) + 1)
  BY StreamTypes DEF Shape
<1>3. From(stream)[p] \in Seq(Nat)
  BY <1>2, FromType
<1>4. Codes \in Seq(Nat)
  BY CodesTypes
<1> QED BY <1>1, <1>3, <1>4, PrefixOfConcat DEF AnswersAsExpected

-----------------------------------------------------------------------------
(* Steps of the parser                                                      *)

LEMMA FailFollows ==
  ASSUME IInv, NEW s, NEW p, p \in 1..(consumed + 1), NEW code, Fail(code),
         From(s)[p] = <<code>>, Reference(s) = Codes \o From(s)[p],
         UNCHANGED answers, consumed' \in Nat, consumed <= consumed'
  PROVE  Follows(s)'
<1>1. ctx \in Contexts /\ ctx' = [ctx EXCEPT !.recv = "ERROR", !.statu = code]
  BY DEF IInv, Shape, Fail
<1>2. ctx'.recv = "ERROR" /\ ctx'.statu = code
  BY <1>1 DEF Contexts
<1>3. Parsed(s, p)'
  BY <1>2 DEF Parsed
<1>4. p \in 1..(consumed' + 1)
  <2>1. consumed \in Nat
    BY BufferSpan DEF IInv
  <2> QED BY <2>1
<1>5. Codes' = Codes
  BY DEF Codes
<1> QED BY <1>3, <1>4, <1>5 DEF Follows

\* A line read as the first one of a request.
LEMMA FirstLineFollows ==
  ASSUME IInv, NEW s, s \in Beginnings, ctx.recv = "LINE", ctx.request.headers = <<>>,
         Reference(s) = Codes \o From(s)[consumed + 1], UNCHANGED answers,
         NEW line, line = B!GetLine(in, LineEnds), line # <<>>, Take(Len(line)),
         Len(line) <= MaxLine, ParseHttpLine(line)
  PROVE  Follows(s)'
<1>1. /\ Shape /\ BufferIsTheStream /\ ctx \in Contexts /\ ctx.request \in Requests
  BY DEF IInv, Shape, Contexts
<1>2. /\ s \in Seq(Units) /\ Len(s) \in Nat /\ sent <= Len(s)
      /\ sent \in Nat /\ consumed \in Nat /\ consumed <= sent /\ MaxLine \in Nat
  BY <1>1, BeginningProperties, BufferSpan, HttpAssumption
<1>3. PICK p, end : p = consumed + 1 /\ end = consumed + Len(line)
  OBVIOUS
<1>4. /\ Len(line) \in Nat /\ Len(line) > 0 /\ end <= sent
      /\ LineEnd(s, p) = end /\ s[end] = Last(line) /\ ~TooLong(s, p)
  BY <1>1, <1>2, <1>3, LineOfTheStream
<1>5. consumed' = end /\ end \in p..end /\ p \in 1..(consumed + 1) /\ p \in 1..(end + 1)
      /\ end \in Nat \ {0} /\ p \in 1..(Len(s) + 1) /\ consumed <= end
  BY <1>2, <1>3, <1>4 DEF Take
<1>6. CASE Last(line).kind # "line"
  <2>1. From(s)[p] = <<400>>
    BY <1>2, <1>4, <1>5, <1>6, RequestLineFails
  <2>2. Fail(400)
    BY <1>6 DEF ParseHttpLine
  <2> QED BY <1>3, <1>5, <2>1, <2>2, FailFollows
<1>7. CASE Last(line).kind = "line"
  <2>1. ctx' = [ctx EXCEPT !.recv = "HEAD", !.request.route = Last(line).route,
                           !.request.version = Last(line).version]
    BY <1>7 DEF ParseHttpLine
  <2>2. /\ ctx'.recv = "HEAD"
        /\ ctx'.request = [ctx.request EXCEPT !.route = Last(line).route,
                                              !.version = Last(line).version]
    BY <1>1, <2>1 DEF Contexts
  <2>3. ctx'.request.headers = <<>> /\ ctx'.request.route = s[end].route
    BY <1>1, <1>4, <2>2 DEF Requests
  <2>4. RequestLineRead(s, p, end)'
    BY <1>4, <1>7, <2>3 DEF RequestLineRead
  <2>5. PICK first : first = end + 1
    OBVIOUS
  <2>6. first \in 1..(Len(s) + 1)
    BY <1>2, <1>4, <1>5, <2>5
  <2>7. /\ first \in LineStarts(s, first) /\ \A r \in LineStarts(s, first) : ~(r < first)
    <3>1. first \in Nat
      BY <2>6
    <3>2. /\ first \in LineStarts(s, first)
          /\ \A r \in LineStarts(s, first) : r \in Nat /\ first <= r
      BY <1>2, <2>6, LineStartsTypes
    <3> QED BY <3>1, <3>2
  <2>8. Lengths(s, first, first) = {}
    BY <2>7 DEF Lengths
  <2>9. "Content-Length" \notin DOMAIN ctx'.request.headers
    BY <2>3
  <2>10. HeadRead(s, first, first)'
    BY <2>7, <2>8, <2>9 DEF HeadRead
  <2>11. Parsed(s, p)'
    BY <1>5, <2>2, <2>4, <2>5, <2>10 DEF Parsed
  <2>12. Codes' = Codes
    BY DEF Codes
  <2> QED BY <1>3, <1>5, <2>11, <2>12 DEF Follows
<1> QED BY <1>6, <1>7

\* What a line decides that is read as a header.
LEMMA VerdictOfLine ==
  ASSUME Shape, BufferIsTheStream, NEW s, s \in Beginnings,
         NEW line, line = B!GetLine(in, LineEnds), line # <<>>
  PROVE  /\ Len(line) > MaxLine => Verdict(s, consumed + 1) = 414
         /\ Len(line) <= MaxLine =>
               /\ line = <<[kind |-> "blank"]>> =>
                     Verdict(s, consumed + 1) = 2 /\ Len(line) = 1
               /\ line # <<[kind |-> "blank"]>> =>
                     Verdict(s, consumed + 1) = IF Last(line).kind # "head" THEN 400 ELSE 0
<1>1. /\ s \in Seq(Units) /\ Len(s) \in Nat /\ sent <= Len(s)
      /\ sent \in Nat /\ consumed \in Nat /\ consumed <= sent /\ MaxLine \in Nat
  BY BeginningProperties, BufferSpan, HttpAssumption
<1>2. PICK q, end : q = consumed + 1 /\ end = consumed + Len(line)
  OBVIOUS
<1>3. /\ Len(line) \in Nat /\ Len(line) > 0 /\ end <= sent
      /\ LineEnd(s, q) = end /\ s[end] = Last(line)
      /\ TooLong(s, q) <=> Len(line) > MaxLine
  BY <1>1, <1>2, LineOfTheStream
<1>4. end = q <=> Len(line) = 1
  <2>1. PICK n : n = Len(line)
    OBVIOUS
  <2>2. consumed + n = consumed + 1 <=> n = 1
    BY <1>1, <1>3, <2>1
  <2> QED BY <1>2, <2>1, <2>2
<1>5. end # 0 /\ end \in Nat
  BY <1>1, <1>2, <1>3
<1>6. Len(line) > MaxLine => Verdict(s, q) = 414
  BY <1>3 DEF Verdict
<1>7. ASSUME Len(line) <= MaxLine PROVE ~TooLong(s, q)
  BY <1>1, <1>3, <1>7
<1>8. line \in Seq(Units) /\ Last(line) \in Units
  BY LineProperties DEF Shape
<1>9. line = <<[kind |-> "blank"]>> <=> Len(line) = 1 /\ Last(line).kind = "blank"
  <2>1. ASSUME line = <<[kind |-> "blank"]>> PROVE Len(line) = 1 /\ Last(line).kind = "blank"
    BY <2>1 DEF Last
  <2>2. ASSUME Len(line) = 1, Last(line).kind = "blank" PROVE line = <<[kind |-> "blank"]>>
    <3>1. Last(line) = [kind |-> "blank"]
      BY <1>8, <2>2, UnitKinds
    <3>2. line[1] = [kind |-> "blank"]
      BY <2>2, <3>1 DEF Last
    <3>3. <<[kind |-> "blank"]>> \in Seq(Units)
      BY <1>8, <3>1
    <3> DEFINE blank == <<[kind |-> "blank"]>>
    <3>4. Len(blank) = 1 /\ blank[1] = [kind |-> "blank"]
      OBVIOUS
    <3> HIDE DEF blank
    <3>5. \A i \in 1..Len(line) : line[i] = blank[i]
      BY <2>2, <3>2, <3>4
    <3>6. line = blank
      BY <1>8, <2>2, <3>3, <3>4, <3>5, SeqEqual DEF blank
    <3> QED BY <3>6 DEF blank
  <2> QED BY <2>1, <2>2
<1>10. ASSUME Len(line) <= MaxLine
       PROVE  Verdict(s, q) = IF Len(line) = 1 /\ Last(line).kind = "blank" THEN 2
                              ELSE IF Last(line).kind # "head" THEN 400 ELSE 0
  <2>1. s[q].kind = "blank" /\ end = q <=> Last(line).kind = "blank" /\ end = q
    BY <1>3
  <2> QED BY <1>3, <1>4, <1>5, <1>7, <1>10, <2>1 DEF Verdict
<1> QED BY <1>2, <1>6, <1>9, <1>10

LEMMA HeaderFails ==
  ASSUME IInv, NEW s, s \in Beginnings, NEW p, p \in 1..(consumed + 1), NEW end,
         end \in p..consumed, RequestLineRead(s, p, end), HeadRead(s, end + 1, consumed + 1),
         Verdict(s, consumed + 1) >= 400, Verdict(s, consumed + 1) \in Nat
  PROVE  From(s)[p] = <<Verdict(s, consumed + 1)>>
<1>1. /\ s \in Seq(Units) /\ Len(s) \in Nat /\ sent <= Len(s)
      /\ sent \in Nat /\ consumed \in Nat /\ consumed <= sent
  BY BeginningProperties, BufferSpan DEF IInv
<1>2. p \in 1..(Len(s) + 1) /\ end \in Nat \ {0}
  BY <1>1
<1>3. PICK q : q = consumed + 1
  OBVIOUS
<1>4. /\ LineEnd(s, p) = end /\ ~TooLong(s, p) /\ s[end].kind = "line"
      /\ q \in LineStarts(s, end + 1) /\ Verdict(s, q) # 0 /\ Verdict(s, q) >= 400
      /\ \A r \in LineStarts(s, end + 1) : r < q => Verdict(s, r) = 0
  BY <1>3 DEF RequestLineRead, HeadRead
<1>5. From(s)[p] = <<Verdict(s, q)>>
  BY <1>1, <1>2, <1>4, HeadersDecide
<1> QED BY <1>3, <1>5

\* A header, or the line that ends them, or none.
LEMMA HeaderLineFollows ==
  ASSUME IInv, NEW s, s \in Beginnings, ctx.recv = "HEAD", NEW p, p \in 1..(consumed + 1),
         NEW end, end \in p..consumed, RequestLineRead(s, p, end),
         HeadRead(s, end + 1, consumed + 1),
         Reference(s) = Codes \o From(s)[p], UNCHANGED answers,
         NEW line, line = B!GetLine(in, LineEnds), line # <<>>, Take(Len(line)),
         Len(line) <= MaxLine, ParseHttpHead(line)
  PROVE  Follows(s)'
<1>1. /\ Shape /\ BufferIsTheStream /\ ctx \in Contexts /\ ctx.request \in Requests
      /\ ctx.request.body = <<>>
  BY DEF IInv, Shape, Contexts, BodyFits
<1>2. /\ s \in Seq(Units) /\ Len(s) \in Nat /\ sent <= Len(s)
      /\ sent \in Nat /\ consumed \in Nat /\ consumed <= sent /\ MaxLine \in Nat
  BY <1>1, BeginningProperties, BufferSpan, HttpAssumption
<1>3. PICK q, last, first : q = consumed + 1 /\ last = consumed + Len(line) /\ first = end + 1
  OBVIOUS
<1>4. /\ Len(line) \in Nat /\ Len(line) > 0 /\ last <= sent
      /\ LineEnd(s, q) = last /\ s[last] = Last(line)
  BY <1>1, <1>2, <1>3, LineOfTheStream
<1>5. /\ consumed' = last /\ last \in Nat /\ end \in p..consumed' /\ p \in 1..(consumed' + 1)
      /\ consumed <= consumed' /\ first \in 1..(Len(s) + 1) /\ last # 0
      /\ q \in Nat \ {0} /\ q <= last
  BY <1>2, <1>3, <1>4 DEF Take
<1>6. /\ q \in LineStarts(s, first)
      /\ \A r \in LineStarts(s, first) : r < q => Verdict(s, r) = 0
      /\ Lengths(s, first, q) = {} <=> "Content-Length" \notin DOMAIN ctx.request.headers
      /\ Lengths(s, first, q) # {} =>
          ctx.request.headers["Content-Length"] = s[LineEnd(s, Min(Lengths(s, first, q)))].len
  BY <1>3 DEF HeadRead
<1>7. Codes' = Codes
  BY DEF Codes
<1>8. CASE line = <<[kind |-> "blank"]>>
  <2>1. Verdict(s, q) = 2 /\ Len(line) = 1
    <3>1. line = <<[kind |-> "blank"]>> => Verdict(s, consumed + 1) = 2 /\ Len(line) = 1
      BY <1>1, VerdictOfLine
    <3> QED BY <1>3, <1>8, <3>1
  <2>2. ctx' = [ctx EXCEPT !.recv = "BODY"]
    BY <1>8 DEF ParseHttpHead
  <2>3. ctx'.recv = "BODY" /\ ctx'.request = ctx.request
    BY <1>1, <2>2 DEF Contexts
  <2>4. consumed' = q + Len(ctx.request.body) /\ q = last
    <3>1. Len(ctx.request.body) = 0
      BY <1>1
    <3> QED BY <1>2, <1>3, <1>5, <2>1, <3>1
  <2>5. BodyRead(s, first, q)'
    BY <1>6, <2>1, <2>3, <2>4 DEF BodyRead, HeadRead
  <2>6. RequestLineRead(s, p, end)'
    BY <2>3 DEF RequestLineRead
  <2>7. q \in first..consumed'
    BY <1>2, <1>3, <1>5, <2>4
  <2>8. Parsed(s, p)'
    BY <1>3, <1>5, <2>5, <2>6, <2>7 DEF Parsed
  <2> QED BY <1>5, <1>7, <2>8 DEF Follows
<1>9. CASE line # <<[kind |-> "blank"]>> /\ Last(line).kind # "head"
  <2>1. Verdict(s, consumed + 1) = 400
    BY <1>1, <1>9, VerdictOfLine
  <2>2. From(s)[p] = <<400>>
    <3>1. Verdict(s, consumed + 1) >= 400 /\ Verdict(s, consumed + 1) \in Nat
      BY <2>1
    <3>2. From(s)[p] = <<Verdict(s, consumed + 1)>>
      BY <3>1, HeaderFails
    <3> QED BY <2>1, <3>2
  <2>3. Fail(400)
    BY <1>9 DEF ParseHttpHead
  <2> QED BY <1>5, <2>2, <2>3, FailFollows
<1>10. CASE line # <<[kind |-> "blank"]>> /\ Last(line).kind = "head"
  <2>1. Verdict(s, q) = 0
    BY <1>1, <1>3, <1>10, VerdictOfLine
  <2> DEFINE old == ctx.request.headers
             u == Last(line)
             new == [key \in DOMAIN old \cup {u.key} |->
                        IF key \in DOMAIN old THEN old[key] ELSE ValueOf(u)]
  <2>2. ctx'.recv = "HEAD" /\ ctx'.request = [ctx.request EXCEPT !.headers = new]
    <3>1. ctx' = [ctx EXCEPT !.request = [ctx.request EXCEPT !.headers = new]]
      BY <1>1, <1>10 DEF ParseHttpHead, SetHeader, Contexts
    <3> HIDE DEF new
    <3> QED BY <1>1, <3>1 DEF Contexts
  <2>3. /\ DOMAIN new = DOMAIN old \cup {u.key}
        /\ \A key \in DOMAIN new : new[key] = IF key \in DOMAIN old THEN old[key] ELSE ValueOf(u)
    OBVIOUS
  <2> HIDE DEF new
  <2>4. ctx'.request.headers = new /\ ctx'.request.route = ctx.request.route
    BY <1>1, <2>2 DEF Requests
  <2>5. u = s[last] /\ (u.key = "Content-Length" => ValueOf(u) = u.len)
    BY <1>4 DEF ValueOf
  <2> HIDE DEF u
  <2>6. PICK next : next = last + 1
    OBVIOUS
  <2>7. /\ next \in LineStarts(s, first)
        /\ \A r \in LineStarts(s, first) : r < next <=> r <= q
        /\ \A r : r \in Lengths(s, first, next) <=>
                 r \in Lengths(s, first, q) \/ (r = q /\ u.key = "Content-Length")
    <3>1. LineEnd(s, q) # 0
      BY <1>4, <1>5
    <3>2. /\ LineEnd(s, q) + 1 \in LineStarts(s, first)
          /\ \A r \in LineStarts(s, first) : r < LineEnd(s, q) + 1 <=> r <= q
          /\ \A r : r \in Lengths(s, first, LineEnd(s, q) + 1) <=>
                   \/ r \in Lengths(s, first, q)
                   \/ r = q /\ s[LineEnd(s, q)].key = "Content-Length"
      BY <1>2, <1>5, <1>6, <3>1, HeaderIsRead
    <3> QED BY <1>4, <2>5, <2>6, <3>2
  <2>8. ASSUME NEW r \in LineStarts(s, first), r < next PROVE Verdict(s, r) = 0
    <3>1. r \in Nat /\ (r < q \/ r = q)
      BY <1>2, <1>5, <2>7, <2>8, LineStartsTypes
    <3> QED BY <1>6, <2>1, <3>1
  <2> DEFINE L == Lengths(s, first, q)
             M == Lengths(s, first, next)
  <2>9. M = {} <=> "Content-Length" \notin DOMAIN new
    BY <1>6, <2>3, <2>7
  <2>10. M # {} => new["Content-Length"] = s[LineEnd(s, Min(M))].len
    <3> SUFFICES ASSUME M # {} PROVE new["Content-Length"] = s[LineEnd(s, Min(M))].len
      OBVIOUS
    <3>1. CASE L = {}
      <4>1. M = {q} /\ u.key = "Content-Length"
        <5>1. \A r : r \in M <=> r = q /\ u.key = "Content-Length"
          BY <2>7, <3>1
        <5> HIDE DEF M
        <5> QED BY <5>1
      <4>2. Min(M) = q
        <5>1. M \in SUBSET Nat /\ q \in M /\ \A y \in M : q <= y
          <6> HIDE DEF M
          <6> QED BY <1>5, <4>1
        <5> HIDE DEF M
        <5> QED BY <5>1, MinIs
      <4>3. "Content-Length" \in DOMAIN new /\ "Content-Length" \notin DOMAIN old
        BY <1>6, <2>9, <3>1
      <4>4. new["Content-Length"] = u.len
        BY <2>3, <2>5, <4>1, <4>3
      <4> QED BY <1>4, <2>5, <4>2, <4>4
    <3>2. CASE L # {}
      <4>1. Min(L) \in L /\ (\A r \in L : Min(L) <= r) /\ L \in SUBSET Nat
        BY <1>2, <1>5, <1>6, <3>2, LengthsProperties
      <4>2. PICK m : m = Min(L)
        OBVIOUS
      <4>3. m \in L /\ m \in Nat /\ \A r \in L : m <= r
        BY <4>1, <4>2
      <4>4. m < q
        BY <4>3 DEF Lengths
      <4>5. Min(M) = m
        <5>1. \A r : r \in M <=> r \in L \/ (r = q /\ u.key = "Content-Length")
          BY <2>7
        <5>2. M \in SUBSET Nat /\ m \in M /\ \A y \in M : m <= y
          <6> HIDE DEF M, L
          <6>1. ASSUME NEW y \in M PROVE y \in Nat /\ m <= y
            <7>1. CASE y \in L
              BY <4>1, <4>3, <7>1
            <7>2. CASE y = q
              BY <1>5, <4>3, <4>4, <7>2
            <7> QED BY <5>1, <7>1, <7>2
          <6>2. m \in M
            BY <4>3, <5>1
          <6> QED BY <6>1, <6>2
        <5> HIDE DEF M, L
        <5> QED BY <5>2, MinIs
      <4>6. "Content-Length" \in DOMAIN old /\ old["Content-Length"] = s[LineEnd(s, m)].len
        BY <1>6, <3>2, <4>2
      <4>7. new["Content-Length"] = old["Content-Length"]
        BY <2>3, <4>6
      <4> QED BY <4>5, <4>6, <4>7
    <3> QED BY <3>1, <3>2
  <2> HIDE DEF L, M
  <2>11. HeadRead(s, first, next)'
    BY <2>4, <2>7, <2>8, <2>9, <2>10 DEF HeadRead, M
  <2>12. RequestLineRead(s, p, end)'
    BY <2>4 DEF RequestLineRead
  <2>13. Parsed(s, p)'
    BY <1>3, <1>5, <2>2, <2>6, <2>11, <2>12 DEF Parsed
  <2> QED BY <1>5, <1>7, <2>13 DEF Follows
<1> QED BY <1>8, <1>9, <1>10

\* What is read as a line is what the reference reads there.
LEMMA LineFollows ==
  ASSUME IInv, RecvLine, NEW s, s \in Beginnings, Follows(s)
  PROVE  Follows(s)'
<1>1. PICK p \in 1..(consumed + 1) : Parsed(s, p) /\ Reference(s) = Codes \o From(s)[p]
  BY DEF Follows
<1>2. PICK line : line = B!GetLine(in, LineEnds)
  OBVIOUS
<1>3. /\ Shape /\ BufferIsTheStream /\ ctx.recv \in {"LINE", "HEAD"} /\ UNCHANGED answers
      /\ IF line = <<>>
         THEN IF B!ReadableBytes(in) > MaxLine
              THEN Fail(414) /\ UNCHANGED <<consumed, in, handling>>
              ELSE Stop
         ELSE /\ Take(Len(line)) /\ UNCHANGED handling
              /\ IF Len(line) > MaxLine THEN Fail(414)
                 ELSE IF ctx.recv = "LINE" THEN ParseHttpLine(line) ELSE ParseHttpHead(line)
  BY <1>2 DEF IInv, RecvLine
<1>4. /\ s \in Seq(Units) /\ Len(s) \in Nat /\ sent <= Len(s)
      /\ sent \in Nat /\ consumed \in Nat /\ consumed <= sent
      /\ B!ReadableBytes(in) \in Nat /\ MaxLine \in Nat
      /\ p \in 1..(consumed + 1) /\ p \in 1..(Len(s) + 1)
  BY <1>3, BeginningProperties, BufferSpan, HttpAssumption
<1>5. line # <<>> => Len(line) \in Nat
  BY <1>2, <1>3, LineOfTheStream
<1>6. CASE Stop
  <2>1. consumed' = consumed /\ ctx' = ctx /\ answers' = answers
    BY <1>3, <1>6 DEF Stop
  <2> QED BY <2>1 DEF Follows, Parsed, RequestLineRead, HeadRead, BodyRead, ContentLength, Codes
<1>7. CASE ctx.recv = "LINE"
  <2>1. p = consumed + 1 /\ ctx.request.headers = <<>>
    BY <1>1, <1>7 DEF Parsed, BodyRead
  <2>2. TooLong(s, consumed + 1) => From(s)[p] = <<414>>
    <3>1. TooLong(s, p) => From(s)[p] = <<414>>
      BY <1>4, RequestLineFails
    <3> QED BY <2>1, <3>1
  <2>3. CASE line = <<>> /\ B!ReadableBytes(in) > MaxLine
    <3>1. From(s)[p] = <<414>>
      BY <1>2, <1>3, <2>2, <2>3, LineOfTheStream
    <3>2. consumed' \in Nat /\ consumed <= consumed' /\ Fail(414)
      BY <1>3, <1>4, <2>3
    <3> QED BY <1>1, <1>3, <1>4, <3>1, <3>2, FailFollows
  <2>4. CASE line # <<>> /\ Len(line) > MaxLine
    <3>1. From(s)[p] = <<414>>
      BY <1>2, <1>3, <2>2, <2>4, LineOfTheStream
    <3>2. Fail(414) /\ consumed' = consumed + Len(line)
      BY <1>3, <2>4 DEF Take
    <3>3. consumed' \in Nat /\ consumed <= consumed'
      BY <1>4, <1>5, <2>4, <3>2
    <3> QED BY <1>1, <1>3, <1>4, <3>1, <3>2, <3>3, FailFollows
  <2>5. CASE line # <<>> /\ ~(Len(line) > MaxLine)
    <3>1. Take(Len(line)) /\ ParseHttpLine(line) /\ Len(line) <= MaxLine
      BY <1>3, <1>4, <1>5, <1>7, <2>5
    <3>2. Reference(s) = Codes \o From(s)[consumed + 1]
      BY <1>1, <2>1
    <3> QED BY <1>2, <1>3, <1>7, <2>1, <2>5, <3>1, <3>2, FirstLineFollows
  <2> QED BY <1>3, <1>6, <2>3, <2>4, <2>5
<1>8. CASE ctx.recv = "HEAD"
  <2>1. PICK end \in p..consumed :
           RequestLineRead(s, p, end) /\ HeadRead(s, end + 1, consumed + 1)
    BY <1>1, <1>8 DEF Parsed, BodyRead
  <2>2. Verdict(s, consumed + 1) = 414 => From(s)[p] = <<414>>
    <3> SUFFICES ASSUME Verdict(s, consumed + 1) = 414 PROVE From(s)[p] = <<414>>
      OBVIOUS
    <3>1. Verdict(s, consumed + 1) >= 400 /\ Verdict(s, consumed + 1) \in Nat
      OBVIOUS
    <3>2. From(s)[p] = <<Verdict(s, consumed + 1)>>
      BY <1>4, <2>1, <3>1, HeaderFails
    <3> QED BY <3>2
  <2>3. CASE line = <<>> /\ B!ReadableBytes(in) > MaxLine
    <3>1. TooLong(s, consumed + 1)
      BY <1>2, <1>3, <2>3, LineOfTheStream
    <3>2. Verdict(s, consumed + 1) = 414
      BY <3>1 DEF Verdict
    <3>3. consumed' \in Nat /\ consumed <= consumed' /\ Fail(414) /\ From(s)[p] = <<414>>
      BY <1>3, <1>4, <2>2, <2>3, <3>2
    <3> QED BY <1>1, <1>3, <1>4, <3>3, FailFollows
  <2>4. CASE line # <<>> /\ Len(line) > MaxLine
    <3>1. From(s)[p] = <<414>>
      BY <1>2, <1>3, <2>2, <2>4, VerdictOfLine
    <3>2. Fail(414) /\ consumed' = consumed + Len(line)
      BY <1>3, <2>4 DEF Take
    <3>3. consumed' \in Nat /\ consumed <= consumed'
      BY <1>4, <1>5, <2>4, <3>2
    <3> QED BY <1>1, <1>3, <1>4, <3>1, <3>2, <3>3, FailFollows
  <2>5. CASE line # <<>> /\ ~(Len(line) > MaxLine)
    <3>1. Take(Len(line)) /\ ParseHttpHead(line) /\ Len(line) <= MaxLine
      BY <1>3, <1>4, <1>5, <1>8, <2>5
    <3> QED BY <1>1, <1>2, <1>3, <1>4, <1>8, <2>1, <2>5, <3>1, HeaderLineFollows
  <2> QED BY <1>3, <1>6, <2>3, <2>4, <2>5
<1> QED BY <1>3, <1>7, <1>8

\* The body grows by what is taken, and is over when it is as long as it said.
LEMMA BodyFollows ==
  ASSUME IInv, RecvHttpBody, NEW s, s \in Beginnings, Follows(s)
  PROVE  Follows(s)'
<1>1. PICK p \in 1..(consumed + 1) : Parsed(s, p) /\ Reference(s) = Codes \o From(s)[p]
  BY DEF Follows
<1> DEFINE missing == ContentLength(ctx.request) - Len(ctx.request.body)
           n == IF B!ReadableBytes(in) >= missing THEN missing ELSE B!ReadableBytes(in)
           body == ctx.request.body \o B!ReadAsstring(in, n)
           recv == IF n = missing THEN "OVER" ELSE "BODY"
<1>2. /\ Shape /\ BufferIsTheStream /\ BodyFits /\ ctx \in Contexts /\ ctx.request \in Requests
      /\ ctx.request.body \in Seq(Units) /\ ctx.recv = "BODY"
  BY DEF IInv, Shape, Contexts, Requests, RecvHttpBody
<1>3. PICK end \in p..consumed :
        /\ RequestLineRead(s, p, end)
        /\ \E q \in (end + 1)..consumed : BodyRead(s, end + 1, q)
  BY <1>1, <1>2 DEF Parsed
<1>4. PICK q \in (end + 1)..consumed : BodyRead(s, end + 1, q)
  BY <1>3
<1>5. /\ Len(ctx.request.body) \in Nat /\ ContentLength(ctx.request) \in Nat
      /\ Len(ctx.request.body) <= ContentLength(ctx.request)
  BY <1>2, SizeIsNatural DEF BodyFits, LengthKnown, ContentLength
<1>6. /\ in.cells \in Seq(Units) /\ Len(in.cells) \in Nat /\ in.r \in Nat /\ in.w \in Nat
      /\ in.r <= in.w /\ in.w <= Len(in.cells)
      /\ B!ReadableBytes(in) = in.w - in.r /\ B!ReadableBytes(in) \in Nat
  BY <1>2, ContentProperties DEF Shape
<1>7. n \in 0..B!ReadableBytes(in) /\ n <= missing /\ n \in Nat /\ missing \in Nat
  BY <1>5, <1>6
<1>8. /\ ctx' = [ctx EXCEPT !.request.body = ctx.request.body \o B!ReadAsstring(in, n),
                            !.recv = recv]
      /\ Take(n) /\ UNCHANGED answers
  BY <1>2 DEF RecvHttpBody, Contexts, Requests
<1> HIDE DEF n
<1>9. body \in Seq(Units) /\ Len(body) = Len(ctx.request.body) + n
  <2>1. in.r + n \in Nat /\ in.r <= in.r + n /\ in.r + n <= Len(in.cells) /\ (in.r + n) - in.r = n
    BY <1>6, <1>7
  <2>2. B!ReadAsstring(in, n) \in Seq(Units) /\ Len(B!ReadAsstring(in, n)) = n
    BY <1>6, <2>1, PartProperties DEF B!ReadAsstring
  <2>3. /\ body \in Seq(Units)
        /\ Len(body) = Len(ctx.request.body) + Len(B!ReadAsstring(in, n))
    BY <1>2, <2>2, ConcatProperties
  <2> QED BY <2>2, <2>3
<1>10. recv \in {"BODY", "OVER"} /\ (recv = "OVER" => n = missing)
  OBVIOUS
<1> HIDE DEF recv, missing
<1>11. ctx'.request = [ctx.request EXCEPT !.body = body] /\ ctx'.recv = recv
  <2> DEFINE req == [ctx.request EXCEPT !.body = body]
  <2>1. ctx' = [[ctx EXCEPT !.request = req] EXCEPT !.recv = recv]
    BY <1>2, <1>8 DEF Contexts
  <2> HIDE DEF req, body
  <2>2. ctx'.request = req /\ ctx'.recv = recv
    BY <1>2, <2>1 DEF Contexts
  <2> QED BY <2>2 DEF req
<1> HIDE DEF body
<1>12. /\ ctx'.request.body = body /\ ctx'.request.headers = ctx.request.headers
       /\ ctx'.request.route = ctx.request.route
  BY <1>2, <1>11 DEF Requests
<1>13. consumed' = consumed + n /\ consumed \in Nat
  BY <1>2, <1>8, BufferSpan DEF Take
<1>14. consumed = q + Len(ctx.request.body) /\ Verdict(s, q) = 2 /\ HeadRead(s, end + 1, q)
  BY <1>4 DEF BodyRead
<1>15. p \in Nat \ {0} /\ end \in Nat /\ q \in Nat /\ p <= end /\ end + 1 <= q
  BY <1>13
<1>16. ContentLength(ctx.request)' = ContentLength(ctx.request)
  BY <1>12 DEF ContentLength
<1>17. consumed' = q + Len(body)
  BY <1>5, <1>7, <1>9, <1>13, <1>14, <1>15
<1>18. recv = "OVER" => Len(body) = ContentLength(ctx.request)
  BY <1>5, <1>9, <1>10 DEF missing
<1>19. HeadRead(s, end + 1, q)' /\ RequestLineRead(s, p, end)'
  BY <1>3, <1>12, <1>14 DEF HeadRead, RequestLineRead
<1>20. BodyRead(s, end + 1, q)'
  BY <1>10, <1>11, <1>12, <1>14, <1>16, <1>17, <1>18, <1>19 DEF BodyRead
<1>21. end \in p..consumed' /\ q \in (end + 1)..consumed' /\ p \in 1..(consumed' + 1)
  BY <1>7, <1>13, <1>15, <1>17
<1>22. Parsed(s, p)'
  BY <1>19, <1>20, <1>21 DEF Parsed
<1>23. Codes' = Codes
  BY <1>8 DEF Codes
<1> QED BY <1>1, <1>21, <1>22, <1>23 DEF Follows

\* A request that is complete is the next one the reference answers.
LEMMA RequestIsNext ==
  ASSUME IInv, ctx.recv = "OVER", NEW s, s \in Beginnings, Follows(s)
  PROVE  /\ Reference(s) = Codes \o (<<CodeOf(ctx.request.route)>> \o From(s)[consumed + 1])
         /\ From(s)[consumed + 1] \in Seq(Nat)
<1>1. PICK p \in 1..(consumed + 1) : Parsed(s, p) /\ Reference(s) = Codes \o From(s)[p]
  BY DEF Follows
<1>2. /\ Shape /\ BufferIsTheStream
  BY DEF IInv
<1>3. PICK end \in p..consumed :
        /\ RequestLineRead(s, p, end)
        /\ \E q \in (end + 1)..consumed : BodyRead(s, end + 1, q)
  BY <1>1 DEF Parsed
<1>4. PICK q \in (end + 1)..consumed : BodyRead(s, end + 1, q)
  BY <1>3
<1>5. /\ s \in Seq(Units) /\ Len(s) \in Nat /\ sent <= Len(s)
      /\ sent \in Nat /\ consumed \in Nat /\ consumed <= sent
      /\ p \in 1..(Len(s) + 1) /\ consumed + 1 \in 1..(Len(s) + 1)
  BY <1>2, BeginningProperties, BufferSpan
<1>6. PICK first : first = end + 1
  OBVIOUS
<1>7. end \in Nat \ {0} /\ first \in 1..(Len(s) + 1) /\ q \in Nat
  BY <1>5, <1>6
<1>8. /\ LineEnd(s, p) = end /\ ~TooLong(s, p) /\ s[end].kind = "line"
      /\ s[end].route = ctx.request.route
      /\ q \in LineStarts(s, first) /\ Verdict(s, q) = 2 /\ Verdict(s, q) # 0
      /\ \A r \in LineStarts(s, first) : r < q => Verdict(s, r) = 0
      /\ consumed = q + ContentLength(ctx.request)
  BY <1>3, <1>4, <1>6 DEF RequestLineRead, BodyRead, HeadRead
<1>9. BodySize(s, first, q) = ContentLength(ctx.request)
  <2>1. /\ Lengths(s, first, q) = {} <=> "Content-Length" \notin DOMAIN ctx.request.headers
        /\ Lengths(s, first, q) # {} =>
             ctx.request.headers["Content-Length"] = s[LineEnd(s, Min(Lengths(s, first, q)))].len
    BY <1>4, <1>6 DEF BodyRead, HeadRead
  <2> QED BY <2>1 DEF BodySize, ContentLength
<1>10. q + BodySize(s, first, q) + 1 = consumed + 1
  BY <1>8, <1>9
<1>11. consumed + 1 <= Len(s) + 1
  BY <1>5
<1>12. From(s)[p] = <<CodeOf(s[end].route)>> \o From(s)[q + BodySize(s, first, q) + 1]
  BY <1>5, <1>6, <1>7, <1>8, <1>10, <1>11, HeadersDecide
<1>13. From(s)[p] = <<CodeOf(ctx.request.route)>> \o From(s)[consumed + 1]
  BY <1>8, <1>10, <1>12
<1> QED BY <1>1, <1>5, <1>13, FromType

\* Then its answer is the next one.
LEMMA AnswerFollows ==
  ASSUME IInv, ctx.recv = "OVER", status = "CONNECTED", answers \in Seq(Responses),
         NEW s, s \in Beginnings, Follows(s),
         NEW close \in BOOLEAN, WriteResponse(CodeOf(ctx.request.route), close),
         ctx' = NewContext, UNCHANGED consumed
  PROVE  Follows(s)' /\ answers' \in Seq(Responses)
<1>1. /\ Reference(s) = Codes \o (<<CodeOf(ctx.request.route)>> \o From(s)[consumed + 1])
      /\ From(s)[consumed + 1] \in Seq(Nat)
  BY RequestIsNext
<1>2. PICK code : code = CodeOf(ctx.request.route)
  OBVIOUS
<1>3. code \in Nat /\ <<code>> \in Seq(Nat)
  <2>1. code \in Nat
    BY <1>2 DEF CodeOf
  <2> QED BY <2>1
<1>4. answers' \in Seq(Responses) /\ Codes' = Codes \o <<code>>
  BY <1>2, <1>3, CodesStep
<1>5. PICK next, rest : next = consumed + 1 /\ rest = From(s)[next]
  OBVIOUS
<1>6. Reference(s) = Codes' \o rest
  <2>1. Codes \in Seq(Nat) /\ rest \in Seq(Nat)
    BY <1>1, <1>5, CodesTypes
  <2>2. (Codes \o <<code>>) \o rest = Codes \o (<<code>> \o rest)
    BY <1>3, <2>1, ConcatAssociative
  <2> QED BY <1>1, <1>2, <1>4, <1>5, <2>2
<1>7. ctx'.recv = "LINE" /\ ctx'.request.headers = <<>>
  BY DEF NewContext, NewRequest
<1>8. Parsed(s, next)'
  BY <1>5, <1>7 DEF Parsed
<1>9. next \in 1..(consumed' + 1)
  BY <1>5, BufferSpan DEF IInv
<1> QED BY <1>4, <1>5, <1>6, <1>8, <1>9 DEF Follows

\* A request that cannot be read is the last one.
LEMMA ErrorIsNext ==
  ASSUME IInv, ctx.statu >= 400, NEW s, s \in Beginnings, Follows(s)
  PROVE  Reference(s) = Codes \o <<ctx.statu>>
<1>1. ctx.recv = "ERROR"
  <2>1. ctx.statu # 200
    OBVIOUS
  <2> QED BY <2>1 DEF IInv, ErrorsMarked
<1>2. PICK p \in 1..(consumed + 1) : Parsed(s, p) /\ Reference(s) = Codes \o From(s)[p]
  BY DEF Follows
<1>3. From(s)[p] = <<ctx.statu>>
  BY <1>1, <1>2 DEF Parsed, BodyRead
<1> QED BY <1>2, <1>3

LEMMA AnswerIsExpected ==
  ASSUME answers \in Seq(Responses), status = "CONNECTED", UNCHANGED stream,
         NEW code \in Nat, NEW close \in BOOLEAN, WriteResponse(code, close),
         NEW rest \in Seq(Nat), Reference(stream) = Codes \o (<<code>> \o rest)
  PROVE  AnswersAsExpected' /\ answers' \in Seq(Responses)
<1>1. answers' \in Seq(Responses) /\ Codes' = Codes \o <<code>>
  BY CodesStep
<1>2. Codes \in Seq(Nat) /\ <<code>> \in Seq(Nat)
  BY CodesTypes
<1>3. Codes' \in Seq(Nat)
  BY <1>1, <1>2, ConcatProperties
<1>4. (Codes \o <<code>>) \o rest = Codes \o (<<code>> \o rest)
  BY <1>2, ConcatAssociative
<1>5. Reference(stream) = Codes' \o rest
  BY <1>1, <1>4
<1>6. IsPrefix(Codes', Codes' \o rest)
  BY <1>3, PrefixOfConcat
<1>7. Reference(stream') = Reference(stream)
  OBVIOUS
<1> QED BY <1>1, <1>5, <1>6, <1>7 DEF AnswersAsExpected

\* A step that answers nothing and leaves the parser where it is.
LEMMA SameFollows ==
  ASSUME NEW s, Follows(s), UNCHANGED <<consumed, answers>>,
         ctx'.recv = ctx.recv, ctx'.statu = ctx.statu, ctx'.request = ctx.request
  PROVE  Follows(s)'
<1>1. Codes' = Codes
  BY DEF Codes
<1> QED BY <1>1 DEF Follows, Parsed, RequestLineRead, HeadRead, BodyRead, ContentLength

LEMMA SilentStep ==
  ASSUME ParserInv, UNCHANGED <<stream, answers>>,
         status' = "CONNECTED" =>
            /\ status = "CONNECTED"
            /\ \A s \in Beginnings' : s \in Beginnings /\ (Follows(s) => Follows(s)')
  PROVE  ParserInv'
<1>1. answers' \in Seq(Responses)
  BY DEF ParserInv
<1>2. AnswersAsExpected'
  BY DEF ParserInv, AnswersAsExpected, Codes
<1>3. status' = "CONNECTED" => \A s \in Beginnings' : Follows(s)'
  BY DEF ParserInv
<1> QED BY <1>1, <1>2, <1>3 DEF ParserInv

\* Answering a request that is complete, at once or from another thread.
LEMMA AnswerStep ==
  ASSUME IInv, ParserInv, ctx.recv = "OVER",
         NEW close \in BOOLEAN, WriteResponse(CodeOf(ctx.request.route), close),
         ctx' = NewContext, UNCHANGED <<stream, sent, consumed>>,
         status' = "CONNECTED" => status = "CONNECTED"
  PROVE  ParserInv'
<1>1. CASE status # "CONNECTED"
  <2>1. UNCHANGED answers /\ status' # "CONNECTED"
    BY <1>1 DEF WriteResponse
  <2> QED BY <2>1, SilentStep
<1>2. CASE status = "CONNECTED"
  <2>1. answers \in Seq(Responses) /\ \A s \in Beginnings : Follows(s)
    BY <1>2 DEF ParserInv
  <2>2. Beginnings' = Beginnings
    BY DEF Beginnings
  <2>3. ASSUME NEW s, s \in Beginnings' PROVE Follows(s)'
    <3>1. s \in Beginnings /\ Follows(s)
      BY <2>1, <2>2, <2>3
    <3> QED BY <1>2, <2>1, <3>1, AnswerFollows
  <2>4. AnswersAsExpected' /\ answers' \in Seq(Responses)
    <3>1. PICK s : s = stream
      OBVIOUS
    <3>2. s \in Beginnings
      BY <3>1, WholeStream DEF IInv
    <3>3. PICK rest : rest = From(s)[consumed + 1]
      OBVIOUS
    <3>4. /\ Reference(s) = Codes \o (<<CodeOf(ctx.request.route)>> \o rest)
          /\ rest \in Seq(Nat)
      BY <2>1, <3>2, <3>3, RequestIsNext
    <3>5. PICK code : code = CodeOf(ctx.request.route)
      OBVIOUS
    <3>6. code \in Nat
      BY <3>5 DEF CodeOf
    <3>7. /\ Reference(stream) = Codes \o (<<code>> \o rest) /\ WriteResponse(code, close)
      BY <3>1, <3>4, <3>5
    <3> QED BY <1>2, <2>1, <3>4, <3>6, <3>7, AnswerIsExpected
  <2> QED BY <2>3, <2>4 DEF ParserInv
<1> QED BY <1>1, <1>2

LEMMA ErrorStep ==
  ASSUME IInv, ParserInv, HandleError
  PROVE  ParserInv'
<1>1. /\ ctx.statu >= 400 /\ WriteResponse(ctx.statu, IsClose(ctx.request))
      /\ status' # "CONNECTED" /\ UNCHANGED stream
  BY DEF HandleError
<1>2. CASE status # "CONNECTED"
  <2>1. UNCHANGED answers /\ status' # "CONNECTED"
    BY <1>1, <1>2 DEF WriteResponse
  <2> QED BY <1>1, <2>1, SilentStep
<1>3. CASE status = "CONNECTED"
  <2>1. PICK code, close : code = ctx.statu /\ close = IsClose(ctx.request)
    OBVIOUS
  <2>2. code \in Nat /\ close \in BOOLEAN
    <3>1. code \in {200, 400, 414}
      BY <2>1 DEF IInv, Shape, Contexts
    <3>2. code \in Nat
      BY <3>1
    <3>3. close \in BOOLEAN
      BY <2>1 DEF IsClose
    <3> QED BY <3>2, <3>3
  <2>3. PICK s : s = stream
    OBVIOUS
  <2>4. s \in Beginnings
    BY <2>3, WholeStream DEF IInv
  <2>5. Reference(s) = Codes \o <<code>>
    BY <1>1, <1>3, <2>1, <2>4, ErrorIsNext DEF ParserInv
  <2>6. /\ <<>> \in Seq(Nat) /\ <<code>> \o <<>> = <<code>>
    <3>1. <<code>> \in Seq(Nat)
      BY <2>2
    <3> QED BY <3>1, ConcatEmptySeq, EmptySeq
  <2>7. Reference(stream) = Codes \o (<<code>> \o <<>>)
    BY <2>3, <2>5, <2>6
  <2>8. WriteResponse(code, close) /\ answers \in Seq(Responses)
    BY <1>1, <2>1 DEF ParserInv
  <2>9. PICK rest : rest = <<>>
    OBVIOUS
  <2>10. AnswersAsExpected' /\ answers' \in Seq(Responses)
    BY <1>1, <1>3, <2>2, <2>6, <2>7, <2>8, <2>9, AnswerIsExpected
  <2> QED BY <1>1, <2>10 DEF ParserInv
<1> QED BY <1>2, <1>3

LEMMA ParserInit == Init => ParserInv
<1> SUFFICES ASSUME Init PROVE ParserInv
  OBVIOUS
<1>1. IInv /\ Shape
  BY InitInv DEF IInv
<1>2. answers = <<>> /\ consumed = 0 /\ ctx = NewContext
  BY DEF Init
<1>3. answers \in Seq(Responses) /\ Len(answers) = 0
  BY <1>2, EmptySeq
<1>4. Codes = <<>>
  BY <1>3, CodesTypes, EmptySeq
<1>5. ASSUME NEW s, s \in Beginnings PROVE Follows(s)
  <2>1. s \in Seq(Units) /\ Len(s) \in Nat
    BY <1>1, <1>5, BeginningProperties
  <2>2. From(s)[1] \in Seq(Nat)
    <3>1. 1 \in 1..(Len(s) + 1)
      BY <2>1
    <3> QED BY <2>1, <3>1, FromType
  <2>3. Reference(s) = Codes \o From(s)[1]
    BY <1>4, <2>2, ConcatEmptySeq DEF Reference
  <2>4. Parsed(s, 1)
    BY <1>2 DEF Parsed, NewContext, NewRequest
  <2>5. 1 \in 1..(consumed + 1)
    BY <1>2
  <2> QED BY <2>3, <2>4, <2>5 DEF Follows
<1>6. AnswersAsExpected
  <2>1. PICK s : s = stream
    OBVIOUS
  <2>2. Follows(s)
    BY <1>1, <1>5, <2>1, WholeStream
  <2>3. Follows(stream)
    BY <2>1, <2>2
  <2> QED BY <1>1, <1>3, <2>3, FollowingIsExpected
<1> QED BY <1>3, <1>5, <1>6 DEF ParserInv

LEMMA ParserInductive ==
  ASSUME IInv, ParserInv, [Next]_vars
  PROVE  ParserInv'
<1>1. Shape
  BY DEF IInv
<1>2. Beginnings' = Beginnings \/ ~UNCHANGED <<stream, sent>>
  BY DEF Beginnings
<1>3. ASSUME UNCHANGED <<stream, consumed, answers>>, Beginnings' \subseteq Beginnings,
             status' = "CONNECTED" => status = "CONNECTED",
             ctx'.recv = ctx.recv, ctx'.statu = ctx.statu, ctx'.request = ctx.request
      PROVE  ParserInv'
  <2>1. ASSUME NEW s, s \in Beginnings' PROVE s \in Beginnings /\ (Follows(s) => Follows(s)')
    BY <1>3, <2>1, SameFollows
  <2> QED BY <1>3, <2>1, SilentStep
<1>4. CASE HandleRead
  <2>1. PICK n \in 1..MaxRecv : sent' = sent + n
    BY <1>4 DEF HandleRead
  <2>2. UNCHANGED <<stream, consumed, ctx, status, answers>>
    BY <1>4 DEF HandleRead
  <2>3. sent \in Nat /\ n \in Nat /\ Len(stream) \in Nat
    BY <1>1, StreamTypes, HttpAssumption DEF Shape
  <2>4. sent'..Len(stream) \subseteq sent..Len(stream)
    BY <2>1, <2>3
  <2>5. Beginnings' \subseteq Beginnings
    BY <2>2, <2>4 DEF Beginnings
  <2> QED BY <1>3, <2>2, <2>5
<1>5. CASE PeerCloses
  <2>1. status = "CONNECTED" /\ Shutdown(in) /\ UNCHANGED <<stream, answers>>
    BY <1>5 DEF PeerCloses
  <2>2. status' # "CONNECTED"
    BY <2>1 DEF Shutdown
  <2> QED BY <2>1, <2>2, SilentStep
<1>6. CASE WorkerPosts
  BY <1>2, <1>3, <1>6 DEF WorkerPosts
<1>7. CASE Answer
  <2>1. /\ WriteResponse(CodeOf("deferred"), job.close) /\ ctx' = NewContext
        /\ UNCHANGED <<stream, sent, consumed>> /\ job.at = "loop"
        /\ Shutdown(in) \/ UNCHANGED <<status, handling>>
    BY <1>7 DEF Answer
  <2>2. ctx.recv = "OVER" /\ ctx.request.route = "deferred"
    BY <2>1 DEF IInv, PendingIsDeferred
  <2>3. PICK close : close = job.close
    OBVIOUS
  <2>4. close \in BOOLEAN
    BY <1>1, <2>3 DEF Shape
  <2>5. WriteResponse(CodeOf(ctx.request.route), close)
    BY <2>1, <2>2, <2>3
  <2>6. status' = "CONNECTED" => status = "CONNECTED"
    BY <2>1 DEF Shutdown
  <2> QED BY <2>1, <2>2, <2>4, <2>5, <2>6, AnswerStep
<1>8. CASE Pause
  BY <1>2, <1>3, <1>8 DEF Pause, Stop
<1>9. CASE RecvLine
  <2>1. UNCHANGED <<stream, sent, status, answers>>
    BY <1>9 DEF RecvLine
  <2>2. Beginnings' = Beginnings
    BY <1>2, <2>1
  <2>3. \A s \in Beginnings : Follows(s) => Follows(s)'
    BY <1>9, LineFollows
  <2> QED BY <2>1, <2>2, <2>3, SilentStep
<1>10. CASE RecvHttpBody
  <2>1. UNCHANGED <<stream, sent, status, answers>>
    BY <1>10 DEF RecvHttpBody
  <2>2. Beginnings' = Beginnings
    BY <1>2, <2>1
  <2>3. \A s \in Beginnings : Follows(s) => Follows(s)'
    BY <1>10, BodyFollows
  <2> QED BY <2>1, <2>2, <2>3, SilentStep
<1>11. CASE HandleError
  BY <1>11, ErrorStep
<1>12. CASE HandleRequest
  <2>1. /\ WriteResponse(CodeOf(ctx.request.route), IsClose(ctx.request))
        /\ ctx' = NewContext /\ ctx.recv = "OVER"
        /\ UNCHANGED <<stream, sent, consumed>>
        /\ Shutdown(in) \/ UNCHANGED <<status, handling>>
    BY <1>12 DEF HandleRequest
  <2>2. PICK close : close = IsClose(ctx.request)
    OBVIOUS
  <2>3. close \in BOOLEAN
    BY <2>2 DEF IsClose
  <2>4. WriteResponse(CodeOf(ctx.request.route), close)
    BY <2>1, <2>2
  <2>5. status' = "CONNECTED" => status = "CONNECTED"
    BY <2>1 DEF Shutdown
  <2> QED BY <2>1, <2>3, <2>4, <2>5, AnswerStep
<1>13. CASE DeferRequest
  <2>1. /\ ctx' = [ctx EXCEPT !.pending = TRUE]
        /\ UNCHANGED <<stream, sent, consumed, status, answers>>
    BY <1>13 DEF DeferRequest
  <2>2. ctx'.recv = ctx.recv /\ ctx'.statu = ctx.statu /\ ctx'.request = ctx.request
    BY <1>1, <2>1 DEF Shape, Contexts
  <2> QED BY <1>2, <1>3, <2>1, <2>2
<1>14. CASE UNCHANGED vars
  BY <1>2, <1>3, <1>14 DEF vars
<1>15. CASE HandleClose
  BY <1>2, <1>3, <1>15 DEF HandleClose
<1>16. CASE ReleaseInLoop
  <2>1. UNCHANGED <<stream, answers>> /\ status' # "CONNECTED"
    BY <1>16 DEF ReleaseInLoop
  <2> QED BY <2>1, SilentStep
<1>17. CASE ContentLengthThrows
  <2>1. UNCHANGED <<stream, answers>> /\ status' # "CONNECTED"
    BY <1>17 DEF ContentLengthThrows
  <2> QED BY <2>1, SilentStep
<1> QED BY <1>4, <1>5, <1>6, <1>7, <1>8, <1>9, <1>10, <1>11, <1>12, <1>13, <1>14, <1>15,
           <1>16, <1>17 DEF Next, OnMessage, Done

LEMMA NothingLost ==
  ASSUME IInv, ParserInv
  PROVE  NothingLostOnTheWay
<1> SUFFICES ASSUME AtRest PROVE Codes \o Reference(B!Content(in)) = Reference(Arrived)
  BY DEF NothingLostOnTheWay
<1>1. /\ Shape /\ BufferIsTheStream /\ status = "CONNECTED" /\ ctx.recv = "LINE"
  BY DEF IInv, AtRest
<1>2. /\ sent \in Nat /\ consumed \in Nat /\ consumed <= sent /\ sent <= Len(stream)
      /\ stream \in Seq(Units) /\ Len(stream) \in Nat
  BY <1>1, StreamTypes, BufferSpan
<1>3. PICK s, t : s = SubSeq(stream, 1, sent) /\ t = SubSeq(stream, consumed + 1, sent)
  OBVIOUS
<1>4. s \in Beginnings
  BY <1>2, <1>3 DEF Beginnings
<1>5. s \in Seq(Units) /\ Len(s) = sent /\ \A i \in 1..sent : s[i] = stream[i]
  <2>1. /\ SubSeq(stream, 0 + 1, sent) \in Seq(Units) /\ Len(SubSeq(stream, 0 + 1, sent)) = sent - 0
        /\ \A i \in 1..(sent - 0) : SubSeq(stream, 0 + 1, sent)[i] = stream[0 + i]
    BY <1>2, PartProperties
  <2>2. 0 + 1 = 1 /\ sent - 0 = sent /\ \A i \in 1..sent : 0 + i = i
    BY <1>2
  <2> QED BY <1>3, <2>1, <2>2
<1>6. /\ t \in Seq(Units) /\ Len(t) = sent - consumed
      /\ \A i \in 1..(sent - consumed) : t[i] = stream[consumed + i]
  BY <1>2, <1>3, PartProperties
<1>7. Rest(s, consumed, t)
  <2>1. ASSUME NEW j \in 1..(sent - consumed) PROVE t[j] = s[consumed + j]
    <3>1. consumed + j \in 1..sent
      BY <1>2
    <3> QED BY <1>5, <1>6, <3>1
  <2> QED BY <1>5, <1>6, <2>1 DEF Rest
<1>8. From(t)[1] = From(s)[consumed + 1]
  <2>1. PICK k : k = consumed
    OBVIOUS
  <2>2. k \in 0..Len(s) /\ Rest(s, k, t) /\ 1 \in 1..(Len(t) + 1)
    BY <1>2, <1>5, <1>6, <1>7, <2>1
  <2>3. From(t)[1] = From(s)[k + 1]
    BY <1>5, <1>6, <2>2, RestOfFrom
  <2> QED BY <2>1, <2>3
<1>9. Reference(s) = Codes \o From(s)[consumed + 1]
  <2>1. Follows(s)
    BY <1>1, <1>4 DEF ParserInv
  <2> QED BY <1>1, <2>1 DEF Follows, Parsed, BodyRead
<1>10. B!Content(in) = t /\ Arrived = s
  BY <1>1, <1>3 DEF BufferIsTheStream, Arrived
<1> QED BY <1>8, <1>9, <1>10 DEF Reference

LEMMA ParserInvariant == Spec => [](IInv /\ ParserInv)
<1>1. Init => IInv /\ ParserInv
  BY InitInv, ParserInit
<1>2. IInv /\ ParserInv /\ [Next]_vars => IInv' /\ ParserInv'
  BY Inductive, ParserInductive
<1> QED BY <1>1, <1>2, PTL DEF Spec

\* However the stream is cut into pieces, whatever is deferred and whenever the
\* peer leaves: what OnMessage has answered is the beginning of what a server
\* answers that sees the whole stream at once.
THEOREM AnswersAreThoseOfTheWhole == Spec => []AnswersAsExpected
<1>1. IInv /\ ParserInv => AnswersAsExpected
  BY DEF ParserInv
<1> QED BY <1>1, ParserInvariant, PTL

\* When OnMessage has returned between two requests, what it has answered and
\* what the buffer still holds make up all that has arrived.
THEOREM NothingIsLost == Spec => []NothingLostOnTheWay
<1>1. IInv /\ ParserInv => NothingLostOnTheWay
  BY NothingLost
<1> QED BY <1>1, ParserInvariant, PTL
=============================================================================
