----------------------------- MODULE ByteBuffer -----------------------------
(***************************************************************************)
(* Buffer (src/src/Buffer.cc): a vector with a read and a write index.     *)
(* What is readable lies between the two; room is found behind the write   *)
(* index, by moving the content to the front, or by growing the vector to  *)
(* exactly what is needed. The operations are operators on the record.     *)
(***************************************************************************)
EXTENDS Integers, Sequences, SequencesExt

CONSTANTS
    Byte,       \* what a cell can hold
    Zero        \* one of them, what resize() fills new cells with

\* cells is _buffer, r is _read_idx, w is _write_idx.
ByteBuffers == [cells : Seq(Byte), r : Nat, w : Nat]

\* The indices are in order and inside the vector: what the assertions of
\* MoveReadoffset and MoveWriteoffset protect.
WellFormed(b) == b \in ByteBuffers /\ b.r <= b.w /\ b.w <= Len(b.cells)

NewBuffer(size) == [cells |-> [i \in 1..size |-> Zero], r |-> 0, w |-> 0]

ReadableBytes(b) == b.w - b.r
HeadIdleSize(b) == b.r
TailIdleSize(b) == Len(b.cells) - b.w

\* The readable bytes, in order.
Content(b) == SubSeq(b.cells, b.r + 1, b.w)

\* std::copy of data over the cells that begin behind index at.
CopyTo(cells, at, data) ==
    [i \in 1..Len(cells) |->
        IF i \in (at + 1)..(at + Len(data)) THEN data[i - at] ELSE cells[i]]

\* Mutant: the indices go to the front, the content does not.
EnsureWritableBytesNoCopy(b, len) ==
    IF TailIdleSize(b) >= len THEN b
    ELSE IF HeadIdleSize(b) + TailIdleSize(b) >= len
    THEN [b EXCEPT !.r = 0, !.w = ReadableBytes(b)]
    ELSE [b EXCEPT !.cells = @ \o [i \in 1..(b.w + len - Len(@)) |-> Zero]]

EnsureWritableBytes(b, len) ==
    IF TailIdleSize(b) >= len THEN b
    ELSE IF HeadIdleSize(b) + TailIdleSize(b) >= len
    THEN [cells |-> CopyTo(b.cells, 0, Content(b)), r |-> 0, w |-> ReadableBytes(b)]
    ELSE [b EXCEPT !.cells = @ \o [i \in 1..(b.w + len - Len(@)) |-> Zero]]

Write(b, data) ==
    LET room == EnsureWritableBytes(b, Len(data))
    IN  [room EXCEPT !.cells = CopyTo(@, room.w, data)]

MoveWriteoffset(b, len) == [b EXCEPT !.w = @ + len]
MoveReadoffset(b, len) == [b EXCEPT !.r = @ + len]

WriteAndpush(b, data) == MoveWriteoffset(Write(b, data), Len(data))

ReadAsstring(b, len) == SubSeq(b.cells, b.r + 1, b.r + len)

\* GetLine: up to and with the first byte that ends a line, or nothing.
GetLine(b, ends) ==
    LET at == {i \in 1..ReadableBytes(b) : b.cells[b.r + i] \in ends}
    IN  ReadAsstring(b, IF at = {} THEN 0 ELSE Min(at))
=============================================================================
