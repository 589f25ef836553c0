-------------------------- MODULE AsyncLoggerProofs --------------------------
(***************************************************************************)
(* Proofs about the asynchronous logger, for any number of producers and   *)
(* messages, any buffer sizes and file limit, in safe and in unsafe mode.  *)
(* The sums and the joined sequences are recursive functions: what they    *)
(* compute is proved with the smallest index for which it would be wrong.  *)
(***************************************************************************)
EXTENDS AsyncLogger, SequenceTheorems, WellFoundedInduction, TLAPS

LEMMA Smallest ==
  ASSUME NEW T \in SUBSET Nat, T # {}
  PROVE  \E x \in T : \A y \in T : x <= y
<1>1. PICK x \in T : \A y \in T : ~(<<y, x>> \in OpToRel(<, Nat))
  BY NatLessThanWellFounded, WFMin, Zenon
<1>2. \A y \in T : ~(y < x)
  BY <1>1 DEF OpToRel
<1> QED BY <1>2

\* A message put at the end of two sequences that are joined.
LEMMA ConcatAppend ==
  ASSUME NEW S, NEW s \in Seq(S), NEW t \in Seq(S), NEW m \in S
  PROVE  s \o Append(t, m) = Append(s \o t, m) /\ s \o t \in Seq(S)
<1>1. /\ Append(t, m) = t \o <<m>> /\ s \o t \in Seq(S) /\ <<m>> \in Seq(S)
  BY AppendIsConcat, ConcatProperties
<1>2. Append(s \o t, m) = (s \o t) \o <<m>>
  BY <1>1, AppendIsConcat
<1>3. (s \o t) \o <<m>> = s \o (t \o <<m>>)
  BY <1>1, ConcatAssociative
<1> QED BY <1>1, <1>2, <1>3

-----------------------------------------------------------------------------
(* Bytes                                                                    *)

IsSum(f, s) == f = [i \in 0..Len(s) |-> IF i = 0 THEN 0 ELSE f[i - 1] + MsgLen[s[i]]]

LEMMA SumExists ==
  ASSUME NEW s \in Seq(Messages) PROVE \E f : IsSum(f, s)
<1> DEFINE To(f, m) == f = [i \in 0..m |-> IF i = 0 THEN 0 ELSE f[i - 1] + MsgLen[s[i]]]
           T == {m \in Nat : ~\E f : To(f, m)}
<1>1. ASSUME T # {} PROVE FALSE
  <2>1. T \subseteq Nat
    OBVIOUS
  <2>2. PICK m \in T : \A y \in T : m <= y
    BY <1>1, <2>1, Smallest
  <2>3. CASE m = 0
    <3>1. To([i \in 0..0 |-> 0], 0)
      OBVIOUS
    <3> QED BY <2>2, <2>3, <3>1
  <2>4. CASE m # 0
    <3>1. m \in Nat /\ m - 1 \in Nat /\ m - 1 \notin T
      <4>1. m \in Nat
        BY <2>2
      <4> HIDE DEF T
      <4> QED BY <2>2, <2>4, <4>1
    <3>2. PICK h : To(h, m - 1)
      BY <3>1
    <3> DEFINE f == [i \in 0..m |-> IF i < m THEN h[i] ELSE h[m - 1] + MsgLen[s[m]]]
               body(i) == IF i = 0 THEN 0 ELSE f[i - 1] + MsgLen[s[i]]
    <3>3. ASSUME NEW i \in 0..m PROVE f[i] = body(i)
      <4>1. i > 0 => i - 1 \in 0..m /\ f[i - 1] = h[i - 1]
        BY <3>1, <3>3
      <4>2. CASE i < m
        <5>1. i \in 0..(m - 1)
          BY <3>1, <3>3, <4>2
        <5>2. h[i] = IF i = 0 THEN 0 ELSE h[i - 1] + MsgLen[s[i]]
          BY <3>2, <5>1
        <5> QED BY <3>3, <4>1, <4>2, <5>2
      <4>3. CASE i = m
        BY <2>4, <3>1, <4>1, <4>3
      <4> QED BY <3>1, <3>3, <4>2, <4>3
    <3>4. f = [i \in 0..m |-> body(i)]
      BY <3>3
    <3>5. To(f, m)
      BY <3>4
    <3> QED BY <2>2, <3>5
  <2> QED BY <2>3, <2>4
<1>2. Len(s) \in Nat /\ Len(s) \notin T
  BY <1>1
<1>3. \E f : To(f, Len(s))
  BY <1>2
<1> QED BY <1>3 DEF IsSum

LEMMA BytesIsSum ==
  ASSUME NEW s \in Seq(Messages)
  PROVE  \E f : IsSum(f, s) /\ Bytes(s) = f[Len(s)]
<1> DEFINE f == CHOOSE sum : IsSum(sum, s)
<1>1. Bytes(s) = f[Len(s)]
  BY DEF Bytes, IsSum
<1>2. IsSum(f, s)
  BY SumExists
<1> QED BY <1>1, <1>2

LEMMA BytesEmpty == Bytes(<<>>) = 0
<1>1. <<>> \in Seq(Messages) /\ Len(<<>>) = 0
  OBVIOUS
<1>2. PICK f : IsSum(f, <<>>) /\ Bytes(<<>>) = f[0]
  BY <1>1, BytesIsSum
<1> QED BY <1>1, <1>2 DEF IsSum

LEMMA BytesAppend ==
  ASSUME NEW s \in Seq(Messages), NEW m \in Messages
  PROVE  Bytes(Append(s, m)) = Bytes(s) + MsgLen[m]
<1> DEFINE n == Len(s)
           e == Append(s, m)
<1>1. /\ n \in Nat /\ e \in Seq(Messages) /\ Len(e) = n + 1 /\ e[n + 1] = m
      /\ \A i \in 1..n : e[i] = s[i]
  BY AppendProperties
<1>2. PICK f : IsSum(f, s) /\ Bytes(s) = f[n]
  BY BytesIsSum
<1>3. PICK g : IsSum(g, e) /\ Bytes(e) = g[n + 1]
  BY <1>1, BytesIsSum
<1> HIDE DEF e
<1>4. /\ \A i \in 0..n : f[i] = IF i = 0 THEN 0 ELSE f[i - 1] + MsgLen[s[i]]
      /\ \A i \in 0..(n + 1) : g[i] = IF i = 0 THEN 0 ELSE g[i - 1] + MsgLen[e[i]]
  BY <1>1, <1>2, <1>3 DEF IsSum
<1> HIDE DEF n
<1> DEFINE T == {i \in 0..n : g[i] # f[i]}
<1>5. ASSUME T # {} PROVE FALSE
  <2>1. T \subseteq Nat
    OBVIOUS
  <2>2. PICK i \in T : \A j \in T : i <= j
    BY <1>5, <2>1, Smallest
  <2>3. i \in 0..n /\ i \in 0..(n + 1) /\ g[i] # f[i]
    BY <1>1, <2>2
  <2>4. i # 0
    BY <1>4, <2>3
  <2>5. i - 1 \in 0..n /\ i - 1 \notin T /\ e[i] = s[i]
    BY <1>1, <2>2, <2>3, <2>4
  <2>6. g[i - 1] = f[i - 1]
    BY <2>5
  <2> QED BY <1>4, <2>3, <2>4, <2>5, <2>6
<1>6. g[n] = f[n]
  BY <1>1, <1>5
<1>7. n + 1 \in 0..(n + 1) /\ n + 1 # 0 /\ (n + 1) - 1 = n
  BY <1>1
<1> QED BY <1>1, <1>2, <1>3, <1>4, <1>6, <1>7 DEF e

\* The bytes of two sequences add up.
LEMMA BytesConcat ==
  ASSUME NEW s \in Seq(Messages), NEW t \in Seq(Messages)
  PROVE  Bytes(s \o t) = Bytes(s) + Bytes(t) /\ Bytes(s) \in Nat /\ Bytes(t) \in Nat
<1>1. ASSUME NEW u \in Seq(Messages) PROVE Bytes(u) \in Nat
  <2> DEFINE T == {n \in Nat : \E v \in Seq(Messages) : Len(v) = n /\ Bytes(v) \notin Nat}
  <2>1. ASSUME T # {} PROVE FALSE
    <3>1. T \subseteq Nat
      OBVIOUS
    <3>2. PICK n \in T : \A j \in T : n <= j
      BY <2>1, <3>1, Smallest
    <3>3. PICK v \in Seq(Messages) : Len(v) = n /\ Bytes(v) \notin Nat
      BY <3>2
    <3>4. v # <<>>
      BY <3>3, BytesEmpty
    <3>5. PICK w \in Seq(Messages), m \in Messages : v = Append(w, m)
      BY <3>4, SequenceEmptyOrAppend
    <3>6. Len(w) \in Nat /\ n = Len(w) + 1
      BY <3>3, <3>5, AppendProperties
    <3>7. Len(w) \notin T
      <4> HIDE DEF T
      <4> QED BY <3>2, <3>6
    <3>8. Bytes(w) \in Nat
      BY <3>6, <3>7
    <3>9. Bytes(v) = Bytes(w) + MsgLen[m] /\ MsgLen[m] \in Nat
      BY <3>5, BytesAppend, LoggerAssumption
    <3> QED BY <3>3, <3>8, <3>9
  <2>2. Len(u) \in Nat /\ Len(u) \notin T
    BY <2>1
  <2> QED BY <2>2
<1> DEFINE T == {n \in Nat : \E v \in Seq(Messages) :
                               Len(v) = n /\ Bytes(s \o v) # Bytes(s) + Bytes(v)}
<1>2. ASSUME T # {} PROVE FALSE
  <2>1. T \subseteq Nat
    OBVIOUS
  <2>2. PICK n \in T : \A j \in T : n <= j
    BY <1>2, <2>1, Smallest
  <2>3. PICK v \in Seq(Messages) : Len(v) = n /\ Bytes(s \o v) # Bytes(s) + Bytes(v)
    BY <2>2
  <2>4. v # <<>>
    <3>1. s \o <<>> = s /\ Bytes(s) \in Nat
      BY <1>1, ConcatEmptySeq
    <3>2. Bytes(s \o <<>>) = Bytes(s) + Bytes(<<>>)
      BY <3>1, BytesEmpty
    <3> QED BY <2>3, <3>2
  <2>5. PICK w \in Seq(Messages), m \in Messages : v = Append(w, m)
    BY <2>4, SequenceEmptyOrAppend
  <2>6. Len(w) \in Nat /\ n = Len(w) + 1
    BY <2>3, <2>5, AppendProperties
  <2>7. Len(w) \notin T
    <3> HIDE DEF T
    <3> QED BY <2>2, <2>6
  <2>8. Bytes(s \o w) = Bytes(s) + Bytes(w)
    BY <2>6, <2>7
  <2>9. s \o v = Append(s \o w, m) /\ s \o w \in Seq(Messages)
    BY <2>5, ConcatAppend
  <2>10. /\ Bytes(s \o v) = Bytes(s \o w) + MsgLen[m] /\ Bytes(v) = Bytes(w) + MsgLen[m]
         /\ MsgLen[m] \in Nat /\ Bytes(s) \in Nat /\ Bytes(w) \in Nat
    BY <1>1, <2>5, <2>9, BytesAppend, LoggerAssumption
  <2> QED BY <2>3, <2>8, <2>10
<1>3. Len(t) \in Nat /\ Len(t) \notin T
  BY <1>2
<1> QED BY <1>1, <1>3

-----------------------------------------------------------------------------
(* FlattenSeq                                                               *)

IsJoin(f, ss) == f = [i \in 1..Len(ss) |-> IF i = 1 THEN ss[i] ELSE f[i - 1] \o ss[i]]

LEMMA JoinExists ==
  ASSUME NEW S, NEW ss \in Seq(S) PROVE \E f : IsJoin(f, ss)
<1> DEFINE To(f, m) == f = [i \in 1..m |-> IF i = 1 THEN ss[i] ELSE f[i - 1] \o ss[i]]
           T == {m \in Nat : ~\E f : To(f, m)}
<1>1. ASSUME T # {} PROVE FALSE
  <2>1. T \subseteq Nat
    OBVIOUS
  <2>2. PICK m \in T : \A y \in T : m <= y
    BY <1>1, <2>1, Smallest
  <2>3. CASE m = 0
    <3>1. To([i \in 1..0 |-> 0], 0)
      OBVIOUS
    <3> QED BY <2>2, <2>3, <3>1
  <2>4. CASE m # 0
    <3>1. m \in Nat /\ m - 1 \in Nat /\ m - 1 \notin T
      <4>1. m \in Nat
        BY <2>2
      <4> HIDE DEF T
      <4> QED BY <2>2, <2>4, <4>1
    <3>2. PICK h : To(h, m - 1)
      BY <3>1
    <3> DEFINE new == IF m = 1 THEN ss[m] ELSE h[m - 1] \o ss[m]
               f == [i \in 1..m |-> IF i < m THEN h[i] ELSE new]
               body(i) == IF i = 1 THEN ss[i] ELSE f[i - 1] \o ss[i]
    <3>3. ASSUME NEW i \in 1..m PROVE f[i] = body(i)
      <4>1. i > 1 => i - 1 \in 1..m /\ f[i - 1] = h[i - 1]
        BY <3>1, <3>3
      <4>2. CASE i < m
        <5>1. i \in 1..(m - 1)
          BY <3>1, <3>3, <4>2
        <5>2. h[i] = IF i = 1 THEN ss[i] ELSE h[i - 1] \o ss[i]
          BY <3>2, <5>1
        <5> QED BY <3>3, <4>1, <4>2, <5>2
      <4>3. CASE i = m
        BY <2>4, <3>1, <4>1, <4>3
      <4> QED BY <3>1, <3>3, <4>2, <4>3
    <3>4. f = [i \in 1..m |-> body(i)]
      BY <3>3
    <3>5. To(f, m)
      BY <3>4
    <3> QED BY <2>2, <3>5
  <2> QED BY <2>3, <2>4
<1>2. Len(ss) \in Nat /\ Len(ss) \notin T
  <2>1. Len(ss) \in Nat
    BY LenProperties
  <2> QED BY <1>1, <2>1
<1>3. \E f : To(f, Len(ss))
  BY <1>2
<1> QED BY <1>3 DEF IsJoin

LEMMA FlattenIsJoin ==
  ASSUME NEW S, NEW ss \in Seq(S), ss # <<>>
  PROVE  \E f : IsJoin(f, ss) /\ FlattenSeq(ss) = f[Len(ss)]
<1> DEFINE f == CHOOSE flatten : IsJoin(flatten, ss)
<1>1. Len(ss) # 0
  OBVIOUS
<1>2. FlattenSeq(ss) = f[Len(ss)]
  BY <1>1 DEF FlattenSeq, IsJoin
<1>3. IsJoin(f, ss)
  BY JoinExists
<1> QED BY <1>2, <1>3

LEMMA FlattenEmpty == FlattenSeq(<<>>) = <<>>
  BY DEF FlattenSeq

LEMMA FlattenType ==
  ASSUME NEW S, NEW ss \in Seq(Seq(S))
  PROVE  FlattenSeq(ss) \in Seq(S)
<1>1. CASE ss = <<>>
  <2>1. <<>> \in Seq(S)
    BY EmptySeq
  <2> QED BY <1>1, <2>1, FlattenEmpty
<1>2. CASE ss # <<>>
  <2> DEFINE n == Len(ss)
  <2>1. n \in Nat \ {0} /\ \A i \in 1..n : ss[i] \in Seq(S)
    BY <1>2
  <2>2. PICK f : IsJoin(f, ss) /\ FlattenSeq(ss) = f[n]
    BY <1>2, FlattenIsJoin
  <2>3. \A i \in 1..n : f[i] = IF i = 1 THEN ss[i] ELSE f[i - 1] \o ss[i]
    BY <2>2 DEF IsJoin
  <2> HIDE DEF n
  <2> DEFINE T == {i \in 1..n : f[i] \notin Seq(S)}
  <2>4. ASSUME T # {} PROVE FALSE
    <3>1. T \subseteq Nat
      OBVIOUS
    <3>2. PICK i \in T : \A j \in T : i <= j
      BY <2>4, <3>1, Smallest
    <3>3. i \in 1..n /\ f[i] \notin Seq(S) /\ i # 1
      BY <2>1, <2>3, <3>2
    <3>4. i - 1 \in 1..n /\ i - 1 \notin T
      BY <2>1, <3>2, <3>3
    <3>5. f[i - 1] \in Seq(S)
      BY <3>4
    <3>6. f[i] = f[i - 1] \o ss[i] /\ ss[i] \in Seq(S)
      BY <2>1, <2>3, <3>3
    <3> QED BY <3>3, <3>5, <3>6, ConcatProperties
  <2>5. n \in 1..n /\ n \notin T
    BY <2>1, <2>4
  <2> QED BY <2>2, <2>5
<1> QED BY <1>1, <1>2

LEMMA FlattenAppend ==
  ASSUME NEW S, NEW ss \in Seq(Seq(S)), NEW x \in Seq(S)
  PROVE  FlattenSeq(Append(ss, x)) = FlattenSeq(ss) \o x
<1> DEFINE n == Len(ss)
           e == Append(ss, x)
<1>1. /\ n \in Nat /\ e \in Seq(Seq(S)) /\ e # <<>> /\ Len(e) = n + 1 /\ e[n + 1] = x
      /\ \A i \in 1..n : e[i] = ss[i]
  BY AppendProperties
<1>2. PICK g : IsJoin(g, e) /\ FlattenSeq(e) = g[n + 1]
  BY <1>1, FlattenIsJoin
<1> HIDE DEF e
<1>3. \A i \in 1..(n + 1) : g[i] = IF i = 1 THEN e[i] ELSE g[i - 1] \o e[i]
  BY <1>1, <1>2 DEF IsJoin
<1>4. CASE ss = <<>>
  <2>1. n = 0 /\ g[1] = x
    BY <1>1, <1>3, <1>4
  <2>2. <<>> \o x = x
    BY ConcatEmptySeq
  <2> QED BY <1>2, <1>4, <2>1, <2>2, FlattenEmpty DEF e
<1>5. CASE ss # <<>>
  <2>1. PICK f : IsJoin(f, ss) /\ FlattenSeq(ss) = f[n]
    BY <1>5, FlattenIsJoin
  <2>2. n # 0 /\ \A i \in 1..n : f[i] = IF i = 1 THEN ss[i] ELSE f[i - 1] \o ss[i]
    <3>1. n # 0
      BY <1>5, EmptySeq
    <3> QED BY <2>1, <3>1 DEF IsJoin
  <2> HIDE DEF n
  <2> DEFINE T == {i \in 1..n : g[i] # f[i]}
  <2>3. ASSUME T # {} PROVE FALSE
    <3>1. T \subseteq Nat
      OBVIOUS
    <3>2. PICK i \in T : \A j \in T : i <= j
      BY <2>3, <3>1, Smallest
    <3>3. i \in 1..n /\ i \in 1..(n + 1) /\ g[i] # f[i] /\ e[i] = ss[i]
      BY <1>1, <3>2
    <3>4. i # 1
      BY <1>3, <2>2, <3>3
    <3>5. i - 1 \in 1..n /\ i - 1 \notin T
      BY <1>1, <3>2, <3>3, <3>4
    <3>6. g[i - 1] = f[i - 1]
      BY <3>5
    <3> QED BY <1>3, <2>2, <3>3, <3>4, <3>6
  <2>4. g[n] = f[n]
    <3>1. n \in 1..n
      BY <1>1, <2>2
    <3>2. n \notin T
      BY <2>3
    <3> QED BY <3>1, <3>2
  <2>5. n + 1 \in 1..(n + 1) /\ n + 1 # 1 /\ (n + 1) - 1 = n
    BY <1>1, <2>2
  <2>6. g[n + 1] = f[n] \o x
    BY <1>1, <1>3, <2>4, <2>5
  <2> QED BY <1>2, <2>1, <2>6 DEF e
<1> QED BY <1>4, <1>5

-----------------------------------------------------------------------------
(* The files                                                                *)

Batches == Seq(Seq(Messages))

\* A batch goes to the end of the last file, or becomes the first of a new one:
\* either way it comes after all the others.
LEMMA WriteAddsOneBatch ==
  ASSUME NEW fs \in Seq(Batches), fs # <<>>, NEW b \in Seq(Messages)
  PROVE  /\ WriteTo(fs, b) \in Seq(Batches) /\ Len(WriteTo(fs, b)) = Len(fs)
         /\ Last(fs) \in Batches /\ Last(WriteTo(fs, b)) = Append(Last(fs), b)
         /\ \A i \in 1..(Len(fs) - 1) : WriteTo(fs, b)[i] = fs[i]
         /\ FlattenSeq(WriteTo(fs, b)) = Append(FlattenSeq(fs), b)
         /\ FlattenSeq(fs) \in Batches
<1> DEFINE n == Len(fs)
           w == WriteTo(fs, b)
<1>1. PICK gs \in Seq(Batches), f \in Batches : fs = Append(gs, f)
  BY SequenceEmptyOrAppend
<1>2. /\ Len(gs) \in Nat /\ n = Len(gs) + 1 /\ fs[n] = f
      /\ \A i \in 1..Len(gs) : fs[i] = gs[i]
  BY <1>1, AppendProperties
<1>3. Append(f, b) \in Batches
  BY AppendProperties DEF Batches
<1>4. /\ w \in Seq(Batches) /\ Len(w) = n
      /\ \A i \in 1..n : w[i] = IF i = n THEN Append(f, b) ELSE fs[i]
  <2>1. w = [fs EXCEPT ![n] = Append(f, b)]
    BY <1>2 DEF WriteTo
  <2>2. n \in 1..Len(fs)
    BY <1>2
  <2> HIDE DEF w, n
  <2> QED BY <1>3, <2>1, <2>2, ExceptSeq DEF n
<1>5. /\ Append(gs, Append(f, b)) \in Seq(Batches) /\ Len(Append(gs, Append(f, b))) = n
      /\ \A i \in 1..Len(gs) : Append(gs, Append(f, b))[i] = gs[i]
      /\ Append(gs, Append(f, b))[n] = Append(f, b)
  BY <1>2, <1>3, AppendProperties
<1> HIDE DEF n, w
<1>6. w = Append(gs, Append(f, b))
  <2> DEFINE v == Append(gs, Append(f, b))
  <2>1. ASSUME NEW i \in 1..n PROVE w[i] = v[i]
    <3>1. CASE i = n
      BY <1>4, <1>5, <3>1
    <3>2. CASE i # n
      <4>1. i \in 1..Len(gs)
        BY <1>2, <3>2
      <4> QED BY <1>2, <1>4, <1>5, <3>2, <4>1
    <3> QED BY <3>1, <3>2
  <2>2. v \in Seq(Batches) /\ Len(v) = n
    BY <1>5
  <2> HIDE DEF v
  <2>3. w = v
    BY <1>4, <2>1, <2>2, SeqEqual
  <2> QED BY <2>3 DEF v
<1>7. /\ FlattenSeq(gs) \in Batches /\ FlattenSeq(fs) = FlattenSeq(gs) \o f
      /\ FlattenSeq(w) = FlattenSeq(gs) \o Append(f, b)
  BY <1>1, <1>3, <1>6, FlattenType, FlattenAppend DEF Batches
<1>8. FlattenSeq(gs) \o Append(f, b) = Append(FlattenSeq(gs) \o f, b)
      /\ FlattenSeq(gs) \o f \in Batches
  BY <1>7, ConcatAppend DEF Batches
<1>9. Last(fs) = f /\ Last(w) = Append(f, b)
  <2>1. n \in 1..n
    BY <1>2
  <2> QED BY <1>2, <1>4, <2>1 DEF Last, n
<1>10. \A i \in 1..(n - 1) : w[i] = fs[i]
  BY <1>2, <1>4
<1> QED BY <1>4, <1>7, <1>8, <1>9, <1>10 DEF n, w

LEMMA RollAddsOneBatch ==
  ASSUME NEW fs \in Seq(Batches), NEW b \in Seq(Messages)
  PROVE  /\ RollTo(fs, b) \in Seq(Batches) /\ Len(RollTo(fs, b)) = Len(fs) + 1
         /\ Last(RollTo(fs, b)) = <<b>>
         /\ \A i \in 1..Len(fs) : RollTo(fs, b)[i] = fs[i]
         /\ FlattenSeq(RollTo(fs, b)) = Append(FlattenSeq(fs), b)
         /\ FlattenSeq(fs) \in Batches
<1>1. <<b>> \in Batches
  BY DEF Batches
<1>2. /\ RollTo(fs, b) \in Seq(Batches) /\ Len(RollTo(fs, b)) = Len(fs) + 1 /\ Len(fs) \in Nat
      /\ \A i \in 1..Len(fs) : RollTo(fs, b)[i] = fs[i]
      /\ RollTo(fs, b)[Len(fs) + 1] = <<b>>
  BY <1>1, AppendProperties DEF RollTo
<1>3. FlattenSeq(RollTo(fs, b)) = FlattenSeq(fs) \o <<b>> /\ FlattenSeq(fs) \in Batches
  BY <1>1, FlattenAppend, FlattenType DEF RollTo, Batches
<1>4. FlattenSeq(fs) \o <<b>> = Append(FlattenSeq(fs), b)
  BY <1>3, AppendIsConcat DEF Batches
<1> QED BY <1>2, <1>3, <1>4 DEF Last

\* What the files hold grows by the batch.
LEMMA ContentGrows ==
  ASSUME NEW fs \in Seq(Batches), fs # <<>>, NEW b \in Seq(Messages),
         NEW gs \in {WriteTo(fs, b), RollTo(fs, b)}
  PROVE  /\ gs \in Seq(Batches) /\ gs # <<>>
         /\ Content(fs) \in Seq(Messages) /\ Content(gs) = Content(fs) \o b
<1>1. /\ gs \in Seq(Batches) /\ Len(gs) \in {Len(fs), Len(fs) + 1}
      /\ FlattenSeq(gs) = Append(FlattenSeq(fs), b) /\ FlattenSeq(fs) \in Batches
  BY WriteAddsOneBatch, RollAddsOneBatch
<1>2. gs # <<>>
  <2>1. Len(fs) \in Nat \ {0} /\ Len(<<>>) = 0
    BY EmptySeq
  <2> QED BY <1>1, <2>1
<1>3. FlattenSeq(Append(FlattenSeq(fs), b)) = FlattenSeq(FlattenSeq(fs)) \o b
  BY <1>1, FlattenAppend DEF Batches
<1>4. FlattenSeq(FlattenSeq(fs)) \in Seq(Messages)
  BY <1>1, FlattenType DEF Batches
<1> QED BY <1>1, <1>2, <1>3, <1>4 DEF Content

-----------------------------------------------------------------------------
(* The inductive invariant                                                  *)

Shape ==
    /\ limit \in Levels
    /\ producer \in [Producers -> [at : ProducerPlaces, msg : Messages \cup {NoMsg}]]
    /\ pro \in Buffers /\ con \in Buffers
    /\ stop \in BOOLEAN /\ missed \in BOOLEAN
    /\ consumer \in ConsumerPlaces /\ stopper \in StopperPlaces
    /\ sized \in Seq(Batches) /\ sized # <<>> /\ timed \in Seq(Batches) /\ timed # <<>>
    /\ accepted \in Seq(Messages)

\* A call under way has its message.
Logging == \A p \in Producers : producer[p].at # "idle" => producer[p].msg \in Messages

\* Every message is written, in the worker's buffer or in the producers', in the
\* order of the pushes; outside the callback the worker's buffer has been written.
Pending == IF consumer = "swapped" THEN con.data ELSE <<>>
InOrder ==
    /\ accepted = (Content(sized) \o Pending) \o pro.data
    /\ consumer \notin {"swapped", "written"} => con.data = <<>>

BuffersFit == Bytes(pro.data) <= pro.size /\ Bytes(con.data) <= con.size

FilesSound ==
    /\ curSize = Bytes(FlattenSeq(Last(sized)))
    /\ SinksAgree /\ FilesWithinLimit

IInv == Shape /\ Logging /\ InOrder /\ BuffersFit /\ FilesSound

-----------------------------------------------------------------------------
(* Steps that leave the buffers and the files alone                         *)

Callers == producer \in [Producers -> [at : ProducerPlaces, msg : Messages \cup {NoMsg}]]

LEMMA QuietKeeps ==
  ASSUME IInv, limit' \in Levels, Callers', Logging', stop' \in BOOLEAN, missed' \in BOOLEAN,
         consumer' \in ConsumerPlaces, stopper' \in StopperPlaces,
         UNCHANGED <<pro, con, sized, curSize, timed, accepted>>,
         \/ consumer' = consumer
         \/ consumer \notin {"swapped", "written"} /\ consumer' \notin {"swapped", "written"}
  PROVE  IInv'
<1>1. Shape'
  BY DEF IInv, Shape, Callers
<1>2. InOrder' /\ BuffersFit'
  BY DEF IInv, InOrder, Pending, Content, BuffersFit
<1>3. FilesSound'
  BY DEF IInv, FilesSound, SinksAgree, FilesWithinLimit, Content
<1> QED BY <1>1, <1>2, <1>3 DEF IInv

\* One caller goes to another place with a message it may have there.
LEMMA CallerMoves ==
  ASSUME IInv, NEW p \in Producers, NEW at \in ProducerPlaces, NEW msg \in Messages \cup {NoMsg},
         at # "idle" => msg \in Messages,
         producer' = [producer EXCEPT ![p] = [at |-> at, msg |-> msg]]
  PROVE  Callers' /\ Logging'
<1> DEFINE call == [at |-> at, msg |-> msg]
<1>1. call \in [at : ProducerPlaces, msg : Messages \cup {NoMsg}] /\ call.at = at /\ call.msg = msg
  OBVIOUS
<1> HIDE DEF call
<1>2. producer' = [producer EXCEPT ![p] = call]
  BY DEF call
<1>3. Callers'
  BY <1>1, <1>2 DEF IInv, Shape, Callers
<1>4. Logging'
  BY <1>1, <1>2 DEF IInv, Shape, Logging
<1> QED BY <1>3, <1>4

LEMMA CallerGoes ==
  ASSUME IInv, NEW p \in Producers, NEW at \in ProducerPlaces, producer[p].at # "idle",
         producer' = [producer EXCEPT ![p].at = at]
  PROVE  Callers' /\ Logging'
<1>1. /\ producer[p] \in [at : ProducerPlaces, msg : Messages \cup {NoMsg}]
      /\ producer[p].msg \in Messages
      /\ producer \in [Producers -> [at : ProducerPlaces, msg : Messages \cup {NoMsg}]]
  BY DEF IInv, Shape, Logging
<1>2. [producer[p] EXCEPT !.at = at] = [at |-> at, msg |-> producer[p].msg]
  BY <1>1
<1>3. producer' = [producer EXCEPT ![p] = [at |-> at, msg |-> producer[p].msg]]
  BY <1>1, <1>2
<1> QED BY <1>1, <1>3, CallerMoves

LEMMA WakingKeepsCalls ==
  ASSUME IInv, WakeProducers
  PROVE  Callers' /\ Logging'
<1>1. /\ producer \in [Producers -> [at : ProducerPlaces, msg : Messages \cup {NoMsg}]]
      /\ \A p \in Producers : producer[p].at # "idle" => producer[p].msg \in Messages
  BY DEF IInv, Shape, Logging
<1>2. ASSUME NEW p \in Producers
      PROVE  /\ producer'[p] \in [at : ProducerPlaces, msg : Messages \cup {NoMsg}]
             /\ producer'[p].at # "idle" => producer'[p].msg \in Messages
  <2>1. CASE producer[p].at = "waiting"
    <3>1. producer'[p] = [producer[p] EXCEPT !.at = "awake"]
      BY <2>1 DEF WakeProducers
    <3>2. producer'[p] = [at |-> "awake", msg |-> producer[p].msg] /\ producer[p].msg \in Messages
      BY <1>1, <2>1, <3>1
    <3> QED BY <3>2 DEF ProducerPlaces
  <2>2. CASE producer[p].at # "waiting"
    <3>1. producer'[p] = producer[p]
      BY <2>2 DEF WakeProducers
    <3> QED BY <1>1, <3>1
  <2> QED BY <2>1, <2>2
<1>3. producer' = [p \in Producers |-> producer'[p]]
  BY DEF WakeProducers
<1> QED BY <1>2, <1>3 DEF Callers, Logging

LEMMA WakingKeepsWorker ==
  ASSUME IInv, WakeConsumer
  PROVE  /\ consumer' \in ConsumerPlaces
         /\ \/ consumer' = consumer
            \/ consumer \notin {"swapped", "written"} /\ consumer' \notin {"swapped", "written"}
  BY DEF IInv, Shape, WakeConsumer, ConsumerPlaces

LEMMA CallsKept == IInv => /\ limit \in Levels /\ Callers /\ Logging /\ stop \in BOOLEAN
                           /\ missed \in BOOLEAN /\ consumer \in ConsumerPlaces
                           /\ stopper \in StopperPlaces
  BY DEF IInv, Shape, Callers

LEMMA CallsStay ==
  ASSUME IInv, UNCHANGED producer
  PROVE  Callers' /\ Logging'
  BY CallsKept DEF Callers, Logging

LEMMA QuietStepKeeps ==
  ASSUME IInv,
         \/ \E l \in {2, 3} : SetLevel(l)
         \/ \E p \in Producers : PushFindsNoRoom(p) \/ ProducerSleeps(p)
         \/ \E p \in Producers, m \in Messages : LogCall(p, m)
         \/ Enter \/ FindNothing \/ ConsumerSleeps
         \/ SetStop \/ NotifyConsumer \/ NotifyProducers \/ Join
         \/ SpuriousWakeup
         \/ UNCHANGED vars
  PROVE  IInv'
<1> USE CallsKept
<1>1. ASSUME NEW l \in {2, 3}, SetLevel(l) PROVE IInv'
  <2>1. limit' \in Levels
    BY <1>1 DEF SetLevel, Levels
  <2>2. Callers' /\ Logging'
    BY <1>1, CallsStay DEF SetLevel
  <2> QED BY <1>1, <2>1, <2>2, QuietKeeps DEF SetLevel, buffers, files, history
<1>2. ASSUME NEW p \in Producers, PushFindsNoRoom(p) PROVE IInv'
  <2>1. Callers' /\ Logging'
    BY <1>2, CallerGoes DEF PushFindsNoRoom, ProducerPlaces
  <2> QED BY <1>2, <2>1, QuietKeeps DEF PushFindsNoRoom, buffers, files, history
<1>3. ASSUME NEW p \in Producers, ProducerSleeps(p) PROVE IInv'
  <2>1. Callers' /\ Logging'
    BY <1>3, CallerGoes DEF ProducerSleeps, ProducerPlaces
  <2> QED BY <1>3, <2>1, QuietKeeps DEF ProducerSleeps, buffers, files, history
<1>4. ASSUME NEW p \in Producers, NEW m \in Messages, LogCall(p, m) PROVE IInv'
  <2>1. Callers' /\ Logging'
    BY <1>4, CallerMoves DEF LogCall, ProducerPlaces
  <2> QED BY <1>4, <2>1, QuietKeeps DEF LogCall, buffers, files, history
<1>5. CASE Enter
  <2>1. consumer = "top" /\ consumer' \in {"gone", "test"}
    BY <1>5 DEF Enter
  <2>2. Callers' /\ Logging'
    BY <1>5, CallsStay DEF Enter
  <2>3. UNCHANGED <<limit, pro, con, stop, missed, stopper, sized, curSize, timed, accepted>>
    BY <1>5 DEF Enter, buffers, files, history
  <2> QED BY <2>1, <2>2, <2>3, QuietKeeps DEF ConsumerPlaces
<1>6. CASE FindNothing \/ ConsumerSleeps
  <2>1. consumer \in {"test", "awake", "sleepy"} /\ consumer' \in {"sleepy", "waiting"}
    BY <1>6 DEF FindNothing, ConsumerSleeps, Testing
  <2>2. Callers' /\ Logging'
    BY <1>6, CallsStay DEF FindNothing, ConsumerSleeps
  <2>3. UNCHANGED <<limit, pro, con, stop, missed, stopper, sized, curSize, timed, accepted>>
    BY <1>6 DEF FindNothing, ConsumerSleeps, buffers, files, history
  <2> QED BY <2>1, <2>2, <2>3, QuietKeeps DEF ConsumerPlaces
<1>7. CASE SetStop
  <2>1. stop' \in BOOLEAN /\ stopper' \in StopperPlaces
    BY <1>7 DEF SetStop, StopperPlaces
  <2>2. Callers' /\ Logging'
    BY <1>7, CallsStay DEF SetStop
  <2> QED BY <1>7, <2>1, <2>2, QuietKeeps DEF SetStop, buffers, files, history
<1>8. CASE NotifyConsumer
  <2>1. missed' \in BOOLEAN
    BY <1>8 DEF NotifyConsumer
  <2>2. stopper' \in StopperPlaces
    BY <1>8 DEF NotifyConsumer, StopperPlaces
  <2>3. Callers' /\ Logging'
    BY <1>8, CallsStay DEF NotifyConsumer
  <2>4. /\ consumer' \in ConsumerPlaces
        /\ \/ consumer' = consumer
           \/ consumer \notin {"swapped", "written"} /\ consumer' \notin {"swapped", "written"}
    BY <1>8, WakingKeepsWorker DEF NotifyConsumer
  <2>5. UNCHANGED <<limit, pro, con, stop, sized, curSize, timed, accepted>>
    BY <1>8 DEF NotifyConsumer, buffers, files
  <2> QED BY <2>1, <2>2, <2>3, <2>4, <2>5, QuietKeeps
<1>9. CASE NotifyProducers
  <2>1. stopper' \in StopperPlaces
    BY <1>9 DEF NotifyProducers, StopperPlaces
  <2>2. Callers' /\ Logging'
    BY <1>9, WakingKeepsCalls DEF NotifyProducers
  <2> QED BY <1>9, <2>1, <2>2, QuietKeeps DEF NotifyProducers, buffers, files, history
<1>10. CASE Join
  <2>1. stopper' \in StopperPlaces
    BY <1>10 DEF Join, StopperPlaces
  <2>2. Callers' /\ Logging'
    BY <1>10, CallsStay DEF Join
  <2> QED BY <1>10, <2>1, <2>2, QuietKeeps DEF Join, buffers, files, history
<1>11. CASE SpuriousWakeup
  <2>1. /\ consumer' \in ConsumerPlaces
        /\ \/ consumer' = consumer
           \/ consumer \notin {"swapped", "written"} /\ consumer' \notin {"swapped", "written"}
    BY <1>11, WakingKeepsWorker DEF SpuriousWakeup
  <2>2. Callers' /\ Logging'
    <3>1. CASE UNCHANGED producer
      BY <3>1, CallsStay
    <3>2. ASSUME NEW p \in Producers, producer[p].at = "waiting",
                 producer' = [producer EXCEPT ![p].at = "awake"]
          PROVE  Callers' /\ Logging'
      BY <3>2, CallerGoes DEF ProducerPlaces
    <3> QED BY <1>11, <3>1, <3>2 DEF SpuriousWakeup
  <2>3. UNCHANGED <<limit, pro, con, stop, missed, stopper, sized, curSize, timed, accepted>>
    BY <1>11 DEF SpuriousWakeup, buffers, files, history
  <2> QED BY <2>1, <2>2, <2>3, QuietKeeps
<1>12. CASE UNCHANGED vars
  <2>1. /\ UNCHANGED <<producer, limit, pro, con, stop, missed, consumer, stopper>>
        /\ UNCHANGED <<sized, curSize, timed, accepted>>
    BY <1>12 DEF vars
  <2>2. Callers' /\ Logging'
    BY <2>1, CallsStay
  <2> QED BY <2>1, <2>2, QuietKeeps
<1> QED BY <1>1, <1>2, <1>3, <1>4, <1>5, <1>6, <1>7, <1>8, <1>9, <1>10, <1>11, <1>12

-----------------------------------------------------------------------------
(* push, the swap, the callback and reset                                   *)

\* The vector of a buffer grows so that the message fits.
LEMMA EnoughIsEnough ==
  ASSUME NEW b \in Buffers, Bytes(b.data) <= b.size, NEW m \in Messages
  PROVE  /\ Enough(b, MsgLen[m]) \in Nat /\ Append(b.data, m) \in Seq(Messages)
         /\ Bytes(Append(b.data, m)) <= Enough(b, MsgLen[m])
<1>1. /\ b.size \in Nat /\ b.data \in Seq(Messages) /\ Bytes(b.data) \in Nat
      /\ MsgLen[m] \in Nat \ {0} /\ Increment \in Nat /\ Threshold \in Nat
  BY BytesConcat, LoggerAssumption DEF Buffers
<1>2. Append(b.data, m) \in Seq(Messages)
  BY <1>1, AppendProperties
<1>3. Bytes(Append(b.data, m)) = Bytes(b.data) + MsgLen[m]
  BY <1>1, BytesAppend
<1>4. /\ Enough(b, MsgLen[m]) \in Nat
      /\ Bytes(b.data) + MsgLen[m] <= Enough(b, MsgLen[m])
  <2>1. PICK size, used, len, more \in Nat :
             size = b.size /\ used = Bytes(b.data) /\ len = MsgLen[m] /\ more = Increment
    BY <1>1
  <2>2. /\ used <= size /\ (len < size - used => used + len <= size)
        /\ used + len <= size * 2 + len /\ used + len <= size + more + len
        /\ size * 2 + len \in Nat /\ size + more + len \in Nat
    BY <2>1
  <2>3. Enough(b, MsgLen[m]) = IF len < size - used THEN size
                               ELSE IF size < Threshold THEN size * 2 + len
                               ELSE size + more + len
    BY <2>1 DEF Enough, AbleToWrite
  <2> QED BY <2>1, <2>2, <2>3
<1> QED BY <1>2, <1>3, <1>4

LEMMA ContentType ==
  ASSUME NEW fs \in Seq(Batches) PROVE Content(fs) \in Seq(Messages)
<1>1. FlattenSeq(fs) \in Seq(Seq(Messages))
  BY FlattenType DEF Batches
<1> QED BY <1>1, FlattenType DEF Content

LEMMA PushKeeps ==
  ASSUME IInv, NEW p \in Producers, Push(p)
  PROVE  IInv' /\ \E m \in Messages : accepted' = Append(accepted, m)
<1>1. /\ producer[p].at \in {"ready", "awake"} /\ producer[p].msg \in Messages
      /\ WakeConsumer
  BY DEF Push, IInv, Logging
<1>2. PICK m \in Messages : m = producer[p].msg
  BY <1>1
<1>3. /\ pro' = [size |-> Enough(pro, MsgLen[m]), data |-> Append(pro.data, m)]
      /\ accepted' = Append(accepted, m)
      /\ producer' = [producer EXCEPT ![p] = [at |-> "idle", msg |-> NoMsg]]
      /\ UNCHANGED <<limit, con, stop, stopper, sized, curSize, timed, missed>>
  BY <1>2 DEF Push, files
<1>4. /\ Enough(pro, MsgLen[m]) \in Nat /\ Append(pro.data, m) \in Seq(Messages)
      /\ Bytes(Append(pro.data, m)) <= Enough(pro, MsgLen[m])
  BY EnoughIsEnough DEF IInv, Shape, BuffersFit
<1>5. Callers' /\ Logging'
  BY <1>3, CallerMoves DEF ProducerPlaces
<1>6. /\ consumer' \in ConsumerPlaces
      /\ \/ consumer' = consumer
         \/ consumer \notin {"swapped", "written"} /\ consumer' \notin {"swapped", "written"}
  BY <1>1, WakingKeepsWorker
<1>7. pro' \in Buffers /\ pro'.data = Append(pro.data, m) /\ pro'.size = Enough(pro, MsgLen[m])
  BY <1>3, <1>4 DEF Buffers
<1>8. Shape'
  <2>1. accepted' \in Seq(Messages)
    BY <1>3, AppendProperties DEF IInv, Shape
  <2> QED BY <1>3, <1>5, <1>6, <1>7, <2>1 DEF IInv, Shape, Callers
<1>9. InOrder'
  <2> DEFINE before == Content(sized) \o Pending
  <2>1. before \in Seq(Messages) /\ pro.data \in Seq(Messages)
    <3>1. con.data \in Seq(Messages) /\ pro.data \in Seq(Messages) /\ <<>> \in Seq(Messages)
      BY DEF IInv, Shape, Buffers
    <3>2. Content(sized) \in Seq(Messages)
      BY ContentType DEF IInv, Shape
    <3>3. Pending \in Seq(Messages)
      BY <3>1 DEF Pending
    <3> QED BY <3>1, <3>2, <3>3, ConcatProperties
  <2>2. Content(sized)' = Content(sized) /\ Pending' = Pending
    BY <1>3, <1>6 DEF Content, Pending
  <2>3. before \o Append(pro.data, m) = Append(before \o pro.data, m)
    <3> HIDE DEF before
    <3> QED BY <2>1, ConcatAppend
  <2>4. accepted = before \o pro.data
    BY DEF IInv, InOrder
  <2> QED BY <1>3, <1>6, <1>7, <2>2, <2>3, <2>4 DEF IInv, InOrder
<1>10. BuffersFit'
  BY <1>3, <1>4, <1>7 DEF IInv, BuffersFit
<1>11. FilesSound'
  BY <1>3 DEF IInv, FilesSound, SinksAgree, FilesWithinLimit, Content
<1> QED BY <1>3, <1>5, <1>8, <1>9, <1>10, <1>11 DEF IInv

LEMMA SwapKeeps ==
  ASSUME IInv, SwapBuffers
  PROVE  IInv'
<1>1. /\ consumer \in {"test", "awake"} /\ consumer' = "swapped" /\ pro' = con /\ con' = pro
      /\ WakeProducers \/ UNCHANGED producer
      /\ UNCHANGED <<limit, stop, stopper, sized, curSize, timed, accepted, missed>>
  BY DEF SwapBuffers, Testing, files, history
<1>2. Callers' /\ Logging'
  BY <1>1, WakingKeepsCalls, CallsStay
<1>3. Shape'
  BY <1>1, <1>2 DEF IInv, Shape, Callers, ConsumerPlaces
<1>4. InOrder'
  <2>1. con.data = <<>> /\ accepted = (Content(sized) \o <<>>) \o pro.data
    BY <1>1 DEF IInv, InOrder, Pending
  <2>2. /\ Content(sized) \in Seq(Messages) /\ pro.data \in Seq(Messages)
    BY ContentType DEF IInv, Shape, Buffers
  <2>3. /\ Content(sized) \o <<>> = Content(sized)
        /\ (Content(sized) \o pro.data) \o <<>> = Content(sized) \o pro.data
    BY <2>2, ConcatProperties, ConcatEmptySeq
  <2>4. Content(sized)' = Content(sized) /\ Pending' = pro.data
    BY <1>1 DEF Content, Pending
  <2> QED BY <1>1, <2>1, <2>3, <2>4 DEF InOrder
<1>5. BuffersFit' /\ FilesSound'
  BY <1>1 DEF IInv, BuffersFit, FilesSound, SinksAgree, FilesWithinLimit, Content
<1> QED BY <1>2, <1>3, <1>4, <1>5 DEF IInv

\* RollfileSink counts what is in the file it writes to, and starts another one
\* before a write that would go beyond the limit.
LEMMA LogSizedSound ==
  ASSUME IInv, NEW b \in Seq(Messages), LogSized(b)
  PROVE  /\ sized' \in Seq(Batches) /\ sized' # <<>> /\ Content(sized)' = Content(sized) \o b
         /\ curSize' = Bytes(FlattenSeq(Last(sized))) ' /\ FilesWithinLimit'
<1>1. /\ sized \in Seq(Batches) /\ sized # <<>> /\ Len(sized) \in Nat \ {0}
      /\ curSize = Bytes(FlattenSeq(Last(sized))) /\ MaxFile \in Nat
      /\ \A i \in 1..Len(sized) : Bytes(FlattenSeq(sized[i])) > MaxFile => Len(sized[i]) = 1
  BY LoggerAssumption, EmptySeq DEF IInv, Shape, FilesSound, FilesWithinLimit
<1>2. sized' \in {WriteTo(sized, b), RollTo(sized, b)}
  BY DEF LogSized
<1>3. sized' \in Seq(Batches) /\ sized' # <<>> /\ Content(sized)' = Content(sized) \o b
  BY <1>1, <1>2, ContentGrows DEF Content
<1>4. CASE curSize + Bytes(b) > MaxFile
  <2>1. sized' = RollTo(sized, b) /\ curSize' = Bytes(b)
    BY <1>4 DEF LogSized
  <2>2. /\ Len(sized') = Len(sized) + 1 /\ Last(sized') = <<b>>
        /\ \A i \in 1..Len(sized) : sized'[i] = sized[i]
    BY <1>1, <2>1, RollAddsOneBatch
  <2>3. FlattenSeq(<<b>>) = b
    <3>1. <<b>> = Append(<<>>, b) /\ <<>> \in Seq(Seq(Messages)) /\ <<>> \in Seq(Messages)
      OBVIOUS
    <3>2. FlattenSeq(<<b>>) = <<>> \o b
      BY <3>1, FlattenAppend, FlattenEmpty
    <3> QED BY <3>1, <3>2, ConcatEmptySeq
  <2>4. sized'[Len(sized')] = <<b>> /\ Len(<<b>>) = 1
    BY <2>2 DEF Last
  <2>5. FilesWithinLimit'
    <3> SUFFICES ASSUME NEW i \in 1..Len(sized')
                 PROVE  Bytes(FlattenSeq(sized'[i])) > MaxFile => Len(sized'[i]) = 1
      BY DEF FilesWithinLimit, Bytes
    <3>1. CASE i = Len(sized')
      BY <2>4, <3>1
    <3>2. CASE i # Len(sized')
      <4>1. i \in 1..Len(sized)
        BY <1>1, <2>2, <3>2
      <4> QED BY <1>1, <2>2, <4>1
    <3> QED BY <3>1, <3>2
  <2> QED BY <1>3, <2>1, <2>2, <2>3, <2>5 DEF Bytes
<1>5. CASE ~(curSize + Bytes(b) > MaxFile)
  <2>1. sized' = WriteTo(sized, b) /\ curSize' = curSize + Bytes(b)
    BY <1>5 DEF LogSized
  <2>2. /\ Len(sized') = Len(sized) /\ Last(sized) \in Batches
        /\ Last(sized') = Append(Last(sized), b)
        /\ \A i \in 1..(Len(sized) - 1) : sized'[i] = sized[i]
    BY <1>1, <2>1, WriteAddsOneBatch
  <2>3. FlattenSeq(Last(sized')) = FlattenSeq(Last(sized)) \o b
        /\ FlattenSeq(Last(sized)) \in Seq(Messages)
    BY <2>2, FlattenAppend, FlattenType DEF Batches
  <2>4. /\ Bytes(FlattenSeq(Last(sized'))) = curSize + Bytes(b)
        /\ curSize \in Nat /\ Bytes(b) \in Nat
    BY <1>1, <2>3, BytesConcat
  <2>5. FilesWithinLimit'
    <3> SUFFICES ASSUME NEW i \in 1..Len(sized')
                 PROVE  Bytes(FlattenSeq(sized'[i])) > MaxFile => Len(sized'[i]) = 1
      BY DEF FilesWithinLimit, Bytes
    <3>1. CASE i = Len(sized')
      <4>1. Bytes(FlattenSeq(sized'[i])) = curSize + Bytes(b)
        BY <2>4, <3>1 DEF Last
      <4> QED BY <1>1, <1>5, <2>4, <4>1
    <3>2. CASE i # Len(sized')
      <4>1. i \in 1..(Len(sized) - 1) /\ i \in 1..Len(sized)
        BY <1>1, <2>2, <3>2
      <4> QED BY <1>1, <2>2, <4>1
    <3> QED BY <3>1, <3>2
  <2> QED BY <1>3, <2>1, <2>4, <2>5 DEF Bytes
<1> QED BY <1>4, <1>5

LEMMA RealLogKeeps ==
  ASSUME IInv, RealLog
  PROVE  IInv' /\ Content(sized)' = Content(sized) \o con.data
<1>1. /\ consumer = "swapped" /\ consumer' = "written"
      /\ LogSized(con.data) /\ timed' \in {WriteTo(timed, con.data), RollTo(timed, con.data)}
      /\ UNCHANGED <<limit, producer, pro, con, stop, stopper, accepted, missed>>
  BY DEF RealLog, LogTimed, buffers, history
<1>2. /\ con.data \in Seq(Messages) /\ pro.data \in Seq(Messages)
      /\ sized \in Seq(Batches) /\ timed \in Seq(Batches) /\ timed # <<>>
  BY DEF IInv, Shape, Buffers
<1>3. /\ sized' \in Seq(Batches) /\ sized' # <<>>
      /\ Content(sized)' = Content(sized) \o con.data
      /\ curSize' = Bytes(FlattenSeq(Last(sized))) ' /\ FilesWithinLimit'
  BY <1>1, <1>2, LogSizedSound
<1>4. /\ timed' \in Seq(Batches) /\ timed' # <<>>
      /\ Content(timed)' = Content(timed) \o con.data
  BY <1>1, <1>2, ContentGrows DEF Content
<1>5. Callers' /\ Logging'
  BY <1>1, CallsStay
<1>6. Shape'
  BY <1>1, <1>3, <1>4, <1>5 DEF IInv, Shape, Callers, ConsumerPlaces
<1>7. InOrder'
  <2>1. accepted = (Content(sized) \o con.data) \o pro.data
    BY <1>1 DEF IInv, InOrder, Pending
  <2>2. Content(sized) \o con.data \in Seq(Messages)
    BY <1>2, ContentType, ConcatProperties
  <2>3. (Content(sized) \o con.data) \o <<>> = Content(sized) \o con.data
    BY <2>2, ConcatEmptySeq
  <2>4. Pending' = <<>>
    BY <1>1 DEF Pending
  <2> QED BY <1>1, <1>3, <2>1, <2>3, <2>4 DEF InOrder
<1>8. FilesSound'
  BY <1>3, <1>4 DEF IInv, FilesSound, SinksAgree
<1>9. BuffersFit'
  BY <1>1 DEF IInv, BuffersFit
<1> QED BY <1>3, <1>5, <1>6, <1>7, <1>8, <1>9 DEF IInv

LEMMA ResetKeeps ==
  ASSUME IInv, ResetBuffer
  PROVE  IInv'
<1>1. /\ consumer = "written" /\ consumer' = "top" /\ con' = [con EXCEPT !.data = <<>>]
      /\ UNCHANGED <<limit, producer, pro, stop, stopper, sized, curSize, timed, accepted, missed>>
  BY DEF ResetBuffer, files, history
<1>2. Callers' /\ Logging'
  BY <1>1, CallsStay
<1>3. con' \in Buffers /\ con'.data = <<>> /\ con'.size = con.size /\ con.size \in Nat
  <2>1. con \in [size : Nat, data : Seq(Messages)] /\ <<>> \in Seq(Messages)
    BY DEF IInv, Shape, Buffers
  <2>2. con' = [size |-> con.size, data |-> <<>>]
    BY <1>1, <2>1
  <2> QED BY <2>1, <2>2 DEF Buffers
<1>4. Shape'
  BY <1>1, <1>2, <1>3 DEF IInv, Shape, Callers, ConsumerPlaces
<1>5. InOrder'
  BY <1>1, <1>3 DEF IInv, InOrder, Pending, Content
<1>6. BuffersFit'
  BY <1>1, <1>3, BytesEmpty DEF IInv, BuffersFit
<1>7. FilesSound'
  BY <1>1 DEF IInv, FilesSound, SinksAgree, FilesWithinLimit, Content
<1> QED BY <1>2, <1>4, <1>5, <1>6, <1>7 DEF IInv

-----------------------------------------------------------------------------
(* The invariant of every run                                               *)

LEMMA InitSound == Init => IInv
<1> SUFFICES ASSUME Init PROVE IInv
  OBVIOUS
<1>1. /\ limit = 2 /\ producer = [p \in Producers |-> [at |-> "idle", msg |-> NoMsg]]
      /\ pro = EmptyBuffer /\ con = EmptyBuffer /\ stop = FALSE /\ consumer = "top"
      /\ stopper = "idle" /\ sized = <<<<>>>> /\ curSize = 0 /\ timed = <<<<>>>>
      /\ accepted = <<>> /\ missed = FALSE
  BY DEF Init
<1>2. /\ EmptyBuffer.data = <<>> /\ EmptyBuffer.size = InitialSize /\ InitialSize \in Nat
      /\ EmptyBuffer \in Buffers
  BY LoggerAssumption DEF EmptyBuffer, Buffers
<1>3. <<>> \in Batches /\ <<>> \in Seq(Messages) /\ <<<<>>>> \in Seq(Batches) /\ <<<<>>>> # <<>>
  BY DEF Batches
<1>4. FlattenSeq(<<<<>>>>) = <<>>
  <2>1. <<<<>>>> = Append(<<>>, <<>>) /\ <<>> \in Seq(Seq(Messages))
    BY <1>3
  <2>2. FlattenSeq(<<<<>>>>) = <<>> \o <<>>
    BY <1>3, <2>1, FlattenAppend, FlattenEmpty
  <2> QED BY <1>3, <2>2, ConcatEmptySeq
<1>5. Content(sized) = <<>> /\ Content(timed) = <<>>
  BY <1>1, <1>4, FlattenEmpty DEF Content
<1>6. Shape
  <2>1. stop \in BOOLEAN /\ missed \in BOOLEAN
    BY <1>1
  <2>2. producer \in [Producers -> [at : ProducerPlaces, msg : Messages \cup {NoMsg}]]
    BY <1>1 DEF ProducerPlaces
  <2> QED BY <1>1, <1>2, <1>3, <2>1, <2>2 DEF Shape, Levels, ConsumerPlaces, StopperPlaces
<1>7. Logging
  BY <1>1 DEF Logging
<1>8. InOrder
  <2>1. Pending = <<>> /\ (<<>> \o <<>>) \o <<>> = <<>>
    BY <1>1, <1>3, ConcatEmptySeq DEF Pending
  <2> QED BY <1>1, <1>2, <1>5, <2>1 DEF InOrder
<1>9. BuffersFit
  BY <1>1, <1>2, BytesEmpty DEF BuffersFit
<1>10. FilesSound
  <2>1. Last(sized) = <<>> /\ Len(sized) = 1 /\ sized[1] = <<>>
    BY <1>1 DEF Last
  <2>2. FilesWithinLimit
    BY <2>1, FlattenEmpty, BytesEmpty, LoggerAssumption DEF FilesWithinLimit
  <2> QED BY <1>1, <1>5, <2>1, <2>2, FlattenEmpty, BytesEmpty DEF FilesSound, SinksAgree
<1> QED BY <1>6, <1>7, <1>8, <1>9, <1>10 DEF IInv

LEMMA StepKeeps == IInv /\ [Next]_vars => IInv'
<1> SUFFICES ASSUME IInv, [Next]_vars PROVE IInv'
  OBVIOUS
<1>1. ASSUME NEW p \in Producers, Push(p) PROVE IInv'
  BY <1>1, PushKeeps
<1>2. CASE SwapBuffers
  BY <1>2, SwapKeeps
<1>3. CASE RealLog
  BY <1>3, RealLogKeeps
<1>4. CASE ResetBuffer
  BY <1>4, ResetKeeps
<1> QED BY <1>1, <1>2, <1>3, <1>4, QuietStepKeeps DEF Next, Producer, Worker, Stopper

LEMMA SpecKeepsIInv == Spec => []IInv
<1> QED BY InitSound, StepKeeps, PTL DEF Spec

\* For any number of producers and messages, in safe and in unsafe mode: what is
\* in a buffer fits in its vector, the two sinks get the same messages in the
\* same order, _cur_size is what the file of RollfileSink holds, and a file is over
\* its limit only if a single write is.
THEOREM LoggerStaysSound == Spec => []LoggerInv
<1>1. ASSUME IInv PROVE LoggerInv
  BY <1>1 DEF IInv, Shape, BuffersFit, FilesSound, TypeOK, LoggerInv
<1> QED BY <1>1, SpecKeepsIInv, PTL

-----------------------------------------------------------------------------
(* The logger implements LogService                                         *)

LEMMA InitService == Init => Service!Init
<1> SUFFICES ASSUME Init PROVE Service!Init
  OBVIOUS
<1>1. accepted = <<>> /\ consumer = "top"
  BY DEF Init
<1>2. Content(sized) = <<>>
  <2>1. IInv
    BY InitSound
  <2>2. /\ accepted = (Content(sized) \o Pending) \o pro.data
        /\ Content(sized) \in Seq(Messages) /\ Pending \in Seq(Messages)
        /\ pro.data \in Seq(Messages)
    <3>1. con.data \in Seq(Messages) /\ pro.data \in Seq(Messages) /\ <<>> \in Seq(Messages)
      BY <2>1 DEF IInv, Shape, Buffers
    <3> QED BY <2>1, <3>1, ContentType DEF IInv, Shape, InOrder, Pending
  <2>3. Content(sized) \o Pending \in Seq(Messages)
    BY <2>2, ConcatProperties
  <2>4. \A s, t \in Seq(Messages) : s \o t = <<>> => s = <<>> /\ t = <<>>
    BY ConcatEqualIffEmpty
  <2>5. (Content(sized) \o Pending) \o pro.data = <<>>
    BY <1>1, <2>2
  <2>6. Content(sized) \o Pending = <<>>
    BY <2>2, <2>3, <2>4, <2>5, Zenon
  <2> QED BY <2>2, <2>4, <2>6, Zenon
<1>3. (consumer = "gone") = FALSE
  BY <1>1
<1> QED BY <1>1, <1>2, <1>3 DEF Service!Init

LEMMA PrefixOfConcat ==
  ASSUME NEW S, NEW s \in Seq(S), NEW t \in Seq(S)
  PROVE  /\ s \o t \in Seq(S) /\ Len(s) \in Nat /\ Len(t) \in Nat
         /\ Len(s \o t) = Len(s) + Len(t) /\ SubSeq(s \o t, 1, Len(s)) = s
<1>1. PICK u \in Seq(S) : u = s \o t
  BY ConcatProperties
<1>2. PICK n \in Nat : n = Len(s)
  BY LenProperties
<1>3. /\ Len(t) \in Nat /\ Len(u) = n + Len(t)
      /\ \A i \in 1..(n + Len(t)) : u[i] = IF i <= n THEN s[i] ELSE t[i - n]
  BY <1>1, <1>2, ConcatProperties, LenProperties
<1>4. \A i \in 1..n : u[i] = s[i] /\ s[i] \in S
  <2>1. \A i \in 1..n : i \in 1..(n + Len(t)) /\ i <= n
    BY <1>3
  <2>2. \A i \in 1..n : s[i] \in S
    BY <1>2, ElementOfSeq
  <2> QED BY <1>3, <2>1, <2>2
<1> DEFINE v == SubSeq(u, 1, n)
<1>5. /\ v \in Seq(S) /\ Len(v) = (IF 1 <= n THEN n - 1 + 1 ELSE 0)
      /\ \A i \in 1..(n - 1 + 1) : v[i] = u[1 + i - 1]
  BY <1>4, SubSeqProperties
<1> HIDE DEF v
<1>6. Len(v) = n /\ \A i \in 1..n : v[i] = s[i]
  <2>1. Len(v) = n
    BY <1>5
  <2>2. ASSUME NEW i \in 1..n PROVE v[i] = s[i]
    <3>1. i \in 1..(n - 1 + 1) /\ 1 + i - 1 = i
      OBVIOUS
    <3>2. v[i] = u[i]
      BY <1>5, <3>1
    <3> QED BY <1>4, <3>2
  <2> QED BY <2>1, <2>2
<1>7. v = s
  BY <1>2, <1>5, <1>6, SeqEqual
<1> QED BY <1>1, <1>2, <1>3, <1>7 DEF v

\* The callback hands over what was accepted up to the swap, and no more.
LEMMA RealLogService ==
  ASSUME IInv, RealLog
  PROVE  Service!Write
<1>1. /\ consumer = "swapped" /\ consumer' = "written" /\ accepted' = accepted
      /\ Content(sized)' = Content(sized) \o con.data
  BY RealLogKeeps DEF RealLog, history
<1>2. /\ Content(sized) \in Seq(Messages) /\ con.data \in Seq(Messages)
      /\ pro.data \in Seq(Messages)
      /\ accepted = (Content(sized) \o con.data) \o pro.data
  BY <1>1, ContentType DEF IInv, Shape, Buffers, InOrder, Pending
<1>3. PICK before \in Seq(Messages), batch \in Seq(Messages), rest \in Seq(Messages),
           all \in Seq(Messages) :
        /\ before = Content(sized) /\ batch = con.data /\ rest = pro.data /\ all = accepted
  BY <1>2 DEF IInv, Shape
<1>4. PICK after \in Seq(Messages) :
        /\ after = before \o batch /\ Len(after) = Len(before) + Len(batch)
        /\ Len(before) \in Nat /\ Len(batch) \in Nat
  BY PrefixOfConcat
<1>5. all = after \o rest
  BY <1>2, <1>3, <1>4
<1>6. /\ Len(all) = Len(after) + Len(rest) /\ Len(rest) \in Nat
      /\ SubSeq(all, 1, Len(after)) = after
  BY <1>5, PrefixOfConcat
<1>7. Len(after) \in Len(before)..Len(all)
  BY <1>4, <1>6
<1>8. \E k \in Len(before)..Len(all) : after = SubSeq(all, 1, k)
  BY <1>6, <1>7
<1>9. (consumer = "gone") = FALSE /\ (consumer = "gone")' = FALSE
  BY <1>1
<1> QED BY <1>1, <1>3, <1>4, <1>8, <1>9 DEF Service!Write

\* The worker leaves when nothing is pushed that is not written.
LEMMA EnterService ==
  ASSUME IInv, Enter
  PROVE  Service!Close \/ UNCHANGED Service!vars
<1>1. /\ consumer = "top" /\ UNCHANGED <<accepted, sized>>
      /\ \/ consumer' = "gone" /\ pro.data = <<>>
         \/ consumer' = "test"
  BY DEF Enter, files, history
<1>2. Content(sized)' = Content(sized)
  BY <1>1 DEF Content
<1>3. CASE consumer' = "gone" /\ pro.data = <<>>
  <2>1. accepted = (Content(sized) \o <<>>) \o <<>> /\ Content(sized) \in Seq(Messages)
    BY <1>1, <1>3, ContentType DEF IInv, Shape, InOrder, Pending
  <2>2. accepted = Content(sized)
    BY <2>1, ConcatEmptySeq
  <2> QED BY <1>1, <1>2, <1>3, <2>2 DEF Service!Close
<1>4. CASE consumer' = "test"
  BY <1>1, <1>2, <1>4 DEF Service!vars
<1> QED BY <1>1, <1>3, <1>4

LEMMA StepService == IInv /\ [Next]_vars => [Service!Next]_(Service!vars)
<1> SUFFICES ASSUME IInv, [Next]_vars PROVE Service!Next \/ UNCHANGED Service!vars
  OBVIOUS
<1>1. ASSUME NEW p \in Producers, Push(p) PROVE Service!Next
  <2>1. PICK m \in Messages : accepted' = Append(accepted, m)
    BY <1>1, PushKeeps
  <2>2. sized' = sized /\ ((consumer = "gone")' <=> (consumer = "gone"))
    BY <1>1 DEF Push, files, WakeConsumer
  <2>3. Content(sized)' = Content(sized)
    BY <2>2 DEF Content
  <2>4. Service!Accept(m)
    BY <2>1, <2>2, <2>3 DEF Service!Accept
  <2> QED BY <2>4 DEF Service!Next
<1>2. CASE RealLog
  BY <1>2, RealLogService DEF Service!Next
<1>3. CASE Enter
  BY <1>3, EnterService DEF Service!Next
<1>4. CASE \/ \E l \in {2, 3} : SetLevel(l)
           \/ \E p \in Producers : PushFindsNoRoom(p) \/ ProducerSleeps(p)
           \/ \E p \in Producers, m \in Messages : LogCall(p, m)
           \/ FindNothing \/ ConsumerSleeps \/ SwapBuffers \/ ResetBuffer
           \/ SetStop \/ NotifyConsumer \/ NotifyProducers \/ Join
           \/ SpuriousWakeup
           \/ UNCHANGED vars
  <2>1. UNCHANGED <<accepted, sized>> /\ ((consumer = "gone")' <=> (consumer = "gone"))
    <3>1. CASE \/ \E l \in {2, 3} : SetLevel(l)
               \/ \E p \in Producers : PushFindsNoRoom(p) \/ ProducerSleeps(p)
               \/ \E p \in Producers, m \in Messages : LogCall(p, m)
               \/ SetStop \/ NotifyProducers \/ Join \/ UNCHANGED vars
      BY <3>1 DEF SetLevel, PushFindsNoRoom, ProducerSleeps, LogCall, SetStop, NotifyProducers,
                  Join, vars, files, history
    <3>2. CASE FindNothing \/ ConsumerSleeps \/ SwapBuffers \/ ResetBuffer
      BY <3>2 DEF FindNothing, ConsumerSleeps, SwapBuffers, ResetBuffer, Testing, files, history
    <3>3. CASE NotifyConsumer \/ SpuriousWakeup
      BY <3>3 DEF NotifyConsumer, SpuriousWakeup, WakeConsumer, files, history
    <3> QED BY <1>4, <3>1, <3>2, <3>3
  <2>2. Content(sized)' = Content(sized)
    BY <2>1 DEF Content
  <2> QED BY <2>1, <2>2 DEF Service!vars
<1> QED BY <1>1, <1>2, <1>3, <1>4 DEF Next, Producer, Worker, Stopper

\* push, the swap of the buffers, the callback and reset hand over what was
\* pushed once each and in order, whatever the threads' interleaving, and the
\* worker leaves only when all of it has been handed over.
THEOREM ImplementsLogService == Spec => ServiceSpec
<1> QED BY InitService, StepService, SpecKeepsIInv, PTL DEF Spec, ServiceSpec, Service!Spec

=============================================================================
