--------------------------- MODULE HttpTextProofs ---------------------------
(***************************************************************************)
(* What Split, UrlEncode, UrlDecode and ValidPath compute, for every text, *)
(* and Params for every form.  Each is a loop, here a recursive function;  *)
(* that it computes what it is for is proved with the last, or the first,  *)
(* turn for which it would not.                                            *)
(***************************************************************************)
EXTENDS MCHttpServer, FiniteSetTheorems, SequenceTheorems, WellFoundedInduction, TLAPS

-----------------------------------------------------------------------------
(* Loops                                                                    *)

LEMMA Smallest ==
  ASSUME NEW T \in SUBSET Nat, T # {}
  PROVE  \E x \in T : \A y \in T : x <= y
<1>1. PICK x \in T : \A y \in T : ~(<<y, x>> \in OpToRel(<, Nat))
  BY NatLessThanWellFounded, WFMin, Zenon
<1>2. \A y \in T : ~(y < x)
  BY <1>1 DEF OpToRel
<1> QED BY <1>2

LEMMA Largest ==
  ASSUME NEW n \in Nat, NEW T \in SUBSET (0..n), T # {}
  PROVE  \E x \in T : \A y \in T : y <= x
<1> DEFINE U == {n - y : y \in T}
<1>1. U \in SUBSET Nat /\ U # {}
  <2>1. \A y \in T : n - y \in Nat
    OBVIOUS
  <2>2. U \subseteq Nat
    BY <2>1
  <2>3. PICK y \in T : TRUE
    OBVIOUS
  <2>4. n - y \in U
    OBVIOUS
  <2> QED BY <2>2, <2>4
<1>2. PICK u \in U : \A v \in U : u <= v
  BY <1>1, Smallest
<1>3. PICK x \in T : u = n - x
  BY <1>2
<1>4. ASSUME NEW y \in T PROVE y <= x
  <2>1. n - y \in U
    OBVIOUS
  <2>2. n - x <= n - y
    BY <1>2, <1>3, <2>1
  <2> QED BY <2>2
<1> QED BY <1>4

\* A loop over 1..n that pushes pre[o] and goes on at next[o]: what it has pushed
\* from o on.
IsLoop(f, n, size, pre, next) ==
    f = [o \in 1..size |-> IF o > n THEN <<>> ELSE pre[o] \o f[next[o]]]

\* A loop that goes forward ends.
LEMMA LoopExists ==
  ASSUME NEW n \in Nat, NEW size \in Nat, NEW pre, NEW next,
         \A o \in 1..n : next[o] \in (o + 1)..size
  PROVE  \E f : IsLoop(f, n, size, pre, next)
<1> DEFINE Loops(f, k) ==
             f = [o \in 1..size |-> IF o > n \/ o < k THEN <<>> ELSE pre[o] \o f[next[o]]]
           T == {k \in 0..n : ~\E f : Loops(f, k + 1)}
<1>1. \E f : Loops(f, n + 1)
  <2> DEFINE f == [o \in 1..size |-> <<>>]
  <2>1. \A o \in 1..size : o > n \/ o < n + 1
    OBVIOUS
  <2>2. f = [o \in 1..size |-> IF o > n \/ o < n + 1 THEN <<>> ELSE pre[o] \o f[next[o]]]
    BY <2>1
  <2>3. Loops(f, n + 1)
    BY <2>2
  <2> QED BY <2>3
<1>2. ASSUME T # {} PROVE FALSE
  <2>1. PICK m \in T : \A y \in T : y <= m
    BY <1>2, Largest
  <2>2. m \in 0..n /\ ~\E f : Loops(f, m + 1)
    OBVIOUS
  <2> DEFINE k == m + 1
  <2>3. m # n
    BY <1>1, <2>2
  <2>4. k \in 1..n /\ k \in 0..n /\ k \notin T
    <3>1. m \in 0..n /\ m # n
      BY <2>2, <2>3
    <3>2. k \in 0..n /\ k \in 1..n /\ ~(k <= m)
      BY <3>1
    <3> HIDE DEF T, k
    <3> QED BY <2>1, <3>2
  <2>5. PICK h : Loops(h, k + 1)
    BY <2>4
  <2> HIDE DEF k
  <2> DEFINE f == [h EXCEPT ![k] = pre[k] \o h[next[k]]]
             body(o) == IF o > n \/ o < k THEN <<>> ELSE pre[o] \o f[next[o]]
  <2>6. DOMAIN h = 1..size /\ DOMAIN f = 1..size
    BY <2>5
  <2>7. ASSUME NEW o \in 1..size PROVE f[o] = body(o)
    <3>1. o >= k /\ o <= n => next[o] \in 1..size /\ next[o] # k /\ f[next[o]] = h[next[o]]
      BY <2>4, <2>6, <2>7
    <3>2. CASE o = k
      <4>1. f[o] = pre[k] \o h[next[k]]
        BY <2>6, <2>7, <3>2
      <4>2. f[next[o]] = h[next[o]] /\ ~(o > n \/ o < k)
        BY <2>4, <3>1, <3>2
      <4> HIDE DEF f
      <4> QED BY <3>2, <4>1, <4>2
    <3>3. CASE o # k
      <4>1. f[o] = h[o]
        BY <2>6, <2>7, <3>3
      <4>2. h[o] = IF o > n \/ o < k + 1 THEN <<>> ELSE pre[o] \o h[next[o]]
        BY <2>5, <2>7
      <4>3. o < k + 1 <=> o < k
        BY <2>4, <2>7, <3>3
      <4> QED BY <2>7, <3>1, <4>1, <4>2, <4>3
    <3> QED BY <3>2, <3>3
  <2>8. f = [o \in 1..size |-> body(o)]
    BY <2>6, <2>7
  <2>9. Loops(f, k)
    BY <2>8
  <2> QED BY <2>2, <2>9 DEF k
<1>3. 0 \in 0..n /\ 0 \notin T
  <2>1. 0 \in 0..n
    OBVIOUS
  <2> HIDE DEF T
  <2> QED BY <1>2, <2>1
<1>4. PICK f : Loops(f, 0 + 1)
  BY <1>3
<1> DEFINE body(o) == IF o > n THEN <<>> ELSE pre[o] \o f[next[o]]
<1>6. ASSUME NEW o \in 1..size PROVE f[o] = body(o)
  <2>1. f[o] = IF o > n \/ o < 0 + 1 THEN <<>> ELSE pre[o] \o f[next[o]]
    BY <1>4
  <2>2. ~(o < 0 + 1)
    OBVIOUS
  <2> QED BY <2>1, <2>2
<1>7. f = [o \in 1..size |-> body(o)]
  <2>1. DOMAIN f = 1..size /\ f = [o \in 1..size |-> f[o]]
    BY <1>4
  <2> HIDE DEF body
  <2> QED BY <1>6, <2>1
<1>5. f = [o \in 1..size |-> IF o > n THEN <<>> ELSE pre[o] \o f[next[o]]]
  BY <1>7
<1> QED BY <1>5 DEF IsLoop

\* What a loop pushes is made of what each turn pushes.
LEMMA LoopTyped ==
  ASSUME NEW n \in Nat, NEW size \in Nat, NEW pre, NEW next, NEW S, NEW f,
         IsLoop(f, n, size, pre, next),
         \A o \in 1..n : next[o] \in (o + 1)..size /\ pre[o] \in Seq(S)
  PROVE  \A o \in 1..size : f[o] \in Seq(S)
<1> DEFINE T == {o \in 0..size : o # 0 /\ f[o] \notin Seq(S)}
<1>0. \A o \in 1..size : f[o] = IF o > n THEN <<>> ELSE pre[o] \o f[next[o]]
  BY DEF IsLoop
<1>1. ASSUME T # {} PROVE FALSE
  <2>1. PICK m \in T : \A y \in T : y <= m
    BY <1>1, Largest
  <2>2. m \in 1..size /\ f[m] \notin Seq(S)
    OBVIOUS
  <2>3. f[m] = IF m > n THEN <<>> ELSE pre[m] \o f[next[m]]
    BY <1>0, <2>2
  <2>4. m \in 1..n
    <3>1. <<>> \in Seq(S)
      BY EmptySeq
    <3> QED BY <2>2, <2>3, <3>1
  <2>5. next[m] \in 1..size /\ next[m] \in 0..size /\ next[m] # 0 /\ ~(next[m] <= m)
    BY <2>4
  <2>6. f[next[m]] \in Seq(S)
    BY <2>1, <2>5
  <2>7. pre[m] \o f[next[m]] \in Seq(S)
    BY <2>4, <2>6, ConcatProperties
  <2> QED BY <2>2, <2>3, <2>4, <2>7
<1> QED BY <1>1

\* What a loop pushes from a turn on is the end of what it pushes.
EndsAt(e, i) ==
    /\ Len(e[i]) <= Len(e[1])
    /\ \A k \in 1..Len(e[i]) : e[1][Len(e[1]) - Len(e[i]) + k] = e[i][k]

\* A loop that takes each turn, and what it pushes in all.
OneByOne(n, pre, next, S) == \A o \in 1..n : next[o] = o + 1 /\ pre[o] \in Seq(S)

PushesAll(e, n, S) ==
    \A i \in 1..(n + 1) : e[1] \in Seq(S) /\ e[i] \in Seq(S) /\ EndsAt(e, i)

LEMMA LoopEnds ==
  ASSUME NEW n \in Nat, NEW pre, NEW next, NEW S, NEW e, IsLoop(e, n, n + 1, pre, next),
         OneByOne(n, pre, next, S)
  PROVE  PushesAll(e, n, S)
<1> DEFINE u == e[1]
           Ends(j) == /\ Len(e[j]) <= Len(u)
                      /\ \A k \in 1..Len(e[j]) : u[Len(u) - Len(e[j]) + k] = e[j][k]
           T == {j \in 1..(n + 1) : ~Ends(j)}
<1>1. n + 1 \in Nat
  OBVIOUS
<1>2. \A o \in 1..n : next[o] \in (o + 1)..(n + 1) /\ pre[o] \in Seq(S) /\ next[o] = o + 1
  BY DEF OneByOne
<1>3. \A o \in 1..(n + 1) : e[o] = IF o > n THEN <<>> ELSE pre[o] \o e[next[o]]
  BY DEF IsLoop
<1>5. \A o \in 1..(n + 1) : e[o] \in Seq(S)
  BY <1>1, <1>2, LoopTyped
<1>6. 1 \in 1..(n + 1) /\ u \in Seq(S) /\ Len(u) \in Nat
  <2>1. 1 \in 1..(n + 1)
    BY <1>1
  <2> QED BY <1>5, <2>1, LenProperties
<1>7. ASSUME T # {} PROVE FALSE
  <2>1. PICK m \in T : \A y \in T : m <= y
    <3>1. T \subseteq Nat
      <4> HIDE DEF Ends
      <4> QED OBVIOUS
    <3> HIDE DEF T
    <3> QED BY <1>7, <3>1, Smallest
  <2>2. m \in 1..(n + 1) /\ ~Ends(m)
    OBVIOUS
  <2>3. m # 1
    <3>1. Ends(1)
      BY <1>6
    <3> QED BY <2>2, <3>1
  <2> DEFINE l == m - 1
  <2>4. l \in 1..n /\ l \in 1..(n + 1) /\ l + 1 = m /\ ~(l > n) /\ ~(m <= l)
    BY <1>1, <2>2, <2>3
  <2> HIDE DEF l
  <2>5. Ends(l)
    <3> HIDE DEF Ends
    <3> QED BY <2>1, <2>4
  <2> DEFINE w == pre[l]
  <2>6. w \in Seq(S)
    BY <1>2, <2>4
  <2> HIDE DEF w
  <2>7. e[l] = w \o e[m] /\ e[l] \in Seq(S) /\ e[m] \in Seq(S)
    BY <1>2, <1>3, <1>5, <2>2, <2>4 DEF w
  <2>8. /\ Len(w) \in Nat /\ Len(e[m]) \in Nat /\ Len(e[l]) = Len(w) + Len(e[m])
        /\ \A k \in 1..(Len(w) + Len(e[m])) :
              e[l][k] = IF k <= Len(w) THEN w[k] ELSE e[m][k - Len(w)]
    BY <2>6, <2>7, ConcatProperties, LenProperties
  <2>9. Len(e[m]) <= Len(u)
    BY <1>6, <2>5, <2>8
  <2>10. ASSUME NEW k \in 1..Len(e[m]) PROVE u[Len(u) - Len(e[m]) + k] = e[m][k]
    <3> DEFINE at == Len(w) + k
    <3>1. at \in 1..(Len(w) + Len(e[m])) /\ ~(at <= Len(w)) /\ at - Len(w) = k
      BY <2>8, <2>10
    <3>2. Len(u) - Len(e[l]) + at = Len(u) - Len(e[m]) + k
      <4>1. PICK a \in Int : a = Len(u)
        BY <1>6
      <4>2. PICK b \in Int : b = Len(w)
        BY <2>8
      <4>3. PICK c \in Int : c = Len(e[m])
        BY <2>8
      <4>4. PICK x \in Int : x = k
        OBVIOUS
      <4>5. a - (b + c) + (b + x) = a - c + x
        OBVIOUS
      <4> QED BY <2>8, <4>1, <4>2, <4>3, <4>4, <4>5
    <3> HIDE DEF at
    <3>3. e[l][at] = e[m][k]
      BY <2>8, <3>1
    <3>4. u[Len(u) - Len(e[l]) + at] = e[l][at]
      BY <2>5, <2>8, <3>1
    <3> QED BY <3>2, <3>3, <3>4
  <2> QED BY <2>2, <2>9, <2>10
<1>8. \A i \in 1..(n + 1) : EndsAt(e, i)
  BY <1>7 DEF EndsAt
<1> QED BY <1>5, <1>6, <1>8 DEF PushesAll
-----------------------------------------------------------------------------
(* UrlEncode and UrlDecode                                                  *)

\* What the loops of UrlEncode and UrlDecode push from a character on.
IsEncoding(e, url, spaceToPlus) ==
    e = [i \in 1..(Len(url) + 1) |->
            IF i > Len(url) THEN <<>> ELSE Encoded(url[i], spaceToPlus) \o e[i + 1]]

IsDecoding(d, url, plusToSpace) ==
    d = [i \in 1..(Len(url) + 3) |->
            IF i > Len(url) THEN <<>>
            ELSE IF Coded(url, i)
            THEN <<Combine(Hextoi(url[i + 1]), Hextoi(url[i + 2]))>> \o d[i + 3]
            ELSE Literal(url[i], plusToSpace) \o d[i + 1]]

LEMMA EncodingExists ==
  ASSUME NEW url \in Seq(Int), NEW b
  PROVE  \E e : IsEncoding(e, url, b)
<1> DEFINE n == Len(url)
           pre == [i \in 1..n |-> Encoded(url[i], b)]
           next == [i \in 1..n |-> i + 1]
<1>1. n \in Nat /\ n + 1 \in Nat /\ \A i \in 1..n : next[i] \in (i + 1)..(n + 1)
  OBVIOUS
<1>2. PICK e : IsLoop(e, n, n + 1, pre, next)
  <2> HIDE DEF n, pre, next
  <2> QED BY <1>1, LoopExists
<1> DEFINE body(i) == IF i > n THEN <<>> ELSE Encoded(url[i], b) \o e[i + 1]
<1>3. ASSUME NEW i \in 1..(n + 1) PROVE e[i] = body(i)
  <2>1. e[i] = IF i > n THEN <<>> ELSE pre[i] \o e[next[i]]
    BY <1>2 DEF IsLoop
  <2>2. ~(i > n) => i \in 1..n /\ pre[i] = Encoded(url[i], b) /\ next[i] = i + 1
    BY <1>1
  <2> QED BY <2>1, <2>2
<1>4. e = [i \in 1..(n + 1) |-> body(i)]
  <2>1. e = [i \in 1..(n + 1) |-> e[i]]
    BY <1>2 DEF IsLoop
  <2> HIDE DEF body
  <2> QED BY <1>3, <2>1
<1> QED BY <1>4 DEF IsEncoding

LEMMA DecodingExists ==
  ASSUME NEW url \in Seq(Int), NEW b
  PROVE  \E d : IsDecoding(d, url, b)
<1> DEFINE n == Len(url)
           code(i) == <<Combine(Hextoi(url[i + 1]), Hextoi(url[i + 2]))>>
           pre == [i \in 1..n |-> IF Coded(url, i) THEN code(i) ELSE Literal(url[i], b)]
           next == [i \in 1..n |-> IF Coded(url, i) THEN i + 3 ELSE i + 1]
<1>1. n \in Nat /\ n + 3 \in Nat /\ \A i \in 1..n : next[i] \in (i + 1)..(n + 3)
  OBVIOUS
<1> HIDE DEF code
<1>2. PICK d : IsLoop(d, n, n + 3, pre, next)
  <2> HIDE DEF n, pre, next
  <2> QED BY <1>1, LoopExists
<1> DEFINE body(i) == IF i > n THEN <<>> ELSE IF Coded(url, i) THEN code(i) \o d[i + 3]
                      ELSE Literal(url[i], b) \o d[i + 1]
<1>3. ASSUME NEW i \in 1..(n + 3) PROVE d[i] = body(i)
  <2>1. d[i] = IF i > n THEN <<>> ELSE pre[i] \o d[next[i]]
    BY <1>2 DEF IsLoop
  <2>2. ~(i > n) => /\ i \in 1..n
                    /\ pre[i] = IF Coded(url, i) THEN code(i) ELSE Literal(url[i], b)
                    /\ next[i] = IF Coded(url, i) THEN i + 3 ELSE i + 1
    BY <1>1
  <2> QED BY <2>1, <2>2
<1>4. d = [i \in 1..(n + 3) |-> body(i)]
  <2>1. d = [i \in 1..(n + 3) |-> d[i]]
    BY <1>2 DEF IsLoop
  <2> HIDE DEF body
  <2> QED BY <1>3, <2>1
<1> QED BY <1>4 DEF IsDecoding, code

\* A code is made of what is not reserved, and percent signs.
Safe == {c \in 0..127 : Unreserved(c) \/ c = Percent}

LEMMA SafeIsInt == Safe \subseteq Int
<1>1. Safe \subseteq 0..127
  BY Zenon DEF Safe
<1> QED BY <1>1

\* What is left of a character after UrlEncode.
KeptChar(c) == IF c < 0 THEN -1 ELSE c

\* Two hexadecimal digits are read as the number they were printed from.
LEMMA HexBack ==
  ASSUME NEW h \in 0..15, NEW l \in 0..15
  PROVE  /\ HexDigit(h) \in 48..57 \cup 65..70 /\ Hextoi(HexDigit(h)) = h
         /\ Combine(h, l) = IF 16 * h + l > 127 THEN 16 * h + l - 256 ELSE 16 * h + l
<1>1. HexDigit(h) \in 48..57 \cup 65..70 /\ Hextoi(HexDigit(h)) = h
  BY DEF HexDigit, Hextoi
<1>2. (l \div 16) = 0 /\ (l % 16) = l /\ ((16 * h + l) % 256) = 16 * h + l
  OBVIOUS
<1>3. Combine(h, l) = IF 16 * h + l > 127 THEN 16 * h + l - 256 ELSE 16 * h + l
  BY <1>2 DEF Combine, SetBit
<1> QED BY <1>1, <1>3

\* A character becomes itself, or a percent sign with two digits that stand for it.
LEMMA EncodedCases ==
  ASSUME NEW c \in -128..127
  PROVE  LET w == Encoded(c, FALSE) IN
         /\ w \in Seq(Safe)
         /\ \/ Len(w) = 1 /\ w[1] = c /\ Unreserved(c)
            \/ /\ Len(w) = 3 /\ w[1] = Percent
               /\ Hextoi(w[2]) \in 0..15 /\ Hextoi(w[3]) \in 0..15
               /\ Combine(Hextoi(w[2]), Hextoi(w[3])) = KeptChar(c)
<1>1. CASE Unreserved(c)
  <2>1. Encoded(c, FALSE) = <<c>>
    BY <1>1 DEF Encoded
  <2>3. c \in Safe
    BY <1>1 DEF Safe, Unreserved
  <2>2. <<c>> \in Seq(Safe) /\ Len(<<c>>) = 1 /\ <<c>>[1] = c
    BY <2>3
  <2> QED BY <1>1, <2>1, <2>2
<1>2. CASE ~Unreserved(c)
  <2> DEFINE h == IF c < 0 THEN 15 ELSE c \div 16
             l == IF c < 0 THEN 15 ELSE c % 16
  <2>1. h \in 0..15 /\ l \in 0..15 /\ 16 * h + l = IF c < 0 THEN 255 ELSE c
    OBVIOUS
  <2>2. Encoded(c, FALSE) = <<Percent, HexDigit(h), HexDigit(l)>>
    BY <1>2 DEF Encoded, Escape
  <2> HIDE DEF h, l
  <2>3. Combine(h, l) = KeptChar(c)
    BY <2>1, HexBack DEF KeptChar
  <2>4. HexDigit(h) \in Safe /\ HexDigit(l) \in Safe /\ Hextoi(HexDigit(h)) = h /\ Hextoi(HexDigit(l)) = l
    <3>1. \A x \in 48..57 \cup 65..70 : x \in Safe
      BY DEF Safe, Unreserved
    <3> QED BY <2>1, <3>1, HexBack
  <2>5. Percent \in Safe
    BY DEF Percent, Safe
  <2> DEFINE w == <<Percent, HexDigit(h), HexDigit(l)>>
  <2>6. w \in Seq(Safe) /\ Len(w) = 3 /\ w[1] = Percent /\ w[2] = HexDigit(h) /\ w[3] = HexDigit(l)
    BY <2>4, <2>5
  <2> HIDE DEF w
  <2> QED BY <2>1, <2>2, <2>3, <2>4, <2>6 DEF w
<1> QED BY <1>1, <1>2

LEMMA EncodingEnds ==
  ASSUME NEW url \in Seq(-128..127), NEW e, IsEncoding(e, url, FALSE)
  PROVE  \A i \in 1..(Len(url) + 1) :
             e[1] \in Seq(Safe) /\ e[i] \in Seq(Safe) /\ EndsAt(e, i)
<1> DEFINE n == Len(url)
           pre == [o \in 1..n |-> Encoded(url[o], FALSE)]
           next == [o \in 1..n |-> o + 1]
<1>1. n \in Nat
  BY LenProperties
<1>2. ASSUME NEW o \in 1..n PROVE next[o] = o + 1 /\ pre[o] \in Seq(Safe)
  <2>1. url[o] \in -128..127
    BY ElementOfSeq
  <2>2. Encoded(url[o], FALSE) \in Seq(Safe)
    BY <2>1, EncodedCases
  <2>3. next[o] = o + 1 /\ pre[o] = Encoded(url[o], FALSE)
    OBVIOUS
  <2> QED BY <2>2, <2>3
<1>3. IsLoop(e, n, n + 1, pre, next)
  <2> DEFINE body(o) == IF o > n THEN <<>> ELSE pre[o] \o e[next[o]]
  <2>1. \A o \in 1..(n + 1) :
           e[o] = IF o > n THEN <<>> ELSE Encoded(url[o], FALSE) \o e[o + 1]
    BY DEF IsEncoding
  <2>2. ASSUME NEW o \in 1..(n + 1) PROVE e[o] = body(o)
    <3>1. ~(o > n) => pre[o] = Encoded(url[o], FALSE) /\ next[o] = o + 1
      <4>1. ~(o > n) => o \in 1..n
        BY <1>1
      <4> QED BY <4>1
    <3> QED BY <2>1, <3>1
  <2>3. e = [o \in 1..(n + 1) |-> e[o]]
    BY DEF IsEncoding
  <2>4. e = [o \in 1..(n + 1) |-> body(o)]
    <3> HIDE DEF body, n
    <3> QED BY <2>2, <2>3
  <2> QED BY <2>4 DEF IsLoop
<1>4. OneByOne(n, pre, next, Safe)
  BY <1>2 DEF OneByOne
<1>5. PushesAll(e, n, Safe)
  <2> HIDE DEF pre, next, n
  <2> QED BY <1>1, <1>3, <1>4, LoopEnds
<1> QED BY <1>5 DEF PushesAll

LEMMA KeptIsChar ==
  ASSUME NEW c \in -128..127
  PROVE  KeptChar(c) \in Int
BY DEF KeptChar

\* One character in front of a sequence.
LEMMA OneInFront ==
  ASSUME NEW S, NEW a \in S, NEW s \in Seq(S), NEW t \in Seq(S), Len(t) = Len(s) + 1,
         t[1] = a, \A k \in 1..Len(s) : t[k + 1] = s[k]
  PROVE  <<a>> \o s = t
<1>1. <<a>> \in Seq(S) /\ Len(<<a>>) = 1 /\ <<a>>[1] = a /\ Len(s) \in Nat
  OBVIOUS
<1> DEFINE r == <<a>> \o s
<1>2. /\ r \in Seq(S) /\ Len(r) = 1 + Len(s)
      /\ \A k \in 1..(1 + Len(s)) : r[k] = IF k <= 1 THEN <<a>>[k] ELSE s[k - 1]
  BY <1>1, ConcatProperties
<1> HIDE DEF r
<1>3. ASSUME NEW k \in 1..Len(r) PROVE r[k] = t[k]
  <2>1. CASE k = 1
    BY <1>1, <1>2, <2>1
  <2>2. CASE k # 1
    <3>1. k \in 1..(1 + Len(s)) /\ ~(k <= 1) /\ k - 1 \in 1..Len(s) /\ (k - 1) + 1 = k
      BY <1>1, <1>2, <2>2
    <3>2. r[k] = s[k - 1]
      BY <1>2, <3>1
    <3>3. t[(k - 1) + 1] = s[k - 1]
      BY <3>1
    <3> QED BY <3>1, <3>2, <3>3
  <2> QED BY <2>1, <2>2
<1>4. Len(r) = Len(t)
  BY <1>1, <1>2
<1>5. r = t
  BY <1>2, <1>3, <1>4, SeqEqual
<1> QED BY <1>5 DEF r

\* UrlDecode gives back every text that UrlEncode wrote with percent codes.
LEMMA DecodeInvertsEncode ==
  ASSUME NEW url \in Seq(-128..127), NEW b \in BOOLEAN
  PROVE  UrlDecode(UrlEncode(url, FALSE), b) = Kept(url)
<1> DEFINE n == Len(url)
           rest(i) == [k \in 1..((n + 1) - i) |-> KeptChar(url[i + k - 1])]
<1>1. n \in Nat /\ \A o \in 1..n : url[o] \in -128..127
  <2>1. n \in Nat
    BY LenProperties
  <2>2. \A o \in 1..n : url[o] \in -128..127
    BY ElementOfSeq
  <2> QED BY <2>1, <2>2
<1>16. PICK e : e = CHOOSE f : IsEncoding(f, url, FALSE)
  OBVIOUS
<1> DEFINE u == e[1]
<1>2. UrlEncode(url, FALSE) = u
  BY <1>16 DEF UrlEncode, IsEncoding
<1>3. IsEncoding(e, url, FALSE)
  <2>1. -128..127 \subseteq Int
    OBVIOUS
  <2>2. url \in Seq(Int)
    BY <2>1, SeqMonotonic
  <2>3. \E f : IsEncoding(f, url, FALSE)
    BY <2>2, EncodingExists
  <2> QED BY <1>16, <2>3
<1>4. \A o \in 1..(n + 1) : e[o] = IF o > n THEN <<>> ELSE Encoded(url[o], FALSE) \o e[o + 1]
  BY <1>3 DEF IsEncoding
<1> DEFINE at(i) == Len(u) - Len(e[i])
<1>5. ASSUME NEW i \in 1..(n + 1)
      PROVE  /\ u \in Seq(Int) /\ e[i] \in Seq(Int) /\ Len(e[i]) <= Len(u)
             /\ \A k \in 1..Len(e[i]) : u[at(i) + k] = e[i][k]
  <2>1. i \in 1..(Len(url) + 1)
    OBVIOUS
  <2> HIDE DEF n, rest
  <2>2. e[1] \in Seq(Safe) /\ e[i] \in Seq(Safe) /\ EndsAt(e, i)
    BY <1>3, <2>1, EncodingEnds
  <2>4. e[1] \in Seq(Int) /\ e[i] \in Seq(Int)
    BY <2>2, SafeIsInt, SeqMonotonic
  <2> QED BY <2>2, <2>4 DEF EndsAt
<1>6. 1 \in 1..(n + 1) /\ n + 1 \in 1..(n + 1) /\ n + 1 \in 0..(n + 1)
  BY <1>1
<1>7. u \in Seq(Int) /\ Len(u) \in Nat
  BY <1>5, <1>6, LenProperties
<1> HIDE DEF u
<1>17. PICK d : d = CHOOSE f : IsDecoding(f, u, b)
  OBVIOUS
<1>8. UrlDecode(u, b) = d[1]
  BY <1>17 DEF UrlDecode, IsDecoding
<1>9. IsDecoding(d, u, b)
  <2>1. \E f : IsDecoding(f, u, b)
    BY <1>7, DecodingExists
  <2> QED BY <1>17, <2>1
<1> HIDE DEF n
<1> DEFINE Right(i) == d[at(i) + 1] = rest(i)
           T == {i \in 0..(n + 1) : i # 0 /\ ~Right(i)}
<1>10. \A i \in 1..(Len(u) + 3) :
         d[i] = IF i > Len(u) THEN <<>>
                ELSE IF Coded(u, i)
                THEN <<Combine(Hextoi(u[i + 1]), Hextoi(u[i + 2]))>> \o d[i + 3]
                ELSE Literal(u[i], b) \o d[i + 1]
  BY <1>9 DEF IsDecoding
<1>11. ASSUME NEW i \in 1..(n + 1)
       PROVE  /\ rest(i) \in Seq(Int) /\ Len(rest(i)) = (n + 1) - i
              /\ \A k \in 1..((n + 1) - i) : rest(i)[k] = KeptChar(url[i + k - 1])
  <2>1. (n + 1) - i \in Nat
    BY <1>1
  <2>2. \A k \in 1..((n + 1) - i) : KeptChar(url[i + k - 1]) \in Int
    <3>1. ASSUME NEW k \in 1..((n + 1) - i) PROVE KeptChar(url[i + k - 1]) \in Int
      <4>1. i + k - 1 \in 1..n
        BY <1>1
      <4>2. url[i + k - 1] \in -128..127
        BY <1>1, <4>1
      <4> QED BY <4>2, KeptIsChar
    <3> QED BY <3>1
  <2> QED BY <2>1, <2>2
<1>12. ASSUME T # {} PROVE FALSE
  <2>1. PICK m \in T : \A y \in T : y <= m
    <3>1. T \in SUBSET (0..(n + 1)) /\ n + 1 \in Nat
      <4>1. n + 1 \in Nat
        BY <1>1
      <4> HIDE DEF Right
      <4> QED BY <4>1
    <3> HIDE DEF T
    <3> QED BY <1>12, <3>1, Largest
  <2>2. m \in 1..(n + 1) /\ ~Right(m)
    <3> HIDE DEF Right
    <3> QED BY <1>1
  <2>3. m # n + 1
    <3>1. e[n + 1] = <<>> /\ Len(e[n + 1]) = 0
      <4>1. n + 1 > n
        BY <1>1
      <4>2. e[n + 1] = <<>>
        BY <1>4, <1>6, <4>1
      <4> QED BY <4>2
    <3>2. at(n + 1) + 1 = Len(u) + 1 /\ Len(u) + 1 > Len(u) /\ Len(u) + 1 \in 1..(Len(u) + 3)
      BY <1>7, <3>1
    <3>3. d[at(n + 1) + 1] = <<>>
      BY <1>10, <3>2
    <3>4. rest(n + 1) = <<>>
      <4>1. (n + 1) - (n + 1) = 0
        BY <1>1
      <4>2. Len(rest(n + 1)) = 0 /\ rest(n + 1) \in Seq(Int)
        BY <1>6, <1>11, <4>1
      <4> HIDE DEF rest
      <4> QED BY <4>2, EmptySeq
    <3> QED BY <2>2, <3>3, <3>4
  <2>4. m \in 1..n /\ m + 1 \in 1..(n + 1) /\ m + 1 \in 0..(n + 1) /\ ~(m > n) /\ ~(m + 1 <= m)
    BY <1>1, <2>2, <2>3
  <2>5. Right(m + 1)
    <3> HIDE DEF Right
    <3> QED BY <2>1, <2>4
  <2> DEFINE c == url[m]
             w == Encoded(c, FALSE)
             p == at(m) + 1
  <2>6. c \in -128..127
    BY <1>1, <2>4
  <2>7. /\ w \in Seq(Safe)
        /\ \/ Len(w) = 1 /\ w[1] = c /\ Unreserved(c)
           \/ /\ Len(w) = 3 /\ w[1] = Percent
              /\ Hextoi(w[2]) \in 0..15 /\ Hextoi(w[3]) \in 0..15
              /\ Combine(Hextoi(w[2]), Hextoi(w[3])) = KeptChar(c)
    BY <2>6, EncodedCases
  <2> HIDE DEF w
  <2>15. w \in Seq(Int)
    BY <2>7, SafeIsInt, SeqMonotonic
  <2>8. e[m] = w \o e[m + 1] /\ e[m + 1] \in Seq(Int) /\ e[m] \in Seq(Int)
    BY <1>4, <1>5, <2>2, <2>4 DEF w
  <2>9. /\ Len(w) \in Nat /\ Len(e[m + 1]) \in Nat /\ Len(e[m]) = Len(w) + Len(e[m + 1])
        /\ Len(e[m]) \in Nat /\ Len(e[m]) <= Len(u)
        /\ \A k \in 1..Len(w) : e[m][k] = w[k]
    <3>1. Len(w) \in Nat /\ Len(e[m + 1]) \in Nat /\ Len(e[m]) = Len(w) + Len(e[m + 1])
      BY <2>8, <2>15, ConcatProperties, LenProperties
    <3>2. \A k \in 1..Len(w) : e[m][k] = w[k]
      <4>1. \A k \in 1..(Len(w) + Len(e[m + 1])) :
                e[m][k] = IF k <= Len(w) THEN w[k] ELSE e[m + 1][k - Len(w)]
        BY <2>8, <2>15, ConcatProperties
      <4> QED BY <3>1, <4>1
    <3>3. Len(e[m]) <= Len(u)
      BY <1>5, <2>2
    <3>4. Len(e[m]) \in Nat
      BY <3>1
    <3> QED BY <3>1, <3>2, <3>3, <3>4
  <2>10. \A k \in 1..Len(w) : u[at(m) + k] = w[k] /\ k \in 1..Len(e[m])
    <3>1. \A k \in 1..Len(w) : k \in 1..Len(e[m])
      BY <2>9
    <3> QED BY <1>5, <2>2, <2>9, <3>1
  <2>11. /\ p \in Nat /\ p >= 1 /\ p + Len(w) - 1 <= Len(u)
         /\ at(m + 1) + 1 = p + Len(w) /\ at(m) \in Nat /\ at(m) = p - 1
    <3>1. PICK a \in Nat : a = Len(u)
      BY <1>7
    <3>2. PICK x \in Nat : x = Len(w)
      BY <2>9
    <3>3. PICK y \in Nat : y = Len(e[m + 1])
      BY <2>9
    <3>4. Len(e[m]) = x + y /\ x + y <= a
      BY <2>9, <3>1, <3>2, <3>3
    <3>5. p = a - (x + y) + 1 /\ at(m) = a - (x + y) /\ at(m + 1) = a - y
      BY <3>1, <3>3, <3>4
    <3>6. /\ a - (x + y) + 1 \in Nat /\ a - (x + y) + 1 >= 1
          /\ a - (x + y) + 1 + x - 1 <= a /\ a - y + 1 = a - (x + y) + 1 + x
          /\ a - (x + y) \in Nat /\ a - (x + y) = a - (x + y) + 1 - 1
      BY <3>4
    <3> HIDE DEF p, at
    <3> QED BY <3>1, <3>2, <3>5, <3>6
  <2>12. d[p] = <<KeptChar(c)>> \o d[at(m + 1) + 1]
    <3> HIDE DEF at, p, c
    <3>1. CASE Len(w) = 1 /\ w[1] = c /\ Unreserved(c)
      <4>1. u[at(m) + 1] = c /\ p = at(m) + 1
        BY <2>10, <2>11, <3>1
      <4>2. u[p] = c
        BY <4>1
      <4>3. c # Percent /\ c # Plus /\ KeptChar(c) = c
        BY <3>1 DEF Unreserved, Percent, Plus, KeptChar
      <4>4. ~Coded(u, p) /\ Literal(u[p], b) = <<KeptChar(c)>>
        BY <4>2, <4>3 DEF Coded, Literal
      <4>5. p \in 1..(Len(u) + 3) /\ ~(p > Len(u)) /\ at(m + 1) + 1 = p + 1
        BY <1>7, <2>11, <3>1
      <4>6. d[p] = Literal(u[p], b) \o d[p + 1]
        BY <1>10, <4>4, <4>5
      <4> QED BY <4>4, <4>5, <4>6
    <3>2. CASE /\ Len(w) = 3 /\ w[1] = Percent
               /\ Hextoi(w[2]) \in 0..15 /\ Hextoi(w[3]) \in 0..15
               /\ Combine(Hextoi(w[2]), Hextoi(w[3])) = KeptChar(c)
      <4>1. u[at(m) + 1] = w[1] /\ u[at(m) + 2] = w[2] /\ u[at(m) + 3] = w[3]
        BY <2>10, <3>2
      <4>2. at(m) + 1 = p /\ at(m) + 2 = p + 1 /\ at(m) + 3 = p + 2
        BY <2>11
      <4>3. u[p] = Percent /\ u[p + 1] = w[2] /\ u[p + 2] = w[3]
        BY <3>2, <4>1, <4>2
      <4>4. /\ p \in 1..(Len(u) + 3) /\ ~(p > Len(u)) /\ p + 2 <= Len(u)
            /\ at(m + 1) + 1 = p + 3
        BY <1>7, <2>11, <3>2
      <4>5. Coded(u, p)
        <5>1. Hextoi(w[2]) # -1 /\ Hextoi(w[3]) # -1
          BY <3>2
        <5> QED BY <4>3, <4>4, <5>1 DEF Coded
      <4>6. d[p] = <<Combine(Hextoi(u[p + 1]), Hextoi(u[p + 2]))>> \o d[p + 3]
        BY <1>10, <4>4, <4>5
      <4> QED BY <3>2, <4>3, <4>4, <4>6
    <3> QED BY <2>7, <3>1, <3>2
  <2>13. <<KeptChar(c)>> \o rest(m + 1) = rest(m)
    <3>1. KeptChar(c) \in Int
      BY <2>6, KeptIsChar
    <3>2. rest(m + 1) \in Seq(Int) /\ rest(m) \in Seq(Int)
      BY <1>11, <2>2, <2>4
    <3>3. Len(rest(m + 1)) = (n + 1) - (m + 1) /\ Len(rest(m)) = (n + 1) - m
      BY <1>11, <2>2, <2>4
    <3>4. Len(rest(m)) = Len(rest(m + 1)) + 1
      BY <1>1, <2>4, <3>3
    <3>5. rest(m)[1] = KeptChar(c)
      <4>1. 1 \in 1..((n + 1) - m) /\ m + 1 - 1 = m
        BY <1>1, <2>4
      <4> QED BY <1>11, <2>2, <4>1
    <3>6. ASSUME NEW k \in 1..Len(rest(m + 1)) PROVE rest(m)[k + 1] = rest(m + 1)[k]
      <4>1. k \in 1..((n + 1) - (m + 1)) /\ k + 1 \in 1..((n + 1) - m) /\ m + (k + 1) - 1 = (m + 1) + k - 1
        BY <1>1, <2>4, <3>3
      <4>2. rest(m)[k + 1] = KeptChar(url[m + (k + 1) - 1])
        BY <1>11, <2>2, <4>1
      <4>3. rest(m + 1)[k] = KeptChar(url[(m + 1) + k - 1])
        BY <1>11, <2>4, <4>1
      <4> QED BY <4>1, <4>2, <4>3
    <3> HIDE DEF rest, c
    <3> QED BY <3>1, <3>2, <3>4, <3>5, <3>6, OneInFront
  <2>14. Right(m)
    BY <2>5, <2>12, <2>13
  <2> QED BY <2>2, <2>14
<1>13. Right(1)
  <2>1. 1 \in 0..(n + 1)
    BY <1>1
  <2> HIDE DEF Right
  <2> QED BY <1>12, <2>1
<1>14. d[1] = rest(1)
  <2>1. at(1) = 0 /\ at(1) + 1 = 1
    <3>1. e[1] = u
      BY DEF u
    <3> QED BY <1>7, <3>1
  <2> QED BY <1>13, <2>1
<1>15. rest(1) = [i \in 1..n |-> KeptChar(url[i])]
  <2>1. (n + 1) - 1 = n /\ \A k \in 1..n : 1 + k - 1 = k
    BY <1>1
  <2> QED BY <2>1
<1>18. rest(1) = Kept(url)
  BY <1>15 DEF Kept, KeptChar, n
<1> QED BY <1>2, <1>8, <1>14, <1>18 DEF n

-----------------------------------------------------------------------------
(* Split                                                                    *)

\* Where the piece that begins at o is cut off: at the next separator, or the end.
Cut(src, sep, o) ==
    LET seps == {i \in o..Len(src) : src[i] = sep} IN
    IF seps = {} THEN Len(src) + 1 ELSE CHOOSE i \in seps : \A j \in seps : i <= j

PieceAt(src, sep, o) ==
    IF Cut(src, sep, o) > o THEN <<SubSeq(src, o, Cut(src, sep, o) - 1)>> ELSE <<>>

After(src, sep, o) ==
    IF Cut(src, sep, o) > Len(src) THEN Len(src) + 1 ELSE Cut(src, sep, o) + 1

\* What the loop of Split pushes from an offset on, as the code has it.
SplitBody(f, src, sep, o) ==
    LET seps == {i \in o..Len(src) : src[i] = sep} IN
    IF o > Len(src) THEN <<>>
    ELSE IF seps = {} THEN <<SubSeq(src, o, Len(src))>>
    ELSE LET pos == CHOOSE i \in seps : \A j \in seps : i <= j
         IN  (IF pos > o THEN <<SubSeq(src, o, pos - 1)>> ELSE <<>>) \o f[pos + 1]

IsSplit(f, src, sep) == f = [o \in 1..(Len(src) + 1) |-> SplitBody(f, src, sep, o)]

\* And as a loop that pushes a piece and goes on after it.
SplitLoop(f, src, sep) ==
    \A o \in 1..(Len(src) + 1) :
        /\ f[o] = IF o > Len(src) THEN <<>>
                  ELSE PieceAt(src, sep, o) \o f[After(src, sep, o)]
        /\ f[o] \in Seq(Seq(Int) \ {<<>>})

LEMMA CutFacts ==
  ASSUME NEW src \in Seq(Int), NEW sep, NEW o \in 1..Len(src)
  PROVE  /\ Cut(src, sep, o) \in o..(Len(src) + 1)
         /\ \A j \in o..(Cut(src, sep, o) - 1) : src[j] # sep
         /\ Cut(src, sep, o) <= Len(src) => src[Cut(src, sep, o)] = sep
<1> DEFINE n == Len(src)
           seps == {i \in o..n : src[i] = sep}
<1>1. n \in Nat /\ o \in 1..n
  OBVIOUS
<1>2. CASE seps = {}
  <2>1. Cut(src, sep, o) = n + 1
    BY <1>2 DEF Cut
  <2>2. \A j \in o..((n + 1) - 1) : src[j] # sep
    <3>1. (n + 1) - 1 = n
      BY <1>1
    <3> QED BY <1>2, <3>1
  <2>3. n + 1 \in o..(n + 1) /\ ~(n + 1 <= n)
    BY <1>1
  <2> HIDE DEF n
  <2> QED BY <2>1, <2>2, <2>3 DEF n
<1>3. CASE seps # {}
  <2>1. seps \in SUBSET Nat
    BY <1>1
  <2>2. \E i \in seps : \A j \in seps : i <= j
    <3> HIDE DEF seps
    <3> QED BY <1>3, <2>1, Smallest
  <2>3. PICK q : q = Cut(src, sep, o)
    OBVIOUS
  <2>4. q \in seps /\ \A j \in seps : q <= j
    BY <1>3, <2>2, <2>3 DEF Cut
  <2>5. q \in o..n /\ src[q] = sep
    BY <2>4
  <2>6. \A j \in o..(q - 1) : src[j] # sep
    <3>1. ASSUME NEW j \in o..(q - 1), src[j] = sep PROVE FALSE
      <4>1. j \in o..n /\ ~(q <= j)
        BY <1>1, <2>5
      <4>2. j \in seps
        BY <3>1, <4>1
      <4> QED BY <2>4, <4>1, <4>2
    <3> QED BY <3>1
  <2>7. q \in o..(n + 1)
    BY <1>1, <2>5
  <2> QED BY <2>3, <2>5, <2>6, <2>7
<1> QED BY <1>2, <1>3

\* A turn of the loop of Split, as a turn of a loop that goes forward.
LEMMA SplitTurn ==
  ASSUME NEW src \in Seq(Int), NEW sep, NEW o \in 1..Len(src)
  PROVE  /\ After(src, sep, o) \in (o + 1)..(Len(src) + 1)
         /\ PieceAt(src, sep, o) \in Seq(Seq(Int) \ {<<>>})
<1>1. PICK q : q = Cut(src, sep, o)
  OBVIOUS
<1>2. q \in o..(Len(src) + 1) /\ Len(src) \in Nat
  BY <1>1, CutFacts
<1>3. After(src, sep, o) \in (o + 1)..(Len(src) + 1)
  BY <1>1, <1>2 DEF After
<1>4. CASE q > o
  <2>1. \A i \in o..(q - 1) : src[i] \in Int
    <3>1. \A i \in o..(q - 1) : i \in 1..Len(src)
      BY <1>2
    <3> QED BY <3>1, ElementOfSeq
  <2>2. o \in Int /\ q - 1 \in Int /\ o <= q - 1
    BY <1>2, <1>4
  <2> DEFINE s == SubSeq(src, o, q - 1)
  <2>3. s \in Seq(Int) /\ Len(s) = (q - 1) - o + 1
    BY <2>1, <2>2, SubSeqProperties
  <2> HIDE DEF s
  <2>4. Len(s) # 0
    BY <2>2, <2>3
  <2>5. s # <<>>
    BY <2>4
  <2>6. PieceAt(src, sep, o) = <<s>>
    BY <1>1, <1>4 DEF PieceAt, s
  <2> QED BY <1>3, <2>3, <2>5, <2>6
<1>5. CASE ~(q > o)
  <2>1. PieceAt(src, sep, o) = <<>>
    BY <1>1, <1>5 DEF PieceAt
  <2> QED BY <1>3, <2>1, EmptySeq
<1> QED BY <1>4, <1>5

LEMMA SplitStep ==
  ASSUME NEW src \in Seq(Int), NEW sep, NEW f, f[Len(src) + 1] = <<>>,
         NEW o \in 1..(Len(src) + 1)
  PROVE  SplitBody(f, src, sep, o) =
            IF o > Len(src) THEN <<>> ELSE PieceAt(src, sep, o) \o f[After(src, sep, o)]
<1> DEFINE n == Len(src)
           seps == {i \in o..n : src[i] = sep}
           pos == CHOOSE i \in seps : \A j \in seps : i <= j
<1>1. n \in Nat
  OBVIOUS
<1>2. SplitBody(f, src, sep, o) =
        IF o > n THEN <<>> ELSE IF seps = {} THEN <<SubSeq(src, o, n)>>
        ELSE (IF pos > o THEN <<SubSeq(src, o, pos - 1)>> ELSE <<>>) \o f[pos + 1]
  BY DEF SplitBody
<1> HIDE DEF pos
<1>3. CASE o > n
  BY <1>2, <1>3
<1>4. CASE ~(o > n)
  <2>1. o \in 1..n
    BY <1>1, <1>4
  <2>2. PICK q : q = Cut(src, sep, o)
    OBVIOUS
  <2>3. q \in o..(n + 1)
    BY <2>1, <2>2, CutFacts
  <2>4. CASE seps = {}
    <3>1. q = n + 1
      BY <2>2, <2>4 DEF Cut
    <3>2. q > o /\ q > n /\ q - 1 = n
      BY <1>1, <2>1, <3>1
    <3>3. PieceAt(src, sep, o) = <<SubSeq(src, o, n)>> /\ After(src, sep, o) = n + 1
      BY <2>2, <3>2 DEF PieceAt, After
    <3>4. PieceAt(src, sep, o) \o <<>> = PieceAt(src, sep, o)
      BY <2>1, SplitTurn, ConcatEmptySeq
    <3> HIDE DEF seps
    <3> QED BY <1>2, <1>4, <2>4, <3>3, <3>4
  <2>5. CASE seps # {}
    <3>1. q = pos /\ q \in seps
      <4>1. seps \in SUBSET Nat
        BY <2>1
      <4>2. \E i \in seps : \A j \in seps : i <= j
        <5> HIDE DEF seps
        <5> QED BY <2>5, <4>1, Smallest
      <4>3. pos \in seps
        <5> HIDE DEF seps
        <5> QED BY <4>2 DEF pos
      <4>4. q = pos
        BY <2>2, <2>5 DEF Cut, pos
      <4> QED BY <4>3, <4>4
    <3>2. ~(q > n)
      BY <1>1, <2>1, <3>1
    <3>3. PieceAt(src, sep, o) = IF q > o THEN <<SubSeq(src, o, q - 1)>> ELSE <<>>
      BY <2>2 DEF PieceAt
    <3>4. After(src, sep, o) = q + 1
      BY <2>2, <3>2 DEF After
    <3> HIDE DEF seps
    <3> QED BY <1>2, <1>4, <2>5, <3>1, <3>3, <3>4
  <2> QED BY <2>4, <2>5
<1> QED BY <1>3, <1>4

\* The value of the loop exists, and it is that loop.
LEMMA SplitIs ==
  ASSUME NEW src \in Seq(Int), NEW sep
  PROVE  \E f : Split(src, sep) = f[1] /\ SplitLoop(f, src, sep)
<1> DEFINE n == Len(src)
           pre == [o \in 1..n |-> PieceAt(src, sep, o)]
           next == [o \in 1..n |-> After(src, sep, o)]
           turn(f, o) == IF o > n THEN <<>> ELSE PieceAt(src, sep, o) \o f[After(src, sep, o)]
           body(f, o) == IF o > n THEN <<>> ELSE pre[o] \o f[next[o]]
<1>1. n \in Nat /\ n + 1 \in Nat /\ n + 1 \in 1..(n + 1) /\ n + 1 > n
  OBVIOUS
<1>2. \A o \in 1..n : /\ pre[o] = PieceAt(src, sep, o) /\ next[o] = After(src, sep, o)
                      /\ next[o] \in (o + 1)..(n + 1) /\ pre[o] \in Seq(Seq(Int) \ {<<>>})
  BY SplitTurn
<1> HIDE DEF pre, next
<1>3. ASSUME NEW f, NEW o \in 1..(n + 1) PROVE body(f, o) = turn(f, o)
  <2>1. ~(o > n) => o \in 1..n
    BY <1>1
  <2> HIDE DEF n
  <2> QED BY <1>2, <2>1
<1>4. \E g : IsSplit(g, src, sep)
  <2>1. PICK g : IsLoop(g, n, n + 1, pre, next)
    <3> HIDE DEF n
    <3> QED BY <1>1, <1>2, LoopExists
  <2>2. \A o \in 1..(n + 1) : g[o] = body(g, o)
    BY <2>1 DEF IsLoop
  <2>3. g[n + 1] = <<>>
    <3> HIDE DEF n
    <3> QED BY <1>1, <2>2
  <2>4. ASSUME NEW o \in 1..(n + 1) PROVE g[o] = SplitBody(g, src, sep, o)
    <3>1. SplitBody(g, src, sep, o) = turn(g, o)
      BY <2>3, SplitStep
    <3> HIDE DEF body, turn
    <3> QED BY <1>3, <2>2, <3>1
  <2>5. g = [o \in 1..(n + 1) |-> g[o]]
    BY <2>1 DEF IsLoop
  <2>6. g = [o \in 1..(n + 1) |-> SplitBody(g, src, sep, o)]
    BY <2>4, <2>5
  <2> QED BY <2>6 DEF IsSplit
<1>5. PICK f : f = CHOOSE g : IsSplit(g, src, sep)
  OBVIOUS
<1>6. Split(src, sep) = f[1]
  BY <1>5 DEF Split, IsSplit, SplitBody
<1>7. IsSplit(f, src, sep)
  BY <1>4, <1>5
<1>8. \A o \in 1..(n + 1) : f[o] = SplitBody(f, src, sep, o)
  BY <1>7 DEF IsSplit
<1>9. f[n + 1] = <<>>
  <2>1. f[n + 1] = SplitBody(f, src, sep, n + 1)
    BY <1>1, <1>8
  <2> QED BY <1>1, <2>1 DEF SplitBody
<1>10. \A o \in 1..(n + 1) : f[o] = turn(f, o)
  BY <1>8, <1>9, SplitStep
<1>11. IsLoop(f, n, n + 1, pre, next)
  <2>1. f = [o \in 1..(n + 1) |-> f[o]]
    BY <1>7 DEF IsSplit
  <2>2. \A o \in 1..(n + 1) : f[o] = body(f, o)
    <3> HIDE DEF body, turn
    <3> QED BY <1>3, <1>10
  <2>3. f = [o \in 1..(n + 1) |-> body(f, o)]
    <3> HIDE DEF body
    <3> QED BY <2>1, <2>2
  <2> QED BY <2>3 DEF IsLoop
<1>12. \A o \in 1..(n + 1) : f[o] \in Seq(Seq(Int) \ {<<>>})
  <2> HIDE DEF n
  <2> QED BY <1>1, <1>2, <1>11, LoopTyped
<1> QED BY <1>6, <1>10, <1>12 DEF SplitLoop

\* The places at which a run between separators begins, from an offset on.
RunStarts(src, sep, o) ==
    {i \in o..Len(src) : src[i] # sep /\ (i = 1 \/ src[i - 1] = sep)}

UpTo(S, i) == {j \in S : j <= i}

\* The pieces that are one run each, whole and in order.
RunsOf(pieces, src, sep, o) ==
    /\ Len(pieces) = Cardinality(RunStarts(src, sep, o))
    /\ \A i \in RunStarts(src, sep, o) : \E last \in i..Len(src) :
        /\ \A j \in i..last : src[j] # sep
        /\ last = Len(src) \/ src[last + 1] = sep
        /\ pieces[Cardinality(UpTo(RunStarts(src, sep, o), i))] = SubSeq(src, i, last)

\* A turn of Split at the beginning of a run takes the run, and no other start.
LEMMA StartsAfterRun ==
  ASSUME NEW src \in Seq(Int), NEW sep, NEW o \in 1..Len(src),
         o = 1 \/ src[o - 1] = sep, Cut(src, sep, o) > o
  PROVE  /\ RunStarts(src, sep, o) = {o} \cup RunStarts(src, sep, After(src, sep, o))
         /\ o \notin RunStarts(src, sep, After(src, sep, o))
<1> DEFINE n == Len(src)
<1>1. PICK q : q = Cut(src, sep, o)
  OBVIOUS
<1>2. PICK p : p = After(src, sep, o)
  OBVIOUS
<1>3. /\ n \in Nat /\ q \in (o + 1)..(n + 1) /\ p = (IF q > n THEN n + 1 ELSE q + 1)
      /\ \A j \in o..(q - 1) : src[j] # sep
      /\ q <= n => src[q] = sep
  <2>1. q \in o..(n + 1) /\ n \in Nat
    BY <1>1, CutFacts
  <2>2. q \in (o + 1)..(n + 1)
    BY <1>1, <2>1
  <2>3. /\ \A j \in o..(q - 1) : src[j] # sep
        /\ q <= n => src[q] = sep
    BY <1>1, CutFacts
  <2>4. p = IF q > n THEN n + 1 ELSE q + 1
    BY <1>1, <1>2 DEF After
  <2> QED BY <2>1, <2>2, <2>3, <2>4
<1> HIDE DEF n
<1>4. p > o /\ p \in Nat
  BY <1>3
<1>5. ASSUME NEW i \in RunStarts(src, sep, o), i # o PROVE i \in RunStarts(src, sep, p)
  <2>1. i \in o..n /\ src[i] # sep /\ (i = 1 \/ src[i - 1] = sep)
    BY DEF RunStarts, n
  <2>2. src[i - 1] = sep /\ i - 1 \in o..n
    BY <1>3, <1>5, <2>1
  <2>3. ~(i - 1 <= q - 1)
    <3>1. i - 1 \notin o..(q - 1)
      BY <1>3, <2>2
    <3> QED BY <1>3, <2>2, <3>1
  <2>4. i >= p
    BY <1>3, <2>1, <2>2, <2>3
  <2>5. i \in p..n
    BY <1>3, <1>4, <2>1, <2>4
  <2> QED BY <2>1, <2>5 DEF RunStarts, n
<1>6. RunStarts(src, sep, p) \subseteq RunStarts(src, sep, o)
  <2>1. ASSUME NEW i \in RunStarts(src, sep, p) PROVE i \in RunStarts(src, sep, o)
    <3>1. i \in p..n /\ src[i] # sep /\ (i = 1 \/ src[i - 1] = sep)
      BY DEF RunStarts, n
    <3>2. i \in o..n
      BY <1>3, <1>4, <3>1
    <3> QED BY <3>1, <3>2 DEF RunStarts, n
  <2> QED BY <2>1
<1>7. o \in RunStarts(src, sep, o)
  <2>1. o \in o..(q - 1) /\ o \in o..n
    BY <1>3 DEF n
  <2>2. src[o] # sep
    BY <1>3, <2>1
  <2> QED BY <2>1, <2>2 DEF RunStarts, n
<1>8. o \notin RunStarts(src, sep, p)
  <2>1. o \notin p..n
    BY <1>3, <1>4
  <2> QED BY <2>1 DEF RunStarts, n
<1>9. RunStarts(src, sep, o) = {o} \cup RunStarts(src, sep, p)
  BY <1>5, <1>6, <1>7
<1> QED BY <1>2, <1>8, <1>9

\* At a separator it takes nothing.
LEMMA StartsAfterSeparator ==
  ASSUME NEW src \in Seq(Int), NEW sep, NEW o \in 1..Len(src), ~(Cut(src, sep, o) > o)
  PROVE  /\ src[o] = sep /\ After(src, sep, o) = o + 1
         /\ RunStarts(src, sep, o) = RunStarts(src, sep, o + 1)
<1> DEFINE n == Len(src)
<1>1. PICK q : q = Cut(src, sep, o)
  OBVIOUS
<1>2. n \in Nat /\ q \in o..(n + 1) /\ (q <= n => src[q] = sep) /\ ~(q > o)
  BY <1>1, CutFacts
<1>3. q = o /\ src[o] = sep /\ ~(o > n)
  BY <1>2
<1>4. After(src, sep, o) = o + 1
  BY <1>1, <1>3 DEF After
<1>5. ASSUME NEW i PROVE i \in RunStarts(src, sep, o) <=> i \in RunStarts(src, sep, o + 1)
  <2>1. i \in o..n /\ src[i] # sep <=> i \in (o + 1)..n /\ src[i] # sep
    <3>1. i \in o..n <=> i = o \/ i \in (o + 1)..n
      BY <1>2, <1>3
    <3> QED BY <1>3, <3>1
  <2> QED BY <2>1 DEF RunStarts
<1> QED BY <1>3, <1>4, <1>5

LEMMA StartsFinite ==
  ASSUME NEW src \in Seq(Int), NEW sep, NEW o \in Nat, NEW i
  PROVE  LET S == RunStarts(src, sep, o)
         IN  /\ S \subseteq o..Len(src) /\ IsFiniteSet(S) /\ Cardinality(S) \in Nat
             /\ IsFiniteSet(UpTo(S, i)) /\ Cardinality(UpTo(S, i)) \in Nat
<1> DEFINE S == RunStarts(src, sep, o)
<1>1. S \subseteq o..Len(src)
  BY DEF RunStarts
<1>2. IsFiniteSet(o..Len(src))
  <2>1. o \in Int /\ Len(src) \in Int
    OBVIOUS
  <2> QED BY <2>1, FS_Interval
<1> HIDE DEF S
<1>3. IsFiniteSet(S)
  BY <1>1, <1>2, FS_Subset
<1>4. IsFiniteSet(UpTo(S, i))
  <2>1. UpTo(S, i) \subseteq S
    BY DEF UpTo
  <2> QED BY <1>3, <2>1, FS_Subset
<1>5. Cardinality(S) \in Nat /\ Cardinality(UpTo(S, i)) \in Nat
  BY <1>3, <1>4, FS_CardinalityType
<1> QED BY <1>1, <1>3, <1>4, <1>5 DEF S

\* Where a piece is found after one more piece was put in front.
LEMMA PlaceAfterFirst ==
  ASSUME NEW o \in Int, NEW S \in SUBSET Int, \A j \in S : o < j, NEW i \in S,
         IsFiniteSet(S)
  PROVE  /\ Cardinality(UpTo({o} \cup S, o)) = 1
         /\ Cardinality(UpTo({o} \cup S, i)) = 1 + Cardinality(UpTo(S, i))
         /\ Cardinality(UpTo(S, i)) \in 1..Cardinality(S)
<1>1. UpTo({o} \cup S, o) = {o}
  <2>1. \A j \in {o} \cup S : j <= o <=> j = o
    OBVIOUS
  <2>2. \A j : j \in UpTo({o} \cup S, o) <=> j \in {o} \cup S /\ j <= o
    BY DEF UpTo
  <2> QED BY <2>1, <2>2
<1>2. UpTo({o} \cup S, i) = UpTo(S, i) \cup {o} /\ o \notin UpTo(S, i)
  BY DEF UpTo
<1>3. UpTo(S, i) \subseteq S /\ i \in UpTo(S, i)
  BY DEF UpTo
<1>4. IsFiniteSet(UpTo(S, i))
  BY <1>3, FS_Subset
<1>5. Cardinality(UpTo(S, i) \cup {o}) = Cardinality(UpTo(S, i)) + 1 /\ Cardinality(UpTo(S, i)) \in Nat
  BY <1>2, <1>4, FS_AddElement, FS_CardinalityType
<1>6. Cardinality({o}) = 1
  BY FS_Singleton
<1>7. Cardinality(UpTo(S, i)) # 0
  BY <1>3, <1>4, FS_EmptySet
<1>8. Cardinality(UpTo(S, i)) <= Cardinality(S) /\ Cardinality(S) \in Nat
  BY <1>3, FS_Subset, FS_CardinalityType
<1> QED BY <1>1, <1>2, <1>5, <1>6, <1>7, <1>8

\* A piece in front of the others.
LEMMA PieceInFront ==
  ASSUME NEW S, NEW a \in S, NEW s \in Seq(S)
  PROVE  /\ <<a>> \o s \in Seq(S) /\ Len(<<a>> \o s) = 1 + Len(s) /\ Len(s) \in Nat
         /\ (<<a>> \o s)[1] = a
         /\ \A k \in 1..Len(s) : (<<a>> \o s)[1 + k] = s[k]
<1>1. <<a>> \in Seq(S) /\ Len(<<a>>) = 1 /\ <<a>>[1] = a /\ Len(s) \in Nat
  OBVIOUS
<1>2. /\ <<a>> \o s \in Seq(S) /\ Len(<<a>> \o s) = 1 + Len(s)
      /\ \A k \in 1..(1 + Len(s)) :
            (<<a>> \o s)[k] = IF k <= 1 THEN <<a>>[k] ELSE s[k - 1]
  BY <1>1, ConcatProperties
<1>3. 1 \in 1..(1 + Len(s))
  BY <1>1
<1>4. ASSUME NEW k \in 1..Len(s) PROVE (<<a>> \o s)[1 + k] = s[k]
  <2>1. 1 + k \in 1..(1 + Len(s)) /\ ~(1 + k <= 1) /\ (1 + k) - 1 = k
    BY <1>1
  <2> QED BY <1>2, <2>1
<1> QED BY <1>1, <1>2, <1>3, <1>4

\* Split has one piece of each run from every place where it looks on.
LEMMA SplitRuns ==
  ASSUME NEW src \in Seq(Int), NEW sep, NEW f, SplitLoop(f, src, sep),
         NEW o \in 1..(Len(src) + 1), o = Len(src) + 1 \/ o = 1 \/ src[o - 1] = sep
  PROVE  RunsOf(f[o], src, sep, o)
<1> DEFINE n == Len(src)
           Looks(p) == p = n + 1 \/ p = 1 \/ src[p - 1] = sep
           T == {p \in 0..(n + 1) : p # 0 /\ Looks(p) /\ ~RunsOf(f[p], src, sep, p)}
           Pieces == Seq(Int) \ {<<>>}
<1>1. n \in Nat /\ n + 1 \in Nat
  OBVIOUS
<1>2. \A p \in 1..(n + 1) :
        /\ f[p] = IF p > n THEN <<>> ELSE PieceAt(src, sep, p) \o f[After(src, sep, p)]
        /\ f[p] \in Seq(Pieces)
  BY DEF SplitLoop
<1> HIDE DEF n, Pieces, Looks
<1>3. ASSUME T # {} PROVE FALSE
  <2>1. PICK m \in T : \A y \in T : y <= m
    <3>1. T \in SUBSET (0..(n + 1))
      OBVIOUS
    <3> HIDE DEF T
    <3> QED BY <1>1, <1>3, <3>1, Largest
  <2>2. m \in 1..(n + 1) /\ Looks(m) /\ ~RunsOf(f[m], src, sep, m)
    BY <1>1
  <2>3. m # n + 1
    <3>1. ASSUME m = n + 1 PROVE RunsOf(f[m], src, sep, m)
      <4>1. f[m] = <<>>
        BY <1>1, <1>2, <2>2, <3>1
      <4>2. RunStarts(src, sep, m) = {}
        BY <1>1, <3>1 DEF RunStarts, n
      <4>3. Len(f[m]) = 0 /\ Cardinality({}) = 0
        BY <4>1, FS_EmptySet
      <4> QED BY <4>2, <4>3 DEF RunsOf
    <3> QED BY <2>2, <3>1
  <2>4. m \in 1..n /\ ~(m > n) /\ m \in Nat
    BY <1>1, <2>2, <2>3
  <2>5. m = 1 \/ src[m - 1] = sep
    BY <2>2, <2>3 DEF Looks
  <2>6. f[m] = PieceAt(src, sep, m) \o f[After(src, sep, m)]
    BY <1>2, <2>2, <2>4
  <2>7. PICK p : p = After(src, sep, m)
    OBVIOUS
  <2>8. p \in (m + 1)..(n + 1) /\ p \in 1..(n + 1) /\ p \in 0..(n + 1) /\ p # 0 /\ ~(p <= m)
    <3>1. p \in (m + 1)..(n + 1)
      BY <2>4, <2>7, SplitTurn DEF n
    <3> QED BY <1>1, <2>4, <3>1
  <2>9. f[p] \in Seq(Pieces)
    BY <1>2, <2>8
  <2>10. PICK q : q = Cut(src, sep, m)
    OBVIOUS
  <2>11. /\ q \in m..(n + 1) /\ (\A j \in m..(q - 1) : src[j] # sep)
         /\ (q <= n => src[q] = sep)
         /\ p = IF q > n THEN n + 1 ELSE q + 1
    BY <2>4, <2>7, <2>10, CutFacts DEF n, After
  <2>12. Looks(p)
    <3>1. ~(q > n) => p - 1 = q /\ q <= n
      BY <1>1, <2>4, <2>11
    <3> QED BY <2>11, <3>1 DEF Looks
  <2>13. RunsOf(f[p], src, sep, p)
    <3>1. p \notin T
      <4> HIDE DEF T
      <4> QED BY <2>1, <2>8
    <3> QED BY <2>8, <2>12, <3>1
  <2> DEFINE S == RunStarts(src, sep, p)
  <2>14. CASE q > m
    <3> DEFINE run == SubSeq(src, m, q - 1)
    <3>1. RunStarts(src, sep, m) = {m} \cup S /\ m \notin S
      BY <2>4, <2>5, <2>7, <2>10, <2>14, StartsAfterRun DEF n
    <3>2. PieceAt(src, sep, m) = <<run>>
      BY <2>10, <2>14 DEF PieceAt
    <3>3. run \in Pieces
      <4>1. <<run>> \in Seq(Pieces)
        BY <2>4, <3>2, SplitTurn DEF Pieces, n
      <4>2. PICK r : r = run
        OBVIOUS
      <4>3. <<r>> \in Seq(Pieces) /\ Len(<<r>>) = 1 /\ <<r>>[1] = r
        BY <4>1, <4>2
      <4> QED BY <4>2, <4>3, ElementOfSeq
    <3> HIDE DEF run
    <3>4. f[m] = <<run>> \o f[p]
      BY <2>6, <2>7, <3>2
    <3>5. /\ Len(f[m]) = 1 + Len(f[p]) /\ Len(f[p]) \in Nat /\ f[m][1] = run
          /\ \A k \in 1..Len(f[p]) : f[m][1 + k] = f[p][k]
      BY <2>9, <3>3, <3>4, PieceInFront
    <3>6. /\ S \in SUBSET Int /\ IsFiniteSet(S) /\ \A j \in S : m < j
      <4>1. S \subseteq p..n /\ IsFiniteSet(S)
        <5>1. p \in Nat
          BY <2>8
        <5> QED BY <5>1, StartsFinite DEF n
      <4> HIDE DEF S
      <4> QED BY <1>1, <2>4, <2>8, <4>1
    <3>7. Len(f[p]) = Cardinality(S)
      BY <2>13 DEF RunsOf
    <3> HIDE DEF S
    <3>8. Len(f[m]) = Cardinality({m} \cup S)
      <4>1. Cardinality(S \cup {m}) = Cardinality(S) + 1
        BY <3>1, <3>6, FS_AddElement
      <4>2. S \cup {m} = {m} \cup S
        OBVIOUS
      <4>3. Cardinality({m} \cup S) = Cardinality(S) + 1
        BY <4>1, <4>2
      <4> QED BY <3>5, <3>7, <4>3
    <3>9. ASSUME NEW i \in {m} \cup S
          PROVE  \E last \in i..n :
                    /\ \A j \in i..last : src[j] # sep
                    /\ last = n \/ src[last + 1] = sep
                    /\ f[m][Cardinality(UpTo({m} \cup S, i))] = SubSeq(src, i, last)
      <4>1. CASE i = m
        <5>1. Cardinality(UpTo({m} \cup S, m)) = 1
          <6>1. UpTo({m} \cup S, m) = {m}
            <7>1. \A j \in {m} \cup S : j <= m <=> j = m
              BY <2>4, <3>6
            <7>2. \A j : j \in UpTo({m} \cup S, m) <=> j \in {m} \cup S /\ j <= m
              BY DEF UpTo
            <7>3. m \in UpTo({m} \cup S, m)
              BY <7>1, <7>2
            <7>4. ASSUME NEW j \in UpTo({m} \cup S, m) PROVE j = m
              BY <7>1, <7>2
            <7> QED BY <7>3, <7>4
          <6> QED BY <6>1, FS_Singleton
        <5>2. q - 1 \in m..n /\ (q - 1 = n \/ (q - 1) + 1 <= n) /\ (q - 1) + 1 = q
          BY <1>1, <2>4, <2>11, <2>14
        <5>3. q - 1 = n \/ src[(q - 1) + 1] = sep
          BY <2>11, <5>2
        <5> QED BY <2>11, <3>5, <4>1, <5>1, <5>2, <5>3 DEF run
      <4>2. CASE i # m
        <5>1. i \in S
          BY <4>2
        <5>2. /\ Cardinality(UpTo({m} \cup S, i)) = 1 + Cardinality(UpTo(S, i))
              /\ Cardinality(UpTo(S, i)) \in 1..Cardinality(S)
          <6>1. m \in Int /\ S \in SUBSET Int /\ IsFiniteSet(S) /\ i \in S /\ \A j \in S : m < j
            BY <2>4, <3>6, <5>1
          <6> QED BY <6>1, PlaceAfterFirst
        <5>3. PICK last \in i..n :
                /\ \A j \in i..last : src[j] # sep
                /\ last = n \/ src[last + 1] = sep
                /\ f[p][Cardinality(UpTo(S, i))] = SubSeq(src, i, last)
          BY <2>13, <5>1 DEF RunsOf, S, n
        <5>4. f[m][Cardinality(UpTo({m} \cup S, i))] = f[p][Cardinality(UpTo(S, i))]
          BY <3>5, <3>7, <5>2
        <5> QED BY <5>3, <5>4
      <4> QED BY <4>1, <4>2
    <3>10. RunsOf(f[m], src, sep, m)
      BY <3>1, <3>8, <3>9 DEF RunsOf, n
    <3> QED BY <2>2, <3>10
  <2>15. CASE ~(q > m)
    <3>1. p = m + 1 /\ RunStarts(src, sep, m) = RunStarts(src, sep, p)
      BY <2>4, <2>7, <2>10, <2>15, StartsAfterSeparator DEF n
    <3>2. PieceAt(src, sep, m) = <<>>
      BY <2>10, <2>15 DEF PieceAt
    <3>3. f[m] = f[p]
      BY <2>6, <2>7, <2>9, <3>2, ConcatEmptySeq
    <3>4. RunsOf(f[m], src, sep, m)
      BY <2>13, <3>1, <3>3 DEF RunsOf
    <3> QED BY <2>2, <3>4
  <2> QED BY <2>14, <2>15
<1>4. o \in 0..(n + 1) /\ o # 0 /\ Looks(o)
  BY <1>1 DEF n, Looks
<1>5. o \notin T
  BY <1>3
<1> QED BY <1>4, <1>5

-----------------------------------------------------------------------------
(* ValidPath                                                                *)

Deeper(level, piece) ==
    IF level < 0 THEN level
    ELSE IF piece = <<Dot, Dot>> THEN level - 1
    ELSE IF piece \in {<<>>, <<Dot>>} THEN level ELSE level + 1

\* The level of ValidPath after each piece.
IsLevel(level, pieces) ==
    level = [k \in 0..Len(pieces) |->
        IF k = 0 THEN 0
        ELSE IF level[k - 1] < 0 THEN level[k - 1]
        ELSE IF pieces[k] = <<Dot, Dot>> THEN level[k - 1] - 1
        ELSE IF pieces[k] \in {<<>>, <<Dot>>} THEN level[k - 1] ELSE level[k - 1] + 1]

LEMMA LevelExists ==
  ASSUME NEW pieces, Len(pieces) \in Nat
  PROVE  \E level : IsLevel(level, pieces)
<1> DEFINE n == Len(pieces)
           body(v, k) == IF k = 0 THEN 0 ELSE Deeper(v[k - 1], pieces[k])
           To(v, m) == v = [k \in 0..m |-> body(v, k)]
           T == {m \in Nat : ~\E v : To(v, m)}
<1>1. ASSUME T # {} PROVE FALSE
  <2>1. PICK m \in T : \A y \in T : m <= y
    BY <1>1, Smallest
  <2>2. CASE m = 0
    <3> DEFINE v == [k \in 0..0 |-> 0]
    <3>1. \A k \in 0..0 : body(v, k) = 0
      OBVIOUS
    <3>2. v = [k \in 0..0 |-> body(v, k)]
      <4> HIDE DEF body
      <4> QED BY <3>1
    <3>3. To(v, 0)
      BY <3>2
    <3> QED BY <2>1, <2>2, <3>3
  <2>3. CASE m # 0
    <3>1. m \in Nat /\ m - 1 \in Nat /\ ~(m <= m - 1)
      BY <2>1, <2>3
    <3>2. m - 1 \notin T
      <4> HIDE DEF T
      <4> QED BY <2>1, <3>1
    <3>3. PICK h : To(h, m - 1)
      BY <3>1, <3>2
    <3> DEFINE v == [k \in 0..m |-> IF k < m THEN h[k] ELSE Deeper(h[m - 1], pieces[m])]
    <3>4. ASSUME NEW k \in 0..m PROVE v[k] = body(v, k)
      <4>1. k > 0 => k - 1 \in 0..m /\ v[k - 1] = h[k - 1]
        BY <3>1, <3>4
      <4>2. CASE k < m
        <5>1. k \in 0..(m - 1)
          BY <3>1, <3>4, <4>2
        <5>2. h[k] = body(h, k)
          BY <3>3, <5>1
        <5>3. v[k] = h[k]
          BY <3>4, <4>2
        <5> HIDE DEF v
        <5> QED BY <3>4, <4>1, <5>2, <5>3
      <4>3. CASE k = m
        <5>1. v[k] = Deeper(h[m - 1], pieces[m])
          BY <3>1, <3>4, <4>3
        <5> HIDE DEF v
        <5> QED BY <2>3, <3>1, <4>1, <4>3, <5>1
      <4> QED BY <3>1, <3>4, <4>2, <4>3
    <3>5. v = [k \in 0..m |-> body(v, k)]
      <4>1. v = [k \in 0..m |-> v[k]]
        OBVIOUS
      <4> HIDE DEF v, body
      <4> QED BY <3>4, <4>1
    <3>6. To(v, m)
      BY <3>5
    <3> QED BY <2>1, <3>6
  <2> QED BY <2>2, <2>3
<1>2. n \in Nat /\ n \notin T
  <2> HIDE DEF T
  <2> QED BY <1>1
<1>3. \E v : To(v, n)
  BY <1>2
<1> QED BY <1>3 DEF IsLevel, Deeper

\* How many of the first k indices are in P, and with one index more.
Count(P, k) == Cardinality({i \in 1..k : i \in P})

LEMMA CountNext ==
  ASSUME NEW P, NEW k \in Nat \ {0}
  PROVE  Count(P, k) \in Nat /\ Count(P, k) = Count(P, k - 1) + (IF k \in P THEN 1 ELSE 0)
<1> DEFINE S == {i \in 1..k : i \in P}
           R == {i \in 1..(k - 1) : i \in P}
<1>1. IsFiniteSet(1..k) /\ IsFiniteSet(1..(k - 1))
  BY FS_Interval
<1>2. S \subseteq 1..k /\ R \subseteq 1..(k - 1)
  OBVIOUS
<1>3. IsFiniteSet(S) /\ IsFiniteSet(R)
  <2> HIDE DEF S, R
  <2> QED BY <1>1, <1>2, FS_Subset
<1>4. \A i : i \in 1..k <=> i \in 1..(k - 1) \/ i = k
  OBVIOUS
<1>5. k \notin R
  OBVIOUS
<1>6. CASE k \in P
  <2>1. S = R \cup {k}
    BY <1>4, <1>6
  <2> HIDE DEF S, R
  <2>2. Cardinality(S) = Cardinality(R) + 1 /\ Cardinality(S) \in Nat
    BY <1>3, <1>5, <2>1, FS_AddElement, FS_CardinalityType
  <2> QED BY <1>6, <2>2 DEF S, R, Count
<1>7. CASE k \notin P
  <2>1. S = R
    BY <1>4, <1>7
  <2>2. Cardinality(R) = Cardinality(R) + 0 /\ Cardinality(R) \in Nat
    <3> HIDE DEF S, R
    <3>1. Cardinality(R) \in Nat
      BY <1>3, FS_CardinalityType
    <3> QED BY <3>1
  <2> QED BY <1>7, <2>1, <2>2 DEF Count
<1> QED BY <1>6, <1>7

\* The level is the number of directories entered less those left, until it is negative.
LEMMA LevelIs ==
  ASSUME NEW pieces \in Seq(Seq(Int) \ {<<>>}), NEW level, IsLevel(level, pieces),
         NEW k \in 0..Len(pieces)
  PROVE  LET Climbs(m) == Cardinality({i \in 1..m : pieces[i] = <<Dot, Dot>>})
             Enters(m) == Cardinality({i \in 1..m : pieces[i] \notin {<<Dot>>, <<Dot, Dot>>}})
         IN  /\ Climbs(k) \in Nat /\ Enters(k) \in Nat
             /\ (\A m \in 1..k : Climbs(m) <= Enters(m)) => level[k] = Enters(k) - Climbs(k)
             /\ (\E m \in 1..k : Climbs(m) > Enters(m)) => level[k] < 0 /\ level[k] \in Int
<1> DEFINE n == Len(pieces)
           Up == {i \in 1..n : pieces[i] = <<Dot, Dot>>}
           Down == {i \in 1..n : pieces[i] \notin {<<Dot>>, <<Dot, Dot>>}}
           Climbs(m) == Count(Up, m)
           Enters(m) == Count(Down, m)
           Right(m) == /\ Climbs(m) \in Nat /\ Enters(m) \in Nat
                       /\ (\A j \in 1..m : Climbs(j) <= Enters(j)) => level[m] = Enters(m) - Climbs(m)
                       /\ (\E j \in 1..m : Climbs(j) > Enters(j)) => level[m] < 0 /\ level[m] \in Int
           T == {m \in 0..n : ~Right(m)}
<1>1. n \in Nat
  BY LenProperties
<1>2. \A m \in 0..n : level[m] = IF m = 0 THEN 0 ELSE Deeper(level[m - 1], pieces[m])
  BY DEF IsLevel, Deeper
<1>3. /\ \A i \in 1..n : pieces[i] # <<>>
      /\ \A i \in 1..n : i \in Up <=> pieces[i] = <<Dot, Dot>>
      /\ \A i \in 1..n : i \in Down <=> pieces[i] \notin {<<Dot>>, <<Dot, Dot>>}
  <2>1. \A i \in 1..n : pieces[i] \in Seq(Int) \ {<<>>}
    BY ElementOfSeq
  <2> QED BY <2>1
<1>4. \A m \in 1..n : /\ Climbs(m) = Climbs(m - 1) + (IF m \in Up THEN 1 ELSE 0)
                      /\ Enters(m) = Enters(m - 1) + (IF m \in Down THEN 1 ELSE 0)
  <2> HIDE DEF Up, Down, n
  <2>1. ASSUME NEW m \in 1..n
        PROVE  /\ Climbs(m) = Climbs(m - 1) + (IF m \in Up THEN 1 ELSE 0)
               /\ Enters(m) = Enters(m - 1) + (IF m \in Down THEN 1 ELSE 0)
    <3>1. m \in Nat \ {0}
      BY <1>1
    <3>2. Climbs(m) = Climbs(m - 1) + (IF m \in Up THEN 1 ELSE 0)
      BY <3>1, CountNext
    <3>3. Enters(m) = Enters(m - 1) + (IF m \in Down THEN 1 ELSE 0)
      BY <3>1, CountNext
    <3> QED BY <3>2, <3>3
  <2> HIDE DEF Climbs, Enters
  <2> QED BY <2>1
<1>5. Climbs(0) = 0 /\ Enters(0) = 0
  <2> HIDE DEF Up, Down
  <2>1. {i \in 1..0 : i \in Up} = {} /\ {i \in 1..0 : i \in Down} = {}
    OBVIOUS
  <2> QED BY <2>1, FS_EmptySet DEF Count
<1> HIDE DEF Up, Down, Climbs, Enters, n
<1>6. ASSUME T # {} PROVE FALSE
  <2>1. PICK m \in T : \A y \in T : m <= y
    <3>1. T \subseteq Nat
      <4> HIDE DEF Right
      <4> QED BY <1>1
    <3> HIDE DEF T
    <3> QED BY <1>6, <3>1, Smallest
  <2>2. m \in 0..n /\ ~Right(m)
    <3> HIDE DEF Right
    <3> QED OBVIOUS
  <2>3. m # 0
    <3>1. level[0] = 0
      BY <1>1, <1>2
    <3>2. Right(0)
      BY <1>5, <3>1
    <3> QED BY <2>2, <3>2
  <2> DEFINE l == m - 1
  <2>4. l \in 0..n /\ l \in Nat /\ m \in 1..n /\ ~(m <= l) /\ m \in 1..m
    BY <1>1, <2>2, <2>3
  <2>5. Right(l)
    <3>1. l \notin T
      <4> HIDE DEF T, l
      <4> QED BY <2>1, <2>4
    <3> HIDE DEF Right, l
    <3> QED BY <2>4, <3>1
  <2>6. level[m] = Deeper(level[l], pieces[m])
    BY <1>2, <2>2, <2>3
  <2>7. /\ Climbs(m) = Climbs(l) + (IF m \in Up THEN 1 ELSE 0)
        /\ Enters(m) = Enters(l) + (IF m \in Down THEN 1 ELSE 0)
    BY <1>4, <2>4
  <2>8. \A j : j \in 1..m <=> j \in 1..l \/ j = m
    BY <2>4
  <2> HIDE DEF l
  <2>9. Climbs(m) \in Nat /\ Enters(m) \in Nat /\ Climbs(l) \in Nat /\ Enters(l) \in Nat
    BY <2>5, <2>7
  <2>10. ASSUME \E j \in 1..l : Climbs(j) > Enters(j) PROVE level[m] < 0 /\ level[m] \in Int
    <3>1. level[l] < 0 /\ level[l] \in Int
      BY <2>5, <2>10
    <3> QED BY <2>6, <3>1 DEF Deeper
  <2>11. ASSUME ~\E j \in 1..l : Climbs(j) > Enters(j)
         PROVE  /\ \A j \in 1..l : Climbs(j) <= Enters(j)
                /\ level[m] = Enters(m) - Climbs(m)
    <3>1. ASSUME NEW j \in 1..l PROVE Climbs(j) <= Enters(j)
      <4>1. j \in 1..n
        BY <1>1, <2>4
      <4>2. Climbs(j) \in Nat /\ Enters(j) \in Nat
        <5>1. j \in 0..n /\ ~(m <= j)
          BY <2>4, <4>1
        <5>2. j \notin T
          <6> HIDE DEF T
          <6> QED BY <2>1, <5>1
        <5> QED BY <5>1, <5>2
      <4> QED BY <2>11, <4>2
    <3>2. level[l] = Enters(l) - Climbs(l)
      BY <2>5, <3>1
    <3>3. Climbs(l) <= Enters(l)
      <4>1. CASE l = 0
        BY <1>5, <4>1
      <4>2. CASE l # 0
        BY <2>4, <3>1, <4>2
      <4> QED BY <4>1, <4>2
    <3>4. ~(level[l] < 0) /\ level[l] \in Int
      BY <2>9, <3>2, <3>3
    <3>5. CASE pieces[m] = <<Dot, Dot>>
      <4>1. m \in Up /\ m \notin Down
        BY <1>3, <2>4, <3>5
      <4>2. level[m] = level[l] - 1
        BY <2>6, <3>4, <3>5 DEF Deeper
      <4>3. Climbs(m) = Climbs(l) + 1 /\ Enters(m) = Enters(l)
        BY <2>7, <2>9, <4>1
      <4> QED BY <2>9, <3>1, <3>2, <4>2, <4>3
    <3>6. CASE pieces[m] # <<Dot, Dot>> /\ pieces[m] = <<Dot>>
      <4>1. m \notin Up /\ m \notin Down
        BY <1>3, <2>4, <3>6
      <4>2. level[m] = level[l]
        BY <2>6, <3>4, <3>6 DEF Deeper
      <4>3. Climbs(m) = Climbs(l) /\ Enters(m) = Enters(l)
        BY <2>7, <2>9, <4>1
      <4> QED BY <2>9, <3>1, <3>2, <4>2, <4>3
    <3>7. CASE pieces[m] \notin {<<Dot>>, <<Dot, Dot>>}
      <4>1. m \notin Up /\ m \in Down /\ pieces[m] # <<>>
        BY <1>3, <2>4, <3>7
      <4>2. level[m] = level[l] + 1
        BY <2>6, <3>4, <3>7, <4>1 DEF Deeper
      <4>3. Climbs(m) = Climbs(l) /\ Enters(m) = Enters(l) + 1
        BY <2>7, <2>9, <4>1
      <4> QED BY <2>9, <3>1, <3>2, <4>2, <4>3
    <3> QED BY <3>5, <3>6, <3>7
  <2>12. (\A j \in 1..m : Climbs(j) <= Enters(j)) => level[m] = Enters(m) - Climbs(m)
    <3>1. ASSUME \A j \in 1..m : Climbs(j) <= Enters(j), NEW j \in 1..l PROVE ~(Climbs(j) > Enters(j))
      <4>1. j \in 1..m /\ j \in 0..n /\ ~(m <= j)
        BY <1>1, <2>4, <2>8
      <4>2. j \notin T
        <5> HIDE DEF T
        <5> QED BY <2>1, <4>1
      <4>3. Climbs(j) \in Nat /\ Enters(j) \in Nat
        BY <4>1, <4>2
      <4> QED BY <3>1, <4>1, <4>3
    <3> QED BY <2>11, <3>1
  <2>13. (\E j \in 1..m : Climbs(j) > Enters(j)) => level[m] < 0 /\ level[m] \in Int
    <3>1. ASSUME ~\E j \in 1..l : Climbs(j) > Enters(j), \E j \in 1..m : Climbs(j) > Enters(j)
          PROVE  level[m] < 0 /\ level[m] \in Int
      <4>1. Climbs(m) > Enters(m)
        BY <2>8, <3>1
      <4>2. level[m] = Enters(m) - Climbs(m)
        BY <2>11, <3>1
      <4> QED BY <2>9, <4>1, <4>2
    <3> QED BY <2>10, <3>1
  <2>14. Right(m)
    BY <2>9, <2>12, <2>13
  <2> QED BY <2>2, <2>14
<1>7. \A m \in 0..n : Right(m)
  <2> HIDE DEF Right
  <2> QED BY <1>6
<1>8. \A m \in 0..n : /\ Climbs(m) = Cardinality({i \in 1..m : pieces[i] = <<Dot, Dot>>})
                      /\ Enters(m) = Cardinality({i \in 1..m : pieces[i] \notin {<<Dot>>, <<Dot, Dot>>}})
  <2>1. ASSUME NEW m \in 0..n
        PROVE  /\ {i \in 1..m : i \in Up} = {i \in 1..m : pieces[i] = <<Dot, Dot>>}
               /\ {i \in 1..m : i \in Down} = {i \in 1..m : pieces[i] \notin {<<Dot>>, <<Dot, Dot>>}}
    <3>1. \A i \in 1..m : i \in 1..n
      BY <1>1
    <3> QED BY <1>3, <3>1
  <2> QED BY <2>1 DEF Climbs, Enters, Count
<1>9. k \in 0..n /\ \A m \in 1..k : m \in 0..n
  BY <1>1 DEF n
<1>10. Right(k)
  BY <1>7, <1>9
<1> QED BY <1>8, <1>9, <1>10

LEMMA ValidPathIs ==
  ASSUME NEW path \in Seq(Int)
  PROVE  LET pieces == Split(path, Slash)
             Climbs(k) == Cardinality({i \in 1..k : pieces[i] = <<Dot, Dot>>})
             Enters(k) == Cardinality({i \in 1..k : pieces[i] \notin {<<Dot>>, <<Dot, Dot>>}})
         IN  ValidPath(path) <=> \A k \in 1..Len(pieces) : Climbs(k) <= Enters(k)
<1>1. PICK pieces : pieces = Split(path, Slash)
  OBVIOUS
<1> DEFINE n == Len(pieces)
           Climbs(k) == Cardinality({i \in 1..k : pieces[i] = <<Dot, Dot>>})
           Enters(k) == Cardinality({i \in 1..k : pieces[i] \notin {<<Dot>>, <<Dot, Dot>>}})
<1>2. pieces \in Seq(Seq(Int) \ {<<>>}) /\ n \in Nat
  <2>1. PICK f : Split(path, Slash) = f[1] /\ SplitLoop(f, path, Slash)
    BY SplitIs
  <2>2. 1 \in 1..(Len(path) + 1)
    OBVIOUS
  <2>3. f[1] \in Seq(Seq(Int) \ {<<>>})
    BY <2>1, <2>2 DEF SplitLoop
  <2> QED BY <1>1, <2>1, <2>3
<1>3. PICK level : level = CHOOSE v : IsLevel(v, pieces)
  OBVIOUS
<1>4. IsLevel(level, pieces)
  BY <1>2, <1>3, LevelExists
<1>5. ValidPath(path) <=> level[n] >= 0
  BY <1>1, <1>3 DEF ValidPath, IsLevel
<1> HIDE DEF Climbs, Enters
<1>6. \A k \in 0..n :
        /\ Climbs(k) \in Nat /\ Enters(k) \in Nat
        /\ (\A m \in 1..k : Climbs(m) <= Enters(m)) => level[k] = Enters(k) - Climbs(k)
        /\ (\E m \in 1..k : Climbs(m) > Enters(m)) => level[k] < 0 /\ level[k] \in Int
  BY <1>2, <1>4, LevelIs DEF Climbs, Enters
<1> HIDE DEF n
<1>7. n \in 0..n /\ \A k \in 1..n : k \in 0..n
  BY <1>2
<1>8. ASSUME \A k \in 1..n : Climbs(k) <= Enters(k) PROVE level[n] >= 0
  <2>1. level[n] = Enters(n) - Climbs(n)
    BY <1>6, <1>7, <1>8
  <2>2. CASE n = 0
    <3>1. Climbs(0) = 0
      <4>1. {i \in 1..0 : pieces[i] = <<Dot, Dot>>} = {}
        OBVIOUS
      <4> QED BY <4>1, FS_EmptySet DEF Climbs
    <3> QED BY <1>6, <1>7, <2>1, <2>2, <3>1
  <2>3. CASE n # 0
    <3>1. n \in 1..n
      BY <1>2, <2>3
    <3> QED BY <1>6, <1>7, <1>8, <2>1, <3>1
  <2> QED BY <2>2, <2>3
<1>9. ASSUME ~\A k \in 1..n : Climbs(k) <= Enters(k) PROVE ~(level[n] >= 0)
  <2>1. \E k \in 1..n : Climbs(k) > Enters(k)
    BY <1>6, <1>7, <1>9
  <2> QED BY <1>6, <1>7, <2>1
<1>10. ValidPath(path) <=> \A k \in 1..n : Climbs(k) <= Enters(k)
  BY <1>5, <1>8, <1>9
<1> QED BY <1>1, <1>10 DEF Climbs, Enters, n

-----------------------------------------------------------------------------
(* The query                                                                *)
-----------------------------------------------------------------------------
(* The query                                                                *)

\* A sequence that stands somewhere in another one.
LEMMA Slice ==
  ASSUME NEW s \in Seq(Int), NEW t \in Seq(Int), NEW a \in Nat, a + Len(t) <= Len(s),
         \A k \in 1..Len(t) : s[a + k] = t[k]
  PROVE  SubSeq(s, a + 1, a + Len(t)) = t
<1>1. PICK m \in Nat : m = Len(t)
  BY LenProperties
<1>2. \A i \in (a + 1)..(a + m) : s[i] \in Int
  <2>1. \A i \in (a + 1)..(a + m) : i \in 1..Len(s)
    BY <1>1, LenProperties
  <2> QED BY <2>1, ElementOfSeq
<1> DEFINE r == SubSeq(s, a + 1, a + m)
<1>3. /\ r \in Seq(Int)
      /\ Len(r) = IF a + 1 <= a + m THEN (a + m) - (a + 1) + 1 ELSE 0
      /\ \A i \in 1..((a + m) - (a + 1) + 1) : r[i] = s[(a + 1) + i - 1]
  BY <1>2, SubSeqProperties
<1> HIDE DEF r
<1>4. Len(r) = m /\ (a + m) - (a + 1) + 1 = m
  BY <1>3
<1>5. ASSUME NEW i \in 1..m PROVE r[i] = t[i]
  <2>1. (a + 1) + i - 1 = a + i
    OBVIOUS
  <2>2. r[i] = s[(a + 1) + i - 1]
    BY <1>3, <1>4
  <2>3. s[a + i] = t[i]
    BY <1>1
  <2> QED BY <2>1, <2>2, <2>3
<1>6. r = t
  BY <1>1, <1>3, <1>4, <1>5, SeqEqual
<1> QED BY <1>1, <1>6 DEF r

LEMMA CutIs ==
  ASSUME NEW src \in Seq(Int), NEW sep, NEW o \in 1..Len(src), NEW p \in o..(Len(src) + 1),
         \A j \in o..(p - 1) : src[j] # sep, p <= Len(src) => src[p] = sep
  PROVE  Cut(src, sep, o) = p
<1>1. PICK c : c = Cut(src, sep, o)
  OBVIOUS
<1>2. /\ c \in o..(Len(src) + 1)
      /\ \A j \in o..(c - 1) : src[j] # sep
      /\ c <= Len(src) => src[c] = sep
  BY <1>1, CutFacts
<1>3. PICK n \in Nat : n = Len(src)
  BY LenProperties
<1>4. ASSUME c < p PROVE FALSE
  <2>1. c \in o..(p - 1) /\ c <= n
    BY <1>2, <1>3, <1>4
  <2> QED BY <1>2, <1>3, <2>1
<1>5. ASSUME p < c PROVE FALSE
  <2>1. p \in o..(c - 1) /\ p <= n
    BY <1>2, <1>3, <1>5
  <2> QED BY <1>2, <1>3, <2>1
<1>6. c \in Int /\ p \in Int
  BY <1>2
<1> QED BY <1>1, <1>4, <1>5, <1>6

LEMMA SignIs ==
  ASSUME NEW field \in Seq(Int), NEW p \in 1..Len(field), field[p] = Equals,
         \A j \in 1..(p - 1) : field[j] # Equals
  PROVE  Sign(field) = p
<1> DEFINE signs == {i \in 1..Len(field) : field[i] = Equals}
<1>1. p \in signs
  OBVIOUS
<1>2. ASSUME NEW j \in signs PROVE p <= j
  BY LenProperties
<1>3. PICK q : q = CHOOSE i \in signs : \A j \in signs : i <= j
  OBVIOUS
<1>4. q \in signs /\ \A j \in signs : q <= j
  <2>1. \E i \in signs : \A j \in signs : i <= j
    BY <1>1, <1>2
  <2> HIDE DEF signs
  <2> QED BY <1>3, <2>1
<1>5. q = p
  <2>1. q <= p /\ p <= q
    BY <1>1, <1>2, <1>4
  <2>2. q \in Int /\ p \in Int
    BY <1>4
  <2> QED BY <2>1, <2>2
<1> QED BY <1>1, <1>3, <1>5 DEF Sign

LEMMA EncodedIsSafe ==
  ASSUME NEW url \in Seq(-128..127)
  PROVE  UrlEncode(url, FALSE) \in Seq(Safe)
<1>1. PICK e : e = CHOOSE f : IsEncoding(f, url, FALSE)
  OBVIOUS
<1>2. IsEncoding(e, url, FALSE)
  <2>1. -128..127 \subseteq Int
    OBVIOUS
  <2>2. url \in Seq(Int)
    BY <2>1, SeqMonotonic
  <2>3. \E f : IsEncoding(f, url, FALSE)
    BY <2>2, EncodingExists
  <2> QED BY <1>1, <2>3
<1>3. UrlEncode(url, FALSE) = e[1]
  BY <1>1 DEF UrlEncode, IsEncoding
<1>4. 1 \in 1..(Len(url) + 1)
  BY LenProperties
<1>5. e[1] \in Seq(Safe)
  BY <1>2, <1>4, EncodingEnds
<1> QED BY <1>3, <1>5

LEMMA SafeIsNeither ==
  ASSUME NEW c \in Safe
  PROVE  c # Equals /\ c # Ampersand
BY DEF Safe, Unreserved, Equals, Ampersand, Percent

\* Key, sign and value, one after the other.
Joined(f, k, v) ==
    /\ f \in Seq(Int) /\ Len(f) = Len(k) + 1 + Len(v)
    /\ \A i \in 1..Len(k) : f[i] = k[i]
    /\ f[Len(k) + 1] = Equals
    /\ \A i \in 1..Len(v) : f[Len(k) + 1 + i] = v[i]

LEMMA JoinedIs ==
  ASSUME NEW k \in Seq(Int), NEW v \in Seq(Int)
  PROVE  Joined(k \o <<Equals>> \o v, k, v)
<1>1. <<Equals>> \in Seq(Int) /\ Len(<<Equals>>) = 1 /\ <<Equals>>[1] = Equals
  BY DEF Equals
<1>2. PICK a \in Nat : a = Len(k)
  BY LenProperties
<1>3. PICK b \in Nat : b = Len(v)
  BY LenProperties
<1> DEFINE h == k \o <<Equals>>
           f == h \o v
<1>4. /\ h \in Seq(Int) /\ Len(h) = a + 1
      /\ \A i \in 1..(a + 1) : h[i] = IF i <= a THEN k[i] ELSE <<Equals>>[i - a]
  BY <1>1, <1>2, ConcatProperties
<1>5. \A i \in 1..a : h[i] = k[i]
  BY <1>4
<1>6. h[a + 1] = Equals
  <2>1. a + 1 \in 1..(a + 1) /\ ~(a + 1 <= a) /\ (a + 1) - a = 1
    OBVIOUS
  <2> QED BY <1>1, <1>4, <2>1
<1>11. h \in Seq(Int) /\ Len(h) = a + 1 /\ a + 1 \in Nat
  BY <1>4
<1> HIDE DEF h
<1>12. /\ f \in Seq(Int) /\ Len(f) = Len(h) + Len(v)
       /\ \A i \in 1..(Len(h) + Len(v)) : f[i] = IF i <= Len(h) THEN h[i] ELSE v[i - Len(h)]
  BY <1>11, ConcatProperties
<1>7. /\ f \in Seq(Int) /\ Len(f) = a + 1 + b
      /\ \A i \in 1..(a + 1 + b) : f[i] = IF i <= a + 1 THEN h[i] ELSE v[i - (a + 1)]
  BY <1>3, <1>11, <1>12
<1> HIDE DEF f
<1>8. ASSUME NEW i \in 1..a PROVE f[i] = k[i]
  <2>1. i \in 1..(a + 1 + b) /\ i <= a + 1
    OBVIOUS
  <2> QED BY <1>5, <1>7, <2>1
<1>9. f[a + 1] = Equals
  <2>1. a + 1 \in 1..(a + 1 + b) /\ a + 1 <= a + 1
    OBVIOUS
  <2> QED BY <1>6, <1>7, <2>1
<1>10. ASSUME NEW i \in 1..b PROVE f[a + 1 + i] = v[i]
  <2>1. a + 1 + i \in 1..(a + 1 + b) /\ ~(a + 1 + i <= a + 1) /\ (a + 1 + i) - (a + 1) = i
    OBVIOUS
  <2> QED BY <1>7, <2>1
<1> QED BY <1>2, <1>3, <1>7, <1>8, <1>9, <1>10 DEF Joined, f, h

IsField(f, k, v) == f = UrlEncode(k, FALSE) \o <<Equals>> \o UrlEncode(v, FALSE)

\* What ParseHttpLine reads from a field is what the client encoded in it.
LEMMA FieldIsRead ==
  ASSUME NEW k \in Seq(-128..127), NEW v \in Seq(-128..127), NEW f, IsField(f, k, v)
  PROVE  /\ f \in Seq(Int) /\ Len(f) > 0 /\ \A i \in 1..Len(f) : f[i] # Ampersand
         /\ Sign(f) # 0 /\ Key(f) = Kept(k) /\ Value(f) = Kept(v)
<1>1. PICK K \in Seq(Safe) : K = UrlEncode(k, FALSE)
  BY EncodedIsSafe
<1>2. PICK V \in Seq(Safe) : V = UrlEncode(v, FALSE)
  BY EncodedIsSafe
<1>3. K \in Seq(Int) /\ V \in Seq(Int)
  BY SafeIsInt, SeqMonotonic
<1>4. PICK a \in Nat : a = Len(K)
  BY LenProperties
<1>5. PICK b \in Nat : b = Len(V)
  BY LenProperties
<1>15. Joined(f, K, V)
  BY <1>1, <1>2, <1>3, JoinedIs DEF IsField
<1>16. f \in Seq(Int) /\ Len(f) = a + 1 + b
  BY <1>4, <1>5, <1>15 DEF Joined
<1>6. /\ \A i \in 1..a : f[i] = K[i]
      /\ f[a + 1] = Equals
      /\ \A i \in 1..b : f[a + 1 + i] = V[i]
  BY <1>4, <1>5, <1>15 DEF Joined
<1>7. \A i \in 1..a : K[i] # Equals /\ K[i] # Ampersand
  BY <1>4, ElementOfSeq, SafeIsNeither
<1>8. \A i \in 1..b : V[i] # Ampersand
  BY <1>5, ElementOfSeq, SafeIsNeither
<1>9. ASSUME NEW i \in 1..Len(f) PROVE f[i] # Ampersand
  <2>1. CASE i \in 1..a
    BY <1>6, <1>7, <2>1
  <2>2. CASE i = a + 1
    BY <1>6, <2>2 DEF Equals, Ampersand
  <2>3. CASE i > a + 1
    <3>1. PICK j \in 1..b : i = a + 1 + j
      <4>1. i - (a + 1) \in 1..b /\ i = a + 1 + (i - (a + 1))
        BY <1>16, <2>3
      <4> QED BY <4>1
    <3> QED BY <1>6, <1>8, <3>1
  <2>4. i \in 1..(a + 1 + b)
    BY <1>16
  <2> QED BY <2>1, <2>2, <2>3, <2>4
<1>10. Sign(f) = a + 1
  <2>1. a + 1 \in 1..Len(f) /\ (a + 1) - 1 = a
    BY <1>16
  <2>2. \A j \in 1..((a + 1) - 1) : f[j] # Equals
    BY <1>6, <1>7, <2>1
  <2> QED BY <1>6, <1>16, <2>1, <2>2, SignIs
<1>11. SubSeq(f, 1, Sign(f) - 1) = K
  <2>1. 0 \in Nat /\ 0 + a <= Len(f) /\ \A i \in 1..a : 0 + i = i
    BY <1>16
  <2>2. \A i \in 1..a : f[0 + i] = K[i]
    BY <1>6, <2>1
  <2>3. SubSeq(f, 0 + 1, 0 + a) = K
    BY <1>3, <1>4, <1>16, <2>1, <2>2, Slice
  <2>4. 0 + 1 = 1 /\ 0 + a = (a + 1) - 1
    OBVIOUS
  <2> QED BY <1>10, <2>3, <2>4
<1>12. SubSeq(f, Sign(f) + 1, Len(f)) = V
  <2>1. a + 1 \in Nat /\ (a + 1) + b <= Len(f)
    BY <1>16
  <2>2. SubSeq(f, (a + 1) + 1, (a + 1) + b) = V
    BY <1>3, <1>5, <1>6, <1>16, <2>1, Slice
  <2> QED BY <1>16, <1>10, <2>2
<1>13. Key(f) = Kept(k) /\ Value(f) = Kept(v)
  BY <1>1, <1>2, <1>11, <1>12, DecodeInvertsEncode DEF Key, Value
<1>14. Len(f) > 0 /\ a + 1 # 0
  BY <1>16
<1> QED BY <1>16, <1>9, <1>10, <1>13, <1>14

\* After place a of q there is g, without separators, and then a separator or nothing.
RunAt(q, g, a, sep) ==
    /\ Len(g) > 0 /\ a + Len(g) <= Len(q)
    /\ \A k \in 1..Len(g) : q[a + k] = g[k] /\ g[k] # sep
    /\ a + Len(g) < Len(q) => q[a + Len(g) + 1] = sep

TakesRun(f, q, g, a) ==
    f[a + 1] = <<g>> \o f[IF a + Len(g) < Len(q) THEN a + Len(g) + 2 ELSE Len(q) + 1]

\* Split takes a run off the text that begins with it.
LEMMA TurnTakesRun ==
  ASSUME NEW q \in Seq(Int), NEW g \in Seq(Int), NEW a \in Nat, NEW sep, NEW f,
         SplitLoop(f, q, sep), RunAt(q, g, a, sep)
  PROVE  TakesRun(f, q, g, a)
<1>0. /\ Len(g) > 0 /\ a + Len(g) <= Len(q)
      /\ \A k \in 1..Len(g) : q[a + k] = g[k] /\ g[k] # sep
      /\ a + Len(g) < Len(q) => q[a + Len(g) + 1] = sep
  BY DEF RunAt
<1>1. PICK b \in Nat : b = Len(g)
  BY LenProperties
<1>2. PICK n \in Nat : n = Len(q)
  BY LenProperties
<1> DEFINE p == a + 1
           c == a + b + 1
<1>3. p \in 1..n /\ p \in 1..(n + 1) /\ ~(p > n) /\ c \in p..(n + 1) /\ c > p /\ c - 1 = a + b
  BY <1>0, <1>1, <1>2
<1>4. ASSUME NEW j \in p..(c - 1) PROVE q[j] # sep
  <2>1. j - a \in 1..b /\ a + (j - a) = j
    OBVIOUS
  <2> QED BY <1>0, <1>1, <2>1
<1>5. c <= n => q[c] = sep
  BY <1>0, <1>1, <1>2
<1>6. Cut(q, sep, p) = c
  <2>1. p \in 1..Len(q) /\ c \in p..(Len(q) + 1) /\ (c <= Len(q) => q[c] = sep)
    BY <1>2, <1>3, <1>5
  <2>2. \A j \in p..(c - 1) : q[j] # sep
    BY <1>4
  <2> HIDE DEF p, c
  <2> QED BY <2>1, <2>2, CutIs
<1>7. SubSeq(q, a + 1, a + b) = g
  BY <1>0, <1>1, Slice
<1>8. PieceAt(q, sep, p) = <<g>>
  BY <1>3, <1>6, <1>7 DEF PieceAt
<1>9. After(q, sep, p) = IF a + b < n THEN a + b + 2 ELSE n + 1
  BY <1>2, <1>6 DEF After
<1>10. f[p] = PieceAt(q, sep, p) \o f[After(q, sep, p)]
  <2> HIDE DEF p
  <2> QED BY <1>2, <1>3 DEF SplitLoop
<1> QED BY <1>1, <1>2, <1>8, <1>9, <1>10 DEF TakesRun

FieldOf(form, i) == UrlEncode(form[i][1], FALSE) \o <<Equals>> \o UrlEncode(form[i][2], FALSE)

\* A field and what separates it from the next one.
Ended(form, i) == FieldOf(form, i) \o IF i < Len(form) THEN <<Ampersand>> ELSE <<>>

FormType == Seq(Seq(-128..127) \X Seq(-128..127))

LEMMA FieldOfIsRead ==
  ASSUME NEW form \in FormType, NEW i \in 1..Len(form), NEW f, f = FieldOf(form, i)
  PROVE  /\ f \in Seq(Int) /\ Len(f) > 0 /\ \A j \in 1..Len(f) : f[j] # Ampersand
         /\ Sign(f) # 0 /\ Key(f) = Kept(form[i][1]) /\ Value(f) = Kept(form[i][2])
<1>1. form[i] \in Seq(-128..127) \X Seq(-128..127)
  BY ElementOfSeq DEF FormType
<1>2. form[i][1] \in Seq(-128..127) /\ form[i][2] \in Seq(-128..127)
  BY <1>1
<1>3. IsField(f, form[i][1], form[i][2])
  BY DEF FieldOf, IsField
<1> QED BY <1>2, <1>3, FieldIsRead

LEMMA EndedIs ==
  ASSUME NEW form \in FormType, NEW i \in 1..Len(form), NEW g, g = FieldOf(form, i)
  PROVE  LET w == Ended(form, i) IN
         /\ w \in Seq(Int) /\ Len(w) = IF i < Len(form) THEN Len(g) + 1 ELSE Len(g)
         /\ \A k \in 1..Len(g) : w[k] = g[k]
         /\ i < Len(form) => w[Len(g) + 1] = Ampersand
<1>1. g \in Seq(Int)
  BY FieldOfIsRead
<1>2. PICK h : h = g
  OBVIOUS
<1>3. PICK b \in Nat : b = Len(h)
  BY <1>1, <1>2, LenProperties
<1>4. CASE i < Len(form)
  <2> DEFINE w == h \o <<Ampersand>>
  <2>1. <<Ampersand>> \in Seq(Int) /\ Len(<<Ampersand>>) = 1 /\ <<Ampersand>>[1] = Ampersand
    BY DEF Ampersand
  <2>2. /\ w \in Seq(Int) /\ Len(w) = b + 1
        /\ \A k \in 1..(b + 1) : w[k] = IF k <= b THEN h[k] ELSE <<Ampersand>>[k - b]
    BY <1>1, <1>2, <1>3, <2>1, ConcatProperties
  <2> HIDE DEF w
  <2>3. \A k \in 1..b : w[k] = h[k]
    BY <2>2
  <2>4. b + 1 \in 1..(b + 1) /\ ~(b + 1 <= b) /\ (b + 1) - b = 1
    OBVIOUS
  <2>5. w[b + 1] = Ampersand
    BY <2>1, <2>2, <2>4
  <2>6. Ended(form, i) = w
    BY <1>2, <1>4 DEF Ended, w
  <2> QED BY <1>2, <1>3, <1>4, <2>2, <2>3, <2>5, <2>6
<1>5. CASE ~(i < Len(form))
  <2>1. Ended(form, i) = h \o <<>>
    BY <1>2, <1>5 DEF Ended
  <2>2. h \o <<>> = h
    BY <1>1, <1>2, ConcatEmptySeq
  <2> QED BY <1>1, <1>2, <1>5, <2>1, <2>2
<1> QED BY <1>4, <1>5

IsQuery(e, form) ==
    e = [i \in 1..(Len(form) + 1) |-> IF i > Len(form) THEN <<>> ELSE Ended(form, i) \o e[i + 1]]

\* What the client writes from a field on is the end of what it writes.
LEMMA QueryIs ==
  ASSUME NEW form \in FormType
  PROVE  \E e : /\ Query(form) = e[1] /\ IsQuery(e, form)
                /\ PushesAll(e, Len(form), Int)
<1> DEFINE n == Len(form)
           pre == [i \in 1..n |-> Ended(form, i)]
           next == [i \in 1..n |-> i + 1]
           body(e, i) == IF i > n THEN <<>> ELSE Ended(form, i) \o e[i + 1]
<1>1. n \in Nat /\ n + 1 \in Nat
  BY LenProperties DEF FormType
<1>2. \A i \in 1..n : next[i] \in (i + 1)..(n + 1)
  BY <1>1
<1>3. \E e : IsQuery(e, form)
  <2>1. PICK e : IsLoop(e, n, n + 1, pre, next)
    <3> HIDE DEF n, pre, next
    <3> QED BY <1>1, <1>2, LoopExists
  <2>2. ASSUME NEW i \in 1..(n + 1) PROVE e[i] = body(e, i)
    <3>1. e[i] = IF i > n THEN <<>> ELSE pre[i] \o e[next[i]]
      BY <2>1 DEF IsLoop
    <3>2. ~(i > n) => i \in 1..n /\ pre[i] = Ended(form, i) /\ next[i] = i + 1
      BY <1>1
    <3> QED BY <3>1, <3>2
  <2>3. e = [i \in 1..(n + 1) |-> body(e, i)]
    <3>1. e = [i \in 1..(n + 1) |-> e[i]]
      BY <2>1 DEF IsLoop
    <3> HIDE DEF body
    <3> QED BY <2>2, <3>1
  <2> QED BY <2>3 DEF IsQuery
<1>4. PICK e : e = CHOOSE f : IsQuery(f, form)
  OBVIOUS
<1>5. IsQuery(e, form)
  BY <1>3, <1>4
<1>6. Query(form) = e[1]
  BY <1>4 DEF Query, IsQuery, Ended, FieldOf
<1>7. IsLoop(e, n, n + 1, pre, next)
  <2> DEFINE turn(i) == IF i > n THEN <<>> ELSE pre[i] \o e[next[i]]
  <2>1. ASSUME NEW i \in 1..(n + 1) PROVE e[i] = turn(i)
    <3>1. e[i] = body(e, i)
      BY <1>5 DEF IsQuery
    <3>2. ~(i > n) => i \in 1..n /\ pre[i] = Ended(form, i) /\ next[i] = i + 1
      BY <1>1
    <3> QED BY <3>1, <3>2
  <2>2. e = [i \in 1..(n + 1) |-> e[i]]
    BY <1>5 DEF IsQuery
  <2>3. e = [i \in 1..(n + 1) |-> turn(i)]
    <3> HIDE DEF turn, n
    <3> QED BY <2>1, <2>2
  <2> QED BY <2>3 DEF IsLoop
<1>8. OneByOne(n, pre, next, Int)
  <2>1. ASSUME NEW i \in 1..n PROVE next[i] = i + 1 /\ pre[i] \in Seq(Int)
    <3>1. Ended(form, i) \in Seq(Int)
      BY EndedIs
    <3> QED BY <3>1
  <2> HIDE DEF n, pre, next
  <2> QED BY <2>1 DEF OneByOne
<1>9. PushesAll(e, n, Int)
  <2> HIDE DEF n, pre, next
  <2> QED BY <1>1, <1>7, <1>8, LoopEnds
<1> QED BY <1>5, <1>6, <1>9

\* The fields of a query are those the client wrote.
LEMMA FieldsAre ==
  ASSUME NEW form \in FormType
  PROVE  Fields(Query(form)) = [i \in 1..Len(form) |-> FieldOf(form, i)]
<1> DEFINE n == Len(form)
           rest(i) == [k \in 1..((n + 1) - i) |-> FieldOf(form, i + k - 1)]
<1>1. n \in Nat /\ n + 1 \in Nat /\ 1 \in 1..(n + 1)
  BY LenProperties DEF FormType
<1>2. PICK e : Query(form) = e[1] /\ IsQuery(e, form) /\ PushesAll(e, Len(form), Int)
  BY QueryIs
<1>3. PICK q : q = e[1]
  OBVIOUS
<1>4. /\ \A i \in 1..(n + 1) : e[i] = IF i > n THEN <<>> ELSE Ended(form, i) \o e[i + 1]
      /\ q \in Seq(Int)
      /\ \A i \in 1..(n + 1) : e[i] \in Seq(Int) /\ EndsAt(e, i)
  BY <1>1, <1>2, <1>3 DEF IsQuery, PushesAll
<1>5. PICK f : Split(q, Ampersand) = f[1] /\ SplitLoop(f, q, Ampersand)
  BY <1>4, SplitIs
<1>6. PICK l \in Nat : l = Len(q)
  BY <1>4, LenProperties
<1> DEFINE at(i) == l - Len(e[i])
           Right(i) == f[at(i) + 1] = rest(i)
           T == {i \in 0..(n + 1) : i # 0 /\ ~Right(i)}
<1>7. \A i \in 1..n : FieldOf(form, i) \in Seq(Int)
  BY FieldOfIsRead
<1> HIDE DEF n
<1>8. ASSUME NEW i \in 1..(n + 1)
      PROVE  /\ rest(i) \in Seq(Seq(Int)) /\ Len(rest(i)) = (n + 1) - i
             /\ \A k \in 1..((n + 1) - i) : rest(i)[k] = FieldOf(form, i + k - 1)
  <2>1. (n + 1) - i \in Nat
    BY <1>1
  <2>2. ASSUME NEW k \in 1..((n + 1) - i) PROVE FieldOf(form, i + k - 1) \in Seq(Int)
    <3>1. i + k - 1 \in 1..n
      BY <1>1
    <3> QED BY <1>7, <3>1
  <2> QED BY <2>1, <2>2
<1>9. ASSUME T # {} PROVE FALSE
  <2>1. PICK m \in T : \A y \in T : y <= m
    <3>1. T \in SUBSET (0..(n + 1)) /\ n + 1 \in Nat
      <4> HIDE DEF Right
      <4> QED BY <1>1
    <3> HIDE DEF T
    <3> QED BY <1>9, <3>1, Largest
  <2>2. m \in 1..(n + 1) /\ ~Right(m)
    <3> HIDE DEF Right
    <3> QED BY <1>1
  <2>3. e[n + 1] = <<>> /\ Len(e[n + 1]) = 0
    <3>1. n + 1 > n /\ n + 1 \in 1..(n + 1)
      BY <1>1
    <3>2. e[n + 1] = <<>>
      BY <1>4, <3>1
    <3> QED BY <3>2
  <2>4. m # n + 1
    <3>1. at(n + 1) + 1 = l + 1 /\ l + 1 > l /\ l + 1 \in 1..(l + 1)
      BY <2>3
    <3>2. f[l + 1] = <<>>
      BY <1>5, <1>6, <3>1 DEF SplitLoop
    <3>3. rest(n + 1) = <<>>
      <4>1. (n + 1) - (n + 1) = 0 /\ n + 1 \in 1..(n + 1)
        BY <1>1
      <4>2. Len(rest(n + 1)) = 0 /\ rest(n + 1) \in Seq(Seq(Int))
        BY <1>8, <4>1
      <4> HIDE DEF rest
      <4> QED BY <4>2, EmptySeq
    <3> QED BY <2>2, <3>1, <3>2, <3>3
  <2>5. m \in 1..n /\ m + 1 \in 1..(n + 1) /\ m + 1 \in 0..(n + 1) /\ ~(m > n) /\ ~(m + 1 <= m)
    BY <1>1, <2>2, <2>4
  <2>6. Right(m + 1)
    <3> HIDE DEF Right
    <3> QED BY <2>1, <2>5
  <2>7. PICK g : g = FieldOf(form, m)
    OBVIOUS
  <2>8. PICK w : w = Ended(form, m)
    OBVIOUS
  <2>9. /\ g \in Seq(Int) /\ Len(g) > 0 /\ \A j \in 1..Len(g) : g[j] # Ampersand
    BY <2>5, <2>7, FieldOfIsRead DEF n
  <2>10. /\ w \in Seq(Int) /\ Len(w) = IF m < n THEN Len(g) + 1 ELSE Len(g)
         /\ \A k \in 1..Len(g) : w[k] = g[k]
         /\ m < n => w[Len(g) + 1] = Ampersand
    BY <2>5, <2>7, <2>8, EndedIs DEF n
  <2>11. e[m] = w \o e[m + 1] /\ e[m + 1] \in Seq(Int) /\ e[m] \in Seq(Int)
    BY <1>4, <2>2, <2>5, <2>8
  <2>12. PICK b \in Nat : b = Len(g)
    BY <2>9, LenProperties
  <2>13. PICK x \in Nat : x = Len(w)
    BY <2>10, LenProperties
  <2>14. PICK y \in Nat : y = Len(e[m + 1])
    BY <2>11, LenProperties
  <2>15. Len(e[m]) = x + y /\ \A k \in 1..x : e[m][k] = w[k]
    <3>1. PICK v : v = e[m + 1]
      OBVIOUS
    <3>2. v \in Seq(Int) /\ w \in Seq(Int) /\ e[m] = w \o v
      BY <2>10, <2>11, <3>1
    <3>3. /\ Len(w \o v) = Len(w) + Len(v)
          /\ \A k \in 1..(Len(w) + Len(v)) :
                (w \o v)[k] = IF k <= Len(w) THEN w[k] ELSE v[k - Len(w)]
      BY <3>2, ConcatProperties
    <3>4. \A k \in 1..x : (w \o v)[k] = w[k]
      <4>1. \A k \in 1..x : k \in 1..(x + y)
        OBVIOUS
      <4> QED BY <2>13, <2>14, <3>1, <3>3, <4>1
    <3> QED BY <2>13, <2>14, <3>1, <3>2, <3>3, <3>4
  <2>16. x + y <= l /\ \A k \in 1..(x + y) : q[l - (x + y) + k] = e[m][k]
    <3>1. EndsAt(e, m)
      BY <1>4, <2>2
    <3>2. PICK v : v = e[m]
      OBVIOUS
    <3>3. Len(v) <= Len(q) /\ \A k \in 1..Len(v) : q[Len(q) - Len(v) + k] = v[k]
      BY <1>3, <3>1, <3>2 DEF EndsAt
    <3>4. Len(v) = x + y
      BY <2>15, <3>2
    <3>5. x + y <= l /\ \A k \in 1..(x + y) : q[l - (x + y) + k] = v[k]
      BY <1>6, <3>3, <3>4
    <3> QED BY <3>2, <3>5
  <2>17. PICK a \in Nat : a = l - (x + y)
    BY <2>16
  <2>18. ASSUME NEW k \in 1..x PROVE q[a + k] = w[k]
    <3>1. k \in 1..(x + y)
      OBVIOUS
    <3> QED BY <2>15, <2>16, <2>17, <3>1
  <2>19. x = IF m < n THEN b + 1 ELSE b
    BY <2>10, <2>12, <2>13
  <2>20. y = 0 <=> ~(m < n)
    <3>1. CASE ~(m < n)
      <4>1. m + 1 = n + 1
        BY <1>1, <2>5, <3>1
      <4> QED BY <2>3, <2>14, <3>1, <4>1
    <3>2. CASE m < n
      <4>1. m + 1 \in 1..n /\ ~(m + 1 > n)
        BY <1>1, <2>5, <3>2
      <4>2. e[m + 1] = Ended(form, m + 1) \o e[(m + 1) + 1]
        BY <1>4, <2>5, <4>1
      <4>3. Ended(form, m + 1) \in Seq(Int) /\ Len(Ended(form, m + 1)) > 0
        <5>1. PICK h : h = FieldOf(form, m + 1)
          OBVIOUS
        <5>2. h \in Seq(Int) /\ Len(h) > 0 /\ Len(h) \in Nat
          BY <4>1, <5>1, FieldOfIsRead, LenProperties DEF n
        <5>3. /\ Ended(form, m + 1) \in Seq(Int)
              /\ Len(Ended(form, m + 1)) = IF m + 1 < Len(form) THEN Len(h) + 1 ELSE Len(h)
          BY <4>1, <5>1, EndedIs DEF n
        <5> QED BY <5>2, <5>3
      <4>4. e[(m + 1) + 1] \in Seq(Int) /\ Len(e[(m + 1) + 1]) \in Nat
        <5>1. (m + 1) + 1 \in 1..(n + 1)
          BY <1>1, <4>1
        <5> QED BY <1>4, <5>1, LenProperties
      <4>5. Len(e[m + 1]) = Len(Ended(form, m + 1)) + Len(e[(m + 1) + 1])
        BY <4>2, <4>3, <4>4, ConcatProperties
      <4>6. PICK r : r = Len(Ended(form, m + 1))
        OBVIOUS
      <4>7. PICK z : z = Len(e[(m + 1) + 1])
        OBVIOUS
      <4>8. r \in Nat /\ r > 0 /\ z \in Nat
        BY <4>3, <4>4, <4>6, <4>7, LenProperties
      <4>9. y = r + z
        BY <2>14, <4>5, <4>6, <4>7
      <4> QED BY <3>2, <4>8, <4>9
    <3> QED BY <3>1, <3>2
  <2>21. /\ a + b <= l /\ (a + b < l <=> m < n)
         /\ at(m) + 1 = a + 1
         /\ at(m + 1) + 1 = IF a + b < l THEN a + b + 2 ELSE l + 1
    <3>1. at(m) = a /\ at(m + 1) = l - y
      BY <2>14, <2>15, <2>17
    <3>2. a + b <= l /\ (a + b < l <=> m < n)
      BY <2>16, <2>17, <2>19, <2>20
    <3>3. l - y + 1 = IF a + b < l THEN a + b + 2 ELSE l + 1
      BY <2>16, <2>17, <2>19, <2>20, <3>2
    <3> QED BY <3>1, <3>2, <3>3
  <2>22. f[a + 1] = <<g>> \o f[IF a + b < l THEN a + b + 2 ELSE l + 1]
    <3>1. ASSUME NEW k \in 1..Len(g) PROVE q[a + k] = g[k] /\ g[k] # Ampersand
      <4>1. k \in 1..x
        BY <2>12, <2>19
      <4> QED BY <2>9, <2>10, <2>18, <4>1
    <3>2. a + b < l => q[a + b + 1] = Ampersand
      <4>1. a + b < l => b + 1 \in 1..x /\ a + (b + 1) = a + b + 1
        BY <2>19, <2>21
      <4>2. a + b < l => q[a + (b + 1)] = w[b + 1] /\ w[b + 1] = Ampersand
        BY <2>10, <2>12, <2>18, <2>21, <4>1
      <4> QED BY <4>1, <4>2
    <3>3. Len(g) > 0 /\ a + Len(g) <= Len(q) /\ (a + Len(g) < Len(q) => q[a + Len(g) + 1] = Ampersand)
      BY <1>6, <2>9, <2>12, <2>21, <3>2
    <3>5. \A k \in 1..Len(g) : q[a + k] = g[k] /\ g[k] # Ampersand
      BY <3>1
    <3>6. RunAt(q, g, a, Ampersand)
      BY <3>3, <3>5 DEF RunAt
    <3>7. q \in Seq(Int) /\ g \in Seq(Int) /\ SplitLoop(f, q, Ampersand)
      BY <1>4, <1>5, <2>9
    <3>4. TakesRun(f, q, g, a)
      BY <3>6, <3>7, TurnTakesRun
    <3> QED BY <1>6, <2>12, <3>4 DEF TakesRun
  <2>23. <<g>> \o rest(m + 1) = rest(m)
    <3>1. rest(m + 1) \in Seq(Seq(Int)) /\ rest(m) \in Seq(Seq(Int))
      BY <1>8, <2>2, <2>5
    <3>2. Len(rest(m + 1)) = (n + 1) - (m + 1) /\ Len(rest(m)) = (n + 1) - m
      BY <1>8, <2>2, <2>5
    <3>3. Len(rest(m)) = Len(rest(m + 1)) + 1
      BY <1>1, <2>5, <3>2
    <3>4. rest(m)[1] = g
      <4>1. 1 \in 1..((n + 1) - m) /\ m + 1 - 1 = m
        BY <1>1, <2>5
      <4> QED BY <1>8, <2>2, <2>7, <4>1
    <3>5. ASSUME NEW k \in 1..Len(rest(m + 1)) PROVE rest(m)[k + 1] = rest(m + 1)[k]
      <4>1. k \in 1..((n + 1) - (m + 1)) /\ k + 1 \in 1..((n + 1) - m) /\ m + (k + 1) - 1 = (m + 1) + k - 1
        BY <1>1, <2>5, <3>2
      <4>2. rest(m)[k + 1] = FieldOf(form, m + (k + 1) - 1)
        BY <1>8, <2>2, <4>1
      <4>3. rest(m + 1)[k] = FieldOf(form, (m + 1) + k - 1)
        BY <1>8, <2>5, <4>1
      <4> QED BY <4>1, <4>2, <4>3
    <3> HIDE DEF rest
    <3> QED BY <2>9, <3>1, <3>3, <3>4, <3>5, OneInFront
  <2>24. Right(m)
    BY <2>6, <2>21, <2>22, <2>23
  <2> QED BY <2>2, <2>24
<1>10. Right(1)
  <2>1. 1 \in 0..(n + 1)
    BY <1>1
  <2> HIDE DEF Right
  <2> QED BY <1>9, <2>1
<1>11. f[1] = rest(1)
  <2>1. at(1) + 1 = 1
    BY <1>3, <1>6
  <2> QED BY <1>10, <2>1
<1>12. rest(1) = [i \in 1..n |-> FieldOf(form, i)]
  <2>1. (n + 1) - 1 = n /\ \A k \in 1..n : 1 + k - 1 = k
    BY <1>1
  <2> QED BY <2>1
<1> QED BY <1>2, <1>3, <1>5, <1>11, <1>12 DEF Fields, n

\* The fields under a key that no field before them has.
FirstOnes(k, n) == {i \in 1..n : \A j \in 1..(i - 1) : k[j] # k[i]}

\* Every key has one first field, and only one.
LEMMA FirstOnesAre ==
  ASSUME NEW n \in Nat, NEW k
  PROVE  /\ \A i \in 1..n : \E h \in FirstOnes(k, n) : k[h] = k[i]
         /\ \A h, i \in FirstOnes(k, n) : k[h] = k[i] => h = i
<1>1. ASSUME NEW i \in 1..n PROVE \E h \in FirstOnes(k, n) : k[h] = k[i]
  <2> DEFINE T == {j \in 1..n : k[j] = k[i]}
  <2>1. T \in SUBSET Nat /\ T # {}
    OBVIOUS
  <2>2. PICK h \in T : \A j \in T : h <= j
    <3> HIDE DEF T
    <3> QED BY <2>1, Smallest
  <2>3. ASSUME NEW j \in 1..(h - 1) PROVE k[j] # k[h]
    <3>1. j \in 1..n /\ ~(h <= j)
      OBVIOUS
    <3> QED BY <2>2, <3>1
  <2> QED BY <2>3 DEF FirstOnes
<1>2. ASSUME NEW h \in FirstOnes(k, n), NEW i \in FirstOnes(k, n), k[h] = k[i] PROVE h = i
  <2>1. h \in 1..n /\ i \in 1..n
    BY DEF FirstOnes
  <2>2. ~(h < i)
    <3>1. h < i => h \in 1..(i - 1)
      BY <2>1
    <3> QED BY <1>2, <3>1 DEF FirstOnes
  <2>3. ~(i < h)
    <3>1. i < h => i \in 1..(h - 1)
      BY <2>1
    <3> QED BY <1>2, <3>1 DEF FirstOnes
  <2> QED BY <2>1, <2>2, <2>3
<1> QED BY <1>1, <1>2

\* What SetParam has put into the map once every field is read.
LEMMA ParamsAre ==
  ASSUME NEW form \in FormType
  PROVE  LET Sent(i) == Kept(form[i][1]) IN
         /\ Accepted(Query(form))
         /\ DOMAIN Params(Query(form)) = {Sent(i) : i \in 1..Len(form)}
         /\ \A i \in 1..Len(form) : (\A j \in 1..(i - 1) : Sent(j) # Sent(i))
                 => Params(Query(form))[Sent(i)] = Kept(form[i][2])
<1>1. PICK n \in Nat : n = Len(form)
  BY LenProperties DEF FormType
<1>2. PICK F : F = Fields(Query(form))
  OBVIOUS
<1>3. F = [i \in 1..n |-> FieldOf(form, i)]
  BY <1>1, <1>2, FieldsAre
<1>4. \A i \in 1..n : /\ F[i] \in Seq(Int) /\ Sign(F[i]) # 0
                      /\ Key(F[i]) = Kept(form[i][1]) /\ Value(F[i]) = Kept(form[i][2])
  BY <1>1, <1>3, FieldOfIsRead
<1>5. Len(F) = n
  <2>1. F \in Seq(Seq(Int))
    BY <1>3, <1>4
  <2>2. DOMAIN F = 1..n /\ DOMAIN F = 1..Len(F) /\ Len(F) \in Nat
    BY <1>3, <2>1, LenProperties
  <2> QED BY <2>2
<1>6. Accepted(Query(form))
  BY <1>2, <1>4, <1>5 DEF Accepted
<1>7. PICK k : k = [i \in 1..n |-> Kept(form[i][1])]
  OBVIOUS
<1>8. PICK v : v = [i \in 1..n |-> Kept(form[i][2])]
  OBVIOUS
<1>9. \A i \in 1..n : Key(F[i]) = k[i] /\ Value(F[i]) = v[i]
  BY <1>4, <1>7, <1>8
<1>10. PICK S : S = FirstOnes(k, n)
  OBVIOUS
<1>11. S \subseteq 1..n
  BY <1>10 DEF FirstOnes
<1>12. {i \in 1..Len(F) : \A j \in 1..(i - 1) : Key(F[j]) # Key(F[i])} = S
  <2>1. \A i \in 1..n : \A j \in 1..(i - 1) : j \in 1..n
    OBVIOUS
  <2>2. \A i \in 1..n : (\A j \in 1..(i - 1) : Key(F[j]) # Key(F[i]))
                           <=> (\A j \in 1..(i - 1) : k[j] # k[i])
    BY <1>9, <2>1
  <2> QED BY <1>5, <1>10, <2>2 DEF FirstOnes
<1>13. PICK P : P = Params(Query(form))
  OBVIOUS
<1>14. P = [key \in {Key(F[i]) : i \in S} |-> Value(F[CHOOSE i \in S : Key(F[i]) = key])]
  BY <1>2, <1>12, <1>13 DEF Params
<1>15. {Key(F[i]) : i \in S} = {k[i] : i \in 1..n}
  <2>1. \A i \in S : Key(F[i]) = k[i] /\ i \in 1..n
    BY <1>9, <1>11
  <2>2. \A i \in 1..n : \E h \in S : k[h] = k[i]
    BY <1>10, FirstOnesAre
  <2> QED BY <2>1, <2>2
<1>16. DOMAIN P = {k[i] : i \in 1..n}
  BY <1>14, <1>15
<1>17. ASSUME NEW i \in S PROVE P[k[i]] = v[i]
  <2>1. i \in 1..n /\ Key(F[i]) = k[i]
    BY <1>9, <1>11
  <2>2. \A h \in S : Key(F[h]) = k[i] => h = i
    BY <1>9, <1>10, <1>11, FirstOnesAre
  <2>3. (CHOOSE h \in S : Key(F[h]) = k[i]) = i
    BY <2>1, <2>2
  <2>4. k[i] \in {Key(F[h]) : h \in S}
    BY <2>1
  <2>5. P[k[i]] = Value(F[CHOOSE h \in S : Key(F[h]) = k[i]])
    BY <1>14, <2>4
  <2> QED BY <1>9, <2>1, <2>3, <2>5
<1>18. DOMAIN P = {Kept(form[i][1]) : i \in 1..Len(form)}
  BY <1>1, <1>7, <1>16
<1>19. ASSUME NEW i \in 1..Len(form), \A j \in 1..(i - 1) : Kept(form[j][1]) # Kept(form[i][1])
       PROVE  P[Kept(form[i][1])] = Kept(form[i][2])
  <2>1. i \in 1..n /\ \A j \in 1..(i - 1) : j \in 1..n
    BY <1>1
  <2>2. \A j \in 1..(i - 1) : k[j] # k[i]
    BY <1>7, <1>19, <2>1
  <2>3. i \in S
    BY <1>10, <2>1, <2>2 DEF FirstOnes
  <2>4. P[k[i]] = v[i]
    BY <1>17, <2>3
  <2> QED BY <1>7, <1>8, <2>1, <2>4
<1> QED BY <1>6, <1>13, <1>18, <1>19

-----------------------------------------------------------------------------
(* The theorems                                                             *)

LEMMA TextFacts ==
  /\ UrlTexts \subseteq Seq(-128..127) /\ PathTexts \subseteq Seq(Int)
<1>1. Chars \subseteq Int /\ Chars = -128..127
  BY DEF Chars
<1>2. Seq(Chars) \subseteq Seq(Int)
  BY <1>1, SeqMonotonic
<1> QED BY <1>1, <1>2, TextAssumption

\* What UrlEncode (http.hpp) writes with percent codes, UrlDecode reads back, whatever
\* the texts and their lengths, with either treatment of a plus.
THEOREM UrlsAreReadBack == Spec => []UrlsComeBack
<1>1. UrlRoundTrip
  <2>1. ASSUME NEW t \in UrlTexts, NEW b \in BOOLEAN
        PROVE  UrlDecode(UrlEncode(t, FALSE), b) = Kept(t)
    BY TextFacts, DecodeInvertsEncode
  <2> QED BY <2>1 DEF UrlRoundTrip
<1>2. UrlsComeBack
  BY <1>1 DEF UrlsComeBack
<1> QED BY <1>2, PTL

\* Split (http.hpp) gives exactly the runs between the separators, of any texts.
THEOREM SplitGivesRuns == SplitLosesNothing
<1>1. ASSUME NEW t \in PathTexts
      PROVE  LET pieces == Split(t, Slash)
                 starts == Starts(t, Slash)
             IN  /\ Len(pieces) = Cardinality(starts)
                 /\ \A i \in starts : \E last \in i..Len(t) :
                     /\ \A j \in i..last : t[j] # Slash
                     /\ last = Len(t) \/ t[last + 1] = Slash
                     /\ pieces[Cardinality({j \in starts : j <= i})] = SubSeq(t, i, last)
  <2>1. t \in Seq(Int)
    BY TextFacts
  <2>2. PICK f : Split(t, Slash) = f[1] /\ SplitLoop(f, t, Slash)
    BY <2>1, SplitIs
  <2>3. RunsOf(f[1], t, Slash, 1)
    <3>1. 1 \in 1..(Len(t) + 1)
      BY <2>1
    <3> QED BY <2>1, <2>2, <3>1, SplitRuns
  <2>4. Starts(t, Slash) = RunStarts(t, Slash, 1)
    BY DEF Starts, RunStarts
  <2>5. \A i : {j \in Starts(t, Slash) : j <= i} = UpTo(Starts(t, Slash), i)
    BY DEF UpTo
  <2> QED BY <2>2, <2>3, <2>4, <2>5 DEF RunsOf
<1> QED BY <1>1 DEF SplitLosesNothing

\* ValidPath (http.hpp) says of any path whether one of the pieces Split makes of it leaves
\* the base directory.
THEOREM PathsAreJudged == Spec => []PathsStayInside
<1>1. ValidPathStaysInside
  BY TextFacts, ValidPathIs DEF ValidPathStaysInside
<1>2. PathsStayInside
  BY <1>1, SplitGivesRuns DEF PathsStayInside
<1> QED BY <1>2, PTL

\* A plus that UrlDecode (http.hpp) makes a space of stays behind the space: what
\* UrlEncode writes for a space when it writes a plus is not read back.
THEOREM PlusStays == UrlDecode(<<Plus>>, TRUE) = <<Space, Plus>>
<1>1. PICK u : u = <<Plus>>
  OBVIOUS
<1>2. u \in Seq(Int) /\ Len(u) = 1 /\ u[1] = Plus
  BY <1>1 DEF Plus
<1>3. PICK d : d = CHOOSE f : IsDecoding(f, u, TRUE)
  OBVIOUS
<1>4. UrlDecode(u, TRUE) = d[1]
  BY <1>3 DEF UrlDecode, IsDecoding
<1>5. IsDecoding(d, u, TRUE)
  <2>1. \E f : IsDecoding(f, u, TRUE)
    BY <1>2, DecodingExists
  <2> QED BY <1>3, <2>1
<1>6. /\ d[1] = Literal(u[1], TRUE) \o d[2]
      /\ d[2] = <<>>
  <2>1. ~Coded(u, 1)
    BY <1>2 DEF Coded, Plus, Percent
  <2>2. 1 \in 1..(Len(u) + 3) /\ 2 \in 1..(Len(u) + 3) /\ ~(1 > Len(u)) /\ 2 > Len(u) /\ 1 + 1 = 2
    BY <1>2
  <2> QED BY <1>5, <2>1, <2>2 DEF IsDecoding
<1>7. Literal(u[1], TRUE) = <<Space, Plus>>
  BY <1>2 DEF Literal
<1>8. <<Space, Plus>> \in Seq(Int)
  BY DEF Space, Plus
<1>9. <<Space, Plus>> \o <<>> = <<Space, Plus>>
  BY <1>8, ConcatEmptySeq
<1> QED BY <1>1, <1>4, <1>6, <1>7, <1>9

\* A parameter a client has encoded with percent codes is found under its key, first
\* value first, and no other is (ParseHttpLine and SetParam, http.hpp), for every form.
THEOREM QueriesAreRead == Spec => []ParamsComeBack
<1>1. ParamsReadBack
  <2>1. Forms \subseteq FormType
    <3>1. Chars = -128..127
      BY DEF Chars
    <3> QED BY <3>1, TextAssumption DEF FormType
  <2> QED BY <2>1, ParamsAre DEF ParamsReadBack
<1>2. ParamsComeBack
  BY <1>1 DEF ParamsComeBack
<1> QED BY <1>2, PTL
=============================================================================
