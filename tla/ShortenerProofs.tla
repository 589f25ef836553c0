--------------------------- MODULE ShortenerProofs ---------------------------
(***************************************************************************)
(* Proofs about the URL shortener, for any number of threads, urls and     *)
(* slots, any bounds, and any outages and restarts.                        *)
(***************************************************************************)
EXTENDS MCShortener, FiniteSetTheorems, SequenceTheorems, WellFoundedInduction, TLAPS

-----------------------------------------------------------------------------
(* Decode inverts Encode, for every id: no two ids share a code.  Both are  *)
(* loops, here recursive functions; what they compute is proved with the    *)
(* smallest number for which it would be wrong.                             *)

\* The loop of Encode, up to id: the digits of n, the least significant first.
IsDigits(g, id) ==
    g = [n \in 0..id |-> IF n = 0 THEN <<>> ELSE <<Alphabet(n % 62)>> \o g[n \div 62]]

\* The loop of Decode: the value of the first n characters.
IsValue(v, code) ==
    v = [n \in 0..Len(code) |-> IF n = 0 THEN 0 ELSE v[n - 1] * 62 + Val(code[n])]

Chars == 48..122

\* A code of which every character is a digit.
Digital(code) == code \in Seq(Chars) /\ \A i \in 1..Len(code) : Val(code[i]) \in 0..61

LEMMA Smallest ==
  ASSUME NEW T \in SUBSET Nat, T # {}
  PROVE  \E x \in T : \A y \in T : x <= y
<1>1. PICK x \in T : \A y \in T : ~(<<y, x>> \in OpToRel(<, Nat))
  BY NatLessThanWellFounded, WFMin, Zenon
<1>2. \A y \in T : ~(y < x)
  BY <1>1 DEF OpToRel
<1> QED BY <1>2

\* A character of the alphabet stands for the digit it was looked up with.
LEMMA DigitValue ==
  ASSUME NEW n \in Nat
  PROVE  /\ Alphabet(n % 62) \in Chars /\ Val(Alphabet(n % 62)) = n % 62 /\ n % 62 \in 0..61
         /\ n \div 62 \in Nat /\ (n > 0 => n \div 62 < n) /\ (n \div 62) * 62 + (n % 62) = n
<1> DEFINE d == n % 62
<1>1. d \in 0..61
  OBVIOUS
<1>2. n \div 62 \in Nat /\ (n > 0 => n \div 62 < n) /\ (n \div 62) * 62 + (n % 62) = n
  OBVIOUS
<1> HIDE DEF d
<1>3. Alphabet(d) \in Chars /\ Val(Alphabet(d)) = d
  BY <1>1 DEF Alphabet, Val, Chars
<1> QED BY <1>1, <1>2, <1>3 DEF d

-----------------------------------------------------------------------------
(* The two loops of Base62 end                                              *)

LEMMA DigitsExist ==
  ASSUME NEW id \in Nat PROVE \E g : IsDigits(g, id)
<1> DEFINE T == {m \in Nat : ~\E g : IsDigits(g, m)}
<1>1. SUFFICES ASSUME T # {} PROVE FALSE
  OBVIOUS
<1>2. PICK m \in T : \A y \in T : m <= y
  BY <1>1, Smallest
<1>3. CASE m = 0
  <2> DEFINE g == [n \in 0..0 |-> <<>>]
  <2>1. IsDigits(g, 0)
    BY DEF IsDigits
  <2> QED BY <1>2, <1>3, <2>1
<1>4. CASE m # 0
  <2>1. m \in Nat /\ m - 1 \in Nat /\ m - 1 \notin T
    BY <1>2, <1>4
  <2>2. PICK h : IsDigits(h, m - 1)
    BY <2>1
  <2> DEFINE g == [n \in 0..m |-> IF n < m THEN h[n] ELSE <<Alphabet(m % 62)>> \o h[m \div 62]]
             body(n) == IF n = 0 THEN <<>> ELSE <<Alphabet(n % 62)>> \o g[n \div 62]
  <2>3. ASSUME NEW n \in 0..m PROVE g[n] = body(n)
    <3>1. n \in Nat /\ n \div 62 \in Nat /\ (n > 0 => n \div 62 < n)
      BY <2>1, <2>3, DigitValue
    <3>2. n > 0 => n \div 62 \in 0..m /\ g[n \div 62] = h[n \div 62]
      BY <2>1, <2>3, <3>1
    <3>3. CASE n < m
      <4>1. n \in 0..(m - 1)
        BY <2>1, <2>3, <3>3
      <4>2. h[n] = IF n = 0 THEN <<>> ELSE <<Alphabet(n % 62)>> \o h[n \div 62]
        BY <2>2, <4>1 DEF IsDigits
      <4> QED BY <3>1, <3>2, <3>3, <4>2, <2>3
    <3>4. CASE n = m
      BY <1>4, <2>1, <3>1, <3>2, <3>4
    <3> QED BY <2>1, <2>3, <3>3, <3>4
  <2>4. IsDigits(g, m)
    <3>1. g = [n \in 0..m |-> body(n)]
      BY <2>3
    <3> QED BY <3>1 DEF IsDigits
  <2> QED BY <1>2, <2>4
<1> QED BY <1>3, <1>4

LEMMA ValueExists ==
  ASSUME NEW code \in Seq(Int) PROVE \E v : IsValue(v, code)
<1> DEFINE To(v, m) == v = [n \in 0..m |-> IF n = 0 THEN 0 ELSE v[n - 1] * 62 + Val(code[n])]
           T == {m \in Nat : ~\E v : To(v, m)}
<1>1. ASSUME T # {} PROVE FALSE
  <2>2. PICK m \in T : \A y \in T : m <= y
    BY <1>1, Smallest
  <2>3. CASE m = 0
    <3>1. To([n \in 0..0 |-> 0], 0)
      OBVIOUS
    <3> QED BY <2>2, <2>3, <3>1
  <2>4. CASE m # 0
    <3>1. m \in Nat /\ m - 1 \in Nat /\ m - 1 \notin T
      <4>1. m \in Nat
        BY <2>2
      <4> HIDE DEF T
      <4> QED BY <2>2, <2>4, <4>1
    <3>2. PICK h : To(h, m - 1)
      BY <3>1
    <3> DEFINE v == [n \in 0..m |-> IF n < m THEN h[n] ELSE h[m - 1] * 62 + Val(code[m])]
               body(n) == IF n = 0 THEN 0 ELSE v[n - 1] * 62 + Val(code[n])
    <3>3. ASSUME NEW n \in 0..m PROVE v[n] = body(n)
      <4>1. n > 0 => n - 1 \in 0..m /\ v[n - 1] = h[n - 1]
        BY <3>1, <3>3
      <4>2. CASE n < m
        <5>1. n \in 0..(m - 1)
          BY <3>1, <3>3, <4>2
        <5>2. h[n] = IF n = 0 THEN 0 ELSE h[n - 1] * 62 + Val(code[n])
          BY <3>2, <5>1
        <5> QED BY <3>3, <4>1, <4>2, <5>2
      <4>3. CASE n = m
        BY <2>4, <3>1, <4>1, <4>3
      <4> QED BY <3>1, <3>3, <4>2, <4>3
    <3>4. v = [n \in 0..m |-> body(n)]
      BY <3>3
    <3>5. To(v, m)
      BY <3>4
    <3> QED BY <2>2, <3>5
  <2> QED BY <2>3, <2>4
<1>2. Len(code) \in Nat /\ Len(code) \notin T
  BY <1>1
<1>3. \E v : To(v, Len(code))
  BY <1>2
<1> QED BY <1>3 DEF IsValue

-----------------------------------------------------------------------------
(* One more character                                                       *)

\* push_back and reverse are a character in front of the reversed rest.
LEMMA ReverseCons ==
  ASSUME NEW s \in Seq(Chars), NEW a \in Chars
  PROVE  /\ <<a>> \o s \in Seq(Chars) /\ Reverse(s) \in Seq(Chars)
         /\ Reverse(<<a>> \o s) = Append(Reverse(s), a)
<1> DEFINE n == Len(s)
           t == <<a>> \o s
<1>1. /\ n \in Nat /\ t \in Seq(Chars) /\ Len(t) = n + 1
      /\ \A i \in 1..(n + 1) : t[i] = IF i = 1 THEN a ELSE s[i - 1]
  <2>1. /\ <<a>> \in Seq(Chars) /\ Len(<<a>>) = 1 /\ <<a>>[1] = a
    OBVIOUS
  <2>2. /\ t \in Seq(Chars) /\ Len(t) = 1 + n
        /\ \A i \in 1..(1 + n) : t[i] = IF i <= 1 THEN <<a>>[i] ELSE s[i - 1]
    BY <2>1, ConcatProperties
  <2> QED BY <2>1, <2>2
<1>2. /\ Reverse(s) \in Seq(Chars) /\ Len(Reverse(s)) = n
      /\ \A i \in 1..n : Reverse(s)[i] = s[n - i + 1]
  <2>1. \A i \in 1..n : (n - i) + 1 \in 1..n /\ s[(n - i) + 1] \in Chars
    OBVIOUS
  <2> QED BY <1>1, <2>1 DEF Reverse
<1> HIDE DEF t
<1>3. /\ Reverse(t) \in Seq(Chars) /\ Len(Reverse(t)) = n + 1
      /\ \A i \in 1..(n + 1) : Reverse(t)[i] = t[(n + 1) - i + 1]
  <2>1. \A i \in 1..(n + 1) : ((n + 1) - i) + 1 \in 1..(n + 1) /\ t[((n + 1) - i) + 1] \in Chars
    BY <1>1
  <2> QED BY <1>1, <2>1 DEF Reverse
<1> DEFINE r == Append(Reverse(s), a)
<1> HIDE DEF n
<1>4. /\ r \in Seq(Chars) /\ Len(r) = n + 1
      /\ \A i \in 1..(n + 1) : r[i] = IF i <= n THEN Reverse(s)[i] ELSE a
  BY <1>2, AppendProperties
<1>5. ASSUME NEW i \in 1..(n + 1) PROVE Reverse(t)[i] = r[i]
  <2>1. Reverse(t)[i] = t[(n + 1) - i + 1] /\ (n + 1) - i + 1 \in 1..(n + 1)
    BY <1>1, <1>3
  <2>2. CASE i = n + 1
    BY <1>1, <1>4, <2>1, <2>2
  <2>3. CASE i # n + 1
    <3>1. i \in 1..n /\ (n + 1) - i + 1 # 1 /\ ((n + 1) - i + 1) - 1 = n - i + 1
      BY <1>1, <2>3
    <3>2. Reverse(t)[i] = s[n - i + 1]
      BY <1>1, <2>1, <3>1
    <3> QED BY <1>1, <1>2, <1>4, <3>1, <3>2
  <2> QED BY <2>2, <2>3
<1>6. Reverse(t) = r
  <2> HIDE DEF r
  <2> QED BY <1>3, <1>4, <1>5, SeqEqual
<1> QED BY <1>1, <1>2, <1>6 DEF t

\* A last character shifts the value by one digit.
LEMMA ValueAppend ==
  ASSUME NEW c \in Seq(Chars), NEW a \in Chars,
         NEW v, IsValue(v, c), NEW w, IsValue(w, Append(c, a))
  PROVE  w[Len(Append(c, a))] = v[Len(c)] * 62 + Val(a)
<1> DEFINE n == Len(c)
           e == Append(c, a)
<1>1. /\ n \in Nat /\ Len(e) = n + 1 /\ e[n + 1] = a
      /\ \A i \in 1..n : e[i] = c[i]
  BY AppendProperties
<1> HIDE DEF e
<1>2. /\ \A i \in 0..n : v[i] = IF i = 0 THEN 0 ELSE v[i - 1] * 62 + Val(c[i])
      /\ \A i \in 0..(n + 1) : w[i] = IF i = 0 THEN 0 ELSE w[i - 1] * 62 + Val(e[i])
  BY <1>1 DEF IsValue, e
<1> HIDE DEF n
<1> DEFINE T == {i \in 0..n : w[i] # v[i]}
<1>3. ASSUME T # {} PROVE FALSE
  <2>1. T \subseteq Nat
    OBVIOUS
  <2>2. PICK i \in T : \A j \in T : i <= j
    BY <1>3, <2>1, Smallest
  <2>3. i \in 0..n /\ i \in 0..(n + 1) /\ w[i] # v[i]
    BY <1>1, <2>2
  <2>4. i # 0
    BY <1>2, <2>3
  <2>5. i - 1 \in 0..n /\ i - 1 \notin T /\ e[i] = c[i]
    BY <1>1, <2>2, <2>3, <2>4
  <2>6. w[i - 1] = v[i - 1]
    BY <2>5
  <2> QED BY <1>2, <2>3, <2>4, <2>5, <2>6
<1>4. w[n] = v[n]
  BY <1>1, <1>3
<1>5. n + 1 \in 0..(n + 1) /\ n + 1 # 0 /\ (n + 1) - 1 = n
  BY <1>1
<1>6. w[n + 1] = w[n] * 62 + Val(a)
  BY <1>1, <1>2, <1>5
<1> QED BY <1>1, <1>4, <1>6 DEF n, e

-----------------------------------------------------------------------------
\* The digits Encode finds are those of n, whatever the id it began with.
LEMMA DigitsRight ==
  ASSUME NEW id \in Nat, NEW g, IsDigits(g, id), NEW k \in 0..id
  PROVE  /\ g[k] \in Seq(Chars) /\ Digital(Reverse(g[k]))
         /\ \A v : IsValue(v, Reverse(g[k])) => v[Len(Reverse(g[k]))] = k
<1> DEFINE Right(m) == /\ g[m] \in Seq(Chars) /\ Digital(Reverse(g[m]))
                       /\ \A v : IsValue(v, Reverse(g[m])) => v[Len(Reverse(g[m]))] = m
           T == {m \in 0..id : ~Right(m)}
<1>1. SUFFICES ASSUME T # {} PROVE FALSE
  OBVIOUS
<1>2. T \subseteq Nat
  OBVIOUS
<1>3. PICK m \in T : \A y \in T : m <= y
  BY <1>1, <1>2, Smallest
<1>4. \A n \in 0..id : g[n] = IF n = 0 THEN <<>> ELSE <<Alphabet(n % 62)>> \o g[n \div 62]
  BY DEF IsDigits
<1>5. CASE m = 0
  <2>1. g[m] = <<>> /\ 0 \in 0..id
    BY <1>3, <1>4, <1>5
  <2>2. Reverse(g[m]) = <<>> /\ Len(<<>>) = 0 /\ <<>> \in Seq(Chars)
    BY <2>1 DEF Reverse
  <2>3. ASSUME NEW v, IsValue(v, <<>>) PROVE v[0] = 0
    <3>1. 0 \in 0..Len(<<>>)
      BY <2>2
    <3> QED BY <2>3, <3>1 DEF IsValue
  <2>4. Digital(<<>>)
    BY <2>2 DEF Digital
  <2>5. Right(m)
    <3>1. Reverse(g[m]) = <<>> /\ g[m] \in Seq(Chars) /\ Len(Reverse(g[m])) = 0
      BY <2>1, <2>2
    <3> QED BY <1>5, <2>3, <2>4, <3>1
  <2> QED BY <1>3, <2>5
<1>6. CASE m # 0
  <2> DEFINE q == m \div 62
             a == Alphabet(m % 62)
  <2>1. /\ m \in 0..id /\ m \in Nat /\ q \in Nat /\ q < m /\ q * 62 + (m % 62) = m
        /\ a \in Chars /\ Val(a) = m % 62 /\ m % 62 \in 0..61
    BY <1>3, <1>6, DigitValue
  <2>2. g[m] = <<a>> \o g[q]
    BY <1>4, <1>6, <2>1
  <2>3. Right(q)
    <3>1. q \in 0..id /\ q \notin T
      BY <1>3, <2>1
    <3> QED BY <3>1
  <2> HIDE DEF q, a
  <2> DEFINE c == Reverse(g[q])
  <2>4. g[m] \in Seq(Chars) /\ Reverse(g[m]) = Append(c, a) /\ c \in Seq(Chars)
    BY <2>1, <2>2, <2>3, ReverseCons
  <2>5. Digital(Append(c, a))
    <3>1. Digital(c)
      BY <2>3
    <3> HIDE DEF c
    <3>2. /\ Append(c, a) \in Seq(Chars) /\ Len(Append(c, a)) = Len(c) + 1 /\ Len(c) \in Nat
          /\ \A i \in 1..(Len(c) + 1) : Append(c, a)[i] = IF i <= Len(c) THEN c[i] ELSE a
      BY <2>1, <2>4, AppendProperties
    <3>3. Val(a) \in 0..61
      BY <2>1
    <3>4. ASSUME NEW i \in 1..Len(Append(c, a)) PROVE Val(Append(c, a)[i]) \in 0..61
      <4>1. CASE i <= Len(c)
        <5>1. i \in 1..Len(c) /\ Append(c, a)[i] = c[i]
          BY <3>2, <3>4, <4>1
        <5> QED BY <3>1, <5>1 DEF Digital
      <4>2. CASE ~(i <= Len(c))
        BY <3>2, <3>3, <3>4, <4>2
      <4> QED BY <4>1, <4>2
    <3> QED BY <3>2, <3>4 DEF Digital
  <2>6. ASSUME NEW w, IsValue(w, Append(c, a)) PROVE w[Len(Append(c, a))] = m
    <3>1. c \in Seq(Int)
      <4>1. Chars \subseteq Int
        BY DEF Chars
      <4> HIDE DEF c
      <4> QED BY <2>4, <4>1, SeqMonotonic
    <3>2. PICK v : IsValue(v, c)
      BY <3>1, ValueExists
    <3>3. v[Len(c)] = q
      BY <2>3, <3>2
    <3>4. w[Len(Append(c, a))] = v[Len(c)] * 62 + Val(a)
      <4> HIDE DEF c
      <4> QED BY <2>1, <2>4, <2>6, <3>2, ValueAppend
    <3>5. w[Len(Append(c, a))] = q * 62 + (m % 62)
      BY <2>1, <3>3, <3>4
    <3> QED BY <2>1, <3>5
  <2>7. Right(m)
    BY <2>4, <2>5, <2>6
  <2> QED BY <1>3, <2>7
<1> QED BY <1>5, <1>6

\* A code says which id it was made from, and is made of digits only: ApiShorten
\* (shortener.cc) never answers two ids with one code, and Redirect's route accepts
\* every one of them (base62.hpp).
THEOREM DecodeInvertsEncode ==
  ASSUME NEW id \in Nat
  PROVE  Digital(Encode(id)) /\ Decode(Encode(id)) = id
<1> DEFINE code == Encode(id)
<1>1. Digital(code) /\ \A v : IsValue(v, code) => v[Len(code)] = id
  <2>1. CASE id = 0
    <3>1. code = <<48>>
      BY <2>1 DEF Encode
    <3>2. Digital(<<48>>)
      <4>1. <<48>> \in Seq(Chars) /\ Len(<<48>>) = 1 /\ <<48>>[1] = 48
        BY DEF Chars
      <4> QED BY <4>1 DEF Digital, Val
    <3>3. ASSUME NEW v, NEW zero, zero = << 48 >>, IsValue(v, zero) PROVE v[Len(zero)] = 0
      <4>1. Len(zero) = 1 /\ zero[1] = 48 /\ Val(48) = 0
        BY <3>3 DEF Val
      <4>2. v[0] = 0 /\ v[1] = v[0] * 62 + Val(48)
        BY <3>3, <4>1 DEF IsValue
      <4> QED BY <4>1, <4>2
    <3> QED BY <2>1, <3>1, <3>2, <3>3
  <2>2. CASE id # 0
    <3> DEFINE g == CHOOSE digits : IsDigits(digits, id)
    <3>1. code = Reverse(g[id])
      BY <2>2 DEF Encode, IsDigits
    <3>2. IsDigits(g, id)
      BY DigitsExist
    <3> HIDE DEF g, code
    <3>3. id \in 0..id
      OBVIOUS
    <3> QED BY <3>1, <3>2, <3>3, DigitsRight
  <2> QED BY <2>1, <2>2
<1> HIDE DEF code
<1>2. ~\E i \in 1..Len(code) : Val(code[i]) = -1
  <2>1. \A i \in 1..Len(code) : Val(code[i]) \in 0..61
    BY <1>1 DEF Digital
  <2>2. -1 \notin 0..61
    OBVIOUS
  <2> QED BY <2>1, <2>2
<1> DEFINE v == CHOOSE value : IsValue(value, code)
<1>3. Decode(code) = v[Len(code)]
  BY <1>2 DEF Decode, IsValue
<1>4. IsValue(v, code)
  <2>1. code \in Seq(Int)
    <3>1. code \in Seq(Chars) /\ Chars \subseteq Int
      BY <1>1 DEF Digital, Chars
    <3> QED BY <3>1, SeqMonotonic
  <2> QED BY <2>1, ValueExists
<1> HIDE DEF v
<1>5. Decode(code) = id
  BY <1>1, <1>3, <1>4
<1> QED BY <1>1, <1>5 DEF code

-----------------------------------------------------------------------------
(* The inductive invariant                                                  *)

\* Where an io thread may still use up an id, holds a MySQL connection, holds a
\* Redis connection, has a row, and has tried to give the row its code.
Asking == {"acquire", "ping", "insert"}
Holding == {"ping", "insert", "failed", "update", "release"}
RedisHolding == {"setting", "getting"}
Numbered == {"update", "release", "set", "setting"}
Updated == {"release", "set", "setting"}

In(places) == {t \in IoThreads : io[t].at \in places}

Tmp == [kind : {"tmp"}, pid : Pids, seq : Nat]

Calls == [at : IoPlaces, url : Urls \cup {NoUrl}, conn : Int, id : Int,
          code : Codes \cup {<<>>}]
Work == [at : {"top", "query", "set", "setting"}, code : Codes \cup {<<>>},
         url : Urls \cup {NoUrl}, conn : Int]

Servers == up \in BOOLEAN /\ epoch \in Nat /\ pid \in Pids /\ life \in Nat /\ seq \in Nat

\* A row has the code of its id, or a placeholder; a placeholder of this life is
\* an earlier one than the next; no code is there twice.
TableSound ==
    /\ nextId \in Nat \ {0} /\ DOMAIN table \subseteq 1..(nextId - 1)
    /\ \A id \in DOMAIN table :
        /\ table[id] \in [code : {Text(id)} \cup Tmp, url : Urls, life : 0..life]
        /\ table[id].code \in Tmp /\ table[id].life = life => table[id].code.seq <= seq
    /\ \A id, other \in DOMAIN table : table[id].code = table[other].code => id = other

\* There is an id left for every call that may still use one up.
IdsLeft == nextId + Cardinality(In(Asking)) <= MaxId + 1

RightFor(code, url) == Decode(code) \in DOMAIN table /\ table[Decode(code)].url = url

Stored(id) == id \in unstored \/ table[id].code = Text(id)

\* What a call knows of its row, at every statement where it still needs it.
ThreadSound(t) ==
    /\ io[t].conn \in 0..epoch \cup {NoConn}
    /\ io[t].at \in Asking => io[t].url \in Urls
    /\ io[t].at \in Holding => io[t].conn \in 0..epoch
    /\ io[t].at \in Numbered => /\ io[t].id \in DOMAIN table
                                /\ table[io[t].id].url = io[t].url
                                /\ io[t].code = Encode(io[t].id)
    /\ io[t].at \in Updated => Stored(io[t].id)
    /\ io[t].at \in {"get", "getting"} => io[t].code \in Codes

Threads == io \in [IoThreads -> Calls] /\ \A t \in IoThreads : ThreadSound(t)

WorkerSound ==
    /\ worker \in Work /\ worker.conn \in 0..epoch \cup {NoConn}
    /\ worker.at # "top" => worker.code \in Codes
    /\ worker.at \in {"set", "setting"} => RightFor(worker.code, worker.url)

Pools ==
    /\ mysqls \in Seq(0..epoch) /\ queries \in Seq(Codes)
    /\ lost \in Nat /\ redisIdle \in Nat
    /\ Len(mysqls) + lost + Cardinality(In(Holding)) = PoolSize
    /\ redisIdle + Cardinality(In(RedisHolding)) + (IF worker.at = "setting" THEN 1 ELSE 0)
          = RedisSize

\* What was answered or cached is a row, and an answer's row has its code.
Kept ==
    /\ DOMAIN cache \subseteq Codes
    /\ \A c \in DOMAIN cache : cache[c] \in Urls /\ RightFor(c, cache[c])
    /\ answered \subseteq Codes \X Urls
    /\ \A a \in answered : RightFor(a[1], a[2]) /\ Stored(Decode(a[1]))

IInv == /\ Servers /\ TableSound /\ IdsLeft /\ Threads /\ WorkerSound /\ Pools /\ Kept

-----------------------------------------------------------------------------
(* Codes                                                                    *)

LEMMA TextFacts ==
  ASSUME NEW id \in Nat
  PROVE  /\ Text(id) \notin Tmp /\ Text(id).text = Encode(id) /\ Text(id).kind = "code"
         /\ Decode(Encode(id)) = id
         /\ \A other \in Nat : Text(id) = Text(other) => id = other
<1>1. /\ Text(id).text = Encode(id) /\ Text(id).kind = "code"
      /\ \A other \in Nat : Text(other).text = Encode(other)
  BY DEF Text
<1>2. \A x \in Tmp : x.kind = "tmp"
  BY DEF Tmp
<1>3. Text(id) \notin Tmp
  BY <1>1, <1>2
<1>4. \A other \in Nat : Decode(Encode(other)) = other
  BY DecodeInvertsEncode
<1>5. ASSUME NEW other \in Nat, Text(id) = Text(other) PROVE id = other
  BY <1>1, <1>4, <1>5
<1> QED BY <1>1, <1>3, <1>4, <1>5

\* The rows a code belongs to are its own.
LEMMA RowFacts ==
  ASSUME IInv, NEW id \in DOMAIN table
  PROVE  /\ id \in Nat /\ id \in 1..MaxId /\ Encode(id) \in Codes /\ table[id].url \in Urls
         /\ table[id].code \in {Text(id)} \cup Tmp
         /\ RowsWith(table[id].code) = {id}
<1>1. /\ nextId \in Nat /\ MaxId \in Nat /\ DOMAIN table \subseteq 1..(nextId - 1)
      /\ nextId + Cardinality(In(Asking)) <= MaxId + 1
      /\ table[id] \in [code : {Text(id)} \cup Tmp, url : Urls, life : 0..life]
      /\ \A x, y \in DOMAIN table : table[x].code = table[y].code => x = y
  BY ShortenerAssumption DEF IInv, TableSound, IdsLeft
<1>2. Cardinality(In(Asking)) \in Nat
  <2>1. IsFiniteSet(In(Asking))
    BY FS_Subset, ShortenerAssumption DEF In
  <2> QED BY <2>1, FS_CardinalityType
<1>3. id \in Nat /\ id \in 1..MaxId
  BY <1>1, <1>2
<1>4. RowsWith(table[id].code) = {id}
  BY <1>1 DEF RowsWith
<1> QED BY <1>1, <1>3, <1>4 DEF Codes

-----------------------------------------------------------------------------
(* One io thread moves                                                      *)

Moved(t) == io' \in [IoThreads -> Calls] /\ \A u \in IoThreads \ {t} : io'[u] = io[u]

\* The forms in which the operations change what a thread does.
LEMMA GoMoves ==
  ASSUME IInv, NEW t \in IoThreads, NEW a \in IoPlaces, Go(t, a)
  PROVE  /\ Moved(t) /\ io'[t].at = a /\ io'[t].url = io[t].url /\ io'[t].conn = io[t].conn
         /\ io'[t].id = io[t].id /\ io'[t].code = io[t].code
<1>1. io \in [IoThreads -> Calls]
  BY DEF IInv, Threads
<1>2. io' = [io EXCEPT ![t].at = a]
  BY DEF Go
<1>3. io'[t] = [io[t] EXCEPT !.at = a] /\ io[t] \in Calls
  BY <1>1, <1>2
<1>4. /\ io'[t] \in Calls /\ io'[t].at = a /\ io'[t].url = io[t].url
      /\ io'[t].conn = io[t].conn /\ io'[t].id = io[t].id /\ io'[t].code = io[t].code
  BY <1>3 DEF Calls
<1> QED BY <1>1, <1>2, <1>4 DEF Moved

LEMMA ReturnMoves ==
  ASSUME IInv, NEW t \in IoThreads, Return(t)
  PROVE  Moved(t) /\ io'[t].at = "idle" /\ io'[t].conn = NoConn
<1>1. io \in [IoThreads -> Calls] /\ io' = [io EXCEPT ![t] = Idle]
  BY DEF IInv, Threads, Return
<1>2. Idle \in Calls /\ Idle.at = "idle" /\ Idle.conn = NoConn
  BY DEF Idle, Calls, IoPlaces, NoConn
<1> QED BY <1>1, <1>2 DEF Moved

\* How many threads are in certain places.
LEMMA Count ==
  ASSUME io \in [IoThreads -> Calls], NEW t \in IoThreads, Moved(t), NEW P
  PROVE  /\ Cardinality(In(P)) \in Nat /\ Cardinality(In(P)') \in Nat
         /\ io[t].at \in P => Cardinality(In(P)) >= 1
         /\ (io[t].at \in P <=> io'[t].at \in P) => Cardinality(In(P)') = Cardinality(In(P))
         /\ io[t].at \in P /\ io'[t].at \notin P => Cardinality(In(P)') = Cardinality(In(P)) - 1
         /\ io[t].at \notin P /\ io'[t].at \in P => Cardinality(In(P)') = Cardinality(In(P)) + 1
<1>1. In(P) \subseteq IoThreads /\ In(P)' \subseteq IoThreads
  BY DEF In
<1>2. IsFiniteSet(In(P)) /\ IsFiniteSet(In(P)')
  BY <1>1, FS_Subset, ShortenerAssumption
<1>3. Cardinality(In(P)) \in Nat /\ Cardinality(In(P)') \in Nat
  BY <1>2, FS_CardinalityType
<1>4. t \in In(P) <=> io[t].at \in P
  BY DEF In
<1>5. t \in In(P)' <=> io'[t].at \in P
  BY DEF In
<1>6. \A u \in IoThreads \ {t} : u \in In(P)' <=> u \in In(P)
  BY DEF In, Moved
<1>7. t \in In(P) => Cardinality(In(P) \ {t}) = Cardinality(In(P)) - 1
                      /\ Cardinality(In(P) \ {t}) \in Nat
  BY <1>2, FS_RemoveElement, FS_CardinalityType
<1>8. t \notin In(P) => Cardinality(In(P) \cup {t}) = Cardinality(In(P)) + 1
  BY <1>2, FS_AddElement
<1>9. CASE io[t].at \in P <=> io'[t].at \in P
  <2>1. In(P)' = In(P)
    BY <1>1, <1>4, <1>5, <1>6, <1>9
  <2> QED BY <1>3, <1>4, <1>7, <1>9, <2>1
<1>10. CASE io[t].at \in P /\ io'[t].at \notin P
  <2>1. In(P)' = In(P) \ {t}
    BY <1>1, <1>4, <1>5, <1>6, <1>10
  <2> QED BY <1>3, <1>4, <1>7, <1>10, <2>1
<1>11. CASE io[t].at \notin P /\ io'[t].at \in P
  <2>1. In(P)' = In(P) \cup {t}
    BY <1>1, <1>4, <1>5, <1>6, <1>11
  <2> QED BY <1>3, <1>4, <1>8, <1>11, <2>1
<1> QED BY <1>9, <1>10, <1>11

\* The table keeps its rows and the codes that are set.
Grows ==
    /\ epoch' \in Nat /\ epoch <= epoch' /\ unstored \subseteq unstored'
    /\ \A id \in DOMAIN table :
        /\ id \in DOMAIN table' /\ table'[id].url = table[id].url
        /\ table[id].code = Text(id) => table'[id].code = Text(id)

LEMMA ThreadsGrow ==
  ASSUME IInv, Grows, NEW t \in IoThreads, Moved(t), ThreadSound(t)'
  PROVE  Threads'
<1>1. ASSUME NEW u \in IoThreads \ {t} PROVE ThreadSound(u)'
  <2>1. io'[u] = io[u] /\ ThreadSound(u) /\ epoch \in Nat
    BY DEF IInv, Threads, Servers, Moved
  <2>2. Stored(io[u].id) /\ io[u].id \in DOMAIN table => Stored(io[u].id)'
    BY <2>1 DEF Grows, Stored
  <2>3. io[u].at \in Updated => io[u].at \in Numbered
    BY DEF Updated, Numbered
  <2> QED BY <2>1, <2>2, <2>3 DEF ThreadSound, Grows
<1> QED BY <1>1 DEF Threads, Moved

LEMMA StillKept ==
  ASSUME IInv, Grows, UNCHANGED <<cache, answered>>
  PROVE  Kept'
<1>1. \A c \in DOMAIN cache : RightFor(c, cache[c])'
  BY DEF IInv, Kept, Grows, RightFor
<1>2. ASSUME NEW a \in answered PROVE RightFor(a[1], a[2])' /\ Stored(Decode(a[1]))'
  BY DEF IInv, Kept, Grows, RightFor, Stored
<1> QED BY <1>1, <1>2 DEF IInv, Kept

LEMMA WorkerStays ==
  ASSUME IInv, Grows, UNCHANGED worker
  PROVE  WorkerSound'
<1>1. worker.at \in {"set", "setting"} => RightFor(worker.code, worker.url)'
  BY DEF IInv, WorkerSound, Grows, RightFor
<1> QED BY <1>1 DEF IInv, WorkerSound, Grows, Servers

\* A thread that only takes or gives back connections.
LEMMA QuietStep ==
  ASSUME IInv, NEW t \in IoThreads, Moved(t), ThreadSound(t)',
         UNCHANGED <<server, table, nextId, cache, process, seq, worker, history>>
  PROVE  /\ Servers' /\ TableSound' /\ Threads' /\ WorkerSound' /\ Kept'
<1>1. UNCHANGED <<up, epoch, table, nextId, cache, pid, life, seq, worker, answered, unstored>>
  BY DEF server, process, history
<1>2. Grows
  BY <1>1 DEF Grows, IInv, Servers
<1>3. Servers' /\ TableSound'
  BY <1>1 DEF IInv, Servers, TableSound
<1> QED BY <1>1, <1>2, <1>3, ThreadsGrow, StillKept, WorkerStays

LEMMA CountNow ==
  ASSUME NEW t \in IoThreads, NEW P, io[t].at \in P
  PROVE  Cardinality(In(P)) \in Nat /\ Cardinality(In(P)) >= 1
<1>1. IsFiniteSet(In(P))
  BY FS_Subset, ShortenerAssumption DEF In
<1>2. t \in In(P)
  BY DEF In
<1>3. Cardinality(In(P) \ {t}) = Cardinality(In(P)) - 1 /\ IsFiniteSet(In(P) \ {t})
  BY <1>1, <1>2, FS_RemoveElement
<1>4. Cardinality(In(P)) \in Nat /\ Cardinality(In(P) \ {t}) \in Nat
  BY <1>1, <1>3, FS_CardinalityType
<1> QED BY <1>3, <1>4

LEMMA AsksNoMore ==
  ASSUME IInv, NEW t \in IoThreads, Moved(t), io'[t].at \in Asking => io[t].at \in Asking,
         nextId' = nextId
  PROVE  IdsLeft'
<1>1. /\ Cardinality(In(Asking)) \in Nat /\ Cardinality(In(Asking)') \in Nat
      /\ Cardinality(In(Asking)') <= Cardinality(In(Asking))
  BY Count DEF IInv, Threads
<1> QED BY <1>1, ShortenerAssumption DEF IInv, IdsLeft, TableSound

\* The counts of the two pools when one thread moves.
LEMMA Slots ==
  ASSUME IInv, NEW t \in IoThreads, Moved(t)
  PROVE  /\ Cardinality(In(Holding)) \in Nat /\ Cardinality(In(Holding)') \in Nat
         /\ (io[t].at \in Holding <=> io'[t].at \in Holding)
              => Cardinality(In(Holding)') = Cardinality(In(Holding))
         /\ io[t].at \in Holding /\ io'[t].at \notin Holding
              => Cardinality(In(Holding)') = Cardinality(In(Holding)) - 1
         /\ io[t].at \notin Holding /\ io'[t].at \in Holding
              => Cardinality(In(Holding)') = Cardinality(In(Holding)) + 1
         /\ Cardinality(In(RedisHolding)) \in Nat /\ Cardinality(In(RedisHolding)') \in Nat
         /\ (io[t].at \in RedisHolding <=> io'[t].at \in RedisHolding)
              => Cardinality(In(RedisHolding)') = Cardinality(In(RedisHolding))
         /\ io[t].at \in RedisHolding /\ io'[t].at \notin RedisHolding
              => Cardinality(In(RedisHolding)') = Cardinality(In(RedisHolding)) - 1
         /\ io[t].at \notin RedisHolding /\ io'[t].at \in RedisHolding
              => Cardinality(In(RedisHolding)') = Cardinality(In(RedisHolding)) + 1
<1>1. io \in [IoThreads -> Calls]
  BY DEF IInv, Threads
<1>2. /\ Cardinality(In(Holding)) \in Nat /\ Cardinality(In(Holding)') \in Nat
      /\ (io[t].at \in Holding <=> io'[t].at \in Holding)
           => Cardinality(In(Holding)') = Cardinality(In(Holding))
      /\ io[t].at \in Holding /\ io'[t].at \notin Holding
           => Cardinality(In(Holding)') = Cardinality(In(Holding)) - 1
      /\ io[t].at \notin Holding /\ io'[t].at \in Holding
           => Cardinality(In(Holding)') = Cardinality(In(Holding)) + 1
  BY <1>1, Count
<1>3. /\ Cardinality(In(RedisHolding)) \in Nat /\ Cardinality(In(RedisHolding)') \in Nat
      /\ (io[t].at \in RedisHolding <=> io'[t].at \in RedisHolding)
           => Cardinality(In(RedisHolding)') = Cardinality(In(RedisHolding))
      /\ io[t].at \in RedisHolding /\ io'[t].at \notin RedisHolding
           => Cardinality(In(RedisHolding)') = Cardinality(In(RedisHolding)) - 1
      /\ io[t].at \notin RedisHolding /\ io'[t].at \in RedisHolding
           => Cardinality(In(RedisHolding)') = Cardinality(In(RedisHolding)) + 1
  BY <1>1, Count
<1> QED BY <1>2, <1>3

LEMMA Connections ==
  ASSUME IInv
  PROVE  /\ io \in [IoThreads -> Calls] /\ \A t \in IoThreads : io[t] \in Calls /\ ThreadSound(t)
         /\ epoch \in Nat /\ nextId \in Nat \ {0}
         /\ mysqls \in Seq(0..epoch) /\ Len(mysqls) \in Nat /\ queries \in Seq(Codes)
         /\ mysqls # <<>> => /\ Head(mysqls) \in 0..epoch /\ Tail(mysqls) \in Seq(0..epoch)
                             /\ Len(Tail(mysqls)) = Len(mysqls) - 1
         /\ \A c \in 0..epoch : /\ Append(mysqls, c) \in Seq(0..epoch)
                                /\ Len(Append(mysqls, c)) = Len(mysqls) + 1
         /\ lost \in Nat /\ redisIdle \in Nat /\ {PoolSize, RedisSize} \subseteq Nat
<1>1. /\ io \in [IoThreads -> Calls] /\ \A t \in IoThreads : io[t] \in Calls /\ ThreadSound(t)
      /\ epoch \in Nat /\ nextId \in Nat \ {0} /\ lost \in Nat /\ redisIdle \in Nat
      /\ mysqls \in Seq(0..epoch) /\ queries \in Seq(Codes)
  BY DEF IInv, Threads, Servers, TableSound, Pools
<1>2. Len(mysqls) \in Nat
  BY <1>1, LenProperties
<1>3. mysqls # <<>> => /\ Head(mysqls) \in 0..epoch /\ Tail(mysqls) \in Seq(0..epoch)
                       /\ Len(Tail(mysqls)) = Len(mysqls) - 1
  BY <1>1, HeadTailProperties
<1>4. \A c \in 0..epoch : /\ Append(mysqls, c) \in Seq(0..epoch)
                          /\ Len(Append(mysqls, c)) = Len(mysqls) + 1
  BY <1>1, AppendProperties
<1> QED BY <1>1, <1>2, <1>3, <1>4, ShortenerAssumption

-----------------------------------------------------------------------------
(* ApiShorten                                                               *)

LEMMA ShortenKeeps ==
  ASSUME IInv, NEW t \in IoThreads, NEW u \in Urls, Shorten(t, u)
  PROVE  IInv'
<1>1. io' = [io EXCEPT ![t].at = "acquire", ![t].url = u] /\ io[t].at = "idle"
  BY DEF Shorten, At
<1>2. /\ Moved(t) /\ io'[t].at = "acquire" /\ io'[t].url = u /\ io'[t].conn = io[t].conn
  <2>1. io'[t] = [io[t] EXCEPT !.at = "acquire", !.url = u] /\ io[t] \in Calls
    BY <1>1, Connections
  <2>2. /\ io'[t] \in Calls /\ io'[t].at = "acquire" /\ io'[t].url = u
        /\ io'[t].conn = io[t].conn
    BY <2>1 DEF Calls, IoPlaces
  <2> QED BY <1>1, <2>2, Connections DEF Moved
<1>3. UNCHANGED <<server, table, nextId, cache, process, seq, mysqls, lost, redisIdle,
                   queries, worker, history>>
  BY DEF Shorten
<1>4. ThreadSound(t)'
  BY <1>2, <1>3, Connections DEF ThreadSound, Asking, Holding, Numbered, Updated, server
<1>5. Servers' /\ TableSound' /\ Threads' /\ WorkerSound' /\ Kept'
  BY <1>2, <1>3, <1>4, QuietStep
<1>6. IdsLeft'
  <2>1. nextId + Cardinality(In(Asking)) <= MaxId
    BY DEF Shorten, In, Asking
  <2>2. /\ Cardinality(In(Asking)) \in Nat
        /\ Cardinality(In(Asking)') = Cardinality(In(Asking)) + 1
    BY <1>1, <1>2, Count, Connections DEF Asking
  <2> QED BY <1>3, <2>1, <2>2, Connections, ShortenerAssumption DEF IdsLeft
<1>7. Pools'
  BY <1>1, <1>2, <1>3, Slots DEF IInv, Pools, Holding, RedisHolding, server
<1> QED BY <1>5, <1>6, <1>7 DEF IInv

LEMMA AcquireMysqlKeeps ==
  ASSUME IInv, NEW t \in IoThreads, AcquireMysql(t)
  PROVE  IInv'
<1>1. /\ io' = [io EXCEPT ![t].at = "ping", ![t].conn = Head(mysqls)] /\ io[t].at = "acquire"
      /\ mysqls # <<>> /\ mysqls' = Tail(mysqls)
  BY DEF AcquireMysql, At
<1>2. /\ Moved(t) /\ io'[t].at = "ping" /\ io'[t].url = io[t].url
      /\ io'[t].conn = Head(mysqls)
  <2>1. io'[t] = [io[t] EXCEPT !.at = "ping", !.conn = Head(mysqls)] /\ io[t] \in Calls
    BY <1>1, Connections
  <2>2. Head(mysqls) \in Int
    BY <1>1, Connections
  <2>3. /\ io'[t] \in Calls /\ io'[t].at = "ping" /\ io'[t].url = io[t].url
        /\ io'[t].conn = Head(mysqls)
    BY <2>1, <2>2 DEF Calls, IoPlaces
  <2> QED BY <1>1, <2>3, Connections DEF Moved
<1>3. UNCHANGED <<server, table, nextId, cache, process, seq, lost, redisIdle,
                   queries, worker, history>>
  BY DEF AcquireMysql
<1>4. ThreadSound(t)'
  BY <1>1, <1>2, <1>3, Connections DEF ThreadSound, Asking, Holding, Numbered, Updated, server
<1>5. Servers' /\ TableSound' /\ Threads' /\ WorkerSound' /\ Kept'
  BY <1>2, <1>3, <1>4, QuietStep
<1>6. IdsLeft'
  BY <1>1, <1>2, <1>3, AsksNoMore DEF Asking
<1>7. Pools'
  <2>1. Len(mysqls') = Len(mysqls) - 1 /\ mysqls' \in Seq(0..epoch)' /\ Len(mysqls) \in Nat
    BY <1>1, <1>3, Connections DEF server
  <2>2. /\ Cardinality(In(Holding)') = Cardinality(In(Holding)) + 1
        /\ Cardinality(In(Holding)) \in Nat
        /\ Cardinality(In(RedisHolding)') = Cardinality(In(RedisHolding))
    BY <1>1, <1>2, Slots DEF Holding, RedisHolding
  <2> QED BY <1>3, <2>1, <2>2, Connections DEF IInv, Pools
<1> QED BY <1>5, <1>6, <1>7 DEF IInv

LEMMA PingMysqlKeeps ==
  ASSUME IInv, NEW t \in IoThreads, PingMysql(t)
  PROVE  IInv'
<1>1. /\ io[t].at = "ping"
      /\ \/ io' = [io EXCEPT ![t].at = "insert", ![t].conn = epoch] /\ lost' = lost
         \/ Return(t) /\ lost' = lost + 1
  BY DEF PingMysql, At
<1>2. UNCHANGED <<server, table, nextId, cache, process, seq, mysqls, redisIdle,
                   queries, worker, history>>
  BY DEF PingMysql
<1>3. CASE io' = [io EXCEPT ![t].at = "insert", ![t].conn = epoch] /\ lost' = lost
  <2>1. /\ Moved(t) /\ io'[t].at = "insert" /\ io'[t].url = io[t].url
        /\ io'[t].conn = epoch
    <3>1. io'[t] = [io[t] EXCEPT !.at = "insert", !.conn = epoch] /\ io[t] \in Calls
      BY <1>3, Connections
    <3>2. epoch \in Int
      BY Connections
    <3>3. /\ io'[t] \in Calls /\ io'[t].at = "insert" /\ io'[t].url = io[t].url
          /\ io'[t].conn = epoch
      BY <3>1, <3>2 DEF Calls, IoPlaces
    <3> QED BY <1>3, <3>3, Connections DEF Moved
  <2>2. ThreadSound(t)'
    BY <1>1, <1>2, <2>1, Connections DEF ThreadSound, Asking, Holding, Numbered, Updated, server
  <2>3. Servers' /\ TableSound' /\ Threads' /\ WorkerSound' /\ Kept'
    BY <1>2, <2>1, <2>2, QuietStep
  <2>4. IdsLeft'
    BY <1>1, <1>2, <2>1, AsksNoMore DEF Asking
  <2>5. Pools'
    BY <1>1, <1>2, <1>3, <2>1, Slots DEF IInv, Pools, Holding, RedisHolding, server
  <2> QED BY <2>3, <2>4, <2>5 DEF IInv
<1>4. CASE Return(t) /\ lost' = lost + 1
  <2>1. Moved(t) /\ io'[t].at = "idle" /\ io'[t].conn = NoConn
    BY <1>4, ReturnMoves
  <2>2. ThreadSound(t)'
    BY <2>1 DEF ThreadSound, Asking, Holding, Numbered, Updated
  <2>3. Servers' /\ TableSound' /\ Threads' /\ WorkerSound' /\ Kept'
    BY <1>2, <2>1, <2>2, QuietStep
  <2>4. IdsLeft'
    BY <1>1, <1>2, <2>1, AsksNoMore DEF Asking
  <2>5. Pools'
    <3>1. /\ Cardinality(In(Holding)') = Cardinality(In(Holding)) - 1
          /\ Cardinality(In(Holding)) \in Nat
          /\ Cardinality(In(RedisHolding)') = Cardinality(In(RedisHolding))
      BY <1>1, <2>1, Slots DEF Holding, RedisHolding
    <3> QED BY <1>2, <1>4, <3>1, Connections DEF IInv, Pools, server
  <2> QED BY <2>3, <2>4, <2>5 DEF IInv
<1> QED BY <1>1, <1>3, <1>4

LEMMA ReleaseFailedKeeps ==
  ASSUME IInv, NEW t \in IoThreads, ReleaseFailed(t)
  PROVE  IInv'
<1>1. /\ io[t].at = "failed" /\ Return(t) /\ mysqls' = Append(mysqls, io[t].conn)
  BY DEF ReleaseFailed, At
<1>2. UNCHANGED <<server, table, nextId, cache, process, seq, lost, redisIdle,
                   queries, worker, history>>
  BY DEF ReleaseFailed
<1>3. Moved(t) /\ io'[t].at = "idle" /\ io'[t].conn = NoConn
  BY <1>1, ReturnMoves
<1>4. ThreadSound(t)'
  BY <1>3 DEF ThreadSound, Asking, Holding, Numbered, Updated
<1>5. Servers' /\ TableSound' /\ Threads' /\ WorkerSound' /\ Kept'
  BY <1>2, <1>3, <1>4, QuietStep
<1>6. IdsLeft'
  BY <1>1, <1>2, <1>3, AsksNoMore DEF Asking
<1>7. Pools'
  <2>1. io[t].conn \in 0..epoch
    BY <1>1, Connections DEF ThreadSound, Holding
  <2>2. Len(mysqls') = Len(mysqls) + 1 /\ mysqls' \in Seq(0..epoch)' /\ Len(mysqls) \in Nat
    BY <1>1, <1>2, <2>1, Connections DEF server
  <2>3. /\ Cardinality(In(Holding)') = Cardinality(In(Holding)) - 1
        /\ Cardinality(In(Holding)) \in Nat
        /\ Cardinality(In(RedisHolding)') = Cardinality(In(RedisHolding))
    BY <1>1, <1>3, Slots DEF Holding, RedisHolding
  <2> QED BY <1>2, <2>2, <2>3, Connections DEF IInv, Pools
<1> QED BY <1>5, <1>6, <1>7 DEF IInv

LEMMA ReleaseMysqlKeeps ==
  ASSUME IInv, NEW t \in IoThreads, ReleaseMysql(t)
  PROVE  IInv'
<1>1. /\ io[t].at = "release" /\ Go(t, "set") /\ mysqls' = Append(mysqls, io[t].conn)
  BY DEF ReleaseMysql, At
<1>2. UNCHANGED <<server, table, nextId, cache, process, seq, lost, redisIdle,
                   queries, worker, history>>
  BY DEF ReleaseMysql
<1>3. /\ Moved(t) /\ io'[t].at = "set" /\ io'[t].url = io[t].url /\ io'[t].conn = io[t].conn
      /\ io'[t].id = io[t].id /\ io'[t].code = io[t].code
  BY <1>1, GoMoves DEF IoPlaces
<1>4. ThreadSound(t)'
  BY <1>1, <1>2, <1>3, Connections
     DEF ThreadSound, Asking, Holding, Numbered, Updated, Stored, server, history
<1>5. Servers' /\ TableSound' /\ Threads' /\ WorkerSound' /\ Kept'
  BY <1>2, <1>3, <1>4, QuietStep
<1>6. IdsLeft'
  BY <1>1, <1>2, <1>3, AsksNoMore DEF Asking
<1>7. Pools'
  <2>1. io[t].conn \in 0..epoch
    BY <1>1, Connections DEF ThreadSound, Holding
  <2>2. Len(mysqls') = Len(mysqls) + 1 /\ mysqls' \in Seq(0..epoch)' /\ Len(mysqls) \in Nat
    BY <1>1, <1>2, <2>1, Connections DEF server
  <2>3. /\ Cardinality(In(Holding)') = Cardinality(In(Holding)) - 1
        /\ Cardinality(In(Holding)) \in Nat
        /\ Cardinality(In(RedisHolding)') = Cardinality(In(RedisHolding))
    BY <1>1, <1>3, Slots DEF Holding, RedisHolding
  <2> QED BY <1>2, <2>2, <2>3, Connections DEF IInv, Pools
<1> QED BY <1>5, <1>6, <1>7 DEF IInv

LEMMA AcquireRedisKeeps ==
  ASSUME IInv, NEW t \in IoThreads, AcquireRedis(t)
  PROVE  IInv'
<1>1. /\ redisIdle > 0 /\ redisIdle' = redisIdle - 1
      /\ \/ io[t].at = "set" /\ Go(t, "setting")
         \/ io[t].at = "get" /\ Go(t, "getting")
  BY DEF AcquireRedis, At
<1>2. UNCHANGED <<server, table, nextId, cache, process, seq, mysqls, lost,
                   queries, worker, history>>
  BY DEF AcquireRedis
<1>3. /\ Moved(t) /\ io'[t].url = io[t].url /\ io'[t].conn = io[t].conn
      /\ io'[t].id = io[t].id /\ io'[t].code = io[t].code
      /\ \/ io[t].at = "set" /\ io'[t].at = "setting"
         \/ io[t].at = "get" /\ io'[t].at = "getting"
  BY <1>1, GoMoves DEF IoPlaces
<1>4. ThreadSound(t)'
  BY <1>2, <1>3, Connections
     DEF ThreadSound, Asking, Holding, Numbered, Updated, Stored, server, history
<1>5. Servers' /\ TableSound' /\ Threads' /\ WorkerSound' /\ Kept'
  BY <1>2, <1>3, <1>4, QuietStep
<1>6. IdsLeft'
  BY <1>2, <1>3, AsksNoMore DEF Asking
<1>7. Pools'
  <2>1. /\ Cardinality(In(Holding)') = Cardinality(In(Holding))
        /\ Cardinality(In(RedisHolding)) \in Nat
        /\ Cardinality(In(RedisHolding)') = Cardinality(In(RedisHolding)) + 1
    BY <1>3, Slots DEF Holding, RedisHolding
  <2> QED BY <1>1, <1>2, <2>1, Connections DEF IInv, Pools, server
<1> QED BY <1>5, <1>6, <1>7 DEF IInv

\* What SETEX leaves in the cache: the entries it had, and the new one.
LEMMA StoreKeeps ==
  ASSUME IInv, NEW code \in Codes, NEW url \in Urls, Store(code, url), RightFor(code, url),
         UNCHANGED table
  PROVE  /\ DOMAIN cache' \subseteq Codes
         /\ \A c \in DOMAIN cache' : cache'[c] \in Urls /\ RightFor(c, cache[c])'
<1>1. CASE cache' = cache
  BY <1>1 DEF IInv, Kept, RightFor
<1>2. CASE cache' = Put(cache, code, url)
  <2>1. /\ DOMAIN cache' = DOMAIN cache \cup {code}
        /\ \A c \in DOMAIN cache' : cache'[c] = IF c = code THEN url ELSE cache[c]
    BY <1>2 DEF Put
  <2>2. ASSUME NEW c \in DOMAIN cache' PROVE cache'[c] \in Urls /\ RightFor(c, cache[c])'
    <3>1. CASE c = code
      BY <2>1, <3>1 DEF RightFor
    <3>2. CASE c # code
      BY <2>1, <3>2 DEF IInv, Kept, RightFor
    <3> QED BY <3>1, <3>2
  <2> QED BY <2>1, <2>2 DEF IInv, Kept
<1> QED BY <1>1, <1>2 DEF Store

LEMMA AnswerShortenKeeps ==
  ASSUME IInv, NEW t \in IoThreads, AnswerShorten(t)
  PROVE  IInv'
<1>1. /\ io[t].at = "setting" /\ Store(io[t].code, io[t].url) /\ Return(t)
      /\ redisIdle' = redisIdle + 1 /\ answered' = answered \cup {<<io[t].code, io[t].url>>}
  BY DEF AnswerShorten, At
<1>2. UNCHANGED <<up, epoch, table, nextId, pid, life, seq, mysqls, lost, queries, worker,
                   unstored>>
  BY DEF AnswerShorten, server, process
<1>3. Moved(t) /\ io'[t].at = "idle" /\ io'[t].conn = NoConn
  BY <1>1, ReturnMoves
<1>4. ThreadSound(t)'
  BY <1>3 DEF ThreadSound, Asking, Holding, Numbered, Updated
<1>5. PICK id \in DOMAIN table : /\ id = io[t].id /\ table[id].url = io[t].url
                                 /\ io[t].code = Encode(id) /\ Stored(id)
  BY <1>1, Connections DEF ThreadSound, Numbered, Updated
<1>6. /\ id \in Nat /\ io[t].code \in Codes /\ io[t].url \in Urls /\ Decode(io[t].code) = id
  BY <1>5, RowFacts, DecodeInvertsEncode
<1>7. RightFor(io[t].code, io[t].url)
  BY <1>5, <1>6 DEF RightFor
<1>8. Grows
  BY <1>2 DEF Grows, IInv, Servers
<1>9. Servers' /\ TableSound' /\ Threads' /\ WorkerSound'
  <2>1. Servers' /\ TableSound'
    BY <1>2 DEF IInv, Servers, TableSound
  <2> QED BY <1>2, <1>3, <1>4, <1>8, <2>1, ThreadsGrow, WorkerStays
<1>10. Kept'
  <2>1. /\ DOMAIN cache' \subseteq Codes
        /\ \A c \in DOMAIN cache' : cache'[c] \in Urls /\ RightFor(c, cache[c])'
    BY <1>1, <1>2, <1>6, <1>7, StoreKeeps
  <2>2. answered' \subseteq Codes \X Urls
    BY <1>1, <1>6 DEF IInv, Kept
  <2>3. ASSUME NEW a \in answered' PROVE RightFor(a[1], a[2])' /\ Stored(Decode(a[1]))'
    <3>1. CASE a \in answered
      BY <1>2, <3>1 DEF IInv, Kept, RightFor, Stored
    <3>2. CASE a = <<io[t].code, io[t].url>>
      <4>1. a[1] = io[t].code /\ a[2] = io[t].url
        BY <3>2
      <4> QED BY <1>2, <1>5, <1>6, <1>7, <4>1 DEF RightFor, Stored
    <3> QED BY <1>1, <3>1, <3>2
  <2> QED BY <2>1, <2>2, <2>3 DEF Kept
<1>11. IdsLeft'
  BY <1>1, <1>2, <1>3, AsksNoMore DEF Asking
<1>12. Pools'
  <2>1. /\ Cardinality(In(Holding)') = Cardinality(In(Holding))
        /\ Cardinality(In(RedisHolding)) \in Nat
        /\ Cardinality(In(RedisHolding)') = Cardinality(In(RedisHolding)) - 1
    BY <1>1, <1>3, Slots DEF Holding, RedisHolding
  <2> QED BY <1>1, <1>2, <2>1, Connections DEF IInv, Pools
<1> QED BY <1>9, <1>10, <1>11, <1>12 DEF IInv

-----------------------------------------------------------------------------
(* Redirect                                                                 *)

LEMMA RedirectKeeps ==
  ASSUME IInv, NEW t \in IoThreads, NEW code \in Codes, Redirect(t, code)
  PROVE  IInv'
<1>1. io' = [io EXCEPT ![t].at = "get", ![t].code = code] /\ io[t].at = "idle"
  BY DEF Redirect, At
<1>2. /\ Moved(t) /\ io'[t].at = "get" /\ io'[t].code = code /\ io'[t].conn = io[t].conn
  <2>1. io'[t] = [io[t] EXCEPT !.at = "get", !.code = code] /\ io[t] \in Calls
    BY <1>1, Connections
  <2>2. /\ io'[t] \in Calls /\ io'[t].at = "get" /\ io'[t].code = code
        /\ io'[t].conn = io[t].conn
    BY <2>1 DEF Calls, IoPlaces
  <2> QED BY <1>1, <2>2, Connections DEF Moved
<1>3. UNCHANGED <<server, table, nextId, cache, process, seq, mysqls, lost, redisIdle,
                   queries, worker, history>>
  BY DEF Redirect
<1>4. ThreadSound(t)'
  BY <1>2, <1>3, Connections DEF ThreadSound, Asking, Holding, Numbered, Updated, server
<1>5. Servers' /\ TableSound' /\ Threads' /\ WorkerSound' /\ Kept'
  BY <1>2, <1>3, <1>4, QuietStep
<1>6. IdsLeft'
  BY <1>2, <1>3, AsksNoMore DEF Asking
<1>7. Pools'
  <2>1. /\ Cardinality(In(Holding)') = Cardinality(In(Holding))
        /\ Cardinality(In(RedisHolding)') = Cardinality(In(RedisHolding))
    BY <1>1, <1>2, Slots DEF Holding, RedisHolding
  <2> QED BY <1>3, <2>1, Connections DEF IInv, Pools, server
<1> QED BY <1>5, <1>6, <1>7 DEF IInv

LEMMA GetReplyKeeps ==
  ASSUME IInv, NEW t \in IoThreads, GetReply(t)
  PROVE  IInv'
<1>1. /\ io[t].at = "getting" /\ Return(t) /\ redisIdle' = redisIdle + 1
      /\ queries' \in {queries, Append(queries, io[t].code)}
  BY DEF GetReply, At
<1>2. UNCHANGED <<server, table, nextId, cache, process, seq, mysqls, lost, worker, history>>
  BY DEF GetReply
<1>3. Moved(t) /\ io'[t].at = "idle" /\ io'[t].conn = NoConn
  BY <1>1, ReturnMoves
<1>4. ThreadSound(t)'
  BY <1>3 DEF ThreadSound, Asking, Holding, Numbered, Updated
<1>5. Servers' /\ TableSound' /\ Threads' /\ WorkerSound' /\ Kept'
  BY <1>2, <1>3, <1>4, QuietStep
<1>6. IdsLeft'
  BY <1>1, <1>2, <1>3, AsksNoMore DEF Asking
<1>7. Pools'
  <2>1. queries' \in Seq(Codes)
    <3>1. io[t].code \in Codes /\ queries \in Seq(Codes)
      BY <1>1, Connections DEF ThreadSound
    <3> QED BY <1>1, <3>1, AppendProperties
  <2>2. /\ Cardinality(In(Holding)') = Cardinality(In(Holding))
        /\ Cardinality(In(RedisHolding)) \in Nat
        /\ Cardinality(In(RedisHolding)') = Cardinality(In(RedisHolding)) - 1
    BY <1>1, <1>3, Slots DEF Holding, RedisHolding
  <2> QED BY <1>1, <1>2, <2>1, <2>2, Connections DEF IInv, Pools, server
<1> QED BY <1>5, <1>6, <1>7 DEF IInv

-----------------------------------------------------------------------------
(* INSERT and UPDATE                                                        *)

\* A new row has a placeholder of this life that no row has.
LEMMA NewRowSound ==
  ASSUME IInv, NEW t \in IoThreads, io[t].url \in Urls,
         seq' = seq + 1, nextId' = nextId + 1, RowsWith(Placeholder(seq')) = {},
         table' = Put(table, nextId, NewRow(t)), UNCHANGED <<epoch, pid, life, unstored>>
  PROVE  TableSound' /\ Grows /\ nextId \in DOMAIN table' /\ table'[nextId].url = io[t].url
<1>1. /\ seq \in Nat /\ pid \in Pids /\ life \in Nat /\ nextId \in Nat \ {0} /\ epoch \in Nat
      /\ DOMAIN table \subseteq 1..(nextId - 1)
  BY DEF IInv, Servers, TableSound
<1>2. PICK row : row = NewRow(t)
  OBVIOUS
<1>3. PICK tmp : tmp = Placeholder(seq')
  OBVIOUS
<1>4. /\ row = [code |-> tmp, url |-> io[t].url, life |-> life]
      /\ tmp = [kind |-> "tmp", pid |-> pid, seq |-> seq + 1]
  BY <1>2, <1>3 DEF NewRow, Placeholder
<1>5. tmp \in Tmp /\ tmp.seq = seq + 1
  BY <1>1, <1>4 DEF Tmp
<1>6. row.code = tmp /\ row.url \in Urls /\ row.life = life
      /\ row \in [code : {Text(nextId)} \cup Tmp, url : Urls, life : 0..life]
  BY <1>1, <1>4, <1>5
<1>7. /\ DOMAIN table' = DOMAIN table \cup {nextId} /\ nextId \notin DOMAIN table
      /\ table'[nextId] = row /\ \A id \in DOMAIN table : table'[id] = table[id]
  BY <1>1, <1>2 DEF Put
<1>8. \A id \in DOMAIN table : table[id].code # tmp
  BY <1>3 DEF RowsWith
<1>9. Grows
  BY <1>1, <1>7 DEF Grows
<1>10. nextId' \in Nat \ {0} /\ DOMAIN table' \subseteq 1..(nextId' - 1)
  BY <1>1, <1>7
<1>11. ASSUME NEW id \in DOMAIN table'
       PROVE  /\ table'[id] \in [code : {Text(id)} \cup Tmp, url : Urls, life : 0..life']
              /\ table'[id].code \in Tmp /\ table'[id].life = life' => table'[id].code.seq <= seq'
  <2>1. CASE id = nextId
    BY <1>1, <1>5, <1>6, <1>7, <2>1
  <2>2. CASE id \in DOMAIN table
    <3>1. /\ table[id] \in [code : {Text(id)} \cup Tmp, url : Urls, life : 0..life]
          /\ table[id].code \in Tmp /\ table[id].life = life => table[id].code.seq <= seq
      BY <2>2 DEF IInv, TableSound
    <3>2. table[id].code \in Tmp => table[id].code.seq \in Nat
      BY DEF Tmp
    <3> QED BY <1>1, <1>7, <2>2, <3>1, <3>2
  <2> QED BY <1>7, <2>1, <2>2
<1>12. ASSUME NEW id \in DOMAIN table', NEW other \in DOMAIN table',
              table'[id].code = table'[other].code
       PROVE  id = other
  <2>1. \A x, y \in DOMAIN table : table[x].code = table[y].code => x = y
    BY DEF IInv, TableSound
  <2> QED BY <1>6, <1>7, <1>8, <1>12, <2>1
<1>13. TableSound'
  BY <1>10, <1>11, <1>12 DEF TableSound
<1> QED BY <1>4, <1>7, <1>9, <1>13

LEMMA InsertKeeps ==
  ASSUME IInv, NEW t \in IoThreads, Insert(t)
  PROVE  IInv'
<1>1. /\ io[t].at = "insert" /\ seq' = seq + 1
      /\ \/ Go(t, "failed") /\ table' = table /\ nextId' \in {nextId, nextId + 1}
         \/ /\ nextId' = nextId + 1 /\ RowsWith(Placeholder(seq')) = {}
            /\ table' = Put(table, nextId, NewRow(t))
            /\ \/ io' = [io EXCEPT ![t].at = "update", ![t].id = nextId, ![t].code = NewCode]
               \/ Go(t, "failed")
  BY DEF Insert, At
<1>2. UNCHANGED <<up, epoch, cache, pid, life, mysqls, lost, redisIdle, queries, worker,
                  answered, unstored>>
  BY DEF Insert, server, process, history
<1>3. /\ io[t].url \in Urls /\ io[t].conn \in 0..epoch /\ seq \in Nat /\ nextId \in Nat \ {0}
      /\ io[t] \in Calls /\ io \in [IoThreads -> Calls]
  BY <1>1, Connections DEF ThreadSound, Asking, Holding, IInv, Servers
<1>4. Servers'
  BY <1>1, <1>2, <1>3 DEF IInv, Servers
<1>5. /\ Cardinality(In(Asking)) \in Nat /\ Cardinality(In(Asking)) >= 1
      /\ nextId + Cardinality(In(Asking)) <= MaxId + 1
  BY <1>1, <1>3, CountNow DEF IInv, IdsLeft, Asking
<1>6. nextId \in 1..MaxId /\ NewCode \in Codes
  BY <1>3, <1>5, ShortenerAssumption DEF NewCode, Codes
<1>7. TableSound' /\ Grows
  <2>1. CASE table' = table /\ nextId' \in {nextId, nextId + 1}
    <3>1. Grows
      BY <1>2, <2>1 DEF Grows, IInv, Servers
    <3>2. /\ nextId' \in Nat \ {0} /\ DOMAIN table' \subseteq 1..(nextId' - 1)
      BY <1>3, <2>1 DEF IInv, TableSound
    <3>3. ASSUME NEW id \in DOMAIN table, table[id].code \in Tmp, table[id].life = life
          PROVE  table[id].code.seq <= seq'
      <4>1. table[id].code.seq <= seq /\ table[id].code.seq \in Nat
        BY <3>3 DEF IInv, TableSound, Tmp
      <4> QED BY <1>1, <1>3, <4>1
    <3> QED BY <1>2, <2>1, <3>1, <3>2, <3>3 DEF IInv, TableSound
  <2>2. CASE /\ nextId' = nextId + 1 /\ RowsWith(Placeholder(seq')) = {}
             /\ table' = Put(table, nextId, NewRow(t))
    BY <1>1, <1>2, <1>3, <2>2, NewRowSound
  <2> QED BY <1>1, <2>1, <2>2
<1>8. ASSUME Go(t, "failed")
      PROVE  /\ Threads' /\ Cardinality(In(Asking)') = Cardinality(In(Asking)) - 1
             /\ Cardinality(In(Holding)') = Cardinality(In(Holding))
             /\ Cardinality(In(RedisHolding)') = Cardinality(In(RedisHolding))
  <2>1. /\ Moved(t) /\ io'[t].at = "failed" /\ io'[t].url = io[t].url /\ io'[t].conn = io[t].conn
    BY <1>8, GoMoves DEF IoPlaces
  <2>2. ThreadSound(t)'
    BY <1>2, <1>3, <2>1 DEF ThreadSound, Asking, Holding, Numbered, Updated
  <2>3. Cardinality(In(Holding)') = Cardinality(In(Holding))
        /\ Cardinality(In(RedisHolding)') = Cardinality(In(RedisHolding))
    BY <1>1, <2>1, Slots DEF Holding, RedisHolding
  <2>4. Cardinality(In(Asking)') = Cardinality(In(Asking)) - 1
    BY <1>1, <1>3, <2>1, Count DEF Asking
  <2> QED BY <1>7, <2>1, <2>2, <2>3, <2>4, ThreadsGrow DEF Asking
<1>9. ASSUME nextId' = nextId + 1, RowsWith(Placeholder(seq')) = {},
             table' = Put(table, nextId, NewRow(t)),
             io' = [io EXCEPT ![t].at = "update", ![t].id = nextId, ![t].code = NewCode]
      PROVE  /\ Threads' /\ Cardinality(In(Asking)') = Cardinality(In(Asking)) - 1
             /\ Cardinality(In(Holding)') = Cardinality(In(Holding))
             /\ Cardinality(In(RedisHolding)') = Cardinality(In(RedisHolding))
  <2>1. /\ Moved(t) /\ io'[t].at = "update" /\ io'[t].url = io[t].url /\ io'[t].conn = io[t].conn
        /\ io'[t].id = nextId /\ io'[t].code = NewCode
    <3>1. io'[t] = [io[t] EXCEPT !.at = "update", !.id = nextId, !.code = NewCode]
      BY <1>3, <1>9
    <3>2. /\ io'[t] \in Calls /\ io'[t].at = "update" /\ io'[t].url = io[t].url
          /\ io'[t].conn = io[t].conn /\ io'[t].id = nextId /\ io'[t].code = NewCode
      <4>1. nextId \in Int /\ NewCode \in Codes \cup {<<>>} /\ "update" \in IoPlaces
        BY <1>3, <1>6 DEF IoPlaces
      <4> QED BY <1>3, <3>1, <4>1 DEF Calls
    <3> QED BY <1>3, <1>9, <3>2 DEF Moved
  <2>2. nextId \in DOMAIN table' /\ table'[nextId].url = io[t].url
    BY <1>1, <1>2, <1>3, <1>9, NewRowSound
  <2>3. ThreadSound(t)'
    BY <1>2, <1>3, <2>1, <2>2 DEF ThreadSound, Asking, Holding, Numbered, Updated, NewCode
  <2>4. Cardinality(In(Holding)') = Cardinality(In(Holding))
        /\ Cardinality(In(RedisHolding)') = Cardinality(In(RedisHolding))
    BY <1>1, <2>1, Slots DEF Holding, RedisHolding
  <2>5. Cardinality(In(Asking)') = Cardinality(In(Asking)) - 1
    BY <1>1, <1>3, <2>1, Count DEF Asking
  <2> QED BY <1>7, <2>1, <2>3, <2>4, <2>5, ThreadsGrow DEF Asking
<1>10. /\ Threads' /\ Cardinality(In(Asking)') = Cardinality(In(Asking)) - 1
       /\ Cardinality(In(Holding)') = Cardinality(In(Holding))
       /\ Cardinality(In(RedisHolding)') = Cardinality(In(RedisHolding))
  BY <1>1, <1>8, <1>9
<1>11. IdsLeft'
  BY <1>1, <1>3, <1>5, <1>10, ShortenerAssumption DEF IdsLeft
<1>12. Pools'
  BY <1>2, <1>10 DEF IInv, Pools
<1> QED BY <1>2, <1>4, <1>7, <1>10, <1>11, <1>12, StillKept, WorkerStays DEF IInv

LEMMA UpdateKeeps ==
  ASSUME IInv, NEW t \in IoThreads, Update(t)
  PROVE  IInv'
<1>1. /\ io[t].at = "update" /\ Go(t, "release")
      /\ \/ /\ table' = [table EXCEPT ![io[t].id].code = Text(io[t].id)]
            /\ unstored' = unstored
         \/ unstored' = unstored \cup {io[t].id} /\ table' = table
  BY DEF Update, At
<1>2. UNCHANGED <<up, epoch, nextId, cache, pid, life, seq, mysqls, lost, redisIdle, queries,
                  worker, answered>>
  BY DEF Update, server, process
<1>3. PICK id \in DOMAIN table : /\ id = io[t].id /\ table[id].url = io[t].url
                                 /\ io[t].code = Encode(id) /\ io[t].conn \in 0..epoch
  BY <1>1, Connections DEF ThreadSound, Numbered, Holding
<1>4. Servers'
  BY <1>2 DEF IInv, Servers
<1>5. TableSound' /\ Grows /\ Stored(id)'
  <2>1. CASE unstored' = unstored \cup {io[t].id} /\ table' = table
    <3>1. TableSound'
      BY <1>2, <2>1 DEF IInv, TableSound
    <3>2. Grows
      BY <1>2, <2>1 DEF Grows, IInv, Servers
    <3> QED BY <1>3, <2>1, <3>1, <3>2 DEF Stored
  <2>2. CASE table' = [table EXCEPT ![io[t].id].code = Text(io[t].id)] /\ unstored' = unstored
    <3>1. /\ DOMAIN table' = DOMAIN table /\ table'[id] = [table[id] EXCEPT !.code = Text(id)]
          /\ \A other \in DOMAIN table \ {id} : table'[other] = table[other]
      BY <1>3, <2>2
    <3>2. \A x \in DOMAIN table :
            /\ x \in Nat /\ table[x] \in [code : {Text(x)} \cup Tmp, url : Urls, life : 0..life]
            /\ table[x].code \in Tmp /\ table[x].life = life => table[x].code.seq <= seq
      BY DEF IInv, TableSound
    <3>3. /\ table'[id] \in [code : {Text(id)} \cup Tmp, url : Urls, life : 0..life]
          /\ table'[id].code = Text(id) /\ table'[id].url = table[id].url
          /\ Text(id) \notin Tmp
      BY <3>1, <3>2, TextFacts
    <3>4. ASSUME NEW x \in DOMAIN table, NEW y \in DOMAIN table, table'[x].code = table'[y].code
          PROVE  x = y
      <4>1. \A z \in DOMAIN table \ {id} : table[z].code # Text(id)
        BY <3>2, TextFacts
      <4>2. table[x].code = table[y].code => x = y
        BY DEF IInv, TableSound
      <4> QED BY <3>1, <3>3, <3>4, <4>1, <4>2
    <3>5. \A x \in DOMAIN table :
            /\ table'[x] \in [code : {Text(x)} \cup Tmp, url : Urls, life : 0..life]
            /\ table'[x].code \in Tmp /\ table'[x].life = life => table'[x].code.seq <= seq
      BY <3>1, <3>2, <3>3
    <3>6. TableSound'
      BY <1>2, <3>1, <3>4, <3>5 DEF IInv, TableSound
    <3>7. Grows
      BY <1>2, <2>2, <3>1, <3>3 DEF Grows, IInv, Servers
    <3> QED BY <3>3, <3>6, <3>7 DEF Stored
  <2> QED BY <1>1, <2>1, <2>2
<1>6. /\ Moved(t) /\ io'[t].at = "release" /\ io'[t].url = io[t].url /\ io'[t].conn = io[t].conn
      /\ io'[t].id = io[t].id /\ io'[t].code = io[t].code
  BY <1>1, GoMoves DEF IoPlaces
<1>7. ThreadSound(t)'
  <2>1. id \in DOMAIN table' /\ table'[id].url = table[id].url
    BY <1>5 DEF Grows
  <2>2. Stored(io[t].id)'
    BY <1>3, <1>5, <1>6 DEF Stored
  <2> QED BY <1>2, <1>3, <1>6, <2>1, <2>2 DEF ThreadSound, Asking, Holding, Numbered, Updated,
                                              Stored
<1>8. IdsLeft'
  BY <1>2, <1>6, AsksNoMore DEF Asking
<1>9. Pools'
  <2>1. /\ Cardinality(In(Holding)') = Cardinality(In(Holding))
        /\ Cardinality(In(RedisHolding)') = Cardinality(In(RedisHolding))
    BY <1>1, <1>6, Slots DEF Holding, RedisHolding
  <2> QED BY <1>2, <2>1 DEF IInv, Pools
<1>10. Threads' /\ Kept' /\ WorkerSound'
  BY <1>2, <1>5, <1>6, <1>7, ThreadsGrow, StillKept, WorkerStays
<1> QED BY <1>4, <1>5, <1>8, <1>9, <1>10 DEF IInv

-----------------------------------------------------------------------------
(* The worker                                                               *)

\* What no io thread and no row has to do with.
LEMMA ThreadsRest ==
  ASSUME IInv, UNCHANGED <<up, epoch, table, nextId, pid, life, seq, io, unstored>>
  PROVE  /\ Servers' /\ TableSound' /\ IdsLeft' /\ Threads' /\ Grows
         /\ Cardinality(In(Holding)') = Cardinality(In(Holding))
         /\ Cardinality(In(RedisHolding)') = Cardinality(In(RedisHolding))
         /\ Cardinality(In(RedisHolding)) \in Nat
<1>1. Servers' /\ TableSound' /\ Grows
  BY DEF IInv, Servers, TableSound, Grows
<1>2. \A P : In(P)' = In(P)
  BY DEF In
<1>3. IdsLeft'
  BY <1>2 DEF IInv, IdsLeft
<1>4. \A t \in IoThreads : ThreadSound(t)'
  BY DEF IInv, Threads, ThreadSound, Stored
<1>5. Threads'
  BY <1>4 DEF IInv, Threads
<1>6. Cardinality(In(RedisHolding)) \in Nat
  <2>1. IsFiniteSet(In(RedisHolding))
    BY FS_Subset, ShortenerAssumption DEF In
  <2> QED BY <2>1, FS_CardinalityType
<1> QED BY <1>1, <1>2, <1>3, <1>5, <1>6

LEMMA WorkerPingKeeps ==
  ASSUME IInv, WorkerPing
  PROVE  IInv'
<1> DEFINE conn == IF worker.conn = NoConn \/ ~up THEN NoConn ELSE epoch
<1>1. /\ worker.at = "top" /\ queries # <<>> /\ queries' = Tail(queries)
      /\ worker' = [at |-> "query", code |-> Head(queries), url |-> NoUrl, conn |-> conn]
  BY DEF WorkerPing
<1>2. UNCHANGED <<up, epoch, table, nextId, cache, pid, life, seq, mysqls, lost, redisIdle,
                   io, answered, unstored>>
  BY DEF WorkerPing, server, process, history
<1>3. Head(queries) \in Codes /\ queries' \in Seq(Codes)
  BY <1>1, Connections, HeadTailProperties
<1>4. conn \in 0..epoch \cup {NoConn} /\ conn \in Int
  BY Connections DEF NoConn
<1> HIDE DEF conn
<1>5. worker' \in Work /\ worker'.at = "query" /\ worker'.conn = conn /\ worker'.code \in Codes
  BY <1>1, <1>3, <1>4 DEF Work
<1>6. WorkerSound'
  BY <1>2, <1>4, <1>5 DEF WorkerSound
<1>7. /\ Servers' /\ TableSound' /\ IdsLeft' /\ Threads' /\ Grows
      /\ Cardinality(In(Holding)') = Cardinality(In(Holding))
      /\ Cardinality(In(RedisHolding)') = Cardinality(In(RedisHolding))
  BY <1>2, ThreadsRest
<1>8. Pools'
  BY <1>1, <1>2, <1>3, <1>5, <1>7 DEF IInv, Pools
<1>9. Kept'
  BY <1>2, <1>7, StillKept
<1> QED BY <1>6, <1>7, <1>8, <1>9 DEF IInv

LEMMA WorkerQueryKeeps ==
  ASSUME IInv, WorkerQuery
  PROVE  IInv'
<1> DEFINE code == worker.code
           rows == IF Working(worker.conn) THEN RowsWith([kind |-> "code", text |-> code]) ELSE {}
           chosen == CHOOSE id \in rows : TRUE
<1>1. /\ worker.at = "query"
      /\ worker' = IF rows = {} THEN Resting(worker.conn)
                   ELSE [worker EXCEPT !.at = "set", !.url = table[chosen].url]
  BY DEF WorkerQuery
<1>2. UNCHANGED <<up, epoch, table, nextId, cache, pid, life, seq, mysqls, lost, redisIdle,
                   io, queries, answered, unstored>>
  BY DEF WorkerQuery, server, process, history
<1>3. worker \in Work /\ code \in Codes
  BY <1>1 DEF IInv, WorkerSound
<1>4. worker.conn \in 0..epoch \cup {NoConn} /\ worker.conn \in Int
  BY Connections DEF IInv, WorkerSound, NoConn
<1>5. ASSUME rows # {}
      PROVE  chosen \in DOMAIN table /\ table[chosen].url \in Urls /\ Decode(code) = chosen
  <2>1. chosen \in DOMAIN table /\ table[chosen].code = [kind |-> "code", text |-> code]
    <3>1. chosen \in rows
      BY <1>5
    <3>2. rows \subseteq RowsWith([kind |-> "code", text |-> code])
      OBVIOUS
    <3> QED BY <3>1, <3>2 DEF RowsWith
  <2>2. PICK id \in DOMAIN table : id = chosen
    BY <2>1
  <2>3. id \in Nat /\ table[id].code \in {Text(id)} \cup Tmp /\ table[id].url \in Urls
    BY RowFacts
  <2>4. table[id].code.kind = "code" /\ table[id].code.text = code
    BY <2>1, <2>2
  <2>5. table[id].code \notin Tmp
    BY <2>4 DEF Tmp
  <2>6. Text(id).text = Encode(id) /\ Decode(Encode(id)) = id
    BY <2>3, TextFacts
  <2>7. code = Encode(id)
    BY <2>3, <2>4, <2>5, <2>6
  <2>8. Decode(code) = id
    BY <2>6, <2>7
  <2> QED BY <2>2, <2>3, <2>8
<1> HIDE DEF rows, chosen
<1>6. WorkerSound' /\ worker'.at \in {"top", "set"}
  <2>1. CASE rows = {}
    <3>1. worker' = [at |-> "top", code |-> <<>>, url |-> NoUrl, conn |-> worker.conn]
      BY <1>1, <2>1 DEF Resting
    <3>2. worker' \in Work
      BY <1>4, <3>1 DEF Work
    <3> QED BY <1>2, <1>4, <3>1, <3>2 DEF WorkerSound
  <2>2. CASE rows # {}
    <3>1. worker' = [worker EXCEPT !.at = "set", !.url = table[chosen].url]
      BY <1>1, <2>2
    <3>2. /\ worker' \in Work /\ worker'.at = "set" /\ worker'.code = code
          /\ worker'.conn = worker.conn /\ worker'.url = table[chosen].url
      BY <1>3, <1>4, <1>5, <2>2, <3>1 DEF Work
    <3>3. RightFor(worker.code, worker.url)'
      BY <1>2, <1>5, <2>2, <3>2 DEF RightFor
    <3> QED BY <1>2, <1>3, <1>4, <3>1, <3>2, <3>3 DEF WorkerSound
  <2> QED BY <2>1, <2>2
<1>7. /\ Servers' /\ TableSound' /\ IdsLeft' /\ Threads' /\ Grows
      /\ Cardinality(In(Holding)') = Cardinality(In(Holding))
      /\ Cardinality(In(RedisHolding)') = Cardinality(In(RedisHolding))
  BY <1>2, ThreadsRest
<1>8. Pools'
  BY <1>1, <1>2, <1>6, <1>7 DEF IInv, Pools
<1>9. Kept'
  BY <1>2, <1>7, StillKept
<1> QED BY <1>6, <1>7, <1>8, <1>9 DEF IInv

LEMMA WorkerAcquireRedisKeeps ==
  ASSUME IInv, WorkerAcquireRedis
  PROVE  IInv'
<1>1. /\ worker.at = "set" /\ redisIdle > 0 /\ redisIdle' = redisIdle - 1
      /\ worker' = [worker EXCEPT !.at = "setting"]
  BY DEF WorkerAcquireRedis
<1>2. UNCHANGED <<up, epoch, table, nextId, cache, pid, life, seq, mysqls, lost, queries,
                   io, answered, unstored>>
  BY DEF WorkerAcquireRedis, server, process, history
<1>3. /\ worker \in Work /\ worker.conn \in 0..epoch \cup {NoConn}
      /\ worker.code \in Codes /\ RightFor(worker.code, worker.url)
  BY <1>1 DEF IInv, WorkerSound
<1>4. /\ worker' \in Work /\ worker'.at = "setting" /\ worker'.code = worker.code
      /\ worker'.url = worker.url /\ worker'.conn = worker.conn
  BY <1>1, <1>3 DEF Work
<1>5. WorkerSound'
  BY <1>2, <1>3, <1>4 DEF WorkerSound, RightFor
<1>6. /\ Servers' /\ TableSound' /\ IdsLeft' /\ Threads' /\ Grows
      /\ Cardinality(In(Holding)') = Cardinality(In(Holding))
      /\ Cardinality(In(RedisHolding)') = Cardinality(In(RedisHolding))
      /\ Cardinality(In(RedisHolding)) \in Nat
  BY <1>2, ThreadsRest
<1>7. Pools'
  BY <1>1, <1>2, <1>4, <1>6, Connections DEF IInv, Pools
<1>8. Kept'
  BY <1>2, <1>6, StillKept
<1> QED BY <1>5, <1>6, <1>7, <1>8 DEF IInv

LEMMA WorkerFillKeeps ==
  ASSUME IInv, WorkerFill
  PROVE  IInv'
<1>1. /\ worker.at = "setting" /\ Store(worker.code, worker.url)
      /\ worker' = Resting(worker.conn) /\ redisIdle' = redisIdle + 1
  BY DEF WorkerFill
<1>2. UNCHANGED <<up, epoch, table, nextId, pid, life, seq, mysqls, lost, queries,
                   io, answered, unstored>>
  BY DEF WorkerFill, server, process, history
<1>3. /\ worker \in Work /\ worker.conn \in 0..epoch \cup {NoConn}
      /\ worker.code \in Codes /\ RightFor(worker.code, worker.url)
  BY <1>1 DEF IInv, WorkerSound
<1>4. worker.url \in Urls
  BY <1>3, RowFacts DEF RightFor
<1>5. /\ worker' \in Work /\ worker'.at = "top" /\ worker'.conn = worker.conn
  BY <1>1, <1>3 DEF Work, Resting
<1>6. WorkerSound'
  BY <1>2, <1>3, <1>5 DEF WorkerSound
<1>7. /\ Servers' /\ TableSound' /\ IdsLeft' /\ Threads' /\ Grows
      /\ Cardinality(In(Holding)') = Cardinality(In(Holding))
      /\ Cardinality(In(RedisHolding)') = Cardinality(In(RedisHolding))
      /\ Cardinality(In(RedisHolding)) \in Nat
  BY <1>2, ThreadsRest
<1>8. Pools'
  BY <1>1, <1>2, <1>5, <1>7, Connections DEF IInv, Pools
<1>9. Kept'
  <2>1. /\ DOMAIN cache' \subseteq Codes
        /\ \A c \in DOMAIN cache' : cache'[c] \in Urls /\ RightFor(c, cache[c])'
    BY <1>1, <1>2, <1>3, <1>4, StoreKeeps
  <2>2. \A a \in answered : RightFor(a[1], a[2])' /\ Stored(Decode(a[1]))'
    BY <1>2 DEF IInv, Kept, RightFor, Stored
  <2> QED BY <1>2, <2>1, <2>2 DEF IInv, Kept
<1> QED BY <1>6, <1>7, <1>8, <1>9 DEF IInv

-----------------------------------------------------------------------------
(* What happens to the servers and to the process                           *)

LEMMA OutageKeeps ==
  ASSUME IInv, Outage
  PROVE  IInv'
<1>1. /\ up' = FALSE /\ epoch' = epoch + 1
      /\ UNCHANGED <<table, nextId, cache, pid, life, seq, mysqls, lost, redisIdle, io,
                     queries, worker, answered, unstored>>
  BY DEF Outage, process, history
<1>2. epoch \in Nat /\ epoch' \in Nat /\ 0..epoch \subseteq 0..epoch'
  BY <1>1, Connections
<1>3. Servers' /\ TableSound' /\ Grows
  <2>1. up' \in BOOLEAN
    BY <1>1
  <2>2. Servers'
    BY <1>1, <1>2, <2>1 DEF IInv, Servers
  <2> QED BY <1>1, <1>2, <2>2 DEF IInv, TableSound, Grows
<1>4. \A P : In(P)' = In(P)
  BY <1>1 DEF In
<1>5. \A t \in IoThreads : ThreadSound(t)'
  BY <1>1, <1>2 DEF IInv, Threads, ThreadSound, Stored
<1>6. IdsLeft' /\ Threads'
  BY <1>1, <1>4, <1>5 DEF IInv, IdsLeft, Threads
<1>7. Pools'
  <2>1. mysqls' \in Seq(0..epoch')
    BY <1>1, <1>2, Connections, SeqMonotonic
  <2> QED BY <1>1, <1>4, <2>1 DEF IInv, Pools
<1> QED BY <1>1, <1>3, <1>6, <1>7, StillKept, WorkerStays DEF IInv

LEMMA RecoveryKeeps ==
  ASSUME IInv, Recovery
  PROVE  IInv'
<1>1. /\ up' = TRUE
      /\ UNCHANGED <<epoch, table, nextId, cache, pid, life, seq, mysqls, lost, redisIdle, io,
                     queries, worker, answered, unstored>>
  BY DEF Recovery, process, history
<1>2. up' \in BOOLEAN
  BY <1>1
<1>3. Servers' /\ TableSound' /\ Grows
  BY <1>1, <1>2 DEF IInv, Servers, TableSound, Grows
<1>4. \A P : In(P)' = In(P)
  BY <1>1 DEF In
<1>5. \A t \in IoThreads : ThreadSound(t)'
  BY <1>1 DEF IInv, Threads, ThreadSound, Stored
<1>6. IdsLeft' /\ Threads'
  BY <1>1, <1>4, <1>5 DEF IInv, IdsLeft, Threads
<1>7. Pools'
  BY <1>1, <1>4 DEF IInv, Pools
<1> QED BY <1>1, <1>3, <1>6, <1>7, StillKept, WorkerStays DEF IInv

\* A process that has just come up holds nothing.
LEMMA FreshHoldsNothing ==
  ASSUME io = [t \in IoThreads |-> Idle], NEW P, "idle" \notin P
  PROVE  Cardinality(In(P)) = 0
<1>1. In(P) = {}
  BY DEF In, Idle
<1> QED BY <1>1, FS_EmptySet

\* Its pools are full and its threads know of no row.
Fresh ==
    /\ io = [t \in IoThreads |-> Idle] /\ epoch \in Nat
    /\ mysqls = [i \in 1..PoolSize |-> epoch] /\ lost = 0 /\ redisIdle = RedisSize
    /\ queries = <<>> /\ worker = Resting(epoch)

LEMMA FreshProcessSound ==
  Fresh => Threads /\ WorkerSound /\ Pools /\ Cardinality(In(Asking)) = 0
<1> SUFFICES ASSUME Fresh PROVE Threads /\ WorkerSound /\ Pools /\ Cardinality(In(Asking)) = 0
  OBVIOUS
<1> USE DEF Fresh
<1>1. Idle \in Calls /\ Idle.at = "idle" /\ Idle.conn = NoConn
  BY DEF Idle, Calls, IoPlaces, NoConn
<1>2. Threads
  BY <1>1 DEF Threads, ThreadSound, Asking, Holding, Numbered, Updated
<1>3. Resting(epoch) \in Work /\ Resting(epoch).at = "top" /\ Resting(epoch).conn = epoch
  BY DEF Resting, Work
<1>4. WorkerSound
  BY <1>3 DEF WorkerSound
<1>5. /\ Cardinality(In(Asking)) = 0 /\ Cardinality(In(Holding)) = 0
      /\ Cardinality(In(RedisHolding)) = 0
  BY FreshHoldsNothing DEF Asking, Holding, RedisHolding
<1>6. mysqls \in Seq(0..epoch) /\ Len(mysqls) = PoolSize /\ queries \in Seq(Codes)
  BY ShortenerAssumption
<1>7. Pools
  BY <1>3, <1>5, <1>6, ShortenerAssumption DEF Pools
<1> QED BY <1>2, <1>4, <1>5, <1>7

LEMMA RestartKeeps ==
  ASSUME IInv, Restart
  PROVE  IInv'
<1>1. /\ life' = life + 1 /\ pid' \in Pids /\ seq' = 0
      /\ mysqls' = [i \in 1..PoolSize |-> epoch] /\ lost' = 0 /\ redisIdle' = RedisSize
      /\ io' = [t \in IoThreads |-> Idle] /\ queries' = <<>> /\ worker' = Resting(epoch)
      /\ UNCHANGED <<up, epoch, table, nextId, cache, answered, unstored>>
  BY DEF Restart, FreshProcess, server, history
<1>2. Servers' /\ life \in Nat
  BY <1>1 DEF IInv, Servers
<1>3. epoch' \in Nat /\ Grows
  BY <1>1, Connections DEF Grows
<1>4. Threads' /\ WorkerSound' /\ Pools' /\ Cardinality(In(Asking)') = 0
  <2>1. (Fresh => Threads /\ WorkerSound /\ Pools /\ Cardinality(In(Asking)) = 0)'
    BY FreshProcessSound, PTL
  <2>2. Fresh'
    BY <1>1, <1>3 DEF Fresh
  <2> QED BY <2>1, <2>2
<1>5. TableSound'
  <2>1. ASSUME NEW id \in DOMAIN table
        PROVE  /\ table[id] \in [code : {Text(id)} \cup Tmp, url : Urls, life : 0..life']
               /\ table[id].life # life'
    <3>1. table[id] \in [code : {Text(id)} \cup Tmp, url : Urls, life : 0..life]
      BY DEF IInv, TableSound
    <3>2. 0..life \subseteq 0..life' /\ life' \notin 0..life
      BY <1>1, <1>2
    <3> QED BY <3>1, <3>2
  <2> QED BY <1>1, <2>1 DEF IInv, TableSound
<1>6. IdsLeft'
  <2>1. Cardinality(In(Asking)) \in Nat
    BY FS_Subset, FS_CardinalityType, ShortenerAssumption DEF In
  <2> QED BY <1>1, <1>4, <2>1, Connections, ShortenerAssumption DEF IInv, IdsLeft
<1>7. Kept'
  BY <1>1, <1>3, StillKept
<1> QED BY <1>2, <1>4, <1>5, <1>6, <1>7 DEF IInv

-----------------------------------------------------------------------------
(* The invariant of every run                                               *)

LEMMA InitSound == Init => IInv
<1> SUFFICES ASSUME Init PROVE IInv
  OBVIOUS
<1>1. /\ up = TRUE /\ epoch = 0 /\ table = <<>> /\ nextId = 1 /\ cache = <<>> /\ pid \in Pids
      /\ life = 1 /\ seq = 0 /\ mysqls = [i \in 1..PoolSize |-> epoch] /\ lost = 0
      /\ redisIdle = RedisSize /\ io = [t \in IoThreads |-> Idle] /\ queries = <<>>
      /\ worker = Resting(epoch) /\ answered = {} /\ unstored = {}
  BY DEF Init
<1>2. DOMAIN table = {} /\ DOMAIN cache = {}
  BY <1>1
<1>3. up \in BOOLEAN
  BY <1>1
<1>4. Servers /\ TableSound /\ Kept
  BY <1>1, <1>2, <1>3 DEF Servers, TableSound, Kept
<1>5. Threads /\ WorkerSound /\ Pools /\ Cardinality(In(Asking)) = 0
  BY <1>1, FreshProcessSound DEF Fresh
<1>6. IdsLeft
  BY <1>1, <1>5, ShortenerAssumption DEF IdsLeft
<1> QED BY <1>4, <1>5, <1>6 DEF IInv

LEMMA StepKeeps == IInv /\ [Next]_vars => IInv'
<1> SUFFICES ASSUME IInv, [Next]_vars PROVE IInv'
  OBVIOUS
<1>1. ASSUME NEW t \in IoThreads, Io(t) PROVE IInv'
  BY <1>1, AcquireMysqlKeeps, PingMysqlKeeps, InsertKeeps, ReleaseFailedKeeps, UpdateKeeps,
     ReleaseMysqlKeeps, AcquireRedisKeeps, AnswerShortenKeeps, GetReplyKeeps DEF Io
<1>2. ASSUME NEW t \in IoThreads, NEW u \in Urls, Shorten(t, u) PROVE IInv'
  BY <1>2, ShortenKeeps
<1>3. ASSUME NEW t \in IoThreads, NEW code \in Codes, Redirect(t, code) PROVE IInv'
  BY <1>3, RedirectKeeps
<1>4. CASE Worker
  BY <1>4, WorkerPingKeeps, WorkerQueryKeeps, WorkerAcquireRedisKeeps, WorkerFillKeeps DEF Worker
<1>5. CASE UNCHANGED vars
  <2>1. /\ UNCHANGED <<up, epoch, table, nextId, pid, life, seq, io, unstored>>
        /\ UNCHANGED <<cache, answered, worker, mysqls, lost, redisIdle, queries>>
    BY <1>5 DEF vars
  <2>2. /\ Servers' /\ TableSound' /\ IdsLeft' /\ Threads' /\ Grows
        /\ Cardinality(In(Holding)') = Cardinality(In(Holding))
        /\ Cardinality(In(RedisHolding)') = Cardinality(In(RedisHolding))
    BY <2>1, ThreadsRest
  <2>3. Pools'
    BY <2>1, <2>2 DEF IInv, Pools
  <2> QED BY <2>1, <2>2, <2>3, StillKept, WorkerStays DEF IInv
<1> QED BY <1>1, <1>2, <1>3, <1>4, <1>5, OutageKeeps, RecoveryKeeps, RestartKeeps
        DEF Next, Starved

LEMMA SpecKeepsIInv == Spec => []IInv
<1> QED BY InitSound, StepKeeps, PTL DEF Spec

\* For any number of threads, urls, process ids and slots, and whatever outages
\* and restarts happen: ids go out once and codes are unique (TypeOK), no path
\* through ApiShorten, Redirect or the worker keeps or doubles a connection of
\* either pool, and a placeholder can be taken only by an earlier process.
THEOREM ShortenerStaysSound == Spec => []ShortenerInv
<1>1. ASSUME IInv PROVE TypeOK
  <2>1. ASSUME NEW id \in DOMAIN table
        PROVE  table[id] \in Rows /\ RowsWith(table[id].code) = {id}
    <3>1. /\ id \in 1..MaxId /\ RowsWith(table[id].code) = {id}
          /\ table[id] \in [code : {Text(id)} \cup Tmp, url : Urls, life : 0..life]
      BY <1>1, RowFacts DEF IInv, TableSound
    <3>2. 0..life \subseteq Nat /\ Text(id) \in {Text(other) : other \in 1..MaxId}
      BY <1>1, <3>1 DEF IInv, Servers
    <3>3. /\ table[id].code \in {Text(other) : other \in 1..MaxId} \cup Tmp
          /\ table[id].url \in Urls /\ table[id].life \in Nat
          /\ table[id] = [code |-> table[id].code, url |-> table[id].url, life |-> table[id].life]
      BY <3>1, <3>2
    <3> QED BY <3>1, <3>3 DEF Rows, Tmp
  <2>2. /\ up \in BOOLEAN /\ epoch \in Nat /\ nextId \in Nat
        /\ DOMAIN table \subseteq 1..(nextId - 1)
        /\ pid \in Pids /\ life \in Nat /\ seq \in Nat /\ lost \in Nat /\ redisIdle \in Nat
        /\ mysqls \in Seq(0..epoch) /\ queries \in Seq(Codes)
        /\ DOMAIN cache \subseteq Codes /\ \A c \in DOMAIN cache : cache[c] \in Urls
    BY <1>1 DEF IInv, Servers, TableSound, Pools, Kept
  <2>3. ASSUME NEW t \in IoThreads
        PROVE  /\ io[t].at \in IoPlaces /\ io[t].conn \in 0..epoch \cup {NoConn}
               /\ io[t].url \in Urls \cup {NoUrl} /\ io[t].code \in Codes \cup {<<>>}
    BY <1>1 DEF IInv, Threads, ThreadSound, Calls
  <2>4. worker.at \in {"top", "query", "set", "setting"} /\ worker.conn \in 0..epoch \cup {NoConn}
    BY <1>1 DEF IInv, WorkerSound, Work
  <2> QED BY <2>1, <2>2, <2>3, <2>4 DEF TypeOK
<1>2. ASSUME IInv PROVE SlotsConserved
  BY <1>2 DEF IInv, Pools, SlotsConserved, In, Holding, RedisHolding
<1>3. ASSUME IInv PROVE PlaceholderTakenByEarlierLifeOnly
  <2> SUFFICES ASSUME NEW id \in DOMAIN table, table[id].code = Placeholder(seq + 1)
               PROVE  table[id].life < life
    BY DEF PlaceholderTakenByEarlierLifeOnly
  <2>1. /\ seq \in Nat /\ pid \in Pids /\ life \in Nat
        /\ table[id] \in [code : {Text(id)} \cup Tmp, url : Urls, life : 0..life]
        /\ table[id].code \in Tmp /\ table[id].life = life => table[id].code.seq <= seq
    BY <1>3 DEF IInv, Servers, TableSound
  <2>2. Placeholder(seq + 1) \in Tmp /\ Placeholder(seq + 1).seq = seq + 1
    BY <2>1 DEF Placeholder, Tmp
  <2> QED BY <2>1, <2>2
<1>4. IInv => ShortenerInv
  BY <1>1, <1>2, <1>3 DEF ShortenerInv
<1> QED BY <1>4, SpecKeepsIInv, PTL

\* What ApiShorten answers, and what is cached or about to be, leads to the one
\* url of its id, and a row whose UPDATE did not fail is found by its code:
\* whatever is lost between INSERT, UPDATE and SETEX, and whichever process ran.
THEOREM AnswersResolve == Spec => []CodesResolve
<1>1. ASSUME IInv PROVE CodesKeepTheirUrl
  BY <1>1 DEF IInv, Kept, WorkerSound, RightFor, CodesKeepTheirUrl
<1>2. ASSUME IInv PROVE AnsweredCodeIsStored
  <2> SUFFICES ASSUME NEW a \in answered, Decode(a[1]) \notin unstored
               PROVE  RowsWith(Text(Decode(a[1]))) = {Decode(a[1])}
    BY DEF AnsweredCodeIsStored
  <2>1. PICK id \in DOMAIN table : id = Decode(a[1]) /\ table[id].code = Text(id)
    BY <1>2 DEF IInv, Kept, RightFor, Stored
  <2>2. RowsWith(table[id].code) = {id}
    BY <1>2, RowFacts
  <2> QED BY <2>1, <2>2
<1>3. IInv => CodesResolve
  BY <1>1, <1>2 DEF CodesResolve
<1> QED BY <1>3, SpecKeepsIInv, PTL

\* The codes checked by the run are right, and so is every other: a code is made
\* of base-62 digits and names its id (DecodeInvertsEncode).
THEOREM CodesAreTheirIds == Spec => []CodesNameTheirId
<1>1. ASSUME NEW id \in CodedIds
      PROVE  LET code == Encode(id)
             IN  Decode(code) = id /\ \A i \in 1..Len(code) : Val(code[i]) \in 0..61
  <2>1. id \in Nat
    BY DEF CodedIds
  <2> QED BY <2>1, DecodeInvertsEncode DEF Digital
<1>2. CodesNameTheirId
  BY <1>1 DEF CodesNameTheirId, CodesAreRight
<1> QED BY <1>2, PTL

=============================================================================
