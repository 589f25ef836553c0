------------------------------ MODULE HttpText ------------------------------
(***************************************************************************)
(* The text functions of Util (src/net/http/http.hpp) and the parameters   *)
(* ParseHttpLine takes from a query, on sequences of character codes.  A   *)
(* char is signed: a byte above 127 is a negative code.                    *)
(***************************************************************************)
EXTENDS Integers, FiniteSets, Sequences

CONSTANTS
    UrlTexts,       \* texts that are encoded,
    PathTexts,      \* decoded paths,
    Forms           \* and what a client sends in a query: pairs of key and value

Chars == -128..127

ASSUME TextAssumption ==
    /\ UrlTexts \subseteq Seq(Chars) /\ PathTexts \subseteq Seq(Chars)
    /\ Forms \subseteq Seq(Seq(Chars) \X Seq(Chars))

Space == 32
Percent == 37
Ampersand == 38
Plus == 43
Dot == 46
Slash == 47
Equals == 61

-----------------------------------------------------------------------------
(* Split                                                                    *)

\* Mutant: what follows the last separator is left out.
SplitDropsLast(src, sep) ==
    LET from[o \in 1..(Len(src) + 1)] ==
            LET seps == {i \in o..Len(src) : src[i] = sep} IN
            IF seps = {} THEN <<>>
            ELSE LET pos == CHOOSE i \in seps : \A j \in seps : i <= j
                 IN  (IF pos > o THEN <<SubSeq(src, o, pos - 1)>> ELSE <<>>) \o from[pos + 1]
    IN  from[1]

\* From one separator to the next; empty pieces are left out.
Split(src, sep) ==
    LET from[o \in 1..(Len(src) + 1)] ==
            LET seps == {i \in o..Len(src) : src[i] = sep} IN
            IF o > Len(src) THEN <<>>
            ELSE IF seps = {} THEN <<SubSeq(src, o, Len(src))>>
            ELSE LET pos == CHOOSE i \in seps : \A j \in seps : i <= j
                 IN  (IF pos > o THEN <<SubSeq(src, o, pos - 1)>> ELSE <<>>) \o from[pos + 1]
    IN  from[1]

-----------------------------------------------------------------------------
(* UrlEncode and UrlDecode                                                  *)

Unreserved(c) == c \in 48..57 \cup 65..90 \cup 97..122 \cup {45, 46, 95, 126}

HexDigit(n) == IF n < 10 THEN 48 + n ELSE 55 + n

\* snprintf(buf, 4, "%%%02X", c): a negative c prints as FFFFFF.. and is cut to FF.
Escape(c) ==
    IF c < 0 THEN <<Percent, HexDigit(15), HexDigit(15)>>
    ELSE <<Percent, HexDigit(c \div 16), HexDigit(c % 16)>>

Encoded(c, spaceToPlus) ==
    IF Unreserved(c) THEN <<c>>
    ELSE IF c = Space /\ spaceToPlus THEN <<Plus>> ELSE Escape(c)

UrlEncode(url, spaceToPlus) ==
    LET from[i \in 1..(Len(url) + 1)] ==
            IF i > Len(url) THEN <<>> ELSE Encoded(url[i], spaceToPlus) \o from[i + 1]
    IN  from[1]

\* Hextoi takes every letter for a digit.
Hextoi(c) ==
    CASE c \in 48..57 -> c - 48
      [] c \in 65..90 -> c - 55
      [] c \in 97..122 -> c - 87
      [] OTHER -> -1

\* (high << 4) | low, as a signed char: low may have bits above the fourth.
SetBit(n, bit) == IF bit = 0 \/ (n \div bit) % 2 = 1 THEN n ELSE n + bit
Combine(high, low) ==
    LET c == (16 * SetBit(high, low \div 16) + (low % 16)) % 256
    IN  IF c > 127 THEN c - 256 ELSE c

\* Mutant: a code at the very end is taken for text.
CodedButLast(url, i) ==
    /\ url[i] = Percent /\ i + 2 < Len(url)
    /\ Hextoi(url[i + 1]) # -1 /\ Hextoi(url[i + 2]) # -1

Coded(url, i) ==
    /\ url[i] = Percent /\ i + 2 <= Len(url)
    /\ Hextoi(url[i + 1]) # -1 /\ Hextoi(url[i + 2]) # -1

\* A plus becomes a space, and stays: the branch does not leave the turn.
Literal(c, plusToSpace) == IF c = Plus /\ plusToSpace THEN <<Space, c>> ELSE <<c>>

UrlDecode(url, plusToSpace) ==
    LET from[i \in 1..(Len(url) + 3)] ==
            IF i > Len(url) THEN <<>>
            ELSE IF Coded(url, i)
            THEN <<Combine(Hextoi(url[i + 1]), Hextoi(url[i + 2]))>> \o from[i + 3]
            ELSE Literal(url[i], plusToSpace) \o from[i + 1]
    IN  from[1]

-----------------------------------------------------------------------------
(* ValidPath                                                                *)

\* Mutant: only the depth at the end counts.
ValidPathAtEnd(path) ==
    LET pieces == Split(path, Slash)
        level[k \in 0..Len(pieces)] ==
            IF k = 0 THEN 0
            ELSE IF pieces[k] = <<Dot, Dot>> THEN level[k - 1] - 1
            ELSE IF pieces[k] \in {<<>>, <<Dot>>} THEN level[k - 1] ELSE level[k - 1] + 1
    IN  level[Len(pieces)] >= 0

\* False as soon as the depth is negative.
ValidPath(path) ==
    LET pieces == Split(path, Slash)
        level[k \in 0..Len(pieces)] ==
            IF k = 0 THEN 0
            ELSE IF level[k - 1] < 0 THEN level[k - 1]
            ELSE IF pieces[k] = <<Dot, Dot>> THEN level[k - 1] - 1
            ELSE IF pieces[k] \in {<<>>, <<Dot>>} THEN level[k - 1] ELSE level[k - 1] + 1
    IN  level[Len(pieces)] >= 0

-----------------------------------------------------------------------------
(* The query of ParseHttpLine                                               *)

\* Mutant: the query is decoded before it is taken apart.
FieldsDecoded(query) == Split(UrlDecode(query, TRUE), Ampersand)

Fields(query) == Split(query, Ampersand)

\* Where the first "=" of a field is, or 0; without one the answer is 400.
Sign(field) ==
    LET signs == {i \in 1..Len(field) : field[i] = Equals} IN
    IF signs = {} THEN 0 ELSE CHOOSE i \in signs : \A j \in signs : i <= j

Key(field) == UrlDecode(SubSeq(field, 1, Sign(field) - 1), TRUE)
Value(field) == UrlDecode(SubSeq(field, Sign(field) + 1, Len(field)), TRUE)

Accepted(query) == \A i \in 1..Len(Fields(query)) : Sign(Fields(query)[i]) # 0

\* SetParam: insert leaves a parameter that is there.
Params(query) ==
    LET fields == Fields(query)
        Firsts == {i \in 1..Len(fields) : \A j \in 1..(i - 1) : Key(fields[j]) # Key(fields[i])}
    IN  [key \in {Key(fields[i]) : i \in Firsts} |->
            Value(fields[CHOOSE i \in Firsts : Key(fields[i]) = key])]

\* What a client that encodes with percent codes makes of a form.
Query(form) ==
    LET Field(i) == UrlEncode(form[i][1], FALSE) \o <<Equals>> \o UrlEncode(form[i][2], FALSE)
        from[i \in 1..(Len(form) + 1)] ==
            IF i > Len(form) THEN <<>>
            ELSE (Field(i) \o IF i < Len(form) THEN <<Ampersand>> ELSE <<>>) \o from[i + 1]
    IN  from[1]

-----------------------------------------------------------------------------
\* The first characters of the runs between separators.
Starts(text, sep) == {i \in 1..Len(text) : text[i] # sep /\ (i = 1 \/ text[i - 1] = sep)}

\* Split makes one piece of each run between separators, whole and in order, and
\* nothing else: it loses, cuts and invents nothing.
SplitLosesNothing == \A text \in PathTexts :
    LET pieces == Split(text, Slash)
        starts == Starts(text, Slash)
    IN  /\ Len(pieces) = Cardinality(starts)
        /\ \A i \in starts : \E last \in i..Len(text) :
            /\ \A j \in i..last : text[j] # Slash
            /\ last = Len(text) \/ text[last + 1] = Slash
            /\ pieces[Cardinality({j \in starts : j <= i})] = SubSeq(text, i, last)

\* What a percent code keeps of a text: every byte above 127 becomes the last one.
Kept(text) == [i \in 1..Len(text) |-> IF text[i] < 0 THEN -1 ELSE text[i]]

\* What UrlEncode wrote with percent codes only, UrlDecode reads back, in a path
\* and in a query: the text, as far as percent codes keep it.
UrlRoundTrip == \A text \in UrlTexts, plusToSpace \in BOOLEAN :
    UrlDecode(UrlEncode(text, FALSE), plusToSpace) = Kept(text)

\* A valid path never climbs above the base directory, at none of its pieces.
ValidPathStaysInside == \A text \in PathTexts :
    LET pieces == Split(text, Slash)
        Climbs(k) == Cardinality({i \in 1..k : pieces[i] = <<Dot, Dot>>})
        Enters(k) == Cardinality({i \in 1..k : pieces[i] \notin {<<Dot>>, <<Dot, Dot>>}})
    IN  ValidPath(text) <=> \A k \in 1..Len(pieces) : Climbs(k) <= Enters(k)

\* A handler finds under each key of a form the first value the client gave it, and
\* no other key, whatever separators and codes keys and values contain.
ParamsReadBack == \A form \in Forms :
    LET Sent(i) == Kept(form[i][1]) IN
    /\ Accepted(Query(form))
    /\ DOMAIN Params(Query(form)) = {Sent(i) : i \in 1..Len(form)}
    /\ \A i \in 1..Len(form) : (\A j \in 1..(i - 1) : Sent(j) # Sent(i))
            => Params(Query(form))[Sent(i)] = Kept(form[i][2])
=============================================================================
