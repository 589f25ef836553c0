------------------------------- MODULE Base62 -------------------------------
(***************************************************************************)
(* Base62 (src/net/http/shortener/base62.hpp): an id as a sequence of      *)
(* character codes, the most significant digit first, and back.            *)
(***************************************************************************)
EXTENDS Integers, Sequences, SequencesExt

\* ALPHABET: the digits, the capitals, the small letters.
Alphabet(d) == IF d < 10 THEN 48 + d ELSE IF d < 36 THEN 55 + d ELSE 61 + d

\* Mutant: the digits stay in the order in which they were found.
EncodeUnreversed(id) ==
    LET digits[n \in 0..id] == IF n = 0 THEN <<>> ELSE <<Alphabet(n % 62)>> \o digits[n \div 62]
    IN  IF id = 0 THEN <<48>> ELSE digits[id]

Encode(id) ==
    LET digits[n \in 0..id] == IF n = 0 THEN <<>> ELSE <<Alphabet(n % 62)>> \o digits[n \div 62]
    IN  IF id = 0 THEN <<48>> ELSE Reverse(digits[id])

\* The value of a character, or nothing of the alphabet.
Val(c) ==
    CASE c \in 48..57 -> c - 48
      [] c \in 65..90 -> c - 55
      [] c \in 97..122 -> c - 61
      [] OTHER -> -1

\* Decode: 0 for a code with a foreign character.
Decode(code) ==
    LET value[n \in 0..Len(code)] == IF n = 0 THEN 0 ELSE value[n - 1] * 62 + Val(code[n])
    IN  IF \E i \in 1..Len(code) : Val(code[i]) = -1 THEN 0 ELSE value[Len(code)]
=============================================================================
