---------------------------- MODULE MCShortener ----------------------------
(* The shortener, with its codes checked on the ids of up to three digits.   *)
EXTENDS Shortener

CodedIds == 0..200 \cup 3800..3900

CodesAreRight == \A id \in CodedIds :
    LET code == Encode(id)
    IN  Decode(code) = id /\ \A i \in 1..Len(code) : Val(code[i]) \in 0..61

\* A code names the id it was made from, so two ids never share one, and is what
\* the route of shortener_server.cc lets through.  ApiShorten makes codes of the
\* ids of its rows; what they are depends on no state.
CodesNameTheirId == answered # {} => CodesAreRight
=============================================================================
