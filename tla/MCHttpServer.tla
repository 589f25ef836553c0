---------------------------- MODULE MCHttpServer ----------------------------
(* Streams made of requests that take every turn of the parser, and texts    *)
(* for the text functions OnMessage uses while it handles a request.         *)
EXTENDS HttpServer, HttpText

Line(route, version) == [kind |-> "line", route |-> route, version |-> version]
Header(key, val) == [kind |-> "head", key |-> key, val |-> val]
Blank == [kind |-> "blank"]
Junk == [kind |-> "junk"]
Part == [kind |-> "part"]
Byte == [kind |-> "byte"]
Length(n) == [kind |-> "head", key |-> "Content-Length", len |-> n]

\* Requests that are answered at once, deferred, deferred and closed,
Short == {
    <<Line("found", "1.1"), Blank>>,
    <<Line("deferred", "1.1"), Blank>>,
    <<Line("deferred", "1.1"), Header("Connection", "close"), Blank>> }

\* of an old client, with a body in two pieces and a second length that does
\* not count, with a length that is negative and one that is no number, and three
\* that cannot be read.
Long == {
    <<Line("file", "1.0"), Blank>>,
    <<Part, Line("missing", "1.1"), Length(2), Length(1), Blank, Byte, Byte>>,
    <<Line("found", "1.1"), Length(-1), Blank, Byte>>,
    <<Line("found", "1.1"), Length(LongMax), Length(1), Blank, Byte>>,
    <<Line("missing", "1.0"), Header("Connection", "keep-alive"), Byte, Junk, Blank>>,
    <<Line("found", "1.1"), Part, Part, Part, Header("Connection", "close"), Blank>>,
    <<Part, Part, Part, Part>> }

MCStreams == {FlattenSeq(t) : t \in SeqOf(Short, 3) \cup SeqOf(Short \cup Long, 2)}

\* A blank, a percent sign, a plus, a letter and the first byte of a Chinese character.
MCUrlTexts == SeqOf({-28, Space, Percent, Plus, 97}, 4)
MCPathTexts == SeqOf({Dot, Slash, 97}, 8)

\* Keys and values may look like separators, signs or codes.
MCWords == SeqOf({Ampersand, Equals, Percent}, 2)
MCForms == SeqOf(MCWords \X MCWords, 2)

-----------------------------------------------------------------------------
(* While a request is handled, the text functions do what they are for      *)

\* What UrlEncode wrote with percent codes, UrlDecode gives back.
UrlsComeBack == handling => UrlRoundTrip

\* Split takes a path apart without losing, cutting or inventing a piece, and ValidPath
\* refuses it exactly if it leaves the base directory at one of them.
PathsStayInside == handling => SplitLosesNothing /\ ValidPathStaysInside

\* ParseHttpLine finds the keys and values of a form as the client meant them.
ParamsComeBack == handling => ParamsReadBack
=============================================================================
