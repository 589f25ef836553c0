----------------------------- MODULE HttpServer -----------------------------
(***************************************************************************)
(* One connection of HttpServer (src/net/http/http.hpp): the byte stream   *)
(* arrives in pieces in the connection's Buffer; OnMessage reads requests  *)
(* from it, line by line and body by body, and answers them in place or    *)
(* leaves the answer to another thread (a deferred request).               *)
(*                                                                         *)
(* A byte of the model is a unit that the parser tells apart: a piece of a *)
(* line, the rest of a line with its line feed, or a byte of a body.       *)
(* A step is what the io thread does between two looks at the buffer.      *)
(***************************************************************************)
EXTENDS Integers, Sequences, SequencesExt, FiniteSets

CONSTANTS
    Streams,        \* what a peer may send, each a sequence of units
    MaxRecv,        \* how much HandleRead takes at once
    MaxLine,        \* MAX_LINE
    LongMax,        \* the first number that is too large for a long
    BufferSize      \* BUFFER_DEFAULT_SIZE

Routes == {"file", "found", "missing", "deferred"}

\* What std::stol makes of a text; LongMax stands for any text that it throws at:
\* no number, or one out of range.
Longs == (-LongMax)..LongMax

\* The rest of a request line, of a header, and what has only its kind.
LineUnits == [kind : {"line"}, route : Routes, version : {"1.0", "1.1"}]
HeadUnits == [kind : {"head"}, key : {"Connection", "other"},
              val : {"close", "keep-alive", "other"}]
                 \cup [kind : {"head"}, key : {"Content-Length"}, len : Longs]
OtherUnits == [kind : {"blank", "junk", "part", "byte"}]

Nothing == [kind |-> "zero"]
Units == (UNION {Range(s) : s \in Streams}) \cup {Nothing}

ASSUME HttpAssumption ==
    /\ {MaxRecv, MaxLine, BufferSize, LongMax} \subseteq Nat \ {0}
    /\ \A s \in Streams : /\ s \in Seq(LineUnits \cup HeadUnits \cup OtherUnits)
                          /\ Len(s) < LongMax

VARIABLES
    stream, sent,   \* what the peer sends, and how much of it has arrived
    consumed,       \* history: how much of it the server has taken off the buffer
    in,             \* _in_buffer
    ctx,            \* HttpContext: _resp_statu, _recv_statu, _request, _async_pending
    status,         \* Connection::_status, or TERMINATED: the program has ended
    releasing,      \* the release of the connection is posted
    handling,       \* the io thread is inside OnMessage
    job,            \* the deferred request: at the worker, posted to the loop, or none
    answers         \* what was sent: status code and Connection header

vars == <<stream, sent, consumed, in, ctx, status, releasing, handling, job, answers>>

B == INSTANCE ByteBuffer WITH Byte <- Units, Zero <- Nothing

EndsLine(u) == u.kind \in {"line", "head", "blank", "junk"}
LineEnds == {u \in Units : EndsLine(u)}
CodeOf(route) == CASE route = "missing" -> 404 [] route = "deferred" -> 302 [] OTHER -> 200

\* HttpRequest::ReSet, and HttpContext::ReSet.
NewRequest == [route |-> "none", version |-> "1.1", headers |-> <<>>, body |-> <<>>]
NewContext == [statu |-> 200, recv |-> "LINE", request |-> NewRequest, pending |-> FALSE]
NoJob == [at |-> "none", close |-> FALSE]

Init ==
    /\ stream \in Streams /\ sent = 0 /\ consumed = 0
    /\ in = B!NewBuffer(BufferSize)
    /\ ctx = NewContext
    /\ status = "CONNECTED" /\ releasing = FALSE /\ handling = FALSE
    /\ job = NoJob
    /\ answers = <<>>

\* The value of a header; one that is a length is kept as the number it stands for.
ValueOf(u) == IF u.key = "Content-Length" THEN u.len ELSE u.val

\* HttpRequest::SetHeader: insert leaves a header that is there.
SetHeader(req, u) ==
    [req EXCEPT !.headers = [key \in DOMAIN req.headers \cup {u.key} |->
        IF key \in DOMAIN req.headers THEN req.headers[key] ELSE ValueOf(u)]]

\* HttpRequest::IsClose
IsClose(req) ==
    IF "Connection" \in DOMAIN req.headers
       /\ req.headers["Connection"] \in {"close", "keep-alive"}
    THEN req.headers["Connection"] = "close"
    ELSE req.version # "1.1"

\* HttpRequest::ContentLength: std::stol throws at the text of the first length,
Throws(req) ==
    "Content-Length" \in DOMAIN req.headers /\ req.headers["Content-Length"] = LongMax

\* or gives a long, which becomes a size_t: a negative one becomes larger than any long.
Size(n) == IF n < 0 THEN n + 2 * LongMax ELSE n

ContentLength(req) ==
    IF "Content-Length" \in DOMAIN req.headers THEN Size(req.headers["Content-Length"]) ELSE 0

\* WriteResponse: Send drops everything once the connection is half-closed.
WriteResponse(code, close) ==
    answers' = IF status = "CONNECTED" THEN Append(answers, [code |-> code, close |-> close])
               ELSE answers

-----------------------------------------------------------------------------
(* What the loop calls.                                                     *)

\* HandleRead: whatever the kernel has, up to the size of the local array.
HandleRead ==
    /\ ~handling /\ status = "CONNECTED" /\ ~releasing
    /\ \E n \in 1..MaxRecv :
        /\ sent + n <= Len(stream)
        /\ in' = B!WriteAndpush(in, SubSeq(stream, sent + 1, sent + n))
        /\ sent' = sent + n
    /\ handling' = TRUE
    /\ UNCHANGED <<stream, consumed, ctx, status, releasing, job, answers>>

\* ShutdownInLoop: no more reads, and OnMessage once more for what is left.
Shutdown(b) ==
    IF status = "CONNECTED"
    THEN status' = "DISCONNECTING" /\ handling' = (B!ReadableBytes(b) > 0)
    ELSE UNCHANGED <<status, handling>>

\* HandleRead at the end of the stream or on an error of the socket.
PeerCloses ==
    /\ ~handling /\ status = "CONNECTED" /\ ~releasing
    /\ Shutdown(in)
    /\ UNCHANGED <<stream, sent, consumed, in, ctx, releasing, job, answers>>

\* HandleClose, HandleError, and HandleWrite when the send fails: OnMessage once
\* more, with the status as it was, and the release is posted.
HandleClose ==
    /\ ~handling /\ status \in {"CONNECTED", "DISCONNECTING"} /\ ~releasing
    /\ releasing' = TRUE
    /\ handling' = (B!ReadableBytes(in) > 0)
    /\ UNCHANGED <<stream, sent, consumed, in, ctx, status, job, answers>>

\* ReleaseInLoop: posted by one of these, by a half-close that has nothing left to
\* send, or by the inactivity timer.
ReleaseInLoop ==
    /\ ~handling /\ status \in {"CONNECTED", "DISCONNECTING"}
    /\ status' = "DISCONNECTED"
    /\ UNCHANGED <<stream, sent, consumed, in, ctx, releasing, handling, job, answers>>

\* The worker has the result and posts the lambda that answers to the loop.
WorkerPosts ==
    /\ job.at = "worker"
    /\ job' = [job EXCEPT !.at = "loop"]
    /\ UNCHANGED <<stream, sent, consumed, in, ctx, status, releasing, handling, answers>>

\* The posted lambda: Send, ReSet, Shutdown if the request asked for it.
Answer ==
    /\ ~handling /\ job.at = "loop"
    /\ WriteResponse(CodeOf("deferred"), job.close)
    /\ ctx' = NewContext
    /\ job' = NoJob
    /\ IF job.close THEN Shutdown(in) ELSE UNCHANGED <<status, handling>>
    /\ UNCHANGED <<stream, sent, consumed, in, releasing>>

-----------------------------------------------------------------------------
(* OnMessage                                                                *)

\* Mutant: without a whole line OnMessage looks again instead of returning.
StopSpins == UNCHANGED <<handling, consumed, in, ctx>>

Stop == handling' = FALSE /\ UNCHANGED <<consumed, in, ctx>>

Take(n) == consumed' = consumed + n /\ in' = B!MoveReadoffset(in, n)

Fail(code) == ctx' = [ctx EXCEPT !.recv = "ERROR", !.statu = code]

\* The loop ends when the buffer is empty, and while an answer is deferred.
Pause ==
    /\ handling
    /\ ctx.pending \/ (ctx.recv = "LINE" /\ B!ReadableBytes(in) = 0)
    /\ Stop
    /\ UNCHANGED <<stream, sent, status, releasing, job, answers>>

\* ParseHttpLine
ParseHttpLine(line) ==
    IF Last(line).kind # "line" THEN Fail(400)
    ELSE ctx' = [ctx EXCEPT !.recv = "HEAD", !.request.route = Last(line).route,
                            !.request.version = Last(line).version]

\* ParseHttpHead, and the empty line that ends the headers.
ParseHttpHead(line) ==
    IF line = <<[kind |-> "blank"]>> THEN ctx' = [ctx EXCEPT !.recv = "BODY"]
    ELSE IF Last(line).kind # "head" THEN Fail(400)
    ELSE ctx' = [ctx EXCEPT !.request = SetHeader(@, Last(line))]

\* RecvHttpLine and one turn of RecvHttpHead: without a whole line, wait.
RecvLine ==
    /\ handling /\ ~ctx.pending
    /\ \/ ctx.recv = "LINE" /\ B!ReadableBytes(in) > 0
       \/ ctx.recv = "HEAD"
    /\ LET line == B!GetLine(in, LineEnds) IN
       IF line = <<>>
       THEN IF B!ReadableBytes(in) > MaxLine
            THEN Fail(414) /\ UNCHANGED <<consumed, in, handling>>
            ELSE Stop
       ELSE /\ Take(Len(line)) /\ UNCHANGED handling
            /\ IF Len(line) > MaxLine THEN Fail(414)
               ELSE IF ctx.recv = "LINE" THEN ParseHttpLine(line) ELSE ParseHttpHead(line)
    /\ UNCHANGED <<stream, sent, status, releasing, job, answers>>

\* Mutant: the part of the body that was read before is forgotten.
RecvHttpBodyFromStart ==
    /\ handling /\ ctx.recv = "BODY" /\ ~Throws(ctx.request)
    /\ LET missing == ContentLength(ctx.request)
           n == IF B!ReadableBytes(in) >= missing THEN missing ELSE B!ReadableBytes(in)
       IN  /\ Take(n)
           /\ ctx' = [ctx EXCEPT !.request.body = @ \o B!ReadAsstring(in, n),
                                 !.recv = IF n = missing THEN "OVER" ELSE "BODY"]
           /\ handling' = (n = missing)
    /\ UNCHANGED <<stream, sent, status, releasing, job, answers>>

\* RecvHttpBody: take what there is of the body; it may be all.
RecvHttpBody ==
    /\ handling /\ ctx.recv = "BODY" /\ ~Throws(ctx.request)
    /\ LET missing == ContentLength(ctx.request) - Len(ctx.request.body)
           n == IF B!ReadableBytes(in) >= missing THEN missing ELSE B!ReadableBytes(in)
       IN  /\ Take(n)
           /\ ctx' = [ctx EXCEPT !.request.body = @ \o B!ReadAsstring(in, n),
                                 !.recv = IF n = missing THEN "OVER" ELSE "BODY"]
           /\ handling' = (n = missing)
    /\ UNCHANGED <<stream, sent, status, releasing, job, answers>>

\* std::stol throws, nobody catches it, and the program ends inside OnMessage.
ContentLengthThrows ==
    /\ handling /\ ctx.recv = "BODY" /\ Throws(ctx.request)
    /\ status' = "TERMINATED"
    /\ UNCHANGED <<stream, sent, consumed, in, ctx, releasing, handling, job, answers>>

\* A request that cannot be read: error page, the rest is thrown away, half-close.
HandleError ==
    /\ handling /\ ctx.statu >= 400
    /\ WriteResponse(ctx.statu, IsClose(ctx.request))
    /\ ctx' = NewContext
    /\ Take(B!ReadableBytes(in))
    /\ status' = IF status = "CONNECTED" THEN "DISCONNECTING" ELSE status
    /\ handling' = FALSE
    /\ UNCHANGED <<stream, sent, releasing, job>>

\* Mutant: the buffer is emptied with the context.
HandleRequestDrains ==
    /\ handling /\ ~ctx.pending
    /\ ctx.recv = "OVER" /\ ctx.request.route # "deferred"
    /\ WriteResponse(CodeOf(ctx.request.route), IsClose(ctx.request))
    /\ ctx' = NewContext
    /\ Take(B!ReadableBytes(in))
    /\ UNCHANGED <<stream, sent, status, releasing, handling, job>>

\* Route to a handler that answers. IsClose is asked of the request that ReSet
\* has emptied.
HandleRequest ==
    /\ handling /\ ~ctx.pending
    /\ ctx.recv = "OVER" /\ ctx.request.route # "deferred"
    /\ WriteResponse(CodeOf(ctx.request.route), IsClose(ctx.request))
    /\ ctx' = NewContext
    /\ IF IsClose(NewRequest) THEN Shutdown(in) ELSE UNCHANGED <<status, handling>>
    /\ UNCHANGED <<stream, sent, consumed, in, releasing, job>>

\* Route to a handler that sets _deferred.
DeferRequest ==
    /\ handling /\ ~ctx.pending
    /\ ctx.recv = "OVER" /\ ctx.request.route = "deferred"
    /\ job' = [at |-> "worker", close |-> IsClose(ctx.request)]
    /\ ctx' = [ctx EXCEPT !.pending = TRUE]
    /\ handling' = FALSE
    /\ UNCHANGED <<stream, sent, consumed, in, status, releasing, answers>>

OnMessage ==
    \/ Pause \/ RecvLine \/ RecvHttpBody \/ ContentLengthThrows
    \/ HandleError \/ HandleRequest \/ DeferRequest

\* The connection has been released or the program has ended.
Done ==
    /\ \/ ~handling /\ job = NoJob /\ status = "DISCONNECTED"
       \/ status = "TERMINATED"
    /\ UNCHANGED vars

Next ==
    \/ HandleRead \/ PeerCloses \/ HandleClose \/ ReleaseInLoop
    \/ WorkerPosts \/ Answer \/ OnMessage \/ Done

Spec == Init /\ [][Next]_vars

\* The io thread runs, the worker gets a result, posted functors are run.
FairSpec == Spec /\ WF_vars(OnMessage) /\ WF_vars(WorkerPosts) /\ WF_vars(Answer)

-----------------------------------------------------------------------------
(* Properties.                                                              *)

(* What a server that sees the whole of s at once makes of it.              *)

\* Where the line that begins at i ends, or 0.
LineEnd(s, i) ==
    LET ends == {j \in i..Len(s) : EndsLine(s[j])}
    IN  IF ends = {} THEN 0 ELSE Min(ends)

TooLong(s, i) == (IF LineEnd(s, i) = 0 THEN Len(s) ELSE LineEnd(s, i)) - i + 1 > MaxLine

\* Of a header line: 0 goes on, 1 is not complete, 2 ends the headers.
Verdict(s, i) ==
    IF TooLong(s, i) THEN 414
    ELSE IF LineEnd(s, i) = 0 THEN 1
    ELSE IF LineEnd(s, i) = i /\ s[i].kind = "blank" THEN 2
    ELSE IF s[LineEnd(s, i)].kind # "head" THEN 400
    ELSE 0

\* Where lines begin, from first on.
LineStarts(s, first) ==
    {p \in first..(Len(s) + 1) : p = first \/ EndsLine(s[p - 1])}

HeadEnd(s, first) == Min({p \in LineStarts(s, first) : Verdict(s, p) # 0})

\* The first length counts. A body that would be longer than the stream is never
\* complete: so it is behind a negative length, and behind one that ends the program.
Lengths(s, first, last) ==
    {p \in LineStarts(s, first) : p < last /\ s[LineEnd(s, p)].key = "Content-Length"}

BodySize(s, first, last) ==
    IF Lengths(s, first, last) = {} THEN 0
    ELSE Size(s[LineEnd(s, Min(Lengths(s, first, last)))].len)

\* The codes from i on, if after is what they are from any later place on.
CodesFrom(s, after, i) ==
    LET end == LineEnd(s, i)
        last == HeadEnd(s, end + 1)
        next == last + BodySize(s, end + 1, last) + 1
    IN  IF TooLong(s, i) THEN <<414>>
        ELSE IF end = 0 THEN <<>>
        ELSE IF s[end].kind # "line" THEN <<400>>
        ELSE IF Verdict(s, last) >= 400 THEN <<Verdict(s, last)>>
        ELSE IF Verdict(s, last) # 2 \/ next > Len(s) + 1 THEN <<>>
        ELSE <<CodeOf(s[end].route)>> \o after[next]

\* The codes it answers with to what begins at each place, up to the first
\* request it cannot read or that is not complete.
From(s) ==
    LET from[i \in 1..(Len(s) + 1)] == CodesFrom(s, from, i)
    IN  from

Reference(s) == From(s)[1]

Codes == [i \in 1..Len(answers) |-> answers[i].code]
Arrived == SubSeq(stream, 1, sent)

\* OnMessage has returned, nothing is deferred and the next request has not begun.
AtRest == ~handling /\ job = NoJob /\ status = "CONNECTED" /\ ctx.recv = "LINE"

\* Types; the indices of the buffer stay in order inside the vector.
TypeOK ==
    /\ stream \in Streams /\ sent \in 0..Len(stream) /\ consumed \in 0..sent
    /\ B!WellFormed(in)
    /\ ctx.recv \in {"LINE", "HEAD", "BODY", "OVER", "ERROR"} /\ ctx.pending \in BOOLEAN
    /\ ctx.statu \in {200, 400, 414} /\ (ctx.statu # 200 <=> ctx.recv = "ERROR")
    /\ ctx.request.route \in Routes \cup {"none"}
    /\ status \in {"CONNECTED", "DISCONNECTING", "DISCONNECTED", "TERMINATED"}
    /\ handling \in BOOLEAN /\ releasing \in BOOLEAN
    /\ job \in [at : {"none", "worker", "loop"}, close : BOOLEAN]

\* Through every compaction and growth the buffer holds exactly the part of the
\* stream that has arrived and has not been taken.
BufferIsTheStream == B!Content(in) = SubSeq(stream, consumed + 1, sent)

\* However the stream is cut into pieces, whatever is deferred and whenever the
\* peer leaves: the answers are those of the whole stream, in order, from the first.
AnswersAsExpected == IsPrefix(Codes, Reference(stream))

\* When the server is at rest every request that arrived is answered or still
\* in the buffer: none is skipped, cut or answered twice.
NothingLostOnTheWay == AtRest => Codes \o Reference(B!Content(in)) = Reference(Arrived)

\* While another thread works on an answer the context keeps its request: the
\* lambda's ReSet clears no other one.
PendingGuardsContext ==
    job.at # "none" <=> (ctx.pending /\ ctx.recv = "OVER" /\ ctx.request.route = "deferred")

\* What buffer, context and deferred request keep between any two steps.
HttpInv == TypeOK /\ BufferIsTheStream /\ PendingGuardsContext

\* The while loop of OnMessage ends, for every stream in any pieces, except where
\* it takes the whole program with it: at a length that is none.
HandlingEnds ==
    handling ~> \/ ~handling
                \/ status = "TERMINATED" /\ Throws(ctx.request)

\* http.hpp:915: a request that asks for it ends the connection. The request
\* has been cleared when it is asked.
CloseIsKept ==
    (~handling /\ job = NoJob /\ answers # <<>> /\ Last(answers).close) => status # "CONNECTED"
=============================================================================
