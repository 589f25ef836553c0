----------------------------- MODULE Connection -----------------------------
(***************************************************************************)
(* The life of one TCP connection of a TcpServer: src/TcpServer.cc,        *)
(* src/Connection.cc, src/Channel.cc, src/Poller.cc, run by an io loop     *)
(* (src/EventLoop.cc) and, with SingleLoop FALSE, a base loop on another   *)
(* thread that accepts the connection and keeps it in _connections.        *)
(*                                                                         *)
(* The io thread executes `todo', the statements that remain of the        *)
(* handler it is in, one per step; a callback of the application puts the  *)
(* calls it makes in front.  A task is the handler it will start, bound to *)
(* a raw `this'.  Bytes are counted, not named.                            *)
(***************************************************************************)
EXTENDS Integers, Sequences

CONSTANTS SingleLoop,     \* TRUE: no pool, the base loop is the io loop
          ServerTimeout,  \* TRUE: TcpServer::EnableInactiveRelease was called
          MessagePlans,   \* calls a message callback may make, in order
          ConnectedPlans, \* calls a connected callback may make
          EventPlans,     \* calls an event callback may make
          OtherCalls,     \* calls made from elsewhere with a kept PtrConnection
          MaxOther,       \* bound on those calls
          MaxRecv,        \* bound on the chunks the peer sends
          MaxOut          \* bound on the chunks waiting in _out_buffer

\* sendNothing is a Send of length 0.
Calls == {"consume", "send", "sendNothing", "shutdown", "release", "enable", "cancel"}
TaskKinds == {"established", "enable", "cancel", "send", "sendNothing", "shutdown",
              "releaseInLoop"}
Statements == Calls \cup TaskKinds \cup
    {"read", "write", "close", "event", "message", "endShutdown", "connected",
     "closed", "removeConnection", "insert"}

ASSUME ConnectionAssumption ==
    /\ SingleLoop \in BOOLEAN /\ ServerTimeout \in BOOLEAN
    /\ MessagePlans \subseteq Seq(Calls) /\ ConnectedPlans \subseteq Seq(Calls)
    /\ EventPlans \subseteq Seq(Calls)
    /\ OtherCalls \subseteq Calls \ {"consume"}
    /\ MaxOther \in Nat /\ MaxRecv \in Nat /\ MaxOut \in Nat \ {0}

VARIABLES
    (* Connection *)
    status,       \* _status
    enabled,      \* _enable_inactive_release
    inBuf,        \* chunks in _in_buffer
    outBuf,       \* chunks in _out_buffer
    events,       \* _conne_channel._events
    registered,   \* the channel is in the poller's map and in epoll
    timer,        \* the wheel's entry for _conne_id: none, armed or muted
    due,          \* the slot that entry waits for is the next to be emptied
    (* owners of the object *)
    accepting,    \* progress of TcpServer::NewConnection, which holds one
    inMap,        \* _connections has it
    removals,     \* RemoveConnectionInLoop tasks of the base loop, each holds one
    kept,         \* the application keeps a PtrConnection
    (* the io loop *)
    phase,        \* poll, handle (the active channels) or run (RunAllTask)
    ready,        \* channels of the batch still to be handled
    revents,      \* _revents of the connection's channel
    todo,         \* statements left of the running handler
    tasks,        \* _task of the io loop
    batch,        \* tmp of RunAllTask
    crashed,      \* an assertion failed, or freed memory was used fatally
    (* kernel and peer *)
    peer,         \* open, fin, rst (error pending) or dead (error consumed)
    recvQ,        \* chunks in the socket's receive queue
    writable,     \* the socket's send buffer has room
    sent,         \* chunks the peer has sent so far
    others,       \* calls made from elsewhere so far
    (* history *)
    closedCalls,  \* runs of the application's closed callback
    abrupt,       \* something other than a drained Shutdown asked for release
    nudged        \* a Send of length 0 came since the output buffer was last drained

conn == <<status, enabled, inBuf, outBuf, events, registered>>
wheel == <<timer, due>>
owners == <<accepting, inMap, removals, kept>>
place == <<phase, ready, revents, batch>>
kernel == <<peer, recvQ, writable, sent>>
history == <<closedCalls, abrupt, nudged>>
world == <<conn, wheel, owners, kernel, others, history>>
loop == <<place, todo, tasks, crashed>>
vars == <<world, loop>>

TypeOK ==
    /\ status \in {"CONNECTING", "CONNECTED", "DISCONNECTING", "DISCONNECTED"}
    /\ enabled \in BOOLEAN
    /\ inBuf \in 0 .. MaxRecv /\ outBuf \in 0 .. MaxOut
    /\ events \subseteq {"IN", "OUT"} /\ registered \in BOOLEAN
    /\ timer \in {"none", "armed", "muted"} /\ due \in BOOLEAN
    /\ accepting \in {"none", "created", "posted", "done"}
    /\ inMap \in BOOLEAN /\ removals \in 0 .. 1 /\ kept \in BOOLEAN
    /\ phase \in {"poll", "handle", "run"}
    /\ ready \subseteq {"conn", "timer", "listen"}
    /\ revents \subseteq {"IN", "OUT", "ERR", "HUP"}
    /\ todo \in Seq(Statements) /\ tasks \in Seq(TaskKinds) /\ batch \in Seq(TaskKinds)
    /\ crashed \in BOOLEAN
    /\ peer \in {"open", "fin", "rst", "dead"}
    /\ recvQ \in 0 .. MaxRecv /\ writable \in BOOLEAN
    /\ sent \in 0 .. MaxRecv /\ others \in 0 .. MaxOther
    /\ closedCalls \in 0 .. 2 /\ abrupt \in BOOLEAN /\ nudged \in BOOLEAN

Init ==
    /\ status = "CONNECTING" /\ enabled = FALSE
    /\ inBuf = 0 /\ outBuf = 0 /\ events = {} /\ registered = FALSE
    /\ timer = "none" /\ due = FALSE
    /\ accepting = "none" /\ inMap = FALSE /\ removals = 0 /\ kept = FALSE
    /\ phase = "poll" /\ ready = {} /\ revents = {}
    /\ todo = <<>> /\ tasks = <<>> /\ batch = <<>> /\ crashed = FALSE
    /\ peer = "open" /\ recvQ = 0 /\ writable = TRUE
    /\ sent = 0 /\ others = 0
    /\ closedCalls = 0 /\ abrupt = FALSE /\ nudged = FALSE

\* Somebody owns a share of the Connection object.
Alive == accepting \in {"created", "posted"} \/ inMap \/ removals > 0 \/ kept

-----------------------------------------------------------------------------
(* Statements of the io thread *)

\* The io thread executes statement op: the rest follows, after `first'.
Step(op, first) == /\ ~crashed
                   /\ todo # <<>> /\ Head(todo) = op
                   /\ todo' = first \o Tail(todo)
                   /\ UNCHANGED <<place, others, sent>>

\* op is one of a sequence of statements or tasks.
Among(op, seq) == \E i \in 1 .. Len(seq) : seq[i] = op

Post(op) == tasks' = Append(tasks, op)

\* Channel::Enable*/Disable* end in Poller::UpdateEvent, which adds or
\* modifies the descriptor.
Update(evs) == events' = evs /\ registered' = TRUE

EnableWrite == IF "OUT" \notin events THEN Update(events \cup {"OUT"})
                                      ELSE UNCHANGED <<events, registered>>

\* What handlers do with input nobody consumed, before they go on.
Leftover(next) == IF inBuf > 0 THEN <<"message", next>> ELSE <<next>>

\* Connection::HandleRead, with Socket::Recv: end of stream and errors are
\* both -1, "nothing there" is 0 and runs the callback on what is left over.
\* One recv() takes what fits into the array buf, at least one chunk if there is any.
HandleRead ==
    /\ IF recvQ > 0 \/ peer = "open"
       THEN \E n \in 0 .. recvQ :
            /\ n = 0 => recvQ = 0
            /\ Step("read", IF inBuf + n > 0 THEN <<"message">> ELSE <<>>)
            /\ inBuf' = inBuf + n
            /\ recvQ' = recvQ - n
            /\ UNCHANGED peer
       ELSE /\ Step("read", <<"shutdown">>)
            /\ peer' = IF peer = "rst" THEN "dead" ELSE peer
            /\ UNCHANGED <<inBuf, recvQ>>
    /\ UNCHANGED <<status, enabled, outBuf, events, registered, wheel, owners, tasks,
                   crashed, writable, history>>

\* Connection::HandleWrite when send() fails: leftover input is delivered.
HandleWriteFails ==
    /\ outBuf > 0 /\ peer \in {"rst", "dead"}
    /\ Step("write", Leftover("release"))
    /\ peer' = "dead"
    /\ abrupt' = TRUE
    /\ UNCHANGED <<conn, wheel, owners, tasks, crashed, recvQ, writable, closedCalls, nudged>>

\* Socket::Send takes n chunks (0: EAGAIN, or nothing to send).
Sent(n) ==
    /\ \/ outBuf = 0 /\ n = 0
       \/ outBuf > 0 /\ peer \in {"open", "fin"} /\ n \in 0 .. outBuf
             /\ (n = 0 <=> ~writable)
    /\ outBuf' = outBuf - n
    /\ nudged' = (nudged /\ n < outBuf)
    /\ writable' \in IF n > 0 THEN BOOLEAN ELSE {writable}
    /\ UNCHANGED <<status, enabled, inBuf, wheel, owners, tasks, crashed, peer, recvQ,
                   closedCalls, abrupt>>

\* Mutant: write events stay on when the output buffer is empty.
HandleWriteKeepsInterest(n) ==
    /\ Sent(n)
    /\ Step("write", IF outBuf = n /\ status = "DISCONNECTING" THEN <<"release">> ELSE <<>>)
    /\ UNCHANGED <<events, registered>>

\* Mutant: the half-closed connection is not released once it is drained.
HandleWriteForgetsRelease(n) ==
    /\ Sent(n)
    /\ Step("write", <<>>)
    /\ IF outBuf = n THEN Update(events \ {"OUT"}) ELSE UNCHANGED <<events, registered>>

\* Connection::HandleWrite: with the buffer empty write events are off, and
\* a half-closed connection is released.
HandleWrite(n) ==
    /\ Sent(n)
    /\ Step("write", IF outBuf = n /\ status = "DISCONNECTING" THEN <<"release">> ELSE <<>>)
    /\ IF outBuf = n THEN Update(events \ {"OUT"}) ELSE UNCHANGED <<events, registered>>

\* Mutant: leftover input is delivered and the release is forgotten.
HandleCloseKeepsConnection ==
    /\ Step("close", IF inBuf > 0 THEN <<"message">> ELSE <<"release">>)
    /\ abrupt' = TRUE
    /\ UNCHANGED <<conn, wheel, owners, tasks, crashed, peer, recvQ, writable, closedCalls, nudged>>

\* Connection::HandleClose (and HandleError): leftover input, then release.
HandleClose ==
    /\ Step("close", Leftover("release"))
    /\ abrupt' = TRUE
    /\ UNCHANGED <<conn, wheel, owners, tasks, crashed, peer, recvQ, writable, closedCalls, nudged>>

\* Connection::HandleEvent: TimerReflesh finds the entry, muted or not; then the
\* application's event callback.
HandleEvent ==
    /\ \E plan \in EventPlans :
          /\ Step("event", plan)
          /\ abrupt' = (abrupt \/ Among("release", plan))
    /\ due' = (due /\ ~enabled)
    /\ UNCHANGED <<conn, timer, owners, tasks, crashed, peer, recvQ, writable, closedCalls,
                   nudged>>

\* Connection::EstablishedInLoop; its assertion ends the program.
EstablishedInLoop ==
    /\ IF status = "CONNECTING"
       THEN /\ Step("established", <<"connected">>)
            /\ status' = "CONNECTED"
            /\ Update(events \cup {"IN"})
            /\ UNCHANGED crashed
       ELSE /\ Step("established", <<>>)
            /\ crashed' = TRUE
            /\ UNCHANGED <<status, events, registered>>
    /\ UNCHANGED <<enabled, inBuf, outBuf, wheel, owners, tasks, peer, recvQ, writable,
                   history>>

\* The connection is closed, and its timer, if mute, cancelled.
Close(mute) == /\ status' = "DISCONNECTED"
               /\ registered' = FALSE
               /\ IF mute THEN timer' = "muted" /\ enabled' = FALSE
                          ELSE UNCHANGED <<timer, enabled>>
               /\ UNCHANGED <<inBuf, outBuf, events>>

\* Mutant: no test for a connection that is released already.
ReleaseInLoopUnguarded ==
    /\ Step("releaseInLoop", <<"closed", "removeConnection">>)
    /\ Close(timer # "none")
    /\ UNCHANGED <<due, owners, tasks, crashed, peer, recvQ, writable, history>>

\* Mutant: the timer is cancelled only if the flag is already off.
ReleaseInLoopMisreadsFlag ==
    /\ Step("releaseInLoop",
            IF status = "DISCONNECTED" THEN <<>> ELSE <<"closed", "removeConnection">>)
    /\ Close(timer # "none" /\ ~enabled)
    /\ UNCHANGED <<due, owners, tasks, crashed, peer, recvQ, writable, history>>

\* Connection::ReleaseInLoop.
ReleaseInLoop ==
    /\ IF status = "DISCONNECTED"
       THEN Step("releaseInLoop", <<>>) /\ UNCHANGED <<conn, timer>>
       ELSE Step("releaseInLoop", <<"closed", "removeConnection">>) /\ Close(timer # "none")
    /\ UNCHANGED <<due, owners, tasks, crashed, peer, recvQ, writable, history>>

\* The application's closed callback.
Closed ==
    /\ Step("closed", <<>>)
    /\ closedCalls' = closedCalls + 1
    /\ UNCHANGED <<conn, wheel, owners, tasks, crashed, peer, recvQ, writable, abrupt, nudged>>

\* Mutant: the io thread erases from _connections itself.
RemoveConnectionAtOnce ==
    /\ Step("removeConnection", <<>>)
    /\ inMap' = FALSE
    /\ UNCHANGED <<conn, wheel, accepting, removals, kept, tasks, crashed, peer, recvQ,
                   writable, history>>

\* _server_closed_cb: TcpServer::RemoveConnection.
RemoveConnection ==
    /\ Step("removeConnection", <<>>)
    /\ IF SingleLoop THEN inMap' = FALSE /\ UNCHANGED removals
                     ELSE removals' = removals + 1 /\ UNCHANGED inMap
    /\ UNCHANGED <<conn, wheel, accepting, kept, tasks, crashed, peer, recvQ, writable,
                   history>>

\* Connection::ShutdownInLoop, up to its message callback.
ShutdownInLoop ==
    /\ IF status \in {"DISCONNECTED", "DISCONNECTING"}
       THEN Step("shutdown", <<>>) /\ UNCHANGED <<status, events, registered>>
       ELSE /\ Step("shutdown", Leftover("endShutdown"))
            /\ status' = "DISCONNECTING"
            /\ Update(events \ {"IN"})
    /\ UNCHANGED <<enabled, inBuf, outBuf, wheel, owners, tasks, crashed, peer, recvQ,
                   writable, history>>

\* Mutant: released at once, whatever is left to write.
EndShutdownAtOnce ==
    /\ Step("endShutdown", <<"release">>)
    /\ IF outBuf > 0 THEN EnableWrite ELSE UNCHANGED <<events, registered>>
    /\ UNCHANGED <<status, enabled, inBuf, outBuf, wheel, owners, tasks, crashed, peer,
                   recvQ, writable, history>>

\* The rest of it: keep writing what is left, or release at once.
EndShutdown ==
    /\ IF outBuf > 0
       THEN Step("endShutdown", <<>>) /\ EnableWrite
       ELSE Step("endShutdown", <<"release">>) /\ UNCHANGED <<events, registered>>
    /\ UNCHANGED <<status, enabled, inBuf, outBuf, wheel, owners, tasks, crashed, peer,
                   recvQ, writable, history>>

\* Connection::SendInLoop.  (MaxOut bounds what the application sends.)
SendInLoop ==
    /\ Step("send", <<>>)
    /\ IF status = "CONNECTED" /\ outBuf < MaxOut
       THEN outBuf' = outBuf + 1 /\ EnableWrite
       ELSE UNCHANGED <<outBuf, events, registered>>
    /\ UNCHANGED <<status, enabled, inBuf, wheel, owners, tasks, crashed, peer, recvQ,
                   writable, history>>

\* With an empty Buffer: write events go on all the same.
SendNothingInLoop ==
    /\ Step("sendNothing", <<>>)
    /\ IF status = "CONNECTED"
       THEN EnableWrite /\ nudged' = TRUE
       ELSE UNCHANGED <<events, registered, nudged>>
    /\ UNCHANGED <<status, enabled, inBuf, outBuf, wheel, owners, tasks, crashed, peer, recvQ,
                   writable, closedCalls, abrupt>>

\* Connection::EnableInactiveReleaseInLoop: refresh the entry, or add one.
EnableInactiveReleaseInLoop ==
    /\ Step("enable", <<>>)
    /\ enabled' = TRUE
    /\ timer' = IF timer = "none" THEN "armed" ELSE timer
    /\ due' = FALSE
    /\ UNCHANGED <<status, inBuf, outBuf, events, registered, owners, tasks, crashed, peer,
                   recvQ, writable, history>>

\* Connection::CancelInactiveReleaseInLoop.
CancelInactiveReleaseInLoop ==
    /\ Step("cancel", <<>>)
    /\ enabled' = FALSE
    /\ timer' = IF timer = "none" THEN "none" ELSE "muted"
    /\ UNCHANGED <<status, inBuf, outBuf, events, registered, due, owners, tasks, crashed,
                   peer, recvQ, writable, history>>

\* Mutant: RunInLoop instead of TasksInLoop.
ReleaseAtOnce ==
    /\ Step("release", <<"releaseInLoop">>)
    /\ UNCHANGED <<conn, wheel, owners, tasks, crashed, peer, recvQ, writable, history>>

\* Connection::Release: always a task, never at once.
Release ==
    /\ Step("release", <<>>)
    /\ Post("releaseInLoop")
    /\ UNCHANGED <<conn, wheel, owners, crashed, peer, recvQ, writable, history>>

\* The application's message callback: it makes the calls of a plan.
MessageCallback ==
    /\ \E plan \in MessagePlans :
          /\ Step("message", plan)
          /\ abrupt' = (abrupt \/ Among("release", plan))
    /\ UNCHANGED <<conn, wheel, owners, tasks, crashed, peer, recvQ, writable, closedCalls, nudged>>

Consume ==
    /\ Step("consume", <<>>)
    /\ inBuf' = 0
    /\ UNCHANGED <<status, enabled, outBuf, events, registered, wheel, owners, tasks,
                   crashed, peer, recvQ, writable, history>>

\* The application's connected callback; it may keep the PtrConnection.
ConnectedCallback ==
    /\ \E plan \in ConnectedPlans :
          /\ Step("connected", plan)
          /\ abrupt' = (abrupt \/ Among("release", plan))
    /\ kept' \in (IF OtherCalls = {} THEN {FALSE} ELSE BOOLEAN)
    /\ UNCHANGED <<conn, wheel, accepting, inMap, removals, tasks, crashed, peer, recvQ,
                   writable, closedCalls, nudged>>

\* Last statement of TcpServer::NewConnection on the only loop.
Insert ==
    /\ Step("insert", <<>>)
    /\ inMap' = TRUE
    /\ accepting' = "done"
    /\ UNCHANGED <<conn, wheel, removals, kept, tasks, crashed, peer, recvQ, writable,
                   history>>

Statement == \/ HandleRead \/ HandleWriteFails \/ HandleClose \/ HandleEvent
             \/ \E n \in 0 .. MaxOut : HandleWrite(n)
             \/ EstablishedInLoop \/ ReleaseInLoop \/ Closed \/ RemoveConnection
             \/ ShutdownInLoop \/ EndShutdown \/ SendInLoop \/ SendNothingInLoop
             \/ EnableInactiveReleaseInLoop \/ CancelInactiveReleaseInLoop
             \/ Release \/ MessageCallback \/ Consume \/ ConnectedCallback \/ Insert

-----------------------------------------------------------------------------
(* EventLoop::Start of the io loop *)

AtRest == todo = <<>> /\ ~crashed

\* What epoll reports for the connection; errors and hang-ups are always
\* reported, EPOLLRDHUP is never asked for.
Reported ==
    {e \in {"IN"} : e \in events /\ (recvQ > 0 \/ peer # "open")} \cup
    {e \in {"OUT"} : e \in events /\ (writable \/ peer \in {"rst", "dead"})} \cup
    (IF peer = "rst" THEN {"ERR", "HUP"} ELSE IF peer = "dead" THEN {"HUP"} ELSE {})

\* epoll_wait returns, for the connection, the timerfd, the listening socket,
\* or for descriptors that are not modelled (the eventfd, other sockets).
Poll ==
    /\ AtRest /\ phase = "poll"
    /\ phase' = "handle"
    /\ revents' = Reported
    /\ ready' = {c \in {"conn"} : registered /\ Reported # {}} \cup
                {c \in {"timer"} : due} \cup
                {c \in {"listen"} : SingleLoop /\ accepting = "none"}
    /\ UNCHANGED <<world, todo, tasks, batch, crashed>>

\* Channel::HandleEvent of the connection.
ChannelEvent ==
    /\ AtRest /\ phase = "handle"
    /\ "conn" \in ready
    /\ ready' = ready \ {"conn"}
    /\ todo' = IF "ERR" \in revents THEN <<"close">>
               ELSE IF "HUP" \in revents
                    THEN IF "IN" \in revents THEN <<"close">> ELSE <<"read", "close">>
               ELSE (IF "IN" \in revents THEN <<"read">> ELSE <<>>) \o
                    (IF "OUT" \in revents THEN <<"write">> ELSE <<>>) \o <<"event">>
    /\ UNCHANGED <<world, phase, revents, tasks, batch, crashed>>

\* Mutant: the index entry goes with any share of the task.
OnTimeForgetsShare ==
    /\ AtRest /\ phase = "handle"
    /\ "timer" \in ready
    /\ ready' = ready \ {"timer"}
    /\ timer' = "none" /\ due' = FALSE
    /\ IF due /\ timer = "armed" THEN Post("releaseInLoop") /\ abrupt' = TRUE
                                 ELSE UNCHANGED <<tasks, abrupt>>
    /\ UNCHANGED <<conn, owners, phase, revents, todo, batch, crashed, kernel, others,
                   closedCalls, nudged>>

\* TimingWheel::OnTime reaches the entry's slot.  If it was refreshed since
\* Poll another share keeps it; if not its callback, Connection::Release on
\* a raw pointer, runs unless it is muted, and the entry goes.
OnTime ==
    /\ AtRest /\ phase = "handle"
    /\ "timer" \in ready
    /\ ready' = ready \ {"timer"}
    /\ IF due
       THEN /\ timer' = "none" /\ due' = FALSE
            /\ IF timer = "armed" THEN Post("releaseInLoop") /\ abrupt' = TRUE
                                  ELSE UNCHANGED <<tasks, abrupt>>
       ELSE UNCHANGED <<timer, due, tasks, abrupt>>
    /\ UNCHANGED <<conn, owners, phase, revents, todo, batch, crashed, kernel, others,
                   closedCalls, nudged>>

\* Acceptor::HandleRead and TcpServer::NewConnection on the only loop:
\* RunInLoop is immediate.
NewConnectionInline ==
    /\ AtRest /\ phase = "handle"
    /\ "listen" \in ready
    /\ ready' = ready \ {"listen"}
    /\ accepting' = "created"
    /\ todo' = (IF ServerTimeout THEN <<"enable">> ELSE <<>>) \o <<"established", "insert">>
    /\ UNCHANGED <<conn, wheel, inMap, removals, kept, phase, revents, tasks, batch,
                   crashed, kernel, others, history>>

\* RunAllTask swaps the queue.
SwapTasks ==
    /\ AtRest /\ phase = "handle" /\ ready = {}
    /\ phase' = "run"
    /\ batch' = tasks
    /\ tasks' = <<>>
    /\ UNCHANGED <<world, ready, revents, todo, crashed>>

RunTask ==
    /\ AtRest /\ phase = "run" /\ batch # <<>>
    /\ batch' = Tail(batch)
    /\ Alive
    /\ todo' = <<Head(batch)>>
    /\ UNCHANGED <<world, phase, ready, revents, tasks, crashed>>

\* The task's `this' was freed: undefined.  The memory may still read
\* DISCONNECTED, so that the handler returns, or the program may crash.
RunTaskOnFreed ==
    /\ AtRest /\ phase = "run" /\ batch # <<>>
    /\ batch' = Tail(batch)
    /\ ~Alive
    /\ crashed' \in BOOLEAN
    /\ UNCHANGED <<world, phase, ready, revents, todo, tasks>>

BatchDone ==
    /\ AtRest /\ phase = "run" /\ batch = <<>>
    /\ phase' = "poll"
    /\ UNCHANGED <<world, ready, revents, todo, tasks, batch, crashed>>

IoLoop == \/ Statement
          \/ Poll \/ ChannelEvent \/ OnTime \/ NewConnectionInline
          \/ SwapTasks \/ RunTask \/ RunTaskOnFreed \/ BatchDone

-----------------------------------------------------------------------------
(* The base loop's thread, when there is one *)

\* TcpServer::NewConnection posts EnableInactiveRelease, posts Established
\* and inserts the connection, while the io loop is already running.
NewConnection ==
    /\ ~crashed /\ ~SingleLoop
    /\ accepting = "none"
    /\ accepting' = "created"
    /\ IF ServerTimeout THEN Post("enable") ELSE UNCHANGED tasks
    /\ UNCHANGED <<conn, wheel, inMap, removals, kept, place, todo, crashed, kernel, others,
                   history>>

PostEstablished ==
    /\ ~crashed /\ ~SingleLoop
    /\ accepting = "created"
    /\ accepting' = "posted"
    /\ Post("established")
    /\ UNCHANGED <<conn, wheel, inMap, removals, kept, place, todo, crashed, kernel, others,
                   history>>

InsertConnection ==
    /\ ~crashed /\ ~SingleLoop
    /\ accepting = "posted"
    /\ accepting' = "done"
    /\ inMap' = TRUE
    /\ UNCHANGED <<conn, wheel, removals, kept, loop, kernel, others, history>>

\* TcpServer::RemoveConnectionInLoop, a task: never inside NewConnection.
RemoveConnectionInLoop ==
    /\ ~crashed
    /\ accepting = "done" /\ removals > 0
    /\ removals' = removals - 1
    /\ inMap' = FALSE
    /\ UNCHANGED <<conn, wheel, accepting, kept, loop, kernel, others, history>>

BaseLoop == NewConnection \/ PostEstablished \/ InsertConnection \/ RemoveConnectionInLoop

-----------------------------------------------------------------------------
(* The rest of the program, the clock and the peer *)

\* Another thread calls through its PtrConnection: RunInLoop posts.
CallFromThread(c) ==
    /\ ~crashed
    /\ kept /\ others < MaxOther
    /\ others' = others + 1
    /\ Post(IF c = "release" THEN "releaseInLoop" ELSE c)
    /\ abrupt' = (abrupt \/ c = "release")
    /\ UNCHANGED <<conn, wheel, owners, place, todo, crashed, kernel, closedCalls, nudged>>

\* Another connection's callback on the io thread calls: RunInLoop is immediate.
CallFromCallback(c) ==
    /\ AtRest /\ phase = "handle"
    /\ kept /\ others < MaxOther
    /\ others' = others + 1
    /\ todo' = <<c>>
    /\ abrupt' = (abrupt \/ c = "release")
    /\ UNCHANGED <<conn, wheel, owners, place, tasks, crashed, kernel, closedCalls, nudged>>

\* An application pointer goes, not the one a running call is made through.
DropPointer ==
    /\ ~crashed
    /\ kept /\ (phase = "handle" => todo = <<>>)
    /\ kept' = FALSE
    /\ UNCHANGED <<conn, wheel, accepting, inMap, removals, loop, kernel, others, history>>

\* Time passes until the entry's slot is next.
Expire ==
    /\ ~crashed
    /\ timer # "none" /\ ~due
    /\ due' = TRUE
    /\ UNCHANGED <<conn, timer, owners, loop, kernel, others, history>>

PeerSends ==
    /\ ~crashed
    /\ peer = "open" /\ sent < MaxRecv
    /\ sent' = sent + 1
    /\ recvQ' = recvQ + 1
    /\ UNCHANGED <<conn, wheel, owners, loop, peer, writable, others, history>>

PeerShutsDown ==
    /\ ~crashed
    /\ peer = "open"
    /\ peer' = "fin"
    /\ UNCHANGED <<conn, wheel, owners, loop, recvQ, writable, sent, others, history>>

PeerResets ==
    /\ ~crashed
    /\ peer \in {"open", "fin"}
    /\ peer' = "rst"
    /\ UNCHANGED <<conn, wheel, owners, loop, recvQ, writable, sent, others, history>>

PeerReads ==
    /\ ~crashed
    /\ ~writable
    /\ writable' = TRUE
    /\ UNCHANGED <<conn, wheel, owners, loop, peer, recvQ, sent, others, history>>

Environment == \/ \E c \in OtherCalls : CallFromThread(c) \/ CallFromCallback(c)
               \/ DropPointer \/ Expire
               \/ PeerSends \/ PeerShutsDown \/ PeerResets \/ PeerReads

Crashed == crashed /\ UNCHANGED vars

Next == IoLoop \/ BaseLoop \/ Environment \/ Crashed

Spec == Init /\ [][Next]_vars

\* Both loops are scheduled and a peer that is there goes on reading; nothing
\* is assumed of the application, of what the peer sends, or of the clock.
FairSpec == Spec /\ WF_vars(IoLoop) /\ WF_vars(BaseLoop) /\ WF_vars(PeerReads)

-----------------------------------------------------------------------------
(* Properties *)

ReleaseAsked == Among("releaseInLoop", tasks \o batch)

\* Between two handlers a connection that is not released watches EPOLLOUT
\* exactly while it has something to write, or until the next write event after a
\* Send of length 0: otherwise the answer never leaves, or the loop spins on a
\* writable socket (Connection.cc:52).
WriteInterestExact ==
    AtRest /\ status \in {"CONNECTED", "DISCONNECTING"} =>
        ("OUT" \in events /\ registered <=> outBuf > 0 \/ nudged)

\* A connection that only its half-close ended has written everything it
\* accepted before the socket was closed (Connection.cc:113-114).
DrainsBeforeClose == status = "DISCONNECTED" /\ ~abrupt => outBuf = 0

\* While the handlers of a channel run, somebody owns the connection whose
\* members they use next (Connection.cc:200-202).
HandlersOwnTheirConnection == phase = "handle" /\ todo # <<>> => Alive

\* What the connection and its handlers keep between any two statements.
ConnectionInv == TypeOK /\ HandlersOwnTheirConnection

\* The application sees the closed callback exactly once per connection,
\* however many releases the peer, the timer and the application cause.
ClosedExactlyOnce ==
    AtRest => closedCalls = IF status = "DISCONNECTED" THEN 1 ELSE 0

\* A released connection leaves _connections: while it is there, or will
\* still be inserted by a NewConnection in progress, its removal is queued
\* behind, on the only thread that touches the map.
RemovalFollowsInsertion ==
    AtRest /\ status = "DISCONNECTED" /\ ~SingleLoop /\ (inMap \/ accepting # "done")
        => removals > 0

\* The wheel never keeps an armed callback, a raw pointer, to a connection
\* that was released or freed.
TimerDiesWithConnection ==
    AtRest /\ timer = "armed" => Alive /\ status # "DISCONNECTED"

Cleaned == crashed \/ (status = "DISCONNECTED" /\ ~inMap)

\* A connection whose peer closed or reset it is released and forgotten by
\* the server, without help of a timeout.
PeerGoneIsCleanedUp == (status = "CONNECTED" /\ peer # "open") ~> Cleaned

\* A half-closed connection is drained and forgotten if its peer reads on.
HalfClosedFinishes == status = "DISCONNECTING" ~> Cleaned

\* Between two handlers an established connection whose inactivity release is
\* on has a timer that will release it, or its release is on its way: refreshes,
\* expiries and closings in one round never lose it.  (An application that turns
\* the release off and on again does: EnableInactiveReleaseInLoop refreshes the
\* muted entry.)
EnabledMeansArmed ==
    AtRest /\ status = "CONNECTED" /\ enabled => timer = "armed" \/ ReleaseAsked

(* Properties the code does not have *)

\* Releasing twice is prevented (Connection.cc:100-101): no task is left
\* for a connection that is freed.
NoTaskForFreed == tasks \o batch # <<>> => Alive
=============================================================================
