------------------------------- MODULE Server -------------------------------
(***************************************************************************)
(* The life of a TcpServer (src/TcpServer.cc) and of the threads of its    *)
(* pool (src/LoopThread.cc, src/LoopThreadPool.cc): Start, connections     *)
(* accepted (src/Acceptor.cc), handed to the loops in turn and removed     *)
(* again, Stop, and the destruction of the server, member by member.       *)
(* What happens on one connection is Connection, how a loop sleeps and     *)
(* wakes is EventLoop: here a loop runs what it has to run.                *)
(***************************************************************************)
EXTENDS Integers, Sequences, FiniteSets

CONSTANTS
    ThreadCnts,     \* what SetThreadCnt may have been given
    IntBits,        \* the width of an int, the type of Connection::Id
    MaxFds,         \* descriptors the process may have for connections
    MaxIds          \* bound on the calls that take an id of _next_id

ASSUME ServerAssumption ==
    /\ ThreadCnts \subseteq Nat /\ IsFiniteSet(ThreadCnts)
    /\ {IntBits, MaxFds, MaxIds} \subseteq Nat \ {0}
    \* the one law of powers the proofs use
    /\ 2^(IntBits - 1) \in Nat /\ 2^IntBits = 2 * 2^(IntBits - 1)

VARIABLES
    main,       \* the statement the thread of the server is at
    at,         \* the thread of the pool it is concerned with
    gone,       \* how many members of the server are destroyed
    threadCnt,  \* _thread_cnt
    idx,        \* _next_loop_idx
    thread,     \* the threads of the pool
    loop,       \* for each of them, _loop is set
    quit,       \* _quit of every loop; 0 is the base loop
    listening,  \* the acceptor's channel is enabled
    pending,    \* connections the kernel has for accept()
    nextId,     \* _next_id
    conns,      \* the connections ever made: the loop of each, and whether it is open
    map,        \* the keys of _connections
    tasks,      \* _task of the base loop
    batch,      \* how many of them RunAllTask has taken and not run yet
    armed,      \* the timers the wheel of the base loop was ever given
    calls       \* connections that arrived and RunAfter calls, for MaxIds

vars == <<main, at, gone, threadCnt, idx, thread, loop, quit, listening, pending,
          nextId, conns, map, tasks, batch, armed, calls>>

pool == <<threadCnt, thread, loop>>
clients == <<pending, calls>>
table == <<conns, map, armed, nextId, idx>>

Base == 0
Threads == 1..threadCnt

\* Mutant: the base loop goes before the pool.
MembersBaseFirst == <<"_connections", "_base_loop", "_pool", "_acceptor">>

\* The members of TcpServer in the order of their destruction.
Members == <<"_connections", "_pool", "_acceptor", "_base_loop">>

Dying(member) == main = "destroying" /\ Members[gone + 1] = member
Dead == {Members[k] : k \in 1..gone}

\* A connection has its descriptor until it is released or, forgotten by
\* _connections before that, destroyed.
HasDescriptor(id) == conns[id].open /\ id \in map
Full == Cardinality({id \in DOMAIN conns : HasDescriptor(id)}) >= MaxFds

\* Start runs the base loop, which is in epoll_wait, accept() or RunAllTask.
Looping == {"polling", "accept", "tasks"}

Init ==
    /\ main = "create" /\ at = 1 /\ gone = 0
    /\ threadCnt \in ThreadCnts /\ idx = 0
    /\ thread = [i \in Threads |-> "none"] /\ loop = [i \in Threads |-> FALSE]
    /\ quit = [i \in {Base} \cup Threads |-> FALSE]
    /\ listening = FALSE /\ pending = 0
    /\ nextId = 0 /\ conns = <<>> /\ map = {}
    /\ tasks = <<>> /\ batch = 0 /\ armed = {} /\ calls = 0

-----------------------------------------------------------------------------
(* TcpServer::Start                                                         *)

\* LoopThreadPool::Create constructs a LoopThread, which starts its thread,
CreateThread ==
    /\ main = "create" /\ at \in Threads
    /\ thread' = [thread EXCEPT ![at] = "entry"]
    /\ main' = "getloop"
    /\ UNCHANGED <<at, gone, threadCnt, loop, quit, listening, clients, table, tasks, batch>>

\* Mutant: nobody waits for the thread.
GetloopAtOnce ==
    /\ main = "getloop"
    /\ main' = "create" /\ at' = at + 1
    /\ UNCHANGED <<gone, pool, quit, listening, clients, table, tasks, batch>>

\* and waits in Getloop until the thread has its loop.
Getloop ==
    /\ main = "getloop" /\ loop[at]
    /\ main' = "create" /\ at' = at + 1
    /\ UNCHANGED <<gone, pool, quit, listening, clients, table, tasks, batch>>

\* The while of EventLoop::Start: another round, or the last RunAllTask.
NextRound ==
    IF quit[Base] THEN main' = "draining" /\ batch' = Len(tasks)
    ELSE main' = "polling" /\ UNCHANGED batch

\* Acceptor::Listen; then the base loop is started.
Listen ==
    /\ main = "create" /\ at \notin Threads
    /\ listening' = TRUE
    /\ NextRound
    /\ UNCHANGED <<at, gone, pool, quit, clients, table, tasks>>

-----------------------------------------------------------------------------
(* The base loop                                                            *)

\* epoll_wait reports the listening socket, or wakes the loop for something else.
Poll ==
    /\ main = "polling"
    /\ IF listening /\ pending > 0
       THEN main' = "accept" /\ UNCHANGED batch
       ELSE main' = "tasks" /\ batch' = Len(tasks)
    /\ UNCHANGED <<at, gone, pool, quit, listening, clients, table, tasks>>

\* LoopThreadPool::NextLoop
NextLoop == IF threadCnt = 0 THEN Base ELSE 1 + ((idx + 1) % threadCnt)

\* TcpServer::NewConnection, with a timer for the new
\* connection in the wheel of its loop.
NewConnection ==
    /\ nextId' = nextId + 1
    /\ idx' = IF threadCnt = 0 THEN idx ELSE (idx + 1) % threadCnt
    /\ conns' = [id \in DOMAIN conns \cup {nextId'} |->
                    IF id = nextId' THEN [loop |-> NextLoop, open |-> TRUE] ELSE conns[id]]
    /\ map' = map \cup {nextId'}
    /\ armed' = IF NextLoop = Base THEN armed \cup {<<nextId', "connection">>} ELSE armed

\* Mutant: a failing accept() ends the listening.
AcceptOrGiveUp ==
    /\ main = "accept"
    /\ IF Full
       THEN listening' = FALSE /\ UNCHANGED <<table, pending>>
       ELSE pending > 0 /\ pending' = pending - 1 /\ NewConnection /\ UNCHANGED listening
    /\ main' = "tasks" /\ batch' = Len(tasks)
    /\ UNCHANGED <<at, gone, pool, quit, calls, tasks>>

\* Mutant: without a descriptor the loop tries again before it does anything else.
AcceptRetries ==
    /\ main = "accept" /\ ~Full /\ pending > 0
    /\ pending' = pending - 1 /\ NewConnection
    /\ main' = "tasks" /\ batch' = Len(tasks)
    /\ UNCHANGED <<at, gone, pool, quit, listening, calls, tasks>>

\* Acceptor::HandleRead. Without a descriptor accept() fails and the connection
\* stays where it is, so that the loop is told of it again. It waits, the listening
\* socket being a blocking one, if the connection it was told of has vanished.
Accept ==
    /\ main = "accept"
    /\ IF Full
       THEN UNCHANGED <<table, pending>>
       ELSE pending > 0 /\ pending' = pending - 1 /\ NewConnection
    /\ main' = "tasks" /\ batch' = Len(tasks)
    /\ UNCHANGED <<at, gone, pool, quit, listening, calls, tasks>>

\* Mutant: the id is as narrow as a short.
IntIdShort(id) ==
    LET m == id % 2^(IntBits - 1) IN IF m < 2^(IntBits - 2) THEN m ELSE -1

\* An id as the int that Connection::Id makes of it; a negative one is none of
\* the keys below 2^63.
IntId(id) ==
    LET m == id % 2^IntBits IN IF m < 2^(IntBits - 1) THEN m ELSE -1

\* TcpServer::RemoveConnectionInLoop
RemoveConnectionInLoop(id) ==
    /\ map' = map \ {IntId(id)}
    /\ UNCHANGED <<nextId, armed>>

\* TcpServer::RunAfterInLoop
RunAfterInLoop ==
    /\ nextId' = nextId + 1
    /\ armed' = armed \cup {<<nextId', "runAfter">>}
    /\ UNCHANGED map

\* RunAllTask runs what it has taken, in a round or after the last one.
RunTask ==
    /\ main \in {"tasks", "draining"} /\ batch > 0
    /\ \/ Head(tasks).kind = "remove" /\ RemoveConnectionInLoop(Head(tasks).id)
       \/ Head(tasks).kind = "runAfter" /\ RunAfterInLoop
    /\ tasks' = Tail(tasks) /\ batch' = batch - 1
    /\ UNCHANGED <<main, at, gone, pool, quit, listening, clients, conns, idx>>

EndRound ==
    /\ main = "tasks" /\ batch = 0
    /\ NextRound
    /\ UNCHANGED <<at, gone, pool, quit, listening, clients, table, tasks>>

StartReturns ==
    /\ main = "draining" /\ batch = 0
    /\ main' = "destroying" /\ at' = 1
    /\ UNCHANGED <<gone, pool, quit, listening, clients, table, tasks, batch>>

-----------------------------------------------------------------------------
(* The destruction of the server                                            *)

DestroyConnections ==
    /\ Dying("_connections")
    /\ map' = {} /\ gone' = gone + 1
    /\ UNCHANGED <<main, at, pool, quit, listening, clients, conns, armed, nextId, idx,
                   tasks, batch>>

\* ~LoopThread: Quit if the loop is there, then join.
QuitThread ==
    /\ Dying("_pool") /\ at \in Threads
    /\ quit' = [quit EXCEPT ![at] = quit[at] \/ loop[at]]
    /\ main' = "join"
    /\ UNCHANGED <<at, gone, pool, listening, clients, table, tasks, batch>>

JoinThread ==
    /\ main = "join" /\ thread[at] = "ended"
    /\ main' = "destroying" /\ at' = at + 1
    /\ UNCHANGED <<gone, pool, quit, listening, clients, table, tasks, batch>>

PoolDestroyed ==
    /\ Dying("_pool") /\ at \notin Threads
    /\ gone' = gone + 1
    /\ UNCHANGED <<main, at, pool, quit, listening, clients, table, tasks, batch>>

DestroyAcceptor ==
    /\ Dying("_acceptor")
    /\ listening' = FALSE /\ gone' = gone + 1
    /\ main' = IF gone' = Len(Members) THEN "destroyed" ELSE main
    /\ UNCHANGED <<at, pool, quit, clients, table, tasks, batch>>

\* With the queue go the connections whose removal was still in it.
DestroyBaseLoop ==
    /\ Dying("_base_loop")
    /\ tasks' = <<>> /\ gone' = gone + 1
    /\ main' = IF gone' = Len(Members) THEN "destroyed" ELSE main
    /\ UNCHANGED <<at, pool, quit, listening, clients, table, batch>>

-----------------------------------------------------------------------------
(* The threads of the pool                                                  *)

\* LoopThread::ThreadEntry up to Start of its loop.
ThreadEntry(i) ==
    /\ thread[i] = "entry"
    /\ thread' = [thread EXCEPT ![i] = "looping"] /\ loop' = [loop EXCEPT ![i] = TRUE]
    /\ UNCHANGED <<main, at, gone, threadCnt, quit, listening, clients, table, tasks, batch>>

\* The rest of it, when Start has returned.
ThreadEnds(i) ==
    /\ thread[i] = "looping" /\ quit[i]
    /\ thread' = [thread EXCEPT ![i] = "ended"] /\ loop' = [loop EXCEPT ![i] = FALSE]
    /\ UNCHANGED <<main, at, gone, threadCnt, quit, listening, clients, table, tasks, batch>>

\* ReleaseInLoop, a task of the connection's loop: it closes the descriptor and asks
\* TcpServer::RemoveConnection, which runs at once on the base loop and is a task
\* of it otherwise.
CloseConnection(id) ==
    /\ HasDescriptor(id)
    /\ conns' = [conns EXCEPT ![id].open = FALSE]
    /\ \/ conns[id].loop = Base /\ main \in {"tasks", "draining"}
          /\ RemoveConnectionInLoop(id) /\ UNCHANGED tasks
       \/ conns[id].loop # Base /\ thread[conns[id].loop] = "looping"
          /\ tasks' = Append(tasks, [kind |-> "remove", id |-> id])
          /\ UNCHANGED <<map, nextId, armed>>
    /\ UNCHANGED <<main, at, gone, pool, idx, quit, listening, clients, batch>>

-----------------------------------------------------------------------------
(* The clients and the application                                          *)

ClientConnects ==
    /\ listening /\ calls < MaxIds
    /\ pending' = pending + 1 /\ calls' = calls + 1
    /\ UNCHANGED <<main, at, gone, pool, quit, listening, table, tasks, batch>>

\* The kernel drops a connection that nobody has accepted, as when its peer resets it.
ClientVanishes ==
    /\ pending > 0
    /\ pending' = pending - 1
    /\ UNCHANGED <<main, at, gone, pool, quit, listening, table, tasks, batch, calls>>

\* TcpServer::RunAfter from another thread.
RunAfter ==
    /\ calls < MaxIds /\ main \in {"create", "getloop"} \cup Looping
    /\ calls' = calls + 1
    /\ tasks' = Append(tasks, [kind |-> "runAfter"])
    /\ UNCHANGED <<main, at, gone, pool, quit, listening, pending, table, batch>>

\* TcpServer::Stop; the application may be early.
Stop ==
    /\ ~quit[Base] /\ main \in {"create", "getloop"} \cup Looping
    /\ quit' = [quit EXCEPT ![Base] = TRUE]
    /\ UNCHANGED <<main, at, gone, pool, listening, clients, table, tasks, batch>>

Server ==
    \/ CreateThread \/ Getloop \/ Listen
    \/ Poll \/ Accept \/ RunTask \/ EndRound \/ StartReturns
    \/ DestroyConnections \/ QuitThread \/ JoinThread \/ PoolDestroyed
    \/ DestroyAcceptor \/ DestroyBaseLoop

Pool == \E i \in Threads : ThreadEntry(i) \/ ThreadEnds(i)

Next ==
    \/ Server \/ Pool
    \/ \E id \in DOMAIN conns : CloseConnection(id)
    \/ ClientConnects \/ ClientVanishes \/ RunAfter \/ Stop

Spec == Init /\ [][Next]_vars

\* The threads run. Clients, connections and the application may do nothing.
FairSpec == Spec /\ WF_vars(Server) /\ WF_vars(Pool)

-----------------------------------------------------------------------------
(* Properties                                                               *)

\* Types; the index of the next loop stays inside the pool.
TypeOK ==
    /\ main \in {"create", "getloop"} \cup Looping
                \cup {"draining", "destroying", "join", "destroyed"}
    /\ at \in 1..(threadCnt + 1) /\ gone \in 0..Len(Members)
    /\ threadCnt \in ThreadCnts /\ idx \in Nat /\ (idx = 0 \/ idx < threadCnt)
    /\ thread \in [Threads -> {"none", "entry", "looping", "ended"}]
    /\ loop \in [Threads -> BOOLEAN] /\ quit \in [{Base} \cup Threads -> BOOLEAN]
    /\ listening \in BOOLEAN
    /\ {pending, nextId, calls, batch} \subseteq 0..MaxIds
    /\ \A id \in DOMAIN conns : id \in 1..nextId
    /\ map \subseteq DOMAIN conns /\ batch <= Len(tasks)
    /\ armed \subseteq (1..nextId) \X {"connection", "runAfter"}

\* A new connection is never given to a loop that is not there: Create waits for
\* one thread after the other, and the acceptor listens only after that.
ReadyLoopsOnly ==
    main \in Looping => \A id \in DOMAIN conns :
        conns[id].loop # Base => conns[id].loop \in Threads /\ thread[conns[id].loop] = "looping"

\* The loops take turns, whatever else takes ids: no two of them have been given
\* numbers of connections that differ by more than one.
LoopsTakeTurns ==
    LET Given(i) == Cardinality({id \in DOMAIN conns : conns[id].loop = i})
    IN  \A i, j \in Threads : Given(i) <= Given(j) + 1

\* While the server runs, _connections has every open connection and forgets the
\* closed ones once their removal has run; the first until an int has come round,
\* the second for the ids an int can hold (TcpServer.cc:66).
RemovalIsExact ==
    main \in Looping => \A id \in DOMAIN conns :
        /\ (conns[id].open /\ nextId <= 2^IntBits) => id \in map
        /\ (~conns[id].open /\ id < 2^(IntBits - 1) /\ id \in map)
              => [kind |-> "remove", id |-> id] \in {tasks[k] : k \in 1..Len(tasks)}

\* Without a pool the timers of connections and those of RunAfter share a wheel:
\* no id is used by two of them.
TimerIdsUnique == \A a, b \in armed : a[1] = b[1] => a = b

\* Whoever can still release a connection finds the base loop it posts to.
BaseLoopOutlivesThreads ==
    "_base_loop" \in Dead => \A i \in Threads : thread[i] \in {"none", "ended"}

\* What the server keeps from Start to the end of its destruction.
ServerInv == /\ TypeOK
             /\ ReadyLoopsOnly
             /\ LoopsTakeTurns
             /\ TimerIdsUnique
             /\ BaseLoopOutlivesThreads

\* The thread of the base loop waits in accept() for somebody to connect.
AcceptBlocks == main = "accept" /\ pending = 0 /\ ~Full

\* Clients that wait for a descriptor keep the base loop neither from the tasks
\* posted to it nor from accepting one of them once a descriptor is free; only
\* a connection that vanished before accept() can, until somebody else connects.
AcceptResumes ==
    /\ \A n \in 0..(MaxIds - 1) :
           (main \in Looping /\ Cardinality(DOMAIN conns) = n /\ pending > 0 /\ ~Full)
               ~> (Cardinality(DOMAIN conns) > n \/ pending = 0 \/ quit[Base])
    /\ tasks # <<>> ~> (tasks = <<>> \/ main = "destroying" \/ []AcceptBlocks)

\* After Stop, early or late, Start returns and the destruction comes to its end:
\* every thread is told to quit and is joined. Stop does not reach a base loop that
\* waits in accept().
StopDestroys == quit[Base] ~> (main = "destroyed" \/ []AcceptBlocks)
=============================================================================
