---------------------------- MODULE ServerProofs -----------------------------
(***************************************************************************)
(* Proofs about Server, for any sizes of the pool, any width of an int and *)
(* any number of descriptors and ids.                                      *)
(***************************************************************************)
EXTENDS Server, FiniteSetTheorems, FunctionTheorems, TLAPS

-----------------------------------------------------------------------------
(* The inductive invariant, part by part                                    *)

Removal(id) == [kind |-> "remove", id |-> id]
Delayed == [kind |-> "runAfter"]
Task == {Removal(id) : id \in Nat} \cup {Delayed}

Mains == {"create", "getloop", "polling", "accept", "tasks", "draining", "destroying", "join",
          "destroyed"}

\* TypeOK without the bound MaxIds, and the types it leaves to its readers.
Shape ==
    /\ main \in Mains
    /\ at \in 1..(threadCnt + 1) /\ gone \in 0..4
    /\ threadCnt \in ThreadCnts /\ idx \in Nat /\ (idx = 0 \/ idx < threadCnt)
    /\ thread \in [Threads -> {"none", "entry", "looping", "ended"}]
    /\ loop \in [Threads -> BOOLEAN] /\ quit \in [{Base} \cup Threads -> BOOLEAN]
    /\ listening \in BOOLEAN
    /\ pending \in Nat /\ nextId \in Nat /\ calls \in Nat /\ batch \in Nat
    /\ calls <= MaxIds
    /\ conns \in [DOMAIN conns -> [loop : {Base} \cup Threads, open : BOOLEAN]]
    /\ DOMAIN conns \subseteq 1..nextId /\ map \subseteq DOMAIN conns
    /\ tasks \in Seq(Task) /\ batch <= Len(tasks)
    /\ main \notin {"tasks", "draining"} => batch = 0
    /\ armed \subseteq (1..nextId) \X {"connection", "runAfter"}

\* How far the pool is, at each statement of the server's thread.
Stages ==
    /\ \A i \in Threads : loop[i] <=> thread[i] = "looping"
    /\ main \in {"create", "getloop", "polling", "accept", "tasks", "draining"} =>
           gone = 0 /\ \A i \in Threads : ~quit[i]
    /\ main \in {"create", "getloop"} => \A i \in Threads :
           (i < at => thread[i] = "looping") /\ (i > at => thread[i] = "none")
    /\ main = "create" => \A i \in Threads : i = at => thread[i] = "none"
    /\ main \in {"polling", "accept", "tasks", "draining"} => \A i \in Threads : thread[i] = "looping"
    /\ main \in {"getloop", "join"} => at \in Threads
    /\ main = "join" => gone = 1
    /\ main = "destroying" => (gone = 0 => at = 1) /\ gone < 4
    /\ main = "destroyed" => gone = 4
    /\ main \in {"destroying", "join", "destroyed"} =>
           \A i \in Threads : i < at => thread[i] = "ended"
    /\ gone >= 2 => at = threadCnt + 1

\* Ids in use, connections not yet accepted and RunAfter calls not yet run make
\* up the calls; a task is one of those or the removal of a closed connection.
RunAfters(s) == {k \in 1..Len(s) : s[k] = Delayed}
Closed == {id \in DOMAIN conns : ~conns[id].open}

Budget ==
    /\ nextId + pending + Cardinality(RunAfters(tasks)) <= calls
    /\ Len(tasks) <= Cardinality(RunAfters(tasks)) + Cardinality(Closed)

\* The loops 2 .. idx + 1 are one connection ahead of the others.
Given(i) == {id \in DOMAIN conns : conns[id].loop = i}
RoundRobin ==
    \E q \in Nat : \A i \in Threads :
        Cardinality(Given(i)) = IF i \in 2..(idx + 1) THEN q + 1 ELSE q

\* Only closed connections are posted for removal; until they are forgotten all
\* at once, _connections has the open ones and no closed one that is not posted.
Posted(id) == \E k \in 1..Len(tasks) : tasks[k] = Removal(id)
Removals ==
    /\ \A id \in Nat : Posted(id) => id \in Closed
    /\ gone >= 1 => map = {}
    /\ gone = 0 /\ nextId <= 2^IntBits => DOMAIN conns \ Closed \subseteq map
    /\ \A id \in map \cap Closed : id < 2^(IntBits - 1) => Posted(id)

IInv == Shape /\ Stages /\ TimerIdsUnique /\ Budget /\ RoundRobin /\ Removals

-----------------------------------------------------------------------------
(* Facts about the operators of the model                                   *)

\* % on the range the index of the next loop moves in.
LEMMA NextIndex ==
  ASSUME NEW n \in Nat \ {0}, NEW k \in 0..(n - 1)
  PROVE  (k + 1) % n = IF k + 1 = n THEN 0 ELSE k + 1
<1>1. CASE k + 1 = n
  BY <1>1
<1>2. CASE k + 1 < n
  BY <1>2
<1> QED BY <1>1, <1>2

\* A removal is no RunAfter call, and it names one id.
LEMMA TasksDiffer ==
  /\ \A id \in Nat : Removal(id) # Delayed /\ Removal(id).kind = "remove"
                     /\ Removal(id).id = id
  /\ Delayed.kind = "runAfter"
  /\ \A t \in Task : t.kind = "remove" => \E id \in Nat : t = Removal(id)
  /\ \A t \in Task : t.kind = "runAfter" => t = Delayed
BY DEF Removal, Delayed, Task

\* An int keeps the ids of its positive half, and makes none of them of another
\* id before it has come round.
LEMMA IntKeepsIds ==
  /\ \A id \in Nat : id < 2^(IntBits - 1) => IntId(id) = id
  /\ \A id, other \in Nat \ {0} : id <= 2^IntBits /\ IntId(id) = other => id = other
<1> DEFINE half == 2^(IntBits - 1)
<1>1. half \in Nat /\ 2^IntBits = 2 * half
  BY ServerAssumption
<1> HIDE DEF half
<1>2. ASSUME NEW id \in Nat, id < half
      PROVE  IntId(id) = id
  <2>1. id % (2 * half) = id
    BY <1>1, <1>2
  <2> QED BY <2>1, <1>1, <1>2 DEF IntId, half
<1>3. ASSUME NEW id \in Nat \ {0}, NEW other \in Nat \ {0}, id <= 2 * half, IntId(id) = other
      PROVE  id = other
  <2>1. CASE id = 2 * half
    <3>1. id % (2 * half) = 0
      BY <1>1, <2>1
    <3> QED BY <1>1, <1>3, <3>1 DEF IntId
  <2>2. CASE id < 2 * half
    <3>1. id % (2 * half) = id
      BY <1>1, <2>2
    <3> QED BY <1>1, <1>3, <3>1 DEF IntId
  <2> QED BY <1>1, <1>3, <2>1, <2>2
<1> QED BY <1>1, <1>2, <1>3 DEF half

LEMMA RunAftersFinite ==
  ASSUME NEW s \in Seq(Task)
  PROVE  IsFiniteSet(RunAfters(s)) /\ Cardinality(RunAfters(s)) \in Nat
<1>1. IsFiniteSet(1..Len(s))
  BY FS_Interval
<1>2. RunAfters(s) \in SUBSET (1..Len(s))
  BY DEF RunAfters
<1>3. IsFiniteSet(RunAfters(s))
  BY <1>1, <1>2, FS_Subset
<1> QED BY <1>3, FS_CardinalityType

\* Posting a RunAfter call adds one to those that wait, posting a removal none.
LEMMA RunAftersAppend ==
  ASSUME NEW s \in Seq(Task), NEW t \in Task
  PROVE  Cardinality(RunAfters(Append(s, t))) =
             Cardinality(RunAfters(s)) + (IF t = Delayed THEN 1 ELSE 0)
<1>1. /\ Len(s) \in Nat /\ Len(Append(s, t)) = Len(s) + 1
      /\ \A k \in 1..Len(s) : Append(s, t)[k] = s[k]
      /\ Append(s, t)[Len(s) + 1] = t
  OBVIOUS
<1>2. Len(s) + 1 \notin RunAfters(s)
  BY <1>1 DEF RunAfters
<1>3. CASE t = Delayed
  <2>1. RunAfters(Append(s, t)) = RunAfters(s) \cup {Len(s) + 1}
    BY <1>1, <1>3 DEF RunAfters
  <2> QED BY <1>2, <1>3, <2>1, RunAftersFinite, FS_AddElement
<1>4. CASE t # Delayed
  <2>1. RunAfters(Append(s, t)) = RunAfters(s)
    BY <1>1, <1>4 DEF RunAfters
  <2> QED BY <1>4, <2>1, RunAftersFinite
<1> QED BY <1>3, <1>4

\* Running the first task takes it from those that wait.
LEMMA RunAftersTail ==
  ASSUME NEW s \in Seq(Task), s # <<>>
  PROVE  Cardinality(RunAfters(Tail(s))) =
             Cardinality(RunAfters(s)) - (IF Head(s) = Delayed THEN 1 ELSE 0)
<1>1. /\ Len(s) \in Nat /\ Len(s) >= 1 /\ Tail(s) \in Seq(Task)
      /\ Len(Tail(s)) = Len(s) - 1 /\ Head(s) = s[1]
      /\ \A k \in 1..(Len(s) - 1) : Tail(s)[k] = s[k + 1]
  OBVIOUS
<1> DEFINE R == RunAfters(Tail(s))
           S == RunAfters(s) \ {1}
           f == [k \in R |-> k + 1]
<1>2. \A k : k \in S <=> k \in 2..Len(s) /\ s[k] = Delayed
  BY <1>1 DEF RunAfters
<1>3. \A k : k \in R <=> k \in 1..(Len(s) - 1) /\ s[k + 1] = Delayed
  BY <1>1 DEF RunAfters
<1>4. \A k \in R : k \in Int /\ k + 1 \in S
  BY <1>1, <1>2, <1>3
<1>5. \A k \in S : k \in Int /\ k - 1 \in R
  BY <1>1, <1>2, <1>3
<1>6. f \in Bijection(R, S)
  <2> HIDE DEF R, S
  <2>1. f \in [R -> S]
    BY <1>4
  <2>2. \A a, b \in R : f[a] = f[b] => a = b
    BY <1>4
  <2>3. \A t \in S : \E k \in R : f[k] = t
    <3> SUFFICES ASSUME NEW t \in S
                 PROVE  \E k \in R : f[k] = t
      OBVIOUS
    <3>1. t - 1 \in R /\ f[t - 1] = t
      BY <1>5
    <3> QED BY <3>1
  <2> QED BY <2>1, <2>2, <2>3, Fun_IsBij
<1>7. IsFiniteSet(R) /\ ExistsBijection(R, S)
  BY <1>1, <1>6, RunAftersFinite DEF ExistsBijection
<1>8. Cardinality(S) = Cardinality(R)
  BY <1>7, FS_Bijection
<1>9. Cardinality(S) = IF 1 \in RunAfters(s) THEN Cardinality(RunAfters(s)) - 1
                       ELSE Cardinality(RunAfters(s))
  BY RunAftersFinite, FS_RemoveElement
<1>10. 1 \in RunAfters(s) <=> Head(s) = Delayed
  BY <1>1 DEF RunAfters
<1> QED BY <1>8, <1>9, <1>10, RunAftersFinite

-----------------------------------------------------------------------------
(* Steps                                                                    *)

LEMMA ThreadCount == Shape => threadCnt \in Nat
BY ServerAssumption DEF Shape

\* The steps of the server's thread and of the pool that leave the connections,
\* the tasks and the ids alone.
LEMMA QuietSteps ==
  ASSUME \/ CreateThread \/ Getloop \/ Listen \/ Poll \/ EndRound \/ StartReturns
         \/ QuitThread \/ JoinThread \/ PoolDestroyed \/ DestroyAcceptor \/ Stop
         \/ UNCHANGED vars
         \/ \E i \in Threads : ThreadEntry(i) \/ ThreadEnds(i)
  PROVE  UNCHANGED <<clients, table, tasks, threadCnt>>
BY DEF CreateThread, Getloop, Listen, Poll, EndRound, StartReturns, QuitThread, JoinThread,
       PoolDestroyed, DestroyAcceptor, Stop, ThreadEntry, ThreadEnds, vars, clients, table,
       pool

\* The steps that leave the threads and the stage of the server alone.
LEMMA SteadySteps ==
  ASSUME \/ RunTask \/ ClientConnects \/ ClientVanishes \/ RunAfter \/ UNCHANGED vars
         \/ \E id \in DOMAIN conns : CloseConnection(id)
  PROVE  UNCHANGED <<main, at, gone, threadCnt, thread, loop, quit>>
BY DEF RunTask, ClientConnects, ClientVanishes, RunAfter, CloseConnection, vars, pool

\* What NewConnection does to the table of connections and to the turn.
LEMMA NewConnectionStep ==
  ASSUME Shape, NewConnection
  PROVE  /\ nextId' = nextId + 1 /\ nextId' \notin DOMAIN conns
         /\ NextLoop \in {Base} \cup Threads
         /\ idx' \in Nat /\ (idx' = 0 \/ idx' < threadCnt)
         /\ DOMAIN conns' = DOMAIN conns \cup {nextId'}
         /\ conns'[nextId'] = [loop |-> NextLoop, open |-> TRUE]
         /\ \A id \in DOMAIN conns : conns'[id] = conns[id]
         /\ conns' \in [DOMAIN conns' -> [loop : {Base} \cup Threads, open : BOOLEAN]]
<1>1. nextId' = nextId + 1 /\ nextId' \notin DOMAIN conns
  BY DEF Shape, NewConnection
<1>2. /\ NextLoop \in {Base} \cup Threads
      /\ idx' \in Nat /\ (idx' = 0 \/ idx' < threadCnt)
  <2>1. CASE threadCnt = 0
    BY <2>1 DEF Shape, NewConnection, NextLoop
  <2>2. CASE threadCnt # 0
    <3>1. threadCnt \in Nat \ {0} /\ idx \in 0..(threadCnt - 1)
      BY <2>2, ThreadCount DEF Shape
    <3>2. (idx + 1) % threadCnt \in 0..(threadCnt - 1)
      BY <3>1, NextIndex
    <3> QED BY <2>2, <3>1, <3>2 DEF NewConnection, NextLoop, Threads
  <2> QED BY <2>1, <2>2
<1>3. /\ DOMAIN conns' = DOMAIN conns \cup {nextId'}
      /\ conns'[nextId'] = [loop |-> NextLoop, open |-> TRUE]
      /\ \A id \in DOMAIN conns : conns'[id] = conns[id]
  BY <1>1 DEF NewConnection
<1>4. ASSUME NEW id \in DOMAIN conns'
      PROVE  conns'[id] \in [loop : {Base} \cup Threads, open : BOOLEAN]
  <2>1. CASE id = nextId'
    <3> DEFINE L == {Base} \cup Threads
    <3>1. NextLoop \in L
      BY <1>2
    <3> HIDE DEF L
    <3>2. [loop |-> NextLoop, open |-> TRUE] \in [loop : L, open : BOOLEAN]
      BY <3>1
    <3> QED BY <1>3, <2>1, <3>2 DEF L
  <2>2. CASE id \in DOMAIN conns
    BY <1>3, <2>2 DEF Shape
  <2> QED BY <1>3, <2>1, <2>2
<1>5. conns' = [id \in DOMAIN conns' |-> conns'[id]]
  BY DEF NewConnection
<1> QED BY <1>1, <1>2, <1>3, <1>4, <1>5

\* accept() gives a connection or fails, and the round goes on with the tasks.
LEMMA AcceptStep ==
  ASSUME Shape, Accept
  PROVE  /\ main = "accept" /\ main' = "tasks" /\ batch' = Len(tasks)
         /\ UNCHANGED <<at, gone, threadCnt, thread, loop, quit, listening, calls, tasks>>
         /\ \/ NewConnection /\ pending' = pending - 1 /\ pending' \in Nat
            \/ UNCHANGED <<table, pending>>
<1>1. pending > 0 => pending - 1 \in Nat
  BY DEF Shape
<1> QED BY <1>1 DEF Accept, pool

\* What closing a connection does to the table: nothing but to close it.
LEMMA CloseConnectionStep ==
  ASSUME Shape, NEW id \in DOMAIN conns, CloseConnection(id)
  PROVE  /\ DOMAIN conns' = DOMAIN conns
         /\ conns' \in [DOMAIN conns -> [loop : {Base} \cup Threads, open : BOOLEAN]]
         /\ \A c \in DOMAIN conns : conns'[c].loop = conns[c].loop
         /\ Closed' = Closed \cup {id} /\ id \notin Closed
<1>1. conns \in [DOMAIN conns -> [loop : {Base} \cup Threads, open : BOOLEAN]]
  BY DEF Shape
<1>2. conns' = [conns EXCEPT ![id].open = FALSE] /\ conns[id].open
  BY DEF CloseConnection, HasDescriptor
<1>3. DOMAIN conns' = DOMAIN conns
  BY <1>2
<1>4. conns' \in [DOMAIN conns -> [loop : {Base} \cup Threads, open : BOOLEAN]]
  BY <1>1, <1>2
<1>5. \A c \in DOMAIN conns : conns'[c].loop = conns[c].loop
  BY <1>1, <1>2
<1>6. \A c \in DOMAIN conns : conns'[c].open <=> (conns[c].open /\ c # id)
  BY <1>1, <1>2
<1>7. Closed' = Closed \cup {id} /\ id \notin Closed
  BY <1>2, <1>3, <1>6 DEF Closed
<1> QED BY <1>3, <1>4, <1>5, <1>7

\* The first task and the rest.
LEMMA FirstTask ==
  ASSUME Shape, tasks # <<>>
  PROVE  /\ Head(tasks) \in Task /\ Tail(tasks) \in Seq(Task)
         /\ Len(tasks) \in Nat /\ Len(tasks) >= 1 /\ Len(Tail(tasks)) = Len(tasks) - 1
         /\ Head(tasks) = tasks[1]
         /\ \A k \in 1..Len(Tail(tasks)) : Tail(tasks)[k] = tasks[k + 1]
BY DEF Shape

\* A task that is run is there.
LEMMA RunTaskStep ==
  ASSUME Shape, RunTask
  PROVE  tasks # <<>> /\ tasks' = Tail(tasks) /\ UNCHANGED <<gone, conns>>
<1>1. batch \in Nat /\ batch > 0 /\ batch <= Len(tasks)
  BY DEF Shape, RunTask
<1>2. tasks # <<>>
  BY <1>1
<1> QED BY <1>2 DEF RunTask

\* Members in the order they go.
LEMMA MembersInOrder ==
  ASSUME gone \in 0..4, main = "destroying" => gone < 4
  PROVE  /\ Dying("_connections") => main = "destroying" /\ gone = 0
         /\ Dying("_pool") => main = "destroying" /\ gone = 1
         /\ Dying("_acceptor") => main = "destroying" /\ gone = 2
         /\ Dying("_base_loop") => main = "destroying" /\ gone = 3
         /\ Len(Members) = 4
         /\ "_base_loop" \in Dead => gone = 4
<1>1. /\ Members[1] = "_connections" /\ Members[2] = "_pool"
      /\ Members[3] = "_acceptor" /\ Members[4] = "_base_loop" /\ Len(Members) = 4
  BY DEF Members
<1>2. gone = 0 \/ gone = 1 \/ gone = 2 \/ gone = 3 \/ gone = 4
  OBVIOUS
<1>3. "_base_loop" \in Dead => gone = 4
  BY <1>1, <1>2 DEF Dead
<1>4. Members[gone + 1] = CASE gone = 0 -> "_connections" [] gone = 1 -> "_pool"
                            [] gone = 2 -> "_acceptor" [] gone = 3 -> "_base_loop"
                            [] OTHER -> Members[gone + 1]
  BY <1>1, <1>2
<1> QED BY <1>1, <1>2, <1>3, <1>4 DEF Dying

-----------------------------------------------------------------------------
(* Types                                                                    *)

LEMMA ShapeNext ==
  ASSUME Shape, Stages, [Next]_vars
  PROVE  Shape'
<1>0. /\ threadCnt \in Nat /\ (main = "destroying" => gone < 4) /\ gone \in 0..4
      /\ MaxIds \in Nat
  BY ThreadCount, ServerAssumption DEF Shape, Stages
<1>1. CASE CreateThread \/ Getloop \/ Listen
  <2>1. main' \in Mains /\ listening' \in BOOLEAN
    BY <1>1 DEF CreateThread, Getloop, Listen, NextRound, Mains, Shape
  <2>5. batch = 0 /\ batch' \in Nat /\ batch' <= Len(tasks)
        /\ (main' \notin {"tasks", "draining"} => batch' = 0)
    BY <1>1 DEF CreateThread, Getloop, Listen, NextRound, Shape
  <2>4. at' \in 1..(threadCnt + 1)
    <3>1. CASE Getloop
      BY <1>0, <3>1 DEF Getloop, Shape, Stages, Threads
    <3> QED BY <1>1, <3>1 DEF CreateThread, Listen, Shape
  <2>2. thread' \in [Threads -> {"none", "entry", "looping", "ended"}]
    BY <1>1 DEF CreateThread, Getloop, Listen, Shape, pool
  <2>3. UNCHANGED <<gone, threadCnt, loop, quit, clients, table, tasks>>
    BY <1>1 DEF CreateThread, Getloop, Listen, pool
  <2> QED BY <2>1, <2>2, <2>3, <2>4, <2>5 DEF Shape, Threads, clients, table
<1>2. CASE Poll \/ EndRound \/ StartReturns
  <2>1. main' \in Mains /\ at' \in 1..(threadCnt + 1)
        /\ (main' \notin {"tasks", "draining"} => batch' = 0)
    BY <1>0, <1>2 DEF Poll, EndRound, StartReturns, NextRound, Mains, Shape
  <2>2. batch' \in Nat /\ batch' <= Len(tasks)
    BY <1>2 DEF Poll, EndRound, StartReturns, NextRound, Shape
  <2>3. UNCHANGED <<gone, threadCnt, thread, loop, quit, listening, clients, table, tasks>>
    BY <1>2 DEF Poll, EndRound, StartReturns, pool
  <2> QED BY <2>1, <2>2, <2>3 DEF Shape, Threads, clients, table
<1>3. CASE QuitThread \/ JoinThread \/ PoolDestroyed \/ DestroyAcceptor
  <2>1. /\ main' \in {"join", "destroying", "destroyed"} /\ batch = 0
        /\ gone' \in 0..4 /\ listening' \in BOOLEAN
    <3>1. CASE QuitThread \/ JoinThread
      BY <3>1 DEF QuitThread, JoinThread, Dying, Shape
    <3>2. CASE PoolDestroyed
      <4>1. main = "destroying" /\ gone = 1
        BY <1>0, <3>2, MembersInOrder DEF PoolDestroyed
      <4> QED BY <3>2, <4>1 DEF PoolDestroyed, Shape
    <3>3. CASE DestroyAcceptor
      <4>1. main = "destroying" /\ gone = 2
        BY <1>0, <3>3, MembersInOrder DEF DestroyAcceptor
      <4>2. gone' = 3 /\ main' \in {"destroying", "destroyed"}
        BY <3>3, <4>1 DEF DestroyAcceptor
      <4>3. listening' \in BOOLEAN
        BY <3>3 DEF DestroyAcceptor
      <4> QED BY <4>1, <4>2, <4>3 DEF Shape
    <3> QED BY <1>3, <3>1, <3>2, <3>3
  <2>4. at' \in 1..(threadCnt + 1)
    <3>1. CASE JoinThread
      BY <1>0, <3>1 DEF JoinThread, Shape, Stages, Threads
    <3> QED BY <1>3, <3>1 DEF QuitThread, PoolDestroyed, DestroyAcceptor, Shape
  <2>2. quit' \in [{Base} \cup Threads -> BOOLEAN]
    BY <1>3 DEF QuitThread, JoinThread, PoolDestroyed, DestroyAcceptor, Shape, pool
  <2>3. UNCHANGED <<threadCnt, thread, loop, clients, table, tasks, batch>>
    BY <1>3 DEF QuitThread, JoinThread, PoolDestroyed, DestroyAcceptor, pool
  <2> QED BY <2>1, <2>2, <2>3, <2>4 DEF Shape, Mains, Threads, clients, table
<1>4. CASE DestroyConnections
  BY <1>0, <1>4, MembersInOrder DEF DestroyConnections, Shape, Threads, pool, clients
<1>5. CASE DestroyBaseLoop
  <2>1. main' \in {"destroying", "destroyed"} /\ gone' \in 0..4
    BY <1>0, <1>5, MembersInOrder DEF DestroyBaseLoop
  <2>2. tasks' = <<>> /\ tasks' \in Seq(Task) /\ Len(tasks') = 0 /\ batch = 0
    BY <1>0, <1>5, MembersInOrder DEF DestroyBaseLoop, Shape
  <2> QED BY <1>5, <2>1, <2>2 DEF DestroyBaseLoop, Shape, Mains, Threads, pool, clients, table
<1>6. ASSUME NEW i \in Threads, ThreadEntry(i) \/ ThreadEnds(i)
      PROVE  Shape'
  <2>1. /\ thread' \in [Threads -> {"none", "entry", "looping", "ended"}]
        /\ loop' \in [Threads -> BOOLEAN]
    BY <1>6 DEF ThreadEntry, ThreadEnds, Shape
  <2> QED BY <1>6, <2>1 DEF ThreadEntry, ThreadEnds, Shape, Threads, clients, table
<1>7. CASE Accept
  <2>1. /\ main' = "tasks" /\ batch' = Len(tasks) /\ Len(tasks) \in Nat
        /\ UNCHANGED <<at, gone, threadCnt, thread, loop, quit, listening, calls, tasks>>
    BY <1>7, AcceptStep DEF Shape
  <2>2. CASE NewConnection /\ pending' \in Nat
    <3>1. /\ nextId' \in Nat /\ nextId' >= nextId
          /\ DOMAIN conns' \subseteq 1..nextId' /\ map' \subseteq DOMAIN conns'
      BY <2>2, NewConnectionStep DEF NewConnection, Shape
    <3>2. armed' \subseteq (1..nextId') \X {"connection", "runAfter"}
      BY <2>2, <3>1, NewConnectionStep DEF NewConnection, Shape
    <3> QED BY <2>1, <2>2, <3>1, <3>2, NewConnectionStep DEF Shape, Mains, Threads
  <2>3. CASE UNCHANGED <<table, pending>>
    BY <2>1, <2>3 DEF Shape, Mains, Threads, table
  <2> QED BY <1>7, <2>2, <2>3, AcceptStep
<1>8. CASE RunTask
  <2>1. UNCHANGED <<main, at, gone, threadCnt, thread, loop, quit, listening, pending, calls,
                    conns, idx>>
    BY <1>8 DEF RunTask, pool, clients
  <2>2. tasks' \in Seq(Task) /\ batch' \in Nat
    BY <1>8, FirstTask DEF RunTask, Shape
  <2>3. batch' <= Len(tasks') /\ main \in {"tasks", "draining"}
    BY <1>8, FirstTask DEF RunTask, Shape
  <2>4. nextId' \in Nat /\ nextId' >= nextId /\ map' \subseteq map
    BY <1>8 DEF RunTask, RemoveConnectionInLoop, RunAfterInLoop, Shape
  <2>5. armed' \subseteq (1..nextId') \X {"connection", "runAfter"}
    BY <1>8, <2>4 DEF RunTask, RemoveConnectionInLoop, RunAfterInLoop, Shape
  <2> QED BY <2>1, <2>2, <2>3, <2>4, <2>5 DEF Shape, Threads
<1>9. ASSUME NEW id \in DOMAIN conns, CloseConnection(id)
      PROVE  Shape'
  <2>1. UNCHANGED <<main, at, gone, threadCnt, thread, loop, quit, idx, listening, pending,
                    calls, batch, nextId, armed>>
    BY <1>9 DEF CloseConnection, RemoveConnectionInLoop, pool, clients
  <2>2. map' \subseteq map
    BY <1>9 DEF CloseConnection, RemoveConnectionInLoop
  <2>3. Removal(id) \in Task
    BY DEF Task, Shape
  <2>4. tasks' = tasks \/ tasks' = Append(tasks, Removal(id))
    BY <1>9 DEF CloseConnection, Removal
  <2>5. tasks' \in Seq(Task) /\ Len(tasks') >= Len(tasks)
    <3>1. tasks \in Seq(Task)
      BY DEF Shape
    <3> QED BY <2>3, <2>4, <3>1
  <2> QED BY <1>9, <2>1, <2>2, <2>5, CloseConnectionStep DEF Shape, Threads
<1>10. CASE ClientConnects
  <2>1. pending' \in Nat /\ calls' \in Nat /\ calls' <= MaxIds
    BY <1>0, <1>10 DEF ClientConnects, Shape
  <2> QED BY <1>10, <2>1 DEF ClientConnects, Shape, Threads, pool, table
<1>11. CASE RunAfter
  <2>1. tasks' = Append(tasks, Delayed) /\ Delayed \in Task
    BY <1>11 DEF RunAfter, Delayed, Task
  <2>2. tasks \in Seq(Task) /\ batch <= Len(tasks) /\ batch \in Nat
    BY DEF Shape
  <2>3. tasks' \in Seq(Task) /\ batch <= Len(tasks')
    BY <2>1, <2>2
  <2>4. calls' \in Nat /\ calls' <= MaxIds
    BY <1>0, <1>11 DEF RunAfter, Shape
  <2> QED BY <1>11, <2>3, <2>4 DEF RunAfter, Shape, Threads, pool, table
<1>12. CASE Stop
  BY <1>12 DEF Stop, Shape, Threads, pool, clients, table
<1>13. CASE UNCHANGED vars
  BY <1>13 DEF vars, Shape, Threads, pool, clients, table
<1>14. CASE ClientVanishes
  <2>1. pending' \in Nat
    BY <1>14 DEF ClientVanishes, Shape
  <2> QED BY <1>14, <2>1 DEF ClientVanishes, Shape, Threads, pool, table
<1> QED BY <1>1, <1>2, <1>3, <1>4, <1>5, <1>6, <1>7, <1>8, <1>9, <1>10, <1>11, <1>12,
           <1>13, <1>14 DEF Next, Server, Pool

-----------------------------------------------------------------------------
(* The stages of the server and of its pool                                 *)

LEMMA StagesNext ==
  ASSUME Shape, Stages, [Next]_vars
  PROVE  Stages'
<1>0. /\ threadCnt \in Nat /\ at \in 1..(threadCnt + 1) /\ Threads = 1..threadCnt
      /\ gone \in 0..4 /\ (main = "destroying" => gone < 4)
      /\ thread \in [Threads -> {"none", "entry", "looping", "ended"}]
      /\ loop \in [Threads -> BOOLEAN] /\ quit \in [{Base} \cup Threads -> BOOLEAN]
      /\ Base \notin Threads
  BY ThreadCount DEF Shape, Stages, Threads, Base
<1>1. CASE CreateThread
  <2>1. /\ main = "create" /\ main' = "getloop" /\ at \in Threads
        /\ thread' = [thread EXCEPT ![at] = "entry"]
        /\ UNCHANGED <<at, gone, threadCnt, loop, quit>>
    BY <1>1 DEF CreateThread
  <2>2. thread'[at] = "entry" /\ \A i \in Threads \ {at} : thread'[i] = thread[i]
    BY <1>0, <2>1
  <2> QED BY <1>0, <2>1, <2>2 DEF Stages, Threads
<1>2. CASE Getloop
  <2>1. /\ main = "getloop" /\ main' = "create" /\ loop[at] /\ at' = at + 1
        /\ UNCHANGED <<gone, threadCnt, thread, loop, quit>>
    BY <1>2 DEF Getloop, pool
  <2>2. at \in Threads /\ thread[at] = "looping"
    BY <2>1 DEF Stages
  <2> QED BY <1>0, <2>1, <2>2 DEF Stages, Threads
<1>3. CASE Listen
  <2>1. /\ main = "create" /\ main' \in {"polling", "draining"} /\ at \notin Threads
        /\ UNCHANGED <<at, gone, threadCnt, thread, loop, quit>>
    BY <1>3 DEF Listen, NextRound, pool
  <2>2. \A i \in Threads : i < at
    BY <1>0, <2>1
  <2> QED BY <1>0, <2>1, <2>2 DEF Stages, Threads
<1>4. CASE Poll \/ Accept \/ EndRound
  <2>1. /\ main \in {"polling", "accept", "tasks"}
        /\ main' \in {"polling", "accept", "tasks", "draining"}
        /\ UNCHANGED <<at, gone, threadCnt, thread, loop, quit>>
    BY <1>4 DEF Poll, Accept, EndRound, NextRound, pool
  <2> QED BY <2>1 DEF Stages, Threads
<1>15. CASE StartReturns
  BY <1>0, <1>15 DEF StartReturns, pool, Stages, Threads
<1>5. CASE QuitThread
  <2>1. main = "destroying" /\ gone = 1 /\ at \in Threads
    BY <1>0, <1>5, MembersInOrder DEF QuitThread
  <2> QED BY <1>0, <1>5, <2>1 DEF QuitThread, pool, Stages, Threads
<1>6. CASE JoinThread
  <2>1. /\ main = "join" /\ main' = "destroying" /\ at' = at + 1 /\ thread[at] = "ended"
        /\ UNCHANGED <<gone, threadCnt, thread, loop, quit>>
    BY <1>6 DEF JoinThread, pool
  <2> QED BY <1>0, <2>1 DEF Stages, Threads
<1>7. CASE PoolDestroyed
  <2>1. main = "destroying" /\ gone = 1 /\ at = threadCnt + 1
    BY <1>0, <1>7, MembersInOrder DEF PoolDestroyed
  <2> QED BY <1>0, <1>7, <2>1 DEF PoolDestroyed, pool, Stages, Threads
<1>8. CASE DestroyConnections
  <2>1. main = "destroying" /\ gone = 0
    BY <1>0, <1>8, MembersInOrder DEF DestroyConnections
  <2> QED BY <1>0, <1>8, <2>1 DEF DestroyConnections, pool, Stages, Threads
<1>9. CASE DestroyAcceptor
  <2>1. main = "destroying" /\ gone = 2 /\ main' = "destroying" /\ gone' = 3
    <3>1. main = "destroying" /\ gone = 2 /\ Len(Members) = 4
      BY <1>0, <1>9, MembersInOrder DEF DestroyAcceptor
    <3> QED BY <1>9, <3>1 DEF DestroyAcceptor
  <2> QED BY <1>0, <1>9, <2>1 DEF DestroyAcceptor, pool, Stages, Threads
<1>10. CASE DestroyBaseLoop
  <2>1. main = "destroying" /\ gone = 3 /\ main' = "destroyed" /\ gone' = 4
    <3>1. main = "destroying" /\ gone = 3 /\ Len(Members) = 4
      BY <1>0, <1>10, MembersInOrder DEF DestroyBaseLoop
    <3> QED BY <1>10, <3>1 DEF DestroyBaseLoop
  <2> QED BY <1>0, <1>10, <2>1 DEF DestroyBaseLoop, pool, Stages, Threads
<1>11. ASSUME NEW i \in Threads, ThreadEntry(i)
       PROVE  Stages'
  <2>1. /\ thread[i] = "entry"
        /\ thread' = [thread EXCEPT ![i] = "looping"] /\ loop' = [loop EXCEPT ![i] = TRUE]
        /\ UNCHANGED <<main, at, gone, threadCnt, quit>>
    BY <1>11 DEF ThreadEntry
  <2>2. /\ thread'[i] = "looping" /\ loop'[i]
        /\ \A j \in Threads \ {i} : thread'[j] = thread[j] /\ loop'[j] = loop[j]
    BY <1>0, <2>1
  <2>3. main # "create" \/ i # at
    BY <2>1 DEF Stages
  <2> QED BY <1>0, <2>1, <2>2, <2>3 DEF Stages, Threads
<1>12. ASSUME NEW i \in Threads, ThreadEnds(i)
       PROVE  Stages'
  <2>1. /\ thread[i] = "looping" /\ quit[i]
        /\ thread' = [thread EXCEPT ![i] = "ended"] /\ loop' = [loop EXCEPT ![i] = FALSE]
        /\ UNCHANGED <<main, at, gone, threadCnt, quit>>
    BY <1>12 DEF ThreadEnds
  <2>2. /\ thread'[i] = "ended" /\ ~loop'[i]
        /\ \A j \in Threads \ {i} : thread'[j] = thread[j] /\ loop'[j] = loop[j]
    BY <1>0, <2>1
  <2>3. main \in {"destroying", "join", "destroyed"}
    BY <1>0, <2>1 DEF Stages, Shape, Mains
  <2> QED BY <1>0, <2>1, <2>2, <2>3 DEF Stages, Threads
<1>13. CASE Stop
  <2>1. /\ UNCHANGED <<main, at, gone, threadCnt, thread, loop>>
        /\ \A i \in Threads : quit'[i] = quit[i]
    BY <1>0, <1>13 DEF Stop, pool
  <2> QED BY <2>1 DEF Stages, Threads
<1>14. CASE UNCHANGED <<main, at, gone, threadCnt, thread, loop, quit>>
  BY <1>14 DEF Stages, Threads
<1> QED BY <1>1, <1>2, <1>3, <1>4, <1>5, <1>6, <1>7, <1>8, <1>9, <1>10, <1>11, <1>12,
           <1>13, <1>14, <1>15, SteadySteps DEF Next, Server, Pool

-----------------------------------------------------------------------------
(* The budget of calls                                                      *)

LEMMA ClosedFinite ==
  ASSUME Shape
  PROVE  /\ IsFiniteSet(Closed) /\ Cardinality(Closed) \in Nat
         /\ Cardinality(Closed) <= nextId
<1>1. nextId \in Nat /\ Closed \in SUBSET (1..nextId)
  BY DEF Shape, Closed
<1>2. IsFiniteSet(1..nextId) /\ Cardinality(1..nextId) = nextId
  BY <1>1, FS_Interval
<1>3. IsFiniteSet(Closed) /\ Cardinality(Closed) <= nextId
  BY <1>1, <1>2, FS_Subset
<1> QED BY <1>3, FS_CardinalityType

LEMMA BudgetNext ==
  ASSUME Shape, Stages, Budget, [Next]_vars
  PROVE  Budget'
<1> DEFINE waits == Cardinality(RunAfters(tasks))
           closed == Cardinality(Closed)
<1>0. /\ tasks \in Seq(Task) /\ Len(tasks) \in Nat
      /\ nextId \in Nat /\ pending \in Nat /\ calls \in Nat
      /\ waits \in Nat /\ closed \in Nat /\ IsFiniteSet(Closed)
      /\ nextId + pending + waits <= calls
      /\ Len(tasks) <= waits + closed
  BY RunAftersFinite, ClosedFinite DEF Shape, Budget
<1> HIDE DEF waits, closed
<1>1. CASE Accept
  <2>1. UNCHANGED <<calls, tasks>> /\ waits' = waits
    BY <1>1, AcceptStep DEF waits
  <2>2. CASE NewConnection /\ pending' = pending - 1
    <3>1. nextId' = nextId + 1 /\ Closed' = Closed
      BY <2>2, NewConnectionStep DEF Closed
    <3> QED BY <1>0, <2>1, <2>2, <3>1 DEF Budget, closed, waits
  <2>3. CASE UNCHANGED <<table, pending>>
    BY <1>0, <2>1, <2>3 DEF Budget, table, closed, waits, Closed
  <2> QED BY <1>1, <2>2, <2>3, AcceptStep
<1>2. CASE RunTask
  <2>1. /\ tasks # <<>> /\ tasks' = Tail(tasks) /\ UNCHANGED <<pending, calls, conns>>
        /\ nextId' = IF Head(tasks) = Delayed THEN nextId + 1 ELSE nextId
    <3>1. tasks # <<>> /\ Head(tasks) \in Task
      BY <1>2, RunTaskStep, FirstTask
    <3> QED BY <1>2, <3>1, TasksDiffer
            DEF RunTask, RemoveConnectionInLoop, RunAfterInLoop, clients, Delayed
  <2>2. waits' = waits - (IF Head(tasks) = Delayed THEN 1 ELSE 0) /\ closed' = closed
    BY <1>0, <2>1, RunAftersTail DEF waits, closed, Closed
  <2>3. Len(tasks') = Len(tasks) - 1
    BY <1>0, <2>1
  <2>4. CASE Head(tasks) = Delayed
    BY <1>0, <2>1, <2>2, <2>3, <2>4 DEF Budget, waits, closed
  <2>5. CASE Head(tasks) # Delayed
    BY <1>0, <2>1, <2>2, <2>3, <2>5 DEF Budget, waits, closed
  <2> QED BY <2>4, <2>5
<1>3. CASE DestroyConnections
  BY <1>0, <1>3 DEF DestroyConnections, Budget, clients, waits, closed, Closed
<1>4. CASE DestroyBaseLoop
  <2>1. tasks' = <<>> /\ Len(tasks') = 0 /\ UNCHANGED <<nextId, pending, calls, conns>>
    BY <1>4 DEF DestroyBaseLoop, clients, table
  <2>2. RunAfters(tasks') = {}
    BY <2>1 DEF RunAfters
  <2>3. Cardinality(RunAfters(tasks')) = 0 /\ Cardinality(Closed') = closed
    BY <2>1, <2>2, FS_EmptySet DEF closed, Closed
  <2> QED BY <1>0, <2>1, <2>3 DEF Budget
<1>5. ASSUME NEW id \in DOMAIN conns, CloseConnection(id)
      PROVE  Budget'
  <2>1. UNCHANGED <<pending, calls, nextId>>
    BY <1>5 DEF CloseConnection, RemoveConnectionInLoop, clients
  <2>2. closed' = closed + 1
    BY <1>0, <1>5, CloseConnectionStep, FS_AddElement DEF closed
  <2>3. tasks' = tasks \/ tasks' = Append(tasks, Removal(id))
    BY <1>5 DEF CloseConnection, Removal
  <2>4. id \in Nat /\ Removal(id) \in Task /\ Removal(id) # Delayed
    BY TasksDiffer DEF Shape, Task
  <2>5. waits' = waits /\ Len(tasks') <= Len(tasks) + 1
    <3>1. CASE tasks' = tasks
      BY <1>0, <3>1 DEF waits
    <3>2. CASE tasks' = Append(tasks, Removal(id))
      BY <1>0, <2>4, <3>2, RunAftersAppend DEF waits
    <3> QED BY <2>3, <3>1, <3>2
  <2>6. Len(tasks') \in Nat
    BY <1>0, <2>3, <2>4
  <2> QED BY <1>0, <2>1, <2>2, <2>5, <2>6 DEF Budget, waits, closed
<1>6. CASE ClientConnects
  BY <1>0, <1>6 DEF ClientConnects, Budget, table, waits, closed, Closed
<1>7. CASE RunAfter
  <2>1. /\ tasks' = Append(tasks, Delayed) /\ Delayed \in Task /\ calls' = calls + 1
        /\ UNCHANGED <<pending, nextId, conns>>
    BY <1>7 DEF RunAfter, Delayed, Task, table
  <2>2. waits' = waits + 1 /\ closed' = closed /\ Len(tasks') = Len(tasks) + 1
    BY <1>0, <2>1, RunAftersAppend DEF waits, closed, Closed
  <2> QED BY <1>0, <2>1, <2>2 DEF Budget, waits, closed
<1>8. CASE UNCHANGED <<clients, table, tasks, threadCnt>>
  BY <1>8 DEF Budget, clients, table, Closed
<1>9. CASE ClientVanishes
  <2>1. pending' = pending - 1 /\ UNCHANGED <<nextId, calls, tasks, conns>>
    BY <1>9 DEF ClientVanishes, table
  <2> QED BY <1>0, <2>1 DEF Budget, waits, closed, Closed
<1> QED BY <1>1, <1>2, <1>3, <1>4, <1>5, <1>6, <1>7, <1>8, <1>9, QuietSteps
        DEF Next, Server, Pool

-----------------------------------------------------------------------------
(* The loops in turn                                                        *)

LEMMA GivenFinite ==
  ASSUME Shape, NEW i
  PROVE  IsFiniteSet(Given(i)) /\ Cardinality(Given(i)) \in Nat
<1>1. nextId \in Nat /\ Given(i) \in SUBSET (1..nextId)
  BY DEF Shape, Given
<1>2. IsFiniteSet(1..nextId)
  BY <1>1, FS_Interval
<1>3. IsFiniteSet(Given(i))
  BY <1>1, <1>2, FS_Subset
<1> QED BY <1>3, FS_CardinalityType

\* The turn moves on by one loop, and that loop is the one given the connection.
LEMMA TurnMovesOn ==
  ASSUME Shape, NewConnection, UNCHANGED threadCnt, RoundRobin
  PROVE  RoundRobin'
<1>1. PICK q \in Nat : \A i \in Threads :
          Cardinality(Given(i)) = IF i \in 2..(idx + 1) THEN q + 1 ELSE q
  BY DEF RoundRobin
<1>2. Threads' = Threads /\ Threads = 1..threadCnt
  BY DEF Threads
<1>3. CASE threadCnt = 0
  <2>1. Threads' = {}
    BY <1>2, <1>3
  <2> QED BY <2>1 DEF RoundRobin
<1>4. CASE threadCnt # 0
  <2>1. threadCnt \in Nat \ {0} /\ idx \in 0..(threadCnt - 1)
    BY <1>4, ThreadCount DEF Shape
  <2>2. /\ idx' = IF idx + 1 = threadCnt THEN 0 ELSE idx + 1
        /\ NextLoop = 1 + idx'
    BY <1>4, <2>1, NextIndex DEF NewConnection, NextLoop
  <2>3. ASSUME NEW i \in Threads
        PROVE  Cardinality(Given(i)') =
                   Cardinality(Given(i)) + (IF i = NextLoop THEN 1 ELSE 0)
    <3>1. CASE i = NextLoop
      <4>1. Given(i)' = Given(i) \cup {nextId'} /\ nextId' \notin Given(i)
        BY <3>1, NewConnectionStep DEF Given
      <4> QED BY <3>1, <4>1, GivenFinite, FS_AddElement
    <3>2. CASE i # NextLoop
      <4>1. Given(i)' = Given(i)
        BY <3>2, NewConnectionStep DEF Given
      <4> QED BY <3>2, <4>1, GivenFinite
    <3> QED BY <3>1, <3>2
  <2>4. CASE idx + 1 < threadCnt
    <3>1. ASSUME NEW i \in Threads
          PROVE  Cardinality(Given(i)') = IF i \in 2..(idx' + 1) THEN q + 1 ELSE q
      BY <1>1, <1>2, <2>1, <2>2, <2>3, <2>4
    <3> QED BY <1>2, <3>1 DEF RoundRobin
  <2>5. CASE idx + 1 = threadCnt
    <3>1. ASSUME NEW i \in Threads
          PROVE  Cardinality(Given(i)') = IF i \in 2..(idx' + 1) THEN q + 2 ELSE q + 1
      BY <1>1, <1>2, <2>1, <2>2, <2>3, <2>5
    <3>2. q + 1 \in Nat /\ q + 2 = (q + 1) + 1
      OBVIOUS
    <3> QED BY <1>2, <3>1, <3>2 DEF RoundRobin
  <2> QED BY <2>1, <2>4, <2>5
<1> QED BY <1>3, <1>4

LEMMA RoundRobinNext ==
  ASSUME Shape, RoundRobin, [Next]_vars
  PROVE  RoundRobin'
<1>1. CASE Accept
  <2>1. CASE UNCHANGED <<table, pending>>
    BY <1>1, <2>1, AcceptStep DEF table, RoundRobin, Given, Threads
  <2> QED BY <1>1, <2>1, AcceptStep, TurnMovesOn
<1>2. ASSUME NEW id \in DOMAIN conns, CloseConnection(id)
      PROVE  RoundRobin'
  <2>1. UNCHANGED <<threadCnt, idx>>
    BY <1>2 DEF CloseConnection, pool
  <2>2. \A i \in Threads : Given(i)' = Given(i)
    BY <1>2, CloseConnectionStep DEF Given
  <2> QED BY <2>1, <2>2 DEF RoundRobin, Threads
<1>3. CASE \/ RunTask \/ DestroyConnections \/ DestroyBaseLoop
           \/ ClientConnects \/ ClientVanishes \/ RunAfter
  <2>1. UNCHANGED <<threadCnt, idx, conns>>
    BY <1>3 DEF RunTask, DestroyConnections, DestroyBaseLoop, ClientConnects, ClientVanishes,
                RunAfter, pool, table
  <2> QED BY <2>1 DEF RoundRobin, Given, Threads
<1>4. CASE UNCHANGED <<clients, table, tasks, threadCnt>>
  BY <1>4 DEF RoundRobin, Given, Threads, table
<1> QED BY <1>1, <1>2, <1>3, <1>4, QuietSteps DEF Next, Server, Pool

-----------------------------------------------------------------------------
(* Timers and removals                                                      *)

LEMMA TimerIdsNext ==
  ASSUME Shape, TimerIdsUnique, [Next]_vars
  PROVE  TimerIdsUnique'
<1>0. \A a \in armed : a[1] \in 1..nextId /\ nextId \in Nat
  BY DEF Shape
<1>1. ASSUME NEW what, nextId' = nextId + 1, armed' = armed \cup {<<nextId', what>>}
      PROVE  TimerIdsUnique'
  <2>1. \A a \in armed : a[1] # nextId'
    BY <1>0, <1>1
  <2> QED BY <1>1, <2>1 DEF TimerIdsUnique
<1>2. CASE UNCHANGED armed
  BY <1>2 DEF TimerIdsUnique
<1>3. CASE Accept
  <2>1. \/ UNCHANGED armed
        \/ nextId' = nextId + 1 /\ armed' = armed \cup {<<nextId', "connection">>}
    BY <1>3, AcceptStep DEF NewConnection, table
  <2> QED BY <1>1, <1>2, <2>1
<1>4. CASE RunTask
  <2>1. \/ UNCHANGED armed
        \/ nextId' = nextId + 1 /\ armed' = armed \cup {<<nextId', "runAfter">>}
    BY <1>4 DEF RunTask, RemoveConnectionInLoop, RunAfterInLoop
  <2> QED BY <1>1, <1>2, <2>1
<1>5. CASE \/ DestroyConnections \/ DestroyBaseLoop
           \/ ClientConnects \/ ClientVanishes \/ RunAfter
           \/ \E id \in DOMAIN conns : CloseConnection(id)
  <2>1. UNCHANGED armed
    BY <1>5 DEF DestroyConnections, DestroyBaseLoop, ClientConnects, ClientVanishes, RunAfter,
                CloseConnection, RemoveConnectionInLoop, table
  <2> QED BY <1>2, <2>1
<1>6. CASE UNCHANGED <<clients, table, tasks, threadCnt>>
  BY <1>2, <1>6 DEF table
<1> QED BY <1>3, <1>4, <1>5, <1>6, QuietSteps DEF Next, Server, Pool

LEMMA PostedAppend ==
  ASSUME tasks \in Seq(Task), NEW t \in Task, tasks' = Append(tasks, t), NEW id \in Nat
  PROVE  Posted(id)' <=> Posted(id) \/ t = Removal(id)
<1>1. /\ Len(tasks) \in Nat /\ Len(tasks') = Len(tasks) + 1
      /\ \A k \in 1..Len(tasks) : tasks'[k] = tasks[k]
      /\ tasks'[Len(tasks) + 1] = t
  OBVIOUS
<1>2. \A k \in 1..Len(tasks') : k \in 1..Len(tasks) \/ k = Len(tasks) + 1
  BY <1>1
<1>3. 1..Len(tasks) \subseteq 1..Len(tasks') /\ Len(tasks) + 1 \in 1..Len(tasks')
  BY <1>1
<1> QED BY <1>1, <1>2, <1>3 DEF Posted

LEMMA PostedTail ==
  ASSUME Shape, tasks # <<>>, tasks' = Tail(tasks), NEW id \in Nat
  PROVE  /\ Posted(id)' => Posted(id)
         /\ Posted(id) => Posted(id)' \/ Head(tasks) = Removal(id)
         /\ Head(tasks) = Removal(id) => Posted(id)
<1>1. /\ Len(tasks) \in Nat /\ Len(tasks) >= 1 /\ Len(tasks') = Len(tasks) - 1
      /\ Head(tasks) = tasks[1]
      /\ \A k \in 1..Len(tasks') : tasks'[k] = tasks[k + 1]
  BY FirstTask
<1>2. \A k \in 1..Len(tasks') : k + 1 \in 1..Len(tasks)
  BY <1>1
<1>3. ASSUME NEW k \in 1..Len(tasks)
      PROVE  k = 1 \/ (k - 1 \in 1..Len(tasks') /\ tasks'[k - 1] = tasks[k])
  <2>1. k # 1 => k - 1 \in 1..Len(tasks') /\ (k - 1) + 1 = k
    BY <1>1
  <2> QED BY <1>1, <2>1
<1>4. 1 \in 1..Len(tasks)
  BY <1>1
<1> QED BY <1>1, <1>2, <1>3, <1>4 DEF Posted

\* Removing a closed connection's int from the keys takes no open connection
\* along, and takes that one if an int can hold its id.
LEMMA RemovalStep ==
  ASSUME Shape, Removals, NEW id \in Closed', RemoveConnectionInLoop(id),
         DOMAIN conns' = DOMAIN conns, Closed' \in {Closed, Closed \cup {id}}, UNCHANGED gone,
         \A c \in Nat : Posted(c)' => c \in Closed',
         \A c \in Nat : Posted(c) => Posted(c)' \/ c = id
  PROVE  Removals'
<1> DEFINE all == 2^IntBits
           half == 2^(IntBits - 1)
<1>1. /\ map' = map \ {IntId(id)} /\ UNCHANGED nextId
      /\ DOMAIN conns \subseteq 1..nextId /\ nextId \in Nat /\ Closed' \subseteq DOMAIN conns
      /\ map \subseteq DOMAIN conns
  BY DEF RemoveConnectionInLoop, Shape, Closed
<1>a. half \in Nat /\ all = 2 * half
  BY ServerAssumption
<1>2. id \in Nat \ {0} /\ id <= nextId
  BY <1>1
<1>3. id < half => IntId(id) = id
  BY <1>2, IntKeepsIds
<1>4. nextId <= all => \A c \in DOMAIN conns : IntId(id) = c => id = c
  <2> SUFFICES ASSUME nextId <= all, NEW c \in DOMAIN conns, IntId(id) = c
               PROVE  id = c
    OBVIOUS
  <2> HIDE DEF all
  <2>1. c \in Nat \ {0} /\ id <= all
    BY <1>1, <1>a, <1>2
  <2> QED BY <1>2, <2>1, IntKeepsIds DEF all
<1> HIDE DEF all, half
<1>5. gone' >= 1 => map' = {}
  BY <1>1 DEF Removals
<1>6. gone' = 0 /\ nextId' <= all => DOMAIN conns' \ Closed' \subseteq map'
  <2> SUFFICES ASSUME gone = 0, nextId <= all, NEW c \in DOMAIN conns \ Closed'
               PROVE  c \in map'
    BY <1>1
  <2>1. c \in map
    BY DEF Removals, all
  <2>2. c # IntId(id)
    BY <1>4
  <2> QED BY <1>1, <2>1, <2>2
<1>7. \A c \in map' \cap Closed' : c < half => Posted(c)'
  <2> SUFFICES ASSUME NEW c \in map' \cap Closed', c < half
               PROVE  Posted(c)'
    OBVIOUS
  <2>1. c \in map /\ c # id /\ c \in Nat
    BY <1>1, <1>3
  <2>2. c \in Closed
    BY <2>1
  <2>3. Posted(c)
    BY <2>1, <2>2 DEF Removals, half
  <2> QED BY <2>1, <2>3
<1> QED BY <1>5, <1>6, <1>7 DEF Removals, all, half

LEMMA RemovalsNext ==
  ASSUME Shape, Stages, Removals, [Next]_vars
  PROVE  Removals'
<1> DEFINE all == 2^IntBits
           half == 2^(IntBits - 1)
<1>0. /\ tasks \in Seq(Task) /\ nextId \in Nat /\ map \subseteq DOMAIN conns
      /\ DOMAIN conns \subseteq 1..nextId /\ Closed \subseteq DOMAIN conns
      /\ gone \in 0..4 /\ (main = "destroying" => gone < 4)
  BY DEF Shape, Stages, Closed
<1>a. half \in Nat /\ all = 2 * half
  BY ServerAssumption
<1> HIDE DEF all, half
<1>1. CASE Accept
  <2>1. UNCHANGED <<gone, tasks>> /\ main = "accept"
    BY <1>1, AcceptStep
  <2>2. CASE NewConnection
    <3>1. /\ nextId' = nextId + 1 /\ map' = map \cup {nextId'}
          /\ DOMAIN conns' = DOMAIN conns \cup {nextId'} /\ Closed' = Closed
          /\ nextId' \notin Closed
      BY <2>2, NewConnectionStep DEF NewConnection, Closed
    <3>2. nextId' <= all => nextId <= all
      BY <1>0, <1>a, <3>1
    <3>3. gone = 0
      BY <2>1 DEF Stages
    <3> QED BY <2>1, <3>1, <3>2, <3>3 DEF Removals, Posted, all
  <2>3. CASE UNCHANGED table
    BY <2>1, <2>3 DEF Removals, Posted, Closed, table
  <2> QED BY <1>1, <2>2, <2>3, AcceptStep
<1>2. CASE RunTask
  <2>1. tasks # <<>> /\ tasks' = Tail(tasks) /\ UNCHANGED <<gone, conns>>
    BY <1>2, RunTaskStep
  <2>2. \A c \in Nat : Posted(c)' => c \in Closed'
    BY <2>1, PostedTail DEF Removals, Closed
  <2>3. CASE Head(tasks).kind = "remove" /\ RemoveConnectionInLoop(Head(tasks).id)
    <3>1. PICK id \in Nat : Head(tasks) = Removal(id)
      BY <2>1, <2>3, FirstTask, TasksDiffer
    <3>2. RemoveConnectionInLoop(id)
      BY <2>3, <3>1, TasksDiffer
    <3>3. id \in Closed'
      BY <2>1, <3>1, PostedTail DEF Removals, Closed
    <3>4. \A c \in Nat : Posted(c) => Posted(c)' \/ c = id
      <4> SUFFICES ASSUME NEW c \in Nat, Posted(c), ~Posted(c)'
                   PROVE  c = id
        OBVIOUS
      <4>1. Removal(id) = Removal(c)
        BY <2>1, <3>1, PostedTail
      <4> QED BY <4>1, TasksDiffer
    <3> QED BY <2>1, <2>2, <3>2, <3>3, <3>4, RemovalStep DEF Closed
  <2>4. CASE Head(tasks).kind = "runAfter" /\ RunAfterInLoop
    <3>1. Head(tasks) = Delayed /\ nextId' = nextId + 1 /\ UNCHANGED map
      BY <2>1, <2>4, FirstTask, TasksDiffer DEF RunAfterInLoop
    <3>2. \A c \in Nat : Posted(c) => Posted(c)'
      BY <2>1, <3>1, PostedTail, TasksDiffer
    <3>3. nextId' <= all => nextId <= all
      BY <1>0, <1>a, <3>1
    <3>4. \A c \in map \cap Closed : c \in Nat
      BY <1>0
    <3> QED BY <2>1, <2>2, <3>1, <3>2, <3>3, <3>4 DEF Removals, Closed, all
  <2> QED BY <1>2, <2>3, <2>4 DEF RunTask
<1>3. ASSUME NEW id \in DOMAIN conns, CloseConnection(id)
      PROVE  Removals'
  <2>1. /\ DOMAIN conns' = DOMAIN conns /\ Closed' = Closed \cup {id} /\ UNCHANGED gone
    BY <1>3, CloseConnectionStep DEF CloseConnection
  <2>4. id \in Nat
    BY <1>0
  <2>2. CASE RemoveConnectionInLoop(id) /\ UNCHANGED tasks
    <3>1. \A c \in Nat : Posted(c)' <=> Posted(c)
      BY <2>2 DEF Posted
    <3>2. \A c \in Nat : Posted(c)' => c \in Closed'
      BY <2>1, <3>1 DEF Removals
    <3> QED BY <2>1, <2>2, <3>1, <3>2, RemovalStep
  <2>3. CASE tasks' = Append(tasks, Removal(id)) /\ UNCHANGED <<map, nextId, armed>>
    <3>1. Removal(id) \in Task
      BY <2>4 DEF Task
    <3>2. \A c \in Nat : Posted(c)' <=> Posted(c) \/ Removal(id) = Removal(c)
      BY <1>0, <2>3, <3>1, PostedAppend
    <3>3. \A c \in Nat : Posted(c)' <=> Posted(c) \/ c = id
      BY <2>4, <3>2, TasksDiffer
    <3>4. \A c \in map \cap Closed : c \in Nat
      BY <1>0
    <3> QED BY <1>0, <2>1, <2>3, <3>3, <3>4 DEF Removals
  <2> QED BY <1>3, <2>2, <2>3 DEF CloseConnection, Removal
<1>4. CASE DestroyConnections
  <2>1. gone' = 1 /\ map' = {} /\ UNCHANGED <<tasks, conns>>
    <3>1. gone = 0
      BY <1>0, <1>4, MembersInOrder DEF DestroyConnections
    <3> QED BY <1>4, <3>1 DEF DestroyConnections
  <2> QED BY <2>1 DEF Removals, Posted, Closed
<1>5. CASE DestroyBaseLoop
  <2>1. /\ gone = 3 /\ gone' = 4 /\ map = {} /\ map' = {} /\ Len(tasks') = 0
        /\ UNCHANGED conns
    <3>1. gone = 3
      BY <1>0, <1>5, MembersInOrder DEF DestroyBaseLoop
    <3> QED BY <1>5, <3>1 DEF DestroyBaseLoop, table, Removals
  <2>2. \A c \in Nat : ~Posted(c)'
    BY <2>1 DEF Posted
  <2> QED BY <2>1, <2>2 DEF Removals
<1>6. CASE ClientConnects \/ ClientVanishes
  BY <1>6 DEF ClientConnects, ClientVanishes, table, Removals, Posted, Closed
<1>7. CASE RunAfter
  <2>1. /\ tasks' = Append(tasks, Delayed) /\ Delayed \in Task
        /\ UNCHANGED <<gone, conns, map, nextId>>
    BY <1>7 DEF RunAfter, Delayed, Task, table
  <2>2. \A c \in Nat : Posted(c)' <=> Posted(c)
    BY <1>0, <2>1, PostedAppend, TasksDiffer
  <2>3. \A c \in map \cap Closed : c \in Nat
    BY <1>0
  <2> QED BY <2>1, <2>2, <2>3 DEF Removals, Closed
<1>8. CASE UNCHANGED <<clients, table, tasks, threadCnt>> /\ UNCHANGED gone
  BY <1>8 DEF Removals, Posted, Closed, table
<1>9. CASE PoolDestroyed \/ DestroyAcceptor
  <2>1. gone' \in Nat /\ gone' >= 1 /\ gone >= 1 /\ UNCHANGED <<table, tasks>>
    <3>1. gone >= 1
      BY <1>0, <1>9, MembersInOrder DEF PoolDestroyed, DestroyAcceptor
    <3> QED BY <1>0, <1>9, <3>1 DEF PoolDestroyed, DestroyAcceptor
  <2> QED BY <2>1 DEF Removals, Posted, Closed, table
<1>10. ASSUME \/ CreateThread \/ Getloop \/ Listen \/ Poll \/ EndRound \/ StartReturns
              \/ QuitThread \/ JoinThread \/ Stop \/ UNCHANGED vars
              \/ \E i \in Threads : ThreadEntry(i) \/ ThreadEnds(i)
       PROVE  UNCHANGED gone
  BY <1>10 DEF CreateThread, Getloop, Listen, Poll, EndRound, StartReturns, QuitThread,
               JoinThread, Stop, ThreadEntry, ThreadEnds, vars
<1> QED BY <1>1, <1>2, <1>3, <1>4, <1>5, <1>6, <1>7, <1>8, <1>9, <1>10, QuietSteps
        DEF Next, Server, Pool

-----------------------------------------------------------------------------
(* The invariant and what follows from it                                   *)

LEMMA InitInv == Init => IInv
<1> SUFFICES ASSUME Init
             PROVE  IInv
  OBVIOUS
<1>1. threadCnt \in ThreadCnts /\ threadCnt \in Nat /\ Threads = 1..threadCnt
  BY ServerAssumption DEF Init, Threads
<1>2. /\ conns = <<>> /\ DOMAIN conns = {} /\ tasks = <<>> /\ Len(tasks) = 0
      /\ tasks \in Seq(Task) /\ MaxIds \in Nat
  BY ServerAssumption DEF Init
<1>3. conns \in [DOMAIN conns -> [loop : {Base} \cup Threads, open : BOOLEAN]]
  BY <1>2
<1>4. Shape
  <2>1. at \in 1..(threadCnt + 1) /\ gone \in 0..4 /\ idx \in Nat /\ idx = 0
    BY <1>1 DEF Init
  <2>2. /\ thread \in [Threads -> {"none", "entry", "looping", "ended"}]
        /\ loop \in [Threads -> BOOLEAN] /\ quit \in [{Base} \cup Threads -> BOOLEAN]
        /\ listening \in BOOLEAN
    BY DEF Init
  <2>3. /\ pending \in Nat /\ nextId \in Nat /\ calls \in Nat /\ batch = 0
        /\ calls <= MaxIds /\ map = {} /\ armed = {} /\ main = "create"
    BY <1>2 DEF Init
  <2> QED BY <1>1, <1>2, <1>3, <2>1, <2>2, <2>3 DEF Shape, Mains
<1>5. Stages
  BY <1>1 DEF Init, Stages, Base
<1>6. Closed = {} /\ RunAfters(tasks) = {} /\ \A i : Given(i) = {}
  BY <1>2 DEF Closed, RunAfters, Given
<1>7. Budget
  <2>1. Cardinality(RunAfters(tasks)) = 0 /\ Cardinality(Closed) = 0
    BY <1>6, FS_EmptySet
  <2>2. nextId = 0 /\ pending = 0 /\ calls = 0
    BY DEF Init
  <2> QED BY <1>2, <2>1, <2>2 DEF Budget
<1>8. RoundRobin
  <2>1. \A i \in Threads : Cardinality(Given(i)) = IF i \in 2..(idx + 1) THEN 0 + 1 ELSE 0
    <3>1. idx = 0 /\ \A i : Cardinality(Given(i)) = 0
      BY <1>6, FS_EmptySet DEF Init
    <3> QED BY <3>1
  <2> QED BY <2>1 DEF RoundRobin
<1>9. Removals
  BY <1>2, <1>6 DEF Init, Removals, Posted
<1>10. TimerIdsUnique
  BY DEF Init, TimerIdsUnique
<1> QED BY <1>4, <1>5, <1>7, <1>8, <1>9, <1>10 DEF IInv

LEMMA Invariant == Spec => []IInv
<1>1. IInv /\ [Next]_vars => IInv'
  BY ShapeNext, StagesNext, TimerIdsNext, BudgetNext, RoundRobinNext, RemovalsNext DEF IInv
<1> QED BY InitInv, <1>1, PTL DEF Spec

LEMMA TypesFollow == IInv => TypeOK
<1> SUFFICES ASSUME IInv
             PROVE  TypeOK
  OBVIOUS
<1>1. /\ Cardinality(RunAfters(tasks)) \in Nat /\ Cardinality(Closed) \in Nat
      /\ Cardinality(Closed) <= nextId
      /\ nextId \in Nat /\ pending \in Nat /\ calls \in Nat /\ calls <= MaxIds
      /\ batch \in Nat /\ batch <= Len(tasks)
  BY RunAftersFinite, ClosedFinite DEF IInv, Shape
<1>a. MaxIds \in Nat /\ Len(tasks) \in Nat
  BY ServerAssumption DEF IInv, Shape
<1>2. nextId <= MaxIds /\ pending <= MaxIds /\ batch <= MaxIds
  BY <1>1, <1>a DEF IInv, Budget
<1>3. {pending, nextId, calls, batch} \subseteq 0..MaxIds
  BY <1>1, <1>a, <1>2
<1>4. Len(Members) = 4
  BY DEF Members
<1> QED BY <1>3, <1>4 DEF IInv, Shape, Mains, Looping, TypeOK

LEMMA TurnsFollow == IInv => LoopsTakeTurns
<1> SUFFICES ASSUME IInv, NEW i \in Threads, NEW j \in Threads
             PROVE  Cardinality(Given(i)) <= Cardinality(Given(j)) + 1
  BY DEF LoopsTakeTurns, Given
<1>1. PICK q \in Nat : \A l \in Threads :
          Cardinality(Given(l)) = IF l \in 2..(idx + 1) THEN q + 1 ELSE q
  BY DEF IInv, RoundRobin
<1>2. Cardinality(Given(i)) \in {q, q + 1} /\ Cardinality(Given(j)) \in {q, q + 1}
  BY <1>1
<1> QED BY <1>2

\* What the server keeps from Start to the end of its destruction: the types, an
\* acceptor that gives connections only to loops that run, and to all of them in
\* turn, timers without a common id in the wheel of the base loop, and threads
\* that end before the loop they post to.
THEOREM ServerKeepsItsOrder == Spec => []ServerInv
<1>1. IInv => ReadyLoopsOnly
  BY DEF IInv, Shape, Stages, Looping, ReadyLoopsOnly
<1>2. IInv => BaseLoopOutlivesThreads
  <2> SUFFICES ASSUME IInv, "_base_loop" \in Dead, NEW i \in Threads
               PROVE  thread[i] = "ended"
    BY DEF BaseLoopOutlivesThreads
  <2>1. gone = 4
    BY MembersInOrder DEF IInv, Shape, Stages
  <2>2. main \in {"destroying", "join", "destroyed"} /\ at = threadCnt + 1
    BY <2>1 DEF IInv, Shape, Mains, Stages
  <2>3. threadCnt \in Nat /\ i < at
    BY <2>2, ThreadCount DEF IInv, Threads
  <2> QED BY <2>2, <2>3 DEF IInv, Stages
<1>3. IInv => ServerInv
  BY <1>1, <1>2, TypesFollow, TurnsFollow DEF IInv, ServerInv
<1> QED BY <1>3, Invariant, PTL

\* _connections has every open connection as long as no id has come round as an
\* int, and forgets a closed one as soon as its removal has run on the base loop.
THEOREM RemovesExactly == Spec => []RemovalIsExact
<1>1. IInv => RemovalIsExact
  <2> SUFFICES ASSUME IInv, main \in Looping, NEW id \in DOMAIN conns
               PROVE  /\ (conns[id].open /\ nextId <= 2^IntBits) => id \in map
                      /\ (~conns[id].open /\ id < 2^(IntBits - 1) /\ id \in map) => Posted(id)
    BY DEF RemovalIsExact, Posted, Removal
  <2>1. gone = 0
    BY DEF IInv, Stages, Looping
  <2> QED BY <2>1 DEF IInv, Removals, Closed
<1> QED BY <1>1, Invariant, PTL
=============================================================================
