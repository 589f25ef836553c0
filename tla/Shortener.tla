------------------------------ MODULE Shortener ------------------------------
(***************************************************************************)
(* The URL shortener (src/net/http/shortener): the io threads run          *)
(* ApiShorten and Redirect, with a pool of MySQL connections, a pool of    *)
(* Redis connections and a worker for asynchronous queries. MySQL may be   *)
(* out of reach for a while, answers may be lost, cached entries expire,   *)
(* and the process may be killed and started again.                        *)
(***************************************************************************)
EXTENDS Integers, Sequences, FiniteSets, Base62

CONSTANTS
    IoThreads,
    Urls,           \* the long URLs; the empty one is refused before anything happens
    Pids,           \* the process ids a (re)started server can get
    PoolSize,       \* _m_pool_size
    RedisSize,      \* pool_size of Redis_Client::Connect
    SeqRoom,        \* the largest seq whose placeholder fits the column code, VARCHAR(16)
    NoUrl,
    MaxId, MaxQueries, MaxFaults   \* bounds of the model; faults are outages and crashes

ASSUME ShortenerAssumption ==
    /\ {PoolSize, RedisSize} \subseteq Nat \ {0}
    /\ {SeqRoom, MaxId, MaxQueries, MaxFaults} \subseteq Nat
    /\ NoUrl \notin Urls /\ IsFiniteSet(IoThreads)

VARIABLES
    up, epoch,      \* MySQL is reachable; how often it went away (older connections are broken)
    table, nextId,  \* short_url: id to code, url (and, as history, the process that wrote it)
    cache,          \* Redis: code to url
    pid, life,      \* the process, and how many there have been
    seq,            \* the static counter of ApiShorten
    mysqls, lost,   \* _mysqls, each connection by its epoch; slots nobody will push again
    redisIdle,      \* how many connections are in Redis_Client::_conns
    io,             \* what each io thread is doing
    queries,        \* _async_queue
    worker,         \* AsyncWorker and its connection (NoConn when it has none)
    answered,       \* history: the codes ApiShorten has answered, with their urls
    unstored        \* history: the ids whose UPDATE failed

vars == <<up, epoch, table, nextId, cache, pid, life, seq, mysqls, lost, redisIdle,
          io, queries, worker, answered, unstored>>

server == <<up, epoch>>
process == <<pid, life>>
history == <<answered, unstored>>

NoConn == -1
Text(id) == [kind |-> "code", text |-> Encode(id)]
\* TMP_<pid>_<seq>
Placeholder(n) == [kind |-> "tmp", pid |-> pid, seq |-> n]
Codes == {Encode(id) : id \in 1..MaxId}

Faults == epoch + life - 1

Idle == [at |-> "idle", url |-> NoUrl, conn |-> NoConn, id |-> 0, code |-> <<>>]
Resting(conn) == [at |-> "top", code |-> <<>>, url |-> NoUrl, conn |-> conn]

Working(conn) == up /\ conn = epoch
RowsWith(code) == {id \in DOMAIN table : table[id].code = code}

\* Mysql_Pool::Init and Redis_Client::Connect, for a process that comes up.
FreshProcess(e) ==
    /\ seq' = 0
    /\ mysqls' = [i \in 1..PoolSize |-> e] /\ lost' = 0
    /\ redisIdle' = RedisSize
    /\ io' = [t \in IoThreads |-> Idle]
    /\ queries' = <<>> /\ worker' = Resting(e)

Init ==
    /\ up = TRUE /\ epoch = 0
    /\ table = <<>> /\ nextId = 1 /\ cache = <<>>
    /\ pid \in Pids /\ life = 1 /\ seq = 0
    /\ mysqls = [i \in 1..PoolSize |-> 0] /\ lost = 0
    /\ redisIdle = RedisSize
    /\ io = [t \in IoThreads |-> Idle]
    /\ queries = <<>> /\ worker = Resting(0)
    /\ answered = {} /\ unstored = {}

At(t, place) == io[t].at = place
Go(t, place) == io' = [io EXCEPT ![t].at = place]
Return(t) == io' = [io EXCEPT ![t] = Idle]

-----------------------------------------------------------------------------
(* ApiShorten                                                               *)

\* Bounded: every call may still use up one id, and the placeholder outgrows its
\* column at most once or twice.
Shorten(t, u) ==
    /\ At(t, "idle") /\ seq <= SeqRoom
    /\ nextId + Cardinality({th \in IoThreads : io[th].at \in {"acquire", "ping", "insert"}}) <= MaxId
    /\ io' = [io EXCEPT ![t].at = "acquire", ![t].url = u]
    /\ UNCHANGED <<server, table, nextId, cache, process, seq, mysqls, lost, redisIdle,
                   queries, worker, history>>

\* Mysql_Pool::Acquire, under the mutex.
AcquireMysql(t) ==
    /\ At(t, "acquire") /\ mysqls # <<>>
    /\ io' = [io EXCEPT ![t].at = "ping", ![t].conn = Head(mysqls)]
    /\ mysqls' = Tail(mysqls)
    /\ UNCHANGED <<server, table, nextId, cache, process, seq, lost, redisIdle,
                   queries, worker, history>>

\* Mutant: it goes on trying until the server is back.
PingMysqlRetries(t) ==
    /\ At(t, "ping")
    /\ io' = IF up THEN [io EXCEPT ![t].at = "insert", ![t].conn = epoch] ELSE io
    /\ UNCHANGED <<server, table, nextId, cache, process, seq, mysqls, lost, redisIdle,
                   queries, worker, history>>

\* The rest of Acquire: ping, and connect anew if that fails; without a server
\* it returns nullptr, ApiShorten answers 500 and the slot is gone.
PingMysql(t) ==
    /\ At(t, "ping")
    /\ IF up
       THEN io' = [io EXCEPT ![t].at = "insert", ![t].conn = epoch] /\ UNCHANGED lost
       ELSE Return(t) /\ lost' = lost + 1
    /\ UNCHANGED <<server, table, nextId, cache, process, seq, mysqls, redisIdle,
                   queries, worker, history>>

NewRow(t) == [code |-> Placeholder(seq'), url |-> io[t].url, life |-> life]

\* A map with one more entry, or another value for it.
Put(map, key, value) ==
    [k \in DOMAIN map \cup {key} |-> IF k = key THEN value ELSE map[k]]

\* mysql_insert_id, as a code.
NewCode == Encode(nextId)

\* INSERT of a placeholder. It fails when the connection broke, the placeholder
\* has outgrown its column or is taken (which uses up an id too); its success may
\* not be heard of. Counting seq is part of the step: the counter is atomic, so the
\* numbers differ in whatever order their statements reach the server.
Insert(t) ==
    /\ At(t, "insert")
    /\ seq' = seq + 1
    /\ IF ~Working(io[t].conn) \/ seq' > SeqRoom
       THEN Go(t, "failed") /\ UNCHANGED <<table, nextId>>
       ELSE /\ nextId' = nextId + 1
            /\ IF RowsWith(Placeholder(seq')) # {}
               THEN Go(t, "failed") /\ UNCHANGED table
               ELSE /\ table' = Put(table, nextId, NewRow(t))
                    /\ \/ io' = [io EXCEPT ![t].at = "update", ![t].id = nextId,
                                           ![t].code = NewCode]
                       \/ Go(t, "failed")
    /\ UNCHANGED <<server, cache, process, mysqls, lost, redisIdle, queries, worker, history>>

\* Mutant: the connection is not given back.
ReleaseFailedForgotten(t) ==
    /\ At(t, "failed")
    /\ Return(t)
    /\ UNCHANGED <<server, table, nextId, cache, process, seq, mysqls, lost, redisIdle,
                   queries, worker, history>>

\* Mysql_Pool::Release after a failed INSERT; the answer is 500.
ReleaseFailed(t) ==
    /\ At(t, "failed")
    /\ mysqls' = Append(mysqls, io[t].conn)
    /\ Return(t)
    /\ UNCHANGED <<server, table, nextId, cache, process, seq, lost, redisIdle,
                   queries, worker, history>>

\* Mutant: the row is looked up by the shared counter.
UpdateBySeq(t) ==
    /\ At(t, "update")
    /\ table' = IF Working(io[t].conn) /\ seq \in DOMAIN table
                THEN [table EXCEPT ![seq].code = Text(io[t].id)] ELSE table
    /\ unstored' = IF Working(io[t].conn) THEN unstored ELSE unstored \cup {io[t].id}
    /\ Go(t, "release")
    /\ UNCHANGED <<server, nextId, cache, process, seq, mysqls, lost, redisIdle,
                   queries, worker, answered>>

\* UPDATE; a failure is only logged.
Update(t) ==
    /\ At(t, "update")
    /\ IF Working(io[t].conn)
       THEN table' = [table EXCEPT ![io[t].id].code = Text(io[t].id)] /\ UNCHANGED unstored
       ELSE unstored' = unstored \cup {io[t].id} /\ UNCHANGED table
    /\ Go(t, "release")
    /\ UNCHANGED <<server, nextId, cache, process, seq, mysqls, lost, redisIdle,
                   queries, worker, answered>>

ReleaseMysql(t) ==
    /\ At(t, "release")
    /\ mysqls' = Append(mysqls, io[t].conn)
    /\ Go(t, "set")
    /\ UNCHANGED <<server, table, nextId, cache, process, seq, lost, redisIdle,
                   queries, worker, history>>

-----------------------------------------------------------------------------
(* Redis_Client: a connection is taken, used and pushed again.              *)

AcquireRedis(t) ==
    /\ redisIdle > 0
    /\ \/ At(t, "set") /\ Go(t, "setting")
       \/ At(t, "get") /\ Go(t, "getting")
    /\ redisIdle' = redisIdle - 1
    /\ UNCHANGED <<server, table, nextId, cache, process, seq, mysqls, lost,
                   queries, worker, history>>

\* SETEX, or a failure that is only logged.
Store(code, url) == cache' = Put(cache, code, url) \/ UNCHANGED cache

\* The end of ApiShorten: the code is answered whatever became of the SETEX.
AnswerShorten(t) ==
    /\ At(t, "setting")
    /\ Store(io[t].code, io[t].url)
    /\ redisIdle' = redisIdle + 1
    /\ answered' = answered \cup {<<io[t].code, io[t].url>>}
    /\ Return(t)
    /\ UNCHANGED <<server, table, nextId, process, seq, mysqls, lost, queries, worker, unstored>>

-----------------------------------------------------------------------------
(* Redirect                                                                 *)

\* Bounded: no more while so many queries wait or are answered.
Redirect(t, code) ==
    /\ At(t, "idle") /\ Len(queries) + (IF worker.at = "top" THEN 0 ELSE 1) < MaxQueries
    /\ io' = [io EXCEPT ![t].at = "get", ![t].code = code]
    /\ UNCHANGED <<server, table, nextId, cache, process, seq, mysqls, lost, redisIdle,
                   queries, worker, history>>

\* GET: a hit answers; a miss, an expired entry or a failure hands the query to
\* the worker.
GetReply(t) ==
    /\ At(t, "getting")
    /\ \/ io[t].code \in DOMAIN cache /\ UNCHANGED queries
       \/ queries' = Append(queries, io[t].code)
    /\ redisIdle' = redisIdle + 1
    /\ Return(t)
    /\ UNCHANGED <<server, table, nextId, cache, process, seq, mysqls, lost, worker, history>>

\* AsyncWorker: take a query; renew a connection that is broken, never one that
\* could not be renewed.
WorkerPing ==
    /\ worker.at = "top" /\ queries # <<>>
    /\ worker' = [at |-> "query", code |-> Head(queries), url |-> NoUrl,
                  conn |-> IF worker.conn = NoConn \/ ~up THEN NoConn ELSE epoch]
    /\ queries' = Tail(queries)
    /\ UNCHANGED <<server, table, nextId, cache, process, seq, mysqls, lost, redisIdle,
                   io, history>>

\* Query, although the server may have gone since the ping; the connection stays
\* the worker's whether or not that fails.
WorkerQuery ==
    /\ worker.at = "query"
    /\ LET rows == IF Working(worker.conn)
                   THEN RowsWith([kind |-> "code", text |-> worker.code]) ELSE {}
       IN  worker' = IF rows = {} THEN Resting(worker.conn)
                     ELSE [worker EXCEPT !.at = "set",
                                         !.url = table[CHOOSE id \in rows : TRUE].url]
    /\ UNCHANGED <<server, table, nextId, cache, process, seq, mysqls, lost, redisIdle,
                   io, queries, history>>

\* The callback in the worker fills the cache before it posts the answer.
WorkerAcquireRedis ==
    /\ worker.at = "set" /\ redisIdle > 0
    /\ worker' = [worker EXCEPT !.at = "setting"]
    /\ redisIdle' = redisIdle - 1
    /\ UNCHANGED <<server, table, nextId, cache, process, seq, mysqls, lost, io, queries, history>>

WorkerFill ==
    /\ worker.at = "setting"
    /\ Store(worker.code, worker.url)
    /\ worker' = Resting(worker.conn)
    /\ redisIdle' = redisIdle + 1
    /\ UNCHANGED <<server, table, nextId, process, seq, mysqls, lost, io, queries, history>>

-----------------------------------------------------------------------------
(* What happens to the servers and to the process.                          *)

Outage ==
    /\ up /\ Faults < MaxFaults
    /\ up' = FALSE /\ epoch' = epoch + 1
    /\ UNCHANGED <<table, nextId, cache, process, seq, mysqls, lost, redisIdle, io,
                   queries, worker, history>>

Recovery ==
    /\ ~up /\ up' = TRUE
    /\ UNCHANGED <<epoch, table, nextId, cache, process, seq, mysqls, lost, redisIdle, io,
                   queries, worker, history>>

\* Killed and started again; main leaves unless both servers can be reached.
Restart ==
    /\ up /\ Faults < MaxFaults
    /\ life' = life + 1 /\ pid' \in Pids
    /\ FreshProcess(epoch)
    /\ UNCHANGED <<server, table, nextId, cache, history>>

\* Every slot was lost in an outage: whoever asks for a connection waits forever.
Starved == lost = PoolSize /\ UNCHANGED vars

Io(t) ==
    \/ AcquireMysql(t) \/ PingMysql(t) \/ Insert(t) \/ ReleaseFailed(t) \/ Update(t)
    \/ ReleaseMysql(t) \/ AcquireRedis(t) \/ AnswerShorten(t) \/ GetReply(t)
Worker == WorkerPing \/ WorkerQuery \/ WorkerAcquireRedis \/ WorkerFill

Next ==
    \/ \E t \in IoThreads :
        \/ Io(t)
        \/ \E u \in Urls : Shorten(t, u)
        \/ \E code \in Codes : Redirect(t, code)
    \/ Worker
    \/ Outage \/ Recovery \/ Restart
    \/ Starved

Spec == Init /\ [][Next]_vars

\* Threads run, and whoever waits for a connection gets one in time if there are
\* always some again. Nothing is assumed of the servers and of the clients.
FairSpec == Spec /\ WF_vars(Worker) /\ \A t \in IoThreads : SF_vars(Io(t))

-----------------------------------------------------------------------------
(* Properties.                                                              *)

IoPlaces == {"idle", "acquire", "ping", "insert", "failed", "update", "release", "set",
             "setting", "get", "getting"}
Rows == [code : {Text(id) : id \in 1..MaxId}
                \cup [kind : {"tmp"}, pid : Pids, seq : Nat],
         url : Urls, life : Nat]

\* Types; ids are handed out once and in order, the index on code is unique.
TypeOK ==
    /\ up \in BOOLEAN /\ epoch \in Nat
    /\ nextId \in Nat /\ DOMAIN table \subseteq 1..(nextId - 1)
    /\ \A id \in DOMAIN table : table[id] \in Rows /\ RowsWith(table[id].code) = {id}
    /\ DOMAIN cache \subseteq Codes /\ \A c \in DOMAIN cache : cache[c] \in Urls
    /\ pid \in Pids /\ life \in Nat /\ seq \in Nat /\ lost \in Nat /\ redisIdle \in Nat
    /\ mysqls \in Seq(0..epoch)
    /\ \A t \in IoThreads :
        /\ io[t].at \in IoPlaces /\ io[t].conn \in 0..epoch \cup {NoConn}
        /\ io[t].url \in Urls \cup {NoUrl} /\ io[t].code \in Codes \cup {<<>>}
    /\ queries \in Seq(Codes)
    /\ worker.at \in {"top", "query", "set", "setting"} /\ worker.conn \in 0..epoch \cup {NoConn}

\* Whatever fails between INSERT, UPDATE and the cache, and whichever process
\* ran: a code answered, cached or being cached leads to the one url of its id.
CodesKeepTheirUrl ==
    LET RightFor(code, url) == /\ Decode(code) \in DOMAIN table
                               /\ table[Decode(code)].url = url
    IN  /\ \A c \in DOMAIN cache : RightFor(c, cache[c])
        /\ \A a \in answered : RightFor(a[1], a[2])
        /\ worker.at \in {"set", "setting"} => RightFor(worker.code, worker.url)

\* A code that was answered can be looked up once its cache entry is gone,
\* except when the UPDATE failed, which ApiShorten only logs.
AnsweredCodeIsStored ==
    \A a \in answered :
        Decode(a[1]) \in unstored \/ RowsWith(Text(Decode(a[1]))) = {Decode(a[1])}

\* No path through ApiShorten, Redirect or the worker keeps or doubles a
\* connection; the only slots that go are those Acquire could not renew.
SlotsConserved ==
    /\ Len(mysqls) + lost
        + Cardinality({t \in IoThreads :
                        io[t].at \in {"ping", "insert", "failed", "update", "release"}}) = PoolSize
    /\ redisIdle + Cardinality({t \in IoThreads : io[t].at \in {"setting", "getting"}})
        + (IF worker.at = "setting" THEN 1 ELSE 0) = RedisSize

\* shortener.cc:29: pid and seq keep placeholders apart. Within the life of a
\* process they do; a placeholder is taken only by what an earlier process with
\* the same pid left behind.
PlaceholderTakenByEarlierLifeOnly ==
    \A id \in DOMAIN table : table[id].code = Placeholder(seq + 1) => table[id].life < life

\* What the process, its pools and the table keep between any two steps.
ShortenerInv == TypeOK /\ SlotsConserved /\ PlaceholderTakenByEarlierLifeOnly

\* What ApiShorten answers can be used: the code leads to its url and to no
\* other, out of the cache and out of the table.
CodesResolve == CodesKeepTheirUrl /\ AnsweredCodeIsStored

\* Every call returns, unless each slot of the MySQL pool has been lost.
IoReturns ==
    \A t \in IoThreads : ~At(t, "idle") ~> (At(t, "idle") \/ lost = PoolSize)
=============================================================================
