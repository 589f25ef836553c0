----------------------------- MODULE AsyncLogger -----------------------------
(***************************************************************************)
(* The asynchronous logger (src/include/log_system): Logger::Debug..Fatal  *)
(* test the level and format, AsyncLooper::push puts the line in the       *)
(* producers' buffer, the worker thread swaps the two buffers and hands    *)
(* the full one to the sinks, a file rolled by size and one rolled by      *)
(* time; stop() ends the worker.                                           *)
(*                                                                         *)
(* A critical section is one step, except that a thread about to wait on a *)
(* condition variable still holds the mutex ("sleepy"): stop() does not    *)
(* take the mutex, so its steps come in between.                           *)
(***************************************************************************)
EXTENDS Naturals, Sequences, SequencesExt, FiniteSets

CONSTANTS
    Producers,      \* the threads that log
    Messages,       \* what they log, each once (the bound of the model)
    MsgLen,         \* bytes of a formatted message
    MsgLevel,       \* its level
    Safe,           \* ASYNC_SAFE or ASYNC_UNSAFE
    InitialSize,    \* DEFAULT_BUFFER_SIZE
    Threshold,      \* THRESHOLD_BUFFER_SIZE
    Increment,      \* INCREMENT_BUF_SIZE
    MaxFile,        \* RollfileSink::_max_size
    NoMsg           \* what a producer outside a call holds

Levels == 1..5

ASSUME LoggerAssumption ==
    /\ MsgLen \in [Messages -> Nat \ {0}]
    /\ MsgLevel \in [Messages -> Levels]
    /\ Safe \in BOOLEAN
    /\ {InitialSize, Increment} \subseteq Nat \ {0}
    /\ {Threshold, MaxFile} \subseteq Nat
    /\ NoMsg \notin Messages

VARIABLES
    limit,      \* _limit_level
    producer,   \* where each producer is, and the message of its call
    pro, con,   \* _pro_buf and _con_buf: size of the vector, messages in it
    stop,       \* _stop
    consumer,   \* where the worker is in threadentry
    stopper,    \* where the thread that stops the logger is in stop()
    sized,      \* the files of RollfileSink, each the sequence of its writes
    curSize,    \* RollfileSink::_cur_size
    timed,      \* the files of RollbytimefileSink
    accepted,   \* history: the messages pushed, in order
    missed      \* history: stop() notified while the worker was about to wait

vars == <<limit, producer, pro, con, stop, consumer, stopper, sized, curSize,
          timed, accepted, missed>>

files == <<sized, curSize, timed>>
buffers == <<pro, con>>
history == <<accepted, missed>>

Bytes(s) ==
    LET sum[i \in 0..Len(s)] == IF i = 0 THEN 0 ELSE sum[i - 1] + MsgLen[s[i]]
    IN  sum[Len(s)]
Content(fs) == FlattenSeq(FlattenSeq(fs))
EmptyBuffer == [size |-> InitialSize, data |-> <<>>]
AbleToWrite(b) == b.size - Bytes(b.data)

ProducerPlaces == {"idle", "ready", "sleepy", "waiting", "awake"}
ConsumerPlaces == {"top", "test", "sleepy", "waiting", "awake", "swapped", "written", "gone"}
StopperPlaces  == {"idle", "set", "notified", "joining", "joined"}

Begun == Range(accepted) \cup {producer[p].msg : p \in Producers}

Init ==
    /\ limit = 2
    /\ producer = [p \in Producers |-> [at |-> "idle", msg |-> NoMsg]]
    /\ pro = EmptyBuffer /\ con = EmptyBuffer
    /\ stop = FALSE
    /\ consumer = "top" /\ stopper = "idle"
    /\ sized = <<<<>>>> /\ curSize = 0 /\ timed = <<<<>>>>
    /\ accepted = <<>>
    /\ missed = FALSE

\* Nobody is between the test of a predicate and the wait that releases _mutex.
MutexFree ==
    /\ consumer \notin {"test", "sleepy"}
    /\ \A p \in Producers : producer[p].at # "sleepy"

\* Mutant: push forgets to notify.
WakeConsumerForgotten == UNCHANGED consumer

WakeConsumer == consumer' = IF consumer = "waiting" THEN "awake" ELSE consumer

\* Mutant: notify_one instead of notify_all.
WakeProducersOne ==
    IF \E p \in Producers : producer[p].at = "waiting"
    THEN \E p \in Producers : /\ producer[p].at = "waiting"
                              /\ producer' = [producer EXCEPT ![p].at = "awake"]
    ELSE UNCHANGED producer

WakeProducers ==
    producer' = [p \in Producers |-> IF producer[p].at = "waiting"
                                     THEN [producer[p] EXCEPT !.at = "awake"] ELSE producer[p]]

-----------------------------------------------------------------------------
(* The callers.                                                             *)

\* setLevel: a store that no call in progress looks at again.
SetLevel(l) ==
    /\ limit' = l
    /\ UNCHANGED <<producer, buffers, stop, consumer, stopper, files, history>>

\* Debug..Fatal: below the limit nothing happens; otherwise the line is
\* formatted by the caller and log() calls push.
LogCall(p, m) ==
    /\ producer[p].at = "idle"
    /\ m \notin Begun
    /\ MsgLevel[m] >= limit
    /\ producer' = [producer EXCEPT ![p] = [at |-> "ready", msg |-> m]]
    /\ UNCHANGED <<limit, buffers, stop, consumer, stopper, files, history>>

\* Buffer::getenoughsize: nothing is done only while something would be left free.
Enough(b, len) ==
    IF len < AbleToWrite(b) THEN b.size
    ELSE IF b.size < Threshold THEN b.size * 2 + len
    ELSE b.size + Increment + len

MayWrite(p) == ~Safe \/ stop \/ MsgLen[producer[p].msg] <= AbleToWrite(pro)

\* push, from the mutex to notify_one.
Push(p) ==
    /\ producer[p].at \in {"ready", "awake"}
    /\ MutexFree
    /\ MayWrite(p)
    /\ LET m == producer[p].msg IN
       /\ pro' = [size |-> Enough(pro, MsgLen[m]), data |-> Append(pro.data, m)]
       /\ accepted' = Append(accepted, m)
    /\ producer' = [producer EXCEPT ![p] = [at |-> "idle", msg |-> NoMsg]]
    /\ WakeConsumer
    /\ UNCHANGED <<limit, con, stop, stopper, files, missed>>

\* push in safe mode, when the message does not fit.
PushFindsNoRoom(p) ==
    /\ producer[p].at \in {"ready", "awake"}
    /\ MutexFree
    /\ ~MayWrite(p)
    /\ producer' = [producer EXCEPT ![p].at = "sleepy"]
    /\ UNCHANGED <<limit, buffers, stop, consumer, stopper, files, history>>

ProducerSleeps(p) ==
    /\ producer[p].at = "sleepy"
    /\ producer' = [producer EXCEPT ![p].at = "waiting"]
    /\ UNCHANGED <<limit, buffers, stop, consumer, stopper, files, history>>

-----------------------------------------------------------------------------
(* The worker: threadentry.                                                 *)

Enter ==
    /\ consumer = "top"
    /\ MutexFree
    /\ consumer' = IF stop /\ pro.data = <<>> THEN "gone" ELSE "test"
    /\ UNCHANGED <<limit, producer, buffers, stop, stopper, files, history>>

Testing == consumer = "test" \/ (consumer = "awake" /\ MutexFree)

FindNothing ==
    /\ Testing
    /\ ~stop /\ pro.data = <<>>
    /\ consumer' = "sleepy"
    /\ UNCHANGED <<limit, producer, buffers, stop, stopper, files, history>>

ConsumerSleeps ==
    /\ consumer = "sleepy"
    /\ consumer' = "waiting"
    /\ UNCHANGED <<limit, producer, buffers, stop, stopper, files, history>>

SwapBuffers ==
    /\ Testing
    /\ stop \/ pro.data # <<>>
    /\ pro' = con /\ con' = pro
    /\ consumer' = "swapped"
    /\ IF Safe THEN WakeProducers ELSE UNCHANGED producer
    /\ UNCHANGED <<limit, stop, stopper, files, history>>

\* A file with one more write, or a new file with it.
WriteTo(fs, batch) == [fs EXCEPT ![Len(fs)] = Append(@, batch)]
RollTo(fs, batch) == Append(fs, <<batch>>)

\* Mutant: the new file's size is not counted from its first write.
LogSizedForgetsLength(batch) ==
    IF curSize + Bytes(batch) > MaxFile
    THEN sized' = RollTo(sized, batch) /\ curSize' = 0
    ELSE sized' = WriteTo(sized, batch) /\ curSize' = curSize + Bytes(batch)

\* RollfileSink::log
LogSized(batch) ==
    IF curSize + Bytes(batch) > MaxFile
    THEN sized' = RollTo(sized, batch) /\ curSize' = Bytes(batch)
    ELSE sized' = WriteTo(sized, batch) /\ curSize' = curSize + Bytes(batch)

\* RollbytimefileSink::log: the interval may or may not have passed.
LogTimed(batch) == timed' = WriteTo(timed, batch) \/ timed' = RollTo(timed, batch)

\* The callback, AsyncLogger::reallog: every sink gets the whole buffer.
RealLog ==
    /\ consumer = "swapped"
    /\ LogSized(con.data) /\ LogTimed(con.data)
    /\ consumer' = "written"
    /\ UNCHANGED <<limit, producer, buffers, stop, stopper, history>>

\* Mutant: the buffer is handed back full.
ResetBufferSkipped ==
    /\ consumer = "written"
    /\ consumer' = "top"
    /\ UNCHANGED <<limit, producer, buffers, stop, stopper, files, history>>

ResetBuffer ==
    /\ consumer = "written"
    /\ con' = [con EXCEPT !.data = <<>>]
    /\ consumer' = "top"
    /\ UNCHANGED <<limit, producer, pro, stop, stopper, files, history>>

-----------------------------------------------------------------------------
(* stop(), which holds no mutex, and the wake-ups nobody asked for.         *)

SetStop ==
    /\ stopper = "idle"
    /\ stop' = TRUE /\ stopper' = "set"
    /\ UNCHANGED <<limit, producer, buffers, consumer, files, history>>

\* Mutant: stop() wakes the producers only.
NotifyConsumerForgotten ==
    /\ stopper = "set"
    /\ stopper' = "notified"
    /\ UNCHANGED <<limit, producer, buffers, stop, consumer, files, history>>

NotifyConsumer ==
    /\ stopper = "set"
    /\ WakeConsumer
    /\ stopper' = "notified"
    /\ missed' = (consumer = "sleepy")
    /\ UNCHANGED <<limit, producer, buffers, stop, files, accepted>>

NotifyProducers ==
    /\ stopper = "notified"
    /\ WakeProducers
    /\ stopper' = "joining"
    /\ UNCHANGED <<limit, buffers, stop, consumer, files, history>>

Join ==
    /\ stopper = "joining" /\ consumer = "gone"
    /\ stopper' = "joined"
    /\ UNCHANGED <<limit, producer, buffers, stop, consumer, files, history>>

\* A condition variable may return without a notification; never required.
SpuriousWakeup ==
    /\ \/ consumer = "waiting" /\ WakeConsumer /\ UNCHANGED producer
       \/ \E p \in Producers :
            /\ producer[p].at = "waiting"
            /\ producer' = [producer EXCEPT ![p].at = "awake"]
            /\ UNCHANGED consumer
    /\ UNCHANGED <<limit, buffers, stop, stopper, files, history>>

Producer(p) == Push(p) \/ PushFindsNoRoom(p) \/ ProducerSleeps(p)
Worker == Enter \/ FindNothing \/ ConsumerSleeps \/ SwapBuffers \/ RealLog \/ ResetBuffer
Stopper == NotifyConsumer \/ NotifyProducers \/ Join

Next ==
    \/ \E l \in {2, 3} : SetLevel(l)
    \/ \E p \in Producers : Producer(p) \/ \E m \in Messages : LogCall(p, m)
    \/ Worker
    \/ SetStop \/ Stopper
    \/ SpuriousWakeup

Spec == Init /\ [][Next]_vars

\* Threads that can run do, and none is kept from the mutex forever by the
\* others; nobody has to log or to stop the logger, and no wake-up is assumed
\* without a notification.
FairSpec ==
    /\ Spec
    /\ SF_vars(Worker)
    /\ WF_vars(Stopper)
    /\ \A p \in Producers : WF_vars(ProducerSleeps(p))
    /\ \A p \in Producers : SF_vars(Push(p) \/ PushFindsNoRoom(p))

-----------------------------------------------------------------------------
(* Properties.                                                              *)

Buffers == [size : Nat, data : Seq(Messages)]

\* Types; the bytes in a buffer fit in its vector (the assertion of movewriter)
\* and _cur_size is what the current file holds.
TypeOK ==
    /\ limit \in Levels
    /\ producer \in [Producers -> [at : ProducerPlaces, msg : Messages \cup {NoMsg}]]
    /\ pro \in Buffers /\ con \in Buffers
    /\ Bytes(pro.data) <= pro.size /\ Bytes(con.data) <= con.size
    /\ stop \in BOOLEAN /\ missed \in BOOLEAN
    /\ consumer \in ConsumerPlaces /\ stopper \in StopperPlaces
    /\ curSize = Bytes(FlattenSeq(Last(sized)))
    /\ accepted \in Seq(Messages)

\* push, the swap, the callback and reset together lose, repeat and reorder
\* nothing, and the worker leaves only when all that was pushed is written.
Service == INSTANCE LogService
    WITH written <- Content(sized), closed <- consumer = "gone"
ServiceSpec == Service!Spec

\* Both sinks have got the same messages, however their files are cut.
SinksAgree == Content(sized) = Content(timed)

\* RollfileSink: a file is over the limit only if one write alone is.
FilesWithinLimit ==
    \A i \in 1..Len(sized) :
        Bytes(FlattenSeq(sized[i])) > MaxFile => Len(sized[i]) = 1

\* What the worker and the two rolling sinks keep between any two steps.
LoggerInv == TypeOK /\ SinksAgree /\ FilesWithinLimit

\* What is pushed before the worker leaves reaches the files.
MessageGetsWritten ==
    \A m \in Messages :
        (m \in Range(accepted) /\ consumer # "gone") ~> (m \in Range(Content(sized)))

\* A producer whose message fits an empty buffer does not wait forever, with
\* or without a stop; a longer one may.
PushReturns ==
    \A p \in Producers :
        (producer[p].msg \in Messages /\ MsgLen[producer[p].msg] <= InitialSize)
            ~> (producer[p].at = "idle")

\* stop() returns, unless its notification came between the worker's test and
\* its wait.
StopReturnsUnlessMissed == (stopper # "idle") ~> (stopper = "joined" \/ missed)

\* looper.hpp:49: stop() wakes the worker, so it returns. It need not.
StopReturns == (stopper # "idle") ~> (stopper = "joined")
=============================================================================
