----------------------------- MODULE EventLoop ------------------------------
(***************************************************************************)
(* The task queue and the life of an EventLoop: src/EventLoop.cc, with the *)
(* part of Poller::Poll that decides whether the loop sleeps.              *)
(* Threads other than the looper push functors and quit; pushing under the *)
(* mutex and writing the eventfd are two steps of the pushing thread, and  *)
(* so are setting _quit and writing the eventfd.  Functors are tokens: a   *)
(* running functor may call back into the loop, as the code's do.          *)
(***************************************************************************)
EXTENDS Naturals, Sequences

CONSTANTS Looper,       \* the thread that calls Start()
          Others,       \* threads that post and quit
          Owner,        \* the thread that constructed the loop: _thread_id
          Tasks,        \* functors, each handed over at most once (bound)
          None          \* "no functor"

Threads == Others \cup {Looper}

ASSUME LoopAssumption == /\ Looper \notin Others
                         /\ Owner \in Threads
                         /\ None \notin Tasks \cup Threads

VARIABLES queue,        \* _task, guarded by _mutex
          signalled,    \* the eventfd's counter is not zero
          quit,         \* _quit
          pc,           \* where Start() is
          eventReady,   \* Poll returned the eventfd's channel
          batch,        \* tmp of RunAllTask
          running,      \* running[th]: functor thread th is inside of
          owes,         \* threads that still have to write the eventfd
          (* history *)
          started,      \* functors started, in order
          postedBy,     \* postedBy[t]: thread that handed t over
          beforeQuit    \* functors pushed while _quit was still false

vars == <<queue, signalled, quit, pc, eventReady, batch, running, owes,
          started, postedBy, beforeQuit>>

\* "drain" is the RunAllTask after the loop, "drained" its functors.
Phases == {"new", "check", "poll", "handle", "swap", "run",
           "drain", "drained", "done"}

TypeOK == /\ queue \in Seq(Tasks)
          /\ signalled \in BOOLEAN
          /\ quit \in BOOLEAN
          /\ pc \in Phases
          /\ eventReady \in BOOLEAN
          /\ batch \in Seq(Tasks)
          /\ running \in [Threads -> Tasks \cup {None}]
          /\ owes \subseteq Threads
          /\ started \in Seq(Tasks)
          /\ postedBy \in [Tasks -> Threads \cup {None}]
          /\ beforeQuit \subseteq Tasks

Init == /\ queue = <<>>
        /\ signalled = FALSE
        /\ quit = FALSE
        /\ pc = "new"
        /\ eventReady = FALSE
        /\ batch = <<>>
        /\ running = [th \in Threads |-> None]
        /\ owes = {}
        /\ started = <<>>
        /\ postedBy = [t \in Tasks |-> None]
        /\ beforeQuit = {}

-----------------------------------------------------------------------------
(* Calls any thread makes *)

IsInLoop(th) == th = Owner

\* A thread that is free to call: the looper calls from channel callbacks,
\* from functors and before Start, never from inside epoll_wait.
CanCall(th) == /\ th \notin owes
               /\ th = Looper => \/ running[th] # None
                                 \/ pc \in {"new", "handle"}

Fresh(t) == postedBy[t] = None

\* Mutant: the functor is moved from before it is pushed.
TasksInLoopMovedFrom(th, t) ==
    /\ CanCall(th)
    /\ Fresh(t)
    /\ queue' = Append(queue, None)
    /\ owes' = owes \cup {th}
    /\ postedBy' = [postedBy EXCEPT ![t] = th]
    /\ UNCHANGED <<quit, signalled, pc, eventReady, batch, running, started, beforeQuit>>

\* Mutant: the push is not followed by a write to the eventfd.
TasksInLoopForgetsWake(th, t) ==
    /\ CanCall(th)
    /\ Fresh(t)
    /\ queue' = Append(queue, t)
    /\ postedBy' = [postedBy EXCEPT ![t] = th]
    /\ beforeQuit' = IF quit THEN beforeQuit ELSE beforeQuit \cup {t}
    /\ UNCHANGED <<quit, signalled, pc, eventReady, batch, running, owes, started>>

\* The critical section of TasksInLoop; the eventfd is written afterwards.
TasksInLoop(th, t) ==
    /\ CanCall(th)
    /\ Fresh(t)
    /\ queue' = Append(queue, t)
    /\ owes' = owes \cup {th}
    /\ postedBy' = [postedBy EXCEPT ![t] = th]
    /\ beforeQuit' = IF quit THEN beforeQuit ELSE beforeQuit \cup {t}
    /\ UNCHANGED <<quit, signalled, pc, eventReady, batch, running, started>>

\* RunInLoop on the thread the loop believes to be its own: t() at once.
\* (On any other thread RunInLoop is TasksInLoop.  A call made inside a
\* functor is part of that functor.)
RunInLoopInline(th, t) ==
    /\ CanCall(th)
    /\ IsInLoop(th)
    /\ running[th] = None
    /\ Fresh(t)
    /\ running' = [running EXCEPT ![th] = t]
    /\ started' = Append(started, t)
    /\ postedBy' = [postedBy EXCEPT ![t] = th]
    /\ UNCHANGED <<queue, signalled, quit, pc, eventReady, batch, owes, beforeQuit>>

\* Mutant: Quit only sets the flag.
QuitSilent(th) ==
    /\ CanCall(th)
    /\ quit' = TRUE
    /\ UNCHANGED <<queue, signalled, pc, eventReady, batch, running, owes,
                   started, postedBy, beforeQuit>>

Quit(th) ==
    /\ CanCall(th)
    /\ quit' = TRUE
    /\ owes' = IF IsInLoop(th) THEN owes ELSE owes \cup {th}
    /\ UNCHANGED <<queue, signalled, pc, eventReady, batch, running,
                   started, postedBy, beforeQuit>>

\* Mutant: the write is skipped when the loop was not seen in epoll_wait.
WeakupEventfdIfAsleep(th) ==
    /\ th \in owes
    /\ signalled' = (signalled \/ pc = "poll")
    /\ owes' = owes \ {th}
    /\ UNCHANGED <<queue, quit, pc, eventReady, batch, running,
                   started, postedBy, beforeQuit>>

WeakupEventfd(th) ==
    /\ th \in owes
    /\ signalled' = TRUE
    /\ owes' = owes \ {th}
    /\ UNCHANGED <<queue, quit, pc, eventReady, batch, running,
                   started, postedBy, beforeQuit>>

\* The functor a thread is inside of returns.
FunctorReturn(th) ==
    /\ running[th] # None
    /\ th \notin owes
    /\ running' = [running EXCEPT ![th] = None]
    /\ UNCHANGED <<queue, signalled, quit, pc, eventReady, batch, owes,
                   started, postedBy, beforeQuit>>

-----------------------------------------------------------------------------
(* Start() *)

\* The looper is between two statements of Start() or RunAllTask().
AtStatement == Looper \notin owes /\ running[Looper] = None

Goto(from, to) == pc = from /\ AtStatement /\ pc' = to

Start == /\ Goto("new", "check")
         /\ UNCHANGED <<queue, signalled, quit, eventReady, batch, running, owes,
                        started, postedBy, beforeQuit>>

\* Mutant: Start() returns without the RunAllTask after the loop.
CheckQuitNoDrain ==
    /\ Goto("check", IF quit THEN "done" ELSE "poll")
    /\ UNCHANGED <<queue, signalled, quit, eventReady, batch, running, owes,
                   started, postedBy, beforeQuit>>

\* while (!_quit)
CheckQuit == /\ Goto("check", IF quit THEN "drain" ELSE "poll")
             /\ UNCHANGED <<queue, signalled, quit, eventReady, batch, running, owes,
                            started, postedBy, beforeQuit>>

\* epoll_wait returns: level triggered, so a signalled eventfd is reported.
\* It may also return for another descriptor or a signal.
Poll == /\ Goto("poll", "handle")
        /\ eventReady' = signalled
        /\ UNCHANGED <<queue, signalled, quit, batch, running, owes,
                       started, postedBy, beforeQuit>>

\* The eventfd channel's callback resets the counter.
ReadEventfd == /\ pc = "handle" /\ AtStatement
               /\ eventReady
               /\ signalled' = FALSE
               /\ eventReady' = FALSE
               /\ UNCHANGED <<queue, quit, pc, batch, running, owes,
                              started, postedBy, beforeQuit>>

\* All active channels were handled (the others' callbacks are the calls the
\* looper makes in this phase).
HandleDone == /\ Goto("handle", "swap")
              /\ ~eventReady
              /\ UNCHANGED <<queue, signalled, quit, eventReady, batch, running,
                             owes, started, postedBy, beforeQuit>>

\* Mutant: _task is copied instead of swapped.
SwapTasksCopies ==
    /\ \/ Goto("swap", "run")
       \/ Goto("drain", "drained")
    /\ batch' = queue
    /\ UNCHANGED <<queue, signalled, quit, eventReady, running, owes,
                   started, postedBy, beforeQuit>>

\* The critical section of RunAllTask, in the loop or after it.
SwapTasks == /\ \/ Goto("swap", "run")
                \/ Goto("drain", "drained")
             /\ batch' = queue
             /\ queue' = <<>>
             /\ UNCHANGED <<signalled, quit, eventReady, running, owes,
                            started, postedBy, beforeQuit>>

RunTask == /\ pc \in {"run", "drained"} /\ AtStatement
           /\ batch # <<>>
           /\ running' = [running EXCEPT ![Looper] = Head(batch)]
           /\ started' = Append(started, Head(batch))
           /\ batch' = Tail(batch)
           /\ UNCHANGED <<queue, signalled, quit, pc, eventReady, owes,
                          postedBy, beforeQuit>>

BatchDone == /\ batch = <<>>
             /\ \/ Goto("run", "check")
                \/ Goto("drained", "done")
             /\ UNCHANGED <<queue, signalled, quit, eventReady, batch, running,
                            owes, started, postedBy, beforeQuit>>

-----------------------------------------------------------------------------
Call(th) == \/ \E t \in Tasks : TasksInLoop(th, t) \/ RunInLoopInline(th, t)
            \/ Quit(th)

Loop == \/ Start \/ CheckQuit \/ Poll \/ ReadEventfd \/ HandleDone
        \/ SwapTasks \/ RunTask \/ BatchDone

Returned == pc = "done" /\ UNCHANGED vars

Next == \/ \E th \in Threads : Call(th) \/ WeakupEventfd(th) \/ FunctorReturn(th)
        \/ Loop
        \/ Returned

Spec == Init /\ [][Next]_vars

\* Only the eventfd is bound to end epoll_wait.
Scheduled == Loop /\ (pc = "poll" => signalled)

\* Threads finish the calls they are in; the looper is scheduled.  Nobody is
\* obliged to call.
FairSpec == /\ Spec
            /\ WF_vars(Scheduled)
            /\ \A th \in Threads : WF_vars(WeakupEventfd(th)) /\ WF_vars(FunctorReturn(th))

-----------------------------------------------------------------------------
(* Properties *)

Waiting == {queue[i] : i \in 1 .. Len(queue)}

\* No lost wake-up: if the loop is in epoll_wait and its eventfd silent, then
\* there is nothing to do or a thread is about to write the eventfd.
SleepSafe == pc = "poll" /\ ~signalled /\ (queue # <<>> \/ quit) => owes # {}

\* Functors run in the order they were pushed, each once, none dropped.
Service == INSTANCE TaskService WITH waiting <- batch \o queue
ServiceSpec == Service!Spec

\* "Run the remaining tasks, then return": what was pushed before Quit set
\* the flag has been started when Start() returns.
EarlyTasksRun == pc = "done" =>
    \A t \in beforeQuit : \E i \in 1 .. Len(started) : started[i] = t

\* The loop keeps its shape, and leaves nothing of before the flag behind.
LoopInv == TypeOK /\ EarlyTasksRun

\* Every functor pushed is run, unless the loop returns.
TaskGetsItsTurn == \A t \in Tasks :
    t \in Waiting ~> (pc = "done" \/ \E i \in 1 .. Len(started) : started[i] = t)

\* Quit, from whichever thread, makes Start() return, without any other
\* descriptor's help.
QuitReturns == quit ~> pc = "done"

\* RunInLoop and TasksInLoop are thread safe (EventLoop.hpp:22): on a loop that
\* runs on the thread that constructed it no two functors ever overlap, whoever
\* hands them over.
SerialExecution == \A a, b \in Threads :
    running[a] # None /\ running[b] # None => a = b
=============================================================================
