---------------------------- MODULE TaskService -----------------------------
(***************************************************************************)
(* What EventLoop::TasksInLoop promises its callers: functors wait in one  *)
(* line, are run in the order they were handed over, each at most once,    *)
(* and none leaves the line without being run.                             *)
(***************************************************************************)
EXTENDS Naturals, Sequences

CONSTANT Tasks

VARIABLES waiting,      \* functors handed over and not started, oldest first
          started       \* functors started, in order

vars == <<waiting, started>>

Init == waiting = <<>> /\ started = <<>>

\* Hand over a functor that was never handed over before.
Submit(t) == /\ \A i \in 1 .. Len(waiting) : waiting[i] # t
             /\ \A i \in 1 .. Len(started) : started[i] # t
             /\ waiting' = Append(waiting, t)
             /\ UNCHANGED started

RunNext == /\ waiting # <<>>
           /\ waiting' = Tail(waiting)
           /\ started' = Append(started, Head(waiting))

\* RunInLoop on the loop's own thread: run at once, ahead of the line.
RunNow(t) == /\ \A i \in 1 .. Len(waiting) : waiting[i] # t
             /\ \A i \in 1 .. Len(started) : started[i] # t
             /\ started' = Append(started, t)
             /\ UNCHANGED waiting

Next == RunNext \/ \E t \in Tasks : Submit(t) \/ RunNow(t)

Spec == Init /\ [][Next]_vars
=============================================================================
