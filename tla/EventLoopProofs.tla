-------------------------- MODULE EventLoopProofs ---------------------------
(***************************************************************************)
(* Proofs about EventLoop, for any number of threads and functors.         *)
(***************************************************************************)
EXTENDS EventLoop, SequenceTheorems, TLAPS

LEMMA TypeInit == Init => TypeOK
<1> SUFFICES ASSUME Init
             PROVE  TypeOK
  OBVIOUS
<1>1. queue \in Seq(Tasks) /\ batch \in Seq(Tasks) /\ started \in Seq(Tasks)
  BY DEF Init
<1>2. signalled \in BOOLEAN /\ quit \in BOOLEAN /\ eventReady \in BOOLEAN /\ pc \in Phases
  BY DEF Init, Phases
<1>3. /\ running \in [Threads -> Tasks \cup {None}]
      /\ postedBy \in [Tasks -> Threads \cup {None}]
  BY DEF Init
<1>4. owes \subseteq Threads /\ beforeQuit \subseteq Tasks
  BY DEF Init
<1> QED BY <1>1, <1>2, <1>3, <1>4 DEF TypeOK

LEMMA TypeNext == TypeOK /\ [Next]_vars => TypeOK'
<1> SUFFICES ASSUME TypeOK, [Next]_vars
             PROVE  TypeOK'
  OBVIOUS
<1>1. Looper \in Threads
  BY DEF Threads
<1>2. ASSUME NEW th \in Threads, NEW t \in Tasks, TasksInLoop(th, t)
      PROVE  TypeOK'
  <2>1. queue' \in Seq(Tasks) /\ postedBy' \in [Tasks -> Threads \cup {None}]
    BY <1>2 DEF TasksInLoop, TypeOK
  <2>2. owes' \subseteq Threads /\ beforeQuit' \subseteq Tasks
    BY <1>2 DEF TasksInLoop, TypeOK
  <2> QED BY <1>2, <2>1, <2>2 DEF TasksInLoop, TypeOK
<1>3. ASSUME NEW th \in Threads, NEW t \in Tasks, RunInLoopInline(th, t)
      PROVE  TypeOK'
  BY <1>3 DEF RunInLoopInline, TypeOK
<1>4. ASSUME NEW th \in Threads, Quit(th)
      PROVE  TypeOK'
  <2>1. owes' \subseteq Threads
    BY <1>4 DEF Quit, TypeOK
  <2>2. quit' \in BOOLEAN
    BY <1>4 DEF Quit
  <2> QED BY <1>4, <2>1, <2>2 DEF Quit, TypeOK
<1>5. ASSUME NEW th \in Threads, WeakupEventfd(th)
      PROVE  TypeOK'
  <2>1. owes' \subseteq Threads
    BY <1>5 DEF WeakupEventfd, TypeOK
  <2>2. signalled' \in BOOLEAN
    BY <1>5 DEF WeakupEventfd
  <2> QED BY <1>5, <2>1, <2>2 DEF WeakupEventfd, TypeOK
<1>6. ASSUME NEW th \in Threads, FunctorReturn(th)
      PROVE  TypeOK'
  BY <1>6 DEF FunctorReturn, TypeOK
<1>7. CASE Start \/ CheckQuit \/ HandleDone \/ BatchDone
  <2>1. pc' \in Phases
    BY <1>7 DEF Start, CheckQuit, HandleDone, BatchDone, Goto, Phases
  <2> QED BY <1>7, <2>1 DEF Start, CheckQuit, HandleDone, BatchDone, TypeOK
<1>8. CASE Poll \/ ReadEventfd
  <2>1. pc' \in Phases
    BY <1>8 DEF Poll, ReadEventfd, Goto, Phases, TypeOK
  <2>2. signalled' \in BOOLEAN /\ eventReady' \in BOOLEAN
    BY <1>8 DEF Poll, ReadEventfd, TypeOK
  <2> QED BY <1>8, <2>1, <2>2 DEF Poll, ReadEventfd, TypeOK
<1>9. CASE SwapTasks
  <2>1. pc' \in Phases
    BY <1>9 DEF SwapTasks, Goto, Phases
  <2>2. queue' \in Seq(Tasks) /\ batch' \in Seq(Tasks)
    BY <1>9 DEF SwapTasks, TypeOK
  <2> QED BY <1>9, <2>1, <2>2 DEF SwapTasks, TypeOK
<1>10. CASE RunTask
  <2>1. Head(batch) \in Tasks /\ Tail(batch) \in Seq(Tasks)
    BY <1>10 DEF RunTask, TypeOK
  <2>2. started' \in Seq(Tasks) /\ batch' \in Seq(Tasks)
    BY <1>10, <2>1 DEF RunTask, TypeOK
  <2>3. running' \in [Threads -> Tasks \cup {None}]
    BY <1>1, <1>10, <2>1 DEF RunTask, TypeOK
  <2> QED BY <1>10, <2>2, <2>3 DEF RunTask, TypeOK
<1>11. CASE UNCHANGED vars \/ Returned
  BY <1>11 DEF vars, Returned, TypeOK
<1> QED BY <1>2, <1>3, <1>4, <1>5, <1>6, <1>7, <1>8, <1>9, <1>10, <1>11
        DEF Next, Call, Loop

\* Every variable of the loop keeps its type.
THEOREM TypeCorrect == Spec => []TypeOK
BY TypeInit, TypeNext, PTL DEF Spec

-----------------------------------------------------------------------------
(* No lost wake-up.  SleepSafe speaks of the loop in epoll_wait only; what *)
(* makes it inductive is that the eventfd is only reset in a phase from    *)
(* which the queue is emptied and _quit read before the loop sleeps again. *)

QueueAnnounced == pc \in {"new", "check", "poll", "run"} /\ queue # <<>>
                     => signalled \/ owes # {}

QuitAnnounced == pc = "poll" /\ quit => signalled \/ owes # {}

\* The looper is inside no functor while it is in epoll_wait.
AsleepIdle == pc = "poll" => running[Looper] = None

WakeInv == QueueAnnounced /\ QuitAnnounced /\ AsleepIdle

LEMMA WakeNext ==
  ASSUME Owner = Looper, TypeOK, WakeInv, [Next]_vars
  PROVE  WakeInv'
<1> USE DEF WakeInv, QueueAnnounced, QuitAnnounced, AsleepIdle
<1>1. ASSUME NEW th \in Threads, NEW t \in Tasks, TasksInLoop(th, t)
      PROVE  WakeInv'
  <2>1. owes' # {}
    BY <1>1 DEF TasksInLoop
  <2> QED BY <1>1, <2>1 DEF TasksInLoop
<1>2. ASSUME NEW th \in Threads, NEW t \in Tasks, RunInLoopInline(th, t)
      PROVE  WakeInv'
  <2>1. pc # "poll"
    BY <1>2 DEF RunInLoopInline, CanCall, IsInLoop
  <2> QED BY <1>2, <2>1 DEF RunInLoopInline
<1>3. ASSUME NEW th \in Threads, Quit(th)
      PROVE  WakeInv'
  <2>1. CASE th = Looper
    <3>1. pc # "poll"
      BY <1>3, <2>1 DEF Quit, CanCall
    <3> QED BY <1>3, <2>1, <3>1 DEF Quit, IsInLoop
  <2>2. CASE th # Looper
    <3>1. owes' # {}
      BY <1>3, <2>2 DEF Quit, IsInLoop
    <3> QED BY <1>3, <3>1 DEF Quit
  <2> QED BY <2>1, <2>2
<1>4. ASSUME NEW th \in Threads, WeakupEventfd(th)
      PROVE  WakeInv'
  BY <1>4 DEF WeakupEventfd
<1>5. ASSUME NEW th \in Threads, FunctorReturn(th)
      PROVE  WakeInv'
  BY <1>5 DEF FunctorReturn, TypeOK
<1>6. CASE Start
  BY <1>6 DEF Start, Goto
<1>7. CASE CheckQuit
  BY <1>7 DEF CheckQuit, Goto, AtStatement
<1>8. CASE Poll
  BY <1>8 DEF Poll, Goto
<1>9. CASE ReadEventfd
  BY <1>9 DEF ReadEventfd
<1>10. CASE HandleDone
  BY <1>10 DEF HandleDone, Goto
<1>11. CASE SwapTasks
  BY <1>11 DEF SwapTasks, Goto
<1>12. CASE RunTask
  BY <1>12 DEF RunTask
<1>13. CASE BatchDone
  BY <1>13 DEF BatchDone, Goto
<1>14. CASE UNCHANGED vars \/ Returned
  BY <1>14 DEF vars, Returned
<1> QED BY <1>1, <1>2, <1>3, <1>4, <1>5, <1>6, <1>7, <1>8, <1>9, <1>10, <1>11,
           <1>12, <1>13, <1>14 DEF Next, Call, Loop

LEMMA WakeInvariant ==
  ASSUME Owner = Looper
  PROVE  Spec => []WakeInv
<1>1. Init => WakeInv
  BY DEF Init, WakeInv, QueueAnnounced, QuitAnnounced, AsleepIdle
<1>2. TypeOK /\ WakeInv /\ [Next]_vars => WakeInv'
  BY WakeNext
<1> QED BY <1>1, <1>2, TypeCorrect, PTL DEF Spec

\* A loop run by the thread that constructed it never sleeps on a functor
\* or on a Quit, whatever number of threads push, wake and quit around it.
THEOREM NoLostWakeup ==
  ASSUME Owner = Looper
  PROVE  Spec => []SleepSafe
<1>1. WakeInv => SleepSafe
  BY DEF WakeInv, QueueAnnounced, QuitAnnounced, SleepSafe
<1> QED BY <1>1, WakeInvariant, PTL

-----------------------------------------------------------------------------
(* The line of functors *)

In(t, s) == \E i \in 1 .. Len(s) : s[i] = t

LEMMA InAppend ==
  ASSUME NEW s \in Seq(Tasks), NEW t \in Tasks, NEW u \in Tasks
  PROVE  In(u, Append(s, t)) <=> In(u, s) \/ u = t
<1>1. Append(s, t) \in Seq(Tasks) /\ Len(Append(s, t)) = Len(s) + 1
  OBVIOUS
<1>2. \A i \in 1 .. Len(s) : Append(s, t)[i] = s[i]
  OBVIOUS
<1>3. Append(s, t)[Len(s) + 1] = t
  OBVIOUS
<1>4. Len(s) \in Nat
  OBVIOUS
<1>5. \A i \in 1 .. Len(s) + 1 : i \in 1 .. Len(s) \/ i = Len(s) + 1
  BY <1>4
<1>6. ASSUME In(u, s)
      PROVE  In(u, Append(s, t))
  BY <1>1, <1>2, <1>4, <1>6 DEF In
<1>7. ASSUME u = t
      PROVE  In(u, Append(s, t))
  BY <1>1, <1>3, <1>4, <1>7 DEF In
<1>8. ASSUME In(u, Append(s, t))
      PROVE  In(u, s) \/ u = t
  BY <1>1, <1>2, <1>3, <1>5, <1>8 DEF In
<1> QED BY <1>6, <1>7, <1>8

LEMMA InHeadTail ==
  ASSUME NEW s \in Seq(Tasks), s # <<>>, NEW u \in Tasks
  PROVE  /\ Head(s) \in Tasks /\ Tail(s) \in Seq(Tasks)
         /\ In(u, s) <=> u = Head(s) \/ In(u, Tail(s))
<1>1. /\ Head(s) \in Tasks /\ Tail(s) \in Seq(Tasks) /\ Head(s) = s[1]
      /\ Len(s) \in Nat /\ Len(s) >= 1 /\ Len(Tail(s)) = Len(s) - 1
  OBVIOUS
<1>2. \A i \in 1 .. Len(s) - 1 : Tail(s)[i] = s[i + 1]
  OBVIOUS
<1>3. ASSUME In(u, s)
      PROVE  u = Head(s) \/ In(u, Tail(s))
  <2>1. PICK i \in 1 .. Len(s) : s[i] = u
    BY <1>3 DEF In
  <2>2. CASE i = 1
    BY <2>1, <2>2, <1>1
  <2>3. CASE i # 1
    <3>1. i - 1 \in 1 .. Len(Tail(s)) /\ Tail(s)[i - 1] = u
      BY <2>1, <2>3, <1>1, <1>2
    <3> QED BY <3>1 DEF In
  <2> QED BY <2>2, <2>3
<1>4. ASSUME u = Head(s)
      PROVE  In(u, s)
  BY <1>1, <1>4 DEF In
<1>5. ASSUME In(u, Tail(s))
      PROVE  In(u, s)
  <2>1. PICK i \in 1 .. Len(Tail(s)) : Tail(s)[i] = u
    BY <1>5 DEF In
  <2>2. i + 1 \in 1 .. Len(s) /\ s[i + 1] = u
    BY <2>1, <1>1, <1>2
  <2> QED BY <2>2 DEF In
<1> QED BY <1>1, <1>3, <1>4, <1>5

\* Once Quit has set the flag the tasks pushed before it are in the line the
\* loop still serves, in the batch it is running, or have been started.
DrainInv ==
    /\ \A t \in beforeQuit : postedBy[t] # None
    /\ \A t \in beforeQuit : In(t, queue) \/ In(t, batch) \/ In(t, started)
    /\ pc \in {"drain", "drained", "done"} => quit
    /\ pc \in {"drained", "done"} => \A t \in beforeQuit : ~In(t, queue)
    /\ pc \in {"check", "poll", "handle", "swap", "drain", "new", "done"} => batch = <<>>

\* Steps that leave the line and the phase of the loop alone.
LEMMA DrainFrame ==
  ASSUME TypeOK, DrainInv, beforeQuit' = beforeQuit, queue' = queue, batch' = batch,
         quit => quit', pc' = pc,
         \A t \in Tasks : postedBy[t] # None => postedBy'[t] # None,
         \A t \in Tasks : In(t, started) => In(t, started')
  PROVE  DrainInv'
BY DEF DrainInv, TypeOK

LEMMA DrainNext ==
  ASSUME TypeOK, DrainInv, [Next]_vars
  PROVE  DrainInv'
<1>0. beforeQuit \subseteq Tasks
  BY DEF TypeOK
<1>1. ASSUME NEW th \in Threads, NEW t \in Tasks, TasksInLoop(th, t)
      PROVE  DrainInv'
  <2>1. \A u \in Tasks : In(u, queue') <=> In(u, queue) \/ u = t
    BY <1>1, InAppend DEF TasksInLoop, TypeOK
  <2>2. /\ UNCHANGED <<quit, pc, batch, started>>
        /\ beforeQuit' = IF quit THEN beforeQuit ELSE beforeQuit \cup {t}
        /\ t \notin beforeQuit
    BY <1>1 DEF TasksInLoop, Fresh, DrainInv
  <2>3. postedBy'[t] # None /\ \A u \in Tasks \ {t} : postedBy'[u] = postedBy[u]
    BY <1>1, LoopAssumption DEF TasksInLoop, TypeOK
  <2>4. CASE quit
    BY <1>0, <2>1, <2>2, <2>3, <2>4 DEF DrainInv
  <2>5. CASE ~quit
    BY <1>0, <2>1, <2>2, <2>3, <2>5 DEF DrainInv
  <2> QED BY <2>4, <2>5
<1>2. ASSUME NEW th \in Threads, NEW t \in Tasks, RunInLoopInline(th, t)
      PROVE  DrainInv'
  <2>1. \A u \in Tasks : In(u, started) => In(u, started')
    BY <1>2, InAppend DEF RunInLoopInline, TypeOK
  <2>2. \A u \in Tasks : postedBy[u] # None => postedBy'[u] # None
    BY <1>2 DEF RunInLoopInline, Fresh, TypeOK
  <2> QED BY <1>2, <2>1, <2>2, DrainFrame DEF RunInLoopInline
<1>3. ASSUME NEW th \in Threads, Quit(th) \/ WeakupEventfd(th) \/ FunctorReturn(th)
      PROVE  DrainInv'
  BY <1>3, DrainFrame DEF Quit, WeakupEventfd, FunctorReturn
<1>4. CASE Start \/ CheckQuit \/ Poll \/ HandleDone
  BY <1>4 DEF Start, CheckQuit, Poll, HandleDone, Goto, DrainInv
<1>5. CASE ReadEventfd
  BY <1>5, DrainFrame DEF ReadEventfd
<1>6. CASE SwapTasks
  <2>1. \A t \in Tasks : ~In(t, <<>>)
    BY DEF In
  <2>2. /\ batch' = queue /\ queue' = <<>> /\ UNCHANGED <<quit, started, postedBy, beforeQuit>>
        /\ \/ pc = "swap" /\ pc' = "run"
           \/ pc = "drain" /\ pc' = "drained"
    BY <1>6 DEF SwapTasks, Goto
  <2>3. \A t \in beforeQuit : In(t, queue) \/ In(t, started)
    BY <1>0, <2>1, <2>2 DEF DrainInv
  <2> QED BY <1>0, <2>1, <2>2, <2>3 DEF DrainInv
<1>7. CASE RunTask
  <2>1. /\ pc \in {"run", "drained"} /\ batch # <<>>
        /\ started' = Append(started, Head(batch)) /\ batch' = Tail(batch)
        /\ UNCHANGED <<queue, quit, pc, postedBy, beforeQuit>>
    BY <1>7 DEF RunTask
  <2>2. /\ Head(batch) \in Tasks
        /\ \A u \in Tasks : In(u, batch) => u = Head(batch) \/ In(u, Tail(batch))
    BY <2>1, InHeadTail DEF TypeOK
  <2>3. \A u \in Tasks : In(u, started') <=> In(u, started) \/ u = Head(batch)
    BY <2>1, <2>2, InAppend DEF TypeOK
  <2> QED BY <1>0, <2>1, <2>2, <2>3 DEF DrainInv
<1>8. CASE BatchDone
  BY <1>8 DEF BatchDone, Goto, DrainInv
<1>9. CASE UNCHANGED vars \/ Returned
  BY <1>9 DEF vars, Returned, DrainInv
<1> QED BY <1>1, <1>2, <1>3, <1>4, <1>5, <1>6, <1>7, <1>8, <1>9 DEF Next, Call, Loop

LEMMA DrainInvariant == Spec => []DrainInv
<1>1. Init => DrainInv
  BY DEF Init, DrainInv
<1>2. TypeOK /\ DrainInv /\ [Next]_vars => DrainInv'
  BY DrainNext
<1> QED BY <1>1, <1>2, TypeCorrect, PTL DEF Spec

\* Start() does not return before it has run everything pushed before Quit.
THEOREM DrainsEarlyTasks == Spec => []LoopInv
<1>1. TypeOK /\ DrainInv => EarlyTasksRun
  <2> SUFFICES ASSUME TypeOK, DrainInv, pc = "done", NEW t \in beforeQuit
               PROVE  In(t, started)
    BY DEF EarlyTasksRun, In
  <2>1. ~In(t, queue) /\ batch = <<>>
    BY DEF DrainInv
  <2>2. ~In(t, batch)
    BY <2>1 DEF In
  <2> QED BY <2>1, <2>2 DEF DrainInv
<1>2. TypeOK /\ DrainInv => LoopInv
  BY <1>1 DEF LoopInv
<1> QED BY <1>2, DrainInvariant, TypeCorrect, PTL
-----------------------------------------------------------------------------
(* One functor at a time *)

\* Only the looper is ever inside a functor.
OnlyLooperRuns == \A th \in Threads : running[th] # None => th = Looper

LEMMA OnlyLooperRunsNext ==
  ASSUME Owner = Looper, TypeOK, OnlyLooperRuns, [Next]_vars
  PROVE  OnlyLooperRuns'
<1>1. ASSUME NEW th \in Threads, NEW t \in Tasks, RunInLoopInline(th, t)
      PROVE  OnlyLooperRuns'
  BY <1>1 DEF RunInLoopInline, IsInLoop, OnlyLooperRuns, TypeOK
<1>2. ASSUME NEW th \in Threads, FunctorReturn(th)
      PROVE  OnlyLooperRuns'
  BY <1>2 DEF FunctorReturn, OnlyLooperRuns, TypeOK
<1>3. CASE RunTask
  BY <1>3 DEF RunTask, OnlyLooperRuns, TypeOK
<1>4. CASE UNCHANGED running
  BY <1>4 DEF OnlyLooperRuns
<1>5. ASSUME NEW th \in Threads, NEW t \in Tasks,
             TasksInLoop(th, t) \/ Quit(th) \/ WeakupEventfd(th)
      PROVE  UNCHANGED running
  BY <1>5 DEF TasksInLoop, Quit, WeakupEventfd
<1>6. ASSUME Start \/ CheckQuit \/ Poll \/ ReadEventfd \/ HandleDone \/ SwapTasks
             \/ BatchDone \/ Returned \/ UNCHANGED vars
      PROVE  UNCHANGED running
  BY <1>6 DEF Start, CheckQuit, Poll, ReadEventfd, HandleDone, SwapTasks, BatchDone,
              Returned, vars
<1>7. ASSUME NEW th \in Threads, Quit(th) \/ WeakupEventfd(th)
      PROVE  UNCHANGED running
  BY <1>7 DEF Quit, WeakupEventfd
<1> QED BY <1>1, <1>2, <1>3, <1>4, <1>5, <1>6, <1>7 DEF Next, Call, Loop

\* On a loop run by the thread that constructed it functors never overlap.
THEOREM OneFunctorAtATime ==
  ASSUME Owner = Looper
  PROVE  Spec => []SerialExecution
<1>1. Init => OnlyLooperRuns
  BY DEF Init, OnlyLooperRuns
<1>2. TypeOK /\ OnlyLooperRuns /\ [Next]_vars => OnlyLooperRuns'
  BY OnlyLooperRunsNext
<1>3. OnlyLooperRuns => SerialExecution
  BY DEF OnlyLooperRuns, SerialExecution
<1> QED BY <1>1, <1>2, <1>3, TypeCorrect, PTL DEF Spec

-----------------------------------------------------------------------------
(* EventLoop implements TaskService                                          *)

LEMMA InConcat ==
  ASSUME NEW r \in Seq(Tasks), NEW s \in Seq(Tasks), NEW u \in Tasks
  PROVE  In(u, r \o s) => In(u, r) \/ In(u, s)
<1> SUFFICES ASSUME In(u, r \o s)
             PROVE  In(u, r) \/ In(u, s)
  OBVIOUS
<1>1. PICK i \in 1 .. Len(r \o s) : (r \o s)[i] = u
  BY DEF In
<1>2. Len(r \o s) = Len(r) + Len(s) /\ Len(r) \in Nat /\ Len(s) \in Nat
  OBVIOUS
<1>3. CASE i <= Len(r)
  <2>1. r[i] = u /\ i \in 1 .. Len(r)
    BY <1>1, <1>2, <1>3
  <2> QED BY <2>1 DEF In
<1>4. CASE i > Len(r)
  <2>1. s[i - Len(r)] = u /\ i - Len(r) \in 1 .. Len(s)
    BY <1>1, <1>2, <1>4
  <2> QED BY <2>1 DEF In
<1> QED BY <1>1, <1>2, <1>3, <1>4

\* What was pushed onto the back line goes to the end of the whole line.
LEMMA ConcatAppend ==
  ASSUME NEW r \in Seq(Tasks), NEW s \in Seq(Tasks), NEW t \in Tasks
  PROVE  r \o Append(s, t) = Append(r \o s, t)
OBVIOUS

\* The head of the front line is the head of the whole line.
LEMMA ConcatHeadTail ==
  ASSUME NEW r \in Seq(Tasks), NEW s \in Seq(Tasks), r # <<>>
  PROVE  /\ r \o s # <<>>
         /\ Head(r \o s) = Head(r)
         /\ Tail(r \o s) = Tail(r) \o s
<1>1. /\ Len(r) \in Nat /\ Len(s) \in Nat /\ Len(r) >= 1
      /\ r \o s \in Seq(Tasks) /\ Len(r \o s) = Len(r) + Len(s)
  OBVIOUS
<1>2. r \o s # <<>> /\ Head(r \o s) = Head(r)
  BY <1>1
<1>3. /\ Tail(r) \in Seq(Tasks) /\ Len(Tail(r)) = Len(r) - 1
      /\ Tail(r \o s) \in Seq(Tasks) /\ Len(Tail(r \o s)) = Len(r) + Len(s) - 1
  BY <1>1, <1>2
<1>4. /\ Tail(r) \o s \in Seq(Tasks)
      /\ Len(Tail(r) \o s) = Len(r) + Len(s) - 1
  BY <1>1, <1>3
<1>5. ASSUME NEW i \in 1 .. Len(r) + Len(s) - 1
      PROVE  Tail(r \o s)[i] = (Tail(r) \o s)[i]
  <2>1. Tail(r \o s)[i] = (r \o s)[i + 1]
    BY <1>1, <1>2
  <2>2. CASE i <= Len(r) - 1
    BY <1>1, <1>3, <2>1, <2>2
  <2>3. CASE i > Len(r) - 1
    BY <1>1, <1>3, <2>1, <2>3
  <2> QED BY <1>1, <2>2, <2>3
<1>6. Tail(r \o s) = Tail(r) \o s
  BY <1>1, <1>3, <1>4, <1>5, SeqEqual
<1> QED BY <1>2, <1>6

\* A functor that waits or was started has been handed over by somebody, so
\* that a fresh one is in none of the three lines.
HandedOver == \A t \in Tasks :
    In(t, queue) \/ In(t, batch) \/ In(t, started) => postedBy[t] # None

LEMMA HandedOverNext ==
  ASSUME TypeOK, HandedOver, [Next]_vars
  PROVE  HandedOver'
<1>1. ASSUME NEW th \in Threads, NEW t \in Tasks, TasksInLoop(th, t)
      PROVE  HandedOver'
  <2>1. \A u \in Tasks : In(u, queue') <=> In(u, queue) \/ u = t
    BY <1>1, InAppend DEF TasksInLoop, TypeOK
  <2>2. postedBy'[t] # None /\ \A u \in Tasks \ {t} : postedBy'[u] = postedBy[u]
    BY <1>1, LoopAssumption DEF TasksInLoop, TypeOK
  <2> QED BY <1>1, <2>1, <2>2 DEF TasksInLoop, HandedOver
<1>2. ASSUME NEW th \in Threads, NEW t \in Tasks, RunInLoopInline(th, t)
      PROVE  HandedOver'
  <2>1. \A u \in Tasks : In(u, started') <=> In(u, started) \/ u = t
    BY <1>2, InAppend DEF RunInLoopInline, TypeOK
  <2>2. postedBy'[t] # None /\ \A u \in Tasks \ {t} : postedBy'[u] = postedBy[u]
    BY <1>2, LoopAssumption DEF RunInLoopInline, TypeOK
  <2> QED BY <1>2, <2>1, <2>2 DEF RunInLoopInline, HandedOver
<1>3. CASE SwapTasks
  <2>1. \A t \in Tasks : ~In(t, <<>>)
    BY DEF In
  <2> QED BY <1>3, <2>1 DEF SwapTasks, HandedOver
<1>4. CASE RunTask
  <2>1. /\ Head(batch) \in Tasks
        /\ \A u \in Tasks : In(u, batch) <=> u = Head(batch) \/ In(u, Tail(batch))
    BY <1>4, InHeadTail DEF RunTask, TypeOK
  <2>2. \A u \in Tasks : In(u, started') <=> In(u, started) \/ u = Head(batch)
    BY <1>4, <2>1, InAppend DEF RunTask, TypeOK
  <2> QED BY <1>4, <2>1, <2>2 DEF RunTask, HandedOver
<1>5. ASSUME UNCHANGED <<queue, batch, started, postedBy>>
      PROVE  HandedOver'
  BY <1>5 DEF HandedOver
<1>6. ASSUME NEW th \in Threads, Quit(th) \/ WeakupEventfd(th) \/ FunctorReturn(th)
      PROVE  UNCHANGED <<queue, batch, started, postedBy>>
  BY <1>6 DEF Quit, WeakupEventfd, FunctorReturn
<1>7. ASSUME Start \/ CheckQuit \/ Poll \/ ReadEventfd \/ HandleDone \/ BatchDone
             \/ Returned \/ UNCHANGED vars
      PROVE  UNCHANGED <<queue, batch, started, postedBy>>
  BY <1>7 DEF Start, CheckQuit, Poll, ReadEventfd, HandleDone, BatchDone, Returned, vars
<1> QED BY <1>1, <1>2, <1>3, <1>4, <1>5, <1>6, <1>7 DEF Next, Call, Loop

LEMMA HandedOverInvariant == Spec => []HandedOver
<1>1. Init => HandedOver
  BY DEF Init, HandedOver, In
<1>2. TypeOK /\ HandedOver /\ [Next]_vars => HandedOver'
  BY HandedOverNext
<1> QED BY <1>1, <1>2, TypeCorrect, PTL DEF Spec

\* Every step of the loop and of its callers is a step of the service or leaves
\* the line of waiting functors as it is.
LEMMA ServiceNext ==
  ASSUME TypeOK, DrainInv, HandedOver, [Next]_vars
  PROVE  [Service!Next]_(Service!vars)
<1> DEFINE waiting == batch \o queue
<1> USE DEF Service!vars
<1>1. ASSUME NEW t \in Tasks, Fresh(t)
      PROVE  /\ \A i \in 1 .. Len(waiting) : waiting[i] # t
             /\ \A i \in 1 .. Len(started) : started[i] # t
  <2>1. ~In(t, queue) /\ ~In(t, batch) /\ ~In(t, started)
    BY <1>1 DEF HandedOver, Fresh
  <2>2. ~In(t, waiting)
    BY <2>1, InConcat DEF TypeOK
  <2> QED BY <2>1, <2>2 DEF In
<1>2. ASSUME NEW th \in Threads, NEW t \in Tasks, TasksInLoop(th, t)
      PROVE  Service!Submit(t)
  <2>1. waiting' = Append(waiting, t)
    BY <1>2, ConcatAppend DEF TasksInLoop, TypeOK
  <2> QED BY <1>1, <1>2, <2>1 DEF TasksInLoop, Service!Submit
<1>3. ASSUME NEW th \in Threads, NEW t \in Tasks, RunInLoopInline(th, t)
      PROVE  Service!RunNow(t)
  BY <1>1, <1>3 DEF RunInLoopInline, Service!RunNow
<1>4. CASE RunTask
  <2>1. batch # <<>> /\ waiting' = Tail(batch) \o queue /\ started' = Append(started, Head(batch))
    BY <1>4 DEF RunTask
  <2>2. waiting # <<>> /\ Head(waiting) = Head(batch) /\ Tail(waiting) = Tail(batch) \o queue
    BY <2>1, ConcatHeadTail DEF TypeOK
  <2>3. Service!RunNext
    BY <2>1, <2>2 DEF Service!RunNext
  <2> QED BY <2>3 DEF Service!Next
<1>5. CASE SwapTasks
  <2>1. batch = <<>> /\ batch' = queue /\ queue' = <<>> /\ UNCHANGED started
    BY <1>5 DEF SwapTasks, Goto, DrainInv
  <2>2. <<>> \o queue = queue /\ queue \o <<>> = queue
    BY DEF TypeOK
  <2> QED BY <2>1, <2>2
<1>6. ASSUME NEW th \in Threads, Quit(th) \/ WeakupEventfd(th) \/ FunctorReturn(th)
      PROVE  UNCHANGED Service!vars
  BY <1>6 DEF Quit, WeakupEventfd, FunctorReturn
<1>7. ASSUME Start \/ CheckQuit \/ Poll \/ ReadEventfd \/ HandleDone \/ BatchDone
             \/ Returned \/ UNCHANGED vars
      PROVE  UNCHANGED Service!vars
  BY <1>7 DEF Start, CheckQuit, Poll, ReadEventfd, HandleDone, BatchDone, Returned, vars
<1> HIDE DEF Service!vars
<1> QED BY <1>2, <1>3, <1>4, <1>5, <1>6, <1>7 DEF Next, Call, Loop, Service!Next

\* The loop keeps what TasksInLoop promises: functors wait in one line, over
\* the batch being run and the queue behind it, are started in the order they
\* were handed over, each once, and none leaves the line unstarted.
THEOREM ImplementsTaskService == Spec => ServiceSpec
<1>1. Init => Service!Init
  <2>1. <<>> \o <<>> = <<>>
    OBVIOUS
  <2> QED BY <2>1 DEF Init, Service!Init
<1>2. TypeOK /\ DrainInv /\ HandedOver /\ [Next]_vars => [Service!Next]_(Service!vars)
  BY ServiceNext
<1> QED BY <1>1, <1>2, TypeCorrect, DrainInvariant, HandedOverInvariant, PTL
        DEF Spec, ServiceSpec, Service!Spec
=============================================================================
