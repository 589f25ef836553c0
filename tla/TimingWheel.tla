---------------------------- MODULE TimingWheel -----------------------------
(***************************************************************************)
(* The timer wheel of an EventLoop: include/Timer.hpp, src/Timer.cc.       *)
(* A TimerTask is owned by the slots that hold a shared_ptr to it, and its *)
(* callback runs in its destructor, when the last slot lets go of it.  The *)
(* index _timers holds weak pointers.  All operations run on one thread:   *)
(* between two wake-ups of the timerfd, or inside a task's callback.       *)
(*                                                                         *)
(* Two references of one slot to one task are one element here: they are   *)
(* released by the same clear().                                           *)
(***************************************************************************)
EXTENDS Integers

CONSTANTS Ids,          \* timer ids callers use
          Tasks,        \* identities of TimerTask objects
          None,         \* "no task"
          Free,         \* state of a TimerTask that does not exist
          Capacity,     \* _capacity, 360 in the code
          Delays,       \* delays callers pass, acceptable or not
          MaxBacklog,   \* bound: expirations of the timerfd left unread
          FreshIds      \* TRUE: ids are used the way TcpServer and Connection
                        \* use them, one task per id at a time

Slots == 0 .. Capacity - 1

TaskState == [id : Ids, timeout : 1 .. Capacity - 1, cancel : BOOLEAN]

ASSUME WheelAssumption ==
    /\ Capacity \in Nat /\ Capacity > 1
    /\ Delays \subseteq Nat
    /\ MaxBacklog \in Nat /\ MaxBacklog > 0
    /\ FreshIds \in BOOLEAN
    /\ None \notin Tasks
    /\ Free \notin TaskState

VARIABLES tick,         \* _tick
          wheel,        \* _wheel[s]: the tasks slot s owns a share of
          timers,       \* _timers: id -> task the weak_ptr was made from
          task,         \* the TimerTask objects
          cur,          \* the task whose destructor runs its callback
          times,        \* slots OnTime still has to run
          expirations,  \* count the kernel keeps in the timerfd
          closing,      \* ~TimingWheel has begun
          (* history, never read by the actions' guards *)
          age,          \* slots run since the task was armed or refreshed
          elapsed,      \* expirations since then, saturating
          lag,          \* expirations not run yet when that happened
          silenced      \* ids cancelled and not armed since

code == <<tick, wheel, timers, task, cur, times, expirations, closing>>
vars == <<tick, wheel, timers, task, cur, times, expirations, closing,
          age, elapsed, lag, silenced>>

Held(t) == \E s \in Slots : t \in wheel[s]
Alive(t) == task[t] # Free

TypeOK == /\ tick \in Slots
          /\ wheel \in [Slots -> SUBSET Tasks]
          /\ timers \in [Ids -> Tasks \cup {None}]
          /\ task \in [Tasks -> TaskState \cup {Free}]
          /\ cur \in Tasks \cup {None}
          /\ times \in 0 .. MaxBacklog
          /\ expirations \in 0 .. MaxBacklog
          /\ closing \in BOOLEAN
          /\ age \in [Tasks -> 0 .. Capacity]
          /\ elapsed \in [Tasks -> 0 .. Capacity]
          /\ lag \in [Tasks -> 0 .. 2 * MaxBacklog]
          /\ silenced \subseteq Ids

Init == /\ tick = 0
        /\ wheel = [s \in Slots |-> {}]
        /\ timers = [i \in Ids |-> None]
        /\ task = [t \in Tasks |-> Free]
        /\ cur = None
        /\ times = 0
        /\ expirations = 0
        /\ closing = FALSE
        /\ age = [t \in Tasks |-> 0]
        /\ elapsed = [t \in Tasks |-> 0]
        /\ lag = [t \in Tasks |-> 0]
        /\ silenced = {}

-----------------------------------------------------------------------------
(* Helpers of the operations *)

\* Mutant: the hand is thought to move before the slot is emptied.
SlotForHandFirst(d) == (d + tick - 1) % Capacity

\* The slot a task armed now with delay d goes to.
SlotFor(d) == (d + tick) % Capacity

RemoveTimer(i) == timers' = [timers EXCEPT ![i] = None]

\* Put a share of t in the slot of delay d, and restart its history.
Push(t, d) == /\ wheel' = [wheel EXCEPT ![SlotFor(d)] = @ \cup {t}]
              /\ age' = [age EXCEPT ![t] = 0]
              /\ elapsed' = [elapsed EXCEPT ![t] = 0]
              /\ lag' = [lag EXCEPT ![t] = expirations + times]

\* The loop thread runs client code: outside OnTime, or in a callback.
CanCall == ~closing /\ (times = 0 \/ cur # None)

\* HasTimer(i): the id is in the index, whatever its weak_ptr is worth.
HasTimer(i) == timers[i] # None

-----------------------------------------------------------------------------
(* Operations of the clients *)

\* TcpServer takes an id never used before, Connection adds only when
\* HasTimer says no, and neither of their callbacks re-adds its own id.
MayAdd(i) == FreshIds => ~HasTimer(i) /\ (cur # None => task[cur].id # i)

TimerAdd(t, i, d) ==
    /\ CanCall
    /\ MayAdd(i)
    /\ d # 0 /\ d < Capacity
    /\ ~Alive(t)
    /\ task' = [task EXCEPT ![t] = [id |-> i, timeout |-> d, cancel |-> FALSE]]
    /\ Push(t, d)
    /\ timers' = [timers EXCEPT ![i] = t]
    /\ silenced' = silenced \ {i}
    /\ UNCHANGED <<tick, cur, times, expirations, closing>>

\* The weak_ptr can be locked: one more share, nothing taken away.
TimerReflesh(i) ==
    /\ CanCall
    /\ HasTimer(i)
    /\ Held(timers[i])
    /\ Push(timers[i], task[timers[i]].timeout)
    /\ UNCHANGED <<tick, timers, task, cur, times, expirations, closing, silenced>>

\* The weak_ptr has expired: the task is in its destructor.
TimerRefleshExpired(i) ==
    /\ CanCall
    /\ HasTimer(i)
    /\ ~Held(timers[i])
    /\ RemoveTimer(i)
    /\ UNCHANGED <<tick, wheel, task, cur, times, expirations, closing,
                   age, elapsed, lag, silenced>>

TimerCancel(i) ==
    /\ CanCall
    /\ HasTimer(i)
    /\ Held(timers[i])
    /\ task' = [task EXCEPT ![timers[i]].cancel = TRUE]
    /\ silenced' = silenced \cup {i}
    /\ UNCHANGED <<tick, wheel, timers, cur, times, expirations, closing,
                   age, elapsed, lag>>

-----------------------------------------------------------------------------
(* The timerfd, and the loop that empties slots *)

\* Mutant: a timerfd armed without it_interval, so it expires once.
KernelTickOneShot ==
    /\ ~closing
    /\ expirations = 0 /\ tick = 0 /\ times = 0
    /\ expirations' = 1
    /\ elapsed' = [t \in Tasks |-> IF ~Alive(t) \/ elapsed[t] > task[t].timeout
                                   THEN elapsed[t] ELSE elapsed[t] + 1]
    /\ UNCHANGED <<tick, wheel, timers, task, cur, times, closing, age, lag, silenced>>

\* One second passes.
KernelTick ==
    /\ ~closing
    /\ expirations < MaxBacklog
    /\ expirations' = expirations + 1
    /\ elapsed' = [t \in Tasks |-> IF ~Alive(t) \/ elapsed[t] > task[t].timeout
                                   THEN elapsed[t] ELSE elapsed[t] + 1]
    /\ UNCHANGED <<tick, wheel, timers, task, cur, times, closing, age, lag, silenced>>

\* Mutant: the count is read without being reset.
OnTimeKeepsCount ==
    /\ ~closing /\ times = 0 /\ cur = None
    /\ expirations > 0
    /\ times' = expirations
    /\ UNCHANGED <<tick, wheel, timers, task, cur, expirations, closing, age,
                   elapsed, lag, silenced>>

\* The timerfd is readable: OnTime reads its count, which resets it.
OnTime ==
    /\ ~closing /\ times = 0 /\ cur = None
    /\ expirations > 0
    /\ times' = expirations
    /\ expirations' = 0
    /\ UNCHANGED <<tick, wheel, timers, task, cur, closing, age, elapsed, lag, silenced>>

\* Slots whose shares are being released: all of them in the destructor.
Clearing == IF closing THEN Slots ELSE IF times > 0 THEN {tick} ELSE {}

LastRef(s, t) == \A r \in Slots : t \in wheel[r] => r = s

\* clear() drops a share that is not the last one.
DropRef(s, t) ==
    /\ cur = None
    /\ s \in Clearing /\ t \in wheel[s]
    /\ ~LastRef(s, t)
    /\ wheel' = [wheel EXCEPT ![s] = @ \ {t}]
    /\ UNCHANGED <<tick, timers, task, cur, times, expirations, closing,
                   age, elapsed, lag, silenced>>

\* Mutant: the bug Timer.hpp:30 remembers, a destructor that forgets _cancel.
DestroyLiveForgetsCancel(s, t) ==
    /\ cur = None
    /\ s \in Clearing /\ t \in wheel[s]
    /\ LastRef(s, t)
    /\ wheel' = [wheel EXCEPT ![s] = @ \ {t}]
    /\ cur' = t
    /\ UNCHANGED <<tick, timers, task, times, expirations, closing,
                   age, elapsed, lag, silenced>>

\* The last share of a live task: ~TimerTask starts its callback.
DestroyLive(s, t) ==
    /\ cur = None
    /\ s \in Clearing /\ t \in wheel[s]
    /\ LastRef(s, t)
    /\ ~task[t].cancel
    /\ wheel' = [wheel EXCEPT ![s] = @ \ {t}]
    /\ cur' = t
    /\ UNCHANGED <<tick, timers, task, times, expirations, closing,
                   age, elapsed, lag, silenced>>

\* The last share of a cancelled task: only its _release_cb runs.
DestroyCancelled(s, t) ==
    /\ cur = None
    /\ s \in Clearing /\ t \in wheel[s]
    /\ LastRef(s, t)
    /\ task[t].cancel
    /\ wheel' = [wheel EXCEPT ![s] = @ \ {t}]
    /\ RemoveTimer(task[t].id)
    /\ task' = [task EXCEPT ![t] = Free]
    /\ UNCHANGED <<tick, cur, times, expirations, closing,
                   age, elapsed, lag, silenced>>

\* Mutant: a task whose SetRelease was forgotten.
CallbackReturnKeepsEntry ==
    /\ cur # None
    /\ task' = [task EXCEPT ![cur] = Free]
    /\ cur' = None
    /\ UNCHANGED <<tick, wheel, timers, times, expirations, closing,
                   age, elapsed, lag, silenced>>

\* The callback has returned or thrown; _release_cb runs and ~TimerTask ends.
CallbackReturn ==
    /\ cur # None
    /\ RemoveTimer(task[cur].id)
    /\ task' = [task EXCEPT ![cur] = Free]
    /\ cur' = None
    /\ UNCHANGED <<tick, wheel, times, expirations, closing,
                   age, elapsed, lag, silenced>>

\* Mutant: the hand moves on without the wrap at _capacity.
AdvanceTickNoWrap ==
    /\ ~closing /\ times > 0 /\ cur = None
    /\ wheel[tick] = {}
    /\ tick' = tick + 1
    /\ times' = times - 1
    /\ age' = [t \in Tasks |-> IF Alive(t) THEN age[t] + 1 ELSE age[t]]
    /\ UNCHANGED <<wheel, timers, task, cur, expirations, closing,
                   elapsed, lag, silenced>>

\* Mutant: a callback's exception leaves the rest of the slot behind.
AdvanceTickLeavesSlot ==
    /\ ~closing /\ times > 0 /\ cur = None
    /\ tick' = (tick + 1) % Capacity
    /\ times' = times - 1
    /\ age' = [t \in Tasks |-> IF Alive(t) THEN age[t] + 1 ELSE age[t]]
    /\ UNCHANGED <<wheel, timers, task, cur, expirations, closing,
                   elapsed, lag, silenced>>

\* The slot is empty: the second hand moves, and OnTime's loop goes round.
AdvanceTick ==
    /\ ~closing /\ times > 0 /\ cur = None
    /\ wheel[tick] = {}
    /\ tick' = (tick + 1) % Capacity
    /\ times' = times - 1
    /\ age' = [t \in Tasks |-> IF Alive(t) THEN age[t] + 1 ELSE age[t]]
    /\ UNCHANGED <<wheel, timers, task, cur, expirations, closing,
                   elapsed, lag, silenced>>

\* The EventLoop is destroyed, and its TimingWheel with it.
Teardown ==
    /\ ~closing /\ times = 0 /\ cur = None
    /\ closing' = TRUE
    /\ UNCHANGED <<tick, wheel, timers, task, cur, times, expirations,
                   age, elapsed, lag, silenced>>

Destroyed == closing /\ cur = None /\ (\A t \in Tasks : ~Held(t)) /\ UNCHANGED vars

-----------------------------------------------------------------------------
Client == \E i \in Ids : \/ \E t \in Tasks, d \in Delays : TimerAdd(t, i, d)
                         \/ TimerReflesh(i)
                         \/ TimerRefleshExpired(i)
                         \/ TimerCancel(i)

Release(s, t) == DropRef(s, t) \/ DestroyLive(s, t) \/ DestroyCancelled(s, t)

Wheel == \/ OnTime
         \/ \E s \in Slots, t \in Tasks : Release(s, t)
         \/ CallbackReturn
         \/ AdvanceTick

Next == Client \/ KernelTick \/ Wheel \/ Teardown \/ Destroyed

Spec == Init /\ [][Next]_vars

\* Time passes, and a loop that is woken gets through its callbacks.
FairSpec == Spec /\ WF_vars(KernelTick) /\ WF_vars(Wheel)

-----------------------------------------------------------------------------
(* Properties *)

\* A callback runs in the round its last arming or refresh chose: exactly
\* timeout slots later, however many shares the refreshes left behind.
FiresOnSchedule == cur # None /\ ~closing => age[cur] = task[cur].timeout

\* What "after delay seconds" is worth: a callback runs early by no more than
\* the expirations that were already waiting when the task was armed.
EarlyByLagOnly ==
    cur # None /\ ~closing => elapsed[cur] + lag[cur] > task[cur].timeout

\* Under the callers' discipline the index names exactly the tasks that
\* exist, each under its id (a callback may drop its own, expired, entry).
IndexExact ==
    /\ \A i \in Ids : HasTimer(i) => Alive(timers[i]) /\ task[timers[i]].id = i
    /\ \A t \in Tasks : Alive(t) /\ t # cur => timers[task[t].id] = t

\* Under that discipline the wheel, its index and its tasks fit together.
WheelInv == TypeOK /\ IndexExact

\* No callback of an id that was cancelled and not armed again.
CancelledStaysSilent == cur # None => task[cur].id \notin silenced

\* A task that nobody refreshes any more leaves the wheel.
TimerGetsItsTurn ==
    \A t \in Tasks : (Held(t) /\ age[t] = 1) ~> (age[t] = 0 \/ ~Held(t))

\* The wheel implements the countdown service.
Service == INSTANCE TimerService WITH
    MaxDelay <- Capacity - 1,
    left <- [t \in Tasks |-> IF Held(t) THEN task[t].timeout - age[t] ELSE -1],
    delay <- [t \in Tasks |-> IF Alive(t) THEN task[t].timeout ELSE 0],
    muted <- {t \in Tasks : Alive(t) /\ task[t].cancel},
    firing <- cur,
    owed <- times
ServiceSpec == Service!Spec

=============================================================================
