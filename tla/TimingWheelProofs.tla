------------------------- MODULE TimingWheelProofs --------------------------
(***************************************************************************)
(* Proofs about TimingWheel, for every Capacity, MaxBacklog and every set  *)
(* of ids and tasks.                                                       *)
(***************************************************************************)
EXTENDS TimingWheel, TLAPS

\* How far slot s is ahead of the hand.
Dist(s) == IF s >= tick THEN s - tick ELSE s + Capacity - tick

(* The inductive invariant.  FiresOnSchedule alone is not inductive: it has *)
(* to be known of every share, long before its slot comes up.               *)

\* A task exists exactly as long as a slot owns it or its destructor runs.
Ownership == /\ \A t \in Tasks : Alive(t) <=> Held(t) \/ cur = t
             /\ cur # None => ~Held(cur)

\* No share of a task outlasts the schedule of the task.
SharesWithin == \A t \in Tasks, s \in Slots :
    t \in wheel[s] => Dist(s) + age[t] <= task[t].timeout

\* One share of it lies exactly on the schedule.
ShareOnTarget == ~closing =>
    \A t \in Tasks : Held(t) =>
        \E s \in Slots : t \in wheel[s] /\ Dist(s) + age[t] = task[t].timeout

\* A callback runs inside a round of OnTime, or in the destructor.
FiringInRound == cur # None /\ ~closing => times > 0

\* Seconds and rounds since the arming differ by the unread expirations.
LagAccount == \A t \in Tasks : Alive(t) =>
    \/ elapsed[t] > task[t].timeout
    \/ elapsed[t] + lag[t] = age[t] + expirations + times

ScheduleInv == /\ TypeOK
               /\ Ownership
               /\ SharesWithin
               /\ ShareOnTarget
               /\ FiringInRound
               /\ FiresOnSchedule
               /\ LagAccount

-----------------------------------------------------------------------------
\* % on the range the wheel uses it on.
LEMMA WrapAround ==
  ASSUME NEW n \in Nat \ {0}, NEW x \in 0 .. 2 * n - 1
  PROVE  x % n = IF x < n THEN x ELSE x - n
<1>1. CASE x < n
  BY <1>1
<1>2. CASE x >= n
  BY <1>2
<1> QED BY <1>1, <1>2

\* A task armed with delay d lands d slots ahead of the hand.
LEMMA SlotForDist ==
  ASSUME TypeOK, NEW d \in 1 .. Capacity - 1
  PROVE  SlotFor(d) \in Slots /\ Dist(SlotFor(d)) = d
<1>1. Capacity \in Nat \ {0} /\ tick \in 0 .. Capacity - 1
  BY WheelAssumption DEF TypeOK, Slots
<1>2. d + tick \in 0 .. 2 * Capacity - 1
  BY <1>1
<1>3. SlotFor(d) = IF d + tick < Capacity THEN d + tick ELSE d + tick - Capacity
  <2> DEFINE x == d + tick
  <2>1. x \in 0 .. 2 * Capacity - 1
    BY <1>2
  <2>2. x % Capacity = IF x < Capacity THEN x ELSE x - Capacity
    <3> HIDE DEF x
    <3> QED BY <2>1, <1>1, WrapAround
  <2> QED BY <1>1, <2>2 DEF SlotFor
<1> QED BY <1>1, <1>3 DEF Dist, Slots

\* The hand moves one slot: every other slot comes one nearer.
LEMMA AdvanceDist ==
  ASSUME TypeOK, AdvanceTick, NEW s \in Slots
  PROVE  /\ tick' \in Slots
         /\ s # tick => Dist(s)' = Dist(s) - 1
         /\ s = tick => Dist(s) = 0
<1>1. Capacity \in Nat \ {0, 1} /\ tick \in 0 .. Capacity - 1
  BY WheelAssumption DEF TypeOK, Slots
<1>2. tick' = IF tick + 1 < Capacity THEN tick + 1 ELSE tick + 1 - Capacity
  <2> DEFINE x == tick + 1
  <2>1. x \in 0 .. 2 * Capacity - 1
    BY <1>1
  <2>2. x % Capacity = IF x < Capacity THEN x ELSE x - Capacity
    <3> HIDE DEF x
    <3> QED BY <2>1, <1>1, WrapAround
  <2> QED BY <1>1, <2>2 DEF AdvanceTick
<1> QED BY <1>1, <1>2 DEF Dist, Slots

\* Distances from the hand are natural numbers below Capacity.
LEMMA DistType ==
  ASSUME TypeOK, NEW s \in Slots
  PROVE  Dist(s) \in 0 .. Capacity - 1 /\ (Dist(s) = 0 => s = tick)
BY WheelAssumption DEF TypeOK, Slots, Dist

\* A live task is a record of TaskState.
LEMMA AliveType ==
  ASSUME TypeOK, NEW t \in Tasks, Alive(t)
  PROVE  /\ task[t] \in TaskState
         /\ task[t].id \in Ids /\ task[t].timeout \in 1 .. Capacity - 1
         /\ task[t].cancel \in BOOLEAN
BY DEF TypeOK, Alive, TaskState

LEMMA ScheduleInit == Init => ScheduleInv
<1> SUFFICES ASSUME Init
             PROVE  ScheduleInv
  OBVIOUS
<1>1. Capacity \in Nat /\ Capacity > 1 /\ MaxBacklog \in Nat /\ None \notin Tasks
  BY WheelAssumption
<1>2. TypeOK
  <2>1. tick \in Slots /\ cur \in Tasks \cup {None}
    BY <1>1 DEF Init, Slots
  <2>2. wheel \in [Slots -> SUBSET Tasks]
    BY DEF Init
  <2>3. timers \in [Ids -> Tasks \cup {None}] /\ task \in [Tasks -> TaskState \cup {Free}]
    BY DEF Init
  <2>4. /\ times \in 0 .. MaxBacklog /\ expirations \in 0 .. MaxBacklog
        /\ age \in [Tasks -> 0 .. Capacity]
        /\ elapsed \in [Tasks -> 0 .. Capacity]
        /\ lag \in [Tasks -> 0 .. 2 * MaxBacklog]
    BY <1>1 DEF Init
  <2>5. silenced \subseteq Ids /\ closing \in BOOLEAN
    BY DEF Init
  <2> QED BY <2>1, <2>2, <2>3, <2>4, <2>5 DEF TypeOK
<1>3. \A t \in Tasks : ~Alive(t) /\ ~Held(t) /\ cur # t
  BY <1>1 DEF Init, Alive, Held
<1>4. \A t \in Tasks, s \in Slots : t \notin wheel[s]
  BY DEF Init
<1>5. cur = None
  BY DEF Init
<1> QED BY <1>2, <1>3, <1>4, <1>5 DEF ScheduleInv, Ownership, SharesWithin,
        ShareOnTarget, FiringInRound, FiresOnSchedule, LagAccount

\* Adding a share at the task's own delay restarts its schedule.
LEMMA PushKeepsSchedule ==
  ASSUME ScheduleInv, NEW t \in Tasks, NEW d \in 1 .. Capacity - 1,
         Push(t, d), CanCall, t # cur,
         Held(t) => d = task[t].timeout,
         task'[t] # Free, task'[t].timeout = d,
         \A u \in Tasks \ {t} : task'[u] = task[u],
         UNCHANGED <<tick, cur, times, expirations, closing>>
  PROVE  /\ wheel' \in [Slots -> SUBSET Tasks]
         /\ age' \in [Tasks -> 0 .. Capacity]
         /\ elapsed' \in [Tasks -> 0 .. Capacity]
         /\ lag' \in [Tasks -> 0 .. 2 * MaxBacklog]
         /\ Ownership' /\ SharesWithin' /\ ShareOnTarget'
         /\ FiringInRound' /\ FiresOnSchedule' /\ LagAccount'
<1> USE DEF ScheduleInv
<1> DEFINE p == SlotFor(d)
<1>1. p \in Slots /\ Dist(p) = d
  BY SlotForDist
<1>2. \A s \in Slots : Dist(s)' = Dist(s) /\ Dist(s) \in 0 .. Capacity - 1
  BY DistType DEF Dist
<1> HIDE DEF p
<1>3. /\ wheel' = [wheel EXCEPT ![p] = @ \cup {t}]
      /\ age' = [age EXCEPT ![t] = 0]
      /\ elapsed' = [elapsed EXCEPT ![t] = 0]
      /\ lag' = [lag EXCEPT ![t] = expirations + times]
  BY DEF Push, p
<1>4. Capacity \in Nat /\ MaxBacklog \in Nat
  BY WheelAssumption
<1>5. /\ wheel' \in [Slots -> SUBSET Tasks]
      /\ age' \in [Tasks -> 0 .. Capacity]
      /\ elapsed' \in [Tasks -> 0 .. Capacity]
      /\ lag' \in [Tasks -> 0 .. 2 * MaxBacklog]
  BY <1>1, <1>3, <1>4 DEF TypeOK
<1>6. \A u \in Tasks \ {t} : /\ age'[u] = age[u] /\ elapsed'[u] = elapsed[u]
                              /\ lag'[u] = lag[u]
                              /\ \A s \in Slots : u \in wheel'[s] <=> u \in wheel[s]
  BY <1>1, <1>3 DEF TypeOK
<1>7. /\ age'[t] = 0 /\ elapsed'[t] = 0 /\ lag'[t] = expirations + times
      /\ t \in wheel'[p]
      /\ \A s \in Slots : t \in wheel'[s] => t \in wheel[s] \/ s = p
  BY <1>1, <1>3 DEF TypeOK
<1>8. \A u \in Tasks \ {t} : (Held(u)' <=> Held(u)) /\ (Alive(u)' <=> Alive(u))
  BY <1>6 DEF Held, Alive
<1>9. Held(t)' /\ Alive(t)'
  BY <1>1, <1>7 DEF Held, Alive
<1>10. Ownership'
  BY <1>8, <1>9, WheelAssumption DEF Ownership, TypeOK
<1>11. SharesWithin'
  <2> SUFFICES ASSUME NEW u \in Tasks, NEW s \in Slots, u \in wheel'[s]
               PROVE  Dist(s)' + age'[u] <= task'[u].timeout
    BY DEF SharesWithin
  <2>1. CASE u # t
    BY <2>1, <1>2, <1>6 DEF SharesWithin
  <2>2. CASE u = t /\ s = p
    BY <2>2, <1>1, <1>2, <1>7, <1>4
  <2>3. CASE u = t /\ s # p
    <3>1. t \in wheel[s] /\ Held(t)
      BY <2>3, <1>7 DEF Held
    <3>2. Dist(s) + age[t] <= d /\ age[t] \in Nat
      BY <3>1, <1>4 DEF SharesWithin, TypeOK
    <3> QED BY <2>3, <3>2, <1>2, <1>7
  <2> QED BY <2>1, <2>2, <2>3
<1>12. ShareOnTarget'
  <2> SUFFICES ASSUME ~closing, NEW u \in Tasks, Held(u)'
               PROVE  \E s \in Slots : u \in wheel'[s] /\ Dist(s)' + age'[u] = task'[u].timeout
    BY DEF ShareOnTarget
  <2>1. CASE u # t
    BY <2>1, <1>2, <1>6, <1>8 DEF ShareOnTarget
  <2>2. CASE u = t
    BY <2>2, <1>1, <1>2, <1>7, <1>4
  <2> QED BY <2>1, <2>2
<1>13. FiringInRound' /\ FiresOnSchedule'
  BY <1>6, WheelAssumption DEF FiringInRound, FiresOnSchedule, TypeOK
<1>14. LagAccount'
  <2> SUFFICES ASSUME NEW u \in Tasks, Alive(u)'
               PROVE  \/ elapsed'[u] > task'[u].timeout
                      \/ elapsed'[u] + lag'[u] = age'[u] + expirations' + times'
    BY DEF LagAccount
  <2>1. CASE u # t
    BY <2>1, <1>6, <1>8 DEF LagAccount
  <2>2. CASE u = t
    BY <2>2, <1>7, <1>4 DEF TypeOK
  <2> QED BY <2>1, <2>2
<1> QED BY <1>5, <1>10, <1>11, <1>12, <1>13, <1>14

-----------------------------------------------------------------------------
(* The clients' operations *)

LEMMA AddSchedule ==
  ASSUME ScheduleInv, NEW t \in Tasks, NEW i \in Ids, NEW d \in Delays, TimerAdd(t, i, d)
  PROVE  ScheduleInv'
<1> USE DEF ScheduleInv
<1>1. d \in 1 .. Capacity - 1
  BY WheelAssumption DEF TimerAdd
<1> DEFINE new == [id |-> i, timeout |-> d, cancel |-> FALSE]
<1>2. new \in TaskState /\ new.timeout = d
  BY <1>1 DEF TaskState
<1>3. task' = [task EXCEPT ![t] = new]
  BY DEF TimerAdd
<1> HIDE DEF new
<1>4. /\ task' \in [Tasks -> TaskState \cup {Free}]
      /\ task'[t] = new
      /\ \A u \in Tasks \ {t} : task'[u] = task[u]
  BY <1>2, <1>3 DEF TypeOK
<1>5. new # Free
  BY <1>2, WheelAssumption
<1>6. t # cur /\ ~Held(t)
  BY DEF TimerAdd, Ownership, TypeOK
<1>7. /\ Push(t, d) /\ CanCall
      /\ UNCHANGED <<tick, cur, times, expirations, closing>>
  BY DEF TimerAdd
<1>8. /\ wheel' \in [Slots -> SUBSET Tasks]
      /\ age' \in [Tasks -> 0 .. Capacity]
      /\ elapsed' \in [Tasks -> 0 .. Capacity]
      /\ lag' \in [Tasks -> 0 .. 2 * MaxBacklog]
      /\ Ownership' /\ SharesWithin' /\ ShareOnTarget'
      /\ FiringInRound' /\ FiresOnSchedule' /\ LagAccount'
  BY <1>1, <1>2, <1>4, <1>5, <1>6, <1>7, PushKeepsSchedule
<1>9. TypeOK'
  BY <1>4, <1>7, <1>8 DEF TimerAdd, TypeOK
<1> QED BY <1>8, <1>9

LEMMA RefleshSchedule ==
  ASSUME ScheduleInv, NEW i \in Ids, TimerReflesh(i)
  PROVE  ScheduleInv'
<1> USE DEF ScheduleInv
<1> DEFINE t == timers[i]
           d == task[t].timeout
<1>1. t \in Tasks
  BY DEF TimerReflesh, HasTimer, TypeOK
<1>2. Held(t) /\ Alive(t) /\ t # cur
  BY <1>1, WheelAssumption DEF TimerReflesh, Ownership
<1>3. d \in 1 .. Capacity - 1
  BY <1>1, <1>2, AliveType
<1>4. /\ Push(t, d) /\ CanCall
      /\ UNCHANGED <<tick, timers, task, cur, times, expirations, closing, silenced>>
  BY DEF TimerReflesh
<1>5. task'[t] # Free
  BY <1>2, <1>4 DEF Alive
<1> HIDE DEF t
<1>6. /\ wheel' \in [Slots -> SUBSET Tasks]
      /\ age' \in [Tasks -> 0 .. Capacity]
      /\ elapsed' \in [Tasks -> 0 .. Capacity]
      /\ lag' \in [Tasks -> 0 .. 2 * MaxBacklog]
      /\ Ownership' /\ SharesWithin' /\ ShareOnTarget'
      /\ FiringInRound' /\ FiresOnSchedule' /\ LagAccount'
  BY <1>1, <1>2, <1>3, <1>4, <1>5, PushKeepsSchedule
<1> QED BY <1>4, <1>6 DEF TypeOK

\* Steps that touch no share, no history and no clock.
LEMMA FrameSchedule ==
  ASSUME ScheduleInv, TypeOK',
         UNCHANGED <<tick, wheel, cur, times, expirations, age, elapsed, lag>>,
         closing => closing', cur # None => closing' = closing,
         \A t \in Tasks : /\ Alive(t)' <=> Alive(t)
                          /\ Alive(t) => task'[t].timeout = task[t].timeout
  PROVE  ScheduleInv'
<1> USE DEF ScheduleInv
<1>1. \A t \in Tasks : Held(t)' <=> Held(t)
  BY DEF Held
<1>2. \A s \in Slots : Dist(s)' = Dist(s)
  BY DEF Dist
<1>3. \A t \in Tasks : Held(t) => Alive(t)
  BY DEF Ownership
<1>4. \A t \in Tasks, s \in Slots : t \in wheel[s] => Held(t)
  BY DEF Held
<1>5. Ownership'
  BY <1>1 DEF Ownership, TypeOK
<1>6. SharesWithin'
  BY <1>2, <1>3, <1>4 DEF SharesWithin
<1>7. ShareOnTarget'
  BY <1>1, <1>2, <1>3 DEF ShareOnTarget
<1>8. FiringInRound'
  BY DEF FiringInRound
<1>9. FiresOnSchedule'
  <2>1. cur # None => cur \in Tasks /\ Alive(cur)
    BY DEF Ownership, TypeOK
  <2> QED BY <2>1 DEF FiresOnSchedule
<1>10. LagAccount'
  BY DEF LagAccount
<1> QED BY <1>5, <1>6, <1>7, <1>8, <1>9, <1>10

LEMMA ExpiredSchedule ==
  ASSUME ScheduleInv, NEW i \in Ids, TimerRefleshExpired(i)
  PROVE  ScheduleInv'
<1>1. TypeOK'
  BY DEF ScheduleInv, TypeOK, TimerRefleshExpired, RemoveTimer
<1> QED BY <1>1, FrameSchedule DEF TimerRefleshExpired, Alive

LEMMA CancelSchedule ==
  ASSUME ScheduleInv, NEW i \in Ids, TimerCancel(i)
  PROVE  ScheduleInv'
<1> DEFINE t == timers[i]
           new == [task[t] EXCEPT !.cancel = TRUE]
<1>1. t \in Tasks /\ Alive(t)
  BY DEF ScheduleInv, TimerCancel, HasTimer, TypeOK, Ownership
<1>2. task[t] \in TaskState
  BY <1>1, AliveType DEF ScheduleInv
<1>3. new \in TaskState /\ new.timeout = task[t].timeout
  BY <1>2 DEF TaskState
<1>4. new # Free
  BY <1>3, WheelAssumption
<1>5. task' = [task EXCEPT ![t] = new]
  BY DEF TimerCancel
<1> HIDE DEF t, new
<1>6. TypeOK'
  <2>1. task' \in [Tasks -> TaskState \cup {Free}]
    BY <1>1, <1>3, <1>5 DEF ScheduleInv, TypeOK
  <2>2. silenced' \subseteq Ids
    BY DEF ScheduleInv, TypeOK, TimerCancel
  <2> QED BY <2>1, <2>2 DEF ScheduleInv, TypeOK, TimerCancel
<1>7. \A u \in Tasks : /\ Alive(u)' <=> Alive(u)
                       /\ Alive(u) => task'[u].timeout = task[u].timeout
  BY <1>1, <1>3, <1>4, <1>5 DEF Alive, ScheduleInv, TypeOK
<1> QED BY <1>6, <1>7, FrameSchedule DEF TimerCancel

-----------------------------------------------------------------------------
(* The clock and the loop *)

LEMMA KernelTickSchedule ==
  ASSUME ScheduleInv, KernelTick
  PROVE  ScheduleInv'
<1> USE DEF ScheduleInv
<1>1. Capacity \in Nat /\ MaxBacklog \in Nat
  BY WheelAssumption
<1>2. /\ expirations' = expirations + 1 /\ expirations' \in 0 .. MaxBacklog
      /\ UNCHANGED <<tick, wheel, timers, task, cur, times, closing, age, lag, silenced>>
  BY <1>1 DEF KernelTick, TypeOK
<1>3. \A t \in Tasks :
         elapsed'[t] = IF ~Alive(t) \/ elapsed[t] > task[t].timeout
                       THEN elapsed[t] ELSE elapsed[t] + 1
  BY DEF KernelTick
<1>4. \A t \in Tasks : elapsed'[t] \in 0 .. Capacity
  BY <1>1, <1>3, AliveType DEF TypeOK
<1>5. elapsed' \in [Tasks -> 0 .. Capacity]
  BY <1>4 DEF KernelTick
<1>6. TypeOK'
  BY <1>2, <1>5 DEF TypeOK
<1>7. LagAccount'
  <2> SUFFICES ASSUME NEW t \in Tasks, Alive(t)
               PROVE  \/ elapsed'[t] > task[t].timeout
                      \/ elapsed'[t] + lag[t] = age[t] + expirations' + times
    BY <1>2 DEF LagAccount, Alive
  <2>1. elapsed[t] \in Nat /\ lag[t] \in Nat /\ age[t] \in Nat
        /\ expirations \in Nat /\ times \in Nat
    BY <1>1 DEF TypeOK
  <2>2. task[t].timeout \in Nat
    BY <1>1, AliveType
  <2> QED BY <2>1, <2>2, <1>2, <1>3 DEF LagAccount
<1>8. \A t \in Tasks : (Held(t)' <=> Held(t)) /\ (Alive(t)' <=> Alive(t))
  BY <1>2 DEF Held, Alive
<1>9. \A s \in Slots : Dist(s)' = Dist(s)
  BY <1>2 DEF Dist
<1>10. Ownership'
  BY <1>2, <1>8, WheelAssumption DEF Ownership, TypeOK
<1>11. SharesWithin' /\ ShareOnTarget'
  BY <1>2, <1>8, <1>9 DEF SharesWithin, ShareOnTarget
<1>12. FiringInRound' /\ FiresOnSchedule'
  BY <1>2 DEF FiringInRound, FiresOnSchedule
<1> QED BY <1>6, <1>7, <1>10, <1>11, <1>12

LEMMA OnTimeSchedule ==
  ASSUME ScheduleInv, OnTime
  PROVE  ScheduleInv'
<1> USE DEF ScheduleInv
<1>1. MaxBacklog \in Nat /\ Capacity \in Nat
  BY WheelAssumption
<1>2. /\ times = 0 /\ cur = None /\ times' = expirations /\ expirations' = 0
      /\ UNCHANGED <<tick, wheel, timers, task, cur, closing, age, elapsed, lag, silenced>>
  BY DEF OnTime
<1>3. TypeOK'
  BY <1>1, <1>2 DEF TypeOK
<1>4. LagAccount'
  BY <1>1, <1>2 DEF LagAccount, Alive, TypeOK
<1>5. \A t \in Tasks : (Held(t)' <=> Held(t)) /\ (Alive(t)' <=> Alive(t))
  BY <1>2 DEF Held, Alive
<1>6. \A s \in Slots : Dist(s)' = Dist(s)
  BY <1>2 DEF Dist
<1>7. Ownership'
  BY <1>2, <1>5 DEF Ownership
<1>8. SharesWithin' /\ ShareOnTarget'
  BY <1>2, <1>5, <1>6 DEF SharesWithin, ShareOnTarget
<1>9. FiringInRound' /\ FiresOnSchedule'
  BY <1>2 DEF FiringInRound, FiresOnSchedule
<1> QED BY <1>3, <1>4, <1>7, <1>8, <1>9

\* The facts of a step that takes the share of slot s in task t away.
LEMMA ShareRemoved ==
  ASSUME TypeOK, NEW s \in Slots, NEW t \in Tasks,
         wheel' = [wheel EXCEPT ![s] = @ \ {t}], tick' = tick
  PROVE  /\ wheel' \in [Slots -> SUBSET Tasks]
         /\ \A u \in Tasks, r \in Slots :
               u \in wheel'[r] <=> u \in wheel[r] /\ ~(u = t /\ r = s)
         /\ \A u \in Tasks \ {t} : Held(u)' <=> Held(u)
         /\ Held(t)' <=> \E r \in Slots \ {s} : t \in wheel[r]
         /\ \A r \in Slots : Dist(r)' = Dist(r)
<1>1. wheel' \in [Slots -> SUBSET Tasks]
  BY DEF TypeOK
<1>2. \A u \in Tasks, r \in Slots :
         u \in wheel'[r] <=> u \in wheel[r] /\ ~(u = t /\ r = s)
  BY DEF TypeOK
<1>3. \A r \in Slots : Dist(r)' = Dist(r)
  BY DEF Dist
<1> QED BY <1>1, <1>2, <1>3 DEF Held

LEMMA DropRefSchedule ==
  ASSUME ScheduleInv, NEW s \in Slots, NEW t \in Tasks, DropRef(s, t)
  PROVE  ScheduleInv'
<1> USE DEF ScheduleInv
<1>1. /\ cur = None /\ s \in Clearing /\ t \in wheel[s] /\ ~LastRef(s, t)
      /\ wheel' = [wheel EXCEPT ![s] = @ \ {t}]
      /\ UNCHANGED <<tick, timers, task, cur, times, expirations, closing,
                     age, elapsed, lag, silenced>>
  BY DEF DropRef
<1>2. PICK r \in Slots : t \in wheel[r] /\ r # s
  BY <1>1 DEF LastRef
<1>3. /\ wheel' \in [Slots -> SUBSET Tasks]
      /\ \A u \in Tasks, q \in Slots :
            u \in wheel'[q] <=> u \in wheel[q] /\ ~(u = t /\ q = s)
      /\ \A q \in Slots : Dist(q)' = Dist(q)
  BY <1>1, ShareRemoved
<1>4. \A u \in Tasks : Held(u)' <=> Held(u)
  BY <1>1, <1>2, <1>3 DEF Held
<1>5. TypeOK'
  BY <1>1, <1>3 DEF TypeOK
<1>6. Ownership'
  BY <1>1, <1>4 DEF Ownership, Alive
<1>7. SharesWithin'
  BY <1>1, <1>3 DEF SharesWithin
<1>8. ShareOnTarget'
  <2> SUFFICES ASSUME ~closing, NEW u \in Tasks, Held(u)
               PROVE  \E q \in Slots : u \in wheel'[q] /\ Dist(q) + age[u] = task[u].timeout
    BY <1>1, <1>3, <1>4 DEF ShareOnTarget
  <2>1. PICK q \in Slots : u \in wheel[q] /\ Dist(q) + age[u] = task[u].timeout
    BY DEF ShareOnTarget
  <2>2. CASE u # t \/ q # s
    BY <2>1, <2>2, <1>3
  <2>3. CASE u = t /\ q = s
    <3>1. s = tick
      BY <1>1 DEF Clearing
    <3>2. Dist(s) = 0
      BY <3>1, WheelAssumption DEF Dist, TypeOK, Slots
    <3>3. Dist(r) \in Nat /\ Dist(r) # 0
      BY <1>2, <3>1, DistType, WheelAssumption
    <3>4. Dist(r) + age[t] <= task[t].timeout
      BY <1>2 DEF SharesWithin
    <3>5. age[t] \in Nat
      BY WheelAssumption DEF TypeOK
    <3> QED BY <2>1, <2>3, <3>2, <3>3, <3>4, <3>5
  <2> QED BY <2>2, <2>3
<1>9. FiringInRound' /\ FiresOnSchedule'
  BY <1>1 DEF FiringInRound, FiresOnSchedule
<1>10. LagAccount'
  BY <1>1 DEF LagAccount, Alive
<1> QED BY <1>5, <1>6, <1>7, <1>8, <1>9, <1>10

\* The last share goes when the schedule says so.
LEMMA LastShareOnTarget ==
  ASSUME ScheduleInv, NEW s \in Slots, NEW t \in Tasks, t \in wheel[s],
         LastRef(s, t), s \in Clearing, ~closing
  PROVE  age[t] = task[t].timeout /\ times > 0
<1> USE DEF ScheduleInv
<1>1. s = tick /\ times > 0
  BY DEF Clearing
<1>2. Dist(s) = 0
  BY <1>1, WheelAssumption DEF Dist, TypeOK, Slots
<1>3. Held(t)
  BY DEF Held
<1>4. PICK q \in Slots : t \in wheel[q] /\ Dist(q) + age[t] = task[t].timeout
  BY <1>3 DEF ShareOnTarget
<1>5. q = s
  BY <1>4 DEF LastRef
<1>6. age[t] \in Nat
  BY WheelAssumption DEF TypeOK
<1> QED BY <1>1, <1>2, <1>4, <1>5, <1>6

LEMMA DestroyLiveSchedule ==
  ASSUME ScheduleInv, NEW s \in Slots, NEW t \in Tasks, DestroyLive(s, t)
  PROVE  ScheduleInv'
<1> USE DEF ScheduleInv
<1>1. /\ cur = None /\ s \in Clearing /\ t \in wheel[s] /\ LastRef(s, t)
      /\ wheel' = [wheel EXCEPT ![s] = @ \ {t}] /\ cur' = t
      /\ UNCHANGED <<tick, timers, task, times, expirations, closing,
                     age, elapsed, lag, silenced>>
  BY DEF DestroyLive
<1>2. /\ wheel' \in [Slots -> SUBSET Tasks]
      /\ \A u \in Tasks, q \in Slots :
            u \in wheel'[q] <=> u \in wheel[q] /\ ~(u = t /\ q = s)
      /\ \A u \in Tasks \ {t} : Held(u)' <=> Held(u)
      /\ \A q \in Slots : Dist(q)' = Dist(q)
  BY <1>1, ShareRemoved
<1>3. ~Held(t)' /\ Held(t)
  BY <1>1, <1>2 DEF LastRef, Held
<1>4. TypeOK'
  BY <1>1, <1>2 DEF TypeOK
<1>5. Ownership'
  <2>1. \A u \in Tasks : cur # u
    BY <1>1, WheelAssumption
  <2> QED BY <1>1, <1>2, <1>3, <2>1 DEF Ownership, Alive
<1>6. SharesWithin'
  BY <1>1, <1>2 DEF SharesWithin
<1>7. ShareOnTarget'
  <2> SUFFICES ASSUME ~closing, NEW u \in Tasks, Held(u)'
               PROVE  \E q \in Slots : u \in wheel'[q] /\ Dist(q) + age[u] = task[u].timeout
    BY <1>1, <1>2 DEF ShareOnTarget
  <2> QED BY <1>2, <1>3 DEF ShareOnTarget
<1>8. FiringInRound' /\ FiresOnSchedule'
  BY <1>1, LastShareOnTarget DEF FiringInRound, FiresOnSchedule
<1>9. LagAccount'
  BY <1>1 DEF LagAccount, Alive
<1> QED BY <1>4, <1>5, <1>6, <1>7, <1>8, <1>9

LEMMA DestroyCancelledSchedule ==
  ASSUME ScheduleInv, NEW s \in Slots, NEW t \in Tasks, DestroyCancelled(s, t)
  PROVE  ScheduleInv'
<1> USE DEF ScheduleInv
<1>1. /\ cur = None /\ s \in Clearing /\ t \in wheel[s] /\ LastRef(s, t)
      /\ wheel' = [wheel EXCEPT ![s] = @ \ {t}]
      /\ task' = [task EXCEPT ![t] = Free]
      /\ timers' = [timers EXCEPT ![task[t].id] = None]
      /\ UNCHANGED <<tick, cur, times, expirations, closing,
                     age, elapsed, lag, silenced>>
  BY DEF DestroyCancelled, RemoveTimer
<1>2. /\ wheel' \in [Slots -> SUBSET Tasks]
      /\ \A u \in Tasks, q \in Slots :
            u \in wheel'[q] <=> u \in wheel[q] /\ ~(u = t /\ q = s)
      /\ \A u \in Tasks \ {t} : Held(u)' <=> Held(u)
      /\ \A q \in Slots : Dist(q)' = Dist(q)
  BY <1>1, ShareRemoved
<1>3. ~Held(t)' /\ Held(t)
  BY <1>1, <1>2 DEF LastRef, Held
<1>4. /\ ~Alive(t)'
      /\ \A u \in Tasks \ {t} : (Alive(u)' <=> Alive(u)) /\ task'[u] = task[u]
  BY <1>1 DEF Alive, TypeOK
<1>5. TypeOK'
  BY <1>1, <1>2 DEF TypeOK
<1>6. Ownership'
  <2>1. \A u \in Tasks : cur # u
    BY <1>1, WheelAssumption
  <2> QED BY <1>1, <1>2, <1>3, <1>4, <2>1 DEF Ownership
<1>7. SharesWithin'
  <2> SUFFICES ASSUME NEW u \in Tasks, NEW q \in Slots, u \in wheel'[q]
               PROVE  Dist(q) + age[u] <= task'[u].timeout
    BY <1>1, <1>2 DEF SharesWithin
  <2>1. u # t
    BY <1>3 DEF Held
  <2> QED BY <1>2, <1>4, <2>1 DEF SharesWithin
<1>8. ShareOnTarget'
  <2> SUFFICES ASSUME ~closing, NEW u \in Tasks, Held(u)'
               PROVE  \E q \in Slots : u \in wheel'[q] /\ Dist(q) + age[u] = task'[u].timeout
    BY <1>1, <1>2 DEF ShareOnTarget
  <2> QED BY <1>2, <1>3, <1>4 DEF ShareOnTarget
<1>9. FiringInRound' /\ FiresOnSchedule'
  BY <1>1 DEF FiringInRound, FiresOnSchedule
<1>10. LagAccount'
  BY <1>1, <1>4 DEF LagAccount
<1> QED BY <1>5, <1>6, <1>7, <1>8, <1>9, <1>10

LEMMA CallbackReturnSchedule ==
  ASSUME ScheduleInv, CallbackReturn
  PROVE  ScheduleInv'
<1> USE DEF ScheduleInv
<1>1. /\ cur \in Tasks
      /\ task' = [task EXCEPT ![cur] = Free] /\ cur' = None
      /\ timers' = [timers EXCEPT ![task[cur].id] = None]
      /\ UNCHANGED <<tick, wheel, times, expirations, closing,
                     age, elapsed, lag, silenced>>
  BY DEF CallbackReturn, RemoveTimer, TypeOK
<1>2. /\ task'[cur] = Free
      /\ \A u \in Tasks \ {cur} : (Alive(u)' <=> Alive(u)) /\ task'[u] = task[u]
  BY <1>1, WheelAssumption DEF Alive, TypeOK
<1>3. \A u \in Tasks : Held(u)' <=> Held(u)
  BY <1>1 DEF Held
<1>4. \A q \in Slots : Dist(q)' = Dist(q)
  BY <1>1 DEF Dist
<1>5. ~Held(cur)
  BY <1>1, WheelAssumption DEF Ownership
<1>6. TypeOK'
  BY <1>1 DEF TypeOK
<1>7. Ownership'
  <2> SUFFICES ASSUME NEW u \in Tasks
               PROVE  Alive(u)' <=> Held(u)'
    BY <1>1, WheelAssumption DEF Ownership
  <2>1. CASE u = cur
    BY <2>1, <1>2, <1>3, <1>5 DEF Alive
  <2>2. CASE u # cur
    BY <2>2, <1>2, <1>3 DEF Ownership
  <2> QED BY <2>1, <2>2
<1>8. \A u \in Tasks, q \in Slots : u \in wheel[q] => u # cur
  BY <1>5 DEF Held
<1>9. SharesWithin'
  BY <1>1, <1>2, <1>4, <1>8 DEF SharesWithin
<1>10. ShareOnTarget'
  BY <1>1, <1>2, <1>3, <1>4, <1>5 DEF ShareOnTarget
<1>11. FiringInRound' /\ FiresOnSchedule'
  BY <1>1 DEF FiringInRound, FiresOnSchedule
<1>12. LagAccount'
  <2> SUFFICES ASSUME NEW u \in Tasks, Alive(u)'
               PROVE  \/ elapsed[u] > task'[u].timeout
                      \/ elapsed[u] + lag[u] = age[u] + expirations + times
    BY <1>1 DEF LagAccount
  <2>1. u # cur
    BY <1>2 DEF Alive
  <2> QED BY <2>1, <1>2 DEF LagAccount
<1> QED BY <1>6, <1>7, <1>9, <1>10, <1>11, <1>12

LEMMA AdvanceTickSchedule ==
  ASSUME ScheduleInv, AdvanceTick
  PROVE  ScheduleInv'
<1> USE DEF ScheduleInv
<1>1. /\ ~closing /\ times > 0 /\ cur = None /\ wheel[tick] = {}
      /\ times' = times - 1
      /\ age' = [t \in Tasks |-> IF Alive(t) THEN age[t] + 1 ELSE age[t]]
      /\ UNCHANGED <<wheel, timers, task, cur, expirations, closing,
                     elapsed, lag, silenced>>
  BY DEF AdvanceTick
<1>2. Capacity \in Nat /\ MaxBacklog \in Nat /\ None \notin Tasks
  BY WheelAssumption
<1>3. /\ tick' \in Slots
      /\ \A s \in Slots : s # tick => Dist(s)' = Dist(s) - 1 /\ Dist(s) \in Nat \ {0}
  <2>1. tick \in Slots
    BY DEF TypeOK
  <2>2. tick' \in Slots
    BY <2>1, AdvanceDist
  <2>3. ASSUME NEW s \in Slots, s # tick
        PROVE  Dist(s)' = Dist(s) - 1 /\ Dist(s) \in Nat \ {0}
    <3>1. Dist(s)' = Dist(s) - 1
      BY <2>3, AdvanceDist
    <3>2. Dist(s) \in 0 .. Capacity - 1 /\ Dist(s) # 0
      BY <2>3, DistType
    <3> QED BY <1>2, <3>1, <3>2
  <2> QED BY <2>2, <2>3
<1>4. \A t \in Tasks : /\ Held(t)' <=> Held(t)
                       /\ Alive(t)' <=> Alive(t)
                       /\ Alive(t) <=> Held(t)
                       /\ Held(t) => age'[t] = age[t] + 1
  BY <1>1, <1>2 DEF Held, Alive, Ownership
<1>5. \A t \in Tasks, s \in Slots : t \in wheel[s] => s # tick /\ Held(t)
  BY <1>1 DEF Held
<1>6. \A t \in Tasks : age[t] \in 0 .. Capacity /\ age[t] \in Nat
  BY <1>2 DEF TypeOK
<1>7. \A t \in Tasks : Held(t) => task[t].timeout \in 1 .. Capacity - 1 /\ task[t].timeout \in Nat
  BY <1>2, <1>4, AliveType
<1>8. \A t \in Tasks : Held(t) => age[t] < task[t].timeout
  <2> SUFFICES ASSUME NEW t \in Tasks, Held(t)
               PROVE  age[t] < task[t].timeout
    OBVIOUS
  <2>1. PICK s \in Slots : t \in wheel[s]
    BY DEF Held
  <2>2. Dist(s) + age[t] <= task[t].timeout /\ Dist(s) \in Nat \ {0}
    BY <2>1, <1>3, <1>5 DEF SharesWithin
  <2> QED BY <2>2, <1>6, <1>7
<1>9. \A t \in Tasks : age'[t] \in 0 .. Capacity
  <2> SUFFICES ASSUME NEW t \in Tasks
               PROVE  age'[t] \in 0 .. Capacity
    OBVIOUS
  <2>1. CASE Alive(t)
    <3>1. age'[t] = age[t] + 1 /\ age[t] < task[t].timeout
      BY <2>1, <1>4, <1>8
    <3>2. task[t].timeout \in 1 .. Capacity - 1
      BY <2>1, <1>4, <1>7
    <3> QED BY <3>1, <3>2, <1>2, <1>6
  <2>2. CASE ~Alive(t)
    BY <2>2, <1>1, <1>6
  <2> QED BY <2>1, <2>2
<1>10. TypeOK'
  <2>1. age' \in [Tasks -> 0 .. Capacity]
    BY <1>1, <1>9
  <2>2. times' \in 0 .. MaxBacklog
    BY <1>1, <1>2 DEF TypeOK
  <2> QED BY <1>1, <1>3, <2>1, <2>2 DEF TypeOK
<1>11. Ownership'
  BY <1>1, <1>4 DEF Ownership
<1>12. SharesWithin'
  <2> SUFFICES ASSUME NEW t \in Tasks, NEW s \in Slots, t \in wheel[s]
               PROVE  Dist(s)' + age'[t] <= task[t].timeout
    BY <1>1 DEF SharesWithin
  <2>1. Dist(s)' = Dist(s) - 1 /\ age'[t] = age[t] + 1 /\ Dist(s) \in Nat
    BY <1>3, <1>4, <1>5
  <2> QED BY <2>1, <1>6 DEF SharesWithin
<1>13. ShareOnTarget'
  <2> SUFFICES ASSUME NEW t \in Tasks, Held(t)
               PROVE  \E s \in Slots : t \in wheel[s] /\ Dist(s)' + age'[t] = task[t].timeout
    BY <1>1, <1>4 DEF ShareOnTarget
  <2>1. PICK s \in Slots : t \in wheel[s] /\ Dist(s) + age[t] = task[t].timeout
    BY <1>1 DEF ShareOnTarget
  <2>2. Dist(s)' = Dist(s) - 1 /\ age'[t] = age[t] + 1 /\ Dist(s) \in Nat
    BY <2>1, <1>3, <1>4, <1>5
  <2> QED BY <2>1, <2>2, <1>6
<1>14. FiringInRound' /\ FiresOnSchedule'
  BY <1>1 DEF FiringInRound, FiresOnSchedule
<1>15. LagAccount'
  <2> SUFFICES ASSUME NEW t \in Tasks, Alive(t)
               PROVE  \/ elapsed[t] > task[t].timeout
                      \/ elapsed[t] + lag[t] = age'[t] + expirations + times'
    BY <1>1, <1>4 DEF LagAccount
  <2>1. age'[t] = age[t] + 1 /\ times' = times - 1
    BY <1>1, <1>4
  <2>2. times \in Nat /\ expirations \in Nat
    BY <1>2 DEF TypeOK
  <2> QED BY <2>1, <2>2, <1>6 DEF LagAccount
<1> QED BY <1>10, <1>11, <1>12, <1>13, <1>14, <1>15

LEMMA TeardownSchedule ==
  ASSUME ScheduleInv, Teardown
  PROVE  ScheduleInv'
<1>1. TypeOK'
  BY DEF ScheduleInv, TypeOK, Teardown
<1> QED BY <1>1, FrameSchedule DEF Teardown, Alive

\* Every step preserves the invariant.
LEMMA ScheduleNext == ScheduleInv /\ [Next]_vars => ScheduleInv'
<1> SUFFICES ASSUME ScheduleInv, [Next]_vars
             PROVE  ScheduleInv'
  OBVIOUS
<1>1. CASE Client
  BY <1>1, AddSchedule, RefleshSchedule, ExpiredSchedule, CancelSchedule DEF Client
<1>2. CASE KernelTick
  BY <1>2, KernelTickSchedule
<1>3. CASE Wheel
  BY <1>3, OnTimeSchedule, DropRefSchedule, DestroyLiveSchedule,
     DestroyCancelledSchedule, CallbackReturnSchedule, AdvanceTickSchedule DEF Wheel, Release
<1>4. CASE Teardown
  BY <1>4, TeardownSchedule
<1>5. CASE UNCHANGED vars
  <2>1. UNCHANGED <<tick, wheel, timers, task, cur, times, expirations, closing,
                    age, elapsed, lag, silenced>>
    BY <1>5 DEF vars
  <2>2. TypeOK'
    BY <2>1 DEF ScheduleInv, TypeOK
  <2> QED BY <2>1, <2>2, FrameSchedule DEF Alive
<1>6. CASE Destroyed
  BY <1>5, <1>6 DEF Destroyed
<1> QED BY <1>1, <1>2, <1>3, <1>4, <1>5, <1>6 DEF Next

THEOREM ScheduleInvariant == Spec => []ScheduleInv
BY ScheduleInit, ScheduleNext, PTL DEF Spec

\* Every variable of the wheel keeps its type; in particular the hand and
\* the ages stay below the number of slots.
THEOREM TypeCorrect == Spec => []TypeOK
<1>1. ScheduleInv => TypeOK
  BY DEF ScheduleInv
<1> QED BY <1>1, ScheduleInvariant, PTL

\* A callback runs exactly its delay after the last arming or refresh,
\* counted in slots, for wheels and backlogs of every size.
THEOREM OnSchedule == Spec => []FiresOnSchedule
<1>1. ScheduleInv => FiresOnSchedule
  BY DEF ScheduleInv
<1> QED BY <1>1, ScheduleInvariant, PTL

\* In seconds it is early by no more than the backlog its arming found.
THEOREM EarlyBounded == Spec => []EarlyByLagOnly
<1>1. ScheduleInv => EarlyByLagOnly
  <2> SUFFICES ASSUME ScheduleInv, cur # None, ~closing
               PROVE  elapsed[cur] + lag[cur] > task[cur].timeout
    BY DEF EarlyByLagOnly
  <2> USE DEF ScheduleInv
  <2>1. cur \in Tasks /\ Alive(cur)
    BY DEF TypeOK, Ownership
  <2>2. times > 0 /\ age[cur] = task[cur].timeout
    BY DEF FiringInRound, FiresOnSchedule
  <2>3. /\ elapsed[cur] \in Nat /\ lag[cur] \in Nat /\ age[cur] \in Nat
        /\ times \in Nat /\ expirations \in Nat
    BY <2>1, WheelAssumption DEF TypeOK
  <2> QED BY <2>1, <2>2, <2>3 DEF LagAccount
<1> QED BY <1>1, ScheduleInvariant, PTL

-----------------------------------------------------------------------------
(* The index, for callers that keep one task per id.  IndexExact is not    *)
(* inductive without the uniqueness of ids, because a destructor removes   *)
(* the entry of its id, whoever it belongs to.                             *)

UniqueIds == \A t, u \in Tasks :
    Alive(t) /\ Alive(u) /\ t # u => task[t].id # task[u].id

SilencedCancelled == \A t \in Tasks :
    Alive(t) /\ task[t].id \in silenced => task[t].cancel = TRUE

RunsUncancelled == cur # None => task[cur].cancel = FALSE

IndexInv == IndexExact /\ UniqueIds /\ SilencedCancelled /\ RunsUncancelled

LEMMA IndexInit == Init => IndexInv
BY DEF Init, IndexInv, IndexExact, UniqueIds, SilencedCancelled, RunsUncancelled,
   HasTimer, Alive

LEMMA AddIndex ==
  ASSUME FreshIds, ScheduleInv, IndexInv,
         NEW t \in Tasks, NEW i \in Ids, NEW d \in Delays, TimerAdd(t, i, d)
  PROVE  IndexInv'
<1> DEFINE new == [id |-> i, timeout |-> d, cancel |-> FALSE]
<1>1. /\ ~Alive(t) /\ timers[i] = None /\ (cur # None => task[cur].id # i)
      /\ timers' = [timers EXCEPT ![i] = t]
      /\ silenced' = silenced \ {i} /\ cur' = cur
      /\ task' = [task EXCEPT ![t] = new]
  BY DEF TimerAdd, MayAdd, HasTimer
<1>2. new.id = i /\ new.cancel = FALSE /\ new # Free
  <2>1. new \in TaskState
    BY WheelAssumption DEF TimerAdd, TaskState
  <2> QED BY <2>1, WheelAssumption
<1> HIDE DEF new
<1>3. TypeOK /\ Ownership /\ None \notin Tasks
  BY WheelAssumption DEF ScheduleInv
<1>4. /\ task'[t] = new
      /\ \A u \in Tasks \ {t} : task'[u] = task[u]
      /\ timers'[i] = t
      /\ \A j \in Ids \ {i} : timers'[j] = timers[j]
  BY <1>1, <1>3 DEF TypeOK
<1>5. t # cur
  BY <1>1, <1>3 DEF Ownership
<1>6. \A u \in Tasks \ {t} : Alive(u) => task[u].id # i /\ task[u].id \in Ids
  <2> SUFFICES ASSUME NEW u \in Tasks \ {t}, Alive(u)
               PROVE  task[u].id # i /\ task[u].id \in Ids
    OBVIOUS
  <2>1. CASE u = cur
    BY <2>1, <1>1, <1>3, AliveType
  <2>2. CASE u # cur
    BY <2>2, <1>1, <1>3, AliveType DEF IndexInv, IndexExact
  <2> QED BY <2>1, <2>2
<1>7. IndexExact'
  <2>1. ASSUME NEW j \in Ids, timers'[j] # None
        PROVE  task'[timers'[j]] # Free /\ task'[timers'[j]].id = j
    <3>1. CASE j = i
      BY <3>1, <1>2, <1>4
    <3>2. CASE j # i
      <4>1. timers[j] \in Tasks /\ Alive(timers[j]) /\ task[timers[j]].id = j
        BY <2>1, <3>2, <1>3, <1>4 DEF IndexInv, IndexExact, HasTimer, TypeOK
      <4> QED BY <4>1, <3>2, <1>1, <1>4 DEF Alive
    <3> QED BY <3>1, <3>2
  <2>2. ASSUME NEW u \in Tasks, task'[u] # Free, u # cur
        PROVE  timers'[task'[u].id] = u
    <3>1. CASE u = t
      BY <3>1, <1>2, <1>4
    <3>2. CASE u # t
      BY <3>2, <2>2, <1>4, <1>6 DEF IndexInv, IndexExact, Alive
    <3> QED BY <3>1, <3>2
  <2> QED BY <2>1, <2>2, <1>1 DEF IndexExact, HasTimer, Alive
<1>8. UniqueIds'
  BY <1>2, <1>4, <1>6 DEF UniqueIds, IndexInv, Alive
<1>9. SilencedCancelled'
  BY <1>1, <1>2, <1>4, <1>6 DEF SilencedCancelled, IndexInv, Alive
<1>10. RunsUncancelled'
  BY <1>1, <1>3, <1>4, <1>5 DEF RunsUncancelled, IndexInv, TypeOK
<1> QED BY <1>7, <1>8, <1>9, <1>10 DEF IndexInv

LEMMA ExpiredIndex ==
  ASSUME ScheduleInv, IndexInv, NEW i \in Ids, TimerRefleshExpired(i)
  PROVE  IndexInv'
<1>1. /\ timers[i] # None /\ ~Held(timers[i])
      /\ timers' = [timers EXCEPT ![i] = None]
      /\ UNCHANGED <<task, cur, silenced>>
  BY DEF TimerRefleshExpired, HasTimer, RemoveTimer
<1>2. TypeOK /\ Ownership
  BY DEF ScheduleInv
<1>3. timers[i] = cur /\ task[cur].id = i
  BY <1>1, <1>2 DEF IndexInv, IndexExact, HasTimer, TypeOK, Ownership
<1>4. cur \in Tasks /\ Alive(cur)
  BY <1>1, <1>2, <1>3, WheelAssumption DEF TypeOK, Ownership
<1>5. \A u \in Tasks : Alive(u) /\ u # cur => task[u].id # i
  BY <1>3, <1>4 DEF IndexInv, UniqueIds
<1>6. IndexExact'
  <2>1. \A j \in Ids \ {i} : timers'[j] = timers[j]
    BY <1>1, <1>2 DEF TypeOK
  <2>2. timers'[i] = None
    BY <1>1, <1>2 DEF TypeOK
  <2>3. \A u \in Tasks : Alive(u) => task[u].id \in Ids
    BY <1>2, AliveType
  <2> QED BY <1>1, <1>5, <2>1, <2>2, <2>3 DEF IndexInv, IndexExact, HasTimer, Alive
<1> QED BY <1>1, <1>6 DEF IndexInv, UniqueIds, SilencedCancelled, RunsUncancelled, Alive

LEMMA CancelIndex ==
  ASSUME ScheduleInv, IndexInv, NEW i \in Ids, TimerCancel(i)
  PROVE  IndexInv'
<1> DEFINE t == timers[i]
           new == [task[t] EXCEPT !.cancel = TRUE]
<1>1. /\ t # None /\ Held(t) /\ task' = [task EXCEPT ![t] = new]
      /\ silenced' = silenced \cup {i}
      /\ UNCHANGED <<timers, cur>>
  BY DEF TimerCancel, HasTimer
<1>2. TypeOK /\ Ownership
  BY DEF ScheduleInv
<1>3. t \in Tasks /\ Alive(t) /\ task[t].id = i
  BY <1>1, <1>2 DEF IndexInv, IndexExact, HasTimer, TypeOK
<1>4. t # cur
  BY <1>1, <1>2, <1>3, WheelAssumption DEF Ownership
<1>5. new \in TaskState /\ new.cancel = TRUE /\ new.id = i
  BY <1>2, <1>3, AliveType DEF TaskState
<1>6. new # Free
  BY <1>5, WheelAssumption
<1> HIDE DEF t, new
<1>7. /\ task'[t] = new
      /\ \A u \in Tasks \ {t} : task'[u] = task[u]
  BY <1>1, <1>2, <1>3 DEF TypeOK
<1>8. \A u \in Tasks : (Alive(u)' <=> Alive(u)) /\ (Alive(u) => task'[u].id = task[u].id)
  BY <1>3, <1>5, <1>6, <1>7 DEF Alive
<1>9. IndexExact'
  <2>1. \A j \in Ids : timers[j] # None => timers[j] \in Tasks
    BY <1>2 DEF TypeOK
  <2> QED BY <1>1, <1>8, <2>1 DEF IndexInv, IndexExact, HasTimer
<1>10. UniqueIds'
  BY <1>8 DEF IndexInv, UniqueIds
<1>11. SilencedCancelled'
  <2> SUFFICES ASSUME NEW u \in Tasks, Alive(u)', task'[u].id \in silenced'
               PROVE  task'[u].cancel = TRUE
    BY DEF SilencedCancelled
  <2>1. CASE u = t
    BY <2>1, <1>5, <1>7
  <2>2. CASE u # t
    <3>1. Alive(u) /\ task[u].id # i /\ task'[u] = task[u]
      BY <2>2, <1>3, <1>7, <1>8 DEF IndexInv, UniqueIds
    <3>2. task[u].id \in silenced
      BY <3>1, <1>1
    <3> QED BY <3>1, <3>2 DEF IndexInv, SilencedCancelled
  <2> QED BY <2>1, <2>2
<1>12. RunsUncancelled'
  BY <1>1, <1>2, <1>4, <1>7 DEF IndexInv, RunsUncancelled, TypeOK
<1> QED BY <1>9, <1>10, <1>11, <1>12 DEF IndexInv

\* The end of a task: its own entry goes, and no other.
LEMMA DeathIndex ==
  ASSUME ScheduleInv, IndexInv, NEW t \in Tasks, Alive(t), t = cur \/ cur = None,
         timers' = [timers EXCEPT ![task[t].id] = None],
         task' = [task EXCEPT ![t] = Free],
         cur' = None, silenced' = silenced
  PROVE  IndexInv'
<1>1. TypeOK /\ None \notin Tasks
  BY WheelAssumption DEF ScheduleInv
<1>2. /\ task'[t] = Free
      /\ \A u \in Tasks \ {t} : task'[u] = task[u]
  BY <1>1 DEF TypeOK
<1>3. task[t].id \in Ids
  BY <1>1, AliveType
<1>4. /\ timers'[task[t].id] = None
      /\ \A j \in Ids \ {task[t].id} : timers'[j] = timers[j]
  BY <1>1, <1>3 DEF TypeOK
<1>5. \A u \in Tasks \ {t} : Alive(u) => task[u].id # task[t].id /\ task[u].id \in Ids
  BY <1>1, AliveType DEF IndexInv, UniqueIds
<1>6. IndexExact'
  <2>1. ASSUME NEW j \in Ids, timers'[j] # None
        PROVE  task'[timers'[j]] # Free /\ task'[timers'[j]].id = j
    <3>1. j # task[t].id /\ timers[j] \in Tasks
      BY <2>1, <1>1, <1>4 DEF TypeOK
    <3>2. Alive(timers[j]) /\ task[timers[j]].id = j
      BY <2>1, <3>1, <1>4 DEF IndexInv, IndexExact, HasTimer
    <3> QED BY <3>1, <3>2, <1>2, <1>4 DEF Alive
  <2>2. ASSUME NEW u \in Tasks, task'[u] # Free
        PROVE  timers'[task'[u].id] = u
    <3>1. u # t /\ u # cur
      BY <2>2, <1>1, <1>2
    <3> QED BY <2>2, <3>1, <1>2, <1>4, <1>5 DEF IndexInv, IndexExact, Alive
  <2> QED BY <2>1, <2>2 DEF IndexExact, HasTimer, Alive
<1> QED BY <1>2, <1>6 DEF IndexInv, UniqueIds, SilencedCancelled, RunsUncancelled, Alive

\* Steps that leave the tasks, the index and the silenced ids alone.
LEMMA FrameIndex ==
  ASSUME IndexInv, timers' = timers, task' = task, silenced' = silenced,
         cur' # cur => cur' # None /\ task[cur'].cancel = FALSE /\ cur = None
  PROVE  IndexInv'
<1>1. IndexExact'
  <2>1. \A t \in Tasks : t # cur' => t # cur \/ cur = None
    OBVIOUS
  <2> QED BY <2>1, WheelAssumption DEF IndexInv, IndexExact, HasTimer, Alive
<1>2. UniqueIds' /\ SilencedCancelled'
  BY DEF IndexInv, UniqueIds, SilencedCancelled, Alive
<1>3. RunsUncancelled'
  BY DEF IndexInv, RunsUncancelled
<1> QED BY <1>1, <1>2, <1>3 DEF IndexInv

LEMMA IndexNext ==
  ASSUME FreshIds, ScheduleInv, IndexInv, [Next]_vars
  PROVE  IndexInv'
<1>1. TypeOK /\ Ownership /\ None \notin Tasks
  BY WheelAssumption DEF ScheduleInv
<1>2. CASE Client
  <2>1. ASSUME NEW i \in Ids, TimerReflesh(i)
        PROVE  IndexInv'
    BY <2>1, FrameIndex DEF TimerReflesh
  <2> QED BY <1>2, <2>1, AddIndex, ExpiredIndex, CancelIndex DEF Client
<1>3. CASE Wheel
  <2>1. CASE OnTime
    BY <2>1, FrameIndex DEF OnTime
  <2>2. ASSUME NEW s \in Slots, NEW t \in Tasks, DropRef(s, t)
        PROVE  IndexInv'
    BY <2>2, FrameIndex DEF DropRef
  <2>3. ASSUME NEW s \in Slots, NEW t \in Tasks, t \in wheel[s]
        PROVE  Alive(t) /\ task[t].cancel \in BOOLEAN
    BY <2>3, <1>1, AliveType DEF Ownership, Held
  <2>4. ASSUME NEW s \in Slots, NEW t \in Tasks, DestroyLive(s, t)
        PROVE  IndexInv'
    BY <2>3, <2>4, FrameIndex DEF DestroyLive
  <2>5. ASSUME NEW s \in Slots, NEW t \in Tasks, DestroyCancelled(s, t)
        PROVE  IndexInv'
    BY <2>3, <2>5, DeathIndex DEF DestroyCancelled, RemoveTimer
  <2>6. CASE CallbackReturn
    <3>1. cur \in Tasks /\ Alive(cur)
      BY <2>6, <1>1 DEF CallbackReturn, TypeOK, Ownership
    <3> QED BY <2>6, <3>1, DeathIndex DEF CallbackReturn, RemoveTimer
  <2>7. CASE AdvanceTick
    BY <2>7, FrameIndex DEF AdvanceTick
  <2> QED BY <1>3, <2>1, <2>2, <2>4, <2>5, <2>6, <2>7 DEF Wheel, Release
<1>4. CASE KernelTick
  BY <1>4, FrameIndex DEF KernelTick
<1>5. CASE Teardown
  BY <1>5, FrameIndex DEF Teardown
<1>6. CASE UNCHANGED vars \/ Destroyed
  BY <1>6, FrameIndex DEF vars, Destroyed
<1> QED BY <1>2, <1>3, <1>4, <1>5, <1>6 DEF Next

LEMMA IndexInvariant ==
  ASSUME FreshIds
  PROVE  Spec => []IndexInv
<1>1. IndexInv /\ ScheduleInv /\ [Next]_vars => IndexInv'
  BY IndexNext
<1> QED BY <1>1, IndexInit, ScheduleInvariant, PTL DEF Spec

\* As long as callers keep one task per id, _timers names exactly the tasks
\* that exist: no refresh or cancel ever misses its task.
THEOREM IndexCorrect ==
  ASSUME FreshIds
  PROVE  Spec => []WheelInv
<1>1. TypeOK /\ IndexInv => WheelInv
  BY DEF IndexInv, WheelInv
<1> QED BY <1>1, TypeCorrect, IndexInvariant, PTL

\* A cancelled id stays silent until it is armed again.
THEOREM CancelCorrect ==
  ASSUME FreshIds
  PROVE  Spec => []CancelledStaysSilent
<1>1. IndexInv /\ ScheduleInv => CancelledStaysSilent
  <2> SUFFICES ASSUME IndexInv, ScheduleInv, cur # None
               PROVE  task[cur].id \notin silenced
    BY DEF CancelledStaysSilent
  <2>1. cur \in Tasks /\ Alive(cur)
    BY DEF ScheduleInv, TypeOK, Ownership
  <2> QED BY <2>1 DEF IndexInv, SilencedCancelled, RunsUncancelled
<1> QED BY <1>1, IndexInvariant, ScheduleInvariant, PTL

-----------------------------------------------------------------------------
(* The wheel implements the countdown service.                             *)

\* What Service puts in the place of left, delay and muted.
Left == [t \in Tasks |-> IF Held(t) THEN task[t].timeout - age[t] ELSE -1]
Delay == [t \in Tasks |-> IF Alive(t) THEN task[t].timeout ELSE 0]
Muted == {t \in Tasks : Alive(t) /\ task[t].cancel}

\* The rounds a held task has left.
LEMMA LeftOfHeld ==
  ASSUME ScheduleInv, NEW t \in Tasks, Held(t)
  PROVE  /\ Alive(t) /\ t # cur /\ age[t] \in Nat /\ task[t].timeout \in 1 .. Capacity - 1
         /\ Left[t] = task[t].timeout - age[t] /\ Left[t] \in Nat
<1>1. Alive(t) /\ t # cur /\ TypeOK
  BY WheelAssumption DEF ScheduleInv, Ownership, TypeOK
<1>2. age[t] \in Nat /\ Capacity \in Nat
  BY <1>1, WheelAssumption DEF TypeOK
<1>3. task[t].timeout \in 1 .. Capacity - 1
  BY <1>1, AliveType
<1>4. PICK s \in Slots : t \in wheel[s]
  BY DEF Held
<1>5. Dist(s) + age[t] <= task[t].timeout /\ Dist(s) \in Nat
  BY <1>1, <1>4, DistType, WheelAssumption DEF ScheduleInv, SharesWithin
<1>6. Left[t] = task[t].timeout - age[t]
  BY DEF Left
<1> QED BY <1>1, <1>2, <1>3, <1>5, <1>6

\* A call or a step that does not concern the service.
LEMMA ServiceStutters ==
  ASSUME \A t \in Tasks : Held(t)' <=> Held(t),
         UNCHANGED <<task, age, cur, times, closing>>
  PROVE  UNCHANGED Service!vars
<1>1. Left' = Left
  BY DEF Left
<1>2. Delay' = Delay /\ Muted' = Muted
  BY DEF Delay, Muted, Alive
<1> QED BY <1>1, <1>2 DEF Service!vars, Left, Delay, Muted

LEMMA AddService ==
  ASSUME ScheduleInv, NEW t \in Tasks, NEW i \in Ids, NEW d \in Delays, TimerAdd(t, i, d)
  PROVE  d \in 1 .. Capacity - 1 /\ Service!Arm(t, d)
<1> DEFINE new == [id |-> i, timeout |-> d, cancel |-> FALSE]
<1>1. /\ CanCall /\ ~Alive(t) /\ d \in 1 .. Capacity - 1
      /\ task' = [task EXCEPT ![t] = new]
      /\ wheel' = [wheel EXCEPT ![SlotFor(d)] = @ \cup {t}]
      /\ age' = [age EXCEPT ![t] = 0]
      /\ UNCHANGED <<tick, cur, times, expirations, closing>>
  BY WheelAssumption DEF TimerAdd, Push
<1>2. TypeOK /\ ~Held(t) /\ t # cur
  BY <1>1 DEF ScheduleInv, Ownership
<1>3. SlotFor(d) \in Slots
  BY <1>1, <1>2, SlotForDist
<1>4. new \in TaskState
  BY <1>1 DEF TaskState
<1>5. /\ task'[t] = new /\ age'[t] = 0 /\ new.timeout = d /\ new.cancel = FALSE
      /\ \A u \in Tasks \ {t} : task'[u] = task[u] /\ age'[u] = age[u]
  BY <1>1, <1>2 DEF TypeOK
<1> HIDE DEF new
<1>6. Held(t)' /\ Alive(t)' /\ \A u \in Tasks \ {t} : Held(u)' <=> Held(u)
  <2>1. /\ t \in wheel'[SlotFor(d)]
        /\ \A u \in Tasks \ {t}, s \in Slots : u \in wheel'[s] <=> u \in wheel[s]
    BY <1>1, <1>2, <1>3 DEF TypeOK
  <2> QED BY <1>3, <1>4, <1>5, <2>1, WheelAssumption DEF Held, Alive
<1>7. Left' = [Left EXCEPT ![t] = d]
  <2>1. task'[t].timeout - age'[t] = d
    BY <1>1, <1>5
  <2>2. \A u \in Tasks \ {t} : task'[u].timeout - age'[u] = task[u].timeout - age[u]
    BY <1>5
  <2> QED BY <1>6, <2>1, <2>2 DEF Left
<1>8. Delay' = [Delay EXCEPT ![t] = d]
  BY <1>5, <1>6 DEF Delay, Alive
<1>9. Muted' = Muted
  BY <1>1, <1>5, <1>6 DEF Muted, Alive
<1>10. Left[t] = -1
  BY <1>2 DEF Left
<1> QED BY <1>1, <1>2, <1>7, <1>8, <1>9, <1>10
        DEF Service!Arm, Service!Callable, Service!Off, CanCall, Left, Delay, Muted

LEMMA RefleshService ==
  ASSUME ScheduleInv, NEW i \in Ids, TimerReflesh(i)
  PROVE  \E t \in Tasks : Service!Rearm(t)
<1>0. PICK t \in Tasks : t = timers[i]
  BY DEF TimerReflesh, HasTimer, ScheduleInv, TypeOK
<1> DEFINE d == task[t].timeout
<1>1. /\ CanCall /\ Held(t)
      /\ wheel' = [wheel EXCEPT ![SlotFor(d)] = @ \cup {t}]
      /\ age' = [age EXCEPT ![t] = 0]
      /\ UNCHANGED <<task, cur, times, closing>>
  BY <1>0 DEF TimerReflesh, Push
<1>2. /\ TypeOK /\ Alive(t) /\ d \in 1 .. Capacity - 1 /\ Left[t] \in Nat
  BY <1>1, LeftOfHeld DEF ScheduleInv
<1>3. SlotFor(d) \in Slots
  BY <1>2, SlotForDist
<1> HIDE DEF d
<1>4. age'[t] = 0 /\ \A u \in Tasks \ {t} : age'[u] = age[u]
  BY <1>1, <1>2 DEF TypeOK
<1>5. Held(t)' /\ \A u \in Tasks \ {t} : Held(u)' <=> Held(u)
  <2>1. /\ t \in wheel'[SlotFor(d)]
        /\ \A u \in Tasks \ {t}, s \in Slots : u \in wheel'[s] <=> u \in wheel[s]
    BY <1>1, <1>2, <1>3 DEF TypeOK
  <2> QED BY <1>3, <2>1 DEF Held
<1>6. Delay[t] = d /\ Delay' = Delay /\ Muted' = Muted
  BY <1>1, <1>2 DEF Delay, Muted, Alive, d
<1>7. Left' = [Left EXCEPT ![t] = Delay[t]]
  <2>1. task'[t].timeout - age'[t] = d
    BY <1>1, <1>2, <1>4 DEF d
  <2>2. \A u \in Tasks \ {t} : task'[u].timeout - age'[u] = task[u].timeout - age[u]
    BY <1>1, <1>4
  <2> QED BY <1>5, <1>6, <2>1, <2>2 DEF Left
<1>8. Left[t] # -1
  BY <1>2
<1>9. Service!Rearm(t)
  BY <1>1, <1>6, <1>7, <1>8
     DEF Service!Rearm, Service!Callable, Service!Off, CanCall, Left, Delay, Muted
<1> QED BY <1>9

LEMMA CancelService ==
  ASSUME ScheduleInv, NEW i \in Ids, TimerCancel(i)
  PROVE  \E t \in Tasks : Service!Mute(t)
<1>0. PICK t \in Tasks : t = timers[i]
  BY DEF TimerCancel, HasTimer, ScheduleInv, TypeOK
<1>1. /\ CanCall /\ Held(t)
      /\ task' = [task EXCEPT ![t].cancel = TRUE]
      /\ UNCHANGED <<wheel, age, cur, times, closing>>
  BY <1>0 DEF TimerCancel
<1>2. TypeOK /\ Alive(t) /\ Left[t] \in Nat
  BY <1>1, LeftOfHeld DEF ScheduleInv
<1>3. task[t] \in TaskState
  BY <1>1, <1>2, AliveType
<1>4. /\ task'[t] \in TaskState /\ task'[t].timeout = task[t].timeout /\ task'[t].cancel = TRUE
      /\ \A u \in Tasks \ {t} : task'[u] = task[u]
  BY <1>1, <1>2, <1>3 DEF TypeOK, TaskState
<1>5. \A u \in Tasks : (Alive(u)' <=> Alive(u)) /\ (Held(u)' <=> Held(u))
  BY <1>1, <1>2, <1>4, WheelAssumption DEF Alive, Held
<1>6. Left' = Left
  BY <1>1, <1>4, <1>5 DEF Left
<1>7. Delay' = Delay
  BY <1>4, <1>5 DEF Delay
<1>8. Muted' = Muted \cup {t}
  BY <1>1, <1>2, <1>4, <1>5 DEF Muted
<1>9. Left[t] # -1
  BY <1>2
<1>10. Service!Mute(t)
  BY <1>1, <1>6, <1>7, <1>8, <1>9
     DEF Service!Mute, Service!Callable, Service!Off, CanCall, Left, Delay, Muted
<1> QED BY <1>10

\* A task is due when its last share goes.
LEMMA LastShareDue ==
  ASSUME ScheduleInv, NEW s \in Slots, NEW t \in Tasks, t \in wheel[s],
         LastRef(s, t), s \in Clearing
  PROVE  Held(t) /\ t \in Service!Due
<1>1. Held(t)
  BY DEF Held
<1>2. Left[t] \in Nat /\ Left[t] = task[t].timeout - age[t] /\ age[t] \in Nat
      /\ task[t].timeout \in Nat
  BY <1>1, LeftOfHeld
<1>3. CASE closing
  BY <1>2, <1>3 DEF Service!Due, Service!Off, Left
<1>4. CASE ~closing
  <2>1. age[t] = task[t].timeout /\ times > 0
    BY <1>4, LastShareOnTarget
  <2>2. Left[t] = 0
    BY <1>2, <2>1
  <2> QED BY <1>4, <2>1, <2>2 DEF Service!Due, Left
<1> QED BY <1>1, <1>3, <1>4

LEMMA DropRefService ==
  ASSUME ScheduleInv, NEW s \in Slots, NEW t \in Tasks, DropRef(s, t)
  PROVE  UNCHANGED Service!vars
<1>1. /\ t \in wheel[s] /\ ~LastRef(s, t) /\ wheel' = [wheel EXCEPT ![s] = @ \ {t}]
      /\ UNCHANGED <<tick, task, age, cur, times, closing>>
  BY DEF DropRef
<1>2. PICK r \in Slots : t \in wheel[r] /\ r # s
  BY <1>1 DEF LastRef
<1>3. /\ \A u \in Tasks \ {t} : Held(u)' <=> Held(u)
      /\ Held(t)' <=> \E q \in Slots \ {s} : t \in wheel[q]
  BY <1>1, ShareRemoved DEF ScheduleInv
<1>4. Held(t) /\ Held(t)'
  BY <1>1, <1>2, <1>3 DEF Held
<1>5. \A u \in Tasks : Held(u)' <=> Held(u)
  BY <1>3, <1>4
<1> QED BY <1>1, <1>5, ServiceStutters

\* The share that goes was the only one.
LEMMA LastShareRemoved ==
  ASSUME ScheduleInv, NEW s \in Slots, NEW t \in Tasks, t \in wheel[s], LastRef(s, t),
         wheel' = [wheel EXCEPT ![s] = @ \ {t}], tick' = tick
  PROVE  ~Held(t)' /\ \A u \in Tasks \ {t} : Held(u)' <=> Held(u)
<1>1. /\ \A u \in Tasks \ {t} : Held(u)' <=> Held(u)
      /\ Held(t)' <=> \E q \in Slots \ {s} : t \in wheel[q]
  BY ShareRemoved DEF ScheduleInv
<1> QED BY <1>1 DEF LastRef

LEMMA DestroyLiveService ==
  ASSUME ScheduleInv, NEW s \in Slots, NEW t \in Tasks, DestroyLive(s, t)
  PROVE  Service!Fire(t)
<1>1. /\ cur = None /\ s \in Clearing /\ t \in wheel[s] /\ LastRef(s, t) /\ ~task[t].cancel
      /\ wheel' = [wheel EXCEPT ![s] = @ \ {t}] /\ cur' = t
      /\ UNCHANGED <<tick, task, age, times, closing>>
  BY DEF DestroyLive
<1>2. Held(t) /\ t \in Service!Due
  BY <1>1, LastShareDue
<1>3. ~Held(t)' /\ \A u \in Tasks \ {t} : Held(u)' <=> Held(u)
  BY <1>1, LastShareRemoved
<1>4. Left' = [Left EXCEPT ![t] = -1]
  BY <1>1, <1>3 DEF Left
<1>5. Delay' = Delay /\ Muted' = Muted /\ t \notin Muted
  BY <1>1 DEF Delay, Muted, Alive
<1> QED BY <1>1, <1>2, <1>4, <1>5 DEF Service!Fire, Service!Off, Left, Delay, Muted

LEMMA DestroyCancelledService ==
  ASSUME ScheduleInv, NEW s \in Slots, NEW t \in Tasks, DestroyCancelled(s, t)
  PROVE  Service!Discard(t)
<1>1. /\ cur = None /\ s \in Clearing /\ t \in wheel[s] /\ LastRef(s, t) /\ task[t].cancel
      /\ wheel' = [wheel EXCEPT ![s] = @ \ {t}] /\ task' = [task EXCEPT ![t] = Free]
      /\ UNCHANGED <<tick, age, cur, times, closing>>
  BY DEF DestroyCancelled
<1>2. Held(t) /\ t \in Service!Due /\ Alive(t)
  BY <1>1, LastShareDue, LeftOfHeld
<1>3. ~Held(t)' /\ \A u \in Tasks \ {t} : Held(u)' <=> Held(u)
  BY <1>1, LastShareRemoved
<1>4. task'[t] = Free /\ \A u \in Tasks \ {t} : task'[u] = task[u]
  BY <1>1 DEF ScheduleInv, TypeOK
<1>5. Left' = [Left EXCEPT ![t] = -1]
  <2>1. \A u \in Tasks \ {t} : task'[u].timeout - age'[u] = task[u].timeout - age[u]
    BY <1>1, <1>4
  <2> QED BY <1>3, <2>1 DEF Left
<1>6. Delay' = [Delay EXCEPT ![t] = 0]
  BY <1>4 DEF Delay, Alive
<1>7. t \in Muted /\ Muted' = Muted \ {t}
  BY <1>1, <1>2, <1>4 DEF Muted, Alive
<1> QED BY <1>1, <1>2, <1>5, <1>6, <1>7 DEF Service!Discard, Service!Off, Left, Delay, Muted

LEMMA CallbackReturnService ==
  ASSUME ScheduleInv, RunsUncancelled, CallbackReturn
  PROVE  \E t \in Tasks : Service!Return(t)
<1>0. PICK t \in Tasks : t = cur
  BY DEF CallbackReturn, ScheduleInv, TypeOK
<1>1. /\ task' = [task EXCEPT ![t] = Free] /\ cur' = None
      /\ UNCHANGED <<wheel, age, times, closing>>
  BY <1>0 DEF CallbackReturn
<1>2. ~Held(t) /\ task[t].cancel = FALSE
  BY <1>0, WheelAssumption DEF ScheduleInv, Ownership, RunsUncancelled
<1>3. task'[t] = Free /\ \A u \in Tasks \ {t} : task'[u] = task[u]
  BY <1>1, <1>2 DEF ScheduleInv, TypeOK
<1>4. \A u \in Tasks : Held(u)' <=> Held(u)
  BY <1>1 DEF Held
<1>5. Left' = Left
  BY <1>1, <1>2, <1>3, <1>4 DEF Left
<1>6. Delay' = [Delay EXCEPT ![t] = 0]
  BY <1>3 DEF Delay, Alive
<1>7. Muted' = Muted
  BY <1>2, <1>3 DEF Muted, Alive
<1>8. Service!Return(t)
  BY <1>0, <1>1, <1>5, <1>6, <1>7 DEF Service!Return, Left, Delay, Muted
<1> QED BY <1>8

\* When the slot of the hand is empty nobody is due.
LEMMA AdvanceTickService ==
  ASSUME ScheduleInv, AdvanceTick
  PROVE  Service!Round
<1>1. /\ ~closing /\ times > 0 /\ cur = None /\ wheel[tick] = {}
      /\ times' = times - 1 /\ age' = [t \in Tasks |-> IF Alive(t) THEN age[t] + 1 ELSE age[t]]
      /\ UNCHANGED <<wheel, task, cur, closing>>
  BY DEF AdvanceTick
<1>2. ASSUME NEW t \in Tasks, Held(t)
      PROVE  Left[t] # 0
  <2>1. PICK s \in Slots : t \in wheel[s] /\ Dist(s) + age[t] = task[t].timeout
    BY <1>1, <1>2 DEF ScheduleInv, ShareOnTarget
  <2>2. Dist(s) \in Nat /\ Dist(s) # 0
    BY <1>1, <2>1, DistType, WheelAssumption DEF ScheduleInv
  <2>3. Left[t] = task[t].timeout - age[t] /\ age[t] \in Nat /\ task[t].timeout \in Nat
    BY <1>2, LeftOfHeld
  <2> QED BY <2>1, <2>2, <2>3
<1>3. \A t \in Tasks : ~Held(t) => Left[t] = -1
  BY DEF Left
<1>4. Service!Due = {}
  <2>1. \A t \in Tasks : Left[t] # 0
    BY <1>2, <1>3
  <2> QED BY <1>1, <2>1 DEF Service!Due, Left
<1>5. \A t \in Tasks : Held(t)' <=> Held(t)
  BY <1>1 DEF Held
<1>6. Left' = [t \in Tasks |-> IF Left[t] = -1 THEN -1 ELSE Left[t] - 1]
  <2>1. ASSUME NEW t \in Tasks
        PROVE  (IF Held(t)' THEN task'[t].timeout - age'[t] ELSE -1)
                   = IF Left[t] = -1 THEN -1 ELSE Left[t] - 1
    <3>1. CASE Held(t)
      <4>1. /\ Alive(t) /\ age[t] \in Nat /\ task[t].timeout \in Nat
            /\ Left[t] = task[t].timeout - age[t] /\ Left[t] \in Nat
        BY <3>1, LeftOfHeld
      <4>2. age'[t] = age[t] + 1 /\ task'[t] = task[t]
        BY <1>1, <4>1
      <4> QED BY <1>5, <3>1, <4>1, <4>2
    <3>2. CASE ~Held(t)
      BY <1>3, <1>5, <3>2
    <3> QED BY <3>1, <3>2
  <2>2. Left' = [t \in Tasks |-> IF Held(t)' THEN task'[t].timeout - age'[t] ELSE -1]
    BY DEF Left
  <2> HIDE DEF Left
  <2> QED BY <2>1, <2>2
<1>7. Delay' = Delay /\ Muted' = Muted
  BY <1>1 DEF Delay, Muted, Alive
<1> QED BY <1>1, <1>4, <1>6, <1>7 DEF Service!Round, Service!Off, Left, Delay, Muted

\* What runs was not cancelled: the weak pointer of a running task has expired.
LEMMA RunsUncancelledNext ==
  ASSUME ScheduleInv, RunsUncancelled, [Next]_vars
  PROVE  RunsUncancelled'
<1>1. CASE Client
  <2>1. ASSUME NEW i \in Ids, TimerReflesh(i) \/ TimerRefleshExpired(i)
        PROVE  RunsUncancelled'
    BY <2>1 DEF TimerReflesh, TimerRefleshExpired, RunsUncancelled
  <2>2. ASSUME NEW i \in Ids, NEW t \in Tasks, NEW d \in Delays, TimerAdd(t, i, d)
        PROVE  RunsUncancelled'
    <3>1. cur # None => cur \in Tasks /\ cur # t
      BY <2>2 DEF TimerAdd, ScheduleInv, TypeOK, Ownership
    <3> QED BY <2>2, <3>1 DEF TimerAdd, RunsUncancelled, ScheduleInv, TypeOK
  <2>3. ASSUME NEW i \in Ids, TimerCancel(i)
        PROVE  RunsUncancelled'
    <3>1. cur # None => cur \in Tasks /\ cur # timers[i]
      BY <2>3 DEF TimerCancel, ScheduleInv, TypeOK, Ownership
    <3> QED BY <2>3, <3>1 DEF TimerCancel, RunsUncancelled, ScheduleInv, TypeOK
  <2> QED BY <1>1, <2>1, <2>2, <2>3 DEF Client
<1>2. CASE Wheel
  <2>1. ASSUME NEW s \in Slots, NEW t \in Tasks, DestroyLive(s, t)
        PROVE  RunsUncancelled'
    <3>1. Alive(t)
      BY <2>1 DEF DestroyLive, ScheduleInv, Ownership, Held
    <3>2. task[t].cancel \in BOOLEAN
      BY <3>1, AliveType DEF ScheduleInv
    <3> QED BY <2>1, <3>2 DEF DestroyLive, RunsUncancelled
  <2>2. ASSUME NEW s \in Slots, NEW t \in Tasks, DropRef(s, t) \/ DestroyCancelled(s, t)
        PROVE  RunsUncancelled'
    BY <2>2 DEF DropRef, DestroyCancelled, RunsUncancelled
  <2>3. CASE OnTime \/ CallbackReturn \/ AdvanceTick
    BY <2>3 DEF OnTime, CallbackReturn, AdvanceTick, RunsUncancelled
  <2> QED BY <1>2, <2>1, <2>2, <2>3 DEF Wheel, Release
<1>3. CASE KernelTick \/ Teardown \/ Destroyed \/ UNCHANGED vars
  BY <1>3 DEF KernelTick, Teardown, Destroyed, vars, RunsUncancelled
<1> QED BY <1>1, <1>2, <1>3 DEF Next

LEMMA ServiceNext ==
  ASSUME ScheduleInv, RunsUncancelled, [Next]_vars
  PROVE  [Service!Next]_(Service!vars)
<1>1. CASE Client
  <2>1. ASSUME NEW i \in Ids, NEW t \in Tasks, NEW d \in Delays, TimerAdd(t, i, d)
        PROVE  Service!Next
    BY <2>1, AddService DEF Service!Next
  <2>2. ASSUME NEW i \in Ids, TimerReflesh(i)
        PROVE  Service!Next
    BY <2>2, RefleshService DEF Service!Next
  <2>3. ASSUME NEW i \in Ids, TimerCancel(i)
        PROVE  Service!Next
    BY <2>3, CancelService DEF Service!Next
  <2>4. ASSUME NEW i \in Ids, TimerRefleshExpired(i)
        PROVE  UNCHANGED Service!vars
    BY <2>4, ServiceStutters DEF TimerRefleshExpired, Held
  <2> QED BY <1>1, <2>1, <2>2, <2>3, <2>4 DEF Client
<1>2. CASE Wheel
  <2>1. CASE OnTime
    <3>1. /\ ~closing /\ times = 0 /\ cur = None /\ expirations \in 1 .. MaxBacklog
          /\ times' = expirations /\ UNCHANGED <<wheel, task, age, cur, closing>>
      BY <2>1, WheelAssumption DEF OnTime, ScheduleInv, TypeOK
    <3>2. Left' = Left /\ Delay' = Delay /\ Muted' = Muted
      BY <3>1 DEF Left, Delay, Muted, Alive, Held
    <3>3. Service!Wake(expirations)
      BY <3>1, <3>2 DEF Service!Wake, Left, Delay, Muted
    <3> QED BY <3>1, <3>3 DEF Service!Next
  <2>2. ASSUME NEW s \in Slots, NEW t \in Tasks, Release(s, t)
        PROVE  [Service!Next]_(Service!vars)
    BY <2>2, DropRefService, DestroyLiveService, DestroyCancelledService
       DEF Release, Service!Next
  <2>3. CASE CallbackReturn
    BY <2>3, CallbackReturnService DEF Service!Next
  <2>4. CASE AdvanceTick
    BY <2>4, AdvanceTickService DEF Service!Next
  <2> QED BY <1>2, <2>1, <2>2, <2>3, <2>4 DEF Wheel
<1>3. CASE KernelTick \/ Destroyed \/ UNCHANGED vars
  BY <1>3, ServiceStutters DEF KernelTick, Destroyed, vars, Held
<1>4. CASE Teardown
  <2>1. /\ ~closing /\ times = 0 /\ cur = None /\ closing' = TRUE
        /\ UNCHANGED <<wheel, task, age, cur, times>>
    BY <1>4 DEF Teardown
  <2>2. Left' = Left /\ Delay' = Delay /\ Muted' = Muted
    BY <2>1 DEF Left, Delay, Muted, Alive, Held
  <2>3. Service!Close
    BY <2>1, <2>2 DEF Service!Close, Left, Delay, Muted
  <2> QED BY <2>3 DEF Service!Next
<1> QED BY <1>1, <1>2, <1>3, <1>4 DEF Next

\* The wheel keeps what it promises: every armed task counts down the rounds of
\* its delay, a refresh starts the count again, a round ends only when everybody
\* due in it is gone, and exactly the cancelled tasks go without their callback,
\* however slots, shares and stale index entries come to it (Timer.cc:40-134).
THEOREM ImplementsTimerService == Spec => ServiceSpec
<1>1. Init => Service!Init
  <2> SUFFICES ASSUME Init PROVE Service!Init
    OBVIOUS
  <2>1. \A t \in Tasks : ~Alive(t) /\ ~Held(t)
    BY DEF Init, Alive, Held
  <2>2. Left = [t \in Tasks |-> -1] /\ Delay = [t \in Tasks |-> 0] /\ Muted = {}
    BY <2>1 DEF Left, Delay, Muted
  <2> QED BY <2>2 DEF Init, Service!Init, Service!Off, Left, Delay, Muted
<1>2. Init => RunsUncancelled
  BY DEF Init, RunsUncancelled
<1>3. ScheduleInv /\ RunsUncancelled /\ [Next]_vars => RunsUncancelled'
  BY RunsUncancelledNext
<1>4. ScheduleInv /\ RunsUncancelled /\ [Next]_vars => [Service!Next]_(Service!vars)
  BY ServiceNext
<1> QED BY <1>1, <1>2, <1>3, <1>4, ScheduleInvariant, PTL
        DEF Spec, ServiceSpec, Service!Spec
=============================================================================
