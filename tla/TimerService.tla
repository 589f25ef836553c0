---------------------------- MODULE TimerService ----------------------------
(***************************************************************************)
(* What a TimingWheel (include/Timer.hpp) promises, without slots, shared  *)
(* pointers or an index: every armed task counts the rounds it has left,   *)
(* and a round ends only when every task that was due in it is gone.       *)
(***************************************************************************)
EXTENDS Integers

CONSTANTS Tasks,        \* identities of TimerTask objects
          None,         \* "no task"
          MaxDelay,     \* longest delay the wheel accepts
          MaxBacklog    \* bound on the rounds one wake-up can owe

Off == -1               \* left[t] of a task that is not armed

VARIABLES left,         \* left[t]: full rounds before the round that runs t
          delay,        \* delay[t]: what a refresh resets left[t] to
          muted,        \* the tasks that were cancelled
          firing,       \* the task whose callback is running, or None
          owed,         \* rounds the current wake-up still has to run
          closing       \* the service is being destroyed

vars == <<left, delay, muted, firing, owed, closing>>

TypeOK == /\ left \in [Tasks -> Off .. MaxDelay]
          /\ delay \in [Tasks -> 0 .. MaxDelay]
          /\ muted \subseteq Tasks
          /\ firing \in Tasks \cup {None}
          /\ owed \in 0 .. MaxBacklog
          /\ closing \in BOOLEAN

Init == /\ left = [t \in Tasks |-> Off]
        /\ delay = [t \in Tasks |-> 0]
        /\ muted = {}
        /\ firing = None
        /\ owed = 0
        /\ closing = FALSE

\* A client call is made between wake-ups or from inside a callback.
Callable == ~closing /\ (owed = 0 \/ firing # None)

Arm(t, d) == /\ Callable
             /\ left[t] = Off /\ t # firing
             /\ left' = [left EXCEPT ![t] = d]
             /\ delay' = [delay EXCEPT ![t] = d]
             /\ UNCHANGED <<muted, firing, owed, closing>>

Rearm(t) == /\ Callable
            /\ left[t] # Off
            /\ left' = [left EXCEPT ![t] = delay[t]]
            /\ UNCHANGED <<delay, muted, firing, owed, closing>>

Mute(t) == /\ Callable
           /\ left[t] # Off
           /\ muted' = muted \cup {t}
           /\ UNCHANGED <<left, delay, firing, owed, closing>>

\* The tasks the current round (or the destructor) has to get rid of.
Due == {t \in Tasks : IF closing THEN left[t] # Off
                                 ELSE owed > 0 /\ left[t] = 0}

Fire(t) == /\ firing = None
           /\ t \in Due \ muted
           /\ left' = [left EXCEPT ![t] = Off]
           /\ firing' = t
           /\ UNCHANGED <<delay, muted, owed, closing>>

Return(t) == /\ firing = t
             /\ firing' = None
             /\ delay' = [delay EXCEPT ![t] = 0]
             /\ UNCHANGED <<left, muted, owed, closing>>

Discard(t) == /\ firing = None
              /\ t \in Due \cap muted
              /\ left' = [left EXCEPT ![t] = Off]
              /\ delay' = [delay EXCEPT ![t] = 0]
              /\ muted' = muted \ {t}
              /\ UNCHANGED <<firing, owed, closing>>

Wake(n) == /\ ~closing /\ owed = 0 /\ firing = None
           /\ owed' = n
           /\ UNCHANGED <<left, delay, muted, firing, closing>>

Round == /\ ~closing /\ owed > 0 /\ firing = None /\ Due = {}
         /\ left' = [t \in Tasks |-> IF left[t] = Off THEN Off ELSE left[t] - 1]
         /\ owed' = owed - 1
         /\ UNCHANGED <<delay, muted, firing, closing>>

Close == /\ ~closing /\ owed = 0 /\ firing = None
         /\ closing' = TRUE
         /\ UNCHANGED <<left, delay, muted, firing, owed>>

Next == \/ \E t \in Tasks : \/ \E d \in 1 .. MaxDelay : Arm(t, d)
                            \/ Rearm(t)
                            \/ Mute(t)
                            \/ Fire(t)
                            \/ Return(t)
                            \/ Discard(t)
        \/ \E n \in 1 .. MaxBacklog : Wake(n)
        \/ Round
        \/ Close

Spec == Init /\ [][Next]_vars
=============================================================================
