-------------------------- MODULE ConnectionProofs ---------------------------
(***************************************************************************)
(* Proofs about the life of a connection, for one loop and for two, any    *)
(* application and any bounds.                                             *)
(***************************************************************************)
EXTENDS Connection, SequenceTheorems, TLAPS

-----------------------------------------------------------------------------
(* The inductive invariant                                                  *)

\* What the io thread has left to do of a release, alone: releaseInLoop starts
\* from the task queue and never inside another handler.
Asked == <<"releaseInLoop">>
Closing == <<"closed", "removeConnection">>
Removing == <<"removeConnection">>
ReleaseTodos == {Asked, Closing, Removing}
ReleaseStatements == {"releaseInLoop", "closed", "removeConnection"}

\* A call or a task: what may still start once the connection is released.
LateStatements == TaskKinds \cup {"release"}

\* The types; a chunk is in one place, and was sent.
Bounds == TypeOK /\ inBuf + recvQ <= sent

\* Write interest follows the output buffer through every statement, and the
\* descriptor is registered as long as the connection is up.
Interest ==
    /\ outBuf > 0 \/ nudged <=> "OUT" \in events
    /\ registered <=> status \in {"CONNECTED", "DISCONNECTING"}
    /\ Among("write", todo) => status # "CONNECTING"

\* A release runs alone and once; the closed callback is its next statement.
ReleasedOnce ==
    /\ \A op \in ReleaseStatements : Among(op, todo) => todo \in ReleaseTodos
    /\ todo \in ReleaseTodos => phase = "run"
    /\ todo \in {Closing, Removing} => status = "DISCONNECTED"
    /\ closedCalls = IF status = "DISCONNECTED" /\ todo # Closing THEN 1 ELSE 0

\* Nothing happens to a connection before it is accepted; until it is released
\* it is being accepted or in the map; its removal is queued, or will be.
Owned ==
    /\ accepting = "none" =>
          /\ status = "CONNECTING" /\ todo = <<>> /\ tasks = <<>> /\ batch = <<>>
          /\ timer = "none" /\ ~due /\ ~kept /\ "timer" \notin ready
    /\ accepting = "done" /\ status # "DISCONNECTED" => inMap
    /\ removals > 0 => status = "DISCONNECTED" /\ todo \notin {Closing, Removing}
    /\ (~SingleLoop /\ status = "DISCONNECTED" /\ (inMap \/ accepting # "done")) =>
          removals > 0 \/ todo \in {Closing, Removing}

\* What a turn of the loop has found stays true until it is handled.
Turns ==
    /\ phase # "handle" => ready = {}
    /\ phase # "run" => batch = <<>>
    /\ "conn" \in ready => status \in {"CONNECTED", "DISCONNECTING"}
    /\ "listen" \in ready => SingleLoop /\ accepting = "none"

\* On a released connection only calls and tasks start, and a call is made
\* through a pointer that is kept.
Released ==
    status = "DISCONNECTED" =>
        /\ todo \in ReleaseTodos \/ \A op \in Statements : Among(op, todo) => op \in LateStatements
        /\ phase = "handle" /\ todo # <<>> => kept

\* Unless something abrupt asked for it, a release is on its way only when a
\* half-closed connection has nothing left to write.
Draining ==
    /\ Among("endShutdown", todo) => status \in {"DISCONNECTING", "DISCONNECTED"}
    /\ (~abrupt /\ (\/ Among("release", todo) \/ Among("releaseInLoop", todo)
                    \/ Among("releaseInLoop", tasks) \/ Among("releaseInLoop", batch))) =>
          outBuf = 0 /\ status \in {"DISCONNECTING", "DISCONNECTED"}
    /\ DrainsBeforeClose

IInv == /\ Bounds /\ Interest /\ ReleasedOnce /\ Owned /\ Turns /\ Released
        /\ Draining

\* Nobody enables the inactivity release of a connection that may be closed.
EnabledEarly == "enable" \notin OtherCalls

\* An armed entry belongs to a connection that is not released: the server's
\* enable is the first task the loop runs for it.
TimerLife ==
    /\ timer = "armed" => status # "DISCONNECTED"
    /\ Among("enable", todo) => status # "DISCONNECTED"
    /\ (Among("enable", tasks) \/ Among("enable", batch)) =>
          status = "CONNECTING" /\ timer = "none" /\ ~kept /\ todo = <<>>
    /\ batch # <<>> => ~Among("enable", Tail(batch))
    /\ Among("enable", tasks) => batch = <<>> /\ ~Among("enable", Tail(tasks))

\* Nobody cancels the inactivity release.
NeverCancelled ==
    /\ "cancel" \notin OtherCalls
    /\ \A plan \in MessagePlans \cup ConnectedPlans \cup EventPlans : ~Among("cancel", plan)

\* Without a cancellation the entry is armed until its release is asked for.
TimerKept ==
    /\ ~Among("cancel", todo) /\ ~Among("cancel", tasks) /\ ~Among("cancel", batch)
    /\ status # "DISCONNECTED" => timer # "muted"
    /\ enabled /\ status # "DISCONNECTED" =>
          \/ timer = "armed" \/ todo = Asked
          \/ Among("releaseInLoop", tasks) \/ Among("releaseInLoop", batch)

-----------------------------------------------------------------------------
(* What is among the statements of a sequence                               *)

LEMMA AmongLiterals ==
  /\ \A x : ~Among(x, <<>>)
  /\ \A x, a : Among(x, <<a>>) <=> x = a
  /\ \A x, a, b : Among(x, <<a, b>>) <=> x \in {a, b}
<1>1. ASSUME NEW x PROVE ~Among(x, <<>>)
  BY DEF Among
<1>2. ASSUME NEW x, NEW a PROVE Among(x, <<a>>) <=> x = a
  <2>1. Len(<<a>>) = 1 /\ <<a>>[1] = a
    OBVIOUS
  <2> QED BY <2>1 DEF Among
<1>3. ASSUME NEW x, NEW a, NEW b PROVE Among(x, <<a, b>>) <=> x \in {a, b}
  <2>1. Len(<<a, b>>) = 2 /\ <<a, b>>[1] = a /\ <<a, b>>[2] = b
    OBVIOUS
  <2> QED BY <2>1 DEF Among
<1> QED BY <1>1, <1>2, <1>3

\* Short sequences of statements of S.
LEMMA ShortSequences ==
  ASSUME NEW S
  PROVE  /\ <<>> \in Seq(S) /\ \A a \in S : <<a>> \in Seq(S)
         /\ \A a, b \in S : <<a, b>> \in Seq(S)
<1>1. ASSUME NEW a \in S, NEW b \in S PROVE <<a, b>> \in Seq(S)
  OBVIOUS
<1> QED BY <1>1

LEMMA AmongRange ==
  ASSUME NEW S, NEW s \in Seq(S), NEW x, Among(x, s)
  PROVE  x \in S
BY ElementOfSeq DEF Among

LEMMA AmongConcat ==
  ASSUME NEW S, NEW s \in Seq(S), NEW t \in Seq(S), NEW x
  PROVE  Among(x, s \o t) <=> Among(x, s) \/ Among(x, t)
<1>1. /\ s \o t \in Seq(S) /\ Len(s \o t) = Len(s) + Len(t)
      /\ \A i \in 1..(Len(s) + Len(t)) :
             (s \o t)[i] = IF i <= Len(s) THEN s[i] ELSE t[i - Len(s)]
  BY ConcatProperties
<1>2. Len(s) \in Nat /\ Len(t) \in Nat
  OBVIOUS
<1>3. ASSUME Among(x, s \o t) PROVE Among(x, s) \/ Among(x, t)
  <2>1. PICK i \in 1..(Len(s) + Len(t)) : (s \o t)[i] = x
    BY <1>1, <1>3 DEF Among
  <2>2. CASE i <= Len(s)
    BY <1>1, <1>2, <2>1, <2>2 DEF Among
  <2>3. CASE i > Len(s)
    <3>1. i - Len(s) \in 1..Len(t) /\ t[i - Len(s)] = x
      BY <1>1, <1>2, <2>1, <2>3
    <3> QED BY <3>1 DEF Among
  <2> QED BY <1>2, <2>1, <2>2, <2>3
<1>4. ASSUME Among(x, s) PROVE Among(x, s \o t)
  <2>1. PICK i \in 1..Len(s) : s[i] = x
    BY <1>4 DEF Among
  <2>2. i \in 1..(Len(s) + Len(t)) /\ (s \o t)[i] = x
    BY <1>1, <1>2, <2>1
  <2> QED BY <1>1, <2>2 DEF Among
<1>5. ASSUME Among(x, t) PROVE Among(x, s \o t)
  <2>1. PICK i \in 1..Len(t) : t[i] = x
    BY <1>5 DEF Among
  <2>2. Len(s) + i \in 1..(Len(s) + Len(t)) /\ ~(Len(s) + i <= Len(s))
        /\ (Len(s) + i) - Len(s) = i
    BY <1>2, <2>1
  <2>3. (s \o t)[Len(s) + i] = x
    BY <1>1, <2>1, <2>2
  <2> QED BY <1>1, <2>2, <2>3 DEF Among
<1> QED BY <1>3, <1>4, <1>5

LEMMA AmongAppend ==
  ASSUME NEW S, NEW s \in Seq(S), NEW a \in S, NEW x
  PROVE  /\ Append(s, a) \in Seq(S)
         /\ Among(x, Append(s, a)) <=> Among(x, s) \/ x = a
<1>1. Append(s, a) = s \o <<a>> /\ Append(s, a) \in Seq(S) /\ <<a>> \in Seq(S)
  BY AppendIsConcat
<1>2. Among(x, s \o <<a>>) <=> Among(x, s) \/ Among(x, <<a>>)
  BY <1>1, AmongConcat
<1>3. Among(x, <<a>>) <=> x = a
  BY AmongLiterals
<1> QED BY <1>1, <1>2, <1>3

LEMMA AmongTail ==
  ASSUME NEW S, NEW s \in Seq(S), s # <<>>
  PROVE  /\ Tail(s) \in Seq(S) /\ Head(s) \in S /\ Among(Head(s), s)
         /\ \A x : Among(x, Tail(s)) => Among(x, s)
<1>1. /\ Tail(s) \in Seq(S) /\ Len(Tail(s)) = Len(s) - 1 /\ Len(s) \in Nat \ {0}
      /\ \A i \in 1..(Len(s) - 1) : Tail(s)[i] = s[i + 1]
      /\ Head(s) = s[1] /\ Head(s) \in S
  BY HeadTailProperties, EmptySeq
<1>2. ASSUME NEW x, Among(x, Tail(s)) PROVE Among(x, s)
  <2>1. PICK i \in 1..(Len(s) - 1) : s[i + 1] = x
    BY <1>1, <1>2 DEF Among
  <2>2. i + 1 \in 1..Len(s)
    BY <1>1, <2>1
  <2> QED BY <2>1, <2>2 DEF Among
<1>3. Among(Head(s), s)
  BY <1>1 DEF Among
<1> QED BY <1>1, <1>2, <1>3

LEMMA ReleaseTodoFacts ==
  /\ \A s \in ReleaseTodos : s # <<>> /\ Head(s) \in ReleaseStatements
  /\ Head(Asked) = "releaseInLoop" /\ Tail(Asked) = <<>>
  /\ Head(Closing) = "closed" /\ Tail(Closing) = Removing
  /\ Head(Removing) = "removeConnection" /\ Tail(Removing) = <<>>
  /\ Asked # Closing /\ Asked # Removing /\ Closing # Removing
  /\ <<>> \notin ReleaseTodos
<1>1. /\ Head(Asked) = "releaseInLoop" /\ Tail(Asked) = <<>>
      /\ Head(Closing) = "closed" /\ Tail(Closing) = Removing
      /\ Head(Removing) = "removeConnection" /\ Tail(Removing) = <<>>
  BY DEF Asked, Closing, Removing
<1>2. Asked # <<>> /\ Closing # <<>> /\ Removing # <<>>
  BY DEF Asked, Closing, Removing
<1> QED BY <1>1, <1>2 DEF ReleaseTodos, ReleaseStatements

-----------------------------------------------------------------------------
(* Steps of the io thread                                                   *)

\* A statement that is not part of a release, and puts none in front of the
\* rest, is followed by ordinary statements.
LEMMA OrdinaryStep ==
  ASSUME IInv, NEW op \in Statements \ ReleaseStatements,
         NEW S \in SUBSET (Statements \ ReleaseStatements), NEW first \in Seq(S),
         Step(op, first)
  PROVE  /\ todo \notin ReleaseTodos /\ todo # <<>> /\ Among(op, todo)
         /\ todo' \in Seq(Statements) /\ todo' \notin ReleaseTodos
         /\ \A x \in ReleaseStatements : ~Among(x, todo) /\ ~Among(x, todo')
         /\ \A x : Among(x, todo') => Among(x, first) \/ Among(x, todo)
         /\ \A x : Among(x, first) => x \in S
         /\ ~crashed /\ UNCHANGED <<phase, ready, revents, batch, others, sent>>
<1>1. /\ todo \in Seq(Statements) /\ todo # <<>> /\ Head(todo) = op
      /\ todo' = first \o Tail(todo)
      /\ ~crashed /\ UNCHANGED <<phase, ready, revents, batch, others, sent>>
  BY DEF IInv, Bounds, TypeOK, Step, place
<1>2. /\ Tail(todo) \in Seq(Statements) /\ Among(op, todo)
      /\ \A x : Among(x, Tail(todo)) => Among(x, todo)
  BY <1>1, AmongTail
<1>9. first \in Seq(Statements) /\ \A x : Among(x, first) => x \in S
  BY SeqMonotonic, AmongRange
<1>3. todo' \in Seq(Statements)
  BY <1>1, <1>2, <1>9, ConcatProperties
<1>4. \A x : Among(x, todo') => Among(x, first) \/ Among(x, todo)
  BY <1>1, <1>2, <1>9, AmongConcat
<1>5. todo \notin ReleaseTodos
  BY <1>1, ReleaseTodoFacts
<1>6. \A x \in ReleaseStatements : ~Among(x, todo)
  BY <1>5 DEF IInv, ReleasedOnce
<1>7. \A x \in ReleaseStatements : ~Among(x, todo')
  BY <1>4, <1>6, <1>9
<1>8. todo' \notin ReleaseTodos
  <2>1. ASSUME todo' \in ReleaseTodos PROVE FALSE
    <3>1. todo' # <<>> /\ Head(todo') \in ReleaseStatements
      BY <2>1, ReleaseTodoFacts
    <3>2. Among(Head(todo'), todo')
      BY <1>3, <3>1, AmongTail
    <3> QED BY <1>7, <3>1, <3>2
  <2> QED BY <2>1
<1> QED BY <1>1, <1>2, <1>3, <1>4, <1>5, <1>6, <1>7, <1>8, <1>9


\* What such a statement does not disturb, if it neither releases nor revives the
\* connection and leaves the map and its removals alone.
LEMMA OrdinaryKeeps ==
  ASSUME IInv, NEW op \in Statements \ ReleaseStatements,
         NEW S \in SUBSET (Statements \ ReleaseStatements), NEW first \in Seq(S),
         Step(op, first),
         UNCHANGED <<accepting, inMap, removals, closedCalls>>,
         status' = "DISCONNECTED" <=> status = "DISCONNECTED",
         status \in {"CONNECTED", "DISCONNECTING"}
            => status' \in {"CONNECTED", "DISCONNECTING"},
         status = "DISCONNECTED" => first = <<>> /\ UNCHANGED kept
  PROVE  ReleasedOnce' /\ Owned' /\ Turns' /\ Released'
<1>1. /\ todo \notin ReleaseTodos /\ todo # <<>> /\ Among(op, todo)
      /\ todo' \in Seq(Statements) /\ todo' \notin ReleaseTodos
      /\ \A x \in ReleaseStatements : ~Among(x, todo')
      /\ \A x : Among(x, todo') => Among(x, first) \/ Among(x, todo)
      /\ UNCHANGED <<phase, ready, batch>>
  BY OrdinaryStep
<1>2. accepting # "none"
  BY <1>1 DEF IInv, Owned
<1>3. ReleasedOnce'
  BY <1>1 DEF IInv, ReleasedOnce, ReleaseTodos
<1>4. Owned'
  BY <1>1, <1>2 DEF IInv, Owned, ReleaseTodos
<1>5. Turns'
  BY <1>1, <1>2 DEF IInv, Turns
<1>6. Released'
  <2>1. status = "DISCONNECTED" => \A x : ~Among(x, first)
    BY AmongLiterals
  <2> QED BY <1>1, <2>1 DEF IInv, Released
<1> QED BY <1>3, <1>4, <1>5, <1>6

\* On a released connection no ordinary statement but a call or a task runs.
LEMMA NotReleased ==
  ASSUME IInv, NEW op \in Statements \ (ReleaseStatements \cup LateStatements),
         todo # <<>>, Head(todo) = op
  PROVE  status # "DISCONNECTED"
<1>1. todo \notin ReleaseTodos
  BY ReleaseTodoFacts
<1>2. todo \in Seq(Statements)
  BY DEF IInv, Bounds, TypeOK
<1>3. Among(op, todo)
  BY <1>2, AmongTail
<1> QED BY <1>1, <1>3 DEF IInv, Released

LEMMA ReadKeeps ==
  ASSUME IInv, HandleRead PROVE IInv'
<1> DEFINE S == {"message", "shutdown"}
<1>1. PICK first \in Seq(S) : Step("read", first)
  <2>1. <<>> \in Seq(S) /\ <<"message">> \in Seq(S) /\ <<"shutdown">> \in Seq(S)
    BY ShortSequences
  <2> QED BY <2>1 DEF HandleRead
<1>2. "read" \in Statements \ (ReleaseStatements \cup LateStatements)
      /\ S \in SUBSET (Statements \ ReleaseStatements)
  BY DEF Statements, ReleaseStatements, LateStatements, TaskKinds
<1>3. /\ \/ UNCHANGED peer /\ \E n \in 0 .. recvQ : inBuf' = inBuf + n /\ recvQ' = recvQ - n
         \/ peer' \in {"dead", peer} /\ UNCHANGED <<inBuf, recvQ>>
      /\ UNCHANGED <<status, enabled, outBuf, events, registered, wheel, owners, tasks,
                   crashed, writable, history>>
  BY DEF HandleRead
<1>4. /\ todo' \in Seq(Statements)
      /\ \A x \in ReleaseStatements : ~Among(x, todo) /\ ~Among(x, todo')
      /\ \A x : Among(x, todo') => x \in S \/ Among(x, todo)
      /\ UNCHANGED <<phase, ready, revents, batch, others, sent>>
  BY <1>1, <1>2, OrdinaryStep
<1>5. status # "DISCONNECTED"
  BY <1>1, <1>2, NotReleased DEF Step
<1>6. ReleasedOnce' /\ Owned' /\ Turns' /\ Released'
  BY <1>1, <1>2, <1>3, <1>5, OrdinaryKeeps DEF owners, history
<1>7. Bounds'
  <2>1. /\ inBuf \in Nat /\ recvQ \in Nat /\ sent \in Nat /\ sent <= MaxRecv
        /\ inBuf + recvQ <= sent
    BY ConnectionAssumption DEF IInv, Bounds, TypeOK
  <2>2. /\ inBuf' \in 0..MaxRecv /\ recvQ' \in 0..MaxRecv
        /\ inBuf' + recvQ' <= sent'
    BY <1>3, <1>4, <2>1, ConnectionAssumption
  <2>3. peer' \in {"open", "fin", "rst", "dead"}
    BY <1>3 DEF IInv, Bounds, TypeOK
  <2>4. TypeOK
    BY DEF IInv, Bounds
  <2>5. UNCHANGED <<status, enabled, outBuf, events, registered, timer, due, accepting,
                    inMap, removals, kept, tasks, crashed, writable, closedCalls, abrupt,
                    nudged>>
    BY <1>3 DEF owners, wheel, history
  <2>6. TypeOK'
    BY <1>4, <2>2, <2>3, <2>4, <2>5 DEF TypeOK
  <2> QED BY <2>2, <2>6 DEF Bounds
<1>8. Interest'
  BY <1>3, <1>4 DEF IInv, Interest, history
<1>9. Draining'
  BY <1>3, <1>4 DEF IInv, Draining, DrainsBeforeClose, history, ReleaseStatements
<1> QED BY <1>6, <1>7, <1>8, <1>9 DEF IInv

\* HandleWrite when send() fails.
LEMMA WriteFailsKeeps ==
  ASSUME IInv, HandleWriteFails PROVE IInv'
<1> DEFINE S == {"message", "release"}
<1>1. PICK first \in Seq(S) : Step("write", first)
  <2>1. <<"release">> \in Seq(S) /\ <<"message", "release">> \in Seq(S)
    BY ShortSequences
  <2> QED BY <2>1 DEF HandleWriteFails, Leftover
<1>2. /\ "write" \in Statements \ (ReleaseStatements \cup LateStatements)
      /\ S \in SUBSET (Statements \ ReleaseStatements)
  BY DEF Statements, Calls, ReleaseStatements, LateStatements, TaskKinds
<1>3. /\ peer' = "dead" /\ abrupt' = TRUE
      /\ UNCHANGED <<conn, wheel, owners, tasks, crashed, recvQ, writable, closedCalls, nudged>>
  BY DEF HandleWriteFails
<1>4. /\ todo' \in Seq(Statements) /\ Among("write", todo)
      /\ \A x \in ReleaseStatements : ~Among(x, todo) /\ ~Among(x, todo')
      /\ \A x : Among(x, todo') => Among(x, first) \/ Among(x, todo)
      /\ \A x : Among(x, first) => x \in S
      /\ UNCHANGED <<phase, ready, revents, batch, others, sent>>
  BY <1>1, <1>2, OrdinaryStep
<1>5. status # "DISCONNECTED"
  BY <1>1, <1>2, NotReleased DEF Step
<1>6. ReleasedOnce' /\ Owned' /\ Turns' /\ Released'
  BY <1>1, <1>2, <1>3, <1>5, OrdinaryKeeps DEF owners, history, conn
<1>7. TypeOK'
  BY <1>1, <1>3, <1>4 DEF IInv, Bounds, TypeOK, conn, owners, wheel, history
<1>8. Bounds'
  BY <1>3, <1>4, <1>7 DEF IInv, Bounds, TypeOK, conn
<1>9. Interest'
  BY <1>1, <1>3, <1>4, <1>5 DEF IInv, Interest, Draining, conn, Bounds, TypeOK, history
<1>10. Draining'
  BY <1>1, <1>3, <1>4, <1>5 DEF IInv, Draining, DrainsBeforeClose, ReleaseStatements, conn, history
<1> QED BY <1>6, <1>8, <1>9, <1>10 DEF IInv

\* HandleClose and HandleError.
LEMMA CloseKeeps ==
  ASSUME IInv, HandleClose PROVE IInv'
<1> DEFINE S == {"message", "release"}
<1>1. PICK first \in Seq(S) : Step("close", first)
  <2>1. <<"release">> \in Seq(S) /\ <<"message", "release">> \in Seq(S)
    BY ShortSequences
  <2> QED BY <2>1 DEF HandleClose, Leftover
<1>2. /\ "close" \in Statements \ (ReleaseStatements \cup LateStatements)
      /\ S \in SUBSET (Statements \ ReleaseStatements)
  BY DEF Statements, Calls, ReleaseStatements, LateStatements, TaskKinds
<1>3. /\ abrupt' = TRUE
      /\ UNCHANGED <<conn, wheel, owners, tasks, crashed, peer, recvQ, writable, closedCalls, nudged>>
  BY DEF HandleClose
<1>4. /\ todo' \in Seq(Statements) /\ Among("close", todo)
      /\ \A x \in ReleaseStatements : ~Among(x, todo) /\ ~Among(x, todo')
      /\ \A x : Among(x, todo') => Among(x, first) \/ Among(x, todo)
      /\ \A x : Among(x, first) => x \in S
      /\ UNCHANGED <<phase, ready, revents, batch, others, sent>>
  BY <1>1, <1>2, OrdinaryStep
<1>5. status # "DISCONNECTED"
  BY <1>1, <1>2, NotReleased DEF Step
<1>6. ReleasedOnce' /\ Owned' /\ Turns' /\ Released'
  BY <1>1, <1>2, <1>3, <1>5, OrdinaryKeeps DEF owners, history, conn
<1>7. TypeOK'
  BY <1>1, <1>3, <1>4 DEF IInv, Bounds, TypeOK, conn, owners, wheel, history
<1>8. Bounds'
  BY <1>3, <1>4, <1>7 DEF IInv, Bounds, TypeOK, conn
<1>9. Interest'
  BY <1>1, <1>3, <1>4, <1>5 DEF IInv, Interest, Draining, conn, Bounds, TypeOK, history
<1>10. Draining'
  BY <1>1, <1>3, <1>4, <1>5 DEF IInv, Draining, DrainsBeforeClose, ReleaseStatements, conn, history
<1> QED BY <1>6, <1>8, <1>9, <1>10 DEF IInv

\* HandleEvent refreshes the entry, and the event callback makes the calls of a plan.
LEMMA EventKeeps ==
  ASSUME IInv, HandleEvent PROVE IInv'
<1>1. PICK plan \in EventPlans :
        Step("event", plan) /\ abrupt' = (abrupt \/ Among("release", plan))
  BY DEF HandleEvent
<1>2. /\ plan \in Seq(Calls) /\ Calls \in SUBSET (Statements \ ReleaseStatements)
      /\ "event" \in Statements \ (ReleaseStatements \cup LateStatements)
  BY ConnectionAssumption
     DEF Statements, Calls, ReleaseStatements, LateStatements, TaskKinds
<1>3. /\ due' = (due /\ ~enabled) /\ due' \in BOOLEAN /\ abrupt' \in BOOLEAN
      /\ UNCHANGED <<conn, timer, owners, tasks, crashed, peer, recvQ, writable, closedCalls,
                     nudged>>
  BY <1>1 DEF HandleEvent
<1>4. /\ todo' \in Seq(Statements)
      /\ \A x \in ReleaseStatements : ~Among(x, todo) /\ ~Among(x, todo')
      /\ \A x : Among(x, todo') => Among(x, plan) \/ Among(x, todo)
      /\ \A x : Among(x, plan) => x \in Calls
      /\ UNCHANGED <<phase, ready, revents, batch, others, sent>>
  BY <1>1, <1>2, OrdinaryStep
<1>5. status # "DISCONNECTED"
  BY <1>1, <1>2, NotReleased DEF Step
<1>6. ReleasedOnce' /\ Owned' /\ Turns' /\ Released'
  BY <1>1, <1>2, <1>3, <1>5, OrdinaryKeeps DEF owners, conn
<1>7. TypeOK'
  BY <1>3, <1>4 DEF IInv, Bounds, TypeOK, conn, owners
<1>8. Bounds'
  BY <1>3, <1>4, <1>7 DEF IInv, Bounds, conn
<1>9. Interest'
  BY <1>3, <1>4 DEF IInv, Interest, conn, Calls
<1>10. Draining'
  <2>1. ~abrupt' => ~abrupt /\ ~Among("release", plan)
    BY <1>1
  <2> QED BY <1>3, <1>4, <1>5, <2>1
          DEF IInv, Draining, DrainsBeforeClose, ReleaseStatements, conn, Calls
<1> QED BY <1>6, <1>8, <1>9, <1>10 DEF IInv

\* HandleWrite: a release only when a half-closed connection is drained.
LEMMA WriteKeeps ==
  ASSUME IInv, NEW n \in 0 .. MaxOut, HandleWrite(n) PROVE IInv'
<1> DEFINE S == {"release"}
<1>1. PICK first \in Seq(S) :
        /\ Step("write", first)
        /\ first = <<>> \/ (outBuf = n /\ status = "DISCONNECTING")
  <2>1. <<>> \in Seq(S) /\ <<"release">> \in Seq(S)
    BY ShortSequences
  <2> QED BY <2>1 DEF HandleWrite
<1>2. /\ "write" \in Statements \ (ReleaseStatements \cup LateStatements)
      /\ S \in SUBSET (Statements \ ReleaseStatements)
  BY DEF Statements, Calls, ReleaseStatements, LateStatements, TaskKinds
<1>3. /\ outBuf \in 0 .. MaxOut /\ n \in 0 .. outBuf /\ outBuf' = outBuf - n
      /\ IF outBuf = n THEN Update(events \ {"OUT"}) ELSE UNCHANGED <<events, registered>>
      /\ writable' \in BOOLEAN /\ nudged' = (nudged /\ n < outBuf)
      /\ UNCHANGED <<status, enabled, inBuf, wheel, owners, tasks, crashed, peer, recvQ,
                     closedCalls, abrupt>>
  <2>1. outBuf \in 0 .. MaxOut /\ writable \in BOOLEAN
    BY DEF IInv, Bounds, TypeOK
  <2>2. n \in 0 .. outBuf
    BY <2>1 DEF HandleWrite, Sent
  <2>3. writable' \in BOOLEAN
    BY <2>1 DEF HandleWrite, Sent
  <2> QED BY <2>1, <2>2, <2>3 DEF HandleWrite, Sent
<1>4. /\ todo' \in Seq(Statements) /\ Among("write", todo)
      /\ \A x \in ReleaseStatements : ~Among(x, todo) /\ ~Among(x, todo')
      /\ \A x : Among(x, todo') => Among(x, first) \/ Among(x, todo)
      /\ \A x : Among(x, first) => x \in S
      /\ UNCHANGED <<phase, ready, revents, batch, others, sent>>
  BY <1>1, <1>2, OrdinaryStep
<1>5. status \in {"CONNECTED", "DISCONNECTING"} /\ registered
  <2>1. status # "DISCONNECTED"
    BY <1>1, <1>2, NotReleased DEF Step
  <2> QED BY <1>4, <2>1 DEF IInv, Interest, Bounds, TypeOK
<1>6. ReleasedOnce' /\ Owned' /\ Turns' /\ Released'
  BY <1>1, <1>2, <1>3, <1>5, OrdinaryKeeps DEF owners, history
<1>7. outBuf' \in 0 .. MaxOut /\ (outBuf' = 0 <=> outBuf = n) /\ (outBuf = 0 => outBuf' = 0)
  BY <1>3, ConnectionAssumption
<1>8. events' \subseteq {"IN", "OUT"} /\ registered' = TRUE
  BY <1>3, <1>5 DEF Update, IInv, Interest, Bounds, TypeOK
<1>9. TypeOK'
  BY <1>3, <1>4, <1>7, <1>8 DEF IInv, Bounds, TypeOK, owners, wheel, history
<1>10. Bounds'
  BY <1>3, <1>4, <1>9 DEF IInv, Bounds
<1>11. Interest'
  <2>1. outBuf' > 0 <=> outBuf # n
    BY <1>3, ConnectionAssumption
  <2>2. outBuf > 0 \/ nudged <=> "OUT" \in events
    BY DEF IInv, Interest
  <2>4. nudged' <=> nudged /\ outBuf # n
    <3>1. n < outBuf <=> outBuf # n
      BY <1>3, ConnectionAssumption
    <3>2. nudged' = (nudged /\ n < outBuf)
      BY <1>3
    <3> QED BY <3>1, <3>2
  <2>3. outBuf' > 0 \/ nudged' <=> "OUT" \in events'
    <3>1. CASE outBuf = n
      BY <1>3, <2>1, <2>4, <3>1 DEF Update
    <3>2. CASE outBuf # n
      <4>1. outBuf > 0
        BY <1>3, <3>2, ConnectionAssumption
      <4> QED BY <1>3, <2>1, <2>2, <3>2, <4>1
    <3> QED BY <3>1, <3>2
  <2> QED BY <1>3, <1>4, <1>5, <1>8, <2>3 DEF IInv, Interest
<1>12. Draining'
  <2>1. first = <<>> => ~Among("release", first)
    BY AmongLiterals
  <2> QED BY <1>1, <1>3, <1>4, <1>5, <1>7, <2>1
          DEF IInv, Draining, DrainsBeforeClose, ReleaseStatements, history
<1> QED BY <1>6, <1>10, <1>11, <1>12 DEF IInv

\* EstablishedInLoop, with its assertion.
LEMMA EstablishedKeeps ==
  ASSUME IInv, EstablishedInLoop PROVE IInv'
<1> DEFINE S == {"connected"}
<1>1. PICK first \in Seq(S) :
        Step("established", first) /\ (status # "CONNECTING" => first = <<>>)
  <2>1. <<>> \in Seq(S) /\ <<"connected">> \in Seq(S)
    BY ShortSequences
  <2> QED BY <2>1 DEF EstablishedInLoop
<1>2. /\ "established" \in Statements \ ReleaseStatements
      /\ S \in SUBSET (Statements \ ReleaseStatements)
  BY DEF Statements, Calls, ReleaseStatements, TaskKinds
<1>3. /\ IF status = "CONNECTING"
         THEN status' = "CONNECTED" /\ Update(events \cup {"IN"}) /\ UNCHANGED crashed
         ELSE crashed' = TRUE /\ UNCHANGED <<status, events, registered>>
      /\ UNCHANGED <<enabled, inBuf, outBuf, wheel, owners, tasks, peer, recvQ, writable,
                     history>>
  BY DEF EstablishedInLoop
<1>4. /\ todo' \in Seq(Statements)
      /\ \A x \in ReleaseStatements : ~Among(x, todo) /\ ~Among(x, todo')
      /\ \A x : Among(x, todo') => Among(x, first) \/ Among(x, todo)
      /\ \A x : Among(x, first) => x \in S
      /\ UNCHANGED <<phase, ready, revents, batch, others, sent>>
  BY <1>1, <1>2, OrdinaryStep
<1>5. ReleasedOnce' /\ Owned' /\ Turns' /\ Released'
  BY <1>1, <1>2, <1>3, OrdinaryKeeps DEF owners, history
<1>6. events' \subseteq {"IN", "OUT"} /\ registered' \in BOOLEAN /\ crashed' \in BOOLEAN
  BY <1>3 DEF Update, IInv, Bounds, TypeOK
<1>7. TypeOK'
  BY <1>3, <1>4, <1>6 DEF IInv, Bounds, TypeOK, owners, wheel, history
<1>8. Bounds'
  BY <1>3, <1>4, <1>7 DEF IInv, Bounds
<1>9. Interest'
  BY <1>3, <1>4 DEF IInv, Interest, Update, history
<1>10. Draining'
  BY <1>3, <1>4 DEF IInv, Draining, DrainsBeforeClose, ReleaseStatements, history
<1> QED BY <1>5, <1>8, <1>9, <1>10 DEF IInv

\* ShutdownInLoop turns reading off and delivers what is left over.
LEMMA ShutdownKeeps ==
  ASSUME IInv, ShutdownInLoop PROVE IInv'
<1> DEFINE S == {"message", "endShutdown"}
<1>1. PICK first \in Seq(S) :
        /\ Step("shutdown", first)
        /\ status \in {"DISCONNECTED", "DISCONNECTING"} => first = <<>>
  <2>1. /\ <<>> \in Seq(S) /\ <<"endShutdown">> \in Seq(S)
        /\ <<"message", "endShutdown">> \in Seq(S)
    BY ShortSequences
  <2> QED BY <2>1 DEF ShutdownInLoop, Leftover
<1>2. /\ "shutdown" \in Statements \ ReleaseStatements
      /\ S \in SUBSET (Statements \ ReleaseStatements)
  BY DEF Statements, Calls, ReleaseStatements, TaskKinds
<1>3. /\ IF status \in {"DISCONNECTED", "DISCONNECTING"}
         THEN UNCHANGED <<status, events, registered>>
         ELSE status' = "DISCONNECTING" /\ Update(events \ {"IN"})
      /\ UNCHANGED <<enabled, inBuf, outBuf, wheel, owners, tasks, crashed, peer, recvQ,
                     writable, history>>
  BY DEF ShutdownInLoop
<1>4. /\ todo' \in Seq(Statements)
      /\ \A x \in ReleaseStatements : ~Among(x, todo) /\ ~Among(x, todo')
      /\ \A x : Among(x, todo') => Among(x, first) \/ Among(x, todo)
      /\ \A x : Among(x, first) => x \in S
      /\ UNCHANGED <<phase, ready, revents, batch, others, sent>>
  BY <1>1, <1>2, OrdinaryStep
<1>5. ReleasedOnce' /\ Owned' /\ Turns' /\ Released'
  BY <1>1, <1>2, <1>3, OrdinaryKeeps DEF owners, history
<1>6. events' \subseteq {"IN", "OUT"} /\ registered' \in BOOLEAN
  BY <1>3 DEF Update, IInv, Bounds, TypeOK
<1>7. TypeOK'
  BY <1>3, <1>4, <1>6 DEF IInv, Bounds, TypeOK, owners, wheel, history
<1>8. Bounds'
  BY <1>3, <1>4, <1>7 DEF IInv, Bounds
<1>9. Interest'
  BY <1>3, <1>4 DEF IInv, Interest, Update, history
<1>10. Draining'
  <2>1. status \in {"DISCONNECTED", "DISCONNECTING"} => ~Among("endShutdown", first)
    BY <1>1, AmongLiterals
  <2> QED BY <1>3, <1>4, <2>1
          DEF IInv, Draining, DrainsBeforeClose, ReleaseStatements, history
<1> QED BY <1>5, <1>8, <1>9, <1>10 DEF IInv

\* The end of a half-close: write interest is on already if something is left.
LEMMA EndShutdownKeeps ==
  ASSUME IInv, EndShutdown PROVE IInv'
<1> DEFINE S == {"release"}
<1>1. PICK first \in Seq(S) : Step("endShutdown", first) /\ (outBuf > 0 => first = <<>>)
  <2>1. <<>> \in Seq(S) /\ <<"release">> \in Seq(S)
    BY ShortSequences
  <2> QED BY <2>1 DEF EndShutdown
<1>2. /\ "endShutdown" \in Statements \ (ReleaseStatements \cup LateStatements)
      /\ S \in SUBSET (Statements \ ReleaseStatements)
  BY DEF Statements, Calls, ReleaseStatements, LateStatements, TaskKinds
<1>3. UNCHANGED <<conn, wheel, owners, tasks, crashed, peer, recvQ, writable, history>>
  BY DEF EndShutdown, EnableWrite, IInv, Interest, conn
<1>4. /\ todo' \in Seq(Statements) /\ Among("endShutdown", todo)
      /\ \A x \in ReleaseStatements : ~Among(x, todo) /\ ~Among(x, todo')
      /\ \A x : Among(x, todo') => Among(x, first) \/ Among(x, todo)
      /\ \A x : Among(x, first) => x \in S
      /\ UNCHANGED <<phase, ready, revents, batch, others, sent>>
  BY <1>1, <1>2, OrdinaryStep
<1>5. status # "DISCONNECTED"
  BY <1>1, <1>2, NotReleased DEF Step
<1>6. ReleasedOnce' /\ Owned' /\ Turns' /\ Released'
  BY <1>1, <1>2, <1>3, <1>5, OrdinaryKeeps DEF owners, history, conn
<1>7. TypeOK'
  BY <1>3, <1>4 DEF IInv, Bounds, TypeOK, conn, owners, wheel, history
<1>8. Bounds'
  BY <1>3, <1>4, <1>7 DEF IInv, Bounds, conn
<1>9. Interest'
  BY <1>3, <1>4 DEF IInv, Interest, conn, history
<1>10. Draining'
  <2>1. Among("release", first) => outBuf = 0
    <3>1. outBuf > 0 => ~Among("release", first)
      BY <1>1, AmongLiterals
    <3>2. outBuf \in Nat
      BY ConnectionAssumption DEF IInv, Bounds, TypeOK
    <3> QED BY <3>1, <3>2
  <2> QED BY <1>3, <1>4, <2>1
          DEF IInv, Draining, DrainsBeforeClose, ReleaseStatements, conn, history
<1> QED BY <1>6, <1>8, <1>9, <1>10 DEF IInv

\* SendInLoop fills the buffer of an established connection only.
LEMMA SendKeeps ==
  ASSUME IInv, SendInLoop PROVE IInv'
<1>1. /\ Step("send", <<>>) /\ <<>> \in Seq({})
      /\ "send" \in Statements \ ReleaseStatements
      /\ {} \in SUBSET (Statements \ ReleaseStatements)
  BY ShortSequences DEF SendInLoop, Statements, Calls, ReleaseStatements, TaskKinds
<1>2. /\ IF status = "CONNECTED" /\ outBuf < MaxOut
         THEN outBuf' = outBuf + 1 /\ EnableWrite
         ELSE UNCHANGED <<outBuf, events, registered>>
      /\ UNCHANGED <<status, enabled, inBuf, wheel, owners, tasks, crashed, peer, recvQ,
                     writable, history>>
  BY DEF SendInLoop
<1>3. /\ todo' \in Seq(Statements) /\ Among("send", todo)
      /\ \A x \in ReleaseStatements : ~Among(x, todo) /\ ~Among(x, todo')
      /\ \A x : Among(x, todo') => Among(x, todo)
      /\ UNCHANGED <<phase, ready, revents, batch, others, sent>>
  BY <1>1, AmongLiterals, OrdinaryStep
<1>4. ReleasedOnce' /\ Owned' /\ Turns' /\ Released'
  BY <1>1, <1>2, OrdinaryKeeps DEF owners, history, conn
<1>5. /\ outBuf' \in 0 .. MaxOut /\ events' \subseteq {"IN", "OUT"} /\ registered' \in BOOLEAN
      /\ outBuf \in Nat /\ (outBuf' > 0 \/ nudged <=> "OUT" \in events')
      /\ registered' <=> status \in {"CONNECTED", "DISCONNECTING"}
      /\ status # "CONNECTED" => UNCHANGED outBuf
  <2>1. /\ outBuf \in 0 .. MaxOut /\ events \subseteq {"IN", "OUT"} /\ registered \in BOOLEAN
        /\ outBuf > 0 \/ nudged <=> "OUT" \in events
        /\ registered <=> status \in {"CONNECTED", "DISCONNECTING"}
    BY DEF IInv, Bounds, TypeOK, Interest
  <2>2. CASE status = "CONNECTED" /\ outBuf < MaxOut
    <3>1. outBuf' \in 0 .. MaxOut /\ outBuf' > 0 /\ outBuf \in Nat
      BY <1>2, <2>1, <2>2, ConnectionAssumption
    <3>2. /\ "OUT" \in events' /\ events' \subseteq {"IN", "OUT"}
          /\ registered' = TRUE
      BY <1>2, <2>1, <2>2 DEF EnableWrite, Update
    <3> QED BY <2>2, <3>1, <3>2
  <2>3. CASE ~(status = "CONNECTED" /\ outBuf < MaxOut)
    <3>1. UNCHANGED <<outBuf, events, registered>>
      BY <1>2, <2>3
    <3>2. outBuf \in Nat
      BY <2>1, ConnectionAssumption
    <3> QED BY <2>1, <3>1, <3>2
  <2> QED BY <2>2, <2>3
<1>6. TypeOK'
  BY <1>2, <1>3, <1>5 DEF IInv, Bounds, TypeOK, conn, owners, wheel, history
<1>7. Bounds'
  BY <1>2, <1>3, <1>6, <1>5 DEF IInv, Bounds, conn
<1>8. Interest'
  BY <1>2, <1>3, <1>5 DEF IInv, Interest, conn, history
<1>9. Draining'
  BY <1>2, <1>3, <1>5 DEF IInv, Draining, DrainsBeforeClose, ReleaseStatements, conn, history
<1> QED BY <1>4, <1>7, <1>8, <1>9 DEF IInv

\* A Send of length 0 enables write events and leaves the buffer alone.
LEMMA SendNothingKeeps ==
  ASSUME IInv, SendNothingInLoop PROVE IInv'
<1>1. /\ Step("sendNothing", <<>>) /\ <<>> \in Seq({})
      /\ "sendNothing" \in Statements \ ReleaseStatements
      /\ {} \in SUBSET (Statements \ ReleaseStatements)
  BY ShortSequences
     DEF SendNothingInLoop, Statements, Calls, ReleaseStatements, TaskKinds
<1>2. /\ IF status = "CONNECTED"
         THEN EnableWrite /\ nudged' = TRUE
         ELSE UNCHANGED <<events, registered, nudged>>
      /\ UNCHANGED <<status, enabled, inBuf, outBuf, wheel, owners, tasks, crashed, peer,
                     recvQ, writable, closedCalls, abrupt>>
  BY DEF SendNothingInLoop
<1>3. /\ todo' \in Seq(Statements)
      /\ \A x \in ReleaseStatements : ~Among(x, todo) /\ ~Among(x, todo')
      /\ \A x : Among(x, todo') => Among(x, todo)
      /\ UNCHANGED <<phase, ready, revents, batch, others, sent>>
  BY <1>1, AmongLiterals, OrdinaryStep
<1>4. ReleasedOnce' /\ Owned' /\ Turns' /\ Released'
  BY <1>1, <1>2, OrdinaryKeeps DEF owners
<1>5. /\ events' \subseteq {"IN", "OUT"} /\ registered' \in BOOLEAN /\ nudged' \in BOOLEAN
      /\ outBuf' > 0 \/ nudged' <=> "OUT" \in events'
      /\ registered' <=> status \in {"CONNECTED", "DISCONNECTING"}
  BY <1>2 DEF EnableWrite, Update, IInv, Bounds, TypeOK, Interest
<1>6. TypeOK'
  BY <1>2, <1>3, <1>5 DEF IInv, Bounds, TypeOK, owners, wheel
<1>7. Bounds'
  BY <1>2, <1>3, <1>6 DEF IInv, Bounds
<1>8. Interest'
  BY <1>2, <1>3, <1>5 DEF IInv, Interest
<1>9. Draining'
  BY <1>2, <1>3 DEF IInv, Draining, DrainsBeforeClose, ReleaseStatements
<1> QED BY <1>4, <1>7, <1>8, <1>9 DEF IInv

\* EnableInactiveReleaseInLoop.
LEMMA EnableKeeps ==
  ASSUME IInv, EnableInactiveReleaseInLoop PROVE IInv'
<1>1. /\ Step("enable", <<>>) /\ <<>> \in Seq({})
      /\ "enable" \in Statements \ ReleaseStatements
      /\ {} \in SUBSET (Statements \ ReleaseStatements)
  BY ShortSequences DEF EnableInactiveReleaseInLoop, Statements, Calls, ReleaseStatements, TaskKinds
<1>2. /\ enabled' = TRUE /\ timer' \in {"armed", timer} /\ due' = FALSE
      /\ UNCHANGED <<status, inBuf, outBuf, events, registered, owners, tasks, crashed,
                     peer, recvQ, writable, history>>
  BY DEF EnableInactiveReleaseInLoop
<1>3. /\ todo' \in Seq(Statements) /\ Among("enable", todo)
      /\ \A x \in ReleaseStatements : ~Among(x, todo) /\ ~Among(x, todo')
      /\ \A x : Among(x, todo') => Among(x, todo)
      /\ UNCHANGED <<phase, ready, revents, batch, others, sent>>
  BY <1>1, AmongLiterals, OrdinaryStep
<1>4. ReleasedOnce' /\ Owned' /\ Turns' /\ Released'
  BY <1>1, <1>2, OrdinaryKeeps DEF owners, history, conn
<1>5. timer' \in {"none", "armed", "muted"} /\ enabled' \in BOOLEAN /\ due' \in BOOLEAN
  BY <1>2 DEF IInv, Bounds, TypeOK
<1>6. TypeOK'
  BY <1>2, <1>3, <1>5 DEF IInv, Bounds, TypeOK, conn, owners, wheel, history
<1>7. Bounds'
  BY <1>2, <1>3, <1>6, <1>5 DEF IInv, Bounds, conn
<1>8. Interest'
  BY <1>2, <1>3, <1>5 DEF IInv, Interest, conn, history
<1>9. Draining'
  BY <1>2, <1>3, <1>5 DEF IInv, Draining, DrainsBeforeClose, ReleaseStatements, conn, history
<1> QED BY <1>4, <1>7, <1>8, <1>9 DEF IInv

\* CancelInactiveReleaseInLoop.
LEMMA CancelKeeps ==
  ASSUME IInv, CancelInactiveReleaseInLoop PROVE IInv'
<1>1. /\ Step("cancel", <<>>) /\ <<>> \in Seq({})
      /\ "cancel" \in Statements \ ReleaseStatements
      /\ {} \in SUBSET (Statements \ ReleaseStatements)
  BY ShortSequences DEF CancelInactiveReleaseInLoop, Statements, Calls, ReleaseStatements, TaskKinds
<1>2. /\ enabled' = FALSE /\ timer' \in {"none", "muted"}
      /\ UNCHANGED <<status, inBuf, outBuf, events, registered, due, owners, tasks, crashed,
                     peer, recvQ, writable, history>>
  BY DEF CancelInactiveReleaseInLoop
<1>3. /\ todo' \in Seq(Statements) /\ Among("cancel", todo)
      /\ \A x \in ReleaseStatements : ~Among(x, todo) /\ ~Among(x, todo')
      /\ \A x : Among(x, todo') => Among(x, todo)
      /\ UNCHANGED <<phase, ready, revents, batch, others, sent>>
  BY <1>1, AmongLiterals, OrdinaryStep
<1>4. ReleasedOnce' /\ Owned' /\ Turns' /\ Released'
  BY <1>1, <1>2, OrdinaryKeeps DEF owners, history, conn
<1>5. timer' \in {"none", "armed", "muted"} /\ enabled' \in BOOLEAN /\ due' \in BOOLEAN
  BY <1>2 DEF IInv, Bounds, TypeOK
<1>6. TypeOK'
  BY <1>2, <1>3, <1>5 DEF IInv, Bounds, TypeOK, conn, owners, wheel, history
<1>7. Bounds'
  BY <1>2, <1>3, <1>6, <1>5 DEF IInv, Bounds, conn
<1>8. Interest'
  BY <1>2, <1>3, <1>5 DEF IInv, Interest, conn, history
<1>9. Draining'
  BY <1>2, <1>3, <1>5 DEF IInv, Draining, DrainsBeforeClose, ReleaseStatements, conn, history
<1> QED BY <1>4, <1>7, <1>8, <1>9 DEF IInv

\* Release only queues the task.
LEMMA ReleaseKeeps ==
  ASSUME IInv, Release PROVE IInv'
<1>1. /\ Step("release", <<>>) /\ <<>> \in Seq({})
      /\ "release" \in Statements \ ReleaseStatements
      /\ {} \in SUBSET (Statements \ ReleaseStatements)
  BY ShortSequences DEF Release, Statements, Calls, ReleaseStatements, TaskKinds
<1>2. /\ tasks' = Append(tasks, "releaseInLoop")
      /\ UNCHANGED <<conn, wheel, owners, crashed, peer, recvQ, writable, history>>
  BY DEF Release, Post
<1>3. /\ todo' \in Seq(Statements) /\ Among("release", todo)
      /\ \A x \in ReleaseStatements : ~Among(x, todo) /\ ~Among(x, todo')
      /\ \A x : Among(x, todo') => Among(x, todo)
      /\ UNCHANGED <<phase, ready, revents, batch, others, sent>>
  BY <1>1, AmongLiterals, OrdinaryStep
<1>4. ReleasedOnce' /\ Owned' /\ Turns' /\ Released'
  BY <1>1, <1>2, OrdinaryKeeps DEF owners, history, conn
<1>5. /\ tasks' \in Seq(TaskKinds)
      /\ \A x : Among(x, tasks') <=> Among(x, tasks) \/ x = "releaseInLoop"
  <2>1. tasks \in Seq(TaskKinds) /\ "releaseInLoop" \in TaskKinds
    BY DEF IInv, Bounds, TypeOK, TaskKinds
  <2> QED BY <1>2, <2>1, AmongAppend
<1>6. TypeOK'
  BY <1>2, <1>3, <1>5 DEF IInv, Bounds, TypeOK, conn, owners, wheel, history
<1>7. Bounds'
  BY <1>2, <1>3, <1>6, <1>5 DEF IInv, Bounds, conn
<1>8. Interest'
  BY <1>2, <1>3, <1>5 DEF IInv, Interest, conn, history
<1>9. Draining'
  BY <1>2, <1>3, <1>5 DEF IInv, Draining, DrainsBeforeClose, ReleaseStatements, conn, history
<1> QED BY <1>4, <1>7, <1>8, <1>9 DEF IInv

\* The application takes its input.
LEMMA ConsumeKeeps ==
  ASSUME IInv, Consume PROVE IInv'
<1>1. /\ Step("consume", <<>>) /\ <<>> \in Seq({})
      /\ "consume" \in Statements \ ReleaseStatements
      /\ {} \in SUBSET (Statements \ ReleaseStatements)
  BY ShortSequences DEF Consume, Statements, Calls, ReleaseStatements, TaskKinds
<1>2. /\ inBuf' = 0
      /\ UNCHANGED <<status, enabled, outBuf, events, registered, wheel, owners, tasks,
                     crashed, peer, recvQ, writable, history>>
  BY DEF Consume
<1>3. /\ todo' \in Seq(Statements) /\ Among("consume", todo)
      /\ \A x \in ReleaseStatements : ~Among(x, todo) /\ ~Among(x, todo')
      /\ \A x : Among(x, todo') => Among(x, todo)
      /\ UNCHANGED <<phase, ready, revents, batch, others, sent>>
  BY <1>1, AmongLiterals, OrdinaryStep
<1>4. ReleasedOnce' /\ Owned' /\ Turns' /\ Released'
  BY <1>1, <1>2, OrdinaryKeeps DEF owners, history, conn
<1>5. 0 \in 0 .. MaxRecv /\ 0 + recvQ <= sent
  BY ConnectionAssumption DEF IInv, Bounds, TypeOK
<1>6. TypeOK'
  BY <1>2, <1>3, <1>5 DEF IInv, Bounds, TypeOK, conn, owners, wheel, history
<1>7. Bounds'
  BY <1>2, <1>3, <1>6, <1>5 DEF IInv, Bounds, conn
<1>8. Interest'
  BY <1>2, <1>3, <1>5 DEF IInv, Interest, conn, history
<1>9. Draining'
  BY <1>2, <1>3, <1>5 DEF IInv, Draining, DrainsBeforeClose, ReleaseStatements, conn, history
<1> QED BY <1>4, <1>7, <1>8, <1>9 DEF IInv

\* The message callback makes the calls of a plan.
LEMMA MessageKeeps ==
  ASSUME IInv, MessageCallback PROVE IInv'
<1>1. PICK plan \in MessagePlans :
        Step("message", plan) /\ abrupt' = (abrupt \/ Among("release", plan))
  BY DEF MessageCallback
<1>2. /\ plan \in Seq(Calls) /\ Calls \in SUBSET (Statements \ ReleaseStatements)
      /\ "message" \in Statements \ (ReleaseStatements \cup LateStatements)
  BY ConnectionAssumption
     DEF Statements, Calls, ReleaseStatements, LateStatements, TaskKinds
<1>3. /\ UNCHANGED <<conn, wheel, owners, tasks, crashed, peer, recvQ, writable, closedCalls, nudged>>
      /\ abrupt' \in BOOLEAN
  BY <1>1 DEF MessageCallback
<1>4. /\ todo' \in Seq(Statements)
      /\ \A x \in ReleaseStatements : ~Among(x, todo) /\ ~Among(x, todo')
      /\ \A x : Among(x, todo') => Among(x, plan) \/ Among(x, todo)
      /\ \A x : Among(x, plan) => x \in Calls
      /\ UNCHANGED <<phase, ready, revents, batch, others, sent>>
  BY <1>1, <1>2, OrdinaryStep
<1>5. status # "DISCONNECTED"
  BY <1>1, <1>2, NotReleased DEF Step
<1>6. ReleasedOnce' /\ Owned' /\ Turns' /\ Released'
  BY <1>1, <1>2, <1>3, <1>5, OrdinaryKeeps DEF owners, conn
<1>7. TypeOK'
  BY <1>3, <1>4 DEF IInv, Bounds, TypeOK, conn, owners, wheel
<1>8. Bounds'
  BY <1>3, <1>4, <1>7 DEF IInv, Bounds, conn
<1>9. Interest'
  BY <1>3, <1>4 DEF IInv, Interest, conn, Calls, history
<1>10. Draining'
  <2>1. ~abrupt' => ~abrupt /\ ~Among("release", plan)
    BY <1>1
  <2> QED BY <1>3, <1>4, <1>5, <2>1
          DEF IInv, Draining, DrainsBeforeClose, ReleaseStatements, conn, Calls
<1> QED BY <1>6, <1>8, <1>9, <1>10 DEF IInv

\* The connected callback does too, and may keep a pointer or let it go.
LEMMA ConnectedKeeps ==
  ASSUME IInv, ConnectedCallback PROVE IInv'
<1>1. PICK plan \in ConnectedPlans :
        Step("connected", plan) /\ abrupt' = (abrupt \/ Among("release", plan))
  BY DEF ConnectedCallback
<1>2. /\ plan \in Seq(Calls) /\ Calls \in SUBSET (Statements \ ReleaseStatements)
      /\ "connected" \in Statements \ (ReleaseStatements \cup LateStatements)
  BY ConnectionAssumption
     DEF Statements, Calls, ReleaseStatements, LateStatements, TaskKinds
<1>3. /\ UNCHANGED <<conn, wheel, accepting, inMap, removals, tasks, crashed, peer, recvQ,
                     writable, closedCalls, nudged>>
      /\ abrupt' \in BOOLEAN /\ kept' \in BOOLEAN
  BY <1>1 DEF ConnectedCallback
<1>4. /\ todo' \in Seq(Statements)
      /\ \A x \in ReleaseStatements : ~Among(x, todo) /\ ~Among(x, todo')
      /\ \A x : Among(x, todo') => Among(x, plan) \/ Among(x, todo)
      /\ \A x : Among(x, plan) => x \in Calls
      /\ UNCHANGED <<phase, ready, revents, batch, others, sent>>
  BY <1>1, <1>2, OrdinaryStep
<1>5. status # "DISCONNECTED"
  BY <1>1, <1>2, NotReleased DEF Step
<1>6. ReleasedOnce' /\ Owned' /\ Turns' /\ Released'
  BY <1>1, <1>2, <1>3, <1>5, OrdinaryKeeps DEF conn
<1>7. TypeOK'
  BY <1>3, <1>4 DEF IInv, Bounds, TypeOK, conn, wheel
<1>8. Bounds'
  BY <1>3, <1>4, <1>7 DEF IInv, Bounds, conn
<1>9. Interest'
  BY <1>3, <1>4 DEF IInv, Interest, conn, Calls, history
<1>10. Draining'
  <2>1. ~abrupt' => ~abrupt /\ ~Among("release", plan)
    BY <1>1
  <2> QED BY <1>3, <1>4, <1>5, <2>1
          DEF IInv, Draining, DrainsBeforeClose, ReleaseStatements, conn, Calls
<1> QED BY <1>6, <1>8, <1>9, <1>10 DEF IInv

\* The only loop's NewConnection puts the connection into the map.
LEMMA InsertKeeps ==
  ASSUME IInv, Insert PROVE IInv'
<1>1. /\ Step("insert", <<>>) /\ <<>> \in Seq({})
      /\ "insert" \in Statements \ (ReleaseStatements \cup LateStatements)
      /\ {} \in SUBSET (Statements \ ReleaseStatements)
  BY ShortSequences DEF Insert, Statements, Calls, ReleaseStatements, LateStatements, TaskKinds
<1>2. /\ inMap' = TRUE /\ accepting' = "done"
      /\ UNCHANGED <<conn, wheel, removals, kept, tasks, crashed, peer, recvQ, writable,
                     history>>
  BY DEF Insert
<1>3. /\ todo \notin ReleaseTodos /\ todo # <<>> /\ todo' \notin ReleaseTodos
      /\ todo' \in Seq(Statements)
      /\ \A x \in ReleaseStatements : ~Among(x, todo) /\ ~Among(x, todo')
      /\ \A x : Among(x, todo') => Among(x, todo)
      /\ UNCHANGED <<phase, ready, revents, batch, others, sent>>
  BY <1>1, AmongLiterals, OrdinaryStep
<1>4. status # "DISCONNECTED"
  BY <1>1, NotReleased DEF Step
<1>5. TypeOK'
  BY <1>2, <1>3 DEF IInv, Bounds, TypeOK, conn, wheel, history
<1>6. Bounds'
  BY <1>2, <1>3, <1>5 DEF IInv, Bounds, conn
<1>7. Interest' /\ Draining'
  BY <1>2, <1>3 DEF IInv, Interest, Draining, DrainsBeforeClose, ReleaseStatements, conn, history
<1>8. ReleasedOnce'
  BY <1>2, <1>3 DEF IInv, ReleasedOnce, ReleaseTodos, conn, history
<1>9. Owned'
  BY <1>2, <1>3, <1>4 DEF IInv, Owned, conn
<1>10. Turns'
  <2>1. accepting # "none"
    BY <1>3 DEF IInv, Owned
  <2> QED BY <1>2, <1>3, <2>1 DEF IInv, Turns, conn
<1>11. Released'
  BY <1>2, <1>4 DEF Released, conn
<1> QED BY <1>6, <1>7, <1>8, <1>9, <1>10, <1>11 DEF IInv

\* A statement of a release is all there is to do.
LEMMA ReleaseStep ==
  ASSUME IInv, NEW op \in ReleaseStatements, NEW first, Step(op, first)
  PROVE  /\ todo \in ReleaseTodos /\ op = Head(todo) /\ todo' = first \o Tail(todo)
         /\ phase = "run" /\ ready = {} /\ accepting # "none"
         /\ UNCHANGED <<phase, ready, revents, batch, others, sent>>
<1>1. /\ todo \in Seq(Statements) /\ todo # <<>> /\ Head(todo) = op
      /\ todo' = first \o Tail(todo)
      /\ UNCHANGED <<phase, ready, revents, batch, others, sent>>
  BY DEF IInv, Bounds, TypeOK, Step, place
<1>2. Among(op, todo)
  BY <1>1, AmongTail
<1>3. todo \in ReleaseTodos /\ phase = "run"
  BY <1>2 DEF IInv, ReleasedOnce
<1> QED BY <1>1, <1>3 DEF IInv, Turns, Owned

LEMMA ReleaseInLoopKeeps ==
  ASSUME IInv, ReleaseInLoop PROVE IInv'
<1>1. /\ \/ status = "DISCONNECTED" /\ Step("releaseInLoop", <<>>) /\ UNCHANGED <<conn, timer>>
         \/ status # "DISCONNECTED" /\ Step("releaseInLoop", Closing) /\ Close(timer # "none")
      /\ UNCHANGED <<due, owners, tasks, crashed, peer, recvQ, writable, history>>
  BY DEF ReleaseInLoop, Closing
<1>2. todo = Asked /\ phase = "run" /\ ready = {} /\ accepting # "none"
      /\ UNCHANGED <<phase, ready, revents, batch, others, sent>>
  <2>1. "releaseInLoop" \in ReleaseStatements
    BY DEF ReleaseStatements
  <2>2. /\ todo \in ReleaseTodos /\ "releaseInLoop" = Head(todo)
        /\ phase = "run" /\ ready = {} /\ accepting # "none"
        /\ UNCHANGED <<phase, ready, revents, batch, others, sent>>
    BY <1>1, <2>1, ReleaseStep
  <2>3. todo = Asked
    BY <2>2, ReleaseTodoFacts DEF ReleaseTodos
  <2> QED BY <2>2, <2>3
<1>3. CASE status = "DISCONNECTED"
  <2>1. /\ todo' = <<>> /\ UNCHANGED <<conn, timer>>
    <3>1. todo' = <<>> \o Tail(todo)
      BY <1>1, <1>3 DEF Step
    <3> QED BY <1>1, <1>2, <1>3, <3>1, ReleaseTodoFacts
  <2>2. todo' \in Seq(Statements) /\ todo' \notin ReleaseTodos /\ \A x : ~Among(x, todo')
    BY <2>1, ReleaseTodoFacts, ShortSequences, AmongLiterals
  <2>3. todo \notin {Closing, Removing}
    BY <1>2, ReleaseTodoFacts
  <2>4. TypeOK'
    BY <1>1, <1>2, <2>1, <2>2 DEF IInv, Bounds, TypeOK, conn, owners, history
  <2>5. Bounds'
    BY <1>1, <1>2, <2>1, <2>4 DEF IInv, Bounds, conn
  <2>6. Interest'
    BY <1>1, <2>1, <2>2 DEF IInv, Interest, conn, history
  <2>7. Draining'
    BY <1>1, <1>2, <2>1, <2>2 DEF IInv, Draining, DrainsBeforeClose, conn, history
  <2>8. ReleasedOnce' /\ Owned' /\ Turns' /\ Released'
    BY <1>1, <1>2, <1>3, <2>1, <2>2, <2>3
       DEF IInv, ReleasedOnce, Owned, Turns, Released, ReleaseTodos, conn, owners, history
  <2> QED BY <2>5, <2>6, <2>7, <2>8 DEF IInv
<1>4. CASE status # "DISCONNECTED"
  <2>1. todo' = Closing
    <3>1. todo' = Closing \o Tail(todo)
      BY <1>1, <1>4 DEF Step
    <3>2. Closing \o <<>> = Closing
      BY ConcatEmptySeq DEF Closing
    <3> QED BY <1>2, <3>1, <3>2, ReleaseTodoFacts
  <2>2. /\ status' = "DISCONNECTED" /\ registered' = FALSE /\ timer' \in {timer, "muted"}
        /\ enabled' \in {enabled, FALSE} /\ UNCHANGED <<inBuf, outBuf, events>>
    BY <1>1, <1>4 DEF Close
  <2>3. todo' \in Seq(Statements) /\ todo' \in ReleaseTodos
    BY <2>1, ShortSequences DEF Closing, Statements, Calls, TaskKinds, ReleaseTodos
  <2>4. \A x : Among(x, todo') <=> x \in {"closed", "removeConnection"}
    BY <2>1, AmongLiterals DEF Closing
  <2>5. todo # Closing /\ todo # Removing /\ Among("releaseInLoop", todo)
    BY <1>2, ReleaseTodoFacts, AmongLiterals DEF Asked
  <2>6. enabled' \in BOOLEAN /\ timer' \in {"none", "armed", "muted"}
    BY <2>2 DEF IInv, Bounds, TypeOK
  <2>7. TypeOK'
    BY <1>1, <1>2, <2>2, <2>3, <2>6 DEF IInv, Bounds, TypeOK, owners, history
  <2>8. Bounds'
    BY <1>1, <1>2, <2>2, <2>7 DEF IInv, Bounds
  <2>9. Interest'
    BY <1>1, <2>2, <2>4 DEF IInv, Interest, history
  <2>10. Draining'
    BY <1>1, <1>2, <2>2, <2>4, <2>5 DEF IInv, Draining, DrainsBeforeClose, history
  <2>11. ReleasedOnce'
    BY <1>1, <1>2, <1>4, <2>1, <2>2, <2>3, <2>5 DEF IInv, ReleasedOnce, history
  <2>12. Owned' /\ Turns' /\ Released'
    BY <1>1, <1>2, <1>4, <2>1, <2>2, <2>3 DEF IInv, Owned, Turns, Released, owners
  <2> QED BY <2>8, <2>9, <2>10, <2>11, <2>12 DEF IInv
<1> QED BY <1>3, <1>4

\* The closed callback is run once, right behind the release.
LEMMA ClosedKeeps ==
  ASSUME IInv, Closed PROVE IInv'
<1>1. /\ Step("closed", <<>>) /\ closedCalls' = closedCalls + 1
      /\ UNCHANGED <<conn, wheel, owners, tasks, crashed, peer, recvQ, writable, abrupt, nudged>>
  BY DEF Closed
<1>2. /\ todo = Closing /\ todo' = Removing /\ phase = "run" /\ ready = {}
      /\ accepting # "none"
      /\ UNCHANGED <<phase, ready, revents, batch, others, sent>>
  <2>1. "closed" \in ReleaseStatements
    BY DEF ReleaseStatements
  <2>2. /\ todo \in ReleaseTodos /\ "closed" = Head(todo) /\ todo' = <<>> \o Tail(todo)
        /\ phase = "run" /\ ready = {} /\ accepting # "none"
        /\ UNCHANGED <<phase, ready, revents, batch, others, sent>>
    BY <1>1, <2>1, ReleaseStep
  <2>3. todo = Closing
    BY <2>2, ReleaseTodoFacts DEF ReleaseTodos
  <2>4. todo' = Removing
    BY <2>2, <2>3, ReleaseTodoFacts DEF Removing
  <2> QED BY <2>2, <2>3, <2>4
<1>3. /\ todo' \in Seq(Statements) /\ todo' \in ReleaseTodos /\ todo' # Closing
      /\ \A x : Among(x, todo') <=> x = "removeConnection"
  BY <1>2, ReleaseTodoFacts, ShortSequences, AmongLiterals
     DEF Removing, Statements, Calls, TaskKinds, ReleaseTodos
<1>4. status = "DISCONNECTED" /\ closedCalls = 0 /\ closedCalls' = 1
  BY <1>1, <1>2 DEF IInv, ReleasedOnce
<1>5. TypeOK'
  BY <1>1, <1>2, <1>3, <1>4 DEF IInv, Bounds, TypeOK, conn, wheel, owners
<1>6. Bounds'
  BY <1>1, <1>2, <1>5 DEF IInv, Bounds, conn
<1>7. Interest'
  BY <1>1, <1>3 DEF IInv, Interest, conn, history
<1>8. Draining'
  BY <1>1, <1>2, <1>3 DEF IInv, Draining, DrainsBeforeClose, conn
<1>9. ReleasedOnce' /\ Owned' /\ Turns' /\ Released'
  BY <1>1, <1>2, <1>3, <1>4 DEF IInv, ReleasedOnce, Owned, Turns, Released, conn, wheel, owners
<1> QED BY <1>6, <1>7, <1>8, <1>9 DEF IInv

LEMMA RemoveKeeps ==
  ASSUME IInv, RemoveConnection PROVE IInv'
<1>1. /\ Step("removeConnection", <<>>)
      /\ IF SingleLoop THEN inMap' = FALSE /\ UNCHANGED removals
                       ELSE removals' = removals + 1 /\ UNCHANGED inMap
      /\ UNCHANGED <<conn, wheel, accepting, kept, tasks, crashed, peer, recvQ, writable,
                     history>>
  BY DEF RemoveConnection
<1>2. /\ todo = Removing /\ todo' = <<>> /\ phase = "run" /\ ready = {}
      /\ accepting # "none"
      /\ UNCHANGED <<phase, ready, revents, batch, others, sent>>
  <2>1. "removeConnection" \in ReleaseStatements
    BY DEF ReleaseStatements
  <2>2. /\ todo \in ReleaseTodos /\ "removeConnection" = Head(todo)
        /\ todo' = <<>> \o Tail(todo)
        /\ phase = "run" /\ ready = {} /\ accepting # "none"
        /\ UNCHANGED <<phase, ready, revents, batch, others, sent>>
    BY <1>1, <2>1, ReleaseStep
  <2>3. todo = Removing
    BY <2>2, ReleaseTodoFacts DEF ReleaseTodos
  <2>4. todo' = <<>>
    BY <2>2, <2>3, ReleaseTodoFacts
  <2> QED BY <2>2, <2>3, <2>4
<1>3. /\ todo' \in Seq(Statements) /\ todo' \notin ReleaseTodos /\ \A x : ~Among(x, todo')
      /\ todo # Closing
  BY <1>2, ReleaseTodoFacts, ShortSequences, AmongLiterals
<1>4. status = "DISCONNECTED" /\ removals = 0
  BY <1>2 DEF IInv, ReleasedOnce, Owned, Bounds, TypeOK
<1>5. removals' \in 0 .. 1 /\ inMap' \in BOOLEAN /\ (~SingleLoop => removals' > 0)
  <2>1. removals' \in {0, 1} /\ (~SingleLoop => removals' = 1)
    BY <1>1, <1>4
  <2>2. inMap' \in {inMap, FALSE}
    BY <1>1
  <2>3. inMap' \in BOOLEAN
    BY <2>2 DEF IInv, Bounds, TypeOK
  <2> QED BY <2>1, <2>3
<1>6. TypeOK'
  BY <1>1, <1>2, <1>3, <1>5 DEF IInv, Bounds, TypeOK, conn, wheel, history
<1>7. Bounds'
  BY <1>1, <1>2, <1>6 DEF IInv, Bounds, conn
<1>8. Interest'
  BY <1>1, <1>3 DEF IInv, Interest, conn, history
<1>9. Draining'
  BY <1>1, <1>2, <1>3 DEF IInv, Draining, DrainsBeforeClose, conn, history
<1>10. ReleasedOnce'
  BY <1>1, <1>2, <1>3 DEF IInv, ReleasedOnce, conn, history, ReleaseTodos
<1>11. Owned'
  <2>1. todo' \notin {Closing, Removing}
    BY <1>3 DEF ReleaseTodos
  <2> QED BY <1>1, <1>2, <1>4, <1>5, <2>1 DEF IInv, Owned, conn
<1>12. Turns' /\ Released'
  BY <1>1, <1>2, <1>3, <1>4 DEF IInv, Turns, Released, conn
<1> QED BY <1>7, <1>8, <1>9, <1>10, <1>11, <1>12 DEF IInv

\* Every statement of the io thread.
LEMMA StatementKeeps ==
  ASSUME IInv, Statement PROVE IInv'
BY ReadKeeps, WriteFailsKeeps, CloseKeeps, EventKeeps, WriteKeeps, EstablishedKeeps,
   ReleaseInLoopKeeps, ClosedKeeps, RemoveKeeps, ShutdownKeeps, EndShutdownKeeps, SendKeeps,
   SendNothingKeeps, EnableKeeps, CancelKeeps, ReleaseKeeps, MessageKeeps, ConsumeKeeps, ConnectedKeeps,
   InsertKeeps DEF Statement

-----------------------------------------------------------------------------
(* Steps of the loops, of the application and of the peer                    *)

\* A sequence of ordinary statements is no part of a release.
LEMMA OrdinaryTodo ==
  ASSUME NEW S \in SUBSET (Statements \ ReleaseStatements), NEW s \in Seq(S)
  PROVE  /\ s \in Seq(Statements) /\ s \notin ReleaseTodos
         /\ \A x : Among(x, s) => x \in S /\ x \notin ReleaseStatements
<1>1. s \in Seq(Statements) /\ \A x : Among(x, s) => x \in S
  BY SeqMonotonic, AmongRange
<1>2. ASSUME s \in ReleaseTodos PROVE FALSE
  <2>1. s # <<>> /\ Head(s) \in ReleaseStatements
    BY <1>2, ReleaseTodoFacts
  <2>2. Among(Head(s), s)
    BY <1>1, <2>1, AmongTail
  <2> QED BY <1>1, <2>1, <2>2
<1> QED BY <1>1, <1>2

LEMMA PollKeeps ==
  ASSUME IInv, Poll PROVE IInv'
<1>1. /\ todo = <<>> /\ phase = "poll" /\ phase' = "handle" /\ revents' = Reported
      /\ ready' \subseteq {"conn", "timer", "listen"}
      /\ "conn" \in ready' => registered
      /\ "timer" \in ready' => due
      /\ "listen" \in ready' => SingleLoop /\ accepting = "none"
      /\ UNCHANGED <<conn, wheel, owners, kernel, others, history, todo, tasks, batch, crashed>>
  BY DEF Poll, AtRest, world
<1>2. revents' \subseteq {"IN", "OUT", "ERR", "HUP"}
  BY <1>1 DEF Reported
<1>3. TypeOK'
  BY <1>1, <1>2 DEF IInv, Bounds, TypeOK, conn, wheel, owners, kernel, history
<1>4. Bounds'
  BY <1>1, <1>3 DEF IInv, Bounds, conn, kernel
<1>5. Interest' /\ Draining'
  BY <1>1 DEF IInv, Interest, Draining, DrainsBeforeClose, conn, history
<1>6. todo \notin ReleaseTodos
  BY <1>1, ReleaseTodoFacts
<1>7. ReleasedOnce' /\ Owned' /\ Released'
  BY <1>1, <1>6 DEF IInv, ReleasedOnce, Owned, Released, conn, wheel, owners, history
<1>8. Turns'
  BY <1>1 DEF IInv, Turns, Interest, conn, owners
<1> QED BY <1>4, <1>5, <1>7, <1>8 DEF IInv

\* The handlers of a descriptor that was registered when the loop asked.
LEMMA ChannelEventKeeps ==
  ASSUME IInv, ChannelEvent PROVE IInv'
<1> DEFINE S == {"close", "read", "write", "event"}
<1>1. /\ todo = <<>> /\ phase = "handle" /\ "conn" \in ready /\ ready' = ready \ {"conn"}
      /\ UNCHANGED <<conn, wheel, owners, kernel, others, history, phase, revents, tasks,
                     batch, crashed>>
  BY DEF ChannelEvent, AtRest, world
<1>2. todo' \in Seq(S)
  <2>1. /\ <<>> \in Seq(S) /\ <<"close">> \in Seq(S) /\ <<"read", "close">> \in Seq(S)
        /\ <<"read">> \in Seq(S) /\ <<"write">> \in Seq(S) /\ <<"event">> \in Seq(S)
    BY ShortSequences
  <2> DEFINE in == IF "IN" \in revents THEN <<"read">> ELSE <<>>
             out == IF "OUT" \in revents THEN <<"write">> ELSE <<>>
  <2>2. in \in Seq(S) /\ out \in Seq(S)
    BY <2>1
  <2>3. \/ todo' \in Seq(S)
        \/ todo' = in \o out \o <<"event">>
    BY <2>1 DEF ChannelEvent
  <2> HIDE DEF in, out, S
  <2>4. in \o out \in Seq(S)
    BY <2>2, ConcatProperties
  <2>5. in \o out \o <<"event">> \in Seq(S)
    BY <2>1, <2>4, ConcatProperties
  <2> QED BY <2>3, <2>5
<1>3. S \in SUBSET (Statements \ ReleaseStatements)
  BY DEF Statements, ReleaseStatements
<1>4. /\ todo' \in Seq(Statements) /\ todo' \notin ReleaseTodos
      /\ \A x : Among(x, todo') => x \in S /\ x \notin ReleaseStatements
  BY <1>2, <1>3, OrdinaryTodo
<1>5. status \in {"CONNECTED", "DISCONNECTING"} /\ accepting # "none"
  BY <1>1 DEF IInv, Turns, Owned
<1>6. todo \notin ReleaseTodos
  BY <1>1, ReleaseTodoFacts
<1>7. TypeOK'
  BY <1>1, <1>4 DEF IInv, Bounds, TypeOK, conn, wheel, owners, kernel, history
<1>8. Bounds'
  BY <1>1, <1>7 DEF IInv, Bounds, conn, kernel
<1>9. Interest'
  BY <1>1, <1>5 DEF IInv, Interest, conn, history
<1>10. Draining'
  BY <1>1, <1>4 DEF IInv, Draining, DrainsBeforeClose, ReleaseStatements, conn, history
<1>11. ReleasedOnce'
  BY <1>1, <1>4, <1>5, <1>6 DEF IInv, ReleasedOnce, ReleaseTodos, conn, history
<1>12. Owned' /\ Turns' /\ Released'
  BY <1>1, <1>5 DEF IInv, Owned, Turns, Released, conn, wheel, owners
<1> QED BY <1>8, <1>9, <1>10, <1>11, <1>12 DEF IInv

\* A task is queued.
LEMMA PostTypes ==
  ASSUME IInv, NEW op \in TaskKinds, Post(op)
  PROVE  /\ tasks' \in Seq(TaskKinds)
         /\ \A x : Among(x, tasks') <=> Among(x, tasks) \/ x = op
<1>1. tasks \in Seq(TaskKinds)
  BY DEF IInv, Bounds, TypeOK
<1> QED BY <1>1, AmongAppend DEF Post

LEMMA OnTimeKeeps ==
  ASSUME IInv, OnTime PROVE IInv'
<1>1. /\ todo = <<>> /\ phase = "handle" /\ "timer" \in ready /\ ready' = ready \ {"timer"}
      /\ \/ timer' = "none" /\ due' = FALSE /\ Post("releaseInLoop") /\ abrupt' = TRUE
         \/ timer' = "none" /\ due' = FALSE /\ UNCHANGED <<tasks, abrupt>>
         \/ UNCHANGED <<timer, due, tasks, abrupt>>
      /\ UNCHANGED <<conn, owners, phase, revents, todo, batch, crashed, kernel, others,
                     closedCalls, nudged>>
  BY DEF OnTime, AtRest
<1>2. /\ tasks' \in Seq(TaskKinds)
      /\ \A x : Among(x, tasks') => Among(x, tasks) \/ (x = "releaseInLoop" /\ abrupt')
      /\ abrupt => abrupt'
  <2>1. "releaseInLoop" \in TaskKinds /\ tasks \in Seq(TaskKinds)
    BY DEF TaskKinds, IInv, Bounds, TypeOK
  <2>2. CASE UNCHANGED <<tasks, abrupt>>
    <3>1. tasks' = tasks /\ abrupt' = abrupt
      BY <2>2
    <3>2. tasks' \in Seq(TaskKinds) /\ \A x : Among(x, tasks') => Among(x, tasks)
      BY <2>1, <3>1
    <3>3. abrupt => abrupt'
      BY <3>1
    <3> QED BY <3>2, <3>3
  <2>3. CASE Post("releaseInLoop") /\ abrupt' = TRUE
    BY <2>1, <2>3, PostTypes
  <2> QED BY <1>1, <2>2, <2>3
<1>3. timer' \in {"none", timer} /\ due' \in BOOLEAN /\ abrupt' \in BOOLEAN
  BY <1>1 DEF IInv, Bounds, TypeOK
<1>4. accepting # "none"
  BY <1>1 DEF IInv, Owned
<1>5. TypeOK'
  BY <1>1, <1>2, <1>3 DEF IInv, Bounds, TypeOK, conn, owners, kernel
<1>6. Bounds'
  BY <1>1, <1>5 DEF IInv, Bounds, conn, kernel
<1>7. Interest' /\ Released'
  BY <1>1 DEF IInv, Interest, Released, conn, owners, history
<1>8. Draining'
  BY <1>1, <1>2 DEF IInv, Draining, DrainsBeforeClose, conn
<1>9. ReleasedOnce' /\ Owned' /\ Turns'
  BY <1>1, <1>4 DEF IInv, ReleasedOnce, Owned, Turns, conn, owners
<1> QED BY <1>6, <1>7, <1>8, <1>9 DEF IInv

\* The only loop accepts the connection.
LEMMA NewConnectionInlineKeeps ==
  ASSUME IInv, NewConnectionInline PROVE IInv'
<1> DEFINE S == {"enable", "established", "insert"}
<1>1. /\ todo = <<>> /\ phase = "handle" /\ "listen" \in ready /\ ready' = ready \ {"listen"}
      /\ accepting' = "created"
      /\ UNCHANGED <<conn, wheel, inMap, removals, kept, phase, revents, tasks, batch,
                     crashed, kernel, others, history>>
  BY DEF NewConnectionInline, AtRest
<1>2. todo' \in Seq(S)
  <2>1. /\ <<>> \in Seq(S) /\ <<"enable">> \in Seq(S) /\ <<"established", "insert">> \in Seq(S)
    BY ShortSequences
  <2> DEFINE early == IF ServerTimeout THEN <<"enable">> ELSE <<>>
  <2>2. early \in Seq(S) /\ todo' = early \o <<"established", "insert">>
    BY <2>1 DEF NewConnectionInline
  <2> HIDE DEF early, S
  <2> QED BY <2>1, <2>2, ConcatProperties
<1>3. S \in SUBSET (Statements \ ReleaseStatements)
  BY DEF Statements, TaskKinds, ReleaseStatements
<1>4. /\ todo' \in Seq(Statements) /\ todo' \notin ReleaseTodos
      /\ \A x : Among(x, todo') => x \in S /\ x \notin ReleaseStatements
  BY <1>2, <1>3, OrdinaryTodo
<1>5. accepting = "none" /\ status = "CONNECTING"
  BY <1>1 DEF IInv, Turns, Owned
<1>6. todo \notin ReleaseTodos
  BY <1>1, ReleaseTodoFacts
<1>7. TypeOK'
  BY <1>1, <1>4 DEF IInv, Bounds, TypeOK, conn, wheel, kernel, history
<1>8. Bounds'
  BY <1>1, <1>7 DEF IInv, Bounds, conn, kernel
<1>9. Interest'
  BY <1>1, <1>4, <1>5 DEF IInv, Interest, conn, history
<1>10. Draining'
  BY <1>1, <1>4 DEF IInv, Draining, DrainsBeforeClose, ReleaseStatements, conn, history
<1>11. ReleasedOnce'
  BY <1>1, <1>4, <1>5, <1>6 DEF IInv, ReleasedOnce, ReleaseTodos, conn, history
<1>12. Owned'
  BY <1>1, <1>5 DEF IInv, Owned, conn
<1>13. Turns'
  BY <1>1, <1>5 DEF IInv, Turns, conn
<1>14. Released'
  BY <1>1, <1>5 DEF Released, conn
<1> QED BY <1>8, <1>9, <1>10, <1>11, <1>12, <1>13, <1>14 DEF IInv

LEMMA SwapTasksKeeps ==
  ASSUME IInv, SwapTasks PROVE IInv'
<1>1. /\ todo = <<>> /\ phase = "handle" /\ ready = {} /\ phase' = "run"
      /\ batch' = tasks /\ tasks' = <<>>
      /\ UNCHANGED <<conn, wheel, owners, kernel, others, history, ready, revents, todo,
                     crashed>>
  BY DEF SwapTasks, AtRest, world
<1>2. tasks' \in Seq(TaskKinds) /\ \A x : ~Among(x, tasks')
  BY <1>1, ShortSequences, AmongLiterals
<1>3. todo \notin ReleaseTodos
  BY <1>1, ReleaseTodoFacts
<1>4. TypeOK'
  BY <1>1, <1>2 DEF IInv, Bounds, TypeOK, conn, wheel, owners, kernel, history
<1>5. Bounds'
  BY <1>1, <1>4 DEF IInv, Bounds, conn, kernel
<1>6. Interest' /\ Draining'
  BY <1>1, <1>2 DEF IInv, Interest, Draining, DrainsBeforeClose, conn, history
<1>7. ReleasedOnce' /\ Turns'
  BY <1>1, <1>3 DEF IInv, ReleasedOnce, Turns, conn, owners, history
<1>8. Owned' /\ Released'
  BY <1>1 DEF IInv, Owned, Released, conn, wheel, owners
<1> QED BY <1>5, <1>6, <1>7, <1>8 DEF IInv

\* The head of the batch, and what stays.
LEMMA BatchFacts ==
  ASSUME IInv, batch # <<>>
  PROVE  /\ Head(batch) \in TaskKinds /\ Tail(batch) \in Seq(TaskKinds)
         /\ Among(Head(batch), batch)
         /\ \A x : Among(x, Tail(batch)) => Among(x, batch)
         /\ accepting # "none" /\ phase = "run"
<1>1. batch \in Seq(TaskKinds)
  BY DEF IInv, Bounds, TypeOK
<1> QED BY <1>1, AmongTail DEF IInv, Owned, Turns

LEMMA RunTaskKeeps ==
  ASSUME IInv, RunTask PROVE IInv'
<1>1. /\ todo = <<>> /\ batch # <<>> /\ batch' = Tail(batch) /\ todo' = <<Head(batch)>>
      /\ UNCHANGED <<conn, wheel, owners, kernel, others, history, phase, ready, revents,
                     tasks, crashed>>
  BY DEF RunTask, AtRest, world
<1>2. /\ Head(batch) \in TaskKinds /\ batch' \in Seq(TaskKinds) /\ Among(Head(batch), batch)
      /\ \A x : Among(x, batch') => Among(x, batch)
      /\ accepting # "none" /\ phase = "run" /\ ready = {}
  BY <1>1, BatchFacts DEF IInv, Turns
<1>3. /\ todo' \in Seq(Statements) /\ todo' # <<>>
      /\ \A x : Among(x, todo') <=> x = Head(batch)
  <2>1. Head(batch) \in Statements
    BY <1>2 DEF Statements
  <2> QED BY <1>1, <2>1, ShortSequences, AmongLiterals
<1>4. /\ todo' \notin {Closing, Removing} /\ todo \notin ReleaseTodos
      /\ Among("releaseInLoop", todo') => todo' = Asked
  <2>1. Head(todo') = Head(batch)
    BY <1>1
  <2>2. todo' \notin {Closing, Removing}
    BY <1>2, <2>1, ReleaseTodoFacts DEF TaskKinds
  <2> QED BY <1>1, <1>3, <2>2, ReleaseTodoFacts DEF Asked
<1>5. TypeOK'
  BY <1>1, <1>2, <1>3 DEF IInv, Bounds, TypeOK, conn, wheel, owners, kernel, history
<1>6. Bounds'
  BY <1>1, <1>5 DEF IInv, Bounds, conn, kernel
<1>7. Interest'
  BY <1>1, <1>2, <1>3 DEF IInv, Interest, conn, TaskKinds, history
<1>8. Draining'
  BY <1>1, <1>2, <1>3 DEF IInv, Draining, DrainsBeforeClose, conn, history, TaskKinds
<1>9. ReleasedOnce'
  BY <1>1, <1>2, <1>3, <1>4
     DEF IInv, ReleasedOnce, ReleaseTodos, ReleaseStatements, conn, history, TaskKinds
<1>10. Owned' /\ Turns'
  BY <1>1, <1>2, <1>4 DEF IInv, Owned, Turns, ReleaseTodos, conn, wheel, owners
<1>11. Released'
  BY <1>1, <1>2, <1>3 DEF IInv, Released, LateStatements, conn, owners
<1> QED BY <1>6, <1>7, <1>8, <1>9, <1>10, <1>11 DEF IInv

\* A task for memory that was freed is taken off the batch all the same.
LEMMA RunTaskOnFreedKeeps ==
  ASSUME IInv, RunTaskOnFreed PROVE IInv'
<1>1. /\ todo = <<>> /\ batch # <<>> /\ batch' = Tail(batch) /\ crashed' \in BOOLEAN
      /\ UNCHANGED <<conn, wheel, owners, kernel, others, history, phase, ready, revents,
                     todo, tasks>>
  BY DEF RunTaskOnFreed, AtRest, world
<1>2. /\ batch' \in Seq(TaskKinds) /\ \A x : Among(x, batch') => Among(x, batch)
      /\ accepting # "none" /\ phase = "run"
  BY <1>1, BatchFacts
<1>3. TypeOK'
  BY <1>1, <1>2 DEF IInv, Bounds, TypeOK, conn, wheel, owners, kernel, history
<1>4. Bounds'
  BY <1>1, <1>3 DEF IInv, Bounds, conn, kernel
<1>5. Interest' /\ Draining'
  BY <1>1, <1>2 DEF IInv, Interest, Draining, DrainsBeforeClose, conn, history
<1>6. ReleasedOnce' /\ Owned' /\ Turns' /\ Released'
  BY <1>1, <1>2 DEF IInv, ReleasedOnce, Owned, Turns, Released, conn, wheel, owners, history
<1> QED BY <1>4, <1>5, <1>6 DEF IInv

LEMMA BatchDoneKeeps ==
  ASSUME IInv, BatchDone PROVE IInv'
<1>1. /\ todo = <<>> /\ batch = <<>> /\ phase = "run" /\ phase' = "poll"
      /\ UNCHANGED <<conn, wheel, owners, kernel, others, history, ready, revents, todo,
                     tasks, batch, crashed>>
  BY DEF BatchDone, AtRest, world
<1>2. todo \notin ReleaseTodos
  BY <1>1, ReleaseTodoFacts
<1>3. TypeOK'
  BY <1>1 DEF IInv, Bounds, TypeOK, conn, wheel, owners, kernel, history
<1>4. Bounds'
  BY <1>1, <1>3 DEF IInv, Bounds, conn, kernel
<1>5. Interest' /\ Draining'
  BY <1>1 DEF IInv, Interest, Draining, DrainsBeforeClose, conn, history
<1>6. ReleasedOnce' /\ Owned' /\ Turns' /\ Released'
  BY <1>1, <1>2 DEF IInv, ReleasedOnce, Owned, Turns, Released, conn, wheel, owners, history
<1> QED BY <1>4, <1>5, <1>6 DEF IInv

\* The base loop accepts, announces and inserts the connection, and removes it.
LEMMA BaseLoopKeeps ==
  ASSUME IInv, BaseLoop PROVE IInv'
<1>1. CASE NewConnection
  <2>1. /\ accepting = "none" /\ accepting' = "created" /\ (Post("enable") \/ UNCHANGED tasks)
        /\ UNCHANGED <<conn, wheel, inMap, removals, kept, place, todo, crashed, kernel,
                       others, history>>
    BY <1>1 DEF NewConnection
  <2>2. /\ tasks' \in Seq(TaskKinds)
        /\ \A x : Among(x, tasks') => Among(x, tasks) \/ x = "enable"
    <3>1. "enable" \in TaskKinds /\ tasks \in Seq(TaskKinds)
      BY DEF TaskKinds, IInv, Bounds, TypeOK
    <3> QED BY <2>1, <3>1, PostTypes
  <2>3. "listen" \notin ready
    BY <1>1 DEF IInv, Turns, NewConnection
  <2>4. TypeOK'
    BY <2>1, <2>2 DEF IInv, Bounds, TypeOK, conn, wheel, place, kernel, history
  <2>5. Bounds'
    BY <2>1, <2>4 DEF IInv, Bounds, conn, kernel
  <2>6. Interest' /\ Draining'
    BY <2>1, <2>2 DEF IInv, Interest, Draining, DrainsBeforeClose, conn, place, history
  <2>7. ReleasedOnce' /\ Owned' /\ Released'
    BY <2>1 DEF IInv, ReleasedOnce, Owned, Released, conn, place, history
  <2>8. Turns'
    BY <2>1, <2>3 DEF IInv, Turns, conn, place
  <2> QED BY <2>5, <2>6, <2>7, <2>8 DEF IInv
<1>2. CASE PostEstablished
  <2>1. /\ accepting = "created" /\ accepting' = "posted" /\ Post("established")
        /\ UNCHANGED <<conn, wheel, inMap, removals, kept, place, todo, crashed, kernel,
                       others, history>>
    BY <1>2 DEF PostEstablished
  <2>2. /\ tasks' \in Seq(TaskKinds)
        /\ \A x : Among(x, tasks') => Among(x, tasks) \/ x = "established"
    <3>1. "established" \in TaskKinds
      BY DEF TaskKinds
    <3> QED BY <2>1, <3>1, PostTypes
  <2>3. TypeOK'
    BY <2>1, <2>2 DEF IInv, Bounds, TypeOK, conn, wheel, place, kernel, history
  <2>4. Bounds'
    BY <2>1, <2>3 DEF IInv, Bounds, conn, kernel
  <2>5. Interest' /\ Draining'
    BY <2>1, <2>2 DEF IInv, Interest, Draining, DrainsBeforeClose, conn, place, history
  <2>6. ReleasedOnce' /\ Owned' /\ Turns' /\ Released'
    BY <2>1 DEF IInv, ReleasedOnce, Owned, Turns, Released, conn, place, history
  <2> QED BY <2>4, <2>5, <2>6 DEF IInv
<1>3. CASE InsertConnection
  <2>1. /\ accepting = "posted" /\ accepting' = "done" /\ inMap' = TRUE
        /\ UNCHANGED <<conn, wheel, removals, kept, place, todo, tasks, crashed, kernel,
                       others, history>>
    BY <1>3 DEF InsertConnection, loop
  <2>2. TypeOK'
    BY <2>1 DEF IInv, Bounds, TypeOK, conn, wheel, place, kernel, history
  <2>3. Bounds'
    BY <2>1, <2>2 DEF IInv, Bounds, conn, kernel
  <2>4. Interest' /\ Draining'
    BY <2>1 DEF IInv, Interest, Draining, DrainsBeforeClose, conn, place, history
  <2>5. ReleasedOnce' /\ Owned' /\ Turns' /\ Released'
    BY <2>1 DEF IInv, ReleasedOnce, Owned, Turns, Released, conn, place, history
  <2> QED BY <2>3, <2>4, <2>5 DEF IInv
<1>4. CASE RemoveConnectionInLoop
  <2>1. /\ accepting = "done" /\ removals > 0 /\ removals' = removals - 1 /\ inMap' = FALSE
        /\ UNCHANGED <<conn, wheel, accepting, kept, place, todo, tasks, crashed, kernel,
                       others, history>>
    BY <1>4 DEF RemoveConnectionInLoop, loop
  <2>2. removals' = 0 /\ status = "DISCONNECTED"
    BY <2>1 DEF IInv, Bounds, TypeOK, Owned
  <2>3. TypeOK'
    <3>1. removals' \in 0 .. 1
      BY <2>2
    <3>2. inMap' \in BOOLEAN
      BY <2>1, Zenon
    <3> QED BY <2>1, <3>1, <3>2 DEF IInv, Bounds, TypeOK, conn, wheel, place, kernel, history
  <2>4. Bounds'
    BY <2>1, <2>3 DEF IInv, Bounds, conn, kernel
  <2>5. Interest' /\ Draining'
    BY <2>1 DEF IInv, Interest, Draining, DrainsBeforeClose, conn, place, history
  <2>6. ReleasedOnce' /\ Owned' /\ Turns' /\ Released'
    BY <2>1, <2>2 DEF IInv, ReleasedOnce, Owned, Turns, Released, conn, place, history
  <2> QED BY <2>4, <2>5, <2>6 DEF IInv
<1> QED BY <1>1, <1>2, <1>3, <1>4 DEF BaseLoop

\* A call through a kept pointer, from another thread or another callback.
LEMMA CallKeeps ==
  ASSUME IInv, NEW c \in OtherCalls, CallFromThread(c) \/ CallFromCallback(c)
  PROVE  IInv'
<1> DEFINE op == IF c = "release" THEN "releaseInLoop" ELSE c
<1>1. /\ c \in {"send", "sendNothing", "shutdown", "release", "enable", "cancel"} /\ op \in TaskKinds
      /\ op = "releaseInLoop" <=> c = "release"
  BY ConnectionAssumption DEF Calls, TaskKinds
<1> HIDE DEF op
<1>2. /\ kept /\ others < MaxOther /\ others' = others + 1
      /\ abrupt' = (abrupt \/ c = "release")
      /\ UNCHANGED <<conn, wheel, owners, place, crashed, kernel, closedCalls, nudged>>
      /\ \/ Post(op) /\ UNCHANGED todo
         \/ todo = <<>> /\ phase = "handle" /\ todo' = <<c>> /\ UNCHANGED tasks
  BY DEF CallFromThread, CallFromCallback, AtRest, op
<1>3. others' \in 0 .. MaxOther /\ abrupt' \in BOOLEAN
  BY <1>2, ConnectionAssumption DEF IInv, Bounds, TypeOK
<1>4. accepting # "none"
  BY <1>2 DEF IInv, Owned
<1>5. abrupt' <=> abrupt \/ c = "release"
  BY <1>2
<1>6. CASE Post(op) /\ UNCHANGED todo
  <2>1. /\ tasks' \in Seq(TaskKinds)
        /\ \A x : Among(x, tasks') <=> Among(x, tasks) \/ x = op
    BY <1>1, <1>6, PostTypes
  <2>2. TypeOK'
    BY <1>2, <1>3, <1>6, <2>1 DEF IInv, Bounds, TypeOK, conn, wheel, owners, place, kernel
  <2>3. Bounds'
    BY <1>2, <2>2 DEF IInv, Bounds, conn, kernel
  <2>4. Interest'
    BY <1>2, <1>6 DEF IInv, Interest, conn, history
  <2>5. Draining'
    BY <1>1, <1>2, <1>5, <1>6, <2>1 DEF IInv, Draining, DrainsBeforeClose, conn, place
  <2>6. ReleasedOnce' /\ Owned' /\ Turns' /\ Released'
    BY <1>2, <1>4, <1>6
       DEF IInv, ReleasedOnce, Owned, Turns, Released, conn, wheel, owners, place
  <2> QED BY <2>3, <2>4, <2>5, <2>6 DEF IInv
<1>7. CASE todo = <<>> /\ phase = "handle" /\ todo' = <<c>> /\ UNCHANGED tasks
  <2>1. c \in Statements \ ReleaseStatements
    BY <1>1 DEF Statements, Calls, ReleaseStatements
  <2> DEFINE S == {c}
  <2>2. S \in SUBSET (Statements \ ReleaseStatements) /\ <<c>> \in Seq(S)
    BY <2>1, ShortSequences
  <2>3. /\ todo' \in Seq(Statements) /\ todo' \notin ReleaseTodos
        /\ \A x : Among(x, todo') => x = c /\ x \notin ReleaseStatements
    <3>1. /\ <<c>> \in Seq(Statements) /\ <<c>> \notin ReleaseTodos
          /\ \A x : Among(x, <<c>>) => x \in S /\ x \notin ReleaseStatements
      BY <2>2, OrdinaryTodo
    <3> QED BY <1>7, <3>1
  <2>4. todo \notin ReleaseTodos
    BY <1>7, ReleaseTodoFacts
  <2>5. TypeOK'
    BY <1>2, <1>3, <1>7, <2>3 DEF IInv, Bounds, TypeOK, conn, wheel, owners, place, kernel
  <2>6. Bounds'
    BY <1>2, <2>5 DEF IInv, Bounds, conn, kernel
  <2>7. Interest'
    BY <1>1, <1>2, <2>3 DEF IInv, Interest, conn, history
  <2>8. Draining'
    BY <1>1, <1>2, <1>5, <1>7, <2>3
       DEF IInv, Draining, DrainsBeforeClose, ReleaseStatements, conn, place
  <2>9. ReleasedOnce'
    BY <1>2, <2>3, <2>4 DEF IInv, ReleasedOnce, ReleaseTodos, conn
  <2>10. Owned' /\ Turns'
    BY <1>2, <1>4, <2>3, <2>4 DEF IInv, Owned, Turns, ReleaseTodos, conn, wheel, owners, place
  <2>11. Released'
    BY <1>1, <1>2, <2>3 DEF Released, LateStatements, TaskKinds, conn, owners
  <2> QED BY <2>6, <2>7, <2>8, <2>9, <2>10, <2>11 DEF IInv
<1> QED BY <1>2, <1>6, <1>7

\* Pointers go, time passes, the peer sends, closes, resets and reads.
LEMMA EnvironmentKeeps ==
  ASSUME IInv, Environment PROVE IInv'
<1>1. CASE \E c \in OtherCalls : CallFromThread(c) \/ CallFromCallback(c)
  BY <1>1, CallKeeps
<1>2. CASE DropPointer
  <2>1. /\ kept /\ kept' = FALSE /\ (phase = "handle" => todo = <<>>)
        /\ UNCHANGED <<conn, wheel, accepting, inMap, removals, place, todo, tasks, crashed,
                       kernel, others, history>>
    BY <1>2 DEF DropPointer, loop
  <2>2. kept' \in BOOLEAN
    BY <2>1
  <2>3. TypeOK'
    BY <2>1, <2>2 DEF IInv, Bounds, TypeOK, conn, wheel, owners, place, kernel, history
  <2>4. Bounds'
    BY <2>1, <2>3, <2>2 DEF IInv, Bounds, TypeOK, conn, kernel
  <2>5. Interest' /\ Draining'
    BY <2>1 DEF IInv, Interest, Draining, DrainsBeforeClose, conn, place, history
  <2>6. ReleasedOnce' /\ Owned' /\ Turns' /\ Released'
    BY <2>1 DEF IInv, ReleasedOnce, Owned, Turns, Released, conn, wheel, owners, place, history
  <2> QED BY <2>4, <2>5, <2>6 DEF IInv
<1>3. CASE Expire
  <2>1. /\ timer # "none" /\ due' = TRUE
        /\ UNCHANGED <<conn, timer, owners, place, todo, tasks, crashed, kernel, others,
                       history>>
    BY <1>3 DEF Expire, loop
  <2>3. TypeOK'
    BY <2>1 DEF IInv, Bounds, TypeOK, conn, wheel, owners, place, kernel, history
  <2>4. Bounds'
    BY <2>1, <2>3 DEF IInv, Bounds, TypeOK, conn, kernel
  <2>5. Interest' /\ Draining'
    BY <2>1 DEF IInv, Interest, Draining, DrainsBeforeClose, conn, place, history
  <2>6. ReleasedOnce' /\ Owned' /\ Turns' /\ Released'
    BY <2>1 DEF IInv, ReleasedOnce, Owned, Turns, Released, conn, wheel, owners, place, history
  <2> QED BY <2>4, <2>5, <2>6 DEF IInv
<1>4. CASE PeerSends
  <2>1. /\ sent < MaxRecv /\ sent' = sent + 1 /\ recvQ' = recvQ + 1
        /\ UNCHANGED <<conn, wheel, owners, place, todo, tasks, crashed, peer, writable,
                       others, history>>
    BY <1>4 DEF PeerSends, loop
  <2>2. sent' \in 0 .. MaxRecv /\ recvQ' \in 0 .. MaxRecv /\ inBuf + recvQ' <= sent'
    BY <2>1, ConnectionAssumption DEF IInv, Bounds, TypeOK
  <2>3. TypeOK'
    BY <2>1, <2>2 DEF IInv, Bounds, TypeOK, conn, wheel, owners, place, kernel, history
  <2>4. Bounds'
    BY <2>1, <2>3, <2>2 DEF IInv, Bounds, TypeOK, conn, kernel
  <2>5. Interest' /\ Draining'
    BY <2>1 DEF IInv, Interest, Draining, DrainsBeforeClose, conn, place, history
  <2>6. ReleasedOnce' /\ Owned' /\ Turns' /\ Released'
    BY <2>1 DEF IInv, ReleasedOnce, Owned, Turns, Released, conn, wheel, owners, place, history
  <2> QED BY <2>4, <2>5, <2>6 DEF IInv
<1>5. CASE PeerShutsDown
  <2>1. /\ peer' = "fin"
        /\ UNCHANGED <<conn, wheel, owners, place, todo, tasks, crashed, recvQ, writable,
                       sent, others, history>>
    BY <1>5 DEF PeerShutsDown, loop
  <2>3. TypeOK'
    BY <2>1 DEF IInv, Bounds, TypeOK, conn, wheel, owners, place, kernel, history
  <2>4. Bounds'
    BY <2>1, <2>3 DEF IInv, Bounds, TypeOK, conn, kernel
  <2>5. Interest' /\ Draining'
    BY <2>1 DEF IInv, Interest, Draining, DrainsBeforeClose, conn, place, history
  <2>6. ReleasedOnce' /\ Owned' /\ Turns' /\ Released'
    BY <2>1 DEF IInv, ReleasedOnce, Owned, Turns, Released, conn, wheel, owners, place, history
  <2> QED BY <2>4, <2>5, <2>6 DEF IInv
<1>6. CASE PeerResets
  <2>1. /\ peer' = "rst"
        /\ UNCHANGED <<conn, wheel, owners, place, todo, tasks, crashed, recvQ, writable,
                       sent, others, history>>
    BY <1>6 DEF PeerResets, loop
  <2>3. TypeOK'
    BY <2>1 DEF IInv, Bounds, TypeOK, conn, wheel, owners, place, kernel, history
  <2>4. Bounds'
    BY <2>1, <2>3 DEF IInv, Bounds, TypeOK, conn, kernel
  <2>5. Interest' /\ Draining'
    BY <2>1 DEF IInv, Interest, Draining, DrainsBeforeClose, conn, place, history
  <2>6. ReleasedOnce' /\ Owned' /\ Turns' /\ Released'
    BY <2>1 DEF IInv, ReleasedOnce, Owned, Turns, Released, conn, wheel, owners, place, history
  <2> QED BY <2>4, <2>5, <2>6 DEF IInv
<1>7. CASE PeerReads
  <2>1. /\ writable' = TRUE
        /\ UNCHANGED <<conn, wheel, owners, place, todo, tasks, crashed, peer, recvQ, sent,
                       others, history>>
    BY <1>7 DEF PeerReads, loop
  <2>3. TypeOK'
    BY <2>1 DEF IInv, Bounds, TypeOK, conn, wheel, owners, place, kernel, history
  <2>4. Bounds'
    BY <2>1, <2>3 DEF IInv, Bounds, TypeOK, conn, kernel
  <2>5. Interest' /\ Draining'
    BY <2>1 DEF IInv, Interest, Draining, DrainsBeforeClose, conn, place, history
  <2>6. ReleasedOnce' /\ Owned' /\ Turns' /\ Released'
    BY <2>1 DEF IInv, ReleasedOnce, Owned, Turns, Released, conn, wheel, owners, place, history
  <2> QED BY <2>4, <2>5, <2>6 DEF IInv
<1> QED BY <1>1, <1>2, <1>3, <1>4, <1>5, <1>6, <1>7 DEF Environment

-----------------------------------------------------------------------------
(* The invariant and the theorems                                           *)

LEMMA InitInv == Init => IInv
<1> SUFFICES ASSUME Init PROVE IInv
  OBVIOUS
<1>1. /\ <<>> \in Seq(Statements) /\ <<>> \in Seq(TaskKinds) /\ <<>> \notin ReleaseTodos
      /\ \A x : ~Among(x, <<>>)
  BY ShortSequences, AmongLiterals, ReleaseTodoFacts
<1>2. Bounds
  <2>1. 0 \in 0 .. MaxRecv /\ 0 \in 0 .. MaxOut /\ 0 \in 0 .. MaxOther
    BY ConnectionAssumption
  <2>2. TypeOK
    <3>1. /\ status \in {"CONNECTING", "CONNECTED", "DISCONNECTING", "DISCONNECTED"}
          /\ timer \in {"none", "armed", "muted"}
          /\ accepting \in {"none", "created", "posted", "done"}
          /\ phase \in {"poll", "handle", "run"} /\ peer \in {"open", "fin", "rst", "dead"}
          /\ events \subseteq {"IN", "OUT"} /\ ready \subseteq {"conn", "timer", "listen"}
          /\ revents \subseteq {"IN", "OUT", "ERR", "HUP"}
      BY DEF Init
    <3>2. /\ inBuf \in 0 .. MaxRecv /\ outBuf \in 0 .. MaxOut /\ removals \in 0 .. 1
          /\ recvQ \in 0 .. MaxRecv /\ sent \in 0 .. MaxRecv /\ others \in 0 .. MaxOther
          /\ closedCalls \in 0 .. 2
      BY <2>1 DEF Init
    <3>3. /\ enabled \in BOOLEAN /\ registered \in BOOLEAN /\ due \in BOOLEAN
          /\ inMap \in BOOLEAN /\ kept \in BOOLEAN /\ crashed \in BOOLEAN
          /\ writable \in BOOLEAN /\ abrupt \in BOOLEAN /\ nudged \in BOOLEAN
      BY DEF Init
    <3>4. todo \in Seq(Statements) /\ tasks \in Seq(TaskKinds) /\ batch \in Seq(TaskKinds)
      BY <1>1 DEF Init
    <3> QED BY <3>1, <3>2, <3>3, <3>4 DEF TypeOK
  <2> QED BY <2>2 DEF Init, Bounds
<1>3. Interest /\ Draining
  BY <1>1 DEF Init, Interest, Draining, DrainsBeforeClose
<1>4. ReleasedOnce /\ Owned /\ Turns /\ Released
  BY <1>1 DEF Init, ReleasedOnce, Owned, Turns, Released, ReleaseTodos
<1> QED BY <1>2, <1>3, <1>4 DEF IInv

LEMMA Inductive ==
  ASSUME IInv, [Next]_vars PROVE IInv'
<1>1. CASE IoLoop
  BY <1>1, StatementKeeps, PollKeeps, ChannelEventKeeps, OnTimeKeeps, NewConnectionInlineKeeps,
     SwapTasksKeeps, RunTaskKeeps, RunTaskOnFreedKeeps, BatchDoneKeeps DEF IoLoop
<1>2. CASE BaseLoop
  BY <1>2, BaseLoopKeeps
<1>3. CASE Environment
  BY <1>3, EnvironmentKeeps
<1>4. CASE UNCHANGED vars
  <2>1. UNCHANGED <<conn, wheel, owners, place, kernel, history, todo, tasks, crashed, others>>
    BY <1>4 DEF vars, world, loop
  <2>2. TypeOK'
    BY <2>1 DEF IInv, Bounds, TypeOK, conn, wheel, owners, place, kernel, history
  <2>3. Bounds'
    BY <2>1, <2>2 DEF IInv, Bounds, conn, kernel
  <2>4. Interest' /\ Draining'
    BY <2>1 DEF IInv, Interest, Draining, DrainsBeforeClose, conn, place, history
  <2>5. ReleasedOnce' /\ Owned' /\ Turns' /\ Released'
    BY <2>1 DEF IInv, ReleasedOnce, Owned, Turns, Released, conn, wheel, owners, place, history
  <2> QED BY <2>3, <2>4, <2>5 DEF IInv
<1> QED BY <1>1, <1>2, <1>3, <1>4 DEF Next, Crashed

LEMMA SpecKeepsIInv == Spec => []IInv
<1>1. Init => IInv
  BY InitInv
<1>2. IInv /\ [Next]_vars => IInv'
  BY Inductive
<1> QED BY <1>1, <1>2, PTL DEF Spec

LEMMA OwnersAlive ==
  ASSUME IInv, status # "DISCONNECTED", accepting # "none"
  PROVE  Alive
BY DEF IInv, Bounds, TypeOK, Owned, Alive

\* The types, and while the handlers of a channel run somebody owns the
\* connection whose members they use next (Connection.cc:200-202): nothing
\* that other threads, the timer or an application do takes the last share.
THEOREM HandlersKeepTheirConnection == Spec => []ConnectionInv
<1>1. ASSUME IInv PROVE ConnectionInv
  <2>1. TypeOK
    BY <1>1 DEF IInv, Bounds
  <2>2. HandlersOwnTheirConnection
    <3>1. SUFFICES ASSUME phase = "handle", todo # <<>> PROVE Alive
      BY DEF HandlersOwnTheirConnection
    <3>2. accepting # "none"
      BY <1>1, <3>1 DEF IInv, Owned
    <3>3. status = "DISCONNECTED" => kept
      BY <1>1, <3>1 DEF IInv, Released
    <3> QED BY <1>1, <3>2, <3>3, OwnersAlive DEF Alive
  <2> QED BY <2>1, <2>2 DEF ConnectionInv
<1> QED BY <1>1, SpecKeepsIInv, PTL

\* EPOLLOUT is watched between two handlers exactly while there is something to
\* write (Connection::HandleWrite, SendInLoop, ShutdownInLoop).
THEOREM WriteInterestFollowsBuffer == Spec => []WriteInterestExact
<1>1. IInv => WriteInterestExact
  BY DEF IInv, Interest, WriteInterestExact
<1> QED BY <1>1, SpecKeepsIInv, PTL

\* A connection that only its half-close ended was drained before it was closed
\* (Connection::ShutdownInLoop, HandleWrite), whatever an application sends late.
THEOREM HalfCloseDrains == Spec => []DrainsBeforeClose
<1>1. IInv => DrainsBeforeClose
  BY DEF IInv, Draining
<1> QED BY <1>1, SpecKeepsIInv, PTL

\* The closed callback runs exactly once (Connection::ReleaseInLoop), for any
\* number and order of releases.
THEOREM ReleasesOnce == Spec => []ClosedExactlyOnce
<1>1. ASSUME IInv PROVE ClosedExactlyOnce
  <2>1. todo = <<>> => todo # Closing
    BY DEF Closing
  <2> QED BY <1>1, <2>1 DEF IInv, ReleasedOnce, ClosedExactlyOnce, AtRest
<1> QED BY <1>1, SpecKeepsIInv, PTL

\* A released connection's removal is queued behind its insertion
\* (TcpServer::NewConnection, RemoveConnection), whichever thread is first.
THEOREM RemovalComesAfterInsertion == Spec => []RemovalFollowsInsertion
<1>1. ASSUME IInv PROVE RemovalFollowsInsertion
  <2>1. todo = <<>> => todo \notin {Closing, Removing}
    BY DEF Closing, Removing
  <2> QED BY <1>1, <2>1 DEF IInv, Owned, RemovalFollowsInsertion, AtRest
<1> QED BY <1>1, SpecKeepsIInv, PTL

-----------------------------------------------------------------------------
(* The inactivity timer                                                     *)

Plans == MessagePlans \cup ConnectedPlans \cup EventPlans
TimerCalls == {"enable", "cancel"}

\* The timer is left alone, and the connection not released.
Calm ==
    /\ UNCHANGED <<timer, enabled>> /\ todo # Asked
    /\ status' = "DISCONNECTED" <=> status = "DISCONNECTED"

\* What a statement does to the timer and to the calls that concern it.
TimerEffect ==
    /\ todo # <<>> /\ UNCHANGED batch /\ (Post("releaseInLoop") \/ UNCHANGED tasks)
    /\ \A x \in TimerCalls : Among(x, todo') =>
          \/ Among(x, todo)
          \/ status' # "DISCONNECTED" /\ \E plan \in Plans : Among(x, plan)
    /\ \/ Calm
       \/ /\ Among("enable", todo) /\ todo # Asked /\ enabled' = TRUE /\ UNCHANGED status
          /\ timer' = IF timer = "none" THEN "armed" ELSE timer
       \/ /\ Among("cancel", todo) /\ todo # Asked /\ enabled' = FALSE /\ UNCHANGED status
          /\ timer' \in {"none", "muted"}
       \/ /\ status' = "DISCONNECTED" /\ ~Among("enable", todo')
          /\ status = "DISCONNECTED" => UNCHANGED <<timer, enabled>>
          /\ status # "DISCONNECTED" => timer' # "armed"

LEMMA StepAmong ==
  ASSUME IInv, NEW op \in Statements, NEW first \in Seq(Statements), Step(op, first)
  PROVE  /\ todo # <<>> /\ Head(todo) = op /\ UNCHANGED batch /\ Among(op, todo)
         /\ todo' = first \o Tail(todo) /\ (op # "releaseInLoop" => todo # Asked)
         /\ \A x : Among(x, todo') => Among(x, first) \/ Among(x, todo)
<1>1. /\ todo \in Seq(Statements) /\ todo # <<>> /\ Head(todo) = op
      /\ todo' = first \o Tail(todo) /\ UNCHANGED batch
  BY DEF IInv, Bounds, TypeOK, Step, place
<1>2. /\ Tail(todo) \in Seq(Statements) /\ Among(op, todo)
      /\ \A x : Among(x, Tail(todo)) => Among(x, todo)
  BY <1>1, AmongTail
<1>3. \A x : Among(x, todo') => Among(x, first) \/ Among(x, todo)
  BY <1>1, <1>2, AmongConcat
<1> QED BY <1>1, <1>2, <1>3, ReleaseTodoFacts

\* A statement that does not concern the timer.
LEMMA CalmStep ==
  ASSUME IInv, NEW op \in Statements \ {"releaseInLoop"},
         NEW first \in Seq(Statements \ TimerCalls), Step(op, first),
         Post("releaseInLoop") \/ UNCHANGED tasks, UNCHANGED <<timer, enabled>>,
         status' = "DISCONNECTED" <=> status = "DISCONNECTED"
  PROVE  TimerEffect
<1>1. first \in Seq(Statements) /\ \A x : Among(x, first) => x \notin TimerCalls
  BY SeqMonotonic, AmongRange
<1>2. /\ todo # <<>> /\ UNCHANGED batch /\ todo # Asked
      /\ \A x : Among(x, todo') => Among(x, first) \/ Among(x, todo)
  BY <1>1, StepAmong
<1> QED BY <1>1, <1>2 DEF TimerEffect, Calm

LEMMA StatementTimer ==
  ASSUME IInv, Statement PROVE TimerEffect
<1> DEFINE S == Statements \ TimerCalls
<1>1. /\ <<>> \in Seq(S) /\ <<"message">> \in Seq(S) /\ <<"shutdown">> \in Seq(S)
      /\ <<"release">> \in Seq(S) /\ <<"message", "release">> \in Seq(S)
      /\ <<"connected">> \in Seq(S) /\ <<"endShutdown">> \in Seq(S)
      /\ <<"message", "endShutdown">> \in Seq(S)
  <2>1. {"message", "shutdown", "release", "connected", "endShutdown"} \subseteq S
    BY DEF Statements, Calls, TaskKinds, TimerCalls
  <2> QED BY <2>1, ShortSequences
<1>2. {"read", "write", "close", "established", "closed", "removeConnection",
       "shutdown", "endShutdown", "send", "sendNothing", "release", "consume", "insert"}
          \subseteq Statements \ {"releaseInLoop"}
  BY DEF Statements, Calls, TaskKinds
<1>3. CASE HandleRead
  <2>1. \E first \in Seq(S) : Step("read", first)
    BY <1>1, <1>3 DEF HandleRead
  <2>2. /\ Post("releaseInLoop") \/ UNCHANGED tasks
        /\ UNCHANGED <<timer, enabled>> /\ (status' = "DISCONNECTED" <=> status = "DISCONNECTED")
    BY <1>3 DEF HandleRead, conn, wheel
  <2> QED BY <1>2, <2>1, <2>2, CalmStep
<1>4. CASE HandleWriteFails
  <2>1. \E first \in Seq(S) : Step("write", first)
    BY <1>1, <1>4 DEF HandleWriteFails, Leftover
  <2>2. /\ Post("releaseInLoop") \/ UNCHANGED tasks
        /\ UNCHANGED <<timer, enabled>> /\ (status' = "DISCONNECTED" <=> status = "DISCONNECTED")
    BY <1>4 DEF HandleWriteFails, conn, wheel
  <2> QED BY <1>2, <2>1, <2>2, CalmStep
<1>5. CASE HandleClose
  <2>1. \E first \in Seq(S) : Step("close", first)
    BY <1>1, <1>5 DEF HandleClose, Leftover
  <2>2. /\ Post("releaseInLoop") \/ UNCHANGED tasks
        /\ UNCHANGED <<timer, enabled>> /\ (status' = "DISCONNECTED" <=> status = "DISCONNECTED")
    BY <1>5 DEF HandleClose, conn, wheel
  <2> QED BY <1>2, <2>1, <2>2, CalmStep
<1>6. CASE HandleEvent
  <2>1. PICK plan \in EventPlans : Step("event", plan)
    BY <1>6 DEF HandleEvent
  <2>2. UNCHANGED <<timer, enabled, status, tasks>>
    BY <1>6 DEF HandleEvent, conn
  <2>3. /\ plan \in Seq(Statements)
        /\ "event" \in Statements \ (ReleaseStatements \cup LateStatements)
    <3>1. plan \in Seq(Calls) /\ Calls \subseteq Statements
      BY ConnectionAssumption DEF Statements
    <3> QED BY <3>1, SeqMonotonic
            DEF Statements, Calls, ReleaseStatements, LateStatements, TaskKinds
  <2>4. /\ todo # <<>> /\ Head(todo) = "event" /\ UNCHANGED batch /\ todo # Asked
        /\ \A x : Among(x, todo') => Among(x, plan) \/ Among(x, todo)
    BY <2>1, <2>3, StepAmong
  <2>5. status # "DISCONNECTED"
    BY <2>3, <2>4, NotReleased
  <2> QED BY <2>1, <2>2, <2>4, <2>5 DEF TimerEffect, Calm, Plans
<1>7. CASE (\E n \in 0 .. MaxOut : HandleWrite(n))
  <2>1. \E first \in Seq(S) : Step("write", first)
    BY <1>1, <1>7 DEF HandleWrite, Sent
  <2>2. /\ Post("releaseInLoop") \/ UNCHANGED tasks
        /\ UNCHANGED <<timer, enabled>> /\ (status' = "DISCONNECTED" <=> status = "DISCONNECTED")
    BY <1>7 DEF HandleWrite, Sent, conn, wheel
  <2> QED BY <1>2, <2>1, <2>2, CalmStep
<1>8. CASE EstablishedInLoop
  <2>1. \E first \in Seq(S) : Step("established", first)
    BY <1>1, <1>8 DEF EstablishedInLoop
  <2>2. /\ Post("releaseInLoop") \/ UNCHANGED tasks
        /\ UNCHANGED <<timer, enabled>> /\ (status' = "DISCONNECTED" <=> status = "DISCONNECTED")
    BY <1>8 DEF EstablishedInLoop, conn, wheel
  <2> QED BY <1>2, <2>1, <2>2, CalmStep
<1>9. CASE Closed
  <2>1. \E first \in Seq(S) : Step("closed", first)
    BY <1>1, <1>9 DEF Closed
  <2>2. /\ Post("releaseInLoop") \/ UNCHANGED tasks
        /\ UNCHANGED <<timer, enabled>> /\ (status' = "DISCONNECTED" <=> status = "DISCONNECTED")
    BY <1>9 DEF Closed, conn, wheel
  <2> QED BY <1>2, <2>1, <2>2, CalmStep
<1>10. CASE RemoveConnection
  <2>1. \E first \in Seq(S) : Step("removeConnection", first)
    BY <1>1, <1>10 DEF RemoveConnection
  <2>2. /\ Post("releaseInLoop") \/ UNCHANGED tasks
        /\ UNCHANGED <<timer, enabled>> /\ (status' = "DISCONNECTED" <=> status = "DISCONNECTED")
    BY <1>10 DEF RemoveConnection, conn, wheel
  <2> QED BY <1>2, <2>1, <2>2, CalmStep
<1>11. CASE ShutdownInLoop
  <2>1. \E first \in Seq(S) : Step("shutdown", first)
    BY <1>1, <1>11 DEF ShutdownInLoop, Leftover
  <2>2. /\ Post("releaseInLoop") \/ UNCHANGED tasks
        /\ UNCHANGED <<timer, enabled>> /\ (status' = "DISCONNECTED" <=> status = "DISCONNECTED")
    BY <1>11 DEF ShutdownInLoop, conn, wheel
  <2> QED BY <1>2, <2>1, <2>2, CalmStep
<1>12. CASE EndShutdown
  <2>1. \E first \in Seq(S) : Step("endShutdown", first)
    BY <1>1, <1>12 DEF EndShutdown
  <2>2. /\ Post("releaseInLoop") \/ UNCHANGED tasks
        /\ UNCHANGED <<timer, enabled>> /\ (status' = "DISCONNECTED" <=> status = "DISCONNECTED")
    BY <1>12 DEF EndShutdown, conn, wheel
  <2> QED BY <1>2, <2>1, <2>2, CalmStep
<1>13. CASE SendInLoop
  <2>1. \E first \in Seq(S) : Step("send", first)
    BY <1>1, <1>13 DEF SendInLoop
  <2>2. /\ Post("releaseInLoop") \/ UNCHANGED tasks
        /\ UNCHANGED <<timer, enabled>> /\ (status' = "DISCONNECTED" <=> status = "DISCONNECTED")
    BY <1>13 DEF SendInLoop, conn, wheel
  <2> QED BY <1>2, <2>1, <2>2, CalmStep
<1>14. CASE Release
  <2>1. \E first \in Seq(S) : Step("release", first)
    BY <1>1, <1>14 DEF Release
  <2>2. /\ Post("releaseInLoop") \/ UNCHANGED tasks
        /\ UNCHANGED <<timer, enabled>> /\ (status' = "DISCONNECTED" <=> status = "DISCONNECTED")
    BY <1>14 DEF Release, conn, wheel
  <2> QED BY <1>2, <2>1, <2>2, CalmStep
<1>15. CASE Consume
  <2>1. \E first \in Seq(S) : Step("consume", first)
    BY <1>1, <1>15 DEF Consume
  <2>2. /\ Post("releaseInLoop") \/ UNCHANGED tasks
        /\ UNCHANGED <<timer, enabled>> /\ (status' = "DISCONNECTED" <=> status = "DISCONNECTED")
    BY <1>15 DEF Consume, conn, wheel
  <2> QED BY <1>2, <2>1, <2>2, CalmStep
<1>16. CASE Insert
  <2>1. \E first \in Seq(S) : Step("insert", first)
    BY <1>1, <1>16 DEF Insert
  <2>2. /\ Post("releaseInLoop") \/ UNCHANGED tasks
        /\ UNCHANGED <<timer, enabled>> /\ (status' = "DISCONNECTED" <=> status = "DISCONNECTED")
    BY <1>16 DEF Insert, conn, wheel
  <2> QED BY <1>2, <2>1, <2>2, CalmStep
<1>17. CASE EnableInactiveReleaseInLoop
  <2>1. /\ Step("enable", <<>>) /\ enabled' = TRUE
        /\ timer' = IF timer = "none" THEN "armed" ELSE timer
        /\ UNCHANGED <<status, tasks>>
    BY <1>17 DEF EnableInactiveReleaseInLoop
  <2>2. /\ todo # <<>> /\ UNCHANGED batch /\ Among("enable", todo) /\ todo # Asked
        /\ \A x : Among(x, todo') => Among(x, todo)
    <3>1. "enable" \in Statements /\ <<>> \in Seq(Statements)
      BY ShortSequences DEF Statements, Calls
    <3> QED BY <2>1, <3>1, StepAmong, AmongLiterals
  <2> QED BY <2>1, <2>2 DEF TimerEffect
<1>18. CASE CancelInactiveReleaseInLoop
  <2>1. /\ Step("cancel", <<>>) /\ enabled' = FALSE
        /\ timer' \in {"none", "muted"}
        /\ UNCHANGED <<status, tasks>>
    BY <1>18 DEF CancelInactiveReleaseInLoop
  <2>2. /\ todo # <<>> /\ UNCHANGED batch /\ Among("cancel", todo) /\ todo # Asked
        /\ \A x : Among(x, todo') => Among(x, todo)
    <3>1. "cancel" \in Statements /\ <<>> \in Seq(Statements)
      BY ShortSequences DEF Statements, Calls
    <3> QED BY <2>1, <3>1, StepAmong, AmongLiterals
  <2> QED BY <2>1, <2>2 DEF TimerEffect
<1>19. CASE ReleaseInLoop
  <2>1. PICK first \in {<<>>, Closing} :
          /\ Step("releaseInLoop", first) /\ UNCHANGED tasks
          /\ \/ status = "DISCONNECTED" /\ UNCHANGED <<status, timer, enabled>>
             \/ status # "DISCONNECTED" /\ Close(timer # "none")
    BY <1>19 DEF ReleaseInLoop, conn, Closing
  <2>2. "releaseInLoop" \in ReleaseStatements
    BY DEF ReleaseStatements
  <2>3. todo \in ReleaseTodos /\ Head(todo) = "releaseInLoop" /\ UNCHANGED batch
        /\ todo' = first \o Tail(todo)
    BY <2>1, <2>2, ReleaseStep
  <2>4. todo' \in {<<>>, Closing} /\ todo # <<>>
    <3>1. todo = Asked
      BY <2>3, ReleaseTodoFacts DEF ReleaseTodos
    <3>2. Closing \o <<>> = Closing /\ <<>> \o <<>> = <<>>
      BY ConcatEmptySeq DEF Closing
    <3> QED BY <2>1, <2>3, <3>1, <3>2, ReleaseTodoFacts
  <2>5. \A x \in TimerCalls : ~Among(x, todo')
    BY <2>4, AmongLiterals DEF TimerCalls, Closing
  <2>6. /\ status' = "DISCONNECTED"
        /\ status = "DISCONNECTED" => UNCHANGED <<timer, enabled>>
        /\ status # "DISCONNECTED" => timer' # "armed"
    BY <2>1 DEF Close
  <2> QED BY <2>1, <2>3, <2>4, <2>5, <2>6 DEF TimerEffect, TimerCalls
<1>20. CASE MessageCallback
  <2>1. PICK plan \in MessagePlans : Step("message", plan)
    BY <1>20 DEF MessageCallback
  <2>2. UNCHANGED <<timer, enabled, status, tasks>>
    BY <1>20 DEF MessageCallback, conn, wheel
  <2>3. /\ plan \in Seq(Statements)
        /\ "message" \in Statements \ (ReleaseStatements \cup LateStatements)
    <3>1. plan \in Seq(Calls) /\ Calls \subseteq Statements
      BY ConnectionAssumption DEF Statements
    <3> QED BY <3>1, SeqMonotonic
            DEF Statements, Calls, ReleaseStatements, LateStatements, TaskKinds
  <2>4. /\ todo # <<>> /\ Head(todo) = "message" /\ UNCHANGED batch /\ todo # Asked
        /\ \A x : Among(x, todo') => Among(x, plan) \/ Among(x, todo)
    BY <2>1, <2>3, StepAmong
  <2>5. status # "DISCONNECTED"
    BY <2>3, <2>4, NotReleased
  <2> QED BY <2>1, <2>2, <2>4, <2>5 DEF TimerEffect, Calm, Plans
<1>21. CASE ConnectedCallback
  <2>1. PICK plan \in ConnectedPlans : Step("connected", plan)
    BY <1>21 DEF ConnectedCallback
  <2>2. UNCHANGED <<timer, enabled, status, tasks>>
    BY <1>21 DEF ConnectedCallback, conn, wheel
  <2>3. /\ plan \in Seq(Statements)
        /\ "connected" \in Statements \ (ReleaseStatements \cup LateStatements)
    <3>1. plan \in Seq(Calls) /\ Calls \subseteq Statements
      BY ConnectionAssumption DEF Statements
    <3> QED BY <3>1, SeqMonotonic
            DEF Statements, Calls, ReleaseStatements, LateStatements, TaskKinds
  <2>4. /\ todo # <<>> /\ Head(todo) = "connected" /\ UNCHANGED batch /\ todo # Asked
        /\ \A x : Among(x, todo') => Among(x, plan) \/ Among(x, todo)
    BY <2>1, <2>3, StepAmong
  <2>5. status # "DISCONNECTED"
    BY <2>3, <2>4, NotReleased
  <2> QED BY <2>1, <2>2, <2>4, <2>5 DEF TimerEffect, Calm, Plans
<1>22. CASE SendNothingInLoop
  <2>1. \E first \in Seq(S) : Step("sendNothing", first)
    BY <1>1, <1>22 DEF SendNothingInLoop
  <2>2. /\ Post("releaseInLoop") \/ UNCHANGED tasks
        /\ UNCHANGED <<timer, enabled>> /\ (status' = "DISCONNECTED" <=> status = "DISCONNECTED")
    BY <1>22 DEF SendNothingInLoop, wheel
  <2> QED BY <1>2, <2>1, <2>2, CalmStep
<1> QED BY <1>3, <1>4, <1>5, <1>6, <1>7, <1>8, <1>9, <1>10, <1>11, <1>12, <1>13, <1>14, <1>15,
           <1>16, <1>17, <1>18, <1>19, <1>20, <1>21, <1>22 DEF Statement

-----------------------------------------------------------------------------
(* The timer is inductive                                                   *)

\* Neither of the two conditions on the application is a state's.
TimerInv == (EnabledEarly => TimerLife) /\ (NeverCancelled => TimerKept)

LEMMA AmongHeadTail ==
  ASSUME NEW S, NEW s \in Seq(S), s # <<>>, NEW x, Among(x, s)
  PROVE  x = Head(s) \/ Among(x, Tail(s))
<1>1. /\ Tail(s) \in Seq(S) /\ Len(Tail(s)) = Len(s) - 1 /\ Len(s) \in Nat \ {0}
      /\ \A i \in 1..(Len(s) - 1) : Tail(s)[i] = s[i + 1]
      /\ Head(s) = s[1]
  BY HeadTailProperties, EmptySeq
<1>2. PICK i \in 1..Len(s) : s[i] = x
  BY DEF Among
<1>3. CASE i = 1
  BY <1>1, <1>2, <1>3
<1>4. CASE i # 1
  <2>1. i - 1 \in 1..(Len(s) - 1) /\ (i - 1) + 1 = i
    BY <1>1, <1>2, <1>4
  <2>2. i - 1 \in 1..Len(Tail(s)) /\ Tail(s)[i - 1] = x
    BY <1>1, <1>2, <2>1
  <2> QED BY <2>2 DEF Among
<1> QED BY <1>3, <1>4

\* What follows the first task, once another one is queued.
LEMMA TailOfAppend ==
  ASSUME NEW S, NEW s \in Seq(S), NEW a \in S, NEW x, Among(x, Tail(Append(s, a)))
  PROVE  s # <<>> /\ (Among(x, Tail(s)) \/ x = a)
<1> DEFINE r == Append(s, a)
<1>1. /\ r \in Seq(S) /\ Len(r) = Len(s) + 1 /\ Len(s) \in Nat
      /\ \A i \in 1..(Len(s) + 1) : r[i] = IF i <= Len(s) THEN s[i] ELSE a
  BY AppendProperties
<1> HIDE DEF r
<1>2. r # <<>>
  BY <1>1, EmptySeq
<1>3. Len(Tail(r)) = Len(s) /\ \A i \in 1..Len(s) : Tail(r)[i] = r[i + 1]
  BY <1>1, <1>2, HeadTailProperties
<1>4. PICK i \in 1..Len(s) : r[i + 1] = x
  BY <1>3 DEF Among, r
<1>5. s # <<>> /\ Len(Tail(s)) = Len(s) - 1
      /\ \A j \in 1..(Len(s) - 1) : Tail(s)[j] = s[j + 1]
  <2>1. s # <<>>
    BY <1>1, <1>4, EmptySeq
  <2> QED BY <2>1, HeadTailProperties
<1>6. CASE i = Len(s)
  BY <1>1, <1>4, <1>5, <1>6
<1>7. CASE i # Len(s)
  <2>1. i \in 1..(Len(s) - 1) /\ i + 1 \in 1..(Len(s) + 1) /\ i + 1 <= Len(s)
    BY <1>1, <1>4, <1>7
  <2>2. i \in 1..Len(Tail(s)) /\ Tail(s)[i] = x
    BY <1>1, <1>4, <1>5, <2>1
  <2> QED BY <1>5, <2>2 DEF Among
<1> QED BY <1>6, <1>7

\* Nothing that concerns the timer changes.
TimerFrame ==
    /\ UNCHANGED <<status, enabled, timer, todo, tasks, batch>>
    /\ kept' => kept

LEMMA FrameTimer ==
  ASSUME TimerInv, TimerFrame PROVE TimerInv'
<1>1. EnabledEarly /\ TimerLife => TimerLife'
  BY DEF TimerFrame, TimerLife
<1>2. NeverCancelled /\ TimerKept => TimerKept'
  BY DEF TimerFrame, TimerKept
<1> QED BY <1>1, <1>2 DEF TimerInv, EnabledEarly, NeverCancelled, Among

\* Statements: while one runs no enable is queued.
LEMMA StatementTimerInv ==
  ASSUME IInv, TimerInv, Statement PROVE TimerInv'
<1>1. TimerEffect
  BY StatementTimer
<1>2. /\ tasks' \in Seq(TaskKinds) /\ UNCHANGED batch /\ todo # <<>>
      /\ \A x : Among(x, tasks) => Among(x, tasks')
      /\ \A x : Among(x, tasks') => Among(x, tasks) \/ x = "releaseInLoop"
  <2>1. tasks \in Seq(TaskKinds) /\ "releaseInLoop" \in TaskKinds
    BY DEF IInv, Bounds, TypeOK, TaskKinds
  <2> QED BY <1>1, <2>1, PostTypes DEF TimerEffect
<1>3. EnabledEarly /\ TimerLife => TimerLife'
  <2>1. SUFFICES ASSUME TimerLife PROVE TimerLife'
    OBVIOUS
  <2>2. ~Among("enable", tasks) /\ ~Among("enable", batch)
    BY <1>2, <2>1 DEF TimerLife
  <2>3. ~Among("enable", tasks') /\ ~Among("enable", batch')
    BY <1>2, <2>2
  <2>4. timer' = "armed" => status' # "DISCONNECTED"
    BY <1>1, <2>1 DEF TimerEffect, TimerLife, Calm
  <2>5. Among("enable", todo') => status' # "DISCONNECTED"
    BY <1>1, <2>1 DEF TimerEffect, TimerLife, Calm, TimerCalls
  <2>6. batch' # <<>> => ~Among("enable", Tail(batch'))
    BY <1>2, <2>1 DEF TimerLife
  <2> QED BY <2>3, <2>4, <2>5, <2>6 DEF TimerLife
<1>4. NeverCancelled /\ TimerKept => TimerKept'
  <2>1. SUFFICES ASSUME NeverCancelled, TimerKept PROVE TimerKept'
    OBVIOUS
  <2>2. ~Among("cancel", todo')
    BY <1>1, <2>1 DEF TimerEffect, TimerKept, TimerCalls, NeverCancelled, Plans
  <2>3. ~Among("cancel", tasks') /\ ~Among("cancel", batch')
    BY <1>2, <2>1 DEF TimerKept
  <2>4. ~Among("cancel", todo) /\ timer \in {"none", "armed", "muted"}
    BY <2>1 DEF TimerKept, IInv, Bounds, TypeOK
  <2>5. status' # "DISCONNECTED" => timer' # "muted"
    BY <1>1, <2>1, <2>4 DEF TimerEffect, TimerKept, Calm
  <2>6. enabled' /\ status' # "DISCONNECTED" =>
          \/ timer' = "armed" \/ todo' = Asked
          \/ Among("releaseInLoop", tasks') \/ Among("releaseInLoop", batch')
    <3>1. CASE Calm
      BY <1>2, <2>1, <3>1 DEF TimerKept, Calm
    <3>2. CASE ~Calm
      BY <1>1, <2>1, <2>4, <3>2 DEF TimerEffect, TimerKept
    <3> QED BY <3>1, <3>2
  <2> QED BY <2>2, <2>3, <2>5, <2>6 DEF TimerKept
<1> QED BY <1>3, <1>4 DEF TimerInv, EnabledEarly, NeverCancelled, Among

LEMMA ChannelEventTimer ==
  ASSUME IInv, TimerInv, ChannelEvent PROVE TimerInv'
<1> DEFINE S == {"close", "read", "write", "event"}
<1>1. /\ todo = <<>> /\ phase = "handle" /\ "conn" \in ready
      /\ UNCHANGED <<status, enabled, timer, kept, tasks, batch>>
  BY DEF ChannelEvent, AtRest, world, conn, wheel, owners
<1>2. todo' \in Seq(S)
  <2>1. /\ <<>> \in Seq(S) /\ <<"close">> \in Seq(S) /\ <<"read", "close">> \in Seq(S)
        /\ <<"read">> \in Seq(S) /\ <<"write">> \in Seq(S) /\ <<"event">> \in Seq(S)
    BY ShortSequences
  <2> DEFINE in == IF "IN" \in revents THEN <<"read">> ELSE <<>>
             out == IF "OUT" \in revents THEN <<"write">> ELSE <<>>
  <2>2. in \in Seq(S) /\ out \in Seq(S)
    BY <2>1
  <2>3. todo' \in Seq(S) \/ todo' = in \o out \o <<"event">>
    BY <2>1 DEF ChannelEvent
  <2> HIDE DEF in, out, S
  <2>4. in \o out \in Seq(S)
    BY <2>2, ConcatProperties
  <2>5. in \o out \o <<"event">> \in Seq(S)
    BY <2>1, <2>4, ConcatProperties
  <2> QED BY <2>3, <2>5
<1>3. \A x : Among(x, todo') => x \in S
  BY <1>2, AmongRange
<1>4. status \in {"CONNECTED", "DISCONNECTING"} /\ todo # Asked
  BY <1>1, ReleaseTodoFacts DEF IInv, Turns, ReleaseTodos
<1>5. EnabledEarly /\ TimerLife => TimerLife'
  BY <1>1, <1>3, <1>4 DEF TimerLife
<1>6. NeverCancelled /\ TimerKept => TimerKept'
  BY <1>1, <1>3, <1>4 DEF TimerKept
<1> QED BY <1>5, <1>6 DEF TimerInv, EnabledEarly, NeverCancelled, Among

\* The wheel drops the entry and asks for the release it was armed for.
LEMMA OnTimeTimer ==
  ASSUME IInv, TimerInv, OnTime PROVE TimerInv'
<1>1. /\ todo = <<>> /\ UNCHANGED <<status, enabled, kept, todo, batch>>
      /\ \/ timer = "armed" /\ timer' = "none" /\ Post("releaseInLoop")
         \/ timer # "armed" /\ timer' = "none" /\ UNCHANGED tasks
         \/ UNCHANGED <<timer, tasks>>
  BY DEF OnTime, AtRest, conn, owners
<1>2. /\ \A x : Among(x, tasks) => Among(x, tasks')
      /\ \A x : Among(x, tasks') => Among(x, tasks) \/ x = "releaseInLoop"
      /\ timer = "armed" /\ timer' = "none" => Among("releaseInLoop", tasks')
      /\ timer # "armed" => UNCHANGED tasks
  <2>1. tasks \in Seq(TaskKinds) /\ "releaseInLoop" \in TaskKinds
    BY DEF IInv, Bounds, TypeOK, TaskKinds
  <2> QED BY <1>1, <2>1, PostTypes
<1>3. EnabledEarly /\ TimerLife => TimerLife'
  <2>1. SUFFICES ASSUME TimerLife PROVE TimerLife'
    OBVIOUS
  <2>2. Among("enable", tasks') => Among("enable", tasks) /\ UNCHANGED tasks
    BY <1>2, <2>1 DEF TimerLife
  <2> QED BY <1>1, <1>2, <2>1, <2>2 DEF TimerLife
<1>4. NeverCancelled /\ TimerKept => TimerKept'
  BY <1>1, <1>2 DEF TimerKept
<1> QED BY <1>3, <1>4 DEF TimerInv, EnabledEarly, NeverCancelled, Among

LEMMA NewConnectionInlineTimer ==
  ASSUME IInv, TimerInv, NewConnectionInline PROVE TimerInv'
<1> DEFINE S == {"enable", "established", "insert"}
<1>1. /\ todo = <<>> /\ "listen" \in ready
      /\ UNCHANGED <<status, enabled, timer, kept, tasks, batch>>
  BY DEF NewConnectionInline, AtRest, conn, wheel
<1>2. todo' \in Seq(S)
  <2>1. /\ <<>> \in Seq(S) /\ <<"enable">> \in Seq(S) /\ <<"established", "insert">> \in Seq(S)
    BY ShortSequences
  <2> DEFINE early == IF ServerTimeout THEN <<"enable">> ELSE <<>>
  <2>2. early \in Seq(S) /\ todo' = early \o <<"established", "insert">>
    BY <2>1 DEF NewConnectionInline
  <2> HIDE DEF early, S
  <2> QED BY <2>1, <2>2, ConcatProperties
<1>3. \A x : Among(x, todo') => x \in S
  BY <1>2, AmongRange
<1>4. /\ status = "CONNECTING" /\ tasks = <<>> /\ batch = <<>> /\ todo # Asked
      /\ timer = "none" /\ \A x : ~Among(x, <<>>)
  BY <1>1, AmongLiterals, ReleaseTodoFacts DEF IInv, Turns, Owned, ReleaseTodos
<1>5. EnabledEarly /\ TimerLife => TimerLife'
  BY <1>1, <1>4 DEF TimerLife
<1>6. NeverCancelled /\ TimerKept => TimerKept'
  BY <1>1, <1>3, <1>4 DEF TimerKept
<1> QED BY <1>5, <1>6 DEF TimerInv, EnabledEarly, NeverCancelled, Among

LEMMA SwapTasksTimer ==
  ASSUME IInv, TimerInv, SwapTasks PROVE TimerInv'
<1>1. /\ todo = <<>> /\ batch = <<>> /\ batch' = tasks /\ tasks' = <<>>
      /\ UNCHANGED <<status, enabled, timer, kept, todo>>
  BY DEF SwapTasks, AtRest, world, conn, wheel, owners, IInv, Turns
<1>2. /\ \A x : ~Among(x, <<>>)
      /\ tasks # <<>> => \A x : Among(x, Tail(tasks)) => Among(x, tasks)
  BY AmongLiterals, AmongTail DEF IInv, Bounds, TypeOK
<1>3. EnabledEarly /\ TimerLife => TimerLife'
  BY <1>1, <1>2 DEF TimerLife
<1>4. NeverCancelled /\ TimerKept => TimerKept'
  BY <1>1, <1>2 DEF TimerKept
<1> QED BY <1>3, <1>4 DEF TimerInv, EnabledEarly, NeverCancelled, Among

LEMMA RunTaskTimer ==
  ASSUME IInv, TimerInv, RunTask PROVE TimerInv'
<1>1. /\ todo = <<>> /\ batch # <<>> /\ batch' = Tail(batch) /\ todo' = <<Head(batch)>>
      /\ UNCHANGED <<status, enabled, timer, kept, tasks>>
  BY DEF RunTask, AtRest, world, conn, wheel, owners
<1>2. /\ batch \in Seq(TaskKinds) /\ Tail(batch) \in Seq(TaskKinds)
      /\ Among(Head(batch), batch) /\ \A x : Among(x, Tail(batch)) => Among(x, batch)
      /\ \A x : Among(x, batch) => x = Head(batch) \/ Among(x, Tail(batch))
  BY <1>1, BatchFacts, AmongHeadTail DEF IInv, Bounds, TypeOK
<1>3. \A x : Among(x, todo') <=> x = Head(batch)
  BY <1>1, AmongLiterals
<1>4. EnabledEarly /\ TimerLife => TimerLife'
  <2>1. SUFFICES ASSUME TimerLife PROVE TimerLife'
    OBVIOUS
  <2>2. ~Among("enable", tasks) /\ ~Among("enable", Tail(batch))
    BY <1>1, <2>1 DEF TimerLife
  <2>3. Tail(batch) # <<>> => \A x : Among(x, Tail(Tail(batch))) => Among(x, Tail(batch))
    BY <1>2, AmongTail
  <2>4. Among("enable", todo') => status' # "DISCONNECTED"
    BY <1>1, <1>2, <1>3, <2>1 DEF TimerLife
  <2> QED BY <1>1, <2>1, <2>2, <2>3, <2>4 DEF TimerLife
<1>5. NeverCancelled /\ TimerKept => TimerKept'
  <2>1. Head(batch) = "releaseInLoop" => todo' = Asked
    BY <1>1 DEF Asked
  <2>2. todo # Asked
    BY <1>1, ReleaseTodoFacts DEF ReleaseTodos
  <2> QED BY <1>1, <1>2, <1>3, <2>1, <2>2 DEF TimerKept
<1> QED BY <1>4, <1>5 DEF TimerInv, EnabledEarly, NeverCancelled, Among

\* A task of a freed connection finds it released.
LEMMA RunTaskOnFreedTimer ==
  ASSUME IInv, TimerInv, RunTaskOnFreed PROVE TimerInv'
<1>1. /\ todo = <<>> /\ batch # <<>> /\ batch' = Tail(batch) /\ ~Alive
      /\ UNCHANGED <<status, enabled, timer, kept, tasks, todo>>
  BY DEF RunTaskOnFreed, AtRest, world, conn, wheel, owners
<1>2. /\ Tail(batch) \in Seq(TaskKinds) /\ status = "DISCONNECTED"
      /\ \A x : Among(x, Tail(batch)) => Among(x, batch)
  BY <1>1, BatchFacts, OwnersAlive
<1>3. EnabledEarly /\ TimerLife => TimerLife'
  <2>1. SUFFICES ASSUME TimerLife PROVE TimerLife'
    OBVIOUS
  <2>2. ~Among("enable", tasks) /\ ~Among("enable", batch)
    BY <1>2, <2>1 DEF TimerLife
  <2>3. Tail(batch) # <<>> => ~Among("enable", Tail(Tail(batch)))
    BY <1>2, <2>2, AmongTail
  <2> QED BY <1>1, <1>2, <2>1, <2>2, <2>3 DEF TimerLife
<1>4. NeverCancelled /\ TimerKept => TimerKept'
  BY <1>1, <1>2 DEF TimerKept
<1> QED BY <1>3, <1>4 DEF TimerInv, EnabledEarly, NeverCancelled, Among

\* The base loop queues the enable before anything else, and the rest behind.
LEMMA BaseLoopTimer ==
  ASSUME IInv, TimerInv, BaseLoop PROVE TimerInv'
<1>1. CASE NewConnection
  <2>1. /\ accepting = "none" /\ tasks' = (IF ServerTimeout THEN Append(tasks, "enable") ELSE tasks)
        /\ UNCHANGED <<status, enabled, timer, kept, todo, batch>>
    BY <1>1 DEF NewConnection, Post, conn, wheel, place
  <2>2. /\ status = "CONNECTING" /\ tasks = <<>> /\ batch = <<>> /\ todo = <<>>
        /\ timer = "none" /\ ~kept /\ \A x : ~Among(x, <<>>)
    BY <2>1, AmongLiterals DEF IInv, Owned
  <2>3. tasks' \in {<<>>, <<"enable">>} /\ Tail(<<"enable">>) = <<>>
    BY <2>1, <2>2
  <2>4. \A x : Among(x, <<"enable">>) <=> x = "enable"
    BY AmongLiterals
  <2>5. todo # Asked
    BY <2>2 DEF Asked
  <2>6. EnabledEarly /\ TimerLife => TimerLife'
    BY <2>1, <2>2, <2>3 DEF TimerLife
  <2>7. NeverCancelled /\ TimerKept => TimerKept'
    BY <2>1, <2>2, <2>3, <2>4, <2>5 DEF TimerKept
  <2> QED BY <2>6, <2>7 DEF TimerInv, EnabledEarly, NeverCancelled, Among
<1>2. CASE PostEstablished
  <2>1. /\ tasks' = Append(tasks, "established") /\ Post("established")
        /\ UNCHANGED <<status, enabled, timer, kept, todo, batch>>
    BY <1>2 DEF PostEstablished, Post, conn, wheel, place
  <2>2. /\ tasks \in Seq(TaskKinds) /\ "established" \in TaskKinds
        /\ \A x : Among(x, tasks') <=> Among(x, tasks) \/ x = "established"
    BY <2>1, PostTypes DEF IInv, Bounds, TypeOK, TaskKinds
  <2>3. Among("enable", Tail(tasks')) => Among("enable", Tail(tasks))
    BY <2>1, <2>2, TailOfAppend
  <2>4. EnabledEarly /\ TimerLife => TimerLife'
    BY <2>1, <2>2, <2>3 DEF TimerLife
  <2>5. NeverCancelled /\ TimerKept => TimerKept'
    BY <2>1, <2>2 DEF TimerKept
  <2> QED BY <2>4, <2>5 DEF TimerInv, EnabledEarly, NeverCancelled, Among
<1>3. CASE InsertConnection \/ RemoveConnectionInLoop
  <2>1. TimerFrame
    BY <1>3 DEF InsertConnection, RemoveConnectionInLoop, TimerFrame, conn, wheel, loop, place
  <2> QED BY <2>1, FrameTimer
<1> QED BY <1>1, <1>2, <1>3 DEF BaseLoop

\* A call through a kept pointer comes after the server's enable ran.
LEMMA CallTimer ==
  ASSUME IInv, TimerInv, NEW c \in OtherCalls, CallFromThread(c) \/ CallFromCallback(c)
  PROVE  TimerInv'
<1> DEFINE op == IF c = "release" THEN "releaseInLoop" ELSE c
<1>1. /\ c \in {"send", "sendNothing", "shutdown", "release", "enable", "cancel"} /\ op \in TaskKinds
      /\ op \in TimerCalls => op = c
  BY ConnectionAssumption DEF Calls, TaskKinds, TimerCalls
<1> HIDE DEF op
<1>2. /\ kept /\ UNCHANGED <<status, enabled, timer, kept, batch>>
      /\ \/ Post(op) /\ UNCHANGED todo
         \/ todo = <<>> /\ todo' = <<c>> /\ UNCHANGED tasks
  BY DEF CallFromThread, CallFromCallback, AtRest, op, conn, wheel, owners, place
<1>3. /\ \A x : Among(x, tasks) => Among(x, tasks')
      /\ \A x : Among(x, tasks') => Among(x, tasks) \/ x = op
  BY <1>1, <1>2, PostTypes
<1>4. \A x : Among(x, todo') => Among(x, todo) \/ x = c
  BY <1>2, AmongLiterals
<1>5. UNCHANGED todo \/ todo # Asked
  BY <1>2 DEF Asked
<1>6. EnabledEarly /\ TimerLife => TimerLife'
  <2>1. SUFFICES ASSUME EnabledEarly, TimerLife PROVE TimerLife'
    OBVIOUS
  <2>2. c # "enable" /\ op # "enable"
    BY <1>1, <2>1 DEF EnabledEarly, TimerCalls
  <2>3. ~Among("enable", tasks) /\ ~Among("enable", batch)
    BY <1>2, <2>1 DEF TimerLife
  <2>4. ~Among("enable", tasks') /\ (Among("enable", todo') => Among("enable", todo))
    BY <1>3, <1>4, <2>2, <2>3
  <2> QED BY <1>2, <2>1, <2>3, <2>4 DEF TimerLife
<1>7. NeverCancelled /\ TimerKept => TimerKept'
  <2>1. SUFFICES ASSUME NeverCancelled, TimerKept PROVE TimerKept'
    OBVIOUS
  <2>2. c # "cancel" /\ op # "cancel"
    BY <1>1, <2>1 DEF NeverCancelled, TimerCalls
  <2> QED BY <1>2, <1>3, <1>4, <1>5, <2>1, <2>2 DEF TimerKept
<1> QED BY <1>6, <1>7 DEF TimerInv, EnabledEarly, NeverCancelled, Among

LEMMA TimerInductive ==
  ASSUME IInv, TimerInv, [Next]_vars PROVE TimerInv'
<1>1. CASE Poll \/ BatchDone \/ UNCHANGED vars
  <2>1. TimerFrame
    BY <1>1 DEF Poll, BatchDone, TimerFrame, vars, world, conn, wheel, owners, loop, place
  <2> QED BY <2>1, FrameTimer
<1>2. CASE IoLoop /\ ~(Poll \/ BatchDone)
  BY <1>2, StatementTimerInv, ChannelEventTimer, OnTimeTimer, NewConnectionInlineTimer,
     SwapTasksTimer, RunTaskTimer, RunTaskOnFreedTimer DEF IoLoop
<1>3. CASE BaseLoop
  BY <1>3, BaseLoopTimer
<1>4. CASE \E c \in OtherCalls : CallFromThread(c) \/ CallFromCallback(c)
  BY <1>4, CallTimer
<1>5. CASE DropPointer \/ Expire \/ PeerSends \/ PeerShutsDown \/ PeerResets \/ PeerReads
  <2>1. TimerFrame
    BY <1>5 DEF DropPointer, Expire, PeerSends, PeerShutsDown, PeerResets, PeerReads,
                TimerFrame, conn, wheel, owners, loop, place
  <2> QED BY <2>1, FrameTimer
<1> QED BY <1>1, <1>2, <1>3, <1>4, <1>5 DEF Next, Environment, Crashed

LEMMA SpecKeepsTimerInv == Spec => []TimerInv
<1>1. Init => TimerInv
  <2>1. \A x : ~Among(x, <<>>)
    BY AmongLiterals
  <2> QED BY <2>1 DEF Init, TimerInv, TimerLife, TimerKept
<1>2. IInv /\ TimerInv /\ [Next]_vars => TimerInv'
  BY TimerInductive
<1> QED BY <1>1, <1>2, SpecKeepsIInv, PTL DEF Spec

\* If nobody enables the inactivity release of a connection through a pointer
\* kept beyond its life, no armed callback, a raw `this', outlives the connection
\* (Connection::ReleaseInLoop, EnableInactiveReleaseInLoop, TimingWheel::OnTime).
THEOREM TimerDies ==
  ASSUME EnabledEarly PROVE Spec => []TimerDiesWithConnection
<1>1. ASSUME IInv, TimerInv PROVE TimerDiesWithConnection
  <2>1. SUFFICES ASSUME timer = "armed" PROVE Alive /\ status # "DISCONNECTED"
    BY DEF TimerDiesWithConnection
  <2>2. status # "DISCONNECTED"
    BY <1>1, <2>1 DEF TimerInv, TimerLife
  <2>3. accepting # "none"
    BY <1>1, <2>1 DEF IInv, Owned
  <2> QED BY <1>1, <2>2, <2>3, OwnersAlive
<1> QED BY <1>1, SpecKeepsIInv, SpecKeepsTimerInv, PTL

\* If nobody turns the inactivity release off, an established connection whose
\* release is on has a timer that will release it, or its release is queued:
\* refreshes, expiries and closings in one round never lose it.
THEOREM EnabledStaysArmed ==
  ASSUME NeverCancelled PROVE Spec => []EnabledMeansArmed
<1>1. ASSUME IInv, TimerInv PROVE EnabledMeansArmed
  <2>1. SUFFICES ASSUME todo = <<>>, status = "CONNECTED", enabled, timer # "armed"
                 PROVE  ReleaseAsked
    BY DEF EnabledMeansArmed, AtRest
  <2>2. Among("releaseInLoop", tasks) \/ Among("releaseInLoop", batch)
    BY <1>1, <2>1 DEF TimerInv, TimerKept, Asked
  <2>3. tasks \in Seq(TaskKinds) /\ batch \in Seq(TaskKinds)
    BY <1>1 DEF IInv, Bounds, TypeOK
  <2> QED BY <2>2, <2>3, AmongConcat DEF ReleaseAsked
<1> QED BY <1>1, SpecKeepsIInv, SpecKeepsTimerInv, PTL
=============================================================================
