--------------------------- MODULE ChatTurnProofs ---------------------------
(***************************************************************************)
(* Theorems about ChatTurn, for any turns, departments, stored threads and *)
(* bounds: the loop keeps the model's protocol, the thread implements      *)
(* ThreadLog, and the context of every turn is what the conversation owes  *)
(* the model.                                                              *)
(***************************************************************************)
EXTENDS ChatTurn, SequenceTheorems, WellFoundedInduction, TLAPS

Before == {"opened", "asking"}
After == {"preflight", "loop", "reply", "replying"}
Writing == {"asking", "replying"}

\* Every call in the list still waits for its tool message, and only those do;
\* what has run is in the cache.
LoopStands(l) ==
  /\ l.open = Len(l.todo)
  /\ (l.at = "calls") = (l.todo # <<>>)
  /\ \A k \in Keys : l.ran[k] <= 1 /\ (k \notin l.cache => l.ran[k] = 0)

LoopsStand == \A t \in InFlight : LoopStands(turn[t].loop)

\* The numbers of the rows are their places, and there are rows while there is a session.
ThreadStands ==
  /\ \A i \in DOMAIN thread : thread[i].seq = i /\ thread[i].dept = bound
  /\ (session = "live") = (thread # <<>>)

\* Until a session exists one turn is making it; afterwards none is.
OneTurnMakesTheSession ==
  /\ session = "none" =>
       \A t \in InFlight : turn[t].new /\ turn[t].at \in Before /\ \A u \in InFlight : t = u
  /\ session # "none" => \A t \in Turns : turn[t].at \in Before => ~turn[t].new

\* Who is about to insert holds the session's row and the next number.
WritersHoldTheRow == \A t \in Turns : turn[t].at \in Writing =>
  /\ session = "live" => lock = t /\ turn[t].seq = Len(thread) + 1
  /\ session = "none" => turn[t].seq = 1

Wrote(t, role) == \E i \in DOMAIN thread : thread[i].turn = t /\ thread[i].role = role

\* What of a turn is in the thread is what it has come to.
TurnsStand == \A t \in Turns :
  /\ turn[t].at \in Before \cup {"idle"} => ~Wrote(t, "user")
  /\ turn[t].at \in Before \cup After \cup {"idle"} => ~Wrote(t, "assistant")
  /\ turn[t].at \in After /\ session = "live" => Wrote(t, "user")
  /\ turn[t].at \in Before \cup After /\ session = "live" => turn[t].dept = bound

Inv == TypeOK /\ LoopsStand /\ ThreadStands /\ OneTurnMakesTheSession /\ WritersHoldTheRow /\ TurnsStand

-----------------------------------------------------------------------------
(* The loop *)

LEMMA LoopStartStands == LoopStart \in LoopRecords /\ LoopStands(LoopStart)
  <1>1. <<>> \in Seq(Calls) /\ Len(<<>>) = 0
    OBVIOUS
  <1>2. QED
    BY <1>1 DEF LoopStart, LoopRecords, LoopStands

LEMMA EndStands == ASSUME NEW l PROVE End(l) \in LoopRecords /\ LoopStands(End(l)) /\ End(l).at = "end"
  <1>1. LoopStart.at = "ask" /\ LoopStart.todo = <<>> /\ LoopStart.open = 0
          /\ LoopStart.ran = [k \in Keys |-> 0]
    BY DEF LoopStart
  <1>2. End(l) \in LoopRecords
    BY LoopStartStands DEF End, LoopRecords
  <1>3. /\ End(l).at = "end" /\ End(l).todo = <<>> /\ End(l).open = 0
        /\ End(l).ran = [k \in Keys |-> 0]
    BY <1>1, LoopStartStands DEF End, LoopRecords
  <1>4. QED
    BY <1>2, <1>3 DEF LoopStands

\* The call at the head of the list is answered.
LEMMA ToolMessageStands ==
  ASSUME NEW l \in LoopRecords, l.todo # <<>>, l.open = Len(l.todo), l.at = "calls",
         \A k \in Keys : l.ran[k] <= 1 /\ (k \notin l.cache => l.ran[k] = 0)
  PROVE  ToolMessage(l) \in LoopRecords /\ LoopStands(ToolMessage(l))
  <1> DEFINE rest == [l EXCEPT !.todo = Tail(@), !.open = @ - 1]
  <1>0. /\ l.todo \in Seq(Calls) /\ l.open \in Int /\ l.iteration \in Nat
        /\ l.cache \in SUBSET Keys /\ l.ran \in [Keys -> Nat]
    BY DEF LoopRecords
  <1>1. Tail(l.todo) \in Seq(Calls) /\ Len(Tail(l.todo)) = Len(l.todo) - 1
    BY <1>0
  <1>2. rest \in LoopRecords
    <2> DEFINE tail == Tail(l.todo)
               open == l.open - 1
    <2>1. tail \in Seq(Calls) /\ open \in Int
      BY <1>0, <1>1
    <2>2. rest = [l EXCEPT !.todo = tail, !.open = open]
      OBVIOUS
    <2> HIDE DEF tail, open, rest
    <2>3. QED
      BY <2>1, <2>2 DEF LoopRecords
  <1>3. /\ rest.todo = Tail(l.todo) /\ rest.open = Len(rest.todo) /\ rest.at = "calls"
        /\ rest.ran = l.ran /\ rest.cache = l.cache /\ rest.iteration = l.iteration
    BY <1>1 DEF LoopRecords
  <1> HIDE DEF rest
  <1>4. CASE rest.todo # <<>>
    BY <1>2, <1>3, <1>4 DEF ToolMessage, LoopStands, rest
  <1>5. CASE rest.todo = <<>>
    <2>1. ToolMessage(l) = NextIteration(rest)
      BY <1>5 DEF ToolMessage, rest
    <2>2. CASE rest.iteration = Iterations
      BY <2>1, <2>2, EndStands DEF NextIteration
    <2>3. CASE rest.iteration # Iterations
      <3> DEFINE next == [rest EXCEPT !.iteration = @ + 1, !.at = "ask"]
      <3>1. ToolMessage(l) = next
        BY <2>1, <2>3 DEF NextIteration
      <3>2. next \in LoopRecords
        <4>1. next = [rest EXCEPT !.iteration = rest.iteration + 1, !.at = "ask"]
          BY <1>2 DEF LoopRecords
        <4>2. rest.iteration + 1 \in Nat
          BY <1>2 DEF LoopRecords
        <4>3. QED
          BY <1>2, <4>1, <4>2 DEF LoopRecords
      <3>3. next.todo = rest.todo /\ next.open = rest.open /\ next.ran = rest.ran
              /\ next.cache = rest.cache /\ next.at = "ask"
        BY <1>2 DEF LoopRecords
      <3> HIDE DEF next
      <3>4. LoopStands(next)
        BY <1>3, <1>5, <3>3 DEF LoopStands
      <3>5. QED
        BY <3>1, <3>2, <3>4
    <2>4. QED
      BY <2>2, <2>3
  <1>6. QED
    BY <1>4, <1>5

LEMMA NudgeStands ==
  ASSUME NEW l \in LoopRecords, LoopStands(l), l.at = "calls"
  PROVE  Nudge(l) \in LoopRecords /\ LoopStands(Nudge(l))
  BY ToolMessageStands DEF LoopStands, Nudge

\* A tool is called only with what is not in the cache yet.
LEMMA DispatchedStands ==
  ASSUME NEW l \in LoopRecords, LoopStands(l), l.at = "calls", ~Refused(l), NEW raised
  PROVE  Dispatched(l, raised) \in LoopRecords /\ LoopStands(Dispatched(l, raised))
  <1> DEFINE key == Head(l.todo)
             m == [l EXCEPT !.cache = @ \cup {key}, !.ran[key] = @ + 1]
  <1>1. l.todo \in Seq(Calls) /\ l.todo # <<>> /\ l.cache \in SUBSET Keys /\ l.ran \in [Keys -> Nat]
    BY DEF LoopRecords, LoopStands
  <1>2. key \in Keys /\ key \notin l.cache
    BY <1>1 DEF Refused, Calls
  <1>3. m = [l EXCEPT !.cache = l.cache \cup {key}, !.ran = [l.ran EXCEPT ![key] = l.ran[key] + 1]]
    BY <1>1 DEF LoopRecords
  <1>4. l.cache \cup {key} \in SUBSET Keys /\ [l.ran EXCEPT ![key] = l.ran[key] + 1] \in [Keys -> Nat]
    BY <1>1, <1>2
  <1>5. m \in LoopRecords
    BY <1>3, <1>4 DEF LoopRecords
  <1>6. m.todo = l.todo /\ m.open = l.open /\ m.at = l.at /\ m.cache = l.cache \cup {key}
          /\ m.ran = [l.ran EXCEPT ![key] = l.ran[key] + 1]
    BY <1>3 DEF LoopRecords
  <1>7. Dispatched(l, raised) = ToolMessage(m)
    BY DEF Dispatched
  <1> HIDE DEF m, key
  <1>8. \A k \in Keys : m.ran[k] <= 1 /\ (k \notin m.cache => m.ran[k] = 0)
    BY <1>1, <1>2, <1>6 DEF LoopStands
  <1>9. QED
    BY <1>1, <1>5, <1>6, <1>7, <1>8, ToolMessageStands DEF LoopStands

LEMMA AnsweredStands ==
  ASSUME NEW l \in LoopRecords, LoopStands(l), NEW asked \in BoundedSeq(Calls, CallsAtOnce)
  PROVE  Answered(l, asked) \in LoopRecords /\ LoopStands(Answered(l, asked))
  <1>1. asked \in Seq(Calls) /\ Len(asked) \in Int
    BY LoopAssumption DEF BoundedSeq, SeqOf
  <1>2. CASE asked = <<>>
    BY <1>2, EndStands DEF Answered
  <1>3. CASE asked # <<>>
    <2> DEFINE m == [l EXCEPT !.at = "calls", !.todo = asked, !.open = Len(asked)]
    <2>1. Answered(l, asked) = m
      BY <1>3 DEF Answered
    <2>2. m \in LoopRecords
      BY <1>1 DEF LoopRecords
    <2>3. m.at = "calls" /\ m.todo = asked /\ m.open = Len(asked) /\ m.ran = l.ran /\ m.cache = l.cache
      BY DEF LoopRecords
    <2> HIDE DEF m
    <2>4. LoopStands(m)
      BY <1>3, <2>3 DEF LoopStands
    <2>5. QED
      BY <2>1, <2>2, <2>4
  <1>4. QED
    BY <1>2, <1>3

LEMMA LoopStandsKeepsProtocol ==
  ASSUME NEW l \in LoopRecords, LoopStands(l)
  PROVE  LoopKeepsProtocol(l)
  <1>1. l.todo \in Seq(Calls) /\ l.open \in Int
    BY DEF LoopRecords
  <1>2. l.at = "ask" => l.open = 0
    BY <1>1 DEF LoopStands
  <1>3. QED
    BY <1>1, <1>2 DEF LoopStands, LoopKeepsProtocol

-----------------------------------------------------------------------------
(* Rows and numbers *)

LEMMA NextSeqIsNext ==
  ASSUME thread \in Seq(Rows)
  PROVE  NextSeq = Len(thread) + 1
  <1>1. DOMAIN thread = 1..Len(thread) /\ Len(thread) \in Nat
    OBVIOUS
  <1>2. \A y \in DOMAIN thread \cup {0} : Len(thread) >= y
    BY <1>1
  <1>3. Len(thread) \in DOMAIN thread \cup {0}
    BY <1>1
  <1>4. \A x \in DOMAIN thread \cup {0} : (\A y \in DOMAIN thread \cup {0} : x >= y) => x = Len(thread)
    BY <1>1, <1>2, <1>3
  <1>5. Max(DOMAIN thread \cup {0}) = Len(thread)
    BY <1>2, <1>3, <1>4 DEF Max
  <1>6. QED
    BY <1>5 DEF NextSeq

LEMMA InsertedAppends ==
  ASSUME thread \in Seq(Rows), NEW m \in Rows, m.seq = Len(thread) + 1
  PROVE  /\ Inserted(m) \in Seq(Rows) /\ Inserted(m) = Append(thread, m)
         /\ Len(Inserted(m)) = Len(thread) + 1 /\ DOMAIN Inserted(m) = 1..(Len(thread) + 1)
         /\ Inserted(m)[Len(thread) + 1] = m
         /\ \A i \in DOMAIN thread : Inserted(m)[i] = thread[i]
  <1>1. DOMAIN thread = 1..Len(thread) /\ Len(thread) \in Nat
    OBVIOUS
  <1>2. Inserted(m) = [i \in 1..(Len(thread) + 1) |-> IF i = Len(thread) + 1 THEN m ELSE thread[i]]
    <2>1. DOMAIN thread \cup {m.seq} = 1..(Len(thread) + 1)
      BY <1>1
    <2>2. QED
      BY <2>1 DEF Inserted
  <1>3. Inserted(m) \in Seq(Rows) /\ Len(Inserted(m)) = Len(thread) + 1
    BY <1>1, <1>2
  <1>4. \A i \in 1..Len(Inserted(m)) : Inserted(m)[i] = Append(thread, m)[i]
    BY <1>1, <1>2, <1>3, AppendProperties
  <1>5. Inserted(m) = Append(thread, m)
    BY <1>3, <1>4, AppendProperties, SeqEqual
  <1>6. /\ DOMAIN Inserted(m) = 1..(Len(thread) + 1)
        /\ Inserted(m)[Len(thread) + 1] = m
        /\ \A i \in DOMAIN thread : Inserted(m)[i] = thread[i]
    BY <1>1, <1>2
  <1>7. QED
    BY <1>3, <1>5, <1>6

-----------------------------------------------------------------------------
(* What a turn remembers *)

LEMMA UnderWayFields ==
  ASSUME NEW q, IsUnderWay(q)
  PROVE  /\ q.at \in Before \cup After /\ q.at \notin Ended
         /\ q.stream \in BOOLEAN /\ q.new \in BOOLEAN /\ q.files \in BOOLEAN
         /\ q.dept \in Depts \cup {NoDept} /\ q.seq \in Nat /\ q.loop \in LoopRecords
  BY DEF IsUnderWay, Before, After, Ended

LEMMA FlightIsUnderWay ==
  ASSUME TypeOK
  PROVE  \A t \in Turns : t \in InFlight <=> IsUnderWay(turn[t])
  <1> SUFFICES ASSUME NEW t \in Turns PROVE t \in InFlight <=> IsUnderWay(turn[t])
    OBVIOUS
  <1>1. turn[t] \in [at : Ended] \/ IsUnderWay(turn[t])
    BY DEF TypeOK
  <1>2. turn[t] \in [at : Ended] => turn[t].at \in Ended
    OBVIOUS
  <1>3. QED
    BY <1>1, <1>2, UnderWayFields DEF InFlight

\* Going to another station changes nothing else.
LEMMA FieldsStay ==
  ASSUME NEW q, IsUnderWay(q), NEW x \in Before \cup After
  PROVE  /\ IsUnderWay([q EXCEPT !.at = x])
         /\ [q EXCEPT !.at = x].at = x /\ [q EXCEPT !.at = x].new = q.new
         /\ [q EXCEPT !.at = x].dept = q.dept /\ [q EXCEPT !.at = x].seq = q.seq
         /\ [q EXCEPT !.at = x].loop = q.loop
  BY DEF IsUnderWay, Before, After

LEMMA OthersWait ==
  ASSUME TypeOK, NEW t \in Turns, NEW m, turn' = [turn EXCEPT ![t] = m]
  PROVE  turn'[t] = m /\ DOMAIN turn' = Turns /\ \A u \in Turns \ {t} : turn'[u] = turn[u]
  BY DEF TypeOK

\* A step that gives one turn a record keeps the types.
LEMMA RecordsStayTyped ==
  ASSUME TypeOK, NEW t \in Turns, NEW m, turn' = [turn EXCEPT ![t] = m],
         m \in [at : Ended] \/ IsUnderWay(m),
         session' \in {"none", "live", "deleted"}, bound' \in Depts \cup {NoDept},
         thread' \in Seq(Rows), reach' \subseteq Depts, lock' \in Turns \cup {NoTurn}, calls' \in Nat
  PROVE  TypeOK'
  <1>1. turn'[t] = m /\ DOMAIN turn' = Turns /\ \A u \in Turns \ {t} : turn'[u] = turn[u]
    BY OthersWait
  <1>2. \A u \in Turns : turn[u] \in [at : Ended] \/ IsUnderWay(turn[u])
    BY DEF TypeOK
  <1>3. \A u \in Turns : turn'[u] \in [at : Ended] \/ IsUnderWay(turn'[u])
    BY <1>1, <1>2
  <1>4. QED
    BY <1>1, <1>3 DEF TypeOK, IsUnderWay

-----------------------------------------------------------------------------
(* One step of one turn *)

\* A turn that ends lets go of the row and leaves the thread as it is.
LEMMA EndOfTurn ==
  ASSUME Inv, NEW t \in Turns, NEW how \in {"over", "unsaved"}, Finish(t, how),
         Release(t) \/ (turn[t].at \notin Writing /\ UNCHANGED lock),
         UNCHANGED <<session, bound, thread, reach, calls>>
  PROVE  Inv'
  <1> USE DEF Inv
  <1>1. turn'[t] = [at |-> how] /\ DOMAIN turn' = Turns /\ \A u \in Turns \ {t} : turn'[u] = turn[u]
    BY OthersWait DEF Finish
  <1>2. turn'[t].at = how /\ t \notin InFlight' /\ \A u \in Turns \ {t} : (u \in InFlight') = (u \in InFlight)
    BY <1>1 DEF InFlight, Ended
  <1>3. TypeOK'
    <2>1. [at |-> how] \in [at : Ended]
      BY DEF Ended
    <2>2. lock' \in Turns \cup {NoTurn}
      BY DEF TypeOK, Release
    <2>3. QED
      BY <2>1, <2>2, RecordsStayTyped DEF Finish, TypeOK
  <1>4. LoopsStand'
    <2>1. \A u \in InFlight' : u \in InFlight /\ turn'[u] = turn[u]
      BY <1>1, <1>2 DEF InFlight
    <2>2. QED
      BY <2>1 DEF LoopsStand, LoopStands
  <1>5. ThreadStands'
    BY DEF ThreadStands
  <1>6. OneTurnMakesTheSession'
    BY <1>1, <1>2 DEF OneTurnMakesTheSession, InFlight, Before
  <1>7. WritersHoldTheRow'
    BY <1>1, <1>2 DEF WritersHoldTheRow, Writing, Release
  <1>8. TurnsStand'
    BY <1>1, <1>2 DEF TurnsStand, Wrote, Before, After
  <1>9. QED
    BY <1>3, <1>4, <1>5, <1>6, <1>7, <1>8

\* A turn under way goes on, on the same side of its question's commit, without
\* getting ready to write.
LEMMA TurnGoesOn ==
  ASSUME Inv, NEW t \in Turns, NEW m, turn' = [turn EXCEPT ![t] = m],
         IsUnderWay(m), LoopStands(m.loop), turn[t].at \in After, m.at \in After \ Writing,
         m.dept = turn[t].dept, calls' \in Nat,
         UNCHANGED <<session, bound, thread, reach, lock>>
  PROVE  Inv'
  <1> USE DEF Inv
  <1>1. turn'[t] = m /\ DOMAIN turn' = Turns /\ \A u \in Turns \ {t} : turn'[u] = turn[u]
    BY OthersWait
  <1>2. t \in InFlight /\ \A u \in Turns : (u \in InFlight') = (u \in InFlight)
    BY <1>1 DEF InFlight, Ended, After
  <1>3. TypeOK'
    BY RecordsStayTyped DEF TypeOK
  <1>4. LoopsStand'
    BY <1>1, <1>2 DEF LoopsStand, LoopStands, InFlight
  <1>5. ThreadStands'
    BY DEF ThreadStands
  <1>6. OneTurnMakesTheSession'
    BY <1>1, <1>2 DEF OneTurnMakesTheSession, InFlight, Before, After
  <1>7. WritersHoldTheRow'
    BY <1>1 DEF WritersHoldTheRow, Writing
  <1>8. TurnsStand'
    BY <1>1 DEF TurnsStand, Wrote, Before, After
  <1>9. QED
    BY <1>3, <1>4, <1>5, <1>6, <1>7, <1>8

LEMMA OpenStands ==
  ASSUME Inv, NEW t \in Turns, NEW want \in Depts \cup {NoDept}, NEW stream \in BOOLEAN,
         NEW files \in BOOLEAN, OpenTurn(t, want, stream, files)
  PROVE  Inv'
  <1> USE DEF Inv
  <1> DEFINE existing == session = "live"
             seen == IF existing THEN ContextTail ELSE <<>>
             context == BuildContext(seen, files)
             dept == Resolved(want, existing)
             m == [at |-> "opened", stream |-> stream, new |-> ~existing, files |-> files,
                   dept |-> dept, seen |-> seen, context |-> context, seq |-> 0, loop |-> LoopStart]
  <1>0. turn' = [turn EXCEPT ![t] = m] /\ UNCHANGED <<session, bound, thread, reach, lock, calls>>
    BY DEF OpenTurn, Opened
  <1>1. dept \in Depts \cup {NoDept}
    BY DEF Resolved, TypeOK
  <1>2. existing => dept = bound
    BY DEF OpenTurn, Permitted
  <1>3. session \in {"live", "none"} /\ (session = "none" => \A u \in InFlight : ~turn[u].new)
    BY DEF OpenTurn
  <1>4. turn[t].at = "idle"
    BY DEF OpenTurn
  <1> HIDE DEF seen, context, dept
  <1>5. /\ m.at = "opened" /\ m.loop = LoopStart /\ m.dept = dept
        /\ session = "live" => ~m.new
        /\ session = "none" => m.new
    OBVIOUS
  <1>6. IsUnderWay(m)
    BY <1>1, LoopStartStands DEF IsUnderWay
  <1> HIDE DEF m
  <1>7. turn'[t] = m /\ DOMAIN turn' = Turns /\ \A u \in Turns \ {t} : turn'[u] = turn[u]
    BY <1>0, OthersWait
  <1>8. session = "none" => InFlight = {}
    BY <1>3 DEF OneTurnMakesTheSession
  <1>9. \A u \in InFlight' : u = t \/ (u \in InFlight /\ turn'[u] = turn[u])
    BY <1>7 DEF InFlight
  <1>10. TypeOK'
    BY <1>0, <1>6, RecordsStayTyped DEF TypeOK
  <1>11. LoopsStand'
    BY <1>5, <1>7, <1>9, LoopStartStands DEF LoopsStand, LoopStands
  <1>12. ThreadStands'
    BY <1>0 DEF ThreadStands
  <1>13. OneTurnMakesTheSession'
    BY <1>0, <1>3, <1>5, <1>7, <1>8, <1>9 DEF OneTurnMakesTheSession, Before
  <1>14. WritersHoldTheRow'
    BY <1>0, <1>5, <1>7 DEF WritersHoldTheRow, Writing
  <1>15. TurnsStand'
    BY <1>0, <1>2, <1>4, <1>5, <1>7 DEF TurnsStand, Wrote, Before, After
  <1>16. QED
    BY <1>10, <1>11, <1>12, <1>13, <1>14, <1>15

\* The row is locked and the number read.
LEMMA LockStands ==
  ASSUME Inv, NEW t \in Turns, NEW from, NEW to,
         <<from, to>> \in {<<"opened", "asking">>, <<"reply", "replying">>}, LockThread(t, from, to)
  PROVE  Inv'
  <1> USE DEF Inv
  <1> DEFINE n == NextSeq
             m == [turn[t] EXCEPT !.at = to, !.seq = n]
  <1>0. turn[t].at = from /\ turn' = [turn EXCEPT ![t] = m]
          /\ UNCHANGED <<session, bound, thread, reach, calls>>
    BY DEF LockThread
  <1>1. n = Len(thread) + 1 /\ n \in Nat /\ Len(thread) \in Nat
    BY NextSeqIsNext DEF TypeOK
  <1> HIDE DEF n
  <1>2. t \in InFlight /\ IsUnderWay(turn[t])
    BY <1>0, FlightIsUnderWay DEF InFlight, Ended
  <1>3. IsUnderWay(m) /\ m.at = to /\ m.new = turn[t].new /\ m.dept = turn[t].dept
          /\ m.loop = turn[t].loop /\ m.seq = Len(thread) + 1
    <2>1. to \in Before \cup After
      BY DEF Before, After
    <2>2. m = [turn[t] EXCEPT !.at = to, !.seq = n]
      OBVIOUS
    <2> HIDE DEF m
    <2>3. QED
      BY <1>1, <1>2, <2>1, <2>2 DEF IsUnderWay, Before, After
  <1> HIDE DEF m
  <1>4. turn'[t] = m /\ DOMAIN turn' = Turns /\ \A u \in Turns \ {t} : turn'[u] = turn[u]
    BY <1>0, OthersWait
  <1>5. \A u \in Turns : (u \in InFlight') = (u \in InFlight)
    BY <1>0, <1>3, <1>4 DEF InFlight, Ended
  <1>6. /\ session = "live" => lock = NoTurn /\ lock' = t
        /\ session # "live" => lock' = lock
    BY DEF LockThread, CanLock
  <1>7. TypeOK'
    BY <1>0, <1>3, <1>6, RecordsStayTyped DEF TypeOK
  <1>8. LoopsStand'
    BY <1>2, <1>3, <1>4, <1>5 DEF LoopsStand, LoopStands, InFlight
  <1>9. ThreadStands'
    BY <1>0 DEF ThreadStands
  <1>10. OneTurnMakesTheSession'
    BY <1>0, <1>3, <1>4, <1>5 DEF OneTurnMakesTheSession, InFlight, Before
  <1>11. WritersHoldTheRow'
    <2>1. session = "live" => \A u \in Turns \ {t} : turn[u].at \notin Writing
      BY <1>6, TurnAssumption DEF WritersHoldTheRow
    <2>2. session = "none" => m.seq = 1
      BY <1>3, <1>1 DEF ThreadStands, TypeOK
    <2>3. QED
      BY <1>0, <1>3, <1>4, <1>6, <2>1, <2>2 DEF WritersHoldTheRow
  <1>12. TurnsStand'
    BY <1>0, <1>3, <1>4 DEF TurnsStand, Wrote, Before, After
  <1>13. QED
    BY <1>7, <1>8, <1>9, <1>10, <1>11, <1>12

\* A row is inserted only where the numbers and the roles allow it.
LEMMA CommitsStand ==
  ASSUME Inv, NEW t \in Turns, NEW cost \in Nat,
         \/ CommitQuestion(t)
         \/ CommitReply(t, cost)
  PROVE  /\ CanInsert(t) <=> session # "deleted"
         /\ session = "none" => turn[t].at = "asking"
         /\ turn[t].seq = Len(thread) + 1 \/ session = "deleted"
         /\ t \in InFlight /\ IsUnderWay(turn[t])
         /\ turn[t].dept = bound \/ session # "live"
  <1> USE DEF Inv
  <1>1. turn[t].at \in Writing
    BY DEF CommitQuestion, CommitReply, Writing
  <1>2. t \in InFlight /\ IsUnderWay(turn[t])
    BY <1>1, FlightIsUnderWay DEF InFlight, Ended, Writing
  <1>3. DOMAIN thread = 1..Len(thread) /\ Len(thread) \in Nat
    BY DEF TypeOK
  <1>4. CASE session = "live"
    <2>1. turn[t].seq = Len(thread) + 1
      BY <1>1, <1>4 DEF WritersHoldTheRow
    <2>2. turn[t].dept = bound
      BY <1>1, <1>4 DEF TurnsStand, Writing, Before, After
    <2>3. turn[t].seq \notin DOMAIN thread
      BY <1>3, <2>1
    <2>4. QED
      BY <1>2, <1>4, <2>1, <2>2, <2>3 DEF CanInsert
  <1>5. CASE session = "none"
    <2>1. turn[t].new /\ turn[t].at \in Before /\ thread = <<>>
      BY <1>2, <1>5 DEF OneTurnMakesTheSession, ThreadStands
    <2>2. turn[t].seq = 1
      BY <1>1, <1>5 DEF WritersHoldTheRow
    <2>3. Len(thread) = 0
      BY <2>1
    <2>4. QED
      BY <1>1, <1>2, <1>3, <1>5, <2>1, <2>2, <2>3 DEF CanInsert, Writing, Before
  <1>6. CASE session = "deleted"
    <2>1. ~CanInsert(t)
      <3>1. thread = <<>>
        BY <1>6 DEF ThreadStands
      <3>2. QED
        BY <1>6 DEF CanInsert
    <2>2. QED
      BY <1>2, <1>6, <2>1
  <1>7. QED
    BY <1>4, <1>5, <1>6 DEF TypeOK

\* The question's row and the commit that makes it seen.
LEMMA QuestionStands ==
  ASSUME Inv, NEW t \in Turns, CommitQuestion(t)
  PROVE  Inv'
  <1> USE DEF Inv
  <1>0. QuestionCost \in Nat /\ turn[t].at = "asking"
    BY TurnAssumption DEF CommitQuestion
  <1>1. /\ CanInsert(t) <=> session # "deleted"
        /\ turn[t].seq = Len(thread) + 1 \/ session = "deleted"
        /\ t \in InFlight /\ IsUnderWay(turn[t])
        /\ turn[t].dept = bound \/ session # "live"
    BY <1>0, CommitsStand
  <1>2. CASE ~CanInsert(t)
    BY <1>2, EndOfTurn DEF CommitQuestion, Finish
  <1>3. CASE CanInsert(t)
    <2> DEFINE row == Question(t)
               next == IF turn[t].stream THEN "preflight" ELSE "loop"
               m == [turn[t] EXCEPT !.at = next]
    <2>1. /\ Release(t) /\ UNCHANGED <<reach, calls>>
          /\ thread' = Inserted(row) /\ session' = "live"
          /\ bound' = IF session = "none" THEN turn[t].dept ELSE bound
          /\ turn' = [turn EXCEPT ![t] = m]
      BY <1>3 DEF CommitQuestion, Goto
    <2>2. row \in Rows /\ row.seq = Len(thread) + 1 /\ row.dept = turn[t].dept
            /\ row.turn = t /\ row.role = "user"
      <3>1. turn[t].seq \in Nat /\ turn[t].files \in BOOLEAN /\ turn[t].dept \in Depts \cup {NoDept}
        BY <1>1, UnderWayFields
      <3>2. t \in Authors
        BY DEF Authors
      <3>3. QED
        BY <1>0, <1>1, <1>3, <3>1, <3>2 DEF Question, Rows
    <2>3. next \in After \ Writing
      BY DEF After, Writing
    <2> HIDE DEF row, next
    <2>4. /\ thread' \in Seq(Rows) /\ Len(thread') = Len(thread) + 1
          /\ DOMAIN thread' = 1..(Len(thread) + 1) /\ thread'[Len(thread) + 1] = row
          /\ \A i \in DOMAIN thread : thread'[i] = thread[i]
      BY <2>1, <2>2, InsertedAppends DEF TypeOK
    <2>5. DOMAIN thread = 1..Len(thread) /\ Len(thread) \in Nat
      BY DEF TypeOK
    <2>6. IsUnderWay(m) /\ m.at = next /\ m.dept = turn[t].dept /\ m.loop = turn[t].loop
      BY <1>1, <2>3, FieldsStay
    <2> HIDE DEF m
    <2>7. turn'[t] = m /\ DOMAIN turn' = Turns /\ \A u \in Turns \ {t} : turn'[u] = turn[u]
      BY <2>1, OthersWait
    <2>8. \A u \in Turns : (u \in InFlight') = (u \in InFlight)
      BY <1>1, <2>3, <2>6, <2>7 DEF InFlight, Ended, After
    <2>9. bound' = turn[t].dept /\ bound' \in Depts \cup {NoDept}
      BY <1>1, <1>3, <2>1, UnderWayFields DEF TypeOK
    <2>10. session = "none" => \A u \in Turns \ {t} : u \notin InFlight
      BY <1>1 DEF OneTurnMakesTheSession
    <2>11. TypeOK'
      <3>1. lock' \in Turns \cup {NoTurn}
        BY <2>1 DEF Release, TypeOK
      <3>2. QED
        BY <2>1, <2>4, <2>6, <2>9, <3>1, RecordsStayTyped DEF TypeOK
    <2>12. LoopsStand'
      BY <1>1, <2>6, <2>7, <2>8 DEF LoopsStand, LoopStands, InFlight
    <2>13. ThreadStands'
      <3>1. session = "none" => thread = <<>>
        BY DEF ThreadStands
      <3>2. \A i \in DOMAIN thread : thread[i].seq = i /\ thread[i].dept = bound'
        BY <2>1, <2>5, <3>1 DEF ThreadStands
      <3>3. \A i \in DOMAIN thread' : i \in DOMAIN thread \/ i = Len(thread) + 1
        BY <2>4, <2>5
      <3>4. thread' # <<>>
        BY <2>4, <2>5
      <3>5. QED
        BY <2>1, <2>2, <2>4, <2>9, <3>2, <3>3, <3>4 DEF ThreadStands
    <2>14. OneTurnMakesTheSession'
      <3>1. \A u \in Turns : turn'[u].at \in Before => u # t /\ ~turn'[u].new
        <4>1. next \notin Before
          BY <2>3 DEF After, Before, Writing
        <4>2. session # "none" => \A u \in Turns : turn[u].at \in Before => ~turn[u].new
          BY DEF OneTurnMakesTheSession
        <4>3. session = "none" => \A u \in Turns \ {t} : turn[u].at \notin Before
          BY <2>10 DEF InFlight, Ended, Before
        <4>4. QED
          BY <2>6, <2>7, <4>1, <4>2, <4>3
      <3>2. QED
        BY <2>1, <3>1 DEF OneTurnMakesTheSession
    <2>15. WritersHoldTheRow'
      <3>1. \A u \in Turns \ {t} : turn[u].at \notin Writing
        <4>1. session = "live" => lock = t
          BY <1>0 DEF WritersHoldTheRow, Writing
        <4>2. CASE session = "live"
          BY <4>1, <4>2 DEF WritersHoldTheRow
        <4>3. CASE session = "none"
          BY <2>10, <4>3 DEF InFlight, Ended, Writing
        <4>4. QED
          BY <1>1, <1>3, <4>2, <4>3 DEF TypeOK
      <3>2. \A u \in Turns : turn'[u].at \notin Writing
        BY <2>3, <2>6, <2>7, <3>1
      <3>3. QED
        BY <3>2 DEF WritersHoldTheRow
    <2>16. TurnsStand'
      <3>1. \A u \in Turns, role \in {"user", "assistant"} :
              Wrote(u, role)' <=> Wrote(u, role) \/ (u = t /\ role = "user")
        BY <2>2, <2>4, <2>5 DEF Wrote
      <3>2. m.at \in After
        BY <2>3, <2>6
      <3>3. ~Wrote(t, "assistant")
        BY <1>0 DEF TurnsStand, Before
      <3>4. \A u \in Turns \ {t} : turn[u].at \in Before \cup After =>
              session = "live" /\ turn[u].dept = bound
        BY <1>1, <1>3, <2>10 DEF TurnsStand, InFlight, Ended, Before, After, TypeOK
      <3>5. bound' = bound \/ session = "none"
        BY <2>1
      <3>6. ASSUME NEW u \in Turns \ {t}
            PROVE  /\ turn'[u].at \in Before \cup {"idle"} => ~Wrote(u, "user")'
                   /\ turn'[u].at \in Before \cup After \cup {"idle"} => ~Wrote(u, "assistant")'
                   /\ turn'[u].at \in After => Wrote(u, "user")'
                   /\ turn'[u].at \in Before \cup After => turn'[u].dept = bound'
        BY <2>7, <3>1, <3>4, <3>5 DEF TurnsStand
      <3>7. /\ turn'[t].at \in After /\ turn'[t].dept = bound'
            /\ Wrote(t, "user")' /\ ~Wrote(t, "assistant")'
        BY <2>6, <2>7, <2>9, <3>1, <3>2, <3>3
      <3>8. turn'[t].at \notin Before \cup {"idle"}
        BY <3>7 DEF Before, After
      <3>9. QED
        BY <3>6, <3>7, <3>8 DEF TurnsStand
    <2>17. QED
      BY <2>11, <2>12, <2>13, <2>14, <2>15, <2>16
  <1>4. QED
    BY <1>2, <1>3

\* The answer's row, in a thread that holds its question.
LEMMA ReplyStands ==
  ASSUME Inv, NEW t \in Turns, NEW cost \in Nat, CommitReply(t, cost)
  PROVE  Inv'
  <1> USE DEF Inv
  <1>0. turn[t].at = "replying"
    BY DEF CommitReply
  <1>1. /\ CanInsert(t) <=> session # "deleted"
        /\ turn[t].seq = Len(thread) + 1 \/ session = "deleted"
        /\ t \in InFlight /\ IsUnderWay(turn[t])
        /\ turn[t].dept = bound \/ session # "live"
        /\ session # "none"
    BY <1>0, CommitsStand
  <1>2. CASE ~CanInsert(t)
    BY <1>2, EndOfTurn DEF CommitReply, Finish
  <1>3. CASE CanInsert(t)
    <2> DEFINE row == Reply(t, cost)
    <2>1. /\ Release(t) /\ UNCHANGED <<session, bound, reach, calls>> /\ session = "live"
          /\ thread' = Inserted(row) /\ turn' = [turn EXCEPT ![t] = [at |-> "over"]]
      BY <1>1, <1>3 DEF CommitReply, Finish, TypeOK
    <2>2. row \in Rows /\ row.seq = Len(thread) + 1 /\ row.dept = bound
            /\ row.turn = t /\ row.role = "assistant"
      <3>1. turn[t].seq \in Nat /\ turn[t].dept \in Depts \cup {NoDept}
        BY <1>1, UnderWayFields
      <3>2. t \in Authors
        BY DEF Authors
      <3>3. QED
        BY <1>1, <2>1, <3>1, <3>2 DEF Reply, Rows
    <2> HIDE DEF row
    <2>3. /\ thread' \in Seq(Rows) /\ Len(thread') = Len(thread) + 1
          /\ DOMAIN thread' = 1..(Len(thread) + 1) /\ thread'[Len(thread) + 1] = row
          /\ \A i \in DOMAIN thread : thread'[i] = thread[i]
      BY <2>1, <2>2, InsertedAppends DEF TypeOK
    <2>4. DOMAIN thread = 1..Len(thread) /\ Len(thread) \in Nat
      BY DEF TypeOK
    <2>5. turn'[t] = [at |-> "over"] /\ DOMAIN turn' = Turns /\ \A u \in Turns \ {t} : turn'[u] = turn[u]
      BY <2>1, OthersWait
    <2>6. turn'[t].at = "over" /\ \A u \in InFlight' : u \in InFlight /\ turn'[u] = turn[u]
      BY <2>5 DEF InFlight, Ended
    <2>7. TypeOK'
      <3>1. lock' \in Turns \cup {NoTurn}
        BY <2>1 DEF Release, TypeOK
      <3>2. [at |-> "over"] \in [at : Ended]
        BY DEF Ended
      <3>3. QED
        BY <2>1, <2>3, <3>1, <3>2, RecordsStayTyped DEF TypeOK
    <2>8. LoopsStand'
      BY <2>6 DEF LoopsStand, LoopStands
    <2>9. ThreadStands'
      <3>1. \A i \in DOMAIN thread' : i \in DOMAIN thread \/ i = Len(thread) + 1
        BY <2>3, <2>4
      <3>2. thread' # <<>>
        BY <2>3, <2>4
      <3>3. QED
        BY <2>1, <2>2, <2>3, <3>1, <3>2 DEF ThreadStands
    <2>10. OneTurnMakesTheSession'
      BY <2>1, <2>5, <2>6 DEF OneTurnMakesTheSession, Before
    <2>11. WritersHoldTheRow'
      <3>1. \A u \in Turns \ {t} : turn[u].at \notin Writing
        BY <1>0, <2>1 DEF WritersHoldTheRow, Writing
      <3>2. \A u \in Turns : turn'[u].at \notin Writing
        BY <2>5, <2>6, <3>1 DEF Writing
      <3>3. QED
        BY <3>2 DEF WritersHoldTheRow
    <2>12. TurnsStand'
      <3>1. \A u \in Turns, role \in {"user", "assistant"} :
              Wrote(u, role)' <=> Wrote(u, role) \/ (u = t /\ role = "assistant")
        BY <2>2, <2>3, <2>4 DEF Wrote
      <3>2. turn'[t].at \notin Before \cup After \cup {"idle"}
        BY <2>6 DEF Before, After
      <3>3. QED
        BY <2>1, <2>5, <3>1, <3>2 DEF TurnsStand
    <2>13. QED
      BY <2>7, <2>8, <2>9, <2>10, <2>11, <2>12
  <1>4. QED
    BY <1>2, <1>3

\* A step of the loop changes the loop alone, or sends the turn to its reply.
LEMMA LoopBecomesStands ==
  ASSUME Inv, NEW t \in Turns, NEW l \in LoopRecords, LoopStands(l),
         turn[t].at = "loop", LoopBecomes(t, l), calls' \in Nat
  PROVE  Inv'
  <1> DEFINE to == IF l.at = "end" THEN "reply" ELSE "loop"
             m == [turn[t] EXCEPT !.loop = l, !.at = to]
  <1>1. IsUnderWay(turn[t])
    BY FlightIsUnderWay DEF Inv, InFlight, Ended
  <1>2. turn' = [turn EXCEPT ![t] = m] /\ UNCHANGED <<session, bound, thread, reach, lock>>
    BY DEF LoopBecomes
  <1>3. to \in After \ Writing /\ turn[t].at \in After
    BY DEF After, Writing
  <1>4. m = [turn[t] EXCEPT !.loop = l, !.at = to]
    OBVIOUS
  <1> HIDE DEF to, m
  <1>5. IsUnderWay(m) /\ m.at = to /\ m.dept = turn[t].dept /\ m.loop = l
    BY <1>1, <1>3, <1>4 DEF IsUnderWay, Before, After
  <1>6. QED
    BY <1>2, <1>3, <1>5, TurnGoesOn

LEMMA LoopStepsStand ==
  ASSUME Inv, NEW t \in Turns, ModelAnswers(t) \/ ModelErrs(t) \/ CallTool(t)
  PROVE  Inv'
  <1> DEFINE l == turn[t].loop
  <1>1. t \in InFlight /\ IsUnderWay(turn[t]) /\ turn[t].at = "loop"
    BY FlightIsUnderWay DEF Inv, InFlight, Ended, ModelAnswers, ModelErrs, CallTool
  <1>2. l \in LoopRecords /\ LoopStands(l) /\ calls \in Nat
    BY <1>1, UnderWayFields DEF Inv, LoopsStand, TypeOK
  <1> HIDE DEF l
  <1>3. CASE ModelAnswers(t)
    <2>1. PICK asked \in BoundedSeq(Calls, CallsAtOnce) :
            calls' = calls + Len(asked) /\ LoopBecomes(t, Answered(l, asked))
      BY <1>3 DEF ModelAnswers, l
    <2>2. asked \in Seq(Calls)
      BY LoopAssumption DEF BoundedSeq, SeqOf
    <2>3. Len(asked) \in Nat
      BY <2>2
    <2>4. QED
      BY <1>1, <1>2, <2>1, <2>3, AnsweredStands, LoopBecomesStands
  <1>4. CASE ModelErrs(t)
    BY <1>1, <1>2, <1>4, EndStands, LoopBecomesStands DEF ModelErrs, ModelFailed, l
  <1>5. CASE CallTool(t)
    <2>1. l.at = "calls" /\ calls' = calls
      BY <1>5 DEF CallTool, l
    <2>2. \/ Refused(l) /\ LoopBecomes(t, Nudge(l))
          \/ ~Refused(l) /\ \E raised \in BOOLEAN : LoopBecomes(t, Dispatched(l, raised))
          \/ LoopBecomes(t, McpLost(l))
      BY <1>5 DEF CallTool, l
    <2>3. CASE LoopBecomes(t, Nudge(l))
      BY <1>1, <1>2, <2>1, <2>3, NudgeStands, LoopBecomesStands
    <2>4. CASE ~Refused(l) /\ \E raised \in BOOLEAN : LoopBecomes(t, Dispatched(l, raised))
      <3>1. PICK raised \in BOOLEAN : LoopBecomes(t, Dispatched(l, raised))
        BY <2>4
      <3>2. QED
        BY <1>1, <1>2, <2>1, <2>4, <3>1, DispatchedStands, LoopBecomesStands
    <2>5. CASE LoopBecomes(t, McpLost(l))
      BY <1>1, <1>2, <2>1, <2>5, EndStands, LoopBecomesStands DEF McpLost
    <2>6. QED
      BY <2>2, <2>3, <2>4, <2>5
  <1>6. QED
    BY <1>3, <1>4, <1>5

\* A turn goes on as it is, at another station after its question's commit.
LEMMA GotoStands ==
  ASSUME Inv, NEW t \in Turns, NEW x \in After \ Writing, Goto(t, x), turn[t].at \in After,
         UNCHANGED <<session, bound, thread, reach, lock, calls>>
  PROVE  Inv'
  <1> DEFINE m == [turn[t] EXCEPT !.at = x]
  <1>1. t \in InFlight /\ IsUnderWay(turn[t])
    BY FlightIsUnderWay DEF Inv, InFlight, Ended, After
  <1>2. turn' = [turn EXCEPT ![t] = m]
    BY DEF Goto
  <1>3. IsUnderWay(m) /\ m.at = x /\ m.dept = turn[t].dept /\ m.loop = turn[t].loop
    BY <1>1, FieldsStay
  <1> HIDE DEF m
  <1>4. LoopStands(m.loop) /\ calls' \in Nat
    BY <1>1, <1>3 DEF Inv, LoopsStand, TypeOK
  <1>5. QED
    BY <1>2, <1>3, <1>4, TurnGoesOn

-----------------------------------------------------------------------------
(* The steps around the turns *)

LEMMA DeleteStands == Inv /\ DeleteSession => Inv'
  <1> SUFFICES ASSUME Inv, DeleteSession PROVE Inv'
    OBVIOUS
  <1>1. /\ session = "live" /\ session' = "deleted" /\ thread' = <<>>
        /\ UNCHANGED <<bound, reach, lock, turn, calls>>
    BY DEF DeleteSession
  <1>2. thread' \in Seq(Rows) /\ DOMAIN thread' = {}
    BY <1>1
  <1>3. InFlight' = InFlight
    BY <1>1 DEF InFlight
  <1>4. TypeOK'
    BY <1>1, <1>2 DEF Inv, TypeOK, IsUnderWay
  <1>5. LoopsStand'
    BY <1>1, <1>3 DEF Inv, LoopsStand, LoopStands
  <1>6. ThreadStands' /\ OneTurnMakesTheSession' /\ WritersHoldTheRow'
    BY <1>1, <1>2 DEF Inv, ThreadStands, OneTurnMakesTheSession, WritersHoldTheRow
  <1>7. TurnsStand'
    BY <1>1, <1>2 DEF Inv, TurnsStand, Wrote
  <1>8. QED
    BY <1>4, <1>5, <1>6, <1>7 DEF Inv

LEMMA ReachStands == Inv /\ ChangeReach => Inv'
  <1> SUFFICES ASSUME Inv, ChangeReach PROVE Inv'
    OBVIOUS
  <1>1. UNCHANGED <<session, bound, thread, lock, turn, calls>> /\ reach' \subseteq Depts
    BY DEF ChangeReach, Inv, TypeOK
  <1>2. TypeOK'
    BY <1>1 DEF Inv, TypeOK, IsUnderWay
  <1>3. QED
    BY <1>1, <1>2 DEF Inv, LoopsStand, LoopStands, ThreadStands, OneTurnMakesTheSession,
                      WritersHoldTheRow, TurnsStand, Wrote, InFlight

\* Whoever was in flight is over; the rest are as they were.
LEMMA CrashMoves ==
  ASSUME Crash, DOMAIN turn = Turns
  PROVE  /\ DOMAIN turn' = Turns /\ InFlight' = {}
         /\ \A t \in Turns : IF t \in InFlight THEN turn'[t] = [at |-> "over"] ELSE turn'[t] = turn[t]
  BY DEF Crash, InFlight, Ended

LEMMA CrashStands == Inv /\ Crash => Inv'
  <1> SUFFICES ASSUME Inv, Crash PROVE Inv'
    OBVIOUS
  <1>1. /\ DOMAIN turn' = Turns /\ InFlight' = {}
        /\ \A t \in Turns : IF t \in InFlight THEN turn'[t] = [at |-> "over"] ELSE turn'[t] = turn[t]
        /\ lock' = NoTurn /\ UNCHANGED <<session, bound, thread, reach, calls>>
    BY CrashMoves DEF Inv, TypeOK, Crash
  <1>2. \A t \in Turns : turn'[t].at \notin Before \cup After
    BY <1>1 DEF InFlight, Ended, Before, After
  <1>3. TypeOK'
    <2>1. \A t \in Turns : turn'[t] \in [at : Ended] \/ IsUnderWay(turn'[t])
      <3>1. [at |-> "over"] \in [at : Ended]
        BY DEF Ended
      <3>2. QED
        BY <1>1, <3>1 DEF Inv, TypeOK
    <2>2. QED
      BY <1>1, <2>1 DEF Inv, TypeOK, IsUnderWay
  <1>4. LoopsStand' /\ ThreadStands' /\ OneTurnMakesTheSession' /\ WritersHoldTheRow'
    BY <1>1, <1>2 DEF Inv, LoopsStand, ThreadStands, OneTurnMakesTheSession, WritersHoldTheRow,
                      Writing, Before, After
  <1>5. TurnsStand'
    <2>1. \A t \in Turns : turn'[t].at = "idle" => turn[t].at = "idle"
      BY <1>1
    <2>2. QED
      BY <1>1, <1>2, <2>1 DEF Inv, TurnsStand, Wrote
  <1>6. QED
    BY <1>3, <1>4, <1>5 DEF Inv

-----------------------------------------------------------------------------
(* The invariant *)

LEMMA InitStands == Init => Inv
  <1> SUFFICES ASSUME Init PROVE Inv
    OBVIOUS
  <1>1. DOMAIN turn = Turns /\ \A t \in Turns : turn[t] = [at |-> "idle"] /\ turn[t].at = "idle"
    BY DEF Init, NewTurn
  <1>2. InFlight = {}
    BY <1>1 DEF InFlight, Ended
  <1>3. /\ thread \in Seq(Rows) /\ session \in {"none", "live"} /\ bound \in Depts \cup {NoDept}
        /\ (session = "live") = (thread # <<>>)
        /\ \A i \in DOMAIN thread : thread[i].seq = i /\ thread[i].dept = bound /\ thread[i].turn \notin Turns
    <2>1. CASE session = "none" /\ bound = NoDept /\ thread = <<>>
      BY <2>1
    <2>2. CASE session = "live" /\ thread \in Earlier /\ bound = thread[1].dept
      <3>1. thread \in Seq(Rows) /\ thread # <<>>
              /\ \A i \in DOMAIN thread : thread[i].seq = i /\ thread[i].dept = thread[1].dept /\ thread[i].turn \notin Turns
        BY <2>2, EarlierAssumption DEF IsStored
      <3>2. thread[1] \in Rows
        BY <3>1
      <3>3. thread[1].dept \in Depts \cup {NoDept}
        BY <3>2 DEF Rows
      <3>4. QED
        BY <2>2, <3>1, <3>3
    <2>3. QED
      BY <2>1, <2>2 DEF Init
  <1>4. TypeOK
    BY <1>1, <1>3 DEF Init, TypeOK, Ended
  <1>5. LoopsStand /\ ThreadStands /\ OneTurnMakesTheSession /\ WritersHoldTheRow
    BY <1>1, <1>2, <1>3 DEF LoopsStand, ThreadStands, OneTurnMakesTheSession, WritersHoldTheRow,
                           Writing, Before
  <1>6. TurnsStand
    BY <1>1, <1>3 DEF TurnsStand, Wrote, Before, After
  <1>7. QED
    BY <1>4, <1>5, <1>6 DEF Inv

LEMMA TurnStepsStand ==
  ASSUME Inv, NEW t \in Turns, Step(t) \/ McpUnreachable(t) \/ Interrupt(t)
  PROVE  Inv'
  <1>1. CASE LockThread(t, "opened", "asking") \/ LockThread(t, "reply", "replying")
    BY <1>1, LockStands
  <1>2. CASE CommitQuestion(t)
    BY <1>2, QuestionStands
  <1>3. CASE StartStream(t)
    BY <1>3, GotoStands DEF StartStream, After, Writing
  <1>4. CASE ModelAnswers(t) \/ ModelErrs(t) \/ CallTool(t)
    BY <1>4, LoopStepsStand
  <1>5. CASE \E cost \in Costs : CommitReply(t, cost)
    BY <1>5, ReplyStands, TurnAssumption
  <1>6. CASE McpUnreachable(t)
    BY <1>6, EndOfTurn DEF McpUnreachable, Writing
  <1>7. CASE Interrupt(t)
    BY <1>7, EndOfTurn, GotoStands DEF Interrupt, After, Writing
  <1>8. QED
    BY <1>1, <1>2, <1>3, <1>4, <1>5, <1>6, <1>7 DEF Step

LEMMA NextStands == Inv /\ [Next]_vars => Inv'
  <1> SUFFICES ASSUME Inv, [Next]_vars PROVE Inv'
    OBVIOUS
  <1>1. ASSUME NEW t \in Turns, NEW want \in Depts \cup {NoDept}, NEW stream \in BOOLEAN,
               NEW files \in BOOLEAN, OpenTurn(t, want, stream, files)
        PROVE  Inv'
    BY <1>1, OpenStands
  <1>2. ASSUME NEW t \in Turns, NEW want \in Depts \cup {NoDept}, RefuseTurn(t, want)
        PROVE  Inv'
    BY <1>2, EndOfTurn DEF RefuseTurn, Writing
  <1>3. ASSUME NEW t \in Turns, Step(t) \/ McpUnreachable(t) \/ Interrupt(t)
        PROVE  Inv'
    BY <1>3, TurnStepsStand
  <1>4. CASE UNCHANGED vars
    BY <1>4 DEF vars, Inv, TypeOK, IsUnderWay, LoopsStand, LoopStands, ThreadStands, OneTurnMakesTheSession,
                WritersHoldTheRow, TurnsStand, Wrote, InFlight
  <1>5. QED
    BY <1>1, <1>2, <1>3, <1>4, DeleteStands, ReachStands, CrashStands DEF Next

LEMMA InvHolds == Spec => []Inv
  <1>1. QED
    BY InitStands, NextStands, PTL DEF Spec

\* Every turn, row and lock is of its type, and a turn that is over remembers nothing.
THEOREM ChatTurnTypeCorrect == Spec => []TypeOK
  <1>1. Inv => TypeOK
    BY DEF Inv
  <1>2. QED
    BY <1>1, InvHolds, PTL

\* However turns overlap, each asks the model again only when all its calls are
\* answered, and dispatches no tool twice on the same arguments.
THEOREM LoopsKeepTheProtocol == Spec => []LoopIsSound
  <1>1. Inv => LoopIsSound
    <2> SUFFICES ASSUME Inv, NEW t \in InFlight PROVE LoopKeepsProtocol(turn[t].loop)
      BY DEF LoopIsSound
    <2>1. t \in Turns
      BY DEF InFlight
    <2>2. turn[t].loop \in LoopRecords /\ LoopStands(turn[t].loop)
      BY <2>1, FlightIsUnderWay, UnderWayFields DEF Inv, LoopsStand
    <2>3. QED
      BY <2>2, LoopStandsKeepsProtocol
  <1>2. QED
    BY <1>1, InvHolds, PTL

-----------------------------------------------------------------------------
(* The thread implements ThreadLog *)

Unsaved == {t \in Turns : turn[t].at = "unsaved"}

LEMMA UnsavedMoves ==
  ASSUME TypeOK, NEW t \in Turns, NEW m, turn' = [turn EXCEPT ![t] = m], turn[t].at # "unsaved"
  PROVE  Unsaved' = IF m.at = "unsaved" THEN Unsaved \cup {t} ELSE Unsaved
  BY OthersWait DEF Unsaved

LEMMA InitIsALog == Init => Log!Init
  <1> SUFFICES ASSUME Init PROVE Log!Init
    OBVIOUS
  <1>1. Unsaved = {}
    BY DEF Init, NewTurn, Unsaved
  <1>2. CASE session = "none" /\ thread = <<>>
    BY <1>1, <1>2 DEF Log!Init, Unsaved
  <1>3. CASE session = "live" /\ thread \in Earlier
    <2>1. IsStored(thread)
      BY <1>3, EarlierAssumption
    <2>2. thread # <<>> /\ Log!WellFormed
      BY <2>1 DEF IsStored, Log!WellFormed, Log!Asked
    <2>3. QED
      BY <1>1, <1>3, <2>2 DEF Log!Init, Unsaved
  <1>4. QED
    BY <1>2, <1>3 DEF Init

\* A row that is inserted continues the log.
LEMMA InsertGrows ==
  ASSUME Inv, Inv', NEW row \in Rows, row.seq = Len(thread) + 1, thread' = Inserted(row),
         IF row.role = "user" THEN ~Wrote(row.turn, "user")
         ELSE Wrote(row.turn, "user") /\ ~Wrote(row.turn, "assistant"),
         Unsaved' = Unsaved
  PROVE  Log!Grows
  <1>1. /\ thread' = Append(thread, row) /\ Len(thread') = Len(thread) + 1
        /\ DOMAIN thread' = 1..(Len(thread) + 1) /\ thread'[Len(thread) + 1] = row
    BY InsertedAppends DEF Inv, TypeOK
  <1>2. Len(thread) \in Nat
    BY DEF Inv, TypeOK
  <1>3. thread'[Len(thread')] = row
    BY <1>1
  <1>4. row.dept = thread'[1].dept
    <2>1. 1 \in DOMAIN thread' /\ Len(thread) + 1 \in DOMAIN thread'
      BY <1>1, <1>2
    <2>2. \A i \in DOMAIN thread' : thread'[i].dept = bound'
      BY DEF Inv, ThreadStands
    <2>3. QED
      BY <1>1, <2>1, <2>2
  <1>5. IF row.role = "user" THEN ~Log!Asked(row.turn)
        ELSE Log!Asked(row.turn) /\ ~Log!Replied(row.turn)
    BY DEF Wrote, Log!Asked, Log!Replied
  <1>6. QED
    BY <1>1, <1>3, <1>4, <1>5 DEF Log!Grows, Unsaved

\* A commit adds its row, or meets a session that is gone.
LEMMA CommitIsALogStep ==
  ASSUME Inv, Inv', NEW t \in Turns, NEW cost \in Nat, CommitQuestion(t) \/ CommitReply(t, cost)
  PROVE  Log!Next
  <1>1. /\ CanInsert(t) <=> session # "deleted"
        /\ session = "none" => turn[t].at = "asking"
        /\ turn[t].seq = Len(thread) + 1 \/ session = "deleted"
        /\ t \in InFlight /\ IsUnderWay(turn[t])
    BY CommitsStand
  <1>2. turn[t].at # "unsaved"
    BY DEF CommitQuestion, CommitReply
  <1>3. CASE ~CanInsert(t)
    <2>1. turn' = [turn EXCEPT ![t] = [at |-> "unsaved"]] /\ UNCHANGED <<session, thread>>
      BY <1>3 DEF CommitQuestion, CommitReply, Finish
    <2>2. Unsaved \subseteq Unsaved'
      BY <1>2, <2>1, UnsavedMoves DEF Inv
    <2>3. session = "deleted"
      BY <1>1, <1>3
    <2>4. QED
      BY <2>1, <2>2, <2>3 DEF Log!Next, Log!Lose, Unsaved
  <1>4. CASE CanInsert(t)
    <2>1. session \in {"none", "live"}
      BY <1>1, <1>4 DEF Inv, TypeOK
    <2>2. turn[t].seq = Len(thread) + 1 /\ turn[t].seq \in Nat /\ turn[t].files \in BOOLEAN
            /\ turn[t].dept \in Depts \cup {NoDept} /\ t \in Authors
      BY <1>1, <2>1, UnderWayFields DEF Authors
    <2>3. CASE CommitQuestion(t)
      <3> DEFINE row == Question(t)
                 next == IF turn[t].stream THEN "preflight" ELSE "loop"
                 m == [turn[t] EXCEPT !.at = next]
      <3>1. row \in Rows /\ row.seq = Len(thread) + 1 /\ row.role = "user" /\ row.turn = t
        BY <2>2, TurnAssumption DEF Question, Rows
      <3>2. thread' = Inserted(row) /\ session' = "live" /\ turn' = [turn EXCEPT ![t] = m]
        BY <1>4, <2>3 DEF CommitQuestion, Goto
      <3>3. ~Wrote(t, "user")
        BY <2>3 DEF CommitQuestion, Inv, TurnsStand, Before
      <3>4. next \in Before \cup After /\ next # "unsaved"
        BY DEF After
      <3> HIDE DEF row, next
      <3>5. m.at = next
        BY <1>1, <3>4, FieldsStay
      <3> HIDE DEF m
      <3>6. Unsaved' = Unsaved
        BY <1>2, <3>2, <3>4, <3>5, UnsavedMoves DEF Inv
      <3>7. Log!Grows
        BY <3>1, <3>2, <3>3, <3>6, InsertGrows
      <3>8. QED
        BY <2>1, <3>2, <3>7 DEF Log!Next, Log!Begin, Log!Grow
    <2>4. CASE CommitReply(t, cost)
      <3> DEFINE row == Reply(t, cost)
      <3>1. row \in Rows /\ row.seq = Len(thread) + 1 /\ row.role = "assistant" /\ row.turn = t
        BY <2>2 DEF Reply, Rows
      <3>2. /\ thread' = Inserted(row) /\ session' = session
            /\ turn' = [turn EXCEPT ![t] = [at |-> "over"]]
        BY <1>4, <2>4 DEF CommitReply, Finish
      <3>3. session = "live" /\ turn[t].at = "replying"
        BY <1>1, <2>1, <2>4 DEF CommitReply
      <3>4. Wrote(t, "user") /\ ~Wrote(t, "assistant")
        BY <3>3 DEF Inv, TurnsStand, After
      <3> HIDE DEF row
      <3>5. Unsaved' = Unsaved
        <4>1. [at |-> "over"].at # "unsaved"
          OBVIOUS
        <4>2. QED
          BY <1>2, <3>2, <4>1, UnsavedMoves DEF Inv
      <3>6. Log!Grows
        BY <3>1, <3>2, <3>4, <3>5, InsertGrows
      <3>7. QED
        BY <3>2, <3>3, <3>6 DEF Log!Next, Log!Grow
    <2>5. QED
      BY <2>3, <2>4
  <1>5. QED
    BY <1>3, <1>4

\* What else a turn does is not seen in the thread.
LEMMA TurnStutters ==
  ASSUME TypeOK, NEW t \in Turns, NEW m, turn' = [turn EXCEPT ![t] = m], turn[t].at # "unsaved",
         m.at # "unsaved", UNCHANGED <<session, thread>>
  PROVE  UNCHANGED <<thread, session, Unsaved>>
  BY UnsavedMoves

LEMMA GotoStutters ==
  ASSUME TypeOK, NEW t \in Turns, NEW x \in After, Goto(t, x), turn[t].at \in After,
         UNCHANGED <<session, thread>>
  PROVE  UNCHANGED <<thread, session, Unsaved>>
  <1> DEFINE m == [turn[t] EXCEPT !.at = x]
  <1>1. IsUnderWay(turn[t]) /\ turn[t].at # "unsaved"
    BY FlightIsUnderWay DEF InFlight, Ended, After
  <1>2. turn' = [turn EXCEPT ![t] = m]
    BY DEF Goto
  <1>3. m.at = x /\ x # "unsaved"
    BY <1>1, FieldsStay DEF After
  <1> HIDE DEF m
  <1>4. QED
    BY <1>1, <1>2, <1>3, TurnStutters

LEMMA LoopStutters ==
  ASSUME TypeOK, NEW t \in Turns, NEW l, turn[t].at = "loop", LoopBecomes(t, l)
  PROVE  UNCHANGED <<thread, session, Unsaved>>
  <1> DEFINE to == IF l.at = "end" THEN "reply" ELSE "loop"
             m == [turn[t] EXCEPT !.loop = l, !.at = to]
  <1>1. IsUnderWay(turn[t])
    BY FlightIsUnderWay DEF InFlight, Ended
  <1>2. turn' = [turn EXCEPT ![t] = m] /\ UNCHANGED <<session, thread>>
    BY DEF LoopBecomes
  <1>3. to # "unsaved"
    OBVIOUS
  <1>4. m = [turn[t] EXCEPT !.loop = l, !.at = to]
    OBVIOUS
  <1> HIDE DEF to, m
  <1>5. m.at = to
    BY <1>1, <1>4 DEF IsUnderWay
  <1>6. QED
    BY <1>2, <1>3, <1>5, TurnStutters

LEMMA LockStutters ==
  ASSUME TypeOK, NEW t \in Turns, NEW from, NEW to,
         <<from, to>> \in {<<"opened", "asking">>, <<"reply", "replying">>}, LockThread(t, from, to)
  PROVE  UNCHANGED <<thread, session, Unsaved>>
  <1> DEFINE n == NextSeq
             m == [turn[t] EXCEPT !.at = to, !.seq = n]
  <1>1. turn[t].at = from /\ turn' = [turn EXCEPT ![t] = m] /\ UNCHANGED <<session, thread>>
    BY DEF LockThread
  <1> HIDE DEF n
  <1>2. IsUnderWay(turn[t])
    BY <1>1, FlightIsUnderWay DEF InFlight, Ended
  <1>3. to # "unsaved"
    OBVIOUS
  <1>4. m = [turn[t] EXCEPT !.at = to, !.seq = n]
    OBVIOUS
  <1> HIDE DEF m
  <1>5. m.at = to
    BY <1>2, <1>4 DEF IsUnderWay
  <1>6. QED
    BY <1>1, <1>3, <1>5, TurnStutters

\* A turn that ends without a commit has nothing to lose.
LEMMA EndStutters ==
  ASSUME TypeOK, NEW t \in Turns, Finish(t, "over"), turn[t].at # "unsaved", UNCHANGED <<session, thread>>
  PROVE  UNCHANGED <<thread, session, Unsaved>>
  <1>1. [at |-> "over"].at # "unsaved"
    OBVIOUS
  <1>2. QED
    BY <1>1, TurnStutters DEF Finish

LEMMA OpenStutters ==
  ASSUME TypeOK, NEW t \in Turns, NEW want, NEW stream, NEW files, OpenTurn(t, want, stream, files)
  PROVE  UNCHANGED <<thread, session, Unsaved>>
  <1> DEFINE seen == IF session = "live" THEN ContextTail ELSE <<>>
             context == BuildContext(seen, files)
             dept == Resolved(want, session = "live")
             m == [at |-> "opened", stream |-> stream, new |-> ~(session = "live"), files |-> files,
                   dept |-> dept, seen |-> seen, context |-> context, seq |-> 0, loop |-> LoopStart]
  <1>1. turn' = [turn EXCEPT ![t] = m] /\ turn[t].at = "idle" /\ UNCHANGED <<session, thread>>
    BY DEF OpenTurn, Opened
  <1> HIDE DEF seen, context, dept
  <1>2. m.at = "opened"
    OBVIOUS
  <1> HIDE DEF m
  <1>3. QED
    BY <1>1, <1>2, TurnStutters

LEMMA StepsAreLogSteps ==
  ASSUME Inv, Inv', [Next]_vars
  PROVE  [Log!Next]_<<thread, session, Unsaved>>
  <1> USE DEF Inv
  <1>1. ASSUME NEW t \in Turns, NEW want \in Depts \cup {NoDept}, NEW stream \in BOOLEAN,
               NEW files \in BOOLEAN, OpenTurn(t, want, stream, files)
        PROVE  UNCHANGED <<thread, session, Unsaved>>
    BY <1>1, OpenStutters
  <1>2. ASSUME NEW t \in Turns, NEW want \in Depts \cup {NoDept}, RefuseTurn(t, want)
        PROVE  UNCHANGED <<thread, session, Unsaved>>
    BY <1>2, EndStutters DEF RefuseTurn
  <1>3. ASSUME NEW t \in Turns, Step(t) \/ McpUnreachable(t) \/ Interrupt(t)
        PROVE  Log!Next \/ UNCHANGED <<thread, session, Unsaved>>
    <2>1. CASE LockThread(t, "opened", "asking") \/ LockThread(t, "reply", "replying")
      BY <2>1, LockStutters
    <2>2. CASE CommitQuestion(t)
      BY <2>2, CommitIsALogStep, TurnAssumption
    <2>3. CASE \E cost \in Costs : CommitReply(t, cost)
      BY <2>3, CommitIsALogStep, TurnAssumption
    <2>4. CASE StartStream(t)
      BY <2>4, GotoStutters DEF StartStream, After
    <2>5. CASE ModelAnswers(t) \/ ModelErrs(t) \/ CallTool(t)
      BY <2>5, LoopStutters DEF ModelAnswers, ModelErrs, CallTool
    <2>6. CASE McpUnreachable(t)
      BY <2>6, EndStutters DEF McpUnreachable
    <2>7. CASE Interrupt(t)
      BY <2>7, EndStutters, GotoStutters DEF Interrupt, After
    <2>8. QED
      BY <1>3, <2>1, <2>2, <2>3, <2>4, <2>5, <2>6, <2>7 DEF Step
  <1>4. CASE DeleteSession
    BY <1>4 DEF DeleteSession, Log!Next, Log!Delete, Unsaved
  <1>5. CASE ChangeReach
    BY <1>5 DEF ChangeReach, Unsaved
  <1>6. CASE Crash
    <2>1. /\ \A t \in Turns : IF t \in InFlight THEN turn'[t] = [at |-> "over"] ELSE turn'[t] = turn[t]
          /\ UNCHANGED <<session, thread>>
      BY <1>6, CrashMoves DEF TypeOK, Crash
    <2>2. \A t \in Turns : turn'[t].at = "unsaved" <=> turn[t].at = "unsaved"
      BY <2>1 DEF InFlight, Ended
    <2>3. QED
      BY <2>1, <2>2 DEF Unsaved
  <1>7. CASE UNCHANGED vars
    BY <1>7 DEF vars, Unsaved
  <1>8. QED
    BY <1>1, <1>2, <1>3, <1>4, <1>5, <1>6, <1>7 DEF Next

\* The rows of a conversation are the log its readers are promised, whatever
\* overlaps, dies or is deleted.
THEOREM ThreadImplementsTheLog == Spec => ThreadIsALog
  <1>1. Inv /\ Inv' /\ [Next]_vars => [Log!Next]_<<thread, session, Unsaved>>
    BY StepsAreLogSteps
  <1>2. QED
    BY <1>1, InitIsALog, InvHolds, PTL DEF Spec, ThreadIsALog, Log!Spec, Unsaved

-----------------------------------------------------------------------------
(* The context: what its operators return, for every history.              *)

\* A set of numbers has a least one.
LEMMA LeastNumber ==
  ASSUME NEW T, T \subseteq Nat, T # {}
  PROVE  \E n \in T : \A m \in T : n <= m
  <1>1. PICK n \in T : \A m \in T : ~(<<m, n>> \in OpToRel(<, Nat))
    BY WFMin, NatLessThanWellFounded
  <1>2. ASSUME NEW m \in T PROVE n <= m
    <2>1. m \in Nat /\ n \in Nat
      OBVIOUS
    <2>2. ~(m < n)
      BY <1>1, <2>1 DEF OpToRel
    <2>3. QED
      BY <2>1, <2>2
  <1>3. QED
    BY <1>2

LEMMA MinIsLeast ==
  ASSUME NEW T, T \subseteq Nat, T # {}
  PROVE  Min(T) \in T /\ \A m \in T : Min(T) <= m
  BY LeastNumber DEF Min

LEMMA MaxIsGreatest ==
  ASSUME NEW n \in Nat, NEW T, T \subseteq 0..n, T # {}
  PROVE  Max(T) \in T /\ \A m \in T : m <= Max(T)
  <1> DEFINE D == {n - m : m \in T}
  <1>1. D \subseteq Nat /\ D # {}
    OBVIOUS
  <1>2. PICK d \in D : \A e \in D : d <= e
    BY <1>1, LeastNumber
  <1>3. PICK x \in T : d = n - x
    OBVIOUS
  <1>4. ASSUME NEW m \in T PROVE m <= x
    <2>1. n - m \in D
      OBVIOUS
    <2>2. d <= n - m
      BY <1>2, <2>1
    <2>3. m \in Nat /\ x \in Nat
      OBVIOUS
    <2>4. QED
      BY <1>3, <2>2, <2>3
  <1>5. \E y \in T : \A m \in T : y >= m
    BY <1>4
  <1>6. QED
    BY <1>5 DEF Max

\* A history: messages by the number they were given.
IsHistory(rows) ==
  rows \in Seq(Rows) /\ \A i, j \in DOMAIN rows : i < j => rows[i].seq < rows[j].seq

-----------------------------------------------------------------------------
(* Estimates.                                                              *)

\* The sums that Estimate goes through, as far as n.
SumsTo(rows, kept, g, n) ==
  g = [i \in 0..n |-> IF i = 0 THEN 0
                      ELSE g[i - 1] + IF i \in kept THEN EstimateMessage(rows[i]) ELSE 0]

LEMMA CostsAreNumbers ==
  ASSUME NEW m \in Rows PROVE EstimateMessage(m) \in Nat
  <1>1. m.cost \in Nat /\ FilesCost \in Nat
    BY ContextAssumption DEF Rows
  <1>2. QED
    BY <1>1 DEF EstimateMessage

LEMMA SumsExist ==
  ASSUME NEW rows, NEW kept, NEW n \in Nat
  PROVE  \E g : SumsTo(rows, kept, g, n)
  <1> DEFINE T == {k \in Nat : ~\E g : SumsTo(rows, kept, g, k)}
  <1> SUFFICES ASSUME T # {} PROVE FALSE
    OBVIOUS
  <1>1. PICK k \in T : \A m \in T : k <= m
    BY LeastNumber
  <1>2. k \in Nat /\ ~\E g : SumsTo(rows, kept, g, k)
    OBVIOUS
  <1>3. k # 0
    <2>1. SumsTo(rows, kept, [i \in 0..0 |-> 0], 0)
      BY DEF SumsTo
    <2>2. QED
      BY <1>2, <2>1
  <1>4. k - 1 \in Nat /\ k - 1 \notin T
    BY <1>1, <1>2, <1>3
  <1>5. PICK g : SumsTo(rows, kept, g, k - 1)
    BY <1>4
  <1> DEFINE e(i) == IF i \in kept THEN EstimateMessage(rows[i]) ELSE 0
             h == [i \in 0..k |-> IF i = k THEN g[k - 1] + e(k) ELSE g[i]]
  <1> HIDE DEF e
  <1>6. g = [i \in 0..(k - 1) |-> IF i = 0 THEN 0 ELSE g[i - 1] + e(i)]
    BY <1>5 DEF SumsTo, e
  <1>7. ASSUME NEW i \in 0..k
        PROVE  h[i] = IF i = 0 THEN 0 ELSE h[i - 1] + e(i)
    <2>1. CASE i = k
      <3>1. k - 1 \in 0..k /\ k - 1 # k
        BY <1>2, <1>3
      <3>2. h[k - 1] = g[k - 1]
        BY <3>1
      <3>3. QED
        BY <1>3, <2>1, <3>2
    <2>2. CASE i # k
      <3>1. i \in 0..(k - 1)
        BY <1>2, <2>2
      <3>2. g[i] = IF i = 0 THEN 0 ELSE g[i - 1] + e(i)
        BY <1>6, <3>1
      <3>3. i # 0 => i - 1 \in 0..k /\ i - 1 # k
        BY <1>2, <3>1
      <3>4. h[i] = g[i] /\ (i # 0 => h[i - 1] = g[i - 1])
        BY <2>2, <3>3
      <3>5. QED
        BY <3>2, <3>4
    <2>3. QED
      BY <2>1, <2>2
  <1>8. h = [i \in 0..k |-> h[i]]
    OBVIOUS
  <1> HIDE DEF h
  <1>9. h = [i \in 0..k |-> IF i = 0 THEN 0 ELSE h[i - 1] + e(i)]
    BY <1>7, <1>8
  <1>10. SumsTo(rows, kept, h, k)
    BY <1>9 DEF SumsTo, e
  <1>11. QED
    BY <1>2, <1>10

LEMMA EstimateSums ==
  ASSUME NEW R, NEW rows \in Seq(R), NEW kept
  PROVE  \E g : SumsTo(rows, kept, g, Len(rows)) /\ Estimate(rows, kept) = g[Len(rows)]
  <1> DEFINE f == CHOOSE g : SumsTo(rows, kept, g, Len(rows))
  <1>1. Len(rows) \in Nat
    OBVIOUS
  <1>2. \E g : SumsTo(rows, kept, g, Len(rows))
    BY <1>1, SumsExist
  <1>3. SumsTo(rows, kept, f, Len(rows))
    BY <1>2
  <1>4. Estimate(rows, kept) = f[Len(rows)]
    BY DEF Estimate, SumsTo
  <1>5. QED
    BY <1>3, <1>4

\* Who keeps less spends no more.
LEMMA KeepingLess ==
  ASSUME NEW rows \in Seq(Rows), NEW kept, NEW more, kept \subseteq more
  PROVE  /\ Estimate(rows, kept) \in Nat /\ Estimate(rows, more) \in Nat
         /\ Estimate(rows, kept) <= Estimate(rows, more)
  <1> DEFINE L == Len(rows)
             e(i) == EstimateMessage(rows[i])
  <1>0. L \in Nat /\ DOMAIN rows = 1..L
    OBVIOUS
  <1>1. PICK g : SumsTo(rows, kept, g, L) /\ Estimate(rows, kept) = g[L]
    BY EstimateSums
  <1>2. PICK h : SumsTo(rows, more, h, L) /\ Estimate(rows, more) = h[L]
    BY EstimateSums
  <1>3. \A i \in 1..L : e(i) \in Nat
    BY <1>0, CostsAreNumbers
  <1> HIDE DEF e
  <1>4. g = [i \in 0..L |-> IF i = 0 THEN 0 ELSE g[i - 1] + IF i \in kept THEN e(i) ELSE 0]
    BY <1>1 DEF SumsTo, e
  <1>5. h = [i \in 0..L |-> IF i = 0 THEN 0 ELSE h[i - 1] + IF i \in more THEN e(i) ELSE 0]
    BY <1>2 DEF SumsTo, e
  <1> HIDE DEF L
  <1> DEFINE T == {k \in 0..L : ~(g[k] \in Nat /\ h[k] \in Nat /\ g[k] <= h[k])}
  <1>6. T = {}
    <2> SUFFICES ASSUME T # {} PROVE FALSE
      OBVIOUS
    <2>1. T \subseteq Nat
      BY <1>0
    <2>2. PICK k \in T : \A m \in T : k <= m
      BY <2>1, LeastNumber
    <2>3. k \in 0..L /\ k \in Nat
      BY <1>0
    <2>4. k # 0
      <3>1. 0 \in 0..L
        BY <1>0
      <3>2. g[0] = 0 /\ h[0] = 0
        BY <1>4, <1>5, <3>1
      <3>3. QED
        BY <3>2
    <2>5. k - 1 \in 0..L /\ k \in 1..L /\ ~(k <= k - 1)
      BY <1>0, <2>3, <2>4
    <2>6. k - 1 \notin T
      BY <2>2, <2>5
    <2>7. g[k - 1] \in Nat /\ h[k - 1] \in Nat /\ g[k - 1] <= h[k - 1]
      BY <2>5, <2>6
    <2>8. /\ g[k] = g[k - 1] + IF k \in kept THEN e(k) ELSE 0
          /\ h[k] = h[k - 1] + IF k \in more THEN e(k) ELSE 0
      BY <1>4, <1>5, <2>3, <2>4
    <2>9. e(k) \in Nat
      BY <1>3, <2>5
    <2>10. g[k] \in Nat /\ h[k] \in Nat /\ g[k] <= h[k]
      BY <2>7, <2>8, <2>9
    <2>11. QED
      BY <2>10
  <1>7. L \in 0..L
    BY <1>0
  <1>8. QED
    BY <1>1, <1>2, <1>6, <1>7

-----------------------------------------------------------------------------
(* Which messages are kept.                                                *)

\* Where the kept messages begin: at a head, that is a question or the only head
\* left, and what is kept fits or is the last group.
LEMMA SelectFromKeeps ==
  ASSUME NEW rows \in Seq(Rows), rows # <<>>
  PROVE  LET from == SelectFrom(rows) IN
         /\ from \in GroupHeads(rows)
         /\ rows[from].role = "user" \/ \A j \in GroupHeads(rows) : j <= from
         /\ \/ \A j \in GroupHeads(rows) : j <= from
            \/ Estimate(rows, from..Len(rows)) <= Budget - Reserved(rows)
  <1> DEFINE L == Len(rows)
             G == GroupHeads(rows)
             last == Max(G)
             fits(i) == Estimate(rows, i..L) =< Budget - Reserved(rows)
             F == {i \in G : i = last \/ fits(i)}
             first == FirstFitting(rows)
             later == {j \in G : j > first}
  <1>0. L \in Nat \ {0} /\ DOMAIN rows = 1..L
    BY EmptySeq
  <1>1. 1 \in G /\ G \subseteq 1..L /\ G \subseteq Nat
    BY <1>0 DEF GroupHeads
  <1>2. last \in G /\ \A m \in G : m <= last
    <2>1. G \subseteq 0..L /\ G # {} /\ L \in Nat
      BY <1>0, <1>1
    <2> HIDE DEF G, L
    <2>2. QED
      BY <2>1, MaxIsGreatest
  <1>3. first = Min(F)
    BY DEF FirstFitting
  <1>4. Budget - Reserved(rows) \in Int
    BY ContextAssumption DEF Reserved
  <1>5. ASSUME NEW i \in Nat, NEW j \in Nat, i <= j, fits(i) PROVE fits(j)
    <2>1. j..L \subseteq i..L
      BY <1>0, <1>5
    <2> HIDE DEF L
    <2>2. /\ Estimate(rows, j..L) \in Nat /\ Estimate(rows, i..L) \in Nat
          /\ Estimate(rows, j..L) <= Estimate(rows, i..L)
      BY <2>1, KeepingLess
    <2>3. QED
      BY <1>4, <1>5, <2>2
  <1> HIDE DEF G, last, fits, L, first
  <1>6. F \subseteq Nat /\ F # {}
    BY <1>1, <1>2
  <1>7. first \in F /\ \A m \in F : first <= m
    BY <1>3, <1>6, MinIsLeast
  <1>8. first \in G /\ (first = last \/ fits(first)) /\ first \in Nat
    BY <1>1, <1>7
  <1>9. SelectFrom(rows) = IF rows[first].role # "user" /\ later # {} THEN Min(later) ELSE first
    BY DEF SelectFrom, SkipOrphan, G, first
  <1>10. CASE rows[first].role # "user" /\ later # {}
    <2>1. later \subseteq Nat /\ later # {}
      BY <1>1, <1>10
    <2>2. Min(later) \in later
      BY <2>1, MinIsLeast
    <2> DEFINE next == Min(later)
    <2> HIDE DEF next
    <2>3. next \in G /\ next > first /\ next \in Nat
      BY <1>1, <2>2 DEF next
    <2>4. next # 1
      BY <1>1, <1>8, <2>3
    <2>5. rows[next].role = "user"
      BY <2>3, <2>4 DEF G, GroupHeads
    <2>6. first # last
      BY <1>2, <1>8, <2>3
    <2>7. fits(next)
      BY <1>5, <1>8, <2>3, <2>6
    <2>8. SelectFrom(rows) = next
      BY <1>9, <1>10 DEF next
    <2>9. QED
      BY <2>3, <2>5, <2>7, <2>8 DEF fits, L, G
  <1>11. CASE ~(rows[first].role # "user" /\ later # {})
    <2>1. SelectFrom(rows) = first
      BY <1>9, <1>11
    <2>2. rows[first].role = "user" \/ \A j \in G : j <= first
      BY <1>1, <1>8, <1>11
    <2>3. (\A j \in G : j <= first) \/ fits(first)
      BY <1>2, <1>8
    <2>4. QED
      BY <1>8, <2>1, <2>2, <2>3 DEF fits, L, G
  <1>12. QED
    BY <1>10, <1>11

-----------------------------------------------------------------------------
(* One sequence of many.                                                   *)

\* s is the first n of seqs one behind the other: the k-th ends at place m[k].
IsJoined(seqs, n, s, m) ==
  /\ m \in [0..n -> Nat] /\ m[0] = 0 /\ m[n] = Len(s)
  /\ \A k \in 1..n : m[k] = m[k - 1] + Len(seqs[k])
  /\ \A i, k \in 0..n : i <= k => m[i] <= m[k]
  /\ \A k \in 1..n : \A j \in 1..Len(seqs[k]) : s[m[k - 1] + j] = seqs[k][j]
  /\ \A p \in 1..Len(s) : \E k \in 1..n : \E j \in 1..Len(seqs[k]) : p = m[k - 1] + j

LEMMA JoinedGrows ==
  ASSUME NEW S, NEW n \in Nat, NEW seqs, \A k \in 1..(n + 1) : seqs[k] \in Seq(S),
         NEW s \in Seq(S), NEW m, IsJoined(seqs, n, s, m)
  PROVE  s \o seqs[n + 1] \in Seq(S) /\ \E w : IsJoined(seqs, n + 1, s \o seqs[n + 1], w)
  <1> DEFINE t == seqs[n + 1]
             u == s \o t
             w == [k \in 0..(n + 1) |-> IF k = n + 1 THEN Len(s) + Len(t) ELSE m[k]]
  <1>0. n + 1 \in 1..(n + 1)
    OBVIOUS
  <1>1. t \in Seq(S) /\ Len(t) \in Nat /\ Len(s) \in Nat
    BY <1>0
  <1>2. /\ u \in Seq(S) /\ Len(u) = Len(s) + Len(t)
        /\ \A p \in 1..Len(s) : u[p] = s[p]
        /\ \A j \in 1..Len(t) : u[Len(s) + j] = t[j]
    BY <1>1
  <1> HIDE DEF t, u
  <1>3. m \in [0..n -> Nat] /\ m[0] = 0 /\ m[n] = Len(s)
    BY DEF IsJoined
  <1>4. \A k \in 0..n : k \in 0..(n + 1) /\ k # n + 1
    OBVIOUS
  <1>5. \A k \in 0..n : w[k] = m[k] /\ m[k] \in Nat
    BY <1>3, <1>4
  <1>6. w[n + 1] = Len(s) + Len(t)
    OBVIOUS
  <1>7. w \in [0..(n + 1) -> Nat]
    <2>1. ASSUME NEW k \in 0..(n + 1) PROVE (IF k = n + 1 THEN Len(s) + Len(t) ELSE m[k]) \in Nat
      <3>1. CASE k = n + 1
        BY <1>1, <3>1
      <3>2. CASE k # n + 1
        <4>1. k \in 0..n
          BY <3>2
        <4>2. QED
          BY <1>3, <3>2, <4>1
      <3>3. QED
        BY <3>1, <3>2
    <2>2. QED
      BY <2>1
  <1> HIDE DEF w
  <1>8. ASSUME NEW k \in 1..(n + 1) PROVE w[k] = w[k - 1] + Len(seqs[k])
    <2>1. CASE k = n + 1
      <3>1. k - 1 = n /\ n \in 0..n
        BY <2>1
      <3>2. QED
        BY <1>3, <1>5, <1>6, <2>1, <3>1 DEF t
    <2>2. CASE k # n + 1
      <3>1. k \in 1..n /\ k \in 0..n /\ k - 1 \in 0..n
        BY <2>2
      <3>2. m[k] = m[k - 1] + Len(seqs[k])
        BY <3>1 DEF IsJoined
      <3>3. QED
        BY <1>5, <3>1, <3>2
    <2>3. QED
      BY <2>1, <2>2
  <1>9. ASSUME NEW i \in 0..(n + 1), NEW k \in 0..(n + 1), i <= k PROVE w[i] <= w[k]
    <2>1. \A j \in 0..n : w[j] <= w[n + 1]
      <3>1. ASSUME NEW j \in 0..n PROVE w[j] <= w[n + 1]
        <4>1. j <= n /\ n \in 0..n
          OBVIOUS
        <4>2. m[j] <= m[n]
          BY <4>1 DEF IsJoined
        <4>3. QED
          BY <1>1, <1>3, <1>5, <1>6, <4>2
      <3>2. QED
        BY <3>1
    <2>2. CASE k = n + 1
      <3>1. i = n + 1 \/ i \in 0..n
        OBVIOUS
      <3>2. w[n + 1] \in Nat
        BY <1>1, <1>6
      <3>3. QED
        BY <2>1, <2>2, <3>1, <3>2
    <2>3. CASE k # n + 1
      <3>1. k \in 0..n /\ i \in 0..n
        BY <1>9, <2>3
      <3>2. m[i] <= m[k]
        BY <1>9, <3>1 DEF IsJoined
      <3>3. QED
        BY <1>5, <3>1, <3>2
    <2>4. QED
      BY <2>2, <2>3
  <1>10. ASSUME NEW k \in 1..(n + 1), NEW j \in 1..Len(seqs[k])
         PROVE  u[w[k - 1] + j] = seqs[k][j]
    <2>1. CASE k = n + 1
      <3>1. k - 1 = n /\ n \in 0..n
        BY <2>1
      <3>2. w[k - 1] = Len(s)
        BY <1>3, <1>5, <3>1
      <3>3. QED
        BY <1>2, <2>1, <3>2 DEF t
    <2>2. CASE k # n + 1
      <3>1. k \in 1..n /\ k \in 0..n /\ k - 1 \in 0..n /\ n \in 0..n /\ k <= n
        BY <2>2
      <3>2. m[k] = m[k - 1] + Len(seqs[k]) /\ m[k] <= m[n] /\ s[m[k - 1] + j] = seqs[k][j]
        BY <3>1 DEF IsJoined
      <3>3. m[k - 1] \in Nat /\ Len(seqs[k]) \in Nat
        BY <1>5, <3>1
      <3>4. m[k - 1] + j \in 1..Len(s)
        BY <1>1, <1>3, <3>2, <3>3
      <3>5. QED
        BY <1>2, <1>5, <3>1, <3>2, <3>4
    <2>3. QED
      BY <2>1, <2>2
  <1>11. ASSUME NEW p \in 1..Len(u)
         PROVE  \E k \in 1..(n + 1) : \E j \in 1..Len(seqs[k]) : p = w[k - 1] + j
    <2>1. CASE p <= Len(s)
      <3>1. p \in 1..Len(s)
        BY <1>1, <2>1
      <3>2. PICK k \in 1..n : \E j \in 1..Len(seqs[k]) : p = m[k - 1] + j
        BY <3>1 DEF IsJoined
      <3>3. k \in 1..(n + 1) /\ k - 1 \in 0..n
        OBVIOUS
      <3>4. w[k - 1] = m[k - 1]
        BY <1>5, <3>3
      <3>5. QED
        BY <3>2, <3>3, <3>4
    <2>2. CASE ~(p <= Len(s))
      <3>1. p - Len(s) \in 1..Len(t) /\ p = Len(s) + (p - Len(s))
        BY <1>1, <1>2, <2>2
      <3>2. (n + 1) - 1 = n /\ n \in 0..n
        OBVIOUS
      <3>3. w[(n + 1) - 1] = Len(s)
        BY <1>3, <1>5, <3>2
      <3>4. QED
        BY <1>0, <3>1, <3>3 DEF t
    <2>3. QED
      BY <2>1, <2>2
  <1>12. w[0] = 0
    <2>1. 0 \in 0..n
      OBVIOUS
    <2>2. QED
      BY <1>3, <1>5, <2>1
  <1>13. IsJoined(seqs, n + 1, u, w)
    BY <1>2, <1>6, <1>7, <1>8, <1>9, <1>10, <1>11, <1>12 DEF IsJoined
  <1>14. QED
    BY <1>2, <1>13 DEF u, t

\* The prefixes that FlattenSeq goes through, as far as n.
JoinsTo(seqs, g, n) ==
  g = [i \in 1..n |-> IF i = 1 THEN seqs[i] ELSE g[i - 1] \o seqs[i]]

LEMMA JoinsExist ==
  ASSUME NEW seqs, NEW n \in Nat
  PROVE  \E g : JoinsTo(seqs, g, n)
  <1> DEFINE T == {k \in Nat : ~\E g : JoinsTo(seqs, g, k)}
  <1> SUFFICES ASSUME T # {} PROVE FALSE
    OBVIOUS
  <1>1. PICK k \in T : \A m \in T : k <= m
    BY LeastNumber
  <1>2. k \in Nat /\ ~\E g : JoinsTo(seqs, g, k)
    OBVIOUS
  <1>3. k # 0
    <2>1. [i \in 1..0 |-> seqs[i]] = [i \in 1..0 |-> IF i = 1 THEN seqs[i] ELSE [j \in 1..0 |-> seqs[j]][i - 1] \o seqs[i]]
      OBVIOUS
    <2>2. JoinsTo(seqs, [i \in 1..0 |-> seqs[i]], 0)
      BY <2>1 DEF JoinsTo
    <2>3. QED
      BY <1>2, <2>2
  <1>4. k - 1 \in Nat /\ k - 1 \notin T
    BY <1>1, <1>2, <1>3
  <1>5. PICK g : JoinsTo(seqs, g, k - 1)
    BY <1>4
  <1> DEFINE h == [i \in 1..k |-> IF i = k THEN IF k = 1 THEN seqs[k] ELSE g[k - 1] \o seqs[k]
                                  ELSE g[i]]
  <1>6. ASSUME NEW i \in 1..k
        PROVE  h[i] = IF i = 1 THEN seqs[i] ELSE h[i - 1] \o seqs[i]
    <2>1. CASE i = k
      <3>1. k # 1 => k - 1 \in 1..k /\ k - 1 # k
        BY <1>2, <1>3
      <3>2. k # 1 => h[k - 1] = g[k - 1]
        BY <3>1
      <3>3. QED
        BY <1>3, <2>1, <3>2
    <2>2. CASE i # k
      <3>1. i \in 1..(k - 1)
        BY <1>2, <2>2
      <3>2. g[i] = IF i = 1 THEN seqs[i] ELSE g[i - 1] \o seqs[i]
        BY <1>5, <3>1 DEF JoinsTo
      <3>3. i # 1 => i - 1 \in 1..k /\ i - 1 # k
        BY <1>2, <3>1
      <3>4. h[i] = g[i] /\ (i # 1 => h[i - 1] = g[i - 1])
        BY <2>2, <3>3
      <3>5. QED
        BY <3>2, <3>4
    <2>3. QED
      BY <2>1, <2>2
  <1>7. h = [i \in 1..k |-> h[i]]
    OBVIOUS
  <1> HIDE DEF h
  <1>8. JoinsTo(seqs, h, k)
    BY <1>6, <1>7 DEF JoinsTo
  <1>9. QED
    BY <1>2, <1>8

\* What FlattenSeq returns.
LEMMA FlattenSeqJoins ==
  ASSUME NEW S, NEW seqs \in Seq(Seq(S)), seqs # <<>>
  PROVE  /\ FlattenSeq(seqs) \in Seq(S)
         /\ \E m : IsJoined(seqs, Len(seqs), FlattenSeq(seqs), m)
  <1> DEFINE L == Len(seqs)
             f == CHOOSE g : JoinsTo(seqs, g, L)
  <1>0. L \in Nat \ {0} /\ \A k \in 1..L : seqs[k] \in Seq(S)
    BY EmptySeq
  <1>1. \E g : JoinsTo(seqs, g, L)
    BY <1>0, JoinsExist
  <1>2. JoinsTo(seqs, f, L)
    BY <1>1
  <1>3. FlattenSeq(seqs) = f[L]
    BY <1>0 DEF FlattenSeq, JoinsTo
  <1> HIDE DEF f, L
  <1>4. \A i \in 1..L : f[i] = IF i = 1 THEN seqs[i] ELSE f[i - 1] \o seqs[i]
    BY <1>2 DEF JoinsTo
  <1> DEFINE Good(k) == f[k] \in Seq(S) /\ \E m : IsJoined(seqs, k, f[k], m)
             T == {k \in 1..L : ~Good(k)}
  <1>5. T = {}
    <2> SUFFICES ASSUME T # {} PROVE FALSE
      OBVIOUS
    <2>1. T \subseteq Nat
      BY <1>0
    <2>2. PICK k \in T : \A m \in T : k <= m
      BY <2>1, LeastNumber
    <2>3. k \in 1..L /\ k \in Nat /\ ~Good(k)
      BY <1>0
    <2>4. CASE k = 1
      <3> DEFINE w == [i \in 0..0 |-> 0]
      <3>1. \A i \in 1..(0 + 1) : seqs[i] \in Seq(S)
        BY <1>0
      <3>2. <<>> \in Seq(S) /\ Len(<<>>) = 0
        OBVIOUS
      <3>3. IsJoined(seqs, 0, <<>>, w)
        <4>1. w \in [0..0 -> Nat] /\ w[0] = 0
          OBVIOUS
        <4> HIDE DEF w
        <4>2. 1..0 = {} /\ 0..0 = {0}
          OBVIOUS
        <4>3. QED
          BY <3>2, <4>1, <4>2 DEF IsJoined
      <3> HIDE DEF w
      <3>4. <<>> \o seqs[0 + 1] \in Seq(S) /\ \E m : IsJoined(seqs, 0 + 1, <<>> \o seqs[0 + 1], m)
        BY <3>1, <3>2, <3>3, JoinedGrows
      <3>5. 0 + 1 = 1 /\ seqs[1] \in Seq(S)
        BY <1>0
      <3>6. <<>> \o seqs[1] = seqs[1]
        BY <3>5, ConcatEmptySeq
      <3>7. f[1] = seqs[1]
        BY <1>4, <2>3, <2>4
      <3>8. QED
        BY <2>3, <2>4, <3>4, <3>5, <3>6, <3>7
    <2>5. CASE k # 1
      <3> DEFINE n == k - 1
      <3>1. n \in Nat /\ n \in 1..L /\ ~(k <= n) /\ k = n + 1
        BY <1>0, <2>3, <2>5
      <3> HIDE DEF n
      <3>2. Good(n)
        BY <2>2, <3>1
      <3>3. \A i \in 1..(n + 1) : seqs[i] \in Seq(S)
        BY <1>0, <2>3, <3>1
      <3>4. f[n] \o seqs[n + 1] \in Seq(S) /\ \E m : IsJoined(seqs, n + 1, f[n] \o seqs[n + 1], m)
        BY <3>1, <3>2, <3>3, JoinedGrows
      <3>5. f[k] = f[n] \o seqs[n + 1]
        BY <1>4, <2>3, <2>5, <3>1 DEF n
      <3>6. QED
        BY <2>3, <3>1, <3>4, <3>5
    <2>6. QED
      BY <2>4, <2>5
  <1>6. L \in 1..L
    BY <1>0
  <1>7. QED
    BY <1>3, <1>5, <1>6 DEF L

-----------------------------------------------------------------------------
(* The context.                                                            *)

\* What BuildContext is made of, when the messages from position from on are kept.
Truncated(from) == from > 1
Pinned(rows, from) == Truncated(from) /\ NewestFiles(rows) \in 1..(from - 1)
ActiveAt(rows, from, pending) ==
  IF pending \/ Pinned(rows, from) \/ NewestFiles(rows) = 0 THEN 0 ELSE NewestFiles(rows)

\* What an entry of the context can be.
IsEntry(rows, from, pending, c) ==
  \/ Truncated(from) /\ c = Truncation
  \/ Pinned(rows, from) /\ ~pending /\ c = FilesNote(rows[NewestFiles(rows)], TRUE)
  \/ \E i \in from..Len(rows) :
        HasFiles(rows[i]) /\ c = FilesNote(rows[i], i = ActiveAt(rows, from, pending))
  \/ \E i \in from..Len(rows) : c = Row(rows[i])

\* The messages kept are in the context at places that grow.
AreShown(rows, from, ctx, place) ==
  /\ \A i \in from..Len(rows) : place[i] \in DOMAIN ctx /\ ctx[place[i]] = Row(rows[i])
  /\ \A i, j \in from..Len(rows) : i <= j => place[i] <= place[j]
  /\ \A p \in DOMAIN ctx : ctx[p].kind = "row" => \E i \in from..Len(rows) : p = place[i]

IsContext(rows, from, pending, ctx) ==
  /\ \E n \in Nat : DOMAIN ctx = 1..n
  /\ \A p \in DOMAIN ctx : IsEntry(rows, from, pending, ctx[p])
  /\ Truncated(from) => Truncation \in Range(ctx)
  /\ Pinned(rows, from) /\ ~pending => FilesNote(rows[NewestFiles(rows)], TRUE) \in Range(ctx)
  /\ \A i \in from..Len(rows) : HasFiles(rows[i])
        => FilesNote(rows[i], i = ActiveAt(rows, from, pending)) \in Range(ctx)
  /\ \E place : AreShown(rows, from, ctx, place)

LEMMA BuildContextIsContext ==
  ASSUME NEW rows \in Seq(Rows), rows # <<>>, NEW pending \in BOOLEAN, SelectFrom(rows) \in 1..Len(rows)
  PROVE  IsContext(rows, SelectFrom(rows), pending, BuildContext(rows, pending))
  <1> DEFINE L == Len(rows)
             from == SelectFrom(rows)
             newest == NewestFiles(rows)
             truncated == from > 1
             pinned == truncated /\ newest \in 1..(from - 1)
             activeAt == IF pending \/ pinned \/ newest = 0 THEN 0 ELSE newest
             shown(i) == IF HasFiles(rows[i]) THEN <<FilesNote(rows[i], i = activeAt), Row(rows[i])>>
                                              ELSE <<Row(rows[i])>>
             notes == IF truncated THEN <<Truncation>> ELSE <<>>
             pin == IF pinned /\ ~pending THEN <<FilesNote(rows[newest], TRUE)>> ELSE <<>>
             n == L - from + 1
             items == [k \in 1..n |-> shown(from + k - 1)]
             head == notes \o pin
             flat == FlattenSeq(items)
             ctx == head \o flat
             S == {Truncation} \cup {FilesNote(rows[i], a) : i \in 1..L, a \in BOOLEAN}
                    \cup {Row(rows[i]) : i \in 1..L}
  <1>0. L \in Nat \ {0} /\ from \in 1..L /\ n \in Nat \ {0}
    BY EmptySeq
  <1>1. BuildContext(rows, pending) = ctx
    BY DEF BuildContext
  <1>2. /\ Truncated(from) = truncated /\ Pinned(rows, from) = pinned
        /\ ActiveAt(rows, from, pending) = activeAt
    BY DEF Truncated, Pinned, ActiveAt
  <1>3. \A i \in 1..L : /\ Row(rows[i]) \in S
                        /\ \A a \in BOOLEAN : FilesNote(rows[i], a) \in S
    OBVIOUS
  <1>4. /\ Truncation \in S
        /\ pinned => newest \in 1..L
    BY <1>0
  <1>5. \A i \in 1..L : shown(i) \in Seq(S) /\ Len(shown(i)) \in {1, 2}
    <2>1. ASSUME NEW i \in 1..L PROVE shown(i) \in Seq(S) /\ Len(shown(i)) \in {1, 2}
      <3> DEFINE a == FilesNote(rows[i], i = activeAt)
                 b == Row(rows[i])
      <3>0. (i = activeAt) \in BOOLEAN
        OBVIOUS
      <3> HIDE DEF S, activeAt
      <3>1. a \in S /\ b \in S
        BY <1>3, <3>0
      <3> HIDE DEF a, b
      <3>2. <<a, b>> \in Seq(S) /\ <<b>> \in Seq(S) /\ Len(<<a, b>>) = 2 /\ Len(<<b>>) = 1
        BY <3>1
      <3>3. shown(i) = IF HasFiles(rows[i]) THEN <<a, b>> ELSE <<b>>
        BY DEF a, b
      <3> HIDE DEF shown
      <3>4. QED
        BY <3>2, <3>3
    <2> HIDE DEF shown, S
    <2>2. QED
      BY <2>1
  <1>6. \A i \in 1..L : shown(i)[Len(shown(i))] = Row(rows[i])
    OBVIOUS
  <1>7. \A i \in 1..L : HasFiles(rows[i]) =>
            Len(shown(i)) = 2 /\ shown(i)[1] = FilesNote(rows[i], i = activeAt)
    OBVIOUS
  <1>8. \A i \in 1..L : \A j \in 1..Len(shown(i)) :
            \/ j = Len(shown(i))
            \/ HasFiles(rows[i]) /\ shown(i)[j] = FilesNote(rows[i], i = activeAt)
    OBVIOUS
  <1>9. /\ head \in Seq(S)
        /\ \A p \in 1..Len(head) :
              \/ truncated /\ head[p] = Truncation
              \/ pinned /\ ~pending /\ head[p] = FilesNote(rows[newest], TRUE)
        /\ truncated => \E p \in 1..Len(head) : head[p] = Truncation
        /\ pinned /\ ~pending => \E p \in 1..Len(head) : head[p] = FilesNote(rows[newest], TRUE)
    <2> DEFINE a == Truncation
               b == FilesNote(rows[newest], TRUE)
    <2>0. pinned => truncated
      OBVIOUS
    <2> HIDE DEF S, newest
    <2>1. a \in S /\ (pinned => b \in S) /\ (pinned => truncated)
      BY <1>3, <1>4, <2>0
    <2>2. notes = (IF truncated THEN <<a>> ELSE <<>>) /\ pin = IF pinned /\ ~pending THEN <<b>> ELSE <<>>
      OBVIOUS
    <2> HIDE DEF a, b, notes, pin, pinned, truncated
    <2>3. CASE ~truncated
      <3>1. notes = <<>> /\ pin = <<>>
        BY <2>1, <2>2, <2>3
      <3>2. head = <<>>
        BY <3>1
      <3> HIDE DEF head
      <3>3. QED
        BY <2>1, <2>3, <3>2
    <2>4. CASE truncated /\ ~(pinned /\ ~pending)
      <3>1. notes = <<a>> /\ pin = <<>>
        BY <2>2, <2>4
      <3>2. head = <<a>>
        BY <3>1
      <3> HIDE DEF head
      <3>3. head \in Seq(S) /\ Len(head) = 1 /\ head[1] = a
        BY <2>1, <3>2
      <3>4. 1 \in 1..Len(head) /\ \A p \in 1..Len(head) : p = 1
        BY <3>3
      <3>5. \A p \in 1..Len(head) : truncated /\ head[p] = a
        BY <2>4, <3>3, <3>4
      <3>6. QED
        BY <2>4, <3>3, <3>4, <3>5 DEF a
    <2>5. CASE truncated /\ pinned /\ ~pending
      <3>1. notes = <<a>> /\ pin = <<b>>
        BY <2>2, <2>5
      <3>2. <<a>> \in Seq(S) /\ <<b>> \in Seq(S) /\ head = <<a>> \o <<b>>
        BY <2>1, <2>5, <3>1
      <3> HIDE DEF head
      <3>3. head \in Seq(S) /\ Len(head) = 2 /\ head[1] = a /\ head[2] = b
        BY <3>2
      <3>4. 1 \in 1..Len(head) /\ 2 \in 1..Len(head) /\ \A p \in 1..Len(head) : p = 1 \/ p = 2
        BY <3>3
      <3>5. \A p \in 1..Len(head) : head[p] = a \/ head[p] = b
        BY <3>3, <3>4
      <3>6. QED
        BY <2>5, <3>3, <3>4, <3>5 DEF a, b
    <2>6. QED
      BY <2>1, <2>3, <2>4, <2>5
  <1> HIDE DEF shown, S, head
  <1>10. \A k \in 1..n : from + k - 1 \in from..L /\ from + k - 1 \in 1..L
    BY <1>0
  <1>11. items \in Seq(Seq(S)) /\ Len(items) = n /\ items # <<>> /\ \A k \in 1..n : items[k] = shown(from + k - 1)
    <2>1. \A k \in 1..n : shown(from + k - 1) \in Seq(S)
      BY <1>5, <1>10
    <2>2. items \in [1..n -> Seq(S)]
      BY <2>1
    <2> HIDE DEF n
    <2>3. items \in Seq(Seq(S)) /\ Len(items) = n
      BY <1>0, <2>2
    <2>4. \A k \in 1..n : items[k] = shown(from + k - 1)
      OBVIOUS
    <2> HIDE DEF items
    <2>5. QED
      BY <1>0, <2>3, <2>4
  <1> HIDE DEF items, n
  <1>12. flat \in Seq(S) /\ \E m : IsJoined(items, n, flat, m)
    BY <1>11, FlattenSeqJoins
  <1>13. PICK m : IsJoined(items, n, flat, m)
    BY <1>12
  <1> HIDE DEF flat
  <1> DEFINE H == Len(head)
             place == [i \in from..L |-> H + m[i - from + 1]]
  <1>14. /\ H \in Nat /\ Len(flat) \in Nat /\ DOMAIN ctx = 1..(H + Len(flat))
         /\ \A p \in 1..H : ctx[p] = head[p]
         /\ \A p \in 1..Len(flat) : ctx[H + p] = flat[p]
    BY <1>9, <1>12
  <1> HIDE DEF ctx, H
  <1>15. \A k \in 0..n : m[k] \in Nat
    BY <1>13 DEF IsJoined
  <1>16. ASSUME NEW k \in 1..n, NEW j \in 1..Len(items[k])
         PROVE  /\ m[k - 1] + j \in 1..Len(flat) /\ flat[m[k - 1] + j] = items[k][j]
                /\ m[k] = m[k - 1] + Len(items[k])
    <2>1. k \in 0..n /\ k - 1 \in 0..n /\ n \in 0..n /\ k <= n
      BY <1>0
    <2>2. m[k] = m[k - 1] + Len(items[k]) /\ m[k] <= m[n] /\ m[n] = Len(flat) /\ flat[m[k - 1] + j] = items[k][j]
      BY <1>13, <2>1 DEF IsJoined
    <2>3. items[k] \in Seq(S)
      BY <1>11
    <2>4. Len(items[k]) \in Nat /\ m[k - 1] \in Nat /\ Len(flat) \in Nat
      BY <1>14, <1>15, <2>1, <2>3
    <2>5. m[k - 1] + j \in 1..Len(flat)
      <3> DEFINE z == Len(items[k])
                 x == m[k - 1]
                 y == Len(flat)
      <3>1. x + z <= y /\ z \in Nat /\ x \in Nat /\ y \in Nat /\ j \in 1..z
        BY <2>2, <2>4
      <3> HIDE DEF x, y, z
      <3>2. x + j \in 1..y
        BY <3>1
      <3>3. QED
        BY <3>2 DEF x, y
    <2>6. QED
      BY <2>2, <2>5
  <1>17. ASSUME NEW i \in from..L
         PROVE  /\ place[i] = H + m[i - from + 1] /\ i - from + 1 \in 1..n
                /\ m[i - from + 1] \in 1..Len(flat)
                /\ items[i - from + 1] = shown(i)
                /\ flat[m[i - from + 1]] = Row(rows[i])
    <2> DEFINE k == i - from + 1
    <2>1. k \in 1..n /\ from + k - 1 = i /\ i \in 1..L /\ k - 1 \in 0..n
      BY <1>0 DEF n
    <2> HIDE DEF k
    <2>2. items[k] = shown(i)
      BY <1>11, <2>1
    <2>3. Len(items[k]) \in {1, 2} /\ items[k][Len(items[k])] = Row(rows[i])
      BY <1>5, <1>6, <2>1, <2>2
    <2>4. Len(items[k]) \in 1..Len(items[k])
      <3>1. \A x \in {1, 2} : x \in 1..x
        OBVIOUS
      <3>2. QED
        BY <2>3, <3>1
    <2>5. /\ m[k - 1] + Len(items[k]) \in 1..Len(flat)
          /\ flat[m[k - 1] + Len(items[k])] = items[k][Len(items[k])]
          /\ m[k] = m[k - 1] + Len(items[k])
      BY <1>16, <2>1, <2>4
    <2>6. m[k] \in 1..Len(flat) /\ flat[m[k]] = Row(rows[i])
      BY <2>3, <2>5
    <2>7. QED
      BY <2>1, <2>2, <2>6 DEF k
  <1>18. ASSUME NEW p \in 1..Len(flat)
         PROVE  \/ \E i \in from..L : p = m[i - from + 1]
                \/ \E i \in from..L : HasFiles(rows[i]) /\ flat[p] = FilesNote(rows[i], i = activeAt)
    <2>0. PICK k \in 1..n : \E j \in 1..Len(items[k]) : p = m[k - 1] + j
      BY <1>13 DEF IsJoined
    <2>1. PICK j \in 1..Len(items[k]) : p = m[k - 1] + j
      BY <2>0
    <2> DEFINE i == from + k - 1
    <2>2. i \in from..L /\ i \in 1..L /\ i - from + 1 = k
      BY <1>0, <1>10
    <2>3. items[k] = shown(i)
      BY <1>11
    <2> HIDE DEF i
    <2>4. flat[p] = items[k][j] /\ m[k] = m[k - 1] + Len(items[k])
      BY <1>16, <2>1
    <2>5. \/ j = Len(items[k])
          \/ HasFiles(rows[i]) /\ items[k][j] = FilesNote(rows[i], i = activeAt)
      BY <1>8, <2>2, <2>3
    <2>6. CASE j = Len(items[k])
      <3>1. p = m[i - from + 1]
        BY <2>1, <2>2, <2>4, <2>6
      <3>2. QED
        BY <2>2, <3>1
    <2>7. CASE HasFiles(rows[i]) /\ items[k][j] = FilesNote(rows[i], i = activeAt)
      BY <2>2, <2>4, <2>7
    <2>8. QED
      BY <2>5, <2>6, <2>7
  <1>19. ASSUME NEW p \in DOMAIN ctx
         PROVE  \/ p \in 1..H /\ ctx[p] = head[p]
                \/ p - H \in 1..Len(flat) /\ ctx[p] = flat[p - H]
    <2>1. p \in 1..(H + Len(flat))
      BY <1>14
    <2>2. CASE p <= H
      BY <1>14, <2>1, <2>2
    <2>3. CASE ~(p <= H)
      <3>1. p - H \in 1..Len(flat) /\ H + (p - H) = p
        BY <1>14, <2>1, <2>3
      <3>2. QED
        BY <1>14, <3>1
    <2>4. QED
      BY <2>2, <2>3
  <1>20. ASSUME NEW p \in 1..Len(flat) PROVE H + p \in DOMAIN ctx /\ ctx[H + p] = flat[p]
    BY <1>14
  <1>21. ASSUME NEW p \in 1..H PROVE p \in DOMAIN ctx /\ ctx[p] = head[p]
    BY <1>14
  <1>22. \A p \in DOMAIN ctx : IsEntry(rows, from, pending, ctx[p])
    <2>1. ASSUME NEW p \in DOMAIN ctx PROVE IsEntry(rows, from, pending, ctx[p])
      <3>1. CASE p \in 1..H /\ ctx[p] = head[p]
        BY <1>2, <1>9, <3>1 DEF IsEntry, H
      <3>2. CASE p - H \in 1..Len(flat) /\ ctx[p] = flat[p - H]
        <4>1. CASE \E i \in from..L : p - H = m[i - from + 1]
          <5>1. PICK i \in from..L : p - H = m[i - from + 1]
            BY <4>1
          <5>2. ctx[p] = Row(rows[i])
            BY <1>17, <3>2, <5>1
          <5>3. QED
            BY <5>2 DEF IsEntry
        <4>2. CASE \E i \in from..L : HasFiles(rows[i]) /\ flat[p - H] = FilesNote(rows[i], i = activeAt)
          BY <1>2, <3>2, <4>2 DEF IsEntry
        <4>3. QED
          BY <1>18, <3>2, <4>1, <4>2
      <3>3. QED
        BY <1>19, <3>1, <3>2
    <2>2. QED
      BY <2>1
  <1>23. Truncated(from) => Truncation \in Range(ctx)
    BY <1>2, <1>9, <1>21 DEF Range, H
  <1>24. Pinned(rows, from) /\ ~pending => FilesNote(rows[newest], TRUE) \in Range(ctx)
    BY <1>2, <1>9, <1>21 DEF Range, H
  <1>25. ASSUME NEW i \in from..L, HasFiles(rows[i])
         PROVE  FilesNote(rows[i], i = ActiveAt(rows, from, pending)) \in Range(ctx)
    <2> DEFINE k == i - from + 1
    <2>1. k \in 1..n /\ items[k] = shown(i) /\ i \in 1..L
      BY <1>0, <1>17
    <2> HIDE DEF k
    <2>2. Len(items[k]) = 2 /\ items[k][1] = FilesNote(rows[i], i = activeAt)
      BY <1>7, <1>25, <2>1
    <2>3. 1 \in 1..Len(items[k])
      BY <2>2
    <2>4. m[k - 1] + 1 \in 1..Len(flat) /\ flat[m[k - 1] + 1] = items[k][1]
      BY <1>16, <2>1, <2>3
    <2>5. H + (m[k - 1] + 1) \in DOMAIN ctx /\ ctx[H + (m[k - 1] + 1)] = FilesNote(rows[i], i = activeAt)
      BY <1>20, <2>2, <2>4
    <2>6. QED
      BY <1>2, <2>5 DEF Range
  <1>26. AreShown(rows, from, ctx, place)
    <2>1. ASSUME NEW i \in from..L PROVE place[i] \in DOMAIN ctx /\ ctx[place[i]] = Row(rows[i])
      BY <1>17, <1>20
    <2>2. ASSUME NEW i \in from..L, NEW j \in from..L, i <= j PROVE place[i] <= place[j]
      <3>1. i - from + 1 \in 0..n /\ j - from + 1 \in 0..n /\ i - from + 1 <= j - from + 1
        BY <1>0, <2>2 DEF n
      <3>2. m[i - from + 1] <= m[j - from + 1]
        BY <1>13, <3>1 DEF IsJoined
      <3>3. m[i - from + 1] \in Nat /\ m[j - from + 1] \in Nat
        BY <1>15, <3>1
      <3>4. QED
        BY <1>14, <1>17, <3>2, <3>3
    <2>3. ASSUME NEW p \in DOMAIN ctx, ctx[p].kind = "row" PROVE \E i \in from..L : p = place[i]
      <3>1. p \in Nat
        BY <1>14
      <3>2. ~(p \in 1..H /\ ctx[p] = head[p])
        BY <1>9, <2>3 DEF FilesNote, Truncation, H
      <3>3. p - H \in 1..Len(flat) /\ ctx[p] = flat[p - H]
        BY <1>19, <3>2
      <3>4. \A i \in from..L : ctx[p] # FilesNote(rows[i], i = activeAt)
        BY <2>3 DEF FilesNote
      <3>5. PICK i \in from..L : p - H = m[i - from + 1]
        BY <1>18, <3>3, <3>4
      <3>6. place[i] = p
        BY <1>14, <1>17, <3>1, <3>5
      <3>7. QED
        BY <3>6
    <2> HIDE DEF place
    <2>4. QED
      BY <2>1, <2>2, <2>3 DEF AreShown, L
  <1>27. \E k \in Nat : DOMAIN ctx = 1..k
    <2>1. H + Len(flat) \in Nat
      BY <1>14
    <2>2. QED
      BY <1>14, <2>1
  <1>28. QED
    BY <1>1, <1>27, <1>22, <1>23, <1>24, <1>25, <1>26 DEF IsContext, L

LEMMA NewestFilesIsNewest ==
  ASSUME NEW rows \in Seq(Rows)
  PROVE  /\ NewestFiles(rows) \in 0..Len(rows)
         /\ NewestFiles(rows) # 0 => HasFiles(rows[NewestFiles(rows)])
         /\ \A i \in DOMAIN rows : HasFiles(rows[i]) => i <= NewestFiles(rows)
  <1> DEFINE L == Len(rows)
             T == {i \in DOMAIN rows : HasFiles(rows[i])} \cup {0}
  <1>1. L \in Nat /\ DOMAIN rows = 1..L
    OBVIOUS
  <1>2. T \subseteq 0..L /\ T # {}
    BY <1>1
  <1>3. NewestFiles(rows) = Max(T)
    BY DEF NewestFiles
  <1> HIDE DEF T, L
  <1>4. Max(T) \in T /\ \A m \in T : m <= Max(T)
    BY <1>1, <1>2, MaxIsGreatest
  <1>5. QED
    BY <1>2, <1>3, <1>4 DEF T, L

\* Whatever the history, what BuildContext gives the model is what it is owed.
LEMMA BuildContextIsOwed ==
  ASSUME NEW rows, IsHistory(rows), NEW pending \in BOOLEAN
  PROVE  ContextOwed(rows, pending, BuildContext(rows, pending))
  <1> DEFINE ctx == BuildContext(rows, pending)
             L == Len(rows)
             from == SelectFrom(rows)
             newest == NewestFiles(rows)
             kept == {i \in DOMAIN rows : Row(rows[i]) \in Range(ctx)}
             lone == \A i \in kept : rows[i].role = "user" => i = Min(kept)
             active == {c \in Range(ctx) : c.kind = "files" /\ c.active}
             added == (IF Truncation \in Range(ctx) THEN NoteCost ELSE 0)
                      + IF \E c \in active : \A i \in kept : rows[i].seq # c.seq THEN FilesCost ELSE 0
  <1>1. rows \in Seq(Rows) /\ \A i, j \in DOMAIN rows : i < j => rows[i].seq < rows[j].seq
    BY DEF IsHistory
  <1>2. L \in Nat /\ DOMAIN rows = 1..L
    BY <1>1
  <1>3. \A i \in DOMAIN rows : rows[i].seq \in Nat
    <2>1. \A m \in Rows : m.seq \in Nat
      BY DEF Rows
    <2>2. QED
      BY <1>1, <2>1
  <1>4. newest \in 0..L /\ (newest # 0 => HasFiles(rows[newest]))
    BY <1>1, NewestFilesIsNewest
  <1>5. CASE rows = <<>>
    <2>1. ctx = <<>>
      BY <1>5 DEF BuildContext
    <2>2. L = 0 /\ DOMAIN rows = {} /\ Range(ctx) = {} /\ DOMAIN ctx = {}
      BY <1>2, <1>5, <2>1 DEF Range
    <2>3. newest = 0
      BY <1>4, <2>2
    <2> HIDE DEF ctx, newest
    <2>4. QED
      BY <1>5, <2>2, <2>3 DEF ContextOwed, ctx, newest
  <1>6. CASE rows # <<>>
    <2>1. /\ from \in GroupHeads(rows)
          /\ rows[from].role = "user" \/ \A j \in GroupHeads(rows) : j <= from
          /\ \/ \A j \in GroupHeads(rows) : j <= from
             \/ Estimate(rows, from..L) <= Budget - Reserved(rows)
      BY <1>1, <1>6, SelectFromKeeps
    <2>2. from \in 1..L /\ L \in Nat \ {0}
      BY <1>2, <2>1 DEF GroupHeads
    <2>3. IsContext(rows, from, pending, ctx)
      BY <1>1, <1>6, <2>2, BuildContextIsContext
    <2> HIDE DEF ctx, from, newest
    <2>4. PICK place : AreShown(rows, from, ctx, place)
      BY <2>3 DEF IsContext
    <2>5. \A c \in Range(ctx) : IsEntry(rows, from, pending, c)
      BY <2>3 DEF IsContext, Range
    <2>6. \A i, j \in 1..L : rows[i].seq = rows[j].seq => i = j
      <3>1. ASSUME NEW i \in 1..L, NEW j \in 1..L, rows[i].seq = rows[j].seq PROVE i = j
        <4>1. ~(i < j) /\ ~(j < i)
          BY <1>1, <1>2, <1>3, <3>1
        <4>2. QED
          BY <4>1
      <3>2. QED
        BY <3>1
    <2>7. kept = from..L
      <3>1. ASSUME NEW i \in from..L PROVE i \in kept
        BY <1>2, <2>2, <2>4 DEF AreShown, Range
      <3>2. ASSUME NEW i \in kept PROVE i \in from..L
        <4>1. i \in 1..L /\ IsEntry(rows, from, pending, Row(rows[i]))
          BY <1>2, <2>5
        <4>2. PICK j \in from..L : Row(rows[i]) = Row(rows[j])
          BY <4>1 DEF IsEntry, Row, FilesNote, Truncation
        <4>3. rows[i].seq = rows[j].seq /\ j \in 1..L
          BY <2>2, <4>2 DEF Row
        <4>4. QED
          BY <2>6, <4>1, <4>3
      <3>3. QED
        BY <3>1, <3>2
    <2>8. Min(from..L) = from
      <3>1. from..L \subseteq Nat /\ from..L # {} /\ from \in from..L
        BY <2>2
      <3>2. Min(from..L) \in from..L /\ Min(from..L) <= from
        BY <3>1, MinIsLeast
      <3>3. QED
        BY <2>2, <3>2
    <2>9. Truncation \in Range(ctx) <=> from > 1
      <3>1. from > 1 => Truncation \in Range(ctx)
        BY <2>3 DEF IsContext, Truncated
      <3>2. Truncation \in Range(ctx) => from > 1
        BY <2>5 DEF IsEntry, Truncated, Row, FilesNote, Truncation
      <3>3. QED
        BY <3>1, <3>2
    <2>10. active = IF pending \/ newest = 0 THEN {} ELSE {FilesNote(rows[newest], TRUE)}
      <3> DEFINE note == FilesNote(rows[newest], TRUE)
                 at == ActiveAt(rows, from, pending)
      <3>1. \A c \in active :
               \/ Pinned(rows, from) /\ ~pending /\ c = note
               \/ \E i \in from..L : i = at /\ c = FilesNote(rows[i], TRUE)
        <4>1. ASSUME NEW c \in active
              PROVE  \/ Pinned(rows, from) /\ ~pending /\ c = note
                     \/ \E i \in from..L : i = at /\ c = FilesNote(rows[i], TRUE)
          <5>1. c.kind = "files" /\ c.active /\ IsEntry(rows, from, pending, c)
            BY <2>5
          <5>2. c # Truncation /\ \A i \in from..L : c # Row(rows[i])
            BY <5>1 DEF Truncation, Row
          <5>3. ASSUME NEW i \in from..L, c = FilesNote(rows[i], i = at)
                PROVE  i = at /\ c = FilesNote(rows[i], TRUE)
            <6>1. c.active = (i = at)
              BY <5>3 DEF FilesNote
            <6>2. (i = at) = TRUE
              BY <5>1, <6>1
            <6>3. QED
              BY <5>3, <6>2
          <5>4. CASE Pinned(rows, from) /\ ~pending /\ c = note
            BY <5>4
          <5>5. CASE \E i \in from..L : HasFiles(rows[i]) /\ c = FilesNote(rows[i], i = at)
            BY <5>3, <5>5
          <5>6. QED
            BY <5>1, <5>2, <5>4, <5>5 DEF IsEntry, newest
        <4>2. QED
          BY <4>1
      <3>2. note.kind = "files" /\ note.active
        BY DEF FilesNote
      <3> HIDE DEF note, at, active
      <3>3. CASE pending \/ newest = 0
        <4>1. at = 0 /\ ~(Pinned(rows, from) /\ ~pending)
          BY <3>3 DEF at, ActiveAt, Pinned, newest
        <4>2. \A i \in from..L : i # at
          BY <2>2, <4>1
        <4>3. active = {}
          BY <3>1, <4>1, <4>2
        <4>4. QED
          BY <3>3, <4>3
      <3>4. CASE ~(pending \/ newest = 0) /\ newest < from
        <4>1. Pinned(rows, from) /\ at = 0
          BY <1>4, <2>2, <3>4 DEF at, ActiveAt, Pinned, Truncated, newest
        <4>2. note \in Range(ctx)
          BY <2>3, <3>4, <4>1 DEF IsContext, note, newest
        <4>3. note \in active
          BY <3>2, <4>2 DEF active
        <4>4. \A i \in from..L : i # at
          BY <2>2, <4>1
        <4>5. \A c \in active : c = note
          BY <3>1, <4>4
        <4>6. active = {note}
          BY <4>3, <4>5
        <4>7. QED
          BY <3>4, <4>6 DEF note
      <3>5. CASE ~(pending \/ newest = 0) /\ ~(newest < from)
        <4>1. ~Pinned(rows, from) /\ at = newest /\ newest \in from..L /\ HasFiles(rows[newest])
          BY <1>4, <2>2, <3>5 DEF at, ActiveAt, Pinned, newest
        <4>2. FilesNote(rows[newest], newest = at) \in Range(ctx)
          BY <2>3, <4>1 DEF IsContext, at
        <4>3. (newest = at) = TRUE
          BY <4>1
        <4>4. note \in Range(ctx)
          BY <4>2, <4>3 DEF note
        <4>5. note \in active
          BY <3>2, <4>4 DEF active
        <4>6. \A c \in active : c = note
          BY <3>1, <4>1 DEF note
        <4>7. active = {note}
          BY <4>5, <4>6
        <4>8. QED
          BY <3>5, <4>7 DEF note
      <3>6. QED
        BY <3>3, <3>4, <3>5
    <2>11. \A i \in kept : rows[i].role = "user" => i \in GroupHeads(rows)
      BY DEF GroupHeads
    <2>12. lone \/ Estimate(rows, kept) + added <= Budget
      <3> SUFFICES ASSUME ~lone PROVE Estimate(rows, kept) + added <= Budget
        OBVIOUS
      <3>1. PICK i \in kept : rows[i].role = "user" /\ i # Min(kept)
        OBVIOUS
      <3>2. i \in GroupHeads(rows) /\ i \in from..L /\ i # from
        BY <2>7, <2>8, <2>11, <3>1
      <3>3. ~(i <= from)
        BY <2>2, <3>2
      <3>4. Estimate(rows, kept) <= Budget - Reserved(rows)
        BY <2>1, <2>7, <3>2, <3>3
      <3>5. (\E c \in active : \A j \in kept : rows[j].seq # c.seq) => newest # 0
        <4> HIDE DEF active
        <4>1. QED
          BY <2>10
      <3> HIDE DEF kept, active
      <3>6. added <= Reserved(rows) /\ added \in Nat /\ Reserved(rows) \in Nat
        BY <3>5, ContextAssumption DEF Reserved, newest
      <3> HIDE DEF added
      <3>7. Estimate(rows, kept) \in Nat /\ Budget \in Nat
        BY <1>1, KeepingLess, ContextAssumption
      <3>8. QED
        BY <3>4, <3>6, <3>7
    <2>13. \A p \in DOMAIN ctx : ctx[p].kind = "row" =>
              /\ \E i \in kept : ctx[p] = Row(rows[i])
              /\ \A q \in 1..(p - 1) : ctx[q].kind = "row" => ctx[q].seq < ctx[p].seq
      <3>1. \A p \in DOMAIN ctx : ctx[p].kind = "row" =>
               \E i \in from..L : p = place[i] /\ ctx[p] = Row(rows[i])
        BY <2>4 DEF AreShown
      <3>2. ASSUME NEW p \in DOMAIN ctx, ctx[p].kind = "row" PROVE \E i \in kept : ctx[p] = Row(rows[i])
        BY <2>7, <3>1, <3>2
      <3>3. ASSUME NEW p \in DOMAIN ctx, ctx[p].kind = "row",
                   NEW q \in 1..(p - 1), ctx[q].kind = "row"
            PROVE  ctx[q].seq < ctx[p].seq
        <4>1. p \in Nat /\ q \in Nat /\ q < p /\ q \in DOMAIN ctx
          BY <3>3, <2>3 DEF IsContext
        <4>2. PICK i \in from..L : p = place[i] /\ ctx[p] = Row(rows[i])
          BY <3>1, <3>3
        <4>3. PICK j \in from..L : q = place[j] /\ ctx[q] = Row(rows[j])
          BY <3>1, <3>3, <4>1
        <4>4. i \in 1..L /\ j \in 1..L
          BY <2>2
        <4>5. ~(i <= j)
          BY <2>4, <4>1, <4>2, <4>3 DEF AreShown
        <4>6. rows[j].seq < rows[i].seq
          BY <1>1, <1>2, <4>4, <4>5
        <4>7. QED
          BY <4>2, <4>3, <4>6 DEF Row
      <3>4. QED
        BY <3>2, <3>3
    <2>14. kept # {} /\ kept = Min(kept)..L /\ (lone \/ rows[Min(kept)].role = "user")
      <3>0. from..L # {}
        BY <2>2
      <3>1. kept # {} /\ kept = Min(kept)..L /\ Min(kept) = from
        <4> HIDE DEF kept
        <4>1. QED
          BY <2>7, <2>8, <3>0
      <3>2. CASE \A j \in GroupHeads(rows) : j <= from
        <4>1. ASSUME NEW i \in kept, rows[i].role = "user" PROVE i = Min(kept)
          <5>1. i <= from /\ i \in from..L
            BY <2>7, <2>11, <3>2, <4>1
          <5>2. QED
            BY <2>2, <3>1, <5>1
        <4>2. QED
          BY <3>1, <4>1
      <3>3. CASE rows[from].role = "user"
        BY <3>1, <3>3
      <3>4. QED
        BY <2>1, <3>2, <3>3
    <2>15. Truncation \in Range(ctx) <=> kept # DOMAIN rows
      BY <1>2, <2>2, <2>7, <2>9
    <2>16. QED
      BY <2>10, <2>12, <2>13, <2>14, <2>15 DEF ContextOwed, ctx, L, newest
  <1>7. QED
    BY <1>5, <1>6

-----------------------------------------------------------------------------
(* The context of a turn under way *)

\* What a turn was opened with is the context of a stretch of the thread.
ContextsStand == \A t \in Turns : turn[t].at = "opened" =>
  /\ IsHistory(turn[t].seen) /\ turn[t].files \in BOOLEAN
  /\ turn[t].context = BuildContext(turn[t].seen, turn[t].files)

\* The newest rows of a thread numbered by their places are in order.
LEMMA TailIsHistory ==
  ASSUME TypeOK, ThreadStands
  PROVE  IsHistory(ContextTail)
  <1> DEFINE n == Len(thread)
             x == n - MaxTail + 1
             from == Max({1, x})
             tail == SubSeq(thread, from, n)
  <1>1. thread \in Seq(Rows) /\ n \in Nat /\ DOMAIN thread = 1..n /\ MaxTail \in Nat
    BY TurnAssumption DEF TypeOK
  <1>2. x \in Int /\ x <= n + 1
    BY <1>1
  <1>3. \E y \in {1, x} : \A z \in {1, x} : y >= z
    BY <1>2
  <1>4. from \in {1, x} /\ \A z \in {1, x} : from >= z
    BY <1>3 DEF Max
  <1>5. from \in 1..(n + 1)
    BY <1>1, <1>2, <1>4
  <1>6. ContextTail = tail
    BY DEF ContextTail
  <1> HIDE DEF x, from
  <1>7. n \in (from - 1)..Len(thread)
    BY <1>1, <1>5
  <1>8. /\ tail \in Seq(Rows) /\ Len(tail) = n - from + 1
        /\ \A i \in 1..(n - from + 1) : tail[i] = thread[from + i - 1]
    BY <1>1, <1>5, <1>7, SubSeqProperties
  <1>9. ASSUME NEW i \in DOMAIN tail, NEW j \in DOMAIN tail, i < j
        PROVE  tail[i].seq < tail[j].seq
    <2>1. i \in 1..(n - from + 1) /\ j \in 1..(n - from + 1)
      BY <1>8
    <2>2. from + i - 1 \in DOMAIN thread /\ from + j - 1 \in DOMAIN thread
      BY <1>1, <1>5, <2>1
    <2>3. thread[from + i - 1].seq = from + i - 1 /\ thread[from + j - 1].seq = from + j - 1
      BY <2>2 DEF ThreadStands
    <2>4. tail[i].seq = from + i - 1 /\ tail[j].seq = from + j - 1
      BY <1>8, <2>1, <2>3
    <2>5. QED
      BY <1>5, <1>9, <2>1, <2>4
  <1>10. QED
    BY <1>6, <1>8, <1>9 DEF IsHistory

\* A turn that goes anywhere else opens none.
LEMMA NoneOpens ==
  ASSUME TypeOK, ContextsStand, NEW t \in Turns, NEW m, turn' = [turn EXCEPT ![t] = m],
         m.at # "opened"
  PROVE  ContextsStand'
  BY OthersWait DEF ContextsStand, IsHistory

LEMMA EndOpensNone ==
  ASSUME TypeOK, ContextsStand, NEW t \in Turns, NEW how \in {"over", "unsaved"}, Finish(t, how)
  PROVE  ContextsStand'
  <1>1. [at |-> how].at # "opened"
    OBVIOUS
  <1>2. QED
    BY <1>1, NoneOpens DEF Finish

LEMMA GotoOpensNone ==
  ASSUME TypeOK, ContextsStand, NEW t \in InFlight, NEW x \in After, Goto(t, x)
  PROVE  ContextsStand'
  <1> DEFINE m == [turn[t] EXCEPT !.at = x]
  <1>1. t \in Turns /\ IsUnderWay(turn[t])
    BY FlightIsUnderWay DEF InFlight
  <1>2. m.at = x /\ x # "opened"
    BY <1>1, FieldsStay DEF After
  <1>3. turn' = [turn EXCEPT ![t] = m]
    BY DEF Goto
  <1> HIDE DEF m
  <1>4. QED
    BY <1>1, <1>2, <1>3, NoneOpens

LEMMA LoopOpensNone ==
  ASSUME TypeOK, ContextsStand, NEW t \in Turns, NEW l, turn[t].at = "loop", LoopBecomes(t, l)
  PROVE  ContextsStand'
  <1> DEFINE to == IF l.at = "end" THEN "reply" ELSE "loop"
             m == [turn[t] EXCEPT !.loop = l, !.at = to]
  <1>1. IsUnderWay(turn[t])
    BY FlightIsUnderWay DEF InFlight, Ended
  <1>2. turn' = [turn EXCEPT ![t] = m]
    BY DEF LoopBecomes
  <1>3. to # "opened"
    OBVIOUS
  <1>4. m = [turn[t] EXCEPT !.loop = l, !.at = to]
    OBVIOUS
  <1> HIDE DEF to, m
  <1>5. m.at = to
    BY <1>1, <1>4 DEF IsUnderWay
  <1>6. QED
    BY <1>2, <1>3, <1>5, NoneOpens

LEMMA LockOpensNone ==
  ASSUME TypeOK, ContextsStand, NEW t \in Turns, NEW from, NEW to,
         <<from, to>> \in {<<"opened", "asking">>, <<"reply", "replying">>}, LockThread(t, from, to)
  PROVE  ContextsStand'
  <1> DEFINE n == NextSeq
             m == [turn[t] EXCEPT !.at = to, !.seq = n]
  <1>1. turn[t].at = from /\ turn' = [turn EXCEPT ![t] = m]
    BY DEF LockThread
  <1> HIDE DEF n
  <1>2. IsUnderWay(turn[t])
    BY <1>1, FlightIsUnderWay DEF InFlight, Ended
  <1>3. to # "opened"
    OBVIOUS
  <1>4. m = [turn[t] EXCEPT !.at = to, !.seq = n]
    OBVIOUS
  <1> HIDE DEF m
  <1>5. m.at = to
    BY <1>2, <1>4 DEF IsUnderWay
  <1>6. QED
    BY <1>1, <1>3, <1>5, NoneOpens

LEMMA OpenBuildsContext ==
  ASSUME TypeOK, ThreadStands, ContextsStand, NEW t \in Turns, NEW want, NEW stream,
         NEW files \in BOOLEAN, OpenTurn(t, want, stream, files)
  PROVE  ContextsStand'
  <1> DEFINE seen == IF session = "live" THEN ContextTail ELSE <<>>
             context == BuildContext(seen, files)
             dept == Resolved(want, session = "live")
             m == [at |-> "opened", stream |-> stream, new |-> ~(session = "live"), files |-> files,
                   dept |-> dept, seen |-> seen, context |-> context, seq |-> 0, loop |-> LoopStart]
  <1>1. turn' = [turn EXCEPT ![t] = m]
    BY DEF OpenTurn, Opened
  <1>2. IsHistory(seen)
    <2>1. IsHistory(<<>>)
      <3>1. <<>> \in Seq(Rows) /\ DOMAIN <<>> = {}
        OBVIOUS
      <3>2. QED
        BY <3>1 DEF IsHistory
    <2>2. QED
      BY <2>1, TailIsHistory
  <1>3. context = BuildContext(seen, files)
    OBVIOUS
  <1> HIDE DEF seen, context, dept
  <1>4. m.seen = seen /\ m.files = files /\ m.context = context
    OBVIOUS
  <1> HIDE DEF m
  <1>5. turn'[t] = m /\ \A u \in Turns \ {t} : turn'[u] = turn[u]
    BY <1>1, OthersWait
  <1>6. QED
    BY <1>2, <1>3, <1>4, <1>5 DEF ContextsStand, IsHistory

LEMMA TurnStepsOpenNone ==
  ASSUME Inv, ContextsStand, NEW t \in Turns, Step(t) \/ McpUnreachable(t) \/ Interrupt(t)
  PROVE  ContextsStand'
  <1> USE DEF Inv
  <1>1. CASE LockThread(t, "opened", "asking") \/ LockThread(t, "reply", "replying")
    BY <1>1, LockOpensNone
  <1>2. CASE CommitQuestion(t)
    BY <1>2, GotoOpensNone, EndOpensNone DEF CommitQuestion, InFlight, Ended, After
  <1>3. CASE \E cost \in Costs : CommitReply(t, cost)
    BY <1>3, EndOpensNone DEF CommitReply
  <1>4. CASE StartStream(t)
    BY <1>4, GotoOpensNone DEF StartStream, InFlight, Ended, After
  <1>5. CASE ModelAnswers(t) \/ ModelErrs(t) \/ CallTool(t)
    BY <1>5, LoopOpensNone DEF ModelAnswers, ModelErrs, CallTool
  <1>6. CASE McpUnreachable(t)
    BY <1>6, EndOpensNone DEF McpUnreachable
  <1>7. CASE Interrupt(t)
    BY <1>7, EndOpensNone, GotoOpensNone DEF Interrupt, InFlight, Ended, After
  <1>8. QED
    BY <1>1, <1>2, <1>3, <1>4, <1>5, <1>6, <1>7 DEF Step

LEMMA ContextsStandNext == Inv /\ ContextsStand /\ [Next]_vars => ContextsStand'
  <1> SUFFICES ASSUME Inv, ContextsStand, [Next]_vars PROVE ContextsStand'
    OBVIOUS
  <1> USE DEF Inv
  <1>1. ASSUME NEW t \in Turns, NEW want \in Depts \cup {NoDept}, NEW stream \in BOOLEAN,
               NEW files \in BOOLEAN, OpenTurn(t, want, stream, files)
        PROVE  ContextsStand'
    BY <1>1, OpenBuildsContext
  <1>2. ASSUME NEW t \in Turns, NEW want \in Depts \cup {NoDept}, RefuseTurn(t, want)
        PROVE  ContextsStand'
    BY <1>2, EndOpensNone DEF RefuseTurn
  <1>3. ASSUME NEW t \in Turns, Step(t) \/ McpUnreachable(t) \/ Interrupt(t)
        PROVE  ContextsStand'
    BY <1>3, TurnStepsOpenNone
  <1>4. CASE UNCHANGED turn
    BY <1>4 DEF ContextsStand, IsHistory
  <1>5. CASE Crash
    <2>1. \A t \in Turns : IF t \in InFlight THEN turn'[t] = [at |-> "over"] ELSE turn'[t] = turn[t]
      BY <1>5, CrashMoves DEF TypeOK
    <2>2. \A t \in Turns : turn'[t].at # "opened"
      BY <2>1 DEF InFlight, Ended
    <2>3. QED
      BY <2>2 DEF ContextsStand
  <1>6. QED
    BY <1>1, <1>2, <1>3, <1>4, <1>5 DEF Next, DeleteSession, ChangeReach, vars

\* Whatever the thread held when a turn was opened, whoever wrote to it since, the
\* model is shown the end of it without a gap, opening with a question and within
\* the budget unless one turn is all there is, with a note exactly when something
\* is missing and the newest files, and no others, marked active.
THEOREM ContextsAreSound == Spec => []ContextIsSound
  <1>1. Init => ContextsStand
    BY DEF Init, NewTurn, ContextsStand
  <1>2. ContextsStand => ContextIsSound
    BY BuildContextIsOwed DEF ContextsStand, ContextIsSound, InFlight
  <1>3. QED
    BY <1>1, <1>2, InvHolds, ContextsStandNext, PTL DEF Spec
=============================================================================
