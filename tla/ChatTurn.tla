------------------------------ MODULE ChatTurn ------------------------------
(***************************************************************************)
(* POST /v1/chat (app/chat/router.py) over one conversation: open_turn     *)
(* (app/history/service.py), the department it is bound to                 *)
(* (app/rag/access.py), the messages the model sees (Context), the agent   *)
(* loop (AgentLoop) and the rows of the thread (app/history/repository.py).*)
(*                                                                         *)
(* Turns are requests of one user that overlap: each is a coroutine with   *)
(* transactions of its own, and the row of the session is locked by        *)
(* add_message from its SELECT ... FOR UPDATE to the commit.  A process    *)
(* may die, a client may go away, the session may be deleted and a grant   *)
(* revoked between any two steps.                                          *)
(***************************************************************************)
EXTENDS Context, AgentLoop

CONSTANTS
  Turns,        \* the turns of a behaviour
  Earlier,      \* threads that were there before, as sequences of rows
  Depts,        \* departments
  QuestionCost, \* estimated tokens of a question
  Costs,        \* estimated tokens an answer may have
  MaxTail,      \* context_max_messages
  MaxCalls,     \* bound on the tool calls of a behaviour
  NoDept, NoTurn

ASSUME TurnAssumption ==
  /\ Costs \subseteq Nat /\ QuestionCost \in Nat
  /\ {MaxTail, MaxCalls} \subseteq Nat
  /\ NoDept \notin Depts /\ NoTurn \notin Turns

\* chat_messages: a row, and a thread as it is found in the table.
Authors == Turns \cup UNION {{rows[i].turn : i \in DOMAIN rows} : rows \in Earlier}
Rows == [seq : Nat, role : {"user", "assistant"}, turn : Authors, files : BOOLEAN, cost : Nat,
         dept : Depts \cup {NoDept}]

IsStored(rows) ==
  /\ rows \in Seq(Rows) /\ rows # <<>>
  /\ \A i \in DOMAIN rows : rows[i].seq = i /\ rows[i].dept = rows[1].dept /\ rows[i].turn \notin Turns
  /\ \A i \in DOMAIN rows : \E j \in DOMAIN rows : rows[j].turn = rows[i].turn /\ rows[j].role = "user"
  /\ \A i, j \in DOMAIN rows : rows[i].turn = rows[j].turn /\ i < j
       => rows[i].role = "user" /\ rows[j].role = "assistant"

ASSUME EarlierAssumption == \A rows \in Earlier : IsStored(rows)

VARIABLES
  session,    \* "none", "live" or "deleted"
  bound,      \* chat_sessions.department_id
  thread,     \* the rows of chat_messages by their seq
  reach,      \* the departments that are active and granted to the user
  lock,       \* the turn whose transaction holds the session's row
  turn,       \* what each turn remembers
  calls       \* tool calls made so far

vars == <<session, bound, thread, reach, lock, turn, calls>>

NewTurn == [at |-> "idle"]
Ended == {"idle", "over", "unsaved"}

InFlight == {t \in Turns : turn[t].at \notin Ended}

Init ==
  /\ \/ session = "none" /\ bound = NoDept /\ thread = <<>>
     \/ session = "live" /\ thread \in Earlier /\ bound = thread[1].dept
  /\ reach \in SUBSET Depts
  /\ lock = NoTurn
  /\ turn = [t \in Turns |-> NewTurn]
  /\ calls = 0

Goto(t, at) == turn' = [turn EXCEPT ![t].at = at]
Finish(t, how) == turn' = [turn EXCEPT ![t] = [at |-> how]]

\* get_context_tail: the newest rows, oldest first.
ContextTail == SubSeq(thread, Max({1, Len(thread) - MaxTail + 1}), Len(thread))

\* coalesce(max(seq), 0) + 1
NextSeq == Max(DOMAIN thread \cup {0}) + 1

(***************************************************************************)
(* resolve_department.  An existing conversation keeps the department it   *)
(* was opened in, whatever the request says; a new one takes the request's.*)
(***************************************************************************)
Resolved(want, existing) ==
  IF existing /\ want = NoDept THEN bound ELSE want

Permitted(want, existing) ==
  LET dept == Resolved(want, existing)
  IN /\ dept = NoDept \/ dept \in reach
     /\ existing => dept = bound

-----------------------------------------------------------------------------
(***************************************************************************)
(* open_turn up to the commit of the user's message.                       *)
(***************************************************************************)

Opened(t, want, stream, files, existing) ==
  LET seen == IF existing THEN ContextTail ELSE <<>>
  IN turn' = [turn EXCEPT ![t] =
       [at |-> "opened", stream |-> stream, new |-> ~existing, files |-> files,
        dept |-> Resolved(want, existing), seen |-> seen, context |-> BuildContext(seen, files),
        seq |-> 0, loop |-> LoopStart]]

\* The session is found, or made but not committed, and the context is read.
OpenTurn(t, want, stream, files) ==
  /\ turn[t].at = "idle"
  /\ \/ session = "live"
     \/ session = "none" /\ \A u \in InFlight : ~turn[u].new
  /\ Permitted(want, session = "live")
  /\ Opened(t, want, stream, files, session = "live")
  /\ UNCHANGED <<session, bound, thread, reach, lock, calls>>

\* 404, 403 or 409: nothing is written.
RefuseTurn(t, want) ==
  /\ turn[t].at = "idle"
  /\ session = "deleted" \/ ~Permitted(want, session = "live")
  /\ Finish(t, "over")
  /\ UNCHANGED <<session, bound, thread, reach, lock, calls>>

\* SELECT ... FOR UPDATE finds the row free; the statement after it reads the
\* number that this message takes.  A session that is gone locks nothing, and
\* one this transaction has just made is seen by no other.
CanLock == lock = NoTurn

LockThread(t, from, to) ==
  /\ turn[t].at = from
  /\ IF session = "live" THEN CanLock /\ lock' = t ELSE UNCHANGED lock
  /\ turn' = [turn EXCEPT ![t].at = to, ![t].seq = NextSeq]
  /\ UNCHANGED <<session, bound, thread, reach, calls>>

Release(t) == lock' = IF lock = t THEN NoTurn ELSE lock

\* Mutant: rows outlive their session.
CanInsertOrphan(t) == turn[t].seq \notin DOMAIN thread

\* The insert meets the foreign key on the session and the unique
\* (session_id, seq).
CanInsert(t) ==
  /\ session = "live" \/ (session = "none" /\ turn[t].new)
  /\ turn[t].seq \notin DOMAIN thread

\* The rows by their number, with one more.
Inserted(m) == [i \in DOMAIN thread \cup {m.seq} |-> IF i = m.seq THEN m ELSE thread[i]]

Question(t) == [seq |-> turn[t].seq, role |-> "user", turn |-> t,
                files |-> turn[t].files, cost |-> QuestionCost, dept |-> turn[t].dept]

\* The insert and the commit; a new session comes to exist with its first row.
CommitQuestion(t) ==
  /\ turn[t].at = "asking"
  /\ Release(t)
  /\ IF CanInsert(t)
     THEN /\ thread' = Inserted(Question(t))
          /\ session' = "live"
          /\ bound' = IF session = "none" THEN turn[t].dept ELSE bound
          /\ Goto(t, IF turn[t].stream THEN "preflight" ELSE "loop")
     ELSE Finish(t, "unsaved") /\ UNCHANGED <<session, bound, thread>>
  /\ UNCHANGED <<reach, calls>>

-----------------------------------------------------------------------------
(***************************************************************************)
(* The run of the agent loop.                                              *)
(***************************************************************************)

\* The MCP server is not there: before the first byte of a stream, or before
\* the loop of a turn that does not stream, the answer is a 502.
McpUnreachable(t) ==
  /\ \/ turn[t].at = "preflight"
     \/ turn[t].at = "loop" /\ turn[t].loop = LoopStart /\ ~turn[t].stream
  /\ Finish(t, "over")
  /\ UNCHANGED <<session, bound, thread, reach, lock, calls>>

StartStream(t) ==
  /\ turn[t].at = "preflight"
  /\ Goto(t, "loop")
  /\ UNCHANGED <<session, bound, thread, reach, lock, calls>>

LoopBecomes(t, l) ==
  /\ turn' = [turn EXCEPT ![t].loop = l, ![t].at = IF l.at = "end" THEN "reply" ELSE @]
  /\ UNCHANGED <<session, bound, thread, reach, lock>>

ModelAnswers(t) ==
  /\ turn[t].at = "loop" /\ turn[t].loop.at = "ask"
  /\ \E asked \in BoundedSeq(Calls, CallsAtOnce) :
       /\ calls + Len(asked) =< MaxCalls
       /\ calls' = calls + Len(asked)
       /\ LoopBecomes(t, Answered(turn[t].loop, asked))

ModelErrs(t) ==
  /\ turn[t].at = "loop" /\ turn[t].loop.at = "ask"
  /\ LoopBecomes(t, ModelFailed(turn[t].loop))
  /\ UNCHANGED calls

CallTool(t) ==
  /\ turn[t].at = "loop" /\ turn[t].loop.at = "calls"
  /\ IF Refused(turn[t].loop)
     THEN LoopBecomes(t, Nudge(turn[t].loop))
     ELSE \/ \E raised \in BOOLEAN : LoopBecomes(t, Dispatched(turn[t].loop, raised))
          \/ LoopBecomes(t, McpLost(turn[t].loop))
  /\ UNCHANGED calls

\* An exception the loop does not turn into an event (the stream of the model
\* breaking off, the MCP handshake failing after the pre-flight), or the client
\* hanging up: a stream still writes its row on the way out, unless the
\* cancellation reaches that too; a turn that does not stream has no such row.
Interrupt(t) ==
  /\ turn[t].at = "loop"
  /\ \/ turn[t].stream /\ Goto(t, "reply")
     \/ Finish(t, "over")
  /\ UNCHANGED <<session, bound, thread, reach, lock, calls>>

Reply(t, cost) == [seq |-> turn[t].seq, role |-> "assistant", turn |-> t,
                   files |-> FALSE, cost |-> cost, dept |-> turn[t].dept]

CommitReply(t, cost) ==
  /\ turn[t].at = "replying"
  /\ Release(t)
  /\ IF CanInsert(t)
     THEN thread' = Inserted(Reply(t, cost)) /\ Finish(t, "over")
     ELSE UNCHANGED thread /\ Finish(t, "unsaved")
  /\ UNCHANGED <<session, bound, reach, calls>>

-----------------------------------------------------------------------------
\* delete_session: the rows go with the session by cascade.
DeleteSession ==
  /\ session = "live" /\ CanLock
  /\ session' = "deleted" /\ thread' = <<>>
  /\ UNCHANGED <<bound, reach, lock, turn, calls>>

\* A grant is given or revoked, a department closed or reopened.
ChangeReach ==
  /\ \E d \in Depts : reach' = IF d \in reach THEN reach \ {d} ELSE reach \cup {d}
  /\ UNCHANGED <<session, bound, thread, lock, turn, calls>>

\* The process dies: its transactions roll back.
Crash ==
  /\ InFlight # {}
  /\ turn' = [t \in Turns |-> IF t \in InFlight THEN [at |-> "over"] ELSE turn[t]]
  /\ lock' = NoTurn
  /\ UNCHANGED <<session, bound, thread, reach, calls>>

Step(t) ==
  \/ LockThread(t, "opened", "asking")
  \/ CommitQuestion(t)
  \/ StartStream(t)
  \/ ModelAnswers(t)
  \/ ModelErrs(t)
  \/ CallTool(t)
  \/ LockThread(t, "reply", "replying")
  \/ \E cost \in Costs : CommitReply(t, cost)

Next ==
  \/ \E t \in Turns :
       \/ \E want \in Depts \cup {NoDept}, stream, files \in BOOLEAN :
            OpenTurn(t, want, stream, files)
       \/ \E want \in Depts \cup {NoDept} : RefuseTurn(t, want)
       \/ Step(t)
       \/ McpUnreachable(t)
       \/ Interrupt(t)
  \/ DeleteSession
  \/ ChangeReach
  \/ Crash

Spec == Init /\ [][Next]_vars

-----------------------------------------------------------------------------
IsUnderWay(q) ==
  q \in [at : {"opened", "asking", "preflight", "loop", "reply", "replying"},
         stream : BOOLEAN, new : BOOLEAN, files : BOOLEAN, dept : Depts \cup {NoDept},
         seen : {q.seen}, context : {q.context}, seq : Nat, loop : LoopRecords]

\* Types: a turn that is over, or not begun, remembers nothing.
TypeOK ==
  /\ session \in {"none", "live", "deleted"}
  /\ bound \in Depts \cup {NoDept}
  /\ thread \in Seq(Rows)
  /\ reach \subseteq Depts
  /\ lock \in Turns \cup {NoTurn}
  /\ calls \in Nat
  /\ DOMAIN turn = Turns
  /\ \A t \in Turns :
       LET q == turn[t] IN
       q \in [at : Ended] \/ IsUnderWay(q)

\* The model sees what the conversation as it was read owes it.
ContextIsSound ==
  \A t \in InFlight :
    turn[t].at = "opened" => ContextOwed(turn[t].seen, turn[t].files, turn[t].context)

\* Every run of the loop answers what the model asks before it asks the model
\* again, and runs no tool twice on the same arguments.
LoopIsSound == \A t \in InFlight : LoopKeepsProtocol(turn[t].loop)

\* The thread is the log its readers are promised, however turns overlap: numbered
\* without gaps, each answer behind its question, all of it scoped to the department
\* the conversation was opened in; and what a turn says is lost only with the
\* session, although nothing retries a failed insert.
Log == INSTANCE ThreadLog
         WITH log <- thread, unsaved <- {t \in Turns : turn[t].at = "unsaved"}
ThreadIsALog == Log!Spec
=============================================================================
