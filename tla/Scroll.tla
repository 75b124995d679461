------------------------------- MODULE Scroll -------------------------------
(***************************************************************************)
(* Paging through the history: GET /v1/sessions, newest first, and GET     *)
(* /v1/sessions/{id}, from the newest message back (app/history/router.py, *)
(* repository.py, cursors.py), while turns write.  A message moves its     *)
(* session to the time at which the transaction that writes it began,      *)
(* which is now() in PostgreSQL.                                           *)
(***************************************************************************)
EXTENDS Integers, FiniteSetsExt, SequencesExt

CONSTANTS
  Sessions,    \* ids, ordered as numbers: those of one user
  Others,      \* the ids of other users
  Writers,     \* turns
  Limit,       \* the page limit the client asks for
  MaxClock,    \* bound on the times of a behaviour
  MaxMessages  \* bound on the messages of a session

NoRow == [updated |-> -1, messages |-> 0]
Gone == [updated |-> -2, messages |-> 0]   \* deleted: ids are not drawn again
Idle == [at |-> "idle"]
NoCursor == [kind |-> "none"]

VARIABLES
  table,    \* chat_sessions: the row of each id, and how many messages it has
  clock,
  writer,   \* the turns under way
  scroll,   \* the client's scroll: where it is, and what it was shown
  start     \* history: the table when the scroll began, and what changed since

vars == <<table, clock, writer, scroll, start>>

Init ==
  /\ table \in [Sessions \cup Others -> {NoRow, [updated |-> 0, messages |-> MaxMessages - 2]}]
  /\ \A id \in Others : table[id] # NoRow
  /\ clock = 1
  /\ writer = [w \in Writers |-> Idle]
  /\ scroll = Idle
  /\ start = [rows |-> table, touched |-> {}]

-----------------------------------------------------------------------------
(* Turns *)

\* The transaction begins: the user is loaded, attachments are summarized.
BeginTurn(w, id) ==
  /\ writer[w] = Idle /\ table[id] # Gone
  /\ table[id] = NoRow => \A v \in Writers : writer[v].at = "open" => writer[v].id # id   \* a new id
  /\ writer' = [writer EXCEPT ![w] = [at |-> "open", id |-> id, now |-> clock]]
  /\ UNCHANGED <<table, clock, scroll, start>>

\* add_message and the commit, where the session is new or still there.
WriteMessage(w) ==
  LET id == writer[w].id
      written == table[id] # Gone
  IN
  /\ writer[w].at = "open"
  /\ table[id].messages < MaxMessages
  /\ writer' = [writer EXCEPT ![w] = [at |-> "over"]]
  /\ IF written
     THEN /\ table' = [table EXCEPT ![id] = [updated |-> writer[w].now, messages |-> @.messages + 1]]
          /\ start' = [start EXCEPT !.touched = @ \cup {id}]
     ELSE UNCHANGED <<table, start>>
  /\ UNCHANGED <<clock, scroll>>

DeleteSession(id) ==
  /\ table[id] \notin {NoRow, Gone}
  /\ table' = [table EXCEPT ![id] = Gone]
  /\ start' = [start EXCEPT !.touched = @ \cup {id}]
  /\ UNCHANGED <<clock, writer, scroll>>

Tick ==
  /\ clock < MaxClock
  /\ clock' = clock + 1
  /\ UNCHANGED <<table, writer, scroll, start>>

-----------------------------------------------------------------------------
(* Pages *)

Later(a, b) == table[a].updated > table[b].updated \/ (table[a].updated = table[b].updated /\ a > b)

\* (updated_at, id) < the cursor
Below(id, cursor) ==
  \/ cursor.kind = "none"
  \/ table[id].updated < cursor.updated
  \/ table[id].updated = cursor.updated /\ id < cursor.id

Owned == {id \in Sessions : table[id] \notin {NoRow, Gone}}

\* As many rows as were shown are skipped.
RowsAfterByCount(cursor) ==
  LET sorted == SetToSortSeq(Owned, Later)
  IN  IF cursor.kind = "none" THEN sorted ELSE SubSeq(sorted, Len(scroll.shown) + 1, Len(sorted))

RowsAfter(cursor) == SetToSortSeq({id \in Owned : Below(id, cursor)}, Later)

\* One row more than the page tells whether there are more.
ListPage ==
  LET rows == RowsAfter(scroll.cursor)
      page == SubSeq(rows, 1, Min({Limit, Len(rows)}))
      last == Last(page)
  IN
  /\ scroll.at = "sessions"
  /\ scroll' = [scroll EXCEPT
       !.at = IF Len(rows) > Limit THEN "sessions" ELSE "done",
       !.cursor = IF Len(rows) > Limit THEN [kind |-> "s", updated |-> table[last].updated, id |-> last] ELSE NoCursor,
       !.shown = @ \o page]
  /\ UNCHANGED <<table, clock, writer, start>>

\* get_thread_page: the session is the user's, or there is no such thing.
FindThread ==
  /\ scroll.at = "thread"
  /\ scroll' = [scroll EXCEPT !.at = IF scroll.id \in Owned THEN "messages" ELSE "404"]
  /\ UNCHANGED <<table, clock, writer, start>>

\* The newest messages below the cursor; they are shown above those before them.
ReadMessages ==
  LET top == IF scroll.cursor = NoCursor THEN table[scroll.id].messages ELSE scroll.cursor.seq - 1
      below == [i \in 1 .. top |-> i]
      more == top > Limit /\ scroll.id \in Owned
      page == IF scroll.id \notin Owned THEN <<>> ELSE SubSeq(below, Max({1, top - Limit + 1}), top)
  IN
  /\ scroll.at = "messages"
  /\ scroll' = [scroll EXCEPT
       !.at = IF more THEN "thread" ELSE "done",
       !.cursor = IF more THEN [kind |-> "m", seq |-> page[1]] ELSE NoCursor,
       !.shown = page \o @]
  /\ UNCHANGED <<table, clock, writer, start>>

StartScroll(what) ==
  /\ scroll = Idle
  /\ scroll' = what @@ [cursor |-> NoCursor, shown |-> <<>>]
  /\ start' = [rows |-> table, touched |-> {}]
  /\ UNCHANGED <<table, clock, writer>>

Next ==
  \/ \E w \in Writers : WriteMessage(w) \/ \E id \in Sessions : BeginTurn(w, id)
  \/ \E id \in Sessions : DeleteSession(id)
  \/ Tick
  \/ StartScroll([at |-> "sessions"])
  \/ \E id \in Sessions \cup Others : StartScroll([at |-> "thread", id |-> id])
  \/ ListPage \/ FindThread \/ ReadMessages

Spec == Init /\ [][Next]_vars

-----------------------------------------------------------------------------
(* Properties *)

Ended(what) == scroll.at = "done" /\ ("id" \in DOMAIN scroll <=> what = "thread")

\* A scroll that has come to its end has shown every session that nothing happened
\* to since it began, once and in its order, and every message that the thread had,
\* once and in order, whatever is written meanwhile; and it never shows what is
\* another user's (history/cursors.py, history/repository.py).
ScrollsAreWhole ==
  /\ Ended("sessions") =>
       LET quiet == {id \in Sessions : start.rows[id] \notin {NoRow, Gone}} \ start.touched
           before(a, b) == \/ start.rows[a].updated > start.rows[b].updated
                           \/ start.rows[a].updated = start.rows[b].updated /\ a > b
       IN  SelectSeq(scroll.shown, LAMBDA id : id \in quiet) = SetToSortSeq(quiet, before)
  /\ Ended("thread") =>
       /\ scroll.id \in Sessions
       /\ scroll.id \notin start.touched => scroll.shown = [i \in 1 .. start.rows[scroll.id].messages |-> i]
       /\ scroll.id \in Owned =>
            \E n \in start.rows[scroll.id].messages .. MaxMessages : scroll.shown = [i \in 1 .. n |-> i]
=============================================================================
