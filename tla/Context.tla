------------------------------- MODULE Context -------------------------------
(***************************************************************************)
(* Which of a conversation's stored messages the model is shown            *)
(* (app/history/context.py).  A message is a record                         *)
(*   [seq, role, turn, files, cost]                                         *)
(* whose cost is its estimated tokens without the note about its files.    *)
(***************************************************************************)
EXTENDS Integers, Sequences, FiniteSetsExt, SequencesExt

CONSTANTS
  Budget,      \* what budget_for leaves for the history
  NoteCost,    \* estimated tokens of TRUNCATION_NOTE
  FilesCost    \* estimated tokens of the note about one message's files

ASSUME ContextAssumption == {Budget, NoteCost, FilesCost} \subseteq Nat

HasFiles(m) == m.role = "user" /\ m.files

EstimateMessage(m) == m.cost + IF m.files THEN FilesCost ELSE 0

\* The estimate of the messages at the positions kept.
Estimate(rows, kept) ==
  LET upTo[i \in 0..Len(rows)] ==
        IF i = 0 THEN 0
        ELSE upTo[i - 1] + IF i \in kept THEN EstimateMessage(rows[i]) ELSE 0
  IN upTo[Len(rows)]

\* _group_turns: a turn starts at a user message, and wherever the rows start.
GroupHeads(rows) == {i \in DOMAIN rows : i = 1 \/ rows[i].role = "user"}

\* The newest message with files, 0 if there is none.
NewestFiles(rows) == Max({i \in DOMAIN rows : HasFiles(rows[i])} \cup {0})

\* Mutant: the pinned files are not counted.
ReservedNoPin(rows) == NoteCost

\* What the notes that a truncation may add are granted beforehand.
Reserved(rows) == NoteCost + IF NewestFiles(rows) # 0 THEN FilesCost ELSE 0

\* Where the newest groups that fit begin; the last group is kept regardless.
FirstFitting(rows) ==
  LET last == Max(GroupHeads(rows))
      fits(i) == Estimate(rows, i..Len(rows)) =< Budget - Reserved(rows)
  IN Min({i \in GroupHeads(rows) : i = last \/ fits(i)})

\* A kept run never opens with an answer whose question is missing.
SkipOrphan(rows, i) ==
  LET later == {j \in GroupHeads(rows) : j > i}
  IN IF rows[i].role # "user" /\ later # {} THEN Min(later) ELSE i

\* select_turns: the position of the first message kept.
SelectFrom(rows) == SkipOrphan(rows, FirstFitting(rows))

Row(m) == [kind |-> "row", seq |-> m.seq]
FilesNote(m, active) == [kind |-> "files", seq |-> m.seq, active |-> active]
Truncation == [kind |-> "note"]

\* build_context_messages over what select_turns kept: at most one set of
\* files is active, and it is the newest of the whole history.
BuildContext(rows, pending) ==
  LET from == SelectFrom(rows)
      newest == NewestFiles(rows)
      truncated == from > 1
      pinned == truncated /\ newest \in 1..(from - 1)
      activeAt == IF pending \/ pinned \/ newest = 0 THEN 0 ELSE newest
      shown(i) == IF HasFiles(rows[i]) THEN <<FilesNote(rows[i], i = activeAt), Row(rows[i])>>
                                       ELSE <<Row(rows[i])>>
      notes == IF truncated THEN <<Truncation>> ELSE <<>>
      pin == IF pinned /\ ~pending THEN <<FilesNote(rows[newest], TRUE)>> ELSE <<>>
  IN IF rows = <<>> THEN <<>>
     ELSE notes \o pin \o FlattenSeq([k \in 1..(Len(rows) - from + 1) |-> shown(from + k - 1)])

(***************************************************************************)
(* What the model is owed, whatever the history looks like: the end of the *)
(* conversation without a gap and in its order, opening with a question    *)
(* and within the budget unless one turn is all there is, a note exactly   *)
(* when something is missing, and the newest files, and no others, marked  *)
(* active.                                                                 *)
(***************************************************************************)
ContextOwed(rows, pending, ctx) ==
  LET shown == {i \in DOMAIN rows : Row(rows[i]) \in Range(ctx)}
      lone == \A i \in shown : rows[i].role = "user" => i = Min(shown)
      active == {c \in Range(ctx) : c.kind = "files" /\ c.active}
      added == (IF Truncation \in Range(ctx) THEN NoteCost ELSE 0)
               + IF \E c \in active : \A i \in shown : rows[i].seq # c.seq THEN FilesCost ELSE 0
  IN /\ rows # <<>> => shown # {} /\ shown = Min(shown)..Len(rows)
     /\ rows # <<>> => lone \/ rows[Min(shown)].role = "user"
     /\ lone \/ Estimate(rows, shown) + added =< Budget
     /\ Truncation \in Range(ctx) <=> shown # DOMAIN rows
     /\ active = IF pending \/ NewestFiles(rows) = 0 THEN {}
                 ELSE {FilesNote(rows[NewestFiles(rows)], TRUE)}
     /\ \A p \in DOMAIN ctx : ctx[p].kind = "row" =>
          /\ \E i \in shown : ctx[p] = Row(rows[i])
          /\ \A q \in 1..(p - 1) : ctx[q].kind = "row" => ctx[q].seq < ctx[p].seq
=============================================================================
