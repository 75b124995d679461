------------------------------ MODULE ThreadLog ------------------------------
(***************************************************************************)
(* What a conversation promises its reader: a log that opens with a        *)
(* question, only grows at its end, numbers its messages 1, 2, 3, ...,     *)
(* answers a question at most once and never before it is asked, keeps to  *)
(* one department, and goes as a whole or not at all.                      *)
(***************************************************************************)
EXTENDS Integers, Sequences

VARIABLES
  log,       \* records with at least [seq, role, turn, dept]
  session,   \* "none", "live" or "deleted"
  unsaved    \* the turns that could not write

Asked(turn) == \E i \in DOMAIN log : log[i].turn = turn /\ log[i].role = "user"
Replied(turn) == \E i \in DOMAIN log : log[i].turn = turn /\ log[i].role = "assistant"

WellFormed ==
  /\ \A i \in DOMAIN log : log[i].seq = i
  /\ \A i, j \in DOMAIN log : log[i].turn = log[j].turn /\ i < j
       => log[i].role = "user" /\ log[j].role = "assistant"
  /\ \A i \in DOMAIN log : Asked(log[i].turn) /\ log[i].dept = log[1].dept

Init ==
  /\ \/ session = "none" /\ log = <<>>
     \/ session = "live" /\ log # <<>> /\ WellFormed
  /\ unsaved = {}

Grows ==
  LET m == log'[Len(log')]
  IN /\ log' = Append(log, m)
     /\ UNCHANGED unsaved
     /\ m.seq = Len(log')
     /\ m.dept = log'[1].dept
     /\ IF m.role = "user" THEN ~Asked(m.turn) ELSE Asked(m.turn) /\ ~Replied(m.turn)

Begin == session = "none" /\ session' = "live" /\ Grows
Grow == session = "live" /\ UNCHANGED session /\ Grows
Delete == session = "live" /\ session' = "deleted" /\ log' = <<>> /\ UNCHANGED unsaved

\* What a turn says is lost only with the session.
Lose == session = "deleted" /\ unsaved \subseteq unsaved' /\ UNCHANGED <<log, session>>

Next == Begin \/ Grow \/ Delete \/ Lose

Spec == Init /\ [][Next]_<<log, session, unsaved>>
=============================================================================
