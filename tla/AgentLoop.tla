------------------------------ MODULE AgentLoop ------------------------------
(***************************************************************************)
(* One run of the tool-calling loop (app/agent/loop.py) as operators on a  *)
(* record, so that several turns can each hold one.  A requested call is   *)
(* the key of a tool with its arguments, or "unusable": no such tool, or   *)
(* arguments that do not parse.                                            *)
(***************************************************************************)
EXTENDS Integers, Sequences

CONSTANTS
  Keys,          \* (tool, arguments) pairs, as _repeat_key tells them apart
  Iterations,    \* agent_max_iterations
  CallsAtOnce    \* bound on the calls of one assistant message

ASSUME LoopAssumption == {Iterations, CallsAtOnce} \subseteq Nat \ {0}

Calls == Keys \cup {"unusable"}

\* "open" counts the tool calls in the messages that no tool message answers;
\* "ran" is history: how often each key was dispatched.
LoopStart == [at |-> "ask", iteration |-> 1, todo |-> <<>>, open |-> 0,
              cache |-> {}, ran |-> [k \in Keys |-> 0]]

LoopRecords ==
  [at : {"ask", "calls", "end"}, iteration : Nat, todo : Seq(Calls), open : Int,
   cache : SUBSET Keys, ran : [Keys -> Nat]]

\* The done event: what the loop remembered goes with it.
End(l) == [LoopStart EXCEPT !.at = "end"]

\* The end of the loop's body, and the else of the for.
NextIteration(l) ==
  IF l.iteration = Iterations THEN End(l)
  ELSE [l EXCEPT !.iteration = @ + 1, !.at = "ask"]

\* A streamed answer: without tool calls it is final.
Answered(l, calls) ==
  IF calls = <<>> THEN End(l)
  ELSE [l EXCEPT !.at = "calls", !.todo = calls, !.open = Len(calls)]

\* OllamaError ends the run.
ModelFailed(l) == End(l)

\* The tool message of the call at the head of the list.
ToolMessage(l) ==
  LET rest == [l EXCEPT !.todo = Tail(@), !.open = @ - 1]
  IN IF rest.todo = <<>> THEN NextIteration(rest) ELSE rest

\* A call that never reaches a tool is answered all the same: the tool does not
\* exist, the arguments do not parse, or the call repeats an earlier one.
Refused(l) == Head(l.todo) \in {"unusable"} \cup l.cache
Nudge(l) == ToolMessage(l)

\* Mutant: only a result that is not an exception is remembered.
DispatchedForgetful(l, raised) ==
  LET key == Head(l.todo)
  IN ToolMessage([l EXCEPT !.cache = IF raised THEN @ ELSE @ \cup {key}, !.ran[key] = @ + 1])

\* dispatch returned, or raised: both are results, remembered and passed on.
Dispatched(l, raised) ==
  LET key == Head(l.todo)
  IN ToolMessage([l EXCEPT !.cache = @ \cup {key}, !.ran[key] = @ + 1])

\* MCPUnavailableError out of dispatch ends the run.
McpLost(l) == End(l)

(***************************************************************************)
(* The model is asked again only when every call it made has its tool      *)
(* message, and no tool runs twice on the same arguments in one turn.      *)
(***************************************************************************)
LoopKeepsProtocol(l) ==
  /\ l.at = "ask" => l.open = 0
  /\ l.open >= Len(l.todo)
  /\ \A k \in Keys : l.ran[k] =< 1
=============================================================================
