----------------------------- MODULE MCDebugger -----------------------------
(* The debugger's loop with the keys that steer it, and its views with the *)
(* keys that move them.  The loop reads nothing of a view and a view       *)
(* nothing of the loop, so a behaviour exercises one, and the other stays  *)
(* as it begins.                                                           *)
EXTENDS Debugger, DebuggerView

VARIABLE exercised  \* "loop" or "views"

debugger_vars == <<exercised, vars, view_vars>>

DebuggerInit ==
  /\ exercised \in {"loop", "views"}
  /\ Init /\ ViewInit
  /\ exercised = "views" => play_mode /\ opcode = "legal"

LoopMoves == exercised = "loop" /\ Next /\ UNCHANGED <<exercised, view_vars>>
ViewsMove == exercised = "views" /\ ViewNext /\ UNCHANGED <<exercised, vars>>

DebuggerNext == LoopMoves \/ ViewsMove

\* The loop's FairSpec, and the views'.
DebuggerSpec ==
  DebuggerInit /\ [][DebuggerNext]_debugger_vars /\ WF_debugger_vars(LoopMoves)

\* The flags and counters of the loop, and the positions of its views.
DebuggerTypeOK == TypeOK /\ ViewTypeOK
=============================================================================
