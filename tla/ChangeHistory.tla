---------------------------- MODULE ChangeHistory ----------------------------
(* ChangeWorkflow with a history of its threads: what is promised of        *)
(* requests that come one after the other is promised until two of them     *)
(* overlap for the first time.                                              *)
EXTENDS ChangeWorkflow

VARIABLE met  \* history: two requests have been under way at once

Alone(p) == \A q \in Procs \ {p} : proc[q].pc = "idle"

\* One request at a time, of whichever thread.
Serial == \A p \in Procs : proc[p].pc = "idle" \/ Alone(p)

history == <<vars, met>>

\* The part of a step that records an overlap.
Meets == met' = (met \/ ~Serial')

HistoryInit == Init /\ met = FALSE
HistoryNext == Next /\ Meets
History == HistoryInit /\ [][HistoryNext]_history
-----------------------------------------------------------------------------
\* Until two requests overlap, a change moves only along the edges of
\* ChangeLifecycle and keeps its four-eyes rule, with a crash between any two
\* steps (change_store, change_approval, change_engine).
LifecycleWhenSerial ==
  /\ Lifecycle!Init
  /\ [][~met' => Lifecycle!Next]_(Lifecycle!vars)
=============================================================================
