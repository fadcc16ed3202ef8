-------------------------- MODULE MCChangeWorkflow --------------------------
(* Small instances of ChangeWorkflow: alice under two spellings, bob, and *)
(* the agent's generic name; one ordinary body and one whose policy group  *)
(* is always allowed.                                                      *)
EXTENDS ChangeWorkflow, TLC

CONSTANTS p1, p2, p3

MCUsers == {"alice", "Alice", "bob", "mcp"}
FewUsers == {"alice", "bob"}

MCNorm ==
  "alice" :> "alice" @@ "Alice" :> "alice" @@ "bob" :> "bob" @@
  "mcp" :> "mcp" @@ "" :> "" @@ "policy:auto-allow" :> "policy:auto-allow"
FewNorm == [u \in FewUsers \union {"", "policy:auto-allow"} |-> MCNorm[u]]

MCGeneric == {"", "agent", "mcp", "system", "unknown", "gui-operator"}

\* Two threads: the agent's server and one GUI thread.
PairProcs     == {p1, p2}
PairContainer == p1 :> "mcp" @@ p2 :> "gui"
\* Proposals from the agent and from the GUI's own form at the same time.
ProposersDuties == p1 :> {"propose", "apply"} @@ p2 :> {"propose", "approve"}
=============================================================================
