------------------------------ MODULE MCChange ------------------------------
(* ChangeWorkflow with three threads and three ways to use them: "serial",  *)
(* one GUI thread that does everything, with one crash; "team", the agent's *)
(* server and two GUI threads on one change; "crash", the agent's server    *)
(* and one GUI thread on two changes, with one crash.                       *)
EXTENDS ChangeHistory, MCChangeWorkflow

VARIABLE mode

Parties     == {p1, p2, p3}
PartyOf     == p1 :> "mcp" @@ p2 :> "gui" @@ p3 :> "gui"
PartyDuties == p1 :> {"propose", "apply"} @@ p2 :> Operations @@
               p3 :> {"approve", "apply"}

\* What a thread may begin in this mode: other than serially p2 leaves the
\* proposals to the server, and a team works on the first change only, which
\* is alice's: bob and alice differ in nothing.
Allowed(p) ==
  CASE mode = "serial" -> p = p2
    [] mode = "team"   -> TRUE
    [] mode = "crash"  -> p # p3

Proposes(p) ==
  /\ mode = "serial" \/ p = p1
  /\ mode = "team" => ~Exists(1)
  /\ \E u \in IF Exists(1) THEN {"Alice", "bob"} ELSE {"alice", "mcp"}, b \in Bodies :
       /\ mode # "serial" => u \in FewUsers /\ b = "edit"
       /\ Propose(p, u, b)

Operates(p) ==
  \E i \in IF mode = "team" THEN {1} ELSE Ids :
    \/ \E u \in IF mode = "serial" THEN Users ELSE FewUsers :
         Approve(p, i, u) \/ Reject(p, i, u)
    \/ Apply(p, i)
    \/ RollBack(p, i)

MCInit == HistoryInit /\ mode \in {"serial", "team", "crash"}

MCNext ==
  /\ UNCHANGED mode
  /\ \/ \E p \in Procs : (Allowed(p) /\ (Proposes(p) \/ Operates(p))) \/ Step(p)
     \/ mode # "team" /\ \E c \in {"mcp", "gui"} : Crash(c)
  /\ Meets

MCSpec ==
  /\ MCInit /\ [][MCNext]_<<history, mode>>
  /\ \A p \in Procs : WF_<<history, mode>>(UNCHANGED mode /\ Step(p) /\ Meets)
=============================================================================
