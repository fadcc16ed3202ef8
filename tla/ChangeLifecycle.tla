-------------------------- MODULE ChangeLifecycle --------------------------
(***************************************************************************)
(* What the change workflow of ssh-ops-mcp promises its users, without the *)
(* files, threads and devices that carry it out: one status per change, a  *)
(* proposer fixed at creation, an approver fixed by the approval, and a    *)
(* status graph in which every edge is one request of an operator or one   *)
(* answer of the engine.  ChangeWorkflow implements it.                    *)
(***************************************************************************)
CONSTANTS
  Ids,      \* change identifiers
  Users,    \* user names as the portals and the agent spell them
  NoUser,   \* "no name recorded"
  Norm,     \* Norm[u] is the identity behind the spelling u
  Generic   \* identities nobody owns: empty, "agent", "mcp", ...

VARIABLES
  status,    \* status[i], "none" before i is proposed
  proposer,  \* proposer[i] \in Users, NoUser before
  approver   \* approver[i] \in Users once approved, NoUser before

vars == <<status, proposer, approver>>

Status == {"none", "proposed", "approved", "rejected",
           "applying", "applied", "failed", "rolled_back", "lost"}

Init ==
  /\ status   = [i \in Ids |-> "none"]
  /\ proposer = [i \in Ids |-> NoUser]
  /\ approver = [i \in Ids |-> NoUser]

Move(i, from, to) ==
  /\ status[i] \in from
  /\ status' = [status EXCEPT ![i] = to]

\* Only a named person proposes.
Propose(i, u) ==
  /\ Norm[u] \notin Generic
  /\ Move(i, {"none"}, "proposed")
  /\ proposer' = [proposer EXCEPT ![i] = u]
  /\ UNCHANGED approver

\* Four eyes: the approver is not the proposer under another spelling.
Approve(i, u) ==
  /\ Norm[u] # Norm[proposer[i]]
  /\ Move(i, {"proposed"}, "approved")
  /\ approver' = [approver EXCEPT ![i] = u]
  /\ UNCHANGED proposer

Reject(i) ==
  /\ Move(i, {"proposed"}, "rejected")
  /\ UNCHANGED <<proposer, approver>>

Start(i) ==
  /\ Move(i, {"approved"}, "applying")
  /\ UNCHANGED <<proposer, approver>>

Finish(i) ==
  /\ \E outcome \in {"applied", "failed"} : Move(i, {"applying"}, outcome)
  /\ UNCHANGED <<proposer, approver>>

RollBack(i) ==
  /\ \E outcome \in {"rolled_back", "failed"} :
        Move(i, {"applied", "failed"}, outcome)
  /\ UNCHANGED <<proposer, approver>>

\* A crash in the middle of a save destroys the record that was being
\* saved; a lost change never comes back and is never applied.
Lose(i) ==
  /\ Move(i, Status \ {"lost"}, "lost")
  /\ proposer' = [proposer EXCEPT ![i] = NoUser]
  /\ approver' = [approver EXCEPT ![i] = NoUser]

Next ==
  \E i \in Ids :
    \/ \E u \in Users : Propose(i, u) \/ Approve(i, u)
    \/ Reject(i)
    \/ Start(i)
    \/ Finish(i)
    \/ RollBack(i)
    \/ Lose(i)

Spec == Init /\ [][Next]_vars
=============================================================================
