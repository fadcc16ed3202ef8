--------------------------- MODULE ChangeWorkflow ---------------------------
(***************************************************************************)
(* The change workflow of ssh-ops-mcp at the granularity of its file       *)
(* accesses.  A change is one YAML file; the MCP server and the threaded   *)
(* admin GUI are separate processes that read, modify and rewrite the      *)
(* files with no lock between them.                                        *)
(*                                                                         *)
(* A request is a sequence of steps of one process: the read on which it   *)
(* decides, the second read in change_store.update whose fields it merges, *)
(* the truncation and the write of Path.write_text, and the device work of *)
(* apply and rollback, of which only the outcome is kept here.             *)
(***************************************************************************)
EXTENDS Integers

CONSTANTS
  Procs,           \* request threads
  Container,       \* Container[p]: the container p runs in, and dies with
  Duties,          \* Duties[p] \subseteq Operations: what p is asked to do
  MaxId,           \* bound: changes are numbered 1 .. MaxId
  Users, NoUser,   \* names as spelled in requests; the missing name
  PolicyUser,      \* the name change_engine approves under, "policy:auto-allow"
  Norm,            \* strip().lower(), Norm[NoUser] being the empty name
  Generic,         \* forbidden_proposers() and the empty name
  Bodies, NoBody,  \* what a change does to a device (its target); none
  AutoAllowed,     \* bodies whose policy group has access "allow"
  RequireIdentity, \* require_proposer_identity()
  ForbidSelf,      \* forbid_self_approval_enabled()
  MaxCrashes       \* bound on container crashes

Operations == {"propose", "approve", "reject", "apply", "rollback"}
Ids        == 1 .. MaxId
Names      == Users \union {NoUser, PolicyUser}

ASSUME ConstantsOK ==
  /\ MaxId \in Nat \ {0}
  /\ MaxCrashes \in Nat
  /\ Duties \in [Procs -> SUBSET Operations]
  /\ NoUser \notin Users
  /\ PolicyUser # NoUser
  /\ DOMAIN Norm = Names
  /\ Norm[NoUser] \in Generic
  /\ NoBody \notin Bodies
  /\ AutoAllowed \subseteq Bodies
  /\ RequireIdentity \in BOOLEAN
  /\ ForbidSelf \in BOOLEAN

VARIABLES
  files,    \* files[i]: what a reader of change i finds
  proc,     \* proc[p]: the request p is serving
  crashes,  \* container crashes so far
  approvals, \* history: every approval that passed its checks, of what it saw
  pushed    \* history: every body sent to a device by an apply

vars == <<files, proc, crashes, approvals, pushed>>
-----------------------------------------------------------------------------
(* Data                                                                    *)

Written == {"proposed", "approved", "rejected", "applying", "applied",
            "failed", "rolled_back"}
\* "none": no such file.  "empty": the file has no content, load gives {}.
Record == [status      : Written \union {"none", "empty"},
           created_by  : Names,
           approved_by : Names,
           body        : Bodies \union {NoBody}]

Blank(s) == [status |-> s, created_by |-> NoUser,
             approved_by |-> NoUser, body |-> NoBody]

Request == [pc   : {"idle", "merge", "open", "flush", "auto", "push", "undo"},
            goal : Written \union {"none"},   \* the status it will write
            id   : 0 .. MaxId,                \* the change it is about
            dest : 0 .. MaxId + 1,            \* the file it writes
            user : Names,
            seen : Record,                    \* the record it decided on
            buf  : Record]                    \* the record it will write

Req(pc, goal, id, dest, user, seen, buf) ==
  [pc |-> pc, goal |-> goal, id |-> id, dest |-> dest,
   user |-> user, seen |-> seen, buf |-> buf]

\* A request that decided on seen and has not yet built what it writes.
Decided(pc, goal, id, user, seen) ==
  Req(pc, goal, id, 0, user, seen, Blank("none"))

Idle == Decided("idle", "none", 0, NoUser, Blank("none"))

Approval == [id : Ids, body : Bodies \union {NoBody}, owner : Names, by : Names]
Push     == [id : Ids, body : Bodies, owner : Names]

TypeOK ==
  /\ files \in [Ids -> Record]
  /\ proc \in [Procs -> Request]
  /\ crashes \in 0 .. MaxCrashes
  /\ approvals \subseteq Approval
  /\ pushed \subseteq Push

Init ==
  /\ files = [i \in Ids |-> Blank("none")]
  /\ proc = [p \in Procs |-> Idle]
  /\ crashes = 0
  /\ approvals = {}
  /\ pushed = {}
-----------------------------------------------------------------------------
(* Helpers                                                                 *)

Exists(i) == files[i].status # "none"

\* A slip: the largest number itself.
LastId(i) ==
  /\ \A j \in Ids : j > i => ~Exists(j)
  /\ i > 1 => i \in Ids /\ Exists(i)

\* next_id: one more than the largest number among the files.
IsNextId(i) ==
  /\ \A j \in Ids : j >= i => ~Exists(j)
  /\ i > 1 => Exists(i - 1)

\* validate_proposer
ProposerAccepted(u) == RequireIdentity => Norm[u] \notin Generic

\* A slip: the names compared as spelled.
SameSpelling(r, u) ==
  ForbidSelf /\ Norm[r.created_by] \notin Generic /\ r.created_by = u

\* is_self_approval: a generic or empty proposer is nobody's self.
SelfApproval(r, u) ==
  /\ ForbidSelf
  /\ Norm[r.created_by] \notin Generic
  /\ Norm[r.created_by] = Norm[u]

\* assert_can_approve
MayApprove(r, u) == r.status = "proposed" /\ ~SelfApproval(r, u)
MayReject(r)     == r.status = "proposed"
MayApplyPending(r) == r.status \in {"proposed", "approved"}    \* a slip
MayApply(r)      == r.status = "approved"
MayRollBack(r)   == r.status \in {"applied", "failed"}

Asked(p, op) == proc[p].pc = "idle" /\ op \in Duties[p]

Serve(p, request) == proc' = [proc EXCEPT ![p] = request]

\* What an approval by u that passes its checks now is an approval of.
ApprovalBy(i, u) ==
  [id |-> i, body |-> files[i].body, owner |-> files[i].created_by, by |-> u]
-----------------------------------------------------------------------------
(* Requests: the read on which each of them decides                        *)

\* propose_change: the identifier is read off the directory and nothing
\* reserves it until the file is written.
Propose(p, u, b) ==
  /\ Asked(p, "propose")
  /\ ProposerAccepted(u)
  /\ \E i \in Ids :
       /\ IsNextId(i)
       /\ Serve(p, Req("open", "proposed", i, i, u, Blank("none"),
                       [status |-> "proposed", created_by |-> u,
                        approved_by |-> NoUser, body |-> b]))
  /\ UNCHANGED <<files, crashes, approvals, pushed>>

\* approve_change and change_store.approve each load and check the record;
\* the first check can only refuse what the second refuses too, or refuse
\* it earlier, so this is the second one.
Approve(p, i, u) ==
  /\ Asked(p, "approve")
  /\ MayApprove(files[i], u)
  /\ Serve(p, Decided("merge", "approved", i, u, files[i]))
  /\ approvals' = approvals \union {ApprovalBy(i, u)}
  /\ UNCHANGED <<files, crashes, pushed>>

\* reject_change and change_store.reject, likewise.
Reject(p, i, u) ==
  /\ Asked(p, "reject")
  /\ MayReject(files[i])
  /\ Serve(p, Decided("merge", "rejected", i, u, files[i]))
  /\ UNCHANGED <<files, crashes, approvals, pushed>>

\* apply_change keeps the record it loaded: the targets come from it.
Apply(p, i) ==
  /\ Asked(p, "apply")
  /\ MayApply(files[i])
  /\ Serve(p, Decided("merge", "applying", i, NoUser, files[i]))
  /\ UNCHANGED <<files, crashes, approvals, pushed>>

RollBack(p, i) ==
  /\ Asked(p, "rollback")
  /\ MayRollBack(files[i])
  /\ Serve(p, Decided("undo", "none", i, NoUser, files[i]))
  /\ UNCHANGED <<files, crashes, approvals, pushed>>
-----------------------------------------------------------------------------
(* change_store.update and save                                            *)

\* A slip: the arguments of set_status swapped.
WithGoalSwapped(r, goal, u) == [r EXCEPT !.status = u, !.approved_by = u]

WithGoal(r, goal, u) ==
  [status      |-> goal,
   created_by  |-> r.created_by,
   approved_by |-> IF goal = "approved" THEN u ELSE r.approved_by,
   body        |-> r.body]

\* update loads the record again and overlays its fields.  Had another
\* writer just truncated the file, the loaded {} has no "id" and save
\* files the bare fields under a fresh number.
Merge(p) ==
  /\ proc[p].pc = "merge"
  /\ LET r == proc[p]
         now == files[r.id]
     IN \E d \in 1 .. MaxId + 1 :
          /\ IF now.status = "empty" THEN IsNextId(d) ELSE d = r.id
          /\ Serve(p, Req("open", r.goal, r.id, d, r.user, r.seen,
                          WithGoal(now, r.goal, r.user)))
  /\ UNCHANGED <<files, crashes, approvals, pushed>>

\* The number after MaxId stands for all files the bound leaves out.
WriteFile(i, r) ==
  files' = IF i \in Ids THEN [files EXCEPT ![i] = r] ELSE files

\* Path.write_text opens with "w": the file exists and is empty.
Open(p) ==
  /\ proc[p].pc = "open"
  /\ WriteFile(proc[p].dest, Blank("empty"))
  /\ Serve(p, [proc[p] EXCEPT !.pc = "flush"])
  /\ UNCHANGED <<crashes, approvals, pushed>>

\* The content reaches the file; what the handler does next.
Continue(r) ==
  IF r.goal = "proposed" /\ r.buf.body \in AutoAllowed
    THEN Decided("auto", "none", r.id, NoUser, Blank("none"))
  ELSE IF r.goal = "applying"
    THEN Decided("push", "none", r.id, NoUser, r.seen)
  ELSE Idle

Flush(p) ==
  /\ proc[p].pc = "flush"
  /\ WriteFile(proc[p].dest, proc[p].buf)
  /\ Serve(p, Continue(proc[p]))
  /\ UNCHANGED <<crashes, approvals, pushed>>

\* propose_change approves on behalf of the group policy; a denial is
\* swallowed.
AutoApprove(p) ==
  /\ proc[p].pc = "auto"
  /\ LET i == proc[p].id IN
     IF MayApprove(files[i], PolicyUser)
       THEN /\ Serve(p, Decided("merge", "approved", i, PolicyUser, files[i]))
            /\ approvals' = approvals \union {ApprovalBy(i, PolicyUser)}
       ELSE Serve(p, Idle) /\ UNCHANGED approvals
  /\ UNCHANGED <<files, crashes, pushed>>
-----------------------------------------------------------------------------
(* Device work, then the second update of apply and the one of rollback    *)

Finishing(p, outcome) ==
  Serve(p, Decided("merge", outcome, proc[p].id, NoUser, Blank("none")))

\* A slip: a failed target returns without the second set_status.
PushTargetEarlyReturn(p) ==
  /\ proc[p].pc = "push"
  /\ Finishing(p, "applied") \/ Serve(p, Idle)
  /\ UNCHANGED <<files, crashes, approvals, pushed>>

\* A slip: of two requests that apply one change, each waits for the other.
PushTargetWaits(p) ==
  /\ proc[p].pc = "push"
  /\ \A q \in Procs \ {p} : proc[q].pc = "push" => proc[q].id # proc[p].id
  /\ \E outcome \in {"applied", "failed"} : Finishing(p, outcome)
  /\ UNCHANGED <<files, crashes, approvals, pushed>>

\* The target loop of apply_change.  A record without targets succeeds with
\* nothing sent; a backup that fails sends nothing and ends in "failed".
PushTarget(p) ==
  /\ proc[p].pc = "push"
  /\ LET i == proc[p].id
         seen == proc[p].seen
     IN IF seen.body = NoBody
          THEN Finishing(p, "applied") /\ UNCHANGED pushed
          ELSE \/ /\ \E outcome \in {"applied", "failed"} : Finishing(p, outcome)
                  /\ pushed' = pushed \union
                       {[id |-> i, body |-> seen.body, owner |-> seen.created_by]}
               \/ Finishing(p, "failed") /\ UNCHANGED pushed
  /\ UNCHANGED <<files, crashes, approvals>>

\* The target loop of rollback_change.
UndoTarget(p) ==
  /\ proc[p].pc = "undo"
  /\ \/ Finishing(p, "rolled_back")
     \/ proc[p].seen.body # NoBody /\ Finishing(p, "failed")
  /\ UNCHANGED <<files, crashes, approvals, pushed>>

\* A container dies and restarts: its requests are gone, the files stay.
Crash(c) ==
  /\ crashes < MaxCrashes
  /\ \E p \in Procs : Container[p] = c /\ proc[p] # Idle
  /\ crashes' = crashes + 1
  /\ proc' = [p \in Procs |-> IF Container[p] = c THEN Idle ELSE proc[p]]
  /\ UNCHANGED <<files, approvals, pushed>>
-----------------------------------------------------------------------------
Begin(p) ==
  \/ \E u \in Users, b \in Bodies : Propose(p, u, b)
  \/ \E i \in Ids :
       \/ \E u \in Users : Approve(p, i, u) \/ Reject(p, i, u)
       \/ Apply(p, i)
       \/ RollBack(p, i)

Step(p) ==
  \/ Merge(p) \/ Open(p) \/ Flush(p) \/ AutoApprove(p)
  \/ PushTarget(p) \/ UndoTarget(p)

Next ==
  \/ \E p \in Procs : Begin(p) \/ Step(p)
  \/ \E c \in {Container[p] : p \in Procs} : Crash(c)

Spec == Init /\ [][Next]_vars

\* A request once started runs to its end unless its container dies; no
\* operator is obliged to make one.
FairSpec == Spec /\ \A p \in Procs : WF_vars(Step(p))
-----------------------------------------------------------------------------
(* Properties                                                              *)

FourEyes(by, owner) == Norm[by] # Norm[owner] /\ Norm[owner] \notin Generic

\* Somebody other than its proposer approved exactly this change: this
\* number with this body and this proposer.
Reviewed(i, body, owner) ==
  \E a \in approvals :
    /\ a.id = i /\ a.body = body /\ a.owner = owner
    /\ FourEyes(a.by, owner)

\* What an apply sends to a device is what a second person, or the group
\* policy, looked at and approved, whatever the approvals, rejections,
\* applies and rollbacks did to the file in between (change_store.approve,
\* change_engine.apply_change).
PushedAsReviewed == \A x \in pushed : Reviewed(x.id, x.body, x.owner)

\* A record that says "approved" and names a target was reviewed as it
\* stands: the re-read in change_store.update merges the approval into the
\* record the check was made on.
ApprovedAsReviewed ==
  \A i \in Ids :
    files[i].status = "approved" /\ files[i].body # NoBody
      => Reviewed(i, files[i].body, files[i].created_by)

\* Unless a container died, a change with a target that is shown as "applying"
\* is being applied: some request will still write its outcome (apply_change,
\* from its first to its last set_status), however many of them run at once.
ApplyingHasExecutor ==
  \A i \in Ids :
    crashes = 0 /\ files[i].status = "applying" /\ files[i].body # NoBody =>
      \E p \in Procs :
        /\ proc[p].id = i
        /\ \/ proc[p].pc = "push"
           \/ proc[p].goal \in {"applied", "failed", "applying"}

\* Once an apply has marked a change with a target "applying", it does not
\* stay so, unless a container dies: nothing takes up an apply that a crash
\* cut off, nor the bare fields that update filed under a fresh number.
ApplySettles ==
  \A i \in Ids :
    files[i].status = "applying" /\ files[i].body # NoBody
      ~> files[i].status # "applying" \/ crashes > 0

(* The lifecycle this implements while requests do not overlap: a change   *)
(* is what its file says, or what the write under way will make it say.    *)
Writer(i)  == {p \in Procs : proc[p].pc = "flush" /\ proc[p].dest = i}
Current(i) == IF Writer(i) # {} THEN proc[CHOOSE p \in Writer(i) : TRUE].buf
                                ELSE files[i]

Lifecycle ==
  INSTANCE ChangeLifecycle
    WITH Users    <- Users \union {PolicyUser},
         status   <- [i \in Ids |-> IF Current(i).status = "empty" THEN "lost"
                                    ELSE Current(i).status],
         proposer <- [i \in Ids |-> Current(i).created_by],
         approver <- [i \in Ids |-> Current(i).approved_by]
=============================================================================
