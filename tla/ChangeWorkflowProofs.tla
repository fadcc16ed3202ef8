------------------------ MODULE ChangeWorkflowProofs ------------------------
(***************************************************************************)
(* Proofs about ChangeWorkflow, for any number of threads, containers,     *)
(* users, changes and crashes.                                             *)
(***************************************************************************)
EXTENDS ChangeHistory, TLAPS

-----------------------------------------------------------------------------
(* Type correctness                                                        *)

\* TypeOK is inductive together with: a request under way names a change,
\* one that will write knows the status it writes, one that writes has
\* chosen a file.
Addressed ==
  \A p \in Procs :
    /\ proc[p].pc # "idle" => proc[p].id \in Ids
    /\ proc[p].pc = "merge" => proc[p].goal \in Written
    /\ proc[p].pc \in {"open", "flush"} => proc[p].dest \in 1 .. MaxId + 1

TypeInv == TypeOK /\ Addressed

LEMMA BlankType == \A s \in {"none", "empty"} : Blank(s) \in Record
  BY DEF Blank, Record, Names, Written

LEMMA ReqType ==
  ASSUME NEW pc \in {"idle", "merge", "open", "flush", "auto", "push", "undo"},
         NEW goal \in Written \union {"none"}, NEW i \in 0 .. MaxId,
         NEW d \in 0 .. MaxId + 1, NEW u \in Names,
         NEW seen \in Record, NEW buf \in Record
  PROVE  Req(pc, goal, i, d, u, seen, buf) \in Request
  BY DEF Req, Request

LEMMA DecidedType ==
  ASSUME NEW pc \in {"idle", "merge", "auto", "push", "undo"},
         NEW goal \in Written \union {"none"}, NEW i \in 0 .. MaxId,
         NEW u \in Names, NEW seen \in Record
  PROVE  Decided(pc, goal, i, u, seen) \in Request
  <1>1. 0 \in 0 .. MaxId + 1
    BY ConstantsOK
  <1>2. QED
    BY <1>1, BlankType, ReqType DEF Decided

LEMMA IdleType == Idle \in Request
  BY ConstantsOK, BlankType, DecidedType DEF Idle, Names

\* Serving a request keeps the rest of proc as it is.
LEMMA ServeType ==
  ASSUME TypeInv, NEW p \in Procs, NEW r \in Request, Serve(p, r),
         r.pc # "idle" => r.id \in Ids,
         r.pc = "merge" => r.goal \in Written,
         r.pc \in {"open", "flush"} => r.dest \in 1 .. MaxId + 1
  PROVE  proc' \in [Procs -> Request] /\ Addressed'
  BY DEF TypeInv, TypeOK, Addressed, Serve

LEMMA ServeDecided ==
  ASSUME TypeInv, NEW p \in Procs,
         NEW pc \in {"merge", "auto", "push", "undo"},
         NEW goal \in Written \union {"none"}, NEW i \in Ids,
         NEW u \in Names, NEW seen \in Record,
         pc = "merge" => goal \in Written,
         Serve(p, Decided(pc, goal, i, u, seen))
  PROVE  proc' \in [Procs -> Request] /\ Addressed'
  <1> DEFINE r == Decided(pc, goal, i, u, seen)
  <1>1. r \in Request
    BY ConstantsOK, DecidedType DEF Ids
  <1>2. r.pc = pc /\ r.id = i /\ r.goal = goal
    BY DEF Decided, Req
  <1>3. QED
    BY <1>1, <1>2, ServeType

LEMMA ServeIdle ==
  ASSUME TypeInv, NEW p \in Procs, Serve(p, Idle)
  PROVE  proc' \in [Procs -> Request] /\ Addressed'
  <1>1. Idle.pc = "idle"
    BY DEF Idle, Decided, Req
  <1>2. QED
    BY <1>1, IdleType, ServeType

LEMMA WithGoalType ==
  ASSUME NEW r \in Record, NEW goal \in Written, NEW u \in Names
  PROVE  WithGoal(r, goal, u) \in Record
  BY DEF WithGoal, Record

LEMMA WriteType ==
  ASSUME TypeInv, NEW i \in 1 .. MaxId + 1, NEW r \in Record, WriteFile(i, r)
  PROVE  files' \in [Ids -> Record]
  BY DEF TypeInv, TypeOK, WriteFile

\* An approval recorded now is one of what the file says now.
LEMMA ApprovalType ==
  ASSUME TypeInv, NEW i \in Ids, NEW u \in Names
  PROVE  ApprovalBy(i, u) \in Approval
  <1>1. files[i] \in Record
    BY DEF TypeInv, TypeOK
  <1>2. QED
    BY <1>1 DEF ApprovalBy, Approval, Record

LEMMA TypeInit == Init => TypeInv
  <1> SUFFICES ASSUME Init PROVE TypeInv
    OBVIOUS
  <1>1. files \in [Ids -> Record]
    BY BlankType DEF Init
  <1>2. proc \in [Procs -> Request] /\ Addressed
    BY IdleType DEF Init, Addressed, Idle, Decided, Req
  <1>3. crashes \in 0 .. MaxCrashes
    BY ConstantsOK DEF Init
  <1>4. QED
    BY <1>1, <1>2, <1>3 DEF Init, TypeInv, TypeOK

LEMMA TypeNext == TypeInv /\ [Next]_vars => TypeInv'
  <1> SUFFICES ASSUME TypeInv, [Next]_vars PROVE TypeInv'
    OBVIOUS
  <1>files. \A i \in Ids : files[i] \in Record
    BY DEF TypeInv, TypeOK
  <1>proc. \A p \in Procs : proc[p] \in Request
    BY DEF TypeInv, TypeOK
  <1>names. Users \subseteq Names /\ NoUser \in Names /\ PolicyUser \in Names
    BY DEF Names
  <1>ids. Ids \subseteq 0 .. MaxId /\ Ids \subseteq 1 .. MaxId + 1
    BY ConstantsOK DEF Ids
  <1>1. ASSUME NEW p \in Procs, NEW u \in Users, NEW b \in Bodies, Propose(p, u, b)
        PROVE  TypeInv'
    <2> DEFINE buf == [status |-> "proposed", created_by |-> u,
                       approved_by |-> NoUser, body |-> b]
               req(i) == Req("open", "proposed", i, i, u, Blank("none"), buf)
    <2>1. PICK i \in Ids : Serve(p, req(i))
      BY <1>1 DEF Propose
    <2>2. buf \in Record
      BY <1>names DEF Record, Written
    <2>3. req(i) \in Request
      <3>1. i \in 0 .. MaxId /\ i \in 0 .. MaxId + 1
        BY ConstantsOK DEF Ids
      <3>2. QED
        BY <1>names, <2>2, <3>1, BlankType, ReqType DEF Written
    <2>4. /\ req(i).pc = "open" /\ req(i).id \in Ids
          /\ req(i).dest \in 1 .. MaxId + 1
      BY <1>ids DEF Req
    <2> HIDE DEF buf, req
    <2>5. proc' \in [Procs -> Request] /\ Addressed'
      BY <2>1, <2>3, <2>4, ServeType
    <2>6. QED
      BY <1>1, <2>5 DEF Propose, TypeInv, TypeOK
  <1>2. ASSUME NEW p \in Procs, NEW i \in Ids, NEW u \in Users, Approve(p, i, u)
        PROVE  TypeInv'
    <2>1. proc' \in [Procs -> Request] /\ Addressed'
      BY <1>2, <1>files, <1>names, ServeDecided DEF Approve, Written
    <2>2. approvals' \subseteq Approval
      BY <1>2, <1>names, ApprovalType DEF Approve, TypeInv, TypeOK
    <2>3. QED
      BY <1>2, <2>1, <2>2 DEF Approve, TypeInv, TypeOK
  <1>3. ASSUME NEW p \in Procs, NEW i \in Ids, NEW u \in Users, Reject(p, i, u)
        PROVE  TypeInv'
    <2>1. proc' \in [Procs -> Request] /\ Addressed'
      BY <1>3, <1>files, <1>names, ServeDecided DEF Reject, Written
    <2>2. QED
      BY <1>3, <2>1 DEF Reject, TypeInv, TypeOK
  <1>4. ASSUME NEW p \in Procs, NEW i \in Ids, Apply(p, i)
        PROVE  TypeInv'
    <2>1. proc' \in [Procs -> Request] /\ Addressed'
      BY <1>4, <1>files, <1>names, ServeDecided DEF Apply, Written
    <2>2. QED
      BY <1>4, <2>1 DEF Apply, TypeInv, TypeOK
  <1>5. ASSUME NEW p \in Procs, NEW i \in Ids, RollBack(p, i)
        PROVE  TypeInv'
    <2>1. proc' \in [Procs -> Request] /\ Addressed'
      BY <1>5, <1>files, <1>names, ServeDecided DEF RollBack
    <2>2. QED
      BY <1>5, <2>1 DEF RollBack, TypeInv, TypeOK
  <1>6. ASSUME NEW p \in Procs, Merge(p)
        PROVE  TypeInv'
    <2> DEFINE r == proc[p]
               buf == WithGoal(files[r.id], r.goal, r.user)
               req(d) == Req("open", r.goal, r.id, d, r.user, r.seen, buf)
    <2>1. PICK d \in 1 .. MaxId + 1 : Serve(p, req(d))
      BY <1>6 DEF Merge
    <2>2. /\ r.id \in Ids /\ r.goal \in Written
          /\ r.user \in Names /\ r.seen \in Record
      BY <1>6, <1>proc DEF Merge, TypeInv, Addressed, Request
    <2>3. buf \in Record
      BY <2>2, <1>files, WithGoalType
    <2>4. req(d) \in Request
      <3>1. d \in 0 .. MaxId + 1
        BY ConstantsOK
      <3> HIDE DEF r, buf
      <3>2. QED
        BY <1>ids, <2>2, <2>3, <3>1, ReqType
    <2>5. /\ req(d).pc = "open" /\ req(d).id = r.id
          /\ req(d).dest \in 1 .. MaxId + 1
      BY DEF Req
    <2> HIDE DEF r, buf, req
    <2>6. proc' \in [Procs -> Request] /\ Addressed'
      BY <2>1, <2>2, <2>4, <2>5, ServeType
    <2>7. QED
      BY <1>6, <2>6 DEF Merge, TypeInv, TypeOK
  <1>7. ASSUME NEW p \in Procs, Open(p)
        PROVE  TypeInv'
    <2> DEFINE req == [proc[p] EXCEPT !.pc = "flush"]
    <2>1. proc[p].dest \in 1 .. MaxId + 1 /\ proc[p].id \in Ids
      BY <1>7 DEF Open, TypeInv, Addressed
    <2>2. req \in Request /\ req.pc = "flush" /\ req.id \in Ids
            /\ req.dest \in 1 .. MaxId + 1
      BY <1>proc, <2>1 DEF Request
    <2>3. Serve(p, req)
      BY <1>7 DEF Open
    <2> HIDE DEF req
    <2>4. proc' \in [Procs -> Request] /\ Addressed'
      BY <2>2, <2>3, ServeType
    <2>5. files' \in [Ids -> Record]
      BY <1>7, <2>1, BlankType, WriteType DEF Open
    <2>6. QED
      BY <1>7, <2>4, <2>5 DEF Open, TypeInv, TypeOK
  <1>8. ASSUME NEW p \in Procs, Flush(p)
        PROVE  TypeInv'
    <2>1. /\ proc[p].dest \in 1 .. MaxId + 1 /\ proc[p].id \in Ids
          /\ proc[p].buf \in Record /\ proc[p].seen \in Record
      BY <1>8, <1>proc DEF Flush, TypeInv, Addressed, Request
    <2>2. proc' \in [Procs -> Request] /\ Addressed'
      <3>1. CASE Continue(proc[p])
                   = Decided("auto", "none", proc[p].id, NoUser, Blank("none"))
        BY <1>8, <1>names, <2>1, <3>1, BlankType, ServeDecided DEF Flush
      <3>2. CASE Continue(proc[p])
                   = Decided("push", "none", proc[p].id, NoUser, proc[p].seen)
        BY <1>8, <1>names, <2>1, <3>2, ServeDecided DEF Flush
      <3>3. CASE Continue(proc[p]) = Idle
        BY <1>8, <3>3, ServeIdle DEF Flush
      <3>4. QED
        BY <3>1, <3>2, <3>3 DEF Continue
    <2>3. files' \in [Ids -> Record]
      BY <1>8, <2>1, WriteType DEF Flush
    <2>4. QED
      BY <1>8, <2>2, <2>3 DEF Flush, TypeInv, TypeOK
  <1>9. ASSUME NEW p \in Procs, AutoApprove(p)
        PROVE  TypeInv'
    <2> DEFINE i == proc[p].id
    <2>1. i \in Ids
      BY <1>9 DEF AutoApprove, TypeInv, Addressed
    <2>2. CASE /\ Serve(p, Decided("merge", "approved", i, PolicyUser, files[i]))
               /\ approvals' = approvals \union {ApprovalBy(i, PolicyUser)}
      <3>1. proc' \in [Procs -> Request] /\ Addressed'
        BY <2>1, <2>2, <1>files, <1>names, ServeDecided DEF Written
      <3>2. approvals' \subseteq Approval
        BY <2>1, <2>2, <1>names, ApprovalType DEF TypeInv, TypeOK
      <3>3. QED
        BY <1>9, <3>1, <3>2 DEF AutoApprove, TypeInv, TypeOK
    <2>3. CASE Serve(p, Idle) /\ UNCHANGED approvals
      BY <1>9, <2>3, ServeIdle DEF AutoApprove, TypeInv, TypeOK
    <2>4. QED
      BY <1>9, <2>2, <2>3 DEF AutoApprove
  <1>10. ASSUME NEW p \in Procs, PushTarget(p)
        PROVE  TypeInv'
    <2>1. proc[p].id \in Ids /\ proc[p].seen \in Record
      BY <1>10, <1>proc DEF PushTarget, TypeInv, Addressed, Request
    <2>2. \E outcome \in {"applied", "failed"} : Finishing(p, outcome)
      BY <1>10 DEF PushTarget
    <2>3. proc' \in [Procs -> Request] /\ Addressed'
      BY <1>names, <2>1, <2>2, BlankType, ServeDecided DEF Finishing, Written
    <2>4. pushed' \subseteq Push
      BY <1>10, <2>1 DEF PushTarget, TypeInv, TypeOK, Push, Record
    <2>5. QED
      BY <1>10, <2>3, <2>4 DEF PushTarget, TypeInv, TypeOK
  <1>11. ASSUME NEW p \in Procs, UndoTarget(p)
        PROVE  TypeInv'
    <2>1. proc[p].id \in Ids
      BY <1>11 DEF UndoTarget, TypeInv, Addressed
    <2>2. \E outcome \in {"rolled_back", "failed"} : Finishing(p, outcome)
      BY <1>11 DEF UndoTarget
    <2>3. proc' \in [Procs -> Request] /\ Addressed'
      BY <1>names, <2>1, <2>2, BlankType, ServeDecided DEF Finishing, Written
    <2>4. QED
      BY <1>11, <2>3 DEF UndoTarget, TypeInv, TypeOK
  <1>12. ASSUME NEW c, Crash(c)
        PROVE  TypeInv'
    <2>1. proc' \in [Procs -> Request]
      BY <1>12, IdleType DEF Crash, TypeInv, TypeOK
    <2>2. Addressed'
      BY <1>12 DEF Crash, TypeInv, TypeOK, Addressed, Idle, Decided, Req
    <2>3. crashes' \in 0 .. MaxCrashes
      BY <1>12, ConstantsOK DEF Crash, TypeInv, TypeOK
    <2>4. QED
      BY <1>12, <2>1, <2>2, <2>3 DEF Crash, TypeInv, TypeOK
  <1>13. CASE UNCHANGED vars
    BY <1>13 DEF vars, TypeInv, TypeOK, Addressed
  <1>14. QED
    BY <1>1, <1>2, <1>3, <1>4, <1>5, <1>6, <1>7, <1>8, <1>9, <1>10, <1>11,
       <1>12, <1>13 DEF Next, Begin, Step

\* The variables keep their types, whatever the interleaving and the crashes.
THEOREM TypeCorrect == Spec => []TypeOK
  <1>1. Spec => []TypeInv
    BY TypeInit, TypeNext, PTL DEF Spec
  <1>2. TypeInv => TypeOK
    BY DEF TypeInv
  <1>3. QED
    BY <1>1, <1>2, PTL

-----------------------------------------------------------------------------
(* Reviewed content                                                        *)

\* Two threads never number proposals at once: at most one of them proposes.
OneProposer ==
  \A p, q \in Procs :
    "propose" \in Duties[p] /\ "propose" \in Duties[q] => p = q

\* The settings under which the workflow promises four eyes.
FourEyesSettings == RequireIdentity /\ ForbidSelf

Writing(r)       == r.pc \in {"open", "flush"}
Approving(r)     == r.pc = "merge" /\ r.goal = "approved"
Bodied(x)        == x.body # NoBody
SameChange(x, y) == x.body = y.body /\ x.created_by = y.created_by
ReviewedAs(i, x) == Bodied(x) => Reviewed(i, x.body, x.created_by)

\* A pending proposal has content and names its proposer.
Complete(x) ==
  x.status = "proposed" => Bodied(x) /\ Norm[x.created_by] \notin Generic

\* An absent or truncated file has no content.
FilesOK ==
  \A i \in Ids :
    /\ files[i].status \in {"none", "empty"} => ~Bodied(files[i])
    /\ files[i].status = "approved" => ReviewedAs(i, files[i])
    /\ Complete(files[i])

\* A request is about a change that is there; what it writes is what was
\* asked for; content goes into the file it came from.
RequestOK(p, r) ==
  /\ r.pc \notin {"idle", "open", "flush"} => Exists(r.id)
  /\ r.pc = "merge" => r.goal # "proposed"
  /\ r.pc \notin {"merge", "open", "flush"} => r.goal = "none"
  /\ r.goal = "proposed" => "propose" \in Duties[p] /\ r.dest = r.id
  /\ Writing(r) =>
       /\ r.goal \in Written
       /\ r.buf.status = r.goal
       /\ Complete(r.buf)
       /\ r.goal # "proposed" => Exists(r.id)
  /\ Bodied(r.buf) => Writing(r) /\ r.dest = r.id

\* The review behind every step of a request from an approval to a device.
TrailOK(r) ==
  /\ Approving(r) => Bodied(r.seen) /\ ReviewedAs(r.id, r.seen)
  /\ Writing(r) /\ r.goal = "approved" => ReviewedAs(r.id, r.buf)
  /\ r.goal = "applying" \/ r.pc = "push" => ReviewedAs(r.id, r.seen)

RequestsOK == \A p \in Procs : RequestOK(p, proc[p]) /\ TrailOK(proc[p])

\* The records that are, or are about to become, or were judged to be,
\* change i.
Versions(i) ==
  {files[i]}
    \union {proc[p].buf : p \in {q \in Procs : Writing(proc[q]) /\ proc[q].dest = i}}
    \union {proc[p].seen : p \in {q \in Procs : Approving(proc[q]) /\ proc[q].id = i}}

\* Nothing ever replaces the content of a change by other content.
OneContent ==
  \A i \in Ids : \A x, y \in Versions(i) :
    Bodied(x) /\ Bodied(y) => SameChange(x, y)

ReviewInv == TypeInv /\ FilesOK /\ RequestsOK /\ OneContent /\ PushedAsReviewed

-----------------------------------------------------------------------------
(* How the parts of ReviewInv survive a step                               *)

LEMMA BlankEmpty == \A st : ~Bodied(Blank(st)) /\ Blank(st).status = st
  BY DEF Blank, Bodied

LEMMA DecidedFields ==
  ASSUME NEW pc, NEW goal, NEW i, NEW u, NEW seen
  PROVE  LET r == Decided(pc, goal, i, u, seen)
         IN  /\ r.pc = pc /\ r.goal = goal /\ r.id = i /\ r.seen = seen
             /\ r.dest = 0 /\ ~Bodied(r.buf)
  BY BlankEmpty DEF Decided, Req

\* Approvals are never withdrawn.
LEMMA ReviewedStays ==
  ASSUME approvals \subseteq approvals', NEW i, NEW x, ReviewedAs(i, x)
  PROVE  ReviewedAs(i, x)'
  BY DEF ReviewedAs, Reviewed

\* Content that comes from content of the same change is one content.
LEMMA Inherit ==
  ASSUME OneContent,
         \A i \in Ids : \A x \in Versions(i)' :
           Bodied(x) => \E y \in Versions(i) : Bodied(y) /\ SameChange(x, y)
  PROVE  OneContent'
  BY DEF OneContent, SameChange, Bodied

\* Where the versions of a change come from when p's request becomes r.
LEMMA VersionsServe ==
  ASSUME TypeInv, NEW p \in Procs, NEW r, Serve(p, r), NEW i \in Ids,
         NEW x \in Versions(i)'
  PROVE  \/ x = files'[i]
         \/ \E y \in Versions(i) : x = y
         \/ Writing(r) /\ r.dest = i /\ x = r.buf
         \/ Approving(r) /\ r.id = i /\ x = r.seen
  <1>1. \A q \in Procs : proc'[q] = IF q = p THEN r ELSE proc[q]
    BY DEF Serve, TypeInv, TypeOK
  <1>2. CASE x = files'[i]
    BY <1>2
  <1>3. ASSUME NEW q \in Procs, Writing(proc[q])', (proc[q].dest)' = i,
               x = (proc[q].buf)'
        PROVE  \/ \E y \in Versions(i) : x = y
               \/ Writing(r) /\ r.dest = i /\ x = r.buf
    BY <1>1, <1>3 DEF Versions, Writing
  <1>4. ASSUME NEW q \in Procs, Approving(proc[q])', (proc[q].id)' = i,
               x = (proc[q].seen)'
        PROVE  \/ \E y \in Versions(i) : x = y
               \/ Approving(r) /\ r.id = i /\ x = r.seen
    BY <1>1, <1>4 DEF Versions, Approving
  <1>5. QED
    BY <1>2, <1>3, <1>4 DEF Versions

\* The other requests stay as they are when files only appear.
LEMMA RequestsServe ==
  ASSUME TypeInv, RequestsOK, NEW p \in Procs, NEW r, Serve(p, r),
         approvals \subseteq approvals',
         \A i \in Ids : Exists(i) => Exists(i)',
         RequestOK(p, r)', TrailOK(r)'
  PROVE  RequestsOK'
  <1>1. \A q \in Procs : proc'[q] = IF q = p THEN r ELSE proc[q]
    BY DEF Serve, TypeInv, TypeOK
  <1>2. ASSUME NEW q \in Procs
        PROVE  RequestOK(q, proc[q])' /\ TrailOK(proc[q])'
    <2>1. CASE q = p
      BY <1>1, <2>1 DEF RequestOK, TrailOK, Exists, Writing, Bodied, Complete,
                        Approving, ReviewedAs, Reviewed
    <2>2. CASE q # p
      <3>1. proc'[q] = proc[q] /\ RequestOK(q, proc[q]) /\ TrailOK(proc[q])
        BY <1>1, <2>2 DEF RequestsOK
      <3>2. RequestOK(q, proc[q])'
        <4>1. proc[q].pc # "idle" => proc[q].id \in Ids
          BY DEF TypeInv, Addressed
        <4>2. QED
          BY <3>1, <4>1 DEF RequestOK, Writing, Bodied, Complete
      <3>3. TrailOK(proc[q])'
        BY <3>1, ReviewedStays DEF TrailOK, Writing, Approving, Bodied
      <3>4. QED
        BY <3>2, <3>3
    <2>3. QED
      BY <2>1, <2>2
  <1>3. QED
    BY <1>2 DEF RequestsOK

\* A step that leaves the files alone and makes p's request one that has only
\* decided: every request but a proposal, and every outcome of device work.
LEMMA DecidedReview ==
  ASSUME ReviewInv, TypeInv', NEW p \in Procs, NEW pc, NEW goal, NEW i \in Ids,
         NEW u, NEW seen, Serve(p, Decided(pc, goal, i, u, seen)),
         UNCHANGED files, approvals \subseteq approvals', Exists(i),
         pc \in {"merge", "undo"},
         IF pc = "merge" THEN goal # "proposed" ELSE goal = "none",
         goal = "approved" => seen = files[i] /\ Bodied(seen) /\ ReviewedAs(i, seen)',
         goal = "applying" => ReviewedAs(i, seen)',
         PushedAsReviewed'
  PROVE  ReviewInv'
  <1> DEFINE r == Decided(pc, goal, i, u, seen)
  <1>1. /\ r.pc = pc /\ r.goal = goal /\ r.id = i /\ r.seen = seen
        /\ ~Bodied(r.buf) /\ ~Writing(r)
    BY DecidedFields DEF Writing
  <1>2. Serve(p, r)
    OBVIOUS
  <1> HIDE DEF r
  <1>3. FilesOK'
    BY ReviewedStays DEF ReviewInv, FilesOK, Complete, Bodied
  <1>4. RequestsOK'
    <2>1. RequestOK(p, r)'
      BY <1>1 DEF RequestOK, Exists, Writing, Bodied
    <2>2. TrailOK(r)'
      BY <1>1 DEF TrailOK, Approving, Writing, Bodied
    <2>3. QED
      BY <1>2, <2>1, <2>2, RequestsServe DEF ReviewInv, Exists
  <1>5. OneContent'
    <2>1. ASSUME NEW j \in Ids, NEW x \in Versions(j)'
          PROVE  x \in Versions(j)
      <3>1. files[j] \in Versions(j)
        BY DEF Versions
      <3>2. Approving(r) /\ r.id = j /\ x = r.seen => x = files[j]
        BY <1>1 DEF Approving
      <3>3. QED
        BY <1>1, <1>2, <3>1, <3>2, VersionsServe DEF ReviewInv
    <2>2. QED
      BY <2>1, Inherit DEF ReviewInv, SameChange
  <1>6. QED
    BY <1>3, <1>4, <1>5 DEF ReviewInv

\* Requests that end, or die, take nothing along that is still needed.
LEMMA IdleReview ==
  ASSUME ReviewInv, TypeInv', UNCHANGED files, approvals \subseteq approvals',
         PushedAsReviewed',
         \A q \in Procs : proc'[q] = proc[q] \/ proc'[q] = Idle
  PROVE  ReviewInv'
  <1>1. Idle.pc = "idle" /\ Idle.goal = "none" /\ ~Bodied(Idle.buf)
    BY DecidedFields DEF Idle
  <1>2. FilesOK'
    BY ReviewedStays DEF ReviewInv, FilesOK, Complete, Bodied
  <1>3. RequestsOK'
    <2>1. ASSUME NEW q \in Procs, proc'[q] = Idle
          PROVE  RequestOK(q, proc[q])' /\ TrailOK(proc[q])'
      BY <1>1, <2>1 DEF RequestOK, TrailOK, Writing, Approving, Bodied
    <2>2. ASSUME NEW q \in Procs, proc'[q] = proc[q]
          PROVE  RequestOK(q, proc[q])' /\ TrailOK(proc[q])'
      <3>1. RequestOK(q, proc[q]) /\ TrailOK(proc[q])
        BY DEF ReviewInv, RequestsOK
      <3>2. RequestOK(q, proc[q])'
        BY <2>2, <3>1 DEF RequestOK, Writing, Bodied, Complete, Exists
      <3>3. TrailOK(proc[q])'
        BY <2>2, <3>1, ReviewedStays DEF TrailOK, Writing, Approving, Bodied
      <3>4. QED
        BY <3>2, <3>3
    <2>3. QED
      BY <2>1, <2>2 DEF RequestsOK
  <1>4. OneContent'
    <2>1. \A i \in Ids : Versions(i)' \subseteq Versions(i)
      BY <1>1 DEF Versions, Writing, Approving
    <2>2. QED
      BY <2>1, Inherit DEF ReviewInv, SameChange
  <1>5. QED
    BY <1>2, <1>3, <1>4 DEF ReviewInv

\* An approval that passes its check on a file is a review of that file.
LEMMA ApprovalReviews ==
  ASSUME ReviewInv, FourEyesSettings, NEW i \in Ids, NEW u,
         MayApprove(files[i], u),
         approvals' = approvals \union {ApprovalBy(i, u)}
  PROVE  Bodied(files[i]) /\ \A x : x = files[i] => ReviewedAs(i, x)'
  <1>1. /\ Bodied(files[i])
        /\ Norm[files[i].created_by] \notin Generic
        /\ Norm[u] # Norm[files[i].created_by]
    BY DEF ReviewInv, FilesOK, Complete, MayApprove, SelfApproval, FourEyesSettings
  <1>2. /\ ApprovalBy(i, u) \in approvals'
        /\ ApprovalBy(i, u).id = i
        /\ ApprovalBy(i, u).body = files[i].body
        /\ ApprovalBy(i, u).owner = files[i].created_by
        /\ ApprovalBy(i, u).by = u
    BY DEF ApprovalBy
  <1>3. \A x : x = files[i] => ReviewedAs(i, x)'
    BY <1>1, <1>2 DEF ReviewedAs, Reviewed, FourEyes, Bodied
  <1>4. QED
    BY <1>1, <1>3

LEMMA ReviewInit == Init => ReviewInv
  <1> SUFFICES ASSUME Init PROVE ReviewInv
    OBVIOUS
  <1>1. \A p \in Procs :
          /\ proc[p].pc = "idle" /\ proc[p].goal = "none" /\ ~Bodied(proc[p].buf)
    <2>1. Idle.pc = "idle" /\ Idle.goal = "none" /\ ~Bodied(Idle.buf)
      BY DecidedFields DEF Idle
    <2>2. QED
      BY <2>1 DEF Init
  <1>2. \A i \in Ids : files[i].status = "none" /\ ~Bodied(files[i])
    BY BlankEmpty DEF Init
  <1>3. RequestsOK
    BY <1>1 DEF RequestsOK, RequestOK, TrailOK, Writing, Approving
  <1>4. FilesOK
    BY <1>2 DEF FilesOK, Complete
  <1>5. OneContent
    BY <1>1, <1>2 DEF OneContent, Versions, Writing, Approving
  <1>6. PushedAsReviewed
    BY DEF Init, PushedAsReviewed
  <1>7. QED
    BY <1>3, <1>4, <1>5, <1>6, TypeInit DEF ReviewInv

LEMMA ReviewNext ==
  ASSUME OneProposer, FourEyesSettings
  PROVE  ReviewInv /\ [Next]_vars => ReviewInv'
  <1> SUFFICES ASSUME ReviewInv, [Next]_vars PROVE ReviewInv'
    OBVIOUS
  <1>type. TypeInv /\ TypeInv'
    BY TypeNext DEF ReviewInv
  <1>there. ASSUME NEW i \in Ids, files[i].status \notin {"none", "empty"}
            PROVE  Exists(i)
    BY <1>there DEF Exists
  <1>pushed. ASSUME UNCHANGED pushed, approvals \subseteq approvals'
             PROVE  PushedAsReviewed'
    BY <1>pushed DEF ReviewInv, PushedAsReviewed, Reviewed
  <1>1. ASSUME NEW p \in Procs, NEW u \in Users, NEW b \in Bodies, Propose(p, u, b)
        PROVE  ReviewInv'
    <2> DEFINE buf == [status |-> "proposed", created_by |-> u,
                       approved_by |-> NoUser, body |-> b]
               req(i) == Req("open", "proposed", i, i, u, Blank("none"), buf)
    <2>1. PICK i \in Ids : IsNextId(i) /\ Serve(p, req(i))
      BY <1>1 DEF Propose
    <2>2. /\ proc[p].pc = "idle" /\ "propose" \in Duties[p]
          /\ UNCHANGED <<files, approvals, pushed>>
      BY <1>1 DEF Propose, Asked
    <2>3. buf.status = "proposed" /\ Bodied(buf) /\ Complete(buf)
      BY <1>1, ConstantsOK DEF Propose, Bodied, Complete, ProposerAccepted,
                               FourEyesSettings
    <2>4. /\ req(i).pc = "open" /\ req(i).goal = "proposed" /\ req(i).id = i
          /\ req(i).dest = i /\ req(i).buf = buf
      BY DEF Req
    <2> HIDE DEF buf, req
    <2>5. FilesOK'
      BY <2>2, ReviewedStays DEF ReviewInv, FilesOK, Complete, Bodied
    <2>6. RequestsOK'
      <3>1. RequestOK(p, req(i))' /\ TrailOK(req(i))'
        BY <2>2, <2>3, <2>4 DEF RequestOK, TrailOK, Writing, Approving, Complete,
                                Bodied, Written
      <3>2. QED
        BY <1>type, <2>1, <2>2, <3>1, RequestsServe DEF ReviewInv, Exists
    <2>7. \A x \in Versions(i) : ~Bodied(x)
      <3>1. ~Exists(i)
        BY <2>1 DEF IsNextId, Ids
      <3>2. ~Bodied(files[i])
        BY <3>1 DEF ReviewInv, FilesOK, Exists
      <3>3. ASSUME NEW q \in Procs, Writing(proc[q]), proc[q].dest = i
            PROVE  ~Bodied(proc[q].buf)
        <4>1. q # p
          BY <2>2, <3>3 DEF Writing
        <4>2. proc[q].goal # "proposed"
          BY <2>2, <4>1 DEF ReviewInv, RequestsOK, RequestOK, OneProposer
        <4>3. QED
          BY <3>1, <3>3, <4>2 DEF ReviewInv, RequestsOK, RequestOK
      <3>4. ASSUME NEW q \in Procs, Approving(proc[q]), proc[q].id = i
            PROVE  FALSE
        BY <3>1, <3>4 DEF ReviewInv, RequestsOK, RequestOK, Approving
      <3>5. QED
        BY <3>2, <3>3, <3>4 DEF Versions
    <2>8. OneContent'
      <3>1. ASSUME NEW j \in Ids, NEW x \in Versions(j)'
            PROVE  x \in Versions(j) \/ (j = i /\ x = buf)
        <4>1. files'[j] \in Versions(j)
          BY <2>2 DEF Versions
        <4>2. QED
          BY <1>type, <2>1, <2>4, <4>1, VersionsServe DEF Approving
      <3>2. QED
        BY <2>7, <3>1 DEF ReviewInv, OneContent, SameChange
    <2>9. QED
      BY <1>type, <1>pushed, <2>2, <2>5, <2>6, <2>8 DEF ReviewInv
  <1>2. ASSUME NEW p \in Procs, NEW i \in Ids, NEW u \in Users, Approve(p, i, u)
        PROVE  ReviewInv'
    <2>1. /\ MayApprove(files[i], u)
          /\ approvals' = approvals \union {ApprovalBy(i, u)}
          /\ Serve(p, Decided("merge", "approved", i, u, files[i]))
          /\ UNCHANGED <<files, pushed>>
      BY <1>2 DEF Approve
    <2>2. Bodied(files[i]) /\ \A x : x = files[i] => ReviewedAs(i, x)'
      BY <2>1, ApprovalReviews
    <2>3. Exists(i)
      BY <2>1, <1>there DEF MayApprove
    <2>4. QED
      BY <1>type, <1>pushed, <2>1, <2>2, <2>3, DecidedReview
  <1>3. ASSUME NEW p \in Procs, NEW i \in Ids, NEW u \in Users, Reject(p, i, u)
        PROVE  ReviewInv'
    <2>1. /\ MayReject(files[i])
          /\ Serve(p, Decided("merge", "rejected", i, u, files[i]))
          /\ UNCHANGED <<files, approvals, pushed>>
      BY <1>3 DEF Reject
    <2>2. Exists(i)
      BY <2>1, <1>there DEF MayReject
    <2>3. QED
      BY <1>type, <1>pushed, <2>1, <2>2, DecidedReview
  <1>4. ASSUME NEW p \in Procs, NEW i \in Ids, Apply(p, i)
        PROVE  ReviewInv'
    <2>1. /\ files[i].status = "approved"
          /\ Serve(p, Decided("merge", "applying", i, NoUser, files[i]))
          /\ UNCHANGED <<files, approvals, pushed>>
      BY <1>4 DEF Apply, MayApply
    <2>2. Exists(i)
      BY <2>1, <1>there
    <2>3. \A x : x = files[i] => ReviewedAs(i, x)'
      BY <2>1, ReviewedStays DEF ReviewInv, FilesOK
    <2>4. QED
      BY <1>type, <1>pushed, <2>1, <2>2, <2>3, DecidedReview
  <1>5. ASSUME NEW p \in Procs, NEW i \in Ids, RollBack(p, i)
        PROVE  ReviewInv'
    <2>1. /\ files[i].status \in {"applied", "failed"}
          /\ Serve(p, Decided("undo", "none", i, NoUser, files[i]))
          /\ UNCHANGED <<files, approvals, pushed>>
      BY <1>5 DEF RollBack, MayRollBack
    <2>2. Exists(i)
      BY <2>1, <1>there
    <2>3. QED
      BY <1>type, <1>pushed, <2>1, <2>2, DecidedReview
  <1>6. ASSUME NEW p \in Procs, Merge(p)
        PROVE  ReviewInv'
    <2>r. PICK r : r = proc[p]
      OBVIOUS
    <2>now. PICK now : now = files[r.id]
      OBVIOUS
    <2> DEFINE buf == WithGoal(now, r.goal, r.user)
               req(d) == Req("open", r.goal, r.id, d, r.user, r.seen, buf)
    <2>1. PICK d \in 1 .. MaxId + 1 :
            Serve(p, req(d)) /\ (now.status # "empty" => d = r.id)
      BY <1>6, <2>r, <2>now DEF Merge
    <2>2. /\ r.pc = "merge" /\ r.id \in Ids /\ r.goal \in Written
          /\ r.goal # "proposed" /\ Exists(r.id)
          /\ UNCHANGED <<files, approvals, pushed>>
      BY <1>6, <1>type, <2>r DEF Merge, TypeInv, Addressed, ReviewInv, RequestsOK,
                           RequestOK
    <2>3. buf.status = r.goal /\ SameChange(buf, now)
      BY DEF WithGoal, SameChange
    <2>4. Bodied(buf) => d = r.id
      BY <2>1, <2>2, <2>3, <2>now DEF ReviewInv, FilesOK, Bodied, SameChange
    <2>5. r.goal = "approved" => ReviewedAs(r.id, buf)
      <3>1. SUFFICES ASSUME r.goal = "approved", Bodied(buf)
                     PROVE  Reviewed(r.id, buf.body, buf.created_by)
        BY DEF ReviewedAs
      <3>2. Bodied(r.seen) /\ ReviewedAs(r.id, r.seen)
        BY <2>2, <2>r, <3>1 DEF ReviewInv, RequestsOK, TrailOK, Approving
      <3>3. now \in Versions(r.id) /\ r.seen \in Versions(r.id)
        BY <2>2, <2>r, <2>now, <3>1 DEF Versions, Approving
      <3>4. SameChange(now, r.seen)
        BY <2>2, <2>3, <3>1, <3>2, <3>3 DEF ReviewInv, OneContent, Bodied, SameChange
      <3>5. QED
        BY <2>3, <3>2, <3>4 DEF SameChange, ReviewedAs
    <2>6. r.goal = "applying" => ReviewedAs(r.id, r.seen)
      BY <2>r DEF ReviewInv, RequestsOK, TrailOK
    <2>7. /\ req(d).pc = "open" /\ req(d).goal = r.goal /\ req(d).id = r.id
          /\ req(d).dest = d /\ req(d).seen = r.seen /\ req(d).buf = buf
      BY DEF Req
    <2> HIDE DEF buf, req
    <2>8. FilesOK'
      BY <2>2, ReviewedStays DEF ReviewInv, FilesOK, Complete, Bodied
    <2>9. RequestsOK'
      <3>1. RequestOK(p, req(d))'
        BY <2>2, <2>3, <2>4, <2>7 DEF RequestOK, Writing, Complete, Bodied, Exists
      <3>2. TrailOK(req(d))'
        BY <2>2, <2>5, <2>6, <2>7, ReviewedStays DEF TrailOK, Writing, Approving
      <3>3. QED
        BY <1>type, <2>1, <2>2, <3>1, <3>2, RequestsServe DEF ReviewInv, Exists
    <2>10. OneContent'
      <3>1. ASSUME NEW j \in Ids, NEW x \in Versions(j)'
            PROVE  x \in Versions(j) \/ (j = d /\ x = buf)
        <4>1. files'[j] \in Versions(j)
          BY <2>2 DEF Versions
        <4>2. QED
          BY <1>type, <2>1, <2>7, <4>1, VersionsServe DEF Approving
      <3>2. now \in Versions(r.id)
        BY <2>now DEF Versions
      <3>3. ASSUME NEW j \in Ids, NEW x \in Versions(j)', Bodied(x)
            PROVE  \E y \in Versions(j) : Bodied(y) /\ SameChange(x, y)
        <4>1. CASE x \in Versions(j)
          BY <3>3, <4>1 DEF SameChange
        <4>2. CASE j = d /\ x = buf
          BY <2>3, <2>4, <3>2, <3>3, <4>2 DEF SameChange, Bodied
        <4>3. QED
          BY <3>1, <4>1, <4>2
      <3>4. QED
        BY <3>3, Inherit DEF ReviewInv
    <2>11. QED
      BY <1>type, <1>pushed, <2>2, <2>8, <2>9, <2>10 DEF ReviewInv
  <1>7. ASSUME NEW p \in Procs, Open(p)
        PROVE  ReviewInv'
    <2>r. PICK r : r = proc[p]
      OBVIOUS
    <2> DEFINE req == [r EXCEPT !.pc = "flush"]
    <2>1. /\ r.pc = "open" /\ Serve(p, req) /\ WriteFile(r.dest, Blank("empty"))
          /\ UNCHANGED <<approvals, pushed>>
      BY <1>7, <2>r DEF Open
    <2>2. r \in Request
      BY <1>type, <2>r DEF TypeInv, TypeOK
    <2>3. /\ req.pc = "flush" /\ req.goal = r.goal /\ req.id = r.id
          /\ req.dest = r.dest /\ req.seen = r.seen /\ req.buf = r.buf
      BY <2>2 DEF Request
    <2> HIDE DEF req
    <2>4. \A i \in Ids : \/ files'[i] = files[i]
                         \/ files'[i].status = "empty" /\ ~Bodied(files'[i])
      BY <1>type, <2>1, BlankEmpty DEF WriteFile, TypeInv, TypeOK
    <2>5. FilesOK'
      BY <2>1, <2>4, ReviewedStays DEF ReviewInv, FilesOK, Complete, Bodied
    <2>6. \A i \in Ids : Exists(i) => Exists(i)'
      BY <2>4 DEF Exists
    <2>7. RequestsOK'
      <3>1. r.id \in Ids
        BY <1>type, <2>1, <2>r DEF TypeInv, Addressed
      <3>2. RequestOK(p, r) /\ TrailOK(r)
        BY <2>r DEF ReviewInv, RequestsOK
      <3>3. RequestOK(p, req)'
        BY <2>1, <2>3, <2>6, <3>1, <3>2 DEF RequestOK, Writing, Complete, Bodied
      <3>4. TrailOK(req)'
        BY <2>1, <2>3, <3>2, ReviewedStays DEF TrailOK, Writing, Approving
      <3>5. QED
        BY <1>type, <2>1, <2>6, <3>3, <3>4, RequestsServe DEF ReviewInv
    <2>8. OneContent'
      <3>1. ASSUME NEW j \in Ids, NEW x \in Versions(j)', Bodied(x)
            PROVE  x \in Versions(j)
        <4>1. x = files'[j] => x \in Versions(j)
          BY <2>4, <3>1 DEF Versions
        <4>2. r.dest = j => r.buf \in Versions(j)
          BY <2>1, <2>r DEF Versions, Writing
        <4>3. QED
          BY <1>type, <2>1, <2>3, <4>1, <4>2, VersionsServe DEF Approving
      <3>2. QED
        BY <3>1, Inherit DEF ReviewInv, SameChange
    <2>9. QED
      BY <1>type, <1>pushed, <2>1, <2>5, <2>7, <2>8 DEF ReviewInv
  <1>8. ASSUME NEW p \in Procs, Flush(p)
        PROVE  ReviewInv'
    <2>r. PICK r : r = proc[p]
      OBVIOUS
    <2> DEFINE req == Continue(r)
    <2>1. /\ r.pc = "flush" /\ Serve(p, req) /\ WriteFile(r.dest, r.buf)
          /\ UNCHANGED <<approvals, pushed>>
      BY <1>8, <2>r DEF Flush
    <2>2. RequestOK(p, r) /\ TrailOK(r) /\ r.id \in Ids
      BY <1>type, <2>1, <2>r DEF ReviewInv, RequestsOK, TypeInv, Addressed
    <2>3. /\ req.pc \notin {"merge", "open", "flush"} /\ req.goal = "none"
          /\ ~Bodied(req.buf)
          /\ req.pc # "idle" => req.id = r.id
          /\ req.pc = "push" => r.goal = "applying" /\ req.seen = r.seen
      <3>1. /\ r.goal = "applying"
            /\ req = Decided("push", "none", r.id, NoUser, r.seen)
            \/ req = Decided("auto", "none", r.id, NoUser, Blank("none"))
            \/ req = Decided("idle", "none", 0, NoUser, Blank("none"))
        BY DEF Continue, Idle
      <3>2. QED
        BY <3>1, DecidedFields
    <2> HIDE DEF req
    <2>4. \A i \in Ids : files'[i] = IF i = r.dest THEN r.buf ELSE files[i]
      BY <1>type, <2>1 DEF WriteFile, TypeInv, TypeOK
    <2>5. /\ r.buf.status = r.goal /\ r.goal \in Written /\ Complete(r.buf)
          /\ r.goal = "proposed" => r.dest = r.id
          /\ r.goal # "proposed" => Exists(r.id)
          /\ Bodied(r.buf) => r.dest = r.id
          /\ r.goal = "approved" => ReviewedAs(r.id, r.buf)
          /\ r.goal = "applying" => ReviewedAs(r.id, r.seen)
      BY <2>1, <2>2 DEF RequestOK, TrailOK, Writing
    <2>6. FilesOK'
      <3>1. ASSUME NEW i \in Ids, NEW x, x = files'[i]
            PROVE  /\ x.status \in {"none", "empty"} => ~Bodied(x)
                   /\ x.status = "approved" => ReviewedAs(i, x)
                   /\ Complete(x)
        BY <2>4, <2>5, <3>1 DEF ReviewInv, FilesOK, Written, ReviewedAs
      <3>2. QED
        BY <2>1, <3>1, ReviewedStays DEF FilesOK, Complete, Bodied
    <2>7. \A i \in Ids : Exists(i) => Exists(i)'
      BY <2>4, <2>5 DEF Exists, Written
    <2>8. Exists(r.id)'
      BY <2>2, <2>4, <2>5, <2>7 DEF Exists
    <2>9. RequestsOK'
      <3>1. RequestOK(p, req)'
        BY <2>3, <2>8 DEF RequestOK, Writing, Bodied
      <3>2. TrailOK(req)'
        BY <2>1, <2>3, <2>5, ReviewedStays DEF TrailOK, Writing, Approving
      <3>3. QED
        BY <1>type, <2>1, <2>7, <3>1, <3>2, RequestsServe DEF ReviewInv
    <2>10. OneContent'
      <3>1. ASSUME NEW j \in Ids, NEW x \in Versions(j)'
            PROVE  x \in Versions(j)
        <4>1. files'[j] \in Versions(j)
          BY <2>1, <2>4, <2>r DEF Versions, Writing
        <4>2. QED
          BY <1>type, <2>1, <2>3, <4>1, VersionsServe DEF Approving, Writing
      <3>2. QED
        BY <3>1, Inherit DEF ReviewInv, SameChange
    <2>11. QED
      BY <1>type, <1>pushed, <2>1, <2>6, <2>9, <2>10 DEF ReviewInv
  <1>9. ASSUME NEW p \in Procs, AutoApprove(p)
        PROVE  ReviewInv'
    <2>i. PICK i : i = proc[p].id
      OBVIOUS
    <2>1. i \in Ids /\ UNCHANGED <<files, pushed>>
      BY <1>9, <1>type, <2>i DEF AutoApprove, TypeInv, Addressed
    <2>2. CASE /\ MayApprove(files[i], PolicyUser)
               /\ Serve(p, Decided("merge", "approved", i, PolicyUser, files[i]))
               /\ approvals' = approvals \union {ApprovalBy(i, PolicyUser)}
      <3>1. Bodied(files[i]) /\ \A x : x = files[i] => ReviewedAs(i, x)'
        BY <2>1, <2>2, ApprovalReviews
      <3>2. Exists(i)
        BY <2>1, <2>2, <1>there DEF MayApprove
      <3>3. QED
        BY <1>type, <1>pushed, <2>1, <2>2, <3>1, <3>2, DecidedReview
    <2>3. CASE Serve(p, Idle) /\ UNCHANGED approvals
      <3>1. \A q \in Procs : proc'[q] = proc[q] \/ proc'[q] = Idle
        BY <1>type, <2>3 DEF Serve, TypeInv, TypeOK
      <3>2. QED
        BY <1>type, <1>pushed, <2>1, <2>3, <3>1, IdleReview
    <2>4. QED
      BY <1>9, <2>i, <2>2, <2>3 DEF AutoApprove
  <1>10. ASSUME NEW p \in Procs, PushTarget(p)
        PROVE  ReviewInv'
    <2> DEFINE i == proc[p].id
    <2>1. /\ i \in Ids /\ UNCHANGED <<files, approvals>>
          /\ Exists(i) /\ ReviewedAs(i, proc[p].seen)
      BY <1>10, <1>type DEF PushTarget, TypeInv, Addressed, ReviewInv,
                            RequestsOK, RequestOK, TrailOK
    <2>2. PICK outcome \in {"applied", "failed"} :
            Serve(p, Decided("merge", outcome, i, NoUser, Blank("none")))
      BY <1>10 DEF PushTarget, Finishing
    <2>3. PushedAsReviewed'
      <3>1. \/ UNCHANGED pushed
            \/ /\ Bodied(proc[p].seen)
               /\ pushed' = pushed \union
                    {[id |-> i, body |-> proc[p].seen.body,
                      owner |-> proc[p].seen.created_by]}
        BY <1>10 DEF PushTarget, Bodied
      <3>2. QED
        BY <2>1, <3>1 DEF ReviewInv, PushedAsReviewed, Reviewed, ReviewedAs
    <2>4. QED
      BY <1>type, <2>1, <2>2, <2>3, DecidedReview
  <1>11. ASSUME NEW p \in Procs, UndoTarget(p)
        PROVE  ReviewInv'
    <2> DEFINE i == proc[p].id
    <2>1. /\ i \in Ids /\ UNCHANGED <<files, approvals, pushed>> /\ Exists(i)
      BY <1>11, <1>type DEF UndoTarget, TypeInv, Addressed, ReviewInv,
                            RequestsOK, RequestOK
    <2>2. PICK outcome \in {"rolled_back", "failed"} :
            Serve(p, Decided("merge", outcome, i, NoUser, Blank("none")))
      BY <1>11 DEF UndoTarget, Finishing
    <2>3. QED
      BY <1>type, <1>pushed, <2>1, <2>2, DecidedReview
  <1>12. ASSUME NEW c, Crash(c)
        PROVE  ReviewInv'
    <2>1. \A q \in Procs : proc'[q] = proc[q] \/ proc'[q] = Idle
      BY <1>12 DEF Crash
    <2>2. UNCHANGED <<files, approvals, pushed>>
      BY <1>12 DEF Crash
    <2>3. QED
      BY <1>type, <1>pushed, <2>1, <2>2, IdleReview
  <1>13. CASE UNCHANGED vars
    BY <1>13, <1>type, <1>pushed DEF vars, ReviewInv, FilesOK, RequestsOK,
       RequestOK, TrailOK, OneContent, Versions, Exists, Complete, Bodied,
       Writing, Approving, ReviewedAs, Reviewed, SameChange
  <1>14. QED
    BY <1>1, <1>2, <1>3, <1>4, <1>5, <1>6, <1>7, <1>8, <1>9, <1>10, <1>11,
       <1>12, <1>13 DEF Next, Begin, Step

\* While one thread numbers the proposals, and the settings demand names and
\* forbid self-approval, no interleaving and no crash makes an apply send a
\* device something that nobody but its proposer has approved.
THEOREM AppliesWhatWasReviewed ==
  ASSUME OneProposer, FourEyesSettings
  PROVE  Spec => []PushedAsReviewed
  <1>1. Spec => []ReviewInv
    BY ReviewInit, ReviewNext, PTL DEF Spec
  <1>2. ReviewInv => PushedAsReviewed
    BY DEF ReviewInv
  <1>3. QED
    BY <1>1, <1>2, PTL

\* Under the same conditions, what the file of an approved change says is
\* what was approved.
THEOREM ApprovalsAreReviews ==
  ASSUME OneProposer, FourEyesSettings
  PROVE  Spec => []ApprovedAsReviewed
  <1>1. Spec => []ReviewInv
    BY ReviewInit, ReviewNext, PTL DEF Spec
  <1>2. ReviewInv => ApprovedAsReviewed
    BY DEF ReviewInv, FilesOK, ReviewedAs, Bodied, ApprovedAsReviewed
  <1>3. QED
    BY <1>1, <1>2, PTL

-----------------------------------------------------------------------------
(* Every apply under way has a thread                                      *)

\* What a write puts into a file carries the status the request is about;
\* content goes into the file it came from.
Tracked(r) ==
  Writing(r) =>
    /\ r.goal \in Written
    /\ r.buf.status = r.goal
    /\ Bodied(r.buf) => r.dest = r.id

\* The request will still write an outcome into file i: it is at the device,
\* or on its way into the file with the outcome.
Executes(r, i) ==
  /\ r.id = i
  /\ \/ r.pc = "push"
     \/ /\ r.goal \in {"applied", "failed"}
        /\ Writing(r) => r.dest = i
        /\ Writing(r) \/ r.pc = "merge"

Underway(i) == files[i].status = "applying" /\ Bodied(files[i])

\* ApplyingHasExecutor is inductive once the request is known to write into
\* this very file: one that met the file truncated writes another.
ExecutorInv ==
  /\ \A i \in Ids : files[i].status = "empty" => ~Bodied(files[i])
  /\ \A p \in Procs : Tracked(proc[p])
  /\ \A i \in Ids : crashes = 0 /\ Underway(i) => \E p \in Procs : Executes(proc[p], i)

\* A step of one thread that writes no file: it must not let go of an apply.
LEMMA ExecutorServe ==
  ASSUME TypeInv, ExecutorInv, NEW p \in Procs, NEW r, Serve(p, r), Tracked(r),
         files' = files, crashes' = crashes,
         \A i \in Ids : Underway(i) /\ Executes(proc[p], i) => Executes(r, i)
  PROVE  ExecutorInv'
  <1>1. proc'[p] = r /\ \A q \in Procs \ {p} : proc'[q] = proc[q]
    BY DEF TypeInv, TypeOK, Serve
  <1>2. \A q \in Procs : Tracked(proc'[q])
    BY <1>1 DEF ExecutorInv
  <1>3. ASSUME NEW i \in Ids, crashes = 0, Underway(i)
        PROVE  \E q \in Procs : Executes(proc'[q], i)
    BY <1>1, <1>3 DEF ExecutorInv
  <1> QED
    BY <1>2, <1>3 DEF ExecutorInv, Underway

\* What a request that decided on a record does not do yet.
LEMMA DecidedTracked ==
  ASSUME NEW pc \in {"idle", "merge", "auto", "push", "undo"}, NEW goal, NEW i, NEW u, NEW seen
  PROVE  LET r == Decided(pc, goal, i, u, seen) IN
         /\ r.pc = pc /\ r.goal = goal /\ r.id = i
         /\ Tracked(r)
  BY DEF Decided, Req, Tracked, Writing

LEMMA IdleTracked == Idle.pc = "idle" /\ Idle.goal = "none" /\ Tracked(Idle)
  BY DecidedTracked DEF Idle

\* A request that begins: the thread was idle and executed nothing.
LEMMA ExecutorBegins ==
  ASSUME TypeInv, ExecutorInv, NEW p \in Procs, NEW r, Serve(p, r), Tracked(r),
         proc[p].pc \in {"idle", "auto", "undo"}, files' = files, crashes' = crashes
  PROVE  ExecutorInv'
  BY ExecutorServe DEF Executes, Writing

LEMMA ExecutorInit == Init => ExecutorInv
  BY IdleTracked DEF Init, Blank, ExecutorInv, Underway, Bodied

LEMMA ExecutorNext == TypeInv /\ ExecutorInv /\ [Next]_vars => ExecutorInv'
  <1> SUFFICES ASSUME TypeInv, ExecutorInv, [Next]_vars PROVE ExecutorInv'
    OBVIOUS
  <1>1. ASSUME NEW p \in Procs, NEW u \in Users, NEW b \in Bodies, Propose(p, u, b)
        PROVE  ExecutorInv'
    <2> DEFINE buf == [status |-> "proposed", created_by |-> u,
                       approved_by |-> NoUser, body |-> b]
               req(i) == Req("open", "proposed", i, i, u, Blank("none"), buf)
    <2>1. PICK i \in Ids : Serve(p, req(i))
      BY <1>1 DEF Propose
    <2>2. Tracked(req(i))
      BY DEF Req, Tracked, Written
    <2> HIDE DEF req
    <2> QED
      BY <1>1, <2>1, <2>2, ExecutorBegins DEF Propose, Asked
  <1>2. ASSUME NEW p \in Procs, NEW i \in Ids, NEW u \in Users, Approve(p, i, u) \/ Reject(p, i, u)
        PROVE  ExecutorInv'
    BY <1>2, DecidedTracked, ExecutorBegins DEF Approve, Reject, Asked
  <1>3. ASSUME NEW p \in Procs, NEW i \in Ids, Apply(p, i) \/ RollBack(p, i)
        PROVE  ExecutorInv'
    BY <1>3, DecidedTracked, ExecutorBegins DEF Apply, RollBack, Asked
  <1>4. ASSUME NEW p \in Procs, Merge(p)
        PROVE  ExecutorInv'
    <2> DEFINE r == proc[p]
               buf == WithGoal(files[r.id], r.goal, r.user)
               req(d) == Req("open", r.goal, r.id, d, r.user, r.seen, buf)
    <2>1. PICK d \in 1 .. MaxId + 1 :
            /\ IF files[r.id].status = "empty" THEN IsNextId(d) ELSE d = r.id
            /\ Serve(p, req(d))
      BY <1>4 DEF Merge
    <2>2. r.pc = "merge" /\ r.id \in Ids /\ r.goal \in Written
      BY <1>4 DEF Merge, TypeInv, Addressed
    <2>3. buf.status = r.goal /\ (Bodied(buf) <=> Bodied(files[r.id]))
      BY DEF WithGoal, Bodied
    <2>4. /\ req(d).pc = "open" /\ req(d).goal = r.goal /\ req(d).id = r.id
          /\ req(d).dest = d /\ req(d).buf = buf
      BY DEF Req
    <2> HIDE DEF r, buf, req
    <2>5. Bodied(buf) => d = r.id
      BY <2>1, <2>2, <2>3 DEF ExecutorInv
    <2>6. Tracked(req(d))
      BY <2>2, <2>3, <2>4, <2>5 DEF Tracked
    <2>7. ASSUME NEW i \in Ids, Underway(i), Executes(r, i)
          PROVE  Executes(req(d), i)
      BY <2>1, <2>2, <2>4, <2>7 DEF Underway, Executes, Writing
    <2> QED
      BY <1>4, <2>1, <2>6, <2>7, ExecutorServe DEF Merge, r
  <1>5. ASSUME NEW p \in Procs, Open(p)
        PROVE  ExecutorInv'
    <2> DEFINE r == proc[p]
               s == [proc[p] EXCEPT !.pc = "flush"]
    <2>1. r \in Request /\ r.pc = "open" /\ r.dest \in 1 .. MaxId + 1
      BY <1>5 DEF Open, TypeInv, TypeOK, Addressed
    <2>2. /\ s.pc = "flush" /\ s.goal = r.goal /\ s.id = r.id
          /\ s.dest = r.dest /\ s.buf = r.buf
      BY <2>1 DEF Request
    <2>3. proc'[p] = s /\ \A q \in Procs \ {p} : proc'[q] = proc[q]
      BY <1>5 DEF Open, Serve, TypeInv, TypeOK
    <2>4. \A i \in Ids : IF i = r.dest THEN files'[i] = Blank("empty") ELSE files'[i] = files[i]
      BY <1>5 DEF Open, WriteFile, TypeInv, TypeOK
    <2>5. Tracked(r) /\ Tracked(s)
      BY <2>1, <2>2 DEF ExecutorInv, Tracked, Writing
    <2>6. \A i \in Ids : Executes(r, i) => Executes(s, i)
      BY <2>1, <2>2 DEF Executes, Writing
    <2> HIDE DEF r, s
    <2>7. \A i \in Ids : files'[i].status = "empty" => ~Bodied(files'[i])
      BY <2>4, BlankEmpty DEF ExecutorInv
    <2>8. \A q \in Procs : Tracked(proc'[q])
      BY <2>3, <2>5 DEF ExecutorInv
    <2>9. ASSUME NEW i \in Ids, crashes' = 0, Underway(i)'
          PROVE  \E q \in Procs : Executes(proc'[q], i)
      <3>1. crashes = 0 /\ Underway(i)
        BY <1>5, <2>4, <2>9, BlankEmpty DEF Open, Underway
      <3>2. PICK q \in Procs : Executes(proc[q], i)
        BY <3>1 DEF ExecutorInv
      <3> QED
        BY <2>3, <2>6, <3>2 DEF r
    <2> QED
      BY <2>7, <2>8, <2>9 DEF ExecutorInv
  <1>6. ASSUME NEW p \in Procs, Flush(p)
        PROVE  ExecutorInv'
    <2> DEFINE r == proc[p]
               s == Continue(proc[p])
    <2>1. r \in Request /\ r.pc = "flush" /\ r.dest \in 1 .. MaxId + 1
      BY <1>6 DEF Flush, TypeInv, TypeOK, Addressed
    <2>2. Tracked(r)
      BY DEF ExecutorInv
    <2>3. proc'[p] = s /\ \A q \in Procs \ {p} : proc'[q] = proc[q]
      BY <1>6 DEF Flush, Serve, TypeInv, TypeOK
    <2>4. \A i \in Ids : IF i = r.dest THEN files'[i] = r.buf ELSE files'[i] = files[i]
      BY <1>6 DEF Flush, WriteFile, TypeInv, TypeOK
    <2>5. Tracked(s)
      BY DecidedTracked, IdleTracked DEF Continue
    <2>6. r.goal = "applying" => s.pc = "push" /\ s.id = r.id
      BY DecidedTracked DEF Continue
    <2> HIDE DEF r, s
    <2>7. \A i \in Ids : files'[i].status = "empty" => ~Bodied(files'[i])
      BY <2>1, <2>2, <2>4 DEF ExecutorInv, Tracked, Writing, Written
    <2>8. \A q \in Procs : Tracked(proc'[q])
      BY <2>3, <2>5 DEF ExecutorInv
    <2>9. ASSUME NEW i \in Ids, crashes' = 0, Underway(i)'
          PROVE  \E q \in Procs : Executes(proc'[q], i)
      <3>1. CASE i = r.dest
        <4>1. r.goal = "applying" /\ r.id = i
          BY <2>1, <2>2, <2>4, <2>9, <3>1 DEF Underway, Tracked, Writing
        <4> QED
          BY <2>3, <2>6, <4>1 DEF Executes
      <3>2. CASE i # r.dest
        <4>1. crashes = 0 /\ Underway(i)
          BY <1>6, <2>4, <2>9, <3>2 DEF Flush, Underway
        <4>2. PICK q \in Procs : Executes(proc[q], i)
          BY <4>1 DEF ExecutorInv
        <4>3. q # p
          BY <2>1, <3>2, <4>2 DEF Executes, Writing, r
        <4> QED
          BY <2>3, <4>2, <4>3
      <3> QED
        BY <3>1, <3>2
    <2> QED
      BY <2>7, <2>8, <2>9 DEF ExecutorInv
  <1>7. ASSUME NEW p \in Procs, AutoApprove(p)
        PROVE  ExecutorInv'
    BY <1>7, DecidedTracked, IdleTracked, ExecutorBegins DEF AutoApprove
  <1>8. ASSUME NEW p \in Procs, PushTarget(p)
        PROVE  ExecutorInv'
    <2>1. PICK outcome \in {"applied", "failed"} :
            Serve(p, Decided("merge", outcome, proc[p].id, NoUser, Blank("none")))
      BY <1>8 DEF PushTarget, Finishing
    <2> DEFINE r == Decided("merge", outcome, proc[p].id, NoUser, Blank("none"))
    <2>2. r.pc = "merge" /\ r.goal = outcome /\ r.id = proc[p].id /\ Tracked(r)
      BY DecidedTracked
    <2> HIDE DEF r
    <2>3. Serve(p, r)
      BY <2>1 DEF r
    <2>4. \A i \in Ids : Executes(proc[p], i) => Executes(r, i)
      BY <2>2 DEF Executes, Writing
    <2> QED
      BY <1>8, <2>2, <2>3, <2>4, ExecutorServe DEF PushTarget
  <1>9. ASSUME NEW p \in Procs, UndoTarget(p)
        PROVE  ExecutorInv'
    BY <1>9, DecidedTracked, ExecutorBegins DEF UndoTarget, Finishing
  <1>10. ASSUME NEW c, Crash(c)
         PROVE  ExecutorInv'
    <2>1. crashes' # 0 /\ files' = files
      BY <1>10 DEF Crash, TypeInv, TypeOK
    <2>2. \A q \in Procs : proc'[q] = proc[q] \/ proc'[q] = Idle
      BY <1>10 DEF Crash
    <2> QED
      BY <2>1, <2>2, IdleTracked DEF ExecutorInv
  <1>11. CASE UNCHANGED vars
    BY <1>11 DEF vars, ExecutorInv, Underway
  <1> QED
    BY <1>1, <1>2, <1>3, <1>4, <1>5, <1>6, <1>7, <1>8, <1>9, <1>10, <1>11
       DEF Next, Begin, Step

\* Until a container dies, a change with a target that is shown as "applying"
\* has a thread that will still write its outcome, however many applies,
\* rollbacks and other writers of the file there are (apply_change).
THEOREM AppliesAreAttended == Spec => []ApplyingHasExecutor
  <1>1. Spec => [](TypeInv /\ ExecutorInv)
    BY TypeInit, TypeNext, ExecutorInit, ExecutorNext, PTL DEF Spec
  <1>2. ExecutorInv => ApplyingHasExecutor
    BY DEF ExecutorInv, ApplyingHasExecutor, Underway, Bodied, Executes
  <1>3. QED
    BY <1>1, <1>2, PTL

-----------------------------------------------------------------------------
(* Requests that do not overlap implement the lifecycle                    *)

Edges ==
  {<<"none", "proposed">>, <<"proposed", "approved">>, <<"proposed", "rejected">>,
   <<"approved", "applying">>, <<"applying", "applied">>, <<"applying", "failed">>,
   <<"applied", "rolled_back">>, <<"applied", "failed">>,
   <<"failed", "rolled_back">>, <<"failed", "failed">>}

\* u may be recorded as the approver of record x.
Second(u, x) == u \in Users \union {PolicyUser} /\ Norm[u] # Norm[x.created_by]

\* Record y is what one edge of the lifecycle makes of record x.
Follows(x, y) ==
  /\ <<x.status, y.status>> \in Edges
  /\ IF x.status = "none"
       THEN y.created_by \in Users /\ Norm[y.created_by] \notin Generic
       ELSE y.created_by = x.created_by
  /\ IF y.status = "approved" THEN Second(y.approved_by, x)
                              ELSE y.approved_by = x.approved_by

\* A pending proposal names its proposer.
Named(x) == x.status = "proposed" => Norm[x.created_by] \notin Generic

\* Nobody else has touched the file since the request decided on it.
Holds(f, r) ==
  /\ r.pc = "push" => f[r.id].status = "applying"
  /\ r.pc = "undo" => f[r.id].status \in {"applied", "failed"}
  /\ r.pc = "merge" =>
       /\ <<f[r.id].status, r.goal>> \in Edges /\ f[r.id].status # "none"
       /\ r.goal = "approved" => Second(r.user, f[r.id])
  /\ r.pc = "open" => Follows(f[r.id], r.buf)
  /\ r.pc = "flush" => f[r.id] = Blank("empty")
  /\ Writing(r) => /\ r.dest = r.id
                   /\ r.buf.status = r.goal /\ r.goal \in Written
                   /\ Named(r.buf)

SerialInv ==
  /\ \A i \in Ids : /\ files[i].status = "none" => files[i].approved_by = NoUser
                    /\ Named(files[i])
  /\ \A p \in Procs : Holds(files, proc[p])

\* What the lifecycle sees of change i, given the files and the one request.
Seen(f, r, i) == IF r.pc = "flush" /\ r.dest = i THEN r.buf ELSE f[i]

LEMMA CurrentSeen ==
  ASSUME NEW p \in Procs, Alone(p), NEW i \in Ids
  PROVE  Current(i) = Seen(files, proc[p], i)
  <1>1. Writer(i) = IF proc[p].pc = "flush" /\ proc[p].dest = i THEN {p} ELSE {}
    BY DEF Alone, Writer
  <1>2. (CHOOSE q \in {p} : TRUE) = p
    OBVIOUS
  <1> QED
    BY <1>1, <1>2 DEF Current, Seen

LEMMA CurrentSeenNext ==
  ASSUME NEW p \in Procs, Alone(p)', NEW i \in Ids
  PROVE  Current(i)' = Seen(files', proc'[p], i)
  <1>1. Writer(i)' = IF proc'[p].pc = "flush" /\ proc'[p].dest = i THEN {p} ELSE {}
    BY DEF Alone, Writer
  <1>2. (CHOOSE q \in {p} : TRUE) = p
    OBVIOUS
  <1> QED
    BY <1>1, <1>2 DEF Current, Seen

Shown(x) == IF x.status = "empty" THEN "lost" ELSE x.status

\* Record i goes from x to y, seen from the lifecycle.
LEMMA ViewMoves ==
  ASSUME NEW i \in Ids, NEW x, NEW y, Current(i) = x, Current(i)' = y,
         \A j \in Ids \ {i} : Current(j)' = Current(j),
         \/ Follows(x, y)
         \/ x.status \in Written /\ y = Blank("empty")
  PROVE  Lifecycle!Next
  <1> DEFINE st == [j \in Ids |-> IF Current(j).status = "empty" THEN "lost"
                                  ELSE Current(j).status]
             pr == [j \in Ids |-> Current(j).created_by]
             ap == [j \in Ids |-> Current(j).approved_by]
  <1>1. /\ st' = [st EXCEPT ![i] = Shown(y)] /\ st[i] = Shown(x)
        /\ pr' = [pr EXCEPT ![i] = y.created_by] /\ pr[i] = x.created_by
        /\ ap' = [ap EXCEPT ![i] = y.approved_by] /\ ap[i] = x.approved_by
    BY DEF Shown
  <1>2. /\ y.created_by = x.created_by => pr' = pr
        /\ y.approved_by = x.approved_by => ap' = ap
    BY <1>1
  <1> HIDE DEF st, pr, ap
  <1>3. CASE x.status \in Written /\ y = Blank("empty")
    <2>1. y.status = "empty" /\ y.created_by = NoUser /\ y.approved_by = NoUser
      BY <1>3 DEF Blank
    <2>2. Lifecycle!Lose(i)
      BY <1>1, <1>3, <2>1 DEF Shown, Written, st, pr, ap, Lifecycle!Lose,
                              Lifecycle!Move, Lifecycle!Status
    <2> QED
      BY <2>2 DEF Lifecycle!Next
  <1>4. CASE Follows(x, y)
    <2>1. /\ <<x.status, y.status>> \in Edges
          /\ Shown(x) = x.status /\ Shown(y) = y.status
      BY <1>4 DEF Follows, Edges, Shown
    <2>2. st[i] = x.status /\ st' = [st EXCEPT ![i] = y.status]
      BY <1>1, <2>1
    <2>3. CASE x.status = "none"
      <3>1. y.status = "proposed" /\ ap' = ap
        BY <1>2, <1>4, <2>1, <2>3 DEF Edges, Follows
      <3>2. Lifecycle!Propose(i, y.created_by) /\ y.created_by \in Users
        BY <1>1, <1>4, <2>2, <2>3, <3>1 DEF Follows, st, pr, ap,
           Lifecycle!Propose, Lifecycle!Move
      <3> QED
        BY <3>2 DEF Lifecycle!Next
    <2>4. CASE y.status = "approved"
      <3>1. x.status = "proposed" /\ pr' = pr
        BY <1>2, <1>4, <2>1, <2>4 DEF Edges, Follows
      <3>2. /\ y.approved_by \in Users \union {PolicyUser}
            /\ Norm[y.approved_by] # Norm[pr[i]]
        BY <1>1, <1>4, <2>4 DEF Follows, Second
      <3>3. Lifecycle!Approve(i, y.approved_by)
        BY <1>1, <2>2, <2>4, <3>1, <3>2 DEF st, pr, ap, Lifecycle!Approve, Lifecycle!Move
      <3> QED
        BY <3>2, <3>3 DEF Lifecycle!Next
    <2>5. CASE x.status # "none" /\ y.status # "approved"
      <3>1. pr' = pr /\ ap' = ap
        BY <1>2, <1>4, <2>5 DEF Follows
      <3>2. CASE y.status = "rejected"
        BY <2>1, <2>2, <3>1, <3>2 DEF Edges, st, pr, ap, Lifecycle!Next,
           Lifecycle!Reject, Lifecycle!Move
      <3>3. CASE y.status = "applying"
        BY <2>1, <2>2, <3>1, <3>3 DEF Edges, st, pr, ap, Lifecycle!Next,
           Lifecycle!Start, Lifecycle!Move
      <3>4. CASE x.status = "applying"
        BY <2>1, <2>2, <3>1, <3>4 DEF Edges, st, pr, ap, Lifecycle!Next,
           Lifecycle!Finish, Lifecycle!Move
      <3>5. CASE x.status \in {"applied", "failed"}
        BY <2>1, <2>2, <3>1, <3>5 DEF Edges, st, pr, ap, Lifecycle!Next,
           Lifecycle!RollBack, Lifecycle!Move
      <3> QED
        BY <2>1, <2>5, <3>2, <3>3, <3>4, <3>5 DEF Edges
    <2> QED
      BY <2>3, <2>4, <2>5
  <1> QED
    BY <1>3, <1>4

LEMMA ViewStays ==
  ASSUME \A i \in Ids : Current(i)' = Current(i)
  PROVE  UNCHANGED Lifecycle!vars
  BY DEF Lifecycle!vars

\* A step that writes no file keeps the invariant, and the lifecycle stutters.
LEMMA SerialServe ==
  ASSUME Serial, Serial', TypeInv, SerialInv, NEW p \in Procs, NEW r, Serve(p, r),
         files' = files, Holds(files, r), proc[p].pc # "flush", r.pc # "flush",
         ~(proc[p].pc = "idle" /\ r.pc = "idle")
  PROVE  SerialInv' /\ UNCHANGED Lifecycle!vars
  <1>1. proc'[p] = r /\ \A q \in Procs \ {p} : proc'[q] = proc[q]
    BY DEF Serve, TypeInv, TypeOK
  <1>2. SerialInv'
    BY <1>1 DEF SerialInv
  <1>3. Alone(p) /\ Alone(p)'
    BY <1>1 DEF Serial, Alone
  <1>4. ASSUME NEW i \in Ids PROVE Current(i)' = Current(i)
    <2>1. Current(i) = Seen(files, proc[p], i) /\ Current(i)' = Seen(files', r, i)
      BY <1>1, <1>3, CurrentSeen, CurrentSeenNext
    <2> QED
      BY <2>1 DEF Seen
  <1> QED
    BY <1>2, <1>4, ViewStays

LEMMA SerialDecided ==
  ASSUME Serial, Serial', TypeInv, SerialInv, NEW p \in Procs, files' = files,
         proc[p].pc # "flush",
         NEW pc \in {"idle", "merge", "auto", "push", "undo"}, NEW goal, NEW i, NEW u, NEW seen,
         Serve(p, Decided(pc, goal, i, u, seen)), ~(proc[p].pc = "idle" /\ pc = "idle"),
         pc = "push" => files[i].status = "applying",
         pc = "undo" => files[i].status \in {"applied", "failed"},
         pc = "merge" => /\ <<files[i].status, goal>> \in Edges /\ files[i].status # "none"
                         /\ goal = "approved" => Second(u, files[i])
  PROVE  SerialInv' /\ UNCHANGED Lifecycle!vars
  <1> DEFINE r == Decided(pc, goal, i, u, seen)
  <1>1. r.pc = pc /\ r.goal = goal /\ r.id = i /\ r.user = u
    BY DEF Decided, Req
  <1> HIDE DEF r
  <1>2. Holds(files, r)
    BY <1>1 DEF Holds, Writing
  <1> QED
    BY <1>1, <1>2, SerialServe DEF r

LEMMA SerialIdle ==
  ASSUME Serial, Serial', TypeInv, SerialInv, NEW p \in Procs, files' = files,
         proc[p].pc \notin {"idle", "flush"}, Serve(p, Idle)
  PROVE  SerialInv' /\ UNCHANGED Lifecycle!vars
  BY SerialDecided DEF Idle

LEMMA SerialInit == Init => SerialInv
  BY IdleTracked DEF Init, SerialInv, Holds, Writing, Named, Blank

\* Who may approve a pending proposal differs from its proposer.
LEMMA ApproverIsSecond ==
  ASSUME FourEyesSettings, SerialInv, NEW i \in Ids, NEW u \in Users \union {PolicyUser},
         MayApprove(files[i], u)
  PROVE  files[i].status = "proposed" /\ Second(u, files[i])
  BY DEF FourEyesSettings, SerialInv, Named, MayApprove, SelfApproval, Second

LEMMA SerialNext ==
  ASSUME FourEyesSettings, Serial, Serial', TypeInv, SerialInv, [Next]_vars
  PROVE  SerialInv' /\ [Lifecycle!Next]_(Lifecycle!vars)
  <1>1. ASSUME NEW p \in Procs, NEW u \in Users, NEW b \in Bodies, Propose(p, u, b)
        PROVE  SerialInv' /\ UNCHANGED Lifecycle!vars
    <2> DEFINE buf == [status |-> "proposed", created_by |-> u,
                       approved_by |-> NoUser, body |-> b]
               req(i) == Req("open", "proposed", i, i, u, Blank("none"), buf)
    <2>1. PICK i \in Ids : IsNextId(i) /\ Serve(p, req(i))
      BY <1>1 DEF Propose
    <2>2. files[i].status = "none" /\ files[i].approved_by = NoUser
      BY <2>1 DEF IsNextId, Exists, SerialInv, Ids
    <2>3. Norm[u] \notin Generic
      BY <1>1 DEF Propose, ProposerAccepted, FourEyesSettings
    <2>4. Follows(files[i], buf) /\ Named(buf)
      BY <2>2, <2>3 DEF Follows, Edges, Named
    <2>5. /\ req(i).pc = "open" /\ req(i).id = i /\ req(i).dest = i
          /\ req(i).goal = "proposed" /\ req(i).buf = buf
      BY DEF Req
    <2>6. buf.status = "proposed"
      OBVIOUS
    <2> HIDE DEF req, buf
    <2>7. Holds(files, req(i))
      BY <2>4, <2>5, <2>6 DEF Holds, Writing, Written
    <2> QED
      BY <1>1, <2>1, <2>5, <2>7, SerialServe DEF Propose, Asked
  <1>2. ASSUME NEW p \in Procs, NEW i \in Ids, NEW u \in Users, Approve(p, i, u)
        PROVE  SerialInv' /\ UNCHANGED Lifecycle!vars
    <2>1. files[i].status = "proposed" /\ Second(u, files[i])
      BY <1>2, ApproverIsSecond DEF Approve
    <2> QED
      BY <1>2, <2>1, SerialDecided DEF Approve, Asked, Edges
  <1>3. ASSUME NEW p \in Procs, NEW i \in Ids, NEW u \in Users, Reject(p, i, u)
        PROVE  SerialInv' /\ UNCHANGED Lifecycle!vars
    BY <1>3, SerialDecided DEF Reject, MayReject, Asked, Edges
  <1>4. ASSUME NEW p \in Procs, NEW i \in Ids, Apply(p, i)
        PROVE  SerialInv' /\ UNCHANGED Lifecycle!vars
    BY <1>4, SerialDecided DEF Apply, MayApply, Asked, Edges
  <1>5. ASSUME NEW p \in Procs, NEW i \in Ids, RollBack(p, i)
        PROVE  SerialInv' /\ UNCHANGED Lifecycle!vars
    BY <1>5, SerialDecided DEF RollBack, MayRollBack, Asked
  <1>6. ASSUME NEW p \in Procs, Merge(p)
        PROVE  SerialInv' /\ UNCHANGED Lifecycle!vars
    <2> DEFINE r == proc[p]
               buf == WithGoal(files[r.id], r.goal, r.user)
               req(d) == Req("open", r.goal, r.id, d, r.user, r.seen, buf)
    <2>1. PICK d \in 1 .. MaxId + 1 :
            /\ IF files[r.id].status = "empty" THEN IsNextId(d) ELSE d = r.id
            /\ Serve(p, req(d))
      BY <1>6 DEF Merge
    <2>2. r.pc = "merge" /\ r.id \in Ids /\ r.goal \in Written
      BY <1>6 DEF Merge, TypeInv, Addressed
    <2>3. /\ <<files[r.id].status, r.goal>> \in Edges /\ files[r.id].status # "none"
          /\ r.goal = "approved" => Second(r.user, files[r.id])
      BY <2>2 DEF SerialInv, Holds
    <2>4. r.goal # "proposed" /\ files[r.id].status # "empty"
      BY <2>3 DEF Edges
    <2>5. /\ buf.status = r.goal /\ buf.created_by = files[r.id].created_by
          /\ buf.approved_by = IF r.goal = "approved" THEN r.user ELSE files[r.id].approved_by
      BY DEF WithGoal
    <2>6. /\ req(d).pc = "open" /\ req(d).goal = r.goal /\ req(d).id = r.id
          /\ req(d).dest = d /\ req(d).buf = buf
      BY DEF Req
    <2> HIDE DEF buf, req
    <2>7. Follows(files[r.id], buf) /\ Named(buf)
      BY <2>3, <2>4, <2>5 DEF Follows, Named
    <2>8. Holds(files, req(d))
      BY <2>1, <2>2, <2>4, <2>5, <2>6, <2>7 DEF Holds, Writing
    <2> QED
      BY <1>6, <2>1, <2>2, <2>6, <2>8, SerialServe DEF Merge
  <1>7. ASSUME NEW p \in Procs, Open(p)
        PROVE  SerialInv' /\ Lifecycle!Next
    <2> DEFINE r == proc[p]
               s == [proc[p] EXCEPT !.pc = "flush"]
    <2>1. r \in Request /\ r.pc = "open" /\ r.id \in Ids
      BY <1>7 DEF Open, TypeInv, TypeOK, Addressed
    <2>2. /\ s.pc = "flush" /\ s.goal = r.goal /\ s.id = r.id
          /\ s.dest = r.dest /\ s.buf = r.buf
      BY <2>1 DEF Request
    <2>3. /\ proc'[p] = s /\ \A q \in Procs \ {p} : proc'[q] = proc[q]
          /\ Alone(p) /\ Alone(p)'
      BY <1>7, <2>1 DEF Open, Serve, TypeInv, TypeOK, Serial, Alone
    <2>4. /\ r.dest = r.id /\ r.buf.status = r.goal /\ r.goal \in Written
          /\ Named(r.buf) /\ Follows(files[r.id], r.buf)
      BY <2>1 DEF SerialInv, Holds, Writing
    <2>5. \A i \in Ids : IF i = r.id THEN files'[i] = Blank("empty") ELSE files'[i] = files[i]
      BY <1>7, <2>4 DEF Open, WriteFile, TypeInv, TypeOK
    <2>6. Current(r.id) = files[r.id]
      BY <2>1, <2>3, CurrentSeen DEF Seen
    <2>7. ASSUME NEW j \in Ids \ {r.id} PROVE Current(j)' = Current(j)
      <3>1. Current(j) = Seen(files, r, j) /\ Current(j)' = Seen(files', s, j)
        BY <2>3, CurrentSeen, CurrentSeenNext
      <3>2. r.dest # j /\ s.dest # j /\ files'[j] = files[j]
        BY <2>2, <2>4, <2>5
      <3> HIDE DEF r, s
      <3> QED
        BY <3>1, <3>2 DEF Seen
    <2> HIDE DEF s
    <2>8. Seen(files', proc'[p], r.id) = r.buf
      BY <2>2, <2>3, <2>4 DEF Seen
    <2>9. PICK i \in Ids : i = r.id
      BY <2>1
    <2>10. Current(i)' = r.buf
      BY <2>3, <2>8, <2>9, CurrentSeenNext
    <2>11. Lifecycle!Next
      BY <2>4, <2>6, <2>7, <2>9, <2>10, ViewMoves
    <2>12. Holds(files', s)
      BY <2>1, <2>2, <2>4, <2>5 DEF Holds, Writing
    <2>13. SerialInv'
      BY <2>3, <2>5, <2>12, BlankEmpty DEF SerialInv, Named, Holds, Writing, Alone
    <2> QED
      BY <2>11, <2>13
  <1>8. ASSUME NEW p \in Procs, Flush(p)
        PROVE  SerialInv' /\ UNCHANGED Lifecycle!vars
    <2> DEFINE r == proc[p]
               s == Continue(proc[p])
    <2>1. r \in Request /\ r.pc = "flush" /\ r.id \in Ids
      BY <1>8 DEF Flush, TypeInv, TypeOK, Addressed
    <2>2. /\ proc'[p] = s /\ \A q \in Procs \ {p} : proc'[q] = proc[q]
          /\ Alone(p) /\ Alone(p)'
      BY <1>8, <2>1 DEF Flush, Serve, TypeInv, TypeOK, Serial, Alone
    <2>3. /\ r.dest = r.id /\ r.buf.status = r.goal /\ r.goal \in Written
          /\ Named(r.buf)
      BY <2>1 DEF SerialInv, Holds, Writing
    <2>4. \A i \in Ids : IF i = r.id THEN files'[i] = r.buf ELSE files'[i] = files[i]
      BY <1>8, <2>3 DEF Flush, WriteFile, TypeInv, TypeOK
    <2>5. /\ s.pc \in {"auto", "push", "idle"}
          /\ s.pc = "push" => r.goal = "applying" /\ s.id = r.id
      BY DecidedTracked, IdleTracked DEF Continue
    <2> HIDE DEF s
    <2>6. Holds(files', s)
      BY <2>1, <2>3, <2>4, <2>5 DEF Holds, Writing
    <2>7. SerialInv'
      BY <2>2, <2>3, <2>4, <2>6 DEF SerialInv, Written, Holds, Writing, Alone
    <2>8. ASSUME NEW i \in Ids PROVE Current(i)' = Current(i)
      <3>1. Current(i) = Seen(files, r, i) /\ Current(i)' = Seen(files', s, i)
        BY <2>2, CurrentSeen, CurrentSeenNext
      <3>2. r.pc = "flush" /\ s.pc # "flush" /\ r.dest = r.id
        BY <2>1, <2>3, <2>5
      <3> HIDE DEF r
      <3> QED
        BY <2>4, <3>1, <3>2 DEF Seen
    <2> QED
      BY <2>7, <2>8, ViewStays
  <1>9. ASSUME NEW p \in Procs, AutoApprove(p)
        PROVE  SerialInv' /\ UNCHANGED Lifecycle!vars
    <2>1. proc[p].pc = "auto" /\ proc[p].id \in Ids /\ files' = files
      BY <1>9 DEF AutoApprove, TypeInv, Addressed
    <2>2. CASE MayApprove(files[proc[p].id], PolicyUser)
      <3>1. /\ files[proc[p].id].status = "proposed"
            /\ Second(PolicyUser, files[proc[p].id])
        BY <2>1, <2>2, ApproverIsSecond
      <3> QED
        BY <1>9, <2>1, <2>2, <3>1, SerialDecided DEF AutoApprove, Edges
    <2>3. CASE ~MayApprove(files[proc[p].id], PolicyUser)
      BY <1>9, <2>1, <2>3, SerialIdle DEF AutoApprove
    <2> QED
      BY <2>2, <2>3
  <1>10. ASSUME NEW p \in Procs, PushTarget(p)
         PROVE  SerialInv' /\ UNCHANGED Lifecycle!vars
    <2>1. PICK outcome \in {"applied", "failed"} :
            Serve(p, Decided("merge", outcome, proc[p].id, NoUser, Blank("none")))
      BY <1>10 DEF PushTarget, Finishing
    <2>2. files[proc[p].id].status = "applying"
      BY <1>10 DEF PushTarget, SerialInv, Holds
    <2> QED
      BY <1>10, <2>1, <2>2, SerialDecided DEF PushTarget, Edges
  <1>11. ASSUME NEW p \in Procs, UndoTarget(p)
         PROVE  SerialInv' /\ UNCHANGED Lifecycle!vars
    <2>1. PICK outcome \in {"rolled_back", "failed"} :
            Serve(p, Decided("merge", outcome, proc[p].id, NoUser, Blank("none")))
      BY <1>11 DEF UndoTarget, Finishing
    <2>2. files[proc[p].id].status \in {"applied", "failed"}
      BY <1>11 DEF UndoTarget, SerialInv, Holds
    <2> QED
      BY <1>11, <2>1, <2>2, SerialDecided DEF UndoTarget, Edges
  <1>12. ASSUME NEW c, Crash(c)
         PROVE  SerialInv' /\ [Lifecycle!Next]_(Lifecycle!vars)
    <2>1. files' = files /\ \A q \in Procs : proc'[q] = proc[q] \/ proc'[q] = Idle
      BY <1>12 DEF Crash
    <2>2. SerialInv'
      BY <2>1, IdleTracked DEF SerialInv, Holds, Writing
    <2>3. CASE \A q \in Procs : proc[q].pc # "flush"
      <3>1. \A i \in Ids : Writer(i) = {} /\ Writer(i)' = {}
        BY <2>1, <2>3, IdleTracked DEF Writer
      <3>2. \A i \in Ids : Current(i)' = Current(i)
        BY <2>1, <3>1 DEF Current
      <3> QED
        BY <2>2, <3>2, ViewStays
    <2>4. ASSUME NEW p \in Procs, proc[p].pc = "flush"
          PROVE  [Lifecycle!Next]_(Lifecycle!vars)
      <3>1. /\ proc[p].id \in Ids /\ proc[p].dest = proc[p].id
            /\ proc[p].buf.status \in Written /\ files[proc[p].id] = Blank("empty")
        BY <2>4 DEF SerialInv, Holds, Writing, TypeInv, Addressed
      <3>2. Alone(p) /\ Alone(p)'
        BY <2>1, <2>4, IdleTracked DEF Serial, Alone
      <3>3. PICK i \in Ids : i = proc[p].id
        BY <3>1
      <3>4. \A j \in Ids : /\ Current(j) = Seen(files, proc[p], j)
                           /\ Current(j)' = Seen(files', proc'[p], j)
        BY <3>2, CurrentSeen, CurrentSeenNext
      <3>5. CASE proc'[p] = proc[p]
        BY <2>1, <3>4, <3>5, ViewStays
      <3>6. CASE proc'[p] = Idle
        <4>1. /\ Current(i) = proc[p].buf /\ Current(i)' = files[i]
              /\ \A j \in Ids \ {i} : Current(j)' = Current(j)
          BY <2>1, <2>4, <3>1, <3>3, <3>4, <3>6, IdleTracked DEF Seen
        <4> QED
          BY <3>1, <3>3, <4>1, ViewMoves
      <3> QED
        BY <2>1, <3>5, <3>6
    <2> QED
      BY <2>2, <2>3, <2>4
  <1>13. CASE UNCHANGED vars
    <2>1. SerialInv'
      BY <1>13 DEF vars, SerialInv
    <2>2. \A i \in Ids : Current(i)' = Current(i)
      BY <1>13 DEF vars, Current, Writer
    <2> QED
      BY <2>1, <2>2, ViewStays
  <1> QED
    BY <1>1, <1>2, <1>3, <1>4, <1>5, <1>6, <1>7, <1>8, <1>9, <1>10, <1>11,
       <1>12, <1>13 DEF Next, Begin, Step

LEMMA LifecycleInit == Init => Lifecycle!Init
  <1> SUFFICES ASSUME Init PROVE Lifecycle!Init
    OBVIOUS
  <1>1. \A i \in Ids : Writer(i) = {}
    BY IdleTracked DEF Init, Writer
  <1>2. \A i \in Ids : Current(i) = Blank("none")
    BY <1>1 DEF Init, Current
  <1> QED
    BY <1>2 DEF Blank, Lifecycle!Init

\* While requests do not overlap, files that a crash may truncate at any
\* moment implement the lifecycle: a change moves only along its edges, its
\* proposer is a named person and stays, its approver is somebody else, and
\* what a crash destroys is lost for good (change_store, change_approval and
\* change_engine).
THEOREM ImplementsLifecycle ==
  ASSUME FourEyesSettings
  PROVE  Spec /\ []Serial => Lifecycle!Spec
  <1>1. Init => Lifecycle!Init
    BY LifecycleInit
  <1>2. Serial /\ Serial' /\ TypeInv /\ SerialInv /\ [Next]_vars
          => SerialInv' /\ [Lifecycle!Next]_(Lifecycle!vars)
    BY SerialNext
  <1>3. Spec => []TypeInv
    BY TypeInit, TypeNext, PTL DEF Spec
  <1>4. QED
    BY <1>1, <1>2, <1>3, SerialInit, PTL DEF Spec, Lifecycle!Spec

\* The same without a hypothesis about the whole behaviour: until the first two
\* requests overlap, every step is one of the lifecycle, or none, whatever
\* crashes in between (change_store, change_approval, change_engine).
THEOREM LifecycleUntilOverlap ==
  ASSUME FourEyesSettings
  PROVE  History => LifecycleWhenSerial
  <1> DEFINE Inv == ~met => Serial /\ SerialInv
  <1>1. Init => Lifecycle!Init
    BY LifecycleInit
  <1>2. History => Spec /\ []TypeInv
    <2>1. HistoryInit => Init
      BY DEF HistoryInit
    <2>2. [HistoryNext]_history => [Next]_vars
      BY DEF HistoryNext, history
    <2>3. QED
      BY <2>1, <2>2, TypeInit, TypeNext, PTL DEF History, Spec
  <1>3. HistoryInit => Inv
    <2>1. Init => Serial
      <3>1. Idle.pc = "idle"
        BY DEF Idle, Decided, Req
      <3>2. QED
        BY <3>1 DEF Init, Serial
    <2>2. QED
      BY <2>1, SerialInit DEF HistoryInit
  <1>4. TypeInv /\ Inv /\ [HistoryNext]_history
          => Inv' /\ [~met' => Lifecycle!Next]_(Lifecycle!vars)
    <2> SUFFICES ASSUME TypeInv, Inv, [HistoryNext]_history
                 PROVE  Inv' /\ [~met' => Lifecycle!Next]_(Lifecycle!vars)
      OBVIOUS
    <2>1. CASE met'
      BY <2>1
    <2>2. CASE ~met'
      <3>1. ~met /\ Serial /\ SerialInv /\ Serial' /\ [Next]_vars
        <4>1. CASE HistoryNext
          BY <2>2, <4>1 DEF HistoryNext, Meets
        <4>2. CASE UNCHANGED history
          BY <2>2, <4>2 DEF history, vars, Serial, Alone
        <4>3. QED
          BY <4>1, <4>2
      <3>2. QED
        BY <3>1, SerialNext
    <2>3. QED
      BY <2>1, <2>2
  <1>5. QED
    BY <1>1, <1>2, <1>3, <1>4, PTL
      DEF History, HistoryInit, LifecycleWhenSerial
=============================================================================
