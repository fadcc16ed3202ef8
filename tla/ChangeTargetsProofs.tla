------------------------ MODULE ChangeTargetsProofs ------------------------
(***************************************************************************)
(* Proofs about IosTarget, for any number of changes, targets, items,      *)
(* faults and reloads:                                                     *)
(*                                                                         *)
(*   TypeCorrect       every variable keeps its type;                      *)
(*   SavesVerified     a change that is alone on its device saves nothing  *)
(*                     that was not verified;                              *)
(*   OutcomesLast      changes to different items do not disturb each      *)
(*                     other's outcome;                                    *)
(*   StagesTellTruth   for them, failure_stage tells the truth;            *)
(*                                                                         *)
(* and what DhcpSidecarProofs proves, for the instance with a history that *)
(* ChangeTargets checks:                                                   *)
(*                                                                         *)
(*   TypesCorrect, UndoThere, ManifestStays, OutcomesStand.                *)
(***************************************************************************)
EXTENDS ChangeTargets, TLAPS

\* The blocks of a change are sequences of commands.
LEMMA PlanType ==
  ASSUME TypeOK, NEW c \in Changes
  PROVE  /\ plan[c].apply \in Seq(Command)
         /\ plan[c].rollback \in Seq(Command)
         /\ Lines(c) \in Seq(Command)
BY ConstantsOK DEF TypeOK, Lines

\* What a step does to the record and to its request.
Written(c) ==
  /\ status' \in [Changes -> {"approved", "applying", "applied", "failed", "rolled_back"}]
  /\ stage' \in [Changes -> {"none", "apply", "verify", "rollback"}]
  /\ job' \in [Changes -> Record]

LEMMA EndType ==
  ASSUME TypeOK, NEW c \in Changes,
         NEW result \in {"applied", "failed", "rolled_back"},
         NEW why \in {"none", "apply", "verify", "rollback"}, End(c, result, why)
  PROVE  Written(c)
<1>1. Job("idle", job[c].mode, 1, TRUE, "none") \in Record
  <2>1. job[c].mode \in {"none", "apply", "rollback"}
    BY DEF TypeOK, Record
  <2> QED BY <2>1 DEF Job, Record
<1> QED BY <1>1 DEF TypeOK, End, Written

LEMMA FailType ==
  ASSUME TypeOK, NEW c \in Changes, Fail(c)
  PROVE  Written(c)
<1>1. StageOf(job[c].pc) \in {"apply", "verify"}
  BY DEF StageOf
<1>2. CASE End(c, "failed", StageOf(job[c].pc))
  BY <1>1, <1>2, EndType
<1>3. Job("undo", "apply", 1, TRUE, StageOf(job[c].pc)) \in Record
  BY <1>1 DEF Job, Record
<1>4. CASE /\ job' = [job EXCEPT ![c] = Job("undo", "apply", 1, TRUE, StageOf(job[c].pc))]
           /\ UNCHANGED store
  BY <1>3, <1>4 DEF TypeOK, Written, store
<1> QED BY <1>2, <1>4 DEF Fail

LEMMA GoType ==
  ASSUME TypeOK, NEW c \in Changes,
         NEW pc \in {"push", "verify", "save"}, Go(c, pc)
  PROVE  job' \in [Changes -> Record]
<1>1. job[c].mode \in {"none", "apply", "rollback"}
  BY DEF TypeOK, Record
<1>2. Job(pc, job[c].mode, 1, TRUE, "none") \in Record
  BY <1>1 DEF Job, Record
<1> QED BY <1>2 DEF TypeOK, Go

LEMMA AdvanceType ==
  ASSUME TypeOK, NEW c \in Changes,
         \/ Advance(c)
         \/ \E ok \in BOOLEAN : Result(c, ok)
  PROVE  job' \in [Changes -> Record]
<1>1. /\ job[c].pc \in {"idle", "backup", "push", "verify", "save", "undo"}
      /\ job[c].mode \in {"none", "apply", "rollback"}
      /\ job[c].k + 1 \in Nat \ {0}
      /\ job[c].why \in {"none", "apply", "verify"}
  BY DEF TypeOK, Record
<1>2. CASE Advance(c)
  <2>1. Job(job[c].pc, job[c].mode, job[c].k + 1, TRUE, job[c].why) \in Record
    BY <1>1 DEF Job, Record
  <2> QED BY <1>2, <2>1 DEF TypeOK, Advance
<1>3. ASSUME NEW ok \in BOOLEAN, Result(c, ok)
      PROVE  job' \in [Changes -> Record]
  <2>1. Job("verify", job[c].mode, job[c].k + 1, ok, "none") \in Record
    BY <1>1 DEF Job, Record
  <2> QED BY <1>3, <2>1 DEF TypeOK, Result
<1> QED BY <1>2, <1>3

LEMMA DoType ==
  ASSUME NEW cfg \in SUBSET Items, NEW cmd \in Command
  PROVE  Do(cfg, cmd) \in SUBSET Items
BY DEF Do, Command

LEMMA FaultType ==
  ASSUME TypeOK, Fault \/ UNCHANGED faults
  PROVE  faults' \in 0 .. MaxFaults
BY ConstantsOK DEF TypeOK, Fault

LEMMA TypeStep ==
  ASSUME TypeOK, [Next]_vars
  PROVE  TypeOK'
<1> USE DEF TypeOK, store, device, history
<1>1. ASSUME NEW c \in Changes, Apply(c)
      PROVE  TypeOK'
  <2>1. Job("backup", "apply", 1, TRUE, "none") \in Record
    BY DEF Job, Record
  <2> QED BY <1>1, <2>1 DEF Apply
<1>2. ASSUME NEW c \in Changes, RollBack(c)
      PROVE  TypeOK'
  <2>1. /\ Job("backup", "rollback", 1, TRUE, "none") \in Record
        /\ Job("idle", "rollback", 1, TRUE, "none") \in Record
    BY DEF Job, Record
  <2> QED BY <1>2, <2>1 DEF RollBack
<1>3. ASSUME NEW c \in Changes, Backup(c)
      PROVE  TypeOK'
  <2>1. Written(c)
    BY <1>3, GoType, FailType DEF Backup, Written
  <2>2. faults' \in 0 .. MaxFaults
    BY <1>3, FaultType DEF Backup
  <2> QED BY <1>3, <2>1, <2>2 DEF Backup, Written
<1>4. ASSUME NEW c \in Changes, PushLine(c)
      PROVE  TypeOK'
  <2>1. Written(c)
    BY <1>4, AdvanceType, FailType DEF PushLine, Written
  <2>2. faults' \in 0 .. MaxFaults
    BY <1>4, FaultType DEF PushLine
  <2>3. running' \subseteq Items
    BY <1>4, PlanType, DoType DEF PushLine
  <2> QED BY <1>4, <2>1, <2>2, <2>3 DEF PushLine, Written
<1>5. ASSUME NEW c \in Changes, PushDone(c)
      PROVE  TypeOK'
  BY <1>5, GoType DEF PushDone
<1>6. ASSUME NEW c \in Changes, VerifyEntry(c)
      PROVE  TypeOK'
  <2>1. Written(c)
    <3>1. (job[c].ok /\ Passes(Verify(c)[job[c].k], Expect(c), running)) \in BOOLEAN
      OBVIOUS
    <3> QED BY <1>6, <3>1, AdvanceType, FailType DEF VerifyEntry, Written
  <2>2. faults' \in 0 .. MaxFaults
    BY <1>6, FaultType DEF VerifyEntry
  <2> QED BY <1>6, <2>1, <2>2 DEF VerifyEntry, Written
<1>7. ASSUME NEW c \in Changes, Verdict(c)
      PROVE  TypeOK'
  <2>1. Written(c)
    BY <1>7, GoType, FailType DEF Verdict, Written
  <2> QED BY <1>7, <2>1 DEF Verdict, Written
<1>8. ASSUME NEW c \in Changes, WriteMemory(c)
      PROVE  TypeOK'
  <2>1. Written(c)
    BY <1>8, EndType, FailType DEF WriteMemory, Outcome
  <2>2. faults' \in 0 .. MaxFaults
    BY <1>8, FaultType DEF WriteMemory
  <2> QED BY <1>8, <2>1, <2>2 DEF WriteMemory, Written
<1>9. ASSUME NEW c \in Changes, UndoLine(c)
      PROVE  TypeOK'
  <2>1. Written(c)
    BY <1>9, AdvanceType, EndType DEF UndoLine, Written
  <2>2. faults' \in 0 .. MaxFaults
    BY <1>9, FaultType DEF UndoLine
  <2>3. running' \subseteq Items
    BY <1>9, PlanType, DoType DEF UndoLine
  <2> QED BY <1>9, <2>1, <2>2, <2>3 DEF UndoLine, Written
<1>10. ASSUME NEW c \in Changes, UndoDone(c)
       PROVE  TypeOK'
  <2>1. job[c].why \in {"none", "apply", "verify"}
    BY DEF Record
  <2>2. Written(c)
    BY <1>10, <2>1, EndType DEF UndoDone
  <2> QED BY <1>10, <2>2 DEF UndoDone, Written
<1>11. CASE Reload
  BY <1>11, ConstantsOK DEF Reload
<1>12. CASE UNCHANGED vars
  BY <1>12 DEF vars
<1> QED BY <1>1, <1>2, <1>3, <1>4, <1>5, <1>6, <1>7, <1>8, <1>9, <1>10, <1>11,
            <1>12 DEF Next, Work

LEMMA TypeInit == Init => TypeOK
<1> SUFFICES ASSUME Init PROVE TypeOK
  OBVIOUS
<1>1. Idle \in Record
  BY DEF Idle, Job, Record
<1> QED BY <1>1, ConstantsOK DEF Init, TypeOK

\* Every variable keeps its type (change_store.VALID_STATUSES and the values
\* that apply_change gives failure_stage).
THEOREM TypeCorrect == Spec => []TypeOK
BY TypeInit, TypeStep, PTL DEF Spec
-----------------------------------------------------------------------------
(* What is saved                                                           *)

\* cfg differs from the configuration at the start only where a change that
\* was started has touched it.
ByStarted(cfg) ==
  \A x \in Items :
    (x \in cfg) # (x \in base) => \E c \in Changes : Started(c) /\ x \in Touched(c)

\* NothingUnverifiedSaved is inductive together with: both configurations
\* were changed by started changes only, a change at work was started, and
\* one about to write to memory has passed its verification.
SaveInv ==
  /\ ByStarted(running) /\ ByStarted(startup)
  /\ NothingUnverifiedSaved
  /\ \A c \in Changes : job[c].pc = "save" => c \in verified
  /\ \A c \in Changes : job[c].pc # "idle" => Started(c)

\* A line of a change changes only an item that the change touches.
LEMMA LineTouches ==
  ASSUME TypeOK, NEW c \in Changes,
         NEW cmds \in {plan[c].apply, plan[c].rollback}, NEW k \in DOMAIN cmds
  PROVE  /\ cmds[k] \in Command
         /\ cmds[k].item \in Touched(c)
<1>1. cmds \in Seq(Command)
  BY PlanType
<1>2. cmds[k] \in Command
  BY <1>1
<1>3. cmds[k].item \in ItemsOf(cmds)
  BY DEF ItemsOf
<1> QED BY <1>2, <1>3 DEF Touched

LEMMA LinesAre ==
  ASSUME NEW c \in Changes
  PROVE  Lines(c) \in {plan[c].apply, plan[c].rollback}
BY DEF Lines

LEMMA DoChanges ==
  ASSUME NEW cfg, NEW cmd, NEW x, x # cmd.item
  PROVE  x \in Do(cfg, cmd) <=> x \in cfg
BY DEF Do

\* A step that sends a line of c.
LEMMA SendKeeps ==
  ASSUME TypeOK, ByStarted(running), NEW c \in Changes, Started(c),
         NEW cmds \in {plan[c].apply, plan[c].rollback}, NEW k \in DOMAIN cmds,
         NEW cfg, cfg = Do(running, cmds[k]) \/ cfg = running
  PROVE  ByStarted(cfg)
<1> SUFFICES ASSUME NEW x \in Items, (x \in cfg) # (x \in base)
             PROVE  \E d \in Changes : Started(d) /\ x \in Touched(d)
  BY DEF ByStarted
<1>1. CASE x = cmds[k].item
  BY <1>1, LineTouches
<1>2. CASE x # cmds[k].item
  BY <1>2, DoChanges DEF ByStarted
<1> QED BY <1>1, <1>2

\* A request leaves the records and requests of the other changes alone.
LEMMA OthersKeep ==
  ASSUME TypeOK, NEW c \in Changes, NEW d \in Changes, c # d,
         Apply(d) \/ RollBack(d) \/ Work(d)
  PROVE  /\ job'[c] = job[c] /\ status'[c] = status[c] /\ stage'[c] = stage[c]
         /\ pre'[c] = pre[c] /\ (c \in refused' <=> c \in refused)
<1> USE DEF TypeOK, store, device, history
<1>1. \A r, w : End(d, r, w) => job'[c] = job[c] /\ status'[c] = status[c] /\ stage'[c] = stage[c]
  BY DEF End
<1>2. Fail(d) => job'[c] = job[c] /\ status'[c] = status[c] /\ stage'[c] = stage[c]
  BY <1>1 DEF Fail
<1>3. (\E pc : Go(d, pc)) \/ Advance(d) \/ (\E ok : Result(d, ok)) => job'[c] = job[c]
  BY DEF Go, Advance, Result
<1>4. CASE Apply(d)
  BY <1>4 DEF Apply
<1>5. CASE RollBack(d)
  BY <1>5 DEF RollBack
<1>6. CASE Backup(d)
  BY <1>6, <1>2, <1>3 DEF Backup
<1>7. CASE PushLine(d)
  BY <1>7, <1>2, <1>3 DEF PushLine
<1>8. CASE PushDone(d)
  BY <1>8, <1>3 DEF PushDone
<1>9. CASE VerifyEntry(d)
  BY <1>9, <1>2, <1>3 DEF VerifyEntry
<1>10. CASE Verdict(d)
  BY <1>10, <1>2, <1>3 DEF Verdict
<1>11. CASE WriteMemory(d)
  BY <1>11, <1>1, <1>2 DEF WriteMemory
<1>12. CASE UndoLine(d)
  BY <1>12, <1>1, <1>3 DEF UndoLine
<1>13. CASE UndoDone(d)
  BY <1>13, <1>1 DEF UndoDone
<1> QED BY <1>4, <1>5, <1>6, <1>7, <1>8, <1>9, <1>10, <1>11, <1>12, <1>13 DEF Work

\* No request makes a change wait for its apply again.
LEMMA StaysStarted ==
  ASSUME TypeOK, [Next]_vars, NEW c \in Changes, Started(c)
  PROVE  Started(c)'
<1> USE DEF TypeOK, store, device, history, Started
<1>1. \A d \in Changes, r \in {"applied", "failed", "rolled_back"} : \A w :
        End(d, r, w) => status'[c] # "approved"
  BY DEF End
<1>2. \A d \in Changes : Fail(d) => status'[c] # "approved"
  BY <1>1 DEF Fail
<1>3. \A d \in Changes : Outcome(d) \in {"applied", "rolled_back"}
  BY DEF Outcome
<1>4. ASSUME NEW d \in Changes, Apply(d) \/ RollBack(d) \/ Work(d)
      PROVE  status'[c] # "approved"
  <2>1. CASE Apply(d) \/ RollBack(d)
    BY <2>1 DEF Apply, RollBack
  <2>2. CASE Backup(d) \/ PushLine(d) \/ PushDone(d) \/ VerifyEntry(d) \/ Verdict(d)
    BY <2>2, <1>2 DEF Backup, PushLine, PushDone, VerifyEntry, Verdict
  <2>3. CASE WriteMemory(d)
    BY <2>3, <1>1, <1>2, <1>3 DEF WriteMemory
  <2>4. CASE UndoLine(d) \/ UndoDone(d)
    BY <2>4, <1>1 DEF UndoLine, UndoDone
  <2> QED BY <1>4, <2>1, <2>2, <2>3, <2>4 DEF Work
<1> QED BY <1>4 DEF Next, vars, Reload

LEMMA SaveStep ==
  ASSUME TypeOK, TypeOK', SaveInv, [Next]_vars
  PROVE  SaveInv'
<1> USE DEF TypeOK, store, device, history
<1>0. plan' = plan /\ base' = base
  BY DEF Next, vars, Work, Apply, RollBack, Backup, PushLine, PushDone, VerifyEntry,
         Verdict, WriteMemory, UndoLine, UndoDone, Reload
<1>1. \A c \in Changes : Touched(c)' = Touched(c) /\ (Started(c) => Started(c)')
  BY <1>0, StaysStarted DEF Touched
<1>2. ASSUME NEW cfg, ByStarted(cfg)
      PROVE  \A x \in Items : (x \in cfg) # (x \in base)' =>
               \E c \in Changes : Started(c)' /\ x \in Touched(c)'
  BY <1>0, <1>1, <1>2 DEF ByStarted
<1>3. ByStarted(running)'
  <2> SUFFICES ASSUME NEW cfg, cfg = running'
               PROVE  ByStarted(cfg)
    BY <1>2 DEF ByStarted
  <2>1. ASSUME NEW c \in Changes, PushLine(c)
        PROVE  ByStarted(cfg)
    <3>1. running' = Do(running, Lines(c)[job[c].k]) \/ running' = running
      BY <2>1 DEF PushLine
    <3>2. Started(c) /\ job[c].k \in DOMAIN Lines(c)
      BY <2>1 DEF PushLine, SaveInv
    <3> QED BY <3>1, <3>2, SendKeeps, LinesAre DEF SaveInv
  <2>2. ASSUME NEW c \in Changes, UndoLine(c)
        PROVE  ByStarted(cfg)
    <3>1. running' = Do(running, plan[c].rollback[job[c].k]) \/ running' = running
      BY <2>2 DEF UndoLine
    <3>2. Started(c) /\ job[c].k \in DOMAIN plan[c].rollback
      BY <2>2 DEF UndoLine, SaveInv
    <3> QED BY <3>1, <3>2, SendKeeps DEF SaveInv
  <2>3. CASE running' = startup \/ running' = running
    BY <2>3 DEF SaveInv, ByStarted
  <2> QED
    BY <2>1, <2>2, <2>3
    DEF Next, vars, Work, Apply, RollBack, Backup, PushDone, VerifyEntry, Verdict,
        WriteMemory, UndoDone, Reload
<1>4. ByStarted(startup)'
  <2>1. startup' = startup \/ startup' = running
    BY DEF Next, vars, Work, Apply, RollBack, Backup, PushLine, PushDone, VerifyEntry,
           Verdict, WriteMemory, UndoLine, UndoDone, Reload
  <2> QED BY <2>1, <1>2 DEF SaveInv, ByStarted
<1>5. verified \subseteq verified'
  BY DEF Next, vars, Work, Apply, RollBack, Backup, PushLine, PushDone, VerifyEntry,
         Verdict, WriteMemory, UndoLine, UndoDone, Reload
<1>6. NothingUnverifiedSaved'
  <2> SUFFICES ASSUME \A c, d \in Changes : Started(c)' /\ Started(d)' => c = d,
                      NEW x \in Items, (x \in startup') # (x \in base)
               PROVE  \E c \in verified' : x \in Touched(c)'
    BY <1>0 DEF NothingUnverifiedSaved
  <2>0. \A c, d \in Changes : Started(c) /\ Started(d) => c = d
    BY <1>1
  <2>1. CASE startup' = startup
    <3>1. PICK c \in verified : x \in Touched(c)
      BY <2>0, <2>1 DEF SaveInv, NothingUnverifiedSaved
    <3> QED BY <3>1, <1>1, <1>5
  <2>2. ASSUME NEW c \in Changes, WriteMemory(c), startup' = running
        PROVE  \E d \in verified' : x \in Touched(d)'
    <3>1. c \in verified /\ Started(c)
      BY <2>2 DEF WriteMemory, SaveInv
    <3>2. x \in Touched(c)
      BY <2>0, <2>2, <3>1 DEF SaveInv, ByStarted
    <3> QED BY <3>1, <3>2, <1>1, <1>5
  <2> QED
    BY <2>1, <2>2
    DEF Next, vars, Work, Apply, RollBack, Backup, PushLine, PushDone, VerifyEntry,
        Verdict, UndoLine, UndoDone, Reload, WriteMemory
<1>7. ASSUME NEW c \in Changes
      PROVE  /\ job'[c].pc = "save" => c \in verified'
             /\ job'[c].pc # "idle" => Started(c)'
  <2>1. CASE job'[c].pc = job[c].pc
    BY <2>1, <1>1, <1>5 DEF SaveInv
  <2>2. \A d \in Changes : Fail(d) => d # c \/ job'[c].pc \in {"idle", "undo"}
    BY DEF Fail, End, Job
  <2>3. \A d \in Changes : \A r, w : End(d, r, w) => d # c \/ job'[c].pc = "idle"
    BY DEF End, Job
  <2>4. ASSUME NEW d \in Changes, d # c, Apply(d) \/ RollBack(d) \/ Work(d)
        PROVE  job'[c] = job[c]
    BY <2>4, OthersKeep
  <2>5. CASE Apply(c) \/ RollBack(c)
    BY <2>5 DEF Apply, RollBack, Job, Started
  <2>6. CASE Verdict(c)
    <3>1. Started(c)
      BY <2>6 DEF Verdict, SaveInv
    <3>2. job'[c].pc = "save" => c \in verified'
      BY <2>6, <2>2 DEF Verdict
    <3> QED BY <3>1, <3>2, <1>1
  <2>7. CASE Backup(c) \/ PushLine(c) \/ PushDone(c) \/ VerifyEntry(c) \/ WriteMemory(c)
               \/ UndoLine(c) \/ UndoDone(c)
    <3>1. Started(c)
      BY <2>7 DEF Backup, PushLine, PushDone, VerifyEntry, WriteMemory, UndoLine,
                  UndoDone, SaveInv
    <3>2. job'[c].pc # "save" \/ job'[c].pc = job[c].pc
      BY <2>7, <2>2, <2>3
      DEF Backup, PushLine, PushDone, VerifyEntry, WriteMemory, UndoLine, UndoDone,
          Go, Advance, Result, Job
    <3> QED BY <3>1, <3>2, <2>1, <1>1
  <2>8. CASE UNCHANGED vars \/ Reload
    BY <2>8, <2>1 DEF vars, Reload
  <2> QED BY <2>1, <2>4, <2>5, <2>6, <2>7, <2>8 DEF Next, Work
<1> QED BY <1>3, <1>4, <1>6, <1>7 DEF SaveInv

\* Nothing that was not verified is ever saved by a change that is alone on
\* its device, whatever raises, whatever the device refuses and however often
\* it reloads (apply_change: write_memory only after verify_target passed).
THEOREM SavesVerified == Spec => []NothingUnverifiedSaved
<1>1. Init => SaveInv
  BY DEF Init, SaveInv, NothingUnverifiedSaved, ByStarted, Started, Idle, Job
<1>2. TypeOK /\ TypeOK' /\ SaveInv /\ [Next]_vars => SaveInv'
  BY SaveStep
<1>3. SaveInv => NothingUnverifiedSaved
  BY DEF SaveInv
<1> QED BY <1>1, <1>2, <1>3, TypeCorrect, PTL DEF Spec
-----------------------------------------------------------------------------
(* Changes to different items                                              *)

Apart ==
  \A c, d \in Changes : c # d =>
    \A s \in Targets[c], t \in Targets[d] :
      (ItemsOf(s.apply) \union ItemsOf(s.rollback))
        \intersect (ItemsOf(t.apply) \union ItemsOf(t.rollback)) = {}

\* InForce for the first k - 1 commands.
InForceTo(cfg, cmds, k) ==
  \A m \in DOMAIN cmds :
    /\ m < k
    /\ \A n \in DOMAIN cmds : m < n /\ n < k => cmds[n].item # cmds[m].item
    => (cmds[m].item \in cfg <=> cmds[m].op = "add")

\* Each item of the first k - 1 commands has a last command about it.
LastKnown(cmds, k) ==
  \A m \in DOMAIN cmds : m < k =>
    \E n \in DOMAIN cmds :
      /\ n < k /\ cmds[n].item = cmds[m].item
      /\ \A l \in DOMAIN cmds : n < l /\ l < k => cmds[l].item # cmds[n].item

LEMMA ForceFrame ==
  ASSUME NEW a, NEW b, NEW cmds, NEW k,
         \A x \in ItemsOf(cmds) : x \in a <=> x \in b
  PROVE  /\ InForceTo(a, cmds, k) => InForceTo(b, cmds, k)
         /\ InForce(a, cmds) => InForce(b, cmds)
<1>1. \A m \in DOMAIN cmds : cmds[m].item \in a <=> cmds[m].item \in b
  BY DEF ItemsOf
<1> QED BY <1>1 DEF InForceTo, InForce

LEMMA ForceStart ==
  ASSUME NEW cfg, NEW cmds \in Seq(Command)
  PROVE  InForceTo(cfg, cmds, 1) /\ LastKnown(cmds, 1)
BY DEF InForceTo, LastKnown

LEMMA ForceNext ==
  ASSUME NEW cfg, NEW cmds \in Seq(Command), NEW k \in DOMAIN cmds,
         InForceTo(cfg, cmds, k)
  PROVE  InForceTo(Do(cfg, cmds[k]), cmds, k + 1)
<1> DEFINE new == Do(cfg, cmds[k])
<1> SUFFICES ASSUME NEW m \in DOMAIN cmds, m < k + 1,
                    \A n \in DOMAIN cmds : m < n /\ n < k + 1 => cmds[n].item # cmds[m].item
             PROVE  cmds[m].item \in new <=> cmds[m].op = "add"
  BY DEF InForceTo
<1>1. cmds[k] \in Command /\ cmds[m] \in Command /\ m \in Nat /\ k \in Nat
  OBVIOUS
<1>2. CASE m = k
  BY <1>1, <1>2 DEF Do, Command
<1>3. CASE m # k
  <2>1. m < k
    BY <1>1, <1>3
  <2>2. \A n \in DOMAIN cmds : m < n /\ n < k => cmds[n].item # cmds[m].item
    BY <1>1
  <2>3. cmds[m].item \in cfg <=> cmds[m].op = "add"
    BY <2>1, <2>2 DEF InForceTo
  <2>4. cmds[k].item # cmds[m].item
    BY <1>1, <2>1
  <2> QED BY <2>3, <2>4, DoChanges
<1> QED BY <1>2, <1>3

LEMMA LastNext ==
  ASSUME NEW cmds \in Seq(Command), NEW k \in DOMAIN cmds, LastKnown(cmds, k)
  PROVE  LastKnown(cmds, k + 1)
<1> SUFFICES ASSUME NEW m \in DOMAIN cmds, m < k + 1
             PROVE  \E n \in DOMAIN cmds :
                      /\ n < k + 1 /\ cmds[n].item = cmds[m].item
                      /\ \A l \in DOMAIN cmds : n < l /\ l < k + 1
                                                  => cmds[l].item # cmds[n].item
  BY DEF LastKnown
<1>1. m \in Nat /\ k \in Nat
  OBVIOUS
<1>2. CASE cmds[m].item = cmds[k].item
  <2>1. \A l \in DOMAIN cmds : ~(k < l /\ l < k + 1)
    BY <1>1
  <2> QED BY <1>1, <1>2, <2>1
<1>3. CASE cmds[m].item # cmds[k].item
  <2>1. m < k
    BY <1>1, <1>3
  <2>2. PICK n \in DOMAIN cmds :
          /\ n < k /\ cmds[n].item = cmds[m].item
          /\ \A l \in DOMAIN cmds : n < l /\ l < k => cmds[l].item # cmds[n].item
    BY <2>1 DEF LastKnown
  <2>3. n < k + 1
    BY <1>1, <2>2
  <2>4. ASSUME NEW l \in DOMAIN cmds, n < l, l < k + 1
        PROVE  cmds[l].item # cmds[n].item
    <3>1. l < k \/ l = k
      BY <1>1, <2>4
    <3> QED BY <1>3, <2>2, <2>4, <3>1
  <2> QED BY <2>2, <2>3, <2>4
<1> QED BY <1>2, <1>3

LEMMA ForceEnd ==
  ASSUME NEW cfg, NEW cmds \in Seq(Command), NEW k \in Nat \ {0},
         k \notin DOMAIN cmds, InForceTo(cfg, cmds, k)
  PROVE  InForce(cfg, cmds)
<1>1. \A m \in DOMAIN cmds : m \in Nat /\ m < k
  OBVIOUS
<1> QED BY <1>1 DEF InForceTo, InForce

\* What is in force after a list of commands decides all its items.
LEMMA ForceDecides ==
  ASSUME NEW a, NEW b, NEW cmds \in Seq(Command), NEW k \in Nat \ {0},
         k \notin DOMAIN cmds, LastKnown(cmds, k),
         InForce(a, cmds), InForce(b, cmds), NEW x \in ItemsOf(cmds)
  PROVE  x \in a <=> x \in b
<1>1. PICK m \in DOMAIN cmds : x = cmds[m].item
  BY DEF ItemsOf
<1>2. \A l \in DOMAIN cmds : l \in Nat /\ l < k
  OBVIOUS
<1>3. PICK n \in DOMAIN cmds :
        /\ cmds[n].item = cmds[m].item
        /\ \A l \in DOMAIN cmds : n < l => cmds[l].item # cmds[n].item
  BY <1>2 DEF LastKnown
<1>4. \A l \in DOMAIN cmds : l > n => cmds[l].item # cmds[n].item
  BY <1>2, <1>3
<1> QED BY <1>1, <1>3, <1>4 DEF InForce

\* How far the request of c has come, and what its end leaves behind.  For
\* changes that are apart, Progress is inductive.
PushProgress(c) ==
  job[c].pc = "push" /\ c \notin refused => InForceTo(running, Lines(c), job[c].k)

PushedInForce(c) ==
  job[c].pc \in {"verify", "save"} /\ c \notin refused => InForce(running, Lines(c))

UndoProgress(c) ==
  job[c].pc = "undo" =>
    /\ job[c].mode = "apply"
    /\ LastKnown(plan[c].rollback, job[c].k)
    /\ c \notin refused => InForceTo(running, plan[c].rollback, job[c].k)

Outcomes(c) ==
  c \notin refused =>
    /\ status[c] = "applied" /\ Settled(c, "apply") =>
         InForce(running, plan[c].apply) /\ InForce(startup, plan[c].apply)
    /\ status[c] = "rolled_back" /\ Settled(c, "rollback") =>
         InForce(running, plan[c].rollback) /\ InForce(startup, plan[c].rollback)

Truth(c) ==
  /\ status[c] = "failed" /\ Settled(c, "apply") /\ reloads = 0
  /\ stage[c] # "rollback" /\ c \notin refused /\ Reversible(c)
  => Agree(c, running)

Progress(c) ==
  PushProgress(c) /\ PushedInForce(c) /\ UndoProgress(c) /\ Outcomes(c) /\ Truth(c)

ProgressInv == \A c \in Changes : Progress(c)

LEMMA PlanStays ==
  ASSUME [Next]_vars
  PROVE  /\ plan' = plan
         /\ \A c \in Changes : Touched(c)' = Touched(c)
<1>1. plan' = plan
  BY DEF Next, vars, Work, Apply, RollBack, Backup, PushLine, PushDone, VerifyEntry,
         Verdict, WriteMemory, UndoLine, UndoDone, Reload
<1> QED BY <1>1 DEF Touched

\* The work of d does not disturb what c touches.
LEMMA OthersApart ==
  ASSUME TypeOK, Apart, NEW c \in Changes, NEW d \in Changes, c # d,
         Apply(d) \/ RollBack(d) \/ Work(d)
  PROVE  /\ \A x \in Touched(c) : x \in running' <=> x \in running
         /\ startup' = startup \/ startup' = running
         /\ reloads' = reloads
<1> USE DEF device, history
<1>1. \A cmds \in {plan[d].apply, plan[d].rollback} : \A k \in DOMAIN cmds :
        cmds[k].item \notin Touched(c)
  <2> SUFFICES ASSUME NEW cmds \in {plan[d].apply, plan[d].rollback},
                      NEW k \in DOMAIN cmds
               PROVE  cmds[k].item \notin Touched(c)
    OBVIOUS
  <2>1. cmds[k].item \in Touched(d)
    BY LineTouches
  <2>2. plan[c] \in Targets[c] /\ plan[d] \in Targets[d]
    BY DEF TypeOK
  <2>3. Touched(c) \intersect Touched(d) = {}
    BY <2>2 DEF Apart, Touched
  <2> QED BY <2>1, <2>3
<1>2. CASE PushLine(d)
  <2>1. running' = Do(running, Lines(d)[job[d].k]) \/ running' = running
    BY <1>2 DEF PushLine
  <2>2. Lines(d)[job[d].k].item \notin Touched(c)
    BY <1>1, <1>2, LinesAre DEF PushLine
  <2>3. \A x \in Touched(c) : x \in running' <=> x \in running
    BY <2>1, <2>2, DoChanges
  <2> QED BY <1>2, <2>3 DEF PushLine
<1>3. CASE UndoLine(d)
  <2>1. running' = Do(running, plan[d].rollback[job[d].k]) \/ running' = running
    BY <1>3 DEF UndoLine
  <2>2. plan[d].rollback[job[d].k].item \notin Touched(c)
    BY <1>1, <1>3 DEF UndoLine
  <2>3. \A x \in Touched(c) : x \in running' <=> x \in running
    BY <2>1, <2>2, DoChanges
  <2> QED BY <1>3, <2>3 DEF UndoLine
<1>4. CASE Apply(d) \/ RollBack(d) \/ Backup(d) \/ PushDone(d) \/ VerifyEntry(d)
             \/ Verdict(d) \/ WriteMemory(d) \/ UndoDone(d)
  BY <1>4 DEF Apply, RollBack, Backup, PushDone, VerifyEntry, Verdict, WriteMemory, UndoDone
<1> QED BY <1>2, <1>3, <1>4 DEF Work

\* A step after which the records of c are as before, and the device agrees
\* with what it was on everything that c touches.
LEMMA FrameProgress ==
  ASSUME TypeOK, NEW c \in Changes, Progress(c), plan' = plan,
         job'[c] = job[c], status'[c] = status[c], stage'[c] = stage[c],
         pre'[c] = pre[c], c \in refused' <=> c \in refused, reloads' = reloads,
         \A x \in Touched(c) : x \in running' <=> x \in running,
         startup' = startup \/ startup' = running
  PROVE  Progress(c)'
<1>1. Lines(c)' = Lines(c)
  BY DEF Lines
<1>2. \A cmds \in {plan[c].apply, plan[c].rollback} : ItemsOf(cmds) \subseteq Touched(c)
  BY DEF Touched
<1>3. \A cmds \in {plan[c].apply, plan[c].rollback} :
        /\ \A k : InForceTo(running, cmds, k) => InForceTo(running', cmds, k)
        /\ InForce(running, cmds) => InForce(running', cmds)
        /\ InForce(running, cmds) /\ InForce(startup, cmds) => InForce(startup', cmds)
  BY <1>2, ForceFrame
<1>4. PushProgress(c)' /\ PushedInForce(c)'
  BY <1>1, <1>3, LinesAre DEF Progress, PushProgress, PushedInForce
<1>5. UndoProgress(c)'
  BY <1>3 DEF Progress, UndoProgress
<1>6. Outcomes(c)'
  BY <1>3 DEF Progress, Outcomes, Settled
<1>7. Truth(c)'
  <2>1. Touched(c)' = Touched(c) /\ (Reversible(c)' <=> Reversible(c))
    BY DEF Touched, Reversible
  <2>2. Agree(c, running) => Agree(c, running)'
    BY <2>1 DEF Agree
  <2> QED BY <2>1, <2>2 DEF Progress, Truth, Settled
<1> QED BY <1>4, <1>5, <1>6, <1>7 DEF Progress

\* A request that only begins, or that waits for its next step, claims nothing.
LEMMA WaitingProgress ==
  ASSUME NEW c \in Changes, job'[c].pc = "backup"
  PROVE  Progress(c)'
BY DEF Progress, PushProgress, PushedInForce, UndoProgress, Outcomes, Truth, Settled

LEMMA FailProgress ==
  ASSUME TypeOK, NEW c \in Changes, plan' = plan, Fail(c)
  PROVE  Progress(c)'
<1> USE DEF TypeOK, store
<1>1. ASSUME NEW why, End(c, "failed", why),
             job[c].mode = "rollback" \/ plan[c].rollback = <<>>
      PROVE  Progress(c)'
  <2>1. job'[c] = Job("idle", job[c].mode, 1, TRUE, "none") /\ status'[c] = "failed"
    BY <1>1 DEF End
  <2>2. PushProgress(c)' /\ PushedInForce(c)' /\ UndoProgress(c)' /\ Outcomes(c)'
    BY <2>1 DEF PushProgress, PushedInForce, UndoProgress, Outcomes, Job
  <2>3. ASSUME plan[c].rollback = <<>>
        PROVE  Truth(c)'
    <3>1. ItemsOf(plan[c].rollback) = {}
      BY <2>3 DEF ItemsOf
    <3>2. Reversible(c)' => Touched(c)' = {}
      BY <3>1 DEF Reversible, Touched
    <3> QED BY <3>2 DEF Truth, Agree
  <2>4. ASSUME job[c].mode = "rollback"
        PROVE  Truth(c)'
    BY <2>1, <2>4 DEF Truth, Settled, Job
  <2> QED BY <1>1, <2>2, <2>3, <2>4 DEF Progress
<1>2. CASE job' = [job EXCEPT ![c] = Job("undo", "apply", 1, TRUE, StageOf(job[c].pc))]
  <2>1. job'[c].pc = "undo" /\ job'[c].mode = "apply" /\ job'[c].k = 1
    BY <1>2 DEF Job
  <2>2. plan'[c].rollback \in Seq(Command)
    BY PlanType
  <2>3. /\ LastKnown(plan'[c].rollback, 1)
        /\ InForceTo(running', plan'[c].rollback, 1)
    BY <2>2, ForceStart
  <2> QED
    BY <2>1, <2>3
    DEF Progress, PushProgress, PushedInForce, UndoProgress, Outcomes, Truth, Settled
<1> QED BY <1>1, <1>2 DEF Fail

\* Sending the lines of c.
LEMMA PushStep ==
  ASSUME TypeOK, NEW c \in Changes, Progress(c), plan' = plan, PushLine(c)
  PROVE  Progress(c)'
<1> USE DEF TypeOK, store, device, history
<1>1. CASE Fail(c)
  BY <1>1, FailProgress
<1>2. ASSUME Advance(c),
             \/ running' = Do(running, Lines(c)[job[c].k]) /\ refused' = refused
             \/ c \in refused'
      PROVE  Progress(c)'
  <2>1. /\ job'[c].pc = "push" /\ job'[c].k = job[c].k + 1
        /\ Lines(c)' = Lines(c)
    BY <1>2 DEF PushLine, Advance, Job, Lines
  <2>2. ASSUME c \notin refused'
        PROVE  InForceTo(running', Lines(c), job[c].k + 1)
    <3>1. InForceTo(running, Lines(c), job[c].k)
      BY <1>2, <2>2 DEF PushLine, Progress, PushProgress
    <3>2. Lines(c) \in Seq(Command) /\ job[c].k \in DOMAIN Lines(c)
      BY PlanType DEF PushLine
    <3>3. InForceTo(Do(running, Lines(c)[job[c].k]), Lines(c), job[c].k + 1)
      BY <3>1, <3>2, ForceNext
    <3> QED BY <1>2, <2>2, <3>3
  <2>3. PushProgress(c)'
    BY <2>1, <2>2 DEF PushProgress
  <2> QED
    BY <2>1, <2>3 DEF Progress, PushedInForce, UndoProgress, Outcomes, Truth, Settled
<1>3. \/ Fail(c)
      \/ /\ Advance(c)
         /\ \/ running' = Do(running, Lines(c)[job[c].k]) /\ refused' = refused
            \/ c \in refused'
  BY DEF PushLine
<1> QED BY <1>1, <1>2, <1>3

\* Sending its rollback lines after it failed.
LEMMA UndoStep ==
  ASSUME TypeOK, NEW c \in Changes, Progress(c), plan' = plan, UndoLine(c)
  PROVE  Progress(c)'
<1> USE DEF TypeOK, store, device, history
<1>0. job[c].mode = "apply"
  BY DEF UndoLine, Progress, UndoProgress
<1>1. CASE End(c, "failed", "rollback")
  <2>1. job'[c].pc = "idle" /\ status'[c] = "failed" /\ stage'[c] = "rollback"
    BY <1>0, <1>1 DEF End, Job
  <2> QED
    BY <2>1 DEF Progress, PushProgress, PushedInForce, UndoProgress, Outcomes, Truth
<1>2. ASSUME Advance(c),
             \/ running' = Do(running, plan[c].rollback[job[c].k]) /\ refused' = refused
             \/ c \in refused'
      PROVE  Progress(c)'
  <2>1. /\ job'[c].pc = "undo" /\ job'[c].k = job[c].k + 1
        /\ job'[c].mode = "apply"
    BY <1>0, <1>2 DEF UndoLine, Advance, Job
  <2>2. /\ plan[c].rollback \in Seq(Command)
        /\ job[c].k \in DOMAIN plan[c].rollback
        /\ LastKnown(plan[c].rollback, job[c].k)
    BY PlanType DEF UndoLine, Progress, UndoProgress
  <2>3. LastKnown(plan[c].rollback, job[c].k + 1)
    BY <2>2, LastNext
  <2>4. ASSUME c \notin refused'
        PROVE  InForceTo(running', plan[c].rollback, job[c].k + 1)
    <3>1. InForceTo(running, plan[c].rollback, job[c].k)
      BY <1>2, <2>4 DEF UndoLine, Progress, UndoProgress
    <3>2. InForceTo(Do(running, plan[c].rollback[job[c].k]), plan[c].rollback, job[c].k + 1)
      BY <2>2, <3>1, ForceNext
    <3> QED BY <1>2, <2>4, <3>2
  <2>5. UndoProgress(c)'
    BY <2>1, <2>3, <2>4 DEF UndoProgress
  <2> QED
    BY <2>1, <2>5 DEF Progress, PushProgress, PushedInForce, Outcomes, Truth, Settled
<1>3. \/ End(c, "failed", "rollback")
      \/ /\ Advance(c)
         /\ \/ running' = Do(running, plan[c].rollback[job[c].k]) /\ refused' = refused
            \/ c \in refused'
  BY DEF UndoLine
<1> QED BY <1>1, <1>2, <1>3

LEMMA UndoEnds ==
  ASSUME TypeOK, NEW c \in Changes, Progress(c), plan' = plan, UndoDone(c)
  PROVE  Progress(c)'
<1> USE DEF TypeOK, store, device, history
<1>1. job'[c].pc = "idle" /\ status'[c] = "failed"
  BY DEF UndoDone, End, Job
<1>2. ASSUME Reversible(c), c \notin refused
      PROVE  Agree(c, running)
  <2>1. /\ plan[c].rollback \in Seq(Command)
        /\ job[c].k \in Nat \ {0} /\ job[c].k \notin DOMAIN plan[c].rollback
    BY PlanType DEF UndoDone, Record
  <2>2. /\ LastKnown(plan[c].rollback, job[c].k)
        /\ InForceTo(running, plan[c].rollback, job[c].k)
    BY <1>2 DEF UndoDone, Progress, UndoProgress
  <2>3. InForce(running, plan[c].rollback)
    BY <2>1, <2>2, ForceEnd
  <2>4. /\ InForce(pre[c], plan[c].rollback)
        /\ Touched(c) = ItemsOf(plan[c].rollback)
    BY <1>2 DEF Reversible, Touched
  <2>5. \A x \in Touched(c) : x \in running <=> x \in pre[c]
    BY <2>1, <2>2, <2>3, <2>4, ForceDecides
  <2> QED BY <2>5 DEF Agree
<1>3. Truth(c)'
  BY <1>2 DEF UndoDone, Truth, Reversible, Agree, Touched
<1> QED
  BY <1>1, <1>3 DEF Progress, PushProgress, PushedInForce, UndoProgress, Outcomes

\* Everything else c does.
LEMMA OwnStep ==
  ASSUME TypeOK, NEW c \in Changes, Progress(c), plan' = plan,
         Apply(c) \/ RollBack(c) \/ Work(c)
  PROVE  Progress(c)'
<1> USE DEF TypeOK, store, device, history
<1> DEFINE Nothing == job'[c].pc \in {"push", "verify", "save"} =>
                        /\ UndoProgress(c)' /\ Outcomes(c)' /\ Truth(c)'
<1>0. Nothing
  BY DEF UndoProgress, Outcomes, Truth, Settled
<1>1. CASE Apply(c)
  <2>1. job'[c].pc = "backup"
    BY <1>1 DEF Apply, Job
  <2> QED BY <2>1, WaitingProgress
<1>2. CASE RollBack(c)
  <2>1. CASE plan[c].rollback = <<>>
    <3>1. /\ job'[c].pc = "idle" /\ job'[c].mode = "rollback"
          /\ status'[c] = "rolled_back"
      BY <1>2, <2>1 DEF RollBack, Job
    <3>2. \A cfg : InForce(cfg, plan[c].rollback)
      BY <2>1 DEF InForce
    <3> QED
      BY <1>2, <3>1, <3>2
      DEF RollBack, Progress, PushProgress, PushedInForce, UndoProgress, Outcomes,
          Truth, Settled
  <2>2. CASE plan[c].rollback # <<>>
    <3>1. job'[c].pc = "backup"
      BY <1>2, <2>2 DEF RollBack, Job
    <3> QED BY <3>1, WaitingProgress
  <2> QED BY <2>1, <2>2
<1>3. CASE Backup(c)
  <2>1. CASE Go(c, "push")
    <3>1. job'[c].pc = "push" /\ job'[c].k = 1 /\ Lines(c)' = Lines(c)
      BY <2>1 DEF Go, Job, Lines
    <3>2. InForceTo(running', Lines(c), 1)
      BY PlanType, ForceStart
    <3> QED BY <1>0, <3>1, <3>2 DEF Progress, PushProgress, PushedInForce
  <2> QED BY <1>3, <2>1, FailProgress DEF Backup
<1>4. CASE PushDone(c)
  <2>1. job'[c].pc = "verify" /\ Lines(c)' = Lines(c)
    BY <1>4 DEF PushDone, Go, Job, Lines
  <2>2. ASSUME c \notin refused
        PROVE  InForce(running, Lines(c))
    <3>1. /\ Lines(c) \in Seq(Command)
          /\ job[c].k \in Nat \ {0} /\ job[c].k \notin DOMAIN Lines(c)
      BY <1>4, PlanType DEF PushDone, Record
    <3>2. InForceTo(running, Lines(c), job[c].k)
      BY <1>4, <2>2 DEF PushDone, Progress, PushProgress
    <3> QED BY <3>1, <3>2, ForceEnd
  <2>3. running' = running /\ refused' = refused
    BY <1>4 DEF PushDone
  <2> QED BY <1>0, <2>1, <2>2, <2>3 DEF Progress, PushProgress, PushedInForce
<1>5. ASSUME job[c].pc = "verify", running' = running, refused' = refused,
             Go(c, "save") \/ (\E ok : Result(c, ok))
      PROVE  Progress(c)'
  <2>1. job'[c].pc \in {"verify", "save"} /\ Lines(c)' = Lines(c)
    BY <1>5 DEF Go, Result, Job, Lines
  <2> QED BY <1>0, <1>5, <2>1 DEF Progress, PushProgress, PushedInForce
<1>6. CASE VerifyEntry(c)
  BY <1>5, <1>6, FailProgress DEF VerifyEntry
<1>7. CASE Verdict(c)
  BY <1>5, <1>7, FailProgress DEF Verdict
<1>8. CASE WriteMemory(c)
  <2>1. CASE Fail(c)
    BY <2>1, FailProgress
  <2>2. ASSUME End(c, Outcome(c), "none"), startup' = running
        PROVE  Progress(c)'
    <3>1. /\ job'[c].pc = "idle" /\ job'[c].mode = job[c].mode
          /\ status'[c] = IF job[c].mode = "apply" THEN "applied" ELSE "rolled_back"
      BY <2>2 DEF End, Job, Outcome
    <3>2. c \notin refused => InForce(running, Lines(c))
      BY <1>8 DEF WriteMemory, Progress, PushedInForce
    <3>3. running' = running /\ refused' = refused
      BY <1>8 DEF WriteMemory
    <3>4. Outcomes(c)'
      BY <2>2, <3>1, <3>2, <3>3 DEF Outcomes, Settled, Lines
    <3> QED
      BY <3>1, <3>4 DEF Progress, PushProgress, PushedInForce, UndoProgress, Truth
  <2> QED BY <1>8, <2>1, <2>2 DEF WriteMemory
<1> QED
  BY <1>1, <1>2, <1>3, <1>4, <1>6, <1>7, <1>8, PushStep, UndoStep, UndoEnds DEF Work

LEMMA ProgressStep ==
  ASSUME TypeOK, ProgressInv, Apart, [Next]_vars
  PROVE  ProgressInv'
<1> SUFFICES ASSUME NEW c \in Changes PROVE Progress(c)'
  BY DEF ProgressInv
<1>0. plan' = plan /\ Progress(c)
  BY PlanStays DEF ProgressInv
<1>1. CASE Apply(c) \/ RollBack(c) \/ Work(c)
  BY <1>0, <1>1, OwnStep
<1>2. ASSUME NEW d \in Changes, d # c, Apply(d) \/ RollBack(d) \/ Work(d)
      PROVE  Progress(c)'
  BY <1>0, <1>2, OthersKeep, OthersApart, FrameProgress
<1>3. CASE Reload
  <2>1. job[c].pc = "idle" /\ job' = job /\ status' = status /\ refused' = refused
    BY <1>3 DEF Reload, store, history
  <2>2. running' = startup /\ startup' = startup /\ reloads' # 0
    BY <1>3 DEF Reload, TypeOK
  <2>3. Outcomes(c)'
    BY <1>0, <2>1, <2>2 DEF Progress, Outcomes, Settled
  <2> QED
    BY <2>1, <2>2, <2>3 DEF Progress, PushProgress, PushedInForce, UndoProgress, Truth
<1>4. CASE UNCHANGED vars
  BY <1>0, <1>4, FrameProgress DEF vars, store, device, history
<1> QED BY <1>1, <1>2, <1>3, <1>4 DEF Next

LEMMA Progresses == ASSUME Apart PROVE Spec => []ProgressInv
<1>1. Init => ProgressInv
  BY DEF Init, Idle, Job, ProgressInv, Progress, PushProgress, PushedInForce,
         UndoProgress, Outcomes, Truth
<1>2. TypeOK /\ ProgressInv /\ [Next]_vars => ProgressInv'
  BY ProgressStep
<1> QED BY <1>1, <1>2, TypeCorrect, PTL DEF Spec

\* Changes to different items keep their outcomes: what an applied or a
\* rolled back change sent is in force on the device, before and after any
\* reload (apply_change and rollback_change).
THEOREM OutcomesLast ==
  ASSUME Apart PROVE Spec => []OutcomeInForce
<1>1. ProgressInv => OutcomeInForce
  BY DEF ProgressInv, Progress, Outcomes, OutcomeInForce
<1> QED BY <1>1, Progresses, PTL

\* What the record of a failed apply says of its device is so: one that did
\* not fail in its own rollback left nothing behind, whenever the device
\* refused, dropped the session or reloaded (apply_change).
THEOREM StagesTellTruth ==
  ASSUME Apart PROVE Spec => []StageTellsTruth
<1>1. ProgressInv => StageTellsTruth
  BY DEF ProgressInv, Progress, Truth, StageTellsTruth
<1> QED BY <1>1, Progresses, PTL
-----------------------------------------------------------------------------
(* The DHCP sidecar                                                        *)

Proved == INSTANCE DhcpSidecarProofs WITH
  MaxFaults <- MaxTimeouts, status <- dhcpStatus, faults <- timeouts, pre <- was

\* No two changes are about the same include.
OfTheirOwn == \A c, d \in Changes : Target[c].name = Target[d].name => c = d

\* DhcpSidecarProofs speaks of the same initial states, steps and properties
\* as the instance that ChangeTargets checks.
LEMMA SameSidecar ==
  /\ Proved!ConstantsOK
  /\ Dhcp!Init => Proved!Init
  /\ [Dhcp!Next]_(Dhcp!vars) => [Proved!Next]_(Proved!vars)
  /\ Dhcp!Serial <=> Proved!Serial
  /\ Proved!TypeOK => Dhcp!TypeOK
  /\ Proved!ManifestExact => Dhcp!ManifestExact
  /\ Proved!OutcomeStays => Dhcp!OutcomeStays
  /\ Proved!UndoIsExact => Dhcp!UndoIsExact
BY SidecarConstants DEF
  Dhcp!File, Dhcp!Tree, Dhcp!ConstantsOK, Dhcp!disk, Dhcp!engine,
  Dhcp!bounds, Dhcp!vars, Dhcp!Present, Dhcp!Listed, Dhcp!Named, Dhcp!Loads,
  Dhcp!Load, Dhcp!Fault, Dhcp!Req, Dhcp!Ended, Dhcp!At, Dhcp!Goto,
  Dhcp!ApplyReq, Dhcp!RollbackReq, Dhcp!End, Dhcp!Refuse, Dhcp!Passes,
  Dhcp!Test, Dhcp!Backup, Dhcp!Meta, Dhcp!Write, Dhcp!Glob,
  Dhcp!WriteManifest, Dhcp!Live, Dhcp!Reload, Dhcp!Find, Dhcp!CutInclude,
  Dhcp!CutManifest, Dhcp!PutBack, Dhcp!Further, Dhcp!Put, Dhcp!Restore,
  Dhcp!Check, Dhcp!Serve, Dhcp!Settle, Dhcp!Send, Dhcp!Apply, Dhcp!RollBack,
  Dhcp!Answer, Dhcp!Lose, Dhcp!Unreached, Dhcp!Verify, Dhcp!Confirm,
  Dhcp!Edit, Dhcp!Reboot, Dhcp!Init, Dhcp!Engine, Dhcp!Next, Dhcp!Request,
  Dhcp!TypeOK, Dhcp!Quiet, Dhcp!Serial, Dhcp!ManifestExact,
  Dhcp!AppliedStays, Dhcp!RolledBackStays, Dhcp!OutcomeStays,
  Dhcp!UndoIsExact, Proved!File, Proved!Tree, Proved!ConstantsOK,
  Proved!disk, Proved!engine, Proved!bounds, Proved!vars, Proved!Present,
  Proved!Listed, Proved!Named, Proved!Loads, Proved!Load, Proved!Fault,
  Proved!Req, Proved!Ended, Proved!At, Proved!Goto, Proved!ApplyReq,
  Proved!RollbackReq, Proved!End, Proved!Refuse, Proved!Passes, Proved!Test,
  Proved!Backup, Proved!Meta, Proved!Write, Proved!Glob,
  Proved!WriteManifest, Proved!Live, Proved!Reload, Proved!Find,
  Proved!CutInclude, Proved!CutManifest, Proved!PutBack, Proved!Further,
  Proved!Put, Proved!Restore, Proved!Check, Proved!Serve, Proved!Settle,
  Proved!Send, Proved!Apply, Proved!RollBack, Proved!Answer, Proved!Lose,
  Proved!Unreached, Proved!Verify, Proved!Confirm, Proved!Edit,
  Proved!Reboot, Proved!Init, Proved!Engine, Proved!Next, Proved!Request,
  Proved!TypeOK, Proved!Quiet, Proved!Serial, Proved!ManifestExact,
  Proved!AppliedStays, Proved!RolledBackStays, Proved!OutcomeStays,
  Proved!UndoIsExact

\* As long as no two requests have met, one has been served at a time.
OneByOne == ~met => Proved!Serial

\* What a step of the sidecar is to DhcpSidecarProofs.
LEMMA SidecarSteps ==
  /\ SidecarInit => Proved!Init /\ OneByOne
  /\ [SidecarNext]_sidecar => [Proved!Next]_(Proved!vars)
  /\ [SidecarNext]_sidecar /\ OneByOne => OneByOne' /\ (met => met')
<1>1. SidecarInit => Proved!Init /\ OneByOne
  <2>1. Proved!ConstantsOK /\ (Dhcp!Init => Proved!Init)
    BY SameSidecar
  <2>2. Dhcp!Init => Proved!Serial
    BY DEF Dhcp!Init, Dhcp!Ended, Dhcp!Req, Proved!Serial, Proved!At
  <2> QED BY <2>1, <2>2 DEF SidecarInit, OneByOne
<1>2. [SidecarNext]_sidecar => [Dhcp!Next]_(Dhcp!vars)
  BY DEF SidecarNext, sidecar, Dhcp!vars, Dhcp!disk, Dhcp!engine, Dhcp!bounds
<1>3. ASSUME [SidecarNext]_sidecar, OneByOne PROVE OneByOne' /\ (met => met')
  <2>1. CASE SidecarNext
    BY <2>1 DEF SidecarNext, OneByOne, Dhcp!Serial, Proved!Serial, Dhcp!At, Proved!At
  <2>2. CASE UNCHANGED sidecar
    <3>1. met' = met /\ thread' = thread
      BY <2>2 DEF sidecar
    <3> QED BY <1>3, <3>1 DEF OneByOne, Proved!Serial, Proved!At
  <2> QED BY <1>3, <2>1, <2>2
<1> QED BY <1>1, <1>2, <1>3, SameSidecar

\* A record of the sidecar is never in a state that nothing expects, nor is one
\* of the device (change_engine.apply_change, dhcp_ops).
THEOREM TypesCorrect == ASSUME Changes # {} PROVE Spec /\ Sidecar => []TypesOK
<1>1. Proved!Settings
  BY SameSidecar DEF Proved!Settings
<1>2. Sidecar => Proved!Spec
  BY SidecarSteps, PTL DEF Sidecar, Proved!Spec
<1>3. Proved!TypeOK => Dhcp!TypeOK
  BY SameSidecar
<1> QED BY <1>1, <1>2, <1>3, TypeCorrect, Proved!TypeCorrect, PTL DEF TypesOK

\* Whatever interleaves, is lost, times out or reboots: while nobody edits the
\* includes of the changes by hand, a written include can be put back
\* (dhcp_ops.apply_change).
THEOREM UndoThere ==
  ASSUME Changes # {}, OfTheirOwn PROVE Sidecar => []UndoIsExact
<1>1. Proved!Settings /\ Proved!Distinct
  BY SameSidecar DEF Proved!Settings, Proved!Distinct, OfTheirOwn
<1>2. Sidecar => Proved!Spec
  BY SidecarSteps, PTL DEF Sidecar, Proved!Spec
<1>3. Proved!UndoIsExact => Dhcp!UndoIsExact
  BY SameSidecar
<1> QED BY <1>1, <1>2, <1>3, Proved!UndoStaysExact, PTL DEF UndoIsExact

\* As long as no two requests have been in the sidecar at once, however many
\* changes, lost calls, timeouts and edits there are: when no request is under
\* way the manifest names exactly the includes that are there
\* (dhcp_ops.regenerate_includes_manifest).
THEOREM ManifestStays == ASSUME Changes # {} PROVE Sidecar => []ManifestExact
<1>1. Proved!Settings
  BY SameSidecar DEF Proved!Settings
<1>2. Sidecar => Proved!Spec /\ []OneByOne /\ [][met => met']_sidecar
  BY SidecarSteps, PTL DEF Sidecar, Proved!Spec
<1> DEFINE Inv == ~met => Proved!ManifestInv
<1>3. SidecarInit => Inv
  BY <1>1, SidecarSteps, Proved!ManifestInit
<1>4. Proved!Calls /\ OneByOne /\ OneByOne' /\ Inv /\ [SidecarNext]_sidecar => Inv'
  <2> SUFFICES ASSUME Proved!Calls, OneByOne, OneByOne', Inv, [SidecarNext]_sidecar, ~met'
               PROVE  Proved!ManifestInv'
    OBVIOUS
  <2>1. ~met /\ [Proved!Next]_(Proved!vars)
    BY SidecarSteps
  <2>2. Proved!Serial /\ Proved!Serial' /\ Proved!ManifestInv
    BY <2>1 DEF OneByOne
  <2> QED BY <1>1, <2>1, <2>2, Proved!ManifestNext
<1>5. Inv => ManifestExact
  <2>1. Proved!ManifestInv => Proved!ManifestExact
    BY DEF Proved!ManifestInv, Proved!ManifestExact, Proved!Quiet, Proved!At, Proved!Making
  <2> QED BY <2>1, SameSidecar DEF ManifestExact
<1> QED BY <1>1, <1>2, <1>3, <1>4, <1>5, Proved!CallsAlways, PTL DEF Sidecar

\* As long as no two requests have been in the sidecar at once, with changes to
\* different includes and nobody who edits them by hand: the include of an
\* applied change stays as it wrote it and dhcpd reads it, the include of a
\* rolled back change is what it was before (change_engine.apply_change,
\* dhcp_ops.rollback_change).  If a reboot cuts the manifest off, dhcpd reads no
\* include until a request has written it again.
THEOREM OutcomesStand ==
  ASSUME Changes # {}, OfTheirOwn PROVE Sidecar => []OutcomeStays
<1>1. Proved!Settings /\ Proved!Distinct
  BY SameSidecar DEF Proved!Settings, Proved!Distinct, OfTheirOwn
<1>2. Sidecar => Proved!Spec /\ []OneByOne /\ [][met => met']_sidecar
  BY SidecarSteps, PTL DEF Sidecar, Proved!Spec
<1> DEFINE Inv == ~met => Proved!ManifestInv /\ Proved!OutcomeInv
<1>3. SidecarInit => Inv
  BY <1>1, SidecarSteps, Proved!ManifestInit, Proved!OutcomeInit
<1>4. /\ Proved!Calls /\ Proved!UndoInv /\ OneByOne /\ OneByOne' /\ Inv
      /\ [SidecarNext]_sidecar
      => Inv'
  <2> SUFFICES ASSUME Proved!Calls, Proved!UndoInv, OneByOne, OneByOne', Inv,
                      [SidecarNext]_sidecar, ~met'
               PROVE  Proved!ManifestInv' /\ Proved!OutcomeInv'
    OBVIOUS
  <2>1. ~met /\ [Proved!Next]_(Proved!vars)
    BY SidecarSteps
  <2>2. Proved!Serial /\ Proved!Serial' /\ Proved!ManifestInv /\ Proved!OutcomeInv
    BY <2>1 DEF OneByOne
  <2> QED BY <1>1, <2>1, <2>2, Proved!ManifestNext, Proved!OutcomeNext
<1>5. Inv => OutcomeStays
  <2>1. Proved!OutcomeInv => Proved!OutcomeStays
    BY DEF Proved!OutcomeInv, Proved!OutcomeOK, Proved!InEffect, Proved!Restored,
           Proved!Name, Proved!OutcomeStays, Proved!AppliedStays, Proved!RolledBackStays
  <2> QED BY <2>1, SameSidecar DEF OutcomeStays
<1> QED BY <1>1, <1>2, <1>3, <1>4, <1>5, Proved!CallsAlways, Proved!UndoAlways, PTL DEF Sidecar
=============================================================================
