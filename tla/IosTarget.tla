----------------------------- MODULE IosTarget -----------------------------
(***************************************************************************)
(* What apply_change and rollback_change of change_engine do to one IOS    *)
(* device, at the granularity of its command lines.  Each call of          *)
(* network_apply opens a connection of its own, so several changes may     *)
(* work on the device at once; any call may raise, before or after the     *)
(* device has acted on it, and the device may refuse a line without        *)
(* raising anything.                                                       *)
(*                                                                         *)
(* The configuration is a set of items: a local user, "this interface is   *)
(* shut down", a configuration line.  A command adds or deletes one.       *)
(***************************************************************************)
EXTENDS Naturals, Sequences

CONSTANTS
  Items,      \* what a device configuration may contain
  Changes,    \* approved changes to the device
  Targets,    \* Targets[c]: the target blocks that change c may consist of
  Configs,    \* the configurations the device may have at the start
  MaxFaults,  \* bound on raised exceptions and refused or unreadable lines
  MaxReloads  \* bound on reloads of the device

Command == [op : {"add", "del"}, item : Items]

ASSUME ConstantsOK ==
  /\ MaxFaults \in Nat /\ MaxReloads \in Nat
  /\ Configs \subseteq SUBSET Items
  /\ \A c \in Changes : \A t \in Targets[c] :
       t.apply \in Seq(Command) /\ t.rollback \in Seq(Command)

VARIABLES
  plan,     \* plan[c]: the target block of c
  running,  \* the device's running configuration
  startup,  \* its startup configuration
  status,   \* status[c] in the change store
  stage,    \* failure_stage[c], "none" while it is unset
  job,      \* job[c]: the request that works on c
  faults, reloads,
  pre,      \* history: running when the apply of c began
  base,     \* history: the startup configuration at the start
  refused,  \* history: changes of which the device refused a line
  verified  \* history: changes whose verification passed

store   == <<status, stage>>
device  == <<running, startup>>
history == <<pre, base, refused, verified>>
vars    == <<plan, device, store, job, faults, reloads, history>>
-----------------------------------------------------------------------------
(* Targets, as ios_change builds them                                      *)

Add(x) == [op |-> "add", item |-> x]
Del(x) == [op |-> "del", item |-> x]

\* A verify entry: the command shows the items of "shows" that are there.
\* A structured entry also says what to expect ("key") of which text ("val").
Plain(shows) == [shows |-> shows, key |-> "plain", val |-> {}]
Structured(shows, key, val) == [shows |-> shows, key |-> key, val |-> val]

\* build_ios_local_user_target; the filter "^username x" also shows every
\* user whose name begins with x.
UserTarget(action, x, sameprefix) ==
  [type |-> "ios_local_user", mode |-> action,
   apply    |-> IF action = "delete" THEN <<Del(x)>> ELSE <<Add(x)>>,
   rollback |-> IF action = "delete" THEN <<>> ELSE <<Del(x)>>,
   verify   |-> <<Plain({x} \union sameprefix)>>,
   expect   |-> IF action = "delete" THEN "config_absent" ELSE "config_present"]

\* build_ios_interface_state_target; item x is "x is administratively down".
InterfaceTarget(state, x) ==
  [type |-> "ios_interface_state", mode |-> state,
   apply    |-> IF state = "shutdown" THEN <<Add(x)>> ELSE <<Del(x)>>,
   rollback |-> IF state = "shutdown" THEN <<Del(x)>> ELSE <<Add(x)>>,
   verify   |-> <<Plain({x})>>,
   expect   |-> IF state = "shutdown" THEN "admin_down" ELSE "admin_up"]

\* build_ios_config_lines_target: everything comes from the proposal; without
\* verify commands it looks at the whole configuration.
LinesTarget(lines, rollback, verify, expect) ==
  [type |-> "ios_config_lines", mode |-> "lines",
   apply    |-> lines,
   rollback |-> rollback,
   verify   |-> IF verify = <<>> THEN <<Plain(Items)>> ELSE verify,
   expect   |-> expect]

Expectations == {"config_present", "config_absent", "admin_up", "admin_down"}

\* invert_verify_expect
Invert ==
  [config_present |-> "config_absent", config_absent |-> "config_present",
   admin_up |-> "admin_down", admin_down |-> "admin_up"]

\* invert_verify_entry
InvertKey ==
  [plain |-> "plain", contains |-> "not_contains", not_contains |-> "contains",
   empty |-> "nonempty", nonempty |-> "empty",
   regex |-> "not_regex", not_regex |-> "regex"]

InvertEntry(e) == [e EXCEPT !.key = InvertKey[@]]

\* _check_verify_output and _evaluate_structured_verify on the items shown.
\* (That an interface is shown as administratively down is its item.)
Passes(e, expect, cfg) ==
  LET out == e.shows \intersect cfg IN
  CASE e.key = "plain" -> (out # {}) <=> expect \in {"config_present", "admin_down"}
    [] e.key \in {"contains", "regex"}         -> out \intersect e.val # {}
    [] e.key \in {"not_contains", "not_regex"} -> out \intersect e.val = {}
    [] e.key = "empty"                     -> out = {}
    [] e.key = "nonempty"                  -> out # {}

\* What rollback_change verifies afterwards.
RollbackExpect(t) ==
  CASE t.type = "ios_interface_state" ->
         Invert[IF t.mode = "shutdown" THEN "admin_up" ELSE "admin_down"]
    [] t.type = "ios_local_user" ->
         Invert[IF t.mode = "create" THEN "config_absent" ELSE "config_present"]
    [] t.type = "ios_config_lines" -> Invert[t.expect]

RollbackVerify(t) ==
  IF t.type = "ios_config_lines"
    THEN [m \in DOMAIN t.verify |-> InvertEntry(t.verify[m])]
    ELSE t.verify
-----------------------------------------------------------------------------
(* Requests                                                                *)

Job(pc, mode, k, ok, why) ==
  [pc |-> pc, mode |-> mode, k |-> k, ok |-> ok, why |-> why]

Idle == Job("idle", "none", 1, TRUE, "none")

\* What the request of c sends and checks.
Lines(c)  == IF job[c].mode = "apply" THEN plan[c].apply ELSE plan[c].rollback
Verify(c) == IF job[c].mode = "apply" THEN plan[c].verify
                                      ELSE RollbackVerify(plan[c])
Expect(c) == IF job[c].mode = "apply" THEN plan[c].expect
                                      ELSE RollbackExpect(plan[c])

Go(c, pc)  == job' = [job EXCEPT ![c] = Job(pc, job[c].mode, 1, TRUE, "none")]
Advance(c) == job' = [job EXCEPT ![c] =
                        Job(job[c].pc, job[c].mode, job[c].k + 1, TRUE, job[c].why)]
Result(c, ok) == job' = [job EXCEPT ![c] =
                           Job("verify", job[c].mode, job[c].k + 1, ok, "none")]

\* A slip: status and failure stage are passed in the wrong order.
EndSwapped(c, result, why) ==
  /\ status' = [status EXCEPT ![c] = why]
  /\ stage' = IF job[c].mode = "apply" THEN [stage EXCEPT ![c] = result] ELSE stage
  /\ job' = [job EXCEPT ![c] = Job("idle", job[c].mode, 1, TRUE, "none")]

\* The final set_status; an apply also says where it failed.
End(c, result, why) ==
  /\ status' = [status EXCEPT ![c] = result]
  /\ stage' = IF job[c].mode = "apply" THEN [stage EXCEPT ![c] = why] ELSE stage
  /\ job' = [job EXCEPT ![c] = Job("idle", job[c].mode, 1, TRUE, "none")]

Fault == faults < MaxFaults /\ faults' = faults + 1

Do(cfg, cmd) == IF cmd.op = "add" THEN cfg \union {cmd.item}
                                  ELSE cfg \ {cmd.item}

\* The stage in which an apply at pc fails: "apply" until everything is sent.
StageOf(pc) == IF pc \in {"backup", "push"} THEN "apply" ELSE "verify"

\* A slip: the exception of a failed step is not caught.
FailUncaught(c) == job' = [job EXCEPT ![c] = Idle] /\ UNCHANGED store

\* A failed apply pushes the rollback lines, if there are any; a failed
\* rollback ends.
Fail(c) ==
  IF job[c].mode = "rollback" \/ plan[c].rollback = <<>>
    THEN End(c, "failed", StageOf(job[c].pc))
    ELSE /\ job' = [job EXCEPT ![c] = Job("undo", "apply", 1, TRUE, StageOf(job[c].pc))]
         /\ UNCHANGED store
-----------------------------------------------------------------------------
Init ==
  /\ plan \in {f \in [Changes -> UNION {Targets[c] : c \in Changes}] :
                 \A c \in Changes : f[c] \in Targets[c]}
  /\ running \in Configs
  /\ startup = running
  /\ status = [c \in Changes |-> "approved"]
  /\ stage = [c \in Changes |-> "none"]
  /\ job = [c \in Changes |-> Idle]
  /\ faults = 0 /\ reloads = 0
  /\ pre = [c \in Changes |-> {}]
  /\ base = startup
  /\ refused = {} /\ verified = {}

Apply(c) ==
  /\ job[c].pc = "idle" /\ status[c] = "approved"
  /\ status' = [status EXCEPT ![c] = "applying"]
  /\ job' = [job EXCEPT ![c] = Job("backup", "apply", 1, TRUE, "none")]
  /\ pre' = [pre EXCEPT ![c] = running]
  /\ UNCHANGED <<plan, device, stage, faults, reloads, base, refused, verified>>

\* Without rollback lines the change is rolled back at once.
RollBack(c) ==
  /\ job[c].pc = "idle" /\ status[c] \in {"applied", "failed"}
  /\ IF plan[c].rollback = <<>>
       THEN /\ status' = [status EXCEPT ![c] = "rolled_back"]
            /\ job' = [job EXCEPT ![c] = Job("idle", "rollback", 1, TRUE, "none")]
       ELSE /\ job' = [job EXCEPT ![c] = Job("backup", "rollback", 1, TRUE, "none")]
            /\ UNCHANGED status
  /\ UNCHANGED <<plan, device, stage, faults, reloads, history>>

\* backup_running_config only reads.
Backup(c) ==
  /\ job[c].pc = "backup"
  /\ \/ Go(c, "push") /\ UNCHANGED <<store, faults>>
     \/ Fault /\ Fail(c)
  /\ UNCHANGED <<plan, device, reloads, history>>

\* apply_config_lines, one line at a time; nobody reads what the device
\* answers.
PushLine(c) ==
  /\ job[c].pc = "push" /\ job[c].k \in DOMAIN Lines(c)
  /\ LET cmd == Lines(c)[job[c].k] IN
     \/ /\ running' = Do(running, cmd)
        /\ \/ Advance(c) /\ UNCHANGED <<store, faults>>
           \/ Fault /\ Fail(c)
        /\ UNCHANGED refused
     \/ /\ Fault
        /\ UNCHANGED running
        /\ \/ Advance(c) /\ refused' = refused \union {c} /\ UNCHANGED store
           \/ Fail(c) /\ UNCHANGED refused
  /\ UNCHANGED <<plan, startup, reloads, pre, base, verified>>

\* The connection is closed: from here on the push counts as successful.
PushDone(c) ==
  /\ job[c].pc = "push" /\ job[c].k \notin DOMAIN Lines(c)
  /\ Go(c, "verify")
  /\ UNCHANGED <<plan, device, store, faults, reloads, history>>

\* verify_target runs every entry, also after one has failed; output that
\* says "% Invalid" passes nothing.
VerifyEntry(c) ==
  /\ job[c].pc = "verify" /\ job[c].k \in DOMAIN Verify(c)
  /\ \/ /\ Result(c, job[c].ok /\ Passes(Verify(c)[job[c].k], Expect(c), running))
        /\ UNCHANGED <<store, faults>>
     \/ Fault /\ Result(c, FALSE) /\ UNCHANGED store
     \/ Fault /\ Fail(c)
  /\ UNCHANGED <<plan, device, reloads, history>>

\* A slip: the verdict is not looked at.
VerdictIgnored(c) ==
  /\ job[c].pc = "verify" /\ job[c].k \notin DOMAIN Verify(c)
  /\ Go(c, "save")
  /\ verified' = IF job[c].ok THEN verified \union {c} ELSE verified
  /\ UNCHANGED <<plan, device, store, faults, reloads, pre, base, refused>>

Verdict(c) ==
  /\ job[c].pc = "verify" /\ job[c].k \notin DOMAIN Verify(c)
  /\ IF job[c].ok
       THEN Go(c, "save") /\ verified' = verified \union {c} /\ UNCHANGED store
       ELSE Fail(c) /\ UNCHANGED verified
  /\ UNCHANGED <<plan, device, faults, reloads, pre, base, refused>>

Outcome(c) == IF job[c].mode = "apply" THEN "applied" ELSE "rolled_back"

\* A slip: the configuration is not written to memory.
NoWriteMemory(c) ==
  /\ job[c].pc = "save"
  /\ End(c, Outcome(c), "none")
  /\ UNCHANGED <<plan, device, faults, reloads, history>>

WriteMemory(c) ==
  /\ job[c].pc = "save"
  /\ \/ /\ startup' = running
        /\ \/ End(c, Outcome(c), "none") /\ UNCHANGED faults
           \/ Fault /\ Fail(c)
     \/ Fault /\ Fail(c) /\ UNCHANGED startup
  /\ UNCHANGED <<plan, running, reloads, history>>

\* A slip: only the last of the rollback lines is sent.
UndoLastLineOnly(c) ==
  /\ job[c].pc = "undo" /\ job[c].k \in DOMAIN plan[c].rollback
  /\ running' = Do(running, plan[c].rollback[Len(plan[c].rollback)])
  /\ job' = [job EXCEPT ![c] =
                Job("undo", "apply", Len(plan[c].rollback) + 1, TRUE, job[c].why)]
  /\ UNCHANGED <<plan, startup, store, faults, reloads, history>>

\* The automatic rollback of a failed apply; its result is not verified and
\* not saved.
UndoLine(c) ==
  /\ job[c].pc = "undo" /\ job[c].k \in DOMAIN plan[c].rollback
  /\ LET cmd == plan[c].rollback[job[c].k]
         Abort == End(c, "failed", "rollback")
     IN \/ /\ running' = Do(running, cmd)
           /\ \/ Advance(c) /\ UNCHANGED <<store, faults>>
              \/ Fault /\ Abort
           /\ UNCHANGED refused
        \/ /\ Fault
           /\ UNCHANGED running
           /\ \/ Advance(c) /\ refused' = refused \union {c} /\ UNCHANGED store
              \/ Abort /\ UNCHANGED refused
  /\ UNCHANGED <<plan, startup, reloads, pre, base, verified>>

UndoDone(c) ==
  /\ job[c].pc = "undo" /\ job[c].k \notin DOMAIN plan[c].rollback
  /\ End(c, "failed", job[c].why)
  /\ UNCHANGED <<plan, device, faults, reloads, history>>

\* The device restarts from its startup configuration.  It takes minutes, so
\* a change at work on it finds it unreachable, which is a fault.
Reload ==
  /\ reloads < MaxReloads
  /\ \A c \in Changes : job[c].pc = "idle"
  /\ running' = startup
  /\ reloads' = reloads + 1
  /\ UNCHANGED <<plan, startup, store, job, faults, history>>

Work(c) ==
  \/ Backup(c) \/ PushLine(c) \/ PushDone(c) \/ VerifyEntry(c) \/ Verdict(c)
  \/ WriteMemory(c) \/ UndoLine(c) \/ UndoDone(c)

Next ==
  \/ \E c \in Changes : Apply(c) \/ RollBack(c) \/ Work(c)
  \/ Reload

Spec == Init /\ [][Next]_vars

\* The request goes on by itself: every call of netmiko has a timeout.
FairSpec == Spec /\ \A c \in Changes : WF_vars(Work(c))
-----------------------------------------------------------------------------
(* Properties                                                              *)

Record == [pc : {"idle", "backup", "push", "verify", "save", "undo"},
           mode : {"none", "apply", "rollback"}, k : Nat \ {0}, ok : BOOLEAN,
           why : {"none", "apply", "verify"}]

TypeOK ==
  /\ \A c \in Changes : plan[c] \in Targets[c]
  /\ running \subseteq Items /\ startup \subseteq Items /\ base \subseteq Items
  /\ status \in [Changes -> {"approved", "applying", "applied", "failed", "rolled_back"}]
  /\ stage \in [Changes -> {"none", "apply", "verify", "rollback"}]
  /\ job \in [Changes -> Record]
  /\ faults \in 0 .. MaxFaults /\ reloads \in 0 .. MaxReloads
  /\ pre \in [Changes -> SUBSET Items]
  /\ refused \subseteq Changes /\ verified \subseteq Changes

ItemsOf(cmds) == {cmds[m].item : m \in DOMAIN cmds}
Touched(c)    == ItemsOf(plan[c].apply) \union ItemsOf(plan[c].rollback)
Agree(c, cfg) == cfg \intersect Touched(c) = pre[c] \intersect Touched(c)

\* cfg is what a device that takes every line has after cmds: for each item,
\* what the last command about it says.
InForce(cfg, cmds) ==
  \A m \in DOMAIN cmds :
    (\A n \in DOMAIN cmds : n > m => cmds[n].item # cmds[m].item)
      => (cmds[m].item \in cfg <=> cmds[m].op = "add")

\* The rollback lines of c lead back to where its apply began.
Reversible(c) ==
  /\ ItemsOf(plan[c].apply) \subseteq ItemsOf(plan[c].rollback)
  /\ InForce(pre[c], plan[c].rollback)

Settled(c, mode) == job[c].pc = "idle" /\ job[c].mode = mode

Started(c) == status[c] # "approved"

\* "Never save an unverified change" (docs/AGENT_ARCHITECTURE.md): where the
\* startup configuration has changed, a change that passed its verification
\* has touched it (change_engine, between verify_target and write_memory), as
\* long as a single change has been at work on the device: write_memory saves
\* whatever it finds there, also the half of another change.
NothingUnverifiedSaved ==
  (\A c, d \in Changes : Started(c) /\ Started(d) => c = d) =>
    \A x \in Items :
      (x \in startup) # (x \in base) => \E c \in verified : x \in Touched(c)

\* failure_stage tells whether the automatic rollback got through: a failed
\* apply of a reversible change whose stage is not "rollback" has left nothing
\* on the running device, whichever call raised and however many lines had
\* been sent.
StageTellsTruth ==
  \A c \in Changes :
    /\ status[c] = "failed" /\ Settled(c, "apply") /\ reloads = 0
    /\ stage[c] # "rollback" /\ c \notin refused /\ Reversible(c)
    => Agree(c, running)

\* "applied" and "rolled_back" are lasting: unless the device refused a line,
\* what was sent is in force now and after every reload.
OutcomeInForce ==
  \A c \in Changes \ refused :
    /\ status[c] = "applied" /\ Settled(c, "apply") =>
         InForce(running, plan[c].apply) /\ InForce(startup, plan[c].apply)
    /\ status[c] = "rolled_back" /\ Settled(c, "rollback") =>
         InForce(running, plan[c].rollback) /\ InForce(startup, plan[c].rollback)

\* Whatever raises, an apply reaches its final set_status.
ApplyEnds == \A c \in Changes : status[c] = "applying" ~> status[c] # "applying"
-----------------------------------------------------------------------------
(* What the repository says and the code does not do.                      *)

\* rollback_change rolls a change back "using its stored rollback plan"
\* (server.py): when nothing goes wrong and the lines are in force, the change
\* does not end as "failed".
RollbackConfirmed ==
  \A c \in Changes :
    faults = 0 /\ Settled(c, "rollback") /\ InForce(running, plan[c].rollback)
      => status[c] # "failed"
=============================================================================
