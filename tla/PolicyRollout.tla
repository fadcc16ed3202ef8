--------------------------- MODULE PolicyRollout ---------------------------
(***************************************************************************)
(* The IOS-XE policy: three copies of ios-xe-policy.yaml, who writes them, *)
(* what a proposal makes of the runtime copy, and the way from it into the *)
(* rules of the DefenseClaw gateway.  The MCP server and the admin GUI     *)
(* keep the parsed file until its modification time changes; scripts and   *)
(* the DefenseClaw editor run on the host.  Each of the two containers is  *)
(* taken with one request at a time.                                       *)
(*                                                                         *)
(* A copy is the access of its groups: their patterns and the lines that   *)
(* are always blocked are the same in every copy.  Opening a file for      *)
(* writing truncates it, and a file is written in one piece.               *)
(***************************************************************************)
EXTENDS Naturals, Sequences, FiniteSets, SequencesExt

CONSTANTS Groups, Lines,
          Patterns,  \* Patterns[g]: the lines that group g allows
          Blocks,    \* lines that are always blocked
          Order,     \* the groups in the order of the file
          Documents, \* what the editor may save, and the first content
          Generated, \* what generate_ios_xe_allow_groups.py holds
          Requests,  \* proposals: [group, lines], group "none" if not named
          Hosts,     \* programs on the host
          MaxOps, MaxFaults  \* bounds on operations and failures

Access == {"deny", "approve", "allow"}
Files == {"canonical", "bundle", "runtime"}
Threads == {"mcp", "gui"} \cup Hosts

VARIABLES
  file,    \* file[f]: a copy
  cache,   \* _CACHE of "mcp" and "gui"; fresh: its mtime is the file's
  rules,   \* commands.yaml: groups with IOS-DENY rules
  gateway, \* the same, as the gateway loaded them
  thr,     \* thr[t]: an operation in progress
  ops, faults,
  synced,  \* history: the copy that the last restart of a reload stands for, if it
           \* is as the reload read it, else "none"
  unsaved, \* history: a save of the GUI failed, after it changed its cache
  overlapped \* history: the kinds (Kinds) of which two were in progress at once

vars == <<file, cache, rules, gateway, thr, ops, faults, synced, unsaved, overlapped>>
-----------------------------------------------------------------------------
NoGroups == [g \in Groups |-> "absent"]
Copy(access) == [whole |-> TRUE, access |-> access]
Truncated == [whole |-> FALSE, access |-> NoGroups]
NoRequest == [group |-> "none", lines |-> {}]

(* pc: what the thread does next.  mtime: of a load that has begun, whether *)
(* the file still has the time it was seen to have.  todo: groups to ask   *)
(* for, or files to write.  doc: access that was found, or is to be        *)
(* written.  seen: history of a proposal, the access every group had in    *)
(* the file since it began.  current: Source is as it was at MergeRead.    *)
Idle == [op |-> "none", pc |-> "idle", mtime |-> "none", request |-> NoRequest, todo |-> <<>>,
         doc |-> NoGroups, deny |-> {}, current |-> FALSE, matched |-> "none",
         result |-> "none", seen |-> [g \in Groups |-> {}]]

\* Who writes copies of the policy, and who writes commands.yaml.
Kinds(op) == CASE op \in {"save", "edit", "deploy", "preserve", "sync"} -> {"policy"}
               [] op = "reload" -> {"rules"}
               [] op = "install" -> {"policy", "rules"}
               [] OTHER -> {}

(* The copy that is merged into the rules: the runtime copy (policy_path,  *)
(* ios_xe_policy_merge_path), the one in config-templates for              *)
(* install-clawlab-guardrail-rules.sh.                                     *)
Source(op) == IF op = "install" THEN "canonical" ELSE "runtime"

Init ==
  /\ file \in [Files -> {Copy(d) : d \in Documents}]
  /\ cache \in [{"mcp", "gui"} -> {[data |-> NoGroups, fresh |-> FALSE],
                                  [data |-> file["runtime"].access, fresh |-> TRUE]}]
  /\ rules = {} /\ gateway = {}
  /\ thr = [t \in Threads |-> Idle]
  /\ ops = 0 /\ faults = 0
  /\ synced = "none" /\ unsaved = FALSE /\ overlapped = {}

Begin(t, handler) ==
  /\ thr[t] = Idle /\ ops < MaxOps /\ ops' = ops + 1
  /\ thr' = [thr EXCEPT ![t] = handler]
  /\ overlapped' = overlapped \cup
       {kind \in Kinds(handler.op) : \E u \in Threads : kind \in Kinds(thr[u].op)}

(* threads is thr with the step of the writer: what a new content of file  *)
(* f does to everybody else.                                               *)
Content(f, copy, threads) ==
  /\ file' = [file EXCEPT ![f] = copy]
  /\ LET noticed == f = "runtime" IN
     /\ thr' = [u \in Threads |->
          [threads[u] EXCEPT
             !.current = @ /\ Source(threads[u].op) # f,
             !.mtime = IF noticed /\ @ = "now" THEN "old" ELSE @,
             !.seen = [g \in Groups |->
               IF noticed /\ threads[u].op = "propose" THEN @[g] \cup {copy.access[g]} ELSE @[g]]]]
     /\ cache' = [p \in DOMAIN cache |-> [cache[p] EXCEPT !.fresh = @ /\ ~ noticed]]
  /\ synced' = IF synced = f THEN "none" ELSE synced
  /\ UNCHANGED unsaved
-----------------------------------------------------------------------------
(* _load_raw: nothing if the cache is as old as the file, else a look at   *)
(* its time and then a read.                                               *)
Loading(t) == thr[t].pc \in {"document", "ask", "match", "engine", "groups", "again"}

Stat(t) ==
  /\ Loading(t) /\ ~ cache[t].fresh /\ thr[t].mtime = "none"
  /\ thr' = [thr EXCEPT ![t].mtime = "now"]
  /\ UNCHANGED <<file, cache, rules, gateway, ops, faults, synced, unsaved, overlapped>>

Loaded(t) == cache[t].fresh \/ thr[t].mtime # "none"
Data(t) == IF cache[t].fresh THEN cache[t].data ELSE file["runtime"].access

Cached(t) ==
  IF cache[t].fresh THEN cache
  ELSE [cache EXCEPT ![t] = [data |-> Data(t), fresh |-> thr[t].mtime = "now"]]

\* get_group_access
AccessOf(doc, g) == IF doc[g] = "absent" THEN "approve" ELSE doc[g]

Goes(t, handler) ==
  /\ thr' = [thr EXCEPT ![t] = [handler EXCEPT !.mtime = "none"]]
  /\ cache' = Cached(t)
  /\ UNCHANGED <<file, rules, gateway, ops, faults, synced, unsaved, overlapped>>
-----------------------------------------------------------------------------
(* A proposal of config lines: validate_proposal, validate_config_lines    *)
(* and what propose_change does with the group.                            *)
Propose(t, r) ==
  /\ t \in {"mcp", "gui"}
  /\ Begin(t, [Idle EXCEPT !.op = "propose", !.pc = "document", !.request = r,
                 !.seen = [g \in Groups |-> {file["runtime"].access[g]}]])
  /\ UNCHANGED <<file, cache, rules, gateway, faults, synced, unsaved>>

(* compiled_rules: the groups of one document, and then each one's access, *)
(* which may come from a later one.                                        *)
Compile(t) ==
  /\ thr[t].pc = "document" /\ Loaded(t)
  /\ LET present == SelectSeq(Order, LAMBDA g : Data(t)[g] # "absent")
     IN Goes(t, [thr[t] EXCEPT !.doc = Data(t), !.todo = present,
                   !.pc = IF present = <<>> THEN "refused" ELSE "ask"])

Ask(t) ==
  /\ thr[t].pc = "ask" /\ Loaded(t)
  /\ LET g == Head(thr[t].todo) IN
     Goes(t, [thr[t] EXCEPT !.doc[g] = AccessOf(Data(t), g), !.todo = Tail(@),
                !.pc = IF Len(thr[t].todo) = 1 THEN "match" ELSE "ask"])

Compiled(t) == {g \in Groups : thr[t].doc[g] \notin {"absent", "deny"}}
Fits(t) == {g \in Compiled(t) : thr[t].request.lines \subseteq Patterns[g]}

\* The first group of the file that allows every line.
FirstFit(t) ==
  LET i == SelectInSeq(Order, LAMBDA g : g \in Fits(t)) IN IF i = 0 THEN "none" ELSE Order[i]

\* A slip: a group that is named is not asked for, nor its compiled patterns.
MatchedUnasked(t) ==
  LET named == thr[t].request.group IN
  IF thr[t].request.lines \cap Blocks # {} THEN "none"
  ELSE IF named = "none" THEN FirstFit(t)
  ELSE IF thr[t].request.lines \subseteq Patterns[named] THEN named ELSE "none"

(* The group that is named, whose access is asked for once more, or the    *)
(* first one that allows every line.                                       *)
Matched(t) ==
  LET named == thr[t].request.group IN
  IF thr[t].request.lines \cap Blocks # {} THEN "none"
  ELSE IF named = "none" THEN FirstFit(t)
  ELSE IF AccessOf(Data(t), named) # "deny" /\ named \in Fits(t) THEN named ELSE "none"

Match(t) ==
  /\ thr[t].pc = "match" /\ Loaded(t)
  /\ Goes(t, [thr[t] EXCEPT !.matched = Matched(t),
                !.pc = IF Matched(t) = "none" THEN "refused" ELSE "engine"])

GroupAccess(t) == AccessOf(Data(t), thr[t].matched)

(* propose_change saves the change, and approves it if the group's access  *)
(* is "allow".                                                             *)
SaveChange(t) ==
  /\ thr[t].pc = "engine" /\ Loaded(t)
  /\ Goes(t, [thr[t] EXCEPT !.pc = "saved",
                !.result = IF GroupAccess(t) = "allow" THEN "approved" ELSE "proposed"])

Answer(t) ==
  /\ thr[t].pc \in {"saved", "refused"}
  /\ thr' = [thr EXCEPT ![t] = Idle]
  /\ UNCHANGED <<file, cache, rules, gateway, ops, faults, synced, unsaved, overlapped>>
-----------------------------------------------------------------------------
(* Writers of the policy.  /policy/groups of the GUI loads the document,   *)
(* changes it in the cache, writes it and loads it again.  A file that     *)
(* reads as nothing is written back as a document without groups.          *)
SaveGroups(updates) ==
  /\ Begin("gui", [Idle EXCEPT !.op = "save", !.pc = "groups", !.doc = updates])
  /\ UNCHANGED <<file, cache, rules, gateway, faults, synced, unsaved>>

Updated(access, updates) ==
  [g \in Groups |-> IF access[g] = "absent" THEN "absent" ELSE updates[g]]

UpdateGroups ==
  /\ thr["gui"].pc = "groups" /\ Loaded("gui")
  /\ LET new == Updated(Data("gui"), thr["gui"].doc) IN
     /\ thr' = [thr EXCEPT !["gui"] = [@ EXCEPT !.pc = "open", !.mtime = "none",
                                         !.todo = <<"runtime">>, !.doc = new]]
     /\ cache' = [Cached("gui") EXCEPT !["gui"].data = new]
  /\ UNCHANGED <<file, rules, gateway, ops, faults, synced, unsaved, overlapped>>

Reloaded == thr["gui"].pc = "again" /\ Loaded("gui") /\ Goes("gui", Idle)

(* save_ios_xe_policy_content of the editor: every copy in turn.           *)
Edit(t, d) ==
  /\ t \in Hosts
  /\ Begin(t, [Idle EXCEPT !.op = "edit", !.pc = "open", !.doc = d,
                 !.todo = <<"canonical", "bundle", "runtime">>])
  /\ UNCHANGED <<file, cache, rules, gateway, faults, synced, unsaved>>

(* sync-ios-xe-policy.py: what the generator holds, in both copies of the  *)
(* repository.                                                             *)
Sync(t) ==
  /\ t \in Hosts
  /\ Begin(t, [Idle EXCEPT !.op = "sync", !.pc = "open", !.doc = Generated,
                 !.todo = <<"canonical", "bundle">>])
  /\ UNCHANGED <<file, cache, rules, gateway, faults, synced, unsaved>>

(* deploy-ios-xe-policy.py, with --preserve-access or without.             *)
Deploy(t, op) ==
  /\ t \in Hosts /\ op \in {"deploy", "preserve"}
  /\ file["canonical"].access # NoGroups
  /\ Begin(t, [Idle EXCEPT !.op = op, !.pc = IF op = "preserve" THEN "merge" ELSE "open",
                 !.doc = file["canonical"].access, !.todo = <<"bundle", "runtime">>])
  /\ UNCHANGED <<file, cache, rules, gateway, faults, synced, unsaved>>

\* A slip: the first destination's access is used for all.
MergeAccessOnce(t) ==
  /\ thr[t].pc = "merge"
  /\ LET old == file[Head(thr[t].todo)].access IN
     thr' = [thr EXCEPT ![t].pc = "open",
               ![t].doc = [g \in Groups |-> IF @[g] = "absent" \/ old[g] = "absent"
                                              \/ Len(thr[t].todo) = 1 THEN @[g] ELSE old[g]]]
  /\ UNCHANGED <<file, cache, rules, gateway, ops, faults, synced, unsaved, overlapped>>

(* _merge_access changes the document that all destinations share.         *)
MergeAccess(t) ==
  /\ thr[t].pc = "merge"
  /\ LET old == file[Head(thr[t].todo)].access IN
     thr' = [thr EXCEPT ![t].pc = "open",
               ![t].doc = [g \in Groups |-> IF @[g] = "absent" \/ old[g] = "absent"
                                              THEN @[g] ELSE old[g]]]
  /\ UNCHANGED <<file, cache, rules, gateway, ops, faults, synced, unsaved, overlapped>>

Open(t) ==
  /\ thr[t].pc = "open"
  /\ Content(Head(thr[t].todo), Truncated, [thr EXCEPT ![t].pc = "write"])
  /\ UNCHANGED <<rules, gateway, ops, faults, overlapped>>

Written(t) ==
  IF thr[t].op = "save" THEN [thr[t] EXCEPT !.pc = "again", !.todo = <<>>]
  ELSE IF Len(thr[t].todo) = 1 THEN
    IF thr[t].op = "install" THEN [thr[t] EXCEPT !.pc = "merge rules", !.todo = <<>>] ELSE Idle
  ELSE [thr[t] EXCEPT !.pc = IF thr[t].op = "preserve" THEN "merge" ELSE "open", !.todo = Tail(@)]

Write(t) ==
  /\ thr[t].pc = "write"
  /\ Content(Head(thr[t].todo), Copy(thr[t].doc), [thr EXCEPT ![t] = Written(t)])
  /\ UNCHANGED <<rules, gateway, ops, faults, overlapped>>

(* The file cannot be opened, or written: copies written before stay.      *)
Fail(t) ==
  /\ thr[t].pc \in {"open", "write"}
  /\ faults < MaxFaults /\ faults' = faults + 1
  /\ thr' = [thr EXCEPT ![t] = Idle]
  /\ unsaved' = (unsaved \/ (thr[t].op = "save" /\ thr[t].pc = "open"))
  /\ UNCHANGED <<file, cache, rules, gateway, ops, synced, overlapped>>
-----------------------------------------------------------------------------
(* reload_enforcement of the GUI, and the merge of the DefenseClaw page on *)
(* the host: merge-ios-xe-policy.py of the runtime copy, then a restart of *)
(* the gateway.                                                            *)
Reload(t) ==
  /\ t \in {"gui"} \cup Hosts
  /\ Begin(t, [Idle EXCEPT !.op = "reload", !.pc = "merge rules"])
  /\ UNCHANGED <<file, cache, rules, gateway, faults, synced, unsaved>>

(* install-clawlab-guardrail-rules.sh: rules of its own are merged, which  *)
(* keeps those of the policy, the copies of the repository are generated   *)
(* again, and then the canonical one is merged and the gateway restarted.  *)
(* refresh-clawlab-policies.sh is Sync, Deploy and Install one after the   *)
(* other.                                                                  *)
Install(t) ==
  /\ t \in Hosts
  /\ Begin(t, [Idle EXCEPT !.op = "install", !.pc = "rules", !.doc = Generated,
                 !.todo = <<"canonical", "bundle">>])
  /\ UNCHANGED <<file, cache, rules, gateway, faults, synced, unsaved>>

\* build_rules: the groups that are denied; an empty file is an error.
Denied(copy) == {g \in Groups : copy.access[g] = "deny"}

\* A slip: every reload reads the canonical copy.
MergeReadCanonical(t) ==
  /\ thr[t].pc = "merge rules"
  /\ thr' = [thr EXCEPT ![t] = IF file["canonical"].whole
       THEN [@ EXCEPT !.pc = "rules", !.deny = Denied(file["canonical"]), !.current = TRUE]
       ELSE Idle]
  /\ UNCHANGED <<file, cache, rules, gateway, ops, faults, synced, unsaved, overlapped>>

MergeRead(t) ==
  /\ thr[t].pc = "merge rules"
  /\ LET copy == file[Source(thr[t].op)] IN
     thr' = [thr EXCEPT ![t] =
       IF copy.whole THEN [@ EXCEPT !.pc = "rules", !.deny = Denied(copy), !.current = TRUE]
       ELSE Idle]
  /\ UNCHANGED <<file, cache, rules, gateway, ops, faults, synced, unsaved, overlapped>>

(* merge_command_rules: rules are replaced or added, and never removed.    *)
ReadRules(t) ==
  /\ thr[t].pc = "rules"
  /\ thr' = [thr EXCEPT ![t].pc = "open rules", ![t].deny = @ \cup rules]
  /\ UNCHANGED <<file, cache, rules, gateway, ops, faults, synced, unsaved, overlapped>>

OpenRules(t) ==
  /\ thr[t].pc = "open rules"
  /\ rules' = {}
  /\ thr' = [thr EXCEPT ![t].pc = "write rules"]
  /\ UNCHANGED <<file, cache, gateway, ops, faults, synced, unsaved, overlapped>>

WriteRules(t) ==
  /\ thr[t].pc = "write rules"
  /\ rules' = thr[t].deny
  /\ thr' = [thr EXCEPT ![t].pc = IF thr[t].todo = <<>> THEN "restart" ELSE "open"]
  /\ UNCHANGED <<file, cache, gateway, ops, faults, synced, unsaved, overlapped>>

Restart(t) ==
  /\ thr[t].pc = "restart"
  /\ gateway' = rules
  /\ thr' = [thr EXCEPT ![t] = Idle]
  /\ synced' = IF thr[t].current THEN Source(thr[t].op) ELSE "none"
  /\ UNCHANGED <<file, cache, rules, ops, faults, unsaved, overlapped>>

(* The merge fails half way, or the gateway does not restart; the GUI then *)
(* tries the same again in its own container, if that is set up for it.    *)
ReloadFails(t) ==
  /\ thr[t].pc \in {"rules", "write rules", "restart"}
  /\ faults < MaxFaults /\ faults' = faults + 1
  /\ \/ thr' = [thr EXCEPT ![t] = Idle]
     \/ t = "gui" /\ thr' = [thr EXCEPT ![t] = [Idle EXCEPT !.op = "reload", !.pc = "merge rules"]]
  /\ UNCHANGED <<file, cache, rules, gateway, ops, synced, unsaved, overlapped>>
-----------------------------------------------------------------------------
Request(t) ==
  \/ \E r \in Requests : Propose(t, r)
  \/ \E d \in Documents : Edit(t, d)
  \/ \E op \in {"deploy", "preserve"} : Deploy(t, op)
  \/ Sync(t) \/ Reload(t) \/ Install(t)

Step(t) ==
  \/ Stat(t) \/ Compile(t) \/ Ask(t) \/ Match(t) \/ SaveChange(t) \/ Answer(t)
  \/ MergeAccess(t) \/ Open(t) \/ Write(t) \/ Fail(t)
  \/ MergeRead(t) \/ ReadRules(t) \/ OpenRules(t) \/ WriteRules(t) \/ Restart(t) \/ ReloadFails(t)

Next ==
  \/ \E updates \in [Groups -> Access] : SaveGroups(updates)
  \/ UpdateGroups \/ Reloaded
  \/ \E t \in Threads : Request(t) \/ Step(t)

Spec == Init /\ [][Next]_vars
-----------------------------------------------------------------------------
TypeOK ==
  /\ file \in [Files -> {Truncated} \cup {Copy(d) : d \in [Groups -> Access \cup {"absent"}]}]
  /\ \A p \in {"mcp", "gui"} :
       cache[p].data \in [Groups -> Access \cup {"absent"}] /\ cache[p].fresh \in BOOLEAN
  /\ rules \subseteq Groups /\ gateway \subseteq Groups
  /\ \A t \in Threads : thr[t].deny \subseteq Groups /\ thr[t].matched \in Groups \cup {"none"}
  /\ ops \in 0 .. MaxOps /\ faults \in 0 .. MaxFaults

(* Hot reload: a change is approved without a reviewer only if the file    *)
(* said "always allow" of its group at some moment while it was proposed,  *)
(* and proposed at all only if it did not say "always deny" throughout;    *)
(* saves, edits and truncated files may come between any two of the        *)
(* engine's looks.  Not so in the GUI after it failed to open the file for *)
(* a save, which leaves its own cache changed.                             *)
AccessOfTheTime ==
  \A t \in {"mcp", "gui"} :
    thr[t].pc = "saved" /\ ~ (t = "gui" /\ unsaved) =>
      /\ thr[t].result = "approved" => "allow" \in thr[t].seen[thr[t].matched]
      /\ thr[t].seen[thr[t].matched] # {"deny"}

(* After a reload the gateway enforces every group that is denied in the   *)
(* copy the reload reads, if that copy has not changed since, whatever     *)
(* failed before or was being saved meanwhile: after the GUI's or          *)
(* DefenseClaw's, what the portal denies; after                            *)
(* install-clawlab-guardrail-rules.sh only what the canonical copy denies, *)
(* which need not be what the portal does.  Two reloads at once undo each  *)
(* other.                                                                  *)
DenyEnforced ==
  synced # "none" /\ "rules" \notin overlapped => Denied(file[synced]) \subseteq gateway

(* "Keep allow_groups.access values from each destination file when group  *)
(* names match": what deploy-ios-xe-policy.py --preserve-access opens to   *)
(* overwrite, it overwrites with the access that is there.                 *)
DeployKeepsAccess ==
  [][\A t \in Hosts, f \in Files :
       thr[t].op = "preserve" /\ thr[t].pc = "open" /\ Head(thr[t].todo) = f
         /\ thr'[t].pc = "write" /\ "policy" \notin overlapped' =>
         \A g \in Groups : file[f].access[g] # "absent" /\ thr[t].doc[g] # "absent"
                             => thr[t].doc[g] = file[f].access[g]]_vars

(* "use Reload policy after deny changes so DefenseClaw inspect rules      *)
(* match": after the portal's reload the gateway denies the groups that    *)
(* the policy denies, and no others.                                       *)
RulesMatch ==
  synced = "runtime" /\ "rules" \notin overlapped => gateway = Denied(file["runtime"])
=============================================================================
