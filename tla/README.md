# Verification of clawlab

clawlab is a gateway that lets an AI agent operate network devices and hosts
under human control. This directory holds TLA+ models of its own logic, the TLC
configurations that check them, and proofs for the parts that matter most.

Run a check with `tlc -config <run>.cfg <module>.tla` and a proof with
`tlapm <module>.tla`, in this directory. `PROJECT.json` lists the runs, the source
lines behind every definition, and a mutant for every property.

## Inventory

| Component | State | Operations | What is hard | What makes it correct |
|---|---|---|---|---|
| Change store (`ssh-ops-mcp/change_store.py`) | one YAML file per change | `next_id`, `save`, `load`, `update`, `set_status`, `approve`, `reject` | two processes and many threads read, merge and rewrite a file without a lock; `write_text` truncates first; crashes | an approval stays with the content it was given for; no record is lost without a crash |
| Change engine (`change_engine.py`) and its entry points in `server.py` and `webgui.py` | the status of a change; the record a request holds | propose, approve, reject, apply, rollback | a check long before the write it guards; device work in the middle | only reviewed content is pushed; an apply always ends; statuses follow the lifecycle |
| Approval rules (`change_approval.py`, `change_actor.py`) | settings | `validate_proposer`, `is_self_approval`, `assert_can_approve` | spellings of a name, generic names, policy approvals | four eyes |
| IOS targets (`network_apply.py`, `ios_change.py`, `verify_spec.py`) | running and startup configuration of a device | backup, push, verify, write memory, rollback | devices refuse lines silently, connections break half way, several changes share one device | nothing unverified is saved; a rollback restores |
| Proposal policy (`change_policy.py`, `ios_xe_policy.py`, `policy_reload.py`) | the policy file, its cache | match lines to groups, reload | stale cache | a blocked line is never proposed |
| DHCP sidecar (`dhcp-sidecar/`, `dhcp_sidecar_client.py`, `dhcp_change.py`) | include files, manifest, backups, the service | validate, apply, rollback | each step may fail after the previous one took effect; concurrent requests | a failed apply leaves what was there |
| Webex approval (`webex_approval.py`) | list of used links | mint, verify, mark used, card actions | list bounded, rewritten without a lock, links used late | a link works once |
| MCP identity (`mcp_identity.py`, `mcp_tokens.py`, `mcp_bind.py`, `rbac.py`, `claw_user_lookup.py`) | tokens, binds, caches of roles | resolve a caller, issue, revoke | caches, deletion, expiry | a revoked or demoted user loses access |
| claw-auth (`claw-auth/`) | users, roles, sessions in SQLite | create, update, delete, login | counts checked before the update that changes them | there is always an active superadmin |
| Host configuration (`webgui.py`, `server.py`) | `hosts.yaml`, the MCP server's cache of it | add, edit, delete, bulk secrets, hot reload | every request rewrites the whole file in place; the server may read half of it | the server's view is the file; imports keep what is there |
| Secrets store (`secrets_store.py`) | `.env` | set, delete, read | read, modify, rewrite, one secret at a time | a host and its secrets come and go together |
| Read-only MCP tools (`server.py`) | the call in progress, the transfers folder | run, tail, journal, health, restart, write, upload, download | a host is looked up several times in a call, while the GUI edits it | what runs was permitted for where it runs |
| Discovery (`network_discovery.py`, `discovery_import.py`) | the walk; staging list and job file of the GUI | walk, scan, stage, import | loops and failing devices; a worker thread against requests; restarts | a walk ends and finds what it should; a job ends |
| Webex audit bridge (`defenseclaw-webex-bridge`) | cursor and ids in a state file, recent keys in memory | poll, post, save | restarts, failed posts, duplicates | every violation is told, none is skipped or repeated |
| Change notification (`change_notify.py`) | none | post and mail after a decision | failures are swallowed | a failed notice changes nothing |
| Policy GUI and scripts (`defenseclaw-webgui`, `admin-access`) | three copies of the policy, rules of the gateway | edit, deploy, merge, reload | steps in separate programs, caches, truncated files | the gateway enforces what the policy denies |
| Installers, units, proxies, training generators | files of one host | run once by hand | none of the above | out of scope |

The agent's MCP server and the threaded admin GUI are two containers over one
directory of change files. The engine runs inside whichever of them got the
request; it reaches devices over SSH and DHCP servers through the sidecar's HTTP
API. Both portals ask claw-auth who a user is; the MCP server and the identity proxy
in front of it ask what a token stands for, and keep what they learned of roles.
`hosts.yaml`, `.env` and the policy are written by the GUI and by scripts and
read by the MCP server. Nothing holds a lock across processes.

## Modules, runs and plan

| Module | Part of the system | Checked in | Proofs |
|---|---|---|---|
| `ChangeLifecycle` | what the change workflow promises | `change` (refinement) | `ChangeWorkflowProofs` |
| `ChangeWorkflow` | change store, engine, approval rules | `change`, `claim_four_eyes` | `ChangeWorkflowProofs` |
| `IosTarget` | the engine on a network device | `targets`, `claim_confirmed` | `ChangeTargetsProofs` |
| `DhcpSidecar` | the sidecar and the engine's calls to it | `targets`, `claim_retry` | `DhcpSidecarProofs`, `ChangeTargetsProofs` |
| `Accounts` | claw-auth: users and sessions | `auth`, `claim_last_superadmin` | `AuthProofs` |
| `McpIdentity` | tokens, binds, proxy, role caches | `auth`, `claim_stale_role` | `McpIdentityProofs`, `AuthProofs` |
| `WebexApproval` | cards, signed links, used links | `portal` | `WebexApprovalProofs`, `PortalProofs` |
| `Console` | `hosts.yaml`, `.env`, staging, the discovery job | `portal`, `watch` | `PortalProofs` |
| `HostTools` | the MCP server's tools on a host | `portal` | `PortalProofs` |
| `PolicyRollout` | the policy, its cache, editors and reload | `portal`, `claim_rules` | `PortalProofs` |
| `NeighborWalk` | what a discovery finds | `watch` | `WatchProofs` |
| `AuditBridge` | the Webex audit bridge | `watch`, `claim_bridge` | `WatchProofs` |
| `ChangeHistory` | `ChangeWorkflow` with a history of overlaps | `change` | `ChangeWorkflowProofs` |
| `ChangeTargets` | `IosTarget` with `DhcpSidecar` | `targets` | `ChangeTargetsProofs` |
| `Auth` | `Accounts` with `McpIdentity` | `auth` | `AuthProofs` |
| `Portal` | `PolicyRollout` with `Console`, `WebexApproval`, `HostTools` | `portal` | `PortalProofs` |
| `Watch` | `AuditBridge` with `NeighborWalk` | `watch` | `WatchProofs` |

The last four (`ChangeTargets` to `Watch`) bring components together: each extends one of them, has the others as
instances with variables and constants of their own (renamed where two would clash),
and gives their properties names. Run and proof both extend such a module, so that a theorem states the very
formula that TLC checks. What a composition claims of a component is about that
component's own specification (`Console!Spec`, `Identity!Spec`): the components share no
state, and whatever the others do meanwhile leaves it alone.

The MC module of such a run (`MCAuth`, `MCTargets`, `MCWatch`, `MCPortal`) puts its components into one
state space: a variable `part` (`mode` in `MCChange`) is chosen in
the initial state, the part it names moves, and the variables of the others rest in
an initial state. A part has no more states than it would have in a run of its own.
Where two components do interact, one module holds both: `DhcpSidecar` the engine and
the sidecar, `Console` the GUI and the MCP server's cache, `HostTools` the server and the GUI's
saves, `McpIdentity` claw-auth, proxy, server and GUI, `PolicyRollout` server, GUI, scripts
and gateway.

Nothing is left of the plan. What has no proof, and why, is listed at the end.

## The change workflow

`ChangeLifecycle` says what a user is promised: a status per change, a named
proposer, an approver who is somebody else, and the edges between statuses.
Besides the documented edges it has `Lose`: a crash in the middle of a save
destroys the record. It is the abstract specification of

`ChangeWorkflow`, in which a change is a file and a request is a process taking the
steps the code takes.

| Model | Code |
|---|---|
| `files[i]` | what a reader of the change's YAML file finds: status, `created_by`, `approved_by`, and `body`, standing for `targets`; `"empty"` is a truncated file |
| `proc[p]` | the request a thread serves: the step it is at (`pc`), the status it will write (`goal`), the record it decided on (`seen`) and the one it will write (`buf`) |
| `Propose` | `propose_change` up to the first write |
| `Approve`, `Reject`, `Apply`, `RollBack` | the read and checks of the handlers |
| `Merge` | the second `load` in `change_store.update` |
| `Open`, `Flush` | truncation and content of `Path.write_text` |
| `AutoApprove` | the approval of an always-allowed policy group |
| `PushTarget`, `UndoTarget` | the target loops, of which only the outcome is kept |
| `Crash` | a container dies; its requests are gone, files stay |
| `approvals`, `pushed` | history: approvals that passed their checks, bodies sent to devices |

A request that is refused changes nothing, so refusals are steps not taken.
Approval and rejection load the record twice before writing; the first load can
only refuse what the second one would have refused later, so the two are one step.

`update` loads the file again. If another writer has just truncated it, the load
gives `{}`, the merged record has no `id`, and `save` files it under a fresh number,
without a proposer: `Merge` does that.

### Runs

| Run, mode | Instance | Shows |
|---|---|---|
| `change`, serial | one thread for everything, 2 numbers, 4 spellings, 2 bodies, 1 crash | the workflow implements `ChangeLifecycle` until requests overlap (`LifecycleWhenSerial`, checked in every mode) |
| `change`, team | 3 threads in 2 containers, 1 number | only reviewed content is pushed; an applying change is being applied; every apply settles |
| `change`, crash | 2 threads, 2 containers, 2 numbers, 1 crash | the same with crashes; an approved file is a reviewed one |
| `claim_four_eyes` | 2 threads that both propose | a change approved by its own proposer is pushed |

Bounds: a change is independent of the others except through `next_id` and torn
reads, so two numbers show every interaction; a third thread adds the overlap of a
pair with an apply in progress. One crash at any step covers each place the code
can stop. Numbers above `MaxId` are written as a stray record nobody reads.

Deadlock is not checked: when all numbers are used and all changes finished, no
request has anything left to do.

Fairness (`FairSpec`): a request that was started takes its next step. Flask and the
MCP server run a thread per request and nothing in the code waits on another
request; no fairness is assumed for operators. `ApplySettles` and `ApplyingHasExecutor` are
about behaviours without a crash: nothing resumes or voids an apply that a crash cut
short, and the change stays "applying". One more kind of record stays so for ever: an
apply whose second read finds a truncated file writes "applying" into a stray
record without targets under a fresh number (`change_store.py:104`, `:52`);
`ApplySettles` is about records with targets.

### What the documentation says and the code does not do

`claim_four_eyes`: two proposals may take one number, because `next_id` reserves
nothing; the second replaces the content of the first and inherits its approval,
which its own proposer may have given. `README.md` of ssh-ops-mcp, line 342, says a
different user approves.

`LifecycleWhenSerial` is about requests that do not overlap: `ChangeHistory` adds a history variable `met`,
true from the first overlap on, and the property is about the steps before that. With
overlaps TLC finds that the refinement fails, first by a torn read that files a stray record;
also, an approval decided before a rejection is merged into the rejected record after
it (`change_store.update` checks nothing again), and two applies of one change may
both read "approved" before either writes "applying" (`server.apply_change` says it
refuses). Which content is pushed is not affected, as the
modes team and crash and the theorems show.

### Proofs

`ChangeWorkflowProofs` proves, for any numbers of threads, containers, users,
changes and crashes and from `ConstantsOK` alone:

- `TypeCorrect`: `Spec => []TypeOK`. `TypeOK` is not inductive: a request must also
  name a change and, when it writes, a file and a status (`Addressed`).
- `AppliesWhatWasReviewed` and `ApprovalsAreReviews`: `PushedAsReviewed` and
  `ApprovedAsReviewed`, assuming `OneProposer` (at most one thread proposes, so
  numbers are not taken twice; `claim_four_eyes` shows the assumption is needed) and
  `FourEyesSettings` (both settings on, as the defaults are).

The invariant is `ReviewInv`. The heart of it is `OneContent`: all copies of change
`i`, in its file, in the buffers of writers and in the records approvers decided
on, have the same body and proposer. `Propose` is the only step that creates
content, and `IsNextId` makes sure its number has no other copy; every other step
copies content from the file it came from (lemma `Inherit`). An approval is
recorded for the copy in the file, so it speaks for the copy the merge finds later,
and `ReviewedAs` follows the content from there into the file, into the apply that
reads it, and to the device. `RequestOK` and `FilesOK` carry the bookkeeping: what
is absent or truncated has no content, and content is only written back to the
number it came from.

`ReviewInv` was checked by TLC on small instances before it was proved.

- `AppliesAreAttended`: `ApplyingHasExecutor`, without any hypothesis about threads or
  settings. It is not inductive: a request that met the file truncated merges into a
  stray record and does not attend to the change. `ExecutorInv` adds that a truncated file
  has no content and that a request writes back to the file it read, unless what it
  holds has no content either (`Tracked`).
- `ImplementsLifecycle`: `Spec /\ []Serial => Lifecycle!Spec`, the whole refinement, with
  `FourEyesSettings`. `Serial` says that at most one thread is busy, of however many, in
  however many containers, and a crash may come between any two of its steps; it is a
  hypothesis about the behaviour and not about the constants, because nothing in the
  code enforces it, and TLC shows what goes wrong without it (above).
  A record shows as what its file says, or as what is about to be written while the
  file is truncated (`Current`); so `Flush` is a stutter, `Open` is the step, and a crash
  in between is `Lose`. The invariant `SerialInv` says that from the check to the write nobody
  else touched the file (`Holds`), so that what is written follows the record on disk
  along an edge (`Follows`) and names its proposer (`Named`).

- `LifecycleUntilOverlap`: `LifecycleWhenSerial`, the property that `change` checks, which says the same without
  a hypothesis about the behaviour: `History => LifecycleWhenSerial`. The invariant is "`met`, or `Serial` and `SerialInv`".

`ExecutorInv` and `SerialInv` were checked by TLC as well. Only model-checked: `ApplySettles`
(liveness is out of the prover's reach).

## IOS targets

`IosTarget` opens up the loop that `ChangeWorkflow` abstracts to its outcome: what
`apply_change` and `rollback_change` do to one device. A configuration is a set of
items (a user, a line, "this interface is shut down"); a command adds or deletes one.

| Model | Code |
|---|---|
| `plan[c]` | the target block, as `ios_change` builds it |
| `running`, `startup` | the two configurations of the device |
| `job[c]` | the request at work on `c`: step, line number, verdict so far, failure stage |
| `Backup`, `PushLine`, `VerifyEntry`, `WriteMemory` | `backup_running_config`, `apply_config_lines` line by line, `verify_target` entry by entry, `write_memory` |
| `Fail`, `UndoLine`, `UndoDone` | the `except` branches and the automatic rollback |
| `RollbackExpect`, `RollbackVerify` | the inversions in `rollback_change` |
| `Fault` | a call raises, before or after the device acted, or the device refuses a line or says `% Invalid` without anything raised |
| `Reload` | the device restarts from `startup` |

One request works on a change at a time here; overlapping requests on one change
are the subject of `ChangeWorkflow`. What a show command prints is the set of items
it would show; that is all the verdict depends on.

| Run, part | Instance | Shows |
|---|---|---|
| `targets`, one | one change of seven kinds, five device states, 3 faults, 1 reload | nothing unverified is saved; outcomes last, over a reload too; every apply ends |
| `targets`, two | two changes to different items at once, 1 fault | outcomes last; `failure_stage` tells the truth |
| `claim_confirmed` | one user or interface change, no fault | a rollback that worked ends as "failed" |

Three faults let the apply, its automatic rollback and a requested rollback each
fail once; a second reload would start from the same `startup`. `ApplyEnds` assumes
that a request at work takes its next step: every call of netmiko has a timeout,
after which it raises.

`claim_confirmed`: `rollback_change` inverts an expectation that `ios_change` has
already inverted, and waits for the state it has just undone. The default verify
command (`show running-config`, expected to print nothing after a rollback) never
passes for the same reason.

Three further statements of `docs/AGENT_ARCHITECTURE.md` hold only under conditions
that the properties name. "Never save an unverified change": `write_memory` saves the
whole running configuration, so `NothingUnverifiedSaved` fails in the instance of
part two, where one change saves the lines of another; the property is about devices on
which a single change has been started. "Rolled_back / failed -
restored to pre-change state": the rollback lines undo what was proposed and not
what the device was, so a user who was there before is deleted when the apply fails
(`Reversible` in `StageTellsTruth`); and a change without rollback lines, the deletion
of a user, is marked `rolled_back` with nothing sent, so that `OutcomeInForce` says
nothing about it. Nor does it, or `StageTellsTruth`, of a change of which the device refused a line
without an exception: such a change is applied if its verification does not look at that line.

`ChangeTargetsProofs` proves of `IosTarget`, for any number of changes, lines, faults and reloads:

- `TypeCorrect`: `Spec => []TypeOK`.
- `SavesVerified`: `NothingUnverifiedSaved`, in every instance and without a further
  assumption: as long as a single change has been started. `Started` is monotone
  (`StaysStarted`), and a step of a second change starts it (`ByStarted`), so the
  proof is about the steps of one change. The invariant `SaveInv` adds that whatever
  differs on the running configuration was touched by that change, and that a
  request about to save has passed its verification.
- `OutcomesLast` and `StagesTellTruth`: `OutcomeInForce` and `StageTellsTruth` for changes
  whose lines name different items (`Apart`). The invariant `ProgressInv` says how far each
  request has come: before line `k`, the first `k - 1` lines are in force
  (`InForceTo`), and for the automatic rollback each item has a last line about it
  (`LastKnown`), so that at its end the rollback lines decide every item
  (`ForceDecides`). Steps of other changes leave all that alone (`FrameProgress`).

## The DHCP sidecar

`DhcpSidecar` is the sidecar, its threads and its files, together with the engine
that calls it through curl over SSH.

| Model | Code |
|---|---|
| `files`, `manifest` | `dhcpd.d/*.conf` and the generated list of them |
| `backup[c]`, `meta[c]` | the copies and `manifest.json` under a change id |
| `service` | whether dhcpd runs, and with what it was last loaded |
| `thread[t]` | a request: its next file operation, and what it has read |
| `Test` ... `Reload` | `apply_include`, one action per file operation or command |
| `CutInclude` and `Write`, `CutManifest` and `WriteManifest`, `PutBack` and `Put` | writing an include, the list of includes, and copying one back: each cuts the file off (`Empty`) and then fills it |
| `Find`, `Restore`, `Check` | `rollback_change` |
| `Apply`, `Answer`, `Verify`, `RollBack`, `Confirm` | the `dhcp_sidecar` branches of the engine |
| `Lose`, `Unreached`, `Reboot`, `Fault` | lost answers, an unreachable server, a reboot, timeouts of dhcpd and systemctl |
| `Edit` | an apply from the sidecar's own page, under any change id |

A reboot may come between any two of these steps, and so while a file is cut off. The two files of a backup,
the copy and `manifest.json`, are written in one step each: only requests about the same change
read them, and one that finds either unfinished refuses as if there were none.

`Valid` is what `dhcpd -t` says of a set of files. The instances use two contents that
clash and one that needs another, so that each file can be right alone and wrong
together.

| Run, part | Instance | Shows |
|---|---|---|
| `targets`, lone | one change, 1 thread shared with the sidecar's page, 2 includes, 2 initial trees, 2 faults, 1 reboot, 1 edit | the manifest is exact whenever nothing is under way; the change stays applied or rolled back; every apply ends |
| `targets`, serial | two changes, the same with 1 fault | the same, of changes that follow each other |
| `targets`, pair | 2 threads, 1 fault, 1 reboot, with no include at the start, or the first change's with another content | the copy and `manifest.json` always undo what was written |
| `claim_retry` | 1 thread, no fault at all | a repeated rollback takes dhcpd down |

`OutcomeStays` has an exception that TLC found: `regenerate_includes_manifest` truncates
`00-clawlab-includes.conf` and then writes it (`dhcp_ops.py:100`). A reboot in between leaves it empty, and dhcpd comes up
with no include at all, those of other applied changes included, until the next
request gets as far as writing it. Nothing in the sidecar writes it at its start; the installer does (`install-dhcp-sidecar.sh:66`). The includes
themselves stay (`manifest # Empty` in `AppliedStays`).

`claim_retry`: `rollback_change` removes an include and then tests; if `dhcpd -t` refuses,
the file stays removed, and a second rollback, which removes nothing, skips the test
and restarts dhcpd with what it refused.

The properties of lone and serial are about requests served one at a time, which the
sidecar does not enforce. With two threads TLC finds that `ManifestExact` fails (two
requests list the includes and write their lists in the other order), and with a lost
answer that `OutcomeStays` fails (the engine gives the change up, a rollback finds
nothing to undo, and then the sidecar writes the include). A lost answer also leaves
the include of a "failed" change served: the engine rolls back only what it knows was
applied. `UndoIsExact` holds with two threads, and fails with an edit from the page
under the id of a change: the original copy is overwritten. Two changes to one
include, which the instances leave out, may be rolled back in the wrong order; the
newer one's copy then brings the older one back.

Threads above two add nothing that two do not show for a file, which is read and
written by single operations. Fairness: a thread takes its next step; the engine is
given strong fairness because it may have to wait for one of the `Threads` the model
bounds, where Flask would start another.

`DhcpSidecarProofs` proves, from `ConstantsOK` and for at least one change, with any
number of includes, threads, timeouts, lost calls, reboots and edits:

- `TypeCorrect`: `Spec => []TypeOK`.
- `UndoStaysExact`: `edits = 0 => UndoIsExact`, always, for changes to different includes
  (`Distinct`), however their requests overlap. `UndoInv` says how far the copying has come
  (`CopyingOK`): before the copy the include is what it was before the change and there is no
  older copy (`Fresh`), from `manifest.json` on the two together say what it was (`Exact`).
  This needs that a change is applied by one request only, which follows from its status:
  the engine sends an apply for an approved change and none is approved again.
- `ManifestStaysExact`: `ManifestExact` if requests do not overlap: `Spec /\ []Serial`, with
  `Serial` saying that at most one thread is busy. The point is the test after the write:
  it cannot fail if the one before passed and nobody wrote in between (`ListingOK`), so the
  branch of `apply_include` that puts the copy back and leaves the manifest as it is
  is not taken. In an overlap it can be, and the manifest then names a file that is gone.
  Between the first cut of a file and the list being written (`Making`) nothing is said of the list.
- `OutcomesStay`: `OutcomeStays` under `Serial` and `Distinct`. `OutcomeInv` follows the outcome from
  the write (`WritingOK`) over the answer to the record (`OutcomeOK`), and needs `UndoInv` to know that
  what a rollback restores is what was there. The list of includes names the change or is
  cut off (`InEffect`); it is cut off while a request works on it, and when a reboot ended that request, which
  is the exception above.

All three invariants were checked by TLC first. `[]Serial` is a hypothesis, as in the proof about
the change workflow: the sidecar serves each request in a thread of its own.

The properties that `targets` checks say the same with a history variable instead of a
hypothesis: `met` becomes true in `ChangeTargets` when two requests are in the sidecar at once and stays
so, and `ManifestExact` and `OutcomeStays` are about the states before that. Overlaps are thus
steps of the model, and the promise ends where they begin. `ChangeTargetsProofs` proves these
as well (`TypesCorrect`, `UndoThere`, `ManifestStays`, `OutcomesStand`). The temporal argument does not follow
from the theorems with `[]Serial`, whose hypothesis is about the whole behaviour; it takes
their inductive invariants, in the form "`met` or the invariant".

## Accounts

`Accounts` is claw-auth: the users and login sessions that the portals share, the pages
on which they are managed, and `manage.py`.

| Model | Code |
|---|---|
| `user[n]` | the row of `n`; `gen` tells accounts of one name apart that were deleted and created again |
| `session[s]` | a row of `sessions` and the account that logged in |
| `job[t]` | a request: its next statement, the session it was admitted with, its form |
| `Login`, `CreateSession` | `authenticate` and `create_session`, two transactions |
| `AskCreate`, `AskDelete`, `AskEdit`, `Shell` | the checks of the pages and of `manage.py` |
| `Create`, `Delete` | `create_user`, `delete_user` |
| `CheckRole` ... `SetDisabled` | `update_user`: the checks of a field and the UPDATE of it, field by field |
| `Promoted` | `init_db`, with which nearly every read begins, makes the old account `admin` a superadmin |

Passwords are right and are not kept. A refused field ends the request and leaves the
fields before it written, as in the code: an edit that is refused for its Webex
address has changed the role.

| Run, part | Instance | Shows |
|---|---|---|
| `auth`, accounts | 1 thread, 2 names, 2 accounts of each, 2 sessions, 1 address | sessions end with their account; editing keeps a superadmin; only superadmins make or unmake one |
| `claim_last_superadmin` | 2 threads, 1 account of each name | no superadmin is left |

Two names are the smallest number with somebody to demote and somebody who does it,
and an address to compete for; two accounts of a name let a session meet a later
account.

`claim_last_superadmin`: `update_user` counts in one transaction and writes in another, so
the superadmin it counted may be gone (demoted, disabled or deleted) when it writes.

The other two properties fail with two threads as well: a login that passed
`authenticate` opens its session after the account was disabled or deleted (it is
useless until the account is enabled, or created anew by somebody else), and an edit
writes the role it read although somebody was promoted meanwhile. Deleting the last
superadmin is not forbidden by the code at all, to admins included; `SuperadminRemains`
excepts it.

`AuthProofs` proves of `Accounts`, for any number of names, addresses, sessions and threads:

- `TypeCorrect`: `Spec => []TypeOK`. Besides the types, the invariant `TypeInv` says that a
  request is about a name (`Addressed`) and that the bound on accounts counts the ones
  about to be created (`Bounded`).
- `SessionsAreCurrent`, `SuperadminStays`, `RolesNeedRank`: the three properties, under
  `OneAtATime`, which `claim_last_superadmin` shows to be needed. The invariant `SerialInv` carries what a request
  has checked from the check to the write (`Checked`): the user is still there, the role
  may still be changed, the superadmin is still not the only one. `LastSuperadmin` then
  counts: a step that leaves none takes away the only one (`OnlySuperadmin`), and the
  check saw two.

## Who is calling

`McpIdentity` follows a request to a tool. A client sends a personal token, a bind token or
nothing to `mcp_identity_proxy`, which resolves it in claw-auth's database and passes name
and role on as headers; the server behind it resolves again, and asks for the role
when the tool checks it. A browser reaches the GUI through nginx with headers of the
same kind.

| Model | Code |
|---|---|
| `user[n]` | the row of `n`: role, disabled, or absent |
| `pat[t]`, `bind[b]` | `mcp_tokens` and `mcp_binds`, by name of the owner, with expiry and revocation |
| `cache[p]` | `_ROLE_CACHE` of server and GUI: a role, "none", or not asked yet |
| `Arrive`, `Forward`, `Identify`, `Call` | proxy, headers, middleware of the server, `resolve_role` and `rbac.check_*` |
| `Restart` | a container restarts with an empty cache; requests in it are gone |

| Run, part | Instance | Shows |
|---|---|---|
| `auth`, restart | 2 users, a token, a bind, 1 request, 1 edit, 1 restart | tokens that lapsed do nothing; admin tools run for somebody who has been an admin since the process started; a proposer is the owner of the credential |
| `auth`, edits | the same, 2 edits, no bind | the same |
| `claim_stale_role` | one edit | a demoted admin keeps the role |

Requests share only the caches and the tables, and each reads those once or twice, so
that another request shows as an edit or a cached answer; one is followed.

`claim_stale_role`: nothing clears `_ROLE_CACHE`, so that a cached "admin" wins over header and
row, which `resolve_role` says is the trusted one. `AdminHasBeenAdmin` is what does hold.
The cache remembers "no role" as well. A bind that expires lets the request go on
without a name instead of refusing it; tokens of a deleted user stand for whoever
gets the name next; `mcp_identity_proxy.py:96` reads its `.env` without care for a writer.

`McpIdentityProofs` proves, for any number of users, tokens, binds, requests, edits and restarts,
assuming that "nobody" is no user's name:

- `TypeCorrect`: `Spec => []TypeOK`; a token that was issued has an owner (`Issued`).
- `LapsedRefused`, `AdminsHaveBeen` and `ProposersOwn`: the three properties. The invariant says
  where a request got its name and its role: behind the proxy the name is the
  owner's (`NameBacked`), a role "admin" is one that somebody had since the process
  started (`RoleBacked`), and so is every "admin" in a cache (`AdminsKnown`). That a token is
  never live again, and never changes hands while a request carries it, is what makes
  `NameBacked` inductive.

`AuthProofs` states the three for the instance `Identity` that `auth` checks (`TokensLapse`,
`AdminsAreAdmins`, `OwnersPropose`).

## Decisions from Webex

`WebexApproval` has the card with its buttons, the signed links of the same message, the list
of used links and the cache of Webex emails.

| Model | Code |
|---|---|
| `status[c]`, `proposer[c]` | the record of a change; files are `ChangeWorkflow`'s |
| `used` | `webex-action-tokens.json`, which keeps `Cap` links, the last in alphabetical order |
| `linked`, `cache` | claw-auth's emails and `_EMAIL_CACHE` |
| `Press`, `Click` | a button (by webhook) and a confirmed link |
| `Check`, `Save`, `Notice` | the engine's approve or reject |
| `ReadMarks`, `OpenMarks`, `WriteMarks` | `_mark_used`: read, truncate, write |

`portal` checks it with two threads, one change, room for one used link, three requests and
a restart (webex), and with an email that changes hands (links). `DecidedOnce` says
that a change is decided once although marks get lost; `SpentLinksRefused` says that a
used link is refused, and names the exceptions: overlapping requests, a restart in the
middle of the write, and links dropped for want of room.

Written as the code has it, with no promise to hold it to: a link is marked used even when the
engine refused the decision (`webgui.py:1171`), and the account of a Webex email is
remembered until a restart, also when there was none (`claw_user_lookup.py:73`).

`WebexApprovalProofs` proves, for any number of changes, users, requests and restarts and any
limit of the list:

- `TypeCorrect`: `Spec => []TypeOK`.
- `OneDecision`: `DecidedOnce`. While requests take turns (`Turns`), a change that was decided
  has left "proposed", and a request about to save is about one that was not (`DecisionsOK`):
  it is the status that keeps a link from working twice, not its mark.
- `LinksRefused`: `SpentLinksRefused`. `ListOK` follows the marks through the rewriting of
  the file: what is in it, or is about to be, is every link spent, except where `Cap` spent ones
  come after. Adding one link keeps that, by counting (`FiniteSetTheorems`).

`PortalProofs` states them for the instance `Webex` that `portal` checks.

## Hosts, secrets and discovery

`Console` is the host and discovery pages. A handler is a list of effects on files, each of
them a truncation and a write; an empty file reads as nothing.

| Model | Code |
|---|---|
| `hosts`, `env`, `staging`, `job` | `hosts.yaml`, `.env`, `.discovery_staging.yaml`, `.discovery_job.json` |
| `thr[t]` | a request, or the discovery thread: what it read and what it has still to write |
| `SaveHost`, `Delete`, `Bulk`, `Upload`, `StagingSave`, `Import`, `StartWorker` ... | the pages |
| `MergeOne`, `HostKey` | `discovery_import.merge_into_config` and its choice of a key |
| `server`, `Stat`, `Load` | `_HOSTS_CACHE` and `_current_hosts`: first the time, then the file |
| `Crash` | the GUI's container restarts; its threads are gone |

| Run, part | Instance | Shows |
|---|---|---|
| `portal`, console | 3 devices of which two share a hostname, 3 keys, 1 request at a time and a worker, 2 operations, 1 restart | imported hosts can be logged in to; secrets go with their host; an import overwrites nothing |
| `portal`, server | 1 operation beside the MCP server | the server's view is the file whenever it takes it for current |
| `watch`, console | 1 device, 1 restart | a discovery that is shown as running ends |

`ImportedHasLogin`, `NoOrphanSecrets` and `JobEnds` are promises to one operator at a time: requests that
overlap lose each other's update of `hosts.yaml` or `.env` (`webgui.py:126`,
`secrets_store.py:75`), two clicks start two discoveries (`webgui.py:1470`), showing a finished
job may remove the file of a new one (`:1024`), a row index may have moved (`:1567`,
`:1594`), and after a restart the job is "running" for ever (`:1414`). A server that starts while
`hosts.yaml` is empty does not come up; one that runs keeps the last good hosts.

Fairness in `watch`: a thread takes its next step; nothing waits for another.

`PortalProofs` proves of `Console`, for any devices, keys, lists of rows, requests, workers and
restarts, from `ConstantsOK` (finitely many keys, lists no longer than the limit) and no other
hypothesis:

- `ConsoleTyped`: the types. For them a handler has to be described: its effects come in an order in
  which passwords precede `hosts.yaml` and deletions follow it (`Ordered`), it has
  effects left exactly when it is about to work on one, and a discovery's thread touches only the
  staged rows and the job (`Paged`, `Background`).
- `LoginsKept` and `OrphansGone`: `ImportedHasLogin` and `NoOrphanSecrets`. Neither says anything of the
  middle of a request; the invariants `PageLoginInv` and `OrphanInv` do, of the one request that is at work as
  long as none overlapped (`TurnsInv`). They speak of the files as they will be when
  what is open has been written (`EnvOf`, `HostsOf`): every imported host has its password there or
  on the list of effects, and every password there is that of a host that there
  is or will be, or it is on the list to be deleted. A restart drops the list: for passwords that is harmless
  because they come first (`LoginOK`), and it is why `NoOrphanSecrets` excludes restarts.
- `ServedFresh`: `ServerFresh`, which is inductive as it stands.
- `ImportsMerge`: `ImportMerges`, an action property. What `MergeSelected` makes of the hosts, row by row, is in
  `Merges` (no entry changed, no address given a second key), by induction over the rows.

These invariants (`ConsoleInv`) were checked by TLC first.

`NeighborWalk` is `network_discovery.py`: the depth-first walk over CDP or LLDP neighbours with its
shared set of visited addresses, and the scan of a range with a pool of threads. `watch`
(walk) checks it on four devices in four networks (a ring listed in both orders, a line, a
diamond), with every reaction of the devices. `Ends`: a discovery ends, by
`WF(Advance)`, because every login has a timeout. `Complete`: it finds nothing out of
reach, the seed's neighbours, and with hops to spare everything in reach. Hops to spare
are needed: an address first met at the end of a long path is not visited again along a
short one (`network_discovery.py:264`), so that with few hops a device in reach can be
missed. `--enable-restconf` does nothing; the function it would call is `None`.

`WatchProofs` proves of `NeighborWalk`, for any network of finitely many addresses, any reactions,
order of neighbours and number of hops:

- `WalkTypeCorrect`: the types of lists, calls and jobs.
- `WalkComplete`: the whole of `Complete`. The invariant `WalkInv` says of the calls that have not
  returned that each is for a device of its own, reached by as many hops as there are calls below it
  (`CallsOK`), which gives that nothing out of reach is found; and that the neighbours
  of the seed, and with hops to spare of every visited device, are visited or still on the
  list of the call for it (`Pending`). When no call is left, what was visited is
  closed under neighbours, and so contains what can be reached: by induction over the number
  of hops. With hops to spare no call runs out of them, since there are no more
  calls than devices (`FiniteSetTheorems`).

## The tools on a host

`HostTools` is a tool call from the agent's request to its effect on a host. Commands are names;
what the validators see in them (segments between pipes, first words, line breaks)
is given by constants.

| Model | Code |
|---|---|
| `RunCommand` ... `RestartService` | the checks of each tool |
| `Enter`, `CheckServices`, `Connect` | the lookups of the host: at the start, again in `restart_service`, and in `_connect` or `_run_network` |
| `SudoPassword`, `Login` | secrets, which a save in progress hides |
| `Runs`, `Downloads`, `Fails` | the effect, or none |
| `OpenHosts` ... `WriteEnv` | the GUI's saves, in between |

`RunsAsConfigured`, in `portal` (tools): one call of any tool, two saves or a restart of the
server, claw-auth's database appearing meanwhile. What reaches a host was permitted by an
entry `hosts.yaml` had for it during the call, and goes where such an entry says; if
`hosts.yaml` was not saved meanwhile, by one and the same entry. If it was, the two can
differ: the permission of the old entry, the address of the new one. One call is
enough, because a call leaves nothing to the next but the cache of hosts and the
transfers folder. About that folder no property is stated: a download that breaks off
leaves what it got under the name (`server.py:884`), and `upload_file` takes it for the file.
`PortalProofs` proves of `HostTools`, for any inventories, calls, commands and saves, `ToolsTyped` (the
types) and `RunAsConfigured`: `RunsAsConfigured`. The invariant `ToolsInv` follows a call from lookup to lookup (`CallOK`): the entry it
was checked for, the one it will connect to, the one the server's cache holds and the one in the file are
all among those seen during the call, and as long as nothing was saved that is a single one, which
was permitted.

`restart_service` (`server.py:690`) calls itself the only mutating operation of the server; the
write tools came later.

## The policy

`PolicyRollout` has the three copies of `ios-xe-policy.yaml`, everybody who writes them, the parsed
copy the server and the GUI keep until the file's time changes, a proposal's looks at
it, and the reload that turns denied groups into rules of the gateway.

| Model | Code |
|---|---|
| `file[f]` | the copy in the repository, in the bundle and at run time: access by group |
| `cache[p]`, `Stat`, `Loaded`, `Cached` | `ios_xe_policy.load_policy` |
| `Propose` ... `SaveChange` | `change_policy`, with a look at the policy for each question |
| `SaveGroups`, `Edit`, `Deploy`, `MergeAccess` | GUI, DefenseClaw editor, `deploy-ios-xe-policy.py` |
| `Sync`, `Generated` | `sync-ios-xe-policy.py`: the generator's groups into the two copies of the repository |
| `Reload` | `policy_reload.py` of the GUI, the merge of the DefenseClaw page: the runtime copy |
| `Install` | `install-clawlab-guardrail-rules.sh`: rules of its own, `sync-ios-xe-policy.py`, then the canonical copy |
| `MergeRead`, `ReadRules`, `WriteRules`, `Restart` | `merge-ios-xe-policy.py` on the copy given (`Source`), and the restart of the gateway |

`refresh-clawlab-policies.sh` is `Sync`, `Deploy` and `Install` one after the other; the restarts of
GUIs at its end are left out. What `merge-clawlab-guardrail-rules.py` merges of its own, in two passes over the
rules, is one pass, which keeps the policy's rules.

`portal` (policy) checks it with two groups, three lines (one always blocked), two operations
of server, GUI or host, and a failure. `AccessOfTheTime`: a proposal is judged by what
the file said at some moment while it was made. `DenyEnforced`: after a reload the gateway
denies what the copy denies that the reload reads, if that copy is still as it was. `DeployKeepsAccess`: `--preserve-access` preserves.

Which copy that is makes a difference the documentation does not mention. A group denied on the
GUI's page is denied in the runtime copy only, and the GUI's reload enforces it. The host's script, which
`README.md:249`, `docs/ARCHITECTURE.md:272`, `webgui.py:781` and the error of `policy_reload.py:122-126`
name as the same thing, merges the canonical copy (`install-clawlab-guardrail-rules.sh:32-34`), just
generated anew: after it the gateway denies what the generator denies, and the GUI's group
only if an earlier reload left its rules behind. With `--preserve-access` the runtime copy stays as it
was, so that the two differ from then on. `DenyEnforced` therefore speaks of the copy read
(`synced`), and `RulesMatch` below of the portal's reload, about which its line is.

`claim_rules`: `merge_command_rules` adds and replaces rules and removes none, so that a group taken
out of "deny" stays denied. Further: a save that cannot open the file has already
changed the GUI's cache (`ios_xe_policy.py:200`, the exception in `AccessOfTheTime`); a
truncated file reads as "approve" (`:125`), and a save over one writes a document without
groups (`:187`); two reloads at once, or a reload and `Install`, undo each other.

`PortalProofs` proves of `PolicyRollout`, for any groups, lines, documents and programs on the host, any number of
operations and failures:

- `TypeCorrect`: `Spec => []TypeOK`.
- `DeniesEnforced`: `DenyEnforced`. What a reload has read is still there and is on its way into
  the rules (`ReloadOK`), as long as one program at a time writes them (`Alone`).
- `AccessInTime`: `AccessOfTheTime`. `seen` records what the file said of each group since the
  proposal began; a cached copy that is taken for fresh is the file's, save in a GUI whose save
  is not written yet or failed (`CacheOK`), and every answer that the engine works with came from such a copy (`SeenOK`,
  `AnswersOK`). A group is the first in order that has the line: a well-founded choice
  (`WellFoundedInduction`).
- `AccessKept`: `DeployKeepsAccess`, an action property. The document that a deployment holds has the
  access of the file it opens next (`MergeOK`).

## The audit bridge

`AuditBridge` polls an audit table by row number and posts violations to Webex.

| Model | Code |
|---|---|
| `rows` | `audit_events` |
| `file` | the state file: cursor and the last ids dealt with |
| `bridge`, `recent` | the process, with its batch, endpoint and keys posted lately |
| `Fetch`, `TakeRow`, `Dispatch`, `EndRow`, `Save` | the loop |
| `RowRaises`, `dropped` | an exception inside a row, and the rows that had one |
| `Start`, `StartBackfill`, `Crash` | systemd, and `--backfill N` |

`watch` (bridge): three rows, two per fetch, two ids kept, one restart, one fault, one
endpoint; and (backfill) four rows of one key, so that a backfill reaches past the ids
that are kept. Fairness: `WF(Start)` because the unit has `Restart=always`, `WF(Loop)` because a poll
and a post have timeouts. `NothingSkipped` and `EventuallyHandled`: no row is left out for good,
except those that raise; `NoRepeat`: a row whose id is in the state file is not posted again (one whose id was not saved
may be: a crash between post and save repeats it). It has one exception. `save_state` cuts the
list in memory to its limit and then writes; if the write raises, the process goes on with a
shorter list than the file has, and after a backfill that reaches further back than the list
it posts rows that the file still names (`unsaved`). This takes a full list, hence the part with four rows.
The loop moves its cursor before it looks at a row (`dc-webex-bridge.py:218`) and catches what
is raised inside one only around the whole poll (`:235`): `is_violation` or `format_markdown` on a
row they cannot handle, or reading the body of an HTTP error (`:195`), which the `except` beside it does not
cover. The row is then given up with its remaining endpoints, the next poll starts
behind it and the next save makes that final, unless a restart comes first. Both properties name
these rows (`dropped`) and say that it costs no other row of the batch. What `fetch_new` raises
changes nothing, and is a step not taken.
A failed post is not repeated, and its key
silences the same event while it is recent; `EveryEndpointTold` counts it as tried.

`claim_bridge` (two endpoints): the key does not name the endpoint, so the second one is told
nothing. Further: a restart while the saved cursor is still 0 passes over the rows there are, and
`--backfill N` with N at least the number of rows gives the cursor 0, which means "none" to the loop;
with a small N it can move the cursor forward instead of back.

`WatchProofs` proves of `AuditBridge`, for any events and endpoints, any number of rows, restarts and
failures, any batch and any limit of the list:

- `TypeCorrect`: `Spec => []TypeOK`.
- `NoneSkipped` and `NoneRepeated`: `NothingSkipped` and `NoRepeat`. The invariant `BridgeInv` says that a
  batch is the rows after the cursor in order (`BatchOK`), that all up to the cursor, in memory and
  on disk, were dealt with or raised (`ProgressOK`), and that the list on disk is part of the one in
  memory or a save has failed (`ListsOK`).
- `EndpointsTold`: `EveryEndpointTold` if no two endpoints want violations of one key
  (`EndpointsApart`), as with a single endpoint; `claim_bridge` shows the need. `ToldOK`
  follows the keys: one that silences others was tried where they are wanted.

## Assumptions

Two saves of a file get different modification times. A file is written in one write
after it was truncated, and an empty file is what a truncated one is. One host program
at a time runs in `PolicyRollout`, and one request in each container. SQLite
transactions are atomic. Signatures, passwords and ciphertexts are right.

## Not modelled

- Installers, systemd units, nginx files and container definitions: run once, by hand,
  or declarations without behaviour of their own. Restarts are actions of the models.
- Training and benchmark generators, diagrams: text from text, offline.
- The pages of DefenseClaw's policy GUI other than the IOS-XE policy: each is a form over
  one YAML file with one writer.
- The parsing of proposals (`ios_change` beyond its blocks of lines, verify and rollback
  lines), the wording of notices, cards and mails, and the output of commands.
- The MCP tools that only read from a DHCP sidecar; the MCP token in `.env`.
- The setting `SSH_OPS_TRUSTED_PROXY_IPS` of the identity proxy, with which it takes name and role from
  the headers of the peers it names (`mcp_identity_proxy.py:52-57`, `mcp_identity.py`). The unit
  that runs it does not set it; `Forward` is the proxy without it.
- The page of `claw-auth` for OpenClaw devices, which runs a command and shows its output.

Only model-checked, not proved: all liveness (`ApplySettles`, `AppliesEnd`, `EventuallyHandled`,
`Ends`, `JobEnds`), which is out of the prover's reach, as is anything about ENABLED; and the
statements that the runs `claim_*` refute. Three of those (`PushedAsReviewed`, `SuperadminRemains`,
`EveryEndpointTold`) are proved under the hypothesis that the refuting instance lacks.

Induction over data works in the proofs only in one form. The library's induction theorems take an operator as a
parameter, which the provers cannot instantiate; but for a *set* of numbers induction is a
lemma (`InAll`), by the well-founded order of the numbers (`WellFoundedInduction`). With it a recursive
function is shown to exist, and a property is carried along its values. That is how facts about
`Picked`, `MergeSelected` and `Within` are proved, which are written as recursive functions for the purpose.

`PROJECT.json` gives the reason for
each component that is not modelled, or only partly.
