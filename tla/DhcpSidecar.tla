---------------------------- MODULE DhcpSidecar ----------------------------
(***************************************************************************)
(* The DHCP sidecar and the change engine that calls it.  The sidecar      *)
(* serves each HTTP request in a thread of its own, without locks, on the  *)
(* include files of one DHCP server; the engine runs one change per        *)
(* request and reaches the sidecar through curl over SSH, so an answer may *)
(* be lost while the sidecar goes on.  dhcpd and systemctl may time out    *)
(* and the server may reboot.                                              *)
(***************************************************************************)
EXTENDS Naturals, FiniteSets

CONSTANTS
  Names,      \* names of include files
  Contents,   \* contents of include files
  Absent,     \* no file
  Empty,      \* a file that has been cut off and not written yet
  Changes,    \* approved changes of type dhcp_include
  Target,     \* Target[c]: the include and the content that c is about
  Threads,    \* requests that the sidecar may serve at once
  NoThread,
  Trees,      \* the include files that may be there at the start
  Valid(_),   \* what dhcpd -t says of a set of include files
  MaxFaults,  \* bound on timeouts and lost calls
  MaxReboots, \* bound on reboots of the server
  MaxEdits    \* bound on applies from the sidecar's own web page

File == Contents \union {Absent, Empty}
Tree == [Names -> File]

ConstantsOK ==
  /\ Absent \notin Contents /\ Empty \notin Contents \union {Absent}
  /\ (\A list \in SUBSET Names : Empty # list) /\ NoThread \notin Threads
  /\ Trees \subseteq Tree /\ (\A f \in Trees : Valid(f))
  /\ \A f \in Tree : Valid(f) \in BOOLEAN
  /\ Target \in [Changes -> [name : Names, content : Contents]]
  /\ MaxFaults \in Nat /\ MaxReboots \in Nat /\ MaxEdits \in Nat

VARIABLES
  files,    \* the include files
  manifest, \* the files that 00-clawlab-includes.conf names, or Empty
  backup,   \* backup[c][n]: the copy of n under the name of c
  meta,     \* meta[c][n]: what manifest.json of c says of n
  service,  \* dhcpd: whether it runs, and with what
  thread,   \* thread[t]: the request that t serves
  call,     \* call[c]: the thread whose answer the engine awaits for c
  step,     \* step[c]: where the engine is with c
  status,   \* status[c] in the change store
  faults, reboots, edits,
  pre       \* history: what the include of c was before c

disk   == <<files, manifest, backup, meta>>
engine == <<call, step, status, pre>>
bounds == <<faults, reboots, edits>>
vars   == <<disk, service, thread, engine, bounds>>
-----------------------------------------------------------------------------
Present(f) == {n \in Names : f[n] # Absent}

\* What dhcpd reads: the main configuration includes the generated manifest,
\* which names nothing while it is cut off.
Listed == IF manifest = Empty THEN {} ELSE manifest
Named  == [n \in Names |-> IF n \in Listed THEN files[n] ELSE Absent]
Loads  == Listed \subseteq Present(files) /\ Valid(Named)

\* Starting or reloading dhcpd; with a configuration it refuses it is down.
Load == service' = IF Loads THEN [up |-> TRUE, conf |-> Named]
                            ELSE [up |-> FALSE, conf |-> service.conf]

Fault == faults < MaxFaults /\ faults' = faults + 1
-----------------------------------------------------------------------------
(* A request of the sidecar: its next step, the change and the include it  *)
(* is about, and what it has read: whether the include existed, the names  *)
(* for the manifest (or the one that it is copying back), the names still  *)
(* to restore, and whether a file was restored or only removed.            *)
(*                                                                         *)
(* An include and the manifest are cut off and then written, and others    *)
(* may look at them, or the server reboot, in between.  The copy and       *)
(* manifest.json are written in one step each: only requests for the same  *)
(* change read them, and a rollback of a change whose copy or manifest.json *)
(* is not finished is refused as one that has none (unless the page had    *)
(* applied something under the same id before, which is not followed).     *)

Req(pc, op, id, n, x, found, list, todo, undone) ==
  [pc |-> pc, op |-> op, id |-> id, name |-> n, content |-> x,
   found |-> found, list |-> list, todo |-> todo, undone |-> undone]

\* A thread that serves nothing, or has only its answer left.
Ended(pc) == Req(pc, "apply", CHOOSE c \in Changes : TRUE, CHOOSE n \in Names : TRUE,
                 CHOOSE x \in Contents : TRUE, FALSE, {}, {}, "none")

At(t, pc)   == thread[t].pc = pc
Goto(t, pc) == thread' = [thread EXCEPT ![t].pc = pc]

ApplyReq(c, n, x) == Req("test", "apply", c, n, x, FALSE, {}, {}, "none")
RollbackReq(c) ==
  Req("find", "rollback", c, Target[c].name, Target[c].content, FALSE, {}, {}, "none")

\* The answer is kept for the engine if it still waits for it.
End(t, answer) ==
  thread' = [thread EXCEPT ![t] =
               Ended(IF \E c \in Changes : call[c] = t THEN answer ELSE "idle")]

\* DhcpSidecarError and everything else that is raised: an HTTP error.
Refuse(t) == End(t, "error")

\* dhcpd -t on the includes, the candidate among them.
Passes(t) == Valid([files EXCEPT ![thread[t].name] = thread[t].content])

Test(t) ==
  /\ At(t, "test")
  /\ \/ /\ IF Passes(t) THEN Goto(t, "backup") ELSE Refuse(t)
        /\ UNCHANGED faults
     \/ Fault /\ Refuse(t)
  /\ UNCHANGED <<disk, service, engine, reboots, edits>>

\* A slip: the file is written before the copy is made.
BackupAfterWrite(t) ==
  /\ At(t, "backup")
  /\ LET r == thread[t] IN
     /\ files' = [files EXCEPT ![r.name] = r.content]
     /\ backup' = [backup EXCEPT ![r.id][r.name] = r.content]
     /\ thread' = [thread EXCEPT ![t].pc = "meta", ![t].found = files[r.name] # Absent]
  /\ UNCHANGED <<manifest, meta, service, engine, bounds>>

\* The copy of what was there.  An older copy under this id stays when there
\* is nothing to copy.
Backup(t) ==
  /\ At(t, "backup")
  /\ LET r == thread[t]
         found == files[r.name] # Absent
     IN /\ backup' = IF found THEN [backup EXCEPT ![r.id][r.name] = files[r.name]]
                              ELSE backup
        /\ thread' = [thread EXCEPT ![t].pc = "meta", ![t].found = found]
  /\ UNCHANGED <<files, manifest, meta, service, engine, bounds>>

Meta(t) ==
  /\ At(t, "meta")
  /\ LET r == thread[t] IN
     meta' = [meta EXCEPT ![r.id][r.name] = IF r.found THEN "existed" ELSE "new"]
  /\ Goto(t, "write")
  /\ UNCHANGED <<files, manifest, backup, service, engine, bounds>>

\* The include is cut off and then written.
CutInclude(t) ==
  /\ At(t, "write")
  /\ files' = [files EXCEPT ![thread[t].name] = Empty]
  /\ Goto(t, "fill")
  /\ UNCHANGED <<manifest, backup, meta, service, engine, bounds>>

Write(t) ==
  /\ At(t, "fill")
  /\ files' = [files EXCEPT ![thread[t].name] = thread[t].content]
  /\ Goto(t, "glob")
  /\ UNCHANGED <<manifest, backup, meta, service, engine, bounds>>

\* A slip: the manifest is written only by apply.
GlobOnApply(t) ==
  /\ At(t, "glob")
  /\ thread' = [thread EXCEPT ![t].pc = IF thread[t].op = "apply" THEN "cut" ELSE "check",
                             ![t].list = Present(files)]
  /\ UNCHANGED <<disk, service, engine, bounds>>

\* regenerate_includes_manifest: list the files, then cut the old list off and
\* write the new one.
Glob(t) ==
  /\ At(t, "glob")
  /\ thread' = [thread EXCEPT ![t].pc = "cut", ![t].list = Present(files)]
  /\ UNCHANGED <<disk, service, engine, bounds>>

CutManifest(t) ==
  /\ At(t, "cut")
  /\ manifest' = Empty
  /\ Goto(t, "manifest")
  /\ UNCHANGED <<files, backup, meta, service, engine, bounds>>

WriteManifest(t) ==
  /\ At(t, "manifest")
  /\ manifest' = thread[t].list
  /\ Goto(t, IF thread[t].op = "apply" THEN "live" ELSE "check")
  /\ UNCHANGED <<files, backup, meta, service, engine, bounds>>

\* The include n is cut off, to be copied back.
PutBack(t, n, name, rest) ==
  /\ files' = [files EXCEPT ![n] = Empty]
  /\ LET r == thread[t] IN thread' = [thread EXCEPT ![t] =
       Req("put", r.op, r.id, name, r.content, r.found, {n}, rest, "restored")]

\* The test after the write.  If it fails, the copy is put back, or the file
\* removed if there is no copy; if it times out, the file stays.
Live(t) ==
  /\ At(t, "live")
  /\ LET r == thread[t] IN
     \/ /\ Passes(t)
        /\ Goto(t, "reload")
        /\ UNCHANGED <<files, faults>>
     \/ /\ ~Passes(t) /\ backup[r.id][r.name] # Absent
        /\ PutBack(t, r.name, r.name, {})
        /\ UNCHANGED faults
     \/ /\ ~Passes(t) /\ backup[r.id][r.name] = Absent
        /\ files' = [files EXCEPT ![r.name] = Absent]
        /\ Refuse(t)
        /\ UNCHANGED faults
     \/ Fault /\ Refuse(t) /\ UNCHANGED files
  /\ UNCHANGED <<manifest, backup, meta, service, engine, reboots, edits>>

\* reload_service: reload, and restart if that fails.  systemctl may fail or
\* time out whatever the configuration.
Reload(t) ==
  /\ At(t, "reload")
  /\ \/ /\ Load
        /\ IF Loads THEN End(t, "ok") ELSE Refuse(t)
        /\ UNCHANGED faults
     \/ /\ Fault /\ Refuse(t)
        /\ service' \in {service, [service EXCEPT !.up = FALSE]}
  /\ UNCHANGED <<disk, engine, reboots, edits>>

\* rollback_change: what manifest.json of the change names.
Find(t) ==
  /\ At(t, "find")
  /\ LET todo == {n \in Names : meta[thread[t].id][n] # "none"} IN
     IF todo = {} THEN Refuse(t)
     ELSE thread' = [thread EXCEPT ![t].pc = "restore", ![t].todo = todo]
  /\ UNCHANGED <<disk, service, engine, bounds>>

\* A slip: an include that was new is left in place.
RestoreCopiesOnly(t) ==
  /\ At(t, "restore")
  /\ \E n \in thread[t].todo : LET r == thread[t] IN
       IF meta[r.id][n] = "existed"
         THEN PutBack(t, n, n, {})
         ELSE /\ thread' = [thread EXCEPT ![t] =
                   Req("glob", r.op, r.id, n, r.content, r.found, {}, {}, "none")]
              /\ UNCHANGED files
  /\ UNCHANGED <<manifest, backup, meta, service, engine, bounds>>

\* Where a rollback goes when the names in rest are still to be restored.
Further(rest) == IF rest = {} THEN "glob" ELSE "restore"

\* One include of the change.  The first one restored is the one tested.
Restore(t) ==
  /\ At(t, "restore")
  /\ \E n \in thread[t].todo :
       LET r == thread[t]
           rest == r.todo \ {n}
       IN IF meta[r.id][n] = "existed"
            THEN PutBack(t, n, IF r.undone = "restored" THEN r.name ELSE n, rest)
            ELSE /\ files' = [files EXCEPT ![n] = Absent]
                 /\ thread' = [thread EXCEPT ![t] =
                      Req(Further(rest), r.op, r.id, r.name, r.content, r.found, {}, rest,
                          IF files[n] # Absent /\ r.undone = "none" THEN "removed"
                                                                    ELSE r.undone)]
  /\ UNCHANGED <<manifest, backup, meta, service, engine, bounds>>

\* The copy is there: after an apply that ends with it, or for a rollback.
Put(t) ==
  /\ At(t, "put")
  /\ \E n \in thread[t].list : files' = [files EXCEPT ![n] = backup[thread[t].id][n]]
  /\ IF thread[t].op = "apply" THEN Refuse(t) ELSE Goto(t, Further(thread[t].todo))
  /\ UNCHANGED <<manifest, backup, meta, service, engine, bounds>>

\* The test after a rollback: with a restored file, else with one of those
\* that remain, which must not be empty.  Without any there is no test.
Check(t) ==
  /\ At(t, "check")
  /\ LET tested == CASE thread[t].undone = "restored" -> {thread[t].name}
                     [] thread[t].undone = "removed"  -> Present(files)
                     [] thread[t].undone = "none"     -> {}
     IN \/ tested = {} /\ Goto(t, "reload") /\ UNCHANGED faults
        \/ /\ \E n \in tested :
                IF files[n] \in Contents /\ Valid(files) THEN Goto(t, "reload") ELSE Refuse(t)
           /\ UNCHANGED faults
        \/ tested # {} /\ Fault /\ Refuse(t)
  /\ UNCHANGED <<disk, service, engine, reboots, edits>>

Serve(t) ==
  \/ Test(t) \/ Backup(t) \/ Meta(t) \/ CutInclude(t) \/ Write(t)
  \/ Glob(t) \/ CutManifest(t) \/ WriteManifest(t) \/ Live(t) \/ Reload(t)
  \/ Find(t) \/ Restore(t) \/ Put(t) \/ Check(t)
-----------------------------------------------------------------------------
(* The engine: apply_change and rollback_change for one dhcp_sidecar       *)
(* target.  Steps: "apply", "undo" and "back" await an answer (of the      *)
(* apply, the automatic and the requested rollback), "verify" and          *)
(* "confirm" ask systemctl is-active.                                      *)

Settle(c, result) ==
  /\ status' = [status EXCEPT ![c] = result]
  /\ step' = [step EXCEPT ![c] = "idle"]

\* curl reaches the sidecar, which starts a thread.
Send(c, t, req, next) ==
  /\ At(t, "idle")
  /\ thread' = [thread EXCEPT ![t] = req]
  /\ call' = [call EXCEPT ![c] = t]
  /\ step' = [step EXCEPT ![c] = next]

Apply(c) ==
  /\ status[c] = "approved" /\ step[c] = "idle"
  /\ \E t \in Threads : Send(c, t, ApplyReq(c, Target[c].name, Target[c].content), "apply")
  /\ status' = [status EXCEPT ![c] = "applying"]
  /\ pre' = [pre EXCEPT ![c] = files[Target[c].name]]
  /\ UNCHANGED <<disk, service, bounds>>

RollBack(c) ==
  /\ status[c] \in {"applied", "failed"} /\ step[c] = "idle"
  /\ \E t \in Threads : Send(c, t, RollbackReq(c), "back")
  /\ UNCHANGED <<disk, service, status, pre, bounds>>

\* The answer arrives.  An apply that was refused is not rolled back.
Answer(c) ==
  /\ call[c] # NoThread /\ thread[call[c]].pc \in {"ok", "error"}
  /\ IF thread[call[c]].pc = "ok" /\ step[c] # "undo"
       THEN /\ step' = [step EXCEPT ![c] = IF @ = "apply" THEN "verify" ELSE "confirm"]
            /\ UNCHANGED status
       ELSE Settle(c, "failed")
  /\ Goto(call[c], "idle")
  /\ call' = [call EXCEPT ![c] = NoThread]
  /\ UNCHANGED <<disk, service, pre, bounds>>

\* No answer arrives: SSH times out, before or after the sidecar got the
\* request, which it then serves to its end.
Lose(c) ==
  /\ call[c] # NoThread /\ Fault
  /\ Settle(c, "failed")
  /\ LET t == call[c] IN
     thread' = [thread EXCEPT ![t].pc =
                  IF @ \in {"ok", "error"} THEN "idle" ELSE @]
  /\ call' = [call EXCEPT ![c] = NoThread]
  /\ UNCHANGED <<disk, service, pre, reboots, edits>>

\* The server cannot be reached: no request arrives there.
Unreached(c) ==
  /\ Fault
  /\ \/ /\ status[c] = "approved" /\ step[c] = "idle"
        /\ pre' = [pre EXCEPT ![c] = files[Target[c].name]]
     \/ status[c] = "applied" /\ step[c] = "idle" /\ UNCHANGED pre
     \/ step[c] = "verify" /\ UNCHANGED pre
  /\ Settle(c, "failed")
  /\ UNCHANGED <<disk, service, thread, call, reboots, edits>>

\* After the apply: not active, or no answer to the question, starts the
\* automatic rollback.
Verify(c) ==
  /\ step[c] = "verify"
  /\ \/ /\ service.up /\ Settle(c, "applied")
        /\ UNCHANGED <<thread, call, faults>>
     \/ /\ IF service.up THEN Fault ELSE UNCHANGED faults
        /\ \E t \in Threads : Send(c, t, RollbackReq(c), "undo")
        /\ UNCHANGED status
  /\ UNCHANGED <<disk, service, pre, reboots, edits>>

\* After a requested rollback.
Confirm(c) ==
  /\ step[c] = "confirm"
  /\ \/ /\ Settle(c, IF service.up THEN "rolled_back" ELSE "failed")
        /\ UNCHANGED faults
     \/ Fault /\ Settle(c, "failed")
  /\ UNCHANGED <<disk, service, thread, call, pre, reboots, edits>>
-----------------------------------------------------------------------------
\* Somebody applies an include from the sidecar's own page, under any id.
Edit ==
  /\ edits < MaxEdits /\ edits' = edits + 1
  /\ \E t \in Threads, c \in Changes, n \in Names, x \in Contents :
       At(t, "idle") /\ thread' = [thread EXCEPT ![t] = ApplyReq(c, n, x)]
  /\ UNCHANGED <<disk, service, engine, faults, reboots>>

\* The server reboots: requests are cut off, dhcpd starts from its files.
Reboot ==
  /\ reboots < MaxReboots /\ reboots' = reboots + 1
  /\ thread' = [t \in Threads |->
       Ended(IF \E c \in Changes : call[c] = t THEN "error" ELSE "idle")]
  /\ Load
  /\ UNCHANGED <<disk, engine, faults, edits>>

Init ==
  /\ files \in Trees
  /\ manifest = Present(files)
  /\ backup = [c \in Changes |-> [n \in Names |-> Absent]]
  /\ meta = [c \in Changes |-> [n \in Names |-> "none"]]
  /\ service = [up |-> TRUE, conf |-> files]
  /\ thread = [t \in Threads |-> Ended("idle")]
  /\ call = [c \in Changes |-> NoThread]
  /\ step = [c \in Changes |-> "idle"]
  /\ status = [c \in Changes |-> "approved"]
  /\ faults = 0 /\ reboots = 0 /\ edits = 0
  /\ pre = [c \in Changes |-> Absent]

Engine(c) == Answer(c) \/ Verify(c) \/ Confirm(c)

Next ==
  \/ \E t \in Threads : Serve(t)
  \/ \E c \in Changes : Apply(c) \/ RollBack(c) \/ Lose(c) \/ Unreached(c) \/ Engine(c)
  \/ Edit \/ Reboot

Spec == Init /\ [][Next]_vars

\* Threads run, the engine goes on when it has what it waits for, and both
\* dhcpd and systemctl are called with a timeout.
FairSpec ==
  /\ Spec
  /\ \A t \in Threads : WF_vars(Serve(t))
  /\ \A c \in Changes : SF_vars(Engine(c))
-----------------------------------------------------------------------------
(* Properties                                                              *)

Request ==
  [pc : {"idle", "test", "backup", "meta", "write", "fill", "glob", "cut", "manifest",
         "live", "reload", "find", "restore", "put", "check", "ok", "error"},
   op : {"apply", "rollback"}, id : Changes, name : Names, content : Contents,
   found : BOOLEAN, list : SUBSET Names, todo : SUBSET Names,
   undone : {"none", "restored", "removed"}]

TypeOK ==
  /\ files \in Tree
  /\ manifest = Empty \/ manifest \subseteq Names
  /\ backup \in [Changes -> Tree]
  /\ meta \in [Changes -> [Names -> {"none", "existed", "new"}]]
  /\ service \in [up : BOOLEAN, conf : Tree]
  /\ thread \in [Threads -> Request]
  /\ call \in [Changes -> Threads \union {NoThread}]
  /\ step \in [Changes -> {"idle", "apply", "verify", "undo", "back", "confirm"}]
  /\ status \in [Changes -> {"approved", "applying", "applied", "failed", "rolled_back"}]
  /\ faults \in 0 .. MaxFaults /\ reboots \in 0 .. MaxReboots /\ edits \in 0 .. MaxEdits
  /\ pre \in [Changes -> File]

Quiet == \A t \in Threads : At(t, "idle")

\* The sidecar serves one request at a time.
Serial == \A t, u \in Threads : t # u => At(t, "idle") \/ At(u, "idle")

\* The manifest has an include line "for each managed *.conf"
\* (regenerate_includes_manifest), so that a restart of dhcpd finds all of
\* them and none that is gone, whatever times out; a reboot may come between
\* a file and the manifest.
ManifestExact == Quiet /\ reboots = 0 => manifest = Present(files)

\* A change that is applied stays on the server: other changes, also failed
\* and rolled back ones, leave its include as it wrote it, and dhcpd reads it,
\* unless somebody replaced it from the sidecar's page.  If a reboot comes
\* while the manifest is cut off, dhcpd reads no include until the next request
\* that gets as far as writing the manifest.
AppliedStays ==
  \A c \in Changes :
    Quiet /\ status[c] = "applied" /\ step[c] = "idle" /\ edits = 0 =>
      /\ files[Target[c].name] = Target[c].content
      /\ manifest # Empty => Target[c].name \in manifest

\* "rolled_back - restored to pre-change state" (docs/AGENT_ARCHITECTURE.md):
\* the include of a rolled back change is what it was before the change, with
\* the same exception.
RolledBackStays ==
  \A c \in Changes :
    Quiet /\ status[c] = "rolled_back" /\ edits = 0 => files[Target[c].name] = pre[c]

\* Both: the outcome that the store records is the one on the server.
OutcomeStays == AppliedStays /\ RolledBackStays

\* "backup + manifest before write" (dhcp-sidecar/README.md): whatever
\* interleaves, times out or reboots, once an include has been written the
\* copy and what manifest.json says of it are what undoes the change.
UndoIsExact ==
  \A c \in Changes : LET n == Target[c].name IN
    files[n] = Target[c].content /\ pre[c] # files[n] /\ status[c] # "approved" =>
      \/ meta[c][n] = "existed" /\ backup[c][n] = pre[c] /\ pre[c] # Absent
      \/ meta[c][n] = "new" /\ pre[c] = Absent

\* Every apply reaches its final set_status.
ApplyEnds == \A c \in Changes : status[c] = "applying" ~> status[c] # "applying"
-----------------------------------------------------------------------------
(* What the repository says and the code does not do.                      *)

\* "dhcpd -t before reload" (docs/AGENT_ARCHITECTURE.md): the sidecar does not
\* bring dhcpd down as long as dhcpd and systemctl do what they are told.
TestedBeforeReload == faults = 0 /\ reboots = 0 => service.up
=============================================================================
