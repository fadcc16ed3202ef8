------------------------------ MODULE Console ------------------------------
(***************************************************************************)
(* The host pages and the discovery page of the admin GUI (webgui.py), and *)
(* the MCP server's view of hosts.yaml.  Every request is a thread; the    *)
(* state is in files that are read whole, changed and written in place:    *)
(* opening one for writing truncates it, and an empty file reads as no     *)
(* hosts, no secrets, no rows, no job.  A discovery runs in a thread of    *)
(* its own.                                                                *)
(*                                                                         *)
(* A device is its address: what a discovery of it says is NeighborWalk's. *)
(***************************************************************************)
EXTENDS Naturals, Sequences, FiniteSets, SequencesExt

CONSTANTS Addrs, Keys,
          Importable,   \* addresses of devices that may be imported
          FirstKey,     \* FirstKey[a]: the key made of the hostname of a
          OtherKey,     \* OtherKey[a]: the same with the address appended
          Lists,        \* what may be uploaded, typed in or discovered
          Requests, Workers,  \* threads
          MaxRows,      \* bound on staged devices
          MaxOps,       \* bound on requests
          MaxCrashes    \* bound on restarts of the GUI

ConstantsOK ==
  /\ IsFiniteSet(Keys) /\ "none" \notin Addrs /\ Importable \subseteq Addrs
  /\ FirstKey \in [Addrs -> Keys] /\ OtherKey \in [Addrs -> Keys]
  /\ \A rows \in Lists : rows \in Seq(Addrs) /\ Len(rows) <= MaxRows
  /\ Requests \cap Workers = {} /\ Requests # {}
  /\ MaxRows \in Nat /\ MaxOps \in Nat /\ MaxCrashes \in Nat

VARIABLES
  hosts,    \* hosts.yaml: hosts[k] is an address or "none"
  env,      \* .env: the hosts with a login secret
  staging,  \* .discovery_staging.yaml: a list of addresses
  job,      \* .discovery_job.json
  thr,      \* thr[t]: a request or a discovery in progress
  server,   \* _HOSTS_CACHE of the MCP server
  imported, \* history: keys that an import added and nobody deleted since
  ops, crashes,
  overlapped, \* history: two requests were in progress at once
  damaged     \* history: a crash came between truncation and write

files == <<hosts, env, staging, job>>
vars == <<files, thr, server, imported, ops, crashes, overlapped, damaged>>
-----------------------------------------------------------------------------
NoHosts == [k \in Keys |-> "none"]
Threads == Requests \cup Workers

(* One effect of a handler: key is the host of a secret ("+k" set, "-k"    *)
(* deleted, told by on) or the status of a job.                            *)
Effect(file, key, on) == [file |-> file, key |-> key, on |-> on]
SetSecret(k) == Effect("env", k, TRUE)
DropSecret(k) == Effect("env", k, FALSE)
WriteHosts == Effect("hosts", "none", TRUE)
WriteStaging == Effect("staging", "none", TRUE)
WriteJob(status) == Effect("job", status, TRUE)
Touch == Effect("touch", "none", TRUE)
StartThread == Effect("thread", "none", TRUE)

(* at: what the handler is about to do: read hosts.yaml for an import or   *)
(* .env for a bulk change, run the discovery, or work through todo, whose  *)
(* head may have been read for ("read") or opened ("open").  cfg, rows and *)
(* secrets are what it will write; sel the rows selected for an import and *)
(* then the keys that got a password.                                      *)
Handler(op, at, cfg, rows, sel, todo) ==
  [op |-> op, at |-> at, cfg |-> cfg, rows |-> rows, sel |-> sel, secrets |-> {}, todo |-> todo]
Idle == Handler("none", "idle", NoHosts, <<>>, {}, <<>>)
Writing(op, cfg, rows, todo) == Handler(op, "next", cfg, rows, {}, todo)

Init ==
  /\ hosts \in {NoHosts} \cup {[NoHosts EXCEPT ![FirstKey[a]] = a] : a \in Addrs}
  /\ env = {}
  /\ staging \in Lists \cup {<<>>}
  /\ job = "idle"
  /\ thr = [t \in Threads |-> Idle]
  /\ server = [at |-> "idle", view |-> hosts, fresh |-> hosts # NoHosts, current |-> FALSE]
  /\ imported = {} /\ ops = 0 /\ crashes = 0
  /\ overlapped = FALSE /\ damaged = FALSE

(* The server compares modification times: a write makes what it has, or   *)
(* is about to load, out of date.                                          *)
Touched == server' = [server EXCEPT !.fresh = FALSE, !.current = FALSE]

Begin(t, handler) ==
  /\ t \in Requests /\ thr[t] = Idle
  /\ ops < MaxOps /\ ops' = ops + 1
  /\ thr' = [thr EXCEPT ![t] = handler]
  /\ overlapped' = (overlapped \/ \E u \in Requests : thr[u] # Idle)
  /\ UNCHANGED <<files, imported, crashes, damaged>>
-----------------------------------------------------------------------------
(* Hosts                                                                   *)

(* /save: the password is stored before the host.                          *)
SaveHost(t, k, a, password) ==
  /\ Begin(t, Writing("save", [hosts EXCEPT ![k] = a], <<>>,
                (IF password THEN <<SetSecret(k)>> ELSE <<>>) \o <<WriteHosts>>))
  /\ UNCHANGED server

(* /delete: the host goes before its secrets.                              *)
\* A slip: secrets are left where they are.
DeleteHalf(t, k) ==
  /\ Begin(t, Writing("delete", [hosts EXCEPT ![k] = "none"], <<>>,
                IF hosts[k] # "none" THEN <<WriteHosts>> ELSE <<>>))
  /\ UNCHANGED server

Delete(t, k) ==
  /\ Begin(t, Writing("delete", [hosts EXCEPT ![k] = "none"], <<>>,
                (IF hosts[k] # "none" THEN <<WriteHosts>> ELSE <<>>) \o <<DropSecret(k)>>))
  /\ UNCHANGED server

(* /bulk-network-credentials: a new username for all network hosts, a      *)
(* password for all or for those without one.                              *)
Bulk(t) ==
  /\ hosts # NoHosts
  /\ Begin(t, Handler("bulk", "env", hosts, <<>>, {}, <<>>))
  /\ UNCHANGED server

SecretsOf(K) == SetToSeq({SetSecret(k) : k \in K})

BulkTargets(t) ==
  /\ thr[t].at = "env"
  /\ \E scope \in {"none", "missing", "all"}, username \in BOOLEAN :
       LET named == {k \in Keys : thr[t].cfg[k] # "none"}
           K == CASE scope = "none" -> {}
                  [] scope = "missing" -> named \ env
                  [] scope = "all" -> named
       IN thr' = [thr EXCEPT ![t] =
                    IF K = {} /\ scope # "none" THEN Idle
                    ELSE Writing("bulk", thr[t].cfg, <<>>,
                           SecretsOf(K) \o (IF username THEN <<WriteHosts>> ELSE <<>>) \o <<Touch>>)]
  /\ UNCHANGED <<files, server, imported, ops, crashes, overlapped, damaged>>

(* /reload                                                                 *)
Reload(t) == Begin(t, Writing("reload", NoHosts, <<>>, <<Touch>>)) /\ UNCHANGED server
-----------------------------------------------------------------------------
(* Staging                                                                 *)

\* The rows of a list with the numbers in I.
Picked(rows, I) ==
  LET some[i \in 0 .. Len(rows)] ==
        IF i = 0 THEN <<>>
        ELSE IF i \in I THEN Append(some[i - 1], rows[i]) ELSE some[i - 1]
  IN some[Len(rows)]

\* _merge_staging: one row per address, in the order of first appearance.
Merged(rows) ==
  Picked(rows, {i \in DOMAIN rows : \A j \in 1 .. i - 1 : rows[j] # rows[i]})

Stage(t, op, rows) ==
  /\ Len(rows) <= MaxRows
  /\ Begin(t, Writing(op, NoHosts, rows, <<WriteStaging>>))
  /\ UNCHANGED server

Upload(t, rows, merge) ==
  rows # <<>> /\ Stage(t, "upload", IF merge THEN Merged(staging \o rows) ELSE rows)
StagingSave(t, rows) == Stage(t, "edit", rows)
StagingAdd(t, a) == Stage(t, "add", Append(staging, a))
StagingRemove(t, i) == i \in DOMAIN staging /\ Stage(t, "remove", RemoveAt(staging, i))
Clear(t) == Stage(t, "clear", <<>>)

(* /discovery/import: the rows with the numbers that the form sends.       *)
Import(t, sel) ==
  /\ staging # <<>> /\ sel # {}
  /\ Begin(t, Handler("import", "hosts", NoHosts, staging, sel, <<>>))
  /\ UNCHANGED server

KeysOf(cfg, a) == {k \in Keys : cfg[k] = a}

\* host_key_for_device
HostKey(cfg, a) == IF cfg[FirstKey[a]] = "none" THEN FirstKey[a] ELSE OtherKey[a]

(* merge_selected_into_hosts, one device: its entry is renewed under the   *)
(* key it has, or made under a key that is free.                           *)
\* A slip: a key is not compared with the keys there are.
MergeOneOver(sofar, a) ==
  LET key == IF KeysOf(sofar.cfg, a) # {} THEN CHOOSE k \in KeysOf(sofar.cfg, a) : TRUE
                                          ELSE FirstKey[a]
  IN IF a \notin Importable
       THEN sofar
       ELSE [cfg |-> [sofar.cfg EXCEPT ![key] = a], done |-> Append(sofar.done, SetSecret(key))]

MergeOne(sofar, a) ==
  LET known == KeysOf(sofar.cfg, a)
      key == IF known # {} THEN CHOOSE k \in known : TRUE ELSE HostKey(sofar.cfg, a)
  IN IF a \notin Importable \/ (known = {} /\ sofar.cfg[key] # "none")
       THEN sofar
       ELSE [cfg |-> [sofar.cfg EXCEPT ![key] = a], done |-> Append(sofar.done, SetSecret(key))]

MergeSelected(cfg, rows, sel) ==
  LET sofar[i \in 0 .. Len(rows)] ==
        IF i = 0 THEN [cfg |-> cfg, done |-> <<>>]
        ELSE IF i \in sel THEN MergeOne(sofar[i - 1], rows[i]) ELSE sofar[i - 1]
  IN sofar[Len(rows)]

Importing(t, merged, todo) ==
  thr' = [thr EXCEPT ![t] =
    Handler("import", "next", merged.cfg, Picked(thr[t].rows, DOMAIN thr[t].rows \ thr[t].sel),
            {effect.key : effect \in ToSet(merged.done)}, todo)]

\* A slip: the hosts are saved before their passwords.
ImportHostsFirst(t) ==
  /\ thr[t].at = "hosts"
  /\ LET merged == MergeSelected(hosts, thr[t].rows, thr[t].sel)
     IN Importing(t, merged, <<WriteHosts, Touch>> \o merged.done \o <<WriteStaging>>)
  /\ UNCHANGED <<files, server, imported, ops, crashes, overlapped, damaged>>

(* Every secret is written on its own, then hosts.yaml, then the rows that *)
(* were not selected.                                                      *)
ImportHosts(t) ==
  /\ thr[t].at = "hosts"
  /\ LET merged == MergeSelected(hosts, thr[t].rows, thr[t].sel)
     IN Importing(t, merged, merged.done \o <<WriteHosts, Touch, WriteStaging>>)
  /\ UNCHANGED <<files, server, imported, ops, crashes, overlapped, damaged>>
-----------------------------------------------------------------------------
(* The discovery job                                                       *)

(* /discovery/run                                                          *)
DiscoveryRun(t) ==
  /\ job # "running"
  /\ Begin(t, Writing("run", NoHosts, <<>>, <<StartThread>>))
  /\ UNCHANGED server

StartWorker(t, w) ==
  /\ thr[t].todo # <<>> /\ Head(thr[t].todo) = StartThread
  /\ w \in Workers /\ thr[w] = Idle
  /\ thr' = [thr EXCEPT ![t] = Idle,
               ![w] = Handler("discover", "next", NoHosts, <<>>, {}, <<WriteJob("running")>>)]
  /\ UNCHANGED <<files, server, imported, ops, crashes, overlapped, damaged>>

\* A slip: a failure ends the thread and not the job.
DiscoveredSilent(w, found, merge) ==
  /\ thr[w].at = "run"
  /\ LET rows == IF merge THEN Merged(staging \o found) ELSE found IN
     /\ Len(rows) <= MaxRows
     /\ thr' = [thr EXCEPT ![w] =
          IF found = <<>> THEN Idle
                          ELSE Writing("found", NoHosts, rows, <<WriteStaging, WriteJob("done")>>)]
  /\ UNCHANGED <<files, server, imported, ops, crashes, overlapped, damaged>>

(* run_discovery returns, or raises, or finds nothing.                     *)
Discovered(w, found, merge) ==
  /\ thr[w].at = "run"
  /\ LET rows == IF merge THEN Merged(staging \o found) ELSE found IN
     /\ Len(rows) <= MaxRows
     /\ thr' = [thr EXCEPT ![w] =
          Writing("found", NoHosts, rows,
            IF found = <<>> THEN <<WriteJob("error")>> ELSE <<WriteStaging, WriteJob("done")>>)]
  /\ UNCHANGED <<files, server, imported, ops, crashes, overlapped, damaged>>

(* Every page drops a job that has ended, having shown its message.        *)
Render(t) ==
  /\ job \in {"done", "error"}
  /\ Begin(t, Writing("render", NoHosts, <<>>, <<WriteJob("idle")>>))
  /\ UNCHANGED server
-----------------------------------------------------------------------------
(* Working through the effects                                             *)

Current(t) == Head(thr[t].todo)
Has(t, file) == thr[t].todo # <<>> /\ Current(t).file = file
Finished(t) ==
  LET rest == Tail(thr[t].todo) IN
  IF rest # <<>> THEN [thr[t] EXCEPT !.at = "next", !.todo = rest]
  ELSE IF thr[t].op = "discover" THEN [thr[t] EXCEPT !.at = "run", !.todo = <<>>]
  ELSE Idle

(* A secret is read, changed and written; one that is not there is not     *)
(* deleted.                                                                *)
ReadEnv(t) ==
  /\ thr[t].at = "next" /\ Has(t, "env")
  /\ LET k == Current(t).key
         new == IF Current(t).on THEN env \cup {k} ELSE env \ {k}
     IN thr' = [thr EXCEPT ![t] = IF ~ Current(t).on /\ k \notin env THEN Finished(t)
                                  ELSE [@ EXCEPT !.at = "read", !.secrets = new]]
  /\ UNCHANGED <<files, server, imported, ops, crashes, overlapped, damaged>>

Open(t) ==
  /\ \/ thr[t].at = "read"
     \/ thr[t].at = "next" /\ (Has(t, "hosts") \/ Has(t, "staging") \/ Has(t, "job"))
  /\ thr' = [thr EXCEPT ![t].at = "open"]
  /\ LET f == Current(t).file IN
     /\ hosts' = IF f = "hosts" THEN NoHosts ELSE hosts
     /\ env' = IF f = "env" THEN {} ELSE env
     /\ staging' = IF f = "staging" THEN <<>> ELSE staging
     /\ job' = IF f = "job" THEN "idle" ELSE job
     /\ IF f = "hosts" THEN Touched ELSE UNCHANGED server
  /\ UNCHANGED <<imported, ops, crashes, overlapped, damaged>>

Write(t) ==
  /\ thr[t].at = "open"
  /\ thr' = [thr EXCEPT ![t] = Finished(t)]
  /\ LET f == Current(t).file IN
     /\ hosts' = IF f = "hosts" THEN thr[t].cfg ELSE hosts
     /\ env' = IF f = "env" THEN thr[t].secrets ELSE env
     /\ staging' = IF f = "staging" THEN thr[t].rows ELSE staging
     /\ job' = IF f = "job" THEN Current(t).key ELSE job
     /\ IF f = "hosts"
          THEN /\ Touched
               /\ imported' = {k \in imported \cup thr[t].sel : thr[t].cfg[k] # "none"}
          ELSE UNCHANGED <<server, imported>>
  /\ UNCHANGED <<ops, crashes, overlapped, damaged>>

TouchHosts(t) ==
  /\ thr[t].at = "next" /\ Has(t, "touch")
  /\ thr' = [thr EXCEPT ![t] = Finished(t)]
  /\ Touched
  /\ UNCHANGED <<files, imported, ops, crashes, overlapped, damaged>>

(* The GUI's container restarts.                                           *)
Crash ==
  /\ crashes < MaxCrashes /\ crashes' = crashes + 1
  /\ thr' = [t \in Threads |-> Idle]
  /\ damaged' = (damaged \/ \E t \in Threads : thr[t].at = "open")
  /\ UNCHANGED <<files, server, imported, ops, overlapped>>
-----------------------------------------------------------------------------
(* _current_hosts of the MCP server                                        *)

Stat ==
  /\ server.at = "idle" /\ ~ server.fresh
  /\ server' = [server EXCEPT !.at = "load", !.current = TRUE]
  /\ UNCHANGED <<files, thr, imported, ops, crashes, overlapped, damaged>>

\* A slip: a file that is refused counts as loaded.
LoadRefused ==
  /\ server.at = "load"
  /\ server' = [at |-> "idle", view |-> IF hosts = NoHosts THEN server.view ELSE hosts,
                fresh |-> server.current, current |-> FALSE]
  /\ UNCHANGED <<files, thr, imported, ops, crashes, overlapped, damaged>>

(* A file without hosts is refused: the last good hosts stay.              *)
Load ==
  /\ server.at = "load"
  /\ server' = IF hosts = NoHosts
       THEN [server EXCEPT !.at = "idle", !.current = FALSE]
       ELSE [at |-> "idle", view |-> hosts, fresh |-> server.current, current |-> FALSE]
  /\ UNCHANGED <<files, thr, imported, ops, crashes, overlapped, damaged>>
-----------------------------------------------------------------------------
Request(t) ==
  \/ \E k \in Keys, a \in Addrs, password \in BOOLEAN : SaveHost(t, k, a, password)
  \/ \E k \in Keys : Delete(t, k)
  \/ Bulk(t) \/ Reload(t) \/ Clear(t) \/ DiscoveryRun(t) \/ Render(t)
  \/ \E rows \in Lists : Upload(t, rows, TRUE) \/ Upload(t, rows, FALSE) \/ StagingSave(t, rows)
  \/ \E a \in Addrs : StagingAdd(t, a)
  \/ \E i \in 1 .. MaxRows : StagingRemove(t, i)
  \/ \E sel \in SUBSET (1 .. MaxRows) : Import(t, sel)

Step(t) ==
  \/ BulkTargets(t) \/ ImportHosts(t)
  \/ ReadEnv(t) \/ Open(t) \/ Write(t) \/ TouchHosts(t)
  \/ \E w \in Workers : StartWorker(t, w)
  \/ \E found \in Lists \cup {<<>>}, merge \in BOOLEAN : Discovered(t, found, merge)

Serve == Stat \/ Load

Next ==
  \/ \E t \in Requests : Request(t)
  \/ \E t \in Threads : Step(t)
  \/ Crash
  \/ Serve

Spec == Init /\ [][Next]_vars

(* Threads of the GUI run on; a discovery has timeouts everywhere.         *)
FairSpec == Spec /\ \A t \in Threads : WF_vars(Step(t))
-----------------------------------------------------------------------------
TypeOK ==
  /\ hosts \in [Keys -> Addrs \cup {"none"}]
  /\ env \subseteq Keys
  /\ staging \in Seq(Addrs) /\ Len(staging) <= MaxRows
  /\ job \in {"idle", "running", "done", "error"}
  /\ \A t \in Threads :
       /\ thr[t].at \in {"idle", "env", "hosts", "run", "next", "read", "open"}
       /\ thr[t].cfg \in [Keys -> Addrs \cup {"none"}]
       /\ thr[t].rows \in Seq(Addrs) /\ thr[t].secrets \subseteq Keys
  /\ server.view \in [Keys -> Addrs \cup {"none"}]
  /\ imported \subseteq Keys
  /\ ops \in 0 .. MaxOps /\ crashes \in 0 .. MaxCrashes

Resting == \A t \in Threads : thr[t].at # "open"

(* A host that was imported can be logged in to: its password is stored    *)
(* before it is, so that a restart at any moment but the middle of a write *)
(* leaves no imported host without one.                                    *)
ImportedHasLogin ==
  ~ overlapped /\ ~ damaged /\ Resting =>
    \A k \in imported : hosts[k] # "none" => k \in env

(* Secrets do not outlive their host: as long as requests come one after   *)
(* the other and none is cut short, .env holds none of a host that is gone.*)
NoOrphanSecrets ==
  ~ overlapped /\ crashes = 0 /\ (\A t \in Requests : thr[t] = Idle)
    => \A k \in env : hosts[k] # "none"

(* An import takes over nobody's entry and adds no second one for an       *)
(* address, whatever hostnames the devices share.                          *)
ImportMerges ==
  [][\A t \in Requests : thr[t].at = "hosts" /\ thr'[t].at = "next" =>
       /\ \A k \in Keys : hosts[k] # "none" => thr'[t].cfg[k] = hosts[k]
       /\ \A a \in Addrs : Cardinality(KeysOf(hosts, a)) <= 1
                             => Cardinality(KeysOf(thr'[t].cfg, a)) <= 1]_vars

(* When the server takes its hosts for current they are those of the file, *)
(* although the file may change between the look at its time and the read. *)
ServerFresh == server.fresh => server.view = hosts

(* A discovery that the status shows as running comes to an end, unless    *)
(* the GUI is restarted.                                                   *)
JobEnds == job = "running" ~> (job # "running" \/ crashes > 0)
=============================================================================
