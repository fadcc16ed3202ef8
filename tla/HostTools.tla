----------------------------- MODULE HostTools -----------------------------
(***************************************************************************)
(* The MCP server's tools that work on a host directly (server.py): read   *)
(* commands, logs, service restarts, free commands and file transfers.     *)
(* The server runs one tool call at a time, but a call looks its host up   *)
(* several times: when it is checked, and again whenever it connects.  In  *)
(* between the admin GUI may rewrite hosts.yaml or .env in place, and a    *)
(* file opened for writing is empty until it is written.                   *)
(*                                                                         *)
(* A command is a name; the constants say how the validators see it.       *)
(***************************************************************************)
EXTENDS Naturals, Sequences, FiniteSets

CONSTANTS
  Names,         \* hosts of the inventory
  Entries,       \* what hosts.yaml may say of one: [net, write, services, sudo, key]
  Inventories,   \* inventories the GUI may save: [Names -> Entries \cup {Nobody}]
  Nobody,        \* no entry
  Calls,         \* what the agent may ask for: [tool, name, arg, role]
  Segments,      \* Segments[c]: the segments of command c between lone pipes
  CliWords,      \* commands whose first word is in NETWORK_READONLY
  OneLine,       \* commands without a line break
  FullConfig,    \* commands that show a whole running-config
  SecretPaths,   \* commands that name a sensitive path
  Outside,       \* local names that leave the transfers folder
  TooBig,        \* files above MAX_TRANSFER_BYTES
  HealthChecks,  \* number of commands check_health runs
  MaxCalls, MaxEdits  \* bounds on calls, and on saves and restarts

ToolNames == {"run_command", "tail_log", "get_journal", "check_health", "restart_service",
              "run_write_command", "upload_file", "download_file"}

ConstantsOK ==
  /\ Nobody \notin Entries
  /\ Inventories \subseteq [Names -> Entries \cup {Nobody}]
  /\ \A c \in Calls : c.tool \in ToolNames /\ c.name \in Names
  /\ HealthChecks \in Nat \ {0} /\ MaxCalls \in Nat /\ MaxEdits \in Nat

VARIABLES
  hosts,     \* hosts.yaml
  env,       \* .env: the <<host, kind>> with a stored secret
  keyed,     \* the key file is the one the secrets were encrypted with
  rbac,      \* claw-auth's database is there, so roles count
  saving,    \* the save the GUI is in the middle of
  server,    \* _HOSTS_CACHE: its hosts, and whether its mtime is the file's
  transfers, \* transfers[f]: the local file f is absent, whole or cut short
  call,      \* the tool call in progress
  ran,       \* history: the last command or transfer that reached a host
  calls, edits

tools == <<transfers, call, ran, calls>>
gui == <<hosts, env, saving, edits>>
vars == <<gui, tools, keyed, rbac, server>>
-----------------------------------------------------------------------------
NoHosts == [n \in Names |-> Nobody]
Secrets == {c.name : c \in Calls} \X {"login", "sudo"}
NoSave == [file |-> "none", hosts |-> NoHosts, env |-> {}]
Files == DOMAIN transfers

(* checked: the entry the tool's checks were made on; sudo: whether a      *)
(* stored password is fed to sudo; login: password or keys; left: commands *)
(* still to run.  seen and saved are history: the entries the host had     *)
(* during the call, and whether hosts.yaml was touched meanwhile.          *)
NoCall == [at |-> "idle", ask |-> [tool |-> "none"], checked |-> Nobody, used |-> Nobody,
           sudo |-> FALSE, login |-> "none", left |-> 0, rbac |-> FALSE, seen |-> {},
           saved |-> FALSE]
Idle == call.at = "idle"

Init ==
  /\ hosts \in Inventories \ {NoHosts}
  /\ env \in SUBSET Secrets
  /\ keyed \in BOOLEAN /\ rbac \in BOOLEAN
  /\ saving = NoSave
  /\ server = [hosts |-> hosts, fresh |-> TRUE]
  /\ transfers \in [{c.arg : c \in {d \in Calls : d.tool \in {"upload_file", "download_file"}}} ->
                      {"absent", "whole"}]
  /\ call = NoCall /\ ran = NoCall /\ calls = 0 /\ edits = 0
-----------------------------------------------------------------------------
(* _current_hosts: an empty file is refused, and the last good one stays.  *)
Current == IF server.fresh \/ hosts = NoHosts THEN server.hosts ELSE hosts
Reload == server' = [hosts |-> Current, fresh |-> server.fresh \/ hosts # NoHosts]
GetHost(n) == Current[n]

IsAdmin(role) == role \in {"admin", "superadmin"}
MayAdmin(role) == rbac => IsAdmin(role)
SensitiveRefused(c, h) ==
  ~ MayAdmin(c.role) /\ c.arg \in IF h.net THEN FullConfig ELSE SecretPaths

(* Every segment starts with a read-only binary, or is a read-only         *)
(* systemctl, and holds no metacharacter.                                  *)
ReadOnly(cmd) ==
  /\ Segments[cmd] # <<>>
  /\ \A i \in DOMAIN Segments[cmd] : Segments[cmd][i] \in {"read", "systemctl status"}
NetworkCommand(cmd) == Segments[cmd] # <<>> /\ cmd \in OneLine /\ cmd \in CliWords

RejectIfNetwork(h) == h.net
WriteAllowed(h) == h.write
SafeLocal(f) == f \notin Outside
-----------------------------------------------------------------------------
(* What a tool checks of the host it first looked up, in the order of the  *)
(* code; the answer does not depend on which check fails.                  *)
RunCommand(c, h) ==
  /\ ~ SensitiveRefused(c, h)
  /\ IF h.net THEN NetworkCommand(c.arg) ELSE ReadOnly(c.arg)

TailLog(c, h) == ~ RejectIfNetwork(h) /\ c.arg = "absolute path"
GetJournal(c, h) == ~ RejectIfNetwork(h)
CheckHealth(c, h) == ~ RejectIfNetwork(h)

RunWriteCommand(c, h) ==
  ~ h.net /\ WriteAllowed(h) /\ Segments[c.arg] # <<>> /\ MayAdmin(c.role)

\* A bug the runs look for: upload_file without its check of allow_write.
UploadUnasked(c, h) ==
  /\ ~ h.net /\ MayAdmin(c.role)
  /\ SafeLocal(c.arg) /\ transfers[c.arg] # "absent" /\ c.arg \notin TooBig

UploadFile(c, h) ==
  /\ ~ h.net /\ WriteAllowed(h) /\ MayAdmin(c.role)
  /\ SafeLocal(c.arg) /\ transfers[c.arg] # "absent" /\ c.arg \notin TooBig

DownloadFile(c, h) == ~ h.net /\ MayAdmin(c.role) /\ SafeLocal(c.arg)

(* restart_service looks the host up again before it reads its services.   *)
RestartService(c, h) == ~ RejectIfNetwork(h)

Passes(c, h) ==
  CASE c.tool = "run_command" -> RunCommand(c, h)
    [] c.tool = "tail_log" -> TailLog(c, h)
    [] c.tool = "get_journal" -> GetJournal(c, h)
    [] c.tool = "check_health" -> CheckHealth(c, h)
    [] c.tool = "restart_service" -> RestartService(c, h)
    [] c.tool = "run_write_command" -> RunWriteCommand(c, h)
    [] c.tool = "upload_file" -> UploadFile(c, h)
    [] c.tool = "download_file" -> DownloadFile(c, h)

Enter(c) ==
  /\ Idle /\ calls < MaxCalls
  /\ calls' = calls + 1
  /\ Reload
  /\ LET h == GetHost(c.name) IN
       IF h # Nobody /\ Passes(c, h)
         THEN call' = [at |-> IF c.tool = "restart_service" THEN "services" ELSE "connect",
                       ask |-> c, checked |-> h, used |-> Nobody, sudo |-> FALSE,
                       login |-> "none", left |-> IF c.tool = "check_health" THEN HealthChecks ELSE 1,
                       rbac |-> rbac, seen |-> {h}, saved |-> FALSE]
         ELSE UNCHANGED call
  /\ UNCHANGED <<gui, keyed, rbac, transfers, ran>>

(* list_hosts shows what is configured; it only brings the cache up to date. *)
ListHosts ==
  /\ Idle /\ Reload
  /\ UNCHANGED <<gui, tools, keyed, rbac>>

CheckServices ==
  /\ call.at = "services" /\ Reload
  /\ LET h == GetHost(call.ask.name) IN
       IF h # Nobody /\ call.ask.arg \in h.services
         THEN call' = [call EXCEPT !.at = IF h.sudo THEN "sudo" ELSE "connect", !.checked = h]
         ELSE call' = NoCall
  /\ UNCHANGED <<gui, keyed, rbac, transfers, ran, calls>>

(* A password that cannot be decrypted ends the call; without one sudo is  *)
(* tried without a password.                                               *)
SudoPassword ==
  /\ call.at = "sudo"
  /\ LET stored == <<call.ask.name, "sudo">> \in env IN
       call' = IF stored /\ ~ keyed THEN NoCall
               ELSE [call EXCEPT !.at = "connect", !.sudo = stored]
  /\ UNCHANGED <<gui, keyed, rbac, server, transfers, ran, calls>>
-----------------------------------------------------------------------------
(* _connect and _run_network look the host up once more.                   *)
Connect ==
  /\ call.at = "connect" /\ Reload
  /\ LET h == GetHost(call.ask.name) IN
       call' = IF h = Nobody THEN NoCall ELSE [call EXCEPT !.at = "login", !.used = h]
  /\ UNCHANGED <<gui, keyed, rbac, transfers, ran, calls>>

OverCli == call.ask.tool = "run_command" /\ call.checked.net

(* SSH takes keys when there is no password it can read; a network device  *)
(* needs one of the two.                                                   *)
Login ==
  /\ call.at = "login"
  /\ LET stored == <<call.ask.name, "login">> \in env
         refused == OverCli /\ (IF stored THEN ~ keyed ELSE ~ call.used.key) IN
       call' = IF refused THEN NoCall
               ELSE [call EXCEPT !.at = "run",
                                 !.login = IF stored /\ keyed THEN "password" ELSE "keys"]
  /\ UNCHANGED <<gui, keyed, rbac, server, transfers, ran, calls>>

(* The next of several commands has a connection of its own, whether this  *)
(* one failed or not.                                                      *)
Over == IF call.left > 1
          THEN [call EXCEPT !.at = "connect", !.left = @ - 1, !.used = Nobody, !.login = "none"]
          ELSE NoCall

Fails ==
  /\ call.at = "run"
  /\ call' = Over
  /\ UNCHANGED <<gui, keyed, rbac, server, transfers, ran, calls>>

(* The command reaches the host; its answer may still get lost.            *)
Runs ==
  /\ call.at = "run" /\ call.ask.tool # "download_file"
  /\ ran' = call /\ call' = Over
  /\ UNCHANGED <<gui, keyed, rbac, server, transfers, calls>>

(* A download that breaks off leaves what it got so far under the name,    *)
(* where upload_file takes it for the file.                                *)
Downloads ==
  /\ call.at = "run" /\ call.ask.tool = "download_file" /\ call.ask.arg \notin TooBig
  /\ \E got \in {"whole", "part"} : transfers' = [transfers EXCEPT ![call.ask.arg] = got]
  /\ ran' = call /\ call' = NoCall
  /\ UNCHANGED <<gui, keyed, rbac, server, calls>>
-----------------------------------------------------------------------------
(* The GUI's side: Console has its handlers.  A save empties the file and  *)
(* then writes it; whatever is read in between is nothing.                 *)
Seen(h) == call' = IF Idle THEN call ELSE [call EXCEPT !.saved = TRUE, !.seen = @ \cup h]

OpenHosts(inventory) ==
  /\ saving = NoSave /\ edits < MaxEdits
  /\ edits' = edits + 1
  /\ saving' = [file |-> "hosts", hosts |-> inventory, env |-> {}]
  /\ hosts' = NoHosts /\ server' = [server EXCEPT !.fresh = FALSE]
  /\ Seen({})
  /\ UNCHANGED <<env, keyed, rbac, transfers, ran, calls>>

WriteHosts ==
  /\ saving.file = "hosts"
  /\ hosts' = saving.hosts /\ server' = [server EXCEPT !.fresh = FALSE]
  /\ saving' = NoSave
  /\ Seen(IF Idle THEN {} ELSE {saving.hosts[call.ask.name]} \ {Nobody})
  /\ UNCHANGED <<env, edits, keyed, rbac, transfers, ran, calls>>

OpenEnv(secrets) ==
  /\ saving = NoSave /\ edits < MaxEdits
  /\ edits' = edits + 1
  /\ saving' = [file |-> "env", hosts |-> NoHosts, env |-> secrets]
  /\ env' = {}
  /\ UNCHANGED <<hosts, tools, keyed, rbac, server>>

WriteEnv ==
  /\ saving.file = "env"
  /\ env' = saving.env /\ saving' = NoSave
  /\ UNCHANGED <<hosts, edits, tools, keyed, rbac, server>>

(* claw-auth creates its database.                                         *)
CreateDatabase ==
  /\ ~ rbac /\ rbac' = TRUE
  /\ UNCHANGED <<gui, tools, keyed, server>>

(* A server that finds no hosts does not come up.                          *)
Restart ==
  /\ hosts # NoHosts /\ edits < MaxEdits
  /\ edits' = edits + 1
  /\ call' = NoCall
  /\ server' = [hosts |-> hosts, fresh |-> TRUE]
  /\ UNCHANGED <<hosts, env, saving, keyed, rbac, transfers, ran, calls>>

Next ==
  \/ \E c \in Calls : Enter(c)
  \/ ListHosts \/ CheckServices \/ SudoPassword \/ Connect \/ Login
  \/ Fails \/ Runs \/ Downloads
  \/ \E i \in Inventories : OpenHosts(i)
  \/ \E s \in {{}, Secrets} : OpenEnv(s)
  \/ WriteHosts \/ WriteEnv \/ CreateDatabase \/ Restart

Spec == Init /\ [][Next]_vars
-----------------------------------------------------------------------------
TypeOK ==
  /\ hosts \in [Names -> Entries \cup {Nobody}]
  /\ server.hosts \in [Names -> Entries \cup {Nobody}]
  /\ env \subseteq Secrets
  /\ transfers \in [Files -> {"absent", "whole", "part"}]
  /\ call.at \in {"idle", "services", "sudo", "connect", "login", "run"}
  /\ Idle => call = NoCall
  /\ saving.file \in {"none", "hosts", "env"}
  /\ call.left \in 0 .. HealthChecks
  /\ calls \in 0 .. MaxCalls /\ edits \in 0 .. MaxEdits

(* What entry h permits call r to do.                                      *)
Permitted(r, h) ==
  LET c == r.ask IN
  /\ CASE c.tool = "run_command" -> IF h.net THEN NetworkCommand(c.arg) ELSE ReadOnly(c.arg)
       [] c.tool \in {"run_write_command", "upload_file"} -> ~ h.net /\ h.write
       [] c.tool = "restart_service" -> c.arg \in h.services
       [] OTHER -> ~ h.net
  /\ r.rbac /\ ~ IsAdmin(c.role) =>
       /\ c.tool \notin {"run_write_command", "upload_file", "download_file"}
       /\ c.tool = "run_command" => c.arg \notin IF h.net THEN FullConfig ELSE SecretPaths

(* Whatever reaches a host had the permission of an entry that hosts.yaml  *)
(* held for it during the call, and goes to where such an entry says; and  *)
(* unless hosts.yaml was saved meanwhile, that is one and the same entry.  *)
(* The reloads of the cache, in the middle of a call and over a truncated  *)
(* file, change neither.                                                   *)
RunsAsConfigured ==
  ran # NoCall =>
    /\ ran.used \in ran.seen
    /\ \E h \in ran.seen : Permitted(ran, h)
    /\ ~ ran.saved => Permitted(ran, ran.used) /\ (ran.ask.tool = "restart_service" => ~ ran.used.net)
=============================================================================
