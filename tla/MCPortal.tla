------------------------------ MODULE MCPortal ------------------------------
(* Pages of the admin GUI beside the change workflow: hosts and discovery, *)
(* decisions from Webex, and the policy.  They share nothing, so a         *)
(* behaviour is one of one part, and the others rest in an initial state.  *)
(* The host pages come alone ("console") and, for one request, with the    *)
(* MCP server that reads hosts.yaml ("server"); decisions from Webex with  *)
(* fixed accounts ("webex") and, for two, with an edit of them ("links").  *)
(* "tools" is one call of an MCP tool on a host, from before it to its end. *)
EXTENDS Portal, MCPolicyRollout, TLC

CONSTANTS x1, x2,  \* threads of the GUI
          nobody   \* no entry in hosts.yaml

VARIABLE part
-----------------------------------------------------------------------------
(* Two switches with the same hostname, and an access point.               *)
SameName == [a \in {"a1", "a2", "ap"} |-> "sw"]
WithAddress == [a \in {"a1", "a2", "ap"} |-> CASE a = "a1" -> "sw-a1" [] OTHER -> "sw-a2"]
Staged == {<<"a2", "a1">>, <<"ap", "a2">>}

(* One change; room for one used link.                                     *)
ByAction == [l \in {<<"c1", "approve">>, <<"c1", "reject">>} |-> IF l[2] = "reject" THEN 2 ELSE 1]

(* A host that changes between three entries or is removed, beside one that *)
(* stays: the inventory is never empty.                                    *)
Linux(write, services, key) ==
  [net |-> FALSE, write |-> write, services |-> services, sudo |-> write, key |-> key]
Three == {Linux(TRUE, {"nginx"}, TRUE), Linux(FALSE, {}, FALSE),
            [Linux(TRUE, {"nginx"}, FALSE) EXCEPT !.net = TRUE]}
AllEntries == Three \cup {Linux(FALSE, {}, TRUE)}
Saved == {[n \in {"h", "k"} |-> IF n = "h" THEN e ELSE Linux(FALSE, {}, TRUE)] :
                  e \in Three \cup {nobody}}
Segmented == [c \in {"blank", "show", "show run", "cat", "cat key", "restart", "chain"} |->
  CASE c = "blank" -> <<>>
    [] c = "cat" -> <<"read", "read">>
    [] c = "cat key" -> <<"read">>
    [] c = "restart" -> <<"systemctl restart">>
    [] c = "chain" -> <<"read", "metacharacter">>
    [] OTHER -> <<"unknown">>]
Lined == DOMAIN Segmented \ {"chain"}
Tool(tool, arg, roles) == {[tool |-> tool, name |-> "h", arg |-> arg, role |-> r] : r \in roles}
Roles == {"admin", "operator"}
ToolCalls == UNION (
  {Tool("run_command", c, Roles) : c \in {"show run", "cat key"}} \cup
  {Tool("run_command", c, {"operator"}) : c \in {"show", "cat", "restart", "chain"}} \cup
  {Tool("run_write_command", c, Roles) : c \in {"blank", "chain"}} \cup
  {Tool("restart_service", s, {"operator"}) : s \in {"nginx", "sshd"}} \cup
  {Tool(t, f, Roles) : t \in {"upload_file", "download_file"}, f \in {"f", "../f"}} \cup
  {Tool("tail_log", p, {"operator"}) : p \in {"absolute path", "other"}} \cup
  {Tool("get_journal", "all", {"operator"}), Tool("check_health", "all", {"operator"})})
-----------------------------------------------------------------------------
consoles == <<hosts, env, staging, job, page, server, imported, pages, restarts, overwritten, cut>>
webexes == <<status, proposer, room, used, linked, emails, click, clicks, links, crashes,
             decisions, spent, crossed, torn>>
toolses == <<inventory, secrets, keyed, rbac, saving, view, transfers, call, ran, calls, edits>>
portal == <<part, consoles, webexes, vars, toolses>>

EqualThreads == Permutations({x1, x2})

MCInit ==
  /\ part \in {"console", "server", "webex", "links", "policy", "tools"}
  /\ Console!Init /\ (part \notin {"console", "server"} =>
                        hosts = Console!NoHosts /\ staging = <<>>)
  /\ Webex!Init /\ linked = [e \in {"e1"} |-> IF part = "webex" THEN "alice" ELSE "nobody"]
  /\ Init /\ (part # "policy" =>
                       /\ file = [f \in Files |-> Copy(Doc("allow", "deny"))]
                       /\ \A p \in {"mcp", "gui"} : ~ cache[p].fresh)
  /\ Tools!Init /\ (\A f \in DOMAIN transfers : transfers[f] = "whole") /\ secrets \in {{}, Tools!Secrets}
                /\ (keyed \/ secrets # {}) /\ inventory["h"] # nobody
                /\ (part # "tools" => inventory["h"].write /\ ~ inventory["h"].net
                                      /\ secrets = {} /\ rbac)

MCNext ==
  \/ /\ part = "console" /\ Console!Next /\ server'.at = "idle"
     /\ UNCHANGED <<part, webexes, vars, toolses>>
  \/ /\ part = "server" /\ Console!Next /\ pages' <= 1
     /\ UNCHANGED <<part, webexes, vars, toolses>>
  \/ /\ part = "webex" /\ Webex!Next /\ links' = 0
     /\ UNCHANGED <<part, consoles, vars, toolses>>
  \/ /\ part = "links" /\ Webex!Next /\ clicks' <= 2
     /\ UNCHANGED <<part, consoles, vars, toolses>>
  \/ part = "policy" /\ Next /\ UNCHANGED <<part, consoles, webexes, toolses>>
  \/ /\ part = "tools" /\ Tools!Next
     /\ ~ (Tools!Idle /\ calls = 1)
     /\ UNCHANGED <<part, consoles, webexes, vars>>

MCSpec == MCInit /\ [][MCNext]_portal
=============================================================================
