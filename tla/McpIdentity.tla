---------------------------- MODULE McpIdentity ----------------------------
(***************************************************************************)
(* Who a request is taken for, and with which role.                        *)
(*                                                                         *)
(* A client reaches the tools through mcp_identity_proxy, which resolves   *)
(* its credential and passes name and role on as headers, and then the MCP *)
(* server, which resolves again.  A browser reaches the admin GUI through  *)
(* nginx, which asks claw-auth and sets the same headers.  Server and GUI  *)
(* each keep a cache of roles (claw_user_lookup) that lives as long as the *)
(* process.                                                                *)
(*                                                                         *)
(* Users are edited on the pages that Accounts models; here an edit is any *)
(* change of one row.  RBAC and the bearer check are on, as they are where *)
(* the database of claw-auth is mounted, and every client of the proxy has *)
(* the shared bearer token, or a personal one instead.                     *)
(***************************************************************************)
EXTENDS Naturals

CONSTANTS Names,        \* user names
          Pats,         \* personal access tokens that may be issued
          Binds,        \* bind tokens that may be issued
          Requests,     \* requests in flight at once
          MaxEdits,     \* edits of users
          MaxRestarts,  \* restarts of a container
          Nobody        \* the name of an anonymous caller, not in Names

ConstantsOK == Nobody \notin Names /\ MaxEdits \in Nat /\ MaxRestarts \in Nat

VARIABLES user,     \* user[n]: the row of n in claw-auth
          pat,      \* pat[t]: the row of t in mcp_tokens
          bind,     \* bind[b]: the row of b in mcp_binds
          cache,    \* cache[p][n]: _ROLE_CACHE of process p
          req,      \* req[r]: a request and what is known about its caller
          had,      \* history: had[p], the admins there have been since p started
          edits, restarts

vars == <<user, pat, bind, cache, req, had, edits, restarts>>

-----------------------------------------------------------------------------
(* Superadmins have the rights of admins here (ADMIN_ROLES).               *)
Roles == {"operator", "admin"}
Rows == [role : Roles \cup {"absent"}, disabled : BOOLEAN]
Absent == [role |-> "absent", disabled |-> FALSE]

Active(n) == user[n].role \in Roles /\ ~ user[n].disabled

(* What SELECT role, disabled FROM users gives, "none" standing for None.  *)
DbRole(n) == IF Active(n) THEN user[n].role ELSE "none"

Processes == {"server", "gui"}
Tools == {"run_write_command", "propose_change", "edit_policy"}
AdminTools == {"run_write_command", "edit_policy"}

Credentials == [kind : {"pat"}, id : Pats] \cup [kind : {"bind"}, id : Binds]
                 \cup [kind : {"header"}, id : Names] \cup [kind : {"bearer"}, id : {Nobody}]

(* A request: where it is, what it came with, the caller as the headers    *)
(* name it, the tool it called.  lapsed is history: the token was revoked, *)
(* expired or unknown before the request arrived.                          *)
Request(at, to, cred, who, role, tool, lapsed) ==
  [at |-> at, to |-> to, cred |-> cred, who |-> who, role |-> role,
   tool |-> tool, lapsed |-> lapsed]
Bearer == [kind |-> "bearer", id |-> Nobody]
Free == Request("free", "server", Bearer, Nobody, "none", "none", FALSE)

Init ==
  /\ user \in [Names -> [role : Roles, disabled : {FALSE}]]
  /\ pat = [t \in Pats |-> [name |-> Nobody, state |-> "free"]]
  /\ bind = [b \in Binds |-> [name |-> Nobody, state |-> "free"]]
  /\ cache = [p \in Processes |-> [n \in Names |-> "unread"]]
  /\ req = [r \in Requests |-> Free]
  /\ had = [p \in Processes |-> {n \in Names : DbRole(n) = "admin"}]
  /\ edits = 0
  /\ restarts = 0

-----------------------------------------------------------------------------
(* The portal: users, tokens, binds.                                       *)

Edit(n, row) ==
  /\ edits < MaxEdits
  /\ row # user[n]
  /\ row.role = "absent" => row = Absent
  /\ user' = [user EXCEPT ![n] = row]
  /\ had' = [p \in Processes |->
               had[p] \cup IF row = [role |-> "admin", disabled |-> FALSE] THEN {n} ELSE {}]
  /\ edits' = edits + 1
  /\ UNCHANGED <<pat, bind, cache, req, restarts>>

(* The user is looked up and the row inserted back to back; an edit in     *)
(* between does not touch mcp_tokens and leaves what an edit afterwards    *)
(* would.                                                                  *)
IssuePat(t, n) ==
  /\ pat[t].state = "free"
  /\ Active(n)
  /\ pat' = [pat EXCEPT ![t] = [name |-> n, state |-> "live"]]
  /\ UNCHANGED <<user, bind, cache, req, had, edits, restarts>>

(* By its owner or, for anybody's token, by a superadmin.                  *)
RevokePat(t) ==
  /\ pat[t].state \in {"live", "expired"}
  /\ pat' = [pat EXCEPT ![t].state = "revoked"]
  /\ UNCHANGED <<user, bind, cache, req, had, edits, restarts>>

(* Opening the portal hub issues a bind and purges the expired ones.  A    *)
(* row is used again for another token, once no request carries its last.  *)
CreateBind(b, n) ==
  /\ bind[b].state \in {"free", "expired"}
  /\ \A r \in Requests : req[r].cred # [kind |-> "bind", id |-> b]
  /\ DbRole(n) # "none"
  /\ bind' = [c \in Binds |->
                CASE c = b -> [name |-> n, state |-> "live"]
                  [] c # b /\ bind[c].state = "expired" -> [name |-> Nobody, state |-> "free"]
                  [] OTHER -> bind[c]]
  /\ UNCHANGED <<user, pat, cache, req, had, edits, restarts>>

(* Time passes.                                                            *)
ExpirePat(t) ==
  /\ pat[t].state = "live"
  /\ pat' = [pat EXCEPT ![t].state = "expired"]
  /\ UNCHANGED <<user, bind, cache, req, had, edits, restarts>>

ExpireBind(b) ==
  /\ bind[b].state = "live"
  /\ bind' = [bind EXCEPT ![b].state = "expired"]
  /\ UNCHANGED <<user, pat, cache, req, had, edits, restarts>>

-----------------------------------------------------------------------------
(* Resolving a caller.                                                     *)

(* Token tables are joined with users: the account must exist and be       *)
(* enabled.                                                                *)
GoodForever(row) == row.state # "free" /\ Active(row.name)          \* a slip
Good(row) == row.state = "live" /\ Active(row.name)
GoodPat(cred) == cred.kind = "pat" /\ Good(pat[cred.id])
GoodBind(cred) == cred.kind = "bind" /\ Good(bind[cred.id])

(* A name good for one process only as long as it runs: the first answer   *)
(* of the database, even None, is kept.                                    *)
Looked(p, n) == IF cache[p][n] = "unread" THEN DbRole(n) ELSE cache[p][n]
Remember(p, n) == [cache EXCEPT ![p][n] = Looked(p, n)]

(* The role from the database wins over the header, the header over None.  *)
Decided(p, n, role) == IF Looked(p, n) \in Roles THEN Looked(p, n) ELSE role

(* A known caller without a role counts as an operator.                    *)
Effective(n, role) == CASE role # "none" -> role
                        [] role = "none" /\ n # Nobody -> "operator"
                        [] OTHER -> "anonymous"

(* run_write_command, upload_file, download_file and a sensitive           *)
(* run_command take the bare role, propose_change the name as well; what   *)
(* everybody may call is not modelled.                                     *)
\* A slip: whoever may not write may propose.
AllowedUnnamed(tool, n, role) == tool = "propose_change" \/ role = "admin"
Allowed(tool, n, role) ==
  CASE tool = "run_write_command" -> role = "admin"
    [] tool = "edit_policy" -> Effective(n, role) = "admin"
    [] tool = "propose_change" -> Effective(n, role) # "anonymous"

-----------------------------------------------------------------------------
(* A client calls through the proxy.                                       *)
Arrive(r, cred) ==
  /\ req[r].at = "free"
  /\ \/ cred.kind = "pat" /\ pat[cred.id].state # "free"
     \/ cred.kind = "bind" /\ bind[cred.id].state # "free"
     \/ cred.kind = "bearer"
  /\ LET lapsed == CASE cred.kind = "pat" -> pat[cred.id].state # "live"
                     [] cred.kind = "bind" -> bind[cred.id].state # "live"
                     [] OTHER -> FALSE
     IN req' = [req EXCEPT ![r] = Request("proxy", "server", cred, Nobody, "none", "none", lapsed)]
  /\ UNCHANGED <<user, pat, bind, cache, had, edits, restarts>>

(* The proxy strips what the client says about itself and adds what the    *)
(* token stands for; a bad personal token is refused, a bad bind is left   *)
(* to the server.  That it takes the headers of a peer for good when       *)
(* SSH_OPS_TRUSTED_PROXY_IPS names it is left out: the unit that runs the  *)
(* proxy does not set it.                                                  *)
Forward(r) ==
  LET cred == req[r].cred IN
  /\ req[r].at = "proxy"
  /\ req' = [req EXCEPT ![r] =
       CASE GoodPat(cred) -> [@ EXCEPT !.at = "server", !.who = pat[cred.id].name,
                                       !.role = user[pat[cred.id].name].role]
         [] GoodBind(cred) -> [@ EXCEPT !.at = "server", !.who = bind[cred.id].name,
                                        !.role = user[bind[cred.id].name].role]
         [] cred.kind = "pat" /\ ~ GoodPat(cred) -> Free
         [] OTHER -> [@ EXCEPT !.at = "server"]]
  /\ UNCHANGED <<user, pat, bind, cache, had, edits, restarts>>

(* The server sees the shared token instead of a personal one, the bind as *)
(* the client sent it, and a peer that it trusts: a good bind first, then  *)
(* the headers.                                                            *)
Identify(r) ==
  LET cred == req[r].cred IN
  /\ req[r].at = "server"
  /\ req' = [req EXCEPT ![r] =
       IF GoodBind(cred)
         THEN [@ EXCEPT !.at = "tool", !.who = bind[cred.id].name,
                        !.role = user[bind[cred.id].name].role]
         ELSE [@ EXCEPT !.at = "tool"]]
  /\ UNCHANGED <<user, pat, bind, cache, had, edits, restarts>>

(* A front end the server trusts names a signed-in user and no role.       *)
ArriveNamed(r, n) ==
  /\ req[r].at = "free"
  /\ Active(n)
  /\ cache' = Remember("server", n)
  /\ req' = [req EXCEPT ![r] = Request("tool", "server", [kind |-> "header", id |-> n], n,
                                       Looked("server", n), "none", FALSE)]
  /\ UNCHANGED <<user, pat, bind, had, edits, restarts>>

(* A signed-in user opens a page of the GUI: nginx asks /verify.           *)
Browse(r, n) ==
  /\ req[r].at = "free"
  /\ Active(n)
  /\ req' = [req EXCEPT ![r] = Request("tool", "gui", [kind |-> "header", id |-> n], n,
                                       user[n].role, "none", FALSE)]
  /\ UNCHANGED <<user, pat, bind, cache, had, edits, restarts>>

(* The tool decides the role, fills the cache, and runs or is refused.     *)
Call(r, tool) ==
  LET p == req[r].to
      n == req[r].who
      role == IF n = Nobody THEN "none" ELSE Decided(p, n, req[r].role)
  IN
  /\ req[r].at = "tool"
  /\ (tool = "edit_policy") = (p = "gui")
  /\ cache' = IF n = Nobody THEN cache ELSE Remember(p, n)
  /\ req' = [req EXCEPT ![r] = IF Allowed(tool, n, role)
                                 THEN [@ EXCEPT !.at = "done", !.tool = tool]
                                 ELSE Free]
  /\ UNCHANGED <<user, pat, bind, had, edits, restarts>>

Answer(r) ==
  /\ req[r].at = "done"
  /\ req' = [req EXCEPT ![r] = Free]
  /\ UNCHANGED <<user, pat, bind, cache, had, edits, restarts>>

\* A slip: the cache is kept on disk.
RestartKeepsCache(p) ==
  /\ restarts < MaxRestarts
  /\ restarts' = restarts + 1
  /\ had' = [had EXCEPT ![p] = {n \in Names : DbRole(n) = "admin"}]
  /\ req' = [r \in Requests |-> Free]
  /\ UNCHANGED <<user, pat, bind, edits, cache>>

(* A container restarts: its cache is empty and its requests are lost.     *)
(* What the proxy has resolved and not yet delivered stays.                *)
Restart(p) ==
  /\ restarts < MaxRestarts
  /\ restarts' = restarts + 1
  /\ cache' = [cache EXCEPT ![p] = [n \in Names |-> "unread"]]
  /\ req' = [r \in Requests |->
               IF req[r].to = p /\ req[r].at \in {"tool", "done"} THEN Free ELSE req[r]]
  /\ had' = [had EXCEPT ![p] =
               {n \in Names : DbRole(n) = "admin"
                  \/ \E r \in Requests : /\ req[r].at = "server"
                                         /\ req[r].who = n
                                         /\ req[r].role = "admin"}]
  /\ UNCHANGED <<user, pat, bind, edits>>

Portal ==
  \/ \E n \in Names, row \in Rows : Edit(n, row)
  \/ \E t \in Pats, n \in Names : IssuePat(t, n)
  \/ \E t \in Pats : RevokePat(t) \/ ExpirePat(t)
  \/ \E b \in Binds, n \in Names : CreateBind(b, n)
  \/ \E b \in Binds : ExpireBind(b)

Serve ==
  \E r \in Requests :
    \/ \E cred \in Credentials : Arrive(r, cred)
    \/ Forward(r)
    \/ Identify(r)
    \/ \E n \in Names : ArriveNamed(r, n) \/ Browse(r, n)
    \/ \E tool \in Tools : Call(r, tool)
    \/ Answer(r)

Next == Portal \/ Serve \/ \E p \in Processes : Restart(p)

Spec == Init /\ [][Next]_vars

-----------------------------------------------------------------------------
(* Every row, cache and request has its type.                              *)
TypeOK ==
  /\ user \in [Names -> Rows]
  /\ pat \in [Pats -> [name : Names \cup {Nobody},
                       state : {"free", "live", "expired", "revoked"}]]
  /\ bind \in [Binds -> [name : Names \cup {Nobody}, state : {"free", "live", "expired"}]]
  /\ cache \in [Processes -> [Names -> Roles \cup {"unread", "none"}]]
  /\ req \in [Requests -> [at : {"free", "proxy", "server", "tool", "done"}, to : Processes,
                           cred : Credentials, who : Names \cup {Nobody},
                           role : Roles \cup {"none"}, tool : Tools \cup {"none"},
                           lapsed : BOOLEAN]]
  /\ had \in [Processes -> SUBSET Names]
  /\ edits \in 0..MaxEdits
  /\ restarts \in 0..MaxRestarts

Ran(r) == req[r].at = "done"

(* A call under a personal token that was revoked or had expired before    *)
(* the request arrived does not run, and under such a bind it runs without *)
(* a name: neither the proxy, the server behind it nor a cache revives     *)
(* them.                                                                   *)
LapsedTokensRefused ==
  \A r \in Requests : Ran(r) /\ req[r].lapsed => req[r].cred.kind # "pat" /\ req[r].who = Nobody

(* A tool that needs an admin runs only for somebody who has been one      *)
(* since the process started, whatever is edited, revoked or restarted     *)
(* while the request is on its way.  (That the caller still is one is      *)
(* false: claim_stale_role.)                                               *)
AdminHasBeenAdmin ==
  \A r \in Requests : Ran(r) /\ req[r].tool \in AdminTools => req[r].who \in had[req[r].to]

(* A change is proposed by the user whom the credential belongs to, never  *)
(* by nobody: this is the created_by that the four-eyes rule relies on.    *)
Owner(cred) == CASE cred.kind = "pat" -> pat[cred.id].name
                 [] cred.kind = "bind" -> bind[cred.id].name
                 [] OTHER -> cred.id
ProposerIsOwner ==
  \A r \in Requests : Ran(r) /\ req[r].tool = "propose_change" =>
    /\ req[r].who # Nobody
    /\ req[r].cred.kind \in {"pat", "header"} => req[r].who = Owner(req[r].cred)

(* change_actor.resolve_role: "Trust DB over spoofable header when both    *)
(* are present."  A tool that needs an admin does not run for a caller     *)
(* whom header and database both call an operator when it is called.       *)
DatabaseDecides ==
  [][\A r \in Requests :
       /\ req[r].at = "tool" /\ req'[r].at = "done" /\ req[r].to = "server"
       /\ req'[r].tool \in AdminTools
       => ~ (req[r].role = "operator" /\ DbRole(req[r].who) = "operator")]_vars
=============================================================================
