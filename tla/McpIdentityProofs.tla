------------------------- MODULE McpIdentityProofs -------------------------
(***************************************************************************)
(* Proofs about McpIdentity, for any number of users, tokens, binds,       *)
(* requests, edits and restarts:                                           *)
(*                                                                         *)
(*   TypeCorrect         every variable keeps its type;                    *)
(*   LapsedRefused       a lapsed token runs nothing in its owner's name;  *)
(*   AdminsHaveBeen      an admin's tool runs for one who has been admin;  *)
(*   ProposersOwn        a change is proposed by the credential's owner.   *)
(***************************************************************************)
EXTENDS McpIdentity, TLAPS

-----------------------------------------------------------------------------
(* Types                                                                   *)

RequestRecord == [at : {"free", "proxy", "server", "tool", "done"}, to : Processes,
             cred : Credentials, who : Names \cup {Nobody},
             role : Roles \cup {"none"}, tool : Tools \cup {"none"}, lapsed : BOOLEAN]

\* A token that was issued belongs to a user.
Issued ==
  /\ \A t \in Pats : pat[t].state # "free" => pat[t].name \in Names
  /\ \A b \in Binds : bind[b].state # "free" => bind[b].name \in Names

TypeInv == TypeOK /\ Issued

LEMMA FreeType == Free \in RequestRecord /\ Free.at = "free" /\ Free.cred = Bearer /\ Free.role = "none"
                  /\ Free.who = Nobody /\ Free.lapsed = FALSE
BY DEF Free, Request, RequestRecord, Bearer, Credentials, Processes

\* A good credential names a user, whose role is the one of the database.
LEMMA GoodType ==
  ASSUME TypeInv, NEW cred \in Credentials
  PROVE  /\ GoodPat(cred) => /\ cred.id \in Pats /\ pat[cred.id].name \in Names
                             /\ pat[cred.id].state = "live"
                             /\ user[pat[cred.id].name].role \in Roles
                             /\ DbRole(pat[cred.id].name) = user[pat[cred.id].name].role
         /\ GoodBind(cred) => /\ cred.id \in Binds /\ bind[cred.id].name \in Names
                              /\ bind[cred.id].state = "live"
                              /\ user[bind[cred.id].name].role \in Roles
                              /\ DbRole(bind[cred.id].name) = user[bind[cred.id].name].role
<1>1. /\ cred.kind = "pat" => cred.id \in Pats
      /\ cred.kind = "bind" => cred.id \in Binds
  BY DEF Credentials
<1> QED BY <1>1 DEF TypeInv, Issued, GoodPat, GoodBind, Good, Active, DbRole

LEMMA LookedType ==
  ASSUME TypeOK, NEW p \in Processes, NEW n \in Names
  PROVE  /\ DbRole(n) \in Roles \cup {"none"}
         /\ Looked(p, n) \in Roles \cup {"none"}
         /\ Remember(p, n) \in [Processes -> [Names -> Roles \cup {"unread", "none"}]]
<1>1. DbRole(n) \in Roles \cup {"none"}
  BY DEF DbRole, Active
<1>2. cache[p] \in [Names -> Roles \cup {"unread", "none"}]
  BY DEF TypeOK
<1>3. Looked(p, n) \in Roles \cup {"none"}
  BY <1>1, <1>2 DEF Looked
<1>4. [cache[p] EXCEPT ![n] = Looked(p, n)] \in [Names -> Roles \cup {"unread", "none"}]
  BY <1>2, <1>3
<1>5. Remember(p, n) = [cache EXCEPT ![p] = [cache[p] EXCEPT ![n] = Looked(p, n)]]
  BY DEF Remember
<1>6. cache \in [Processes -> [Names -> Roles \cup {"unread", "none"}]]
  BY DEF TypeOK
<1>7. Remember(p, n) \in [Processes -> [Names -> Roles \cup {"unread", "none"}]]
  BY <1>4, <1>5, <1>6
<1> QED BY <1>1, <1>3, <1>7

LEMMA TypeInit == ASSUME ConstantsOK, Init PROVE TypeInv
<1>1. /\ user \in [Names -> Rows] /\ req \in [Requests -> RequestRecord]
      /\ had \in [Processes -> SUBSET Names]
  BY FreeType DEF Init, Rows
<1>2. /\ pat \in [Pats -> [name : Names \cup {Nobody},
                          state : {"free", "live", "expired", "revoked"}]]
      /\ bind \in [Binds -> [name : Names \cup {Nobody}, state : {"free", "live", "expired"}]]
      /\ cache \in [Processes -> [Names -> Roles \cup {"unread", "none"}]]
      /\ edits \in 0..MaxEdits /\ restarts \in 0..MaxRestarts
  BY DEF Init, ConstantsOK
<1>3. Issued
  BY DEF Init, Issued
<1> QED BY <1>1, <1>2, <1>3 DEF TypeInv, TypeOK, RequestRecord

\* An action that only moves a request keeps the types if the request has its.
LEMMA MoveType ==
  ASSUME TypeInv, NEW r \in Requests, NEW q \in RequestRecord,
         req' = [req EXCEPT ![r] = q],
         cache' \in [Processes -> [Names -> Roles \cup {"unread", "none"}]],
         UNCHANGED <<user, pat, bind, had, edits, restarts>>
  PROVE  TypeInv'
BY DEF TypeInv, TypeOK, Issued, RequestRecord

\* What Forward, Identify, Arrive, ArriveNamed, Browse, Call and Answer make of
\* a request.
LEMMA ServeMoves ==
  ASSUME TypeInv, NEW r \in Requests,
         \/ \E cred \in Credentials : Arrive(r, cred)
         \/ Forward(r)
         \/ Identify(r)
         \/ \E n \in Names : ArriveNamed(r, n) \/ Browse(r, n)
         \/ \E tool \in Tools : Call(r, tool)
         \/ Answer(r)
  PROVE  /\ UNCHANGED <<user, pat, bind, had, edits, restarts>>
         /\ \E q \in RequestRecord : req' = [req EXCEPT ![r] = q]
         /\ cache' \in [Processes -> [Names -> Roles \cup {"unread", "none"}]]
<1>0. /\ req \in [Requests -> RequestRecord] /\ req[r] \in RequestRecord
      /\ cache \in [Processes -> [Names -> Roles \cup {"unread", "none"}]]
  BY DEF TypeInv, TypeOK, RequestRecord
<1>1. CASE \E cred \in Credentials : Arrive(r, cred)
  <2>1. PICK cred \in Credentials : Arrive(r, cred)
    BY <1>1
  <2>2. ASSUME NEW l \in BOOLEAN
        PROVE  Request("proxy", "server", cred, Nobody, "none", "none", l) \in RequestRecord
    BY DEF Request, RequestRecord, Processes
  <2> QED BY <1>0, <2>1, <2>2 DEF Arrive
<1>2. CASE Forward(r)
  <2> DEFINE cred == req[r].cred
  <2>1. cred \in Credentials
    BY <1>0 DEF RequestRecord
  <2>2. GoodPat(cred) => [req[r] EXCEPT !.at = "server", !.who = pat[cred.id].name,
                                       !.role = user[pat[cred.id].name].role] \in RequestRecord
    BY <1>0, <2>1, GoodType DEF RequestRecord
  <2>3. GoodBind(cred) => [req[r] EXCEPT !.at = "server", !.who = bind[cred.id].name,
                                        !.role = user[bind[cred.id].name].role] \in RequestRecord
    BY <1>0, <2>1, GoodType DEF RequestRecord
  <2>4. [req[r] EXCEPT !.at = "server"] \in RequestRecord
    BY <1>0 DEF RequestRecord
  <2> QED BY <1>0, <1>2, <2>2, <2>3, <2>4, FreeType DEF Forward
<1>3. CASE Identify(r)
  <2> DEFINE cred == req[r].cred
  <2>1. cred \in Credentials
    BY <1>0 DEF RequestRecord
  <2>3. GoodBind(cred) => [req[r] EXCEPT !.at = "tool", !.who = bind[cred.id].name,
                                        !.role = user[bind[cred.id].name].role] \in RequestRecord
    BY <1>0, <2>1, GoodType DEF RequestRecord
  <2>4. [req[r] EXCEPT !.at = "tool"] \in RequestRecord
    BY <1>0 DEF RequestRecord
  <2> QED BY <1>0, <1>3, <2>3, <2>4 DEF Identify
<1>4. CASE \E n \in Names : ArriveNamed(r, n) \/ Browse(r, n)
  <2>1. PICK n \in Names : ArriveNamed(r, n) \/ Browse(r, n)
    BY <1>4
  <2>2. [kind |-> "header", id |-> n] \in Credentials
    BY DEF Credentials
  <2>3. ASSUME NEW p \in Processes, NEW role \in Roles \cup {"none"}
        PROVE  Request("tool", p, [kind |-> "header", id |-> n], n, role, "none", FALSE)
                 \in RequestRecord
    BY <2>2 DEF Request, RequestRecord
  <2>4. "server" \in Processes /\ "gui" \in Processes
    BY DEF Processes
  <2>5. /\ Looked("server", n) \in Roles \cup {"none"}
        /\ Remember("server", n) \in [Processes -> [Names -> Roles \cup {"unread", "none"}]]
    BY <2>4, LookedType DEF TypeInv
  <2>6. Active(n) => user[n].role \in Roles
    BY DEF Active
  <2> QED BY <1>0, <2>1, <2>3, <2>4, <2>5, <2>6 DEF ArriveNamed, Browse
<1>5. CASE \E tool \in Tools : Call(r, tool)
  <2>1. PICK tool \in Tools : Call(r, tool)
    BY <1>5
  <2>2. [req[r] EXCEPT !.at = "done", !.tool = tool] \in RequestRecord
    BY <1>0 DEF RequestRecord
  <2>3. req[r].who # Nobody =>
          Remember(req[r].to, req[r].who) \in [Processes -> [Names -> Roles \cup {"unread", "none"}]]
    BY <1>0, LookedType DEF TypeInv, RequestRecord
  <2> QED BY <1>0, <2>1, <2>2, <2>3, FreeType DEF Call
<1>6. CASE Answer(r)
  BY <1>0, <1>6, FreeType DEF Answer
<1> QED BY <1>1, <1>2, <1>3, <1>4, <1>5, <1>6

LEMMA TypeStep == ASSUME ConstantsOK, TypeInv, [Next]_vars PROVE TypeInv'
<1>1. ASSUME NEW n \in Names, NEW row \in Rows, Edit(n, row)
      PROVE  TypeInv'
  <2>1. had' \in [Processes -> SUBSET Names]
    BY <1>1 DEF Edit, TypeInv, TypeOK
  <2> QED BY <1>1, <2>1 DEF Edit, TypeInv, TypeOK, Issued, ConstantsOK
<1>2. ASSUME NEW t \in Pats, NEW n \in Names, IssuePat(t, n)
      PROVE  TypeInv'
  BY <1>2 DEF IssuePat, TypeInv, TypeOK, Issued
<1>3. ASSUME NEW t \in Pats, RevokePat(t) \/ ExpirePat(t)
      PROVE  TypeInv'
  <2>1. PICK s \in {"expired", "revoked"} : pat' = [pat EXCEPT ![t].state = s]
    BY <1>3 DEF RevokePat, ExpirePat
  <2>2. pat' = [pat EXCEPT ![t] = [pat[t] EXCEPT !.state = s]] /\ pat[t].state # "free"
    BY <1>3, <2>1 DEF RevokePat, ExpirePat
  <2>3. pat' \in [Pats -> [name : Names \cup {Nobody},
                          state : {"free", "live", "expired", "revoked"}]]
    BY <2>2 DEF TypeInv, TypeOK
  <2>4. \A u \in Pats : pat'[u].state # "free" => pat'[u].name \in Names
    BY <2>2 DEF TypeInv, TypeOK, Issued
  <2>5. UNCHANGED <<user, bind, cache, req, had, edits, restarts>>
    BY <1>3 DEF RevokePat, ExpirePat
  <2> QED BY <2>3, <2>4, <2>5 DEF TypeInv, TypeOK, Issued
<1>4. ASSUME NEW b \in Binds, NEW n \in Names, CreateBind(b, n)
      PROVE  TypeInv'
  <2>1. bind' \in [Binds -> [name : Names \cup {Nobody}, state : {"free", "live", "expired"}]]
    BY <1>4 DEF CreateBind, TypeInv, TypeOK
  <2>2. \A c \in Binds : bind'[c].state # "free" => bind'[c].name \in Names
    BY <1>4 DEF CreateBind, TypeInv, TypeOK, Issued
  <2> QED BY <1>4, <2>1, <2>2 DEF CreateBind, TypeInv, TypeOK, Issued
<1>5. ASSUME NEW b \in Binds, ExpireBind(b)
      PROVE  TypeInv'
  BY <1>5 DEF ExpireBind, TypeInv, TypeOK, Issued
<1>6. CASE Serve
  BY <1>6, ServeMoves, MoveType DEF Serve
<1>7. ASSUME NEW p \in Processes, Restart(p)
      PROVE  TypeInv'
  <2>1. req' \in [Requests -> RequestRecord]
    BY <1>7, FreeType DEF Restart, TypeInv, TypeOK, RequestRecord
  <2>2. had' \in [Processes -> SUBSET Names]
    BY <1>7 DEF Restart, TypeInv, TypeOK
  <2>3. cache' \in [Processes -> [Names -> Roles \cup {"unread", "none"}]]
    BY <1>7 DEF Restart, TypeInv, TypeOK
  <2> QED BY <1>7, <2>1, <2>2, <2>3 DEF Restart, TypeInv, TypeOK, Issued, ConstantsOK, RequestRecord
<1>8. CASE UNCHANGED vars
  BY <1>8 DEF vars, TypeInv, TypeOK, Issued
<1> QED BY <1>1, <1>2, <1>3, <1>4, <1>5, <1>6, <1>7, <1>8 DEF Next, Portal

\* Every row, cache and request keeps its type.
THEOREM TypeCorrect == ASSUME ConstantsOK PROVE Spec => []TypeOK
<1>1. Init => TypeInv
  BY TypeInit
<1>2. TypeInv /\ [Next]_vars => TypeInv'
  BY TypeStep
<1>3. TypeInv => TypeOK
  BY DEF TypeInv
<1> QED BY <1>1, <1>2, <1>3, PTL DEF Spec

-----------------------------------------------------------------------------
(* The inductive invariant                                                 *)

(* Whoever is an admin, in the database or in a cache, has been one since  *)
(* the process started.                                                    *)
AdminsKnown ==
  \A p \in Processes, n \in Names :
    DbRole(n) = "admin" \/ cache[p][n] = "admin" => n \in had[p]

(* So has whoever a request on its way names as an admin, and whoever had  *)
(* an admin's tool run.                                                    *)
RoleBacked(q) ==
  /\ q.at = "proxy" => q.role = "none"
  /\ q.at \in {"proxy", "server"} => q.to = "server"
  /\ q.at \in {"server", "tool"} /\ q.role = "admin" => q.who \in had[q.to]
  /\ q.at = "done" /\ q.tool \in AdminTools => q.who \in had[q.to]
  /\ q.at = "done" /\ q.tool = "propose_change" => q.who # Nobody

(* Behind the proxy a personal token is no lapsed one and stands for its   *)
(* owner; a lapsed bind stands for nobody and does not come back to life   *)
(* while a request carries it.                                             *)
NameBacked(q) ==
  /\ q.at # "free" /\ q.cred.kind = "pat" =>
       /\ pat[q.cred.id].state # "free"
       /\ q.lapsed => q.at = "proxy" /\ pat[q.cred.id].state # "live"
       /\ q.at # "proxy" => q.who = pat[q.cred.id].name
  /\ q.at # "free" /\ q.cred.kind = "bind" /\ q.lapsed =>
       bind[q.cred.id].state # "live" /\ q.who = Nobody
  /\ q.at # "free" /\ q.cred.kind = "header" =>
       q.at \in {"tool", "done"} /\ q.who = q.cred.id /\ ~ q.lapsed
  /\ q.at # "free" /\ q.cred.kind = "bearer" => q.who = Nobody

Backed == \A r \in Requests : RoleBacked(req[r]) /\ NameBacked(req[r])

IdentityInv == TypeInv /\ AdminsKnown /\ Backed

LEMMA IdentityInit == ASSUME ConstantsOK, Init PROVE IdentityInv
<1>1. TypeInv
  BY TypeInit
<1>2. AdminsKnown
  BY DEF Init, AdminsKnown
<1>3. \A r \in Requests : req[r] = Free
  BY DEF Init
<1>4. Backed
  BY <1>3, FreeType DEF Backed, RoleBacked, NameBacked
<1> QED BY <1>1, <1>2, <1>4 DEF IdentityInv

\* A step that moves one request keeps the invariant if the request is backed
\* afterwards and what the caches learned is known.
LEMMA MoveBacked ==
  ASSUME IdentityInv, TypeInv', NEW r \in Requests,
         \A s \in Requests \ {r} : req'[s] = req[s],
         UNCHANGED <<user, pat, bind, had>>,
         RoleBacked(req[r])', NameBacked(req[r])',
         \A p \in Processes, n \in Names :
           cache'[p][n] = "admin" => cache[p][n] = "admin" \/ DbRole(n) = "admin"
  PROVE  IdentityInv'
<1>1. \A n \in Names : DbRole(n)' = DbRole(n)
  BY DEF DbRole, Active
<1>2. AdminsKnown'
  BY <1>1 DEF IdentityInv, AdminsKnown
<1>3. ASSUME NEW s \in Requests
      PROVE  RoleBacked(req[s])' /\ NameBacked(req[s])'
  <2>1. CASE s = r
    BY <2>1
  <2>2. CASE s # r
    BY <2>2 DEF IdentityInv, Backed, RoleBacked, NameBacked
  <2> QED BY <2>1, <2>2
<1> QED BY <1>2, <1>3 DEF IdentityInv, Backed

LEMMA RememberLearns ==
  ASSUME TypeInv, NEW q \in Processes, NEW m \in Names, cache' = Remember(q, m)
  PROVE  \A p \in Processes, n \in Names :
           cache'[p][n] = "admin" => cache[p][n] = "admin" \/ DbRole(n) = "admin"
<1>1. cache \in [Processes -> [Names -> Roles \cup {"unread", "none"}]]
  BY DEF TypeInv, TypeOK
<1> QED BY <1>1 DEF Remember, Looked

LEMMA FreeBacked ==
  ASSUME NEW r \in Requests, req'[r] = Free
  PROVE  RoleBacked(req[r])' /\ NameBacked(req[r])'
BY FreeType DEF RoleBacked, NameBacked

LEMMA ArriveBacked ==
  ASSUME IdentityInv, TypeInv', NEW r \in Requests, NEW cred \in Credentials, Arrive(r, cred)
  PROVE  IdentityInv'
<1>1. PICK l \in BOOLEAN :
        /\ req' = [req EXCEPT ![r] = Request("proxy", "server", cred, Nobody, "none", "none", l)]
        /\ cred.kind = "pat" => pat[cred.id].state # "free" /\ (l => pat[cred.id].state # "live")
        /\ cred.kind = "bind" => (l => bind[cred.id].state # "live")
        /\ cred.kind # "header"
  BY DEF Arrive
<1>2. req'[r] = Request("proxy", "server", cred, Nobody, "none", "none", l)
  BY <1>1 DEF IdentityInv, TypeInv, TypeOK
<1>3. UNCHANGED <<user, pat, bind, had, cache>>
  BY DEF Arrive
<1>4. RoleBacked(req[r])'
  BY <1>2 DEF RoleBacked, Request
<1>5. NameBacked(req[r])'
  BY <1>1, <1>2, <1>3 DEF NameBacked, Request
<1>6. \A s \in Requests \ {r} : req'[s] = req[s]
  BY <1>1 DEF IdentityInv, TypeInv, TypeOK
<1> QED BY <1>3, <1>4, <1>5, <1>6, MoveBacked

\* What a good credential of a request stands for.
LEMMA GoodBacked ==
  ASSUME IdentityInv, NEW r \in Requests, req[r].at # "free"
  PROVE  LET cred == req[r].cred IN
         /\ cred \in Credentials
         /\ GoodPat(cred) => /\ cred.kind = "pat" /\ pat[cred.id].state = "live"
                             /\ ~ req[r].lapsed
                             /\ user[pat[cred.id].name].role = "admin"
                                  => \A p \in Processes : pat[cred.id].name \in had[p]
         /\ GoodBind(cred) => /\ cred.kind = "bind" /\ ~ req[r].lapsed
                              /\ user[bind[cred.id].name].role = "admin"
                                   => \A p \in Processes : bind[cred.id].name \in had[p]
<1> DEFINE cred == req[r].cred
<1>1. cred \in Credentials /\ TypeInv /\ NameBacked(req[r]) /\ req[r].lapsed \in BOOLEAN
  BY DEF IdentityInv, TypeInv, TypeOK, Backed
<1>2. GoodPat(cred) => cred.kind = "pat" /\ pat[cred.id].state = "live" /\ ~ req[r].lapsed
  BY <1>1 DEF GoodPat, Good, NameBacked
<1>3. GoodBind(cred) => cred.kind = "bind" /\ ~ req[r].lapsed
  BY <1>1 DEF GoodBind, Good, NameBacked
<1>4. ASSUME GoodPat(cred), user[pat[cred.id].name].role = "admin", NEW p \in Processes
      PROVE  pat[cred.id].name \in had[p]
  BY <1>1, <1>4, GoodType DEF IdentityInv, AdminsKnown
<1>5. ASSUME GoodBind(cred), user[bind[cred.id].name].role = "admin", NEW p \in Processes
      PROVE  bind[cred.id].name \in had[p]
  BY <1>1, <1>5, GoodType DEF IdentityInv, AdminsKnown
<1> QED BY <1>1, <1>2, <1>3, <1>4, <1>5

LEMMA ForwardBacked ==
  ASSUME IdentityInv, TypeInv', NEW r \in Requests, Forward(r)
  PROVE  IdentityInv'
<1> DEFINE cred == req[r].cred
<1>0. /\ req[r].at = "proxy" /\ req[r] \in RequestRecord /\ "server" \in Processes
      /\ RoleBacked(req[r]) /\ NameBacked(req[r])
  BY DEF Forward, IdentityInv, Backed, TypeInv, TypeOK, RequestRecord, Processes
<1>1. UNCHANGED <<user, pat, bind, had, cache>> /\ \A s \in Requests \ {r} : req'[s] = req[s]
  BY DEF Forward, IdentityInv, TypeInv, TypeOK
<1>2. SUFFICES RoleBacked(req[r])' /\ NameBacked(req[r])'
  BY <1>1, MoveBacked
<1>3. CASE GoodPat(cred)
  <2>1. req'[r] = [req[r] EXCEPT !.at = "server", !.who = pat[cred.id].name,
                                 !.role = user[pat[cred.id].name].role]
    BY <1>3 DEF Forward, GoodPat, GoodBind, IdentityInv, TypeInv, TypeOK
  <2>2. cred.kind = "pat" /\ pat[cred.id].state = "live" /\ ~ req[r].lapsed
    BY <1>0, <1>3, GoodBacked
  <2>3. user[pat[cred.id].name].role = "admin" => pat[cred.id].name \in had["server"]
    BY <1>0, <1>3, GoodBacked
  <2>4. RoleBacked(req[r])'
    BY <1>0, <1>1, <2>1, <2>3 DEF RoleBacked, RequestRecord
  <2>5. NameBacked(req[r])'
    BY <1>0, <1>1, <2>1, <2>2 DEF NameBacked, RequestRecord
  <2> QED BY <2>4, <2>5
<1>4. CASE GoodBind(cred)
  <2>1. cred.kind = "bind" /\ ~ req[r].lapsed
    BY <1>0, <1>4, GoodBacked
  <2>2. req'[r] = [req[r] EXCEPT !.at = "server", !.who = bind[cred.id].name,
                                 !.role = user[bind[cred.id].name].role]
    BY <1>4, <2>1 DEF Forward, IdentityInv, TypeInv, TypeOK, GoodPat
  <2>3. user[bind[cred.id].name].role = "admin" => bind[cred.id].name \in had["server"]
    BY <1>0, <1>4, GoodBacked
  <2>4. RoleBacked(req[r])'
    BY <1>0, <1>1, <2>2, <2>3 DEF RoleBacked, RequestRecord
  <2>5. NameBacked(req[r])'
    BY <1>0, <1>1, <2>1, <2>2 DEF NameBacked, RequestRecord
  <2> QED BY <2>4, <2>5
<1>5. CASE ~ GoodPat(cred) /\ ~ GoodBind(cred) /\ cred.kind = "pat"
  <2>1. req'[r] = Free
    BY <1>5 DEF Forward, IdentityInv, TypeInv, TypeOK
  <2> QED BY <2>1, FreeBacked
<1>6. CASE ~ GoodPat(cred) /\ ~ GoodBind(cred) /\ cred.kind # "pat"
  <2>1. req'[r] = [req[r] EXCEPT !.at = "server"]
    BY <1>6 DEF Forward, IdentityInv, TypeInv, TypeOK
  <2>2. RoleBacked(req[r])'
    BY <1>0, <1>1, <2>1 DEF RoleBacked, RequestRecord
  <2>3. NameBacked(req[r])'
    BY <1>0, <1>1, <1>6, <2>1 DEF NameBacked, RequestRecord
  <2> QED BY <2>2, <2>3
<1> QED BY <1>3, <1>4, <1>5, <1>6

LEMMA IdentifyBacked ==
  ASSUME IdentityInv, TypeInv', NEW r \in Requests, Identify(r)
  PROVE  IdentityInv'
<1> DEFINE cred == req[r].cred
<1>0. /\ req[r].at = "server" /\ req[r] \in RequestRecord /\ "server" \in Processes
      /\ RoleBacked(req[r]) /\ NameBacked(req[r])
  BY DEF Identify, IdentityInv, Backed, TypeInv, TypeOK, RequestRecord, Processes
<1>1. UNCHANGED <<user, pat, bind, had, cache>> /\ \A s \in Requests \ {r} : req'[s] = req[s]
  BY DEF Identify, IdentityInv, TypeInv, TypeOK
<1>2. SUFFICES RoleBacked(req[r])' /\ NameBacked(req[r])'
  BY <1>1, MoveBacked
<1>3. CASE GoodBind(cred)
  <2>1. cred.kind = "bind" /\ ~ req[r].lapsed
    BY <1>0, <1>3, GoodBacked
  <2>2. req'[r] = [req[r] EXCEPT !.at = "tool", !.who = bind[cred.id].name,
                                 !.role = user[bind[cred.id].name].role]
    BY <1>3 DEF Identify, IdentityInv, TypeInv, TypeOK
  <2>3. user[bind[cred.id].name].role = "admin" => bind[cred.id].name \in had["server"]
    BY <1>0, <1>3, GoodBacked
  <2>4. RoleBacked(req[r])'
    BY <1>0, <1>1, <2>2, <2>3 DEF RoleBacked, RequestRecord
  <2>5. NameBacked(req[r])'
    BY <1>0, <1>1, <2>1, <2>2 DEF NameBacked, RequestRecord
  <2> QED BY <2>4, <2>5
<1>4. CASE ~ GoodBind(cred)
  <2>1. req'[r] = [req[r] EXCEPT !.at = "tool"]
    BY <1>4 DEF Identify, IdentityInv, TypeInv, TypeOK
  <2>2. RoleBacked(req[r])'
    BY <1>0, <1>1, <2>1 DEF RoleBacked, RequestRecord
  <2>3. NameBacked(req[r])'
    BY <1>0, <1>1, <2>1 DEF NameBacked, RequestRecord
  <2> QED BY <2>2, <2>3
<1> QED BY <1>3, <1>4

\* A front end or a page of the GUI names a user; the role comes from the cache
\* or from the database.
LEMMA NamedBacked ==
  ASSUME IdentityInv, TypeInv', NEW r \in Requests, NEW n \in Names,
         ArriveNamed(r, n) \/ Browse(r, n)
  PROVE  IdentityInv'
<1>0. "server" \in Processes /\ "gui" \in Processes /\ TypeInv /\ TypeOK
  BY DEF Processes, IdentityInv, TypeInv
<1>1. UNCHANGED <<user, pat, bind, had>> /\ \A s \in Requests \ {r} : req'[s] = req[s]
  BY <1>0 DEF ArriveNamed, Browse, TypeOK
<1>2. \A p \in Processes, m \in Names :
        cache'[p][m] = "admin" => cache[p][m] = "admin" \/ DbRole(m) = "admin"
  BY <1>0, RememberLearns DEF ArriveNamed, Browse
<1>3. PICK p \in Processes, role \in Roles \cup {"none"} :
        /\ req'[r] = Request("tool", p, [kind |-> "header", id |-> n], n, role, "none", FALSE)
        /\ role = "admin" => n \in had[p]
  <2>1. CASE ArriveNamed(r, n)
    <3>1. req'[r] = Request("tool", "server", [kind |-> "header", id |-> n], n,
                            Looked("server", n), "none", FALSE)
      BY <1>0, <2>1 DEF ArriveNamed, TypeOK
    <3>2. Looked("server", n) = "admin" => n \in had["server"]
      BY <1>0 DEF Looked, IdentityInv, AdminsKnown
    <3> QED BY <1>0, <3>1, <3>2, LookedType
  <2>2. CASE Browse(r, n)
    <3>1. /\ req'[r] = Request("tool", "gui", [kind |-> "header", id |-> n], n,
                               user[n].role, "none", FALSE)
          /\ user[n].role \in Roles /\ DbRole(n) = user[n].role
      BY <1>0, <2>2 DEF Browse, TypeOK, Active, DbRole
    <3>2. user[n].role = "admin" => n \in had["gui"]
      BY <1>0, <3>1 DEF IdentityInv, AdminsKnown
    <3> QED BY <1>0, <3>1, <3>2
  <2> QED BY <2>1, <2>2
<1>4. RoleBacked(req[r])'
  BY <1>1, <1>3 DEF RoleBacked, Request
<1>5. NameBacked(req[r])'
  BY <1>1, <1>3 DEF NameBacked, Request
<1> QED BY <1>1, <1>2, <1>4, <1>5, MoveBacked

\* An admin's tool runs for an admin whom the cache, the database or the
\* request vouches for, and a change is proposed by somebody.
LEMMA CallBacked ==
  ASSUME ConstantsOK, IdentityInv, TypeInv', NEW r \in Requests, NEW tool \in Tools,
         Call(r, tool)
  PROVE  IdentityInv'
<1> DEFINE p == req[r].to
           n == req[r].who
           role == IF n = Nobody THEN "none" ELSE Decided(p, n, req[r].role)
<1>0. /\ TypeInv /\ TypeOK /\ req[r] \in RequestRecord /\ req[r].at = "tool" /\ p \in Processes
      /\ RoleBacked(req[r]) /\ NameBacked(req[r]) /\ n \in Names \cup {Nobody}
  BY DEF Call, IdentityInv, TypeInv, TypeOK, Backed, RequestRecord
<1>1. UNCHANGED <<user, pat, bind, had>> /\ \A s \in Requests \ {r} : req'[s] = req[s]
  BY <1>0 DEF Call, TypeOK
<1>2. \A q \in Processes, m \in Names :
        cache'[q][m] = "admin" => cache[q][m] = "admin" \/ DbRole(m) = "admin"
  <2>1. CASE n = Nobody
    BY <2>1 DEF Call
  <2>2. CASE n # Nobody
    <3>1. n \in Names /\ cache' = Remember(p, n)
      BY <1>0, <2>2 DEF Call
    <3> QED BY <1>0, <3>1, RememberLearns
  <2> QED BY <2>1, <2>2
<1>3. SUFFICES RoleBacked(req[r])' /\ NameBacked(req[r])'
  BY <1>1, <1>2, MoveBacked
<1>4. CASE ~ Allowed(tool, n, role)
  <2>1. req'[r] = Free
    BY <1>0, <1>4 DEF Call, TypeOK
  <2> QED BY <2>1, FreeBacked
<1>5. CASE Allowed(tool, n, role)
  <2>1. req'[r] = [req[r] EXCEPT !.at = "done", !.tool = tool]
    BY <1>0, <1>5 DEF Call, TypeOK
  <2>2. ASSUME tool \in AdminTools
        PROVE  role = "admin"
    BY <1>5, <2>2 DEF Allowed, AdminTools, Effective
  <2>3. ASSUME tool = "propose_change"
        PROVE  n # Nobody
    BY <1>5, <2>3 DEF Allowed, Effective
  <2>4. ASSUME role = "admin"
        PROVE  n \in had[p]
    <3>1. n \in Names
      BY <1>0, <2>4
    <3>2. \/ cache[p][n] = "admin" \/ DbRole(n) = "admin" \/ req[r].role = "admin"
      BY <2>4 DEF Decided, Looked
    <3>3. CASE cache[p][n] = "admin" \/ DbRole(n) = "admin"
      BY <1>0, <3>1, <3>3 DEF IdentityInv, AdminsKnown
    <3>4. CASE req[r].role = "admin"
      BY <1>0, <3>4 DEF RoleBacked
    <3> QED BY <3>2, <3>3, <3>4
  <2>5. RoleBacked(req[r])'
    BY <1>0, <1>1, <2>1, <2>2, <2>3, <2>4 DEF RoleBacked, RequestRecord
  <2>6. NameBacked(req[r])'
    BY <1>0, <1>1, <2>1 DEF NameBacked, RequestRecord
  <2> QED BY <2>5, <2>6
<1> QED BY <1>4, <1>5

LEMMA ServeBacked ==
  ASSUME ConstantsOK, IdentityInv, TypeInv', Serve
  PROVE  IdentityInv'
<1>1. ASSUME NEW r \in Requests, Answer(r)
      PROVE  IdentityInv'
  <2>1. /\ req'[r] = Free /\ \A s \in Requests \ {r} : req'[s] = req[s]
        /\ UNCHANGED <<user, pat, bind, had, cache>>
    BY <1>1 DEF Answer, IdentityInv, TypeInv, TypeOK
  <2> QED BY <2>1, FreeBacked, MoveBacked
<1> QED BY <1>1, ArriveBacked, ForwardBacked, IdentifyBacked, NamedBacked, CallBacked DEF Serve

\* An edit of a user makes nobody an admin whom had does not name.
LEMMA EditBacked ==
  ASSUME IdentityInv, TypeInv', NEW n \in Names, NEW row \in Rows, Edit(n, row)
  PROVE  IdentityInv'
<1>0. TypeOK
  BY DEF IdentityInv, TypeInv
<1>1. /\ user' = [user EXCEPT ![n] = row] /\ UNCHANGED <<pat, bind, cache, req>>
      /\ \A p \in Processes : had[p] \subseteq had'[p]
      /\ row = [role |-> "admin", disabled |-> FALSE] => \A p \in Processes : n \in had'[p]
  BY <1>0 DEF Edit, TypeOK
<1>2. ASSUME NEW m \in Names, DbRole(m)' = "admin"
      PROVE  DbRole(m) = "admin" \/ (m = n /\ row = [role |-> "admin", disabled |-> FALSE])
  BY <1>0, <1>1, <1>2 DEF DbRole, Active, TypeOK, Rows
<1>3. AdminsKnown'
  BY <1>1, <1>2 DEF IdentityInv, AdminsKnown
<1>4. ASSUME NEW r \in Requests
      PROVE  RoleBacked(req[r])' /\ NameBacked(req[r])'
  <2>1. RoleBacked(req[r]) /\ NameBacked(req[r]) /\ req[r].to \in Processes
    BY <1>0 DEF IdentityInv, Backed, TypeOK
  <2> QED BY <1>1, <2>1 DEF RoleBacked, NameBacked
<1> QED BY <1>3, <1>4 DEF IdentityInv, Backed

\* No token comes back to life under a request that carries it.
LEMMA TokenBacked ==
  ASSUME IdentityInv, TypeInv', UNCHANGED <<user, cache, req, had>>,
         \A r \in Requests : req[r].at # "free" /\ req[r].cred.kind = "pat" =>
           LET t == req[r].cred.id IN
           pat[t].state # "free" => /\ pat'[t].state # "free" /\ pat'[t].name = pat[t].name
                                    /\ pat'[t].state = "live" => pat[t].state = "live",
         \A r \in Requests : req[r].at # "free" /\ req[r].cred.kind = "bind" =>
           LET b == req[r].cred.id IN bind'[b].state = "live" => bind[b].state = "live"
  PROVE  IdentityInv'
<1>1. AdminsKnown'
  BY DEF IdentityInv, AdminsKnown, DbRole, Active
<1>2. ASSUME NEW r \in Requests
      PROVE  RoleBacked(req[r])' /\ NameBacked(req[r])'
  <2>1. RoleBacked(req[r]) /\ NameBacked(req[r])
    BY DEF IdentityInv, Backed
  <2>2. RoleBacked(req[r])'
    BY <2>1 DEF RoleBacked
  <2>3. NameBacked(req[r])'
    BY <2>1 DEF NameBacked
  <2> QED BY <2>2, <2>3
<1> QED BY <1>1, <1>2 DEF IdentityInv, Backed

LEMMA PortalBacked ==
  ASSUME IdentityInv, TypeInv', Portal
  PROVE  IdentityInv'
<1>0. /\ pat \in [Pats -> [name : Names \cup {Nobody},
                          state : {"free", "live", "expired", "revoked"}]]
      /\ bind \in [Binds -> [name : Names \cup {Nobody}, state : {"free", "live", "expired"}]]
      /\ \A r \in Requests : req[r].cred \in Credentials
  BY DEF IdentityInv, TypeInv, TypeOK
<1>1. \A cred \in Credentials : /\ cred.kind = "pat" => cred.id \in Pats
                                /\ cred.kind = "bind" => cred.id \in Binds
                                /\ cred = [kind |-> cred.kind, id |-> cred.id]
  BY DEF Credentials
<1>2. ASSUME NEW t \in Pats, NEW n \in Names, IssuePat(t, n)
      PROVE  IdentityInv'
  BY <1>0, <1>1, <1>2, TokenBacked DEF IssuePat
<1>3. ASSUME NEW t \in Pats, RevokePat(t) \/ ExpirePat(t)
      PROVE  IdentityInv'
  BY <1>0, <1>1, <1>3, TokenBacked DEF RevokePat, ExpirePat
<1>4. ASSUME NEW b \in Binds, NEW n \in Names, CreateBind(b, n)
      PROVE  IdentityInv'
  <2>1. ASSUME NEW r \in Requests, req[r].cred.kind = "bind"
        PROVE  LET c == req[r].cred.id IN bind'[c].state = "live" => bind[c].state = "live"
    BY <1>0, <1>1, <1>4, <2>1 DEF CreateBind
  <2> QED BY <1>4, <2>1, TokenBacked DEF CreateBind
<1>5. ASSUME NEW b \in Binds, ExpireBind(b)
      PROVE  IdentityInv'
  BY <1>0, <1>1, <1>5, TokenBacked DEF ExpireBind
<1> QED BY <1>2, <1>3, <1>4, <1>5, EditBacked DEF Portal

\* The requests that a restart does not lose are those still on their way to
\* the server, whose admins had keeps, and those of the other process.
LEMMA RestartBacked ==
  ASSUME IdentityInv, TypeInv', NEW p \in Processes, Restart(p)
  PROVE  IdentityInv'
<1>0. TypeOK
  BY DEF IdentityInv, TypeInv
<1>1. /\ UNCHANGED <<user, pat, bind>>
      /\ \A q \in Processes \ {p} : cache'[q] = cache[q] /\ had'[q] = had[q]
      /\ \A n \in Names : cache'[p][n] = "unread"
      /\ had'[p] = {n \in Names : DbRole(n) = "admin"
                      \/ \E r \in Requests : /\ req[r].at = "server"
                                             /\ req[r].who = n
                                             /\ req[r].role = "admin"}
      /\ \A r \in Requests : req'[r] = IF req[r].to = p /\ req[r].at \in {"tool", "done"}
                                         THEN Free ELSE req[r]
  BY <1>0 DEF Restart, TypeOK
<1>2. \A n \in Names : DbRole(n)' = DbRole(n)
  BY <1>1 DEF DbRole, Active
<1>3. AdminsKnown'
  BY <1>1, <1>2 DEF IdentityInv, AdminsKnown
<1>4. ASSUME NEW r \in Requests
      PROVE  RoleBacked(req[r])' /\ NameBacked(req[r])'
  <2>1. /\ RoleBacked(req[r]) /\ NameBacked(req[r]) /\ req[r].to \in Processes
        /\ had[req[r].to] \subseteq Names
    BY <1>0 DEF IdentityInv, Backed, TypeOK
  <2>2. CASE req[r].to = p /\ req[r].at \in {"tool", "done"}
    BY <1>1, <2>2, FreeBacked
  <2>3. CASE ~ (req[r].to = p /\ req[r].at \in {"tool", "done"})
    <3>1. req'[r] = req[r]
      BY <1>1, <2>3
    <3>2. RoleBacked(req[r])'
      BY <1>1, <2>1, <2>3, <3>1 DEF RoleBacked
    <3>3. NameBacked(req[r])'
      BY <1>1, <2>1, <3>1 DEF NameBacked
    <3> QED BY <3>2, <3>3
  <2> QED BY <2>2, <2>3
<1> QED BY <1>3, <1>4 DEF IdentityInv, Backed

LEMMA IdentityStep == ASSUME ConstantsOK, IdentityInv, [Next]_vars PROVE IdentityInv'
<1>1. TypeInv'
  BY TypeStep DEF IdentityInv
<1>2. CASE UNCHANGED vars
  BY <1>2 DEF vars, IdentityInv, TypeInv, TypeOK, Issued, AdminsKnown, DbRole, Active,
              Backed, RoleBacked, NameBacked
<1> QED BY <1>1, <1>2, PortalBacked, ServeBacked, RestartBacked DEF Next

LEMMA IdentityAlways == ASSUME ConstantsOK PROVE Spec => []IdentityInv
<1>1. Init => IdentityInv
  BY IdentityInit
<1>2. IdentityInv /\ [Next]_vars => IdentityInv'
  BY IdentityStep
<1> QED BY <1>1, <1>2, PTL DEF Spec

\* A call under a personal token that had been revoked or had expired before
\* the request arrived does not run, and under such a bind it runs without a
\* name (_resolve_pat, _resolve_bind in proxy and server).
THEOREM LapsedRefused == ASSUME ConstantsOK PROVE Spec => []LapsedTokensRefused
<1>1. IdentityInv => LapsedTokensRefused
  BY DEF IdentityInv, Backed, NameBacked, LapsedTokensRefused, Ran, TypeInv, TypeOK, Credentials
<1> QED BY <1>1, IdentityAlways, PTL

\* run_write_command and edit_policy run only for somebody who has been an
\* admin since the process that ran them started (_ROLE_CACHE, resolve_role).
THEOREM AdminsHaveBeen == ASSUME ConstantsOK PROVE Spec => []AdminHasBeenAdmin
<1>1. IdentityInv => AdminHasBeenAdmin
  BY DEF IdentityInv, Backed, RoleBacked, AdminHasBeenAdmin, Ran
<1> QED BY <1>1, IdentityAlways, PTL

\* The proposer of a change is the user of the token or the session that it
\* came with, never nobody (created_by).
THEOREM ProposersOwn == ASSUME ConstantsOK PROVE Spec => []ProposerIsOwner
<1>1. IdentityInv => ProposerIsOwner
  BY DEF IdentityInv, Backed, RoleBacked, NameBacked, ProposerIsOwner, Owner, Ran
<1> QED BY <1>1, IdentityAlways, PTL
=============================================================================
