------------------------------ MODULE Accounts ------------------------------
(***************************************************************************)
(* claw-auth: the accounts and login sessions that all portals share, in   *)
(* one SQLite file.  Flask serves each request in a thread, and manage.py  *)
(* works on the same file from a shell; each SQL statement is atomic, what *)
(* a request does with several of them is not.                             *)
(***************************************************************************)
EXTENDS Naturals, FiniteSets

CONSTANTS
  Names,     \* user names
  Legacy,    \* "admin", whom init_db promotes
  NoName,    \* the actor of a shell command
  Emails, NoEmail,
  Sessions,  \* sessions that may be open at once
  Threads,   \* requests and shell commands that may run at once
  MaxGen     \* bound on how often an account of one name is created

ASSUME ConstantsOK ==
  /\ NoName \notin Names /\ NoEmail \notin Emails /\ MaxGen \in Nat
  /\ IsFiniteSet(Names) /\ IsFiniteSet(Threads)

Roles == {"operator", "admin", "superadmin"}
Rank  == [operator |-> 0, admin |-> 1, superadmin |-> 2]

VARIABLES
  user,     \* user[n]: the row of n; its role is "none" if there is none, and
            \* gen counts the accounts there have been of that name
  session,  \* session[s]: whose it is, and of which generation
  job       \* job[t]: the request of thread t
vars == <<user, session, job>>

Account(role, disabled, email, gen) ==
  [role |-> role, disabled |-> disabled, email |-> email, gen |-> gen]
Closed == [user |-> NoName, gen |-> 0]

Exists(u, n) == u[n].role # "none"
Active(u, n) == Exists(u, n) /\ ~u[n].disabled
PortalAdmin(role) == role \in {"admin", "superadmin"}

\* superadmin_count and portal_admin_count, without the disabled ones.
Superadmins(u)  == {n \in Names : Active(u, n) /\ u[n].role = "superadmin"}
PortalAdmins(u) == {n \in Names : Active(u, n) /\ PortalAdmin(u[n].role)}

\* init_db, which nearly every call begins with: _migrate_superadmin.
Promoted ==
  [n \in Names |-> IF n = Legacy /\ user[n].role = "admin"
                     THEN [user[n] EXCEPT !.role = "superadmin"] ELSE user[n]]
-----------------------------------------------------------------------------
(* A request: its next statement; who asks, and the role of the session it *)
(* was admitted with; whom it is about, and what the form says.            *)

Job(pc, actor, rank, target, role, email, disabled, gen) ==
  [pc |-> pc, actor |-> actor, rank |-> rank, target |-> target,
   role |-> role, email |-> email, disabled |-> disabled, gen |-> gen]

Idle == Job("idle", NoName, "operator", NoName, "operator", NoEmail, FALSE, 0)

At(t, pc)     == job[t].pc = pc
Begin(t, j)   == At(t, "idle") /\ job' = [job EXCEPT ![t] = j]
Goto(t, pc)   == job' = [job EXCEPT ![t].pc = pc]
\* A ValueError, an IntegrityError or the end: what was written stays.
Done(t)       == job' = [job EXCEPT ![t] = Idle]

\* get_session: the session is there and its user is not disabled.
Admitted(u, s) == session[s].user \in Names /\ Active(u, session[s].user)

AnyRole(rank, role) == TRUE                                      \* a slip

\* _assert_assignable_role
Assignable(rank, role) == role = "superadmin" => rank = "superadmin"

\* The bound on accounts of one name.
Creating(n) == {t \in Threads : At(t, "create") /\ job[t].target = n}
Room(n) == user[n].gen + Cardinality(Creating(n)) < MaxGen

\* authenticate.  The password is right.
Login(t, n) ==
  /\ user' = Promoted
  /\ Active(user', n)
  /\ Begin(t, Job("session", n, "operator", n, "operator", NoEmail, FALSE, user'[n].gen))
  /\ UNCHANGED session

\* create_session, which asks nothing about the user.
CreateSession(t) ==
  /\ At(t, "session")
  /\ \E s \in Sessions :
       /\ session[s] = Closed
       /\ session' = [session EXCEPT ![s] = [user |-> job[t].target, gen |-> job[t].gen]]
  /\ Done(t)
  /\ UNCHANGED user

\* logout, expiry, purge_expired_sessions
Close(s) ==
  /\ session[s] # Closed
  /\ session' = [session EXCEPT ![s] = Closed]
  /\ UNCHANGED <<user, job>>

\* The forms of /admin/users, for a session with at least the role admin.
AskCreate(t, n, role) ==
  /\ Room(n)
  /\ user' = Promoted
  /\ \E s \in Sessions :
       LET actor == session[s].user IN
       /\ Admitted(user', s) /\ PortalAdmin(user'[actor].role)
       /\ Assignable(user'[actor].role, role)
       /\ Begin(t, Job("create", actor, user'[actor].role, n, role, NoEmail, FALSE, 0))
  /\ UNCHANGED session

AskDelete(t, n) ==
  /\ user' = Promoted
  /\ \E s \in Sessions :
       LET actor == session[s].user IN
       /\ Admitted(user', s) /\ PortalAdmin(user'[actor].role)
       /\ n # actor
       /\ Begin(t, Job("delete", actor, user'[actor].role, n, "operator", NoEmail, FALSE, 0))
  /\ UNCHANGED session

\* The form of /admin/users/<name>/edit; a superadmin's role is not for an
\* admin to change.
AskEdit(t, n, asked, email, disabled) ==
  /\ user' = Promoted
  /\ \E s \in Sessions :
       LET actor == session[s].user
           rank  == user'[actor].role
           role  == IF user'[n].role = "superadmin" /\ rank # "superadmin"
                      THEN "superadmin" ELSE asked
       IN /\ Admitted(user', s) /\ PortalAdmin(rank)
          /\ Exists(user', n)
          /\ Assignable(rank, role)
          /\ Begin(t, Job("demote", actor, rank, n, role, email, disabled, 0))
  /\ UNCHANGED session

\* manage.py create-user, delete-user and set-webex-email
Shell(t, n) ==
  /\ \/ \E role \in Roles :
          Room(n) /\ Begin(t, Job("create", NoName, "superadmin", n, role, NoEmail, FALSE, 0))
     \/ Begin(t, Job("delete", NoName, "superadmin", n, "operator", NoEmail, FALSE, 0))
     \/ \E email \in Emails \union {NoEmail} :
          Begin(t, Job("link", NoName, "superadmin", n, "operator", email, FALSE, 0))
  /\ user' = Promoted
  /\ UNCHANGED session
-----------------------------------------------------------------------------
(* store.py                                                                *)

\* create_user
Create(t) ==
  /\ At(t, "create")
  /\ LET j == job[t] IN
     IF Exists(Promoted, j.target)
       THEN user' = Promoted
       ELSE user' = [Promoted EXCEPT ![j.target] =
                       Account(j.role, FALSE, NoEmail, @.gen + 1)]
  /\ Done(t)
  /\ UNCHANGED session

Without(n) == [s \in Sessions |-> IF session[s].user = n THEN Closed ELSE session[s]]

\* A slip: the sessions of the user stay.
DeleteUserOnly(t) ==
  /\ At(t, "delete")
  /\ LET n == job[t].target IN
     user' = [user EXCEPT ![n] = Account("none", FALSE, NoEmail, @.gen)]
  /\ Done(t)
  /\ UNCHANGED session

\* delete_user: both DELETEs in one transaction.
Delete(t) ==
  /\ At(t, "delete")
  /\ LET n == job[t].target IN
     /\ user' = [user EXCEPT ![n] = Account("none", FALSE, NoEmail, @.gen)]
     /\ session' = Without(n)
  /\ Done(t)

\* A slip: the rules of the role admin only.
AdminDemotionOK(u, j) ==
  PortalAdmin(u[j.target].role) /\ j.role = "operator" => Cardinality(PortalAdmins(u)) > 1

\* update_user, field by field: the checks of a role,
DemotionOK(u, j) ==
  LET now == u[j.target].role IN
  /\ now = "superadmin" /\ j.role # "superadmin" => Cardinality(Superadmins(u)) > 1
  /\ PortalAdmin(now) /\ j.role = "operator" => Cardinality(PortalAdmins(u)) > 1
  /\ j.actor = j.target => Rank[j.role] >= Rank[now]

CheckRole(t) ==
  /\ At(t, "demote")
  /\ user' = Promoted
  /\ IF Exists(user', job[t].target) /\ DemotionOK(user', job[t])
       THEN Goto(t, "role") ELSE Done(t)
  /\ UNCHANGED session

\* the role, if the row is still there,
SetRole(t) ==
  /\ At(t, "role")
  /\ LET n == job[t].target IN
     user' = IF Exists(user, n) THEN [user EXCEPT ![n].role = job[t].role] ELSE user
  /\ Goto(t, "email")
  /\ UNCHANGED session

\* A slip: the actor in the place of the address.
SetEmailActor(t) ==
  /\ At(t, "email") \/ At(t, "link")
  /\ user' = [user EXCEPT ![job[t].target].email = job[t].actor]
  /\ Done(t)
  /\ UNCHANGED session

\* the password, of which nothing is kept here, and the address, which may be
\* somebody else's: the role stays what it is now,
SetEmail(t) ==
  /\ At(t, "email") \/ At(t, "link")
  /\ LET j == job[t]
         taken == \E m \in Names \ {j.target} :
                    Exists(user, m) /\ user[m].email = j.email /\ j.email # NoEmail
     IN IF taken \/ ~Exists(Promoted, j.target)
          THEN user' = Promoted /\ Done(t)
          ELSE /\ user' = [Promoted EXCEPT ![j.target].email = j.email]
               /\ IF j.pc = "link" THEN Done(t) ELSE Goto(t, "lockout")
  /\ UNCHANGED session

\* the checks of a lockout,
LockoutOK(u, j) ==
  /\ j.actor # j.target
  /\ u[j.target].role = "superadmin" => Cardinality(Superadmins(u)) > 1
  /\ PortalAdmin(u[j.target].role) => Cardinality(PortalAdmins(u)) > 1

CheckDisabled(t) ==
  /\ At(t, "lockout")
  /\ user' = Promoted
  /\ IF job[t].disabled => LockoutOK(user', job[t])
       THEN Goto(t, "disabled") ELSE Done(t)
  /\ UNCHANGED session

\* and the lockout, with the sessions in the same transaction.
SetDisabled(t) ==
  /\ At(t, "disabled")
  /\ LET n == job[t].target IN
     /\ user' = IF Exists(user, n) THEN [user EXCEPT ![n].disabled = job[t].disabled]
                                   ELSE user
     /\ session' = IF job[t].disabled THEN Without(n) ELSE session
  /\ Done(t)
-----------------------------------------------------------------------------
Init ==
  /\ user = [n \in Names |-> Account("none", FALSE, NoEmail, 0)]
  /\ session = [s \in Sessions |-> Closed]
  /\ job = [t \in Threads |-> Idle]

Ask(t) ==
  \E n \in Names :
    \/ Login(t, n) \/ AskDelete(t, n) \/ Shell(t, n)
    \/ \E role \in Roles :
         \/ AskCreate(t, n, role)
         \/ \E email \in Emails \union {NoEmail}, disabled \in BOOLEAN :
              AskEdit(t, n, role, email, disabled)

Serve(t) ==
  \/ CreateSession(t) \/ Create(t) \/ Delete(t)
  \/ CheckRole(t) \/ SetRole(t) \/ SetEmail(t) \/ CheckDisabled(t) \/ SetDisabled(t)

Next ==
  \/ \E t \in Threads : Ask(t) \/ Serve(t)
  \/ \E s \in Sessions : Close(s)

Spec == Init /\ [][Next]_vars
-----------------------------------------------------------------------------
(* Properties                                                              *)

Row == [role : Roles \union {"none"}, disabled : BOOLEAN,
        email : Emails \union {NoEmail}, gen : 0 .. MaxGen]
Request ==
  [pc : {"idle", "session", "create", "delete", "demote", "role", "email", "link",
         "lockout", "disabled"},
   actor : Names \union {NoName}, rank : Roles, target : Names \union {NoName},
   role : Roles, email : Emails \union {NoEmail}, disabled : BOOLEAN, gen : 0 .. MaxGen]

TypeOK ==
  /\ user \in [Names -> Row]
  /\ session \in [Sessions -> [user : Names \union {NoName}, gen : 0 .. MaxGen]]
  /\ job \in [Threads -> Request]

\* "cannot demote the last active superadmin", "cannot disable the last active
\* superadmin" (update_user): whatever sequence of edits is made, somebody can
\* still assign every role, unless an account is deleted.
SuperadminRemains ==
  [][Superadmins(user) # {} /\ Superadmins(user)' = {}
       => \E n \in Names : Exists(user, n) /\ ~Exists(user', n)]_vars

\* Every open session belongs to the account that logged in: it ends when that
\* account is disabled or deleted and is not there for a later account of the
\* same name (delete_user, update_user).
SessionsCurrent ==
  \A s \in Sessions : session[s] # Closed =>
    LET n == session[s].user IN Active(user, n) /\ user[n].gen = session[s].gen

\* "only superadmin can assign the superadmin role" (_assert_assignable_role),
\* or take it away: an edit through the page and then the fields of update_user
\* do not let an admin change who is superadmin.  init_db promotes Legacy.
RolesByRank ==
  [][\A n \in Names :
       /\ Exists(user, n) /\ Exists(user', n)
       /\ (user[n].role = "superadmin") # (user'[n].role = "superadmin")
       => \/ n = Legacy /\ user'[n].role = "superadmin"
          \/ \E t \in Threads : At(t, "role") /\ job[t].rank = "superadmin"]_vars
=============================================================================
