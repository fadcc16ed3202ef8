----------------------------- MODULE AuthProofs -----------------------------
(***************************************************************************)
(* Proofs about Accounts, for any number of names, addresses, sessions and *)
(* threads:                                                                *)
(*                                                                         *)
(*   TypeCorrect  every variable keeps its type;                           *)
(*   SessionsAreCurrent, SuperadminStays, RolesNeedRank                    *)
(*                as long as requests do not overlap, sessions are         *)
(*                current, a superadmin remains and only a superadmin      *)
(*                makes or unmakes one;                                    *)
(*                                                                         *)
(* and what McpIdentityProofs proves, for the instance that Auth checks:   *)
(*                                                                         *)
(*   TokensLapse, AdminsAreAdmins, OwnersPropose.                          *)
(***************************************************************************)
EXTENDS Auth, FiniteSetTheorems, TLAPS

(* Types                                                                   *)

\* A request is about a name.
Addressed == \A t \in Threads : ~At(t, "idle") => job[t].target \in Names

\* Room was left for the accounts about to be created.
Bounded == \A n \in Names : user[n].gen + Cardinality(Creating(n)) <= MaxGen

TypeInv == TypeOK /\ Addressed /\ Bounded

\* init_db keeps the rows and counts no account.
LEMMA PromotedType ==
  ASSUME TypeOK
  PROVE  /\ Promoted \in [Names -> Row]
         /\ \A n \in Names : /\ Promoted[n].gen = user[n].gen
                             /\ Promoted[n].disabled = user[n].disabled
                             /\ Promoted[n].email = user[n].email
                             /\ Promoted[n].role = IF n = Legacy /\ user[n].role = "admin"
                                                     THEN "superadmin" ELSE user[n].role
<1>1. ASSUME NEW n \in Names
      PROVE  [user[n] EXCEPT !.role = "superadmin"] \in Row
  BY <1>1 DEF TypeOK, Row, Roles
<1> QED BY <1>1 DEF TypeOK, Promoted, Row

LEMMA CreatingType ==
  ASSUME NEW n \in Names
  PROVE  IsFiniteSet(Creating(n)) /\ Cardinality(Creating(n)) \in Nat
<1>1. Creating(n) \in SUBSET Threads
  BY DEF Creating
<1>2. IsFiniteSet(Creating(n))
  BY <1>1, ConstantsOK, FS_Subset
<1> QED BY <1>2, FS_CardinalityType

LEMMA GotoType ==
  ASSUME TypeOK, NEW t \in Threads,
         NEW pc \in {"role", "email", "lockout", "disabled"}, Goto(t, pc)
  PROVE  /\ job' = [job EXCEPT ![t] = [job[t] EXCEPT !.pc = pc]]
         /\ [job[t] EXCEPT !.pc = pc] \in Request
         /\ [job[t] EXCEPT !.pc = pc].pc = pc
         /\ [job[t] EXCEPT !.pc = pc].target = job[t].target
BY DEF TypeOK, Goto, Request

\* A thread that begins or ends no creation keeps the types and the bound, if
\* no account is created.
LEMMA StepType ==
  ASSUME TypeInv, NEW t \in Threads, NEW j \in Request,
         job' = [job EXCEPT ![t] = j],
         job[t].pc # "create", j.pc # "create",
         j.pc # "idle" => j.target \in Names,
         user' \in [Names -> Row],
         \A n \in Names : user'[n].gen = user[n].gen,
         session' \in [Sessions -> [user : Names \union {NoName}, gen : 0 .. MaxGen]]
  PROVE  TypeInv'
<1>1. job \in [Threads -> Request]
  BY DEF TypeInv, TypeOK
<1>2. TypeOK'
  BY <1>1 DEF TypeOK
<1>3. Addressed'
  BY <1>1 DEF TypeInv, Addressed, At
<1>4. ASSUME NEW n \in Names
      PROVE  Creating(n)' = Creating(n)
  BY <1>1 DEF Creating, At
<1>5. Bounded'
  BY <1>4 DEF TypeInv, Bounded
<1> QED BY <1>2, <1>3, <1>5 DEF TypeInv

LEMMA IdleType == Idle \in Request /\ Idle.pc = "idle"
BY ConstantsOK DEF Idle, Job, Request, Roles

LEMMA TypeInit == ASSUME Init PROVE TypeInv
<1>1. TypeOK
  <2>1. Account("none", FALSE, NoEmail, 0) \in Row
    BY ConstantsOK DEF Account, Row
  <2>2. Closed \in [user : Names \union {NoName}, gen : 0 .. MaxGen]
    BY ConstantsOK DEF Closed
  <2> QED BY <2>1, <2>2, IdleType DEF Init, TypeOK
<1>2. Addressed
  BY IdleType DEF Init, Addressed, At
<1>3. ASSUME NEW n \in Names
      PROVE  user[n].gen + Cardinality(Creating(n)) <= MaxGen
  <2>1. Creating(n) = {}
    BY IdleType DEF Init, Creating, At
  <2>2. user[n].gen = 0
    BY DEF Init, Account
  <2> QED BY <2>1, <2>2, FS_EmptySet, ConstantsOK
<1> QED BY <1>1, <1>2, <1>3 DEF TypeInv, Bounded

\* A thread that is about to create an account takes one of the places left.
LEMMA BeginCreateType ==
  ASSUME TypeInv, NEW t \in Threads, NEW n \in Names, Room(n), At(t, "idle"),
         NEW j \in Request, j.pc = "create", j.target = n,
         job' = [job EXCEPT ![t] = j], user' = Promoted, UNCHANGED session
  PROVE  TypeInv'
<1>1. job \in [Threads -> Request]
  BY DEF TypeInv, TypeOK
<1>2. TypeOK'
  BY <1>1, PromotedType DEF TypeInv, TypeOK
<1>3. Addressed'
  BY <1>1 DEF TypeInv, Addressed, At
<1>4. ASSUME NEW m \in Names
      PROVE  user'[m].gen + Cardinality(Creating(m)') <= MaxGen
  <2>1. user'[m].gen = user[m].gen /\ user[m].gen \in Nat /\ MaxGen \in Nat
    BY PromotedType, ConstantsOK DEF TypeInv, TypeOK, Row
  <2>2. CASE m = n
    <3>1. Creating(n)' = Creating(n) \union {t} /\ t \notin Creating(n)
      BY <1>1 DEF Creating, At
    <3>2. Cardinality(Creating(n)') = Cardinality(Creating(n)) + 1
      BY <3>1, CreatingType, FS_AddElement
    <3> QED BY <2>1, <2>2, <3>2, CreatingType DEF Room
  <2>3. CASE m # n
    <3>1. Creating(m)' = Creating(m)
      BY <1>1, <2>3 DEF Creating, At
    <3> QED BY <2>1, <3>1 DEF TypeInv, Bounded
  <2> QED BY <2>2, <2>3
<1> QED BY <1>2, <1>3, <1>4 DEF TypeInv, Bounded

\* The end of a creation gives the place back or uses it.
LEMMA CreateType ==
  ASSUME TypeInv, NEW t \in Threads, NEW n \in Names, job[t].target = n, Create(t)
  PROVE  TypeInv'
<1>1. job \in [Threads -> Request] /\ job[t].pc = "create" /\ job[t].role \in Roles
  BY DEF TypeInv, TypeOK, Create, At, Request
<1>2. job' = [job EXCEPT ![t] = Idle]
  BY DEF Create, Done
<1>3. Creating(n)' = Creating(n) \ {t} /\ t \in Creating(n)
  BY <1>1, <1>2, IdleType DEF Creating, At, Create
<1>4. Cardinality(Creating(n)') = Cardinality(Creating(n)) - 1
  BY <1>1, <1>3, CreatingType, FS_RemoveElement, ZenonT(30)
<1>5. /\ user[n].gen \in Nat /\ MaxGen \in Nat
      /\ user[n].gen + Cardinality(Creating(n)) <= MaxGen
  BY <1>1, ConstantsOK DEF TypeInv, TypeOK, Row, Bounded
<1>6. Cardinality(Creating(n)) >= 1
  BY <1>1, <1>3, CreatingType, FS_EmptySet
<1>7. user[n].gen + 1 \in 0 .. MaxGen
  BY <1>1, <1>5, <1>6, CreatingType
<1>8. Account(job[t].role, FALSE, NoEmail, user[n].gen + 1) \in Row
  BY <1>1, <1>7 DEF Account, Row
<1>9. /\ user' \in [Names -> Row]
      /\ user'[n].gen \in {user[n].gen, user[n].gen + 1}
      /\ \A m \in Names \ {n} : user'[m].gen = user[m].gen
  <2>1. CASE user' = Promoted
    BY <1>1, <2>1, PromotedType DEF TypeInv
  <2>2. CASE user' = [Promoted EXCEPT ![n] = Account(job[t].role, FALSE, NoEmail, @.gen + 1)]
    <3>1. user' = [Promoted EXCEPT ![n] = Account(job[t].role, FALSE, NoEmail, user[n].gen + 1)]
      BY <1>1, <2>2, PromotedType DEF TypeInv
    <3>2. Account(job[t].role, FALSE, NoEmail, user[n].gen + 1).gen = user[n].gen + 1
      BY DEF Account
    <3> QED BY <1>1, <1>8, <3>1, <3>2, PromotedType DEF TypeInv
  <2> QED BY <2>1, <2>2 DEF Create
<1>10. TypeOK'
  BY <1>1, <1>2, <1>9, IdleType DEF TypeInv, TypeOK, Create
<1>11. Addressed'
  BY <1>1, <1>2, IdleType DEF TypeInv, Addressed, At
<1>12. ASSUME NEW m \in Names
       PROVE  user'[m].gen + Cardinality(Creating(m)') <= MaxGen
  <2>1. CASE m = n
    BY <1>1, <1>4, <1>5, <1>9, <2>1, CreatingType
  <2>2. CASE m # n
    <3>1. Creating(m)' = Creating(m)
      BY <1>1, <1>2, <2>2, IdleType DEF Creating, At
    <3> QED BY <1>9, <2>2, <3>1 DEF TypeInv, Bounded
  <2> QED BY <2>1, <2>2
<1> QED BY <1>10, <1>11, <1>12 DEF TypeInv, Bounded

\* A request begins.
LEMMA BeginType ==
  ASSUME TypeInv, NEW t \in Threads, NEW j \in Request, Begin(t, j),
         j.pc # "idle", j.target \in Names, j.pc = "create" => Room(j.target),
         user' = Promoted, UNCHANGED session
  PROVE  TypeInv'
<1>1. job' = [job EXCEPT ![t] = j] /\ At(t, "idle") /\ job[t].pc = "idle"
  BY DEF Begin, At
<1>2. CASE j.pc = "create"
  BY <1>1, <1>2, BeginCreateType
<1>3. CASE j.pc # "create"
  <2>1. /\ user' \in [Names -> Row]
        /\ \A n \in Names : user'[n].gen = user[n].gen
    BY PromotedType DEF TypeInv
  <2>2. session' \in [Sessions -> [user : Names \union {NoName}, gen : 0 .. MaxGen]]
    BY DEF TypeInv, TypeOK
  <2> QED BY <1>1, <1>3, <2>1, <2>2, StepType
<1> QED BY <1>2, <1>3

\* Who is admitted has a rank.
LEMMA AdmittedType ==
  ASSUME TypeOK, NEW s \in Sessions, Admitted(Promoted, s)
  PROVE  /\ session[s].user \in Names
         /\ Promoted[session[s].user].role \in Roles
BY PromotedType DEF Admitted, Active, Exists, Row

LEMMA AskType ==
  ASSUME TypeInv, NEW t \in Threads, Ask(t)
  PROVE  TypeInv'
<1>1. PICK n \in Names :
        \/ Login(t, n) \/ AskDelete(t, n) \/ Shell(t, n)
        \/ \E role \in Roles :
             \/ AskCreate(t, n, role)
             \/ \E email \in Emails \union {NoEmail}, disabled \in BOOLEAN :
                  AskEdit(t, n, role, email, disabled)
  BY DEF Ask
<1>2. user' = Promoted /\ UNCHANGED session
  BY <1>1 DEF Login, AskDelete, Shell, AskCreate, AskEdit
<1>3. ASSUME NEW s \in Sessions, Admitted(user', s)
      PROVE  /\ session[s].user \in Names
             /\ user'[session[s].user].role \in Roles
  BY <1>2, <1>3, AdmittedType DEF TypeInv
<1>4. 0 \in 0 .. MaxGen
  BY ConstantsOK
<1> DEFINE Starts(pc, j) == j \in Request /\ j.pc = pc /\ j.target = n
<1>5. CASE Login(t, n)
  <2> DEFINE j == Job("session", n, "operator", n, "operator", NoEmail, FALSE, user'[n].gen)
  <2>1. user'[n].gen \in 0 .. MaxGen
    BY <1>2, PromotedType DEF Row, TypeInv
  <2>2. Starts("session", j)
    BY <2>1 DEF Job, Request, Roles
  <2>3. Begin(t, j)
    BY <1>5 DEF Login
  <2> HIDE DEF j
  <2> QED BY <1>2, <2>2, <2>3, BeginType
<1>6. CASE AskDelete(t, n)
  <2>1. PICK s \in Sessions :
          /\ Admitted(user', s)
          /\ Begin(t, Job("delete", session[s].user, user'[session[s].user].role, n,
                          "operator", NoEmail, FALSE, 0))
    BY <1>6 DEF AskDelete
  <2> DEFINE j == Job("delete", session[s].user, user'[session[s].user].role, n,
                      "operator", NoEmail, FALSE, 0)
  <2>2. Starts("delete", j)
    BY <1>3, <1>4, <2>1 DEF Job, Request, Roles
  <2>3. Begin(t, j)
    BY <2>1
  <2> HIDE DEF j
  <2> QED BY <1>2, <2>2, <2>3, BeginType
<1>7. CASE Shell(t, n)
  <2>1. ASSUME NEW role \in Roles, Room(n),
               Begin(t, Job("create", NoName, "superadmin", n, role, NoEmail, FALSE, 0))
        PROVE  TypeInv'
    <3> DEFINE j == Job("create", NoName, "superadmin", n, role, NoEmail, FALSE, 0)
    <3>1. Starts("create", j)
      BY <1>4 DEF Job, Request, Roles
    <3>2. Begin(t, j)
      BY <2>1
    <3> HIDE DEF j
    <3> QED BY <1>2, <2>1, <3>1, <3>2, BeginType
  <2>2. ASSUME Begin(t, Job("delete", NoName, "superadmin", n, "operator", NoEmail, FALSE, 0))
        PROVE  TypeInv'
    <3> DEFINE j == Job("delete", NoName, "superadmin", n, "operator", NoEmail, FALSE, 0)
    <3>1. Starts("delete", j)
      BY <1>4 DEF Job, Request, Roles
    <3>2. Begin(t, j)
      BY <2>2
    <3> HIDE DEF j
    <3> QED BY <1>2, <3>1, <3>2, BeginType
  <2>3. ASSUME NEW email \in Emails \union {NoEmail},
               Begin(t, Job("link", NoName, "superadmin", n, "operator", email, FALSE, 0))
        PROVE  TypeInv'
    <3> DEFINE j == Job("link", NoName, "superadmin", n, "operator", email, FALSE, 0)
    <3>1. Starts("link", j)
      BY <1>4 DEF Job, Request, Roles
    <3>2. Begin(t, j)
      BY <2>3
    <3> HIDE DEF j
    <3> QED BY <1>2, <3>1, <3>2, BeginType
  <2> QED BY <1>7, <2>1, <2>2, <2>3 DEF Shell
<1>8. ASSUME NEW role \in Roles, AskCreate(t, n, role)
      PROVE  TypeInv'
  <2>1. PICK s \in Sessions :
          /\ Admitted(user', s)
          /\ Begin(t, Job("create", session[s].user, user'[session[s].user].role, n,
                          role, NoEmail, FALSE, 0))
    BY <1>8 DEF AskCreate
  <2> DEFINE j == Job("create", session[s].user, user'[session[s].user].role, n,
                      role, NoEmail, FALSE, 0)
  <2>2. Starts("create", j)
    BY <1>3, <1>4, <2>1 DEF Job, Request, Roles
  <2>3. Begin(t, j) /\ Room(n)
    BY <1>8, <2>1 DEF AskCreate
  <2> HIDE DEF j
  <2> QED BY <1>2, <2>2, <2>3, BeginType
<1>9. ASSUME NEW asked \in Roles, NEW email \in Emails \union {NoEmail},
             NEW disabled \in BOOLEAN, AskEdit(t, n, asked, email, disabled)
      PROVE  TypeInv'
  <2>1. PICK s \in Sessions, role \in {"superadmin", asked} :
          /\ Admitted(user', s)
          /\ Begin(t, Job("demote", session[s].user, user'[session[s].user].role, n,
                          role, email, disabled, 0))
    BY <1>9 DEF AskEdit
  <2> DEFINE j == Job("demote", session[s].user, user'[session[s].user].role, n,
                      role, email, disabled, 0)
  <2>2. Starts("demote", j)
    BY <1>3, <1>4, <2>1 DEF Job, Request, Roles
  <2>3. Begin(t, j)
    BY <2>1
  <2> HIDE DEF j
  <2> QED BY <1>2, <2>2, <2>3, BeginType
<1> QED BY <1>1, <1>5, <1>6, <1>7, <1>8, <1>9

\* A step of a request that creates no account.
LEMMA NextStepType ==
  ASSUME TypeInv, NEW t \in Threads,
         job[t].pc # "create", job[t].target \in Names,
         \/ Done(t)
         \/ \E pc \in {"role", "email", "lockout", "disabled"} : Goto(t, pc),
         user' \in [Names -> Row],
         \A n \in Names : user'[n].gen = user[n].gen,
         session' \in [Sessions -> [user : Names \union {NoName}, gen : 0 .. MaxGen]]
  PROVE  TypeInv'
<1>1. CASE Done(t)
  BY <1>1, IdleType, StepType DEF Done
<1>2. ASSUME NEW pc \in {"role", "email", "lockout", "disabled"}, Goto(t, pc)
      PROVE  TypeInv'
  <2> DEFINE j == [job[t] EXCEPT !.pc = pc]
  <2>1. j \in Request /\ j.pc = pc /\ j.target = job[t].target /\ job' = [job EXCEPT ![t] = j]
    BY <1>2, GotoType DEF TypeInv
  <2> HIDE DEF j
  <2> QED BY <2>1, StepType
<1> QED BY <1>1, <1>2

SessionType == [user : Names \union {NoName}, gen : 0 .. MaxGen]

LEMMA WithoutType ==
  ASSUME TypeOK, NEW n \in Names
  PROVE  Without(n) \in [Sessions -> SessionType]
<1>1. Closed \in SessionType
  BY ConstantsOK DEF Closed, SessionType
<1> QED BY <1>1 DEF TypeOK, Without, SessionType

LEMMA ServeType ==
  ASSUME TypeInv, NEW t \in Threads, Serve(t)
  PROVE  TypeInv'
<1>1. job[t] \in Request /\ user \in [Names -> Row] /\ session \in [Sessions -> SessionType]
  BY DEF TypeInv, TypeOK, SessionType
<1>2. ~At(t, "idle")
  BY DEF Serve, At, CreateSession, Create, Delete, CheckRole, SetRole, SetEmail,
         CheckDisabled, SetDisabled
<1>3. PICK n \in Names : n = job[t].target
  BY <1>2 DEF TypeInv, Addressed
<1>4. /\ job[t].role \in Roles /\ job[t].email \in Emails \union {NoEmail}
      /\ job[t].disabled \in BOOLEAN /\ job[t].gen \in 0 .. MaxGen
  BY <1>1 DEF Request
<1>5. /\ Promoted \in [Names -> Row]
      /\ \A m \in Names : Promoted[m].gen = user[m].gen
  BY PromotedType DEF TypeInv
<1> DEFINE Users == /\ user' \in [Names -> Row]
                    /\ \A m \in Names : user'[m].gen = user[m].gen
<1>6. CASE CreateSession(t)
  <2>1. PICK s \in Sessions :
          session' = [session EXCEPT ![s] = [user |-> n, gen |-> job[t].gen]]
    BY <1>3, <1>6 DEF CreateSession
  <2>2. session' \in [Sessions -> SessionType]
    BY <1>1, <1>4, <2>1 DEF SessionType
  <2> QED BY <1>1, <1>3, <1>6, <2>2, NextStepType DEF CreateSession, At, SessionType
<1>7. CASE Create(t)
  BY <1>3, <1>7, CreateType
<1>8. CASE Delete(t)
  <2>1. user' = [user EXCEPT ![n] = Account("none", FALSE, NoEmail, @.gen)] /\ session' = Without(n)
    BY <1>3, <1>8 DEF Delete
  <2>2. Users
    BY <1>1, <2>1 DEF Row, Account
  <2>3. session' \in [Sessions -> SessionType]
    BY <2>1, WithoutType DEF TypeInv
  <2> QED BY <1>3, <1>8, <2>2, <2>3, NextStepType DEF Delete, At, SessionType
<1>9. CASE CheckRole(t)
  <2>1. Done(t) \/ Goto(t, "role")
    BY <1>9 DEF CheckRole
  <2>2. Users
    BY <1>5, <1>9 DEF CheckRole
  <2> QED BY <1>1, <1>3, <1>9, <2>1, <2>2, NextStepType DEF CheckRole, At, SessionType
<1>10. CASE SetRole(t)
  <2>1. PICK role \in Roles : user' = [user EXCEPT ![n].role = role] \/ user' = user
    BY <1>3, <1>4, <1>10 DEF SetRole
  <2>2. Users
    BY <1>1, <2>1 DEF Row
  <2> QED BY <1>1, <1>3, <1>10, <2>2, NextStepType DEF SetRole, At, SessionType
<1>11. CASE SetEmail(t)
  <2>1. PICK email \in Emails \union {NoEmail} :
          user' = Promoted \/ user' = [Promoted EXCEPT ![n].email = email]
    BY <1>3, <1>4, <1>11 DEF SetEmail
  <2>2. Users
    BY <1>5, <2>1 DEF Row
  <2>3. Done(t) \/ Goto(t, "lockout")
    BY <1>11 DEF SetEmail
  <2> QED BY <1>1, <1>3, <1>11, <2>2, <2>3, NextStepType DEF SetEmail, At, SessionType
<1>12. CASE CheckDisabled(t)
  <2>1. Done(t) \/ Goto(t, "disabled")
    BY <1>12 DEF CheckDisabled
  <2>2. Users
    BY <1>5, <1>12 DEF CheckDisabled
  <2> QED BY <1>1, <1>3, <1>12, <2>1, <2>2, NextStepType DEF CheckDisabled, At, SessionType
<1>13. CASE SetDisabled(t)
  <2>1. PICK disabled \in BOOLEAN :
          user' = [user EXCEPT ![n].disabled = disabled] \/ user' = user
    BY <1>3, <1>4, <1>13 DEF SetDisabled
  <2>2. Users
    BY <1>1, <2>1 DEF Row
  <2>3. session' \in [Sessions -> SessionType]
    BY <1>1, <1>3, <1>13, WithoutType DEF SetDisabled, TypeInv
  <2> QED BY <1>3, <1>13, <2>2, <2>3, NextStepType DEF SetDisabled, At, SessionType
<1> QED BY <1>6, <1>7, <1>8, <1>9, <1>10, <1>11, <1>12, <1>13 DEF Serve

LEMMA TypeStep == ASSUME TypeInv, [Next]_vars PROVE TypeInv'
<1>1. CASE UNCHANGED vars
  BY <1>1 DEF vars, TypeInv, TypeOK, Addressed, Bounded, Creating, At
<1>2. ASSUME NEW s \in Sessions, Close(s)
      PROVE  TypeInv'
  <2>1. Closed \in SessionType
    BY ConstantsOK DEF Closed, SessionType
  <2>2. TypeOK'
    BY <1>2, <2>1 DEF TypeInv, TypeOK, Close, SessionType
  <2> QED BY <1>2, <2>2 DEF Close, TypeInv, Addressed, Bounded, Creating, At
<1> QED BY <1>1, <1>2, AskType, ServeType DEF Next

\* The accounts, sessions and requests of claw-auth always have their types; in
\* particular every row has one of the three roles (_norm_role), and a session
\* or a change is only made for a name.
THEOREM TypeCorrect == Spec => []TypeOK
<1>1. Init => TypeInv
  BY TypeInit
<1>2. TypeInv /\ [Next]_vars => TypeInv'
  BY TypeStep
<1>3. TypeInv => TypeOK
  BY DEF TypeInv
<1> QED BY <1>1, <1>2, <1>3, PTL DEF Spec
-----------------------------------------------------------------------------
(* One request at a time                                                   *)

OneAtATime == \A t, u \in Threads : t = u

\* init_db has nothing left to promote.
Migrated == \A n \in Names : n = Legacy => user[n].role # "admin"

\* What the request at work has checked is still so: the user who logs in is
\* there, and the change it is about to make may be made.
Checked(t) ==
  LET j == job[t]
      n == job[t].target
  IN /\ At(t, "session") => Active(user, n) /\ user[n].gen = j.gen
     /\ At(t, "demote") \/ At(t, "role") =>
          /\ Migrated
          /\ j.rank # "superadmin" =>
               (j.role = "superadmin" <=> user[n].role = "superadmin")
     /\ At(t, "role") => Exists(user, n) /\ DemotionOK(user, j)
     /\ At(t, "disabled") /\ j.disabled => LockoutOK(user, j)

\* An open session is somebody's.
Owned == \A s \in Sessions : session[s] # Closed => session[s].user \in Names

SerialInv ==
  TypeInv /\ Owned /\ SessionsCurrent /\ \A t \in Threads : Checked(t)

LEMMA MigratedPromoted ==
  ASSUME TypeInv, user' = Promoted
  PROVE  /\ Migrated'
         /\ Migrated => user' = user
<1>1. \A n \in Names : Promoted[n].role = IF n = Legacy /\ user[n].role = "admin"
                                            THEN "superadmin" ELSE user[n].role
  BY PromotedType DEF TypeInv
<1>2. Migrated'
  BY <1>1 DEF Migrated
<1>3. ASSUME Migrated PROVE Promoted = user
  <2>1. \A n \in Names : Promoted[n] = user[n]
    BY <1>3 DEF Migrated, Promoted
  <2> QED BY <2>1, PromotedType DEF TypeInv, TypeOK
<1> QED BY <1>2, <1>3

\* init_db neither disables nor deletes anybody.
LEMMA PromotedActive ==
  ASSUME TypeInv, NEW n \in Names
  PROVE  /\ Exists(Promoted, n) <=> Exists(user, n)
         /\ Active(Promoted, n) <=> Active(user, n)
         /\ Promoted[n].gen = user[n].gen
         /\ user[n].role = "superadmin" => Promoted[n].role = "superadmin"
<1>1. /\ Promoted[n].role = IF n = Legacy /\ user[n].role = "admin"
                              THEN "superadmin" ELSE user[n].role
      /\ Promoted[n].disabled = user[n].disabled
      /\ Promoted[n].gen = user[n].gen
  BY PromotedType DEF TypeInv
<1> QED BY <1>1 DEF Exists, Active

\* With one thread, what is to be checked after a step is what it checked.
LEMMA OnlyOne ==
  ASSUME OneAtATime, NEW t \in Threads, Checked(t)'
  PROVE  \A u \in Threads : Checked(u)'
BY DEF OneAtATime

LEMMA SerialInit == ASSUME Init PROVE SerialInv
<1>1. TypeInv
  BY TypeInit
<1>2. Owned /\ SessionsCurrent
  BY DEF Init, Owned, SessionsCurrent
<1>3. \A t \in Threads : Checked(t)
  BY IdleType DEF Init, Checked, At
<1> QED BY <1>1, <1>2, <1>3 DEF SerialInv

\* A step that ends its request leaves nothing checked.
LEMMA DoneChecked ==
  ASSUME TypeInv, NEW t \in Threads, Done(t)
  PROVE  Checked(t)'
<1>1. job'[t].pc = "idle"
  BY IdleType DEF TypeInv, TypeOK, Done
<1> QED BY <1>1 DEF Checked, At

\* Sessions stay current while nobody is disabled or deleted.
LEMMA SessionsKept ==
  ASSUME SerialInv, UNCHANGED session,
         \A n \in Names : Active(user, n) => Active(user', n) /\ user'[n].gen = user[n].gen
  PROVE  Owned' /\ SessionsCurrent'
BY DEF SerialInv, Owned, SessionsCurrent

\* The sessions of one name may go.
LEMMA SessionsWithout ==
  ASSUME SerialInv, NEW n \in Names, session' = Without(n),
         \A m \in Names \ {n} : Active(user, m) => Active(user', m) /\ user'[m].gen = user[m].gen
  PROVE  Owned' /\ SessionsCurrent'
<1>1. ASSUME NEW s \in Sessions, session'[s] # Closed
      PROVE  session'[s] = session[s] /\ session[s].user # n
  BY <1>1 DEF Without
<1> QED BY <1>1 DEF SerialInv, Owned, SessionsCurrent

LEMMA AskSerial ==
  ASSUME SerialInv, NEW t \in Threads, Ask(t)
  PROVE  Owned' /\ SessionsCurrent' /\ Checked(t)'
<1>1. PICK n \in Names :
        \/ Login(t, n) \/ AskDelete(t, n) \/ Shell(t, n)
        \/ \E role \in Roles :
             \/ AskCreate(t, n, role)
             \/ \E email \in Emails \union {NoEmail}, disabled \in BOOLEAN :
                  AskEdit(t, n, role, email, disabled)
  BY DEF Ask
<1>2. user' = Promoted /\ UNCHANGED session
  BY <1>1 DEF Login, AskDelete, Shell, AskCreate, AskEdit
<1>3. Owned' /\ SessionsCurrent'
  <2>1. \A m \in Names : Active(user, m) => Active(user', m) /\ user'[m].gen = user[m].gen
    BY <1>2, PromotedActive DEF SerialInv
  <2> QED BY <1>2, <2>1, SessionsKept
<1>4. Migrated'
  BY <1>2, MigratedPromoted DEF SerialInv
<1>5. \A j : Begin(t, j) => job'[t] = j
  BY DEF Begin, SerialInv, TypeInv, TypeOK
<1>6. CASE Login(t, n)
  <2>1. job'[t] = Job("session", n, "operator", n, "operator", NoEmail, FALSE, user'[n].gen)
    BY <1>5, <1>6 DEF Login
  <2>2. job'[t].pc = "session" /\ job'[t].target = n /\ job'[t].gen = user'[n].gen
    BY <2>1 DEF Job
  <2>3. Active(user', n)
    BY <1>6 DEF Login
  <2> QED BY <1>3, <2>2, <2>3 DEF Checked, At
<1>7. ASSUME job'[t].pc \in {"create", "delete", "link"}
      PROVE  Checked(t)'
  BY <1>7 DEF Checked, At
<1>8. CASE AskDelete(t, n) \/ Shell(t, n) \/ \E role \in Roles : AskCreate(t, n, role)
  <2>1. CASE AskDelete(t, n)
    <3>1. PICK actor, rank :
            job'[t] = Job("delete", actor, rank, n, "operator", NoEmail, FALSE, 0)
      BY <1>5, <2>1 DEF AskDelete
    <3>2. job'[t].pc = "delete"
      BY <3>1 DEF Job
    <3> QED BY <1>3, <1>7, <3>2
  <2>2. CASE Shell(t, n)
    <3>1. CASE \E role \in Roles :
                 job'[t] = Job("create", NoName, "superadmin", n, role, NoEmail, FALSE, 0)
      BY <1>3, <1>7, <3>1 DEF Job
    <3>2. CASE job'[t] = Job("delete", NoName, "superadmin", n, "operator", NoEmail, FALSE, 0)
      BY <1>3, <1>7, <3>2 DEF Job
    <3>3. CASE \E email \in Emails \union {NoEmail} :
                 job'[t] = Job("link", NoName, "superadmin", n, "operator", email, FALSE, 0)
      BY <1>3, <1>7, <3>3 DEF Job
    <3> QED BY <1>5, <2>2, <3>1, <3>2, <3>3 DEF Shell
  <2>3. ASSUME NEW role \in Roles, AskCreate(t, n, role)
        PROVE  Checked(t)'
    <3>1. PICK actor, rank :
            job'[t] = Job("create", actor, rank, n, role, NoEmail, FALSE, 0)
      BY <1>5, <2>3 DEF AskCreate
    <3> QED BY <1>3, <1>7, <3>1 DEF Job
  <2> QED BY <1>3, <1>8, <2>1, <2>2, <2>3
<1>9. ASSUME NEW asked \in Roles, NEW email \in Emails \union {NoEmail},
             NEW disabled \in BOOLEAN, AskEdit(t, n, asked, email, disabled)
      PROVE  Checked(t)'
  <2>1. PICK rank, role, actor, d :
          /\ Assignable(rank, role)
          /\ rank # "superadmin" /\ user'[n].role = "superadmin" => role = "superadmin"
          /\ rank = "superadmin" \/ user'[n].role # "superadmin" => role = asked
          /\ Begin(t, Job("demote", actor, rank, n, role, email, d, 0))
    BY <1>9 DEF AskEdit
  <2>2. rank # "superadmin" => (role = "superadmin" <=> user'[n].role = "superadmin")
    BY <2>1 DEF Assignable
  <2>3. job'[t] = Job("demote", actor, rank, n, role, email, d, 0)
    BY <1>5, <2>1
  <2>4. /\ job'[t].pc = "demote" /\ job'[t].target = n
        /\ job'[t].rank = rank /\ job'[t].role = role
    BY <2>3 DEF Job
  <2> QED BY <1>4, <2>2, <2>4 DEF Checked, At
<1> QED BY <1>1, <1>3, <1>6, <1>8, <1>9

LEMMA GotoFields ==
  ASSUME TypeInv, NEW t \in Threads, NEW pc, Goto(t, pc)
  PROVE  /\ job'[t].pc = pc /\ job'[t].target = job[t].target
         /\ job'[t].actor = job[t].actor /\ job'[t].rank = job[t].rank
         /\ job'[t].role = job[t].role /\ job'[t].disabled = job[t].disabled
BY DEF TypeInv, TypeOK, Goto, Request

\* A request of which nothing is to be remembered.
LEMMA NothingChecked ==
  ASSUME NEW t \in Threads, job'[t].pc \in {"email", "lockout"}
  PROVE  Checked(t)'
BY DEF Checked, At

LEMMA ServeSerial ==
  ASSUME SerialInv, NEW t \in Threads, Serve(t)
  PROVE  Owned' /\ SessionsCurrent' /\ Checked(t)'
<1>1. /\ TypeInv /\ Checked(t) /\ job[t] \in Request
      /\ user \in [Names -> Row] /\ session \in [Sessions -> SessionType]
  BY DEF SerialInv, TypeInv, TypeOK, SessionType
<1>2. ~At(t, "idle")
  BY DEF Serve, At, CreateSession, Create, Delete, CheckRole, SetRole, SetEmail,
         CheckDisabled, SetDisabled
<1>3. PICK n \in Names : n = job[t].target
  BY <1>1, <1>2 DEF TypeInv, Addressed
<1>4. \A m \in Names : Active(Promoted, m) <=> Active(user, m)
  BY <1>1, PromotedActive
<1>5. \A m \in Names : Promoted[m].gen = user[m].gen
  BY <1>1, PromotedActive
<1>6. Promoted \in [Names -> Row]
  BY <1>1, PromotedType DEF TypeInv
<1>7. ASSUME user' = Promoted, UNCHANGED session
      PROVE  Owned' /\ SessionsCurrent'
  BY <1>4, <1>5, <1>7, SessionsKept
<1>8. CASE CreateSession(t)
  <2>1. PICK s \in Sessions :
          session' = [session EXCEPT ![s] = [user |-> n, gen |-> job[t].gen]]
    BY <1>3, <1>8 DEF CreateSession
  <2>2. Active(user, n) /\ user[n].gen = job[t].gen
    BY <1>1, <1>3, <1>8 DEF Checked, CreateSession
  <2>3. session'[s].user = n /\ session'[s].gen = job[t].gen
    BY <1>1, <2>1
  <2>4. \A r \in Sessions \ {s} : session'[r] = session[r]
    BY <1>1, <2>1
  <2>5. user' = user
    BY <1>8 DEF CreateSession
  <2>6. Owned' /\ SessionsCurrent'
    BY <2>2, <2>3, <2>4, <2>5 DEF SerialInv, Owned, SessionsCurrent
  <2> QED BY <1>1, <1>8, <2>6, DoneChecked DEF CreateSession
<1>9. CASE Create(t)
  <2>1. CASE user' = Promoted
    BY <1>1, <1>7, <1>9, <2>1, DoneChecked DEF Create
  <2>2. CASE /\ ~Exists(Promoted, n)
             /\ user' = [Promoted EXCEPT ![n] = Account(job[t].role, FALSE, NoEmail, @.gen + 1)]
    <3>1. \A m \in Names \ {n} : user'[m] = Promoted[m]
      BY <1>6, <2>2
    <3>2. ~Active(user, n)
      BY <1>4, <2>2 DEF Active
    <3>3. \A m \in Names : Active(user, m) => Active(user', m) /\ user'[m].gen = user[m].gen
      BY <1>4, <1>5, <3>1, <3>2 DEF Active, Exists
    <3> QED BY <1>1, <1>9, <3>3, SessionsKept, DoneChecked DEF Create
  <2> QED BY <1>3, <1>9, <2>1, <2>2 DEF Create
<1>10. CASE Delete(t)
  <2>1. /\ user' = [user EXCEPT ![n] = Account("none", FALSE, NoEmail, @.gen)]
        /\ session' = Without(n)
    BY <1>3, <1>10 DEF Delete
  <2>2. \A m \in Names \ {n} : user'[m] = user[m]
    BY <1>1, <2>1
  <2> QED BY <1>1, <1>10, <2>1, <2>2, SessionsWithout, DoneChecked DEF Delete, Active, Exists
<1>11. CASE CheckRole(t)
  <2>1. user' = Promoted /\ UNCHANGED session
    BY <1>11 DEF CheckRole
  <2>2. CASE Done(t)
    BY <1>1, <1>7, <2>1, <2>2, DoneChecked
  <2>3. CASE Goto(t, "role") /\ Exists(user', n) /\ DemotionOK(user', job[t])
    <3>1. /\ job'[t].pc = "role" /\ job'[t].target = n
          /\ job'[t].actor = job[t].actor /\ job'[t].rank = job[t].rank
          /\ job'[t].role = job[t].role
      BY <1>1, <1>3, <2>3, GotoFields
    <3>2. /\ Migrated
          /\ job[t].rank # "superadmin" =>
               (job[t].role = "superadmin" <=> user[n].role = "superadmin")
      BY <1>1, <1>3, <1>11 DEF Checked, CheckRole
    <3>3. user' = user /\ Migrated'
      BY <1>1, <2>1, <3>2, MigratedPromoted
    <3>4. DemotionOK(user, job[t])'
      BY <1>3, <2>3, <3>1 DEF DemotionOK
    <3> QED BY <1>7, <2>1, <2>3, <3>1, <3>2, <3>3, <3>4 DEF Checked, At
  <2> QED BY <1>3, <1>11, <2>2, <2>3 DEF CheckRole
<1>12. CASE SetRole(t)
  <2>1. PICK role \in Roles :
          user' = IF Exists(user, n) THEN [user EXCEPT ![n].role = role] ELSE user
    BY <1>1, <1>3, <1>12 DEF SetRole, Request
  <2>2. \A m \in Names : Active(user, m) => Active(user', m) /\ user'[m].gen = user[m].gen
    BY <1>1, <2>1 DEF Row, Active, Exists, Roles
  <2>3. job'[t].pc = "email"
    BY <1>1, <1>12, GotoFields DEF SetRole
  <2> QED BY <1>12, <2>2, <2>3, SessionsKept, NothingChecked DEF SetRole
<1>13. CASE SetEmail(t)
  <2>1. PICK email \in Emails \union {NoEmail} :
          user' = Promoted \/ user' = [Promoted EXCEPT ![n].email = email]
    BY <1>1, <1>3, <1>13 DEF SetEmail, Request
  <2>2. \A m \in Names : /\ user'[m].role = Promoted[m].role
                         /\ user'[m].disabled = Promoted[m].disabled
                         /\ user'[m].gen = Promoted[m].gen
    BY <1>6, <2>1 DEF Row
  <2>3. \A m \in Names : Active(user, m) => Active(user', m) /\ user'[m].gen = user[m].gen
    BY <1>4, <1>5, <2>2 DEF Active, Exists
  <2>4. Done(t) \/ job'[t].pc = "lockout"
    BY <1>1, <1>13, GotoFields DEF SetEmail
  <2> QED BY <1>1, <1>13, <2>3, <2>4, SessionsKept, NothingChecked, DoneChecked DEF SetEmail
<1>14. CASE CheckDisabled(t)
  <2>1. user' = Promoted /\ UNCHANGED session
    BY <1>14 DEF CheckDisabled
  <2>2. CASE Done(t)
    BY <1>1, <1>7, <2>1, <2>2, DoneChecked
  <2>3. CASE Goto(t, "disabled") /\ (job[t].disabled => LockoutOK(user', job[t]))
    <3>1. /\ job'[t].pc = "disabled" /\ job'[t].target = n
          /\ job'[t].actor = job[t].actor /\ job'[t].disabled = job[t].disabled
      BY <1>1, <1>3, <2>3, GotoFields
    <3>2. job'[t].disabled => LockoutOK(user, job[t])'
      BY <1>3, <2>3, <3>1 DEF LockoutOK
    <3> QED BY <1>7, <2>1, <3>1, <3>2 DEF Checked, At
  <2> QED BY <1>14, <2>2, <2>3 DEF CheckDisabled
<1>15. CASE SetDisabled(t)
  <2>1. PICK disabled \in BOOLEAN :
          /\ user' = IF Exists(user, n) THEN [user EXCEPT ![n].disabled = disabled] ELSE user
          /\ session' = IF disabled THEN Without(n) ELSE session
    BY <1>1, <1>3, <1>15 DEF SetDisabled, Request
  <2>2. \A m \in Names \ {n} : user'[m] = user[m]
    BY <1>1, <2>1
  <2>3. CASE disabled
    <3>1. \A m \in Names \ {n} : Active(user, m) => Active(user', m) /\ user'[m].gen = user[m].gen
      BY <2>2 DEF Active, Exists
    <3> QED BY <1>1, <1>15, <2>1, <2>3, <3>1, SessionsWithout, DoneChecked DEF SetDisabled
  <2>4. CASE ~disabled
    <3>1. \A m \in Names : Active(user, m) => Active(user', m) /\ user'[m].gen = user[m].gen
      BY <1>1, <2>1, <2>4 DEF Active, Exists, Row
    <3> QED BY <1>1, <1>15, <2>1, <2>4, <3>1, SessionsKept, DoneChecked DEF SetDisabled
  <2> QED BY <2>3, <2>4
<1> QED BY <1>8, <1>9, <1>10, <1>11, <1>12, <1>13, <1>14, <1>15 DEF Serve

LEMMA SerialStep == ASSUME OneAtATime, SerialInv, [Next]_vars PROVE SerialInv'
<1>1. TypeInv'
  BY TypeStep DEF SerialInv
<1>2. CASE UNCHANGED vars
  BY <1>1, <1>2 DEF vars, SerialInv, Owned, SessionsCurrent, Active, Exists, Checked, At,
     Migrated, DemotionOK, LockoutOK, Superadmins, PortalAdmins
<1>3. ASSUME NEW t \in Threads, Ask(t) \/ Serve(t)
      PROVE  SerialInv'
  <2>1. Owned' /\ SessionsCurrent' /\ Checked(t)'
    BY <1>3, AskSerial, ServeSerial
  <2> QED BY <1>1, <2>1, OnlyOne DEF SerialInv
<1>4. ASSUME NEW s \in Sessions, Close(s)
      PROVE  SerialInv'
  <2>1. Owned' /\ SessionsCurrent'
    BY <1>4 DEF Close, SerialInv, TypeInv, TypeOK, Owned, SessionsCurrent, Active, Exists
  <2>2. \A t \in Threads : Checked(t)'
    BY <1>4 DEF Close, SerialInv, Checked, At, Migrated, Active, Exists, DemotionOK,
       LockoutOK, Superadmins, PortalAdmins
  <2> QED BY <1>1, <2>1, <2>2 DEF SerialInv
<1> QED BY <1>2, <1>3, <1>4 DEF Next

\* If the last superadmin goes, it was the only one: two would not go at once.
LEMMA OnlySuperadmin ==
  ASSUME NEW n \in Names, n \in Superadmins(user),
         \A m \in Names \ {n} : user'[m] = user[m], Superadmins(user)' = {}
  PROVE  Cardinality(Superadmins(user)) = 1
<1>1. Superadmins(user) = {n}
  BY DEF Superadmins, Active, Exists
<1> QED BY <1>1, FS_Singleton

\* Where every superadmin stays one, a superadmin remains.
SuperadminsStay == \A n \in Names : n \in Superadmins(user) => n \in Superadmins(user')

LEMMA LastSuperadmin ==
  ASSUME SerialInv, Next, Superadmins(user) # {}, Superadmins(user)' = {}
  PROVE  \E n \in Names : Exists(user, n) /\ ~Exists(user', n)
<1>1. /\ TypeInv /\ user \in [Names -> Row] /\ Promoted \in [Names -> Row]
  BY PromotedType DEF SerialInv, TypeInv, TypeOK
<1>2. \A n \in Names : n \in Superadmins(user) => n \in Superadmins(Promoted)
  BY <1>1, PromotedActive DEF Superadmins
<1>3. ~SuperadminsStay
  BY DEF SuperadminsStay, Superadmins
<1>4. user' # user /\ user' # Promoted
  BY <1>2, <1>3 DEF SuperadminsStay
<1>5. PICK t \in Threads : Serve(t)
  BY <1>4 DEF Next, Ask, Login, AskDelete, Shell, AskCreate, AskEdit, Close
<1>6. Checked(t) /\ job[t] \in Request
  BY DEF SerialInv, TypeInv, TypeOK
<1>7. PICK n \in Names : n = job[t].target
  <2>1. ~At(t, "idle")
    BY <1>5 DEF Serve, At, CreateSession, Create, Delete, CheckRole, SetRole, SetEmail,
           CheckDisabled, SetDisabled
  <2> QED BY <1>1, <2>1 DEF TypeInv, Addressed
<1>8. CASE Create(t)
  <2>1. ~Exists(Promoted, n) /\ \A m \in Names \ {n} : user'[m] = Promoted[m]
    BY <1>1, <1>4, <1>7, <1>8 DEF Create
  <2>2. SuperadminsStay
    BY <1>2, <2>1 DEF SuperadminsStay, Superadmins, Active, Exists
  <2> QED BY <1>3, <2>2
<1>9. CASE Delete(t)
  <2>1. user' = [user EXCEPT ![n] = Account("none", FALSE, NoEmail, @.gen)]
    BY <1>7, <1>9 DEF Delete
  <2>2. \A m \in Names \ {n} : user'[m] = user[m]
    BY <1>1, <2>1
  <2>3. ~Exists(user', n)
    BY <1>1, <2>1 DEF Exists, Account
  <2>4. CASE Exists(user, n)
    BY <2>3, <2>4
  <2>5. CASE ~Exists(user, n)
    <3>1. SuperadminsStay
      BY <2>2, <2>5 DEF SuperadminsStay, Superadmins, Active, Exists
    <3> QED BY <1>3, <3>1
  <2> QED BY <2>4, <2>5
<1>10. CASE SetRole(t)
  <2>1. user' = [user EXCEPT ![n].role = job[t].role]
    BY <1>4, <1>7, <1>10 DEF SetRole
  <2>2. \A m \in Names \ {n} : user'[m] = user[m]
    BY <1>1, <2>1
  <2>3. user'[n].role = job[t].role /\ user'[n].disabled = user[n].disabled
    BY <1>1, <2>1 DEF Row
  <2>4. n \in Superadmins(user) /\ job[t].role # "superadmin"
    BY <1>3, <2>2, <2>3 DEF SuperadminsStay, Superadmins, Active, Exists
  <2>5. Cardinality(Superadmins(user)) = 1
    BY <2>2, <2>4, OnlySuperadmin
  <2>6. Cardinality(Superadmins(user)) > 1
    BY <1>6, <1>7, <1>10, <2>4 DEF Checked, SetRole, DemotionOK, Superadmins
  <2> QED BY <2>5, <2>6
<1>11. CASE SetEmail(t)
  <2>1. PICK email \in Emails \union {NoEmail} : user' = [Promoted EXCEPT ![n].email = email]
    BY <1>4, <1>6, <1>7, <1>11 DEF SetEmail, Request
  <2>2. \A m \in Names : /\ user'[m].role = Promoted[m].role
                         /\ user'[m].disabled = Promoted[m].disabled
    BY <1>1, <2>1 DEF Row
  <2>3. SuperadminsStay
    BY <1>2, <2>2 DEF SuperadminsStay, Superadmins, Active, Exists
  <2> QED BY <1>3, <2>3
<1>12. CASE SetDisabled(t)
  <2>1. PICK disabled \in BOOLEAN :
          disabled = job[t].disabled /\ user' = [user EXCEPT ![n].disabled = disabled]
    BY <1>4, <1>6, <1>7, <1>12 DEF SetDisabled, Request
  <2>2. \A m \in Names \ {n} : user'[m] = user[m]
    BY <1>1, <2>1
  <2>3. user'[n].role = user[n].role /\ user'[n].disabled = disabled
    BY <1>1, <2>1 DEF Row
  <2>4. n \in Superadmins(user) /\ disabled
    BY <1>3, <2>2, <2>3 DEF SuperadminsStay, Superadmins, Active, Exists
  <2>5. Cardinality(Superadmins(user)) = 1
    BY <2>2, <2>4, OnlySuperadmin
  <2>6. LockoutOK(user, job[t])
    BY <1>6, <1>12, <2>1, <2>4 DEF Checked, SetDisabled
  <2>7. Cardinality(Superadmins(user)) > 1
    BY <1>7, <2>4, <2>6 DEF LockoutOK, Superadmins
  <2> QED BY <2>5, <2>7
<1>13. CASE CreateSession(t) \/ CheckRole(t) \/ CheckDisabled(t)
  BY <1>4, <1>13 DEF CreateSession, CheckRole, CheckDisabled
<1> QED BY <1>5, <1>8, <1>9, <1>10, <1>11, <1>12, <1>13 DEF Serve

\* Only a superadmin makes or unmakes one.
LEMMA SuperadminsByRank ==
  ASSUME SerialInv, Next, NEW n \in Names, Exists(user, n), Exists(user', n),
         ~(user[n].role = "superadmin" <=> user'[n].role = "superadmin")
  PROVE  \/ n = Legacy /\ user'[n].role = "superadmin"
         \/ \E t \in Threads : At(t, "role") /\ job[t].rank = "superadmin"
<1>1. /\ TypeInv /\ user \in [Names -> Row] /\ Promoted \in [Names -> Row]
  BY PromotedType DEF SerialInv, TypeInv, TypeOK
<1>2. Promoted[n].role = IF n = Legacy /\ user[n].role = "admin"
                           THEN "superadmin" ELSE user[n].role
  BY PromotedType DEF SerialInv, TypeInv
<1>3. CASE user'[n].role = Promoted[n].role
  BY <1>2, <1>3
<1>4. CASE user'[n].role # Promoted[n].role
  <2>1. user' # user /\ user' # Promoted
    BY <1>4
  <2>2. PICK t \in Threads : Serve(t)
    BY <2>1 DEF Next, Ask, Login, AskDelete, Shell, AskCreate, AskEdit, Close
  <2>3. Checked(t) /\ job[t] \in Request
    BY DEF SerialInv, TypeInv, TypeOK
  <2>4. CASE Create(t)
    <3>1. ~Exists(Promoted, job[t].target)
      BY <2>1, <2>4 DEF Create
    <3>2. n # job[t].target
      BY <1>1, <3>1, PromotedActive
    <3>3. user'[n] = Promoted[n]
      BY <1>1, <2>1, <2>4, <3>2 DEF Create
    <3> QED BY <1>4, <3>3
  <2>5. CASE Delete(t)
    <3>1. user' = [user EXCEPT ![job[t].target] = Account("none", FALSE, NoEmail, @.gen)]
      BY <2>5 DEF Delete
    <3>2. CASE n = job[t].target
      BY <1>1, <3>1, <3>2 DEF Exists, Account
    <3>3. CASE n # job[t].target
      BY <1>1, <3>1, <3>3
    <3> QED BY <3>2, <3>3
  <2>6. CASE SetRole(t)
    <3>1. user' = [user EXCEPT ![job[t].target].role = job[t].role]
      BY <2>1, <2>6 DEF SetRole
    <3>2. n = job[t].target /\ user'[n].role = job[t].role
      BY <1>1, <3>1 DEF Row
    <3> QED BY <2>3, <2>6, <3>2 DEF Checked, SetRole
  <2>7. CASE SetEmail(t)
    <3>1. PICK m, email : user' = [Promoted EXCEPT ![m].email = email]
      BY <2>1, <2>7 DEF SetEmail
    <3> QED BY <1>1, <1>4, <3>1 DEF Row
  <2>8. CASE SetDisabled(t)
    <3>1. PICK m, disabled : user' = [user EXCEPT ![m].disabled = disabled]
      BY <2>1, <2>8 DEF SetDisabled
    <3> QED BY <1>1, <3>1 DEF Row
  <2>9. CASE CreateSession(t) \/ CheckRole(t) \/ CheckDisabled(t)
    BY <2>1, <2>9 DEF CreateSession, CheckRole, CheckDisabled
  <2> QED BY <2>2, <2>4, <2>5, <2>6, <2>7, <2>8, <2>9 DEF Serve
<1> QED BY <1>3, <1>4

\* What holds as long as requests do not overlap; with two at once none of it
\* follows (SuperadminRemains and RolesByRank then fail, and a session may be
\* opened for a user who was disabled after the password was checked).

\* Every open session belongs to the enabled account that logged in
\* (create_session, delete_user, update_user).
THEOREM SessionsAreCurrent ==
  ASSUME OneAtATime
  PROVE  Spec => []SessionsCurrent
<1>1. Init => SerialInv
  BY SerialInit
<1>2. SerialInv /\ [Next]_vars => SerialInv'
  BY SerialStep
<1>3. SerialInv => SessionsCurrent
  BY DEF SerialInv
<1> QED BY <1>1, <1>2, <1>3, PTL DEF Spec

\* update_user never demotes or disables the last active superadmin.
THEOREM SuperadminStays ==
  ASSUME OneAtATime
  PROVE  Spec => SuperadminRemains
<1>1. Init => SerialInv
  BY SerialInit
<1>2. SerialInv /\ [Next]_vars => SerialInv'
  BY SerialStep
<1>3. SerialInv /\ [Next]_vars =>
        [Superadmins(user) # {} /\ Superadmins(user)' = {}
           => \E n \in Names : Exists(user, n) /\ ~Exists(user', n)]_vars
  BY LastSuperadmin
<1> QED BY <1>1, <1>2, <1>3, PTL DEF Spec, SuperadminRemains

\* Through the pages only a superadmin makes or unmakes one
\* (_assert_assignable_role, admin_edit_user).
THEOREM RolesNeedRank ==
  ASSUME OneAtATime
  PROVE  Spec => RolesByRank
<1>1. Init => SerialInv
  BY SerialInit
<1>2. SerialInv /\ [Next]_vars => SerialInv'
  BY SerialStep
<1>3. SerialInv /\ [Next]_vars =>
        [\A n \in Names :
           /\ Exists(user, n) /\ Exists(user', n)
           /\ (user[n].role = "superadmin") # (user'[n].role = "superadmin")
           => \/ n = Legacy /\ user'[n].role = "superadmin"
              \/ \E t \in Threads : At(t, "role") /\ job[t].rank = "superadmin"]_vars
  BY SuperadminsByRank
<1> QED BY <1>1, <1>2, <1>3, PTL DEF Spec, RolesByRank
-----------------------------------------------------------------------------
(* The identity of a caller                                                *)

Proved == INSTANCE McpIdentityProofs WITH Names <- Callers, user <- row

\* McpIdentityProofs speaks of the same initial states, steps and properties as
\* the instance that Auth checks.
LEMMA SameIdentity ==
  /\ Proved!ConstantsOK
  /\ Identity!Init => Proved!Init
  /\ [Identity!Next]_(Identity!vars) => [Proved!Next]_(Proved!vars)
  /\ Proved!LapsedTokensRefused => LapsedTokensRefused
  /\ Proved!AdminHasBeenAdmin => AdminHasBeenAdmin
  /\ Proved!ProposerIsOwner => ProposerIsOwner
BY IdentityConstants DEF
  LapsedTokensRefused, AdminHasBeenAdmin, ProposerIsOwner,
  Identity!ConstantsOK, Identity!vars, Identity!Roles, Identity!Rows,
  Identity!Absent, Identity!Active, Identity!DbRole, Identity!Processes,
  Identity!Tools, Identity!AdminTools, Identity!Credentials,
  Identity!Request, Identity!Bearer, Identity!Free, Identity!Init,
  Identity!Edit, Identity!IssuePat, Identity!RevokePat,
  Identity!CreateBind, Identity!ExpirePat, Identity!ExpireBind,
  Identity!Good, Identity!GoodPat, Identity!GoodBind, Identity!Looked,
  Identity!Remember, Identity!Decided, Identity!Effective,
  Identity!Allowed, Identity!Arrive, Identity!Forward, Identity!Identify,
  Identity!ArriveNamed, Identity!Browse, Identity!Call, Identity!Answer,
  Identity!Restart, Identity!Portal, Identity!Serve, Identity!Next,
  Identity!Ran, Identity!LapsedTokensRefused, Identity!AdminHasBeenAdmin,
  Identity!Owner, Identity!ProposerIsOwner, Proved!ConstantsOK,
  Proved!vars, Proved!Roles, Proved!Rows, Proved!Absent, Proved!Active,
  Proved!DbRole, Proved!Processes, Proved!Tools, Proved!AdminTools,
  Proved!Credentials, Proved!Request, Proved!Bearer, Proved!Free,
  Proved!Init, Proved!Edit, Proved!IssuePat, Proved!RevokePat,
  Proved!CreateBind, Proved!ExpirePat, Proved!ExpireBind, Proved!Good,
  Proved!GoodPat, Proved!GoodBind, Proved!Looked, Proved!Remember,
  Proved!Decided, Proved!Effective, Proved!Allowed, Proved!Arrive,
  Proved!Forward, Proved!Identify, Proved!ArriveNamed, Proved!Browse,
  Proved!Call, Proved!Answer, Proved!Restart, Proved!Portal, Proved!Serve,
  Proved!Next, Proved!Ran, Proved!LapsedTokensRefused,
  Proved!AdminHasBeenAdmin, Proved!Owner, Proved!ProposerIsOwner

\* No token that lapsed before the request arrived runs anything in its
\* owner's name (validate_pat, validate_bind_token).
THEOREM TokensLapse == Identity!Spec => []LapsedTokensRefused
BY SameIdentity, Proved!LapsedRefused, PTL DEF Identity!Spec, Proved!Spec

\* An admin's tool runs only for one who has been an admin since the process
\* started, whatever happens to the user meanwhile (change_actor.resolve_role,
\* claw_user_lookup).
THEOREM AdminsAreAdmins == Identity!Spec => []AdminHasBeenAdmin
BY SameIdentity, Proved!AdminsHaveBeen, PTL DEF Identity!Spec, Proved!Spec

\* A change is proposed by the owner of the credential, never by nobody
\* (server.propose_change, rbac.check_propose_change).
THEOREM OwnersPropose == Identity!Spec => []ProposerIsOwner
BY SameIdentity, Proved!ProposersOwn, PTL DEF Identity!Spec, Proved!Spec
=============================================================================
