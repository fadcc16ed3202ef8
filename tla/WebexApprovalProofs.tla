------------------------ MODULE WebexApprovalProofs ------------------------
(***************************************************************************)
(* Proofs about WebexApproval, for any number of changes, users, emails,   *)
(* requests, restarts and any limit of the list of used links:             *)
(*                                                                         *)
(*   TypeCorrect     every variable keeps its type;                        *)
(*   OneDecision     a change is decided from Webex once;                  *)
(*   LinksRefused    a link that was spent is refused.                     *)
(* The last two hold as long as requests do not overlap, as the properties *)
(* say themselves.                                                         *)
(***************************************************************************)
EXTENDS WebexApproval, FiniteSetTheorems, TLAPS

-----------------------------------------------------------------------------
(* Types                                                                   *)

Handler == [pc : {"idle", "engine", "save", "notice", "mark", "open", "write"},
            via : {"none", "card", "link"}, link : Links \cup {NoLink},
            user : Users \cup {NoUser}, marks : SUBSET Links]

(* A request in progress is about a change and somebody's, and a thread    *)
(* that has none is idle in every field.                                   *)
Handling ==
  /\ thr \in [Threads -> Handler]
  /\ \A t \in Threads : IF thr[t].pc = "idle"
                          THEN thr[t] = Idle
                          ELSE thr[t].link \in Links /\ thr[t].user \in Users

DecisionType == decisions \subseteq Changes \X Actions \X Users \X {"none", "card", "link"}

TypeInv == TypeOK /\ Handling /\ DecisionType

-----------------------------------------------------------------------------
(* The invariant                                                           *)

(* Requests take turns.                                                    *)
Turns == ~ overlapped => \A t, u \in Threads : thr[t] # Idle /\ thr[u] # Idle => t = u

(* A change that Webex decided is decided, and a request that may still    *)
(* save a decision is about another one.                                   *)
DecisionsOK ==
  /\ \A d \in decisions : status[d[1]] \in {"approved", "rejected"}
  /\ ~ overlapped => \A d, e \in decisions : d[1] = e[1] => d = e
  /\ ~ overlapped => \A t \in Threads : thr[t].pc = "save" =>
                       \A d \in decisions : d[1] # Change(t)

(* The links of the list S are all that were spent, or as many come after  *)
(* a missing one as the list can hold.                                     *)
Above(l, S) == {k \in S : Rank[k] > Rank[l]}
Listed(S) == \A l \in spent : l \in S \/ Cardinality(Above(l, spent)) >= Cap

(* Nothing is in the list that was not spent.  While requests take turns   *)
(* and no restart truncated the file, the file lists every spent link,     *)
(* except while it is being rewritten, when what is to be written does.    *)
ListOK ==
  /\ IsFiniteSet(spent) /\ used \subseteq spent
  /\ \A t \in Threads : thr[t].pc \in {"open", "write"} =>
       thr[t].link \in thr[t].marks /\ thr[t].marks \subseteq spent \cup {thr[t].link}
  /\ ~ overlapped /\ ~ damaged =>
       /\ (\A t \in Threads : thr[t].pc # "write") => Listed(used)
       /\ \A t \in Threads : thr[t].pc \in {"open", "write"} => Listed(thr[t].marks)

WebexInv == TypeInv /\ Turns /\ DecisionsOK /\ ListOK

-----------------------------------------------------------------------------
(* Types are kept                                                          *)

LEMMA IdleType == Idle \in Handler /\ Idle.pc = "idle" /\ Idle.via = "none"
BY DEF Idle, Handler

LEMMA LinkType == ASSUME NEW l \in Links PROVE l[1] \in Changes /\ l[2] \in Actions
BY DEF Links

LEMMA HandlingFields ==
  ASSUME Handling, NEW t \in Threads
  PROVE  /\ thr[t] \in Handler
         /\ thr[t].pc \in {"idle", "engine", "save", "notice", "mark", "open", "write"}
         /\ thr[t].via \in {"none", "card", "link"} /\ thr[t].link \in Links \cup {NoLink}
         /\ thr[t].user \in Users \cup {NoUser} /\ thr[t].marks \subseteq Links
<1>1. thr[t] \in Handler
  BY DEF Handling
<1> QED BY <1>1 DEF Handler

LEMMA TypeInit == ASSUME Init PROVE TypeInv
<1>1. Handling
  BY IdleType DEF Init, Handling
<1>2. TypeOK
  BY <1>1, HandlingFields DEF Init, TypeOK
<1> QED BY <1>1, <1>2 DEF TypeInv, DecisionType, Init

\* What a request or a step of thread t makes of it.
LEMMA ThreadMoves ==
  ASSUME TypeInv, NEW t \in Threads, Request(t) \/ Step(t)
  PROVE  \/ thr' = thr
         \/ \E q \in Handler : /\ thr' = [thr EXCEPT ![t] = q]
                               /\ IF q.pc = "idle" THEN q = Idle
                                                   ELSE q.link \in Links /\ q.user \in Users
<1>1. /\ thr \in [Threads -> Handler] /\ thr[t] \in Handler /\ used \subseteq Links
      /\ thr[t].pc # "idle" => thr[t].link \in Links /\ thr[t].user \in Users
  BY DEF TypeInv, TypeOK, Handling
<1>2. ASSUME NEW pc \in {"save", "notice", "mark", "open", "write"},
             NEW marks \in SUBSET Links,
             \/ thr' = [thr EXCEPT ![t] = [thr[t] EXCEPT !.pc = pc]]
             \/ thr' = [thr EXCEPT ![t] = [thr[t] EXCEPT !.pc = pc, !.marks = marks]],
             thr[t].pc # "idle"
      PROVE  \E q \in Handler : /\ thr' = [thr EXCEPT ![t] = q]
                                /\ IF q.pc = "idle" THEN q = Idle
                                                    ELSE q.link \in Links /\ q.user \in Users
  <2>1. ASSUME NEW q \in {[thr[t] EXCEPT !.pc = pc], [thr[t] EXCEPT !.pc = pc, !.marks = marks]}
        PROVE  q \in Handler /\ q.pc # "idle" /\ q.link = thr[t].link /\ q.user = thr[t].user
    BY <1>1 DEF Handler
  <2> QED BY <1>1, <1>2, <2>1
<1>3. ASSUME thr' = [thr EXCEPT ![t] = Idle]
      PROVE  \E q \in Handler : /\ thr' = [thr EXCEPT ![t] = q]
                                /\ IF q.pc = "idle" THEN q = Idle
                                                    ELSE q.link \in Links /\ q.user \in Users
  BY <1>3, IdleType
<1>4. ASSUME NEW via \in {"card", "link"}, NEW l \in Links, NEW u \in Users,
             thr' = [thr EXCEPT ![t] = Begun("engine", via, l, u)]
      PROVE  \E q \in Handler : /\ thr' = [thr EXCEPT ![t] = q]
                                /\ IF q.pc = "idle" THEN q = Idle
                                                    ELSE q.link \in Links /\ q.user \in Users
  <2>1. /\ Begun("engine", via, l, u) \in Handler
        /\ Begun("engine", via, l, u).pc = "engine"
        /\ Begun("engine", via, l, u).link = l /\ Begun("engine", via, l, u).user = u
    BY DEF Begun, Handler
  <2> QED BY <1>4, <2>1
<1>5. ASSUME NEW l \in Links, NEW u \in Users, Click(t, l, u)
      PROVE  thr' = [thr EXCEPT ![t] = Begun("engine", "link", l, u)]
  BY <1>5 DEF Click, Begin
<1>6. ASSUME NEW l \in Links, NEW e \in Emails, Press(t, l, e)
      PROVE  \/ thr' = thr
             \/ \E u \in Users : thr' = [thr EXCEPT ![t] = Begun("engine", "card", l, u)]
  <2>1. Account(e) # NoUser => Account(e) \in Users
    BY DEF Account, TypeInv, TypeOK
  <2> QED BY <1>6, <2>1 DEF Press, Begin
<1>7. ASSUME Check(t) \/ Save(t) \/ Notice(t)
      PROVE  /\ thr[t].pc # "idle"
             /\ \/ \E pc \in {"save", "notice", "mark"} :
                     thr' = [thr EXCEPT ![t] = [thr[t] EXCEPT !.pc = pc]]
                \/ thr' = [thr EXCEPT ![t] = Idle]
  <2>1. CASE Check(t)
    BY <2>1 DEF Check, After
  <2>2. CASE Save(t)
    BY <2>2 DEF Save
  <2>3. CASE Notice(t)
    BY <2>3 DEF Notice, After
  <2> QED BY <1>7, <2>1, <2>2, <2>3
<1>8. ASSUME ReadMarks(t)
      PROVE  /\ thr[t].pc # "idle" /\ used \cup {thr[t].link} \in SUBSET Links
             /\ thr' = [thr EXCEPT ![t] = [thr[t] EXCEPT !.pc = "open",
                                                        !.marks = used \cup {thr[t].link}]]
  BY <1>1, <1>8 DEF ReadMarks
<1>9. ASSUME OpenMarks(t)
      PROVE  /\ thr[t].pc # "idle" /\ thr' = [thr EXCEPT ![t] = [thr[t] EXCEPT !.pc = "write"]]
  BY <1>9 DEF OpenMarks
<1>10. ASSUME WriteMarks(t)
       PROVE  thr' = [thr EXCEPT ![t] = Idle]
  BY <1>10 DEF WriteMarks
<1> QED BY <1>2, <1>3, <1>4, <1>5, <1>6, <1>7, <1>8, <1>9, <1>10 DEF Request, Step

LEMMA HandlingStep == ASSUME TypeInv, [Next]_vars PROVE Handling'
<1>1. Handling
  BY DEF TypeInv
<1>2. ASSUME NEW t \in Threads, Request(t) \/ Step(t)
      PROVE  Handling'
  BY <1>1, <1>2, ThreadMoves DEF Handling
<1>3. ASSUME Crash
      PROVE  Handling'
  BY <1>3, IdleType DEF Crash, Handling
<1>4. ASSUME thr' = thr
      PROVE  Handling'
  BY <1>1, <1>4 DEF Handling
<1> QED BY <1>2, <1>3, <1>4 DEF Next, Propose, DecideElsewhere, Expire, Link, vars

LEMMA TypeStep == ASSUME TypeInv, [Next]_vars PROVE TypeInv'
<1>0. Handling'
  BY HandlingStep
<1>1. /\ \A t \in Threads :
           /\ thr'[t].pc \in {"idle", "engine", "save", "notice", "mark", "open", "write"}
           /\ thr'[t].via \in {"none", "card", "link"} /\ thr'[t].link \in Links \cup {NoLink}
           /\ thr'[t].user \in Users \cup {NoUser} /\ thr'[t].marks \subseteq Links
  BY <1>0 DEF Handling, Handler
<1>2. /\ status \in [Changes -> {"none", "proposed", "approved", "rejected"}]
      /\ proposer \in [Changes -> Users \cup {NoUser}]
      /\ room \in [Changes -> {"none", "posted", "expired"}]
      /\ used \subseteq Links /\ spent \subseteq Links
      /\ linked \in [Emails -> Users \cup {NoUser}]
      /\ cache \in [Emails -> Users \cup {NoUser, "unasked"}]
      /\ DecisionType
  BY DEF TypeInv, TypeOK
<1>3. ASSUME NEW c \in Changes, NEW u \in Users, Propose(c, u)
      PROVE  TypeInv'
  BY <1>0, <1>1, <1>2, <1>3 DEF Propose, TypeInv, TypeOK, DecisionType, history
<1>4. ASSUME NEW c \in Changes, DecideElsewhere(c, "approved") \/ DecideElsewhere(c, "rejected")
      PROVE  TypeInv'
  BY <1>0, <1>1, <1>2, <1>4 DEF DecideElsewhere, TypeInv, TypeOK, DecisionType, history
<1>5. ASSUME NEW c \in Changes, Expire(c)
      PROVE  TypeInv'
  BY <1>0, <1>1, <1>2, <1>5 DEF Expire, TypeInv, TypeOK, DecisionType, history
<1>6. ASSUME NEW e \in Emails, NEW u \in Users \cup {NoUser}, Link(e, u)
      PROVE  TypeInv'
  BY <1>0, <1>1, <1>2, <1>6 DEF Link, TypeInv, TypeOK, DecisionType, history
<1>7. ASSUME NEW t \in Threads, NEW l \in Links, NEW u \in Users, Click(t, l, u)
      PROVE  TypeInv'
  BY <1>0, <1>1, <1>2, <1>7 DEF Click, TypeInv, TypeOK, DecisionType
<1>8. ASSUME NEW t \in Threads, NEW l \in Links, NEW e \in Emails, Press(t, l, e)
      PROVE  TypeInv'
  <2>1. cache' \in [Emails -> Users \cup {NoUser, "unasked"}]
    BY <1>2, <1>8 DEF Press, Account
  <2> QED BY <1>0, <1>1, <1>2, <1>8, <2>1 DEF Press, TypeInv, TypeOK, DecisionType
<1>9. ASSUME NEW t \in Threads, Check(t) \/ Notice(t) \/ ReadMarks(t)
      PROVE  TypeInv'
  BY <1>0, <1>1, <1>2, <1>9
     DEF Check, Notice, ReadMarks, TypeInv, TypeOK, DecisionType, history
<1>10. ASSUME NEW t \in Threads, Save(t)
       PROVE  TypeInv'
  <2>1. /\ Change(t) \in Changes /\ Action(t) \in Actions /\ thr[t].user \in Users
        /\ thr[t].via \in {"none", "card", "link"}
    <3>1. thr[t].link \in Links /\ thr[t].user \in Users
      BY <1>10 DEF Save, TypeInv, Handling
    <3> QED BY <3>1, LinkType, HandlingFields DEF Change, Action, TypeInv
  <2>2. DecisionType'
    BY <1>2, <1>10, <2>1 DEF Save, DecisionType
  <2>3. status' \in [Changes -> {"none", "proposed", "approved", "rejected"}]
    BY <1>2, <1>10 DEF Save
  <2> QED BY <1>0, <1>1, <1>2, <1>10, <2>2, <2>3 DEF Save, TypeInv, TypeOK
<1>11. ASSUME NEW t \in Threads, OpenMarks(t)
       PROVE  TypeInv'
  BY <1>0, <1>1, <1>2, <1>11 DEF OpenMarks, TypeInv, TypeOK, DecisionType, history
<1>12. ASSUME NEW t \in Threads, WriteMarks(t)
       PROVE  TypeInv'
  <2>1. thr[t].link \in Links /\ thr[t].marks \subseteq Links
    BY <1>12, HandlingFields DEF WriteMarks, TypeInv, Handling
  <2>2. used' \subseteq Links /\ spent' \subseteq Links
    BY <1>2, <1>12, <2>1 DEF WriteMarks, Kept
  <2> QED BY <1>0, <1>1, <1>2, <1>12, <2>2 DEF WriteMarks, TypeInv, TypeOK, DecisionType
<1>13. ASSUME Crash
       PROVE  TypeInv'
  BY <1>0, <1>1, <1>2, <1>13 DEF Crash, TypeInv, TypeOK, DecisionType
<1>14. CASE UNCHANGED vars
  BY <1>0, <1>1, <1>2, <1>14 DEF vars, TypeInv, TypeOK, DecisionType, history
<1> QED BY <1>3, <1>4, <1>5, <1>6, <1>7, <1>8, <1>9, <1>10, <1>11, <1>12, <1>13, <1>14
        DEF Next, Request, Step

-----------------------------------------------------------------------------
(* Requests take turns, or it is known that they did not                   *)

\* A step of a request is one of a thread that has one, and of no other.
LEMMA StepMoves ==
  ASSUME TypeInv, NEW t \in Threads, Step(t)
  PROVE  /\ thr[t] # Idle /\ overlapped' = overlapped /\ damaged' = damaged
         /\ \A u \in Threads \ {t} : thr'[u] = thr[u]
<1>1. thr[t].pc # "idle" => thr[t] # Idle
  BY IdleType
<1>2. thr \in [Threads -> Handler]
  BY DEF TypeInv, Handling
<1>3. thr[t].pc # "idle" /\ overlapped' = overlapped /\ damaged' = damaged
  BY DEF Step, Check, Save, Notice, ReadMarks, OpenMarks, WriteMarks, history
<1>4. \A u \in Threads \ {t} : thr'[u] = thr[u]
  BY <1>2 DEF Step, Check, Save, Notice, ReadMarks, OpenMarks, WriteMarks
<1> QED BY <1>1, <1>3, <1>4

\* A request begins while the others rest, or it overlaps one.
LEMMA RequestMoves ==
  ASSUME TypeInv, NEW t \in Threads, Request(t)
  PROVE  /\ UNCHANGED <<status, proposer, room, used, linked, decisions, spent, damaged>>
         /\ \/ UNCHANGED <<thr, overlapped>>
            \/ /\ thr[t] = Idle /\ thr'[t].pc = "engine"
               /\ \A u \in Threads \ {t} : thr'[u] = thr[u]
               /\ ~ overlapped' => ~ overlapped /\ \A u \in Threads : thr[u] = Idle
         /\ thr[t] = Idle /\ thr'[t].via = "link" => thr'[t].link \notin used
<1>0. thr \in [Threads -> Handler]
  BY DEF TypeInv, Handling
<1>1. ASSUME NEW l, NEW via, NEW u, Begin(t, Begun("engine", via, l, u))
      PROVE  /\ thr[t] = Idle /\ thr'[t] = Begun("engine", via, l, u) /\ thr'[t].pc = "engine"
             /\ thr'[t].via = via /\ thr'[t].link = l
             /\ \A w \in Threads \ {t} : thr'[w] = thr[w]
             /\ ~ overlapped' => ~ overlapped /\ \A w \in Threads : thr[w] = Idle
  BY <1>0, <1>1 DEF Begin, Begun
<1>2. ASSUME NEW l \in Links, NEW u \in Users, Click(t, l, u)
      PROVE  /\ Begin(t, Begun("engine", "link", l, u)) /\ l \notin used
             /\ UNCHANGED <<status, proposer, room, used, linked, decisions, spent, damaged>>
  BY <1>2 DEF Click
<1>3. ASSUME NEW l \in Links, NEW e \in Emails, Press(t, l, e)
      PROVE  /\ UNCHANGED <<status, proposer, room, used, linked, decisions, spent, damaged>>
             /\ \/ UNCHANGED <<thr, overlapped>>
                \/ \E u : Begin(t, Begun("engine", "card", l, u))
  BY <1>3 DEF Press
<1>4. CASE \E l \in Links, u \in Users : Click(t, l, u)
  BY <1>1, <1>2, <1>4
<1>5. CASE \E l \in Links, e \in Emails : Press(t, l, e)
  <2>1. PICK l \in Links, e \in Emails : Press(t, l, e)
    BY <1>5
  <2>2. CASE UNCHANGED <<thr, overlapped>>
    BY <1>3, <2>1, <2>2, IdleType
  <2>3. CASE \E u : Begin(t, Begun("engine", "card", l, u))
    BY <1>1, <1>3, <2>1, <2>3
  <2> QED BY <1>3, <2>1, <2>2, <2>3
<1> QED BY <1>4, <1>5 DEF Request

LEMMA TurnsStep == ASSUME TypeInv, Turns, [Next]_vars PROVE Turns'
<1>1. ASSUME NEW t \in Threads, Request(t)
      PROVE  Turns'
  BY <1>1, RequestMoves DEF Turns
<1>2. ASSUME NEW t \in Threads, Step(t)
      PROVE  Turns'
  BY <1>2, StepMoves DEF Turns
<1>3. ASSUME Crash
      PROVE  Turns'
  BY <1>3 DEF Crash, Turns
<1>4. ASSUME UNCHANGED <<thr, overlapped>>
      PROVE  Turns'
  BY <1>4 DEF Turns
<1> QED BY <1>1, <1>2, <1>3, <1>4
        DEF Next, Propose, DecideElsewhere, Expire, Link, vars, history

-----------------------------------------------------------------------------
(* A change is decided once                                                *)

\* The status of a change that was decided never goes back to proposed, and no
\* thread comes closer to a save.
LEMMA DecisionsFrame ==
  ASSUME DecisionsOK, decisions' = decisions, ~ overlapped' => ~ overlapped,
         \A d \in decisions : status[d[1]] \in {"approved", "rejected"}
                                => status'[d[1]] \in {"approved", "rejected"},
         \A t \in Threads : thr'[t].pc = "save" => thr'[t] = thr[t]
  PROVE  DecisionsOK'
BY DEF DecisionsOK, Change

LEMMA DecisionsStep ==
  ASSUME TypeInv, Turns, DecisionsOK, [Next]_vars
  PROVE  DecisionsOK'
<1>0. /\ status \in [Changes -> {"none", "proposed", "approved", "rejected"}]
      /\ decisions \subseteq Changes \X Actions \X Users \X {"none", "card", "link"}
      /\ thr \in [Threads -> Handler]
  BY DEF TypeInv, TypeOK, DecisionType, Handling
<1>1. \A d \in decisions : d[1] \in Changes
  BY <1>0
<1>2. ASSUME NEW t \in Threads, Request(t)
      PROVE  DecisionsOK'
  <2>1. \A u \in Threads : thr'[u].pc = "save" => thr'[u] = thr[u]
    BY <1>2, RequestMoves
  <2> QED BY <1>2, <2>1, RequestMoves, DecisionsFrame
<1>3. ASSUME NEW t \in Threads, Check(t)
      PROVE  DecisionsOK'
  <2>1. UNCHANGED <<status, decisions, overlapped>> /\ \A u \in Threads \ {t} : thr'[u] = thr[u]
    BY <1>0, <1>3 DEF Check, history
  <2>2. thr'[t].pc = "save" => thr'[t].link = thr[t].link /\ status[Change(t)] = "proposed"
    <3>1. After(t).pc # "save"
      BY <1>0, IdleType DEF After, Handler
    <3>2. [thr[t] EXCEPT !.pc = "save"].link = thr[t].link
      BY <1>0 DEF Handler
    <3> QED BY <1>0, <1>3, <3>1, <3>2 DEF Check, MayDecide
  <2>3. thr'[t].pc = "save" => \A d \in decisions : d[1] # thr'[t].link[1]
    BY <2>2 DEF DecisionsOK, Change
  <2> QED BY <2>1, <2>3 DEF DecisionsOK, Change
<1>4. ASSUME NEW t \in Threads, Save(t)
      PROVE  DecisionsOK'
  <2> DEFINE c == Change(t)
             d == <<Change(t), Action(t), thr[t].user, thr[t].via>>
  <2>1. /\ thr[t].pc = "save" /\ decisions' = decisions \cup {d} /\ overlapped' = overlapped
        /\ status' = [status EXCEPT ![c] = IF Action(t) = "approve" THEN "approved" ELSE "rejected"]
        /\ thr'[t].pc = "notice" /\ \A u \in Threads \ {t} : thr'[u] = thr[u]
    BY <1>0, <1>4 DEF Save, Handler
  <2>2. c \in Changes
    BY <2>1, LinkType DEF TypeInv, Handling, Change
  <2>3. d[1] = c
    OBVIOUS
  <2>4. \A e \in decisions' : status'[e[1]] \in {"approved", "rejected"}
    BY <1>0, <1>1, <2>1, <2>2, <2>3 DEF DecisionsOK
  <2>5. ~ overlapped => \A e \in decisions : e[1] # c
    BY <2>1 DEF DecisionsOK
  <2>6. ASSUME ~ overlapped, NEW u \in Threads
        PROVE  thr'[u].pc # "save"
    <3>1. CASE u = t
      BY <2>1, <3>1
    <3>2. CASE u # t
      <4>1. thr[u] = Idle
        BY <1>4, <2>6, <3>2, StepMoves DEF Turns, Step
      <4> QED BY <2>1, <3>2, <4>1, IdleType
    <3> QED BY <3>1, <3>2
  <2>7. ~ overlapped => \A e, f \in decisions' : e[1] = f[1] => e = f
    BY <2>1, <2>3, <2>5 DEF DecisionsOK
  <2> QED BY <2>1, <2>4, <2>6, <2>7 DEF DecisionsOK
<1>5. ASSUME NEW t \in Threads, Notice(t) \/ ReadMarks(t) \/ OpenMarks(t) \/ WriteMarks(t)
      PROVE  DecisionsOK'
  <2>1. UNCHANGED <<status, decisions, overlapped>>
    BY <1>5 DEF Notice, ReadMarks, OpenMarks, WriteMarks, history
  <2>2. thr'[t].pc # "save" /\ \A u \in Threads \ {t} : thr'[u] = thr[u]
    BY <1>0, <1>5, IdleType DEF Notice, After, ReadMarks, OpenMarks, WriteMarks, Handler
  <2> QED BY <2>1, <2>2, DecisionsFrame
<1>6. ASSUME Crash
      PROVE  DecisionsOK'
  BY <1>6, DecisionsFrame, IdleType DEF Crash
<1>7. ASSUME NEW c \in Changes, NEW s \in {"proposed", "approved", "rejected"},
             status[c] \in {"none", "proposed"}, status' = [status EXCEPT ![c] = s],
             UNCHANGED <<thr, decisions, overlapped>>
      PROVE  DecisionsOK'
  BY <1>0, <1>1, <1>7, DecisionsFrame
<1>8. ASSUME UNCHANGED <<status, thr, decisions, overlapped>>
      PROVE  DecisionsOK'
  BY <1>8, DecisionsFrame
<1>9. ASSUME NEW c \in Changes, NEW u \in Users, Propose(c, u)
      PROVE  DecisionsOK'
  BY <1>7, <1>9 DEF Propose, history
<1>10. ASSUME NEW c \in Changes, DecideElsewhere(c, "approved") \/ DecideElsewhere(c, "rejected")
       PROVE  DecisionsOK'
  BY <1>7, <1>10 DEF DecideElsewhere, history
<1> QED BY <1>2, <1>3, <1>4, <1>5, <1>6, <1>8, <1>9, <1>10
        DEF Next, Step, Expire, Link, vars, history

-----------------------------------------------------------------------------
(* The list of used links                                                  *)

LEMMA AboveMono ==
  ASSUME NEW l, NEW S, NEW T, IsFiniteSet(T), S \subseteq T
  PROVE  /\ Cardinality(Above(l, S)) <= Cardinality(Above(l, T))
         /\ Cardinality(Above(l, S)) \in Nat /\ Cardinality(Above(l, T)) \in Nat
<1>1. Above(l, S) \subseteq Above(l, T) /\ Above(l, T) \subseteq T
  BY DEF Above
<1>2. IsFiniteSet(Above(l, T))
  BY <1>1, FS_Subset
<1> QED BY <1>1, <1>2, FS_Subset, FS_CardinalityType

\* A step that neither marks a link nor rewrites the file.
LEMMA ListFrame ==
  ASSUME ListOK, UNCHANGED <<used, spent>>,
         ~ overlapped' /\ ~ damaged' => ~ overlapped /\ ~ damaged,
         \A t \in Threads : thr'[t].pc \in {"open", "write"} => thr'[t] = thr[t],
         (\A t \in Threads : thr'[t].pc # "write") /\ ~ overlapped' /\ ~ damaged'
           => \A t \in Threads : thr[t].pc # "write"
  PROVE  ListOK'
<1>1. \A S : Listed(S)' <=> Listed(S)
  BY DEF Listed, Above
<1>2. ASSUME NEW t \in Threads, thr'[t].pc \in {"open", "write"}
      PROVE  /\ thr'[t].link \in thr'[t].marks
             /\ thr'[t].marks \subseteq spent' \cup {thr'[t].link}
             /\ ~ overlapped' /\ ~ damaged' => Listed(thr[t].marks)'
  <2>1. thr'[t] = thr[t]
    BY <1>2
  <2>2. /\ thr[t].link \in thr[t].marks /\ thr[t].marks \subseteq spent \cup {thr[t].link}
        /\ ~ overlapped /\ ~ damaged => Listed(thr[t].marks)
    BY <1>2, <2>1 DEF ListOK
  <2> QED BY <2>1, <2>2 DEF Listed, Above
<1>3. ~ overlapped' /\ ~ damaged' /\ (\A t \in Threads : thr'[t].pc # "write") => Listed(used)'
  <2>1. ~ overlapped' /\ ~ damaged' /\ (\A t \in Threads : thr'[t].pc # "write") => Listed(used)
    BY DEF ListOK
  <2> QED BY <2>1 DEF Listed, Above
<1>4. IsFiniteSet(spent') /\ used' \subseteq spent'
  BY DEF ListOK
<1> QED BY <1>2, <1>3, <1>4 DEF ListOK

LEMMA ReadMarksList ==
  ASSUME TypeInv, Turns, ListOK, NEW t \in Threads, ReadMarks(t)
  PROVE  ListOK'
<1>0. thr \in [Threads -> Handler] /\ thr[t].pc = "mark"
  BY DEF ReadMarks, TypeInv, Handling
<1>1. /\ thr' = [thr EXCEPT ![t] = [thr[t] EXCEPT !.pc = "open",
                                                  !.marks = used \cup {thr[t].link}]]
      /\ UNCHANGED <<used, spent, overlapped, damaged>>
  BY DEF ReadMarks, history
<1>2. /\ thr'[t].pc = "open" /\ thr'[t].marks = used \cup {thr[t].link}
      /\ thr'[t].link = thr[t].link /\ \A u \in Threads \ {t} : thr'[u] = thr[u]
  BY <1>0, <1>1 DEF Handler
<1>3. /\ IsFiniteSet(spent) /\ used \subseteq spent
      /\ thr'[t].link \in thr'[t].marks /\ thr'[t].marks \subseteq spent \cup {thr'[t].link}
  BY <1>2 DEF ListOK
<1>4. ASSUME NEW u \in Threads, thr'[u].pc \in {"open", "write"}
      PROVE  thr'[u].link \in thr'[u].marks /\ thr'[u].marks \subseteq spent \cup {thr'[u].link}
  BY <1>2, <1>3, <1>4 DEF ListOK
<1>5. ASSUME ~ overlapped, ~ damaged
      PROVE  Listed(used) /\ \A u \in Threads \ {t} : thr[u] = Idle
  <2>1. \A u \in Threads \ {t} : thr[u] = Idle
    <3>1. thr[t] # Idle
      BY <1>0, IdleType
    <3> QED BY <1>5, <3>1 DEF Turns
  <2>2. \A u \in Threads : thr[u].pc # "write"
    BY <1>0, <2>1, IdleType
  <2> QED BY <1>5, <2>1, <2>2 DEF ListOK
<1>6. ASSUME ~ overlapped, ~ damaged, NEW u \in Threads, thr'[u].pc \in {"open", "write"}
      PROVE  Listed(thr[u].marks)'
  <2>1. u = t
    BY <1>2, <1>5, <1>6, IdleType
  <2>2. \A l \in spent : l \in used \cup {thr[t].link} \/ Cardinality(Above(l, spent)) >= Cap
    BY <1>5, <1>6 DEF Listed
  <2> QED BY <1>1, <1>2, <2>1, <2>2 DEF Listed, Above
<1>7. ~ overlapped /\ ~ damaged => Listed(used)'
  BY <1>1, <1>5 DEF Listed, Above
<1> QED BY <1>1, <1>3, <1>4, <1>6, <1>7 DEF ListOK

LEMMA OpenMarksList ==
  ASSUME TypeInv, Turns, ListOK, NEW t \in Threads, OpenMarks(t)
  PROVE  ListOK'
<1>0. thr \in [Threads -> Handler] /\ thr[t].pc = "open"
  BY DEF OpenMarks, TypeInv, Handling
<1>1. /\ thr' = [thr EXCEPT ![t] = [thr[t] EXCEPT !.pc = "write"]] /\ used' = {}
      /\ UNCHANGED <<spent, overlapped, damaged>>
  BY DEF OpenMarks, history
<1>2. /\ thr'[t].pc = "write" /\ thr'[t].marks = thr[t].marks
      /\ thr'[t].link = thr[t].link /\ \A u \in Threads \ {t} : thr'[u] = thr[u]
  BY <1>0, <1>1 DEF Handler
<1>3. ASSUME NEW u \in Threads, thr'[u].pc \in {"open", "write"}
      PROVE  /\ thr'[u].link \in thr'[u].marks
             /\ thr'[u].marks \subseteq spent' \cup {thr'[u].link}
             /\ ~ overlapped' /\ ~ damaged' => Listed(thr[u].marks)'
  <2>1. /\ thr[u].pc \in {"open", "write"}
        /\ thr'[u].link = thr[u].link /\ thr'[u].marks = thr[u].marks
    BY <1>0, <1>2, <1>3
  <2>2. /\ thr[u].link \in thr[u].marks /\ thr[u].marks \subseteq spent \cup {thr[u].link}
        /\ ~ overlapped /\ ~ damaged => Listed(thr[u].marks)
    BY <2>1 DEF ListOK
  <2> QED BY <1>1, <2>1, <2>2 DEF Listed, Above
<1> QED BY <1>1, <1>2, <1>3 DEF ListOK

\* What is written leaves out only links with Cap others above them.
LEMMA WriteMarksList ==
  ASSUME CapOK, TypeInv, Turns, ListOK, NEW t \in Threads, WriteMarks(t)
  PROVE  ListOK'
<1> DEFINE l == thr[t].link
           marks == thr[t].marks
<1>0. thr \in [Threads -> Handler] /\ thr[t].pc = "write"
  BY DEF WriteMarks, TypeInv, Handling
<1>1. /\ thr' = [thr EXCEPT ![t] = Idle] /\ used' = Kept(marks) /\ spent' = spent \cup {l}
      /\ UNCHANGED <<overlapped, damaged>>
  BY DEF WriteMarks
<1>2. thr'[t] = Idle /\ \A u \in Threads \ {t} : thr'[u] = thr[u]
  BY <1>0, <1>1
<1>3. /\ IsFiniteSet(spent) /\ l \in marks /\ marks \subseteq spent \cup {l}
      /\ ~ overlapped /\ ~ damaged => Listed(marks)
  BY <1>0 DEF ListOK
<1>4. IsFiniteSet(spent')
  BY <1>1, <1>3, FS_AddElement
<1>5. used' \subseteq spent'
  BY <1>1, <1>3 DEF Kept
<1>6. ASSUME NEW u \in Threads, thr'[u].pc \in {"open", "write"}
      PROVE  /\ thr'[u].link \in thr'[u].marks
             /\ thr'[u].marks \subseteq spent' \cup {thr'[u].link}
  <2>1. thr'[u] = thr[u]
    BY <1>2, <1>6, IdleType
  <2> QED BY <1>1, <1>6, <2>1 DEF ListOK
<1>7. ASSUME ~ overlapped, ~ damaged
      PROVE  Listed(used)'
  <2>1. SUFFICES ASSUME NEW k \in spent', k \notin Kept(marks)
                 PROVE  Cardinality(Above(k, spent')) >= Cap
    BY <1>1 DEF Listed, Above
  <2>2. CASE k \in marks
    <3>1. ~ (Cardinality(Above(k, marks)) < Cap)
      BY <2>1, <2>2 DEF Kept, Above
    <3>2. marks \subseteq spent'
      BY <1>1, <1>3
    <3>3. Cardinality(Above(k, marks)) <= Cardinality(Above(k, spent'))
          /\ Cardinality(Above(k, marks)) \in Nat /\ Cardinality(Above(k, spent')) \in Nat
      BY <1>4, <3>2, AboveMono
    <3> QED BY <3>1, <3>3 DEF CapOK
  <2>3. CASE k \notin marks
    <3>1. k \in spent
      BY <1>1, <1>3, <2>1, <2>3
    <3>2. Cardinality(Above(k, spent)) >= Cap
      BY <1>3, <1>7, <2>3, <3>1 DEF Listed
    <3>3. spent \subseteq spent'
      BY <1>1
    <3>4. Cardinality(Above(k, spent)) <= Cardinality(Above(k, spent'))
          /\ Cardinality(Above(k, spent)) \in Nat /\ Cardinality(Above(k, spent')) \in Nat
      BY <1>4, <3>3, AboveMono
    <3> QED BY <3>2, <3>4 DEF CapOK
  <2> QED BY <2>2, <2>3
<1>8. ASSUME ~ overlapped, NEW u \in Threads
      PROVE  thr'[u] = Idle
  BY <1>0, <1>2, <1>8, IdleType DEF Turns
<1> QED BY <1>1, <1>4, <1>5, <1>6, <1>7, <1>8, IdleType DEF ListOK

LEMMA ListStep ==
  ASSUME CapOK, TypeInv, Turns, ListOK, [Next]_vars
  PROVE  ListOK'
<1>0. thr \in [Threads -> Handler]
  BY DEF TypeInv, Handling
<1>1. ASSUME NEW t \in Threads, Request(t)
      PROVE  ListOK'
  <2>1. UNCHANGED <<used, spent, damaged>> /\ (~ overlapped' => ~ overlapped)
    BY <1>1, RequestMoves
  <2>2. \A u \in Threads : thr'[u].pc \in {"open", "write"} => thr'[u] = thr[u]
    BY <1>1, RequestMoves
  <2>3. (\A u \in Threads : thr'[u].pc # "write") => \A u \in Threads : thr[u].pc # "write"
    BY <1>1, RequestMoves, IdleType
  <2> QED BY <2>1, <2>2, <2>3, ListFrame
<1>2. ASSUME NEW t \in Threads, Check(t) \/ Save(t) \/ Notice(t)
      PROVE  ListOK'
  <2>1. UNCHANGED <<used, spent, damaged, overlapped>> /\ thr[t].pc # "write"
    BY <1>2 DEF Check, Save, Notice, history
  <2>2. thr'[t].pc \notin {"open", "write"} /\ \A u \in Threads \ {t} : thr'[u] = thr[u]
    BY <1>0, <1>2, IdleType DEF Check, Save, Notice, After, Handler
  <2>3. \A u \in Threads : thr'[u].pc \in {"open", "write"} => thr'[u] = thr[u]
    BY <2>2
  <2>4. (\A u \in Threads : thr'[u].pc # "write") => \A u \in Threads : thr[u].pc # "write"
    BY <2>1, <2>2
  <2> QED BY <2>1, <2>3, <2>4, ListFrame
<1>3. ASSUME Crash
      PROVE  ListOK'
  <2>1. /\ UNCHANGED <<used, spent, overlapped>> /\ \A u \in Threads : thr'[u] = Idle
        /\ ~ damaged' => ~ damaged /\ \A u \in Threads : thr[u].pc # "write"
    BY <1>3 DEF Crash
  <2> QED BY <2>1, IdleType, ListFrame
<1>4. ASSUME UNCHANGED <<thr, used, spent, overlapped, damaged>>
      PROVE  ListOK'
  BY <1>4, ListFrame
<1> QED BY <1>1, <1>2, <1>3, <1>4, ReadMarksList, OpenMarksList, WriteMarksList
        DEF Next, Step, Propose, DecideElsewhere, Expire, Link, vars, history

-----------------------------------------------------------------------------
(* The theorems                                                            *)

LEMMA WebexInit == ASSUME Init PROVE WebexInv
<1>1. \A t \in Threads : thr[t].pc = "idle"
  BY IdleType DEF Init
<1>2. Turns /\ DecisionsOK /\ ListOK
  BY <1>1, FS_EmptySet DEF Init, Turns, DecisionsOK, ListOK, Listed
<1> QED BY <1>2, TypeInit DEF WebexInv

LEMMA WebexAlways == ASSUME CapOK PROVE Spec => []WebexInv
<1>1. Init => WebexInv
  BY WebexInit
<1>2. WebexInv /\ [Next]_vars => WebexInv'
  BY TypeStep, TurnsStep, DecisionsStep, ListStep DEF WebexInv
<1> QED BY <1>1, <1>2, PTL DEF Spec

\* Every variable keeps its type.
THEOREM TypeCorrect == ASSUME CapOK PROVE Spec => []TypeOK
<1>1. WebexInv => TypeOK
  BY DEF WebexInv, TypeInv
<1> QED BY <1>1, WebexAlways, PTL

\* While requests take turns no change is decided twice by button or link
\* (approve_change, reject_change and the checks of store.approve).
THEOREM OneDecision == ASSUME CapOK PROVE Spec => []DecidedOnce
<1>1. WebexInv => DecidedOnce
  BY DEF WebexInv, DecisionsOK, DecidedOnce
<1> QED BY <1>1, WebexAlways, PTL

\* While requests take turns a link whose mark was written is refused, unless
\* the list was truncated or Cap used links are above it (_mark_token_used).
THEOREM LinksRefused == ASSUME CapOK PROVE Spec => SpentLinksRefused
<1>1. WebexInv /\ [Next]_vars =>
        [\A t \in Threads, l \in spent :
           thr[t] = Idle /\ thr'[t].via = "link" /\ thr'[t].link = l =>
             \/ overlapped' \/ damaged
             \/ Cardinality({k \in spent : Rank[k] > Rank[l]}) >= Cap]_vars
  <2> SUFFICES ASSUME WebexInv, Next, NEW t \in Threads, NEW l \in spent,
                      thr[t] = Idle, thr'[t].via = "link", thr'[t].link = l,
                      ~ overlapped', ~ damaged
               PROVE  Cardinality(Above(l, spent)) >= Cap
    BY DEF Above
  <2>0. TypeInv /\ thr \in [Threads -> Handler] /\ thr'[t] # thr[t]
    BY IdleType DEF WebexInv, TypeInv, Handling
  <2>1. Request(t)
    <3>1. ASSUME NEW u \in Threads, Request(u)
          PROVE  u = t
      BY <2>0, <3>1, RequestMoves
    <3>2. ASSUME NEW u \in Threads, Step(u)
          PROVE  FALSE
      BY <2>0, <3>2, StepMoves
    <3>3. ~ Crash
      BY <2>0 DEF Crash
    <3> QED BY <2>0, <3>1, <3>2, <3>3 DEF Next, Propose, DecideElsewhere, Expire, Link
  <2>2. l \notin used /\ ~ overlapped /\ \A u \in Threads : thr[u] = Idle
    BY <2>0, <2>1, RequestMoves
  <2>3. Listed(used)
    BY <2>2, IdleType DEF WebexInv, ListOK
  <2> QED BY <2>2, <2>3 DEF Listed
<1> QED BY <1>1, WebexAlways, PTL DEF Spec, SpentLinksRefused
=============================================================================
