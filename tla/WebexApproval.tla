--------------------------- MODULE WebexApproval ---------------------------
(***************************************************************************)
(* Deciding a proposed change from Webex: the buttons of the card that is  *)
(* posted with a proposal (webex_approval.py behind a webhook of the GUI)  *)
(* and the signed links of the same message, which need a portal login.    *)
(* The record of the change is reduced to its status and proposer: the     *)
(* store and its torn files are ChangeWorkflow's.                          *)
(*                                                                         *)
(* A link is its change and action.  Used links are kept in a JSON file    *)
(* that every request reads whole, extends and rewrites in place.          *)
(***************************************************************************)
EXTENDS Naturals, FiniteSets

CONSTANTS Changes, Users, Emails,
          Threads,   \* requests to the GUI
          Rank,      \* Rank[l]: the place of token l in alphabetical order
          Cap,       \* used links that the file keeps (500)
          NoUser,    \* no account
          MaxRequests, \* bound on buttons pressed and links confirmed
          MaxLinks,  \* bound on edits of Webex emails in claw-auth
          MaxCrashes \* bound on restarts of the GUI

CapOK == Cap \in Nat

Actions == {"approve", "reject"}
Links == Changes \X Actions

VARIABLES
  status, proposer,  \* of every change
  room,     \* room[c]: whether card and links of c are there ("posted"), with
            \* the links past WEBEX_ACTION_TOKEN_TTL ("expired"), or not ("none")
  used,     \* webex-action-tokens.json
  linked,   \* claw-auth: linked[e], the account with webex_email e
  cache,    \* _EMAIL_CACHE of the GUI: absent keys are "unasked"
  thr,      \* thr[t]: a request in progress
  requests, edits, crashes,
  decisions, \* history: <<change, action, user, link or card>> that were saved
  spent,     \* history: links whose mark was written
  overlapped, \* history: two requests were in progress at once
  damaged    \* history: a restart came between truncation and write

counters == <<requests, edits, crashes>>
history == <<decisions, spent, overlapped, damaged>>
vars == <<status, proposer, room, used, linked, cache, thr, counters, history>>
-----------------------------------------------------------------------------
NoLink == <<"none", "none">>
Idle == [pc |-> "idle", via |-> "none", link |-> NoLink, user |-> NoUser, marks |-> {}]
Begun(pc, via, link, user) ==
  [pc |-> pc, via |-> via, link |-> link, user |-> user, marks |-> {}]

Change(t) == thr[t].link[1]
Action(t) == thr[t].link[2]

Init ==
  /\ status = [c \in Changes |-> "none"]
  /\ proposer = [c \in Changes |-> NoUser]
  /\ room = [c \in Changes |-> "none"] /\ used = {}
  /\ linked \in {f \in [Emails -> Users \cup {NoUser}] :
                   \A d, e \in Emails : d # e /\ f[d] # NoUser => f[d] # f[e]}
  /\ cache = [e \in Emails |-> "unasked"]
  /\ thr = [t \in Threads |-> Idle]
  /\ requests = 0 /\ edits = 0 /\ crashes = 0
  /\ decisions = {} /\ spent = {}
  /\ overlapped = FALSE /\ damaged = FALSE

Begin(t, handler) ==
  /\ thr[t] = Idle
  /\ thr' = [thr EXCEPT ![t] = handler]
  /\ overlapped' = (overlapped \/ \E u \in Threads : thr[u] # Idle)

(* propose_change saves the change and posts card and links; when the post *)
(* fails the proposal stands all the same.                                 *)
Propose(c, u) ==
  /\ status[c] = "none"
  /\ status' = [status EXCEPT ![c] = "proposed"]
  /\ proposer' = [proposer EXCEPT ![c] = u]
  /\ room' \in {room, [room EXCEPT ![c] = "posted"]}
  /\ UNCHANGED <<used, linked, cache, thr, counters, history>>

(* Somebody decides the change in the GUI's own list.                      *)
DecideElsewhere(c, s) ==
  /\ status[c] = "proposed" /\ s \in {"approved", "rejected"}
  /\ status' = [status EXCEPT ![c] = s]
  /\ UNCHANGED <<proposer, room, used, linked, cache, thr, counters, history>>

Expire(c) ==
  /\ room[c] = "posted"
  /\ room' = [room EXCEPT ![c] = "expired"]
  /\ UNCHANGED <<status, proposer, used, linked, cache, thr, counters, history>>

(* set_webex_email in claw-auth; an email belongs to one account.          *)
Link(e, u) ==
  /\ edits < MaxLinks /\ edits' = edits + 1
  /\ linked[e] # u
  /\ u # NoUser => \A d \in Emails : linked[d] # u
  /\ linked' = [linked EXCEPT ![e] = u]
  /\ UNCHANGED <<status, proposer, room, used, cache, thr, requests, crashes, history>>
-----------------------------------------------------------------------------
(* POST /webex/action: verify_action_token, then the engine.  The GET that *)
(* shows the confirmation verifies and changes nothing.                    *)
Click(t, l, u) ==
  /\ requests < MaxRequests /\ requests' = requests + 1
  /\ room[l[1]] = "posted" /\ l \notin used
  /\ Begin(t, Begun("engine", "link", l, u))
  /\ UNCHANGED <<status, proposer, room, used, linked, cache, edits, crashes,
                 decisions, spent, damaged>>

\* A slip: an email that was not looked up yet is taken for an account.
AccountUnasked(e) == cache[e]

(* lookup_username_by_webex_email: what was found once is remembered, also *)
(* that there was no account.                                              *)
Account(e) == IF cache[e] = "unasked" THEN linked[e] ELSE cache[e]

(* handle_attachment_action: somebody with Webex email e presses a button; *)
(* without an account the answer is that the email is not linked.          *)
Press(t, l, e) ==
  /\ requests < MaxRequests /\ requests' = requests + 1
  /\ room[l[1]] # "none"
  /\ cache' = [cache EXCEPT ![e] = Account(e)]
  /\ IF Account(e) = NoUser
       THEN thr[t] = Idle /\ UNCHANGED <<thr, overlapped>>
       ELSE Begin(t, Begun("engine", "card", l, Account(e)))
  /\ UNCHANGED <<status, proposer, room, used, linked, edits, crashes,
                 decisions, spent, damaged>>

(* approve_change and reject_change check, store.approve and store.reject  *)
(* check again before they save; the last check counts.  A link is marked  *)
(* whether the change was decided or the engine refused.                   *)
After(t) == IF thr[t].via = "link" THEN [thr[t] EXCEPT !.pc = "mark"] ELSE Idle

\* A slip: the status is not looked at.
MayDecideAnyStatus(t) ==
  Action(t) = "approve" => thr[t].user # proposer[Change(t)]

(* assert_can_approve, and the check of reject_change.                     *)
MayDecide(t) ==
  /\ status[Change(t)] = "proposed"
  /\ Action(t) = "approve" => thr[t].user # proposer[Change(t)]

Check(t) ==
  /\ thr[t].pc = "engine"
  /\ thr' = [thr EXCEPT ![t] = IF MayDecide(t) THEN [@ EXCEPT !.pc = "save"] ELSE After(t)]
  /\ UNCHANGED <<status, proposer, room, used, linked, cache, counters, history>>

Save(t) ==
  /\ thr[t].pc = "save"
  /\ thr' = [thr EXCEPT ![t].pc = "notice"]
  /\ status' = [status EXCEPT ![Change(t)] = IF Action(t) = "approve" THEN "approved" ELSE "rejected"]
  /\ decisions' = decisions \cup {<<Change(t), Action(t), thr[t].user, thr[t].via>>}
  /\ UNCHANGED <<proposer, room, used, linked, cache, counters,
                 spent, overlapped, damaged>>

(* A post that fails is logged.                                            *)
Notice(t) ==
  /\ thr[t].pc = "notice"
  /\ thr' = [thr EXCEPT ![t] = After(t)]
  /\ UNCHANGED <<status, proposer, room, used, linked, cache, counters,
                 decisions, spent, overlapped, damaged>>
-----------------------------------------------------------------------------
(* _mark_token_used                                                        *)

\* A slip: the list is not read first.
ReadMarksNone(t) ==
  /\ thr[t].pc = "mark"
  /\ thr' = [thr EXCEPT ![t].pc = "open", ![t].marks = {thr[t].link}]
  /\ UNCHANGED <<status, proposer, room, used, linked, cache, counters, history>>

ReadMarks(t) ==
  /\ thr[t].pc = "mark"
  /\ thr' = [thr EXCEPT ![t].pc = "open", ![t].marks = used \cup {thr[t].link}]
  /\ UNCHANGED <<status, proposer, room, used, linked, cache, counters, history>>

(* A file that was opened for writing and not written reads as no marks.   *)
OpenMarks(t) ==
  /\ thr[t].pc = "open"
  /\ thr' = [thr EXCEPT ![t].pc = "write"]
  /\ used' = {}
  /\ UNCHANGED <<status, proposer, room, linked, cache, counters, history>>

\* sorted(used)[-500:]
Kept(marks) == {l \in marks : Cardinality({k \in marks : Rank[k] > Rank[l]}) < Cap}

WriteMarks(t) ==
  /\ thr[t].pc = "write"
  /\ thr' = [thr EXCEPT ![t] = Idle]
  /\ used' = Kept(thr[t].marks)
  /\ spent' = spent \cup {thr[t].link}
  /\ UNCHANGED <<status, proposer, room, linked, cache, counters,
                 decisions, overlapped, damaged>>

Crash ==
  /\ crashes < MaxCrashes /\ crashes' = crashes + 1
  /\ thr' = [t \in Threads |-> Idle]
  /\ cache' = [e \in Emails |-> "unasked"]
  /\ damaged' = (damaged \/ \E t \in Threads : thr[t].pc = "write")
  /\ UNCHANGED <<status, proposer, room, used, linked, requests, edits,
                 decisions, spent, overlapped>>
-----------------------------------------------------------------------------
Request(t) ==
  \/ \E l \in Links, u \in Users : Click(t, l, u)
  \/ \E l \in Links, e \in Emails : Press(t, l, e)

Step(t) == Check(t) \/ Save(t) \/ Notice(t) \/ ReadMarks(t) \/ OpenMarks(t) \/ WriteMarks(t)

Next ==
  \/ \E c \in Changes, u \in Users : Propose(c, u)
  \/ \E c \in Changes : DecideElsewhere(c, "approved") \/ DecideElsewhere(c, "rejected")
  \/ \E c \in Changes : Expire(c)
  \/ \E e \in Emails, u \in Users \cup {NoUser} : Link(e, u)
  \/ \E t \in Threads : Request(t) \/ Step(t)
  \/ Crash

Spec == Init /\ [][Next]_vars
-----------------------------------------------------------------------------
TypeOK ==
  /\ status \in [Changes -> {"none", "proposed", "approved", "rejected"}]
  /\ proposer \in [Changes -> Users \cup {NoUser}]
  /\ room \in [Changes -> {"none", "posted", "expired"}]
  /\ used \subseteq Links /\ spent \subseteq Links
  /\ linked \in [Emails -> Users \cup {NoUser}]
  /\ cache \in [Emails -> Users \cup {NoUser, "unasked"}]
  /\ \A t \in Threads :
       /\ thr[t].pc \in {"idle", "engine", "save", "notice", "mark", "open", "write"}
       /\ thr[t].via \in {"none", "card", "link"} /\ thr[t].link \in Links \cup {NoLink}
       /\ thr[t].user \in Users \cup {NoUser} /\ thr[t].marks \subseteq Links

(* A change is decided from Webex once, whatever is pressed, confirmed or  *)
(* delivered again and whichever marks are lost to a restart or to the     *)
(* limit of the list, as long as requests do not overlap.                  *)
DecidedOnce ==
  ~ overlapped => \A d, e \in decisions : d[1] = e[1] => d = e

(* A link that was confirmed is not taken a second time, unless requests   *)
(* overlapped, a restart truncated the list, or Cap used links come after  *)
(* it in the alphabet: the list keeps the last ones, not the newest.       *)
SpentLinksRefused ==
  [][\A t \in Threads, l \in spent :
       thr[t] = Idle /\ thr'[t].via = "link" /\ thr'[t].link = l =>
         \/ overlapped' \/ damaged
         \/ Cardinality({k \in spent : Rank[k] > Rank[l]}) >= Cap]_vars
=============================================================================
