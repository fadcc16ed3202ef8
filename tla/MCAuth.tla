------------------------------- MODULE MCAuth -------------------------------
(* claw-auth and those who ask it.  A behaviour is one of Accounts, the    *)
(* legacy account and one more, or one of McpIdentity, where an edit of a  *)
(* user is any change of one row; the other one rests in an initial state. *)
(* McpIdentity comes with one edit and a restart, or with two edits and no *)
(* bind tokens.                                                            *)
EXTENDS Auth, TLC

CONSTANTS
  admin, bob, e1, s1, s2, t1,
  u1, u2, pat1, bind1, r1

VARIABLE part

identity == <<row, pat, bind, cache, req, had, edits, restarts>>

AuthInit ==
  /\ part \in {"accounts", "restart", "edits"}
  /\ Init
  /\ Identity!Init /\ (part = "accounts" => \A n \in Callers : row[n].role = "admin")

AuthNext ==
  \/ part = "accounts" /\ Next /\ UNCHANGED <<part, identity>>
  \/ part = "restart" /\ Identity!Next /\ edits' <= 1 /\ UNCHANGED <<part, vars>>
  \/ /\ part = "edits" /\ Identity!Next /\ restarts' = 0 /\ bind' = bind
     /\ UNCHANGED <<part, vars>>

AuthSpec == AuthInit /\ [][AuthNext]_<<vars, part, identity>>

\* The two callers are alike.
EqualNames == Permutations({u1, u2})
=============================================================================
