----------------------------- MODULE MCAccounts -----------------------------
(* Instances of Accounts: the legacy account and one more.                *)
EXTENDS Accounts
CONSTANTS admin, bob, e1, s1, s2, t1, t2
=============================================================================
