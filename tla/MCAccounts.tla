---------------------------- MODULE MCAccounts ----------------------------
(* Small instances of Accounts for TLC: see the .cfg files. *)
EXTENDS Accounts, TLC

Alike == Permutations(Users)

First == CHOOSE l \in Logins : l \notin Odd
Second == CHOOSE l \in Logins : l \notin Odd /\ l # First
AnyText == CHOOSE t \in Texts : t \notin Odd
\* An administrator with a password that was never hashed, and a guest without.
Default ==
    First :> [login |-> First, access |-> "admin", pw |-> [text |-> AnyText, hashed |-> FALSE]]
    @@ Second :> [login |-> Second, access |-> "plain", pw |-> NoPassword]
=============================================================================
