----------------------------- MODULE UserTable ------------------------------
(***************************************************************************)
(* identity.users as far as the tables that hang on it see it: which       *)
(* accounts exist, under which address, and that ids are not drawn twice.  *)
(* Lifecycle and credentials of an account are in Account.                 *)
(***************************************************************************)
EXTENDS Handlers

CONSTANTS Users,     \* user ids the database may draw
          Emails,
          Deleted    \* a row that was there once

ASSUME UserTableAssumption ==
    None # Deleted /\ None \notin Users \cup Emails /\ Deleted \notin Users \cup Emails

VARIABLE users   \* users[u]: its address; None before the account is made, Deleted after it

Exists(u) == users[u] \in Emails
=============================================================================
