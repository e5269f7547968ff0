----------------------------- MODULE MCAccounts -----------------------------
(* One address, a few requests, two of them at a time. *)
EXTENDS Accounts
=============================================================================
