----------------------------- MODULE MCAccounts -----------------------------
(* Instances of Accounts for TLC. *)
EXTENDS Accounts, TLC

\* Requests are interchangeable; the owner's device is not.
Symmetric == Permutations(Requests) \cup Permutations(Nonces)
=============================================================================
