----------------------------- MODULE MCTwoFactor -----------------------------
(* TwoFactorHistory on small instances. *)
EXTENDS TwoFactorHistory, TLC

Symmetry == Permutations(Users) \cup Permutations(Secrets) \cup Permutations(Requests)
=============================================================================
