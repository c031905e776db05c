------------------------------- MODULE MCEmail -------------------------------
(* EmailVerificationHistory on small instances. *)
EXTENDS EmailVerificationHistory, TLC

\* UpdateUserAdmin is asked for an address.
MCUpdates == [email : Emails, role : {None}]

Symmetry == Permutations(Users) \cup Permutations(Emails)
            \cup Permutations(Otps) \cup Permutations(Requests)
=============================================================================
