-------------------------------- MODULE MCCred -------------------------------
(* CredentialsHistory on a small instance. *)
EXTENDS CredentialsHistory, TLC

Symmetry == Permutations(Users) \cup Permutations(Emails) \cup Permutations(Passwords)
            \cup Permutations(Salts) \cup Permutations(Tokens) \cup Permutations(Requests)

\* A new address, or a new password together with the loss of the role.
MCUpdates ==
    [email : Emails, pw : {None}, role : {None}]
    \cup [email : {None}, pw : Passwords, role : {"USER"}]
=============================================================================
