----------------------------- MODULE MCSessions -----------------------------
(* SessionsHistory on a small instance. *)
EXTENDS SessionsHistory, TLC

Symmetry == Permutations(Users) \cup Permutations(Emails) \cup Permutations(Requests)

\* At most one of the accounts found at the start is more than a registration.
MCInit == /\ HInit
          /\ \E u \in Users : \A v \in Users \ {u} : Exists(v) =>
                /\ accounts[v].authType = "email" /\ accounts[v].role = "USER"
                /\ ~ accounts[v].verified /\ ~ accounts[v].factor

MCSpec == MCInit /\ [][HNext]_hvars
=============================================================================
