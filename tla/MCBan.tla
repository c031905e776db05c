------------------------------- MODULE MCBan -------------------------------
(* BanLifecycleHistory on a small instance. *)
EXTENDS BanLifecycleHistory, TLC

\* One hour, and more of them than a Duration of 16 values holds: 15 come out
\* as -1, an end that is past at once or, counted from 1, the second 0.
MCHours == {1, 15}

Symmetry == Permutations(Requests) \cup Permutations(Users) \cup Permutations(BanIds)
=============================================================================
