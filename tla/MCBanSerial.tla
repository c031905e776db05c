----------------------------- MODULE MCBanSerial -----------------------------
(* BanLifecycle on small instances: requests one at a time, and two. *)
EXTENDS BanLifecycle
=============================================================================
