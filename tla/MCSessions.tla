----------------------------- MODULE MCSessions -----------------------------
(* An instance of Sessions for TLC: two names, one of them the installer's. *)
EXTENDS Sessions, TLC

CONSTANTS root, other, noUser
=============================================================================
