--------------------------- MODULE MCAutoRestore ---------------------------
(* Instances of AutoRestore for TLC: an SSID the device tells, a passphrase *)
(* it does not, the factory value and one value of the users.               *)
EXTENDS AutoRestore, TLC

CONSTANTS ssid, key, factory, home, none, blank, nullConfig, r1, r2

RequestSymmetry == Permutations(Requests)
=============================================================================
