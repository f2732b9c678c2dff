---------------------------- MODULE MCRateLimit ----------------------------
(* An instance of RateLimit for TLC: one account typed in two ways and     *)
(* another account, tried from two addresses.                              *)
EXTENDS RateLimit, TLC

CONSTANTS ip1, ip2, ana, Ana, bob

MCLower == (ana :> ana) @@ (Ana :> ana) @@ (bob :> bob)

AddressSymmetry == Permutations(Ips)
=============================================================================
