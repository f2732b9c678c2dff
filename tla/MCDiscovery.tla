---------------------------- MODULE MCDiscovery ----------------------------
(* An instance of Discovery for TLC: two ISPs, a wide network inside which *)
(* each of them has the same narrow one, and two addresses.                *)
EXTENDS Discovery, TLC

CONSTANTS d1, d2, ispA, ispB, sched, noAddress, noIsp, r1

MCRules ==
  {[base |-> 0, len |-> 0, isp |-> ispA], [base |-> 1, len |-> 1, isp |-> ispA],
   [base |-> 1, len |-> 1, isp |-> ispB]}
=============================================================================
