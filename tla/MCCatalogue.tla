---------------------------- MODULE MCCatalogue ----------------------------
(* An instance of Catalogue for TLC: a laboratory with two devices, an     *)
(* installation in production with one, two models, and documents of a     *)
(* device just adopted, of one asked for half of its tree, and of another. *)
EXTENDS Catalogue, TLC

CONSTANTS lab, prod, modelA, modelB, ssid, wan, w1, w2, ssidAt, wanAt, there, d1, d2, d3

MCDocs ==
  {[paths |-> [p \in Paths |-> 0], deduced |-> w1],
   [paths |-> [p \in Paths |-> IF p = ssid THEN 2 ELSE 1], deduced |-> w1],
   [paths |-> [p \in Paths |-> IF p = ssid THEN 1 ELSE 0], deduced |-> w2]}

MCFleet == [i \in Installations |-> IF i = lab THEN {d1, d2} ELSE {d3}]
MCKeys == <<modelA, modelB>>

(* Nothing tells the laboratory's devices apart, nor the concepts.         *)
MCSymmetry == Permutations({d1, d2}) \cup Permutations(Concepts)
=============================================================================
