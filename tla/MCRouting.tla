----------------------------- MODULE MCRouting ------------------------------
(* An instance of Routing for TLC. *)
EXTENDS Routing, TLC

CONSTANTS n1, n2, d, c1, k1, h1, h2, w1

Symmetry == Permutations(Hook) \cup Permutations(Number)

(* A second delivery matters while the conversation is being created, a      *)
(* worker after that: not both at once.                                      *)
Apart == \/ \A w \in Worker : job[w] = AtRest
         \/ Cardinality({h \in Hook : hook[h] # Idle}) <= 1
=============================================================================
