---------------------------- MODULE MCRouterDnat ----------------------------
(***************************************************************************)
(* RouterDnat on small instances.                                          *)
(***************************************************************************)
EXTENDS RouterDnat, TLC

Symmetry == Permutations(Entries) \cup Permutations(Ips) \cup Permutations(Targets)

=============================================================================
