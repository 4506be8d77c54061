-------------------------- MODULE MCBridgeForwarding --------------------------
(***************************************************************************)
(* Instances of BridgeForwarding for TLC.  The objects are interchangeable: *)
(* Devs and Keys are reused as soon as nothing refers to them.              *)
(***************************************************************************)
EXTENDS BridgeForwarding, TLC

Symmetry == Permutations(Devs) \cup Permutations(Keys)
=============================================================================
