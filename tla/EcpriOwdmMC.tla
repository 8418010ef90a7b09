---------------------------- MODULE EcpriOwdmMC ----------------------------
(* EcpriOwdm for TLC: the nodes are interchangeable. *)
EXTENDS EcpriOwdm, TLC

Symmetry == Permutations(Node)
=============================================================================
