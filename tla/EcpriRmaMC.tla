----------------------------- MODULE EcpriRmaMC -----------------------------
(* EcpriRma for TLC: when they all call and are called, the nodes are        *)
(* interchangeable.                                                          *)
EXTENDS EcpriRma, TLC

Symmetry == Permutations(Node)
=============================================================================
