-------------------------- MODULE MCNodeLiveness ---------------------------
(* Instances of NodeLiveness for TLC. *)
EXTENDS NodeLiveness

CONSTANTS n1

OneNode == {n1}
=============================================================================
