------------------------------- MODULE MCGCS -------------------------------
(* Instances of GCS for TLC. *)
EXTENDS GCS

CONSTANTS u1, n1, n2, c1

OneUid == {u1}
OneNode == {n1}
TwoNodes == {n1, n2}
OneClient == {c1}
=============================================================================
