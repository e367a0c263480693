--------------------------- MODULE MCObjectTable ---------------------------
(* Instances of ObjectTable for TLC. *)
EXTENDS ObjectTable

CONSTANTS u1, u2, n1, c1

TwoUids == {u1, u2}
OneNode == {n1}
OneClient == {c1}
=============================================================================
