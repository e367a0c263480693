-------------------------- MODULE MCLocalObjStore --------------------------
(* Instances of LocalObjStore for TLC. *)
EXTENDS LocalObjStore

CONSTANTS u1, n1, n2, g1, g2

OneUid == {u1}
TwoNodes == {n1, n2}
TwoGetters == {g1, g2}

(* With all nodes live only node 0 is answered, with none every holder too. *)
AllOrNone == {{}, TwoNodes}

Get(n, cp, ca) == [node |-> n, get |-> [uid |-> u1, copy |-> cp, cache |-> ca]]

(* Two Gets of the same object on one node: one copies it and keeps the copy, *)
(* one only waits for the task to complete.                                   *)
CopyAndWait == [g \in TwoGetters |-> Get(n1, g = g1, g = g1)]
=============================================================================
