----------------------------- MODULE MCCluster -----------------------------
(* Instances of Cluster for TLC. *)
EXTENDS Cluster

CONSTANTS u1, a1, n1, n2, c1, f1

OneUid == {u1}
OneArgument == {a1}
TwoNodes == {n1, n2}
OneClient == {c1}
OneName == {f1}
SecondNode == {n2}
FirstNode == [u \in OneUid |-> n1]
(* A task without arguments, and one to be run where its argument is. *)
AnyNode == [u \in OneUid |-> [name |-> f1, uids |-> {}, nodeId |-> ZeroNode,
                              localityFlag |-> TRUE]]
NearArgument == [u \in OneUid |-> [name |-> f1, uids |-> {a1}, nodeId |-> ZeroNode,
                                   localityFlag |-> TRUE]]
=============================================================================
