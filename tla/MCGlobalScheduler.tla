------------------------- MODULE MCGlobalScheduler -------------------------
(* Instances of GlobalScheduler for TLC. *)
EXTENDS GlobalScheduler, TLC

CONSTANTS n1, n2, u1, task, f1, near, least

TwoNodes == {n1, n2}
Argument == {u1}
ArgumentAndTask == {u1, task}
OneName == {f1}
TwoCalls == {near, least}

(* Fetching the argument outweighs one task ahead, not two. *)
Sizes == u1 :> 3 @@ task :> 1

Requests == [c \in TwoCalls |->
  [uid |-> task, name |-> f1, uids |-> IF c = near THEN Argument ELSE {},
   nodeId |-> ZeroNode, localityFlag |-> TRUE]]

(* A free node, one with all slots taken, one with a queue as well. *)
Reports == {[runningTasks |-> w[1], queuedTasks |-> w[2], avgRunningTime |-> 2,
             nodeId |-> n] : w \in {<<1, 0>>, <<2, 0>>, <<2, 1>>}, n \in TwoNodes}
=============================================================================
