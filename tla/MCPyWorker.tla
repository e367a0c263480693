---------------------------- MODULE MCPyWorker -----------------------------
(* Instances of PyWorker for TLC. *)
EXTENDS PyWorker

CONSTANTS t1, t2, t3, t4, s1

FourTasks == {t1, t2, t3, t4}
OneStatus == {s1}

(* The function of t1 calls get on the object of t2. *)
FirstNeedsSecond == [t \in FourTasks |-> IF t = t1 THEN {t2} ELSE {}]
=============================================================================
