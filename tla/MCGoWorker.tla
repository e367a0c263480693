---------------------------- MODULE MCGoWorker -----------------------------
(* Instances of GoWorker for TLC. *)
EXTENDS GoWorker

CONSTANTS t1, t2, t3

ThreeTasks == {t1, t2, t3}
=============================================================================
