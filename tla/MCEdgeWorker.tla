---------------------------- MODULE MCEdgeWorker ----------------------------
(* Instances of EdgeWorker for TLC. *)
EXTENDS EdgeWorker, TLC

\* No task belongs to a goal.
NoGoal == [t \in Task |-> None]

\* The loops are alike.
WorkerSymmetry == Permutations(Worker)
=============================================================================
