---------------------------- MODULE MCTaskLease ----------------------------
(* Instances of TaskLease for TLC. *)
EXTENDS TaskLease, TLC

\* Every task belongs to the one goal.
OneGoal == [t \in Task |-> CHOOSE g \in Goal : TRUE]

\* No task belongs to a goal.
NoGoal == [t \in Task |-> None]

\* Clocks that are right, one tick fast, and far behind.
ClockSkews == {-1, 0, 1}
=============================================================================
