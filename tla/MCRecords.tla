----------------------------- MODULE MCRecords -----------------------------
(***************************************************************************)
(* The records of planning, those of goals, and the event log with the     *)
(* hooks' spool that feeds it.  One at a time, so that their states add up *)
(* instead of multiplying.                                                 *)
(***************************************************************************)
EXTENDS Planning, GoalProgress, HookSpool, TLC

VARIABLE family

RecordSymmetry == Permutations(Proposal) \cup Permutations(TaskId) \cup Permutations(Key)

recordVars == <<planningVars, goalVars, hookVars, family>>

RecordsInit ==
  /\ PlanningInit /\ GoalInit /\ HookInit
  /\ family \in {"planning", "goals", "events"}
  /\ family # "goals" => goal.status = "draft"

RecordsNext ==
  /\ UNCHANGED family
  /\ \/ family = "planning" /\ PlanningNext /\ UNCHANGED <<goalVars, hookVars>>
     \/ family = "goals" /\ GoalNext /\ UNCHANGED <<planningVars, hookVars>>
     \/ family = "events" /\ HookNext /\ UNCHANGED <<planningVars, goalVars>>

RecordsSpec == RecordsInit /\ [][RecordsNext]_recordVars
=============================================================================
