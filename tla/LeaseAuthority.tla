--------------------------- MODULE LeaseAuthority ---------------------------
(***************************************************************************)
(* What the task queue promises about the authority to execute a task,     *)
(* whatever requests arrive and in whatever order: a task is in the hands  *)
(* of at most one worker, and it changes hands only through a moment at    *)
(* which nobody holds it.  TaskLease implements this specification.        *)
(***************************************************************************)
CONSTANTS Task, Worker,
          None    \* nobody holds the task

VARIABLE holder   \* holder[t]: the worker that may execute t now, or None

Init == holder = [t \in Task |-> None]

\* Any number of tasks may change hands at once: time passing can end several
\* leases in one step.
Next ==
  /\ holder' \in [Task -> Worker \cup {None}]
  /\ \A t \in Task :
       \/ holder'[t] = holder[t]
       \/ holder[t] = None
       \/ holder'[t] = None

Spec == Init /\ [][Next]_holder
=============================================================================
