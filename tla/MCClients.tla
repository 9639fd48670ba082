----------------------------- MODULE MCClients -----------------------------
(***************************************************************************)
(* The server's clients by themselves: the worker's process with a task,   *)
(* the worker loops and the project's control state, and the desktop's     *)
(* status.  One at a time, so that their states add up instead of          *)
(* multiplying.                                                            *)
(***************************************************************************)
EXTENDS MCEdgeWorker, DesktopClient

VARIABLES control, loopAt, loopReason, word, begunOn, part

Loops == INSTANCE LoopControl WITH at <- loopAt, reason <- loopReason

loopControlVars == <<control, loopAt, loopReason, word, begunOn>>
clientVars == <<allVars, loopControlVars, desktopVars, part>>

ClientsInit ==
  /\ EdgeInit /\ Loops!Init /\ DesktopInit
  /\ part \in {"worker", "loops", "status"}

ClientsNext ==
  /\ UNCHANGED part
  /\ \/ part = "worker" /\ EdgeNext /\ UNCHANGED <<loopControlVars, desktopVars>>
     \/ part = "loops" /\ Loops!Next /\ UNCHANGED <<allVars, desktopVars>>
     \/ part = "status" /\ DesktopNext /\ UNCHANGED <<allVars, loopControlVars>>

\* The fairness of TimedSpec of EdgeWorker and of FairSpec of LoopControl, each for the
\* part that it is about.
ClientsSpec ==
  /\ ClientsInit
  /\ [][ClientsNext]_clientVars
  /\ WF_allVars(part = "worker" /\ Pass)
  /\ Loops!LoopFairness

-----------------------------------------------------------------------------
(* Properties *)

\* The control state is never running with a stop pending, whichever of the loops and
\* the operator wrote it last (LoopControl).
StopIsNotRunning == Loops!StopIsNotRunning

\* A pause or stop that nobody revokes ends every loop in the end, also one that goes
\* on failing and one that does not always get to read the control state (LoopControl).
HoldEndsLoops == Loops!HoldEndsLoops
=============================================================================
