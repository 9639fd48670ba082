---------------------------- MODULE LoopControl ----------------------------
(***************************************************************************)
(* How an operator pauses and stops the worker loops of a project: the     *)
(* project's control state on the server (GET and PATCH                    *)
(* /v1/projects/:projectId/control), the commands of skybridge-control.ps1,*)
(* and the -Loop mode of skybridge-edge-worker.ps1, which writes the same  *)
(* two fields when a loop starts, degrades, catches an exception and ends. *)
(*                                                                         *)
(* What an iteration does with its task is EdgeWorker; here it is claimed, *)
(* and ends well, badly or with an exception.  A PATCH that throws may     *)
(* have been served or not.                                                *)
(***************************************************************************)
CONSTANT Worker   \* the loops, one per worker id

VARIABLES
  control,   \* the project's control_state: state and stop_requested
  at,        \* at[w]: the next step of w's loop
  reason,    \* reason[w]: what the iteration that ends has to say
  word,      \* history: the operator's last word, "go" or "hold"
  begunOn    \* history: begunOn[w]: the word on which w's iteration began, or a later go

loopVars == <<at, reason, begunOn>>
vars == <<control, loopVars, word>>

-----------------------------------------------------------------------------
(* Data *)

Control == [state : {"running", "paused", "stopped"}, stop : BOOLEAN]
Step == {"down", "starting", "ready", "checked", "polling", "busy", "skipped",
         "caught", "after", "ending"}
Reason == {"none", "ok", "failure", "held"}

Running == [state |-> "running", stop |-> FALSE]
Paused == [state |-> "paused", stop |-> FALSE]
Stopped == [state |-> "stopped", stop |-> TRUE]

\* The PATCHes that leave stop_requested out of the body keep it.
PausedKeepingStop == [control EXCEPT !.state = "paused"]

Go(w, next) == at' = [at EXCEPT ![w] = next]
Say(w, what) == reason' = [reason EXCEPT ![w] = what]

-----------------------------------------------------------------------------
(* The operator: skybridge-control.ps1 *)

\* A go is also one for the iterations that have begun.
SayGo == word' = "go" /\ begunOn' = [w \in Worker |-> "go"]

StartProject == control' = Running /\ SayGo /\ UNCHANGED <<at, reason>>
PauseProject == control' = Paused /\ word' = "hold" /\ UNCHANGED loopVars
StopProject == control' = Stopped /\ word' = "hold" /\ UNCHANGED loopVars

\* Somebody starts skybridge-edge-worker.ps1 -Loop: a go as well.
Launch(w) ==
  /\ at[w] = "down"
  /\ Go(w, "starting")
  /\ SayGo
  /\ UNCHANGED <<control, reason>>

-----------------------------------------------------------------------------
(* The loop *)

\* Mutant: the first PATCH forgets a stop that is pending.
FirstPatchKeepsStop(w) ==
  /\ at[w] = "starting"
  /\ \/ control' = [control EXCEPT !.state = "running"] /\ Go(w, "ready")
     \/ control' \in {control, Running} /\ Go(w, "ending")
  /\ UNCHANGED <<reason, word, begunOn>>

\* The first PATCH sets running and clears the stop, whoever asked for it; an exception
\* leads to the finally block.
FirstPatch(w) ==
  /\ at[w] = "starting"
  /\ \/ control' = Running /\ Go(w, "ready")
     \/ control' \in {control, Running} /\ Go(w, "ending")
  /\ UNCHANGED <<reason, word, begunOn>>

\* Test-EdgeWorkerReadiness; when it fails the loop pauses the project, if it can, and ends.
CheckReadiness(w) ==
  /\ at[w] = "ready"
  /\ begunOn' = [begunOn EXCEPT ![w] = word]
  /\ \/ Go(w, "checked") /\ UNCHANGED control
     \/ control' \in {control, PausedKeepingStop} /\ Go(w, "ending")
  /\ UNCHANGED <<reason, word>>

\* Register-Worker or Send-WorkerHeartbeat throws.
ApproachThrows(w) ==
  /\ at[w] = "checked"
  /\ Go(w, "caught")
  /\ UNCHANGED <<control, reason, word, begunOn>>

\* Mutant: only a stop ends the loop, a pause does not.
HeldByStopOnly == control.stop \/ control.state = "stopped"

Held == control.stop \/ control.state \in {"stopped", "paused"}

\* The control state is read and obeyed ...
ObeyHold(w) ==
  /\ at[w] = "checked"
  /\ Held
  /\ Go(w, "after")
  /\ Say(w, "held")
  /\ UNCHANGED <<control, word, begunOn>>

\* ... and when it says running, or cannot be read, the loop goes on to the queue.
PassControl(w, readable) ==
  /\ at[w] = "checked"
  /\ readable => ~Held
  /\ Go(w, "polling")
  /\ UNCHANGED <<control, reason, word, begunOn>>

FindNothing(w) ==
  /\ at[w] = "polling"
  /\ Go(w, "after")
  /\ Say(w, "ok")
  /\ UNCHANGED <<control, word, begunOn>>

Claim(w) ==
  /\ at[w] = "polling"
  /\ Go(w, "busy")
  /\ UNCHANGED <<control, reason, word, begunOn>>

\* Claim-Task is answered 409, another worker having been faster ...
LoseClaim(w) ==
  /\ at[w] = "polling"
  /\ Go(w, "skipped")
  /\ UNCHANGED <<control, reason, word, begunOn>>

\* ... or a call gets no answer, here and in the last report on the task.
CallThrows(w) ==
  /\ at[w] \in {"polling", "busy"}
  /\ Go(w, "caught")
  /\ UNCHANGED <<control, reason, word, begunOn>>

EndTask(w) ==
  /\ at[w] = "busy"
  /\ \E what \in {"ok", "failure"} : Say(w, what)
  /\ Go(w, "after")
  /\ UNCHANGED <<control, word, begunOn>>

\* The catch block pauses the whole project, also for a claim that was lost.  Then the
\* loop ends (StopOnFailure, or the PATCH throws too) or sleeps until its next iteration.
Catch(w) ==
  /\ at[w] \in {"caught", "skipped"}
  /\ \/ control' = PausedKeepingStop /\ (Go(w, "ready") \/ Go(w, "ending"))
     \/ UNCHANGED control /\ Go(w, "ending")
  /\ UNCHANGED <<reason, word, begunOn>>

\* The PATCH after an iteration touches neither field.  A hold ends the loop; MaxTasks,
\* the idle timeout, StopOnFailure and a PATCH that throws may.
AfterIteration(w) ==
  /\ at[w] = "after"
  /\ \/ reason[w] # "held" /\ Go(w, "ready")
     \/ Go(w, "ending")
  /\ Say(w, "none")
  /\ UNCHANGED <<control, word, begunOn>>

\* The finally block pauses the project and clears the stop, if the server can be reached.
Finally(w) ==
  /\ at[w] = "ending"
  /\ control' \in {control, Paused}
  /\ Go(w, "down")
  /\ UNCHANGED <<reason, word, begunOn>>

Crash(w) ==
  /\ at[w] # "down"
  /\ Go(w, "down")
  /\ Say(w, "none")
  /\ UNCHANGED <<control, word, begunOn>>

-----------------------------------------------------------------------------

\* controlStateForProject: a project without control_state is stopped, no stop requested.
Init ==
  /\ control = [state |-> "stopped", stop |-> FALSE]
  /\ at = [w \in Worker |-> "down"]
  /\ reason = [w \in Worker |-> "none"]
  /\ word = "hold"
  /\ begunOn = [w \in Worker |-> "hold"]

LoopStep(w) ==
  \/ FirstPatch(w) \/ CheckReadiness(w) \/ ApproachThrows(w)
  \/ ObeyHold(w) \/ (\E readable \in BOOLEAN : PassControl(w, readable))
  \/ FindNothing(w) \/ Claim(w) \/ LoseClaim(w) \/ CallThrows(w) \/ EndTask(w)
  \/ Catch(w) \/ AfterIteration(w) \/ Finally(w)

Next ==
  \/ StartProject \/ PauseProject \/ StopProject
  \/ \E w \in Worker : LoopStep(w) \/ Launch(w) \/ Crash(w)

Spec == Init /\ [][Next]_vars

\* A loop that runs keeps taking steps, and a control state that says hold is read now
\* and then: not every read fails.
LoopFairness == \A w \in Worker : WF_vars(LoopStep(w)) /\ SF_vars(ObeyHold(w))

FairSpec == Spec /\ LoopFairness

-----------------------------------------------------------------------------
(* Properties *)

\* The control state and the loops range over the values the code gives them.
TypeOK ==
  /\ control \in Control
  /\ at \in [Worker -> Step]
  /\ reason \in [Worker -> Reason]
  /\ word \in {"go", "hold"}
  /\ begunOn \in [Worker -> {"go", "hold"}]

\* No project is running with a stop pending: whoever sets running clears the stop, and
\* the PATCHes that keep the stop set another state.  A reader of either field alone
\* therefore never goes on where the other one says stop.
StopIsNotRunning == control.stop => control.state # "running"

\* A hold that nobody revokes ends every loop, also one that keeps failing and one that
\* cannot always read the control state.
HoldEndsLoops ==
  <>[](control.state # "running") => \A w \in Worker : []<>(at[w] = "down")

\* Violated: "project pause and project stop prevent the loop from starting new tasks."
\* Not counted are iterations that were under way when the operator said so.
HoldPreventsClaims ==
  [][\A w \in Worker : at[w] = "polling" /\ at'[w] = "busy" => begunOn[w] # "hold"]_vars

\* What a hold takes for granted: no loop still has its first PATCH to send ...
NoneIsStarting == word = "hold" => \A w \in Worker : at[w] # "starting"

\* ... and no read of the control state fails where it would have said hold.
HoldsAreRead == [][\A w \in Worker : at[w] = "checked" /\ Held => at'[w] # "polling"]_vars

\* Violated: "If another worker wins the race, the local worker treats the claim as
\* skipped and continues later."
SkippedClaimContinues ==
  [][\A w \in Worker :
       at[w] = "skipped" /\ at'[w] \notin {"skipped", "down"}
       => at'[w] = "ready" /\ control' = control]_vars

=============================================================================
