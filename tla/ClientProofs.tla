---------------------------- MODULE ClientProofs ----------------------------
(***************************************************************************)
(* Theorems about two of the server's clients, each by itself: the worker  *)
(* loops with the project's control state, for every set of loops, and the *)
(* desktop's refreshes, for any number of them under way.                  *)
(*                                                                         *)
(* The control state has a stop pending only where it is not running, by   *)
(* types and by what each PATCH writes; that a hold prevents claims needs  *)
(* two assumptions, which say what the loops do not do.  For the desktop   *)
(* the invariant is the types together with the relation between the busy  *)
(* flag and the refreshes that are not answered; a refresh can overwrite   *)
(* the status only while its generation is the newest, and generations     *)
(* only grow.                                                              *)
(***************************************************************************)
EXTENDS LoopControl, DesktopClient, TLAPS

-----------------------------------------------------------------------------
(* The control state *)

ControlInv == TypeOK /\ StopIsNotRunning

\* A control state that may be written.
Writable(c) == c \in Control /\ (c.stop => c.state # "running")

\* Every PATCH writes such a state.
LEMMA Patches ==
  ASSUME Writable(control)
  PROVE  Writable(Running) /\ Writable(Paused) /\ Writable(Stopped) /\ Writable(PausedKeepingStop)
<1>1. Writable(Running) /\ Writable(Paused) /\ Writable(Stopped)
  BY DEF Writable, Control, Running, Paused, Stopped
<1>2. Writable(PausedKeepingStop)
  BY DEF Writable, Control, PausedKeepingStop
<1>3. QED BY <1>1, <1>2

\* No loop runs and no stop is requested.
LEMMA ControlInit == Init => ControlInv
BY DEF Init, ControlInv, TypeOK, StopIsNotRunning, Control, Step, Reason

\* The loops and the operator write four kinds of control state, and keep the stop only
\* where they pause.
LEMMA ControlStep == ControlInv /\ [Next]_vars => ControlInv'
<1> SUFFICES ASSUME ControlInv, [Next]_vars
             PROVE  ControlInv'
  OBVIOUS
<1>a. Writable(control)
  BY DEF ControlInv, TypeOK, StopIsNotRunning, Writable
<1>b. ASSUME Writable(control'), at' \in [Worker -> Step], reason' \in [Worker -> Reason],
             word' \in {"go", "hold"}, begunOn' \in [Worker -> {"go", "hold"}]
      PROVE  ControlInv'
  BY <1>b DEF ControlInv, TypeOK, StopIsNotRunning, Writable
<1>c. /\ at \in [Worker -> Step] /\ reason \in [Worker -> Reason]
      /\ word \in {"go", "hold"} /\ begunOn \in [Worker -> {"go", "hold"}]
  BY DEF ControlInv, TypeOK
<1> USE <1>a, <1>b, <1>c, Patches DEF Step, Reason, Go, Say, loopVars
<1>1. CASE StartProject \/ PauseProject \/ StopProject
  BY <1>1 DEF StartProject, PauseProject, StopProject, SayGo
<1>2. ASSUME NEW w \in Worker, FirstPatch(w) \/ CheckReadiness(w)
      PROVE  ControlInv'
  <2>1. CASE FirstPatch(w)
    BY <2>1 DEF FirstPatch
  <2>2. CASE CheckReadiness(w)
    BY <2>2 DEF CheckReadiness
  <2>3. QED BY <1>2, <2>1, <2>2
<1>3. ASSUME NEW w \in Worker, NEW readable \in BOOLEAN,
             ApproachThrows(w) \/ ObeyHold(w) \/ PassControl(w, readable)
      PROVE  ControlInv'
  BY <1>3 DEF ApproachThrows, ObeyHold, PassControl
<1>4. ASSUME NEW w \in Worker,
             FindNothing(w) \/ Claim(w) \/ LoseClaim(w) \/ CallThrows(w) \/ EndTask(w)
      PROVE  ControlInv'
  BY <1>4 DEF FindNothing, Claim, LoseClaim, CallThrows, EndTask
<1>5. ASSUME NEW w \in Worker, Catch(w)
      PROVE  ControlInv'
  BY <1>5 DEF Catch
<1>6. ASSUME NEW w \in Worker, AfterIteration(w) \/ Finally(w)
      PROVE  ControlInv'
  BY <1>6 DEF AfterIteration, Finally
<1>7. ASSUME NEW w \in Worker, Launch(w) \/ Crash(w)
      PROVE  ControlInv'
  BY <1>7 DEF Launch, Crash, SayGo
<1>8. CASE UNCHANGED vars
  BY <1>8 DEF vars
<1>9. QED BY <1>1, <1>2, <1>3, <1>4, <1>5, <1>6, <1>7, <1>8 DEF Next, LoopStep

\* No project is ever running with a stop pending, however many loops start, fail, end
\* and die while operators start, pause and stop the project.
THEOREM StopIsNotRunningHolds == Spec => []StopIsNotRunning
<1>1. ControlInv => StopIsNotRunning
  BY DEF ControlInv
<1>2. QED BY <1>1, ControlInit, ControlStep, PTL DEF Spec

\* The control state and the loops keep to the values the code gives them.
THEOREM ControlTypeCorrect == Spec => []TypeOK
<1>1. ControlInv => TypeOK
  BY DEF ControlInv
<1>2. QED BY <1>1, ControlInit, ControlStep, PTL DEF Spec

\* While no loop is starting a hold stays on record, and an iteration that began under a
\* hold not revoked since does not get to the queue.
HoldInv ==
  /\ word = "hold" => Held
  /\ \A w \in Worker : begunOn[w] = "hold" => word = "hold" /\ at[w] # "polling"

\* What the operator's commands and the loops' PATCHes leave on record as a hold.
LEMMA HoldsWritten ==
  ASSUME ControlInv, Held
  PROVE  control' \in {control, Paused, Stopped, PausedKeepingStop} => Held'
BY DEF ControlInv, TypeOK, Control, Held, Paused, Stopped, PausedKeepingStop

\* A step of a loop that is not starting keeps HoldInv, provided the read of a hold does
\* not fail.
LEMMA HoldLoopStep ==
  ASSUME ControlInv, HoldInv, NEW w \in Worker, LoopStep(w) \/ Crash(w),
         NoneIsStarting, at[w] = "checked" /\ Held => at'[w] # "polling"
  PROVE  HoldInv'
<1>a. at \in [Worker -> Step] /\ begunOn \in [Worker -> {"go", "hold"}] /\ word' = word
  BY DEF ControlInv, TypeOK, LoopStep, FirstPatch, CheckReadiness, ApproachThrows, ObeyHold,
         PassControl, FindNothing, Claim, LoseClaim, CallThrows, EndTask, Catch,
         AfterIteration, Finally, Crash
<1> DEFINE Elsewhere == \A v \in Worker \ {w} : at'[v] = at[v] /\ begunOn'[v] = begunOn[v]
<1>1. CASE FirstPatch(w)
  <2>1. word = "go"
    BY <1>1 DEF FirstPatch, NoneIsStarting, ControlInv, TypeOK
  <2>2. \A v \in Worker : begunOn'[v] = "go"
    BY <1>1, <1>a, <2>1 DEF FirstPatch, HoldInv
  <2> QED BY <1>a, <2>1, <2>2 DEF HoldInv
<1>2. CASE CheckReadiness(w)
  <2>1. control' \in {control, PausedKeepingStop}
    BY <1>2 DEF CheckReadiness
  <2>2. begunOn'[w] = word /\ at'[w] # "polling" /\ Elsewhere
    BY <1>2, <1>a DEF CheckReadiness, Go
  <2>3. word = "hold" => Held'
    BY <2>1, HoldsWritten DEF HoldInv
  <2> QED BY <1>a, <2>2, <2>3 DEF HoldInv
<1>3. CASE \E readable \in BOOLEAN : PassControl(w, readable)
  <2>1. at[w] = "checked" /\ at'[w] = "polling" /\ Elsewhere
    BY <1>3, <1>a DEF PassControl, Go
  <2>2. control' = control /\ begunOn' = begunOn
    BY <1>3 DEF PassControl
  <2>3. ~Held
    BY <2>1
  <2> QED BY <1>a, <2>1, <2>2, <2>3 DEF HoldInv, Held
<1>4. CASE \/ ApproachThrows(w) \/ ObeyHold(w) \/ FindNothing(w) \/ Claim(w) \/ LoseClaim(w)
           \/ CallThrows(w) \/ EndTask(w) \/ Catch(w) \/ AfterIteration(w) \/ Finally(w)
           \/ Crash(w)
  <2>1. begunOn' = begunOn /\ control' \in {control, Paused, PausedKeepingStop}
    BY <1>4 DEF ApproachThrows, ObeyHold, FindNothing, Claim, LoseClaim, CallThrows, EndTask,
                Catch, AfterIteration, Finally, Crash
  <2>2. at'[w] # "polling" /\ Elsewhere
    BY <1>4, <1>a DEF ApproachThrows, ObeyHold, FindNothing, Claim, LoseClaim, CallThrows,
                      EndTask, Catch, AfterIteration, Finally, Crash, Go
  <2>3. word = "hold" => Held'
    BY <2>1, HoldsWritten DEF HoldInv
  <2> QED BY <1>a, <2>1, <2>2, <2>3 DEF HoldInv
<1> QED BY <1>1, <1>2, <1>3, <1>4 DEF LoopStep

\* So does every other step.
LEMMA HoldStep ==
  ASSUME ControlInv, HoldInv, [Next]_vars, NoneIsStarting,
         \A w \in Worker : at[w] = "checked" /\ Held => at'[w] # "polling"
  PROVE  HoldInv'
<1>1. CASE StartProject \/ \E w \in Worker : Launch(w)
  <2>1. word' = "go" /\ \A w \in Worker : begunOn'[w] = "go"
    BY <1>1 DEF StartProject, Launch, SayGo
  <2> QED BY <2>1 DEF HoldInv
<1>2. CASE PauseProject \/ StopProject
  BY <1>2 DEF PauseProject, StopProject, HoldInv, Held, Paused, Stopped, loopVars
<1>3. ASSUME NEW w \in Worker, LoopStep(w) \/ Crash(w)
      PROVE  HoldInv'
  BY <1>3, HoldLoopStep
<1>4. CASE UNCHANGED vars
  BY <1>4 DEF vars, loopVars, HoldInv, Held
<1> QED BY <1>1, <1>2, <1>3, <1>4 DEF Next

\* "project pause and project stop prevent the loop from starting new tasks": they do,
\* against any number of loops that fail, end and die, if no loop is about to send its
\* first PATCH and the read of the control state succeeds.  These two are the only holes.
THEOREM HoldPreventsClaimsOtherwise ==
  Spec /\ []NoneIsStarting /\ HoldsAreRead => HoldPreventsClaims
<1> DEFINE Reads == \A w \in Worker : at[w] = "checked" /\ Held => at'[w] # "polling"
           Claims == \A w \in Worker : at[w] = "polling" /\ at'[w] = "busy" => begunOn[w] # "hold"
<1>1. Init => HoldInv
  BY DEF Init, HoldInv, Held
<1>2. ControlInv /\ HoldInv /\ [Next]_vars /\ NoneIsStarting /\ [Reads]_vars => HoldInv'
  <2>1. CASE UNCHANGED vars
    BY <2>1 DEF vars, loopVars, HoldInv, Held
  <2> QED BY <2>1, HoldStep
<1>3. HoldInv => [Claims]_vars
  BY DEF HoldInv
<1> QED BY <1>1, <1>2, <1>3, ControlInit, ControlStep, PTL
        DEF Spec, HoldsAreRead, HoldPreventsClaims

-----------------------------------------------------------------------------
(* The desktop *)

\* What the proofs carry from step to step.
RefreshInv == DesktopTypeOK /\ BusyUntilNewestAnswers

\* Nothing is asked for yet.
LEMMA InitRefreshInv == DesktopInit => RefreshInv
<1> SUFFICES ASSUME DesktopInit
             PROVE  RefreshInv
  OBVIOUS
<1>1. generation \in 0..MaxRefreshes /\ shownStatus \in 0..generation
  BY DesktopParameters DEF DesktopInit
<1> QED
  BY <1>1 DEF DesktopInit, RefreshInv, DesktopTypeOK, BusyUntilNewestAnswers

\* A new refresh: the flag is set and the generation is asked for.
LEMMA BeginKeeps ==
  ASSUME RefreshInv, BeginRefresh, effectDue' \in BOOLEAN
  PROVE  RefreshInv'
<1>1. generation + 1 \in 0..MaxRefreshes
  BY DesktopParameters DEF RefreshInv, DesktopTypeOK, BeginRefresh
<1>2. asked' \subseteq 1..generation'
  BY DEF RefreshInv, DesktopTypeOK, BeginRefresh
<1> QED
  BY <1>1, <1>2
     DEF RefreshInv, DesktopTypeOK, BusyUntilNewestAnswers, BeginRefresh

\* An answer takes one refresh out of those not answered, and clears the flag only
\* if that was the newest.
LEMMA AnswerKeeps ==
  ASSUME RefreshInv, NEW g \in asked,
         StatusFails(g) \/ \E report \in BOOLEAN : ShowStatus(g, report)
  PROVE  RefreshInv'
<1>1. CASE StatusFails(g)
  BY <1>1 DEF RefreshInv, DesktopTypeOK, BusyUntilNewestAnswers, StatusFails, BusyAfter
<1>2. CASE \E report \in BOOLEAN : ShowStatus(g, report)
  <2>1. PICK report \in BOOLEAN : ShowStatus(g, report)
    BY <1>2
  <2>2. CASE AnswerIsNewest(g)
    <3>1. g = generation /\ shownStatus' = g /\ generation' = generation
      BY <2>1, <2>2 DEF AnswerIsNewest, ShowStatus
    <3>2. g \in 1..generation
      BY DEF RefreshInv, DesktopTypeOK
    <3>3. shownStatus' \in 0..generation'
      BY <3>1, <3>2
    <3>4. effectDue' \in BOOLEAN /\ hasReport' \in BOOLEAN
      BY <2>1, <2>2 DEF ShowStatus
    <3>5. asked' \subseteq 1..generation' /\ refreshing' \in BOOLEAN
      BY <2>1 DEF ShowStatus, BusyAfter, RefreshInv, DesktopTypeOK
    <3>6. BusyUntilNewestAnswers'
      BY <2>1 DEF ShowStatus, BusyAfter, RefreshInv, BusyUntilNewestAnswers
    <3> QED
      BY <2>1, <3>1, <3>3, <3>4, <3>5, <3>6
         DEF RefreshInv, DesktopTypeOK, ShowStatus
  <2>3. CASE ~AnswerIsNewest(g)
    BY <2>1, <2>3 DEF RefreshInv, DesktopTypeOK, BusyUntilNewestAnswers, ShowStatus,
                      BusyAfter, AnswerIsNewest
  <2> QED
    BY <2>2, <2>3
<1> QED
  BY <1>1, <1>2

\* Every step of the desktop begins a refresh or ends one.
LEMMA StepRefreshInv == RefreshInv /\ [DesktopNext]_desktopVars => RefreshInv'
<1> SUFFICES ASSUME RefreshInv, [DesktopNext]_desktopVars
             PROVE  RefreshInv'
  OBVIOUS
<1>1. CASE UNCHANGED desktopVars
  BY <1>1 DEF RefreshInv, DesktopTypeOK, BusyUntilNewestAnswers, desktopVars
<1>2. CASE RefreshButton
  BY <1>2, BeginKeeps DEF RefreshButton, RefreshInv, DesktopTypeOK
<1>3. CASE OpenReportFails
  BY <1>3, BeginKeeps DEF OpenReportFails, RefreshInv, DesktopTypeOK
<1>4. CASE RefreshEffect
  BY <1>4, BeginKeeps DEF RefreshEffect
<1>5. CASE \E g \in asked : StatusFails(g) \/ \E report \in BOOLEAN : ShowStatus(g, report)
  BY <1>5, AnswerKeeps
<1> QED
  BY <1>1, <1>2, <1>3, <1>4, <1>5 DEF DesktopNext

\* The state of the desktop keeps its shape.
THEOREM DesktopTypes == DesktopSpec => []DesktopTypeOK
<1>1. RefreshInv => DesktopTypeOK
  BY DEF RefreshInv
<1> QED
  BY InitRefreshInv, StepRefreshInv, <1>1, PTL DEF DesktopSpec

\* The desktop is busy exactly as long as its newest refresh is not answered, in
\* whatever order refreshes are begun, answered and fail.
THEOREM BusyHolds == DesktopSpec => []BusyUntilNewestAnswers
<1>1. RefreshInv => BusyUntilNewestAnswers
  BY DEF RefreshInv
<1> QED
  BY InitRefreshInv, StepRefreshInv, <1>1, PTL DEF DesktopSpec

\* The status shown is never replaced by the answer to an older refresh.
THEOREM OlderIgnored == DesktopSpec => OlderAnswersIgnored
<1>1. RefreshInv /\ [DesktopNext]_desktopVars => [shownStatus' >= shownStatus]_desktopVars
  <2> SUFFICES ASSUME RefreshInv, DesktopNext
               PROVE  shownStatus' >= shownStatus
    OBVIOUS
  <2>0. shownStatus \in Nat /\ generation \in Nat /\ shownStatus <= generation
    BY DEF RefreshInv, DesktopTypeOK
  <2>1. CASE BeginRefresh
    BY <2>0, <2>1 DEF BeginRefresh
  <2>2. ASSUME NEW g \in asked, NEW report \in BOOLEAN, ShowStatus(g, report)
        PROVE  shownStatus' >= shownStatus
    BY <2>0, <2>2 DEF ShowStatus, AnswerIsNewest
  <2>3. ASSUME NEW g \in asked, StatusFails(g)
        PROVE  shownStatus' >= shownStatus
    BY <2>0, <2>3 DEF StatusFails
  <2> QED
    BY <2>1, <2>2, <2>3 DEF DesktopNext, RefreshButton, OpenReportFails, RefreshEffect
<1> QED
  BY InitRefreshInv, StepRefreshInv, <1>1, PTL DEF DesktopSpec, OlderAnswersIgnored
=============================================================================
