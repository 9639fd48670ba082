--------------------------- MODULE DesktopClient ---------------------------
(***************************************************************************)
(* The status the desktop application shows while refreshes of it overlap. *)
(* Nothing is disabled while a call is under way except the Refresh        *)
(* button.  The fixture mode, which calls nobody, is left out, and so is   *)
(* the draft an operator reviews and submits: its submission is served by  *)
(* one route, which CampaignQueue has.                                     *)
(***************************************************************************)
EXTENDS Naturals

CONSTANTS
  MaxRefreshes    \* model bound: refreshes begun

ASSUME DesktopParameters == MaxRefreshes \in Nat

VARIABLES
  generation,     \* refreshGeneration: the number of the newest refresh
  asked,          \* the refreshes get_status has not answered
  shownStatus,    \* the refresh whose answer is shown, 0 for none
  hasReport,      \* the status shown has a campaign_report
  refreshing,     \* the busy flag
  effectDue       \* refresh is a new callback: its effect has to run again

desktopVars == <<generation, asked, shownStatus, hasReport, refreshing, effectDue>>

-----------------------------------------------------------------------------
(* Refreshing the status *)

\* refresh: a new generation, whatever is under way.
BeginRefresh ==
  /\ generation < MaxRefreshes
  /\ generation' = generation + 1
  /\ asked' = asked \cup {generation + 1}
  /\ refreshing' = TRUE
  /\ UNCHANGED <<shownStatus, hasReport>>

\* The Refresh buttons.
RefreshButton == ~refreshing /\ BeginRefresh /\ UNCHANGED effectDue

\* openReport refreshes after it failed.
OpenReportFails == BeginRefresh /\ UNCHANGED effectDue

\* The effect that depends on refresh, which depends on the report shown.
RefreshEffect == effectDue /\ BeginRefresh /\ effectDue' = FALSE

\* Mutant: nobody looks at the generation.
AnswerIsWanted(g) == TRUE

AnswerIsNewest(g) == g = generation

\* Mutant: any refresh that ends clears the flag.
BusyAfterAny(g) == FALSE

BusyAfter(g) == refreshing /\ g # generation

\* get_status answers with a status; each has a report object of its own or null.
ShowStatus(g, report) ==
  /\ g \in asked
  /\ asked' = asked \ {g}
  /\ refreshing' = BusyAfter(g)
  /\ IF AnswerIsNewest(g)
     THEN /\ shownStatus' = g
          /\ hasReport' = report
          /\ effectDue' = (effectDue \/ hasReport \/ report)
     ELSE UNCHANGED <<shownStatus, hasReport, effectDue>>
  /\ UNCHANGED generation

\* get_status fails: what is shown stays.
StatusFails(g) ==
  /\ g \in asked
  /\ asked' = asked \ {g}
  /\ refreshing' = BusyAfter(g)
  /\ UNCHANGED <<generation, shownStatus, hasReport, effectDue>>

-----------------------------------------------------------------------------
DesktopInit ==
  /\ generation = 0 /\ asked = {} /\ shownStatus = 0
  /\ hasReport = FALSE /\ refreshing = FALSE /\ effectDue = TRUE

DesktopNext ==
  \/ RefreshButton \/ OpenReportFails \/ RefreshEffect
  \/ \E g \in asked : StatusFails(g) \/ \E report \in BOOLEAN : ShowStatus(g, report)

DesktopSpec == DesktopInit /\ [][DesktopNext]_desktopVars

-----------------------------------------------------------------------------
(* Properties *)

\* The state has the shape the callbacks give it.
DesktopTypeOK ==
  /\ generation \in 0..MaxRefreshes
  /\ asked \subseteq 1..generation
  /\ shownStatus \in 0..generation
  /\ hasReport \in BOOLEAN /\ refreshing \in BOOLEAN /\ effectDue \in BOOLEAN

\* DESKTOP_CLIENT_READINESS.md: "older responses are ignored and cannot overwrite newer
\* state", in whatever order overlapping refreshes are answered.
OlderAnswersIgnored == [][shownStatus' >= shownStatus]_desktopVars

\* The application is busy exactly as long as its newest refresh is not answered: an
\* older one that ends does not make it look idle, and no refresh leaves it busy for
\* good, with its button disabled.
BusyUntilNewestAnswers == refreshing <=> generation \in asked
=============================================================================
