----------------------------- MODULE HookSpool -----------------------------
(***************************************************************************)
(* How an event of a Codex hook reaches the server's event log.            *)
(* codex-dashboard-hook.ps1 posts it and, when that fails, appends it to   *)
(* queue.jsonl, of which it keeps the last MaxQueueLines lines;            *)
(* replay-codex-hook-spool.ps1 posts the queued lines later and writes     *)
(* back those that failed.  Each hook is a process of its own, and nobody  *)
(* locks the file.                                                         *)
(*                                                                         *)
(* Events carry no id, so the server stores each delivery as a new event.  *)
(* All events here are permission requests, the kind the server folds into *)
(* approvals that an operator decides; the other kinds take the same way.  *)
(*                                                                         *)
(* One event for each hook; one replay at a time.  Set-Content empties the *)
(* file and then writes, and a process can end in between.  A file that    *)
(* cannot be opened because somebody else has it open is an exception like *)
(* any other: a hook swallows it and ends, the replay dies.                *)
(***************************************************************************)
EXTENDS Integers, FiniteSets, Sequences

CONSTANTS
  HookEvent,
  WithCallId,      \* events with a tool_call_id, which is then the approval's id
  MaxQueueLines,
  MaxLog,          \* model bound: events stored
  MaxDecisions,    \* model bound: decisions and expiries among them
  MaxReplays       \* model bound: replays started

ASSUME HookParameters ==
  /\ IsFiniteSet(HookEvent) /\ HookEvent \cap {"operator", "timekeeper"} = {}
  /\ WithCallId \subseteq HookEvent
  /\ MaxQueueLines \in Nat \ {0}
  /\ MaxLog \in Nat /\ MaxDecisions \in Nat
  /\ MaxReplays \in Nat

VARIABLES
  queue,     \* the lines of queue.jsonl
  fileExists, \* there is such a file, an empty one maybe
  log,       \* the server's approval events, in the order received
  hook,      \* hook[e]: the process that sends e
  replay,    \* the replay
  replays,   \* how often it was started
  dropped,   \* history: lines cut off by the limit
  exposed,   \* history: lines exposed to another's rewriting, or to a death during it
  doubt      \* history: doubt[e]: reasons for one more copy of e

hookVars == <<queue, fileExists, log, hook, replay, replays, dropped, exposed, doubt>>

-----------------------------------------------------------------------------
(* Data *)

NoReplay == [pc |-> "idle", todo |-> <<>>, remaining |-> <<>>, delivered |-> {}]

Copies(e, lines) == Cardinality({i \in DOMAIN lines : lines[i] = e})

CopiesStored(e) == Cardinality({i \in DOMAIN log : log[i].of = e})

\* An approval is known by its tool_call_id or else by the id of its first event.
ApprovalOf(e) == IF e \in WithCallId THEN <<e, 0>> ELSE <<e, Len(log) + 1>>

Approval == HookEvent \X (0..MaxLog)

Ended == {"accepted", "denied", "expired"}

LogRecord == [of: HookEvent \cup {"operator", "timekeeper"}, approval: Approval,
              type: {"requested"} \cup Ended]
HookRecord == [pc: {"new", "spool", "limit", "rewrite", "write", "done", "killed"},
               lines: Seq(HookEvent)]
ReplayRecord == [pc: {"idle", "post", "write"}, todo: Seq(HookEvent), remaining: Seq(HookEvent),
                 delivered: SUBSET HookEvent]

\* Mutant: a request always makes the approval pending.
SummarizedPending(summary, event) ==
  [summary EXCEPT ![event.approval] = IF event.type = "requested" THEN "pending" ELSE event.type]

\* One round of summarizeApprovals.
Summarized(summary, event) ==
  [summary EXCEPT ![event.approval] = IF event.type # "requested" THEN event.type
                                      ELSE IF @ = "none" THEN "pending" ELSE @]

\* All its rounds over a log of events.
SummaryOf(events) ==
  LET summary[n \in 0..Len(events)] ==
        IF n = 0 THEN [a \in Approval |-> "none"] ELSE Summarized(summary[n - 1], events[n])
  IN  summary[Len(events)]

SummarizeApprovals == SummaryOf(log)

\* POST /v1/events: stored, with a new id.
Received(e) == Append(log, [of |-> e, approval |-> ApprovalOf(e), type |-> "requested"])

\* What becomes of a request: the server has it, the sender knows.
Outcome == {o \in [served: BOOLEAN, answered: BOOLEAN] : o.answered => o.served}

Deliver(e, o) ==
  /\ o.served => Len(log) < MaxLog
  /\ log' = IF o.served THEN Received(e) ELSE log

\* Somebody has read the file and will write back what was in it.
Rewriting == replay.pc # "idle" \/ \E e \in HookEvent : hook[e].pc \in {"rewrite", "write"}

\* An event is among some lines.
In(e, lines) == \E i \in DOMAIN lines : lines[i] = e

LinesOf(lines) == {lines[i] : i \in DOMAIN lines}

\* A hook that has emptied the file is about to write e into it.
InHooksHand(e) == \E h \in HookEvent : hook[h].pc = "write" /\ In(e, hook[h].lines)

\* A hook has, or the replay.
InHand(e) == InHooksHand(e) \/ (replay.pc = "write" /\ In(e, replay.remaining))

\* What somebody who reads the file now does not see, and overwrites when he writes.
Missed == {e \in HookEvent : InHand(e) /\ ~In(e, queue)}

-----------------------------------------------------------------------------
(* A hook *)

PostHookEvent(e, o) ==
  /\ hook[e].pc = "new"
  /\ Deliver(e, o)
  /\ hook' = [hook EXCEPT ![e].pc = IF o.answered THEN "limit" ELSE "spool"]
  /\ doubt' = [doubt EXCEPT ![e] = @ + IF o.served /\ ~o.answered THEN 1 ELSE 0]
  /\ UNCHANGED <<queue, fileExists, replay, replays, dropped, exposed>>

\* Write-JsonLine
SpoolEvent(e) ==
  /\ hook[e].pc = "spool"
  /\ queue' = Append(queue, e)
  /\ fileExists' = TRUE
  /\ hook' = [hook EXCEPT ![e].pc = "limit"]
  /\ exposed' = IF Rewriting THEN exposed \cup {e} ELSE exposed
  /\ UNCHANGED <<log, replay, replays, dropped, doubt>>

\* Mutant: one line more than the limit is let pass.
FitsLeniently(lines) == Len(lines) <= MaxQueueLines + 1

Fits(lines) == Len(lines) <= MaxQueueLines

\* Limit-JsonLines, also by a hook that has delivered its event: it reads the file.
ReadQueue(e) ==
  /\ hook[e].pc = "limit"
  /\ hook' = [hook EXCEPT ![e] = IF Fits(queue) THEN [pc |-> "done", lines |-> <<>>]
                                 ELSE [pc |-> "rewrite", lines |-> queue]]
  /\ exposed' = IF Fits(queue) THEN exposed ELSE exposed \cup Missed
  /\ UNCHANGED <<queue, fileExists, log, replay, replays, dropped, doubt>>

\* Mutant: the first lines are kept, not the last.
FirstLines(lines) == SubSeq(lines, 1, MaxQueueLines)

LastLines(lines) == SubSeq(lines, Len(lines) - MaxQueueLines + 1, Len(lines))

\* Set-Content empties it ...
ClearQueue(e) ==
  /\ hook[e].pc = "rewrite"
  /\ queue' = <<>>
  /\ fileExists' = TRUE
  /\ hook' = [hook EXCEPT ![e] = [pc |-> "write", lines |-> LastLines(@.lines)]]
  /\ dropped' = dropped \cup {hook[e].lines[i] : i \in 1..(Len(hook[e].lines) - MaxQueueLines)}
  /\ doubt' = [x \in HookEvent |->
                 doubt[x] + IF /\ In(x, LastLines(hook[e].lines))
                               /\ ~In(x, queue) /\ ~InHooksHand(x)
                            THEN 1 ELSE 0]
  /\ UNCHANGED <<log, replay, replays, exposed>>

\* ... and writes the end of what was read.
LimitQueue(e) ==
  /\ hook[e].pc = "write"
  /\ queue' = hook[e].lines
  /\ fileExists' = TRUE
  /\ hook' = [hook EXCEPT ![e] = [pc |-> "done", lines |-> <<>>]]
  /\ UNCHANGED <<log, replay, replays, dropped, exposed, doubt>>

\* Codex ends its hook, or something in it throws, which it swallows.
HookKilled(e) ==
  /\ hook[e].pc \in {"new", "spool", "limit", "rewrite"}
  /\ hook' = [hook EXCEPT ![e] = [pc |-> "killed", lines |-> <<>>]]
  /\ UNCHANGED <<queue, fileExists, log, replay, replays, dropped, exposed, doubt>>

\* It ends with n of its lines written.
HookKilledWriting(e, n) ==
  /\ hook[e].pc = "write"
  /\ n \in 0..Len(hook[e].lines)
  /\ queue' = SubSeq(hook[e].lines, 1, n)
  /\ fileExists' = TRUE
  /\ exposed' = exposed \cup LinesOf(hook[e].lines)
  /\ hook' = [hook EXCEPT ![e] = [pc |-> "killed", lines |-> <<>>]]
  /\ UNCHANGED <<log, replay, replays, dropped, doubt>>

-----------------------------------------------------------------------------
(* The replay *)

StartReplay ==
  /\ replay.pc = "idle"
  /\ fileExists
  /\ replays < MaxReplays
  /\ replays' = replays + 1
  /\ replay' = [NoReplay EXCEPT !.pc = "post", !.todo = queue]
  /\ exposed' = exposed \cup Missed
  /\ UNCHANGED <<queue, fileExists, log, hook, dropped, doubt>>

\* The next line: archived (where nobody reads it) when its post succeeds, and remaining
\* when that throws, or the archiving, as after an answer that was lost.
ReplayPosts(o) ==
  /\ replay.pc = "post" /\ replay.todo # <<>>
  /\ LET e == Head(replay.todo)
     IN /\ Deliver(e, o)
        /\ doubt' = [doubt EXCEPT ![e] = @ + IF o.served /\ ~o.answered THEN 1 ELSE 0]
        /\ replay' = [replay EXCEPT !.todo = Tail(@),
                        !.delivered = IF o.answered THEN @ \cup {e} ELSE @,
                        !.remaining = IF o.answered THEN @ ELSE Append(@, e)]
  /\ UNCHANGED <<queue, fileExists, hook, replays, dropped, exposed>>

\* What the replay delivered is out of the file, unless a hook is writing it back.
TakenOut ==
  doubt' = [e \in HookEvent |->
              doubt[e] + IF e \in replay.delivered /\ InHooksHand(e) THEN 1 ELSE 0]

\* Mutant: a file from which everything was delivered is left.
RemainsInFile == queue

RemainsOfFile == <<>>

\* Nothing remains: Remove-Item.
ReplayDeletes ==
  /\ replay.pc = "post" /\ replay.todo = <<>> /\ replay.remaining = <<>>
  /\ queue' = RemainsOfFile
  /\ fileExists' = FALSE
  /\ replay' = NoReplay
  /\ TakenOut
  /\ UNCHANGED <<log, hook, replays, dropped, exposed>>

\* Otherwise the file is emptied ...
ReplayClears ==
  /\ replay.pc = "post" /\ replay.todo = <<>> /\ replay.remaining # <<>>
  /\ queue' = <<>>
  /\ fileExists' = TRUE
  /\ replay' = [replay EXCEPT !.pc = "write", !.delivered = {}]
  /\ TakenOut
  /\ UNCHANGED <<log, hook, replays, dropped, exposed>>

\* ... and what remains is written.
ReplayWrites ==
  /\ replay.pc = "write"
  /\ queue' = replay.remaining
  /\ fileExists' = TRUE
  /\ replay' = NoReplay
  /\ UNCHANGED <<log, hook, replays, dropped, exposed, doubt>>

\* It dies, or throws outside its try block, and what it delivered is still queued.
ReplayDies ==
  /\ replay.pc = "post"
  /\ doubt' = [e \in HookEvent |-> doubt[e] + IF e \in replay.delivered THEN 1 ELSE 0]
  /\ replay' = NoReplay
  /\ UNCHANGED <<queue, fileExists, log, hook, replays, dropped, exposed>>

\* It dies with n of what remains written.
ReplayDiesWriting(n) ==
  /\ replay.pc = "write"
  /\ n \in 0..Len(replay.remaining)
  /\ queue' = SubSeq(replay.remaining, 1, n)
  /\ fileExists' = TRUE
  /\ exposed' = exposed \cup LinesOf(replay.remaining)
  /\ replay' = NoReplay
  /\ UNCHANGED <<log, hook, replays, dropped, doubt>>

-----------------------------------------------------------------------------
(* The approvals *)

Decide(a, who, type) ==
  /\ Len(log) < MaxLog
  /\ Cardinality({i \in DOMAIN log : log[i].of \notin HookEvent}) < MaxDecisions
  /\ log' = Append(log, [of |-> who, approval |-> a, type |-> type])
  /\ UNCHANGED <<queue, fileExists, hook, replay, replays, dropped, exposed, doubt>>

\* POST /v1/approvals/:approvalId/resolve, of any approval there is.
Resolve(a, decision) == SummarizeApprovals[a] # "none" /\ Decide(a, "operator", decision)

\* POST /v1/events of an approval.expired, by whoever keeps a request's time (nobody in
\* this repository does): of an approval there is, or by its call id before there is one.
Expire(a) ==
  /\ SummarizeApprovals[a] # "none" \/ (a[1] \in WithCallId /\ a[2] = 0)
  /\ Decide(a, "timekeeper", "expired")

-----------------------------------------------------------------------------
HookInit ==
  /\ queue = <<>> /\ fileExists = FALSE
  /\ log = <<>>
  /\ hook = [e \in HookEvent |-> [pc |-> "new", lines |-> <<>>]]
  /\ replay = NoReplay
  /\ replays = 0
  /\ dropped = {}
  /\ exposed = {}
  /\ doubt = [e \in HookEvent |-> 0]

HookNext ==
  \/ \E e \in HookEvent, o \in Outcome : PostHookEvent(e, o)
  \/ \E e \in HookEvent : SpoolEvent(e) \/ ReadQueue(e) \/ ClearQueue(e) \/ LimitQueue(e)
  \/ \E e \in HookEvent : HookKilled(e) \/ \E n \in 0..MaxQueueLines : HookKilledWriting(e, n)
  \/ StartReplay \/ ReplayDeletes \/ ReplayClears \/ ReplayWrites \/ ReplayDies
  \/ \E n \in 0..Cardinality(HookEvent) : ReplayDiesWriting(n)
  \/ \E o \in Outcome : ReplayPosts(o)
  \/ \E a \in Approval : Expire(a) \/ \E decision \in {"accepted", "denied"} : Resolve(a, decision)

HookSpec == HookInit /\ [][HookNext]_hookVars

-----------------------------------------------------------------------------
(* Properties *)

\* The state has the shape the scripts give it.
HookTypeOK ==
  /\ queue \in Seq(HookEvent)
  /\ fileExists \in BOOLEAN
  /\ log \in Seq(LogRecord)
  /\ hook \in [HookEvent -> HookRecord]
  /\ \A e \in HookEvent :
       /\ hook[e].pc = "rewrite" => Len(hook[e].lines) > MaxQueueLines
       /\ hook[e].pc = "write" => Len(hook[e].lines) = MaxQueueLines
  /\ replay \in ReplayRecord
  /\ replays \in 0..MaxReplays
  /\ dropped \subseteq HookEvent /\ exposed \subseteq HookEvent
  /\ doubt \in [HookEvent -> Nat]

\* Past its spooling an event is stored, in the file, or about to be written back.
Kept(e) ==
  hook[e].pc \in {"limit", "rewrite", "write", "done"} =>
    CopiesStored(e) > 0 \/ In(e, queue) \/ InHand(e)

\* CODEX_LOCAL_INTEGRATION.md: "Delivery failures never fail the Codex hook.  Events
\* remain in the local spool for replay."
EventRemains == \A e \in HookEvent \ dropped : Kept(e)

\* So they do but for those that a rewriting of the file by somebody else catches, or one
\* whose process ends in its middle: a replay that fails or dies before it rewrites loses
\* none, and neither do hooks that rewrite one after the other.
EventKept == \A e \in HookEvent \ (dropped \cup exposed) : Kept(e)

\* The hooks alone keep the file within its limit, however their appending, reading and
\* rewriting mix: when all have ended, none was killed and nothing was replayed, it has
\* MaxQueueLines lines at most.
QueueBounded ==
  replays = 0 /\ (\A e \in HookEvent : hook[e].pc = "done") => Len(queue) <= MaxQueueLines

\* An event is stored once, and once more at most for each answer (or archiving) that
\* failed, each replay that died after delivering it, and each hook that writes it back
\* into the file when it has been taken out.
CopiesHaveCause ==
  \A e \in HookEvent : CopiesStored(e) <= 1 + doubt[e]

\* What a decision or an expiry made of an approval only another one changes: copies of
\* its request that a replay delivers later do not, nor do they make it pending again.
\* (Without a tool_call_id each copy is an approval of its own.)
DecisionStands ==
  [][log' # log =>
       \A a \in Approval :
         SummarizeApprovals[a] \in Ended /\ SummarizeApprovals'[a] # SummarizeApprovals[a] =>
           SummarizeApprovals'[a] \in Ended /\ log'[Len(log')].of \notin HookEvent]_hookVars
=============================================================================
