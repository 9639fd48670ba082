--------------------------- MODULE HookSpoolProofs ---------------------------
(***************************************************************************)
(* Theorems about the hooks' spool, for any number of hooks and replays    *)
(* and any limit.  The properties speak of how often an event is stored or *)
(* queued; the invariant says for each event which of the lists has it:    *)
(* the file, the lines a hook will write back, the replay's two lists.  No *)
(* list has it twice, so that a copy is a place, and the counts follow.    *)
(***************************************************************************)
EXTENDS HookSpool, FiniteSetTheorems, WellFoundedInduction, TLAPS

\* A list has no event twice.
NoneTwice(lines) == \A i, j \in DOMAIN lines : lines[i] = lines[j] => i = j

One(b) == IF b THEN 1 ELSE 0

\* An idle replay holds nothing, and one that is writing has only what remains.
ReplayShape ==
  /\ replay.pc = "idle" => replay = NoReplay
  /\ replay.pc = "post" => replays > 0
  /\ replay.pc = "write" => replays > 0 /\ replay.todo = <<>> /\ replay.delivered = {}

\* No list has e.
Nowhere(e) ==
  /\ ~In(e, queue) /\ ~In(e, replay.todo) /\ ~In(e, replay.remaining)
  /\ e \notin replay.delivered
  /\ \A h \in HookEvent : ~In(e, hook[h].lines)

\* No list has an event twice, the replay has each of its lines in one place, and an
\* event that is not spooled yet is in no list.
Places ==
  /\ NoneTwice(queue) /\ NoneTwice(replay.todo) /\ NoneTwice(replay.remaining)
  /\ \A h \in HookEvent : NoneTwice(hook[h].lines)
  /\ \A e \in HookEvent : In(e, replay.todo) => ~In(e, replay.remaining)
  /\ \A e \in replay.delivered : ~In(e, replay.todo) /\ ~In(e, replay.remaining)
  /\ \A e \in HookEvent : hook[e].pc \in {"new", "spool"} => Nowhere(e)

InReplay(e) == In(e, replay.todo) \/ In(e, replay.remaining)

\* The copies stored, and the one that a hook which could not deliver will queue.
Owed(e) == CopiesStored(e) + One(hook[e].pc = "spool")

\* A copy that a replay may still find in the file.
Held(e) == In(e, queue) \/ InHooksHand(e)

\* A copy that may still be posted, from the replay's lines or by a later replay, is paid
\* for by the first delivery or by a doubt; one that the replay delivered while the
\* file still has it, or a hook that writes it back, by the replay's end.
CountedOf(e) ==
  /\ hook[e].pc = "new" => CopiesStored(e) = 0
  /\ Owed(e) + One(InReplay(e)) <= 1 + doubt[e]
  /\ Owed(e) + One(Held(e)) <= 1 + doubt[e] + One(e \in replay.delivered)

Counted == \A e \in HookEvent : CountedOf(e)

\* e is in the file or about to be, and everybody who will write the file has it.
Safe(e) ==
  /\ In(e, queue) \/ InHand(e)
  /\ replay.pc = "post" => InReplay(e)
  /\ replay.pc = "write" => In(e, replay.remaining)
  /\ \A h \in HookEvent : hook[h].pc \in {"rewrite", "write"} => In(e, hook[h].lines)

KeptSafe ==
  \A e \in HookEvent \ (dropped \cup exposed) :
    hook[e].pc \in {"limit", "rewrite", "write", "done"} => CopiesStored(e) > 0 \/ Safe(e)

\* Without replays, whoever made the file too long is still to read or rewrite it.
Shortened ==
  replays = 0 /\ Len(queue) > MaxQueueLines =>
    \E h \in HookEvent : hook[h].pc \in {"limit", "rewrite", "write", "killed"}

-----------------------------------------------------------------------------
\* What Append does to what is in a list.
LEMMA AppendIn ==
  ASSUME NEW s \in Seq(HookEvent), NEW x \in HookEvent
  PROVE  /\ Append(s, x) \in Seq(HookEvent)
         /\ Len(Append(s, x)) = Len(s) + 1
         /\ \A e \in HookEvent : In(e, Append(s, x)) <=> In(e, s) \/ e = x
         /\ NoneTwice(s) /\ ~In(x, s) => NoneTwice(Append(s, x))
<1>1. /\ Append(s, x) \in Seq(HookEvent) /\ Len(Append(s, x)) = Len(s) + 1 /\ Len(s) \in Nat
      /\ DOMAIN s = 1..Len(s) /\ DOMAIN Append(s, x) = 1..(Len(s) + 1)
      /\ \A i \in 1..Len(s) : Append(s, x)[i] = s[i]
      /\ Append(s, x)[Len(s) + 1] = x
  OBVIOUS
<1>2. ASSUME NEW e \in HookEvent
      PROVE  In(e, Append(s, x)) <=> In(e, s) \/ e = x
  BY <1>1 DEF In
<1>3. NoneTwice(s) /\ ~In(x, s) => NoneTwice(Append(s, x))
  <2> SUFFICES ASSUME NoneTwice(s), ~In(x, s), NEW i \in 1..(Len(s) + 1), NEW j \in 1..(Len(s) + 1),
                      Append(s, x)[i] = Append(s, x)[j]
               PROVE  i = j
    BY <1>1 DEF NoneTwice
  <2> QED
    BY <1>1 DEF NoneTwice, In
<1> QED
  BY <1>1, <1>2, <1>3

\* The head of a list without repetitions is not in its tail.
LEMMA TailIn ==
  ASSUME NEW s \in Seq(HookEvent), s # <<>>
  PROVE  /\ Head(s) \in HookEvent /\ Tail(s) \in Seq(HookEvent)
         /\ \A e \in HookEvent : In(e, s) <=> In(e, Tail(s)) \/ e = Head(s)
         /\ NoneTwice(s) => NoneTwice(Tail(s)) /\ ~In(Head(s), Tail(s))
<1>1. /\ Head(s) \in HookEvent /\ Tail(s) \in Seq(HookEvent) /\ Len(s) \in Nat \ {0}
      /\ DOMAIN s = 1..Len(s) /\ DOMAIN Tail(s) = 1..(Len(s) - 1)
      /\ Head(s) = s[1] /\ \A i \in 1..(Len(s) - 1) : Tail(s)[i] = s[i + 1]
  OBVIOUS
<1>2. ASSUME NEW e \in HookEvent
      PROVE  In(e, s) <=> In(e, Tail(s)) \/ e = Head(s)
  <2>1. In(e, s) => In(e, Tail(s)) \/ e = Head(s)
    <3> SUFFICES ASSUME NEW i \in 1..Len(s), s[i] = e, i # 1
                 PROVE  In(e, Tail(s))
      BY <1>1 DEF In
    <3>1. i - 1 \in 1..(Len(s) - 1) /\ Tail(s)[i - 1] = e
      BY <1>1
    <3> QED
      BY <1>1, <3>1 DEF In
  <2>2. In(e, Tail(s)) => In(e, s)
    <3> SUFFICES ASSUME NEW i \in 1..(Len(s) - 1), Tail(s)[i] = e
                 PROVE  In(e, s)
      BY <1>1 DEF In
    <3>1. i + 1 \in 1..Len(s) /\ s[i + 1] = e
      BY <1>1
    <3> QED
      BY <1>1, <3>1 DEF In
  <2>3. e = Head(s) => In(e, s)
    BY <1>1 DEF In
  <2> QED
    BY <2>1, <2>2, <2>3
<1>3. NoneTwice(s) => NoneTwice(Tail(s)) /\ ~In(Head(s), Tail(s))
  <2> SUFFICES ASSUME NoneTwice(s)
               PROVE  NoneTwice(Tail(s)) /\ ~In(Head(s), Tail(s))
    OBVIOUS
  <2>1. \A i, j \in 1..(Len(s) - 1) : Tail(s)[i] = Tail(s)[j] => i = j
    <3> SUFFICES ASSUME NEW i \in 1..(Len(s) - 1), NEW j \in 1..(Len(s) - 1), s[i + 1] = s[j + 1]
                 PROVE  i = j
      BY <1>1
    <3>1. i + 1 \in DOMAIN s /\ j + 1 \in DOMAIN s
      BY <1>1
    <3> QED
      BY <3>1 DEF NoneTwice
  <2>2. \A i \in 1..(Len(s) - 1) : Tail(s)[i] # Head(s)
    <3> SUFFICES ASSUME NEW i \in 1..(Len(s) - 1), s[i + 1] = s[1]
                 PROVE  FALSE
      BY <1>1
    <3>1. i + 1 \in DOMAIN s /\ 1 \in DOMAIN s /\ i + 1 # 1
      BY <1>1
    <3> QED
      BY <3>1 DEF NoneTwice
  <2> QED
    BY <1>1, <2>1, <2>2 DEF NoneTwice, In
<1> QED
  BY <1>1, <1>2, <1>3

\* The last lines of a list, and those that are cut off.
LEMMA LastIn ==
  ASSUME NEW s \in Seq(HookEvent), Len(s) > MaxQueueLines
  PROVE  /\ LastLines(s) \in Seq(HookEvent)
         /\ Len(LastLines(s)) = MaxQueueLines
         /\ \A e \in HookEvent : In(e, LastLines(s)) => In(e, s)
         /\ \A e \in HookEvent : In(e, s) =>
              In(e, LastLines(s)) \/ e \in {s[i] : i \in 1..(Len(s) - MaxQueueLines)}
         /\ NoneTwice(s) => NoneTwice(LastLines(s))
<1> DEFINE k == Len(s) - MaxQueueLines
<1>1. /\ LastLines(s) \in Seq(HookEvent) /\ k \in Nat \ {0} /\ MaxQueueLines \in Nat \ {0}
      /\ Len(LastLines(s)) = MaxQueueLines /\ Len(s) = k + MaxQueueLines
      /\ DOMAIN LastLines(s) = 1..MaxQueueLines /\ DOMAIN s = 1..(k + MaxQueueLines)
      /\ \A i \in 1..MaxQueueLines : LastLines(s)[i] = s[i + k]
  BY HookParameters DEF LastLines
<1> HIDE DEF k
<1>2. \A i \in 1..MaxQueueLines : i + k \in DOMAIN s
  BY <1>1
<1>3. ASSUME NEW e \in HookEvent, In(e, LastLines(s))
      PROVE  In(e, s)
  BY <1>1, <1>2, <1>3 DEF In
<1>4. ASSUME NEW e \in HookEvent, In(e, s)
      PROVE  In(e, LastLines(s)) \/ e \in {s[i] : i \in 1..k}
  <2>1. PICK i \in 1..(k + MaxQueueLines) : s[i] = e
    BY <1>1, <1>4 DEF In
  <2>2. CASE i \in 1..k
    BY <2>1, <2>2
  <2>3. CASE i \notin 1..k
    <3>1. i - k \in 1..MaxQueueLines /\ LastLines(s)[i - k] = e
      BY <1>1, <2>1, <2>3
    <3> QED
      BY <1>1, <3>1 DEF In
  <2> QED
    BY <2>2, <2>3
<1>5. ASSUME NoneTwice(s)
      PROVE  NoneTwice(LastLines(s))
  <2> SUFFICES ASSUME NEW i \in 1..MaxQueueLines, NEW j \in 1..MaxQueueLines, s[i + k] = s[j + k]
               PROVE  i = j
    BY <1>1 DEF NoneTwice
  <2>1. i + k = j + k
    BY <1>2, <1>5 DEF NoneTwice
  <2> QED
    BY <1>1, <2>1
<1> QED
  BY <1>1, <1>3, <1>4, <1>5 DEF k

\* The beginning of a list.
LEMMA PrefixIn ==
  ASSUME NEW s \in Seq(HookEvent), NEW n \in 0..Len(s)
  PROVE  /\ SubSeq(s, 1, n) \in Seq(HookEvent)
         /\ \A e \in HookEvent : In(e, SubSeq(s, 1, n)) => In(e, s)
         /\ NoneTwice(s) => NoneTwice(SubSeq(s, 1, n))
<1>1. /\ SubSeq(s, 1, n) \in Seq(HookEvent) /\ DOMAIN SubSeq(s, 1, n) = 1..n
      /\ DOMAIN s = 1..Len(s) /\ 1..n \subseteq 1..Len(s)
      /\ \A i \in 1..n : SubSeq(s, 1, n)[i] = s[i]
  OBVIOUS
<1> QED
  BY <1>1 DEF In, NoneTwice

\* A further entry of the log is one copy more of the event it is of.
LEMMA StoredCopies ==
  ASSUME HookTypeOK, NEW e \in HookEvent
  PROVE  /\ CopiesStored(e) \in Nat
         /\ UNCHANGED log => CopiesStored(e)' = CopiesStored(e)
         /\ \A r \in LogRecord :
              log' = Append(log, r) =>
                CopiesStored(e)' = IF r.of = e THEN CopiesStored(e) + 1 ELSE CopiesStored(e)
<1> DEFINE P == {i \in DOMAIN log : log[i].of = e}
<1>1. log \in Seq(LogRecord)
  BY DEF HookTypeOK
<1>2. DOMAIN log = 1..Len(log) /\ Len(log) \in Nat
  BY <1>1
<1>3. IsFiniteSet(P)
  <2>1. IsFiniteSet(1..Len(log))
    BY <1>2, FS_Interval
  <2>2. P \in SUBSET (1..Len(log))
    BY <1>2
  <2> QED
    BY <2>1, <2>2, FS_Subset
<1>4. Cardinality(P) \in Nat
  BY <1>3, FS_CardinalityType
<1>5. ASSUME NEW r \in LogRecord, log' = Append(log, r)
      PROVE  CopiesStored(e)' = IF r.of = e THEN CopiesStored(e) + 1 ELSE CopiesStored(e)
  <2>1. /\ DOMAIN log' = 1..(Len(log) + 1)
        /\ \A i \in 1..Len(log) : log'[i] = log[i]
        /\ log'[Len(log) + 1] = r
    BY <1>1, <1>5
  <2>2. {i \in DOMAIN log' : log'[i].of = e}
          = IF r.of = e THEN P \cup {Len(log) + 1} ELSE P
    BY <1>2, <2>1
  <2>3. Len(log) + 1 \notin P
    BY <1>2
  <2> HIDE DEF P
  <2>4. Cardinality(P \cup {Len(log) + 1}) = Cardinality(P) + 1
    BY <1>3, <2>3, FS_AddElement
  <2> QED
    BY <2>2, <2>4 DEF CopiesStored, P
<1> QED
  BY <1>4, <1>5 DEF CopiesStored

-----------------------------------------------------------------------------
\* Nothing is in the empty list.
LEMMA EmptyList ==
  /\ <<>> \in Seq(HookEvent) /\ NoneTwice(<<>>)
  /\ \A e \in HookEvent : ~In(e, <<>>)
BY DEF NoneTwice, In

\* A delivery, served or not, leaves a log of events.
LEMMA DeliverType ==
  ASSUME HookTypeOK, NEW e \in HookEvent, NEW o \in Outcome, Deliver(e, o)
  PROVE  /\ log' \in Seq(LogRecord)
         /\ o.served \in BOOLEAN /\ o.answered \in BOOLEAN /\ (o.answered => o.served)
         /\ \A x \in HookEvent :
              CopiesStored(x)' = CopiesStored(x) + One(x = e /\ o.served)
<1> DEFINE r == [of |-> e, approval |-> ApprovalOf(e), type |-> "requested"]
<1>1. o.served \in BOOLEAN /\ o.answered \in BOOLEAN /\ (o.answered => o.served)
  BY DEF Outcome
<1>2. CASE o.served
  <2>1. Len(log) < MaxLog /\ log' = Append(log, r) /\ Len(log) \in Nat /\ MaxLog \in Nat
    BY <1>2, HookParameters DEF Deliver, Received, HookTypeOK
  <2>2. r \in LogRecord
    BY <2>1 DEF ApprovalOf, Approval, LogRecord
  <2>3. log \in Seq(LogRecord)
    BY DEF HookTypeOK
  <2>4. log' \in Seq(LogRecord)
    <3> HIDE DEF r
    <3> QED
      BY <2>1, <2>2, <2>3
  <2>5. ASSUME NEW x \in HookEvent
        PROVE  CopiesStored(x)' = CopiesStored(x) + One(x = e /\ o.served)
    <3>1. CopiesStored(x)' = IF r.of = x THEN CopiesStored(x) + 1 ELSE CopiesStored(x)
      <4> HIDE DEF r
      <4> QED
        BY <2>1, <2>2, StoredCopies
    <3> QED
      BY <1>2, <3>1, StoredCopies DEF One
  <2> QED
    BY <1>1, <2>4, <2>5
<1>3. CASE ~o.served
  <2>1. log' = log
    BY <1>3 DEF Deliver
  <2>2. ASSUME NEW x \in HookEvent
        PROVE  CopiesStored(x)' = CopiesStored(x) + One(x = e /\ o.served)
    BY <1>3, <2>1, StoredCopies DEF One
  <2> QED
    BY <1>1, <2>1, <2>2 DEF HookTypeOK
<1> QED
  BY <1>1, <1>2, <1>3

\* Processes that end while they write.
HookCut(e) == \E n \in 0..MaxQueueLines : HookKilledWriting(e, n)

ReplayCut == \E n \in 0..Cardinality(HookEvent) : ReplayDiesWriting(n)

\* An event r that no hook sends is stored.
Decided(r) ==
  /\ r.of \notin HookEvent /\ r.type \in Ended
  /\ log' = Append(log, r)
  /\ UNCHANGED <<queue, fileExists, hook, replay, replays, dropped, exposed, doubt>>

\* The steps by what they do to the lists.
LEMMA StepCases ==
  ASSUME [HookNext]_hookVars
  PROVE  \/ \E e \in HookEvent, o \in Outcome : PostHookEvent(e, o)
         \/ \E e \in HookEvent : SpoolEvent(e)
         \/ \E e \in HookEvent : ReadQueue(e)
         \/ \E e \in HookEvent : ClearQueue(e)
         \/ \E e \in HookEvent : LimitQueue(e) \/ HookKilled(e) \/ HookCut(e)
         \/ StartReplay
         \/ \E o \in Outcome : ReplayPosts(o)
         \/ ReplayDeletes \/ ReplayClears \/ ReplayDies
         \/ ReplayWrites \/ ReplayCut
         \/ \E r \in LogRecord : Decided(r)
         \/ UNCHANGED hookVars
<1>1. ASSUME NEW a \in Approval, NEW who \in {"operator", "timekeeper"}, NEW type \in Ended,
             Decide(a, who, type)
      PROVE  \E r \in LogRecord : Decided(r)
  <2> DEFINE r == [of |-> who, approval |-> a, type |-> type]
  <2>1. r \in LogRecord /\ r.of \notin HookEvent /\ r.type \in Ended
    BY HookParameters DEF LogRecord
  <2>2. log' = Append(log, r) /\ UNCHANGED <<queue, fileExists, hook, replay, replays, dropped, exposed, doubt>>
    BY <1>1 DEF Decide
  <2> HIDE DEF r
  <2> QED
    BY <2>1, <2>2 DEF Decided
<1>2. ASSUME NEW a \in Approval, Expire(a) \/ \E decision \in {"accepted", "denied"} : Resolve(a, decision)
      PROVE  \E r \in LogRecord : Decided(r)
  <2>1. /\ "expired" \in Ended /\ "accepted" \in Ended /\ "denied" \in Ended
        /\ "timekeeper" \in {"operator", "timekeeper"} /\ "operator" \in {"operator", "timekeeper"}
    BY DEF Ended
  <2>2. CASE Expire(a)
    BY <1>1, <2>1, <2>2 DEF Expire
  <2>3. ASSUME NEW decision \in {"accepted", "denied"}, Resolve(a, decision)
        PROVE  \E r \in LogRecord : Decided(r)
    BY <1>1, <2>1, <2>3 DEF Resolve
  <2> QED
    BY <1>2, <2>2, <2>3
<1>3. CASE HookNext
  BY <1>2, <1>3 DEF HookNext, HookCut, ReplayCut
<1> QED
  BY <1>3

\* Nothing has happened.
LEMMA HookStart == HookInit => HookTypeOK /\ ReplayShape
<1> SUFFICES ASSUME HookInit
             PROVE  HookTypeOK /\ ReplayShape
  OBVIOUS
<1>1. queue \in Seq(HookEvent) /\ NoReplay \in ReplayRecord
  BY DEF HookInit, NoReplay, ReplayRecord
<1>2. log \in Seq(LogRecord)
  BY DEF HookInit
<1>3. hook \in [HookEvent -> HookRecord] /\ \A e \in HookEvent : hook[e].pc = "new"
  BY DEF HookInit, HookRecord
<1>4. ReplayShape
  BY DEF HookInit, ReplayShape, NoReplay
<1>5. replays \in 0..MaxReplays
  <2>1. replays = 0 /\ MaxReplays \in Nat
    BY HookParameters DEF HookInit
  <2> QED
    BY ONLY <2>1
<1>6. doubt \in [HookEvent -> Nat] /\ replay \in ReplayRecord
  BY <1>1 DEF HookInit
<1> QED
  BY <1>1, <1>2, <1>3, <1>4, <1>5, <1>6 DEF HookInit, HookTypeOK

\* What a hook holds has the length its place in Limit-JsonLines gives it.
HookShape(h) ==
  /\ h.pc = "rewrite" => Len(h.lines) > MaxQueueLines
  /\ h.pc = "write" => Len(h.lines) = MaxQueueLines

\* The lines of a hook, and those of the replay, are lists of events.
LEMMA HookTypesStep ==
  HookTypeOK /\ ReplayShape /\ [HookNext]_hookVars => HookTypeOK' /\ ReplayShape'
<1> SUFFICES ASSUME HookTypeOK, ReplayShape, [HookNext]_hookVars
             PROVE  HookTypeOK' /\ ReplayShape'
  OBVIOUS
<1> USE HookParameters DEF HookRecord, ReplayRecord
<1>a. /\ queue \in Seq(HookEvent) /\ log \in Seq(LogRecord)
      /\ hook \in [HookEvent -> HookRecord] /\ replay \in ReplayRecord
      /\ \A h \in HookEvent : HookShape(hook[h])
      /\ doubt \in [HookEvent -> Nat]
      /\ fileExists \in BOOLEAN /\ replays \in 0..MaxReplays
      /\ dropped \subseteq HookEvent /\ exposed \subseteq HookEvent
  BY DEF HookTypeOK, HookShape
<1>b. NoReplay \in ReplayRecord /\ NoReplay.pc = "idle"
  BY DEF NoReplay, ReplayRecord
<1>1. ASSUME NEW e \in HookEvent, NEW o \in Outcome, PostHookEvent(e, o)
      PROVE  HookTypeOK' /\ ReplayShape'
  <2>1. hook' \in [HookEvent -> HookRecord] /\ \A h \in HookEvent : HookShape(hook'[h])
    BY <1>1, <1>a DEF PostHookEvent, HookShape
  <2>2. doubt' \in [HookEvent -> Nat]
    BY <1>1, <1>a DEF PostHookEvent
  <2>3. log' \in Seq(LogRecord)
    BY <1>1, DeliverType DEF PostHookEvent
  <2> QED
    BY <1>1, <1>a, <2>1, <2>2, <2>3 DEF PostHookEvent, HookTypeOK, ReplayShape, HookShape
<1>2. ASSUME NEW e \in HookEvent, SpoolEvent(e)
      PROVE  HookTypeOK' /\ ReplayShape'
  <2>1. queue' \in Seq(HookEvent)
    BY <1>2, <1>a, AppendIn DEF SpoolEvent
  <2>2. hook' \in [HookEvent -> HookRecord] /\ \A h \in HookEvent : HookShape(hook'[h])
    BY <1>2, <1>a DEF SpoolEvent, HookShape
  <2>3. exposed' \subseteq HookEvent
    BY <1>2, <1>a DEF SpoolEvent
  <2> QED
    BY <1>2, <1>a, <2>1, <2>2, <2>3 DEF SpoolEvent, HookTypeOK, ReplayShape, HookShape
<1>3. ASSUME NEW e \in HookEvent, ReadQueue(e)
      PROVE  HookTypeOK' /\ ReplayShape'
  <2>1. hook' \in [HookEvent -> HookRecord]
    BY <1>3, <1>a, EmptyList DEF ReadQueue
  <2>2. \A h \in HookEvent : HookShape(hook'[h])
    BY <1>3, <1>a DEF ReadQueue, HookShape, Fits
  <2>3. exposed' \subseteq HookEvent
    BY <1>3, <1>a DEF ReadQueue, Missed
  <2> QED
    BY <1>3, <1>a, <2>1, <2>2, <2>3 DEF ReadQueue, HookTypeOK, ReplayShape, HookShape
<1>4. ASSUME NEW e \in HookEvent, ClearQueue(e)
      PROVE  HookTypeOK' /\ ReplayShape'
  <2>1. hook[e].lines \in Seq(HookEvent) /\ Len(hook[e].lines) > MaxQueueLines
    BY <1>4, <1>a DEF ClearQueue, HookShape
  <2>2. LastLines(hook[e].lines) \in Seq(HookEvent) /\ Len(LastLines(hook[e].lines)) = MaxQueueLines
    BY <2>1, LastIn
  <2>3. dropped' \subseteq HookEvent
    <3>1. \A i \in 1..(Len(hook[e].lines) - MaxQueueLines) : hook[e].lines[i] \in HookEvent
      BY <2>1
    <3>2. dropped' = dropped \cup {hook[e].lines[i] : i \in 1..(Len(hook[e].lines) - MaxQueueLines)}
      BY <1>4 DEF ClearQueue
    <3> QED
      BY <1>a, <3>1, <3>2
  <2>4. doubt' \in [HookEvent -> Nat]
    <3> DEFINE B(x) == In(x, LastLines(hook[e].lines)) /\ ~In(x, queue) /\ ~InHooksHand(x)
    <3>1. doubt' = [x \in HookEvent |-> doubt[x] + IF B(x) THEN 1 ELSE 0]
      BY <1>4 DEF ClearQueue
    <3> HIDE DEF B
    <3> QED
      BY <1>a, <3>1
  <2>5. hook' \in [HookEvent -> HookRecord]
    BY <1>4, <1>a, <2>2 DEF ClearQueue
  <2>6. \A h \in HookEvent : HookShape(hook'[h])
    BY <1>4, <1>a, <2>2 DEF ClearQueue, HookShape
  <2> QED
    BY <1>4, <1>a, <2>3, <2>4, <2>5, <2>6, EmptyList
       DEF ClearQueue, HookTypeOK, ReplayShape, HookShape
<1>5. ASSUME NEW e \in HookEvent, LimitQueue(e) \/ HookKilled(e) \/ HookCut(e)
      PROVE  HookTypeOK' /\ ReplayShape'
  <2>1. /\ UNCHANGED <<log, replay, replays, dropped, doubt>>
        /\ \E p \in {"done", "killed"} :
             hook' = [hook EXCEPT ![e] = [pc |-> p, lines |-> <<>>]]
    BY <1>5 DEF LimitQueue, HookKilled, HookCut, HookKilledWriting
  <2>2. hook' \in [HookEvent -> HookRecord] /\ \A h \in HookEvent : HookShape(hook'[h])
    BY <1>a, <2>1, EmptyList DEF HookShape
  <2>3. queue' \in Seq(HookEvent) /\ fileExists' \in BOOLEAN /\ exposed' \subseteq HookEvent
    <3>1. hook[e].lines \in Seq(HookEvent) /\ LinesOf(hook[e].lines) \subseteq HookEvent
      BY <1>a DEF LinesOf
    <3>2. CASE LimitQueue(e)
      BY <1>a, <3>1, <3>2 DEF LimitQueue
    <3>3. CASE HookKilled(e)
      BY <1>a, <3>3 DEF HookKilled
    <3>4. CASE HookCut(e)
      BY <1>a, <3>1, <3>4, PrefixIn DEF HookCut, HookKilledWriting
    <3> QED
      BY <1>5, <3>2, <3>3, <3>4
  <2> QED
    BY <1>a, <2>1, <2>2, <2>3 DEF HookTypeOK, ReplayShape, HookShape
<1>6. CASE StartReplay
  <2>1. replay' \in ReplayRecord /\ replay'.pc = "post"
    BY <1>6, <1>a, <1>b DEF StartReplay
  <2>2. replays' \in 0..MaxReplays /\ replays' > 0
    <3>1. replays \in Nat /\ MaxReplays \in Nat /\ replays < MaxReplays /\ replays' = replays + 1
      BY <1>6, <1>a DEF StartReplay
    <3> QED
      BY ONLY <3>1
  <2>3. exposed' \subseteq HookEvent
    BY <1>6, <1>a DEF StartReplay, Missed
  <2> QED
    BY <1>6, <1>a, <2>1, <2>2, <2>3 DEF StartReplay, HookTypeOK, ReplayShape, HookShape
<1>7. ASSUME NEW o \in Outcome, ReplayPosts(o)
      PROVE  HookTypeOK' /\ ReplayShape'
  <2> DEFINE e == Head(replay.todo)
  <2>1. replay.todo \in Seq(HookEvent) /\ replay.todo # <<>>
    BY <1>7, <1>a DEF ReplayPosts
  <2>2. e \in HookEvent /\ Tail(replay.todo) \in Seq(HookEvent)
    BY <2>1, TailIn
  <2> HIDE DEF e
  <2>3. Append(replay.remaining, e) \in Seq(HookEvent)
    BY <1>a, <2>2
  <2>4. Deliver(e, o)
    BY <1>7 DEF ReplayPosts, e
  <2>5. doubt' \in [HookEvent -> Nat] /\ replay'.pc = "post" /\ replay.pc = "post"
    BY <1>7, <1>a, <2>2 DEF ReplayPosts, e
  <2>6. replay' \in ReplayRecord
    BY <1>7, <1>a, <2>2, <2>3 DEF ReplayPosts, e
  <2> QED
    BY <1>7, <1>a, <2>2, <2>4, <2>5, <2>6, DeliverType
       DEF ReplayPosts, HookTypeOK, ReplayShape, HookShape
<1>8. ASSUME ReplayDeletes \/ ReplayClears \/ ReplayDies
      PROVE  HookTypeOK' /\ ReplayShape'
  <2>1. /\ UNCHANGED <<log, hook, replays, dropped, exposed>> /\ replay.pc = "post"
        /\ queue' \in {queue, <<>>} /\ fileExists' \in BOOLEAN
        /\ \/ replay' = NoReplay
           \/ replay.todo = <<>> /\ replay' = [replay EXCEPT !.pc = "write", !.delivered = {}]
    BY <1>8, <1>a DEF ReplayDeletes, ReplayClears, ReplayDies, RemainsOfFile
  <2>2. doubt' \in [HookEvent -> Nat]
    <3>1. CASE ReplayDies
      BY <1>a, <3>1 DEF ReplayDies
    <3>2. CASE TakenOut
      <4> DEFINE B(x) == x \in replay.delivered /\ InHooksHand(x)
      <4>1. doubt' = [x \in HookEvent |-> doubt[x] + IF B(x) THEN 1 ELSE 0]
        BY <3>2 DEF TakenOut
      <4> HIDE DEF B
      <4> QED
        BY <1>a, <4>1
    <3> QED
      BY <1>8, <3>1, <3>2 DEF ReplayDeletes, ReplayClears
  <2>3. replay' \in ReplayRecord /\ ReplayShape'
    BY <1>a, <1>b, <2>1 DEF ReplayShape
  <2> QED
    BY <1>a, <2>1, <2>2, <2>3, EmptyList DEF HookTypeOK, HookShape
<1>9. ASSUME ReplayWrites \/ ReplayCut
      PROVE  HookTypeOK' /\ ReplayShape'
  <2>1. /\ UNCHANGED <<log, hook, replays, dropped, doubt>> /\ replay' = NoReplay
        /\ fileExists' \in BOOLEAN
    BY <1>9 DEF ReplayWrites, ReplayCut, ReplayDiesWriting
  <2>2. queue' \in Seq(HookEvent) /\ exposed' \subseteq HookEvent
    <3>1. replay.remaining \in Seq(HookEvent) /\ LinesOf(replay.remaining) \subseteq HookEvent
      BY <1>a DEF LinesOf
    <3>2. CASE ReplayWrites
      BY <1>a, <3>1, <3>2 DEF ReplayWrites
    <3>3. CASE ReplayCut
      BY <1>a, <3>1, <3>3, PrefixIn DEF ReplayCut, ReplayDiesWriting
    <3> QED
      BY <1>9, <3>2, <3>3
  <2> QED
    BY <1>a, <1>b, <2>1, <2>2 DEF HookTypeOK, ReplayShape, HookShape
<1>10. ASSUME NEW r \in LogRecord, Decided(r)
      PROVE  HookTypeOK' /\ ReplayShape'
  BY <1>10, <1>a DEF Decided, HookTypeOK, ReplayShape, HookShape
<1>11. CASE UNCHANGED hookVars
  BY <1>11, <1>a DEF hookVars, HookTypeOK, ReplayShape, HookShape
<1> QED
  BY <1>1, <1>2, <1>3, <1>4, <1>5, <1>6, <1>7, <1>8, <1>9, <1>10, <1>11, StepCases

-----------------------------------------------------------------------------
\* Who has posted and not spooled is in no list, and a line is in a list once.
LEMMA PlacesStep ==
  ASSUME HookTypeOK, ReplayShape, Places, [HookNext]_hookVars
  PROVE  Places'
<1>a. /\ queue \in Seq(HookEvent) /\ hook \in [HookEvent -> HookRecord]
      /\ replay \in ReplayRecord
      /\ replay.todo \in Seq(HookEvent) /\ replay.remaining \in Seq(HookEvent)
      /\ \A h \in HookEvent : hook[h].lines \in Seq(HookEvent)
  BY DEF HookTypeOK, HookRecord, ReplayRecord
<1>1. ASSUME NEW e \in HookEvent, NEW o \in Outcome, PostHookEvent(e, o)
      PROVE  Places'
  <2>1. queue' = queue /\ replay' = replay
    BY <1>1 DEF PostHookEvent
  <2>2. \A h \in HookEvent : hook'[h].lines = hook[h].lines
    BY <1>1, <1>a DEF PostHookEvent, HookRecord
  <2>3. \A h \in HookEvent : hook'[h].pc \in {"new", "spool"} => hook[h].pc \in {"new", "spool"}
    BY <1>1, <1>a DEF PostHookEvent, HookRecord
  <2> QED
    BY <2>1, <2>2, <2>3 DEF Places, Nowhere
<1>2. ASSUME NEW e \in HookEvent, SpoolEvent(e)
      PROVE  Places'
  <2>1. queue' = Append(queue, e) /\ replay' = replay /\ Nowhere(e)
    BY <1>2 DEF SpoolEvent, Places
  <2>2. \A h \in HookEvent : hook'[h].lines = hook[h].lines
    BY <1>2, <1>a DEF SpoolEvent, HookRecord
  <2>3. \A h \in HookEvent : hook'[h].pc \in {"new", "spool"} =>
          h # e /\ hook[h].pc \in {"new", "spool"}
    BY <1>2, <1>a DEF SpoolEvent, HookRecord
  <2>4. /\ NoneTwice(queue')
        /\ \A x \in HookEvent : In(x, queue') <=> In(x, queue) \/ x = e
    BY <1>a, <2>1, AppendIn DEF Places, Nowhere
  <2> QED
    BY <2>1, <2>2, <2>3, <2>4 DEF Places, Nowhere
<1>3. ASSUME NEW e \in HookEvent, ReadQueue(e)
      PROVE  Places'
  <2>1. queue' = queue /\ replay' = replay
    BY <1>3 DEF ReadQueue
  <2>2. \A h \in HookEvent : hook'[h].lines \in {hook[h].lines, queue, <<>>}
    BY <1>3, <1>a DEF ReadQueue, HookRecord
  <2>3. \A h \in HookEvent : hook'[h].pc \in {"new", "spool"} => hook[h].pc \in {"new", "spool"}
    BY <1>3, <1>a DEF ReadQueue, HookRecord
  <2>4. \A h \in HookEvent : NoneTwice(hook'[h].lines)
    BY <2>2, EmptyList DEF Places
  <2>5. \A x \in HookEvent : Nowhere(x) => Nowhere(x)'
    BY <2>1, <2>2, EmptyList DEF Nowhere
  <2> QED
    BY <2>1, <2>3, <2>4, <2>5 DEF Places
<1>4. ASSUME NEW e \in HookEvent, ClearQueue(e)
      PROVE  Places'
  <2>1. hook[e].lines \in Seq(HookEvent) /\ Len(hook[e].lines) > MaxQueueLines
    BY <1>4, <1>a DEF ClearQueue, HookTypeOK
  <2>2. /\ NoneTwice(LastLines(hook[e].lines))
        /\ \A x \in HookEvent : In(x, LastLines(hook[e].lines)) => In(x, hook[e].lines)
    BY <2>1, LastIn DEF Places
  <2>3. replay' = replay /\ queue' = <<>>
    BY <1>4 DEF ClearQueue
  <2>4. \A h \in HookEvent :
          \/ hook'[h].lines = hook[h].lines
          \/ h = e /\ hook'[h].lines = LastLines(hook[e].lines)
    BY <1>4, <1>a DEF ClearQueue, HookRecord
  <2>5. \A h \in HookEvent : hook'[h].pc \in {"new", "spool"} => hook[h].pc \in {"new", "spool"}
    BY <1>4, <1>a DEF ClearQueue, HookRecord
  <2>6. \A h \in HookEvent : NoneTwice(hook'[h].lines)
    BY <2>2, <2>4 DEF Places
  <2>7. \A x \in HookEvent : Nowhere(x) => Nowhere(x)'
    BY <2>2, <2>3, <2>4, EmptyList DEF Nowhere
  <2> QED
    BY <2>3, <2>5, <2>6, <2>7, EmptyList DEF Places
<1>5. ASSUME NEW e \in HookEvent, LimitQueue(e) \/ HookKilled(e) \/ HookCut(e)
      PROVE  Places'
  <2>1. /\ NoneTwice(queue')
        /\ \A x \in HookEvent : In(x, queue') => In(x, queue) \/ In(x, hook[e].lines)
    <3>1. CASE LimitQueue(e)
      BY <3>1 DEF LimitQueue, Places
    <3>2. CASE HookKilled(e)
      BY <3>2 DEF HookKilled, Places
    <3>3. CASE HookCut(e)
      BY <1>a, <3>3, PrefixIn DEF HookCut, HookKilledWriting, Places
    <3> QED
      BY <1>5, <3>1, <3>2, <3>3
  <2>2. /\ replay' = replay
        /\ \E p \in {"done", "killed"} :
             hook' = [hook EXCEPT ![e] = [pc |-> p, lines |-> <<>>]]
    BY <1>5 DEF LimitQueue, HookKilled, HookCut, HookKilledWriting
  <2>3. \A h \in HookEvent : hook'[h].lines \in {hook[h].lines, <<>>}
    BY <1>a, <2>2 DEF HookRecord
  <2>4. \A h \in HookEvent : hook'[h].pc \in {"new", "spool"} => hook[h].pc \in {"new", "spool"}
    BY <1>a, <2>2 DEF HookRecord
  <2>5. \A h \in HookEvent : NoneTwice(hook'[h].lines)
    BY <2>3, EmptyList DEF Places
  <2>6. \A x \in HookEvent : Nowhere(x) => Nowhere(x)'
    BY <2>1, <2>2, <2>3, EmptyList DEF Nowhere
  <2> QED
    BY <2>1, <2>2, <2>4, <2>5, <2>6 DEF Places
<1>6. CASE StartReplay
  <2>1. queue' = queue /\ hook' = hook
    BY <1>6 DEF StartReplay
  <2>2. replay'.todo = queue /\ replay'.remaining = <<>> /\ replay'.delivered = {}
    BY <1>6 DEF StartReplay, NoReplay
  <2>3. \A x \in HookEvent : Nowhere(x) => Nowhere(x)'
    BY <2>1, <2>2, EmptyList DEF Nowhere
  <2> QED
    BY <2>1, <2>2, <2>3, EmptyList DEF Places
<1>7. ASSUME NEW o \in Outcome, ReplayPosts(o)
      PROVE  Places'
  <2> DEFINE e == Head(replay.todo)
             rest == Tail(replay.todo)
  <2>1. replay.todo # <<>> /\ queue' = queue /\ hook' = hook
    BY <1>7 DEF ReplayPosts
  <2>2. /\ e \in HookEvent /\ rest \in Seq(HookEvent)
        /\ \A x \in HookEvent : In(x, replay.todo) <=> In(x, rest) \/ x = e
        /\ NoneTwice(rest) /\ ~In(e, rest)
    BY <1>a, <2>1, TailIn DEF Places
  <2>3. /\ replay'.todo = rest
        /\ \/ /\ replay'.remaining = replay.remaining
              /\ replay'.delivered = replay.delivered \cup {e}
           \/ /\ replay'.remaining = Append(replay.remaining, e)
              /\ replay'.delivered = replay.delivered
    BY <1>7, <1>a DEF ReplayPosts, ReplayRecord
  <2> HIDE DEF e, rest
  <2>4. ~In(e, replay.remaining) /\ e \notin replay.delivered /\ replay.delivered \subseteq HookEvent
    BY <2>2, <1>a DEF Places, ReplayRecord
  <2>5. /\ NoneTwice(replay'.remaining)
        /\ \A x \in HookEvent : In(x, replay'.remaining) =>
             In(x, replay.remaining) \/ (x = e /\ replay'.delivered = replay.delivered)
    <3>1. CASE replay'.remaining = replay.remaining
      BY <3>1 DEF Places
    <3>2. CASE replay'.remaining = Append(replay.remaining, e) /\ replay'.delivered = replay.delivered
      <4>1. /\ NoneTwice(Append(replay.remaining, e))
            /\ \A x \in HookEvent :
                 In(x, Append(replay.remaining, e)) => In(x, replay.remaining) \/ x = e
        BY <1>a, <2>2, <2>4, AppendIn DEF Places
      <4> QED
        BY <3>2, <4>1
    <3> QED
      BY <2>3, <3>1, <3>2
  <2>6. \A x \in HookEvent : In(x, rest) => ~In(x, replay'.remaining)
    BY <2>2, <2>5 DEF Places
  <2>7. \A x \in replay'.delivered : ~In(x, rest) /\ ~In(x, replay'.remaining)
    BY <2>2, <2>3, <2>4, <2>5 DEF Places
  <2>8. \A x \in HookEvent : Nowhere(x) => Nowhere(x)'
    BY <2>1, <2>2, <2>3, <2>5 DEF Nowhere
  <2> QED
    BY <2>1, <2>2, <2>3, <2>5, <2>6, <2>7, <2>8 DEF Places
<1>8. ASSUME ReplayDeletes \/ ReplayClears \/ ReplayDies \/ ReplayWrites \/ ReplayCut
      PROVE  Places'
  <2>1. /\ NoneTwice(queue')
        /\ \A x \in HookEvent : In(x, queue') => In(x, queue) \/ In(x, replay.remaining)
    <3>1. CASE ReplayDeletes \/ ReplayClears \/ ReplayDies
      BY <3>1, EmptyList DEF ReplayDeletes, ReplayClears, ReplayDies, RemainsOfFile, Places
    <3>2. CASE ReplayWrites
      BY <3>2 DEF ReplayWrites, Places
    <3>3. CASE ReplayCut
      BY <1>a, <3>3, PrefixIn DEF ReplayCut, ReplayDiesWriting, Places
    <3> QED
      BY <1>8, <3>1, <3>2, <3>3
  <2>2. /\ hook' = hook
        /\ \/ replay' = NoReplay
           \/ replay' = [replay EXCEPT !.pc = "write", !.delivered = {}]
    BY <1>8 DEF ReplayDeletes, ReplayClears, ReplayDies, ReplayWrites, ReplayCut, ReplayDiesWriting
  <2>3. /\ \/ replay'.todo = <<>> /\ replay'.remaining = <<>>
           \/ replay'.todo = replay.todo /\ replay'.remaining = replay.remaining
        /\ replay'.delivered = {}
    <3>1. CASE replay' = NoReplay
      BY <3>1 DEF NoReplay
    <3>2. CASE replay' = [replay EXCEPT !.pc = "write", !.delivered = {}]
      BY <1>a, <3>2 DEF ReplayRecord
    <3> QED
      BY <2>2, <3>1, <3>2
  <2>4. \A x \in HookEvent : Nowhere(x) => Nowhere(x)'
    BY <2>1, <2>2, <2>3, EmptyList DEF Nowhere
  <2> QED
    BY <2>1, <2>2, <2>3, <2>4, EmptyList DEF Places
<1>9. ASSUME NEW r \in LogRecord, Decided(r)
      PROVE  Places'
  BY <1>9 DEF Decided, Places, Nowhere
<1>10. CASE UNCHANGED hookVars
  BY <1>10 DEF hookVars, Places, Nowhere
<1> QED
  BY <1>1, <1>2, <1>3, <1>4, <1>5, <1>6, <1>7, <1>8, <1>9, <1>10, StepCases

-----------------------------------------------------------------------------
\* Each further copy has its cause.
LEMMA CountedStep ==
  ASSUME HookTypeOK, ReplayShape, Places, Counted, [HookNext]_hookVars
  PROVE  Counted'
<1> SUFFICES ASSUME NEW x \in HookEvent
             PROVE  CountedOf(x)'
  BY DEF Counted
<1>a. /\ CopiesStored(x) \in Nat /\ doubt[x] \in Nat /\ doubt \in [HookEvent -> Nat]
      /\ hook \in [HookEvent -> HookRecord]
      /\ queue \in Seq(HookEvent) /\ replay \in ReplayRecord
      /\ replay.todo \in Seq(HookEvent) /\ replay.remaining \in Seq(HookEvent)
      /\ \A h \in HookEvent : hook[h].lines \in Seq(HookEvent)
  BY StoredCopies DEF HookTypeOK, HookRecord, ReplayRecord
<1>b. UNCHANGED log => CopiesStored(x)' = CopiesStored(x)
  BY StoredCopies
<1>c. CountedOf(x) /\ (hook[x].pc \in {"new", "spool"} => Nowhere(x))
  BY DEF Counted, Places
<1>1. ASSUME NEW e \in HookEvent, NEW o \in Outcome, PostHookEvent(e, o)
      PROVE  CountedOf(x)'
  <2>1. /\ o.served \in BOOLEAN /\ o.answered \in BOOLEAN /\ (o.answered => o.served)
        /\ CopiesStored(x)' = CopiesStored(x) + One(x = e /\ o.served)
    BY <1>1, DeliverType DEF PostHookEvent
  <2>2. queue' = queue /\ replay' = replay /\ hook[e].pc = "new"
    BY <1>1 DEF PostHookEvent
  <2>3. /\ hook'[x].pc = IF x = e THEN IF o.answered THEN "limit" ELSE "spool" ELSE hook[x].pc
        /\ doubt'[x] = doubt[x] + One(x = e /\ o.served /\ ~o.answered)
    BY <1>1, <1>a DEF PostHookEvent, HookRecord, One
  <2>4. InHooksHand(x)' <=> InHooksHand(x)
    <3>1. \A h \in HookEvent : (hook'[h].pc = "write" <=> hook[h].pc = "write")
                               /\ hook'[h].lines = hook[h].lines
      BY <1>1, <1>a DEF PostHookEvent, HookRecord
    <3> QED
      BY <3>1 DEF InHooksHand
  <2>5. x = e => ~Held(x)
    BY <1>c, <2>2 DEF Held, InHooksHand, Nowhere
  <2>6. (Held(x)' <=> Held(x)) /\ (InReplay(x)' <=> InReplay(x))
    BY <2>2, <2>4 DEF Held, InReplay
  <2>7. x = e => ~InReplay(x)
    BY <1>c, <2>2 DEF InReplay, Nowhere
  <2>8. x \in replay'.delivered <=> x \in replay.delivered
    BY <2>2
  <2> QED
    BY <1>a, <1>c, <2>1, <2>2, <2>3, <2>5, <2>6, <2>7, <2>8 DEF CountedOf, Owed, One
<1>2. ASSUME NEW e \in HookEvent, SpoolEvent(e)
      PROVE  CountedOf(x)'
  <2>1. queue' = Append(queue, e) /\ replay' = replay /\ doubt' = doubt /\ UNCHANGED log
    BY <1>2 DEF SpoolEvent
  <2>2. hook[e].pc = "spool" /\ hook'[x].pc = IF x = e THEN "limit" ELSE hook[x].pc
    BY <1>2, <1>a DEF SpoolEvent, HookRecord
  <2>3. In(x, queue') <=> In(x, queue) \/ x = e
    BY <1>a, <2>1, AppendIn
  <2>4. InHooksHand(x)' <=> InHooksHand(x)
    <3>1. \A h \in HookEvent : (hook'[h].pc = "write" <=> hook[h].pc = "write")
                               /\ hook'[h].lines = hook[h].lines
      BY <1>2, <1>a DEF SpoolEvent, HookRecord
    <3> QED
      BY <3>1 DEF InHooksHand
  <2>5. Held(x)' => Held(x) \/ x = e
    BY <2>3, <2>4 DEF Held
  <2>6. InReplay(x)' <=> InReplay(x)
    BY <2>1 DEF InReplay
  <2>7. x = e => ~InReplay(x)
    BY <1>c, <2>2 DEF InReplay, Nowhere
  <2> QED
    BY <1>a, <1>b, <1>c, <2>1, <2>2, <2>5, <2>6, <2>7 DEF CountedOf, Owed, One
<1>3. ASSUME NEW e \in HookEvent, ReadQueue(e)
      PROVE  CountedOf(x)'
  <2>1. queue' = queue /\ replay' = replay /\ doubt' = doubt /\ UNCHANGED log
    BY <1>3 DEF ReadQueue
  <2>2. hook'[x].pc \in {hook[x].pc, "rewrite", "done"}
    BY <1>3, <1>a DEF ReadQueue, HookRecord
  <2>3. \A h \in HookEvent : hook'[h].pc = "write" => hook'[h] = hook[h]
    BY <1>3, <1>a DEF ReadQueue, HookRecord
  <2>4. (Held(x)' => Held(x)) /\ (InReplay(x)' <=> InReplay(x))
    BY <2>1, <2>3 DEF Held, InHooksHand, InReplay
  <2> QED
    BY <1>a, <1>b, <1>c, <2>1, <2>2, <2>4 DEF CountedOf, Owed, One
<1>4. ASSUME NEW e \in HookEvent, ClearQueue(e)
      PROVE  CountedOf(x)'
  <2>1. replay' = replay /\ UNCHANGED log /\ queue' = <<>>
    BY <1>4 DEF ClearQueue
  <2>2. hook'[x].pc \in {hook[x].pc, "write"}
    BY <1>4, <1>a DEF ClearQueue, HookRecord
  <2>3. \A h \in HookEvent : hook'[h] = hook[h]
                             \/ (h = e /\ hook'[h].lines = LastLines(hook[e].lines))
    BY <1>4, <1>a DEF ClearQueue, HookRecord
  <2>4. Held(x)' => InHooksHand(x) \/ In(x, LastLines(hook[e].lines))
    BY <2>1, <2>3, EmptyList DEF Held, InHooksHand
  <2>5. doubt'[x] = doubt[x] + One(In(x, LastLines(hook[e].lines)) /\ ~In(x, queue) /\ ~InHooksHand(x))
    BY <1>4 DEF ClearQueue, One
  <2>6. Held(x)' /\ ~Held(x) => doubt'[x] = doubt[x] + 1
    BY <2>4, <2>5 DEF Held, One
  <2>7. doubt'[x] \in Nat /\ doubt'[x] >= doubt[x]
    BY <1>a, <2>5 DEF One
  <2>8. InReplay(x)' <=> InReplay(x)
    BY <2>1 DEF InReplay
  <2>9. /\ CopiesStored(x)' = CopiesStored(x)
        /\ hook'[x].pc = "new" => hook[x].pc = "new"
        /\ One(hook'[x].pc = "spool") <= One(hook[x].pc = "spool")
    BY <1>b, <2>1, <2>2 DEF One
  <2>10. Owed(x) \in Nat /\ Owed(x)' \in Nat /\ Owed(x)' <= Owed(x)
    BY <1>a, <2>9 DEF Owed, One
  <2>11. One(InReplay(x)') = One(InReplay(x)) /\ replay'.delivered = replay.delivered
    BY <2>1, <2>8 DEF One
  <2>12. One(Held(x)') - doubt'[x] <= One(Held(x)) - doubt[x]
    BY <1>a, <2>6, <2>7 DEF One
  <2>13. Owed(x)' + One(InReplay(x)') <= 1 + doubt'[x]
    BY <1>a, <1>c, <2>7, <2>10, <2>11 DEF CountedOf, One
  <2>14. Owed(x)' + One(Held(x)') <= 1 + doubt'[x] + One(x \in replay'.delivered)
    <3> DEFINE given == One(x \in replay.delivered)
               given2 == One(x \in replay'.delivered)
               held == One(Held(x))
               held2 == One(Held(x)')
    <3>1. Owed(x) + held <= 1 + doubt[x] + given
      BY <1>c DEF CountedOf
    <3>2. given2 = given
      BY <2>11
    <3>3. {given, held, held2} \subseteq Nat
      BY DEF One
    <3>4. held2 - doubt'[x] <= held - doubt[x]
      BY <2>12
    <3> HIDE DEF given, given2, held, held2
    <3>5. Owed(x)' + held2 <= 1 + doubt'[x] + given2
      BY <1>a, <2>7, <2>10, <3>1, <3>2, <3>3, <3>4
    <3> QED
      BY <3>5 DEF given2, held2
  <2> QED
    BY <1>c, <2>9, <2>13, <2>14 DEF CountedOf
<1>5. ASSUME NEW e \in HookEvent, LimitQueue(e) \/ HookKilled(e) \/ HookCut(e)
      PROVE  CountedOf(x)'
  <2>1. /\ replay' = replay /\ doubt' = doubt /\ UNCHANGED log
        /\ \E p \in {"done", "killed"} :
             hook' = [hook EXCEPT ![e] = [pc |-> p, lines |-> <<>>]]
    BY <1>5 DEF LimitQueue, HookKilled, HookCut, HookKilledWriting
  <2>2. In(x, queue') => Held(x)
    <3>1. CASE LimitQueue(e)
      BY <3>1 DEF LimitQueue, Held, InHooksHand
    <3>2. CASE HookKilled(e)
      BY <3>2 DEF HookKilled, Held
    <3>3. CASE HookCut(e)
      BY <1>a, <3>3, PrefixIn DEF HookCut, HookKilledWriting, Held, InHooksHand
    <3> QED
      BY <1>5, <3>1, <3>2, <3>3
  <2>3. hook'[x].pc \in {hook[x].pc, "done", "killed"}
    BY <1>a, <2>1 DEF HookRecord
  <2>4. \A h \in HookEvent : hook'[h].pc = "write" => hook'[h] = hook[h]
    BY <1>a, <2>1 DEF HookRecord
  <2>5. (Held(x)' => Held(x)) /\ (InReplay(x)' <=> InReplay(x))
    BY <2>1, <2>2, <2>4 DEF Held, InHooksHand, InReplay
  <2> QED
    BY <1>a, <1>b, <1>c, <2>1, <2>3, <2>5 DEF CountedOf, Owed, One
<1>6. CASE StartReplay
  <2>1. /\ queue' = queue /\ hook' = hook /\ doubt' = doubt /\ UNCHANGED log
        /\ replay.pc = "idle"
    BY <1>6 DEF StartReplay
  <2>2. /\ replay'.todo = queue /\ replay'.remaining = <<>> /\ replay'.delivered = {}
        /\ replay.delivered = {}
    BY <1>6, <2>1 DEF StartReplay, NoReplay, ReplayShape
  <2>3. (Held(x)' <=> Held(x)) /\ (InReplay(x)' => Held(x))
    BY <2>1, <2>2, EmptyList DEF Held, InHooksHand, InReplay
  <2> QED
    BY <1>a, <1>b, <1>c, <2>1, <2>2, <2>3 DEF CountedOf, Owed, One
<1>7. ASSUME NEW o \in Outcome, ReplayPosts(o)
      PROVE  CountedOf(x)'
  <2> DEFINE e == Head(replay.todo)
             rest == Tail(replay.todo)
  <2>1. replay.todo # <<>> /\ queue' = queue /\ hook' = hook
    BY <1>7 DEF ReplayPosts
  <2>2. /\ e \in HookEvent /\ rest \in Seq(HookEvent)
        /\ (In(x, replay.todo) <=> In(x, rest) \/ x = e)
        /\ ~In(e, rest)
    BY <1>a, <2>1, TailIn DEF Places
  <2>3. /\ o.served \in BOOLEAN /\ o.answered \in BOOLEAN /\ (o.answered => o.served)
        /\ CopiesStored(x)' = CopiesStored(x) + One(x = e /\ o.served)
    BY <1>7, <2>2, DeliverType DEF ReplayPosts
  <2>4. /\ replay'.todo = rest
        /\ replay'.remaining = IF o.answered THEN replay.remaining ELSE Append(replay.remaining, e)
        /\ replay'.delivered = IF o.answered THEN replay.delivered \cup {e} ELSE replay.delivered
    BY <1>7, <1>a DEF ReplayPosts, ReplayRecord
  <2>5. doubt'[x] = doubt[x] + One(x = e /\ o.served /\ ~o.answered)
    BY <1>7, <1>a, <2>2 DEF ReplayPosts, One
  <2>6. e \notin replay.delivered /\ ~In(e, replay.remaining)
        /\ hook[e].pc \notin {"new", "spool"}
    <3>1. In(e, replay.todo)
      BY <1>a, <2>1, TailIn
    <3> QED
      BY <2>2, <3>1 DEF Places, Nowhere
  <2>a. Held(x)' <=> Held(x)
    BY <2>1 DEF Held, InHooksHand
  <2> HIDE DEF e, rest
  <2>7. In(x, replay'.remaining) <=>
          In(x, replay.remaining) \/ (x = e /\ ~o.answered)
    <3>1. In(x, Append(replay.remaining, e)) <=> In(x, replay.remaining) \/ x = e
      BY <1>a, <2>2, AppendIn
    <3> QED
      BY <2>3, <2>4, <3>1
  <2>8. CASE x # e
    <3>1. /\ CopiesStored(x)' = CopiesStored(x) /\ doubt'[x] = doubt[x]
          /\ (x \in replay'.delivered <=> x \in replay.delivered)
          /\ (InReplay(x)' <=> InReplay(x))
      BY <1>a, <2>2, <2>3, <2>4, <2>5, <2>7, <2>8 DEF One, InReplay
    <3> QED
      BY <1>c, <2>1, <2>a, <3>1 DEF CountedOf, Owed, One
  <2>9. CASE x = e
    <3>1. /\ CopiesStored(x)' = CopiesStored(x) + One(o.served)
          /\ doubt'[x] = doubt[x] + One(o.served /\ ~o.answered)
          /\ x \notin replay.delivered /\ (x \in replay'.delivered <=> o.answered)
          /\ InReplay(x) /\ (InReplay(x)' <=> ~o.answered)
          /\ hook'[x].pc = hook[x].pc /\ hook[x].pc \notin {"new", "spool"}
      BY <2>1, <2>2, <2>3, <2>4, <2>5, <2>6, <2>7, <2>9 DEF InReplay
    <3> QED
      BY <1>a, <1>c, <2>1, <2>3, <2>a, <3>1 DEF CountedOf, Owed, One
  <2> QED
    BY <2>8, <2>9
<1>8. ASSUME ReplayDeletes \/ ReplayClears
      PROVE  CountedOf(x)'
  <2>1. /\ queue' = <<>> /\ hook' = hook /\ UNCHANGED log /\ TakenOut
        /\ replay.todo = <<>> /\ replay'.todo = <<>> /\ replay'.delivered = {}
        /\ replay'.remaining \in {replay.remaining, <<>>}
    <3>1. CASE ReplayDeletes
      BY <3>1 DEF ReplayDeletes, RemainsOfFile, NoReplay
    <3>2. CASE ReplayClears
      BY <1>a, <3>2 DEF ReplayClears, ReplayRecord
    <3> QED
      BY <1>8, <3>1, <3>2
  <2>2. doubt'[x] = doubt[x] + One(x \in replay.delivered /\ InHooksHand(x))
    BY <2>1 DEF TakenOut, One
  <2>3. (Held(x)' => InHooksHand(x)) /\ (InReplay(x)' => InReplay(x))
    BY <2>1, EmptyList DEF Held, InHooksHand, InReplay
  <2>4. InHooksHand(x) => Held(x)
    BY DEF Held
  <2> QED
    BY <1>a, <1>b, <1>c, <2>1, <2>2, <2>3, <2>4 DEF CountedOf, Owed, One
<1>9. CASE ReplayDies
  <2>1. /\ queue' = queue /\ hook' = hook /\ UNCHANGED log
        /\ replay'.todo = <<>> /\ replay'.remaining = <<>> /\ replay'.delivered = {}
        /\ doubt'[x] = doubt[x] + One(x \in replay.delivered)
    BY <1>9 DEF ReplayDies, NoReplay, One
  <2>2. (Held(x)' <=> Held(x)) /\ ~InReplay(x)'
    BY <2>1, EmptyList DEF Held, InHooksHand, InReplay
  <2> QED
    BY <1>a, <1>b, <1>c, <2>1, <2>2 DEF CountedOf, Owed, One
<1>10. ASSUME ReplayWrites \/ ReplayCut
      PROVE  CountedOf(x)'
  <2>1. /\ hook' = hook /\ UNCHANGED log /\ doubt' = doubt /\ replay' = NoReplay
        /\ replay.pc = "write" /\ replay.delivered = {}
    BY <1>10 DEF ReplayWrites, ReplayCut, ReplayDiesWriting, ReplayShape
  <2>2. In(x, queue') => In(x, replay.remaining)
    <3>1. CASE ReplayWrites
      BY <3>1 DEF ReplayWrites
    <3>2. CASE ReplayCut
      BY <1>a, <3>2, PrefixIn DEF ReplayCut, ReplayDiesWriting
    <3> QED
      BY <1>10, <3>1, <3>2
  <2>3. (Held(x)' => Held(x) \/ InReplay(x)) /\ ~InReplay(x)' /\ replay'.delivered = {}
    BY <2>1, <2>2, EmptyList DEF Held, InHooksHand, InReplay, NoReplay
  <2> QED
    BY <1>a, <1>b, <1>c, <2>1, <2>3 DEF CountedOf, Owed, One
<1>11. ASSUME NEW r \in LogRecord, Decided(r)
      PROVE  CountedOf(x)'
  <2>1. /\ queue' = queue /\ hook' = hook /\ replay' = replay /\ doubt' = doubt
        /\ log' = Append(log, r) /\ r.of # x
    BY <1>11 DEF Decided
  <2>2. CopiesStored(x)' = CopiesStored(x)
    BY <2>1, StoredCopies
  <2> QED
    BY <1>c, <2>1, <2>2 DEF CountedOf, Owed, InReplay, Held, InHooksHand
<1>12. CASE UNCHANGED hookVars
  BY <1>12, <1>b, <1>c DEF hookVars, CountedOf, Owed, InReplay, Held, InHooksHand
<1> QED
  BY <1>1, <1>2, <1>3, <1>4, <1>5, <1>6, <1>7, <1>8, <1>9, <1>10, <1>11, <1>12, StepCases

-----------------------------------------------------------------------------
\* A step that takes nothing out of the file, and leaves the replay and those that
\* rewrite the file alone, leaves an event safe.
LEMMA SafeStays ==
  ASSUME NEW x \in HookEvent, Safe(x), In(x, queue) => In(x, queue'), replay' = replay,
         \A h \in HookEvent :
           hook'[h].pc \in {"rewrite", "write"} \/ hook[h].pc \in {"rewrite", "write"} =>
             hook'[h] = hook[h]
  PROVE  Safe(x)'
<1>1. InHand(x) => InHand(x)'
  BY DEF InHand, InHooksHand
<1> QED
  BY <1>1 DEF Safe, InReplay

\* An event that is neither cut off nor exposed stays where every writer has it.
LEMMA KeptStep ==
  ASSUME HookTypeOK, ReplayShape, KeptSafe, [HookNext]_hookVars
  PROVE  KeptSafe'
<1> SUFFICES ASSUME NEW x \in HookEvent, x \notin dropped', x \notin exposed',
                    hook'[x].pc \in {"limit", "rewrite", "write", "done"}
             PROVE  CopiesStored(x)' > 0 \/ Safe(x)'
  BY DEF KeptSafe
<1>a. /\ CopiesStored(x) \in Nat
      /\ hook \in [HookEvent -> HookRecord]
      /\ queue \in Seq(HookEvent) /\ replay \in ReplayRecord
      /\ replay.todo \in Seq(HookEvent) /\ replay.remaining \in Seq(HookEvent)
      /\ \A h \in HookEvent : hook[h].lines \in Seq(HookEvent)
  BY StoredCopies DEF HookTypeOK, HookRecord, ReplayRecord
<1>b. UNCHANGED log => CopiesStored(x)' = CopiesStored(x)
  BY StoredCopies
<1>c. x \notin dropped /\ x \notin exposed /\ hook[x].pc \in {"limit", "rewrite", "write", "done"} =>
        CopiesStored(x) > 0 \/ Safe(x)
  BY DEF KeptSafe
<1>1. ASSUME NEW e \in HookEvent, NEW o \in Outcome, PostHookEvent(e, o)
      PROVE  CopiesStored(x)' > 0 \/ Safe(x)'
  <2>1. /\ (o.answered => o.served)
        /\ CopiesStored(x)' = CopiesStored(x) + One(x = e /\ o.served)
    BY <1>1, DeliverType DEF PostHookEvent
  <2>2. queue' = queue /\ replay' = replay /\ dropped' = dropped /\ exposed' = exposed
    BY <1>1 DEF PostHookEvent
  <2>3. CASE x = e
    <3>1. o.answered
      BY <1>1, <1>a, <2>3 DEF PostHookEvent, HookRecord
    <3> QED
      BY <1>a, <2>1, <2>3, <3>1 DEF One
  <2>4. CASE x # e
    <3>1. hook'[x] = hook[x]
      BY <1>1, <1>a, <2>4 DEF PostHookEvent
    <3>2. \A h \in HookEvent : hook'[h].pc \in {"rewrite", "write"} => hook'[h] = hook[h]
      BY <1>1, <1>a DEF PostHookEvent, HookRecord
    <3>3. \A h \in HookEvent : hook[h].pc \in {"rewrite", "write"} => hook'[h] = hook[h]
      BY <1>1, <1>a DEF PostHookEvent, HookRecord
    <3>4. CopiesStored(x)' = CopiesStored(x)
      BY <1>a, <2>1, <2>4 DEF One
    <3>5. Safe(x) => Safe(x)'
      BY <2>2, <3>2, <3>3, SafeStays
    <3> QED
      BY <1>c, <2>2, <3>1, <3>4, <3>5
  <2> QED
    BY <2>3, <2>4
<1>2. ASSUME NEW e \in HookEvent, SpoolEvent(e)
      PROVE  CopiesStored(x)' > 0 \/ Safe(x)'
  <2>1. /\ queue' = Append(queue, e) /\ replay' = replay /\ UNCHANGED log /\ dropped' = dropped
        /\ exposed' = IF Rewriting THEN exposed \cup {e} ELSE exposed
    BY <1>2 DEF SpoolEvent
  <2>2. \A h \in HookEvent :
          hook'[h].pc \in {"rewrite", "write"} \/ hook[h].pc \in {"rewrite", "write"} =>
            hook'[h] = hook[h]
    BY <1>2, <1>a DEF SpoolEvent, HookRecord
  <2>3. In(x, queue') <=> In(x, queue) \/ x = e
    BY <1>a, <2>1, AppendIn
  <2>4. CASE x = e
    <3>1. ~Rewriting
      BY <2>1, <2>4
    <3>2. replay'.pc = "idle" /\ \A h \in HookEvent : hook'[h].pc \notin {"rewrite", "write"}
      BY <2>1, <2>2, <3>1 DEF Rewriting
    <3> QED
      BY <2>3, <2>4, <3>2 DEF Safe
  <2>5. CASE x # e
    <3>1. hook'[x] = hook[x]
      BY <1>2, <1>a, <2>5 DEF SpoolEvent
    <3>2. Safe(x) => Safe(x)'
      BY <2>1, <2>2, <2>3, SafeStays
    <3> QED
      BY <1>b, <1>c, <2>1, <3>1, <3>2
  <2> QED
    BY <2>4, <2>5
<1>3. ASSUME NEW e \in HookEvent, ReadQueue(e)
      PROVE  CopiesStored(x)' > 0 \/ Safe(x)'
  <2>1. /\ queue' = queue /\ replay' = replay /\ UNCHANGED log /\ dropped' = dropped
        /\ exposed' = IF Fits(queue) THEN exposed ELSE exposed \cup Missed
    BY <1>3 DEF ReadQueue
  <2>2. hook[x].pc \in {"limit", "rewrite", "write", "done"}
    BY <1>3, <1>a DEF ReadQueue, HookRecord
  <2>3. CASE Fits(queue)
    <3>1. \A h \in HookEvent :
            hook'[h].pc \in {"rewrite", "write"} \/ hook[h].pc \in {"rewrite", "write"} =>
              hook'[h] = hook[h]
      BY <1>3, <1>a, <2>3 DEF ReadQueue, HookRecord
    <3>2. Safe(x) => Safe(x)'
      BY <2>1, <3>1, SafeStays
    <3> QED
      BY <1>b, <1>c, <2>1, <2>2, <2>3, <3>2
  <2>4. CASE ~Fits(queue)
    <3>1. hook' = [hook EXCEPT ![e] = [pc |-> "rewrite", lines |-> queue]] /\ hook[e].pc = "limit"
      BY <1>3, <2>4 DEF ReadQueue
    <3>2. \A h \in HookEvent \ {e} : hook'[h] = hook[h]
      BY <1>a, <3>1
    <3>3. hook'[e].pc = "rewrite" /\ hook'[e].lines = queue
      BY <1>a, <3>1
    <3>4. Safe(x) => In(x, queue)
      BY <2>1, <2>4 DEF Safe, Missed
    <3>5. Safe(x) => Safe(x)'
      BY <2>1, <3>2, <3>3, <3>4 DEF Safe, InReplay
    <3> QED
      BY <1>b, <1>c, <2>1, <2>2, <3>5
  <2> QED
    BY <2>3, <2>4
<1>4. ASSUME NEW e \in HookEvent, ClearQueue(e)
      PROVE  CopiesStored(x)' > 0 \/ Safe(x)'
  <2>1. /\ replay' = replay /\ UNCHANGED log /\ exposed' = exposed
        /\ hook[e].pc = "rewrite"
        /\ dropped' = dropped \cup {hook[e].lines[i] : i \in 1..(Len(hook[e].lines) - MaxQueueLines)}
    BY <1>4 DEF ClearQueue
  <2>2. hook'[e] = [pc |-> "write", lines |-> LastLines(hook[e].lines)]
    BY <1>4, <1>a DEF ClearQueue
  <2>3. \A h \in HookEvent \ {e} : hook'[h] = hook[h]
    BY <1>4, <1>a DEF ClearQueue
  <2>4. hook[e].lines \in Seq(HookEvent) /\ Len(hook[e].lines) > MaxQueueLines
    BY <1>a, <2>1 DEF HookTypeOK
  <2>5. Safe(x) => In(x, hook'[e].lines)
    BY <2>1, <2>2, <2>4, LastIn DEF Safe
  <2>6. Safe(x) => Safe(x)'
    BY <2>1, <2>2, <2>3, <2>5 DEF Safe, InReplay, InHand, InHooksHand
  <2>7. hook[x].pc \in {"limit", "rewrite", "write", "done"}
    BY <2>1, <2>3
  <2> QED
    BY <1>b, <1>c, <2>1, <2>6, <2>7
<1>5. ASSUME NEW e \in HookEvent, LimitQueue(e)
      PROVE  CopiesStored(x)' > 0 \/ Safe(x)'
  <2>1. /\ replay' = replay /\ UNCHANGED log /\ exposed' = exposed /\ dropped' = dropped
        /\ queue' = hook[e].lines /\ hook[e].pc = "write"
    BY <1>5 DEF LimitQueue
  <2>2. hook'[e].pc = "done" /\ \A h \in HookEvent \ {e} : hook'[h] = hook[h]
    BY <1>5, <1>a DEF LimitQueue
  <2>3. Safe(x) => Safe(x)'
    BY <2>1, <2>2 DEF Safe, InReplay
  <2>4. hook[x].pc \in {"limit", "rewrite", "write", "done"}
    BY <2>1, <2>2
  <2> QED
    BY <1>b, <1>c, <2>1, <2>3, <2>4
<1>6. ASSUME NEW e \in HookEvent, HookKilled(e)
      PROVE  CopiesStored(x)' > 0 \/ Safe(x)'
  <2>1. /\ queue' = queue /\ replay' = replay /\ UNCHANGED log
        /\ dropped' = dropped /\ exposed' = exposed /\ hook[e].pc # "write"
    BY <1>6 DEF HookKilled
  <2>2. \A h \in HookEvent : (hook'[h].pc # "killed" => hook'[h] = hook[h])
                             /\ (hook[h].pc = "write" => hook'[h] = hook[h])
    BY <1>6, <1>a DEF HookKilled, HookRecord
  <2>3. Safe(x) => Safe(x)'
    BY <2>1, <2>2 DEF Safe, InReplay, InHand, InHooksHand
  <2> QED
    BY <1>b, <1>c, <2>1, <2>2, <2>3
<1>7. ASSUME NEW e \in HookEvent, HookCut(e)
      PROVE  CopiesStored(x)' > 0 \/ Safe(x)'
  <2>1. /\ replay' = replay /\ UNCHANGED log /\ dropped' = dropped /\ hook[e].pc = "write"
        /\ exposed' = exposed \cup LinesOf(hook[e].lines)
        /\ hook' = [hook EXCEPT ![e] = [pc |-> "killed", lines |-> <<>>]]
    BY <1>7 DEF HookCut, HookKilledWriting
  <2>2. hook'[x] = hook[x]
    BY <1>a, <2>1
  <2>3. ~In(x, hook[e].lines)
    BY <2>1 DEF In, LinesOf
  <2>4. ~Safe(x)
    BY <2>1, <2>3 DEF Safe
  <2> QED
    BY <1>b, <1>c, <2>1, <2>2, <2>4
<1>8. CASE StartReplay
  <2>1. /\ queue' = queue /\ hook' = hook /\ UNCHANGED log
        /\ dropped' = dropped /\ exposed' = exposed \cup Missed
    BY <1>8 DEF StartReplay
  <2>2. replay'.todo = queue /\ replay'.pc = "post"
    BY <1>8 DEF StartReplay, NoReplay
  <2>3. Safe(x) => In(x, queue)
    BY <2>1 DEF Safe, Missed
  <2>4. Safe(x) => Safe(x)'
    BY <2>1, <2>2, <2>3 DEF Safe, InReplay
  <2> QED
    BY <1>b, <1>c, <2>1, <2>4
<1>9. ASSUME NEW o \in Outcome, ReplayPosts(o)
      PROVE  CopiesStored(x)' > 0 \/ Safe(x)'
  <2> DEFINE e == Head(replay.todo)
             rest == Tail(replay.todo)
  <2>1. /\ replay.todo # <<>> /\ queue' = queue /\ hook' = hook
        /\ dropped' = dropped /\ exposed' = exposed /\ replay.pc = "post"
    BY <1>9 DEF ReplayPosts
  <2>2. /\ e \in HookEvent /\ rest \in Seq(HookEvent)
        /\ (In(x, replay.todo) <=> In(x, rest) \/ x = e)
    BY <1>a, <2>1, TailIn
  <2>3. /\ o.served \in BOOLEAN /\ o.answered \in BOOLEAN /\ (o.answered => o.served)
        /\ CopiesStored(x)' = CopiesStored(x) + One(x = e /\ o.served)
    BY <1>9, <2>2, DeliverType DEF ReplayPosts
  <2>4. /\ replay'.todo = rest /\ replay'.pc = "post"
        /\ replay'.remaining = IF o.answered THEN replay.remaining ELSE Append(replay.remaining, e)
    BY <1>9, <1>a DEF ReplayPosts, ReplayRecord
  <2> HIDE DEF e, rest
  <2>5. In(x, replay'.remaining) <=> In(x, replay.remaining) \/ (x = e /\ ~o.answered)
    <3>1. In(x, Append(replay.remaining, e)) <=> In(x, replay.remaining) \/ x = e
      BY <1>a, <2>2, AppendIn
    <3> QED
      BY <2>3, <2>4, <3>1
  <2>6. CASE CopiesStored(x) > 0 \/ (x = e /\ o.answered)
    BY <1>a, <2>3, <2>6 DEF One
  <2>7. CASE Safe(x) /\ ~(x = e /\ o.answered)
    <3>1. InReplay(x)'
      BY <2>1, <2>2, <2>4, <2>5, <2>7 DEF Safe, InReplay
    <3>2. InHand(x) => InHand(x)'
      BY <2>1 DEF InHand, InHooksHand
    <3> QED
      BY <2>1, <2>4, <2>7, <3>1, <3>2 DEF Safe
  <2> QED
    BY <1>c, <2>1, <2>6, <2>7
<1>10. CASE ReplayDeletes
  <2>1. /\ hook' = hook /\ UNCHANGED log /\ replay.pc = "post"
        /\ dropped' = dropped /\ exposed' = exposed
        /\ replay.todo = <<>> /\ replay.remaining = <<>>
    BY <1>10 DEF ReplayDeletes
  <2>2. ~Safe(x)
    BY <2>1, EmptyList DEF Safe, InReplay
  <2> QED
    BY <1>b, <1>c, <2>1, <2>2
<1>11. CASE ReplayClears
  <2>1. /\ hook' = hook /\ UNCHANGED log /\ replay.pc = "post"
        /\ dropped' = dropped /\ exposed' = exposed /\ replay.todo = <<>>
        /\ replay'.pc = "write" /\ replay'.remaining = replay.remaining
    BY <1>11, <1>a DEF ReplayClears, ReplayRecord
  <2>2. Safe(x) => In(x, replay'.remaining)
    BY <2>1, EmptyList DEF Safe, InReplay
  <2>3. Safe(x) => Safe(x)'
    BY <2>1, <2>2 DEF Safe, InHand
  <2> QED
    BY <1>b, <1>c, <2>1, <2>3
<1>12. CASE ReplayWrites
  <2>1. /\ hook' = hook /\ UNCHANGED log /\ replay.pc = "write" /\ replay'.pc = "idle"
        /\ dropped' = dropped /\ exposed' = exposed /\ queue' = replay.remaining
    BY <1>12 DEF ReplayWrites, NoReplay
  <2>2. Safe(x) => Safe(x)'
    BY <2>1 DEF Safe
  <2> QED
    BY <1>b, <1>c, <2>1, <2>2
<1>13. CASE ReplayDies
  <2>1. /\ hook' = hook /\ UNCHANGED log /\ replay.pc = "post" /\ replay'.pc = "idle"
        /\ dropped' = dropped /\ exposed' = exposed /\ queue' = queue
    BY <1>13 DEF ReplayDies, NoReplay
  <2>2. Safe(x) => Safe(x)'
    BY <2>1 DEF Safe, InHand, InHooksHand
  <2> QED
    BY <1>b, <1>c, <2>1, <2>2
<1>14. CASE ReplayCut
  <2>1. /\ hook' = hook /\ UNCHANGED log /\ replay.pc = "write" /\ dropped' = dropped
        /\ exposed' = exposed \cup LinesOf(replay.remaining)
    BY <1>14 DEF ReplayCut, ReplayDiesWriting
  <2>2. ~Safe(x)
    BY <2>1 DEF Safe, In, LinesOf
  <2> QED
    BY <1>b, <1>c, <2>1, <2>2
<1>15. ASSUME NEW r \in LogRecord, Decided(r)
      PROVE  CopiesStored(x)' > 0 \/ Safe(x)'
  <2>1. /\ queue' = queue /\ hook' = hook /\ replay' = replay
        /\ dropped' = dropped /\ exposed' = exposed
        /\ log' = Append(log, r) /\ r.of # x
    BY <1>15 DEF Decided
  <2>2. CopiesStored(x)' = CopiesStored(x)
    BY <2>1, StoredCopies
  <2>3. Safe(x) => Safe(x)'
    BY <2>1, SafeStays
  <2> QED
    BY <1>c, <2>1, <2>2, <2>3
<1>16. CASE UNCHANGED hookVars
  <2>1. Safe(x) => Safe(x)'
    BY <1>16, SafeStays DEF hookVars
  <2> QED
    BY <1>16, <1>b, <1>c, <2>1 DEF hookVars
<1> QED
  BY <1>1, <1>2, <1>3, <1>4, <1>5, <1>6, <1>7, <1>8, <1>9, <1>10, <1>11, <1>12, <1>13, <1>14,
     <1>15, <1>16, StepCases

-----------------------------------------------------------------------------
\* The hook that made the file too long has not ended.
LEMMA ShortenedStep ==
  ASSUME HookTypeOK, ReplayShape, Shortened, [HookNext]_hookVars
  PROVE  Shortened'
<1> DEFINE Short(h) == hook[h].pc \in {"limit", "rewrite", "write", "killed"}
<1> SUFFICES ASSUME replays' = 0, Len(queue') > MaxQueueLines
             PROVE  \E h \in HookEvent : Short(h)'
  BY DEF Shortened
<1>a. /\ hook \in [HookEvent -> HookRecord] /\ replays \in Nat
      /\ MaxQueueLines \in Nat \ {0} /\ queue \in Seq(HookEvent)
      /\ replay.pc \in {"idle", "post", "write"}
  BY HookParameters DEF HookTypeOK, ReplayRecord
<1>b. replay.pc # "idle" => replays > 0
  BY <1>a DEF ReplayShape
<1>1. ASSUME NEW e \in HookEvent, NEW o \in Outcome, PostHookEvent(e, o)
      PROVE  \E h \in HookEvent : Short(h)'
  <2>1. queue' = queue /\ replays' = replays
    BY <1>1 DEF PostHookEvent
  <2>2. \A h \in HookEvent : Short(h) => Short(h)'
    BY <1>1, <1>a DEF PostHookEvent, HookRecord
  <2> QED
    BY <2>1, <2>2 DEF Shortened
<1>2. ASSUME NEW e \in HookEvent, SpoolEvent(e)
      PROVE  \E h \in HookEvent : Short(h)'
  BY <1>2, <1>a DEF SpoolEvent, HookRecord
<1>3. ASSUME NEW e \in HookEvent, ReadQueue(e)
      PROVE  \E h \in HookEvent : Short(h)'
  <2>1. queue' = queue
    BY <1>3 DEF ReadQueue
  <2>2. hook'[e].pc = "rewrite"
    BY <1>3, <1>a, <2>1 DEF ReadQueue, HookRecord, Fits
  <2> QED
    BY <2>2
<1>4. ASSUME NEW e \in HookEvent, ClearQueue(e)
      PROVE  \E h \in HookEvent : Short(h)'
  BY <1>4, <1>a DEF ClearQueue, HookRecord
<1>5. ASSUME NEW e \in HookEvent, LimitQueue(e)
      PROVE  \E h \in HookEvent : Short(h)'
  BY <1>5, <1>a DEF LimitQueue, HookTypeOK
<1>6. ASSUME NEW e \in HookEvent, HookKilled(e) \/ HookCut(e)
      PROVE  \E h \in HookEvent : Short(h)'
  <2>1. hook' = [hook EXCEPT ![e] = [pc |-> "killed", lines |-> <<>>]]
    BY <1>6 DEF HookKilled, HookCut, HookKilledWriting
  <2>2. Short(e)'
    BY <1>a, <2>1
  <2> QED
    BY <2>2
<1>7. CASE StartReplay
  BY <1>7, <1>a DEF StartReplay
<1>8. ASSUME NEW o \in Outcome, ReplayPosts(o)
      PROVE  \E h \in HookEvent : Short(h)'
  BY <1>8, <1>a, <1>b DEF ReplayPosts
<1>9. ASSUME ReplayDeletes \/ ReplayClears \/ ReplayDies \/ ReplayWrites \/ ReplayCut
      PROVE  \E h \in HookEvent : Short(h)'
  <2>1. replay.pc # "idle" /\ replays' = replays
    BY <1>9 DEF ReplayDeletes, ReplayClears, ReplayDies, ReplayWrites, ReplayCut, ReplayDiesWriting
  <2> QED
    BY <1>a, <1>b, <2>1
<1>10. ASSUME NEW r \in LogRecord, Decided(r)
      PROVE  \E h \in HookEvent : Short(h)'
  BY <1>10 DEF Decided, Shortened
<1>11. CASE UNCHANGED hookVars
  BY <1>11 DEF hookVars, Shortened
<1> QED
  BY <1>1, <1>2, <1>3, <1>4, <1>5, <1>6, <1>7, <1>8, <1>9, <1>10, <1>11, StepCases

-----------------------------------------------------------------------------
\* The inductive invariant.
HookInv == HookTypeOK /\ ReplayShape /\ Places /\ Counted /\ KeptSafe /\ Shortened

\* The invariant holds when nothing has happened.
LEMMA HookInvInit == HookInit => HookInv
<1> SUFFICES ASSUME HookInit
             PROVE  HookInv
  OBVIOUS
<1>1. HookTypeOK /\ ReplayShape
  BY HookStart
<1>2. /\ queue = <<>> /\ replay.todo = <<>> /\ replay.remaining = <<>> /\ replay.delivered = {}
      /\ \A h \in HookEvent : hook[h].pc = "new" /\ hook[h].lines = <<>> /\ doubt[h] = 0
  BY DEF HookInit, NoReplay
<1>3. Places
  BY <1>2, EmptyList DEF Places, Nowhere
<1>4. \A e \in HookEvent : CopiesStored(e) = 0
  <2> SUFFICES ASSUME NEW e \in HookEvent
               PROVE  CopiesStored(e) = 0
    OBVIOUS
  <2>1. {i \in DOMAIN log : log[i].of = e} = {}
    BY DEF HookInit
  <2> QED
    BY <2>1, FS_EmptySet DEF CopiesStored
<1>5. Counted
  BY <1>2, <1>4, EmptyList DEF Counted, CountedOf, Owed, InReplay, Held, InHooksHand, One
<1>6. KeptSafe
  BY <1>2 DEF KeptSafe
<1>7. Shortened
  BY HookParameters DEF HookInit, Shortened
<1> QED
  BY <1>1, <1>3, <1>5, <1>6, <1>7 DEF HookInv

\* Its parts carry each other through a step.
LEMMA HookInvStep == HookInv /\ [HookNext]_hookVars => HookInv'
BY HookTypesStep, PlacesStep, CountedStep, KeptStep, ShortenedStep DEF HookInv

\* So it always holds.
LEMMA HookInvariance == HookSpec => []HookInv
BY HookInvInit, HookInvStep, PTL DEF HookSpec

\* The spool, the hooks and the server's log have the shapes the scripts give them.
THEOREM HookTypes == HookSpec => []HookTypeOK
<1>1. HookInv => HookTypeOK
  BY DEF HookInv
<1> QED
  BY <1>1, HookInvariance, PTL

\* Whatever hooks, replays, failures and deaths mix, an event that could not be
\* delivered stays in the spool, or in the hands of who rewrites it, until it is stored,
\* unless the limit cut it off, somebody else's rewriting caught it, or a process ended
\* while it wrote the file.
THEOREM SpoolKeepsEvents == HookSpec => []EventKept
<1>1. HookInv => EventKept
  <2> SUFFICES ASSUME HookInv, NEW e \in HookEvent \ (dropped \cup exposed)
               PROVE  Kept(e)
    BY DEF EventKept
  <2> QED
    BY DEF HookInv, KeptSafe, Kept, Safe
<1> QED
  BY <1>1, HookInvariance, PTL

\* Hooks alone keep the spool within its limit, however many run at once.
THEOREM SpoolIsBounded == HookSpec => []QueueBounded
<1>1. HookInv => QueueBounded
  <2> SUFFICES ASSUME HookInv, replays = 0, \A e \in HookEvent : hook[e].pc = "done",
                      ~(Len(queue) <= MaxQueueLines)
               PROVE  FALSE
    BY DEF QueueBounded
  <2>1. Len(queue) > MaxQueueLines
    BY HookParameters DEF HookInv, HookTypeOK
  <2> QED
    BY <2>1 DEF HookInv, Shortened
<1> QED
  BY <1>1, HookInvariance, PTL

\* An event is stored more often than once only for an answer that was lost (or an
\* archiving that failed), a replay that died, or a hook that wrote it back into the file.
THEOREM EveryCopyHasCause == HookSpec => []CopiesHaveCause
<1>1. HookInv => CopiesHaveCause
  <2> SUFFICES ASSUME HookInv, NEW e \in HookEvent
               PROVE  CopiesStored(e) <= 1 + doubt[e]
    BY DEF CopiesHaveCause
  <2>1. CopiesStored(e) \in Nat /\ doubt[e] \in Nat
    BY StoredCopies DEF HookInv, HookTypeOK
  <2>2. Owed(e) + One(InReplay(e)) <= 1 + doubt[e]
    BY DEF HookInv, Counted, CountedOf
  <2> QED
    BY <2>1, <2>2 DEF Owed, One
<1> QED
  BY <1>1, HookInvariance, PTL

-----------------------------------------------------------------------------
(* What the server makes of the log. *)

\* f holds the summary after each of the events, the last being that of the whole log.
IsSummary(f, events) ==
  f = [n \in 0..Len(events) |->
         IF n = 0 THEN [a \in Approval |-> "none"] ELSE Summarized(f[n - 1], events[n])]

\* A set of numbers has a least one.
LEMMA LeastNumber ==
  ASSUME NEW T \in SUBSET Nat, T # {}
  PROVE  \E n \in T : \A m \in T : n <= m
<1>1. PICK n \in T : \A m \in T : <<m, n>> \notin OpToRel(<, Nat)
  BY NatLessThanWellFounded, WFMin
<1>2. ASSUME NEW m \in T
      PROVE  n <= m
  <2>1. m \in Nat /\ n \in Nat
    OBVIOUS
  <2>2. ~(m < n)
    BY <1>1, <2>1 DEF OpToRel
  <2> QED
    BY <2>1, <2>2
<1> QED
  BY <1>2

\* Two logs that agree up to an event have the same summary there.
LEMMA SamePrefix ==
  ASSUME NEW s \in Seq(LogRecord), NEW t \in Seq(LogRecord), NEW f, NEW g,
         IsSummary(f, s), IsSummary(g, t), NEW k \in Nat, k <= Len(s), k <= Len(t),
         \A i \in 1..k : s[i] = t[i]
  PROVE  f[k] = g[k]
<1>1. Len(s) \in Nat /\ Len(t) \in Nat
  OBVIOUS
<1> DEFINE T == {n \in 0..k : f[n] # g[n]}
<1>2. T \in SUBSET Nat
  OBVIOUS
<1>3. CASE T = {}
  BY <1>3
<1>4. CASE T # {}
  <2>1. PICK n \in T : \A m \in T : n <= m
    <3> HIDE DEF T
    <3> QED
      BY <1>2, <1>4, LeastNumber
  <2>2. n \in 0..k /\ n \in 0..Len(s) /\ n \in 0..Len(t)
    BY <1>1, <2>1
  <2>3. f[n] = IF n = 0 THEN [a \in Approval |-> "none"] ELSE Summarized(f[n - 1], s[n])
    BY ONLY <2>2, IsSummary(f, s) DEF IsSummary
  <2>4. g[n] = IF n = 0 THEN [a \in Approval |-> "none"] ELSE Summarized(g[n - 1], t[n])
    BY ONLY <2>2, IsSummary(g, t) DEF IsSummary
  <2>5. CASE n = 0
    BY <2>1, <2>3, <2>4, <2>5
  <2>6. CASE n # 0
    <3>1. n - 1 \in 0..k /\ n - 1 \notin T /\ n \in 1..k
      BY <2>1, <2>2, <2>6
    <3>2. f[n - 1] = g[n - 1] /\ s[n] = t[n]
      BY <3>1
    <3> QED
      BY <2>1, <2>3, <2>4, <2>6, <3>2
  <2> QED
    BY <2>5, <2>6
<1> QED
  BY <1>3, <1>4

\* Every log has its summaries: of two logs that differ in one more event the shorter
\* one's continue.
LEMMA SummaryContinues ==
  ASSUME NEW s \in Seq(LogRecord), NEW r \in LogRecord, NEW f, IsSummary(f, s)
  PROVE  \E g : IsSummary(g, Append(s, r))
<1> DEFINE k == Len(s)
           g == [n \in 0..(k + 1) |-> IF n <= k THEN f[n] ELSE Summarized(f[k], r)]
<1>1. /\ k \in Nat /\ Len(Append(s, r)) = k + 1 /\ Append(s, r)[k + 1] = r
      /\ \A i \in 1..k : Append(s, r)[i] = s[i]
  OBVIOUS
<1>2. ASSUME NEW n \in 0..(k + 1)
      PROVE  g[n] = IF n = 0 THEN [a \in Approval |-> "none"]
                    ELSE Summarized(g[n - 1], Append(s, r)[n])
  <2>1. CASE n = 0
    BY <1>1, <2>1 DEF IsSummary
  <2>2. CASE n \in 1..k
    <3>1. g[n] = f[n] /\ g[n - 1] = f[n - 1] /\ n \in 0..Len(s) /\ n # 0
      BY <1>1, <2>2
    <3>2. f[n] = Summarized(f[n - 1], s[n])
      BY ONLY <3>1, IsSummary(f, s) DEF IsSummary
    <3> QED
      BY <1>1, <2>2, <3>1, <3>2
  <2>3. CASE n = k + 1
    BY <1>1, <2>3
  <2> QED
    BY <1>1, <2>1, <2>2, <2>3
<1>3. IsSummary(g, Append(s, r))
  <2> g = [n \in 0..(k + 1) |-> g[n]]
    OBVIOUS
  <2> HIDE DEF g
  <2> QED
    BY <1>1, <1>2 DEF IsSummary
<1> QED
  BY <1>3

\* So every log has its summaries: there is no shortest one without.
LEMMA SummaryExists ==
  \A s \in Seq(LogRecord) : \E f : IsSummary(f, s)
<1> DEFINE T == {n \in Nat : \E s \in Seq(LogRecord) : Len(s) = n /\ ~\E f : IsSummary(f, s)}
<1>1. CASE T = {}
  <2> TAKE s \in Seq(LogRecord)
  <2>1. Len(s) \in Nat /\ Len(s) \notin T
    BY <1>1
  <2> QED
    BY <2>1
<1>2. CASE T # {}
  <2>1. PICK n \in T : \A m \in T : n <= m
    <3> T \in SUBSET Nat
      OBVIOUS
    <3> HIDE DEF T
    <3> QED
      BY <1>2, LeastNumber
  <2>2. PICK s \in Seq(LogRecord) : Len(s) = n /\ ~\E f : IsSummary(f, s)
    BY <2>1
  <2>3. n \in Nat
    BY <2>1
  <2>4. CASE n = 0
    <3> DEFINE f == [k \in 0..0 |-> [a \in Approval |-> "none"]]
    <3>1. IsSummary(f, s)
      BY <2>2, <2>4 DEF IsSummary
    <3> QED
      BY <2>2, <3>1
  <2>5. CASE n # 0
    <3> DEFINE t == SubSeq(s, 1, n - 1)
    <3>1. t \in Seq(LogRecord) /\ Len(t) = n - 1 /\ s[n] \in LogRecord /\ s = Append(t, s[n])
      BY <2>2, <2>3, <2>5
    <3>2. n - 1 \in Nat /\ n - 1 \notin T
      BY <2>1, <2>3, <2>5
    <3>3. PICK f : IsSummary(f, t)
      BY <3>1, <3>2
    <3>4. \E g : IsSummary(g, Append(t, s[n]))
      <4> HIDE DEF t
      <4> QED
        BY <3>1, <3>3, SummaryContinues
    <3> QED
      BY <2>2, <3>1, <3>4
  <2> QED
    BY <2>4, <2>5
<1> QED
  BY <1>1, <1>2

\* What summarizeApprovals returns is the last of the log's summaries.
LEMMA SummaryIsLast ==
  ASSUME NEW s \in Seq(LogRecord)
  PROVE  \E f : IsSummary(f, s) /\ SummaryOf(s) = f[Len(s)]
<1> DEFINE c == CHOOSE f : IsSummary(f, s)
<1>1. IsSummary(c, s)
  BY SummaryExists
<1>2. SummaryOf(s) = c[Len(s)]
  BY DEF SummaryOf, IsSummary
<1> QED
  BY <1>1, <1>2

\* One more event is one more round, over the summary of the events before it.
LEMMA SummaryOfAppend ==
  ASSUME NEW s \in Seq(LogRecord), NEW r \in LogRecord
  PROVE  SummaryOf(Append(s, r)) = Summarized(SummaryOf(s), r)
<1>1. /\ Len(s) \in Nat /\ Append(s, r) \in Seq(LogRecord)
      /\ Len(Append(s, r)) = Len(s) + 1 /\ Append(s, r)[Len(s) + 1] = r
      /\ \A i \in 1..Len(s) : s[i] = Append(s, r)[i]
  OBVIOUS
<1>2. PICK f : IsSummary(f, s) /\ SummaryOf(s) = f[Len(s)]
  BY SummaryIsLast
<1>3. PICK g : IsSummary(g, Append(s, r)) /\ SummaryOf(Append(s, r)) = g[Len(s) + 1]
  BY <1>1, SummaryIsLast
<1>4. f[Len(s)] = g[Len(s)]
  <2> DEFINE t == Append(s, r)
             k == Len(s)
  <2>1. t \in Seq(LogRecord) /\ k \in Nat /\ k <= Len(s) /\ k <= Len(t)
    BY <1>1
  <2>2. \A i \in 1..k : s[i] = t[i]
    BY <1>1
  <2>3. IsSummary(f, s) /\ IsSummary(g, t)
    BY <1>2, <1>3
  <2> HIDE DEF t, k
  <2>4. f[k] = g[k]
    BY <2>1, <2>2, <2>3, SamePrefix
  <2> QED
    BY <2>4 DEF k
<1>5. g[Len(s) + 1] = Summarized(g[Len(s)], r)
  <2>1. /\ Len(s) + 1 \in 0..Len(Append(s, r)) /\ Len(s) + 1 # 0 /\ (Len(s) + 1) - 1 = Len(s)
        /\ Append(s, r)[Len(s) + 1] = r
    BY <1>1
  <2>2. IsSummary(g, Append(s, r))
    BY <1>3
  <2> QED
    BY ONLY <2>1, <2>2 DEF IsSummary
<1> QED
  BY <1>2, <1>3, <1>4, <1>5

\* Nothing is known of an approval, or it is pending or ended.
LEMMA SummaryType ==
  \A s \in Seq(LogRecord) : SummaryOf(s) \in [Approval -> {"none", "pending"} \cup Ended]
<1> DEFINE S == [Approval -> {"none", "pending"} \cup Ended]
           T == {n \in Nat : \E s \in Seq(LogRecord) : Len(s) = n /\ SummaryOf(s) \notin S}
<1>1. CASE T = {}
  <2> TAKE s \in Seq(LogRecord)
  <2>1. Len(s) \in Nat /\ Len(s) \notin T
    BY <1>1
  <2> QED
    BY <2>1
<1>2. CASE T # {}
  <2>1. PICK n \in T : \A m \in T : n <= m
    <3> T \in SUBSET Nat
      OBVIOUS
    <3> HIDE DEF T
    <3> QED
      BY <1>2, LeastNumber
  <2>2. PICK s \in Seq(LogRecord) : Len(s) = n /\ SummaryOf(s) \notin S
    BY <2>1
  <2>3. n \in Nat
    BY <2>1
  <2>4. CASE n = 0
    <3>1. PICK f : IsSummary(f, s) /\ SummaryOf(s) = f[Len(s)]
      BY <2>2, SummaryIsLast
    <3>2. f[0] = [a \in Approval |-> "none"]
      BY <2>2, <2>4, <3>1 DEF IsSummary
    <3> QED
      BY <2>2, <2>4, <3>1, <3>2
  <2>5. CASE n # 0
    <3> DEFINE t == SubSeq(s, 1, n - 1)
    <3>1. t \in Seq(LogRecord) /\ Len(t) = n - 1 /\ s[n] \in LogRecord /\ s = Append(t, s[n])
      BY <2>2, <2>3, <2>5
    <3>2. n - 1 \in Nat /\ n - 1 \notin T
      BY <2>1, <2>3, <2>5
    <3>3. SummaryOf(t) \in S
      BY <3>1, <3>2
    <3>4. SummaryOf(s) = Summarized(SummaryOf(t), s[n])
      <4> HIDE DEF t
      <4> QED
        BY <3>1, SummaryOfAppend
    <3>5. Summarized(SummaryOf(t), s[n]) \in S
      BY <3>1, <3>3 DEF Summarized, LogRecord, Ended
    <3> QED
      BY <2>2, <3>4, <3>5
  <2> QED
    BY <2>4, <2>5
<1> QED
  BY <1>1, <1>2

-----------------------------------------------------------------------------
\* The log only grows, by an event at a time.
LEMMA LogGrows ==
  ASSUME HookInv, [HookNext]_hookVars
  PROVE  \/ UNCHANGED log
         \/ \E r \in LogRecord :
              log' = Append(log, r) /\ (r.type = "requested" \/ r.of \notin HookEvent)
<1>1. log \in Seq(LogRecord) /\ Len(log) \in Nat
  BY DEF HookInv, HookTypeOK
<1>2. ASSUME NEW e \in HookEvent, NEW o \in Outcome, Deliver(e, o)
      PROVE  log' = log \/ \E r \in LogRecord : log' = Append(log, r) /\ r.type = "requested"
  <2> DEFINE r == [of |-> e, approval |-> ApprovalOf(e), type |-> "requested"]
  <2>1. CASE o.served
    <3>1. Len(log) < MaxLog /\ MaxLog \in Nat /\ log' = Append(log, r)
      BY <1>2, <2>1, HookParameters DEF Deliver, Received
    <3>2. r \in LogRecord /\ r.type = "requested"
      BY <1>1, <3>1 DEF ApprovalOf, Approval, LogRecord
    <3> QED
      BY <3>1, <3>2
  <2>2. CASE ~o.served
    BY <1>2, <2>2 DEF Deliver
  <2> QED
    BY <2>1, <2>2
<1>3. ASSUME NEW o \in Outcome, ReplayPosts(o)
      PROVE  \E e \in HookEvent : Deliver(e, o)
  <2>1. replay.todo \in Seq(HookEvent) /\ replay.todo # <<>>
    BY <1>3 DEF ReplayPosts, HookInv, HookTypeOK, ReplayRecord
  <2>2. Head(replay.todo) \in HookEvent
    BY <2>1, TailIn
  <2> QED
    BY <1>3, <2>2 DEF ReplayPosts
<1>4. ASSUME NEW e \in HookEvent, NEW o \in Outcome, PostHookEvent(e, o)
      PROVE  Deliver(e, o)
  BY <1>4 DEF PostHookEvent
<1>5. ASSUME NEW e \in HookEvent,
             SpoolEvent(e) \/ ReadQueue(e) \/ ClearQueue(e) \/ LimitQueue(e) \/ HookKilled(e) \/ HookCut(e)
      PROVE  log' = log
  BY <1>5 DEF SpoolEvent, ReadQueue, ClearQueue, LimitQueue, HookKilled, HookCut, HookKilledWriting
<1>6. \/ StartReplay \/ ReplayDeletes \/ ReplayClears \/ ReplayDies \/ ReplayWrites \/ ReplayCut
      \/ UNCHANGED hookVars
      => log' = log
  BY DEF StartReplay, ReplayDeletes, ReplayClears, ReplayDies, ReplayWrites, ReplayCut,
         ReplayDiesWriting, hookVars
<1>7. ASSUME NEW r \in LogRecord, Decided(r)
      PROVE  log' = Append(log, r) /\ r.of \notin HookEvent
  BY <1>7 DEF Decided
<1> QED
  BY <1>2, <1>3, <1>4, <1>5, <1>6, <1>7, StepCases

\* What a decision or an expiry made of an approval, only another decision or expiry
\* changes: no copy of a request that a hook or a replay delivers later does, for any
\* number of events, copies and replays.
THEOREM DecisionsStand == HookSpec => DecisionStands
<1> DEFINE Overridden(a) ==
             SummarizeApprovals'[a] \in Ended /\ log'[Len(log')].of \notin HookEvent
<1>1. ASSUME HookInv, [HookNext]_hookVars, NEW a \in Approval,
             SummarizeApprovals[a] \in Ended, SummarizeApprovals'[a] # SummarizeApprovals[a]
      PROVE  Overridden(a)
  <2>1. log \in Seq(LogRecord)
    BY <1>1 DEF HookInv, HookTypeOK
  <2>2. ~UNCHANGED log
    BY <1>1 DEF SummarizeApprovals
  <2>3. PICK r \in LogRecord :
          log' = Append(log, r) /\ (r.type = "requested" \/ r.of \notin HookEvent)
    BY <1>1, <2>2, LogGrows
  <2>4. SummarizeApprovals' = Summarized(SummarizeApprovals, r)
    BY <2>1, <2>3, SummaryOfAppend DEF SummarizeApprovals
  <2>5. SummarizeApprovals \in [Approval -> {"none", "pending"} \cup Ended]
    BY <2>1, SummaryType DEF SummarizeApprovals
  <2>6. r.type \in {"requested"} \cup Ended /\ r.approval \in Approval
    BY <2>3 DEF LogRecord
  <2>7. r.approval = a /\ r.type # "requested"
    <3>1. CASE r.approval # a
      BY <1>1, <2>4, <2>5, <2>6, <3>1 DEF Summarized
    <3>2. CASE r.approval = a /\ r.type = "requested"
      <4>1. SummarizeApprovals[a] # "none"
        BY <1>1 DEF Ended
      <4> QED
        BY <1>1, <2>4, <2>5, <2>6, <3>2, <4>1 DEF Summarized
    <3> QED
      BY <3>1, <3>2
  <2>8. SummarizeApprovals'[a] = r.type
    BY <2>4, <2>5, <2>6, <2>7 DEF Summarized
  <2>9. log'[Len(log')] = r
    BY <2>1, <2>3
  <2> QED
    BY <2>3, <2>6, <2>7, <2>8, <2>9
<1>2. HookInv /\ [HookNext]_hookVars =>
        [log' # log =>
           \A a \in Approval :
             SummarizeApprovals[a] \in Ended /\ SummarizeApprovals'[a] # SummarizeApprovals[a] =>
               SummarizeApprovals'[a] \in Ended /\ log'[Len(log')].of \notin HookEvent]_hookVars
  BY <1>1
<1> QED
  BY <1>2, HookInvariance, PTL DEF DecisionStands, HookSpec
=============================================================================
