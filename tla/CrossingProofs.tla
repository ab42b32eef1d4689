--------------------------- MODULE CrossingProofs ---------------------------
(***************************************************************************)
(* What the overlap of runs and handlers cannot do, for any number of      *)
(* them: the retry budget goes with the failures it counts, no step is run *)
(* into failure more often than the budget says, the job history shows as  *)
(* running only what runs, and the table of legal moves is kept.           *)
(*                                                                         *)
(* The worker writes only rows whose statuses no handler loads, so what a  *)
(* handler commits onto a row a run is on, it commits over a status it had *)
(* not loaded: the episode is crossed from there on.  While it is not, the *)
(* run is alone with its row and finds there what it left.  Where writers  *)
(* did cross, a failure may be counted on the wrong budget, but only after *)
(* somebody's request has made a fresh start of the count.                 *)
(***************************************************************************)
EXTENDS ActiveProofs, WellFoundedInduction

USE DEF DISCOVERED, SKIPPED, QUEUED, DOWNLOADING, TRANSCRIBING, DETECTING, CUTTING, PROCESSED,
        FAILED, REVIEW, EXPIRED, ACTIVE, ALL_STATUSES, ABSENT, None

Busy == {"begin", "start", "work", "close", "done", "final"}

SameBudget(r, s) == r.retry_count = s.retry_count /\ r.last_failed_step = s.last_failed_step

\* The statuses a handler accepts, and the one it gives.
From(op) ==
    CASE op = "queue"     -> PROCESS_FROM
      [] op = "dismiss"   -> {FAILED, REVIEW}
      [] op = "reprocess" -> ALL_STATUSES \ (ACTIVE \union {QUEUED})
      [] op = "requeue"   -> {FAILED}
      [] op = "expire"    -> {PROCESSED}

Given(op) == IF op = "dismiss" THEN SKIPPED ELSE IF op = "expire" THEN EXPIRED ELSE QUEUED

\* The status the row of a run has.
RunStatus(c) == IF WrittenStatus(c) = None THEN QUEUED ELSE WrittenStatus(c)

Consistent(row) ==
    /\ (row.retry_count = 0) = (row.last_failed_step = None)
    /\ row.status \in {PROCESSED, EXPIRED} => row.retry_count = 0
    /\ row.status = FAILED => row.retry_count # 0

\* Where writers crossed, a failure may go uncounted, once.
Slack(e) == IF e \in crossed THEN 1 ELSE 0

IdleUnlessUp ==
    mode # "up" => /\ \A c \in Consumer : consumer[c].pc = "idle"
                   /\ \A t \in Task : task[t].pc = "idle"

\* What a handler has loaded.  Only the scheduled poll requeues, so whatever
\* moves an episode it has loaded was asked for by somebody.
Sees(t, e) ==
    LET old == task[t].seen[e] IN
    /\ old.status \in From(task[t].op)
    /\ e \notin crossed => Consistent(old)
    /\ task[t].op = "requeue" =>
           /\ t = POLL_JOB_ID
           /\ \E n \in RetrySettings : old.retry_count < n
           /\ IF rows[e].status = FAILED THEN streak[e] <= old.retry_count + Slack(e)
                                         ELSE streak[e] = 0

HandlersSee == \A t \in Task : task[t].pc = "loaded" => \A e \in task[t].ids : Sees(t, e)

\* What a run knows of its row, whoever wrote to it.
Knows(c) ==
    LET me  == consumer[c]
        row == rows[me.ep]
    IN
    /\ row.status # FAILED
    /\ me.pc = "close" => /\ me.seen.status # FAILED
                          /\ me.outcome \in StopStatus => CanTransition(me.seen.status, me.outcome)
                          /\ OwnJob(c) \in jobs =>
                                 \/ SameBudget(me.seen, row)
                                 \/ me.ep \in crossed /\ streak[me.ep] = 0
    /\ me.pc = "final" => CanTransition(me.seen.status, PROCESSED)

\* A run nobody crossed is alone with its row: no handler loads a row that is
\* queued or active.  Only its feed may be deleted.
Alone(c) ==
    LET me  == consumer[c]
        row == rows[me.ep]
    IN
    /\ row.status \in {ABSENT, RunStatus(c)}
    /\ me.pc \in {"start", "close", "final"} => me.seen.status = RunStatus(c)
    /\ me.pc \in {"work", "close"} /\ row.status # ABSENT => OwnJob(c) \in jobs
    /\ me.pc = "final" /\ row.status # ABSENT => SameBudget(me.seen, row)

RunInv(c) == consumer[c].pc \in Busy => Knows(c) /\ (consumer[c].ep \notin crossed => Alone(c))

\* Failures in a row are counted, and an episode that is not failed may fail
\* once more.
Counted(e) ==
    /\ e \notin crossed => Consistent(rows[e])
    /\ streak[e] <= rows[e].retry_count + Slack(e)
    /\ rows[e].status # FAILED => streak[e] = 0 \/ \E n \in RetrySettings : streak[e] < n + Slack(e)
    /\ \E n \in RetrySettings \union {1} : streak[e] <= n + Slack(e)

\* A running job is that of an episode that exists.
JobsKept ==
    /\ \A j \in jobs : rows[j.ep].status # ABSENT
    /\ RunningJobsAreOwned
    /\ mode \in {"closed", "requeued"} => jobs = {}

CrossInv ==
    /\ IdleUnlessUp
    /\ HandlersSee
    /\ \A c \in Consumer : RunInv(c)
    /\ \A e \in Episode : Counted(e)
    /\ JobsKept

-----------------------------------------------------------------------------
\* NEW IDS

\* A set of ids has a largest one.
LEMMA Largest ==
    ASSUME NEW S \in SUBSET (0..MaxId), S # {}
    PROVE  Max(S) \in S /\ \A x \in S : Max(S) >= x
<1> DEFINE less == {p \in Nat \X Nat : p[1] < p[2]}
           T    == {MaxId - x : x \in S}
<1>1. MaxId \in Nat /\ T \in SUBSET Nat /\ T # {}
  <2>1. MaxId \in Nat
    BY DatabaseAssumption
  <2>2. \A x \in S : MaxId - x \in Nat
    BY <2>1
  <2>3. PICK x \in S : TRUE
    OBVIOUS
  <2>4. MaxId - x \in T
    OBVIOUS
  <2>5. T \subseteq Nat
    BY <2>2
  <2> HIDE DEF T
  <2> QED BY <2>1, <2>4, <2>5
<1>2. OpToRel(<, Nat) = less
  BY DEF OpToRel
<1>3. IsWellFoundedOn(less, Nat)
  BY <1>2, NatLessThanWellFounded
<1>4. \A x, y \in Nat : y < x => <<y, x>> \in less
  OBVIOUS
<1> HIDE DEF less, T
<1>5. PICK y \in T : \A z \in T : ~(<<z, y>> \in less)
  BY <1>1, <1>3, WFMin
<1>6. PICK x \in S : y = MaxId - x
  BY <1>5 DEF T
<1>7. \A z \in S : x >= z
  <2> SUFFICES ASSUME NEW z \in S PROVE x >= z
    OBVIOUS
  <2>1. MaxId - z \in T
    BY DEF T
  <2>2. ~(MaxId - z < y)
    BY <1>1, <1>4, <1>5, <2>1
  <2> QED BY <1>1, <1>6, <2>2
<1> QED BY <1>7 DEF Max

\* The ids new rows get are free.
LEMMA FreeIds ==
    ASSUME NEW e \in Episode, NextId <= e
    PROVE  rows[e].status = ABSENT
<1> DEFINE S == {0} \union {x \in Episode : Exists(x)}
<1>1. S \in SUBSET (0..MaxId) /\ S # {}
  BY DatabaseAssumption DEF Episode
<1>2. Max(S) \in S /\ \A x \in S : Max(S) >= x
  BY <1>1, Largest
<1>3. NextId = Max(S) + 1
  BY DEF NextId
<1> HIDE DEF S
<1>4. Max(S) \in Int
  <2>1. S \subseteq 0..MaxId
    BY <1>1
  <2>2. Max(S) \in 0..MaxId
    BY <1>2, <2>1
  <2> QED BY <2>2
<1>5. e \in Int
  BY DEF Episode
<1>6. Max(S) < e
  BY <1>3, <1>4, <1>5
<1>7. e \notin S
  BY <1>2, <1>4, <1>5, <1>6
<1> QED BY <1>7 DEF S, Exists

-----------------------------------------------------------------------------
\* WRITING BACK

LEMMA UpdateFields ==
    ASSUME NEW row \in Row, NEW old \in Row, NEW new \in Row
    PROVE  LET r == Update(row, old, new) IN
           /\ r \in Row
           /\ r.feed = IF new.feed # old.feed THEN new.feed ELSE row.feed
           /\ r.status = IF new.status # old.status THEN new.status ELSE row.status
           /\ r.retry_count = IF new.retry_count # old.retry_count THEN new.retry_count ELSE row.retry_count
           /\ r.last_failed_step = IF new.last_failed_step # old.last_failed_step
                                   THEN new.last_failed_step ELSE row.last_failed_step
BY DEF Update, Row

LEMMA RowFields ==
    /\ NoRow.status = ABSENT /\ NoRow.retry_count = 0 /\ NoRow.last_failed_step = None
    /\ \A f, s : /\ NewRow(f, s).feed = f /\ NewRow(f, s).status = s
                 /\ NewRow(f, s).retry_count = 0 /\ NewRow(f, s).last_failed_step = None
    /\ \A row \in Row : \A s : /\ [row EXCEPT !.status = s].status = s
                                 /\ [row EXCEPT !.status = s].feed = row.feed
                                 /\ SameBudget([row EXCEPT !.status = s], row)
BY DEF NoRow, NewRow, Row, SameBudget

\* Only a run in its last status is published.
LEMMA OnlyCuttingEnds == \A s : CanTransition(s, PROCESSED) => s # PROCESSED
BY DEF CanTransition, Transitions

LEMMA AssignedFields ==
    ASSUME NEW op \in Op \ {"upsert"}, NEW row \in Row
    PROVE  /\ Assigned(op, row) \in Row
           /\ Assigned(op, row).status = Given(op)
           /\ op # "reprocess" => SameBudget(Assigned(op, row), row)
           /\ op = "reprocess" => Assigned(op, row) = NewRow(row.feed, QUEUED)
<1>1. Assigned(op, row) \in Row
  BY AssignedType
<1>2. op \in {"queue", "requeue", "dismiss", "expire", "reprocess"}
  BY DEF Op
<1> QED BY <1>1, <1>2, RowFields DEF Assigned, Given

LEMMA SameRow ==
    ASSUME NEW r \in Row, NEW s \in Row, r.feed = s.feed, r.status = s.status, SameBudget(r, s)
    PROVE  r = s
BY DEF Row, SameBudget

LEMMA StatusOnly ==
    ASSUME NEW row \in Row, NEW old \in Row, NEW s \in ALL_STATUSES
    PROVE  LET r == Update(row, old, [old EXCEPT !.status = s]) IN
           r = row \/ (r.status = s /\ SameBudget(r, row))
<1> DEFINE new == [old EXCEPT !.status = s]
           r   == Update(row, old, new)
<1>1. new \in Row /\ new.status = s /\ new.feed = old.feed /\ SameBudget(new, old)
  BY RowFields DEF Row
<1> HIDE DEF new
<1>2. /\ r \in Row /\ r.feed = row.feed /\ SameBudget(r, row)
      /\ r.status = IF s # old.status THEN s ELSE row.status
  BY <1>1, UpdateFields DEF SameBudget
<1> HIDE DEF r
<1>3. s = old.status => r = row
  BY <1>2, SameRow DEF SameBudget
<1>4. r = row \/ (r.status = s /\ SameBudget(r, row))
  BY <1>2, <1>3
<1> QED BY <1>4 DEF r, new

LEMMA FailedStatus ==
    ASSUME NEW row \in Row, NEW step
    PROVE  Failed(row, step).status = FAILED
BY DEF Failed, Row

\* A run counts its failure on the budget that is in the row.
LEMMA FailedFields ==
    ASSUME NEW row \in Row, NEW old \in Row, NEW step \in Step,
           SameBudget(old, row), old.status # FAILED
    PROVE  LET r == Update(row, old, Failed(old, step)) IN
           /\ r.status = FAILED /\ r.last_failed_step = step
           /\ r.retry_count = IF row.last_failed_step = step THEN row.retry_count + 1 ELSE 1
<1> DEFINE new == Failed(old, step)
<1>1. new \in Row
  BY FailedType
<1>2. \A n : LET x == [old EXCEPT !.status = FAILED, !.retry_count = n, !.last_failed_step = step] IN
             x.status = FAILED /\ x.retry_count = n /\ x.last_failed_step = step
  BY DEF Row
<1>3. /\ new.status = FAILED /\ new.last_failed_step = step
      /\ new.retry_count = IF old.last_failed_step = step THEN old.retry_count + 1 ELSE 1
  BY <1>2 DEF Failed
<1> HIDE DEF new
<1>4. LET r == Update(row, old, new) IN
      /\ r.status = FAILED /\ r.last_failed_step = step
      /\ r.retry_count = IF row.last_failed_step = step THEN row.retry_count + 1 ELSE 1
  BY <1>1, <1>3, UpdateFields DEF SameBudget
<1> QED BY <1>4 DEF new

\* What is known of a consumer and of the row it is on.
LEMMA RunTypes ==
    ASSUME TypeOK, NEW c \in Consumer, consumer[c].pc # "idle"
    PROVE  /\ consumer[c] \in ConsumerState /\ consumer \in [Consumer -> ConsumerState]
           /\ consumer[c].ep \in Episode /\ consumer[c].seen \in Row
           /\ rows \in [Episode -> Row] /\ rows[consumer[c].ep] \in Row
           /\ Stage(c).step \in Step /\ Stage(c).status \in ACTIVE
           /\ Stage(c).status \in ALL_STATUSES
<1>1. consumer[c] \in ConsumerState /\ consumer[c].i \in DOMAIN PipelineFor(consumer[c].plan)
  BY DEF TypeOK, WorkerTypeOK
<1>2. Stage(c).step \in Step /\ Stage(c).status \in ACTIVE
  BY <1>1, StageType DEF Stage, ConsumerState
<1> QED BY <1>1, <1>2 DEF TypeOK, WorkerTypeOK, DatabaseTypeOK, ConsumerState

LEMMA GoesTo ==
    ASSUME TypeOK, NEW c \in Consumer, NEW pc, Goto(c, pc)
    PROVE  consumer'[c].pc = pc /\ consumer'[c].ep = consumer[c].ep
BY DEF Goto, Become, TypeOK, WorkerTypeOK, ConsumerState

-----------------------------------------------------------------------------
\* THE TABLE OF LEGAL MOVES

LEMMA TableMoves ==
    /\ \A op \in Op \ {"upsert"} : \A s \in From(op) : CanTransition(s, Given(op))
    /\ \A s \in ACTIVE : CanTransition(s, FAILED) /\ CanTransition(s, QUEUED)
    /\ \A p \in Plan : CanTransition(QUEUED, PipelineFor(p)[1].status)
<1>1. /\ \A s \in PROCESS_FROM : CanTransition(s, QUEUED)
      /\ \A s \in {FAILED, REVIEW} : CanTransition(s, SKIPPED)
      /\ \A s \in ALL_STATUSES \ (ACTIVE \union {QUEUED}) : CanTransition(s, QUEUED)
      /\ CanTransition(FAILED, QUEUED) /\ CanTransition(PROCESSED, EXPIRED)
      /\ CanTransition(QUEUED, DOWNLOADING)
      /\ \A s \in ACTIVE : CanTransition(s, FAILED) /\ CanTransition(s, QUEUED)
  BY DEF CanTransition, Transitions, PROCESS_FROM
<1>2. \A p \in Plan : PipelineFor(p)[1].status = DOWNLOADING
  BY DEF PipelineFor, FULL_PIPELINE, WHITELISTED_PIPELINE
<1>3. ASSUME NEW op \in Op \ {"upsert"}, NEW s \in From(op)
      PROVE  CanTransition(s, Given(op))
  <2>1. op \in {"queue", "dismiss", "reprocess", "requeue", "expire"}
    BY DEF Op
  <2> QED BY <1>1, <1>3, <2>1 DEF From, Given
<1> QED BY <1>1, <1>2, <1>3

LEMMA RunStatuses ==
    ASSUME TypeOK, NEW c \in Consumer, consumer[c].pc # "idle"
    PROVE  /\ RunStatus(c) \in {QUEUED} \union ACTIVE
           /\ consumer[c].pc \in {"work", "close", "done", "final"} => RunStatus(c) = Stage(c).status
<1>1. consumer[c] \in ConsumerState /\ consumer[c].i \in DOMAIN PipelineFor(consumer[c].plan)
  BY DEF TypeOK, WorkerTypeOK
<1>2. Stage(c).status \in ACTIVE
  BY RunTypes
<1>3. ASSUME consumer[c].i > 1
      PROVE  PipelineFor(consumer[c].plan)[consumer[c].i - 1].status \in ACTIVE
  <2>1. consumer[c].plan \in Plan /\ consumer[c].i - 1 \in DOMAIN PipelineFor(consumer[c].plan)
    BY <1>1, <1>3, StageOrder DEF ConsumerState
  <2> QED BY <2>1, StageType
<1> QED BY <1>2, <1>3 DEF RunStatus, WrittenStatus

\* Nothing follows a row that is not there.
LEMMA NothingFromAbsent == \A s : ~CanTransition(ABSENT, s)
BY DEF CanTransition, Transitions

-----------------------------------------------------------------------------
\* COUNTING

LEMMA SlackGrows ==
    ASSUME NEW e \in Episode, crossed \subseteq crossed'
    PROVE  /\ Slack(e) \in {0, 1} /\ Slack(e)' \in {0, 1} /\ Slack(e) <= Slack(e)'
           /\ e \notin crossed => Slack(e) = 0
           /\ e \in crossed => Slack(e) = 1
BY DEF Slack

\* Where nothing is written, the count stays in order.
LEMMA CountedKept ==
    ASSUME TypeOK, NEW e \in Episode, Counted(e), crossed \subseteq crossed',
           rows'[e] = rows[e], streak'[e] \in {streak[e], 0}
    PROVE  Counted(e)'
<1>1. rows[e] \in Row /\ rows[e].retry_count \in Nat /\ streak[e] \in Nat
      /\ RetrySettings \subseteq Nat
  BY DatabaseAssumption DEF TypeOK, DatabaseTypeOK, Row
<1>2. /\ Slack(e) \in {0, 1} /\ Slack(e)' \in {0, 1} /\ Slack(e) <= Slack(e)'
  BY SlackGrows
<1>3. streak'[e] \in Nat /\ streak'[e] <= streak[e]
  BY <1>1
<1>4. e \notin crossed' => Consistent(rows'[e])
  BY DEF Counted
<1>5. streak'[e] <= rows'[e].retry_count + Slack(e)'
  <2>1. streak[e] <= rows[e].retry_count + Slack(e)
    BY DEF Counted
  <2> QED BY <1>1, <1>2, <1>3, <2>1
<1>6. rows'[e].status # FAILED => streak'[e] = 0 \/ \E n \in RetrySettings : streak'[e] < n + Slack(e)'
  <2>1. SUFFICES ASSUME rows[e].status # FAILED, streak'[e] # 0
                 PROVE  \E n \in RetrySettings : streak'[e] < n + Slack(e)'
    OBVIOUS
  <2>2. PICK n \in RetrySettings : streak[e] < n + Slack(e)
    BY <1>1, <2>1 DEF Counted
  <2>3. streak'[e] < n + Slack(e)'
    BY <1>1, <1>2, <1>3, <2>2
  <2> QED BY <2>3
<1>7. \E n \in RetrySettings \union {1} : streak'[e] <= n + Slack(e)'
  <2>1. PICK n \in RetrySettings \union {1} : streak[e] <= n + Slack(e)
    BY DEF Counted
  <2>2. streak'[e] <= n + Slack(e)'
    BY <1>1, <1>2, <1>3, <2>1
  <2> QED BY <2>2
<1> QED BY <1>4, <1>5, <1>6, <1>7 DEF Counted

\* So it does where it starts afresh.
LEMMA CountRestarts ==
    ASSUME NEW e \in Episode, streak'[e] = 0, rows'[e] \in Row,
           e \notin crossed' => Consistent(rows'[e])
    PROVE  Counted(e)'
<1>1. rows'[e].retry_count \in Nat /\ Slack(e)' \in {0, 1}
  BY DEF Row, Slack
<1>2. streak'[e] <= rows'[e].retry_count + Slack(e)' /\ streak'[e] <= 1 + Slack(e)'
  BY <1>1
<1> QED BY <1>2 DEF Counted

\* A row rewritten with its budget, in another status than FAILED.
LEMMA CountMoves ==
    ASSUME TypeOK, NEW e \in Episode, Counted(e), crossed \subseteq crossed', streak'[e] = streak[e],
           rows'[e].status # FAILED, SameBudget(rows'[e], rows[e]),
           e \notin crossed' => Consistent(rows'[e]),
           streak[e] = 0 \/ \E n \in RetrySettings : streak[e] < n + Slack(e)'
    PROVE  Counted(e)'
<1>1. rows[e] \in Row /\ rows[e].retry_count \in Nat /\ streak[e] \in Nat
      /\ RetrySettings \subseteq Nat
  BY DatabaseAssumption DEF TypeOK, DatabaseTypeOK, Row
<1>2. Slack(e) \in {0, 1} /\ Slack(e)' \in {0, 1} /\ Slack(e) <= Slack(e)'
  BY SlackGrows
<1>3. streak'[e] <= rows'[e].retry_count + Slack(e)'
  <2>1. streak[e] <= rows[e].retry_count + Slack(e)
    BY DEF Counted
  <2> QED BY <1>1, <1>2, <2>1 DEF SameBudget
<1>4. \E n \in RetrySettings \union {1} : streak'[e] <= n + Slack(e)'
  <2>1. PICK n \in RetrySettings \union {1} : streak[e] <= n + Slack(e)
    BY DEF Counted
  <2>2. streak'[e] <= n + Slack(e)'
    BY <1>1, <1>2, <2>1
  <2> QED BY <2>2
<1> QED BY <1>3, <1>4 DEF Counted

-----------------------------------------------------------------------------
\* WHAT A STEP LEAVES TO THE OTHERS

\* What a step that is not a run's own does to the row the run is on.
Served(c) ==
    LET e == consumer[c].ep IN
    \/ /\ rows'[e] = rows[e] /\ streak'[e] \in {streak[e], 0}
       /\ (OwnJob(c) \in jobs') = (OwnJob(c) \in jobs)
    \/ rows'[e].status = ABSENT /\ OwnJob(c) \notin jobs'
    \/ /\ e \in crossed' /\ rows'[e].status # FAILED
       /\ OwnJob(c) \in jobs' => OwnJob(c) \in jobs
       /\ (SameBudget(rows'[e], rows[e]) /\ streak'[e] = streak[e]) \/ streak'[e] = 0

LEMMA RunKept ==
    ASSUME NEW c \in Consumer, RunInv(c), consumer'[c] = consumer[c], crossed \subseteq crossed',
           consumer[c].pc \in Busy => Served(c)
    PROVE  RunInv(c)'
<1> SUFFICES ASSUME consumer[c].pc \in Busy
             PROVE  Knows(c)' /\ (consumer[c].ep \notin crossed' => Alone(c)')
  BY DEF RunInv
<1> DEFINE me == consumer[c]
           e  == me.ep
<1>1. Served(c) /\ Knows(c) /\ (e \notin crossed' => Alone(c))
  BY DEF RunInv
<1>2. OwnJob(c)' = OwnJob(c) /\ RunStatus(c)' = RunStatus(c) /\ consumer'[c] = me
  BY DEF OwnJob, RunStatus, WrittenStatus, Stage
<1>3. CASE /\ rows'[e] = rows[e] /\ streak'[e] \in {streak[e], 0}
           /\ (OwnJob(c) \in jobs') = (OwnJob(c) \in jobs)
  BY <1>1, <1>2, <1>3 DEF Knows, Alone
<1>4. CASE rows'[e].status = ABSENT /\ OwnJob(c) \notin jobs'
  BY <1>1, <1>2, <1>4 DEF Knows, Alone
<1>5. CASE /\ e \in crossed' /\ rows'[e].status # FAILED
           /\ OwnJob(c) \in jobs' => OwnJob(c) \in jobs
           /\ (SameBudget(rows'[e], rows[e]) /\ streak'[e] = streak[e]) \/ streak'[e] = 0
  BY <1>1, <1>2, <1>5 DEF Knows, SameBudget
<1> QED BY <1>1, <1>3, <1>4, <1>5 DEF Served

\* What it does to a row a handler has loaded.
LEMMA SeesKept ==
    ASSUME TypeOK, NEW t \in Task, NEW e \in Episode, Sees(t, e), task'[t] = task[t], crossed \subseteq crossed',
           \/ rows'[e] = rows[e] /\ streak'[e] \in {streak[e], 0}
           \/ rows'[e].status # FAILED /\ streak'[e] = 0
           \/ task[t].op # "requeue"
    PROVE  Sees(t, e)'
<1> DEFINE old == task[t].seen[e]
<1>1. /\ old.status \in From(task[t].op)
      /\ e \notin crossed => Consistent(old)
      /\ task[t].op = "requeue" =>
             /\ t = POLL_JOB_ID
             /\ \E n \in RetrySettings : old.retry_count < n
             /\ IF rows[e].status = FAILED THEN streak[e] <= old.retry_count + Slack(e)
                                           ELSE streak[e] = 0
  BY DEF Sees
<1>2. SUFFICES ASSUME task[t].op = "requeue", rows'[e].status = FAILED,
                      rows'[e] = rows[e], streak'[e] \in {streak[e], 0}
               PROVE  streak'[e] <= old.retry_count + Slack(e)'
  BY <1>1 DEF Sees
<1>3. old.retry_count \in Nat /\ streak[e] \in Nat
  BY DEF TypeOK, RequestsTypeOK, TaskState, Row
<1>4. Slack(e) \in {0, 1} /\ Slack(e)' \in {0, 1} /\ Slack(e) <= Slack(e)'
  BY SlackGrows
<1>5. streak[e] <= old.retry_count + Slack(e)
  BY <1>1, <1>2
<1> QED BY <1>2, <1>3, <1>4, <1>5

LEMMA JobsStay ==
    ASSUME JobsKept, mode = "up", UNCHANGED <<mode, consumer>>, jobs' \subseteq jobs,
           crossed \subseteq crossed', \A j \in jobs' : rows'[j.ep].status # ABSENT
    PROVE  JobsKept'
BY DEF JobsKept, RunningJobsAreOwned, OwnJob, Stage

\* A step that is not the worker's.
LEMMA Outside ==
    ASSUME CrossInv, mode = "up", UNCHANGED <<mode, consumer>>, crossed \subseteq crossed',
           HandlersSee', JobsKept', \A e \in Episode : Counted(e)',
           \A c \in Consumer : consumer[c].pc \in Busy => Served(c)
    PROVE  CrossInv'
<1>1. \A c \in Consumer : RunInv(c)'
  BY RunKept DEF CrossInv
<1> QED BY <1>1 DEF CrossInv, IdleUnlessUp

\* A step that writes no row and counts nothing.
LEMMA Untouched ==
    ASSUME TypeOK, CrossInv, mode = "up", UNCHANGED <<mode, consumer, rows, jobs, streak, crossed>>, HandlersSee'
    PROVE  CrossInv'
<1>1. JobsKept'
  BY JobsStay DEF CrossInv, JobsKept
<1>2. \A e \in Episode : Counted(e)'
  BY CountedKept DEF CrossInv
<1>3. \A c \in Consumer : Served(c)
  BY DEF Served
<1> QED BY <1>1, <1>2, <1>3, Outside
LEMMA RunsOnwards ==
    ASSUME NEW d \in Consumer, consumer'[d].plan = consumer[d].plan, consumer'[d].ep = consumer[d].ep,
           consumer'[d].i = consumer[d].i
    PROVE  /\ Stage(d)' = Stage(d) /\ OwnJob(d)' = OwnJob(d)
           /\ (\E pcs \in {{"begin", "start"}, {"work", "close", "done", "final"}} :
                   {consumer[d].pc, consumer'[d].pc} \subseteq pcs) => RunStatus(d)' = RunStatus(d)
<1>1. Stage(d)' = Stage(d)
  BY DEF Stage
<1> QED BY <1>1 DEF OwnJob, RunStatus, WrittenStatus


-----------------------------------------------------------------------------
\* HANDLERS, USERS AND THE SCHEDULER

\* What a handler's commit makes of a row it changes.
LEMMA CommitRow ==
    ASSUME TypeOK, HandlersSee, NEW t \in Task, Commit(t), NEW e \in Episode, rows'[e] # rows[e]
    PROVE  LET op  == task[t].op
               old == task[t].seen[e]
           IN
           /\ task[t].pc = "loaded" /\ e \in task[t].ids /\ Sees(t, e) /\ op \in Op \ {"upsert"}
           /\ rows[e].status # ABSENT /\ rows'[e].status = Given(op)
           /\ op # "reprocess" => SameBudget(rows'[e], rows[e])
           /\ Consistent(old) /\ Consistent(rows[e]) /\ rows[e].status = old.status =>
                  Consistent(rows'[e])
<1> DEFINE op  == task[t].op
           ids == task[t].ids
           old == task[t].seen[e]
           new == Assigned(op, old)
<1>1. /\ task[t] \in TaskState /\ op \in Op \ {"upsert"} /\ ids \in SUBSET Episode
      /\ task[t].seen \in [Episode -> Row] /\ rows \in [Episode -> Row] /\ task[t].pc = "loaded"
  BY DEF TypeOK, RequestsTypeOK, DatabaseTypeOK, Commit, TaskState
<1>2. /\ e \in ids /\ Flush(ids, task[t].seen, [x \in ids |-> Assigned(op, task[t].seen[x])])
      /\ ~FlushFails(ids, task[t].seen, [x \in ids |-> Assigned(op, task[t].seen[x])])
  BY <1>1 DEF Commit, Flush
<1>3. rows'[e] = Update(rows[e], old, new) /\ old \in Row /\ rows[e] \in Row
  BY <1>1, <1>2 DEF Flush
<1>4. /\ new \in Row /\ new.status = Given(op)
      /\ op # "reprocess" => SameBudget(new, old)
      /\ op = "reprocess" => new = NewRow(old.feed, QUEUED)
  BY <1>1, <1>3, AssignedFields
<1>5. Sees(t, e) /\ old.status \in From(op)
  BY <1>1, <1>2 DEF HandlersSee, Sees
<1>6. op \in {"queue", "requeue", "dismiss", "expire", "reprocess"}
  BY <1>1 DEF Op
<1>7. old.status # Given(op)
  BY <1>5, <1>6 DEF From, Given, PROCESS_FROM
<1>8. rows[e].status # ABSENT
  BY <1>2, <1>4, <1>7 DEF FlushFails, Exists
<1> HIDE DEF new, old, op
<1>9. /\ rows'[e].status = Given(op)
      /\ rows'[e].retry_count = IF new.retry_count # old.retry_count THEN new.retry_count ELSE rows[e].retry_count
      /\ rows'[e].last_failed_step = IF new.last_failed_step # old.last_failed_step
                                     THEN new.last_failed_step ELSE rows[e].last_failed_step
  BY <1>3, <1>4, <1>7, UpdateFields
<1>10. op # "reprocess" => SameBudget(rows'[e], rows[e])
  BY <1>4, <1>9 DEF SameBudget
<1>11. ASSUME Consistent(old), Consistent(rows[e]), rows[e].status = old.status
       PROVE  Consistent(rows'[e])
  <2>1. op = "expire" => rows[e].retry_count = 0
    BY <1>5, <1>11 DEF From, Consistent
  <2>2. rows'[e].status \notin {PROCESSED, FAILED} /\ (rows'[e].status = EXPIRED => op = "expire")
    BY <1>6, <1>9 DEF Given
  <2>3. CASE op # "reprocess"
    BY <1>10, <1>11, <2>1, <2>2, <2>3 DEF Consistent, SameBudget
  <2>4. CASE op = "reprocess"
    BY <1>4, <1>9, <1>11, <2>2, <2>4, RowFields DEF Consistent
  <2> QED BY <2>3, <2>4
<1> QED BY <1>1, <1>2, <1>5, <1>8, <1>9, <1>10, <1>11 DEF op, old

LEMMA GivenStatuses ==
    /\ \A op : Given(op) \in {QUEUED, SKIPPED, EXPIRED}
    /\ \A op \in Op \ {"upsert"} : From(op) \intersect ({QUEUED, ABSENT} \union ACTIVE) = {}
<1>1. \A op \in Op \ {"upsert"} : op \in {"queue", "requeue", "dismiss", "expire", "reprocess"}
  BY DEF Op
<1> QED BY <1>1 DEF Given, From, PROCESS_FROM

\* The commit of a handler, and the history that goes with it.
Commits(t) ==
    /\ mode = "up" /\ UNCHANGED mode /\ Commit(t)
    /\ IF task[t].op = "requeue" THEN UNCHANGED streak ELSE ForgetFailures
    /\ crossed' = crossed \union {e \in task[t].ids : Overwrites(t, e)}

LEMMA CommitStreak ==
    ASSUME TypeOK, HandlersSee, NEW t \in Task, Commits(t), NEW e \in Episode
    PROVE  /\ rows'[e] = rows[e] => streak'[e] = streak[e]
           /\ rows'[e] # rows[e] /\ task[t].op # "requeue" => streak'[e] = 0
           /\ task[t].op = "requeue" => streak'[e] = streak[e]
           /\ crossed \subseteq crossed'
           /\ rows'[e] # rows[e] /\ e \notin crossed' => rows[e].status = task[t].seen[e].status
<1>1. Commit(t)
  BY DEF Commits
<1>2. rows'[e] # rows[e] => e \in task[t].ids
  BY <1>1, CommitRow
<1> QED BY <1>2 DEF Commits, ForgetFailures, Overwrites

LEMMA CommitCounted ==
    ASSUME TypeOK, TypeOK', CrossInv, NEW t \in Task, Commits(t), NEW e \in Episode
    PROVE  Counted(e)' /\ (e \notin crossed' => ByTable(e))
<1>1. Commit(t) /\ HandlersSee /\ Counted(e) /\ rows'[e] \in Row /\ rows[e] \in Row /\ streak[e] \in Nat
  BY DEF Commits, CrossInv, TypeOK, DatabaseTypeOK
<1>2. /\ rows'[e] = rows[e] => streak'[e] = streak[e]
      /\ rows'[e] # rows[e] /\ task[t].op # "requeue" => streak'[e] = 0
      /\ task[t].op = "requeue" => streak'[e] = streak[e]
      /\ crossed \subseteq crossed'
      /\ rows'[e] # rows[e] /\ e \notin crossed' => rows[e].status = task[t].seen[e].status
  BY <1>1, CommitStreak
<1>3. CASE rows'[e] = rows[e]
  BY <1>1, <1>2, <1>3, CountedKept DEF ByTable
<1>4. CASE rows'[e] # rows[e]
  <2> DEFINE op  == task[t].op
             old == task[t].seen[e]
  <2>1. /\ Sees(t, e) /\ op \in Op \ {"upsert"} /\ rows'[e].status = Given(op)
        /\ op # "reprocess" => SameBudget(rows'[e], rows[e])
        /\ Consistent(old) /\ Consistent(rows[e]) /\ rows[e].status = old.status =>
               Consistent(rows'[e])
    BY <1>1, <1>4, CommitRow
  <2>2. e \notin crossed => Consistent(old) /\ Consistent(rows[e])
    BY <1>1, <2>1 DEF Sees, Counted
  <2>3. e \notin crossed' => Consistent(rows'[e])
    BY <1>2, <1>4, <2>1, <2>2
  <2>4. e \notin crossed' => ByTable(e)
    BY <1>2, <1>4, <2>1, TableMoves DEF Sees, ByTable
  <2>5. CASE op # "requeue"
    BY <1>1, <1>2, <1>4, <2>3, <2>4, <2>5, CountRestarts
  <2>6. CASE op = "requeue"
    <3>1. rows'[e].status # FAILED /\ SameBudget(rows'[e], rows[e]) /\ streak'[e] = streak[e]
      BY <1>2, <2>1, <2>6, GivenStatuses
    <3>2. streak[e] = 0 \/ \E n \in RetrySettings : streak[e] < n + Slack(e)'
      <4>1. SUFFICES ASSUME rows[e].status = FAILED, streak[e] <= old.retry_count + Slack(e)
                     PROVE  \E n \in RetrySettings : streak[e] < n + Slack(e)'
        BY <2>1, <2>6 DEF Sees
      <4>2. PICK n \in RetrySettings : old.retry_count < n
        BY <2>1, <2>6 DEF Sees
      <4>3. old.retry_count \in Nat /\ n \in Nat
        BY <4>2, DatabaseAssumption DEF TypeOK, RequestsTypeOK, TaskState, Row
      <4>4. Slack(e) \in {0, 1} /\ Slack(e)' \in {0, 1} /\ Slack(e) <= Slack(e)'
        BY <1>2, SlackGrows
      <4>5. streak[e] < n + Slack(e)'
        BY <1>1, <4>1, <4>2, <4>3, <4>4
      <4> QED BY <4>5
    <3> QED BY <1>1, <1>2, <2>3, <2>4, <3>1, <3>2, CountMoves
  <2> QED BY <2>5, <2>6
<1> QED BY <1>3, <1>4

\* Whoever has loaded the same row has a stale one.  Two handlers that
\* requeue would miss what the other counts, but they are one.
LEMMA CommitSeen ==
    ASSUME TypeOK, CrossInv, NEW t \in Task, Commits(t)
    PROVE  HandlersSee'
<1>1. Commit(t) /\ HandlersSee /\ crossed \subseteq crossed'
  BY DEF Commits, CrossInv
<1> SUFFICES ASSUME NEW u \in Task, task'[u].pc = "loaded", NEW e \in task'[u].ids
             PROVE  Sees(u, e)'
  BY DEF HandlersSee
<1>2. task'[u] = task[u] /\ u # t
  <2>1. task \in [Task -> TaskState]
    BY DEF TypeOK, RequestsTypeOK
  <2>2. [[task[t] EXCEPT !.pc = "enqueue"] EXCEPT !.seen = Unseen].pc = "enqueue"
    BY <2>1 DEF TaskState
  <2>3. \E state : task' = [task EXCEPT ![t] = state] /\ state.pc # "loaded"
    BY <1>1, <2>1, <2>2, NoTaskType DEF Commit
  <2> QED BY <2>1, <2>3
<1>3. Sees(u, e) /\ e \in Episode
  BY <1>1, <1>2 DEF HandlersSee, TypeOK, RequestsTypeOK, TaskState
<1>4. CASE rows'[e] = rows[e]
  BY <1>1, <1>2, <1>3, <1>4, CommitStreak, SeesKept
<1>5. CASE rows'[e] # rows[e]
  <2>1. Sees(t, e) /\ rows'[e].status = Given(task[t].op)
    BY <1>1, <1>3, <1>5, CommitRow
  <2>2. rows'[e].status # FAILED
    BY <2>1, GivenStatuses
  <2>3. task[t].op = "requeue" => task[u].op # "requeue"
    BY <1>2, <1>3, <2>1 DEF Sees
  <2>4. task[t].op # "requeue" => streak'[e] = 0
    BY <1>1, <1>3, <1>5, CommitStreak
  <2> QED BY <1>1, <1>2, <1>3, <2>2, <2>3, <2>4, SeesKept
<1> QED BY <1>4, <1>5

LEMMA CommitServes ==
    ASSUME TypeOK, CrossInv, NEW t \in Task, Commits(t), NEW c \in Consumer, consumer[c].pc \in Busy
    PROVE  Served(c)
<1> DEFINE e == consumer[c].ep
<1>1. /\ Commit(t) /\ HandlersSee /\ jobs' = jobs /\ e \in Episode /\ consumer[c].pc # "idle"
      /\ e \notin crossed => Alone(c)
  BY RunTypes DEF Commits, Commit, CrossInv, RunInv, Busy
<1>2. CASE rows'[e] = rows[e]
  BY <1>1, <1>2, CommitStreak DEF Served
<1>3. CASE rows'[e] # rows[e]
  <2>1. /\ Sees(t, e) /\ task[t].op \in Op \ {"upsert"} /\ rows[e].status # ABSENT
        /\ rows'[e].status = Given(task[t].op)
        /\ task[t].op # "reprocess" => SameBudget(rows'[e], rows[e])
    BY <1>1, <1>3, CommitRow
  <2>2. e \in crossed'
    <3>1. SUFFICES ASSUME e \notin crossed' PROVE FALSE
      OBVIOUS
    <3>2. rows[e].status = task[t].seen[e].status /\ e \notin crossed
      BY <1>1, <1>3, <3>1, CommitStreak
    <3>3. rows[e].status \in {QUEUED} \union ACTIVE
      BY <1>1, <2>1, <3>2, RunStatuses DEF Alone
    <3> QED BY <2>1, <3>2, <3>3, GivenStatuses DEF Sees
  <2>3. rows'[e].status # FAILED
    BY <2>1, GivenStatuses
  <2>4. (SameBudget(rows'[e], rows[e]) /\ streak'[e] = streak[e]) \/ streak'[e] = 0
    BY <1>1, <1>3, <2>1, CommitStreak
  <2> QED BY <1>1, <2>2, <2>3, <2>4 DEF Served
<1> QED BY <1>2, <1>3

LEMMA CommitCross ==
    ASSUME TypeOK, TypeOK', CrossInv, NEW t \in Task, Commits(t)
    PROVE  CrossInv' /\ \A e \in Episode \ crossed' : ByTable(e)
<1>1. mode = "up" /\ UNCHANGED <<mode, consumer, jobs>> /\ crossed \subseteq crossed' /\ Commit(t)
  BY DEF Commits, Commit, workerVars
<1>2. JobsKept'
  <2>1. \A j \in jobs' : rows'[j.ep].status # ABSENT
    <3> SUFFICES ASSUME NEW j \in jobs, rows'[j.ep] # rows[j.ep]
                 PROVE  rows'[j.ep].status # ABSENT
      BY <1>1 DEF CrossInv, JobsKept
    <3>1. j.ep \in Episode
      BY DEF TypeOK, DatabaseTypeOK, Job
    <3> QED BY <1>1, <3>1, CommitRow, GivenStatuses DEF CrossInv
  <2> QED BY <1>1, <2>1, JobsStay DEF CrossInv
<1> QED BY <1>1, <1>2, CommitCounted, CommitSeen, CommitServes, Outside

LEMMA EnqueueCross ==
    ASSUME TypeOK, CrossInv, NEW t \in Task, Enqueue(t), UNCHANGED <<streak, crossed, mode>>, mode = "up"
    PROVE  CrossInv'
<1>1. UNCHANGED <<rows, jobs, consumer>> /\ task' = [task EXCEPT ![t] = NoTask]
  BY DEF Enqueue, databaseVars
<1>2. \A u \in Task : task'[u].pc = "loaded" => task'[u] = task[u]
  BY <1>1, NoTaskType DEF TypeOK, RequestsTypeOK
<1>3. HandlersSee'
  BY <1>1, <1>2 DEF CrossInv, HandlersSee, Sees, Slack
<1> QED BY <1>1, <1>3, Untouched

\* What a handler loads.
LEMMA LoadCross ==
    ASSUME TypeOK, CrossInv, mode = "up", UNCHANGED <<mode, streak, crossed>>,
           NEW t \in Task, NEW op, NEW ids \in SUBSET Episode, Load(t, op, ids),
           \A e \in ids : rows[e].status \in From(op),
           op = "requeue" => /\ t = POLL_JOB_ID
                             /\ \A e \in ids : \E n \in RetrySettings : rows[e].retry_count < n
    PROVE  CrossInv'
<1>1. /\ task \in [Task -> TaskState] /\ UNCHANGED <<rows, jobs, consumer>>
      /\ task' = [task EXCEPT ![t] = [pc |-> "loaded", op |-> op, ids |-> ids,
                     seen |-> [e \in Episode |-> IF e \in ids THEN rows[e] ELSE NoRow]]]
  BY DEF Load, databaseVars, workerVars, TypeOK, RequestsTypeOK
<1>2. HandlersSee'
  <2> SUFFICES ASSUME NEW u \in Task, task'[u].pc = "loaded", NEW e \in task'[u].ids
               PROVE  Sees(u, e)'
    BY DEF HandlersSee
  <2>1. CASE u # t
    <3>1. task'[u] = task[u] /\ Sees(u, e)
      BY <1>1, <2>1 DEF CrossInv, HandlersSee
    <3> QED BY <1>1, <3>1 DEF Sees, Slack
  <2>2. CASE u = t
    <3>1. task'[u].op = op /\ e \in ids /\ task'[u].seen[e] = rows[e]
      BY <1>1, <2>2
    <3>2. Counted(e)
      BY <3>1 DEF CrossInv
    <3>3. (e \notin crossed => Consistent(rows[e])) /\ streak[e] <= rows[e].retry_count + Slack(e)
      BY <3>2 DEF Counted
    <3>4. op = "requeue" => rows[e].status = FAILED
      BY <3>1 DEF From
    <3> QED BY <1>1, <2>2, <3>1, <3>3, <3>4 DEF Sees, Slack
  <2> QED BY <2>1, <2>2
<1> QED BY <1>1, <1>2, Untouched

LEMMA DeleteCross ==
    ASSUME TypeOK, TypeOK', CrossInv, mode = "up", UNCHANGED <<mode, crossed>>,
           NEW r \in Request, NEW f \in Feed, DeleteFeed(r, f), ForgetFailures
    PROVE  CrossInv' /\ \A e \in Episode : ByTable(e)
<1>1. UNCHANGED <<consumer, task>>
  BY DEF DeleteFeed, workerVars
<1>2. ASSUME NEW e \in Episode
      PROVE  /\ rows'[e] \in Row
             /\ rows'[e] # rows[e] => rows'[e] = NoRow /\ rows[e].feed = f /\ streak'[e] = 0
             /\ rows'[e] = rows[e] => streak'[e] = streak[e]
             /\ rows'[e] = rows[e] \/ rows'[e].status = ABSENT
  BY RowFields DEF DeleteFeed, ForgetFailures, TypeOK, DatabaseTypeOK
<1>3. jobs' = {j \in jobs : rows[j.ep].feed # f}
  BY DEF DeleteFeed, TypeOK, DatabaseTypeOK, Job
<1>4. ASSUME NEW e \in Episode
      PROVE  Counted(e)'
  <2>1. Consistent(NoRow)
    BY RowFields DEF Consistent
  <2> QED BY <1>2, <2>1, CountedKept, CountRestarts DEF CrossInv
<1>5. HandlersSee'
  <2> SUFFICES ASSUME NEW t \in Task, task[t].pc = "loaded", NEW e \in task[t].ids
               PROVE  Sees(t, e)'
    BY <1>1 DEF HandlersSee
  <2>1. Sees(t, e) /\ e \in Episode
    BY DEF CrossInv, HandlersSee, TypeOK, RequestsTypeOK, TaskState
  <2> QED BY <1>1, <1>2, <2>1, RowFields, SeesKept
<1>6. JobsKept'
  <2>1. \A j \in jobs' : rows'[j.ep].status # ABSENT
    <3> SUFFICES ASSUME NEW j \in jobs' PROVE rows'[j.ep].status # ABSENT
      OBVIOUS
    <3>1. j \in jobs /\ j.ep \in Episode /\ rows[j.ep].feed # f
      BY <1>3 DEF TypeOK, DatabaseTypeOK, Job
    <3>2. rows[j.ep].status # ABSENT
      BY <3>1 DEF CrossInv, JobsKept
    <3> QED BY <1>2, <3>1, <3>2
  <2> QED BY <1>1, <1>3, <2>1, JobsStay DEF CrossInv
<1>7. ASSUME NEW c \in Consumer, consumer[c].pc \in Busy
      PROVE  Served(c)
  <2>1. consumer[c].ep \in Episode /\ OwnJob(c).ep = consumer[c].ep
    BY <1>7, RunTypes DEF Busy, OwnJob
  <2>2. CASE rows[consumer[c].ep].feed = f
    <3>1. OwnJob(c) \notin jobs'
      BY <1>3, <2>1, <2>2
    <3>2. rows'[consumer[c].ep] = NoRow
      BY <2>1, <2>2 DEF DeleteFeed, TypeOK, DatabaseTypeOK
    <3> QED BY <3>1, <3>2, RowFields DEF Served
  <2>3. CASE rows[consumer[c].ep].feed # f
    BY <1>2, <1>3, <2>1, <2>3 DEF Served
  <2> QED BY <2>2, <2>3
<1> QED BY <1>1, <1>2, <1>4, <1>5, <1>6, <1>7, Outside DEF ByTable

LEMMA UpsertCross ==
    ASSUME TypeOK, TypeOK', CrossInv, NEW t \in Task, NEW f \in Feed, PollStep(t, f)
    PROVE  CrossInv' /\ \A e \in Episode : ByTable(e)
<1>1. /\ mode = "up" /\ UNCHANGED <<mode, jobs, consumer>> /\ ForgetFailures
      /\ crossed' = crossed \union {e \in Running : rows'[e] # rows[e]}
  BY DEF PollStep, Upsert, workerVars
<1> DEFINE allowed == IF \E e \in Episode : rows[e].feed = f THEN {QUEUED, SKIPPED} ELSE {SKIPPED}
<1>2. PICK last \in NextId..MaxId :
      \E status \in [{e \in Episode : NextId <= e /\ e <= last} -> allowed] :
          LET queued == {e \in DOMAIN status : status[e] = QUEUED} IN
          /\ rows' = [e \in Episode |-> IF e \in DOMAIN status THEN NewRow(f, status[e]) ELSE rows[e]]
          /\ task' = [task EXCEPT ![t] =
                IF queued = {} THEN NoTask
                ELSE [pc |-> "enqueue", op |-> "upsert", ids |-> queued, seen |-> Unseen]]
  BY DEF PollStep, Upsert
<1> DEFINE new == {e \in Episode : NextId <= e /\ e <= last}
<1>3. PICK status \in [new -> allowed] :
          LET queued == {e \in DOMAIN status : status[e] = QUEUED} IN
          /\ rows' = [e \in Episode |-> IF e \in DOMAIN status THEN NewRow(f, status[e]) ELSE rows[e]]
          /\ task' = [task EXCEPT ![t] =
                IF queued = {} THEN NoTask
                ELSE [pc |-> "enqueue", op |-> "upsert", ids |-> queued, seen |-> Unseen]]
  BY <1>2
<1>4. ASSUME NEW e \in Episode
      PROVE  \/ rows'[e] = rows[e] /\ streak'[e] = streak[e]
             \/ /\ rows[e].status = ABSENT /\ streak'[e] = 0 /\ rows'[e] # rows[e]
                /\ rows'[e].status \in {QUEUED, SKIPPED}
                /\ rows'[e].retry_count = 0 /\ rows'[e].last_failed_step = None
  <2>1. CASE e \notin new
    <3>1. rows'[e] = rows[e]
      BY <1>3, <2>1
    <3> QED BY <1>1, <3>1 DEF ForgetFailures
  <2>2. CASE e \in new
    <3>1. rows[e].status = ABSENT
      BY <2>2, FreeIds
    <3>2. rows'[e] = NewRow(f, status[e]) /\ status[e] \in {QUEUED, SKIPPED}
      BY <1>3, <2>2
    <3>3. /\ rows'[e].status \in {QUEUED, SKIPPED}
          /\ rows'[e].retry_count = 0 /\ rows'[e].last_failed_step = None
      BY <3>2, RowFields
    <3> QED BY <1>1, <3>1, <3>3 DEF ForgetFailures
  <2> QED BY <2>1, <2>2
<1>5. ASSUME NEW e \in Episode
      PROVE  Counted(e)'
  <2>1. rows'[e] \in Row
    BY DEF TypeOK, DatabaseTypeOK
  <2>2. CASE rows'[e] = rows[e] /\ streak'[e] = streak[e]
    BY <1>1, <2>2, CountedKept DEF CrossInv
  <2>3. CASE /\ streak'[e] = 0 /\ rows'[e].status \in {QUEUED, SKIPPED}
             /\ rows'[e].retry_count = 0 /\ rows'[e].last_failed_step = None
    <3>1. Consistent(rows'[e])
      BY <2>3 DEF Consistent
    <3> QED BY <2>1, <2>3, <3>1, CountRestarts
  <2> QED BY <1>4, <2>2, <2>3
<1>6. HandlersSee'
  <2> SUFFICES ASSUME NEW u \in Task, task'[u].pc = "loaded", NEW e \in task'[u].ids
               PROVE  Sees(u, e)'
    BY DEF HandlersSee
  <2>1. task'[u] = task[u]
    <3>1. \A ids : [pc |-> "enqueue", op |-> "upsert", ids |-> ids, seen |-> Unseen].pc # "loaded"
      OBVIOUS
    <3>2. \E state : task' = [task EXCEPT ![t] = state] /\ state.pc # "loaded"
      BY <1>3, <3>1, NoTaskType
    <3> QED BY <3>2 DEF TypeOK, RequestsTypeOK
  <2>2. Sees(u, e) /\ e \in Episode
    BY <2>1 DEF CrossInv, HandlersSee, TypeOK, RequestsTypeOK, TaskState
  <2> QED BY <1>1, <1>4, <2>1, <2>2, SeesKept
<1>7. JobsKept'
  <2>1. \A j \in jobs' : rows'[j.ep].status # ABSENT
    BY <1>1, <1>4 DEF CrossInv, JobsKept, TypeOK, DatabaseTypeOK, Job
  <2> QED BY <1>1, <2>1, JobsStay DEF CrossInv
<1>8. ASSUME NEW c \in Consumer, consumer[c].pc \in Busy
      PROVE  Served(c)
  <2>1. consumer[c].ep \in Episode /\ consumer[c].ep \in Running
    BY <1>8, RunTypes DEF Busy, Running
  <2>2. CASE rows'[consumer[c].ep] = rows[consumer[c].ep]
    BY <1>1, <1>4, <2>1, <2>2 DEF Served
  <2>3. CASE rows'[consumer[c].ep] # rows[consumer[c].ep]
    BY <1>1, <1>4, <2>1, <2>3 DEF Served
  <2> QED BY <2>2, <2>3
<1> QED BY <1>1, <1>4, <1>5, <1>6, <1>7, <1>8, Outside DEF ByTable

LEMMA UserCross ==
    ASSUME TypeOK, TypeOK', CrossInv, NEW r \in Request, UserStep(r)
    PROVE  CrossInv' /\ \A e \in Episode : ByTable(e)
<1>1. mode = "up" /\ UNCHANGED <<mode, crossed>> /\ UserRequest(r) /\ ForgetFailures /\ r \in Task
  BY DEF UserStep, Task
<1>2. ASSUME UNCHANGED rows
      PROVE  UNCHANGED streak /\ \A e \in Episode : ByTable(e)
  <2>1. streak \in [Episode -> Nat]
    BY DEF TypeOK
  <2> QED BY <1>1, <1>2, <2>1 DEF ForgetFailures, ByTable
<1>3. ASSUME NEW op \in {"queue", "dismiss", "reprocess"}, NEW ids \in SUBSET Episode, Load(r, op, ids),
             \A e \in ids : rows[e].status \in From(op)
      PROVE  CrossInv' /\ \A e \in Episode : ByTable(e)
  <2>1. UNCHANGED rows
    BY <1>3 DEF Load, databaseVars
  <2> QED BY <1>1, <1>2, <1>3, <2>1, LoadCross
<1>4. rows \in [Episode -> Row]
  BY DEF TypeOK, DatabaseTypeOK
<1>5. ASSUME NEW e \in Episode,
             QueueEpisode(r, e, PROCESS_FROM) \/ QueueEpisode(r, e, RETRY_FROM)
             \/ DismissEpisode(r, e) \/ ReprocessEpisode(r, e)
      PROVE  CrossInv' /\ \A x \in Episode : ByTable(x)
  <2>1. \E op \in {"queue", "dismiss", "reprocess"} : Load(r, op, {e}) /\ rows[e].status \in From(op)
    BY <1>4, <1>5 DEF QueueEpisode, DismissEpisode, ReprocessEpisode, From, PROCESS_FROM, RETRY_FROM,
                      Exists, Row
  <2> QED BY <1>3, <2>1
<1>6. ASSUME NEW feeds, DismissFailed(r, feeds)
      PROVE  CrossInv' /\ \A e \in Episode : ByTable(e)
  <2>1. {e \in Episode : rows[e].status = FAILED /\ rows[e].feed \in feeds} \in SUBSET Episode
    OBVIOUS
  <2> QED BY <1>3, <1>6, <2>1 DEF DismissFailed, From
<1>7. ASSUME NEW f \in Feed, DeleteFeed(r, f)
      PROVE  CrossInv' /\ \A e \in Episode : ByTable(e)
  BY <1>1, <1>7, DeleteCross
<1>8. ASSUME NEW n \in RetrySettings, SetMaxRetries(r, n)
      PROVE  CrossInv' /\ \A e \in Episode : ByTable(e)
  <2>1. UNCHANGED <<rows, jobs, consumer, task>>
    BY <1>8 DEF SetMaxRetries, workerVars
  <2>2. UNCHANGED streak
    BY <1>2, <2>1
  <2>3. HandlersSee'
    BY <1>1, <2>1, <2>2 DEF CrossInv, HandlersSee, Sees, Slack
  <2> QED BY <1>1, <1>2, <2>1, <2>2, <2>3, Untouched
<1> QED BY <1>1, <1>5, <1>6, <1>7, <1>8 DEF UserRequest

LEMMA SchedulerCross ==
    ASSUME TypeOK, CrossInv, SchedulerStep
    PROVE  CrossInv' /\ \A e \in Episode : ByTable(e)
<1>1. /\ mode = "up" /\ UNCHANGED <<mode, streak, crossed>>
      /\ POLL_JOB_ID \in Task /\ CLEANUP_JOB_ID \in Task
  BY DEF SchedulerStep, Task
<1>2. UNCHANGED rows
  BY DEF SchedulerStep, SchedulerJob, RequeueFailed, ExpireProcessed, Load, databaseVars
<1>3. CASE RequeueFailed
  <2> DEFINE ids == {e \in Episode : rows[e].status = FAILED /\ rows[e].retry_count < max_retries}
  <2>1. Load(POLL_JOB_ID, "requeue", ids) /\ max_retries \in RetrySettings
    BY <1>3 DEF RequeueFailed, TypeOK, DatabaseTypeOK
  <2>2. \A e \in ids : /\ rows[e].status \in From("requeue")
                       /\ \E n \in RetrySettings : rows[e].retry_count < n
    BY <2>1 DEF From
  <2> HIDE DEF ids
  <2>3. ids \in SUBSET Episode
    BY DEF ids
  <2> QED BY <1>1, <1>2, <2>1, <2>2, <2>3, LoadCross DEF ByTable
<1>4. CASE ExpireProcessed
  <2>1. PICK ids \in SUBSET {e \in Episode : rows[e].status = PROCESSED} :
            Load(CLEANUP_JOB_ID, "expire", ids)
    BY <1>4 DEF ExpireProcessed
  <2>2. ids \in SUBSET Episode /\ \A e \in ids : rows[e].status \in From("expire")
    BY <2>1 DEF From
  <2> QED BY <1>1, <1>2, <2>1, <2>2, LoadCross DEF ByTable
<1> QED BY <1>3, <1>4 DEF SchedulerStep, SchedulerJob

-----------------------------------------------------------------------------
\* RESTARTS

LEMMA StartupCross ==
    ASSUME TypeOK, CrossInv, Startup
    PROVE  CrossInv' /\ \A e \in Episode : ByTable(e)
<1>1. UNCHANGED <<consumer, streak, crossed>> /\ mode # "up" /\ UNCHANGED task
  BY DEF Startup, CloseOrphanJobs, RequeueResumable, EnqueueResumed, workerVars
<1>2. (\A c \in Consumer : consumer[c].pc = "idle") /\ (\A t \in Task : task[t].pc = "idle")
  BY <1>1 DEF CrossInv, IdleUnlessUp
<1>3. IdleUnlessUp' /\ HandlersSee' /\ \A c \in Consumer : RunInv(c)'
  BY <1>1, <1>2 DEF IdleUnlessUp, HandlersSee, RunInv, Busy
<1>4. jobs' = {}
  BY DEF Startup, CloseOrphanJobs, RequeueResumable, EnqueueResumed, databaseVars, CrossInv, JobsKept
<1>5. JobsKept'
  BY <1>4 DEF JobsKept, RunningJobsAreOwned
<1>6. ASSUME NEW e \in Episode
      PROVE  Counted(e)' /\ ByTable(e)
  <2>1. Counted(e) /\ rows[e] \in Row /\ rows \in [Episode -> Row]
    BY DEF CrossInv, TypeOK, DatabaseTypeOK
  <2>2. CASE rows'[e] = rows[e]
    BY <1>1, <2>1, <2>2, CountedKept DEF ByTable
  <2>3. CASE rows'[e] # rows[e]
    <3>1. rows[e].status \in RESUMABLE /\ rows'[e] = [rows[e] EXCEPT !.status = QUEUED]
      BY <2>1, <2>3 DEF Startup, CloseOrphanJobs, RequeueResumable, EnqueueResumed, databaseVars
    <3>2. rows'[e].status = QUEUED /\ SameBudget(rows'[e], rows[e])
      BY <2>1, <3>1, RowFields
    <3>3. rows[e].status # FAILED /\ (rows[e].status = QUEUED \/ CanTransition(rows[e].status, QUEUED))
      BY <3>1, TableMoves DEF RESUMABLE
    <3>4. e \notin crossed' => Consistent(rows'[e])
      BY <1>1, <2>1, <3>2 DEF Counted, Consistent, SameBudget
    <3>5. streak[e] = 0 \/ \E n \in RetrySettings : streak[e] < n + Slack(e)'
      BY <1>1, <2>1, <3>3 DEF Counted, Slack
    <3>6. Counted(e)'
      BY <1>1, <2>1, <3>2, <3>4, <3>5, CountMoves
    <3> QED BY <3>2, <3>3, <3>6 DEF ByTable
  <2> QED BY <2>2, <2>3
<1> QED BY <1>3, <1>5, <1>6 DEF CrossInv

LEMMA StopCross ==
    ASSUME TypeOK, CrossInv, Stop
    PROVE  CrossInv' /\ \A e \in Episode : ByTable(e)
<1>1. /\ \A c \in Consumer : consumer'[c].pc = "idle"
      /\ \A t \in Task : task'[t].pc = "idle"
      /\ UNCHANGED <<rows, streak, crossed>> /\ mode' = "down"
      /\ jobs' = {[j EXCEPT !.by = Nobody] : j \in jobs}
  BY DEF Stop, Idle, NoTask
<1>2. IdleUnlessUp' /\ HandlersSee' /\ \A c \in Consumer : RunInv(c)'
  BY <1>1 DEF IdleUnlessUp, HandlersSee, RunInv, Busy
<1>3. \A j \in jobs : [j EXCEPT !.by = Nobody].ep = j.ep
  BY DEF TypeOK, DatabaseTypeOK, Job
<1>4. JobsKept'
  <2>1. ASSUME NEW k \in jobs'
        PROVE  rows'[k.ep].status # ABSENT
    <3>1. PICK j \in jobs : k.ep = j.ep
      BY <1>1, <1>3
    <3> QED BY <1>1, <3>1 DEF CrossInv, JobsKept
  <2> QED BY <1>1, <2>1 DEF JobsKept, RunningJobsAreOwned
<1>5. \A e \in Episode : Counted(e)' /\ ByTable(e)
  BY <1>1, CountedKept DEF CrossInv, ByTable
<1> QED BY <1>2, <1>4, <1>5 DEF CrossInv

LEMMA CrossInit == Init => CrossInv
<1> SUFFICES ASSUME Init PROVE CrossInv
  OBVIOUS
<1>1. (\A c \in Consumer : consumer[c].pc = "idle") /\ (\A t \in Task : task[t].pc = "idle")
  BY DEF Init, WorkerInit, RequestsInit, Idle, NoTask
<1>2. IdleUnlessUp /\ HandlersSee /\ \A c \in Consumer : RunInv(c)
  BY <1>1 DEF IdleUnlessUp, HandlersSee, RunInv, Busy
<1>3. JobsKept
  BY DEF Init, DatabaseInit, JobsKept, RunningJobsAreOwned
<1>4. \A e \in Episode : rows[e] = NoRow /\ streak[e] = 0 /\ Slack(e) = 0
  BY DEF Init, DatabaseInit, Slack
<1>5. \A e \in Episode : Counted(e)
  BY <1>4, RowFields DEF Counted, Consistent
<1> QED BY <1>2, <1>3, <1>5 DEF CrossInv

-----------------------------------------------------------------------------
\* THE WORKER

\* What a step of a run makes of the row it is on.
RunWrites(c) ==
    LET e   == consumer[c].ep
        row == rows[e]
        new == rows'[e]
    IN
    \/ new = row
    \/ SameBudget(new, row) /\ new.status \in ACTIVE /\ consumer'[c].pc = "work"
    \/ SameBudget(new, row) /\ new.status \in StopStatus /\ consumer'[c].pc = "release"
    \/ /\ new.status = FAILED /\ consumer'[c].pc = "release"
       /\ \/ /\ new.last_failed_step \in Step
             /\ new.retry_count = IF row.last_failed_step = new.last_failed_step
                                  THEN row.retry_count + 1 ELSE 1
          \/ e \in crossed /\ streak[e] = 0
    \/ /\ new.status = PROCESSED /\ consumer'[c].pc = "release"
       /\ e \notin crossed => new.retry_count = 0 /\ new.last_failed_step = None

LEMMA RunWritesStep ==
    ASSUME TypeOK, CrossInv, NEW d \in Consumer, ConsumerStep(d), consumer[d].pc # "idle"
    PROVE  /\ RunWrites(d)
           /\ rows'[consumer[d].ep] # rows[consumer[d].ep] =>
                  consumer[d].pc \in Busy /\ rows[consumer[d].ep].status # ABSENT
<1> DEFINE e   == consumer[d].ep
           row == rows[e]
           old == consumer[d].seen
<1>1. /\ e \in Episode /\ old \in Row /\ rows \in [Episode -> Row] /\ row \in Row
      /\ Stage(d).step \in Step /\ Stage(d).status \in ACTIVE /\ Stage(d).status \in ALL_STATUSES
      /\ consumer[d].outcome \in {"ok", "error"} \union StopStatus
  BY RunTypes DEF ConsumerState
<1>2. Counted(e) /\ (consumer[d].pc \in Busy => Knows(d) /\ (e \notin crossed => Alone(d)))
  BY <1>1 DEF CrossInv, RunInv
<1>3. CASE UNCHANGED rows
  BY <1>3 DEF RunWrites
<1>4. CASE CommitStart(d) /\ Exists(e)
  <2>1. rows'[e] = Update(row, old, [old EXCEPT !.status = Stage(d).status])
    BY <1>1, <1>4 DEF CommitStart
  <2>2. consumer'[d].pc = "work" /\ consumer[d].pc \in Busy
    BY <1>4, GoesTo DEF CommitStart, Busy
  <2>3. rows'[e] = row \/ (rows'[e].status = Stage(d).status /\ SameBudget(rows'[e], row))
    <3> HIDE DEF old, row
    <3>1. LET r == Update(row, old, [old EXCEPT !.status = Stage(d).status]) IN
          r = row \/ (r.status = Stage(d).status /\ SameBudget(r, row))
      BY <1>1, StatusOnly
    <3> QED BY <2>1, <3>1
  <2> QED BY <1>1, <1>4, <2>2, <2>3 DEF RunWrites, Exists
<1>5. CASE CommitEnd(d) /\ OwnJob(d) \in jobs
  <2> DEFINE new == CASE consumer[d].outcome = "ok"         -> old
                      [] consumer[d].outcome = "error"      -> Failed(old, Stage(d).step)
                      [] consumer[d].outcome \in StopStatus -> [old EXCEPT !.status = consumer[d].outcome]
  <2>1. rows'[e] = Update(row, old, new) /\ consumer[d].pc = "close" /\ consumer[d].pc \in Busy
    BY <1>1, <1>5 DEF CommitEnd, Busy
  <2>2. old.status # FAILED /\ (SameBudget(old, row) \/ (e \in crossed /\ streak[e] = 0))
    BY <1>2, <1>5, <2>1 DEF Knows
  <2>3. consumer[d].outcome # "ok" => consumer'[d].pc = "release"
    BY <1>5, GoesTo DEF CommitEnd
  <2>4. row.status # ABSENT
    <3>1. OwnJob(d).ep = e
      BY DEF OwnJob
    <3> QED BY <1>5, <3>1 DEF CrossInv, JobsKept
  <2>5. CASE consumer[d].outcome = "ok"
    <3>1. new = old
      BY <2>5 DEF StopStatus
    <3> HIDE DEF new
    <3>2. rows'[e] = row
      BY <1>1, <2>1, <3>1, UpdateFields, SameRow DEF SameBudget
    <3> QED BY <3>2 DEF RunWrites
  <2>6. CASE consumer[d].outcome = "error"
    <3>1. new = Failed(old, Stage(d).step) /\ new \in Row /\ new.status = FAILED
      BY <1>1, <2>6, FailedType, FailedStatus DEF StopStatus
    <3>2. consumer'[d].pc = "release"
      BY <2>3, <2>6
    <3>3. CASE SameBudget(old, row)
      <4> HIDE DEF new
      <4>1. /\ rows'[e].status = FAILED /\ rows'[e].last_failed_step = Stage(d).step
            /\ rows'[e].retry_count = IF row.last_failed_step = Stage(d).step
                                      THEN row.retry_count + 1 ELSE 1
        BY <1>1, <2>1, <2>2, <3>1, <3>3, FailedFields
      <4> QED BY <1>1, <2>1, <2>4, <3>2, <4>1 DEF RunWrites
    <3>4. CASE e \in crossed /\ streak[e] = 0
      <4> HIDE DEF new
      <4>1. rows'[e].status = FAILED
        BY <1>1, <2>1, <2>2, <3>1, UpdateFields
      <4> QED BY <1>1, <2>1, <2>4, <3>2, <3>4, <4>1 DEF RunWrites
    <3> QED BY <2>2, <3>3, <3>4
  <2>7. CASE consumer[d].outcome \in StopStatus
    <3>1. new = [old EXCEPT !.status = consumer[d].outcome] /\ consumer[d].outcome \in ALL_STATUSES
      BY <2>7 DEF StopStatus
    <3> HIDE DEF new
    <3>2. rows'[e] = row \/ (rows'[e].status = consumer[d].outcome /\ SameBudget(rows'[e], row))
      <4> HIDE DEF old, row
      <4>1. LET r == Update(row, old, [old EXCEPT !.status = consumer[d].outcome]) IN
            r = row \/ (r.status = consumer[d].outcome /\ SameBudget(r, row))
        BY <1>1, <3>1, StatusOnly
      <4> QED BY <2>1, <3>1, <4>1
    <3>3. consumer'[d].pc = "release"
      BY <2>3, <2>7 DEF StopStatus
    <3> QED BY <2>1, <2>4, <2>7, <3>2, <3>3 DEF RunWrites
  <2> QED BY <1>1, <2>5, <2>6, <2>7
<1>6. CASE CommitProcessed(d) /\ Exists(e)
  <2> DEFINE new == NewRow(old.feed, PROCESSED)
  <2>1. /\ rows'[e] = Update(row, old, new) /\ consumer[d].pc = "final" /\ consumer[d].pc \in Busy
        /\ consumer'[d].pc = "release" /\ row.status # ABSENT
    BY <1>1, <1>6, GoesTo DEF CommitProcessed, Busy, Exists
  <2>2. /\ new \in Row /\ new.status = PROCESSED
        /\ new.retry_count = 0 /\ new.last_failed_step = None
    BY <1>1, RowTypes, RowFields DEF Row
  <2> HIDE DEF new
  <2>3. old.status # PROCESSED
    BY <1>2, <2>1, OnlyCuttingEnds DEF Knows
  <2>4. /\ rows'[e].status = PROCESSED
        /\ rows'[e].retry_count = IF 0 # old.retry_count THEN 0 ELSE row.retry_count
        /\ rows'[e].last_failed_step = IF None # old.last_failed_step THEN None ELSE row.last_failed_step
    BY <1>1, <2>1, <2>2, <2>3, UpdateFields
  <2>5. e \notin crossed => rows'[e].retry_count = 0 /\ rows'[e].last_failed_step = None
    BY <1>2, <2>1, <2>4 DEF Alone, Counted, Consistent, SameBudget
  <2> QED BY <2>1, <2>4, <2>5 DEF RunWrites
<1> QED
  BY <1>3, <1>4, <1>5, <1>6 DEF ConsumerStep, Take, Claim, BeginStep, CommitStart, EndStep,
     CommitEnd, FinishRead, CommitProcessed, Release, databaseVars

\* A step of the worker writes the row of its own episode at most.
LEMMA WritesOwn ==
    ASSUME TypeOK, CrossInv, NEW d \in Consumer, ConsumerStep(d), NEW e \in Episode, rows'[e] # rows[e]
    PROVE  /\ consumer[d].ep = e /\ consumer[d].pc # "idle" /\ consumer[d].pc \in Busy
           /\ RunWrites(d) /\ rows[e].status # FAILED /\ rows[e].status # ABSENT
           /\ e \notin crossed => rows[e].status = RunStatus(d)
<1>1. consumer[d].ep = e /\ consumer[d].pc # "idle"
  <2>1. consumer[d].ep = e
    BY OthersKept
  <2>2. ~Take(d)
    BY DEF Take, databaseVars
  <2> QED BY <2>1, <2>2 DEF ConsumerStep, Take, Claim, BeginStep, CommitStart, EndStep,
          CommitEnd, FinishRead, CommitProcessed, Release
<1>2. RunWrites(d) /\ consumer[d].pc \in Busy /\ rows[e].status # ABSENT
  BY <1>1, RunWritesStep
<1> QED BY <1>1, <1>2 DEF CrossInv, RunInv, Knows, Alone

LEMMA CountWorker ==
    ASSUME TypeOK, TypeOK', CrossInv, NEW d \in Consumer, WorkerStep(d), NEW e \in Episode
    PROVE  Counted(e)'
<1>1. /\ rows \in [Episode -> Row] /\ rows[e] \in Row /\ rows'[e] \in Row
      /\ streak \in [Episode -> Nat] /\ streak[e] \in Nat /\ rows[e].retry_count \in Nat
      /\ RetrySettings \subseteq Nat
  BY DatabaseAssumption DEF TypeOK, DatabaseTypeOK, Row
<1>2. Counted(e) /\ ConsumerStep(d) /\ UNCHANGED crossed
  BY DEF CrossInv, WorkerStep
<1>3. streak'[e] = CASE NowFailed(e) -> IF rows[e].last_failed_step = rows'[e].last_failed_step
                                        THEN streak[e] + 1 ELSE 1
                     [] rows'[e].status = PROCESSED -> 0
                     [] OTHER -> streak[e]
  BY DEF WorkerStep, CountFailures
<1>4. Slack(e)' = Slack(e) /\ Slack(e) \in {0, 1} /\ (e \in crossed => Slack(e) = 1)
  BY <1>2 DEF Slack
<1>5. CASE rows'[e] = rows[e]
  BY <1>2, <1>3, <1>5, CountedKept DEF NowFailed
<1>6. CASE rows'[e] # rows[e]
  <2> DEFINE row == rows[e]
             new == rows'[e]
  <2>1. consumer[d].ep = e /\ RunWrites(d) /\ row.status # FAILED
    BY <1>2, <1>6, WritesOwn
  <2>2. streak[e] = 0 \/ \E n \in RetrySettings : streak[e] < n + Slack(e)
    BY <1>2, <2>1 DEF Counted
  <2>3. CASE SameBudget(new, row) /\ new.status \in ACTIVE \union StopStatus
    <3>1. streak'[e] = streak[e] /\ new.status \notin {FAILED, PROCESSED, EXPIRED}
      BY <1>3, <2>3 DEF NowFailed, StopStatus
    <3>2. e \notin crossed' => Consistent(new)
      BY <1>2, <2>3, <3>1 DEF Counted, Consistent, SameBudget
    <3> QED BY <1>2, <1>4, <2>2, <2>3, <3>1, <3>2, CountMoves
  <2>4. CASE /\ new.status = FAILED
             /\ \/ /\ new.last_failed_step \in Step
                   /\ new.retry_count = IF row.last_failed_step = new.last_failed_step
                                        THEN row.retry_count + 1 ELSE 1
                \/ e \in crossed /\ streak[e] = 0
    <3>1. streak'[e] = IF row.last_failed_step = new.last_failed_step THEN streak[e] + 1 ELSE 1
      BY <1>3, <2>1, <2>4 DEF NowFailed
    <3>2. new.retry_count \in Nat /\ (e \notin crossed => new.last_failed_step # None)
      BY <1>1, <2>4 DEF Row, Step
    <3>3. streak[e] <= row.retry_count + Slack(e)
      BY <1>2 DEF Counted
    <3>4. e \notin crossed => new.retry_count # 0
      BY <1>1, <2>4
    <3>5. e \notin crossed' => Consistent(new)
      BY <1>2, <2>4, <3>2, <3>4 DEF Consistent
    <3>6. streak'[e] <= new.retry_count + Slack(e)'
      <4>1. CASE e \in crossed /\ streak[e] = 0
        BY <1>1, <1>4, <3>1, <3>2, <4>1
      <4>2. CASE new.retry_count = IF row.last_failed_step = new.last_failed_step
                                   THEN row.retry_count + 1 ELSE 1
        BY <1>1, <1>4, <3>1, <3>2, <3>3, <4>2
      <4> QED BY <2>4, <4>1, <4>2
    <3>7. \E n \in RetrySettings \union {1} : streak'[e] <= n + Slack(e)'
      <4>1. CASE streak'[e] = 1
        BY <1>4, <4>1
      <4>2. CASE streak'[e] = streak[e] + 1 /\ streak[e] # 0
        <5>1. PICK n \in RetrySettings : streak[e] < n + Slack(e)
          BY <2>2, <4>2
        <5>2. streak'[e] <= n + Slack(e)'
          BY <1>1, <1>4, <4>2, <5>1
        <5> QED BY <5>2
      <4> QED BY <1>1, <3>1, <4>1, <4>2
    <3> QED BY <2>4, <3>5, <3>6, <3>7 DEF Counted
  <2>5. CASE /\ new.status = PROCESSED
             /\ e \notin crossed => new.retry_count = 0 /\ new.last_failed_step = None
    <3>1. streak'[e] = 0
      BY <1>3, <2>5 DEF NowFailed
    <3>2. e \notin crossed' => Consistent(new)
      BY <1>2, <2>5 DEF Consistent
    <3> QED BY <1>1, <3>1, <3>2, CountRestarts
  <2> QED BY <1>6, <2>1, <2>3, <2>4, <2>5 DEF RunWrites
<1> QED BY <1>5, <1>6

\* What a handler has loaded of a row a run writes: the row was not failed
\* when it was written, so its count of failures was nought.
LEMMA HandlersStillSee ==
    ASSUME TypeOK, CrossInv, NEW d \in Consumer, WorkerStep(d)
    PROVE  HandlersSee'
<1>1. ConsumerStep(d) /\ UNCHANGED <<task, crossed>>
  BY DEF WorkerStep
<1> SUFFICES ASSUME NEW t \in Task, task[t].pc = "loaded", NEW e \in task[t].ids
             PROVE  Sees(t, e)'
  BY <1>1 DEF HandlersSee
<1> DEFINE old == task[t].seen[e]
<1>2. Sees(t, e) /\ e \in Episode /\ task[t] \in TaskState /\ task[t].op \in Op \ {"upsert"}
  BY DEF CrossInv, HandlersSee, TypeOK, RequestsTypeOK, TaskState
<1>3. streak'[e] = CASE NowFailed(e) -> IF rows[e].last_failed_step = rows'[e].last_failed_step
                                        THEN streak[e] + 1 ELSE 1
                     [] rows'[e].status = PROCESSED -> 0
                     [] OTHER -> streak[e]
  BY <1>2 DEF WorkerStep, CountFailures
<1>4. CASE rows'[e] = rows[e]
  <2>1. streak'[e] \in {streak[e], 0}
    BY <1>3, <1>4 DEF NowFailed
  <2> QED BY <1>1, <1>2, <1>4, <2>1, SeesKept
<1>5. CASE rows'[e] # rows[e] /\ task[t].op = "requeue"
  <2>1. rows[e].status # FAILED
    BY <1>1, <1>2, <1>5, WritesOwn
  <2>2. /\ streak[e] = 0 /\ old.status = FAILED /\ t = POLL_JOB_ID
        /\ \E n \in RetrySettings : old.retry_count < n
        /\ e \notin crossed => Consistent(old)
    BY <1>2, <1>5, <2>1 DEF Sees, From
  <2>3. old.retry_count \in Nat
    BY <1>2 DEF TaskState, Row
  <2>4. 1 <= old.retry_count + Slack(e)'
    BY <1>1, <2>2, <2>3 DEF Consistent, Slack
  <2>5. CASE NowFailed(e)
    <3>1. streak'[e] = 1
      BY <1>3, <2>2, <2>5 DEF NowFailed
    <3> QED BY <1>1, <1>2, <1>5, <2>2, <2>4, <2>5, <3>1 DEF Sees, NowFailed
  <2>6. CASE ~NowFailed(e)
    <3>1. streak'[e] = 0 /\ rows'[e].status # FAILED
      BY <1>3, <2>1, <2>2, <2>6 DEF NowFailed
    <3> QED BY <1>1, <1>2, <3>1, SeesKept
  <2> QED BY <2>5, <2>6
<1>6. CASE task[t].op # "requeue"
  BY <1>1, <1>2, <1>6, SeesKept
<1> QED BY <1>4, <1>5, <1>6

\* What a step makes of the run that takes it, of its row and of its jobs.
RunMoved(d) ==
    /\ RunInv(d)'
    /\ consumer[d].pc # "idle" /\ consumer[d].ep \notin crossed => ByTable(consumer[d].ep)
    /\ \A j \in jobs' :
           \/ j \in jobs
           \/ j.ep = consumer[d].ep /\ rows'[consumer[d].ep].status # ABSENT
    /\ \A j \in jobs' :
           \/ j.ep \in crossed
           \/ j \in jobs /\ j.by # d
           \/ j.by = d /\ consumer'[d].pc \in {"work", "close"} /\ OwnJob(d)' = j

LEMMA RunMovesOn ==
    ASSUME TypeOK, CrossInv, FinishesAtTheEnd, NEW d \in Consumer, WorkerStep(d)
    PROVE  RunMoved(d)
<1> DEFINE me  == consumer[d]
           e   == me.ep
           row == rows[e]
           old == me.seen
<1>1. /\ RunInv(d) /\ ConsumerStep(d) /\ crossed' = crossed
      /\ consumer \in [Consumer -> ConsumerState] /\ me \in ConsumerState
      /\ me.i \in DOMAIN PipelineFor(me.plan) /\ me.plan \in Plan
  BY DEF CrossInv, TypeOK, WorkerTypeOK, WorkerStep, ConsumerState
<1>2. /\ \A j \in jobs : j.by = d /\ j.ep \notin crossed => me.pc \in {"work", "close"} /\ OwnJob(d) = j
      /\ OwnJob(d) \in jobs => row.status # ABSENT
      /\ OwnJob(d).ep = e /\ OwnJob(d).by = d
      /\ [OwnJob(d) EXCEPT !.by = Nobody].ep = e
  BY DatabaseAssumption DEF CrossInv, JobsKept, RunningJobsAreOwned, WorkerStep, OwnJob
<1>3. me.pc # "idle" =>
          /\ e \in Episode /\ old \in Row /\ row \in Row /\ rows \in [Episode -> Row]
          /\ Stage(d).status \in ACTIVE /\ Stage(d).step \in Step
          /\ RunStatus(d) \in {QUEUED} \union ACTIVE
          /\ me.pc \in {"work", "close", "done", "final"} => RunStatus(d) = Stage(d).status
  BY RunTypes, RunStatuses
<1>4. ASSUME rows' = rows, jobs' = jobs, consumer'[d].pc \in {"taken", "idle", "release"},
             me.pc \notin {"work", "close"} \/ OwnJob(d) \notin jobs
      PROVE  RunMoved(d)
  BY <1>2, <1>4 DEF RunMoved, RunInv, Busy, ByTable
<1>5. CASE Take(d)
  <2>1. consumer'[d].pc = "taken" /\ me.pc = "idle"
    BY <1>1, <1>5 DEF Take, Become, ConsumerState
  <2> QED BY <1>4, <1>5, <2>1 DEF Take, databaseVars
<1>6. CASE Claim(d)
  <2>1. CASE row.status = QUEUED
    <3>1. PICK p \in Plans : Become(d, NewRun(e, p, max_retries))
      BY <1>6, <2>1 DEF Claim
    <3>2. /\ consumer'[d].pc = "begin" /\ consumer'[d].ep = e /\ consumer'[d].i = 1
          /\ rows' = rows /\ jobs' = jobs /\ me.pc = "taken"
      BY <1>1, <1>6, <3>1 DEF Become, NewRun, Claim, databaseVars
    <3>3. RunStatus(d)' = QUEUED
      BY <3>2 DEF RunStatus, WrittenStatus
    <3>4. RunInv(d)'
      BY <2>1, <3>2, <3>3 DEF RunInv, Knows, Alone
    <3> QED BY <1>2, <3>2, <3>4 DEF RunMoved, ByTable
  <2>2. CASE row.status # QUEUED
    BY <1>4, <1>6, <2>2, GoesTo DEF Claim, databaseVars
  <2> QED BY <2>1, <2>2
<1>7. CASE BeginStep(d)
  <2>1. CASE /\ row.status = Stage(d).status \/ CanTransition(row.status, Stage(d).status)
             /\ Become(d, [me EXCEPT !.pc = "start", !.seen = row])
    <3>1. /\ consumer'[d].pc = "start" /\ consumer'[d].ep = e /\ consumer'[d].i = me.i
          /\ consumer'[d].plan = me.plan /\ consumer'[d].seen = row
          /\ rows' = rows /\ jobs' = jobs /\ me.pc = "begin"
      BY <1>1, <1>7, <2>1 DEF Become, ConsumerState, BeginStep, databaseVars
    <3>2. RunStatus(d)' = RunStatus(d)
      BY <3>1, RunsOnwards
    <3>3. row.status # ABSENT
      BY <1>3, <2>1, <3>1, NothingFromAbsent
    <3>4. RunInv(d)'
      BY <1>1, <3>1, <3>2, <3>3 DEF RunInv, Knows, Alone, Busy
    <3> QED BY <1>2, <3>1, <3>4 DEF RunMoved, ByTable
  <2>2. CASE Goto(d, "release")
    BY <1>4, <1>7, <2>2, GoesTo DEF BeginStep, databaseVars
  <2> QED BY <1>7, <2>1, <2>2 DEF BeginStep
<1>8. CASE CommitStart(d) /\ Exists(e)
  <2>1. me.pc = "start" /\ me.pc \in Busy /\ row.status # ABSENT
    BY <1>8 DEF CommitStart, Busy, Exists
  <2>2. /\ rows' = [rows EXCEPT ![e] = Update(@, old, [old EXCEPT !.status = Stage(d).status])]
        /\ jobs' = jobs \union {OwnJob(d)} /\ Goto(d, "work")
    BY <1>8 DEF CommitStart
  <2>3. /\ consumer'[d].pc = "work" /\ consumer'[d].ep = e /\ consumer'[d].i = me.i
        /\ consumer'[d].plan = me.plan
    BY <1>1, <2>2 DEF Goto, Become, ConsumerState
  <2>4. Stage(d)' = Stage(d) /\ OwnJob(d)' = OwnJob(d)
    BY <2>3, RunsOnwards
  <2>5. RunStatus(d)' = Stage(d).status
    BY <1>3, <2>1, <2>3, <2>4 DEF RunStatus, WrittenStatus
  <2>6. rows'[e] = row \/ rows'[e].status \in ACTIVE
    BY <1>1, <2>1, <2>3, RunWritesStep DEF RunWrites
  <2>7. rows'[e].status # FAILED /\ rows'[e].status # ABSENT
    BY <1>1, <2>1, <2>6 DEF RunInv, Knows
  <2>8. ASSUME e \notin crossed
        PROVE  rows'[e].status = Stage(d).status /\ ByTable(e)
    <3>1. row.status = RunStatus(d) /\ old.status = RunStatus(d)
      BY <1>1, <2>1, <2>8 DEF RunInv, Alone
    <3>2. rows'[e].status = Stage(d).status
      <4> DEFINE new == [old EXCEPT !.status = Stage(d).status]
      <4>1. new \in Row /\ new.status = Stage(d).status
        BY <1>3, <2>1 DEF Row
      <4>2. rows'[e] = Update(row, old, new)
        BY <1>3, <2>1, <2>2
      <4> HIDE DEF new
      <4>3. rows'[e].status = IF new.status # old.status THEN new.status ELSE row.status
        BY <1>3, <2>1, <4>1, <4>2, UpdateStatus
      <4> QED BY <3>1, <4>1, <4>3
    <3>3. row.status = Stage(d).status \/ CanTransition(row.status, Stage(d).status)
      <4>1. CASE me.i > 1
        <5>1. PipelineFor(me.plan)[me.i - 1].status \in ACTIVE
          BY <1>1, <4>1, StageOrder, StageType
        <5>2. RunStatus(d) = PipelineFor(me.plan)[me.i - 1].status
          BY <2>1, <4>1, <5>1 DEF RunStatus, WrittenStatus
        <5> QED BY <1>1, <3>1, <4>1, <5>2, StageOrder DEF Stage
      <4>2. CASE ~(me.i > 1)
        <5>1. me.i = 1
          BY <1>1, <4>2 DEF ConsumerState
        <5>2. RunStatus(d) = QUEUED
          BY <2>1, <4>2 DEF RunStatus, WrittenStatus
        <5> QED BY <1>1, <3>1, <5>1, <5>2, TableMoves DEF Stage
      <4> QED BY <4>1, <4>2
    <3> QED BY <3>2, <3>3 DEF ByTable
  <2>9. RunInv(d)'
    BY <1>1, <2>2, <2>3, <2>4, <2>5, <2>7, <2>8 DEF RunInv, Knows, Alone
  <2> QED BY <1>2, <2>1, <2>2, <2>3, <2>4, <2>7, <2>8, <2>9 DEF RunMoved
<1>9. CASE CommitStart(d) /\ ~Exists(e)
  BY <1>4, <1>9, GoesTo DEF CommitStart
<1>10. ASSUME NEW outcome \in {"ok", "error"} \union StopStatus, EndStep(d, outcome)
       PROVE  RunMoved(d)
  <2>1. me.pc = "work" /\ me.pc \in Busy /\ rows' = rows /\ outcome \in Outcome(Stage(d).step)
    BY <1>10 DEF EndStep, Busy
  <2>2. CASE OwnJob(d) \notin jobs
    BY <1>4, <1>10, <2>1, <2>2, GoesTo DEF EndStep
  <2>3. CASE OwnJob(d) \in jobs /\ outcome \in StopStatus /\ ~CanTransition(row.status, outcome)
    <3>1. /\ jobs' = (jobs \ {OwnJob(d)}) \union {[OwnJob(d) EXCEPT !.by = Nobody]}
          /\ consumer'[d].pc = "release"
      BY <1>10, <2>3, GoesTo DEF EndStep
    <3>2. e \in crossed
      <4>1. SUFFICES ASSUME e \notin crossed PROVE FALSE
        OBVIOUS
      <4>2. row.status = Stage(d).status
        BY <1>1, <1>2, <1>3, <2>1, <2>3, <4>1 DEF RunInv, Alone
      <4>3. Stage(d).step = "detect"
        BY <2>1, <2>3 DEF Outcome, StopStatus
      <4> QED BY <1>1, <2>3, <4>2, <4>3, StageOrder DEF Stage
    <3>3. RunInv(d)'
      BY <3>1 DEF RunInv, Busy
    <3>4. \A j \in jobs' : j \in jobs \/ j.ep = e
      BY <1>2, <3>1
    <3>5. ASSUME NEW j \in jobs', j.ep \notin crossed
          PROVE  j \in jobs /\ j.by # d
      BY <1>2, <3>1, <3>2, <3>5
    <3> QED BY <1>2, <2>1, <2>3, <3>3, <3>4, <3>5 DEF RunMoved, ByTable
  <2>4. CASE OwnJob(d) \in jobs /\ (outcome \in StopStatus => CanTransition(row.status, outcome))
    <3>1. Become(d, [me EXCEPT !.pc = "close", !.seen = row, !.outcome = outcome]) /\ jobs' = jobs
      BY <1>10, <2>4 DEF EndStep
    <3>2. /\ consumer'[d].pc = "close" /\ consumer'[d].ep = e /\ consumer'[d].i = me.i
          /\ consumer'[d].plan = me.plan /\ consumer'[d].seen = row /\ consumer'[d].outcome = outcome
      BY <1>1, <3>1 DEF Become, ConsumerState
    <3>3. OwnJob(d)' = OwnJob(d) /\ RunStatus(d)' = RunStatus(d)
      BY <2>1, <3>2, RunsOnwards
    <3>4. RunInv(d)'
      BY <1>1, <1>2, <2>1, <2>4, <3>1, <3>2, <3>3 DEF RunInv, Knows, Alone, SameBudget
    <3> QED BY <1>2, <2>1, <3>1, <3>2, <3>3, <3>4 DEF RunMoved, ByTable
  <2> QED BY <2>2, <2>3, <2>4
<1>11. CASE CommitEnd(d) /\ OwnJob(d) \notin jobs
  BY <1>4, <1>11, GoesTo DEF CommitEnd
<1>12. CASE CommitEnd(d) /\ OwnJob(d) \in jobs
  <2>1. /\ me.pc = "close" /\ me.pc \in Busy /\ jobs' = jobs \ {OwnJob(d)} /\ row.status # ABSENT
        /\ me.outcome \in StopStatus => CanTransition(old.status, me.outcome)
        /\ me.outcome \in {"ok", "error"} \union StopStatus
    BY <1>1, <1>2, <1>12 DEF CommitEnd, RunInv, Knows, Busy, ConsumerState
  <2>2. jobs' \subseteq jobs /\ \A j \in jobs' : j.ep \in crossed \/ j.by # d
    BY <1>2, <2>1
  <2>3. CASE me.outcome # "ok"
    <3>1. consumer'[d].pc = "release"
      BY <1>12, <2>3, GoesTo DEF CommitEnd
    <3>2. ASSUME e \notin crossed
          PROVE  ByTable(e)
      <4>1. row.status = RunStatus(d) /\ old.status = RunStatus(d) /\ row.status \in ACTIVE
        BY <1>1, <1>3, <2>1, <3>2 DEF RunInv, Alone
      <4> DEFINE new == CASE me.outcome = "ok"         -> old
                          [] me.outcome = "error"      -> Failed(old, Stage(d).step)
                          [] me.outcome \in StopStatus -> [old EXCEPT !.status = me.outcome]
      <4>2. rows'[e] = Update(row, old, new)
        BY <1>3, <1>12, <2>1 DEF CommitEnd
      <4>3. new \in Row /\ (new.status = FAILED \/ (me.outcome \in StopStatus /\ new.status = me.outcome))
        <5>1. CASE me.outcome = "error"
          <6>1. new = Failed(old, Stage(d).step)
            BY <5>1 DEF StopStatus
          <6> HIDE DEF new
          <6>2. new \in Row
            BY <1>3, <2>1, <6>1, FailedType
          <6>3. new.status = FAILED
            BY <1>3, <2>1, <6>1, FailedStatus
          <6> QED BY <6>2, <6>3
        <5>2. CASE me.outcome \in StopStatus
          <6>1. new = [old EXCEPT !.status = me.outcome]
            BY <5>2 DEF StopStatus
          <6>2. new \in Row /\ new.status = me.outcome
            BY <1>3, <2>1, <5>2, <6>1 DEF Row, StopStatus
          <6> QED BY <5>2, <6>2
        <5> QED BY <2>1, <2>3, <5>1, <5>2
      <4> HIDE DEF new
      <4>4. rows'[e].status = IF new.status # old.status THEN new.status ELSE row.status
        BY <1>3, <2>1, <4>2, <4>3, UpdateStatus
      <4> QED BY <2>1, <4>1, <4>3, <4>4, TableMoves DEF ByTable
    <3>3. RunInv(d)'
      BY <3>1 DEF RunInv, Busy
    <3> QED BY <2>2, <3>2, <3>3 DEF RunMoved
  <2>4. CASE me.outcome = "ok"
    <3> DEFINE last == me.i = Len(PipelineFor(me.plan))
               next == [me EXCEPT !.pc = IF last THEN "done" ELSE "begin",
                                  !.i = IF last THEN @ ELSE @ + 1, !.seen = NoRow]
    <3>1. Become(d, next)
      BY <1>12, <2>1, <2>4 DEF CommitEnd
    <3>2. me.i \in 1..6
      BY <1>1 DEF ConsumerState
    <3>3. /\ next.ep = e /\ next.plan = me.plan
          /\ last => next.pc = "done" /\ next.i = me.i
          /\ ~last => next.pc = "begin" /\ next.i = me.i + 1 /\ next.i > 1 /\ next.i - 1 = me.i
      BY <1>1, <3>2 DEF ConsumerState
    <3> HIDE DEF next, last
    <3>4. consumer'[d] = next
      BY <1>1, <3>1 DEF Become
    <3>5. RunStatus(d)' = RunStatus(d)
      <4>1. WrittenStatus(d)' = Stage(d).status
        BY <3>3, <3>4 DEF WrittenStatus, Stage
      <4> QED BY <1>3, <2>1, <4>1 DEF RunStatus
    <3>6. consumer'[d].ep = e /\ consumer'[d].pc \in {"done", "begin"}
      BY <3>3, <3>4
    <3>7. rows'[e] = row
      BY <1>1, <2>1, <3>6, RunWritesStep DEF RunWrites
    <3>8. RunInv(d)'
      BY <1>1, <2>1, <3>5, <3>6, <3>7 DEF RunInv, Knows, Alone
    <3> QED BY <2>2, <3>7, <3>8 DEF RunMoved, ByTable
  <2> QED BY <2>3, <2>4
<1>13. CASE FinishRead(d)
  <2>1. CASE CanTransition(row.status, PROCESSED) /\ Become(d, [me EXCEPT !.pc = "final", !.seen = row])
    <3>1. /\ consumer'[d].pc = "final" /\ consumer'[d].ep = e /\ consumer'[d].i = me.i
          /\ consumer'[d].plan = me.plan /\ consumer'[d].seen = row
          /\ rows' = rows /\ jobs' = jobs /\ me.pc = "done"
      BY <1>1, <1>13, <2>1 DEF Become, ConsumerState, FinishRead, databaseVars
    <3>2. RunStatus(d)' = RunStatus(d)
      BY <3>1, RunsOnwards
    <3>3. row.status # ABSENT
      BY <2>1, NothingFromAbsent
    <3>4. RunInv(d)'
      BY <1>1, <2>1, <3>1, <3>2, <3>3 DEF RunInv, Knows, Alone, SameBudget, Busy
    <3> QED BY <1>2, <3>1, <3>4 DEF RunMoved, ByTable
  <2>2. CASE Goto(d, "release")
    BY <1>4, <1>13, <2>2, GoesTo DEF FinishRead, databaseVars
  <2> QED BY <1>13, <2>1, <2>2 DEF FinishRead
<1>14. CASE CommitProcessed(d)
  <2>1. /\ me.pc = "final" /\ me.pc \in Busy /\ consumer'[d].pc = "release" /\ jobs' = jobs
        /\ CanTransition(old.status, PROCESSED)
    BY <1>1, <1>14, GoesTo DEF CommitProcessed, RunInv, Knows, Busy
  <2>2. ASSUME e \notin crossed
        PROVE  ByTable(e)
    <3>1. CASE Exists(e)
      <4>1. row.status = old.status
        BY <1>1, <2>1, <2>2, <3>1 DEF RunInv, Alone, Exists
      <4>2. rows'[e] = Update(row, old, NewRow(old.feed, PROCESSED))
        BY <1>3, <1>14, <2>1, <3>1 DEF CommitProcessed
      <4>3. NewRow(old.feed, PROCESSED) \in Row /\ NewRow(old.feed, PROCESSED).status = PROCESSED
        BY <1>3, <2>1, RowTypes, RowFields DEF Row
      <4>4. rows'[e].status = IF PROCESSED # old.status THEN PROCESSED ELSE row.status
        BY <1>3, <2>1, <4>2, <4>3, UpdateStatus
      <4> QED BY <2>1, <4>1, <4>4 DEF ByTable
    <3>2. CASE ~Exists(e)
      BY <1>14, <3>2 DEF CommitProcessed, ByTable
    <3> QED BY <3>1, <3>2
  <2>3. RunInv(d)'
    BY <2>1 DEF RunInv, Busy
  <2> QED BY <1>2, <2>1, <2>2, <2>3 DEF RunMoved
<1>15. CASE Release(d)
  <2>1. consumer'[d].pc = "idle" /\ me.pc = "release"
    BY <1>1, <1>15 DEF Release, Become, Idle
  <2> QED BY <1>4, <1>15, <2>1 DEF Release, databaseVars
<1> QED
  BY <1>1, <1>5, <1>6, <1>7, <1>8, <1>9, <1>10, <1>11, <1>12, <1>13, <1>14, <1>15 DEF ConsumerStep

\* The runs that have not moved: they are on other episodes.
LEMMA OthersServed ==
    ASSUME TypeOK, OneRunPerEpisode, NEW d \in Consumer, WorkerStep(d),
           NEW c \in Consumer \ {d}, consumer[c].pc \in Busy
    PROVE  Served(c)
<1> DEFINE e == consumer[c].ep
<1>1. ConsumerStep(d) /\ consumer[c].pc # "idle" /\ e \in Episode
  BY RunTypes DEF WorkerStep, Busy
<1>2. rows'[e] = rows[e]
  <2>1. CASE consumer[d].pc = "idle"
    BY <1>1, <2>1 DEF ConsumerStep, Take, Claim, BeginStep, CommitStart, EndStep, CommitEnd,
                FinishRead, CommitProcessed, Release, databaseVars
  <2>2. CASE consumer[d].pc # "idle"
    <3>1. e # consumer[d].ep
      BY <1>1, <2>2 DEF OneRunPerEpisode
    <3> QED BY <1>1, <3>1, OthersKept
  <2> QED BY <2>1, <2>2
<1>3. streak'[e] \in {streak[e], 0}
  BY <1>1, <1>2 DEF WorkerStep, CountFailures, NowFailed
<1>4. OwnJob(c) # OwnJob(d) /\ OwnJob(c) # [OwnJob(d) EXCEPT !.by = Nobody]
  <2>1. OwnJob(c).by = c /\ OwnJob(d).by = d /\ [OwnJob(d) EXCEPT !.by = Nobody].by = Nobody
    BY DEF OwnJob
  <2> QED BY <2>1, DatabaseAssumption
<1>5. \/ jobs' = jobs \/ jobs' = jobs \union {OwnJob(d)} \/ jobs' = jobs \ {OwnJob(d)}
      \/ jobs' = (jobs \ {OwnJob(d)}) \union {[OwnJob(d) EXCEPT !.by = Nobody]}
  BY <1>1 DEF ConsumerStep, Take, Claim, BeginStep, CommitStart, EndStep, CommitEnd, FinishRead,
              CommitProcessed, Release, databaseVars
<1>6. (OwnJob(c) \in jobs') = (OwnJob(c) \in jobs)
  <2> DEFINE mine   == OwnJob(c)
             its    == OwnJob(d)
             orphan == [OwnJob(d) EXCEPT !.by = Nobody]
  <2>1. /\ mine # its /\ mine # orphan
        /\ \/ jobs' = jobs \/ jobs' = jobs \union {its} \/ jobs' = jobs \ {its}
           \/ jobs' = (jobs \ {its}) \union {orphan}
    BY <1>4, <1>5
  <2> HIDE DEF mine, its, orphan
  <2>2. (mine \in jobs') = (mine \in jobs)
    BY <2>1
  <2> QED BY <2>2 DEF mine
<1> QED BY <1>2, <1>3, <1>6 DEF Served

LEMMA WorkerCross ==
    ASSUME TypeOK, TypeOK', OneRunPerEpisode, CrossInv, FinishesAtTheEnd,
           NEW d \in Consumer, WorkerStep(d)
    PROVE  CrossInv' /\ \A e \in Episode \ crossed' : ByTable(e)
<1>1. /\ ConsumerStep(d) /\ UNCHANGED <<task, mode, crossed>> /\ mode = "up" /\ RunMoved(d)
      /\ \A c \in Consumer \ {d} : consumer'[c] = consumer[c]
  BY RunMovesOn, OthersKept DEF WorkerStep
<1>2. ASSUME NEW c \in Consumer
      PROVE  RunInv(c)'
  <2>1. CASE c = d
    BY <1>1, <2>1 DEF RunMoved
  <2>2. CASE c # d
    BY <1>1, <2>2, OthersServed, RunKept DEF CrossInv
  <2> QED BY <2>1, <2>2
<1>3. JobsKept'
  <2>1. ASSUME NEW j \in jobs'
        PROVE  rows'[j.ep].status # ABSENT
    <3>1. CASE j \in jobs
      <4>1. j.ep \in Episode /\ rows[j.ep].status # ABSENT
        BY <3>1 DEF CrossInv, JobsKept, TypeOK, DatabaseTypeOK, Job
      <4>2. CASE rows'[j.ep] # rows[j.ep]
        <5>1. consumer[d].ep = j.ep /\ RunWrites(d)
          BY <1>1, <4>1, <4>2, WritesOwn
        <5> QED BY <4>2, <5>1 DEF RunWrites, StopStatus
      <4> QED BY <4>1, <4>2
    <3>2. CASE j.ep = consumer[d].ep /\ rows'[consumer[d].ep].status # ABSENT
      BY <3>2
    <3> QED BY <1>1, <3>1, <3>2 DEF RunMoved
  <2>2. ASSUME NEW j \in jobs', j.ep \notin crossed
        PROVE  j.by # Nobody /\ consumer'[j.by].pc \in {"work", "close"} /\ OwnJob(j.by)' = j
    <3>1. CASE j.by = d
      BY <1>1, <2>2, <3>1, DatabaseAssumption DEF RunMoved
    <3>2. CASE j \in jobs /\ j.by # d
      <4>1. /\ j.by # Nobody /\ consumer[j.by].pc \in {"work", "close"} /\ OwnJob(j.by) = j
            /\ j.by \in Consumer
        BY <1>1, <2>2, <3>2 DEF CrossInv, JobsKept, RunningJobsAreOwned, TypeOK, DatabaseTypeOK, Job
      <4>2. consumer'[j.by] = consumer[j.by]
        BY <1>1, <3>2, <4>1
      <4> QED BY <4>1, <4>2 DEF OwnJob, Stage
    <3> QED BY <1>1, <2>2, <3>1, <3>2 DEF RunMoved
  <2> QED BY <1>1, <2>1, <2>2 DEF JobsKept, RunningJobsAreOwned
<1>4. \A e \in Episode \ crossed' : ByTable(e)
  <2> SUFFICES ASSUME NEW e \in Episode \ crossed, rows'[e] # rows[e] PROVE ByTable(e)
    BY <1>1 DEF ByTable
  <2>1. consumer[d].ep = e /\ consumer[d].pc # "idle"
    BY <1>1, WritesOwn
  <2> QED BY <1>1, <2>1 DEF RunMoved
<1>5. \A e \in Episode : Counted(e)'
  BY CountWorker
<1> QED BY <1>1, <1>2, <1>3, <1>4, <1>5, HandlersStillSee DEF CrossInv, IdleUnlessUp

-----------------------------------------------------------------------------
\* THE THEOREMS

LEMMA CrossNext ==
    ASSUME TypeOK, TypeOK', OneRunPerEpisode, FinishesAtTheEnd, CrossInv, [Next]_vars
    PROVE  CrossInv' /\ \A e \in Episode \ crossed' : ByTable(e)
<1>1. CASE UNCHANGED vars
  <2>1. UNCHANGED <<rows, jobs, max_retries, consumer, task, mode, streak, crossed>>
    BY <1>1 DEF vars, databaseVars, workerVars
  <2>2. HandlersSee' /\ IdleUnlessUp' /\ JobsKept' /\ \A e \in Episode : Counted(e)'
    BY <2>1 DEF CrossInv, HandlersSee, Sees, Slack, IdleUnlessUp, JobsKept, RunningJobsAreOwned,
                OwnJob, Stage, Counted
  <2>3. \A c \in Consumer : RunInv(c)'
    BY <2>1, RunKept DEF CrossInv, Served
  <2> QED BY <2>1, <2>2, <2>3 DEF CrossInv, ByTable
<1>2. ASSUME NEW t \in Task, HandlerStep(t)
      PROVE  CrossInv' /\ \A e \in Episode \ crossed' : ByTable(e)
  <2>1. CASE Commits(t)
    BY <2>1, CommitCross
  <2>2. CASE Enqueue(t) /\ UNCHANGED <<streak, crossed, mode>> /\ mode = "up"
    BY <2>2, EnqueueCross DEF Enqueue, databaseVars, ByTable
  <2> QED BY <1>2, <2>1, <2>2 DEF HandlerStep, Commits
<1> QED
  BY <1>1, <1>2, StartupCross, StopCross, WorkerCross, UserCross, SchedulerCross, UpsertCross DEF Next

LEMMA ActiveInvariant == Spec => [](TypeOK /\ OneRunPerEpisode /\ ActiveInv)
<1> QED BY TypeCorrect, OneRun, ActiveInit, ActiveNext, PTL DEF Spec

LEMMA CrossInvariant == Spec => []CrossInv
<1>1. TypeOK /\ TypeOK' /\ OneRunPerEpisode /\ ActiveInv /\ CrossInv /\ [Next]_vars => CrossInv'
  BY CrossNext DEF ActiveInv
<1> QED BY <1>1, CrossInit, ActiveInvariant, PTL DEF Spec

\* The two columns of the retry budget are never split or carried over,
\* whatever fails, restarts, is deleted or is loaded by many handlers at a
\* time, as long as no handler commits over a status it had not loaded.
THEOREM BudgetConsistent == Spec => []BudgetIsConsistent
<1>1. CrossInv => BudgetIsConsistent
  BY DEF CrossInv, Counted, Consistent, BudgetIsConsistent
<1> QED BY <1>1, CrossInvariant, PTL

\* No step is run into failure more often in a row than the largest budget a
\* user has set (once, if that is 0) without anybody asking for it, however
\* the scheduled requeue, the requests and the runs overlap; an overlap that
\* loses an update costs one more failure at most.
THEOREM AutoRetryBounded == Spec => []AutoRetryIsBounded
<1>1. TypeOK /\ CrossInv => AutoRetryIsBounded
  <2> SUFFICES ASSUME TypeOK, CrossInv, NEW e \in Episode
               PROVE  \E n \in RetrySettings \union {1} :
                          streak[e] <= IF e \in crossed THEN n + 1 ELSE n
    BY DEF AutoRetryIsBounded
  <2>1. PICK n \in RetrySettings \union {1} : streak[e] <= n + Slack(e)
    BY DEF CrossInv, Counted
  <2>2. n \in Nat /\ streak[e] \in Nat
    BY DatabaseAssumption DEF TypeOK
  <2> QED BY <2>1, <2>2 DEF Slack
<1> QED BY <1>1, TypeCorrect, CrossInvariant, PTL

\* A job shown as running is that of a consumer in it, for every episode no
\* handler committed over: no run leaves its job row behind, also not one
\* whose feed was deleted and whose id was given out again, and a restart
\* closes those it cut off before anybody can see them.
THEOREM JobsOwned == Spec => []RunningJobsAreOwned
<1>1. CrossInv => RunningJobsAreOwned
  BY DEF CrossInv, JobsKept
<1> QED BY <1>1, CrossInvariant, PTL

\* A status that is committed is one the table of legal moves allows after
\* the one it replaces, although runs and handlers check the table on rows
\* they loaded earlier, unless a handler has committed over a status that it
\* had not loaded.
THEOREM StatusesFollowTable == Spec => FollowsTableUnlessCrossed
<1> DEFINE Legal == \A e \in Episode \ crossed' : ByTable(e)
<1>1. TypeOK /\ TypeOK' /\ OneRunPerEpisode /\ ActiveInv /\ CrossInv /\ [Next]_vars => [Legal]_vars
  BY CrossNext DEF ActiveInv
<1> QED
  BY <1>1, TypeCorrect, ActiveInvariant, CrossInvariant, PTL DEF Spec, FollowsTableUnlessCrossed
=============================================================================
