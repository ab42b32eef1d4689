--------------------------- MODULE PipelineProofs ---------------------------
(***************************************************************************)
(* What Pipeline keeps for every number of consumers, requests, feeds and  *)
(* episodes.  First the types of its variables, one lemma per action: the  *)
(* retry counters are natural numbers without an upper bound, so nothing   *)
(* depends on RetryBound or MaxId being small.  Then, that an episode is   *)
(* never run twice at a time: OneRunPerEpisode is inductive (given the     *)
(* types), because every change of the queue goes through one of four      *)
(* operations, enqueue, take, release and stop.  From this follows that    *)
(* the worker implements WorkSet.                                          *)
(***************************************************************************)
EXTENDS Pipeline, FiniteSetTheorems, TLAPS

-----------------------------------------------------------------------------
\* Writing back the changed attributes of a row leaves a row.
LEMMA UpdateType ==
    ASSUME NEW row \in Row, NEW old \in Row, NEW new \in Row
    PROVE  Update(row, old, new) \in Row
BY DEF Update, Row

LEMMA RowTypes ==
    /\ NoRow \in Row
    /\ \A f \in Feed \union {None}, s \in ALL_STATUSES : NewRow(f, s) \in Row
BY DEF NoRow, NewRow, Row

\* Every stage of either pipeline names a step and an active status.
LEMMA StageType ==
    ASSUME NEW w \in Plan, NEW i \in DOMAIN PipelineFor(w)
    PROVE  /\ i \in 1..6
           /\ PipelineFor(w)[i].step \in Step
           /\ PipelineFor(w)[i].status \in ACTIVE
<1>1. CASE w = "whitelisted"
  <2>1. DOMAIN PipelineFor(w) = 1..3
    BY <1>1 DEF PipelineFor, WHITELISTED_PIPELINE
  <2>2. i = 1 \/ i = 2 \/ i = 3
    BY <2>1
  <2>3. QED
    BY <1>1, <2>2 DEF PipelineFor, WHITELISTED_PIPELINE, Step, ACTIVE
<1>2. CASE w # "whitelisted"
  <2>1. DOMAIN PipelineFor(w) = 1..6
    BY <1>2 DEF PipelineFor, FULL_PIPELINE
  <2>2. i = 1 \/ i = 2 \/ i = 3 \/ i = 4 \/ i = 5 \/ i = 6
    BY <2>1
  <2>3. QED
    BY <1>2, <2>2 DEF PipelineFor, FULL_PIPELINE, Step, ACTIVE
<1>3. QED
  BY <1>1, <1>2

LEMMA NextStage ==
    ASSUME NEW w \in Plan, NEW i \in DOMAIN PipelineFor(w)
    PROVE  /\ 1 \in DOMAIN PipelineFor(w)
           /\ i # Len(PipelineFor(w)) => i + 1 \in DOMAIN PipelineFor(w)
<1>1. CASE w = "whitelisted"
  BY <1>1 DEF PipelineFor, WHITELISTED_PIPELINE
<1>2. CASE w # "whitelisted"
  BY <1>2 DEF PipelineFor, FULL_PIPELINE
<1>3. QED
  BY <1>1, <1>2

\* enqueue appends each new id once.
LEMMA EnqueueOrder ==
    ASSUME NEW new \in SUBSET Episode,
           NEW order \in Bijection(1..Cardinality(new), new)
    PROVE  /\ order \in Seq(Episode)
           /\ DOMAIN order = 1..Len(order)
           /\ Range(order) = new
           /\ \A i, j \in DOMAIN order : order[i] = order[j] => i = j
<1>1. IsFiniteSet(new)
  <2>1. 1 \in Int /\ MaxId \in Int
    BY DatabaseAssumption
  <2>2. IsFiniteSet(Episode)
    BY <2>1, FS_Interval DEF Episode
  <2>3. QED
    BY <2>2, FS_Subset
<1>2. Cardinality(new) \in Nat
  BY <1>1, FS_CardinalityType
<1>3. order \in [1..Cardinality(new) -> new]
  BY DEF Bijection, Injection
<1>4. /\ \A i, j \in 1..Cardinality(new) : order[i] = order[j] => i = j
      /\ \A e \in new : \E i \in 1..Cardinality(new) : order[i] = e
  BY DEF Bijection, Injection, Surjection, IsInjective
<1>5. order \in Seq(Episode) /\ Len(order) = Cardinality(new)
  BY <1>2, <1>3
<1>6. QED
  BY <1>2, <1>3, <1>4, <1>5 DEF Range

-----------------------------------------------------------------------------
\* TYPE CORRECTNESS

\* A consumer in a state it may be in; the worker's typing says that all are.
ConsumerOK(state) ==
    /\ state \in ConsumerState
    /\ state.i \in DOMAIN PipelineFor(state.plan)
    /\ state.pc # "idle" => state.ep \in Episode

LEMMA BecomeType ==
    ASSUME TypeOK, NEW c \in Consumer, NEW state, ConsumerOK(state), Become(c, state),
           queue' \in Seq(Episode), pending' \in SUBSET Episode, notified' \in SUBSET Episode
    PROVE  WorkerTypeOK'
BY DEF TypeOK, WorkerTypeOK, Become, ConsumerOK

LEMMA GotoType ==
    ASSUME TypeOK, NEW c \in Consumer, consumer[c].pc # "idle", NEW pc \in PC, Goto(c, pc),
           queue' = queue, pending' = pending, notified' \in SUBSET Episode
    PROVE  WorkerTypeOK'
<1>1. ConsumerOK([consumer[c] EXCEPT !.pc = pc, !.seen = NoRow, !.outcome = "ok"])
  BY RowTypes DEF TypeOK, WorkerTypeOK, ConsumerOK, ConsumerState
<1>2. QED
  BY <1>1, BecomeType DEF Goto, TypeOK, WorkerTypeOK

\* Writing a row back keeps the table a table.
LEMMA WriteRowType ==
    ASSUME TypeOK, NEW e \in Episode, NEW old \in Row, NEW new \in Row,
           rows' = [rows EXCEPT ![e] = Update(@, old, new)]
    PROVE  rows' \in [Episode -> Row]
<1>1. Update(rows[e], old, new) \in Row
  BY UpdateType DEF TypeOK, DatabaseTypeOK
<1>2. QED
  BY <1>1 DEF TypeOK, DatabaseTypeOK

LEMMA FailedType ==
    ASSUME NEW row \in Row, NEW step \in Step
    PROVE  Failed(row, step) \in Row
<1> DEFINE count == IF row.last_failed_step = step THEN row.retry_count + 1 ELSE 1
<1>1. count \in Nat
  BY DEF Row
<1>2. FAILED \in ALL_STATUSES
  BY DEF ALL_STATUSES
<1> HIDE DEF count
<1>3. [row EXCEPT !.status = FAILED, !.retry_count = count, !.last_failed_step = step] \in Row
  BY <1>1, <1>2 DEF Row
<1>4. QED
  BY <1>3 DEF Failed, count

\* A consumer that starts a run.
LEMMA NewRunType ==
    ASSUME NEW e \in Episode, NEW p \in Plan, NEW n \in RetrySettings
    PROVE  ConsumerOK(NewRun(e, p, n))
<1>1. 1 \in DOMAIN PipelineFor(p)
  BY DEF PipelineFor, FULL_PIPELINE, WHITELISTED_PIPELINE
<1>2. QED
  BY <1>1, RowTypes DEF ConsumerOK, ConsumerState, NewRun, PC

LEMMA IdleOK == ConsumerOK(Idle)
<1>1. Idle.i \in DOMAIN PipelineFor(Idle.plan)
  BY DEF Idle, PipelineFor, FULL_PIPELINE
<1>2. Idle \in ConsumerState
  BY RowTypes DEF ConsumerState, Idle, PC, Plan
<1>3. QED
  BY <1>1, <1>2 DEF ConsumerOK, Idle

LEMMA WorkerStepType ==
    ASSUME TypeOK, NEW c \in Consumer, WorkerStep(c)
    PROVE  TypeOK'
<1> DEFINE e == consumer[c].ep
           me == consumer[c]
<1>1. UNCHANGED <<task, mode>> /\ ConsumerStep(c) /\ CountFailures
  BY DEF WorkerStep
<1>2. RequestsTypeOK' /\ mode' \in Mode /\ streak' \in [Episode -> Nat] /\ crossed' \in SUBSET Episode
  BY <1>1 DEF WorkerStep, TypeOK, RequestsTypeOK, TaskState, CountFailures
<1>3. me \in ConsumerState /\ me.i \in DOMAIN PipelineFor(me.plan)
  BY DEF TypeOK, WorkerTypeOK
<1>4. me.plan \in Plan /\ me.seen \in Row
  BY <1>3 DEF ConsumerState
<1>5. Stage(c).step \in Step /\ Stage(c).status \in ACTIVE
  BY <1>3, <1>4, StageType DEF Stage
<1>6. me.pc # "idle" => e \in Episode /\ rows[e] \in Row /\ (me.pc # "taken" => OwnJob(c) \in Job)
  BY <1>5 DEF TypeOK, WorkerTypeOK, DatabaseTypeOK, OwnJob, Job
<1>7. SUFFICES DatabaseTypeOK' /\ WorkerTypeOK'
  BY <1>2 DEF TypeOK
<1>8. /\ rows \in [Episode -> Row] /\ jobs \in SUBSET Job /\ max_retries \in RetrySettings
      /\ queue \in Seq(Episode) /\ pending \in SUBSET Episode /\ notified \in SUBSET Episode
  BY DEF TypeOK, DatabaseTypeOK, WorkerTypeOK
<1>9. CASE Take(c)
  <2>1. Head(queue) \in Episode /\ Tail(queue) \in Seq(Episode)
    BY <1>8, <1>9 DEF Take
  <2>2. ConsumerOK([me EXCEPT !.pc = "taken", !.ep = Head(queue)])
    BY <1>3, <2>1 DEF ConsumerOK, ConsumerState, PC
  <2>3. QED
    BY <1>8, <1>9, <2>1, <2>2, BecomeType DEF Take, DatabaseTypeOK, databaseVars
<1>10. CASE Claim(c)
  <2>1. DatabaseTypeOK' /\ UNCHANGED <<queue, pending, notified>>
    BY <1>8, <1>10 DEF Claim, DatabaseTypeOK, databaseVars
  <2>2. CASE rows[e].status = QUEUED
    <3>1. PICK p \in Plans : Become(c, NewRun(e, p, max_retries))
      BY <1>10, <2>2 DEF Claim
    <3>2. p \in Plan
      BY WorkerAssumption
    <3>3. ConsumerOK(NewRun(e, p, max_retries))
      BY <1>3, <1>6, <1>8, <1>10, <3>2, NewRunType DEF Claim
    <3>4. QED
      BY <1>8, <2>1, <3>1, <3>3, BecomeType
  <2>3. CASE rows[e].status # QUEUED
    BY <1>8, <1>10, <2>1, <2>3, GotoType DEF Claim, PC
  <2>4. QED
    BY <2>2, <2>3
<1>11. CASE BeginStep(c)
  <2>1. DatabaseTypeOK' /\ UNCHANGED <<queue, pending, notified>> /\ me.pc = "begin"
    BY <1>8, <1>11 DEF BeginStep, DatabaseTypeOK, databaseVars
  <2>2. CASE Become(c, [me EXCEPT !.pc = "start", !.seen = rows[e]])
    <3>1. ConsumerOK([me EXCEPT !.pc = "start", !.seen = rows[e]])
      BY <1>3, <1>6, <2>1 DEF ConsumerOK, ConsumerState, PC
    <3>2. QED
      BY <1>8, <2>1, <2>2, <3>1, BecomeType
  <2>3. CASE Goto(c, "release")
    BY <1>8, <2>1, <2>3, GotoType DEF PC
  <2>4. QED
    BY <1>11, <2>2, <2>3 DEF BeginStep
<1>12. CASE CommitStart(c)
  <2>1. me.pc = "start" /\ UNCHANGED <<max_retries, queue, pending, notified>>
    BY <1>12 DEF CommitStart
  <2>2. [me.seen EXCEPT !.status = Stage(c).status] \in Row
    BY <1>4, <1>5 DEF Row, ALL_STATUSES
  <2>3. rows' \in [Episode -> Row]
    BY <1>4, <1>6, <1>8, <1>12, <2>1, <2>2, WriteRowType DEF CommitStart
  <2>4. jobs' \in SUBSET Job
    BY <1>6, <1>8, <1>12, <2>1 DEF CommitStart
  <2>5. WorkerTypeOK'
    BY <1>8, <1>12, <2>1, GotoType DEF CommitStart, PC
  <2>6. QED
    BY <1>8, <2>1, <2>3, <2>4, <2>5 DEF DatabaseTypeOK
<1>13. ASSUME NEW outcome \in {"ok", "error"} \union StopStatus, EndStep(c, outcome)
       PROVE  DatabaseTypeOK' /\ WorkerTypeOK'
  <2>1. me.pc = "work" /\ UNCHANGED <<rows, max_retries, queue, pending>> /\ notified' \in SUBSET Episode
    BY <1>6, <1>8, <1>13 DEF EndStep
  <2>2. [OwnJob(c) EXCEPT !.by = Nobody] \in Job
    BY <1>6, <2>1 DEF Job
  <2>3. jobs' \in SUBSET Job
    BY <1>8, <1>13, <2>2 DEF EndStep
  <2>4. CASE Become(c, [me EXCEPT !.pc = "close", !.seen = rows[e], !.outcome = outcome])
    <3>1. ConsumerOK([me EXCEPT !.pc = "close", !.seen = rows[e], !.outcome = outcome])
      BY <1>3, <1>6, <1>13, <2>1 DEF ConsumerOK, ConsumerState, PC
    <3>2. QED
      BY <1>8, <2>1, <2>3, <2>4, <3>1, BecomeType DEF DatabaseTypeOK
  <2>5. CASE Goto(c, "release")
    BY <1>8, <2>1, <2>3, <2>5, GotoType DEF PC, DatabaseTypeOK
  <2>6. QED
    BY <1>13, <2>4, <2>5 DEF EndStep
<1>14. CASE CommitEnd(c)
  <2> DEFINE last == me.i = Len(PipelineFor(me.plan))
             next == [me EXCEPT !.pc = IF last THEN "done" ELSE "begin",
                                !.i = IF last THEN @ ELSE @ + 1, !.seen = NoRow]
  <2>1. me.pc = "close" /\ UNCHANGED <<max_retries, queue, pending, notified>>
    BY <1>14 DEF CommitEnd
  <2>2. me.outcome \in {"ok", "error"} \union StopStatus
    BY <1>3 DEF ConsumerState
  <2>3. Failed(me.seen, Stage(c).step) \in Row
    BY <1>4, <1>5, FailedType
  <2>4. me.outcome \in StopStatus => [me.seen EXCEPT !.status = me.outcome] \in Row
    BY <1>4 DEF Row, ALL_STATUSES, StopStatus
  <2>5. DatabaseTypeOK'
    <3>1. CASE OwnJob(c) \notin jobs
      BY <1>8, <1>14, <2>1, <3>1 DEF CommitEnd, DatabaseTypeOK
    <3>2. CASE OwnJob(c) \in jobs
      <4>1. PICK new \in Row : rows' = [rows EXCEPT ![e] = Update(@, me.seen, new)]
        BY <1>4, <1>14, <2>2, <2>3, <2>4, <3>2 DEF CommitEnd, StopStatus, REVIEW, SKIPPED
      <4>2. rows' \in [Episode -> Row]
        BY <1>4, <1>6, <2>1, <4>1, WriteRowType
      <4>3. QED
        BY <1>8, <1>14, <2>1, <3>2, <4>2 DEF CommitEnd, DatabaseTypeOK
    <3>3. QED
      BY <3>1, <3>2
  <2>6. CASE Goto(c, "release")
    BY <1>8, <2>1, <2>5, <2>6, GotoType DEF PC
  <2>7. CASE Become(c, next)
    <3>1. next.i \in DOMAIN PipelineFor(me.plan)
      BY <1>3, <1>4, NextStage DEF ConsumerState
    <3>2. next.i \in 1..6
      BY <1>4, <3>1, StageType
    <3>3. next \in ConsumerState /\ next.plan = me.plan /\ next.ep = e
      BY <1>3, <1>4, <3>2, RowTypes DEF ConsumerState, PC
    <3>4. ConsumerOK(next)
      BY <1>6, <2>1, <3>1, <3>3 DEF ConsumerOK
    <3>5. QED
      BY <1>8, <2>1, <2>5, <2>7, <3>4, BecomeType
  <2>8. QED
    BY <1>14, <2>6, <2>7 DEF CommitEnd
<1>15. CASE FinishRead(c)
  <2>1. DatabaseTypeOK' /\ UNCHANGED <<queue, pending, notified>> /\ me.pc = "done"
    BY <1>8, <1>15 DEF FinishRead, DatabaseTypeOK, databaseVars
  <2>2. CASE Become(c, [me EXCEPT !.pc = "final", !.seen = rows[e]])
    <3>1. ConsumerOK([me EXCEPT !.pc = "final", !.seen = rows[e]])
      BY <1>3, <1>6, <2>1 DEF ConsumerOK, ConsumerState, PC
    <3>2. QED
      BY <1>8, <2>1, <2>2, <3>1, BecomeType
  <2>3. CASE Goto(c, "release")
    BY <1>8, <2>1, <2>3, GotoType DEF PC
  <2>4. QED
    BY <1>15, <2>2, <2>3 DEF FinishRead
<1>16. CASE CommitProcessed(c)
  <2>1. me.pc = "final" /\ UNCHANGED <<jobs, max_retries, queue, pending, notified>> /\ Goto(c, "release")
    BY <1>16 DEF CommitProcessed
  <2>2. NewRow(me.seen.feed, PROCESSED) \in Row
    BY <1>4, RowTypes DEF Row, ALL_STATUSES
  <2>3. rows' \in [Episode -> Row]
    BY <1>4, <1>6, <1>8, <1>16, <2>1, <2>2, WriteRowType DEF CommitProcessed
  <2>4. QED
    BY <1>8, <2>1, <2>3, GotoType DEF PC, DatabaseTypeOK
<1>17. CASE Release(c)
  BY <1>8, <1>17, IdleOK, BecomeType DEF Release, DatabaseTypeOK, databaseVars
<1>18. QED
  BY <1>1, <1>9, <1>10, <1>11, <1>12, <1>13, <1>14, <1>15, <1>16, <1>17 DEF ConsumerStep

LEMMA NoTaskType == NoTask \in TaskState /\ NoTask.pc # "loaded"
BY RowTypes DEF NoTask, TaskState, Op, Unseen

\* The tasks are typed when one of them moves to a typed state.
LEMMA TaskMoves ==
    ASSUME TypeOK, NEW t \in Task, NEW state \in TaskState,
           state.pc = "loaded" => state.op # "upsert",
           task' = [task EXCEPT ![t] = state]
    PROVE  RequestsTypeOK'
BY DEF TypeOK, RequestsTypeOK

LEMMA LoadType ==
    ASSUME TypeOK, NEW t \in Task, NEW op \in Op \ {"upsert"}, NEW ids \in SUBSET Episode,
           Load(t, op, ids)
    PROVE  DatabaseTypeOK' /\ WorkerTypeOK' /\ RequestsTypeOK'
<1> DEFINE seen  == [e \in Episode |-> IF e \in ids THEN rows[e] ELSE NoRow]
           state == [pc |-> "loaded", op |-> op, ids |-> ids, seen |-> seen]
<1>1. seen \in [Episode -> Row]
  BY RowTypes DEF TypeOK, DatabaseTypeOK
<1>2. state \in TaskState
  BY <1>1 DEF TaskState
<1>3. RequestsTypeOK'
  BY <1>2, TaskMoves DEF Load
<1>4. QED
  BY <1>3 DEF Load, TypeOK, DatabaseTypeOK, WorkerTypeOK, databaseVars, workerVars

LEMMA AssignedType ==
    ASSUME NEW op \in Op \ {"upsert"}, NEW row \in Row
    PROVE  Assigned(op, row) \in Row
<1>1. \A s \in ALL_STATUSES : [row EXCEPT !.status = s] \in Row
  BY DEF Row
<1>2. {QUEUED, SKIPPED, EXPIRED} \subseteq ALL_STATUSES
  BY DEF ALL_STATUSES
<1>3. NewRow(row.feed, QUEUED) \in Row
  BY <1>2, RowTypes DEF Row
<1>4. QED
  BY <1>1, <1>2, <1>3 DEF Assigned, Op

LEMMA CommitType ==
    ASSUME TypeOK, NEW t \in Task, Commit(t)
    PROVE  DatabaseTypeOK' /\ WorkerTypeOK' /\ RequestsTypeOK'
<1> DEFINE ids  == task[t].ids
           seen == task[t].seen
           new  == [e \in ids |-> Assigned(task[t].op, seen[e])]
<1>1. /\ task[t] \in TaskState /\ task[t].pc = "loaded" /\ task[t].op # "upsert"
      /\ ids \in SUBSET Episode /\ seen \in [Episode -> Row] /\ task[t].op \in Op
  BY DEF TypeOK, RequestsTypeOK, Commit, TaskState
<1>2. \A e \in ids : seen[e] \in Row /\ new[e] \in Row
  BY <1>1, AssignedType
<1>3. rows' \in [Episode -> Row]
  <2>1. CASE Flush(ids, seen, new)
    <3>1. \A e \in ids : Update(rows[e], seen[e], new[e]) \in Row
      BY <1>1, <1>2, UpdateType DEF TypeOK, DatabaseTypeOK
    <3>2. QED
      BY <2>1, <3>1 DEF Flush, TypeOK, DatabaseTypeOK
  <2>2. CASE UNCHANGED rows
    BY <2>2 DEF TypeOK, DatabaseTypeOK
  <2>3. QED
    BY <2>1, <2>2 DEF Commit
<1>4. RequestsTypeOK'
  <2>1. CASE task' = [task EXCEPT ![t] = NoTask]
    BY <2>1, NoTaskType, TaskMoves
  <2>2. CASE task' = [task EXCEPT ![t] = [task[t] EXCEPT !.pc = "enqueue", !.seen = Unseen]]
    <3>1. [task[t] EXCEPT !.pc = "enqueue", !.seen = Unseen] \in TaskState
      BY <1>1, RowTypes DEF TaskState, Unseen
    <3>2. [task[t] EXCEPT !.pc = "enqueue", !.seen = Unseen].pc # "loaded"
      BY <1>1 DEF TaskState
    <3>3. QED
      BY <2>2, <3>1, <3>2, TaskMoves
  <2>3. QED
    BY <2>1, <2>2 DEF Commit
<1>5. QED
  BY <1>3, <1>4 DEF Commit, TypeOK, DatabaseTypeOK, WorkerTypeOK, workerVars

\* What enqueue leaves of the queue and the dedup set.
LEMMA EnqueueAllType ==
    ASSUME TypeOK, NEW ids \in SUBSET Episode, EnqueueAll(ids)
    PROVE  queue' \in Seq(Episode) /\ pending' \in SUBSET Episode
<1> DEFINE new == ids \ pending
<1>1. PICK order \in Bijection(1..Cardinality(new), new) : queue' = queue \o order
  BY DEF EnqueueAll
<1>2. new \in SUBSET Episode
  OBVIOUS
<1> HIDE DEF new
<1>3. order \in Seq(Episode)
  BY <1>1, <1>2, EnqueueOrder
<1>4. QED
  BY <1>1, <1>2, <1>3 DEF EnqueueAll, TypeOK, WorkerTypeOK, new

LEMMA EnqueueType ==
    ASSUME TypeOK, NEW t \in Task, Enqueue(t)
    PROVE  DatabaseTypeOK' /\ WorkerTypeOK' /\ RequestsTypeOK'
<1>1. task[t].ids \in SUBSET Episode
  BY DEF TypeOK, RequestsTypeOK, TaskState
<1>2. queue' \in Seq(Episode) /\ pending' \in SUBSET Episode
  BY <1>1, EnqueueAllType DEF Enqueue
<1>3. RequestsTypeOK'
  BY NoTaskType, TaskMoves DEF Enqueue
<1>4. QED
  BY <1>2, <1>3 DEF Enqueue, TypeOK, DatabaseTypeOK, WorkerTypeOK, databaseVars

LEMMA UpsertType ==
    ASSUME TypeOK, NEW t \in Task, NEW f \in Feed, Upsert(t, f)
    PROVE  DatabaseTypeOK' /\ WorkerTypeOK' /\ RequestsTypeOK'
<1>1. PICK last \in NextId..MaxId :
      \E status \in [{e \in Episode : NextId <= e /\ e <= last} ->
              IF \E e \in Episode : rows[e].feed = f THEN {QUEUED, SKIPPED} ELSE {SKIPPED}] :
          LET queued == {e \in DOMAIN status : status[e] = QUEUED} IN
          /\ rows' = [e \in Episode |-> IF e \in DOMAIN status THEN NewRow(f, status[e]) ELSE rows[e]]
          /\ task' = [task EXCEPT ![t] =
                IF queued = {} THEN NoTask
                ELSE [pc |-> "enqueue", op |-> "upsert", ids |-> queued, seen |-> Unseen]]
  BY DEF Upsert
<1> DEFINE new == {e \in Episode : NextId <= e /\ e <= last}
           allowed == IF \E e \in Episode : rows[e].feed = f THEN {QUEUED, SKIPPED} ELSE {SKIPPED}
<1>7. PICK status \in [new -> allowed] :
          LET queued == {e \in DOMAIN status : status[e] = QUEUED} IN
          /\ rows' = [e \in Episode |-> IF e \in DOMAIN status THEN NewRow(f, status[e]) ELSE rows[e]]
          /\ task' = [task EXCEPT ![t] =
                IF queued = {} THEN NoTask
                ELSE [pc |-> "enqueue", op |-> "upsert", ids |-> queued, seen |-> Unseen]]
  BY <1>1
<1> DEFINE queued == {e \in DOMAIN status : status[e] = QUEUED}
<1>2. \A e \in DOMAIN status : NewRow(f, status[e]) \in Row
  <2>1. \A e \in DOMAIN status : status[e] \in {QUEUED, SKIPPED}
    BY <1>7
  <2>2. QED
    BY <2>1, RowTypes DEF ALL_STATUSES
<1>3. rows' \in [Episode -> Row]
  BY <1>7, <1>2 DEF TypeOK, DatabaseTypeOK
<1>4. queued \in SUBSET Episode
  BY <1>7
<1>5. RequestsTypeOK'
  <2>1. [pc |-> "enqueue", op |-> "upsert", ids |-> queued, seen |-> Unseen] \in TaskState
    BY <1>4, RowTypes DEF TaskState, Op, Unseen
  <2>2. QED
    BY <1>7, <2>1, NoTaskType, TaskMoves
<1>6. QED
  BY <1>3, <1>5 DEF Upsert, TypeOK, DatabaseTypeOK, WorkerTypeOK, workerVars

LEMMA DeleteFeedType ==
    ASSUME TypeOK, NEW r \in Request, NEW f \in Feed, DeleteFeed(r, f)
    PROVE  DatabaseTypeOK' /\ WorkerTypeOK' /\ RequestsTypeOK'
BY RowTypes DEF DeleteFeed, TypeOK, DatabaseTypeOK, WorkerTypeOK, RequestsTypeOK, workerVars

LEMMA UserStepType ==
    ASSUME TypeOK, NEW r \in Request, UserStep(r)
    PROVE  TypeOK'
<1>1. mode' \in Mode /\ streak' \in [Episode -> Nat] /\ crossed' \in SUBSET Episode /\ r \in Task /\ UserRequest(r)
  BY DEF UserStep, ForgetFailures, TypeOK, Task
<1>2. SUFFICES DatabaseTypeOK' /\ WorkerTypeOK' /\ RequestsTypeOK'
  BY <1>1 DEF TypeOK
<1>3. ASSUME NEW e \in Episode,
             \/ QueueEpisode(r, e, PROCESS_FROM) \/ QueueEpisode(r, e, RETRY_FROM)
             \/ DismissEpisode(r, e) \/ ReprocessEpisode(r, e)
      PROVE  DatabaseTypeOK' /\ WorkerTypeOK' /\ RequestsTypeOK'
  BY <1>1, <1>3, LoadType DEF QueueEpisode, DismissEpisode, ReprocessEpisode, Op
<1>4. ASSUME NEW feeds, DismissFailed(r, feeds)
      PROVE  DatabaseTypeOK' /\ WorkerTypeOK' /\ RequestsTypeOK'
  BY <1>1, <1>4, LoadType DEF DismissFailed, Op
<1>5. ASSUME NEW n \in RetrySettings, SetMaxRetries(r, n)
      PROVE  DatabaseTypeOK' /\ WorkerTypeOK' /\ RequestsTypeOK'
  BY <1>5 DEF SetMaxRetries, TypeOK, DatabaseTypeOK, WorkerTypeOK, RequestsTypeOK, workerVars
<1>6. QED
  BY <1>1, <1>3, <1>4, <1>5, DeleteFeedType DEF UserRequest

LEMMA SchedulerStepType ==
    ASSUME TypeOK, SchedulerStep
    PROVE  TypeOK'
<1>1. mode' \in Mode /\ streak' \in [Episode -> Nat] /\ crossed' \in SUBSET Episode
  BY DEF SchedulerStep, TypeOK
<1>2. POLL_JOB_ID \in Task /\ CLEANUP_JOB_ID \in Task
  BY DEF Task
<1>3. CASE RequeueFailed
  BY <1>1, <1>2, <1>3, LoadType DEF RequeueFailed, Op, TypeOK
<1>4. CASE ExpireProcessed
  <2>1. PICK ids \in SUBSET {e \in Episode : rows[e].status = PROCESSED} :
               Load(CLEANUP_JOB_ID, "expire", ids)
    BY <1>4 DEF ExpireProcessed
  <2>2. QED
    BY <1>1, <1>2, <2>1, LoadType DEF Op, TypeOK
<1>5. QED
  BY <1>3, <1>4 DEF SchedulerStep, SchedulerJob

LEMMA StartupType ==
    ASSUME TypeOK, Startup
    PROVE  TypeOK'
<1>1. CASE CloseOrphanJobs
  BY <1>1 DEF CloseOrphanJobs, TypeOK, DatabaseTypeOK, WorkerTypeOK, RequestsTypeOK, Mode, workerVars
<1>2. CASE RequeueResumable
  <2>1. \A e \in Episode : [rows[e] EXCEPT !.status = QUEUED] \in Row
    BY DEF TypeOK, DatabaseTypeOK, Row, ALL_STATUSES
  <2>2. rows' \in [Episode -> Row]
    BY <1>2, <2>1 DEF RequeueResumable, TypeOK, DatabaseTypeOK
  <2>3. QED
    BY <1>2, <2>2 DEF RequeueResumable, TypeOK, DatabaseTypeOK, WorkerTypeOK, RequestsTypeOK,
                      Mode, workerVars
<1>3. CASE EnqueueResumed
  <2>1. queue' \in Seq(Episode) /\ pending' \in SUBSET Episode
    BY <1>3, EnqueueAllType DEF EnqueueResumed
  <2>2. QED
    BY <1>3, <2>1 DEF EnqueueResumed, TypeOK, DatabaseTypeOK, WorkerTypeOK, RequestsTypeOK,
                      Mode, databaseVars
<1>4. QED
  BY <1>1, <1>2, <1>3 DEF Startup

LEMMA StopType ==
    ASSUME TypeOK, Stop
    PROVE  TypeOK'
<1>1. jobs' \in SUBSET Job
  BY DEF Stop, TypeOK, DatabaseTypeOK, Job
<1>2. WorkerTypeOK'
  BY IdleOK DEF Stop, TypeOK, WorkerTypeOK, ConsumerOK
<1>3. RequestsTypeOK'
  BY NoTaskType DEF Stop, RequestsTypeOK
<1>4. QED
  BY <1>1, <1>2, <1>3 DEF Stop, TypeOK, DatabaseTypeOK, Mode

LEMMA InitType == Init => TypeOK
<1> SUFFICES ASSUME Init PROVE TypeOK
  OBVIOUS
<1>1. DatabaseTypeOK
  BY RowTypes DEF Init, DatabaseInit, DatabaseTypeOK
<1>2. WorkerTypeOK
  BY IdleOK DEF Init, WorkerInit, WorkerTypeOK, ConsumerOK
<1>3. RequestsTypeOK
  BY NoTaskType DEF Init, RequestsInit, RequestsTypeOK
<1>4. QED
  BY <1>1, <1>2, <1>3 DEF Init, TypeOK, Mode

LEMMA NextType == TypeOK /\ [Next]_vars => TypeOK'
<1> SUFFICES ASSUME TypeOK, [Next]_vars PROVE TypeOK'
  OBVIOUS
<1>1. CASE UNCHANGED vars
  BY <1>1 DEF vars, databaseVars, workerVars, TypeOK, DatabaseTypeOK, WorkerTypeOK, RequestsTypeOK
<1>2. ASSUME NEW t \in Task, HandlerStep(t)
      PROVE  TypeOK'
  <2>1. mode' \in Mode /\ streak' \in [Episode -> Nat]
    BY <1>2 DEF HandlerStep, ForgetFailures, TypeOK
  <2>2. crossed' \in SUBSET Episode
    BY <1>2 DEF HandlerStep, TypeOK, RequestsTypeOK, TaskState
  <2>3. QED
    BY <1>2, <2>1, <2>2, CommitType, EnqueueType DEF HandlerStep, TypeOK
<1>3. ASSUME NEW t \in Task, NEW f \in Feed, PollStep(t, f)
      PROVE  TypeOK'
  <2>1. mode' \in Mode /\ streak' \in [Episode -> Nat]
    BY <1>3 DEF PollStep, ForgetFailures, TypeOK
  <2>2. crossed' \in SUBSET Episode
    BY <1>3 DEF PollStep, TypeOK, WorkerTypeOK, Running
  <2>3. QED
    BY <1>3, <2>1, <2>2, UpsertType DEF PollStep, TypeOK
<1>4. QED
  BY <1>1, <1>2, <1>3, StartupType, StopType, WorkerStepType, UserStepType, SchedulerStepType DEF Next

\* In every reachable state the tables, the queue, the consumers and the
\* handlers hold what they are declared to hold, for every size of the system.
THEOREM TypeCorrect == Spec => []TypeOK
<1>1. QED
  BY InitType, NextType, PTL DEF Spec

-----------------------------------------------------------------------------
\* SEQUENCES WITHOUT REPETITION

Distinct(s) == \A i, j \in DOMAIN s : s[i] = s[j] => i = j

\* Taking the head off such a sequence takes exactly that element out.
LEMMA TailDistinct ==
    ASSUME NEW S, NEW s \in Seq(S), s # <<>>, Distinct(s)
    PROVE  /\ Distinct(Tail(s))
           /\ Head(s) \in Range(s)
           /\ Range(Tail(s)) = Range(s) \ {Head(s)}
<1>1. /\ Len(s) \in Nat \ {0} /\ DOMAIN s = 1..Len(s)
      /\ DOMAIN Tail(s) = 1..(Len(s) - 1)
      /\ Head(s) = s[1]
      /\ \A i \in 1..(Len(s) - 1) : Tail(s)[i] = s[i + 1]
  OBVIOUS
<1>2. Distinct(Tail(s))
  BY <1>1 DEF Distinct
<1>3. Head(s) \in Range(s)
  BY <1>1 DEF Range
<1>4. Range(Tail(s)) \subseteq Range(s) \ {Head(s)}
  BY <1>1 DEF Range, Distinct
<1>5. ASSUME NEW x \in Range(s) \ {Head(s)}
      PROVE  x \in Range(Tail(s))
  <2>1. PICK i \in 1..Len(s) : s[i] = x
    BY <1>1 DEF Range
  <2>2. i - 1 \in 1..(Len(s) - 1) /\ Tail(s)[i - 1] = x
    BY <1>1, <1>5, <2>1
  <2>3. QED
    BY <1>1, <2>2 DEF Range
<1>6. QED
  BY <1>2, <1>3, <1>4, <1>5

\* Appending a sequence of other elements.
LEMMA ConcatDistinct ==
    ASSUME NEW S, NEW s \in Seq(S), NEW t \in Seq(S),
           Distinct(s), Distinct(t), Range(s) \intersect Range(t) = {}
    PROVE  Distinct(s \o t) /\ Range(s \o t) = Range(s) \union Range(t)
<1>1. /\ Len(s) \in Nat /\ Len(t) \in Nat
      /\ DOMAIN s = 1..Len(s) /\ DOMAIN t = 1..Len(t)
      /\ DOMAIN (s \o t) = 1..(Len(s) + Len(t))
      /\ \A i \in 1..(Len(s) + Len(t)) : (s \o t)[i] = IF i <= Len(s) THEN s[i] ELSE t[i - Len(s)]
  OBVIOUS
<1>2. \A i \in 1..(Len(s) + Len(t)) : i > Len(s) => i - Len(s) \in DOMAIN t
  BY <1>1
<1>3. \A i \in DOMAIN s, j \in DOMAIN t : s[i] # t[j]
  BY DEF Range
<1>4. Distinct(s \o t)
  <2>1. SUFFICES ASSUME NEW i \in DOMAIN (s \o t), NEW j \in DOMAIN (s \o t),
                        (s \o t)[i] = (s \o t)[j]
                 PROVE  i = j
    BY DEF Distinct
  <2>2. CASE i <= Len(s) /\ j <= Len(s)
    BY <1>1, <2>1, <2>2 DEF Distinct
  <2>3. CASE i > Len(s) /\ j > Len(s)
    <3>1. i - Len(s) = j - Len(s)
      BY <1>1, <1>2, <2>1, <2>3 DEF Distinct
    <3>2. QED
      BY <1>1, <3>1
  <2>4. CASE (i <= Len(s) /\ j > Len(s)) \/ (i > Len(s) /\ j <= Len(s))
    BY <1>1, <1>2, <1>3, <2>1, <2>4
  <2>5. QED
    BY <1>1, <2>2, <2>3, <2>4
<1>5. Range(s \o t) \subseteq Range(s) \union Range(t)
  BY <1>1, <1>2 DEF Range
<1>6. Range(s) \subseteq Range(s \o t)
  BY <1>1 DEF Range
<1>7. Range(t) \subseteq Range(s \o t)
  <2>1. SUFFICES ASSUME NEW j \in DOMAIN t PROVE t[j] \in Range(s \o t)
    BY DEF Range
  <2>2. Len(s) + j \in DOMAIN (s \o t) /\ (s \o t)[Len(s) + j] = t[j]
    BY <1>1
  <2>3. QED
    BY <2>2 DEF Range
<1>8. QED
  BY <1>4, <1>5, <1>6, <1>7

-----------------------------------------------------------------------------
\* ONE RUN PER EPISODE

\* A consumer that stays with its episode, or stays idle, changes nothing of
\* what is running.
SameRuns ==
    \A d \in Consumer :
        (consumer'[d].pc = "idle") = (consumer[d].pc = "idle") /\ consumer'[d].ep = consumer[d].ep

LEMMA SameRunning == SameRuns => Running' = Running
BY DEF SameRuns, Running

LEMMA OneRunKept ==
    ASSUME OneRunPerEpisode, SameRuns, UNCHANGED <<queue, pending>>
    PROVE  OneRunPerEpisode'
BY SameRunning DEF OneRunPerEpisode, SameRuns

\* A step of a consumer that neither takes an episode nor lets go of one.
LEMMA SameRunsStep ==
    ASSUME TypeOK, NEW c \in Consumer, ConsumerStep(c)
    PROVE  Take(c) \/ Release(c) \/ (SameRuns /\ UNCHANGED <<queue, pending>>)
<1>1. consumer \in [Consumer -> ConsumerState] /\ consumer[c] \in ConsumerState
  BY DEF TypeOK, WorkerTypeOK
<1>2. ASSUME NEW state, Become(c, state), state.pc # "idle", consumer[c].pc # "idle",
             state.ep = consumer[c].ep
      PROVE  SameRuns
  BY <1>1, <1>2 DEF Become, SameRuns
<1>3. ASSUME NEW pc, pc # "idle", consumer[c].pc # "idle", Goto(c, pc)
      PROVE  SameRuns
  <2>1. Become(c, [consumer[c] EXCEPT !.pc = pc, !.seen = NoRow, !.outcome = "ok"])
    BY <1>3 DEF Goto
  <2>2. QED
    BY <1>1, <1>2, <1>3, <2>1 DEF ConsumerState
<1>4. CASE Claim(c)
  <2>1. consumer[c].pc # "idle" /\ UNCHANGED <<queue, pending>>
    BY <1>4 DEF Claim
  <2>2. \A p : NewRun(consumer[c].ep, p, max_retries).pc = "begin"
            /\ NewRun(consumer[c].ep, p, max_retries).ep = consumer[c].ep
    BY DEF NewRun
  <2>3. SameRuns
    BY <1>2, <1>3, <1>4, <2>1, <2>2 DEF Claim
  <2>4. QED
    BY <2>1, <2>3
<1>5. CASE BeginStep(c)
  <2>1. consumer[c].pc # "idle" /\ UNCHANGED <<queue, pending>>
    BY <1>5 DEF BeginStep
  <2>2. QED
    BY <1>1, <1>2, <1>3, <1>5, <2>1 DEF BeginStep, ConsumerState
<1>6. CASE CommitStart(c)
  BY <1>3, <1>6 DEF CommitStart
<1>7. ASSUME NEW outcome, EndStep(c, outcome)
      PROVE  SameRuns /\ UNCHANGED <<queue, pending>>
  <2>1. consumer[c].pc # "idle" /\ UNCHANGED <<queue, pending>>
    BY <1>7 DEF EndStep
  <2>2. QED
    BY <1>1, <1>2, <1>3, <1>7, <2>1 DEF EndStep, ConsumerState
<1>8. CASE CommitEnd(c)
  <2>1. consumer[c].pc # "idle" /\ UNCHANGED <<queue, pending>>
    BY <1>8 DEF CommitEnd
  <2>2. QED
    BY <1>1, <1>2, <1>3, <1>8, <2>1 DEF CommitEnd, ConsumerState
<1>9. CASE FinishRead(c)
  <2>1. consumer[c].pc # "idle" /\ UNCHANGED <<queue, pending>>
    BY <1>9 DEF FinishRead
  <2>2. QED
    BY <1>1, <1>2, <1>3, <1>9, <2>1 DEF FinishRead, ConsumerState
<1>10. CASE CommitProcessed(c)
  BY <1>3, <1>10 DEF CommitProcessed
<1>11. QED
  BY <1>4, <1>5, <1>6, <1>7, <1>8, <1>9, <1>10 DEF ConsumerStep

LEMMA OneRunTake ==
    ASSUME TypeOK, OneRunPerEpisode, NEW c \in Consumer, Take(c)
    PROVE  OneRunPerEpisode'
<1> DEFINE e == Head(queue)
<1>1. /\ consumer[c].pc = "idle" /\ queue # <<>> /\ queue' = Tail(queue) /\ pending' = pending
      /\ consumer \in [Consumer -> ConsumerState] /\ queue \in Seq(Episode)
      /\ consumer' = [consumer EXCEPT ![c] = [consumer[c] EXCEPT !.pc = "taken", !.ep = e]]
  BY DEF Take, Become, TypeOK, WorkerTypeOK
<1>2. consumer'[c].pc = "taken" /\ consumer'[c].ep = e
  BY <1>1 DEF ConsumerState
<1>3. \A d \in Consumer \ {c} : consumer'[d] = consumer[d]
  BY <1>1
<1>4. Distinct(queue)
  BY DEF OneRunPerEpisode, Distinct
<1>5. Distinct(queue') /\ e \in Range(queue) /\ Range(queue') = Range(queue) \ {e}
  BY <1>1, <1>4, TailDistinct
<1>6. Running' = Running \union {e}
  BY <1>1, <1>2, <1>3 DEF Running
<1>7. e \notin Running
  BY <1>5 DEF OneRunPerEpisode
<1>8. \A d \in Consumer : consumer[d].pc # "idle" => consumer[d].ep # e
  BY <1>7 DEF Running
<1>9. QED
  BY <1>1, <1>2, <1>3, <1>5, <1>6, <1>7, <1>8 DEF OneRunPerEpisode, Distinct

LEMMA OneRunRelease ==
    ASSUME TypeOK, OneRunPerEpisode, NEW c \in Consumer, Release(c)
    PROVE  OneRunPerEpisode'
<1> DEFINE e == consumer[c].ep
<1>1. /\ consumer[c].pc = "release" /\ pending' = pending \ {e} /\ queue' = queue
      /\ consumer' = [consumer EXCEPT ![c] = Idle]
      /\ consumer \in [Consumer -> ConsumerState]
  BY DEF Release, Become, TypeOK, WorkerTypeOK
<1>2. consumer'[c].pc = "idle" /\ \A d \in Consumer \ {c} : consumer'[d] = consumer[d]
  BY <1>1 DEF Idle
<1>3. \A d \in Consumer \ {c} : consumer[d].pc # "idle" => consumer[d].ep # e
  BY <1>1 DEF OneRunPerEpisode
<1>4. Running' = Running \ {e} /\ e \in Running
  BY <1>1, <1>2, <1>3 DEF Running
<1>5. QED
  BY <1>1, <1>2, <1>4 DEF OneRunPerEpisode

LEMMA OneRunEnqueue ==
    ASSUME TypeOK, OneRunPerEpisode, NEW ids \in SUBSET Episode, EnqueueAll(ids),
           UNCHANGED consumer
    PROVE  OneRunPerEpisode'
<1> DEFINE new == ids \ pending
<1>1. PICK order \in Bijection(1..Cardinality(new), new) : queue' = queue \o order
  BY DEF EnqueueAll
<1>2. new \in SUBSET Episode /\ pending' = pending \union new
  BY DEF EnqueueAll
<1>3. Range(queue) \subseteq pending /\ Running \subseteq pending /\ new \intersect pending = {}
  BY DEF OneRunPerEpisode
<1> HIDE DEF new
<1>4. order \in Seq(Episode) /\ Distinct(order) /\ Range(order) = new
  BY <1>2, <1>1, EnqueueOrder DEF Distinct
<1>5. Distinct(queue) /\ queue \in Seq(Episode)
  BY DEF OneRunPerEpisode, Distinct, TypeOK, WorkerTypeOK
<1>6. Distinct(queue') /\ Range(queue') = Range(queue) \union new
  BY <1>1, <1>3, <1>4, <1>5, ConcatDistinct
<1>7. Running' = Running
  BY DEF Running
<1>8. QED
  BY <1>2, <1>3, <1>6, <1>7 DEF OneRunPerEpisode, Distinct

LEMMA OneRunInit == Init => OneRunPerEpisode
BY DEF Init, WorkerInit, OneRunPerEpisode, Idle, Running, Range

LEMMA OneRunNext == TypeOK /\ OneRunPerEpisode /\ [Next]_vars => OneRunPerEpisode'
<1> SUFFICES ASSUME TypeOK, OneRunPerEpisode, [Next]_vars PROVE OneRunPerEpisode'
  OBVIOUS
<1>1. CASE UNCHANGED <<queue, pending, consumer>>
  BY <1>1, OneRunKept DEF SameRuns
<1>2. CASE Startup
  BY <1>1, <1>2, OneRunEnqueue DEF Startup, CloseOrphanJobs, RequeueResumable, EnqueueResumed, workerVars
<1>3. CASE Stop
  BY <1>3 DEF Stop, OneRunPerEpisode, Idle, Running, Range
<1>4. ASSUME NEW c \in Consumer, WorkerStep(c)
      PROVE  OneRunPerEpisode'
  BY <1>4, SameRunsStep, OneRunKept, OneRunTake, OneRunRelease DEF WorkerStep
<1>5. ASSUME NEW t \in Task, HandlerStep(t)
      PROVE  OneRunPerEpisode'
  <2>1. task[t].ids \in SUBSET Episode
    BY DEF TypeOK, RequestsTypeOK, TaskState
  <2>2. QED
    BY <1>1, <1>5, <2>1, OneRunEnqueue DEF HandlerStep, Commit, Enqueue, workerVars
<1>6. ASSUME NEW r \in Request, UserStep(r)
      PROVE  OneRunPerEpisode'
  BY <1>1, <1>6 DEF UserStep, UserRequest, QueueEpisode, DismissEpisode, DismissFailed,
                    ReprocessEpisode, Load, DeleteFeed, SetMaxRetries, workerVars
<1>7. CASE SchedulerStep
  BY <1>1, <1>7 DEF SchedulerStep, SchedulerJob, RequeueFailed, ExpireProcessed, Load, workerVars
<1>8. ASSUME NEW t \in Task, NEW f \in Feed, PollStep(t, f)
      PROVE  OneRunPerEpisode'
  BY <1>1, <1>8 DEF PollStep, Upsert, workerVars
<1>9. QED
  BY <1>1, <1>2, <1>3, <1>4, <1>5, <1>6, <1>7, <1>8 DEF Next, vars, workerVars

\* However many consumers there are and however requests, polls, deletions
\* and restarts interleave, an episode is queued or being run at most once.
THEOREM OneRun == Spec => []OneRunPerEpisode
<1>1. QED
  BY TypeCorrect, OneRunInit, OneRunNext, PTL DEF Spec

-----------------------------------------------------------------------------
\* THE SET OF WORK
\*
\* With the ids of "pending" that no consumer holds as the waiting ones, taking
\* an id off the queue begins it, the finally block finishes it, enqueue
\* submits, the end of the process forgets, and every other step of the server
\* is invisible.

LEMMA Invisible ==
    ASSUME SameRuns, UNCHANGED pending
    PROVE  UNCHANGED Work!workVars
BY SameRunning DEF Work!workVars

LEMMA TakeBegins ==
    ASSUME TypeOK, OneRunPerEpisode, NEW c \in Consumer, Take(c)
    PROVE  Work!WorkNext
<1> DEFINE e == Head(queue)
<1>1. /\ consumer[c].pc = "idle" /\ queue # <<>> /\ pending' = pending
      /\ consumer \in [Consumer -> ConsumerState] /\ queue \in Seq(Episode)
      /\ consumer' = [consumer EXCEPT ![c] = [consumer[c] EXCEPT !.pc = "taken", !.ep = e]]
  BY DEF Take, Become, TypeOK, WorkerTypeOK
<1>2. consumer'[c].pc = "taken" /\ consumer'[c].ep = e
  BY <1>1 DEF ConsumerState
<1>3. \A d \in Consumer \ {c} : consumer'[d] = consumer[d]
  BY <1>1
<1>4. Running' = Running \union {e}
  BY <1>1, <1>2, <1>3 DEF Running
<1>5. e \in Episode /\ e \in Range(queue)
  BY <1>1 DEF Range
<1>6. e \in pending \ Running
  BY <1>5 DEF OneRunPerEpisode
<1>7. Work!Begin(e)
  BY <1>1, <1>4, <1>6 DEF Work!Begin
<1>8. QED
  BY <1>5, <1>7 DEF Work!WorkNext

LEMMA ReleaseFinishes ==
    ASSUME TypeOK, OneRunPerEpisode, NEW c \in Consumer, Release(c)
    PROVE  Work!WorkNext
<1> DEFINE e == consumer[c].ep
<1>1. /\ consumer[c].pc = "release" /\ pending' = pending \ {e}
      /\ consumer' = [consumer EXCEPT ![c] = Idle]
      /\ consumer \in [Consumer -> ConsumerState] /\ e \in Episode
  BY DEF Release, Become, TypeOK, WorkerTypeOK
<1>2. consumer'[c].pc = "idle" /\ \A d \in Consumer \ {c} : consumer'[d] = consumer[d]
  BY <1>1 DEF Idle
<1>3. \A d \in Consumer \ {c} : consumer[d].pc # "idle" => consumer[d].ep # e
  BY <1>1 DEF OneRunPerEpisode
<1>4. Running' = Running \ {e} /\ e \in Running
  BY <1>1, <1>2, <1>3 DEF Running
<1>5. Work!Finish(e)
  BY <1>1, <1>4 DEF Work!Finish
<1>6. QED
  BY <1>1, <1>5 DEF Work!WorkNext

LEMMA EnqueueSubmits ==
    ASSUME NEW ids \in SUBSET Episode, EnqueueAll(ids), UNCHANGED consumer
    PROVE  Work!WorkNext
<1>1. pending' = pending \union (ids \ pending)
  BY DEF EnqueueAll
<1>2. Running' = Running
  BY DEF Running
<1>3. Work!Submit(ids)
  BY <1>1, <1>2 DEF Work!Submit
<1>4. QED
  BY <1>3 DEF Work!WorkNext

LEMMA WorkInitially == Init => Work!WorkInit
BY DEF Init, WorkerInit, Work!WorkInit, Idle, Running

LEMMA StepImplements ==
    TypeOK /\ OneRunPerEpisode /\ [Next]_vars => [Work!WorkNext]_(Work!workVars)
<1> SUFFICES ASSUME TypeOK, OneRunPerEpisode, [Next]_vars
             PROVE  Work!WorkNext \/ UNCHANGED Work!workVars
  OBVIOUS
<1>1. CASE UNCHANGED <<pending, consumer>>
  BY <1>1, Invisible DEF SameRuns
<1>2. CASE Startup
  BY <1>1, <1>2, EnqueueSubmits DEF Startup, CloseOrphanJobs, RequeueResumable, EnqueueResumed, workerVars
<1>3. CASE Stop
  <2>1. Work!Forget
    BY <1>3 DEF Stop, Idle, Running, Work!Forget
  <2>2. QED
    BY <2>1 DEF Work!WorkNext
<1>4. ASSUME NEW c \in Consumer, WorkerStep(c)
      PROVE  Work!WorkNext \/ UNCHANGED Work!workVars
  BY <1>4, SameRunsStep, Invisible, TakeBegins, ReleaseFinishes DEF WorkerStep
<1>5. ASSUME NEW t \in Task, HandlerStep(t)
      PROVE  Work!WorkNext \/ UNCHANGED Work!workVars
  <2>1. task[t].ids \in SUBSET Episode
    BY DEF TypeOK, RequestsTypeOK, TaskState
  <2>2. QED
    BY <1>1, <1>5, <2>1, EnqueueSubmits DEF HandlerStep, Commit, Enqueue, workerVars
<1>6. ASSUME NEW r \in Request, UserStep(r)
      PROVE  UNCHANGED <<pending, consumer>>
  BY <1>6 DEF UserStep, UserRequest, QueueEpisode, DismissEpisode, DismissFailed,
              ReprocessEpisode, Load, DeleteFeed, SetMaxRetries, workerVars
<1>7. CASE SchedulerStep
  BY <1>1, <1>7 DEF SchedulerStep, SchedulerJob, RequeueFailed, ExpireProcessed, Load, workerVars
<1>8. ASSUME NEW t \in Task, NEW f \in Feed, PollStep(t, f)
      PROVE  UNCHANGED <<pending, consumer>>
  BY <1>8 DEF PollStep, Upsert, workerVars
<1>9. QED
  BY <1>1, <1>2, <1>3, <1>4, <1>5, <1>6, <1>7, <1>8 DEF Next, vars, workerVars

\* The server, for any number of consumers, episodes and requests, behaves
\* towards those who enqueue like the set of work WorkSet describes: no id is
\* taken twice, begun unless it waits, or finished unless it runs.
THEOREM WorkerImplementsWorkSet == Spec => ImplementsWorkSet
<1>1. QED
  BY TypeCorrect, OneRun, WorkInitially, StepImplements, PTL
     DEF Spec, ImplementsWorkSet, Work!WorkSpec
=============================================================================
