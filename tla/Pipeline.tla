------------------------------ MODULE Pipeline ------------------------------
(***************************************************************************)
(* The whole server as one process: the worker, the API handlers, the      *)
(* scheduler jobs, and a crash and restart of all of them                  *)
(* (backend/hushcast/main.py lifespan, Worker.start, stop and resume).     *)
(***************************************************************************)
EXTENDS Requests

VARIABLES
    mode,           \* "down", on the way up ("closed", "requeued"), or "up"
    streak,         \* history: failures in a row of one step since a person
                    \* (or the feed) last wrote the episode's row
    crossed         \* history: episodes a handler committed over a status it
                    \* had not loaded, or whose id a run still held when the
                    \* row was made

vars == <<databaseVars, workerVars, task, mode, streak, crossed>>

Mode == {"down", "closed", "requeued", "up"}

TypeOK ==
    /\ DatabaseTypeOK
    /\ WorkerTypeOK
    /\ RequestsTypeOK
    /\ mode \in Mode
    /\ streak \in [Episode -> Nat]
    /\ crossed \in SUBSET Episode

Init ==
    /\ DatabaseInit
    /\ WorkerInit
    /\ RequestsInit
    /\ mode = "down"
    /\ streak = [e \in Episode |-> 0]
    /\ crossed = {}

-----------------------------------------------------------------------------
\* Mutant of CloseOrphanJobs: resume() leaves the job rows as they are.
CloseNoJobs ==
    /\ mode = "down"
    /\ mode' = "closed"
    /\ UNCHANGED <<databaseVars, workerVars, task, streak, crossed>>

\* resume(), first session: jobs cut off by the restart are closed.
CloseOrphanJobs ==
    /\ mode = "down"
    /\ mode' = "closed"
    /\ jobs' = {}
    /\ UNCHANGED <<rows, max_retries, workerVars, task, streak, crossed>>

\* Mutant of RequeueResumable: only what was waiting is taken up again.
RequeueOnlyQueued ==
    /\ mode = "closed"
    /\ mode' = "requeued"
    /\ UNCHANGED <<databaseVars, workerVars, task, streak, crossed>>

\* resume(), second session: interrupted episodes go back to QUEUED.
RequeueResumable ==
    /\ mode = "closed"
    /\ mode' = "requeued"
    /\ rows' = [e \in Episode |-> IF rows[e].status \in RESUMABLE
                                  THEN [rows[e] EXCEPT !.status = QUEUED] ELSE rows[e]]
    /\ UNCHANGED <<jobs, max_retries, workerVars, task, streak, crossed>>

\* resume() enqueues them; after worker.start the scheduler starts and the
\* server takes requests.
EnqueueResumed ==
    /\ mode = "requeued"
    /\ mode' = "up"
    /\ EnqueueAll({e \in Episode : rows[e].status = QUEUED})
    /\ UNCHANGED <<databaseVars, consumer, notified, task, streak, crossed>>

Startup == CloseOrphanJobs \/ RequeueResumable \/ EnqueueResumed

\* The process ends, at any point: what is in memory is lost, what is
\* committed stays.  A stop cancels the consumers, which comes to the same.
Stop ==
    /\ mode # "down"
    /\ mode' = "down"
    /\ queue' = <<>>
    /\ pending' = {}
    /\ consumer' = [c \in Consumer |-> Idle]
    /\ task' = [t \in Task |-> NoTask]
    /\ jobs' = {[j EXCEPT !.by = Nobody] : j \in jobs}
    /\ UNCHANGED <<rows, max_retries, notified, streak, crossed>>

-----------------------------------------------------------------------------
NowFailed(e) == rows[e].status # FAILED /\ rows'[e].status = FAILED

\* The history of failures.  Only requeue_failed queues an episode without
\* anybody having asked for it.
CountFailures ==
    streak' = [e \in Episode |->
        CASE NowFailed(e) -> IF rows[e].last_failed_step = rows'[e].last_failed_step
                             THEN streak[e] + 1 ELSE 1
          [] rows'[e].status = PROCESSED -> 0
          [] OTHER -> streak[e]]

ForgetFailures ==
    streak' = [e \in Episode |-> IF rows'[e] # rows[e] THEN 0 ELSE streak[e]]

\* A handler's commit changes the row of an episode that left the status the
\* handler loaded it with.
Overwrites(t, e) == rows'[e] # rows[e] /\ rows[e].status # task[t].seen[e].status

WorkerStep(c) ==
    /\ mode = "up"
    /\ ConsumerStep(c)
    /\ CountFailures
    /\ UNCHANGED <<task, mode, crossed>>

HandlerStep(t) ==
    /\ mode = "up"
    /\ \/ /\ Commit(t)
          /\ IF task[t].op = "requeue" THEN UNCHANGED streak ELSE ForgetFailures
          /\ crossed' = crossed \union {e \in task[t].ids : Overwrites(t, e)}
       \/ Enqueue(t) /\ UNCHANGED <<streak, crossed>>
    /\ UNCHANGED mode

UserStep(r) ==
    /\ mode = "up"
    /\ UserRequest(r)
    /\ ForgetFailures
    /\ UNCHANGED <<mode, crossed>>

SchedulerStep ==
    /\ mode = "up"
    /\ SchedulerJob
    /\ UNCHANGED <<mode, streak, crossed>>

PollStep(t, f) ==
    /\ mode = "up"
    /\ Upsert(t, f)
    /\ ForgetFailures
    /\ crossed' = crossed \union {e \in Running : rows'[e] # rows[e]}
    /\ UNCHANGED mode

Next ==
    \/ Startup
    \/ Stop
    \/ \E c \in Consumer : WorkerStep(c)
    \/ \E t \in Task : HandlerStep(t)
    \/ \E r \in Request : UserStep(r)
    \/ SchedulerStep
    \/ \E t \in Task, f \in Feed : PollStep(t, f)

\* Every await of the worker and of a handler returns: HTTP calls have
\* timeouts, attempts are limited, and the event loop runs what is ready.
\* Users, feeds and the scheduler need never do anything.
Fairness ==
    /\ WF_vars(Startup)
    /\ \A c \in Consumer : WF_vars(WorkerStep(c))
    /\ \A t \in Task : WF_vars(HandlerStep(t))

Spec     == Init /\ [][Next]_vars
FairSpec == Spec /\ Fairness
-----------------------------------------------------------------------------
\* PROPERTIES

\* At most one run per episode: an id is at most once in the queue or with a
\* consumer, and the dedup set "pending" is exactly these ids.  Two runs of
\* one episode would write the same files and rows at the same time.
OneRunPerEpisode ==
    /\ \A i, j \in DOMAIN queue : queue[i] = queue[j] => i = j
    /\ \A c, d \in Consumer :
           consumer[c].pc # "idle" /\ consumer[d].pc # "idle" /\ c # d =>
               consumer[c].ep # consumer[d].ep
    /\ Range(queue) \intersect Running = {}
    /\ pending = Range(queue) \union Running

\* The status a run has given its episode so far.
WrittenStatus(c) ==
    IF consumer[c].pc \in {"work", "close", "done", "final"} THEN Stage(c).status
    ELSE IF consumer[c].pc \in {"begin", "start"} /\ consumer[c].i > 1
    THEN PipelineFor(consumer[c].plan)[consumer[c].i - 1].status
    ELSE None

\* An episode shown as being worked on is being worked on, at that stage, by
\* some consumer.  One that is not would never move again: reprocess refuses
\* active episodes and no retry applies to them.
ActiveIsOwned ==
    mode = "up" => \A e \in Episode :
        rows[e].status \in ACTIVE =>
            \E c \in Consumer : consumer[c].ep = e /\ WrittenStatus(c) = rows[e].status

\* The job history shows a job as running only while a consumer is in it,
\* also after restarts, deleted feeds and runs that gave up.  The exception is
\* an episode two writers crossed on: a stop the table then forbids leaves the
\* job row behind until the next restart.
RunningJobsAreOwned ==
    mode = "up" => \A j \in jobs :
        \/ j.ep \in crossed
        \/ j.by # Nobody /\ consumer[j.by].pc \in {"work", "close"} /\ OwnJob(j.by) = j

\* The retry budget of an episode: a count goes with the step it counts, and
\* what was processed starts afresh, unless two writers crossed on it.
BudgetIsConsistent ==
    \A e \in Episode \ crossed :
        /\ (rows[e].retry_count = 0) = (rows[e].last_failed_step = None)
        /\ rows[e].status \in {PROCESSED, EXPIRED} => rows[e].retry_count = 0

\* Without anybody asking for it, no step of an episode is run into failure
\* more often in a row than the budget says; once more at most when
\* requeue_failed crossed with another writer.
AutoRetryIsBounded ==
    \A e \in Episode : \E n \in RetrySettings \union {1} :
        streak[e] <= IF e \in crossed THEN n + 1 ELSE n

\* A queued episode is known to the worker, or about to be.
QueuedIsPending ==
    mode = "up" => \A e \in Episode :
        rows[e].status = QUEUED =>
            e \in pending \/ \E t \in Task : task[t].pc = "enqueue" /\ e \in task[t].ids

\* An episode that will not be retried by itself has been reported.
GivenUpIsNotified ==
    \A e \in Episode :
        rows[e].status = FAILED /\ rows[e].retry_count >= max_retries => e \in notified

\* A step changes an episode's status only as the table allows, except that
\* rows appear and disappear.
ByTable(e) ==
    \/ rows'[e].status = rows[e].status
    \/ CanTransition(rows[e].status, rows'[e].status)
    \/ rows[e].status = ABSENT
    \/ rows'[e].status = ABSENT

\* Nothing but a handler that commits over a status it had not loaded ever
\* leads out of the table: not the consumers against the handlers, not a
\* restart, not a deleted feed whose ids are handed out again.
FollowsTableUnlessCrossed == [][\A e \in Episode \ crossed' : ByTable(e)]_vars

\* The worker keeps the promises of WorkSet: nothing is worked on twice at a
\* time, and nothing that was accepted waits or runs for ever.
Work == INSTANCE WorkSet WITH Id <- Episode, waiting <- pending \ Running, running <- Running

ImplementsWorkSet     == Work!WorkSpec
ImplementsWorkSetLive == Work!WorkFairSpec
=============================================================================
