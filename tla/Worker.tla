------------------------------- MODULE Worker -------------------------------
(***************************************************************************)
(* The queue worker (backend/hushcast/pipeline/worker.py): a FIFO of       *)
(* episode ids, a set "pending" that keeps an id from being queued twice,  *)
(* and consumer tasks that run an episode's pipeline step by step.         *)
(*                                                                         *)
(* A consumer lets other tasks run at every await, so each database        *)
(* session of the code is two actions: one that loads the episode (the pc  *)
(* moves on and "seen" keeps what was loaded) and one that commits.  The   *)
(* step functions themselves are their outcomes.  Actions say nothing of   *)
(* variables this module does not declare.                                 *)
(***************************************************************************)
EXTENDS Database

CONSTANTS
    Plans,          \* the pipelines feeds ask for, by their "whitelisted" flag
    RetryBound      \* bound: retry_count grows no larger than this

Plan == {"full", "whitelisted"}

ASSUME WorkerAssumption == Plans \subseteq Plan /\ Plans # {}

VARIABLES
    queue,          \* asyncio.Queue of episode ids
    pending,        \* ids queued or running
    consumer,       \* what each consumer task is doing
    notified        \* episodes whose latest failure sent "retries exhausted"

workerVars == <<queue, pending, consumer, notified>>

-----------------------------------------------------------------------------
FULL_PIPELINE ==
    << [step |-> "download",   status |-> DOWNLOADING],
       [step |-> "transcribe", status |-> TRANSCRIBING],
       [step |-> "cues",       status |-> TRANSCRIBING],
       [step |-> "detect",     status |-> DETECTING],
       [step |-> "cut",        status |-> CUTTING],
       [step |-> "finalize",   status |-> CUTTING] >>

WHITELISTED_PIPELINE ==
    << [step |-> "download", status |-> DOWNLOADING],
       [step |-> "cut",      status |-> CUTTING],
       [step |-> "finalize", status |-> CUTTING] >>

PipelineFor(plan) == IF plan = "whitelisted" THEN WHITELISTED_PIPELINE ELSE FULL_PIPELINE

\* What a step function may come back with.  Only detect raises
\* StopPipeline, whose target status is the outcome.
StopStatus    == {REVIEW, SKIPPED}
Outcome(step) == {"ok", "error"} \union IF step = "detect" THEN StopStatus ELSE {}

PC == {"idle", "taken", "begin", "start", "work", "close", "done", "final", "release"}

ConsumerState ==
    [pc : PC, ep : Episode \union {0}, plan : Plan, i : 1..6,
     budget : RetrySettings \union {0}, seen : Row,
     outcome : {"ok", "error"} \union StopStatus]

Idle == [pc |-> "idle", ep |-> 0, plan |-> "full", i |-> 1,
         budget |-> 0, seen |-> NoRow, outcome |-> "ok"]

\* A consumer about to run the first step of an episode's pipeline.
NewRun(e, plan, budget) ==
    [pc |-> "begin", ep |-> e, plan |-> plan, i |-> 1,
     budget |-> budget, seen |-> NoRow, outcome |-> "ok"]

WorkerTypeOK ==
    /\ queue \in Seq(Episode)
    /\ pending \in SUBSET Episode
    /\ consumer \in [Consumer -> ConsumerState]
    /\ \A c \in Consumer :
           /\ consumer[c].i \in DOMAIN PipelineFor(consumer[c].plan)
           /\ consumer[c].pc # "idle" => consumer[c].ep \in Episode
    /\ notified \in SUBSET Episode

WorkerInit ==
    /\ queue = <<>>
    /\ pending = {}
    /\ consumer = [c \in Consumer |-> Idle]
    /\ notified = {}

Stage(c)  == PipelineFor(consumer[c].plan)[consumer[c].i]
OwnJob(c) == [ep |-> consumer[c].ep, step |-> Stage(c).step, by |-> c]

\* The episodes some consumer has taken off the queue and not yet let go of.
Running == {consumer[c].ep : c \in {d \in Consumer : consumer[d].pc # "idle"}}

Become(c, state) == consumer' = [consumer EXCEPT ![c] = state]

\* The consumer moves to pc; whatever it loaded and decided before is gone.
Goto(c, pc) == Become(c, [consumer[c] EXCEPT !.pc = pc, !.seen = NoRow, !.outcome = "ok"])

-----------------------------------------------------------------------------
\* Mutant of EnqueueAll: the dedup set is written but never looked at.
EnqueueAllTwice(ids) ==
    /\ pending' = pending \union ids
    /\ \E order \in Bijection(1..Cardinality(ids), ids) : queue' = queue \o order

\* enqueue(id) for every id of a set, in the order the rows came back in.
\* Ids already pending are ignored: enqueue returns False.
EnqueueAll(ids) ==
    LET new == ids \ pending IN
    /\ pending' = pending \union new
    /\ \E order \in Bijection(1..Cardinality(new), new) : queue' = queue \o order

\* Mutant of Take: the latest id first, as with an asyncio.LifoQueue.
TakeLast(c) ==
    /\ consumer[c].pc = "idle"
    /\ queue # <<>>
    /\ Become(c, [consumer[c] EXCEPT !.pc = "taken", !.ep = queue[Len(queue)]])
    /\ queue' = SubSeq(queue, 1, Len(queue) - 1)
    /\ UNCHANGED <<databaseVars, pending, notified>>

\* episode_id = await self.queue.get()
Take(c) ==
    /\ consumer[c].pc = "idle"
    /\ queue # <<>>
    /\ Become(c, [consumer[c] EXCEPT !.pc = "taken", !.ep = Head(queue)])
    /\ queue' = Tail(queue)
    /\ UNCHANGED <<databaseVars, pending, notified>>

\* _process loads the episode, its feed and the settings into a context.
\* The context keeps these values for the whole run.
Claim(c) ==
    /\ consumer[c].pc = "taken"
    /\ IF rows[consumer[c].ep].status = QUEUED
       THEN \E p \in Plans :
                Become(c, NewRun(consumer[c].ep, p, max_retries))
       ELSE Goto(c, "release")
    /\ UNCHANGED <<databaseVars, queue, pending, notified>>

\* _run_step loads the episode: gone, it gives up; a status that may not
\* become this step's raises InvalidTransition, which only _consumer catches.
BeginStep(c) ==
    LET row == rows[consumer[c].ep] IN
    /\ consumer[c].pc = "begin"
    /\ IF row.status = Stage(c).status \/ CanTransition(row.status, Stage(c).status)
       THEN Become(c, [consumer[c] EXCEPT !.pc = "start", !.seen = row])
       ELSE Goto(c, "release")
    /\ UNCHANGED <<databaseVars, queue, pending, notified>>

\* The commit that opens the step: the new status and a running job.  With
\* the row gone it raises (a stale UPDATE, or the job's foreign key).
CommitStart(c) ==
    LET e    == consumer[c].ep
        seen == consumer[c].seen
    IN
    /\ consumer[c].pc = "start"
    /\ IF Exists(e)
       THEN /\ rows' = [rows EXCEPT ![e] = Update(@, seen, [seen EXCEPT !.status = Stage(c).status])]
            /\ jobs' = jobs \union {OwnJob(c)}
            /\ Goto(c, "work")
       ELSE /\ Goto(c, "release")
            /\ UNCHANGED <<rows, jobs>>
    /\ UNCHANGED <<max_retries, queue, pending, notified>>

\* Mutant of Failed: the status takes the place of the step that failed.
FailedByStatus(row, step) ==
    [row EXCEPT !.status = FAILED, !.retry_count = 1, !.last_failed_step = row.status]

\* What the error branch of _run_step makes of the episode: retries are
\* counted per step, a different step failing starts a fresh count.
Failed(row, step) ==
    [row EXCEPT !.status = FAILED,
                !.retry_count = IF row.last_failed_step = step THEN @ + 1 ELSE 1,
                !.last_failed_step = step]

\* The notification goes out when the count is exactly the budget.
Exhausts(c, row) ==
    Failed(row, Stage(c).step).retry_count = IF consumer[c].budget < 1 THEN 1 ELSE consumer[c].budget

\* The step function returns or raises, and the session that closes the step
\* loads the job and the episode.  A job deleted with its feed is an
\* AttributeError; a stop the table forbids is an InvalidTransition, raised
\* before the commit, so the job row stays "running".  The notification of an
\* exhausted budget is sent here too, ahead of the commit.
EndStep(c, outcome) ==
    LET row == rows[consumer[c].ep] IN
    /\ consumer[c].pc = "work"
    /\ outcome \in Outcome(Stage(c).step)
    /\ outcome = "error" => row.retry_count < RetryBound
    /\ IF OwnJob(c) \notin jobs
       THEN Goto(c, "release") /\ UNCHANGED jobs
       ELSE IF outcome \in StopStatus /\ ~CanTransition(row.status, outcome)
       THEN /\ Goto(c, "release")
            /\ jobs' = (jobs \ {OwnJob(c)}) \union {[OwnJob(c) EXCEPT !.by = Nobody]}
       ELSE /\ Become(c, [consumer[c] EXCEPT !.pc = "close", !.seen = row, !.outcome = outcome])
            /\ UNCHANGED jobs
    /\ notified' = IF outcome # "error" THEN notified
                   ELSE IF Exhausts(c, row) THEN notified \union {consumer[c].ep}
                   ELSE notified \ {consumer[c].ep}
    /\ UNCHANGED <<rows, max_retries, queue, pending>>

\* The commit that closes the step.
CommitEnd(c) ==
    LET e    == consumer[c].ep
        seen == consumer[c].seen
        step == Stage(c).step
        new  == CASE consumer[c].outcome = "ok"          -> seen
                  [] consumer[c].outcome = "error"       -> Failed(seen, step)
                  [] consumer[c].outcome \in StopStatus  -> [seen EXCEPT !.status = consumer[c].outcome]
        last == consumer[c].i = Len(PipelineFor(consumer[c].plan))
    IN
    /\ consumer[c].pc = "close"
    /\ IF OwnJob(c) \notin jobs
       THEN Goto(c, "release") /\ UNCHANGED <<rows, jobs>>
       ELSE /\ rows' = [rows EXCEPT ![e] = Update(@, seen, new)]
            /\ jobs' = jobs \ {OwnJob(c)}
            /\ IF consumer[c].outcome = "ok"
               THEN Become(c, [consumer[c] EXCEPT !.pc = IF last THEN "done" ELSE "begin",
                                                  !.i = IF last THEN @ ELSE @ + 1,
                                                  !.seen = NoRow])
               ELSE Goto(c, "release")
    /\ UNCHANGED <<max_retries, queue, pending, notified>>

\* After the last step _process loads the episode once more ...
FinishRead(c) ==
    LET row == rows[consumer[c].ep] IN
    /\ consumer[c].pc = "done"
    /\ IF CanTransition(row.status, PROCESSED)
       THEN Become(c, [consumer[c] EXCEPT !.pc = "final", !.seen = row])
       ELSE Goto(c, "release")
    /\ UNCHANGED <<databaseVars, queue, pending, notified>>

\* Mutant of CommitProcessed: the retry budget is left as it was.
CommitProcessedKeepingCount(c) ==
    LET e    == consumer[c].ep
        seen == consumer[c].seen
    IN
    /\ consumer[c].pc = "final"
    /\ rows' = IF Exists(e)
               THEN [rows EXCEPT ![e] = Update(@, seen, [seen EXCEPT !.status = PROCESSED])]
               ELSE rows
    /\ Goto(c, "release")
    /\ UNCHANGED <<jobs, max_retries, queue, pending, notified>>

\* ... and publishes it, with a clean retry budget.
CommitProcessed(c) ==
    LET e    == consumer[c].ep
        seen == consumer[c].seen
    IN
    /\ consumer[c].pc = "final"
    /\ rows' = IF Exists(e)
               THEN [rows EXCEPT ![e] = Update(@, seen, NewRow(seen.feed, PROCESSED))]
               ELSE rows
    /\ Goto(c, "release")
    /\ UNCHANGED <<jobs, max_retries, queue, pending, notified>>

\* Mutant of Release: the finally block forgets self.pending.discard.
ReleaseKeepingPending(c) ==
    /\ consumer[c].pc = "release"
    /\ Become(c, Idle)
    /\ UNCHANGED <<databaseVars, queue, pending, notified>>

\* The finally block of _consumer: the id may be queued again from here on.
Release(c) ==
    /\ consumer[c].pc = "release"
    /\ pending' = pending \ {consumer[c].ep}
    /\ Become(c, Idle)
    /\ UNCHANGED <<databaseVars, queue, notified>>

ConsumerStep(c) ==
    \/ Take(c) \/ Claim(c) \/ BeginStep(c) \/ CommitStart(c)
    \/ \E outcome \in {"ok", "error"} \union StopStatus : EndStep(c, outcome)
    \/ CommitEnd(c) \/ FinishRead(c) \/ CommitProcessed(c) \/ Release(c)
=============================================================================
