------------------------------ MODULE Requests ------------------------------
(***************************************************************************)
(* Everything outside the worker that changes episodes or feeds: the API   *)
(* handlers (backend/hushcast/api/episodes.py, feeds.py, settings.py) and  *)
(* the two scheduler jobs (backend/hushcast/pipeline/scheduler.py).        *)
(*                                                                         *)
(* A handler loads rows and checks them, then commits, then calls          *)
(* worker.enqueue.  Each of the three is an action, because the handler    *)
(* awaits in between and the worker and other handlers run meanwhile.      *)
(***************************************************************************)
EXTENDS Worker

CONSTANTS
    Request,        \* slots for API requests that may be in flight at once
    Deletable       \* the feeds a user may delete

POLL_JOB_ID    == "poll_feeds"
CLEANUP_JOB_ID == "cleanup"

\* APScheduler never runs two instances of one job, so each has one slot.
Task == Request \union {POLL_JOB_ID, CLEANUP_JOB_ID}

ASSUME RequestsAssumption ==
    /\ Request \intersect {POLL_JOB_ID, CLEANUP_JOB_ID} = {}
    /\ IsFiniteSet(Request)
    /\ Deletable \subseteq Feed

VARIABLE
    task            \* what each handler is doing

Op == {"queue", "dismiss", "reprocess", "requeue", "expire", "upsert"}

\* "ids" are the episodes the handler is about, "seen" their rows as loaded.
TaskState ==
    [pc : {"idle", "loaded", "enqueue"}, op : Op, ids : SUBSET Episode, seen : [Episode -> Row]]

Unseen == [e \in Episode |-> NoRow]
NoTask == [pc |-> "idle", op |-> "queue", ids |-> {}, seen |-> Unseen]

RequestsTypeOK ==
    /\ task \in [Task -> TaskState]
    /\ \A t \in Task : task[t].pc = "loaded" => task[t].op # "upsert"

RequestsInit   == task = [t \in Task |-> NoTask]

-----------------------------------------------------------------------------
\* The part of a handler before its commit: it loads "ids".
Load(t, op, ids) ==
    /\ task[t].pc = "idle"
    /\ ids # {}
    /\ task' = [task EXCEPT ![t] = [pc |-> "loaded", op |-> op, ids |-> ids,
                                     seen |-> [e \in Episode |-> IF e \in ids THEN rows[e] ELSE NoRow]]]
    /\ UNCHANGED <<databaseVars, workerVars>>

\* POST /episodes/{id}/process and /retry: _queue_episode.
PROCESS_FROM == {SKIPPED, DISCOVERED, FAILED, EXPIRED}
RETRY_FROM   == {FAILED}

QueueEpisode(r, e, allowed_from) ==
    /\ rows[e].status \in allowed_from
    /\ CanTransition(rows[e].status, QUEUED)
    /\ Load(r, "queue", {e})

\* POST /episodes/{id}/dismiss
DismissEpisode(r, e) ==
    /\ rows[e].status \in {FAILED, REVIEW}
    /\ CanTransition(rows[e].status, SKIPPED)
    /\ Load(r, "dismiss", {e})

\* POST /episodes/dismiss-failed, for one feed or (feeds = Feed) for all.
DismissFailed(r, feeds) ==
    Load(r, "dismiss", {e \in Episode : rows[e].status = FAILED /\ rows[e].feed \in feeds})

\* Mutant of ReprocessEpisode: an episode the worker is busy with is accepted.
ReprocessAny(r, e) ==
    /\ Exists(e)
    /\ rows[e].status # QUEUED
    /\ Load(r, "reprocess", {e})

\* POST /episodes/{id}/reprocess
ReprocessEpisode(r, e) ==
    /\ Exists(e)
    /\ rows[e].status \notin ACTIVE \union {QUEUED}
    /\ Load(r, "reprocess", {e})

\* Mutant of RequeueFailed: off by one.
RequeueFailedOnceMore ==
    Load(POLL_JOB_ID, "requeue",
         {e \in Episode : rows[e].status = FAILED /\ rows[e].retry_count <= max_retries})

\* requeue_failed, at the end of every scheduled poll.
RequeueFailed ==
    Load(POLL_JOB_ID, "requeue",
         {e \in Episode : rows[e].status = FAILED /\ rows[e].retry_count < max_retries})

\* cleanup expires the episodes beyond the retention limits; which ones are
\* depends on dates and counts that are not modelled here.
ExpireProcessed ==
    \E ids \in SUBSET {e \in Episode : rows[e].status = PROCESSED} :
        Load(CLEANUP_JOB_ID, "expire", ids)

-----------------------------------------------------------------------------
\* What a handler assigns to a row it loaded.
Assigned(op, row) ==
    CASE op \in {"queue", "requeue"} -> [row EXCEPT !.status = QUEUED]
      [] op = "dismiss"              -> [row EXCEPT !.status = SKIPPED]
      [] op = "expire"               -> [row EXCEPT !.status = EXPIRED]
      [] op = "reprocess"            -> NewRow(row.feed, QUEUED)

Enqueues(op) == op \in {"queue", "requeue", "reprocess", "upsert"}

\* The handler's commit.  A row deleted meanwhile fails the request and
\* rolls back every row of it.
Commit(t) ==
    LET ids  == task[t].ids
        seen == task[t].seen
        new  == [e \in ids |-> Assigned(task[t].op, seen[e])]
    IN
    /\ task[t].pc = "loaded"
    /\ IF FlushFails(ids, seen, new)
       THEN task' = [task EXCEPT ![t] = NoTask] /\ UNCHANGED rows
       ELSE /\ Flush(ids, seen, new)
            /\ task' = [task EXCEPT ![t] =
                    IF Enqueues(@.op) THEN [@ EXCEPT !.pc = "enqueue", !.seen = Unseen] ELSE NoTask]
    /\ UNCHANGED <<jobs, max_retries, workerVars>>

\* worker.enqueue, once the commit has returned.
Enqueue(t) ==
    /\ task[t].pc = "enqueue"
    /\ EnqueueAll(task[t].ids)
    /\ task' = [task EXCEPT ![t] = NoTask]
    /\ UNCHANGED <<databaseVars, consumer, notified>>

-----------------------------------------------------------------------------
\* upsert_new_episodes and the commit after it, called by poll_feed (the
\* scheduled poll, POST /feeds/{id}/poll) and by create_feed: new episodes
\* get the next free ids.  A feed that had none is synced for the first
\* time, and all of them are skipped.
Upsert(t, f) ==
    /\ task[t].pc = "idle"
    /\ t # CLEANUP_JOB_ID
    /\ \E last \in NextId..MaxId :
       \E status \in [{e \in Episode : NextId <= e /\ e <= last} ->
              IF \E e \in Episode : rows[e].feed = f THEN {QUEUED, SKIPPED} ELSE {SKIPPED}] :
          LET queued == {e \in DOMAIN status : status[e] = QUEUED} IN
          /\ rows' = [e \in Episode |-> IF e \in DOMAIN status THEN NewRow(f, status[e]) ELSE rows[e]]
          /\ task' = [task EXCEPT ![t] =
                IF queued = {} THEN NoTask
                ELSE [pc |-> "enqueue", op |-> "upsert", ids |-> queued, seen |-> Unseen]]
    /\ UNCHANGED <<jobs, max_retries, workerVars>>

\* DELETE /feeds/{id}: the row goes, and its episodes and their jobs with it.
\* Nothing tells the worker.
DeleteFeed(r, f) ==
    LET gone == {e \in Episode : rows[e].feed = f} IN
    /\ task[r].pc = "idle"
    /\ f \in Deletable
    /\ gone # {}
    /\ rows' = [e \in Episode |-> IF e \in gone THEN NoRow ELSE rows[e]]
    /\ jobs' = {j \in jobs : j.ep \notin gone}
    /\ UNCHANGED <<max_retries, workerVars, task>>

\* PUT /settings
SetMaxRetries(r, n) ==
    /\ task[r].pc = "idle"
    /\ n # max_retries
    /\ max_retries' = n
    /\ UNCHANGED <<rows, jobs, workerVars, task>>

\* What a user may ask for.
UserRequest(r) ==
    \/ \E e \in Episode : \/ QueueEpisode(r, e, PROCESS_FROM)
                          \/ QueueEpisode(r, e, RETRY_FROM)
                          \/ DismissEpisode(r, e)
                          \/ ReprocessEpisode(r, e)
    \/ \E feeds \in {{f} : f \in Feed} \union {Feed} : DismissFailed(r, feeds)
    \/ \E f \in Feed : DeleteFeed(r, f)
    \/ \E n \in RetrySettings : SetMaxRetries(r, n)

SchedulerJob == RequeueFailed \/ ExpireProcessed
=============================================================================
