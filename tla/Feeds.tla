------------------------------- MODULE Feeds --------------------------------
(***************************************************************************)
(* How feeds are added, polled and removed: poll_feed and                  *)
(* upsert_new_episodes (backend/hushcast/pipeline/scheduler.py),           *)
(* create_feed, patch_feed, poll_now and delete_feed                       *)
(* (backend/hushcast/api/feeds.py) and the conditional GET of              *)
(* backend/hushcast/rss/fetch.py, over one source.                         *)
(*                                                                         *)
(* Every await is a step of its own.  A session reads without a lock; its  *)
(* first UPDATE or INSERT takes SQLite's write lock, which it keeps until  *)
(* it commits.  upsert_new_episodes reads the known guids by a query, and  *)
(* the query autoflushes the changed feed row first: the guids are read    *)
(* under the lock.                                                         *)
(***************************************************************************)
EXTENDS Integers, Sequences, FiniteSets, EpisodeState

CONSTANTS
    FeedId,         \* bound: the ids the feeds table hands out
    Guid,           \* the items the source may list
    Undated,        \* those of them that carry no date
    Docs,           \* the documents the source publishes, one after the other
    User,           \* requests that may be in flight at once
    Threshold,      \* FEED_POLL_FAIL_THRESHOLD (5 in the code)
    MaxFailures,    \* bound: the largest failure count
    MaxCrashes      \* bound: how often the process dies

ASSUME FeedsAssumption ==
    /\ FeedId \subseteq Nat \ {0}
    /\ Undated \subseteq Guid
    /\ Docs \in Seq(Seq(Guid))
    /\ Docs # <<>>
    /\ {"poll_feeds", "nobody"} \intersect User = {}
    /\ Threshold \in Nat \ {0}
    /\ MaxFailures \in Nat
    /\ MaxCrashes \in Nat

VARIABLES
    version,        \* which document the source publishes now
    feeds,          \* the feeds table, by id
    rows,           \* the status of each episode, by feed and guid
    accepted,       \* the episodes handed to the worker since the start
    tasks,          \* what the scheduler and each request is doing
    lock,           \* who holds the write lock
    told,           \* feeds whose failing has been notified since the last reset
    blurred,        \* feeds whose failure count lost an update or a notification
    crashes

vars == <<version, feeds, rows, accepted, tasks, lock, told, blurred, crashes>>

POLL_JOB_ID == "poll_feeds"
Task    == User \union {POLL_JOB_ID}
Nobody  == "nobody"
ABSENT  == "absent"
Version == 1..Len(Docs)
Items(v) == {Docs[v][i] : i \in DOMAIN Docs[v]}

\* A row of the feeds table.  "etag" stands for both validators, 0 for none;
\* "created" is the document that was current when the row was committed.
FeedRow == [slug : Nat, etag : {0} \union Version, failures : Nat, enabled : BOOLEAN,
            created : {0} \union Version]
NoFeed  == [slug |-> 0, etag |-> 0, failures |-> 0, enabled |-> FALSE, created |-> 0]
Listed(f) == feeds[f].slug # 0

Pc == {"idle", "fetch", "load", "reset", "begin", "insert", "enqueue",
       "fail", "count", "notify", "slug", "add"}

\* "sent" is the validator of the request, "doc" the document of the answer
\* (0: not modified), "loaded" the failure count as loaded, "slug" the name
\* chosen; "new" are the items to insert, "queued" those of them to work on.
TaskState == [pc : Pc, op : {"poll", "create"}, feed : {0} \union FeedId,
              sent : {0} \union Version, doc : {0} \union Version, loaded : Nat, slug : Nat,
              new : SUBSET Guid, queued : SUBSET Guid]
NoTask == [pc |-> "idle", op |-> "poll", feed |-> 0, sent |-> 0, doc |-> 0, loaded |-> 0,
           slug |-> 0, new |-> {}, queued |-> {}]

TypeOK ==
    /\ version \in Version
    /\ feeds \in [FeedId -> FeedRow]
    /\ rows \in [FeedId -> [Guid -> {ABSENT, SKIPPED, QUEUED}]]
    /\ accepted \subseteq FeedId \X Guid
    /\ tasks \in [Task -> TaskState]
    /\ lock \in Task \union {Nobody}
    /\ told \subseteq FeedId
    /\ blurred \subseteq FeedId
    /\ crashes \in 0..MaxCrashes

NoRows == [g \in Guid |-> ABSENT]

Init ==
    /\ version = 1
    /\ feeds = [f \in FeedId |-> NoFeed]
    /\ rows = [f \in FeedId |-> NoRows]
    /\ accepted = {}
    /\ tasks = [t \in Task |-> NoTask]
    /\ lock = Nobody
    /\ told = {}
    /\ blurred = {}
    /\ crashes = 0

-----------------------------------------------------------------------------
\* HELPERS

At(t, pc)   == tasks[t].pc = pc
Done(t)     == tasks' = [tasks EXCEPT ![t] = NoTask]
Goto(t, pc) == tasks' = [tasks EXCEPT ![t].pc = pc]

UnlockedAlways == TRUE  \* mutant: a query that does not flush needs no lock

\* A session may write when nobody else is in a write transaction.
Unlocked == lock = Nobody

Known(f) == {g \in Guid : rows[f][g] # ABSENT}

\* SQLite hands out the largest id plus one, so the last feed's id is given
\* again after that feed was deleted.
NextFeedId(f) ==
    \A g \in FeedId : Listed(g) => g < f

\* The episodes of a document that are queued: none on the first sync, and
\* afterwards those published since the feed was added, and those undated.
Published(g) == CHOOSE v \in Version : g \in Items(v) /\ \A w \in 1..(v - 1) : g \notin Items(w)
ToQueue(f, new) ==
    IF Known(f) = {} THEN {} ELSE {g \in new : g \in Undated \/ Published(g) > feeds[f].created}

\* mutant: a success takes one failure back
ResetByOne(f, loaded) == feeds[f].failures - 1

\* What a commit does to the failure count of a row: unchanged attributes are
\* not written, so a count that was loaded as 0 and set to 0 is left alone.
Reset(f, loaded) == IF loaded # 0 THEN 0 ELSE feeds[f].failures

-----------------------------------------------------------------------------
\* POLLING

PollableUnlessFailing(f) ==  \* mutant: a failing feed is given up
    Listed(f) /\ feeds[f].enabled /\ feeds[f].failures < Threshold

\* poll_feed returns at once when the feed is gone or switched off.
Pollable(f) == Listed(f) /\ feeds[f].enabled

\* poll_feed: the feed is read for its validators.
StartPoll(t, f) ==
    /\ At(t, "idle")
    /\ Pollable(f)
    /\ tasks' = [tasks EXCEPT ![t] = [NoTask EXCEPT !.pc = "fetch", !.feed = f, !.sent = feeds[f].etag]]
    /\ UNCHANGED <<version, feeds, rows, accepted, lock, told, blurred, crashes>>

\* rss_fetch.fetch answers: with 304 only when the validator sent is the
\* current one, and a source need not heed it.
FetchAnswer(t) ==
    /\ At(t, "fetch")
    /\ \E doc \in {0, version} :
           /\ doc = 0 => tasks[t].sent = version
           /\ tasks' = [tasks EXCEPT ![t].pc = IF tasks[t].op = "create" THEN "slug" ELSE "load",
                                     ![t].sent = 0, ![t].doc = doc]
    /\ UNCHANGED <<version, feeds, rows, accepted, lock, told, blurred, crashes>>

\* The request fails: a poll goes on to count it, create_feed answers 400.
FetchFails(t) ==
    /\ At(t, "fetch")
    /\ \/ tasks[t].op = "create" /\ Done(t)
       \/ tasks[t].op = "poll" /\ Goto(t, "fail")
    /\ UNCHANGED <<version, feeds, rows, accepted, lock, told, blurred, crashes>>

\* Bound: a failure that would take the count beyond MaxFailures is not counted.
Uncounted(t) == At(t, "fail") /\ feeds[tasks[t].feed].failures >= MaxFailures

\* After the fetch the feed is read again, in a session of its own; it may be
\* gone by now.
Load(t) ==
    LET f == tasks[t].feed IN
    /\ \/ At(t, "load")
       \/ At(t, "fail")
    /\ IF ~Listed(f) \/ Uncounted(t) THEN Done(t)
       ELSE tasks' = [tasks EXCEPT
                ![t].pc = IF At(t, "fail") THEN "count" ELSE IF tasks[t].doc = 0 THEN "reset" ELSE "begin",
                ![t].loaded = feeds[f].failures]
    /\ UNCHANGED <<version, feeds, rows, accepted, lock, told, blurred, crashes>>

AlarmsBeyond(n) == n = Threshold + 1  \* mutant: one failure late

Alarms(n) == n = Threshold

\* The failure branch commits the count it loaded plus one ...
CountFailure(t) ==
    LET f == tasks[t].feed
        n == tasks[t].loaded + 1
    IN
    /\ At(t, "count") /\ Unlocked
    /\ IF ~Listed(f)
       THEN Done(t) /\ UNCHANGED <<feeds, blurred>>
       ELSE /\ feeds' = [feeds EXCEPT ![f].failures = n]
            /\ blurred' = IF feeds[f].failures # tasks[t].loaded THEN blurred \union {f} ELSE blurred
            /\ IF Alarms(n) THEN Goto(t, "notify") ELSE Done(t)
    /\ UNCHANGED <<version, rows, accepted, lock, told, crashes>>

\* ... and the poll that reached the threshold notifies.
Notify(t) ==
    /\ At(t, "notify")
    /\ told' = told \union {tasks[t].feed}
    /\ Done(t)
    /\ UNCHANGED <<version, feeds, rows, accepted, lock, blurred, crashes>>

\* Effects on the bookkeeping of a successful poll's commit.
Recovered(f, loaded) ==
    /\ told' = IF Reset(f, loaded) = 0 THEN told \ {f} ELSE told
    /\ blurred' = IF Reset(f, loaded) # 0 \/ feeds[f].failures # loaded
                  THEN blurred \union {f} ELSE blurred

\* A 304 commits the reset and nothing else.
CommitReset(t) ==
    LET f == tasks[t].feed IN
    /\ At(t, "reset") /\ Unlocked
    /\ IF ~Listed(f)
       THEN UNCHANGED <<feeds, told, blurred>>
       ELSE /\ feeds' = [feeds EXCEPT ![f].failures = Reset(f, tasks[t].loaded)]
            /\ Recovered(f, tasks[t].loaded)
    /\ Done(t)
    /\ UNCHANGED <<version, rows, accepted, lock, crashes>>

\* upsert_new_episodes: the query for the known guids flushes the feed row,
\* which takes the lock, or raises when the row is gone.
Begin(t) ==
    LET f   == tasks[t].feed
        new == Items(tasks[t].doc) \ Known(f)
    IN
    /\ At(t, "begin") /\ Unlocked
    /\ IF ~Listed(f)
       THEN Done(t) /\ UNCHANGED lock
       ELSE /\ lock' = t
            /\ tasks' = [tasks EXCEPT ![t].pc = "insert", ![t].new = new,
                                      ![t].queued = ToQueue(f, new)]
    /\ UNCHANGED <<version, feeds, rows, accepted, told, blurred, crashes>>

\* The inserts violate the unique constraint on (feed, guid): an item was
\* added meanwhile, or the document lists a new item twice.
Clash(t) ==
    LET doc == Docs[tasks[t].doc] IN
    \/ \E g \in tasks[t].new : rows[tasks[t].feed][g] # ABSENT
    \/ \E i, j \in DOMAIN doc : i # j /\ doc[i] = doc[j] /\ doc[i] \in tasks[t].new

\* The episodes, the validators (if the source sent any) and the reset are
\* committed together; a clash raises IntegrityError and the whole transaction
\* is rolled back.
Commit(t) ==
    LET f == tasks[t].feed IN
    /\ At(t, "insert")
    /\ lock = t
    /\ lock' = Nobody
    /\ IF Clash(t)
       THEN Done(t) /\ UNCHANGED <<feeds, rows, told, blurred>>
       ELSE /\ rows' = [rows EXCEPT ![f] = [g \in Guid |->
                           IF g \notin tasks[t].new THEN rows[f][g]
                           ELSE IF g \in tasks[t].queued THEN QUEUED ELSE SKIPPED]]
            /\ IF tasks[t].op = "poll"
               THEN /\ \E etag \in {0, tasks[t].doc} :
                           feeds' = [feeds EXCEPT ![f].etag = etag,
                                                  ![f].failures = Reset(f, tasks[t].loaded)]
                    /\ Recovered(f, tasks[t].loaded)
               ELSE UNCHANGED <<feeds, told, blurred>>
            /\ tasks' = [tasks EXCEPT ![t] = [NoTask EXCEPT !.pc = "enqueue", !.feed = f,
                                                           !.queued = tasks[t].queued]]
    /\ UNCHANGED <<version, accepted, crashes>>

Enqueue(t) ==
    /\ At(t, "enqueue")
    /\ accepted' = accepted \union ({tasks[t].feed} \X tasks[t].queued)
    /\ Done(t)
    /\ UNCHANGED <<version, feeds, rows, lock, told, blurred, crashes>>

-----------------------------------------------------------------------------
\* REQUESTS

\* create_feed: refused with 409 when a feed has this URL, and with 500 when
\* two have (scalar_one_or_none).  No validator is sent.
StartCreate(t) ==
    /\ At(t, "idle")
    /\ \A f \in FeedId : ~Listed(f)
    /\ tasks' = [tasks EXCEPT ![t] = [NoTask EXCEPT !.pc = "fetch", !.op = "create"]]
    /\ UNCHANGED <<version, feeds, rows, accepted, lock, told, blurred, crashes>>

\* A document without episodes is refused; else the first free slug is taken.
ChooseSlug(t) ==
    /\ At(t, "slug")
    /\ IF Docs[tasks[t].doc] = <<>> THEN Done(t)
       ELSE \E n \in 1..(Cardinality(FeedId) + 1) :
              /\ \A m \in 1..n : (\E f \in FeedId : feeds[f].slug = m) = (m < n)
              /\ tasks' = [tasks EXCEPT ![t].pc = "add", ![t].slug = n]
    /\ UNCHANGED <<version, feeds, rows, accepted, lock, told, blurred, crashes>>

NewFeedWithValidators(t) ==  \* mutant: create_feed stores the validators of its fetch
    [slug |-> tasks[t].slug, etag |-> tasks[t].doc, failures |-> 0, enabled |-> TRUE,
     created |-> version]

NewFeed(t) ==
    [slug |-> tasks[t].slug, etag |-> 0, failures |-> 0, enabled |-> TRUE, created |-> version]

\* The feed is committed on its own, without validators; a slug that was
\* taken meanwhile violates its unique constraint.  The episodes follow in a
\* second transaction.
AddFeed(t) ==
    /\ At(t, "add") /\ Unlocked
    /\ IF \E f \in FeedId : feeds[f].slug = tasks[t].slug
       THEN Done(t) /\ UNCHANGED feeds
       ELSE \E f \in FeedId :
              /\ NextFeedId(f)
              /\ \A g \in FeedId : NextFeedId(g) => f <= g
              /\ feeds' = [feeds EXCEPT ![f] = NewFeed(t)]
              /\ tasks' = [tasks EXCEPT ![t].pc = "begin", ![t].feed = f, ![t].slug = 0]
    /\ UNCHANGED <<version, rows, accepted, lock, told, blurred, crashes>>

\* patch_feed: polling is switched on or off.
PatchFeed(f) ==
    /\ Listed(f) /\ Unlocked
    /\ feeds' = [feeds EXCEPT ![f].enabled = ~feeds[f].enabled]
    /\ UNCHANGED <<version, rows, accepted, tasks, lock, told, blurred, crashes>>

\* delete_feed: the row and, by cascade, its episodes.
DeleteFeed(f) ==
    /\ Listed(f) /\ Unlocked
    /\ feeds' = [feeds EXCEPT ![f] = NoFeed]
    /\ rows' = [rows EXCEPT ![f] = NoRows]
    /\ accepted' = {a \in accepted : a[1] # f}
    /\ told' = told \ {f}
    /\ blurred' = blurred \ {f}
    /\ UNCHANGED <<version, tasks, lock, crashes>>

-----------------------------------------------------------------------------
\* ENVIRONMENT

\* The source publishes its next document.
Publish ==
    /\ version < Len(Docs)
    /\ version' = version + 1
    /\ UNCHANGED <<feeds, rows, accepted, tasks, lock, told, blurred, crashes>>

NoneResumed == {}  \* mutant: a restart forgets what was queued

Resumed == {a \in FeedId \X Guid : rows[a[1]][a[2]] = QUEUED}

\* The process dies and starts again: open transactions are rolled back, and
\* Worker.resume hands every queued episode to the worker.
Restart ==
    /\ crashes < MaxCrashes
    /\ crashes' = crashes + 1
    /\ tasks' = [t \in Task |-> NoTask]
    /\ lock' = Nobody
    /\ accepted' = Resumed
    /\ blurred' = blurred \union {tasks[t].feed : t \in {u \in Task : At(u, "notify")}}
    /\ UNCHANGED <<version, feeds, rows, told>>

TaskStep(t) ==
    \/ Load(t)
    \/ CountFailure(t)
    \/ Notify(t)
    \/ CommitReset(t)
    \/ Begin(t)
    \/ Commit(t)
    \/ Enqueue(t)
    \/ ChooseSlug(t)
    \/ AddFeed(t)

Next ==
    \/ Publish
    \/ Restart
    \/ \E t \in Task : TaskStep(t) \/ FetchAnswer(t) \/ FetchFails(t)
    \/ \E t \in Task, f \in FeedId : StartPoll(t, f)
    \/ \E u \in User : StartCreate(u)
    \/ \E f \in FeedId : PatchFeed(f) \/ DeleteFeed(f)

\* The scheduler polls every enabled feed again and again, its steps are not
\* postponed for ever by other writers, and its fetches do not fail for ever.
Fairness ==
    /\ \A f \in FeedId : SF_vars(StartPoll(POLL_JOB_ID, f))
    /\ SF_vars(FetchAnswer(POLL_JOB_ID))
    /\ \A t \in Task : SF_vars(TaskStep(t))

Spec     == Init /\ [][Next]_vars
FairSpec == Spec /\ Fairness
-----------------------------------------------------------------------------
\* PROPERTIES

\* What a feed's validators promise to be known is known: after a 304 nothing
\* of the source's current document is missing from the episodes table.  The
\* validators and the episodes are committed together (poll_feed), and
\* create_feed stores no validators at all.
HeadersCoverItems ==
    \A f \in FeedId : Listed(f) /\ feeds[f].etag # 0 =>
        Items(feeds[f].etag) \subseteq Known(f)

\* No poll loses its work to another: when it inserts, what it believes to be
\* new still is (upsert_new_episodes reads the guids under the write lock).
InsertsAreNew ==
    \A t \in Task : At(t, "insert") =>
        \A g \in tasks[t].new : rows[tasks[t].feed][g] = ABSENT

\* A feed that has failed often enough in a row has been notified, or is being
\* notified; only two polls overwriting each other's count, or a crash between
\* the count's commit and the notification, can swallow it (poll_feed).
FailuresAreTold ==
    \A f \in FeedId : Listed(f) /\ feeds[f].failures >= Threshold =>
        \/ f \in told
        \/ f \in blurred
        \/ \E t \in Task : At(t, "notify") /\ tasks[t].feed = f

\* An episode that is queued has been handed to the worker or is about to be,
\* through every crash between the commit and the enqueue (poll_feed, resume).
QueuedIsAccepted ==
    \A f \in FeedId, g \in Guid : rows[f][g] = QUEUED =>
        \/ <<f, g>> \in accepted
        \/ \E t \in Task : At(t, "enqueue") /\ tasks[t].feed = f /\ g \in tasks[t].queued

\* What the source lists gets a row, unless the source withdraws it or the
\* feed is switched off or deleted (poll_all_feeds, upsert_new_episodes).
EveryItemIsAdded ==
    \A f \in FeedId, g \in Guid :
        (feeds[f].enabled /\ g \in Items(version))
            ~> (g \in Known(f) \/ ~feeds[f].enabled \/ g \notin Items(version))
=============================================================================
