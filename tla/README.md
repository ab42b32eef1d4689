# Hushcast in TLA+

Hushcast downloads podcast episodes, transcribes them, lets a language model find
the advertisements, cuts them out and serves the result as a feed. It is one Python
process: asyncio tasks over one SQLite database and a few directories of files.
Nothing here is about how well advertisements are found. What is specified is what
a single process with awaits, restarts and files that outlive transactions makes
hard: that an episode is worked on once and to the end, that its status means what
it says, that retries stop and somebody is told, that no episode of a feed is missed,
that what is cut is what was detected and nothing that was said is lost on the way
there, and that the audio which is served is the audio that was asked for.

Line numbers refer to `src/backend/hushcast/` unless another path is given.

## The system

| component | state it keeps | operations | what makes it correct |
|---|---|---|---|
| state machine (`pipeline/state.py`) | none | table of statuses, `validate_transition` | every status change is in the table |
| queue worker (`pipeline/worker.py`) | FIFO `queue`, set `pending`, consumer tasks; writes statuses, jobs, retry counts | `enqueue`, `_consumer`, `_process`, `_run_step`, `start`, `stop`, `resume` | one run per episode; nothing left active without a run; accepted ids are worked on; budget and notification per step |
| pipeline steps (`pipeline/steps/`) | files `{id}.*` of originals, processed, transcripts, cues; segment rows; path columns | download, transcribe, cues, detect, cut, finalize; each skips itself when its output exists | outputs belong together; what is published is what was asked for |
| scheduler (`pipeline/scheduler.py`) | feeds' headers and failure counters; new episode rows | poll, requeue of failed episodes, cleanup (retention, ageing of originals, orphan sweep) | every new episode appears, once; failures are told; retries within the budget; no file in use is removed |
| episodes API (`api/episodes.py`) | statuses, segment rows, files | process, retry, dismiss, bulk dismiss, reprocess, three corrections of segments | refuses what the state forbids, also when handlers overlap |
| feeds API (`api/feeds.py`), feed fetching (`rss/fetch.py`) | feed rows, validators | create, patch, poll, delete; conditional GET | headers stored with the episodes they cover; deletion while a run or a poll is under way |
| settings (`settings_store.py`, `api/settings.py`) | key/value rows, a cache | get, put, feed token | the cache is not stale; the URL that was shown stays valid |
| authentication (`auth.py`) | credential rows, cached name and derived session key | setup, login, logout, change, refresh | a change ends old sessions, a restart does not |
| transcription (`transcription/`, `steps/transcribe.py`, `audio/ffmpeg.py`) | none | slicing, provider calls, stitching of overlapping parts, sentence split | each word once, in order |
| detection (`detection/`, `steps/detect.py`, `steps/cut.py`) | segment rows | chunks, the conversation with the model, merge, snap, clamp, bridge, extend, refine, verdict, keep ranges | every line is judged; detected blocks are apart and where the model put them; at most half is cut unasked; the rest is kept |
| serving (`serve/rss.py`, `rss/rewrite.py`) | none | feed XML, audio | only with the token; only processed episodes, each with its file |
| audio cues, podcast search, notifications' delivery, logging and errors, system API, configuration and migrations, frontend | none that the others depend on | I/O | see "Not modelled" |

How they interact: the API handlers, the scheduler's two jobs and the worker's
consumers are tasks of one event loop. They share the `episodes`, `jobs` and
`segments` tables, the directories, and the worker's in-memory `queue` and `pending`
through `worker.enqueue`. The settings' cache and the login's are module variables that every
request fills or clears. A handler loads rows, checks them, commits and then
enqueues; between these it awaits, and everybody else runs. SQLAlchemy writes back
only attributes that changed since they were *loaded*, and takes no lock when
loading, so two handlers can both pass their checks and both commit. Files are
removed and renamed outside any transaction. On a restart memory is gone, committed
rows and files stay, and `resume()` closes job rows and queues what was active.

The hard behaviours, each with its line, are listed as `hazards` in `PROJECT.json`.

## Modules

| module | models | extends |
|---|---|---|
| `EpisodeState` | statuses and table | |
| `Database` | rows, running jobs, one setting, the partial write-back of a session, reuse of row ids | `EpisodeState` |
| `Worker` | `Worker` of `worker.py` | `Database` |
| `Requests` | API handlers and scheduler jobs that change statuses or delete rows | `Worker` |
| `Pipeline` | all of them in one process with startup, stop and crash; the properties | `Requests` |
| `WorkSet` | what the worker promises, abstractly | |
| `Artifacts` | one episode's files and rows through the steps, corrections, reprocess, cleanup and crashes | `EpisodeState` |
| `Feeds` | adding, polling, switching and deleting feeds over one source, await by await | `EpisodeState` |
| `Settings` | the settings table, its cache, the settings API, the token check | |
| `Auth` | credentials, their cache, sessions | |
| `Service` | `Settings` and `Auth` in one process that restarts | `Settings`, `Auth` |
| `Segments` | the rounds of post-processing as operators on sets of intervals | |
| `Transcription` | from the audio to the stored lines | `Segments` |
| `Detection` | chunks, the conversation about each, post-processing, verdict, corrections, cut | `Transcription` |
| `MCPipeline`, `MCFeeds`, `MCService`, `MCDetection` | symmetry and inputs for TLC | |
| `PipelineProofs`, `ActiveProofs`, `CrossingProofs` | proofs | `Pipeline` |
| `FeedsProofs` | proofs | `Feeds` |
| `ServiceProofs` | proofs | `Service` |
| `ArtifactsProofs` | proofs | `Artifacts` |
| `DetectionProofs`, `DetectionSafety` | proofs | `Detection` |

`Pipeline` is who runs the steps and when, `Artifacts` what they leave behind,
`Transcription` and `Detection` what they compute. `Feeds` is a closer look at what
`Requests` does in one step (`Upsert`).

### Pipeline: how state and actions correspond to the code

`rows[e]` is the row of episode `e` (status, `retry_count`, `last_failed_step`, feed);
`jobs` are the job rows that say running; `queue`, `pending` are the worker's;
`consumer[c]` is where a consumer task is, with the attributes it loaded (`seen`);
`task[t]` is the same for a handler; `mode` is the lifespan. Each database session of
the code is two actions, load and commit. For the worker: `Take` (`queue.get`),
`Claim` (first session of `_process`), `BeginStep`/`CommitStart` (first session of
`_run_step`), `EndStep`/`CommitEnd` (the step function's outcome and the second
session), `FinishRead`/`CommitProcessed` (last session of `_process`) and `Release`
(the `finally` block). For handlers: `Load` through `QueueEpisode`, `DismissEpisode`,
`DismissFailed`, `ReprocessEpisode`, `RequeueFailed`, `ExpireProcessed`, then
`Commit`, then `Enqueue`. A commit applies `Update`: only what the session changed.
`Stop` may happen anywhere and stands for a crash as well as for `Worker.stop`;
`Startup` is `resume()` in three steps.

Abstractions. A step function is its outcome: ok, error (after its attempts) or, for
detect, a stop. `Upsert`, `DeleteFeed` and `SetMaxRetries` are one action each: the
load of `upsert_new_episodes` is separated from its commit in `Feeds`, the collection
of episodes in `delete_feed` nowhere. Which episodes cleanup expires is free. `_process` loads
the episode after each step to carry its duration forward; that column is left out.
When a feed is deleted during a run and SQLite gives the freed job id to another run's
job, the first run would close the second's job; rows of episodes are reused here, ids
of jobs are not. A plan (`full`, `whitelisted`) is chosen at `Claim`, since
`PATCH /feeds` may change it at any time. `streak` is a history variable that counts
failures of one step since anybody asked for the episode.

Handlers overlap freely. What two of them may do to each other is recorded by a second
history variable: `crossed` holds the episodes on which a handler committed over a status it
had not loaded (`Overwrites`), or whose id a poll gave to a new row while a run of the
deleted one was still going on. The code does that: checks are made on what was loaded, and
nobody looks again at the commit. `FollowsTableUnlessCrossed`, `BudgetIsConsistent` and
`RunningJobsAreOwned` except these episodes, and `AutoRetryIsBounded` grants them one
failure more: they say that nothing else breaks the table, the count or the job history. A
job row that a crossed run leaves behind stays `running` until the next restart; no document
promises otherwise (the comment at `pipeline/worker.py:113` speaks of restarts).
`OneRunPerEpisode`, `ActiveIsOwned` and the refinement of `WorkSet` except nothing: however
handlers overwrite each other, an episode is neither run twice nor left looking busy.

### Artifacts

`audio` holds, for the downloaded file, the copy made for upload and an unfinished
copy or part, which download each came from; `transcript` which download was
transcribed; `segments` a revision, whether rows are the user's only, and whether more
was flagged than may be removed; `processed` which audio and which revision the served
file was made of. `original_path` and `processed_path` are the row's columns and may
disagree with the directories. Each step of `steps/` is split between its effects, and
`Restart` may come between any two. Cleanup goes through its three parts, each split
where the code awaits: it lists the episodes, unlinks what it listed, and commits
(`ListExpired`, `UnlinkExpired`, `CommitExpired`; `ListAged`, `UnlinkAged`,
`CommitAged`; `ListOrphans`, `Sweep`), and runs, retries, corrections and reprocess go
on meanwhile. A reprocess unlinks and commits later (`UnlinkArtifacts`,
`CommitReprocess`); once it has deleted rows it holds SQLite's write lock, so other
sessions wait (`Unlocked`). Retention and age are free choices. The four active
statuses are one, `BUSY`. One reprocess is under way at a time, and its load and its
unlinks are one step: what two handlers do that have loaded the same row is
`Pipeline`'s subject. What a run takes from the feed and the settings is chosen where
it is first looked at. Deleting the feed, the cues file (it goes with the transcript
and is only advice to the detector) and the raw transcript log are left out.

Four histories serve the properties, and each is an exception that one of them makes
because the code does behave so:

- `late`: the latest run began while cleanup had listed the episode, or while a
  reprocess had not committed. Such a run may lose its original
  (`OriginalStaysForTheRun`) or its output (`PublishedIsServable`). The
  comment at `scheduler.py:234-236` promises more than that.
- `torn`: a process died between the unlink of the served file and the commit. The row
  stays `processed` without a file until the next run (`PublishedIsServable`; also
  excepted is the moment between the two). No document speaks of it.
- `doubt = "lost"`: a run ended between the commit of the segments and the commit of
  the review, so that the next one skips detection with its check (`ReviewIsDecided`).
- `asked`, what the latest reprocess asked for, is `NotAsked` when the served file
  stayed behind because the row did not know of it (the run that made it failed before
  finalize), or when the request met a run; and when cleanup removes audio that has been
  transcribed, transcript and audio need not be of one download any more
  (`PublishesWhatWasAsked`).

### Feeds

`tasks[t]` is where the scheduler's poll or a request is: `fetch` (the conditional GET is
under way), `load` and `reset` (the first session of `poll_feed` after an answer: read, and
the commit that clears the failure counter), `begin`, `insert` (the session that stores the
validators and the new episodes), `enqueue`; `fail`, `count`, `notify` for a failed fetch;
`slug`, `add` for `create_feed`. `lock` is SQLite's write lock: a session takes it with its
first UPDATE or INSERT and holds it to the commit. `upsert_new_episodes` queries the known
guids after the validators have been assigned, and the query flushes them first, so the
guids are read under the lock. One `etag` stands for both validators; it is the number of
the document they came with, and a source may send none, or answer in full though they are
current. Items in `Undated` carry no date and are queued whenever they are new to a feed
that has episodes. `told` and `blurred` are histories: that the feed's failing was notified
since the last success, and that two polls overwrote each other's count, or a crash
swallowed the notification. `FailuresAreTold` excepts the feeds in `blurred`. SQLite gives a
deleted last feed's id to the next one: a poll that was in flight may store its items in
that feed, which the model allows. `create_feed` commits the feed before its episodes; when
they cannot be inserted it stays without any and the next poll adds them.

### Service: Settings and Auth

`call[r]` and `visit[r]` are what request `r` is doing. `get_all` is `select`, then `assign`
to the cache; `set_many` is `load`, `commit`, `invalidate`; a credential change is `load`,
`commit`, `assign`, after `verify`; `login` reads the cache and verifies the password in a
thread. `overtaken` records that the cache was filled from rows that changed between the
SELECT and the assignment, `crossed` that two credential changes assigned in another order
than they committed. In both, the cache stays wrong until the next write or restart.
`CacheIsFresh` and `KnownIsStored` say that nothing but these two races makes a cache wrong.
Three keys stand for the settings: the feed token, a secret that is masked, and a text that
resets when blank. `shown` is the token a request returned last, from a cache that was not
overtaken, while no user's request was replacing it, and `contended` that another request
had found no token at that moment and was going to store its own. `ShownTokenIsStored`
excepts such a token (one of the two is dead when it is returned), and says that no other
crossing, write or restart ends a token before a user asks for it. A password hash stands
for the signing key that is derived from it. `Restart` is `lifespan`: a token is ensured,
the credentials are loaded, and the requests are gone.

### Transcription and Detection

What is said is a set of utterances with times; the text of a transcript segment is the set
of utterances it renders. `parts` are the slices of an upload over the provider's cap, with
the audio each contains and the stretch it owns; a slice's clock may be off by `Drift`.
`heard` collects what the provider returned, `transcript` what `Transcript.concat` keeps,
`lines` the stored lines after the sentence split (one segment is split, in two; the second
sentence may begin after the segment's end, for the code puts only the first back into it).
The provider is idealized: it returns one segment per utterance, the same in every slice
that hears it. Cue annotations, which the code merges into the lines of the prompt, take no
room in a chunk here. A chunk is the lines `from + 1 .. upto`; `call` is `_detect_chunk`'s
attempt, response format and salvaged result; `answers` is what was accepted. The model may
cite anything in `Cited`, call a chunk promotional, be cut off, answer nonsense or fail.
Building chunks and asking are one loop here, while the code builds all first; the chunks
are the same. After the last chunk the segments pass through merge and snap, bridge, extend
and refine, each a loop over `todo` into `out` that takes the earliest first; then the
verdict (`skipped`, `review`, `stored`, `failed`), the user's corrections of `rows`, and
`keep_ranges` with its `cursor`.

Times are ticks, `Grain` of them in the tenth of a second to which boundaries are
rounded. `UtterancesOnce` leaves out what starts within `Drift` of where two parts meet or
lies within `Drift` of either end of the audio, where a slice's clock may put it
elsewhere, and the parts of replies that only time words, which are the subject of
`detection_lost`. Among the gaps that
refinement looks at, the code takes the best score; `Beats` is the part of that order
that depends on no weight, and any gap not beaten may be taken. Refinement knows one
word per line. Where segments overlap or are longer than a line, the code measures gaps
between consecutive words only and may find one inside a longer word
(`detection/refine.py:54`). The run does not crash: that is `Artifacts`.

What a reader of the code may not expect, and the model shows: a manual "not an ad"
inside a detected block does not split the cut (`steps/cut.py:29`, and
`test_e2e_pipeline.py:302-308`); rows a user adds before detection make detection be
skipped; a result salvaged from a truncated reply is used though later attempts were
malformed (`detection/llm.py:397`); the count of removed seconds adds overlapping rows
twice (`steps/cut.py:53`).

## Runs

| run | bounds | shows |
|---|---|---|
| `pipeline_races` | 1 episode, 2 consumers, 1 request slot, poll, cleanup, budget 2, feed deletable, both pipelines | `OneRunPerEpisode`, `ActiveIsOwned`, `RunningJobsAreOwned`, `FollowsTableUnlessCrossed`, refinement of `WorkSet` (safety), `TypeOK`; 2.2 million states |
| `pipeline_budget` | 1 episode, 1 consumer, budgets 1 and 2 changing at any time, counters to 3, feed deletable | `BudgetIsConsistent`, `AutoRetryIsBounded` |
| `pipeline_progress` | 2 episodes, 1 consumer, no failing step, fairness, feed deletable, restarts | `WorkSet` with its fairness: every accepted id is begun and finished; 174 thousand states |
| `artifacts` | 2 downloads, 2 revisions of the segments, deaths, cleanup at any time | `PublishedIsServable`, `OriginalStaysForTheRun`, `PublishesWhatWasAsked`, `ReviewIsDecided`, `TypeOK`; 4.8 million states |
| `feeds` | 1 feed id, a source that publishes `<<a>>` and then `<<b, a>>`, `b` undated, the scheduler and 1 request, threshold 2, failures to 2, 1 crash, fairness | `HeadersCoverItems`, `InsertsAreNew`, `FailuresAreTold`, `QueuedIsAccepted`, `EveryItemIsAdded`, `TypeOK`; 278 thousand states |
| `service` | 2 requests, 3 tokens, 1 secret, 2 user names, 1 password with 2 salts | `CacheIsFresh`, `ShownTokenIsStored`, `KnownIsStored`, `RestartKeepsLogins`, `TypeOK`; 1.0 million states |
| `detection` | 51 ticks, 4 utterances of 2 speakers, parts of 30 overlapping by 4, drift 1, at most 5 lines, chunks of 28 overlapping by 8, 1 repeated attempt, 5 possible replies, 2 cues, 2 corrections, fairness | `UtterancesOnce`, `EveryLineIsSeen`, `DetectedAreApart`, `CutsAreCited`, `HalfIsKept`, `KeptIsTheRest`, `SkippedIsPromo`, `Settles`, `TypeOK`; 535 thousand states |

Why the bounds are enough. What an episode suffers comes from tasks about that same
episode, so one episode with two consumers, a request, a poll and cleanup has every
pairwise race, with a third party free to run in between; a second episode matters for
the order of the queue, which is `pipeline_progress` (its steps do not fail; a failing step
ends a run as a successful last step does, at `Release`). Two downloads are an old and a
new one, two revisions what was cut and what was corrected since. The retry counter
is bounded above the largest budget, so reaching and passing it happen. A feed races
with the scheduler, a user's poll, its own deletion and its successor under the same
id, and two polls are all it takes for one to act on what the other changed; the second
document has an item the first does not. Two requests are enough for one to overtake
the other between read and assignment, and three tokens for one to be replaced twice.
The episode of `detection` is long enough for two parts and several chunks that overlap,
the replies include a line, several, all, one beyond the end and one that nobody said,
and the sizes put utterances on both sides of where parts meet. The proofs of safety
below depend on none of these numbers.

### Runs that end in a counterexample

Each of these states what a comment or the user interface says, and TLC shows the
code doing otherwise. `findings` in `PROJECT.json` quotes the lines.

| run | the promise | what happens |
|---|---|---|
| `pipeline_lost_wakeup` | `pending` holds ids queued or running | a failed run has committed but not yet left `pending`; a retry commits `queued`, `enqueue` refuses it, then the id is discarded: queued for ever (until a restart) |
| `pipeline_silent_failure` | a manual retry resets `retry_count`, so the notification can fire again | it does not reset it; the next failure passes the budget, equality never holds, nobody is told |
| `artifacts_copy_as_original` | the original offered is the unmodified source | a retry after a failed transcription may take `{id}.upload.ogg` for the original |
| `feeds_repeated` | rows are made for any item not already known | a document that lists a new item twice violates the unique constraint at every poll; the whole transaction is rolled back, and that is neither counted as a failure nor told |
| `detection_lost` | stitching keeps one copy of what is said in an overlap | a provider that only times words gives one segment per run of a speaker; the one that begins in the overlap starts before what its part owns and is dropped with everything said in it |

### What the exceptions cover

Where a property names an exception, the code behaves so, and TLC finds it as soon as
the exception is taken out. What each leaves out, and so what the run does not show:

| property | without the exception | the code, and what is written about it |
|---|---|---|
| `FollowsTableUnlessCrossed` | cleanup loads a processed episode, a reprocess commits `queued`, cleanup commits `expired` over it; likewise a dismissal makes a queued episode `skipped` with its id in the queue; and a run that outlives its deleted feed writes to the row that got its id | `scheduler.py:207-231`, `api/episodes.py:449-522`; `pipeline/state.py:10` says that retention moves processed to expired |
| `RunningJobsAreOwned`, `BudgetIsConsistent`, `AutoRetryIsBounded` | the same crossings: a run then stops in a status the table forbids and leaves its job row, or a row mixes two writers' counts | `worker.py:215-305` |
| `OriginalStaysForTheRun` | cleanup lists a skipped episode, the episode is queued and run, cleanup unlinks its original | `scheduler.py:239-255`; `scheduler.py:234-236` says that a queued or active episode's original stays untouched |
| `PublishedIsServable` | a process dies between the unlink of the served file and the commit; or the orphan sweep removes the file of an expired episode that was queued after it was listed | `scheduler.py:229-231`, `258-269` |
| `ReviewIsDecided` | the process dies between the commit of the segments and that of the review; the resumed run skips detection with its check and cuts | `steps/detect.py:133-146`; the change log (line 36) says that the episode waits for review |
| `PublishesWhatWasAsked` | a run fails between cut and finalize, so that reprocess leaves a served file behind; or cleanup removes audio that has been transcribed | `steps/cut.py:17`, `scheduler.py:246` |
| `FailuresAreTold` | a crash after the commit of the count that reaches the threshold; later failures are past it | `scheduler.py:139-151`; `models.py:60-61` says that the counter drives the notification |
| `CacheIsFresh` | a change commits and clears the cache between the SELECT and the assignment of a fill | `settings_store.py:177-180` |
| `KnownIsStored` | two changes commit in one order and assign in the other | `auth.py:172-174`; `auth.py:63` calls the cache safe |
| `ShownTokenIsStored` | a request reads the blank token while it is regenerated and stores its own; one of the two is dead when it is returned | `settings_store.py:214-219`, `api/settings.py:51` |

## Fairness

`Pipeline`: `FairSpec` assumes weak fairness of startup, of each consumer and of each
handler that has begun. The code justifies it: every await is on the event loop, on
SQLite with a busy timeout, on HTTP with a timeout or on ffmpeg, and a step makes at
most three attempts. Users, feeds, the scheduler and the end of the process are under
no fairness. What is proved live is about ids the worker accepted: an id that `enqueue`
refuses while it is in `pending` is not accepted again, which is exactly the hole
`pipeline_lost_wakeup` shows.

`Feeds`: strong fairness of the scheduler's start of a poll, of an answer to its fetch,
and of every step of a task that has begun. Strong, since deletions, restarts and other
writers disable them again and again. It says that the interval job keeps firing, that
fetches do not fail for ever, and that a busy database lets a session in now and then.
`EveryItemIsAdded` is false without any of the three. Users and the source are free.

`Detection`: weak fairness of the run's own step; the conversation is bounded by its
attempts and formats. `Settles` leaves the user out, who need not decide.

`Artifacts` and `Service` assume nothing and state safety only.

## Proofs

All are for every value of the constants that the named assumptions allow: any number
of episodes, feeds, consumers, requests, overlapping handlers, downloads, documents,
tokens, lines and replies. The assumptions are the `ASSUME`s of the modules, which say
that the numbers are numbers, that sets which must not meet do not, that finitely many
requests are in flight, and, in
`Transcription`, that what is said lies within the audio and does not overlap. No
theorem has a hypothesis besides; where a property excepts what the code does
(`crossed`, `late`, `torn`, a lost doubt, `blurred`, `overtaken`, `contended`), the
exception is in the property, and "What the exceptions cover" says what it leaves out.

**Pipeline.**

- `TypeCorrect` (`PipelineProofs`): `Spec => []TypeOK`. Inductive as it stands, one
  lemma per action. The awkward part is the partial write-back: a row made of
  attributes of two rows is a row.
- `OneRun` (`PipelineProofs`): `Spec => []OneRunPerEpisode`. It is inductive given
  types, thanks to its last conjunct: `pending` is exactly the queue plus the running
  ids. Without that, nothing keeps `enqueue` from adding an id that is being run.
  Lemmas say what appending distinct new ids and taking the head do to a sequence
  without repetition; every other action leaves queue, `pending` and the consumers'
  episodes alone (`SameRuns`).
- `WorkerImplementsWorkSet` (`PipelineProofs`): `Spec => ImplementsWorkSet`, the safety
  half of the refinement, with `waiting` as `pending` minus the running ids. Enqueue
  maps to `Submit`, take to `Begin`, release to `Finish`, stop to `Forget`, all else
  to a stutter.
- `ActiveOwned` (`ActiveProofs`): `Spec => []ActiveIsOwned`, the property without
  which an episode could be stuck for ever. Not inductive: a consumer that owns an
  active episode could give up because its job row is gone, or overwrite the status
  with something loaded before. The strengthening `ActiveInv` says that the
  owner's job row is there while it is in a step, that what it loaded is the status in
  the row, that a run which is about to publish is at its pipeline's last step, and
  that when startup has requeued, nothing is active. It uses
  `OneRun`: the owner is unique, so no other consumer writes the row.
- `BudgetConsistent`, `AutoRetryBounded`, `JobsOwned` and `StatusesFollowTable`
  (`CrossingProofs`): `Spec => []BudgetIsConsistent`, `Spec => []AutoRetryIsBounded`,
  `Spec => []RunningJobsAreOwned` and `Spec => FollowsTableUnlessCrossed`, for any
  number of overlapping handlers and runs, with feeds deleted under them. All four
  come from `CrossInv`. The worker writes only rows whose statuses no handler
  loads, so whatever a handler commits onto a row that a run is on, it commits over a
  status it had not loaded: the episode is crossed from there on. While it is not, the
  run is alone with its row and finds there the status, the job and the count that it
  left, unless its feed was deleted (`Alone`, `RunInv`). A handler whose episode is
  not crossed sees a row whose count goes with its step (`Sees`). For the bound on
  retries crossed episodes count, too: a failure may be counted on a budget that was
  overwritten, but only where somebody's request made a fresh start, and once (`Slack`,
  `Counted`). `JobsKept` says that startup requeues with no job row left.
  `UpdateFields` and `CommitRow` say what the partial write-back leaves in a row,
  `FailedFields` what a failure does to the counter, `RunWrites` that a run writes its
  own row only, and `FreeIds` that a new row takes the id of none that is there.

**Artifacts** (`ArtifactsProofs`).

- `TypeCorrect` and `OriginalStays` come from one invariant, `RunInv`. A run that began
  when neither cleanup nor a reprocess was at the episode stays alone with it, for both
  start from statuses it does not have (`Turns`); where such a run is tells which files
  there are (`Stages`);
  all files of an episode are of one download (`OneVersion`), without which a file
  found by name could be of another.
- `Servable`: `PublishedIsServable` is not inductive: what cleanup and reprocess have
  removed and not yet committed has to be told from what a run has published since.
  `Served` says it of these moments too; that a run about to publish has its file is
  part of `Stages`.
- `Decided`: `ReviewIsDecided` needs `Doubted`: an open doubt has stopped the episode
  (in review, or dismissed from there) or is about to.
- `Asked`: `PublishesWhatWasAsked` rests on `AskInv`: between unlink and commit a
  reprocess has removed what it will no longer mention (`Removing`), and what was asked
  is not yet published (`Asking`). From there on the served file is of rows (`Recut`),
  the audio of downloads (`Refetched`) and the transcript of the audio
  (`Retranscribed`) no older than the request.

**Feeds** (`FeedsProofs`). `TypeCorrect` (with `Shaped`: where a task is tells what it
carries). `InsertsNew` and `HeadersCovered` come from one invariant, `InsertInv`: a
task about to insert holds the lock, and the guids it read are those in the table
still, for nobody else may write; so its insert completes the document its validators
name. `QueuedAccepted` and `FailuresTold` are inductive given types and shape, with a
task named as the witness where one is about to enqueue or to notify.

**Service** (`ServiceProofs`). `TypeCorrect`; `CacheFresh` and `KnownStored`, inductive
given types; `LoginsKept`, an action property that follows from `KnownIsStored`;
`TokenStored`, from `TokenInv`: while a token counts as shown and not as contended, no
request that is under way is about to replace it, neither with a generated one nor by a
write loaded before.

**Detection** (`DetectionProofs`, `DetectionSafety`). `TypeCorrect`; `EveryLineSeen` and
`SkippedPromo` from `ChunkInv`: up to where the chunk begins every line was in a chunk
that was answered, and the next chunk begins within the one before;
`KeptCorrect` from `KeepInv`: up to the cursor what is kept is the rest, and no row that
remains begins before those that were taken; `DetectedApart` from `ApartInv`: in every
round what is out is apart, and ends before what is still to come begins.

- `EachUtteranceOnce` (`DetectionProofs`): `UtterancesOnce`, for any length of audio, cap,
  overlap and drift, from `SlicesInv`. The parts made so far are one for each block before
  `owned_start`, each owning its block and containing the overlap around it (`Made`,
  `MadeSoFar`); the parts still to be transcribed and those that were make up all of them,
  with one answer each. An utterance well inside a block is heard by the part that owns it,
  whose clock cannot move its start out of the block, and another part that hears it does
  not own where it starts.
- `CutsCited` (`DetectionSafety`): `CutsAreCited`, from `CitedInv`. Each round of
  post-processing may move a boundary a little: `Snapped` and `SnappedOrEdge` say how far
  from a citation, or from an end of the audio, it can be when a round begins, and
  `CutIsCited` what is left of that after refinement. Merging and bridging only ever take a
  boundary from one of the segments they join.
- `HalfKept` (`DetectionSafety`): `HalfIsKept`, from `HalfInv`. The code limits the sum of
  durations; what matters is how much audio is gone. `Removed` counts pairs of a segment and
  a tick in it, so it is the sum the code takes and, mapped onto the ticks that are covered,
  no less than their number.

### Only model-checked

Liveness, which is out of the prover's reach: `ImplementsWorkSetLive`,
`EveryItemIsAdded` and `Settles`. Every safety property of a run that passes is stated
by a theorem.

## Not modelled

- Audio cues: an advisory input of detection, there the constant `Cues`.
- Podcast search (`search.py`): HTTP and a small cache of answers nobody depends on.
- System API, logging, errors: read-only, or without state the rest depends on.
- Configuration and migrations: run once before anything else.
- Frontend: a client of the API; its wording is quoted where it promises something.
- Rendering of feeds and delivery of notifications, HTTP, ffmpeg, XML and the text of
  requests to providers: I/O, whose outcomes are choices in the models.
- Prompt texts and `detection/corrections.py`, the distillation of corrections into
  hints for a feed: they change what the model is told, and it may answer anything.
- The expiry of cookies, which only takes sessions away; the refresh of an episode's
  URL from the feed in the download step.

## What is left

The collection of episodes in `delete_feed` against a commit of a run in between, and
the files of a deleted feed; two reprocess requests on one episode's files at a time;
refinement over words instead of lines; cue annotations as lines of a chunk; a provider
whose segments differ from slice to slice.
