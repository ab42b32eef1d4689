----------------------------- MODULE Artifacts -----------------------------
(***************************************************************************)
(* One episode's files on disk and what its row says of them, through the  *)
(* step functions (backend/hushcast/pipeline/steps/), reprocess and the    *)
(* corrections of the user (api/episodes.py), the cleanup job              *)
(* (pipeline/scheduler.py), and a process that may die between any two     *)
(* writes.                                                                 *)
(*                                                                         *)
(* Pipeline shows that an episode has one run at a time, and what two      *)
(* handlers do to each other that have loaded one row; here a session of   *)
(* the worker, and the load of a reprocess with its unlinks, are one step, *)
(* one reprocess is under way, and the four active statuses are one, BUSY. *)
(* Cleanup lists, unlinks and commits while runs and handlers come and go. *)
(* The cues step is left out: its file comes and goes with the transcript  *)
(* and only moves the detector's boundaries.  Contents are versions: audio *)
(* by the download it came from, segment rows by a revision that grows     *)
(* with every change.                                                      *)
(***************************************************************************)
EXTENDS Integers, EpisodeState

CONSTANTS
    MaxFetch,       \* bound: downloads
    MaxRev,         \* bound: changes of the segment rows
    Deaths          \* whether the process may die

ASSUME ArtifactsAssumption ==
    MaxFetch \in Nat /\ MaxRev \in Nat /\ Deaths \in BOOLEAN

BUSY    == "busy"
None    == "none"
Statuses == (ALL_STATUSES \ ({DISCOVERED} \union ACTIVE)) \union {BUSY}

\* What {id}.* matches in the originals directory: the downloaded source, the
\* opus copy made for upload, and what a process that died while making the
\* copy or a part of it left behind.  (.part files of a download are told
\* apart by name and never taken up.)
File  == {"source", "upload", "fragment"}
Fetch == 0..MaxFetch
Rev   == 0..MaxRev

NoAudio == [of |-> 0, cut |-> 0]

ReprocessStep == {"download", "transcribe", "detect", "cut"}

VARIABLES
    status,         \* the episode's status
    original_path,  \* the row's original_path: which file it names, or None
    processed_path, \* whether the row's processed_path is set
    audio,          \* the originals directory: version by file, 0 where there is none
    transcript,     \* the transcript on disk: version of the audio transcribed, or 0
    segments,       \* the segment rows: what there is, its revision, and whether it
                    \* is more than may be removed
    processed,      \* the file that is served, or NoAudio
    fetches,        \* how many downloads there have been
    run,            \* the worker's run of the episode and its context
    request,        \* a reprocess between its unlinks and its commit
    cleanup,        \* the cleanup job between its SELECTs, unlinks and commits
    torn,           \* history: a process died between the unlink of the served file
                    \* and the commit, and no run began since
    late,           \* history: the latest run began while cleanup had listed the
                    \* episode, or a reprocess had not committed
    asked           \* history: what the latest reprocess asked for

vars == <<status, original_path, processed_path, audio, transcript, segments, processed,
          fetches, run, request, cleanup, torn, late, asked>>

PC == {"idle", "download", "persist", "transcribe", "listen", "upload", "detect", "judge", "stop",
       "review", "cut", "encode", "finalize", "clean", "forget", "publish"}

NoRun == [pc |-> "idle", path |-> None, cut |-> 0]

\* "known" is whether the session has loaded a processed_path, "path" the
\* original_path it has loaded.
NoRequest == [from |-> None, known |-> FALSE]
NoCleanup == [at |-> "idle", known |-> FALSE, path |-> None]

\* No rows, rows the user added only, or (also) rows that detection stored.
Kinds == {"none", "manual", "detected"}

\* History: whether more is flagged than may be removed and nobody has looked
\* at it since; lost when the run ended before it had said so.
Doubt == {"none", "open", "lost"}

\* History: the rows and the downloads that what is published next is newer
\* than, and whether its segments are found in the transcript of its audio.
NotAsked == [rev |-> 0, fetch |-> 0, full |-> FALSE]

TypeOK ==
    /\ status \in Statuses
    /\ original_path \in File \union {None}
    /\ processed_path \in BOOLEAN
    /\ audio \in [File -> Fetch]
    /\ transcript \in Fetch
    /\ segments \in [kind : Kinds, rev : Rev, doubt : Doubt]
    /\ processed \in [of : Fetch, cut : Rev]
    /\ fetches \in Fetch
    /\ run \in [pc : PC, path : File \union {None}, cut : Rev]
    /\ request \in [from : ReprocessStep \union {None}, known : BOOLEAN]
    /\ cleanup \in [at : {"idle", "expire", "expired", "age", "aged", "sweep"},
                    known : BOOLEAN, path : File \union {None}]
    /\ torn \in BOOLEAN
    /\ late \in BOOLEAN
    /\ asked \in [rev : Rev, fetch : Fetch, full : BOOLEAN]

Init ==
    /\ status \in {QUEUED, SKIPPED}
    /\ original_path = None
    /\ processed_path = FALSE
    /\ audio = [f \in File |-> 0]
    /\ transcript = 0
    /\ segments = [kind |-> "none", rev |-> 0, doubt |-> "none"]
    /\ processed = NoAudio
    /\ fetches = 0
    /\ run = NoRun
    /\ request = NoRequest
    /\ cleanup = NoCleanup
    /\ torn = FALSE
    /\ late = FALSE
    /\ asked = NotAsked

Present(f) == audio[f] # 0
Goto(pc)   == run' = [run EXCEPT !.pc = pc]

\* The doubt when the run ends without having said that it needs a review.
Untold == IF run.pc = "review" /\ segments.doubt = "open" THEN "lost" ELSE segments.doubt

\* Variables of the files and columns no step of detection touches, etc.
rowVars     == <<status, original_path, processed_path>>
taskVars    == <<request, cleanup>>
fileVars    == <<audio, transcript, processed, fetches>>
historyVars == <<torn, late, asked>>

-----------------------------------------------------------------------------
\* THE RUN.  Each step function is split where another task or the end of
\* the process could get in between two of its effects.

\* reprocess deletes the segment rows before it unlinks the other artifacts,
\* and holds SQLite's write lock from then to its commit.
Unlocked == request.from \in {None, "cut"}

\* _process: the context starts without a path.  What it takes from the feed
\* and the settings, whether to detect and whether to keep originals, is
\* chosen where it is first looked at.
Claim ==
    /\ status = QUEUED /\ run.pc = "idle" /\ Unlocked
    /\ status' = BUSY
    /\ Goto("download")
    /\ torn' = FALSE
    /\ late' = (request # NoRequest \/ cleanup # NoCleanup)
    /\ UNCHANGED <<original_path, processed_path, fileVars, segments, taskVars, asked>>

\* download.run: the first {id}.* in whatever order the directory lists them,
\* or else a download, which is complete when it gets its name.
Download ==
    /\ run.pc = "download"
    /\ \/ \E f \in File :
              /\ Present(f)
              /\ run' = [run EXCEPT !.pc = "persist", !.path = f]
              /\ UNCHANGED <<audio, fetches>>
       \/ /\ \A f \in File : ~Present(f)
          /\ fetches < MaxFetch
          /\ fetches' = fetches + 1
          /\ audio' = [audio EXCEPT !["source"] = fetches + 1]
          /\ run' = [run EXCEPT !.pc = "persist", !.path = "source"]
    /\ UNCHANGED <<rowVars, transcript, segments, processed, taskVars, historyVars>>

\* _persist_original, and on to the next step of the pipeline
PersistOriginal ==
    /\ run.pc = "persist" /\ Unlocked
    /\ original_path' = run.path
    /\ \E whitelisted \in BOOLEAN :
           /\ Goto(IF whitelisted THEN "cut" ELSE "transcribe")
           /\ asked' = [asked EXCEPT !.full = @ /\ ~whitelisted]
    /\ UNCHANGED <<status, processed_path, fileVars, segments, taskVars, torn, late>>

\* _run_step: a step begins if the row still has the status of the run ...
Begins(step) == run.pc = step /\ status = BUSY /\ Unlocked

\* ... and if it has not, validate_transition ends the run, also where detect
\* asks for a stop and where the episode would be published.  What was flagged
\* is then never said.
LosesStatus ==
    /\ run.pc \in {"transcribe", "detect", "cut", "finalize", "stop", "review", "publish"}
    /\ status # BUSY
    /\ run' = NoRun
    /\ segments' = [segments EXCEPT !.doubt = Untold]
    /\ UNCHANGED <<rowVars, fileVars, taskVars, historyVars>>

\* transcribe.run: skipped when there is a transcript; when the audio is over
\* the provider's upload cap a copy is made unless there is one.
BeginTranscribe ==
    /\ Begins("transcribe")
    /\ \/ transcript # 0 /\ Goto("detect") /\ UNCHANGED audio
       \/ transcript = 0 /\ Goto("listen") /\ UNCHANGED audio
       \/ /\ transcript = 0
          /\ Present("upload") \/ Present(run.path)
          /\ audio' = [audio EXCEPT !["upload"] = IF Present("upload") THEN @ ELSE audio[run.path]]
          /\ Goto("upload")
    /\ UNCHANGED <<rowVars, transcript, segments, processed, fetches, taskVars, historyVars>>

\* What is sent is transcribed, and the transcript written.
Transcribe ==
    /\ run.pc \in {"listen", "upload"}
    /\ LET sent == IF run.pc = "upload" THEN "upload" ELSE run.path IN
           /\ Present(sent)
           /\ transcript' = audio[sent]
    /\ Goto("detect")
    /\ UNCHANGED <<rowVars, audio, segments, processed, fetches, taskVars, historyVars>>

\* detect.run: skipped when there are rows ...
BeginDetect ==
    /\ Begins("detect")
    /\ segments.kind # "none" \/ transcript # 0
    /\ Goto(IF segments.kind = "none" THEN "judge" ELSE "cut")
    /\ UNCHANGED <<rowVars, fileVars, segments, taskVars, historyVars>>

\* ... or the model's verdict replaces whatever rows there are by then: no
\* ads, ads, a promotional episode (kept rows), or more than may be removed.
StoreSegments ==
    /\ run.pc = "judge" /\ Unlocked
    /\ segments.rev < MaxRev
    /\ \E kind \in {"none", "detected"}, doubt \in {"none", "open"} :
           /\ doubt = "open" => kind = "detected"
           /\ segments' = [kind |-> kind, rev |-> segments.rev + 1, doubt |-> doubt]
           /\ \/ doubt = "open" /\ Goto("review")
              \/ doubt = "none" /\ kind = "detected" /\ Goto("stop")
              \/ doubt = "none" /\ Goto("cut")
    /\ UNCHANGED <<rowVars, fileVars, taskVars, historyVars>>

\* Mutant: the stop is caught with the errors.
StopAsFailure ==
    /\ run.pc \in {"stop", "review"} /\ status = BUSY /\ Unlocked
    /\ status' = FAILED
    /\ run' = NoRun
    /\ UNCHANGED <<original_path, processed_path, fileVars, segments, taskVars, historyVars>>

\* StopPipeline: the worker gives the episode the status detect asked for,
\* in a session of its own.
StopPipeline ==
    /\ run.pc \in {"stop", "review"} /\ status = BUSY /\ Unlocked
    /\ status' = IF run.pc = "review" THEN REVIEW ELSE SKIPPED
    /\ run' = NoRun
    /\ UNCHANGED <<original_path, processed_path, fileVars, segments, taskVars, historyVars>>

\* cut.run: skipped when the output exists; otherwise the rows are loaded ...
BeginCut ==
    /\ Begins("cut")
    /\ \/ processed # NoAudio /\ Goto("finalize")
       \/ processed = NoAudio /\ run' = [run EXCEPT !.pc = "encode", !.cut = segments.rev]
    /\ UNCHANGED <<rowVars, fileVars, segments, taskVars, historyVars>>

\* ... and ffmpeg's output gets its name when it is complete.
Encode ==
    /\ run.pc = "encode"
    /\ Present(run.path)
    /\ processed' = [of |-> audio[run.path], cut |-> run.cut]
    /\ run' = [run EXCEPT !.pc = "finalize", !.cut = 0]
    /\ UNCHANGED <<rowVars, audio, transcript, segments, fetches, taskVars, historyVars>>

\* finalize.run, first commit.
Finalize ==
    /\ Begins("finalize")
    /\ processed # NoAudio
    /\ processed_path' = TRUE
    /\ \E keep_originals \in BOOLEAN : Goto(IF keep_originals THEN "publish" ELSE "clean")
    /\ UNCHANGED <<status, original_path, fileVars, segments, taskVars, historyVars>>

\* finalize.run when originals are not kept: the files ...
UnlinkOriginal ==
    /\ run.pc = "clean"
    /\ audio' = [f \in File |-> IF f \in {run.path, "upload"} THEN 0 ELSE audio[f]]
    /\ Goto("forget")
    /\ UNCHANGED <<rowVars, transcript, segments, processed, fetches, taskVars, historyVars>>

\* ... and then the column.
ForgetOriginal ==
    /\ run.pc = "forget" /\ Unlocked
    /\ original_path' = None
    /\ Goto("publish")
    /\ UNCHANGED <<status, processed_path, fileVars, segments, taskVars, historyVars>>

Publish ==
    /\ Begins("publish")
    /\ status' = PROCESSED
    /\ run' = NoRun
    /\ asked' = NotAsked
    /\ UNCHANGED <<original_path, processed_path, fileVars, segments, taskVars, torn, late>>

\* Any step may fail once it has begun: the episode with it, whatever its
\* status is by then; the files stay as they are.
StepFails ==
    /\ run.pc \notin {"idle", "stop", "review", "publish"} /\ Unlocked
    /\ run.pc \in {"transcribe", "detect", "cut", "finalize"} => status = BUSY
    /\ status' = FAILED
    /\ run' = NoRun
    /\ UNCHANGED <<original_path, processed_path, fileVars, segments, taskVars, historyVars>>

RunStep ==
    \/ Claim \/ Download \/ PersistOriginal \/ BeginTranscribe \/ Transcribe
    \/ BeginDetect \/ StoreSegments \/ StopPipeline \/ BeginCut \/ Encode
    \/ Finalize \/ UnlinkOriginal \/ ForgetOriginal \/ Publish \/ StepFails
    \/ LosesStatus

-----------------------------------------------------------------------------
\* THE USER

\* POST /episodes/{id}/process, and requeue_failed for a failed one.
Queue ==
    /\ status \in {SKIPPED, FAILED, EXPIRED} /\ Unlocked
    /\ status' = QUEUED
    /\ segments' = IF status = FAILED THEN segments ELSE [segments EXCEPT !.doubt = "none"]
    /\ UNCHANGED <<original_path, processed_path, fileVars, run, taskVars, historyVars>>

\* Mutant: the dismissed episode goes back to where it was found.
DismissToDiscovered ==
    /\ status \in {FAILED, REVIEW} /\ Unlocked
    /\ status' = DISCOVERED
    /\ UNCHANGED <<original_path, processed_path, fileVars, segments, run, taskVars, historyVars>>

\* POST /episodes/{id}/dismiss
Dismiss ==
    /\ status \in {FAILED, REVIEW} /\ Unlocked
    /\ status' = SKIPPED
    /\ UNCHANGED <<original_path, processed_path, fileVars, segments, run, taskVars, historyVars>>

\* PATCH /segments/{id}, POST /episodes/{id}/segments, DELETE /segments/{id}:
\* any of them at any time, whatever the episode's status.  Only rows the user
\* added can be deleted, the others are marked as kept.  Who corrects the
\* segments has decided on them.
CorrectSegments ==
    /\ segments.rev < MaxRev /\ Unlocked
    /\ \E kind \in CASE segments.kind = "none"     -> {"manual"}
                      [] segments.kind = "manual"   -> {"manual", "none"}
                      [] segments.kind = "detected" -> {"detected"} :
           segments' = [kind |-> kind, rev |-> segments.rev + 1, doubt |-> "none"]
    /\ UNCHANGED <<rowVars, fileVars, run, taskVars, historyVars>>

\* Mutant: of the originals only the downloaded file is removed.
UnlinkArtifactsButCopies(from) ==
    /\ request = NoRequest /\ status \notin {BUSY, QUEUED}
    /\ request' = [from |-> from, known |-> processed_path]
    /\ processed' = IF processed_path THEN NoAudio ELSE processed
    /\ transcript' = IF from \in {"download", "transcribe"} THEN 0 ELSE transcript
    /\ audio' = IF from = "download" THEN [audio EXCEPT !["source"] = 0] ELSE audio
    /\ asked' = NotAsked
    /\ late' = (late /\ run.pc # "idle")
    /\ UNCHANGED <<rowVars, segments, fetches, run, cleanup, torn>>

\* POST /episodes/{id}/reprocess: the artifacts of "from" and the steps after
\* it.  The served file is removed only when the row knows of one.  The
\* history forgets how an earlier run began.
UnlinkArtifacts(from) ==
    /\ request = NoRequest /\ status \notin {BUSY, QUEUED}
    /\ request' = [from |-> from, known |-> processed_path]
    /\ processed' = IF processed_path THEN NoAudio ELSE processed
    /\ transcript' = IF from \in {"download", "transcribe"} THEN 0 ELSE transcript
    /\ audio' = IF from = "download" THEN [f \in File |-> 0] ELSE audio
    /\ asked' = NotAsked
    /\ late' = (late /\ run.pc # "idle")
    /\ UNCHANGED <<rowVars, segments, fetches, run, cleanup, torn>>

\* Its commit, with the deletion of the rows in the same transaction.  The
\* history keeps what it asks for, unless a served file stayed behind that the
\* row did not know of, or a run has been at it meanwhile.
CommitReprocess ==
    /\ request # NoRequest
    /\ status' = QUEUED
    /\ processed_path' = (processed_path /\ ~request.known)
    /\ original_path' = IF request.from = "download" THEN None ELSE original_path
    /\ segments' = [segments EXCEPT !.kind  = IF request.from = "cut" THEN @ ELSE "none",
                                    !.doubt = "none"]
    /\ request' = NoRequest
    /\ asked' = IF processed # NoAudio \/ late THEN NotAsked
                ELSE [rev |-> segments.rev,
                      fetch |-> IF request.from = "download" THEN fetches ELSE 0,
                      full |-> request.from \in {"download", "transcribe"}]
    /\ UNCHANGED <<fileVars, run, cleanup, torn, late>>

UserStep ==
    \/ Queue \/ Dismiss \/ CorrectSegments
    \/ \E from \in ReprocessStep : UnlinkArtifacts(from)
    \/ CommitReprocess

-----------------------------------------------------------------------------
\* CLEANUP, one part after the other, each with what it has listed: whether
\* the episode is past retention, or its original too old, is a free choice.

\* History: when cleanup removes audio that has been transcribed, the episode
\* may be downloaded again and be cut by the transcript of another download.
RemovesAudio == asked' = [asked EXCEPT !.full = @ /\ transcript = 0]

\* Retention: the processed episodes are listed ...
ListExpired ==
    /\ cleanup.at = "idle"
    /\ status = PROCESSED
    /\ cleanup' = [cleanup EXCEPT !.at = "expire", !.known = processed_path]
    /\ UNCHANGED <<rowVars, fileVars, segments, run, request, historyVars>>

\* ... their served file goes ...
UnlinkExpired ==
    /\ cleanup.at = "expire"
    /\ cleanup' = [cleanup EXCEPT !.at = "expired"]
    /\ processed' = IF cleanup.known THEN NoAudio ELSE processed
    /\ RemovesAudio
    /\ UNCHANGED <<rowVars, audio, transcript, segments, fetches, run, request, torn, late>>

\* Mutant: the path is forgotten, the status stays.
CommitExpiredKeepingStatus ==
    /\ cleanup.at = "expired" /\ Unlocked
    /\ processed_path' = (processed_path /\ ~cleanup.known)
    /\ cleanup' = NoCleanup
    /\ UNCHANGED <<status, original_path, fileVars, segments, run, request, historyVars>>

\* ... and their rows are committed, whatever they have become.
CommitExpired ==
    /\ cleanup.at = "expired" /\ Unlocked
    /\ status' = EXPIRED
    /\ processed_path' = (processed_path /\ ~cleanup.known)
    /\ cleanup' = NoCleanup
    /\ UNCHANGED <<original_path, fileVars, segments, run, request, historyVars>>

DONE == {PROCESSED, EXPIRED, SKIPPED}

\* Mutant: whatever the episode's status.
ListAgedOfAny ==
    /\ cleanup.at = "idle"
    /\ original_path # None
    /\ cleanup' = [cleanup EXCEPT !.at = "age", !.path = original_path]
    /\ UNCHANGED <<rowVars, fileVars, segments, run, request, historyVars>>

\* Kept originals of episodes that are done with ...
ListAged ==
    /\ cleanup.at = "idle"
    /\ original_path # None /\ status \in DONE
    /\ cleanup' = [cleanup EXCEPT !.at = "age", !.path = original_path]
    /\ UNCHANGED <<rowVars, fileVars, segments, run, request, historyVars>>

\* ... are removed when they are old ...
UnlinkAged ==
    /\ cleanup.at = "age"
    /\ audio' = [audio EXCEPT ![cleanup.path] = 0]
    /\ cleanup' = [NoCleanup EXCEPT !.at = "aged"]
    /\ RemovesAudio
    /\ UNCHANGED <<rowVars, transcript, segments, processed, fetches, run, request, torn, late>>

\* ... and then the column is.
CommitAged ==
    /\ cleanup.at = "aged" /\ Unlocked
    /\ original_path' = None
    /\ cleanup' = NoCleanup
    /\ UNCHANGED <<status, processed_path, fileVars, segments, run, request, historyVars>>

\* The orphan sweep counts an expired episode among those without a row ...
ListOrphans ==
    /\ cleanup.at = "idle"
    /\ status = EXPIRED
    /\ cleanup' = [cleanup EXCEPT !.at = "sweep"]
    /\ UNCHANGED <<rowVars, fileVars, segments, run, request, historyVars>>

\* ... and removes every file they have, in all directories.
Sweep ==
    /\ cleanup.at = "sweep"
    /\ audio' = [f \in File |-> 0]
    /\ transcript' = 0
    /\ processed' = NoAudio
    /\ cleanup' = NoCleanup
    /\ UNCHANGED <<rowVars, segments, fetches, run, request, historyVars>>

CleanupStep ==
    \/ ListExpired \/ UnlinkExpired \/ CommitExpired
    \/ ListAged \/ UnlinkAged \/ CommitAged
    \/ ListOrphans \/ Sweep

-----------------------------------------------------------------------------
\* The process dies and comes up again: resume() queues the episode that was
\* being worked on, transactions not committed are gone, files stay.  A copy
\* that was being made for upload is left unfinished beside the original.
Restart ==
    /\ Deaths
    /\ status' = IF status = BUSY THEN QUEUED ELSE status
    /\ run' = NoRun
    /\ request' = NoRequest
    /\ cleanup' = NoCleanup
    /\ torn' = (torn \/ (status = PROCESSED /\ (request # NoRequest \/ cleanup.at = "expired")))
    /\ segments' = [segments EXCEPT !.doubt = Untold]
    /\ \/ UNCHANGED audio
       \/ /\ run.pc \in {"listen", "upload"} /\ Present(run.path)
          /\ audio' = [audio EXCEPT !["fragment"] = audio[run.path]]
    /\ UNCHANGED <<original_path, processed_path, transcript, processed, fetches, late, asked>>

Next == RunStep \/ UserStep \/ CleanupStep \/ Restart

Spec == Init /\ [][Next]_vars

-----------------------------------------------------------------------------
\* PROPERTIES

\* What the feed lists can be played: the row of a processed episode says that
\* it has a file, and it is there whenever a run has published it, through every
\* failure, death and restart.  It is gone only while a reprocess or the
\* retention is between unlink and commit, until the next run when a process
\* has died there, and when cleanup or a reprocess had begun before the run.
PublishedIsServable ==
    status = PROCESSED =>
        /\ processed_path
        /\ processed = NoAudio => request # NoRequest \/ cleanup.at = "expired" \/ torn \/ late

\* From the moment a run has found its original until it deletes it, the file
\* is there: neither cleanup nor a reprocess takes it from under the run,
\* unless it had begun before the run.
OriginalStaysForTheRun ==
    run.pc \notin {"idle", "download", "forget", "publish"} /\ ~late =>
        run.path # None /\ (run.pc # "clean" => Present(run.path))

\* What is published is what was asked for, whatever failed, died, or was
\* corrected between the request and now: a cut of the segment rows of then
\* or later; after "Redo from download", of a newer download; and, unless the
\* feed is whitelisted, after that or "Re-transcribe" beside the transcript
\* of that very audio.  Two things defeat it: at the commit of the request a
\* served file that the row did not know of or a run that was at it meanwhile,
\* and later cleanup removing audio that has been transcribed.
PublishesWhatWasAsked ==
    [][run.pc = "publish" /\ run' = NoRun /\ status' = PROCESSED /\ processed # NoAudio =>
        /\ processed.cut >= asked.rev
        /\ processed.of > asked.fetch
        /\ asked.full => transcript = processed.of]_vars

\* The original offered for download, and worked from, is the audio that was
\* downloaded, not a copy of it.
OriginalIsSource == original_path \in {"source", None}

\* When more was flagged than may be removed, a person decides before
\* anything is published: neither a retry, a reprocess nor a correction lets
\* the episode past the check by itself.  A run that ends between the commit
\* of the segments and the commit of the review does: the next run finds rows
\* and skips the check with the detection.
ReviewIsDecided == status = PROCESSED => segments.doubt # "open"
=============================================================================
