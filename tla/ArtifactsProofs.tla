--------------------------- MODULE ArtifactsProofs --------------------------
(***************************************************************************)
(* What the files and the row of an episode keep for any number of         *)
(* downloads and of changes to the segments, wherever the process dies,    *)
(* and whenever cleanup and reprocess get in between.                      *)
(***************************************************************************)
EXTENDS Artifacts, TLAPS

LEMMA StatusTypes ==
    /\ {QUEUED, SKIPPED, FAILED, REVIEW, PROCESSED, EXPIRED, BUSY} \subseteq Statuses
    /\ BUSY \notin {QUEUED, SKIPPED, FAILED, REVIEW, PROCESSED, EXPIRED}
    /\ PROCESSED \notin {QUEUED, SKIPPED, FAILED, REVIEW, EXPIRED}
    /\ EXPIRED \notin {QUEUED, SKIPPED, FAILED, REVIEW}
    /\ {REVIEW, SKIPPED} \intersect {QUEUED, FAILED} = {}
    /\ QUEUED # FAILED
BY DEF Statuses, ALL_STATUSES, ACTIVE, DISCOVERED, SKIPPED, QUEUED, DOWNLOADING, TRANSCRIBING,
       DETECTING, CUTTING, PROCESSED, FAILED, REVIEW, EXPIRED, BUSY

LEMMA Numbers ==
    /\ MaxFetch \in Nat /\ MaxRev \in Nat
    /\ Fetch \subseteq Nat /\ Rev \subseteq Nat /\ 0 \in Fetch /\ 0 \in Rev
BY ArtifactsAssumption DEF Fetch, Rev

LEMMA Nothing == None \notin File /\ None \notin ReprocessStep
BY DEF None, File, ReprocessStep

-----------------------------------------------------------------------------
\* THE RUN

\* Whoever works on a file knows its path.
Paths ==
    /\ run.pc \notin {"idle", "download"} => run.path # None
    /\ cleanup.at = "age" => cleanup.path # None

\* A run that began with nobody else at the episode stays the only one at it:
\* reprocess refuses the episode and cleanup does not list it.
Turns ==
    /\ status = BUSY => run.pc # "idle"
    /\ run.pc # "idle" => status \in {BUSY, EXPIRED, QUEUED}
    /\ run.pc # "idle" /\ ~late => status = BUSY /\ request = NoRequest /\ cleanup = NoCleanup

\* What a run knows by where it is.
Stages ==
    /\ run.pc = "encode" => processed = NoAudio
    /\ run.pc \in {"listen", "upload"} => transcript = 0
    /\ run.pc = "upload" /\ ~late => Present("upload")
    /\ run.pc \in {"clean", "forget", "publish"} /\ ~late => processed # NoAudio

\* A download is made only when there is no file, so all files are of one.
OneVersion == \A f, g \in File : Present(f) /\ Present(g) => audio[f] = audio[g]

RunInv == TypeOK /\ Paths /\ Turns /\ Stages /\ OneVersion /\ OriginalStaysForTheRun


LEMMA RunTypes ==
    ASSUME TypeOK, Paths, RunStep
    PROVE  TypeOK'
<1> USE StatusTypes, Numbers, Nothing
<1>1. CASE Claim
  BY <1>1 DEF Claim, TypeOK, PC, Goto, NoRequest, NoCleanup, taskVars, fileVars
<1>2. CASE Download
  <2>0. UNCHANGED <<rowVars, transcript, segments, processed, taskVars, historyVars>>
    BY <1>2 DEF Download
  <2>1. CASE \E f \in File : Present(f) /\ run' = [run EXCEPT !.pc = "persist", !.path = f] /\ UNCHANGED <<audio, fetches>>
    <3>1. run' \in [pc : PC, path : File \union {None}, cut : Rev]
      BY <2>1 DEF TypeOK, PC
    <3>2. audio' \in [File -> Fetch] /\ fetches' \in Fetch
      BY <2>1 DEF TypeOK
    <3> QED BY <2>0, <3>1, <3>2 DEF TypeOK, rowVars, taskVars, historyVars
  <2>2. CASE /\ fetches < MaxFetch
             /\ fetches' = fetches + 1
             /\ audio' = [audio EXCEPT !["source"] = fetches + 1]
             /\ run' = [run EXCEPT !.pc = "persist", !.path = "source"]
    <3>1. fetches + 1 \in Fetch /\ "source" \in File
      BY <2>2 DEF TypeOK, Fetch, File
    <3>2. audio' \in [File -> Fetch] /\ fetches' \in Fetch
      BY <2>2, <3>1 DEF TypeOK
    <3>3. run' \in [pc : PC, path : File \union {None}, cut : Rev]
      BY <2>2, <3>1 DEF TypeOK, PC
    <3> QED BY <2>0, <3>2, <3>3 DEF TypeOK, rowVars, taskVars, historyVars
  <2> QED BY <1>2, <2>1, <2>2 DEF Download
<1>3. CASE PersistOriginal
  <2>1. run' \in [pc : PC, path : File \union {None}, cut : Rev] /\ original_path' \in File \union {None}
    BY <1>3 DEF PersistOriginal, Goto, TypeOK, PC
  <2>2. asked' \in [rev : Rev, fetch : Fetch, full : BOOLEAN]
    BY <1>3 DEF PersistOriginal, TypeOK
  <2> QED BY <1>3, <2>1, <2>2 DEF PersistOriginal, TypeOK, fileVars, taskVars
<1>4. CASE BeginTranscribe
  <2>1. run' \in [pc : PC, path : File \union {None}, cut : Rev]
    BY <1>4 DEF BeginTranscribe, Goto, TypeOK, PC
  <2>2. audio' \in [File -> Fetch]
    BY <1>4 DEF BeginTranscribe, Begins, Paths, TypeOK
  <2> QED BY <1>4, <2>1, <2>2 DEF BeginTranscribe, TypeOK, rowVars, taskVars, historyVars
<1>5. CASE Transcribe
  <2>1. run' \in [pc : PC, path : File \union {None}, cut : Rev]
    BY <1>5 DEF Transcribe, Goto, TypeOK, PC
  <2>2. transcript' \in Fetch
    BY <1>5 DEF Transcribe, Paths, TypeOK, File
  <2> QED BY <1>5, <2>1, <2>2 DEF Transcribe, TypeOK, rowVars, taskVars, historyVars
<1>6. CASE BeginDetect
  BY <1>6 DEF BeginDetect, TypeOK, PC, Goto, Begins, rowVars, taskVars, fileVars, historyVars
<1>7. CASE StoreSegments
  BY <1>7 DEF StoreSegments, TypeOK, PC, Kinds, Doubt, Rev, Goto, rowVars, taskVars, fileVars,
     historyVars
<1>8. CASE StopPipeline
  BY <1>8 DEF StopPipeline, TypeOK, PC, NoRun, taskVars, fileVars, historyVars
<1>9. CASE BeginCut
  <2>1. run' \in [pc : PC, path : File \union {None}, cut : Rev]
    <3>1. segments.rev \in Rev /\ run \in [pc : PC, path : File \union {None}, cut : Rev]
      BY DEF TypeOK
    <3>2. "finalize" \in PC /\ "encode" \in PC
      BY DEF PC
    <3> QED BY <1>9, <3>1, <3>2 DEF BeginCut, Goto
  <2> QED BY <1>9, <2>1 DEF BeginCut, TypeOK, rowVars, fileVars, taskVars, historyVars
<1>10. CASE Encode
  <2>1. run' \in [pc : PC, path : File \union {None}, cut : Rev]
    BY <1>10 DEF Encode, TypeOK, PC
  <2>2. processed' \in [of : Fetch, cut : Rev]
    BY <1>10 DEF Encode, Paths, TypeOK
  <2> QED BY <1>10, <2>1, <2>2 DEF Encode, TypeOK, rowVars, taskVars, historyVars
<1>11. CASE Finalize
  BY <1>11 DEF Finalize, TypeOK, PC, Goto, NoAudio, Begins, taskVars, fileVars, historyVars
<1>12. CASE UnlinkOriginal
  BY <1>12 DEF UnlinkOriginal, TypeOK, PC, Goto, rowVars, taskVars, historyVars
<1>13. CASE ForgetOriginal
  BY <1>13 DEF ForgetOriginal, TypeOK, PC, Goto, taskVars, fileVars, historyVars
<1>14. CASE Publish
  BY <1>14 DEF Publish, TypeOK, PC, NoRun, NotAsked, Begins, taskVars, fileVars
<1>15. CASE StepFails
  BY <1>15 DEF StepFails, TypeOK, PC, NoRun, taskVars, fileVars, historyVars
<1>16. CASE LosesStatus
  <2>1. segments' \in [kind : Kinds, rev : Rev, doubt : Doubt]
    BY <1>16 DEF LosesStatus, Untold, TypeOK, Doubt
  <2> QED BY <1>16, <2>1 DEF LosesStatus, NoRun, TypeOK, PC, rowVars, fileVars, taskVars, historyVars
<1> QED BY <1>1, <1>2, <1>3, <1>4, <1>5, <1>6, <1>7, <1>8, <1>9, <1>10, <1>11, <1>12, <1>13,
           <1>14, <1>15, <1>16
        DEF RunStep

LEMMA OtherTypes ==
    ASSUME TypeOK, Paths, UserStep \/ CleanupStep \/ Restart
    PROVE  TypeOK'
<1> USE StatusTypes, Numbers, Nothing
<1>1. CASE Queue
  BY <1>1 DEF Queue, TypeOK, Doubt, taskVars, fileVars, historyVars
<1>2. CASE Dismiss
  BY <1>2 DEF Dismiss, TypeOK, taskVars, fileVars, historyVars
<1>3. CASE CorrectSegments
  <2>1. segments' \in [kind : Kinds, rev : Rev, doubt : Doubt]
    BY <1>3 DEF CorrectSegments, TypeOK, Kinds, Doubt, Rev
  <2> QED BY <1>3, <2>1 DEF CorrectSegments, TypeOK, rowVars, fileVars, taskVars, historyVars
<1>4. CASE \E from \in ReprocessStep : UnlinkArtifacts(from)
  BY <1>4 DEF UnlinkArtifacts, TypeOK, NoRequest, NotAsked, NoAudio, rowVars
<1>5. CASE CommitReprocess
  <2>1. segments' \in [kind : Kinds, rev : Rev, doubt : Doubt]
    BY <1>5 DEF CommitReprocess, TypeOK, Kinds, Doubt
  <2>2. asked' \in [rev : Rev, fetch : Fetch, full : BOOLEAN]
    <3>1. segments.rev \in Rev /\ fetches \in Fetch
      BY DEF TypeOK
    <3> QED BY <1>5, <3>1 DEF CommitReprocess, NotAsked
  <2> QED BY <1>5, <2>1, <2>2 DEF CommitReprocess, NoRequest, TypeOK, fileVars
<1>6. CASE ListExpired
  BY <1>6 DEF ListExpired, TypeOK, rowVars, fileVars, historyVars
<1>7. CASE UnlinkExpired
  <2>1. processed' \in [of : Fetch, cut : Rev] /\ asked' \in [rev : Rev, fetch : Fetch, full : BOOLEAN]
    BY <1>7 DEF UnlinkExpired, RemovesAudio, NoAudio, TypeOK
  <2> QED BY <1>7, <2>1 DEF UnlinkExpired, TypeOK, rowVars
<1>8. CASE CommitExpired
  BY <1>8 DEF CommitExpired, TypeOK, NoCleanup, fileVars, historyVars
<1>9. CASE ListAged
  BY <1>9 DEF ListAged, TypeOK, DONE, rowVars, fileVars, historyVars
<1>10. CASE UnlinkAged
  <2>1. audio' \in [File -> Fetch] /\ asked' \in [rev : Rev, fetch : Fetch, full : BOOLEAN]
    BY <1>10 DEF UnlinkAged, RemovesAudio, TypeOK
  <2> QED BY <1>10, <2>1 DEF UnlinkAged, NoCleanup, TypeOK, rowVars
<1>11. CASE CommitAged
  BY <1>11 DEF CommitAged, TypeOK, NoCleanup, fileVars, historyVars
<1>12. CASE ListOrphans
  BY <1>12 DEF ListOrphans, TypeOK, rowVars, fileVars, historyVars
<1>13. CASE Sweep
  <2>1. audio' \in [File -> Fetch] /\ transcript' \in Fetch /\ processed' \in [of : Fetch, cut : Rev]
    BY <1>13 DEF Sweep, NoAudio
  <2> QED BY <1>13, <2>1 DEF Sweep, NoCleanup, TypeOK, rowVars, historyVars
<1>14. CASE Restart
  <2>1. run' \in [pc : PC, path : File \union {None}, cut : Rev]
    BY <1>14 DEF Restart, NoRun, PC
  <2>2. segments' \in [kind : Kinds, rev : Rev, doubt : Doubt]
    BY <1>14 DEF Restart, Untold, TypeOK, Doubt
  <2>3. audio' \in [File -> Fetch]
    BY <1>14 DEF Restart, Paths, TypeOK
  <2>4. status' \in Statuses /\ torn' \in BOOLEAN
    BY <1>14 DEF Restart, TypeOK
  <2> QED BY <1>14, <2>1, <2>2, <2>3, <2>4 DEF Restart, NoRequest, NoCleanup, TypeOK
<1> QED BY <1>1, <1>2, <1>3, <1>4, <1>5, <1>6, <1>7, <1>8, <1>9, <1>10, <1>11, <1>12, <1>13,
           <1>14
        DEF UserStep, CleanupStep

LEMMA PathsKept ==
    ASSUME RunInv, Next
    PROVE  Paths'
<1> USE Nothing DEF RunInv
<1>1. CASE Claim
  BY <1>1 DEF Claim, Paths, TypeOK, Goto, NoRequest, NoCleanup, taskVars, fileVars
<1>2. CASE Download
  <2>1. PICK f \in File : run' = [run EXCEPT !.pc = "persist", !.path = f]
    BY <1>2 DEF Download, File
  <2>2. run'.path = f /\ f # None
    BY <2>1, Nothing DEF TypeOK
  <2>3. UNCHANGED cleanup
    BY <1>2 DEF Download, taskVars
  <2> QED BY <2>2, <2>3 DEF Paths
<1>3. CASE PersistOriginal
  BY <1>3 DEF PersistOriginal, Paths, TypeOK, Goto, taskVars, fileVars
<1>4. CASE BeginTranscribe
  BY <1>4 DEF BeginTranscribe, Paths, TypeOK, Goto, Begins, rowVars, taskVars, historyVars
<1>5. CASE Transcribe
  BY <1>5 DEF Transcribe, Paths, TypeOK, Goto, rowVars, taskVars, historyVars
<1>6. CASE BeginDetect
  BY <1>6 DEF BeginDetect, Paths, TypeOK, Goto, Begins, rowVars, taskVars, fileVars, historyVars
<1>7. CASE StoreSegments
  BY <1>7 DEF StoreSegments, Paths, TypeOK, Goto, rowVars, taskVars, fileVars, historyVars
<1>8. CASE StopPipeline
  BY <1>8 DEF StopPipeline, Paths, TypeOK, NoRun, taskVars, fileVars, historyVars
<1>9. CASE BeginCut
  BY <1>9 DEF BeginCut, Paths, TypeOK, Goto, NoAudio, Begins, rowVars, taskVars, fileVars,
     historyVars
<1>10. CASE Encode
  BY <1>10 DEF Encode, Paths, TypeOK, rowVars, taskVars, historyVars
<1>11. CASE Finalize
  BY <1>11 DEF Finalize, Paths, TypeOK, Goto, NoAudio, Begins, taskVars, fileVars, historyVars
<1>12. CASE UnlinkOriginal
  BY <1>12 DEF UnlinkOriginal, Paths, TypeOK, Goto, rowVars, taskVars, historyVars
<1>13. CASE ForgetOriginal
  BY <1>13 DEF ForgetOriginal, Paths, TypeOK, Goto, taskVars, fileVars, historyVars
<1>14. CASE Publish
  BY <1>14 DEF Publish, Paths, TypeOK, NoRun, NotAsked, Begins, taskVars, fileVars
<1>15. CASE StepFails
  BY <1>15 DEF StepFails, Paths, TypeOK, NoRun, taskVars, fileVars, historyVars
<1>16. CASE LosesStatus
  BY <1>16 DEF LosesStatus, Paths, TypeOK, NoRun, Untold, rowVars, taskVars, fileVars,
     historyVars
<1>17. CASE Queue
  BY <1>17 DEF Queue, Paths, TypeOK, taskVars, fileVars, historyVars
<1>18. CASE Dismiss
  BY <1>18 DEF Dismiss, Paths, TypeOK, taskVars, fileVars, historyVars
<1>19. CASE CorrectSegments
  BY <1>19 DEF CorrectSegments, Paths, TypeOK, rowVars, taskVars, fileVars, historyVars
<1>20. CASE \E from \in ReprocessStep : UnlinkArtifacts(from)
  BY <1>20 DEF UnlinkArtifacts, Paths, TypeOK, NoRequest, NotAsked, NoAudio, rowVars
<1>21. CASE CommitReprocess
  BY <1>21 DEF CommitReprocess, Paths, TypeOK, NoRequest, NotAsked, NoAudio, fileVars
<1>22. CASE ListExpired
  BY <1>22 DEF ListExpired, Paths, TypeOK, rowVars, fileVars, historyVars
<1>23. CASE UnlinkExpired
  BY <1>23 DEF UnlinkExpired, Paths, TypeOK, NoAudio, RemovesAudio, rowVars
<1>24. CASE CommitExpired
  BY <1>24 DEF CommitExpired, Paths, TypeOK, NoCleanup, fileVars, historyVars
<1>25. CASE ListAged
  BY <1>25 DEF ListAged, Paths, TypeOK, DONE, rowVars, fileVars, historyVars
<1>26. CASE UnlinkAged
  BY <1>26 DEF UnlinkAged, Paths, TypeOK, NoCleanup, RemovesAudio, rowVars
<1>27. CASE CommitAged
  BY <1>27 DEF CommitAged, Paths, TypeOK, NoCleanup, fileVars, historyVars
<1>28. CASE ListOrphans
  BY <1>28 DEF ListOrphans, Paths, TypeOK, rowVars, fileVars, historyVars
<1>29. CASE Sweep
  BY <1>29 DEF Sweep, Paths, TypeOK, NoCleanup, NoAudio, rowVars, historyVars
<1>30. CASE Restart
  BY <1>30 DEF Restart, Paths, TypeOK, NoRun, NoRequest, NoCleanup, Untold
<1> QED BY <1>1, <1>2, <1>3, <1>4, <1>5, <1>6, <1>7, <1>8, <1>9, <1>10, <1>11, <1>12, <1>13,
           <1>14, <1>15, <1>16, <1>17, <1>18, <1>19, <1>20, <1>21, <1>22, <1>23, <1>24,
           <1>25, <1>26, <1>27, <1>28, <1>29, <1>30
        DEF Next, RunStep, UserStep, CleanupStep

LEMMA TurnsKept ==
    ASSUME RunInv, Next
    PROVE  Turns'
<1> USE StatusTypes DEF RunInv
<1>1. CASE Claim
  BY <1>1 DEF Claim, Turns, TypeOK, Goto, NoRequest, NoCleanup, taskVars, fileVars
<1>2. CASE Download
  BY <1>2 DEF Download, Turns, TypeOK, rowVars, taskVars, historyVars
<1>3. CASE PersistOriginal
  BY <1>3 DEF PersistOriginal, Turns, TypeOK, Goto, taskVars, fileVars
<1>4. CASE BeginTranscribe
  BY <1>4 DEF BeginTranscribe, Turns, TypeOK, Goto, Begins, rowVars, taskVars, historyVars
<1>5. CASE Transcribe
  BY <1>5 DEF Transcribe, Turns, TypeOK, Goto, rowVars, taskVars, historyVars
<1>6. CASE BeginDetect
  BY <1>6 DEF BeginDetect, Turns, TypeOK, Goto, Begins, rowVars, taskVars, fileVars, historyVars
<1>7. CASE StoreSegments
  BY <1>7 DEF StoreSegments, Turns, TypeOK, Goto, rowVars, taskVars, fileVars, historyVars
<1>8. CASE StopPipeline
  BY <1>8 DEF StopPipeline, Turns, TypeOK, NoRun, taskVars, fileVars, historyVars
<1>9. CASE BeginCut
  BY <1>9 DEF BeginCut, Turns, TypeOK, Goto, NoAudio, Begins, rowVars, taskVars, fileVars,
     historyVars
<1>10. CASE Encode
  BY <1>10 DEF Encode, Turns, TypeOK, rowVars, taskVars, historyVars
<1>11. CASE Finalize
  BY <1>11 DEF Finalize, Turns, TypeOK, Goto, NoAudio, Begins, taskVars, fileVars, historyVars
<1>12. CASE UnlinkOriginal
  BY <1>12 DEF UnlinkOriginal, Turns, TypeOK, Goto, rowVars, taskVars, historyVars
<1>13. CASE ForgetOriginal
  BY <1>13 DEF ForgetOriginal, Turns, TypeOK, Goto, taskVars, fileVars, historyVars
<1>14. CASE Publish
  BY <1>14 DEF Publish, Turns, TypeOK, NoRun, NotAsked, Begins, taskVars, fileVars
<1>15. CASE StepFails
  BY <1>15 DEF StepFails, Turns, TypeOK, NoRun, taskVars, fileVars, historyVars
<1>16. CASE LosesStatus
  BY <1>16 DEF LosesStatus, Turns, TypeOK, NoRun, Untold, rowVars, taskVars, fileVars,
     historyVars
<1>17. CASE Queue
  BY <1>17 DEF Queue, Turns, TypeOK, taskVars, fileVars, historyVars
<1>18. CASE Dismiss
  BY <1>18 DEF Dismiss, Turns, TypeOK, taskVars, fileVars, historyVars
<1>19. CASE CorrectSegments
  BY <1>19 DEF CorrectSegments, Turns, TypeOK, rowVars, taskVars, fileVars, historyVars
<1>20. CASE \E from \in ReprocessStep : UnlinkArtifacts(from)
  BY <1>20 DEF UnlinkArtifacts, Turns, TypeOK, NoRequest, NotAsked, NoAudio, rowVars
<1>21. CASE CommitReprocess
  BY <1>21 DEF CommitReprocess, Turns, TypeOK, NoRequest, NotAsked, NoAudio, fileVars
<1>22. CASE ListExpired
  BY <1>22 DEF ListExpired, Turns, TypeOK, rowVars, fileVars, historyVars
<1>23. CASE UnlinkExpired
  BY <1>23 DEF UnlinkExpired, Turns, TypeOK, NoCleanup, NoAudio, RemovesAudio, rowVars
<1>24. CASE CommitExpired
  BY <1>24 DEF CommitExpired, Turns, TypeOK, NoCleanup, fileVars, historyVars
<1>25. CASE ListAged
  BY <1>25 DEF ListAged, Turns, TypeOK, DONE, rowVars, fileVars, historyVars
<1>26. CASE UnlinkAged
  BY <1>26 DEF UnlinkAged, Turns, TypeOK, NoCleanup, RemovesAudio, rowVars
<1>27. CASE CommitAged
  BY <1>27 DEF CommitAged, Turns, TypeOK, NoCleanup, fileVars, historyVars
<1>28. CASE ListOrphans
  BY <1>28 DEF ListOrphans, Turns, TypeOK, rowVars, fileVars, historyVars
<1>29. CASE Sweep
  BY <1>29 DEF Sweep, Turns, TypeOK, NoCleanup, NoAudio, rowVars, historyVars
<1>30. CASE Restart
  BY <1>30 DEF Restart, Turns, TypeOK, NoRun, NoRequest, NoCleanup, Untold
<1> QED BY <1>1, <1>2, <1>3, <1>4, <1>5, <1>6, <1>7, <1>8, <1>9, <1>10, <1>11, <1>12, <1>13,
           <1>14, <1>15, <1>16, <1>17, <1>18, <1>19, <1>20, <1>21, <1>22, <1>23, <1>24,
           <1>25, <1>26, <1>27, <1>28, <1>29, <1>30
        DEF Next, RunStep, UserStep, CleanupStep

LEMMA OriginalKept ==
    ASSUME RunInv, Next
    PROVE  OriginalStaysForTheRun' /\ OneVersion'
<1> USE Numbers DEF RunInv
<1>1. CASE Claim
  BY <1>1 DEF Claim, Turns, OriginalStaysForTheRun, OneVersion, Present, TypeOK, Goto,
     NoRequest, NoCleanup, taskVars, fileVars
<1>2. CASE Download
  <2>1. CASE \E f \in File : Present(f) /\ run' = [run EXCEPT !.pc = "persist", !.path = f] /\ UNCHANGED audio
    <3>1. run'.pc = "persist" /\ run'.path \in File /\ audio[run'.path] # 0
      BY <2>1 DEF TypeOK, Present
    <3> QED BY <2>1, <3>1, Nothing DEF OriginalStaysForTheRun, OneVersion, Present
  <2>2. CASE /\ \A f \in File : ~Present(f)
             /\ audio' = [audio EXCEPT !["source"] = fetches + 1]
             /\ run' = [run EXCEPT !.pc = "persist", !.path = "source"]
    <3>1. fetches + 1 # 0 /\ "source" \in File /\ None # "source"
      BY DEF TypeOK, File, None
    <3>2. run'.path = "source" /\ run'.pc = "persist" /\ audio'["source"] # 0
      BY <2>2, <3>1 DEF TypeOK
    <3>3. OneVersion'
      BY <2>2, <3>1 DEF TypeOK, OneVersion, Present
    <3> QED BY <3>1, <3>2, <3>3 DEF OriginalStaysForTheRun, Present
  <2> QED BY <1>2, <2>1, <2>2 DEF Download
<1>3. CASE PersistOriginal
  BY <1>3 DEF PersistOriginal, Turns, OriginalStaysForTheRun, OneVersion, Present, TypeOK, Goto,
     taskVars, fileVars
<1>4. CASE BeginTranscribe
  BY <1>4 DEF BeginTranscribe, Turns, OriginalStaysForTheRun, OneVersion, Present, TypeOK,
     Paths, Goto, Begins, rowVars, taskVars, historyVars
<1>5. CASE Transcribe
  BY <1>5 DEF Transcribe, Turns, OriginalStaysForTheRun, OneVersion, Present, TypeOK, Goto,
     rowVars, taskVars, historyVars
<1>6. CASE BeginDetect
  BY <1>6 DEF BeginDetect, Turns, OriginalStaysForTheRun, OneVersion, Present, TypeOK, Goto,
     Begins, rowVars, taskVars, fileVars, historyVars
<1>7. CASE StoreSegments
  BY <1>7 DEF StoreSegments, Turns, OriginalStaysForTheRun, OneVersion, Present, TypeOK, Goto,
     rowVars, taskVars, fileVars, historyVars
<1>8. CASE StopPipeline
  BY <1>8 DEF StopPipeline, Turns, OriginalStaysForTheRun, OneVersion, Present, TypeOK, NoRun,
     taskVars, fileVars, historyVars
<1>9. CASE BeginCut
  BY <1>9 DEF BeginCut, Turns, OriginalStaysForTheRun, OneVersion, Present, TypeOK, Goto,
     NoAudio, Begins, rowVars, taskVars, fileVars, historyVars
<1>10. CASE Encode
  BY <1>10 DEF Encode, Turns, OriginalStaysForTheRun, OneVersion, Present, TypeOK, rowVars,
     taskVars, historyVars
<1>11. CASE Finalize
  BY <1>11 DEF Finalize, Turns, OriginalStaysForTheRun, OneVersion, Present, TypeOK, Goto,
     NoAudio, Begins, taskVars, fileVars, historyVars
<1>12. CASE UnlinkOriginal
  BY <1>12 DEF UnlinkOriginal, Turns, OriginalStaysForTheRun, OneVersion, Present, TypeOK, Goto,
     rowVars, taskVars, historyVars
<1>13. CASE ForgetOriginal
  BY <1>13 DEF ForgetOriginal, Turns, OriginalStaysForTheRun, OneVersion, Present, TypeOK, Goto,
     taskVars, fileVars, historyVars
<1>14. CASE Publish
  BY <1>14 DEF Publish, Turns, OriginalStaysForTheRun, OneVersion, Present, TypeOK, NoRun,
     NotAsked, Begins, taskVars, fileVars
<1>15. CASE StepFails
  BY <1>15 DEF StepFails, Turns, OriginalStaysForTheRun, OneVersion, Present, TypeOK, NoRun,
     taskVars, fileVars, historyVars
<1>16. CASE LosesStatus
  BY <1>16 DEF LosesStatus, Turns, OriginalStaysForTheRun, OneVersion, Present, TypeOK, NoRun,
     Untold, rowVars, taskVars, fileVars, historyVars
<1>17. CASE Queue
  BY <1>17 DEF Queue, Turns, OriginalStaysForTheRun, OneVersion, Present, TypeOK, taskVars,
     fileVars, historyVars
<1>18. CASE Dismiss
  BY <1>18 DEF Dismiss, Turns, OriginalStaysForTheRun, OneVersion, Present, TypeOK, taskVars,
     fileVars, historyVars
<1>19. CASE CorrectSegments
  BY <1>19 DEF CorrectSegments, Turns, OriginalStaysForTheRun, OneVersion, Present, TypeOK,
     rowVars, taskVars, fileVars, historyVars
<1>20. CASE \E from \in ReprocessStep : UnlinkArtifacts(from)
  BY <1>20 DEF UnlinkArtifacts, Turns, OriginalStaysForTheRun, OneVersion, Present, TypeOK,
     NoRequest, NotAsked, NoAudio, rowVars
<1>21. CASE CommitReprocess
  BY <1>21 DEF CommitReprocess, Turns, OriginalStaysForTheRun, OneVersion, Present, TypeOK,
     NoRequest, NotAsked, NoAudio, fileVars
<1>22. CASE ListExpired
  BY <1>22 DEF ListExpired, Turns, OriginalStaysForTheRun, OneVersion, Present, TypeOK, rowVars,
     fileVars, historyVars
<1>23. CASE UnlinkExpired
  BY <1>23 DEF UnlinkExpired, Turns, OriginalStaysForTheRun, OneVersion, Present, TypeOK,
     NoAudio, RemovesAudio, rowVars
<1>24. CASE CommitExpired
  BY <1>24 DEF CommitExpired, Turns, OriginalStaysForTheRun, OneVersion, Present, TypeOK,
     NoCleanup, fileVars, historyVars
<1>25. CASE ListAged
  BY <1>25 DEF ListAged, Turns, OriginalStaysForTheRun, OneVersion, Present, TypeOK, DONE,
     rowVars, fileVars, historyVars
<1>26. CASE UnlinkAged
  BY <1>26 DEF UnlinkAged, Turns, OriginalStaysForTheRun, OneVersion, Present, TypeOK,
     NoCleanup, RemovesAudio, rowVars
<1>27. CASE CommitAged
  BY <1>27 DEF CommitAged, Turns, OriginalStaysForTheRun, OneVersion, Present, TypeOK,
     NoCleanup, fileVars, historyVars
<1>28. CASE ListOrphans
  BY <1>28 DEF ListOrphans, Turns, OriginalStaysForTheRun, OneVersion, Present, TypeOK, rowVars,
     fileVars, historyVars
<1>29. CASE Sweep
  BY <1>29 DEF Sweep, Turns, OriginalStaysForTheRun, OneVersion, Present, TypeOK, NoCleanup,
     NoAudio, rowVars, historyVars
<1>30. CASE Restart
  BY <1>30 DEF Restart, Turns, OriginalStaysForTheRun, OneVersion, Present, TypeOK, Paths,
     NoRun, NoRequest, NoCleanup, Untold
<1> QED BY <1>1, <1>2, <1>3, <1>4, <1>5, <1>6, <1>7, <1>8, <1>9, <1>10, <1>11, <1>12, <1>13,
           <1>14, <1>15, <1>16, <1>17, <1>18, <1>19, <1>20, <1>21, <1>22, <1>23, <1>24,
           <1>25, <1>26, <1>27, <1>28, <1>29, <1>30
        DEF Next, RunStep, UserStep, CleanupStep

LEMMA StagesKept ==
    ASSUME RunInv, Next
    PROVE  Stages'
<1> USE Numbers DEF RunInv
<1>1. CASE Claim
  BY <1>1 DEF Claim, Turns, Stages, Present, NoAudio, TypeOK, Goto, NoRequest, NoCleanup,
     taskVars, fileVars
<1>2. CASE Download
  BY <1>2 DEF Download, Turns, Stages, Present, NoAudio, TypeOK, rowVars, taskVars, historyVars
<1>3. CASE PersistOriginal
  BY <1>3 DEF PersistOriginal, Turns, Stages, Present, NoAudio, TypeOK, Goto, taskVars, fileVars
<1>4. CASE BeginTranscribe
  BY <1>4 DEF BeginTranscribe, Turns, Stages, Present, NoAudio, TypeOK, File, Goto, Begins,
     rowVars, taskVars, historyVars
<1>5. CASE Transcribe
  BY <1>5 DEF Transcribe, Turns, Stages, Present, NoAudio, TypeOK, Goto, rowVars, taskVars,
     historyVars
<1>6. CASE BeginDetect
  BY <1>6 DEF BeginDetect, Turns, Stages, Present, NoAudio, TypeOK, Goto, Begins, rowVars,
     taskVars, fileVars, historyVars
<1>7. CASE StoreSegments
  BY <1>7 DEF StoreSegments, Turns, Stages, Present, NoAudio, TypeOK, Goto, rowVars, taskVars,
     fileVars, historyVars
<1>8. CASE StopPipeline
  BY <1>8 DEF StopPipeline, Turns, Stages, Present, NoAudio, TypeOK, NoRun, taskVars, fileVars,
     historyVars
<1>9. CASE BeginCut
  BY <1>9 DEF BeginCut, Turns, Stages, Present, NoAudio, TypeOK, Goto, Begins, rowVars,
     taskVars, fileVars, historyVars
<1>10. CASE Encode
  BY <1>10 DEF Encode, Turns, Stages, Present, NoAudio, TypeOK, rowVars, taskVars, historyVars
<1>11. CASE Finalize
  BY <1>11 DEF Finalize, Turns, Stages, Present, NoAudio, TypeOK, Goto, Begins, taskVars,
     fileVars, historyVars
<1>12. CASE UnlinkOriginal
  BY <1>12 DEF UnlinkOriginal, Turns, Stages, Present, NoAudio, TypeOK, Goto, rowVars, taskVars,
     historyVars
<1>13. CASE ForgetOriginal
  BY <1>13 DEF ForgetOriginal, Turns, Stages, Present, NoAudio, TypeOK, Goto, taskVars,
     fileVars, historyVars
<1>14. CASE Publish
  BY <1>14 DEF Publish, Turns, Stages, Present, NoAudio, TypeOK, NoRun, NotAsked, Begins,
     taskVars, fileVars
<1>15. CASE StepFails
  BY <1>15 DEF StepFails, Turns, Stages, Present, NoAudio, TypeOK, NoRun, taskVars, fileVars,
     historyVars
<1>16. CASE LosesStatus
  BY <1>16 DEF LosesStatus, Turns, Stages, Present, NoAudio, TypeOK, NoRun, Untold, rowVars,
     taskVars, fileVars, historyVars
<1>17. CASE Queue
  BY <1>17 DEF Queue, Turns, Stages, Present, NoAudio, TypeOK, taskVars, fileVars, historyVars
<1>18. CASE Dismiss
  BY <1>18 DEF Dismiss, Turns, Stages, Present, NoAudio, TypeOK, taskVars, fileVars, historyVars
<1>19. CASE CorrectSegments
  BY <1>19 DEF CorrectSegments, Turns, Stages, Present, NoAudio, TypeOK, rowVars, taskVars,
     fileVars, historyVars
<1>20. CASE \E from \in ReprocessStep : UnlinkArtifacts(from)
  BY <1>20 DEF UnlinkArtifacts, Turns, Stages, Present, NoAudio, TypeOK, NoRequest, NotAsked,
     rowVars
<1>21. CASE CommitReprocess
  BY <1>21 DEF CommitReprocess, Turns, Stages, Present, NoAudio, TypeOK, NoRequest, NotAsked,
     fileVars
<1>22. CASE ListExpired
  BY <1>22 DEF ListExpired, Turns, Stages, Present, NoAudio, TypeOK, rowVars, fileVars,
     historyVars
<1>23. CASE UnlinkExpired
  BY <1>23 DEF UnlinkExpired, Turns, Stages, Present, NoAudio, TypeOK, NoCleanup, RemovesAudio,
     rowVars
<1>24. CASE CommitExpired
  BY <1>24 DEF CommitExpired, Turns, Stages, Present, NoAudio, TypeOK, NoCleanup, fileVars,
     historyVars
<1>25. CASE ListAged
  BY <1>25 DEF ListAged, Turns, Stages, Present, NoAudio, TypeOK, DONE, rowVars, fileVars,
     historyVars
<1>26. CASE UnlinkAged
  BY <1>26 DEF UnlinkAged, Turns, Stages, Present, NoAudio, TypeOK, NoCleanup, RemovesAudio,
     rowVars
<1>27. CASE CommitAged
  BY <1>27 DEF CommitAged, Turns, Stages, Present, NoAudio, TypeOK, NoCleanup, fileVars,
     historyVars
<1>28. CASE ListOrphans
  BY <1>28 DEF ListOrphans, Turns, Stages, Present, NoAudio, TypeOK, rowVars, fileVars,
     historyVars
<1>29. CASE Sweep
  BY <1>29 DEF Sweep, Turns, Stages, Present, NoAudio, TypeOK, NoCleanup, rowVars, historyVars
<1>30. CASE Restart
  BY <1>30 DEF Restart, Turns, Stages, Present, NoAudio, TypeOK, NoRun, NoRequest, NoCleanup,
     Untold
<1> QED BY <1>1, <1>2, <1>3, <1>4, <1>5, <1>6, <1>7, <1>8, <1>9, <1>10, <1>11, <1>12, <1>13,
           <1>14, <1>15, <1>16, <1>17, <1>18, <1>19, <1>20, <1>21, <1>22, <1>23, <1>24,
           <1>25, <1>26, <1>27, <1>28, <1>29, <1>30
        DEF Next, RunStep, UserStep, CleanupStep

LEMMA RunInvInit == Init => RunInv
<1> SUFFICES ASSUME Init PROVE RunInv
  OBVIOUS
<1> USE StatusTypes, Numbers DEF Init, NoRun, NoRequest, NoCleanup, NoAudio, NotAsked
<1>1. TypeOK
  BY DEF TypeOK, PC, Kinds, Doubt
<1>2. Paths /\ Turns /\ Stages
  BY DEF Paths, Turns, Stages
<1>3. OneVersion /\ OriginalStaysForTheRun
  BY DEF OneVersion, OriginalStaysForTheRun, Present
<1> QED BY <1>1, <1>2, <1>3 DEF RunInv

LEMMA RunInvNext == RunInv /\ [Next]_vars => RunInv'
<1> SUFFICES ASSUME RunInv, [Next]_vars PROVE RunInv'
  OBVIOUS
<1>1. CASE Next
  <2>1. TypeOK'
    BY <1>1, RunTypes, OtherTypes DEF RunInv, Next
  <2> QED BY <1>1, <2>1, PathsKept, TurnsKept, StagesKept, OriginalKept DEF RunInv
<1>2. CASE UNCHANGED vars
  BY <1>2 DEF vars, RunInv, TypeOK, Paths, Turns, Stages, OneVersion, OriginalStaysForTheRun, Present
<1> QED BY <1>1, <1>2

LEMMA RunHolds == Spec => []RunInv
BY RunInvInit, RunInvNext, PTL DEF Spec

\* THEOREM: the row, the files, the run and the histories of an episode have
\* their types at every step (pipeline/steps, api/episodes.py, scheduler.py).
THEOREM TypeCorrect == Spec => []TypeOK
<1>1. RunInv => TypeOK
  BY DEF RunInv
<1> QED BY <1>1, RunHolds, PTL

\* THEOREM: no run loses the original it works on, neither to the cleanup nor
\* to a reprocess that begins after it has, for any number of downloads
\* (scheduler.cleanup, reprocess_episode).
THEOREM OriginalStays == Spec => []OriginalStaysForTheRun
<1>1. RunInv => OriginalStaysForTheRun
  BY DEF RunInv
<1> QED BY <1>1, RunHolds, PTL

-----------------------------------------------------------------------------
\* WHAT IS PUBLISHED

\* PublishedIsServable, and how the path gets into the row: a run that may
\* still publish has written it, and no sweep that was listed before is left
\* over from it.
Served ==
    /\ status = BUSY /\ run.pc \in {"clean", "forget", "publish"} => processed_path
    /\ status = PROCESSED => processed_path
    /\ status = PROCESSED /\ cleanup.at = "sweep" => request # NoRequest \/ late
    /\ PublishedIsServable

LEMMA ServedNext ==
    ASSUME RunInv, Served, [Next]_vars
    PROVE  Served'
<1> USE StatusTypes DEF RunInv
<1>1. CASE Claim
  BY <1>1 DEF Claim, Turns, Stages, Served, PublishedIsServable, TypeOK, Goto, NoRequest,
     NoCleanup, taskVars, fileVars
<1>2. CASE Download
  BY <1>2 DEF Download, Turns, Stages, Served, PublishedIsServable, TypeOK, rowVars, taskVars,
     historyVars
<1>3. CASE PersistOriginal
  BY <1>3 DEF PersistOriginal, Turns, Stages, Served, PublishedIsServable, TypeOK, Goto,
     taskVars, fileVars
<1>4. CASE BeginTranscribe
  BY <1>4 DEF BeginTranscribe, Turns, Stages, Served, PublishedIsServable, TypeOK, Goto, Begins,
     rowVars, taskVars, historyVars
<1>5. CASE Transcribe
  BY <1>5 DEF Transcribe, Turns, Stages, Served, PublishedIsServable, TypeOK, Goto, rowVars,
     taskVars, historyVars
<1>6. CASE BeginDetect
  BY <1>6 DEF BeginDetect, Turns, Stages, Served, PublishedIsServable, TypeOK, Goto, Begins,
     rowVars, taskVars, fileVars, historyVars
<1>7. CASE StoreSegments
  BY <1>7 DEF StoreSegments, Turns, Stages, Served, PublishedIsServable, TypeOK, Goto, rowVars,
     taskVars, fileVars, historyVars
<1>8. CASE StopPipeline
  BY <1>8 DEF StopPipeline, Turns, Stages, Served, PublishedIsServable, TypeOK, NoRun, taskVars,
     fileVars, historyVars
<1>9. CASE BeginCut
  BY <1>9 DEF BeginCut, Turns, Stages, Served, PublishedIsServable, TypeOK, Goto, NoAudio,
     Begins, rowVars, taskVars, fileVars, historyVars
<1>10. CASE Encode
  BY <1>10 DEF Encode, Turns, Stages, Served, PublishedIsServable, TypeOK, rowVars, taskVars,
     historyVars
<1>11. CASE Finalize
  BY <1>11 DEF Finalize, Turns, Stages, Served, PublishedIsServable, TypeOK, Goto, NoAudio,
     Begins, taskVars, fileVars, historyVars
<1>12. CASE UnlinkOriginal
  BY <1>12 DEF UnlinkOriginal, Turns, Stages, Served, PublishedIsServable, TypeOK, Goto,
     rowVars, taskVars, historyVars
<1>13. CASE ForgetOriginal
  BY <1>13 DEF ForgetOriginal, Turns, Stages, Served, PublishedIsServable, TypeOK, Goto,
     taskVars, fileVars, historyVars
<1>14. CASE Publish
  BY <1>14 DEF Publish, Turns, Stages, Served, PublishedIsServable, TypeOK, NoCleanup, NoRun,
     NotAsked, Begins, taskVars, fileVars
<1>15. CASE StepFails
  BY <1>15 DEF StepFails, Turns, Stages, Served, PublishedIsServable, TypeOK, NoRun, taskVars,
     fileVars, historyVars
<1>16. CASE LosesStatus
  BY <1>16 DEF LosesStatus, Turns, Stages, Served, PublishedIsServable, TypeOK, NoRun, Untold,
     rowVars, taskVars, fileVars, historyVars
<1>17. CASE Queue
  BY <1>17 DEF Queue, Turns, Stages, Served, PublishedIsServable, TypeOK, taskVars, fileVars,
     historyVars
<1>18. CASE Dismiss
  BY <1>18 DEF Dismiss, Turns, Stages, Served, PublishedIsServable, TypeOK, taskVars, fileVars,
     historyVars
<1>19. CASE CorrectSegments
  BY <1>19 DEF CorrectSegments, Turns, Stages, Served, PublishedIsServable, TypeOK, rowVars,
     taskVars, fileVars, historyVars
<1>20. CASE \E from \in ReprocessStep : UnlinkArtifacts(from)
  BY <1>20 DEF UnlinkArtifacts, Turns, Stages, Served, PublishedIsServable, TypeOK,
     ReprocessStep, None, NoRequest, NotAsked, NoAudio, rowVars
<1>21. CASE CommitReprocess
  BY <1>21 DEF CommitReprocess, Turns, Stages, Served, PublishedIsServable, TypeOK, NoRequest,
     NotAsked, NoAudio, fileVars
<1>22. CASE ListExpired
  BY <1>22 DEF ListExpired, Turns, Stages, Served, PublishedIsServable, TypeOK, NoCleanup,
     rowVars, fileVars, historyVars
<1>23. CASE UnlinkExpired
  BY <1>23 DEF UnlinkExpired, Turns, Stages, Served, PublishedIsServable, TypeOK, NoCleanup,
     NoAudio, RemovesAudio, rowVars
<1>24. CASE CommitExpired
  BY <1>24 DEF CommitExpired, Turns, Stages, Served, PublishedIsServable, TypeOK, NoCleanup,
     fileVars, historyVars
<1>25. CASE ListAged
  BY <1>25 DEF ListAged, Turns, Stages, Served, PublishedIsServable, TypeOK, NoCleanup, DONE,
     rowVars, fileVars, historyVars
<1>26. CASE UnlinkAged
  BY <1>26 DEF UnlinkAged, Turns, Stages, Served, PublishedIsServable, TypeOK, NoCleanup,
     RemovesAudio, rowVars
<1>27. CASE CommitAged
  BY <1>27 DEF CommitAged, Turns, Stages, Served, PublishedIsServable, TypeOK, NoCleanup,
     fileVars, historyVars
<1>28. CASE ListOrphans
  BY <1>28 DEF ListOrphans, Turns, Stages, Served, PublishedIsServable, TypeOK, NoCleanup,
     rowVars, fileVars, historyVars
<1>29. CASE Sweep
  BY <1>29 DEF Sweep, Turns, Stages, Served, PublishedIsServable, TypeOK, NoCleanup, NoAudio,
     rowVars, historyVars
<1>30. CASE Restart
  BY <1>30 DEF Restart, Turns, Stages, Served, PublishedIsServable, TypeOK, NoRun, NoRequest,
     NoCleanup, Untold
<1>31. CASE UNCHANGED vars
  BY <1>31 DEF vars, Turns, Stages, Served, PublishedIsServable, TypeOK
<1> QED BY <1>1, <1>2, <1>3, <1>4, <1>5, <1>6, <1>7, <1>8, <1>9, <1>10, <1>11, <1>12, <1>13,
           <1>14, <1>15, <1>16, <1>17, <1>18, <1>19, <1>20, <1>21, <1>22, <1>23, <1>24,
           <1>25, <1>26, <1>27, <1>28, <1>29, <1>30, <1>31
        DEF Next, RunStep, UserStep, CleanupStep


\* THEOREM: a processed episode has the file that the feed lists, and its row
\* says so, through every failure, death and restart; but for the time between
\* an unlink and its commit, for one that died there until its next run, and for
\* one whose run began with cleanup or a reprocess under way (finalize.run,
\* cleanup, reprocess_episode).
THEOREM Servable == Spec => []PublishedIsServable
<1>1. Init => Served
  BY StatusTypes DEF Init, Served, PublishedIsServable, NoCleanup, NoRun
<1>2. RunInv /\ Served /\ [Next]_vars => Served'
  BY ServedNext
<1>3. Served => PublishedIsServable
  BY DEF Served
<1> QED BY <1>1, <1>2, <1>3, RunHolds, PTL DEF Spec

\* An open doubt has stopped the episode, or is about to.
Doubted ==
    segments.doubt = "open" =>
        run.pc = "review" \/ (run.pc = "idle" /\ status \in {REVIEW, SKIPPED, EXPIRED})

LEMMA DoubtedNext ==
    ASSUME RunInv, Doubted, [Next]_vars
    PROVE  Doubted'
<1> USE StatusTypes DEF RunInv
<1>1. CASE Claim
  BY <1>1 DEF Claim, Turns, Doubted, TypeOK, Goto, NoRequest, NoCleanup, taskVars, fileVars
<1>2. CASE Download
  BY <1>2 DEF Download, Turns, Doubted, TypeOK, rowVars, taskVars, historyVars
<1>3. CASE PersistOriginal
  BY <1>3 DEF PersistOriginal, Turns, Doubted, TypeOK, Goto, taskVars, fileVars
<1>4. CASE BeginTranscribe
  BY <1>4 DEF BeginTranscribe, Turns, Doubted, TypeOK, Goto, Begins, rowVars, taskVars,
     historyVars
<1>5. CASE Transcribe
  BY <1>5 DEF Transcribe, Turns, Doubted, TypeOK, Goto, rowVars, taskVars, historyVars
<1>6. CASE BeginDetect
  BY <1>6 DEF BeginDetect, Turns, Doubted, TypeOK, Goto, Begins, rowVars, taskVars, fileVars,
     historyVars
<1>7. CASE StoreSegments
  BY <1>7 DEF StoreSegments, Turns, Doubted, TypeOK, Goto, rowVars, taskVars, fileVars,
     historyVars
<1>8. CASE StopPipeline
  BY <1>8 DEF StopPipeline, Turns, Doubted, TypeOK, NoRun, taskVars, fileVars, historyVars
<1>9. CASE BeginCut
  BY <1>9 DEF BeginCut, Turns, Doubted, TypeOK, Goto, NoAudio, Begins, rowVars, taskVars,
     fileVars, historyVars
<1>10. CASE Encode
  BY <1>10 DEF Encode, Turns, Doubted, TypeOK, rowVars, taskVars, historyVars
<1>11. CASE Finalize
  BY <1>11 DEF Finalize, Turns, Doubted, TypeOK, Goto, NoAudio, Begins, taskVars, fileVars,
     historyVars
<1>12. CASE UnlinkOriginal
  BY <1>12 DEF UnlinkOriginal, Turns, Doubted, TypeOK, Goto, rowVars, taskVars, historyVars
<1>13. CASE ForgetOriginal
  BY <1>13 DEF ForgetOriginal, Turns, Doubted, TypeOK, Goto, taskVars, fileVars, historyVars
<1>14. CASE Publish
  BY <1>14 DEF Publish, Turns, Doubted, TypeOK, NoRun, NotAsked, Begins, taskVars, fileVars
<1>15. CASE StepFails
  BY <1>15 DEF StepFails, Turns, Doubted, TypeOK, NoRun, taskVars, fileVars, historyVars
<1>16. CASE LosesStatus
  BY <1>16 DEF LosesStatus, Turns, Doubted, TypeOK, NoRun, Untold, rowVars, taskVars, fileVars,
     historyVars
<1>17. CASE Queue
  BY <1>17 DEF Queue, Turns, Doubted, TypeOK, taskVars, fileVars, historyVars
<1>18. CASE Dismiss
  BY <1>18 DEF Dismiss, Turns, Doubted, TypeOK, taskVars, fileVars, historyVars
<1>19. CASE CorrectSegments
  BY <1>19 DEF CorrectSegments, Turns, Doubted, TypeOK, rowVars, taskVars, fileVars, historyVars
<1>20. CASE \E from \in ReprocessStep : UnlinkArtifacts(from)
  BY <1>20 DEF UnlinkArtifacts, Turns, Doubted, TypeOK, NoRequest, NotAsked, NoAudio, rowVars
<1>21. CASE CommitReprocess
  BY <1>21 DEF CommitReprocess, Turns, Doubted, TypeOK, NoRequest, NotAsked, NoAudio, fileVars
<1>22. CASE ListExpired
  BY <1>22 DEF ListExpired, Turns, Doubted, TypeOK, rowVars, fileVars, historyVars
<1>23. CASE UnlinkExpired
  BY <1>23 DEF UnlinkExpired, Turns, Doubted, TypeOK, NoAudio, RemovesAudio, rowVars
<1>24. CASE CommitExpired
  BY <1>24 DEF CommitExpired, Turns, Doubted, TypeOK, NoCleanup, fileVars, historyVars
<1>25. CASE ListAged
  BY <1>25 DEF ListAged, Turns, Doubted, TypeOK, DONE, rowVars, fileVars, historyVars
<1>26. CASE UnlinkAged
  BY <1>26 DEF UnlinkAged, Turns, Doubted, TypeOK, NoCleanup, RemovesAudio, rowVars
<1>27. CASE CommitAged
  BY <1>27 DEF CommitAged, Turns, Doubted, TypeOK, NoCleanup, fileVars, historyVars
<1>28. CASE ListOrphans
  BY <1>28 DEF ListOrphans, Turns, Doubted, TypeOK, rowVars, fileVars, historyVars
<1>29. CASE Sweep
  BY <1>29 DEF Sweep, Turns, Doubted, TypeOK, NoCleanup, NoAudio, rowVars, historyVars
<1>30. CASE Restart
  BY <1>30 DEF Restart, Turns, Doubted, TypeOK, NoRun, NoRequest, NoCleanup, Untold
<1>31. CASE UNCHANGED vars
  BY <1>31 DEF vars, Turns, Doubted, TypeOK
<1> QED BY <1>1, <1>2, <1>3, <1>4, <1>5, <1>6, <1>7, <1>8, <1>9, <1>10, <1>11, <1>12, <1>13,
           <1>14, <1>15, <1>16, <1>17, <1>18, <1>19, <1>20, <1>21, <1>22, <1>23, <1>24,
           <1>25, <1>26, <1>27, <1>28, <1>29, <1>30, <1>31
        DEF Next, RunStep, UserStep, CleanupStep


\* THEOREM: an episode of which more was flagged than may be removed is not
\* published before a person has decided, but for a run that ended before the
\* review was recorded (detect.run, worker._run_step).
THEOREM Decided == Spec => []ReviewIsDecided
<1>1. Init => Doubted
  BY DEF Init, Doubted
<1>2. RunInv /\ Doubted /\ [Next]_vars => Doubted'
  BY DoubtedNext
<1>3. RunInv /\ Doubted => ReviewIsDecided
  BY StatusTypes DEF RunInv, Turns, Doubted, ReviewIsDecided
<1> QED BY <1>1, <1>2, <1>3, RunHolds, PTL DEF Spec

-----------------------------------------------------------------------------
\* WHAT WAS ASKED

\* Between its unlinks and its commit, a reprocess has removed what is to be
\* made anew, as long as no run is at it.
Removing ==
    request # NoRequest /\ ~late =>
        /\ request.from = "download" => \A f \in File : ~Present(f)
        /\ request.from \in {"download", "transcribe"} => transcript = 0

\* What was asked is of the past, and a cut that is being made answers it.
Asking ==
    /\ asked.rev <= segments.rev /\ asked.fetch <= fetches
    /\ request # NoRequest => asked.rev = 0 /\ asked.fetch = 0 /\ ~asked.full
    /\ run.pc = "encode" => run.cut >= asked.rev

AskInv == Removing /\ Asking

LEMMA RemovingNext ==
    ASSUME RunInv, Removing, [Next]_vars
    PROVE  Removing'
<1> USE StatusTypes, Numbers DEF RunInv
<1>1. CASE Claim
  BY <1>1 DEF Claim, Turns, Removing, Present, TypeOK, Goto, NoRequest, NoCleanup, taskVars,
     fileVars
<1>2. CASE Download
  BY <1>2 DEF Download, Turns, Removing, Present, TypeOK, rowVars, taskVars, historyVars
<1>3. CASE PersistOriginal
  BY <1>3 DEF PersistOriginal, Turns, Removing, Present, TypeOK, Goto, taskVars, fileVars
<1>4. CASE BeginTranscribe
  BY <1>4 DEF BeginTranscribe, Turns, Removing, Present, TypeOK, Goto, Begins, rowVars,
     taskVars, historyVars
<1>5. CASE Transcribe
  BY <1>5 DEF Transcribe, Turns, Removing, Present, TypeOK, Goto, rowVars, taskVars, historyVars
<1>6. CASE BeginDetect
  BY <1>6 DEF BeginDetect, Turns, Removing, Present, TypeOK, Goto, Begins, rowVars, taskVars,
     fileVars, historyVars
<1>7. CASE StoreSegments
  BY <1>7 DEF StoreSegments, Turns, Removing, Present, TypeOK, Goto, rowVars, taskVars,
     fileVars, historyVars
<1>8. CASE StopPipeline
  BY <1>8 DEF StopPipeline, Turns, Removing, Present, TypeOK, NoRun, taskVars, fileVars,
     historyVars
<1>9. CASE BeginCut
  BY <1>9 DEF BeginCut, Turns, Removing, Present, TypeOK, Goto, NoAudio, Begins, rowVars,
     taskVars, fileVars, historyVars
<1>10. CASE Encode
  BY <1>10 DEF Encode, Turns, Removing, Present, TypeOK, rowVars, taskVars, historyVars
<1>11. CASE Finalize
  BY <1>11 DEF Finalize, Turns, Removing, Present, TypeOK, Goto, NoAudio, Begins, taskVars,
     fileVars, historyVars
<1>12. CASE UnlinkOriginal
  BY <1>12 DEF UnlinkOriginal, Turns, Removing, Present, TypeOK, Goto, rowVars, taskVars,
     historyVars
<1>13. CASE ForgetOriginal
  BY <1>13 DEF ForgetOriginal, Turns, Removing, Present, TypeOK, Goto, taskVars, fileVars,
     historyVars
<1>14. CASE Publish
  BY <1>14 DEF Publish, Turns, Removing, Present, TypeOK, NoRun, NotAsked, Begins, taskVars,
     fileVars
<1>15. CASE StepFails
  BY <1>15 DEF StepFails, Turns, Removing, Present, TypeOK, NoRun, taskVars, fileVars,
     historyVars
<1>16. CASE LosesStatus
  BY <1>16 DEF LosesStatus, Turns, Removing, Present, TypeOK, NoRun, Untold, rowVars, taskVars,
     fileVars, historyVars
<1>17. CASE Queue
  BY <1>17 DEF Queue, Turns, Removing, Present, TypeOK, taskVars, fileVars, historyVars
<1>18. CASE Dismiss
  BY <1>18 DEF Dismiss, Turns, Removing, Present, TypeOK, taskVars, fileVars, historyVars
<1>19. CASE CorrectSegments
  BY <1>19 DEF CorrectSegments, Turns, Removing, Present, TypeOK, rowVars, taskVars, fileVars,
     historyVars
<1>20. CASE \E from \in ReprocessStep : UnlinkArtifacts(from)
  BY <1>20 DEF UnlinkArtifacts, Turns, Removing, Present, TypeOK, ReprocessStep, None,
     NoRequest, NotAsked, NoAudio, rowVars
<1>21. CASE CommitReprocess
  BY <1>21 DEF CommitReprocess, Turns, Removing, Present, TypeOK, NoRequest, NotAsked, NoAudio,
     fileVars
<1>22. CASE ListExpired
  BY <1>22 DEF ListExpired, Turns, Removing, Present, TypeOK, rowVars, fileVars, historyVars
<1>23. CASE UnlinkExpired
  BY <1>23 DEF UnlinkExpired, Turns, Removing, Present, TypeOK, NoAudio, RemovesAudio, rowVars
<1>24. CASE CommitExpired
  BY <1>24 DEF CommitExpired, Turns, Removing, Present, TypeOK, NoCleanup, fileVars, historyVars
<1>25. CASE ListAged
  BY <1>25 DEF ListAged, Turns, Removing, Present, TypeOK, DONE, rowVars, fileVars, historyVars
<1>26. CASE UnlinkAged
  BY <1>26 DEF UnlinkAged, Turns, Removing, Present, TypeOK, NoCleanup, RemovesAudio, rowVars
<1>27. CASE CommitAged
  BY <1>27 DEF CommitAged, Turns, Removing, Present, TypeOK, NoCleanup, fileVars, historyVars
<1>28. CASE ListOrphans
  BY <1>28 DEF ListOrphans, Turns, Removing, Present, TypeOK, rowVars, fileVars, historyVars
<1>29. CASE Sweep
  BY <1>29 DEF Sweep, Turns, Removing, Present, TypeOK, NoCleanup, NoAudio, rowVars, historyVars
<1>30. CASE Restart
  BY <1>30 DEF Restart, Turns, Removing, Present, TypeOK, NoRun, NoRequest, NoCleanup, Untold
<1>31. CASE UNCHANGED vars
  BY <1>31 DEF vars, Turns, Removing, Present, TypeOK
<1> QED BY <1>1, <1>2, <1>3, <1>4, <1>5, <1>6, <1>7, <1>8, <1>9, <1>10, <1>11, <1>12, <1>13,
           <1>14, <1>15, <1>16, <1>17, <1>18, <1>19, <1>20, <1>21, <1>22, <1>23, <1>24,
           <1>25, <1>26, <1>27, <1>28, <1>29, <1>30, <1>31
        DEF Next, RunStep, UserStep, CleanupStep


LEMMA AskingNext ==
    ASSUME RunInv, Asking, [Next]_vars
    PROVE  Asking'
<1> USE StatusTypes, Numbers DEF RunInv
<1>1. CASE Claim
  BY <1>1 DEF Claim, Turns, Asking, TypeOK, Goto, NoRequest, NoCleanup, taskVars, fileVars
<1>2. CASE Download
  <2>1. fetches' \in {fetches, fetches + 1} /\ fetches \in Nat /\ asked.fetch \in Nat
    BY <1>2 DEF Download, TypeOK
  <2>2. UNCHANGED <<asked, segments, request>> /\ run'.pc = "persist"
    BY <1>2 DEF Download, TypeOK, taskVars, historyVars
  <2> QED BY <2>1, <2>2 DEF Asking
<1>3. CASE PersistOriginal
  <2>1. asked'.rev = asked.rev /\ asked'.fetch = asked.fetch /\ (asked'.full => asked.full)
    BY <1>3 DEF PersistOriginal, TypeOK
  <2>2. UNCHANGED <<segments, fetches, request>> /\ (run'.pc = "encode" => run' = run)
    BY <1>3 DEF PersistOriginal, TypeOK, Goto, fileVars, taskVars
  <2> QED BY <2>1, <2>2 DEF Asking
<1>4. CASE BeginTranscribe
  BY <1>4 DEF BeginTranscribe, Turns, Asking, TypeOK, Goto, Begins, rowVars, taskVars,
     historyVars
<1>5. CASE Transcribe
  BY <1>5 DEF Transcribe, Turns, Asking, TypeOK, Goto, rowVars, taskVars, historyVars
<1>6. CASE BeginDetect
  BY <1>6 DEF BeginDetect, Turns, Asking, TypeOK, Goto, Begins, rowVars, taskVars, fileVars,
     historyVars
<1>7. CASE StoreSegments
  BY <1>7 DEF StoreSegments, Turns, Asking, TypeOK, Goto, rowVars, taskVars, fileVars,
     historyVars
<1>8. CASE StopPipeline
  BY <1>8 DEF StopPipeline, Turns, Asking, TypeOK, NoRun, taskVars, fileVars, historyVars
<1>9. CASE BeginCut
  BY <1>9 DEF BeginCut, Turns, Asking, TypeOK, Goto, NoAudio, Begins, rowVars, taskVars,
     fileVars, historyVars
<1>10. CASE Encode
  BY <1>10 DEF Encode, Turns, Asking, TypeOK, rowVars, taskVars, historyVars
<1>11. CASE Finalize
  BY <1>11 DEF Finalize, Turns, Asking, TypeOK, Goto, NoAudio, Begins, taskVars, fileVars,
     historyVars
<1>12. CASE UnlinkOriginal
  BY <1>12 DEF UnlinkOriginal, Turns, Asking, TypeOK, Goto, rowVars, taskVars, historyVars
<1>13. CASE ForgetOriginal
  BY <1>13 DEF ForgetOriginal, Turns, Asking, TypeOK, Goto, taskVars, fileVars, historyVars
<1>14. CASE Publish
  <2>1. asked'.rev = 0 /\ asked'.fetch = 0 /\ ~asked'.full
    BY <1>14 DEF Publish, NotAsked
  <2>2. segments.rev \in Nat /\ fetches \in Nat /\ UNCHANGED <<segments, fetches>> /\ run'.pc # "encode"
    BY <1>14 DEF Publish, TypeOK, NoRun, fileVars, Begins
  <2> QED BY <2>1, <2>2 DEF Asking
<1>15. CASE StepFails
  BY <1>15 DEF StepFails, Turns, Asking, TypeOK, NoRun, taskVars, fileVars, historyVars
<1>16. CASE LosesStatus
  BY <1>16 DEF LosesStatus, Turns, Asking, TypeOK, NoRun, Untold, rowVars, taskVars, fileVars,
     historyVars
<1>17. CASE Queue
  BY <1>17 DEF Queue, Turns, Asking, TypeOK, taskVars, fileVars, historyVars
<1>18. CASE Dismiss
  BY <1>18 DEF Dismiss, Turns, Asking, TypeOK, taskVars, fileVars, historyVars
<1>19. CASE CorrectSegments
  BY <1>19 DEF CorrectSegments, Turns, Asking, TypeOK, rowVars, taskVars, fileVars, historyVars
<1>20. CASE \E from \in ReprocessStep : UnlinkArtifacts(from)
  <2>1. asked'.rev = 0 /\ asked'.fetch = 0 /\ ~asked'.full
    BY <1>20 DEF UnlinkArtifacts, NotAsked
  <2>2. /\ segments.rev \in Nat /\ fetches \in Nat /\ run.cut \in Nat
        /\ UNCHANGED <<segments, fetches, run>>
    BY <1>20 DEF UnlinkArtifacts, TypeOK
  <2> QED BY <2>1, <2>2 DEF Asking
<1>21. CASE CommitReprocess
  BY <1>21 DEF CommitReprocess, Turns, Asking, TypeOK, NoRequest, NotAsked, NoAudio, fileVars
<1>22. CASE ListExpired
  BY <1>22 DEF ListExpired, Turns, Asking, TypeOK, rowVars, fileVars, historyVars
<1>23. CASE UnlinkExpired
  <2>1. asked'.rev = asked.rev /\ asked'.fetch = asked.fetch /\ (asked'.full => asked.full)
    BY <1>23 DEF UnlinkExpired, TypeOK, RemovesAudio
  <2>2. UNCHANGED <<segments, fetches, request>> /\ (run'.pc = "encode" => run' = run)
    BY <1>23 DEF UnlinkExpired, TypeOK, Goto, fileVars, taskVars
  <2> QED BY <2>1, <2>2 DEF Asking
<1>24. CASE CommitExpired
  BY <1>24 DEF CommitExpired, Turns, Asking, TypeOK, NoCleanup, fileVars, historyVars
<1>25. CASE ListAged
  BY <1>25 DEF ListAged, Turns, Asking, TypeOK, DONE, rowVars, fileVars, historyVars
<1>26. CASE UnlinkAged
  <2>1. asked'.rev = asked.rev /\ asked'.fetch = asked.fetch /\ (asked'.full => asked.full)
    BY <1>26 DEF UnlinkAged, TypeOK, RemovesAudio
  <2>2. UNCHANGED <<segments, fetches, request>> /\ (run'.pc = "encode" => run' = run)
    BY <1>26 DEF UnlinkAged, TypeOK, Goto, fileVars, taskVars
  <2> QED BY <2>1, <2>2 DEF Asking
<1>27. CASE CommitAged
  BY <1>27 DEF CommitAged, Turns, Asking, TypeOK, NoCleanup, fileVars, historyVars
<1>28. CASE ListOrphans
  BY <1>28 DEF ListOrphans, Turns, Asking, TypeOK, rowVars, fileVars, historyVars
<1>29. CASE Sweep
  BY <1>29 DEF Sweep, Turns, Asking, TypeOK, NoCleanup, NoAudio, rowVars, historyVars
<1>30. CASE Restart
  BY <1>30 DEF Restart, Turns, Asking, TypeOK, NoRun, NoRequest, NoCleanup, Untold
<1>31. CASE UNCHANGED vars
  BY <1>31 DEF vars, Turns, Asking, TypeOK
<1> QED BY <1>1, <1>2, <1>3, <1>4, <1>5, <1>6, <1>7, <1>8, <1>9, <1>10, <1>11, <1>12, <1>13,
           <1>14, <1>15, <1>16, <1>17, <1>18, <1>19, <1>20, <1>21, <1>22, <1>23, <1>24,
           <1>25, <1>26, <1>27, <1>28, <1>29, <1>30, <1>31
        DEF Next, RunStep, UserStep, CleanupStep


LEMMA AskHolds == Spec => []AskInv
<1>1. Init => AskInv
  BY DEF Init, AskInv, Removing, Asking, NotAsked, NoRun
<1>2. RunInv /\ AskInv /\ [Next]_vars => AskInv'
  BY RemovingNext, AskingNext DEF AskInv
<1> QED BY <1>1, <1>2, RunHolds, PTL DEF Spec

\* The served file is a cut of the rows of then or later.
Recut == processed # NoAudio => processed.cut >= asked.rev

\* After "Redo from download" all there is comes from newer downloads.
Refetched ==
    /\ \A f \in File : Present(f) => audio[f] > asked.fetch
    /\ processed # NoAudio => processed.of > asked.fetch

NoFile == \A f \in File : ~Present(f)

\* After that or "Re-transcribe" nothing is cut before there is a transcript,
\* and the transcript is that of the audio there is.
Retranscribed ==
    asked.full =>
        /\ processed # NoAudio => transcript # 0
        /\ run.pc \in {"detect", "judge", "cut", "encode"} => transcript # 0 \/ NoFile
        /\ run.pc = "clean" => processed # NoAudio \/ transcript = 0
        /\ transcript # 0 =>
               \/ processed # NoAudio /\ processed.of = transcript
               \/ /\ processed = NoAudio /\ ~NoFile
                  /\ \A f \in File : Present(f) => audio[f] = transcript

LEMMA RecutNext ==
    ASSUME RunInv, AskInv, Recut, [Next]_vars
    PROVE  Recut'
<1> USE StatusTypes, Numbers DEF RunInv, AskInv
<1>1. CASE Claim
  BY <1>1 DEF Claim, Turns, Recut, NoAudio, TypeOK, Goto, NoRequest, NoCleanup, taskVars,
     fileVars
<1>2. CASE Download
  BY <1>2 DEF Download, Turns, Recut, NoAudio, TypeOK, rowVars, taskVars, historyVars
<1>3. CASE PersistOriginal
  BY <1>3 DEF PersistOriginal, Turns, Recut, NoAudio, TypeOK, Goto, taskVars, fileVars
<1>4. CASE BeginTranscribe
  BY <1>4 DEF BeginTranscribe, Turns, Recut, NoAudio, TypeOK, Goto, Begins, rowVars, taskVars,
     historyVars
<1>5. CASE Transcribe
  BY <1>5 DEF Transcribe, Turns, Recut, NoAudio, TypeOK, Goto, rowVars, taskVars, historyVars
<1>6. CASE BeginDetect
  BY <1>6 DEF BeginDetect, Turns, Recut, NoAudio, TypeOK, Goto, Begins, rowVars, taskVars,
     fileVars, historyVars
<1>7. CASE StoreSegments
  BY <1>7 DEF StoreSegments, Turns, Recut, NoAudio, TypeOK, Goto, rowVars, taskVars, fileVars,
     historyVars
<1>8. CASE StopPipeline
  BY <1>8 DEF StopPipeline, Turns, Recut, NoAudio, TypeOK, NoRun, taskVars, fileVars,
     historyVars
<1>9. CASE BeginCut
  BY <1>9 DEF BeginCut, Turns, Recut, NoAudio, TypeOK, Goto, Begins, rowVars, taskVars,
     fileVars, historyVars
<1>10. CASE Encode
  BY <1>10 DEF Encode, Turns, Recut, NoAudio, TypeOK, Asking, rowVars, taskVars, historyVars
<1>11. CASE Finalize
  BY <1>11 DEF Finalize, Turns, Recut, NoAudio, TypeOK, Goto, Begins, taskVars, fileVars,
     historyVars
<1>12. CASE UnlinkOriginal
  BY <1>12 DEF UnlinkOriginal, Turns, Recut, NoAudio, TypeOK, Goto, rowVars, taskVars,
     historyVars
<1>13. CASE ForgetOriginal
  BY <1>13 DEF ForgetOriginal, Turns, Recut, NoAudio, TypeOK, Goto, taskVars, fileVars,
     historyVars
<1>14. CASE Publish
  <2>1. asked'.rev = 0 /\ processed' = processed /\ processed.cut \in Nat
    BY <1>14 DEF Publish, NotAsked, TypeOK, fileVars
  <2> QED BY <2>1 DEF Recut
<1>15. CASE StepFails
  BY <1>15 DEF StepFails, Turns, Recut, NoAudio, TypeOK, NoRun, taskVars, fileVars, historyVars
<1>16. CASE LosesStatus
  BY <1>16 DEF LosesStatus, Turns, Recut, NoAudio, TypeOK, NoRun, Untold, rowVars, taskVars,
     fileVars, historyVars
<1>17. CASE Queue
  BY <1>17 DEF Queue, Turns, Recut, NoAudio, TypeOK, taskVars, fileVars, historyVars
<1>18. CASE Dismiss
  BY <1>18 DEF Dismiss, Turns, Recut, NoAudio, TypeOK, taskVars, fileVars, historyVars
<1>19. CASE CorrectSegments
  BY <1>19 DEF CorrectSegments, Turns, Recut, NoAudio, TypeOK, rowVars, taskVars, fileVars,
     historyVars
<1>20. CASE \E from \in ReprocessStep : UnlinkArtifacts(from)
  <2>1. asked'.rev = 0 /\ processed' \in {processed, NoAudio}
    BY <1>20 DEF UnlinkArtifacts, NotAsked
  <2>2. processed.cut \in Nat
    BY DEF TypeOK
  <2> QED BY <2>1, <2>2 DEF Recut
<1>21. CASE CommitReprocess
  BY <1>21 DEF CommitReprocess, Turns, Recut, NoAudio, TypeOK, NoRequest, NotAsked, fileVars
<1>22. CASE ListExpired
  BY <1>22 DEF ListExpired, Turns, Recut, NoAudio, TypeOK, rowVars, fileVars, historyVars
<1>23. CASE UnlinkExpired
  BY <1>23 DEF UnlinkExpired, Turns, Recut, NoAudio, TypeOK, RemovesAudio, rowVars
<1>24. CASE CommitExpired
  BY <1>24 DEF CommitExpired, Turns, Recut, NoAudio, TypeOK, NoCleanup, fileVars, historyVars
<1>25. CASE ListAged
  BY <1>25 DEF ListAged, Turns, Recut, NoAudio, TypeOK, DONE, rowVars, fileVars, historyVars
<1>26. CASE UnlinkAged
  BY <1>26 DEF UnlinkAged, Turns, Recut, NoAudio, TypeOK, NoCleanup, RemovesAudio, rowVars
<1>27. CASE CommitAged
  BY <1>27 DEF CommitAged, Turns, Recut, NoAudio, TypeOK, NoCleanup, fileVars, historyVars
<1>28. CASE ListOrphans
  BY <1>28 DEF ListOrphans, Turns, Recut, NoAudio, TypeOK, rowVars, fileVars, historyVars
<1>29. CASE Sweep
  BY <1>29 DEF Sweep, Turns, Recut, NoAudio, TypeOK, NoCleanup, rowVars, historyVars
<1>30. CASE Restart
  BY <1>30 DEF Restart, Turns, Recut, NoAudio, TypeOK, NoRun, NoRequest, NoCleanup, Untold
<1>31. CASE UNCHANGED vars
  BY <1>31 DEF vars, Turns, Recut, NoAudio, TypeOK
<1> QED BY <1>1, <1>2, <1>3, <1>4, <1>5, <1>6, <1>7, <1>8, <1>9, <1>10, <1>11, <1>12, <1>13,
           <1>14, <1>15, <1>16, <1>17, <1>18, <1>19, <1>20, <1>21, <1>22, <1>23, <1>24,
           <1>25, <1>26, <1>27, <1>28, <1>29, <1>30, <1>31
        DEF Next, RunStep, UserStep, CleanupStep


LEMMA RefetchedNext ==
    ASSUME RunInv, AskInv, Refetched, [Next]_vars
    PROVE  Refetched'
<1> USE StatusTypes, Numbers DEF RunInv, AskInv
<1>1. CASE Claim
  BY <1>1 DEF Claim, Turns, Refetched, Present, NoAudio, TypeOK, Goto, NoRequest, NoCleanup,
     taskVars, fileVars
<1>2. CASE Download
  <2>1. UNCHANGED <<asked, processed>>
    BY <1>2 DEF Download, historyVars
  <2>2. CASE UNCHANGED audio
    BY <2>1, <2>2 DEF Refetched, Present
  <2>3. CASE (\A f \in File : ~Present(f)) /\ audio' = [audio EXCEPT !["source"] = fetches + 1]
    <3>1. fetches + 1 > asked.fetch
      <4>1. fetches \in Nat /\ asked.fetch \in Nat
        BY DEF TypeOK
      <4> QED BY <4>1 DEF Asking
    <3>2. \A f \in File : audio'[f] # 0 => audio'[f] > asked.fetch
      BY <2>3, <3>1 DEF TypeOK, Present
    <3> QED BY <2>1, <3>2 DEF Refetched, Present
  <2> QED BY <1>2, <2>2, <2>3 DEF Download
<1>3. CASE PersistOriginal
  BY <1>3 DEF PersistOriginal, Turns, Refetched, Present, NoAudio, TypeOK, Goto, taskVars,
     fileVars
<1>4. CASE BeginTranscribe
  BY <1>4 DEF BeginTranscribe, Turns, Refetched, Present, NoAudio, TypeOK, Paths, Goto, Begins,
     rowVars, taskVars, historyVars
<1>5. CASE Transcribe
  BY <1>5 DEF Transcribe, Turns, Refetched, Present, NoAudio, TypeOK, Goto, rowVars, taskVars,
     historyVars
<1>6. CASE BeginDetect
  BY <1>6 DEF BeginDetect, Turns, Refetched, Present, NoAudio, TypeOK, Goto, Begins, rowVars,
     taskVars, fileVars, historyVars
<1>7. CASE StoreSegments
  BY <1>7 DEF StoreSegments, Turns, Refetched, Present, NoAudio, TypeOK, Goto, rowVars,
     taskVars, fileVars, historyVars
<1>8. CASE StopPipeline
  BY <1>8 DEF StopPipeline, Turns, Refetched, Present, NoAudio, TypeOK, NoRun, taskVars,
     fileVars, historyVars
<1>9. CASE BeginCut
  BY <1>9 DEF BeginCut, Turns, Refetched, Present, NoAudio, TypeOK, Goto, Begins, rowVars,
     taskVars, fileVars, historyVars
<1>10. CASE Encode
  BY <1>10 DEF Encode, Turns, Refetched, Present, NoAudio, TypeOK, Paths, rowVars, taskVars,
     historyVars
<1>11. CASE Finalize
  BY <1>11 DEF Finalize, Turns, Refetched, Present, NoAudio, TypeOK, Goto, Begins, taskVars,
     fileVars, historyVars
<1>12. CASE UnlinkOriginal
  BY <1>12 DEF UnlinkOriginal, Turns, Refetched, Present, NoAudio, TypeOK, Goto, rowVars,
     taskVars, historyVars
<1>13. CASE ForgetOriginal
  BY <1>13 DEF ForgetOriginal, Turns, Refetched, Present, NoAudio, TypeOK, Goto, taskVars,
     fileVars, historyVars
<1>14. CASE Publish
  <2>1. asked'.fetch = 0 /\ UNCHANGED <<audio, processed>>
    BY <1>14 DEF Publish, NotAsked, fileVars
  <2>2. asked.fetch \in Nat /\ processed.of \in Nat /\ \A f \in File : audio[f] \in Nat
    BY DEF TypeOK
  <2> QED BY <2>1, <2>2 DEF Refetched, Present
<1>15. CASE StepFails
  BY <1>15 DEF StepFails, Turns, Refetched, Present, NoAudio, TypeOK, NoRun, taskVars, fileVars,
     historyVars
<1>16. CASE LosesStatus
  BY <1>16 DEF LosesStatus, Turns, Refetched, Present, NoAudio, TypeOK, NoRun, Untold, rowVars,
     taskVars, fileVars, historyVars
<1>17. CASE Queue
  BY <1>17 DEF Queue, Turns, Refetched, Present, NoAudio, TypeOK, taskVars, fileVars,
     historyVars
<1>18. CASE Dismiss
  BY <1>18 DEF Dismiss, Turns, Refetched, Present, NoAudio, TypeOK, taskVars, fileVars,
     historyVars
<1>19. CASE CorrectSegments
  BY <1>19 DEF CorrectSegments, Turns, Refetched, Present, NoAudio, TypeOK, rowVars, taskVars,
     fileVars, historyVars
<1>20. CASE \E from \in ReprocessStep : UnlinkArtifacts(from)
  <2>1. /\ asked'.fetch = 0 /\ processed' \in {processed, NoAudio}
        /\ audio' = audio \/ audio' = [f \in File |-> 0]
    BY <1>20 DEF UnlinkArtifacts, NotAsked
  <2>2. asked.fetch \in Nat /\ processed.of \in Nat /\ \A f \in File : audio[f] \in Nat
    BY DEF TypeOK
  <2> QED BY <2>1, <2>2 DEF Refetched, Present
<1>21. CASE CommitReprocess
  BY <1>21 DEF CommitReprocess, Turns, Refetched, Present, NoAudio, TypeOK, Removing, NoRequest,
     NotAsked, fileVars
<1>22. CASE ListExpired
  BY <1>22 DEF ListExpired, Turns, Refetched, Present, NoAudio, TypeOK, rowVars, fileVars,
     historyVars
<1>23. CASE UnlinkExpired
  BY <1>23 DEF UnlinkExpired, Turns, Refetched, Present, NoAudio, TypeOK, RemovesAudio, rowVars
<1>24. CASE CommitExpired
  BY <1>24 DEF CommitExpired, Turns, Refetched, Present, NoAudio, TypeOK, NoCleanup, fileVars,
     historyVars
<1>25. CASE ListAged
  BY <1>25 DEF ListAged, Turns, Refetched, Present, NoAudio, TypeOK, DONE, rowVars, fileVars,
     historyVars
<1>26. CASE UnlinkAged
  BY <1>26 DEF UnlinkAged, Turns, Refetched, Present, NoAudio, TypeOK, NoCleanup, RemovesAudio,
     rowVars
<1>27. CASE CommitAged
  BY <1>27 DEF CommitAged, Turns, Refetched, Present, NoAudio, TypeOK, NoCleanup, fileVars,
     historyVars
<1>28. CASE ListOrphans
  BY <1>28 DEF ListOrphans, Turns, Refetched, Present, NoAudio, TypeOK, rowVars, fileVars,
     historyVars
<1>29. CASE Sweep
  BY <1>29 DEF Sweep, Turns, Refetched, Present, NoAudio, TypeOK, NoCleanup, rowVars,
     historyVars
<1>30. CASE Restart
  BY <1>30 DEF Restart, Turns, Refetched, Present, NoAudio, TypeOK, Paths, NoRun, NoRequest,
     NoCleanup, Untold
<1>31. CASE UNCHANGED vars
  BY <1>31 DEF vars, Turns, Refetched, Present, NoAudio, TypeOK
<1> QED BY <1>1, <1>2, <1>3, <1>4, <1>5, <1>6, <1>7, <1>8, <1>9, <1>10, <1>11, <1>12, <1>13,
           <1>14, <1>15, <1>16, <1>17, <1>18, <1>19, <1>20, <1>21, <1>22, <1>23, <1>24,
           <1>25, <1>26, <1>27, <1>28, <1>29, <1>30, <1>31
        DEF Next, RunStep, UserStep, CleanupStep


LEMMA RetranscribedNext ==
    ASSUME RunInv, AskInv, Retranscribed, [Next]_vars
    PROVE  Retranscribed'
<1> USE StatusTypes, Numbers DEF RunInv, AskInv
<1>1. CASE Claim
  BY <1>1 DEF Claim, Turns, Stages, Retranscribed, NoFile, Present, NoAudio, TypeOK, Goto,
     NoRequest, NoCleanup, taskVars, fileVars
<1>2. CASE Download
  BY <1>2 DEF Download, Turns, Stages, Retranscribed, NoFile, Present, NoAudio, TypeOK, rowVars,
     taskVars, historyVars
<1>3. CASE PersistOriginal
  BY <1>3 DEF PersistOriginal, Turns, Stages, Retranscribed, NoFile, Present, NoAudio, TypeOK,
     Goto, taskVars, fileVars
<1>4. CASE BeginTranscribe
  BY <1>4 DEF BeginTranscribe, Turns, Stages, Retranscribed, NoFile, Present, NoAudio, TypeOK,
     Paths, OneVersion, Goto, Begins, rowVars, taskVars, historyVars
<1>5. CASE Transcribe
  <2>1. /\ UNCHANGED <<asked, processed, audio>> /\ run'.pc = "detect"
        /\ transcript = 0
    BY <1>5 DEF Transcribe, Goto, TypeOK, Stages, historyVars
  <2>2. PICK f \in File : Present(f) /\ transcript' = audio[f]
    BY <1>5 DEF Transcribe, Paths, TypeOK, File
  <2>3. \A g \in File : Present(g) => audio[g] = audio[f]
    BY <2>2 DEF OneVersion
  <2> QED BY <2>1, <2>2, <2>3 DEF Retranscribed, NoFile, Present
<1>6. CASE BeginDetect
  BY <1>6 DEF BeginDetect, Turns, Stages, Retranscribed, NoFile, Present, NoAudio, TypeOK, Goto,
     Begins, rowVars, taskVars, fileVars, historyVars
<1>7. CASE StoreSegments
  BY <1>7 DEF StoreSegments, Turns, Stages, Retranscribed, NoFile, Present, NoAudio, TypeOK,
     Goto, rowVars, taskVars, fileVars, historyVars
<1>8. CASE StopPipeline
  BY <1>8 DEF StopPipeline, Turns, Stages, Retranscribed, NoFile, Present, NoAudio, TypeOK,
     NoRun, taskVars, fileVars, historyVars
<1>9. CASE BeginCut
  BY <1>9 DEF BeginCut, Turns, Stages, Retranscribed, NoFile, Present, NoAudio, TypeOK, Goto,
     Begins, rowVars, taskVars, fileVars, historyVars
<1>10. CASE Encode
  BY <1>10 DEF Encode, Turns, Stages, Retranscribed, NoFile, Present, NoAudio, TypeOK, Paths,
     OneVersion, rowVars, taskVars, historyVars
<1>11. CASE Finalize
  BY <1>11 DEF Finalize, Turns, Stages, Retranscribed, NoFile, Present, NoAudio, TypeOK, Goto,
     Begins, taskVars, fileVars, historyVars
<1>12. CASE UnlinkOriginal
  BY <1>12 DEF UnlinkOriginal, Turns, Stages, Retranscribed, NoFile, Present, NoAudio, TypeOK,
     Goto, rowVars, taskVars, historyVars
<1>13. CASE ForgetOriginal
  BY <1>13 DEF ForgetOriginal, Turns, Stages, Retranscribed, NoFile, Present, NoAudio, TypeOK,
     Goto, taskVars, fileVars, historyVars
<1>14. CASE Publish
  BY <1>14 DEF Publish, Turns, Stages, Retranscribed, NoFile, Present, NoAudio, TypeOK, NoRun,
     NotAsked, Begins, taskVars, fileVars
<1>15. CASE StepFails
  BY <1>15 DEF StepFails, Turns, Stages, Retranscribed, NoFile, Present, NoAudio, TypeOK, NoRun,
     taskVars, fileVars, historyVars
<1>16. CASE LosesStatus
  BY <1>16 DEF LosesStatus, Turns, Stages, Retranscribed, NoFile, Present, NoAudio, TypeOK,
     NoRun, Untold, rowVars, taskVars, fileVars, historyVars
<1>17. CASE Queue
  BY <1>17 DEF Queue, Turns, Stages, Retranscribed, NoFile, Present, NoAudio, TypeOK, taskVars,
     fileVars, historyVars
<1>18. CASE Dismiss
  BY <1>18 DEF Dismiss, Turns, Stages, Retranscribed, NoFile, Present, NoAudio, TypeOK,
     taskVars, fileVars, historyVars
<1>19. CASE CorrectSegments
  BY <1>19 DEF CorrectSegments, Turns, Stages, Retranscribed, NoFile, Present, NoAudio, TypeOK,
     rowVars, taskVars, fileVars, historyVars
<1>20. CASE \E from \in ReprocessStep : UnlinkArtifacts(from)
  BY <1>20 DEF UnlinkArtifacts, Turns, Stages, Retranscribed, NoFile, Present, NoAudio, TypeOK,
     NoRequest, NotAsked, rowVars
<1>21. CASE CommitReprocess
  BY <1>21 DEF CommitReprocess, Turns, Stages, Retranscribed, NoFile, Present, NoAudio, TypeOK,
     Removing, NoRequest, NotAsked, fileVars
<1>22. CASE ListExpired
  BY <1>22 DEF ListExpired, Turns, Stages, Retranscribed, NoFile, Present, NoAudio, TypeOK,
     rowVars, fileVars, historyVars
<1>23. CASE UnlinkExpired
  BY <1>23 DEF UnlinkExpired, Turns, Stages, Retranscribed, NoFile, Present, NoAudio, TypeOK,
     RemovesAudio, rowVars
<1>24. CASE CommitExpired
  BY <1>24 DEF CommitExpired, Turns, Stages, Retranscribed, NoFile, Present, NoAudio, TypeOK,
     NoCleanup, fileVars, historyVars
<1>25. CASE ListAged
  BY <1>25 DEF ListAged, Turns, Stages, Retranscribed, NoFile, Present, NoAudio, TypeOK, DONE,
     rowVars, fileVars, historyVars
<1>26. CASE UnlinkAged
  BY <1>26 DEF UnlinkAged, Turns, Stages, Retranscribed, NoFile, Present, NoAudio, TypeOK,
     NoCleanup, RemovesAudio, rowVars
<1>27. CASE CommitAged
  BY <1>27 DEF CommitAged, Turns, Stages, Retranscribed, NoFile, Present, NoAudio, TypeOK,
     NoCleanup, fileVars, historyVars
<1>28. CASE ListOrphans
  BY <1>28 DEF ListOrphans, Turns, Stages, Retranscribed, NoFile, Present, NoAudio, TypeOK,
     rowVars, fileVars, historyVars
<1>29. CASE Sweep
  BY <1>29 DEF Sweep, Turns, Stages, Retranscribed, NoFile, Present, NoAudio, TypeOK, NoCleanup,
     rowVars, historyVars
<1>30. CASE Restart
  BY <1>30 DEF Restart, Turns, Stages, Retranscribed, NoFile, Present, NoAudio, TypeOK, Paths,
     OneVersion, NoRun, NoRequest, NoCleanup, Untold
<1>31. CASE UNCHANGED vars
  BY <1>31 DEF vars, Turns, Stages, Retranscribed, NoFile, Present, NoAudio, TypeOK
<1> QED BY <1>1, <1>2, <1>3, <1>4, <1>5, <1>6, <1>7, <1>8, <1>9, <1>10, <1>11, <1>12, <1>13,
           <1>14, <1>15, <1>16, <1>17, <1>18, <1>19, <1>20, <1>21, <1>22, <1>23, <1>24,
           <1>25, <1>26, <1>27, <1>28, <1>29, <1>30, <1>31
        DEF Next, RunStep, UserStep, CleanupStep


\* THEOREM: what is published is what the latest reprocess asked for, whatever
\* failed, died or was corrected since (reprocess_episode and the steps'
\* "skipped" branches); but for a served file its row did not know of, a run
\* that was at the episode meanwhile, and audio that cleanup removed.
THEOREM Asked == Spec => PublishesWhatWasAsked
<1> DEFINE Answers == Recut /\ Refetched /\ Retranscribed
<1>1. Init => Answers
  BY DEF Init, Recut, Refetched, Retranscribed, Present, NotAsked, NoAudio
<1>2. RunInv /\ AskInv /\ Answers /\ [Next]_vars => Answers'
  BY RecutNext, RefetchedNext, RetranscribedNext
<1>3. RunInv /\ Answers /\ [Next]_vars =>
         [run.pc = "publish" /\ run' = NoRun /\ status' = PROCESSED /\ processed # NoAudio =>
             /\ processed.cut >= asked.rev
             /\ processed.of > asked.fetch
             /\ asked.full => transcript = processed.of]_vars
  BY DEF Recut, Refetched, Retranscribed
<1> HIDE DEF Answers
<1> QED BY <1>1, <1>2, <1>3, RunHolds, AskHolds, PTL DEF Spec, PublishesWhatWasAsked
=============================================================================
