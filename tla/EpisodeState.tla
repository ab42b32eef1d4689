---------------------------- MODULE EpisodeState ----------------------------
(***************************************************************************)
(* The episode statuses and the table of legal moves between them          *)
(* (backend/hushcast/pipeline/state.py).  Pure definitions: every other    *)
(* module that speaks of an episode's status takes it from here.           *)
(***************************************************************************)

DISCOVERED   == "discovered"
SKIPPED      == "skipped"
QUEUED       == "queued"
DOWNLOADING  == "downloading"
TRANSCRIBING == "transcribing"
DETECTING    == "detecting"
CUTTING      == "cutting"
PROCESSED    == "processed"
FAILED       == "failed"
REVIEW       == "review"
EXPIRED      == "expired"

ACTIVE == {DOWNLOADING, TRANSCRIBING, DETECTING, CUTTING}

ALL_STATUSES ==
    {DISCOVERED, SKIPPED, QUEUED, PROCESSED, FAILED, REVIEW, EXPIRED} \union ACTIVE

\* What a restart re-queues: work that was waiting or in flight.
RESUMABLE == {QUEUED} \union ACTIVE

Transitions ==
    [s \in ALL_STATUSES |->
        CASE s = DISCOVERED   -> {QUEUED, SKIPPED}
          [] s = SKIPPED      -> {QUEUED}
          [] s = QUEUED       -> {DOWNLOADING, FAILED}
          [] s = DOWNLOADING  -> {TRANSCRIBING, CUTTING, FAILED, QUEUED}
          [] s = TRANSCRIBING -> {DETECTING, FAILED, QUEUED}
          [] s = DETECTING    -> {CUTTING, FAILED, QUEUED, REVIEW, SKIPPED}
          [] s = CUTTING      -> {PROCESSED, FAILED, QUEUED}
          [] s = FAILED       -> {QUEUED, SKIPPED}
          [] s = REVIEW       -> {QUEUED, SKIPPED}
          [] s = PROCESSED    -> {EXPIRED, QUEUED}
          [] s = EXPIRED      -> {QUEUED}]

\* validate_transition raises InvalidTransition exactly when this is FALSE.
CanTransition(current, new) ==
    current \in ALL_STATUSES /\ new \in Transitions[current]
=============================================================================
