---------------------------- MODULE ActiveProofs ----------------------------
(***************************************************************************)
(* No episode is left looking busy: while the server is up, an active      *)
(* status is always that of a run which still has a step to write it off.  *)
(*                                                                         *)
(* ActiveIsOwned is not inductive.  What it rests on is in Owns: the run   *)
(* still has the job row without which it would give up, and what it       *)
(* loaded is the status it is going to replace (no handler can have made   *)
(* the episode active meanwhile).  And when the server comes up, nothing   *)
(* is active, because resume() committed that before it let anybody in.    *)
(***************************************************************************)
EXTENDS PipelineProofs

Owns(c, e) ==
    /\ consumer[c].ep = e
    /\ WrittenStatus(c) = rows[e].status
    /\ consumer[c].pc \in {"work", "close"} => OwnJob(c) \in jobs
    /\ consumer[c].pc \in {"start", "close", "final"} => consumer[c].seen.status = rows[e].status

ActiveHasOwner ==
    mode = "up" => \A e \in Episode :
        rows[e].status \in ACTIVE => \E c \in Consumer : Owns(c, e)

NothingActiveAtStart == mode = "requeued" => \A e \in Episode : rows[e].status \notin ACTIVE

FinishesAtTheEnd ==
    \A c \in Consumer :
        consumer[c].pc \in {"done", "final"} =>
            consumer[c].i = Len(PipelineFor(consumer[c].plan))

ActiveInv == ActiveHasOwner /\ NothingActiveAtStart /\ FinishesAtTheEnd

-----------------------------------------------------------------------------
\* Along either pipeline every status may follow the one before it, the last
\* one may be followed by PROCESSED, and detect may stop from its own.
LEMMA StageOrder ==
    ASSUME NEW p \in Plan, NEW i \in DOMAIN PipelineFor(p)
    PROVE  /\ i > 1 => /\ i - 1 \in DOMAIN PipelineFor(p)
                       /\ \/ PipelineFor(p)[i].status = PipelineFor(p)[i - 1].status
                          \/ CanTransition(PipelineFor(p)[i - 1].status, PipelineFor(p)[i].status)
           /\ i = Len(PipelineFor(p)) => CanTransition(PipelineFor(p)[i].status, PROCESSED)
           /\ PipelineFor(p)[i].step = "detect" =>
                  \A s \in StopStatus : CanTransition(PipelineFor(p)[i].status, s)
<1>1. /\ {DOWNLOADING, TRANSCRIBING, DETECTING, CUTTING} \subseteq ALL_STATUSES
      /\ {TRANSCRIBING, CUTTING} \subseteq Transitions[DOWNLOADING]
      /\ DETECTING \in Transitions[TRANSCRIBING]
      /\ {CUTTING, REVIEW, SKIPPED} \subseteq Transitions[DETECTING]
      /\ PROCESSED \in Transitions[CUTTING]
  BY DEF Transitions, ALL_STATUSES, ACTIVE, DISCOVERED, SKIPPED, QUEUED, DOWNLOADING,
         TRANSCRIBING, DETECTING, CUTTING, PROCESSED, FAILED, REVIEW, EXPIRED
<1>2. CASE p = "whitelisted"
  <2>1. PipelineFor(p) = WHITELISTED_PIPELINE
    BY <1>2 DEF PipelineFor
  <2>2. i = 1 \/ i = 2 \/ i = 3
    BY <2>1 DEF WHITELISTED_PIPELINE
  <2>3. QED
    BY <1>1, <2>1, <2>2 DEF WHITELISTED_PIPELINE, CanTransition
<1>3. CASE p # "whitelisted"
  <2>1. PipelineFor(p) = FULL_PIPELINE
    BY <1>3 DEF PipelineFor
  <2>2. i = 1 \/ i = 2 \/ i = 3 \/ i = 4 \/ i = 5 \/ i = 6
    BY <2>1 DEF FULL_PIPELINE
  <2>3. QED
    BY <1>1, <2>1, <2>2 DEF FULL_PIPELINE, CanTransition, StopStatus
<1>4. QED
  BY <1>2, <1>3

\* The statuses that are no run's.
LEMMA NotActive ==
    /\ {None, ABSENT, QUEUED, SKIPPED, EXPIRED, FAILED, REVIEW, PROCESSED} \intersect ACTIVE = {}
    /\ NoRow.status = ABSENT
    /\ \A f, s : NewRow(f, s).status = s
BY DEF None, ABSENT, ACTIVE, DOWNLOADING, TRANSCRIBING, DETECTING, CUTTING, QUEUED, SKIPPED,
       EXPIRED, FAILED, REVIEW, PROCESSED, NoRow, NewRow

\* A write-back that changes the status writes the new one, any other leaves
\* the status that is there.
LEMMA UpdateStatus ==
    ASSUME NEW row \in Row, NEW old \in Row, NEW new \in Row
    PROVE  Update(row, old, new).status =
               IF new.status # old.status THEN new.status ELSE row.status
BY DEF Update, Row

-----------------------------------------------------------------------------
\* What a consumer's step leaves alone: the other consumers, their episodes
\* and their jobs.
LEMMA OthersKept ==
    ASSUME TypeOK, NEW d \in Consumer, ConsumerStep(d)
    PROVE  /\ \A c \in Consumer \ {d} : consumer'[c] = consumer[c]
           /\ \A c \in Consumer \ {d} : OwnJob(c) \in jobs => OwnJob(c) \in jobs'
           /\ \A e \in Episode : e # consumer[d].ep => rows'[e] = rows[e]
<1>1. consumer \in [Consumer -> ConsumerState] /\ rows \in [Episode -> Row]
  BY DEF TypeOK, WorkerTypeOK, DatabaseTypeOK
<1>2. \A c \in Consumer \ {d} : OwnJob(c) # OwnJob(d)
  BY DEF OwnJob
<1>3. \A c \in Consumer \ {d} : consumer'[c] = consumer[c]
  BY <1>1 DEF ConsumerStep, Take, Claim, BeginStep, CommitStart, EndStep, CommitEnd, FinishRead,
              CommitProcessed, Release, Goto, Become
<1>4. UNCHANGED jobs \/ jobs' = jobs \union {OwnJob(d)} \/ jobs' = jobs \ {OwnJob(d)}
      \/ jobs' = (jobs \ {OwnJob(d)}) \union {[OwnJob(d) EXCEPT !.by = Nobody]}
  BY DEF ConsumerStep, Take, Claim, BeginStep, CommitStart, EndStep, CommitEnd, FinishRead,
         CommitProcessed, Release, databaseVars
<1>5. \A e \in Episode : e # consumer[d].ep => rows'[e] = rows[e]
  BY <1>1 DEF ConsumerStep, Take, Claim, BeginStep, CommitStart, EndStep, CommitEnd, FinishRead,
              CommitProcessed, Release, databaseVars
<1>6. QED
  BY <1>2, <1>3, <1>4, <1>5

\* A run that leaves its episode active still owns it: every way to let go
\* of an episode goes through a write of a status that is not active.
LEMMA OwnerStep ==
    ASSUME TypeOK, FinishesAtTheEnd, NEW d \in Consumer, ConsumerStep(d),
           consumer[d].pc # "idle", NEW e \in Episode, consumer[d].ep = e,
           rows[e].status \in ACTIVE => Owns(d, e),
           rows'[e].status \in ACTIVE
    PROVE  Owns(d, e)'
<1> DEFINE me == consumer[d]
<1>1. /\ me \in ConsumerState /\ me.i \in DOMAIN PipelineFor(me.plan) /\ me.plan \in Plan
      /\ e \in Episode /\ rows \in [Episode -> Row] /\ rows[e] \in Row /\ me.seen \in Row
      /\ consumer \in [Consumer -> ConsumerState]
  BY DEF TypeOK, WorkerTypeOK, DatabaseTypeOK, ConsumerState
<1>2. Stage(d).status \in ACTIVE /\ Stage(d).step \in Step
  BY <1>1, StageType DEF Stage
<1>3. rows[e].status \in ACTIVE => Owns(d, e)
  OBVIOUS
<1>4. ASSUME Goto(d, "release"), rows' = rows, WrittenStatus(d) \notin ACTIVE
      PROVE  FALSE
  BY <1>4 DEF Owns
<1>5. CASE Take(d)
  BY <1>5 DEF Take
<1>6. CASE Claim(d)
  BY <1>6, NotActive DEF Claim, databaseVars, Owns, WrittenStatus
<1>7. CASE BeginStep(d)
  <2>1. rows' = rows /\ jobs' = jobs /\ me.pc = "begin"
    BY <1>7 DEF BeginStep, databaseVars
  <2>2. Owns(d, e) /\ me.i > 1
    BY <1>1, <2>1, NotActive DEF Owns, WrittenStatus, ConsumerState
  <2>3. rows[e].status = PipelineFor(me.plan)[me.i - 1].status
    BY <2>1, <2>2 DEF Owns, WrittenStatus
  <2>4. rows[e].status = Stage(d).status \/ CanTransition(rows[e].status, Stage(d).status)
    BY <1>1, <2>2, <2>3, StageOrder DEF Stage
  <2>5. consumer' = [consumer EXCEPT ![d] = [me EXCEPT !.pc = "start", !.seen = rows[e]]]
    BY <1>7, <2>4 DEF BeginStep, Become
  <2>6. QED
    BY <1>1, <2>1, <2>2, <2>3, <2>5 DEF Owns, WrittenStatus, Stage, OwnJob, ConsumerState
<1>8. CASE CommitStart(d)
  <2>1. me.pc = "start"
    BY <1>8 DEF CommitStart
  <2>2. Exists(e)
    BY <1>8, NotActive DEF CommitStart, Exists
  <2>3. /\ rows' = [rows EXCEPT ![e] = Update(@, me.seen, [me.seen EXCEPT !.status = Stage(d).status])]
        /\ jobs' = jobs \union {OwnJob(d)}
        /\ Goto(d, "work")
    BY <1>8, <2>2 DEF CommitStart
  <2>4. [me.seen EXCEPT !.status = Stage(d).status] \in Row
    BY <1>1, <1>2 DEF Row, ALL_STATUSES
  <2>5. rows'[e].status = IF Stage(d).status # me.seen.status THEN Stage(d).status ELSE rows[e].status
    BY <1>1, <2>3, <2>4, UpdateStatus DEF Row
  <2>6. rows'[e].status = Stage(d).status
    BY <2>1, <2>5 DEF Owns
  <2>7. consumer' = [consumer EXCEPT ![d] = [me EXCEPT !.pc = "work", !.seen = NoRow, !.outcome = "ok"]]
    BY <2>3 DEF Goto, Become
  <2>8. QED
    BY <1>1, <2>3, <2>6, <2>7 DEF Owns, WrittenStatus, Stage, OwnJob, ConsumerState
<1>9. ASSUME NEW outcome \in {"ok", "error"} \union StopStatus, EndStep(d, outcome)
      PROVE  Owns(d, e)'
  <2>1. rows' = rows /\ me.pc = "work" /\ outcome \in Outcome(Stage(d).step)
    BY <1>9 DEF EndStep
  <2>2. Owns(d, e) /\ OwnJob(d) \in jobs /\ rows[e].status = Stage(d).status
    BY <2>1 DEF Owns, WrittenStatus
  <2>3. outcome \in StopStatus => CanTransition(rows[e].status, outcome)
    BY <1>1, <2>1, <2>2, StageOrder DEF Outcome, Stage, StopStatus, REVIEW, SKIPPED
  <2>4. consumer' = [consumer EXCEPT ![d] = [me EXCEPT !.pc = "close", !.seen = rows[e], !.outcome = outcome]]
        /\ jobs' = jobs
    BY <1>9, <2>2, <2>3 DEF EndStep, Become
  <2>5. QED
    BY <1>1, <2>1, <2>2, <2>4 DEF Owns, WrittenStatus, Stage, OwnJob, ConsumerState
<1>10. CASE CommitEnd(d)
  <2>1. me.pc = "close" /\ me.outcome \in {"ok", "error"} \union StopStatus
    BY <1>1, <1>10 DEF CommitEnd, ConsumerState
  <2>2. OwnJob(d) \in jobs
    BY <1>10, <2>1 DEF CommitEnd, Owns
  <2> DEFINE new == CASE me.outcome = "ok"         -> me.seen
                      [] me.outcome = "error"      -> Failed(me.seen, Stage(d).step)
                      [] me.outcome \in StopStatus -> [me.seen EXCEPT !.status = me.outcome]
  <2>3. rows' = [rows EXCEPT ![e] = Update(@, me.seen, new)]
    BY <1>10, <2>2 DEF CommitEnd
  <2>4. CASE me.outcome # "ok"
    <3>1. new \in Row /\ new.status \notin ACTIVE
      <4>1. CASE me.outcome = "error"
        <5>1. new = Failed(me.seen, Stage(d).step)
          BY <4>1 DEF StopStatus, REVIEW, SKIPPED
        <5>2. new \in Row
          BY <1>1, <1>2, <5>1, FailedType
        <5>3. new.status = FAILED
          BY <1>1, <5>1 DEF Failed, Row
        <5>4. QED
          BY <5>2, <5>3, NotActive
      <4>2. CASE me.outcome \in StopStatus
        <5>1. me.outcome # "error"
          BY <4>2 DEF StopStatus, REVIEW, SKIPPED
        <5>2. new = [me.seen EXCEPT !.status = me.outcome]
          BY <2>4, <4>2, <5>1
        <5>3. new \in Row /\ new.status = me.outcome
          BY <1>1, <4>2, <5>2 DEF Row, StopStatus, ALL_STATUSES
        <5>4. QED
          BY <4>2, <5>3, NotActive DEF StopStatus
      <4>3. QED
        BY <2>1, <2>4, <4>1, <4>2
    <3> HIDE DEF new
    <3>2. rows'[e].status = IF new.status # me.seen.status THEN new.status ELSE rows[e].status
      BY <1>1, <2>3, <3>1, UpdateStatus
    <3>3. QED
      BY <2>1, <3>1, <3>2 DEF Owns
  <2>5. CASE me.outcome = "ok"
    <3>1. new = me.seen
      BY <2>5 DEF StopStatus, REVIEW, SKIPPED
    <3> HIDE DEF new
    <3>2. rows'[e].status = rows[e].status
      BY <1>1, <2>3, <3>1, UpdateStatus
    <3>3. Owns(d, e) /\ rows[e].status = Stage(d).status
      BY <2>1, <3>2 DEF Owns, WrittenStatus
    <3> DEFINE last == me.i = Len(PipelineFor(me.plan))
               next == [me EXCEPT !.pc = IF last THEN "done" ELSE "begin",
                                  !.i = IF last THEN @ ELSE @ + 1, !.seen = NoRow]
    <3>4. consumer' = [consumer EXCEPT ![d] = next]
      BY <1>10, <2>2, <2>5 DEF CommitEnd, Become
    <3>5. me.i \in 1..6
      BY <1>1 DEF ConsumerState
    <3>6. /\ next.ep = e /\ next.plan = me.plan
          /\ last => next.pc = "done" /\ next.i = me.i
          /\ ~last => next.pc = "begin" /\ next.i = me.i + 1 /\ next.i > 1 /\ next.i - 1 = me.i
      BY <1>1, <3>5 DEF ConsumerState
    <3> HIDE DEF next, last
    <3>7. consumer'[d] = next
      BY <1>1, <3>4
    <3>8. WrittenStatus(d)' = Stage(d).status
      BY <3>6, <3>7 DEF WrittenStatus, Stage
    <3>9. QED
      BY <3>2, <3>3, <3>6, <3>7, <3>8 DEF Owns
  <2>6. QED
    BY <2>4, <2>5
<1>11. CASE FinishRead(d)
  <2>1. rows' = rows /\ jobs' = jobs /\ me.pc = "done"
    BY <1>11 DEF FinishRead, databaseVars
  <2>2. Owns(d, e) /\ rows[e].status = Stage(d).status
    BY <2>1 DEF Owns, WrittenStatus
  <2>3. CanTransition(rows[e].status, PROCESSED)
    BY <1>1, <2>1, <2>2, StageOrder DEF FinishesAtTheEnd, Stage
  <2>4. consumer' = [consumer EXCEPT ![d] = [me EXCEPT !.pc = "final", !.seen = rows[e]]]
    BY <1>11, <2>3 DEF FinishRead, Become
  <2>5. QED
    BY <1>1, <2>1, <2>2, <2>4 DEF Owns, WrittenStatus, Stage, OwnJob, ConsumerState
<1>12. CASE CommitProcessed(d)
  <2>1. me.pc = "final"
    BY <1>12 DEF CommitProcessed
  <2>2. Exists(e)
    BY <1>12, NotActive DEF CommitProcessed, Exists
  <2>3. NewRow(me.seen.feed, PROCESSED) \in Row /\ NewRow(me.seen.feed, PROCESSED).status = PROCESSED
    BY <1>1, RowTypes, NotActive DEF Row, ALL_STATUSES
  <2>4. rows' = [rows EXCEPT ![e] = Update(@, me.seen, NewRow(me.seen.feed, PROCESSED))]
    BY <1>12, <2>2 DEF CommitProcessed
  <2>5. rows'[e].status = IF PROCESSED # me.seen.status THEN PROCESSED ELSE rows[e].status
    BY <1>1, <2>3, <2>4, UpdateStatus
  <2>6. QED
    BY <2>1, <2>5, NotActive DEF Owns
<1>13. CASE Release(d)
  BY <1>13, NotActive DEF Release, databaseVars, Owns, WrittenStatus
<1>14. QED
  BY <1>5, <1>6, <1>7, <1>8, <1>9, <1>10, <1>11, <1>12, <1>13 DEF ConsumerStep

-----------------------------------------------------------------------------
\* THE INVARIANT

\* What it says of the consumers that have not moved and of their episodes.
LEMMA OwnsKept ==
    ASSUME NEW c \in Consumer, NEW e \in Episode, Owns(c, e),
           consumer'[c] = consumer[c], rows'[e].status = rows[e].status,
           OwnJob(c) \in jobs => OwnJob(c) \in jobs'
    PROVE  Owns(c, e)'
<1>1. OwnJob(c)' = OwnJob(c) /\ WrittenStatus(c)' = WrittenStatus(c)
  BY DEF OwnJob, WrittenStatus, Stage
<1>2. QED
  BY <1>1 DEF Owns

\* A step of a handler or a user: the consumers stay where they are, a
\* status it writes is not active, and a job goes only with its episode.
LEMMA OutsideStep ==
    ASSUME ActiveInv, mode = "up", UNCHANGED <<consumer, mode>>,
           \A e \in Episode :
               rows'[e].status \in ACTIVE =>
                   /\ rows'[e].status = rows[e].status
                   /\ \A j \in jobs : j.ep = e => j \in jobs'
    PROVE  ActiveInv'
<1>1. ASSUME NEW e \in Episode, rows'[e].status \in ACTIVE
      PROVE  \E c \in Consumer : Owns(c, e)'
  <2>1. PICK c \in Consumer : Owns(c, e)
    BY <1>1 DEF ActiveInv, ActiveHasOwner
  <2>2. OwnJob(c).ep = e
    BY <2>1 DEF Owns, OwnJob
  <2>3. Owns(c, e)'
    BY <1>1, <2>1, <2>2, OwnsKept
  <2>4. QED
    BY <2>3
<1>2. FinishesAtTheEnd'
  BY DEF ActiveInv, FinishesAtTheEnd
<1>3. QED
  BY <1>1, <1>2 DEF ActiveInv, ActiveHasOwner, NothingActiveAtStart

LEMMA FinishesAtTheEndStep ==
    ASSUME TypeOK, FinishesAtTheEnd, NEW d \in Consumer, ConsumerStep(d)
    PROVE  FinishesAtTheEnd'
<1> DEFINE me == consumer[d]
<1>1. \A c \in Consumer \ {d} : consumer'[c] = consumer[c]
  BY OthersKept
<1>2. me \in ConsumerState /\ consumer \in [Consumer -> ConsumerState]
  BY DEF TypeOK, WorkerTypeOK
<1>3. SUFFICES consumer'[d].pc \in {"done", "final"} =>
                   consumer'[d].i = Len(PipelineFor(consumer'[d].plan))
  BY <1>1 DEF FinishesAtTheEnd
<1>4. ASSUME NEW pc, pc \notin {"done", "final"}, Goto(d, pc)
      PROVE  consumer'[d].pc \notin {"done", "final"}
  BY <1>2, <1>4 DEF Goto, Become, ConsumerState
<1>5. CASE Claim(d)
  <2>1. \A p : NewRun(me.ep, p, max_retries).pc = "begin"
    BY DEF NewRun
  <2>2. QED
    BY <1>2, <1>4, <1>5, <2>1 DEF Claim, Become
<1>6. CASE CommitEnd(d)
  <2> DEFINE last == me.i = Len(PipelineFor(me.plan))
             next == [me EXCEPT !.pc = IF last THEN "done" ELSE "begin",
                                !.i = IF last THEN @ ELSE @ + 1, !.seen = NoRow]
  <2>1. CASE Goto(d, "release")
    BY <1>4, <2>1
  <2>2. CASE Become(d, next)
    <3>1. next.plan = me.plan /\ (last => next.i = me.i) /\ (~last => next.pc = "begin")
      BY <1>2 DEF ConsumerState
    <3> HIDE DEF next
    <3>2. consumer'[d] = next
      BY <1>2, <2>2 DEF Become
    <3>3. QED
      BY <3>1, <3>2
  <2>3. QED
    BY <1>6, <2>1, <2>2 DEF CommitEnd
<1>7. CASE FinishRead(d)
  BY <1>2, <1>4, <1>7 DEF FinishRead, Become, ConsumerState, FinishesAtTheEnd
<1>8. CASE Take(d)
  BY <1>2, <1>8 DEF Take, Become, ConsumerState
<1>9. CASE BeginStep(d)
  BY <1>2, <1>4, <1>9 DEF BeginStep, Become, ConsumerState
<1>10. ASSUME NEW outcome, EndStep(d, outcome)
       PROVE  consumer'[d].pc \notin {"done", "final"}
  BY <1>2, <1>4, <1>10 DEF EndStep, Become, ConsumerState
<1>11. CASE CommitStart(d) \/ CommitProcessed(d)
  BY <1>4, <1>11 DEF CommitStart, CommitProcessed
<1>12. CASE Release(d)
  BY <1>2, <1>12 DEF Release, Become, Idle
<1>13. QED
  BY <1>5, <1>6, <1>7, <1>8, <1>9, <1>10, <1>11, <1>12 DEF ConsumerStep

LEMMA ActiveWorkerStep ==
    ASSUME TypeOK, OneRunPerEpisode, ActiveInv, NEW d \in Consumer, WorkerStep(d)
    PROVE  ActiveInv'
<1>1. mode = "up" /\ mode' = "up" /\ ConsumerStep(d)
  BY DEF WorkerStep
<1>2. FinishesAtTheEnd'
  BY <1>1, FinishesAtTheEndStep DEF ActiveInv
<1>3. SUFFICES ASSUME NEW e \in Episode, rows'[e].status \in ACTIVE
               PROVE  \E c \in Consumer : Owns(c, e)'
  BY <1>1, <1>2 DEF ActiveInv, ActiveHasOwner, NothingActiveAtStart
<1>4. \A c \in Consumer : Owns(c, e) /\ rows[e].status \in ACTIVE => consumer[c].pc # "idle"
  BY NotActive DEF Owns, WrittenStatus
<1>5. CASE consumer[d].pc # "idle" /\ consumer[d].ep = e
  <2>1. rows[e].status \in ACTIVE => Owns(d, e)
    <3>1. SUFFICES ASSUME rows[e].status \in ACTIVE PROVE Owns(d, e)
      OBVIOUS
    <3>2. PICK c \in Consumer : Owns(c, e)
      BY <1>1, <3>1 DEF ActiveInv, ActiveHasOwner
    <3>3. c = d
      BY <1>4, <1>5, <3>1, <3>2 DEF OneRunPerEpisode, Owns
    <3>4. QED
      BY <3>2, <3>3
  <2>2. Owns(d, e)'
    BY <1>1, <1>3, <1>5, <2>1, OwnerStep DEF ActiveInv
  <2>3. QED
    BY <2>2
<1>6. CASE ~(consumer[d].pc # "idle" /\ consumer[d].ep = e)
  <2>1. rows'[e] = rows[e]
    <3>1. CASE consumer[d].ep # e
      BY <1>1, <3>1, OthersKept
    <3>2. CASE consumer[d].pc = "idle"
      BY <1>1, <3>2 DEF ConsumerStep, Take, Claim, BeginStep, CommitStart, EndStep, CommitEnd,
                        FinishRead, CommitProcessed, Release, databaseVars
    <3>3. QED
      BY <1>6, <3>1, <3>2
  <2>2. PICK c \in Consumer : Owns(c, e)
    BY <1>1, <1>3, <2>1 DEF ActiveInv, ActiveHasOwner
  <2>3. c # d
    BY <1>3, <1>4, <1>6, <2>1, <2>2 DEF Owns
  <2>4. Owns(c, e)'
    BY <1>1, <2>1, <2>2, <2>3, OthersKept, OwnsKept
  <2>5. QED
    BY <2>4
<1>7. QED
  BY <1>5, <1>6

\* No handler writes an active status.
LEMMA CommitActive ==
    ASSUME TypeOK, NEW t \in Task, Commit(t), NEW e \in Episode, rows'[e].status \in ACTIVE
    PROVE  rows'[e].status = rows[e].status
<1> DEFINE op   == task[t].op
           ids  == task[t].ids
           seen == task[t].seen
           new  == [x \in ids |-> Assigned(op, seen[x])]
<1>1. /\ task[t] \in TaskState /\ op \in Op \ {"upsert"} /\ ids \in SUBSET Episode
      /\ seen \in [Episode -> Row] /\ rows \in [Episode -> Row]
  BY DEF TypeOK, RequestsTypeOK, DatabaseTypeOK, Commit, TaskState
<1>2. CASE e \in ids /\ Flush(ids, seen, new)
  <2>1. new[e] \in Row /\ new[e] = Assigned(op, seen[e])
    BY <1>1, <1>2, AssignedType
  <2>2. new[e].status \in {QUEUED, SKIPPED, EXPIRED}
    <3>1. ASSUME NEW s
          PROVE  [seen[e] EXCEPT !.status = s].status = s
      BY <1>1 DEF Row
    <3>2. CASE op = "reprocess"
      BY <2>1, <3>2, NotActive DEF Assigned
    <3>3. CASE op \in {"queue", "requeue"}
      BY <2>1, <3>1, <3>3 DEF Assigned
    <3>4. CASE op = "dismiss"
      BY <2>1, <3>1, <3>4 DEF Assigned
    <3>5. CASE op = "expire"
      BY <2>1, <3>1, <3>5 DEF Assigned
    <3>6. QED
      BY <1>1, <3>2, <3>3, <3>4, <3>5 DEF Op
  <2> HIDE DEF new
  <2>3. rows'[e] = Update(rows[e], seen[e], new[e])
    BY <1>1, <1>2 DEF Flush
  <2>4. rows'[e].status = IF new[e].status # seen[e].status THEN new[e].status ELSE rows[e].status
    BY <1>1, <2>1, <2>3, UpdateStatus
  <2>5. QED
    BY <2>2, <2>4, NotActive
<1>3. CASE e \notin ids \/ UNCHANGED rows
  BY <1>3 DEF Commit, Flush
<1>4. QED
  BY <1>2, <1>3 DEF Commit

LEMMA ActiveInit == Init => ActiveInv
BY NotActive DEF Init, WorkerInit, DatabaseInit, Idle, ActiveInv, ActiveHasOwner,
                 NothingActiveAtStart, FinishesAtTheEnd

LEMMA ActiveStartup ==
    ASSUME TypeOK, ActiveInv, Startup
    PROVE  ActiveInv'
<1>1. FinishesAtTheEnd'
  BY DEF Startup, CloseOrphanJobs, RequeueResumable, EnqueueResumed, workerVars, ActiveInv,
         FinishesAtTheEnd
<1>2. CASE CloseOrphanJobs
  BY <1>1, <1>2 DEF CloseOrphanJobs, ActiveInv, ActiveHasOwner, NothingActiveAtStart
<1>3. CASE RequeueResumable
  <2>1. \A e \in Episode : rows'[e].status \notin ACTIVE
    <3>1. SUFFICES ASSUME NEW e \in Episode PROVE rows'[e].status \notin ACTIVE
      OBVIOUS
    <3>2. [rows[e] EXCEPT !.status = QUEUED].status = QUEUED
      BY DEF TypeOK, DatabaseTypeOK, Row
    <3>3. QED
      BY <1>3, <3>2, NotActive DEF RequeueResumable, RESUMABLE
  <2>2. QED
    BY <1>1, <1>3, <2>1 DEF RequeueResumable, ActiveInv, ActiveHasOwner, NothingActiveAtStart
<1>4. CASE EnqueueResumed
  BY <1>1, <1>4 DEF EnqueueResumed, databaseVars, ActiveInv, ActiveHasOwner, NothingActiveAtStart
<1>5. QED
  BY <1>2, <1>3, <1>4 DEF Startup

LEMMA ActiveNext ==
    TypeOK /\ OneRunPerEpisode /\ ActiveInv /\ [Next]_vars => ActiveInv'
<1> SUFFICES ASSUME TypeOK, OneRunPerEpisode, ActiveInv, [Next]_vars PROVE ActiveInv'
  OBVIOUS
<1>1. ASSUME mode = "up", UNCHANGED <<rows, jobs, consumer, mode>>
      PROVE  ActiveInv'
  BY <1>1, OutsideStep
<1>2. CASE UNCHANGED vars
  <2>1. UNCHANGED <<rows, jobs, consumer, mode>>
    BY <1>2 DEF vars, databaseVars, workerVars
  <2>2. \A c \in Consumer, e \in Episode : Owns(c, e)' = Owns(c, e)
    BY <2>1 DEF Owns, OwnJob, WrittenStatus, Stage
  <2>3. QED
    BY <2>1, <2>2 DEF ActiveInv, ActiveHasOwner, NothingActiveAtStart, FinishesAtTheEnd
<1>3. CASE Stop
  BY <1>3 DEF Stop, Idle, ActiveInv, ActiveHasOwner, NothingActiveAtStart, FinishesAtTheEnd
<1>4. ASSUME NEW t \in Task, HandlerStep(t)
      PROVE  ActiveInv'
  <2>1. mode = "up" /\ UNCHANGED <<mode, consumer, jobs>> /\ (Commit(t) \/ Enqueue(t))
    BY <1>4 DEF HandlerStep, Commit, Enqueue, workerVars, databaseVars
  <2>2. CASE Commit(t)
    BY <2>1, <2>2, CommitActive, OutsideStep
  <2>3. CASE Enqueue(t)
    BY <1>1, <2>1, <2>3 DEF Enqueue, databaseVars
  <2>4. QED
    BY <2>1, <2>2, <2>3
<1>5. ASSUME NEW r \in Request, UserStep(r)
      PROVE  ActiveInv'
  <2>1. mode = "up" /\ UNCHANGED mode /\ UserRequest(r)
    BY <1>5 DEF UserStep
  <2>2. ASSUME NEW f \in Feed, DeleteFeed(r, f)
        PROVE  ActiveInv'
    <3>1. \A e \in Episode :
              \/ rows'[e] = rows[e] /\ \A j \in jobs : j.ep = e => j \in jobs'
              \/ rows'[e] = NoRow
      BY <2>2 DEF DeleteFeed
    <3>2. QED
      BY <2>1, <2>2, <3>1, NotActive, OutsideStep DEF DeleteFeed, workerVars
  <2>3. QED
    BY <1>1, <2>1, <2>2 DEF UserRequest, QueueEpisode, DismissEpisode, DismissFailed,
                            ReprocessEpisode, Load, SetMaxRetries, databaseVars, workerVars
<1>6. CASE SchedulerStep
  BY <1>1, <1>6 DEF SchedulerStep, SchedulerJob, RequeueFailed, ExpireProcessed, Load,
                    databaseVars, workerVars
<1>7. ASSUME NEW t \in Task, NEW f \in Feed, PollStep(t, f)
      PROVE  ActiveInv'
  <2>1. mode = "up" /\ UNCHANGED <<mode, jobs, consumer>>
    BY <1>7 DEF PollStep, Upsert, workerVars
  <2>2. PICK last \in NextId..MaxId :
        \E status \in [{e \in Episode : NextId <= e /\ e <= last} ->
              IF \E e \in Episode : rows[e].feed = f THEN {QUEUED, SKIPPED} ELSE {SKIPPED}] :
            rows' = [e \in Episode |-> IF e \in DOMAIN status THEN NewRow(f, status[e]) ELSE rows[e]]
    BY <1>7 DEF PollStep, Upsert
  <2> DEFINE new     == {e \in Episode : NextId <= e /\ e <= last}
             allowed == IF \E e \in Episode : rows[e].feed = f THEN {QUEUED, SKIPPED} ELSE {SKIPPED}
  <2>3. PICK status \in [new -> allowed] :
            rows' = [e \in Episode |-> IF e \in DOMAIN status THEN NewRow(f, status[e]) ELSE rows[e]]
    BY <2>2
  <2>4. \A e \in DOMAIN status : status[e] \in {QUEUED, SKIPPED}
    BY <2>3
  <2>5. \A e \in Episode : rows'[e] = rows[e] \/ rows'[e].status \notin ACTIVE
    BY <2>3, <2>4, NotActive
  <2>6. QED
    BY <2>1, <2>5, OutsideStep
<1>8. QED
  BY <1>2, <1>3, <1>4, <1>5, <1>6, <1>7, ActiveStartup, ActiveWorkerStep DEF Next

LEMMA ActiveInvImplies == ActiveInv => ActiveIsOwned
BY DEF ActiveInv, ActiveHasOwner, ActiveIsOwned, Owns

\* While the server is up, an episode shown as downloading, transcribing,
\* detecting or cutting is in the hands of a consumer at that stage, through
\* every crash, restart, deletion and stale write-back of a handler.
THEOREM ActiveOwned == Spec => []ActiveIsOwned
<1>1. QED
  BY TypeCorrect, OneRun, ActiveInit, ActiveNext, ActiveInvImplies, PTL DEF Spec
=============================================================================
