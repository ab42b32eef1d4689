---------------------------- MODULE FeedsProofs -----------------------------
(***************************************************************************)
(* What Feeds keeps for any number of feeds, requests and items, whatever  *)
(* the source publishes and however often the process dies.                *)
(***************************************************************************)
EXTENDS Feeds, TLAPS

-----------------------------------------------------------------------------
\* TYPES

\* What a task is about is known by where it is: a poll has a feed, and what
\* goes on to the insert has a document, since an addition sends no validator.
Shaped(s) ==
    /\ s.pc \in {"load", "fail", "reset", "begin", "insert", "enqueue", "count", "notify"} => s.feed \in FeedId
    /\ s.pc = "fetch" => IF s.op = "poll" THEN s.feed \in FeedId ELSE s.sent = 0
    /\ s.pc \in {"begin", "insert", "slug", "add"} => s.doc \in Version

TypeInv == TypeOK /\ \A t \in Task : Shaped(tasks[t])

LEMMA VersionsAreNumbers == Version \subseteq Nat \ {0} /\ FeedId \subseteq Nat \ {0} /\ 1 \in Version
<1>1. Docs \in Seq(Seq(Guid)) /\ Docs # <<>> /\ FeedId \subseteq Nat \ {0}
  BY FeedsAssumption
<1>2. Len(Docs) \in Nat /\ Len(Docs) # 0
  BY <1>1
<1> QED BY <1>1, <1>2 DEF Version

LEMMA NoTaskType == NoTask \in TaskState /\ Shaped(NoTask) /\ NoTask.pc = "idle" /\ NoTask.op = "poll"
BY DEF NoTask, TaskState, Pc, Shaped

LEMMA NoFeedType == NoFeed \in FeedRow /\ NoFeed.slug = 0
BY DEF NoFeed, FeedRow

\* One task moves.
LEMMA OneMoves ==
    ASSUME TypeInv, NEW t \in Task, NEW s \in TaskState, Shaped(s), tasks' = [tasks EXCEPT ![t] = s]
    PROVE  tasks' \in [Task -> TaskState] /\ \A u \in Task : Shaped(tasks'[u])
BY DEF TypeInv, TypeOK

LEMMA DoneType ==
    ASSUME TypeInv, NEW t \in Task, Done(t)
    PROVE  tasks' \in [Task -> TaskState] /\ \A u \in Task : Shaped(tasks'[u])
BY NoTaskType, OneMoves DEF Done

LEMMA ResetType ==
    ASSUME TypeOK, NEW f \in FeedId, NEW loaded
    PROVE  Reset(f, loaded) \in Nat
BY DEF TypeOK, FeedRow, Reset

LEMMA RowType ==
    ASSUME TypeOK, NEW f \in FeedId, NEW n \in Nat
    PROVE  /\ [feeds EXCEPT ![f].failures = n] \in [FeedId -> FeedRow]
           /\ \A e \in {0} \union Version :
                  [feeds EXCEPT ![f].etag = e, ![f].failures = n] \in [FeedId -> FeedRow]
BY DEF TypeOK, FeedRow

\* Where a poll goes before it writes.
LEMMA FetchType ==
    ASSUME TypeInv, NEW t \in Task,
           (\E f \in FeedId : StartPoll(t, f)) \/ FetchAnswer(t) \/ FetchFails(t) \/ StartCreate(t)
    PROVE  TypeInv'
<1>1. tasks[t] \in TaskState /\ Shaped(tasks[t]) /\ tasks \in [Task -> TaskState] /\ version \in Version
  BY DEF TypeInv, TypeOK
<1>2. UNCHANGED <<version, feeds, rows, accepted, lock, told, blurred, crashes>>
  BY DEF StartPoll, FetchAnswer, FetchFails, StartCreate
<1>3. CASE \E f \in FeedId : StartPoll(t, f)
  <2>1. PICK f \in FeedId : StartPoll(t, f)
    BY <1>3
  <2> DEFINE s == [NoTask EXCEPT !.pc = "fetch", !.feed = f, !.sent = feeds[f].etag]
  <2>2. s \in TaskState /\ Shaped(s)
    BY NoTaskType DEF TypeInv, TypeOK, FeedRow, TaskState, Pc, Shaped
  <2>3. tasks' = [tasks EXCEPT ![t] = s]
    BY <2>1 DEF StartPoll
  <2> HIDE DEF s
  <2> QED BY <1>2, <2>2, <2>3, OneMoves DEF TypeInv, TypeOK
<1>4. CASE FetchAnswer(t)
  <2>4. PICK doc \in {0, version} :
             /\ doc = 0 => tasks[t].sent = version
             /\ tasks' = [tasks EXCEPT ![t].pc = IF tasks[t].op = "create" THEN "slug" ELSE "load",
                                       ![t].sent = 0, ![t].doc = doc]
    BY <1>4 DEF FetchAnswer
  <2> DEFINE s == [tasks[t] EXCEPT !.pc = IF tasks[t].op = "create" THEN "slug" ELSE "load",
                                   !.sent = 0, !.doc = doc]
  <2>1. tasks' = [tasks EXCEPT ![t] = s]
    BY <1>1, <2>4 DEF TaskState
  <2>2. s \in TaskState
    BY <1>1 DEF TaskState, Pc
  <2>3. Shaped(s)
    BY <1>1, <1>4, <2>4, VersionsAreNumbers DEF FetchAnswer, At, TaskState, Shaped
  <2> HIDE DEF s
  <2> QED BY <1>2, <2>1, <2>2, <2>3, OneMoves DEF TypeInv, TypeOK
<1>5. CASE FetchFails(t) /\ Done(t)
  BY <1>2, <1>5, DoneType DEF TypeInv, TypeOK
<1>6. CASE FetchFails(t) /\ tasks[t].op = "poll" /\ Goto(t, "fail")
  <2> DEFINE s == [tasks[t] EXCEPT !.pc = "fail"]
  <2>1. tasks' = [tasks EXCEPT ![t] = s]
    BY <1>6 DEF Goto
  <2>2. s \in TaskState /\ Shaped(s)
    BY <1>1, <1>6 DEF FetchFails, At, TaskState, Pc, Shaped
  <2> HIDE DEF s
  <2> QED BY <1>2, <2>1, <2>2, OneMoves DEF TypeInv, TypeOK
<1>7. CASE StartCreate(t)
  <2> DEFINE s == [NoTask EXCEPT !.pc = "fetch", !.op = "create"]
  <2>1. s \in TaskState /\ Shaped(s)
    BY DEF NoTask, TaskState, Pc, Shaped
  <2>2. tasks' = [tasks EXCEPT ![t] = s]
    BY <1>7 DEF StartCreate
  <2> HIDE DEF s
  <2> QED BY <1>2, <2>1, <2>2, OneMoves DEF TypeInv, TypeOK
<1> QED BY <1>3, <1>4, <1>5, <1>6, <1>7 DEF FetchFails

LEMMA LoadType ==
    ASSUME TypeInv, NEW t \in Task, Load(t)
    PROVE  TypeInv'
<1>1. tasks[t] \in TaskState /\ Shaped(tasks[t]) /\ tasks \in [Task -> TaskState]
  BY DEF TypeInv, TypeOK
<1>2. UNCHANGED <<version, feeds, rows, accepted, lock, told, blurred, crashes>>
  BY DEF Load
<1>3. CASE Done(t)
  BY <1>2, <1>3, DoneType DEF TypeInv, TypeOK
<1>4. CASE ~Done(t)
  <2> DEFINE f == tasks[t].feed
             s == [tasks[t] EXCEPT
                      !.pc = IF At(t, "fail") THEN "count" ELSE IF tasks[t].doc = 0 THEN "reset" ELSE "begin",
                      !.loaded = feeds[f].failures]
  <2>1. f \in FeedId /\ feeds[f].failures \in Nat
    BY <1>1 DEF Load, At, Shaped, TypeInv, TypeOK, FeedRow
  <2>2. tasks' = [tasks EXCEPT ![t] = s]
    BY <1>1, <1>4 DEF Load, TaskState
  <2>3. s \in TaskState
    BY <1>1, <2>1 DEF TaskState, Pc
  <2>4. Shaped(s)
    BY <1>1, <2>1 DEF TaskState, Shaped
  <2> HIDE DEF s
  <2> QED BY <1>2, <2>2, <2>3, <2>4, OneMoves DEF TypeInv, TypeOK
<1> QED BY <1>3, <1>4

\* A poll that failed.
LEMMA FailureType ==
    ASSUME TypeInv, NEW t \in Task, CountFailure(t) \/ Notify(t)
    PROVE  TypeInv'
<1> DEFINE f == tasks[t].feed
           n == tasks[t].loaded + 1
<1>1. /\ tasks[t] \in TaskState /\ Shaped(tasks[t]) /\ tasks \in [Task -> TaskState]
      /\ f \in FeedId /\ n \in Nat
  BY DEF CountFailure, Notify, At, Shaped, TypeInv, TypeOK, TaskState
<1>2. UNCHANGED <<version, rows, accepted, lock, crashes>>
  BY DEF CountFailure, Notify
<1>3. tasks' \in [Task -> TaskState] /\ \A u \in Task : Shaped(tasks'[u])
  <2>1. CASE Done(t)
    BY <2>1, DoneType
  <2>2. CASE Goto(t, "notify")
    <3> DEFINE s == [tasks[t] EXCEPT !.pc = "notify"]
    <3>1. s \in TaskState /\ Shaped(s)
      BY <1>1 DEF TaskState, Pc, Shaped
    <3>2. tasks' = [tasks EXCEPT ![t] = s]
      BY <2>2 DEF Goto
    <3> HIDE DEF s
    <3> QED BY <3>1, <3>2, OneMoves
  <2> QED BY <2>1, <2>2 DEF CountFailure, Notify
<1>4. feeds' \in [FeedId -> FeedRow] /\ told' \subseteq FeedId /\ blurred' \subseteq FeedId
  <2>1. TypeOK
    BY DEF TypeInv
  <2>2. [feeds EXCEPT ![f].failures = n] \in [FeedId -> FeedRow]
    BY <1>1, <2>1, RowType
  <2> QED BY <1>1, <2>1, <2>2 DEF CountFailure, Notify, TypeOK
<1> QED BY <1>2, <1>3, <1>4 DEF TypeInv, TypeOK

LEMMA CommitResetType ==
    ASSUME TypeInv, NEW t \in Task, CommitReset(t)
    PROVE  TypeInv'
<1> DEFINE f == tasks[t].feed
           n == Reset(f, tasks[t].loaded)
<1>1. TypeOK /\ f \in FeedId
  BY DEF CommitReset, At, Shaped, TypeInv
<1>2. tasks' \in [Task -> TaskState] /\ \A u \in Task : Shaped(tasks'[u])
  BY DoneType DEF CommitReset
<1>3. n \in Nat
  BY <1>1, ResetType
<1>4. [feeds EXCEPT ![f].failures = n] \in [FeedId -> FeedRow]
  BY <1>1, <1>3, RowType
<1>5. feeds' \in [FeedId -> FeedRow] /\ told' \subseteq FeedId /\ blurred' \subseteq FeedId
  BY <1>1, <1>4 DEF CommitReset, Recovered, TypeOK
<1> QED BY <1>1, <1>2, <1>5 DEF CommitReset, TypeInv, TypeOK

LEMMA BeginType ==
    ASSUME TypeInv, NEW t \in Task, Begin(t)
    PROVE  TypeInv'
<1> DEFINE f   == tasks[t].feed
           new == Items(tasks[t].doc) \ Known(f)
<1>1. tasks[t] \in TaskState /\ Shaped(tasks[t]) /\ tasks \in [Task -> TaskState]
  BY DEF TypeInv, TypeOK
<1>2. UNCHANGED <<version, feeds, rows, accepted, told, blurred, crashes>> /\ lock' \in Task \union {Nobody}
  BY DEF Begin, TypeInv, TypeOK
<1>3. CASE Done(t)
  BY <1>2, <1>3, DoneType DEF TypeInv, TypeOK
<1>4. CASE ~Done(t)
  <2> DEFINE s == [tasks[t] EXCEPT !.pc = "insert", !.new = new, !.queued = ToQueue(f, new)]
  <2>1. new \subseteq Guid
    <3>1. Docs \in Seq(Seq(Guid)) /\ tasks[t].doc \in DOMAIN Docs
      BY <1>1, FeedsAssumption DEF Begin, At, Shaped, Version
    <3>2. Docs[tasks[t].doc] \in Seq(Guid)
      BY <3>1
    <3>3. Items(tasks[t].doc) \subseteq Guid
      BY <3>2 DEF Items
    <3> QED BY <3>3
  <2>2. ToQueue(f, new) \subseteq Guid
    BY <2>1 DEF ToQueue
  <2>3. tasks' = [tasks EXCEPT ![t] = s]
    BY <1>1, <1>4 DEF Begin, TaskState
  <2>4. s \in TaskState
    BY <1>1, <2>1, <2>2 DEF TaskState, Pc
  <2>5. Shaped(s)
    BY <1>1 DEF Begin, At, TaskState, Shaped
  <2> HIDE DEF s
  <2> QED BY <1>2, <2>3, <2>4, <2>5, OneMoves DEF TypeInv, TypeOK
<1> QED BY <1>3, <1>4

LEMMA CommitType ==
    ASSUME TypeInv, NEW t \in Task, Commit(t)
    PROVE  TypeInv'
<1> DEFINE f == tasks[t].feed
           n == Reset(f, tasks[t].loaded)
           e == tasks[t].doc
<1>1. tasks[t] \in TaskState /\ Shaped(tasks[t]) /\ tasks \in [Task -> TaskState] /\ TypeOK
  BY DEF TypeInv, TypeOK
<1>2. UNCHANGED <<version, accepted, crashes>> /\ lock' = Nobody /\ f \in FeedId /\ e \in Version
  BY <1>1 DEF Commit, At, Shaped
<1>3. CASE Clash(t)
  <2>1. Done(t) /\ UNCHANGED <<feeds, rows, told, blurred>>
    BY <1>3 DEF Commit
  <2> QED BY <1>2, <2>1, DoneType DEF TypeInv, TypeOK
<1>4. CASE ~Clash(t)
  <2> DEFINE s == [NoTask EXCEPT !.pc = "enqueue", !.feed = f, !.queued = tasks[t].queued]
  <2>1. s \in TaskState
    BY <1>1, <1>2 DEF NoTask, TaskState, Pc
  <2>2. Shaped(s)
    BY <1>2 DEF NoTask, Shaped
  <2>3. tasks' = [tasks EXCEPT ![t] = s]
    BY <1>4 DEF Commit
  <2> HIDE DEF s
  <2>4. tasks' \in [Task -> TaskState] /\ \A u \in Task : Shaped(tasks'[u])
    BY <2>1, <2>2, <2>3, OneMoves
  <2>5. rows' \in [FeedId -> [Guid -> {ABSENT, SKIPPED, QUEUED}]]
    <3> DEFINE r == [g \in Guid |-> IF g \notin tasks[t].new THEN rows[f][g]
                                    ELSE IF g \in tasks[t].queued THEN QUEUED ELSE SKIPPED]
    <3>1. \A g \in Guid : rows[f][g] \in {ABSENT, SKIPPED, QUEUED}
      BY <1>1, <1>2 DEF TypeOK
    <3>2. r \in [Guid -> {ABSENT, SKIPPED, QUEUED}]
      BY <3>1
    <3>3. rows' = [rows EXCEPT ![f] = r]
      BY <1>4 DEF Commit
    <3> HIDE DEF r
    <3> QED BY <1>1, <3>2, <3>3 DEF TypeOK
  <2>6. n \in Nat
    BY <1>1, <1>2, ResetType
  <2>7. \A etag \in {0, e} : [feeds EXCEPT ![f].etag = etag, ![f].failures = n] \in [FeedId -> FeedRow]
    BY <1>1, <1>2, <2>6, RowType
  <2>8. feeds' \in [FeedId -> FeedRow]
    <3>1. PICK etag \in {0, e} : feeds' = [feeds EXCEPT ![f].etag = etag, ![f].failures = n] \/ feeds' = feeds
      BY <1>4, Zenon DEF Commit
    <3>2. feeds \in [FeedId -> FeedRow]
      BY <1>1 DEF TypeOK
    <3> QED BY <2>7, <3>1, <3>2, Zenon
  <2>9. told' \subseteq FeedId /\ blurred' \subseteq FeedId
    BY <1>1, <1>2, <1>4 DEF Commit, Recovered, TypeOK
  <2> QED BY <1>1, <1>2, <2>4, <2>5, <2>8, <2>9 DEF TypeInv, TypeOK
<1> QED BY <1>3, <1>4

LEMMA EnqueueType ==
    ASSUME TypeInv, NEW t \in Task, Enqueue(t)
    PROVE  TypeInv'
<1>1. tasks[t] \in TaskState /\ tasks[t].feed \in FeedId
  BY DEF Enqueue, At, Shaped, TypeInv, TypeOK
<1>2. accepted' \subseteq FeedId \X Guid
  BY <1>1 DEF Enqueue, TypeInv, TypeOK, TaskState
<1>3. tasks' \in [Task -> TaskState] /\ \A u \in Task : Shaped(tasks'[u])
  BY DoneType DEF Enqueue
<1> QED BY <1>2, <1>3 DEF Enqueue, TypeInv, TypeOK

\* An addition.
LEMMA AddType ==
    ASSUME TypeInv, NEW t \in Task, ChooseSlug(t) \/ AddFeed(t)
    PROVE  TypeInv'
<1>1. tasks[t] \in TaskState /\ Shaped(tasks[t]) /\ tasks \in [Task -> TaskState] /\ TypeOK
  BY DEF TypeInv, TypeOK
<1>2. UNCHANGED <<version, rows, accepted, lock, told, blurred, crashes>>
  BY DEF ChooseSlug, AddFeed
<1>3. CASE Done(t) /\ UNCHANGED feeds
  BY <1>2, <1>3, DoneType DEF TypeInv, TypeOK
<1>4. CASE ChooseSlug(t) /\ ~Done(t)
  <2>1. PICK n \in 1..(Cardinality(FeedId) + 1) : tasks' = [tasks EXCEPT ![t].pc = "add", ![t].slug = n]
    BY <1>4 DEF ChooseSlug
  <2> DEFINE s == [tasks[t] EXCEPT !.pc = "add", !.slug = n]
  <2>2. n \in Nat
    OBVIOUS
  <2>3. tasks' = [tasks EXCEPT ![t] = s]
    BY <1>1, <2>1 DEF TaskState
  <2>4. s \in TaskState
    BY <1>1, <2>2 DEF TaskState, Pc
  <2>5. Shaped(s)
    BY <1>1, <1>4 DEF ChooseSlug, At, TaskState, Shaped
  <2> HIDE DEF s
  <2> QED BY <1>2, <1>4, <2>3, <2>4, <2>5, OneMoves DEF ChooseSlug, TypeInv, TypeOK
<1>5. CASE AddFeed(t) /\ ~Done(t)
  <2>1. PICK f \in FeedId : /\ feeds' = [feeds EXCEPT ![f] = NewFeed(t)]
                            /\ tasks' = [tasks EXCEPT ![t].pc = "begin", ![t].feed = f, ![t].slug = 0]
    BY <1>5 DEF AddFeed
  <2> DEFINE s == [tasks[t] EXCEPT !.pc = "begin", !.feed = f, !.slug = 0]
  <2>2. NewFeed(t) \in FeedRow
    BY <1>1 DEF NewFeed, FeedRow, TaskState, TypeOK
  <2>3. tasks' = [tasks EXCEPT ![t] = s]
    BY <1>1, <2>1 DEF TaskState
  <2>4. s \in TaskState
    BY <1>1 DEF TaskState, Pc
  <2>5. Shaped(s)
    BY <1>1, <1>5 DEF AddFeed, At, TaskState, Shaped
  <2> HIDE DEF s
  <2>6. feeds' \in [FeedId -> FeedRow]
    BY <1>1, <2>1, <2>2 DEF TypeOK
  <2> QED BY <1>1, <1>2, <2>3, <2>4, <2>5, <2>6, OneMoves DEF TypeInv, TypeOK
<1>6. (ChooseSlug(t) /\ Done(t) => UNCHANGED feeds) /\ (AddFeed(t) /\ Done(t) => UNCHANGED feeds)
  <2>1. ChooseSlug(t) => UNCHANGED feeds
    BY DEF ChooseSlug
  <2>2. ASSUME AddFeed(t), Done(t) PROVE UNCHANGED feeds
    <3> SUFFICES ASSUME NEW f \in FeedId,
                        tasks' = [tasks EXCEPT ![t].pc = "begin", ![t].feed = f, ![t].slug = 0]
                 PROVE  FALSE
      BY <2>2 DEF AddFeed
    <3>1. tasks'[t].pc = "begin"
      BY <1>1 DEF TaskState
    <3>2. tasks'[t].pc = "idle"
      BY <1>1, <2>2, NoTaskType DEF Done
    <3> QED BY <3>1, <3>2
  <2> QED BY <2>1, <2>2
<1> QED BY <1>3, <1>4, <1>5, <1>6

LEMMA OthersType ==
    ASSUME TypeInv, Publish \/ Restart \/ \E f \in FeedId : PatchFeed(f) \/ DeleteFeed(f)
    PROVE  TypeInv'
<1>1. CASE Publish
  <2>1. version' \in Version
    BY <1>1, FeedsAssumption DEF Publish, TypeInv, TypeOK, Version
  <2> QED BY <1>1, <2>1 DEF Publish, TypeInv, TypeOK
<1>2. CASE Restart
  <2>1. tasks' \in [Task -> TaskState] /\ \A u \in Task : Shaped(tasks'[u])
    BY <1>2, NoTaskType DEF Restart
  <2>2. blurred' \subseteq FeedId
    BY <1>2 DEF Restart, At, TypeInv, TypeOK, Shaped
  <2>3. accepted' \subseteq FeedId \X Guid
    BY <1>2 DEF Restart, Resumed
  <2>4. crashes' \in 0..MaxCrashes
    BY <1>2, FeedsAssumption DEF Restart, TypeInv, TypeOK
  <2> QED BY <1>2, <2>1, <2>2, <2>3, <2>4 DEF Restart, TypeInv, TypeOK
<1>3. CASE \E f \in FeedId : PatchFeed(f)
  <2>1. PICK f \in FeedId : PatchFeed(f)
    BY <1>3
  <2>2. feeds' \in [FeedId -> FeedRow]
    BY <2>1 DEF PatchFeed, TypeInv, TypeOK, FeedRow
  <2> QED BY <2>1, <2>2 DEF PatchFeed, TypeInv, TypeOK
<1>4. CASE \E f \in FeedId : DeleteFeed(f)
  <2>1. PICK f \in FeedId : DeleteFeed(f)
    BY <1>4
  <2>2. feeds' \in [FeedId -> FeedRow]
    BY <2>1, NoFeedType DEF DeleteFeed, TypeInv, TypeOK
  <2>3. rows' \in [FeedId -> [Guid -> {ABSENT, SKIPPED, QUEUED}]]
    BY <2>1 DEF DeleteFeed, TypeInv, TypeOK, NoRows
  <2> QED BY <2>1, <2>2, <2>3 DEF DeleteFeed, TypeInv, TypeOK
<1> QED BY <1>1, <1>2, <1>3, <1>4

LEMMA TypeStep == TypeInv /\ [Next]_vars => TypeInv'
<1> SUFFICES ASSUME TypeInv, [Next]_vars PROVE TypeInv'
  OBVIOUS
<1>1. CASE \E t \in Task : TaskStep(t)
  BY <1>1, LoadType, FailureType, CommitResetType, BeginType, CommitType, EnqueueType, AddType DEF TaskStep
<1>2. CASE \/ \E t \in Task : FetchAnswer(t) \/ FetchFails(t)
           \/ \E t \in Task, f \in FeedId : StartPoll(t, f)
           \/ \E u \in User : StartCreate(u)
  BY <1>2, FetchType DEF Task
<1>3. CASE Publish \/ Restart \/ \E f \in FeedId : PatchFeed(f) \/ DeleteFeed(f)
  BY <1>3, OthersType
<1>4. CASE UNCHANGED vars
  BY <1>4 DEF vars, TypeInv, TypeOK
<1> QED BY <1>1, <1>2, <1>3, <1>4 DEF Next

LEMMA TypeInit == Init => TypeInv
<1> SUFFICES ASSUME Init PROVE TypeInv
  OBVIOUS
<1>1. feeds \in [FeedId -> FeedRow] /\ rows \in [FeedId -> [Guid -> {ABSENT, SKIPPED, QUEUED}]]
  BY NoFeedType DEF Init, NoRows
<1>2. tasks \in [Task -> TaskState] /\ \A t \in Task : Shaped(tasks[t])
  BY NoTaskType DEF Init
<1>3. version \in Version /\ crashes \in 0..MaxCrashes
  BY VersionsAreNumbers, FeedsAssumption DEF Init
<1> QED BY <1>1, <1>2, <1>3 DEF Init, TypeInv, TypeOK

LEMMA Typed == Spec => []TypeInv
BY TypeInit, TypeStep, PTL DEF Spec

\* Tables, tasks and bookkeeping hold what they are declared to hold, for any
\* number of feeds, requests and documents.
THEOREM TypeCorrect == Spec => []TypeOK
<1>1. TypeInv => TypeOK
  BY DEF TypeInv
<1> QED BY <1>1, Typed, PTL

-----------------------------------------------------------------------------
\* STEPS AND TASKS

TaskAction(t) ==
    \/ TaskStep(t) \/ FetchAnswer(t) \/ FetchFails(t) \/ StartCreate(t)
    \/ \E f \in FeedId : StartPoll(t, f)

\* A step is one task's, or it leaves all tasks alone, or the process dies.
LEMMA StepKinds ==
    ASSUME Next
    PROVE  \/ \E t \in Task : TaskAction(t)
           \/ Publish \/ Restart
           \/ \E f \in FeedId : PatchFeed(f) \/ DeleteFeed(f)
BY DEF Next, TaskAction, Task

\* A step of one task leaves the others where they are.
LEMMA OthersStay ==
    ASSUME TypeInv, NEW t \in Task, TaskAction(t), NEW u \in Task, u # t
    PROVE  tasks'[u] = tasks[u]
BY DEF TaskAction, TaskStep, FetchAnswer, FetchFails, StartCreate, StartPoll, Load, CountFailure, Notify,
       CommitReset, Begin, Commit, Enqueue, ChooseSlug, AddFeed, Done, Goto, TypeInv, TypeOK

LEMMA WhereTo ==
    ASSUME TypeInv, NEW t \in Task
    PROVE  /\ Done(t) => tasks'[t] = NoTask /\ tasks'[t].pc = "idle"
           /\ \A pc : Goto(t, pc) => tasks'[t].pc = pc
BY NoTaskType DEF Done, Goto, TypeInv, TypeOK, TaskState

LEMMA LockHolders == Nobody \notin Task
BY FeedsAssumption DEF Task, Nobody, POLL_JOB_ID

-----------------------------------------------------------------------------
\* INSERTS AND VALIDATORS

KnownIn(table, f) == {g \in Guid : table[f][g] # ABSENT}

\* Who is about to insert holds the lock, and what it has read is still so:
\* the items of its document are the known ones and the new ones.
InsertInv ==
    \A t \in Task : At(t, "insert") =>
        /\ lock = t
        /\ Items(tasks[t].doc) \subseteq KnownIn(rows, tasks[t].feed) \union tasks[t].new
        /\ \A g \in tasks[t].new : rows[tasks[t].feed][g] = ABSENT

LEMMA InsertStep == TypeInv /\ InsertInv /\ [Next]_vars => InsertInv'
<1> SUFFICES ASSUME TypeInv, InsertInv, [Next]_vars, NEW t \in Task, At(t, "insert")'
             PROVE  /\ lock' = t
                    /\ Items(tasks'[t].doc) \subseteq KnownIn(rows', tasks'[t].feed) \union tasks'[t].new
                    /\ \A g \in tasks'[t].new : rows'[tasks'[t].feed][g] = ABSENT
  BY DEF InsertInv
<1>1. ASSUME tasks'[t] = tasks[t], UNCHANGED <<rows, lock>>
      PROVE  /\ lock' = t
             /\ Items(tasks'[t].doc) \subseteq KnownIn(rows', tasks'[t].feed) \union tasks'[t].new
             /\ \A g \in tasks'[t].new : rows'[tasks'[t].feed][g] = ABSENT
  <2>1. At(t, "insert")
    BY <1>1 DEF At
  <2> QED BY <1>1, <2>1 DEF InsertInv
<1>2. ASSUME NEW u \in Task, TaskAction(u), u # t
      PROVE  UNCHANGED <<rows, lock>>
  <2>1. At(t, "insert") /\ lock = t /\ ~Unlocked /\ lock # u
    BY <1>2, OthersStay, LockHolders DEF At, InsertInv, Unlocked
  <2> QED BY <1>2, <2>1 DEF TaskAction, TaskStep, FetchAnswer, FetchFails, StartCreate, StartPoll, Load,
              CountFailure, Notify, CommitReset, Begin, Commit, Enqueue, ChooseSlug, AddFeed
<1>3. ASSUME TaskAction(t)
      PROVE  Begin(t) /\ Listed(tasks[t].feed)
  <2> USE NoTaskType, WhereTo DEF At
  <2>1. tasks \in [Task -> TaskState] /\ tasks'[t].pc = "insert"
    BY DEF TypeInv, TypeOK
  <2>2. CASE (\E f \in FeedId : StartPoll(t, f)) \/ FetchAnswer(t) \/ FetchFails(t) \/ StartCreate(t)
    <3>1. CASE (\E f \in FeedId : StartPoll(t, f)) \/ StartCreate(t)
      BY <2>1, <3>1 DEF StartPoll, StartCreate, NoTask
    <3>2. CASE FetchAnswer(t)
      <4>1. tasks'[t].pc = IF tasks[t].op = "create" THEN "slug" ELSE "load"
        BY <2>1, <3>2 DEF FetchAnswer, TaskState
      <4> QED BY <2>1, <4>1
    <3>3. CASE FetchFails(t)
      BY <2>1, <3>3 DEF FetchFails
    <3> QED BY <2>2, <3>1, <3>2, <3>3
  <2>3. CASE Load(t)
    BY <2>1, <2>3 DEF Load, TaskState
  <2>4. CASE CountFailure(t) \/ Notify(t) \/ CommitReset(t) \/ Enqueue(t)
    BY <2>1, <2>4 DEF CountFailure, Notify, CommitReset, Enqueue
  <2>5. CASE Commit(t)
    BY <2>1, <2>5 DEF Commit, NoTask
  <2>6. CASE ChooseSlug(t) \/ AddFeed(t)
    <3>1. \/ Done(t)
          \/ \E n : tasks' = [tasks EXCEPT ![t].pc = "add", ![t].slug = n]
          \/ \E f : tasks' = [tasks EXCEPT ![t].pc = "begin", ![t].feed = f, ![t].slug = 0]
      BY <2>6, Zenon DEF ChooseSlug, AddFeed
    <3>2. ASSUME NEW n, tasks' = [tasks EXCEPT ![t].pc = "add", ![t].slug = n] PROVE FALSE
      BY <2>1, <3>2 DEF TaskState
    <3>3. ASSUME NEW f, tasks' = [tasks EXCEPT ![t].pc = "begin", ![t].feed = f, ![t].slug = 0] PROVE FALSE
      BY <2>1, <3>3 DEF TaskState
    <3> QED BY <2>1, <3>1, <3>2, <3>3
  <2>7. Begin(t)
    BY <1>3, <2>2, <2>3, <2>4, <2>5, <2>6 DEF TaskAction, TaskStep
  <2> QED BY <2>1, <2>7 DEF Begin
<1>4. CASE \E u \in Task : u # t /\ TaskAction(u)
  BY <1>1, <1>2, <1>4, OthersStay
<1>5. CASE TaskAction(t)
  <2> DEFINE f   == tasks[t].feed
             new == Items(tasks[t].doc) \ Known(f)
  <2>1. /\ lock' = t /\ rows' = rows
        /\ tasks' = [tasks EXCEPT ![t].pc = "insert", ![t].new = new, ![t].queued = ToQueue(f, new)]
    BY <1>3, <1>5 DEF Begin
  <2>2. tasks \in [Task -> TaskState]
    BY DEF TypeInv, TypeOK
  <2>3. tasks'[t].new = new /\ tasks'[t].feed = f /\ tasks'[t].doc = tasks[t].doc
    BY <2>1, <2>2 DEF TaskState
  <2>4. KnownIn(rows', tasks'[t].feed) = Known(f)
    BY <2>1, <2>3 DEF Known, KnownIn
  <2>5. new \subseteq Guid
    <3>1. tasks'[t] \in TaskState
      BY <1>3, <1>5, BeginType DEF TypeInv, TypeOK
    <3> QED BY <2>3, <3>1 DEF TaskState
  <2>6. \A g \in new : rows[f][g] = ABSENT
    BY <2>5 DEF Known
  <2>7. Items(tasks'[t].doc) \subseteq KnownIn(rows', tasks'[t].feed) \union tasks'[t].new
    BY <2>3, <2>4
  <2> QED BY <2>1, <2>3, <2>6, <2>7
<1>6. CASE Publish \/ \E f \in FeedId : PatchFeed(f) \/ DeleteFeed(f)
  <2>1. tasks' = tasks /\ lock' = lock
    BY <1>6 DEF Publish, PatchFeed, DeleteFeed
  <2>2. ~Unlocked
    BY <2>1, LockHolders DEF InsertInv, At, Unlocked
  <2> QED BY <1>1, <1>6, <2>1, <2>2 DEF Publish, PatchFeed, DeleteFeed
<1>7. CASE Restart
  BY <1>7, NoTaskType DEF Restart, At
<1>8. CASE UNCHANGED vars
  BY <1>1, <1>8 DEF vars
<1> QED BY <1>4, <1>5, <1>6, <1>7, <1>8, StepKinds

LEMMA Inserts == Spec => []InsertInv
<1>1. Init => InsertInv
  BY NoTaskType DEF Init, InsertInv, At
<1> QED BY <1>1, InsertStep, Typed, PTL DEF Spec

\* A poll that inserts never clashes with another one, with an addition or
\* with what either has stored, however they overlap.
THEOREM InsertsNew == Spec => []InsertsAreNew
<1>1. InsertInv => InsertsAreNew
  BY DEF InsertInv, InsertsAreNew
<1> QED BY <1>1, Inserts, PTL

\* Rows and validators other than by a commit of new episodes.
LEMMA HeadersElsewhere ==
    ASSUME TypeInv, HeadersCoverItems, NEW f \in FeedId, Listed(f)', feeds'[f].etag # 0,
           rows'[f] = rows[f], feeds'[f].etag = feeds[f].etag, Listed(f)
    PROVE  Items(feeds'[f].etag) \subseteq Known(f)'
BY DEF HeadersCoverItems, Known

LEMMA HeadersStep == TypeInv /\ InsertInv /\ HeadersCoverItems /\ [Next]_vars => HeadersCoverItems'
<1> SUFFICES ASSUME TypeInv, InsertInv, HeadersCoverItems, [Next]_vars,
                    NEW f \in FeedId, Listed(f)', feeds'[f].etag # 0
             PROVE  Items(feeds'[f].etag) \subseteq Known(f)'
  BY DEF HeadersCoverItems
<1>1. feeds \in [FeedId -> FeedRow] /\ rows \in [FeedId -> [Guid -> {ABSENT, SKIPPED, QUEUED}]]
      /\ tasks \in [Task -> TaskState]
  BY DEF TypeInv, TypeOK
<1>2. CASE UNCHANGED <<feeds, rows>>
  BY <1>2, HeadersElsewhere DEF Listed
<1>3. CASE \E t \in Task : CountFailure(t) \/ CommitReset(t)
  <2>1. feeds'[f].slug = feeds[f].slug /\ feeds'[f].etag = feeds[f].etag /\ rows' = rows
    BY <1>1, <1>3 DEF CountFailure, CommitReset, FeedRow
  <2> QED BY <2>1, HeadersElsewhere DEF Listed
<1>4. CASE \E g \in FeedId : PatchFeed(g)
  <2>1. feeds'[f].slug = feeds[f].slug /\ feeds'[f].etag = feeds[f].etag /\ rows' = rows
    BY <1>1, <1>4 DEF PatchFeed, FeedRow
  <2> QED BY <2>1, HeadersElsewhere DEF Listed
<1>5. ASSUME NEW t \in Task, AddFeed(t)
      PROVE  Items(feeds'[f].etag) \subseteq Known(f)'
  <2>1. rows' = rows /\ \/ feeds' = feeds
                        \/ \E g \in FeedId : feeds' = [feeds EXCEPT ![g] = NewFeed(t)]
    BY <1>5 DEF AddFeed
  <2>2. NewFeed(t).etag = 0
    BY DEF NewFeed
  <2>3. feeds'[f] = feeds[f]
    BY <1>1, <2>1, <2>2
  <2> QED BY <2>1, <2>3, HeadersElsewhere DEF Listed
<1>6. ASSUME NEW g \in FeedId, DeleteFeed(g)
      PROVE  Items(feeds'[f].etag) \subseteq Known(f)'
  <2>1. f # g
    BY <1>1, <1>6, NoFeedType DEF DeleteFeed, Listed
  <2>2. feeds'[f] = feeds[f] /\ rows'[f] = rows[f]
    BY <1>1, <1>6, <2>1 DEF DeleteFeed
  <2> QED BY <2>2, HeadersElsewhere DEF Listed
<1>7. ASSUME NEW t \in Task, Commit(t), ~Clash(t)
      PROVE  Items(feeds'[f].etag) \subseteq Known(f)'
  <2> DEFINE h == tasks[t].feed
             e == tasks[t].doc
  <2>1. h \in FeedId /\ At(t, "insert")
    BY <1>7 DEF Commit, At, TypeInv, Shaped
  <2>2. \A x \in FeedId : x # h => feeds'[x] = feeds[x] /\ rows'[x] = rows[x]
    BY <1>1, <1>7, <2>1 DEF Commit
  <2>3. feeds'[h].slug = feeds[h].slug /\ feeds'[h].etag \in {0, e, feeds[h].etag}
    <3>1. \/ feeds' = feeds
          \/ \E etag \in {0, e} : feeds' = [feeds EXCEPT ![h].etag = etag,
                                                       ![h].failures = Reset(h, tasks[t].loaded)]
      BY <1>7 DEF Commit
    <3> QED BY <1>1, <2>1, <3>1 DEF FeedRow
  <2>4. KnownIn(rows, h) \union tasks[t].new \subseteq KnownIn(rows', h)
    <3>1. \A g \in Guid : rows'[h][g] = IF g \notin tasks[t].new THEN rows[h][g]
                                        ELSE IF g \in tasks[t].queued THEN QUEUED ELSE SKIPPED
      BY <1>1, <1>7, <2>1 DEF Commit
    <3>2. tasks[t].new \subseteq Guid
      BY <1>1 DEF TaskState
    <3> QED BY <3>1, <3>2 DEF KnownIn, ABSENT, QUEUED, SKIPPED
  <2>5. CASE f # h
    BY <2>2, <2>5, HeadersElsewhere DEF Listed
  <2>6. CASE f = h /\ feeds'[h].etag = e
    <3>1. Items(e) \subseteq KnownIn(rows, h) \union tasks[t].new
      BY <2>1 DEF InsertInv
    <3> QED BY <2>4, <2>6, <3>1 DEF Known, KnownIn
  <2>7. CASE f = h /\ feeds'[h].etag = feeds[h].etag
    <3>1. Items(feeds[f].etag) \subseteq Known(f)
      BY <2>3, <2>7 DEF HeadersCoverItems, Listed
    <3> QED BY <2>4, <2>7, <3>1 DEF Known, KnownIn
  <2> QED BY <2>3, <2>5, <2>6, <2>7
<1>8. CASE \E t \in Task : Commit(t) /\ Clash(t)
  BY <1>2, <1>8 DEF Commit
<1>9. CASE \E t \in Task : TaskAction(t) /\ ~CountFailure(t) /\ ~CommitReset(t) /\ ~AddFeed(t) /\ ~Commit(t)
  BY <1>2, <1>9 DEF TaskAction, TaskStep, FetchAnswer, FetchFails, StartCreate, StartPoll, Load, Notify,
                    Begin, Enqueue, ChooseSlug
<1>10. CASE Publish \/ Restart \/ UNCHANGED vars
  BY <1>2, <1>10 DEF Publish, Restart, vars
<1> QED BY <1>3, <1>4, <1>5, <1>6, <1>7, <1>8, <1>9, <1>10, StepKinds

\* After an answer "not modified" nothing of the source's document is
\* missing: validators never run ahead of the episodes.
THEOREM HeadersCovered == Spec => []HeadersCoverItems
<1>1. Init => HeadersCoverItems
  BY NoFeedType DEF Init, HeadersCoverItems, Listed
<1> QED BY <1>1, HeadersStep, Typed, Inserts, PTL DEF Spec

-----------------------------------------------------------------------------
\* WHAT IS QUEUED

\* Only the enqueue itself leaves the place of the enqueue.
LEMMA LeavesEnqueue ==
    ASSUME NEW t \in Task, TaskAction(t), At(t, "enqueue")
    PROVE  Enqueue(t)
BY DEF At, TaskAction, TaskStep, FetchAnswer, FetchFails, StartCreate, StartPoll, Load, CountFailure,
       Notify, CommitReset, Begin, Commit, ChooseSlug, AddFeed

LEMMA QueuedStep == TypeInv /\ InsertInv /\ QueuedIsAccepted /\ [Next]_vars => QueuedIsAccepted'
<1> SUFFICES ASSUME TypeInv, InsertInv, QueuedIsAccepted, [Next]_vars,
                    NEW f \in FeedId, NEW g \in Guid, rows'[f][g] = QUEUED
             PROVE  \/ <<f, g>> \in accepted'
                    \/ \E t \in Task : /\ tasks'[t].pc = "enqueue" /\ tasks'[t].feed = f
                                       /\ g \in tasks'[t].queued
  BY DEF QueuedIsAccepted, At
<1> DEFINE Waits == \E t \in Task : tasks'[t].pc = "enqueue" /\ tasks'[t].feed = f /\ g \in tasks'[t].queued
<1>1. rows \in [FeedId -> [Guid -> {ABSENT, SKIPPED, QUEUED}]] /\ tasks \in [Task -> TaskState]
  BY DEF TypeInv, TypeOK
<1>2. ASSUME rows[f][g] = QUEUED, accepted' = accepted,
             \A t \in Task : At(t, "enqueue") => tasks'[t] = tasks[t]
      PROVE  <<f, g>> \in accepted' \/ Waits
  BY <1>2 DEF QueuedIsAccepted, At
<1>3. ASSUME NEW t \in Task, Enqueue(t)
      PROVE  <<f, g>> \in accepted' \/ Waits
  <2>1. rows' = rows /\ accepted' = accepted \union ({tasks[t].feed} \X tasks[t].queued)
    BY <1>3 DEF Enqueue
  <2>2. \A u \in Task \ {t} : tasks'[u] = tasks[u]
    BY <1>3, OthersStay DEF TaskAction, TaskStep
  <2> QED BY <2>1, <2>2 DEF QueuedIsAccepted, At
<1>4. ASSUME NEW t \in Task, TaskAction(t), ~Enqueue(t)
      PROVE  accepted' = accepted /\ \A u \in Task : At(u, "enqueue") => tasks'[u] = tasks[u]
  <2>1. accepted' = accepted
    BY <1>4 DEF TaskAction, TaskStep, FetchAnswer, FetchFails, StartCreate, StartPoll, Load, CountFailure,
                Notify, CommitReset, Begin, Commit, ChooseSlug, AddFeed
  <2> QED BY <1>4, <2>1, LeavesEnqueue, OthersStay
<1>5. ASSUME NEW t \in Task, TaskAction(t), ~Enqueue(t), ~Commit(t)
      PROVE  <<f, g>> \in accepted' \/ Waits
  <2>1. rows' = rows
    BY <1>5 DEF TaskAction, TaskStep, FetchAnswer, FetchFails, StartCreate, StartPoll, Load, CountFailure,
                Notify, CommitReset, Begin, ChooseSlug, AddFeed
  <2> QED BY <1>2, <1>4, <1>5, <2>1
<1>6. ASSUME NEW t \in Task, Commit(t)
      PROVE  <<f, g>> \in accepted' \/ Waits
  <2>1. /\ accepted' = accepted
        /\ \A u \in Task : At(u, "enqueue") => tasks'[u] = tasks[u]
    <3>1. TaskAction(t) /\ ~Enqueue(t)
      BY <1>6 DEF TaskAction, TaskStep, Commit, Enqueue, At
    <3> QED BY <1>4, <3>1
  <2>2. CASE rows[f][g] = QUEUED
    BY <1>2, <2>1, <2>2
  <2>3. CASE rows[f][g] # QUEUED
    <3>1. ~Clash(t)
      BY <1>6, <2>3 DEF Commit
    <3> DEFINE r == [x \in Guid |-> IF x \notin tasks[t].new THEN rows[tasks[t].feed][x]
                                    ELSE IF x \in tasks[t].queued THEN QUEUED ELSE SKIPPED]
    <3>2. /\ rows' = [rows EXCEPT ![tasks[t].feed] = r]
          /\ tasks' = [tasks EXCEPT ![t] = [NoTask EXCEPT !.pc = "enqueue", !.feed = tasks[t].feed,
                                                         !.queued = tasks[t].queued]]
      BY <1>6, <3>1 DEF Commit
    <3>3. tasks[t].feed = f /\ r[g] = QUEUED
      BY <1>1, <2>3, <3>2
    <3>4. g \in tasks[t].queued
      BY <2>3, <3>3 DEF QUEUED, SKIPPED
    <3>5. tasks'[t].pc = "enqueue" /\ tasks'[t].feed = f /\ tasks'[t].queued = tasks[t].queued
      BY <1>1, <3>2, <3>3 DEF NoTask
    <3> QED BY <3>4, <3>5
  <2> QED BY <2>2, <2>3
<1>7. CASE Publish \/ \E h \in FeedId : PatchFeed(h)
  BY <1>2, <1>7 DEF Publish, PatchFeed
<1>8. ASSUME NEW h \in FeedId, DeleteFeed(h)
      PROVE  <<f, g>> \in accepted' \/ Waits
  <2>1. /\ rows' = [rows EXCEPT ![h] = NoRows] /\ accepted' = {a \in accepted : a[1] # h}
        /\ tasks' = tasks
    BY <1>8 DEF DeleteFeed
  <2>2. f # h
    BY <1>1, <2>1 DEF NoRows, ABSENT, QUEUED
  <2>3. rows[f][g] = QUEUED
    BY <1>1, <2>1, <2>2
  <2> QED BY <2>1, <2>2, <2>3 DEF QueuedIsAccepted, At
<1>9. CASE Restart
  BY <1>9 DEF Restart, Resumed
<1>10. CASE UNCHANGED vars
  BY <1>2, <1>10 DEF vars
<1> QED BY <1>3, <1>5, <1>6, <1>7, <1>8, <1>9, <1>10, StepKinds

\* What is queued is with the worker or about to be handed to it, although
\* polls, deletions and deaths fall between the commit and the enqueue.
THEOREM QueuedAccepted == Spec => []QueuedIsAccepted
<1>1. Init => QueuedIsAccepted
  BY DEF Init, QueuedIsAccepted, NoRows, ABSENT, QUEUED
<1> QED BY <1>1, QueuedStep, Typed, Inserts, PTL DEF Spec

-----------------------------------------------------------------------------
\* FAILURES

LEMMA LeavesNotify ==
    ASSUME NEW t \in Task, TaskAction(t), At(t, "notify")
    PROVE  Notify(t)
BY DEF At, TaskAction, TaskStep, FetchAnswer, FetchFails, StartCreate, StartPoll, Load, CountFailure,
       CommitReset, Begin, Commit, Enqueue, ChooseSlug, AddFeed

LEMMA ToldStep == TypeInv /\ FailuresAreTold /\ [Next]_vars => FailuresAreTold'
<1> SUFFICES ASSUME TypeInv, FailuresAreTold, [Next]_vars,
                    NEW f \in FeedId, feeds'[f].slug # 0, feeds'[f].failures >= Threshold
             PROVE  \/ f \in told' \/ f \in blurred'
                    \/ \E t \in Task : tasks'[t].pc = "notify" /\ tasks'[t].feed = f
  BY DEF FailuresAreTold, At, Listed
<1> DEFINE Tells == \E t \in Task : tasks'[t].pc = "notify" /\ tasks'[t].feed = f
<1>1. /\ feeds \in [FeedId -> FeedRow] /\ tasks \in [Task -> TaskState]
      /\ \A g \in FeedId : feeds[g].failures \in Nat
      /\ Threshold \in Nat \ {0}
  BY FeedsAssumption DEF TypeInv, TypeOK, FeedRow
<1>2. ASSUME feeds'[f] = feeds[f] \/ (feeds'[f].failures = feeds[f].failures /\ feeds'[f].slug = feeds[f].slug),
             f \in told => f \in told' \union blurred',
             f \in blurred => f \in blurred',
             \A t \in Task : At(t, "notify") => tasks'[t] = tasks[t]
      PROVE  f \in told' \/ f \in blurred' \/ Tells
  BY <1>2 DEF FailuresAreTold, At, Listed
<1>3. ASSUME NEW t \in Task, TaskAction(t), ~Notify(t)
      PROVE  \A u \in Task : At(u, "notify") => tasks'[u] = tasks[u]
  BY <1>3, LeavesNotify, OthersStay
<1>4. ASSUME NEW t \in Task, Notify(t)
      PROVE  f \in told' \/ f \in blurred' \/ Tells
  <2>1. \A u \in Task \ {t} : tasks'[u] = tasks[u]
    BY <1>4, OthersStay DEF TaskAction, TaskStep
  <2> QED BY <1>4, <2>1 DEF Notify, FailuresAreTold, At, Listed
<1>5. ASSUME NEW t \in Task, CountFailure(t)
      PROVE  f \in told' \/ f \in blurred' \/ Tells
  <2> DEFINE h == tasks[t].feed
             n == tasks[t].loaded + 1
  <2>1. TaskAction(t) /\ ~Notify(t) /\ told' = told /\ h \in FeedId /\ tasks[t].loaded \in Nat
    BY <1>1, <1>5 DEF CountFailure, Notify, At, TaskAction, TaskStep, TypeInv, Shaped, TaskState
  <2>2. CASE f # h \/ ~Listed(h)
    <3>1. feeds'[f] = feeds[f] /\ (f \in blurred => f \in blurred')
      BY <1>1, <1>5, <2>1, <2>2 DEF CountFailure
    <3> QED BY <1>2, <1>3, <2>1, <3>1
  <2>3. CASE f = h /\ Listed(h)
    <3>1. /\ feeds' = [feeds EXCEPT ![h].failures = n]
          /\ blurred' = IF feeds[h].failures # tasks[t].loaded THEN blurred \union {h} ELSE blurred
          /\ IF Alarms(n) THEN Goto(t, "notify") ELSE Done(t)
      BY <1>5, <2>3 DEF CountFailure
    <3>2. feeds'[f].failures = n
      BY <1>1, <2>1, <2>3, <3>1 DEF FeedRow
    <3>3. CASE feeds[f].failures # tasks[t].loaded
      BY <2>3, <3>1, <3>3
    <3>4. CASE n = Threshold
      <4>1. tasks' = [tasks EXCEPT ![t].pc = "notify"]
        BY <3>1, <3>4 DEF Alarms, Goto
      <4>2. tasks'[t].pc = "notify" /\ tasks'[t].feed = f
        BY <1>1, <2>3, <4>1 DEF TaskState
      <4> QED BY <4>2
    <3>5. CASE feeds[f].failures = tasks[t].loaded /\ n # Threshold
      <4>1. feeds[f].failures >= Threshold
        BY <1>1, <2>1, <3>2, <3>5
      <4>2. \/ f \in told \/ f \in blurred
            \/ \E u \in Task : At(u, "notify") /\ tasks[u].feed = f
        BY <2>3, <4>1 DEF FailuresAreTold
      <4>3. blurred' = blurred
        BY <2>3, <3>1, <3>5
      <4> QED BY <1>3, <2>1, <4>2, <4>3 DEF At
    <3> QED BY <3>3, <3>4, <3>5
  <2> QED BY <2>2, <2>3
<1>6. ASSUME NEW t \in Task, CommitReset(t) \/ Commit(t)
      PROVE  f \in told' \/ f \in blurred' \/ Tells
  <2> DEFINE h == tasks[t].feed
             n == Reset(h, tasks[t].loaded)
  <2>1. TaskAction(t) /\ ~Notify(t) /\ h \in FeedId /\ TypeOK
    BY <1>6 DEF CommitReset, Commit, Notify, At, TaskAction, TaskStep, TypeInv, Shaped
  <2>2. \A u \in Task : At(u, "notify") => tasks'[u] = tasks[u]
    BY <1>3, <2>1
  <2>3. CASE UNCHANGED <<feeds, told, blurred>>
    BY <1>2, <2>2, <2>3
  <2>4. CASE /\ Recovered(h, tasks[t].loaded)
             /\ \/ feeds' = [feeds EXCEPT ![h].failures = n]
                \/ \E etag : feeds' = [feeds EXCEPT ![h].etag = etag, ![h].failures = n]
    <3>1. /\ f # h => feeds'[f] = feeds[f]
          /\ f = h => feeds'[f].failures = n
      BY <1>1, <2>1, <2>4 DEF FeedRow
    <3>2. blurred \subseteq blurred' /\ (f # h => (f \in told => f \in told'))
      BY <2>4 DEF Recovered
    <3>3. CASE f # h
      BY <1>2, <2>2, <3>1, <3>2, <3>3
    <3>4. CASE f = h
      <4>1. n # 0
        BY <1>1, <3>1, <3>4
      <4> QED BY <2>4, <3>4, <4>1 DEF Recovered
    <3> QED BY <3>3, <3>4
  <2> QED BY <1>6, <2>3, <2>4 DEF CommitReset, Commit
<1>7. ASSUME NEW t \in Task, AddFeed(t)
      PROVE  f \in told' \/ f \in blurred' \/ Tells
  <2>1. TaskAction(t) /\ ~Notify(t) /\ UNCHANGED <<told, blurred>>
    BY <1>7 DEF AddFeed, Notify, At, TaskAction, TaskStep
  <2>2. feeds' = feeds \/ \E g \in FeedId : feeds' = [feeds EXCEPT ![g] = NewFeed(t)]
    BY <1>7 DEF AddFeed
  <2>3. NewFeed(t).failures = 0
    BY DEF NewFeed
  <2>4. feeds'[f] = feeds[f]
    BY <1>1, <2>2, <2>3
  <2> QED BY <1>2, <1>3, <2>1, <2>4
<1>8. ASSUME NEW t \in Task, TaskAction(t), ~Notify(t), ~CountFailure(t), ~CommitReset(t), ~Commit(t), ~AddFeed(t)
      PROVE  f \in told' \/ f \in blurred' \/ Tells
  <2>1. UNCHANGED <<feeds, told, blurred>>
    BY <1>8 DEF TaskAction, TaskStep, FetchAnswer, FetchFails, StartCreate, StartPoll, Load, Begin, Enqueue, ChooseSlug
  <2> QED BY <1>2, <1>3, <1>8, <2>1
<1>9. ASSUME NEW h \in FeedId, PatchFeed(h)
      PROVE  f \in told' \/ f \in blurred' \/ Tells
  <2>1. feeds'[f].failures = feeds[f].failures /\ feeds'[f].slug = feeds[f].slug
    BY <1>1, <1>9 DEF PatchFeed, FeedRow
  <2> QED BY <1>2, <1>9, <2>1 DEF PatchFeed
<1>10. ASSUME NEW h \in FeedId, DeleteFeed(h)
       PROVE  f \in told' \/ f \in blurred' \/ Tells
  <2>1. f # h
    BY <1>1, <1>10, NoFeedType DEF DeleteFeed
  <2>2. feeds'[f] = feeds[f]
    BY <1>1, <1>10, <2>1 DEF DeleteFeed
  <2> QED BY <1>2, <1>10, <2>1, <2>2 DEF DeleteFeed
<1>11. CASE Publish
  BY <1>2, <1>11 DEF Publish
<1>12. CASE Restart
  <2>1. feeds' = feeds /\ told' = told
        /\ blurred' = blurred \union {tasks[t].feed : t \in {u \in Task : At(u, "notify")}}
    BY <1>12 DEF Restart
  <2> QED BY <2>1 DEF FailuresAreTold, Listed
<1>13. CASE UNCHANGED vars
  BY <1>2, <1>13 DEF vars
<1> QED BY <1>4, <1>5, <1>6, <1>7, <1>8, <1>9, <1>10, <1>11, <1>12, <1>13, StepKinds

\* A feed that has failed often enough has been notified, or will be, unless
\* polls overwrote each other's count or the process died in between.
THEOREM FailuresTold == Spec => []FailuresAreTold
<1>1. Init => FailuresAreTold
  BY NoFeedType DEF Init, FailuresAreTold, Listed
<1> QED BY <1>1, ToldStep, Typed, PTL DEF Spec
=============================================================================
