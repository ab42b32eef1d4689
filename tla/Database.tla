------------------------------ MODULE Database ------------------------------
(***************************************************************************)
(* The SQLite tables the pipeline works on, and what one SQLAlchemy        *)
(* session does to them (backend/hushcast/models.py and db.py).            *)
(*                                                                         *)
(* A session loads rows, the code assigns attributes, and commit() flushes *)
(* an UPDATE of the attributes that differ from what was LOADED.  Loading  *)
(* takes no lock, so other sessions may commit in between: the flush then  *)
(* overwrites their values without noticing, attribute by attribute.  An   *)
(* UPDATE that finds its row gone raises StaleDataError.                   *)
(***************************************************************************)
EXTENDS Integers, Sequences, FiniteSetsExt, Functions, EpisodeState

CONSTANTS
    MaxId,          \* bound: episode ids are 1..MaxId
    Feed,           \* the feeds a user may subscribe to
    Consumer,       \* the worker's consumer tasks
    RetrySettings   \* the values users give max_episode_retries

\* Whom a job row belongs to that no consumer holds.
Nobody == "nobody"

ASSUME DatabaseAssumption ==
    /\ MaxId \in Nat \ {0}
    /\ Consumer # {}
    /\ Nobody \notin Consumer
    /\ RetrySettings \subseteq Nat
    /\ RetrySettings # {}

VARIABLES
    rows,           \* the episodes table, by id
    jobs,           \* the rows of the jobs table that say "running"
    max_retries     \* the setting max_episode_retries

databaseVars == <<rows, jobs, max_retries>>

Episode == 1..MaxId
Step    == {"download", "transcribe", "cues", "detect", "cut", "finalize"}
None    == "none"
ABSENT  == "absent"

Row == [feed             : Feed \union {None},
        status           : ALL_STATUSES \union {ABSENT},
        retry_count      : Nat,
        last_failed_step : Step \union {None}]

NoRow == [feed |-> None, status |-> ABSENT, retry_count |-> 0, last_failed_step |-> None]

NewRow(f, s) == [feed |-> f, status |-> s, retry_count |-> 0, last_failed_step |-> None]

\* A running job row.  "by" is not a column: it names the consumer that
\* holds the row's id, or Nobody once that consumer has let go of it.
Job == [ep : Episode, step : Step, by : Consumer \union {Nobody}]

Exists(e) == rows[e].status # ABSENT

-----------------------------------------------------------------------------
\* SQLAlchemy's unit of work: the attributes of "row" that the session
\* changed since it loaded "old" are written, the others are left alone.
Update(row, old, new) ==
    [field \in DOMAIN row |-> IF new[field] # old[field] THEN new[field] ELSE row[field]]

\* The flush of a session that loaded the rows "old" of some ids and now
\* holds "new" is refused as a whole when a row to be updated is gone.
FlushFails(ids, old, new) == \E e \in ids : old[e] # new[e] /\ ~Exists(e)

Flush(ids, old, new) ==
    rows' = [e \in Episode |-> IF e \in ids THEN Update(rows[e], old[e], new[e]) ELSE rows[e]]

\* SQLite gives a new row the largest id plus one: ids freed by a deletion
\* at the top of the table are handed out again (no AUTOINCREMENT).
NextId == Max({0} \union {e \in Episode : Exists(e)}) + 1

DatabaseTypeOK ==
    /\ rows \in [Episode -> Row]
    /\ jobs \in SUBSET Job
    /\ max_retries \in RetrySettings

\* The app starts with an empty database.
DatabaseInit ==
    /\ rows = [e \in Episode |-> NoRow]
    /\ jobs = {}
    /\ max_retries \in RetrySettings
=============================================================================
