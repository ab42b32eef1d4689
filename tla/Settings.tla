------------------------------ MODULE Settings ------------------------------
(***************************************************************************)
(* The settings table and its cache (backend/hushcast/settings_store.py),  *)
(* the settings API (backend/hushcast/api/settings.py) and the token check *)
(* of the public routes (backend/hushcast/serve/rss.py).                   *)
(*                                                                         *)
(* get_all fills the module-level cache from a SELECT it awaits; set_many  *)
(* commits and then clears the cache.  Each await is a step of its own, so *)
(* a commit may fall between a fill's SELECT and its assignment.           *)
(*                                                                         *)
(* Three keys stand for the table: the feed token, one secret, and the one *)
(* key for which blank means "use the default".                            *)
(***************************************************************************)
EXTENDS Integers, FiniteSets

CONSTANTS
    Client,         \* requests that may be in flight at once
    Token,          \* bound: the feed tokens that can be generated
    Secret          \* the values users give the secret

ASSUME SettingsAssumption ==
    /\ Client # {}
    /\ Token \intersect {"absent", "blank", "left out"} = {}
    /\ Secret \intersect {"absent", "blank", "left out", "mask"} = {}

VARIABLES
    stored,         \* the rows of the settings table, by key
    cache,          \* _cache: the merged settings, or Empty
    call,           \* what each request is doing
    overtaken,      \* the cache was filled from rows that had changed meanwhile
    shown,          \* history: the feed token a request returned last, while nobody
                    \* was asking for another
    contended       \* history: it did so while another request had found no token,
                    \* and was going to store one of its own

settingsVars == <<stored, cache, call, overtaken, shown, contended>>

ABSENT  == "absent"     \* no row: the default applies
BLANK   == "blank"
LEFT_OUT == "left out"  \* a key the body of a PUT does not have
MASK    == "mask"
CUSTOM  == "custom"
DEFAULT == "default"

Key == {"feed_token", "llm_api_key", "detection_prompt"}
SECRET_KEYS    == {"llm_api_key"}
RESET_ON_EMPTY == {"detection_prompt"}

DEFAULTS == [feed_token |-> BLANK, llm_api_key |-> BLANK, detection_prompt |-> DEFAULT]

Row    == [feed_token : Token \union {BLANK, ABSENT},
           llm_api_key : Secret \union {BLANK, ABSENT},
           detection_prompt : {CUSTOM, BLANK, ABSENT}]
Merged == [feed_token : Token \union {BLANK}, llm_api_key : Secret \union {BLANK},
           detection_prompt : {CUSTOM, DEFAULT}]
Body   == [feed_token : Token \union {BLANK, LEFT_OUT},
           llm_api_key : Secret \union {BLANK, MASK, LEFT_OUT},
           detection_prompt : {CUSTOM, BLANK, LEFT_OUT}]

\* A cache that is not filled, and the call of a request that has none.
Empty  == [feed_token |-> ABSENT, llm_api_key |-> ABSENT, detection_prompt |-> ABSENT]
NoBody == [k \in Key |-> LEFT_OUT]
NoCall == [pc |-> "idle", op |-> "read", stage |-> "check", body |-> NoBody, seen |-> Empty]

\* "stage" tells the first get_all of ensure_feed_token from the last one of
\* the request, "seen" holds what the request's session or SELECT has read.
Call == [pc : {"idle", "load", "commit", "invalidate", "select", "assign"},
         op : {"read", "put", "regenerate"}, stage : {"check", "final"},
         body : Body, seen : Row \union Merged]

\* Forms come back with a masked secret and an emptied prompt: the mask is
\* never stored, and a blank prompt is never effective, not even one that an
\* earlier version stored.
SettingsTypeOK ==
    /\ stored \in Row
    /\ cache \in Merged \union {Empty}
    /\ call \in [Client -> Call]
    /\ overtaken \in BOOLEAN
    /\ shown \in Token \union {ABSENT}
    /\ contended \in BOOLEAN

\* A database of an earlier version may hold a blank prompt and a secret;
\* lifespan ensures a token before the first request.
SettingsInit ==
    /\ stored \in {[feed_token |-> t, llm_api_key |-> k, detection_prompt |-> p] :
                      t \in Token, k \in Secret \union {ABSENT}, p \in {ABSENT, BLANK}}
    /\ cache = Empty
    /\ call = [r \in Client |-> NoCall]
    /\ overtaken = FALSE
    /\ shown = ABSENT
    /\ contended = FALSE

-----------------------------------------------------------------------------
\* PURE PARTS

ResetsToDefault(k, v) == k \in RESET_ON_EMPTY /\ v = BLANK

\* merge_settings: DEFAULTS overlaid with the rows that do not reset.
Merge(rows) ==
    [k \in Key |-> IF rows[k] = ABSENT \/ ResetsToDefault(k, rows[k]) THEN DEFAULTS[k] ELSE rows[k]]

NeverKeeps(k, v) == v = LEFT_OUT  \* mutant: the mask is a value like another

\* What set_many passes over: an unchanged mask keeps the stored value.
Keeps(k, v) == v = LEFT_OUT \/ (k \in SECRET_KEYS /\ v = MASK)

\* The row set_many wants for a key.
Wanted(k, v) == IF ResetsToDefault(k, v) THEN ABSENT ELSE v

\* The flush of a session that loaded "seen": rows that change are written,
\* unless a row to insert has appeared or a row to update has gone.
Written(k, v, seen) == ~Keeps(k, v) /\ Wanted(k, v) # seen[k]
FlushFails(body, seen) ==
    \E k \in Key : /\ Written(k, body[k], seen)
                   /\ Wanted(k, body[k]) # ABSENT
                   /\ (seen[k] = ABSENT) # (stored[k] = ABSENT)

Flushed(body, seen) ==
    [k \in Key |-> IF Written(k, body[k], seen) THEN Wanted(k, body[k]) ELSE stored[k]]

\* secrets.token_hex: never one that is around.
FreshTokens ==
    Token \ ({stored.feed_token, cache.feed_token, shown}
              \union {call[r].body.feed_token : r \in Client}
              \union {call[r].seen.feed_token : r \in Client})

-----------------------------------------------------------------------------
\* ONE REQUEST

Others(r) == Client \ {r}

\* A user's request is replacing the token: a blank one is on its way.
AsksForToken(r) == call[r].body.feed_token = BLANK

\* A request that has no token to store and was not told that there is none.
LeavesToken(r) ==
    /\ call[r].body.feed_token = LEFT_OUT
    /\ call[r].pc = "assign" => call[r].seen.feed_token # BLANK

\* The request is over; the token it got is in the URLs it returns.
Finish(r, settings) ==
    /\ call' = [call EXCEPT ![r] = NoCall]
    /\ IF settings.feed_token # BLANK /\ ~overtaken' /\ \A o \in Others(r) : ~AsksForToken(o)
       THEN /\ shown' = settings.feed_token
            /\ contended' = \E o \in Others(r) : ~LeavesToken(o)
       ELSE UNCHANGED <<shown, contended>>

\* What a request does with the settings get_all returned: ensure_feed_token
\* stores a token when it finds none.
Got(r, settings) ==
    IF call[r].stage = "check" /\ settings.feed_token = BLANK
    THEN \E t \in FreshTokens :
            /\ call' = [call EXCEPT ![r] = [@ EXCEPT !.pc = "load", !.stage = "final", !.seen = Empty,
                                                     !.body = [NoBody EXCEPT !.feed_token = t]]]
            /\ UNCHANGED <<shown, contended>>
    ELSE Finish(r, settings)

\* Serving a feed or an episode, and every page that shows a subscribe URL,
\* begin with ensure_feed_token; get_all answers from the cache at once.
Ask(r) ==
    /\ call[r].pc = "idle"
    /\ cache = Empty
    /\ call' = [call EXCEPT ![r] = [NoCall EXCEPT !.pc = "select"]]
    /\ UNCHANGED <<stored, cache, overtaken, shown, contended>>

AskCached(r) ==
    /\ call[r].pc = "idle"
    /\ cache # Empty
    /\ UNCHANGED <<stored, cache, overtaken>>
    /\ Got(r, cache)

\* put_settings and regenerate_token begin with set_many; a token the user
\* replaces need not work any longer.
Write(r, op, body) ==
    /\ call[r].pc = "idle"
    /\ call' = [call EXCEPT ![r] = [NoCall EXCEPT !.pc = "load", !.op = op, !.body = body,
                                                  !.stage = IF op = "put" THEN "final" ELSE "check"]]
    /\ IF body.feed_token = LEFT_OUT
       THEN UNCHANGED <<shown, contended>>
       ELSE shown' = ABSENT /\ contended' = FALSE
    /\ UNCHANGED <<stored, cache, overtaken>>

\* set_many: session.get of each key ...
LoadRows(r) ==
    /\ call[r].pc = "load"
    /\ call' = [call EXCEPT ![r].pc = "commit", ![r].seen = stored]
    /\ UNCHANGED <<stored, cache, overtaken, shown, contended>>

\* ... the commit, refused as a whole when a row came or went ...
CommitRows(r) ==
    /\ call[r].pc = "commit"
    /\ IF FlushFails(call[r].body, call[r].seen)
       THEN call' = [call EXCEPT ![r] = NoCall] /\ UNCHANGED stored
       ELSE /\ stored' = Flushed(call[r].body, call[r].seen)
            /\ call' = [call EXCEPT ![r].pc = "invalidate", ![r].seen = Empty]
    /\ UNCHANGED <<cache, overtaken, shown, contended>>

InvalidateNothing(r) ==  \* mutant: the cache is kept after a commit
    /\ call[r].pc = "invalidate"
    /\ call' = [call EXCEPT ![r] = NoCall]
    /\ UNCHANGED <<stored, cache, overtaken, shown, contended>>

\* ... and invalidate_cache, after which the request's own get_all must read.
Invalidate(r) ==
    /\ call[r].pc = "invalidate"
    /\ cache' = Empty
    /\ overtaken' = FALSE
    /\ call' = [call EXCEPT ![r].pc = "select", ![r].body = NoBody]
    /\ UNCHANGED <<stored, shown, contended>>

\* get_all on an empty cache: the SELECT ...
Select(r) ==
    /\ call[r].pc = "select"
    /\ call' = [call EXCEPT ![r].pc = "assign", ![r].seen = Merge(stored)]
    /\ UNCHANGED <<stored, cache, overtaken, shown, contended>>

\* ... and, some awaits later, the assignment of what it read.
Assign(r) ==
    /\ call[r].pc = "assign"
    /\ cache' = call[r].seen
    /\ overtaken' = (call[r].seen # Merge(stored))
    /\ Got(r, call[r].seen)
    /\ UNCHANGED stored

\* Bodies of a PUT: the form of the UI, in which the mask goes back when the
\* secret was not edited, or a request that empties the token.
Bodies ==
    {b \in Body :
        \/ b.feed_token = LEFT_OUT /\ b.llm_api_key \notin {BLANK, LEFT_OUT} /\ b.detection_prompt # LEFT_OUT
        \/ b = [NoBody EXCEPT !.feed_token = BLANK]}

ChangeSettings(r) ==
    \/ Write(r, "regenerate", [NoBody EXCEPT !.feed_token = BLANK])
    \/ \E b \in Bodies : Write(r, "put", b)

SettingsStep(r) ==
    \/ LoadRows(r)
    \/ CommitRows(r)
    \/ Invalidate(r)
    \/ Select(r)
    \/ Assign(r)

RestartWithNewToken ==  \* mutant: every start generates a token
    /\ \E t \in FreshTokens : stored' = [stored EXCEPT !.feed_token = t]
    /\ cache' = Merge(stored')
    /\ call' = [r \in Client |-> NoCall]
    /\ overtaken' = FALSE
    /\ UNCHANGED <<shown, contended>>

\* lifespan: ensure_feed_token stores a token if there is none, and fills the
\* cache, before any request is served.
SettingsRestart ==
    /\ IF stored.feed_token \in Token
       THEN UNCHANGED stored
       ELSE \E t \in FreshTokens : stored' = [stored EXCEPT !.feed_token = t]
    /\ cache' = Merge(stored')
    /\ call' = [r \in Client |-> NoCall]
    /\ overtaken' = FALSE
    /\ UNCHANGED <<shown, contended>>

-----------------------------------------------------------------------------
\* PROPERTIES

\* The effective settings are the stored ones (get_all, set_many): the cache is what the
\* rows say, unless a commit is just about to clear it, or it was filled from
\* rows that changed before the assignment.  Nothing else makes it stale.
CacheIsFresh ==
    cache # Empty /\ ~overtaken =>
        cache = Merge(stored) \/ \E r \in Client : call[r].pc = "invalidate"

\* A subscribe URL that a request returned keeps working, through everything
\* that is read, written or restarted afterwards, until the user asks for
\* another token (ensure_feed_token, regenerate_token, lifespan).  It says
\* nothing of a URL from a cache that was overtaken, nor of one returned
\* while another request had found no token either.
ShownTokenIsStored == shown # ABSENT /\ ~contended => stored.feed_token = shown
=============================================================================
