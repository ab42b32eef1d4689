--------------------------- MODULE ServiceProofs ----------------------------
(***************************************************************************)
(* What Service keeps for any number of requests, tokens, secrets, names,  *)
(* passwords and salts, and however often the process restarts.            *)
(***************************************************************************)
EXTENDS Service, TLAPS

-----------------------------------------------------------------------------
\* TYPES

\* What a request of the settings has read when it assigns the cache, and what
\* a request of the login knows when it stores credentials.
Shaped ==
    /\ \A r \in Client : call[r].pc = "assign" => call[r].seen \in Merged
    /\ \A r \in Visitor :
          /\ visit[r].pc # "idle" => visit[r].username \in Username
          /\ visit[r].pc \in {"load", "commit", "assign"} => visit[r].hash \in Hash
          /\ visit[r].pc = "verify" => visit[r].new \in Password
          /\ visit[r].seen # NoCreds => creds # NoCreds

TypeInv == TypeOK /\ Shaped

LEMMA MergeType ==
    ASSUME NEW rows \in Row
    PROVE  /\ Merge(rows) \in Merged
           /\ Merge(rows).feed_token = IF rows.feed_token = ABSENT THEN BLANK ELSE rows.feed_token
BY DEF Merge, Row, Merged, Key, DEFAULTS, ResetsToDefault, RESET_ON_EMPTY, ABSENT, BLANK, CUSTOM, DEFAULT

LEMMA NoBodyType ==
    /\ NoBody \in Body /\ NoBody.feed_token = LEFT_OUT
    /\ \A t \in Token \union {BLANK} : [NoBody EXCEPT !.feed_token = t] \in Body
BY DEF NoBody, Body, Key

LEMMA EmptyType == Empty \in Row /\ Empty \notin Merged /\ Empty.feed_token = ABSENT
BY SettingsAssumption DEF Empty, Row, Merged, ABSENT, BLANK, CUSTOM, DEFAULT

LEMMA NoCallType ==
    NoCall \in Call /\ NoCall.pc = "idle" /\ NoCall.stage = "check" /\ NoCall.body = NoBody
BY NoBodyType, EmptyType DEF NoCall, Call

\* One request of the settings moves.
LEMMA OneCalls ==
    ASSUME TypeInv, NEW r \in Client, NEW c \in Call, c.pc = "assign" => c.seen \in Merged,
           call' = [call EXCEPT ![r] = c]
    PROVE  /\ call' \in [Client -> Call]
           /\ \A o \in Client : call'[o].pc = "assign" => call'[o].seen \in Merged
BY DEF TypeInv, TypeOK, SettingsTypeOK, Shaped

LEMMA FlushedType ==
    ASSUME stored \in Row, NEW body \in Body, NEW seen
    PROVE  /\ Flushed(body, seen) \in Row
           /\ body.feed_token = LEFT_OUT => Flushed(body, seen).feed_token = stored.feed_token
<1> DEFINE new(k) == IF Written(k, body[k], seen) THEN Wanted(k, body[k]) ELSE stored[k]
<1>1. new("feed_token") \in Token \union {BLANK, ABSENT}
  BY DEF Row, Body, Written, Keeps, Wanted, ResetsToDefault, RESET_ON_EMPTY
<1>2. new("llm_api_key") \in Secret \union {BLANK, ABSENT}
  BY DEF Row, Body, Written, Keeps, Wanted, ResetsToDefault, RESET_ON_EMPTY, SECRET_KEYS
<1>3. new("detection_prompt") \in {CUSTOM, BLANK, ABSENT}
  BY DEF Row, Body, Written, Keeps, Wanted, ResetsToDefault, RESET_ON_EMPTY
<1>4. body.feed_token = LEFT_OUT => new("feed_token") = stored.feed_token
  BY DEF Written, Keeps
<1>5. Flushed(body, seen) = [k \in Key |-> new(k)]
  BY DEF Flushed
<1> HIDE DEF new
<1> QED BY <1>1, <1>2, <1>3, <1>4, <1>5 DEF Key, Row

\* What Got does with settings from the table, whatever the request does next.
LEMMA GotType ==
    ASSUME TypeInv, NEW r \in Client, NEW settings \in Merged, Got(r, settings)
    PROVE  /\ call' \in [Client -> Call]
           /\ \A o \in Client : call'[o].pc = "assign" => call'[o].seen \in Merged
           /\ shown' \in Token \union {ABSENT} /\ contended' \in BOOLEAN
<1>1. shown \in Token \union {ABSENT} /\ contended \in BOOLEAN /\ call[r] \in Call
  BY DEF TypeInv, TypeOK, SettingsTypeOK
<1>2. CASE call[r].stage = "check" /\ settings.feed_token = BLANK
  <2>1. PICK t \in Token :
           /\ call' = [call EXCEPT ![r] = [@ EXCEPT !.pc = "load", !.stage = "final", !.seen = Empty,
                                                    !.body = [NoBody EXCEPT !.feed_token = t]]]
           /\ UNCHANGED <<shown, contended>>
    BY <1>2 DEF Got, FreshTokens
  <2> DEFINE c == [call[r] EXCEPT !.pc = "load", !.stage = "final", !.seen = Empty,
                                  !.body = [NoBody EXCEPT !.feed_token = t]]
  <2>2. c \in Call /\ c.pc = "load"
    BY <1>1, NoBodyType, EmptyType DEF Call
  <2>3. call' = [call EXCEPT ![r] = c]
    BY <2>1
  <2> HIDE DEF c
  <2> QED BY <1>1, <2>1, <2>2, <2>3, OneCalls
<1>3. CASE Finish(r, settings)
  <2>1. shown' \in Token \union {ABSENT} /\ contended' \in BOOLEAN
    BY <1>1, <1>3 DEF Finish, Merged
  <2>2. call' = [call EXCEPT ![r] = NoCall]
    BY <1>3 DEF Finish
  <2> QED BY <2>1, <2>2, NoCallType, OneCalls
<1> QED BY <1>2, <1>3 DEF Got

SettingsInv ==
    SettingsTypeOK /\ \A r \in Client : call[r].pc = "assign" => call[r].seen \in Merged

LEMMA UseSettingsType ==
    ASSUME TypeInv, NEW r \in Client, Ask(r) \/ AskCached(r) \/ ChangeSettings(r)
    PROVE  SettingsInv'
<1>1. shown \in Token \union {ABSENT} /\ contended \in BOOLEAN
  BY DEF TypeInv, TypeOK, SettingsTypeOK
<1>2. CASE Ask(r)
  <2> DEFINE c == [NoCall EXCEPT !.pc = "select"]
  <2>1. c \in Call /\ c.pc = "select"
    BY NoCallType DEF Call
  <2>2. call' = [call EXCEPT ![r] = c]
    BY <1>2 DEF Ask
  <2> HIDE DEF c
  <2> QED BY <1>2, <2>1, <2>2, OneCalls DEF Ask, TypeInv, TypeOK, SettingsTypeOK, SettingsInv
<1>3. CASE AskCached(r)
  <2>1. cache \in Merged
    BY <1>3 DEF AskCached, TypeInv, TypeOK, SettingsTypeOK
  <2> QED BY <1>3, <2>1, GotType DEF AskCached, TypeInv, TypeOK, SettingsTypeOK, SettingsInv
<1>4. ASSUME NEW op \in {"put", "regenerate"}, NEW body \in Body, Write(r, op, body)
      PROVE  SettingsInv'
  <2> DEFINE c == [NoCall EXCEPT !.pc = "load", !.op = op, !.body = body,
                                 !.stage = IF op = "put" THEN "final" ELSE "check"]
  <2>1. c \in Call /\ c.pc = "load"
    BY NoCallType DEF Call
  <2>2. call' = [call EXCEPT ![r] = c]
    BY <1>4 DEF Write
  <2>3. shown' \in Token \union {ABSENT} /\ contended' \in BOOLEAN
    BY <1>1, <1>4 DEF Write
  <2> HIDE DEF c
  <2> QED BY <1>4, <2>1, <2>2, <2>3, OneCalls DEF Write, TypeInv, TypeOK, SettingsTypeOK, SettingsInv
<1>5. CASE ChangeSettings(r)
  <2>1. CASE Write(r, "regenerate", [NoBody EXCEPT !.feed_token = BLANK])
    BY <1>4, <2>1, NoBodyType
  <2>2. CASE \E b \in Bodies : Write(r, "put", b)
    <3>1. PICK b \in Bodies : Write(r, "put", b)
      BY <2>2
    <3>2. b \in Body
      BY DEF Bodies
    <3> QED BY <1>4, <3>1, <3>2
  <2> QED BY <1>5, <2>1, <2>2 DEF ChangeSettings
<1> QED BY <1>2, <1>3, <1>5

LEMMA SettingsStepType ==
    ASSUME TypeInv, NEW r \in Client, SettingsStep(r)
    PROVE  SettingsInv'
<1>1. call[r] \in Call /\ stored \in Row
  BY DEF TypeInv, TypeOK, SettingsTypeOK
<1>2. CASE LoadRows(r)
  <2> DEFINE c == [call[r] EXCEPT !.pc = "commit", !.seen = stored]
  <2>1. c \in Call /\ c.pc = "commit"
    BY <1>1 DEF Call
  <2>2. call' = [call EXCEPT ![r] = c]
    BY <1>2 DEF LoadRows
  <2> HIDE DEF c
  <2> QED BY <1>2, <2>1, <2>2, OneCalls DEF LoadRows, TypeInv, TypeOK, SettingsTypeOK, SettingsInv
<1>3. CASE CommitRows(r)
  <2> DEFINE c == [call[r] EXCEPT !.pc = "invalidate", !.seen = Empty]
  <2>1. c \in Call /\ c.pc = "invalidate"
    BY <1>1, EmptyType DEF Call
  <2>2. call' = [call EXCEPT ![r] = NoCall] \/ call' = [call EXCEPT ![r] = c]
    BY <1>3 DEF CommitRows
  <2>3. stored' \in Row
    BY <1>1, <1>3, FlushedType DEF CommitRows, Call
  <2> HIDE DEF c
  <2> QED BY <1>3, <2>1, <2>2, <2>3, NoCallType, OneCalls
          DEF CommitRows, TypeInv, TypeOK, SettingsTypeOK, SettingsInv
<1>4. CASE Invalidate(r)
  <2> DEFINE c == [call[r] EXCEPT !.pc = "select", !.body = NoBody]
  <2>1. c \in Call /\ c.pc = "select"
    BY <1>1, NoBodyType DEF Call
  <2>2. call' = [call EXCEPT ![r] = c]
    BY <1>4 DEF Invalidate
  <2> HIDE DEF c
  <2> QED BY <1>4, <2>1, <2>2, OneCalls DEF Invalidate, TypeInv, TypeOK, SettingsTypeOK, SettingsInv
<1>5. CASE Select(r)
  <2> DEFINE c == [call[r] EXCEPT !.pc = "assign", !.seen = Merge(stored)]
  <2>1. c \in Call /\ c.seen \in Merged
    BY <1>1, MergeType DEF Call
  <2>2. call' = [call EXCEPT ![r] = c]
    BY <1>5 DEF Select
  <2> HIDE DEF c
  <2> QED BY <1>5, <2>1, <2>2, OneCalls DEF Select, TypeInv, TypeOK, SettingsTypeOK, SettingsInv
<1>6. CASE Assign(r)
  <2>1. call[r].seen \in Merged
    BY <1>6 DEF Assign, TypeInv, Shaped
  <2> QED BY <1>6, <2>1, GotType DEF Assign, TypeInv, TypeOK, SettingsTypeOK, SettingsInv
<1> QED BY <1>2, <1>3, <1>4, <1>5, <1>6 DEF SettingsStep

\* What a start leaves: the rows with a token, and a cache that shows it.
LEMMA RestartRows ==
    ASSUME TypeInv, SettingsRestart
    PROVE  /\ stored' \in Row /\ stored'.feed_token \in Token
           /\ stored.feed_token \in Token => stored' = stored
<1>1. stored \in Row
  BY DEF TypeInv, TypeOK, SettingsTypeOK
<1> QED BY <1>1 DEF SettingsRestart, FreshTokens, Row

LEMMA SettingsRestartType ==
    ASSUME TypeInv, SettingsRestart
    PROVE  SettingsInv'
<1>1. stored' \in Row /\ cache' \in Merged
  BY RestartRows, MergeType DEF SettingsRestart
<1>2. call' \in [Client -> Call] /\ \A r \in Client : call'[r].pc # "assign"
  BY NoCallType DEF SettingsRestart
<1> QED BY <1>1, <1>2 DEF SettingsRestart, TypeInv, TypeOK, SettingsTypeOK, SettingsInv

-----------------------------------------------------------------------------
LEMMA NoVisitType == NoVisit \in Visit /\ NoVisit.pc = "idle" /\ NoVisit.seen = NoCreds
BY DEF NoVisit, Visit

VisitShaped(v) ==
    /\ v.pc # "idle" => v.username \in Username
    /\ v.pc \in {"load", "commit", "assign"} => v.hash \in Hash
    /\ v.pc = "verify" => v.new \in Password
    /\ v.seen # NoCreds => creds # NoCreds

AuthInv == AuthTypeOK /\ \A r \in Visitor : VisitShaped(visit[r])

LEMMA OneVisits ==
    ASSUME TypeInv, NEW r \in Visitor, NEW v \in Visit, VisitShaped(v),
           visit' = [visit EXCEPT ![r] = v], creds' = creds \/ creds' # NoCreds
    PROVE  visit' \in [Visitor -> Visit] /\ \A o \in Visitor : VisitShaped(visit[o])'
BY DEF TypeInv, TypeOK, AuthTypeOK, Shaped, VisitShaped

LEMMA StoreType ==
    ASSUME TypeInv, NEW r \in Visitor, NEW username \in Username, NEW password,
           Store(r, username, password), UNCHANGED creds
    PROVE  visit' \in [Visitor -> Visit] /\ \A o \in Visitor : VisitShaped(visit[o])'
<1>1. PICK h \in Hash :
         visit' = [visit EXCEPT ![r] = [NoVisit EXCEPT !.pc = "load", !.username = username, !.hash = h]]
  BY DEF Store, FreshHashes
<1> DEFINE v == [NoVisit EXCEPT !.pc = "load", !.username = username, !.hash = h]
<1>2. v \in Visit /\ VisitShaped(v)
  BY NoVisitType DEF NoVisit, Visit, VisitShaped
<1>3. visit' = [visit EXCEPT ![r] = v]
  BY <1>1
<1> HIDE DEF v
<1> QED BY <1>2, <1>3, OneVisits

LEMMA AuthRequestType ==
    ASSUME TypeInv, NEW r \in Visitor, AuthRequest(r)
    PROVE  AuthInv'
<1>1. creds \in Credentials \union {NoCreds}
  BY DEF TypeInv, TypeOK, AuthTypeOK
<1>2. ASSUME NEW u \in Username, NEW p \in Password, Setup(r, u, p)
      PROVE  AuthInv'
  BY <1>2, StoreType DEF Setup, TypeInv, TypeOK, AuthTypeOK, AuthInv
<1>3. ASSUME NEW u \in Username, NEW p \in Password, Login(r, u, p)
      PROVE  AuthInv'
  <2> DEFINE v == [NoVisit EXCEPT !.pc = "login", !.seen = creds, !.username = u, !.given = p]
  <2>1. v \in Visit /\ VisitShaped(v)
    BY <1>1, NoVisitType DEF Visit, VisitShaped
  <2>2. visit' = [visit EXCEPT ![r] = v]
    BY <1>3 DEF Login
  <2> HIDE DEF v
  <2> QED BY <1>3, <2>1, <2>2, OneVisits DEF Login, TypeInv, TypeOK, AuthTypeOK, AuthInv
<1>4. ASSUME NEW key \in sessions, NEW u \in Username, NEW p \in Password, NEW q \in Password,
             Change(r, key, u, p, q)
      PROVE  AuthInv'
  <2> DEFINE v == [NoVisit EXCEPT !.pc = "verify", !.seen = creds, !.given = p, !.username = u, !.new = q]
  <2>1. v \in Visit /\ VisitShaped(v)
    BY <1>1, NoVisitType DEF NoVisit, Visit, VisitShaped
  <2>2. visit' = [visit EXCEPT ![r] = v]
    BY <1>4 DEF Change
  <2> HIDE DEF v
  <2> QED BY <1>4, <2>1, <2>2, OneVisits DEF Change, TypeInv, TypeOK, AuthTypeOK, AuthInv
<1> QED BY <1>2, <1>3, <1>4 DEF AuthRequest

LEMMA AuthStepType ==
    ASSUME TypeInv, NEW r \in Visitor, AuthStep(r)
    PROVE  AuthInv'
<1>1. /\ visit[r] \in Visit /\ VisitShaped(visit[r])
      /\ creds \in Credentials \union {NoCreds} /\ sessions \subseteq Hash
  BY DEF TypeInv, TypeOK, AuthTypeOK, Shaped, VisitShaped
<1>2. CASE LoginAnswer(r)
  <2>1. visit' \in [Visitor -> Visit] /\ \A o \in Visitor : VisitShaped(visit[o])'
    BY <1>2, NoVisitType, OneVisits DEF LoginAnswer, VisitShaped
  <2>2. visit[r].username = known.username => known.hash \in Hash
    BY <1>1, <1>2, AuthAssumption
    DEF LoginAnswer, VisitShaped, TypeInv, TypeOK, AuthTypeOK, Credentials, NoCreds, NONE
  <2> QED BY <1>1, <1>2, <2>1, <2>2 DEF LoginAnswer, TypeInv, TypeOK, AuthTypeOK, AuthInv
<1>3. CASE ChangeVerified(r)
  <2>1. CASE Store(r, visit[r].username, visit[r].new)
    BY <1>1, <1>3, <2>1, StoreType DEF ChangeVerified, VisitShaped, TypeInv, TypeOK, AuthTypeOK, AuthInv
  <2>2. CASE visit' = [visit EXCEPT ![r] = NoVisit]
    BY <1>3, <2>2, NoVisitType, OneVisits DEF ChangeVerified, VisitShaped, TypeInv, TypeOK, AuthTypeOK, AuthInv
  <2> QED BY <1>3, <2>1, <2>2 DEF ChangeVerified
<1>4. CASE LoadCreds(r)
  <2> DEFINE v == [visit[r] EXCEPT !.pc = "commit", !.seen = creds]
  <2>1. v \in Visit /\ VisitShaped(v)
    BY <1>1, <1>4 DEF LoadCreds, Visit, VisitShaped
  <2>2. visit' = [visit EXCEPT ![r] = v]
    BY <1>4 DEF LoadCreds
  <2> HIDE DEF v
  <2> QED BY <1>4, <2>1, <2>2, OneVisits DEF LoadCreds, TypeInv, TypeOK, AuthTypeOK, AuthInv
<1>5. CASE CommitCreds(r)
  <2> DEFINE v == [visit[r] EXCEPT !.pc = "assign"]
             c == [username |-> IF visit[r].username = visit[r].seen.username
                                THEN creds.username ELSE visit[r].username,
                   hash |-> visit[r].hash]
  <2>1. v \in Visit /\ VisitShaped(v)
    BY <1>1, <1>5 DEF CommitCreds, Visit, VisitShaped
  <2>2. \/ visit' = [visit EXCEPT ![r] = NoVisit] /\ UNCHANGED creds
        \/ visit' = [visit EXCEPT ![r] = v] /\ creds' = c
    BY <1>5 DEF CommitCreds, Target
  <2>3. c \in Credentials
    BY <1>1, <1>5, AuthAssumption DEF CommitCreds, VisitShaped, Credentials, NoCreds, NONE
  <2>4. c # NoCreds
    BY <2>3, AuthAssumption DEF Credentials, NoCreds, NONE
  <2> HIDE DEF v, c
  <2> QED BY <1>5, <2>1, <2>2, <2>3, <2>4, NoVisitType, OneVisits
          DEF CommitCreds, VisitShaped, TypeInv, TypeOK, AuthTypeOK, AuthInv
<1>6. CASE AssignCreds(r)
  <2>1. Target(r) \in Credentials /\ visit[r].hash \in Hash
    BY <1>1, <1>6 DEF AssignCreds, Target, VisitShaped, Credentials
  <2>2. visit' \in [Visitor -> Visit] /\ \A o \in Visitor : VisitShaped(visit[o])'
    BY <1>6, NoVisitType, OneVisits DEF AssignCreds, VisitShaped
  <2> QED BY <1>1, <1>6, <2>1, <2>2 DEF AssignCreds, TypeInv, TypeOK, AuthTypeOK, AuthInv
<1> QED BY <1>2, <1>3, <1>4, <1>5, <1>6 DEF AuthStep

LEMMA TypesHold == Spec => []TypeInv
<1>1. Init => TypeInv
  <2> SUFFICES ASSUME Init PROVE TypeInv
    OBVIOUS
  <2>1. SettingsInv
    <3>1. stored \in Row /\ cache = Empty /\ shown = ABSENT /\ overtaken = FALSE /\ contended = FALSE
      BY DEF Init, SettingsInit, Row
    <3>2. call \in [Client -> Call] /\ \A r \in Client : call[r].pc = "idle"
      BY NoCallType DEF Init, SettingsInit
    <3> QED BY <3>1, <3>2 DEF SettingsInv, SettingsTypeOK
  <2>2. AuthInv
    BY NoVisitType DEF Init, AuthInit, AuthInv, AuthTypeOK, VisitShaped
  <2> QED BY <2>1, <2>2 DEF TypeInv, TypeOK, Shaped, SettingsInv, AuthInv, VisitShaped
<1>2. TypeInv /\ [Next]_vars => TypeInv'
  <2> SUFFICES ASSUME TypeInv, [Next]_vars PROVE TypeInv'
    OBVIOUS
  <2> USE ServiceAssumption
  <2>1. UNCHANGED settingsVars => SettingsInv'
    BY DEF settingsVars, TypeInv, TypeOK, SettingsTypeOK, Shaped, SettingsInv, Call, Row, Merged
  <2>2. UNCHANGED authVars => AuthInv'
    BY DEF authVars, TypeInv, TypeOK, AuthTypeOK, Shaped, AuthInv, VisitShaped
  <2>3. SettingsInv' /\ AuthInv'
    <3>1. ASSUME NEW r \in User, UseSettings(r) PROVE SettingsInv' /\ AuthInv'
      BY <2>2, <3>1, UseSettingsType DEF UseSettings
    <3>2. ASSUME NEW r \in User, UseLogin(r) PROVE SettingsInv' /\ AuthInv'
      BY <2>1, <3>2, AuthRequestType DEF UseLogin
    <3>3. ASSUME NEW r \in User, Serve(r) PROVE SettingsInv' /\ AuthInv'
      BY <2>1, <2>2, <3>3, SettingsStepType, AuthStepType DEF Serve
    <3>4. ASSUME NEW key \in sessions, Logout(key), UNCHANGED settingsVars
          PROVE  SettingsInv' /\ AuthInv'
      BY <2>1, <3>4 DEF Logout, TypeInv, TypeOK, AuthTypeOK, Shaped, AuthInv, VisitShaped
    <3>5. CASE Restart
      <4>1. SettingsInv'
        BY <3>5, SettingsRestartType DEF Restart
      <4>2. AuthInv'
        BY <3>5, NoVisitType
        DEF Restart, Refresh, TypeInv, TypeOK, AuthTypeOK, AuthInv, VisitShaped
      <4> QED BY <4>1, <4>2
    <3>6. CASE UNCHANGED vars
      BY <2>1, <2>2, <3>6 DEF vars
    <3> QED BY <3>1, <3>2, <3>3, <3>4, <3>5, <3>6 DEF Next
  <2> QED BY <2>3 DEF TypeInv, TypeOK, Shaped, SettingsInv, AuthInv, VisitShaped
<1> QED BY <1>1, <1>2, PTL DEF Spec

\* THEOREM: what the process keeps of the settings and of the login has its
\* types at every step (settings_store.py, auth.py).
THEOREM TypeCorrect == Spec => []TypeOK
<1>1. TypeInv => TypeOK
  BY DEF TypeInv
<1> QED BY <1>1, TypesHold, PTL

-----------------------------------------------------------------------------
\* THE CACHES

\* THEOREM: the cached settings are the stored ones, whatever requests read and
\* write at once, but for a commit that is about to clear the cache and a fill
\* that was overtaken (settings_store.get_all, set_many, invalidate_cache).
THEOREM CacheFresh == Spec => []CacheIsFresh
<1>1. Init => CacheIsFresh
  BY DEF Init, SettingsInit, CacheIsFresh
<1>2. TypeOK /\ CacheIsFresh /\ [Next]_vars => CacheIsFresh'
  <2> SUFFICES ASSUME TypeOK, CacheIsFresh, [Next]_vars PROVE CacheIsFresh'
    OBVIOUS
  <2> USE ServiceAssumption
  <2>1. call \in [Client -> Call]
    BY DEF TypeOK, SettingsTypeOK
  \* A request that does not commit leaves the others as they are.
  <2>2. ASSUME NEW r \in Client, NEW c, call' = [call EXCEPT ![r] = c], call[r].pc # "invalidate",
               UNCHANGED <<stored, cache, overtaken>>
        PROVE  CacheIsFresh'
    BY <2>1, <2>2 DEF CacheIsFresh
  <2>3. ASSUME NEW r \in Client, NEW settings, Got(r, settings)
        PROVE  \E c : call' = [call EXCEPT ![r] = c]
    BY <2>3 DEF Got, Finish
  <2>4. CASE UNCHANGED settingsVars
    BY <2>4 DEF settingsVars, CacheIsFresh
  <2>5. ASSUME NEW r \in User, UseSettings(r) PROVE CacheIsFresh'
    <3>1. call[r].pc = "idle"
      BY <2>5 DEF UseSettings, Idle
    <3>2. \E c : call' = [call EXCEPT ![r] = c]
      BY <2>3, <2>5 DEF UseSettings, Ask, AskCached, ChangeSettings, Write
    <3>3. UNCHANGED <<stored, cache, overtaken>>
      BY <2>5 DEF UseSettings, Ask, AskCached, ChangeSettings, Write
    <3> QED BY <2>2, <3>1, <3>2, <3>3
  <2>6. ASSUME NEW r \in User, SettingsStep(r) PROVE CacheIsFresh'
    <3>1. CASE LoadRows(r) \/ Select(r)
      <4>1. \E c : call' = [call EXCEPT ![r] = c]
        BY <3>1 DEF LoadRows, Select
      <4> QED BY <2>2, <3>1, <4>1 DEF LoadRows, Select
    <3>2. CASE CommitRows(r) /\ UNCHANGED stored
      <4>1. CASE call' = [call EXCEPT ![r] = NoCall]
        BY <2>2, <3>2, <4>1 DEF CommitRows
      <4>2. CASE call'[r].pc = "invalidate"
        BY <4>2 DEF CacheIsFresh
      <4> QED BY <2>1, <3>2, <4>1, <4>2 DEF CommitRows, Call
    <3>3. CASE CommitRows(r) /\ ~UNCHANGED stored
      <4>1. call'[r].pc = "invalidate"
        BY <2>1, <3>3 DEF CommitRows, Call
      <4> QED BY <4>1 DEF CacheIsFresh
    <3>4. CASE Invalidate(r)
      BY <3>4 DEF Invalidate, CacheIsFresh
    <3>5. CASE Assign(r)
      <4>1. cache' = call[r].seen /\ overtaken' = (call[r].seen # Merge(stored)) /\ stored' = stored
        BY <3>5 DEF Assign
      <4>2. ~overtaken' => cache' = Merge(stored)'
        BY <4>1 DEF Merge
      <4> QED BY <4>2 DEF CacheIsFresh
    <3> QED BY <2>6, <3>1, <3>2, <3>3, <3>4, <3>5 DEF SettingsStep
  <2>7. CASE Restart
    <3>1. cache' = Merge(stored)'
      BY <2>7 DEF Restart, SettingsRestart, Merge
    <3> QED BY <3>1 DEF CacheIsFresh
  <2> QED BY <2>4, <2>5, <2>6, <2>7 DEF Next, UseLogin, Serve, vars
<1> QED BY <1>1, <1>2, TypeCorrect, PTL DEF Spec

\* THEOREM: the cached credentials are the stored ones, but for a request
\* between its commit and its assignment and two that crossed there
\* (auth._store_credentials, refresh).
THEOREM KnownStored == Spec => []KnownIsStored
<1>1. Init => KnownIsStored
  BY DEF Init, AuthInit, KnownIsStored
<1>2. TypeOK /\ KnownIsStored /\ [Next]_vars => KnownIsStored'
  <2> SUFFICES ASSUME TypeOK, KnownIsStored, [Next]_vars PROVE KnownIsStored'
    OBVIOUS
  <2> USE ServiceAssumption
  <2>1. visit \in [Visitor -> Visit]
    BY DEF TypeOK, AuthTypeOK
  <2>2. ASSUME NEW r \in Visitor, NEW v, visit' = [visit EXCEPT ![r] = v], visit[r].pc # "assign",
               UNCHANGED <<creds, known, crossed>>
        PROVE  KnownIsStored'
    BY <2>1, <2>2 DEF KnownIsStored
  <2>3. CASE UNCHANGED <<creds, known, visit, crossed>>
    BY <2>3 DEF KnownIsStored
  <2>4. ASSUME NEW r \in User, AuthRequest(r) PROVE KnownIsStored'
    <3>1. visit[r].pc = "idle" /\ UNCHANGED <<creds, known, crossed>>
      BY <2>4 DEF AuthRequest, Setup, Login, Change
    <3>2. \E v : visit' = [visit EXCEPT ![r] = v]
      BY <2>4 DEF AuthRequest, Setup, Login, Change, Store
    <3> QED BY <2>2, <3>1, <3>2
  <2>5. ASSUME NEW r \in User, AuthStep(r) PROVE KnownIsStored'
    <3>1. CASE LoginAnswer(r) \/ ChangeVerified(r) \/ LoadCreds(r)
      <4>1. visit[r].pc # "assign" /\ UNCHANGED <<creds, known, crossed>>
        BY <3>1 DEF LoginAnswer, ChangeVerified, LoadCreds
      <4>2. \E v : visit' = [visit EXCEPT ![r] = v]
        BY <3>1 DEF LoginAnswer, ChangeVerified, LoadCreds, Store
      <4> QED BY <2>2, <4>1, <4>2
    <3>2. CASE CommitCreds(r)
      <4>1. CASE visit' = [visit EXCEPT ![r] = NoVisit] /\ UNCHANGED creds
        BY <2>2, <3>2, <4>1 DEF CommitCreds
      <4>2. CASE visit' = [visit EXCEPT ![r].pc = "assign"]
        <5>1. visit'[r].pc = "assign"
          BY <2>1, <4>2 DEF Visit
        <5> QED BY <5>1 DEF KnownIsStored
      <4> QED BY <3>2, <4>1, <4>2 DEF CommitCreds
    <3>3. CASE AssignCreds(r)
      BY <3>3 DEF AssignCreds, KnownIsStored
    <3> QED BY <2>5, <3>1, <3>2, <3>3 DEF AuthStep
  <2>6. CASE Restart
    BY <2>6 DEF Restart, Refresh, KnownIsStored
  <2> QED BY <2>3, <2>4, <2>5, <2>6
          DEF Next, UseSettings, UseLogin, Serve, Logout, vars, authVars
<1> QED BY <1>1, <1>2, TypeCorrect, PTL DEF Spec

\* THEOREM: a restart logs nobody in or out, unless it falls between the commit
\* and the assignment of new credentials (auth.refresh, main.lifespan).
THEOREM LoginsKept == Spec => RestartKeepsLogins
<1>1. KnownIsStored /\ [Next]_vars =>
         [Restart => \/ LoggedIn' = LoggedIn
                     \/ crossed
                     \/ \E r \in User : visit[r].pc = "assign"]_vars
  <2> SUFFICES ASSUME KnownIsStored, Restart, ~crossed, \A r \in User : visit[r].pc # "assign"
               PROVE  LoggedIn' = LoggedIn
    OBVIOUS
  <2>1. known = creds
    BY ServiceAssumption DEF KnownIsStored
  <2>2. known' = known /\ sessions' = sessions
    BY <2>1 DEF Restart, Refresh
  <2> QED BY <2>2 DEF LoggedIn, Verifies
<1> QED BY <1>1, KnownStored, PTL DEF Spec, RestartKeepsLogins

-----------------------------------------------------------------------------
\* THE TOKEN

\* A cache that was not overtaken has the stored token, but for a request that
\* has stored another and is about to clear the cache.
TokenIsFresh ==
    cache # Empty /\ ~overtaken =>
        \/ cache.feed_token = Merge(stored).feed_token
        \/ \E r \in Client : call[r].pc = "invalidate" /\ ~LeavesToken(r)

\* While the user holds a token that nobody contends, no request is about to
\* replace it: none has a token to store, and none was told that there is none.
TokenIsKept ==
    shown # ABSENT /\ ~contended =>
        /\ stored.feed_token = shown
        /\ cache.feed_token # BLANK
        /\ \A r \in Client : LeavesToken(r)

TokenInv == TokenIsFresh /\ TokenIsKept

\* One request moves, and neither table nor cache does.
LEMMA OneLeavesToken ==
    ASSUME TypeInv, TokenInv, NEW r \in Client, NEW c, call' = [call EXCEPT ![r] = c],
           call[r].pc # "invalidate", UNCHANGED <<stored, cache, overtaken>>,
           UNCHANGED <<shown, contended>> \/ shown' = ABSENT,
           shown' # ABSENT /\ ~contended' => LeavesToken(r)'
    PROVE  TokenInv'
<1>1. ASSUME NEW o \in Client, o # r
      PROVE  LeavesToken(o)' = LeavesToken(o) /\ call'[o] = call[o]
  BY <1>1 DEF TypeInv, TypeOK, SettingsTypeOK, LeavesToken
<1>2. TokenIsKept'
  BY <1>1 DEF TokenInv, TokenIsKept
<1>3. TokenIsFresh'
  <2> SUFFICES ASSUME cache # Empty, ~overtaken, cache.feed_token # Merge(stored).feed_token
               PROVE  \E o \in Client : call'[o].pc = "invalidate" /\ ~LeavesToken(o)'
    BY DEF TokenIsFresh, Merge
  <2>1. PICK o \in Client : call[o].pc = "invalidate" /\ ~LeavesToken(o)
    BY DEF TokenInv, TokenIsFresh
  <2> QED BY <1>1, <2>1
<1> QED BY <1>2, <1>3 DEF TokenInv

\* A request that got the settings it returns from the table or the cache: what
\* it shows is stored unless somebody contends, and a request that is told of
\* no token was told so while the user held none.
LEMMA GotToken ==
    ASSUME TypeInv, TokenInv, NEW r \in Client, NEW settings \in Merged, Got(r, settings),
           UNCHANGED stored, cache' = settings,
           settings.feed_token = BLANK => shown = ABSENT \/ contended,
           ~overtaken' =>
               \/ settings.feed_token = Merge(stored).feed_token
               \/ \E o \in Others(r) : call[o].pc = "invalidate" /\ ~LeavesToken(o),
           settings.feed_token # BLANK => settings.feed_token \in Token
    PROVE  TokenInv'
<1>1. call \in [Client -> Call] /\ stored \in Row
  BY DEF TypeInv, TypeOK, SettingsTypeOK
<1>2. PICK c : call' = [call EXCEPT ![r] = c]
  BY DEF Got, Finish
<1>3. ASSUME NEW o \in Others(r)
      PROVE  o \in Client /\ call'[o] = call[o] /\ LeavesToken(o)' = LeavesToken(o)
  BY <1>1, <1>2, <1>3 DEF Others, LeavesToken
<1>4. TokenIsFresh'
  <2> SUFFICES ASSUME ~overtaken', settings.feed_token # Merge(stored).feed_token
               PROVE  \E o \in Client : call'[o].pc = "invalidate" /\ ~LeavesToken(o)'
    BY DEF TokenIsFresh, Merge
  <2> QED BY <1>3
<1>5. TokenIsKept'
  <2> SUFFICES ASSUME shown' # ABSENT, ~contended'
               PROVE  /\ stored.feed_token = shown' /\ settings.feed_token # BLANK
                      /\ \A o \in Client : LeavesToken(o)'
    BY DEF TokenIsKept
  <2>1. Finish(r, settings) /\ settings.feed_token # BLANK
    BY DEF Got, Finish
  <2>2. call'[r] = NoCall
    BY <1>1, <2>1 DEF Finish
  <2>3. LeavesToken(r)'
    BY <2>2, NoCallType, NoBodyType DEF LeavesToken
  <2>4. CASE UNCHANGED <<shown, contended>>
    BY <1>3, <2>1, <2>3, <2>4 DEF TokenInv, TokenIsKept, Others
  <2>5. CASE /\ ~overtaken' /\ shown' = settings.feed_token
             /\ contended' = \E o \in Others(r) : ~LeavesToken(o)
    <3>1. \A o \in Others(r) : LeavesToken(o)
      BY <2>5
    <3>2. settings.feed_token = Merge(stored).feed_token
      BY <2>5, <3>1
    <3>3. stored.feed_token = settings.feed_token
      BY <1>1, <2>1, <3>2, MergeType
    <3> QED BY <1>3, <2>1, <2>3, <2>5, <3>1, <3>3 DEF Others
  <2> QED BY <2>1, <2>4, <2>5 DEF Finish
<1> QED BY <1>4, <1>5 DEF TokenInv

LEMMA UseSettingsToken ==
    ASSUME TypeInv, TokenInv, NEW r \in Client, call[r].pc = "idle",
           Ask(r) \/ AskCached(r) \/ ChangeSettings(r)
    PROVE  TokenInv'
<1>1. call[r] \in Call /\ stored \in Row /\ call \in [Client -> Call]
  BY DEF TypeInv, TypeOK, SettingsTypeOK
<1>2. CASE Ask(r)
  <2> DEFINE c == [NoCall EXCEPT !.pc = "select"]
  <2>1. c.pc = "select" /\ c.body.feed_token = LEFT_OUT
    BY NoCallType, NoBodyType DEF Call
  <2>2. call' = [call EXCEPT ![r] = c]
    BY <1>2 DEF Ask
  <2> HIDE DEF c
  <2>3. LeavesToken(r)'
    BY <1>1, <2>1, <2>2 DEF LeavesToken
  <2> QED BY <1>2, <2>2, <2>3, OneLeavesToken DEF Ask
<1>3. CASE AskCached(r)
  <2>1. cache \in Merged /\ cache # Empty /\ Got(r, cache) /\ UNCHANGED <<stored, cache, overtaken>>
    BY <1>3 DEF AskCached, TypeInv, TypeOK, SettingsTypeOK
  <2>2. ~overtaken' =>
            \/ cache.feed_token = Merge(stored).feed_token
            \/ \E o \in Others(r) : call[o].pc = "invalidate" /\ ~LeavesToken(o)
    BY <2>1 DEF TokenInv, TokenIsFresh, Others
  <2>3. cache.feed_token = BLANK => shown = ABSENT \/ contended
    BY DEF TokenInv, TokenIsKept
  <2>4. cache.feed_token # BLANK => cache.feed_token \in Token
    BY <2>1 DEF Merged
  <2> QED BY <2>1, <2>2, <2>3, <2>4, GotToken
<1>4. ASSUME NEW op, NEW body \in Body, Write(r, op, body)
      PROVE  TokenInv'
  <2> DEFINE c == [NoCall EXCEPT !.pc = "load", !.op = op, !.body = body,
                                 !.stage = IF op = "put" THEN "final" ELSE "check"]
  <2>1. c.pc = "load" /\ c.body = body
    BY DEF NoCall
  <2>2. call' = [call EXCEPT ![r] = c]
    BY <1>4 DEF Write
  <2> HIDE DEF c
  <2>3. body.feed_token = LEFT_OUT => LeavesToken(r)'
    BY <1>1, <2>1, <2>2 DEF LeavesToken
  <2>4. UNCHANGED <<shown, contended>> \/ shown' = ABSENT
    BY <1>4 DEF Write
  <2>5. shown' # ABSENT => body.feed_token = LEFT_OUT
    BY <1>4 DEF Write
  <2> QED BY <1>4, <2>2, <2>3, <2>4, <2>5, OneLeavesToken DEF Write
<1>5. CASE ChangeSettings(r)
  <2>1. CASE Write(r, "regenerate", [NoBody EXCEPT !.feed_token = BLANK])
    BY <1>4, <2>1, NoBodyType
  <2>2. CASE \E b \in Bodies : Write(r, "put", b)
    BY <1>4, <2>2 DEF Bodies
  <2> QED BY <1>5, <2>1, <2>2 DEF ChangeSettings
<1> QED BY <1>2, <1>3, <1>5

LEMMA SettingsStepToken ==
    ASSUME TypeInv, TokenInv, NEW r \in Client, SettingsStep(r)
    PROVE  TokenInv'
<1>1. call \in [Client -> Call] /\ call[r] \in Call /\ stored \in Row
  BY DEF TypeInv, TypeOK, SettingsTypeOK
<1>2. CASE LoadRows(r)
  <2> DEFINE c == [call[r] EXCEPT !.pc = "commit", !.seen = stored]
  <2>1. c.pc = "commit" /\ c.body = call[r].body
    BY <1>1 DEF Call
  <2>2. call' = [call EXCEPT ![r] = c]
    BY <1>2 DEF LoadRows
  <2> HIDE DEF c
  <2>3. shown' # ABSENT /\ ~contended' => LeavesToken(r)'
    BY <1>1, <1>2, <2>1, <2>2 DEF LoadRows, LeavesToken, TokenInv, TokenIsKept
  <2> QED BY <1>2, <2>2, <2>3, OneLeavesToken DEF LoadRows
<1>3. CASE CommitRows(r)
  <2> DEFINE c == [call[r] EXCEPT !.pc = "invalidate", !.seen = Empty]
  <2>1. c.pc = "invalidate" /\ c.body = call[r].body
    BY <1>1 DEF Call
  <2>2. CASE call' = [call EXCEPT ![r] = NoCall] /\ UNCHANGED stored
    <3>1. LeavesToken(r)'
      BY <1>1, <2>2, NoCallType, NoBodyType DEF LeavesToken
    <3> QED BY <1>3, <2>2, <3>1, OneLeavesToken DEF CommitRows
  <2>3. CASE stored' = Flushed(call[r].body, call[r].seen) /\ call' = [call EXCEPT ![r] = c]
    <3> HIDE DEF c
    <3>1. UNCHANGED <<cache, overtaken, shown, contended>> /\ call'[r] = c
      BY <1>1, <1>3, <2>3 DEF CommitRows
    <3>2. LeavesToken(r) => stored'.feed_token = stored.feed_token
      BY <1>1, <2>3, FlushedType DEF Call, LeavesToken
    <3>3. LeavesToken(r)' = LeavesToken(r)
      BY <1>3, <2>1, <3>1 DEF LeavesToken, CommitRows
    <3>4. ASSUME NEW o \in Client, o # r
          PROVE  LeavesToken(o)' = LeavesToken(o) /\ call'[o] = call[o]
      BY <1>1, <2>3, <3>4 DEF LeavesToken
    <3>5. TokenIsKept'
      BY <3>1, <3>2, <3>3, <3>4 DEF TokenInv, TokenIsKept
    <3>6. CASE LeavesToken(r)
      <4>1. stored' \in Row
        BY <1>1, <2>3, FlushedType DEF Call
      <4>2. Merge(stored').feed_token = Merge(stored).feed_token
        BY <1>1, <3>2, <3>6, <4>1, MergeType
      <4>3. Merge(stored)' = Merge(stored')
        BY DEF Merge
      <4> SUFFICES ASSUME cache # Empty, ~overtaken, cache.feed_token # Merge(stored).feed_token
                   PROVE  \E o \in Client : call'[o].pc = "invalidate" /\ ~LeavesToken(o)'
        BY <3>1, <3>5, <4>2, <4>3 DEF TokenInv, TokenIsFresh
      <4>4. PICK o \in Client : call[o].pc = "invalidate" /\ ~LeavesToken(o)
        BY DEF TokenInv, TokenIsFresh
      <4> QED BY <3>4, <3>6, <4>4
    <3>7. CASE ~LeavesToken(r)
      <4>1. call'[r].pc = "invalidate" /\ ~LeavesToken(r)'
        BY <2>1, <3>1, <3>3, <3>7
      <4> QED BY <3>5, <4>1 DEF TokenInv, TokenIsFresh
    <3> QED BY <3>6, <3>7
  <2> QED BY <1>3, <2>2, <2>3 DEF CommitRows
<1>4. CASE Invalidate(r)
  <2>1. cache' = Empty /\ UNCHANGED <<stored, shown, contended>>
    BY <1>4 DEF Invalidate
  <2>2. call'[r].pc = "select" /\ call'[r].body = NoBody /\ \A o \in Client : o # r => call'[o] = call[o]
    BY <1>1, <1>4 DEF Invalidate, Call
  <2>3. shown # ABSENT /\ ~contended => \A o \in Client : LeavesToken(o)'
    BY <2>2, NoBodyType DEF TokenInv, TokenIsKept, LeavesToken
  <2>4. Empty.feed_token # BLANK
    BY EmptyType DEF ABSENT, BLANK
  <2>5. TokenIsKept'
    BY <2>1, <2>3, <2>4 DEF TokenInv, TokenIsKept
  <2>6. Empty' = Empty
    BY DEF Empty
  <2> QED BY <2>1, <2>5, <2>6 DEF TokenInv, TokenIsFresh
<1>5. CASE Select(r)
  <2> DEFINE c == [call[r] EXCEPT !.pc = "assign", !.seen = Merge(stored)]
  <2>1. c.pc = "assign" /\ c.seen = Merge(stored) /\ c.body = call[r].body
    BY <1>1 DEF Call
  <2>2. call' = [call EXCEPT ![r] = c] /\ UNCHANGED <<stored, cache, overtaken, shown, contended>>
    BY <1>5 DEF Select
  <2> HIDE DEF c
  <2>3. ASSUME shown # ABSENT, ~contended PROVE LeavesToken(r)'
    <3>1. stored.feed_token \in Token /\ LeavesToken(r)
      BY <2>3 DEF TokenInv, TokenIsKept, TypeInv, TypeOK, SettingsTypeOK
    <3>2. Merge(stored).feed_token # BLANK
      BY <1>1, <3>1, MergeType, SettingsAssumption DEF ABSENT, BLANK
    <3> QED BY <1>1, <2>1, <2>2, <3>1, <3>2 DEF LeavesToken
  <2>4. call[r].pc # "invalidate"
    BY <1>5 DEF Select
  <2> QED BY <2>2, <2>3, <2>4, OneLeavesToken
<1>6. CASE Assign(r)
  <2> DEFINE settings == call[r].seen
  <2>1. /\ settings \in Merged /\ Got(r, settings) /\ cache' = settings /\ UNCHANGED stored
        /\ overtaken' = (settings # Merge(stored))
    BY <1>6 DEF Assign, TypeInv, Shaped
  <2>2. settings.feed_token = BLANK => shown = ABSENT \/ contended
    BY <1>6 DEF Assign, TokenInv, TokenIsKept, LeavesToken
  <2>3. settings.feed_token # BLANK => settings.feed_token \in Token
    BY <2>1 DEF Merged
  <2> HIDE DEF settings
  <2> QED BY <2>1, <2>2, <2>3, GotToken
<1> QED BY <1>2, <1>3, <1>4, <1>5, <1>6 DEF SettingsStep

\* THEOREM: a subscribe URL that a request returned from a cache that was not
\* overtaken, while no other request was replacing the token or had found none,
\* keeps working until the user asks for another token, whatever requests
\* follow and however often the process restarts (ensure_feed_token,
\* regenerate_token, lifespan).
THEOREM TokenStored == Spec => []ShownTokenIsStored
<1>1. Init => TokenInv
  BY DEF Init, SettingsInit, TokenInv, TokenIsFresh, TokenIsKept
<1>2. TypeInv /\ TokenInv /\ [Next]_vars => TokenInv'
  <2> SUFFICES ASSUME TypeInv, TokenInv, [Next]_vars PROVE TokenInv'
    OBVIOUS
  <2> USE ServiceAssumption
  <2>1. CASE UNCHANGED settingsVars
    <3>1. UNCHANGED <<stored, cache, overtaken, call, shown, contended>>
      BY <2>1 DEF settingsVars
    <3> QED BY <3>1 DEF TokenInv, TokenIsFresh, TokenIsKept, LeavesToken, Merge, Empty
  <2>2. ASSUME NEW r \in User, UseSettings(r) PROVE TokenInv'
    BY <2>2, UseSettingsToken DEF UseSettings, Idle
  <2>3. ASSUME NEW r \in User, SettingsStep(r) PROVE TokenInv'
    BY <2>3, SettingsStepToken
  <2>4. CASE Restart
    <3>1. /\ UNCHANGED <<shown, contended>> /\ cache' = Merge(stored') /\ stored' \in Row
          /\ stored.feed_token \in Token => stored' = stored
      BY <2>4, RestartRows DEF Restart, SettingsRestart
    <3>2. \A r \in Client : LeavesToken(r)'
      BY <2>4, NoCallType, NoBodyType DEF Restart, SettingsRestart, LeavesToken
    <3>3. TokenIsFresh'
      BY <3>1 DEF TokenIsFresh, Merge
    <3>4. ASSUME shown # ABSENT, ~contended
          PROVE  stored'.feed_token = shown /\ cache'.feed_token # BLANK
      <4>1. stored.feed_token = shown /\ shown \in Token
        BY <3>4 DEF TokenInv, TokenIsKept, TypeInv, TypeOK, SettingsTypeOK
      <4> QED BY <3>1, <4>1, MergeType, SettingsAssumption DEF ABSENT, BLANK
    <3> QED BY <3>1, <3>2, <3>3, <3>4 DEF TokenInv, TokenIsKept
  <2> QED BY <2>1, <2>2, <2>3, <2>4 DEF Next, UseLogin, Serve, vars
<1>3. TokenInv => ShownTokenIsStored
  BY DEF TokenInv, TokenIsKept, ShownTokenIsStored
<1> QED BY <1>1, <1>2, <1>3, TypesHold, PTL DEF Spec
=============================================================================
