-------------------------------- MODULE Auth --------------------------------
(***************************************************************************)
(* The login of the web UI (backend/hushcast/auth.py): the credential rows *)
(* of the settings table, the module-level cache of the user name and the  *)
(* signing key, and the stateless sessions signed with that key.           *)
(*                                                                         *)
(* The signing key is derived from the stored password hash, so a hash     *)
(* stands for the key; a hash is a password and a salt.  The secret file   *)
(* the key also depends on never changes.  Expiry is left out: it only     *)
(* takes sessions away.                                                    *)
(***************************************************************************)
EXTENDS Integers, FiniteSets

CONSTANTS
    Visitor,        \* requests that may be in flight at once
    Username,
    Password,
    Salt            \* bound: the salts that can be drawn

ASSUME AuthAssumption == "none" \notin Username

VARIABLES
    creds,          \* the rows auth_username and auth_password_hash
    known,          \* _username and _signing_key
    visit,          \* what each request is doing
    sessions,       \* the keys under which the cookies of browsers are signed
    crossed         \* history: a request assigned its credentials after another commit

authVars == <<creds, known, visit, sessions, crossed>>

NONE   == "none"
Hash   == [password : Password, salt : Salt]
NoHash == [password |-> NONE, salt |-> NONE]

Credentials == [username : Username, hash : Hash]
NoCreds     == [username |-> NONE, hash |-> NoHash]

\* "username" and "given" are those of the request, "new" the password to
\* store and "hash" its hash once made; "seen" are the rows as read.
Visit == [pc : {"idle", "login", "verify", "load", "commit", "assign"},
          username : Username \union {NONE}, given : Password \union {NONE},
          new : Password \union {NONE}, hash : Hash \union {NoHash},
          seen : Credentials \union {NoCreds}]
NoVisit == [pc |-> "idle", username |-> NONE, given |-> NONE, new |-> NONE,
            hash |-> NoHash, seen |-> NoCreds]

Target(r) == [username |-> visit[r].username, hash |-> visit[r].hash]

AuthTypeOK ==
    /\ creds \in Credentials \union {NoCreds}
    /\ known \in Credentials \union {NoCreds}
    /\ visit \in [Visitor -> Visit]
    /\ sessions \subseteq Hash
    /\ crossed \in BOOLEAN

AuthInit ==
    /\ creds = NoCreds
    /\ known = NoCreds
    /\ visit = [r \in Visitor |-> NoVisit]
    /\ sessions = {}
    /\ crossed = FALSE

-----------------------------------------------------------------------------
Mode == IF known = NoCreds THEN "setup" ELSE "login"

\* verify_token: the cookie was signed with the key in use.
Verifies(key) == known # NoCreds /\ known.hash = key

\* The browsers whose cookie verifies.
LoggedIn == {key \in sessions : Verifies(key)}

\* hash_password: a salt nobody has.
FreshHashes(password) ==
    {h \in Hash :
        /\ h.password = password
        /\ h \notin sessions \union {creds.hash, known.hash}
        /\ \A r \in Visitor : h \notin {visit[r].hash, visit[r].seen.hash}}

\* _store_credentials begins: the hash is made, the rows are not yet loaded.
Store(r, username, password) ==
    \E h \in FreshHashes(password) :
        visit' = [visit EXCEPT ![r] = [NoVisit EXCEPT !.pc = "load",
                                                    !.username = username, !.hash = h]]

\* POST /setup: only while there are no credentials.
Setup(r, username, password) ==
    /\ visit[r].pc = "idle"
    /\ Mode = "setup"
    /\ Store(r, username, password)
    /\ UNCHANGED <<creds, known, sessions, crossed>>

\* POST /login: the stored hash is read ...
Login(r, username, password) ==
    /\ visit[r].pc = "idle"
    /\ Mode = "login"
    /\ visit' = [visit EXCEPT ![r] = [NoVisit EXCEPT !.pc = "login", !.seen = creds,
                                                     !.username = username, !.given = password]]
    /\ UNCHANGED <<creds, known, sessions, crossed>>

\* ... and compared; the cookie is signed with the key that is cached then.
LoginAnswer(r) ==
    /\ visit[r].pc = "login"
    /\ sessions' = IF /\ visit[r].username = known.username
                      /\ visit[r].seen.hash.password = visit[r].given
                   THEN sessions \union {known.hash} ELSE sessions
    /\ visit' = [visit EXCEPT ![r] = NoVisit]
    /\ UNCHANGED <<creds, known, crossed>>

\* POST /change, behind a session: the stored hash is read ...
Change(r, key, username, current, new) ==
    /\ visit[r].pc = "idle"
    /\ key \in sessions /\ Verifies(key)
    /\ visit' = [visit EXCEPT ![r] = [NoVisit EXCEPT !.pc = "verify", !.seen = creds, !.given = current,
                                                     !.username = username, !.new = new]]
    /\ UNCHANGED <<creds, known, sessions, crossed>>

\* ... compared with the current password; then the new credentials are stored.
ChangeVerified(r) ==
    /\ visit[r].pc = "verify"
    /\ IF visit[r].seen.hash.password = visit[r].given
       THEN Store(r, visit[r].username, visit[r].new)
       ELSE visit' = [visit EXCEPT ![r] = NoVisit]
    /\ UNCHANGED <<creds, known, sessions, crossed>>

\* _store_credentials: session.get of both rows ...
LoadCreds(r) ==
    /\ visit[r].pc = "load"
    /\ visit' = [visit EXCEPT ![r].pc = "commit", ![r].seen = creds]
    /\ UNCHANGED <<creds, known, sessions, crossed>>

\* ... their commit: rows that appeared meanwhile make the inserts fail, and
\* a user name that is as loaded is not written ...
CommitCreds(r) ==
    LET want == Target(r)
        seen == visit[r].seen
    IN
    /\ visit[r].pc = "commit"
    /\ IF seen = NoCreds /\ creds # NoCreds
       THEN visit' = [visit EXCEPT ![r] = NoVisit] /\ UNCHANGED creds
       ELSE /\ creds' = [username |-> IF want.username = seen.username THEN creds.username ELSE want.username,
                         hash |-> want.hash]
            /\ visit' = [visit EXCEPT ![r].pc = "assign"]
    /\ UNCHANGED <<known, sessions, crossed>>

AssignNothing(r) ==  \* mutant: the cache is filled at startup only
    /\ visit[r].pc = "assign"
    /\ crossed' = FALSE
    /\ visit' = [visit EXCEPT ![r] = NoVisit]
    /\ UNCHANGED <<creds, known, sessions>>

\* ... and the assignment to the cache, with a cookie under the new key.
AssignCreds(r) ==
    /\ visit[r].pc = "assign"
    /\ known' = Target(r)
    /\ crossed' = (Target(r) # creds)
    /\ sessions' = sessions \union {visit[r].hash}
    /\ visit' = [visit EXCEPT ![r] = NoVisit]
    /\ UNCHANGED creds

\* POST /logout deletes the browser's cookie; nothing is revoked.
Logout(key) ==
    /\ key \in sessions
    /\ sessions' = sessions \ {key}
    /\ UNCHANGED <<creds, known, visit, crossed>>

AuthRequest(r) ==
    \/ \E u \in Username, p \in Password : Setup(r, u, p) \/ Login(r, u, p)
    \/ \E key \in sessions, u \in Username, p, q \in Password : Change(r, key, u, p, q)

AuthStep(r) ==
    \/ LoginAnswer(r)
    \/ ChangeVerified(r)
    \/ LoadCreds(r)
    \/ CommitCreds(r)
    \/ AssignCreds(r)

RefreshNothing ==  \* mutant: the cache is filled by logins only
    /\ known' = NoCreds
    /\ visit' = [r \in Visitor |-> NoVisit]
    /\ crossed' = FALSE
    /\ UNCHANGED <<creds, sessions>>

\* lifespan: refresh loads the rows into the cache.
Refresh ==
    /\ known' = creds
    /\ visit' = [r \in Visitor |-> NoVisit]
    /\ crossed' = FALSE
    /\ UNCHANGED <<creds, sessions>>

-----------------------------------------------------------------------------
\* PROPERTIES

\* The cached credentials are the stored ones, unless a request is between
\* its commit and its assignment or two of them crossed there
\* (_store_credentials, refresh).
KnownIsStored ==
    known # creds => crossed \/ \E r \in Visitor : visit[r].pc = "assign"
=============================================================================
