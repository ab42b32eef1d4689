------------------------------ MODULE Service -------------------------------
(***************************************************************************)
(* One process serves the settings, the feeds and the login: the           *)
(* composition of Settings and Auth over the same settings table and the   *)
(* same requests, started and restarted by the lifespan of                 *)
(* backend/hushcast/main.py.  The rows of the login are kept under keys    *)
(* that settings_store does not know, so neither module touches the        *)
(* other's rows; what they share is the process.                           *)
(***************************************************************************)
EXTENDS Settings, Auth

CONSTANT User           \* requests that may be in flight at once

ASSUME ServiceAssumption == Client = User /\ Visitor = User

vars == <<settingsVars, authVars>>

TypeOK == SettingsTypeOK /\ AuthTypeOK

Init == SettingsInit /\ AuthInit

Idle(r) == call[r].pc = "idle" /\ visit[r].pc = "idle"

\* auth_guard: /api requests need a session, except those of the login page
\* and the public routes, which begin with ensure_feed_token like a read.
Authorised == \E key \in sessions : Verifies(key)

\* An API or public request on the settings.
UseSettings(r) ==
    /\ Idle(r)
    /\ Ask(r) \/ AskCached(r) \/ (Authorised /\ ChangeSettings(r))
    /\ UNCHANGED authVars

UseLogin(r) ==
    /\ Idle(r)
    /\ AuthRequest(r)
    /\ UNCHANGED settingsVars

Serve(r) ==
    \/ SettingsStep(r) /\ UNCHANGED authVars
    \/ AuthStep(r) /\ UNCHANGED settingsVars

\* The process dies, or is stopped, and starts again.
Restart == SettingsRestart /\ Refresh

Next ==
    \/ \E r \in User : UseSettings(r) \/ UseLogin(r) \/ Serve(r)
    \/ \E key \in sessions : Logout(key) /\ UNCHANGED settingsVars
    \/ Restart

Spec == Init /\ [][Next]_vars
-----------------------------------------------------------------------------
\* PROPERTIES

\* Stateless sessions outlive a restart: the browsers that are logged in stay
\* so and no other is, unless credentials were being replaced just then
\* (refresh, _derive_key).
RestartKeepsLogins ==
    [][Restart => \/ LoggedIn' = LoggedIn
                  \/ crossed
                  \/ \E r \in User : visit[r].pc = "assign"]_vars
=============================================================================
