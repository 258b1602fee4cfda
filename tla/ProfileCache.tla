----------------------------- MODULE ProfileCache -----------------------------
(***************************************************************************)
(* The autofill profile on its way from user_profiles to a form: the API's *)
(* GET and PATCH /v1/extension/profile, the router's CACHED_PROFILE with   *)
(* its time to live, the autofill and the AI fill, which take the profile  *)
(* from there, and SettingsPanel, which loads and saves through the same   *)
(* router.  The cache does not say whose profile it holds.                 *)
(***************************************************************************)
EXTENDS Integers, FiniteSets

CONSTANTS
  User,            \* users of the browser, one after the other
  NoUser,          \* nobody
  Load,            \* messages in the router at once
  TTL,             \* PROFILE_CACHE_TTL_MS
  MaxProfileTime,  \* bound: the clock
  MaxEdits,        \* bound: versions of a profile
  MaxSwitches      \* bound: sign-ins and sign-outs

ASSUME ProfileCacheAssumption ==
  /\ NoUser \notin User
  /\ TTL \in Nat /\ MaxProfileTime \in Nat
  /\ MaxEdits \in Nat /\ MaxSwitches \in Nat

VARIABLES
  now,       \* the time
  account,   \* the user whose token is stored
  switches,  \* sign-ins and sign-outs so far
  leftAt,    \* history: when a user's token was last there
  row,       \* user_profiles, where there is a row: its version; 0 without one
  replaced,  \* history: when a version of a profile was replaced
  cached,    \* CACHED_PROFILE: whose it is, its version, cachedAt
  loads,     \* REQUEST_PROFILE, REQUEST_AUTOFILL, REQUEST_PROFILE_UPDATE in the router
  settings   \* SettingsPanel's state; "closed" without a panel

signedIn  == <<account, switches, leftAt>>
server   == <<row, replaced>>
profileVars == <<now, signedIn, server, cached, loads, settings>>

Version == 0 .. MaxEdits
NoEntry == [user |-> NoUser, version |-> 0, at |-> 0]
NoLoad  == [kind |-> "none", step |-> "none", user |-> NoUser, version |-> 0, mine |-> FALSE]

ProfileTypeOK ==
  /\ now \in 0 .. MaxProfileTime
  /\ account \in User \cup {NoUser} /\ switches \in 0 .. MaxSwitches
  /\ leftAt \in [User -> 0 .. MaxProfileTime]
  /\ row \in [User -> Version]
  /\ replaced \in [User -> [Version -> 0 .. MaxProfileTime]]
  /\ cached \in [user : User \cup {NoUser}, version : Version, at : 0 .. MaxProfileTime]
  /\ loads \in [Load -> [kind : {"none", "get", "patch"},
                         step : {"none", "sent", "row", "noRow", "written", "read"},
                         user : User \cup {NoUser}, version : Version, mine : BOOLEAN]]
  /\ settings \in {"closed", "loading", "ready", "saving", "saved", "error"}

ProfileInit ==
  /\ now = 0
  /\ account = NoUser /\ switches = 0 /\ leftAt = [u \in User |-> 0]
  /\ row = [u \in User |-> 0]
  /\ replaced = [u \in User |-> [v \in Version |-> 0]]
  /\ cached = NoEntry
  /\ loads = [l \in Load |-> NoLoad]
  /\ settings = "closed"

Go(l, step) == loads' = [loads EXCEPT ![l].step = step]

\* The answer to the sender; a panel takes it if it is still the one that asked.
Answer(l, state) ==
  /\ loads' = [loads EXCEPT ![l] = NoLoad]
  /\ settings' = IF loads[l].mine THEN state ELSE settings

-----------------------------------------------------------------------------
(* The user: signs in, signs out, edits the profile on the web.            *)

Switch(u) ==
  /\ u # account
  /\ switches < MaxSwitches
  /\ account' = u /\ switches' = switches + 1
  /\ leftAt' = IF account = NoUser THEN leftAt ELSE [leftAt EXCEPT ![account] = now]
  /\ UNCHANGED <<now, server, cached, loads, settings>>

WriteRow(u) ==
  /\ row[u] < MaxEdits
  /\ row' = [row EXCEPT ![u] = @ + 1]
  /\ replaced' = [replaced EXCEPT ![u][row[u]] = now]

\* The web's user profile, or a new resume.
EditElsewhere(u) ==
  /\ WriteRow(u)
  /\ UNCHANGED <<now, signedIn, cached, loads, settings>>

-----------------------------------------------------------------------------
(* The router, and the API behind it.                                      *)

Fresh == cached # NoEntry /\ now - cached.at <= TTL

Send(l, kind, mine) ==
  loads' = [loads EXCEPT ![l] =
    [kind |-> kind, step |-> "sent", user |-> account, version |-> 0, mine |-> mine]]

\* resolveProfile for the settings panel (mine) or for a fill: the cache, or a
\* GET with the token that is stored now.
Resolve(l, mine, loaded, failed) ==
  /\ loads[l] = NoLoad
  /\ \/ /\ Fresh
        /\ settings' = loaded
        /\ UNCHANGED loads
     \/ /\ ~Fresh /\ account = NoUser
        /\ settings' = failed
        /\ UNCHANGED loads
     \/ /\ ~Fresh /\ account # NoUser
        /\ Send(l, "get", mine)
        /\ settings' = IF mine THEN "loading" ELSE settings
  /\ UNCHANGED <<now, signedIn, server, cached>>

Fill(l) == Resolve(l, FALSE, settings, settings)

OpenSettings(l) ==
  /\ settings = "closed"
  /\ Resolve(l, TRUE, "ready", "error")

Retry(l) ==
  /\ settings = "error"
  /\ Resolve(l, TRUE, "ready", "error")

\* Back: the panel is gone, its messages are not.
CloseSettings ==
  /\ settings # "closed"
  /\ settings' = "closed"
  /\ loads' = [l \in Load |-> [loads[l] EXCEPT !.mine = FALSE]]
  /\ UNCHANGED <<now, signedIn, server, cached>>

\* handleSave: REQUEST_PROFILE_UPDATE.
Save(l) ==
  /\ settings = "ready"
  /\ loads[l] = NoLoad
  /\ IF account = NoUser
       THEN settings' = "error" /\ UNCHANGED loads
       ELSE settings' = "saving" /\ Send(l, "patch", TRUE)
  /\ UNCHANGED <<now, signedIn, server, cached>>

\* updateProfile: is there a row?
SelectRow(l) ==
  /\ loads[l].kind = "patch" /\ loads[l].step = "sent"
  /\ Go(l, IF row[loads[l].user] = 0 THEN "noRow" ELSE "row")
  /\ UNCHANGED <<now, signedIn, server, cached, settings>>

\* UPDATE, or INSERT, which the unique user_id refuses when a row has come.
UpdateOrInsert(l) ==
  /\ loads[l].step \in {"row", "noRow"}
  /\ IF loads[l].step = "noRow" /\ row[loads[l].user] # 0
       THEN Answer(l, "error") /\ UNCHANGED server
       ELSE WriteRow(loads[l].user) /\ Go(l, "written") /\ UNCHANGED settings
  /\ UNCHANGED <<now, signedIn, cached>>

\* getProfile.
GetProfile(l) ==
  /\ <<loads[l].kind, loads[l].step>> \in {<<"get", "sent">>, <<"patch", "written">>}
  /\ loads' = [loads EXCEPT ![l].step = "read", ![l].version = row[loads[l].user]]
  /\ UNCHANGED <<now, signedIn, server, cached, settings>>

\* Mutant: the entry is dated with the end of its life.
ArriveAsExpiry(l) ==
  /\ loads[l].step = "read"
  /\ cached' = [user |-> loads[l].user, version |-> loads[l].version, at |-> now + TTL]
  /\ Answer(l, IF loads[l].kind = "get" THEN "ready" ELSE "saved")
  /\ UNCHANGED <<now, signedIn, server>>

\* Mutant: the server's clock is ahead.
ArriveAhead(l) ==
  /\ loads[l].step = "read"
  /\ cached' = [user |-> loads[l].user, version |-> loads[l].version,
                at |-> IF now < MaxProfileTime THEN now + 1 ELSE now]
  /\ Answer(l, IF loads[l].kind = "get" THEN "ready" ELSE "saved")
  /\ UNCHANGED <<now, signedIn, server>>

\* writeCachedProfile, dated when the answer arrives, whoever is signed in by
\* then and whatever has been cached meanwhile; then the answer.
Arrive(l) ==
  /\ loads[l].step = "read"
  /\ cached' = [user |-> loads[l].user, version |-> loads[l].version, at |-> now]
  /\ Answer(l, IF loads[l].kind = "get" THEN "ready" ELSE "saved")
  /\ UNCHANGED <<now, signedIn, server>>

\* Mutant: the panel is not told.
FailSilently(l) ==
  /\ loads[l] # NoLoad
  /\ loads' = [loads EXCEPT ![l] = NoLoad]
  /\ UNCHANGED <<now, signedIn, server, cached, settings>>

\* A network error, a 401, a 5xx, an invalid answer, or no service worker.
Fail(l) ==
  /\ loads[l] # NoLoad
  /\ Answer(l, "error")
  /\ UNCHANGED <<now, signedIn, server, cached>>

\* The timer of 1.5 s.
EndSaved ==
  /\ settings = "saved"
  /\ settings' = "ready"
  /\ UNCHANGED <<now, signedIn, server, cached, loads>>

\* A call takes less than a unit of time.
ProfileTick ==
  /\ now < MaxProfileTime
  /\ \A l \in Load : loads[l] = NoLoad
  /\ now' = now + 1
  /\ UNCHANGED <<signedIn, server, cached, loads, settings>>

ProfileNext ==
  \/ \E u \in User \cup {NoUser} : Switch(u)
  \/ \E u \in User : EditElsewhere(u)
  \/ \E l \in Load :
       \/ Fill(l) \/ OpenSettings(l) \/ Retry(l) \/ Save(l)
       \/ SelectRow(l) \/ UpdateOrInsert(l) \/ GetProfile(l) \/ Arrive(l) \/ Fail(l)
  \/ CloseSettings \/ EndSaved
  \/ ProfileTick

ProfileSpec == ProfileInit /\ [][ProfileNext]_profileVars

-----------------------------------------------------------------------------
(* Correctness.                                                            *)

\* A version that is on the server, or was so long ago at most; a user who is
\* signed in, or was so long ago at most.
Held(u, v, long)  == v = row[u] \/ now - replaced[u][v] <= long
Signed(u, long)   == u = account \/ now - leftAt[u] <= long

(***************************************************************************)
(* constants.ts:47-63: what a form is filled with was on the server, and   *)
(* belonged to the user signed in, no longer ago than the time to live: the *)
(* cache may be written with a version that has been replaced meanwhile,   *)
(* or with the profile of the user before, but no late write makes either  *)
(* live longer.                                                            *)
(***************************************************************************)
StalenessIsBounded ==
  /\ Fresh => Held(cached.user, cached.version, TTL) /\ Signed(cached.user, TTL)
  /\ \A l \in Load : loads[l].step = "read" =>
       Held(loads[l].user, loads[l].version, 0) /\ Signed(loads[l].user, 0)

(***************************************************************************)
(* SettingsPanel.tsx:8-13: a panel that is loading or saving, and so       *)
(* locked, waits for exactly one answer, and no other panel has one to     *)
(* come: no late answer to an earlier request unlocks it.                  *)
(***************************************************************************)
SettingsWaitForOne ==
  LET mine == {l \in Load : loads[l].mine}
  IN /\ settings \in {"loading", "saving"} <=> mine # {}
     /\ \A l, k \in mine : l = k
     /\ \A l \in mine : loads[l].kind = IF settings = "saving" THEN "patch" ELSE "get"

(***************************************************************************)
(* message-router.ts:133-190 and SettingsPanel.tsx: nothing outlives the   *)
(* time to live, and the panel is locked for its own request only.         *)
(***************************************************************************)
ProfileIsCurrent == StalenessIsBounded /\ SettingsWaitForOne

=============================================================================
