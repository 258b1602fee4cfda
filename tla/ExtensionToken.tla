---------------------------- MODULE ExtensionToken ----------------------------
(***************************************************************************)
(* The bearer token of the browser extension, for one user and one         *)
(* browser: the rows of extension_tokens behind ExtensionAuthService and   *)
(* ExtensionAuthGuard, the two token keys in chrome.storage.local, the     *)
(* service worker that exchanges and refreshes, the side panel's AuthGate, *)
(* which learns of the storage by events and reads, and the two ways to    *)
(* sign out: in the panel and on the web.                                  *)
(*                                                                         *)
(* last_seen_at is left out: the code writes it and never reads it, so     *)
(* the server forgets no token by itself; only the client looks at a date. *)
(***************************************************************************)
EXTENDS Integers, Sequences

CONSTANTS
  Token,         \* the tokens that can be minted
  Call,          \* requests under way at once
  NoToken,       \* no token
  Lifetime,      \* TOKEN_LIFETIME_MS
  Threshold,     \* REFRESH_THRESHOLD_MS
  MaxTokenTime,  \* bound: the clock
  MaxSessions    \* bound: web sign-ins

ASSUME TokenAssumption ==
  /\ NoToken \notin Token
  /\ Lifetime \in Nat \ {0}
  /\ Threshold \in Nat
  /\ MaxTokenTime \in Nat
  /\ MaxSessions \in Nat

VARIABLES
  clock,      \* the time
  signIns,    \* web sessions so far, numbered 1, 2, ...
  session,    \* the web session that is valid; 0 for none
  leaving,    \* signOut() has been called and has not reached the server
  rows,       \* extension_tokens: "unused", "live" or "revoked"
  stored,     \* EXTENSION_TOKEN in chrome.storage.local
  expires,    \* TOKEN_EXPIRES_AT; 0 without one
  calls,      \* the requests under way
  asked,      \* a REQUEST_REFRESH message is on its way to the service worker
  gate,       \* AuthGate's state
  mounting,   \* AuthGate's initial check has not been answered
  clearing,   \* its clearTokenStorage() is on its way
  inbox,      \* storage events and answers to reads on their way to AuthGate
  closed      \* history: a sign-out has revoked everything, and no exchange
              \* passed the session check that was not finished by then

web     == <<signIns, session, leaving>>
store   == <<stored, expires>>
panel   == <<asked, gate, mounting, clearing, inbox>>
tokenVars == <<clock, web, rows, store, calls, panel, closed>>

Idle == [kind |-> "none", step |-> "none", session |-> 0, token |-> NoToken, until |-> 0]

Dates == 0 .. MaxTokenTime + Lifetime
Calls == [kind : {"none", "exchange", "refresh", "signOut", "revoke", "revokeSession"},
          step : {"none", "sent", "admitted", "denied", "answered", "failed", "removing"},
          session : 0 .. MaxSessions, token : Token \cup {NoToken}, until : Dates]
Notes == [kind : {"change", "read"}, token : Token \cup {NoToken}, until : Dates]

TokenTypeOK ==
  /\ clock \in 0 .. MaxTokenTime
  /\ signIns \in 0 .. MaxSessions /\ session \in 0 .. signIns /\ leaving \in BOOLEAN
  /\ rows \in [Token -> {"unused", "live", "revoked"}]
  /\ stored \in Token \cup {NoToken} /\ expires \in Dates
  /\ calls \in [Call -> Calls]
  /\ asked \in BOOLEAN /\ mounting \in BOOLEAN /\ clearing \in BOOLEAN
  /\ gate \in {"checking", "in", "out"}
  /\ inbox \in Seq(Notes)
  /\ closed \in BOOLEAN

TokenInit ==
  /\ clock = 0
  /\ signIns = 0 /\ session = 0 /\ leaving = FALSE
  /\ rows = [t \in Token |-> "unused"]
  /\ stored = NoToken /\ expires = 0
  /\ calls = [c \in Call |-> Idle]
  /\ asked = FALSE /\ gate = "out" /\ mounting = FALSE /\ clearing = FALSE
  /\ inbox = <<>>
  /\ closed = TRUE

At(c, kind, step) == calls[c].kind = kind /\ calls[c].step = step
Start(c, call) == calls' = [calls EXCEPT ![c] = call]
Step(c, step) == calls' = [calls EXCEPT ![c].step = step]
Over(c) == calls' = [calls EXCEPT ![c] = Idle]

\* storage.onChanged, which fires for values that have changed only.
Changed(old, t) ==
  IF t = old THEN <<>> ELSE <<[kind |-> "change", token |-> t, until |-> 0]>>

\* chrome.storage.local.set of both keys, or remove of both.
Write(t, until) ==
  /\ stored' = t /\ expires' = until
  /\ inbox' = inbox \o Changed(stored, t)

-----------------------------------------------------------------------------
(* The web application and its sessions.                                   *)

\* Mutant: a session is opened under a number that is not counted.
WebSignInUncounted ==
  /\ session = 0 /\ ~leaving
  /\ signIns < MaxSessions
  /\ session' = signIns + 1
  /\ closed' = FALSE
  /\ UNCHANGED <<clock, signIns, leaving, rows, store, calls, panel>>

WebSignIn ==
  /\ session = 0 /\ ~leaving
  /\ signIns < MaxSessions
  /\ signIns' = signIns + 1 /\ session' = signIns + 1
  /\ closed' = FALSE
  /\ UNCHANGED <<clock, leaving, rows, store, calls, panel>>

\* handleSignOut: revoke-session is fired and forgotten, signOut() follows.
WebSignOut(c) ==
  /\ session # 0 /\ ~leaving
  /\ calls[c] = Idle
  /\ Start(c, [Idle EXCEPT !.kind = "revokeSession", !.step = "sent", !.session = session])
  /\ leaving' = TRUE
  /\ UNCHANGED <<clock, signIns, session, rows, store, panel, closed>>

EndSession ==
  /\ leaving
  /\ leaving' = FALSE /\ session' = 0
  /\ UNCHANGED <<clock, signIns, rows, store, calls, panel, closed>>

\* The global AuthGuard: the session of the cookie must be valid.
AdmitSession(c) ==
  /\ At(c, "exchange", "sent") \/ At(c, "revokeSession", "sent")
  /\ IF calls[c].session = session THEN Step(c, "admitted") ELSE Over(c)
  /\ closed' = (closed /\ ~(calls[c].kind = "exchange" /\ calls[c].session = session))
  /\ UNCHANGED <<clock, web, rows, store, panel>>

RevokeAllForUser(c) ==
  /\ At(c, "revokeSession", "admitted")
  /\ rows' = [t \in Token |-> IF rows[t] = "live" THEN "revoked" ELSE rows[t]]
  /\ closed' = \A d \in Call : ~At(d, "exchange", "admitted")
  /\ Over(c)
  /\ UNCHANGED <<clock, web, store, panel>>

-----------------------------------------------------------------------------
(* Sign-in of the extension: tabs.onUpdated of the done page, every        *)
(* 'complete' of it, or the bridge of the extension/auth page.             *)

Exchange(c) ==
  /\ session # 0
  /\ calls[c] = Idle
  /\ Start(c, [Idle EXCEPT !.kind = "exchange", !.step = "sent", !.session = session])
  /\ UNCHANGED <<clock, web, rows, store, panel, closed>>

Mint(c, t) ==
  /\ At(c, "exchange", "admitted")
  /\ rows[t] = "unused"
  /\ rows' = [rows EXCEPT ![t] = "live"]
  /\ Start(c, [calls[c] EXCEPT !.step = "answered", !.token = t, !.until = clock + Lifetime])
  /\ UNCHANGED <<clock, web, store, panel, closed>>

\* storeExtensionToken.
StoreToken(c) ==
  /\ At(c, "exchange", "answered")
  /\ Write(calls[c].token, calls[c].until)
  /\ Over(c)
  /\ UNCHANGED <<clock, web, rows, asked, gate, mounting, clearing, closed>>

\* The answer is lost, its storage write fails, or it goes to the extension/auth
\* page, which puts it into a cookie nothing in the extension reads.
DropToken(c) ==
  /\ At(c, "exchange", "answered")
  /\ Over(c)
  /\ UNCHANGED <<clock, web, rows, store, panel, closed>>

-----------------------------------------------------------------------------
(* ExtensionAuthGuard, and the refresh.                                    *)

\* REQUEST_REFRESH in the service worker: without a token nothing is sent.
Refresh(c) ==
  /\ asked
  /\ calls[c] = Idle
  /\ asked' = FALSE
  /\ IF stored = NoToken THEN UNCHANGED calls
     ELSE Start(c, [Idle EXCEPT !.kind = "refresh", !.step = "sent", !.token = stored])
  /\ UNCHANGED <<clock, web, rows, store, gate, mounting, clearing, inbox, closed>>

\* validate: hash and revoked_at only.
AdmitToken(c) ==
  /\ \E kind \in {"refresh", "signOut", "revoke"} : At(c, kind, "sent")
  /\ Step(c, CASE rows[calls[c].token] = "live" -> "admitted"
               [] rows[calls[c].token] # "live" /\ calls[c].kind = "refresh" -> "denied"
               [] OTHER -> "removing")
  /\ UNCHANGED <<clock, web, rows, store, panel, closed>>

\* Mutant: the row that was read is written back.
SlideWholeRow(c) ==
  /\ At(c, "refresh", "admitted")
  /\ rows' = [rows EXCEPT ![calls[c].token] = "live"]
  /\ Start(c, [calls[c] EXCEPT !.step = "answered", !.until = clock + Lifetime])
  /\ UNCHANGED <<clock, web, store, panel, closed>>

\* refresh: last_seen_at, by id.
Slide(c) ==
  /\ At(c, "refresh", "admitted")
  /\ Start(c, [calls[c] EXCEPT !.step = "answered", !.until = clock + Lifetime])
  /\ UNCHANGED <<clock, web, rows, store, panel, closed>>

\* The new date is written whatever token is stored by now, or none.
ExtendExpiry(c) ==
  /\ At(c, "refresh", "answered")
  /\ expires' = calls[c].until
  /\ Over(c)
  /\ UNCHANGED <<clock, web, rows, stored, panel, closed>>

\* clearTokenStorage('401 on refresh'): whatever token is stored by now.
ClearOn401(c) ==
  /\ At(c, "refresh", "denied")
  /\ Write(NoToken, 0)
  /\ Over(c)
  /\ UNCHANGED <<clock, web, rows, asked, gate, mounting, clearing, closed>>

\* A network error, another status than 200 and 401, or a malformed answer.
RefreshErrs(c) ==
  /\ calls[c].kind = "refresh" /\ calls[c].step # "failed"
  /\ Step(c, "failed")
  /\ UNCHANGED <<clock, web, rows, store, panel, closed>>

\* Mutant: an error is taken for a 401.
FailRefreshClears(c) ==
  /\ At(c, "refresh", "failed")
  /\ Write(NoToken, 0)
  /\ Over(c)
  /\ UNCHANGED <<clock, web, rows, asked, gate, mounting, clearing, closed>>

\* The error is logged and answered, and nothing else.
FailRefresh(c) ==
  /\ At(c, "refresh", "failed")
  /\ Over(c)
  /\ UNCHANGED <<clock, web, rows, store, panel, closed>>

\* The service worker is stopped while it waits.
StopWorker(c) ==
  /\ calls[c].kind = "refresh" /\ calls[c].step # "failed"
  /\ Over(c)
  /\ UNCHANGED <<clock, web, rows, store, panel, closed>>

-----------------------------------------------------------------------------
(* Sign-out in the panel.                                                  *)

SignOut(c) ==
  /\ gate = "in"
  /\ calls[c] = Idle
  /\ \A d \in Call : calls[d].kind # "signOut"
  /\ Start(c, [Idle EXCEPT !.kind = "signOut", !.token = stored,
                           !.step = IF stored = NoToken THEN "removing" ELSE "sent"])
  /\ UNCHANGED <<clock, web, rows, store, panel, closed>>

Revoke(c) ==
  /\ At(c, "signOut", "admitted") \/ At(c, "revoke", "admitted")
  /\ rows' = [rows EXCEPT ![calls[c].token] = "revoked"]
  /\ Step(c, "removing")
  /\ UNCHANGED <<clock, web, store, panel, closed>>

\* fetch(...).catch(() => undefined).
FailSignOut(c) ==
  /\ At(c, "signOut", "sent") \/ At(c, "signOut", "admitted")
  /\ Step(c, "removing")
  /\ UNCHANGED <<clock, web, rows, store, panel, closed>>

RemoveKeys(c) ==
  /\ At(c, "signOut", "removing")
  /\ Write(NoToken, 0)
  /\ Over(c)
  /\ UNCHANGED <<clock, web, rows, asked, gate, mounting, clearing, closed>>

\* Nobody is left to remove the keys: the panel was closed.
EndRevoke(c) ==
  /\ At(c, "revoke", "removing")
  /\ Over(c)
  /\ UNCHANGED <<clock, web, rows, store, panel, closed>>

-----------------------------------------------------------------------------
(* AuthGate.                                                               *)

Expired(until)    == until <= clock
NearExpiry(until) == ~Expired(until) /\ until - clock < Threshold

\* A read of both keys, answered after the events of earlier writes.
ReadNote == [kind |-> "read", token |-> stored, until |-> expires]

\* The panel is opened, or closed and opened again.
Mount ==
  /\ gate' = "checking" /\ mounting' = TRUE /\ clearing' = FALSE
  /\ inbox' = <<ReadNote>>
  /\ calls' = [c \in Call |->
       CASE At(c, "signOut", "removing") -> Idle
         [] calls[c].kind = "signOut" /\ calls[c].step # "removing" ->
                [calls[c] EXCEPT !.kind = "revoke"]
         [] OTHER -> calls[c]]
  /\ UNCHANGED <<clock, web, rows, store, asked, closed>>

\* Mutant: a cleared token does not reach the gate while it is signed in.
OnChangeKeepIn ==
  /\ inbox # <<>> /\ Head(inbox).kind = "change"
  /\ IF Head(inbox).token = NoToken
       THEN UNCHANGED gate /\ inbox' = Tail(inbox)
       ELSE UNCHANGED gate /\ inbox' = Append(Tail(inbox), ReadNote)
  /\ UNCHANGED <<clock, web, rows, store, calls, asked, mounting, clearing, closed>>

\* handleStorageChange: out at once, or read both keys again.
OnChange ==
  /\ inbox # <<>> /\ Head(inbox).kind = "change"
  /\ IF Head(inbox).token = NoToken
       THEN gate' = "out" /\ inbox' = Tail(inbox)
       ELSE UNCHANGED gate /\ inbox' = Append(Tail(inbox), ReadNote)
  /\ UNCHANGED <<clock, web, rows, store, calls, asked, mounting, clearing, closed>>

\* evaluateToken; only the initial check clears the storage.
Evaluate ==
  /\ inbox # <<>> /\ Head(inbox).kind = "read"
  /\ LET token == Head(inbox).token
         until == Head(inbox).until
         out   == token = NoToken \/ Expired(until)
     IN /\ gate' = IF out THEN "out" ELSE "in"
        /\ clearing' = (clearing \/ (mounting /\ out))
        /\ asked' = (asked \/ (~out /\ NearExpiry(until)))
  /\ mounting' = FALSE
  /\ inbox' = Tail(inbox)
  /\ UNCHANGED <<clock, web, rows, store, calls, closed>>

\* clearTokenStorage() of the initial check: whatever token is stored by now.
ClearOnMount ==
  /\ clearing
  /\ clearing' = FALSE
  /\ Write(NoToken, 0)
  /\ UNCHANGED <<clock, web, rows, calls, asked, gate, mounting, closed>>

\* The panel handles its events, and an answer reaches the storage, within a unit
\* of time; the server may take longer to give it.
TokenTick ==
  /\ clock < MaxTokenTime
  /\ inbox = <<>>
  /\ \A c \in Call : calls[c].step \notin {"answered", "failed"}
  /\ clock' = clock + 1
  /\ UNCHANGED <<web, rows, store, calls, panel, closed>>

TokenNext ==
  \/ \E c \in Call :
       \/ WebSignOut(c) \/ AdmitSession(c) \/ RevokeAllForUser(c)
       \/ Exchange(c) \/ StoreToken(c) \/ DropToken(c)
       \/ Refresh(c) \/ AdmitToken(c) \/ Slide(c) \/ ExtendExpiry(c)
       \/ ClearOn401(c) \/ RefreshErrs(c) \/ FailRefresh(c) \/ StopWorker(c)
       \/ SignOut(c) \/ Revoke(c) \/ FailSignOut(c) \/ RemoveKeys(c) \/ EndRevoke(c)
  \/ \E c \in Call, t \in Token : Mint(c, t)
  \/ WebSignIn \/ EndSession
  \/ Mount \/ OnChange \/ Evaluate \/ ClearOnMount
  \/ TokenTick

TokenSpec == TokenInit /\ [][TokenNext]_tokenVars

-----------------------------------------------------------------------------
(* Correctness.                                                            *)

(***************************************************************************)
(* extension-auth.service.ts:117 "any connected extension installations    *)
(* are immediately invalidated": once revokeAllForUser has run, no token   *)
(* of the user works, whatever refreshes were under way, until an exchange *)
(* passes the session check again; the one exception is an exchange that   *)
(* had passed it before and inserts its row after.                         *)
(***************************************************************************)
SignOutHolds == closed => \A t \in Token : rows[t] # "live"

\* The inductive strengthening: no exchange is between the check and its row.
ClosedInv ==
  /\ SignOutHolds
  /\ closed => \A c \in Call : ~At(c, "exchange", "admitted")

(***************************************************************************)
(* AuthGate.tsx:145-171: when every event and read has been handled, the   *)
(* panel is signed in only with a token in the storage, and signed out     *)
(* only without one or with one that has expired.                          *)
(***************************************************************************)
Settled == inbox = <<>> /\ ~mounting /\ ~clearing
GateFollowsStorage ==
  Settled => /\ gate = "in" => stored # NoToken
             /\ gate = "out" => stored = NoToken \/ Expired(expires)

(***************************************************************************)
(* index.ts:252-264: a token the server still accepts, and that has not    *)
(* expired, leaves the storage only when the user signs out in the panel,  *)
(* or through a call that began before the token was there: the refresh of *)
(* another token that was answered 401, or the clean-up of an initial      *)
(* check.  An error of a refresh does not sign the user out, as it would   *)
(* by the header of the file, line 12: "On 401/error: clears both token    *)
(* keys".                                                                  *)
(***************************************************************************)
LiveTokenIsKept ==
  [][ /\ stored # NoToken /\ rows[stored] = "live" /\ ~Expired(expires)
      /\ stored' = NoToken
      => \/ clearing
         \/ \E c \in Call : At(c, "signOut", "removing")
         \/ \E c \in Call : At(c, "refresh", "denied") /\ calls[c].token # stored ]_tokenVars

=============================================================================
