--------------------------- MODULE Extension_proofs ---------------------------
(* Theorems about the Chrome extension: its bearer token and the gate of the *)
(* side panel (ExtensionToken), the scores the panel shows (ScorePanel), the *)
(* cached profile (ProfileCache), the autofill of the panel (AutofillPanel), *)
(* what it is told of the page (PageDetection), and the filling of a form    *)
(* (FormFill), for every value of their constants; last, of the parts side   *)
(* by side (MCExtension).                                                    *)
EXTENDS MCExtension, FiniteSetTheorems, SequenceTheorems, WellFoundedInduction, TLAPS

-------------------------------------------------------------------------------
\* ExtensionToken: sign-out, the stored token and the gate.

\* At the start there is no token, no request and no sign-out.
LEMMA TokenInitTyped == TokenInit => TokenTypeOK /\ ClosedInv
<1> SUFFICES ASSUME TokenInit PROVE TokenTypeOK /\ ClosedInv
  OBVIOUS
<1> USE TokenAssumption DEF TokenInit
<1>1. Idle \in Calls
  BY DEF Idle, Calls, Dates
<1>2. inbox \in Seq(Notes)
  OBVIOUS
<1>3. TokenTypeOK
  <2>1. /\ clock = 0 /\ signIns = 0 /\ session = 0 /\ expires = 0 /\ 0 \in Dates
        /\ 0 \in 0 .. MaxTokenTime /\ 0 \in 0 .. MaxSessions /\ 0 \in 0 .. signIns
    BY DEF Dates
  <2>2. calls \in [Call -> Calls] /\ rows \in [Token -> {"unused", "live", "revoked"}]
    BY <1>1
  <2>3. /\ leaving \in BOOLEAN /\ asked \in BOOLEAN /\ mounting \in BOOLEAN /\ clearing \in BOOLEAN
        /\ closed \in BOOLEAN /\ gate \in {"checking", "in", "out"}
        /\ stored \in Token \cup {NoToken}
    OBVIOUS
  <2>4. QED
    BY <1>2, <2>1, <2>2, <2>3 DEF TokenTypeOK
<1>4. ClosedInv
  BY DEF ClosedInv, SignOutHolds, At, Idle
<1>5. QED
  BY <1>3, <1>4

\* What a call is once it has started, gone a step further, or ended.
LEMMA CallsTyped ==
  ASSUME TokenTypeOK, NEW c \in Call
  PROVE  /\ Idle \in Calls
         /\ \A call \in Calls : Start(c, call) => calls' \in [Call -> Calls]
         /\ \A step \in {"sent", "admitted", "denied", "answered", "failed", "removing"} :
              Step(c, step) => calls' \in [Call -> Calls]
         /\ Over(c) => calls' \in [Call -> Calls]
<1> USE TokenAssumption
<1>1. Idle \in Calls
  BY DEF Idle, Calls, Dates
<1>2. calls \in [Call -> Calls]
  BY DEF TokenTypeOK
<1>3. ASSUME NEW call \in Calls, Start(c, call) PROVE calls' \in [Call -> Calls]
  BY <1>2, <1>3 DEF Start
<1>4. ASSUME NEW step \in {"sent", "admitted", "denied", "answered", "failed", "removing"},
             Step(c, step)
      PROVE  calls' \in [Call -> Calls]
  <2>1. [calls[c] EXCEPT !.step = step] \in Calls
    BY <1>2 DEF Calls
  <2>2. QED
    BY <1>2, <1>4, <2>1 DEF Step
<1>5. ASSUME Over(c) PROVE calls' \in [Call -> Calls]
  BY <1>1, <1>2, <1>5 DEF Over
<1>6. QED
  BY <1>1, <1>3, <1>4, <1>5

\* A write of the storage, and a read of it, keep the inbox one of notes.
LEMMA InboxTyped ==
  ASSUME TokenTypeOK
  PROVE  /\ \A t \in Token \cup {NoToken}, until \in Dates : Write(t, until) =>
              /\ stored' \in Token \cup {NoToken} /\ expires' \in Dates
              /\ inbox' \in Seq(Notes)
         /\ ReadNote \in Notes /\ <<ReadNote>> \in Seq(Notes)
         /\ inbox # <<>> => /\ Head(inbox) \in Notes /\ Tail(inbox) \in Seq(Notes)
                            /\ Append(Tail(inbox), ReadNote) \in Seq(Notes)
<1> USE TokenAssumption
<1>1. /\ inbox \in Seq(Notes) /\ stored \in Token \cup {NoToken} /\ expires \in Dates
  BY DEF TokenTypeOK
<1>2. ReadNote \in Notes
  BY <1>1 DEF ReadNote, Notes
<1>3. ASSUME NEW t \in Token \cup {NoToken}, NEW until \in Dates, Write(t, until)
      PROVE  /\ stored' \in Token \cup {NoToken} /\ expires' \in Dates
             /\ inbox' \in Seq(Notes)
  <2> DEFINE note == [kind |-> "change", token |-> t, until |-> 0]
  <2>1. note \in Notes
    BY DEF Notes, Dates
  <2> HIDE DEF note
  <2>2. <<note>> \in Seq(Notes) /\ <<>> \in Seq(Notes)
    BY <2>1
  <2>3. Changed(stored, t) \in Seq(Notes)
    BY <2>2 DEF Changed, note
  <2>4. inbox \o Changed(stored, t) \in Seq(Notes)
    BY <1>1, <2>3
  <2>5. QED
    BY <1>3, <2>4 DEF Write
<1>4. ASSUME inbox # <<>>
      PROVE  /\ Head(inbox) \in Notes /\ Tail(inbox) \in Seq(Notes)
             /\ Append(Tail(inbox), ReadNote) \in Seq(Notes)
  <2>1. Head(inbox) \in Notes /\ Tail(inbox) \in Seq(Notes)
    BY <1>1, <1>4
  <2>2. QED
    BY <1>2, <2>1
<1>5. <<ReadNote>> \in Seq(Notes)
  BY <1>2
<1>6. QED
  BY <1>2, <1>3, <1>4, <1>5

(***************************************************************************)
(* The web sessions.                                                       *)
(***************************************************************************)
WebOK == /\ signIns \in 0 .. MaxSessions /\ session \in 0 .. signIns /\ leaving \in BOOLEAN
         /\ closed \in BOOLEAN
CallsOK == calls \in [Call -> Calls] /\ rows \in [Token -> {"unused", "live", "revoked"}]
PanelOK == /\ stored \in Token \cup {NoToken} /\ expires \in Dates
           /\ asked \in BOOLEAN /\ mounting \in BOOLEAN /\ clearing \in BOOLEAN
           /\ gate \in {"checking", "in", "out"} /\ inbox \in Seq(Notes)
           /\ clock \in 0 .. MaxTokenTime

\* The type invariant in three parts, each proved for itself.
LEMMA TypeParts == TokenTypeOK <=> WebOK /\ CallsOK /\ PanelOK
BY DEF TokenTypeOK, WebOK, CallsOK, PanelOK

\* Every step keeps the types of the web sessions.
LEMMA WebTyped == TokenTypeOK /\ [TokenNext]_tokenVars => WebOK'
<1> SUFFICES ASSUME TokenTypeOK, [TokenNext]_tokenVars PROVE WebOK'
  OBVIOUS
<1> USE TokenAssumption
<1>1. WebOK
  BY TypeParts
<1>2. CASE WebSignIn
  <2>1. /\ signIns \in Nat /\ signIns < MaxSessions /\ signIns' = signIns + 1
        /\ session' = signIns + 1 /\ leaving' = leaving /\ closed' = FALSE
    BY <1>1, <1>2 DEF WebSignIn, WebOK
  <2>2. signIns' \in 0 .. MaxSessions /\ session' \in 0 .. signIns'
    BY <2>1
  <2>3. QED
    BY <1>1, <2>1, <2>2 DEF WebOK
<1>3. CASE EndSession
  <2>1. leaving' = FALSE /\ session' = 0 /\ signIns' = signIns /\ closed' = closed
    BY <1>3 DEF EndSession
  <2>2. 0 \in 0 .. signIns
    BY <1>1 DEF WebOK
  <2>3. QED
    BY <1>1, <2>1, <2>2 DEF WebOK
<1>4. ASSUME NEW c \in Call, WebSignOut(c) \/ AdmitSession(c) \/ RevokeAllForUser(c) PROVE WebOK'
  <2>1. CASE WebSignOut(c)
    BY <1>1, <2>1 DEF WebSignOut, WebOK
  <2>2. CASE AdmitSession(c)
    <3>1. closed' \in BOOLEAN
      BY <2>2, Zenon DEF AdmitSession
    <3>2. UNCHANGED web
      BY <2>2 DEF AdmitSession
    <3>3. QED
      BY <1>1, <3>1, <3>2 DEF web, WebOK
  <2>3. CASE RevokeAllForUser(c)
    <3>1. closed' \in BOOLEAN
      BY <2>3, Zenon DEF RevokeAllForUser
    <3>2. UNCHANGED web
      BY <2>3 DEF RevokeAllForUser
    <3>3. QED
      BY <1>1, <3>1, <3>2 DEF web, WebOK
  <2>4. QED
    BY <1>4, <2>1, <2>2, <2>3
<1>5. CASE UNCHANGED <<web, closed>>
  BY <1>1, <1>5 DEF web, WebOK
<1>6. ASSUME NEW c \in Call,
             \/ Exchange(c) \/ StoreToken(c) \/ DropToken(c)
             \/ Refresh(c) \/ AdmitToken(c) \/ Slide(c) \/ ExtendExpiry(c)
             \/ ClearOn401(c) \/ RefreshErrs(c) \/ FailRefresh(c) \/ StopWorker(c)
             \/ SignOut(c) \/ Revoke(c) \/ FailSignOut(c) \/ RemoveKeys(c) \/ EndRevoke(c)
             \/ \E t \in Token : Mint(c, t)
      PROVE  UNCHANGED <<web, closed>>
  <2>1. CASE Exchange(c) \/ StoreToken(c) \/ DropToken(c) \/ Refresh(c) \/ AdmitToken(c)
    BY <2>1 DEF Exchange, StoreToken, DropToken, Refresh, AdmitToken
  <2>2. CASE \/ Slide(c) \/ ExtendExpiry(c) \/ ClearOn401(c)
             \/ RefreshErrs(c) \/ FailRefresh(c) \/ StopWorker(c) \/ SignOut(c)
    BY <2>2 DEF Slide, ExtendExpiry, ClearOn401, RefreshErrs, FailRefresh, StopWorker, SignOut
  <2>3. CASE Revoke(c) \/ FailSignOut(c) \/ RemoveKeys(c) \/ EndRevoke(c) \/ \E t \in Token : Mint(c, t)
    BY <2>3 DEF Revoke, FailSignOut, RemoveKeys, EndRevoke, Mint
  <2>4. QED
    BY <1>6, <2>1, <2>2, <2>3
<1>7. ASSUME Mount \/ OnChange \/ Evaluate \/ ClearOnMount \/ TokenTick PROVE UNCHANGED <<web, closed>>
  <2>1. CASE Mount \/ OnChange
    BY <2>1 DEF Mount, OnChange
  <2>2. CASE Evaluate
    BY <2>2 DEF Evaluate
  <2>3. CASE ClearOnMount \/ TokenTick
    BY <2>3 DEF ClearOnMount, TokenTick
  <2>4. QED
    BY <1>7, <2>1, <2>2, <2>3
<1>8. QED
  BY <1>2, <1>3, <1>4, <1>5, <1>6, <1>7 DEF TokenNext, tokenVars

(***************************************************************************)
(* The storage, the panel and the clock.                                   *)
(***************************************************************************)
LEMMA PanelTyped == TokenTypeOK /\ [TokenNext]_tokenVars => PanelOK'
<1> SUFFICES ASSUME TokenTypeOK, [TokenNext]_tokenVars PROVE PanelOK'
  OBVIOUS
<1> USE TokenAssumption
<1>1. PanelOK /\ calls \in [Call -> Calls]
  BY TypeParts DEF CallsOK
<1>2. CASE UNCHANGED <<clock, store, panel>>
  BY <1>1, <1>2 DEF store, panel, PanelOK
<1>3. ASSUME NEW t \in Token \cup {NoToken}, NEW until \in Dates, Write(t, until),
             UNCHANGED <<clock, asked, gate, mounting>>, clearing' \in BOOLEAN
      PROVE  PanelOK'
  BY <1>1, <1>3, InboxTyped DEF PanelOK
<1>4. 0 \in Dates
  BY DEF Dates
<1>5. ASSUME NEW c \in Call, StoreToken(c) PROVE PanelOK'
  <2>1. calls[c].token \in Token \cup {NoToken} /\ calls[c].until \in Dates
    BY <1>1 DEF Calls
  <2>2. Write(calls[c].token, calls[c].until)
    BY <1>5, Zenon DEF StoreToken
  <2>3. UNCHANGED <<clock, asked, gate, mounting>> /\ clearing' = clearing
    BY <1>5 DEF StoreToken
  <2>4. QED
    BY <1>1, <1>3, <2>1, <2>2, <2>3 DEF PanelOK
<1>6. ASSUME NEW c \in Call, ClearOn401(c) \/ RemoveKeys(c) PROVE PanelOK'
  <2>1. Write(NoToken, 0)
    BY <1>6, Zenon DEF ClearOn401, RemoveKeys
  <2>2. UNCHANGED <<clock, asked, gate, mounting>> /\ clearing' = clearing
    BY <1>6 DEF ClearOn401, RemoveKeys
  <2>3. QED
    BY <1>1, <1>3, <1>4, <2>1, <2>2 DEF PanelOK
<1>7. CASE ClearOnMount
  <2>1. Write(NoToken, 0)
    BY <1>7, Zenon DEF ClearOnMount
  <2>2. UNCHANGED <<clock, asked, gate, mounting>> /\ clearing' = FALSE
    BY <1>7 DEF ClearOnMount
  <2>3. QED
    BY <1>3, <1>4, <2>1, <2>2
<1>8. ASSUME NEW c \in Call, Refresh(c) \/ ExtendExpiry(c) PROVE PanelOK'
  <2>1. calls[c].until \in Dates
    BY <1>1 DEF Calls
  <2>2. QED
    BY <1>1, <1>8, <2>1 DEF Refresh, ExtendExpiry, store, panel, PanelOK
<1>9. CASE Mount
  BY <1>1, <1>9, InboxTyped DEF Mount, store, PanelOK
<1>10. CASE OnChange
  BY <1>1, <1>10, InboxTyped DEF OnChange, store, PanelOK
<1>11. CASE Evaluate
  <2>1. Tail(inbox) \in Seq(Notes)
    BY <1>11, InboxTyped DEF Evaluate
  <2>2. /\ gate' \in {"in", "out"} /\ clearing' \in BOOLEAN /\ asked' \in BOOLEAN
        /\ mounting' = FALSE
    BY <1>1, <1>11 DEF Evaluate, PanelOK
  <2>3. inbox' = Tail(inbox) /\ UNCHANGED <<clock, stored, expires>>
    BY <1>11 DEF Evaluate, store
  <2>4. QED
    BY <1>1, <2>1, <2>2, <2>3 DEF PanelOK
<1>12. CASE TokenTick
  BY <1>1, <1>12 DEF TokenTick, store, panel, PanelOK
<1>13. ASSUME NEW c \in Call,
             \/ WebSignOut(c) \/ AdmitSession(c) \/ RevokeAllForUser(c)
             \/ Exchange(c) \/ DropToken(c) \/ AdmitToken(c) \/ Slide(c) \/ RefreshErrs(c)
             \/ FailRefresh(c) \/ StopWorker(c)
             \/ SignOut(c) \/ Revoke(c) \/ FailSignOut(c) \/ EndRevoke(c)
             \/ \E t \in Token : Mint(c, t)
      PROVE  UNCHANGED <<clock, store, panel>>
  BY <1>13 DEF WebSignOut, AdmitSession, RevokeAllForUser, Exchange, DropToken, AdmitToken, Slide,
               RefreshErrs, FailRefresh, StopWorker, SignOut, Revoke, FailSignOut, EndRevoke, Mint
<1>14. ASSUME WebSignIn \/ EndSession PROVE UNCHANGED <<clock, store, panel>>
  BY <1>14 DEF WebSignIn, EndSession
<1>15. QED
  BY <1>2, <1>5, <1>6, <1>7, <1>8, <1>9, <1>10, <1>11, <1>12, <1>13, <1>14 DEF TokenNext, tokenVars

(***************************************************************************)
(* The requests and the rows they write.                                   *)
(***************************************************************************)
LEMMA CallsStayTyped == TokenTypeOK /\ [TokenNext]_tokenVars => CallsOK'
<1> SUFFICES ASSUME TokenTypeOK, [TokenNext]_tokenVars PROVE CallsOK'
  OBVIOUS
<1> USE TokenAssumption
<1>1. /\ calls \in [Call -> Calls] /\ rows \in [Token -> {"unused", "live", "revoked"}]
      /\ clock \in 0 .. MaxTokenTime /\ session \in 0 .. MaxSessions
      /\ stored \in Token \cup {NoToken} /\ Idle \in Calls
  BY CallsTyped DEF TokenTypeOK, Calls, Idle, Dates
<1>2. CASE UNCHANGED <<calls, rows>>
  BY <1>1, <1>2 DEF CallsOK
<1>3. ASSUME NEW c \in Call, NEW call \in Calls, Start(c, call), UNCHANGED rows PROVE CallsOK'
  BY <1>1, <1>3, CallsTyped DEF CallsOK
<1>4. ASSUME NEW c \in Call,
             NEW step \in {"sent", "admitted", "denied", "answered", "failed", "removing"},
             Step(c, step)
      PROVE  calls' \in [Call -> Calls]
  BY <1>4, CallsTyped
<1>5. ASSUME NEW c \in Call, Over(c) PROVE calls' \in [Call -> Calls]
  BY <1>5, CallsTyped
<1>6. clock + Lifetime \in Dates
  BY <1>1 DEF Dates
<1>7. ASSUME NEW c \in Call, WebSignOut(c) \/ Exchange(c) PROVE CallsOK'
  <2>1. PICK kind \in {"exchange", "revokeSession"} :
          Start(c, [Idle EXCEPT !.kind = kind, !.step = "sent", !.session = session])
    BY <1>7, Zenon DEF WebSignOut, Exchange
  <2>2. [Idle EXCEPT !.kind = kind, !.step = "sent", !.session = session] \in Calls
    BY <1>1 DEF Calls
  <2>3. QED
    BY <1>3, <1>7, <2>1, <2>2 DEF WebSignOut, Exchange
<1>8. ASSUME NEW c \in Call, NEW t \in Token, Mint(c, t) PROVE CallsOK'
  <2> DEFINE call == [calls[c] EXCEPT !.step = "answered", !.token = t, !.until = clock + Lifetime]
  <2>1. call \in Calls
    BY <1>1, <1>6 DEF Calls
  <2>2. calls' = [calls EXCEPT ![c] = call] /\ rows' = [rows EXCEPT ![t] = "live"]
    BY <1>8 DEF Mint, Start
  <2> HIDE DEF call
  <2>3. QED
    BY <1>1, <2>1, <2>2 DEF CallsOK
<1>9. ASSUME NEW c \in Call, Slide(c) PROVE CallsOK'
  <2> DEFINE call == [calls[c] EXCEPT !.step = "answered", !.until = clock + Lifetime]
  <2>1. call \in Calls
    BY <1>1, <1>6 DEF Calls
  <2>2. calls' = [calls EXCEPT ![c] = call] /\ rows' = rows
    BY <1>9 DEF Slide, Start
  <2> HIDE DEF call
  <2>3. QED
    BY <1>1, <2>1, <2>2 DEF CallsOK
<1>10. ASSUME NEW c \in Call, Refresh(c) PROVE CallsOK'
  <2> DEFINE call == [Idle EXCEPT !.kind = "refresh", !.step = "sent", !.token = stored]
  <2>1. call \in Calls
    BY <1>1 DEF Calls
  <2>2. calls' = calls \/ calls' = [calls EXCEPT ![c] = call]
    BY <1>10 DEF Refresh, Start
  <2> HIDE DEF call
  <2>3. QED
    BY <1>1, <1>10, <2>1, <2>2 DEF CallsOK, Refresh
<1>11. ASSUME NEW c \in Call, SignOut(c) PROVE CallsOK'
  <2> DEFINE step == IF stored = NoToken THEN "removing" ELSE "sent"
             call == [Idle EXCEPT !.kind = "signOut", !.token = stored, !.step = step]
  <2>1. call \in Calls
    BY <1>1 DEF Calls
  <2>2. calls' = [calls EXCEPT ![c] = call] /\ rows' = rows
    BY <1>11 DEF SignOut, Start
  <2> HIDE DEF call
  <2>3. QED
    BY <1>1, <2>1, <2>2 DEF CallsOK
<1>12. ASSUME NEW c \in Call, AdmitSession(c) PROVE CallsOK'
  <2>1. Step(c, "admitted") \/ Over(c)
    BY <1>12, Zenon DEF AdmitSession
  <2>2. UNCHANGED rows
    BY <1>12 DEF AdmitSession
  <2>3. QED
    BY <1>1, <1>4, <1>5, <2>1, <2>2 DEF CallsOK
<1>13. ASSUME NEW c \in Call, AdmitToken(c) PROVE CallsOK'
  <2>1. PICK step \in {"admitted", "denied", "removing"} : Step(c, step)
    BY <1>13, Zenon DEF AdmitToken
  <2>2. UNCHANGED rows
    BY <1>13 DEF AdmitToken
  <2>3. QED
    BY <1>1, <1>4, <2>1, <2>2 DEF CallsOK
<1>14. ASSUME NEW c \in Call, Revoke(c) PROVE CallsOK'
  <2>1. Step(c, "removing") /\ rows' = [rows EXCEPT ![calls[c].token] = "revoked"]
    BY <1>14, Zenon DEF Revoke
  <2>2. QED
    BY <1>1, <1>4, <2>1 DEF CallsOK
<1>15. ASSUME NEW c \in Call, FailSignOut(c) \/ RefreshErrs(c) PROVE CallsOK'
  <2>1. (Step(c, "removing") \/ Step(c, "failed")) /\ UNCHANGED rows
    BY <1>15, Zenon DEF FailSignOut, RefreshErrs
  <2>2. QED
    BY <1>1, <1>4, <2>1 DEF CallsOK
<1>16. ASSUME NEW c \in Call, RevokeAllForUser(c) PROVE CallsOK'
  <2>1. Over(c)
    BY <1>16, Zenon DEF RevokeAllForUser
  <2>2. rows' = [t \in Token |-> IF rows[t] = "live" THEN "revoked" ELSE rows[t]]
    BY <1>16 DEF RevokeAllForUser
  <2>3. QED
    BY <1>1, <1>5, <2>1, <2>2 DEF CallsOK
<1>17. ASSUME NEW c \in Call,
              \/ StoreToken(c) \/ DropToken(c) \/ ExtendExpiry(c) \/ ClearOn401(c)
              \/ FailRefresh(c) \/ StopWorker(c) \/ RemoveKeys(c) \/ EndRevoke(c)
       PROVE  CallsOK'
  <2>1. Over(c)
    BY <1>17, Zenon DEF StoreToken, DropToken, ExtendExpiry, ClearOn401, FailRefresh, StopWorker,
                        RemoveKeys, EndRevoke
  <2>2. UNCHANGED rows
    BY <1>17 DEF StoreToken, DropToken, ExtendExpiry, ClearOn401, FailRefresh, StopWorker,
                 RemoveKeys, EndRevoke
  <2>3. QED
    BY <1>1, <1>5, <2>1, <2>2 DEF CallsOK
<1>18. CASE Mount
  <2>1. rows' = rows /\ \A c \in Call : [calls[c] EXCEPT !.kind = "revoke"] \in Calls
    BY <1>1, <1>18 DEF Mount, Calls
  <2>2. calls' \in [Call -> Calls]
    BY <1>1, <1>18, <2>1 DEF Mount
  <2>3. QED
    BY <1>1, <2>1, <2>2 DEF CallsOK
<1>19. ASSUME WebSignIn \/ EndSession \/ OnChange \/ Evaluate \/ ClearOnMount \/ TokenTick
       PROVE  UNCHANGED <<calls, rows>>
  <2>1. CASE WebSignIn \/ EndSession \/ OnChange
    BY <2>1 DEF WebSignIn, EndSession, OnChange
  <2>2. CASE Evaluate
    BY <2>2 DEF Evaluate
  <2>3. CASE ClearOnMount \/ TokenTick
    BY <2>3 DEF ClearOnMount, TokenTick
  <2>4. QED
    BY <1>19, <2>1, <2>2, <2>3
<1>20. CASE UNCHANGED tokenVars
  BY <1>2, <1>20 DEF tokenVars
<1>21. QED
  BY <1>2, <1>7, <1>8, <1>9, <1>10, <1>11, <1>12, <1>13, <1>14, <1>15, <1>16, <1>17, <1>18, <1>19,
     <1>20 DEF TokenNext

(***************************************************************************)
(* Type correctness, and extension-auth.service.ts:117: what a sign-out    *)
(* has revoked stays revoked until an exchange passes the session check.   *)
(***************************************************************************)
THEOREM SignOutIsFinal == TokenSpec => [](TokenTypeOK /\ SignOutHolds)
<1>1. TokenTypeOK /\ [TokenNext]_tokenVars => TokenTypeOK'
  <2> SUFFICES ASSUME TokenTypeOK, [TokenNext]_tokenVars PROVE TokenTypeOK'
    OBVIOUS
  <2>1. WebOK' /\ CallsOK' /\ PanelOK'
    BY WebTyped, CallsStayTyped, PanelTyped
  <2>2. QED
    BY <2>1 DEF TokenTypeOK, WebOK, CallsOK, PanelOK
<1>2. ASSUME TokenTypeOK, ClosedInv, [TokenNext]_tokenVars PROVE ClosedInv'
  <2> USE <1>2 DEF ClosedInv, SignOutHolds, At
  <2>1. ASSUME closed' => closed,
               \A t \in Token : rows'[t] = "live" => rows[t] = "live",
               \A d \in Call : calls'[d].kind = "exchange" /\ calls'[d].step = "admitted" =>
                               calls[d].kind = "exchange" /\ calls[d].step = "admitted"
        PROVE  ClosedInv'
    BY <2>1
  <2>2. calls \in [Call -> Calls] /\ rows \in [Token -> {"unused", "live", "revoked"}]
    BY DEF TokenTypeOK
  <2>3. CASE WebSignIn
    BY <2>3 DEF WebSignIn
  <2>4. ASSUME NEW c \in Call, AdmitSession(c) PROVE ClosedInv'
    <3>1. rows' = rows
      BY <2>4 DEF AdmitSession
    <3>2. CASE calls[c].kind = "exchange" /\ calls[c].session = session
      BY <2>4, <3>2 DEF AdmitSession
    <3>3. CASE ~(calls[c].kind = "exchange" /\ calls[c].session = session)
      <4>1. \A d \in Call : calls'[d].kind = "exchange" /\ calls'[d].step = "admitted" =>
                            calls[d].kind = "exchange" /\ calls[d].step = "admitted"
        BY <2>2, <2>4, <3>3 DEF AdmitSession, Step, Over, Idle, Calls
      <4>2. closed' => closed
        BY <2>4, Zenon DEF AdmitSession
      <4>3. QED
        BY <2>1, <3>1, <4>1, <4>2
    <3>4. QED
      BY <3>2, <3>3
  <2>5. ASSUME NEW c \in Call, RevokeAllForUser(c) PROVE ClosedInv'
    <3>1. \A t \in Token : rows'[t] # "live"
      BY <2>2, <2>5 DEF RevokeAllForUser
    <3>2. closed' => \A d \in Call : ~(calls[d].kind = "exchange" /\ calls[d].step = "admitted")
      BY <2>5, Zenon DEF RevokeAllForUser
    <3>3. calls' = [calls EXCEPT ![c] = Idle]
      BY <2>5 DEF RevokeAllForUser, Over
    <3>4. \A d \in Call : calls'[d] = calls[d] \/ calls'[d].kind = "none"
      BY <2>2, <3>3 DEF Idle
    <3>5. QED
      BY <3>1, <3>2, <3>4
  <2>6. ASSUME NEW c \in Call, NEW t \in Token, Mint(c, t) PROVE ClosedInv'
    <3>1. ~closed /\ closed' = closed
      BY <2>6 DEF Mint
    <3>2. QED
      BY <3>1
  <2>7. ASSUME UNCHANGED rows, closed' = closed,
               \A d \in Call : calls'[d].kind = "exchange" /\ calls'[d].step = "admitted" =>
                               calls[d].kind = "exchange" /\ calls[d].step = "admitted"
        PROVE  ClosedInv'
    BY <2>1, <2>7
  <2>8. ASSUME NEW c \in Call, Revoke(c) PROVE ClosedInv'
    <3>1. closed' = closed /\ \A t \in Token : rows'[t] = "live" => rows[t] = "live"
      BY <2>2, <2>8 DEF Revoke
    <3>2. \A d \in Call : calls'[d].kind = "exchange" /\ calls'[d].step = "admitted" =>
                          calls[d].kind = "exchange" /\ calls[d].step = "admitted"
      BY <2>2, <2>8 DEF Revoke, Step, Calls
    <3>3. QED
      BY <2>1, <3>1, <3>2
  <2>9. ASSUME NEW c \in Call, WebSignOut(c) \/ Exchange(c) \/ Refresh(c) \/ SignOut(c) \/ Slide(c)
        PROVE  ClosedInv'
    <3>1. UNCHANGED rows /\ closed' = closed
      BY <2>9 DEF WebSignOut, Exchange, Refresh, SignOut, Slide
    <3>2. \A d \in Call \ {c} : calls'[d] = calls[d]
      BY <2>2, <2>9 DEF WebSignOut, Exchange, Refresh, SignOut, Slide, Start
    <3>3. calls'[c] = calls[c] \/ calls'[c].step # "admitted"
      BY <2>2, <2>9 DEF WebSignOut, Exchange, Refresh, SignOut, Slide, Start, Idle, Calls
    <3>4. QED
      BY <2>7, <3>1, <3>2, <3>3
  <2>10. ASSUME NEW c \in Call, AdmitToken(c) \/ FailSignOut(c) \/ RefreshErrs(c)
         PROVE  ClosedInv'
    <3>1. UNCHANGED rows /\ closed' = closed
      BY <2>10 DEF AdmitToken, FailSignOut, RefreshErrs
    <3>2. \A d \in Call \ {c} : calls'[d] = calls[d]
      BY <2>2, <2>10 DEF AdmitToken, FailSignOut, RefreshErrs, Step
    <3>3. calls'[c].kind = calls[c].kind /\ calls[c].kind # "exchange"
      BY <2>2, <2>10 DEF AdmitToken, FailSignOut, RefreshErrs, Step, Calls
    <3>4. QED
      BY <2>7, <3>1, <3>2, <3>3
  <2>11. ASSUME NEW c \in Call,
                \/ StoreToken(c) \/ DropToken(c) \/ ExtendExpiry(c) \/ ClearOn401(c)
                \/ FailRefresh(c) \/ StopWorker(c) \/ RemoveKeys(c) \/ EndRevoke(c)
         PROVE  ClosedInv'
    <3>1. UNCHANGED rows /\ closed' = closed
      BY <2>11 DEF StoreToken, DropToken, ExtendExpiry, ClearOn401, FailRefresh, StopWorker,
                   RemoveKeys, EndRevoke
    <3>2. calls' = [calls EXCEPT ![c] = Idle]
      BY <2>11 DEF StoreToken, DropToken, ExtendExpiry, ClearOn401, FailRefresh, StopWorker,
                   RemoveKeys, EndRevoke, Over
    <3>3. \A d \in Call : calls'[d] = calls[d] \/ calls'[d].kind = "none"
      BY <2>2, <3>2 DEF Idle
    <3>4. QED
      BY <2>7, <3>1, <3>3
  <2>12. CASE Mount
    <3>1. UNCHANGED rows /\ closed' = closed
      BY <2>12 DEF Mount
    <3>2. \A d \in Call : calls'[d] = calls[d] \/ calls'[d].kind \in {"none", "revoke"}
      BY <2>2, <2>12 DEF Mount, Idle, Calls
    <3>3. QED
      BY <2>7, <3>1, <3>2
  <2>13. ASSUME EndSession \/ OnChange \/ Evaluate \/ ClearOnMount \/ TokenTick \/ UNCHANGED tokenVars
         PROVE  UNCHANGED <<calls, rows, closed>>
    <3>1. CASE EndSession \/ OnChange
      BY <3>1 DEF EndSession, OnChange
    <3>2. CASE Evaluate
      BY <3>2 DEF Evaluate
    <3>3. CASE ClearOnMount \/ TokenTick \/ UNCHANGED tokenVars
      BY <3>3 DEF ClearOnMount, TokenTick, tokenVars
    <3>4. QED
      BY <2>13, <3>1, <3>2, <3>3
  <2>14. CASE UNCHANGED <<calls, rows, closed>>
    BY <2>14
  <2> HIDE DEF ClosedInv, SignOutHolds, At
  <2>15. QED
    BY <2>3, <2>4, <2>5, <2>6, <2>8, <2>9, <2>10, <2>11, <2>12, <2>13, <2>14 DEF TokenNext
<1>3. ClosedInv => SignOutHolds
  BY DEF ClosedInv
<1>4. QED
  BY <1>1, <1>2, <1>3, TokenInitTyped, PTL DEF TokenSpec

(***************************************************************************)
(* A token is minted before it is stored or refreshed, and one that was    *)
(* refused a refresh has been revoked, which is for good.                  *)
(***************************************************************************)
Minted(t) == t \in Token /\ rows[t] # "unused"

CallMinted(c) ==
  /\ calls[c].kind = "refresh" \/ At(c, "exchange", "answered") => Minted(calls[c].token)
  /\ At(c, "refresh", "denied") => rows[calls[c].token] = "revoked"

MintedInv ==
  /\ stored # NoToken => Minted(stored)
  /\ \A c \in Call : CallMinted(c)

\* Every step keeps the types.
LEMMA TokenTyped == TokenTypeOK /\ [TokenNext]_tokenVars => TokenTypeOK'
<1> SUFFICES ASSUME TokenTypeOK, [TokenNext]_tokenVars PROVE TokenTypeOK'
  OBVIOUS
<1>1. WebOK' /\ CallsOK' /\ PanelOK'
  BY WebTyped, CallsStayTyped, PanelTyped
<1>2. QED
  BY <1>1 DEF TokenTypeOK, WebOK, CallsOK, PanelOK

\* A row that was minted stays so, and one that was revoked stays so.
RowsAge == \A t \in Token : /\ rows[t] # "unused" => rows'[t] # "unused"
                            /\ rows[t] = "revoked" => rows'[t] = "revoked"


\* Every step ages the rows.
LEMMA RowsOnlyAge == TokenTypeOK /\ [TokenNext]_tokenVars => RowsAge
<1> SUFFICES ASSUME TokenTypeOK, [TokenNext]_tokenVars PROVE RowsAge
  OBVIOUS
<1>1. rows \in [Token -> {"unused", "live", "revoked"}]
  BY DEF TokenTypeOK
<1>2. CASE rows' = rows
  BY <1>2 DEF RowsAge
<1>3. ASSUME NEW c \in Call, RevokeAllForUser(c) PROVE RowsAge
  BY <1>1, <1>3 DEF RevokeAllForUser, RowsAge
<1>4. ASSUME NEW c \in Call, Revoke(c) PROVE RowsAge
  BY <1>1, <1>4 DEF Revoke, RowsAge
<1>5. ASSUME NEW c \in Call, NEW t \in Token, Mint(c, t) PROVE RowsAge
  BY <1>1, <1>5 DEF Mint, RowsAge
<1>6. ASSUME NEW c \in Call,
             \/ WebSignOut(c) \/ AdmitSession(c) \/ Exchange(c) \/ StoreToken(c) \/ DropToken(c)
             \/ Refresh(c) \/ AdmitToken(c) \/ Slide(c) \/ ExtendExpiry(c)
             \/ ClearOn401(c) \/ RefreshErrs(c) \/ FailRefresh(c) \/ StopWorker(c)
             \/ SignOut(c) \/ FailSignOut(c) \/ RemoveKeys(c) \/ EndRevoke(c)
      PROVE  rows' = rows
  <2>1. CASE WebSignOut(c) \/ AdmitSession(c) \/ Exchange(c) \/ StoreToken(c) \/ DropToken(c)
    BY <2>1 DEF WebSignOut, AdmitSession, Exchange, StoreToken, DropToken
  <2>2. CASE Refresh(c) \/ AdmitToken(c) \/ Slide(c) \/ ExtendExpiry(c) \/ ClearOn401(c)
    BY <2>2 DEF Refresh, AdmitToken, Slide, ExtendExpiry, ClearOn401
  <2>3. CASE \/ RefreshErrs(c) \/ FailRefresh(c) \/ StopWorker(c)
             \/ SignOut(c) \/ FailSignOut(c) \/ RemoveKeys(c) \/ EndRevoke(c)
    BY <2>3 DEF RefreshErrs, FailRefresh, StopWorker, SignOut, FailSignOut, RemoveKeys, EndRevoke
  <2>4. QED
    BY <1>6, <2>1, <2>2, <2>3
<1>7. ASSUME \/ WebSignIn \/ EndSession \/ Mount \/ OnChange \/ Evaluate \/ ClearOnMount
             \/ TokenTick \/ UNCHANGED tokenVars
      PROVE  rows' = rows
  <2>1. CASE WebSignIn \/ EndSession \/ Mount \/ OnChange
    BY <2>1 DEF WebSignIn, EndSession, Mount, OnChange
  <2>2. CASE Evaluate
    BY <2>2 DEF Evaluate
  <2>3. CASE ClearOnMount \/ TokenTick \/ UNCHANGED tokenVars
    BY <2>3 DEF ClearOnMount, TokenTick, tokenVars
  <2>4. QED
    BY <1>7, <2>1, <2>2, <2>3
<1>8. QED
  BY <1>2, <1>3, <1>4, <1>5, <1>6, <1>7 DEF TokenNext

\* What a step leaves of a request: itself, nothing, or what the step made of it.
LEMMA RequestsGoOn ==
  ASSUME TokenTypeOK, TokenNext
  PROVE  \A d \in Call :
           \/ calls'[d] = calls[d]
           \/ calls'[d].kind \notin {"refresh", "exchange"} /\ (calls'[d].step = "answered" =>
                 calls[d].step = "answered" /\ calls'[d].until = calls[d].until)
           \/ /\ calls'[d].kind = "exchange" /\ calls'[d].step # "answered"
           \/ /\ calls'[d].kind = "refresh" /\ calls'[d].step = "sent"
              /\ stored # NoToken /\ calls'[d].token = stored
           \/ /\ calls[d].kind = "refresh" /\ calls'[d].kind = "refresh"
              /\ calls'[d].token = calls[d].token
              /\ calls'[d].step \in {"admitted", "answered", "denied", "failed"}
              /\ calls'[d].step = "answered" => calls'[d].until = clock + Lifetime
              /\ calls'[d].step = "denied" => rows[calls[d].token] # "live"
           \/ /\ calls'[d].kind = "exchange" /\ calls'[d].until = clock + Lifetime
              /\ calls'[d].token \in Token /\ rows'[calls'[d].token] # "unused"
<1> USE TokenAssumption
<1> TAKE d \in Call
<1> DEFINE Same == calls'[d] = calls[d]
           Other == calls'[d].kind \notin {"refresh", "exchange"} /\ (calls'[d].step = "answered" =>
                      calls[d].step = "answered" /\ calls'[d].until = calls[d].until)
           Open == calls'[d].kind = "exchange" /\ calls'[d].step # "answered"
           Sent == /\ calls'[d].kind = "refresh" /\ calls'[d].step = "sent"
                   /\ stored # NoToken /\ calls'[d].token = stored
           On == /\ calls[d].kind = "refresh" /\ calls'[d].kind = "refresh"
                 /\ calls'[d].token = calls[d].token
                 /\ calls'[d].step \in {"admitted", "answered", "denied", "failed"}
                 /\ calls'[d].step = "answered" => calls'[d].until = clock + Lifetime
                 /\ calls'[d].step = "denied" => rows[calls[d].token] # "live"
           Made == /\ calls'[d].kind = "exchange" /\ calls'[d].until = clock + Lifetime
                   /\ calls'[d].token \in Token /\ rows'[calls'[d].token] # "unused"
           Goal == Same \/ Other \/ Open \/ Sent \/ On \/ Made
<1> SUFFICES Goal
  OBVIOUS
<1>1. /\ calls \in [Call -> Calls] /\ rows \in [Token -> {"unused", "live", "revoked"}]
  BY DEF TokenTypeOK
<1>0. calls[d] \in Calls
  BY <1>1
<1>2. CASE UNCHANGED calls
  BY <1>2
<1>3. ASSUME NEW c \in Call, Over(c) PROVE Goal
  BY <1>1, <1>3 DEF Over, Idle
<1>4. ASSUME NEW c \in Call, WebSignOut(c) \/ Exchange(c) PROVE Goal
  <2>1. CASE d = c
    <3>1. CASE WebSignOut(c)
      BY <1>1, <2>1, <3>1 DEF WebSignOut, Start, Idle
    <3>2. CASE Exchange(c)
      BY <1>1, <2>1, <3>2 DEF Exchange, Start, Idle
    <3>3. QED
      BY <1>4, <3>1, <3>2
  <2>2. CASE d # c
    BY <1>1, <1>4, <2>2 DEF WebSignOut, Exchange, Start
  <2>3. QED
    BY <2>1, <2>2
<1>5. ASSUME NEW c \in Call, AdmitSession(c) PROVE Goal
  <2>1. CASE Step(c, "admitted")
    <3>1. CASE d # c
      BY <1>1, <2>1, <3>1 DEF Step
    <3>2. CASE d = c
      <4>1. calls'[d].kind = calls[d].kind /\ calls'[d].step = "admitted"
        BY <1>1, <2>1, <3>2 DEF Step, Calls
      <4>2. calls[d].kind \in {"exchange", "revokeSession"}
        BY <1>5, <3>2 DEF AdmitSession, At
      <4>3. QED
        BY <4>1, <4>2
    <3>3. QED
      BY <3>1, <3>2
  <2>2. CASE Over(c)
    BY <1>3, <2>2
  <2>3. QED
    BY <1>5, <2>1, <2>2, Zenon DEF AdmitSession
<1>6. ASSUME NEW c \in Call, Refresh(c) PROVE Goal
  <2>1. CASE d = c /\ stored # NoToken
    BY <1>1, <1>6, <2>1 DEF Refresh, Start, Idle
  <2>2. CASE ~(d = c /\ stored # NoToken)
    BY <1>1, <1>6, <2>2 DEF Refresh, Start
  <2>3. QED
    BY <2>1, <2>2
<1>7. ASSUME NEW c \in Call, AdmitToken(c) PROVE Goal
  <2>1. \/ rows[calls[c].token] = "live" /\ Step(c, "admitted")
        \/ rows[calls[c].token] # "live" /\ calls[c].kind = "refresh" /\ Step(c, "denied")
        \/ calls[c].kind # "refresh" /\ Step(c, "removing")
    BY <1>7, Zenon DEF AdmitToken
  <2>2. calls[c].kind \in {"refresh", "signOut", "revoke"}
    BY <1>7 DEF AdmitToken, At
  <2>3. CASE d # c
    BY <1>1, <2>1, <2>3 DEF Step
  <2>4. ASSUME NEW step \in {"admitted", "denied", "removing"}, Step(c, step), d = c
        PROVE  /\ calls'[d].kind = calls[d].kind /\ calls'[d].step = step
               /\ calls'[d].token = calls[d].token
    BY <1>1, <2>4 DEF Step, Calls
  <2>5. CASE d = c /\ rows[calls[c].token] = "live" /\ Step(c, "admitted")
    BY <2>2, <2>4, <2>5
  <2>6. CASE d = c /\ rows[calls[c].token] # "live" /\ calls[c].kind = "refresh" /\ Step(c, "denied")
    BY <2>4, <2>6
  <2>7. CASE d = c /\ calls[c].kind # "refresh" /\ Step(c, "removing")
    BY <2>2, <2>4, <2>7
  <2>8. QED
    BY <2>1, <2>3, <2>5, <2>6, <2>7
<1>8. ASSUME NEW c \in Call, Slide(c) PROVE Goal
  <2>1. calls' = [calls EXCEPT ![c] = [calls[c] EXCEPT !.step = "answered", !.until = clock + Lifetime]]
    BY <1>8 DEF Slide, Start
  <2>2. CASE d # c
    BY <1>1, <2>1, <2>2
  <2>3. CASE d = c
    <3>1. calls'[d] = [calls[d] EXCEPT !.step = "answered", !.until = clock + Lifetime]
      BY <1>1, <2>1, <2>3
    <3>2. /\ calls'[d].kind = calls[d].kind /\ calls'[d].step = "answered"
          /\ calls'[d].token = calls[d].token /\ calls'[d].until = clock + Lifetime
      BY <1>0, <3>1 DEF Calls
    <3>3. calls[d].kind = "refresh"
      BY <1>8, <2>3 DEF Slide, At
    <3>4. QED
      BY <3>2, <3>3
  <2>4. QED
    BY <2>2, <2>3
<1>9. ASSUME NEW c \in Call, NEW t \in Token, Mint(c, t) PROVE Goal
  <2>1. /\ calls' = [calls EXCEPT ![c] = [calls[c] EXCEPT !.step = "answered", !.token = t,
                                                          !.until = clock + Lifetime]]
        /\ rows' = [rows EXCEPT ![t] = "live"]
    BY <1>9 DEF Mint, Start
  <2>2. CASE d # c
    BY <1>1, <2>1, <2>2
  <2>3. CASE d = c
    <3>1. calls'[d] = [calls[d] EXCEPT !.step = "answered", !.token = t, !.until = clock + Lifetime]
      BY <1>1, <2>1, <2>3
    <3>2. /\ calls'[d].kind = calls[d].kind
          /\ calls'[d].token = t /\ calls'[d].until = clock + Lifetime
      BY <1>0, <3>1 DEF Calls
    <3>3. calls[d].kind = "exchange"
      BY <1>9, <2>3 DEF Mint, At
    <3>4. rows'[t] = "live"
      BY <1>1, <2>1
    <3>5. QED
      BY <3>2, <3>3, <3>4
  <2>4. QED
    BY <2>2, <2>3
<1>10. ASSUME NEW c \in Call, SignOut(c) PROVE Goal
  <2>1. CASE d # c
    BY <1>1, <1>10, <2>1 DEF SignOut, Start
  <2>2. CASE d = c
    BY <1>1, <1>10, <2>2 DEF SignOut, Start, Idle
  <2>3. QED
    BY <2>1, <2>2
<1>16. ASSUME NEW c \in Call, RefreshErrs(c) PROVE Goal
  <2>1. Step(c, "failed") /\ calls[c].kind = "refresh"
    BY <1>16, Zenon DEF RefreshErrs
  <2>2. CASE d # c
    BY <1>1, <2>1, <2>2 DEF Step
  <2>3. CASE d = c
    BY <1>1, <2>1, <2>3 DEF Step, Calls
  <2>4. QED
    BY <2>2, <2>3
<1>11. ASSUME NEW c \in Call, Revoke(c) \/ FailSignOut(c) PROVE Goal
  <2>1. Step(c, "removing") /\ calls[c].kind \in {"signOut", "revoke"}
    BY <1>11, Zenon DEF Revoke, FailSignOut, At
  <2>2. CASE d # c
    BY <1>1, <2>1, <2>2 DEF Step
  <2>3. CASE d = c
    BY <1>1, <2>1, <2>3 DEF Step, Calls
  <2>4. QED
    BY <2>2, <2>3
<1>12. CASE Mount
  <2>1. calls'[d] = CASE At(d, "signOut", "removing") -> Idle
                      [] calls[d].kind = "signOut" /\ calls[d].step # "removing" ->
                           [calls[d] EXCEPT !.kind = "revoke"]
                      [] OTHER -> calls[d]
    BY <1>12 DEF Mount
  <2>2. CASE calls[d].kind = "signOut"
    <3>1. CASE At(d, "signOut", "removing")
      BY <2>1, <3>1 DEF Idle
    <3>2. CASE ~At(d, "signOut", "removing")
      <4>1. calls'[d] = [calls[d] EXCEPT !.kind = "revoke"]
        BY <2>1, <2>2, <3>2 DEF At
      <4>2. /\ calls'[d].kind = "revoke" /\ calls'[d].step = calls[d].step
            /\ calls'[d].until = calls[d].until
        BY <1>0, <4>1 DEF Calls
      <4>3. QED
        BY <4>2
    <3>3. QED
      BY <3>1, <3>2
  <2>3. CASE calls[d].kind # "signOut"
    BY <2>1, <2>3 DEF At
  <2>4. QED
    BY <2>2, <2>3
<1>13. ASSUME NEW c \in Call,
              \/ RevokeAllForUser(c) \/ StoreToken(c) \/ DropToken(c) \/ ExtendExpiry(c)
              \/ ClearOn401(c) \/ FailRefresh(c) \/ StopWorker(c)
              \/ RemoveKeys(c) \/ EndRevoke(c)
       PROVE  Over(c)
  BY <1>13, Zenon DEF RevokeAllForUser, StoreToken, DropToken, ExtendExpiry, ClearOn401,
                      FailRefresh, StopWorker, RemoveKeys, EndRevoke
<1>14. ASSUME WebSignIn \/ EndSession \/ OnChange \/ Evaluate \/ ClearOnMount \/ TokenTick
       PROVE  UNCHANGED calls
  <2>1. CASE WebSignIn \/ EndSession \/ OnChange
    BY <2>1 DEF WebSignIn, EndSession, OnChange
  <2>2. CASE Evaluate
    BY <2>2 DEF Evaluate
  <2>3. CASE ClearOnMount \/ TokenTick
    BY <2>3 DEF ClearOnMount, TokenTick
  <2>4. QED
    BY <1>14, <2>1, <2>2, <2>3
<1> HIDE DEF Goal
<1>15. QED
  BY <1>2, <1>3, <1>4, <1>5, <1>6, <1>7, <1>8, <1>9, <1>10, <1>11, <1>12, <1>13, <1>14,
     <1>16 DEF TokenNext

\* What an ageing of the rows leaves of a token.
LEMMA StaysMinted ==
  ASSUME RowsAge, NEW t, Minted(t)
  PROVE  Minted(t)' 
BY DEF RowsAge, Minted

(***************************************************************************)
(* MintedInv is inductive.                                                 *)
(***************************************************************************)
LEMMA MintedInductive ==
  ASSUME TokenTypeOK, MintedInv, [TokenNext]_tokenVars
  PROVE  MintedInv'
<1>0. CASE UNCHANGED tokenVars
  BY <1>0 DEF tokenVars, store, MintedInv, CallMinted, Minted, At
<1> SUFFICES ASSUME TokenNext PROVE MintedInv'
  BY <1>0
<1> USE TokenAssumption
<1>1. /\ calls \in [Call -> Calls] /\ rows \in [Token -> {"unused", "live", "revoked"}]
      /\ stored \in Token \cup {NoToken}
  BY DEF TokenTypeOK
<1>2. RowsAge
  BY RowsOnlyAge
<1>3. stored' # NoToken => Minted(stored)'
  <2>1. CASE stored' = stored
    BY <1>2, <2>1 DEF RowsAge, Minted, MintedInv
  <2>2. ASSUME NEW c \in Call, StoreToken(c) PROVE stored' # NoToken => Minted(stored)'
    <3>1. stored' = calls[c].token
      BY <2>2 DEF StoreToken, Write
    <3>2. Minted(calls[c].token)
      BY <2>2 DEF StoreToken, MintedInv, CallMinted
    <3>3. QED
      BY <1>2, <3>1, <3>2 DEF RowsAge, Minted
  <2>3. ASSUME NEW c \in Call, ClearOn401(c) \/ RemoveKeys(c) PROVE stored' = NoToken
    BY <2>3 DEF ClearOn401, RemoveKeys, Write
  <2>4. ASSUME ClearOnMount PROVE stored' = NoToken
    BY <2>4 DEF ClearOnMount, Write
  <2>5. ASSUME NEW c \in Call,
               \/ WebSignOut(c) \/ AdmitSession(c) \/ RevokeAllForUser(c) \/ Exchange(c)
               \/ DropToken(c) \/ Refresh(c) \/ AdmitToken(c) \/ Slide(c) \/ ExtendExpiry(c)
               \/ RefreshErrs(c) \/ FailRefresh(c) \/ StopWorker(c) \/ SignOut(c) \/ Revoke(c)
               \/ FailSignOut(c) \/ EndRevoke(c)
               \/ \E t \in Token : Mint(c, t)
        PROVE  stored' = stored
    <3>1. CASE WebSignOut(c) \/ AdmitSession(c) \/ RevokeAllForUser(c) \/ Exchange(c)
      BY <3>1 DEF WebSignOut, AdmitSession, RevokeAllForUser, Exchange, store
    <3>2. CASE DropToken(c) \/ Refresh(c) \/ AdmitToken(c) \/ Slide(c) \/ ExtendExpiry(c)
      BY <3>2 DEF DropToken, Refresh, AdmitToken, Slide, ExtendExpiry, store
    <3>3. CASE \/ RefreshErrs(c) \/ FailRefresh(c) \/ StopWorker(c)
               \/ SignOut(c) \/ Revoke(c) \/ FailSignOut(c) \/ EndRevoke(c)
      BY <3>3 DEF RefreshErrs, FailRefresh, StopWorker, SignOut, Revoke, FailSignOut, EndRevoke,
                  store
    <3>4. CASE \E t \in Token : Mint(c, t)
      BY <3>4 DEF Mint, store
    <3>5. QED
      BY <2>5, <3>1, <3>2, <3>3, <3>4
  <2>6. ASSUME WebSignIn \/ EndSession \/ Mount \/ OnChange \/ Evaluate \/ TokenTick
        PROVE  stored' = stored
    <3>1. CASE WebSignIn \/ EndSession \/ Mount
      BY <3>1 DEF WebSignIn, EndSession, Mount, store
    <3>2. CASE OnChange \/ TokenTick
      BY <3>2 DEF OnChange, TokenTick, store
    <3>3. CASE Evaluate
      BY <3>3 DEF Evaluate, store
    <3>4. QED
      BY <2>6, <3>1, <3>2, <3>3
  <2>7. QED
    BY <2>1, <2>2, <2>3, <2>4, <2>5, <2>6 DEF TokenNext
<1>4. ASSUME NEW d \in Call PROVE CallMinted(d)'
  <2> DEFINE t == calls[d].token
             u == calls'[d].token
  <2>1. CASE calls'[d] = calls[d]
    <3>1. CallMinted(d)
      BY DEF MintedInv
    <3>2. ASSUME Minted(t) PROVE u \in Token /\ rows'[u] # "unused"
      BY <1>2, <2>1, <3>2 DEF RowsAge, Minted
    <3>3. ASSUME rows[t] = "revoked", t \in Token PROVE rows'[u] = "revoked"
      BY <1>2, <2>1, <3>3 DEF RowsAge
    <3>4. QED
      BY <2>1, <3>1, <3>2, <3>3 DEF CallMinted, Minted, At
  <2>2. CASE calls'[d].kind \notin {"refresh", "exchange"}
    BY <2>2 DEF CallMinted, At
  <2>3. CASE calls'[d].kind = "exchange" /\ calls'[d].step # "answered"
    BY <2>3 DEF CallMinted, At
  <2>4. CASE /\ calls'[d].kind = "refresh" /\ calls'[d].step = "sent"
             /\ stored # NoToken /\ calls'[d].token = stored
    <3>1. u \in Token /\ rows'[u] # "unused"
      BY <1>2, <2>4 DEF RowsAge, Minted, MintedInv
    <3>2. QED
      BY <2>4, <3>1 DEF CallMinted, Minted, At
  <2>5. CASE /\ calls[d].kind = "refresh" /\ calls'[d].kind = "refresh"
             /\ calls'[d].token = calls[d].token
             /\ calls'[d].step = "denied" => rows[calls[d].token] # "live"
    <3>1. Minted(t)
      BY <2>5 DEF MintedInv, CallMinted
    <3>2. u \in Token /\ rows'[u] # "unused"
      BY <1>2, <2>5, <3>1 DEF RowsAge, Minted
    <3>3. ASSUME calls'[d].step = "denied" PROVE rows'[u] = "revoked"
      <4>1. t \in Token /\ rows[t] # "live" /\ rows[t] # "unused"
        BY <2>5, <3>1, <3>3 DEF Minted
      <4>2. rows[t] = "revoked"
        BY <1>1, <4>1
      <4>3. QED
        BY <1>2, <2>5, <4>1, <4>2 DEF RowsAge
    <3>4. QED
      BY <2>5, <3>2, <3>3 DEF CallMinted, Minted, At
  <2>6. CASE /\ calls'[d].kind = "exchange" /\ calls'[d].token \in Token
             /\ rows'[calls'[d].token] # "unused"
    BY <2>6 DEF CallMinted, Minted, At
  <2> HIDE DEF t, u
  <2>7. QED
    BY RequestsGoOn, <2>1, <2>2, <2>3, <2>4, <2>5, <2>6
<1>5. QED
  BY <1>3, <1>4 DEF MintedInv

(***************************************************************************)
(* index.ts:252-264: a token the server still accepts leaves the storage   *)
(* through a sign-out in the panel, the refresh of another token, or the   *)
(* clean-up of an initial check; the error of a refresh signs nobody out.  *)
(***************************************************************************)
THEOREM TokenStays == TokenSpec => LiveTokenIsKept
<1>1. TokenInit => TokenTypeOK /\ MintedInv
  <2>1. ASSUME TokenInit PROVE MintedInv
    BY <2>1 DEF TokenInit, MintedInv, CallMinted, At, Idle
  <2>2. QED
    BY <2>1, TokenInitTyped
<1>2. TokenTypeOK /\ MintedInv /\ [TokenNext]_tokenVars => TokenTypeOK' /\ MintedInv'
  BY TokenTyped, MintedInductive
<1>3. ASSUME TokenTypeOK, MintedInv, [TokenNext]_tokenVars
      PROVE  [ /\ stored # NoToken /\ rows[stored] = "live" /\ ~Expired(expires)
               /\ stored' = NoToken
               => \/ clearing
                  \/ \E c \in Call : At(c, "signOut", "removing")
                  \/ \E c \in Call : At(c, "refresh", "denied") /\ calls[c].token # stored ]_tokenVars
  <2> SUFFICES ASSUME stored # NoToken, rows[stored] = "live", stored' = NoToken
               PROVE  \/ clearing
                      \/ \E c \in Call : At(c, "signOut", "removing")
                      \/ \E c \in Call : At(c, "refresh", "denied") /\ calls[c].token # stored
    OBVIOUS
  <2>1. CASE ClearOnMount
    BY <2>1 DEF ClearOnMount
  <2>2. ASSUME NEW c \in Call, RemoveKeys(c) PROVE At(c, "signOut", "removing")
    BY <2>2 DEF RemoveKeys
  <2>3. ASSUME NEW c \in Call, ClearOn401(c)
        PROVE  At(c, "refresh", "denied") /\ calls[c].token # stored
    <3>1. At(c, "refresh", "denied")
      BY <2>3 DEF ClearOn401
    <3>2. rows[calls[c].token] = "revoked"
      BY <1>3, <3>1 DEF MintedInv, CallMinted
    <3>3. QED
      BY <3>1, <3>2
  <2>4. ASSUME NEW c \in Call, StoreToken(c) PROVE FALSE
    <3>1. Minted(calls[c].token) /\ stored' = calls[c].token
      BY <1>3, <2>4 DEF StoreToken, Write, MintedInv, CallMinted
    <3>2. QED
      BY <3>1, TokenAssumption DEF Minted
  <2>5. stored' # stored
    OBVIOUS
  <2>6. ASSUME NEW c \in Call,
               \/ WebSignOut(c) \/ AdmitSession(c) \/ RevokeAllForUser(c) \/ Exchange(c)
               \/ DropToken(c) \/ Refresh(c) \/ AdmitToken(c) \/ Slide(c) \/ ExtendExpiry(c)
               \/ RefreshErrs(c) \/ FailRefresh(c) \/ StopWorker(c) \/ SignOut(c) \/ Revoke(c)
               \/ FailSignOut(c) \/ EndRevoke(c)
               \/ \E t \in Token : Mint(c, t)
        PROVE  FALSE
    <3>1. CASE WebSignOut(c) \/ AdmitSession(c) \/ RevokeAllForUser(c) \/ Exchange(c)
      BY <2>5, <3>1 DEF WebSignOut, AdmitSession, RevokeAllForUser, Exchange, store
    <3>2. CASE DropToken(c) \/ Refresh(c) \/ AdmitToken(c) \/ Slide(c) \/ ExtendExpiry(c)
      BY <2>5, <3>2 DEF DropToken, Refresh, AdmitToken, Slide, ExtendExpiry, store
    <3>3. CASE \/ RefreshErrs(c) \/ FailRefresh(c) \/ StopWorker(c)
               \/ SignOut(c) \/ Revoke(c) \/ FailSignOut(c) \/ EndRevoke(c)
      BY <2>5, <3>3 DEF RefreshErrs, FailRefresh, StopWorker, SignOut, Revoke,
                        FailSignOut, EndRevoke, store
    <3>4. CASE \E t \in Token : Mint(c, t)
      BY <2>5, <3>4 DEF Mint, store
    <3>5. QED
      BY <2>6, <3>1, <3>2, <3>3, <3>4
  <2>7. ASSUME WebSignIn \/ EndSession \/ Mount \/ OnChange \/ Evaluate \/ TokenTick
        PROVE  FALSE
    <3>1. CASE WebSignIn \/ EndSession \/ Mount
      BY <2>5, <3>1 DEF WebSignIn, EndSession, Mount, store
    <3>2. CASE OnChange \/ TokenTick
      BY <2>5, <3>2 DEF OnChange, TokenTick, store
    <3>3. CASE Evaluate
      BY <2>5, <3>3 DEF Evaluate, store
    <3>4. QED
      BY <2>7, <3>1, <3>2, <3>3
  <2>8. UNCHANGED tokenVars => stored' = stored
    BY DEF tokenVars, store
  <2>9. QED
    BY <1>3, <2>1, <2>2, <2>3, <2>4, <2>5, <2>6, <2>7, <2>8 DEF TokenNext
<1>4. QED
  BY <1>1, <1>2, <1>3, PTL DEF TokenSpec, LiveTokenIsKept

(***************************************************************************)
(* The last note on its way to the gate tells of the token that is stored; *)
(* without a note the gate has followed.  No time passes under a note or   *)
(* an answer, so that a change that is still to be heard of has left no    *)
(* token or a fresh one, and only the initial check can read an expired    *)
(* date, and then it clears the storage.                                   *)
(***************************************************************************)
LastNoteTells == inbox # <<>> => inbox[Len(inbox)].token = stored
GateFollowed ==
  inbox = <<>> => /\ gate = "in" => stored # NoToken
                  /\ gate = "out" /\ ~clearing => stored = NoToken
ChangesAreFresh ==
  (\E i \in 1 .. Len(inbox) : inbox[i].kind = "change") => stored = NoToken \/ ~Expired(expires)
ReadsAreFresh ==
  \A i \in 1 .. Len(inbox) :
    inbox[i].kind = "read" /\ inbox[i].token # NoToken /\ ~(mounting /\ i = 1)
      => ~Expired(inbox[i].until)
MountReadsFirst == mounting => inbox # <<>> /\ inbox[1].kind = "read"
AnswersAreFresh == \A c \in Call : calls[c].step = "answered" => calls[c].until = clock + Lifetime

GateInv == /\ LastNoteTells /\ GateFollowed /\ ChangesAreFresh /\ ReadsAreFresh
           /\ MountReadsFirst /\ AnswersAreFresh

\* A sequence of notes without its head, and with one more at its end.
LEMMA NotesInOrder ==
  ASSUME NEW R, NEW s \in Seq(R), NEW e \in R
  PROVE  /\ Len(s) \in Nat /\ (s = <<>> <=> Len(s) = 0)
         /\ s \o <<e>> \in Seq(R) /\ s \o <<e>> # <<>> /\ Len(s \o <<e>>) = Len(s) + 1
         /\ (s \o <<e>>)[Len(s) + 1] = e
         /\ \A i \in 1 .. Len(s) : (s \o <<e>>)[i] = s[i]
         /\ Append(s, e) = s \o <<e>>
         /\ s # <<>> => /\ Tail(s) \in Seq(R) /\ Head(s) = s[1] /\ Len(Tail(s)) = Len(s) - 1
                        /\ \A i \in 1 .. Len(Tail(s)) : Tail(s)[i] = s[i + 1]
OBVIOUS

\* What a write of the storage sends to the gate.
LEMMA WritesTell ==
  ASSUME TokenTypeOK, GateInv, NEW t \in Token \cup {NoToken}, NEW until \in Dates, Write(t, until),
         t = NoToken \/ ~Expired(until), UNCHANGED <<clock, gate, mounting>>,
         clearing' = clearing \/ t = NoToken
  PROVE  LastNoteTells' /\ GateFollowed' /\ ChangesAreFresh' /\ ReadsAreFresh' /\ MountReadsFirst'
<1> DEFINE note == [kind |-> "change", token |-> t, until |-> 0]
<1>1. /\ inbox \in Seq(Notes) /\ stored' = t /\ expires' = until
      /\ inbox' = inbox \o Changed(stored, t)
  BY DEF TokenTypeOK, Write
<1>2. stored' = NoToken \/ ~Expired(expires)'
  BY <1>1 DEF Expired
<1>3. ChangesAreFresh'
  BY <1>2 DEF ChangesAreFresh
<1>4. CASE t = stored
  <2>1. inbox' = inbox
    BY <1>1, <1>4 DEF Changed
  <2>2. LastNoteTells' /\ MountReadsFirst'
    BY <1>1, <1>4, <2>1 DEF GateInv, LastNoteTells, MountReadsFirst
  <2>3. GateFollowed'
    BY <1>1, <1>4, <2>1 DEF GateInv, GateFollowed
  <2>4. ReadsAreFresh'
    BY <2>1 DEF GateInv, ReadsAreFresh, Expired
  <2>5. QED
    BY <1>3, <2>2, <2>3, <2>4
<1>5. CASE t # stored
  <2>1. note \in Notes /\ note.kind = "change" /\ note.token = t
    BY TokenAssumption DEF Notes, Dates
  <2>2. inbox' = inbox \o <<note>>
    BY <1>1, <1>5 DEF Changed
  <2> HIDE DEF note
  <2>3. /\ Len(inbox) \in Nat /\ (inbox = <<>> <=> Len(inbox) = 0)
        /\ inbox' # <<>> /\ Len(inbox') = Len(inbox) + 1 /\ inbox'[Len(inbox) + 1] = note
        /\ \A i \in 1 .. Len(inbox) : inbox'[i] = inbox[i]
    BY <1>1, <2>1, <2>2, NotesInOrder
  <2>4. LastNoteTells'
    BY <1>1, <2>1, <2>3 DEF LastNoteTells
  <2>5. GateFollowed'
    BY <2>3 DEF GateFollowed
  <2>6. ReadsAreFresh'
    <3>1. ASSUME NEW i \in 1 .. Len(inbox'), inbox'[i].kind = "read", inbox'[i].token # NoToken,
                 ~(mounting' /\ i = 1)
          PROVE  ~(inbox'[i].until <= clock')
      <4>1. i # Len(inbox) + 1
        BY <2>1, <2>3, <3>1
      <4>2. i \in 1 .. Len(inbox)
        BY <2>3, <4>1
      <4>3. QED
        BY <2>3, <3>1, <4>2 DEF GateInv, ReadsAreFresh, Expired
    <3>2. QED
      BY <3>1 DEF ReadsAreFresh, Expired
  <2>7. MountReadsFirst'
    BY <2>3 DEF GateInv, MountReadsFirst
  <2>8. QED
    BY <1>3, <2>4, <2>5, <2>6, <2>7
<1>6. QED
  BY <1>4, <1>5

\* Answers stay as fresh as they were given, for the clock waits for them.
LEMMA AnswersStayFresh ==
  ASSUME TokenTypeOK, AnswersAreFresh, [TokenNext]_tokenVars
  PROVE  AnswersAreFresh'
<1>1. CASE UNCHANGED tokenVars
  BY <1>1 DEF tokenVars, AnswersAreFresh
<1>2. CASE TokenTick
  BY <1>2 DEF TokenTick, AnswersAreFresh
<1>3. CASE TokenNext /\ clock' = clock
  <2>1. ASSUME NEW d \in Call, calls'[d].step = "answered"
        PROVE  calls'[d].until = clock + Lifetime
    <3>1. CASE calls'[d] = calls[d]
      BY <2>1, <3>1 DEF AnswersAreFresh
    <3>2. CASE calls[d].step = "answered" /\ calls'[d].until = calls[d].until
      BY <3>2 DEF AnswersAreFresh
    <3>3. QED
      BY <1>3, <2>1, <3>1, <3>2, RequestsGoOn
  <2>2. QED
    BY <1>3, <2>1 DEF AnswersAreFresh
<1>4. ASSUME NEW c \in Call,
             \/ WebSignOut(c) \/ AdmitSession(c) \/ RevokeAllForUser(c)
             \/ Exchange(c) \/ StoreToken(c) \/ DropToken(c)
             \/ Refresh(c) \/ AdmitToken(c) \/ Slide(c) \/ ExtendExpiry(c)
             \/ ClearOn401(c) \/ RefreshErrs(c) \/ FailRefresh(c) \/ StopWorker(c)
             \/ SignOut(c) \/ Revoke(c) \/ FailSignOut(c) \/ RemoveKeys(c) \/ EndRevoke(c)
             \/ \E t \in Token : Mint(c, t)
      PROVE  clock' = clock
  <2>1. CASE WebSignOut(c) \/ AdmitSession(c) \/ RevokeAllForUser(c) \/ Exchange(c) \/ StoreToken(c)
    BY <2>1 DEF WebSignOut, AdmitSession, RevokeAllForUser, Exchange, StoreToken
  <2>2. CASE DropToken(c) \/ Refresh(c) \/ AdmitToken(c) \/ Slide(c) \/ ExtendExpiry(c) \/ ClearOn401(c)
    BY <2>2 DEF DropToken, Refresh, AdmitToken, Slide, ExtendExpiry, ClearOn401
  <2>3. CASE \/ RefreshErrs(c) \/ FailRefresh(c) \/ StopWorker(c) \/ SignOut(c)
             \/ Revoke(c) \/ FailSignOut(c) \/ EndRevoke(c) \/ RemoveKeys(c)
    BY <2>3 DEF RefreshErrs, FailRefresh, StopWorker, SignOut, Revoke, FailSignOut, EndRevoke,
        RemoveKeys
  <2>4. CASE \E t \in Token : Mint(c, t)
    BY <2>4 DEF Mint
  <2>5. QED
    BY <1>4, <2>1, <2>2, <2>3, <2>4
<1>5. ASSUME WebSignIn \/ EndSession \/ Mount \/ OnChange \/ Evaluate \/ ClearOnMount
      PROVE  clock' = clock
  <2>1. CASE WebSignIn \/ EndSession \/ Mount \/ OnChange \/ ClearOnMount
    BY <2>1 DEF WebSignIn, EndSession, Mount, OnChange, ClearOnMount
  <2>2. CASE Evaluate
    BY <2>2 DEF Evaluate
  <2>3. QED
    BY <1>5, <2>1, <2>2
<1>6. QED
  BY <1>1, <1>2, <1>3, <1>4, <1>5 DEF TokenNext

\* GateInv is inductive.
LEMMA GateInductive ==
  ASSUME TokenTypeOK, GateInv, [TokenNext]_tokenVars
  PROVE  GateInv'
<1> USE TokenAssumption
<1> DEFINE Rest == LastNoteTells' /\ GateFollowed' /\ ChangesAreFresh' /\ ReadsAreFresh' /\ MountReadsFirst'
<1>1. /\ calls \in [Call -> Calls] /\ stored \in Token \cup {NoToken} /\ expires \in Dates
      /\ inbox \in Seq(Notes) /\ clock \in 0 .. MaxTokenTime /\ ReadNote \in Notes
      /\ mounting \in BOOLEAN /\ clearing \in BOOLEAN
  BY InboxTyped DEF TokenTypeOK
<1>2. ASSUME UNCHANGED <<clock, store, panel>> PROVE Rest
  <2>1. UNCHANGED <<clock, stored, expires, inbox, mounting, gate, clearing>>
    BY <1>2 DEF store, panel
  <2>2. LastNoteTells' /\ GateFollowed'
    BY <2>1 DEF GateInv, LastNoteTells, GateFollowed
  <2>3. ChangesAreFresh' /\ ReadsAreFresh' /\ MountReadsFirst'
    BY <2>1 DEF GateInv, ChangesAreFresh, ReadsAreFresh, MountReadsFirst, Expired
  <2>4. QED
    BY <2>2, <2>3
<1>3. ASSUME NEW c \in Call, ExtendExpiry(c) PROVE Rest
  <2>1. /\ expires' = calls[c].until /\ calls[c].until = clock + Lifetime
        /\ UNCHANGED <<clock, stored, inbox, mounting, gate, clearing>>
    BY <1>3 DEF ExtendExpiry, GateInv, AnswersAreFresh, At, panel
  <2>2. ~(expires' <= clock')
    BY <1>1, <2>1
  <2>3. LastNoteTells' /\ GateFollowed'
    BY <2>1 DEF GateInv, LastNoteTells, GateFollowed
  <2>4. ChangesAreFresh'
    BY <2>2 DEF ChangesAreFresh, Expired
  <2>5. ReadsAreFresh' /\ MountReadsFirst'
    BY <2>1 DEF GateInv, ReadsAreFresh, MountReadsFirst, Expired
  <2>6. QED
    BY <2>3, <2>4, <2>5
<1>4. ASSUME NEW c \in Call, StoreToken(c) PROVE Rest
  <2>1. /\ Write(calls[c].token, calls[c].until) /\ calls[c].until = clock + Lifetime
        /\ UNCHANGED <<clock, gate, mounting, clearing>>
    BY <1>4, Zenon DEF StoreToken, GateInv, AnswersAreFresh, At
  <2>2. /\ calls[c].token \in Token \cup {NoToken} /\ calls[c].until \in Dates
    BY <1>1 DEF Calls
  <2>3. PICK t \in Token \cup {NoToken}, until \in Dates :
          Write(t, until) /\ until = clock + Lifetime
    BY <2>1, <2>2
  <2>4. ~Expired(until)
    BY <1>1, <2>3 DEF Expired
  <2>5. clearing' = clearing \/ t = NoToken
    BY <2>1
  <2>6. QED
    BY <2>1, <2>3, <2>4, <2>5, WritesTell
<1>5. ASSUME Write(NoToken, 0), UNCHANGED <<clock, gate, mounting>> PROVE Rest
  <2>1. NoToken \in Token \cup {NoToken} /\ 0 \in Dates
    BY DEF Dates
  <2>2. QED
    BY <1>5, <2>1, WritesTell
<1>6. ASSUME NEW c \in Call, ClearOn401(c) \/ RemoveKeys(c) PROVE Rest
  <2>1. Write(NoToken, 0) /\ UNCHANGED <<clock, gate, mounting>>
    BY <1>6, Zenon DEF ClearOn401, RemoveKeys
  <2>2. QED
    BY <1>5, <2>1
<1>7. ASSUME ClearOnMount PROVE Rest
  <2>1. Write(NoToken, 0) /\ UNCHANGED <<clock, gate, mounting>>
    BY <1>7, Zenon DEF ClearOnMount
  <2>2. QED
    BY <1>5, <2>1
<1>8. ASSUME Mount PROVE Rest
  <2>1. /\ inbox' = <<ReadNote>> /\ UNCHANGED <<clock, stored, expires>> /\ mounting' = TRUE
        /\ gate' = "checking"
    BY <1>8 DEF Mount, store
  <2>2. /\ inbox' # <<>> /\ Len(inbox') = 1 /\ inbox'[1] = ReadNote
        /\ ReadNote.kind = "read" /\ ReadNote.token = stored
    BY <2>1 DEF ReadNote
  <2>3. LastNoteTells' /\ GateFollowed' /\ MountReadsFirst'
    BY <2>1, <2>2 DEF LastNoteTells, GateFollowed, MountReadsFirst
  <2>4. \A i \in 1 .. Len(inbox') : i = 1
    BY <2>2
  <2>5. ChangesAreFresh' /\ ReadsAreFresh'
    BY <2>1, <2>2, <2>4 DEF ChangesAreFresh, ReadsAreFresh
  <2>6. QED
    BY <2>3, <2>5
<1>9. ASSUME inbox # <<>>
      PROVE  /\ Tail(inbox) \in Seq(Notes) /\ Len(Tail(inbox)) = Len(inbox) - 1
             /\ Len(inbox) \in Nat \ {0} /\ Head(inbox) = inbox[1]
             /\ (Tail(inbox) = <<>> <=> Len(Tail(inbox)) = 0)
             /\ \A i \in 1 .. Len(Tail(inbox)) : Tail(inbox)[i] = inbox[i + 1]
  <2>1. /\ Tail(inbox) \in Seq(Notes) /\ Len(Tail(inbox)) = Len(inbox) - 1
        /\ Len(inbox) \in Nat \ {0} /\ Head(inbox) = inbox[1]
        /\ \A i \in 1 .. Len(Tail(inbox)) : Tail(inbox)[i] = inbox[i + 1]
    BY <1>1, <1>9, NotesInOrder
  <2>2. Tail(inbox) = <<>> <=> Len(Tail(inbox)) = 0
    BY <1>1, <2>1, NotesInOrder
  <2>3. QED
    BY <2>1, <2>2
<1>10. ASSUME inbox # <<>>, inbox' = Tail(inbox), UNCHANGED <<clock, stored, expires>>, mounting' = FALSE
       PROVE  LastNoteTells' /\ ChangesAreFresh' /\ ReadsAreFresh' /\ MountReadsFirst'
  <2>1. \A i \in 1 .. Len(inbox') : i + 1 \in 1 .. Len(inbox) /\ inbox'[i] = inbox[i + 1] /\ i + 1 # 1
    BY <1>9, <1>10
  <2>2. LastNoteTells'
    <3>1. CASE inbox' = <<>>
      BY <3>1 DEF LastNoteTells
    <3>2. CASE inbox' # <<>>
      <4>1. Len(inbox') \in 1 .. Len(inbox') /\ Len(inbox') + 1 = Len(inbox)
        BY <1>9, <1>10, <3>2, NotesInOrder
      <4>2. inbox'[Len(inbox')] = inbox[Len(inbox)]
        BY <2>1, <4>1
      <4>3. QED
        BY <1>10, <4>2 DEF GateInv, LastNoteTells
    <3>3. QED
      BY <3>1, <3>2
  <2>3. ChangesAreFresh'
    BY <1>10, <2>1 DEF GateInv, ChangesAreFresh, Expired
  <2>4. ReadsAreFresh'
    BY <1>10, <2>1 DEF GateInv, ReadsAreFresh, Expired
  <2>5. MountReadsFirst'
    BY <1>10 DEF MountReadsFirst
  <2>6. QED
    BY <2>2, <2>3, <2>4, <2>5
<1>11. ASSUME OnChange PROVE Rest
  <2>1. /\ inbox # <<>> /\ Head(inbox).kind = "change"
        /\ UNCHANGED <<clock, stored, expires, mounting, clearing>>
    BY <1>11 DEF OnChange, store
  <2>2. inbox[1].kind = "change" /\ 1 \in 1 .. Len(inbox)
    BY <1>9, <2>1
  <2>3. mounting = FALSE
    BY <1>1, <2>2 DEF GateInv, MountReadsFirst
  <2>4. stored = NoToken \/ ~Expired(expires)
    BY <2>2 DEF GateInv, ChangesAreFresh
  <2>5. CASE Head(inbox).token = NoToken
    <3>1. gate' = "out" /\ inbox' = Tail(inbox)
      BY <1>11, <2>5 DEF OnChange
    <3>2. LastNoteTells' /\ ChangesAreFresh' /\ ReadsAreFresh' /\ MountReadsFirst'
      BY <1>10, <2>1, <2>3, <3>1
    <3>3. GateFollowed'
      <4>1. ASSUME inbox' = <<>> PROVE stored' = NoToken
        <5>1. Len(inbox) = 1
          BY <1>9, <2>1, <3>1, <4>1
        <5>2. QED
          BY <1>9, <2>1, <2>5, <5>1 DEF GateInv, LastNoteTells
      <4>2. QED
        BY <3>1, <4>1 DEF GateFollowed
    <3>4. QED
      BY <3>2, <3>3
  <2>6. CASE Head(inbox).token # NoToken
    <3>1. inbox' = Append(Tail(inbox), ReadNote)
      BY <1>11, <2>6 DEF OnChange
    <3>2. PICK s \in Seq(Notes) : s = Tail(inbox)
      BY <1>9, <2>1
    <3>3. /\ Len(s) \in Nat /\ inbox' # <<>> /\ Len(inbox') = Len(s) + 1
          /\ inbox'[Len(s) + 1] = ReadNote /\ \A i \in 1 .. Len(s) : inbox'[i] = s[i]
      BY <1>1, <3>1, <3>2, NotesInOrder
    <3>4. \A i \in 1 .. Len(s) : i + 1 \in 1 .. Len(inbox) /\ s[i] = inbox[i + 1]
      BY <1>9, <2>1, <3>2
    <3>5. ReadNote.kind = "read" /\ ReadNote.token = stored /\ ReadNote.until = expires
      BY DEF ReadNote
    <3>6. LastNoteTells' /\ GateFollowed' /\ MountReadsFirst'
      BY <2>1, <2>3, <3>3, <3>5 DEF LastNoteTells, GateFollowed, MountReadsFirst
    <3>7. ChangesAreFresh'
      BY <2>1, <2>4 DEF ChangesAreFresh, Expired
    <3>8. ASSUME NEW i \in 1 .. Len(inbox'), inbox'[i].kind = "read", inbox'[i].token # NoToken,
                 ~(mounting' /\ i = 1)
          PROVE  ~(inbox'[i].until <= clock')
      <4>1. CASE i = Len(s) + 1
        BY <2>1, <2>4, <3>3, <3>5, <3>8, <4>1 DEF Expired
      <4>2. CASE i # Len(s) + 1
        <5>1. i \in 1 .. Len(s)
          BY <3>3, <4>2
        <5>2. QED
          BY <2>1, <2>3, <3>3, <3>4, <3>8, <5>1 DEF GateInv, ReadsAreFresh, Expired
      <4>3. QED
        BY <4>1, <4>2
    <3>9. ReadsAreFresh'
      BY <3>8 DEF ReadsAreFresh, Expired
    <3>10. QED
      BY <3>6, <3>7, <3>9
  <2>7. QED
    BY <2>5, <2>6
<1>12. ASSUME Evaluate PROVE Rest
  <2> DEFINE out == Head(inbox).token = NoToken \/ Expired(Head(inbox).until)
  <2>1. /\ inbox # <<>> /\ Head(inbox).kind = "read" /\ inbox' = Tail(inbox) /\ mounting' = FALSE
        /\ UNCHANGED <<clock, stored, expires>>
        /\ gate' = (IF out THEN "out" ELSE "in")
    BY <1>12 DEF Evaluate, store
  <2>2. clearing' = (clearing \/ (mounting /\ out))
    BY <1>12, Zenon DEF Evaluate
  <2>3. LastNoteTells' /\ ChangesAreFresh' /\ ReadsAreFresh' /\ MountReadsFirst'
    BY <1>10, <2>1
  <2>4. ASSUME inbox' = <<>>
        PROVE  /\ gate' = "in" => stored' # NoToken
               /\ gate' = "out" /\ ~clearing' => stored' = NoToken
    <3>1. Len(inbox) = 1
      BY <1>9, <2>1, <2>4
    <3>2. Head(inbox).token = stored
      BY <1>9, <2>1, <3>1 DEF GateInv, LastNoteTells
    <3>3. gate' = "in" => stored' # NoToken
      BY <2>1, <3>2
    <3>4. ASSUME out, ~clearing', stored # NoToken PROVE FALSE
      <4>1. ~mounting
        BY <2>2, <3>4
      <4>2. Expired(Head(inbox).until)
        BY <3>2, <3>4
      <4>3. 1 \in 1 .. Len(inbox)
        BY <3>1
      <4>4. QED
        BY <1>9, <2>1, <3>2, <3>4, <4>1, <4>2, <4>3 DEF GateInv, ReadsAreFresh
    <3>5. QED
      BY <2>1, <3>3, <3>4
  <2>5. GateFollowed'
    BY <2>4 DEF GateFollowed
  <2>6. QED
    BY <2>3, <2>5
<1>13. ASSUME TokenTick PROVE Rest
  <2>1. inbox = <<>> /\ UNCHANGED <<stored, expires, inbox, mounting, gate, clearing>>
    BY <1>13 DEF TokenTick, store, panel
  <2>2. LastNoteTells' /\ GateFollowed' /\ MountReadsFirst'
    BY <2>1 DEF GateInv, LastNoteTells, GateFollowed, MountReadsFirst
  <2>3. 1 .. Len(inbox') = {}
    BY <2>1
  <2>4. ChangesAreFresh' /\ ReadsAreFresh'
    BY <2>3 DEF ChangesAreFresh, ReadsAreFresh
  <2>5. QED
    BY <2>2, <2>4
<1>14. ASSUME NEW c \in Call,
             \/ WebSignOut(c) \/ AdmitSession(c) \/ RevokeAllForUser(c)
             \/ Exchange(c) \/ DropToken(c) \/ AdmitToken(c) \/ Slide(c) \/ RefreshErrs(c)
             \/ FailRefresh(c) \/ StopWorker(c)
             \/ SignOut(c) \/ Revoke(c) \/ FailSignOut(c) \/ EndRevoke(c)
             \/ \E t \in Token : Mint(c, t)
      PROVE  UNCHANGED <<clock, store, panel>>
  BY <1>14 DEF WebSignOut, AdmitSession, RevokeAllForUser, Exchange, DropToken, AdmitToken, Slide,
               RefreshErrs, FailRefresh, StopWorker, SignOut, Revoke, FailSignOut, EndRevoke, Mint
<1>15. ASSUME WebSignIn \/ EndSession PROVE UNCHANGED <<clock, store, panel>>
  BY <1>15 DEF WebSignIn, EndSession
<1>16. ASSUME NEW c \in Call, Refresh(c) PROVE Rest
  <2>1. UNCHANGED <<clock, stored, expires, inbox, mounting, gate, clearing>>
    BY <1>16 DEF Refresh, store
  <2>2. LastNoteTells' /\ GateFollowed'
    BY <2>1 DEF GateInv, LastNoteTells, GateFollowed
  <2>3. ChangesAreFresh' /\ ReadsAreFresh' /\ MountReadsFirst'
    BY <2>1 DEF GateInv, ChangesAreFresh, ReadsAreFresh, MountReadsFirst, Expired
  <2>4. QED
    BY <2>2, <2>3
<1>17. AnswersAreFresh'
  BY AnswersStayFresh DEF GateInv
<1>18. ASSUME UNCHANGED tokenVars PROVE UNCHANGED <<clock, store, panel>>
  BY <1>18 DEF tokenVars
<1>19. ASSUME Rest PROVE GateInv'
  BY <1>17, <1>19 DEF GateInv
<1> HIDE DEF Rest
<1>20. QED
  BY <1>2, <1>3, <1>4, <1>6, <1>7, <1>8, <1>11, <1>12, <1>13, <1>14, <1>15, <1>16, <1>18, <1>19
  DEF TokenNext

(***************************************************************************)
(* AuthGate.tsx:145-171: once it has handled its events and reads, the     *)
(* panel is signed in only with a stored token, and signed out only        *)
(* without one or with one that has expired.                               *)
(***************************************************************************)
THEOREM GateFollows == TokenSpec => []GateFollowsStorage
<1>1. TokenInit => TokenTypeOK /\ GateInv
  <2>1. ASSUME TokenInit PROVE GateInv
    <3>1. inbox = <<>> /\ mounting = FALSE /\ stored = NoToken /\ gate = "out"
      BY <2>1 DEF TokenInit
    <3>2. 1 .. Len(inbox) = {}
      BY <3>1
    <3>3. AnswersAreFresh
      BY <2>1 DEF TokenInit, AnswersAreFresh, Idle
    <3>4. ChangesAreFresh /\ ReadsAreFresh
      BY <3>2 DEF ChangesAreFresh, ReadsAreFresh
    <3>5. QED
      BY <3>1, <3>3, <3>4 DEF GateInv, LastNoteTells, GateFollowed, MountReadsFirst
  <2>2. QED
    BY <2>1, TokenInitTyped
<1>2. TokenTypeOK /\ GateInv /\ [TokenNext]_tokenVars => TokenTypeOK' /\ GateInv'
  BY TokenTyped, GateInductive
<1>3. GateInv => GateFollowsStorage
  BY DEF GateInv, GateFollowed, GateFollowsStorage, Settled
<1>4. QED
  BY <1>1, <1>2, <1>3, PTL DEF TokenSpec

-------------------------------------------------------------------------------
\* ScorePanel: the scores of the side panel.

Safe == ScorePanelTypeOK /\ ScorePanelInv

\* At the start nothing is shown, cached or asked for.
LEMMA SafeInit == ScorePanelInit => Safe
  <1> SUFFICES ASSUME ScorePanelInit PROVE Safe
    OBVIOUS
  <1>1. /\ activeJob = NoJob /\ cachedScore = NoCache /\ jobNotes = <<>> /\ Len(jobNotes) = 0
        /\ shownJob = NoJob /\ shownScore = NoScore /\ scoring = FALSE /\ detected = 0
        /\ requests \in [Scoring -> ScoreRequests]
        /\ \A r \in Scoring : requests[r].step = "none" /\ requests[r].mine = FALSE
    BY DEF ScorePanelInit, Unsent, ScoreRequests
  <1>2. ScorePanelTypeOK
    <2>1. jobNotes \in Seq(JobNotes)
      BY <1>1
    <2>2. detected \in 0 .. MaxDetected
      BY <1>1, ScorePanelAssumption
    <2> QED BY <1>1, <2>1, <2>2 DEF ScorePanelTypeOK, ScoreCaches
  <1>3. ScoreOfThisJob /\ OneRequestPerPanel
    BY <1>1 DEF ScoreOfThisJob, OneRequestPerPanel
  <1>4. Told = activeJob
    BY <1>1 DEF Told
  <1>5. ScorePanelInv
    BY <1>1, <1>3, <1>4 DEF ScorePanelInv
  <1> QED BY <1>2, <1>5 DEF Safe

\* Whose request is crossed, and nothing else of it.
LEMMA CrossingCrosses ==
  ASSUME ScorePanelTypeOK
  PROVE  /\ Crossing \in [Scoring -> ScoreRequests]
         /\ \A r \in Scoring :
              /\ Crossing[r].mine = requests[r].mine /\ Crossing[r].step = requests[r].step
              /\ Crossing[r].of = requests[r].of /\ Crossing[r].url = requests[r].url
              /\ requests[r].step # "none" => Crossing[r].crossed
              /\ requests[r].crossed => Crossing[r].crossed
  <1>1. ASSUME NEW r \in Scoring
        PROVE  [requests[r] EXCEPT !.crossed = @ \/ requests[r].step # "none"] \in ScoreRequests
    <2>1. (requests[r].crossed \/ requests[r].step # "none") \in BOOLEAN
      OBVIOUS
    <2>2. requests[r] \in ScoreRequests
      BY DEF ScorePanelTypeOK
    <2> QED BY <2>1, <2>2 DEF ScoreRequests
  <1>2. Crossing \in [Scoring -> ScoreRequests]
    BY <1>1 DEF Crossing
  <1>3. \A r \in Scoring :
          /\ Crossing[r].mine = requests[r].mine /\ Crossing[r].step = requests[r].step
          /\ Crossing[r].of = requests[r].of /\ Crossing[r].url = requests[r].url
          /\ requests[r].step # "none" => Crossing[r].crossed
          /\ requests[r].crossed => Crossing[r].crossed
    BY DEF Crossing, ScorePanelTypeOK, ScoreRequests
  <1> QED BY <1>2, <1>3

\* A posting that is detected marks what is under way for another as crossed.
LEMMA DetectedStep ==
  ASSUME Safe, NEW j \in Job, HandleJobDetected(j)
  PROVE  Safe'
  <1> USE ScorePanelAssumption DEF Safe
  <1>1. CASE j = activeJob
    BY <1>1 DEF HandleJobDetected, ScorePanelTypeOK, ScorePanelInv, ScoreOfThisJob,
         OneRequestPerPanel, Told
  <1>2. CASE j # activeJob
    <2>1. /\ jobNotes' = Append(jobNotes, [kind |-> "change", job |-> j, cache |-> NoCache])
          /\ requests' = Crossing /\ activeJob' = j /\ detected' \in 0 .. MaxDetected
          /\ UNCHANGED <<cachedScore, shownJob, shownScore, scoring>>
      BY <1>2 DEF HandleJobDetected, ScorePanelTypeOK
    <2>2. [kind |-> "change", job |-> j, cache |-> NoCache] \in JobNotes
      BY DEF JobNotes, ScoreCaches
    <2>3. jobNotes' \in Seq(JobNotes)
      BY <2>1, <2>2 DEF ScorePanelTypeOK
    <2>4. ScorePanelTypeOK'
      BY <2>1, <2>3, CrossingCrosses DEF ScorePanelTypeOK
    <2>5. /\ Len(jobNotes') = Len(jobNotes) + 1 /\ Len(jobNotes) \in Nat
          /\ \A i \in 1 .. Len(jobNotes) : jobNotes'[i] = jobNotes[i]
          /\ jobNotes'[Len(jobNotes')] = [kind |-> "change", job |-> j, cache |-> NoCache]
      BY <2>1 DEF ScorePanelTypeOK
    <2>6. ScoreOfThisJob' /\ OneRequestPerPanel'
      BY <2>1, CrossingCrosses DEF ScorePanelInv, ScoreOfThisJob, OneRequestPerPanel
    <2>7. Told' = activeJob'
      BY <2>1, <2>5 DEF Told
    <2> QED
      BY <2>1, <2>4, <2>5, <2>6, <2>7, CrossingCrosses
         DEF ScorePanelInv, ScorePanelTypeOK, ScoreRequests
  <1> QED BY <1>1, <1>2

\* A panel that is mounted anew has nothing of its own under way.
LEMMA MountStep ==
  ASSUME Safe, MountScorePanel
  PROVE  Safe'
  <1> USE DEF Safe
  <1>1. /\ jobNotes' = <<Note("mount")>> /\ Len(jobNotes') = 1 /\ jobNotes'[1] = Note("mount")
        /\ Note("mount") \in JobNotes /\ jobNotes' \in Seq(JobNotes)
    BY DEF MountScorePanel, Note, ScorePanelTypeOK, JobNotes
  <1>2. /\ requests' \in [Scoring -> ScoreRequests]
        /\ \A r \in Scoring :
             /\ requests'[r].mine = FALSE /\ requests'[r].step = requests[r].step
             /\ requests'[r].of = requests[r].of /\ requests'[r].url = requests[r].url
             /\ requests'[r].crossed = requests[r].crossed
    BY DEF MountScorePanel, ScorePanelTypeOK, ScoreRequests
  <1>3. ScorePanelTypeOK'
    BY <1>1, <1>2 DEF MountScorePanel, ScorePanelTypeOK
  <1>4. ScoreOfThisJob' /\ OneRequestPerPanel'
    BY <1>2 DEF MountScorePanel, ScorePanelInv, ScoreOfThisJob, OneRequestPerPanel
  <1>5. Told' = activeJob'
    BY <1>1 DEF MountScorePanel, Told, Note
  <1> QED
    BY <1>1, <1>2, <1>3, <1>4, <1>5 DEF MountScorePanel, ScorePanelInv, Note, ScoreOfThisJob

\* What Head and Tail leave of the notes.
LEMMA NotesAfterHead ==
  ASSUME Safe, jobNotes # <<>>, jobNotes' = Tail(jobNotes)
  PROVE  /\ jobNotes[1] = Head(jobNotes) /\ jobNotes[1] \in JobNotes
         /\ Len(jobNotes) \in Nat /\ Len(jobNotes) >= 1 /\ Len(jobNotes') = Len(jobNotes) - 1
         /\ jobNotes' \in Seq(JobNotes)
         /\ \A i \in 1 .. Len(jobNotes') : jobNotes'[i] = jobNotes[i + 1]
         /\ jobNotes' = <<>> <=> Len(jobNotes) = 1
  <1>1. jobNotes \in Seq(JobNotes) /\ Len(jobNotes) \in Nat
    BY DEF Safe, ScorePanelTypeOK
  <1>2. jobNotes[1] = Head(jobNotes) /\ Len(jobNotes) >= 1
    BY <1>1
  <1>3. jobNotes[1] \in JobNotes
    BY <1>1, <1>2
  <1>4. Len(jobNotes') = Len(jobNotes) - 1 /\ jobNotes' \in Seq(JobNotes)
    BY <1>1, <1>2
  <1>5. \A i \in 1 .. Len(jobNotes') : jobNotes'[i] = jobNotes[i + 1]
    BY <1>1, <1>2, <1>4
  <1>6. jobNotes' = <<>> <=> Len(jobNotes) = 1
    BY <1>1, <1>4
  <1> QED BY <1>1, <1>2, <1>3, <1>4, <1>5, <1>6

\* The answer to the read on mount brings a score of the posting it names.
LEMMA RestoreStep ==
  ASSUME Safe, Restore
  PROVE  Safe'
  <1> USE DEF Safe
  <1> DEFINE note == jobNotes[1]
  <1>1. /\ jobNotes # <<>> /\ jobNotes' = Tail(jobNotes) /\ Head(jobNotes).kind = "mount"
        /\ UNCHANGED <<activeJob, cachedScore, scoring, requests, detected>>
    BY DEF Restore
  <1>2. note.kind = "mount" /\ shownJob = NoJob /\ shownScore = NoScore /\ 1 \in 1 .. Len(jobNotes)
    BY <1>1, NotesAfterHead DEF ScorePanelInv
  <1>3. \/ note.job = NoJob /\ shownJob' = NoJob /\ shownScore' = NoScore
        \/ /\ note.job # NoJob /\ shownJob' = note.job
           /\ shownScore' = IF note.cache.url = note.job THEN note.cache.score ELSE NoScore
    BY <1>1, <1>2, NotesAfterHead DEF Restore
  <1>4. note.job \in Job \cup {NoJob} /\ note.cache \in ScoreCaches
    BY <1>1, NotesAfterHead DEF JobNotes
  <1>5. shownScore' # NoScore =>
          shownScore' \in Scores /\ (shownScore'.of = shownJob' \/ shownScore'.crossed)
    <2>1. CASE note.job # NoJob /\ note.cache.url = note.job
      <3>1. note.cache # NoCache
        BY <2>1 DEF NoCache
      <3>2. note.cache.score \in Scores
        BY <3>1, <1>4 DEF ScoreCaches
      <3>3. note.cache.score.of = note.cache.url \/ note.cache.score.crossed
        BY <3>1, <1>2 DEF ScorePanelInv
      <3> QED BY <2>1, <3>2, <3>3, <1>3
    <2> QED BY <2>1, <1>3
  <1>6. ScorePanelTypeOK'
    BY <1>1, <1>3, <1>4, <1>5, NotesAfterHead DEF ScorePanelTypeOK
  <1>7. ScoreOfThisJob' /\ OneRequestPerPanel'
    BY <1>1, <1>5 DEF ScorePanelInv, ScoreOfThisJob, OneRequestPerPanel
  <1>8. Told' = activeJob' \/ (jobNotes' = <<>> /\ shownJob' = NoJob)
    BY <1>1, <1>2, <1>3, NotesAfterHead DEF ScorePanelInv, Told
  <1>9. \A r \in Scoring : ~requests[r].mine
    BY <1>2 DEF ScorePanelInv
  <1>10. activeJob = NoJob => note.job = NoJob
    BY <1>2 DEF ScorePanelInv
  <1>11. \A i \in 1 .. Len(jobNotes') : i + 1 \in 1 .. Len(jobNotes) /\ jobNotes'[i].kind # "mount"
    <2> SUFFICES ASSUME NEW i \in 1 .. Len(jobNotes')
                 PROVE  i + 1 \in 1 .. Len(jobNotes) /\ jobNotes'[i].kind # "mount"
      OBVIOUS
    <2>1. i + 1 \in 1 .. Len(jobNotes) /\ i + 1 # 1 /\ jobNotes'[i] = jobNotes[i + 1]
      BY <1>1, NotesAfterHead
    <2> QED BY <2>1 DEF ScorePanelInv
  <1> QED
    BY <1>1, <1>3, <1>6, <1>7, <1>8, <1>9, <1>10, <1>11, NotesAfterHead DEF ScorePanelInv

\* A storage event turns the panel to another posting without its score.
LEMMA StorageChangeStep ==
  ASSUME Safe, HandleStorageChange
  PROVE  Safe'
  <1> USE DEF Safe
  <1> DEFINE note == jobNotes[1]
  <1>1. /\ jobNotes # <<>> /\ jobNotes' = Tail(jobNotes)
        /\ UNCHANGED <<activeJob, cachedScore, scoring, detected>>
    BY DEF HandleStorageChange
  <1>2. shownJob' = note.job /\ note.job \in Job \cup {NoJob} /\ 1 \in 1 .. Len(jobNotes)
    BY <1>1, NotesAfterHead DEF HandleStorageChange, JobNotes
  <1>3. shownScore' = (IF note.job = shownJob THEN shownScore ELSE NoScore)
    BY <1>2 DEF HandleStorageChange
  <1>4. /\ requests' \in [Scoring -> ScoreRequests]
        /\ \A r \in Scoring :
             /\ requests'[r].mine = requests[r].mine /\ requests'[r].step = requests[r].step
             /\ requests'[r].of = requests[r].of /\ requests'[r].url = requests[r].url
             /\ note.job # shownJob /\ requests[r].step # "none" => requests'[r].crossed
             /\ requests[r].crossed => requests'[r].crossed
    <2>1. requests' = IF note.job = shownJob THEN requests ELSE Crossing
      BY <1>2 DEF HandleStorageChange
    <2> QED BY <2>1, CrossingCrosses DEF ScorePanelTypeOK
  <1>5. ScorePanelTypeOK'
    BY <1>1, <1>2, <1>3, <1>4, NotesAfterHead DEF ScorePanelTypeOK
  <1>6. ScoreOfThisJob' /\ OneRequestPerPanel'
    BY <1>1, <1>2, <1>3, <1>4 DEF ScorePanelInv, ScoreOfThisJob, OneRequestPerPanel
  <1>7. Told' = activeJob' \/ (jobNotes' = <<>> /\ shownJob' = NoJob)
    BY <1>1, <1>2, NotesAfterHead DEF ScorePanelInv, Told
  <1>8. activeJob = NoJob => note.job = NoJob
    BY <1>2 DEF ScorePanelInv
  <1>9. \A i \in 1 .. Len(jobNotes') : i + 1 \in 1 .. Len(jobNotes) /\ jobNotes'[i].kind # "mount"
    <2> SUFFICES ASSUME NEW i \in 1 .. Len(jobNotes')
                 PROVE  i + 1 \in 1 .. Len(jobNotes) /\ jobNotes'[i].kind # "mount"
      OBVIOUS
    <2>1. i + 1 \in 1 .. Len(jobNotes) /\ i + 1 # 1 /\ jobNotes'[i] = jobNotes[i + 1]
      BY <1>1, NotesAfterHead
    <2> QED BY <2>1 DEF ScorePanelInv
  <1>10. \A r \in Scoring : requests'[r].mine => requests'[r].of = shownJob' \/ requests'[r].crossed
    BY <1>2, <1>4 DEF ScorePanelInv
  <1>11. shownJob' # NoJob
    <2>1. note \in JobNotes /\ note.kind = "change"
      BY <1>1, NotesAfterHead DEF HandleStorageChange
    <2> QED BY <1>2, <2>1 DEF ScorePanelInv
  <1> QED
    BY <1>1, <1>2, <1>4, <1>5, <1>6, <1>7, <1>8, <1>9, <1>10, <1>11,
       NotesAfterHead DEF ScorePanelInv

\* The rest of the actions concern one request and leave the notes alone.
LEMMA HandleScoreStep ==
  ASSUME Safe, NEW r \in Scoring, HandleScore(r)
  PROVE  Safe'
  <1> USE DEF Safe
  <1> DEFINE inquiry == [step |-> "sent", of |-> shownJob, mine |-> TRUE,
                       crossed |-> shownJob # activeJob, url |-> NoJob]
  <1>1. /\ shownJob # NoJob /\ ~scoring /\ scoring' = TRUE /\ shownScore' = NoScore
        /\ requests' = [requests EXCEPT ![r] = inquiry]
        /\ UNCHANGED <<activeJob, cachedScore, jobNotes, shownJob, detected>>
    BY DEF HandleScore
  <1>2. inquiry \in ScoreRequests /\ activeJob # NoJob
    <2>1. (shownJob # activeJob) \in BOOLEAN
      OBVIOUS
    <2>2. inquiry \in ScoreRequests
      BY <2>1 DEF ScorePanelTypeOK, ScoreRequests
    <2>3. activeJob # NoJob
      BY <1>1 DEF ScorePanelInv
    <2> QED BY <2>2, <2>3
  <1>3. /\ requests'[r] = inquiry
        /\ \A s \in Scoring \ {r} : requests'[s] = requests[s] /\ ~requests[s].mine
    BY <1>1 DEF ScorePanelTypeOK, ScorePanelInv, OneRequestPerPanel
  <1>4. ScorePanelTypeOK'
    BY <1>1, <1>2 DEF ScorePanelTypeOK
  <1>5. ScoreOfThisJob' /\ OneRequestPerPanel'
    BY <1>1, <1>3 DEF ScorePanelInv, ScoreOfThisJob, OneRequestPerPanel
  <1>6. Told' = activeJob' \/ (jobNotes' = <<>> /\ shownJob' = NoJob)
    BY <1>1 DEF ScorePanelInv, Told
  <1>7. /\ inquiry.step = "sent" /\ inquiry.mine /\ inquiry.of = shownJob
        /\ inquiry.of = activeJob \/ inquiry.crossed
    OBVIOUS
  <1> HIDE DEF inquiry
  <1> QED
    BY <1>1, <1>2, <1>3, <1>4, <1>5, <1>6, <1>7 DEF ScorePanelInv

\* The answer goes to the panel that asked: it waits for no other.
LEMMA AnswerStep ==
  ASSUME Safe, NEW r \in Scoring, requests[r].step = "sent",
         NEW score \in Scores \cup {NoScore}, Answered(r, score),
         score # NoScore => score.of = requests[r].of /\ score.crossed = requests[r].crossed,
         NEW left \in ScoreRequests, ~left.mine, requests' = [requests EXCEPT ![r] = left],
         left.step \in {"none", "scored"},
         left.step = "scored" => left.of = requests[r].of /\ left.crossed = requests[r].crossed,
         UNCHANGED <<activeJob, cachedScore, jobNotes, shownJob, detected>>
  PROVE  Safe'
  <1> USE DEF Safe
  <1>1. /\ requests'[r] = left
        /\ \A s \in Scoring \ {r} :
             requests'[s] = requests[s] /\ (requests[r].mine => ~requests[s].mine)
    BY DEF ScorePanelTypeOK, ScorePanelInv, OneRequestPerPanel
  <1>2. ScorePanelTypeOK'
    BY DEF ScorePanelTypeOK, Answered
  <1>3. ScoreOfThisJob'
    BY DEF ScorePanelInv, ScoreOfThisJob, Answered
  <1>4. OneRequestPerPanel'
    <2>1. scoring' <=> \E s \in Scoring : requests'[s].mine
      BY <1>1 DEF ScorePanelInv, OneRequestPerPanel, Answered
    <2>2. \A s, q \in Scoring : requests'[s].mine /\ requests'[q].mine => s = q
      BY <1>1 DEF ScorePanelInv, OneRequestPerPanel
    <2> QED BY <2>1, <2>2 DEF OneRequestPerPanel
  <1>5. Told' = activeJob' \/ (jobNotes' = <<>> /\ shownJob' = NoJob)
    BY DEF ScorePanelInv, Told
  <1>6. \A i \in 1 .. Len(jobNotes) : jobNotes[i].kind = "mount" => shownScore' = NoScore
    <2> SUFFICES ASSUME NEW i \in 1 .. Len(jobNotes), jobNotes[i].kind = "mount"
                 PROVE  shownScore' = NoScore
      OBVIOUS
    <2>1. shownJob = NoJob /\ shownScore = NoScore
      BY DEF ScorePanelInv
    <2>2. ~requests[r].mine
      BY <2>1 DEF ScorePanelInv
    <2> QED BY <2>1, <2>2 DEF Answered
  <1> QED
    BY <1>1, <1>2, <1>3, <1>4, <1>5, <1>6 DEF ScorePanelInv

\* A request that fails ends, with no score.
LEMMA ScoreFailsStep ==
  ASSUME Safe, NEW r \in Scoring, ScoreFails(r)
  PROVE  Safe'
  <1>1. Unsent \in ScoreRequests /\ ~Unsent.mine /\ Unsent.step = "none"
    BY DEF Unsent, ScoreRequests
  <1> QED BY <1>1, AnswerStep DEF ScoreFails

\* An answer is shown as the score of the posting it was asked for, or has crossed.
LEMMA ScoreArrivesStep ==
  ASSUME Safe, NEW r \in Scoring, ScoreArrives(r)
  PROVE  Safe'
  <1> DEFINE score == [of |-> requests[r].of, crossed |-> requests[r].crossed]
             left  == [requests[r] EXCEPT !.step = "scored", !.mine = FALSE]
  <1>1. requests[r].step = "sent" /\ Answered(r, score)
    BY DEF ScoreArrives
  <1>2. requests[r] \in ScoreRequests /\ requests[r].of # NoJob
    BY <1>1 DEF Safe, ScorePanelTypeOK, ScorePanelInv
  <1>3. score \in Scores
    BY <1>2 DEF ScoreRequests, Scores
  <1>4. /\ left \in ScoreRequests /\ ~left.mine /\ left.step = "scored"
        /\ left.of = requests[r].of /\ left.crossed = requests[r].crossed
    BY <1>2 DEF ScoreRequests
  <1>5. requests' = [requests EXCEPT ![r] = left]
    BY DEF ScoreArrives, Safe, ScorePanelTypeOK
  <1>6. UNCHANGED <<activeJob, cachedScore, jobNotes, shownJob, detected>>
    BY DEF ScoreArrives
  <1>7. score.of = requests[r].of /\ score.crossed = requests[r].crossed
    OBVIOUS
  <1> HIDE DEF score, left
  <1> QED BY <1>1, <1>3, <1>4, <1>5, <1>6, <1>7, AnswerStep

\* The router files an answer under the posting that is active by then.
LEMMA ReadActiveJobStep ==
  ASSUME Safe, NEW r \in Scoring, ReadActiveJob(r)
  PROVE  Safe'
  <1> USE DEF Safe
  <1>1. /\ requests[r].step = "scored" /\ requests[r] \in ScoreRequests
        /\ UNCHANGED <<activeJob, cachedScore, jobNotes, shownJob, shownScore, scoring, detected>>
    BY DEF ReadActiveJob, ScorePanelTypeOK
  <1>2. /\ requests' \in [Scoring -> ScoreRequests]
        /\ requests'[r].step = "filed" /\ requests'[r].url = activeJob
        /\ requests'[r].of = requests[r].of /\ requests'[r].crossed = requests[r].crossed
        /\ requests'[r].mine = requests[r].mine
        /\ \A s \in Scoring \ {r} : requests'[s] = requests[s]
    BY <1>1 DEF ReadActiveJob, ScorePanelTypeOK, ScoreRequests
  <1>3. ScorePanelTypeOK'
    BY <1>1, <1>2 DEF ScorePanelTypeOK
  <1>4. ScoreOfThisJob' /\ OneRequestPerPanel'
    BY <1>1, <1>2 DEF ScorePanelInv, ScoreOfThisJob, OneRequestPerPanel
  <1>5. Told' = Told
    BY <1>1 DEF Told
  <1> QED
    BY <1>1, <1>2, <1>3, <1>4, <1>5 DEF ScorePanelInv

\* What is cached is filed under its own posting, or has crossed.
LEMMA WriteCachedScoreStep ==
  ASSUME Safe, NEW r \in Scoring, WriteCachedScore(r)
  PROVE  Safe'
  <1> USE DEF Safe
  <1> DEFINE cache == [url |-> requests[r].url,
                       score |-> [of |-> requests[r].of, crossed |-> requests[r].crossed]]
  <1>1. /\ requests[r].step = "filed" /\ requests[r] \in ScoreRequests /\ cachedScore' = cache
        /\ UNCHANGED <<activeJob, jobNotes, shownJob, shownScore, scoring, detected>>
    BY DEF WriteCachedScore, ScorePanelTypeOK
  <1>2. /\ requests' \in [Scoring -> ScoreRequests]
        /\ requests'[r].step = "none" /\ ~requests'[r].mine /\ ~requests[r].mine
        /\ \A s \in Scoring \ {r} : requests'[s] = requests[s]
    BY <1>1 DEF WriteCachedScore, ScorePanelTypeOK, ScorePanelInv, ScoreRequests, Unsent
  <1>3. /\ cache \in [url : Job, score : Scores]
        /\ cache.score.of = cache.url \/ cache.score.crossed
    BY <1>1 DEF ScorePanelInv, ScoreRequests, Scores
  <1>4. ScorePanelTypeOK'
    BY <1>1, <1>2, <1>3 DEF ScorePanelTypeOK, ScoreCaches
  <1>5. ScoreOfThisJob' /\ OneRequestPerPanel'
    BY <1>1, <1>2, <1>3 DEF ScorePanelInv, ScoreOfThisJob, OneRequestPerPanel
  <1>6. Told' = Told
    BY <1>1 DEF Told
  <1> QED
    BY <1>1, <1>2, <1>4, <1>5, <1>6 DEF ScorePanelInv

\* The invariant is kept by every step.
LEMMA SafeNext ==
  ASSUME Safe, [ScorePanelNext]_scorePanelVars
  PROVE  Safe'
  <1>1. CASE UNCHANGED scorePanelVars
    BY <1>1 DEF scorePanelVars, Safe, ScorePanelTypeOK, ScorePanelInv, ScoreOfThisJob,
         OneRequestPerPanel, Told
  <1> QED
    BY <1>1, DetectedStep, MountStep, RestoreStep, StorageChangeStep, HandleScoreStep,
       ScoreFailsStep, ScoreArrivesStep, ReadActiveJobStep, WriteCachedScoreStep
       DEF ScorePanelNext

(***************************************************************************)
(* ScorePanel.tsx and message-router.ts:286-310: whatever the user, the    *)
(* content scripts and the API do, the panel shows the score of its job,   *)
(* but for one that the user has left meanwhile, and asks for it once.     *)
(***************************************************************************)
THEOREM PanelIsRight == ScorePanelSpec => [](ScorePanelTypeOK /\ PanelScoresItsJob)
  <1>1. Safe => ScorePanelTypeOK /\ PanelScoresItsJob
    BY DEF Safe, ScorePanelInv, PanelScoresItsJob
  <1> QED BY <1>1, SafeInit, SafeNext, PTL DEF ScorePanelSpec

-------------------------------------------------------------------------------
\* ProfileCache: the cached profile and the settings.

(***************************************************************************)
(* What was on the server, and who was signed in, at a time or later: an   *)
(* entry of the cache keeps this for good, and a call under way because no *)
(* unit of time passes before its end.                                     *)
(***************************************************************************)
HeldAt(u, v, t) == v = row[u] \/ t <= replaced[u][v]
SignedAt(u, t)  == u = account \/ t <= leftAt[u]

EntryIsGood ==
  cached # NoEntry =>
    /\ cached.user \in User /\ cached.at <= now
    /\ HeldAt(cached.user, cached.version, cached.at)
    /\ SignedAt(cached.user, cached.at)

LoadsAreGood ==
  /\ \A l \in Load : loads[l] # NoLoad => loads[l].user \in User /\ SignedAt(loads[l].user, now)
  /\ \A l \in Load : loads[l].step = "read" => HeldAt(loads[l].user, loads[l].version, now)

ProfileInv == ProfileTypeOK /\ EntryIsGood /\ LoadsAreGood /\ SettingsWaitForOne

\* The parts of the type invariant: a step disturbs one or two of them.
ClockTypes ==
  /\ now \in 0 .. MaxProfileTime
  /\ account \in User \cup {NoUser} /\ switches \in 0 .. MaxSwitches
  /\ leftAt \in [User -> 0 .. MaxProfileTime]
RowTypes == row \in [User -> Version] /\ replaced \in [User -> [Version -> 0 .. MaxProfileTime]]
EntryTypes == cached \in [user : User \cup {NoUser}, version : Version, at : 0 .. MaxProfileTime]
LoadRecord ==
  [kind : {"none", "get", "patch"},
   step : {"none", "sent", "row", "noRow", "written", "read"},
   user : User \cup {NoUser}, version : Version, mine : BOOLEAN]
LoadTypes == loads \in [Load -> LoadRecord]
SettingsTypes == settings \in {"closed", "loading", "ready", "saving", "saved", "error"}

\* The type invariant is its five parts.
LEMMA ProfileParts ==
  ProfileTypeOK <=> ClockTypes /\ RowTypes /\ EntryTypes /\ LoadTypes /\ SettingsTypes
BY DEF ProfileTypeOK, ClockTypes, RowTypes, EntryTypes, LoadTypes, LoadRecord, SettingsTypes

\* The calls in the router stay well typed, and so does what they answer.
LEMMA LoadsTyped ==
  ASSUME ClockTypes, RowTypes, LoadTypes, SettingsTypes, LoadsAreGood, NEW l \in Load,
         \/ Fill(l) \/ OpenSettings(l) \/ Retry(l) \/ Save(l)
         \/ SelectRow(l) \/ UpdateOrInsert(l) \/ GetProfile(l) \/ Arrive(l) \/ Fail(l)
  PROVE  LoadTypes' /\ SettingsTypes'
<1>1. /\ NoLoad \in LoadRecord
      /\ \A mine \in BOOLEAN, kind \in {"get", "patch"} :
           [kind |-> kind, step |-> "sent", user |-> account, version |-> 0, mine |-> mine] \in LoadRecord
  BY ProfileCacheAssumption DEF NoLoad, LoadRecord, Version, ClockTypes
<1>2. /\ \A step \in {"row", "noRow", "written"} : [loads[l] EXCEPT !.step = step] \in LoadRecord
      /\ \A v \in Version : [loads[l] EXCEPT !.step = "read", !.version = v] \in LoadRecord
  BY DEF LoadTypes, LoadRecord
<1>3. CASE Fill(l) \/ OpenSettings(l) \/ Retry(l) \/ Save(l)
  <2>1. ASSUME NEW kind \in {"get", "patch"}, NEW mine \in BOOLEAN, Send(l, kind, mine) PROVE LoadTypes'
    BY <1>1, <2>1 DEF Send, LoadTypes
  <2>2. LoadTypes'
    BY <1>3, <2>1 DEF Fill, OpenSettings, Retry, Save, Resolve, LoadTypes
  <2>3. SettingsTypes'
    BY <1>3 DEF Fill, OpenSettings, Retry, Save, Resolve, SettingsTypes
  <2>4. QED
    BY <2>2, <2>3
<1>4. CASE SelectRow(l)
  <2>1. \E step \in {"row", "noRow", "written"} : loads' = [loads EXCEPT ![l].step = step]
    BY <1>4 DEF SelectRow, Go
  <2>2. QED
    BY <1>2, <1>4, <2>1 DEF SelectRow, LoadTypes, SettingsTypes
<1>5. CASE GetProfile(l)
  <2>1. loads[l] # NoLoad
    BY <1>5 DEF GetProfile, NoLoad
  <2>2. row[loads[l].user] \in Version
    BY <2>1 DEF LoadsAreGood, RowTypes
  <2>3. QED
    BY <1>2, <1>5, <2>2 DEF GetProfile, LoadTypes, SettingsTypes
<1>6. ASSUME NEW state \in {"ready", "saved", "error"}, Answer(l, state) PROVE LoadTypes' /\ SettingsTypes'
  BY <1>1, <1>6 DEF Answer, LoadTypes, SettingsTypes
<1>7. CASE UpdateOrInsert(l) \/ Arrive(l) \/ Fail(l)
  BY <1>2, <1>6, <1>7 DEF UpdateOrInsert, Arrive, Fail, Go, LoadTypes, SettingsTypes
<1>8. QED
  BY <1>3, <1>4, <1>5, <1>7

\* The rows stay well typed when one is written.
LEMMA RowsTyped ==
  ASSUME ClockTypes, RowTypes, NEW u \in User, WriteRow(u) PROVE RowTypes'
<1>1. row[u] \in Version /\ row[u] + 1 \in Version
  BY ProfileCacheAssumption DEF WriteRow, RowTypes, Version
<1>2. row' \in [User -> Version]
  BY <1>1 DEF WriteRow, RowTypes
<1>3. [replaced[u] EXCEPT ![row[u]] = now] \in [Version -> 0 .. MaxProfileTime]
  BY <1>1 DEF RowTypes, ClockTypes
<1>4. replaced' \in [User -> [Version -> 0 .. MaxProfileTime]]
  BY <1>3 DEF WriteRow, RowTypes
<1>5. QED
  BY <1>2, <1>4 DEF RowTypes

\* Every step of the profile keeps its state well typed.
LEMMA ProfileTyped ==
  ASSUME ProfileTypeOK, LoadsAreGood, [ProfileNext]_profileVars PROVE ProfileTypeOK'
<1>1. ClockTypes /\ RowTypes /\ EntryTypes /\ LoadTypes /\ SettingsTypes
  BY ProfileParts
<1>2. ASSUME NEW u \in User \cup {NoUser}, Switch(u) PROVE ProfileTypeOK'
  <2>1. ClockTypes'
    BY <1>1, <1>2, ProfileCacheAssumption DEF Switch, ClockTypes
  <2>2. RowTypes' /\ EntryTypes' /\ LoadTypes' /\ SettingsTypes'
    BY <1>1, <1>2 DEF Switch, RowTypes, EntryTypes, LoadTypes, SettingsTypes, server
  <2>3. QED
    BY <2>1, <2>2 DEF ProfileTypeOK, ClockTypes, RowTypes, EntryTypes, LoadTypes, LoadRecord, SettingsTypes
<1>3. ASSUME NEW u \in User, EditElsewhere(u) PROVE ProfileTypeOK'
  <2>1. RowTypes'
    BY <1>1, <1>3, RowsTyped DEF EditElsewhere
  <2>2. ClockTypes' /\ EntryTypes' /\ LoadTypes' /\ SettingsTypes'
    BY <1>1, <1>3 DEF EditElsewhere, ClockTypes, EntryTypes, LoadTypes, SettingsTypes, signedIn
  <2>3. QED
    BY <2>1, <2>2 DEF ProfileTypeOK, ClockTypes, RowTypes, EntryTypes, LoadTypes, LoadRecord, SettingsTypes
<1>4. ASSUME NEW l \in Load,
             \/ Fill(l) \/ OpenSettings(l) \/ Retry(l) \/ Save(l)
             \/ SelectRow(l) \/ UpdateOrInsert(l) \/ GetProfile(l) \/ Arrive(l) \/ Fail(l)
      PROVE  ProfileTypeOK'
  <2>1. LoadTypes' /\ SettingsTypes'
    BY <1>1, <1>4, LoadsTyped
  <2>2. ClockTypes'
    BY <1>1, <1>4 DEF Fill, OpenSettings, Retry, Save, SelectRow, UpdateOrInsert, GetProfile,
                      Arrive, Fail, Resolve, ClockTypes, signedIn
  <2>3. RowTypes'
    <3>1. CASE UNCHANGED server
      BY <1>1, <3>1 DEF server, RowTypes
    <3>2. CASE UpdateOrInsert(l) /\ WriteRow(loads[l].user)
      <4>1. loads[l] # NoLoad
        BY <3>2 DEF UpdateOrInsert, NoLoad
      <4>2. loads[l].user \in User
        BY <4>1 DEF LoadsAreGood
      <4>3. QED
        BY <1>1, <3>2, <4>2, RowsTyped
    <3>3. QED
      BY <1>4, <3>1, <3>2 DEF Fill, OpenSettings, Retry, Save, SelectRow, UpdateOrInsert, GetProfile,
                              Arrive, Fail, Resolve
  <2>4. EntryTypes'
    <3>1. CASE UNCHANGED cached
      BY <1>1, <3>1 DEF EntryTypes
    <3>2. CASE Arrive(l)
      <4>1. loads[l] \in LoadRecord /\ now \in 0 .. MaxProfileTime
        BY <1>1 DEF LoadTypes, ClockTypes
      <4>2. QED
        BY <3>2, <4>1 DEF Arrive, EntryTypes, LoadRecord
    <3>3. QED
      BY <1>4, <3>1, <3>2 DEF Fill, OpenSettings, Retry, Save, SelectRow, UpdateOrInsert, GetProfile,
                              Fail, Resolve
  <2>5. QED
    BY <2>1, <2>2, <2>3, <2>4 DEF ProfileTypeOK, ClockTypes, RowTypes, EntryTypes, LoadTypes, LoadRecord, SettingsTypes
<1>5. CASE CloseSettings
  <2>1. \A l \in Load : [loads[l] EXCEPT !.mine = FALSE] \in LoadRecord
    BY <1>1 DEF LoadTypes, LoadRecord
  <2>2. LoadTypes' /\ SettingsTypes'
    BY <1>5, <2>1 DEF CloseSettings, LoadTypes, SettingsTypes
  <2>3. ClockTypes' /\ RowTypes' /\ EntryTypes'
    BY <1>1, <1>5 DEF CloseSettings, ClockTypes, RowTypes, EntryTypes, signedIn, server
  <2>4. QED
    BY <2>2, <2>3 DEF ProfileTypeOK, ClockTypes, RowTypes, EntryTypes, LoadTypes, LoadRecord, SettingsTypes
<1>6. CASE EndSaved \/ ProfileTick \/ UNCHANGED profileVars
  <2>1. ClockTypes' /\ SettingsTypes'
    BY <1>1, <1>6, ProfileCacheAssumption DEF EndSaved, ProfileTick, profileVars, signedIn, ClockTypes, SettingsTypes
  <2>2. RowTypes' /\ EntryTypes' /\ LoadTypes'
    BY <1>1, <1>6 DEF EndSaved, ProfileTick, profileVars, server, RowTypes, EntryTypes, LoadTypes
  <2>3. QED
    BY <2>1, <2>2 DEF ProfileTypeOK, ClockTypes, RowTypes, EntryTypes, LoadTypes, LoadRecord, SettingsTypes
<1>7. QED
  BY <1>2, <1>3, <1>4, <1>5, <1>6 DEF ProfileNext

(***************************************************************************)
(* A profile that is replaced now, and a user who leaves now, were there   *)
(* until now.                                                              *)
(***************************************************************************)
LEMMA GoodStaysGood ==
  ASSUME ProfileTypeOK, LoadsAreGood, [ProfileNext]_profileVars, NEW u \in User, NEW t \in Nat, t <= now
  PROVE  /\ \A v \in Version : HeldAt(u, v, t) => HeldAt(u, v, t)'
         /\ SignedAt(u, t) => SignedAt(u, t)'
<1> USE DEF HeldAt, SignedAt
<1>0. ClockTypes /\ RowTypes /\ LoadTypes
  BY ProfileParts
<1>1. ASSUME NEW w \in User \cup {NoUser}, Switch(w)
      PROVE  /\ \A v \in Version : HeldAt(u, v, t) => HeldAt(u, v, t)'
             /\ SignedAt(u, t) => SignedAt(u, t)'
  <2>1. UNCHANGED <<row, replaced>> /\ account' = w
        /\ leftAt' = IF account = NoUser THEN leftAt ELSE [leftAt EXCEPT ![account] = now]
    BY <1>1 DEF Switch, server
  <2>2. now \in Nat /\ leftAt \in [User -> 0 .. MaxProfileTime] /\ u # NoUser
    BY <1>0, ProfileCacheAssumption DEF ClockTypes
  <2>3. leftAt'[u] = IF u = account THEN now ELSE leftAt[u]
    BY <2>1, <2>2
  <2>4. QED
    BY <2>1, <2>2, <2>3
<1>2. ASSUME NEW w \in User, WriteRow(w)
      PROVE  \A v \in Version : HeldAt(u, v, t) => HeldAt(u, v, t)'
  <2>1. row' = [row EXCEPT ![w] = @ + 1] /\ replaced' = [replaced EXCEPT ![w][row[w]] = now]
    BY <1>2 DEF WriteRow
  <2>2. now \in Nat /\ row[w] \in Version /\ DOMAIN row = User /\ DOMAIN replaced = User
        /\ \A x \in User : DOMAIN replaced[x] = Version
    BY <1>0 DEF ClockTypes, RowTypes
  <2>3. \A v \in Version : replaced'[u][v] = IF u = w /\ v = row[w] THEN now ELSE replaced[u][v]
    BY <2>1, <2>2
  <2>4. u # w => row'[u] = row[u]
    BY <2>1, <2>2
  <2>5. QED
    BY <2>2, <2>3, <2>4
<1>3. ASSUME NEW w \in User, EditElsewhere(w)
      PROVE  /\ \A v \in Version : HeldAt(u, v, t) => HeldAt(u, v, t)'
             /\ SignedAt(u, t) => SignedAt(u, t)'
  BY <1>2, <1>3 DEF EditElsewhere, signedIn
<1>4. ASSUME NEW l \in Load, UpdateOrInsert(l)
      PROVE  /\ \A v \in Version : HeldAt(u, v, t) => HeldAt(u, v, t)'
             /\ SignedAt(u, t) => SignedAt(u, t)'
  <2>1. loads[l].user \in User
    BY <1>4 DEF UpdateOrInsert, NoLoad, LoadsAreGood
  <2>2. CASE WriteRow(loads[l].user)
    BY <1>2, <1>4, <2>1, <2>2 DEF UpdateOrInsert, signedIn
  <2>3. CASE UNCHANGED server
    BY <1>4, <2>3 DEF UpdateOrInsert, signedIn, server
  <2>4. QED
    BY <1>4, <2>2, <2>3 DEF UpdateOrInsert
<1>5. CASE UNCHANGED <<signedIn, server>>
  BY <1>5 DEF signedIn, server
<1>6. ASSUME NEW l \in Load,
             \/ Fill(l) \/ OpenSettings(l) \/ Retry(l) \/ Save(l)
             \/ SelectRow(l) \/ GetProfile(l) \/ Arrive(l) \/ Fail(l)
      PROVE  UNCHANGED <<signedIn, server>>
  BY <1>6 DEF Fill, OpenSettings, Retry, Resolve, Save, SelectRow, GetProfile, Arrive, Fail
<1>7. CASE CloseSettings \/ EndSaved \/ ProfileTick \/ UNCHANGED profileVars
  BY <1>5, <1>7 DEF CloseSettings, EndSaved, ProfileTick, profileVars
<1>8. QED
  BY <1>1, <1>3, <1>4, <1>5, <1>6, <1>7 DEF ProfileNext

(***************************************************************************)
(* What the cache holds and what the calls bring stays good: the entry is  *)
(* dated with the time at which it was written, and no time passes under a *)
(* call.                                                                   *)
(***************************************************************************)
LEMMA EntriesStayGood ==
  ASSUME ProfileTypeOK, EntryIsGood, LoadsAreGood, [ProfileNext]_profileVars PROVE EntryIsGood'
<1>1. ClockTypes /\ RowTypes /\ EntryTypes /\ LoadTypes
  BY ProfileParts
<1>2. now' \in Nat /\ now <= now' /\ now \in Nat
  <2>1. now' \in Nat
    BY ProfileTyped DEF ProfileTypeOK
  <2>2. now' = now \/ now' = now + 1
    BY DEF ProfileNext, Switch, EditElsewhere, Fill, OpenSettings, Retry, Resolve, Save, SelectRow,
           UpdateOrInsert, GetProfile, Arrive, Fail, CloseSettings, EndSaved, ProfileTick, profileVars
  <2>3. QED
    BY <1>1, <2>1, <2>2 DEF ClockTypes
<1>3. CASE UNCHANGED cached /\ cached # NoEntry
  <2>1. PICK u \in User, v \in Version, t \in Nat :
          cached.user = u /\ cached.version = v /\ cached.at = t /\ t <= now
    BY <1>1, <1>3 DEF EntryIsGood, EntryTypes, Version
  <2>2. HeldAt(u, v, t)' /\ SignedAt(u, t)'
    BY <1>3, <2>1, GoodStaysGood DEF EntryIsGood
  <2>3. QED
    BY <1>2, <1>3, <2>1, <2>2 DEF EntryIsGood, HeldAt, SignedAt
<1>4. CASE UNCHANGED cached /\ cached = NoEntry
  BY <1>4 DEF EntryIsGood
<1>5. ASSUME NEW l \in Load, Arrive(l) PROVE EntryIsGood'
  <2>1. loads[l].step = "read" /\ loads[l] # NoLoad
    BY <1>5 DEF Arrive, NoLoad
  <2>2. PICK u \in User, v \in Version : loads[l].user = u /\ loads[l].version = v
    BY <1>1, <2>1 DEF LoadsAreGood, LoadTypes, LoadRecord
  <2>3. HeldAt(u, v, now) /\ SignedAt(u, now)
    BY <2>1, <2>2 DEF LoadsAreGood
  <2>4. cached' = [user |-> u, version |-> v, at |-> now] /\ UNCHANGED <<now, signedIn, server>>
    BY <1>5, <2>2 DEF Arrive
  <2>5. QED
    BY <1>2, <2>3, <2>4 DEF EntryIsGood, HeldAt, SignedAt, signedIn, server
<1>6. UNCHANGED cached \/ \E l \in Load : Arrive(l)
  BY DEF ProfileNext, Switch, EditElsewhere, Fill, OpenSettings, Retry, Resolve, Save, SelectRow,
         UpdateOrInsert, GetProfile, Fail, CloseSettings, EndSaved, ProfileTick, profileVars
<1>7. QED
  BY <1>3, <1>4, <1>5, <1>6

(***************************************************************************)
(* A call belongs to the user whose token it was sent with, and has read   *)
(* his profile just now.                                                   *)
(***************************************************************************)
LEMMA LoadsStayGood ==
  ASSUME ProfileTypeOK, LoadsAreGood, [ProfileNext]_profileVars PROVE LoadsAreGood'
<1> DEFINE
      Good(k) == loads[k] # NoLoad => loads[k].user \in User /\ SignedAt(loads[k].user, now)
      Just(k) == loads[k].step = "read" => HeldAt(loads[k].user, loads[k].version, now)
      Kept(k) ==
        /\ now' = now /\ loads[k] # NoLoad /\ loads'[k].user = loads[k].user
        /\ loads'[k].step = "read" => loads[k].step = "read" /\ loads'[k].version = loads[k].version
<1>1. ClockTypes /\ RowTypes /\ LoadTypes
  BY ProfileParts
<1> DEFINE Loaded == \A k \in Load : Good(k)' /\ Just(k)'
<1>3. ASSUME NEW k \in Load, Kept(k) PROVE Good(k)' /\ Just(k)'
  <2>0. loads[k] # NoLoad
    BY <1>3
  <2>1. PICK u \in User, v \in Version, t \in Nat : loads[k].user = u /\ loads[k].version = v /\ now = t
    <3>1. loads[k].user \in User /\ loads[k].version \in Version /\ now \in Nat
      BY <1>1, <2>0 DEF LoadsAreGood, LoadTypes, LoadRecord, ClockTypes
    <3>2. QED
      BY <3>1, Zenon
  <2>2. SignedAt(u, t) /\ (loads[k].step = "read" => HeldAt(u, v, t))
    BY <1>3, <2>1 DEF LoadsAreGood
  <2>3. SignedAt(u, t)' /\ (loads[k].step = "read" => HeldAt(u, v, t)')
    BY <2>1, <2>2, GoodStaysGood
  <2>4. QED
    BY <1>3, <2>1, <2>3 DEF SignedAt, HeldAt
<1>4. ASSUME NEW k \in Load, loads'[k] = NoLoad PROVE Good(k)' /\ Just(k)'
  BY <1>4 DEF NoLoad
<1>5. ASSUME NEW k \in Load, loads'[k] = loads[k], now' = now PROVE Good(k)' /\ Just(k)'
  <2>1. CASE loads[k] = NoLoad
    BY <1>4, <1>5, <2>1
  <2>2. CASE loads[k] # NoLoad
    BY <1>3, <1>5, <2>2
  <2>3. QED
    BY <2>1, <2>2
<1>2. ASSUME ProfileTick PROVE Loaded
  <2>1. \A k \in Load : loads'[k] = NoLoad
    BY <1>2 DEF ProfileTick
  <2>2. QED
    BY <1>4, <2>1
<1>6. ASSUME UNCHANGED <<now, loads>> PROVE Loaded
  BY <1>5, <1>6
<1>7. ASSUME NEW l \in Load, NEW kind \in {"get", "patch"}, NEW mine \in BOOLEAN,
             Send(l, kind, mine), account # NoUser, UNCHANGED <<now, signedIn>>
      PROVE  Loaded
  <2>1. TAKE k \in Load
  <2>2. CASE k # l
    BY <1>1, <1>5, <1>7, <2>2 DEF Send, LoadTypes
  <2>3. CASE k = l
    <3>1. loads'[k].user = account /\ loads'[k].step = "sent" /\ account' = account /\ account \in User
      BY <1>1, <1>7, <2>3 DEF Send, LoadTypes, signedIn, ClockTypes
    <3>2. QED
      BY <3>1 DEF SignedAt
  <2>4. QED
    BY <2>2, <2>3
<1>8. ASSUME NEW l \in Load, Fill(l) \/ OpenSettings(l) \/ Retry(l) \/ Save(l) PROVE Loaded
  <2>1. CASE UNCHANGED <<now, loads>>
    BY <1>6, <2>1
  <2>2. CASE \E kind \in {"get", "patch"}, mine \in BOOLEAN :
               Send(l, kind, mine) /\ account # NoUser /\ UNCHANGED <<now, signedIn>>
    BY <1>7, <2>2
  <2>3. QED
    BY <1>8, <2>1, <2>2 DEF Fill, OpenSettings, Retry, Save, Resolve
<1>9. ASSUME NEW l \in Load, NEW step \in {"row", "noRow", "written"},
             Go(l, step), now' = now, loads[l] # NoLoad PROVE Loaded
  <2>1. TAKE k \in Load
  <2>2. CASE k # l
    BY <1>1, <1>5, <1>9, <2>2 DEF Go, LoadTypes
  <2>3. CASE k = l
    <3>1. Kept(k)
      BY <1>1, <1>9, <2>3 DEF Go, LoadTypes, LoadRecord
    <3>2. QED
      BY <1>3, <3>1
  <2>4. QED
    BY <2>2, <2>3
<1>10. ASSUME NEW l \in Load, loads' = [loads EXCEPT ![l] = NoLoad], now' = now PROVE Loaded
  BY <1>1, <1>4, <1>5, <1>10 DEF LoadTypes
<1>11. ASSUME NEW l \in Load, SelectRow(l) \/ UpdateOrInsert(l) \/ Arrive(l) \/ Fail(l) PROVE Loaded
  <2>1. loads[l] # NoLoad /\ now' = now
    BY <1>11 DEF SelectRow, UpdateOrInsert, Arrive, Fail, NoLoad
  <2>2. CASE \E step \in {"row", "noRow", "written"} : Go(l, step)
    BY <1>9, <2>1, <2>2
  <2>3. CASE loads' = [loads EXCEPT ![l] = NoLoad]
    BY <1>10, <2>1, <2>3
  <2>4. QED
    BY <1>11, <2>2, <2>3 DEF SelectRow, UpdateOrInsert, Arrive, Fail, Answer
<1>12. ASSUME NEW l \in Load, GetProfile(l) PROVE Loaded
  <2>1. TAKE k \in Load
  <2>2. CASE k # l
    BY <1>1, <1>5, <1>12, <2>2 DEF GetProfile, LoadTypes
  <2>3. CASE k = l
    <3>1. loads[l] # NoLoad
      BY <1>12 DEF GetProfile, NoLoad
    <3>2. PICK u \in User : loads[l].user = u
      BY <3>1 DEF LoadsAreGood
    <3>3. loads'[l].user = u /\ loads'[l].version = row[u]
      BY <1>1, <1>12, <3>2 DEF GetProfile, LoadTypes, LoadRecord
    <3>4. now' = now /\ UNCHANGED <<signedIn, server>>
      BY <1>12 DEF GetProfile
    <3>5. SignedAt(u, now)
      BY <3>1, <3>2 DEF LoadsAreGood
    <3>6. QED
      BY <2>3, <3>2, <3>3, <3>4, <3>5 DEF SignedAt, HeldAt, signedIn, server
  <2>4. QED
    BY <2>2, <2>3
<1>13. ASSUME CloseSettings PROVE Loaded
  <2>1. TAKE k \in Load
  <2>2. CASE loads[k] = NoLoad
    <3>1. loads'[k] = [NoLoad EXCEPT !.mine = FALSE]
      BY <1>13, <2>2 DEF CloseSettings
    <3>2. [NoLoad EXCEPT !.mine = FALSE] = NoLoad
      <4>1. NoLoad \in LoadRecord /\ NoLoad.mine = FALSE
        BY ProfileCacheAssumption DEF NoLoad, LoadRecord, Version
      <4>2. QED
        BY <4>1 DEF LoadRecord
    <3>3. QED
      BY <1>4, <3>1, <3>2
  <2>3. CASE loads[k] # NoLoad
    <3>1. Kept(k)
      BY <1>1, <1>13, <2>3 DEF CloseSettings, LoadTypes, LoadRecord
    <3>2. QED
      BY <1>3, <3>1
  <2>4. QED
    BY <2>2, <2>3
<1>14. ASSUME \/ EndSaved \/ UNCHANGED profileVars
              \/ \E u \in User \cup {NoUser} : Switch(u)
              \/ \E u \in User : EditElsewhere(u)
       PROVE  Loaded
  BY <1>6, <1>14 DEF EndSaved, profileVars, Switch, EditElsewhere
<1> HIDE DEF Kept
<1>15. CASE Loaded
  BY <1>15 DEF LoadsAreGood
<1>16. QED
  BY <1>2, <1>8, <1>11, <1>12, <1>13, <1>14, <1>15, Zenon DEF ProfileNext

(***************************************************************************)
(* A panel that is locked has one call to wait for, and no other has one.  *)
(***************************************************************************)
LEMMA SettingsStay ==
  ASSUME ProfileTypeOK, SettingsWaitForOne, [ProfileNext]_profileVars PROVE SettingsWaitForOne'
<1> DEFINE
      Waiting == settings \in {"loading", "saving"}
      Kind    == IF settings = "saving" THEN "patch" ELSE "get"
      Mine    == {l \in Load : loads[l].mine}
<1>1. LoadTypes /\ SettingsTypes
  BY ProfileParts
<1>2. SettingsWaitForOne <=>
        \/ ~Waiting /\ \A l \in Load : ~loads[l].mine
        \/ Waiting /\ \E l \in Load :
             loads[l].mine /\ loads[l].kind = Kind /\ \A k \in Load \ {l} : ~loads[k].mine
  BY DEF SettingsWaitForOne
<1> DEFINE
      Nobody == ~Waiting /\ \A l \in Load : ~loads[l].mine
      OneOf(l) == Waiting /\ loads[l].mine /\ loads[l].kind = Kind /\ \A k \in Load \ {l} : ~loads[k].mine
      Kept == Nobody \/ \E l \in Load : OneOf(l)
<1>3. Kept
  BY <1>2
<1>4. ASSUME UNCHANGED settings,
             \A l \in Load : loads'[l].mine = loads[l].mine /\ (loads[l].mine => loads'[l].kind = loads[l].kind)
      PROVE  Kept'
  BY <1>3, <1>4
<1>5. ASSUME NEW l \in Load, NEW kind \in {"get", "patch"}, Send(l, kind, TRUE), ~Waiting,
             settings' = IF kind = "get" THEN "loading" ELSE "saving"
      PROVE  Kept'
  <2>1. loads'[l].mine /\ loads'[l].kind = kind /\ \A k \in Load \ {l} : loads'[k] = loads[k]
    BY <1>1, <1>5 DEF Send, LoadTypes
  <2>2. Nobody
    BY <1>3, <1>5
  <2>3. OneOf(l)'
    BY <1>5, <2>1, <2>2
  <2>4. QED
    BY <2>3
<1>6. ASSUME NEW l \in Load, NEW state \in {"ready", "saved", "error"}, Answer(l, state)
      PROVE  Kept'
  <2>1. ~loads'[l].mine /\ \A k \in Load \ {l} : loads'[k] = loads[k]
    BY <1>1, <1>6 DEF Answer, LoadTypes, NoLoad
  <2>2. CASE loads[l].mine
    <3>1. OneOf(l) /\ settings' = state
      BY <1>3, <1>6, <2>2 DEF Answer
    <3>2. Nobody'
      BY <2>1, <3>1
    <3>3. QED
      BY <3>2
  <2>3. CASE ~loads[l].mine
    <3>1. settings' = settings
      BY <1>6, <2>3 DEF Answer
    <3>2. CASE Nobody
      BY <2>1, <3>1, <3>2
    <3>3. CASE \E k \in Load : OneOf(k)
      <4>1. PICK k \in Load : OneOf(k)
        BY <3>3
      <4>2. OneOf(k)'
        BY <2>1, <2>3, <3>1, <4>1
      <4>3. QED
        BY <4>2
    <3>4. QED
      BY <1>3, <3>2, <3>3
  <2>4. QED
    BY <2>2, <2>3
<1>7. ASSUME NEW l \in Load, Fill(l) PROVE Kept'
  <2>1. settings' = settings /\ (UNCHANGED loads \/ (Send(l, "get", FALSE) /\ loads[l] = NoLoad))
    BY <1>7 DEF Fill, Resolve
  <2>2. \A k \in Load : loads'[k].mine = loads[k].mine /\ (loads[k].mine => loads'[k].kind = loads[k].kind)
    <3>1. CASE UNCHANGED loads
      BY <3>1
    <3>2. CASE Send(l, "get", FALSE) /\ loads[l] = NoLoad
      <4>1. /\ ~loads[l].mine /\ ~loads'[l].mine
            /\ \A k \in Load \ {l} : loads'[k] = loads[k]
        BY <1>1, <3>2 DEF Send, LoadTypes, NoLoad
      <4>2. loads[l].mine \in BOOLEAN /\ loads'[l].mine \in BOOLEAN
        BY <1>1, <3>2 DEF Send, LoadTypes, LoadRecord
      <4>3. QED
        BY <4>1, <4>2
    <3>3. QED
      BY <2>1, <3>1, <3>2
  <2>3. QED
    BY <1>4, <2>1, <2>2
<1>8. ASSUME NEW l \in Load, OpenSettings(l) \/ Retry(l) PROVE Kept'
  <2>1. ~Waiting
    BY <1>8 DEF OpenSettings, Retry
  <2>2. CASE UNCHANGED loads /\ settings' \in {"ready", "error"}
    BY <1>3, <2>1, <2>2
  <2>3. CASE Send(l, "get", TRUE) /\ settings' = "loading"
    BY <1>5, <2>1, <2>3
  <2>4. QED
    BY <1>8, <2>2, <2>3 DEF OpenSettings, Retry, Resolve
<1>9. ASSUME NEW l \in Load, Save(l) PROVE Kept'
  <2>1. ~Waiting
    BY <1>9 DEF Save
  <2>2. CASE UNCHANGED loads /\ settings' = "error"
    BY <1>3, <2>1, <2>2
  <2>3. CASE Send(l, "patch", TRUE) /\ settings' = "saving"
    BY <1>5, <2>1, <2>3
  <2>4. QED
    BY <1>9, <2>2, <2>3 DEF Save
<1>10. ASSUME NEW l \in Load, SelectRow(l) \/ GetProfile(l) PROVE Kept'
  <2>1. settings' = settings /\ \A k \in Load : loads'[k].mine = loads[k].mine /\ loads'[k].kind = loads[k].kind
    BY <1>1, <1>10 DEF SelectRow, GetProfile, Go, LoadTypes, LoadRecord
  <2>2. QED
    BY <1>4, <2>1
<1>11. ASSUME NEW l \in Load, UpdateOrInsert(l) \/ Arrive(l) \/ Fail(l) PROVE Kept'
  <2>1. CASE \E state \in {"ready", "saved", "error"} : Answer(l, state)
    BY <1>6, <2>1
  <2>2. CASE Go(l, "written") /\ UNCHANGED settings
    <3>1. \A k \in Load : loads'[k].mine = loads[k].mine /\ loads'[k].kind = loads[k].kind
      BY <1>1, <2>2 DEF Go, LoadTypes, LoadRecord
    <3>2. QED
      BY <1>4, <2>2, <3>1
  <2>3. QED
    BY <1>11, <2>1, <2>2 DEF UpdateOrInsert, Arrive, Fail
<1>12. ASSUME CloseSettings PROVE Kept'
  <2>1. settings' = "closed" /\ \A l \in Load : ~loads'[l].mine
    BY <1>1, <1>12 DEF CloseSettings, LoadTypes, LoadRecord
  <2>2. QED
    BY <2>1
<1>13. ASSUME EndSaved PROVE Kept'
  <2>1. ~Waiting /\ settings' = "ready" /\ UNCHANGED loads
    BY <1>13 DEF EndSaved
  <2>2. Nobody'
    BY <1>3, <2>1
  <2>3. QED
    BY <2>2
<1>14. ASSUME \/ ProfileTick \/ UNCHANGED profileVars
              \/ \E u \in User \cup {NoUser} : Switch(u)
              \/ \E u \in User : EditElsewhere(u)
       PROVE  Kept'
  <2>1. UNCHANGED <<loads, settings>>
    BY <1>14 DEF ProfileTick, profileVars, Switch, EditElsewhere
  <2>2. QED
    BY <1>4, <2>1
<1> HIDE DEF Kept
<1>15. Kept'
  BY <1>7, <1>8, <1>9, <1>10, <1>11, <1>12, <1>13, <1>14, Zenon DEF ProfileNext
<1>16. QED
  BY <1>15 DEF Kept, SettingsWaitForOne

(***************************************************************************)
(* The profile's invariant holds in every reachable state.                 *)
(***************************************************************************)
LEMMA ProfileInductive == ProfileSpec => []ProfileInv
<1>1. ProfileInit => ProfileInv
  <2> SUFFICES ASSUME ProfileInit PROVE ProfileInv
    OBVIOUS
  <2>1. ProfileTypeOK
    BY ProfileCacheAssumption DEF ProfileInit, ProfileTypeOK, Version, NoEntry, NoLoad
  <2>2. EntryIsGood /\ LoadsAreGood /\ SettingsWaitForOne
    BY DEF ProfileInit, EntryIsGood, LoadsAreGood, SettingsWaitForOne, NoLoad
  <2>3. QED
    BY <2>1, <2>2 DEF ProfileInv
<1>2. ProfileInv /\ [ProfileNext]_profileVars => ProfileInv'
  BY ProfileTyped, EntriesStayGood, LoadsStayGood, SettingsStay DEF ProfileInv
<1>3. QED
  BY <1>1, <1>2, PTL DEF ProfileSpec

(***************************************************************************)
(* No late answer makes a profile live longer than its time to live, and   *)
(* the settings wait for exactly one answer.                               *)
(***************************************************************************)
THEOREM ProfileStaysCurrent == ProfileSpec => []ProfileIsCurrent
<1>1. ProfileInv => ProfileIsCurrent
  <2> SUFFICES ASSUME ProfileInv PROVE StalenessIsBounded
    BY DEF ProfileInv, ProfileIsCurrent
  <2>1. ClockTypes /\ RowTypes /\ EntryTypes /\ LoadTypes
    BY ProfileParts DEF ProfileInv
  <2>2. ASSUME Fresh PROVE Held(cached.user, cached.version, TTL) /\ Signed(cached.user, TTL)
    <3>1. PICK u \in User, v \in Version, t \in Nat : cached.user = u /\ cached.version = v /\ cached.at = t
      BY <2>1, <2>2 DEF EntryTypes, Version, Fresh, ProfileInv, EntryIsGood
    <3>2. HeldAt(u, v, t) /\ SignedAt(u, t) /\ now - t <= TTL
      BY <2>2, <3>1 DEF Fresh, ProfileInv, EntryIsGood
    <3>3. replaced[u][v] \in Nat /\ leftAt[u] \in Nat /\ now \in Nat /\ TTL \in Nat
      BY <2>1, ProfileCacheAssumption DEF RowTypes, ClockTypes
    <3>4. QED
      BY <3>1, <3>2, <3>3 DEF HeldAt, SignedAt, Held, Signed
  <2>3. ASSUME NEW l \in Load, loads[l].step = "read"
        PROVE  Held(loads[l].user, loads[l].version, 0) /\ Signed(loads[l].user, 0)
    <3>1. PICK u \in User, v \in Version : loads[l].user = u /\ loads[l].version = v
      BY <2>1, <2>3 DEF ProfileInv, LoadsAreGood, LoadTypes, LoadRecord, NoLoad
    <3>2. HeldAt(u, v, now) /\ SignedAt(u, now)
      BY <2>3, <3>1 DEF ProfileInv, LoadsAreGood, NoLoad
    <3>3. replaced[u][v] \in Nat /\ leftAt[u] \in Nat /\ now \in Nat
      BY <2>1 DEF RowTypes, ClockTypes
    <3>4. QED
      BY <3>1, <3>2, <3>3 DEF HeldAt, SignedAt, Held, Signed
  <2>4. QED
    BY <2>2, <2>3 DEF StalenessIsBounded
<1>2. QED
  BY <1>1, ProfileInductive, PTL

\* Every reachable state of the profile is well typed.
THEOREM ProfileTypeCorrect == ProfileSpec => []ProfileTypeOK
<1>1. ProfileInv => ProfileTypeOK
  BY DEF ProfileInv
<1>2. QED
  BY <1>1, ProfileInductive, PTL

-------------------------------------------------------------------------------
\* AutofillPanel: the form the panel fills and submits.

\* The statuses of the panel, its messages and what it is told.
PanelStatus ==
  {"idle", "loading", "ready", "filling", "ai-filling", "complete",
   "confirming-submit", "submitting", "submitted", "error"}
Messages ==
  [kind : {"none", "profile", "fill", "aiFill", "submit", "capture"},
   step : {"none", "asked", "executed"}, form : Form \cup {NoForm},
   mine : BOOLEAN, crossed : BOOLEAN, done : BOOLEAN]
FormNotes == [kind : {"change", "mount"}, form : Form \cup {NoForm}]

FormTypes ==
  /\ activeForm \in Form \cup {NoForm} /\ page \in Form \cup {NoForm}
  /\ formNotes \in Seq(FormNotes) /\ events \in 0 .. MaxEvents
PanelTypes == status \in PanelStatus /\ formRef \in Form \cup {NoForm} /\ crossed \in BOOLEAN
MessageTypes == messages \in [Message -> Messages]
WorkTypes ==
  /\ filled \subseteq Form /\ submitted \subseteq Form
  /\ captured \subseteq [form : Form, crossed : BOOLEAN]

\* The type invariant in parts: a step disturbs some of them.
LEMMA AutofillTypeParts == AutofillTypeOK <=> FormTypes /\ PanelTypes /\ MessageTypes /\ WorkTypes
BY DEF AutofillTypeOK, FormTypes, PanelTypes, MessageTypes, WorkTypes, PanelStatus, Messages, FormNotes

(***************************************************************************)
(* A message about a form that nothing has crossed belongs to the page p   *)
(* that is there and, once the page has been worked on, to a filled one.   *)
(***************************************************************************)
Fits(it, p, f) ==
  /\ it.kind \in {"fill", "aiFill", "capture"} => it.form \in Form
  /\ it.kind \in {"fill", "aiFill"} /\ ~it.crossed => p = it.form
  /\ \/ it.kind = "fill" /\ it.step = "executed"
     \/ it.kind \in {"aiFill", "capture"}
     => it.form \in f \/ it.crossed
  /\ it.kind = "submit" /\ ~it.crossed => p \in f

AllFit == \A m \in Message : Fits(messages[m], page, filled)

(***************************************************************************)
(* A panel that nothing has crossed since the click has no crossed message *)
(* and stands over a filled page when it is complete.                      *)
(***************************************************************************)
Uncrossed ==
  ~crossed =>
    /\ \A m \in Message :
         messages[m].mine /\ messages[m].kind \in {"fill", "aiFill"} => ~messages[m].crossed
    /\ status \in {"complete", "confirming-submit"} => page \in filled

AutofillInv ==
  AutofillTypeOK /\ AllFit /\ Uncrossed /\ PanelWaitsForSomebody /\ RecordsWhatItFilled

\* What the panel asks for: a message of its own, crossed or not.
IsAsked(it, kind, f, c) ==
  /\ it \in Messages
  /\ it.kind = kind /\ it.step = "asked" /\ it.form = f /\ it.mine /\ it.crossed = c

\* What a request of the panel is made of.
LEMMA MessagesMade ==
  ASSUME PanelTypes, NEW f \in Form \cup {NoForm}, NEW kind \in {"profile", "fill", "submit"}
  PROVE  /\ NoMessage \in Messages /\ ~NoMessage.mine /\ NoMessage.kind = "none"
         /\ IsAsked(Ask(kind, f), kind, f, crossed)
         /\ \A c \in BOOLEAN : IsAsked([Ask(kind, f) EXCEPT !.crossed = c], kind, f, c)
<1>1. NoMessage \in Messages /\ ~NoMessage.mine /\ NoMessage.kind = "none"
  BY DEF NoMessage, Messages
<1>2. IsAsked(Ask(kind, f), kind, f, crossed)
  BY <1>1 DEF Ask, PanelTypes, Messages, IsAsked
<1>3. ASSUME NEW c \in BOOLEAN PROVE IsAsked([Ask(kind, f) EXCEPT !.crossed = c], kind, f, c)
  <2>1. Ask(kind, f) \in Messages
    BY <1>2 DEF IsAsked
  <2>2. QED
    BY <1>2, <2>1 DEF IsAsked, Messages
<1>4. QED
  BY <1>1, <1>2, <1>3

\* The tab, the form or the panel changes: whatever is under way is crossed.
LEMMA FormCrossingCrosses ==
  ASSUME MessageTypes
  PROVE  /\ \A m \in Message :
              /\ FormCrossing[m] \in Messages
              /\ FormCrossing[m].kind = messages[m].kind /\ FormCrossing[m].step = messages[m].step
              /\ FormCrossing[m].form = messages[m].form /\ FormCrossing[m].mine = messages[m].mine
              /\ FormCrossing[m].kind # "none" => FormCrossing[m].crossed
         /\ DOMAIN FormCrossing = Message
<1>1. ASSUME NEW m \in Message
      PROVE  /\ FormCrossing[m] \in Messages
             /\ FormCrossing[m].kind = messages[m].kind /\ FormCrossing[m].step = messages[m].step
             /\ FormCrossing[m].form = messages[m].form /\ FormCrossing[m].mine = messages[m].mine
             /\ FormCrossing[m].kind # "none" => FormCrossing[m].crossed
  <2>1. CASE Free(m)
    <3>1. FormCrossing[m] = NoMessage /\ messages[m] = NoMessage
      BY <2>1 DEF FormCrossing, Free
    <3>2. QED
      BY <3>1 DEF NoMessage, Messages
  <2>2. CASE ~Free(m)
    <3>1. FormCrossing[m] = [messages[m] EXCEPT !.crossed = TRUE]
      BY <2>2 DEF FormCrossing
    <3>2. QED
      BY <3>1 DEF MessageTypes, Messages
  <2>3. QED
    BY <2>1, <2>2
<1>2. QED
  BY <1>1 DEF FormCrossing

(***************************************************************************)
(* What a step may do with the messages: replace one, cross them all, or   *)
(* take them from the panel.                                               *)
(***************************************************************************)
OthersStay(m) == \A n \in Message \ {m} : messages'[n] = messages[n]

\* A replaced message stands beside the others as they were.
LEMMA Replaced ==
  ASSUME MessageTypes, NEW m \in Message, NEW x \in Messages, Replace(m, x)
  PROVE  MessageTypes' /\ messages'[m] = x /\ OthersStay(m)
BY DEF MessageTypes, Replace, OthersStay

\* One message is replaced by one that fits; nothing is crossed or unfilled.
LEMMA OneFits ==
  ASSUME AllFit, UNCHANGED page, filled \subseteq filled', NEW m \in Message, OthersStay(m),
         Fits(messages'[m], page, filled')
  PROVE  AllFit'
<1>1. \A n \in Message \ {m} : Fits(messages'[n], page, filled')
  BY DEF AllFit, OthersStay, Fits
<1>2. QED
  BY <1>1 DEF AllFit

\* A message that was not awaited, or that is of its kind still, keeps the panel
\* waiting.
LEMMA StillWaits ==
  ASSUME PanelWaitsForSomebody, UNCHANGED status, NEW m \in Message, OthersStay(m),
         messages[m].mine /\ messages[m].kind # "capture" =>
           messages'[m].mine /\ messages'[m].kind = messages[m].kind
  PROVE  PanelWaitsForSomebody'
BY DEF PanelWaitsForSomebody, OthersStay, Awaited

\* A message that is the panel's only as far as it was, and a panel that is
\* complete only where it was or over a filled page.
LEMMA StaysUncrossed ==
  ASSUME Uncrossed, UNCHANGED <<crossed, page>>, filled \subseteq filled', NEW m \in Message, OthersStay(m),
         messages'[m].mine /\ messages'[m].kind \in {"fill", "aiFill"} =>
           /\ messages[m].mine /\ messages[m].kind \in {"fill", "aiFill"}
           /\ messages'[m].crossed = messages[m].crossed,
         ~crossed /\ status' \in {"complete", "confirming-submit"} =>
           status \in {"complete", "confirming-submit"} \/ page \in filled'
  PROVE  Uncrossed'
<1>1. CASE crossed
  BY <1>1 DEF Uncrossed
<1>2. CASE ~crossed
  <2>1. \A n \in Message : messages'[n].mine /\ messages'[n].kind \in {"fill", "aiFill"} => ~messages'[n].crossed
    BY <1>2 DEF Uncrossed, OthersStay
  <2>2. status' \in {"complete", "confirming-submit"} => page' \in filled'
    BY <1>2 DEF Uncrossed
  <2>3. QED
    BY <1>2, <2>1, <2>2 DEF Uncrossed
<1>3. QED
  BY <1>1, <1>2

(***************************************************************************)
(* The page, the form or the panel changes.                                *)
(***************************************************************************)
LEMMA ChangesKeep ==
  ASSUME AutofillInv,
         \/ MountAutofill
         \/ \E p \in Form \cup {NoForm} : ShowPage(p) \/ HandleForm(p)
  PROVE  AutofillInv'
<1>1. FormTypes /\ PanelTypes /\ MessageTypes /\ WorkTypes
  BY AutofillTypeParts DEF AutofillInv
<1>2. crossed' = TRUE /\ UNCHANGED work
  BY DEF MountAutofill, ShowPage, HandleForm, Happens
<1>3. \A m \in Message :
        /\ messages'[m] \in Messages
        /\ messages'[m].kind = messages[m].kind /\ messages'[m].step = messages[m].step
        /\ messages'[m].form = messages[m].form
        /\ messages'[m].kind # "none" => messages'[m].crossed
  <2>1. CASE messages' = FormCrossing
    BY <1>1, <2>1, FormCrossingCrosses
  <2>2. CASE messages' = [m \in Message |-> [FormCrossing[m] EXCEPT !.mine = FALSE]]
    <3>1. \A m \in Message : FormCrossing[m] \in Messages
      BY <1>1, FormCrossingCrosses
    <3>2. \A m \in Message :
            /\ messages'[m] \in Messages
            /\ messages'[m].kind = FormCrossing[m].kind /\ messages'[m].step = FormCrossing[m].step
            /\ messages'[m].form = FormCrossing[m].form /\ messages'[m].crossed = FormCrossing[m].crossed
      BY <2>2, <3>1 DEF Messages
    <3>3. QED
      BY <1>1, <3>2, FormCrossingCrosses
  <2>3. QED
    BY <2>1, <2>2 DEF MountAutofill, ShowPage, HandleForm
<1>4. AllFit'
  BY <1>2, <1>3 DEF AutofillInv, AllFit, Fits, work
<1>5. Uncrossed' /\ RecordsWhatItFilled'
  BY <1>2 DEF Uncrossed, RecordsWhatItFilled, AutofillInv, work
<1>6. PanelWaitsForSomebody'
  <2>1. CASE MountAutofill
    BY <2>1 DEF MountAutofill, PanelWaitsForSomebody, Awaited
  <2>2. CASE \E p \in Form \cup {NoForm} : ShowPage(p) \/ HandleForm(p)
    <3>1. status' = status /\ messages' = FormCrossing
      BY <2>2 DEF ShowPage, HandleForm
    <3>2. \A m \in Message : messages'[m].mine = messages[m].mine /\ messages'[m].kind = messages[m].kind
      BY <1>1, <3>1, FormCrossingCrosses
    <3>3. QED
      BY <3>1, <3>2 DEF PanelWaitsForSomebody, Awaited, AutofillInv
  <2>3. QED
    BY <2>1, <2>2
<1>7. AutofillTypeOK'
  <2>1. MessageTypes'
    <3>1. messages' = FormCrossing \/ messages' = [m \in Message |-> [FormCrossing[m] EXCEPT !.mine = FALSE]]
      BY DEF MountAutofill, ShowPage, HandleForm
    <3>2. QED
      BY <1>3, <3>1 DEF MessageTypes, FormCrossing
  <2>2. FormTypes'
    <3> DEFINE R == FormNotes
    <3>1. formNotes \in Seq(R) /\ events \in 0 .. MaxEvents /\ activeForm \in Form \cup {NoForm}
      BY <1>1 DEF FormTypes
    <3>2. \A f \in Form \cup {NoForm} : [kind |-> "change", form |-> f] \in R /\ [kind |-> "mount", form |-> f] \in R
      BY DEF FormNotes
    <3> HIDE DEF R
    <3>3. formNotes' \in Seq(R)
      <4>1. \/ formNotes' = formNotes
            \/ formNotes' = <<[kind |-> "mount", form |-> activeForm]>>
            \/ \E f \in Form \cup {NoForm} : formNotes' = Append(formNotes, [kind |-> "change", form |-> f])
        BY DEF MountAutofill, ShowPage, HandleForm
      <4>2. CASE \E f \in Form \cup {NoForm} : formNotes' = Append(formNotes, [kind |-> "change", form |-> f])
        <5>1. PICK x \in R : formNotes' = Append(formNotes, x)
          BY <3>2, <4>2
        <5>2. QED
          BY <3>1, <5>1
      <4>3. CASE formNotes' = <<[kind |-> "mount", form |-> activeForm]>>
        <5>1. PICK x \in R : formNotes' = <<x>>
          BY <3>1, <3>2, <4>3
        <5>2. QED
          BY <5>1
      <4>4. QED
        BY <3>1, <4>1, <4>2, <4>3
    <3>4. events' \in 0 .. MaxEvents
      <4>1. events < MaxEvents /\ events' = events + 1
        BY DEF MountAutofill, ShowPage, HandleForm, Happens
      <4>2. QED
        BY <3>1, <4>1, AutofillAssumption
    <3>5. activeForm' \in Form \cup {NoForm} /\ page' \in Form \cup {NoForm}
      BY <1>1 DEF MountAutofill, ShowPage, HandleForm, FormTypes
    <3>6. QED
      BY <3>3, <3>4, <3>5 DEF FormTypes, R
  <2>3. PanelTypes'
    BY <1>1, <1>2 DEF MountAutofill, ShowPage, HandleForm, PanelTypes, PanelStatus
  <2>4. WorkTypes'
    BY <1>1, <1>2 DEF WorkTypes, work
  <2>5. QED
    BY <2>1, <2>2, <2>3, <2>4
       DEF AutofillTypeOK, FormTypes, PanelTypes, MessageTypes, WorkTypes, PanelStatus, Messages, FormNotes
<1>8. QED
  BY <1>4, <1>5, <1>6, <1>7 DEF AutofillInv

\* The invariant again, where the page and what the worker knows of it stay.
LEMMA AutofillAgain ==
  ASSUME AutofillInv, UNCHANGED pageVars, PanelTypes', MessageTypes', WorkTypes', AllFit', Uncrossed',
         PanelWaitsForSomebody', RecordsWhatItFilled'
  PROVE  AutofillInv'
<1>1. FormTypes'
  BY AutofillTypeParts DEF AutofillInv, FormTypes, pageVars
<1>2. AutofillTypeOK'
  BY <1>1 DEF AutofillTypeOK, FormTypes, PanelTypes, MessageTypes, WorkTypes, PanelStatus, Messages, FormNotes
<1>3. QED
  BY <1>2 DEF AutofillInv

(***************************************************************************)
(* The panel is told of a form, or tries again: the profile is asked for.  *)
(***************************************************************************)
LEMMA ProfileAsked ==
  ASSUME AutofillInv, NEW m \in Message, NEW f \in Form \cup {NoForm}, LoadProfile(m, f),
         UNCHANGED <<page, work>>, crossed' = TRUE \/ (UNCHANGED crossed /\ status = "error")
  PROVE  MessageTypes' /\ status' \in PanelStatus /\ AllFit' /\ Uncrossed' /\ PanelWaitsForSomebody'
<1>1. FormTypes /\ PanelTypes /\ MessageTypes /\ WorkTypes
  BY AutofillTypeParts DEF AutofillInv
<1>2. IsAsked(Ask("profile", f), "profile", f, crossed)
  BY <1>1, MessagesMade
<1>3. MessageTypes' /\ messages'[m] = Ask("profile", f) /\ OthersStay(m)
  BY <1>1, <1>2, Replaced DEF LoadProfile, IsAsked
<1>4. status' = "loading" /\ UNCHANGED <<page, filled>>
  BY DEF LoadProfile, work
<1>5. Fits(messages'[m], page, filled')
  BY <1>2, <1>3 DEF Fits, IsAsked
<1>6. AllFit'
  BY <1>3, <1>4, <1>5, OneFits DEF AutofillInv
<1>7. Uncrossed'
  <2>1. CASE crossed' = TRUE
    BY <2>1 DEF Uncrossed
  <2>2. CASE UNCHANGED crossed
    BY <1>2, <1>3, <1>4, <2>2, StaysUncrossed DEF AutofillInv, IsAsked
  <2>3. QED
    BY <2>1, <2>2
<1>8. PanelWaitsForSomebody'
  BY <1>2, <1>3, <1>4 DEF PanelWaitsForSomebody, Awaited, IsAsked
<1>9. QED
  BY <1>3, <1>4, <1>6, <1>7, <1>8 DEF PanelStatus

\* A note crosses the panel, which asks for the profile if it tells of a form.
LEMMA NotesKeep ==
  ASSUME AutofillInv, NEW m \in Message, HandleFormNote(m)
  PROVE  AutofillInv'
<1>1. FormTypes /\ PanelTypes /\ MessageTypes /\ WorkTypes
  BY AutofillTypeParts DEF AutofillInv
<1>2. formRef' \in Form \cup {NoForm} /\ formNotes' \in Seq(FormNotes)
  <2>1. Head(formNotes) \in FormNotes /\ Tail(formNotes) \in Seq(FormNotes)
    <3> DEFINE R == FormNotes
    <3>1. formNotes \in Seq(R) /\ formNotes # <<>>
      BY <1>1 DEF FormTypes, HandleFormNote
    <3> HIDE DEF R
    <3>2. Head(formNotes) \in R /\ Tail(formNotes) \in Seq(R)
      BY <3>1
    <3>3. QED
      BY <3>2 DEF R
  <2>2. QED
    BY <2>1 DEF HandleFormNote, FormNotes
<1>3. crossed' = TRUE /\ UNCHANGED <<activeForm, page, work, events>>
  BY DEF HandleFormNote
<1>4. MessageTypes' /\ status' \in PanelStatus /\ AllFit' /\ Uncrossed' /\ PanelWaitsForSomebody'
  <2>1. CASE LoadProfile(m, formRef')
    BY <1>2, <1>3, <2>1, ProfileAsked
  <2>2. CASE UNCHANGED messages /\ status' \in {status, "idle"}
    <3>1. MessageTypes' /\ status' \in PanelStatus
      BY <1>1, <2>2 DEF MessageTypes, PanelTypes, PanelStatus
    <3>2. AllFit' /\ Uncrossed'
      BY <1>3, <2>2 DEF AutofillInv, AllFit, Fits, Uncrossed, work
    <3>3. PanelWaitsForSomebody'
      BY <2>2 DEF AutofillInv, PanelWaitsForSomebody, Awaited
    <3>4. QED
      BY <3>1, <3>2, <3>3
  <2>3. QED
    BY <2>1, <2>2 DEF HandleFormNote
<1>5. AutofillTypeOK'
  BY <1>1, <1>2, <1>3, <1>4 DEF AutofillTypeOK, FormTypes, PanelTypes, MessageTypes, WorkTypes,
                                PanelStatus, Messages, FormNotes, work
<1>6. RecordsWhatItFilled'
  BY <1>3 DEF AutofillInv, RecordsWhatItFilled, work
<1>7. QED
  BY <1>4, <1>5, <1>6 DEF AutofillInv

\* A retry asks for the profile again, of the form that is there.
LEMMA RetryKeeps ==
  ASSUME AutofillInv, NEW m \in Message, RetryAutofill(m)
  PROVE  AutofillInv'
<1>1. FormTypes /\ PanelTypes /\ MessageTypes /\ WorkTypes
  BY AutofillTypeParts DEF AutofillInv
<1>2. status = "error" /\ UNCHANGED <<pageVars, formRef, work, crossed>> /\ UNCHANGED page
  BY DEF RetryAutofill, pageVars
<1>3. MessageTypes' /\ status' \in PanelStatus /\ AllFit' /\ Uncrossed' /\ PanelWaitsForSomebody'
  <2>1. CASE LoadProfile(m, formRef)
    BY <1>1, <1>2, <2>1, ProfileAsked DEF PanelTypes
  <2>2. CASE UNCHANGED messages /\ status' = "idle"
    <3>1. MessageTypes' /\ status' \in PanelStatus
      BY <1>1, <2>2 DEF MessageTypes, PanelStatus
    <3>2. AllFit' /\ Uncrossed'
      BY <1>2, <2>2 DEF AutofillInv, AllFit, Fits, Uncrossed, work
    <3>3. PanelWaitsForSomebody'
      BY <2>2 DEF PanelWaitsForSomebody, Awaited
    <3>4. QED
      BY <3>1, <3>2, <3>3
  <2>3. QED
    BY <2>1, <2>2 DEF RetryAutofill
<1>4. PanelTypes' /\ WorkTypes' /\ RecordsWhatItFilled'
  BY <1>1, <1>2, <1>3 DEF PanelTypes, WorkTypes, RecordsWhatItFilled, work, AutofillInv
<1>5. QED
  BY <1>2, <1>3, <1>4, AutofillAgain

(***************************************************************************)
(* A message is answered, and the panel that asked comes to rest.          *)
(***************************************************************************)
LEMMA AnswersKeep ==
  ASSUME AutofillInv, NEW m \in Message, Replace(m, NoMessage),
         NEW state \in {"ready", "error", "submitted"}, Becomes(m, state),
         UNCHANGED <<pageVars, formRef, work, crossed>>
  PROVE  AutofillInv'
<1>1. FormTypes /\ PanelTypes /\ MessageTypes /\ WorkTypes
  BY AutofillTypeParts DEF AutofillInv
<1>2. NoMessage \in Messages /\ ~NoMessage.mine /\ NoMessage.kind = "none"
  BY DEF NoMessage, Messages
<1>3. MessageTypes' /\ messages'[m] = NoMessage /\ OthersStay(m)
  BY <1>1, <1>2, Replaced
<1>4. UNCHANGED <<page, filled>> /\ UNCHANGED <<crossed, page>>
  BY DEF pageVars, work
<1>5. status' = IF messages[m].mine THEN state ELSE status
  BY DEF Becomes
<1>6. AllFit'
  <2>1. Fits(messages'[m], page, filled')
    BY <1>2, <1>3 DEF Fits
  <2>2. QED
    BY <1>3, <1>4, <2>1, OneFits DEF AutofillInv
<1>7. Uncrossed'
  BY <1>2, <1>3, <1>4, <1>5, StaysUncrossed DEF AutofillInv
<1>8. PanelWaitsForSomebody'
  <2>1. CASE messages[m].mine
    BY <1>5, <2>1 DEF PanelWaitsForSomebody, Awaited
  <2>2. CASE ~messages[m].mine
    BY <1>3, <1>5, <2>2, StillWaits DEF AutofillInv
  <2>3. QED
    BY <2>1, <2>2
<1>9. PanelTypes' /\ WorkTypes' /\ RecordsWhatItFilled'
  BY <1>1, <1>5 DEF PanelTypes, PanelStatus, WorkTypes, RecordsWhatItFilled, work, AutofillInv
<1>10. QED
  BY <1>3, <1>6, <1>7, <1>8, <1>9, AutofillAgain

\* A capture is of a form that was filled, and takes its message away.
LEMMA CaptureKeeps ==
  ASSUME AutofillInv, NEW m \in Message, Capture(m)
  PROVE  AutofillInv'
<1>1. FormTypes /\ PanelTypes /\ MessageTypes /\ WorkTypes
  BY AutofillTypeParts DEF AutofillInv
<1>2. NoMessage \in Messages /\ ~NoMessage.mine /\ NoMessage.kind = "none"
  BY DEF NoMessage, Messages
<1>3. MessageTypes' /\ messages'[m] = NoMessage /\ OthersStay(m)
  BY <1>1, <1>2, Replaced DEF Capture
<1>4. /\ UNCHANGED <<pageVars, status, formRef, filled, submitted, crossed>> /\ UNCHANGED <<crossed, page>>
      /\ messages[m].kind = "capture"
  BY DEF Capture, pageVars
<1>5. AllFit'
  <2>1. Fits(messages'[m], page, filled')
    BY <1>2, <1>3 DEF Fits
  <2>2. QED
    BY <1>3, <1>4, <2>1, OneFits DEF AutofillInv
<1>6. Uncrossed'
  BY <1>2, <1>3, <1>4, StaysUncrossed DEF AutofillInv
<1>7. PanelWaitsForSomebody'
  BY <1>3, <1>4, StillWaits DEF AutofillInv
<1>8. /\ messages[m] \in Messages /\ messages[m].form \in Form
      /\ messages[m].form \in filled \/ messages[m].crossed
  BY <1>1, <1>4 DEF AutofillInv, AllFit, Fits, MessageTypes
<1>9. WorkTypes' /\ RecordsWhatItFilled'
  <2> DEFINE c == [form |-> messages[m].form, crossed |-> messages[m].crossed]
  <2>1. c \in [form : Form, crossed : BOOLEAN] /\ (c.form \in filled \/ c.crossed)
    BY <1>8 DEF Messages
  <2>2. captured' \subseteq captured \cup {c}
    BY DEF Capture
  <2> HIDE DEF c
  <2>3. QED
    BY <1>1, <1>4, <2>1, <2>2 DEF WorkTypes, RecordsWhatItFilled, AutofillInv
<1>10. PanelTypes'
  BY <1>1, <1>4 DEF PanelTypes
<1>11. QED
  BY <1>3, <1>4, <1>5, <1>6, <1>7, <1>9, <1>10, AutofillAgain

(***************************************************************************)
(* The click on Autofill: a page that is the form's, and no other message  *)
(* of the panel under way, is what "not crossed" means.                    *)
(***************************************************************************)
LEMMA AutofillKeeps ==
  ASSUME AutofillInv, NEW m \in Message, HandleAutofill(m)
  PROVE  AutofillInv'
<1>1. FormTypes /\ PanelTypes /\ MessageTypes /\ WorkTypes
  BY AutofillTypeParts DEF AutofillInv
<1> DEFINE x == [Ask("fill", formRef) EXCEPT !.crossed = (page # formRef)]
<1>2. IsAsked(x, "fill", formRef, page # formRef)
  BY <1>1, MessagesMade DEF PanelTypes
<1> HIDE DEF x
<1>3. MessageTypes' /\ messages'[m] = x /\ OthersStay(m)
  BY <1>1, <1>2, Replaced DEF HandleAutofill, IsAsked, x
<1>4. /\ UNCHANGED <<pageVars, formRef, work>> /\ UNCHANGED <<page, filled>>
      /\ status' = "filling" /\ formRef # NoForm
  BY DEF HandleAutofill, pageVars, work
<1>5. AllFit'
  <2>1. Fits(messages'[m], page, filled')
    BY <1>1, <1>2, <1>3, <1>4 DEF Fits, IsAsked, PanelTypes
  <2>2. QED
    BY <1>3, <1>4, <2>1, OneFits DEF AutofillInv
<1>6. Uncrossed'
  <2>1. ASSUME ~crossed' PROVE page = formRef /\ \A n \in Message : ~messages[n].mine
    BY <2>1 DEF HandleAutofill
  <2>2. QED
    BY <1>2, <1>3, <1>4, <2>1 DEF Uncrossed, OthersStay, IsAsked
<1>7. PanelWaitsForSomebody'
  BY <1>2, <1>3, <1>4 DEF PanelWaitsForSomebody, Awaited, IsAsked
<1>8. crossed' \in BOOLEAN
  BY DEF HandleAutofill
<1>9. PanelTypes' /\ WorkTypes' /\ RecordsWhatItFilled'
  BY <1>1, <1>4, <1>8 DEF PanelTypes, PanelStatus, WorkTypes, RecordsWhatItFilled, work, AutofillInv
<1>10. QED
  BY <1>3, <1>4, <1>5, <1>6, <1>7, <1>9, AutofillAgain

(***************************************************************************)
(* EXECUTE_AUTOFILL and EXECUTE_SUBMIT work on the page that is there.     *)
(***************************************************************************)
LEMMA ExecutionsKeep ==
  ASSUME AutofillInv, NEW m \in Message, ExecuteAutofill(m) \/ ExecuteSubmit(m)
  PROVE  AutofillInv'
<1>1. FormTypes /\ PanelTypes /\ MessageTypes /\ WorkTypes
  BY AutofillTypeParts DEF AutofillInv
<1>2. /\ UNCHANGED <<pageVars, status, formRef, captured, crossed>> /\ UNCHANGED <<crossed, page>>
      /\ filled \subseteq filled'
  BY DEF ExecuteAutofill, ExecuteSubmit, pageVars
<1>3. /\ MessageTypes' /\ OthersStay(m)
      /\ messages'[m].kind = messages[m].kind /\ messages'[m].mine = messages[m].mine
      /\ messages'[m].crossed = messages[m].crossed /\ messages'[m].form = messages[m].form
  <2>1. CASE ExecuteAutofill(m)
    BY <1>1, <2>1 DEF ExecuteAutofill, MessageTypes, Messages, OthersStay
  <2>2. CASE ExecuteSubmit(m)
    BY <1>1, <2>2 DEF ExecuteSubmit, MessageTypes, Messages, OthersStay
  <2>3. QED
    BY <2>1, <2>2
<1>4. AllFit'
  <2>1. Fits(messages[m], page, filled)
    BY DEF AutofillInv, AllFit
  <2>2. CASE ExecuteAutofill(m)
    <3>1. messages[m].kind = "fill" /\ filled' = filled \cup ({page} \ {NoForm})
      BY <2>2 DEF ExecuteAutofill
    <3>2. Fits(messages'[m], page, filled')
      BY <1>3, <2>1, <3>1, AutofillAssumption DEF Fits
    <3>3. QED
      BY <1>2, <1>3, <3>2, OneFits DEF AutofillInv
  <2>3. CASE ExecuteSubmit(m)
    <3>1. Fits(messages'[m], page, filled')
      BY <1>3, <2>1, <2>3 DEF Fits, ExecuteSubmit
    <3>2. QED
      BY <1>2, <1>3, <3>1, OneFits DEF AutofillInv
  <2>4. QED
    BY <2>2, <2>3
<1>5. Uncrossed'
  BY <1>2, <1>3, StaysUncrossed DEF AutofillInv
<1>6. PanelWaitsForSomebody'
  BY <1>2, <1>3, StillWaits DEF AutofillInv
<1>7. WorkTypes'
  <2>1. page \in Form \cup {NoForm}
    BY <1>1 DEF FormTypes
  <2>2. QED
    BY <1>1, <2>1 DEF WorkTypes, ExecuteAutofill, ExecuteSubmit
<1>8. PanelTypes' /\ RecordsWhatItFilled'
  BY <1>1, <1>2 DEF PanelTypes, RecordsWhatItFilled, AutofillInv
<1>9. QED
  BY <1>2, <1>3, <1>4, <1>5, <1>6, <1>7, <1>8, AutofillAgain

(***************************************************************************)
(* The answers to the two fills carry on to the next message; a panel that *)
(* is complete stands over a page that has been filled.                    *)
(***************************************************************************)
LEMMA CarryingOnKeeps ==
  ASSUME AutofillInv, NEW m \in Message, AskAi(m) \/ Complete(m)
  PROVE  AutofillInv'
<1>1. FormTypes /\ PanelTypes /\ MessageTypes /\ WorkTypes
  BY AutofillTypeParts DEF AutofillInv
<1>2. /\ UNCHANGED <<pageVars, formRef, work, crossed>> /\ UNCHANGED <<crossed, page>>
      /\ UNCHANGED filled
  BY DEF AskAi, Complete, pageVars, work
<1> DEFINE it == messages[m]
           after == IF AskAi(m) THEN [it EXCEPT !.kind = "aiFill", !.step = "asked"]
                    ELSE [it EXCEPT !.kind = "capture", !.step = "asked", !.mine = FALSE]
<1>3. it \in Messages /\ Fits(it, page, filled)
  BY <1>1 DEF MessageTypes, AutofillInv, AllFit
<1>4. (it.kind = "fill" /\ it.step = "executed") \/ it.kind = "aiFill"
  BY DEF AskAi, Complete
<1>5. Replace(m, after)
  BY DEF AskAi, Complete
<1>6. /\ after \in Messages /\ after.form = it.form /\ after.crossed = it.crossed
      /\ AskAi(m) => after.kind = "aiFill" /\ after.mine = it.mine
      /\ ~AskAi(m) => after.kind = "capture" /\ ~after.mine
  BY <1>3 DEF Messages
<1> HIDE DEF after
<1>7. MessageTypes' /\ messages'[m] = after /\ OthersStay(m)
  BY <1>1, <1>5, <1>6, Replaced
<1>8. status' = IF it.mine THEN IF AskAi(m) THEN "ai-filling" ELSE "complete" ELSE status
  BY DEF AskAi, Complete, Becomes
<1>9. AllFit'
  <2>1. Fits(after, page, filled)
    BY <1>3, <1>4, <1>6 DEF Fits
  <2>2. QED
    BY <1>2, <1>7, <2>1, OneFits DEF AutofillInv
<1>10. Uncrossed'
  <2>1. ASSUME ~crossed, it.mine PROVE page \in filled
    <3>1. ~it.crossed
      BY <1>4, <2>1 DEF AutofillInv, Uncrossed
    <3>2. QED
      BY <1>3, <1>4, <3>1 DEF Fits
  <2>2. messages'[m].mine /\ messages'[m].kind \in {"fill", "aiFill"} =>
          /\ messages[m].mine /\ messages[m].kind \in {"fill", "aiFill"}
          /\ messages'[m].crossed = messages[m].crossed
    BY <1>4, <1>6, <1>7
  <2>3. ~crossed /\ status' \in {"complete", "confirming-submit"} =>
          status \in {"complete", "confirming-submit"} \/ page \in filled'
    BY <1>2, <1>8, <2>1
  <2>4. QED
    BY <1>2, <1>7, <2>2, <2>3, StaysUncrossed DEF AutofillInv
<1>11. PanelWaitsForSomebody'
  <2>1. CASE it.mine /\ AskAi(m)
    BY <1>6, <1>7, <1>8, <2>1 DEF PanelWaitsForSomebody, Awaited
  <2>2. CASE it.mine /\ ~AskAi(m)
    BY <1>8, <2>2 DEF PanelWaitsForSomebody, Awaited
  <2>3. CASE ~it.mine
    BY <1>7, <1>8, <2>3, StillWaits DEF AutofillInv
  <2>4. QED
    BY <2>1, <2>2, <2>3
<1>12. PanelTypes' /\ WorkTypes' /\ RecordsWhatItFilled'
  BY <1>1, <1>2, <1>8 DEF PanelTypes, PanelStatus, WorkTypes, RecordsWhatItFilled, work, AutofillInv
<1>13. QED
  BY <1>2, <1>7, <1>9, <1>10, <1>11, <1>12, AutofillAgain

(***************************************************************************)
(* The clicks: submit, confirm, cancel, done.                              *)
(***************************************************************************)
LEMMA ConfirmKeeps ==
  ASSUME AutofillInv, NEW m \in Message, HandleSubmitConfirm(m)
  PROVE  AutofillInv'
<1>1. FormTypes /\ PanelTypes /\ MessageTypes /\ WorkTypes
  BY AutofillTypeParts DEF AutofillInv
<1> DEFINE x == Ask("submit", formRef)
<1>2. IsAsked(x, "submit", formRef, crossed)
  BY <1>1, MessagesMade DEF PanelTypes
<1> HIDE DEF x
<1>3. MessageTypes' /\ messages'[m] = x /\ OthersStay(m)
  BY <1>1, <1>2, Replaced DEF HandleSubmitConfirm, IsAsked, x
<1>4. /\ UNCHANGED <<pageVars, formRef, work, crossed>> /\ UNCHANGED <<crossed, page>>
      /\ UNCHANGED filled /\ status = "confirming-submit" /\ status' = "submitting"
  BY DEF HandleSubmitConfirm, pageVars, work
<1>5. AllFit'
  <2>1. Fits(messages'[m], page, filled')
    BY <1>2, <1>3, <1>4 DEF Fits, IsAsked, AutofillInv, Uncrossed
  <2>2. QED
    BY <1>3, <1>4, <2>1, OneFits DEF AutofillInv
<1>6. Uncrossed'
  BY <1>2, <1>3, <1>4, StaysUncrossed DEF AutofillInv, IsAsked
<1>7. PanelWaitsForSomebody'
  BY <1>2, <1>3, <1>4 DEF PanelWaitsForSomebody, Awaited, IsAsked
<1>8. PanelTypes' /\ WorkTypes' /\ RecordsWhatItFilled'
  BY <1>1, <1>4 DEF PanelTypes, PanelStatus, WorkTypes, RecordsWhatItFilled, work, AutofillInv
<1>9. QED
  BY <1>3, <1>4, <1>5, <1>6, <1>7, <1>8, AutofillAgain

\* The other clicks ask for nothing.
LEMMA ClicksKeep ==
  ASSUME AutofillInv,
         HandleSubmitRequest \/ HandleSubmitCancel \/ DismissSubmitted \/ UNCHANGED autofillVars
  PROVE  AutofillInv'
<1>1. FormTypes /\ PanelTypes /\ MessageTypes /\ WorkTypes
  BY AutofillTypeParts DEF AutofillInv
<1>2. UNCHANGED <<pageVars, formRef, messages, work, crossed>>
  BY DEF HandleSubmitRequest, HandleSubmitCancel, DismissSubmitted, autofillVars, pageVars, work
<1>3. MessageTypes' /\ WorkTypes' /\ AllFit' /\ RecordsWhatItFilled'
  BY <1>1, <1>2 DEF MessageTypes, WorkTypes, AllFit, Fits, RecordsWhatItFilled, AutofillInv, pageVars, work
<1>4. PanelTypes' /\ Uncrossed'
  BY <1>1, <1>2 DEF HandleSubmitRequest, HandleSubmitCancel, DismissSubmitted, autofillVars,
                    PanelTypes, PanelStatus, Uncrossed, AutofillInv, pageVars, work
<1>5. PanelWaitsForSomebody'
  BY <1>2 DEF HandleSubmitRequest, HandleSubmitCancel, DismissSubmitted, autofillVars,
              PanelWaitsForSomebody, Awaited, AutofillInv
<1>6. QED
  BY <1>2, <1>3, <1>4, <1>5, AutofillAgain

(***************************************************************************)
(* The invariant of the panel, and what it is for.                         *)
(***************************************************************************)
LEMMA AutofillInductive ==
  /\ AutofillInit => AutofillInv
  /\ AutofillInv /\ [AutofillNext]_autofillVars => AutofillInv'
<1>1. ASSUME AutofillInit PROVE AutofillInv
  <2>1. FormTypes /\ PanelTypes /\ WorkTypes
    <3>1. 0 \in 0 .. MaxEvents
      BY AutofillAssumption
    <3>2. FormTypes
      BY <1>1, <3>1 DEF AutofillInit, FormTypes
    <3>3. PanelTypes
      BY <1>1 DEF AutofillInit, PanelTypes, PanelStatus
    <3>4. WorkTypes
      BY <1>1 DEF AutofillInit, WorkTypes
    <3>5. QED
      BY <3>2, <3>3, <3>4
  <2>2. MessageTypes
    BY <1>1 DEF AutofillInit, MessageTypes, Messages, NoMessage
  <2>3. AutofillTypeOK
    BY <2>1, <2>2 DEF AutofillTypeOK, FormTypes, PanelTypes, MessageTypes, WorkTypes, PanelStatus, Messages, FormNotes
  <2>4. AllFit /\ Uncrossed /\ PanelWaitsForSomebody /\ RecordsWhatItFilled
    BY <1>1 DEF AutofillInit, AllFit, Fits, Uncrossed, PanelWaitsForSomebody, Awaited, RecordsWhatItFilled, NoMessage
  <2>5. QED
    BY <2>3, <2>4 DEF AutofillInv
<1>2. ASSUME AutofillInv, [AutofillNext]_autofillVars PROVE AutofillInv'
  <2>1. ASSUME NEW m \in Message, ProfileArrives(m) \/ AutofillFails(m) \/ SubmitAnswered(m)
        PROVE  AutofillInv'
    <3>1. /\ Replace(m, NoMessage) /\ UNCHANGED <<pageVars, formRef, work, crossed>>
          /\ \E state \in {"ready", "error", "submitted"} : Becomes(m, state)
      BY <2>1 DEF ProfileArrives, AutofillFails, SubmitAnswered
    <3>2. QED
      BY <1>2, <3>1, AnswersKeep
  <2>2. QED
    BY <1>2, <2>1, ChangesKeep, NotesKeep, RetryKeeps, CaptureKeeps, AutofillKeeps, ExecutionsKeep,
       CarryingOnKeeps, ConfirmKeeps, ClicksKeep DEF AutofillNext
<1>3. QED
  BY <1>1, <1>2

(***************************************************************************)
(* AutofillPanel.tsx:121-175: the panel never waits alone, and what it     *)
(* submits or records is what it has filled, unless the tab, the form or   *)
(* the panel has changed since the click.                                  *)
(***************************************************************************)
THEOREM PanelFillsWhatItSubmits == AutofillSpec => PanelFollowsTheForm
<1>1. AutofillInv => PanelWaitsForSomebody /\ RecordsWhatItFilled
  BY DEF AutofillInv
<1>2. AutofillInv /\ [AutofillNext]_autofillVars =>
        [\A m \in Message :
           /\ messages[m].kind = "submit" /\ messages'[m].done /\ ~messages[m].crossed
           => page \in filled]_autofillVars
  BY DEF AutofillInv, AllFit, Fits
<1>3. QED
  BY <1>1, <1>2, AutofillInductive, PTL DEF AutofillSpec, PanelFollowsTheForm, SubmitsWhatItFilled

\* Every reachable state of the panel is well typed.
THEOREM AutofillTypeCorrect == AutofillSpec => []AutofillTypeOK
<1>1. AutofillInv => AutofillTypeOK
  BY DEF AutofillInv
<1>2. QED
  BY <1>1, AutofillInductive, PTL DEF AutofillSpec

-------------------------------------------------------------------------------
\* PageDetection: the page the panel is told of.

(***************************************************************************)
(* What the panel was told of the form is what a look would find, unless   *)
(* a mutation waits after which the observer will see a modal come or go:  *)
(* of what it is not told, or does not see, the modal is `missed`.         *)
(***************************************************************************)
FormIsKnown ==
  ~debounce /\ ~unheard /\ ~missed =>
    \/ toldForm <=> DetectForm(url, modal)
    \/ notice /\ IsPresent(modal) # modalSeen

DetectionInv == DetectionTypeOK /\ FormIsKnown /\ PostingIsReported

\* A look at a page settles both.
LEMMA LookSettles ==
  ASSUME DetectionTypeOK, NEW u \in Place, NEW d \in Place, NEW m \in Modal,
         url' = u, modal' = m, indeed' = indeed, RunDetection(u, d, m)
  PROVE  /\ FormIsKnown' /\ PostingIsReported'
         /\ toldJob' \in [url : Posting, of : Posting] \cup {[url |-> NoPosting, of |-> NoPosting]}
         /\ toldForm' \in BOOLEAN /\ behind' \in BOOLEAN
         /\ unheard' = FALSE /\ missed' = FALSE
<1>1. /\ toldJob' = DetectJD(u, d) /\ toldForm' = DetectForm(u, m)
      /\ behind' = (u # NoPosting /\ d # u) /\ unheard' = FALSE /\ missed' = FALSE
  BY DEF RunDetection, LookedAt
<1>2. toldForm' <=> DetectForm(url, modal)'
  BY <1>1, Zenon DEF DetectForm
<1>3. FormIsKnown'
  BY <1>2, Zenon DEF FormIsKnown
<1>4. PostingIsReported'
  BY <1>1, PageDetectionAssumption DEF PostingIsReported, DetectJD
<1>5. toldJob' \in [url : Posting, of : Posting] \cup {[url |-> NoPosting, of |-> NoPosting]}
  BY <1>1, PageDetectionAssumption DEF DetectJD, Place, DetectionTypeOK
<1>6. toldForm' \in BOOLEAN /\ behind' \in BOOLEAN
  BY <1>1, Zenon DEF DetectForm
<1>7. QED
  BY <1>1, <1>3, <1>4, <1>5, <1>6

(***************************************************************************)
(* Every look and every change of the page keeps the invariant.            *)
(***************************************************************************)
LEMMA DetectionInductive ==
  /\ DetectionInit => DetectionInv
  /\ DetectionInv /\ [DetectionNext]_detectionVars => DetectionInv'
<1> USE PageDetectionAssumption
<1>1. ASSUME DetectionInit PROVE DetectionInv
  <2>1. DetectionTypeOK /\ PostingIsReported
    <3>1. url \in Place /\ document \in Place /\ changes \in 0 .. MaxChanges
      BY <1>1 DEF DetectionInit, Place
    <3>2. PostingIsReported
      BY <1>1, Zenon DEF DetectionInit, PostingIsReported
    <3>3. QED
      BY <1>1, <3>1, <3>2 DEF DetectionInit, DetectionTypeOK, Modal
  <2>2. FormIsKnown
    BY <1>1 DEF DetectionInit, FormIsKnown, DetectForm
  <2>3. QED
    BY <2>1, <2>2 DEF DetectionInv
<1>2. ASSUME DetectionInv, [DetectionNext]_detectionVars PROVE DetectionInv'
  <2>1. DetectionTypeOK /\ FormIsKnown /\ PostingIsReported
    BY <1>2 DEF DetectionInv
  <2>2. changes < MaxChanges => changes + 1 \in 0 .. MaxChanges
    BY <2>1 DEF DetectionTypeOK
  <2>3. ASSUME NEW u \in Place, NEW d \in Place, NEW m \in Modal, LoadPage(u, d, m)
        PROVE  DetectionInv'
    <3>1. /\ url' = u /\ document' = d /\ modal' = m /\ indeed' = indeed
          /\ modalSeen' = IsPresent(m) /\ notice' = FALSE /\ debounce' = FALSE
          /\ RunDetection(u, d, m) /\ changes < MaxChanges /\ changes' = changes + 1
      BY <2>3 DEF LoadPage, Changes
    <3>2. modalSeen' \in BOOLEAN
      BY <3>1, Zenon DEF IsPresent
    <3>3. /\ FormIsKnown' /\ PostingIsReported'
          /\ toldJob' \in [url : Posting, of : Posting]
                         \cup {[url |-> NoPosting, of |-> NoPosting]}
          /\ toldForm' \in BOOLEAN /\ behind' \in BOOLEAN
          /\ unheard' = FALSE /\ missed' = FALSE
      BY <2>1, <3>1, LookSettles
    <3>4. DetectionTypeOK'
      BY <2>1, <2>2, <3>1, <3>2, <3>3 DEF DetectionTypeOK
    <3>5. QED
      BY <3>3, <3>4 DEF DetectionInv
  <2>4. ASSUME NEW u \in Place, NEW heard \in BOOLEAN, PushState(u, heard)
        PROVE  DetectionInv'
    <3>1. /\ url' = u /\ changes < MaxChanges /\ changes' = changes + 1
          /\ debounce' = (debounce \/ heard) /\ unheard' = (unheard \/ ~heard)
          /\ UNCHANGED <<indeed, document, modal, modalSeen, notice, toldJob, toldForm,
                         behind, missed>>
      BY <2>4 DEF PushState, Changes
    <3>2. debounce' \in BOOLEAN /\ unheard' \in BOOLEAN
      BY <2>1, <3>1, Zenon
    <3>3. DetectionTypeOK'
      BY <2>1, <2>2, <3>1, <3>2 DEF DetectionTypeOK
    <3>4. debounce' \/ unheard'
      BY <2>4, <3>1, Zenon
    <3>5. QED
      BY <3>3, <3>4, Zenon DEF DetectionInv, FormIsKnown, PostingIsReported
  <2>5. ASSUME NEW m \in Modal, NEW reported \in BOOLEAN, ToggleModal(m, reported)
        PROVE  DetectionInv'
    <3>1. /\ modal' = m /\ changes < MaxChanges /\ changes' = changes + 1
          /\ notice' = (notice \/ reported)
          /\ missed' = (missed \/ ~reported \/ IsPresent(m) = modalSeen)
          /\ UNCHANGED <<indeed, url, document, modalSeen, debounce, toldJob, toldForm,
                         behind, unheard>>
      BY <2>5 DEF ToggleModal, Changes
    <3>2. notice' \in BOOLEAN /\ missed' \in BOOLEAN
      BY <2>1, <3>1, Zenon
    <3>3. DetectionTypeOK'
      BY <2>1, <2>2, <3>1, <3>2 DEF DetectionTypeOK
    <3>4. ASSUME ~missed' PROVE notice' /\ IsPresent(modal') # modalSeen'
      BY <3>1, <3>4, Zenon
    <3>5. FormIsKnown'
      BY <3>4, Zenon DEF FormIsKnown, IsPresent
    <3>6. PostingIsReported'
      BY <2>1, <3>1, Zenon DEF PostingIsReported
    <3>7. QED
      BY <3>3, <3>5, <3>6 DEF DetectionInv
  <2>6. CASE Hydrate
    <3>1. /\ document' = url
          /\ UNCHANGED <<indeed, url, modal, modalSeen, notice, debounce, toldJob, toldForm,
                         behind, unheard, missed, changes>>
      BY <2>6 DEF Hydrate
    <3>2. DetectionTypeOK'
      BY <2>1, <3>1 DEF DetectionTypeOK
    <3>3. QED
      BY <2>1, <3>1, <3>2, Zenon
         DEF DetectionInv, FormIsKnown, PostingIsReported, DetectForm
  <2>7. CASE MutateElsewhere
    <3>1. /\ notice' = TRUE
          /\ UNCHANGED <<indeed, url, document, modal, modalSeen, debounce, toldJob, toldForm,
                         behind, unheard, missed, changes>>
      BY <2>7 DEF MutateElsewhere
    <3>2. DetectionTypeOK'
      BY <2>1, <3>1 DEF DetectionTypeOK
    <3>3. QED
      BY <2>1, <3>1, <3>2, Zenon
         DEF DetectionInv, FormIsKnown, PostingIsReported, DetectForm
  <2>8. CASE ObserveModal
    <3>1. /\ notice' = FALSE /\ modalSeen' = IsPresent(modal)
          /\ debounce' = (debounce \/ IsPresent(modal) # modalSeen)
          /\ UNCHANGED <<indeed, url, document, modal, toldJob, toldForm, behind, unheard,
                         missed, changes>>
      BY <2>8 DEF ObserveModal
    <3>2. modalSeen' \in BOOLEAN /\ debounce' \in BOOLEAN
      BY <2>1, <3>1, Zenon DEF IsPresent
    <3>3. DetectionTypeOK'
      BY <2>1, <3>1, <3>2 DEF DetectionTypeOK
    <3>4. ASSUME ~debounce' PROVE ~debounce /\ IsPresent(modal) = modalSeen
      BY <3>1, <3>4, Zenon
    <3>5. FormIsKnown'
      BY <2>1, <3>1, <3>4, Zenon DEF FormIsKnown, DetectForm
    <3>6. PostingIsReported'
      BY <2>1, <3>1, <3>4, Zenon DEF PostingIsReported
    <3>7. QED
      BY <3>3, <3>5, <3>6 DEF DetectionInv
  <2>9. CASE Redetect
    <3>1. /\ RunDetection(url, document, modal) /\ debounce' = FALSE
          /\ UNCHANGED <<indeed, url, document, modal, modalSeen, notice, changes>>
      BY <2>9 DEF Redetect
    <3>2. /\ FormIsKnown' /\ PostingIsReported'
          /\ toldJob' \in [url : Posting, of : Posting]
                         \cup {[url |-> NoPosting, of |-> NoPosting]}
          /\ toldForm' \in BOOLEAN /\ behind' \in BOOLEAN
          /\ unheard' = FALSE /\ missed' = FALSE
      BY <2>1, <3>1, LookSettles DEF DetectionTypeOK
    <3>3. DetectionTypeOK'
      BY <2>1, <3>1, <3>2 DEF DetectionTypeOK
    <3>4. QED
      BY <3>2, <3>3 DEF DetectionInv
  <2>10. CASE UNCHANGED detectionVars
    <3>1. /\ UNCHANGED <<indeed, url, document, modal, modalSeen, notice, debounce>>
          /\ UNCHANGED <<toldJob, toldForm, behind, unheard, missed, changes>>
      BY <2>10 DEF detectionVars
    <3>2. DetectionTypeOK'
      BY <2>1, <3>1 DEF DetectionTypeOK
    <3>3. QED
      BY <2>1, <3>1, <3>2, Zenon
         DEF DetectionInv, FormIsKnown, PostingIsReported, DetectForm
  <2>11. QED
    BY <1>2, <2>3, <2>4, <2>5, <2>6, <2>7, <2>8, <2>9, <2>10, Zenon DEF DetectionNext
<1>3. QED
  BY <1>1, <1>2

(***************************************************************************)
(* content/index.ts: when no timer runs and no mutation waits, the side    *)
(* panel knows the page that is there, whatever changed, was reported and  *)
(* was heard of in whatever order, unless the document came after the last *)
(* look, the URL changed unheard or the modal changed beneath the          *)
(* observer, which sees only whether there is one.                         *)
(***************************************************************************)
THEOREM PageIsKnown == DetectionSpec => []PageIsReported
<1>1. DetectionInv => PageIsReported
  BY DEF DetectionInv, FormIsKnown, PageIsReported, FormIsReported
<1>2. QED
  BY <1>1, DetectionInductive, PTL DEF DetectionSpec

\* Every reachable state of the detection is well typed.
THEOREM DetectionTypeCorrect == DetectionSpec => []DetectionTypeOK
<1>1. DetectionInv => DetectionTypeOK
  BY DEF DetectionInv
<1>2. QED
  BY <1>1, DetectionInductive, PTL DEF DetectionSpec

-------------------------------------------------------------------------------
\* FormFill: the filling of an application form.

\* Of finitely many subsets one is the smallest.
LEMMA Smallest ==
  ASSUME NEW U, IsFiniteSet(U), NEW C \in SUBSET SUBSET U, C # {}
  PROVE  \E x \in C : \A y \in C : y \subseteq x => y = x
<1>1. C \subseteq FiniteSubsetsOf(U)
  BY FS_FiniteSubsetsOfFinite
<1>2. \E x \in C : \A y \in C : ~(<<y, x>> \in StrictSubsetOrdering(U))
  BY <1>1, FS_StrictSubsetOrderingWellFounded, WFMin, Zenon
<1>3. QED
  BY <1>1, <1>2 DEF StrictSubsetOrdering

\* Of a finite set of numbers one is the greatest ...
LEMMA LatestOf ==
  ASSUME NEW S \in SUBSET Nat, IsFiniteSet(S), S # {}
  PROVE  Latest(S) \in S /\ \A j \in S : j <= Latest(S)
<1> DEFINE V == S
           Above(x) == {y \in S : y >= x}
           C == {Above(x) : x \in S}
<1>1. C \in SUBSET SUBSET V
  OBVIOUS
<1>2. C # {}
  OBVIOUS
<1>3. IsFiniteSet(V)
  OBVIOUS
<1>4. PICK s \in C : \A t \in C : t \subseteq s => t = s
  <2> HIDE DEF C, V
  <2>1. QED
    BY <1>1, <1>2, <1>3, Smallest
<1>5. PICK x \in S : s = Above(x)
  BY <1>4
<1>6. ASSUME NEW y \in S, y > x
      PROVE  FALSE
  <2>1. x \in Nat /\ y \in Nat
    OBVIOUS
  <2>2. ASSUME NEW z \in S, z >= y
        PROVE  z >= x
    <3>1. z \in Nat
      OBVIOUS
    <3>2. QED
      BY <1>6, <2>1, <2>2, <3>1
  <2>3. Above(y) \in C /\ Above(y) \subseteq Above(x)
    BY <2>2
  <2>4. x \in Above(x) /\ x \notin Above(y)
    BY <1>6, <2>1
  <2>5. QED
    BY <1>4, <1>5, <2>3, <2>4, Zenon
<1>7. \A j \in S : x >= j
  BY <1>6
<1>8. Latest(S) \in S /\ \A j \in S : Latest(S) >= j
  <2> HIDE DEF C
  <2>1. \E i \in S : \A j \in S : i >= j
    BY <1>7
  <2>2. QED
    BY <2>1, Zenon DEF Latest
<1>9. QED
  BY <1>8

\* ... and of a set of places on the page one is the first.
LEMMA EarliestOf ==
  ASSUME NEW n \in Nat, NEW S \in SUBSET (1 .. n)
  PROVE  Earliest(S) \in {0} \cup S /\ (S # {} => Earliest(S) \in S)
<1>1. CASE S = {}
  BY <1>1 DEF Earliest
<1>2. CASE S # {}
  <2> DEFINE V == 1 .. n
             C == {1 .. x : x \in S}
  <2>1. C \in SUBSET SUBSET V
    OBVIOUS
  <2>2. C # {}
    <3>1. PICK x \in S : TRUE
      BY <1>2
    <3>2. 1 .. x \in C
      OBVIOUS
    <3>3. QED
      BY <3>2, Zenon
  <2>3. IsFiniteSet(V)
    BY FS_Interval
  <2>4. PICK s \in C : \A t \in C : t \subseteq s => t = s
    <3> HIDE DEF C, V
    <3>1. QED
      BY <2>1, <2>2, <2>3, Smallest
  <2>5. PICK x \in S : s = 1 .. x
    BY <2>4
  <2>6. ASSUME NEW y \in S, y < x
        PROVE  FALSE
    <3>1. 1 .. y \in C
      OBVIOUS
    <3>2. x \in Nat /\ y \in Nat /\ x \in 1 .. x /\ x \notin 1 .. y /\ (1 .. y) \subseteq (1 .. x)
      BY <2>6
    <3>3. QED
      BY <2>4, <2>5, <3>1, <3>2, Zenon
  <2>7. \A j \in S : x <= j
    BY <2>6
  <2>8. Earliest(S) \in S
    <3>1. \E i \in S : \A j \in S : i <= j
      BY <2>7
    <3>2. QED
      BY <1>2, <3>1, Zenon DEF Earliest
  <2>9. QED
    BY <2>8
<1>3. QED
  BY <1>1, <1>2

(***************************************************************************)
(* The document: what a selector and a label find is an input that they    *)
(* match.                                                                  *)
(***************************************************************************)
Matches(s, x) ==
  \/ s.by = "id" /\ s.id # 0 /\ x.id = s.id
  \/ s.by = "name" /\ x.attr = s.text
  \/ s.by = "probe" /\ Contains(x.attr, s.text)

\* A selector finds an input of the page that it matches, or none.
LEMMA Selected ==
  ASSUME pageNow \in Page, NEW s
  PROVE  /\ QuerySelector(s) \in {0} \cup Here
         /\ QuerySelector(s) # 0 => Matches(s, pageNow.inputs[QuerySelector(s)])
<1> DEFINE S == {i \in Here : Matches(s, pageNow.inputs[i])}
<1>1. Len(pageNow.inputs) \in Nat /\ S \in SUBSET (1 .. Len(pageNow.inputs))
  BY DEF Page, Here
<1>2. QuerySelector(s) = Earliest(S)
  BY Zenon DEF QuerySelector, Matches
<1>3. Earliest(S) \in {0} \cup S
  <2> HIDE DEF S
  <2>1. QED
    BY <1>1, EarliestOf
<1>4. QED
  BY <1>2, <1>3

\* A label finds an input whose label contains it, or none.
LEMMA FoundByLabel ==
  ASSUME pageNow \in Page, NEW text
  PROVE  /\ FindInputByLabel(text) \in {0} \cup Here
         /\ FindOpenInputByLabel(text) \in {0} \cup Here
         /\ FindInputByLabel(text) # 0 =>
              Contains(pageNow.inputs[FindInputByLabel(text)].label, text)
<1> DEFINE S == {i \in Here : Contains(pageNow.inputs[i].label, text)}
           T == {i \in Here : pageNow.inputs[i].open /\ Contains(pageNow.inputs[i].label, text)}
<1>1. Len(pageNow.inputs) \in Nat /\ S \in SUBSET (1 .. Len(pageNow.inputs))
      /\ T \in SUBSET (1 .. Len(pageNow.inputs))
  BY DEF Page, Here
<1>2. FindInputByLabel(text) = Earliest(S) /\ FindOpenInputByLabel(text) = Earliest(T)
  BY Zenon DEF FindInputByLabel, FindOpenInputByLabel
<1>3. Earliest(S) \in {0} \cup S /\ Earliest(T) \in {0} \cup T
  <2> HIDE DEF S, T
  <2>1. QED
    BY <1>1, EarliestOf
<1>4. QED
  BY <1>2, <1>3

(***************************************************************************)
(* Lists of fields, and what is typed of them.                             *)
(***************************************************************************)
LEMMA RestrictedList ==
  ASSUME NEW fields, IsList(fields), NEW S \in SUBSET DOMAIN fields
  PROVE  /\ IsList(Restrict(fields, S)) /\ DOMAIN Restrict(fields, S) = S
         /\ \A k \in S : Restrict(fields, S)[k] = fields[k]
<1>1. IsFiniteSet(S)
  BY FS_Subset DEF IsList
<1>2. Restrict(fields, S) = [k \in S |-> fields[k]]
  BY DEF Restrict
<1>3. QED
  BY <1>1, <1>2 DEF IsList

\* An input keeps its value, or has that of the last write to it.
LEMMA TypedAt ==
  ASSUME NEW writes, DOMAIN writes \in SUBSET Nat, IsFiniteSet(DOMAIN writes),
         NEW i \in DOMAIN inputs
  PROVE  /\ DOMAIN Typed(writes) = DOMAIN inputs
         /\ \/ /\ \A k \in DOMAIN writes : writes[k].at # i
               /\ Typed(writes)[i] = inputs[i]
            \/ \E k \in DOMAIN writes :
                 /\ writes[k].at = i /\ Typed(writes)[i] = writes[k].value
                 /\ \A j \in DOMAIN writes : writes[j].at = i => j <= k
<1> DEFINE mine == {k \in DOMAIN writes : writes[k].at = i}
<1>1. Typed(writes)[i] = IF mine = {} THEN inputs[i] ELSE writes[Latest(mine)].value
  BY DEF Typed
<1>2. DOMAIN Typed(writes) = DOMAIN inputs
  BY DEF Typed
<1>3. CASE mine = {}
  BY <1>1, <1>2, <1>3
<1>4. CASE mine # {}
  <2>1. IsFiniteSet(mine) /\ mine \in SUBSET Nat
    BY FS_Subset
  <2>2. Latest(mine) \in mine /\ \A j \in mine : j <= Latest(mine)
    <3> HIDE DEF mine
    <3>1. QED
      BY <1>4, <2>1, LatestOf
  <2>3. Typed(writes)[i] = writes[Latest(mine)].value
    BY <1>1, <1>4
  <2>4. QED
    BY <1>2, <2>2, <2>3
<1>5. QED
  BY <1>3, <1>4

(***************************************************************************)
(* The fields the adapters detect.                                         *)
(***************************************************************************)
LEMMA KeysAreTexts == Len(Keys) \in Nat /\ \A k \in 1 .. Len(Keys) : Keys[k] \in Text
<1>1. Keys \in Seq(Text)
  BY FormFillAssumption, Zenon
<1>2. QED
  BY <1>1

\* The probes are fields, each with an input on the page.
LEMMA ProbesAreFields ==
  ASSUME pageNow \in Page
  PROVE  /\ IsList(Probes) /\ DOMAIN Probes \subseteq 1 .. Len(Keys)
         /\ \A k \in DOMAIN Probes : /\ Probes[k] = Probed(Keys[k])
                                     /\ Keys[k] \in Text
                                     /\ QuerySelector(ByProbe(Keys[k])) # 0
<1> DEFINE D == {j \in 1 .. Len(Keys) : QuerySelector(ByProbe(Keys[j])) # 0}
<1>1. Probes = [k \in D |-> Probed(Keys[k])]
  BY Zenon DEF Probes
<1>2. IsFiniteSet(D) /\ D \in SUBSET Nat
  <2>1. IsFiniteSet(1 .. Len(Keys)) /\ D \in SUBSET (1 .. Len(Keys))
    BY KeysAreTexts, FS_Interval
  <2> HIDE DEF D
  <2>2. IsFiniteSet(D)
    BY <2>1, FS_Subset
  <2>3. QED
    BY <2>1, <2>2, KeysAreTexts
<1>3. \A k \in D : Probed(Keys[k]) \in Field
  BY KeysAreTexts DEF Probed, Field, Selector, ByProbe
<1>4. QED
  BY <1>1, <1>2, <1>3, KeysAreTexts DEF IsList

\* What the sweep adds has an id that no probe has found, or else a name.
LEMMA SweptAreFields ==
  ASSUME pageNow \in Page
  PROVE  /\ DOMAIN SweepCustomFields \subseteq Here
         /\ \A i \in DOMAIN SweepCustomFields :
              LET x == pageNow.inputs[i] IN
              /\ SweepCustomFields[i] \in Field
              /\ SweepCustomFields[i] = Custom(x)
              /\ x.id # 0 => \A k \in DOMAIN Probes :
                   pageNow.inputs[QuerySelector(Probes[k].selector)].id # x.id
<1> DEFINE found == {QuerySelector(Probes[k].selector) : k \in DOMAIN Probes}
           covered == {pageNow.inputs[i].id : i \in found} \ {0}
           IsSwept(i) ==
             /\ pageNow.inputs[i].id \notin covered
             /\ \A j \in 1 .. i - 1 : ~ IsTwin(pageNow.inputs[j], pageNow.inputs[i])
           D == {j \in Here : IsSwept(j)}
<1>1. SweepCustomFields = [i \in D |-> Custom(pageNow.inputs[i])]
  BY Zenon DEF SweepCustomFields
<1>2. \A i \in Here : pageNow.inputs[i]
         \in [label : Text, attr : Text \cup {NoText}, id : 0 .. 2, open : BOOLEAN]
  <2> DEFINE R == [label : Text, attr : Text \cup {NoText}, id : 0 .. 2, open : BOOLEAN]
  <2>1. pageNow.inputs \in Seq(R)
    BY DEF Page
  <2> HIDE DEF R
  <2>2. \A i \in Here : pageNow.inputs[i] \in R
    BY <2>1 DEF Here
  <2>3. QED
    BY <2>2 DEF R
<1>3. ASSUME NEW i \in D
      PROVE  Custom(pageNow.inputs[i]) \in Field
  <2>1. PICK x : x = pageNow.inputs[i]
    OBVIOUS
  <2>2. x \in [label : Text, attr : Text \cup {NoText}, id : 0 .. 2, open : BOOLEAN]
    BY <1>2, <2>1
  <2>3. Identity(x) \in Selector
    <3>1. CASE x.id = 0 /\ x.attr # NoText
      BY <2>2, <3>1 DEF Identity, Selector, ByName
    <3>2. CASE x.id # 0
      BY <2>2, <3>2 DEF Identity, Selector, ById
    <3>3. CASE x.id = 0 /\ x.attr = NoText
      BY <3>3 DEF Identity, Selector
    <3>4. QED
      BY <3>1, <3>2, <3>3
  <2>4. QED
    BY <2>1, <2>2, <2>3 DEF Custom, Field
<1>4. ASSUME NEW i \in D, NEW k \in DOMAIN Probes, pageNow.inputs[i].id # 0
      PROVE  pageNow.inputs[QuerySelector(Probes[k].selector)].id # pageNow.inputs[i].id
  BY <1>4
<1>5. QED
  BY <1>1, <1>3, <1>4

\* What greenhouse.ts detects are the probes and what it has swept.
LEMMA DetectedAreFields ==
  ASSUME pageNow \in Page
  PROVE  /\ IsList(ProbedAndSwept)
         /\ \A k \in DOMAIN ProbedAndSwept :
              \/ k \in DOMAIN Probes /\ ProbedAndSwept[k] = Probes[k]
              \/ \E i \in DOMAIN SweepCustomFields : ProbedAndSwept[k] = SweepCustomFields[i]
<1> DEFINE D == DOMAIN Probes \cup {Len(Keys) + i : i \in DOMAIN SweepCustomFields}
<1>1. /\ DOMAIN ProbedAndSwept = D
      /\ \A k \in D : ProbedAndSwept[k] = (IF k \in DOMAIN Probes THEN Probes[k]
                                           ELSE SweepCustomFields[k - Len(Keys)])
      /\ ProbedAndSwept = [k \in D |-> ProbedAndSwept[k]]
  BY DEF ProbedAndSwept
<1>2. Len(pageNow.inputs) \in Nat /\ Len(Keys) \in Nat
      /\ DOMAIN SweepCustomFields \subseteq 1 .. Len(pageNow.inputs)
  BY KeysAreTexts, SweptAreFields DEF Page, Here
<1>3. D \in SUBSET (1 .. (Len(Keys) + Len(pageNow.inputs)))
  BY <1>2, ProbesAreFields
<1>4. IsFiniteSet(D) /\ D \in SUBSET Nat
  <2>1. Len(Keys) + Len(pageNow.inputs) \in Nat
    BY <1>2
  <2> HIDE DEF D
  <2>2. IsFiniteSet(1 .. (Len(Keys) + Len(pageNow.inputs)))
    BY <2>1, FS_Interval
  <2>3. QED
    <3>1. IsFiniteSet(D)
      BY <1>3, <2>2, FS_Subset
    <3>2. QED
      BY <1>3, <2>1, <3>1
<1>5. ASSUME NEW k \in D
      PROVE  /\ ProbedAndSwept[k] \in Field
             /\ \/ k \in DOMAIN Probes /\ ProbedAndSwept[k] = Probes[k]
                \/ \E i \in DOMAIN SweepCustomFields : ProbedAndSwept[k] = SweepCustomFields[i]
  <2>1. CASE k \in DOMAIN Probes
    BY <1>1, <2>1, ProbesAreFields DEF IsList
  <2>2. CASE k \notin DOMAIN Probes
    <3>1. PICK i \in DOMAIN SweepCustomFields : k = Len(Keys) + i
      BY <2>2
    <3>2. k - Len(Keys) = i
      BY <1>2, <3>1
    <3>3. ProbedAndSwept[k] = SweepCustomFields[i]
      BY <1>1, <2>2, <3>2
    <3>4. QED
      BY <3>3, SweptAreFields
  <2>3. QED
    BY <2>1, <2>2
<1>6. QED
  <2> HIDE DEF D
  <2>1. QED
    BY <1>1, <1>4, <1>5 DEF IsList

(***************************************************************************)
(* The first filling: what an adapter types comes from the profile, under  *)
(* the label of a field it knows; what it skips it does not know.          *)
(***************************************************************************)
FilledFrom(fields) ==
  /\ inputs' \in [1 .. Len(pageNow.inputs) -> Value]
  /\ \A i \in DOMAIN inputs :
       \/ inputs'[i] = inputs[i]
       \/ /\ inputs'[i].from = "profile"
          /\ \E k \in DOMAIN fields :
               Known(fields[k]) /\ QuerySelector(fields[k].selector) = i
  /\ IsList(skipped')
  /\ \A k \in DOMAIN skipped' :
       k \in DOMAIN fields /\ ~Known(fields[k]) /\ skipped'[k] = fields[k]

\* The places of some fields of a list are finitely many numbers.
LEMMA PartIsList ==
  ASSUME NEW fields, IsList(fields), NEW S \in SUBSET DOMAIN fields
  PROVE  IsFiniteSet(S) /\ S \in SUBSET Nat
<1>1. IsFiniteSet(S)
  BY FS_Subset DEF IsList
<1>2. QED
  BY <1>1 DEF IsList

\* After any writes every input has a value.
LEMMA TypedValues ==
  ASSUME pageNow \in Page, inputs \in [1 .. Len(pageNow.inputs) -> Value],
         NEW writes, DOMAIN writes \in SUBSET Nat, IsFiniteSet(DOMAIN writes),
         \A k \in DOMAIN writes : writes[k].value \in Value
  PROVE  Typed(writes) \in [1 .. Len(pageNow.inputs) -> Value]
<1>1. DOMAIN inputs = 1 .. Len(pageNow.inputs) /\ \A i \in DOMAIN inputs : inputs[i] \in Value
  OBVIOUS
<1>2. Typed(writes) = [i \in DOMAIN inputs |-> Typed(writes)[i]]
  BY DEF Typed
<1>3. \A i \in DOMAIN inputs : Typed(writes)[i] \in Value
  BY <1>1, TypedAt
<1>4. QED
  BY <1>1, <1>2, <1>3

\* What is written from the profile is a value.
LEMMA ProfileValues ==
  ASSUME NEW f \in Field, NEW i
  PROVE  /\ FromProfile(f, i).at = i /\ FromProfile(f, i).value \in Value
         /\ FromProfile(f, i).value.from = "profile"
BY DEF Field, Value, FromProfile

\* Greenhouse, Lever and Indeed fill what they have detected.
LEMMA FillDetectedFrom ==
  ASSUME FormFillTypeOK, NEW fields, IsList(fields), FillDetected(fields)
  PROVE  FilledFrom(fields) /\ UNCHANGED advancing
<1> DEFINE known == {k \in DOMAIN fields : Known(fields[k])}
           w == [k \in known |-> FromProfile(fields[k], QuerySelector(fields[k].selector))]
<1>1. /\ inputs' = Typed(w)
      /\ skipped' = Restrict(fields, DOMAIN fields \ known)
      /\ UNCHANGED advancing
  BY Zenon DEF FillDetected
<1>2. /\ \A k \in DOMAIN fields : fields[k] \in Field
      /\ known \in SUBSET DOMAIN fields /\ DOMAIN fields \ known \in SUBSET DOMAIN fields
  BY DEF IsList
<1>3. DOMAIN w = known /\ known \in SUBSET Nat /\ IsFiniteSet(known)
  <2>1. DOMAIN w = known
    OBVIOUS
  <2> HIDE DEF known
  <2>2. QED
    BY <1>2, <2>1, PartIsList
<1>4. \A k \in known : /\ w[k].at = QuerySelector(fields[k].selector)
                       /\ w[k].value \in Value /\ w[k].value.from = "profile"
  BY <1>2, ProfileValues
<1>5. /\ IsList(skipped') /\ DOMAIN skipped' = DOMAIN fields \ known
      /\ \A k \in DOMAIN fields \ known : skipped'[k] = fields[k]
  <2> HIDE DEF known
  <2>1. QED
    BY <1>1, <1>2, RestrictedList
<1>6. pageNow \in Page /\ inputs \in [1 .. Len(pageNow.inputs) -> Value]
  BY DEF FormFillTypeOK
<1>7. Typed(w) \in [1 .. Len(pageNow.inputs) -> Value]
  <2> HIDE DEF known, w
  <2>1. QED
    BY <1>3, <1>4, <1>6, TypedValues
<1>8. ASSUME NEW i \in DOMAIN inputs
      PROVE  \/ inputs'[i] = inputs[i]
             \/ /\ inputs'[i].from = "profile"
                /\ \E k \in DOMAIN fields :
                     Known(fields[k]) /\ QuerySelector(fields[k].selector) = i
  <2>1. \/ Typed(w)[i] = inputs[i]
        \/ \E k \in DOMAIN w : w[k].at = i /\ Typed(w)[i] = w[k].value
    <3> HIDE DEF known, w
    <3>1. QED
      BY <1>3, TypedAt
  <2>2. QED
    <3> HIDE DEF w
    <3>1. QED
      BY <1>1, <1>3, <1>4, <2>1
<1>9. \A k \in DOMAIN skipped' :
        k \in DOMAIN fields /\ ~Known(fields[k]) /\ skipped'[k] = fields[k]
  BY <1>5
<1>10. QED
  <2> HIDE DEF known, w
  <2>1. QED
    BY <1>1, <1>5, <1>7, <1>8, <1>9 DEF FilledFrom

\* The timer's values.
LEMMA Timers ==
  /\ NoButton \in Button /\ Off \in Timer /\ Shown \in Timer
  /\ \A button \in Button : Gone(button) \in Timer
BY DEF NoButton, Button, Off, Shown, Gone, Timer

\* LinkedIn and Ashby skip without a selector.
LEMMA FillSearchedFrom ==
  ASSUME FormFillTypeOK, NEW at, FillSearched(at)
  PROVE  /\ inputs' \in [1 .. Len(pageNow.inputs) -> Value]
         /\ \A i \in DOMAIN inputs : inputs'[i] = inputs[i] \/ inputs'[i].from = "profile"
         /\ IsList(skipped') /\ \A k \in DOMAIN skipped' : skipped'[k].selector = BySearch
         /\ advancing' \in Timer
<1> DEFINE all == [k \in 1 .. Len(Keys) |-> Searched(Keys[k])]
           known == {k \in DOMAIN all : Known(all[k])}
           here == {k \in known : at[k] # 0}
           w == [k \in here |-> FromProfile(all[k], at[k])]
<1>1. /\ inputs' = Typed(w)
      /\ skipped' = Restrict(all, DOMAIN all \ known)
      /\ advancing' = IF site = "linkedin" /\ here # {} THEN Shown ELSE Off
  BY Zenon DEF FillSearched
<1>2. IsList(all) /\ \A k \in DOMAIN all : all[k] \in Field /\ all[k].selector = BySearch
  <2>1. \A k \in 1 .. Len(Keys) : Searched(Keys[k]) \in Field /\ Searched(Keys[k]).selector = BySearch
    BY KeysAreTexts DEF Searched, Field, Selector
  <2>2. IsFiniteSet(1 .. Len(Keys)) /\ 1 .. Len(Keys) \in SUBSET Nat
    BY KeysAreTexts, FS_Interval
  <2>3. QED
    BY <2>1, <2>2 DEF IsList
<1>3. here \in SUBSET DOMAIN all /\ DOMAIN all \ known \in SUBSET DOMAIN all
  OBVIOUS
<1>4. DOMAIN w = here /\ here \in SUBSET Nat /\ IsFiniteSet(here)
  <2>1. DOMAIN w = here
    OBVIOUS
  <2> HIDE DEF here, all
  <2>2. QED
    BY <1>2, <1>3, <2>1, PartIsList
<1>5. \A k \in here : w[k].value \in Value /\ w[k].value.from = "profile"
  <2> HIDE DEF all
  <2>1. QED
    BY <1>2, ProfileValues
<1>6. /\ IsList(skipped') /\ DOMAIN skipped' = DOMAIN all \ known
      /\ \A k \in DOMAIN all \ known : skipped'[k] = all[k]
  <2> HIDE DEF known, all
  <2>1. QED
    BY <1>1, <1>2, <1>3, RestrictedList
<1>7. pageNow \in Page /\ inputs \in [1 .. Len(pageNow.inputs) -> Value]
  BY DEF FormFillTypeOK
<1>8. Typed(w) \in [1 .. Len(pageNow.inputs) -> Value]
  <2> HIDE DEF here, w
  <2>1. QED
    BY <1>4, <1>5, <1>7, TypedValues
<1>9. ASSUME NEW i \in DOMAIN inputs
      PROVE  inputs'[i] = inputs[i] \/ inputs'[i].from = "profile"
  <2> HIDE DEF here, known, all, w
  <2>1. \/ Typed(w)[i] = inputs[i]
        \/ \E k \in DOMAIN w : w[k].at = i /\ Typed(w)[i] = w[k].value
    BY <1>4, TypedAt
  <2>2. QED
    BY <1>1, <1>4, <1>5, <2>1
<1>10. QED
  <2> HIDE DEF known, all, w
  <2>1. \A k \in DOMAIN skipped' : skipped'[k].selector = BySearch
    BY <1>2, <1>6
  <2>2. advancing' \in Timer
    BY <1>1, Timers
  <2>3. QED
    BY <1>1, <1>6, <1>8, <1>9, <2>1, <2>2

(***************************************************************************)
(* The inductive invariant.  Before the AI's values are typed no input     *)
(* has one, and before the first filling none has a profile's; between the *)
(* two messages every skipped field, or the last one of its label, is      *)
(* either on its way to the content script or among the remaining; and an  *)
(* input that the profile has filled is no skipped field's, but for the    *)
(* exceptions of ProfileValuesStay.                                        *)
(***************************************************************************)
NoAnswerYet == fillStep # "over" => \A i \in DOMAIN inputs : inputs[i].from # "ai"
NothingYet  == fillStep = "new" => \A i \in DOMAIN inputs : inputs[i].from = "user"

HandedOn ==
  fillStep = "answered" =>
    /\ DOMAIN toFill \subseteq DOMAIN skipped
    /\ \A k \in DOMAIN skipped :
         \/ k \in DOMAIN toFill /\ toFill[k] = ByItsLabel(skipped[k].label)
         \/ k \in DOMAIN remaining /\ remaining[k] = ByItsLabel(skipped[k].label)
    /\ \A k \in DOMAIN toFill : toFill[k] = ByItsLabel(skipped[k].label)

MayBeAsked(i) ==
  \/ pageNow.inputs[i].id = 0
  \/ \E j \in DOMAIN inputs \ {i} : pageNow.inputs[j].attr = pageNow.inputs[i].attr
  \/ \E k \in DOMAIN skipped : QuerySelector(skipped[k].selector) = 0
  \/ \E key \in {Keys[k] : k \in 1 .. Len(Keys)} \ profile :
       QuerySelector(ByProbe(key)) = i

FilledOrSkipped ==
  \A i \in DOMAIN inputs :
    inputs[i].from = "profile" =>
      \/ MayBeAsked(i)
      \/ \A k \in DOMAIN skipped : QuerySelector(skipped[k].selector) # i

FillInv ==
  /\ FormFillTypeOK /\ NoAnswerYet /\ NothingYet /\ HandedOn
  /\ FilledOrSkipped /\ AnswersGoHome /\ SubmissionIsUserInitiated

\* What stays when neither the page, its inputs nor the skipped fields change.
LEMMA SamePage ==
  ASSUME FormFillTypeOK, UNCHANGED <<pageNow, inputs, skipped, profile>>
  PROVE  /\ \A s : QuerySelector(s)' = QuerySelector(s)
         /\ FilledOrSkipped => FilledOrSkipped'
         /\ AnswersGoHome => AnswersGoHome'
<1>1. \A s : QuerySelector(s)' = QuerySelector(s)
  BY DEF QuerySelector, Here
<1>2. FilledOrSkipped => FilledOrSkipped'
  BY <1>1 DEF FilledOrSkipped, MayBeAsked, QuerySelector, Here
<1>3. AnswersGoHome => AnswersGoHome'
  BY <1>1 DEF AnswersGoHome, Contains
<1>4. QED
  BY <1>1, <1>2, <1>3

\* The empty list is one of fields.
LEMMA EmptyList == IsList(<<>>)
<1>1. DOMAIN <<>> = {}
  OBVIOUS
<1>2. IsFiniteSet({})
  BY FS_EmptySet
<1>3. <<>> = [k \in {} |-> <<>>[k]]
  OBVIOUS
<1>4. QED
  BY <1>1, <1>2, <1>3 DEF IsList

\* In an untouched page every input is blank.
LEMMA UntouchedIsBlank ==
  ASSUME NEW p \in Page
  PROVE  /\ Untouched(p) \in [1 .. Len(p.inputs) -> Value]
         /\ \A i \in DOMAIN Untouched(p) : Untouched(p)[i] = Blank
BY DEF Untouched, Blank, Value

\* The invariant holds at the start.
LEMMA FillInvInit == FormFillInit => FillInv
<1> SUFFICES ASSUME FormFillInit PROVE FillInv
  OBVIOUS
<1> USE DEF FormFillInit
<1>1. profile \subseteq Text
  BY KeysAreTexts
<1>2. pageNow \in Page /\ moves \in 0 .. MaxMoves
  <2>1. Pages \subseteq Page /\ MaxMoves \in Nat
    BY FormFillAssumption, Zenon
  <2>2. QED
    BY <2>1
<1>3. FormFillTypeOK
  BY <1>1, <1>2, EmptyList, UntouchedIsBlank, Timers DEF FormFillTypeOK
<1>4. \A i \in DOMAIN inputs : inputs[i].from = "user"
  BY <1>2, UntouchedIsBlank DEF Blank
<1>5. QED
  BY <1>3, <1>4 DEF FillInv, NoAnswerYet, NothingYet, HandedOn, FilledOrSkipped,
                    AnswersGoHome, SubmissionIsUserInitiated

(***************************************************************************)
(* The first filling: no skipped field finds an input that it has filled,  *)
(* but for the exceptions.                                                 *)
(***************************************************************************)
LEMMA SkippedProbe ==
  ASSUME pageNow \in Page, NEW k \in DOMAIN Probes, ~Known(Probes[k]), NEW i,
         QuerySelector(Probes[k].selector) = i
  PROVE  \E key \in {Keys[n] : n \in 1 .. Len(Keys)} \ profile :
           QuerySelector(ByProbe(key)) = i
<1>1. Probes[k] = Probed(Keys[k]) /\ k \in 1 .. Len(Keys)
  BY ProbesAreFields
<1>2. Keys[k] \notin profile /\ QuerySelector(ByProbe(Keys[k])) = i
  BY <1>1 DEF Known, Probed
<1>3. QED
  BY <1>1, <1>2

\* A swept field finds an input that a probe has found only through its name.
LEMMA SkippedSwept ==
  ASSUME pageNow \in Page, inputs \in [1 .. Len(pageNow.inputs) -> Value],
         NEW i \in DOMAIN inputs, NEW j \in DOMAIN SweepCustomFields,
         QuerySelector(SweepCustomFields[j].selector) = i,
         NEW k \in DOMAIN Probes, QuerySelector(Probes[k].selector) = i,
         pageNow.inputs[i].id # 0
  PROVE  \E n \in DOMAIN inputs \ {i} : pageNow.inputs[n].attr = pageNow.inputs[i].attr
<1> DEFINE x == pageNow.inputs[j]
           y == pageNow.inputs[i]
<1>1. j \in DOMAIN inputs /\ SweepCustomFields[j] = Custom(x)
  BY SweptAreFields DEF Here
<1>2. SweepCustomFields[j].selector = Identity(x)
  BY <1>1 DEF Custom
<1>3. Matches(Identity(x), y)
  <2>1. i # 0
    BY DEF Page
  <2>2. QED
    BY <1>2, <2>1, Selected
<1>4. x.id = 0
  <2>1. SUFFICES ASSUME x.id # 0 PROVE FALSE
    OBVIOUS
  <2>2. y.id = x.id
    BY <1>3, <2>1 DEF Matches, Identity, ById
  <2>3. y.id # x.id
    BY <2>1, SweptAreFields
  <2>4. QED
    BY <2>2, <2>3
<1>5. y.attr = x.attr
  <2>1. CASE x.attr # NoText
    BY <1>3, <1>4, <2>1 DEF Matches, Identity, ByName
  <2>2. CASE x.attr = NoText
    BY <1>3, <1>4, <2>2 DEF Matches, Identity, BySearch
  <2>3. QED
    BY <2>1, <2>2
<1>6. j # i
  BY <1>4
<1>7. QED
  BY <1>1, <1>5, <1>6

\* A field that is known is a probe.
LEMMA KnownIsProbed ==
  ASSUME pageNow \in Page, NEW k \in DOMAIN ProbedAndSwept, Known(ProbedAndSwept[k])
  PROVE  k \in DOMAIN Probes /\ ProbedAndSwept[k] = Probes[k]
<1>1. \A i \in DOMAIN SweepCustomFields : SweepCustomFields[i].custom
  BY SweptAreFields DEF Custom
<1>2. QED
  BY <1>1, DetectedAreFields DEF Known

\* FilledOrSkipped after a step, from what the step has skipped.
LEMMA FilledOrSkippedNext ==
  ASSUME UNCHANGED <<pageNow, profile>>, DOMAIN inputs' = DOMAIN inputs,
         NEW list, list = skipped',
         \A i \in DOMAIN inputs : inputs'[i].from = "profile" =>
           \/ pageNow.inputs[i].id = 0
           \/ \E j \in DOMAIN inputs \ {i} : pageNow.inputs[j].attr = pageNow.inputs[i].attr
           \/ \E k \in DOMAIN list : QuerySelector(list[k].selector) = 0
           \/ \E key \in {Keys[n] : n \in 1 .. Len(Keys)} \ profile :
                QuerySelector(ByProbe(key)) = i
           \/ \A k \in DOMAIN list : QuerySelector(list[k].selector) # i
  PROVE  FilledOrSkipped'
<1>1. \A s : QuerySelector(s)' = QuerySelector(s)
  BY DEF QuerySelector, Here
<1>2. QED
  BY <1>1 DEF FilledOrSkipped, MayBeAsked

\* The first filling keeps the invariant, on each of the five sites.
LEMMA FillFieldsKept == FillInv /\ FillFields => FillInv'
<1> SUFFICES ASSUME FillInv, FillFields PROVE FillInv'
  OBVIOUS
<1>1. /\ FormFillTypeOK /\ pageNow \in Page /\ NothingYet
      /\ inputs \in [1 .. Len(pageNow.inputs) -> Value]
      /\ SubmissionIsUserInitiated
  BY DEF FillInv, FormFillTypeOK
<1>2. /\ fillStep = "new"
      /\ FillGreenhouse \/ FillLever \/ FillIndeed \/ FillLinkedIn \/ FillAshby
      /\ fillStep' \in {"over", "filled"}
      /\ UNCHANGED <<site, profile, pageNow, toFill, remaining, moves, clicked>>
  BY Zenon DEF FillFields
<1>3. \A i \in DOMAIN inputs : inputs[i].from = "user"
  BY <1>1, <1>2 DEF NothingYet
<1>4. \A s : QuerySelector(s)' = QuerySelector(s)
  BY <1>2 DEF QuerySelector, Here
<1> DEFINE Fine ==
             /\ inputs' \in [1 .. Len(pageNow.inputs) -> Value]
             /\ \A i \in DOMAIN inputs : inputs'[i] = inputs[i] \/ inputs'[i].from = "profile"
             /\ IsList(skipped') /\ advancing' \in Timer
             /\ FilledOrSkipped'
<1>5. ASSUME FillGreenhouse PROVE Fine
  <2>1. FilledFrom(ProbedAndSwept) /\ advancing' \in Timer
    <3>1. FilledFrom(ProbedAndSwept) /\ UNCHANGED advancing
      BY <1>1, <1>5, FillDetectedFrom, DetectedAreFields DEF FillGreenhouse
    <3>2. QED
      BY <1>1, <3>1 DEF FormFillTypeOK
  <2>2. ASSUME NEW i \in DOMAIN inputs, inputs'[i].from = "profile",
               NEW k \in DOMAIN skipped', QuerySelector(skipped'[k].selector) = i,
               pageNow.inputs[i].id # 0
        PROVE  \/ \E n \in DOMAIN inputs \ {i} : pageNow.inputs[n].attr = pageNow.inputs[i].attr
               \/ \E key \in {Keys[n] : n \in 1 .. Len(Keys)} \ profile :
                    QuerySelector(ByProbe(key)) = i
    <3>1. PICK a \in DOMAIN ProbedAndSwept :
             Known(ProbedAndSwept[a]) /\ QuerySelector(ProbedAndSwept[a].selector) = i
      BY <1>3, <2>1, <2>2 DEF FilledFrom
    <3>2. a \in DOMAIN Probes /\ QuerySelector(Probes[a].selector) = i
      BY <1>1, <3>1, KnownIsProbed
    <3>3. /\ k \in DOMAIN ProbedAndSwept /\ ~Known(ProbedAndSwept[k])
          /\ skipped'[k] = ProbedAndSwept[k]
      BY <2>1 DEF FilledFrom
    <3>4. CASE k \in DOMAIN Probes /\ ProbedAndSwept[k] = Probes[k]
      BY <1>1, <2>2, <3>3, <3>4, SkippedProbe
    <3>5. CASE \E j \in DOMAIN SweepCustomFields : ProbedAndSwept[k] = SweepCustomFields[j]
      BY <1>1, <2>2, <3>2, <3>3, <3>5, SkippedSwept
    <3>6. QED
      BY <1>1, <3>3, <3>4, <3>5, DetectedAreFields
  <2>3. FilledOrSkipped'
    <3>1. DOMAIN inputs' = DOMAIN inputs
      BY <1>1, <2>1 DEF FilledFrom
    <3>2. PICK list : list = skipped'
      OBVIOUS
    <3>3. QED
      BY <1>2, <2>2, <3>1, <3>2, FilledOrSkippedNext
  <2>4. QED
    BY <2>1, <2>3 DEF FilledFrom
<1>6. ASSUME FillLever \/ FillIndeed PROVE Fine
  <2>1. FilledFrom(Probes) /\ advancing' \in Timer
    <3>1. FilledFrom(Probes) /\ UNCHANGED advancing
      BY <1>1, <1>6, FillDetectedFrom, ProbesAreFields DEF FillLever, FillIndeed
    <3>2. QED
      BY <1>1, <3>1 DEF FormFillTypeOK
  <2>2. ASSUME NEW i, NEW k \in DOMAIN skipped', QuerySelector(skipped'[k].selector) = i
        PROVE  \E key \in {Keys[n] : n \in 1 .. Len(Keys)} \ profile :
                 QuerySelector(ByProbe(key)) = i
    <3>1. k \in DOMAIN Probes /\ ~Known(Probes[k]) /\ skipped'[k] = Probes[k]
      BY <2>1 DEF FilledFrom
    <3>2. QED
      BY <1>1, <2>2, <3>1, SkippedProbe
  <2>3. FilledOrSkipped'
    <3>1. DOMAIN inputs' = DOMAIN inputs
      BY <1>1, <2>1 DEF FilledFrom
    <3>2. PICK list : list = skipped'
      OBVIOUS
    <3>3. QED
      BY <1>2, <2>2, <3>1, <3>2, FilledOrSkippedNext
  <2>4. QED
    BY <2>1, <2>3 DEF FilledFrom
<1>7. ASSUME FillLinkedIn \/ FillAshby PROVE Fine
  <2>1. PICK at : FillSearched(at)
    BY <1>7 DEF FillLinkedIn, FillAshby
  <2>2. /\ inputs' \in [1 .. Len(pageNow.inputs) -> Value]
        /\ \A i \in DOMAIN inputs : inputs'[i] = inputs[i] \/ inputs'[i].from = "profile"
        /\ IsList(skipped') /\ \A k \in DOMAIN skipped' : skipped'[k].selector = BySearch
        /\ advancing' \in Timer
    BY <1>1, <2>1, FillSearchedFrom
  <2>3. QuerySelector(BySearch) = 0
    <3>1. ~ Matches(BySearch, pageNow.inputs[QuerySelector(BySearch)])
      BY DEF Matches, BySearch
    <3>2. QED
      BY <1>1, <3>1, Selected
  <2>4. FilledOrSkipped'
    <3>1. DOMAIN inputs' = DOMAIN inputs
      BY <1>1, <2>2
    <3>2. PICK list : list = skipped'
      OBVIOUS
    <3>3. QED
      BY <1>2, <2>2, <2>3, <3>1, <3>2, FilledOrSkippedNext
  <2>5. QED
    BY <2>2, <2>4
<1>8. Fine
  BY <1>2, <1>5, <1>6, <1>7
<1>9. \A i \in DOMAIN inputs' : inputs'[i].from # "ai"
  <2>1. DOMAIN inputs' = DOMAIN inputs
    BY <1>1, <1>8
  <2>2. QED
    BY <1>3, <1>8, <2>1
<1>10. FormFillTypeOK'
  BY <1>1, <1>2, <1>8 DEF FormFillTypeOK, IsList
<1>11. QED
  BY <1>1, <1>2, <1>8, <1>9, <1>10 DEF FillInv, NoAnswerYet, NothingYet, HandedOn,
                                   AnswersGoHome, SubmissionIsUserInitiated

(***************************************************************************)
(* The page changes: nothing is in the inputs of the new one.              *)
(***************************************************************************)
LEMMA LaterPagesArePages == LaterPages \subseteq Page /\ MaxMoves \in Nat
<1>1. Pages \subseteq Page /\ LaterPages \subseteq Pages /\ MaxMoves \in Nat
  BY FormFillAssumption, Zenon
<1>2. QED
  BY <1>1

\* The state of the filling, apart from the page.
UnchangedFilling == UNCHANGED <<site, profile, skipped, toFill, remaining, fillStep>>

\* HandedOn is about the lists and the step of the filling only.
LEMMA HandedOnStays ==
  ASSUME UNCHANGED <<skipped, toFill, remaining, fillStep>>, HandedOn PROVE HandedOn'
BY DEF HandedOn, ByItsLabel

\* Another page keeps the invariant, whoever shows it:
LEMMA ShowKept ==
  ASSUME FillInv, NEW p \in LaterPages, Show(p), UnchangedFilling,
         clicked' \subseteq Button, SubmissionIsUserInitiated',
         advancing' \in Timer, moves' \in 0 .. MaxMoves
  PROVE  FillInv'
<1>1. /\ pageNow' = p /\ p \in Page
      /\ inputs' \in [1 .. Len(p.inputs) -> Value]
      /\ \A i \in DOMAIN inputs' : inputs'[i].from = "user"
  BY LaterPagesArePages, UntouchedIsBlank DEF Show, Blank
<1>2. FormFillTypeOK'
  BY <1>1 DEF FillInv, FormFillTypeOK, UnchangedFilling, IsList
<1>3. HandedOn'
  BY HandedOnStays DEF FillInv, UnchangedFilling
<1>4. QED
  BY <1>1, <1>2, <1>3 DEF FillInv, NoAnswerYet, NothingYet, FilledOrSkipped, AnswersGoHome

\* the user, or the site ...
LEMMA MoveOnKept ==
  ASSUME FillInv, NEW p \in LaterPages, NEW same \in BOOLEAN, MoveOn(p, same) PROVE FillInv'
<1>1. /\ moves < MaxMoves /\ moves' = moves + 1 /\ Show(p)
      /\ advancing' \in {advancing, Gone(pageNow.button)}
      /\ UNCHANGED <<site, profile, skipped, toFill, remaining, fillStep, clicked>>
  BY DEF MoveOn
<1>2. /\ moves \in 0 .. MaxMoves /\ advancing \in Timer /\ pageNow \in Page
      /\ clicked \subseteq Button /\ SubmissionIsUserInitiated
  BY DEF FillInv, FormFillTypeOK
<1>3. advancing' \in Timer
  <2>1. pageNow.button \in Button
    BY <1>2 DEF Page
  <2>2. QED
    BY <1>1, <1>2, <2>1, Timers
<1>4. clicked' \subseteq Button /\ SubmissionIsUserInitiated'
  BY <1>1, <1>2 DEF SubmissionIsUserInitiated
<1>5. QED
  BY <1>1, <1>2, <1>3, <1>4, ShowKept, LaterPagesArePages DEF UnchangedFilling

\* What leaves the page, its inputs and the skipped fields alone keeps it, too.
LEMMA SamePageKept ==
  ASSUME FillInv, UNCHANGED <<site, profile, pageNow, inputs, skipped>>,
         clicked' \subseteq Button, SubmissionIsUserInitiated',
         moves' \in 0 .. MaxMoves, advancing' \in Timer,
         IsList(toFill'), IsList(remaining'),
         fillStep' \in {fillStep, "answered", "over"}, HandedOn',
         fillStep = "over" => fillStep' = "over"
  PROVE  FillInv'
<1>1. FormFillTypeOK'
  BY DEF FillInv, FormFillTypeOK, IsList
<1>2. FilledOrSkipped' /\ AnswersGoHome'
  BY SamePage DEF FillInv
<1>3. NoAnswerYet' /\ NothingYet'
  BY DEF FillInv, NoAnswerYet, NothingYet
<1>4. QED
  BY <1>1, <1>2, <1>3 DEF FillInv

\* ... or the automatic click, which reads the button it clicks.
LEMMA AutoAdvanceKept ==
  ASSUME FillInv, NEW p \in LaterPages, AutoAdvance(p) PROVE FillInv'
<1>1. /\ advancing' = Off
      /\ Show(p) \/ UNCHANGED <<pageNow, inputs>>
      /\ \/ clicked' = clicked
         \/ clicked' = clicked \cup {Reached} /\ Reached.reads # "submit"
      /\ UNCHANGED <<site, profile, skipped, toFill, remaining, fillStep, moves>>
  BY DEF AutoAdvance, Click
<1>2. /\ pageNow \in Page /\ advancing \in Timer /\ clicked \subseteq Button
      /\ SubmissionIsUserInitiated
  BY DEF FillInv, FormFillTypeOK
<1>3. Reached \in Button
  BY <1>2 DEF Reached, Page, Timer
<1>4. clicked' \subseteq Button /\ SubmissionIsUserInitiated'
  BY <1>1, <1>2, <1>3 DEF SubmissionIsUserInitiated
<1>5. /\ moves' \in 0 .. MaxMoves /\ advancing' \in Timer
      /\ IsList(toFill') /\ IsList(remaining')
  BY <1>1, Timers DEF FillInv, FormFillTypeOK, IsList
<1>6. CASE Show(p)
  BY <1>1, <1>4, <1>5, <1>6, ShowKept DEF UnchangedFilling
<1>7. CASE UNCHANGED <<pageNow, inputs>>
  <2>1. HandedOn'
    BY <1>1, HandedOnStays DEF FillInv
  <2>2. QED
    BY <1>1, <1>4, <1>5, <1>7, <2>1, SamePageKept
<1>8. QED
  BY <1>1, <1>6, <1>7

\* What the user types is neither the profile's nor the AI's.
LEMMA UserTypesKept ==
  ASSUME FillInv, NEW i \in Here, UserTypes(i) PROVE FillInv'
<1>1. /\ inputs' = [inputs EXCEPT ![i] = ByHand(pageNow.inputs[i])]
      /\ UNCHANGED <<site, profile, pageNow, skipped, advancing, toFill, remaining, fillStep,
                     moves, clicked>>
  BY DEF UserTypes
<1>2. /\ pageNow \in Page /\ inputs \in [1 .. Len(pageNow.inputs) -> Value]
      /\ i \in 1 .. Len(pageNow.inputs)
  BY DEF FillInv, FormFillTypeOK, Here
<1>3. ByHand(pageNow.inputs[i]) \in Value /\ ByHand(pageNow.inputs[i]).from = "user"
  <2> DEFINE Input == [label : Text, attr : Text \cup {NoText}, id : 0 .. 2, open : BOOLEAN]
  <2>1. pageNow.inputs \in Seq(Input)
    BY <1>2 DEF Page
  <2>2. pageNow.inputs[i] \in Input
    <3> HIDE DEF Input
    <3>1. QED
      BY <1>2, <2>1
  <2>3. QED
    BY <2>2 DEF ByHand, Value
<1>4. /\ inputs' \in [1 .. Len(pageNow.inputs) -> Value] /\ DOMAIN inputs' = DOMAIN inputs
      /\ \A j \in DOMAIN inputs : inputs'[j] = inputs[j] \/ inputs'[j].from = "user"
  BY <1>1, <1>2, <1>3
<1>5. \A s : QuerySelector(s)' = QuerySelector(s)
  BY <1>1 DEF QuerySelector, Here
<1>6. FormFillTypeOK'
  BY <1>1, <1>4 DEF FillInv, FormFillTypeOK, IsList
<1>7. HandedOn' /\ SubmissionIsUserInitiated'
  BY <1>1, HandedOnStays DEF FillInv, SubmissionIsUserInitiated
<1>8. FilledOrSkipped'
  <2>1. ASSUME NEW j \in DOMAIN inputs, inputs'[j].from = "profile"
        PROVE  inputs[j].from = "profile"
    BY <1>4, <2>1
  <2>2. QED
    BY <1>1, <1>4, <1>5, <2>1 DEF FilledOrSkipped, MayBeAsked, FillInv
<1>9. AnswersGoHome'
  <2>1. ASSUME NEW j \in DOMAIN inputs, inputs'[j].from = "ai"
        PROVE  inputs'[j] = inputs[j]
    BY <1>4, <2>1
  <2>2. QED
    BY <1>1, <1>4, <1>5, <2>1 DEF AnswersGoHome, Contains, FillInv
<1>10. NoAnswerYet' /\ NothingYet'
  <2>1. ASSUME NEW j \in DOMAIN inputs
        PROVE  inputs'[j].from \in {inputs[j].from, "user"}
    BY <1>4
  <2>2. QED
    BY <1>1, <1>4, <2>1 DEF FillInv, NoAnswerYet, NothingYet
<1>11. QED
  BY <1>6, <1>7, <1>8, <1>9, <1>10 DEF FillInv

(***************************************************************************)
(* The answers: each one, and each field that remains, is a skipped field, *)
(* the last one of its label.                                              *)
(***************************************************************************)
LEMMA LastOfItsLabel ==
  ASSUME IsList(skipped), NEW k \in DOMAIN skipped
  PROVE  \E n \in DOMAIN skipped : /\ ByItsLabel(skipped[k].label) = skipped[n]
                                   /\ skipped[n].label = skipped[k].label
                                   /\ n >= k
<1> DEFINE same == {n \in DOMAIN skipped : skipped[n].label = skipped[k].label}
<1>1. IsFiniteSet(same) /\ same \in SUBSET Nat /\ same # {}
  <2>1. same \in SUBSET DOMAIN skipped /\ k \in same
    OBVIOUS
  <2> HIDE DEF same
  <2>2. QED
    BY <2>1, PartIsList
<1>2. Latest(same) \in same /\ \A n \in same : n <= Latest(same)
  <2> HIDE DEF same
  <2>1. QED
    BY <1>1, LatestOf
<1>3. ByItsLabel(skipped[k].label) = skipped[Latest(same)]
  BY DEF ByItsLabel
<1>4. QED
  <2>1. PICK n \in DOMAIN skipped : n = Latest(same) /\ n \in same
    BY <1>2
  <2>2. n >= k
    <3>1. k \in same
      OBVIOUS
    <3>2. k \in Nat /\ n \in Nat /\ k <= n
      BY <1>1, <1>2, <2>1, <3>1
    <3>3. QED
      BY <3>2
  <2>3. QED
    BY <1>3, <2>1, <2>2

\* The answers of the AI keep the invariant,
LEMMA HandleRequestAiFillKept ==
  ASSUME FillInv, NEW answered \in SUBSET Labels, HandleRequestAiFill(answered)
  PROVE  FillInv'
<1> DEFINE each == [k \in DOMAIN skipped |-> ByItsLabel(skipped[k].label)]
           got == {k \in DOMAIN skipped : skipped[k].label \in answered}
<1>1. /\ fillStep = "filled" /\ fillStep' \in {"over", "answered"}
      /\ toFill' = Restrict(each, got)
      /\ remaining' = Restrict(each, DOMAIN skipped \ got)
      /\ UNCHANGED <<site, profile, pageNow, inputs, skipped, advancing, moves, clicked>>
  BY Zenon DEF HandleRequestAiFill, MatchAnswers
<1>2. /\ IsList(skipped) /\ moves \in 0 .. MaxMoves /\ advancing \in Timer
      /\ clicked \subseteq Button /\ SubmissionIsUserInitiated
  BY DEF FillInv, FormFillTypeOK
<1>3. IsList(each) /\ DOMAIN each = DOMAIN skipped
  <2>1. \A k \in DOMAIN skipped : skipped[k] \in Field
    BY <1>2 DEF IsList
  <2>2. \A k \in DOMAIN skipped : ByItsLabel(skipped[k].label) \in Field
    BY <1>2, <2>1, LastOfItsLabel
  <2>3. QED
    BY <1>2, <2>2 DEF IsList
<1>4. \A k \in DOMAIN skipped : each[k] = ByItsLabel(skipped[k].label)
  OBVIOUS
<1>5. got \in SUBSET DOMAIN skipped /\ DOMAIN skipped \ got \in SUBSET DOMAIN skipped
  OBVIOUS
<1>6. /\ IsList(toFill') /\ IsList(remaining')
      /\ DOMAIN toFill' = got /\ DOMAIN remaining' = DOMAIN skipped \ got
      /\ \A k \in got : toFill'[k] = each[k]
      /\ \A k \in DOMAIN skipped \ got : remaining'[k] = each[k]
  <2> HIDE DEF each, got
  <2>1. QED
    BY <1>1, <1>3, <1>5, RestrictedList
<1>7. HandedOn'
  <2>1. \A k \in DOMAIN skipped : ByItsLabel(skipped[k].label)' = ByItsLabel(skipped[k].label)
    BY <1>1 DEF ByItsLabel
  <2>2. /\ DOMAIN toFill' \subseteq DOMAIN skipped
        /\ \A k \in DOMAIN toFill' : toFill'[k] = ByItsLabel(skipped[k].label)
        /\ \A k \in DOMAIN skipped \ DOMAIN toFill' :
             k \in DOMAIN remaining' /\ remaining'[k] = ByItsLabel(skipped[k].label)
    <3> HIDE DEF each, got
    <3>1. QED
      BY <1>4, <1>5, <1>6
  <2>3. skipped' = skipped
    BY <1>1
  <2>4. QED
    BY <2>1, <2>2, <2>3 DEF HandedOn
<1>8. clicked' \subseteq Button /\ SubmissionIsUserInitiated'
  BY <1>1, <1>2 DEF SubmissionIsUserInitiated
<1>9. QED
  BY <1>1, <1>2, <1>6, <1>7, <1>8, SamePageKept

\* and so does its failure.
LEMMA AiFillFailsKept == ASSUME FillInv, AiFillFails PROVE FillInv'
<1>1. /\ remaining' = skipped /\ toFill' = <<>> /\ fillStep' = "over"
      /\ UNCHANGED <<site, profile, pageNow, inputs, skipped, advancing, moves, clicked>>
  BY DEF AiFillFails
<1>2. IsList(toFill') /\ IsList(remaining') /\ moves' \in 0 .. MaxMoves /\ advancing' \in Timer
  BY <1>1, EmptyList DEF FillInv, FormFillTypeOK, IsList
<1>3. HandedOn'
  BY <1>1 DEF HandedOn
<1>4. clicked' \subseteq Button /\ SubmissionIsUserInitiated'
  BY <1>1 DEF FillInv, FormFillTypeOK, SubmissionIsUserInitiated
<1>5. QED
  BY <1>1, <1>2, <1>3, <1>4, SamePageKept

(***************************************************************************)
(* What is typed of the answers: each input keeps its value, or gets that  *)
(* of the last answer whose target it is.                                  *)
(***************************************************************************)
LEMMA TargetIsHome ==
  ASSUME pageNow \in Page, NEW f, Target(f) # 0
  PROVE  /\ Target(f) \in Here
         /\ \/ QuerySelector(f.selector) = Target(f)
            \/ /\ QuerySelector(f.selector) = 0
               /\ Contains(pageNow.inputs[Target(f)].label, f.label)
<1>1. QuerySelector(f.selector) \in {0} \cup Here
  BY Selected
<1>2. /\ FindInputByLabel(f.label) \in {0} \cup Here
      /\ FindInputByLabel(f.label) # 0 =>
           Contains(pageNow.inputs[FindInputByLabel(f.label)].label, f.label)
  BY FoundByLabel
<1>3. QED
  BY <1>1, <1>2 DEF Target

\* What EXECUTE_AI_FILL has typed into an input is the last answer for it.
LEMMA AnswersTyped ==
  ASSUME FillInv, ExecuteAiFill
  PROVE  /\ inputs' \in [1 .. Len(pageNow.inputs) -> Value]
         /\ \A i \in DOMAIN inputs :
              \/ inputs'[i] = inputs[i] /\ \A k \in DOMAIN toFill : Target(toFill[k]) # i
              \/ \E k \in DOMAIN toFill :
                   /\ Target(toFill[k]) = i
                   /\ inputs'[i] = [from |-> "ai", of |-> toFill[k].label]
                   /\ \A j \in DOMAIN toFill : Target(toFill[j]) = i => j <= k
<1> DEFINE w == [k \in DOMAIN toFill |->
                   [at |-> Target(toFill[k]), value |-> [from |-> "ai", of |-> toFill[k].label]]]
<1>1. inputs' = Typed(w)
  BY Zenon DEF ExecuteAiFill
<1>2. /\ pageNow \in Page /\ inputs \in [1 .. Len(pageNow.inputs) -> Value]
      /\ \A k \in DOMAIN toFill : toFill[k] \in Field
      /\ IsFiniteSet(DOMAIN toFill) /\ DOMAIN toFill \in SUBSET Nat
  BY DEF FillInv, FormFillTypeOK, IsList
<1>3. /\ DOMAIN w = DOMAIN toFill
      /\ \A k \in DOMAIN toFill : /\ w[k].at = Target(toFill[k])
                                  /\ w[k].value = [from |-> "ai", of |-> toFill[k].label]
                                  /\ w[k].value \in Value
  BY <1>2 DEF Field, Value
<1>4. Typed(w) \in [1 .. Len(pageNow.inputs) -> Value]
  <2> HIDE DEF w
  <2>1. QED
    BY <1>2, <1>3, TypedValues
<1>5. ASSUME NEW i \in DOMAIN inputs
      PROVE  \/ Typed(w)[i] = inputs[i] /\ \A k \in DOMAIN toFill : Target(toFill[k]) # i
             \/ \E k \in DOMAIN toFill :
                  /\ Target(toFill[k]) = i
                  /\ Typed(w)[i] = [from |-> "ai", of |-> toFill[k].label]
                  /\ \A j \in DOMAIN toFill : Target(toFill[j]) = i => j <= k
  <2> HIDE DEF w
  <2>1. \/ /\ \A k \in DOMAIN w : w[k].at # i
           /\ Typed(w)[i] = inputs[i]
        \/ \E k \in DOMAIN w :
             /\ w[k].at = i /\ Typed(w)[i] = w[k].value
             /\ \A j \in DOMAIN w : w[j].at = i => j <= k
    BY <1>2, <1>3, TypedAt
  <2>2. QED
    BY <1>3, <2>1
<1>6. QED
  <2> HIDE DEF w
  <2>1. QED
    BY <1>1, <1>4, <1>5

\* An answer is the last skipped field of its label.
LEMMA AnswerIsSkipped ==
  ASSUME FillInv, fillStep = "answered", NEW k \in DOMAIN toFill
  PROVE  \E n \in DOMAIN skipped : toFill[k] = skipped[n] /\ n >= k
<1>1. IsList(skipped) /\ k \in DOMAIN skipped /\ toFill[k] = ByItsLabel(skipped[k].label)
  BY DEF FillInv, FormFillTypeOK, HandedOn
<1>2. QED
  BY <1>1, LastOfItsLabel

\* Typing the answers keeps the invariant.
LEMMA ExecuteAiFillKept == ASSUME FillInv, ExecuteAiFill PROVE FillInv'
<1>1. /\ fillStep = "answered" /\ fillStep' = "over"
      /\ UNCHANGED <<site, profile, pageNow, skipped, advancing, toFill, remaining, moves, clicked>>
  BY Zenon DEF ExecuteAiFill
<1>2. pageNow \in Page /\ inputs \in [1 .. Len(pageNow.inputs) -> Value]
  BY DEF FillInv, FormFillTypeOK
<1>3. inputs' \in [1 .. Len(pageNow.inputs) -> Value] /\ DOMAIN inputs' = DOMAIN inputs
  BY <1>2, AnswersTyped
<1>4. \A s : QuerySelector(s)' = QuerySelector(s)
  BY <1>1 DEF QuerySelector, Here
<1>5. FilledOrSkipped'
  <2>1. ASSUME NEW i \in DOMAIN inputs, inputs'[i].from = "profile"
        PROVE  inputs'[i] = inputs[i]
    <3>1. \/ inputs'[i] = inputs[i]
          \/ \E k \in DOMAIN toFill : inputs'[i] = [from |-> "ai", of |-> toFill[k].label]
      BY AnswersTyped
    <3>2. ASSUME NEW k \in DOMAIN toFill,
                 inputs'[i] = [from |-> "ai", of |-> toFill[k].label]
          PROVE  FALSE
      <4>1. inputs'[i].from = "ai"
        BY <3>2
      <4>2. QED
        BY <2>1, <4>1
    <3>3. QED
      BY <3>1, <3>2
  <2>2. QED
    BY <1>1, <1>3, <1>4, <2>1 DEF FilledOrSkipped, MayBeAsked, FillInv
<1>6. AnswersGoHome'
  <2>1. ASSUME NEW i \in DOMAIN inputs, inputs'[i].from = "ai"
        PROVE  \/ Contains(pageNow.inputs[i].label, inputs'[i].of)
               \/ \E n \in DOMAIN skipped :
                    skipped[n].label = inputs'[i].of /\ QuerySelector(skipped[n].selector) = i
    <3>1. inputs[i].from # "ai"
      BY <1>1 DEF FillInv, NoAnswerYet
    <3>2. PICK k \in DOMAIN toFill :
            Target(toFill[k]) = i /\ inputs'[i] = [from |-> "ai", of |-> toFill[k].label]
      BY <2>1, <3>1, AnswersTyped
    <3>3. PICK n \in DOMAIN skipped : toFill[k] = skipped[n]
      BY <1>1, AnswerIsSkipped
    <3>4. i # 0
      BY <1>2 DEF Page
    <3>5. \/ QuerySelector(skipped[n].selector) = i
          \/ Contains(pageNow.inputs[i].label, skipped[n].label)
      BY <1>2, <3>2, <3>3, <3>4, TargetIsHome
    <3>6. inputs'[i].of = skipped[n].label
      BY <3>2, <3>3
    <3>7. QED
      BY <3>5, <3>6
  <2>2. QED
    BY <1>1, <1>3, <1>4, <2>1 DEF AnswersGoHome, Contains
<1>7. FormFillTypeOK'
  BY <1>1, <1>3 DEF FillInv, FormFillTypeOK, IsList
<1>8. QED
  BY <1>1, <1>5, <1>6, <1>7 DEF FillInv, NoAnswerYet, NothingYet, HandedOn,
                                SubmissionIsUserInitiated

\* So does a step that changes nothing,
LEMMA FillStutterKept == ASSUME FillInv, UNCHANGED fillVars PROVE FillInv'
<1> USE DEF fillVars
<1>1. HandedOn'
  BY HandedOnStays DEF FillInv
<1>2. IsList(toFill') /\ IsList(remaining') /\ moves' \in 0 .. MaxMoves /\ advancing' \in Timer
  BY DEF FillInv, FormFillTypeOK, IsList
<1>3. clicked' \subseteq Button /\ SubmissionIsUserInitiated'
  BY DEF FillInv, FormFillTypeOK, SubmissionIsUserInitiated
<1>4. QED
  BY <1>1, <1>2, <1>3, SamePageKept

\* and so every step.
LEMMA FillInvStep == FillInv /\ [FormFillNext]_fillVars => FillInv'
<1> SUFFICES ASSUME FillInv, [FormFillNext]_fillVars PROVE FillInv'
  OBVIOUS
<1>1. CASE FillFields
  BY <1>1, FillFieldsKept
<1>2. CASE \E p \in LaterPages, same \in BOOLEAN : MoveOn(p, same) \/ AutoAdvance(p)
  BY <1>2, MoveOnKept, AutoAdvanceKept
<1>3. CASE \E answered \in SUBSET Labels : HandleRequestAiFill(answered)
  BY <1>3, HandleRequestAiFillKept
<1>4. CASE AiFillFails
  BY <1>4, AiFillFailsKept
<1>5. CASE ExecuteAiFill
  BY <1>5, ExecuteAiFillKept
<1>6. CASE UNCHANGED fillVars
  BY <1>6, FillStutterKept
<1>7. CASE \E i \in Here : UserTypes(i)
  BY <1>7, UserTypesKept
<1>8. QED
  BY <1>1, <1>2, <1>3, <1>4, <1>5, <1>6, <1>7, Zenon DEF FormFillNext

(***************************************************************************)
(* Whatever the site, its pages and the answers are, the filling's state   *)
(* is a state of the model.                                                *)
(***************************************************************************)
THEOREM FormFillTypeCorrect == FormFillSpec => []FormFillTypeOK
<1>1. FillInv => FormFillTypeOK
  BY DEF FillInv
<1>2. QED
  BY <1>1, FillInvInit, FillInvStep, PTL DEF FormFillSpec

(***************************************************************************)
(* message-router.ts:602-613, linkedin.ts:268-331: whatever the pages and  *)
(* their buttons are, however they change, whatever the user types and     *)
(* whichever fields are answered, what the AI types is in an input it was  *)
(* asked for, and no button whose texts say so is pressed to submit.       *)
(***************************************************************************)
THEOREM FillsStaySafe == FormFillSpec => []FillsAreSafe
<1>1. FillInv => FillsAreSafe
  BY DEF FillInv, FillsAreSafe
<1>2. QED
  BY <1>1, FillInvInit, FillInvStep, PTL DEF FormFillSpec

(***************************************************************************)
(* message-router.ts:600-660, step by step, for every form and every set   *)
(* of answers: a skipped field is typed, or listed as remaining, or there  *)
(* is the reason NobodyIsForgotten names.                                  *)
(***************************************************************************)
Accounted(k) ==
  LET f == skipped'[k] IN
    \/ \E n \in DOMAIN remaining' : remaining'[n] = f
    \/ \E i \in DOMAIN inputs : inputs'[i] = [from |-> "ai", of |-> f.label]
    \/ ByItsLabel(f.label) # f
    \/ Target(f) = 0
    \/ \E n \in DOMAIN skipped : n > k /\ Target(skipped[n]) = Target(f)

\* When the answers are typed, every skipped field is accounted for ...
LEMMA TypedOrRemaining ==
  ASSUME FillInv, ExecuteAiFill, NEW k \in DOMAIN skipped' PROVE Accounted(k)
<1>1. fillStep = "answered" /\ UNCHANGED <<skipped, remaining, pageNow, toFill>>
  BY Zenon DEF ExecuteAiFill
<1>2. PICK f : f = skipped[k] /\ f = skipped'[k] /\ k \in DOMAIN skipped
  BY <1>1
<1>3. /\ \/ k \in DOMAIN toFill /\ toFill[k] = ByItsLabel(f.label)
         \/ k \in DOMAIN remaining /\ remaining[k] = ByItsLabel(f.label)
      /\ IsList(skipped) /\ IsList(toFill) /\ pageNow \in Page
      /\ inputs \in [1 .. Len(pageNow.inputs) -> Value]
  BY <1>1, <1>2 DEF FillInv, FormFillTypeOK, HandedOn
<1>4. CASE k \in DOMAIN remaining /\ remaining[k] = f
  BY <1>1, <1>2, <1>4 DEF Accounted
<1>5. CASE ByItsLabel(f.label) # f
  BY <1>2, <1>5 DEF Accounted
<1>6. CASE Target(f) = 0
  BY <1>2, <1>6 DEF Accounted
<1>7. ASSUME k \in DOMAIN toFill, toFill[k] = f, Target(f) # 0 PROVE Accounted(k)
  <2>1. Target(f) \in DOMAIN inputs
    BY <1>3, <1>7, TargetIsHome DEF Here
  <2>2. PICK a \in DOMAIN toFill :
          /\ Target(toFill[a]) = Target(f)
          /\ inputs'[Target(f)] = [from |-> "ai", of |-> toFill[a].label]
          /\ \A j \in DOMAIN toFill : Target(toFill[j]) = Target(f) => j <= a
    BY <1>7, <2>1, AnswersTyped
  <2>3. k <= a
    BY <1>7, <2>2
  <2>4. PICK n \in DOMAIN skipped : toFill[a] = skipped[n] /\ n >= a
    BY <1>1, AnswerIsSkipped
  <2>5. CASE a = k
    BY <1>2, <1>7, <2>1, <2>2, <2>5 DEF Accounted
  <2>6. CASE a # k
    <3>1. k \in Nat /\ a \in Nat /\ n \in Nat
      BY <1>2, <1>3 DEF IsList
    <3>2. n > k /\ Target(skipped[n]) = Target(f)
      BY <2>2, <2>3, <2>4, <2>6, <3>1
    <3>3. QED
      BY <1>2, <3>2 DEF Accounted
  <2>7. QED
    BY <2>5, <2>6
<1>8. QED
  BY <1>3, <1>4, <1>5, <1>6, <1>7

\* ... and in every other way for the filling to end.
LEMMA NobodyIsForgottenStep ==
  ASSUME FillInv, [FormFillNext]_fillVars, fillStep # "over", fillStep' = "over",
         NEW k \in DOMAIN skipped'
  PROVE  Accounted(k)
<1>1. CASE FillFields
  BY <1>1 DEF FillFields
<1>2. ASSUME NEW p \in LaterPages, NEW same \in BOOLEAN, MoveOn(p, same) \/ AutoAdvance(p)
      PROVE  Accounted(k)
  BY <1>2 DEF MoveOn, AutoAdvance
<1>3. ASSUME NEW answered \in SUBSET Labels, HandleRequestAiFill(answered) PROVE Accounted(k)
  <2> DEFINE each == [n \in DOMAIN skipped |-> ByItsLabel(skipped[n].label)]
             got == {n \in DOMAIN skipped : skipped[n].label \in answered}
  <2>1. /\ remaining' = Restrict(each, DOMAIN skipped \ got)
        /\ fillStep' = IF answered = {} THEN "over" ELSE "answered"
        /\ skipped' = skipped
    BY <1>3, Zenon DEF HandleRequestAiFill, MatchAnswers
  <2>2. answered = {}
    BY <2>1
  <2>3. k \in DOMAIN skipped \ got
    BY <2>1, <2>2
  <2>4. k \in DOMAIN remaining' /\ remaining'[k] = ByItsLabel(skipped[k].label)
    BY <2>1, <2>3 DEF Restrict
  <2>5. QED
    BY <2>1, <2>4 DEF Accounted
<1>4. CASE AiFillFails
  BY <1>4 DEF AiFillFails, Accounted
<1>5. CASE ExecuteAiFill
  BY <1>5, TypedOrRemaining
<1>6. CASE UNCHANGED fillVars
  BY <1>6 DEF fillVars
<1>7. ASSUME NEW i \in Here, UserTypes(i) PROVE Accounted(k)
  BY <1>7 DEF UserTypes
<1>8. QED
  BY <1>1, <1>2, <1>3, <1>4, <1>5, <1>6, <1>7, Zenon DEF FormFillNext

\* What the AI types over a profile's value, on the same page.
LEMMA ProfileValuesStayStep ==
  ASSUME FillInv, [FormFillNext]_fillVars, NEW i \in DOMAIN inputs,
         inputs[i].from = "profile", pageNow' = pageNow, inputs'[i].from = "ai"
  PROVE  MayBeAsked(i)
<1>1. pageNow \in Page /\ inputs \in [1 .. Len(pageNow.inputs) -> Value] /\ NothingYet
  BY DEF FillInv, FormFillTypeOK
<1>2. CASE FillFields
  BY <1>1, <1>2 DEF FillFields, NothingYet
<1>3. ASSUME NEW p \in LaterPages, NEW same \in BOOLEAN, MoveOn(p, same) \/ AutoAdvance(p)
      PROVE  FALSE
  <2>1. inputs' = inputs \/ inputs' = Untouched(p)
    BY <1>3 DEF MoveOn, AutoAdvance, Click, Show
  <2>2. CASE inputs' = Untouched(p)
    <3>1. inputs' = Untouched(pageNow)
      <4>1. pageNow' = p \/ inputs' = inputs
        BY <1>3 DEF MoveOn, AutoAdvance, Click, Show
      <4>2. QED
        BY <2>2, <4>1
    <3>2. inputs'[i] = Blank
      BY <1>1, <3>1 DEF Untouched
    <3>3. QED
      BY <3>2 DEF Blank
  <2>3. QED
    BY <2>1, <2>2
<1>4. ASSUME NEW answered \in SUBSET Labels, HandleRequestAiFill(answered) PROVE FALSE
  BY <1>4 DEF HandleRequestAiFill
<1>5. CASE AiFillFails
  BY <1>5 DEF AiFillFails
<1>6. CASE ExecuteAiFill
  <2>1. fillStep = "answered"
    BY <1>6 DEF ExecuteAiFill
  <2>2. PICK k \in DOMAIN toFill : Target(toFill[k]) = i
    <3>1. \/ inputs'[i] = inputs[i]
          \/ \E k \in DOMAIN toFill : Target(toFill[k]) = i
      BY <1>6, AnswersTyped
    <3>2. QED
      BY <3>1
  <2>3. PICK n \in DOMAIN skipped : toFill[k] = skipped[n]
    BY <2>1, AnswerIsSkipped
  <2>4. i # 0
    BY <1>1 DEF Page
  <2>5. QuerySelector(skipped[n].selector) \in {0, i}
    BY <1>1, <2>2, <2>3, <2>4, TargetIsHome
  <2>6. QED
    BY <2>5 DEF FillInv, FilledOrSkipped, MayBeAsked
<1>7. CASE UNCHANGED fillVars
  BY <1>7 DEF fillVars
<1>8. ASSUME NEW j \in Here, UserTypes(j) PROVE FALSE
  <2>1. inputs' = [inputs EXCEPT ![j] = ByHand(pageNow.inputs[j])]
    BY <1>8 DEF UserTypes
  <2>2. inputs'[i] = inputs[i] \/ inputs'[i] = ByHand(pageNow.inputs[j])
    BY <2>1
  <2>3. QED
    BY <2>2 DEF ByHand
<1>9. QED
  BY <1>2, <1>3, <1>4, <1>5, <1>6, <1>7, <1>8, Zenon DEF FormFillNext

(***************************************************************************)
(* message-router.ts:600-660: for every form, no step loses a field        *)
(* between the two fillings, nor a value of the profile, but in the cases  *)
(* that NobodyIsForgotten and ProfileValuesStay name.                      *)
(***************************************************************************)
THEOREM FillsKeepEverything == FormFillSpec => FillsLoseNothing
<1>1. FillInv /\ [FormFillNext]_fillVars =>
        [fillStep # "over" /\ fillStep' = "over" =>
           \A k \in DOMAIN skipped' :
             LET f == skipped'[k] IN
               \/ \E n \in DOMAIN remaining' : remaining'[n] = f
               \/ \E i \in DOMAIN inputs : inputs'[i] = [from |-> "ai", of |-> f.label]
               \/ ByItsLabel(f.label) # f
               \/ Target(f) = 0
               \/ \E n \in DOMAIN skipped : n > k /\ Target(skipped[n]) = Target(f)]_fillVars
  BY NobodyIsForgottenStep DEF Accounted
<1>2. FillInv /\ [FormFillNext]_fillVars =>
        [\A i \in DOMAIN inputs :
           /\ inputs[i].from = "profile" /\ pageNow' = pageNow /\ inputs'[i].from = "ai"
           => \/ pageNow.inputs[i].id = 0
              \/ \E j \in DOMAIN inputs \ {i} : pageNow.inputs[j].attr = pageNow.inputs[i].attr
              \/ \E k \in DOMAIN skipped : QuerySelector(skipped[k].selector) = 0
              \/ \E key \in {Keys[k] : k \in 1 .. Len(Keys)} \ profile :
                   QuerySelector(ByProbe(key)) = i]_fillVars
  BY ProfileValuesStayStep DEF MayBeAsked
<1>3. QED
  BY <1>1, <1>2, FillInvInit, FillInvStep, PTL DEF FormFillSpec, FillsLoseNothing,
     NobodyIsForgotten, ProfileValuesStay

-------------------------------------------------------------------------------
\* MCExtension: the parts side by side.

(***************************************************************************)
(* A behaviour of the union is one of each part: the parts that stand by   *)
(* stutter.  So what is proved of a part holds of the union, too.          *)
(***************************************************************************)
Parts == {"token", "score", "profile", "autofill", "fill", "detection"}

LEMMA EveryPart ==
  MCSpec => /\ [](part \in Parts)
            /\ TokenSpec /\ ScorePanelSpec /\ ProfileSpec
            /\ AutofillSpec /\ FormFillSpec /\ DetectionSpec
<1>1. MCInit => /\ part \in Parts /\ TokenInit /\ ScorePanelInit /\ ProfileInit
                /\ AutofillInit /\ FormFillInit /\ DetectionInit
  BY Zenon DEF MCInit, Parts
<1>2. part \in Parts /\ [MCNext]_mcVars => (part \in Parts)'
  BY Zenon DEF MCNext, mcVars
<1>3. [MCNext]_mcVars => [TokenNext]_tokenVars
  BY Zenon DEF MCNext, mcVars
<1>4. [MCNext]_mcVars => [ScorePanelNext]_scorePanelVars
  BY Zenon DEF MCNext, mcVars
<1>5. [MCNext]_mcVars => [ProfileNext]_profileVars
  BY Zenon DEF MCNext, mcVars
<1>6. [MCNext]_mcVars => [AutofillNext]_autofillVars
  BY Zenon DEF MCNext, mcVars
<1>7. [MCNext]_mcVars => [FormFillNext]_fillVars
  BY Zenon DEF MCNext, mcVars
<1>8. [MCNext]_mcVars => [DetectionNext]_detectionVars
  BY Zenon DEF MCNext, mcVars
<1>9. QED
  BY <1>1, <1>2, <1>3, <1>4, <1>5, <1>6, <1>7, <1>8, PTL
     DEF MCSpec, TokenSpec, ScorePanelSpec, ProfileSpec, AutofillSpec, FormFillSpec, DetectionSpec

(***************************************************************************)
(* Every state of every part of the extension is one of its types, for all *)
(* values of the constants.                                                *)
(***************************************************************************)
THEOREM ExtensionTypeCorrect == MCSpec => []ExtensionTypesOK
<1>1. /\ part \in Parts /\ TokenTypeOK /\ ScorePanelTypeOK /\ ProfileTypeOK
      /\ AutofillTypeOK /\ FormFillTypeOK /\ DetectionTypeOK
      => ExtensionTypesOK
  BY DEF ExtensionTypesOK, Parts
<1>2. QED
  BY <1>1, EveryPart, SignOutIsFinal, PanelIsRight, ProfileTypeCorrect,
     AutofillTypeCorrect, FormFillTypeCorrect, DetectionTypeCorrect, PTL

===============================================================================
