------------------------------- MODULE SignInTab -------------------------------
(***************************************************************************)
(* A tab in which somebody signs in to the web application: the pages      *)
(* under /auth, the middleware in front of them, and the two pages where   *)
(* the browser extension is connected, /extension/done and the older       *)
(* /extension/auth ("bridge").  Sessions are those of better-auth, and the *)
(* account may change under the tab.                                       *)
(***************************************************************************)
EXTENDS Naturals, FiniteSets

CONSTANT MaxDrops   \* bound: calls that fail without an answer

ASSUME SignInTabAssumption == MaxDrops \in Nat

VARIABLES
  cookieIsSeen,  \* the middleware finds the session cookie (its name and host, see README)
  account,       \* none, unverified, plain or twoFactor
  cookie,        \* the browser has a session cookie, ...
  live,          \* ... and the server knows its session
  tab,           \* the page, and the callbackURL or return parameter it was given
  known,         \* useSession(): pending, none or some
  request,       \* the calls under way, by form
  loading,       \* of the form of the page
  settled,       \* the form has given way to its success
  oauthLoading,
  pageState,     \* of the bridge
  opener,        \* history: who opened the tab
  strayed,       \* history: the user has left the way to the callback
  drops          \* history: calls without an answer

signInTabVars ==
  <<cookieIsSeen, account, cookie, live, tab, known, request, loading, settled, oauthLoading,
    pageState, opener, strayed, drops>>

world == <<cookieIsSeen, account, cookie, live>>
fate  == <<opener, strayed>>

Callback == {"none", "done", "bridge", "malformed"}
AuthOnly == {"signIn", "signUp", "forgot"}
FormPage == [signIn |-> "signIn", signUp |-> "signUp", code |-> "mfa", resend |-> "verifyEmail",
             forgot |-> "forgot", reset |-> "reset"]
AuthCall == DOMAIN FormPage \cup {"oauth", "signOut"}
NoRequest  == [at |-> "none", to |-> "none", here |-> FALSE]
NoTab   == [at |-> "closed", cb |-> "none"]

SignInTabInit ==
  /\ cookieIsSeen \in BOOLEAN /\ account \in {"none", "unverified", "plain", "twoFactor"}
  /\ cookie = FALSE /\ live = FALSE /\ tab = NoTab /\ known = "pending"
  /\ request = [c \in AuthCall |-> NoRequest]
  /\ loading = FALSE /\ settled = FALSE /\ oauthLoading = FALSE /\ pageState = "checking"
  /\ opener = "user" /\ strayed = FALSE /\ drops = 0

\* Mutant: whoever has a session is sent to the dashboard.
ThroughToDashboard(page, cb) ==
  IF page \in AuthOnly /\ cookieIsSeen /\ cookie THEN [at |-> "dashboard", cb |-> "none"]
  ELSE [at |-> page, cb |-> cb]

\* The middleware, which lets every other page pass, for every path begins with '/'.
\* It takes the callback for a path, and there is none with a '?' in it.
Through(page, cb) ==
  IF page \in AuthOnly /\ cookieIsSeen /\ cookie
  THEN [at |-> CASE cb = "none" -> "dashboard" [] cb = "done" -> "done" [] OTHER -> "missing",
        cb |-> "none"]
  ELSE [at |-> page, cb |-> cb]

\* Where the sign-in page goes afterwards.
Homeward(cb) ==
  CASE cb = "none" -> [at |-> "dashboard", cb |-> "none"]
    [] cb = "done" -> [at |-> "done", cb |-> "none"]
    [] OTHER       -> [at |-> "bridge", cb |-> cb]

\* Another page in the same document: what is under way goes on.
Visit(t, calls) ==
  /\ tab' = t
  /\ request' = [c \in AuthCall |-> [calls[c] EXCEPT !.here = FALSE]]
  /\ loading' = FALSE /\ settled' = FALSE /\ oauthLoading' = FALSE /\ pageState' = "checking"

\* Another document.
LoadTab(t) ==
  /\ tab' = t /\ known' = "pending"
  /\ request' = [c \in AuthCall |-> NoRequest]
  /\ loading' = FALSE /\ settled' = FALSE /\ oauthLoading' = FALSE /\ pageState' = "checking"

Without(c) == [request EXCEPT ![c] = NoRequest]
Sent(c) == request[c].at = "sent"

-----------------------------------------------------------------------------
(* The tab and its user.                                                   *)

HandleSignIn ==
  /\ tab = NoTab
  /\ LoadTab(Through("signIn", "done"))
  /\ opener' = "extension" /\ strayed' = FALSE
  /\ UNCHANGED <<world, drops>>

OpenTab ==
  /\ tab = NoTab
  /\ \/ \E page \in {"signIn", "signUp", "dashboard", "reset"} : LoadTab(Through(page, "none"))
     \/ \E cb \in {"bridge", "malformed"} : LoadTab([at |-> "bridge", cb |-> cb])
  /\ opener' = "user" /\ strayed' = FALSE
  /\ UNCHANGED <<world, drops>>

\* Reloaded, or closed.
ReloadTab ==
  /\ tab # NoTab
  /\ \/ LoadTab(Through(tab.at, tab.cb))
     \/ LoadTab(NoTab)
  /\ UNCHANGED <<world, fate, drops>>

FollowLink(page) ==
  /\ <<tab.at, page>> \in {<<"signIn", "signUp">>, <<"signIn", "forgot">>, <<"signUp", "signIn">>,
                           <<"forgot", "signIn">>, <<"reset", "signIn">>, <<"reset", "forgot">>}
  /\ Visit(Through(page, "none"), request)
  /\ strayed' = TRUE
  /\ UNCHANGED <<world, known, opener, drops>>

\* "Start over", which is no Link.
StartOver ==
  /\ tab.at = "verifyEmail"
  /\ LoadTab(Through("signUp", "none"))
  /\ UNCHANGED <<world, fate, drops>>

-----------------------------------------------------------------------------
(* useSession() and the two pages that act on it.                          *)

\* The first answer, or a later one; without a session it may take the cookie away.
SessionAnswers ==
  /\ tab # NoTab
  /\ \/ /\ known' = (IF cookie /\ live THEN "some" ELSE "none")
        /\ cookie' \in {cookie, cookie /\ live}
        /\ UNCHANGED drops
     \/ /\ drops < MaxDrops /\ drops' = drops + 1
        /\ known' = "none" /\ UNCHANGED cookie
  /\ UNCHANGED <<cookieIsSeen, account, live, tab, request, loading, settled, oauthLoading,
                 pageState, fate>>

SignInEffect ==
  /\ tab.at = "signIn" /\ known = "some"
  /\ Visit(Homeward(tab.cb), request)
  /\ UNCHANGED <<world, known, fate, drops>>

BridgeEffect ==
  /\ tab.at = "bridge" /\ pageState = "checking" /\ known # "pending"
  /\ IF known = "none"
       THEN Visit(Through("signIn", tab.cb), request)
       ELSE /\ pageState' = IF tab.cb = "malformed" THEN "error" ELSE "exchanging"
            /\ UNCHANGED <<tab, request, loading, settled, oauthLoading>>
  /\ UNCHANGED <<world, known, fate, drops>>

\* The token goes into a cookie that nobody reads.
RunBridge ==
  /\ tab.at = "bridge" /\ pageState = "exchanging"
  /\ \/ live /\ cookie /\ pageState' = "success" /\ UNCHANGED drops
     \/ ~(live /\ cookie) /\ pageState' = "error" /\ UNCHANGED drops
     \/ drops < MaxDrops /\ drops' = drops + 1 /\ pageState' = "error"
  /\ UNCHANGED <<world, tab, known, request, loading, settled, oauthLoading, fate>>

HandleRetry ==
  /\ tab.at = "bridge" /\ pageState = "error" /\ tab.cb # "malformed"
  /\ pageState' = "exchanging"
  /\ UNCHANGED <<world, tab, known, request, loading, settled, oauthLoading, fate, drops>>

\* The bridge closes its tab; the tab of the done page is closed by the service
\* worker, once it has exchanged the session for a token.
TabCloses ==
  /\ \/ tab.at = "bridge" /\ pageState = "success"
     \/ tab.at = "done" /\ cookie /\ live
  /\ LoadTab(NoTab)
  /\ UNCHANGED <<world, fate, drops>>

-----------------------------------------------------------------------------
(* The forms.  A form's button is disabled while it is loading; the other  *)
(* one of the page is not.                                                 *)

Begin(c, to) ==
  /\ request[c] = NoRequest /\ Cardinality({d \in AuthCall : request[d] # NoRequest}) < 2
  /\ request' = [request EXCEPT ![c] = [at |-> "sent", to |-> to, here |-> TRUE]]

SubmitForm(c) ==
  /\ c \in DOMAIN FormPage /\ tab.at = FormPage[c] /\ ~loading /\ ~settled
  /\ Begin(c, IF c = "signIn" THEN tab.cb ELSE "none")
  /\ loading' = TRUE
  /\ UNCHANGED <<world, tab, known, settled, oauthLoading, pageState, fate, drops>>

HandleOAuth ==
  /\ tab.at \in {"signIn", "signUp"} /\ ~oauthLoading
  /\ Begin("oauth", IF tab.at = "signIn" THEN tab.cb ELSE "none")
  /\ oauthLoading' = TRUE
  /\ UNCHANGED <<world, tab, known, loading, settled, pageState, fate, drops>>

HandleSignOut ==
  /\ tab.at = "dashboard"
  /\ Begin("signOut", "none")
  /\ UNCHANGED <<world, tab, known, loading, settled, oauthLoading, pageState, fate, drops>>

\* Mutant: the spinner is left on.
FormRefusedLoading(c) ==
  /\ Sent(c) /\ c \in DOMAIN FormPage
  /\ request' = Without(c)
  /\ UNCHANGED <<world, tab, known, loading, settled, oauthLoading, pageState, fate, drops>>

\* An error, which is shown on the page that asked if it is still there.
FormRefused(c) ==
  /\ Sent(c) /\ c \in DOMAIN FormPage
  /\ request' = Without(c)
  /\ loading' = (loading /\ ~request[c].here)
  /\ UNCHANGED <<world, tab, known, settled, oauthLoading, pageState, fate, drops>>

\* A call that rejects: no form catches that, and its spinner goes on.  The sign-in by a
\* provider is caught, but is also left on when the error is returned and not thrown.
Dropped(c) ==
  /\ Sent(c)
  /\ \/ drops < MaxDrops /\ drops' = drops + 1 /\ UNCHANGED oauthLoading
     \/ c = "oauth" /\ oauthLoading' = (oauthLoading /\ ~request[c].here) /\ UNCHANGED drops
  /\ request' = Without(c)
  /\ UNCHANGED <<world, tab, known, loading, settled, pageState, fate>>

\* The answer moves the tab, whatever page it shows by now.
SignedIn ==
  /\ Sent("signIn")
  /\ \/ /\ account = "plain" /\ cookie' = TRUE /\ live' = TRUE
        /\ Visit(Homeward(request["signIn"].to), Without("signIn"))
        /\ UNCHANGED strayed
     \/ /\ account = "unverified"
        /\ Visit([at |-> "verifyEmail", cb |-> "none"], Without("signIn"))
        /\ strayed' = TRUE /\ UNCHANGED <<cookie, live>>
     \/ /\ account = "twoFactor"
        /\ Visit([at |-> "mfa", cb |-> "none"], Without("signIn"))
        /\ strayed' = TRUE /\ UNCHANGED <<cookie, live>>
  /\ UNCHANGED <<cookieIsSeen, account, known, opener, drops>>

SignedUp ==
  /\ Sent("signUp") /\ account = "none"
  /\ account' = "unverified"
  /\ Visit([at |-> "verifyEmail", cb |-> "none"], Without("signUp"))
  /\ UNCHANGED <<cookieIsSeen, cookie, live, known, fate, drops>>

CodeVerified ==
  /\ Sent("code") /\ account = "twoFactor"
  /\ cookie' = TRUE /\ live' = TRUE
  /\ Visit(Homeward("none"), Without("code"))
  /\ UNCHANGED <<cookieIsSeen, account, known, fate, drops>>

\* The two forms that only send a mail.
MailSent(c) ==
  /\ c \in {"resend", "forgot"} /\ Sent(c)
  /\ request' = Without(c)
  /\ loading' = (loading /\ ~request[c].here)
  /\ settled' = (settled \/ request[c].here)
  /\ UNCHANGED <<world, tab, known, oauthLoading, pageState, fate, drops>>

\* A timer is set that takes the tab to the sign-in page from wherever it is by then.
PasswordReset ==
  /\ Sent("reset")
  /\ request' = [request EXCEPT !["reset"].at = "timer"]
  /\ loading' = (loading /\ ~request["reset"].here)
  /\ settled' = (settled \/ request["reset"].here)
  /\ UNCHANGED <<world, tab, known, oauthLoading, pageState, fate, drops>>

ResetTimer ==
  /\ request["reset"].at = "timer"
  /\ Visit(Through("signIn", "none"), Without("reset"))
  /\ UNCHANGED <<world, known, fate, drops>>

\* The browser goes to the provider and comes back to the callback.
OAuthReturns ==
  /\ Sent("oauth")
  /\ account' = (IF account \in {"none", "unverified"} THEN "plain" ELSE account)
  /\ cookie' = TRUE /\ live' = TRUE
  /\ LoadTab(Homeward(request["oauth"].to))
  /\ UNCHANGED <<cookieIsSeen, fate, drops>>

\* To the sign-in page, signed out or not.
SignedOut ==
  /\ Sent("signOut")
  /\ \/ cookie' = FALSE /\ live' = FALSE
        /\ Visit([at |-> "signIn", cb |-> "none"], Without("signOut"))
     \/ Visit(Through("signIn", "none"), Without("signOut")) /\ UNCHANGED <<cookie, live>>
  /\ UNCHANGED <<cookieIsSeen, account, known, fate, drops>>

-----------------------------------------------------------------------------
(* Elsewhere: the session ends, with the copy of it that the cookie keeps  *)
(* for five minutes, and the link in the mail is followed.                 *)

SessionEnds ==
  /\ live /\ live' = FALSE
  /\ UNCHANGED <<cookieIsSeen, account, cookie, tab, known, request, loading, settled,
                 oauthLoading, pageState, fate, drops>>

EmailVerified ==
  /\ account = "unverified" /\ account' = "plain"
  /\ cookie' = TRUE /\ live' = TRUE
  /\ UNCHANGED <<cookieIsSeen, tab, known, request, loading, settled, oauthLoading, pageState,
                 fate, drops>>

SignInTabNext ==
  \/ HandleSignIn \/ OpenTab \/ ReloadTab \/ StartOver
  \/ \E page \in AuthOnly : FollowLink(page)
  \/ SessionAnswers \/ SignInEffect \/ BridgeEffect \/ RunBridge \/ HandleRetry \/ TabCloses
  \/ HandleOAuth \/ HandleSignOut
  \/ \E c \in AuthCall : SubmitForm(c) \/ FormRefused(c) \/ Dropped(c) \/ MailSent(c)
  \/ SignedIn \/ SignedUp \/ CodeVerified \/ PasswordReset \/ ResetTimer \/ OAuthReturns
  \/ SignedOut \/ SessionEnds \/ EmailVerified

SignInTabSpec == SignInTabInit /\ [][SignInTabNext]_signInTabVars

-----------------------------------------------------------------------------
(* Correctness.                                                            *)

SignInTabTypeOK ==
  /\ cookieIsSeen \in BOOLEAN /\ cookie \in BOOLEAN /\ live \in BOOLEAN
  /\ live => cookie
  /\ account \in {"none", "unverified", "plain", "twoFactor"}
  /\ tab \in [at : AuthOnly \cup {"reset", "mfa", "verifyEmail", "dashboard", "bridge", "done",
                                  "missing", "closed"},
              cb : Callback]
  /\ tab.cb = "none" \/ tab.at \in {"signIn", "bridge"}
  /\ known \in {"pending", "none", "some"}
  /\ request \in [AuthCall -> [at : {"none", "sent", "timer"}, to : Callback, here : BOOLEAN]]
  /\ loading \in BOOLEAN /\ settled \in BOOLEAN /\ oauthLoading \in BOOLEAN
  /\ pageState \in {"checking", "exchanging", "success", "error"}
  /\ opener \in {"user", "extension"} /\ strayed \in BOOLEAN /\ drops \in 0 .. MaxDrops

(***************************************************************************)
(* middleware.ts:13-16 and sign-in/page.tsx:11-18: the tab that the        *)
(* extension opens to be connected shows the sign-in page and then the     *)
(* done page, whoever is signed in already, how they sign in, what is      *)
(* answered late or not at all, and however often they reload; unless they *)
(* follow a link away, or have an e-mail address or a code to confirm.     *)
(***************************************************************************)
ConnectArrives ==
  opener = "extension" /\ ~strayed => tab.at \in {"signIn", "done", "closed"}

(***************************************************************************)
(* sign-in/page.tsx:61-102 and the other forms: a button is disabled while *)
(* its call is under way, and after that only if the call has rejected.    *)
(***************************************************************************)
SpinnerMeansWaiting ==
  drops = 0 =>
    /\ loading => \E c \in DOMAIN FormPage : Sent(c) /\ request[c].here
    /\ oauthLoading => Sent("oauth") /\ request["oauth"].here
===============================================================================
