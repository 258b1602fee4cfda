# TLA+ verification of D'Vantage

D'Vantage is a resume optimizer: a NestJS API (`apps/api`), a BullMQ worker
(`apps/worker-ai`), a Next.js site (`apps/web`) and a Chrome extension
(`apps/extension`), over PostgreSQL, Redis, S3-compatible storage, Stripe and an AI
provider. This directory holds TLA+ models of it, TLC configurations that check them
on small instances, and proofs that TLAPS checks for every instance. Paths below are
relative to the repository.

The repository has no unit tests. Nearly everything that can go wrong in it goes wrong
between two statements. On the server, handlers are sequences of single SQL statements
with no transaction, workers are cut off by deploys, the queue retries, listeners run
unawaited, Stripe repeats and reorders. On the client, pages and panels await calls
while the user, other tabs, storage events and timers go on. That is what is modelled.

## 1. Inventory

| Part | State it keeps | Operations | Talks to | Hard part | What makes it correct |
|---|---|---|---|---|---|
| Optimization: `api/job/optimize.service.ts`, `worker-ai/.../resume-optimize.processor.ts` | optimization columns of `ats_scores`, `usage_events` | request, poll, process, `onFailed` | entitlements, queue, AI | status guard against retries and redeliveries; two requests for one row | status agrees with the columns; no row in progress without somebody to finish it; charged before run |
| Scoring: `api/job/ats-score.service.ts`, `worker-ai/.../ats-score.processor.ts` | scoring columns of `ats_scores` | create, poll, process, `onFailed` | the same | no guard: attempts overlap late listeners and each other | status agrees with the columns; a completed job has settled its row |
| Resume upload and parse: `api/resume/resume.service.ts`, `worker-ai/.../resume-parse.processor.ts` | `resume_versions`, objects | upload, number, confirm, parse, delete | storage, queue, AI | confirm races confirm, delete and a second PUT; numbers chosen by a SELECT | the file is there while the version is shown; a version in progress has somebody to finish it; numbers of kept versions differ |
| Queue: BullMQ as the services use it | jobs in Redis, slots of the workers | add, take, complete, fail, retry, stalled check | worker process | crash, lost lock, unawaited `failed` listener | a lock has one holder; attempts are bounded |
| Entitlements: `SubscriptionService.assertQuota`, `recordUsage` | `usage_events`, `subscriptions.plan` | assert, record | every metered handler | check, act and record without a lock | the overrun is bounded; nobody pays for nothing |
| Billing: rest of `SubscriptionService`, `stripe-webhook.controller.ts` | `subscriptions` | checkout, three webhook handlers | Stripe | reordered, repeated, swallowed events | rows carry their own user's customer; the plan follows Stripe |
| Resume export: `api/resume/export`, `packages/ai` validation | none | print as PDF, as DOCX | the resume page | two services print the same data independently | the formats say the same; marked differences are differences |
| Rate limiter: `api/common/throttler` | two Redis keys per client, route and throttler | `increment` | Redis | window extended by every hit; concurrent hits | refused only over the limit; quiet ends a block |
| Extension API: `api/extension` | `extension_tokens`, `applications`, `user_profiles`, a Redis counter | exchange, refresh, revoke, score, capture, profile, AI fill | entitlements, Redis, AI | exchange against sign-out; INCR without EXPIRE; select, then insert | a revoked token opens nothing; the ceiling of a day is exact |
| Extension client: `extension/background`, `content`, `sidepanel` | `chrome.storage.local`, panel state | sign in, refresh, detect, score, autofill, AI fill, submit | extension API, content script | storage read after an await; answers for an earlier page | what is shown, filled and recorded belongs to the page that is open |
| Web pages: `web/src/app/dashboard` | component state, timers | poll, list, edit, upload, buy, export | API | overlapping polls, optimistic changes, a call that fails | polling ends, with the last state; page, form and row agree |
| Sign-in: `web/src/app/auth`, `web/src/app/extension`, `middleware.ts` | component state, cookie | sign in, up and out, reset, verify, connect | better-auth | detours lose parameters; late answers | the callback arrives; a spinner waits for something |
| Job descriptions, tracker, dashboard, users | one row each | CRUD, aggregates | database | deletion under a running worker; merged lists | a write to a deleted row has no effect |
| Mail, text extraction, KMS, health, infrastructure | none | calls | outside services | an answer or an error | modelled as those two outcomes by their callers, or not at all |

The parts meet in few places. The web application and the extension call the same API;
the API and the worker share the database rows and the queue; Stripe, the API and the
billing page share the `subscriptions` row; the extension's service worker, content
scripts and panels share `chrome.storage.local`, whose events reach the panels late.
Each meeting is inside one module.

`PROJECT.json` lists every component with its status, and every hazard of the code at
its line with the properties that cover it, or why none does.

## 2. Modules

Server:

| Module | Models |
|---|---|
| `JobQueue` | BullMQ and the worker runtime. External: only what `queue.add`, `new Worker` and `worker.on('failed')` rely on. Extended by the three pipelines. |
| `TaskLifecycle` | The abstract promise to a polling client: requested, started, one outcome; a delivered output is final; a requested task settles. |
| `OptimizePipeline` | `requestOptimization`, `ResumeOptimizeProcessor`, its listener, and deletion by cascade. |
| `ScorePipeline` | `createScore`, `AtsScoreProcessor`, its listener, cascade. |
| `ParsePipeline` | PUT, `confirmUpload`, `deleteVersion`, `ResumeParseProcessor`, its listener. |
| `ResumeVersions` | `createVersionRow`: SELECT max, then INSERT, under the partial unique index, beside `deleteVersion`. |
| `Entitlements` | `assertQuota` and `recordUsage` around any metered act, changes of plan and month. |
| `Billing` | `createCheckoutSession`, the controller and its three handlers, with Stripe as environment. |
| `Throttler` | `ThrottlerGuard` over the named throttlers, and `RedisThrottlerStorageService` call by call. |
| `AiFillBudget` | The daily counter in `ExtensionAiFillService.fill`, which fails open, with INCRs that fail, are sent twice or outlive their process. |
| `ResumeExport` | What `resume-pdf.service.ts` and `resume-docx.service.ts` print, line by line; extraction and rewriting with their validation; the difference the score page marks; the export buttons of the resume page. |

Extension:

| Module | Models |
|---|---|
| `ExtensionToken` | `extension_tokens`, the auth service and guard, the stored token, the service worker's exchange and refresh, AuthGate, both ways to sign out. |
| `ScorePanel` | ScorePanel.tsx, `JOB_DETECTED`, `REQUEST_SCORE`, `ACTIVE_JOB`, `CACHED_SCORE`. |
| `ProfileCache` | `CACHED_PROFILE` between the API, the autofill and SettingsPanel; accounts change. |
| `AutofillPanel` | AutofillPanel.tsx and the router's form, autofill, AI-fill, submit and capture messages; tabs change. |
| `FormFill` | What the five site adapters find, fill and skip, how AI answers find their inputs, LinkedIn's automatic "Next", and the user who types and moves on meanwhile. |
| `PageDetection` | The content script's debounced detection over the URL and the modal observers, which see only that a modal comes or goes. |

Web:

| Module | Models |
|---|---|
| `ScorePage` | `dashboard/jobs/[id]/scores/[scoreId]`: two chains of polls and the optimization's button. |
| `ResumePage` | `dashboard/resume/[id]`: an interval whose requests overlap, over a row that the worker may write again after its end. |
| `ApplicationsPage` | The tracker with its optimistic status and its single form, over the newest page of rows that others write, too. |
| `ProfileSettings` | The form of the autofill fields, with `updateProfile`'s select-then-insert. |
| `UploadPage` | Choose or drop a file, upload it, go to the version. |
| `ListPages` | The lists of jobs and resumes: load one page, delete, create, beside other tabs. |
| `BillingPage` | Tabs of the billing page, Stripe's pages, the webhooks' effect. |
| `Dashboard` | `getSummary`'s two queries and the feed the page merges. |
| `JobPage` | The page that asks for a score, for a resume that was parsed when it was read. |
| `SignInTab` | The forms under `/auth`, the middleware, OAuth, `/extension/done` and `/extension/auth`. |

`MC*` are finite instances (which row a request names, pages, resumes, symmetry),
`*_proofs` the theorems.

**Grain.** On the server one action is one database, queue, storage, Redis or Stripe
access, because another process can run between any two of them. On the client one
action is one turn of the event loop: a handler up to its next await, an answer with
everything its continuation does, a timer, a storage event. What is read in one step
and used in a later one is remembered where it matters (`handler[h].now`: the
subscription as retrieved; `calls[c].token`: the token a refresh was sent with) or
implied by the place (`checked`: the status was good when it was read).

**The queue.** A job is added, waits, is taken by a slot that holds its lock, and
completes, or is delayed and retried until its `attempts` are used up. A throw also
puts `<<job, attempt>>` into `failedEvents`; the listener's UPDATE takes it out, at
any later time. `Crash` empties every slot and drops pending listeners (no code calls
`worker.close()`; `onApplicationShutdown` only logs). `LoseLock` lets a slot run on
without its lock. `Recover` is BullMQ's stalled check: back to waiting up to
`maxStalledCount` times, then failed with a `failed` event. Jobs are taken in any
order, which includes BullMQ's. `faults` counts the deaths (of the worker or of a
request's handler) and the lost locks; `Calm` says there were none yet.

**Rows.** An UPDATE by id of a row that is gone has no effect (`UpdateRow`). Data are
abstracted to what the properties tell apart: in `OptimizePipeline` the job whose
output a row shows, in `ScorePipeline` whether the scores are null, in `ParsePipeline`
whether there are an object and a parsed text.

**Billing.** A row is per user; subscriptions, customers and events belong to Stripe.
`Deliver` is a webhook request, in any order, beside others and again later; `orderly`
remembers whether so far every event came once, in order, and was handled without an
error. `sold` says whether a subscription's price is one of `PRICE_ID_ENV`; statuses
missing from `subscription_status` are one value, `unlisted`, with which the UPDATE
fails. `Attach` is the Dashboard path that the comments of `isKnownPremiumPrice` name.

**Storage and panels.** `chrome.storage.local` is a variable per key. A `set` puts the
change into an inbox of the panel (`inbox`, `jobNotes`, `formNotes`), and so does the
answer to a panel's own `get` on mount; they are handled in that order, at any later
time. A message to the router is a record that steps through the router's awaits; the
answer goes to whatever the panel shows by then, as in the code.

**Pages.** The component's state hooks are variables, and an answer's `setState` after
an unmount has no effect. What the page shows is an operator (`ScorePageShows`,
`SettingsShow`, `Offers`, `DashboardShows`), and the user can only press what is shown
and enabled. A call is sent, done on the server or not, and answered or not, in any
order.

**Histories.** Some properties hold "unless" something happened first: an earlier
answer was lost, two saves crossed, the tab moved on. Those events are kept in
variables marked `history:`, so that each property says exactly which case the code
does not handle; §4 describes them. `Throttler` keeps the requests let through as
`passed[k][t]`, those up to moment `t`, so that a window is a difference of two.

**Forms.** In `FormFill` a text stands for what a label says, an attribute says, or is
searched for; `Includes` says which contains which ("nickname" contains "name"),
because the adapters find inputs by substring. A page is a sequence of inputs with
label, attribute, id and whether they are open; five adapters are two kinds of search
(by selector, or by label) and Greenhouse's sweep, which knows the inputs its probes
have found by their ids only, and gives an input with neither id nor name a selector
that finds nothing. A list of fields that the code filters is a function on the places
of the list, with gaps where an entry was dropped: nothing depends on how it is
packed. A button is what a click on it does and what `isSubmitButton` reads in its texts,
independently: the code tells a submit button by a list of words. The timer holds the
modal it was set in, and finds in it whatever step it shows by then, or, when it has left
the page, the step it had (`Reached`).

**Modals.** To the observers of `PageDetection` the modal is there or not (`modalSeen`);
to `detectForm` it also has inputs or not (`modal`). Whether a change is reported to them
at all is open (`reported`), as they watch the body's children, or on Indeed the nodes
below it, too, and no attributes.

**Other hands.** The rows under a page are written by other tabs, by the extension and by
the worker. `ListPages` and `ApplicationsPage` keep who was written by somebody else
(`otherHands`, `strangers`); `ScorePage`, `ResumePage` and `JobPage` let the worker write
what `ScorePipeline`, `OptimizePipeline` and `ParsePipeline` let it write, over a
complete row as well, and remember that (`overwritten`, `reparsed`, `undone`). A list is
answered as far as a page of it goes (`PageSize`, `TrackerSize`, `OptionsRead`).

**Queries.** An answer of the dashboard's queries is a set of rows with their places in
the table; the page's sorting is a comparison of places.

**Paper.** In `ResumeExport` a document is a sequence of lines, a line its kind and
the texts it is made of. What texts there are is the constant `Text`: the run gives
it `STRING`, and the proofs hold for any. `Clean` and `CleanDate` are the services' own
treatment of `<UNKNOWN>`; `Printable` removes what only the layout adds, before the two
are compared.

Definitions whose comment begins with "Mutant" are plausible bugs of the definition
next to them. No specification uses them: they show that the properties can fail.

## 3. Runs

| Run | Checks | Instance | Result |
|---|---|---|---|
| `optimize_safety` | `TypeOK`, `StatusMatchesColumns`, `EveryJobIsPaidFor`, `NoOrphan` | two requests for one row, two slots, three attempts, one death, one lost lock, late listeners; 1.2 M states | holds |
| `optimize_lifecycle` | `ImplementsLifecycle` | a row per request, prompt listeners, nothing fails; 7 k states | holds |
| `users_wait` | `RequestsSettle`, `PayingUserBecomesPremium` | optimization without lost locks and deaths, two requests for one row; billing with two customers, subscriptions and handlers, any order, one repetition; under fairness; 158 k states | holds |
| `score_safety` | `TypeOK`, `StatusMatchesColumns`, `ChargesMatchRows`, `DoneIsSettled` | two rows, two slots, two deaths, one lost lock; 3.1 M states | holds |
| `parse_safety` | `TypeOK`, `StatusMatchesColumns`, `FileIsThere`, `NoOrphan` | two confirmations of one version, PUTs, a deletion, two slots, two deaths, one lost lock; 3.1 M states | holds |
| `api_safety` | `ApiTypesOK`, `RowsDoNotMix`, `PlanFollowsStripe`, `FreeUseIsBounded`, `NoChargeWithoutWork`, `RateLimitIsFair`, `CeilingIsExact`, `NumbersAreKept`, `ExportsAgree`, `TrackerAgrees` | the seven parts of `MCApi`; 1.5 M states | holds |
| `extension_safety` | `ExtensionTypesOK`, `SignOutHolds`, `GateFollowsStorage`, `LiveTokenIsKept`, `PanelScoresItsJob`, `ProfileIsCurrent`, `PanelFollowsTheForm`, `FillsAreSafe`, `FillsLoseNothing`, `PageIsReported` | the six parts of `MCExtension`; 1.5 M states | holds |
| `web_safety` | `WebTypesOK`, `ScorePageIsLive`, `ResumePageSettles`, `SettingsAgree`, `PagesAgree` | the nine parts of `MCWeb`; 1.8 M states | holds |
| `optimize_retries`, `billing_price`, `billing_redelivery`, `throttle_exempt` | one statement of the repository each | small | violated, see §4 |

**Unions.** The parts of `MCApi`, `MCExtension`, `MCWeb` and `MCLive` share no
variable, so each behaviour is that of one of them, chosen by `part`, while the others
stay as they start: their union and not their product. Parts with several initial
states are pinned to one of them while they are idle, and the type invariant is
evaluated for the part that moves. The tracker, the page that takes longest, is checked
in `MCApi`, for `MCWeb` has no time left for it. In `api_safety` the throttled route is
`resumes`; the route of the webhook belongs to `throttle_exempt`.

**What the properties say.**

* Pipelines: status and columns agree in every order; who is in progress is pursued by
  a handler, a job, a slot or a listener; work is paid for; a completed job has
  settled its row.
* `RowsDoNotMix`, `PlanFollowsStripe`: no row carries another user's customer; a user
  of one subscription whose events came once and in order has the plan it says.
* `FreeUseIsBounded`: the overrun of the free limit is less than the requests in
  flight.
* `RateLimitIsFair`: in any window of one ttl no more than the limit pass, and a quiet
  client is served again. `CeilingIsExact`: no more AI fills a day than the limit,
  besides requests that met a Redis error, and nobody refused early, but for the counts
  spent on a request whose process died or on an INCR that was sent twice.
* `NumbersAreKept`: versions kept have different numbers and an upload fails only
  because of a rival. `ExportsAgree`: PDF and DOCX have the same lines, placeholders
  stay out but for the fields printed as they are, what is offered is refused only if
  deleted since, and what the comparison marks differs.
* `SignOutHolds`, `GateFollowsStorage`, `LiveTokenIsKept`: a sign-out ends every
  token; the panel follows the storage; the client forgets no token that the server
  would take, but by calls that began before it was stored.
* `PanelScoresItsJob`, `ProfileIsCurrent`, `PanelFollowsTheForm`: a score belongs to
  the posting shown; a cached profile is not older than its time to live, and its
  owner had not left longer ago; what is submitted or recorded was filled.
* `FillsAreSafe`, `FillsLoseNothing`: AI answers go to the inputs they were asked for,
  the automatic "Next" clicks no button whose texts say that it submits, no skipped field is forgotten, no value of the
  profile is replaced, but for the named exceptions: inputs that share a name or have
  no id, fields without a selector, and an input that the probe of a key without a
  value finds as well. The proof found the last one.
* `PageIsReported`: when no timer runs and no mutation waits, posting and form have been
  reported, unless something changed since the last look that nobody told the script of:
  the document (`behind`), the URL (`unheard`), or the modal without coming or going, or
  out of the observer's sight (`missed`).
* `ScorePageIsLive`, `ResumePageSettles`: a spinner has a poller, there is one chain
  of polls, polling ends and the end is shown. They are safety properties: what is
  true in every state in which nothing is under way, until a worker writes over an end
  that was shown.
* `TrackerAgrees`, `SettingsAgree`: list, form and row agree once answers are in, for
  the rows on the page that nobody else has written; no typed text is lost or saved
  elsewhere.
* `PagesAgree`: the upload is the file shown; a list shows rows that exist and lacks only what
  is behind a page of newer ones; nobody is
  led to pay twice; the feed is the newest; a visit asks for one score,
  and for a resume that is parsed unless the worker has taken it up again; the
  extension's callback arrives whatever detour, reload or late answer happens, and a
  disabled button waits for a call.

**Bounds.** Races over a row need two parties: two requests or confirmations for it
and two slots. `Attempts = 3` is the code's value. One stall reaches both branches of
`Recover`. A death and a lost lock together give a crash after a lost lock; for the
scorer and the parser, which rerun what is redelivered, there are two deaths. Four
metered requests, two in flight at once, fill a limit of two and overrun it, in either
of two months; `QuotaCorrect` proves the bound for every number. Three Stripe events
suffice for an update that overtakes a checkout, a cancellation and a repetition. The
throttlers are `short` and `medium` scaled to limits 1 and 2 over ttl 1 and 2, with
four requests and two ticks: a window is filled, overrun, blocked and waited out. The
AI fill has a limit of two over three days with five requests, one outage and one death. The
resumes of `MCApi` give a role, a school, a certificate and the skills every
combination of missing, unknown and present dates. In the extension two of everything
that may cross (tokens, postings, users, forms, messages), and a form of up to two
fields with one more to come; labels and keys of which one contains the other. On the
web two calls under way at once, three where the third distinguishes "latest" from
"first" (`Fetches`, saves, uploads), one failure, lists of two items to a page where
there are three (of one where there are two in the tracker, one of which somebody else
may write), two outcomes written over on the score page and one on the resume page, and
for the dashboard three rows with limits of 1 and 2 and a feed of 2; as in the code (3
resumes, 5 scores, 6 in the feed) the feed is longer than the list of resumes and
shorter than both together.
Symmetry is used only in runs without liveness properties. Deadlock is off where
requests, events or bounds run out; in `parse_safety` it is on, as PUTs are always
possible.

**Fairness.** Only what the running system does by itself is fair: a handler that has
started takes its next step, a live worker takes waiting jobs, ends its attempts one
way or the other and runs its listeners, Redis wakes delayed jobs, Stripe delivers
what it sent (it retries until it gets an answer). Nothing a user does is fair, nor is
success: an attempt may always fail. A property that needs the absence of faults says
so itself (`Calm`, `faults.lost = 0`) and is checked in runs where they occur; only
the runs of liveness and refinement have none.

**Refinement.** `OptimizePipeline` maps its status to a phase of `TaskLifecycle` and
its output column to `output`; `ImplementsLifecycle` is `Lifecycle!FairSpec`. It needs
at most one request per row, because with two a late first job may replace a delivered
output, and a prompt listener, because a late one (resume-optimize.processor.ts:207) may
write "failed" over what another attempt has made of the row: the run sets
`ListenerIsPrompt`. Its safety half is also proved (`PromiseIsKept`, §5).

## 4. Where the repository says otherwise

Each of these runs checks one statement of a comment and ends in a counterexample.
`PROJECT.json` "findings" quotes the statement.

| Run | Statement | Counterexample |
|---|---|---|
| `optimize_retries` | retries are handled by the queue | the first failure sets `failed`; every retry is skipped and the job completes |
| `billing_price` | an unknown price never confers Premium | an update event looks only at the status |
| `billing_redelivery` | handlers are idempotent | a repeated checkout event after the cancellation grants Premium |
| `throttle_exempt` | the webhook is never throttled | a bare `@SkipThrottle()` skips `default`, and the throttlers are `short` and `medium` |

The models show further behaviours that a reader of the comments may not expect.
Properties exclude them by name (a history, a condition), so that each is visible
there.

*Pipelines and quotas.* A death between the UPDATE and `queue.add` leaves a row
`pending` (or a version `uploaded`) with no job, for good. A redelivered optimization
is skipped by the guard and leaves the row `optimizing`. A row that failed after
another job delivered keeps the output; a failed optimization keeps its usage row. A
second PUT on the same URL can replace the file after its text was read. Two requests
may both pass the quota. `createScore` accepts a deleted version, and an answer that
is lost is charged again when the user repeats the request; the `Idempotency-Key`
header is required and never used. A Stripe status the enumeration lacks makes the
UPDATE fail, which is logged and answered 200.

*Rate limits.* `PEXPIRE` on every hit makes a steady client under the rate run into
the limit all the same; a failed `INCR` counts as 1. `@Throttle({ default: … })` on
the score and AI-fill routes changes no throttler, for the reason of
`throttle_exempt`. The AI fill counts before it works and gives nothing back: a process
that dies after the INCR, or an INCR that the Redis client sends again, uses up a fill of
the day for nobody, and somebody else is told early that the limit is reached (`wasted`).

*Extension.* The header of `background/index.ts` says of the refresh "On 401/error:
clears both token keys" (line 12). Only a 401 clears them (252-257): an error is logged
and answered, the token stays, and `LiveTokenIsKept` says so; `FailRefreshClears`, its
mutant, is what the header describes. The schema says a token expires 30 days after `last_seen_at`; nothing
reads it. Of several exchanges for one sign-in all tokens but one stay live. A score
is cached under the URL that is active when it arrives (so is its `crossed` mark). The
cached profile does not say whose it is. Adapters that search by label find "nickname"
for "name", and skip keys the page does not ask for; of fields with the same label the
earlier one is in neither list, in spite of message-router.ts:641. Greenhouse's sweep
knows the inputs its probes have found by their ids only, so one without an id is
skipped again after it was filled, and a swept input with neither id nor name gets a
selector that finds nothing. Two probes may find one input: the profile's value for
the one key can then be replaced by the AI's for the other. The AI's answers, and
LinkedIn's automatic "Next", may reach a later step of the form; the answers replace what
the user has typed meanwhile. The automatic "Next" looks its button up 800 ms later, in
the modal it was set in, and tells a button that submits by the words of SUBMIT_PATTERN:
one that matches an allowlisted selector and has none of them is clicked, whatever it
does. A document that is filled more than a second after the URL changed is never
reported. Nor is a form whose inputs come after its modal, or in the modal's next step,
for the observers compare only whether there is a modal; LinkedIn's watches only the
body's own children. Content scripts have a `history` of their own (the manifest names
no world), so that a page's own `pushState` is not heard.

*Pages.* On the score page a failed load of the fresh score leaves "Rewriting…", a
late one can bring an older state back, and a call in flight at an unmount starts its
timer again. The resume page stops polling at the first failed poll,
or at a complete parse, which is not final: a redelivered job sets it to parsing and a late
listener to failed, so that answers still on their way show "Analyzing" or "failed" over
the listed exports with nobody left to ask. The score page, too, shows "Analyzing" or
"Rewriting" without a poller when a worker takes up again what had ended, and a score
may be refused for a resume that was offered as parsed. The lists are their newest page,
of 20 jobs or versions and 50 applications: what is behind it, or was written by another
tab or the extension, is not seen until the page is loaded again. Asking for a second page
would not help: the three services filter for rows newer than the cursor and order them
newest first, which answers the first page again; no client asks. In the tracker a
form turned to another application keeps the first one's text, a status changed
meanwhile is undone by the form's snapshot, a late answer closes another form, a lost
answer to a creation leads to a duplicate. In the settings an answer replaces what was
typed meanwhile and a timer re-enables the button during a save. The upload page
accepts a drop during an upload. The billing page greets `?success=1` before the
webhook has come, and in a second tab goes on offering a subscription. The dashboard
shows a failed score as 0 of 100. The comparison of the score page hides roles the
rewriting added, and takes its change log unvalidated.

*Paper.* `<UNKNOWN>` is printed where it stands in the name, the summary, a highlight
or a skill, although resume-pdf.service.ts:25 says placeholders are stripped entirely.
A deleted version's optimized export still works while the original's is refused.

*Sign-in.* `PUBLIC_PATHS` contains `/` and is tested with `startsWith`, so no path is
protected by the middleware, although middleware.ts:47 says it is; and in production the
session cookie has a `__Secure-` name and belongs to the API's host, so the middleware
does not see it (`cookieIsSeen`). A callback with a query becomes part of a path name
there, and is not found. Confirming an e-mail address or a second factor loses the
callback. Forms do not catch a rejected call: their button stays disabled (`drops`). A
sign-in answered late moves the tab wherever it is by then. A failed sign-out goes to
the sign-in page and from there back to the dashboard. The cookie of
`/extension/auth`, which says "Connected!", has no reader.

## 5. Proofs

Eight modules hold theorems. Each holds for all sets and all bounds that the ASSUMEs
of its module allow (finite natural bounds, a null value that is no member, …).

**`JobQueue_proofs`** has the lemmas of the three pipelines. `QueueInv` adds to the
types of `JobQueue` that a job not yet over has attempts left and that a lock is held
by one slot on an active job; every `QueueStep` keeps it. `WorkStepKeepsWork` says
that while a slot works nobody else changes which job it has; `BusyStaysLocked` that a
busy slot stays locked unless a lock is lost.

**`OptimizePipeline_proofs`**: `TypeCorrect`, `ColumnsCorrect`, `PaidCorrect`,
`NobodyIsOrphaned`, `PromiseIsKept`.

* `StatusMatchesColumns` is inductive over `TypeOK`, since each writer sets status and
  columns in one UPDATE; what is to be shown is that no writer disturbs what another
  has written.
* `EveryJobIsPaidFor` is not inductive: `Paid` adds that a handler about to enqueue
  has its usage row and that a busy slot runs a paid job.
* `NoOrphan` needs `Calm => Pursuit` (`CalmStep`: what is calm after a step was calm
  before). `NoOrphan` allows any slot as a row's hope, but the guard skips rows that
  are not pending, so a slot about to skip is none. `Pursuit` separates the two
  statuses: an optimizing row is in a working slot's or a listener's hands, a pending
  one in those of a handler, a waiting job, a slot up to `guarded` or a listener; and
  every busy slot holds its lock, so that a throw raises an event.
* `PromiseIsKept` is the refinement without its fairness, `Spec => Lifecycle!Spec`,
  for any number of rows, requests and slots with a row per request, prompt listeners
  and no faults (`RowPerRequest`). `InTurn` ties each row to its job: a request that
  has not claimed finds a new row, a waiting job one that is not complete, a slot the
  status that its place in the processor stands for, and a job whose listener is
  still to run is not active. Hence each step moves one row along the life cycle or
  none (`StepsMoveRows`).

**`ScorePipeline_proofs`**: `ScoreTypeCorrect`, `ScoreColumnsAgree`,
`ScoresArePaidFor`, `DoneScoresAreSettled`. `Charged` adds to `ChargesMatchRows` how
far each handler is with row and charge, and that a busy slot's job is charged.
`Settling` adds to `DoneIsSettled` that, without a lost lock, a busy slot holds its
lock (`BusyIsLocked`), so that nobody else takes its job, and that a slot whose
attempt has returned has left its row with an outcome, which later listeners can
change to another outcome only.

**`ParsePipeline_proofs`**: `ParseTypeCorrect`, `ParseColumnsAgree`,
`ConfirmedFilesStay`, `NoVersionIsForgotten`. For `FileIsThere`, `FilesKept` carries
the observation of the storage through every place where it is relied on: a
confirmation that found the object, a job, a slot, a status; a deletion takes the row
away before the object, and a version being purged is deleted. `NoOrphan` is inductive
together with `BusyIsLocked`.

**`Api_proofs`**, the parts of `MCApi` one after the other; `ApiTypeCorrect` says of
all of them that they stay well typed.

* Billing, `BillingIsOwn`: `RowsDoNotMix` follows from `BillingInv`: the types,
  `CheckoutsAreOwned` (a checkout under way is for its own user's customer),
  `EventsAreTrue` (an event names what belongs together at Stripe) and
  `HandlersAreTrue` (so does what a handler has read), in addition to the rows.
* Billing, `PlanIsStripes`: `PlanFollowsStripe` speaks of orderly histories at rest;
  `PlanInv` says what is true before. `StripeTells`: of a subscription bought here
  Stripe has sent the completed checkout first and once, and the last event says what
  the subscription is now. `AnsweredInOrder`: what is answered is an initial segment,
  of which only the last may be in progress. `HandlersKnow`: a handler of the last
  event has read the current state, although it asked Stripe later than the event was
  sent, and an update that missed has no row. `RowsFollow`: every event that is
  handled has left its trace. Nothing bounds the number of events.
* Quotas, `QuotaCorrect`, `ChargedForWork`: `QuotaInv` adds that at most `MaxInFlight`
  requests are in flight and that a request reads the plan once and is charged once,
  after its work and never in a month to come (`ChargedOnce`). Only an admission adds
  to the free use. At that moment the usage rows of the month are fewer than the
  limit, every other unrecorded request is in flight, and so are fewer than
  `MaxInFlight`; the sum is the bound (`FreeUseStep`). All other steps, a change of
  month among them, only take requests out of it.
* Numbers, `VersionNumbersKept`: `VersionInv` adds that no number exceeds the count of
  uploads begun, and that a number chosen by an upload that nobody has overtaken is
  still free.
* Daily budget, `CeilingKept`: `DayInv` keeps the books of a day: every request is in
  one tally, the counter has counted each one let through without an error, unless the
  day is over and no request of it is left to count, and it has counted nobody else but
  what died or was sent twice (`wasted`).
* Rate limits, `RateLimitKept`: `RateInvOf`: counter and block end within one ttl;
  nobody was let through less than a ttl before the counter ends; and a living counter
  has counted everybody let through during the last ttl. The hit that is let through
  next is therefore below the limit in every window that contains it.
* Exports, `ExportsStay`: `PaperIsFine` says what lines the DOCX of any resume can
  have, `SamePaper` that the PDF has the same. The rows hold resumes that passed the
  validation (`RowsInv`), and the page offers what it has read (`OffersInv`).

**`Extension_proofs`**, the parts of `MCExtension`; `ExtensionTypeCorrect` says of all
of them that they stay well typed.

* `SignOutIsFinal`: `ClosedInv` adds to `SignOutHolds` that after a sign-out no
  exchange is between its session check and its INSERT; refreshes need no clause, as
  they only touch a live row in one UPDATE.
* `TokenStays`: `MintedInv`: a token that is stored, answered or about to be refreshed
  was minted, and one refused a refresh is revoked. As rows only age (`RowsOnlyAge`),
  a call that was refused speaks of another token than a live one.
* `GateFollows`: `GateInv`. The last note in the panel's inbox tells what is stored
  (`LastNoteTells`), and an empty inbox means that the gate agrees (`GateFollowed`). No
  time passes under a note, so a change still to be heard of has left no token or a
  fresh one (`ChangesAreFresh`, `ReadsAreFresh`), and only the read on mount, which
  comes first (`MountReadsFirst`) and clears the storage, can find an expired one.
* `PanelIsRight`: `ScorePanelInv` says of every place a score passes through (a
  request, the cache, a note in the inbox, the panel) that it is its URL's or has
  crossed a change of posting, and that a panel that is scoring has exactly one
  request of its own.
* `ProfileStaysCurrent`: `EntryIsGood` and `LoadsAreGood`: what the cache has was on
  the server, and its owner signed in, when it was written, which stays true
  (`HeldAt`, `SignedAt`); what a load has read is so now, because time does not pass
  while it is being written.
* `PanelFillsWhatItSubmits`: `AllFit`: a message that nothing has crossed belongs to
  the page that is there, and what follows a filling to a filled one; `Uncrossed`: so
  does the panel's own state. The action property follows from the same invariant.
* `PageIsKnown`: `DetectionInv`: with no timer running and nothing unheard or missed, what
  was told of the form is what a look would find, or a mutation waits after which the
  observer will see the modal come or go (`FormIsKnown`).
* `FillsStaySafe`, `FillsKeepEverything`: `FillInv`: no input has an answer of the AI
  before the last step (`NoAnswerYet`); between the two messages every skipped field,
  or the last one of its label, is on its way to the page or among the remaining
  (`HandedOn`); an input the profile has filled is no skipped field's, but for the
  exceptions (`FilledOrSkipped`); what the timer has clicked did not read as a submit
  button, in whatever step of whichever modal.

**`Pages_proofs`**: `ResumePageStays`, `ScorePageStays`, `TrackerStays`, and that the
three stay well typed.

* The resume page: requests are read in an order that need not be the one they are
  answered in (`ReadsAreCounted`); once one has read "complete", so does every later
  one, until the worker writes over it (`CompleteIsKept`); what is shown was read (`ShownWasRead`), what is listed
  was shown complete before (`ListedWasShown`), and a cleared interval means an end on
  the page or an answer to come (`SilenceHasAnEnd`).
* The score page: what the page has of the score is a state the row has had
  (`RowsSeen`); where each chain of polls stands determines what may be shown
  (`ScoreIsFollowed`, `ChainIsFollowed`); while nothing is swallowed, crossed or asked
  elsewhere, there is one poller and what it brings is the row's (`UndisturbedPolls`);
  a page left with nothing under way has no timer (`LeftAlone`). A worker may write over
  an end at any time: `AnyRowInv` is what holds all the same (one chain, no timer left),
  and `ScorePageBoth` joins it to the rest until that happens.
* The tracker: `CallsAgree` says for each kind of call and each of its stages how list
  and row differ, of an application that was on the page and that nobody else wrote
  (`Excused`); a call that changed the list at once has changed it by just its status, the
  others not before their answer. `TextsAtHome` follows a text through
  form, calls, list and row; `SaveWaits` says that a save disables the button.

**`Web_proofs`**: `SettingsStay`, and for the pages that `PagesAgree` joins
`UploadStays`, `ListsStay`, `BillingPageStays`, `JobPageStays`, `SignInStays` and
`DashboardStays`, which `EveryPageStays` puts together; `WebTypeCorrect` for all nine of `MCWeb`.

* Settings: until saves cross or the row is changed behind the page, the page knows
  the row or is writing what was typed (`RowIsKnown`); until something is typed or a
  timer fires, the button waits (`ButtonWaits`).
* Upload: the one upload is that of the file shown (`UploadOfTheFile`), a version
  holds what was sent (`VersionOfTheFile`).
* Lists: what was read is the newest page, and stays so as items only become older
  (`RequestsAreNew`, `NewestSteps`); an item that list and database disagree on has a
  request under way, an answer lost, another writer, or a page of newer items before it
  (`DifferenceIsUnderWay`).
* Billing page: what a tab has read is so until something changes (`TabIsRight`), and
  while one subscription lives no tab leads to another (`OnePays`).
* Job page: a visit's score is charged once, and what is charged beyond that is bounded
  by the answers lost (`JobCharges`); what is offered is parsed until the worker takes it
  up again (`JobShows`). Sign-in: a tab opened by the extension keeps its
  callback (`WayKept`).
* Dashboard: after its query each part lacks only rows that came later or for which
  there was no room (`PartHolds`), whatever the limits are; the merged feed then lacks
  only what there is no room for.

**Induction.** Some lemmas need induction over data, which the prover has no direct rule
for: that a finite set of numbers has a greatest or least member (the newest rows, the
first input that matches), and that the concatenation of a list of lists exists. The strict subset
ordering of a finite set is well-founded (a library theorem); `Smallest` turns that
into a least member of a family of finite sets and `LeastNumber`, `LatestOf` and
`EarliestOf` into one of a set of numbers. `PutTogether` argues with the least
counterexample.

**Only model-checked.** Liveness rests on fairness and ENABLED, which the prover does
not handle: `RequestsSettle`, `PayingUserBecomesPremium`, and the fair half of
`ImplementsLifecycle`, whose safety half is `PromiseIsKept`. All other invariants and
action properties of the passing runs are theorems. The four statements of §4 that are
refuted have their counterexamples.

## 6. Not modelled

* `/auth/mfa/setup`, better-auth's secondary storage (Redis, which fails soft) and its
  cookie cache of five minutes: the library's configuration. `SessionEnds` may happen
  at any time, which includes them.
* `updateJob`: one UPDATE of texts that nothing else reads. Reads that answer a client
  and change nothing. The second page of a cursor list: no client asks for it.
  What a page lists is then not the whole table; the models have the first page only
  (`beyond`, `IsBehindAPage`).
* The browser's back-forward cache, which can bring the billing page back with its
  button disabled.
* Rendering, selectors and the text that is scraped, prompts, models, text extraction,
  mail, KMS, health checks, interceptors, infrastructure, constants and types in the
  shared packages, the vendored duplicate of `packages`, the tables and queues nobody
  uses, and the four stub workers: stateless, external or empty.
* `removeOnComplete` and `removeOnFail`: an old job's record is never read again.
