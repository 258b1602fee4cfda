------------------------------ MODULE ScorePanel ------------------------------
(***************************************************************************)
(* Scoring a job posting from the side panel: ScorePanel.tsx, the router's *)
(* JOB_DETECTED and REQUEST_SCORE handlers, and the two storage keys they  *)
(* share, ACTIVE_JOB and CACHED_SCORE.  The panel learns of a new job by a *)
(* storage event, the answer goes to the panel as it is then, and the      *)
(* router files the score under the job that is active by then.            *)
(***************************************************************************)
EXTENDS Integers, Sequences

CONSTANTS
  Job,          \* job postings, by source URL
  NoJob,        \* no job
  Scoring,      \* REQUEST_SCORE messages under way at once
  MaxDetected   \* bound: JOB_DETECTED messages

ASSUME ScorePanelAssumption ==
  /\ NoJob \notin Job
  /\ MaxDetected \in Nat

VARIABLES
  activeJob,     \* ACTIVE_JOB in chrome.storage.local
  cachedScore,   \* CACHED_SCORE
  jobNotes,      \* storage events and the answer to the mount's read, on their way
  shownJob,      \* the panel's activeJob
  shownScore,    \* the panel's scoreResult
  scoring,       \* the panel's scoring flag
  requests,      \* REQUEST_SCORE in the router
  detected       \* JOB_DETECTED messages so far

scorePanelVars ==
  <<activeJob, cachedScore, jobNotes, shownJob, shownScore, scoring, requests, detected>>

\* A score carries the job it was computed for.  crossed is history: the panel,
\* the storage or both moved to another job before the score had been handled.
Scores  == [of : Job, crossed : BOOLEAN]
NoScore == [of |-> NoJob, crossed |-> FALSE]
Unsent  == [step |-> "none", of |-> NoJob, mine |-> FALSE, crossed |-> FALSE, url |-> NoJob]
NoCache == [url |-> NoJob, score |-> NoScore]

ScoreCaches  == [url : Job, score : Scores] \cup {NoCache}
JobNotes   == [kind : {"change", "mount"}, job : Job \cup {NoJob}, cache : ScoreCaches]
ScoreRequests == [step : {"none", "sent", "scored", "filed"}, of : Job \cup {NoJob},
             mine : BOOLEAN, crossed : BOOLEAN, url : Job \cup {NoJob}]

ScorePanelTypeOK ==
  /\ activeJob \in Job \cup {NoJob}
  /\ cachedScore \in ScoreCaches
  /\ jobNotes \in Seq(JobNotes)
  /\ shownJob \in Job \cup {NoJob}
  /\ shownScore \in Scores \cup {NoScore}
  /\ scoring \in BOOLEAN
  /\ requests \in [Scoring -> ScoreRequests]
  /\ detected \in 0 .. MaxDetected

ScorePanelInit ==
  /\ activeJob = NoJob /\ cachedScore = NoCache
  /\ jobNotes = <<>>
  /\ shownJob = NoJob /\ shownScore = NoScore /\ scoring = FALSE
  /\ requests = [r \in Scoring |-> Unsent]
  /\ detected = 0

Crossing == [r \in Scoring |-> [requests[r] EXCEPT !.crossed = @ \/ requests[r].step # "none"]]
Note(kind) == [kind |-> kind, job |-> activeJob, cache |-> cachedScore]

-----------------------------------------------------------------------------
\* JOB_DETECTED from the content script of any tab; the last one is active.
HandleJobDetected(j) ==
  /\ detected < MaxDetected
  /\ detected' = detected + 1
  /\ activeJob' = j
  /\ IF j = activeJob THEN UNCHANGED <<jobNotes, requests>>
     ELSE /\ jobNotes' = Append(jobNotes, [kind |-> "change", job |-> j, cache |-> NoCache])
          /\ requests' = Crossing
  /\ UNCHANGED <<cachedScore, shownJob, shownScore, scoring>>

\* The panel is opened (again): a new instance, which asks for both keys.  The
\* answers to the former instance are ignored.
MountScorePanel ==
  /\ jobNotes' = <<Note("mount")>>
  /\ shownJob' = NoJob /\ shownScore' = NoScore /\ scoring' = FALSE
  /\ requests' = [r \in Scoring |-> [requests[r] EXCEPT !.mine = FALSE]]
  /\ UNCHANGED <<activeJob, cachedScore, detected>>

\* Mutant: whatever is cached is restored.
RestoreAny ==
  /\ jobNotes # <<>> /\ Head(jobNotes).kind = "mount"
  /\ LET note == Head(jobNotes) IN
       IF note.job = NoJob THEN UNCHANGED <<shownJob, shownScore>>
       ELSE shownJob' = note.job /\ shownScore' = note.cache.score
  /\ jobNotes' = Tail(jobNotes)
  /\ UNCHANGED <<activeJob, cachedScore, scoring, requests, detected>>

\* The answer to the read of the mount: a cached score of this job is restored.
Restore ==
  /\ jobNotes # <<>> /\ Head(jobNotes).kind = "mount"
  /\ LET note == Head(jobNotes) IN
       IF note.job = NoJob THEN UNCHANGED <<shownJob, shownScore>>
       ELSE /\ shownJob' = note.job
            /\ shownScore' = IF note.cache.url = note.job THEN note.cache.score ELSE shownScore
  /\ jobNotes' = Tail(jobNotes)
  /\ UNCHANGED <<activeJob, cachedScore, scoring, requests, detected>>

\* handleStorageChange: another job clears the score; the scoring flag and the
\* request under way stay.
HandleStorageChange ==
  /\ jobNotes # <<>> /\ Head(jobNotes).kind = "change"
  /\ shownJob' = Head(jobNotes).job
  /\ shownScore' = IF shownJob' = shownJob THEN shownScore ELSE NoScore
  /\ requests' = IF shownJob' = shownJob THEN requests ELSE Crossing
  /\ jobNotes' = Tail(jobNotes)
  /\ UNCHANGED <<activeJob, cachedScore, scoring, detected>>

\* Mutant: a second click is not refused.
HandleScoreTwice(r) ==
  /\ shownJob # NoJob
  /\ requests[r] = Unsent
  /\ scoring' = ~scoring /\ shownScore' = NoScore
  /\ requests' = [requests EXCEPT ![r] =
       [step |-> "sent", of |-> shownJob, mine |-> TRUE,
        crossed |-> shownJob # activeJob, url |-> NoJob]]
  /\ UNCHANGED <<activeJob, cachedScore, jobNotes, shownJob, detected>>

\* The button: "Score against my resume" or "Rescore".
HandleScore(r) ==
  /\ shownJob # NoJob /\ ~scoring
  /\ requests[r] = Unsent
  /\ scoring' = TRUE /\ shownScore' = NoScore
  /\ requests' = [requests EXCEPT ![r] =
       [step |-> "sent", of |-> shownJob, mine |-> TRUE,
        crossed |-> shownJob # activeJob, url |-> NoJob]]
  /\ UNCHANGED <<activeJob, cachedScore, jobNotes, shownJob, detected>>

\* The answer of the router, if the panel that asked is still there.
Answered(r, score) ==
  /\ scoring' = IF requests[r].mine THEN FALSE ELSE scoring
  /\ shownScore' = IF requests[r].mine /\ score # NoScore THEN score ELSE shownScore

\* No token, the abort after 30 s, an error of the API, an invalid answer, or
\* the service worker is stopped: { ok: false }, or lastError.
ScoreFails(r) ==
  /\ requests[r].step = "sent"
  /\ Answered(r, NoScore)
  /\ requests' = [requests EXCEPT ![r] = Unsent]
  /\ UNCHANGED <<activeJob, cachedScore, jobNotes, shownJob, detected>>

\* sendResponse({ ok: true, result }).
ScoreArrives(r) ==
  /\ requests[r].step = "sent"
  /\ Answered(r, [of |-> requests[r].of, crossed |-> requests[r].crossed])
  /\ requests' = [requests EXCEPT ![r].step = "scored", ![r].mine = FALSE]
  /\ UNCHANGED <<activeJob, cachedScore, jobNotes, shownJob, detected>>

\* Mutant: the score is filed under the job the panel shows.
ReadShownJob(r) ==
  /\ requests[r].step = "scored"
  /\ requests' = [requests EXCEPT ![r].step = "filed", ![r].url = shownJob]
  /\ UNCHANGED <<activeJob, cachedScore, jobNotes, shownJob, shownScore, scoring, detected>>

\* Then ACTIVE_JOB is read, ...
ReadActiveJob(r) ==
  /\ requests[r].step = "scored"
  /\ requests' = [requests EXCEPT ![r].step = "filed", ![r].url = activeJob]
  /\ UNCHANGED <<activeJob, cachedScore, jobNotes, shownJob, shownScore, scoring, detected>>

\* ... and the score is cached under its URL.
WriteCachedScore(r) ==
  /\ requests[r].step = "filed"
  /\ cachedScore' = [url |-> requests[r].url,
                     score |-> [of |-> requests[r].of, crossed |-> requests[r].crossed]]
  /\ requests' = [requests EXCEPT ![r] = Unsent]
  /\ UNCHANGED <<activeJob, jobNotes, shownJob, shownScore, scoring, detected>>

ScorePanelNext ==
  \/ \E j \in Job : HandleJobDetected(j)
  \/ MountScorePanel \/ Restore \/ HandleStorageChange
  \/ \E r \in Scoring :
       \/ HandleScore(r) \/ ScoreFails(r) \/ ScoreArrives(r)
       \/ ReadActiveJob(r) \/ WriteCachedScore(r)

ScorePanelSpec == ScorePanelInit /\ [][ScorePanelNext]_scorePanelVars

-----------------------------------------------------------------------------
(* Correctness.                                                            *)

\* The jobs the panel has been told of, in order; the last one is active.
Told == IF jobNotes = <<>> THEN shownJob ELSE jobNotes[Len(jobNotes)].job

(***************************************************************************)
(* ScorePanel.tsx:19-25: the score the panel shows, or restores from the   *)
(* cache, is the one of the job it shows, through any remounts, refreshes  *)
(* and navigations before and after; the one exception is a score during   *)
(* whose request the user went to another job.                             *)
(***************************************************************************)
ScoreOfThisJob ==
  /\ shownScore # NoScore => shownScore.of = shownJob \/ shownScore.crossed
  /\ cachedScore # NoCache => cachedScore.score.of = cachedScore.url \/ cachedScore.score.crossed

(***************************************************************************)
(* ScorePanel.tsx:311-345: a panel that says "Scoring..." waits for one    *)
(* request, and one that does not has none: the button is never locked for *)
(* good, and no panel asks (and is charged) twice at once.                 *)
(***************************************************************************)
OneRequestPerPanel ==
  LET mine == {r \in Scoring : requests[r].mine}
  IN (scoring <=> mine # {}) /\ \A r, s \in mine : r = s

\* The inductive strengthening: what is under way satisfies them too, and the
\* panel is told of every job in the end.
ScorePanelInv ==
  /\ ScoreOfThisJob
  /\ OneRequestPerPanel
  /\ Told = activeJob \/ (jobNotes = <<>> /\ shownJob = NoJob)
  /\ activeJob = NoJob => shownJob = NoJob /\ \A i \in 1 .. Len(jobNotes) : jobNotes[i].job = NoJob
  /\ \A r \in Scoring :
       /\ requests[r].mine => requests[r].step = "sent" /\ shownJob # NoJob
       /\ requests[r].step # "none" => requests[r].of # NoJob /\ activeJob # NoJob
       /\ requests[r].mine => requests[r].of = shownJob \/ requests[r].crossed
       /\ requests[r].step \in {"sent", "scored"} =>
            requests[r].of = activeJob \/ requests[r].crossed
       /\ requests[r].step = "filed" =>
            /\ requests[r].url # NoJob
            /\ requests[r].of = requests[r].url \/ requests[r].crossed
  /\ \A i \in 1 .. Len(jobNotes) :
       /\ jobNotes[i].kind = "mount" => i = 1 /\ shownScore = NoScore /\ shownJob = NoJob
       /\ jobNotes[i].kind = "change" => jobNotes[i].job # NoJob
       /\ LET cache == jobNotes[i].cache IN
            cache # NoCache => cache.score.of = cache.url \/ cache.score.crossed

(***************************************************************************)
(* ScorePanel.tsx: every score is that of its job, and asked for once.     *)
(***************************************************************************)
PanelScoresItsJob == ScoreOfThisJob /\ OneRequestPerPanel

=============================================================================
