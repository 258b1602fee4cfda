--------------------------------- MODULE JobPage ---------------------------------
(***************************************************************************)
(* The page of one job description: it lists the parsed resumes and the    *)
(* scores once, and asks for a score, which is charged, and to whose page  *)
(* it goes.  Resumes are deleted in other tabs, and parsed by a worker to  *)
(* which a complete one is not final (see ParsePipeline).                  *)
(***************************************************************************)
EXTENDS Naturals, FiniteSets

CONSTANTS
  Candidate,    \* resume versions
  OptionsRead,  \* PAGE_SIZE of listResumes
  MaxSlips      \* bound: requests that fail

ASSUME JobPageAssumption == MaxSlips \in Nat /\ OptionsRead \in Nat /\ "none" \notin Candidate

VARIABLES
  candidates,    \* their parse_status: "parsing" for any but complete
  discarded,     \* those whose deleted_at is set
  undone,        \* history: those that were complete, and then not
  jobPage,       \* loading, read, shown, failed, or left for a score's page
  offered,       \* resumes, the options of the page
  selected,      \* selectedResume; "none" for ''
  asking,        \* scoring
  askError,      \* scoreError is shown
  question,      \* the request of createScore
  scoredFor,     \* the versions of the score rows, one for each
  slips,         \* requests that failed
  unanswered     \* history: of those, the ones that failed after they were done

versionVars == <<candidates, discarded, undone>>
jobPageVars == <<versionVars, jobPage, offered, selected, asking, askError, question, scoredFor,
                 slips, unanswered>>

NoQuestion == [at |-> "none", resume |-> "none"]

JobPageTypeOK ==
  /\ candidates \in [Candidate -> {"parsing", "complete"}]
  /\ discarded \subseteq Candidate /\ undone \subseteq Candidate
  /\ jobPage \in {"loading", "read", "shown", "failed", "left"}
  /\ offered \subseteq Candidate /\ selected \in Candidate \cup {"none"}
  /\ asking \in BOOLEAN /\ askError \in BOOLEAN
  /\ question \in [at : {"none", "sent", "done", "refused"}, resume : Candidate \cup {"none"}]
  /\ scoredFor \in [Candidate -> 0 .. MaxSlips + 1]
  /\ slips \in 0 .. MaxSlips /\ unanswered \in 0 .. MaxSlips
  /\ asking <=> question.at # "none" \/ jobPage = "left"
  /\ selected = "none" <=> offered = {} \/ jobPage \in {"loading", "read", "failed"}

JobPageInit ==
  /\ candidates \in [Candidate -> {"parsing", "complete"}] /\ discarded = {} /\ undone = {}
  /\ jobPage = "loading" /\ offered = {} /\ selected = "none"
  /\ asking = FALSE /\ askError = FALSE /\ question = NoQuestion
  /\ scoredFor = [c \in Candidate |-> 0]
  /\ slips = 0 /\ unanswered = 0

Slip == slips < MaxSlips /\ slips' = slips + 1

\* The worker: process() sets "parsing" and then "complete" whatever is there, and onFailed
\* "failed"; and the other tab, for a deletion leaves the status.
CandidateChanges(c) ==
  /\ \/ candidates[c] = "parsing" /\ candidates' = [candidates EXCEPT ![c] = "complete"]
        /\ UNCHANGED <<discarded, undone>>
     \/ candidates[c] = "complete" /\ candidates' = [candidates EXCEPT ![c] = "parsing"]
        /\ undone' = undone \cup {c} /\ UNCHANGED discarded
     \/ discarded' = discarded \cup {c} /\ UNCHANGED <<candidates, undone>>
  /\ UNCHANGED <<jobPage, offered, selected, asking, askError, question, scoredFor, slips,
                 unanswered>>

\* The newest versions, whichever they are: listResumes answers one page, and no more is asked.
IsFirstPage(vs) ==
  LET kept == Candidate \ discarded
  IN  /\ vs \subseteq kept
      /\ \/ vs = kept /\ Cardinality(kept) <= OptionsRead
         \/ Cardinality(vs) = OptionsRead

\* Mutant: what is not parsed is offered as well.
LoadJobAll ==
  /\ \/ /\ jobPage = "loading" /\ jobPage' = "read"
        /\ \E vs \in SUBSET Candidate : IsFirstPage(vs) /\ offered' = vs
        /\ UNCHANGED <<selected, slips>>
     \/ /\ jobPage = "read" /\ jobPage' = "shown"
        /\ selected' \in IF offered = {} THEN {"none"} ELSE offered
        /\ UNCHANGED <<offered, slips>>
  /\ UNCHANGED <<versionVars, asking, askError, question, scoredFor, unanswered>>

\* load: three requests together; the parsed resumes, of which the first is selected.
LoadJob ==
  /\ \/ /\ jobPage = "loading" /\ jobPage' = "read"
        /\ \E vs \in SUBSET Candidate :
             IsFirstPage(vs) /\ offered' = {c \in vs : candidates[c] = "complete"}
        /\ UNCHANGED <<selected, slips>>
     \/ /\ jobPage = "read" /\ jobPage' = "shown"
        /\ selected' \in IF offered = {} THEN {"none"} ELSE offered
        /\ UNCHANGED <<offered, slips>>
     \/ /\ jobPage \in {"loading", "read"} /\ jobPage' = "failed" /\ Slip
        /\ offered' = {} /\ UNCHANGED selected
  /\ UNCHANGED <<versionVars, asking, askError, question, scoredFor, unanswered>>

\* What the section "Run ATS score" offers.
RunScoreOffers ==
  IF jobPage # "shown" THEN {}
  ELSE IF offered = {} THEN {"upload a resume"}
  ELSE {"select"} \cup (IF asking \/ selected = "none" THEN {} ELSE {"run"})

SelectResume(c) ==
  /\ "select" \in RunScoreOffers /\ c \in offered
  /\ selected' = c
  /\ UNCHANGED <<versionVars, jobPage, offered, asking, askError, question, scoredFor, slips,
                 unanswered>>

HandleRunScore ==
  /\ "run" \in RunScoreOffers
  /\ asking' = TRUE /\ askError' = FALSE
  /\ question' = [at |-> "sent", resume |-> selected]
  /\ UNCHANGED <<versionVars, jobPage, offered, selected, scoredFor, slips, unanswered>>

\* createScore looks at the parse status, and not at deleted_at.
ServeRunScore ==
  /\ question.at = "sent"
  /\ IF candidates[question.resume] = "parsing"
       THEN question' = [question EXCEPT !.at = "refused"] /\ UNCHANGED scoredFor
       ELSE /\ question' = [question EXCEPT !.at = "done"]
            /\ scoredFor' = [scoredFor EXCEPT ![question.resume] = @ + 1]
  /\ UNCHANGED <<versionVars, jobPage, offered, selected, asking, askError, slips, unanswered>>

\* Mutant: the button is enabled again before the page has changed.
RunScoreArrivesEnabled ==
  /\ question.at = "done"
  /\ asking' = FALSE
  /\ question' = NoQuestion
  /\ UNCHANGED <<versionVars, jobPage, offered, selected, askError, scoredFor, slips,
                 unanswered>>

\* router.push: the page is left, with the button disabled.
RunScoreArrives ==
  /\ question.at = "done"
  /\ jobPage' = "left"
  /\ question' = NoQuestion
  /\ UNCHANGED <<versionVars, offered, selected, asking, askError, scoredFor, slips,
                 unanswered>>

RunScoreFails ==
  /\ \/ question.at = "refused" /\ UNCHANGED <<slips, unanswered>>
     \/ /\ question.at \in {"sent", "done"} /\ Slip
        /\ unanswered' = IF question.at = "done" THEN unanswered + 1 ELSE unanswered
  /\ asking' = FALSE /\ askError' = TRUE /\ question' = NoQuestion
  /\ UNCHANGED <<versionVars, jobPage, offered, selected, scoredFor>>

JobPageNext ==
  \/ \E c \in Candidate : CandidateChanges(c) \/ SelectResume(c)
  \/ LoadJob \/ HandleRunScore \/ ServeRunScore \/ RunScoreArrives \/ RunScoreFails

JobPageSpec == JobPageInit /\ [][JobPageNext]_jobPageVars

-----------------------------------------------------------------------------
(* Correctness.                                                            *)

(***************************************************************************)
(* jobs/[id]/page.tsx:72-84: a visit is charged for one score, besides     *)
(* those whose answer was lost and which the user had to ask for again.    *)
(***************************************************************************)
OneScoreAVisit ==
  \A c, d \in Candidate :
    LET total == IF c = d THEN scoredFor[c] ELSE scoredFor[c] + scoredFor[d]
    IN  total <= 1 + unanswered

(***************************************************************************)
(* jobs/[id]/page.tsx:57-60 and ats-score.service.ts:62-81: no request is  *)
(* refused because its resume is not parsed, deleted or not, for what is   *)
(* offered is parsed and stays so; unless the worker takes it up again.    *)
(***************************************************************************)
OffersWhatIsParsed ==
  /\ question.at = "refused" => question.resume \in undone
  /\ \A c \in offered \ undone : candidates[c] = "complete"

(***************************************************************************)
(* jobs/[id]/page.tsx: both.                                               *)
(***************************************************************************)
JobPageAgrees == OneScoreAVisit /\ OffersWhatIsParsed
==================================================================================
