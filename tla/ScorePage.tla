------------------------------- MODULE ScorePage -------------------------------
(***************************************************************************)
(* The page of an ATS score in the browser: it polls the score until the   *)
(* scoring has ended, loads the resume and the result of an optimization,  *)
(* lets the user ask for one and polls that.  An answer is read on the     *)
(* server at one moment and reaches the page at a later one.  The row is   *)
(* changed by another tab and by the workers (see ScorePipeline and        *)
(* OptimizePipeline), which may fail and try again, and to which no status *)
(* is final.                                                               *)
(***************************************************************************)
EXTENDS Naturals

CONSTANTS
  MaxRuns,      \* bound: optimizations asked for, and outcomes that workers write over
  MaxFailures   \* bound: calls that fail

ASSUME ScorePageAssumption == MaxRuns \in Nat \ {0} /\ MaxFailures \in Nat

VARIABLES
  dbScore,       \* scoringStatus and optimizationStatus in the database
  pageScore,     \* score
  scoreLoading,  \* loading
  scoreError,    \* error is shown
  optimization,  \* the status in optimization; "nothing" for null
  optLoading,    \* optLoading
  optError,      \* optError is shown
  scorePoll,     \* where pollScore is, and what it has read
  optPolls,      \* where each handleOptimize or pollOptimization is
  mounted,       \* the page is there
  underWay,      \* history: it was left with a call under way
  swallowed,     \* history: a call failed whose error the page ignores
  pollsCrossed,  \* history: answers of two calls for one state may have crossed
  elsewhere,     \* history: another tab asked while this one polled
  overwritten,   \* history: a worker wrote over a complete score, or over an optimization's end
  runs,          \* optimizations asked for and outcomes written over so far
  failures       \* failed calls so far

shownVars == <<pageScore, scoreLoading, scoreError, optimization, optLoading, optError>>
pageHistory == <<mounted, underWay, swallowed, pollsCrossed, elsewhere>>
scorePageVars == <<dbScore, shownVars, scorePoll, optPolls, pageHistory, overwritten, runs,
                  failures>>

OptStatus == {"none", "pending", "optimizing", "complete", "failed"}
ScoreRow == [scoring : {"pending", "scoring", "complete", "failed"}, opt : OptStatus]
NoRow == [scoring |-> "none", opt |-> "none"]
OptRunning == {"pending", "optimizing"}

\* Two calls of pollOptimization can be alive: one waiting for the score, one new.
Poller == 1 .. 2

ScorePageTypeOK ==
  /\ dbScore \in ScoreRow
  /\ pageScore \in ScoreRow \cup {NoRow}
  /\ scoreLoading \in BOOLEAN /\ scoreError \in BOOLEAN
  /\ pageScore = NoRow => scoreLoading \/ scoreError
  /\ optimization \in OptStatus \cup {"nothing"}
  /\ optLoading \in BOOLEAN /\ optError \in BOOLEAN
  /\ scorePoll \in [at : {"asking", "answered", "timer", "resume", "result", "resulted", "over"},
                    got : ScoreRow \cup {NoRow}]
  /\ optPolls \in [Poller -> [at : {"none", "requesting", "requested", "asking", "answered",
                                    "timer", "fresh", "freshened"},
                              got : ScoreRow \cup {NoRow}]]
  /\ mounted \in BOOLEAN /\ underWay \in BOOLEAN
  /\ swallowed \in BOOLEAN /\ pollsCrossed \in BOOLEAN /\ elsewhere \in BOOLEAN
  /\ overwritten \in BOOLEAN
  /\ runs \in 0 .. MaxRuns /\ failures \in 0 .. MaxFailures

Off == [at |-> "none", got |-> NoRow]

ScorePolling == scorePoll.at # "over"
OptimizePolling == \E p \in Poller : optPolls[p].at # "none"

ScorePageInit ==
  /\ dbScore \in {[scoring |-> "pending", opt |-> "none"]}
             \cup [scoring : {"complete"}, opt : OptStatus]
  /\ pageScore = NoRow /\ scoreLoading = TRUE /\ scoreError = FALSE
  /\ optimization = "nothing" /\ optLoading = FALSE /\ optError = FALSE
  /\ scorePoll = [at |-> "asking", got |-> NoRow]
  /\ optPolls = [p \in Poller |-> Off]
  /\ mounted = TRUE /\ underWay = FALSE
  /\ swallowed = FALSE /\ pollsCrossed = FALSE /\ elsewhere = FALSE
  /\ overwritten = FALSE /\ runs = 0 /\ failures = 0

-----------------------------------------------------------------------------
(* The row.                                                                *)

RowBecomes(s, o) == dbScore' = [scoring |-> s, opt |-> o]
OneMoreRun == runs < MaxRuns /\ runs' = runs + 1

\* An attempt sets "scoring" and then "complete" whatever is there, and the listener of a
\* failed one "failed" when it comes to it.
WorkersScore ==
  /\ \E s \in {"scoring", "complete", "failed"} \ {dbScore.scoring} :
       /\ RowBecomes(s, dbScore.opt)
       /\ dbScore.scoring = "pending" => s # "complete"
  /\ IF dbScore.scoring \in {"pending", "scoring"} THEN UNCHANGED runs ELSE OneMoreRun
  /\ overwritten' = (overwritten \/ dbScore.scoring = "complete")
  /\ UNCHANGED <<shownVars, scorePoll, optPolls, pageHistory, failures>>

\* Who has passed the guard, and the listener, may come after an end was written, too.
WorkersOptimize ==
  /\ dbScore.opt # "none"
  /\ \E o \in {"optimizing", "complete", "failed"} \ {dbScore.opt} : RowBecomes(dbScore.scoring, o)
  /\ IF dbScore.opt \in OptRunning THEN UNCHANGED runs ELSE OneMoreRun
  /\ overwritten' = (overwritten \/ dbScore.opt \notin OptRunning)
  /\ UNCHANGED <<shownVars, scorePoll, optPolls, pageHistory, failures>>

\* requestOptimization accepts it.
Accepts == dbScore.scoring = "complete" /\ dbScore.opt \in {"none", "failed"}

OtherTab ==
  /\ Accepts /\ RowBecomes("complete", "pending") /\ OneMoreRun
  /\ elsewhere' = (elsewhere \/ \E p \in Poller : optPolls[p].at # "none")
  /\ UNCHANGED <<shownVars, scorePoll, optPolls, mounted, underWay, swallowed, pollsCrossed,
                 overwritten, failures>>

-----------------------------------------------------------------------------
(* pollScore.                                                              *)

CallFails == failures < MaxFailures /\ failures' = failures + 1

\* The server reads the row.
ServeScore ==
  /\ \/ scorePoll.at = "asking" /\ scorePoll' = [at |-> "answered", got |-> dbScore]
     \/ scorePoll.at = "result" /\ scorePoll' = [at |-> "resulted", got |-> dbScore]
  /\ UNCHANGED <<dbScore, shownVars, optPolls, pageHistory, overwritten, runs, failures>>

ShowScore(data) == pageScore' = data /\ scoreLoading' = FALSE

PollScoreArrives ==
  /\ scorePoll.at = "answered"
  /\ ShowScore(scorePoll.got)
  /\ scorePoll' = [scorePoll EXCEPT !.at =
       CASE scorePoll.got.scoring \in {"pending", "scoring"} -> "timer"
         [] scorePoll.got.scoring = "complete" -> "resume"
         [] OTHER -> "over"]
  /\ UNCHANGED <<dbScore, scoreError, optimization, optLoading, optError, optPolls, pageHistory,
                 overwritten, runs, failures>>

PollScoreFails ==
  /\ scorePoll.at \in {"asking", "answered"}
  /\ CallFails
  /\ scoreError' = TRUE /\ scoreLoading' = FALSE
  /\ scorePoll' = [scorePoll EXCEPT !.at = "over"]
  /\ UNCHANGED <<dbScore, pageScore, optimization, optLoading, optError, optPolls, pageHistory,
                 overwritten, runs>>

\* Three seconds later.
ScoreTimer ==
  /\ scorePoll.at = "timer"
  /\ scorePoll' = [at |-> "asking", got |-> NoRow]
  /\ UNCHANGED <<dbScore, shownVars, optPolls, pageHistory, overwritten, runs, failures>>

StartPoll(at) ==
  \E p \in Poller : optPolls[p].at = "none" /\ optPolls' = [optPolls EXCEPT ![p].at = at]

\* Mutant: a running optimization is shown and not followed.
ResumeArrivesAlone ==
  /\ scorePoll.at = "resume"
  /\ scorePoll' = [scorePoll EXCEPT !.at =
       IF scorePoll.got.opt \in {"complete", "failed"} THEN "result" ELSE "over"]
  /\ UNCHANGED <<dbScore, shownVars, optPolls, pageHistory, overwritten, runs, failures>>

\* The resume is there, or its error was ignored; on with the status that came with
\* the score.
ResumeArrives ==
  /\ scorePoll.at = "resume"
  /\ scorePoll' = [scorePoll EXCEPT !.at =
       IF scorePoll.got.opt \in {"complete", "failed"} THEN "result" ELSE "over"]
  /\ IF scorePoll.got.opt \in OptRunning
       THEN optLoading' = TRUE /\ StartPoll("asking")
       ELSE UNCHANGED <<optLoading, optPolls>>
  /\ UNCHANGED <<dbScore, pageScore, scoreLoading, scoreError, optimization, optError,
                 pageHistory, overwritten, runs, failures>>

\* Its order among the answers of pollOptimization is not looked at.
ResultArrives ==
  /\ scorePoll.at = "resulted"
  /\ optimization' = scorePoll.got.opt
  /\ pollsCrossed' = (pollsCrossed \/ optimization \notin {"nothing", scorePoll.got.opt})
  /\ scorePoll' = [scorePoll EXCEPT !.at = "over"]
  /\ UNCHANGED <<dbScore, pageScore, scoreLoading, scoreError, optLoading, optError, optPolls,
                 mounted, underWay, swallowed, elsewhere, overwritten, runs, failures>>

\* catch(() => null).
ResultFails ==
  /\ scorePoll.at \in {"result", "resulted"}
  /\ CallFails
  /\ optimization' = "nothing" /\ swallowed' = TRUE
  /\ scorePoll' = [scorePoll EXCEPT !.at = "over"]
  /\ UNCHANGED <<dbScore, pageScore, scoreLoading, scoreError, optLoading, optError, optPolls,
                 mounted, underWay, pollsCrossed, elsewhere, overwritten, runs>>

-----------------------------------------------------------------------------
(* handleOptimize and pollOptimization.                                    *)

\* OptimizeControls.
Controls ==
  IF optLoading \/ pageScore.opt \in OptRunning THEN {"rewriting"}
  ELSE CASE pageScore.opt = "complete" -> {"complete", "export"}
         [] pageScore.opt = "failed"   -> {"retry"}
         [] OTHER                      -> {"optimize"}

\* What the page shows; optError appears above the optimization only.
ScorePageShows ==
  IF ~mounted THEN {}
  ELSE (IF scoreError THEN {"error"} ELSE {})
       \cup (IF scoreLoading \/ pageScore.scoring \in {"pending", "scoring"}
               THEN {"analyzing"} ELSE {})
       \cup CASE pageScore.scoring = "failed" -> {"scoring failed"}
              [] pageScore.scoring = "complete" /\ pageScore.opt = "complete" ->
                   {"before and after"} \cup Controls
                   \cup (IF optimization = "complete" THEN {"difference"} ELSE {})
              [] pageScore.scoring = "complete" /\ pageScore.opt # "complete" ->
                   {"baseline"} \cup Controls
                   \cup (IF optError THEN {"optimization error"} ELSE {})
              [] OTHER -> {}

\* Mutant: the button stays.
HandleOptimizeAgain ==
  /\ mounted
  /\ pageScore.scoring = "complete" /\ pageScore.opt \in {"none", "failed"}
  /\ optLoading' = TRUE /\ optError' = FALSE
  /\ pollsCrossed' = (pollsCrossed \/ OptimizePolling)
  /\ StartPoll("requesting")
  /\ UNCHANGED <<dbScore, pageScore, scoreLoading, scoreError, optimization, scorePoll, mounted,
                 underWay, swallowed, elsewhere, overwritten, runs, failures>>

HandleOptimize ==
  /\ {"optimize", "retry"} \cap ScorePageShows # {}
  /\ optLoading' = TRUE /\ optError' = FALSE
  /\ pollsCrossed' = (pollsCrossed \/ OptimizePolling)
  /\ StartPoll("requesting")
  /\ UNCHANGED <<dbScore, pageScore, scoreLoading, scoreError, optimization, scorePoll, mounted,
                 underWay, swallowed, elsewhere, overwritten, runs, failures>>

Goes(p, at) == optPolls' = [optPolls EXCEPT ![p].at = at]
Reads(p, at) == optPolls' = [optPolls EXCEPT ![p] = [at |-> at, got |-> dbScore]]

\* The server: the request is accepted, or a row is read.
ServeOptimize(p) ==
  /\ \/ optPolls[p].at = "requesting" /\ Accepts /\ OneMoreRun
        /\ RowBecomes("complete", "pending") /\ Goes(p, "requested")
     \/ optPolls[p].at = "asking" /\ Reads(p, "answered") /\ UNCHANGED <<dbScore, runs>>
     \/ optPolls[p].at = "fresh" /\ Reads(p, "freshened") /\ UNCHANGED <<dbScore, runs>>
  /\ UNCHANGED <<shownVars, scorePoll, pageHistory, overwritten, failures>>

\* The 202, after which polling starts, and the five seconds between two polls.
PollAgain(p) ==
  /\ optPolls[p].at \in {"requested", "timer"}
  /\ Goes(p, "asking")
  /\ UNCHANGED <<dbScore, shownVars, scorePoll, pageHistory, overwritten, runs, failures>>

\* Mutant: the score is asked for in any case, but the result is not kept.
OptimizationArrivesUnkept(p) ==
  /\ optPolls[p].at = "answered"
  /\ IF optPolls[p].got.opt \in OptRunning
       THEN Goes(p, "timer") /\ UNCHANGED optLoading
       ELSE Goes(p, "fresh") /\ optLoading' = FALSE
  /\ UNCHANGED <<dbScore, pageScore, scoreLoading, scoreError, optimization, optError, scorePoll,
                 pageHistory, overwritten, runs, failures>>

OptimizationArrives(p) ==
  /\ optPolls[p].at = "answered"
  /\ optimization' = optPolls[p].got.opt
  /\ IF optPolls[p].got.opt \in OptRunning
       THEN Goes(p, "timer") /\ UNCHANGED optLoading
       ELSE Goes(p, "fresh") /\ optLoading' = FALSE
  /\ UNCHANGED <<dbScore, pageScore, scoreLoading, scoreError, optError, scorePoll, pageHistory,
                 overwritten, runs, failures>>

\* The request is refused, or a call fails: the polling is over.
OptimizeFails(p) ==
  /\ \/ optPolls[p].at = "requesting" /\ ~Accepts /\ UNCHANGED failures
     \/ optPolls[p].at \in {"requesting", "requested", "asking", "answered"} /\ CallFails
  /\ optError' = TRUE /\ optLoading' = FALSE
  /\ optPolls' = [optPolls EXCEPT ![p] = Off]
  /\ UNCHANGED <<dbScore, pageScore, scoreLoading, scoreError, optimization, scorePoll,
                 pageHistory, overwritten, runs>>

FreshArrives(p) ==
  /\ optPolls[p].at = "freshened"
  /\ pageScore' = optPolls[p].got
  /\ optPolls' = [optPolls EXCEPT ![p] = Off]
  /\ UNCHANGED <<dbScore, scoreLoading, scoreError, optimization, optLoading, optError, scorePoll,
                 pageHistory, overwritten, runs, failures>>

\* Mutant: null is shown.
FreshFailsBlank(p) ==
  /\ optPolls[p].at \in {"fresh", "freshened"}
  /\ CallFails
  /\ pageScore' = NoRow
  /\ swallowed' = TRUE
  /\ optPolls' = [optPolls EXCEPT ![p] = Off]
  /\ UNCHANGED <<dbScore, scoreLoading, scoreError, optimization, optLoading, optError, scorePoll,
                 mounted, underWay, pollsCrossed, elsewhere, overwritten, runs>>

\* The score that was shown stays.
FreshFails(p) ==
  /\ optPolls[p].at \in {"fresh", "freshened"}
  /\ CallFails
  /\ swallowed' = TRUE
  /\ optPolls' = [optPolls EXCEPT ![p] = Off]
  /\ UNCHANGED <<dbScore, shownVars, scorePoll, mounted, underWay, pollsCrossed, elsewhere,
                 overwritten, runs>>

\* Mutant: the score's timer only.
LeavePageHalf ==
  /\ mounted
  /\ mounted' = FALSE
  /\ underWay' = (\/ scorePoll.at \notin {"timer", "over"}
                  \/ \E p \in Poller : optPolls[p].at \notin {"timer", "none"})
  /\ scorePoll' = IF scorePoll.at = "timer" THEN [scorePoll EXCEPT !.at = "over"] ELSE scorePoll
  /\ UNCHANGED <<dbScore, shownVars, optPolls, swallowed, pollsCrossed, elsewhere, overwritten,
                 runs, failures>>

\* The effect's cleanup clears both timers; a call goes on.
LeavePage ==
  /\ mounted
  /\ mounted' = FALSE
  /\ underWay' = (\/ scorePoll.at \notin {"timer", "over"}
                  \/ \E p \in Poller : optPolls[p].at \notin {"timer", "none"})
  /\ scorePoll' = IF scorePoll.at = "timer" THEN [scorePoll EXCEPT !.at = "over"] ELSE scorePoll
  /\ optPolls' = [p \in Poller |-> IF optPolls[p].at = "timer" THEN Off ELSE optPolls[p]]
  /\ UNCHANGED <<dbScore, shownVars, swallowed, pollsCrossed, elsewhere, overwritten, runs,
                 failures>>

ScorePageNext ==
  \/ WorkersScore \/ WorkersOptimize \/ OtherTab
  \/ ServeScore \/ PollScoreArrives \/ PollScoreFails \/ ScoreTimer
  \/ ResumeArrives \/ ResultArrives \/ ResultFails
  \/ HandleOptimize \/ LeavePage
  \/ \E p \in Poller :
       \/ ServeOptimize(p) \/ PollAgain(p) \/ OptimizationArrives(p)
       \/ OptimizeFails(p) \/ FreshArrives(p) \/ FreshFails(p)

ScorePageSpec == ScorePageInit /\ [][ScorePageNext]_scorePageVars

-----------------------------------------------------------------------------
(* Correctness.                                                            *)

(***************************************************************************)
(* page.tsx:625-629 and 681-687: the page never shows "Analyzing" or       *)
(* "Rewriting" while nobody is left to ask: a poll is under way or         *)
(* scheduled, or an error is shown; unless the last call, getScore after   *)
(* an optimization, failed, which is ignored, or came after another tab    *)
(* had asked for the next optimization, or a worker wrote over what had    *)
(* ended.                                                                  *)
(***************************************************************************)
SpinnerHasAPoller ==
  ~swallowed /\ ~pollsCrossed /\ ~elsewhere /\ ~overwritten =>
    /\ "analyzing" \in ScorePageShows => ScorePolling \/ "error" \in ScorePageShows
    /\ "rewriting" \in ScorePageShows =>
         ScorePolling \/ OptimizePolling \/ "optimization error" \in ScorePageShows

(***************************************************************************)
(* page.tsx:563-572 and 616-629: at most one chain of polls follows the    *)
(* optimization, in spite of the button, of pollScore and of the moment    *)
(* when the result is there and the score is not.                          *)
(***************************************************************************)
OneChainOfPolls ==
  \A p, q \in Poller :
    optPolls[p].at \notin {"none", "fresh", "freshened"}
      /\ optPolls[q].at \notin {"none", "fresh", "freshened"} => p = q

(***************************************************************************)
(* page.tsx:574-596 and 630-646: when the page says "Optimization          *)
(* complete" and nothing is under way, it holds the result, so that the    *)
(* export buttons do something; unless its call failed, an older answer    *)
(* arrived last, another tab asked for an optimization meanwhile, or a     *)
(* worker wrote over what had ended.                                       *)
(***************************************************************************)
CompleteHasAResult ==
  /\ "export" \in ScorePageShows /\ ~ScorePolling /\ ~OptimizePolling
  /\ ~swallowed /\ ~pollsCrossed /\ ~elsewhere /\ ~overwritten /\ ~scoreError
  /\ ~optError
  => "difference" \in ScorePageShows

(***************************************************************************)
(* page.tsx:555-561: a page that is left with no call under way leaves no  *)
(* timer behind.                                                           *)
(***************************************************************************)
NothingLeftBehind ==
  ~mounted /\ ~underWay =>
    scorePoll.at # "timer" /\ \A p \in Poller : optPolls[p].at # "timer"

(***************************************************************************)
(* scores/[scoreId]/page.tsx: what the page shows is waited for by one     *)
(* chain of calls, and an end it shows is there.                           *)
(***************************************************************************)
ScorePageIsLive ==
  SpinnerHasAPoller /\ OneChainOfPolls /\ CompleteHasAResult /\ NothingLeftBehind

=============================================================================
