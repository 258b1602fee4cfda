------------------------------- MODULE ResumePage -------------------------------
(***************************************************************************)
(* The page of a resume version in the browser: an interval asks for the   *)
(* version until its parse has ended, however slow the answers are, so     *)
(* that several requests may be under way and be answered in any order;    *)
(* then the optimized versions that can be exported are listed.  The row   *)
(* is changed by the parse worker (see ParsePipeline), to which no status  *)
(* is final: a job that is delivered again parses a complete resume again, *)
(* and the listener of a failed attempt may come after the one that        *)
(* succeeded.                                                              *)
(***************************************************************************)
EXTENDS Naturals

CONSTANTS
  MaxFetches,   \* bound: requests of the page
  MaxRetries    \* bound: outcomes the worker writes over

ASSUME ResumePageAssumption == MaxFetches \in Nat \ {0} /\ MaxRetries \in Nat

VARIABLES
  parseStatus,   \* of the row
  retried,       \* outcomes written over
  shownStatus,   \* data.parseStatus; "nothing" for null
  pageLoading,   \* loading
  pageError,     \* error is shown
  optionsShown,  \* optimizations has been filled
  interval,      \* pollRef.current is set
  fetches,       \* the requests of fetchData, in the order they were made
  made,          \* how many there are
  reads,         \* history: how many the server has read the row for
  shownRead,     \* history: which of them is shown
  lateAnswer,    \* history: an answer came after the interval was cleared
  backwards,     \* history: an answer replaced a newer one
  reparsed       \* history: the row was complete and the worker wrote something else

resumePageShown == <<shownStatus, pageLoading, pageError>>
resumePageVars == <<parseStatus, retried, resumePageShown, optionsShown, interval, fetches, made,
                    reads, shownRead, lateAnswer, backwards, reparsed>>

ParseStatus == {"uploaded", "parsing", "complete", "failed"}
TERMINAL == {"complete", "failed"}
Fetch == 1 .. MaxFetches
Unasked == [at |-> "none", got |-> "nothing", read |-> 0]

Open == {f \in Fetch : fetches[f].at \notin {"none", "over"}}

ResumePageTypeOK ==
  /\ parseStatus \in ParseStatus /\ retried \in 0 .. MaxRetries
  /\ shownStatus \in ParseStatus \cup {"nothing"}
  /\ pageLoading \in BOOLEAN /\ pageError \in BOOLEAN
  /\ optionsShown \in BOOLEAN /\ interval \in BOOLEAN
  /\ fetches \in [Fetch -> [at : {"none", "asking", "answered", "listing", "over"},
                            got : ParseStatus \cup {"nothing"}, read : 0 .. MaxFetches]]
  /\ made \in 1 .. MaxFetches /\ reads \in 0 .. MaxFetches /\ shownRead \in 0 .. MaxFetches
  /\ lateAnswer \in BOOLEAN /\ backwards \in BOOLEAN /\ reparsed \in BOOLEAN
  /\ shownStatus = "nothing" => pageLoading \/ pageError

\* The effect: a first request, and the interval.
ResumePageInit ==
  /\ parseStatus \in ParseStatus /\ retried = 0
  /\ shownStatus = "nothing" /\ pageLoading = TRUE /\ pageError = FALSE
  /\ optionsShown = FALSE /\ interval = TRUE
  /\ fetches = [f \in Fetch |-> IF f = 1 THEN [Unasked EXCEPT !.at = "asking"] ELSE Unasked]
  /\ made = 1
  /\ reads = 0 /\ shownRead = 0 /\ lateAnswer = FALSE /\ backwards = FALSE
  /\ reparsed = FALSE

\* The worker: process() sets "parsing" and then "complete" whatever was there, and
\* onFailed "failed" when it comes to it, for which nobody waits.
ParseProgresses ==
  /\ \/ parseStatus = "uploaded" /\ parseStatus' \in {"parsing", "failed"} /\ UNCHANGED retried
     \/ parseStatus = "parsing" /\ parseStatus' \in TERMINAL /\ UNCHANGED retried
     \/ /\ parseStatus \in TERMINAL
        /\ parseStatus' \in {"parsing", "complete", "failed"} \ {parseStatus}
        /\ retried < MaxRetries /\ retried' = retried + 1
  /\ reparsed' = (reparsed \/ parseStatus = "complete")
  /\ UNCHANGED <<resumePageShown, optionsShown, interval, fetches, made, reads, shownRead,
                 lateAnswer, backwards>>

\* The interval, whatever is under way.
PollTick ==
  /\ interval /\ made < MaxFetches
  /\ made' = made + 1
  /\ fetches' = [fetches EXCEPT ![made + 1].at = "asking"]
  /\ UNCHANGED <<parseStatus, retried, resumePageShown, optionsShown, interval, reads, shownRead,
                 lateAnswer, backwards, reparsed>>

ServeVersion(f) ==
  /\ fetches[f].at = "asking"
  /\ fetches' = [fetches EXCEPT ![f] = [at |-> "answered", got |-> parseStatus, read |-> reads + 1]]
  /\ reads' = reads + 1
  /\ UNCHANGED <<parseStatus, retried, resumePageShown, optionsShown, interval, made, shownRead,
                 lateAnswer, backwards, reparsed>>

\* Mutant: the interval goes on.
VersionArrivesUnstopped(f) ==
  /\ fetches[f].at = "answered"
  /\ shownStatus' = fetches[f].got /\ pageError' = FALSE /\ pageLoading' = FALSE
  /\ fetches' = [fetches EXCEPT ![f].at = IF fetches[f].got = "complete" THEN "listing" ELSE "over"]
  /\ shownRead' = fetches[f].read
  /\ lateAnswer' = (lateAnswer \/ ~interval)
  /\ backwards' = (backwards \/ fetches[f].read < shownRead)
  /\ UNCHANGED <<parseStatus, retried, optionsShown, interval, made, reads, reparsed>>

\* Mutant: the list is asked for whenever the parse has ended.
VersionArrivesListing(f) ==
  /\ fetches[f].at = "answered"
  /\ shownStatus' = fetches[f].got /\ pageError' = FALSE /\ pageLoading' = FALSE
  /\ interval' = (interval /\ fetches[f].got \notin TERMINAL)
  /\ fetches' = [fetches EXCEPT ![f].at = IF fetches[f].got \in TERMINAL THEN "listing" ELSE "over"]
  /\ shownRead' = fetches[f].read
  /\ lateAnswer' = (lateAnswer \/ ~interval)
  /\ backwards' = (backwards \/ fetches[f].read < shownRead)
  /\ UNCHANGED <<parseStatus, retried, optionsShown, made, reads, reparsed>>

\* Whatever is shown is replaced, an error too; nothing starts the interval again.
VersionArrives(f) ==
  /\ fetches[f].at = "answered"
  /\ shownStatus' = fetches[f].got /\ pageError' = FALSE /\ pageLoading' = FALSE
  /\ interval' = (interval /\ fetches[f].got \notin TERMINAL)
  /\ fetches' = [fetches EXCEPT ![f].at = IF fetches[f].got = "complete" THEN "listing" ELSE "over"]
  /\ shownRead' = fetches[f].read
  /\ lateAnswer' = (lateAnswer \/ ~interval)
  /\ backwards' = (backwards \/ fetches[f].read < shownRead)
  /\ UNCHANGED <<parseStatus, retried, optionsShown, made, reads, reparsed>>

\* Mutant: the failure is not shown.
VersionFailsUnsaid(f) ==
  /\ fetches[f].at \in {"asking", "answered"}
  /\ pageLoading' = FALSE /\ interval' = FALSE
  /\ fetches' = [fetches EXCEPT ![f].at = "over"]
  /\ UNCHANGED <<parseStatus, retried, shownStatus, pageError, optionsShown, made, reads,
                 shownRead, lateAnswer, backwards, reparsed>>

VersionFails(f) ==
  /\ fetches[f].at \in {"asking", "answered"}
  /\ pageError' = TRUE /\ pageLoading' = FALSE /\ interval' = FALSE
  /\ fetches' = [fetches EXCEPT ![f].at = "over"]
  /\ UNCHANGED <<parseStatus, retried, shownStatus, optionsShown, made, reads, shownRead,
                 lateAnswer, backwards, reparsed>>

\* A failed list counts as an empty one.
OptionsArrive(f) ==
  /\ fetches[f].at = "listing"
  /\ optionsShown' \in BOOLEAN
  /\ fetches' = [fetches EXCEPT ![f].at = "over"]
  /\ UNCHANGED <<parseStatus, retried, resumePageShown, interval, made, reads, shownRead,
                 lateAnswer, backwards, reparsed>>

\* What the page shows.
ResumePageShows ==
  CASE pageLoading -> {"spinner"}
    [] ~pageLoading /\ pageError -> {"error"}
    [] ~pageLoading /\ ~pageError ->
         CASE shownStatus = "complete" ->
                {"resume", "original", "export"} \cup (IF optionsShown THEN {"picker"} ELSE {})
           [] shownStatus = "failed"  -> {"analysis failed"}
           [] shownStatus = "nothing" -> {}
           [] OTHER                   -> {"analysing"}

ResumePageNext ==
  \/ ParseProgresses \/ PollTick
  \/ \E f \in Fetch :
       ServeVersion(f) \/ VersionArrives(f) \/ VersionFails(f) \/ OptionsArrive(f)

ResumePageSpec == ResumePageInit /\ [][ResumePageNext]_resumePageVars

-----------------------------------------------------------------------------
(* Correctness.                                                            *)

(***************************************************************************)
(* resume/[id]/page.tsx:143-173: with the interval cleared and nothing     *)
(* under way, the page shows an error or a status that is final, so that a *)
(* spinner never stays; unless an answer came after the interval had been  *)
(* cleared, which shows whatever it brings.                                *)
(***************************************************************************)
SilenceIsFinal ==
  ~interval /\ Open = {} /\ ~lateAnswer =>
    ResumePageShows # {} /\ ResumePageShows \cap {"spinner", "analysing"} = {}

(***************************************************************************)
(* resume/[id]/page.tsx:153-160: while the interval runs, the page does    *)
(* not show a final status or an error: polling ends with either, in       *)
(* whatever order the answers come.                                        *)
(***************************************************************************)
PollingEnds == interval => ~pageError /\ shownStatus \notin TERMINAL

(***************************************************************************)
(* resume/[id]/page.tsx:153-160 and 179-222: versions to export are listed *)
(* only when the parse has been seen complete, and the page goes on saying *)
(* so, unless an older answer came last or the worker did not leave it at  *)
(* that: then "analysing" or "failed" is shown over the listed versions.   *)
(***************************************************************************)
OptionsFollowTheParse ==
  optionsShown /\ ~backwards /\ ~reparsed => ResumePageShows \cap {"picker", "error"} # {}

(***************************************************************************)
(* resume/[id]/page.tsx: polling goes on exactly until there is an end to  *)
(* show, and the page stays with it.                                       *)
(***************************************************************************)
ResumePageSettles == SilenceIsFinal /\ PollingEnds /\ OptionsFollowTheParse

=================================================================================
