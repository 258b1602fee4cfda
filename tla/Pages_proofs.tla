----------------------------- MODULE Pages_proofs -----------------------------
(* Theorems about three pages of the web application, each for every value  *)
(* of its constants: the page of a resume, the page of a score and the      *)
(* tracker of applications.                                                 *)
EXTENDS ResumePage, ScorePage, ApplicationsPage, FiniteSetTheorems, TLAPS

-------------------------------------------------------------------------------
(* ResumePage: the page of one resume.                                       *)

(***************************************************************************)
(* What was read of the row is in the order of the reads: once complete,   *)
(* the row stays so until the worker writes over it.  The page shows what one of the reads brought, and    *)
(* the list is asked for after a read that was shown by then.              *)
(***************************************************************************)
HasRead == {f \in Fetch : fetches[f].read # 0}

ReadsAreCounted ==
  /\ reads = Cardinality(HasRead)
  /\ \A f \in Fetch : fetches[f].read <= reads
  /\ \A f \in Fetch : f > made => fetches[f].at = "none"
  /\ \A f \in Fetch : fetches[f].at \in {"none", "asking"} => fetches[f].read = 0
  /\ \A f \in Fetch : fetches[f].at \in {"answered", "listing"} => fetches[f].read # 0
  /\ \A f \in HasRead : fetches[f].got \in ParseStatus

CompleteIsKept == ~reparsed =>
  /\ \A f \in HasRead : fetches[f].got = "complete" => parseStatus = "complete"
  /\ \A f, g \in HasRead :
       fetches[f].got = "complete" /\ fetches[f].read <= fetches[g].read => fetches[g].got = "complete"

ShownWasRead ==
  shownRead # 0 =>
    ~pageLoading /\ \E f \in HasRead : fetches[f].read = shownRead /\ fetches[f].got = shownStatus

ListedWasShown ==
  /\ \A f \in Fetch : fetches[f].at = "listing" =>
       fetches[f].got = "complete" /\ (~backwards => fetches[f].read <= shownRead)
  /\ optionsShown /\ ~backwards /\ ~reparsed => shownRead # 0 /\ shownStatus = "complete"

SilenceHasAnEnd ==
  ~interval /\ ~lateAnswer => ~pageLoading /\ (pageError \/ shownStatus \in TERMINAL)

ResumePageInv ==
  /\ ResumePageTypeOK /\ ReadsAreCounted /\ CompleteIsKept /\ ShownWasRead /\ ListedWasShown
  /\ SilenceHasAnEnd /\ PollingEnds

\* The requests, one of which a step changes.
FetchRecord == [at : {"none", "asking", "answered", "listing", "over"},
                got : ParseStatus \cup {"nothing"}, read : 0 .. MaxFetches]

Becomes(f, at, got, read) ==
  /\ fetches'[f].at = at /\ fetches'[f].got = got /\ fetches'[f].read = read
  /\ \A g \in Fetch \ {f} : fetches'[g] = fetches[g]

\* A fetch goes on and keeps what it has read.
LEMMA FetchGoesOn ==
  ASSUME fetches \in [Fetch -> FetchRecord], NEW f \in Fetch, 
         NEW at \in {"none", "asking", "answered", "listing", "over"},
         fetches' = [fetches EXCEPT ![f].at = at]
  PROVE  fetches' \in [Fetch -> FetchRecord] /\ Becomes(f, at, fetches[f].got, fetches[f].read)
<1>1. fetches'[f] = [fetches[f] EXCEPT !.at = at] /\ \A g \in Fetch \ {f} : fetches'[g] = fetches[g]
  OBVIOUS
<1>2. fetches[f] \in FetchRecord
  OBVIOUS
<1>3. /\ [fetches[f] EXCEPT !.at = at] \in FetchRecord
      /\ fetches'[f].at = at /\ fetches'[f].got = fetches[f].got /\ fetches'[f].read = fetches[f].read
  BY <1>1, <1>2 DEF FetchRecord
<1>4. QED
  BY <1>1, <1>3 DEF Becomes

\* A fetch that keeps what it has read leaves the reads as they are.
LEMMA ReadsStay ==
  ASSUME ResumePageInv, NEW f \in Fetch, NEW at \in {"asking", "listing", "over"},
         Becomes(f, at, fetches[f].got, fetches[f].read), UNCHANGED <<parseStatus, reads, reparsed>>,
         \/ at # "asking" /\ fetches[f].at # "none" /\ made' = made
         \/ at = "asking" /\ fetches[f].at = "none" /\ made' = made + 1 /\ f = made',
         made \in Nat, at = "listing" => fetches[f].at = "answered"
  PROVE  ReadsAreCounted' /\ CompleteIsKept' /\ HasRead' = HasRead
         /\ \A g \in Fetch : fetches'[g].read = fetches[g].read /\ fetches'[g].got = fetches[g].got
<1>1. \A g \in Fetch : fetches'[g].read = fetches[g].read /\ fetches'[g].got = fetches[g].got
  BY DEF Becomes
<1>2. HasRead' = HasRead
  BY <1>1 DEF HasRead
<1>3. \A g \in Fetch : g # f => fetches'[g].at = fetches[g].at
  BY DEF Becomes
<1>7. fetches'[f].at = at
  BY DEF Becomes
<1>4. ReadsAreCounted'
  <2>1. reads' = Cardinality(HasRead')
    BY <1>2 DEF ResumePageInv, ReadsAreCounted
  <2>2. \A g \in Fetch : fetches'[g].read <= reads'
    BY <1>1 DEF ResumePageInv, ReadsAreCounted
  <2>7. \A g \in Fetch : g > made' => fetches'[g].at = "none"
    BY <1>3, <1>7 DEF ResumePageInv, ReadsAreCounted, Fetch
  <2>3. \A g \in HasRead' : fetches'[g].got \in ParseStatus
    BY <1>1, <1>2 DEF ResumePageInv, ReadsAreCounted, HasRead
  <2>4. \A g \in Fetch : fetches'[g].at \in {"none", "asking"} => fetches'[g].read = 0
    BY <1>1, <1>3, <1>7 DEF ResumePageInv, ReadsAreCounted
  <2>5. \A g \in Fetch : fetches'[g].at \in {"answered", "listing"} => fetches'[g].read # 0
    BY <1>1, <1>3, <1>7 DEF ResumePageInv, ReadsAreCounted
  <2>6. QED
    BY <2>1, <2>2, <2>3, <2>4, <2>5, <2>7 DEF ReadsAreCounted
<1>5. CompleteIsKept'
  <2>1. \A g \in HasRead : g \in Fetch
    BY DEF HasRead
  <2>2. QED
    BY <1>1, <1>2, <2>1 DEF ResumePageInv, CompleteIsKept
<1>6. QED
  BY <1>1, <1>2, <1>4, <1>5

\* ResumePageInv is inductive, action by action.
LEMMA ResumePageInductive ==
  ASSUME ResumePageInv, [ResumePageNext]_resumePageVars
  PROVE  ResumePageInv'
<1> USE ResumePageAssumption
<1>1. /\ fetches \in [Fetch -> FetchRecord] /\ made \in 1 .. MaxFetches /\ retried \in 0 .. MaxRetries
      /\ reads \in 0 .. MaxFetches /\ shownRead \in 0 .. MaxFetches /\ parseStatus \in ParseStatus
      /\ shownStatus \in ParseStatus \cup {"nothing"}
  BY DEF ResumePageInv, ResumePageTypeOK, FetchRecord
<1>2. /\ pageLoading \in BOOLEAN /\ pageError \in BOOLEAN /\ optionsShown \in BOOLEAN
      /\ interval \in BOOLEAN /\ lateAnswer \in BOOLEAN /\ backwards \in BOOLEAN
      /\ reparsed \in BOOLEAN
  BY DEF ResumePageInv, ResumePageTypeOK
<1>3. CASE UNCHANGED resumePageVars
  <2>1. /\ UNCHANGED <<parseStatus, retried, shownStatus, pageLoading, pageError, optionsShown>>
        /\ UNCHANGED <<interval, fetches, made, reads, shownRead, lateAnswer, backwards, reparsed>>
    BY <1>3 DEF resumePageVars, resumePageShown
  <2>2. ResumePageTypeOK' /\ ReadsAreCounted'
    BY <2>1 DEF ResumePageInv, ResumePageTypeOK, ReadsAreCounted, HasRead
  <2>3. CompleteIsKept' /\ ShownWasRead' /\ ListedWasShown'
    BY <2>1 DEF ResumePageInv, CompleteIsKept, HasRead, ShownWasRead, ListedWasShown
  <2>4. SilenceHasAnEnd' /\ PollingEnds'
    BY <2>1 DEF ResumePageInv, SilenceHasAnEnd, PollingEnds
  <2>5. QED
    BY <2>2, <2>3, <2>4 DEF ResumePageInv
<1>4. CASE ParseProgresses
  <2>1. /\ UNCHANGED <<shownStatus, pageLoading, pageError, optionsShown>>
        /\ UNCHANGED <<interval, fetches, made, reads, shownRead, lateAnswer, backwards>>
    BY <1>4 DEF ParseProgresses, resumePageShown
  <2>0. reparsed' = (reparsed \/ parseStatus = "complete")
    BY <1>4 DEF ParseProgresses
  <2>9. ~reparsed' => ~reparsed /\ parseStatus # "complete"
    BY <2>0, Zenon
  <2>2. /\ parseStatus' \in ParseStatus /\ retried' \in 0 .. MaxRetries /\ reparsed' \in BOOLEAN
    BY <1>1, <1>4 DEF ParseProgresses, ParseStatus, TERMINAL
  <2>3. ResumePageTypeOK'
    BY <2>1, <2>2 DEF ResumePageInv, ResumePageTypeOK
  <2>4. ReadsAreCounted'
    BY <2>1 DEF ResumePageInv, ReadsAreCounted, HasRead
  <2>5. CompleteIsKept'
    BY <2>1, <2>9 DEF ResumePageInv, CompleteIsKept, HasRead
  <2>6. ShownWasRead' /\ ListedWasShown'
    BY <2>1, <2>9 DEF ResumePageInv, HasRead, ShownWasRead, ListedWasShown
  <2>7. SilenceHasAnEnd' /\ PollingEnds'
    BY <2>1 DEF ResumePageInv, SilenceHasAnEnd, PollingEnds
  <2>8. QED
    BY <2>3, <2>4, <2>5, <2>6, <2>7 DEF ResumePageInv
<1>5. CASE PollTick
  <2>0. made + 1 \in Fetch
    BY <1>1, <1>5 DEF PollTick, Fetch
  <2>1. PICK f \in Fetch : f = made + 1 /\ fetches' = [fetches EXCEPT ![f].at = "asking"]
    BY <1>5, <2>0, Zenon DEF PollTick
  <2>2. /\ UNCHANGED <<parseStatus, retried, shownStatus, pageLoading, pageError, optionsShown>>
        /\ UNCHANGED <<interval, reads, shownRead, lateAnswer, backwards, reparsed>>
        /\ made' = made + 1 /\ made + 1 \in 1 .. MaxFetches
    BY <1>1, <1>5 DEF PollTick, resumePageShown
  <2>3. fetches' \in [Fetch -> FetchRecord] /\ Becomes(f, "asking", fetches[f].got, fetches[f].read)
    BY <1>1, <2>1, FetchGoesOn
  <2>4. fetches[f].at = "none"
    BY <1>1, <2>1 DEF ResumePageInv, ReadsAreCounted
  <2>5. /\ ReadsAreCounted' /\ CompleteIsKept' /\ HasRead' = HasRead
        /\ \A g \in Fetch : fetches'[g].read = fetches[g].read /\ fetches'[g].got = fetches[g].got
    BY <1>1, <2>1, <2>2, <2>3, <2>4, ReadsStay
  <2>6. ResumePageTypeOK'
    BY <2>2, <2>3 DEF ResumePageInv, ResumePageTypeOK, FetchRecord
  <2>7. ShownWasRead'
    BY <2>2, <2>5 DEF ResumePageInv, ShownWasRead, HasRead
  <2>8. ListedWasShown'
    BY <2>2, <2>3, <2>5 DEF ResumePageInv, ListedWasShown, Becomes
  <2>9. SilenceHasAnEnd' /\ PollingEnds'
    BY <2>2 DEF ResumePageInv, SilenceHasAnEnd, PollingEnds
  <2>10. QED
    BY <2>5, <2>6, <2>7, <2>8, <2>9 DEF ResumePageInv
<1>6. ASSUME NEW f \in Fetch, ServeVersion(f) PROVE ResumePageInv'
  <2> DEFINE answer == [at |-> "answered", got |-> parseStatus, read |-> reads + 1]
  <2>1. /\ UNCHANGED <<parseStatus, retried, shownStatus, pageLoading, pageError, optionsShown>>
        /\ UNCHANGED <<interval, made, shownRead, lateAnswer, backwards, reparsed>>
        /\ reads' = reads + 1 /\ fetches' = [fetches EXCEPT ![f] = answer]
        /\ fetches[f].at = "asking"
    BY <1>6 DEF ServeVersion, resumePageShown
  <2>2. fetches[f].read = 0 /\ f \notin HasRead /\ f <= made
    BY <1>1, <2>1 DEF ResumePageInv, ReadsAreCounted, HasRead, Fetch
  <2>3. HasRead' = HasRead \cup {f}
    BY <1>1, <2>1 DEF HasRead
  <2>4. IsFiniteSet(HasRead) /\ IsFiniteSet(HasRead') /\ Cardinality(HasRead') \in 0 .. MaxFetches
    <3>1. IsFiniteSet(Fetch) /\ Cardinality(Fetch) = MaxFetches
      BY FS_Interval DEF Fetch
    <3>2. HasRead \subseteq Fetch /\ HasRead' \subseteq Fetch
      BY <2>3 DEF HasRead
    <3>3. /\ IsFiniteSet(HasRead) /\ IsFiniteSet(HasRead')
          /\ Cardinality(HasRead') <= Cardinality(Fetch)
      BY <3>1, <3>2, FS_Subset
    <3>4. Cardinality(HasRead') \in Nat
      BY <3>3, FS_CardinalityType
    <3>5. QED
      BY <3>1, <3>3, <3>4
  <2>5. reads' = Cardinality(HasRead') /\ reads' \in 0 .. MaxFetches
    BY <2>1, <2>2, <2>3, <2>4, FS_AddElement DEF ResumePageInv, ReadsAreCounted
  <2>6. /\ fetches'[f].at = "answered" /\ fetches'[f].got = parseStatus /\ fetches'[f].read = reads'
        /\ \A g \in Fetch \ {f} : fetches'[g] = fetches[g]
    BY <1>1, <2>1
  <2>7. answer \in FetchRecord
    BY <1>1, <2>1, <2>5 DEF FetchRecord
  <2> HIDE DEF answer
  <2>8. fetches' \in [Fetch -> FetchRecord]
    BY <1>1, <2>1, <2>7
  <2>9. ResumePageTypeOK'
    BY <2>1, <2>5, <2>8 DEF ResumePageInv, ResumePageTypeOK, FetchRecord
  <2>10. \A g \in HasRead : g \in Fetch \ {f} /\ fetches'[g] = fetches[g]
    BY <2>2, <2>6 DEF HasRead
  <2>11. ReadsAreCounted'
    <3>1. \A g \in Fetch : fetches'[g].read <= reads'
      BY <1>1, <2>1, <2>6 DEF ResumePageInv, ReadsAreCounted, FetchRecord
    <3>2. \A g \in Fetch : g > made' => fetches'[g].at = "none"
      BY <1>1, <2>1, <2>2, <2>6 DEF ResumePageInv, ReadsAreCounted, Fetch
    <3>3. \A g \in Fetch : fetches'[g].at \in {"none", "asking"} => fetches'[g].read = 0
      BY <2>6 DEF ResumePageInv, ReadsAreCounted
    <3>4. \A g \in Fetch : fetches'[g].at \in {"answered", "listing"} => fetches'[g].read # 0
      BY <1>1, <2>1, <2>6 DEF ResumePageInv, ReadsAreCounted
    <3>5. \A g \in HasRead' : fetches'[g].got \in ParseStatus
      BY <1>1, <2>3, <2>6, <2>10 DEF ResumePageInv, ReadsAreCounted
    <3>6. QED
      BY <2>5, <3>1, <3>2, <3>3, <3>4, <3>5 DEF ReadsAreCounted
  <2>12. CompleteIsKept'
    <3> SUFFICES ASSUME ~reparsed
                 PROVE  /\ \A g \in HasRead' :
                             fetches'[g].got = "complete" => parseStatus' = "complete"
                        /\ \A g, h \in HasRead' :
                             fetches'[g].got = "complete" /\ fetches'[g].read <= fetches'[h].read =>
                               fetches'[h].got = "complete"
      BY <2>1 DEF CompleteIsKept
    <3>1. \A g \in HasRead' : fetches'[g].got = "complete" => parseStatus' = "complete"
      BY <2>1, <2>3, <2>6, <2>10 DEF ResumePageInv, CompleteIsKept
    <3>2. ASSUME NEW g \in HasRead', NEW h \in HasRead', fetches'[g].got = "complete",
                 fetches'[g].read <= fetches'[h].read
          PROVE  fetches'[h].got = "complete"
      <4>1. CASE h = f
        BY <2>1, <2>6, <3>1, <3>2, <4>1
      <4>2. CASE h # f /\ g # f
        BY <2>3, <2>10, <3>2, <4>2 DEF ResumePageInv, CompleteIsKept
      <4>3. CASE h # f /\ g = f
        <5>1. h \in HasRead /\ fetches[h].read <= reads /\ fetches'[h] = fetches[h]
              /\ h \in Fetch
          BY <2>3, <2>10, <3>2, <4>3 DEF ResumePageInv, ReadsAreCounted
        <5>2. fetches[h].read \in Nat
          BY <1>1, <5>1 DEF FetchRecord
        <5>3. FALSE
          BY <1>1, <2>1, <2>6, <3>2, <4>3, <5>1, <5>2
        <5>4. QED
          BY <5>3
      <4>4. QED
        BY <4>1, <4>2, <4>3
    <3>3. QED
      BY <3>1, <3>2
  <2>13. ShownWasRead'
    BY <2>1, <2>3, <2>10 DEF ResumePageInv, ShownWasRead
  <2>14. ListedWasShown'
    BY <2>1, <2>6 DEF ResumePageInv, ListedWasShown
  <2>15. SilenceHasAnEnd' /\ PollingEnds'
    BY <2>1 DEF ResumePageInv, SilenceHasAnEnd, PollingEnds
  <2>16. QED
    BY <2>9, <2>11, <2>12, <2>13, <2>14, <2>15 DEF ResumePageInv
<1>7. ASSUME NEW f \in Fetch, VersionArrives(f) PROVE ResumePageInv'
  <2>1. PICK at \in {"listing", "over"} : at = IF fetches[f].got = "complete" THEN "listing" ELSE "over"
    OBVIOUS
  <2>2. /\ UNCHANGED <<parseStatus, retried, optionsShown, made, reads, reparsed>>
        /\ fetches[f].at = "answered" /\ fetches' = [fetches EXCEPT ![f].at = at]
        /\ shownStatus' = fetches[f].got /\ pageError' = FALSE /\ pageLoading' = FALSE
        /\ shownRead' = fetches[f].read
    BY <1>7, <2>1 DEF VersionArrives
  <2>3. /\ interval' = (interval /\ fetches[f].got \notin TERMINAL)
        /\ lateAnswer' = (lateAnswer \/ ~interval)
        /\ backwards' = (backwards \/ fetches[f].read < shownRead)
    BY <1>7, Zenon DEF VersionArrives
  <2>4. fetches' \in [Fetch -> FetchRecord] /\ Becomes(f, at, fetches[f].got, fetches[f].read)
    BY <1>1, <2>2, FetchGoesOn
  <2>5. /\ ReadsAreCounted' /\ CompleteIsKept' /\ HasRead' = HasRead
        /\ \A g \in Fetch : fetches'[g].read = fetches[g].read /\ fetches'[g].got = fetches[g].got
    BY <1>1, <2>2, <2>4, ReadsStay
  <2>6. /\ fetches[f].read \in 0 .. MaxFetches /\ fetches[f].read # 0
        /\ f \in HasRead /\ fetches[f].got \in ParseStatus
    BY <1>1, <2>2 DEF ResumePageInv, ReadsAreCounted, FetchRecord, HasRead
  <2>7. ResumePageTypeOK'
    <3>1. interval' \in BOOLEAN /\ lateAnswer' \in BOOLEAN /\ backwards' \in BOOLEAN
      BY <2>3
    <3>2. shownStatus' # "nothing"
      BY <2>2, <2>6 DEF ParseStatus
    <3>3. QED
      BY <1>1, <1>2, <2>2, <2>4, <2>6, <3>1, <3>2 DEF ResumePageTypeOK, FetchRecord
  <2>8. ShownWasRead'
    BY <2>2, <2>5, <2>6 DEF ShownWasRead
  <2>9. ASSUME ~backwards' PROVE ~backwards /\ shownRead <= fetches[f].read
    <3>1. ~backwards /\ ~(fetches[f].read < shownRead)
      BY <2>3, <2>9, Zenon
    <3>2. QED
      BY <1>1, <2>6, <3>1
  <2>10. ASSUME NEW g \in Fetch, fetches'[g].at = "listing"
         PROVE  fetches'[g].got = "complete" /\ (~backwards' => fetches'[g].read <= shownRead')
    <3>1. CASE g = f
      BY <1>1, <2>1, <2>2, <2>4, <2>5, <2>6, <2>10, <3>1 DEF Becomes
    <3>2. CASE g # f
      <4>1. fetches'[g] = fetches[g] /\ fetches[g].read \in Nat
        BY <1>1, <2>4, <3>2 DEF Becomes, FetchRecord
      <4>2. fetches[g].got = "complete" /\ (~backwards => fetches[g].read <= shownRead)
        BY <2>10, <4>1 DEF ResumePageInv, ListedWasShown
      <4>3. QED
        BY <1>1, <2>2, <2>6, <2>9, <4>1, <4>2
    <3>3. QED
      BY <3>1, <3>2
  <2>11. ASSUME optionsShown', ~backwards', ~reparsed' PROVE shownRead' # 0 /\ shownStatus' = "complete"
    <3>1. shownRead # 0 /\ shownStatus = "complete" /\ shownRead <= fetches[f].read
      BY <2>2, <2>9, <2>11 DEF ResumePageInv, ListedWasShown
    <3>2. PICK g \in HasRead : fetches[g].read = shownRead /\ fetches[g].got = shownStatus
      BY <3>1 DEF ResumePageInv, ShownWasRead
    <3>3. fetches[f].got = "complete"
      BY <2>2, <2>6, <2>11, <3>1, <3>2 DEF ResumePageInv, CompleteIsKept
    <3>4. QED
      BY <2>2, <2>6, <3>3
  <2>12. ListedWasShown'
    BY <2>10, <2>11 DEF ListedWasShown
  <2>13. SilenceHasAnEnd'
    BY <2>2, <2>3 DEF SilenceHasAnEnd
  <2>14. PollingEnds'
    BY <2>2, <2>3 DEF PollingEnds
  <2>15. QED
    BY <2>5, <2>7, <2>8, <2>12, <2>13, <2>14 DEF ResumePageInv
<1>8. ASSUME NEW f \in Fetch, VersionFails(f) PROVE ResumePageInv'
  <2>1. /\ UNCHANGED <<parseStatus, retried, shownStatus, optionsShown, made, reads, shownRead>>
        /\ UNCHANGED <<lateAnswer, backwards, reparsed>>
        /\ pageError' = TRUE /\ pageLoading' = FALSE /\ interval' = FALSE
        /\ fetches[f].at # "none" /\ fetches' = [fetches EXCEPT ![f].at = "over"]
    BY <1>8 DEF VersionFails
  <2>2. fetches' \in [Fetch -> FetchRecord] /\ Becomes(f, "over", fetches[f].got, fetches[f].read)
    BY <1>1, <2>1, FetchGoesOn
  <2>3. /\ ReadsAreCounted' /\ CompleteIsKept' /\ HasRead' = HasRead
        /\ \A g \in Fetch : fetches'[g].read = fetches[g].read /\ fetches'[g].got = fetches[g].got
    BY <1>1, <2>1, <2>2, ReadsStay
  <2>4. ResumePageTypeOK'
    BY <1>1, <1>2, <2>1, <2>2 DEF ResumePageTypeOK, FetchRecord
  <2>5. ShownWasRead'
    BY <2>1, <2>3 DEF ResumePageInv, ShownWasRead, HasRead
  <2>6. ListedWasShown'
    BY <2>1, <2>2, <2>3 DEF ResumePageInv, ListedWasShown, Becomes
  <2>7. SilenceHasAnEnd' /\ PollingEnds'
    BY <2>1 DEF SilenceHasAnEnd, PollingEnds
  <2>8. QED
    BY <2>3, <2>4, <2>5, <2>6, <2>7 DEF ResumePageInv
<1>9. ASSUME NEW f \in Fetch, OptionsArrive(f) PROVE ResumePageInv'
  <2>1. /\ UNCHANGED <<parseStatus, retried, shownStatus, pageLoading, pageError, made, reads>>
        /\ UNCHANGED <<interval, shownRead, lateAnswer, backwards, reparsed>> /\ optionsShown' \in BOOLEAN
        /\ fetches[f].at = "listing" /\ fetches' = [fetches EXCEPT ![f].at = "over"]
    BY <1>9 DEF OptionsArrive, resumePageShown
  <2>2. fetches' \in [Fetch -> FetchRecord] /\ Becomes(f, "over", fetches[f].got, fetches[f].read)
    BY <1>1, <2>1, FetchGoesOn
  <2>3. /\ ReadsAreCounted' /\ CompleteIsKept' /\ HasRead' = HasRead
        /\ \A g \in Fetch : fetches'[g].read = fetches[g].read /\ fetches'[g].got = fetches[g].got
    BY <1>1, <2>1, <2>2, ReadsStay
  <2>4. ResumePageTypeOK'
    BY <1>1, <1>2, <2>1, <2>2 DEF ResumePageInv, ResumePageTypeOK, FetchRecord
  <2>5. ShownWasRead'
    BY <2>1, <2>3 DEF ResumePageInv, ShownWasRead, HasRead
  <2>6. ASSUME ~backwards, ~reparsed PROVE shownRead # 0 /\ shownStatus = "complete"
    <3>1. /\ fetches[f].got = "complete" /\ fetches[f].read <= shownRead /\ fetches[f].read # 0
          /\ f \in HasRead /\ fetches[f].read \in Nat
      BY <1>1, <2>1, <2>6 DEF ResumePageInv, ListedWasShown, ReadsAreCounted, HasRead, FetchRecord
    <3>2. shownRead # 0
      BY <1>1, <3>1
    <3>3. PICK g \in HasRead : fetches[g].read = shownRead /\ fetches[g].got = shownStatus
      BY <3>2 DEF ResumePageInv, ShownWasRead
    <3>4. fetches[g].got = "complete"
      BY <2>6, <3>1, <3>3 DEF ResumePageInv, CompleteIsKept
    <3>5. QED
      BY <3>2, <3>3, <3>4
  <2>7. ListedWasShown'
    BY <2>1, <2>2, <2>3, <2>6 DEF ResumePageInv, ListedWasShown, Becomes
  <2>8. SilenceHasAnEnd' /\ PollingEnds'
    BY <2>1 DEF ResumePageInv, SilenceHasAnEnd, PollingEnds
  <2>9. QED
    BY <2>3, <2>4, <2>5, <2>7, <2>8 DEF ResumePageInv
<1>10. QED
  BY <1>3, <1>4, <1>5, <1>6, <1>7, <1>8, <1>9 DEF ResumePageNext

\* The page starts with one request, which nothing has answered.
LEMMA ResumePageStarts == ResumePageInit => ResumePageInv
<1> SUFFICES ASSUME ResumePageInit PROVE ResumePageInv
  OBVIOUS
<1> USE ResumePageAssumption
<1>1. /\ \A f \in Fetch : fetches[f].read = 0 /\ fetches[f].got = "nothing"
      /\ \A f \in Fetch : fetches[f].at = IF f = 1 THEN "asking" ELSE "none"
      /\ fetches \in [Fetch -> FetchRecord]
  <2>1. Unasked \in FetchRecord /\ [Unasked EXCEPT !.at = "asking"] \in FetchRecord
    BY DEF FetchRecord, Unasked
  <2>2. fetches \in [Fetch -> FetchRecord]
    BY <2>1 DEF ResumePageInit
  <2>3. \A f \in Fetch : fetches[f] = IF f = 1 THEN [Unasked EXCEPT !.at = "asking"] ELSE Unasked
    BY DEF ResumePageInit
  <2>4. QED
    BY <2>2, <2>3 DEF Unasked
<1>2. ResumePageTypeOK
  <2>1. /\ parseStatus \in ParseStatus /\ retried = 0 /\ made = 1 /\ reads = 0 /\ shownRead = 0
        /\ shownStatus = "nothing" /\ pageLoading = TRUE
    BY DEF ResumePageInit
  <2>2. /\ pageError = FALSE /\ optionsShown = FALSE /\ interval = TRUE /\ lateAnswer = FALSE
        /\ backwards = FALSE /\ reparsed = FALSE
    BY DEF ResumePageInit
  <2>3. 0 \in 0 .. MaxRetries /\ 1 \in 1 .. MaxFetches /\ 0 \in 0 .. MaxFetches
    OBVIOUS
  <2>4. QED
    BY <1>1, <2>1, <2>2, <2>3 DEF ResumePageTypeOK, FetchRecord
<1>3. HasRead = {}
  BY <1>1 DEF HasRead
<1>4. ReadsAreCounted
  <2>1. Cardinality(HasRead) = 0
    BY <1>3, FS_EmptySet
  <2>2. reads = 0 /\ made = 1
    BY DEF ResumePageInit
  <2>3. \A f \in Fetch : f > 1 => f # 1
    BY DEF Fetch
  <2>4. QED
    BY <1>1, <1>3, <2>1, <2>2, <2>3 DEF ReadsAreCounted
<1>5. CompleteIsKept
  BY <1>3 DEF CompleteIsKept
<1>6. ShownWasRead /\ ListedWasShown
  BY <1>1 DEF ResumePageInit, ShownWasRead, ListedWasShown
<1>7. SilenceHasAnEnd /\ PollingEnds
  BY DEF ResumePageInit, SilenceHasAnEnd, PollingEnds, TERMINAL
<1>8. QED
  BY <1>2, <1>4, <1>5, <1>6, <1>7 DEF ResumePageInv

(***************************************************************************)
(* resume/[id]/page.tsx:143-222: the page polls exactly until there is an  *)
(* end to show and stays with it, however many requests are under way.     *)
(***************************************************************************)
THEOREM ResumePageStays == ResumePageSpec => []ResumePageSettles
<1>1. ASSUME ResumePageInv PROVE ResumePageSettles
  <2>1. SilenceIsFinal
    <3>1. ASSUME ~interval, ~lateAnswer
          PROVE  ResumePageShows # {} /\ ResumePageShows \cap {"spinner", "analysing"} = {}
      <4>1. ~pageLoading /\ (pageError \/ shownStatus \in TERMINAL)
        BY <1>1, <3>1 DEF ResumePageInv, SilenceHasAnEnd
      <4>2. CASE pageError
        <5>1. ResumePageShows = {"error"}
          BY <4>1, <4>2 DEF ResumePageShows
        <5>2. QED
          BY <5>1
      <4>3. CASE ~pageError /\ shownStatus = "complete"
        <5>1. ResumePageShows = {"resume", "original", "export"}
                                \cup (IF optionsShown THEN {"picker"} ELSE {})
          BY <4>1, <4>3 DEF ResumePageShows
        <5>2. QED
          BY <5>1
      <4>4. CASE ~pageError /\ shownStatus = "failed"
        <5>1. ResumePageShows = {"analysis failed"}
          BY <4>1, <4>4 DEF ResumePageShows
        <5>2. QED
          BY <5>1
      <4>5. QED
        BY <4>1, <4>2, <4>3, <4>4 DEF TERMINAL
    <3>2. QED
      BY <3>1 DEF SilenceIsFinal
  <2>2. OptionsFollowTheParse
    <3>1. ASSUME optionsShown, ~backwards, ~reparsed PROVE ResumePageShows \cap {"picker", "error"} # {}
      <4>1. shownRead # 0 /\ shownStatus = "complete"
        BY <1>1, <3>1 DEF ResumePageInv, ListedWasShown
      <4>2. ~pageLoading
        BY <1>1, <4>1 DEF ResumePageInv, ShownWasRead
      <4>3. CASE pageError
        <5>1. ResumePageShows = {"error"}
          BY <4>2, <4>3 DEF ResumePageShows
        <5>2. QED
          BY <5>1
      <4>4. CASE ~pageError
        <5>1. ResumePageShows = {"resume", "original", "export"} \cup {"picker"}
          BY <3>1, <4>1, <4>2, <4>4 DEF ResumePageShows
        <5>2. QED
          BY <5>1
      <4>5. QED
        BY <4>3, <4>4
    <3>2. QED
      BY <3>1 DEF OptionsFollowTheParse
  <2>3. QED
    BY <1>1, <2>1, <2>2 DEF ResumePageInv, ResumePageSettles
<1>2. QED
  BY <1>1, ResumePageStarts, ResumePageInductive, PTL DEF ResumePageSpec

\* Every variable of the page stays in its type.
THEOREM ResumePageTypeCorrect == ResumePageSpec => []ResumePageTypeOK
<1>1. ResumePageInv => ResumePageTypeOK
  BY DEF ResumePageInv
<1>2. QED
  BY <1>1, ResumePageStarts, ResumePageInductive, PTL DEF ResumePageSpec

-------------------------------------------------------------------------------
(* ScorePage: the page of one score.                                         *)

(***************************************************************************)
(* Unless a worker writes over what has ended: the row has no optimization *)
(* before its score, and neither a score nor a finished optimization is    *)
(* taken back, so that what has been read of them holds.                   *)
(***************************************************************************)
SeenRow(x) ==
  /\ x.scoring # "complete" => x.opt = "none"
  /\ x.scoring = "complete" => dbScore.scoring = "complete"
  /\ x.opt = "complete" => dbScore.opt = "complete"

RowsSeen ==
  /\ SeenRow(dbScore) /\ SeenRow(pageScore) /\ SeenRow(scorePoll.got)
  /\ \A p \in Poller : SeenRow(optPolls[p].got)

(***************************************************************************)
(* pollScore: it asks until the score has ended, and goes on to the resume *)
(* and the result of a score that is complete and shown.                   *)
(***************************************************************************)
ScoreIsFollowed ==
  /\ scoreLoading => scorePoll.at \in {"asking", "answered"}
  /\ pageScore.scoring \in {"pending", "scoring"} =>
       scorePoll.at \in {"asking", "answered", "timer"} \/ scoreError \/ ~mounted
  /\ scorePoll.at \in {"asking", "answered", "timer"} => pageScore.scoring # "complete"
  /\ scorePoll.at \in {"answered", "resulted"} => scorePoll.got \in ScoreRow
  /\ scorePoll.at \in {"resume", "result", "resulted"} => scorePoll.got.scoring = "complete"
  /\ scorePoll.at = "resume" /\ scorePoll.got.opt \notin {"none", "failed"} =>
       pageScore = scorePoll.got /\ ~optLoading /\ ~OptimizePolling

(***************************************************************************)
(* pollOptimization: one chain of polls, which the button waits for, over  *)
(* a score that is complete.                                               *)
(***************************************************************************)
InChain(p) == optPolls[p].at \notin {"none", "fresh", "freshened"}

ChainIsFollowed ==
  /\ OneChainOfPolls
  /\ \A p \in Poller : InChain(p) => optLoading
  /\ mounted /\ optLoading => \E p \in Poller : InChain(p)
  /\ optLoading \/ OptimizePolling => pageScore.scoring = "complete"
  /\ \A p \in Poller : optPolls[p].at \in {"answered", "freshened"} => optPolls[p].got.scoring = "complete"

(***************************************************************************)
(* Unless calls have crossed or failed unseen, or another tab has asked:   *)
(* there is one call, the result it brought is that of the row, and an     *)
(* optimization that is shown as running is waited for.                    *)
(***************************************************************************)
Undisturbed == ~swallowed /\ ~pollsCrossed /\ ~elsewhere

UndisturbedPolls ==
  /\ ~pollsCrossed => \A p, q \in Poller : optPolls[p].at # "none" /\ optPolls[q].at # "none" => p = q
  /\ ~pollsCrossed /\ pageScore.opt = "complete" => ~OptimizePolling
  /\ Undisturbed => \A p \in Poller :
       /\ optPolls[p].at \in {"fresh", "freshened"} =>
            optimization = dbScore.opt /\ dbScore.opt \notin OptRunning
       /\ optPolls[p].at = "freshened" => optPolls[p].got.opt = dbScore.opt
       /\ optPolls[p].at = "answered" /\ optPolls[p].got.opt \notin OptRunning =>
            optPolls[p].got.opt = dbScore.opt
  /\ Undisturbed /\ mounted /\ pageScore.opt \in OptRunning =>
       \/ scorePoll.at = "resume" /\ scorePoll.got = pageScore
       \/ OptimizePolling \/ optError
  /\ Undisturbed /\ pageScore.opt = "complete" =>
       \/ optimization = "complete"
       \/ scorePoll.at \in {"resume", "result", "resulted"} /\ scorePoll.got.opt = "complete"

LeftAlone == ~mounted /\ ~underWay => ~ScorePolling /\ ~OptimizePolling

ScorePollRecord ==
  [at : {"asking", "answered", "timer", "resume", "result", "resulted", "over"},
   got : ScoreRow \cup {NoRow}]
PollAt == {"none", "requesting", "requested", "asking", "answered", "timer", "fresh", "freshened"}
PollRecord == [at : PollAt, got : ScoreRow \cup {NoRow}]

ScorePageFlags ==
  /\ scoreLoading \in BOOLEAN /\ scoreError \in BOOLEAN /\ optLoading \in BOOLEAN /\ optError \in BOOLEAN
  /\ mounted \in BOOLEAN /\ underWay \in BOOLEAN
  /\ swallowed \in BOOLEAN /\ pollsCrossed \in BOOLEAN /\ elsewhere \in BOOLEAN
ScorePageData ==
  /\ dbScore \in ScoreRow
  /\ pageScore \in ScoreRow \cup {NoRow}
  /\ optimization \in OptStatus \cup {"nothing"}
  /\ scorePoll \in ScorePollRecord
  /\ optPolls \in [Poller -> PollRecord]
  /\ runs \in 0 .. MaxRuns /\ failures \in 0 .. MaxFailures
BlankIsExplained == pageScore = NoRow => scoreLoading \/ scoreError

\* The type invariant without the history of the row.
ScorePageShape ==
  /\ ScorePageFlags /\ ScorePageData /\ BlankIsExplained

\* What holds unless a worker writes over what has ended.
ScorePageInv ==
  /\ ScorePageShape /\ RowsSeen /\ ScoreIsFollowed /\ ChainIsFollowed /\ UndisturbedPolls /\ LeftAlone

\* The type invariant in its parts.
LEMMA ScorePageParts == ScorePageTypeOK <=> ScorePageShape /\ overwritten \in BOOLEAN
BY DEF ScorePageTypeOK, ScorePageShape, ScorePageFlags, ScorePageData, BlankIsExplained,
       ScorePollRecord, PollRecord, PollAt

\* What a step makes of one of the polls.
BecomesPoll(p, at, got) ==
  /\ optPolls' \in [Poller -> PollRecord]
  /\ optPolls'[p].at = at /\ optPolls'[p].got = got
  /\ \A q \in Poller \ {p} : optPolls'[q] = optPolls[q]

\* A poll goes on, reads the row, or is over.
LEMMA PollSteps ==
  ASSUME ScorePageData, NEW p \in Poller
  PROVE  /\ \A at \in PollAt : optPolls' = [optPolls EXCEPT ![p].at = at] =>
              BecomesPoll(p, at, optPolls[p].got)
         /\ \A at \in PollAt : Reads(p, at) => BecomesPoll(p, at, dbScore)
         /\ optPolls' = [optPolls EXCEPT ![p] = Off] => BecomesPoll(p, "none", NoRow)
<1>1. optPolls \in [Poller -> PollRecord] /\ dbScore \in ScoreRow
  BY DEF ScorePageData
<1>2. ASSUME NEW at \in PollAt, optPolls' = [optPolls EXCEPT ![p].at = at]
      PROVE  BecomesPoll(p, at, optPolls[p].got)
  <2>1. [optPolls[p] EXCEPT !.at = at] \in PollRecord
    BY <1>1 DEF PollRecord
  <2>2. optPolls'[p] = [optPolls[p] EXCEPT !.at = at]
    BY <1>1, <1>2
  <2>3. optPolls'[p].at = at /\ optPolls'[p].got = optPolls[p].got
    BY <1>1, <2>2 DEF PollRecord
  <2>4. QED
    BY <1>1, <1>2, <2>1, <2>3 DEF BecomesPoll
<1>3. ASSUME NEW r \in PollRecord, optPolls' = [optPolls EXCEPT ![p] = r]
      PROVE  BecomesPoll(p, r.at, r.got)
  BY <1>1, <1>3 DEF BecomesPoll
<1>4. ASSUME NEW at \in PollAt, Reads(p, at) PROVE BecomesPoll(p, at, dbScore)
  <2> DEFINE r == [at |-> at, got |-> dbScore]
  <2>1. r \in PollRecord /\ r.at = at /\ r.got = dbScore
    BY <1>1 DEF PollRecord
  <2>2. optPolls' = [optPolls EXCEPT ![p] = r]
    BY <1>4 DEF Reads
  <2> HIDE DEF r
  <2>3. QED
    BY <1>3, <2>1, <2>2
<1>5. ASSUME optPolls' = [optPolls EXCEPT ![p] = Off] PROVE BecomesPoll(p, "none", NoRow)
  <2>1. Off \in PollRecord /\ Off.at = "none" /\ Off.got = NoRow
    BY DEF Off, PollRecord, PollAt
  <2>2. QED
    BY <1>3, <1>5, <2>1
<1>6. QED
  BY <1>2, <1>4, <1>5

\* What a step makes of pollScore.
LEMMA ScorePollSteps ==
  ASSUME ScorePageData
  PROVE  /\ \A at \in {"asking", "answered", "timer", "resume", "result", "resulted", "over"} :
              scorePoll' = [scorePoll EXCEPT !.at = at] =>
                scorePoll' \in ScorePollRecord /\ scorePoll'.at = at /\ scorePoll'.got = scorePoll.got
<1>1. scorePoll \in ScorePollRecord
  BY DEF ScorePageData
<1>2. QED
  BY <1>1 DEF ScorePollRecord

\* A step of the row: the workers, or another tab, in the order of the statuses.
LEMMA RowSteps ==
  ASSUME ScorePageInv, dbScore' \in ScoreRow, SeenRow(dbScore)',
         dbScore.scoring = "complete" => dbScore'.scoring = "complete",
         dbScore.opt = "complete" => dbScore'.opt = "complete",
         UNCHANGED <<pageScore, scoreLoading, scoreError, optimization, optLoading, optError>>,
         UNCHANGED <<scorePoll, optPolls, mounted, underWay, swallowed, pollsCrossed>>,
         elsewhere' \in BOOLEAN, elsewhere => elsewhere', runs' \in 0 .. MaxRuns, UNCHANGED failures,
         Undisturbed' => \A p \in Poller :
           \/ optPolls[p].at \in {"fresh", "freshened"}
           \/ optPolls[p].at = "answered" /\ optPolls[p].got.opt \notin OptRunning
           => dbScore'.opt = dbScore.opt
  PROVE  ScorePageInv'
<1>1. ScorePageShape'
  BY DEF ScorePageInv, ScorePageShape, ScorePageFlags, ScorePageData, BlankIsExplained
<1>2. RowsSeen'
  BY DEF ScorePageInv, RowsSeen, SeenRow
<1>3. ScoreIsFollowed'
  BY DEF ScorePageInv, ScoreIsFollowed, OptimizePolling
<1>4. ChainIsFollowed'
  BY DEF ScorePageInv, ChainIsFollowed, OneChainOfPolls, InChain, OptimizePolling
<1>5. Undisturbed' => Undisturbed
  BY DEF Undisturbed
<1>6. UndisturbedPolls'
  <2>1. ~pollsCrossed' => \A p, q \in Poller : optPolls'[p].at # "none" /\ optPolls'[q].at # "none" => p = q
    BY DEF ScorePageInv, UndisturbedPolls
  <2>2. ~pollsCrossed' /\ pageScore'.opt = "complete" => ~OptimizePolling'
    BY DEF ScorePageInv, UndisturbedPolls, OptimizePolling
  <2>3. Undisturbed' => \A p \in Poller :
       /\ optPolls'[p].at \in {"fresh", "freshened"} =>
            optimization' = dbScore'.opt /\ dbScore'.opt \notin OptRunning
       /\ optPolls'[p].at = "freshened" => optPolls'[p].got.opt = dbScore'.opt
       /\ optPolls'[p].at = "answered" /\ optPolls'[p].got.opt \notin OptRunning =>
            optPolls'[p].got.opt = dbScore'.opt
    BY <1>5 DEF ScorePageInv, UndisturbedPolls
  <2>4. Undisturbed' /\ mounted' /\ pageScore'.opt \in OptRunning =>
       \/ scorePoll'.at = "resume" /\ scorePoll'.got = pageScore'
       \/ OptimizePolling' \/ optError'
    BY <1>5 DEF ScorePageInv, UndisturbedPolls, OptimizePolling
  <2>5. Undisturbed' /\ pageScore'.opt = "complete" =>
       \/ optimization' = "complete"
       \/ scorePoll'.at \in {"resume", "result", "resulted"} /\ scorePoll'.got.opt = "complete"
    BY <1>5 DEF ScorePageInv, UndisturbedPolls
  <2>6. QED
    BY <2>1, <2>2, <2>3, <2>4, <2>5 DEF UndisturbedPolls
<1>7. LeftAlone'
  BY DEF ScorePageInv, LeftAlone, ScorePolling, OptimizePolling
<1>8. QED
  BY <1>1, <1>2, <1>3, <1>4, <1>6, <1>7 DEF ScorePageInv

\* The workers, that write over nothing that has ended, and the other tab.
LEMMA RowKeeps ==
  ASSUME ScorePageInv, ~overwritten', WorkersScore \/ WorkersOptimize \/ OtherTab
  PROVE  ScorePageInv'
<1> USE ScorePageAssumption
<1>1. ScorePageData /\ ScorePageFlags /\ SeenRow(dbScore)
  BY DEF ScorePageShape, ScorePageInv, RowsSeen
<1>2. CASE WorkersScore
  <2>1. /\ UNCHANGED <<pageScore, scoreLoading, scoreError, optimization, optLoading, optError>>
        /\ UNCHANGED <<scorePoll, optPolls, mounted, underWay, swallowed, pollsCrossed>>
        /\ UNCHANGED <<elsewhere, failures>>
    BY <1>2 DEF WorkersScore, shownVars, pageHistory
  <2>2. dbScore.scoring # "complete" /\ dbScore.opt = "none"
    BY <1>1, <1>2 DEF WorkersScore, SeenRow
  <2>3. dbScore' \in ScoreRow /\ SeenRow(dbScore)' /\ runs' \in 0 .. MaxRuns
    <3>1. PICK s \in {"scoring", "complete", "failed"} : dbScore' = [scoring |-> s, opt |-> "none"]
      BY <1>2, <2>2 DEF WorkersScore, RowBecomes
    <3>2. dbScore' \in ScoreRow /\ SeenRow(dbScore)'
      BY <3>1 DEF ScoreRow, OptStatus, SeenRow
    <3>3. runs' \in 0 .. MaxRuns
      BY <1>1, <1>2 DEF WorkersScore, OneMoreRun, ScorePageData
    <3>4. QED
      BY <3>2, <3>3
  <2>4. \A p \in Poller : optPolls[p].at = "none"
    BY <2>2 DEF ScorePageInv, ChainIsFollowed, OptimizePolling, RowsSeen, SeenRow
  <2>5. QED
    BY <1>1, <2>1, <2>2, <2>3, <2>4, RowSteps DEF ScorePageFlags
<1>3. CASE WorkersOptimize
  <2>1. /\ UNCHANGED <<pageScore, scoreLoading, scoreError, optimization, optLoading, optError>>
        /\ UNCHANGED <<scorePoll, optPolls, mounted, underWay, swallowed, pollsCrossed>>
        /\ UNCHANGED <<elsewhere, failures>>
    BY <1>3 DEF WorkersOptimize, shownVars, pageHistory
  <2>2. dbScore.scoring = "complete" /\ dbScore.opt \in OptRunning
    BY <1>1, <1>3 DEF WorkersOptimize, OptRunning, SeenRow
  <2>3. /\ dbScore' \in ScoreRow /\ SeenRow(dbScore)' /\ dbScore'.scoring = "complete"
        /\ UNCHANGED runs
    <3>1. PICK o \in {"optimizing", "complete", "failed"} : dbScore' = [scoring |-> "complete", opt |-> o]
      BY <1>3, <2>2 DEF WorkersOptimize, RowBecomes
    <3>2. QED
      BY <1>3, <2>2, <3>1 DEF WorkersOptimize, ScoreRow, OptStatus, SeenRow
  <2>4. Undisturbed' => \A p \in Poller :
          ~ (\/ optPolls[p].at \in {"fresh", "freshened"}
             \/ optPolls[p].at = "answered" /\ optPolls[p].got.opt \notin OptRunning)
    BY <2>1, <2>2 DEF ScorePageInv, UndisturbedPolls, Undisturbed
  <2>5. dbScore.opt # "complete"
    BY <2>2 DEF OptRunning
  <2>6. QED
    BY <1>1, <2>1, <2>3, <2>4, <2>5, RowSteps DEF ScorePageFlags, ScorePageData
<1>4. CASE OtherTab
  <2>1. /\ UNCHANGED <<pageScore, scoreLoading, scoreError, optimization, optLoading, optError>>
        /\ UNCHANGED <<scorePoll, optPolls, mounted, underWay, swallowed, pollsCrossed>>
        /\ UNCHANGED failures
    BY <1>4 DEF OtherTab, shownVars
  <2>2. dbScore.opt # "complete"
    BY <1>4 DEF OtherTab, Accepts
  <2>3. /\ dbScore' \in ScoreRow /\ SeenRow(dbScore)' /\ dbScore'.scoring = "complete"
        /\ runs' \in 0 .. MaxRuns
    <3>1. dbScore' = [scoring |-> "complete", opt |-> "pending"]
      BY <1>4 DEF OtherTab, RowBecomes
    <3>2. runs' \in 0 .. MaxRuns
      BY <1>1, <1>4 DEF OtherTab, OneMoreRun, ScorePageData
    <3>3. QED
      BY <3>1, <3>2 DEF ScoreRow, OptStatus, SeenRow
  <2>4. elsewhere' = (elsewhere \/ \E p \in Poller : optPolls[p].at # "none")
    BY <1>4, Zenon DEF OtherTab
  <2>5. elsewhere' \in BOOLEAN /\ (elsewhere => elsewhere')
    BY <2>4, Zenon
  <2>6. Undisturbed' => \A p \in Poller : optPolls[p].at = "none"
    BY <2>4, Zenon DEF Undisturbed
  <2>7. \A p \in Poller : optPolls[p].at = "none" => optPolls[p].at \notin {"fresh", "freshened", "answered"}
    OBVIOUS
  <2>8. QED
    BY <2>1, <2>2, <2>3, <2>5, <2>6, <2>7, RowSteps
<1>5. QED
  BY <1>2, <1>3, <1>4

\* pollScore: the server reads, the answer arrives or fails, the timer asks again.
LEMMA PollScoreKeeps ==
  ASSUME ScorePageInv, ServeScore \/ PollScoreArrives \/ PollScoreFails \/ ScoreTimer
  PROVE  ScorePageInv'
<1> USE ScorePageAssumption
<1>1. ScorePageData /\ ScorePageFlags /\ BlankIsExplained
  BY DEF ScorePageShape, ScorePageInv
<1>2. scorePoll \in ScorePollRecord /\ dbScore \in ScoreRow
  BY <1>1 DEF ScorePageData
<1>3. NoRow \notin ScoreRow /\ SeenRow(NoRow)
  BY DEF NoRow, ScoreRow, SeenRow
<1>4. CASE ServeScore
  <2>1. /\ UNCHANGED <<dbScore, pageScore, scoreLoading, scoreError, optimization, optLoading, optError>>
        /\ UNCHANGED <<optPolls, mounted, underWay, swallowed, pollsCrossed, elsewhere, runs, failures>>
    BY <1>4 DEF ServeScore, shownVars, pageHistory
  <2>2. /\ scorePoll'.got = dbScore
        /\ \/ scorePoll.at = "asking" /\ scorePoll'.at = "answered"
           \/ scorePoll.at = "result" /\ scorePoll'.at = "resulted"
        /\ scorePoll' \in ScorePollRecord
    BY <1>2, <1>4 DEF ServeScore, ScorePollRecord
  <2>3. ScorePageShape'
    BY <1>1, <2>1, <2>2 DEF ScorePageShape, ScorePageFlags, ScorePageData, BlankIsExplained, ScorePollRecord, PollRecord, PollAt
  <2>4. RowsSeen'
    BY <2>1, <2>2 DEF ScorePageInv, RowsSeen, SeenRow
  <2>5. ScoreIsFollowed'
    BY <1>2, <2>1, <2>2 DEF ScorePageInv, ScoreIsFollowed, RowsSeen, SeenRow
  <2>6. ChainIsFollowed' /\ LeftAlone'
    BY <2>1, <2>2 DEF ScorePageInv, ChainIsFollowed, OneChainOfPolls, InChain, OptimizePolling, LeftAlone,
                      ScorePolling
  <2>7. UndisturbedPolls'
    BY <2>1, <2>2 DEF ScorePageInv, UndisturbedPolls, OptimizePolling, Undisturbed, RowsSeen, SeenRow
  <2>8. QED
    BY <2>3, <2>4, <2>5, <2>6, <2>7 DEF ScorePageInv
<1>5. CASE ScoreTimer
  <2>1. /\ UNCHANGED <<dbScore, pageScore, scoreLoading, scoreError, optimization, optLoading, optError>>
        /\ UNCHANGED <<optPolls, mounted, underWay, swallowed, pollsCrossed, elsewhere, runs, failures>>
    BY <1>5 DEF ScoreTimer, shownVars, pageHistory
  <2>2. /\ scorePoll.at = "timer" /\ scorePoll'.at = "asking" /\ scorePoll'.got = NoRow
        /\ scorePoll' \in ScorePollRecord
    BY <1>5 DEF ScoreTimer, ScorePollRecord
  <2>3. ScorePageShape'
    BY <1>1, <2>1, <2>2 DEF ScorePageShape, ScorePageFlags, ScorePageData, BlankIsExplained, ScorePollRecord, PollRecord, PollAt
  <2>4. RowsSeen'
    BY <1>3, <2>1, <2>2 DEF ScorePageInv, RowsSeen, SeenRow
  <2>5. ScoreIsFollowed'
    BY <1>2, <2>1, <2>2 DEF ScorePageInv, ScoreIsFollowed
  <2>6. ChainIsFollowed' /\ LeftAlone'
    BY <2>1, <2>2 DEF ScorePageInv, ChainIsFollowed, OneChainOfPolls, InChain, OptimizePolling, LeftAlone,
                      ScorePolling
  <2>7. UndisturbedPolls'
    BY <2>1, <2>2 DEF ScorePageInv, UndisturbedPolls, OptimizePolling, Undisturbed
  <2>8. QED
    BY <2>3, <2>4, <2>5, <2>6, <2>7 DEF ScorePageInv
<1>6. CASE PollScoreFails
  <2>1. /\ UNCHANGED <<dbScore, pageScore, optimization, optLoading, optError>>
        /\ UNCHANGED <<optPolls, mounted, underWay, swallowed, pollsCrossed, elsewhere, runs>>
        /\ scoreError' = TRUE /\ scoreLoading' = FALSE /\ failures' \in 0 .. MaxFailures
        /\ scorePoll.at \in {"asking", "answered"}
    BY <1>1, <1>6 DEF PollScoreFails, pageHistory, CallFails, ScorePageData
  <2>2. /\ scorePoll'.at = "over" /\ scorePoll'.got = scorePoll.got /\ scorePoll' \in ScorePollRecord
    BY <1>1, <1>6, ScorePollSteps DEF PollScoreFails
  <2>3. ScorePageShape'
    BY <1>1, <2>1, <2>2 DEF ScorePageShape, ScorePageFlags, ScorePageData, BlankIsExplained, ScorePollRecord, PollRecord, PollAt
  <2>4. RowsSeen'
    BY <2>1, <2>2 DEF ScorePageInv, RowsSeen, SeenRow
  <2>5. ScoreIsFollowed'
    BY <2>1, <2>2 DEF ScoreIsFollowed
  <2>6. ChainIsFollowed' /\ LeftAlone'
    BY <2>1, <2>2 DEF ScorePageInv, ChainIsFollowed, OneChainOfPolls, InChain, OptimizePolling, LeftAlone,
                      ScorePolling
  <2>7. UndisturbedPolls'
    BY <2>1, <2>2 DEF ScorePageInv, UndisturbedPolls, OptimizePolling, Undisturbed
  <2>8. QED
    BY <2>3, <2>4, <2>5, <2>6, <2>7 DEF ScorePageInv
<1>7. CASE PollScoreArrives
  <2>1. /\ UNCHANGED <<dbScore, scoreError, optimization, optLoading, optError>>
        /\ UNCHANGED <<optPolls, mounted, underWay, swallowed, pollsCrossed, elsewhere, runs, failures>>
        /\ pageScore' = scorePoll.got /\ scoreLoading' = FALSE /\ scorePoll.at = "answered"
    BY <1>7 DEF PollScoreArrives, pageHistory, ShowScore
  <2>2. scorePoll.got \in ScoreRow
    BY <2>1 DEF ScorePageInv, ScoreIsFollowed
  <2>3. /\ scorePoll'.got = scorePoll.got /\ scorePoll' \in ScorePollRecord
        /\ \/ scorePoll.got.scoring \in {"pending", "scoring"} /\ scorePoll'.at = "timer"
           \/ scorePoll.got.scoring = "complete" /\ scorePoll'.at = "resume"
           \/ scorePoll.got.scoring = "failed" /\ scorePoll'.at = "over"
    <3>1. PICK at \in {"timer", "resume", "over"} :
            /\ scorePoll' = [scorePoll EXCEPT !.at = at]
            /\ \/ scorePoll.got.scoring \in {"pending", "scoring"} /\ at = "timer"
               \/ scorePoll.got.scoring = "complete" /\ at = "resume"
               \/ scorePoll.got.scoring = "failed" /\ at = "over"
      BY <1>7, <2>2 DEF PollScoreArrives, ScoreRow
    <3>2. QED
      BY <1>1, <3>1, ScorePollSteps
  <2>4. ScorePageShape'
    BY <1>1, <1>3, <2>1, <2>2, <2>3 DEF ScorePageShape, ScorePageFlags, ScorePageData, BlankIsExplained, ScorePollRecord, PollRecord, PollAt
  <2>5. RowsSeen'
    BY <2>1, <2>3 DEF ScorePageInv, RowsSeen, SeenRow
  <2>6. ~optLoading /\ ~OptimizePolling
    BY <2>1 DEF ScorePageInv, ScoreIsFollowed, ChainIsFollowed
  <2>7. ScoreIsFollowed'
    BY <2>1, <2>2, <2>3, <2>6 DEF ScoreIsFollowed, OptimizePolling
  <2>8. ChainIsFollowed' /\ LeftAlone'
    BY <2>1, <2>3, <2>6 DEF ScorePageInv, ChainIsFollowed, OneChainOfPolls, InChain, OptimizePolling, LeftAlone,
                      ScorePolling
  <2>9. UndisturbedPolls'
    <3>1. scorePoll.got.scoring # "complete" => scorePoll.got.opt = "none"
      BY DEF ScorePageInv, RowsSeen, SeenRow
    <3>2. QED
      BY <2>1, <2>3, <2>6, <3>1 DEF ScorePageInv, UndisturbedPolls, OptimizePolling, Undisturbed, OptRunning
  <2>10. QED
    BY <2>4, <2>5, <2>7, <2>8, <2>9 DEF ScorePageInv
<1>8. QED
  BY <1>4, <1>5, <1>6, <1>7

\* The button is there for a score that is complete and not being optimized.
LEMMA ButtonShown ==
  ASSUME ScorePageData, {"optimize", "retry"} \cap ScorePageShows # {}
  PROVE  mounted /\ pageScore.scoring = "complete" /\ ~optLoading /\ pageScore.opt \in {"none", "failed"}
<1>1. pageScore \in ScoreRow \cup {NoRow}
  BY DEF ScorePageData
<1>2. pageScore.opt \in OptStatus
  BY <1>1 DEF ScoreRow, NoRow, OptStatus
<1>3. mounted
  BY DEF ScorePageShows
<1>4. CASE pageScore.scoring # "complete"
  <2>1. ScorePageShows \subseteq {"error", "analyzing", "scoring failed"}
    BY <1>3, <1>4 DEF ScorePageShows
  <2>2. QED
    BY <2>1
<1>5. CASE pageScore.scoring = "complete"
  <2>1. ScorePageShows \subseteq {"error", "analyzing", "before and after", "difference", "baseline",
                                  "optimization error"} \cup Controls
    BY <1>3, <1>5 DEF ScorePageShows
  <2>2. {"optimize", "retry"} \cap Controls # {}
    BY <2>1
  <2>3. ~optLoading /\ pageScore.opt \notin OptRunning /\ pageScore.opt # "complete"
    BY <2>2 DEF Controls
  <2>4. QED
    BY <1>2, <1>3, <1>5, <2>3 DEF OptStatus, OptRunning
<1>6. QED
  BY <1>4, <1>5

\* The rest of pollScore: the resume and the result.
LEMMA ResultKeeps ==
  ASSUME ScorePageInv, ResumeArrives \/ ResultArrives \/ ResultFails
  PROVE  ScorePageInv'
<1> USE ScorePageAssumption
<1>1. ScorePageData /\ ScorePageFlags /\ BlankIsExplained
  BY DEF ScorePageShape, ScorePageInv
<1>2. CASE ResumeArrives
  <2>1. /\ UNCHANGED <<dbScore, pageScore, scoreLoading, scoreError, optimization, optError>>
        /\ UNCHANGED <<mounted, underWay, swallowed, pollsCrossed, elsewhere, runs, failures>>
        /\ scorePoll.at = "resume" /\ scorePoll.got.scoring = "complete"
    BY <1>2 DEF ResumeArrives, pageHistory, ScorePageInv, ScoreIsFollowed
  <2>2. /\ scorePoll'.got = scorePoll.got /\ scorePoll' \in ScorePollRecord
        /\ scorePoll'.at = IF scorePoll.got.opt \in {"complete", "failed"} THEN "result" ELSE "over"
    BY <1>1, <1>2, ScorePollSteps DEF ResumeArrives
  <2>3. RowsSeen' <=> \A p \in Poller : SeenRow(optPolls[p].got)'
    BY <2>1, <2>2 DEF ScorePageInv, RowsSeen, SeenRow
  <2>4. CASE scorePoll.got.opt \in OptRunning
    <3>1. optLoading' = TRUE /\ StartPoll("asking") /\ scorePoll'.at = "over"
      BY <1>2, <2>2, <2>4 DEF ResumeArrives, OptRunning
    <3>2. PICK p \in Poller : optPolls[p].at = "none" /\ optPolls' = [optPolls EXCEPT ![p].at = "asking"]
      BY <3>1 DEF StartPoll
    <3>3. BecomesPoll(p, "asking", optPolls[p].got)
      BY <1>1, <3>2, PollSteps DEF PollAt
    <3>4. pageScore = scorePoll.got /\ ~optLoading /\ \A q \in Poller : optPolls[q].at = "none"
      BY <2>1, <2>4 DEF ScorePageInv, ScoreIsFollowed, OptRunning, OptimizePolling
    <3>5. \A q \in Poller : optPolls'[q].at = (IF q = p THEN "asking" ELSE "none")
      BY <3>3, <3>4 DEF BecomesPoll
    <3>6. ScorePageShape'
      BY <1>1, <2>1, <2>2, <3>1, <3>3 DEF ScorePageShape, ScorePageFlags, ScorePageData,
         BlankIsExplained, ScorePollRecord, PollRecord, PollAt, BecomesPoll
    <3>7. RowsSeen'
      BY <2>1, <2>3, <3>3 DEF BecomesPoll, ScorePageInv, RowsSeen, SeenRow
    <3>8. ScoreIsFollowed'
      BY <2>1, <2>2, <3>1, <3>4 DEF ScorePageInv, ScoreIsFollowed
    <3>9. ChainIsFollowed' /\ LeftAlone'
      <4>1. OneChainOfPolls'
        BY <3>5 DEF OneChainOfPolls
      <4>2. /\ \A q \in Poller : InChain(q)' => optLoading'
            /\ mounted' /\ optLoading' => \E q \in Poller : InChain(q)'
            /\ optLoading' \/ OptimizePolling' => pageScore'.scoring = "complete"
            /\ \A q \in Poller : optPolls'[q].at \in {"answered", "freshened"} => optPolls'[q].got.scoring = "complete"
        BY <2>1, <3>1, <3>4, <3>5 DEF InChain
      <4>3. LeftAlone'
        BY <2>1 DEF ScorePageInv, LeftAlone, ScorePolling
      <4>4. QED
        BY <4>1, <4>2, <4>3 DEF ChainIsFollowed
    <3>10. OptimizePolling'
      BY <3>5 DEF OptimizePolling
    <3>11. UndisturbedPolls'
      BY <2>1, <2>4, <3>4, <3>5, <3>10 DEF UndisturbedPolls, OptRunning
    <3>12. QED
      BY <3>6, <3>7, <3>8, <3>9, <3>11 DEF ScorePageInv
  <2>5. CASE scorePoll.got.opt \notin OptRunning
    <3>1. UNCHANGED <<optLoading, optPolls>>
      BY <1>2, <2>5 DEF ResumeArrives
    <3>2. ScorePageShape'
      BY <1>1, <2>1, <2>2, <3>1 DEF ScorePageShape, ScorePageFlags, ScorePageData,
         BlankIsExplained, ScorePollRecord, PollRecord, PollAt
    <3>3. RowsSeen'
      BY <2>1, <2>3, <3>1 DEF ScorePageInv, RowsSeen, SeenRow
    <3>4. ScoreIsFollowed'
      BY <2>1, <2>2, <3>1 DEF ScorePageInv, ScoreIsFollowed
    <3>5. ChainIsFollowed' /\ LeftAlone'
      BY <2>1, <2>2, <3>1 DEF ScorePageInv, ChainIsFollowed, OneChainOfPolls, InChain, OptimizePolling,
                              LeftAlone, ScorePolling
    <3>6. UndisturbedPolls'
      BY <2>1, <2>2, <2>5, <3>1 DEF ScorePageInv, UndisturbedPolls, OptimizePolling, Undisturbed
    <3>7. QED
      BY <3>2, <3>3, <3>4, <3>5, <3>6 DEF ScorePageInv
  <2>6. QED
    BY <2>4, <2>5
<1>3. CASE ResultArrives
  <2>1. /\ UNCHANGED <<dbScore, pageScore, scoreLoading, scoreError, optLoading, optError>>
        /\ UNCHANGED <<optPolls, mounted, underWay, swallowed, elsewhere, runs, failures>>
        /\ optimization' = scorePoll.got.opt /\ scorePoll.at = "resulted"
    BY <1>3 DEF ResultArrives
  <2>2. pollsCrossed' = (pollsCrossed \/ optimization \notin {"nothing", scorePoll.got.opt})
    BY <1>3, Zenon DEF ResultArrives
  <2>3. /\ pollsCrossed' \in BOOLEAN
        /\ ~pollsCrossed' => ~pollsCrossed /\ optimization \in {"nothing", scorePoll.got.opt}
    BY <2>2, Zenon
  <2>4. /\ scorePoll'.at = "over" /\ scorePoll'.got = scorePoll.got /\ scorePoll' \in ScorePollRecord
    BY <1>1, <1>3, ScorePollSteps DEF ResultArrives
  <2>5. scorePoll.got \in ScoreRow
    BY <2>1 DEF ScorePageInv, ScoreIsFollowed
  <2>6. ScorePageShape'
    BY <1>1, <2>1, <2>3, <2>4, <2>5 DEF ScorePageShape, ScorePageFlags, ScorePageData,
       BlankIsExplained, ScorePollRecord, PollRecord, PollAt, ScoreRow
  <2>7. RowsSeen' /\ ScoreIsFollowed'
    BY <2>1, <2>4 DEF ScorePageInv, RowsSeen, SeenRow, ScoreIsFollowed
  <2>8. ChainIsFollowed' /\ LeftAlone'
    BY <2>1, <2>4 DEF ScorePageInv, ChainIsFollowed, OneChainOfPolls, InChain, OptimizePolling,
                      LeftAlone, ScorePolling
  <2>9. UndisturbedPolls'
    <3>1. Undisturbed' => Undisturbed
      BY <2>1, <2>3 DEF Undisturbed
    <3>2. /\ ~pollsCrossed' => \A p, q \in Poller : optPolls'[p].at # "none" /\ optPolls'[q].at # "none" => p = q
          /\ ~pollsCrossed' /\ pageScore'.opt = "complete" => ~OptimizePolling'
      BY <2>1, <2>3 DEF ScorePageInv, UndisturbedPolls, OptimizePolling
    <3>3. ASSUME Undisturbed', NEW p \in Poller, optPolls'[p].at \in {"fresh", "freshened"}
          PROVE  /\ optimization' = dbScore'.opt /\ dbScore'.opt \notin OptRunning
                 /\ optPolls'[p].at = "freshened" => optPolls'[p].got.opt = dbScore'.opt
      <4>1. /\ optimization = dbScore.opt /\ dbScore.opt \notin OptRunning
            /\ optPolls[p].at = "freshened" => optPolls[p].got.opt = dbScore.opt
        BY <2>1, <3>1, <3>3 DEF ScorePageInv, UndisturbedPolls
      <4>2. optimization # "nothing"
        BY <1>1, <4>1 DEF ScorePageData, ScoreRow, OptStatus
      <4>3. optimization \in {"nothing", scorePoll.got.opt}
        BY <2>3, <3>3 DEF Undisturbed
      <4>4. QED
        BY <2>1, <4>1, <4>2, <4>3
    <3>4. Undisturbed' /\ mounted' /\ pageScore'.opt \in OptRunning =>
            \/ scorePoll'.at = "resume" /\ scorePoll'.got = pageScore'
            \/ OptimizePolling' \/ optError'
      BY <2>1, <2>4, <3>1 DEF ScorePageInv, UndisturbedPolls, OptimizePolling
    <3>5. ASSUME Undisturbed', pageScore'.opt = "complete" PROVE optimization' = "complete"
      <4>1. \/ optimization = "complete"
            \/ scorePoll.got.opt = "complete"
        BY <2>1, <3>1, <3>5 DEF ScorePageInv, UndisturbedPolls
      <4>2. optimization \in {"nothing", scorePoll.got.opt}
        BY <2>3, <3>5 DEF Undisturbed
      <4>3. QED
        BY <2>1, <4>1, <4>2
    <3>6. ASSUME Undisturbed', NEW p \in Poller, optPolls'[p].at = "answered",
                 optPolls'[p].got.opt \notin OptRunning
          PROVE  optPolls'[p].got.opt = dbScore'.opt
      BY <2>1, <3>1, <3>6 DEF ScorePageInv, UndisturbedPolls
    <3>7. QED
      BY <3>2, <3>3, <3>4, <3>5, <3>6 DEF UndisturbedPolls
  <2>10. QED
    BY <2>6, <2>7, <2>8, <2>9 DEF ScorePageInv
<1>4. CASE ResultFails
  <2>1. /\ UNCHANGED <<dbScore, pageScore, scoreLoading, scoreError, optLoading, optError>>
        /\ UNCHANGED <<optPolls, mounted, underWay, pollsCrossed, elsewhere, runs>>
        /\ optimization' = "nothing" /\ swallowed' = TRUE /\ failures' \in 0 .. MaxFailures
        /\ scorePoll.at \in {"result", "resulted"}
    BY <1>1, <1>4 DEF ResultFails, CallFails, ScorePageData
  <2>2. /\ scorePoll'.at = "over" /\ scorePoll'.got = scorePoll.got /\ scorePoll' \in ScorePollRecord
    BY <1>1, <1>4, ScorePollSteps DEF ResultFails
  <2>3. ScorePageShape'
    BY <1>1, <2>1, <2>2 DEF ScorePageShape, ScorePageFlags, ScorePageData,
       BlankIsExplained, ScorePollRecord, PollRecord, PollAt
  <2>4. RowsSeen' /\ ScoreIsFollowed'
    BY <2>1, <2>2 DEF ScorePageInv, RowsSeen, SeenRow, ScoreIsFollowed
  <2>5. ChainIsFollowed' /\ LeftAlone'
    BY <2>1, <2>2 DEF ScorePageInv, ChainIsFollowed, OneChainOfPolls, InChain, OptimizePolling,
                      LeftAlone, ScorePolling
  <2>6. UndisturbedPolls'
    BY <2>1, <2>2 DEF ScorePageInv, UndisturbedPolls, OptimizePolling, Undisturbed
  <2>7. QED
    BY <2>3, <2>4, <2>5, <2>6 DEF ScorePageInv
<1>5. QED
  BY <1>2, <1>3, <1>4

\* The button starts the one chain of polls.
LEMMA OptimizeKeeps ==
  ASSUME ScorePageInv, HandleOptimize
  PROVE  ScorePageInv'
<1> USE ScorePageAssumption
<1>1. ScorePageData /\ ScorePageFlags /\ BlankIsExplained
  BY DEF ScorePageShape, ScorePageInv
<1>2. mounted /\ pageScore.scoring = "complete" /\ ~optLoading /\ pageScore.opt \in {"none", "failed"}
  BY <1>1, ButtonShown DEF HandleOptimize
<1>3. /\ UNCHANGED <<dbScore, pageScore, scoreLoading, scoreError, optimization, scorePoll>>
      /\ UNCHANGED <<mounted, underWay, swallowed, elsewhere, runs, failures>>
      /\ optLoading' = TRUE /\ optError' = FALSE /\ StartPoll("requesting")
  BY DEF HandleOptimize
<1>4. pollsCrossed' = (pollsCrossed \/ OptimizePolling)
  BY Zenon DEF HandleOptimize
<1>5. pollsCrossed' \in BOOLEAN /\ (~pollsCrossed' => ~pollsCrossed /\ ~OptimizePolling)
  BY <1>4, Zenon
<1>6. PICK p \in Poller : optPolls[p].at = "none" /\ optPolls' = [optPolls EXCEPT ![p].at = "requesting"]
  BY <1>3 DEF StartPoll
<1>7. BecomesPoll(p, "requesting", optPolls[p].got)
  BY <1>1, <1>6, PollSteps DEF PollAt
<1>8. /\ optPolls'[p].at = "requesting" /\ \A q \in Poller \ {p} : optPolls'[q] = optPolls[q]
  BY <1>7 DEF BecomesPoll
<1>9. \A q \in Poller : ~InChain(q)
  BY <1>2 DEF ScorePageInv, ChainIsFollowed
<1>10. ScorePageShape'
  <2>1. ScorePageFlags'
    BY <1>1, <1>3, <1>5 DEF ScorePageFlags
  <2>2. ScorePageData'
    BY <1>1, <1>3, <1>7 DEF ScorePageData, BecomesPoll
  <2>3. BlankIsExplained'
    BY <1>1, <1>3 DEF BlankIsExplained
  <2>4. QED
    BY <2>1, <2>2, <2>3 DEF ScorePageShape
<1>11. RowsSeen'
  BY <1>3, <1>7 DEF BecomesPoll, ScorePageInv, RowsSeen, SeenRow
<1>12. ScoreIsFollowed'
  <2>1. scorePoll.at = "resume" => scorePoll.got.opt \in {"none", "failed"}
    BY <1>2 DEF ScorePageInv, ScoreIsFollowed
  <2>2. QED
    BY <1>3, <2>1 DEF ScorePageInv, ScoreIsFollowed
<1>13. ChainIsFollowed' /\ LeftAlone'
  <2>1. InChain(p)' /\ \A q \in Poller \ {p} : ~InChain(q)'
    BY <1>8, <1>9 DEF InChain
  <2>2. OneChainOfPolls'
    BY <2>1 DEF OneChainOfPolls, InChain
  <2>3. \A q \in Poller : optPolls'[q].at \in {"answered", "freshened"} => optPolls'[q].got.scoring = "complete"
    BY <1>8 DEF ScorePageInv, ChainIsFollowed
  <2>4. LeftAlone'
    BY <1>2, <1>3 DEF LeftAlone
  <2>5. QED
    BY <1>2, <1>3, <2>1, <2>2, <2>3, <2>4 DEF ChainIsFollowed
<1>14. UndisturbedPolls'
  <2>1. Undisturbed' => Undisturbed
    BY <1>3, <1>5 DEF Undisturbed
  <2>2. ASSUME ~pollsCrossed' PROVE \A q \in Poller \ {p} : optPolls'[q].at = "none"
    BY <1>5, <1>8, <2>2 DEF OptimizePolling
  <2>3. \A q \in Poller : Undisturbed' => optPolls'[q].at \notin {"fresh", "freshened", "answered"}
    BY <1>8, <2>2 DEF Undisturbed
  <2>4. OptimizePolling'
    BY <1>8 DEF OptimizePolling
  <2>5. \A q, r \in Poller : ~pollsCrossed' /\ optPolls'[q].at # "none" /\ optPolls'[r].at # "none" => q = r
    BY <2>2
  <2>6. QED
    BY <1>2, <1>3, <2>3, <2>4, <2>5 DEF UndisturbedPolls
<1>15. QED
  BY <1>10, <1>11, <1>12, <1>13, <1>14 DEF ScorePageInv

\* A poll that is alive belongs to a page that is there, or was left with it under way, and
\* no other poll is alive with it, unless calls have crossed.
LEMMA PollAlive ==
  ASSUME ScorePageInv, NEW p \in Poller, optPolls[p].at # "none"
  PROVE  /\ OptimizePolling /\ (mounted \/ underWay)
         /\ pageScore.scoring = "complete"
         /\ ~pollsCrossed => \A q \in Poller \ {p} : optPolls[q].at = "none"
         /\ ~pollsCrossed => pageScore.opt # "complete"
         /\ scorePoll.at \notin {"asking", "answered", "timer"}
<1>1. OptimizePolling
  BY DEF OptimizePolling
<1>2. mounted \/ underWay
  BY <1>1 DEF ScorePageInv, LeftAlone
<1>3. pageScore.scoring = "complete"
  BY <1>1 DEF ScorePageInv, ChainIsFollowed
<1>4. scorePoll.at \notin {"asking", "answered", "timer"}
  BY <1>3 DEF ScorePageInv, ScoreIsFollowed
<1>5. QED
  BY <1>1, <1>2, <1>3, <1>4 DEF ScorePageInv, UndisturbedPolls

\* The server accepts the request or reads the row, and the next poll begins.
LEMMA ServeKeeps ==
  ASSUME ScorePageInv, NEW p \in Poller, ServeOptimize(p) \/ PollAgain(p)
  PROVE  ScorePageInv'
<1> USE ScorePageAssumption
<1>1. ScorePageData /\ ScorePageFlags /\ BlankIsExplained
  BY DEF ScorePageShape, ScorePageInv
<1>2. /\ UNCHANGED <<pageScore, scoreLoading, scoreError, optimization, optLoading, optError>>
      /\ UNCHANGED <<scorePoll, mounted, underWay, swallowed, pollsCrossed, elsewhere, failures>>
  BY DEF ServeOptimize, PollAgain, shownVars, pageHistory
<1>3. PICK at \in PollAt, got \in ScoreRow \cup {NoRow} :
        /\ BecomesPoll(p, at, got)
        /\ \/ /\ optPolls[p].at = "requesting" /\ at = "requested" /\ got = optPolls[p].got
              /\ dbScore.opt # "complete" /\ dbScore.scoring = "complete"
              /\ dbScore' = [scoring |-> "complete", opt |-> "pending"] /\ runs' \in 0 .. MaxRuns
           \/ /\ optPolls[p].at = "asking" /\ at = "answered" /\ got = dbScore
              /\ UNCHANGED <<dbScore, runs>>
           \/ /\ optPolls[p].at = "fresh" /\ at = "freshened" /\ got = dbScore
              /\ UNCHANGED <<dbScore, runs>>
           \/ /\ optPolls[p].at \in {"requested", "timer"} /\ at = "asking" /\ got = optPolls[p].got
              /\ UNCHANGED <<dbScore, runs>>
  <2>1. optPolls[p].got \in ScoreRow \cup {NoRow} /\ dbScore \in ScoreRow
    BY <1>1 DEF ScorePageData, PollRecord
  <2>2. {"requested", "answered", "freshened", "asking"} \subseteq PollAt
    BY DEF PollAt
  <2>3. CASE PollAgain(p)
    <3>1. BecomesPoll(p, "asking", optPolls[p].got)
      BY <1>1, <2>2, <2>3, PollSteps DEF PollAgain, Goes
    <3>2. QED
      BY <2>1, <2>2, <2>3, <3>1 DEF PollAgain
  <2>4. CASE optPolls[p].at = "requesting" /\ Accepts /\ OneMoreRun /\ RowBecomes("complete", "pending") /\ Goes(p, "requested")
    <3>1. BecomesPoll(p, "requested", optPolls[p].got)
      BY <1>1, <2>2, <2>4, PollSteps DEF Goes
    <3>2. runs' \in 0 .. MaxRuns
      BY <1>1, <2>4 DEF OneMoreRun, ScorePageData
    <3>3. dbScore.opt # "complete" /\ dbScore.scoring = "complete" /\ dbScore' = [scoring |-> "complete", opt |-> "pending"]
      BY <2>4 DEF Accepts, RowBecomes
    <3>4. QED
      BY <2>1, <2>2, <2>4, <3>1, <3>2, <3>3
  <2>5. CASE optPolls[p].at = "asking" /\ Reads(p, "answered") /\ UNCHANGED <<dbScore, runs>>
    <3>1. BecomesPoll(p, "answered", dbScore)
      BY <1>1, <2>2, <2>5, PollSteps
    <3>2. QED
      BY <2>1, <2>2, <2>5, <3>1
  <2>6. CASE optPolls[p].at = "fresh" /\ Reads(p, "freshened") /\ UNCHANGED <<dbScore, runs>>
    <3>1. BecomesPoll(p, "freshened", dbScore)
      BY <1>1, <2>2, <2>6, PollSteps
    <3>2. QED
      BY <2>1, <2>2, <2>6, <3>1
  <2>7. QED
    BY <2>3, <2>4, <2>5, <2>6 DEF ServeOptimize
<1>4. optPolls[p].at # "none" /\ at # "none"
  BY <1>3
<1>5. /\ optPolls'[p].at = at /\ optPolls'[p].got = got
      /\ \A q \in Poller \ {p} : optPolls'[q] = optPolls[q]
  BY <1>3 DEF BecomesPoll
<1>6. /\ OptimizePolling /\ (mounted \/ underWay)
      /\ pageScore.scoring = "complete"
      /\ ~pollsCrossed => \A q \in Poller \ {p} : optPolls[q].at = "none"
      /\ ~pollsCrossed => pageScore.opt # "complete"
      /\ scorePoll.at \notin {"asking", "answered", "timer"}
  BY <1>4, PollAlive
<1>7. /\ dbScore.scoring = "complete" /\ dbScore'.scoring = "complete" /\ dbScore' \in ScoreRow
      /\ dbScore.opt = "complete" => dbScore'.opt = "complete"
  BY <1>1, <1>3, <1>6 DEF ScorePageInv, RowsSeen, SeenRow, ScorePageData, ScoreRow, OptStatus
<1>8. ScorePageShape'
  BY <1>1, <1>2, <1>3, <1>7 DEF ScorePageShape, ScorePageFlags, ScorePageData,
     BlankIsExplained, ScorePollRecord, PollRecord, PollAt, BecomesPoll
<1>9. RowsSeen'
  <2>1. SeenRow(dbScore)' /\ SeenRow(pageScore)' /\ SeenRow(scorePoll.got)'
    BY <1>2, <1>7 DEF ScorePageInv, RowsSeen, SeenRow
  <2>2. SeenRow(optPolls[p].got)'
    BY <1>3, <1>5, <1>7 DEF ScorePageInv, RowsSeen, SeenRow
  <2>3. ASSUME NEW q \in Poller \ {p} PROVE SeenRow(optPolls[q].got)'
    BY <1>5, <1>7 DEF ScorePageInv, RowsSeen, SeenRow
  <2>4. QED
    BY <2>1, <2>2, <2>3 DEF RowsSeen
<1>10. ScoreIsFollowed'
  BY <1>2, <1>6 DEF ScorePageInv, ScoreIsFollowed
<1>11. OptimizePolling'
  BY <1>4, <1>5 DEF OptimizePolling
<1>12. ChainIsFollowed' /\ LeftAlone'
  <2>1. \A q \in Poller : InChain(q)' <=> InChain(q)
    BY <1>3, <1>5 DEF InChain
  <2>2. OneChainOfPolls'
    BY <2>1 DEF ScorePageInv, ChainIsFollowed, OneChainOfPolls, InChain
  <2>3. \A q \in Poller : optPolls'[q].at \in {"answered", "freshened"} => optPolls'[q].got.scoring = "complete"
    BY <1>3, <1>5, <1>7 DEF ScorePageInv, ChainIsFollowed
  <2>4. LeftAlone'
    BY <1>2, <1>6 DEF LeftAlone
  <2>5. QED
    BY <1>2, <1>6, <2>1, <2>2, <2>3, <2>4 DEF ScorePageInv, ChainIsFollowed
<1>13. UndisturbedPolls'
  <2>1. Undisturbed' <=> Undisturbed
    BY <1>2 DEF Undisturbed
  <2>2. \A q, r \in Poller : ~pollsCrossed' /\ optPolls'[q].at # "none" /\ optPolls'[r].at # "none" => q = r
    BY <1>2, <1>5, <1>6
  <2>3. ASSUME Undisturbed', NEW q \in Poller
        PROVE  /\ optPolls'[q].at \in {"fresh", "freshened"} =>
                    optimization' = dbScore'.opt /\ dbScore'.opt \notin OptRunning
               /\ optPolls'[q].at = "freshened" => optPolls'[q].got.opt = dbScore'.opt
               /\ optPolls'[q].at = "answered" /\ optPolls'[q].got.opt \notin OptRunning =>
                    optPolls'[q].got.opt = dbScore'.opt
    <3>1. CASE q # p
      <4>1. optPolls'[q].at = "none"
        BY <1>2, <1>5, <1>6, <2>3, <3>1 DEF Undisturbed
      <4>2. QED
        BY <4>1
    <3>2. CASE q = p
      BY <1>2, <1>3, <1>5, <2>1, <2>3, <3>2 DEF ScorePageInv, UndisturbedPolls
    <3>3. QED
      BY <3>1, <3>2
  <2>4. ~pollsCrossed' => pageScore'.opt # "complete"
    BY <1>2, <1>6
  <2>5. QED
    BY <1>11, <2>2, <2>3, <2>4 DEF UndisturbedPolls, Undisturbed
<1>14. QED
  BY <1>8, <1>9, <1>10, <1>12, <1>13 DEF ScorePageInv

\* The answer of a poll: the polling goes on, or the score is asked for.
LEMMA AnswerKeeps ==
  ASSUME ScorePageInv, NEW p \in Poller, OptimizationArrives(p)
  PROVE  ScorePageInv'
<1> USE ScorePageAssumption
<1>1. ScorePageData /\ ScorePageFlags /\ BlankIsExplained
  BY DEF ScorePageShape, ScorePageInv
<1>2. /\ UNCHANGED <<dbScore, pageScore, scoreLoading, scoreError, optError, scorePoll>>
      /\ UNCHANGED <<mounted, underWay, swallowed, pollsCrossed, elsewhere, runs, failures>>
      /\ optPolls[p].at = "answered" /\ optimization' = optPolls[p].got.opt
  BY DEF OptimizationArrives, pageHistory
<1>3. PICK at \in PollAt :
        /\ BecomesPoll(p, at, optPolls[p].got)
        /\ \/ optPolls[p].got.opt \in OptRunning /\ at = "timer" /\ UNCHANGED optLoading
           \/ optPolls[p].got.opt \notin OptRunning /\ at = "fresh" /\ optLoading' = FALSE
  <2>1. {"timer", "fresh"} \subseteq PollAt
    BY DEF PollAt
  <2>2. CASE optPolls[p].got.opt \in OptRunning
    <3>1. BecomesPoll(p, "timer", optPolls[p].got) /\ UNCHANGED optLoading
      BY <1>1, <2>1, <2>2, PollSteps DEF OptimizationArrives, Goes
    <3>2. QED
      BY <2>1, <2>2, <3>1
  <2>3. CASE optPolls[p].got.opt \notin OptRunning
    <3>1. BecomesPoll(p, "fresh", optPolls[p].got) /\ optLoading' = FALSE
      BY <1>1, <2>1, <2>3, PollSteps DEF OptimizationArrives, Goes
    <3>2. QED
      BY <2>1, <2>3, <3>1
  <2>4. QED
    BY <2>2, <2>3
<1>4. /\ optPolls'[p].at = at /\ optPolls'[p].got = optPolls[p].got
      /\ \A q \in Poller \ {p} : optPolls'[q] = optPolls[q]
  BY <1>3 DEF BecomesPoll
<1>5. /\ OptimizePolling /\ (mounted \/ underWay)
      /\ pageScore.scoring = "complete"
      /\ ~pollsCrossed => \A q \in Poller \ {p} : optPolls[q].at = "none"
      /\ ~pollsCrossed => pageScore.opt # "complete"
      /\ scorePoll.at \notin {"asking", "answered", "timer"}
  BY <1>2, PollAlive
<1>6. optPolls[p].got.opt \in OptStatus
  <2>1. optPolls[p].got \in ScoreRow \cup {NoRow}
    BY <1>1 DEF ScorePageData, PollRecord
  <2>2. QED
    BY <2>1 DEF ScoreRow, NoRow, OptStatus
<1>7. ScorePageShape'
  <2>1. optLoading' \in BOOLEAN /\ optimization' \in OptStatus
    BY <1>1, <1>2, <1>3, <1>6 DEF ScorePageFlags
  <2>2. ScorePageFlags' /\ ScorePageData'
    BY <1>1, <1>2, <1>3, <2>1 DEF ScorePageFlags, ScorePageData, BecomesPoll
  <2>3. QED
    BY <1>1, <1>2, <2>2 DEF ScorePageShape, ScorePageFlags, ScorePageData,
       BlankIsExplained, ScorePollRecord, PollRecord, PollAt
<1>8. RowsSeen'
  <2>1. SeenRow(dbScore)' /\ SeenRow(pageScore)' /\ SeenRow(scorePoll.got)'
    BY <1>2 DEF ScorePageInv, RowsSeen, SeenRow
  <2>2. ASSUME NEW q \in Poller PROVE SeenRow(optPolls[q].got)'
    BY <1>2, <1>4 DEF ScorePageInv, RowsSeen, SeenRow
  <2>3. QED
    BY <2>1, <2>2 DEF RowsSeen
<1>9. ScoreIsFollowed'
  <2>1. scorePoll.at = "resume" => scorePoll.got.opt \in {"none", "failed"}
    BY <1>5 DEF ScorePageInv, ScoreIsFollowed
  <2>2. QED
    BY <1>2, <1>5, <2>1 DEF ScorePageInv, ScoreIsFollowed
<1>10. OptimizePolling' /\ at # "none"
  BY <1>3, <1>4 DEF OptimizePolling
<1>11. ChainIsFollowed' /\ LeftAlone'
  <2>1. InChain(p) /\ \A q \in Poller \ {p} : ~InChain(q) /\ ~InChain(q)'
    BY <1>2, <1>4 DEF InChain, ScorePageInv, ChainIsFollowed, OneChainOfPolls
  <2>2. OneChainOfPolls'
    BY <2>1 DEF OneChainOfPolls, InChain
  <2>3. (UNCHANGED optLoading /\ InChain(p)') \/ (optLoading' = FALSE /\ ~InChain(p)')
    BY <1>3, <1>4 DEF InChain
  <2>4. optLoading
    BY <2>1 DEF ScorePageInv, ChainIsFollowed
  <2>5. /\ \A q \in Poller : InChain(q)' => optLoading'
        /\ mounted' /\ optLoading' => \E q \in Poller : InChain(q)'
    <3>1. optLoading' <=> InChain(p)'
      BY <2>3, <2>4
    <3>2. QED
      BY <2>1, <3>1
  <2>6. \A q \in Poller : optPolls'[q].at \in {"answered", "freshened"} => optPolls'[q].got.scoring = "complete"
    BY <1>3, <1>4 DEF ScorePageInv, ChainIsFollowed
  <2>7. LeftAlone'
    BY <1>2, <1>5 DEF LeftAlone
  <2>8. QED
    BY <1>2, <1>5, <2>2, <2>5, <2>6, <2>7 DEF ChainIsFollowed
<1>12. UndisturbedPolls'
  <2>1. Undisturbed' <=> Undisturbed
    BY <1>2 DEF Undisturbed
  <2>2. \A q, r \in Poller : ~pollsCrossed' /\ optPolls'[q].at # "none" /\ optPolls'[r].at # "none" => q = r
    BY <1>2, <1>4, <1>5
  <2>3. ASSUME Undisturbed', NEW q \in Poller
        PROVE  /\ optPolls'[q].at \in {"fresh", "freshened"} =>
                    optimization' = dbScore'.opt /\ dbScore'.opt \notin OptRunning
               /\ optPolls'[q].at = "freshened" => optPolls'[q].got.opt = dbScore'.opt
               /\ optPolls'[q].at = "answered" /\ optPolls'[q].got.opt \notin OptRunning =>
                    optPolls'[q].got.opt = dbScore'.opt
    <3>1. CASE q # p
      <4>1. optPolls'[q].at = "none"
        BY <1>2, <1>4, <1>5, <2>3, <3>1 DEF Undisturbed
      <4>2. QED
        BY <4>1
    <3>2. CASE q = p
      <4>1. optPolls[p].got.opt \notin OptRunning => optPolls[p].got.opt = dbScore.opt
        BY <1>2, <2>1, <2>3 DEF ScorePageInv, UndisturbedPolls
      <4>2. QED
        BY <1>2, <1>3, <1>4, <3>2, <4>1
    <3>3. QED
      BY <3>1, <3>2
  <2>4. ~pollsCrossed' => pageScore'.opt # "complete"
    BY <1>2, <1>5
  <2>5. QED
    BY <1>10, <2>2, <2>3, <2>4 DEF UndisturbedPolls, Undisturbed
<1>13. QED
  BY <1>7, <1>8, <1>9, <1>11, <1>12 DEF ScorePageInv

\* A poll is over: it failed, or the score came in its turn or did not.
LEMMA PollEnds ==
  ASSUME ScorePageInv, NEW p \in Poller, optPolls[p].at # "none", BecomesPoll(p, "none", NoRow),
         UNCHANGED <<dbScore, scoreLoading, scoreError, optimization, scorePoll>>,
         UNCHANGED <<mounted, underWay, pollsCrossed, elsewhere, runs>>, failures' \in 0 .. MaxFailures,
         optLoading' \in BOOLEAN, optError' \in BOOLEAN, swallowed' \in BOOLEAN, swallowed => swallowed',
         InChain(p) => optLoading' = FALSE, ~InChain(p) => UNCHANGED optLoading,
         pageScore' \in ScoreRow, pageScore'.scoring = "complete", SeenRow(pageScore)',
         Undisturbed' /\ pageScore'.opt \in OptRunning => optError',
         Undisturbed' /\ pageScore'.opt = "complete" => optimization = "complete"
  PROVE  ScorePageInv'
<1> USE ScorePageAssumption
<1>1. ScorePageData /\ ScorePageFlags
  BY DEF ScorePageShape, ScorePageInv
<1>2. /\ optPolls'[p].at = "none" /\ optPolls'[p].got = NoRow
      /\ \A q \in Poller \ {p} : optPolls'[q] = optPolls[q]
  BY DEF BecomesPoll
<1>3. /\ OptimizePolling /\ (mounted \/ underWay)
      /\ ~pollsCrossed => \A q \in Poller \ {p} : optPolls[q].at = "none"
      /\ scorePoll.at \notin {"asking", "answered", "timer"}
  BY PollAlive
<1>4. ScorePageShape'
  <2>1. BlankIsExplained'
    BY DEF BlankIsExplained, NoRow, ScoreRow
  <2>2. ScorePageFlags' /\ ScorePageData'
    BY <1>1 DEF ScorePageFlags, ScorePageData, BecomesPoll
  <2>3. QED
    BY <2>1, <2>2 DEF ScorePageShape, ScorePageFlags, ScorePageData,
       BlankIsExplained, ScorePollRecord, PollRecord, PollAt
<1>5. RowsSeen'
  <2>1. SeenRow(dbScore)' /\ SeenRow(scorePoll.got)' /\ SeenRow(NoRow)'
    BY DEF ScorePageInv, RowsSeen, SeenRow, NoRow
  <2>2. ASSUME NEW q \in Poller PROVE SeenRow(optPolls[q].got)'
    BY <1>2, <2>1 DEF ScorePageInv, RowsSeen, SeenRow
  <2>3. QED
    BY <2>1, <2>2 DEF RowsSeen
<1>6. ScoreIsFollowed'
  <2>1. scorePoll.at = "resume" => scorePoll.got.opt \in {"none", "failed"}
    BY <1>3 DEF ScorePageInv, ScoreIsFollowed
  <2>2. QED
    BY <1>3, <2>1 DEF ScorePageInv, ScoreIsFollowed
<1>7. ChainIsFollowed' /\ LeftAlone'
  <2>1. ~InChain(p)' /\ \A q \in Poller \ {p} : InChain(q)' <=> InChain(q)
    BY <1>2 DEF InChain
  <2>2. OneChainOfPolls'
    BY <2>1 DEF OneChainOfPolls, InChain, ScorePageInv, ChainIsFollowed
  <2>3. CASE InChain(p)
    <3>1. \A q \in Poller : ~InChain(q)'
      BY <2>1, <2>3 DEF InChain, ScorePageInv, ChainIsFollowed, OneChainOfPolls
    <3>2. QED
      BY <1>2, <1>3, <2>2, <2>3, <3>1 DEF ScorePageInv, ChainIsFollowed, LeftAlone
  <2>4. CASE ~InChain(p)
    <3>1. /\ \A q \in Poller : InChain(q)' => optLoading'
          /\ mounted' /\ optLoading' => \E q \in Poller : InChain(q)'
      BY <2>1, <2>4 DEF ScorePageInv, ChainIsFollowed
    <3>2. QED
      BY <1>2, <1>3, <2>2, <3>1 DEF ScorePageInv, ChainIsFollowed, LeftAlone
  <2>5. QED
    BY <2>3, <2>4
<1>8. UndisturbedPolls'
  <2>1. ~pollsCrossed' => \A q \in Poller : optPolls'[q].at = "none"
    BY <1>2, <1>3
  <2>2. ~pollsCrossed' => ~OptimizePolling'
    BY <2>1 DEF OptimizePolling
  <2>3. QED
    BY <2>1, <2>2 DEF UndisturbedPolls, Undisturbed
<1>9. QED
  BY <1>4, <1>5, <1>6, <1>7, <1>8 DEF ScorePageInv

\* The request is refused or a call fails; the score comes, or its failure is ignored.
LEMMA PollEndsKeep ==
  ASSUME ScorePageInv, NEW p \in Poller, OptimizeFails(p) \/ FreshArrives(p) \/ FreshFails(p)
  PROVE  ScorePageInv'
<1> USE ScorePageAssumption
<1>1. ScorePageData /\ ScorePageFlags
  BY DEF ScorePageShape, ScorePageInv
<1>2. BecomesPoll(p, "none", NoRow)
  BY <1>1, PollSteps DEF OptimizeFails, FreshArrives, FreshFails
<1>3. optPolls[p].at # "none"
  BY DEF OptimizeFails, FreshArrives, FreshFails
<1>4. /\ pageScore.scoring = "complete"
      /\ ~pollsCrossed => \A q \in Poller \ {p} : optPolls[q].at = "none"
      /\ ~pollsCrossed => pageScore.opt # "complete"
  BY <1>3, PollAlive
<1>5. /\ UNCHANGED <<dbScore, scoreLoading, scoreError, optimization, scorePoll>>
      /\ UNCHANGED <<mounted, underWay, pollsCrossed, elsewhere, runs>>
  BY DEF OptimizeFails, FreshArrives, FreshFails, shownVars, pageHistory
<1>6. failures' \in 0 .. MaxFailures
  BY <1>1 DEF OptimizeFails, FreshArrives, FreshFails, CallFails, ScorePageData
<1>7. pageScore \in ScoreRow /\ SeenRow(pageScore)
  BY <1>1, <1>4 DEF ScorePageData, NoRow, ScorePageInv, RowsSeen
<1>8. UNCHANGED pageScore => pageScore' \in ScoreRow /\ pageScore'.scoring = "complete" /\ SeenRow(pageScore)'
  BY <1>4, <1>5, <1>7 DEF SeenRow
<1>9. CASE OptimizeFails(p)
  <2>1. /\ optError' = TRUE /\ optLoading' = FALSE /\ UNCHANGED <<pageScore, swallowed>>
        /\ optPolls[p].at \in {"requesting", "requested", "asking", "answered"}
    BY <1>9 DEF OptimizeFails, pageHistory
  <2>2. InChain(p)
    BY <2>1 DEF InChain
  <2>3. optLoading' \in BOOLEAN /\ optError' \in BOOLEAN /\ swallowed' \in BOOLEAN
    BY <1>1, <2>1 DEF ScorePageFlags
  <2>4. Undisturbed' => pageScore'.opt # "complete"
    BY <1>4, <1>5, <2>1 DEF Undisturbed
  <2>5. QED
    BY <1>2, <1>3, <1>5, <1>6, <1>8, <2>1, <2>2, <2>3, <2>4, PollEnds
<1>10. CASE FreshArrives(p)
  <2>1. /\ UNCHANGED <<optError, optLoading, swallowed>> /\ pageScore' = optPolls[p].got
        /\ optPolls[p].at = "freshened"
    BY <1>10 DEF FreshArrives, pageHistory
  <2>2. ~InChain(p)
    BY <2>1 DEF InChain
  <2>3. optLoading' \in BOOLEAN /\ optError' \in BOOLEAN /\ swallowed' \in BOOLEAN
    BY <1>1, <2>1 DEF ScorePageFlags
  <2>4. pageScore' \in ScoreRow /\ pageScore'.scoring = "complete" /\ SeenRow(pageScore)'
    <3>1. optPolls[p].got.scoring = "complete" /\ SeenRow(optPolls[p].got)
      BY <2>1 DEF ScorePageInv, ChainIsFollowed, RowsSeen
    <3>2. optPolls[p].got \in ScoreRow \cup {NoRow}
      BY <1>1 DEF ScorePageData, PollRecord
    <3>3. QED
      BY <1>5, <2>1, <3>1, <3>2 DEF NoRow, SeenRow
  <2>5. Undisturbed' => pageScore'.opt \notin OptRunning /\ pageScore'.opt = optimization
    BY <1>5, <2>1 DEF ScorePageInv, UndisturbedPolls, Undisturbed
  <2>6. QED
    BY <1>2, <1>3, <1>5, <1>6, <2>1, <2>2, <2>3, <2>4, <2>5, PollEnds
<1>11. CASE FreshFails(p)
  <2>1. /\ UNCHANGED <<pageScore, optError, optLoading>> /\ swallowed' = TRUE
        /\ optPolls[p].at \in {"fresh", "freshened"}
    BY <1>11 DEF FreshFails, shownVars
  <2>2. ~InChain(p)
    BY <2>1 DEF InChain
  <2>3. optLoading' \in BOOLEAN /\ optError' \in BOOLEAN /\ swallowed' \in BOOLEAN
    BY <1>1, <2>1 DEF ScorePageFlags
  <2>4. ~Undisturbed'
    BY <2>1 DEF Undisturbed
  <2>5. QED
    BY <1>2, <1>3, <1>5, <1>6, <1>8, <2>1, <2>2, <2>3, <2>4, PollEnds
<1>12. QED
  BY <1>9, <1>10, <1>11 DEF OptimizeFails, FreshArrives, FreshFails

\* The page is left.
LEMMA LeavePageKeeps ==
  ASSUME ScorePageInv, LeavePage
  PROVE  ScorePageInv'
<1> USE ScorePageAssumption
<1>1. ScorePageData /\ ScorePageFlags /\ BlankIsExplained
  BY DEF ScorePageShape, ScorePageInv
<1>2. /\ UNCHANGED <<dbScore, pageScore, scoreLoading, scoreError, optimization, optLoading, optError>>
      /\ UNCHANGED <<swallowed, pollsCrossed, elsewhere, runs, failures>>
      /\ mounted' = FALSE
  BY DEF LeavePage, shownVars
<1>3. /\ scorePoll' \in ScorePollRecord /\ scorePoll'.got = scorePoll.got
      /\ scorePoll'.at = IF scorePoll.at = "timer" THEN "over" ELSE scorePoll.at
  <2>1. CASE scorePoll.at = "timer"
    <3>1. scorePoll' = [scorePoll EXCEPT !.at = "over"]
      BY <2>1 DEF LeavePage
    <3>2. QED
      BY <1>1, <2>1, <3>1, ScorePollSteps
  <2>2. CASE scorePoll.at # "timer"
    BY <1>1, <2>2 DEF LeavePage, ScorePageData
  <2>3. QED
    BY <2>1, <2>2
<1>4. /\ optPolls' \in [Poller -> PollRecord]
      /\ \A q \in Poller : optPolls'[q] = IF optPolls[q].at = "timer" THEN Off ELSE optPolls[q]
  <2>1. Off \in PollRecord
    BY DEF Off, PollRecord, PollAt
  <2>2. QED
    BY <1>1, <2>1 DEF LeavePage, ScorePageData
<1>5. Off.at = "none" /\ Off.got = NoRow
  BY DEF Off
<1>6. \A q \in Poller : optPolls'[q] = optPolls[q] \/ (optPolls'[q].at = "none" /\ optPolls'[q].got = NoRow)
  BY <1>4, <1>5
<1>7. underWay' = (\/ scorePoll.at \notin {"timer", "over"}
                   \/ \E p \in Poller : optPolls[p].at \notin {"timer", "none"})
  BY Zenon DEF LeavePage
<1>8. /\ underWay' \in BOOLEAN
      /\ ~underWay' => /\ scorePoll.at \in {"timer", "over"}
                       /\ \A p \in Poller : optPolls[p].at \in {"timer", "none"}
  BY <1>7, Zenon
<1>9. ScorePageShape'
  <2>1. ScorePageFlags' /\ ScorePageData'
    BY <1>1, <1>2, <1>3, <1>4, <1>8 DEF ScorePageFlags, ScorePageData
  <2>2. QED
    BY <1>1, <1>2, <2>1 DEF ScorePageShape, ScorePageFlags, ScorePageData,
       BlankIsExplained, ScorePollRecord, PollRecord, PollAt
<1>10. RowsSeen'
  BY <1>2, <1>3, <1>6 DEF ScorePageInv, RowsSeen, SeenRow, NoRow
<1>11. OptimizePolling' => OptimizePolling
  BY <1>6 DEF OptimizePolling
<1>12. ScoreIsFollowed'
  BY <1>2, <1>3, <1>11 DEF ScorePageInv, ScoreIsFollowed
<1>13. ChainIsFollowed'
  <2>1. \A q \in Poller : InChain(q)' => InChain(q)
    BY <1>6 DEF InChain
  <2>2. OneChainOfPolls'
    BY <2>1 DEF OneChainOfPolls, InChain, ScorePageInv, ChainIsFollowed
  <2>3. QED
    BY <1>2, <1>6, <1>11, <2>1, <2>2 DEF ScorePageInv, ChainIsFollowed
<1>14. LeftAlone'
  <2>1. ~underWay' => scorePoll'.at = "over"
    BY <1>3, <1>8
  <2>2. ~underWay' => \A q \in Poller : optPolls'[q].at = "none"
    BY <1>4, <1>5, <1>8
  <2>3. QED
    BY <2>1, <2>2 DEF LeftAlone, ScorePolling, OptimizePolling
<1>15. UndisturbedPolls'
  BY <1>2, <1>3, <1>6, <1>11 DEF ScorePageInv, UndisturbedPolls, Undisturbed
<1>16. QED
  BY <1>9, <1>10, <1>12, <1>13, <1>14, <1>15 DEF ScorePageInv

\* The page when it is opened.
LEMMA ScorePageStarts == ScorePageInit => ScorePageInv
<1> SUFFICES ASSUME ScorePageInit PROVE ScorePageInv
  OBVIOUS
<1> USE ScorePageAssumption
<1>1. dbScore \in ScoreRow /\ SeenRow(dbScore) /\ SeenRow(NoRow)
  BY DEF ScorePageInit, ScoreRow, OptStatus, SeenRow, NoRow
<1>2. /\ pageScore = NoRow /\ scoreLoading = TRUE /\ scoreError = FALSE
      /\ optimization = "nothing" /\ optLoading = FALSE /\ optError = FALSE
      /\ scorePoll = [at |-> "asking", got |-> NoRow]
      /\ mounted = TRUE /\ underWay = FALSE
      /\ swallowed = FALSE /\ pollsCrossed = FALSE /\ elsewhere = FALSE
      /\ runs = 0 /\ failures = 0
  BY DEF ScorePageInit
<1>3. optPolls \in [Poller -> PollRecord] /\ \A p \in Poller : optPolls[p].at = "none" /\ optPolls[p].got = NoRow
  BY DEF ScorePageInit, Off, PollRecord, PollAt
<1>4. ScorePageShape
  <2>1. 0 \in 0 .. MaxRuns /\ 0 \in 0 .. MaxFailures
    BY DEF ScorePageAssumption
  <2>2. scorePoll \in ScorePollRecord
    BY <1>2 DEF ScorePollRecord
  <2>3. ScorePageFlags /\ ScorePageData /\ BlankIsExplained
    BY <1>1, <1>2, <1>3, <2>1, <2>2 DEF ScorePageFlags, ScorePageData, BlankIsExplained
  <2>4. QED
    BY <2>3 DEF ScorePageShape
<1>5. RowsSeen
  BY <1>1, <1>2, <1>3 DEF RowsSeen
<1>6. ~OptimizePolling
  BY <1>3 DEF OptimizePolling
<1>7. NoRow.scoring = "none" /\ NoRow.opt = "none"
  BY DEF NoRow
<1>8. ScoreIsFollowed /\ ChainIsFollowed
  BY <1>2, <1>3, <1>6, <1>7 DEF ScoreIsFollowed, ChainIsFollowed, OneChainOfPolls, InChain
<1>9. UndisturbedPolls /\ LeftAlone
  BY <1>2, <1>3, <1>6, <1>7 DEF UndisturbedPolls, LeftAlone, OptRunning
<1>10. QED
  BY <1>4, <1>5, <1>8, <1>9 DEF ScorePageInv

\* A step that writes over nothing that has ended keeps this invariant.
LEMMA ScorePageInductive ==
  ScorePageInv /\ ~overwritten' /\ [ScorePageNext]_scorePageVars => ScorePageInv'
<1> SUFFICES ASSUME ScorePageInv, ~overwritten', [ScorePageNext]_scorePageVars PROVE ScorePageInv'
  OBVIOUS
<1>1. CASE UNCHANGED scorePageVars
  BY <1>1 DEF scorePageVars, shownVars, pageHistory, ScorePageInv, ScorePageShape, RowsSeen, SeenRow,
     ScorePageFlags, ScorePageData, BlankIsExplained,
     ScoreIsFollowed, ChainIsFollowed, OneChainOfPolls, InChain, UndisturbedPolls, Undisturbed, LeftAlone,
     ScorePolling, OptimizePolling
<1>2. CASE ScorePageNext
  BY <1>2, RowKeeps, PollScoreKeeps, ResultKeeps, OptimizeKeeps, ServeKeeps, AnswerKeeps, PollEndsKeep,
     LeavePageKeeps DEF ScorePageNext
<1>3. QED
  BY <1>1, <1>2

(***************************************************************************)
(* And what holds whatever the workers write: one chain of polls, which    *)
(* starts when pollScore has shown a complete score, and no timer once the *)
(* page is left.                                                           *)
(***************************************************************************)
AnswersAreRows ==
  /\ scorePoll.at = "answered" => scorePoll.got \in ScoreRow
  /\ \A p \in Poller : optPolls[p].at \in {"answered", "freshened"} => optPolls[p].got \in ScoreRow

ChainIsAlone ==
  /\ OneChainOfPolls
  /\ \A p \in Poller : InChain(p) => optLoading
  /\ scorePoll.at \in {"asking", "answered", "timer"} =>
       ~OptimizePolling /\ ~optLoading /\ pageScore.scoring # "complete"
  /\ scorePoll.at = "resume" /\ scorePoll.got.opt \in OptRunning =>
       ~OptimizePolling /\ ~optLoading /\ pageScore.opt \in OptRunning

AnyRowInv ==
  ScorePageShape /\ overwritten \in BOOLEAN /\ AnswersAreRows /\ ChainIsAlone /\ LeftAlone

\* The steps of the row, of the server for pollScore, and the timer.
LEMMA AnyRowServed ==
  ASSUME AnyRowInv, WorkersScore \/ WorkersOptimize \/ OtherTab \/ ServeScore \/ ScoreTimer
  PROVE  AnyRowInv'
<1> USE ScorePageAssumption
<1>1. ScorePageFlags /\ ScorePageData /\ BlankIsExplained
  BY DEF AnyRowInv, ScorePageShape
<1>2. /\ UNCHANGED <<pageScore, scoreLoading, scoreError, optimization, optLoading, optError>>
      /\ UNCHANGED <<optPolls, mounted, underWay, swallowed, pollsCrossed, failures>>
  BY DEF WorkersScore, WorkersOptimize, OtherTab, ServeScore, ScoreTimer, shownVars, pageHistory
<1>3. overwritten' \in BOOLEAN /\ elsewhere' \in BOOLEAN
  <2>1. CASE WorkersScore
    <3>1. overwritten' = (overwritten \/ dbScore.scoring = "complete") /\ elsewhere' = elsewhere
      BY <2>1 DEF WorkersScore, pageHistory
    <3>2. QED
      BY <1>1, <3>1, Zenon DEF ScorePageFlags, AnyRowInv
  <2>2. CASE WorkersOptimize
    <3>1. overwritten' = (overwritten \/ dbScore.opt \notin OptRunning) /\ elsewhere' = elsewhere
      BY <2>2 DEF WorkersOptimize, pageHistory
    <3>2. QED
      BY <1>1, <3>1, Zenon DEF ScorePageFlags, AnyRowInv
  <2>3. CASE OtherTab
    <3>1. /\ elsewhere' = (elsewhere \/ \E p \in Poller : optPolls[p].at # "none")
          /\ overwritten' = overwritten
      BY <2>3, Zenon DEF OtherTab
    <3>2. QED
      BY <1>1, <3>1, Zenon DEF ScorePageFlags, AnyRowInv
  <2>4. CASE ServeScore \/ ScoreTimer
    BY <1>1, <2>4 DEF ServeScore, ScoreTimer, pageHistory, ScorePageFlags, AnyRowInv
  <2>5. QED
    BY <2>1, <2>2, <2>3, <2>4
<1>4. dbScore' \in ScoreRow /\ runs' \in 0 .. MaxRuns
  <2>1. dbScore \in ScoreRow /\ runs \in 0 .. MaxRuns
    BY <1>1 DEF ScorePageData
  <2>2. UNCHANGED runs \/ OneMoreRun
    BY DEF WorkersScore, WorkersOptimize, OtherTab, ServeScore, ScoreTimer
  <2>3. runs' \in 0 .. MaxRuns
    BY <2>1, <2>2 DEF OneMoreRun
  <2>4. \/ dbScore' = dbScore
        \/ \E s \in {"scoring", "complete", "failed"} : dbScore' = [scoring |-> s, opt |-> dbScore.opt]
        \/ \E o \in {"pending", "optimizing", "complete", "failed"} :
             \E s \in {dbScore.scoring, "complete"} : dbScore' = [scoring |-> s, opt |-> o]
    BY DEF WorkersScore, WorkersOptimize, OtherTab, ServeScore, ScoreTimer, RowBecomes
  <2>5. dbScore' \in ScoreRow
    BY <2>1, <2>4 DEF ScoreRow, OptStatus
  <2>6. QED
    BY <2>3, <2>5
<1>5. /\ scorePoll' \in ScorePollRecord
      /\ \/ scorePoll' = scorePoll
         \/ scorePoll.at = "asking" /\ scorePoll'.at = "answered" /\ scorePoll'.got \in ScoreRow
         \/ scorePoll.at = "result" /\ scorePoll'.at = "resulted"
         \/ scorePoll.at = "timer" /\ scorePoll'.at = "asking"
  BY <1>1 DEF WorkersScore, WorkersOptimize, OtherTab, ServeScore, ScoreTimer, ScorePollRecord, ScorePageData
<1>6. ScorePageShape'
  BY <1>1, <1>2, <1>3, <1>4, <1>5 DEF ScorePageShape, ScorePageFlags, ScorePageData, BlankIsExplained
<1>7. AnswersAreRows'
  BY <1>2, <1>5 DEF AnyRowInv, AnswersAreRows
<1>8. ChainIsAlone'
  BY <1>2, <1>5 DEF AnyRowInv, ChainIsAlone, OneChainOfPolls, InChain, OptimizePolling
<1>9. LeftAlone'
  BY <1>2, <1>5 DEF AnyRowInv, LeftAlone, ScorePolling, OptimizePolling
<1>10. QED
  BY <1>3, <1>6, <1>7, <1>8, <1>9 DEF AnyRowInv

\* The answers of pollScore, but the one that starts a chain of polls.
LEMMA AnyRowScored ==
  ASSUME AnyRowInv, \/ PollScoreArrives \/ PollScoreFails \/ ResultArrives \/ ResultFails
                    \/ ResumeArrives /\ scorePoll.got.opt \notin OptRunning
  PROVE  AnyRowInv'
<1> USE ScorePageAssumption
<1>1. ScorePageFlags /\ ScorePageData /\ BlankIsExplained
  BY DEF AnyRowInv, ScorePageShape
<1>2. /\ UNCHANGED <<dbScore, optLoading, optError, optPolls, mounted, underWay, elsewhere>>
      /\ UNCHANGED <<overwritten, runs>>
  BY DEF PollScoreArrives, PollScoreFails, ResultArrives, ResultFails, ResumeArrives, pageHistory
<1>3. swallowed' \in BOOLEAN /\ pollsCrossed' \in BOOLEAN /\ scoreError' \in BOOLEAN /\ scoreLoading' \in BOOLEAN
  <2>1. CASE ResultArrives
    <3>1. /\ pollsCrossed' = (pollsCrossed \/ optimization \notin {"nothing", scorePoll.got.opt})
          /\ UNCHANGED <<swallowed, scoreError, scoreLoading>>
      BY <2>1, Zenon DEF ResultArrives
    <3>2. QED
      BY <1>1, <3>1, Zenon DEF ScorePageFlags
  <2>2. CASE PollScoreArrives \/ PollScoreFails \/ ResultFails \/ ResumeArrives
    BY <1>1, <2>2 DEF PollScoreArrives, PollScoreFails, ResultFails, ResumeArrives, ShowScore, pageHistory,
                      ScorePageFlags
  <2>3. QED
    BY <2>1, <2>2
<1>4. failures' \in 0 .. MaxFailures
  BY <1>1 DEF PollScoreArrives, PollScoreFails, ResultArrives, ResultFails, ResumeArrives, CallFails, ScorePageData
<1>5. scorePoll.at = "answered" => scorePoll.got \in ScoreRow /\ scorePoll.got # NoRow
  BY DEF AnyRowInv, AnswersAreRows, ScoreRow, NoRow
<1>6. /\ pageScore' \in ScoreRow \cup {NoRow} /\ optimization' \in OptStatus \cup {"nothing"}
      /\ BlankIsExplained'
  <2>1. scorePoll.got.opt \in OptStatus
    BY <1>1 DEF ScorePageData, ScorePollRecord, ScoreRow, NoRow, OptStatus
  <2>2. QED
    BY <1>1, <1>5, <2>1 DEF PollScoreArrives, PollScoreFails, ResultArrives, ResultFails, ResumeArrives, ShowScore,
       ScorePageData, BlankIsExplained, pageHistory
<1>7. /\ scorePoll' \in ScorePollRecord /\ scorePoll'.got = scorePoll.got
      /\ \/ /\ scorePoll.at = "answered" /\ pageScore' = scorePoll.got
            /\ \/ scorePoll'.at = "timer" /\ scorePoll.got.scoring # "complete"
               \/ scorePoll'.at = "resume"
               \/ scorePoll'.at = "over"
         \/ scorePoll'.at = "over" /\ UNCHANGED pageScore
         \/ scorePoll'.at = "result" /\ UNCHANGED pageScore
      /\ scorePoll.at # "over"
  <2>1. PICK at \in {"timer", "resume", "result", "over"} :
          /\ scorePoll' = [scorePoll EXCEPT !.at = at]
          /\ \/ /\ scorePoll.at = "answered" /\ pageScore' = scorePoll.got /\ at # "result"
                /\ at = "timer" => scorePoll.got.scoring # "complete"
             \/ at \in {"over", "result"} /\ UNCHANGED pageScore
          /\ scorePoll.at # "over"
    <3>1. CASE PollScoreArrives
      BY <3>1 DEF PollScoreArrives, ShowScore
    <3>2. CASE PollScoreFails \/ ResultArrives \/ ResultFails \/ ResumeArrives
      BY <3>2 DEF PollScoreFails, ResultArrives, ResultFails, ResumeArrives
    <3>3. QED
      BY <3>1, <3>2
  <2>2. QED
    BY <1>1, <2>1, ScorePollSteps
<1>8. ScorePageShape'
  BY <1>1, <1>2, <1>3, <1>4, <1>6, <1>7 DEF ScorePageShape, ScorePageFlags, ScorePageData
<1>9. AnswersAreRows'
  BY <1>2, <1>7 DEF AnyRowInv, AnswersAreRows
<1>10. ChainIsAlone'
  BY <1>2, <1>7 DEF AnyRowInv, ChainIsAlone, OneChainOfPolls, InChain, OptimizePolling
<1>11. LeftAlone'
  BY <1>2, <1>7 DEF AnyRowInv, LeftAlone, ScorePolling, OptimizePolling
<1>12. QED
  BY <1>2, <1>8, <1>9, <1>10, <1>11 DEF AnyRowInv

\* A chain of polls starts, with the optimization that is shown or with the button.
LEMMA AnyRowStarts ==
  ASSUME AnyRowInv, (ResumeArrives /\ scorePoll.got.opt \in OptRunning) \/ HandleOptimize
  PROVE  AnyRowInv'
<1> USE ScorePageAssumption
<1>1. ScorePageFlags /\ ScorePageData /\ BlankIsExplained
  BY DEF AnyRowInv, ScorePageShape
<1>2. /\ UNCHANGED <<dbScore, pageScore, scoreLoading, scoreError, optimization>>
      /\ UNCHANGED <<mounted, underWay, swallowed, elsewhere, overwritten, runs, failures>>
      /\ optLoading' = TRUE /\ optError' \in {optError, FALSE}
  BY DEF ResumeArrives, HandleOptimize, pageHistory
<1>3. pollsCrossed' \in BOOLEAN
  <2>1. CASE HandleOptimize
    <3>1. pollsCrossed' = (pollsCrossed \/ OptimizePolling)
      BY <2>1, Zenon DEF HandleOptimize
    <3>2. QED
      BY <1>1, <3>1, Zenon DEF ScorePageFlags
  <2>2. CASE ResumeArrives
    BY <1>1, <2>2 DEF ResumeArrives, pageHistory, ScorePageFlags
  <2>3. QED
    BY <2>1, <2>2
<1>4. PICK at \in {"asking", "requesting"}, p \in Poller :
        optPolls[p].at = "none" /\ optPolls' = [optPolls EXCEPT ![p].at = at]
  BY DEF ResumeArrives, HandleOptimize, StartPoll
<1>5. BecomesPoll(p, at, optPolls[p].got)
  BY <1>1, <1>4, PollSteps DEF PollAt
<1>6. /\ scorePoll' \in ScorePollRecord
      /\ \/ scorePoll.at = "resume" /\ scorePoll'.at = "over"
         \/ UNCHANGED scorePoll
      /\ scorePoll.at \notin {"asking", "answered", "timer"}
      /\ scorePoll'.at = "resume" => scorePoll'.got.opt \notin OptRunning
      /\ ~optLoading /\ (mounted \/ scorePoll.at # "over")
  <2>1. CASE HandleOptimize
    <3>1. UNCHANGED scorePoll
      BY <2>1 DEF HandleOptimize
    <3>2. mounted /\ pageScore.scoring = "complete" /\ ~optLoading /\ pageScore.opt \in {"none", "failed"}
      BY <1>1, <2>1, ButtonShown DEF HandleOptimize
    <3>3. QED
      BY <1>1, <3>1, <3>2 DEF AnyRowInv, ChainIsAlone, ScorePageData, OptRunning
  <2>2. CASE ResumeArrives /\ scorePoll.got.opt \in OptRunning
    <3>1. scorePoll' = [scorePoll EXCEPT !.at = "over"]
      BY <2>2 DEF ResumeArrives, OptRunning
    <3>2. QED
      BY <1>1, <2>2, <3>1, ScorePollSteps DEF ResumeArrives, AnyRowInv, ChainIsAlone
  <2>3. QED
    BY <2>1, <2>2
<1>7. ScorePageShape'
  BY <1>1, <1>2, <1>3, <1>5, <1>6 DEF BecomesPoll, ScorePageShape, ScorePageFlags, ScorePageData, BlankIsExplained
<1>8. AnswersAreRows'
  BY <1>5, <1>6 DEF BecomesPoll, AnyRowInv, AnswersAreRows
<1>9. ChainIsAlone'
  <2>1. \A q \in Poller : ~InChain(q)
    BY <1>6 DEF AnyRowInv, ChainIsAlone
  <2>2. \A q \in Poller \ {p} : optPolls'[q].at \in {"none", "fresh", "freshened"}
    BY <1>5, <2>1 DEF BecomesPoll, InChain
  <2>3. OneChainOfPolls'
    BY <2>2 DEF OneChainOfPolls
  <2>4. QED
    BY <1>2, <1>6, <2>3 DEF ChainIsAlone, InChain
<1>10. LeftAlone'
  BY <1>2, <1>6 DEF AnyRowInv, LeftAlone, ScorePolling
<1>11. QED
  BY <1>2, <1>7, <1>8, <1>9, <1>10 DEF AnyRowInv

\* A poll of the optimization goes on or ends.
LEMMA AnyRowPolled ==
  ASSUME AnyRowInv, NEW p \in Poller,
         \/ ServeOptimize(p) \/ PollAgain(p) \/ OptimizationArrives(p)
         \/ OptimizeFails(p) \/ FreshArrives(p) \/ FreshFails(p)
  PROVE  AnyRowInv'
<1> USE ScorePageAssumption
<1>1. ScorePageFlags /\ ScorePageData /\ BlankIsExplained
  BY DEF AnyRowInv, ScorePageShape
<1>2. /\ UNCHANGED <<scoreLoading, scoreError, scorePoll, mounted, underWay, pollsCrossed, elsewhere>>
      /\ UNCHANGED overwritten
      /\ swallowed' \in {swallowed, TRUE} /\ optError' \in {optError, TRUE} /\ optLoading' \in {optLoading, FALSE}
  BY DEF ServeOptimize, PollAgain, OptimizationArrives, OptimizeFails, FreshArrives, FreshFails, shownVars,
         pageHistory
<1>3. dbScore' \in ScoreRow /\ runs' \in 0 .. MaxRuns /\ failures' \in 0 .. MaxFailures
  <2>1. dbScore \in ScoreRow /\ runs \in 0 .. MaxRuns /\ failures \in 0 .. MaxFailures
    BY <1>1 DEF ScorePageData
  <2>2. /\ dbScore' = dbScore \/ dbScore' = [scoring |-> "complete", opt |-> "pending"]
        /\ UNCHANGED runs \/ OneMoreRun
        /\ UNCHANGED failures \/ CallFails
    BY DEF ServeOptimize, PollAgain, OptimizationArrives, OptimizeFails, FreshArrives, FreshFails, RowBecomes
  <2>3. QED
    BY <2>1, <2>2 DEF ScoreRow, OptStatus, OneMoreRun, CallFails
<1>4. optPolls[p].at # "none"
  BY DEF ServeOptimize, PollAgain, OptimizationArrives, OptimizeFails, FreshArrives, FreshFails
<1>5. PICK at \in PollAt, got \in ScoreRow \cup {NoRow} :
        /\ BecomesPoll(p, at, got)
        /\ at \in {"answered", "freshened"} => got \in ScoreRow
        /\ at \notin {"none", "fresh", "freshened"} => InChain(p) /\ UNCHANGED optLoading
        /\ UNCHANGED optLoading \/ InChain(p)
  <2>1. dbScore \in ScoreRow /\ optPolls[p].got \in ScoreRow \cup {NoRow} /\ NoRow \in ScoreRow \cup {NoRow}
    BY <1>1 DEF ScorePageData, PollRecord
  <2>2. CASE ServeOptimize(p)
    <3>1. UNCHANGED optLoading
      BY <2>2 DEF ServeOptimize, shownVars
    <3>2. CASE Goes(p, "requested") /\ optPolls[p].at = "requesting"
      <4>1. BecomesPoll(p, "requested", optPolls[p].got)
        BY <1>1, <3>2, PollSteps DEF Goes, PollAt
      <4>2. QED
        BY <2>1, <3>1, <3>2, <4>1 DEF PollAt, InChain
    <3>3. CASE Reads(p, "answered") /\ optPolls[p].at = "asking"
      <4>1. BecomesPoll(p, "answered", dbScore)
        BY <1>1, <3>3, PollSteps DEF PollAt
      <4>2. QED
        BY <2>1, <3>1, <3>3, <4>1 DEF PollAt, InChain
    <3>4. CASE Reads(p, "freshened") /\ optPolls[p].at = "fresh"
      <4>1. BecomesPoll(p, "freshened", dbScore)
        BY <1>1, <3>4, PollSteps DEF PollAt
      <4>2. QED
        BY <2>1, <3>1, <4>1 DEF PollAt
    <3>5. QED
      BY <2>2, <3>2, <3>3, <3>4 DEF ServeOptimize
  <2>3. CASE PollAgain(p)
    <3>1. BecomesPoll(p, "asking", optPolls[p].got)
      BY <1>1, <2>3, PollSteps DEF PollAgain, Goes, PollAt
    <3>2. QED
      BY <2>1, <2>3, <3>1 DEF PollAgain, shownVars, PollAt, InChain
  <2>4. CASE OptimizationArrives(p)
    <3>1. InChain(p)
      BY <2>4 DEF OptimizationArrives, InChain
    <3>2. CASE Goes(p, "timer") /\ UNCHANGED optLoading
      <4>1. BecomesPoll(p, "timer", optPolls[p].got)
        BY <1>1, <3>2, PollSteps DEF Goes, PollAt
      <4>2. QED
        BY <2>1, <3>1, <3>2, <4>1 DEF PollAt
    <3>3. CASE Goes(p, "fresh")
      <4>1. BecomesPoll(p, "fresh", optPolls[p].got)
        BY <1>1, <3>3, PollSteps DEF Goes, PollAt
      <4>2. QED
        BY <2>1, <3>1, <4>1 DEF PollAt
    <3>4. QED
      BY <2>4, <3>2, <3>3 DEF OptimizationArrives
  <2>5. CASE OptimizeFails(p) \/ FreshArrives(p) \/ FreshFails(p)
    <3>1. BecomesPoll(p, "none", NoRow)
      BY <1>1, <2>5, PollSteps DEF OptimizeFails, FreshArrives, FreshFails
    <3>2. UNCHANGED optLoading \/ InChain(p)
      BY <2>5 DEF OptimizeFails, FreshArrives, FreshFails, shownVars, InChain
    <3>3. QED
      BY <2>1, <3>1, <3>2 DEF PollAt
  <2>6. QED
    BY <2>2, <2>3, <2>4, <2>5
<1>6. /\ pageScore' \in ScoreRow \cup {NoRow} /\ optimization' \in OptStatus \cup {"nothing"}
      /\ pageScore' # pageScore => pageScore' # NoRow
  <2>1. /\ pageScore' = pageScore \/ (optPolls[p].at = "freshened" /\ pageScore' = optPolls[p].got)
        /\ optimization' = optimization \/ optimization' = optPolls[p].got.opt
    BY DEF ServeOptimize, PollAgain, OptimizationArrives, OptimizeFails, FreshArrives, FreshFails, shownVars
  <2>2. optPolls[p].got.opt \in OptStatus
    BY <1>1 DEF ScorePageData, PollRecord, ScoreRow, NoRow, OptStatus
  <2>3. optPolls[p].at = "freshened" => optPolls[p].got \in ScoreRow /\ optPolls[p].got # NoRow
    BY DEF AnyRowInv, AnswersAreRows, ScoreRow, NoRow
  <2>4. QED
    BY <1>1, <2>1, <2>2, <2>3 DEF ScorePageData
<1>7. ScorePageShape'
  <2>1. ScorePageFlags'
    BY <1>1, <1>2 DEF ScorePageFlags
  <2>2. ScorePageData'
    BY <1>1, <1>2, <1>3, <1>5, <1>6 DEF ScorePageData, BecomesPoll
  <2>3. BlankIsExplained'
    BY <1>1, <1>2, <1>6 DEF BlankIsExplained
  <2>4. QED
    BY <2>1, <2>2, <2>3 DEF ScorePageShape
<1>8. AnswersAreRows'
  BY <1>2, <1>5 DEF BecomesPoll, AnyRowInv, AnswersAreRows
<1>9. ChainIsAlone'
  <2>1. \A q \in Poller : InChain(q)' => InChain(q) /\ (q # p => ~InChain(p))
    BY <1>5 DEF BecomesPoll, InChain, AnyRowInv, ChainIsAlone, OneChainOfPolls
  <2>2. OneChainOfPolls'
    BY <2>1 DEF OneChainOfPolls, InChain, AnyRowInv, ChainIsAlone
  <2>3. \A q \in Poller : InChain(q)' => optLoading'
    <3>1. ASSUME NEW q \in Poller, InChain(q)' PROVE UNCHANGED optLoading
      BY <1>5, <2>1, <3>1 DEF BecomesPoll, InChain
    <3>2. QED
      BY <2>1, <3>1 DEF AnyRowInv, ChainIsAlone
  <2>4. OptimizePolling
    BY <1>4 DEF OptimizePolling
  <2>5. QED
    BY <1>2, <2>2, <2>3, <2>4 DEF AnyRowInv, ChainIsAlone
<1>10. LeftAlone'
  <2>1. OptimizePolling
    BY <1>4 DEF OptimizePolling
  <2>2. QED
    BY <1>2, <2>1 DEF AnyRowInv, LeftAlone
<1>11. QED
  BY <1>2, <1>7, <1>8, <1>9, <1>10 DEF AnyRowInv

\* The page is left.
LEMMA AnyRowLeft ==
  ASSUME AnyRowInv, LeavePage
  PROVE  AnyRowInv'
<1> USE ScorePageAssumption
<1>1. ScorePageFlags /\ ScorePageData /\ BlankIsExplained
  BY DEF AnyRowInv, ScorePageShape
<1>2. /\ UNCHANGED <<dbScore, pageScore, scoreLoading, scoreError, optimization, optLoading, optError>>
      /\ UNCHANGED <<swallowed, pollsCrossed, elsewhere, overwritten, runs, failures>>
      /\ mounted' = FALSE
  BY DEF LeavePage, shownVars
<1>3. /\ scorePoll' \in ScorePollRecord /\ scorePoll'.got = scorePoll.got
      /\ scorePoll'.at = IF scorePoll.at = "timer" THEN "over" ELSE scorePoll.at
  <2>1. CASE scorePoll.at = "timer"
    <3>1. scorePoll' = [scorePoll EXCEPT !.at = "over"]
      BY <2>1 DEF LeavePage
    <3>2. QED
      BY <1>1, <2>1, <3>1, ScorePollSteps
  <2>2. CASE scorePoll.at # "timer"
    BY <1>1, <2>2 DEF LeavePage, ScorePageData
  <2>3. QED
    BY <2>1, <2>2
<1>4. /\ optPolls' \in [Poller -> PollRecord]
      /\ \A q \in Poller : optPolls'[q].at = (IF optPolls[q].at = "timer" THEN "none" ELSE optPolls[q].at)
      /\ \A q \in Poller : optPolls[q].at # "timer" => optPolls'[q] = optPolls[q]
  <2>1. Off \in PollRecord /\ Off.at = "none"
    BY DEF Off, PollRecord, PollAt
  <2>2. QED
    BY <1>1, <2>1 DEF LeavePage, ScorePageData
<1>5. underWay' = (\/ scorePoll.at \notin {"timer", "over"}
                   \/ \E p \in Poller : optPolls[p].at \notin {"timer", "none"})
  BY Zenon DEF LeavePage
<1>6. /\ underWay' \in BOOLEAN
      /\ ~underWay' => /\ scorePoll.at \in {"timer", "over"}
                       /\ \A p \in Poller : optPolls[p].at \in {"timer", "none"}
  BY <1>5, Zenon
<1>7. ScorePageShape'
  BY <1>1, <1>2, <1>3, <1>4, <1>6 DEF ScorePageShape, ScorePageFlags, ScorePageData, BlankIsExplained
<1>8. AnswersAreRows'
  BY <1>3, <1>4 DEF AnyRowInv, AnswersAreRows
<1>9. ChainIsAlone'
  <2>1. \A q \in Poller : InChain(q)' => InChain(q)
    BY <1>4 DEF InChain
  <2>2. OneChainOfPolls'
    BY <2>1 DEF OneChainOfPolls, InChain, AnyRowInv, ChainIsAlone
  <2>3. OptimizePolling' => OptimizePolling
    BY <1>4 DEF OptimizePolling
  <2>4. QED
    BY <1>2, <1>3, <2>1, <2>2, <2>3 DEF AnyRowInv, ChainIsAlone
<1>10. LeftAlone'
  <2>1. ~underWay' => scorePoll'.at = "over"
    BY <1>3, <1>6
  <2>2. ~underWay' => \A q \in Poller : optPolls'[q].at = "none"
    BY <1>4, <1>6
  <2>3. QED
    BY <2>1, <2>2 DEF LeftAlone, ScorePolling, OptimizePolling
<1>11. QED
  BY <1>2, <1>7, <1>8, <1>9, <1>10 DEF AnyRowInv

\* Both invariants together.
ScorePageBoth == AnyRowInv /\ (~overwritten => ScorePageInv)

LEMMA ScorePageKeeps == ScorePageBoth /\ [ScorePageNext]_scorePageVars => ScorePageBoth'
<1> SUFFICES ASSUME ScorePageBoth, [ScorePageNext]_scorePageVars PROVE ScorePageBoth'
  OBVIOUS
<1>1. AnyRowInv'
  <2>1. CASE UNCHANGED scorePageVars
    BY <2>1 DEF scorePageVars, shownVars, pageHistory, ScorePageBoth, AnyRowInv, AnswersAreRows, ChainIsAlone,
       ScorePageShape, ScorePageFlags, ScorePageData, BlankIsExplained, OneChainOfPolls, InChain, LeftAlone,
       ScorePolling, OptimizePolling
  <2>2. CASE ScorePageNext
    BY <2>2, AnyRowServed, AnyRowScored, AnyRowStarts, AnyRowPolled, AnyRowLeft DEF ScorePageNext, ScorePageBoth
  <2>3. QED
    BY <2>1, <2>2
<1>2. ASSUME ~overwritten' PROVE ScorePageInv'
  <2>1. ~overwritten
    <3>1. CASE UNCHANGED overwritten
      BY <1>2, <3>1
    <3>2. CASE WorkersScore \/ WorkersOptimize
      BY <1>2, <3>2, Zenon DEF WorkersScore, WorkersOptimize
    <3>3. UNCHANGED overwritten \/ WorkersScore \/ WorkersOptimize
      BY DEF ScorePageNext, scorePageVars, OtherTab, ServeScore, PollScoreArrives, PollScoreFails, ScoreTimer,
         ResumeArrives, ResultArrives, ResultFails, HandleOptimize, LeavePage, ServeOptimize, PollAgain,
         OptimizationArrives, OptimizeFails, FreshArrives, FreshFails
    <3>4. QED
      BY <3>1, <3>2, <3>3
  <2>2. QED
    BY <1>2, <2>1, ScorePageInductive DEF ScorePageBoth
<1>3. QED
  BY <1>1, <1>2 DEF ScorePageBoth

\* The page when it is opened.
LEMMA ScorePageOpens == ScorePageInit => ScorePageBoth
<1> SUFFICES ASSUME ScorePageInit PROVE ScorePageBoth
  OBVIOUS
<1>1. ScorePageInv
  BY ScorePageStarts
<1>2. /\ scorePoll.at = "asking" /\ optLoading = FALSE /\ pageScore.scoring # "complete"
      /\ overwritten = FALSE
  BY DEF ScorePageInit, NoRow
<1>3. \A p \in Poller : optPolls[p].at = "none"
  BY DEF ScorePageInit, Off
<1>4. AnswersAreRows /\ ChainIsAlone
  BY <1>2, <1>3 DEF AnswersAreRows, ChainIsAlone, OneChainOfPolls, InChain, OptimizePolling
<1>5. QED
  BY <1>1, <1>2, <1>4 DEF ScorePageBoth, AnyRowInv, ScorePageInv

\* What the page can show, by the status of the scoring.
LEMMA ShowsByScoring ==
  ASSUME mounted
  PROVE  /\ "error" \in ScorePageShows <=> scoreError
         /\ "analyzing" \in ScorePageShows <=> scoreLoading \/ pageScore.scoring \in {"pending", "scoring"}
         /\ "rewriting" \in ScorePageShows =>
              pageScore.scoring = "complete" /\ (optLoading \/ pageScore.opt \in OptRunning)
         /\ "export" \in ScorePageShows => pageScore.scoring = "complete" /\ pageScore.opt = "complete"
         /\ pageScore.scoring = "complete" /\ pageScore.opt = "complete" /\ optimization = "complete" =>
              "difference" \in ScorePageShows
         /\ pageScore.scoring = "complete" /\ pageScore.opt # "complete" /\ optError =>
              "optimization error" \in ScorePageShows
<1> DEFINE head == (IF scoreError THEN {"error"} ELSE {})
                   \cup (IF scoreLoading \/ pageScore.scoring \in {"pending", "scoring"}
                           THEN {"analyzing"} ELSE {})
<1>1. Controls \in {{"rewriting"}, {"complete", "export"}, {"retry"}, {"optimize"}}
  BY DEF Controls
<1>2. /\ "rewriting" \in Controls => optLoading \/ pageScore.opt \in OptRunning
      /\ "export" \in Controls => pageScore.opt = "complete"
  BY DEF Controls
<1>3. /\ "error" \in head <=> scoreError
      /\ "analyzing" \in head <=> scoreLoading \/ pageScore.scoring \in {"pending", "scoring"}
      /\ head \subseteq {"error", "analyzing"}
  OBVIOUS
<1>4. CASE pageScore.scoring = "failed"
  <2>1. ScorePageShows = head \cup {"scoring failed"}
    BY <1>4 DEF ScorePageShows
  <2> HIDE DEF head
  <2>2. QED
    BY <1>3, <1>4, <2>1
<1>5. CASE pageScore.scoring = "complete" /\ pageScore.opt = "complete"
  <2>1. ScorePageShows = head \cup {"before and after"} \cup Controls
                              \cup (IF optimization = "complete" THEN {"difference"} ELSE {})
    BY <1>5 DEF ScorePageShows
  <2> HIDE DEF head
  <2>2. QED
    BY <1>1, <1>2, <1>3, <1>5, <2>1
<1>6. CASE pageScore.scoring = "complete" /\ pageScore.opt # "complete"
  <2>1. ScorePageShows = head \cup {"baseline"} \cup Controls
                              \cup (IF optError THEN {"optimization error"} ELSE {})
    BY <1>6 DEF ScorePageShows
  <2> HIDE DEF head
  <2>2. QED
    BY <1>1, <1>2, <1>3, <1>6, <2>1
<1>7. CASE pageScore.scoring \notin {"failed", "complete"}
  <2>1. ScorePageShows = head
    BY <1>7 DEF ScorePageShows
  <2> HIDE DEF head
  <2>2. QED
    BY <1>3, <1>7, <2>1
<1>8. QED
  BY <1>4, <1>5, <1>6, <1>7

\* The invariant implies what the page promises.
LEMMA ScorePageIsRight == ScorePageBoth => ScorePageIsLive
<1> SUFFICES ASSUME ScorePageBoth PROVE ScorePageIsLive
  OBVIOUS
<1>1. ~mounted => ScorePageShows = {}
  BY DEF ScorePageShows
<1>2. SpinnerHasAPoller
  <2> SUFFICES ASSUME ScorePageInv, Undisturbed, mounted
               PROVE  /\ "analyzing" \in ScorePageShows => ScorePolling \/ "error" \in ScorePageShows
                      /\ "rewriting" \in ScorePageShows =>
                           ScorePolling \/ OptimizePolling \/ "optimization error" \in ScorePageShows
    BY <1>1 DEF SpinnerHasAPoller, Undisturbed, ScorePageBoth
  <2>1. ASSUME "analyzing" \in ScorePageShows PROVE ScorePolling \/ "error" \in ScorePageShows
    BY <2>1, ShowsByScoring DEF ScorePageInv, ScoreIsFollowed, ScorePolling
  <2>2. ASSUME "rewriting" \in ScorePageShows
        PROVE  ScorePolling \/ OptimizePolling \/ "optimization error" \in ScorePageShows
    <3>1. pageScore.scoring = "complete" /\ (optLoading \/ pageScore.opt \in OptRunning)
      BY <2>2, ShowsByScoring
    <3>2. CASE optLoading
      BY <3>2 DEF ScorePageInv, ChainIsFollowed, InChain, OptimizePolling
    <3>3. CASE pageScore.opt \in OptRunning
      <4>1. pageScore.opt # "complete"
        BY <3>3 DEF OptRunning
      <4>2. ScorePolling \/ OptimizePolling \/ optError
        BY <3>3 DEF ScorePageInv, UndisturbedPolls, ScorePolling
      <4>3. QED
        BY <3>1, <4>1, <4>2, ShowsByScoring
    <3>4. QED
      BY <3>1, <3>2, <3>3
  <2>3. QED
    BY <2>1, <2>2
<1>3. OneChainOfPolls
  BY DEF ScorePageBoth, AnyRowInv, ChainIsAlone
<1>4. CompleteHasAResult
  <2> SUFFICES ASSUME ScorePageInv, "export" \in ScorePageShows, ~ScorePolling, Undisturbed, mounted
               PROVE  "difference" \in ScorePageShows
    BY <1>1 DEF CompleteHasAResult, Undisturbed, ScorePageBoth
  <2>1. pageScore.scoring = "complete" /\ pageScore.opt = "complete"
    BY ShowsByScoring
  <2>2. optimization = "complete"
    BY <2>1 DEF ScorePageInv, UndisturbedPolls, ScorePolling
  <2>3. QED
    BY <2>1, <2>2, ShowsByScoring
<1>5. NothingLeftBehind
  BY DEF NothingLeftBehind, ScorePageBoth, AnyRowInv, LeftAlone, ScorePolling, OptimizePolling
<1>6. QED
  BY <1>2, <1>3, <1>4, <1>5 DEF ScorePageIsLive

(***************************************************************************)
(* scores/[scoreId]/page.tsx: whatever fails, crosses, is asked for in     *)
(* another tab or is written by a worker, one chain of calls follows the   *)
(* optimization and a page that is left stops asking, for any number of    *)
(* runs and failures; and but for the exceptions of ScorePageIsLive, a     *)
(* spinner has a call behind it and what is shown as complete can be       *)
(* exported.                                                               *)
(***************************************************************************)
THEOREM ScorePageStays == ScorePageSpec => []ScorePageIsLive
<1>1. QED
  BY ScorePageOpens, ScorePageKeeps, ScorePageIsRight, PTL DEF ScorePageSpec

(***************************************************************************)
(* scores/[scoreId]/page.tsx:500-506: each piece of the page's state keeps *)
(* its type, and the page is never without a score, a spinner or an error. *)
(***************************************************************************)
THEOREM ScorePageTypeCorrect == ScorePageSpec => []ScorePageTypeOK
<1>1. ScorePageBoth => ScorePageTypeOK
  BY ScorePageParts DEF ScorePageBoth, AnyRowInv
<1>2. QED
  BY <1>1, ScorePageOpens, ScorePageKeeps, PTL DEF ScorePageSpec

-------------------------------------------------------------------------------
(* ApplicationsPage: the tracker.                                            *)

\* The list and the database say the same of an application.
Agrees(a) == listed[a] = storedApps[a] \/ (~IsRow(listed[a]) /\ ~IsRow(storedApps[a]))

Done(c) == appChanges[c].at \in {"applied", "answered"}

(***************************************************************************)
(* What is to come of the one call for an application: a status is shown   *)
(* already, the rest when the answer comes.                                *)
(***************************************************************************)
CallAgrees(c) ==
  LET a == appChanges[c].app
      kind == appChanges[c].kind IN
  /\ kind = "status" =>
       /\ IsRow(listed[a]) /\ appChanges[c].row.status = listed[a].status
       /\ appChanges[c].at = "sent" => storedApps[a] = [listed[a] EXCEPT !.status = appChanges[c].old]
       /\ Done(c) => storedApps[a] = listed[a]
       /\ appChanges[c].at # "refused"
  /\ kind = "edit" => /\ ~Done(c) => Agrees(a)
                      /\ Done(c) => IsRow(listed[a]) /\ storedApps[a] = appChanges[c].row /\ IsRow(storedApps[a])
  /\ kind = "create" => /\ appChanges[c].at = "sent" => ~IsRow(listed[a]) /\ ~IsRow(storedApps[a])
                        /\ Done(c) => storedApps[a] = appChanges[c].row /\ IsRow(storedApps[a])
                        /\ appChanges[c].at # "refused"
  /\ kind = "delete" => /\ ~Done(c) => Agrees(a)
                        /\ Done(c) => storedApps[a] = Gone
                        /\ appChanges[c].at = "answered" => appChanges[c].row = Gone

\* Somebody else wrote it, a failed call did, or it was not on the page.
Excused == unheard \cup strangers \cup beyond

Sound(a) ==
  /\ \A c, d \in Pending(a) : c = d
  /\ listing = "loaded" /\ a \notin Excused =>
       /\ Pending(a) = {} => Agrees(a)
       /\ \A c \in Pending(a) : CallAgrees(c)

CallsAgree == \A a \in App \ overlapped : Sound(a)

\* The text of an application, wherever it is.
IsHome(r, a) == IsRow(r) => r.text \in {a, "typed"}
TextsAtHome ==
  ~retargeted =>
    /\ \A a \in App : IsHome(storedApps[a], a) /\ IsHome(listed[a], a)
    /\ \A c \in Update : appChanges[c].at # "none" => IsHome(appChanges[c].row, appChanges[c].app)
    /\ appForm.mode \in App => appForm.text \in {appForm.mode, "typed"}
    /\ appForm.mode = "create" => appForm.text \in {"blank", "typed"}

\* Save is disabled while it runs, and nothing happens before the list is there.
Saving == {c \in Update : Saves(c) /\ appChanges[c].at # "none"}
SaveWaits ==
  /\ \A c, d \in Saving : c = d
  /\ Saving # {} => submitting
  /\ listing = "loading" =>
       appForm.mode = "closed" /\ \A c \in Update : appChanges[c].at = "none"

TrackerInv == ApplicationsTypeOK /\ CallsAgree /\ TextsAtHome /\ SaveWaits

FormRecord == [mode : App \cup {"closed", "create"}, text : FormText \cup {"blank"}, status : Label]
CallKinds == {"status", "edit", "create", "delete"}
CallRecord == [at : {"sent", "applied", "answered", "refused"}, kind : CallKinds,
               app : App, row : MaybeRow, old : Label]

TrackerData ==
  /\ storedApps \in [App -> MaybeRow]
  /\ listing \in {"loading", "loaded", "failed"}
  /\ listed \in [App -> MaybeRow]
  /\ appForm \in FormRecord
  /\ submitting \in BOOLEAN
  /\ appChanges \in [Update -> {NoChange} \cup CallRecord]
  /\ changesSent \in 0 .. MaxAppChanges /\ losses \in 0 .. MaxLosses
  /\ overlapped \subseteq App /\ unheard \subseteq App /\ retargeted \in BOOLEAN
  /\ beyond \subseteq App /\ strangers \subseteq App
RowsAreSent == \A c \in Update : appChanges[c].at \in {"sent", "applied"} => appChanges[c].row \in Row

\* The type invariant in two parts.
LEMMA TrackerParts == ApplicationsTypeOK <=> TrackerData /\ RowsAreSent
BY DEF ApplicationsTypeOK, TrackerData, RowsAreSent, FormRecord, CallRecord, CallKinds

\* Rows are neither unborn nor gone, and a status is changed alone.
LEMMA RowFacts ==
  /\ \A r \in MaybeRow : (IsRow(r) <=> r \in Row) /\ r.status \in Label
  /\ ~IsRow(Unborn) /\ ~IsRow(Gone) /\ Unborn \in MaybeRow /\ Gone \in MaybeRow
  /\ \A r \in Row, s \in Label :
       /\ [r EXCEPT !.status = s] \in Row
       /\ [r EXCEPT !.status = s].status = s /\ [r EXCEPT !.status = s].text = r.text
  /\ \A r \in Row : IsRow(r) /\ r \in MaybeRow /\ r.text \in FormText
<1>1. \A r \in Row : r.text \notin {"unborn", "gone"} /\ r.text \in FormText /\ r.status \in Label
  BY ApplicationsAssumption DEF Row, FormText
<1>2. Unborn.text = "unborn" /\ Gone.text = "gone" /\ Unborn.status \in Label /\ Gone.status \in Label
  BY ApplicationsAssumption DEF Unborn, Gone
<1>3. \A r \in Row : r \notin {Unborn, Gone}
  BY <1>1, <1>2
<1>4. \A r \in MaybeRow : (IsRow(r) <=> r \in Row) /\ r.status \in Label
  BY <1>1, <1>2, <1>3 DEF MaybeRow, IsRow
<1>5. \A r \in Row, s \in Label :
       /\ [r EXCEPT !.status = s] \in Row
       /\ [r EXCEPT !.status = s].status = s /\ [r EXCEPT !.status = s].text = r.text
  BY DEF Row
<1>6. ~IsRow(Unborn) /\ ~IsRow(Gone) /\ Unborn \in MaybeRow /\ Gone \in MaybeRow
  BY DEF MaybeRow, IsRow
<1>7. \A r \in Row : IsRow(r) /\ r \in MaybeRow
  BY <1>3 DEF MaybeRow, IsRow
<1>8. QED
  BY <1>1, <1>4, <1>5, <1>6, <1>7

\* A change of a status, and back.
LEMMA StatusBack ==
  ASSUME NEW r \in Row, NEW s \in Label
  PROVE  /\ [[r EXCEPT !.status = s] EXCEPT !.status = r.status] = r
         /\ \A q \in Row : q.text = r.text /\ q.status = r.status => q = r
<1>1. \A q \in Row : q.text = r.text /\ q.status = r.status => q = r
  <2>1. \A q \in Row : q = [text |-> q.text, status |-> q.status]
    BY DEF Row
  <2>2. r = [text |-> r.text, status |-> r.status]
    BY <2>1
  <2>3. ASSUME NEW q \in Row, q.text = r.text, q.status = r.status PROVE q = r
    BY <2>1, <2>2, <2>3
  <2>4. QED
    BY <2>3
<1>2. PICK q : q = [r EXCEPT !.status = s]
  OBVIOUS
<1>3. q \in Row /\ q.text = r.text /\ r.status \in Label
  BY <1>2, RowFacts DEF Row
<1>4. [q EXCEPT !.status = r.status] \in Row /\ [q EXCEPT !.status = r.status].text = r.text
      /\ [q EXCEPT !.status = r.status].status = r.status
  BY <1>3, RowFacts
<1>5. PICK p : p = [q EXCEPT !.status = r.status]
  OBVIOUS
<1>6. p = r
  BY <1>1, <1>4, <1>5
<1>7. QED
  BY <1>1, <1>2, <1>5, <1>6

\* A call under way has an application, and none has none.
LEMMA CallFacts ==
  ASSUME TrackerData, NEW c \in Update
  PROVE  /\ appChanges[c].at # "none" => appChanges[c] \in CallRecord /\ appChanges[c].app \in App
                                         /\ c \in Pending(appChanges[c].app)
         /\ appChanges[c].at = "none" => appChanges[c] = NoChange
         /\ NoChange.at = "none" /\ NoChange.kind = "none" /\ NoChange.app \notin App
<1>1. NoChange.at = "none" /\ NoChange.kind = "none" /\ NoChange.app \notin App
  BY ApplicationsAssumption DEF NoChange
<1>2. appChanges[c] \in {NoChange} \cup CallRecord
  BY DEF TrackerData
<1>3. \A r \in CallRecord : r.at # "none" /\ r.app \in App
  BY DEF CallRecord
<1>4. QED
  BY <1>1, <1>2, <1>3 DEF Pending

\* What is sound of an application that a step is not about stays sound.
LEMMA SoundElsewhere ==
  ASSUME NEW a \in App, Sound(a), UNCHANGED listing, Excused \subseteq Excused',
         listed'[a] = listed[a], storedApps'[a] = storedApps[a],
         \A c \in Update : \/ appChanges'[c] = appChanges[c]
                           \/ /\ appChanges[c].at = "none" \/ appChanges[c].app # a
                              /\ appChanges'[c].at = "none" \/ appChanges'[c].app # a
  PROVE  Sound(a)'
<1>1. \A c \in Update : c \in Pending(a)' <=> c \in Pending(a)
  BY DEF Pending
<1>2. Pending(a)' = Pending(a)
  BY <1>1 DEF Pending
<1>3. \A c \in Pending(a) : appChanges'[c] = appChanges[c] /\ appChanges[c].app = a
  BY DEF Pending
<1>4. \A c, d \in Pending(a)' : c = d
  BY <1>2 DEF Sound
<1>5. ASSUME listing' = "loaded", a \notin Excused'
      PROVE  /\ Pending(a)' = {} => Agrees(a)'
             /\ \A c \in Pending(a)' : CallAgrees(c)'
  <2>1. Pending(a)' = {} => Agrees(a)'
    BY <1>2, <1>5 DEF Sound, Agrees
  <2>2. ASSUME NEW c \in Pending(a) PROVE CallAgrees(c)'
    <3>1. CallAgrees(c)
      BY <1>5, <2>2 DEF Sound
    <3>2. QED
      BY <1>3, <2>2, <3>1 DEF CallAgrees, Agrees, Done
  <2>3. QED
    BY <1>2, <2>1, <2>2
<1>6. QED
  BY <1>4, <1>5 DEF Sound

\* The list comes, or does not.
LEMMA LoadAppsKeeps ==
  ASSUME TrackerInv, LoadApps
  PROVE  TrackerInv'
<1>1. TrackerData /\ RowsAreSent
  BY TrackerParts DEF TrackerInv
<1>2. /\ UNCHANGED <<storedApps, changesSent, appForm, submitting, appChanges>>
      /\ UNCHANGED <<overlapped, unheard, retargeted, strangers>> /\ listing = "loading"
      /\ listing' \in {"loaded", "failed"} /\ losses' \in 0 .. MaxLosses
  BY <1>1, ApplicationsAssumption DEF LoadApps, TrackerData
<1>3. /\ listed' \in [App -> MaybeRow] /\ beyond' \subseteq App
      /\ \A a \in App : listed'[a] \in {listed[a], storedApps[a], Unborn}
      /\ listing' = "loaded" => \A a \in App \ beyond' :
            listed'[a] = storedApps[a] \/ (~IsRow(storedApps[a]) /\ ~IsRow(listed'[a]))
  <2>1. CASE listing' = "failed"
    BY <1>1, <1>2, <2>1 DEF LoadApps, TrackerData
  <2>2. CASE listing' = "loaded"
    <3>1. PICK as \in SUBSET App :
            /\ listed' = [a \in App |-> IF a \in as THEN storedApps[a] ELSE Unborn]
            /\ beyond' = {a \in App \ as : IsRow(storedApps[a])}
      BY <2>2 DEF LoadApps
    <3>2. listed' \in [App -> MaybeRow] /\ beyond' \subseteq App
      BY <1>1, <3>1, RowFacts DEF TrackerData
    <3>3. \A a \in App : listed'[a] = IF a \in as THEN storedApps[a] ELSE Unborn
      BY <3>1
    <3>4. \A a \in App \ beyond' :
            listed'[a] = storedApps[a] \/ (~IsRow(storedApps[a]) /\ ~IsRow(listed'[a]))
      BY <3>1, <3>3, RowFacts
    <3>5. QED
      BY <3>2, <3>3, <3>4
  <2>3. QED
    BY <1>2, <2>1, <2>2
<1>4. ApplicationsTypeOK'
  <2>1. TrackerData' /\ RowsAreSent'
    BY <1>1, <1>2, <1>3 DEF TrackerData, RowsAreSent
  <2>2. QED
    BY <2>1, TrackerParts DEF ApplicationsTypeOK, TrackerData, RowsAreSent, FormRecord, CallRecord, CallKinds
<1>5. \A a \in App : Pending(a)' = {}
  BY <1>2 DEF TrackerInv, SaveWaits, Pending
<1>6. CallsAgree'
  <2>1. ASSUME NEW a \in App, listing' = "loaded", a \notin Excused' PROVE Agrees(a)'
    <3>1. a \in App \ beyond'
      BY <2>1 DEF Excused
    <3>2. listed'[a] = storedApps[a] \/ (~IsRow(storedApps[a]) /\ ~IsRow(listed'[a]))
      BY <1>3, <2>1, <3>1
    <3>3. QED
      BY <1>2, <3>2 DEF Agrees, IsRow
  <2>2. QED
    BY <1>5, <2>1 DEF CallsAgree, Sound
<1>7. TextsAtHome'
  <2>1. ASSUME ~retargeted, NEW a \in App PROVE IsHome(listed'[a], a)
    BY <1>3, <2>1, RowFacts DEF TrackerInv, TextsAtHome, IsHome
  <2>2. QED
    BY <1>2, <2>1 DEF TrackerInv, TextsAtHome, IsHome
<1>8. SaveWaits'
  BY <1>2 DEF TrackerInv, SaveWaits, Saving, Saves
<1>9. QED
  BY <1>4, <1>6, <1>7, <1>8 DEF TrackerInv

\* The form is opened, filled and closed.
LEMMA FormKeeps ==
  ASSUME TrackerInv, TypeInForm \/ CancelForm \/ \E mode \in App \cup {"create"} : OpenForm(mode)
  PROVE  TrackerInv'
<1>1. TrackerData /\ RowsAreSent
  BY TrackerParts DEF TrackerInv
<1>2. /\ UNCHANGED <<storedApps, changesSent, listing, listed, submitting, appChanges, losses>>
      /\ UNCHANGED <<overlapped, unheard, beyond, strangers>>
  BY DEF TypeInForm, CancelForm, OpenForm, applicationHistory, elsewhereVars
<1>3. CallsAgree'
  <2>1. \A a \in App \ overlapped : Sound(a)'
    BY <1>2, SoundElsewhere DEF TrackerInv, CallsAgree, Excused
  <2>2. QED
    BY <1>2, <2>1 DEF CallsAgree
<1> DEFINE FormIsRight ==
      /\ appForm' \in FormRecord /\ retargeted' \in BOOLEAN
      /\ ~retargeted' => /\ ~retargeted
                         /\ appForm'.mode \in App => appForm'.text \in {appForm'.mode, "typed"}
                         /\ appForm'.mode = "create" => appForm'.text \in {"blank", "typed"}
      /\ listing = "loading" => appForm'.mode = "closed"
<1>4. ASSUME FormIsRight PROVE TrackerInv'
  <2>1. ApplicationsTypeOK'
    <3>1. TrackerData' /\ RowsAreSent'
      BY <1>1, <1>2, <1>4 DEF TrackerData, RowsAreSent
    <3>2. QED
      BY <3>1, TrackerParts DEF ApplicationsTypeOK, TrackerData, RowsAreSent, FormRecord, CallRecord, CallKinds
  <2>2. TextsAtHome'
    BY <1>2, <1>4 DEF TrackerInv, TextsAtHome, IsHome
  <2>3. SaveWaits'
    BY <1>2, <1>4 DEF TrackerInv, SaveWaits, Saving, Saves
  <2>4. QED
    BY <1>3, <2>1, <2>2, <2>3 DEF TrackerInv
<1>5. ASSUME appForm.mode # "closed", UNCHANGED retargeted, appForm' \in FormRecord,
             appForm'.mode = appForm.mode, appForm'.text \in {appForm.text, "typed"}
      PROVE  FormIsRight
  BY <1>1, <1>5 DEF TrackerData, TrackerInv, TextsAtHome, SaveWaits
<1>6. CASE TypeInForm
  <2>1. appForm.mode # "closed" /\ UNCHANGED retargeted
    BY <1>6 DEF TypeInForm, ApplicationForm, applicationHistory
  <2>2. appForm \in FormRecord
    BY <1>1 DEF TrackerData
  <2>3. /\ appForm' \in FormRecord /\ appForm'.mode = appForm.mode
        /\ appForm'.text \in {appForm.text, "typed"}
    <3>1. CASE appForm' = [appForm EXCEPT !.text = "typed"]
      BY <2>2, <3>1 DEF FormRecord, FormText
    <3>2. ASSUME NEW s \in Label, appForm' = [appForm EXCEPT !.status = s]
          PROVE  /\ appForm' \in FormRecord /\ appForm'.mode = appForm.mode
                 /\ appForm'.text \in {appForm.text, "typed"}
      BY <2>2, <3>2 DEF FormRecord
    <3>3. QED
      BY <1>6, <3>1, <3>2 DEF TypeInForm
  <2>4. QED
    BY <1>4, <1>5, <2>1, <2>3
<1>7. CASE CancelForm
  <2>1. appForm' \in FormRecord /\ appForm'.mode = "closed" /\ UNCHANGED retargeted
    BY <1>7, ApplicationsAssumption DEF CancelForm, ClosedForm, FormRecord, applicationHistory
  <2>2. FormIsRight
    BY <1>1, <2>1, ApplicationsAssumption DEF TrackerData
  <2>3. QED
    BY <1>4, <2>2
<1>8. ASSUME NEW mode \in App \cup {"create"}, OpenForm(mode) PROVE TrackerInv'
  <2>1. retargeted' = (retargeted \/ appForm.mode \notin {"closed", mode})
    BY <1>8, Zenon DEF OpenForm
  <2>2. retargeted' \in BOOLEAN /\ (~retargeted' => ~retargeted /\ appForm.mode \in {"closed", mode})
    BY <2>1, Zenon
  <2>3. CanOpen(mode) /\ listing # "loading"
    BY <1>8 DEF OpenForm, CanOpen, ListView
  <2>4. CASE appForm.mode = "closed"
    <3>1. appForm' = InitialForm(mode)
      BY <1>8, <2>4 DEF OpenForm
    <3>2. CASE mode = "create"
      <4>1. appForm' = [mode |-> "create", text |-> "blank", status |-> "applied"]
        BY <3>1, <3>2 DEF InitialForm, ClosedForm
      <4>2. appForm' \in FormRecord /\ appForm'.mode = "create" /\ appForm'.text = "blank"
        BY <4>1, ApplicationsAssumption DEF FormRecord
      <4>3. QED
        BY <1>4, <2>2, <2>3, <4>2, ApplicationsAssumption
    <3>3. CASE mode # "create"
      <4>1. mode \in App /\ listed[mode] \in Row
        BY <1>1, <2>3, <3>3, RowFacts DEF CanOpen, ListView, TrackerData
      <4>2. appForm' = [mode |-> mode, text |-> listed[mode].text, status |-> listed[mode].status]
        BY <3>1, <3>3 DEF InitialForm
      <4>3. appForm' \in FormRecord /\ appForm'.mode = mode /\ appForm'.text = listed[mode].text
        BY <4>1, <4>2 DEF FormRecord, Row
      <4>4. ~retargeted => appForm'.text \in {mode, "typed"}
        BY <4>1, <4>3, RowFacts DEF TrackerInv, TextsAtHome, IsHome
      <4>5. QED
        BY <1>4, <2>2, <2>3, <3>3, <4>3, <4>4
    <3>4. QED
      BY <3>2, <3>3
  <2>5. CASE appForm.mode # "closed"
    <3>1. appForm' = [appForm EXCEPT !.mode = mode]
      BY <1>8, <2>5 DEF OpenForm
    <3>2. appForm' \in FormRecord /\ appForm'.mode = mode /\ appForm'.text = appForm.text
      BY <1>1, <3>1 DEF TrackerData, FormRecord
    <3>3. FormIsRight
      BY <2>2, <2>3, <2>5, <3>2 DEF TrackerInv, TextsAtHome
    <3>4. QED
      BY <1>4, <3>3
  <2>6. QED
    BY <2>4, <2>5
<1>9. QED
  BY <1>6, <1>7, <1>8

\* A call is made, and it is the only one for its application or overlaps another.
LEMMA SendSteps ==
  ASSUME TrackerData, NEW kind \in CallKinds, NEW a \in App, NEW r \in Row, SendChange(kind, a, r)
  PROVE  /\ changesSent' \in 0 .. MaxAppChanges
         /\ overlapped \subseteq overlapped' /\ overlapped' \subseteq overlapped \cup {a}
         /\ a \notin overlapped' => Pending(a) = {}
         /\ \E c \in Update :
              /\ appChanges[c].at = "none"
              /\ appChanges' \in [Update -> {NoChange} \cup CallRecord]
              /\ appChanges'[c].at = "sent" /\ appChanges'[c].kind = kind /\ appChanges'[c].app = a
              /\ appChanges'[c].row = r /\ (kind = "status" => appChanges'[c].old = listed[a].status)
              /\ \A d \in Update \ {c} : appChanges'[d] = appChanges[d]
<1>1. changesSent' \in 0 .. MaxAppChanges
  BY ApplicationsAssumption DEF SendChange, TrackerData
<1>2. /\ overlapped \subseteq overlapped' /\ overlapped' \subseteq overlapped \cup {a}
      /\ a \notin overlapped' => Pending(a) = {}
  BY DEF SendChange
<1> DEFINE old == IF kind = "status" THEN listed[a].status ELSE "applied"
           call == [at |-> "sent", kind |-> kind, app |-> a, row |-> r, old |-> old]
<1>3. old \in Label
  BY RowFacts, ApplicationsAssumption DEF TrackerData
<1>4. /\ call \in CallRecord
      /\ call.at = "sent" /\ call.kind = kind /\ call.app = a /\ call.row = r
      /\ kind = "status" => call.old = listed[a].status
  BY <1>3, RowFacts DEF CallRecord
<1>5. PICK c \in Update : appChanges[c].at = "none" /\ appChanges' = [appChanges EXCEPT ![c] = call]
  BY DEF SendChange
<1> HIDE DEF old, call
<1>6. /\ appChanges' \in [Update -> {NoChange} \cup CallRecord] /\ appChanges'[c] = call
      /\ \A d \in Update \ {c} : appChanges'[d] = appChanges[d]
  BY <1>4, <1>5 DEF TrackerData
<1>7. QED
  BY <1>1, <1>2, <1>4, <1>5, <1>6

\* A call is made, by the form, the list or the board.
LEMMA SendKeeps ==
  ASSUME TrackerInv, NEW kind \in CallKinds, NEW a \in App, NEW r \in Row, SendChange(kind, a, r),
         UNCHANGED <<storedApps, listing, appForm, losses, unheard, retargeted>>, listing # "loading",
         UNCHANGED <<beyond, strangers>>,
         submitting' \in BOOLEAN, submitting => submitting',
         kind \in {"edit", "create"} => ~submitting /\ submitting',
         listed' \in [App -> MaybeRow], \A b \in App \ {a} : listed'[b] = listed[b],
         kind # "status" => UNCHANGED listed,
         kind = "create" => storedApps[a] = Unborn,
         kind = "status" => listed[a] \in Row /\ listed'[a] = r /\ r.text = listed[a].text,
         ~retargeted => r.text \in {a, "typed"}
  PROVE  TrackerInv'
<1>1. TrackerData /\ RowsAreSent
  BY TrackerParts DEF TrackerInv
<1>2. /\ changesSent' \in 0 .. MaxAppChanges
      /\ overlapped \subseteq overlapped' /\ overlapped' \subseteq overlapped \cup {a}
      /\ a \notin overlapped' => Pending(a) = {}
  BY <1>1, SendSteps
<1>3. PICK c \in Update :
        /\ appChanges[c].at = "none"
        /\ appChanges' \in [Update -> {NoChange} \cup CallRecord]
        /\ appChanges'[c].at = "sent" /\ appChanges'[c].kind = kind /\ appChanges'[c].app = a
        /\ appChanges'[c].row = r /\ (kind = "status" => appChanges'[c].old = listed[a].status)
        /\ \A d \in Update \ {c} : appChanges'[d] = appChanges[d]
  BY <1>1, SendSteps
<1>4. ApplicationsTypeOK'
  <2>1. TrackerData'
    BY <1>1, <1>2, <1>3 DEF TrackerData
  <2>2. RowsAreSent'
    BY <1>1, <1>3 DEF RowsAreSent
  <2>3. QED
    BY <2>1, <2>2, TrackerParts DEF ApplicationsTypeOK, TrackerData, RowsAreSent, FormRecord, CallRecord, CallKinds
<1>5. SaveWaits'
  <2>1. \A d \in Saving' : d \in Saving \/ (d = c /\ kind \in {"edit", "create"})
    BY <1>3 DEF Saving, Saves
  <2>2. kind \in {"edit", "create"} => Saving = {}
    BY DEF TrackerInv, SaveWaits
  <2>3. QED
    BY <2>1, <2>2 DEF TrackerInv, SaveWaits
<1>6. TextsAtHome'
  <2> SUFFICES ASSUME ~retargeted
               PROVE  /\ \A b \in App : IsHome(storedApps[b], b) /\ IsHome(listed'[b], b)
                      /\ \A d \in Update : appChanges'[d].at # "none" => IsHome(appChanges'[d].row, appChanges'[d].app)
    BY DEF TrackerInv, TextsAtHome, IsHome
  <2>1. \A b \in App : IsHome(storedApps[b], b) /\ IsHome(listed[b], b)
    BY DEF TrackerInv, TextsAtHome
  <2>2. IsHome(listed'[a], a)
    BY <2>1, RowFacts DEF IsHome
  <2>3. ASSUME NEW d \in Update, appChanges'[d].at # "none" PROVE IsHome(appChanges'[d].row, appChanges'[d].app)
    <3>1. CASE d = c
      BY <1>3, <3>1 DEF IsHome
    <3>2. CASE d # c
      BY <1>3, <2>3, <3>2 DEF TrackerInv, TextsAtHome
    <3>3. QED
      BY <3>1, <3>2
  <2>4. QED
    BY <2>1, <2>2, <2>3
<1>7. ASSUME NEW b \in App \ overlapped', b # a PROVE Sound(b)'
  <2>1. \A d \in Update : \/ appChanges'[d] = appChanges[d]
                          \/ appChanges[d].at = "none" /\ appChanges'[d].app # b
    BY <1>3, <1>7
  <2>2. Sound(b)
    BY <1>2, <1>7 DEF TrackerInv, CallsAgree
  <2>3. QED
    BY <1>7, <2>1, <2>2, SoundElsewhere DEF Excused
<1>8. ASSUME a \notin overlapped' PROVE Sound(a)'
  <2>1. Pending(a)' = {c}
    BY <1>2, <1>3, <1>8 DEF Pending
  <2>2. ASSUME listing = "loaded", a \notin Excused PROVE CallAgrees(c)'
    <3>1. Agrees(a)
      BY <1>2, <1>8, <2>2 DEF TrackerInv, CallsAgree, Sound
    <3>2. ~Done(c)' /\ appChanges'[c].at # "refused" /\ appChanges'[c].at # "answered"
      BY <1>3 DEF Done
    <3>3. CASE kind = "status"
      <4>1. storedApps[a] = listed[a] /\ IsRow(r) /\ listed[a].status \in Label
        BY <1>1, <3>1, <3>3, RowFacts DEF Agrees, TrackerData
      <4>2. PICK q \in Row : q = listed[a]
        BY <3>3
      <4>3. [r EXCEPT !.status = q.status] = q
        <5>1. [r EXCEPT !.status = q.status] \in Row
          BY <4>1, <4>2, RowFacts
        <5>2. /\ [r EXCEPT !.status = q.status].status = q.status
              /\ [r EXCEPT !.status = q.status].text = q.text
          BY <3>3, <4>1, <4>2, RowFacts
        <5>3. PICK p \in Row : p = [r EXCEPT !.status = q.status]
          BY <5>1
        <5>4. p.status = q.status /\ p.text = q.text
          BY <5>2, <5>3
        <5>5. q.status \in Label
          BY <4>1, <4>2
        <5>6. p = q
          BY <5>4, <5>5, StatusBack
        <5>7. QED
          BY <5>3, <5>6
      <4>4. listed'[a] = r /\ appChanges'[c].row = r
        BY <1>3, <3>3
      <4>5. [r EXCEPT !.status = listed[a].status] = storedApps'[a]
        BY <4>1, <4>2, <4>3
      <4>6. storedApps'[a] = [listed'[a] EXCEPT !.status = appChanges'[c].old]
        BY <1>3, <3>3, <4>4, <4>5
      <4>7. IsRow(listed'[a]) /\ appChanges'[c].row.status = listed'[a].status
        BY <4>1, <4>4
      <4>8. appChanges'[c].kind = "status" /\ appChanges'[c].app = a
        BY <1>3, <3>3
      <4>9. QED
        BY <3>2, <4>6, <4>7, <4>8 DEF CallAgrees, IsRow
    <3>4. CASE kind = "edit" \/ kind = "delete"
      BY <1>3, <3>1, <3>2, <3>4 DEF CallAgrees, Agrees
    <3>5. CASE kind = "create"
      <4>1. ~IsRow(storedApps[a]) /\ ~IsRow(listed[a])
        BY <3>1, <3>5, RowFacts DEF Agrees
      <4>2. QED
        BY <1>3, <3>2, <3>5, <4>1 DEF CallAgrees
    <3>6. QED
      BY <3>3, <3>4, <3>5 DEF CallKinds
  <2>3. QED
    BY <2>1, <2>2 DEF Sound, Excused
<1>9. CallsAgree'
  BY <1>7, <1>8 DEF CallsAgree
<1>10. QED
  BY <1>4, <1>5, <1>6, <1>9 DEF TrackerInv

\* Save, the select or the board, and the bin.
LEMMA HandlersKeep ==
  ASSUME TrackerInv,
         HandleSubmit \/ \E a \in App : HandleDelete(a) \/ \E s \in Label : HandleStatusChange(a, s)
  PROVE  TrackerInv'
<1>1. TrackerData /\ RowsAreSent
  BY TrackerParts DEF TrackerInv
<1>2. submitting \in BOOLEAN /\ appForm \in FormRecord /\ listed \in [App -> MaybeRow]
  BY <1>1 DEF TrackerData
<1>3. CASE HandleSubmit
  <2>1. /\ UNCHANGED <<storedApps, listing, listed, appForm, losses, unheard, retargeted>>
        /\ UNCHANGED <<beyond, strangers>>
        /\ "save" \in ApplicationForm /\ SaveForm /\ submitting' = TRUE
    BY <1>3 DEF HandleSubmit, elsewhereVars
  <2>2. appForm.mode # "closed" /\ ~submitting /\ appForm.text # "blank"
    BY <2>1 DEF ApplicationForm
  <2>3. listing # "loading"
    BY <2>2 DEF TrackerInv, SaveWaits
  <2>4. PICK r : r = [text |-> appForm.text, status |-> appForm.status]
    OBVIOUS
  <2>5. r \in Row /\ r.text = appForm.text
    BY <1>2, <2>2, <2>4 DEF Row, FormRecord
  <2>6. CASE \E a \in App : appForm.mode = "create" /\ storedApps[a] = Unborn /\ SendChange("create", a, r)
    <3>1. PICK a \in App : storedApps[a] = Unborn /\ SendChange("create", a, r)
      BY <2>6
    <3>2. ~retargeted => r.text \in {a, "typed"}
      BY <2>2, <2>5, <2>6 DEF TrackerInv, TextsAtHome
    <3>3. QED
      BY <1>2, <2>1, <2>2, <2>3, <2>5, <3>1, <3>2, SendKeeps DEF CallKinds
  <2>7. CASE appForm.mode \in App /\ SendChange("edit", appForm.mode, r)
    <3>1. PICK a \in App : a = appForm.mode
      BY <2>7
    <3>2. SendChange("edit", a, r)
      BY <2>7, <3>1
    <3>3. ~retargeted => r.text \in {a, "typed"}
      BY <2>5, <2>7, <3>1 DEF TrackerInv, TextsAtHome
    <3>4. QED
      BY <1>2, <2>1, <2>2, <2>3, <2>5, <3>2, <3>3, SendKeeps DEF CallKinds
  <2>8. QED
    BY <2>1, <2>4, <2>6, <2>7 DEF SaveForm
<1>4. ASSUME NEW a \in App, HandleDelete(a) PROVE TrackerInv'
  <2>1. /\ UNCHANGED <<storedApps, listing, listed, appForm, submitting, losses, unheard, retargeted>>
        /\ UNCHANGED <<beyond, strangers>> /\ a \in ListView /\ SendChange("delete", a, listed[a])
    BY <1>4 DEF HandleDelete, elsewhereVars
  <2>2. listing # "loading" /\ listed[a] \in Row
    BY <1>2, <2>1, RowFacts DEF ListView
  <2>3. ~retargeted => listed[a].text \in {a, "typed"}
    BY <2>2, RowFacts DEF TrackerInv, TextsAtHome, IsHome
  <2>4. QED
    BY <1>2, <2>1, <2>2, <2>3, SendKeeps DEF CallKinds
<1>5. ASSUME NEW a \in App, NEW s \in Label, HandleStatusChange(a, s) PROVE TrackerInv'
  <2>1. /\ UNCHANGED <<storedApps, listing, appForm, submitting, losses, unheard, retargeted>>
        /\ UNCHANGED <<beyond, strangers>> /\ a \in ListView
        /\ SendChange("status", a, [listed[a] EXCEPT !.status = s])
        /\ listed' = [listed EXCEPT ![a].status = s]
    BY <1>5 DEF HandleStatusChange, Column, elsewhereVars
  <2>2. listing # "loading" /\ listed[a] \in Row
    BY <1>2, <2>1, RowFacts DEF ListView
  <2>3. PICK r : r = [listed[a] EXCEPT !.status = s]
    OBVIOUS
  <2>4. r \in Row /\ r.text = listed[a].text
    BY <2>2, <2>3, RowFacts
  <2>5. ~retargeted => r.text \in {a, "typed"}
    BY <2>2, <2>4, RowFacts DEF TrackerInv, TextsAtHome, IsHome
  <2>6. SendChange("status", a, r)
    BY <2>1, <2>3
  <2>7. /\ listed' \in [App -> MaybeRow] /\ listed'[a] = r
        /\ \A b \in App \ {a} : listed'[b] = listed[b]
    BY <1>2, <2>1, <2>3, <2>4, RowFacts
  <2>8. QED
    BY <1>2, <2>1, <2>2, <2>4, <2>5, <2>6, <2>7, SendKeeps DEF CallKinds
<1>6. QED
  BY <1>3, <1>4, <1>5

\* A step of one call: the other applications are as sound as before.
LEMMA OthersSound ==
  ASSUME TrackerInv, NEW c \in Update, NEW a \in App, appChanges[c].at # "none", appChanges[c].app = a,
         appChanges'[c].at = "none" \/ appChanges'[c].app = a,
         \A d \in Update \ {c} : appChanges'[d] = appChanges[d],
         UNCHANGED <<overlapped, listing>>, Excused \subseteq Excused',
         \A b \in App \ {a} : listed'[b] = listed[b] /\ storedApps'[b] = storedApps[b],
         a \notin overlapped => Sound(a)'
  PROVE  CallsAgree'
<1>1. ASSUME NEW b \in App \ overlapped, b # a PROVE Sound(b)'
  <2>1. Sound(b)
    BY <1>1 DEF TrackerInv, CallsAgree
  <2>2. \A d \in Update : \/ appChanges'[d] = appChanges[d]
                          \/ /\ appChanges[d].at = "none" \/ appChanges[d].app # b
                             /\ appChanges'[d].at = "none" \/ appChanges'[d].app # b
    BY <1>1
  <2>3. QED
    BY <1>1, <2>1, <2>2, SoundElsewhere
<1>2. QED
  BY <1>1 DEF CallsAgree

\* The only call for an application that no two calls are about.
LEMMA OnlyCall ==
  ASSUME TrackerInv, NEW c \in Update, NEW a \in App, appChanges[c].at # "none", appChanges[c].app = a,
         a \notin overlapped
  PROVE  /\ Pending(a) = {c}
         /\ listing = "loaded" /\ a \notin Excused => CallAgrees(c)
<1>1. c \in Pending(a)
  BY DEF Pending
<1>2. Sound(a)
  BY DEF TrackerInv, CallsAgree
<1>3. QED
  BY <1>1, <1>2 DEF Sound

\* What a call under way is.
LEMMA CallUnderWay ==
  ASSUME TrackerInv, NEW c \in Update, appChanges[c].at # "none"
  PROVE  /\ TrackerData /\ RowsAreSent /\ listing # "loading"
         /\ appChanges[c] \in CallRecord /\ appChanges[c].app \in App /\ appChanges[c].kind \in CallKinds
         /\ appChanges[c].row \in MaybeRow /\ appChanges[c].old \in Label
         /\ appChanges[c].at \in {"sent", "applied"} => appChanges[c].row \in Row
         /\ ~retargeted => IsHome(appChanges[c].row, appChanges[c].app)
<1>1. TrackerData /\ RowsAreSent
  BY TrackerParts DEF TrackerInv
<1>2. appChanges[c] \in CallRecord
  BY <1>1, CallFacts
<1>3. /\ appChanges[c].app \in App /\ appChanges[c].kind \in CallKinds
      /\ appChanges[c].row \in MaybeRow /\ appChanges[c].old \in Label
  BY <1>2 DEF CallRecord
<1>4. listing # "loading"
  BY DEF TrackerInv, SaveWaits
<1>5. ~retargeted => IsHome(appChanges[c].row, appChanges[c].app)
  BY DEF TrackerInv, TextsAtHome
<1>6. QED
  BY <1>1, <1>2, <1>3, <1>4, <1>5 DEF RowsAreSent

\* A call reaches the database, which may have no such row.
LEMMA ApplyKeeps ==
  ASSUME TrackerInv, NEW c \in Update, ApplyChange(c)
  PROVE  TrackerInv'
<1>1. appChanges[c].at = "sent"
  BY DEF ApplyChange
<1>2. PICK a, kind, r, o : /\ a = appChanges[c].app /\ kind = appChanges[c].kind
                           /\ r = appChanges[c].row /\ o = appChanges[c].old
  OBVIOUS
<1>3. /\ TrackerData /\ RowsAreSent /\ listing # "loading" /\ appChanges[c] \in CallRecord
      /\ a \in App /\ kind \in CallKinds /\ r \in Row /\ o \in Label
      /\ ~retargeted => IsHome(r, a)
  BY <1>1, <1>2, CallUnderWay
<1>4. UNCHANGED <<changesSent, listing, listed, appForm, submitting, losses, overlapped, unheard, retargeted,
                  beyond, strangers>>
  BY DEF ApplyChange, applicationHistory, elsewhereVars
<1>5. \E at \in {"applied", "refused"} :
        /\ appChanges' = [appChanges EXCEPT ![c].at = at]
        /\ at = "applied" => /\ kind = "create" \/ IsRow(storedApps[a])
                             /\ storedApps' = [storedApps EXCEPT ![a] = NewRow(c)]
        /\ at = "refused" => kind # "create" /\ ~IsRow(storedApps[a]) /\ UNCHANGED storedApps
  <2>1. CASE kind = "create" \/ IsRow(storedApps[a])
    BY <1>2, <2>1 DEF ApplyChange
  <2>2. CASE ~(kind = "create" \/ IsRow(storedApps[a]))
    BY <1>2, <2>2 DEF ApplyChange
  <2>3. QED
    BY <2>1, <2>2
<1>6. PICK at \in {"applied", "refused"} :
        /\ appChanges' = [appChanges EXCEPT ![c].at = at]
        /\ at = "applied" => /\ kind = "create" \/ IsRow(storedApps[a])
                             /\ storedApps' = [storedApps EXCEPT ![a] = NewRow(c)]
        /\ at = "refused" => kind # "create" /\ ~IsRow(storedApps[a]) /\ UNCHANGED storedApps
  BY <1>5
<1>7. /\ appChanges'[c].at = at /\ appChanges'[c].kind = kind /\ appChanges'[c].app = a
      /\ appChanges'[c].row = r /\ appChanges'[c].old = o /\ appChanges'[c] \in CallRecord
  <2>1. appChanges'[c] = [appChanges[c] EXCEPT !.at = at]
    BY <1>3, <1>6 DEF TrackerData
  <2>2. QED
    BY <1>2, <1>3, <2>1 DEF CallRecord
<1>8. \A d \in Update \ {c} : appChanges'[d] = appChanges[d]
  BY <1>3, <1>6 DEF TrackerData
<1>9. appChanges' \in [Update -> {NoChange} \cup CallRecord]
  <2>1. appChanges' = [d \in Update |-> appChanges'[d]]
    BY <1>3, <1>6 DEF TrackerData
  <2>2. \A d \in Update : appChanges'[d] \in {NoChange} \cup CallRecord
    BY <1>3, <1>7, <1>8 DEF TrackerData
  <2>3. QED
    BY <2>1, <2>2
<1>10. /\ at = "applied" /\ kind = "status" =>
            storedApps[a] \in Row /\ NewRow(c) = [storedApps[a] EXCEPT !.status = r.status] /\ r.status \in Label
       /\ kind = "delete" => NewRow(c) = Gone
       /\ kind \in {"edit", "create"} => NewRow(c) = r
  BY <1>2, <1>3, <1>6, RowFacts DEF NewRow, TrackerData
<1>11. at = "applied" => NewRow(c) \in MaybeRow /\ (~retargeted => IsHome(NewRow(c), a))
  <2> SUFFICES ASSUME at = "applied" PROVE NewRow(c) \in MaybeRow /\ (~retargeted => IsHome(NewRow(c), a))
    OBVIOUS
  <2>1. CASE kind = "status"
    <3>1. ~retargeted => storedApps[a].text \in {a, "typed"}
      BY <1>3, <1>10, <2>1, RowFacts DEF TrackerInv, TextsAtHome, IsHome
    <3>2. PICK q \in Row : q = storedApps[a]
      BY <1>10, <2>1
    <3>3. /\ [q EXCEPT !.status = r.status] \in Row
          /\ [q EXCEPT !.status = r.status].text = q.text
      BY <1>10, <2>1, RowFacts
    <3>4. QED
      BY <1>10, <2>1, <3>1, <3>2, <3>3, RowFacts DEF IsHome
  <2>2. CASE kind = "delete"
    BY <1>10, <2>2, RowFacts DEF IsHome
  <2>3. CASE kind \in {"edit", "create"}
    BY <1>3, <1>10, <2>3, RowFacts
  <2>4. QED
    BY <1>3, <2>1, <2>2, <2>3 DEF CallKinds
<1>12. /\ storedApps' \in [App -> MaybeRow] /\ \A b \in App \ {a} : storedApps'[b] = storedApps[b]
       /\ at = "applied" => storedApps'[a] = NewRow(c)
       /\ at = "refused" => storedApps' = storedApps
  BY <1>3, <1>6, <1>11 DEF TrackerData
<1>13. ApplicationsTypeOK'
  <2>1. TrackerData'
    BY <1>3, <1>4, <1>9, <1>12 DEF TrackerData
  <2>2. RowsAreSent'
    BY <1>3, <1>7, <1>8 DEF RowsAreSent
  <2>3. QED
    BY <2>1, <2>2, TrackerParts DEF ApplicationsTypeOK, TrackerData, RowsAreSent, FormRecord, CallRecord, CallKinds
<1>14. SaveWaits'
  <2>1. \A d \in Saving' : d \in Saving
    BY <1>1, <1>2, <1>7, <1>8 DEF Saving, Saves
  <2>2. QED
    BY <1>3, <1>4, <2>1 DEF TrackerInv, SaveWaits
<1>15. TextsAtHome'
  <2> SUFFICES ASSUME ~retargeted
               PROVE  /\ \A b \in App : IsHome(storedApps'[b], b)
                      /\ \A d \in Update : appChanges'[d].at # "none" => IsHome(appChanges'[d].row, appChanges'[d].app)
    BY <1>4 DEF TrackerInv, TextsAtHome, IsHome
  <2>1. \A b \in App : IsHome(storedApps[b], b)
    BY DEF TrackerInv, TextsAtHome
  <2>2. \A b \in App : IsHome(storedApps'[b], b)
    BY <1>11, <1>12, <2>1
  <2>3. \A d \in Update : appChanges'[d].at # "none" => IsHome(appChanges'[d].row, appChanges'[d].app)
    BY <1>3, <1>7, <1>8 DEF TrackerInv, TextsAtHome
  <2>4. QED
    BY <2>2, <2>3
<1>16. ASSUME a \notin overlapped PROVE Sound(a)'
  <2>1. Pending(a) = {c} /\ (listing = "loaded" /\ a \notin Excused => CallAgrees(c))
    BY <1>1, <1>2, <1>3, <1>16, OnlyCall
  <2>2. \A d \in Update : d \in Pending(a)' <=> d \in Pending(a)
    BY <1>1, <1>2, <1>7, <1>8 DEF Pending
  <2>3. Pending(a)' = {c}
    BY <2>1, <2>2 DEF Pending
  <2>4. ASSUME listing = "loaded", a \notin Excused PROVE CallAgrees(c)'
    <3>1. CallAgrees(c) /\ ~Done(c)
      BY <1>1, <2>1, <2>4 DEF Done
    <3>2. CASE kind = "status"
      <4>1. IsRow(listed[a]) /\ r.status = listed[a].status /\ storedApps[a] = [listed[a] EXCEPT !.status = o]
        BY <1>1, <1>2, <3>1, <3>2 DEF CallAgrees
      <4>2. PICK q \in Row : q = listed[a]
        BY <1>3, <4>1, RowFacts DEF TrackerData
      <4>3. [q EXCEPT !.status = o] \in Row
        BY <1>3, RowFacts
      <4>4. at = "applied"
        BY <1>6, <4>1, <4>2, <4>3, RowFacts
      <4>5. [[q EXCEPT !.status = o] EXCEPT !.status = q.status] = q
        BY <1>3, StatusBack
      <4>6. storedApps'[a] = q
        BY <1>10, <1>12, <3>2, <4>1, <4>2, <4>4, <4>5
      <4>7. QED
        BY <1>4, <1>7, <3>2, <4>1, <4>2, <4>4, <4>6 DEF CallAgrees, IsRow
    <3>3. CASE kind = "edit"
      <4>1. Agrees(a)
        BY <1>2, <3>1, <3>3 DEF CallAgrees
      <4>2. CASE at = "applied"
        <5>1. IsRow(listed[a]) /\ storedApps'[a] = r /\ IsRow(r)
          BY <1>3, <1>6, <1>10, <1>12, <3>3, <4>1, <4>2, RowFacts DEF Agrees
        <5>2. QED
          BY <1>4, <1>7, <3>3, <4>2, <5>1 DEF CallAgrees, Done, IsRow
      <4>3. CASE at = "refused"
        BY <1>4, <1>7, <1>12, <3>3, <4>1, <4>3 DEF CallAgrees, Done, Agrees, IsRow
      <4>4. QED
        BY <4>2, <4>3
    <3>4. CASE kind = "create"
      <4>1. at = "applied" /\ storedApps'[a] = r /\ IsRow(r)
        BY <1>3, <1>6, <1>10, <1>12, <3>4, RowFacts
      <4>2. QED
        BY <1>7, <3>4, <4>1 DEF CallAgrees, Done, IsRow
    <3>5. CASE kind = "delete"
      <4>1. Agrees(a)
        BY <1>2, <3>1, <3>5 DEF CallAgrees
      <4>2. CASE at = "applied"
        <5>1. storedApps'[a] = Gone
          BY <1>10, <1>12, <3>5, <4>2
        <5>2. QED
          BY <1>7, <3>5, <4>2, <5>1 DEF CallAgrees, Done
      <4>3. CASE at = "refused"
        BY <1>4, <1>7, <1>12, <3>5, <4>1, <4>3 DEF CallAgrees, Done, Agrees, IsRow
      <4>4. QED
        BY <4>2, <4>3
    <3>6. QED
      BY <1>3, <3>2, <3>3, <3>4, <3>5 DEF CallKinds
  <2>5. QED
    BY <1>4, <2>3, <2>4 DEF Sound, Excused
<1>17. CallsAgree'
  BY <1>1, <1>2, <1>3, <1>4, <1>7, <1>8, <1>12, <1>16, OthersSound DEF Excused
<1>18. QED
  BY <1>13, <1>14, <1>15, <1>17 DEF TrackerInv

\* The answer is on its way, with the row as it is now.
LEMMA CallAnswerKeeps ==
  ASSUME TrackerInv, NEW c \in Update, AnswerChange(c)
  PROVE  TrackerInv'
<1>1. appChanges[c].at = "applied"
  BY DEF AnswerChange
<1>2. PICK a, kind, r, o : /\ a = appChanges[c].app /\ kind = appChanges[c].kind
                           /\ r = storedApps[a] /\ o = appChanges[c].old
  OBVIOUS
<1>3. /\ TrackerData /\ RowsAreSent /\ listing # "loading" /\ appChanges[c] \in CallRecord
      /\ a \in App /\ kind \in CallKinds /\ o \in Label
  BY <1>1, <1>2, CallUnderWay
<1>4. UNCHANGED <<storedApps, changesSent, listing, listed, appForm, submitting, losses, overlapped,
                  unheard, retargeted, beyond, strangers>>
  BY DEF AnswerChange, applicationHistory, elsewhereVars
<1>5. r \in MaybeRow /\ (~retargeted => IsHome(r, a))
  BY <1>2, <1>3 DEF TrackerData, TrackerInv, TextsAtHome
<1>6. PICK at : at = IF kind = "delete" \/ IsRow(r) THEN "answered" ELSE "refused"
  OBVIOUS
<1>7. /\ appChanges' = [appChanges EXCEPT ![c].row = r, ![c].at = at]
      /\ at \in {"answered", "refused"} /\ (at = "refused" => kind # "delete" /\ ~IsRow(r))
  BY <1>2, <1>6 DEF AnswerChange
<1>8. /\ appChanges'[c].at = at /\ appChanges'[c].kind = kind /\ appChanges'[c].app = a
      /\ appChanges'[c].row = r /\ appChanges'[c].old = o /\ appChanges'[c] \in CallRecord
  <2>1. appChanges'[c] = [appChanges[c] EXCEPT !.row = r, !.at = at]
    BY <1>3, <1>7 DEF TrackerData
  <2>2. PICK p \in CallRecord : p = appChanges[c]
    BY <1>3
  <2>3. PICK q : q = [p EXCEPT !.row = r, !.at = at]
    OBVIOUS
  <2>4. q \in CallRecord /\ q.at = at /\ q.row = r /\ q.kind = p.kind /\ q.app = p.app /\ q.old = p.old
    BY <1>5, <1>7, <2>3 DEF CallRecord
  <2>5. QED
    BY <1>2, <2>1, <2>2, <2>3, <2>4
<1>9. \A d \in Update \ {c} : appChanges'[d] = appChanges[d]
  BY <1>3, <1>7 DEF TrackerData
<1>10. appChanges' \in [Update -> {NoChange} \cup CallRecord]
  <2>1. appChanges' = [d \in Update |-> appChanges'[d]]
    BY <1>3, <1>7 DEF TrackerData
  <2>2. \A d \in Update : appChanges'[d] \in {NoChange} \cup CallRecord
    BY <1>3, <1>8, <1>9 DEF TrackerData
  <2>3. QED
    BY <2>1, <2>2
<1>11. ApplicationsTypeOK'
  <2>1. TrackerData'
    BY <1>3, <1>4, <1>10 DEF TrackerData
  <2>2. RowsAreSent'
    BY <1>3, <1>7, <1>8, <1>9 DEF RowsAreSent
  <2>3. QED
    BY <2>1, <2>2, TrackerParts DEF ApplicationsTypeOK, TrackerData, RowsAreSent, FormRecord, CallRecord, CallKinds
<1>12. SaveWaits'
  <2>1. \A d \in Saving' : d \in Saving
    BY <1>1, <1>2, <1>8, <1>9 DEF Saving, Saves
  <2>2. QED
    BY <1>3, <1>4, <2>1 DEF TrackerInv, SaveWaits
<1>13. TextsAtHome'
  <2>1. ASSUME ~retargeted
        PROVE  \A d \in Update : appChanges'[d].at # "none" => IsHome(appChanges'[d].row, appChanges'[d].app)
    BY <1>5, <1>8, <1>9, <2>1 DEF TrackerInv, TextsAtHome
  <2>2. QED
    BY <1>4, <2>1 DEF TrackerInv, TextsAtHome, IsHome
<1>14. ASSUME a \notin overlapped PROVE Sound(a)'
  <2>1. Pending(a) = {c} /\ (listing = "loaded" /\ a \notin Excused => CallAgrees(c))
    BY <1>1, <1>2, <1>3, <1>14, OnlyCall
  <2>2. \A d \in Update : d \in Pending(a)' <=> d \in Pending(a)
    BY <1>1, <1>2, <1>7, <1>8, <1>9 DEF Pending
  <2>3. Pending(a)' = {c}
    BY <2>1, <2>2 DEF Pending
  <2>4. ASSUME listing = "loaded", a \notin Excused PROVE CallAgrees(c)'
    <3>1. CallAgrees(c) /\ Done(c)
      BY <1>1, <2>1, <2>4 DEF Done
    <3>2. /\ kind = "status" => IsRow(listed[a]) /\ r = listed[a]
          /\ kind = "edit" => IsRow(listed[a]) /\ IsRow(r)
          /\ kind = "create" => IsRow(r)
          /\ kind = "delete" => r = Gone
      BY <1>2, <3>1 DEF CallAgrees
    <3>3. at = "answered"
      BY <1>3, <1>7, <3>2 DEF CallKinds
    <3>4. QED
      BY <1>2, <1>4, <1>8, <3>2, <3>3 DEF CallAgrees, Done, IsRow
  <2>5. QED
    BY <1>4, <2>3, <2>4 DEF Sound, Excused
<1>15. CallsAgree'
  BY <1>1, <1>2, <1>3, <1>4, <1>8, <1>9, <1>14, OthersSound DEF Excused
<1>16. QED
  BY <1>11, <1>12, <1>13, <1>15 DEF TrackerInv

\* A call is over: what it leaves on the page is what it leaves in the database.
LEMMA EndKeeps ==
  ASSUME TrackerInv, NEW c \in Update, appChanges[c].at # "none", EndChange(c),
         NEW a \in App, a = appChanges[c].app,
         UNCHANGED <<storedApps, changesSent, listing, overlapped, retargeted, beyond, strangers>>,
         losses' \in 0 .. MaxLosses, unheard \subseteq unheard', unheard' \subseteq App,
         listed' \in [App -> MaybeRow], \A b \in App \ {a} : listed'[b] = listed[b],
         ~retargeted => IsHome(listed'[a], a),
         appForm' \in FormRecord, appForm'.mode = "closed" \/ UNCHANGED appForm,
         submitting' \in BOOLEAN, Saves(c) \/ UNCHANGED submitting,
         CallAgrees(c) /\ a \notin Excused' => Agrees(a)'
  PROVE  TrackerInv'
<1>1. TrackerData /\ RowsAreSent /\ listing # "loading" /\ appChanges[c] \in CallRecord
  BY CallUnderWay
<1>2. NoChange.at = "none" /\ NoChange.kind = "none"
  BY DEF NoChange
<1>3. /\ appChanges' \in [Update -> {NoChange} \cup CallRecord] /\ appChanges'[c] = NoChange
      /\ \A d \in Update \ {c} : appChanges'[d] = appChanges[d]
  BY <1>1 DEF EndChange, TrackerData
<1>4. ApplicationsTypeOK'
  <2>1. TrackerData'
    BY <1>1, <1>3 DEF TrackerData
  <2>2. RowsAreSent'
    BY <1>1, <1>2, <1>3 DEF RowsAreSent
  <2>3. QED
    BY <2>1, <2>2, TrackerParts DEF ApplicationsTypeOK, TrackerData, RowsAreSent, FormRecord, CallRecord, CallKinds
<1>5. SaveWaits'
  <2>1. \A d \in Saving' : d \in Saving /\ d # c
    BY <1>2, <1>3 DEF Saving, Saves
  <2>2. CASE Saves(c)
    <3>1. c \in Saving
      BY <2>2 DEF Saving
    <3>2. Saving' = {}
      BY <2>1, <3>1 DEF TrackerInv, SaveWaits
    <3>3. QED
      BY <1>1, <3>2 DEF SaveWaits
  <2>3. CASE UNCHANGED submitting
    BY <1>1, <2>1, <2>3 DEF TrackerInv, SaveWaits
  <2>4. QED
    BY <2>2, <2>3
<1>6. TextsAtHome'
  <2> SUFFICES ASSUME ~retargeted
               PROVE  /\ \A b \in App : IsHome(storedApps[b], b) /\ IsHome(listed'[b], b)
                      /\ \A d \in Update : appChanges'[d].at # "none" => IsHome(appChanges'[d].row, appChanges'[d].app)
                      /\ appForm'.mode \in App => appForm'.text \in {appForm'.mode, "typed"}
                      /\ appForm'.mode = "create" => appForm'.text \in {"blank", "typed"}
    BY DEF TextsAtHome, IsHome
  <2>1. \A b \in App : IsHome(storedApps[b], b) /\ IsHome(listed'[b], b)
    BY DEF TrackerInv, TextsAtHome
  <2>2. \A d \in Update : appChanges'[d].at # "none" => IsHome(appChanges'[d].row, appChanges'[d].app)
    BY <1>2, <1>3 DEF TrackerInv, TextsAtHome
  <2>3. "closed" \notin App
    BY ApplicationsAssumption
  <2>4. /\ appForm'.mode \in App => appForm'.text \in {appForm'.mode, "typed"}
        /\ appForm'.mode = "create" => appForm'.text \in {"blank", "typed"}
    BY <2>3 DEF TrackerInv, TextsAtHome
  <2>5. QED
    BY <2>1, <2>2, <2>4
<1>7. ASSUME a \notin overlapped PROVE Sound(a)'
  <2>1. Pending(a) = {c} /\ (listing = "loaded" /\ a \notin Excused => CallAgrees(c))
    BY <1>7, OnlyCall
  <2>2. \A d \in Update : d \notin Pending(a)'
    BY <1>2, <1>3, <2>1 DEF Pending
  <2>3. Pending(a)' = {}
    BY <2>2 DEF Pending
  <2>4. listing' = "loaded" /\ a \notin Excused' => Agrees(a)'
    BY <2>1 DEF Excused
  <2>5. QED
    BY <2>3, <2>4 DEF Sound
<1>8. CallsAgree'
  BY <1>2, <1>3, <1>7, OthersSound DEF Excused
<1>9. QED
  BY <1>4, <1>5, <1>6, <1>8 DEF TrackerInv

\* The page hears that a call succeeded.
LEMMA ArrivesKeeps ==
  ASSUME TrackerInv, NEW c \in Update, ChangeArrives(c)
  PROVE  TrackerInv'
<1>1. appChanges[c].at = "answered" /\ EndChange(c)
  BY DEF ChangeArrives
<1>2. PICK a, kind, r : a = appChanges[c].app /\ kind = appChanges[c].kind /\ r = appChanges[c].row
  OBVIOUS
<1>3. /\ TrackerData /\ a \in App /\ kind \in CallKinds /\ r \in MaybeRow
      /\ ~retargeted => IsHome(r, a)
  BY <1>1, <1>2, CallUnderWay
<1>4. UNCHANGED <<storedApps, changesSent, listing, losses, overlapped, unheard, retargeted,
                  beyond, strangers>>
  BY DEF ChangeArrives, applicationHistory, elsewhereVars
<1>5. listed' = IF kind \in {"create", "delete"} \/ (kind = "edit" /\ IsRow(listed[a]))
                  THEN [listed EXCEPT ![a] = r] ELSE listed
  BY <1>2 DEF ChangeArrives
<1>6. /\ listed' \in [App -> MaybeRow] /\ \A b \in App \ {a} : listed'[b] = listed[b]
      /\ kind \in {"create", "delete"} \/ (kind = "edit" /\ IsRow(listed[a])) => listed'[a] = r
      /\ listed'[a] \in {r, listed[a]}
      /\ kind = "status" => listed'[a] = listed[a]
  BY <1>3, <1>5 DEF TrackerData
<1>7. ~retargeted => IsHome(listed'[a], a)
  BY <1>3, <1>6 DEF TrackerInv, TextsAtHome
<1>8. /\ appForm' \in FormRecord /\ (appForm'.mode = "closed" \/ UNCHANGED appForm)
      /\ submitting' \in BOOLEAN /\ (Saves(c) \/ UNCHANGED submitting)
  <2>1. CASE Saves(c)
    <3>1. submitting' = FALSE /\ appForm' = ClosedForm
      BY <2>1 DEF ChangeArrives
    <3>2. QED
      BY <2>1, <3>1, ApplicationsAssumption DEF ClosedForm, FormRecord
  <2>2. CASE ~Saves(c)
    BY <1>3, <2>2 DEF ChangeArrives, TrackerData
  <2>3. QED
    BY <2>1, <2>2
<1>9. CallAgrees(c) => Agrees(a)'
  <2> SUFFICES ASSUME CallAgrees(c) PROVE listed'[a] = storedApps[a]
    BY <1>4 DEF Agrees
  <2>1. Done(c)
    BY <1>1 DEF Done
  <2>2. /\ kind = "status" => storedApps[a] = listed[a]
        /\ kind = "edit" => IsRow(listed[a]) /\ storedApps[a] = r
        /\ kind = "create" => storedApps[a] = r
        /\ kind = "delete" => storedApps[a] = Gone /\ r = Gone
    BY <1>1, <1>2, <2>1 DEF CallAgrees
  <2>3. QED
    BY <1>3, <1>6, <2>2 DEF CallKinds
<1>10. losses' \in 0 .. MaxLosses /\ unheard' \subseteq App /\ unheard \subseteq unheard'
  BY <1>3, <1>4 DEF TrackerData
<1>11. QED
  BY <1>1, <1>2, <1>3, <1>4, <1>6, <1>7, <1>8, <1>9, <1>10, EndKeeps

\* The page hears that a call failed, and puts a status back.
LEMMA FailsKeeps ==
  ASSUME TrackerInv, NEW c \in Update, ChangeFails(c)
  PROVE  TrackerInv'
<1>1. appChanges[c].at # "none" /\ EndChange(c) /\ Falls(c)
  BY DEF ChangeFails, Falls
<1>2. PICK a, kind, o : a = appChanges[c].app /\ kind = appChanges[c].kind /\ o = appChanges[c].old
  OBVIOUS
<1>3. TrackerData /\ a \in App /\ kind \in CallKinds /\ o \in Label /\ appChanges[c] \in CallRecord
  BY <1>1, <1>2, CallUnderWay
<1>4. UNCHANGED <<storedApps, changesSent, listing, appForm, overlapped, retargeted, beyond,
                  strangers>>
  BY DEF ChangeFails, elsewhereVars
<1>5. PICK q \in MaybeRow : q = listed[a]
  BY <1>3 DEF TrackerData
<1>6. PICK p : p = [q EXCEPT !.status = o]
  OBVIOUS
<1>7. q \in Row => p \in Row /\ p.text = q.text
  BY <1>3, <1>6, RowFacts
<1>8. kind = "status" /\ IsRow(q) => listed' = [listed EXCEPT ![a] = p]
  <2>1. SUFFICES ASSUME kind = "status", IsRow(q) PROVE listed' = [listed EXCEPT ![a] = p]
    OBVIOUS
  <2>2. listed' = [listed EXCEPT ![a].status = o]
    BY <1>2, <1>5, <2>1 DEF ChangeFails
  <2>3. QED
    BY <1>3, <1>5, <1>6, <2>2 DEF TrackerData
<1>9. ~(kind = "status" /\ IsRow(q)) => listed' = listed
  BY <1>2, <1>5 DEF ChangeFails
<1>10. /\ listed' \in [App -> MaybeRow] /\ \A b \in App \ {a} : listed'[b] = listed[b]
       /\ kind = "status" /\ IsRow(q) => listed'[a] = p /\ p \in Row /\ p.text = q.text
       /\ ~(kind = "status" /\ IsRow(q)) => listed'[a] = q
  <2>1. CASE kind = "status" /\ IsRow(q)
    BY <1>3, <1>5, <1>7, <1>8, <2>1, RowFacts DEF TrackerData
  <2>2. CASE ~(kind = "status" /\ IsRow(q))
    BY <1>3, <1>5, <1>9, <2>2 DEF TrackerData
  <2>3. QED
    BY <2>1, <2>2
<1>11. ~retargeted => IsHome(listed'[a], a)
  BY <1>3, <1>5, <1>10 DEF TrackerInv, TextsAtHome, IsHome
<1>12. /\ losses' \in 0 .. MaxLosses /\ unheard \subseteq unheard' /\ unheard' \subseteq App
       /\ appChanges[c].at # "refused" /\ a \notin Excused' => appChanges[c].at = "sent"
  BY <1>1, <1>2, <1>3, ApplicationsAssumption DEF Falls, TrackerData, CallRecord, Excused
<1>13. submitting' \in BOOLEAN /\ (Saves(c) \/ UNCHANGED submitting)
  <2>1. submitting' = (submitting /\ ~Saves(c))
    BY DEF ChangeFails
  <2>2. submitting \in BOOLEAN
    BY <1>3 DEF TrackerData
  <2>3. QED
    BY <2>1, <2>2, Zenon
<1>14. CallAgrees(c) /\ a \notin Excused' => Agrees(a)'
  <2> SUFFICES ASSUME CallAgrees(c), a \notin Excused' PROVE Agrees(a)'
    OBVIOUS
  <2>1. appChanges[c].at \in {"sent", "refused"} /\ ~Done(c)
    BY <1>12 DEF Done
  <2>2. CASE kind = "status"
    <3>1. IsRow(q) /\ storedApps[a] = p
      BY <1>2, <1>5, <1>6, <2>1, <2>2 DEF CallAgrees
    <3>2. QED
      BY <1>4, <1>10, <2>2, <3>1 DEF Agrees
  <2>3. CASE kind \in {"edit", "delete"}
    <3>1. Agrees(a)
      BY <1>2, <2>1, <2>3 DEF CallAgrees
    <3>2. QED
      BY <1>4, <1>5, <1>10, <2>3, <3>1 DEF Agrees, IsRow
  <2>4. CASE kind = "create"
    <3>1. ~IsRow(q) /\ ~IsRow(storedApps[a])
      BY <1>2, <1>5, <2>1, <2>4 DEF CallAgrees
    <3>2. QED
      BY <1>4, <1>10, <2>4, <3>1 DEF Agrees, IsRow
  <2>5. QED
    BY <1>3, <2>2, <2>3, <2>4 DEF CallKinds
<1>15. appForm' \in FormRecord
  BY <1>3, <1>4 DEF TrackerData
<1>16. QED
  BY <1>1, <1>2, <1>3, <1>4, <1>10, <1>11, <1>12, <1>13, <1>14, <1>15, EndKeeps

\* Another tab, or the extension, writes a row: the list need not know.
LEMMA StrangerKeeps ==
  ASSUME TrackerInv, NEW a \in App, WriteElsewhere(a)
  PROVE  TrackerInv'
<1>1. TrackerData /\ RowsAreSent
  BY TrackerParts DEF TrackerInv
<1>2. /\ UNCHANGED <<changesSent, listing, listed, appForm, submitting, appChanges, losses>>
      /\ UNCHANGED <<overlapped, unheard, retargeted, beyond>> /\ strangers' = strangers \cup {a}
  BY DEF WriteElsewhere
<1>3. PICK r \in MaybeRow : /\ storedApps' = [storedApps EXCEPT ![a] = r]
                            /\ ~retargeted => IsHome(r, a)
  <2>1. CASE storedApps' = [storedApps EXCEPT ![a] = [text |-> a, status |-> "applied"]]
    <3>1. PICK r : r = [text |-> a, status |-> "applied"]
      OBVIOUS
    <3>2. r \in Row /\ r.text = a
      BY <3>1, ApplicationsAssumption DEF Row, FormText
    <3>3. QED
      BY <2>1, <3>1, <3>2, RowFacts DEF IsHome
  <2>2. ASSUME IsRow(storedApps[a]),
               NEW r \in {Gone} \cup [text : {storedApps[a].text, "typed"}, status : Label],
               storedApps' = [storedApps EXCEPT ![a] = r]
        PROVE  r \in MaybeRow /\ (~retargeted => IsHome(r, a))
    <3>1. storedApps[a] \in Row /\ storedApps[a].text \in FormText
      BY <1>1, <2>2, RowFacts DEF TrackerData
    <3>2. ~retargeted => storedApps[a].text \in {a, "typed"}
      BY <2>2 DEF TrackerInv, TextsAtHome, IsHome
    <3>3. r = Gone \/ (r \in Row /\ r.text \in {storedApps[a].text, "typed"})
      BY <2>2, <3>1 DEF Row, FormText
    <3>4. QED
      BY <3>2, <3>3, RowFacts DEF IsHome
  <2>3. QED
    BY <2>1, <2>2 DEF WriteElsewhere
<1>4. storedApps' \in [App -> MaybeRow] /\ storedApps'[a] = r
      /\ \A b \in App \ {a} : storedApps'[b] = storedApps[b]
  BY <1>1, <1>3 DEF TrackerData
<1>5. ApplicationsTypeOK'
  <2>1. TrackerData' /\ RowsAreSent'
    BY <1>1, <1>2, <1>4 DEF TrackerData, RowsAreSent
  <2>2. QED
    BY <2>1, TrackerParts DEF ApplicationsTypeOK, TrackerData, RowsAreSent, FormRecord, CallRecord, CallKinds
<1>6. CallsAgree'
  <2>1. ASSUME NEW b \in App \ overlapped, b # a PROVE Sound(b)'
    <3>1. Sound(b) /\ storedApps'[b] = storedApps[b]
      BY <1>4, <2>1 DEF TrackerInv, CallsAgree
    <3>2. QED
      BY <1>2, <3>1, SoundElsewhere DEF Excused
  <2>2. ASSUME a \notin overlapped PROVE Sound(a)'
    <3>1. \A c, d \in Pending(a)' : c = d
      BY <1>2, <2>2 DEF TrackerInv, CallsAgree, Sound, Pending
    <3>2. a \in Excused'
      BY <1>2 DEF Excused
    <3>3. QED
      BY <3>1, <3>2 DEF Sound
  <2>3. QED
    BY <1>2, <2>1, <2>2 DEF CallsAgree
<1>7. TextsAtHome'
  <2>1. ASSUME ~retargeted, NEW b \in App PROVE IsHome(storedApps'[b], b)
    BY <1>3, <1>4, <2>1 DEF TrackerInv, TextsAtHome
  <2>2. QED
    BY <1>2, <2>1 DEF TrackerInv, TextsAtHome, IsHome
<1>8. SaveWaits'
  BY <1>2 DEF TrackerInv, SaveWaits, Saving, Saves
<1>9. QED
  BY <1>5, <1>6, <1>7, <1>8 DEF TrackerInv

\* The invariant is inductive.
LEMMA TrackerStarts == ApplicationsInit => TrackerInv
<1> SUFFICES ASSUME ApplicationsInit PROVE TrackerInv
  OBVIOUS
<1> USE DEF ApplicationsInit
<1>1. NoChange.at = "none" /\ NoChange.kind = "none"
  BY DEF NoChange
<1>2. ApplicationsTypeOK
  <2>1. ClosedForm \in FormRecord
    BY ApplicationsAssumption DEF ClosedForm, FormRecord
  <2>2. 0 \in 0 .. MaxAppChanges /\ 0 \in 0 .. MaxLosses
    BY ApplicationsAssumption
  <2>3. TrackerData
    BY <2>1, <2>2, RowFacts DEF TrackerData
  <2>4. RowsAreSent
    BY <1>1 DEF RowsAreSent
  <2>5. QED
    BY <2>3, <2>4, TrackerParts
<1>3. CallsAgree
  BY <1>1 DEF CallsAgree, Sound, Pending
<1>4. TextsAtHome
  <2>1. \A a \in App : IsHome([text |-> a, status |-> "applied"], a)
    BY DEF IsHome
  <2>2. \A a \in App : IsHome(Unborn, a)
    BY RowFacts DEF IsHome
  <2>3. \A a \in App : IsHome(storedApps[a], a) /\ IsHome(listed[a], a)
    BY <2>1, <2>2
  <2>4. appForm.mode \notin App /\ appForm.mode # "create"
    BY ApplicationsAssumption DEF ClosedForm
  <2>5. QED
    BY <1>1, <2>3, <2>4 DEF TextsAtHome
<1>5. SaveWaits
  BY <1>1 DEF SaveWaits, Saving, Saves, ClosedForm
<1>6. QED
  BY <1>2, <1>3, <1>4, <1>5 DEF TrackerInv

\* Every step of the tracker keeps the invariant.
LEMMA TrackerKeeps == TrackerInv /\ [ApplicationsNext]_applicationsVars => TrackerInv'
<1> SUFFICES ASSUME TrackerInv, [ApplicationsNext]_applicationsVars PROVE TrackerInv'
  OBVIOUS
<1>1. CASE LoadApps
  BY <1>1, LoadAppsKeeps
<1>2. CASE TypeInForm \/ CancelForm \/ \E mode \in App \cup {"create"} : OpenForm(mode)
  BY <1>2, FormKeeps
<1>3. CASE HandleSubmit \/ \E a \in App : HandleDelete(a) \/ \E s \in Label : HandleStatusChange(a, s)
  BY <1>3, HandlersKeep
<1>4. CASE \E c \in Update : ApplyChange(c) \/ AnswerChange(c) \/ ChangeArrives(c) \/ ChangeFails(c)
  BY <1>4, ApplyKeeps, CallAnswerKeeps, ArrivesKeeps, FailsKeeps
<1>5. CASE \E a \in App : WriteElsewhere(a)
  BY <1>5, StrangerKeeps
<1>6. CASE UNCHANGED applicationsVars
  BY <1>6 DEF applicationsVars, applicationHistory, elsewhereVars, TrackerInv, ApplicationsTypeOK,
              CallsAgree, Sound, Excused,
              Pending, CallAgrees, Agrees, Done, TextsAtHome, IsHome, SaveWaits, Saving, Saves
<1>7. QED
  BY <1>1, <1>2, <1>3, <1>4, <1>5, <1>6 DEF ApplicationsNext

(***************************************************************************)
(* applications/page.tsx: whatever the number of applications, of calls,   *)
(* of failures and of other writers, and whatever the size of the page     *)
(* that the API answers, the list shows what is stored of an application   *)
(* that was on it and that nobody else wrote, a text stays with its        *)
(* application, and one save runs at a time.                               *)
(***************************************************************************)
THEOREM TrackerStays == ApplicationsSpec => []TrackerAgrees
<1>1. TrackerInv => TrackerAgrees
  <2> SUFFICES ASSUME TrackerInv PROVE TrackerAgrees
    OBVIOUS
  <2>1. ListedIsStored
    <3>1. ASSUME listing = "loaded", NEW a \in App \ (overlapped \cup Excused), Pending(a) = {}
          PROVE  Agrees(a)
      BY <3>1 DEF TrackerInv, CallsAgree, Sound
    <3>2. QED
      BY <3>1 DEF ListedIsStored, Agrees, Excused
  <2>2. TextsStayHome
    BY DEF TrackerInv, TextsAtHome, TextsStayHome, IsHome
  <2>3. OneSaveAtATime
    BY DEF TrackerInv, SaveWaits, Saving, OneSaveAtATime
  <2>4. QED
    BY <2>1, <2>2, <2>3 DEF TrackerAgrees
<1>2. QED
  BY TrackerStarts, TrackerKeeps, <1>1, PTL DEF ApplicationsSpec

\* applications/page.tsx: the state of the tracker keeps its type.
THEOREM ApplicationsTypeCorrect == ApplicationsSpec => []ApplicationsTypeOK
<1>1. TrackerInv => ApplicationsTypeOK
  BY DEF TrackerInv
<1>2. QED
  BY TrackerStarts, TrackerKeeps, <1>1, PTL DEF ApplicationsSpec

===============================================================================
