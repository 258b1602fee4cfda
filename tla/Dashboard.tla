-------------------------------- MODULE Dashboard --------------------------------
(***************************************************************************)
(* The dashboard: DashboardService.getSummary, whose queries run side by   *)
(* side while resumes are uploaded and parsed, scores are computed and     *)
(* either is deleted, and the page, which merges what they return into one *)
(* feed and shows the newest score in a ring.                              *)
(***************************************************************************)
EXTENDS Integers, Sequences, FiniteSets

CONSTANTS
  MaxRows,       \* bound: rows that are created, of either kind
  ResumesRead,   \* the LIMIT of the resumes' query
  ScoresRead,    \* the LIMIT of the scores' query
  FeedLength     \* the length of the feed

ASSUME DashboardAssumption ==
  MaxRows \in Nat /\ {ResumesRead, ScoresRead, FeedLength} \subseteq Nat \ {0}

VARIABLES
  entries,       \* the resume versions and scores in the order of created_at
  openedAt,      \* how many there were when the page was opened
  resumesPart,   \* what getRecentResumes has returned
  scoresPart,    \* what getRecentScores has returned
  dashboard      \* the page: closed, loading, shown or failed

dashboardVars == <<entries, openedAt, resumesPart, scoresPart, dashboard>>

\* "low" stands for the scores below 80, "high" for the others, "null" for none.
Deleted == [kind |-> "deleted", status |-> "any", score |-> "null"]
NewEntry(kind) ==
  [kind |-> kind, status |-> IF kind = "resume" THEN "any" ELSE "pending", score |-> "null"]
DashboardRows ==
  {Deleted, NewEntry("resume")} \cup
  [kind : {"score"}, status : {"pending", "complete", "failed"}, score : {"null", "low", "high"}]

\* What a query returned: a list in the order of created_at is the set of its rows,
\* each with its place in that order.
DashboardItem == [at : 1 .. MaxRows, row : DashboardRows]
Unread == [read |-> FALSE, rows |-> {}]
Part(rows) == [read |-> TRUE, rows |-> rows]

DashboardTypeOK ==
  /\ Len(entries) <= MaxRows /\ \A e \in DOMAIN entries : entries[e] \in DashboardRows
  /\ openedAt \in 0 .. Len(entries)
  /\ {resumesPart, scoresPart} \subseteq [read : BOOLEAN, rows : SUBSET DashboardItem]
  /\ Cardinality(resumesPart.rows) <= ResumesRead /\ Cardinality(scoresPart.rows) <= ScoresRead
  /\ dashboard \in {"closed", "loading", "shown", "failed"}
  /\ dashboard = "shown" => resumesPart.read /\ scoresPart.read
  /\ dashboard \in {"closed", "failed"} => resumesPart = Unread /\ scoresPart = Unread

DashboardInit ==
  /\ entries = <<>> /\ openedAt = 0
  /\ resumesPart = Unread /\ scoresPart = Unread /\ dashboard = "closed"

-----------------------------------------------------------------------------
(* The rows, by other pages and the workers.                               *)

CreateEntry(kind) ==
  /\ Len(entries) < MaxRows
  /\ entries' = Append(entries, NewEntry(kind))
  /\ UNCHANGED <<openedAt, resumesPart, scoresPart, dashboard>>

\* The scorer has no guard: retries and late listeners change a row that is complete.
\* How far a resume is changes nothing but its label.
AdvanceEntry(e) ==
  /\ entries[e].kind = "score"
  /\ \/ entries' = [entries EXCEPT ![e].status = "failed"]
     \/ \E n \in {"low", "high"} :
          entries' = [entries EXCEPT ![e].status = "complete", ![e].score = n]
  /\ UNCHANGED <<openedAt, resumesPart, scoresPart, dashboard>>

DeleteEntry(e) ==
  /\ entries[e] # Deleted
  /\ entries' = [entries EXCEPT ![e] = Deleted]
  /\ UNCHANGED <<openedAt, resumesPart, scoresPart, dashboard>>

-----------------------------------------------------------------------------
(* getSummary.                                                             *)

Newer(x, y) == x.at > y.at

\* The first n, the newest first: ORDER BY created_at DESC LIMIT n.
Newest(n, items) == {x \in items : Cardinality({y \in items : Newer(y, x)}) < n}

Recent(kind, n) ==
  Newest(n, {[at |-> e, row |-> entries[e]] : e \in {d \in DOMAIN entries : entries[d].kind = kind}})

GetRecentResumes ==
  /\ dashboard = "loading" /\ ~resumesPart.read
  /\ resumesPart' = Part(Recent("resume", ResumesRead))
  /\ UNCHANGED <<entries, openedAt, scoresPart, dashboard>>

GetRecentScores ==
  /\ dashboard = "loading" /\ ~scoresPart.read
  /\ scoresPart' = Part(Recent("score", ScoresRead))
  /\ UNCHANGED <<entries, openedAt, resumesPart, dashboard>>

-----------------------------------------------------------------------------
(* The page.                                                               *)

OpenDashboard ==
  /\ dashboard = "closed"
  /\ openedAt' = Len(entries) /\ dashboard' = "loading"
  /\ UNCHANGED <<entries, resumesPart, scoresPart>>

DashboardArrives ==
  /\ dashboard = "loading" /\ resumesPart.read /\ scoresPart.read
  /\ dashboard' = "shown"
  /\ UNCHANGED <<entries, openedAt, resumesPart, scoresPart>>

DashboardFails ==
  /\ dashboard = "loading"
  /\ dashboard' = "failed" /\ resumesPart' = Unread /\ scoresPart' = Unread
  /\ UNCHANGED <<entries, openedAt>>

\* Mutant: the lists are cut before they are merged in order.
BuildFeedUnsorted ==
  resumesPart.rows \cup Newest(FeedLength - Cardinality(resumesPart.rows), scoresPart.rows)

\* buildFeed: both lists, the newest first.
BuildFeed == Newest(FeedLength, resumesPart.rows \cup scoresPart.rows)

\* The newest score read; the ring shows it whatever its status: Number(null) is 0.
Latest == CHOOSE x \in scoresPart.rows : \A y \in scoresPart.rows : ~Newer(y, x)
Ring ==
  IF scoresPart.rows = {} THEN "none" ELSE IF Latest.row.score = "high" THEN "high" ELSE "low"

\* Mutant: the status is not looked at.
ShowOptCtaEarly == Ring = "low"

\* "Your score can reach higher".
ShowOptCta == Ring = "low" /\ Latest.row.status = "complete"

\* What the page shows: the ring with a link to its score's report, the feed, the call.
DashboardShows ==
  IF dashboard # "shown" THEN {}
  ELSE {<<"ring", Ring>>} \cup {<<"row", item.at>> : item \in BuildFeed}
       \cup (IF Ring = "none" THEN {} ELSE {<<"report", Latest.at>>})
       \cup (IF ShowOptCta THEN {<<"optimise", Latest.at>>} ELSE {})

\* Bound: the rows change until the page has its answer, for it asks only once.
DashboardNext ==
  \/ /\ dashboard \in {"closed", "loading"}
     /\ \/ \E e \in DOMAIN entries : AdvanceEntry(e) \/ DeleteEntry(e)
        \/ \E kind \in {"resume", "score"} : CreateEntry(kind)
  \/ GetRecentResumes \/ GetRecentScores
  \/ OpenDashboard \/ DashboardArrives \/ DashboardFails

DashboardSpec == DashboardInit /\ [][DashboardNext]_dashboardVars

-----------------------------------------------------------------------------
(* Correctness.                                                            *)

(***************************************************************************)
(* dashboard/page.tsx:75-105 and dashboard.service.ts:96-140: what was     *)
(* there when the page was opened, still is and is not in the feed, has    *)
(* been left out for want of room: the feed is full of newer rows, or it   *)
(* has as many newer ones of that kind as the query of the kind asks for.  *)
(***************************************************************************)
FeedIsNewest ==
  dashboard = "shown" =>
    \A e \in 1 .. openedAt :
      LET newer == {x \in BuildFeed : x.at > e}
          same  == {x \in newer : x.row.kind = entries[e].kind}
      IN  \/ entries[e] = Deleted
          \/ \E x \in BuildFeed : x.at = e
          \/ newer = BuildFeed /\ Cardinality(newer) = FeedLength
          \/ Cardinality(same) = IF entries[e].kind = "resume" THEN ResumesRead ELSE ScoresRead

(***************************************************************************)
(* dashboard/page.tsx:265: a score that is not there yet, or failed, which *)
(* arrives as 0, is not taken for one to improve: the call leads to a      *)
(* score that has been computed, or has been deleted since.                *)
(***************************************************************************)
CallIsForAResult ==
  \A item \in DashboardShows : LET e == item[2] IN
    item[1] = "optimise" => entries[e] = Deleted \/ entries[e].score # "null"

(***************************************************************************)
(* dashboard/page.tsx:99-101 and dashboard.service.ts:118 and 141: the     *)
(* score in the ring is among the activity, for the feed is longer (6)     *)
(* than the list of resumes (3) that could push it out.                    *)
(***************************************************************************)
RingIsInTheFeed ==
  FeedLength > ResumesRead =>
    LET shown == DashboardShows
    IN  \A item \in shown : item[1] = "report" => <<"row", item[2]>> \in shown

(***************************************************************************)
(* dashboard/page.tsx and dashboard.service.ts, together.                  *)
(***************************************************************************)
DashboardIsRecent == FeedIsNewest /\ CallIsForAResult /\ RingIsInTheFeed
==================================================================================
