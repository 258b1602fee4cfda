-------------------------------- MODULE MCWeb ---------------------------------
(* The pages of the web application side by side, for TLC, but for the      *)
(* tracker of applications (see MCApi).  A behaviour is one of a single *)
(* page, the others stay as they start: this is their union and not their   *)
(* product, for the pages share no variable.                                *)
EXTENDS ScorePage, ResumePage, ProfileSettings, UploadPage, ListPages, BillingPage,
        Dashboard, JobPage, SignInTab, TLC

VARIABLE part  \* the part whose behaviour this is

mcVars ==
  <<part, scorePageVars, resumePageVars, settingsVars, uploadPageVars, listPagesVars,
    billingPageVars, dashboardVars, jobPageVars, signInTabVars>>

MCInit ==
  /\ part \in {"scorePage", "resumePage", "settings", "upload", "lists",
              "billing", "dashboard", "job", "signIn"}
  /\ part = "scorePage" \/ dbScore = [scoring |-> "pending", opt |-> "none"]
  /\ part = "resumePage" \/ parseStatus = "uploaded"
  /\ part = "settings" \/ profileRow = "none"
  /\ part = "lists" \/ createdAt = [i \in Item |-> 0]
  /\ part = "billing" \/ used = 0
  /\ part = "job" \/ candidates = [c \in Candidate |-> "parsing"]
  /\ part = "signIn" \/ (account = "plain" /\ cookieIsSeen = FALSE)
  /\ ScorePageInit /\ ResumePageInit /\ ProfileSettingsInit /\ UploadPageInit
  /\ ListPagesInit /\ BillingPageInit /\ DashboardInit /\ JobPageInit
  /\ SignInTabInit

MCNext ==
  /\ UNCHANGED part
  /\ IF part = "scorePage" THEN ScorePageNext ELSE UNCHANGED scorePageVars
  /\ IF part = "resumePage" THEN ResumePageNext ELSE UNCHANGED resumePageVars
  /\ IF part = "settings" THEN ProfileSettingsNext ELSE UNCHANGED settingsVars
  /\ IF part = "upload" THEN UploadPageNext ELSE UNCHANGED uploadPageVars
  /\ IF part = "lists" THEN ListPagesNext ELSE UNCHANGED listPagesVars
  /\ IF part = "billing" THEN BillingPageNext ELSE UNCHANGED billingPageVars
  /\ IF part = "dashboard" THEN DashboardNext ELSE UNCHANGED dashboardVars
  /\ IF part = "job" THEN JobPageNext ELSE UNCHANGED jobPageVars
  /\ IF part = "signIn" THEN SignInTabNext ELSE UNCHANGED signInTabVars

MCSpec == MCInit /\ [][MCNext]_mcVars

\* The requests of the other pages share the values of Purchase.
Symmetric == Permutations(Purchase)

\* The type invariant of the page that moves: the others are as they start.
WebTypesOK ==
  CASE part = "scorePage"    -> ScorePageTypeOK
    [] part = "resumePage"   -> ResumePageTypeOK
    [] part = "settings"     -> ProfileSettingsTypeOK
    [] part = "upload"       -> UploadPageTypeOK
    [] part = "lists"        -> ListPagesTypeOK
    [] part = "billing"      -> BillingPageTypeOK
    [] part = "dashboard"    -> DashboardTypeOK
    [] part = "job"          -> JobPageTypeOK
    [] part = "signIn"       -> SignInTabTypeOK

\* What the pages with few properties of their own promise.
PagesAgree ==
  /\ part = "upload" => UploadIsTheFile
  /\ part = "lists" => ListsAgree
  /\ part = "billing" => BillingPageAgrees
  /\ part = "dashboard" => DashboardIsRecent
  /\ part = "job" => JobPageAgrees
  /\ part = "signIn" => ConnectArrives /\ SpinnerMeansWaiting

===============================================================================
