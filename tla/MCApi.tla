-------------------------------- MODULE MCApi ---------------------------------
(* What guards the API's money and its limits, and beside it the tracker of *)
(* applications, which has no room among the pages of MCWeb, for TLC.  A    *)
(* behaviour is one of a single part, the others stay as they start: this   *)
(* is their union and not their product, for the parts share no variable.   *)
EXTENDS Billing, Entitlements, MCThrottler, AiFillBudget, ResumeVersions,
        ResumeExport, ApplicationsPage, TLC

AnyText == STRING

(* What the model may make of a resume.  A role, a school, a certificate    *)
(* and the skills each come up with every combination of their dates.       *)
Plain ==
  [Blank EXCEPT !.name = "Ada", !.ways = <<"ada@mail", "UNKNOWN", "">>]

Role(title, start, end, current, description) ==
  [title |-> title, company |-> "Acme", start |-> start, end |-> end, current |-> current,
   description |-> description, highlights |-> <<"led", "UNKNOWN">>]

Dates == {<<"2020", "">>, <<"2020", "2021">>, <<"UNKNOWN", "2021">>, <<"UNKNOWN", "UNKNOWN">>}

SomeResumes ==
  {Plain, [Plain EXCEPT !.name = ""], [Plain EXCEPT !.summary = "UNKNOWN"]} \cup
  {[Plain EXCEPT !.experience = <<Role("lead", d[1], d[2], current, "UNKNOWN")>>] :
     d \in Dates, current \in BOOLEAN} \cup
  {[Plain EXCEPT !.experience = <<Role("lead", "", "2021", FALSE, "founded it")>>]} \cup
  {[Plain EXCEPT !.education =
      <<[degree |-> "BSc", field |-> "UNKNOWN", institution |-> "UNKNOWN",
         start |-> d[1], end |-> d[2]]>>] : d \in Dates} \cup
  {[Plain EXCEPT !.skills = <<[name |-> "sql", category |-> "tool"],
                              [name |-> "tact", category |-> "soft"],
                              [name |-> "git", category |-> "tool"]>>,
                 !.certifications = <<[name |-> "PMP", issuer |-> "UNKNOWN", date |-> date]>>] :
     date \in {"", "2019", "UNKNOWN"}}

SomeRewrites ==
  {[Plain EXCEPT !.name = ""], [Plain EXCEPT !.summary = "fits"]} \cup
  {[Plain EXCEPT !.experience = roles] :
     roles \in {<<Role("lead", "2020", "", TRUE, "")>>,
                <<[Role("lead", "2020", "", TRUE, "") EXCEPT !.highlights = <<"led ten", "UNKNOWN">>],
                  Role("chief", "2022", "", TRUE, "")>>}}

VARIABLE part  \* the part whose behaviour this is

mcVars ==
  <<part, billingVars, quotaVars, throttlerVars, fillBudgetVars, versionVars,
    exportVars, applicationsVars>>

MCInit ==
  /\ part \in {"billing", "quota", "throttler", "budget", "versions", "export", "tracker"}
  /\ route = "resumes"  \* for the webhook, see throttle_exempt
  /\ BillingInit /\ QuotaInit /\ ThrottlerInit /\ AiFillBudgetInit
  /\ ResumeVersionsInit /\ ResumeExportInit /\ ApplicationsInit
  /\ part = "tracker" \/ storedApps = [a \in App |-> Unborn]

MCNext ==
  /\ UNCHANGED part
  /\ IF part = "billing" THEN BillingNext ELSE UNCHANGED billingVars
  /\ IF part = "quota" THEN QuotaNext ELSE UNCHANGED quotaVars
  /\ IF part = "throttler" THEN ThrottlerNext ELSE UNCHANGED throttlerVars
  /\ IF part = "budget" THEN AiFillBudgetNext ELSE UNCHANGED fillBudgetVars
  /\ IF part = "versions" THEN ResumeVersionsNext ELSE UNCHANGED versionVars
  /\ IF part = "export" THEN ResumeExportNext ELSE UNCHANGED exportVars
  /\ IF part = "tracker" THEN ApplicationsNext ELSE UNCHANGED applicationsVars

MCSpec == MCInit /\ [][MCNext]_mcVars

\* Request, Upload, App and Update share the values of User and Customer.
Symmetric == Permutations(User) \cup Permutations(Customer)

\* The type invariant of the part that moves: the others are as they start.
ApiTypesOK ==
  CASE part = "billing"   -> BillingTypeOK
    [] part = "quota"     -> QuotaTypeOK
    [] part = "throttler" -> ThrottlerTypeOK
    [] part = "budget"    -> AiFillBudgetTypeOK
    [] part = "versions"  -> ResumeVersionsTypeOK
    [] part = "export"    -> ResumeExportTypeOK
    [] part = "tracker"   -> ApplicationsTypeOK

===============================================================================
