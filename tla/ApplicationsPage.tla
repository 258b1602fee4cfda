---------------------------- MODULE ApplicationsPage ----------------------------
(***************************************************************************)
(* The tracker of job applications: the page keeps the list it loaded, of  *)
(* the newest ones, changes a status before the server has agreed and      *)
(* takes it back if the call fails, and has one form that adds an          *)
(* application or edits one.  Calls are answered in any order, or not at   *)
(* all.  Other tabs and the extension write the rows, too.                 *)
(***************************************************************************)
EXTENDS Naturals, FiniteSets

CONSTANTS
  App,            \* applications
  Update,         \* calls that can be under way at once
  Label,          \* the values of a status
  TrackerSize,    \* PAGE_SIZE of the list
  MaxAppChanges,  \* bound: calls
  MaxLosses,      \* bound: calls that fail on the way there or back
  MaxStrangers    \* bound: applications somebody else writes, once each

ASSUME ApplicationsAssumption ==
  /\ "applied" \in Label /\ TrackerSize \in Nat
  /\ MaxAppChanges \in Nat /\ MaxLosses \in Nat /\ MaxStrangers \in Nat
  /\ App \cap {"blank", "typed", "closed", "create", "unborn", "gone", "none"} = {}

VARIABLES
  storedApps,   \* the rows of applications
  listing,      \* loading, loaded or failed
  listed,       \* apps, the list of the page
  appForm,      \* formMode and what ApplicationForm holds
  submitting,   \* submitting
  appChanges,   \* the calls
  changesSent,  \* calls made
  losses,       \* calls that failed
  overlapped,   \* history: applications with two calls under way at once
  unheard,      \* history: applications changed by a call that failed
  retargeted,   \* history: an open form was turned to something else
  beyond,       \* history: the rows behind the page that was answered
  strangers     \* history: applications written by somebody else

elsewhereVars == <<beyond, strangers>>
applicationHistory == <<overlapped, unheard, retargeted, elsewhereVars>>
applicationsVars == <<storedApps, listing, listed, appForm, submitting, appChanges, changesSent,
                      losses, applicationHistory>>

\* Company, role, date and notes are one text: an application's own, or typed.
FormText == App \cup {"typed"}
Row == [text : FormText, status : Label]
Unborn == [text |-> "unborn", status |-> "applied"]
Gone == [text |-> "gone", status |-> "applied"]
MaybeRow == Row \cup {Unborn, Gone}
NoChange == [at |-> "none", kind |-> "none", app |-> "none", row |-> Gone, old |-> "applied"]
IsRow(r) == r \notin {Unborn, Gone}

ApplicationsTypeOK ==
  /\ storedApps \in [App -> MaybeRow]
  /\ listing \in {"loading", "loaded", "failed"}
  /\ listed \in [App -> MaybeRow]
  /\ appForm \in [mode : App \cup {"closed", "create"}, text : FormText \cup {"blank"},
                  status : Label]
  /\ submitting \in BOOLEAN
  /\ appChanges \in [Update -> {NoChange} \cup
       [at : {"sent", "applied", "answered", "refused"},
        kind : {"status", "edit", "create", "delete"}, app : App, row : MaybeRow, old : Label]]
  /\ \A c \in Update : appChanges[c].at \in {"sent", "applied"} => appChanges[c].row \in Row
  /\ changesSent \in 0 .. MaxAppChanges /\ losses \in 0 .. MaxLosses
  /\ overlapped \subseteq App /\ unheard \subseteq App /\ retargeted \in BOOLEAN
  /\ beyond \subseteq App /\ strangers \subseteq App

ClosedForm == [mode |-> "closed", text |-> "blank", status |-> "applied"]

ApplicationsInit ==
  /\ storedApps \in [App -> MaybeRow]
  /\ \A a \in App : storedApps[a] \in {Unborn, [text |-> a, status |-> "applied"]}
  /\ listing = "loading" /\ listed = [a \in App |-> Unborn]
  /\ appForm = ClosedForm /\ submitting = FALSE
  /\ appChanges = [c \in Update |-> NoChange] /\ changesSent = 0 /\ losses = 0
  /\ overlapped = {} /\ unheard = {} /\ retargeted = FALSE /\ beyond = {} /\ strangers = {}

Pending(a) == {c \in Update : appChanges[c].app = a /\ appChanges[c].at # "none"}

-----------------------------------------------------------------------------
(* The page.                                                               *)

\* The newest rows, whichever they are: what list answers without a cursor.
IsNewestPage(as) ==
  LET rows == {a \in App : IsRow(storedApps[a])}
  IN  /\ as \subseteq rows
      /\ \/ as = rows /\ Cardinality(rows) <= TrackerSize
         \/ Cardinality(as) = TrackerSize

\* loadApps, once: no second page is asked for.
LoadApps ==
  /\ listing = "loading"
  /\ \/ /\ listing' = "loaded"
        /\ \E as \in SUBSET App :
             /\ IsNewestPage(as)
             /\ listed' = [a \in App |-> IF a \in as THEN storedApps[a] ELSE Unborn]
             /\ beyond' = {a \in App \ as : IsRow(storedApps[a])}
        /\ UNCHANGED losses
     \/ /\ listing' = "failed" /\ losses < MaxLosses /\ losses' = losses + 1
        /\ UNCHANGED <<listed, beyond>>
  /\ UNCHANGED <<storedApps, changesSent, appForm, submitting, appChanges, overlapped, unheard,
                 retargeted, strangers>>

\* What a form starts with.
InitialForm(mode) ==
  IF mode = "create" THEN [ClosedForm EXCEPT !.mode = mode]
  ELSE [mode |-> mode, text |-> listed[mode].text, status |-> listed[mode].status]

\* ListView: each row has a status, a pencil and a bin.
ListView == IF listing = "loading" THEN {} ELSE {a \in App : IsRow(listed[a])}

\* KanbanView: a card has the pencil and the bin, and may be dragged.
Column(s) == {a \in ListView : listed[a].status = s}

CanOpen(mode) == IF mode = "create" THEN listing # "loading" ELSE mode \in ListView

\* ApplicationForm: Save is disabled while it runs, and without a company, role or date.
ApplicationForm ==
  IF appForm.mode = "closed" THEN {}
  ELSE {"fields", "cancel"} \cup (IF submitting \/ appForm.text = "blank" THEN {} ELSE {"save"})

\* Mutant: a form starts with what one of the rows holds, not with what its own does.
OpenFormWrong(mode) ==
  /\ CanOpen(mode)
  /\ IF appForm.mode = "closed"
       THEN \E a \in ListView \cup {mode} : appForm' = [InitialForm(a) EXCEPT !.mode = mode]
       ELSE appForm' = [appForm EXCEPT !.mode = mode]
  /\ retargeted' = (retargeted \/ appForm.mode \notin {"closed", mode})
  /\ UNCHANGED <<storedApps, changesSent, listing, listed, submitting, appChanges, losses,
                 overlapped, unheard, elsewhereVars>>

\* The pencil, or Add.  The form keeps what it holds when it is open already.
OpenForm(mode) ==
  /\ CanOpen(mode)
  /\ appForm' = IF appForm.mode = "closed" THEN InitialForm(mode)
                  ELSE [appForm EXCEPT !.mode = mode]
  /\ retargeted' = (retargeted \/ appForm.mode \notin {"closed", mode})
  /\ UNCHANGED <<storedApps, changesSent, listing, listed, submitting, appChanges, losses,
                 overlapped, unheard, elsewhereVars>>

TypeInForm ==
  /\ "fields" \in ApplicationForm
  /\ \/ appForm' = [appForm EXCEPT !.text = "typed"]
     \/ \E s \in Label : appForm' = [appForm EXCEPT !.status = s]
  /\ UNCHANGED <<storedApps, changesSent, listing, listed, submitting, appChanges, losses,
                 applicationHistory>>

CancelForm ==
  /\ "cancel" \in ApplicationForm
  /\ appForm' = ClosedForm
  /\ UNCHANGED <<storedApps, changesSent, listing, listed, submitting, appChanges, losses,
                 applicationHistory>>

\* A call is on its way.
SendChange(kind, a, r) ==
  /\ changesSent < MaxAppChanges /\ changesSent' = changesSent + 1
  /\ \E c \in Update :
       /\ appChanges[c].at = "none"
       /\ appChanges' = [appChanges EXCEPT ![c] =
            [at |-> "sent", kind |-> kind, app |-> a, row |-> r,
             old |-> IF kind = "status" THEN listed[a].status ELSE "applied"]]
  /\ overlapped' = IF Pending(a) # {} THEN overlapped \cup {a} ELSE overlapped

SaveForm ==
  \/ \E a \in App : /\ appForm.mode = "create" /\ storedApps[a] = Unborn /\ Pending(a) = {}
                    /\ SendChange("create", a, [text |-> appForm.text, status |-> appForm.status])
  \/ /\ appForm.mode \in App
     /\ SendChange("edit", appForm.mode, [text |-> appForm.text, status |-> appForm.status])

\* Mutant: Save is not disabled while it runs.
HandleSubmitAgain ==
  /\ appForm.mode # "closed" /\ appForm.text # "blank"
  /\ SaveForm /\ submitting' = TRUE
  /\ UNCHANGED <<storedApps, listing, listed, appForm, losses, unheard, retargeted,
                 elsewhereVars>>

\* Mutant: company and role may be empty.
HandleSubmitBlank ==
  /\ appForm.mode # "closed" /\ ~submitting
  /\ SaveForm /\ submitting' = TRUE
  /\ UNCHANGED <<storedApps, listing, listed, appForm, losses, unheard, retargeted,
                 elsewhereVars>>

HandleSubmit ==
  /\ "save" \in ApplicationForm
  /\ SaveForm /\ submitting' = TRUE
  /\ UNCHANGED <<storedApps, listing, listed, appForm, losses, unheard, retargeted,
                 elsewhereVars>>

\* The list's select, or a card dropped in another column: shown at once.
HandleStatusChange(a, s) ==
  /\ \E from \in Label \ {s} : a \in Column(from)
  /\ SendChange("status", a, [listed[a] EXCEPT !.status = s])
  /\ listed' = [listed EXCEPT ![a].status = s]
  /\ UNCHANGED <<storedApps, listing, appForm, submitting, losses, unheard, retargeted,
                 elsewhereVars>>

HandleDelete(a) ==
  /\ a \in ListView
  /\ SendChange("delete", a, listed[a])
  /\ UNCHANGED <<storedApps, listing, listed, appForm, submitting, losses, unheard, retargeted,
                 elsewhereVars>>

-----------------------------------------------------------------------------
(* The API.                                                                *)

NewRow(c) ==
  CASE appChanges[c].kind = "status" ->
         [storedApps[appChanges[c].app] EXCEPT !.status = appChanges[c].row.status]
    [] appChanges[c].kind = "delete" -> Gone
    [] OTHER -> appChanges[c].row

\* findOwned, and the statement.
ApplyChange(c) ==
  /\ appChanges[c].at = "sent"
  /\ IF appChanges[c].kind = "create" \/ IsRow(storedApps[appChanges[c].app])
       THEN /\ storedApps' = [storedApps EXCEPT ![appChanges[c].app] = NewRow(c)]
            /\ appChanges' = [appChanges EXCEPT ![c].at = "applied"]
       ELSE appChanges' = [appChanges EXCEPT ![c].at = "refused"] /\ UNCHANGED storedApps
  /\ UNCHANGED <<changesSent, listing, listed, appForm, submitting, losses, applicationHistory>>

\* create and update read the row again for their answer.
AnswerChange(c) ==
  LET r == storedApps[appChanges[c].app] IN
  /\ appChanges[c].at = "applied"
  /\ appChanges' = [appChanges EXCEPT ![c].row = r,
       ![c].at = IF appChanges[c].kind = "delete" \/ IsRow(r) THEN "answered" ELSE "refused"]
  /\ UNCHANGED <<storedApps, changesSent, listing, listed, appForm, submitting, losses,
                 applicationHistory>>

-----------------------------------------------------------------------------
(* Answers.                                                                *)

Saves(c) == appChanges[c].kind \in {"edit", "create"}
EndChange(c) == appChanges' = [appChanges EXCEPT ![c] = NoChange]

ChangeArrives(c) ==
  LET a == appChanges[c].app
      kind == appChanges[c].kind IN
  /\ appChanges[c].at = "answered"
  /\ listed' = IF \/ kind = "create" \/ kind = "delete"
                  \/ kind = "edit" /\ IsRow(listed[a])
                 THEN [listed EXCEPT ![a] = appChanges[c].row] ELSE listed
  /\ IF Saves(c) THEN submitting' = FALSE /\ appForm' = ClosedForm
                 ELSE UNCHANGED <<submitting, appForm>>
  /\ EndChange(c)
  /\ UNCHANGED <<storedApps, changesSent, listing, losses, applicationHistory>>

\* The call was refused, or it or its answer was lost.
Falls(c) ==
  \/ appChanges[c].at = "refused" /\ UNCHANGED <<losses, unheard>>
  \/ /\ appChanges[c].at \in {"sent", "applied", "answered"}
     /\ losses < MaxLosses /\ losses' = losses + 1
     /\ unheard' = IF appChanges[c].at = "sent" THEN unheard ELSE unheard \cup {appChanges[c].app}

\* Mutant: the status stays as it was chosen.
ChangeFailsKept(c) ==
  /\ Falls(c)
  /\ submitting' = (submitting /\ ~Saves(c))
  /\ EndChange(c)
  /\ UNCHANGED <<storedApps, changesSent, listing, listed, appForm, overlapped, retargeted,
                 elsewhereVars>>

\* A status is put back to what it was when it was changed; the form stays open.
ChangeFails(c) ==
  LET a == appChanges[c].app IN
  /\ Falls(c)
  /\ listed' = IF appChanges[c].kind = "status" /\ IsRow(listed[a])
                 THEN [listed EXCEPT ![a].status = appChanges[c].old] ELSE listed
  /\ submitting' = (submitting /\ ~Saves(c))
  /\ EndChange(c)
  /\ UNCHANGED <<storedApps, changesSent, listing, appForm, overlapped, retargeted,
                 elsewhereVars>>

\* A second tab, or a capture by the extension.
WriteElsewhere(a) ==
  /\ a \notin strangers /\ Cardinality(strangers) < MaxStrangers
  /\ \/ /\ storedApps[a] = Unborn /\ Pending(a) = {}
        /\ storedApps' = [storedApps EXCEPT ![a] = [text |-> a, status |-> "applied"]]
     \/ /\ IsRow(storedApps[a])
        /\ \E new \in {Gone} \cup [text : {"typed"}, status : Label] :
             storedApps' = [storedApps EXCEPT ![a] = new]
  /\ strangers' = strangers \cup {a}
  /\ UNCHANGED <<changesSent, listing, listed, appForm, submitting, appChanges, losses, overlapped,
                 unheard, retargeted, beyond>>

ApplicationsNext ==
  \/ LoadApps \/ TypeInForm \/ CancelForm \/ HandleSubmit
  \/ \E mode \in App \cup {"create"} : OpenForm(mode)
  \/ \E a \in App : \/ HandleDelete(a) \/ WriteElsewhere(a)
                   \/ \E s \in Label : HandleStatusChange(a, s)
  \/ \E c \in Update :
       ApplyChange(c) \/ AnswerChange(c) \/ ChangeArrives(c) \/ ChangeFails(c)

ApplicationsSpec == ApplicationsInit /\ [][ApplicationsNext]_applicationsVars

-----------------------------------------------------------------------------
(* Correctness.                                                            *)

(***************************************************************************)
(* applications/page.tsx:402-504 and application.service.ts:73-95: what    *)
(* the list shows of an application is what the database holds once no     *)
(* call for it is under way, whether its calls succeeded or failed; unless *)
(* two of them overlapped, one failed after the server had acted on it,    *)
(* somebody else wrote it, or it was behind the page that was answered.    *)
(***************************************************************************)
ListedIsStored ==
  listing = "loaded" =>
    \A a \in App \ (overlapped \cup unheard \cup strangers \cup beyond) : Pending(a) = {} =>
      \/ listed[a] = storedApps[a]
      \/ ~IsRow(listed[a]) /\ ~IsRow(storedApps[a])

(***************************************************************************)
(* applications/page.tsx:400-412: the text of one application is not saved *)
(* to another, nor to a new one; unless the form was open when it was      *)
(* turned to it.                                                           *)
(***************************************************************************)
TextsStayHome ==
  ~retargeted => \A a \in App : IsRow(storedApps[a]) => storedApps[a].text \in {a, "typed"}

(***************************************************************************)
(* applications/page.tsx:184-192 and 412-445: at most one save is under    *)
(* way, even if the form is closed and opened again meanwhile, so that a   *)
(* double click does not add an application twice.                         *)
(***************************************************************************)
OneSaveAtATime ==
  LET Saving == {c \in Update : Saves(c) /\ appChanges[c].at # "none"}
  IN  \A c, d \in Saving : c = d

(***************************************************************************)
(* applications/page.tsx: the list, the form and the database agree.       *)
(***************************************************************************)
TrackerAgrees == ListedIsStored /\ TextsStayHome /\ OneSaveAtATime

=================================================================================
