---------------------------- MODULE AutofillPanel ----------------------------
(***************************************************************************)
(* Filling and submitting an application from the side panel:              *)
(* AutofillPanel.tsx, the router's FORM_*, REQUEST_AUTOFILL, _AI_FILL,     *)
(* _SUBMIT and _CAPTURE handlers, the content script that works on the     *)
(* page, and the capture of the application by the API.  The panel follows *)
(* ACTIVE_FORM, which any tab may write; what it asks for is done to the   *)
(* tab that is active when the router gets there; and answers change the   *)
(* panel whatever it has turned to meanwhile.                              *)
(***************************************************************************)
EXTENDS Integers, Sequences

CONSTANTS
  Form,       \* pages with an application form, by URL
  NoForm,     \* no form; a page without one
  Message,    \* messages of the panel under way at once
  MaxEvents   \* bound: detections, changes of the active tab, remounts

ASSUME AutofillAssumption ==
  /\ NoForm \notin Form
  /\ MaxEvents \in Nat

VARIABLES
  activeForm,  \* ACTIVE_FORM in chrome.storage.local
  page,        \* the page in the active tab
  formNotes,   \* storage events, and the answer to the mount's read, on their way
  status,      \* the panel's state
  formRef,     \* the panel's activeFormRef
  messages,    \* what the panel has asked for
  filled,      \* history: the pages EXECUTE_AUTOFILL has worked on
  submitted,   \* history: the pages EXECUTE_SUBMIT has submitted
  captured,    \* applications recorded, by URL
  crossed,     \* history: since the last click on Autofill the tab, the form
               \* or the panel changed, or there was a former answer to come
  events       \* detections and changes so far

autofillVars == <<activeForm, page, formNotes, status, formRef, messages,
                  filled, submitted, captured, crossed, events>>
pageVars == <<activeForm, page, formNotes, events>>
work     == <<filled, submitted, captured>>

NoMessage == [kind |-> "none", step |-> "none", form |-> NoForm, mine |-> FALSE,
              crossed |-> FALSE, done |-> FALSE]

AutofillTypeOK ==
  /\ activeForm \in Form \cup {NoForm} /\ page \in Form \cup {NoForm}
  /\ formNotes \in Seq([kind : {"change", "mount"}, form : Form \cup {NoForm}])
  /\ status \in {"idle", "loading", "ready", "filling", "ai-filling", "complete",
                 "confirming-submit", "submitting", "submitted", "error"}
  /\ formRef \in Form \cup {NoForm}
  /\ messages \in [Message ->
       [kind : {"none", "profile", "fill", "aiFill", "submit", "capture"},
        step : {"none", "asked", "executed"}, form : Form \cup {NoForm},
        mine : BOOLEAN, crossed : BOOLEAN, done : BOOLEAN]]
  /\ filled \subseteq Form /\ submitted \subseteq Form
  /\ captured \subseteq [form : Form, crossed : BOOLEAN]
  /\ crossed \in BOOLEAN
  /\ events \in 0 .. MaxEvents

AutofillInit ==
  /\ activeForm = NoForm /\ page = NoForm /\ formNotes = <<>>
  /\ status = "idle" /\ formRef = NoForm
  /\ messages = [m \in Message |-> NoMessage]
  /\ filled = {} /\ submitted = {} /\ captured = {}
  /\ crossed = FALSE /\ events = 0

Free(m) == messages[m] = NoMessage
Ask(kind, form) == [NoMessage EXCEPT !.kind = kind, !.step = "asked", !.form = form,
                                     !.mine = TRUE, !.crossed = crossed]
Replace(m, message) == messages' = [messages EXCEPT ![m] = message]

\* setState of the instance that asked.
Becomes(m, state) == status' = IF messages[m].mine THEN state ELSE status

\* The tab, the form or the panel changes under what is under way.
FormCrossing == [m \in Message |-> IF Free(m) THEN NoMessage ELSE [messages[m] EXCEPT !.crossed = TRUE]]
Happens == events < MaxEvents /\ events' = events + 1 /\ crossed' = TRUE

-----------------------------------------------------------------------------
(* The pages.                                                              *)

\* The user navigates in the active tab or turns to another one.
ShowPage(p) ==
  /\ p # page
  /\ Happens
  /\ page' = p
  /\ messages' = FormCrossing
  /\ UNCHANGED <<activeForm, formNotes, status, formRef, work>>

\* FORM_DETECTED or FORM_CLEARED from any tab: runDetection at the start, after
\* a navigation inside the page and whenever the page's observer asks for it.
HandleForm(f) ==
  /\ f # activeForm
  /\ Happens
  /\ activeForm' = f
  /\ formNotes' = Append(formNotes, [kind |-> "change", form |-> f])
  /\ messages' = FormCrossing
  /\ UNCHANGED <<page, status, formRef, work>>

-----------------------------------------------------------------------------
(* The panel.                                                              *)

\* The panel is opened, or comes back from the settings.
MountAutofill ==
  /\ Happens
  /\ status' = "idle" /\ formRef' = NoForm
  /\ messages' = [m \in Message |-> [FormCrossing[m] EXCEPT !.mine = FALSE]]
  /\ formNotes' = <<[kind |-> "mount", form |-> activeForm]>>
  /\ UNCHANGED <<activeForm, page, work>>

LoadProfile(m, f) ==
  /\ Free(m)
  /\ Replace(m, Ask("profile", f))
  /\ status' = "loading"

\* The mount's read, or a storage event.
HandleFormNote(m) ==
  /\ formNotes # <<>>
  /\ formNotes' = Tail(formNotes)
  /\ formRef' = Head(formNotes).form
  /\ IF formRef' = NoForm
       THEN /\ status' = IF Head(formNotes).kind = "mount" THEN status ELSE "idle"
            /\ UNCHANGED messages
       ELSE LoadProfile(m, formRef')
  /\ crossed' = TRUE
  /\ UNCHANGED <<activeForm, page, work, events>>

ProfileArrives(m) ==
  /\ messages[m].kind = "profile"
  /\ \/ Becomes(m, "ready") \/ Becomes(m, "error")
  /\ Replace(m, NoMessage)
  /\ UNCHANGED <<pageVars, formRef, work, crossed>>

\* handleRetry.
RetryAutofill(m) ==
  /\ status = "error"
  /\ IF formRef = NoForm THEN status' = "idle" /\ UNCHANGED messages ELSE LoadProfile(m, formRef)
  /\ UNCHANGED <<pageVars, formRef, work, crossed>>

\* Mutant: the capture is sent with the click.
AutofillCaptures(m) ==
  /\ status \in {"ready", "complete"} /\ formRef # NoForm
  /\ Free(m)
  /\ status' = "filling"
  /\ crossed' = (page # formRef \/ \E n \in Message : messages[n].mine)
  /\ captured' = captured \cup {[form |-> formRef, crossed |-> crossed']}
  /\ Replace(m, [Ask("fill", formRef) EXCEPT !.crossed = (page # formRef)])
  /\ UNCHANGED <<pageVars, formRef, filled, submitted>>

\* Mutant: the form may be gone.
HandleAutofillAnyForm(m) ==
  /\ status \in {"ready", "complete"}
  /\ Free(m)
  /\ status' = "filling"
  /\ crossed' = (page # formRef \/ \E n \in Message : messages[n].mine)
  /\ Replace(m, [Ask("fill", formRef) EXCEPT !.crossed = (page # formRef)])
  /\ UNCHANGED <<pageVars, formRef, work>>

\* handleAutofill: "Autofill" or "Re-fill".
HandleAutofill(m) ==
  /\ status \in {"ready", "complete"} /\ formRef # NoForm
  /\ Free(m)
  /\ status' = "filling"
  /\ crossed' = (page # formRef \/ \E n \in Message : messages[n].mine)
  /\ Replace(m, [Ask("fill", formRef) EXCEPT !.crossed = (page # formRef)])
  /\ UNCHANGED <<pageVars, formRef, work>>

\* The profile has come (ProfileCache) and EXECUTE_AUTOFILL works on the page.
ExecuteAutofill(m) ==
  /\ messages[m].kind = "fill" /\ messages[m].step = "asked"
  /\ filled' = filled \cup ({page} \ {NoForm})
  /\ messages' = [messages EXCEPT ![m].step = "executed"]
  /\ UNCHANGED <<pageVars, status, formRef, submitted, captured, crossed>>

\* No profile, no active tab, no content script, or no service worker.
AutofillFails(m) ==
  /\ messages[m].kind = "fill"
  /\ Becomes(m, "error")
  /\ Replace(m, NoMessage)
  /\ UNCHANGED <<pageVars, formRef, work, crossed>>

\* Fields were skipped: the AI is asked for them.
AskAi(m) ==
  /\ messages[m].kind = "fill" /\ messages[m].step = "executed"
  /\ Becomes(m, "ai-filling")
  /\ Replace(m, [messages[m] EXCEPT !.kind = "aiFill", !.step = "asked"])
  /\ UNCHANGED <<pageVars, formRef, work, crossed>>

\* Mutant: an answer without an array of answers ends the handler of the AI fill,
\* and nobody is told.
AiFillUnanswered(m) ==
  /\ <<messages[m].kind, messages[m].step>> \in {<<"fill", "executed">>, <<"aiFill", "asked">>}
  /\ IF messages[m].kind = "fill" THEN Becomes(m, "complete") ELSE UNCHANGED status
  /\ Replace(m, [messages[m] EXCEPT !.kind = "capture", !.step = "asked", !.mine = FALSE])
  /\ UNCHANGED <<pageVars, formRef, work, crossed>>

\* Nothing was skipped, or the AI fill has been answered, well or not: the panel
\* is complete, and the application is captured, by an instance that is gone too.
Complete(m) ==
  /\ <<messages[m].kind, messages[m].step>> \in {<<"fill", "executed">>, <<"aiFill", "asked">>}
  /\ Becomes(m, "complete")
  /\ Replace(m, [messages[m] EXCEPT !.kind = "capture", !.step = "asked", !.mine = FALSE])
  /\ UNCHANGED <<pageVars, formRef, work, crossed>>

\* INSERT ... ON CONFLICT DO NOTHING, or nothing: fire and forget.
Capture(m) ==
  /\ messages[m].kind = "capture"
  /\ \/ captured' = captured \cup {[form |-> messages[m].form, crossed |-> messages[m].crossed]}
     \/ UNCHANGED captured
  /\ Replace(m, NoMessage)
  /\ UNCHANGED <<pageVars, status, formRef, filled, submitted, crossed>>

\* Mutant: a form that is ready can be submitted.
SubmitRequestAnytime ==
  /\ status \in {"ready", "complete"}
  /\ status' = "confirming-submit"
  /\ UNCHANGED <<pageVars, formRef, messages, work, crossed>>

HandleSubmitRequest ==
  /\ status = "complete"
  /\ status' = "confirming-submit"
  /\ UNCHANGED <<pageVars, formRef, messages, work, crossed>>

HandleSubmitCancel ==
  /\ status = "confirming-submit"
  /\ status' = "complete"
  /\ UNCHANGED <<pageVars, formRef, messages, work, crossed>>

HandleSubmitConfirm(m) ==
  /\ status = "confirming-submit"
  /\ Free(m)
  /\ status' = "submitting"
  /\ Replace(m, Ask("submit", formRef))
  /\ UNCHANGED <<pageVars, formRef, work, crossed>>

\* EXECUTE_SUBMIT on the active tab: the first enabled submit button, if any.
ExecuteSubmit(m) ==
  /\ messages[m].kind = "submit" /\ messages[m].step = "asked"
  /\ \/ /\ page # NoForm
        /\ submitted' = submitted \cup {page}
        /\ messages' = [messages EXCEPT ![m].step = "executed", ![m].done = TRUE]
     \/ /\ UNCHANGED submitted
        /\ messages' = [messages EXCEPT ![m].step = "executed"]
  /\ UNCHANGED <<pageVars, status, formRef, filled, captured, crossed>>

SubmitAnswered(m) ==
  /\ messages[m].kind = "submit" /\ messages[m].step = "executed"
  /\ \/ Becomes(m, IF messages[m].done THEN "submitted" ELSE "error")
     \/ Becomes(m, "error")
  /\ Replace(m, NoMessage)
  /\ UNCHANGED <<pageVars, formRef, work, crossed>>

\* "Done".
DismissSubmitted ==
  /\ status = "submitted"
  /\ status' = "idle"
  /\ UNCHANGED <<pageVars, formRef, messages, work, crossed>>

AutofillNext ==
  \/ \E p \in Form \cup {NoForm} : ShowPage(p) \/ HandleForm(p)
  \/ MountAutofill
  \/ \E m \in Message :
       \/ HandleFormNote(m) \/ ProfileArrives(m) \/ RetryAutofill(m)
       \/ HandleAutofill(m) \/ ExecuteAutofill(m) \/ AutofillFails(m) \/ AskAi(m)
       \/ Complete(m) \/ Capture(m)
       \/ HandleSubmitConfirm(m) \/ ExecuteSubmit(m) \/ SubmitAnswered(m)
  \/ HandleSubmitRequest \/ HandleSubmitCancel \/ DismissSubmitted

AutofillSpec == AutofillInit /\ [][AutofillNext]_autofillVars

-----------------------------------------------------------------------------
(* Correctness.                                                            *)

(***************************************************************************)
(* message-router.ts:588-592 tells of a panel that "sat in `ai-filling`    *)
(* forever": whatever the panel waits for, an answer is still to come, in  *)
(* any order of forms, answers, failures and remounts.                     *)
(***************************************************************************)
Awaited == [x \in {"loading", "filling", "ai-filling", "submitting"} |->
  CASE x = "loading" -> "profile" [] x = "filling" -> "fill"
    [] x = "ai-filling" -> "aiFill" [] OTHER -> "submit"]
PanelWaitsForSomebody ==
  status \in DOMAIN Awaited =>
    \E m \in Message : messages[m].mine /\ messages[m].kind = Awaited[status]

(***************************************************************************)
(* AutofillPanel.tsx:157-175: unless the tab, the form or the panel has    *)
(* changed since the user clicked Autofill, or an earlier answer was still *)
(* to come, the page whose submit button is clicked has been filled.       *)
(***************************************************************************)
SubmitsWhatItFilled ==
  [][\A m \in Message :
       /\ messages[m].kind = "submit" /\ messages'[m].done /\ ~messages[m].crossed
       => page \in filled]_autofillVars

(***************************************************************************)
(* AutofillPanel.tsx:121-154: with the same exception an application is    *)
(* recorded only for a page that has been filled.                          *)
(***************************************************************************)
RecordsWhatItFilled ==
  \A c \in captured : c.form \in filled \/ c.crossed

(***************************************************************************)
(* AutofillPanel.tsx: the panel never waits alone, and what it submits or  *)
(* records is what it has filled.                                          *)
(***************************************************************************)
PanelFollowsTheForm ==
  /\ [](PanelWaitsForSomebody /\ RecordsWhatItFilled)
  /\ SubmitsWhatItFilled

=============================================================================
