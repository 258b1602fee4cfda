----------------------------- MODULE PageDetection -----------------------------
(***************************************************************************)
(* What the content script of a single-page job site tells the service     *)
(* worker: the posting, read from the document under the URL of that       *)
(* moment, and whether there is an application form, read from the modal.  *)
(* It looks when it is loaded and one second after the last change of the  *)
(* URL that it hears of, or after the modal has come or gone; the site     *)
(* fills the document and the modal whenever it likes.                     *)
(* For LinkedIn and Indeed, whose adapters observe the modal.              *)
(***************************************************************************)
EXTENDS Naturals

CONSTANTS
  Posting,     \* job postings, by URL
  NoPosting,   \* a URL or a document without one
  MaxChanges   \* bound: changes of the URL and of the modal

ASSUME PageDetectionAssumption ==
  /\ NoPosting \notin Posting
  /\ MaxChanges \in Nat

VARIABLES
  indeed,     \* the site: Indeed, whose detectForm asks isJobPostingPage, or LinkedIn
  url,        \* window.location
  document,   \* whose title and description the document holds
  modal,      \* the application modal: not there, without or with known inputs
  modalSeen,  \* the observer's modalPresent
  notice,     \* a mutation record waits for the observer's callback
  debounce,   \* debounceTimer is running
  toldJob,    \* the last JOB_DETECTED: its sourceUrl, and whose text it was
  toldForm,   \* the last of FORM_DETECTED (TRUE) and FORM_CLEARED (FALSE)
  behind,     \* history: the document was not that of the URL at the last look
  unheard,    \* history: since then the URL has changed without the script's knowledge
  missed,     \* history: since then the modal has changed beneath the observer
  changes     \* changes so far

detectionVars ==
  <<indeed, url, document, modal, modalSeen, notice, debounce, toldJob, toldForm, behind,
    unheard, missed, changes>>

Place == Posting \cup {NoPosting}
Modal == {"none", "empty", "form"}
IsPresent(m) == m # "none"

DetectionTypeOK ==
  /\ indeed \in BOOLEAN /\ url \in Place /\ document \in Place
  /\ toldJob \in [url : Posting, of : Posting] \cup {[url |-> NoPosting, of |-> NoPosting]}
  /\ modal \in Modal /\ modalSeen \in BOOLEAN /\ notice \in BOOLEAN
  /\ debounce \in BOOLEAN /\ toldForm \in BOOLEAN
  /\ behind \in BOOLEAN /\ unheard \in BOOLEAN /\ missed \in BOOLEAN
  /\ changes \in 0 .. MaxChanges

DetectionInit ==
  /\ indeed \in BOOLEAN
  /\ url = NoPosting /\ document = NoPosting
  /\ modal = "none" /\ modalSeen = FALSE /\ notice = FALSE /\ debounce = FALSE
  /\ toldJob = [url |-> NoPosting, of |-> NoPosting]
  /\ toldForm = FALSE /\ behind = FALSE /\ unheard = FALSE /\ missed = FALSE
  /\ changes = 0

Changes == changes < MaxChanges /\ changes' = changes + 1

-----------------------------------------------------------------------------
(* What a look at the page finds.                                          *)

\* detectJD: a URL that is a posting's, and a title, whosever it is.
DetectJD(u, d) ==
  IF u # NoPosting /\ d # NoPosting THEN [url |-> u, of |-> d] ELSE toldJob

\* detectForm: a modal, and inputs in it that are known.
DetectForm(u, m) == m = "form" /\ (indeed => u # NoPosting)

\* A look sees everything.
LookedAt(u, d) ==
  behind' = (u # NoPosting /\ d # u) /\ unheard' = FALSE /\ missed' = FALSE

\* Mutant: without a title the old posting is reported under the new URL.
RunDetectionUntitled(u, d, m) ==
  /\ toldJob' = [url |-> u, of |-> d]
  /\ toldForm' = DetectForm(u, m)
  /\ LookedAt(u, d)

\* runDetection.
RunDetection(u, d, m) ==
  /\ toldJob' = DetectJD(u, d)
  /\ toldForm' = DetectForm(u, m)
  /\ LookedAt(u, d)

-----------------------------------------------------------------------------
\* A page is loaded, with its document and its modal or without: a new content script,
\* whose observer starts with what is there.
LoadPage(u, d, m) ==
  /\ Changes
  /\ d \in {NoPosting, u}
  /\ url' = u /\ document' = d /\ modal' = m
  /\ modalSeen' = IsPresent(m) /\ notice' = FALSE /\ debounce' = FALSE
  /\ RunDetection(u, d, m)
  /\ UNCHANGED indeed

\* Mutant: a change that is heard of starts no timer.
PushStateUnheard(u, heard) ==
  /\ Changes
  /\ url' = u
  /\ unheard' = (unheard \/ ~heard)
  /\ UNCHANGED <<indeed, document, modal, modalSeen, notice, debounce, toldJob, toldForm,
                 behind, missed>>

\* The URL changes.  popstate and a call of the script's own wrappers are heard:
\* scheduleDetection, which starts anew.  A call of the page's own pushState is not:
\* the manifest names no world for the script, which then has a window of its own.
PushState(u, heard) ==
  /\ Changes
  /\ url' = u
  /\ debounce' = (debounce \/ heard) /\ unheard' = (unheard \/ ~heard)
  /\ UNCHANGED <<indeed, document, modal, modalSeen, notice, toldJob, toldForm, behind,
                 missed>>

\* The site has fetched and shown what belongs to the URL.
Hydrate ==
  /\ document # url
  /\ document' = url
  /\ UNCHANGED <<indeed, url, modal, modalSeen, notice, debounce, toldJob, toldForm, behind,
                 unheard, missed, changes>>

\* The modal comes or goes, or its inputs do: in a next step, or when they are there at
\* last.  The observers are told of children of the body, on Indeed of all that is below
\* it, too, and never of attributes.  Of what they are told they see whether there is a
\* modal: they miss every change that leaves that as they know it.
ToggleModal(m, reported) ==
  /\ Changes
  /\ m # modal
  /\ modal' = m /\ notice' = (notice \/ reported)
  /\ missed' = (missed \/ ~reported \/ IsPresent(m) = modalSeen)
  /\ UNCHANGED <<indeed, url, document, modalSeen, debounce, toldJob, toldForm, behind,
                 unheard>>

\* Something else of the page changes and is reported.
MutateElsewhere ==
  /\ ~notice
  /\ notice' = TRUE
  /\ UNCHANGED <<indeed, url, document, modal, modalSeen, debounce, toldJob, toldForm, behind,
                 unheard, missed, changes>>

\* Mutant: only an opening is reported.
ObserveOpening ==
  /\ notice
  /\ notice' = FALSE
  /\ modalSeen' = IsPresent(modal)
  /\ debounce' = (debounce \/ (IsPresent(modal) /\ ~modalSeen))
  /\ UNCHANGED <<indeed, url, document, modal, toldJob, toldForm, behind, unheard, missed,
                 changes>>

\* The MutationObserver's callback, after one or more changes.
ObserveModal ==
  /\ notice
  /\ notice' = FALSE
  /\ modalSeen' = IsPresent(modal)
  /\ debounce' = (debounce \/ IsPresent(modal) # modalSeen)
  /\ UNCHANGED <<indeed, url, document, modal, toldJob, toldForm, behind, unheard, missed,
                 changes>>

\* The timer of one second; the callbacks of mutations run before timers.
Redetect ==
  /\ debounce
  /\ ~notice
  /\ debounce' = FALSE
  /\ RunDetection(url, document, modal)
  /\ UNCHANGED <<indeed, url, document, modal, modalSeen, notice, changes>>

DetectionNext ==
  \/ \E u, d \in Place, m \in Modal : LoadPage(u, d, m)
  \/ \E u \in Place, heard \in BOOLEAN : PushState(u, heard)
  \/ \E m \in Modal, reported \in BOOLEAN : ToggleModal(m, reported)
  \/ Hydrate \/ MutateElsewhere \/ ObserveModal \/ Redetect

DetectionSpec == DetectionInit /\ [][DetectionNext]_detectionVars

-----------------------------------------------------------------------------
(* Correctness.                                                            *)

(***************************************************************************)
(* content/index.ts:55-76 with the observers of linkedin.ts and indeed.ts: *)
(* when no timer runs and no mutation waits, the side panel has been told  *)
(* of a form exactly when there is one, however quickly the modal opened   *)
(* and closed and the URL changed: unless, since the last look, the URL    *)
(* has changed unheard, or the modal unreported, or so that the observer   *)
(* saw a modal, or none, before and after: its inputs came or went, or it  *)
(* was closed and opened again before the callback.                        *)
(***************************************************************************)
FormIsReported ==
  ~debounce /\ ~notice /\ ~unheard /\ ~missed => (toldForm <=> DetectForm(url, modal))

(***************************************************************************)
(* content/index.ts:157-168: when no timer runs, the posting of the URL    *)
(* has been reported with its own text, unless the URL has changed unheard *)
(* or the document was not there yet at the last look, one second after    *)
(* the last change: nobody looks again when it comes.                      *)
(***************************************************************************)
PostingIsReported ==
  ~debounce /\ ~behind /\ ~unheard /\ url # NoPosting => toldJob = [url |-> url, of |-> url]

(***************************************************************************)
(* content/index.ts: the side panel knows the page that is there.          *)
(***************************************************************************)
PageIsReported == FormIsReported /\ PostingIsReported

=============================================================================
