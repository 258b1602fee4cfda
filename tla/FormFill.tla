------------------------------- MODULE FormFill -------------------------------
(***************************************************************************)
(* Filling an application form: what the five site adapters find on the    *)
(* page and fill from the profile, what they skip, how the answers of the  *)
(* AI to the skipped fields are matched with the inputs, on the server, in *)
(* the router and in the content script, and LinkedIn's automatic click on *)
(* "Next" 800 ms later.  The page may change, and the user type, between   *)
(* any two of these.                                                       *)
(*                                                                         *)
(* A text stands for what a label says, what an attribute says, or what is *)
(* searched for in either; Includes says which text contains which.  In a  *)
(* list of fields every field keeps its place: a function whose domain has *)
(* gaps where the code has filtered the list.                              *)
(***************************************************************************)
EXTENDS Naturals, Sequences, FiniteSets, Functions

CONSTANTS
  Text,       \* the texts of labels and attributes
  NoText,     \* an attribute that is not there
  Includes,   \* pairs of a text and one that it contains
  Keys,       \* the profile keys as they are probed, by the text searched for
  Pages,      \* the pages: their inputs, and the button the automatic click would reach
  LaterPages, \* those that may come next
  MaxMoves    \* bound: changes of the page

\* The first enabled match of the allowlisted selectors: what a click on it does, which
\* is LinkedIn's, and what isSubmitButton reads in its texts.  A step with no match has
\* one that does nothing.
Button == [does : {"next", "submit", "nothing"}, reads : {"next", "submit"}]
NoButton == [does |-> "nothing", reads |-> "next"]

Page == [inputs : Seq([label : Text, attr : Text \cup {NoText}, id : 0 .. 2, open : BOOLEAN]),
         button : Button]

ASSUME FormFillAssumption ==
  /\ NoText \notin Text
  /\ Includes \subseteq Text \X Text /\ \A t \in Text : <<t, t>> \in Includes
  /\ Keys \in Seq(Text)
  /\ Pages \subseteq Page /\ LaterPages \subseteq Pages
  /\ MaxMoves \in Nat

VARIABLES
  site,       \* the adapter that resolveAdapter chose
  profile,    \* the keys the profile has a value for
  pageNow,    \* the page in the tab
  inputs,     \* what is in its inputs: "user", or whose value it is
  skipped,    \* AutofillResult.skipped
  advancing,  \* scheduleAutoAdvance's timer, and the modal it holds
  toFill,     \* the answers on their way to the content script
  remaining,  \* the fields the panel will list as remaining
  fillStep,   \* how far the filling has come
  moves,      \* changes of the page so far
  clicked     \* history: the buttons the timer has clicked

fillVars == <<site, profile, pageNow, inputs, skipped, advancing, toFill, remaining,
              fillStep, moves, clicked>>

Site == {"greenhouse", "lever", "indeed", "linkedin", "ashby"}

\* A CSS selector: an id, an exact attribute, an attribute that contains a text,
\* or none at all.
ById(id)      == [by |-> "id", id |-> id, text |-> NoText]
ByName(text)  == [by |-> "name", id |-> 0, text |-> text]
ByProbe(text) == [by |-> "probe", id |-> 0, text |-> text]
BySearch      == [by |-> "search", id |-> 0, text |-> NoText]
Selector == {ById(0)} \cup {ById(id) : id \in 1 .. 2} \cup {BySearch}
            \cup {ByName(t) : t \in Text} \cup {ByProbe(t) : t \in Text}

Field == [label : Text, custom : BOOLEAN, selector : Selector]
\* No timer; or the modal captured by it is on the page, in whatever step it is by now,
\* or has left the page with the button it had.
Timer == [modal : {"none", "shown", "gone"}, button : Button]
Off   == [modal |-> "none", button |-> NoButton]
Shown == [modal |-> "shown", button |-> NoButton]
Gone(button) == [modal |-> "gone", button |-> button]

Value == [from : {"user", "profile", "ai"}, of : Text \cup {NoText}]
Blank == [from |-> "user", of |-> NoText]
ByHand(x) == [from |-> "user", of |-> x.label]
Untouched(p) == [i \in 1 .. Len(p.inputs) |-> Blank]
IsList(fields) ==
  /\ DOMAIN fields \subseteq Nat /\ IsFiniteSet(DOMAIN fields)
  /\ fields \in [DOMAIN fields -> Field]

FormFillTypeOK ==
  /\ site \in Site /\ profile \subseteq Text /\ pageNow \in Page
  /\ inputs \in [1 .. Len(pageNow.inputs) -> Value]
  /\ IsList(skipped) /\ IsList(toFill) /\ IsList(remaining)
  /\ advancing \in Timer /\ clicked \subseteq Button
  /\ fillStep \in {"new", "filled", "answered", "over"}
  /\ moves \in 0 .. MaxMoves

FormFillInit ==
  /\ site \in Site
  /\ profile \in SUBSET {Keys[k] : k \in 1 .. Len(Keys)}
  /\ pageNow \in Pages /\ inputs = Untouched(pageNow)
  /\ skipped = <<>> /\ toFill = <<>> /\ remaining = <<>>
  /\ advancing = Off /\ fillStep = "new" /\ moves = 0 /\ clicked = {}

-----------------------------------------------------------------------------
(* The document.                                                           *)

Contains(text, search) == <<text, search>> \in Includes

\* The first in document order; 0 if there is none.
Earliest(S) == IF S = {} THEN 0 ELSE CHOOSE i \in S : \A j \in S : i <= j
Latest(S)   == CHOOSE i \in S : \A j \in S : i >= j

Here == 1 .. Len(pageNow.inputs)

\* document.querySelector.
QuerySelector(s) ==
  Earliest({i \in Here :
    LET x == pageNow.inputs[i]
    IN  \/ s.by = "id" /\ s.id # 0 /\ x.id = s.id
        \/ s.by = "name" /\ x.attr = s.text
        \/ s.by = "probe" /\ Contains(x.attr, s.text)})

FindInputByLabel(text) ==
  Earliest({i \in Here : Contains(pageNow.inputs[i].label, text)})
FindOpenInputByLabel(text) ==
  Earliest({i \in Here : pageNow.inputs[i].open /\ Contains(pageNow.inputs[i].label, text)})

\* fillInput for each pair of an input and a value, one after the other: the last
\* one stays.
Typed(writes) ==
  [i \in DOMAIN inputs |->
    LET mine == {k \in DOMAIN writes : writes[k].at = i}
    IN IF mine = {} THEN inputs[i] ELSE writes[Latest(mine)].value]

-----------------------------------------------------------------------------
(* The adapters.                                                           *)

Probed(key) == [label |-> key, custom |-> FALSE, selector |-> ByProbe(key)]
Probes ==
  [k \in {j \in 1 .. Len(Keys) : QuerySelector(ByProbe(Keys[j])) # 0} |-> Probed(Keys[k])]

\* The selector of a swept input: the one of an input with no attribute finds none.
Identity(x) ==
  IF x.id # 0 THEN ById(x.id) ELSE IF x.attr # NoText THEN ByName(x.attr) ELSE BySearch
IsTwin(x, y) == Identity(x) = Identity(y) /\ (Identity(x) = BySearch => x.label = y.label)
Custom(x) == [label |-> x.label, custom |-> TRUE, selector |-> Identity(x)]

\* Mutant: what the probes have found is swept again.
SweepEverything == [i \in Here |-> Custom(pageNow.inputs[i])]

\* sweepCustomFields: the labelled inputs whose id no probe has found, each
\* selector once, or each label when there is nothing to select by.
SweepCustomFields ==
  LET found   == {QuerySelector(Probes[k].selector) : k \in DOMAIN Probes}
      covered == {pageNow.inputs[i].id : i \in found} \ {0}
      IsSwept(i) ==
        /\ pageNow.inputs[i].id \notin covered
        /\ \A j \in 1 .. i - 1 : ~ IsTwin(pageNow.inputs[j], pageNow.inputs[i])
  IN  [i \in {j \in Here : IsSwept(j)} |-> Custom(pageNow.inputs[i])]

Known(f) == ~f.custom /\ f.label \in profile
FromProfile(f, i) == [at |-> i, value |-> [from |-> "profile", of |-> f.label]]

\* An adapter that works through the fields it has detected: what has no value is
\* skipped, with its selector.
FillDetected(fields) ==
  LET known == {k \in DOMAIN fields : Known(fields[k])}
  IN /\ inputs' = Typed([k \in known |->
                          FromProfile(fields[k], QuerySelector(fields[k].selector))])
     /\ skipped' = Restrict(fields, DOMAIN fields \ known)
     /\ UNCHANGED advancing

\* The custom fields come after the probes.
ProbedAndSwept ==
  [k \in DOMAIN Probes \cup {Len(Keys) + i : i \in DOMAIN SweepCustomFields} |->
     IF k \in DOMAIN Probes THEN Probes[k] ELSE SweepCustomFields[k - Len(Keys)]]

FillGreenhouse == site = "greenhouse" /\ FillDetected(ProbedAndSwept)
FillLever      == site = "lever" /\ FillDetected(Probes)
FillIndeed     == site = "indeed" /\ FillDetected(Probes)

\* An adapter that works through its keys: what has no value is skipped even when
\* the page does not ask for it; what the page does not ask for is passed over.
Searched(key) == [label |-> key, custom |-> FALSE, selector |-> BySearch]
FillSearched(at) ==
  LET all   == [k \in 1 .. Len(Keys) |-> Searched(Keys[k])]
      known == {k \in DOMAIN all : Known(all[k])}
      here  == {k \in known : at[k] # 0}
  IN /\ inputs' = Typed([k \in here |-> FromProfile(all[k], at[k])])
     /\ skipped' = Restrict(all, DOMAIN all \ known)
     /\ advancing' = IF site = "linkedin" /\ here # {} THEN Shown ELSE Off

FillLinkedIn ==
  site = "linkedin" /\ FillSearched([k \in 1 .. Len(Keys) |-> FindOpenInputByLabel(Keys[k])])
FillAshby ==
  site = "ashby" /\ FillSearched([k \in 1 .. Len(Keys) |-> FindInputByLabel(Keys[k])])

FillFields ==
  /\ fillStep = "new"
  /\ FillGreenhouse \/ FillLever \/ FillIndeed \/ FillLinkedIn \/ FillAshby
  /\ fillStep' = IF DOMAIN skipped' = {} THEN "over" ELSE "filled"
  /\ UNCHANGED <<site, profile, pageNow, toFill, remaining, moves, clicked>>

-----------------------------------------------------------------------------
(* The page.                                                               *)

\* Mutant: what was typed is carried over.
ShowFilled(p) == pageNow' = p /\ UNCHANGED inputs

Show(p) == pageNow' = p /\ inputs' = Untouched(p)

\* The user, or the site, shows another page or another step of the form, in the modal
\* that is there or in another one.
MoveOn(p, sameModal) ==
  /\ moves < MaxMoves
  /\ moves' = moves + 1
  /\ p # pageNow /\ Show(p)
  /\ advancing' = IF sameModal \/ advancing.modal # "shown" THEN advancing
                   ELSE Gone(pageNow.button)
  /\ UNCHANGED <<site, profile, skipped, toFill, remaining, fillStep, clicked>>

\* The user types into an input, whatever it holds.
UserTypes(i) ==
  /\ pageNow.inputs[i].open
  /\ inputs' = [inputs EXCEPT ![i] = ByHand(pageNow.inputs[i])]
  /\ UNCHANGED <<site, profile, pageNow, skipped, advancing, toFill, remaining, fillStep,
                 moves, clicked>>

\* The button the timer finds in its modal when it fires.
Reached == IF advancing.modal = "gone" THEN advancing.button ELSE pageNow.button

\* A click: the site shows another step, or refuses, or does not hear it.
Click(p) ==
  /\ clicked' = clicked \cup {Reached}
  /\ \/ Reached.does # "nothing" /\ Show(p)
     \/ UNCHANGED <<pageNow, inputs>>

\* Mutant: an allowlisted selector is trusted.
AutoAdvanceUnread(p) ==
  /\ advancing.modal # "none"
  /\ advancing' = Off
  /\ Click(p)
  /\ UNCHANGED <<site, profile, skipped, toFill, remaining, fillStep, moves>>

\* The button is looked up, read and clicked when the timer fires, unless its texts say
\* that it submits.
AutoAdvance(p) ==
  /\ advancing.modal # "none"
  /\ advancing' = Off
  /\ IF Reached.reads = "submit" THEN UNCHANGED <<pageNow, inputs, clicked>> ELSE Click(p)
  /\ UNCHANGED <<site, profile, skipped, toFill, remaining, fillStep, moves>>

-----------------------------------------------------------------------------
(* The AI.                                                                 *)

\* A field is asked for by its label; among fields of one label the last one is
\* found again.
Labels == {skipped[k].label : k \in DOMAIN skipped}
ByItsLabel(label) ==
  skipped[Latest({k \in DOMAIN skipped : skipped[k].label = label})]

\* Mutant: answers and fields are matched by their places, with one answer lost.
MatchAnswersByPlace(answered) ==
  LET got == {k \in DOMAIN skipped : skipped[k].label \in answered}
      before(k) == {j \in DOMAIN skipped : j < k}
      place(k) == IF before(k) = {} THEN k ELSE Latest(before(k))
  IN /\ toFill' = [k \in got |-> [skipped[place(k)] EXCEPT !.label = skipped[k].label]]
     /\ remaining' = Restrict(skipped, DOMAIN skipped \ got)

\* The server answers every field under its own label, with what the model said
\* for that label; the router looks the field up by the label again.
MatchAnswers(answered) ==
  LET each == [k \in DOMAIN skipped |-> ByItsLabel(skipped[k].label)]
      got  == {k \in DOMAIN skipped : skipped[k].label \in answered}
  IN /\ toFill' = Restrict(each, got)
     /\ remaining' = Restrict(each, DOMAIN skipped \ got)

HandleRequestAiFill(answered) ==
  /\ fillStep = "filled"
  /\ MatchAnswers(answered)
  /\ fillStep' = IF answered = {} THEN "over" ELSE "answered"
  /\ UNCHANGED <<site, profile, pageNow, inputs, skipped, advancing, moves, clicked>>

\* No token, no answer in 20 s, an error, no answers: nothing is typed.
AiFillFails ==
  /\ fillStep \in {"filled", "answered"}
  /\ remaining' = skipped /\ toFill' = <<>>
  /\ fillStep' = "over"
  /\ UNCHANGED <<site, profile, pageNow, inputs, skipped, advancing, moves, clicked>>

\* The input of an answer on the page that is there by then: by the selector, or
\* else the first one whose label contains the field's; 0 when it is locked.
Target(f) ==
  LET at == IF QuerySelector(f.selector) # 0 THEN QuerySelector(f.selector)
            ELSE FindInputByLabel(f.label)
  IN IF at # 0 /\ pageNow.inputs[at].open THEN at ELSE 0

\* Mutant: what could not be typed stops the rest.
ExecuteAiFillUntilMissing ==
  /\ fillStep = "answered"
  /\ LET missing == {k \in DOMAIN toFill : Target(toFill[k]) = 0}
         done == {k \in DOMAIN toFill : \A j \in missing : k < j}
     IN inputs' = Typed([k \in done |->
          [at |-> Target(toFill[k]), value |-> [from |-> "ai", of |-> toFill[k].label]]])
  /\ fillStep' = "over"
  /\ UNCHANGED <<site, profile, pageNow, skipped, advancing, toFill, remaining, moves, clicked>>

\* EXECUTE_AI_FILL: what cannot be typed is passed over.
ExecuteAiFill ==
  /\ fillStep = "answered"
  /\ inputs' = Typed([k \in DOMAIN toFill |->
       [at |-> Target(toFill[k]), value |-> [from |-> "ai", of |-> toFill[k].label]]])
  /\ fillStep' = "over"
  /\ UNCHANGED <<site, profile, pageNow, skipped, advancing, toFill, remaining, moves, clicked>>

FormFillNext ==
  \/ FillFields
  \/ \E p \in LaterPages, same \in BOOLEAN : MoveOn(p, same) \/ AutoAdvance(p)
  \/ \E i \in Here : UserTypes(i)
  \/ \E answered \in SUBSET Labels : HandleRequestAiFill(answered)
  \/ AiFillFails
  \/ ExecuteAiFill

FormFillSpec == FormFillInit /\ [][FormFillNext]_fillVars

-----------------------------------------------------------------------------
(* Correctness.                                                            *)

(***************************************************************************)
(* message-router.ts:602-613: an answer is typed only where it was asked   *)
(* for: into an input whose label contains the label of the field it       *)
(* answers, or which that field's selector names; never, as the code once  *)
(* did, into another field's.                                              *)
(***************************************************************************)
AnswersGoHome ==
  \A i \in DOMAIN inputs : inputs[i].from = "ai" =>
    \/ Contains(pageNow.inputs[i].label, inputs[i].of)
    \/ \E k \in DOMAIN skipped :
         skipped[k].label = inputs[i].of /\ QuerySelector(skipped[k].selector) = i

(***************************************************************************)
(* message-router.ts:638-642 "so the user is told about it": when the AI   *)
(* fill ends, every skipped field is listed as remaining or has been typed *)
(* somewhere, or it shares its label with a later one, or its input is     *)
(* missing or locked by then, or a later answer went to the same input.    *)
(***************************************************************************)
NobodyIsForgotten ==
  [][fillStep # "over" /\ fillStep' = "over" =>
      \A k \in DOMAIN skipped' :
        LET f == skipped'[k] IN
          \/ \E n \in DOMAIN remaining' : remaining'[n] = f
          \/ \E i \in DOMAIN inputs : inputs'[i] = [from |-> "ai", of |-> f.label]
          \/ ByItsLabel(f.label) # f
          \/ Target(f) = 0
          \/ \E n \in DOMAIN skipped : n > k /\ Target(skipped[n]) = Target(f)]_fillVars

(***************************************************************************)
(* The AI never replaces what came from the profile, on the page where it  *)
(* came from, in an input that has an id and a name of its own, unless a   *)
(* skipped field has no selector or its own input is gone, or the probe of *)
(* a key without a value finds the input too: what the probes of           *)
(* greenhouse.ts have found is not swept and asked again.                  *)
(***************************************************************************)
ProfileValuesStay ==
  [][\A i \in DOMAIN inputs :
       /\ inputs[i].from = "profile" /\ pageNow' = pageNow /\ inputs'[i].from = "ai"
       => \/ pageNow.inputs[i].id = 0
          \/ \E j \in DOMAIN inputs \ {i} : pageNow.inputs[j].attr = pageNow.inputs[i].attr
          \/ \E k \in DOMAIN skipped : QuerySelector(skipped[k].selector) = 0
          \/ \E key \in {Keys[k] : k \in 1 .. Len(Keys)} \ profile :
               QuerySelector(ByProbe(key)) = i]_fillVars

(***************************************************************************)
(* linkedin.ts:282 "Submission is user-initiated only", as far as linkedin *)
(* .ts:320-331 goes: whatever step of whichever modal is there when the    *)
(* timer fires, a button that submits is clicked only if it matches an     *)
(* allowlisted selector and its texts have none of the words of            *)
(* SUBMIT_PATTERN.  Such a button would submit the application.            *)
(***************************************************************************)
SubmissionIsUserInitiated ==
  \A button \in clicked : button.does = "submit" => button.reads # "submit"

(***************************************************************************)
(* message-router.ts:602-613 and linkedin.ts:24-36, together: what the AI  *)
(* types is where it belongs, and no button that says so is pressed to     *)
(* submit it.                                                              *)
(***************************************************************************)
FillsAreSafe == AnswersGoHome /\ SubmissionIsUserInitiated

(***************************************************************************)
(* message-router.ts:600-660, step by step: no field is lost between the   *)
(* two fills, and no value of the profile.                                 *)
(***************************************************************************)
FillsLoseNothing == NobodyIsForgotten /\ ProfileValuesStay

=============================================================================
