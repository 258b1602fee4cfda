----------------------------- MODULE MCExtension ------------------------------
(* The parts of the Chrome extension side by side, for TLC.  A behaviour is *)
(* one of a single part, the others stay as they start: this is their union *)
(* and not their product, for the parts share no variable.                  *)
EXTENDS ExtensionToken, ScorePanel, ProfileCache, AutofillPanel, FormFill,
        PageDetection, TLC

VARIABLE part  \* the part whose behaviour this is

mcVars ==
  <<part, tokenVars, scorePanelVars, profileVars, autofillVars, fillVars,
    detectionVars>>

MCInit ==
  /\ part \in {"token", "score", "profile", "autofill", "fill", "detection"}
  /\ \/ part = "fill"
     \/ /\ site = "ashby" /\ profile = {}
        /\ pageNow = CHOOSE p \in Pages : TRUE
  /\ part = "detection" \/ indeed = FALSE
  /\ TokenInit /\ ScorePanelInit /\ ProfileInit /\ AutofillInit
  /\ FormFillInit /\ DetectionInit

MCNext ==
  /\ UNCHANGED part
  /\ IF part = "token" THEN TokenNext ELSE UNCHANGED tokenVars
  /\ IF part = "score" THEN ScorePanelNext ELSE UNCHANGED scorePanelVars
  /\ IF part = "profile" THEN ProfileNext ELSE UNCHANGED profileVars
  /\ IF part = "autofill" THEN AutofillNext ELSE UNCHANGED autofillVars
  /\ IF part = "fill" THEN FormFillNext ELSE UNCHANGED fillVars
  /\ IF part = "detection" THEN DetectionNext ELSE UNCHANGED detectionVars

MCSpec == MCInit /\ [][MCNext]_mcVars

\* The parts share their model values: a and b are tokens, postings, users and
\* forms; x and y are calls, requests and messages.
Symmetric == Permutations(Token) \cup Permutations(Call)

-----------------------------------------------------------------------------
(* The form pages of FormFill: the profile has a name and a title, a page  *)
(* has one field or two, and one field more appears afterwards.            *)

\* The matches of a label with a key: "nickname" contains "name".
Words ==
  {<<"name", "name">>, <<"nickname", "nickname">>, <<"nickname", "name">>, <<"title", "title">>}

KeyList == <<"name", "title">>

Inputs(i, open) ==
  [label : {"name", "nickname", "title"}, attr : {"nickname", NoText}, id : {0, i}, open : open]

\* The button of a step: one to the next, one that submits and says so, one that
\* submits and is taken for the first, and none.
ToNext == [does |-> "next", reads |-> "next"]
Submit == [does |-> "submit", reads |-> "submit"]
Misread == [does |-> "submit", reads |-> "next"]

NextPages ==
  {[inputs |-> <<[label |-> "nickname", attr |-> "nickname", id |-> step[1], open |-> TRUE]>>,
    button |-> step[2]] : step \in {<<0, Submit>>, <<1, Submit>>, <<1, Misread>>}}

FirstPages ==
  NextPages \cup
  {[inputs |-> <<one>>, button |-> button] :
     one \in Inputs(1, {TRUE}), button \in {Submit, NoButton}} \cup
  {[inputs |-> <<one, two>>, button |-> ToNext] :
     one \in Inputs(1, {TRUE}), two \in Inputs(2, BOOLEAN)}

\* The type invariant of the part that moves: the others are as they start.
ExtensionTypesOK ==
  CASE part = "token"     -> TokenTypeOK
    [] part = "score"     -> ScorePanelTypeOK
    [] part = "profile"   -> ProfileTypeOK
    [] part = "autofill"  -> AutofillTypeOK
    [] part = "fill"      -> FormFillTypeOK
    [] part = "detection" -> DetectionTypeOK

===============================================================================
