----------------------------- MODULE ProfileSettings -----------------------------
(***************************************************************************)
(* The page of the settings where a user edits the telephone number and    *)
(* the LinkedIn address that the extension fills in, and the API behind    *)
(* it, which updates the user's row or inserts it.  Typing ends the state  *)
(* of the last save, and so does a timer, so that the button may be        *)
(* pressed again while a save is under way.                                *)
(***************************************************************************)
EXTENDS Naturals, FiniteSets

CONSTANTS
  Entry,        \* what can be typed; both fields are one entry
  BadEntry,     \* the entries whose address the page refuses
  ProfileSave,  \* saves
  MaxMishaps    \* bound: calls that fail, and changes made elsewhere

ASSUME ProfileSettingsAssumption ==
  /\ BadEntry \subseteq Entry /\ MaxMishaps \in Nat /\ "blank" \notin BadEntry
  /\ "none" \notin Entry /\ IsFiniteSet(ProfileSave)

VARIABLES
  profileRow,     \* the row of user_profiles, or "none"
  knownProfile,   \* profile
  typed,          \* phone and linkedinUrl
  loadState,      \* loading, shown, or fetchErr
  saveState,      \* saveState
  saves,          \* the calls of handleSave
  savedTimers,    \* setTimeout(idle) not yet fired
  mishaps,        \* calls that failed, changes made elsewhere
  typedOver,      \* history: something was typed while a save was under way
  lostEntry,      \* history: an answer replaced something else that was typed
  timerOver,      \* history: a timer fired while a save was under way
  savesCrossed,   \* history: two saves were under way at once
  profileDrifted  \* history: a save failed after it was done, or the row was changed elsewhere

settingsHistory == <<typedOver, lostEntry, timerOver, savesCrossed, profileDrifted>>
settingsVars == <<profileRow, knownProfile, typed, loadState, saveState, saves, savedTimers,
                  mishaps, settingsHistory>>

Entries == Entry \cup {"blank"}
NoSave == [at |-> "none", entry |-> "blank"]
Saved == {s \in ProfileSave : saves[s].at \notin {"none", "over"}}

ProfileSettingsTypeOK ==
  /\ profileRow \in Entries \cup {"none"}
  /\ knownProfile \in Entries /\ typed \in Entries
  /\ loadState \in {"loading", "shown", "failed"}
  /\ saveState \in {"idle", "saving", "saved", "error"}
  /\ saves \in [ProfileSave -> [at : {"none", "sent", "absent", "written", "answered", "over"},
                         entry : Entries]]
  /\ savedTimers \in 0 .. Cardinality(ProfileSave)
  /\ mishaps \in 0 .. MaxMishaps
  /\ typedOver \in BOOLEAN /\ lostEntry \in BOOLEAN /\ timerOver \in BOOLEAN
  /\ savesCrossed \in BOOLEAN /\ profileDrifted \in BOOLEAN
  /\ saveState = "saving" => Saved # {}
  /\ \A s \in Saved : saves[s].entry \notin BadEntry

ProfileSettingsInit ==
  /\ profileRow \in (Entries \ BadEntry) \cup {"none"}
  /\ knownProfile = "blank" /\ typed = "blank" /\ loadState = "loading"
  /\ saveState = "idle" /\ saves = [s \in ProfileSave |-> NoSave] /\ savedTimers = 0
  /\ mishaps = 0
  /\ typedOver = FALSE /\ lostEntry = FALSE /\ timerOver = FALSE
  /\ savesCrossed = FALSE /\ profileDrifted = FALSE

\* What getProfile makes of the row, or of none.
AsProfile(r) == IF r = "none" THEN "blank" ELSE r
Mishap == mishaps < MaxMishaps /\ mishaps' = mishaps + 1

LoadSettings ==
  /\ loadState = "loading"
  /\ \/ /\ loadState' = "shown" /\ UNCHANGED mishaps
        /\ knownProfile' = AsProfile(profileRow) /\ typed' = AsProfile(profileRow)
     \/ loadState' = "failed" /\ Mishap /\ UNCHANGED <<knownProfile, typed>>
  /\ UNCHANGED <<profileRow, saveState, saves, savedTimers, settingsHistory>>

TypeEntry(e) ==
  /\ loadState = "shown" /\ e # typed
  /\ typed' = e /\ saveState' = "idle"
  /\ typedOver' = (typedOver \/ Saved # {})
  /\ UNCHANGED <<profileRow, knownProfile, loadState, saves, savedTimers, mishaps, lostEntry,
                 timerOver, savesCrossed, profileDrifted>>

IsDirty == typed # knownProfile

\* What the page shows; "save" for the button when it is enabled.
SettingsShow ==
  IF loadState # "shown" THEN {loadState}
  ELSE {"form"} \cup (IF saveState = "idle" THEN {} ELSE {saveState})
       \cup (IF typed \in BadEntry THEN {"invalid"} ELSE {})
       \cup (IF IsDirty /\ saveState = "idle" THEN {"unsaved"} ELSE {})
       \cup (IF IsDirty /\ typed \notin BadEntry /\ saveState # "saving" THEN {"save"} ELSE {})

\* Mutant: an address that is refused does not disable the button.
HandleSaveInvalid ==
  /\ loadState = "shown" /\ IsDirty /\ saveState # "saving"
  /\ \E s \in ProfileSave :
       /\ saves[s].at = "none"
       /\ saves' = [saves EXCEPT ![s] = [at |-> "sent", entry |-> typed]]
  /\ saveState' = "saving"
  /\ savesCrossed' = (savesCrossed \/ Saved # {})
  /\ UNCHANGED <<profileRow, knownProfile, typed, loadState, savedTimers, mishaps, typedOver,
                 lostEntry, timerOver, profileDrifted>>

\* Mutant: the button is not disabled while it saves.
HandleSaveTwice ==
  /\ loadState = "shown" /\ IsDirty /\ typed \notin BadEntry
  /\ \E s \in ProfileSave :
       /\ saves[s].at = "none"
       /\ saves' = [saves EXCEPT ![s] = [at |-> "sent", entry |-> typed]]
  /\ saveState' = "saving"
  /\ savesCrossed' = (savesCrossed \/ Saved # {})
  /\ UNCHANGED <<profileRow, knownProfile, typed, loadState, savedTimers, mishaps, typedOver,
                 lostEntry, timerOver, profileDrifted>>

HandleSave ==
  /\ "save" \in SettingsShow
  /\ \E s \in ProfileSave :
       /\ saves[s].at = "none"
       /\ saves' = [saves EXCEPT ![s] = [at |-> "sent", entry |-> typed]]
  /\ saveState' = "saving"
  /\ savesCrossed' = (savesCrossed \/ Saved # {})
  /\ UNCHANGED <<profileRow, knownProfile, typed, loadState, savedTimers, mishaps, typedOver,
                 lostEntry, timerOver, profileDrifted>>

-----------------------------------------------------------------------------
(* updateProfile: the row is looked for, then updated or inserted, and     *)
(* read again for the answer.  A second INSERT breaks the unique index.    *)

ServeSave(s) ==
  /\ \/ /\ saves[s].at = "sent" /\ profileRow # "none"
        /\ profileRow' = saves[s].entry /\ saves' = [saves EXCEPT ![s].at = "written"]
     \/ /\ saves[s].at = "sent" /\ profileRow = "none"
        /\ saves' = [saves EXCEPT ![s].at = "absent"] /\ UNCHANGED profileRow
     \/ /\ saves[s].at = "absent" /\ profileRow = "none"
        /\ profileRow' = saves[s].entry /\ saves' = [saves EXCEPT ![s].at = "written"]
     \/ /\ saves[s].at = "written"
        /\ saves' = [saves EXCEPT ![s] = [at |-> "answered", entry |-> AsProfile(profileRow)]]
        /\ UNCHANGED profileRow
  /\ UNCHANGED <<knownProfile, typed, loadState, saveState, savedTimers, mishaps,
                 settingsHistory>>

\* The panel of the extension writes the same row.
SavedElsewhere(e) ==
  /\ Mishap
  /\ profileRow' = e /\ profileDrifted' = TRUE
  /\ UNCHANGED <<knownProfile, typed, loadState, saveState, saves, savedTimers, typedOver,
                 lostEntry, timerOver, savesCrossed>>

-----------------------------------------------------------------------------

\* Mutant: what was typed is replaced by what the page knew before.
SaveArrivesReset(s) ==
  /\ saves[s].at = "answered"
  /\ knownProfile' = saves[s].entry /\ typed' = knownProfile
  /\ lostEntry' = (lostEntry \/ typed # typed')
  /\ saveState' = "saved" /\ savedTimers' = savedTimers + 1
  /\ saves' = [saves EXCEPT ![s].at = "over"]
  /\ UNCHANGED <<profileRow, loadState, mishaps, typedOver, timerOver, savesCrossed,
                 profileDrifted>>

SaveArrives(s) ==
  /\ saves[s].at = "answered"
  /\ knownProfile' = saves[s].entry /\ typed' = saves[s].entry
  /\ lostEntry' = (lostEntry \/ typed # saves[s].entry)
  /\ saveState' = "saved" /\ savedTimers' = savedTimers + 1
  /\ saves' = [saves EXCEPT ![s].at = "over"]
  /\ UNCHANGED <<profileRow, loadState, mishaps, typedOver, timerOver, savesCrossed,
                 profileDrifted>>

Collides(s) == saves[s].at = "absent" /\ profileRow # "none"

\* Mutant: what was typed counts as saved.
SaveFailsClean(s) ==
  /\ \/ Collides(s) /\ UNCHANGED <<mishaps, profileDrifted>>
     \/ /\ s \in Saved /\ ~Collides(s) /\ Mishap
        /\ profileDrifted' = (profileDrifted \/ saves[s].at \in {"written", "answered"})
  /\ saveState' = "error" /\ knownProfile' = typed
  /\ saves' = [saves EXCEPT ![s].at = "over"]
  /\ UNCHANGED <<profileRow, typed, loadState, savedTimers, typedOver, lostEntry, timerOver,
                 savesCrossed>>

SaveFails(s) ==
  /\ \/ Collides(s) /\ UNCHANGED <<mishaps, profileDrifted>>
     \/ /\ s \in Saved /\ ~Collides(s) /\ Mishap
        /\ profileDrifted' = (profileDrifted \/ saves[s].at \in {"written", "answered"})
  /\ saveState' = "error"
  /\ saves' = [saves EXCEPT ![s].at = "over"]
  /\ UNCHANGED <<profileRow, knownProfile, typed, loadState, savedTimers, typedOver, lostEntry,
                 timerOver, savesCrossed>>

\* Two seconds after a save, whatever the page is doing by then.
SavedTimer ==
  /\ savedTimers > 0 /\ savedTimers' = savedTimers - 1
  /\ saveState' = "idle"
  /\ timerOver' = (timerOver \/ Saved # {})
  /\ UNCHANGED <<profileRow, knownProfile, typed, loadState, saves, mishaps, typedOver, lostEntry,
                 savesCrossed, profileDrifted>>

ProfileSettingsNext ==
  \/ LoadSettings \/ HandleSave \/ SavedTimer
  \/ \E e \in Entries : TypeEntry(e)
  \/ \E e \in Entries \ BadEntry : SavedElsewhere(e)
  \/ \E s \in ProfileSave : ServeSave(s) \/ SaveArrives(s) \/ SaveFails(s)

ProfileSettingsSpec == ProfileSettingsInit /\ [][ProfileSettingsNext]_settingsVars

-----------------------------------------------------------------------------
(* Correctness.                                                            *)

(***************************************************************************)
(* settings/profile/page.tsx:54-80 and 220-262: a form that shows neither  *)
(* "Unsaved changes" nor an error, with no save under way, holds what the  *)
(* database holds, whatever failed before; unless two saves crossed, one   *)
(* failed after it was done, or the extension changed the row.             *)
(***************************************************************************)
CleanIsSaved ==
  /\ "form" \in SettingsShow /\ SettingsShow \cap {"unsaved", "error"} = {}
  /\ Saved = {} /\ ~savesCrossed /\ ~profileDrifted
  => typed = AsProfile(profileRow)

(***************************************************************************)
(* settings/profile/page.tsx:66-80 and 178: an answer never replaces       *)
(* something else that was typed, unless it was typed while a save was     *)
(* under way, or the answer brings what the extension wrote.               *)
(***************************************************************************)
NothingTypedIsLost == lostEntry => typedOver \/ savesCrossed \/ profileDrifted

(***************************************************************************)
(* settings/profile/page.tsx:62-77: two saves are under way at once only   *)
(* if something was typed during the first, or if the timer of an earlier  *)
(* save turned "Saving" off.                                               *)
(***************************************************************************)
SavesCrossOnlyBehindTyping == savesCrossed => typedOver \/ timerOver

(***************************************************************************)
(* settings/profile/page.tsx: the fields and the row agree when the page   *)
(* says so, and nothing typed disappears.                                  *)
(***************************************************************************)
SettingsAgree == CleanIsSaved /\ NothingTypedIsLost /\ SavesCrossOnlyBehindTyping

==================================================================================
