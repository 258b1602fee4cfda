------------------------------ MODULE Web_proofs ------------------------------
(* Theorems about the other pages of the web application, each for every    *)
(* value of its constants: the settings of the profile, the upload, the     *)
(* lists, the billing page, the page of a job description, the tab one      *)
(* signs in in and the dashboard; and about all of the pages together.      *)
EXTENDS MCWeb, Pages_proofs, FiniteSetTheorems, SequenceTheorems,
        WellFoundedInduction, TLAPS

-------------------------------------------------------------------------------
(* ProfileSettings: the settings of the profile.                             *)

(***************************************************************************)
(* A save can be made when the form is there, and until saves cross or the *)
(* row is changed behind the page, the page knows the row or is writing    *)
(* to it what was typed.                                                   *)
(***************************************************************************)
Ended == {s \in ProfileSave : saves[s].at = "over"}

FormIsThere ==
  /\ loadState # "shown" => saveState = "idle" /\ Saved = {} /\ ~lostEntry
  /\ saveState = "saved" => typed = knownProfile
  /\ savedTimers <= Cardinality(Ended)
  /\ profileRow \notin BadEntry

RowIsKnown ==
  ~savesCrossed =>
    /\ \A s, t \in Saved : s = t
    /\ loadState = "shown" /\ ~profileDrifted =>
         /\ \A s \in Saved : saves[s].at \in {"written", "answered"} => AsProfile(profileRow) = saves[s].entry
         /\ (\A s \in Saved : saves[s].at \in {"sent", "absent"}) => knownProfile = AsProfile(profileRow)
         /\ ~typedOver => ~lostEntry /\ \A s \in Saved : saves[s].entry = typed

\* Until something is typed or a timer fires, the button waits for the save.
ButtonWaits ==
  ~typedOver /\ ~timerOver => ~savesCrossed /\ (Saved # {} => saveState = "saving")

SettingsInv == ProfileSettingsTypeOK /\ FormIsThere /\ RowIsKnown /\ ButtonWaits

SaveRecord == [at : {"none", "sent", "absent", "written", "answered", "over"}, entry : Entries]

SettingsData ==
  /\ profileRow \in Entries \cup {"none"}
  /\ knownProfile \in Entries /\ typed \in Entries
  /\ loadState \in {"loading", "shown", "failed"}
  /\ saveState \in {"idle", "saving", "saved", "error"}
  /\ saves \in [ProfileSave -> SaveRecord]
  /\ savedTimers \in 0 .. Cardinality(ProfileSave)
  /\ mishaps \in 0 .. MaxMishaps
SettingsFlags ==
  /\ typedOver \in BOOLEAN /\ lostEntry \in BOOLEAN /\ timerOver \in BOOLEAN
  /\ savesCrossed \in BOOLEAN /\ profileDrifted \in BOOLEAN
SavesAreValid ==
  /\ saveState = "saving" => Saved # {}
  /\ \A s \in Saved : saves[s].entry \notin BadEntry

\* The type invariant in three parts.
LEMMA SettingsParts == ProfileSettingsTypeOK <=> SettingsData /\ SettingsFlags /\ SavesAreValid
BY DEF ProfileSettingsTypeOK, SettingsData, SettingsFlags, SavesAreValid, SaveRecord

\* What a step makes of one of the saves.
BecomesSave(s, at, e) ==
  /\ saves' \in [ProfileSave -> SaveRecord]
  /\ saves'[s].at = at /\ saves'[s].entry = e
  /\ \A t \in ProfileSave \ {s} : saves'[t] = saves[t]

\* A save goes on, or is given an entry.
LEMMA SaveSteps ==
  ASSUME SettingsData, NEW s \in ProfileSave
  PROVE  /\ \A at \in {"absent", "written", "over"} : saves' = [saves EXCEPT ![s].at = at] =>
              BecomesSave(s, at, saves[s].entry)
         /\ \A at \in {"sent", "answered"}, e \in Entries :
              saves' = [saves EXCEPT ![s] = [at |-> at, entry |-> e]] => BecomesSave(s, at, e)
<1>1. saves \in [ProfileSave -> SaveRecord]
  BY DEF SettingsData
<1>2. ASSUME NEW at \in {"absent", "written", "over"}, saves' = [saves EXCEPT ![s].at = at]
      PROVE  BecomesSave(s, at, saves[s].entry)
  <2>1. [saves[s] EXCEPT !.at = at] \in SaveRecord
    BY <1>1 DEF SaveRecord
  <2>2. saves'[s] = [saves[s] EXCEPT !.at = at]
    BY <1>1, <1>2
  <2>3. saves'[s].at = at /\ saves'[s].entry = saves[s].entry
    BY <1>1, <2>2 DEF SaveRecord
  <2>4. QED
    BY <1>1, <1>2, <2>1, <2>3 DEF BecomesSave
<1>3. ASSUME NEW at \in {"sent", "answered"}, NEW e \in Entries,
             saves' = [saves EXCEPT ![s] = [at |-> at, entry |-> e]]
      PROVE  BecomesSave(s, at, e)
  BY <1>1, <1>3 DEF BecomesSave, SaveRecord
<1>4. QED
  BY <1>2, <1>3

\* The saves under way and over after a step of one of them.
LEMMA SavedSteps ==
  ASSUME NEW s \in ProfileSave, NEW at, NEW e, BecomesSave(s, at, e)
  PROVE  /\ at \in {"sent", "absent", "written", "answered"} => Saved' = Saved \cup {s}
         /\ at = "over" => Saved' = Saved \ {s} /\ Ended' = Ended \cup {s}
         /\ at # "over" /\ saves[s].at # "over" => Ended' = Ended
BY DEF BecomesSave, Saved, Ended

\* As many timers as saves that are over, at most.
LEMMA EndedCounts ==
  /\ IsFiniteSet(Ended) /\ Cardinality(Ended) \in Nat /\ Cardinality(ProfileSave) \in Nat
  /\ Cardinality(Ended) <= Cardinality(ProfileSave)
  /\ \A s \in ProfileSave \ Ended : Cardinality(Ended \cup {s}) = Cardinality(Ended) + 1
<1>1. IsFiniteSet(ProfileSave) /\ Ended \subseteq ProfileSave
  BY ProfileSettingsAssumption DEF Ended
<1>2. IsFiniteSet(Ended) /\ Cardinality(Ended) <= Cardinality(ProfileSave)
  BY <1>1, FS_Subset
<1>3. Cardinality(Ended) \in Nat /\ Cardinality(ProfileSave) \in Nat
  BY <1>1, <1>2, FS_CardinalityType
<1>4. \A s \in ProfileSave \ Ended : Cardinality(Ended \cup {s}) = Cardinality(Ended) + 1
  BY <1>2, FS_AddElement
<1>5. QED
  BY <1>2, <1>3, <1>4

\* Loading, typing, the extension and the timer leave the saves alone.
LEMMA BetweenSaves ==
  ASSUME SettingsInv, LoadSettings \/ SavedTimer \/ (\E e \in Entries : TypeEntry(e))
                      \/ \E e \in Entries \ BadEntry : SavedElsewhere(e)
  PROVE  SettingsInv'
<1> USE ProfileSettingsAssumption
<1>1. SettingsData /\ SettingsFlags /\ SavesAreValid
  BY SettingsParts DEF SettingsInv
<1>2. UNCHANGED <<saves, lostEntry, savesCrossed>>
  BY DEF LoadSettings, TypeEntry, SavedElsewhere, SavedTimer, settingsHistory
<1>3. Saved' = Saved /\ Ended' = Ended
  BY <1>2 DEF Saved, Ended
<1>4. CASE LoadSettings
  <2>1. /\ UNCHANGED <<profileRow, saveState, savedTimers, typedOver, timerOver, profileDrifted>>
        /\ loadState = "loading" /\ loadState' \in {"shown", "failed"}
        /\ loadState' = "shown" => knownProfile' = AsProfile(profileRow) /\ typed' = AsProfile(profileRow)
        /\ loadState' = "failed" => UNCHANGED <<knownProfile, typed>>
        /\ mishaps' \in 0 .. MaxMishaps
    BY <1>1, <1>4 DEF LoadSettings, settingsHistory, Mishap, SettingsData
  <2>2. AsProfile(profileRow) \in Entries
    BY <1>1 DEF SettingsData, AsProfile, Entries
  <2>3. ProfileSettingsTypeOK'
    <3>1. SettingsData' /\ SettingsFlags' /\ SavesAreValid'
      BY <1>1, <1>2, <1>3, <2>1, <2>2 DEF SettingsData, SettingsFlags, SavesAreValid
    <3>2. QED
      BY <3>1, SettingsParts DEF ProfileSettingsTypeOK, SettingsData, SettingsFlags, SavesAreValid, SaveRecord
  <2>4. saveState = "idle" /\ Saved = {} /\ ~lostEntry
    BY <2>1 DEF SettingsInv, FormIsThere
  <2>5. FormIsThere' /\ ButtonWaits'
    BY <1>2, <1>3, <2>1, <2>4 DEF SettingsInv, FormIsThere, ButtonWaits
  <2>6. RowIsKnown'
    BY <1>2, <1>3, <2>1, <2>4 DEF RowIsKnown, AsProfile
  <2>7. QED
    BY <2>3, <2>5, <2>6 DEF SettingsInv
<1>5. ASSUME NEW e \in Entries, TypeEntry(e) PROVE SettingsInv'
  <2>1. /\ UNCHANGED <<profileRow, knownProfile, loadState, savedTimers, mishaps, timerOver, profileDrifted>>
        /\ loadState = "shown" /\ typed' = e /\ saveState' = "idle"
    BY <1>5 DEF TypeEntry
  <2>2. typedOver' = (typedOver \/ Saved # {})
    BY <1>5, Zenon DEF TypeEntry
  <2>3. typedOver' \in BOOLEAN /\ (~typedOver' => ~typedOver /\ Saved = {})
    BY <2>2, Zenon
  <2>4. ProfileSettingsTypeOK'
    <3>1. SettingsData' /\ SettingsFlags' /\ SavesAreValid'
      BY <1>1, <1>2, <1>3, <2>1, <2>3 DEF SettingsData, SettingsFlags, SavesAreValid
    <3>2. QED
      BY <3>1, SettingsParts DEF ProfileSettingsTypeOK, SettingsData, SettingsFlags, SavesAreValid, SaveRecord
  <2>5. FormIsThere' /\ ButtonWaits'
    BY <1>2, <1>3, <2>1, <2>3 DEF SettingsInv, FormIsThere, ButtonWaits
  <2>6. RowIsKnown'
    BY <1>2, <1>3, <2>1, <2>3 DEF SettingsInv, RowIsKnown, AsProfile
  <2>7. QED
    BY <2>4, <2>5, <2>6 DEF SettingsInv
<1>6. ASSUME NEW e \in Entries \ BadEntry, SavedElsewhere(e) PROVE SettingsInv'
  <2>1. /\ UNCHANGED <<knownProfile, typed, loadState, saveState, savedTimers, typedOver, timerOver>>
        /\ profileRow' = e /\ profileDrifted' = TRUE /\ mishaps' \in 0 .. MaxMishaps
    BY <1>1, <1>6 DEF SavedElsewhere, Mishap, SettingsData
  <2>2. ProfileSettingsTypeOK'
    <3>1. SettingsData' /\ SettingsFlags' /\ SavesAreValid'
      BY <1>1, <1>2, <1>3, <2>1 DEF SettingsData, SettingsFlags, SavesAreValid
    <3>2. QED
      BY <3>1, SettingsParts DEF ProfileSettingsTypeOK, SettingsData, SettingsFlags, SavesAreValid, SaveRecord
  <2>3. FormIsThere' /\ ButtonWaits' /\ RowIsKnown'
    BY <1>2, <1>3, <2>1 DEF SettingsInv, FormIsThere, ButtonWaits, RowIsKnown
  <2>4. QED
    BY <2>2, <2>3 DEF SettingsInv
<1>7. CASE SavedTimer
  <2>1. /\ UNCHANGED <<profileRow, knownProfile, typed, loadState, mishaps, typedOver, profileDrifted>>
        /\ savedTimers > 0 /\ savedTimers' = savedTimers - 1 /\ saveState' = "idle"
    BY <1>7 DEF SavedTimer
  <2>2. timerOver' = (timerOver \/ Saved # {})
    BY <1>7, Zenon DEF SavedTimer
  <2>3. timerOver' \in BOOLEAN /\ (~timerOver' => ~timerOver /\ Saved = {})
    BY <2>2, Zenon
  <2>4. /\ savedTimers' \in 0 .. Cardinality(ProfileSave)
        /\ savedTimers' <= Cardinality(Ended)
    BY <1>1, <2>1, EndedCounts DEF SettingsData, SettingsInv, FormIsThere
  <2>5. ProfileSettingsTypeOK'
    <3>1. SettingsData' /\ SettingsFlags' /\ SavesAreValid'
      BY <1>1, <1>2, <1>3, <2>1, <2>3, <2>4 DEF SettingsData, SettingsFlags, SavesAreValid
    <3>2. QED
      BY <3>1, SettingsParts DEF ProfileSettingsTypeOK, SettingsData, SettingsFlags, SavesAreValid, SaveRecord
  <2>6. FormIsThere' /\ ButtonWaits'
    BY <1>2, <1>3, <2>1, <2>3, <2>4 DEF SettingsInv, FormIsThere, ButtonWaits
  <2>7. RowIsKnown'
    BY <1>2, <1>3, <2>1 DEF SettingsInv, RowIsKnown, AsProfile
  <2>8. QED
    BY <2>5, <2>6, <2>7 DEF SettingsInv
<1>8. QED
  BY <1>4, <1>5, <1>6, <1>7

\* The button is there for an entry that may be saved and is not being saved.
LEMMA SaveButton ==
  ASSUME "save" \in SettingsShow, SettingsData
  PROVE  loadState = "shown" /\ typed \notin BadEntry /\ saveState # "saving"
<1>1. CASE loadState # "shown"
  BY <1>1 DEF SettingsShow, SettingsData
<1>2. CASE loadState = "shown"
  <2>1. "save" \in (IF saveState = "idle" THEN {} ELSE {saveState})
                   \cup (IF IsDirty /\ typed \notin BadEntry /\ saveState # "saving" THEN {"save"} ELSE {})
    BY <1>2 DEF SettingsShow
  <2>2. QED
    BY <1>2, <2>1 DEF SettingsData
<1>3. QED
  BY <1>1, <1>2

\* The button.
LEMMA HandleSaveKeeps ==
  ASSUME SettingsInv, HandleSave
  PROVE  SettingsInv'
<1> USE ProfileSettingsAssumption
<1>1. SettingsData /\ SettingsFlags /\ SavesAreValid
  BY SettingsParts DEF SettingsInv
<1>2. "save" \in SettingsShow /\ saveState \in {"idle", "saving", "saved", "error"}
  BY <1>1 DEF HandleSave, SettingsData
<1>3. loadState = "shown" /\ typed \notin BadEntry /\ saveState # "saving"
  BY <1>1, <1>2, SaveButton
<1>4. /\ UNCHANGED <<profileRow, knownProfile, typed, loadState, savedTimers, mishaps>>
      /\ UNCHANGED <<typedOver, lostEntry, timerOver, profileDrifted>>
      /\ saveState' = "saving"
  BY DEF HandleSave
<1>5. savesCrossed' = (savesCrossed \/ Saved # {})
  BY Zenon DEF HandleSave
<1>6. savesCrossed' \in BOOLEAN /\ (~savesCrossed' <=> ~savesCrossed /\ Saved = {})
  <2>1. savesCrossed \in BOOLEAN
    BY <1>1 DEF SettingsFlags
  <2>2. QED
    BY <1>5, <2>1, Zenon
<1>7. PICK s \in ProfileSave : /\ saves[s].at = "none"
                               /\ saves' = [saves EXCEPT ![s] = [at |-> "sent", entry |-> typed]]
  BY DEF HandleSave
<1>8. BecomesSave(s, "sent", typed)
  BY <1>1, <1>7, SaveSteps DEF SettingsData
<1>9. Saved' = Saved \cup {s} /\ Ended' = Ended
  BY <1>7, <1>8, SavedSteps
<1>10. /\ saves'[s].at = "sent" /\ saves'[s].entry = typed
       /\ \A t \in ProfileSave \ {s} : saves'[t] = saves[t]
  BY <1>8 DEF BecomesSave
<1>11. s \notin Saved /\ Saved \subseteq ProfileSave
  BY <1>7 DEF Saved
<1>12. ProfileSettingsTypeOK'
  <2>1. SettingsData' /\ SettingsFlags'
    BY <1>1, <1>4, <1>6, <1>8 DEF SettingsData, SettingsFlags, BecomesSave
  <2>2. SavesAreValid'
    BY <1>1, <1>3, <1>4, <1>9, <1>10, <1>11 DEF SavesAreValid
  <2>3. QED
    BY <2>1, <2>2, SettingsParts DEF ProfileSettingsTypeOK, SettingsData, SettingsFlags, SavesAreValid, SaveRecord
<1>13. FormIsThere'
  BY <1>3, <1>4, <1>9 DEF SettingsInv, FormIsThere
<1>14. RowIsKnown'
  BY <1>3, <1>4, <1>6, <1>9, <1>10 DEF SettingsInv, RowIsKnown, AsProfile
<1>15. ButtonWaits'
  BY <1>3, <1>4, <1>6, <1>9 DEF SettingsInv, ButtonWaits
<1>16. QED
  BY <1>12, <1>13, <1>14, <1>15 DEF SettingsInv

\* updateProfile.
LEMMA ServeSaveKeeps ==
  ASSUME SettingsInv, NEW s \in ProfileSave, ServeSave(s)
  PROVE  SettingsInv'
<1> USE ProfileSettingsAssumption
<1>1. SettingsData /\ SettingsFlags /\ SavesAreValid
  BY SettingsParts DEF SettingsInv
<1>2. UNCHANGED <<knownProfile, typed, loadState, saveState, savedTimers, mishaps>>
  BY DEF ServeSave
<1>3. UNCHANGED <<typedOver, lostEntry, timerOver, savesCrossed, profileDrifted>>
  BY DEF ServeSave, settingsHistory
<1>4. s \in Saved /\ saves[s].at # "over" /\ saves[s].entry \in Entries /\ saves[s].entry \notin BadEntry
  BY <1>1 DEF ServeSave, Saved, SettingsData, SaveRecord, SavesAreValid
<1>5. AsProfile(profileRow) \in Entries /\ AsProfile(profileRow) \notin BadEntry
  BY <1>1 DEF SettingsData, AsProfile, Entries, SettingsInv, FormIsThere
<1>6. PICK at \in {"absent", "written", "answered"}, e \in Entries :
        /\ BecomesSave(s, at, e)
        /\ \/ /\ saves[s].at \in {"sent", "absent"} /\ at = "written" /\ e = saves[s].entry
              /\ profileRow' = e
           \/ /\ saves[s].at = "sent" /\ at = "absent" /\ e = saves[s].entry /\ UNCHANGED profileRow
           \/ /\ saves[s].at = "written" /\ at = "answered" /\ e = AsProfile(profileRow)
              /\ UNCHANGED profileRow
  <2>1. CASE /\ saves[s].at \in {"sent", "absent"} /\ profileRow' = saves[s].entry
             /\ saves' = [saves EXCEPT ![s].at = "written"]
    <3>1. BecomesSave(s, "written", saves[s].entry)
      BY <1>1, <2>1, SaveSteps
    <3>2. QED
      BY <1>4, <2>1, <3>1
  <2>2. CASE /\ saves[s].at = "sent" /\ saves' = [saves EXCEPT ![s].at = "absent"]
             /\ UNCHANGED profileRow
    <3>1. BecomesSave(s, "absent", saves[s].entry)
      BY <1>1, <2>2, SaveSteps
    <3>2. QED
      BY <1>4, <2>2, <3>1
  <2>3. CASE /\ saves[s].at = "written" /\ UNCHANGED profileRow
             /\ saves' = [saves EXCEPT ![s] = [at |-> "answered", entry |-> AsProfile(profileRow)]]
    <3>1. BecomesSave(s, "answered", AsProfile(profileRow))
      BY <1>1, <1>5, <2>3, SaveSteps
    <3>2. QED
      BY <1>5, <2>3, <3>1
  <2>4. QED
    BY <2>1, <2>2, <2>3 DEF ServeSave
<1>7. Saved' = Saved /\ Ended' = Ended
  BY <1>4, <1>6, SavedSteps
<1>8. /\ saves'[s].at = at /\ saves'[s].entry = e
      /\ \A t \in ProfileSave \ {s} : saves'[t] = saves[t]
  BY <1>6 DEF BecomesSave
<1>9. Saved \subseteq ProfileSave
  BY DEF Saved
<1>10. e \notin BadEntry /\ e # "none" /\ profileRow' \in Entries \cup {"none"} /\ profileRow' \notin BadEntry
  BY <1>1, <1>4, <1>5, <1>6 DEF SettingsData, SettingsInv, FormIsThere, Entries
<1>11. ProfileSettingsTypeOK'
  <2>1. SettingsData' /\ SettingsFlags'
    BY <1>1, <1>2, <1>3, <1>6, <1>10 DEF SettingsData, SettingsFlags, BecomesSave
  <2>2. SavesAreValid'
    BY <1>1, <1>2, <1>7, <1>8, <1>9, <1>10 DEF SavesAreValid
  <2>3. QED
    BY <2>1, <2>2, SettingsParts DEF ProfileSettingsTypeOK, SettingsData, SettingsFlags, SavesAreValid, SaveRecord
<1>12. FormIsThere' /\ ButtonWaits'
  BY <1>2, <1>3, <1>7, <1>10 DEF SettingsInv, FormIsThere, ButtonWaits
<1>13. RowIsKnown'
  <2> SUFFICES ASSUME ~savesCrossed
               PROVE  /\ \A t, u \in Saved : t = u
                      /\ loadState = "shown" /\ ~profileDrifted =>
                           /\ \A t \in Saved : saves'[t].at \in {"written", "answered"} =>
                                AsProfile(profileRow)' = saves'[t].entry
                           /\ (\A t \in Saved : saves'[t].at \in {"sent", "absent"}) =>
                                knownProfile = AsProfile(profileRow)'
                           /\ ~typedOver => ~lostEntry /\ \A t \in Saved : saves'[t].entry = typed
    BY <1>2, <1>3, <1>7 DEF RowIsKnown
  <2>1. \A t \in Saved : t = s
    BY <1>4 DEF SettingsInv, RowIsKnown
  <2> SUFFICES ASSUME loadState = "shown", ~profileDrifted
               PROVE  /\ at \in {"written", "answered"} => AsProfile(profileRow)' = e
                      /\ at \in {"sent", "absent"} => knownProfile = AsProfile(profileRow)'
                      /\ ~typedOver => ~lostEntry /\ e = typed
    BY <1>4, <1>8, <2>1
  <2>2. /\ saves[s].at \in {"written", "answered"} => AsProfile(profileRow) = saves[s].entry
        /\ saves[s].at \in {"sent", "absent"} => knownProfile = AsProfile(profileRow)
        /\ ~typedOver => ~lostEntry /\ saves[s].entry = typed
    BY <1>4, <2>1 DEF SettingsInv, RowIsKnown
  <2>3. at \in {"written", "answered"} => AsProfile(profileRow)' = e
    BY <1>6, <1>10, <2>2 DEF AsProfile
  <2>4. at \in {"sent", "absent"} => knownProfile = AsProfile(profileRow)'
    BY <1>6, <2>2 DEF AsProfile
  <2>5. ~typedOver => ~lostEntry /\ e = typed
    BY <1>6, <2>2
  <2>6. QED
    BY <2>3, <2>4, <2>5
<1>14. QED
  BY <1>11, <1>12, <1>13 DEF SettingsInv

\* The answer of a save, or its failure.
LEMMA SaveEnds ==
  ASSUME SettingsInv, NEW s \in ProfileSave, SaveArrives(s) \/ SaveFails(s)
  PROVE  SettingsInv'
<1> USE ProfileSettingsAssumption
<1>1. SettingsData /\ SettingsFlags /\ SavesAreValid
  BY SettingsParts DEF SettingsInv
<1>2. /\ UNCHANGED <<profileRow, loadState, typedOver, timerOver, savesCrossed>>
      /\ saves' = [saves EXCEPT ![s].at = "over"] /\ s \in Saved
  BY DEF SaveArrives, SaveFails, Saved, Collides
<1>3. BecomesSave(s, "over", saves[s].entry)
  BY <1>1, <1>2, SaveSteps
<1>4. Saved' = Saved \ {s} /\ Ended' = Ended \cup {s} /\ s \notin Ended /\ Saved \subseteq ProfileSave
  BY <1>2, <1>3, SavedSteps DEF Saved, Ended
<1>5. \A t \in Saved' : saves'[t] = saves[t]
  BY <1>3, <1>4 DEF BecomesSave
<1>6. /\ savedTimers \in Nat /\ savedTimers <= Cardinality(Ended)
      /\ Cardinality(Ended') = Cardinality(Ended) + 1 /\ Cardinality(Ended) \in Nat
      /\ Cardinality(Ended') <= Cardinality(ProfileSave) /\ Cardinality(ProfileSave) \in Nat
  <2>1. IsFiniteSet(ProfileSave) /\ Ended' \subseteq ProfileSave
    BY DEF Ended
  <2>2. Cardinality(Ended') <= Cardinality(ProfileSave)
    BY <2>1, FS_Subset
  <2>3. Cardinality(Ended') = Cardinality(Ended) + 1
    BY <1>4, EndedCounts
  <2>4. QED
    BY <1>1, <2>2, <2>3, EndedCounts DEF SettingsData, SettingsInv, FormIsThere
<1>7. saves[s].entry \in Entries
  BY <1>1 DEF SettingsData, SaveRecord
<1>8. loadState = "shown"
  BY <1>2 DEF SettingsInv, FormIsThere
<1>9. ~savesCrossed => Saved' = {}
  BY <1>2, <1>4 DEF SettingsInv, RowIsKnown
<1>10. ~typedOver /\ ~timerOver => ~savesCrossed
  BY DEF SettingsInv, ButtonWaits
<1>11. CASE SaveArrives(s)
  <2>1. /\ knownProfile' = saves[s].entry /\ typed' = saves[s].entry
        /\ saveState' = "saved" /\ savedTimers' = savedTimers + 1 /\ UNCHANGED <<mishaps, profileDrifted>>
        /\ saves[s].at = "answered"
    BY <1>11 DEF SaveArrives
  <2>2. lostEntry' = (lostEntry \/ typed # saves[s].entry)
    BY <1>11, Zenon DEF SaveArrives
  <2>3. lostEntry' \in BOOLEAN /\ (lostEntry' => lostEntry \/ typed # saves[s].entry)
    BY <2>2, Zenon
  <2>4. ProfileSettingsTypeOK'
    <3>1. SettingsData' /\ SettingsFlags' /\ SavesAreValid'
      BY <1>1, <1>2, <1>3, <1>4, <1>5, <1>6, <1>7, <2>1, <2>3 DEF SettingsData, SettingsFlags, SavesAreValid, BecomesSave
    <3>2. QED
      BY <3>1, SettingsParts DEF ProfileSettingsTypeOK, SettingsData, SettingsFlags, SavesAreValid, SaveRecord
  <2>5. FormIsThere' /\ ButtonWaits'
    BY <1>2, <1>6, <1>8, <1>9, <1>10, <2>1 DEF SettingsInv, FormIsThere, ButtonWaits
  <2>6. RowIsKnown'
    <3>1. ~savesCrossed /\ ~profileDrifted => saves[s].entry = AsProfile(profileRow)
      BY <1>2, <1>8, <2>1 DEF SettingsInv, RowIsKnown
    <3>2. ~savesCrossed /\ ~profileDrifted /\ ~typedOver => ~lostEntry /\ saves[s].entry = typed
      BY <1>2, <1>8, <2>1 DEF SettingsInv, RowIsKnown
    <3>3. QED
      BY <1>2, <1>9, <2>1, <2>3, <3>1, <3>2 DEF RowIsKnown, AsProfile
  <2>7. QED
    BY <2>4, <2>5, <2>6 DEF SettingsInv
<1>12. CASE SaveFails(s)
  <2>1. UNCHANGED <<knownProfile, typed, savedTimers, lostEntry>> /\ saveState' = "error"
    BY <1>12 DEF SaveFails
  <2>2. mishaps' \in 0 .. MaxMishaps
    BY <1>1, <1>12 DEF SaveFails, Mishap, SettingsData
  <2>3. /\ profileDrifted' \in BOOLEAN
        /\ ~profileDrifted' => ~profileDrifted /\ saves[s].at \notin {"written", "answered"}
    <3>1. CASE Collides(s) /\ UNCHANGED profileDrifted
      BY <1>1, <3>1 DEF Collides, SettingsFlags
    <3>2. CASE profileDrifted' = (profileDrifted \/ saves[s].at \in {"written", "answered"})
      BY <3>2, Zenon
    <3>3. QED
      BY <1>12, <3>1, <3>2, Zenon DEF SaveFails
  <2>4. ProfileSettingsTypeOK'
    <3>1. SettingsData' /\ SettingsFlags' /\ SavesAreValid'
      BY <1>1, <1>2, <1>3, <1>4, <1>5, <1>6, <2>1, <2>2, <2>3 DEF SettingsData, SettingsFlags, SavesAreValid, BecomesSave
    <3>2. QED
      BY <3>1, SettingsParts DEF ProfileSettingsTypeOK, SettingsData, SettingsFlags, SavesAreValid, SaveRecord
  <2>5. FormIsThere' /\ ButtonWaits'
    BY <1>2, <1>6, <1>8, <1>9, <1>10, <2>1 DEF SettingsInv, FormIsThere, ButtonWaits
  <2>6. RowIsKnown'
    <3>1. saves[s].at \in {"sent", "absent", "written", "answered"}
      BY <1>1, <1>2 DEF Saved, SettingsData, SaveRecord
    <3>2. ~savesCrossed /\ ~profileDrifted' => knownProfile = AsProfile(profileRow)
      <4>1. ~savesCrossed => \A t \in Saved : t = s
        BY <1>2 DEF SettingsInv, RowIsKnown
      <4>2. QED
        BY <1>2, <1>8, <2>3, <3>1, <4>1 DEF SettingsInv, RowIsKnown
    <3>3. ~savesCrossed /\ ~profileDrifted' /\ ~typedOver => ~lostEntry
      BY <1>8, <2>3 DEF SettingsInv, RowIsKnown
    <3>4. QED
      BY <1>2, <1>9, <2>1, <3>2, <3>3 DEF RowIsKnown, AsProfile
  <2>7. QED
    BY <2>4, <2>5, <2>6 DEF SettingsInv
<1>13. QED
  BY <1>11, <1>12

\* The page when it is opened.
LEMMA SettingsStart == ProfileSettingsInit => SettingsInv
<1> SUFFICES ASSUME ProfileSettingsInit PROVE SettingsInv
  OBVIOUS
<1> USE ProfileSettingsAssumption
<1>1. Saved = {} /\ NoSave \in SaveRecord
  BY DEF ProfileSettingsInit, Saved, NoSave, SaveRecord, Entries
<1>2. /\ 0 \in 0 .. Cardinality(ProfileSave) /\ 0 \in 0 .. MaxMishaps
      /\ 0 <= Cardinality(Ended)
  BY EndedCounts
<1>3. profileRow \in Entries \cup {"none"} /\ profileRow \notin BadEntry /\ "blank" \in Entries
  BY DEF ProfileSettingsInit, Entries
<1>4. saves \in [ProfileSave -> SaveRecord]
  BY <1>1 DEF ProfileSettingsInit
<1>5. SettingsData /\ SettingsFlags /\ SavesAreValid
  BY <1>1, <1>2, <1>3, <1>4 DEF ProfileSettingsInit, SettingsData, SettingsFlags, SavesAreValid
<1>6. FormIsThere /\ RowIsKnown /\ ButtonWaits
  BY <1>1, <1>2, <1>3 DEF ProfileSettingsInit, FormIsThere, RowIsKnown, ButtonWaits
<1>7. QED
  BY <1>5, <1>6, SettingsParts DEF SettingsInv

\* Every step keeps the invariant.
LEMMA SettingsInductive == SettingsInv /\ [ProfileSettingsNext]_settingsVars => SettingsInv'
<1> SUFFICES ASSUME SettingsInv, [ProfileSettingsNext]_settingsVars PROVE SettingsInv'
  OBVIOUS
<1>1. CASE UNCHANGED settingsVars
  BY <1>1 DEF settingsVars, settingsHistory, SettingsInv, ProfileSettingsTypeOK, FormIsThere, RowIsKnown,
     ButtonWaits, Saved, Ended, AsProfile
<1>2. CASE ProfileSettingsNext
  BY <1>2, BetweenSaves, HandleSaveKeeps, ServeSaveKeeps, SaveEnds DEF ProfileSettingsNext
<1>3. QED
  BY <1>1, <1>2

\* What a form shows that has neither unsaved changes nor an error.
LEMMA CleanShows ==
  ASSUME "form" \in SettingsShow, SettingsShow \cap {"unsaved", "error"} = {},
         loadState \in {"loading", "shown", "failed"}
  PROVE  loadState = "shown" /\ saveState # "error" /\ (saveState = "idle" => typed = knownProfile)
<1>1. loadState = "shown"
  BY DEF SettingsShow
<1>2. saveState # "idle" => saveState \in SettingsShow
  BY <1>1 DEF SettingsShow
<1>3. IsDirty /\ saveState = "idle" => "unsaved" \in SettingsShow
  BY <1>1 DEF SettingsShow
<1>4. QED
  BY <1>1, <1>2, <1>3 DEF IsDirty

(***************************************************************************)
(* settings/profile/page.tsx: a form that looks saved is saved, nothing    *)
(* typed disappears, and saves cross only behind typing or a timer, for    *)
(* any number of entries, saves and failures.                              *)
(***************************************************************************)
THEOREM SettingsStay == ProfileSettingsSpec => []SettingsAgree
<1>1. SettingsInv => SettingsAgree
  <2> SUFFICES ASSUME SettingsInv PROVE SettingsAgree
    OBVIOUS
  <2>1. SettingsData /\ SavesAreValid
    BY SettingsParts DEF SettingsInv
  <2>2. CleanIsSaved
    <3> SUFFICES ASSUME "form" \in SettingsShow, SettingsShow \cap {"unsaved", "error"} = {},
                        Saved = {}, ~savesCrossed, ~profileDrifted
                 PROVE  typed = AsProfile(profileRow)
      BY DEF CleanIsSaved
    <3>1. loadState = "shown" /\ saveState # "error" /\ (saveState = "idle" => typed = knownProfile)
      BY <2>1, CleanShows DEF SettingsData
    <3>2. typed = knownProfile
      BY <2>1, <3>1 DEF SettingsData, SavesAreValid, SettingsInv, FormIsThere
    <3>3. knownProfile = AsProfile(profileRow)
      BY <3>1 DEF SettingsInv, RowIsKnown
    <3>4. QED
      BY <3>2, <3>3
  <2>3. NothingTypedIsLost
    BY <2>1 DEF NothingTypedIsLost, SettingsInv, RowIsKnown, FormIsThere
  <2>4. SavesCrossOnlyBehindTyping
    BY DEF SavesCrossOnlyBehindTyping, SettingsInv, ButtonWaits
  <2>5. QED
    BY <2>2, <2>3, <2>4 DEF SettingsAgree
<1>2. QED
  BY <1>1, SettingsStart, SettingsInductive, PTL DEF ProfileSettingsSpec

(***************************************************************************)
(* settings/profile/page.tsx:16-80: each piece of the page's state keeps   *)
(* its type, "Saving" has a save behind it, and no entry is saved that the *)
(* page refuses.                                                           *)
(***************************************************************************)
THEOREM SettingsTypeCorrect == ProfileSettingsSpec => []ProfileSettingsTypeOK
<1>1. SettingsInv => ProfileSettingsTypeOK
  BY DEF SettingsInv
<1>2. QED
  BY <1>1, SettingsStart, SettingsInductive, PTL DEF ProfileSettingsSpec

-------------------------------------------------------------------------------
(* UploadPage: the upload of a resume.                                       *)

(***************************************************************************)
(* The one upload is that of the file that is shown, until a file is       *)
(* dropped over it, and the page waits for it.                             *)
(***************************************************************************)
UploadOfTheFile ==
  ~droppedOver =>
    /\ ~sentTwice
    /\ wentTo = "here" => \A u, v \in OnTheWay : /\ u = v /\ uploadState = "uploading"
                                                 /\ sendings[u].file = file

\* A version holds what was sent, and the page goes to one whose upload is over.
VersionOfTheFile ==
  /\ \A u \in Sending : sendings[u].at \in {"created", "put", "confirmed"} => storedFiles[u] = sendings[u].file
  /\ wentTo # "here" => sendings[wentTo].at = "over" /\ (~droppedOver => storedFiles[wentTo] = file)

UploadPageInv == UploadPageTypeOK /\ UploadOfTheFile /\ VersionOfTheFile

SendingRecord ==
  [at : {"none", "sent", "created", "put", "confirmed", "over"}, file : ResumeFile \cup {"none"}]

UploadData ==
  /\ file \in ResumeFile \cup {"none"}
  /\ uploadState \in {"idle", "uploading", "done", "error"}
  /\ uploadError \in BOOLEAN
  /\ sendings \in [Sending -> SendingRecord]
  /\ storedFiles \in [Sending -> ResumeFile \cup {"none"}]
  /\ wentTo \in Sending \cup {"here"}
  /\ broken \in 0 .. MaxBroken
  /\ droppedOver \in BOOLEAN /\ sentTwice \in BOOLEAN
PageWaits ==
  /\ uploadState = "uploading" => OnTheWay # {}
  /\ uploadState = "done" => wentTo # "here"

\* The type invariant in two parts.
LEMMA UploadPageParts == UploadPageTypeOK <=> UploadData /\ PageWaits
BY DEF UploadPageTypeOK, UploadData, PageWaits, SendingRecord

\* What a step makes of one of the uploads.
BecomesSending(u, at, f) ==
  /\ sendings' \in [Sending -> SendingRecord]
  /\ sendings'[u].at = at /\ sendings'[u].file = f
  /\ \A v \in Sending \ {u} : sendings'[v] = sendings[v]

\* An upload goes on, or begins.
LEMMA SendingSteps ==
  ASSUME UploadData, NEW u \in Sending
  PROVE  /\ \A at \in {"created", "put", "confirmed", "over"} : sendings' = [sendings EXCEPT ![u].at = at] =>
              BecomesSending(u, at, sendings[u].file)
         /\ sendings' = [sendings EXCEPT ![u] = [at |-> "sent", file |-> file]] =>
              BecomesSending(u, "sent", file)
<1>1. sendings \in [Sending -> SendingRecord] /\ file \in ResumeFile \cup {"none"}
  BY DEF UploadData
<1>2. ASSUME NEW at \in {"created", "put", "confirmed", "over"}, sendings' = [sendings EXCEPT ![u].at = at]
      PROVE  BecomesSending(u, at, sendings[u].file)
  <2>1. [sendings[u] EXCEPT !.at = at] \in SendingRecord
    BY <1>1 DEF SendingRecord
  <2>2. sendings'[u] = [sendings[u] EXCEPT !.at = at]
    BY <1>1, <1>2
  <2>3. sendings'[u].at = at /\ sendings'[u].file = sendings[u].file
    BY <1>1, <2>2 DEF SendingRecord
  <2>4. QED
    BY <1>1, <1>2, <2>1, <2>3 DEF BecomesSending
<1>3. ASSUME sendings' = [sendings EXCEPT ![u] = [at |-> "sent", file |-> file]]
      PROVE  BecomesSending(u, "sent", file)
  BY <1>1, <1>3 DEF BecomesSending, SendingRecord
<1>4. QED
  BY <1>2, <1>3

\* The uploads on the way after a step of one of them.
LEMMA OnTheWaySteps ==
  ASSUME NEW u \in Sending, NEW at, NEW f, BecomesSending(u, at, f)
  PROVE  /\ at \in {"sent", "created", "put", "confirmed"} => OnTheWay' = OnTheWay \cup {u}
         /\ at = "over" => OnTheWay' = OnTheWay \ {u}
BY DEF BecomesSending, OnTheWay

\* A file is chosen, dropped or removed.
LEMMA FileKeeps ==
  ASSUME UploadPageInv,
         \/ RemoveFile
         \/ \E f \in ResumeFile \cup {"unsupported"} : ChooseFile(f) \/ DropFile(f)
  PROVE  UploadPageInv'
<1>1. UploadData /\ PageWaits
  BY UploadPageParts DEF UploadPageInv
<1>2. UNCHANGED <<sendings, storedFiles, wentTo, broken, sentTwice>> /\ wentTo = "here"
  BY DEF RemoveFile, ChooseFile, DropFile, uploadHistory
<1>3. /\ file' \in ResumeFile \cup {"none"} /\ uploadError' \in BOOLEAN
      /\ uploadState' \in {uploadState, "idle"}
  BY <1>1, UploadPageAssumption DEF RemoveFile, ChooseFile, DropFile, SelectFile, UploadData
<1>4. /\ droppedOver' \in BOOLEAN
      /\ ~droppedOver' => ~droppedOver /\ OnTheWay = {}
  <2>1. CASE \E f \in ResumeFile \cup {"unsupported"} : DropFile(f)
    <3>1. droppedOver' = (droppedOver \/ OnTheWay # {})
      BY <2>1, Zenon DEF DropFile
    <3>2. QED
      BY <3>1, Zenon
  <2>2. CASE RemoveFile \/ \E f \in ResumeFile \cup {"unsupported"} : ChooseFile(f)
    <3>1. UNCHANGED droppedOver /\ uploadState # "uploading"
      BY <2>2 DEF RemoveFile, ChooseFile, uploadHistory, IsLoading
    <3>2. ~droppedOver => OnTheWay = {}
      BY <1>2, <3>1 DEF UploadPageInv, UploadOfTheFile
    <3>3. droppedOver \in BOOLEAN
      BY <1>1 DEF UploadData
    <3>4. QED
      BY <3>1, <3>2, <3>3
  <2>3. QED
    BY <2>1, <2>2
<1>5. OnTheWay' = OnTheWay
  BY <1>2 DEF OnTheWay
<1>6. UploadPageTypeOK'
  <2>1. UploadData' /\ PageWaits'
    BY <1>1, <1>2, <1>3, <1>4, <1>5 DEF UploadData, PageWaits
  <2>2. QED
    BY <2>1, UploadPageParts DEF UploadPageTypeOK, UploadData, PageWaits, SendingRecord
<1>7. UploadOfTheFile'
  BY <1>2, <1>4, <1>5 DEF UploadPageInv, UploadOfTheFile
<1>8. VersionOfTheFile'
  BY <1>2 DEF UploadPageInv, VersionOfTheFile
<1>9. QED
  BY <1>6, <1>7, <1>8 DEF UploadPageInv

\* The button.
LEMMA UploadKeeps ==
  ASSUME UploadPageInv, HandleUpload
  PROVE  UploadPageInv'
<1>1. UploadData /\ PageWaits
  BY UploadPageParts DEF UploadPageInv
<1>2. /\ UNCHANGED <<file, storedFiles, wentTo, broken, droppedOver>>
      /\ wentTo = "here" /\ uploadState # "uploading" /\ uploadState' = "uploading" /\ uploadError' = FALSE
  BY DEF HandleUpload, IsLoading
<1>3. sentTwice' = (sentTwice \/ OnTheWay # {})
  BY Zenon DEF HandleUpload
<1>4. ~droppedOver => OnTheWay = {} /\ ~sentTwice
  BY <1>2 DEF UploadPageInv, UploadOfTheFile
<1>5. sentTwice' \in BOOLEAN /\ (~droppedOver => ~sentTwice')
  BY <1>3, <1>4, Zenon
<1>6. PICK u \in Sending : /\ sendings[u].at = "none"
                           /\ sendings' = [sendings EXCEPT ![u] = [at |-> "sent", file |-> file]]
  BY DEF HandleUpload
<1>7. BecomesSending(u, "sent", file)
  BY <1>1, <1>6, SendingSteps
<1>8. OnTheWay' = OnTheWay \cup {u}
  BY <1>7, OnTheWaySteps
<1>9. /\ sendings'[u].at = "sent" /\ sendings'[u].file = file
      /\ \A v \in Sending \ {u} : sendings'[v] = sendings[v]
  BY <1>7 DEF BecomesSending
<1>10. UploadPageTypeOK'
  <2>1. UploadData' /\ PageWaits'
    BY <1>1, <1>2, <1>5, <1>7, <1>8 DEF UploadData, PageWaits, BecomesSending
  <2>2. QED
    BY <2>1, UploadPageParts DEF UploadPageTypeOK, UploadData, PageWaits, SendingRecord
<1>11. UploadOfTheFile'
  BY <1>2, <1>4, <1>5, <1>8, <1>9 DEF UploadOfTheFile
<1>12. VersionOfTheFile'
  BY <1>2, <1>9 DEF UploadPageInv, VersionOfTheFile
<1>13. QED
  BY <1>10, <1>11, <1>12 DEF UploadPageInv

\* The upload is served, and its answer comes or does not.
LEMMA SendingKeeps ==
  ASSUME UploadPageInv, NEW u \in Sending, ServeUpload(u) \/ UploadArrives(u) \/ UploadFails(u)
  PROVE  UploadPageInv'
<1>1. UploadData /\ PageWaits
  BY UploadPageParts DEF UploadPageInv
<1>2. /\ UNCHANGED <<file, droppedOver, sentTwice>> /\ u \in OnTheWay
      /\ wentTo = "here" => (~droppedOver => \A v \in OnTheWay : v = u /\ sendings[v].file = file /\ uploadState = "uploading")
  BY DEF ServeUpload, UploadArrives, UploadFails, uploadHistory, OnTheWay, UploadPageInv, UploadOfTheFile
<1>3. CASE ServeUpload(u)
  <2>1. UNCHANGED <<uploadState, uploadError, wentTo, broken>>
    BY <1>3 DEF ServeUpload
  <2>2. PICK at \in {"created", "put", "confirmed"} :
          /\ sendings' = [sendings EXCEPT ![u].at = at]
          /\ \/ at = "created" /\ storedFiles' = [storedFiles EXCEPT ![u] = sendings[u].file]
             \/ /\ at # "created" /\ sendings[u].at \in {"created", "put"}
                /\ UNCHANGED storedFiles
    <3>1. CASE storedFiles' = [storedFiles EXCEPT ![u] = sendings[u].file] /\ sendings' = [sendings EXCEPT ![u].at = "created"]
      BY <3>1
    <3>2. CASE sendings[u].at = "created" /\ sendings' = [sendings EXCEPT ![u].at = "put"] /\ UNCHANGED storedFiles
      BY <3>2
    <3>3. CASE sendings[u].at = "put" /\ sendings' = [sendings EXCEPT ![u].at = "confirmed"] /\ UNCHANGED storedFiles
      BY <3>3
    <3>4. QED
      BY <1>3, <3>1, <3>2, <3>3 DEF ServeUpload
  <2>3. BecomesSending(u, at, sendings[u].file)
    BY <1>1, <2>2, SendingSteps
  <2>4. OnTheWay' = OnTheWay
    BY <1>2, <2>3, OnTheWaySteps
  <2>5. /\ sendings'[u].at = at /\ sendings'[u].file = sendings[u].file
        /\ \A v \in Sending \ {u} : sendings'[v] = sendings[v]
    BY <2>3 DEF BecomesSending
  <2>6. /\ storedFiles' \in [Sending -> ResumeFile \cup {"none"}]
        /\ storedFiles'[u] = sendings[u].file
        /\ \A v \in Sending \ {u} : storedFiles'[v] = storedFiles[v]
    BY <1>1, <2>2 DEF UploadData, SendingRecord, UploadPageInv, VersionOfTheFile
  <2>7. UploadPageTypeOK'
    <3>1. UploadData' /\ PageWaits'
      BY <1>1, <1>2, <2>1, <2>3, <2>4, <2>6 DEF UploadData, PageWaits, BecomesSending
    <3>2. QED
      BY <3>1, UploadPageParts DEF UploadPageTypeOK, UploadData, PageWaits, SendingRecord
  <2>8. UploadOfTheFile'
    BY <1>2, <2>1, <2>4, <2>5 DEF UploadPageInv, UploadOfTheFile
  <2>9. VersionOfTheFile'
    <3>1. wentTo # "here" => wentTo # u /\ wentTo \in Sending
      BY <1>1, <1>2 DEF UploadPageInv, VersionOfTheFile, OnTheWay, UploadData
    <3>2. QED
      BY <1>2, <2>1, <2>5, <2>6, <3>1 DEF UploadPageInv, VersionOfTheFile
  <2>10. QED
    BY <2>7, <2>8, <2>9 DEF UploadPageInv
<1>4. CASE UploadArrives(u) \/ UploadFails(u)
  <2>1. /\ UNCHANGED storedFiles /\ wentTo = "here" /\ uploadState' \in {"done", "error"}
        /\ uploadError' \in BOOLEAN /\ broken' \in 0 .. MaxBroken
        /\ sendings' = [sendings EXCEPT ![u].at = "over"]
        /\ \/ wentTo' = "here" /\ uploadState' = "error"
           \/ wentTo' = u /\ sendings[u].at = "confirmed"
    <3>1. uploadError' \in BOOLEAN
      BY <1>1, <1>4 DEF UploadArrives, UploadFails, UploadData
    <3>2. broken' \in 0 .. MaxBroken
      BY <1>1, <1>4, UploadPageAssumption DEF UploadArrives, UploadFails, UploadData
    <3>3. sendings' = [sendings EXCEPT ![u].at = "over"]
      BY <1>4 DEF UploadArrives, UploadFails
    <3>4. QED
      BY <1>4, <3>1, <3>2, <3>3 DEF UploadArrives, UploadFails
  <2>2. BecomesSending(u, "over", sendings[u].file)
    BY <1>1, <2>1, SendingSteps
  <2>3. OnTheWay' = OnTheWay \ {u}
    BY <2>2, OnTheWaySteps
  <2>4. /\ sendings'[u].at = "over" /\ sendings'[u].file = sendings[u].file
        /\ \A v \in Sending \ {u} : sendings'[v] = sendings[v]
    BY <2>2 DEF BecomesSending
  <2>5. UploadPageTypeOK'
    <3>1. UploadData' /\ PageWaits'
      BY <1>1, <1>2, <2>1, <2>2, UploadPageAssumption DEF UploadData, PageWaits, BecomesSending
    <3>2. QED
      BY <3>1, UploadPageParts DEF UploadPageTypeOK, UploadData, PageWaits, SendingRecord
  <2>6. UploadOfTheFile'
    <3>1. ~droppedOver => OnTheWay' = {}
      BY <1>2, <2>1, <2>3
    <3>2. QED
      BY <1>2, <3>1 DEF UploadPageInv, UploadOfTheFile
  <2>7. VersionOfTheFile'
    <3>1. sendings[u].at = "confirmed" => storedFiles[u] = sendings[u].file
      BY DEF UploadPageInv, VersionOfTheFile
    <3>2. QED
      BY <1>2, <2>1, <2>4, <3>1, UploadPageAssumption DEF UploadPageInv, VersionOfTheFile
  <2>8. QED
    BY <2>5, <2>6, <2>7 DEF UploadPageInv
<1>5. QED
  BY <1>3, <1>4

\* The page when it is opened.
LEMMA UploadPageStarts == UploadPageInit => UploadPageInv
<1> SUFFICES ASSUME UploadPageInit PROVE UploadPageInv
  OBVIOUS
<1>1. NotSent \in SendingRecord /\ NotSent.at = "none"
  BY DEF NotSent, SendingRecord
<1>2. OnTheWay = {} /\ \A u \in Sending : sendings[u].at = "none"
  BY <1>1 DEF UploadPageInit, OnTheWay
<1>3. UploadData /\ PageWaits
  <2>1. 0 \in 0 .. MaxBroken
    BY UploadPageAssumption
  <2>2. QED
    BY <1>1, <2>1 DEF UploadPageInit, UploadData, PageWaits
<1>4. UploadOfTheFile /\ VersionOfTheFile
  BY <1>2 DEF UploadPageInit, UploadOfTheFile, VersionOfTheFile
<1>5. QED
  BY <1>3, <1>4, UploadPageParts DEF UploadPageInv

\* Every step keeps the invariant.
LEMMA UploadPageInductive == UploadPageInv /\ [UploadPageNext]_uploadPageVars => UploadPageInv'
<1> SUFFICES ASSUME UploadPageInv, [UploadPageNext]_uploadPageVars PROVE UploadPageInv'
  OBVIOUS
<1>1. CASE UNCHANGED uploadPageVars
  BY <1>1 DEF uploadPageVars, uploadHistory, UploadPageInv, UploadPageTypeOK, UploadOfTheFile,
     VersionOfTheFile, OnTheWay
<1>2. CASE UploadPageNext
  BY <1>2, FileKeeps, UploadKeeps, SendingKeeps DEF UploadPageNext
<1>3. QED
  BY <1>1, <1>2

(***************************************************************************)
(* upload/page.tsx: the page goes to a version of the file it shows, and   *)
(* sends it once, unless a file is dropped over an upload, for any number  *)
(* of files, uploads and failures.                                         *)
(***************************************************************************)
THEOREM UploadStays == UploadPageSpec => []UploadIsTheFile
<1>1. UploadPageInv => UploadIsTheFile
  <2> SUFFICES ASSUME UploadPageInv PROVE UploadIsTheFile
    OBVIOUS
  <2>1. GoesToTheFileShown
    BY DEF UploadPageInv, VersionOfTheFile, GoesToTheFileShown
  <2>2. OneUploadAtATime
    BY DEF UploadPageInv, UploadOfTheFile, OneUploadAtATime
  <2>3. QED
    BY <2>1, <2>2 DEF UploadIsTheFile
<1>2. QED
  BY <1>1, UploadPageStarts, UploadPageInductive, PTL DEF UploadPageSpec

(***************************************************************************)
(* upload/page.tsx:20-62: each piece of the page's state keeps its type,   *)
(* "Uploading" has an upload behind it, and "Done" is shown while the page *)
(* goes on.                                                                *)
(***************************************************************************)
THEOREM UploadPageTypeCorrect == UploadPageSpec => []UploadPageTypeOK
<1>1. UploadPageInv => UploadPageTypeOK
  BY DEF UploadPageInv
<1>2. QED
  BY <1>1, UploadPageStarts, UploadPageInductive, PTL DEF UploadPageSpec

-------------------------------------------------------------------------------
(* ListPages: the lists of resumes, jobs and scores.                         *)

(***************************************************************************)
(* The page deletes nothing before the list is there.  What has been       *)
(* created is not created again, and what a request has deleted is gone.   *)
(* What was read is what there is, but for what somebody else has changed  *)
(* since and for what is behind a page of newer items.                     *)
(***************************************************************************)
RequestsAreNew ==
  /\ itemsLoad \in {"loading", "answered"} => Going = {}
  /\ itemsLoad \in {"loading", "answered"} /\ ~createdEarly => items = {} /\ ~creating
  /\ itemsLoad = "answered" /\ ~createdEarly =>
       /\ itemsRead \ itemRows \subseteq otherHands
       /\ \A i \in itemRows \ itemsRead : i \in otherHands \/ IsBehindAPage(i)
  /\ items \subseteq EverCreated /\ itemsRead \subseteq EverCreated
  /\ \A d \in Going : deletions[d].item \in EverCreated
  /\ \A d \in Deletion : deletions[d].at \in {"done", "refused"} => deletions[d].item \notin itemRows
  /\ creation.at = "sent" => creation.item \in Item \ EverCreated
  /\ creation.at = "done" => creation.item \in EverCreated
  /\ creation.at = "done" /\ ~createdEarly =>
       /\ creation.item \in itemRows \cup otherHands /\ creation.item \notin items
       /\ \A d \in Going : deletions[d].item # creation.item

(***************************************************************************)
(* An item that is listed and gone was deleted by a request whose answer   *)
(* is on its way or was lost, or by somebody else, and one that is there   *)
(* and not listed was created by such a request, by somebody else, or is   *)
(* behind a page of newer ones.                                            *)
(***************************************************************************)
DifferenceIsUnderWay ==
  itemsLoad = "loaded" /\ ~createdEarly =>
    /\ \A i \in items \ itemRows : \/ i \in itemsUnheard \cup otherHands
                                   \/ \E d \in Deletion : deletions[d].at = "done" /\ deletions[d].item = i
    /\ \A i \in itemRows \ items : \/ i \in itemsUnheard \cup otherHands \/ IsBehindAPage(i)
                                   \/ creation.at = "done" /\ creation.item = i

\* Until two items are deleted at once, the page knows of the one request.
OneDeletion == ~deletesCrossed => \A d, e \in Going : d = e /\ deletions[d].item = deleting

ListPagesInv == ListPagesTypeOK /\ RequestsAreNew /\ DifferenceIsUnderWay /\ OneDeletion

DeletionRecord == [at : {"none", "sent", "done", "refused", "over"}, item : Item \cup {"none"}]
CreationRecord == [at : {"none", "sent", "done"}, item : Item \cup {"none"}]

ListedData ==
  /\ createdAt \in [Item -> 0 .. Cardinality(Item)] /\ itemRows \subseteq EverCreated
  /\ items \subseteq Item
  /\ itemsLoad \in {"loading", "answered", "loaded", "failed"} /\ itemsRead \subseteq Item
  /\ deleting \in Item \cup {"none"}
  /\ deletions \in [Deletion -> DeletionRecord]
  /\ creation \in CreationRecord
  /\ creating \in BOOLEAN
  /\ trouble \in 0 .. MaxTrouble
  /\ itemsUnheard \subseteq Item /\ deletesCrossed \in BOOLEAN /\ createdEarly \in BOOLEAN
  /\ otherHands \subseteq Item
ButtonsWait ==
  /\ deleting # "none" => \E d \in Going : deletions[d].item = deleting
  /\ creating <=> creation.at # "none"

\* The type invariant in two parts.
LEMMA ListPagesParts == ListPagesTypeOK <=> ListedData /\ ButtonsWait
BY DEF ListPagesTypeOK, ListedData, ButtonsWait, DeletionRecord, CreationRecord

\* There are as many moments as items.
LEMMA ItemsAreCounted ==
  /\ Cardinality(Item) \in Nat
  /\ \A S \in SUBSET Item : /\ IsFiniteSet(S) /\ Cardinality(S) \in Nat
                            /\ Cardinality(S) <= Cardinality(Item)
<1>1. IsFiniteSet(Item) /\ Cardinality(Item) \in Nat
  BY ListPagesAssumption, FS_CardinalityType
<1>2. ASSUME NEW S \in SUBSET Item
      PROVE  IsFiniteSet(S) /\ Cardinality(S) \in Nat /\ Cardinality(S) <= Cardinality(Item)
  <2>1. IsFiniteSet(S) /\ Cardinality(S) <= Cardinality(Item)
    BY <1>1, FS_Subset
  <2>2. Cardinality(S) \in Nat
    BY <2>1, FS_CardinalityType
  <2>3. QED
    BY <2>1, <2>2
<1>3. QED
  BY <1>1, <1>2

\* An item that is created has a moment of its own.
LEMMA StoreSteps ==
  ASSUME ListedData, NEW i \in Item \ EverCreated, StoreItem(i)
  PROVE  /\ createdAt' \in [Item -> 0 .. Cardinality(Item)]
         /\ EverCreated' = EverCreated \cup {i} /\ itemRows' = itemRows \cup {i}
         /\ \A j \in Item : createdAt'[j] # createdAt[j] => j = i /\ createdAt[j] = 0
<1>1. createdAt \in [Item -> 0 .. Cardinality(Item)] /\ EverCreated \in SUBSET Item
  BY DEF ListedData, EverCreated
<1>2. createdAt[i] = 0
  BY DEF EverCreated
<1>3. IsFiniteSet(EverCreated) /\ Cardinality(EverCreated) \in Nat /\ Cardinality(Item) \in Nat
  BY <1>1, ItemsAreCounted
<1>4. Cardinality(EverCreated \cup {i}) = Cardinality(EverCreated) + 1
  BY <1>3, FS_AddElement
<1>5. EverCreated \cup {i} \in SUBSET Item
  BY <1>1
<1>6. Cardinality(EverCreated) + 1 <= Cardinality(Item)
  BY <1>4, <1>5, ItemsAreCounted
<1>7. PICK n \in 1 .. Cardinality(Item) : createdAt' = [createdAt EXCEPT ![i] = n]
  <2>1. PICK n : n = Cardinality(EverCreated) + 1
    OBVIOUS
  <2>2. n \in 1 .. Cardinality(Item) /\ createdAt' = [createdAt EXCEPT ![i] = n]
    BY <1>3, <1>6, <2>1 DEF StoreItem
  <2>3. QED
    BY <2>2
<1>8. createdAt' \in [Item -> 0 .. Cardinality(Item)]
  BY <1>1, <1>3, <1>7
<1>9. createdAt'[i] # 0 /\ \A j \in Item \ {i} : createdAt'[j] = createdAt[j]
  BY <1>1, <1>3, <1>7
<1>10. EverCreated' = EverCreated \cup {i}
  BY <1>1, <1>2, <1>9 DEF EverCreated
<1>11. QED
  BY <1>2, <1>8, <1>9, <1>10 DEF StoreItem

\* What is behind a page of newer items stays there.
LEMMA BehindStays ==
  ASSUME ListedData, createdAt' \in [Item -> 0 .. Cardinality(Item)], NEW i \in Item, IsBehindAPage(i),
         \A j \in Item : createdAt'[j] # createdAt[j] => j # i /\ createdAt[j] = 0
  PROVE  IsBehindAPage(i)'
<1>1. /\ CreatedAfter(i, Item) = {j \in Item : createdAt[j] > createdAt[i]}
      /\ CreatedAfter(i, Item)' = {j \in Item : createdAt'[j] > createdAt'[i]}
  BY DEF CreatedAfter
<1>2. /\ createdAt'[i] = createdAt[i]
      /\ \A j \in Item : createdAt[j] \in Nat /\ createdAt'[j] \in Nat
  BY ItemsAreCounted DEF ListedData
<1>3. CreatedAfter(i, Item) \subseteq CreatedAfter(i, Item)' /\ CreatedAfter(i, Item)' \in SUBSET Item
  BY <1>1, <1>2
<1> DEFINE before == CreatedAfter(i, Item)
           after == CreatedAfter(i, Item)'
<1>4. /\ IsFiniteSet(after) /\ before \in SUBSET after
      /\ Cardinality(before) \in Nat /\ Cardinality(after) \in Nat
  BY <1>3, ItemsAreCounted
<1>5. Cardinality(before) >= PageSize /\ PageSize \in Nat
  BY ListPagesAssumption DEF IsBehindAPage
<1> HIDE DEF before, after
<1>6. Cardinality(before) <= Cardinality(after)
  BY <1>4, FS_Subset
<1>7. Cardinality(after) >= PageSize
  BY <1>4, <1>5, <1>6
<1>8. QED
  BY <1>7 DEF IsBehindAPage, after

\* A step that creates nothing leaves the moments.
LEMMA BehindAsBefore ==
  ASSUME ListedData, UNCHANGED createdAt
  PROVE  \A i \in Item : IsBehindAPage(i) => IsBehindAPage(i)'
BY BehindStays DEF ListedData

\* What one page leaves out is behind it.
LEMMA NewestSteps ==
  ASSUME ListedData
  PROVE  /\ NewestItems \subseteq itemRows
         /\ \A i \in itemRows \ NewestItems : IsBehindAPage(i)
<1>1. itemRows \in SUBSET Item
  BY DEF ListedData, EverCreated
<1>2. ASSUME NEW i \in itemRows \ NewestItems PROVE IsBehindAPage(i)
  <2>1. /\ CreatedAfter(i, itemRows) \in SUBSET CreatedAfter(i, Item)
        /\ CreatedAfter(i, Item) \in SUBSET Item /\ CreatedAfter(i, itemRows) \in SUBSET Item
    BY <1>1 DEF CreatedAfter
  <2>2. /\ IsFiniteSet(CreatedAfter(i, Item))
        /\ Cardinality(CreatedAfter(i, Item)) \in Nat /\ Cardinality(CreatedAfter(i, itemRows)) \in Nat
    BY <2>1, ItemsAreCounted
  <2>3. Cardinality(CreatedAfter(i, itemRows)) <= Cardinality(CreatedAfter(i, Item))
    BY <2>1, <2>2, FS_Subset
  <2>4. ~(Cardinality(CreatedAfter(i, itemRows)) < PageSize) /\ PageSize \in Nat
    BY ListPagesAssumption DEF NewestItems
  <2>5. QED
    BY <2>2, <2>3, <2>4 DEF IsBehindAPage
<1>3. QED
  BY <1>2 DEF NewestItems

\* What a step makes of one of the requests.
BecomesDeletion(d, at, i) ==
  /\ deletions' \in [Deletion -> DeletionRecord]
  /\ deletions'[d].at = at /\ deletions'[d].item = i
  /\ \A e \in Deletion \ {d} : deletions'[e] = deletions[e]

\* A request goes on, or is made.
LEMMA DeletionSteps ==
  ASSUME ListedData, NEW d \in Deletion
  PROVE  /\ \A at \in {"done", "refused", "over"} : deletions' = [deletions EXCEPT ![d].at = at] =>
              BecomesDeletion(d, at, deletions[d].item)
         /\ \A i \in Item : deletions' = [deletions EXCEPT ![d] = [at |-> "sent", item |-> i]] =>
              BecomesDeletion(d, "sent", i)
<1>1. deletions \in [Deletion -> DeletionRecord]
  BY DEF ListedData
<1>2. ASSUME NEW at \in {"done", "refused", "over"}, deletions' = [deletions EXCEPT ![d].at = at]
      PROVE  BecomesDeletion(d, at, deletions[d].item)
  <2>1. [deletions[d] EXCEPT !.at = at] \in DeletionRecord
    BY <1>1 DEF DeletionRecord
  <2>2. deletions'[d] = [deletions[d] EXCEPT !.at = at]
    BY <1>1, <1>2
  <2>3. deletions'[d].at = at /\ deletions'[d].item = deletions[d].item
    BY <1>1, <2>2 DEF DeletionRecord
  <2>4. QED
    BY <1>1, <1>2, <2>1, <2>3 DEF BecomesDeletion
<1>3. ASSUME NEW i \in Item, deletions' = [deletions EXCEPT ![d] = [at |-> "sent", item |-> i]]
      PROVE  BecomesDeletion(d, "sent", i)
  BY <1>1, <1>3 DEF BecomesDeletion, DeletionRecord
<1>4. QED
  BY <1>2, <1>3

\* The requests under way after a step of one of them.
LEMMA GoingSteps ==
  ASSUME NEW d \in Deletion, NEW at, NEW i, BecomesDeletion(d, at, i)
  PROVE  /\ at \notin {"none", "over"} => Going' = Going \cup {d}
         /\ at \in {"none", "over"} => Going' = Going \ {d}
BY DEF BecomesDeletion, Going

\* load.
LEMMA LoadItemsKeeps ==
  ASSUME ListPagesInv, LoadItems
  PROVE  ListPagesInv'
<1>1. ListedData /\ ButtonsWait
  BY ListPagesParts DEF ListPagesInv
<1>2. /\ UNCHANGED <<itemRows, createdAt, EverCreated, otherHands, deleting, deletions, creation>>
      /\ UNCHANGED <<creating, createdEarly, itemsUnheard, deletesCrossed>>
  BY DEF LoadItems, createVars, storeVars, EverCreated
<1>3. Going' = Going
  BY <1>2 DEF Going
<1>4. /\ itemsLoad \in {"loading", "answered"}
      /\ itemsLoad' \in {"answered", "loaded", "failed"}
      /\ itemsRead' = itemsRead \/ (itemsRead' = NewestItems /\ itemsLoad' = "answered")
      /\ items' = items \/ (items' = itemsRead /\ itemsLoad' = "loaded")
      /\ itemsLoad' = "loaded" => itemsLoad = "answered" /\ items' = itemsRead
      /\ itemsLoad' = "answered" => itemsRead' = NewestItems /\ items' = items
      /\ trouble' \in 0 .. MaxTrouble
  BY <1>1, ListPagesAssumption DEF LoadItems, InTrouble, ListedData
<1>5. /\ NewestItems \subseteq itemRows /\ NewestItems \subseteq EverCreated /\ NewestItems \subseteq Item
      /\ \A i \in itemRows \ NewestItems : IsBehindAPage(i)
  BY <1>1, NewestSteps DEF ListedData, EverCreated
<1>6. \A i \in itemRows : i \in Item /\ (IsBehindAPage(i) => IsBehindAPage(i)')
  BY <1>1, <1>2, BehindAsBefore DEF ListedData, EverCreated
<1>7. ListPagesTypeOK'
  <2>1. ListedData'
    BY <1>1, <1>2, <1>4, <1>5 DEF ListedData
  <2>2. ButtonsWait'
    BY <1>1, <1>2, <1>3 DEF ButtonsWait
  <2>3. QED
    BY <2>1, <2>2, ListPagesParts DEF ListPagesTypeOK, ListedData, ButtonsWait, DeletionRecord, CreationRecord
<1>8. RequestsAreNew'
  <2>1. creating <=> creation.at # "none"
    BY <1>1 DEF ButtonsWait
  <2>2. itemsLoad' = "answered" => /\ itemsRead' \ itemRows' \subseteq otherHands'
                                  /\ \A i \in itemRows' \ itemsRead' : IsBehindAPage(i)'
    BY <1>2, <1>4, <1>5, <1>6
  <2>3. items' \subseteq EverCreated' /\ itemsRead' \subseteq EverCreated'
    BY <1>2, <1>4, <1>5 DEF ListPagesInv, RequestsAreNew
  <2>4. itemsLoad' \in {"loading", "answered"} /\ ~createdEarly' => items' = {} /\ ~creating'
    BY <1>2, <1>4 DEF ListPagesInv, RequestsAreNew
  <2>5. creation.at = "done" => createdEarly
    BY <1>4, <2>1 DEF ListPagesInv, RequestsAreNew
  <2>6. QED
    BY <1>2, <1>3, <1>4, <2>2, <2>3, <2>4, <2>5 DEF ListPagesInv, RequestsAreNew
<1>9. DifferenceIsUnderWay'
  <2> SUFFICES ASSUME itemsLoad' = "loaded", ~createdEarly'
               PROVE  /\ \A i \in items' \ itemRows' : i \in otherHands'
                      /\ \A i \in itemRows' \ items' : i \in otherHands' \/ IsBehindAPage(i)'
    BY DEF DifferenceIsUnderWay
  <2>1. items' = itemsRead /\ itemsLoad = "answered" /\ ~createdEarly
    BY <1>2, <1>4
  <2>2. QED
    BY <1>2, <1>6, <2>1 DEF ListPagesInv, RequestsAreNew
<1>10. OneDeletion'
  BY <1>2, <1>3 DEF ListPagesInv, OneDeletion
<1>11. QED
  BY <1>7, <1>8, <1>9, <1>10 DEF ListPagesInv

\* The bin of an item.
LEMMA DeleteItemKeeps ==
  ASSUME ListPagesInv, NEW i \in Item, HandleDeleteItem(i)
  PROVE  ListPagesInv'
<1>1. ListedData /\ ButtonsWait
  BY ListPagesParts DEF ListPagesInv
<1>2. /\ UNCHANGED <<itemRows, createdAt, EverCreated, otherHands, items, itemsLoad, itemsRead>>
      /\ UNCHANGED <<creation, creating, createdEarly, trouble, itemsUnheard>>
      /\ itemsLoad \in {"loaded", "failed"} /\ i \in items /\ deleting # i /\ deleting' = i
      /\ AskDeletion(i)
  BY DEF HandleDeleteItem, createVars, loadVars, storeVars, EverCreated
<1>3. deletesCrossed' = (deletesCrossed \/ \E d \in Going : deletions[d].item # i)
  BY Zenon DEF HandleDeleteItem
<1>4. deletesCrossed' \in BOOLEAN /\ (~deletesCrossed' => ~deletesCrossed /\ \A d \in Going : deletions[d].item = i)
  BY <1>3, Zenon
<1>5. PICK d \in Deletion : /\ deletions[d].at = "none"
                            /\ deletions' = [deletions EXCEPT ![d] = [at |-> "sent", item |-> i]]
  BY <1>2 DEF AskDeletion
<1>6. BecomesDeletion(d, "sent", i)
  BY <1>1, <1>5, DeletionSteps
<1>7. Going' = Going \cup {d} /\ d \notin Going
  BY <1>5, <1>6, GoingSteps DEF Going
<1>8. /\ deletions'[d].at = "sent" /\ deletions'[d].item = i
      /\ \A e \in Deletion \ {d} : deletions'[e] = deletions[e]
  BY <1>6 DEF BecomesDeletion
<1>9. Going \subseteq Deletion /\ \A e \in Going : e # d /\ deletions'[e] = deletions[e]
  BY <1>7, <1>8 DEF Going
<1>10. ListPagesTypeOK'
  <2>1. ListedData'
    BY <1>1, <1>2, <1>4, <1>6 DEF ListedData, BecomesDeletion
  <2>2. ButtonsWait'
    BY <1>1, <1>2, <1>7, <1>8 DEF ButtonsWait
  <2>3. QED
    BY <2>1, <2>2, ListPagesParts DEF ListPagesTypeOK, ListedData, ButtonsWait, DeletionRecord, CreationRecord
<1>11. RequestsAreNew'
  <2>1. i \in EverCreated /\ (creation.at = "done" /\ ~createdEarly => creation.item # i)
    BY <1>2 DEF ListPagesInv, RequestsAreNew
  <2>2. /\ \A e \in Going' : deletions'[e].item \in EverCreated'
        /\ \A e \in Deletion : deletions'[e].at \in {"done", "refused"} => deletions'[e].item \notin itemRows'
    BY <1>2, <1>7, <1>8, <1>9, <2>1 DEF ListPagesInv, RequestsAreNew
  <2>3. QED
    BY <1>2, <1>7, <1>8, <1>9, <2>1, <2>2 DEF ListPagesInv, RequestsAreNew
<1>12. DifferenceIsUnderWay'
  <2>1. \A e \in Deletion : deletions[e].at = "done" => deletions'[e] = deletions[e]
    BY <1>5, <1>8
  <2>2. QED
    BY <1>1, <1>2, <2>1, BehindAsBefore DEF ListPagesInv, DifferenceIsUnderWay, ListedData, EverCreated
<1>13. OneDeletion'
  <2>1. ~deletesCrossed' => Going = {}
    BY <1>2, <1>4 DEF ListPagesInv, OneDeletion
  <2>2. QED
    BY <1>2, <1>7, <1>8, <2>1 DEF OneDeletion
<1>14. QED
  BY <1>10, <1>11, <1>12, <1>13 DEF ListPagesInv

\* A request is served, and its answer comes or is lost.
LEMMA DeletionKeeps ==
  ASSUME ListPagesInv, NEW d \in Deletion, ServeDeletion(d) \/ DeletionArrives(d) \/ DeletionFails(d)
  PROVE  ListPagesInv'
<1>1. ListedData /\ ButtonsWait
  BY ListPagesParts DEF ListPagesInv
<1> DEFINE i == deletions[d].item
<1>2. /\ UNCHANGED <<createdAt, EverCreated, otherHands, itemsLoad, itemsRead, creation, creating>>
      /\ UNCHANGED <<createdEarly, deletesCrossed>>
      /\ d \in Going /\ Going \subseteq Deletion /\ itemsLoad \notin {"loading", "answered"}
  BY DEF ServeDeletion, DeletionArrives, DeletionFails, createVars, loadVars, storeVars, EverCreated, Going,
         ListPagesInv, RequestsAreNew
<1>3. i \in EverCreated /\ i \in Item
  BY <1>1, <1>2 DEF ListPagesInv, RequestsAreNew, EverCreated
<1> HIDE DEF i
<1>4. PICK at \in {"done", "refused", "over"} : deletions' = [deletions EXCEPT ![d].at = at]
  BY DEF ServeDeletion, DeletionArrives, DeletionFails
<1>5. BecomesDeletion(d, at, i)
  BY <1>1, <1>4, DeletionSteps DEF i
<1>6. /\ deletions'[d].at = at /\ deletions'[d].item = i
      /\ \A e \in Deletion \ {d} : deletions'[e] = deletions[e]
  BY <1>5 DEF BecomesDeletion
<1>7. creation.at = "done" /\ ~createdEarly => /\ creation.item \in itemRows \cup otherHands
                                               /\ creation.item \notin items /\ creation.item # i
  BY <1>2 DEF ListPagesInv, RequestsAreNew, i
<1>behind. \A j \in itemRows : IsBehindAPage(j) => IsBehindAPage(j)'
  BY <1>1, <1>2, BehindAsBefore DEF ListedData, EverCreated
<1>8. CASE ServeDeletion(d)
  <2>1. /\ UNCHANGED <<items, deleting, trouble, itemsUnheard>>
        /\ deletions[d].at = "sent" /\ itemRows' = itemRows \ {i}
    BY <1>8 DEF ServeDeletion, i
  <2>2. at = IF i \in itemRows THEN "done" ELSE "refused"
    <3>1. deletions' = [deletions EXCEPT ![d].at = IF i \in itemRows THEN "done" ELSE "refused"]
      BY <1>8 DEF ServeDeletion, i
    <3>2. deletions'[d].at = IF i \in itemRows THEN "done" ELSE "refused"
      <4>1. (IF i \in itemRows THEN "done" ELSE "refused") \in {"done", "refused", "over"}
        OBVIOUS
      <4>2. QED
        BY <1>1, <3>1, <4>1, DeletionSteps DEF BecomesDeletion
    <3>3. QED
      BY <1>6, <3>2
  <2>3. Going' = Going
    BY <1>2, <1>5, <2>2, GoingSteps
  <2>4. ListPagesTypeOK'
    <3>1. ListedData'
      BY <1>1, <1>2, <1>5, <2>1 DEF ListedData, BecomesDeletion
    <3>2. \A e \in Going : deletions'[e].item = deletions[e].item
      BY <1>2, <1>6 DEF i
    <3>3. ButtonsWait'
      BY <1>1, <1>2, <2>1, <2>3, <3>2 DEF ButtonsWait
    <3>4. QED
      BY <3>1, <3>3, ListPagesParts DEF ListPagesTypeOK, ListedData, ButtonsWait, DeletionRecord, CreationRecord
  <2>5. RequestsAreNew'
    <3>1. \A e \in Deletion : deletions'[e].at \in {"done", "refused"} => deletions'[e].item \notin itemRows'
      BY <1>6, <2>1 DEF ListPagesInv, RequestsAreNew
    <3>2. \A e \in Going : deletions'[e].item = deletions[e].item
      BY <1>2, <1>6 DEF i
    <3>3. QED
      BY <1>2, <1>7, <2>1, <2>3, <3>1, <3>2 DEF ListPagesInv, RequestsAreNew
  <2>6. DifferenceIsUnderWay'
    <3> SUFFICES ASSUME itemsLoad = "loaded", ~createdEarly
                 PROVE  /\ \A j \in items \ itemRows' :
                             \/ j \in itemsUnheard \cup otherHands
                             \/ \E e \in Deletion : deletions'[e].at = "done" /\ deletions'[e].item = j
                        /\ \A j \in itemRows' \ items :
                             \/ j \in itemsUnheard \cup otherHands \/ IsBehindAPage(j)'
                             \/ creation.at = "done" /\ creation.item = j
      BY <1>2, <2>1 DEF DifferenceIsUnderWay
    <3>1. \A e \in Deletion : deletions[e].at = "done" => deletions'[e] = deletions[e]
      BY <1>6, <2>1
    <3>2. i \in itemRows => deletions'[d].at = "done" /\ deletions'[d].item = i
      BY <1>6, <2>2
    <3>3. QED
      BY <1>behind, <2>1, <3>1, <3>2 DEF ListPagesInv, DifferenceIsUnderWay
  <2>7. OneDeletion'
    BY <1>2, <1>6, <2>1, <2>3 DEF ListPagesInv, OneDeletion, i
  <2>8. QED
    BY <2>4, <2>5, <2>6, <2>7 DEF ListPagesInv
<1>9. CASE DeletionArrives(d) \/ DeletionFails(d)
  <2>1. at = "over"
    <3>1. deletions' = [deletions EXCEPT ![d].at = "over"]
      BY <1>9 DEF DeletionArrives, DeletionFails
    <3>2. deletions'[d].at = "over"
      BY <1>1, <3>1, DeletionSteps DEF BecomesDeletion
    <3>3. QED
      BY <1>6, <3>2
  <2>2. /\ UNCHANGED itemRows /\ deleting' = "none" /\ trouble' \in 0 .. MaxTrouble
        /\ \/ /\ deletions[d].at = "done" /\ items' = items \ {i} /\ UNCHANGED itemsUnheard
           \/ /\ UNCHANGED items /\ deletions[d].at = "done" /\ itemsUnheard' = itemsUnheard \cup {i}
           \/ /\ UNCHANGED items /\ deletions[d].at # "done" /\ UNCHANGED itemsUnheard
    <3>1. CASE DeletionArrives(d)
      BY <1>1, <3>1 DEF DeletionArrives, storeVars, i, ListedData
    <3>2. CASE DeletionFails(d)
      BY <1>1, <3>2, ListPagesAssumption DEF DeletionFails, storeVars, i, ListedData, InTrouble
    <3>3. QED
      BY <1>9, <3>1, <3>2
  <2>3. Going' = Going \ {d}
    BY <1>5, <2>1, GoingSteps
  <2>4. /\ \A e \in Going' : e \in Going /\ deletions'[e] = deletions[e]
        /\ \A e \in Deletion : deletions'[e].at \in {"done", "refused"} => deletions'[e] = deletions[e]
    BY <1>2, <1>6, <2>1, <2>3
  <2>5. ListPagesTypeOK'
    <3>1. ListedData'
      BY <1>1, <1>2, <1>3, <1>5, <2>2 DEF ListedData, BecomesDeletion
    <3>2. ButtonsWait'
      BY <1>1, <1>2, <2>2 DEF ButtonsWait
    <3>3. QED
      BY <3>1, <3>2, ListPagesParts DEF ListPagesTypeOK, ListedData, ButtonsWait, DeletionRecord, CreationRecord
  <2>6. RequestsAreNew'
    BY <1>2, <1>7, <2>2, <2>4 DEF ListPagesInv, RequestsAreNew
  <2>7. DifferenceIsUnderWay'
    <3> SUFFICES ASSUME itemsLoad = "loaded", ~createdEarly
                 PROVE  /\ \A j \in items' \ itemRows :
                             \/ j \in itemsUnheard' \cup otherHands
                             \/ \E e \in Deletion : deletions'[e].at = "done" /\ deletions'[e].item = j
                        /\ \A j \in itemRows \ items' :
                             \/ j \in itemsUnheard' \cup otherHands \/ IsBehindAPage(j)'
                             \/ creation.at = "done" /\ creation.item = j
      BY <1>2, <2>2 DEF DifferenceIsUnderWay
    <3>1. ASSUME NEW j \in items' \ itemRows, j \notin itemsUnheard' \cup otherHands
          PROVE  \E e \in Deletion : deletions'[e].at = "done" /\ deletions'[e].item = j
      <4>1. PICK e \in Deletion : deletions[e].at = "done" /\ deletions[e].item = j
        BY <2>2, <3>1 DEF ListPagesInv, DifferenceIsUnderWay
      <4>2. e # d
        BY <2>2, <3>1, <4>1 DEF i
      <4>3. QED
        BY <1>6, <4>1, <4>2
    <3>2. deletions[d].at = "done" => i \notin itemRows
      BY DEF ListPagesInv, RequestsAreNew, i
    <3>3. QED
      BY <1>behind, <2>2, <3>1, <3>2 DEF ListPagesInv, DifferenceIsUnderWay
  <2>8. OneDeletion'
    BY <1>2, <2>3 DEF ListPagesInv, OneDeletion
  <2>9. QED
    BY <2>5, <2>6, <2>7, <2>8 DEF ListPagesInv
<1>10. QED
  BY <1>8, <1>9

\* The form that adds an item.
LEMMA CreationKeeps ==
  ASSUME ListPagesInv, HandleCreateItem \/ ServeCreation \/ CreationEnds
  PROVE  ListPagesInv'
<1>1. ListedData /\ ButtonsWait
  BY ListPagesParts DEF ListPagesInv
<1>2. UNCHANGED <<itemsLoad, itemsRead, deleting, deletions, deletesCrossed>>
  BY DEF HandleCreateItem, ServeCreation, CreationEnds, loadVars
<1>3. Going' = Going
  BY <1>2 DEF Going
<1>4. \A d \in Deletion : deletions[d].at \in {"done", "refused"} => d \in Going
  BY DEF Going
<1>5. OneDeletion'
  BY <1>2, <1>3 DEF ListPagesInv, OneDeletion
<1>6. CASE HandleCreateItem
  <2>1. /\ UNCHANGED <<itemRows, createdAt, EverCreated, otherHands, items, trouble, itemsUnheard>>
        /\ ~creating /\ creating' = TRUE /\ creation.at = "none"
    BY <1>1, <1>6 DEF HandleCreateItem, ButtonsWait, storeVars, EverCreated
  <2>2. createdEarly' = (createdEarly \/ itemsLoad \in {"loading", "answered"})
    BY <1>6, Zenon DEF HandleCreateItem
  <2>3. /\ createdEarly' \in BOOLEAN
        /\ ~createdEarly' => ~createdEarly /\ itemsLoad \notin {"loading", "answered"}
    BY <2>2, Zenon
  <2>4. PICK i \in Item \ EverCreated : creation' = [at |-> "sent", item |-> i]
    BY <1>6 DEF HandleCreateItem
  <2>5. creation'.at = "sent" /\ creation'.item = i /\ creation' \in CreationRecord
    BY <2>4 DEF CreationRecord
  <2>6. ListPagesTypeOK'
    <3>1. ListedData' /\ ButtonsWait'
      BY <1>1, <1>2, <1>3, <2>1, <2>3, <2>5 DEF ListedData, ButtonsWait
    <3>2. QED
      BY <3>1, ListPagesParts DEF ListPagesTypeOK, ListedData, ButtonsWait, DeletionRecord, CreationRecord
  <2>7. RequestsAreNew'
    BY <1>2, <1>3, <2>1, <2>3, <2>5 DEF ListPagesInv, RequestsAreNew
  <2>8. DifferenceIsUnderWay'
    BY <1>1, <1>2, <2>1, <2>3, <2>5, BehindAsBefore
       DEF ListPagesInv, DifferenceIsUnderWay, ListedData, EverCreated, ButtonsWait
  <2>9. QED
    BY <1>5, <2>6, <2>7, <2>8 DEF ListPagesInv
<1>7. CASE ServeCreation
  <2>1. /\ UNCHANGED <<items, creating, createdEarly, trouble, itemsUnheard, otherHands>>
        /\ creation.at = "sent" /\ creation' = [creation EXCEPT !.at = "done"]
        /\ StoreItem(creation.item)
    BY <1>7 DEF ServeCreation
  <2>2. creation'.at = "done" /\ creation'.item = creation.item /\ creation' \in CreationRecord
    BY <1>1, <2>1 DEF ListedData, CreationRecord
  <2>3. creation.item \in Item \ EverCreated
    BY <2>1 DEF ListPagesInv, RequestsAreNew
  <2>4. itemsLoad \in {"loading", "answered"} => createdEarly
    BY <1>1, <2>1 DEF ListPagesInv, RequestsAreNew, ButtonsWait
  <2>stored. /\ createdAt' \in [Item -> 0 .. Cardinality(Item)]
        /\ EverCreated' = EverCreated \cup {creation.item} /\ itemRows' = itemRows \cup {creation.item}
        /\ \A j \in Item : createdAt'[j] # createdAt[j] => j = creation.item /\ createdAt[j] = 0
    BY <1>1, <2>1, <2>3, StoreSteps
  <2>behind. \A j \in itemRows \ {creation.item} : IsBehindAPage(j) => IsBehindAPage(j)'
    BY <1>1, <2>stored, BehindStays DEF ListedData, EverCreated
  <2>5. ListPagesTypeOK'
    <3>1. ListedData' /\ ButtonsWait'
      BY <1>1, <1>2, <1>3, <2>1, <2>2, <2>3, <2>stored DEF ListedData, ButtonsWait
    <3>2. QED
      BY <3>1, ListPagesParts DEF ListPagesTypeOK, ListedData, ButtonsWait, DeletionRecord, CreationRecord
  <2>6. RequestsAreNew'
    BY <1>2, <1>3, <1>4, <2>1, <2>2, <2>3, <2>4, <2>stored DEF ListPagesInv, RequestsAreNew
  <2>7. DifferenceIsUnderWay'
    BY <1>2, <2>1, <2>2, <2>stored, <2>behind DEF ListPagesInv, DifferenceIsUnderWay
  <2>8. QED
    BY <1>5, <2>5, <2>6, <2>7 DEF ListPagesInv
<1>8. CASE CreationEnds
  <2>1. /\ UNCHANGED <<itemRows, createdAt, EverCreated, otherHands, createdEarly>>
        /\ creation.at # "none" /\ creation' = NoDeletion /\ creating' = FALSE
        /\ trouble' \in 0 .. MaxTrouble
        /\ \/ creation.at = "done" /\ items' = items \cup {creation.item} /\ UNCHANGED itemsUnheard
           \/ creation.at = "done" /\ UNCHANGED items /\ itemsUnheard' = itemsUnheard \cup {creation.item}
           \/ creation.at # "done" /\ UNCHANGED <<items, itemsUnheard>>
    BY <1>1, <1>8, ListPagesAssumption DEF CreationEnds, InTrouble, ListedData, CreationRecord, storeVars, EverCreated
  <2>2. creation'.at = "none" /\ creation'.item = "none" /\ creation' \in CreationRecord
    BY <2>1 DEF NoDeletion, CreationRecord
  <2>3. creation.at = "done" => creation.item \in EverCreated /\ creation.item \in Item
    BY DEF ListPagesInv, RequestsAreNew, EverCreated
  <2>4. itemsLoad \in {"loading", "answered"} => createdEarly
    BY <1>1, <2>1 DEF ListPagesInv, RequestsAreNew, ButtonsWait
  <2>5. ListPagesTypeOK'
    <3>1. ListedData' /\ ButtonsWait'
      BY <1>1, <1>2, <1>3, <2>1, <2>2, <2>3 DEF ListedData, ButtonsWait
    <3>2. QED
      BY <3>1, ListPagesParts DEF ListPagesTypeOK, ListedData, ButtonsWait, DeletionRecord, CreationRecord
  <2>6. RequestsAreNew'
    BY <1>2, <1>3, <2>1, <2>2, <2>3, <2>4 DEF ListPagesInv, RequestsAreNew
  <2>7. DifferenceIsUnderWay'
    <3>1. creation.at = "done" /\ ~createdEarly => creation.item \in itemRows \cup otherHands
      BY DEF ListPagesInv, RequestsAreNew
    <3>2. \A j \in itemRows : IsBehindAPage(j) => IsBehindAPage(j)'
      BY <1>1, <2>1, BehindAsBefore DEF ListedData, EverCreated
    <3>3. QED
      BY <1>2, <2>1, <2>2, <3>1, <3>2 DEF ListPagesInv, DifferenceIsUnderWay
  <2>8. QED
    BY <1>5, <2>5, <2>6, <2>7 DEF ListPagesInv
<1>9. QED
  BY <1>6, <1>7, <1>8

\* Another tab, or the extension, adds an item or deletes one.
LEMMA OtherHandsKeep ==
  ASSUME ListPagesInv, NEW i \in Item, ElsewhereItem(i)
  PROVE  ListPagesInv'
<1>1. ListedData /\ ButtonsWait
  BY ListPagesParts DEF ListPagesInv
<1>2. /\ UNCHANGED <<items, itemsLoad, itemsRead, deleting, deletions, creation, creating>>
      /\ UNCHANGED <<createdEarly, trouble, itemsUnheard, deletesCrossed>>
      /\ otherHands' = otherHands \cup {i}
  BY DEF ElsewhereItem, loadVars, createVars
<1>3. Going' = Going
  BY <1>2 DEF Going
<1>4. /\ createdAt' \in [Item -> 0 .. Cardinality(Item)]
      /\ \A j \in Item : createdAt'[j] # createdAt[j] => j = i /\ createdAt[j] = 0
      /\ \/ /\ i \notin EverCreated /\ i # creation.item
            /\ EverCreated' = EverCreated \cup {i} /\ itemRows' = itemRows \cup {i}
         \/ UNCHANGED EverCreated /\ itemRows' = itemRows \ {i}
  <2>1. CASE i \notin EverCreated /\ i # creation.item /\ StoreItem(i)
    BY <1>1, <2>1, StoreSteps
  <2>2. CASE itemRows' = itemRows \ {i} /\ UNCHANGED createdAt
    BY <1>1, <2>2 DEF ListedData, EverCreated
  <2>3. QED
    BY <2>1, <2>2 DEF ElsewhereItem
<1>5. \A j \in itemRows \ {i} : IsBehindAPage(j) => IsBehindAPage(j)'
  BY <1>1, <1>4, BehindStays DEF ListedData, EverCreated
<1>6. ListPagesTypeOK'
  <2>1. ListedData' /\ ButtonsWait'
    BY <1>1, <1>2, <1>3, <1>4 DEF ListedData, ButtonsWait
  <2>2. QED
    BY <2>1, ListPagesParts DEF ListPagesTypeOK, ListedData, ButtonsWait, DeletionRecord, CreationRecord
<1>7. RequestsAreNew'
  <2>1. \A d \in Deletion : deletions[d].at \in {"done", "refused"} => deletions[d].item \notin itemRows'
    <3>1. \A d \in Deletion : deletions[d].at \in {"done", "refused"} =>
            deletions[d].item \in EverCreated \ itemRows
      BY DEF ListPagesInv, RequestsAreNew, Going
    <3>2. QED
      BY <1>4, <3>1
  <2>2. /\ itemsRead \ itemRows' \subseteq (itemsRead \ itemRows) \cup {i}
        /\ itemRows' \ itemsRead \subseteq (itemRows \ itemsRead) \cup {i}
        /\ EverCreated \subseteq EverCreated'
    BY <1>4
  <2>3. creation.at = "sent" => creation.item \in Item \ EverCreated'
    BY <1>1, <1>4 DEF ListPagesInv, RequestsAreNew
  <2>4. itemRows \cup otherHands \subseteq itemRows' \cup otherHands'
    BY <1>2, <1>4
  <2>5. itemsLoad' = "answered" /\ ~createdEarly' =>
          /\ itemsRead' \ itemRows' \subseteq otherHands'
          /\ \A j \in itemRows' \ itemsRead' : j \in otherHands' \/ IsBehindAPage(j)'
    BY <1>2, <1>5, <2>2 DEF ListPagesInv, RequestsAreNew
  <2>6. QED
    BY <1>2, <1>3, <2>1, <2>2, <2>3, <2>4, <2>5 DEF ListPagesInv, RequestsAreNew
<1>8. DifferenceIsUnderWay'
  <2>1. /\ items \ itemRows' \subseteq (items \ itemRows) \cup {i}
        /\ itemRows' \ items \subseteq (itemRows \ items) \cup {i}
    BY <1>4
  <2>2. QED
    BY <1>2, <1>5, <2>1 DEF ListPagesInv, DifferenceIsUnderWay
<1>9. OneDeletion'
  BY <1>2, <1>3 DEF ListPagesInv, OneDeletion
<1>10. QED
  BY <1>6, <1>7, <1>8, <1>9 DEF ListPagesInv

\* The page when it is opened.
LEMMA ListPagesStart == ListPagesInit => ListPagesInv
<1> SUFFICES ASSUME ListPagesInit PROVE ListPagesInv
  OBVIOUS
<1>1. Going = {} /\ \A d \in Deletion : deletions[d].at = "none"
  BY DEF ListPagesInit, Going, NoDeletion
<1>2. creation.at = "none" /\ creation \in CreationRecord /\ deletions \in [Deletion -> DeletionRecord]
  BY DEF ListPagesInit, NoDeletion, CreationRecord, DeletionRecord
<1>3. ListedData /\ ButtonsWait
  <2>1. 0 \in 0 .. MaxTrouble
    BY ListPagesAssumption
  <2>2. QED
    BY <1>1, <1>2, <2>1 DEF ListPagesInit, ListedData, ButtonsWait
<1>4. RequestsAreNew /\ DifferenceIsUnderWay /\ OneDeletion
  BY <1>1, <1>2 DEF ListPagesInit, RequestsAreNew, DifferenceIsUnderWay, OneDeletion
<1>5. QED
  BY <1>3, <1>4, ListPagesParts DEF ListPagesInv

\* Every step keeps the invariant.
LEMMA ListPagesInductive == ListPagesInv /\ [ListPagesNext]_listPagesVars => ListPagesInv'
<1> SUFFICES ASSUME ListPagesInv, [ListPagesNext]_listPagesVars PROVE ListPagesInv'
  OBVIOUS
<1>1. CASE UNCHANGED listPagesVars
  BY <1>1 DEF listPagesVars, storeVars, loadVars, createVars, EverCreated, IsBehindAPage, CreatedAfter, ListPagesInv, ListPagesTypeOK, RequestsAreNew,
     DifferenceIsUnderWay, OneDeletion, Going
<1>2. CASE ListPagesNext
  BY <1>2, LoadItemsKeeps, DeleteItemKeeps, DeletionKeeps, CreationKeeps, OtherHandsKeep DEF ListPagesNext
<1>3. QED
  BY <1>1, <1>2

\* The invariant implies what the lists promise.
LEMMA ListsAreRight == ListPagesInv => ListsAgree
<1> SUFFICES ASSUME ListPagesInv PROVE ListsAgree
  OBVIOUS
<1>1. ItemsAreRows
  <2> SUFFICES ASSUME itemsLoad = "loaded", ~createdEarly, NEW i \in Item, 
                      i \notin Touched \cup itemsUnheard \cup otherHands
               PROVE  (i \in items => i \in itemRows) /\ (i \in itemRows => i \in items \/ IsBehindAPage(i))
    BY DEF ItemsAreRows
  <2>1. \A d \in Deletion : deletions[d].at = "done" => deletions[d].item \in Touched
    BY DEF Touched, Going
  <2>2. creation.at = "done" => creation.item \in Touched
    BY DEF Touched
  <2>3. QED
    BY <2>1, <2>2 DEF ListPagesInv, DifferenceIsUnderWay
<1>2. DeletedTwiceOnlyBehindAnother
  BY DEF ListPagesInv, OneDeletion, DeletedTwiceOnlyBehindAnother
<1>3. QED
  BY <1>1, <1>2 DEF ListsAgree

(***************************************************************************)
(* jobs/page.tsx and resume/page.tsx: wherever no request is under way or  *)
(* was lost and nobody else wrote, the list shows what is there, and all   *)
(* of it that is not behind a page of newer items; for any number of       *)
(* items, requests, failures and other writers, and any size of a page.    *)
(***************************************************************************)
THEOREM ListsStay == ListPagesSpec => []ListsAgree
<1>1. QED
  BY ListPagesStart, ListPagesInductive, ListsAreRight, PTL DEF ListPagesSpec

(***************************************************************************)
(* jobs/page.tsx:22-78: each piece of the page's state keeps its type, and *)
(* a disabled button has a request behind it.                              *)
(***************************************************************************)
THEOREM ListPagesTypeCorrect == ListPagesSpec => []ListPagesTypeOK
<1>1. ListPagesInv => ListPagesTypeOK
  BY DEF ListPagesInv
<1>2. QED
  BY <1>1, ListPagesStart, ListPagesInductive, PTL DEF ListPagesSpec

-------------------------------------------------------------------------------
(* BillingPage: the billing page and Stripe.                                 *)

TabState ==
  [at : {"closed", "here", "checkout", "portal"}, banner : {"none", "success", "canceled"},
   load : {"none", "asked", "half", "read"}, read : Answers \cup {NoAnswer},
   sub : Answers \cup {NoAnswer}, error : BOOLEAN, acting : BOOLEAN,
   request : {"none", "checkout", "portal"}, actionError : BOOLEAN, stale : BOOLEAN]

BillingData ==
  /\ planRow \in Plan /\ used \in 0 .. FreeLimit
  /\ purchases \in [Purchase -> {"none", "paid", "recorded", "ending", "over"}]
  /\ tabs \in [Tab -> TabState]
  /\ snags \in 0 .. MaxSnags /\ blindly \in BOOLEAN

(***************************************************************************)
(* A tab has a plan, or waits for one, or shows an error; what it has read *)
(* is so until something changes; and only a tab that was told "free" asks *)
(* for a checkout.                                                         *)
(***************************************************************************)
TabIsRight(page) ==
  /\ page.at = "here" => (page.acting <=> page.request # "none")
  /\ page.at = "here" /\ page.load = "none" => (page.sub = NoAnswer <=> page.error)
  /\ page.load # "none" => page.sub = NoAnswer /\ ~page.error
  /\ page.load \in {"half", "read"} => page.read \in Answers
  /\ page.load \in {"half", "read"} /\ ~page.stale => page.read.plan = planRow
  /\ page.load = "read" /\ ~page.stale => page.read.used = used
  /\ page.sub # NoAnswer /\ ~page.stale => page.sub.plan = planRow /\ page.sub.used = used
  /\ page.request = "checkout" => page.sub.plan = "free"

\* While one subscription lives, no tab leads to another.
LeadsToPay(page) == page.at = "checkout" \/ page.sub.plan = "free" \/ page.read.plan = "free"
OnePays ==
  ~blindly =>
    /\ \A p, q \in Live : p = q
    /\ Live # {} => \A t \in Tab : ~LeadsToPay(tabs[t])
    /\ \A p \in Purchase : purchases[p] \in {"recorded", "ending"} => planRow = "premium"

BillingInv == BillingData /\ (\A t \in Tab : TabIsRight(tabs[t])) /\ OnePays

\* An answer is not the lack of one, and says as much as its fields.
LEMMA AnswerFacts ==
  /\ NoAnswer \notin Answers /\ NoAnswer.plan = "none"
  /\ \A a \in Answers \cup {NoAnswer} : a.plan \in {"free", "premium", "none"}
  /\ \A a \in Answers : a # NoAnswer /\ a.plan \in Plan /\ a.used \in 0 .. FreeLimit
  /\ \A plan \in Plan, n \in 0 .. FreeLimit : [plan |-> plan, used |-> n] \in Answers
BY DEF Answers, NoAnswer, Plan

\* A tab that has just been opened, or is not open.
LEMMA FreshTabs ==
  /\ \A banner \in {"none", "success", "canceled"} :
       /\ Opened(banner) \in TabState /\ TabIsRight(Opened(banner)) /\ ~LeadsToPay(Opened(banner))
  /\ \A at \in {"closed", "checkout", "portal"} :
       LET page == [Closed EXCEPT !.at = at] IN
       page \in TabState /\ TabIsRight(page) /\ page.at = at /\ page.sub = NoAnswer /\ page.read = NoAnswer
  /\ Closed \in TabState /\ TabIsRight(Closed) /\ ~LeadsToPay(Closed)
<1>1. ASSUME NEW banner \in {"none", "success", "canceled"}
      PROVE  Opened(banner) \in TabState /\ TabIsRight(Opened(banner)) /\ ~LeadsToPay(Opened(banner))
  <2>1. PICK p : p = Opened(banner)
    OBVIOUS
  <2>2. p = [at |-> "here", banner |-> banner, load |-> "asked", read |-> NoAnswer, sub |-> NoAnswer,
             error |-> FALSE, acting |-> FALSE, request |-> "none", actionError |-> FALSE, stale |-> FALSE]
    BY <2>1 DEF Opened, Closed
  <2>3. p \in TabState
    BY <2>2 DEF TabState
  <2>4. TabIsRight(p) /\ ~LeadsToPay(p)
    BY <2>2, AnswerFacts DEF TabIsRight, LeadsToPay
  <2>5. QED
    BY <2>1, <2>3, <2>4
<1>2. ASSUME NEW at \in {"closed", "checkout", "portal"}, NEW p, p = [Closed EXCEPT !.at = at]
      PROVE  p \in TabState /\ TabIsRight(p) /\ p.at = at /\ p.sub = NoAnswer /\ p.read = NoAnswer
  <2>1. p = [at |-> at, banner |-> "none", load |-> "none", read |-> NoAnswer, sub |-> NoAnswer,
             error |-> FALSE, acting |-> FALSE, request |-> "none", actionError |-> FALSE, stale |-> FALSE]
    BY <1>2 DEF Closed
  <2>2. p \in TabState
    BY <2>1 DEF TabState
  <2>3. QED
    BY <2>1, <2>2 DEF TabIsRight
<1>3. Closed \in TabState /\ TabIsRight(Closed) /\ ~LeadsToPay(Closed)
  <2>1. Closed \in TabState
    BY DEF TabState, Closed
  <2>2. QED
    BY <2>1, AnswerFacts DEF TabIsRight, LeadsToPay, Closed
<1>4. QED
  BY <1>1, <1>2, <1>3

\* A step of one tab.
LEMMA TabSteps ==
  ASSUME BillingInv, NEW t \in Tab, NEW page \in TabState, Set(t, page),
         UNCHANGED <<planRow, used, purchases>>, snags' \in 0 .. MaxSnags,
         blindly' \in BOOLEAN, blindly => blindly', TabIsRight(page),
         ~blindly' /\ Live # {} => ~LeadsToPay(page)
  PROVE  BillingInv'
<1>1. /\ tabs' \in [Tab -> TabState] /\ tabs'[t] = page
      /\ \A u \in Tab \ {t} : tabs'[u] = tabs[u]
  BY DEF BillingInv, BillingData, Set
<1>2. BillingData'
  BY <1>1 DEF BillingInv, BillingData
<1>3. ASSUME NEW u \in Tab PROVE TabIsRight(tabs[u])'
  <2>1. PICK q : q = tabs'[u]
    OBVIOUS
  <2>2. TabIsRight(q)
    BY <1>1, <2>1 DEF BillingInv
  <2>3. QED
    BY <2>1, <2>2 DEF TabIsRight
<1>4. Live' = Live
  BY DEF Live
<1>5. OnePays'
  <2>1. SUFFICES ASSUME ~blindly'
                 PROVE  /\ \A p, q \in Live : p = q
                        /\ Live # {} => \A u \in Tab : ~LeadsToPay(tabs'[u])
                        /\ \A p \in Purchase : purchases[p] \in {"recorded", "ending"} => planRow = "premium"
    BY <1>4 DEF OnePays, LeadsToPay
  <2>2. OnePays /\ ~blindly
    BY <2>1 DEF BillingInv
  <2>3. QED
    BY <1>1, <2>1, <2>2 DEF OnePays
<1>6. (\A u \in Tab : TabIsRight(tabs[u]))'
  BY <1>3
<1>7. QED
  BY <1>2, <1>5, <1>6 DEF BillingInv

\* A tab as it is.
LEMMA TabFacts ==
  ASSUME BillingInv, NEW t \in Tab
  PROVE  /\ tabs[t] \in TabState /\ TabIsRight(tabs[t])
         /\ ~blindly /\ Live # {} => ~LeadsToPay(tabs[t])
BY DEF BillingInv, BillingData, OnePays

\* What is read, of the plan and the usage.
LEMMA ReadsKeep ==
  ASSUME BillingInv, NEW t \in Tab, ReadPlan(t) \/ ReadUsage(t)
  PROVE  BillingInv'
<1> USE BillingPageAssumption
<1>1. /\ planRow \in Plan /\ used \in 0 .. FreeLimit /\ snags \in 0 .. MaxSnags /\ blindly \in BOOLEAN
      /\ 0 \in 0 .. FreeLimit
  BY DEF BillingInv, BillingData
<1>2. PICK page \in TabState : page = tabs[t]
  BY TabFacts
<1>3. TabIsRight(page) /\ (~blindly /\ Live # {} => ~LeadsToPay(page))
  BY <1>2, TabFacts
<1>4. CASE ReadPlan(t)
  <2>1. PICK a \in Answers : a = [plan |-> planRow, used |-> 0]
    BY <1>1, AnswerFacts
  <2>2. PICK q : q = [page EXCEPT !.load = "half", !.read = a]
    OBVIOUS
  <2>3. /\ Set(t, q) /\ page.load = "asked" /\ page.at = "here"
        /\ UNCHANGED <<planRow, used, purchases, snags>>
    BY <1>2, <1>4, <2>1, <2>2 DEF ReadPlan, Here
  <2>4. /\ q \in TabState /\ q.load = "half" /\ q.read = a /\ q.at = page.at /\ q.sub = page.sub
        /\ q.error = page.error /\ q.acting = page.acting /\ q.request = page.request /\ q.stale = page.stale
    BY <2>2 DEF TabState
  <2>5. a.plan = planRow
    BY <2>1
  <2>6. TabIsRight(q)
    BY <1>3, <2>3, <2>4, <2>5 DEF TabIsRight
  <2>7. blindly' = (blindly \/ \E p \in Purchase : purchases[p] = "paid")
    BY <1>4, Zenon DEF ReadPlan
  <2>8. /\ blindly' \in BOOLEAN /\ (blindly => blindly')
        /\ ~blindly' => ~blindly /\ \A p \in Purchase : purchases[p] # "paid"
    BY <2>7, Zenon
  <2>9. ~blindly' /\ Live # {} => ~LeadsToPay(q)
    <3>1. SUFFICES ASSUME ~blindly', Live # {} PROVE ~LeadsToPay(q)
      OBVIOUS
    <3>2. PICK p \in Purchase : purchases[p] \in {"recorded", "ending"}
      BY <2>8, <3>1 DEF Live, BillingInv, BillingData
    <3>3. planRow = "premium" /\ ~LeadsToPay(page)
      BY <1>3, <2>8, <3>1, <3>2 DEF BillingInv, OnePays
    <3>4. QED
      BY <2>4, <2>5, <3>3 DEF LeadsToPay
  <2>10. QED
    BY <1>1, <2>3, <2>4, <2>6, <2>8, <2>9, TabSteps
<1>5. CASE ReadUsage(t)
  <2>1. page.load = "half" /\ page.read \in Answers
    BY <1>2, <1>3, <1>5 DEF ReadUsage, TabIsRight
  <2>2. PICK a : a = [page.read EXCEPT !.used = used]
    OBVIOUS
  <2>3. a \in Answers /\ a.plan = page.read.plan /\ a.used = used
    BY <1>1, <2>1, <2>2 DEF Answers
  <2>4. PICK q : q = [page EXCEPT !.load = "read", !.read = a]
    OBVIOUS
  <2>5. [page EXCEPT !.load = "read", !.read.used = used] = q
    BY <2>2, <2>4 DEF TabState
  <2>6. Set(t, q) /\ UNCHANGED <<planRow, used, purchases, snags, blindly>>
    BY <1>2, <1>5, <2>5 DEF ReadUsage
  <2>7. /\ q \in TabState /\ q.load = "read" /\ q.read = a /\ q.at = page.at /\ q.sub = page.sub
        /\ q.error = page.error /\ q.acting = page.acting /\ q.request = page.request /\ q.stale = page.stale
    BY <2>3, <2>4 DEF TabState
  <2>8. TabIsRight(q) /\ (LeadsToPay(q) => LeadsToPay(page))
    BY <1>3, <2>1, <2>3, <2>7 DEF TabIsRight, LeadsToPay
  <2>9. QED
    BY <1>1, <1>3, <2>6, <2>7, <2>8, TabSteps
<1>6. QED
  BY <1>4, <1>5

\* The answer arrives, or does not.
LEMMA LoadsKeep ==
  ASSUME BillingInv, NEW t \in Tab, LoadArrives(t) \/ LoadFails(t)
  PROVE  BillingInv'
<1> USE BillingPageAssumption
<1>1. snags \in 0 .. MaxSnags /\ blindly \in BOOLEAN
  BY DEF BillingInv, BillingData
<1>2. PICK page \in TabState : page = tabs[t]
  BY TabFacts
<1>3. TabIsRight(page) /\ (~blindly /\ Live # {} => ~LeadsToPay(page))
  BY <1>2, TabFacts
<1>4. PICK none : none = NoAnswer
  OBVIOUS
<1>5. CASE LoadArrives(t)
  <2>1. PICK a : a = page.read
    OBVIOUS
  <2>2. PICK q : q = [page EXCEPT !.load = "none", !.sub = a, !.read = none]
    OBVIOUS
  <2>3. Set(t, q) /\ page.load = "read" /\ UNCHANGED <<planRow, used, purchases, snags, blindly>>
    BY <1>2, <1>4, <1>5, <2>1, <2>2 DEF LoadArrives
  <2>4. a \in Answers /\ a # NoAnswer
    BY <1>3, <2>1, <2>3, AnswerFacts DEF TabIsRight
  <2>5. /\ q \in TabState /\ q.load = "none" /\ q.read = none /\ q.at = page.at /\ q.sub = a
        /\ q.error = page.error /\ q.acting = page.acting /\ q.request = page.request /\ q.stale = page.stale
    BY <1>4, <2>2, <2>4 DEF TabState
  <2>6. page.sub = NoAnswer /\ ~page.error /\ page.request # "checkout"
    BY <1>3, <2>3, AnswerFacts DEF TabIsRight
  <2>7. TabIsRight(q) /\ (LeadsToPay(q) => LeadsToPay(page))
    BY <1>3, <1>4, <2>1, <2>3, <2>4, <2>5, <2>6, AnswerFacts DEF TabIsRight, LeadsToPay
  <2>8. QED
    BY <1>1, <1>3, <2>3, <2>5, <2>7, TabSteps
<1>6. CASE LoadFails(t)
  <2>1. PICK q : q = [page EXCEPT !.load = "none", !.error = TRUE, !.read = none]
    OBVIOUS
  <2>2. /\ Set(t, q) /\ page.load # "none" /\ UNCHANGED <<planRow, used, purchases, blindly>>
        /\ snags' \in 0 .. MaxSnags
    BY <1>1, <1>2, <1>4, <1>6, <2>1 DEF LoadFails, Snag
  <2>3. /\ q \in TabState /\ q.load = "none" /\ q.read = none /\ q.at = page.at /\ q.sub = page.sub
        /\ q.error = TRUE /\ q.acting = page.acting /\ q.request = page.request /\ q.stale = page.stale
    BY <1>4, <2>1 DEF TabState
  <2>4. TabIsRight(q) /\ (LeadsToPay(q) => LeadsToPay(page))
    BY <1>3, <1>4, <2>2, <2>3, AnswerFacts DEF TabIsRight, LeadsToPay
  <2>5. QED
    BY <1>1, <1>3, <2>2, <2>3, <2>4, TabSteps
<1>7. QED
  BY <1>5, <1>6

\* A tab that offers the upgrade has been told that the plan is free.
LEMMA OffersFacts ==
  ASSUME BillingInv, NEW t \in Tab
  PROVE  /\ Offers(t) = {} <=> tabs[t].load # "none" \/ tabs[t].sub = NoAnswer
         /\ Offers(t) # {} => tabs[t].load = "none" /\ tabs[t].sub \in Answers
         /\ "upgrade" \in Offers(t) => tabs[t].sub.plan = "free"
         /\ Offers(t) # {} => ("full" \in Offers(t) <=>
              tabs[t].sub.plan = "free" /\ tabs[t].sub.used >= FreeLimit)
<1>1. PICK page \in TabState : page = tabs[t]
  BY TabFacts
<1>2. page.sub \in Answers \cup {NoAnswer}
  BY DEF TabState
<1>3. CASE page.load # "none" \/ page.sub = NoAnswer
  BY <1>1, <1>3 DEF Offers
<1>4. CASE page.load = "none" /\ page.sub # NoAnswer
  <2>1. PICK a \in Answers : a = page.sub
    BY <1>2, <1>4
  <2>2. a.plan \in {"free", "premium"} /\ a.used \in 0 .. FreeLimit /\ a # NoAnswer
    BY AnswerFacts DEF Plan
  <2>3. Offers(t) = {Meter(a)} \cup Buttons(a) \cup (IF a.plan = "premium" THEN {} ELSE {"features"})
    BY <1>1, <1>4, <2>1, <2>2 DEF Offers
  <2>4. /\ Meter(a) \in {"unlimited", "full", "warning", "normal"}
        /\ Meter(a) = "full" <=> a.plan = "free" /\ a.used >= FreeLimit
    BY <2>2, BillingPageAssumption DEF Meter
  <2>5. Buttons(a) = IF a.plan = "premium" THEN {"manage"} ELSE {"upgrade"}
    BY DEF Buttons
  <2>6. "upgrade" \in Offers(t) => a.plan = "free"
    BY <2>2, <2>3, <2>4, <2>5
  <2>7. "full" \in Offers(t) <=> Meter(a) = "full"
    BY <2>3, <2>5
  <2>8. Offers(t) # {}
    BY <2>3
  <2>9. QED
    BY <1>1, <1>4, <2>1, <2>4, <2>6, <2>7, <2>8
<1>5. QED
  BY <1>3, <1>4

\* The buttons, and where they lead.
LEMMA ButtonsKeep ==
  ASSUME BillingInv, NEW t \in Tab, HandleUpgrade(t) \/ HandleManage(t) \/ ActionFails(t)
  PROVE  BillingInv'
<1> USE BillingPageAssumption
<1>1. snags \in 0 .. MaxSnags /\ blindly \in BOOLEAN
  BY DEF BillingInv, BillingData
<1>2. PICK page \in TabState : page = tabs[t]
  BY TabFacts
<1>3. TabIsRight(page) /\ (~blindly /\ Live # {} => ~LeadsToPay(page))
  BY <1>2, TabFacts
<1>4. ASSUME NEW acting \in BOOLEAN, NEW err \in BOOLEAN, NEW r \in {"none", "checkout", "portal"},
             Set(t, [page EXCEPT !.acting = acting, !.actionError = err, !.request = r]),
             acting <=> r # "none", r = "checkout" => page.sub.plan = "free",
             UNCHANGED <<planRow, used, purchases, blindly>>, snags' \in 0 .. MaxSnags
      PROVE  BillingInv'
  <2>1. PICK q : q = [page EXCEPT !.acting = acting, !.actionError = err, !.request = r]
    OBVIOUS
  <2>2. /\ q \in TabState /\ q.load = page.load /\ q.read = page.read /\ q.at = page.at /\ q.sub = page.sub
        /\ q.error = page.error /\ q.acting = acting /\ q.request = r /\ q.stale = page.stale
    BY <2>1 DEF TabState
  <2>3. TabIsRight(q) /\ (LeadsToPay(q) => LeadsToPay(page))
    BY <1>3, <1>4, <2>2 DEF TabIsRight, LeadsToPay
  <2>4. Set(t, q)
    BY <1>4, <2>1
  <2>5. QED
    BY <1>1, <1>3, <1>4, <2>2, <2>3, <2>4, TabSteps
<1>5. CASE HandleUpgrade(t)
  <2>1. page.sub.plan = "free"
    BY <1>2, <1>5, OffersFacts DEF HandleUpgrade
  <2>2. /\ Set(t, [page EXCEPT !.acting = TRUE, !.actionError = FALSE, !.request = "checkout"])
        /\ UNCHANGED <<planRow, used, purchases, snags, blindly>>
    BY <1>2, <1>5 DEF HandleUpgrade
  <2>3. QED
    BY <1>1, <1>4, <2>1, <2>2
<1>6. CASE HandleManage(t)
  <2>1. /\ Set(t, [page EXCEPT !.acting = TRUE, !.actionError = FALSE, !.request = "portal"])
        /\ UNCHANGED <<planRow, used, purchases, snags, blindly>>
    BY <1>2, <1>6 DEF HandleManage
  <2>2. QED
    BY <1>1, <1>4, <2>1
<1>7. CASE ActionFails(t)
  <2>1. /\ Set(t, [page EXCEPT !.acting = FALSE, !.actionError = TRUE, !.request = "none"])
        /\ UNCHANGED <<planRow, used, purchases, blindly>> /\ snags' \in 0 .. MaxSnags
    BY <1>1, <1>2, <1>7 DEF ActionFails, Snag
  <2>2. QED
    BY <1>4, <2>1
<1>8. QED
  BY <1>5, <1>6, <1>7

\* A tab is opened, closed, or goes to Stripe and comes back.
LEMMA TabsKeep ==
  ASSUME BillingInv, NEW t \in Tab,
         OpenBilling(t) \/ CloseTab(t) \/ GoToStripe(t) \/ CancelCheckout(t)
  PROVE  BillingInv'
<1>1. snags \in 0 .. MaxSnags /\ blindly \in BOOLEAN
  BY DEF BillingInv, BillingData
<1>2. UNCHANGED <<planRow, used, purchases, snags, blindly>>
  BY DEF OpenBilling, CloseTab, GoToStripe, CancelCheckout
<1>3. CASE OpenBilling(t) \/ CloseTab(t) \/ CancelCheckout(t)
  <2>1. PICK q \in TabState : Set(t, q) /\ TabIsRight(q) /\ ~LeadsToPay(q)
    BY <1>3, FreshTabs DEF OpenBilling, CloseTab, CancelCheckout
  <2>2. QED
    BY <1>1, <1>2, <2>1, TabSteps
<1>4. CASE GoToStripe(t)
  <2>1. PICK page \in TabState : page = tabs[t]
    BY TabFacts
  <2>2. PICK at \in {"checkout", "portal"} : at = page.request
    BY <1>4, <2>1 DEF GoToStripe, TabState
  <2>3. PICK q : q = [Closed EXCEPT !.at = at]
    OBVIOUS
  <2>4. Set(t, q)
    BY <1>4, <2>1, <2>2, <2>3 DEF GoToStripe
  <2>5. /\ q \in TabState /\ TabIsRight(q) /\ q.at = at /\ q.sub = NoAnswer /\ q.read = NoAnswer
    BY <2>3, FreshTabs
  <2>6. LeadsToPay(q) => LeadsToPay(page)
    BY <2>1, <2>2, <2>5, TabFacts, AnswerFacts DEF LeadsToPay, TabIsRight
  <2>7. ~blindly /\ Live # {} => ~LeadsToPay(q)
    BY <2>1, <2>6, TabFacts
  <2>8. QED
    BY <1>1, <1>2, <2>4, <2>5, <2>7, TabSteps
<1>5. QED
  BY <1>3, <1>4

\* What changes the row or the usage makes what was read stale.
LEMMA OutdatedTabs ==
  ASSUME BillingInv
  PROVE  /\ Outdated \in [Tab -> TabState]
         /\ \A t \in Tab :
              /\ Outdated[t].at = tabs[t].at /\ Outdated[t].load = tabs[t].load
              /\ Outdated[t].read = tabs[t].read /\ Outdated[t].sub = tabs[t].sub
              /\ Outdated[t].error = tabs[t].error /\ Outdated[t].acting = tabs[t].acting
              /\ Outdated[t].request = tabs[t].request
              /\ ~Outdated[t].stale => tabs[t].load \notin {"half", "read"} /\ tabs[t].sub = NoAnswer
<1>1. ASSUME NEW t \in Tab
      PROVE  /\ Outdated[t] \in TabState
             /\ Outdated[t].at = tabs[t].at /\ Outdated[t].load = tabs[t].load
             /\ Outdated[t].read = tabs[t].read /\ Outdated[t].sub = tabs[t].sub
             /\ Outdated[t].error = tabs[t].error /\ Outdated[t].acting = tabs[t].acting
             /\ Outdated[t].request = tabs[t].request
             /\ ~Outdated[t].stale => tabs[t].load \notin {"half", "read"} /\ tabs[t].sub = NoAnswer
  <2>1. PICK s : s = (tabs[t].stale \/ tabs[t].load \in {"half", "read"} \/ tabs[t].sub # NoAnswer)
    OBVIOUS
  <2>2. s \in BOOLEAN /\ (~s => tabs[t].load \notin {"half", "read"} /\ tabs[t].sub = NoAnswer)
    BY <2>1, Zenon
  <2>3. Outdated[t] = [tabs[t] EXCEPT !.stale = s]
    BY <2>1 DEF Outdated
  <2>4. PICK page \in TabState : page = tabs[t]
    BY TabFacts
  <2>5. PICK q : q = [page EXCEPT !.stale = s]
    OBVIOUS
  <2>6. /\ q \in TabState /\ q.stale = s /\ q.at = page.at /\ q.load = page.load /\ q.read = page.read
        /\ q.sub = page.sub /\ q.error = page.error /\ q.acting = page.acting /\ q.request = page.request
    BY <2>2, <2>5 DEF TabState
  <2>7. QED
    BY <2>2, <2>3, <2>4, <2>5, <2>6
<1>2. Outdated \in [Tab -> TabState]
  BY <1>1 DEF Outdated
<1>3. QED
  BY <1>1, <1>2

\* With everything read stale, a tab is right about whatever the row and the usage are.
LEMMA StaleTabs ==
  ASSUME BillingInv, tabs' = Outdated
  PROVE  /\ tabs' \in [Tab -> TabState] /\ \A t \in Tab : TabIsRight(tabs[t])'
         /\ \A t \in Tab : LeadsToPay(tabs'[t]) <=> LeadsToPay(tabs[t])
<1>1. \A t \in Tab : TabIsRight(tabs[t])
  BY DEF BillingInv
<1>2. ASSUME NEW t \in Tab PROVE TabIsRight(tabs[t])'
  BY <1>1, OutdatedTabs DEF TabIsRight
<1>3. QED
  BY <1>2, OutdatedTabs DEF LeadsToPay

\* A subscription is paid: no other tab may have been told "free".
LEMMA PayKeeps ==
  ASSUME BillingInv, NEW t \in Tab, NEW p \in Purchase, Pay(t, p)
  PROVE  BillingInv'
<1>1. /\ tabs[t].at = "checkout" /\ purchases[p] = "none"
      /\ purchases' = [purchases EXCEPT ![p] = "paid"]
      /\ Set(t, Opened("success")) /\ UNCHANGED <<planRow, used, snags>>
  BY DEF Pay
<1>2. blindly' = (blindly \/ \E u \in Tab \ {t} : tabs[u].at = "checkout" \/ Told(u))
  BY Zenon DEF Pay
<1>3. blindly \in BOOLEAN
  BY DEF BillingInv, BillingData
<1>4. /\ blindly' \in BOOLEAN
      /\ ~blindly' => ~blindly /\ \A u \in Tab \ {t} : ~(tabs[u].at = "checkout" \/ Told(u))
  BY <1>2, <1>3, Zenon
<1>5. PICK page \in TabState : page = Opened("success") /\ TabIsRight(page) /\ ~LeadsToPay(page)
  BY FreshTabs
<1>6. /\ tabs' \in [Tab -> TabState] /\ tabs'[t] = page
      /\ \A u \in Tab \ {t} : tabs'[u] = tabs[u]
  BY <1>1, <1>5 DEF BillingInv, BillingData, Set
<1>7. purchases' \in [Purchase -> {"none", "paid", "recorded", "ending", "over"}]
      /\ purchases'[p] = "paid" /\ \A r \in Purchase \ {p} : purchases'[r] = purchases[r]
  BY <1>1 DEF BillingInv, BillingData
<1>8. BillingData'
  BY <1>1, <1>4, <1>6, <1>7 DEF BillingInv, BillingData
<1>9. ASSUME NEW u \in Tab PROVE TabIsRight(tabs[u])'
  <2>1. PICK q : q = tabs'[u]
    OBVIOUS
  <2>2. TabIsRight(q)
    BY <1>5, <1>6, <2>1 DEF BillingInv
  <2>3. QED
    BY <1>1, <2>1, <2>2 DEF TabIsRight
<1>10. OnePays'
  <2>1. SUFFICES ASSUME ~blindly'
                 PROVE  /\ \A q, r \in Live' : q = r
                        /\ \A u \in Tab : ~LeadsToPay(tabs'[u])
                        /\ \A q \in Purchase : purchases'[q] \in {"recorded", "ending"} => planRow = "premium"
    BY <1>1 DEF OnePays
  <2>2. OnePays /\ ~blindly /\ \A u \in Tab \ {t} : ~LeadsToPay(tabs[u])
    BY <1>4, <2>1 DEF BillingInv, Told, LeadsToPay
  <2>3. Live = {}
    BY <1>1, <2>2 DEF OnePays, LeadsToPay
  <2>4. \A q \in Live' : q = p
    BY <1>7, <2>3 DEF Live
  <2>5. \A u \in Tab : ~LeadsToPay(tabs'[u])
    BY <1>5, <1>6, <2>2
  <2>6. \A q \in Purchase : purchases'[q] \in {"recorded", "ending"} => planRow = "premium"
    BY <1>7, <2>2 DEF OnePays
  <2>7. QED
    BY <2>4, <2>5, <2>6
<1>11. (\A u \in Tab : TabIsRight(tabs[u]))'
  BY <1>9
<1>12. QED
  BY <1>8, <1>10, <1>11 DEF BillingInv

\* A subscription is cancelled in the portal: it lives until the webhook.
LEMMA CancelKeeps ==
  ASSUME BillingInv, NEW t \in Tab, NEW p \in Purchase, CancelSubscription(t, p)
  PROVE  BillingInv'
<1>1. /\ purchases[p] = "recorded" /\ purchases' = [purchases EXCEPT ![p] = "ending"]
      /\ Set(t, Opened("none")) /\ UNCHANGED <<planRow, used, snags, blindly>>
  BY DEF CancelSubscription
<1>2. PICK page \in TabState : page = Opened("none") /\ TabIsRight(page) /\ ~LeadsToPay(page)
  BY FreshTabs
<1>3. /\ tabs' \in [Tab -> TabState] /\ tabs'[t] = page
      /\ \A u \in Tab \ {t} : tabs'[u] = tabs[u]
  BY <1>1, <1>2 DEF BillingInv, BillingData, Set
<1>4. purchases' \in [Purchase -> {"none", "paid", "recorded", "ending", "over"}]
      /\ purchases'[p] = "ending" /\ \A r \in Purchase \ {p} : purchases'[r] = purchases[r]
  BY <1>1 DEF BillingInv, BillingData
<1>5. BillingData'
  BY <1>1, <1>3, <1>4 DEF BillingInv, BillingData
<1>6. ASSUME NEW u \in Tab PROVE TabIsRight(tabs[u])'
  <2>1. PICK q : q = tabs'[u]
    OBVIOUS
  <2>2. TabIsRight(q)
    BY <1>2, <1>3, <2>1 DEF BillingInv
  <2>3. QED
    BY <1>1, <2>1, <2>2 DEF TabIsRight
<1>7. OnePays'
  <2>1. \A q \in Purchase : q \in Live' <=> q \in Live
    BY <1>1, <1>4 DEF Live
  <2>2. Live' = Live
    BY <2>1 DEF Live
  <2>3. SUFFICES ASSUME ~blindly
                 PROVE  /\ \A q, r \in Live : q = r
                        /\ Live # {} => \A u \in Tab : ~LeadsToPay(tabs'[u])
                        /\ \A q \in Purchase : purchases'[q] \in {"recorded", "ending"} => planRow = "premium"
    BY <1>1, <2>2 DEF OnePays
  <2>4. OnePays
    BY DEF BillingInv
  <2>5. QED
    BY <1>1, <1>2, <1>3, <1>4, <2>3, <2>4 DEF OnePays
<1>8. (\A u \in Tab : TabIsRight(tabs[u]))'
  BY <1>6
<1>9. QED
  BY <1>5, <1>7, <1>8 DEF BillingInv

\* A webhook is handled, or the quota is used elsewhere.
LEMMA WebhookKeeps ==
  ASSUME BillingInv, UseQuota \/ \E p \in Purchase : Webhook(p)
  PROVE  BillingInv'
<1>1. /\ used \in 0 .. FreeLimit /\ planRow \in Plan
      /\ purchases \in [Purchase -> {"none", "paid", "recorded", "ending", "over"}]
  BY DEF BillingInv, BillingData
<1>2. CASE UseQuota
  <2>1. /\ tabs' = Outdated /\ UNCHANGED <<planRow, purchases, snags, blindly>>
        /\ used' \in 0 .. FreeLimit
    BY <1>1, <1>2, BillingPageAssumption DEF UseQuota
  <2>2. BillingData'
    BY <2>1, StaleTabs DEF BillingInv, BillingData
  <2>3. Live' = Live
    BY <2>1 DEF Live
  <2>4. OnePays'
    <3>1. OnePays
      BY DEF BillingInv
    <3>2. QED
      BY <2>1, <2>3, <3>1, StaleTabs DEF OnePays
  <2>5. (\A u \in Tab : TabIsRight(tabs[u]))'
    BY <2>1, StaleTabs
  <2>6. QED
    BY <2>2, <2>4, <2>5 DEF BillingInv
<1>3. ASSUME NEW p \in Purchase, Webhook(p) PROVE BillingInv'
  <2>1. PICK s \in {"recorded", "over"} :
          /\ purchases' = [purchases EXCEPT ![p] = s]
          /\ planRow' = IF s = "recorded" THEN "premium" ELSE "free"
          /\ purchases[p] \in {"paid", "ending"}
    BY <1>1, <1>3 DEF Webhook
  <2>2. tabs' = Outdated /\ UNCHANGED <<used, snags, blindly>>
    BY <1>3 DEF Webhook
  <2>3. purchases' \in [Purchase -> {"none", "paid", "recorded", "ending", "over"}]
        /\ purchases'[p] = s /\ \A r \in Purchase \ {p} : purchases'[r] = purchases[r]
    BY <1>1, <2>1
  <2>4. BillingData'
    BY <2>1, <2>2, <2>3, StaleTabs DEF BillingInv, BillingData, Plan
  <2>5. Live' \subseteq Live /\ p \in Live
    BY <2>1, <2>3 DEF Live
  <2>6. OnePays'
    <3>1. SUFFICES ASSUME ~blindly
                   PROVE  /\ \A q, r \in Live' : q = r
                          /\ \A u \in Tab : ~LeadsToPay(tabs'[u])
                          /\ \A q \in Purchase : purchases'[q] \in {"recorded", "ending"} => planRow' = "premium"
      BY <2>2 DEF OnePays
    <3>2. OnePays
      BY DEF BillingInv
    <3>3. \A q \in Live : q = p
      BY <2>5, <3>1, <3>2 DEF OnePays
    <3>4. \A q \in Purchase \ {p} : purchases[q] \in {"none", "over"}
      BY <3>3 DEF Live
    <3>5. \A q \in Purchase : purchases'[q] \in {"recorded", "ending"} => planRow' = "premium"
      BY <2>1, <2>3, <3>4
    <3>6. \A u \in Tab : ~LeadsToPay(tabs'[u])
      BY <2>2, <2>5, <3>1, <3>2, StaleTabs DEF OnePays
    <3>7. QED
      BY <2>5, <3>3, <3>5, <3>6
  <2>7. (\A u \in Tab : TabIsRight(tabs[u]))'
    BY <2>2, StaleTabs
  <2>8. QED
    BY <2>4, <2>6, <2>7 DEF BillingInv
<1>4. QED
  BY <1>2, <1>3

\* The billing page starts with no tab and no subscription, and every step keeps the invariant.
LEMMA BillingPageKeeps ==
  /\ BillingPageInit => BillingInv
  /\ BillingInv /\ [BillingPageNext]_billingPageVars => BillingInv'
<1>1. ASSUME BillingPageInit PROVE BillingInv
  <2> USE <1>1 DEF BillingPageInit
  <2>1. 0 \in 0 .. MaxSnags
    BY BillingPageAssumption
  <2>2. BillingData
    BY <2>1, FreshTabs DEF BillingData, Plan
  <2>3. \A t \in Tab : TabIsRight(tabs[t])
    BY FreshTabs
  <2>4. OnePays
    BY DEF OnePays, Live
  <2>5. QED
    BY <2>2, <2>3, <2>4 DEF BillingInv
<1>2. ASSUME BillingInv, [BillingPageNext]_billingPageVars PROVE BillingInv'
  <2>1. CASE BillingPageNext
    BY <1>2, <2>1, ReadsKeep, LoadsKeep, ButtonsKeep, TabsKeep, PayKeeps, CancelKeeps, WebhookKeeps
       DEF BillingPageNext
  <2>2. CASE UNCHANGED billingPageVars
    BY <1>2, <2>2 DEF billingPageVars, BillingInv, BillingData, TabIsRight, OnePays, Live, LeadsToPay
  <2>3. QED
    BY <1>2, <2>1, <2>2
<1>3. QED
  BY <1>1, <1>2

\* settings/billing/page.tsx: the state of the tabs keeps its type.
THEOREM BillingPageTypeCorrect == BillingPageSpec => []BillingPageTypeOK
<1>1. BillingInv => BillingPageTypeOK
  BY DEF BillingInv, BillingData, TabState, BillingPageTypeOK
<1>2. QED
  BY BillingPageKeeps, <1>1, PTL DEF BillingPageSpec

(***************************************************************************)
(* settings/billing/page.tsx: however many tabs are open and requests      *)
(* fail, nobody is led to pay twice, the meter is honest, and the page     *)
(* waits for somebody.                                                     *)
(***************************************************************************)
THEOREM BillingPageStays == BillingPageSpec => []BillingPageAgrees
<1>1. BillingInv => BillingPageAgrees
  <2> SUFFICES ASSUME BillingInv PROVE BillingPageAgrees
    OBVIOUS
  <2>1. PaysOnce
    <3>1. SUFFICES ASSUME ~blindly PROVE ~(Cardinality(Live) > 1)
      BY DEF PaysOnce
    <3>2. \A p, q \in Live : p = q
      BY <3>1 DEF BillingInv, OnePays
    <3>3. CASE Live = {}
      BY <3>3, FS_EmptySet
    <3>4. ASSUME NEW p \in Live PROVE ~(Cardinality(Live) > 1)
      <4>1. Live = {p}
        BY <3>2, <3>4
      <4>2. PICK L : L = Live
        OBVIOUS
      <4>3. Cardinality(L) = 1
        BY <4>1, <4>2, FS_Singleton
      <4>4. QED
        BY <4>2, <4>3
    <3>5. QED
      BY <3>3, <3>4
  <2>2. MeterIsHonest
    <3>1. ASSUME NEW t \in Tab, Offers(t) # {}, ~tabs[t].stale PROVE "full" \in Offers(t) <=> Refused
      <4>1. TabIsRight(tabs[t]) /\ tabs[t].sub \in Answers /\ tabs[t].sub # NoAnswer
        BY <3>1, TabFacts, OffersFacts, AnswerFacts
      <4>2. tabs[t].sub.plan = planRow /\ tabs[t].sub.used = used
        BY <3>1, <4>1 DEF TabIsRight
      <4>3. "full" \in Offers(t) <=> tabs[t].sub.plan = "free" /\ tabs[t].sub.used >= FreeLimit
        BY <3>1, OffersFacts
      <4>4. QED
        BY <4>2, <4>3 DEF Refused
    <3>2. QED
      BY <3>1 DEF MeterIsHonest
  <2>3. BillingWaitsForSomebody
    <3>1. ASSUME NEW t \in Tab, Here(t)
          PROVE  /\ tabs[t].acting <=> tabs[t].request # "none"
                 /\ Offers(t) = {} <=> Notices(t) \cap {"loading", "error"} # {}
      <4>1. TabIsRight(tabs[t]) /\ tabs[t].at = "here"
        BY <3>1, TabFacts DEF Here
      <4>2. tabs[t].banner \notin {"loading", "error"}
        BY TabFacts DEF TabState
      <4>3. Notices(t) \cap {"loading", "error"} # {} <=> tabs[t].load # "none" \/ tabs[t].error
        BY <3>1, <4>2 DEF Notices
      <4>4. Offers(t) = {} <=> tabs[t].load # "none" \/ tabs[t].sub = NoAnswer
        BY OffersFacts
      <4>5. QED
        BY <4>1, <4>3, <4>4 DEF TabIsRight
    <3>2. QED
      BY <3>1 DEF BillingWaitsForSomebody
  <2>4. QED
    BY <2>1, <2>2, <2>3 DEF BillingPageAgrees
<1>2. QED
  BY BillingPageKeeps, <1>1, PTL DEF BillingPageSpec

-------------------------------------------------------------------------------
(* JobPage: the page of a job description.                                   *)

JobData ==
  /\ candidates \in [Candidate -> {"parsing", "complete"}]
  /\ discarded \subseteq Candidate /\ undone \subseteq Candidate
  /\ jobPage \in {"loading", "read", "shown", "failed", "left"}
  /\ offered \subseteq Candidate /\ selected \in Candidate \cup {"none"}
  /\ asking \in BOOLEAN /\ askError \in BOOLEAN
  /\ question \in [at : {"none", "sent", "done", "refused"}, resume : Candidate \cup {"none"}]
  /\ scoredFor \in [Candidate -> Nat]
  /\ slips \in 0 .. MaxSlips /\ unanswered \in 0 .. MaxSlips /\ unanswered <= slips

\* What the page offers and asks for, and when it is busy.
JobShows ==
  /\ asking <=> question.at # "none" \/ jobPage = "left"
  /\ selected = "none" <=> offered = {} \/ jobPage \in {"loading", "read", "failed"}
  /\ selected # "none" => selected \in offered
  /\ question.at # "none" => jobPage = "shown" /\ question.resume \in offered
  /\ OffersWhatIsParsed

\* The visit's score, once it is charged.
Charged == IF question.at = "done" \/ jobPage = "left" THEN 1 ELSE 0
ScoresOf(c, d) == IF c = d THEN scoredFor[c] ELSE scoredFor[c] + scoredFor[d]
JobCharges == \A c, d \in Candidate : ScoresOf(c, d) <= unanswered + Charged

JobInv == JobData /\ JobShows /\ JobCharges

\* A request that fails is charged to nobody, or is one more lost answer.
LEMMA ChargesStay ==
  ASSUME JobData, JobCharges, UNCHANGED scoredFor, NEW n \in Nat, n = unanswered', Charged' = 0,
         unanswered + Charged <= n
  PROVE  JobCharges'
<1>1. \A c, d \in Candidate : ScoresOf(c, d)' = ScoresOf(c, d) /\ ScoresOf(c, d) \in Nat
  BY DEF ScoresOf, JobData
<1>2. unanswered + Charged \in Nat
  BY DEF JobData, Charged
<1>3. ASSUME NEW c \in Candidate, NEW d \in Candidate PROVE ScoresOf(c, d) <= n
  <2>1. ScoresOf(c, d) <= unanswered + Charged
    BY DEF JobCharges
  <2>2. ScoresOf(c, d) \in Nat
    BY <1>1
  <2>3. QED
    BY <1>2, <2>1, <2>2
<1>4. QED
  BY <1>1, <1>3 DEF JobCharges

\* The invariant of the page of a job description is inductive.
LEMMA JobKeeps == JobInv /\ [JobPageNext]_jobPageVars => JobInv'
<1> SUFFICES ASSUME JobInv, [JobPageNext]_jobPageVars PROVE JobInv'
  OBVIOUS
<1> USE JobPageAssumption DEF JobInv
<1>1. ASSUME NEW c \in Candidate, CandidateChanges(c) PROVE JobInv'
  <2>1. UNCHANGED <<jobPage, offered, selected, asking, askError, question, scoredFor, slips, unanswered>>
    BY <1>1 DEF CandidateChanges
  <2>2. /\ candidates' \in [Candidate -> {"parsing", "complete"}]
        /\ discarded' \subseteq Candidate /\ undone \subseteq undone' /\ undone' \subseteq Candidate
        /\ \A d \in Candidate \ undone' : candidates[d] = "complete" => candidates'[d] = "complete"
    BY <1>1 DEF CandidateChanges, JobData
  <2>3. JobData'
    BY <2>1, <2>2 DEF JobData
  <2>4. JobShows'
    BY <2>1, <2>2 DEF JobShows, JobData, OffersWhatIsParsed
  <2>5. JobCharges'
    BY <2>1 DEF JobCharges, ScoresOf, Charged
  <2>6. QED
    BY <2>3, <2>4, <2>5
<1>2. ASSUME NEW c \in Candidate, SelectResume(c) PROVE JobInv'
  <2>1. /\ UNCHANGED <<candidates, discarded, undone, jobPage, offered, asking, askError, question, scoredFor, slips, unanswered>>
        /\ jobPage = "shown" /\ c \in offered /\ selected' = c
    BY <1>2 DEF SelectResume, RunScoreOffers, versionVars
  <2>2. JobData' /\ JobCharges'
    BY <2>1 DEF JobData, JobCharges, ScoresOf, Charged
  <2>3. JobShows'
    BY <2>1 DEF JobShows, JobData, OffersWhatIsParsed
  <2>4. QED
    BY <2>2, <2>3
<1>3. CASE LoadJob
  <2>1. /\ UNCHANGED <<candidates, discarded, undone, asking, askError, question, scoredFor, unanswered>>
        /\ slips' \in 0 .. MaxSlips /\ slips <= slips'
        /\ jobPage \in {"loading", "read"} /\ jobPage' \in {"read", "shown", "failed"}
        /\ offered' \subseteq Candidate
    BY <1>3 DEF LoadJob, IsFirstPage, Slip, JobData, versionVars
  <2>2. question.at = "none" /\ selected = "none"
    BY <2>1 DEF JobShows
  <2>3. /\ selected' \in Candidate \cup {"none"}
        /\ selected' = "none" <=> offered' = {} \/ jobPage' \in {"read", "failed"}
        /\ selected' # "none" => selected' \in offered'
    <3>1. CASE jobPage' = "shown"
      <4>1. offered' = offered /\ selected' \in IF offered = {} THEN {"none"} ELSE offered
        BY <1>3, <3>1 DEF LoadJob
      <4>2. QED
        BY <3>1, <4>1 DEF JobData
    <3>2. CASE jobPage' \in {"read", "failed"}
      BY <1>3, <2>2, <3>2 DEF LoadJob
    <3>3. QED
      BY <2>1, <3>1, <3>2
  <2>4. \A c \in offered' \ undone : candidates[c] = "complete"
    BY <1>3 DEF LoadJob, JobShows, OffersWhatIsParsed
  <2>5. JobData'
    BY <2>1, <2>3 DEF JobData
  <2>6. JobShows'
    BY <2>1, <2>2, <2>3, <2>4 DEF JobShows, OffersWhatIsParsed
  <2>7. JobCharges'
    <3>1. Charged = 0 /\ Charged' = 0
      BY <2>1, <2>2 DEF Charged
    <3>2. QED
      BY <2>1, <3>1 DEF JobCharges, ScoresOf
  <2>8. QED
    BY <2>5, <2>6, <2>7
<1>4. CASE HandleRunScore
  <2>1. /\ UNCHANGED <<candidates, discarded, undone, jobPage, offered, selected, scoredFor, slips, unanswered>>
        /\ jobPage = "shown" /\ ~asking /\ selected # "none"
        /\ asking' = TRUE /\ askError' = FALSE /\ question' = [at |-> "sent", resume |-> selected]
    BY <1>4 DEF HandleRunScore, RunScoreOffers, versionVars
  <2>2. question.at = "none"
    BY <2>1 DEF JobShows
  <2>3. question'.at = "sent" /\ question'.resume = selected
    BY <2>1
  <2>4. JobData'
    BY <2>1 DEF JobData
  <2>5. JobShows'
    BY <2>1, <2>2, <2>3 DEF JobShows, JobData, OffersWhatIsParsed
  <2>6. Charged' = Charged
    BY <2>1, <2>2, <2>3 DEF Charged
  <2>7. JobCharges'
    BY <2>1, <2>6 DEF JobCharges, ScoresOf
  <2>8. QED
    BY <2>4, <2>5, <2>7
<1>5. CASE ServeRunScore
  <2>1. /\ UNCHANGED <<candidates, discarded, undone, jobPage, offered, selected, asking, askError, slips, unanswered>>
        /\ question.at = "sent"
    BY <1>5 DEF ServeRunScore, versionVars
  <2>2. PICK r \in Candidate : r = question.resume /\ r \in offered
    BY <2>1 DEF JobShows, JobData
  <2>3. jobPage = "shown"
    BY <2>1 DEF JobShows
  <2>4. CASE candidates[r] = "parsing"
    <3>1. question' = [question EXCEPT !.at = "refused"] /\ UNCHANGED scoredFor
      BY <1>5, <2>2, <2>4 DEF ServeRunScore
    <3>2. question' \in [at : {"refused"}, resume : {r}]
      BY <2>2, <3>1 DEF JobData
    <3>3. question'.at = "refused" /\ question'.resume = r
      BY <3>2
    <3>4. r \in undone
      BY <2>2, <2>4 DEF JobShows, OffersWhatIsParsed
    <3>5. JobData'
      BY <2>1, <2>2, <3>1, <3>2 DEF JobData
    <3>6. JobShows'
      BY <2>1, <2>2, <2>3, <3>3, <3>4 DEF JobShows, OffersWhatIsParsed
    <3>7. Charged' = Charged
      BY <2>1, <3>3 DEF Charged
    <3>8. JobCharges'
      BY <2>1, <3>1, <3>7 DEF JobCharges, ScoresOf
    <3>9. QED
      BY <3>5, <3>6, <3>8
  <2>5. CASE candidates[r] # "parsing"
    <3>1. question' = [question EXCEPT !.at = "done"] /\ scoredFor' = [scoredFor EXCEPT ![r] = @ + 1]
      BY <1>5, <2>2, <2>5 DEF ServeRunScore
    <3>2. question' \in [at : {"done"}, resume : {r}]
      BY <2>2, <3>1 DEF JobData
    <3>3. question'.at = "done" /\ question'.resume = r
      BY <3>2
    <3>4. scoredFor' \in [Candidate -> Nat] /\ scoredFor'[r] = scoredFor[r] + 1
          /\ \A c \in Candidate \ {r} : scoredFor'[c] = scoredFor[c]
      BY <3>1 DEF JobData
    <3>5. JobData'
      BY <2>1, <2>2, <3>2, <3>4 DEF JobData
    <3>6. JobShows'
      BY <2>1, <2>2, <2>3, <3>3 DEF JobShows, OffersWhatIsParsed
    <3>7. Charged = 0 /\ Charged' = 1
      BY <2>1, <2>3, <3>3 DEF Charged
    <3>8. ASSUME NEW c \in Candidate, NEW d \in Candidate PROVE ScoresOf(c, d)' <= unanswered + 1
      <4>1. ScoresOf(c, d) <= unanswered
        BY <3>7 DEF JobCharges, JobData
      <4>2. ScoresOf(c, d)' <= ScoresOf(c, d) + 1
        BY <3>4 DEF ScoresOf, JobData
      <4>3. ScoresOf(c, d) \in Nat /\ ScoresOf(c, d)' \in Nat /\ unanswered \in Nat
        BY <3>4 DEF ScoresOf, JobData
      <4>4. QED
        BY <4>1, <4>2, <4>3
    <3>9. JobCharges'
      BY <2>1, <3>7, <3>8 DEF JobCharges
    <3>10. QED
      BY <3>5, <3>6, <3>9
  <2>6. QED
    BY <2>4, <2>5
<1>6. CASE RunScoreArrives
  <2>1. /\ UNCHANGED <<candidates, discarded, undone, offered, selected, asking, askError, scoredFor, slips, unanswered>>
        /\ question.at = "done" /\ jobPage' = "left" /\ question' = NoQuestion
    BY <1>6 DEF RunScoreArrives, versionVars
  <2>2. jobPage = "shown" /\ question'.at = "none"
    BY <2>1 DEF JobShows, NoQuestion
  <2>3. JobData'
    BY <2>1 DEF JobData, NoQuestion
  <2>4. JobShows'
    BY <2>1, <2>2 DEF JobShows, OffersWhatIsParsed
  <2>5. Charged' = Charged
    BY <2>1 DEF Charged
  <2>6. JobCharges'
    BY <2>1, <2>5 DEF JobCharges, ScoresOf
  <2>7. QED
    BY <2>3, <2>4, <2>6
<1>7. CASE RunScoreFails
  <2>1. /\ UNCHANGED <<candidates, discarded, undone, jobPage, offered, selected, scoredFor>>
        /\ question.at # "none" /\ asking' = FALSE /\ askError' = TRUE /\ question' = NoQuestion
    BY <1>7 DEF RunScoreFails, versionVars
  <2>2. jobPage = "shown" /\ question'.at = "none"
    BY <2>1 DEF JobShows, NoQuestion
  <2>3. /\ slips' \in 0 .. MaxSlips /\ unanswered' \in 0 .. MaxSlips /\ unanswered' <= slips'
        /\ unanswered' = IF question.at = "done" THEN unanswered + 1 ELSE unanswered
    <3>1. CASE question.at = "refused" /\ UNCHANGED <<slips, unanswered>>
      BY <3>1 DEF JobData
    <3>2. CASE /\ slips < MaxSlips /\ slips' = slips + 1
               /\ unanswered' = IF question.at = "done" THEN unanswered + 1 ELSE unanswered
      BY <3>2 DEF JobData
    <3>3. QED
      BY <1>7, <3>1, <3>2 DEF RunScoreFails, Slip
  <2>4. JobData'
    BY <2>1, <2>3 DEF JobData, NoQuestion
  <2>5. JobShows'
    BY <2>1, <2>2 DEF JobShows, OffersWhatIsParsed
  <2>6. Charged' = 0 /\ unanswered' \in Nat /\ unanswered + Charged <= unanswered'
    BY <2>1, <2>2, <2>3 DEF Charged, JobData
  <2>7. JobCharges'
    BY <2>1, <2>6, ChargesStay
  <2>8. QED
    BY <2>4, <2>5, <2>7
<1>8. CASE UNCHANGED jobPageVars
  BY <1>8 DEF jobPageVars, versionVars, JobData, JobShows, OffersWhatIsParsed, JobCharges, ScoresOf, Charged
<1>9. QED
  BY <1>1, <1>2, <1>3, <1>4, <1>5, <1>6, <1>7, <1>8 DEF JobPageNext

\* The page of a job description starts with nothing asked and nothing charged.
LEMMA JobStarts == JobPageInit => JobInv
<1> SUFFICES ASSUME JobPageInit PROVE JobInv
  OBVIOUS
<1> USE JobPageAssumption DEF JobPageInit
<1>1. question.at = "none"
  BY DEF NoQuestion
<1>2. 0 \in 0 .. MaxSlips
  OBVIOUS
<1>3. JobData
  <2>1. /\ candidates \in [Candidate -> {"parsing", "complete"}]
        /\ discarded \subseteq Candidate /\ undone \subseteq Candidate
    OBVIOUS
  <2>2. question \in [at : {"none", "sent", "done", "refused"}, resume : Candidate \cup {"none"}]
    BY DEF NoQuestion
  <2>3. scoredFor \in [Candidate -> Nat]
    OBVIOUS
  <2>4. unanswered <= slips /\ offered \subseteq Candidate
    OBVIOUS
  <2>5. slips \in 0 .. MaxSlips /\ unanswered \in 0 .. MaxSlips
    BY <1>2
  <2>6. QED
    BY <2>1, <2>2, <2>3, <2>4, <2>5 DEF JobData
<1>4. JobShows
  BY <1>1 DEF JobShows, OffersWhatIsParsed
<1>5. JobCharges
  BY <1>1 DEF JobCharges, ScoresOf, Charged
<1>6. QED
  BY <1>3, <1>4, <1>5 DEF JobInv

\* The state of the page of a job description keeps its type; the bound of scoredFor is
\* that of the lost answers.
THEOREM JobPageTypeCorrect == JobPageSpec => []JobPageTypeOK
<1>1. JobInv => JobPageTypeOK
  <2> SUFFICES ASSUME JobInv PROVE JobPageTypeOK
    OBVIOUS
  <2>1. \A c \in Candidate : scoredFor[c] \in 0 .. MaxSlips + 1
    <3>1. ASSUME NEW c \in Candidate PROVE scoredFor[c] \in 0 .. MaxSlips + 1
      <4>1. ScoresOf(c, c) <= unanswered + Charged /\ ScoresOf(c, c) = scoredFor[c] /\ scoredFor[c] \in Nat
        BY DEF JobInv, JobCharges, ScoresOf, JobData
      <4>2. unanswered \in 0 .. MaxSlips /\ Charged \in {0, 1}
        BY DEF JobInv, JobData, Charged
      <4>3. QED
        BY <4>1, <4>2, JobPageAssumption
    <3>2. QED
      BY <3>1
  <2>2. scoredFor \in [Candidate -> 0 .. MaxSlips + 1]
    BY <2>1 DEF JobInv, JobData
  <2>3. QED
    BY <2>2 DEF JobInv, JobData, JobShows, JobPageTypeOK
<1>2. QED
  BY JobStarts, JobKeeps, <1>1, PTL DEF JobPageSpec

(***************************************************************************)
(* jobs/[id]/page.tsx: however many resumes there are, however many the    *)
(* API lists, and whatever fails, a visit is charged once besides what was *)
(* charged for lost answers, and what is offered is parsed, unless the     *)
(* worker took it up again.                                                *)
(***************************************************************************)
THEOREM JobPageStays == JobPageSpec => []JobPageAgrees
<1>1. JobInv => JobPageAgrees
  <2> SUFFICES ASSUME JobInv PROVE JobPageAgrees
    OBVIOUS
  <2>1. ASSUME NEW c \in Candidate, NEW d \in Candidate PROVE ScoresOf(c, d) <= 1 + unanswered
    <3>1. ScoresOf(c, d) <= unanswered + Charged /\ ScoresOf(c, d) \in Nat /\ unanswered \in Nat
      BY DEF JobInv, JobCharges, JobData, ScoresOf
    <3>2. Charged \in {0, 1}
      BY DEF Charged
    <3>3. QED
      BY <3>1, <3>2
  <2>2. OneScoreAVisit
    BY <2>1 DEF OneScoreAVisit, ScoresOf
  <2>3. QED
    BY <2>2 DEF JobInv, JobShows, JobPageAgrees
<1>2. QED
  BY JobStarts, JobKeeps, <1>1, PTL DEF JobPageSpec

-------------------------------------------------------------------------------
(* SignInTab: signing in.                                                    *)

TabPages == AuthOnly \cup {"reset", "mfa", "verifyEmail", "dashboard", "bridge", "done", "missing", "closed"}
TabRecord == {t \in [at : TabPages, cb : Callback] : t.cb = "none" \/ t.at \in {"signIn", "bridge"}}
RequestRecord == [at : {"none", "sent", "timer"}, to : Callback, here : BOOLEAN]

WorldOK ==
  /\ cookieIsSeen \in BOOLEAN /\ cookie \in BOOLEAN /\ live \in BOOLEAN
  /\ live => cookie
  /\ account \in {"none", "unverified", "plain", "twoFactor"}
  /\ known \in {"pending", "none", "some"}
  /\ opener \in {"user", "extension"} /\ strayed \in BOOLEAN /\ drops \in 0 .. MaxDrops
FormsOK ==
  /\ request \in [AuthCall -> RequestRecord]
  /\ loading \in BOOLEAN /\ settled \in BOOLEAN /\ oauthLoading \in BOOLEAN
  /\ pageState \in {"checking", "exchanging", "success", "error"}

(***************************************************************************)
(* A tab of the extension shows the sign-in page with the callback it was  *)
(* opened with, and has called for nothing that leads elsewhere.           *)
(***************************************************************************)
WayKept ==
  opener = "extension" /\ ~strayed =>
    /\ tab.at \in {"signIn", "done", "closed"} /\ (tab.at = "signIn" => tab.cb = "done")
    /\ \A c \in AuthCall :
         request[c].at # "none" => c \in {"signIn", "oauth"} /\ request[c].to = "done"

SignInInv == WorldOK /\ FormsOK /\ tab \in TabRecord /\ WayKept /\ SpinnerMeansWaiting

\* The calls, and the pages that make them.
LEMMA Calls ==
  /\ DOMAIN FormPage = {"signIn", "signUp", "code", "resend", "forgot", "reset"}
  /\ AuthCall = {"signIn", "signUp", "code", "resend", "forgot", "reset", "oauth", "signOut"}
  /\ FormPage["signIn"] = "signIn" /\ FormPage["signUp"] = "signUp" /\ FormPage["code"] = "mfa"
  /\ FormPage["resend"] = "verifyEmail" /\ FormPage["forgot"] = "forgot" /\ FormPage["reset"] = "reset"
BY DEF FormPage, AuthCall

\* Where the middleware and the sign-in page send a tab.
LEMMA Ways ==
  /\ \A page \in TabPages, cb \in Callback :
       cb = "none" \/ page \in {"signIn", "bridge"} => Through(page, cb) \in TabRecord
  /\ \A page \in TabPages \ AuthOnly, cb \in Callback : Through(page, cb).at = page
  /\ Through("signIn", "done").at \in {"signIn", "done"}
  /\ Through("signIn", "done").at = "signIn" => Through("signIn", "done").cb = "done"
  /\ \A cb \in Callback : Homeward(cb) \in TabRecord
  /\ Homeward("done").at = "done" /\ NoTab \in TabRecord /\ NoTab.at = "closed"
<1>1. ASSUME NEW page \in TabPages, NEW cb \in Callback
      PROVE  /\ cb = "none" \/ page \in {"signIn", "bridge"} => Through(page, cb) \in TabRecord
             /\ page \notin AuthOnly => Through(page, cb).at = page
             /\ Through(page, cb) = [at |-> page, cb |-> cb] \/ page \in AuthOnly
  <2>1. CASE page \in AuthOnly /\ cookieIsSeen /\ cookie
    <3>1. PICK at \in {"dashboard", "done", "missing"} : Through(page, cb) = [at |-> at, cb |-> "none"]
      BY <2>1 DEF Through
    <3>2. QED
      BY <2>1, <3>1 DEF TabRecord, TabPages, Callback
  <2>2. CASE ~(page \in AuthOnly /\ cookieIsSeen /\ cookie)
    <3>1. Through(page, cb) = [at |-> page, cb |-> cb]
      BY <2>2 DEF Through
    <3>2. QED
      BY <3>1 DEF TabRecord
  <2>3. QED
    BY <2>1, <2>2
<1>2. /\ Through("signIn", "done").at \in {"signIn", "done"}
      /\ Through("signIn", "done").at = "signIn" => Through("signIn", "done").cb = "done"
  BY DEF Through
<1>3. \A cb \in Callback : Homeward(cb) \in TabRecord
  BY DEF Homeward, TabRecord, TabPages, Callback
<1>4. Homeward("done").at = "done" /\ NoTab \in TabRecord /\ NoTab.at = "closed"
  BY DEF Homeward, NoTab, TabRecord, TabPages, Callback
<1>5. QED
  BY <1>1, <1>2, <1>3, <1>4

\* Another page, or another document.
LEMMA MovesKeep ==
  ASSUME SignInInv, WorldOK', NEW t \in TabRecord, NEW calls \in [AuthCall -> RequestRecord],
         \A c \in AuthCall : calls[c].at # "none" =>
           request[c].at # "none" /\ calls[c].to = request[c].to,
         LoadTab(t) \/ (Visit(t, calls) /\ (strayed' \/ (UNCHANGED <<opener, strayed>>))),
         opener' = "extension" /\ ~strayed' =>
           t.at \in {"signIn", "done", "closed"} /\ (t.at = "signIn" => t.cb = "done")
  PROVE  SignInInv'
<1>1. tab' = t /\ loading' = FALSE /\ settled' = FALSE /\ oauthLoading' = FALSE /\ pageState' = "checking"
  BY DEF LoadTab, Visit
<1>2. SpinnerMeansWaiting'
  BY <1>1 DEF SpinnerMeansWaiting
<1>3. CASE LoadTab(t)
  <2>1. request' = [c \in AuthCall |-> NoRequest]
    BY <1>3 DEF LoadTab
  <2>2. NoRequest \in RequestRecord /\ NoRequest.at = "none"
    BY DEF NoRequest, RequestRecord, Callback
  <2>3. request' \in [AuthCall -> RequestRecord] /\ \A c \in AuthCall : request'[c].at = "none"
    BY <2>1, <2>2
  <2>4. QED
    BY <1>1, <1>2, <2>3 DEF SignInInv, FormsOK, WayKept
<1>4. CASE Visit(t, calls) /\ (strayed' \/ (UNCHANGED <<opener, strayed>>))
  <2>1. request' = [c \in AuthCall |-> [calls[c] EXCEPT !.here = FALSE]]
    BY <1>4 DEF Visit
  <2>2. \A c \in AuthCall : /\ [calls[c] EXCEPT !.here = FALSE] \in RequestRecord
                            /\ [calls[c] EXCEPT !.here = FALSE].at = calls[c].at
                            /\ [calls[c] EXCEPT !.here = FALSE].to = calls[c].to
    BY DEF RequestRecord
  <2>3. /\ request' \in [AuthCall -> RequestRecord]
        /\ \A c \in AuthCall : request'[c].at = calls[c].at /\ request'[c].to = calls[c].to
    BY <2>1, <2>2
  <2>4. WayKept'
    BY <1>1, <1>4, <2>3 DEF WayKept, SignInInv
  <2>5. QED
    BY <1>1, <1>2, <2>3, <2>4 DEF SignInInv, FormsOK
<1>5. QED
  BY <1>3, <1>4

\* What a call that is over leaves.
LEMMA WithoutCall ==
  ASSUME FormsOK, NEW c \in AuthCall
  PROVE  /\ Without(c) \in [AuthCall -> RequestRecord]
         /\ Without(c)[c] = NoRequest /\ NoRequest.at = "none"
         /\ \A d \in AuthCall \ {c} : Without(c)[d] = request[d]
         /\ \A d \in AuthCall : Without(c)[d].at # "none" =>
              d # c /\ request[d].at # "none" /\ Without(c)[d].to = request[d].to
         /\ request \in [AuthCall -> RequestRecord]
<1>1. NoRequest \in RequestRecord /\ NoRequest.at = "none"
  BY DEF NoRequest, RequestRecord, Callback
<1>2. QED
  BY <1>1 DEF FormsOK, Without

\* The steps that move the tab.
LEMMA TabMoves ==
  ASSUME SignInInv,
         \/ HandleSignIn \/ OpenTab \/ ReloadTab \/ StartOver \/ TabCloses \/ SignInEffect
         \/ \E page \in AuthOnly : FollowLink(page)
  PROVE  SignInInv'
<1> USE DEF world, fate
<1>1. request \in [AuthCall -> RequestRecord]
  BY DEF SignInInv, FormsOK
<1>2. CASE HandleSignIn
  <2>1. WorldOK' /\ LoadTab(Through("signIn", "done"))
    BY <1>2 DEF HandleSignIn, SignInInv, WorldOK, LoadTab
  <2>2. Through("signIn", "done") \in TabRecord
    BY Ways DEF TabPages, AuthOnly, Callback
  <2>3. QED
    BY <1>1, <2>1, <2>2, Ways, MovesKeep
<1>3. CASE OpenTab
  <2>1. opener' = "user" /\ strayed' = FALSE
    BY <1>3 DEF OpenTab
  <2>2. \E t \in TabRecord : LoadTab(t)
    <3>1. ASSUME NEW page \in {"signIn", "signUp", "dashboard", "reset"}, LoadTab(Through(page, "none"))
          PROVE  \E t \in TabRecord : LoadTab(t)
      <4>1. Through(page, "none") \in TabRecord
        BY Ways DEF TabPages, AuthOnly, Callback
      <4>2. QED
        BY <3>1, <4>1
    <3>2. ASSUME NEW cb \in {"bridge", "malformed"}, LoadTab([at |-> "bridge", cb |-> cb])
          PROVE  \E t \in TabRecord : LoadTab(t)
      <4>1. [at |-> "bridge", cb |-> cb] \in TabRecord
        BY DEF TabRecord, TabPages, Callback
      <4>2. QED
        BY <3>2, <4>1
    <3>3. QED
      BY <1>3, <3>1, <3>2 DEF OpenTab
  <2>3. PICK t \in TabRecord : LoadTab(t)
    BY <2>2
  <2>4. WorldOK'
    BY <1>3, <2>1, <2>3 DEF OpenTab, SignInInv, WorldOK, LoadTab
  <2>5. QED
    BY <1>1, <2>1, <2>3, <2>4, MovesKeep
<1>4. CASE ReloadTab
  <2>1. UNCHANGED <<opener, strayed>> /\ (LoadTab(Through(tab.at, tab.cb)) \/ LoadTab(NoTab))
    BY <1>4 DEF ReloadTab
  <2>2. WorldOK'
    BY <1>4, <2>1 DEF ReloadTab, SignInInv, WorldOK, LoadTab
  <2>3. /\ tab.at \in TabPages /\ tab.cb \in Callback
        /\ tab.cb = "none" \/ tab.at \in {"signIn", "bridge"}
    BY DEF SignInInv, TabRecord
  <2>4. PICK t : t = Through(tab.at, tab.cb)
    OBVIOUS
  <2>5. t \in TabRecord
    BY <2>3, <2>4, Ways
  <2>6. opener = "extension" /\ ~strayed =>
          t.at \in {"signIn", "done", "closed"} /\ (t.at = "signIn" => t.cb = "done")
    <3>1. SUFFICES ASSUME tab.at \in {"signIn", "done", "closed"}, tab.at = "signIn" => tab.cb = "done"
                   PROVE  t.at \in {"signIn", "done", "closed"} /\ (t.at = "signIn" => t.cb = "done")
      BY DEF SignInInv, WayKept
    <3>2. CASE tab.at = "signIn"
      BY <2>4, <3>1, <3>2, Ways
    <3>3. CASE tab.at # "signIn"
      <4>1. t.at = tab.at
        BY <2>3, <2>4, <3>1, <3>3, Ways DEF AuthOnly
      <4>2. QED
        BY <3>1, <3>3, <4>1
    <3>4. QED
      BY <3>2, <3>3
  <2>7. CASE LoadTab(NoTab)
    BY <1>1, <2>1, <2>2, <2>7, Ways, MovesKeep
  <2>8. CASE LoadTab(Through(tab.at, tab.cb))
    <3>1. LoadTab(t)
      BY <2>4, <2>8
    <3>2. QED
      BY <1>1, <2>1, <2>2, <2>5, <2>6, <3>1, MovesKeep
  <2>9. QED
    BY <2>1, <2>7, <2>8
<1>5. CASE StartOver
  <2>1. /\ LoadTab(Through("signUp", "none")) /\ UNCHANGED <<opener, strayed>>
        /\ tab.at = "verifyEmail"
    BY <1>5 DEF StartOver
  <2>2. WorldOK'
    BY <1>5, <2>1 DEF StartOver, SignInInv, WorldOK, LoadTab
  <2>3. Through("signUp", "none") \in TabRecord
    BY Ways DEF TabPages, AuthOnly, Callback
  <2>4. ~(opener' = "extension" /\ ~strayed')
    BY <2>1 DEF SignInInv, WayKept
  <2>5. QED
    BY <1>1, <2>1, <2>2, <2>3, <2>4, MovesKeep
<1>6. CASE TabCloses
  <2>1. LoadTab(NoTab) /\ UNCHANGED <<opener, strayed>>
    BY <1>6 DEF TabCloses
  <2>2. WorldOK'
    BY <1>6, <2>1 DEF TabCloses, SignInInv, WorldOK, LoadTab
  <2>3. QED
    BY <1>1, <2>1, <2>2, Ways, MovesKeep
<1>7. CASE SignInEffect
  <2>1. /\ Visit(Homeward(tab.cb), request) /\ UNCHANGED <<opener, strayed>>
        /\ tab.at = "signIn"
    BY <1>7 DEF SignInEffect
  <2>2. WorldOK'
    BY <1>7 DEF SignInEffect, SignInInv, WorldOK
  <2>3. PICK cb \in Callback : cb = tab.cb
    BY DEF SignInInv, TabRecord
  <2>4. Homeward(cb) \in TabRecord /\ Visit(Homeward(cb), request)
    BY <2>1, <2>3, Ways
  <2>5. opener' = "extension" /\ ~strayed' => cb = "done"
    BY <2>1, <2>3 DEF SignInInv, WayKept
  <2>6. QED
    BY <1>1, <2>1, <2>2, <2>4, <2>5, Ways, MovesKeep
<1>8. ASSUME NEW page \in AuthOnly, FollowLink(page) PROVE SignInInv'
  <2>1. Visit(Through(page, "none"), request) /\ strayed' = TRUE
    BY <1>8 DEF FollowLink
  <2>2. WorldOK'
    BY <1>8 DEF FollowLink, SignInInv, WorldOK
  <2>3. Through(page, "none") \in TabRecord
    BY Ways DEF TabPages, Callback
  <2>4. QED
    BY <1>1, <2>1, <2>2, <2>3, MovesKeep
<1>9. QED
  BY <1>2, <1>3, <1>4, <1>5, <1>6, <1>7, <1>8

\* What happens to the session and the account, and on the bridge.
LEMMA SessionKeeps ==
  ASSUME SignInInv,
         SessionAnswers \/ BridgeEffect \/ RunBridge \/ HandleRetry \/ SessionEnds \/ EmailVerified
  PROVE  SignInInv'
<1> USE SignInTabAssumption DEF world, fate
<1>1. request \in [AuthCall -> RequestRecord] /\ FormsOK /\ WorldOK
  BY DEF SignInInv, FormsOK
<1>2. ASSUME WorldOK', UNCHANGED <<opener, strayed, tab, request, loading, settled, oauthLoading>>,
             drops' = 0 => drops = 0, pageState' \in {"checking", "exchanging", "success", "error"}
      PROVE  SignInInv'
  BY <1>1, <1>2 DEF SignInInv, FormsOK, WayKept, SpinnerMeansWaiting, Sent
<1>3. CASE SessionAnswers
  <2>1. /\ UNCHANGED <<cookieIsSeen, account, live, tab, request, loading, settled, oauthLoading,
                       pageState, opener, strayed>>
        /\ known' \in {"none", "some"} /\ drops' \in 0 .. MaxDrops /\ (drops' = 0 => drops = 0)
    BY <1>1, <1>3 DEF SessionAnswers, WorldOK
  <2>2. cookie' \in {cookie, cookie /\ live} \/ cookie' = cookie
    BY <1>3, Zenon DEF SessionAnswers
  <2>3. cookie' \in BOOLEAN /\ (live => cookie')
    <3>1. cookie \in BOOLEAN /\ live \in BOOLEAN /\ (live => cookie)
      BY <1>1 DEF WorldOK
    <3>2. CASE cookie' = cookie
      BY <3>1, <3>2
    <3>3. CASE cookie' = (cookie /\ live)
      BY <3>1, <3>3, Zenon
    <3>4. QED
      BY <2>2, <3>2, <3>3
  <2>4. WorldOK'
    BY <1>1, <2>1, <2>3 DEF WorldOK
  <2>5. QED
    BY <1>1, <1>2, <2>1, <2>4 DEF FormsOK
<1>4. CASE BridgeEffect
  <2>1. WorldOK' /\ tab.at = "bridge" /\ UNCHANGED <<opener, strayed, drops>>
    BY <1>1, <1>4 DEF BridgeEffect, WorldOK
  <2>2. CASE known = "none"
    <3>1. PICK cb \in Callback : cb = tab.cb
      BY DEF SignInInv, TabRecord
    <3>2. Visit(Through("signIn", cb), request)
      BY <1>4, <2>2, <3>1 DEF BridgeEffect
    <3>3. Through("signIn", cb) \in TabRecord
      BY Ways DEF TabPages, AuthOnly
    <3>4. ~(opener' = "extension" /\ ~strayed')
      BY <2>1 DEF SignInInv, WayKept
    <3>5. QED
      BY <1>1, <2>1, <3>2, <3>3, <3>4, MovesKeep
  <2>3. CASE known # "none"
    BY <1>2, <1>4, <2>1, <2>3 DEF BridgeEffect
  <2>4. QED
    BY <2>2, <2>3
<1>5. CASE RunBridge
  <2>1. /\ UNCHANGED <<cookieIsSeen, account, cookie, live, tab, known, request, loading, settled,
                       oauthLoading, opener, strayed>>
        /\ pageState' \in {"success", "error"} /\ drops' \in 0 .. MaxDrops /\ (drops' = 0 => drops = 0)
    BY <1>1, <1>5 DEF RunBridge, WorldOK
  <2>2. WorldOK'
    BY <1>1, <2>1 DEF WorldOK
  <2>3. QED
    BY <1>2, <2>1, <2>2
<1>6. CASE HandleRetry
  <2>1. WorldOK'
    BY <1>1, <1>6 DEF HandleRetry, WorldOK
  <2>2. QED
    BY <1>2, <1>6, <2>1 DEF HandleRetry
<1>7. CASE SessionEnds
  <2>1. WorldOK'
    BY <1>1, <1>7 DEF SessionEnds, WorldOK
  <2>2. QED
    BY <1>1, <1>2, <1>7, <2>1 DEF SessionEnds, FormsOK
<1>8. CASE EmailVerified
  <2>1. WorldOK'
    BY <1>1, <1>8 DEF EmailVerified, WorldOK
  <2>2. QED
    BY <1>1, <1>2, <1>8, <2>1 DEF EmailVerified, FormsOK
<1>9. QED
  BY <1>3, <1>4, <1>5, <1>6, <1>7, <1>8

\* A call is made.
LEMMA BeginSteps ==
  ASSUME FormsOK, NEW c \in AuthCall, NEW to \in Callback, Begin(c, to)
  PROVE  /\ request' \in [AuthCall -> RequestRecord]
         /\ request'[c].at = "sent" /\ request'[c].to = to /\ request'[c].here = TRUE
         /\ request[c] = NoRequest
         /\ \A d \in AuthCall \ {c} : request'[d] = request[d]
<1>1. PICK r : r = [at |-> "sent", to |-> to, here |-> TRUE]
  OBVIOUS
<1>2. r \in RequestRecord /\ r.at = "sent" /\ r.to = to /\ r.here = TRUE
  BY <1>1 DEF RequestRecord
<1>3. request' = [request EXCEPT ![c] = r] /\ request[c] = NoRequest
  BY <1>1 DEF Begin
<1>4. QED
  BY <1>2, <1>3 DEF FormsOK

\* A form is sent, a provider is chosen, or the user signs out.
LEMMA SubmitsKeep ==
  ASSUME SignInInv, HandleOAuth \/ HandleSignOut \/ \E c \in AuthCall : SubmitForm(c)
  PROVE  SignInInv'
<1> USE SignInTabAssumption DEF world, fate
<1>1. FormsOK /\ WorldOK /\ tab.cb \in Callback /\ "none" \in Callback
  BY DEF SignInInv, TabRecord, Callback
<1>2. NoRequest.at = "none"
  BY DEF NoRequest
<1>3. ASSUME NEW c \in AuthCall, SubmitForm(c) PROVE SignInInv'
  <2>1. /\ c \in DOMAIN FormPage /\ tab.at = FormPage[c] /\ loading' = TRUE
        /\ UNCHANGED <<cookieIsSeen, account, cookie, live, tab, known, settled, oauthLoading,
                       pageState, opener, strayed, drops>>
    BY <1>3 DEF SubmitForm
  <2>2. PICK to \in Callback : to = (IF c = "signIn" THEN tab.cb ELSE "none") /\ Begin(c, to)
    BY <1>1, <1>3 DEF SubmitForm
  <2>3. /\ request' \in [AuthCall -> RequestRecord]
        /\ request'[c].at = "sent" /\ request'[c].to = to /\ request'[c].here = TRUE
        /\ request[c] = NoRequest
        /\ \A d \in AuthCall \ {c} : request'[d] = request[d]
    BY <1>1, <2>2, BeginSteps
  <2>4. WayKept'
    <3>1. SUFFICES ASSUME opener = "extension", ~strayed
                   PROVE  /\ tab.at \in {"signIn", "done", "closed"} /\ (tab.at = "signIn" => tab.cb = "done")
                          /\ \A d \in AuthCall :
                               request'[d].at # "none" => d \in {"signIn", "oauth"} /\ request'[d].to = "done"
      BY <2>1 DEF WayKept
    <3>2. /\ tab.at \in {"signIn", "done", "closed"} /\ (tab.at = "signIn" => tab.cb = "done")
          /\ \A d \in AuthCall :
               request[d].at # "none" => d \in {"signIn", "oauth"} /\ request[d].to = "done"
      BY <3>1 DEF SignInInv, WayKept
    <3>3. c = "signIn" /\ to = "done"
      BY <2>1, <2>2, <3>2, Calls
    <3>4. QED
      BY <2>3, <3>2, <3>3
  <2>5. SpinnerMeansWaiting'
    <3>1. "oauth" \in AuthCall \ {c}
      BY <2>1, Calls
    <3>2. drops = 0 /\ oauthLoading => Sent("oauth") /\ request["oauth"].here
      BY DEF SignInInv, SpinnerMeansWaiting
    <3>3. QED
      BY <2>1, <2>3, <3>1, <3>2 DEF SpinnerMeansWaiting, Sent
  <2>6. WorldOK' /\ FormsOK'
    BY <1>1, <2>1, <2>3 DEF WorldOK, FormsOK
  <2>7. QED
    BY <2>1, <2>4, <2>5, <2>6 DEF SignInInv
<1>4. ASSUME NEW c \in {"oauth", "signOut"}, NEW to \in Callback, Begin(c, to),
             UNCHANGED <<cookieIsSeen, account, cookie, live, tab, known, loading, settled,
                         pageState, opener, strayed, drops>>,
             c = "oauth" => oauthLoading' = TRUE, c = "signOut" => UNCHANGED oauthLoading,
             opener = "extension" /\ ~strayed => c = "oauth" /\ to = "done"
      PROVE  SignInInv'
  <2>1. c \in AuthCall
    BY Calls
  <2>2. /\ request' \in [AuthCall -> RequestRecord]
        /\ request'[c].at = "sent" /\ request'[c].to = to /\ request'[c].here = TRUE
        /\ request[c] = NoRequest
        /\ \A d \in AuthCall \ {c} : request'[d] = request[d]
    BY <1>1, <1>4, <2>1, BeginSteps
  <2>3. WayKept'
    BY <1>4, <2>2 DEF SignInInv, WayKept
  <2>4. SpinnerMeansWaiting'
    <3>1. DOMAIN FormPage \subseteq AuthCall \ {c} /\ "oauth" \in AuthCall
      BY Calls
    <3>2. SpinnerMeansWaiting
      BY DEF SignInInv
    <3>3. drops = 0 /\ loading => \E d \in DOMAIN FormPage : Sent(d) /\ request[d].here
      BY <3>2 DEF SpinnerMeansWaiting
    <3>4. drops = 0 /\ loading => \E d \in DOMAIN FormPage : request'[d].at = "sent" /\ request'[d].here
      BY <2>2, <3>1, <3>3 DEF Sent
    <3>5. drops = 0 /\ oauthLoading' => request'["oauth"].at = "sent" /\ request'["oauth"].here
      BY <1>4, <2>2, <3>1, <3>2 DEF SpinnerMeansWaiting, Sent
    <3>6. QED
      BY <1>4, <3>4, <3>5 DEF SpinnerMeansWaiting, Sent
  <2>5. oauthLoading' \in BOOLEAN
    BY <1>1, <1>4 DEF FormsOK
  <2>6. WorldOK'
    BY <1>1, <1>4 DEF WorldOK
  <2>7. FormsOK'
    BY <1>1, <1>4, <2>2, <2>5 DEF FormsOK
  <2>8. QED
    BY <1>4, <2>3, <2>4, <2>6, <2>7 DEF SignInInv
<1>5. CASE HandleOAuth
  <2>1. PICK to \in Callback : to = (IF tab.at = "signIn" THEN tab.cb ELSE "none") /\ Begin("oauth", to)
    BY <1>1, <1>5 DEF HandleOAuth
  <2>2. opener = "extension" /\ ~strayed => to = "done"
    BY <1>5, <2>1 DEF HandleOAuth, SignInInv, WayKept
  <2>3. QED
    BY <1>4, <1>5, <2>1, <2>2 DEF HandleOAuth
<1>6. CASE HandleSignOut
  <2>1. ~(opener = "extension" /\ ~strayed)
    BY <1>6 DEF HandleSignOut, SignInInv, WayKept
  <2>2. QED
    BY <1>1, <1>4, <1>6, <2>1 DEF HandleSignOut
<1>7. QED
  BY <1>3, <1>5, <1>6

\* An answer that leaves the tab where it is.
LEMMA AnswersKeep ==
  ASSUME SignInInv,
         PasswordReset \/ \E c \in AuthCall : FormRefused(c) \/ Dropped(c) \/ MailSent(c)
  PROVE  SignInInv'
<1> USE SignInTabAssumption DEF world, fate
<1>1. FormsOK /\ WorldOK /\ SpinnerMeansWaiting
  BY DEF SignInInv
<1>2. ASSUME NEW c \in AuthCall, request' \in [AuthCall -> RequestRecord], Sent(c),
             \A d \in AuthCall \ {c} : request'[d] = request[d],
             request'[c].at # "none" => request'[c].to = request[c].to,
             UNCHANGED <<tab, opener, strayed>>, WorldOK',
             loading' \in BOOLEAN, settled' \in BOOLEAN, oauthLoading' \in BOOLEAN, UNCHANGED pageState,
             drops' = 0 => drops = 0,
             loading' => loading, drops' = 0 /\ c \in DOMAIN FormPage /\ loading' => ~request[c].here,
             oauthLoading' => oauthLoading, drops' = 0 /\ c = "oauth" /\ oauthLoading' => ~request[c].here
      PROVE  SignInInv'
  <2>1. WayKept'
    <3>1. request[c].at # "none"
      BY <1>2 DEF Sent
    <3>2. QED
      BY <1>2, <3>1 DEF SignInInv, WayKept
  <2>2. SpinnerMeansWaiting'
    <3>1. DOMAIN FormPage \subseteq AuthCall /\ "oauth" \in AuthCall /\ "oauth" \notin DOMAIN FormPage
      BY Calls
    <3>2. ASSUME drops' = 0, loading' PROVE \E d \in DOMAIN FormPage : request'[d].at = "sent" /\ request'[d].here
      <4>1. PICK d \in DOMAIN FormPage : Sent(d) /\ request[d].here
        BY <1>1, <1>2, <3>2 DEF SpinnerMeansWaiting
      <4>2. d # c
        BY <1>2, <3>2, <4>1
      <4>3. QED
        BY <1>2, <3>1, <4>1, <4>2 DEF Sent
    <3>3. ASSUME drops' = 0, oauthLoading' PROVE request'["oauth"].at = "sent" /\ request'["oauth"].here
      <4>1. Sent("oauth") /\ request["oauth"].here
        BY <1>1, <1>2, <3>3 DEF SpinnerMeansWaiting
      <4>2. c # "oauth"
        BY <1>2, <3>3, <4>1
      <4>3. QED
        BY <1>2, <3>1, <4>1, <4>2 DEF Sent
    <3>4. QED
      BY <3>2, <3>3 DEF SpinnerMeansWaiting, Sent
  <2>3. FormsOK'
    BY <1>1, <1>2 DEF FormsOK
  <2>4. QED
    BY <1>2, <2>1, <2>2, <2>3 DEF SignInInv
<1>3. loading \in BOOLEAN /\ settled \in BOOLEAN /\ oauthLoading \in BOOLEAN
      /\ \A c \in AuthCall : request[c].here \in BOOLEAN
  BY <1>1 DEF FormsOK, RequestRecord
<1>4. ASSUME NEW c \in AuthCall, FormRefused(c) PROVE SignInInv'
  <2>1. /\ Sent(c) /\ c \in DOMAIN FormPage /\ request' = Without(c)
        /\ UNCHANGED <<cookieIsSeen, account, cookie, live, tab, known, settled, oauthLoading, pageState,
                       opener, strayed, drops>>
    BY <1>4 DEF FormRefused
  <2>2. loading' = (loading /\ ~request[c].here)
    BY <1>4, Zenon DEF FormRefused
  <2>3. loading' \in BOOLEAN /\ (loading' => loading /\ ~request[c].here)
    BY <2>2, Zenon
  <2>4. WorldOK'
    BY <1>1, <2>1 DEF WorldOK
  <2>5. c # "oauth"
    BY <2>1, Calls
  <2>6. QED
    BY <1>1, <1>2, <1>3, <2>1, <2>3, <2>4, <2>5, WithoutCall
<1>5. ASSUME NEW c \in AuthCall, Dropped(c) PROVE SignInInv'
  <2>1. /\ Sent(c) /\ request' = Without(c)
        /\ UNCHANGED <<cookieIsSeen, account, cookie, live, tab, known, settled, loading, pageState,
                       opener, strayed>>
    BY <1>5 DEF Dropped
  <2>2. \/ drops < MaxDrops /\ drops' = drops + 1 /\ UNCHANGED oauthLoading
        \/ c = "oauth" /\ oauthLoading' = (oauthLoading /\ ~request[c].here) /\ UNCHANGED drops
    BY <1>5, Zenon DEF Dropped
  <2>3. CASE drops < MaxDrops /\ drops' = drops + 1 /\ UNCHANGED oauthLoading
    <3>1. drops' \in 0 .. MaxDrops /\ drops' # 0
      BY <1>1, <2>3 DEF WorldOK
    <3>2. WorldOK'
      BY <1>1, <2>1, <3>1 DEF WorldOK
    <3>3. QED
      BY <1>1, <1>2, <1>3, <2>1, <2>3, <3>1, <3>2, WithoutCall
  <2>4. CASE c = "oauth" /\ oauthLoading' = (oauthLoading /\ ~request[c].here) /\ UNCHANGED drops
    <3>1. oauthLoading' \in BOOLEAN /\ (oauthLoading' => oauthLoading /\ ~request[c].here)
      BY <2>4, Zenon
    <3>2. WorldOK'
      BY <1>1, <2>1, <2>4 DEF WorldOK
    <3>3. c \notin DOMAIN FormPage
      BY <2>4, Calls
    <3>4. QED
      BY <1>1, <1>2, <1>3, <2>1, <2>4, <3>1, <3>2, <3>3, WithoutCall
  <2>5. QED
    BY <2>2, <2>3, <2>4
<1>6. ASSUME NEW c \in AuthCall, MailSent(c) PROVE SignInInv'
  <2>1. /\ Sent(c) /\ c \in {"resend", "forgot"} /\ request' = Without(c)
        /\ UNCHANGED <<cookieIsSeen, account, cookie, live, tab, known, oauthLoading, pageState,
                       opener, strayed, drops>>
    BY <1>6 DEF MailSent
  <2>2. loading' = (loading /\ ~request[c].here) /\ settled' = (settled \/ request[c].here)
    BY <1>6, Zenon DEF MailSent
  <2>3. loading' \in BOOLEAN /\ settled' \in BOOLEAN /\ (loading' => loading /\ ~request[c].here)
    BY <2>2, Zenon
  <2>4. WorldOK'
    BY <1>1, <2>1 DEF WorldOK
  <2>5. QED
    BY <1>1, <1>2, <1>3, <2>1, <2>3, <2>4, WithoutCall
<1>7. CASE PasswordReset
  <2>1. /\ Sent("reset") /\ request' = [request EXCEPT !["reset"].at = "timer"]
        /\ UNCHANGED <<cookieIsSeen, account, cookie, live, tab, known, oauthLoading, pageState,
                       opener, strayed, drops>>
    BY <1>7 DEF PasswordReset
  <2>2. loading' = (loading /\ ~request["reset"].here) /\ settled' = (settled \/ request["reset"].here)
    BY <1>7, Zenon DEF PasswordReset
  <2>3. loading' \in BOOLEAN /\ settled' \in BOOLEAN /\ (loading' => loading /\ ~request["reset"].here)
    BY <2>2, Zenon
  <2>4. "reset" \in AuthCall
    BY Calls
  <2>5. /\ request' \in [AuthCall -> RequestRecord] /\ request'["reset"].to = request["reset"].to
        /\ \A d \in AuthCall \ {"reset"} : request'[d] = request[d]
    BY <1>1, <2>1, <2>4 DEF FormsOK, RequestRecord
  <2>6. WorldOK'
    BY <1>1, <2>1 DEF WorldOK
  <2>7. QED
    BY <1>2, <1>3, <2>1, <2>3, <2>4, <2>5, <2>6
<1>8. QED
  BY <1>4, <1>5, <1>6, <1>7

\* An answer that moves the tab, whatever page it shows by now.
LEMMA ArrivalsKeep ==
  ASSUME SignInInv,
         SignedIn \/ SignedUp \/ CodeVerified \/ ResetTimer \/ OAuthReturns \/ SignedOut
  PROVE  SignInInv'
<1> USE DEF world, fate
<1>1. FormsOK /\ WorldOK /\ request \in [AuthCall -> RequestRecord]
  BY DEF SignInInv, FormsOK
<1>2. \A c \in AuthCall : c \notin {"signIn", "oauth"} /\ request[c].at # "none" =>
        ~(opener = "extension" /\ ~strayed)
  BY DEF SignInInv, WayKept
<1>3. \A page \in {"verifyEmail", "mfa", "signIn"} : [at |-> page, cb |-> "none"] \in TabRecord
  BY DEF TabRecord, TabPages, AuthOnly, Callback
<1>4. \A c \in AuthCall : request[c].to \in Callback
  BY <1>1 DEF RequestRecord
<1>5. ASSUME NEW c \in AuthCall, NEW t \in TabRecord, Visit(t, Without(c)), WorldOK',
             strayed' \/ UNCHANGED <<opener, strayed>>,
             opener' = "extension" /\ ~strayed' =>
               t.at \in {"signIn", "done", "closed"} /\ (t.at = "signIn" => t.cb = "done")
      PROVE  SignInInv'
  <2>1. PICK calls : calls = Without(c)
    OBVIOUS
  <2>2. /\ calls \in [AuthCall -> RequestRecord]
        /\ \A d \in AuthCall : calls[d].at # "none" =>
             request[d].at # "none" /\ calls[d].to = request[d].to
    BY <1>1, <2>1, WithoutCall
  <2>3. Visit(t, calls)
    BY <1>5, <2>1
  <2>4. QED
    BY <1>5, <2>2, <2>3, MovesKeep
<1>6. CASE SignedIn
  <2>1. "signIn" \in AuthCall /\ request["signIn"].at = "sent"
    BY <1>6, Calls DEF SignedIn, Sent
  <2>2. CASE account = "plain" /\ cookie' = TRUE /\ live' = TRUE
             /\ Visit(Homeward(request["signIn"].to), Without("signIn")) /\ UNCHANGED strayed
    <3>1. WorldOK' /\ UNCHANGED <<opener, strayed>>
      BY <1>1, <1>6, <2>2 DEF SignedIn, WorldOK
    <3>2. PICK cb \in Callback : cb = request["signIn"].to
      BY <1>4, <2>1
    <3>3. opener = "extension" /\ ~strayed => cb = "done"
      BY <2>1, <3>2 DEF SignInInv, WayKept
    <3>4. Visit(Homeward(cb), Without("signIn"))
      BY <2>2, <3>2
    <3>5. Homeward(cb) \in TabRecord
      BY Ways
    <3>6. QED
      BY <1>5, <2>1, <3>1, <3>3, <3>4, <3>5, Ways
  <2>3. ASSUME NEW page \in {"verifyEmail", "mfa"}, Visit([at |-> page, cb |-> "none"], Without("signIn")),
               strayed' = TRUE, UNCHANGED <<cookie, live>>
        PROVE  SignInInv'
    <3>1. WorldOK'
      BY <1>1, <1>6, <2>3 DEF SignedIn, WorldOK
    <3>2. QED
      BY <1>3, <1>5, <2>1, <2>3, <3>1
  <2>4. QED
    BY <1>6, <2>2, <2>3 DEF SignedIn
<1>7. CASE SignedUp
  <2>1. "signUp" \in AuthCall /\ request["signUp"].at = "sent"
    BY <1>7, Calls DEF SignedUp, Sent
  <2>2. WorldOK' /\ UNCHANGED <<opener, strayed>>
    BY <1>1, <1>7 DEF SignedUp, WorldOK
  <2>3. ~(opener' = "extension" /\ ~strayed')
    BY <1>2, <2>1, <2>2
  <2>4. Visit([at |-> "verifyEmail", cb |-> "none"], Without("signUp"))
    BY <1>7 DEF SignedUp
  <2>5. QED
    BY <1>3, <1>5, <2>1, <2>2, <2>3, <2>4
<1>8. CASE CodeVerified
  <2>1. "code" \in AuthCall /\ request["code"].at = "sent"
    BY <1>8, Calls DEF CodeVerified, Sent
  <2>2. WorldOK' /\ UNCHANGED <<opener, strayed>>
    BY <1>1, <1>8 DEF CodeVerified, WorldOK
  <2>3. ~(opener' = "extension" /\ ~strayed')
    BY <1>2, <2>1, <2>2
  <2>4. Visit(Homeward("none"), Without("code"))
    BY <1>8 DEF CodeVerified
  <2>5. Homeward("none") \in TabRecord
    BY Ways DEF Callback
  <2>6. QED
    BY <1>5, <2>1, <2>2, <2>3, <2>4, <2>5
<1>9. CASE ResetTimer
  <2>1. "reset" \in AuthCall /\ request["reset"].at = "timer"
    BY <1>9, Calls DEF ResetTimer
  <2>2. WorldOK' /\ UNCHANGED <<opener, strayed>>
    BY <1>1, <1>9 DEF ResetTimer, WorldOK
  <2>3. ~(opener' = "extension" /\ ~strayed')
    BY <1>2, <2>1, <2>2
  <2>4. Visit(Through("signIn", "none"), Without("reset"))
    BY <1>9 DEF ResetTimer
  <2>5. Through("signIn", "none") \in TabRecord
    BY Ways DEF TabPages, AuthOnly, Callback
  <2>6. QED
    BY <1>5, <2>1, <2>2, <2>3, <2>4, <2>5
<1>10. CASE OAuthReturns
  <2>1. "oauth" \in AuthCall /\ request["oauth"].at = "sent"
    BY <1>10, Calls DEF OAuthReturns, Sent
  <2>2. WorldOK' /\ UNCHANGED <<opener, strayed>>
    BY <1>1, <1>10 DEF OAuthReturns, WorldOK, LoadTab
  <2>3. PICK cb \in Callback : cb = request["oauth"].to
    BY <1>4, <2>1
  <2>4. opener = "extension" /\ ~strayed => cb = "done"
    BY <2>1, <2>3 DEF SignInInv, WayKept
  <2>5. LoadTab(Homeward(cb))
    BY <1>10, <2>3 DEF OAuthReturns
  <2>6. Homeward(cb) \in TabRecord
    BY Ways
  <2>7. QED
    BY <1>1, <2>2, <2>4, <2>5, <2>6, Ways, MovesKeep
<1>11. CASE SignedOut
  <2>1. "signOut" \in AuthCall /\ request["signOut"].at = "sent"
    BY <1>11, Calls DEF SignedOut, Sent
  <2>2. WorldOK' /\ UNCHANGED <<opener, strayed>>
    <3>1. UNCHANGED <<cookieIsSeen, account, known, opener, strayed, drops>>
      BY <1>11 DEF SignedOut
    <3>2. (cookie' = FALSE /\ live' = FALSE) \/ UNCHANGED <<cookie, live>>
      BY <1>11 DEF SignedOut
    <3>3. cookie' \in BOOLEAN /\ live' \in BOOLEAN /\ (live' => cookie')
      <4>1. CASE cookie' = FALSE /\ live' = FALSE
        BY <4>1
      <4>2. CASE UNCHANGED <<cookie, live>>
        BY <1>1, <4>2 DEF WorldOK
      <4>3. QED
        BY <3>2, <4>1, <4>2
    <3>4. QED
      BY <1>1, <3>1, <3>3 DEF WorldOK
  <2>3. ~(opener' = "extension" /\ ~strayed')
    BY <1>2, <2>1, <2>2
  <2>4. Through("signIn", "none") \in TabRecord
    BY Ways DEF TabPages, AuthOnly, Callback
  <2>5. \/ Visit([at |-> "signIn", cb |-> "none"], Without("signOut"))
        \/ Visit(Through("signIn", "none"), Without("signOut"))
    BY <1>11 DEF SignedOut
  <2>6. QED
    BY <1>3, <1>5, <2>1, <2>2, <2>3, <2>4, <2>5
<1>12. QED
  BY <1>6, <1>7, <1>8, <1>9, <1>10, <1>11

\* Every step of the tab keeps the invariant, and it holds at the start.
LEMMA SignInKeeps == SignInInv /\ [SignInTabNext]_signInTabVars => SignInInv'
<1> SUFFICES ASSUME SignInInv, [SignInTabNext]_signInTabVars PROVE SignInInv'
  OBVIOUS
<1>1. CASE SignInTabNext
  BY <1>1, TabMoves, SessionKeeps, SubmitsKeep, AnswersKeep, ArrivalsKeep DEF SignInTabNext
<1>2. CASE UNCHANGED signInTabVars
  BY <1>2 DEF signInTabVars, SignInInv, WorldOK, FormsOK, WayKept, SpinnerMeansWaiting, Sent
<1>3. QED
  BY <1>1, <1>2

\* A tab that is not open has called for nothing.
LEMMA SignInStarts == SignInTabInit => SignInInv
<1> SUFFICES ASSUME SignInTabInit PROVE SignInInv
  OBVIOUS
<1> USE SignInTabAssumption DEF SignInTabInit
<1>1. NoRequest \in RequestRecord
  BY DEF NoRequest, RequestRecord, Callback
<1>2. 0 \in 0 .. MaxDrops
  OBVIOUS
<1>3. WorldOK /\ FormsOK
  BY <1>1, <1>2 DEF WorldOK, FormsOK
<1>4. tab \in TabRecord
  BY Ways
<1>5. WayKept /\ SpinnerMeansWaiting
  BY DEF WayKept, SpinnerMeansWaiting
<1>6. QED
  BY <1>3, <1>4, <1>5 DEF SignInInv

\* The pages under /auth: the state of the tab keeps its type.
THEOREM SignInTypeCorrect == SignInTabSpec => []SignInTabTypeOK
<1>1. SignInInv => SignInTabTypeOK
  BY DEF SignInInv, WorldOK, FormsOK, TabRecord, TabPages, RequestRecord, SignInTabTypeOK
<1>2. QED
  BY SignInStarts, SignInKeeps, <1>1, PTL DEF SignInTabSpec

(***************************************************************************)
(* middleware.ts and sign-in/page.tsx: the tab of the extension arrives,   *)
(* and no button waits for nothing, however many calls fail.               *)
(***************************************************************************)
THEOREM SignInStays == SignInTabSpec => [](ConnectArrives /\ SpinnerMeansWaiting)
<1>1. SignInInv => ConnectArrives /\ SpinnerMeansWaiting
  BY DEF SignInInv, WayKept, ConnectArrives
<1>2. QED
  BY SignInStarts, SignInKeeps, <1>1, PTL DEF SignInTabSpec

-------------------------------------------------------------------------------
(* Dashboard: the two queries and the feed.                                  *)

(***************************************************************************)
(* Of a set of finite sets one is the smallest, and of a set of numbers    *)
(* one is the least.                                                       *)
(***************************************************************************)
LEMMA Smallest ==
  ASSUME NEW U, IsFiniteSet(U), NEW C \in SUBSET SUBSET U, C # {}
  PROVE  \E x \in C : \A y \in C : y \subseteq x => y = x
<1>1. C \subseteq FiniteSubsetsOf(U)
  BY FS_FiniteSubsetsOfFinite
<1>2. \E x \in C : \A y \in C : ~(<<y, x>> \in StrictSubsetOrdering(U))
  BY <1>1, FS_StrictSubsetOrderingWellFounded, WFMin, Zenon
<1>3. QED
  BY <1>1, <1>2 DEF StrictSubsetOrdering

\* Proved with the segments 0 .. x of the numbers up to n.
LEMMA LeastNumber ==
  ASSUME NEW T \in SUBSET Nat, NEW n \in T
  PROVE  \E x \in T : \A y \in T : x <= y
<1> DEFINE V == 0 .. n
           C == {0 .. x : x \in {y \in T : y <= n}}
<1>1. C \in SUBSET SUBSET V
  OBVIOUS
<1>2. C # {}
  <2>1. 0 .. n \in C
    OBVIOUS
  <2>2. QED
    BY <2>1, Zenon
<1>3. IsFiniteSet(V)
  BY FS_Interval
<1>4. PICK s \in C : \A t \in C : t \subseteq s => t = s
  <2> HIDE DEF C, V
  <2>1. QED
    BY <1>1, <1>2, <1>3, Smallest
<1>5. PICK x \in T : x <= n /\ s = 0 .. x
  BY <1>4
<1>6. ASSUME NEW y \in T, y < x
      PROVE  FALSE
  <2>1. 0 .. y \in C
    BY <1>5, <1>6
  <2>2. x \in Nat /\ y \in Nat
    OBVIOUS
  <2>3. (0 .. y) \subseteq s
    BY <1>5, <1>6, <2>2
  <2>4. x \in s /\ x \notin 0 .. y
    BY <1>5, <1>6, <2>2
  <2>5. QED
    BY <2>1, <2>3, <2>4, <1>4, Zenon
<1>7. QED
  BY <1>5, <1>6

(***************************************************************************)
(* Lists in the order of created_at.                                       *)
(***************************************************************************)
Distinct(S) == \A x, y \in S : x.at = y.at => x = y

\* Of some rows one is the oldest, and one the newest.
LEMMA OldestAndNewest ==
  ASSUME NEW S, S # {}, \A x \in S : x.at \in 1 .. MaxRows
  PROVE  /\ \E x \in S : \A y \in S : x.at <= y.at
         /\ \E x \in S : \A y \in S : y.at <= x.at
<1> USE DashboardAssumption
<1>1. PICK z \in S : TRUE
  OBVIOUS
<1>2. \E x \in S : \A y \in S : x.at <= y.at
  <2> DEFINE T == {x.at : x \in S}
  <2>1. T \in SUBSET Nat /\ z.at \in T
    BY <1>1
  <2>2. PICK t \in T : \A u \in T : t <= u
    <3> HIDE DEF T
    <3>1. QED
      BY <2>1, LeastNumber
  <2>3. QED
    BY <2>2
<1>3. \E x \in S : \A y \in S : y.at <= x.at
  <2> DEFINE T == {MaxRows - x.at : x \in S}
  <2>1. T \in SUBSET Nat /\ MaxRows - z.at \in T
    BY <1>1
  <2>2. PICK t \in T : \A u \in T : t <= u
    <3> HIDE DEF T
    <3>1. QED
      BY <2>1, LeastNumber
  <2>3. PICK x \in S : t = MaxRows - x.at
    OBVIOUS
  <2>4. \A y \in S : MaxRows - x.at <= MaxRows - y.at
    BY <2>2, <2>3
  <2>5. QED
    BY <2>4
<1>4. QED
  BY <1>2, <1>3

\* The first n of a list: no more than n, and n newer ones where one is left out.
LEMMA NewestOf ==
  ASSUME NEW n \in Nat, NEW S, IsFiniteSet(S), Distinct(S), \A x \in S : x.at \in 1 .. MaxRows
  PROVE  /\ Newest(n, S) \subseteq S
         /\ IsFiniteSet(Newest(n, S)) /\ Cardinality(Newest(n, S)) \in 0 .. n
         /\ \A x \in S \ Newest(n, S) :
              Cardinality(Newest(n, S)) = n /\ \A y \in Newest(n, S) : y.at > x.at
<1> USE DashboardAssumption
<1> DEFINE Before(x) == {y \in S : Newer(y, x)}
           T == Newest(n, S)
<1>1. T \subseteq S /\ \A x \in S : x \in T <=> Cardinality(Before(x)) < n
  BY DEF Newest
<1>2. IsFiniteSet(T) /\ Cardinality(T) \in Nat
  BY <1>1, FS_Subset, FS_CardinalityType
<1>3. ASSUME NEW x \in S PROVE IsFiniteSet(Before(x)) /\ Cardinality(Before(x)) \in Nat
  <2>1. Before(x) \subseteq S
    OBVIOUS
  <2>2. QED
    BY <2>1, FS_Subset, FS_CardinalityType
<1>0. \A x \in S : Before(x) \subseteq S /\ \A y \in S : y \in Before(x) <=> y.at > x.at
  BY DEF Newer
<1> HIDE DEF T, Before
<1>4. Cardinality(T) <= n
  <2>1. CASE T = {}
    BY <2>1, FS_EmptySet
  <2>2. CASE T # {}
    <3>1. PICK x \in T : \A y \in T : x.at <= y.at
      BY <2>2, <1>1, OldestAndNewest
    <3>2. T \ {x} \subseteq Before(x)
      <4>1. \A y \in T \ {x} : y \in S /\ x \in S /\ y.at # x.at
        BY <1>1, <3>1 DEF Distinct
      <4>2. QED
        BY <1>0, <1>1, <3>1, <4>1
    <3>3. Cardinality(T \ {x}) <= Cardinality(Before(x)) /\ Cardinality(T \ {x}) = Cardinality(T) - 1
      <4>1. Cardinality(T \ {x}) = Cardinality(T) - 1
        BY <1>2, <3>1, FS_RemoveElement
      <4>2. IsFiniteSet(Before(x))
        BY <1>1, <1>3, <3>1
      <4>3. QED
        BY <3>2, <4>1, <4>2, FS_Subset
    <3>4. Cardinality(Before(x)) < n
      BY <1>1, <3>1
    <3>5. QED
      BY <1>1, <1>2, <1>3, <3>3, <3>4
  <2>3. QED
    BY <2>1, <2>2
<1>5. ASSUME NEW x \in S \ T, NEW y \in T PROVE y.at > x.at
  <2>1. SUFFICES ASSUME y.at <= x.at PROVE FALSE
    <3>1. x.at \in Int /\ y.at \in Int
      BY <1>1
    <3>2. QED
      BY <3>1
  <2>2. Before(x) \subseteq Before(y)
    <3>1. \A u \in S : u.at > x.at => u.at > y.at
      BY <1>1, <2>1
    <3>2. QED
      BY <1>0, <1>1, <3>1
  <2>3. Cardinality(Before(x)) <= Cardinality(Before(y))
    BY <1>1, <1>3, <2>2, FS_Subset
  <2>4. QED
    BY <1>1, <1>3, <2>3
<1>6. ASSUME NEW z \in S \ T PROVE Cardinality(T) = n
  <2>1. PICK x \in S \ T : \A y \in S \ T : y.at <= x.at
    BY <1>6, OldestAndNewest
  <2>2. Before(x) \subseteq T
    <3>1. \A y \in S : y.at > x.at => y \in T
      BY <2>1
    <3>2. QED
      BY <1>0, <3>1
  <2>3. Cardinality(Before(x)) <= Cardinality(T)
    BY <1>2, <2>2, FS_Subset
  <2>4. QED
    BY <1>1, <1>2, <1>3, <1>4, <2>1, <2>3
<1>7. QED
  BY <1>1, <1>2, <1>4, <1>5, <1>6 DEF T

(***************************************************************************)
(* What a query returned stays true of the rows: a row is still there or   *)
(* has been deleted, a score that has been computed keeps one; and of what *)
(* was there when the page was opened it lacks only what is older than     *)
(* everything in it, when it is full.                                      *)
(***************************************************************************)
StillTrue(x, kind) ==
  /\ x.at \in DOMAIN entries /\ x.row.kind = kind /\ entries[x.at].kind \in {kind, "deleted"}
  /\ x.row.status = "complete" => x.row.score # "null"
  /\ x.row.score # "null" => entries[x.at] = Deleted \/ entries[x.at].score # "null"

Complete(list, kind, n) ==
  \A e \in 1 .. openedAt : entries[e].kind = kind =>
    \/ \E x \in list.rows : x.at = e
    \/ Cardinality(list.rows) = n /\ \A x \in list.rows : x.at > e

PartHolds(list, kind, n) ==
  /\ IF list.read THEN Complete(list, kind, n) ELSE list.rows = {}
  /\ IsFiniteSet(list.rows) /\ Cardinality(list.rows) \in 0 .. n
  /\ Distinct(list.rows) /\ \A x \in list.rows : StillTrue(x, kind)

DashboardData ==
  /\ entries \in Seq(DashboardRows) /\ Len(entries) <= MaxRows /\ openedAt \in 0 .. Len(entries)
  /\ resumesPart \in [read : BOOLEAN, rows : SUBSET DashboardItem]
  /\ scoresPart \in [read : BOOLEAN, rows : SUBSET DashboardItem]
  /\ \A e \in DOMAIN entries : entries[e].status = "complete" => entries[e].score # "null"

DashboardWaits ==
  /\ dashboard \in {"closed", "loading", "shown", "failed"}
  /\ dashboard = "shown" => resumesPart.read /\ scoresPart.read
  /\ dashboard \in {"closed", "failed"} => resumesPart = Unread /\ scoresPart = Unread

DashboardInv ==
  /\ DashboardData /\ DashboardWaits
  /\ PartHolds(resumesPart, "resume", ResumesRead)
  /\ PartHolds(scoresPart, "score", ScoresRead)
  /\ \A x \in resumesPart.rows, y \in scoresPart.rows : x.at # y.at

\* What the dashboard may show of a row: its fields, and that only a deleted one has no kind.
LEMMA RowFields ==
  ASSUME NEW r \in DashboardRows
  PROVE  /\ r.kind \in {"deleted", "resume", "score"}
         /\ r.kind = "deleted" => r = Deleted
         /\ r.kind = "resume" => r = [kind |-> "resume", status |-> "any", score |-> "null"]
         /\ r.kind = "score" =>
              r \in [kind : {"score"}, status : {"pending", "complete", "failed"}, score : {"null", "low", "high"}]
BY DEF DashboardRows, Deleted, NewEntry

\* A deleted row, a new resume and a new score are rows.
LEMMA NewRows ==
  ASSUME NEW kind \in {"resume", "score"}
  PROVE  /\ Deleted \in DashboardRows /\ NewEntry(kind) \in DashboardRows
         /\ NewEntry(kind).status # "complete"
         /\ Deleted.kind = "deleted" /\ Deleted.status # "complete" /\ Deleted.score = "null"
BY DEF Deleted, NewEntry, DashboardRows

\* The rows go on: none is lost, a deleted one stays so, and none changes its kind or loses
\* its score but by being deleted.
RowsGoOn ==
  /\ DOMAIN entries \subseteq DOMAIN entries'
  /\ \A e \in DOMAIN entries :
       /\ entries'[e].kind \in {entries[e].kind, "deleted"}
       /\ entries'[e] = Deleted \/ (entries[e] # Deleted /\ (entries[e].score # "null" => entries'[e].score # "null"))

\* What was true of a list stays true when the rows go on.
LEMMA PartStays ==
  ASSUME NEW list, NEW kind \in {"resume", "score"}, NEW n, PartHolds(list, kind, n),
         RowsGoOn, openedAt' = openedAt, openedAt \in Nat, 1 .. openedAt \subseteq DOMAIN entries
  PROVE  PartHolds(list, kind, n)'
<1>1. ASSUME NEW x \in list.rows PROVE StillTrue(x, kind)'
  BY <1>1, Zenon DEF PartHolds, StillTrue, RowsGoOn
<1>2. Complete(list, kind, n) => Complete(list, kind, n)'
  <2>1. ASSUME NEW e \in 1 .. openedAt, entries'[e].kind = kind PROVE entries[e].kind = kind
    BY <2>1 DEF RowsGoOn
  <2>2. QED
    BY <2>1 DEF Complete
<1>3. QED
  BY <1>1, <1>2 DEF PartHolds

\* What a query returns is true of the rows.
LEMMA RecentHolds ==
  ASSUME DashboardData, NEW kind \in {"resume", "score"}, NEW n \in Nat
  PROVE  /\ PartHolds(Part(Recent(kind, n)), kind, n)
         /\ Part(Recent(kind, n)) \in [read : BOOLEAN, rows : SUBSET DashboardItem]
         /\ \A x \in Part(Recent(kind, n)).rows : x.at \in DOMAIN entries /\ entries[x.at].kind = kind
<1> USE DashboardAssumption
<1> DEFINE D == {d \in DOMAIN entries : entries[d].kind = kind}
           S == {[at |-> e, row |-> entries[e]] : e \in D}
           T == Newest(n, S)
<1>1. DOMAIN entries = 1 .. Len(entries) /\ Len(entries) \in Nat
      /\ \A e \in DOMAIN entries : entries[e] \in DashboardRows /\ e \in 1 .. MaxRows
  BY DEF DashboardData
<1>2. \A x \in S : /\ x.at \in DOMAIN entries /\ x.row = entries[x.at] /\ entries[x.at].kind = kind
                   /\ x \in DashboardItem /\ x.at \in 1 .. MaxRows
  BY <1>1 DEF DashboardItem
<1>3. IsFiniteSet(S) /\ Distinct(S)
  <2>1. IsFiniteSet(D)
    <3>1. IsFiniteSet(DOMAIN entries) /\ D \subseteq DOMAIN entries
      BY <1>1, FS_Interval
    <3>2. QED
      BY <3>1, FS_Subset
  <2>2. IsFiniteSet(S)
    <3> DEFINE f == [d \in D |-> [at |-> d, row |-> entries[d]]]
    <3>1. f \in Surjection(D, S)
      BY DEF Surjection
    <3> HIDE DEF f, D, S
    <3>2. QED
      BY <2>1, <3>1, FS_Surjection
  <2>3. Distinct(S)
    BY DEF Distinct
  <2>4. QED
    BY <2>2, <2>3
<1>4. /\ T \subseteq S /\ IsFiniteSet(T) /\ Cardinality(T) \in 0 .. n
      /\ \A x \in S \ T : Cardinality(T) = n /\ \A y \in T : y.at > x.at
  <2> HIDE DEF S
  <2>1. QED
    BY <1>2, <1>3, NewestOf
<1>5. Part(Recent(kind, n)) = [read |-> TRUE, rows |-> T]
  BY DEF Part, Recent
<1>6. ASSUME NEW e \in 1 .. openedAt, entries[e].kind = kind
      PROVE  \/ \E x \in T : x.at = e
             \/ Cardinality(T) = n /\ \A x \in T : x.at > e
  <2>1. e \in D /\ [at |-> e, row |-> entries[e]] \in S /\ [at |-> e, row |-> entries[e]].at = e
    BY <1>1, <1>6 DEF DashboardData
  <2>2. QED
    BY <1>4, <2>1
<1>7. ASSUME NEW x \in T PROVE StillTrue(x, kind)
  BY <1>2, <1>4, <1>7 DEF StillTrue, DashboardData
<1>8. Distinct(T)
  BY <1>3, <1>4 DEF Distinct
<1> HIDE DEF T, S
<1>9. QED
  BY <1>2, <1>4, <1>5, <1>6, <1>7, <1>8 DEF PartHolds, Complete

\* The page before anything has been asked for.
LEMMA DashboardStarts ==
  ASSUME DashboardInit
  PROVE  DashboardInv
<1> USE DashboardAssumption
<1>1. /\ entries = <<>> /\ openedAt = 0 /\ dashboard = "closed"
      /\ resumesPart = Unread /\ scoresPart = Unread
  BY DEF DashboardInit
<1>2. /\ Unread \in [read : BOOLEAN, rows : SUBSET DashboardItem]
      /\ Unread.rows = {} /\ ~Unread.read
  BY DEF Unread
<1>3. DashboardData
  BY <1>1, <1>2 DEF DashboardData
<1>4. DashboardWaits
  BY <1>1 DEF DashboardWaits
<1>5. \A kind : \A n \in Nat : PartHolds(Unread, kind, n)
  BY <1>2, FS_EmptySet DEF PartHolds, Distinct
<1>6. QED
  BY <1>1, <1>2, <1>3, <1>4, <1>5 DEF DashboardInv

\* When only the rows change, and go on, what the page has read stays true.
LEMMA RowsChange ==
  ASSUME DashboardInv, RowsGoOn, UNCHANGED <<openedAt, resumesPart, scoresPart, dashboard>>,
         entries' \in Seq(DashboardRows), Len(entries) <= Len(entries'), Len(entries') <= MaxRows,
         \A e \in DOMAIN entries' : entries'[e].status = "complete" => entries'[e].score # "null"
  PROVE  DashboardInv'
<1> USE DashboardAssumption
<1>1. DashboardData' /\ DashboardWaits'
  BY DEF DashboardInv, DashboardData, DashboardWaits
<1>2. openedAt \in Nat /\ 1 .. openedAt \subseteq DOMAIN entries
  BY DEF DashboardInv, DashboardData
<1>3. PICK r, s : r = resumesPart /\ s = scoresPart
  OBVIOUS
<1>4. r = resumesPart' /\ s = scoresPart'
  BY <1>3
<1>5. PartHolds(r, "resume", ResumesRead)' /\ PartHolds(s, "score", ScoresRead)'
  BY <1>2, <1>3, PartStays DEF DashboardInv
<1>6. PartHolds(resumesPart, "resume", ResumesRead)' /\ PartHolds(scoresPart, "score", ScoresRead)'
  BY <1>4, <1>5 DEF PartHolds, Complete, StillTrue
<1>7. \A x \in resumesPart'.rows, y \in scoresPart'.rows : x.at # y.at
  BY DEF DashboardInv
<1>8. QED
  BY <1>1, <1>6, <1>7 DEF DashboardInv

\* A row is created, advances or is deleted.
LEMMA RowsStep ==
  ASSUME DashboardInv, 
         \/ \E e \in DOMAIN entries : AdvanceEntry(e) \/ DeleteEntry(e)
         \/ \E kind \in {"resume", "score"} : CreateEntry(kind)
  PROVE  DashboardInv'
<1>1. /\ entries \in Seq(DashboardRows) /\ Len(entries) \in Nat /\ Len(entries) <= MaxRows
      /\ DOMAIN entries = 1 .. Len(entries) /\ \A e \in DOMAIN entries : entries[e] \in DashboardRows
      /\ \A e \in DOMAIN entries : entries[e].status = "complete" => entries[e].score # "null"
  BY DEF DashboardInv, DashboardData
<1>2. ASSUME NEW e \in DOMAIN entries, AdvanceEntry(e) PROVE DashboardInv'
  <2>1. entries[e].kind = "score" /\ UNCHANGED <<openedAt, resumesPart, scoresPart, dashboard>>
    BY <1>2 DEF AdvanceEntry
  <2>2. PICK row \in DashboardRows :
          /\ entries' = [entries EXCEPT ![e] = row] /\ row.kind = "score"
          /\ entries[e].score # "null" => row.score # "null"
          /\ row.status = "complete" => row.score # "null"
    <3>1. PICK old : old = entries[e]
      OBVIOUS
    <3>2. old \in [kind : {"score"}, status : {"pending", "complete", "failed"}, score : {"null", "low", "high"}]
      BY <1>1, <1>2, <2>1, <3>1, RowFields
    <3>3. \/ entries' = [entries EXCEPT ![e] = [old EXCEPT !.status = "failed"]]
          \/ \E n \in {"low", "high"} :
               entries' = [entries EXCEPT ![e].status = "complete", ![e].score = n]
      BY <1>2, <3>1 DEF AdvanceEntry
    <3>4. CASE entries' = [entries EXCEPT ![e] = [old EXCEPT !.status = "failed"]]
      <4>1. PICK row : row = [old EXCEPT !.status = "failed"]
        OBVIOUS
      <4>2. row \in DashboardRows /\ row.kind = "score" /\ row.status = "failed" /\ row.score = old.score
        BY <3>2, <4>1 DEF DashboardRows
      <4>3. QED
        BY <3>1, <3>4, <4>1, <4>2
    <3>5. CASE \E n \in {"low", "high"} : entries' = [entries EXCEPT ![e].status = "complete", ![e].score = n]
      <4>1. PICK n \in {"low", "high"} : entries' = [entries EXCEPT ![e].status = "complete", ![e].score = n]
        BY <3>5
      <4>2. PICK row : row = [kind |-> "score", status |-> "complete", score |-> n]
        OBVIOUS
      <4>3. row = [[old EXCEPT !.status = "complete"] EXCEPT !.score = n]
        <5>1. old = [kind |-> "score", status |-> old.status, score |-> old.score]
          BY <3>2
        <5>2. PICK mid : mid = [old EXCEPT !.status = "complete"]
          OBVIOUS
        <5>3. mid = [kind |-> "score", status |-> "complete", score |-> old.score]
          BY <5>1, <5>2
        <5>4. row = [mid EXCEPT !.score = n]
          BY <4>2, <5>3
        <5>5. QED
          BY <5>2, <5>4
      <4>4. entries' = [entries EXCEPT ![e] = row]
        BY <1>1, <3>1, <4>1, <4>3
      <4>5. row \in DashboardRows /\ row.kind = "score" /\ row.score # "null"
        BY <4>2 DEF DashboardRows
      <4>6. QED
        BY <4>4, <4>5
    <3>6. QED
      BY <3>3, <3>4, <3>5
  <2>3. entries' \in Seq(DashboardRows) /\ Len(entries') = Len(entries) /\ DOMAIN entries' = DOMAIN entries
    BY <1>1, <2>2, ExceptSeq
  <2>4. entries'[e] = row /\ \A d \in DOMAIN entries \ {e} : entries'[d] = entries[d]
    BY <1>1, <1>2, <2>2
  <2>5. RowsGoOn
    BY <1>2, <2>1, <2>2, <2>3, <2>4, NewRows DEF RowsGoOn
  <2>6. \A d \in DOMAIN entries' : entries'[d].status = "complete" => entries'[d].score # "null"
    BY <1>1, <2>2, <2>3, <2>4
  <2>7. QED
    BY <1>1, <2>1, <2>3, <2>5, <2>6, RowsChange
<1>3. ASSUME NEW e \in DOMAIN entries, DeleteEntry(e) PROVE DashboardInv'
  <2>1. entries' = [entries EXCEPT ![e] = Deleted] /\ UNCHANGED <<openedAt, resumesPart, scoresPart, dashboard>>
    BY <1>3 DEF DeleteEntry
  <2>2. entries' \in Seq(DashboardRows) /\ Len(entries') = Len(entries) /\ DOMAIN entries' = DOMAIN entries
    BY <1>1, <2>1, NewRows, ExceptSeq
  <2>3. entries'[e] = Deleted /\ \A d \in DOMAIN entries \ {e} : entries'[d] = entries[d]
    BY <1>1, <1>3, <2>1
  <2>4. RowsGoOn
    BY <1>1, <2>2, <2>3, NewRows DEF RowsGoOn
  <2>5. \A d \in DOMAIN entries' : entries'[d].status = "complete" => entries'[d].score # "null"
    BY <1>1, <2>2, <2>3, NewRows
  <2>6. QED
    BY <1>1, <2>1, <2>2, <2>4, <2>5, RowsChange
<1>4. ASSUME NEW kind \in {"resume", "score"}, CreateEntry(kind) PROVE DashboardInv'
  <2>1. /\ entries' = Append(entries, NewEntry(kind)) /\ Len(entries) < MaxRows
        /\ UNCHANGED <<openedAt, resumesPart, scoresPart, dashboard>>
    BY <1>4 DEF CreateEntry
  <2>2. PICK row \in DashboardRows : row = NewEntry(kind) /\ row.status # "complete"
    BY NewRows
  <2>3. /\ entries' \in Seq(DashboardRows) /\ Len(entries') = Len(entries) + 1
        /\ DOMAIN entries' = 1 .. Len(entries) + 1
        /\ entries'[Len(entries) + 1] = row /\ \A d \in DOMAIN entries : entries'[d] = entries[d]
    BY <1>1, <2>1, <2>2, AppendProperties
  <2>4. RowsGoOn
    BY <1>1, <2>3 DEF RowsGoOn
  <2>5. \A d \in DOMAIN entries' : entries'[d].status = "complete" => entries'[d].score # "null"
    BY <1>1, <2>2, <2>3
  <2>6. Len(entries) <= Len(entries') /\ Len(entries') <= MaxRows
    BY <1>1, <2>1, <2>3, DashboardAssumption
  <2>7. QED
    BY <2>1, <2>3, <2>4, <2>5, <2>6, RowsChange
<1>5. QED
  BY <1>2, <1>3, <1>4

\* The two queries.
LEMMA QueriesStep ==
  ASSUME DashboardInv, GetRecentResumes \/ GetRecentScores
  PROVE  DashboardInv'
<1> USE DashboardAssumption
<1>1. DashboardData /\ DashboardWaits
  BY DEF DashboardInv
<1>2. CASE GetRecentResumes
  <2>1. /\ dashboard = "loading" /\ resumesPart' = Part(Recent("resume", ResumesRead))
        /\ UNCHANGED <<entries, openedAt, scoresPart, dashboard>>
    BY <1>2 DEF GetRecentResumes
  <2>2. PICK r : r = Part(Recent("resume", ResumesRead))
    OBVIOUS
  <2>3. /\ PartHolds(r, "resume", ResumesRead) /\ r \in [read : BOOLEAN, rows : SUBSET DashboardItem]
        /\ \A x \in r.rows : x.at \in DOMAIN entries /\ entries[x.at].kind = "resume"
    BY <1>1, <2>2, RecentHolds
  <2>4. resumesPart' = r
    BY <2>1, <2>2
  <2>5. PartHolds(resumesPart, "resume", ResumesRead)' /\ PartHolds(scoresPart, "score", ScoresRead)'
    BY <2>1, <2>3, <2>4 DEF DashboardInv, PartHolds, Complete, StillTrue
  <2>6. DashboardData' /\ DashboardWaits'
    BY <1>1, <2>1, <2>3, <2>4 DEF DashboardData, DashboardWaits
  <2>7. \A x \in resumesPart'.rows, y \in scoresPart'.rows : x.at # y.at
    <3>1. \A y \in scoresPart.rows : entries[y.at].kind \in {"score", "deleted"}
      BY DEF DashboardInv, PartHolds, StillTrue
    <3>2. QED
      BY <2>1, <2>3, <2>4, <3>1
  <2>8. QED
    BY <2>5, <2>6, <2>7 DEF DashboardInv
<1>3. CASE GetRecentScores
  <2>1. /\ dashboard = "loading" /\ scoresPart' = Part(Recent("score", ScoresRead))
        /\ UNCHANGED <<entries, openedAt, resumesPart, dashboard>>
    BY <1>3 DEF GetRecentScores
  <2>2. PICK s : s = Part(Recent("score", ScoresRead))
    OBVIOUS
  <2>3. /\ PartHolds(s, "score", ScoresRead) /\ s \in [read : BOOLEAN, rows : SUBSET DashboardItem]
        /\ \A x \in s.rows : x.at \in DOMAIN entries /\ entries[x.at].kind = "score"
    BY <1>1, <2>2, RecentHolds
  <2>4. scoresPart' = s
    BY <2>1, <2>2
  <2>5. PartHolds(resumesPart, "resume", ResumesRead)' /\ PartHolds(scoresPart, "score", ScoresRead)'
    BY <2>1, <2>3, <2>4 DEF DashboardInv, PartHolds, Complete, StillTrue
  <2>6. DashboardData' /\ DashboardWaits'
    BY <1>1, <2>1, <2>3, <2>4 DEF DashboardData, DashboardWaits
  <2>7. \A x \in resumesPart'.rows, y \in scoresPart'.rows : x.at # y.at
    <3>1. \A x \in resumesPart.rows : entries[x.at].kind \in {"resume", "deleted"}
      BY DEF DashboardInv, PartHolds, StillTrue
    <3>2. QED
      BY <2>1, <2>3, <2>4, <3>1
  <2>8. QED
    BY <2>5, <2>6, <2>7 DEF DashboardInv
<1>4. QED
  BY <1>2, <1>3

\* The page is opened, has its answer, or fails.
LEMMA PageStep ==
  ASSUME DashboardInv, OpenDashboard \/ DashboardArrives \/ DashboardFails
  PROVE  DashboardInv'
<1> USE DashboardAssumption
<1>1. DashboardData /\ DashboardWaits
  BY DEF DashboardInv
<1>2. /\ Unread \in [read : BOOLEAN, rows : SUBSET DashboardItem]
      /\ Unread.rows = {} /\ ~Unread.read
  BY DEF Unread
<1>3. ASSUME resumesPart' = Unread, scoresPart' = Unread
      PROVE  /\ PartHolds(resumesPart, "resume", ResumesRead)' /\ PartHolds(scoresPart, "score", ScoresRead)'
             /\ \A x \in resumesPart'.rows, y \in scoresPart'.rows : x.at # y.at
  BY <1>2, <1>3, FS_EmptySet DEF PartHolds, Distinct
<1>4. CASE OpenDashboard
  <2>1. /\ dashboard = "closed" /\ openedAt' = Len(entries) /\ dashboard' = "loading"
        /\ UNCHANGED <<entries, resumesPart, scoresPart>>
    BY <1>4 DEF OpenDashboard
  <2>2. resumesPart' = Unread /\ scoresPart' = Unread
    BY <1>1, <2>1 DEF DashboardWaits
  <2>3. DashboardData' /\ DashboardWaits'
    BY <1>1, <1>2, <2>1, <2>2 DEF DashboardData, DashboardWaits
  <2>4. QED
    BY <1>3, <2>2, <2>3 DEF DashboardInv
<1>5. CASE DashboardArrives
  <2>1. /\ resumesPart.read /\ scoresPart.read /\ dashboard' = "shown"
        /\ UNCHANGED <<entries, openedAt, resumesPart, scoresPart>>
    BY <1>5 DEF DashboardArrives
  <2>2. DashboardData' /\ DashboardWaits'
    BY <1>1, <2>1 DEF DashboardData, DashboardWaits
  <2>3. PartHolds(resumesPart, "resume", ResumesRead)' /\ PartHolds(scoresPart, "score", ScoresRead)'
    BY <2>1 DEF DashboardInv, PartHolds, Complete, StillTrue
  <2>4. QED
    BY <2>1, <2>2, <2>3 DEF DashboardInv
<1>6. CASE DashboardFails
  <2>1. /\ dashboard' = "failed" /\ resumesPart' = Unread /\ scoresPart' = Unread
        /\ UNCHANGED <<entries, openedAt>>
    BY <1>6 DEF DashboardFails
  <2>2. DashboardData' /\ DashboardWaits'
    BY <1>1, <1>2, <2>1 DEF DashboardData, DashboardWaits
  <2>3. QED
    BY <1>3, <2>1, <2>2 DEF DashboardInv
<1>7. QED
  BY <1>4, <1>5, <1>6

\* Every step keeps the invariant.
LEMMA DashboardKeeps ==
  ASSUME DashboardInv, [DashboardNext]_dashboardVars
  PROVE  DashboardInv'
<1>1. CASE UNCHANGED dashboardVars
  BY <1>1 DEF dashboardVars, DashboardInv, DashboardData, DashboardWaits, PartHolds, Complete, StillTrue
<1>2. CASE DashboardNext
  BY <1>2, RowsStep, QueriesStep, PageStep DEF DashboardNext
<1>3. QED
  BY <1>1, <1>2

\* What has been read, together, and the feed that is made of it.
LEMMA FeedOf ==
  ASSUME DashboardInv
  PROVE  LET read == resumesPart.rows \cup scoresPart.rows
         IN  /\ BuildFeed \subseteq read /\ Cardinality(BuildFeed) \in 0 .. FeedLength
             /\ IsFiniteSet(read) /\ IsFiniteSet(BuildFeed)
             /\ \A x \in read : x.at \in 1 .. MaxRows
             /\ Distinct(read)
             /\ \A x \in read \ BuildFeed :
                  Cardinality(BuildFeed) = FeedLength /\ \A y \in BuildFeed : y.at > x.at
<1> USE DashboardAssumption
<1> DEFINE R == resumesPart.rows
           S == scoresPart.rows
<1>1. IsFiniteSet(R) /\ IsFiniteSet(S) /\ Distinct(R) /\ Distinct(S)
  BY DEF DashboardInv, PartHolds
<1>2. \A x \in R \cup S : x.at \in 1 .. MaxRows
  BY DEF DashboardInv, DashboardData, DashboardItem
<1>3. Distinct(R \cup S)
  BY <1>1 DEF Distinct, DashboardInv
<1>4. IsFiniteSet(R \cup S)
  BY <1>1, FS_Union
<1>5. FeedLength \in Nat
  OBVIOUS
<1> HIDE DEF R, S
<1>6. BuildFeed = Newest(FeedLength, R \cup S)
  BY DEF BuildFeed, R, S
<1>7. QED
  BY <1>2, <1>3, <1>4, <1>5, <1>6, NewestOf DEF R, S

\* The invariant is more than what the page promises.
LEMMA FeedOfWhatWasThere ==
  ASSUME DashboardInv
  PROVE  FeedIsNewest
<1> USE DashboardAssumption
<1>1. SUFFICES ASSUME dashboard = "shown", NEW e \in 1 .. openedAt, entries[e] # Deleted
               PROVE  LET newer == {x \in BuildFeed : x.at > e}
                          same  == {x \in newer : x.row.kind = entries[e].kind}
                      IN  \/ \E x \in BuildFeed : x.at = e
                          \/ newer = BuildFeed /\ Cardinality(newer) = FeedLength
                          \/ Cardinality(same) = IF entries[e].kind = "resume" THEN ResumesRead ELSE ScoresRead
  BY DEF FeedIsNewest
<1> DEFINE R == resumesPart.rows
           S == scoresPart.rows
           F == BuildFeed
           newer == {x \in F : x.at > e}
           same == {x \in newer : x.row.kind = entries[e].kind}
<1>2. /\ F \subseteq R \cup S /\ Cardinality(F) \in 0 .. FeedLength
      /\ \A x \in R \cup S : x.at \in 1 .. MaxRows
      /\ \A x \in (R \cup S) \ F : Cardinality(F) = FeedLength /\ \A y \in F : y.at > x.at
  BY FeedOf
<1>3. entries[e].kind \in {"resume", "score"} /\ e \in Nat
  <2>1. entries[e] \in DashboardRows /\ e \in Nat
    BY DEF DashboardInv, DashboardData
  <2>2. QED
    BY <1>1, <2>1, RowFields
<1>4. /\ Complete(resumesPart, "resume", ResumesRead) /\ Complete(scoresPart, "score", ScoresRead)
      /\ \A x \in R : x.row.kind = "resume"
      /\ \A x \in S : x.row.kind = "score"
  BY <1>1 DEF DashboardInv, DashboardWaits, PartHolds, StillTrue
<1> HIDE DEF F
<1>5. ASSUME NEW P, NEW n, P \subseteq R \cup S, \A x \in R \cup S : x \in P <=> x.row.kind = entries[e].kind,
             \/ \E x \in P : x.at = e
             \/ Cardinality(P) = n /\ \A x \in P : x.at > e
      PROVE  \/ \E x \in F : x.at = e
             \/ newer = F /\ Cardinality(newer) = FeedLength
             \/ Cardinality(same) = n
  <2>1. CASE \E x \in P : x.at = e
    <3>1. PICK x \in P : x.at = e
      BY <2>1
    <3>2. x \notin F => newer = F /\ Cardinality(newer) = FeedLength
      <4>1. x \notin F => Cardinality(F) = FeedLength /\ \A y \in F : y.at > e
        BY <1>2, <1>5, <3>1
      <4>2. QED
        BY <4>1
    <3>3. QED
      BY <3>1, <3>2
  <2>2. CASE Cardinality(P) = n /\ \A x \in P : x.at > e
    <3>1. CASE P \subseteq F
      <4>1. same = P
        BY <1>2, <1>5, <2>2, <3>1
      <4>2. QED
        BY <2>2, <4>1
    <3>2. CASE ~(P \subseteq F)
      <4>1. PICK z \in P : z \notin F
        BY <3>2
      <4>2. Cardinality(F) = FeedLength /\ z.at > e /\ \A y \in F : y.at > z.at
        BY <1>2, <1>5, <2>2, <4>1
      <4>3. \A y \in F : y.at \in Nat /\ z.at \in Nat
        BY <1>2, <1>5, <4>1
      <4>4. newer = F
        BY <1>3, <4>2, <4>3
      <4>5. QED
        BY <4>2, <4>4
    <3>3. QED
      BY <3>1, <3>2
  <2>3. QED
    BY <1>5, <2>1, <2>2
<1> HIDE DEF newer, same
<1>6. CASE entries[e].kind = "resume"
  <2>1. \/ \E x \in R : x.at = e
        \/ Cardinality(R) = ResumesRead /\ \A x \in R : x.at > e
    BY <1>4, <1>6 DEF Complete
  <2>2. \/ \E x \in F : x.at = e
        \/ newer = F /\ Cardinality(newer) = FeedLength
        \/ Cardinality(same) = ResumesRead
    <3>1. \A x \in R \cup S : x \in R <=> x.row.kind = entries[e].kind
      BY <1>4, <1>6
    <3> HIDE DEF R, S
    <3>2. QED
      BY <1>5, <2>1, <3>1
  <2>3. QED
    BY <1>6, <2>2 DEF newer, same, F
<1>7. CASE entries[e].kind = "score"
  <2>1. \/ \E x \in S : x.at = e
        \/ Cardinality(S) = ScoresRead /\ \A x \in S : x.at > e
    BY <1>4, <1>7 DEF Complete
  <2>2. \/ \E x \in F : x.at = e
        \/ newer = F /\ Cardinality(newer) = FeedLength
        \/ Cardinality(same) = ScoresRead
    <3>1. \A x \in R \cup S : x \in S <=> x.row.kind = entries[e].kind
      BY <1>4, <1>7
    <3> HIDE DEF R, S
    <3>2. QED
      BY <1>5, <2>1, <3>1
  <2>3. QED
    BY <1>7, <2>2 DEF newer, same, F
<1>8. QED
  BY <1>3, <1>6, <1>7

\* The newest of the scores that were read.
LEMMA LatestIsRead ==
  ASSUME DashboardInv, Ring # "none"
  PROVE  /\ Latest \in scoresPart.rows
         /\ \A y \in scoresPart.rows : ~Newer(y, Latest)
<1>1. scoresPart.rows # {} /\ \A x \in scoresPart.rows : x.at \in 1 .. MaxRows
  BY DEF Ring, DashboardInv, DashboardData, DashboardItem
<1>2. PICK x \in scoresPart.rows : \A y \in scoresPart.rows : y.at <= x.at
  BY <1>1, OldestAndNewest
<1>3. \A y \in scoresPart.rows : ~Newer(y, x)
  <2>1. \A y \in scoresPart.rows : y.at \in Nat /\ x.at \in Nat /\ y.at <= x.at
    BY <1>1, <1>2, DashboardAssumption
  <2>2. QED
    BY <2>1 DEF Newer
<1>4. QED
  BY <1>3, Zenon DEF Latest

\* The call for an optimization, and the ring.
LEMMA CallAndRing ==
  ASSUME DashboardInv
  PROVE  CallIsForAResult /\ RingIsInTheFeed
<1> USE DashboardAssumption
<1>1. CallIsForAResult
  <2>1. SUFFICES ASSUME NEW item \in DashboardShows, item[1] = "optimise"
                 PROVE  entries[item[2]] = Deleted \/ entries[item[2]].score # "null"
    BY DEF CallIsForAResult
  <2>2. ShowOptCta /\ item[2] = Latest.at
    BY <2>1 DEF DashboardShows
  <2>3. Latest \in scoresPart.rows /\ Latest.row.status = "complete"
    BY <2>2, LatestIsRead DEF ShowOptCta
  <2>4. QED
    BY <2>2, <2>3 DEF DashboardInv, PartHolds, StillTrue
<1>2. RingIsInTheFeed
  <2>1. SUFFICES ASSUME FeedLength > ResumesRead, NEW item \in DashboardShows, item[1] = "report"
                 PROVE  <<"row", item[2]>> \in DashboardShows
    BY DEF RingIsInTheFeed
  <2>2. dashboard = "shown" /\ Ring # "none" /\ item[2] = Latest.at
    BY <2>1 DEF DashboardShows
  <2>3. Latest \in scoresPart.rows /\ \A y \in scoresPart.rows : ~Newer(y, Latest)
    BY <2>2, LatestIsRead
  <2>4. PICK x : x = Latest
    OBVIOUS
  <2>5. x \in BuildFeed
    <3> DEFINE read == resumesPart.rows \cup scoresPart.rows
               before == {y \in read : Newer(y, x)}
    <3>1. before \subseteq resumesPart.rows
      BY <2>3, <2>4
    <3>2. IsFiniteSet(resumesPart.rows) /\ Cardinality(resumesPart.rows) \in 0 .. ResumesRead
      BY DEF DashboardInv, PartHolds
    <3>3. Cardinality(before) <= Cardinality(resumesPart.rows) /\ Cardinality(before) \in Nat
      <4> HIDE DEF before
      <4>1. QED
        BY <3>1, <3>2, FS_Subset, FS_CardinalityType
    <3>4. Cardinality(before) < FeedLength
      <4> HIDE DEF before
      <4>1. QED
        BY <2>1, <3>2, <3>3
    <3>5. x \in read
      BY <2>3, <2>4
    <3>6. QED
      BY <3>4, <3>5 DEF BuildFeed, Newest
  <2>6. <<"row", x.at>> \in DashboardShows
    BY <2>2, <2>5 DEF DashboardShows
  <2>7. QED
    BY <2>2, <2>4, <2>6
<1>3. QED
  BY <1>1, <1>2

(***************************************************************************)
(* For any limits of the queries and of the feed: whatever is created,     *)
(* computed or deleted between and after the two queries, the feed lacks   *)
(* only what there is no room for, the call to optimise is for a score     *)
(* that has been computed, and the score in the ring is in the feed.       *)
(***************************************************************************)
THEOREM DashboardStays == DashboardSpec => []DashboardIsRecent
<1>1. DashboardInit => DashboardInv
  BY DashboardStarts
<1>2. DashboardInv /\ [DashboardNext]_dashboardVars => DashboardInv'
  BY DashboardKeeps
<1>3. DashboardInv => DashboardIsRecent
  BY FeedOfWhatWasThere, CallAndRing DEF DashboardIsRecent
<1>4. QED
  BY <1>1, <1>2, <1>3, PTL DEF DashboardSpec

\* The types of the dashboard, for any bounds.
THEOREM DashboardTypeCorrect == DashboardSpec => []DashboardTypeOK
<1>1. DashboardInit => DashboardInv
  BY DashboardStarts
<1>2. DashboardInv /\ [DashboardNext]_dashboardVars => DashboardInv'
  BY DashboardKeeps
<1>3. ASSUME DashboardInv PROVE DashboardTypeOK
  <2>1. \A e \in DOMAIN entries : entries[e] \in DashboardRows
    BY <1>3 DEF DashboardInv, DashboardData
  <2>2. Cardinality(resumesPart.rows) <= ResumesRead /\ Cardinality(scoresPart.rows) <= ScoresRead
    BY <1>3, DashboardAssumption DEF DashboardInv, PartHolds
  <2>3. QED
    BY <1>3, <2>1, <2>2 DEF DashboardInv, DashboardData, DashboardWaits, DashboardTypeOK
<1>4. QED
  BY <1>1, <1>2, <1>3, PTL DEF DashboardSpec

-------------------------------------------------------------------------------
(* All pages.                                                                *)

\* A behaviour of the instance that TLC checks is one of the page it starts with.
LEMMA OnePageMoves ==
  MCSpec =>
    \/ [](part = "scorePage") /\ ScorePageSpec
    \/ [](part = "resumePage") /\ ResumePageSpec
    \/ [](part = "settings") /\ ProfileSettingsSpec
    \/ [](part = "upload") /\ UploadPageSpec
    \/ [](part = "lists") /\ ListPagesSpec
    \/ [](part = "billing") /\ BillingPageSpec
    \/ [](part = "dashboard") /\ DashboardSpec
    \/ [](part = "job") /\ JobPageSpec
    \/ [](part = "signIn") /\ SignInTabSpec
<1>1. MCSpec /\ part = "scorePage" => [](part = "scorePage") /\ ScorePageSpec
  <2>1. MCInit => ScorePageInit
    BY Zenon DEF MCInit
  <2>2. part = "scorePage" /\ [MCNext]_mcVars => (part = "scorePage")' /\ [ScorePageNext]_scorePageVars
    BY Zenon DEF MCNext, mcVars
  <2>3. QED
    BY <2>1, <2>2, PTL DEF MCSpec, ScorePageSpec
<1>2. MCSpec /\ part = "resumePage" => [](part = "resumePage") /\ ResumePageSpec
  <2>1. MCInit => ResumePageInit
    BY Zenon DEF MCInit
  <2>2. part = "resumePage" /\ [MCNext]_mcVars => (part = "resumePage")' /\ [ResumePageNext]_resumePageVars
    BY Zenon DEF MCNext, mcVars
  <2>3. QED
    BY <2>1, <2>2, PTL DEF MCSpec, ResumePageSpec
<1>3. MCSpec /\ part = "settings" => [](part = "settings") /\ ProfileSettingsSpec
  <2>1. MCInit => ProfileSettingsInit
    BY Zenon DEF MCInit
  <2>2. part = "settings" /\ [MCNext]_mcVars => (part = "settings")' /\ [ProfileSettingsNext]_settingsVars
    BY Zenon DEF MCNext, mcVars
  <2>3. QED
    BY <2>1, <2>2, PTL DEF MCSpec, ProfileSettingsSpec
<1>4. MCSpec /\ part = "upload" => [](part = "upload") /\ UploadPageSpec
  <2>1. MCInit => UploadPageInit
    BY Zenon DEF MCInit
  <2>2. part = "upload" /\ [MCNext]_mcVars => (part = "upload")' /\ [UploadPageNext]_uploadPageVars
    BY Zenon DEF MCNext, mcVars
  <2>3. QED
    BY <2>1, <2>2, PTL DEF MCSpec, UploadPageSpec
<1>5. MCSpec /\ part = "lists" => [](part = "lists") /\ ListPagesSpec
  <2>1. MCInit => ListPagesInit
    BY Zenon DEF MCInit
  <2>2. part = "lists" /\ [MCNext]_mcVars => (part = "lists")' /\ [ListPagesNext]_listPagesVars
    BY Zenon DEF MCNext, mcVars
  <2>3. QED
    BY <2>1, <2>2, PTL DEF MCSpec, ListPagesSpec
<1>6. MCSpec /\ part = "billing" => [](part = "billing") /\ BillingPageSpec
  <2>1. MCInit => BillingPageInit
    BY Zenon DEF MCInit
  <2>2. part = "billing" /\ [MCNext]_mcVars => (part = "billing")' /\ [BillingPageNext]_billingPageVars
    BY Zenon DEF MCNext, mcVars
  <2>3. QED
    BY <2>1, <2>2, PTL DEF MCSpec, BillingPageSpec
<1>7. MCSpec /\ part = "dashboard" => [](part = "dashboard") /\ DashboardSpec
  <2>1. MCInit => DashboardInit
    BY Zenon DEF MCInit
  <2>2. part = "dashboard" /\ [MCNext]_mcVars => (part = "dashboard")' /\ [DashboardNext]_dashboardVars
    BY Zenon DEF MCNext, mcVars
  <2>3. QED
    BY <2>1, <2>2, PTL DEF MCSpec, DashboardSpec
<1>8. MCSpec /\ part = "job" => [](part = "job") /\ JobPageSpec
  <2>1. MCInit => JobPageInit
    BY Zenon DEF MCInit
  <2>2. part = "job" /\ [MCNext]_mcVars => (part = "job")' /\ [JobPageNext]_jobPageVars
    BY Zenon DEF MCNext, mcVars
  <2>3. QED
    BY <2>1, <2>2, PTL DEF MCSpec, JobPageSpec
<1>9. MCSpec /\ part = "signIn" => [](part = "signIn") /\ SignInTabSpec
  <2>1. MCInit => SignInTabInit
    BY Zenon DEF MCInit
  <2>2. part = "signIn" /\ [MCNext]_mcVars => (part = "signIn")' /\ [SignInTabNext]_signInTabVars
    BY Zenon DEF MCNext, mcVars
  <2>3. QED
    BY <2>1, <2>2, PTL DEF MCSpec, SignInTabSpec
<1>10. MCInit =>
       \/ part = "scorePage"
       \/ part = "resumePage"
       \/ part = "settings"
       \/ part = "upload"
       \/ part = "lists"
       \/ part = "billing"
       \/ part = "dashboard"
       \/ part = "job"
       \/ part = "signIn"
  BY Zenon DEF MCInit
<1>11. QED
  BY <1>1, <1>2, <1>3, <1>4, <1>5, <1>6, <1>7, <1>8, <1>9, <1>10, PTL DEF MCSpec

(***************************************************************************)
(* Whatever page it is that somebody has open, its state is well typed, for *)
(* any values of the constants of all of them.                             *)
(***************************************************************************)
THEOREM WebTypeCorrect == MCSpec => []WebTypesOK
<1>1. part = "scorePage" /\ ScorePageTypeOK => WebTypesOK
  BY DEF WebTypesOK
<1>2. part = "resumePage" /\ ResumePageTypeOK => WebTypesOK
  BY DEF WebTypesOK
<1>3. part = "settings" /\ ProfileSettingsTypeOK => WebTypesOK
  BY DEF WebTypesOK
<1>4. part = "upload" /\ UploadPageTypeOK => WebTypesOK
  BY DEF WebTypesOK
<1>5. part = "lists" /\ ListPagesTypeOK => WebTypesOK
  BY DEF WebTypesOK
<1>6. part = "billing" /\ BillingPageTypeOK => WebTypesOK
  BY DEF WebTypesOK
<1>7. part = "dashboard" /\ DashboardTypeOK => WebTypesOK
  BY DEF WebTypesOK
<1>8. part = "job" /\ JobPageTypeOK => WebTypesOK
  BY DEF WebTypesOK
<1>9. part = "signIn" /\ SignInTabTypeOK => WebTypesOK
  BY DEF WebTypesOK
<1>10. QED
  BY <1>1, <1>2, <1>3, <1>4, <1>5, <1>6, <1>7, <1>8, <1>9, OnePageMoves,
     ScorePageTypeCorrect, ResumePageTypeCorrect, SettingsTypeCorrect, UploadPageTypeCorrect,
     ListPagesTypeCorrect, BillingPageTypeCorrect, DashboardTypeCorrect, JobPageTypeCorrect,
     SignInTypeCorrect, PTL

(***************************************************************************)
(* What the pages with few properties of their own promise holds for any   *)
(* number of tabs, files, items, purchases, resumes and mishaps, for any   *)
(* size of the pages of the lists, and whatever other tabs and the workers *)
(* write meanwhile; what each of the promises excepts, it names.           *)
(***************************************************************************)
THEOREM EveryPageStays == MCSpec => []PagesAgree
<1>1. part = "upload" /\ UploadIsTheFile => PagesAgree
  BY DEF PagesAgree
<1>2. part = "lists" /\ ListsAgree => PagesAgree
  BY DEF PagesAgree
<1>3. part = "billing" /\ BillingPageAgrees => PagesAgree
  BY DEF PagesAgree
<1>4. part = "dashboard" /\ DashboardIsRecent => PagesAgree
  BY DEF PagesAgree
<1>5. part = "job" /\ JobPageAgrees => PagesAgree
  BY DEF PagesAgree
<1>6. part = "signIn" /\ ConnectArrives /\ SpinnerMeansWaiting => PagesAgree
  BY DEF PagesAgree
<1>7. part = "scorePage" => PagesAgree
  BY DEF PagesAgree
<1>8. part = "resumePage" => PagesAgree
  BY DEF PagesAgree
<1>9. part = "settings" => PagesAgree
  BY DEF PagesAgree
<1>10. QED
  BY <1>1, <1>2, <1>3, <1>4, <1>5, <1>6, <1>7, <1>8, <1>9, OnePageMoves,
     UploadStays, ListsStay, BillingPageStays, DashboardStays, JobPageStays, SignInStays, PTL

===============================================================================
