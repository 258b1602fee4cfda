-------------------------------- MODULE UploadPage --------------------------------
(***************************************************************************)
(* The page that uploads a resume: one file is chosen, sent to the API,    *)
(* which stores it as a version and queues its parse, and the page goes to *)
(* that version.  A file may also be dropped on the page, at any time.     *)
(***************************************************************************)
EXTENDS Naturals, FiniteSets

CONSTANTS
  ResumeFile,   \* files
  Sending,      \* uploads
  MaxBroken     \* bound: uploads that fail

ASSUME UploadPageAssumption ==
  MaxBroken \in Nat /\ ResumeFile \cap {"none", "unsupported"} = {} /\ "here" \notin Sending

VARIABLES
  file,         \* file; "none" for null
  uploadState,  \* state
  uploadError,  \* error is shown
  sendings,     \* the requests of uploadResume
  storedFiles,  \* the file of each version that was created
  wentTo,       \* the version the page went to; "here" before
  broken,       \* uploads that failed
  droppedOver,  \* history: a file was dropped while an upload was under way
  sentTwice     \* history: two uploads were under way at once

uploadHistory == <<droppedOver, sentTwice>>
uploadPageVars == <<file, uploadState, uploadError, sendings, storedFiles, wentTo, broken,
                    uploadHistory>>

NotSent == [at |-> "none", file |-> "none"]
OnTheWay == {u \in Sending : sendings[u].at \in {"sent", "created", "put", "confirmed"}}
IsLoading == uploadState \in {"uploading", "done"}

UploadPageTypeOK ==
  /\ file \in ResumeFile \cup {"none"}
  /\ uploadState \in {"idle", "uploading", "done", "error"}
  /\ uploadError \in BOOLEAN
  /\ sendings \in [Sending -> [at : {"none", "sent", "created", "put", "confirmed", "over"},
                               file : ResumeFile \cup {"none"}]]
  /\ storedFiles \in [Sending -> ResumeFile \cup {"none"}]
  /\ wentTo \in Sending \cup {"here"}
  /\ broken \in 0 .. MaxBroken
  /\ droppedOver \in BOOLEAN /\ sentTwice \in BOOLEAN
  /\ uploadState = "uploading" => OnTheWay # {}
  /\ uploadState = "done" => wentTo # "here"

UploadPageInit ==
  /\ file = "none" /\ uploadState = "idle" /\ uploadError = FALSE
  /\ sendings = [u \in Sending |-> NotSent]
  /\ storedFiles = [u \in Sending |-> "none"]
  /\ wentTo = "here" /\ broken = 0
  /\ droppedOver = FALSE /\ sentTwice = FALSE

\* selectFile: a file that is refused leaves the one that was chosen.
SelectFile(f) ==
  IF f = "unsupported" THEN uploadError' = TRUE /\ UNCHANGED <<file, uploadState>>
  ELSE file' = f /\ uploadError' = FALSE /\ uploadState' = "idle"

\* The file dialog, which opens only while nothing is loading.
ChooseFile(f) ==
  /\ wentTo = "here" /\ ~IsLoading
  /\ SelectFile(f)
  /\ UNCHANGED <<sendings, storedFiles, wentTo, broken, uploadHistory>>

\* handleDrop.
DropFile(f) ==
  /\ wentTo = "here"
  /\ SelectFile(f)
  /\ droppedOver' = (droppedOver \/ OnTheWay # {})
  /\ UNCHANGED <<sendings, storedFiles, wentTo, broken, sentTwice>>

RemoveFile ==
  /\ wentTo = "here" /\ file # "none" /\ ~IsLoading
  /\ file' = "none" /\ uploadState' = "idle" /\ uploadError' = FALSE
  /\ UNCHANGED <<sendings, storedFiles, wentTo, broken, uploadHistory>>

\* Mutant: the button stays enabled.
HandleUploadAgain ==
  /\ wentTo = "here" /\ file # "none"
  /\ \E u \in Sending : /\ sendings[u].at = "none"
                        /\ sendings' = [sendings EXCEPT ![u] = [at |-> "sent", file |-> file]]
  /\ uploadState' = "uploading" /\ uploadError' = FALSE
  /\ sentTwice' = (sentTwice \/ OnTheWay # {})
  /\ UNCHANGED <<file, storedFiles, wentTo, broken, droppedOver>>

HandleUpload ==
  /\ wentTo = "here" /\ file # "none" /\ ~IsLoading
  /\ \E u \in Sending : /\ sendings[u].at = "none"
                        /\ sendings' = [sendings EXCEPT ![u] = [at |-> "sent", file |-> file]]
  /\ uploadState' = "uploading" /\ uploadError' = FALSE
  /\ sentTwice' = (sentTwice \/ OnTheWay # {})
  /\ UNCHANGED <<file, storedFiles, wentTo, broken, droppedOver>>

\* The controller: the row, the object, the confirmation.
ServeUpload(u) ==
  /\ \/ /\ sendings[u].at = "sent"
        /\ storedFiles' = [storedFiles EXCEPT ![u] = sendings[u].file]
        /\ sendings' = [sendings EXCEPT ![u].at = "created"]
     \/ /\ sendings[u].at = "created" /\ sendings' = [sendings EXCEPT ![u].at = "put"]
        /\ UNCHANGED storedFiles
     \/ /\ sendings[u].at = "put" /\ sendings' = [sendings EXCEPT ![u].at = "confirmed"]
        /\ UNCHANGED storedFiles
  /\ UNCHANGED <<file, uploadState, uploadError, wentTo, broken, uploadHistory>>

\* Mutant: the version of an earlier try may be taken.
UploadArrivesAtAny(u) ==
  /\ wentTo = "here" /\ sendings[u].at = "confirmed"
  /\ uploadState' = "done" /\ wentTo' \in {v \in Sending : storedFiles[v] # "none"}
  /\ sendings' = [sendings EXCEPT ![u].at = "over"]
  /\ UNCHANGED <<file, uploadError, storedFiles, broken, uploadHistory>>

\* Mutant: Done, and the page stays.
UploadArrivesStaying(u) ==
  /\ wentTo = "here" /\ sendings[u].at = "confirmed"
  /\ uploadState' = "done"
  /\ sendings' = [sendings EXCEPT ![u].at = "over"]
  /\ UNCHANGED <<file, uploadError, storedFiles, wentTo, broken, uploadHistory>>

\* Whatever the page shows by then.
UploadArrives(u) ==
  /\ wentTo = "here" /\ sendings[u].at = "confirmed"
  /\ uploadState' = "done" /\ wentTo' = u
  /\ sendings' = [sendings EXCEPT ![u].at = "over"]
  /\ UNCHANGED <<file, uploadError, storedFiles, broken, uploadHistory>>

UploadFails(u) ==
  /\ wentTo = "here" /\ u \in OnTheWay
  /\ broken < MaxBroken /\ broken' = broken + 1
  /\ uploadState' = "error" /\ uploadError' = TRUE
  /\ sendings' = [sendings EXCEPT ![u].at = "over"]
  /\ UNCHANGED <<file, storedFiles, wentTo, uploadHistory>>

UploadPageNext ==
  \/ RemoveFile \/ HandleUpload
  \/ \E f \in ResumeFile \cup {"unsupported"} : ChooseFile(f) \/ DropFile(f)
  \/ \E u \in Sending : ServeUpload(u) \/ UploadArrives(u) \/ UploadFails(u)

UploadPageSpec == UploadPageInit /\ [][UploadPageNext]_uploadPageVars

-----------------------------------------------------------------------------
(* Correctness.                                                            *)

(***************************************************************************)
(* upload/page.tsx:38-62: the page goes to a version of the file that it   *)
(* shows, however often an upload failed and was tried again; unless a     *)
(* file was dropped while an upload was under way.                         *)
(***************************************************************************)
GoesToTheFileShown == wentTo # "here" /\ ~droppedOver => storedFiles[wentTo] = file

(***************************************************************************)
(* upload/page.tsx:49-64: two uploads are under way at once, so that the   *)
(* file may become two versions, only if a file was dropped during the     *)
(* first.                                                                  *)
(***************************************************************************)
OneUploadAtATime == sentTwice => droppedOver

(***************************************************************************)
(* upload/page.tsx: one file is sent once, and its version shown.          *)
(***************************************************************************)
UploadIsTheFile == GoesToTheFileShown /\ OneUploadAtATime

===================================================================================
