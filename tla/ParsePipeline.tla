---------------------------- MODULE ParsePipeline ----------------------------
(***************************************************************************)
(* The upload and parse of a resume: the PUT of the file, the confirmation *)
(* (ResumeService.confirmUpload), the deletion (deleteVersion), the queue  *)
(* ai.resume-parse and ResumeParseProcessor, over resume_versions and the  *)
(* object storage.  Every version starts as the row that createVersionRow  *)
(* has inserted.  Confirmation q adds job q.                               *)
(***************************************************************************)
EXTENDS JobQueue

CONSTANTS
  Version,     \* the rows of resume_versions
  VersionOf    \* the version a confirmation names in its path

ASSUME ParseAssumption == VersionOf \in [Job -> Version]

VARIABLES
  status,    \* parseStatus ('uploading' is never written)
  parsed,    \* rawText and structuredData are not null
  error,     \* parseError is not null
  deleted,   \* deletedAt is not null
  file,      \* there is an object under storageKey
  purging,   \* versions whose object deleteVersion is about to delete
  confirm    \* how far the handler of a confirmation has come

rowVars == <<status, parsed, error>>
userVars == <<deleted, file, purging, confirm>>
vars == <<queueVars, rowVars, userVars>>

Status == {"pending", "uploaded", "parsing", "complete", "failed"}
ConfirmState == {"new", "checked", "found", "marked", "over"}

TypeOK ==
  /\ QueueTypeOK
  /\ status \in [Version -> Status]
  /\ parsed \in [Version -> BOOLEAN]
  /\ error \in [Version -> BOOLEAN]
  /\ deleted \in [Version -> BOOLEAN]
  /\ file \in [Version -> BOOLEAN]
  /\ purging \subseteq Version
  /\ confirm \in [Job -> ConfirmState]

Init ==
  /\ QueueInit
  /\ status = [v \in Version |-> "pending"]
  /\ parsed = [v \in Version |-> FALSE]
  /\ error = [v \in Version |-> FALSE]
  /\ deleted = [v \in Version |-> FALSE]
  /\ file = [v \in Version |-> FALSE]
  /\ purging = {}
  /\ confirm = [q \in Job |-> "new"]

\* UPDATE resume_versions SET ... WHERE id: a deleted row is written as well.
UpdateRow(v, st, hasText, failed) ==
  /\ status' = [status EXCEPT ![v] = st]
  /\ parsed' = [parsed EXCEPT ![v] = hasText]
  /\ error' = [error EXCEPT ![v] = failed]

-----------------------------------------------------------------------------
(* The client and the API.                                                 *)

\* The browser's PUT on the presigned URL, or the API's own one (proxyUpload).
\* The URL stays good after a confirmation and after a deletion; which PUT an
\* object comes from is left out.
Upload(v) ==
  /\ file' = [file EXCEPT ![v] = TRUE]
  /\ UNCHANGED <<queueVars, rowVars, deleted, purging, confirm>>

\* findOwnedVersion and the check of the status it has read.
CheckStatus(q) ==
  LET v == VersionOf[q]
  IN /\ confirm[q] = "new"
     /\ confirm' = [confirm EXCEPT
          ![q] = IF ~deleted[v] /\ status[v] = "pending" THEN "checked" ELSE "over"]
     /\ UNCHANGED <<queueVars, rowVars, deleted, file, purging>>

\* Mutant: the storage is not asked.
CheckNothing(q) ==
  /\ confirm[q] = "checked"
  /\ confirm' = [confirm EXCEPT ![q] = "found"]
  /\ UNCHANGED <<queueVars, rowVars, deleted, file, purging>>

\* storage.objectExists.
CheckObject(q) ==
  /\ confirm[q] = "checked"
  /\ confirm' = [confirm EXCEPT
       ![q] = IF file[VersionOf[q]] THEN "found" ELSE "over"]
  /\ UNCHANGED <<queueVars, rowVars, deleted, file, purging>>

\* The UPDATE to 'uploaded', by id alone.
MarkUploaded(q) ==
  LET v == VersionOf[q]
  IN /\ confirm[q] = "found"
     /\ UpdateRow(v, "uploaded", parsed[v], error[v])
     /\ confirm' = [confirm EXCEPT ![q] = "marked"]
     /\ UNCHANGED <<queueVars, deleted, file, purging>>

\* queue.add, and the answer to the client.
Enqueue(q) ==
  /\ confirm[q] = "marked"
  /\ Add(q)
  /\ confirm' = [confirm EXCEPT ![q] = "over"]
  /\ UNCHANGED <<rowVars, deleted, file, purging>>

\* The API process dies, or the storage, database or Redis call throws.
Die(q) ==
  /\ Death
  /\ confirm[q] \in {"checked", "found", "marked"}
  /\ confirm' = [confirm EXCEPT ![q] = "over"]
  /\ UNCHANGED <<jobs, slots, failedEvents, rowVars, deleted, file, purging>>

\* deleteVersion: the row first ...
SoftDelete(v) ==
  /\ ~deleted[v]
  /\ deleted' = [deleted EXCEPT ![v] = TRUE]
  /\ purging' = purging \cup {v}
  /\ UNCHANGED <<queueVars, rowVars, file, confirm>>

\* ... then the object; an error of the storage is logged and forgotten.
Purge(v) ==
  /\ v \in purging
  /\ purging' = purging \ {v}
  /\ file' = [file EXCEPT ![v] = FALSE] \/ UNCHANGED file
  /\ UNCHANGED <<queueVars, rowVars, deleted, confirm>>

-----------------------------------------------------------------------------
(* The worker: process() and the listener of 'failed'.                     *)

WorkRow(s) == VersionOf[slots[s].job]

Take(s) ==
  /\ \E j \in Job : Pick(s, j)
  /\ UNCHANGED <<rowVars, userVars>>

\* No status guard: the row is marked whatever it says.
MarkParsing(s) ==
  /\ Advance(s, "picked", "guarded")
  /\ UpdateRow(WorkRow(s), "parsing", parsed[WorkRow(s)], error[WorkRow(s)])
  /\ UNCHANGED userVars

\* Without an object the download throws: see Fail.
Download(s) ==
  /\ Advance(s, "guarded", "working")
  /\ file[WorkRow(s)]
  /\ UNCHANGED <<rowVars, userVars>>

\* Mutant: the error of an earlier attempt is left behind.
WriteParsedKeepError(s) ==
  /\ Advance(s, "working", "returned")
  /\ UpdateRow(WorkRow(s), "complete", TRUE, error[WorkRow(s)])
  /\ UNCHANGED userVars

\* The parser and the extractor have answered: the single UPDATE of the results.
WriteParsed(s) ==
  /\ Advance(s, "working", "returned")
  /\ UpdateRow(WorkRow(s), "complete", TRUE, FALSE)
  /\ UNCHANGED userVars

Return(s) ==
  /\ Ack(s)
  /\ UNCHANGED <<rowVars, userVars>>

\* A missing object, an unreadable file, an AI or database error.
Fail(s) ==
  /\ Throw(s)
  /\ UNCHANGED <<rowVars, userVars>>

\* Mutant: the failure of the last attempt is not written.
OnFailedButLast(e) ==
  /\ Handled(e)
  /\ IF e[2] < Attempts
       THEN UpdateRow(VersionOf[e[1]], "failed", parsed[VersionOf[e[1]]], TRUE)
       ELSE UNCHANGED rowVars
  /\ UNCHANGED userVars

\* onFailed, on every failed attempt: UPDATE by id alone.
OnFailed(e) ==
  /\ Handled(e)
  /\ UpdateRow(VersionOf[e[1]], "failed", parsed[VersionOf[e[1]]], TRUE)
  /\ UNCHANGED userVars

Requeue(j) ==
  /\ RetryDue(j) \/ Recover(j)
  /\ UNCHANGED <<rowVars, userVars>>

WorkerFault ==
  /\ Crash \/ \E s \in Slot : LoseLock(s)
  /\ UNCHANGED <<rowVars, userVars>>

-----------------------------------------------------------------------------
Handle(q) == CheckObject(q) \/ MarkUploaded(q) \/ Enqueue(q)
Process(s) == MarkParsing(s) \/ Download(s) \/ WriteParsed(s) \/ Return(s) \/ Fail(s)

Next ==
  \/ \E v \in Version : Upload(v) \/ SoftDelete(v) \/ Purge(v)
  \/ \E q \in Job : CheckStatus(q) \/ Handle(q) \/ Die(q)
  \/ \E s \in Slot : Take(s) \/ Process(s)
  \/ \E e \in Event : OnFailed(e)
  \/ \E j \in Job : Requeue(j)
  \/ WorkerFault

Spec == Init /\ [][Next]_vars

-----------------------------------------------------------------------------
(* Correctness.                                                            *)

(***************************************************************************)
(* The statuses mean what resume.ts:19-26 says of the columns: a complete  *)
(* version has its text and data and no error, a failed one has an error,  *)
(* in any order of confirmations, retries and late listeners.              *)
(***************************************************************************)
StatusMatchesColumns ==
  \A v \in Version :
    /\ status[v] = "complete" => parsed[v] /\ ~error[v]
    /\ status[v] = "failed" => error[v]

(***************************************************************************)
(* A version the user still sees, once confirmed, has its file: the worker *)
(* finds something to download and getVersion's download link works.  The  *)
(* deletion takes the row out of sight before it takes the file away, and  *)
(* a confirmation in flight cannot slip between the two.                   *)
(***************************************************************************)
FileIsThere ==
  \A v \in Version :
    ~deleted[v] /\ status[v] \in {"uploaded", "parsing", "complete"} => file[v]

\* Somebody will still turn version v from uploaded or parsing into an outcome.
Pursued(v) ==
  \/ \E q \in Job : VersionOf[q] = v
       /\ (confirm[q] = "marked" \/ jobs[q].state \in {"wait", "delayed"})
  \/ \E s \in Slot : slots[s].pc \in {"picked", "guarded", "working"} /\ WorkRow(s) = v
  \/ \E e \in failedEvents : VersionOf[e[1]] = v

(***************************************************************************)
(* As long as nothing has crashed or lost its lock, a version that is      *)
(* uploaded or parsing (and that the API refuses to confirm again) is      *)
(* still pursued by a handler, a job, a slot or a listener, also when two  *)
(* confirmations race or a deletion takes the file before the download.    *)
(***************************************************************************)
NoOrphan ==
  Calm => \A v \in Version : status[v] \in {"uploaded", "parsing"} => Pursued(v)

=============================================================================
