---------------------------- MODULE ResumeVersions ----------------------------
(***************************************************************************)
(* The version numbers of one user's resumes: createVersionRow reads the   *)
(* highest number of the rows that are not deleted and inserts the next    *)
(* one, in two statements; a partial unique index watches over the rows    *)
(* that are not deleted; deleteVersion gives a number back.                *)
(***************************************************************************)
EXTENDS Naturals, FiniteSets

CONSTANT Upload   \* the uploads of the user

ASSUME ResumeVersionsAssumption == IsFiniteSet(Upload)

VARIABLES
  uploading,       \* how far an upload has come
  versionNumber,   \* the number it has chosen
  rivals           \* history: uploads inserted since an upload chose its number

versionVars == <<uploading, versionNumber, rivals>>

UploadState == {"new", "chosen", "inserted", "deleted", "refused", "rejected"}

ResumeVersionsTypeOK ==
  /\ uploading \in [Upload -> UploadState]
  /\ versionNumber \in [Upload -> 0 .. Cardinality(Upload)]
  /\ rivals \in [Upload -> SUBSET Upload]

ResumeVersionsInit ==
  /\ uploading = [u \in Upload |-> "new"]
  /\ versionNumber = [u \in Upload |-> 0]
  /\ rivals = [u \in Upload |-> {}]

\* deleted_at is null.
ActiveRows == {u \in Upload : uploading[u] = "inserted"}
Numbers == {versionNumber[u] : u \in ActiveRows}

Choose(u, n) ==
  /\ uploading[u] = "new"
  /\ versionNumber' = [versionNumber EXCEPT ![u] = n]
  /\ uploading' = [uploading EXCEPT ![u] = "chosen"]
  /\ rivals' = [rivals EXCEPT ![u] = {}]

\* Mutant: the rows are counted.
ChooseByCount(u) == Choose(u, Cardinality(ActiveRows) + 1)

\* Mutant: one more than that.
ChooseBeyond(u) ==
  \E n \in 0 .. 2 * Cardinality(Upload) :
    /\ n \in Numbers \cup {0} /\ \A k \in Numbers : k <= n
    /\ Choose(u, n + 2)

\* coalesce(max(version_number), 0) + 1.
ChooseNumber(u) ==
  \E n \in 0 .. Cardinality(Upload) :
    /\ n \in Numbers \cup {0} /\ \A k \in Numbers : k <= n
    /\ Choose(u, n + 1)

\* The type or the size of the file is refused, or the process dies.
Refuse(u) ==
  /\ uploading[u] \in {"new", "chosen"}
  /\ uploading' = [uploading EXCEPT ![u] = "refused"]
  /\ UNCHANGED <<versionNumber, rivals>>

Inserted(u) ==
  /\ uploading' = [uploading EXCEPT ![u] = "inserted"]
  /\ rivals' = [w \in Upload |->
       IF uploading[w] = "chosen" /\ w # u THEN rivals[w] \cup {u} ELSE rivals[w]]

\* Mutant: without the index.
InsertUnchecked(u) ==
  /\ uploading[u] = "chosen"
  /\ Inserted(u)
  /\ UNCHANGED versionNumber

\* The INSERT, which the index rejects when the number is there: a 500.
InsertRow(u) ==
  /\ uploading[u] = "chosen"
  /\ IF versionNumber[u] \in Numbers
       THEN uploading' = [uploading EXCEPT ![u] = "rejected"] /\ UNCHANGED rivals
       ELSE Inserted(u)
  /\ UNCHANGED versionNumber

DeleteRow(u) ==
  /\ uploading[u] = "inserted"
  /\ uploading' = [uploading EXCEPT ![u] = "deleted"]
  /\ UNCHANGED <<versionNumber, rivals>>

ResumeVersionsNext ==
  \E u \in Upload : ChooseNumber(u) \/ Refuse(u) \/ InsertRow(u) \/ DeleteRow(u)

ResumeVersionsSpec == ResumeVersionsInit /\ [][ResumeVersionsNext]_versionVars

-----------------------------------------------------------------------------
(* Correctness.                                                            *)

(***************************************************************************)
(* schema/resume.ts:92-95 "unique per user among ACTIVE (non-deleted) rows *)
(* only": however uploads and deletions interleave, no two versions that   *)
(* are there have the same number.                                         *)
(***************************************************************************)
ActiveNumbersDiffer ==
  \A u, w \in ActiveRows : versionNumber[u] = versionNumber[w] => u = w

(***************************************************************************)
(* resume.service.ts:115-122: the index never rejects an upload that ran   *)
(* alone: who gets the 500 has been overtaken by another upload of the     *)
(* same user between the two statements, and numbers that deletions gave   *)
(* back are free.                                                          *)
(***************************************************************************)
OnlyRivalsCollide ==
  \A u \in Upload : uploading[u] = "rejected" => rivals[u] # {}

(***************************************************************************)
(* resume.service.ts:115-140 and schema/resume.ts:92-95: the numbers of a  *)
(* user's versions differ, and only rivals meet the index.                 *)
(***************************************************************************)
NumbersAreKept == ActiveNumbersDiffer /\ OnlyRivalsCollide

=============================================================================
