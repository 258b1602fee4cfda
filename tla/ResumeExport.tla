------------------------------ MODULE ResumeExport ------------------------------
(***************************************************************************)
(* What becomes of a resume on paper: the model extracts it and rewrites   *)
(* it, the score page compares the two, and the resume page exports either *)
(* of them as a PDF and as a DOCX, which two services print independently. *)
(* The model writes <UNKNOWN> ("UNKNOWN" here) for what it does not find.  *)
(***************************************************************************)
EXTENDS Naturals, Sequences, SequencesExt

CONSTANTS
  Text,         \* the texts in a resume
  Resumes,      \* what the model may extract from the text of a resume
  Rewrites,     \* what it may make of a resume for a job
  AtsScore      \* the rows of ats_scores of the version

\* resumeDataSchema: the ways to reach somebody are an e-mail address and what else there is.
ResumeData ==
  [name : Text, ways : Seq(Text) \ {<<>>}, summary : Text,
   experience : Seq([title : Text, company : Text, start : Text, end : Text,
                     current : BOOLEAN, description : Text, highlights : Seq(Text)]),
   education : Seq([degree : Text, field : Text, institution : Text,
                    start : Text, end : Text]),
   skills : Seq([name : Text, category : Text]),
   certifications : Seq([name : Text, issuer : Text, date : Text])]

ASSUME ResumeExportAssumption ==
  /\ {"", "UNKNOWN"} \subseteq Text /\ Resumes \cup Rewrites \subseteq ResumeData
  /\ "original" \notin AtsScore

VARIABLES
  resumeRow,     \* the version: parsing, complete or deleted, with its structured_data
  rewritten,     \* the score rows: optimized_structured_data and the change log
  pageReady,     \* the page has the version and its optimizations, ...
  exportable,    \* ... as it has listed them
  selectedExport,
  exports,       \* the export under way of each format
  exportError    \* exportError is shown

exportVars ==
  <<resumeRow, rewritten, pageReady, exportable, selectedExport, exports, exportError>>

Format   == {"pdf", "docx"}
Source   == {"original"} \cup AtsScore
Blank    == [name |-> "", ways |-> <<"">>, summary |-> "", experience |-> <<>>,
             education |-> <<>>, skills |-> <<>>, certifications |-> <<>>]
NoExport == [at |-> "none", of |-> "original"]

\* resumeDataSchema: what is required is not empty, and the e-mail address is one.
IsResumeData(d) ==
  /\ d.name # "" /\ d.ways[1] \notin {"", "UNKNOWN"}
  /\ \A exp \in Range(d.experience) : "" \notin {exp.title, exp.company, exp.start}
  /\ \A edu \in Range(d.education) : "" \notin {edu.degree, edu.field, edu.institution, edu.start}
  /\ \A skill \in Range(d.skills) : skill.name # ""
  /\ \A cert \in Range(d.certifications) : "" \notin {cert.name, cert.issuer}

ResumeExportInit ==
  /\ resumeRow = [status |-> "parsing", data |-> Blank]
  /\ rewritten = [s \in AtsScore |-> [status |-> "none", data |-> Blank, log |-> {}]]
  /\ pageReady = FALSE /\ exportable = {} /\ selectedExport = "original"
  /\ exports = [f \in Format |-> NoExport]
  /\ exportError = FALSE

-----------------------------------------------------------------------------
(* On paper.  A line has a kind and the texts that are not empty or fixed. *)

Line(kind, texts) == [is |-> kind, says |-> texts]
Section(title, lines) == IF lines = <<>> THEN <<>> ELSE <<Line("section", <<title>>)>> \o lines
Optional(kind, text) == IF text = "" THEN <<>> ELSE <<Line(kind, <<text>>)>>

\* What stands at some of the places of a list, in order.
AtPlaces(list, places) ==
  FlattenSeq([i \in DOMAIN list |-> IF i \in places THEN <<list[i]>> ELSE <<>>])

Clean(value) == IF value = "UNKNOWN" THEN "" ELSE value
Cleaned(values) ==
  LET clean == [i \in DOMAIN values |-> Clean(values[i])]
  IN  AtPlaces(clean, {i \in DOMAIN values : clean[i] # ""})

CleanDate(start, end) ==
  IF Clean(end) # "" THEN <<Clean(start), Clean(end)>>
  ELSE IF Clean(start) # "" THEN <<Clean(start)>> ELSE <<>>

\* Skills by category, in the order in which the categories come up.
ByCategory(skills) ==
  LET Same(i) == {j \in DOMAIN skills : skills[j].category = skills[i].category}
      Group(i) == <<skills[i].category>>
                    \o AtPlaces([j \in DOMAIN skills |-> skills[j].name], Same(i))
  IN  AtPlaces([i \in DOMAIN skills |-> Group(i)],
               {i \in DOMAIN skills : \A j \in Same(i) : i <= j})

PdfHeader(d) ==
  LET parts == Cleaned(d.ways)
  IN  <<Line("name", <<d.name>>)>> \o (IF parts = <<>> THEN <<>> ELSE <<Line("contact", parts)>>)

PdfExperience(d) ==
  FlattenSeq([i \in DOMAIN d.experience |->
    LET exp == d.experience[i]
        dateRange == IF exp.current THEN <<Clean(exp.start), "Present">>
                     ELSE CleanDate(exp.start, exp.end)
    IN  <<Line("entry", <<Clean(exp.title), Clean(exp.company)>> \o dateRange)>>
        \o Optional("context", Clean(exp.description))
        \o [h \in DOMAIN exp.highlights |-> Line("highlight", <<exp.highlights[h]>>)]])

PdfEducation(d) ==
  FlattenSeq([i \in DOMAIN d.education |->
    LET edu == d.education[i]
    IN  <<Line("entry", <<Clean(edu.degree), Clean(edu.field)>> \o CleanDate(edu.start, edu.end)),
          Line("text", <<Clean(edu.institution)>>)>>])

PdfSkills(d) ==
  LET groups == ByCategory(d.skills) IN [i \in DOMAIN groups |-> Line("skills", groups[i])]

PdfCertifications(d) ==
  [i \in DOMAIN d.certifications |->
     LET cert == d.certifications[i]
     IN  Line("certificate", <<Clean(cert.name), Clean(cert.issuer)>> \o Cleaned(<<cert.date>>))]

Pdf(d) ==
  PdfHeader(d)
    \o Section("Professional Summary", Optional("text", d.summary))
    \o Section("Experience", PdfExperience(d))
    \o Section("Education", PdfEducation(d))
    \o Section("Skills", PdfSkills(d))
    \o Section("Certifications", PdfCertifications(d))

\* Mutant: the end date of a role that goes on is printed.
DocxRoleDated(exp) ==
  <<Line("entry", <<Clean(exp.title), Clean(exp.company)>> \o CleanDate(exp.start, exp.end))>>
    \o Optional("context", Clean(exp.description))
    \o [h \in DOMAIN exp.highlights |-> Line("highlight", <<exp.highlights[h]>>)]

\* Mutant: the description is printed as it is.
DocxRoleUnclean(exp) ==
  <<Line("entry", <<Clean(exp.title), Clean(exp.company)>> \o
       (IF exp.current THEN <<Clean(exp.start), "Present">> ELSE CleanDate(exp.start, exp.end)))>>
    \o Optional("context", exp.description)
    \o [h \in DOMAIN exp.highlights |-> Line("highlight", <<exp.highlights[h]>>)]

DocxRole(exp) ==
  <<Line("entry", <<Clean(exp.title), Clean(exp.company)>> \o
       (IF exp.current THEN <<Clean(exp.start), "Present">> ELSE CleanDate(exp.start, exp.end)))>>
    \o Optional("context", Clean(exp.description))
    \o [h \in DOMAIN exp.highlights |-> Line("highlight", <<exp.highlights[h]>>)]

DocxSchool(edu) ==
  <<Line("entry", <<Clean(edu.degree), Clean(edu.field)>> \o CleanDate(edu.start, edu.end)),
    Line("text", <<Clean(edu.institution)>>)>>

DocxCertificate(cert) ==
  LET issued == IF Clean(cert.date) = "" THEN <<>> ELSE <<Clean(cert.date)>>
  IN  Line("certificate", <<Clean(cert.name), Clean(cert.issuer)>> \o issued)

Docx(d) ==
  LET parts  == Cleaned(d.ways)
      groups == ByCategory(d.skills)
  IN  <<Line("name", <<d.name>>)>> \o (IF parts = <<>> THEN <<>> ELSE <<Line("contact", parts)>>)
        \o Section("Professional Summary", Optional("text", d.summary))
        \o Section("Experience",
             FlattenSeq([i \in DOMAIN d.experience |-> DocxRole(d.experience[i])]))
        \o Section("Education",
             FlattenSeq([i \in DOMAIN d.education |-> DocxSchool(d.education[i])]))
        \o Section("Skills", [i \in DOMAIN groups |-> Line("skills", groups[i])])
        \o Section("Certifications",
             [i \in DOMAIN d.certifications |-> DocxCertificate(d.certifications[i])])

-----------------------------------------------------------------------------
(* The comparison on the score page.  A place is the summary, the skills   *)
(* or a highlight of a role.                                               *)

Highlights(d) ==
  UNION {{<<"experience", i, h>> : h \in DOMAIN d.experience[i].highlights} :
           i \in DOMAIN d.experience}

PlaceIn(d, place) ==
  CASE place[1] = "summary"    -> <<d.summary>>
    [] place[1] = "skills"     -> d.skills
    [] place[1] = "experience" -> <<d.experience[place[2]].highlights[place[3]]>>

Differs(old, new, place) ==
  place \notin {<<"summary">>, <<"skills">>} \cup Highlights(old) \/ PlaceIn(old, place) # PlaceIn(new, place)

\* A change log as the prompt asks for it: an entry for every modification.
HonestLog(old, new) ==
  {place \in {<<"summary">>, <<"skills">>} \cup Highlights(new) : Differs(old, new, place)}

\* The right column: the roles are those of the original.
DiffShown(old, new) ==
  {<<"skills">>} \cup (IF old.summary = "" /\ new.summary = "" THEN {} ELSE {<<"summary">>})
    \cup {place \in Highlights(new) : place[2] \in DOMAIN old.experience}

\* Mutant: a change of a role marks all of its highlights.
DiffMarkedByRole(old, new, log) ==
  {place \in DiffShown(old, new) :
     \E change \in log : change[1] = place[1] /\ (Len(place) = 3 => change[2] = place[2])}

DiffMarked(old, new, log) == DiffShown(old, new) \cap log

-----------------------------------------------------------------------------
\* The worker's extraction; an answer that is no tool call or not valid is an
\* attempt that failed (see ParsePipeline).
ExtractResume ==
  /\ resumeRow.status = "parsing"
  /\ \E d \in Resumes : IsResumeData(d) /\ resumeRow' = [status |-> "complete", data |-> d]
  /\ UNCHANGED <<rewritten, pageReady, exportable, selectedExport, exports, exportError>>

\* Mutant: the resume is not validated.
OptimizeUnvalidated(s) ==
  /\ rewritten[s].status = "none" /\ resumeRow.status # "parsing"
  /\ \E d \in Rewrites, kept \in BOOLEAN :
       rewritten' = [rewritten EXCEPT ![s] =
         [status |-> "complete", data |-> d,
          log |-> IF kept THEN HonestLog(resumeRow.data, d) ELSE {}]]
  /\ UNCHANGED <<resumeRow, pageReady, exportable, selectedExport, exports, exportError>>

\* The rewritten resume is validated, the change log is taken as it is, and as
\* an empty one when it is no list.  A deleted version is still rewritten.
OptimizeResume(s) ==
  /\ rewritten[s].status = "none" /\ resumeRow.status # "parsing"
  /\ \E d \in Rewrites, kept \in BOOLEAN :
       /\ IsResumeData(d)
       /\ rewritten' = [rewritten EXCEPT ![s] =
            [status |-> "complete", data |-> d,
             log |-> IF kept THEN HonestLog(resumeRow.data, d) ELSE {}]]
  /\ UNCHANGED <<resumeRow, pageReady, exportable, selectedExport, exports, exportError>>

\* In another tab: the version is deleted (its data stays), or the job with its scores.
DeleteElsewhere ==
  /\ \/ /\ resumeRow.status = "complete" /\ resumeRow' = [resumeRow EXCEPT !.status = "deleted"]
        /\ UNCHANGED rewritten
     \/ \E s \in AtsScore :
          /\ rewritten[s].status = "complete"
          /\ rewritten' = [rewritten EXCEPT ![s].status = "deleted"]
          /\ UNCHANGED resumeRow
  /\ UNCHANGED <<pageReady, exportable, selectedExport, exports, exportError>>

\* Mutant: every score of the version is listed.
ListAllOptimizations ==
  /\ ~pageReady /\ resumeRow.status = "complete"
  /\ pageReady' = TRUE
  /\ exportable' = {s \in AtsScore : rewritten[s].status # "deleted"}
  /\ UNCHANGED <<resumeRow, rewritten, selectedExport, exports, exportError>>

\* The page has the version and its completed optimizations.
ListOptimizations ==
  /\ ~pageReady /\ resumeRow.status = "complete"
  /\ pageReady' = TRUE
  /\ exportable' = {s \in AtsScore : rewritten[s].status = "complete"}
  /\ UNCHANGED <<resumeRow, rewritten, selectedExport, exports, exportError>>

SelectExport(x) ==
  /\ pageReady /\ exportable # {}
  /\ x \in {"original"} \cup exportable /\ x # selectedExport
  /\ selectedExport' = x
  /\ UNCHANGED <<resumeRow, rewritten, pageReady, exportable, exports, exportError>>

HandleExport(f) ==
  /\ pageReady /\ exports[f] = NoExport
  /\ exports' = [exports EXCEPT ![f] = [at |-> "sent", of |-> selectedExport]]
  /\ exportError' = FALSE
  /\ UNCHANGED <<resumeRow, rewritten, pageReady, exportable, selectedExport>>

ServeOriginal(f) ==
  /\ exports[f].at = "sent" /\ exports[f].of = "original"
  /\ exports' = [exports EXCEPT ![f].at =
       IF resumeRow.status = "complete" THEN "printed" ELSE "refused"]
  /\ UNCHANGED <<resumeRow, rewritten, pageReady, exportable, selectedExport, exportError>>

ServeOptimized(f) ==
  /\ exports[f].at = "sent" /\ exports[f].of # "original"
  /\ exports' = [exports EXCEPT ![f].at =
       IF rewritten[exports[f].of].status = "complete" THEN "printed" ELSE "refused"]
  /\ UNCHANGED <<resumeRow, rewritten, pageReady, exportable, selectedExport, exportError>>

\* The file is saved, or the error shown; a network error too.
ExportEnds(f) ==
  /\ exports[f].at # "none"
  /\ \/ exports[f].at = "printed" /\ UNCHANGED exportError
     \/ exportError' = TRUE
  /\ exports' = [exports EXCEPT ![f] = NoExport]
  /\ UNCHANGED <<resumeRow, rewritten, pageReady, exportable, selectedExport>>

ResumeExportNext ==
  \/ ExtractResume \/ DeleteElsewhere \/ ListOptimizations
  \/ \E s \in AtsScore : OptimizeResume(s)
  \/ \E x \in Source : SelectExport(x)
  \/ \E f \in Format : HandleExport(f) \/ ServeOriginal(f) \/ ServeOptimized(f) \/ ExportEnds(f)

ResumeExportSpec == ResumeExportInit /\ [][ResumeExportNext]_exportVars

-----------------------------------------------------------------------------
(* Correctness.                                                            *)

ResumeExportTypeOK ==
  /\ resumeRow.status \in {"parsing", "complete", "deleted"}
  /\ resumeRow.status # "parsing" => IsResumeData(resumeRow.data)
  /\ \A s \in AtsScore :
       /\ rewritten[s].status \in {"none", "complete", "deleted"}
       /\ rewritten[s].status = "none" \/ IsResumeData(rewritten[s].data)
  /\ pageReady \in BOOLEAN /\ exportable \subseteq AtsScore
  /\ selectedExport \in Source
  /\ exports \in [Format -> [at : {"none", "sent", "printed", "refused"}, of : Source]]
  /\ exportError \in BOOLEAN

\* The resumes there are to print.
Printable ==
  (IF resumeRow.status = "parsing" THEN {} ELSE {resumeRow.data}) \cup
  {rewritten[s].data : s \in {t \in AtsScore : rewritten[t].status # "none"}}

(***************************************************************************)
(* resume-pdf.service.ts and resume-docx.service.ts, written twice: a      *)
(* resume has the same lines in both formats, in the same order.           *)
(***************************************************************************)
SameOnPaper == \A d \in Printable : Pdf(d) = Docx(d)

(***************************************************************************)
(* resume-pdf.service.ts:25-36: a placeholder of the model is not printed, *)
(* but in the texts that are printed as they are: the name, the summary,   *)
(* the highlights and the skills.                                          *)
(***************************************************************************)
PlaceholdersStayOut ==
  \A d \in Printable :
    \A line \in Range(Pdf(d)) \cup Range(Docx(d)) :
      "UNKNOWN" \in Range(line.says) =>
        line.is \in {"name", "highlight", "skills"} \/ line.says = <<d.summary>>

(***************************************************************************)
(* resume/[id]/page.tsx:293-318 against resume.service.ts:326-344 and      *)
(* optimize.service.ts:128-147: what the page offers to export is refused  *)
(* only if it has been deleted since.                                      *)
(***************************************************************************)
OffersAreGood ==
  \A f \in Format : exports[f].at = "refused" =>
    IF exports[f].of = "original" THEN resumeRow.status = "deleted"
    ELSE rewritten[exports[f].of].status = "deleted"

(***************************************************************************)
(* scores/[scoreId]/page.tsx:355-486: under a complete change log, what    *)
(* the comparison marks is what it shows and differs, and what it does not *)
(* show of the changes are the roles that the rewriting added.             *)
(***************************************************************************)
DiffIsHonest ==
  \A s \in AtsScore :
    LET old == resumeRow.data
        new == rewritten[s].data
        log == rewritten[s].log
        marked == DiffMarked(old, new, log)
    IN  rewritten[s].status # "none" /\ log = HonestLog(old, new) =>
          /\ \A place \in DiffShown(old, new) : place \in marked <=> Differs(old, new, place)
          /\ \A place \in log \ marked :
               place[1] = "experience" /\ place[2] > Len(old.experience)

(***************************************************************************)
(* The four together.                                                      *)
(***************************************************************************)
ExportsAgree == SameOnPaper /\ PlaceholdersStayOut /\ OffersAreGood /\ DiffIsHonest
=================================================================================
