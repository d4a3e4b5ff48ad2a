------------------------------- MODULE AccessAudit -------------------------------
(***************************************************************************)
(* Exporting a case and putting the export on record before the file is    *)
(* handed over (services/ticket_export.py, services/audit.py).             *)
(*                                                                         *)
(*   content   the version of the case, which goes on changing             *)
(*   exporting export request |-> where it is, the file it holds, the      *)
(*             inserts it tried                                            *)
(*   trail     the audit rows committed                                    *)
(*   taken     the files handed over: request and digest                   *)
(*   refusals  the refusals counted for this minute in the cache           *)
(*                                                                         *)
(* A row is the request it is about, what it says and the digest of the    *)
(* file.  A worker may die anywhere.  A commit that fails has either       *)
(* happened or not, the worker cannot tell which.  Formats, languages and  *)
(* the checks themselves are left out.                                     *)
(***************************************************************************)
EXTENDS Naturals, FiniteSets

CONSTANTS Exports,          \* export requests
          MaxContent,       \* bound on the changes of the case
          WriteAttempts,    \* AUDIT_WRITE_ATTEMPTS
          MaxDenials        \* MAX_DENIAL_ROWS_PER_MINUTE

ASSUME AuditAssumption ==
  MaxContent \in Nat /\ MaxDenials \in Nat /\ WriteAttempts \in Nat \ {0}

VARIABLES content, exporting, trail, taken, refusals

auditVars == <<content, exporting, trail, taken, refusals>>

NoFile == MaxContent + 1
Digests == 0 .. NoFile
AuditedDecisions == {"export", "denied", "export_failed"}
AuditRows == [of : Exports, says : AuditedDecisions, digest : Digests]
Places == {"new", "cleared", "refused", "counted", "writing", "inserted", "recorded",
           "answered", "dead"}

AuditTypeOK ==
  /\ content \in 0 .. MaxContent
  /\ exporting \in [Exports -> [at : Places, says : AuditedDecisions, digest : Digests,
                          tries : 0 .. WriteAttempts, read : 0 .. MaxDenials]]
  /\ trail \subseteq AuditRows \X (1 .. WriteAttempts)
  /\ taken \subseteq Exports \X Digests
  /\ refusals \in 0 .. MaxDenials

AuditInit ==
  /\ content = 0 /\ taken = {} /\ refusals = 0
  /\ exporting = [e \in Exports |->
       [at |-> "new", says |-> "export", digest |-> NoFile, tries |-> 0, read |-> 0]]
  /\ trail = {}

RowsOf(e) == {entry \in trail : entry[1].of = e}
\* The trail with a row more of a request; equal rows are told apart by a number.
TrailWith(e) ==
  trail \cup {<<[of |-> e, says |-> exporting[e].says, digest |-> exporting[e].digest],
               1 + Cardinality(RowsOf(e))>>}
JobAt(e, place) == exporting' = [exporting EXCEPT ![e].at = place]
RowToWrite(e, says, digest) ==
  exporting' = [exporting EXCEPT ![e].at = "writing", ![e].says = says, ![e].digest = digest]

-----------------------------------------------------------------------------
CaseChanges ==
  /\ content < MaxContent /\ content' = content + 1
  /\ UNCHANGED <<exporting, trail, taken, refusals>>

\* export_ticket: the case is found and the caller may read it, or not; which
\* of the two is only for the row to say.
Authorise(e, allowed) ==
  /\ exporting[e].at = "new"
  /\ JobAt(e, IF allowed THEN "cleared" ELSE "refused")
  /\ UNCHANGED <<content, trail, taken, refusals>>

\* Mutant: one refusal more than the minute allows.
CountRefusals_OneMore(e) ==
  /\ exporting[e].at = "refused"
  /\ exporting' = [exporting EXCEPT
       ![e].at = IF refusals > MaxDenials THEN "answered" ELSE "counted",
       ![e].read = refusals]
  /\ UNCHANGED <<content, trail, taken, refusals>>

\* _may_audit_denial: the count is read,
CountRefusals(e) ==
  /\ exporting[e].at = "refused"
  /\ exporting' = [exporting EXCEPT
       ![e].at = IF refusals >= MaxDenials THEN "answered" ELSE "counted",
       ![e].read = refusals]
  /\ UNCHANGED <<content, trail, taken, refusals>>

\* and put back one higher, whatever happened to it meanwhile.
NoteRefusal(e) ==
  /\ exporting[e].at = "counted"
  /\ refusals' = exporting[e].read + 1
  /\ RowToWrite(e, "denied", NoFile)
  /\ UNCHANGED <<content, trail, taken>>

\* The form is read and rendered, or fails, or is too large.
BuildFile(e) ==
  /\ exporting[e].at = "cleared"
  /\ \/ RowToWrite(e, "export", content)
     \/ RowToWrite(e, "export_failed", NoFile)
  /\ UNCHANGED <<content, trail, taken, refusals>>

-----------------------------------------------------------------------------
(***************************************************************************)
(* record_access, durable: a commit to end the old snapshot, the insert,   *)
(* tried again while it loses races, and the commit of the row.            *)
(***************************************************************************)
InsertRow(e) ==
  /\ exporting[e].at = "writing"
  /\ JobAt(e, "inserted")
  /\ UNCHANGED <<content, trail, taken, refusals>>

\* After a failed write the file is withheld (strict); the other answers are
\* refusals and errors anyway.
LoseRace(e) ==
  /\ exporting[e].at = "writing"
  /\ exporting' = [exporting EXCEPT
       ![e].tries = @ + 1,
       ![e].at = IF exporting[e].tries + 1 = WriteAttempts THEN "answered" ELSE @]
  /\ UNCHANGED <<content, trail, taken, refusals>>

CommitRow(e) ==
  /\ exporting[e].at = "inserted"
  /\ trail' = TrailWith(e)
  /\ JobAt(e, "recorded")
  /\ UNCHANGED <<content, taken, refusals>>

\* Mutant: a failed commit is tried again with the insert.
CommitLost_TriedAgain(e, happened) ==
  /\ exporting[e].at = "inserted"
  /\ trail' = IF happened THEN TrailWith(e) ELSE trail
  /\ JobAt(e, "writing")
  /\ UNCHANGED <<content, taken, refusals>>

\* A failed commit is not tried again.
CommitLost(e, happened) ==
  /\ exporting[e].at = "inserted"
  /\ trail' = IF happened THEN TrailWith(e) ELSE trail
  /\ JobAt(e, "answered")
  /\ UNCHANGED <<content, taken, refusals>>

HandOver(e) ==
  /\ exporting[e].at = "recorded"
  /\ taken' = IF exporting[e].says = "export" THEN taken \cup {<<e, exporting[e].digest>>} ELSE taken
  /\ JobAt(e, "answered")
  /\ UNCHANGED <<content, trail, refusals>>

WorkerDies(e) ==
  /\ exporting[e].at \notin {"new", "answered", "dead"}
  /\ JobAt(e, "dead")
  /\ UNCHANGED <<content, trail, taken, refusals>>

\* Another minute, another key.
NextMinute ==
  /\ refusals # 0 /\ refusals' = 0
  /\ UNCHANGED <<content, exporting, trail, taken>>

AuditNext ==
  \/ CaseChanges \/ NextMinute
  \/ \E e \in Exports :
       \/ \E yes \in BOOLEAN : Authorise(e, yes) \/ CommitLost(e, yes)
       \/ CountRefusals(e) \/ NoteRefusal(e) \/ BuildFile(e)
       \/ InsertRow(e) \/ LoseRace(e) \/ CommitRow(e) \/ HandOver(e) \/ WorkerDies(e)

AuditSpec == AuditInit /\ [][AuditNext]_auditVars

-----------------------------------------------------------------------------
\* Nothing leaves without a record of it: a file handed over has one committed
\* row, with its digest; and an attempt never leaves two rows, whatever races,
\* failed commits and deaths it went through (export_ticket, record_access).
HandedOverOnRecord ==
  /\ \A file \in taken :
       \E entry \in RowsOf(file[1]) : entry[1].says = "export" /\ entry[1].digest = file[2]
  /\ \A entry \in trail : RowsOf(entry[1].of) = {entry}
================================================================================
