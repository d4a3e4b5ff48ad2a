--------------------------- MODULE AttachmentScan ---------------------------
(***************************************************************************)
(* Uploads, the malware scans of services/scanning.py and deletions.       *)
(*                                                                         *)
(*   attachment   the Grievance Attachment rows as last committed          *)
(*   bytesOnDisk  the contents that are stored                             *)
(*   scanJobs     rows with a scan job in the queue (one per row)          *)
(*   scanner      the workers, each inside one database transaction        *)
(*   scanFaults   workers killed so far                                    *)
(*   clamd        whether the scanner can be reached                       *)
(*                                                                         *)
(* A worker sees the rows as they were at its first read (`view', with its *)
(* own writes over it), while an UPDATE finds the row as it is now and     *)
(* locks it until the commit.  A database with snapshot isolation refuses  *)
(* an UPDATE of a row changed since that first read; both kinds are here.  *)
(* Bytes leave the disk at once, whether or not the transaction commits.   *)
(***************************************************************************)
EXTENDS Naturals, FiniteSets

CONSTANTS
  Attachments,      \* the uploads that may be made
  Checksum,         \* the content of each
  Scanners,         \* workers of the scan queue
  MaxScanAttempts,  \* MAX_SCAN_ATTEMPTS
  SweepBatch,       \* limit of scan_pending: rows one sweep takes
  MaxScanFaults     \* bound: workers killed

ASSUME ScanAssumption ==
  /\ Attachments # {} /\ MaxScanAttempts \in Nat /\ MaxScanFaults \in Nat
  /\ SweepBatch \in Nat \ {0}

VARIABLES attachment, bytesOnDisk, scanJobs, scanner, scanFaults, clamd

scanVars == <<attachment, bytesOnDisk, scanJobs, scanner, scanFaults, clamd>>

Verdicts == {"Clean", "Infected", "Failed"}
Answers == Verdicts \cup {"retry"}

AttachmentRow ==
  [status : {"Absent", "Pending", "Deleted"} \cup Verdicts,
   attempts : 0..MaxScanAttempts, file : BOOLEAN]

Rows == [Attachments -> AttachmentRow]

Worker ==
  [pc : {"idle", "next", "settle", "defer", "discard"},
   sweep : BOOLEAN, todo : SUBSET Attachments, name : Attachments,
   answer : Answers, view : Rows, wrote : SUBSET Attachments,
   outrun : SUBSET Attachments]

ScanTypeOK ==
  /\ attachment \in Rows
  /\ bytesOnDisk \subseteq {Checksum[a] : a \in Attachments}
  /\ scanJobs \subseteq Attachments
  /\ scanner \in [Scanners -> Worker]
  /\ scanFaults \in 0..MaxScanFaults
  /\ clamd \in BOOLEAN

NoUpload == [a \in Attachments |-> [status |-> "Absent", attempts |-> 0, file |-> FALSE]]

Resting ==
  [pc |-> "idle", sweep |-> FALSE, todo |-> {}, name |-> CHOOSE a \in Attachments : TRUE,
   answer |-> "retry", view |-> NoUpload, wrote |-> {}, outrun |-> {}]

ScanInit ==
  /\ attachment = NoUpload
  /\ bytesOnDisk = {}
  /\ scanJobs = {}
  /\ scanner = [s \in Scanners |-> Resting]
  /\ scanFaults = 0
  /\ clamd \in BOOLEAN

-----------------------------------------------------------------------------
(***************************************************************************)
(* What one transaction sees and does.                                     *)
(***************************************************************************)
Twins(a) == {b \in Attachments \ {a} : Checksum[b] = Checksum[a]}

InfectedTwin(view, a) == \E b \in Twins(a) : view[b].status = "Infected"

\* A File with no other File of the same content takes the bytes with it.
BytesAfterDrop(view, dropped) ==
  bytesOnDisk \ {Checksum[a] : a \in {d \in dropped :
                   ~\E b \in (Twins(d) \cup {d}) \ dropped : view[b].file}}

LockedBy(s) == UNION {scanner[t].wrote : t \in Scanners \ {s}}
Locked == UNION {scanner[t].wrote : t \in Scanners}

\* The row an UPDATE finds: the worker's own version, or the one committed.
Live(s, a) == IF a \in scanner[s].wrote THEN scanner[s].view[a] ELSE attachment[a]

\* Mutant: any verdict fills the row, whatever it holds.
Overwrites_All(verdict) == {"Pending"} \cup Verdicts

\* A verdict fills a pending row; Infected outranks Clean.
Overwrites(verdict) ==
  IF verdict = "Infected" THEN {"Pending", "Clean"} ELSE {"Pending"}

Step(s, w) == scanner' = [scanner EXCEPT ![s] = w]

\* A committed write outruns the views the other workers hold.
Outrun(w, rows) ==
  IF w.pc = "idle" THEN w ELSE [w EXCEPT !.outrun = @ \cup rows]

Done(w) ==
  [w EXCEPT !.pc = "next", !.todo = @ \ {w.name},
            !.name = Resting.name, !.answer = Resting.answer]

-----------------------------------------------------------------------------
(***************************************************************************)
(* Users.                                                                  *)
(***************************************************************************)

\* store_uploads: File, row and, after the commit, the job; a job that cannot
\* be queued is logged and the row waits for the sweep.
Upload(a) ==
  /\ attachment[a].status = "Absent"
  /\ attachment' = [attachment EXCEPT ![a] = [status |-> "Pending", attempts |-> 0, file |-> TRUE]]
  /\ bytesOnDisk' = bytesOnDisk \cup {Checksum[a]}
  /\ scanJobs' \in {scanJobs \cup {a}, scanJobs}
  /\ UNCHANGED <<scanner, scanFaults, clamd>>

\* delete: the row and its File, once no scanner holds the row.
DeleteAttachment(a) ==
  /\ attachment[a].status \notin {"Absent", "Deleted"}
  /\ a \notin Locked
  /\ attachment' = [attachment EXCEPT ![a].status = "Deleted", ![a].file = FALSE]
  /\ bytesOnDisk' = IF attachment[a].file THEN BytesAfterDrop(attachment, {a}) ELSE bytesOnDisk
  /\ scanner' = [s \in Scanners |-> Outrun(scanner[s], {a})]
  /\ UNCHANGED <<scanJobs, scanFaults, clamd>>

-----------------------------------------------------------------------------
(***************************************************************************)
(* Workers: scan_attachment on one row, or scan_pending on all that wait.  *)
(***************************************************************************)
Begin(s, todo, sweep) ==
  /\ scanner[s].pc = "idle"
  /\ Step(s, [Resting EXCEPT !.pc = "next", !.sweep = sweep, !.todo = todo,
                             !.view = attachment])

StartJob(s, a) ==
  /\ a \in scanJobs
  /\ Begin(s, {a}, FALSE)
  /\ scanJobs' = scanJobs \ {a}
  /\ UNCHANGED <<attachment, bytesOnDisk, scanFaults, clamd>>

Waiting == {a \in Attachments : attachment[a].status = "Pending"}

\* A sweep takes its batch of the oldest rows (here of any, as rows have no age);
\* a batch that is not full is all there is.
Batches ==
  {rows \in SUBSET Waiting : \/ Cardinality(rows) = SweepBatch
                             \/ rows = Waiting /\ Cardinality(rows) < SweepBatch}

\* One sweep at a time (job_id with deduplicate).  A sweep that gets no answer
\* to its PING returns: no row is read, none is charged an attempt.
StartSweep(s) ==
  /\ clamd
  /\ Waiting # {}
  /\ \A t \in Scanners : scanner[t].sweep => scanner[t].pc = "idle"
  /\ \E rows \in Batches : Begin(s, rows, TRUE)
  /\ UNCHANGED <<attachment, bytesOnDisk, scanJobs, scanFaults, clamd>>

\* A Clean answer is checked once more against twins condemned meanwhile.
Verdict(w, answer) ==
  IF answer = "Clean" /\ InfectedTwin(w.view, w.name) THEN "Infected" ELSE answer

\* Condemned bytes need no scan, unreadable ones fail.  For the others clamd
\* answers, or a connection to it fails; one that is down cannot be asked.
AnswersFor(w) ==
  IF InfectedTwin(w.view, w.name) THEN {"Infected"}
  ELSE IF ~w.view[w.name].file \/ Checksum[w.name] \notin bytesOnDisk THEN {"Failed"}
  ELSE {Verdict(w, answer) : answer \in IF clamd THEN Answers ELSE {"retry"}}

\* scan_attachment up to its write: a settled row is left alone.  All it reads
\* is its own view, so reading and asking are one step.
Examine(s) ==
  /\ scanner[s].pc = "next"
  /\ \E a \in scanner[s].todo :
       LET w == [scanner[s] EXCEPT !.name = a]
       IN  IF w.view[a].status # "Pending" THEN Step(s, Done(w))
           ELSE \E answer \in AnswersFor(w) :
                  Step(s, [w EXCEPT !.pc = IF answer = "retry" THEN "defer" ELSE "settle",
                                    !.answer = answer])
  /\ UNCHANGED <<attachment, bytesOnDisk, scanJobs, scanFaults, clamd>>

\* What an UPDATE ... WHERE scan_status IN `from' leaves with the worker.
Write(w, a, live, from, row) ==
  IF live.status \in from
  THEN [w EXCEPT !.view[a] = row, !.wrote = @ \cup {a}]
  ELSE w

Settle(s) ==
  LET w == scanner[s] a == scanner[s].name live == Live(s, a)
      settled == Write(w, a, live, Overwrites(w.answer), [live EXCEPT !.status = w.answer])
  IN  /\ w.pc = "settle"
      /\ a \notin LockedBy(s)
      /\ Step(s, IF w.answer = "Infected" /\ settled.view[a].status = "Infected"
                 THEN [settled EXCEPT !.pc = "discard"] ELSE Done(settled))
      /\ UNCHANGED <<attachment, bytesOnDisk, scanJobs, scanFaults, clamd>>

\* Mutant: a deferral does not count as an attempt.
Deferred_Uncounted(attempts, live) == [live EXCEPT !.attempts = 0]

\* Mutant: no deferral is the last one.
Deferred_NeverTheLast(attempts, live) == [live EXCEPT !.attempts = attempts + 1]

\* The attempts read at the start, plus one; the last one gives the row up.
Deferred(attempts, live) ==
  IF attempts + 1 >= MaxScanAttempts
  THEN [live EXCEPT !.status = "Failed"]
  ELSE [live EXCEPT !.attempts = attempts + 1]

Defer(s) ==
  LET w == scanner[s] a == scanner[s].name live == Live(s, a)
  IN  /\ w.pc = "defer"
      /\ a \notin LockedBy(s)
      /\ Step(s, Done(Write(w, a, live, {"Pending"}, Deferred(w.view[a].attempts, live))))
      /\ UNCHANGED <<attachment, bytesOnDisk, scanJobs, scanFaults, clamd>>

\* The row and every twin the worker can see that is not condemned already.
Condemned(w) ==
  {w.name} \cup {b \in Twins(w.name) :
                   w.view[b].status \notin {"Absent", "Deleted", "Infected"}}

\* Some of them condemned, the Files with them.  A twin deleted meanwhile
\* matches no UPDATE.
Condemn(s, rows) ==
  LET w == scanner[s]
      written == {a \in rows : Live(s, a).status # "Deleted"}
  IN  /\ Step(s, Done([w EXCEPT !.wrote = @ \cup written,
                 !.view = [a \in Attachments |->
                   IF a \in written
                   THEN [w.view[a] EXCEPT !.status = "Infected", !.file = FALSE] ELSE w.view[a]]]))
      /\ bytesOnDisk' = BytesAfterDrop(w.view, {a \in rows : w.view[a].file})

Discard(s) ==
  /\ scanner[s].pc = "discard"
  /\ Condemned(scanner[s]) \cap LockedBy(s) = {}
  /\ Condemn(s, Condemned(scanner[s]))
  /\ UNCHANGED <<attachment, scanJobs, scanFaults, clamd>>

Commit(s) ==
  /\ scanner[s].pc = "next" /\ scanner[s].todo = {}
  /\ attachment' = [a \in Attachments |->
       IF a \in scanner[s].wrote THEN scanner[s].view[a] ELSE attachment[a]]
  /\ scanner' = [t \in Scanners |->
       IF t = s THEN Resting ELSE Outrun(scanner[t], scanner[s].wrote)]
  /\ UNCHANGED <<bytesOnDisk, scanJobs, scanFaults, clamd>>

(***************************************************************************)
(* The database refuses a write.  The row moved on since the first read,   *)
(* or the wait for it is a deadlock: the transaction is rolled back; a job *)
(* dies of it, and the sweep logs it and goes on with the next row in a    *)
(* new transaction.  Another worker holds the row for too long: only the   *)
(* statement is undone; a job dies of that as well, but the sweep, which   *)
(* rolls nothing back, goes on with what it has seen and written.          *)
(***************************************************************************)
RowsWanted(s) ==
  CASE scanner[s].pc \in {"settle", "defer"} -> {scanner[s].name}
    [] scanner[s].pc = "discard" -> Condemned(scanner[s])
    [] OTHER -> {}

Refuse(s) ==
  /\ RowsWanted(s) \cap (scanner[s].outrun \cup LockedBy(s)) # {}
  /\ Step(s, IF scanner[s].sweep
             THEN [Done(scanner[s]) EXCEPT !.view = attachment, !.wrote = {}, !.outrun = {}]
             ELSE Resting)
  /\ UNCHANGED <<attachment, bytesOnDisk, scanJobs, scanFaults, clamd>>

\* Condemning its twins one by one, the sweep stops at the first it cannot lock.
LockTimeout(s) ==
  /\ scanner[s].sweep
  /\ RowsWanted(s) \cap LockedBy(s) # {}
  /\ \/ scanner[s].pc # "discard" /\ Step(s, Done(scanner[s])) /\ UNCHANGED bytesOnDisk
     \/ /\ scanner[s].pc = "discard"
        /\ \E rows \in SUBSET (Condemned(scanner[s]) \ LockedBy(s)) :
             scanner[s].name \in rows /\ Condemn(s, rows)
  /\ UNCHANGED <<attachment, scanJobs, scanFaults, clamd>>

\* A worker is killed: its transaction goes, and the job is not run again.
KillScanner(s) ==
  /\ scanner[s].pc # "idle"
  /\ scanFaults < MaxScanFaults
  /\ scanFaults' = scanFaults + 1
  /\ Step(s, Resting)
  /\ UNCHANGED <<attachment, bytesOnDisk, scanJobs, clamd>>

\* The scanner stops answering, or answers again.
ClamdChanges ==
  /\ clamd' = ~clamd
  /\ UNCHANGED <<attachment, bytesOnDisk, scanJobs, scanner, scanFaults>>

ScanNext ==
  \/ ClamdChanges
  \/ \E a \in Attachments : Upload(a) \/ DeleteAttachment(a)
  \/ \E s \in Scanners : \/ \E a \in Attachments : StartJob(s, a)
                         \/ StartSweep(s) \/ Examine(s) \/ Settle(s)
                         \/ Defer(s) \/ Discard(s) \/ Commit(s) \/ Refuse(s)
                         \/ LockTimeout(s) \/ KillScanner(s)

ScanSpec == ScanInit /\ [][ScanNext]_scanVars

\* The sweep is scheduled and workers finish what they started.  Nothing is
\* assumed of clamd, which may stay silent for good or come and go.
ScanFairness ==
  /\ WF_scanVars(\E s \in Scanners : StartSweep(s))
  /\ \A s \in Scanners :
       WF_scanVars(\/ Examine(s) \/ Settle(s) \/ Defer(s) \/ Discard(s) \/ Commit(s)
                   \/ Refuse(s) \/ LockTimeout(s))

-----------------------------------------------------------------------------
\* A condemned row stays condemned until it is deleted, and its File is gone
\* with it, whoever else scanned, deferred or condemned the row meanwhile
\* (_settle, _defer and _discard_infected write by compare-and-set).
CondemnedForGood ==
  [][\A a \in Attachments : attachment[a].status = "Infected" =>
       /\ attachment'[a].status \in {"Infected", "Deleted"}
       /\ ~attachment'[a].file]_scanVars

\* Once clamd answers for good, every upload gets a verdict or is withdrawn: no
\* lost job, killed worker, full batch or refused write leaves it Pending, and a
\* row whose scans fail though clamd answers its PING is given up on
\* (scan_pending, MAX_SCAN_ATTEMPTS).  While clamd stays down a row waits, for
\* good if need be: a sweep that is skipped charges it nothing.
PendingSettles ==
  <>[]clamd =>
    \A a \in Attachments :
      attachment[a].status = "Pending" ~> attachment[a].status # "Pending"
==============================================================================
