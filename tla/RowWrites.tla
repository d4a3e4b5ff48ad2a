------------------------------- MODULE RowWrites -------------------------------
(***************************************************************************)
(* Everybody who writes the row of one case: people who save a form they   *)
(* opened before, requests that load the case, change it and save it, and  *)
(* the hourly sweeps, which write single columns past the save             *)
(* (doctype/grievance/grievance.py, tasks.py, services/sla.py).            *)
(*                                                                         *)
(*   stored  the row as committed                                          *)
(*   copies  what a writer has read and not yet written or dropped         *)
(*   outrun  writers whose copy is older than the row                      *)
(*                                                                         *)
(* Columns are told apart by what protects them, and a value is the number *)
(* of its writing, so a column that goes back has lost a write:            *)
(*   modified  the stamp of the last save; a sweep leaves it alone         *)
(*   clock     what only the service may write: next escalation, day of    *)
(*             the first, timer of the state, reminders, hold              *)
(*   owner,    what only a change request or the ladder may change         *)
(*   due                                                                   *)
(*   edits     what a form may change: the edits that are in the row       *)
(*   flag      `escalated`, which nothing protects                         *)
(*                                                                         *)
(* A save writes every column.  What the writes mean is in GrievanceCase.  *)
(***************************************************************************)
EXTENDS Naturals

CONSTANTS OpenForms,          \* forms open in browsers
          CaseRequests,       \* requests that move a case or apply an approval
          SweepRuns,          \* runs of the sweeps
          NoCopy,             \* nothing read
          RefusesOldSnapshot, \* the database refuses writes on an old snapshot
          MaxWrites           \* bound on the writes of the row

RowWriters == OpenForms \cup CaseRequests \cup SweepRuns

CaseRows == [modified : Nat, final : BOOLEAN, clock : Nat, owner : Nat, due : Nat,
             edits : SUBSET Nat, flag : BOOLEAN]

ASSUME RowAssumption ==
  /\ OpenForms \cap CaseRequests = {} /\ SweepRuns \cap (OpenForms \cup CaseRequests) = {}
  /\ NoCopy \notin CaseRows
  /\ RefusesOldSnapshot \in BOOLEAN /\ MaxWrites \in Nat

VARIABLES stored, copies, outrun

rowVars == <<stored, copies, outrun>>

RowTypeOK ==
  /\ stored \in CaseRows
  /\ copies \in [RowWriters -> CaseRows \cup {NoCopy}]
  /\ outrun \subseteq RowWriters

RowInit ==
  /\ stored = [modified |-> 0, final |-> FALSE, clock |-> 0, owner |-> 0, due |-> 0,
               edits |-> {}, flag |-> FALSE]
  /\ copies = [w \in RowWriters |-> NoCopy]
  /\ outrun = {}

-----------------------------------------------------------------------------
Keeps(w) == copies[w] # NoCopy

\* A form is opened, a request loads the case, a sweep selects it.
ReadsRow(w) ==
  /\ ~Keeps(w)
  /\ copies' = [copies EXCEPT ![w] = stored]
  /\ UNCHANGED <<stored, outrun>>

\* A form is closed, or a write was refused: a request rolls back, a sweep
\* logs it and goes on to its next row.
Leaves(w) ==
  /\ Keeps(w)
  /\ copies' = [copies EXCEPT ![w] = NoCopy]
  /\ outrun' = outrun \ {w}
  /\ UNCHANGED stored

Lands(w, written) ==
  /\ stored.modified + stored.clock < MaxWrites
  /\ stored' = written
  /\ copies' = [copies EXCEPT ![w] = NoCopy]
  /\ outrun' = (outrun \cup {v \in RowWriters : Keeps(v)}) \ {w}

\* What a transaction that read the row earlier may still write.
StillValid(w) == Keeps(w) /\ (RefusesOldSnapshot => w \notin outrun)

(***************************************************************************)
(* A save loads the row once more, locks it until it commits, and compares *)
(* the stamp of the document; validate then compares the document with the *)
(* row as it is: a final case is not written (guard_terminal_state), nor   *)
(* what takes a change request (guard_requestable_fields).                 *)
(***************************************************************************)
Saveable(doc) == doc.modified = stored.modified /\ ~stored.final

Requestable(doc) == doc.owner = stored.owner /\ doc.due = stored.due

\* Mutant: a column of the service has no permission level of its own.
OwnLevelOnly_Any(doc) == doc

\* No role may write at permission level 1: whatever a form sends there is
\* replaced by what the row has.  (Administrator, whom Frappe exempts, is no
\* person of this model.)
OwnLevelOnly(doc) == [doc EXCEPT !.clock = stored.clock]

\* A form is saved in a transaction of its own, with what it was opened on.
SaveForm(f) ==
  /\ Keeps(f)
  /\ LET doc == [copies[f] EXCEPT !.edits = @ \cup {stored.modified + 1}]
     IN  /\ Saveable(doc) /\ Requestable(doc)
         /\ Lands(f, [OwnLevelOnly(doc) EXCEPT !.modified = @ + 1])

\* A workflow action, through lifecycle.transition, with every permission; the
\* hooks set the timer of the state, move the deadline by a hold or a window
\* that starts again, and the latter clears the flag.
MoveCase(r) ==
  /\ StillValid(r) /\ Saveable(copies[r]) /\ Requestable(copies[r])
  /\ \E ends, restarts \in BOOLEAN, later \in {0, 1} :
       Lands(r, [copies[r] EXCEPT !.modified = @ + 1, !.clock = @ + 1, !.due = @ + later,
                                  !.final = ends, !.flag = @ /\ ~restarts])

\* apply_change_request: another officer, with no new clock, or another
\* deadline or category, with one.  Routing, which gives a case its first
\* officer, saves in the same way.
ApplyApproved(r) ==
  /\ StillValid(r) /\ Saveable(copies[r])
  /\ \/ Lands(r, [copies[r] EXCEPT !.modified = @ + 1, !.owner = @ + 1])
     \/ Lands(r, [copies[r] EXCEPT !.modified = @ + 1, !.due = @ + 1, !.clock = @ + 1])
     \/ Lands(r, [copies[r] EXCEPT !.modified = @ + 1, !.due = @ + 1, !.clock = @ + 1,
                                   !.flag = FALSE])

(***************************************************************************)
(* The sweeps write with db_set, only the columns they mean and without a  *)
(* new stamp.                                                              *)
(***************************************************************************)
\* escalate: somebody above takes the case, or nobody is there.
SweepEscalates(s) ==
  /\ StillValid(s)
  /\ \E handed \in {0, 1} :
       Lands(s, [stored EXCEPT !.flag = TRUE, !.clock = @ + 1, !.owner = @ + handed])

\* send_sla_reminders, and a timer that is let go.
SweepMarks(s) ==
  /\ StillValid(s)
  /\ Lands(s, [stored EXCEPT !.clock = @ + 1])

\* expire_state_timers: apply_workflow loads the row again, then saves it.
SweepCloses(s) ==
  /\ StillValid(s) /\ ~stored.final
  /\ Lands(s, [stored EXCEPT !.modified = @ + 1, !.clock = @ + 1, !.final = TRUE])

-----------------------------------------------------------------------------
RowNext ==
  \/ \E w \in RowWriters : ReadsRow(w) \/ Leaves(w)
  \/ \E f \in OpenForms : SaveForm(f)
  \/ \E r \in CaseRequests : MoveCase(r) \/ ApplyApproved(r)
  \/ \E s \in SweepRuns : SweepEscalates(s) \/ SweepMarks(s) \/ SweepCloses(s)

RowSpec == RowInit /\ [][RowNext]_rowVars

-----------------------------------------------------------------------------
\* No column goes back, no edit of a person is gone, no case is open again.
NoneTakenBack ==
  /\ stored'.clock >= stored.clock /\ stored'.owner >= stored.owner
  /\ stored'.due >= stored.due
  /\ stored.edits \subseteq stored'.edits
  /\ stored.final => stored'.final

\* No writer takes back what another wrote since it read the row: not a form
\* that was open while sweeps wrote past its stamp, not a request that saves
\* every column (the comparison of the stamp, guard_requestable_fields, the
\* permission levels of grievance.json and snapshot isolation together).
NothingTakenBack == [][NoneTakenBack]_rowVars

\* On a database that refuses nothing, only a request that saves what it read
\* at its start can take anything back; forms and sweeps still do not.
OnlyRequestsTakeBack ==
  [][NoneTakenBack \/ \E r \in CaseRequests : MoveCase(r) \/ ApplyApproved(r)]_rowVars
=================================================================================
