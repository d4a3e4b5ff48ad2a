-------------------------------- MODULE CaseForm --------------------------------
(***************************************************************************)
(* What the exported form of a case says, and what its record page says    *)
(* beside it (services/ticket_form.py, ticket_form_stages.py, the timeline *)
(* endpoint).  No step of an investigation, decision or appeal has a record*)
(* of its own: the form reads them from the moves in the status history and*)
(* from the entries of the timeline.                                       *)
(*                                                                         *)
(*   printed   the columns of the case the form prints                     *)
(*   log       the moves and the entries, in the order of their timestamps *)
(*                                                                         *)
(* One sequence stands for both tables.  Wording, names, dates and the     *)
(* sections copied from the case (1 to 6) are left out, who is staff does  *)
(* not change, and a case too large to print is refused (AccessAudit).     *)
(***************************************************************************)
EXTENDS GrievanceWorkflow, FiniteSetsExt, SequencesExt

CONSTANTS MaxLog            \* bound on the moves and entries of the case

ASSUME LogAssumption == MaxLog \in Nat

VARIABLES printed, log

formVars == <<printed, log>>

\* The entries people and the system add beside the moves.
TalkKinds == {"message", "note", "escalation"}
Actions == {m.action : m \in Transitions}

LogRow(kind, to, by) == [kind |-> kind, to |-> to, by |-> by]
LogRows == {LogRow(m.action, m.to, m.by) : m \in Transitions}
            \cup [kind : TalkKinds, to : {"none"}, by : {"officer", "submitter", "system"}]

FormTypeOK ==
  /\ printed \in [status : States, escalated : BOOLEAN, reopens : 0 .. MaxLog]
  /\ log \in Seq(LogRows) /\ Len(log) <= MaxLog

FormInit ==
  /\ printed = [status |-> "Submitted", escalated |-> FALSE, reopens |-> 0]
  /\ log = <<>>

TakeMove(m) ==
  /\ m.from = printed.status /\ Len(log) < MaxLog
  /\ log' = Append(log, LogRow(m.action, m.to, m.by))
  /\ printed' = [printed EXCEPT !.status = m.to,
                                !.reopens = @ + (IF m.action = "Reopen" THEN 1 ELSE 0),
                                !.escalated = @ /\ m.action # "Reopen"]

Say(kind, by) ==
  /\ Len(log) < MaxLog
  /\ kind = "message" => by # "system"
  /\ kind = "note" => by = "officer"
  /\ kind = "escalation" =>
       by = "system" /\ printed.status \in StatesInCategory("Running")
  /\ log' = Append(log, LogRow(kind, "none", by))
  /\ printed' = [printed EXCEPT !.escalated = @ \/ kind = "escalation"]

\* A reassignment to another category starts the clock again, which takes the
\* escalation back; it leaves a note among staff.
Reclassify ==
  /\ printed.status \notin TerminalStates /\ Len(log) < MaxLog
  /\ log' = Append(log, LogRow("note", "none", "officer"))
  /\ printed' = [printed EXCEPT !.escalated = FALSE]

FormNext ==
  \/ Reclassify
  \/ \E m \in Transitions : TakeMove(m)
  \/ \E kind \in TalkKinds, by \in {"officer", "submitter", "system"} : Say(kind, by)

FormSpec == FormInit /\ [][FormNext]_formVars

-----------------------------------------------------------------------------
(***************************************************************************)
(* Reading the history (_Source.history_where): the places in the log of   *)
(* the moves asked for, and the last of them.                              *)
(***************************************************************************)
MovesTaken(actions) == {i \in 1 .. Len(log) : log[i].kind \in actions}
MovesInto(states) == {i \in 1 .. Len(log) : log[i].kind \in Actions /\ log[i].to \in states}
Latest(places) == IF places = {} THEN 0 ELSE Max(places)

DecisionActions == {"Resolve", "PartiallyResolve", "Reject"}

\* Mutant: a confirmed duplicate does not close the case.
ClosingStates_NotDuplicate == {"Closed", "Rejected"}

ClosingStates == {"Closed", "Rejected", "Duplicate"}

\* The moves that settle where a case stands.
SettlingActions ==
  {"Reopen", "Resolve", "PartiallyResolve", "CloseCase", "AutoClose", "Reject",
   "ReferOnward", "ConfirmDuplicate"}

\* 7: when it was assigned, and what happened to the assignment.
AssignmentEvents == MovesInto({"Assigned"})

\* 8: the investigation; a submitter's copy has no notes.
InvestigationEvents(staff) ==
  MovesTaken({"InProgress", "RequestMoreInfo", "SubmitterReply"}
              \cup IF staff THEN {"note"} ELSE {})
Findings == Latest(MovesTaken({"Resolve", "PartiallyResolve"}))

\* 9: every decision with the round of review it ends, and the latest one.
Decisions == MovesTaken(DecisionActions)
RoundOf(i) == 1 + Cardinality({j \in MovesTaken({"Reopen"}) : j <= i})
LatestDecision == Latest(Decisions)

\* 11: the appeals.
AppealEvents == MovesTaken({"Reopen", "escalation"})

\* 12: the boxes, and the move that closed the case.
LastSettling == Latest(MovesTaken(SettlingActions))
Closing == Latest(MovesInto(ClosingStates))
Boxes ==
  (IF printed.status \in ResolvedStates THEN {printed.status} ELSE {})
   \cup (IF LastSettling # 0 /\ log[LastSettling].kind \in {"ReferOnward", "Reopen"}
         THEN {log[LastSettling].kind} ELSE {})
   \cup (IF printed.escalated THEN {"Escalated"} ELSE {})

-----------------------------------------------------------------------------
(***************************************************************************)
(* The numbers of the department's responses: on the form (10), and on the *)
(* record page, which goes by the kind of entry a move leaves              *)
(* (_ACTION_ENTRY_TYPES, _get_response_numbers).                           *)
(***************************************************************************)
EntryType(row) ==
  CASE row.kind \in {"Resolve", "PartiallyResolve", "ReferOnward"} -> "response"
    [] row.kind \in TalkKinds -> row.kind
    [] OTHER -> "other"

OpenToAll(i) == log[i].kind # "note"
OnForm(i) ==
  OpenToAll(i) /\ EntryType(log[i]) \in {"response", "message"} /\ log[i].by = "officer"
OnPage(i) ==
  OpenToAll(i) /\ \/ EntryType(log[i]) = "response"
                  \/ EntryType(log[i]) = "message" /\ log[i].by = "officer"

NumberAmong(Counted(_), i) == Cardinality({j \in 1 .. i : Counted(j)})
ResponseNumber(i) == NumberAmong(OnForm, i)
PageNumber(i) == NumberAmong(OnPage, i)

-----------------------------------------------------------------------------
\* One box at most says where the case stands.
OneFinalStatus == Cardinality(Boxes \ {"Escalated"}) <= 1

\* A closed case has the move that closed it, and nothing settled it since; one
\* that can go on has none.
ClosureFits ==
  /\ printed.status \in TerminalStates => Closing # 0 /\ log[Closing].to = printed.status
  /\ printed.status \notin TerminalStates => Closing = 0
  /\ Closing # 0 => LastSettling = Closing

\* One decision ends a round of review, and a case that stands resolved or
\* rejected shows the decision of the present round.
DecisionsFit ==
  /\ \A i, j \in Decisions : RoundOf(i) = RoundOf(j) => i = j
  /\ printed.status \in {"Resolved", "Rejected"} =>
       /\ LatestDecision # 0 /\ log[LatestDecision].to = printed.status
       /\ RoundOf(LatestDecision) = 1 + printed.reopens
  /\ printed.status = "Resolved" => Findings = LatestDecision

\* A response has one number, wherever it is read.
NumbersAgree ==
  \A i \in 1 .. Len(log) : OnForm(i) \/ OnPage(i) => ResponseNumber(i) = PageNumber(i)

\* What the form reads out of the traces of the workflow is what happened to
\* the case (_closure, _decision, _response).
FormTellsTheCase ==
  OneFinalStatus /\ ClosureFits /\ DecisionsFit /\ NumbersAgree
================================================================================
