------------------------- MODULE GrievanceWorkflow -------------------------
(***************************************************************************)
(* The Grievance Workflow record seeded by setup/install.py: the states a  *)
(* case passes through, what each state does to the SLA clock, and the     *)
(* moves that join them with the kind of actor that may take each move.    *)
(*                                                                         *)
(* Everything here is a constant: the engine, the SLA clock and the sweeps *)
(* only ever read this table.                                              *)
(***************************************************************************)

\* What a workflow state does to the SLA clock.
SlaCategory == [Submitted        |-> "Running",
                Assigned         |-> "Running",
                Reopened         |-> "Running",
                InProgress       |-> "Running",
                MoreInfoNeeded   |-> "Paused",
                Resolved         |-> "Stopped",
                Closed           |-> "Stopped",
                Rejected         |-> "Stopped",
                Duplicate        |-> "Stopped"]

States == {"Submitted", "Assigned", "Reopened", "InProgress", "MoreInfoNeeded",
           "Resolved", "Closed", "Rejected", "Duplicate"}

StatesInCategory(category) == {s \in States : SlaCategory[s] = category}

\* The states in which an officer works the case.
WorkStates == {"Assigned", "Reopened", "InProgress"}

Move(from, action, to, by) ==
  [from |-> from, action |-> action, to |-> to, by |-> by]

\* Every move of the workflow.  `by' is the role group that may take it.
Transitions ==
  {Move("Submitted", "Assign", "Assigned", "system")}
  \cup {Move(s, "InProgress", "InProgress", "officer") : s \in {"Assigned", "Reopened"}}
  \cup {Move(s, "RequestMoreInfo", "MoreInfoNeeded", "officer") : s \in WorkStates}
  \cup {Move(s, a, "Resolved", "officer") :
          s \in WorkStates, a \in {"Resolve", "PartiallyResolve"}}
  \cup {Move("InProgress", "ReferOnward", "Assigned", "officer")}
  \cup {Move(s, "Reject", "Rejected", "officer") :
          s \in WorkStates \cup {"Submitted", "MoreInfoNeeded"}}
  \cup {Move(s, "ConfirmDuplicate", "Duplicate", "officer") :
          s \in WorkStates \cup {"Submitted", "MoreInfoNeeded"}}
  \cup {Move("MoreInfoNeeded", "SubmitterReply", "InProgress", "submitter"),
        Move("Resolved", "Reopen", "Reopened", "submitter"),
        Move("Resolved", "CloseCase", "Closed", "submitter")}
  \cup {Move(s, "AutoClose", "Closed", "system") : s \in {"MoreInfoNeeded", "Resolved"}}

\* The workflow offers no way out of these.
TerminalStates == {s \in States : \A m \in Transitions : m.from # s}

ResolvedStates == {"Resolved", "Closed"}
=============================================================================
