---------------------------- MODULE GrievanceCase ----------------------------
(***************************************************************************)
(* The life of one grievance: the workflow moves, the change requests and  *)
(* the scheduled sweeps, each running the SLA clock of SlaClock.           *)
(*                                                                         *)
(*   now         the wall clock, in hours                                  *)
(*   case        the Grievance row as last committed                       *)
(*   requests    its pending Grievance Change Requests                     *)
(*   escalating  escalate_breached between reading the row and writing it  *)
(*   expiring    expire_state_timers between reading the row and writing   *)
(*   granted     history: hours of deferral approved for the present window*)
(*                                                                         *)
(* A user's save is one action: Frappe reads the row FOR UPDATE and        *)
(* refuses a save of a row modified since it was loaded.  A sweep is two:  *)
(* it lists and loads its rows from one database snapshot and writes with  *)
(* db_set(update_modified=False) much later, so any number of saves may    *)
(* commit in between.  With snapshot isolation (MariaDB 11.6+, the         *)
(* deployed default) the database refuses a write to a row changed since   *)
(* the snapshot; without it the write lands on the row as it now is.       *)
(***************************************************************************)
EXTENDS SlaClock, FiniteSets

CONSTANTS
  Lost,               \* a sweep whose snapshot the row has outrun
  SnapshotIsolation,  \* the database refuses writes based on an old snapshot
  MaxDeferral,        \* max_deferral_days, in hours
  MaxNow,             \* bound: the clock stops here
  MoveHorizon,        \* bound: users act no later than this
  MaxDue,             \* bound: no deferral is asked for beyond this
  MaxPending          \* bound: change requests pending at once

ASSUME CaseAssumption ==
  /\ Lost # None /\ Lost \notin Case
  /\ SnapshotIsolation \in BOOLEAN
  /\ MaxDeferral \in Nat \ {0}
  /\ MaxNow \in Nat /\ MoveHorizon \in 0..MaxNow /\ MaxDue \in Nat
  /\ MaxPending \in Nat

VARIABLES now, case, requests, escalating, expiring, granted

vars == <<now, case, requests, escalating, expiring, granted>>

\* The values asked for; None leaves the field alone.
Proposal == [category : Category \cup {None}, officer : Officers \cup {None},
             due : MaybeTime]

\* `old' holds what the changed fields were when the request was raised.
Request == [old : Proposal, new : Proposal]

\* A sweep holds the row it read; None when it holds nothing.
Sweep == Case \cup {None, Lost}

TypeOK ==
  /\ now \in Time
  /\ case \in Case
  /\ requests \subseteq Request
  /\ escalating \in Sweep
  /\ expiring \in Sweep
  /\ granted \in Nat

Filed(category) ==
  [state |-> "Submitted", category |-> category, officer |-> None,
   start |-> None, due |-> None, holdSince |-> None, held |-> 0,
   nextEsc |-> None, escalated |-> FALSE, escalatedAt |-> None,
   rem50 |-> FALSE, rem80 |-> FALSE, deadline |-> None, resolvedAt |-> None]

Init ==
  /\ now = Created
  /\ case \in {Filed(c) : c \in Category}
  /\ requests = {}
  /\ escalating = None
  /\ expiring = None
  /\ granted = 0

-----------------------------------------------------------------------------
\* Mutant: the database never refuses a write.
Outdated_Never(sweep) == sweep

\* Every committed write of the row outruns the snapshots the sweeps hold.
Outdated(sweep) == IF sweep # None /\ SnapshotIsolation THEN Lost ELSE sweep

Save(c) ==
  /\ case' = c
  /\ escalating' = Outdated(escalating)
  /\ expiring' = Outdated(expiring)

UsersActive == now <= MoveHorizon

Tick ==
  /\ now < MaxNow
  /\ now' = now + 1
  /\ UNCHANGED <<case, requests, escalating, expiring, granted>>

\* routing.route_grievance_job: only an unowned Submitted case is routed.
Route ==
  /\ UsersActive
  /\ case.state = "Submitted" /\ case.officer = None
  /\ \E o \in Officers : Save(Arrive([case EXCEPT !.officer = o], "Assigned", now))
  /\ UNCHANGED <<now, requests, granted>>

(***************************************************************************)
(* One workflow action by a person.  The engine offers the moves of the    *)
(* present state; Assign and Auto Close belong to the system, and moves    *)
(* that start work need an owner.  Confirm Duplicate comes through the     *)
(* duplicate endpoints; they make the same move.                           *)
(***************************************************************************)
StartsWork(m) ==
  \/ m.action = "InProgress"
  \/ m.from \in {"Assigned", "Reopened"}
       /\ m.action \in {"RequestMoreInfo", "Resolve", "PartiallyResolve"}

Restarts(from, to) == SlaCategory[from] = "Stopped" /\ SlaCategory[to] = "Running"

TakeAction(m) ==
  /\ UsersActive
  /\ m.by # "system" /\ m.from = case.state
  /\ StartsWork(m) => case.officer # None
  /\ Save(Arrive(case, m.to, now))
  /\ granted' = IF Restarts(m.from, m.to) THEN 0 ELSE granted
  /\ UNCHANGED <<now, requests>>

(***************************************************************************)
(* Change requests.  A request names new values for the category, the      *)
(* officer or the deadline; approval writes them through a normal save.    *)
(***************************************************************************)
IsReassignment(p) == p.category # None \/ p.officer # None

WithValues(c, p) ==
  [c EXCEPT !.category = IF p.category = None THEN @ ELSE p.category,
            !.officer  = IF p.officer = None THEN @ ELSE p.officer,
            !.due      = IF p.due = None THEN @ ELSE p.due]

\* react_to_approved_change: reminders reopen; a climbing case keeps what is
\* left of its rung's hours, any other is re-armed against the new deadline.
DeferralReaction(c, oldDue) ==
  LET reopened == [c EXCEPT !.rem50 = FALSE, !.rem80 = FALSE]
  IN  IF c.escalated /\ c.nextEsc # None
      THEN [reopened EXCEPT !.nextEsc = @ + (c.due - oldDue)]
      ELSE ArmEscalation(reopened)

Applied(c, p, t) ==
  LET written == WithValues(c, p)
  IN  IF ~IsReassignment(p) THEN DeferralReaction(written, c.due)
      ELSE IF p.category # None THEN ResetClock(written, t) ELSE written

\* Mutant: the approval is written whatever the deadline is by now.
CheckNotStale_AnyDeadline(c, r) ==
  /\ r.new.category # None => c.category = r.old.category
  /\ r.new.officer # None => c.officer = r.old.officer
  /\ r.new.due # None => c.due # None

\* The approver ruled on the values shown to them.
CheckNotStale(c, r) ==
  /\ r.new.category # None => c.category = r.old.category
  /\ r.new.officer # None => c.officer = r.old.officer
  /\ r.new.due # None => c.due = r.old.due

\* Mutant: a final case is written like any other.
GuardTerminalState_Never(c) == TRUE

GuardTerminalState(c) == c.state \notin TerminalStates

\* What may be asked of the case as it is: a change, an officer never cleared,
\* and a deadline moved out by no more than policy allows.
ValidProposal(c, p) ==
  /\ p # [category |-> None, officer |-> None, due |-> None]
  /\ p.category # c.category
  /\ p.officer = None \/ p.officer # c.officer
  /\ p.due # None => c.due # None /\ p.due - c.due \in 1..MaxDeferral

Snapshot(c, p) ==
  [category |-> IF p.category = None THEN None ELSE c.category,
   officer  |-> IF p.officer = None THEN None ELSE c.officer,
   due      |-> IF p.due = None THEN None ELSE c.due]

\* The ghost: deferral granted in the window that the write leaves running.
GrantedBy(p) ==
  IF p.category # None THEN 0
  ELSE IF p.due # None THEN granted + (p.due - case.due) ELSE granted

Apply(p) ==
  /\ Save(Applied(case, p, now))
  /\ granted' = GrantedBy(p)

Proposals ==
  {p \in [category : Category \cup {None}, officer : Officers \cup {None},
          due : 0..MaxDue \cup {None}] : ValidProposal(case, p)}

\* The request waits for its approver.
RaiseRequest(p) ==
  /\ UsersActive
  /\ GuardTerminalState(case)
  /\ Cardinality(requests) < MaxPending
  /\ requests' = requests \cup {[old |-> Snapshot(case, p), new |-> p]}
  /\ UNCHANGED <<now, case, escalating, expiring, granted>>

\* The requester stands above the case and decides at once.
RaiseDecidedRequest(p) ==
  /\ UsersActive
  /\ GuardTerminalState(case)
  /\ Apply(p)
  /\ UNCHANGED <<now, requests>>

\* A stale request, or one on a final case, refuses the approval and waits on.
ApproveRequest(r) ==
  /\ UsersActive
  /\ CheckNotStale(case, r)
  /\ GuardTerminalState(case)
  /\ Apply(r.new)
  /\ requests' = requests \ {r}
  /\ UNCHANGED now

RejectRequest(r) ==
  /\ UsersActive
  /\ requests' = requests \ {r}
  /\ UNCHANGED <<now, case, escalating, expiring, granted>>

(***************************************************************************)
(* The hourly sweeps.                                                      *)
(***************************************************************************)

\* send_sla_reminders: at 80% first; a held or stopped clock reminds nobody.
SendReminder ==
  LET percent == ConsumedPercent(case, now)
  IN  /\ SlaCategory[case.state] # "Stopped" /\ case.due # None /\ case.holdSince = None
      /\ \/ percent >= 80 /\ ~case.rem80 /\ Save([case EXCEPT !.rem80 = TRUE])
         \/ /\ ~(percent >= 80 /\ ~case.rem80)
            /\ percent >= 50 /\ ~case.rem50 /\ Save([case EXCEPT !.rem50 = TRUE])
      /\ UNCHANGED <<now, requests, granted>>

EscalationDue(c) == c.nextEsc # None /\ c.nextEsc <= now /\ c.holdSince = None

SelectBreached ==
  /\ escalating = None
  /\ EscalationDue(case)
  /\ escalating' = case
  /\ UNCHANGED <<now, case, requests, expiring, granted>>

EscalateSelected ==
  /\ escalating # None
  /\ escalating' = None
  /\ IF escalating = Lost
     THEN UNCHANGED <<case, expiring>>
     ELSE /\ case' = Escalate(case, escalating, now)
          /\ expiring' = Outdated(expiring)
  /\ UNCHANGED <<now, requests, granted>>

TimerExpired(c) == c.deadline # None /\ c.deadline < now

SelectExpired ==
  /\ expiring = None
  /\ TimerExpired(case)
  /\ expiring' = case
  /\ UNCHANGED <<now, case, requests, escalating, granted>>

\* Mutant: the row the sweep read is saved over the row as it is.
TimerOutcome_WritesSnapshot(c, seen, t) ==
  IF TimerHours[seen.category][seen.state] = 0 THEN [c EXCEPT !.deadline = None]
  ELSE IF TimerExpiry[seen.category][seen.state] = "Escalate"
  THEN Escalate([c EXCEPT !.deadline = None], seen, t)
  ELSE Arrive([seen EXCEPT !.deadline = None], "Closed", t)

\* Mutant: the deadline goes but nobody closes the case.
TimerOutcome_OnlyClears(c, seen, t) == [c EXCEPT !.deadline = None]

AutoClosable == {m.from : m \in {n \in Transitions : n.action = "AutoClose"}}

(***************************************************************************)
(* What the timer of the state the sweep saw does to the live row.  The    *)
(* deadline goes first; the timer is read again, and none lets the case    *)
(* go.  apply_workflow reloads the row, so Auto Close is judged on the     *)
(* live state; refused, it is logged and the deadline stays cleared.       *)
(***************************************************************************)
TimerOutcome(c, seen, t) ==
  LET cleared == [c EXCEPT !.deadline = None]
      timer   == TimerHours[seen.category][seen.state] > 0
      expiry  == TimerExpiry[seen.category][seen.state]
  IN  IF ~timer THEN cleared
      ELSE IF expiry = "Escalate" THEN Escalate(cleared, seen, t)
      ELSE IF c.state \in AutoClosable THEN Arrive(cleared, "Closed", t) ELSE cleared

ExpireSelected ==
  /\ expiring # None
  /\ expiring' = None
  /\ IF expiring = Lost
     THEN UNCHANGED <<case, escalating>>
     ELSE /\ case' = TimerOutcome(case, expiring, now)
          /\ escalating' = Outdated(escalating)
  /\ UNCHANGED <<now, requests, granted>>

-----------------------------------------------------------------------------
Next ==
  \/ Tick
  \/ Route
  \/ \E m \in Transitions : TakeAction(m)
  \/ \E p \in Proposals : RaiseRequest(p) \/ RaiseDecidedRequest(p)
  \/ \E r \in requests : ApproveRequest(r) \/ RejectRequest(r)
  \/ SendReminder
  \/ SelectBreached
  \/ EscalateSelected
  \/ SelectExpired
  \/ ExpireSelected

Spec == Init /\ [][Next]_vars

\* Time passes and the scheduler keeps running the sweeps; nobody has to act.
Fairness ==
  /\ WF_vars(Tick)
  /\ WF_vars(SelectBreached) /\ WF_vars(EscalateSelected)
  /\ WF_vars(SelectExpired) /\ WF_vars(ExpireSelected)

FairSpec == Spec /\ Fairness

-----------------------------------------------------------------------------
(***************************************************************************)
(* Safety invariants.                                                      *)
(***************************************************************************)

\* Whatever sequence of holds, reopenings, deferrals and recategorisations a
\* case went through, its deadline is the window of its category from the
\* start, plus the hold already banked, plus what deferrals granted
\* (start_clock, resume_clock, reset_clock, react_to_approved_change).
DeadlineAccounting ==
  case.due # None =>
    /\ case.start # None
    /\ case.due = case.start + SlaWindow[case.category] + case.held + granted

\* A case that has not escalated is due for its first bump inside its window,
\* however the window was moved (arm_escalation and everything that shifts it).
EscalationInsideWindow ==
  ~case.escalated /\ case.nextEsc # None /\ case.due # None =>
    case.start <= case.nextEsc /\ case.nextEsc <= case.due

\* The clock is held only while the case waits on the submitter, so no path
\* out of a Paused state forgets to resume it (on_status_change, resume_clock).
HoldOnlyWhilePaused == case.holdSince # None => SlaCategory[case.state] = "Paused"

\* Exactly the resolved cases carry a resolution date, so the dashboards
\* count a case resolved twice once, and an open one never (stamp_resolution).
ResolvedStamp == (case.resolvedAt # None) <=> (case.state \in ResolvedStates)

(***************************************************************************)
(* Action properties.                                                      *)
(***************************************************************************)

\* A Closed, Rejected or Duplicate case is final: no approval, sweep or timer
\* that began while it was open still writes to it (guard_terminal_state,
\* and the db_set paths that go around it).
TerminalIsFinal == [][case.state \in TerminalStates => case' = case]_vars

Restarted ==
  case'.category # case.category \/ Restarts(case.state, case'.state)

\* Within one window the deadline never comes forward, and moves out by a
\* hold that ended or by no more than one deferral may grant, even when it
\* moved while the request was pending (_validate_deferral at the request,
\* check_not_stale at the approval, resume_clock in between).
DeadlineOnlyMovesOut ==
  [][case.due # None /\ ~Restarted =>
       /\ case'.due # None /\ case'.due >= case.due
       /\ case'.holdSince = case.holdSince => case'.due - case.due <= MaxDeferral]_vars

\* Leaving a hold keeps the share of the window used up, so no reminder is due
\* at the moment of the submitter's reply that was not due before it, and none
\* is lost (resume_clock's reason for leaving the reminder flags alone).
PercentKeptAcrossHold ==
  [][case.holdSince # None /\ case'.holdSince = None =>
       ConsumedPercent(case', now) = ConsumedPercent(case, now)]_vars

\* Even where the database lets a sweep write over an old snapshot, the outcome
\* of a final case stays what it was (expire_state_timers, apply_workflow).
FinalOutcomeKept ==
  [][case.state \in TerminalStates =>
       /\ case'.state = case.state /\ case'.due = case.due
       /\ case'.resolvedAt = case.resolvedAt]_vars

\* A sweep acts only on a case that is overdue as it stands when the write
\* lands, not as it stood when the sweep read it: nobody is handed up after a
\* reply or a reopening, and no freshly resolved case is closed on the timer
\* of an earlier state (escalate_breached, expire_state_timers).
SweepsActOnLiveRows ==
  [][/\ escalating # None /\ escalating' = None /\ case' # case => EscalationDue(case)
     /\ expiring # None /\ expiring' = None /\ case' # case => TimerExpired(case)]_vars

\* The day a case first escalated is never moved, though the escalation and
\* the timer sweep may both hold it at once, as long as the database refuses
\* writes over an old snapshot (_first_escalation).
FirstEscalationKept ==
  [][case.escalatedAt # None => case'.escalatedAt = case.escalatedAt]_vars

(***************************************************************************)
(* Liveness, where every category sets the default Auto Close timers.      *)
(***************************************************************************)

\* A case waiting on its submitter does not wait for ever (expire_state_timers).
WaitingOnSubmitterEnds ==
  \A s \in {"Resolved", "MoreInfoNeeded"} : (case.state = s) ~> (case.state # s)

Overdue ==
  /\ SlaCategory[case.state] = "Running" /\ AutoEscalate[case.category]
  /\ case.due # None /\ case.due <= now

\* A case left past its deadline is handed up, unless somebody ends or extends
\* it first: no path leaves it unarmed (arm_escalation, escalate_breached).
OverdueIsEscalated == Overdue ~> (case.escalated \/ ~Overdue)

(***************************************************************************)
(* What the clock promises (ClockContract), where every category has an    *)
(* active configuration.                                                   *)
(***************************************************************************)
ContractPhase ==
  CASE SlaCategory[case.state] = "Stopped" -> "Stopped"
    [] SlaCategory[case.state] # "Stopped" /\ case.holdSince # None -> "Held"
    [] OTHER -> "Running"

\* Before Assigned there is no deadline yet; it will be counted from filing.
ContractLeft ==
  LET due == IF case.due # None THEN case.due ELSE Created + SlaWindow[case.category]
  IN  IF ContractPhase = "Stopped" THEN 0
      ELSE due - (IF case.holdSince # None THEN case.holdSince ELSE now)

Contract == INSTANCE ClockContract
              WITH Windows <- {SlaWindow[c] : c \in Category},
                   MostDeferred <- MaxDeferral,
                   phase <- ContractPhase, left <- ContractLeft

\* The columns of the row, through every hold, reopening, deferral and
\* recategorisation, keep the promise of the contract.
ImplementsContract == Contract!Spec

(***************************************************************************)
(* What comments and documents say of the code, and the code does not do.  *)
(***************************************************************************)

\* sla.py: entering a Stopped state disarms the escalation for good.
StoppedStaysDisarmed == SlaCategory[case.state] = "Stopped" => case.nextEsc = None

\* reassignment_architecture.md: a new category starts with a clear hold.
HoldInsideWindow ==
  case.holdSince # None /\ case.start # None => case.holdSince >= case.start
==============================================================================
