------------------------------ MODULE SlaClock ------------------------------
(***************************************************************************)
(* The SLA clock of one grievance: services/sla.py as functions from the   *)
(* case before a call to the case after it.  The code mutates the          *)
(* grievance with db_set; here each function returns the changed record.   *)
(*                                                                         *)
(* A case is a record of the Grievance columns the clock reads or writes:  *)
(*   state        workflow_state (status mirrors it on every save)         *)
(*   category     service_category                                         *)
(*   officer      assigned_to, as the rung the officer holds (0: no rung)  *)
(*   start, due   sla_start_at, sla_due_date                               *)
(*   holdSince    on_hold_since                                            *)
(*   held         total_hold_time                                          *)
(*   nextEsc      next_escalation_at                                       *)
(*   escalated    escalated;  escalatedAt  escalated_at                    *)
(*   rem50, rem80 reminder_50_sent, reminder_80_sent                       *)
(*   deadline     state_deadline;  resolvedAt  resolved_at                 *)
(*                                                                         *)
(* Time is a natural number of ticks; `None' is an empty column.  Holidays *)
(* are left to the calendar: a deadline is start + window, as the code     *)
(* computes it when no holiday list applies.                               *)
(***************************************************************************)
EXTENDS Integers, GrievanceWorkflow

CONSTANTS
  None,            \* an empty column
  Category,        \* service categories
  SlaWindow,       \* category -> sla_days in ticks; 0: no active configuration
  AutoEscalate,    \* category -> auto_escalate
  Threshold,       \* category -> auto_escalation_threshold, in percent
  TimerHours,      \* category -> state -> hours of its state timer; 0: none
  TimerExpiry,     \* category -> state -> on_expiry
  Rungs,           \* length of the role-level chain
  RungHours,       \* rung -> escalation_hours; 0 makes the rung terminal
  HigherAuthority  \* rung -> who is one step above and on whose hours, or None

Officers == 0..Rungs
Authorities == [officer : Officers, rung : 1..Rungs]

ASSUME NoneAssumption ==
  None \notin Int /\ None \notin Authorities /\ None \notin Category

ASSUME ConfigAssumption ==
  /\ SlaWindow \in [Category -> Nat]
  /\ AutoEscalate \in [Category -> BOOLEAN]
  /\ Threshold \in [Category -> 1..100]
  /\ TimerHours \in [Category -> [States -> Nat]]
  /\ TimerExpiry \in [Category -> [States -> {"AutoClose", "Escalate"}]]

\* GrievanceSLAConfiguration.validate: an expiry the workflow can carry out,
\* and nothing at all for a category without an active configuration.
ASSUME TimerAssumption ==
  \A c \in Category, s \in States :
    TimerHours[c][s] > 0 =>
      /\ SlaWindow[c] > 0
      /\ TimerExpiry[c][s] = "AutoClose" => s \in {"MoreInfoNeeded", "Resolved"}
      /\ TimerExpiry[c][s] = "Escalate" => SlaCategory[s] # "Stopped"

ASSUME RungAssumption ==
  /\ Rungs \in Nat
  /\ RungHours \in [1..Rungs -> Nat]
  /\ HigherAuthority \in [Officers -> Authorities \cup {None}]

Time == Nat
MaybeTime == Nat \cup {None}

Case == [state : States, category : Category, officer : Officers \cup {None},
         start : MaybeTime, due : MaybeTime, holdSince : MaybeTime, held : Nat,
         nextEsc : MaybeTime, escalated : BOOLEAN, escalatedAt : MaybeTime,
         rem50 : BOOLEAN, rem80 : BOOLEAN,
         deadline : MaybeTime, resolvedAt : MaybeTime]

\* A case is filed at the first tick; `creation' never changes afterwards.
Created == 0

CeilDiv(a, b) == (a + b - 1) \div b

(***************************************************************************)
(* Arming the escalation.                                                  *)
(***************************************************************************)

\* Where the first bump falls: a share of the window, or its end.
FirstBump(c) ==
  IF c.start # None /\ Threshold[c.category] < 100
  THEN c.start + ((c.due - c.start) * Threshold[c.category]) \div 100
  ELSE c.due

\* Mutant: the window is counted from the deadline, not from the start.
ArmEscalation_FromDeadline(c) ==
  IF c.escalated \/ c.due = None THEN c
  ELSE [c EXCEPT !.nextEsc = IF AutoEscalate[c.category]
                             THEN c.due + SlaWindow[c.category] ELSE None]

\* Mutant: the first bump is never scheduled.
ArmEscalation_NeverArms(c) == c

ArmEscalation(c) ==
  IF c.escalated \/ c.due = None THEN c
  ELSE [c EXCEPT !.nextEsc = IF AutoEscalate[c.category] THEN FirstBump(c) ELSE None]

(***************************************************************************)
(* Starting, pausing, resuming and restarting the clock.                   *)
(***************************************************************************)

StartClock(c) ==
  IF c.due # None \/ SlaWindow[c.category] = 0 THEN c
  ELSE LET started == IF c.start # None THEN c.start ELSE Created
       IN  ArmEscalation([c EXCEPT !.start = started,
                                   !.due = started + SlaWindow[c.category]])

OpenHold(c, t) == IF c.holdSince = None \/ t < c.holdSince THEN 0 ELSE t - c.holdSince

Later(at, by) == IF at = None THEN None ELSE at + by

\* Mutant: the hold is banked but the deadline stays.
ResumeClock_KeepsDeadline(c, t) ==
  IF c.holdSince = None THEN c
  ELSE [c EXCEPT !.held = @ + OpenHold(c, t), !.holdSince = None]

ResumeClock(c, t) ==
  IF c.holdSince = None THEN c
  ELSE LET hold == OpenHold(c, t)
       IN  [c EXCEPT !.held = @ + hold,
                     !.holdSince = None,
                     !.due = Later(@, hold),
                     !.nextEsc = IF c.due = None THEN @ ELSE Later(@, hold)]

\* Mutant: the banked hold of the earlier round is kept.
ResetClock_KeepsHold(c, t) ==
  LET window == SlaWindow[c.category]
  IN  ArmEscalation([c EXCEPT !.start = t, !.rem50 = FALSE, !.rem80 = FALSE,
                              !.escalated = FALSE,
                              !.due = IF window > 0 THEN t + window ELSE None])

ResetClock(c, t) ==
  LET window == SlaWindow[c.category]
  IN  ArmEscalation([c EXCEPT !.start = t, !.held = 0,
                              !.rem50 = FALSE, !.rem80 = FALSE, !.escalated = FALSE,
                              !.due = IF window > 0 THEN t + window ELSE None])

\* What the state just entered, `to', does to the clock.
OnStatusChange(c, from, to, t) ==
  LET started == IF to = "Assigned" THEN StartClock(c) ELSE c
      resumed == ResumeClock(started, t)
  IN  IF SlaCategory[to] = "Paused"
      THEN IF started.due # None /\ started.holdSince = None
           THEN [started EXCEPT !.holdSince = t] ELSE started
      ELSE IF SlaCategory[to] = "Stopped" THEN [resumed EXCEPT !.nextEsc = None]
      ELSE IF SlaCategory[from] = "Stopped" THEN ResetClock(resumed, t)
      ELSE resumed

(***************************************************************************)
(* State timers, the resolution stamp, and the whole arrival.              *)
(***************************************************************************)

ArmStateTimer(c, to, t) ==
  [c EXCEPT !.deadline = IF TimerHours[c.category][to] > 0
                         THEN t + TimerHours[c.category][to] ELSE None]

StampResolution(c, to, t) ==
  IF to \in ResolvedStates
  THEN [c EXCEPT !.resolvedAt = IF @ = None THEN t ELSE @]
  ELSE IF to # "Rejected" THEN [c EXCEPT !.resolvedAt = None] ELSE c

\* hooks_handlers.after_workflow_action: what arriving in `to' carries out.
Arrive(c, to, t) ==
  LET moved == [c EXCEPT !.state = to]
  IN  StampResolution(ArmStateTimer(OnStatusChange(moved, c.state, to, t), to, t), to, t)

(***************************************************************************)
(* Escalating.  `seen' is the row the sweep read; the writes land on the   *)
(* row as it is now, `c'.                                                  *)
(***************************************************************************)

Escalate(c, seen, t) ==
  LET above == HigherAuthority[IF seen.officer = None THEN 0 ELSE seen.officer]
      hours == RungHours[above.rung]
      first == IF seen.escalatedAt = None THEN t ELSE c.escalatedAt
  IN  IF above = None
      THEN [c EXCEPT !.escalated = TRUE, !.nextEsc = None, !.escalatedAt = first]
      ELSE [c EXCEPT !.escalated = TRUE, !.escalatedAt = first, !.officer = above.officer,
                     !.nextEsc = IF hours > 0 THEN t + hours ELSE None]

(***************************************************************************)
(* The share of the window used up, in percent, for the reminders.         *)
(***************************************************************************)

ConsumedPercent(c, t) ==
  LET window  == c.due - c.start - c.held
      elapsed == t - c.start - c.held - OpenHold(c, t)
      percent == CeilDiv(elapsed * 100, window)
  IN  IF c.start = None \/ c.due = None THEN 0
      ELSE IF window <= 0 THEN 100
      ELSE IF elapsed <= 0 THEN 0
      ELSE IF percent > 999 THEN 999 ELSE percent
=============================================================================
