-------------------------- MODULE CaseContractProofs --------------------------
(***************************************************************************)
(* The columns of a case implement the contract of the SLA clock, step by  *)
(* step, wherever every category has an active configuration.              *)
(*                                                                         *)
(* A step of GrievanceCase is one of the four kinds of CaseClockProofs; a  *)
(* move of the workflow pauses, resumes, stops or reopens the contract's   *)
(* clock, a change request extends or restarts it, the clock burns it, and *)
(* everything else leaves it alone.  What is added to the invariant is     *)
(* where a case has no deadline yet, and that no hold began in the future. *)
(***************************************************************************)
EXTENDS CaseClockProofs

USE NoneAssumption, ConfigAssumption

\* Every category gives a window.
WindowsOpen == \A c \in Category : SlaWindow[c] > 0

\* A case has no deadline before it is first assigned, nor when it ends there,
\* and is not on hold from a time to come.
Dated(c, t) ==
  /\ c.due = None => c.start = None /\ c.state \in {"Submitted", "Rejected", "Duplicate"}
  /\ c.holdSince # None => c.holdSince <= t

\* The deadline, or the one the case will get when it is assigned.
DueFrom(c) == IF c.due # None THEN c.due ELSE Created + SlaWindow[c.category]

-----------------------------------------------------------------------------
\* Starting the clock writes the deadline that was to be expected.
LEMMA StartDates ==
  ASSUME NEW c, NEW g, Sound(c, g), WindowsOpen, c.due = None => c.start = None
  PROVE  LET d == StartClock(c)
         IN  d.category = c.category /\ d.due = DueFrom(c) /\ d.due # None
  <1>1. CASE c.due # None
    BY <1>1 DEF StartClock, DueFrom
  <1>2. CASE c.due = None
    <2> DEFINE d == [c EXCEPT !.start = Created, !.due = Created + SlaWindow[c.category]]
    <2>1. c \in Case /\ c.category \in Category /\ SlaWindow[c.category] \in Nat \ {0}
      BY DEF Sound, Case, WindowsOpen
    <2>2. StartClock(c) = ArmEscalation(d)
      BY <1>2, <2>1 DEF StartClock
    <2>3. /\ d.due = Created + SlaWindow[c.category] /\ d.category = c.category
          /\ DOMAIN d = DOMAIN c
      BY <2>1 DEF Case
    <2>4. Created + SlaWindow[c.category] # None
      BY <2>1 DEF Created
    <2> HIDE DEF d
    <2>5. {"due", "category"} \subseteq DOMAIN d
      BY <2>1, <2>3 DEF Case
    <2>6. ArmEscalation(d).due = d.due /\ ArmEscalation(d).category = d.category
      BY <2>5 DEF ArmEscalation
    <2> QED
      BY <1>2, <2>2, <2>3, <2>4, <2>6 DEF DueFrom
  <1> QED
    BY <1>1, <1>2

\* Restarting it writes a whole window from now.
LEMMA ResetDates ==
  ASSUME NEW c \in Case, NEW t \in Nat, WindowsOpen
  PROVE  LET d == ResetClock(c, t)
         IN  /\ d.category = c.category /\ d.due = t + SlaWindow[c.category]
             /\ d.holdSince = c.holdSince /\ d.due # None
  <1> DEFINE due == IF SlaWindow[c.category] > 0 THEN t + SlaWindow[c.category] ELSE None
             d == [c EXCEPT !.start = t, !.held = 0, !.rem50 = FALSE, !.rem80 = FALSE,
                            !.escalated = FALSE, !.due = due]
  <1>1. SlaWindow[c.category] \in Nat \ {0}
    BY DEF Case, WindowsOpen
  <1>2. ResetClock(c, t) = ArmEscalation(d)
    BY DEF ResetClock
  <1>d. due = t + SlaWindow[c.category]
    BY <1>1
  <1> HIDE DEF due
  <1>3. /\ d.due = t + SlaWindow[c.category] /\ d.category = c.category
        /\ d.holdSince = c.holdSince /\ {"due", "category", "holdSince"} \subseteq DOMAIN d
    BY <1>d DEF Case
  <1> HIDE DEF d
  <1>4. /\ ArmEscalation(d).due = d.due /\ ArmEscalation(d).category = d.category
        /\ ArmEscalation(d).holdSince = d.holdSince
    BY <1>3 DEF ArmEscalation
  <1>5. t + SlaWindow[c.category] # None
    BY <1>1
  <1> QED
    BY <1>2, <1>3, <1>4, <1>5

\* The dates on_status_change leaves, by what the state entered does.
StatusDates(c, d, from, to, t) ==
  LET due == IF to = "Assigned" THEN DueFrom(c) ELSE c.due
  IN  /\ d.category = c.category
      /\ d.due = None => d.start = c.start
      /\ SlaCategory[to] = "Paused" =>
           /\ d.due = due
           /\ d.holdSince = IF due # None /\ c.holdSince = None THEN t ELSE c.holdSince
      /\ SlaCategory[to] # "Paused" => d.holdSince = None
      /\ SlaCategory[to] = "Running" /\ SlaCategory[from] = "Stopped" =>
           d.due = t + SlaWindow[c.category]
      /\ SlaCategory[to] = "Stopped" => (d.due = None <=> due = None)
      /\ SlaCategory[to] = "Running" /\ SlaCategory[from] # "Stopped" =>
           d.due = IF due = None THEN None
                   ELSE IF c.holdSince = None THEN due ELSE due + OpenHold(c, t)

\* on_status_change leaves those dates.
LEMMA StatusLeavesDates ==
  ASSUME NEW c, NEW g, NEW t \in Nat, Sound(c, g), WindowsOpen,
         NEW from \in States, NEW to \in States, c.due = None => c.start = None
  PROVE  StatusDates(c, OnStatusChange(c, from, to, t), from, to, t)
  <1> DEFINE due == IF to = "Assigned" THEN DueFrom(c) ELSE c.due
             started == IF to = "Assigned" THEN StartClock(c) ELSE c
             resumed == ResumeClock(started, t)
             d == OnStatusChange(c, from, to, t)
  <1>1. /\ Sound(started, g) /\ started.due = due /\ started.category = c.category
        /\ started.holdSince = c.holdSince
        /\ started.due = None => started.start = c.start
    <2>1. CASE to = "Assigned"
      <3>1. /\ Sound(StartClock(c), g) /\ StartClock(c).holdSince = c.holdSince
            /\ StartClock(c).due = DueFrom(c) /\ StartClock(c).category = c.category
            /\ StartClock(c).due # None
        BY StartSound, StartDates, StartStanding DEF SameStanding
      <3> QED
        BY <2>1, <3>1
    <2>2. CASE to # "Assigned"
      BY <2>2
    <2> QED
      BY <2>1, <2>2
  <1>2. SlaCategory[to] \in {"Running", "Paused", "Stopped"}
    BY DEF States, SlaCategory
  <1>3. d =
          IF SlaCategory[to] = "Paused"
          THEN IF started.due # None /\ started.holdSince = None
               THEN [started EXCEPT !.holdSince = t] ELSE started
          ELSE IF SlaCategory[to] = "Stopped" THEN [resumed EXCEPT !.nextEsc = None]
          ELSE IF SlaCategory[from] = "Stopped" THEN ResetClock(resumed, t)
          ELSE resumed
    BY DEF OnStatusChange
  <1>4. started \in Case /\ due \in MaybeTime
    BY <1>1 DEF Sound, Case
  <1> HIDE DEF started, due
  <1>5. Sound(resumed, g) /\ resumed.category = c.category
    BY <1>1, ResumeSound, ZenonT(30)
  <1>6. resumed.holdSince = None /\ resumed.start = started.start
    BY <1>4, ResumeStanding DEF ResumeClock, Case
  <1>7. resumed.due = IF due = None THEN None
                      ELSE IF c.holdSince = None THEN due ELSE due + OpenHold(c, t)
    <2>1. OpenHold(started, t) = OpenHold(c, t)
      BY <1>1 DEF OpenHold
    <2> QED
      BY <1>1, <1>4, <2>1 DEF ResumeClock, Later, Case
  <1>8. /\ resumed \in Case
        /\ due # None => due \in Nat /\ OpenHold(c, t) \in Nat /\ due + OpenHold(c, t) # None
    <2>1. OpenHold(c, t) \in Nat
      BY DEF OpenHold, Sound, Case, MaybeTime
    <2> QED
      BY <1>4, <1>5, <2>1 DEF Sound, MaybeTime
  <1> HIDE DEF resumed, d
  <1>9. CASE SlaCategory[to] = "Paused"
    <2> DEFINE e == [started EXCEPT !.holdSince = t]
    <2>1. /\ e.category = started.category /\ e.due = started.due /\ e.holdSince = t
          /\ e.start = started.start
      BY <1>4 DEF Case
    <2>2. d = IF started.due # None /\ started.holdSince = None THEN e ELSE started
      BY <1>3, <1>9
    <2> HIDE DEF e
    <2>3. d.due = due /\ d.category = c.category /\ (d.due = None => d.start = c.start)
      BY <1>1, <2>1, <2>2
    <2>4. d.holdSince = IF due # None /\ c.holdSince = None THEN t ELSE c.holdSince
      BY <1>1, <2>1, <2>2
    <2> QED
      BY <1>9, <2>3, <2>4 DEF StatusDates, due, d
  <1>10. CASE SlaCategory[to] = "Stopped"
    <2> DEFINE e == [resumed EXCEPT !.nextEsc = None]
    <2>1. /\ e.category = resumed.category /\ e.due = resumed.due
          /\ e.holdSince = resumed.holdSince /\ e.start = resumed.start
      BY <1>8 DEF Case
    <2>2. d = e
      BY <1>3, <1>10
    <2> HIDE DEF e
    <2>3. (d.due = None <=> due = None) /\ (d.due = None => d.start = c.start)
      BY <1>1, <1>6, <1>7, <1>8, <2>1, <2>2
    <2> QED
      BY <1>5, <1>6, <1>10, <2>1, <2>2, <2>3 DEF StatusDates, due, d
  <1>11. CASE SlaCategory[to] = "Running" /\ SlaCategory[from] = "Stopped"
    <2>1. d = ResetClock(resumed, t)
      BY <1>3, <1>11
    <2> QED
      BY <1>5, <1>6, <1>8, <1>11, <2>1, ResetDates DEF StatusDates, d
  <1>12. CASE SlaCategory[to] = "Running" /\ SlaCategory[from] # "Stopped"
    <2>1. d = resumed
      BY <1>3, <1>12
    <2>2. d.due = None => d.start = c.start
      BY <1>1, <1>6, <1>7, <1>8, <2>1
    <2> QED
      BY <1>5, <1>6, <1>7, <1>12, <2>1, <2>2 DEF StatusDates, due, d
  <1> QED
    BY <1>2, <1>9, <1>10, <1>11, <1>12

\* The state timer and the resolution date leave them.
LEMMA ArriveLeavesDates ==
  ASSUME NEW c, NEW g, NEW t \in Nat, Sound(c, g), Inside(c), WindowsOpen,
         NEW to \in States, c.due = None => c.start = None
  PROVE  StatusDates(c, Arrive(c, to, t), c.state, to, t) /\ Arrive(c, to, t).state = to
  <1> DEFINE moved == [c EXCEPT !.state = to]
             ruled == OnStatusChange(moved, c.state, to, t)
             timed == ArmStateTimer(ruled, to, t)
             d == StampResolution(timed, to, t)
  <1>1. Sound(moved, g) /\ c.state \in States /\ SameClock(c, moved)
    BY DEF Sound, Case, SameClock
  <1>2. Arrive(c, to, t) = d
    BY DEF Arrive
  <1> HIDE DEF moved
  <1>3. moved.due = None => moved.start = None
    BY <1>1 DEF SameClock
  <1>4. StatusDates(moved, ruled, c.state, to, t)
    BY <1>1, <1>3, StatusLeavesDates
  <1>5. Sound(ruled, IF Restarts(c.state, to) THEN 0 ELSE g)
    BY <1>1, StatusSound
  <1> HIDE DEF ruled
  <1>6. ruled \in Case /\ timed \in Case
    BY <1>5, TimerSound DEF Sound
  <1>7. SameClock(ruled, timed)
    BY <1>6 DEF ArmStateTimer, SameClock, Case
  <1> HIDE DEF timed
  <1>8. SameClock(timed, d)
    BY <1>6 DEF StampResolution, SameClock, Case
  <1> HIDE DEF d
  <1>9. DueFrom(moved) = DueFrom(c) /\ OpenHold(moved, t) = OpenHold(c, t)
    BY <1>1 DEF DueFrom, OpenHold, SameClock
  <1>10. StatusDates(c, d, c.state, to, t)
    BY <1>1, <1>4, <1>7, <1>8, <1>9 DEF StatusDates, SameClock
  <1> QED
    BY <1>2, <1>10, ArriveInside

-----------------------------------------------------------------------------
\* Where the moves of the workflow lead.
LEMMA MovesLead ==
  ASSUME NEW m \in Transitions
  PROVE  /\ m.from \notin {"Closed", "Rejected", "Duplicate"}
         /\ m.from = "Submitted" => m.to \in {"Assigned", "Rejected", "Duplicate"}
         /\ m.to = "Assigned" => SlaCategory[m.from] = "Running"
         /\ m.to = "MoreInfoNeeded" => m.from \in {"Assigned", "Reopened", "InProgress"}
  BY DEF Transitions, Move, WorkStates, SlaCategory

\* An applied request names no earlier state and no cleared deadline.
LEMMA AppliedDates ==
  ASSUME NEW c, NEW g, NEW t \in Nat, Sound(c, g), Inside(c), WindowsOpen, NEW p, AsksOf(c, p)
  PROVE  LET d == Applied(c, p, t)
         IN  /\ d.state = c.state /\ d.holdSince = c.holdSince
             /\ p.category # None =>
                  d.category = p.category /\ d.due = t + SlaWindow[p.category]
             /\ p.category = None =>
                  /\ d.category = c.category /\ d.start = c.start
                  /\ d.due = IF p.due # None THEN p.due ELSE c.due
  <1> DEFINE d == Applied(c, p, t)
  <1>1. d.state = c.state /\ d.holdSince = c.holdSince
    BY AppliedStanding DEF SameStanding
  <1>2. ASSUME p.category # None
        PROVE  d.category = p.category /\ d.due = t + SlaWindow[p.category]
    <2> DEFINE written == WithValues(c, p)
    <2>a. c \in Case /\ p \in Proposal
      BY DEF AsksOf, Sound
    <2>1. written \in Case /\ written.category = p.category
      <3>1. written.category = p.category
        BY <1>2, <2>a DEF WithValues, Case
      <3> QED
        BY <2>a, <3>1, WithValuesIsCase
    <2>2. d = ResetClock(written, t)
      BY <1>2 DEF Applied, IsReassignment
    <2> HIDE DEF written, d
    <2> QED
      BY <2>1, <2>2, ResetDates
  <1> QED
    BY <1>1, <1>2, AppliedInside

\* The inductive invariant.
Contracted == Kept /\ Dated(case, now)

\* A new case has no deadline and no hold.
LEMMA ContractedInit == Init => Contracted
  <1> SUFFICES ASSUME Init PROVE Dated(case, now)
    BY KeptInit DEF Contracted
  <1>1. PICK category \in Category : case = Filed(category)
    BY DEF Init
  <1> QED
    BY <1>1 DEF Filed, Dated

\* What an arrival leaves in the case itself.
LEMMA ArrivedDates ==
  ASSUME Contracted, WindowsOpen, Arrived
  PROVE  \E m \in Transitions :
           /\ m.from = case.state /\ m.to = case'.state
           /\ m.to \in States
           /\ StatusDates(case, case', case.state, case'.state, now)
  <1>1. PICK c \in Case, to \in States :
          /\ SameClock(case, c) /\ c.state = case.state /\ Sound(c, granted)
          /\ \E m \in Transitions : m.from = case.state /\ m.to = to
          /\ case' = Arrive(c, to, now)
    BY DEF Arrived
  <1>2. Inside(c) /\ now \in Nat /\ (c.due = None => c.start = None)
    BY <1>1 DEF Contracted, Dated, Kept, Standing, Books, Time, SameClock, Inside
  <1>3. StatusDates(c, case', case.state, to, now) /\ case'.state = to
    BY <1>1, <1>2, ArriveLeavesDates
  <1>4. DueFrom(c) = DueFrom(case) /\ OpenHold(c, now) = OpenHold(case, now)
    BY <1>1 DEF DueFrom, OpenHold, SameClock
  <1>5. StatusDates(case, case', case.state, to, now)
    BY <1>1, <1>3, <1>4 DEF StatusDates, SameClock
  <1> QED
    BY <1>1, <1>3, <1>5

\* Only time passing moves the wall clock, and it moves nothing else.
LEMMA TimeOrStep ==
  ASSUME Contracted, [Next]_vars
  PROVE  Tick \/ now' = now
  BY DEF Next, Route, TakeAction, RaiseRequest, RaiseDecidedRequest, ApproveRequest,
         RejectRequest, SendReminder, SelectBreached, EscalateSelected, SelectExpired,
         ExpireSelected, vars

\* Every step keeps the dates.
LEMMA ContractedKept == ASSUME WindowsOpen, Contracted, [Next]_vars PROVE Contracted'
  <1> SUFFICES Dated(case', now')
    BY KeptKept DEF Contracted, Dated
  <1>a. /\ Sound(case, granted) /\ Inside(case) /\ case \in Case /\ case.state \in States
        /\ Dated(case, now) /\ now \in Nat
    BY DEF Contracted, Kept, Standing, Books, Sound, Case, Time
  <1>b. now' \in Nat /\ now' >= now /\ (\A at \in MaybeTime : at # None /\ at <= now => at <= now')
    BY <1>a, TimeOrStep DEF Tick, MaybeTime
  <1>c. case.holdSince \in MaybeTime
    BY <1>a DEF Case
  <1>1. ASSUME case'.due = case.due, case'.start = case.start, case'.state = case.state,
               case'.holdSince = case.holdSince
        PROVE  Dated(case', now')
    BY <1>a, <1>b, <1>c, <1>1 DEF Dated
  <1>2. CASE Untouched \/ HandedUp(case, case')
    BY <1>1, <1>2 DEF Untouched, HandedUp, SameClock
  <1>3. CASE Changed
    <2>1. PICK p \in Proposal : AsksModestly(case, p) /\ case' = Applied(case, p, now)
      BY <1>3 DEF Changed
    <2>2. /\ case'.state = case.state /\ case'.holdSince = case.holdSince
          /\ p.category # None => case'.due = now + SlaWindow[p.category]
          /\ p.category = None => /\ case'.start = case.start
                                  /\ case'.due = IF p.due # None THEN p.due ELSE case.due
      BY <1>a, <2>1, AppliedDates DEF AsksModestly
    <2>3. p.category # None => now + SlaWindow[p.category] # None
      BY <1>a DEF Proposal
    <2>4. case'.due = None => case.due = None /\ case'.start = case.start
      BY <2>2, <2>3
    <2> QED
      BY <1>a, <1>b, <1>c, <2>2, <2>4 DEF Dated
  <1>4. CASE Arrived
    <2>1. PICK m \in Transitions :
            /\ m.from = case.state /\ m.to = case'.state /\ m.to \in States
            /\ StatusDates(case, case', case.state, case'.state, now)
      BY <1>4, ArrivedDates
    <2>2. case'.holdSince # None => case'.holdSince <= now'
      BY <1>a, <1>b, <1>c, <2>1 DEF StatusDates, Dated
    <2>3. ASSUME case'.due = None
          PROVE  case.due = None /\ case'.start = None
                 /\ case'.state \in {"Submitted", "Rejected", "Duplicate"}
      <3>1. \A to \in States : SlaCategory[to] \in {"Running", "Paused", "Stopped"}
        BY DEF States, SlaCategory
      <3>2. OpenHold(case, now) \in Nat /\ case.due \in MaybeTime
            /\ now + SlaWindow[case.category] # None /\ DueFrom(case) # None
        BY <1>a DEF OpenHold, Case, MaybeTime, DueFrom, Created
      <3> DEFINE due == IF case'.state = "Assigned" THEN DueFrom(case) ELSE case.due
      <3>d. due # None => due + OpenHold(case, now) # None
        <4>1. due \in MaybeTime
          BY <1>a, <3>2 DEF DueFrom, Created, MaybeTime, Case
        <4> QED
          BY <3>2, <4>1 DEF MaybeTime
      <3>p. ASSUME SlaCategory[case'.state] = "Paused" PROVE due = None
        BY <2>1, <2>3, <3>p DEF StatusDates
      <3>s. ASSUME SlaCategory[case'.state] = "Stopped" PROVE due = None
        BY <2>1, <2>3, <3>s DEF StatusDates
      <3>r. ASSUME SlaCategory[case'.state] = "Running" PROVE due = None
        BY <2>1, <2>3, <3>2, <3>d, <3>r DEF StatusDates
      <3>q. due = None
        BY <2>1, <3>1, <3>p, <3>s, <3>r
      <3>3. case.due = None /\ case'.state # "Assigned"
        BY <3>2, <3>q
      <3>4. case.state = "Submitted" /\ case.start = None
        BY <1>a, <2>1, <3>3, MovesLead DEF Dated
      <3> QED
        BY <2>1, <2>3, <3>3, <3>4, MovesLead DEF StatusDates
    <2> QED
      BY <2>2, <2>3 DEF Dated
  <1> QED
    BY <1>2, <1>3, <1>4, StepKinds DEF Contracted

-----------------------------------------------------------------------------
(***************************************************************************)
(* The mapping, as operators of a case and a time.                         *)
(***************************************************************************)
Phase(c) ==
  IF SlaCategory[c.state] = "Stopped" THEN "Stopped"
  ELSE IF c.holdSince # None THEN "Held" ELSE "Running"

Left(c, t) ==
  IF Phase(c) = "Stopped" THEN 0
  ELSE DueFrom(c) - (IF c.holdSince # None THEN c.holdSince ELSE t)

\* They are what GrievanceCase maps phase and left to.
LEMMA MappingIs ==
  /\ ContractPhase = Phase(case)
  /\ ContractLeft = Left(case, now)
  /\ ContractPhase' = Phase(case')
  /\ ContractLeft' = Left(case', now')
  <1>1. ContractPhase = Phase(case) /\ ContractPhase' = Phase(case')
    BY DEF ContractPhase, Phase
  <1> QED
    BY <1>1 DEF ContractLeft, Left, DueFrom

\* What the contract allows to happen to a phase and the time left.
Allowed(p, l, q, m) ==
  \/ q = p /\ m = l
  \/ p = "Running" /\ q = p /\ m = l - 1
  \/ p = "Running" /\ q = "Held" /\ m = l
  \/ p = "Held" /\ q = "Running" /\ m = l
  \/ p # "Stopped" /\ q = "Stopped" /\ m = 0
  \/ p = "Stopped" /\ q = "Running" /\ \E c \in Category : m = SlaWindow[c]
  \/ p # "Stopped" /\ q = p /\ \E by \in 1..MaxDeferral : m = l + by
  \/ p = "Running" /\ q = p /\ \E c \in Category : m = SlaWindow[c]
  \/ p = "Held" /\ q = p /\ m \in Int /\ \E c \in Category : m >= SlaWindow[c]

\* It is the contract's next-state relation.
LEMMA AllowedIsNext ==
  ASSUME Allowed(ContractPhase, ContractLeft, ContractPhase', ContractLeft')
  PROVE  [Contract!Next]_(Contract!contractVars)
  <1> DEFINE p == ContractPhase
             q == ContractPhase'
             l == ContractLeft
             m == ContractLeft'
             W == {SlaWindow[c] : c \in Category}
  <1>1. ASSUME NEW c \in Category PROVE SlaWindow[c] \in W
    OBVIOUS
  <1>2. CASE q = p /\ m = l
    BY <1>2 DEF Contract!contractVars
  <1>3. CASE p = "Running" /\ q = p /\ m = l - 1
    BY <1>3 DEF Contract!Next, Contract!Burn
  <1>4. CASE p = "Running" /\ q = "Held" /\ m = l
    BY <1>4 DEF Contract!Next, Contract!Pause
  <1>5. CASE p = "Held" /\ q = "Running" /\ m = l
    BY <1>5 DEF Contract!Next, Contract!Resume
  <1>6. CASE p # "Stopped" /\ q = "Stopped" /\ m = 0
    BY <1>6 DEF Contract!Next, Contract!Stop
  <1>7. CASE p = "Stopped" /\ q = "Running" /\ \E c \in Category : m = SlaWindow[c]
    BY <1>7 DEF Contract!Next, Contract!Reopen
  <1>8. CASE p # "Stopped" /\ q = p /\ \E by \in 1..MaxDeferral : m = l + by
    BY <1>8 DEF Contract!Next, Contract!Extend
  <1>9. CASE p = "Running" /\ q = p /\ \E c \in Category : m = SlaWindow[c]
    BY <1>9 DEF Contract!Next, Contract!Restart
  <1>10. CASE p = "Held" /\ q = p /\ m \in Int /\ \E c \in Category : m >= SlaWindow[c]
    BY <1>10 DEF Contract!Next, Contract!Restart
  <1> QED
    BY <1>2, <1>3, <1>4, <1>5, <1>6, <1>7, <1>8, <1>9, <1>10 DEF Allowed

\* The clock burns what is left, and only while it runs.
LEMMA TickAllowed ==
  ASSUME Contracted, Tick
  PROVE  Allowed(Phase(case), Left(case, now), Phase(case'), Left(case', now'))
  <1>1. case' = case /\ now' = now + 1 /\ now \in Nat /\ case \in Case
    BY DEF Tick, Contracted, Kept, Standing, Books, Sound, Time
  <1>2. DueFrom(case) \in Int
    BY <1>1 DEF DueFrom, Case, MaybeTime, Created
  <1> QED
    BY <1>1, <1>2 DEF Allowed, Phase, Left

\* A change request restarts the clock, extends it, or leaves it alone.
LEMMA ChangedAllowed ==
  ASSUME WindowsOpen, Contracted, Changed, now' = now
  PROVE  Allowed(Phase(case), Left(case, now), Phase(case'), Left(case', now'))
  <1>a. /\ Sound(case, granted) /\ Inside(case) /\ case \in Case
        /\ Dated(case, now) /\ now \in Nat
    BY DEF Contracted, Kept, Standing, Books, Sound, Time
  <1>1. PICK p \in Proposal : AsksModestly(case, p) /\ case' = Applied(case, p, now)
    BY DEF Changed
  <1>2. /\ case'.state = case.state /\ case'.holdSince = case.holdSince
        /\ p.category # None =>
             case'.category = p.category /\ case'.due = now + SlaWindow[p.category]
        /\ p.category = None =>
             /\ case'.category = case.category
             /\ case'.due = IF p.due # None THEN p.due ELSE case.due
    BY <1>a, <1>1, AppliedDates DEF AsksModestly
  <1>3. Phase(case') = Phase(case)
    BY <1>2 DEF Phase
  <1>4. CASE Phase(case) = "Stopped"
    BY <1>3, <1>4 DEF Allowed, Left
  <1>5. CASE Phase(case) # "Stopped" /\ p.category # None
    <2>1. p.category \in Category /\ SlaWindow[p.category] \in Nat
      BY <1>5 DEF Proposal
    <2>2. DueFrom(case') = now + SlaWindow[p.category]
      BY <1>2, <1>5, <1>a, <2>1 DEF DueFrom
    <2>3. CASE case.holdSince = None
      <3>1. Left(case', now') = SlaWindow[p.category] /\ Phase(case) = "Running"
        BY <1>2, <1>3, <1>5, <1>a, <2>1, <2>2, <2>3 DEF Left, Phase
      <3> QED
        BY <1>3, <2>1, <3>1 DEF Allowed
    <2>4. CASE case.holdSince # None
      <3>1. case.holdSince \in Nat /\ case.holdSince <= now
        BY <1>a, <2>4 DEF Case, MaybeTime, Dated
      <3>h. Phase(case) = "Held"
        BY <1>5, <2>4 DEF Phase
      <3>d. Left(case', now') = DueFrom(case') - case.holdSince
        BY <1>2, <1>3, <2>4, <3>h DEF Left
      <3>2. Left(case', now') = now + SlaWindow[p.category] - case.holdSince
        BY <1>a, <2>1, <2>2, <3>1, <3>d
      <3>3. Left(case', now') >= SlaWindow[p.category] /\ Left(case', now') \in Int
        BY <1>a, <2>1, <3>1, <3>2
      <3> QED
        BY <1>3, <2>1, <3>h, <3>3 DEF Allowed
    <2> QED
      BY <2>3, <2>4
  <1>6. CASE Phase(case) # "Stopped" /\ p.category = None
    <2>1. CASE p.due = None
      <3>1. DueFrom(case') = DueFrom(case)
        BY <1>2, <1>6, <2>1 DEF DueFrom
      <3>2. Left(case', now') = Left(case, now)
        BY <1>2, <1>3, <3>1 DEF Left
      <3> QED
        BY <1>3, <3>2 DEF Allowed
    <2>2. CASE p.due # None
      <3>1. /\ p.due \in Nat /\ case.due \in Nat /\ p.due - case.due \in 1..MaxDeferral
            /\ case.due # None
        BY <1>1, <1>a, <2>2 DEF AsksModestly, AsksOf, Proposal, Case, MaybeTime
      <3>2. DueFrom(case') = p.due /\ DueFrom(case) = case.due
        BY <1>2, <1>6, <2>2, <3>1 DEF DueFrom
      <3> DEFINE since == IF case.holdSince # None THEN case.holdSince ELSE now
      <3>3. since \in Nat
        BY <1>a DEF Case, MaybeTime
      <3>l. Left(case, now) = DueFrom(case) - since /\ Left(case', now') = DueFrom(case') - since
        BY <1>2, <1>3, <1>6 DEF Left
      <3> HIDE DEF since
      <3>4. Left(case', now') = Left(case, now) + (p.due - case.due)
        BY <3>1, <3>2, <3>3, <3>l
      <3> QED
        BY <1>3, <1>6, <3>1, <3>4 DEF Allowed
    <2> QED
      BY <2>1, <2>2
  <1> QED
    BY <1>4, <1>5, <1>6

\* A move of the workflow pauses, resumes, stops or reopens the clock.
LEMMA ArrivedAllowed ==
  ASSUME WindowsOpen, Contracted, Arrived, now' = now
  PROVE  Allowed(Phase(case), Left(case, now), Phase(case'), Left(case', now'))
  <1>a. /\ case \in Case /\ case.state \in States /\ now \in Nat
        /\ Dated(case, now) /\ Matched(case)
        /\ case.category \in Category /\ SlaWindow[case.category] \in Nat
    BY DEF Contracted, Kept, Standing, Books, Sound, Case, Time
  <1>1. PICK m \in Transitions :
          /\ m.from = case.state /\ m.to = case'.state /\ m.to \in States
          /\ StatusDates(case, case', case.state, case'.state, now)
    BY ArrivedDates
  <1> DEFINE due == IF case'.state = "Assigned" THEN DueFrom(case) ELSE case.due
             to == SlaCategory[case'.state]
             from == SlaCategory[case.state]
  <1>2. to \in {"Running", "Paused", "Stopped"}
    BY <1>1 DEF States, SlaCategory
  <1>3. DueFrom(case) \in Nat /\ DueFrom(case) # None
    BY <1>a DEF DueFrom, Case, MaybeTime, Created
  <1>4. CASE to = "Stopped"
    BY <1>4 DEF Allowed, Phase, Left
  <1>5. CASE to = "Running" /\ from = "Stopped"
    <2>1. /\ case'.holdSince = None /\ case'.category = case.category
          /\ case'.due = now + SlaWindow[case.category]
      BY <1>1, <1>5 DEF StatusDates
    <2>2. DueFrom(case') = now + SlaWindow[case.category]
      BY <1>a, <2>1 DEF DueFrom
    <2>3. Left(case', now') = SlaWindow[case.category]
      BY <1>a, <1>5, <2>1, <2>2 DEF Left, Phase
    <2> QED
      BY <1>a, <1>5, <2>1, <2>3 DEF Allowed, Phase
  \* Outside Submitted there is a deadline, and assigning writes the expected one.
  <1>6. ASSUME to # "Stopped" PROVE due = DueFrom(case)
    <2>1. CASE case.due # None
      BY <2>1 DEF DueFrom
    <2>2. CASE case.due = None
      <3>1. case.state = "Submitted"
        BY <1>1, <1>a, <2>2, MovesLead DEF Dated
      <3>2. case'.state = "Assigned"
        BY <1>1, <1>6, <3>1, MovesLead DEF SlaCategory
      <3> QED
        BY <3>2
    <2> QED
      BY <2>1, <2>2
  <1>7. CASE to = "Running" /\ from # "Stopped"
    <2>1. /\ case'.holdSince = None
          /\ case'.due = IF case.holdSince = None THEN DueFrom(case)
                         ELSE DueFrom(case) + OpenHold(case, now)
      BY <1>1, <1>3, <1>6, <1>7 DEF StatusDates
    <2>2. CASE case.holdSince = None
      <3>1. DueFrom(case') = DueFrom(case)
        BY <1>3, <2>1, <2>2 DEF DueFrom
      <3>2. Phase(case') = Phase(case) /\ Left(case', now') = Left(case, now)
        BY <1>7, <2>1, <2>2, <3>1 DEF Phase, Left
      <3> QED
        BY <3>2 DEF Allowed
    <2>3. CASE case.holdSince # None
      <3>1. case.holdSince \in Nat /\ case.holdSince <= now
        BY <1>a, <2>3 DEF Case, MaybeTime, Dated
      <3>2. OpenHold(case, now) = now - case.holdSince
        BY <1>a, <2>3, <3>1 DEF OpenHold
      <3>3. DueFrom(case') = DueFrom(case) + (now - case.holdSince)
        BY <1>a, <1>3, <2>1, <2>3, <3>1, <3>2 DEF DueFrom
      <3>4. Left(case', now') = Left(case, now)
        BY <1>a, <1>3, <1>7, <2>1, <2>3, <3>1, <3>3 DEF Left, Phase
      <3> QED
        BY <1>7, <2>1, <2>3, <3>4 DEF Allowed, Phase
    <2> QED
      BY <2>2, <2>3
  <1>8. CASE to = "Paused"
    <2>1. case'.state = "MoreInfoNeeded"
      BY <1>1, <1>8 DEF States, SlaCategory
    <2>2. from = "Running"
      BY <1>1, <2>1, MovesLead DEF SlaCategory
    <2>3. case.holdSince = None
      BY <1>a, <2>2 DEF Matched
    <2>4. case'.due = DueFrom(case) /\ case'.holdSince = now
      BY <1>1, <1>3, <1>6, <1>8, <2>3 DEF StatusDates
    <2>5. DueFrom(case') = DueFrom(case) /\ now # None
      BY <1>3, <1>a, <2>4 DEF DueFrom
    <2>6. Left(case', now') = Left(case, now)
      BY <1>8, <2>2, <2>3, <2>4, <2>5 DEF Left, Phase
    <2> QED
      BY <1>8, <2>2, <2>3, <2>4, <2>5, <2>6 DEF Allowed, Phase
  <1> QED
    BY <1>2, <1>4, <1>5, <1>7, <1>8

-----------------------------------------------------------------------------
\* A filed case maps to a running clock with the window of its category.
LEMMA InitImplements == ASSUME Init PROVE Contract!Init
  <1>1. PICK category \in Category : case = Filed(category)
    BY DEF Init
  <1>2. Phase(case) = "Running" /\ SlaWindow[category] \in Nat /\ now = 0
    BY <1>1 DEF Init, Filed, Phase, SlaCategory, Created
  <1>3. Left(case, now) = SlaWindow[category]
    BY <1>1, <1>2 DEF Filed, Left, DueFrom, Created
  <1> QED
    BY <1>2, <1>3, MappingIs DEF Contract!Init

\* Every step maps to a step of the contract or to none.
LEMMA StepImplements ==
  ASSUME WindowsOpen, Contracted, [Next]_vars
  PROVE  [Contract!Next]_(Contract!contractVars)
  <1>1. SUFFICES Allowed(Phase(case), Left(case, now), Phase(case'), Left(case', now'))
    BY MappingIs, AllowedIsNext
  <1>2. CASE Tick
    BY <1>2, TickAllowed
  <1>3. CASE now' = now /\ (Untouched \/ HandedUp(case, case'))
    <2>1. Phase(case') = Phase(case) /\ Left(case', now') = Left(case, now)
      BY <1>3 DEF Untouched, HandedUp, SameClock, Phase, Left, DueFrom
    <2> QED
      BY <2>1 DEF Allowed
  <1> QED
    BY <1>2, <1>3, TimeOrStep, StepKinds, ArrivedAllowed, ChangedAllowed DEF Contracted

\* Where every category has an active configuration, whatever its window,
\* threshold, timers and ladder, the columns of a case keep the promise of
\* ClockContract: the time left burns only while the clock runs, is kept by a
\* hold, added to by a deferral of no more than policy allows, and replaced
\* only by a whole window (start_clock, resume_clock, reset_clock,
\* react_to_approved_change), with snapshot isolation or without.
THEOREM ClockKeepsContract ==
  ASSUME WindowsOpen
  PROVE  Spec => ImplementsContract
  <1>1. ASSUME Contracted, [Next]_vars PROVE Contracted'
    BY <1>1, ContractedKept
  <1>2. ASSUME Contracted, [Next]_vars PROVE [Contract!Next]_(Contract!contractVars)
    BY <1>2, StepImplements
  <1>3. Init => Contract!Init
    BY InitImplements
  <1> QED
    BY <1>1, <1>2, <1>3, ContractedInit, PTL DEF Spec, ImplementsContract, Contract!Spec
==============================================================================
