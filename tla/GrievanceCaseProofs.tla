------------------------- MODULE GrievanceCaseProofs -------------------------
(***************************************************************************)
(* Type correctness and the clock's bookkeeping, for every configuration.  *)
(*                                                                         *)
(* The two are proved together: the next escalation is a natural number    *)
(* only because the deadline is not before the start, which is what the    *)
(* bookkeeping says.  Each function of SlaClock gets a lemma that it       *)
(* keeps `Sound', and the steps of GrievanceCase follow from those.        *)
(***************************************************************************)
EXTENDS GrievanceCase, TLAPS

\* The books of case c balance, g being the deferral granted in its window.
Sound(c, g) ==
  /\ c \in Case /\ g \in Nat
  /\ c.due # None =>
       c.start # None /\ c.due = c.start + SlaWindow[c.category] + c.held + g
  /\ c.due = None => g = 0
  /\ c.due = None /\ SlaWindow[c.category] > 0 => c.held = 0 /\ c.holdSince = None

USE NoneAssumption, ConfigAssumption

-----------------------------------------------------------------------------
\* A share of a window is a natural number.
LEMMA ShareIsNat ==
  ASSUME NEW w \in Nat, NEW percent \in 1..100
  PROVE  (w * percent) \div 100 \in Nat
  <1>1. w * percent \in Nat
    BY SMT
  <1> QED
    BY <1>1, SMT

\* The first bump of a sound case is a time.
LEMMA FirstBumpIsTime ==
  ASSUME NEW c, NEW g, Sound(c, g), c.due # None
  PROVE  FirstBump(c) \in Nat
  <1>1. /\ c.due \in Nat /\ c.start \in Nat /\ c.category \in Category
        /\ c.held \in Nat /\ g \in Nat
    BY DEF Sound, Case, MaybeTime
  <1>2. /\ SlaWindow[c.category] \in Nat /\ Threshold[c.category] \in 1..100
    BY <1>1
  <1>3. c.due - c.start \in Nat
    BY <1>1, <1>2 DEF Sound
  <1>4. ((c.due - c.start) * Threshold[c.category]) \div 100 \in Nat
    BY <1>2, <1>3, ShareIsNat
  <1> QED
    BY <1>1, <1>4 DEF FirstBump

\* arm_escalation writes next_escalation_at and nothing else.
LEMMA ArmSound ==
  ASSUME NEW c, NEW g, Sound(c, g)
  PROVE  Sound(ArmEscalation(c), g)
  <1>1. CASE c.escalated \/ c.due = None
    BY <1>1 DEF ArmEscalation
  <1>2. CASE ~(c.escalated \/ c.due = None)
    <2>1. FirstBump(c) \in Nat
      BY <1>2, FirstBumpIsTime
    <2> DEFINE at == IF AutoEscalate[c.category] THEN FirstBump(c) ELSE None
    <2>2. at \in MaybeTime
      BY <2>1 DEF MaybeTime
    <2>3. ArmEscalation(c) = [c EXCEPT !.nextEsc = at]
      BY <1>2 DEF ArmEscalation
    <2> HIDE DEF at
    <2> QED
      BY <2>2, <2>3 DEF Sound, Case
  <1> QED
    BY <1>1, <1>2

\* start_clock opens the window of a case that has none.
LEMMA StartSound ==
  ASSUME NEW c, NEW g, Sound(c, g)
  PROVE  Sound(StartClock(c), g)
  <1>1. CASE c.due # None \/ SlaWindow[c.category] = 0
    BY <1>1 DEF StartClock
  <1>2. CASE ~(c.due # None \/ SlaWindow[c.category] = 0)
    <2> DEFINE started == IF c.start # None THEN c.start ELSE Created
               ends == started + SlaWindow[c.category]
               d == [c EXCEPT !.start = started, !.due = ends]
    <2>1. /\ c.category \in Category /\ SlaWindow[c.category] \in Nat
          /\ started \in Nat /\ c.held = 0 /\ g = 0
      BY <1>2 DEF Sound, Case, MaybeTime, Created
    <2>2. ends \in Nat /\ ends = started + SlaWindow[c.category]
      BY <2>1
    <2>3. StartClock(c) = ArmEscalation(d)
      BY <1>2 DEF StartClock
    <2> HIDE DEF started, ends
    <2>4. d \in Case
      BY <2>1, <2>2 DEF Sound, Case, MaybeTime
    <2>5. /\ d.due = ends /\ d.start = started
          /\ d.held = 0 /\ d.category = c.category
      BY <2>1 DEF Sound, Case
    <2> HIDE DEF d
    <2>6. Sound(d, g)
      BY <2>1, <2>2, <2>4, <2>5 DEF Sound
    <2> QED
      BY <2>3, <2>6, ArmSound
  <1> QED
    BY <1>1, <1>2

\* resume_clock banks the hold and pushes the deadline by as much.
LEMMA ResumeSound ==
  ASSUME NEW c, NEW g, NEW t \in Nat, Sound(c, g)
  PROVE  /\ Sound(ResumeClock(c, t), g)
         /\ ResumeClock(c, t).category = c.category
         /\ ResumeClock(c, t).state = c.state
  <1>1. CASE c.holdSince = None
    BY <1>1 DEF ResumeClock
  <1>2. CASE c.holdSince # None
    <2> DEFINE hold == OpenHold(c, t)
               held == c.held + hold
               due  == Later(c.due, hold)
               next == IF c.due = None THEN c.nextEsc ELSE Later(c.nextEsc, hold)
               d == [c EXCEPT !.held = held, !.holdSince = None,
                              !.due = due, !.nextEsc = next]
    <2>1. hold \in Nat
      BY <1>2 DEF OpenHold, Sound, Case, MaybeTime
    <2>2. c.held \in Nat /\ c.due \in MaybeTime /\ c.nextEsc \in MaybeTime
      BY DEF Sound, Case
    <2>3. ResumeClock(c, t) = d
      BY <1>2 DEF ResumeClock, Sound, Case
    <2> HIDE DEF hold
    <2>4. /\ held \in Nat /\ held = c.held + hold
          /\ due \in MaybeTime /\ (due = None <=> c.due = None)
          /\ (due # None => due = c.due + hold)
          /\ next \in MaybeTime
      BY <2>1, <2>2 DEF Later, MaybeTime
    <2> HIDE DEF held, due, next
    <2>5. d \in Case
      BY <2>4 DEF Sound, Case, MaybeTime
    <2>6. /\ d.due = due /\ d.held = held /\ d.start = c.start
          /\ d.category = c.category /\ d.state = c.state /\ d.holdSince = None
      BY DEF Sound, Case
    <2> HIDE DEF d
    <2>7. c.start \in MaybeTime /\ SlaWindow[c.category] \in Nat
      BY DEF Sound, Case
    <2>8. Sound(d, g)
      BY <1>2, <2>1, <2>2, <2>4, <2>5, <2>6, <2>7 DEF Sound, MaybeTime
    <2> QED
      BY <2>3, <2>6, <2>8
  <1> QED
    BY <1>1, <1>2

\* reset_clock opens a window with nothing banked and nothing granted.
LEMMA ResetSound ==
  ASSUME NEW c \in Case, NEW t \in Nat
  PROVE  Sound(ResetClock(c, t), 0)
  <1> DEFINE window == SlaWindow[c.category]
             due == IF window > 0 THEN t + window ELSE None
             d == [c EXCEPT !.start = t, !.held = 0,
                            !.rem50 = FALSE, !.rem80 = FALSE, !.escalated = FALSE,
                            !.due = due]
  <1>1. c.category \in Category /\ window \in Nat
    BY DEF Case
  <1>2. /\ due \in MaybeTime /\ (due = None <=> window = 0)
        /\ (due # None => due = t + window)
    BY <1>1 DEF MaybeTime
  <1>3. ResetClock(c, t) = ArmEscalation(d)
    BY DEF ResetClock
  <1> HIDE DEF due
  <1>4. d \in Case
    BY <1>2 DEF Case, MaybeTime
  <1>5. /\ d.due = due /\ d.start = t /\ d.held = 0 /\ d.category = c.category
    BY DEF Case
  <1> HIDE DEF d
  <1>6. Sound(d, 0)
    BY <1>1, <1>2, <1>4, <1>5 DEF Sound
  <1> QED
    BY <1>3, <1>6, ArmSound

\* Writing columns the books do not mention keeps a case sound.
LEMMA NextEscSound ==
  ASSUME NEW c, NEW g, Sound(c, g), NEW at \in MaybeTime
  PROVE  Sound([c EXCEPT !.nextEsc = at], g)
  BY DEF Sound, Case

\* The hold begins only where there is a deadline to hold.
LEMMA HoldSound ==
  ASSUME NEW c, NEW g, NEW t \in Nat, Sound(c, g), c.due # None
  PROVE  Sound([c EXCEPT !.holdSince = t], g)
  BY DEF Sound, Case, MaybeTime

\* on_status_change keeps the books, and opens new ones only on a restart.
LEMMA StatusSound ==
  ASSUME NEW c, NEW g, NEW t \in Nat, Sound(c, g), NEW from \in States, NEW to \in States
  PROVE  Sound(OnStatusChange(c, from, to, t), IF Restarts(from, to) THEN 0 ELSE g)
  <1> DEFINE started == IF to = "Assigned" THEN StartClock(c) ELSE c
             resumed == ResumeClock(started, t)
             result == OnStatusChange(c, from, to, t)
  <1>1. Sound(started, g)
    BY StartSound
  <1>2. Sound(resumed, g)
    BY <1>1, ResumeSound
  <1>3. resumed \in Case /\ None \in MaybeTime
    BY <1>2 DEF Sound, MaybeTime
  <1>4. SlaCategory[to] \in {"Running", "Paused", "Stopped"}
    BY DEF States, SlaCategory
  <1>5. result =
          IF SlaCategory[to] = "Paused"
          THEN IF started.due # None /\ started.holdSince = None
               THEN [started EXCEPT !.holdSince = t] ELSE started
          ELSE IF SlaCategory[to] = "Stopped" THEN [resumed EXCEPT !.nextEsc = None]
          ELSE IF SlaCategory[from] = "Stopped" THEN ResetClock(resumed, t)
          ELSE resumed
    BY DEF OnStatusChange
  <1> HIDE DEF started, resumed, result
  <1>6. CASE SlaCategory[to] = "Paused"
    <2>1. ~Restarts(from, to)
      BY <1>6 DEF Restarts
    <2>2. CASE started.due # None /\ started.holdSince = None
      BY <1>1, <1>5, <1>6, <2>1, <2>2, HoldSound DEF result
    <2>3. CASE ~(started.due # None /\ started.holdSince = None)
      BY <1>1, <1>5, <1>6, <2>1, <2>3 DEF result
    <2> QED
      BY <2>2, <2>3
  <1>7. CASE SlaCategory[to] = "Stopped"
    <2>1. ~Restarts(from, to) /\ result = [resumed EXCEPT !.nextEsc = None]
      BY <1>5, <1>7 DEF Restarts
    <2> QED
      BY <1>2, <1>3, <2>1, NextEscSound DEF result
  <1>8. CASE SlaCategory[to] = "Running" /\ SlaCategory[from] = "Stopped"
    <2>1. Restarts(from, to) /\ result = ResetClock(resumed, t)
      BY <1>5, <1>8 DEF Restarts
    <2> QED
      BY <1>3, <2>1, ResetSound DEF result
  <1>9. CASE SlaCategory[to] = "Running" /\ SlaCategory[from] # "Stopped"
    <2>1. ~Restarts(from, to) /\ result = resumed
      BY <1>5, <1>9 DEF Restarts
    <2> QED
      BY <1>2, <2>1 DEF result
  <1> QED
    BY <1>4, <1>6, <1>7, <1>8, <1>9

\* arm_state_timer writes the state's deadline.
LEMMA TimerSound ==
  ASSUME NEW c, NEW g, NEW t \in Nat, Sound(c, g), NEW to \in States
  PROVE  Sound(ArmStateTimer(c, to, t), g)
  <1> DEFINE at == IF TimerHours[c.category][to] > 0
                   THEN t + TimerHours[c.category][to] ELSE None
  <1>1. c.category \in Category
    BY DEF Sound, Case
  <1>2. TimerHours[c.category][to] \in Nat
    BY <1>1
  <1>3. at \in MaybeTime
    BY <1>2 DEF MaybeTime
  <1>4. ArmStateTimer(c, to, t) = [c EXCEPT !.deadline = at]
    BY DEF ArmStateTimer
  <1> HIDE DEF at
  <1> QED
    BY <1>3, <1>4 DEF Sound, Case

\* stamp_resolution writes the resolution date.
LEMMA StampSound ==
  ASSUME NEW c, NEW g, NEW t \in Nat, Sound(c, g), NEW to
  PROVE  Sound(StampResolution(c, to, t), g)
  <1>1. \A at \in MaybeTime : Sound([c EXCEPT !.resolvedAt = at], g)
    BY DEF Sound, Case
  <1>2. c.resolvedAt \in MaybeTime /\ t \in MaybeTime /\ None \in MaybeTime
    BY DEF Sound, Case, MaybeTime
  <1> QED
    BY <1>1, <1>2 DEF StampResolution

\* The whole arrival.
LEMMA ArriveSound ==
  ASSUME NEW c, NEW g, NEW t \in Nat, Sound(c, g), NEW to \in States
  PROVE  Sound(Arrive(c, to, t), IF Restarts(c.state, to) THEN 0 ELSE g)
  <1> DEFINE moved == [c EXCEPT !.state = to]
             left == IF Restarts(c.state, to) THEN 0 ELSE g
  <1>1. Sound(moved, g) /\ c.state \in States
    BY DEF Sound, Case
  <1> HIDE DEF moved
  <1>2. Sound(OnStatusChange(moved, c.state, to, t), left)
    BY <1>1, StatusSound
  <1> HIDE DEF left
  <1>3. Sound(ArmStateTimer(OnStatusChange(moved, c.state, to, t), to, t), left)
    BY <1>2, TimerSound
  <1>4. Sound(StampResolution(ArmStateTimer(OnStatusChange(moved, c.state, to, t), to, t),
                              to, t), left)
    BY <1>3, StampSound
  <1> QED
    BY <1>4 DEF Arrive, moved, left

\* Escalating moves the officer and the escalation columns, never the clock.
LEMMA EscalateSound ==
  ASSUME NEW c, NEW g, NEW t \in Nat, Sound(c, g), NEW seen \in Case
  PROVE  Sound(Escalate(c, seen, t), g)
  <1> DEFINE above == HigherAuthority[IF seen.officer = None THEN 0 ELSE seen.officer]
             next == IF RungHours[above.rung] > 0 THEN t + RungHours[above.rung] ELSE None
             first == IF seen.escalatedAt = None THEN t ELSE c.escalatedAt
  <1>1. (IF seen.officer = None THEN 0 ELSE seen.officer) \in Officers
    BY RungAssumption DEF Case, Officers
  <1>2. above \in Authorities \cup {None}
    BY <1>1, RungAssumption
  <1>3. first \in MaybeTime
    BY DEF Sound, Case, MaybeTime
  <1>4. CASE above = None
    <2>1. Escalate(c, seen, t) =
            [c EXCEPT !.escalated = TRUE, !.nextEsc = None, !.escalatedAt = first]
      BY <1>4 DEF Escalate
    <2> HIDE DEF above, first
    <2> QED
      BY <1>3, <2>1, ZenonT(30) DEF Sound, Case, MaybeTime
  <1>5. CASE above # None
    <2>1. Escalate(c, seen, t) =
            [c EXCEPT !.escalated = TRUE, !.escalatedAt = first,
                      !.officer = above.officer, !.nextEsc = next]
      BY <1>5 DEF Escalate
    <2> HIDE DEF above, first
    <2>2. above.officer \in Officers /\ above.rung \in 1..Rungs
      BY <1>2, <1>5 DEF Authorities
    <2>3. RungHours[above.rung] \in Nat
      BY <2>2, RungAssumption
    <2>4. next \in MaybeTime
      BY <2>3 DEF MaybeTime
    <2> HIDE DEF next
    <2> QED
      BY <1>3, <2>1, <2>2, <2>4, ZenonT(30) DEF Sound, Case
  <1> QED
    BY <1>4, <1>5

\* Whatever the expired timer does, it opens no new window.
LEMMA TimerOutcomeSound ==
  ASSUME NEW c, NEW g, NEW t \in Nat, Sound(c, g), NEW seen \in Case
  PROVE  Sound(TimerOutcome(c, seen, t), g)
  <1> DEFINE cleared == [c EXCEPT !.deadline = None]
  <1>1. Sound(cleared, g) /\ cleared.state \in States
    BY DEF Sound, Case, MaybeTime
  <1>2. /\ TimerOutcome(c, seen, t) \in
             {cleared, Escalate(cleared, seen, t), Arrive(cleared, "Closed", t)}
    BY DEF TimerOutcome
  <1> HIDE DEF cleared
  <1>3. Sound(Escalate(cleared, seen, t), g)
    BY <1>1, EscalateSound
  <1>4. "Closed" \in States /\ ~Restarts(cleared.state, "Closed")
    BY DEF States, Restarts, SlaCategory
  <1>5. Sound(Arrive(cleared, "Closed", t), g)
    BY <1>1, <1>4, ArriveSound
  <1> QED
    BY <1>1, <1>2, <1>3, <1>5

\* Setting the requested values keeps a case a case.
LEMMA WithValuesIsCase ==
  ASSUME NEW c \in Case, NEW p \in Proposal
  PROVE  WithValues(c, p) \in Case
  <1> DEFINE category == IF p.category = None THEN c.category ELSE p.category
             officer == IF p.officer = None THEN c.officer ELSE p.officer
             due == IF p.due = None THEN c.due ELSE p.due
  <1>1. category \in Category /\ officer \in Officers \cup {None} /\ due \in MaybeTime
    BY DEF Case, Proposal
  <1>2. WithValues(c, p) =
          [c EXCEPT !.category = category, !.officer = officer, !.due = due]
    BY DEF WithValues, Case
  <1> HIDE DEF category, officer, due
  <1> QED
    BY <1>1, <1>2 DEF Case

\* Without a new category, the deferral asked for is what the books gain.
LEMMA WithValuesSound ==
  ASSUME NEW c, NEW g, Sound(c, g), NEW p \in Proposal, p.category = None,
         p.due # None => c.due # None /\ p.due > c.due
  PROVE  LET d == WithValues(c, p)
         IN  /\ Sound(d, IF p.due # None THEN g + (p.due - c.due) ELSE g)
             /\ d.due = IF p.due # None THEN p.due ELSE c.due
             /\ d.escalated = c.escalated /\ d.nextEsc = c.nextEsc
  <1> DEFINE d == WithValues(c, p)
  <1>1. d \in Case
    BY WithValuesIsCase DEF Sound
  <1>2. /\ d.start = c.start /\ d.held = c.held /\ d.holdSince = c.holdSince
        /\ d.category = c.category /\ d.escalated = c.escalated /\ d.nextEsc = c.nextEsc
        /\ d.due = IF p.due # None THEN p.due ELSE c.due
    BY DEF WithValues, Sound, Case
  <1>3. /\ c.start \in MaybeTime /\ c.due \in MaybeTime /\ p.due \in MaybeTime
        /\ c.held \in Nat /\ g \in Nat /\ SlaWindow[c.category] \in Nat
    BY DEF Sound, Case, Proposal
  <1> HIDE DEF d
  <1>4. CASE p.due = None
    BY <1>1, <1>2, <1>4 DEF Sound, d
  <1>5. CASE p.due # None
    <2>1. /\ p.due \in Nat /\ c.due \in Nat /\ c.start \in Nat /\ d.due = p.due
          /\ g + (p.due - c.due) \in Nat
      BY <1>2, <1>3, <1>5 DEF Sound, MaybeTime
    <2>2. d.due = d.start + SlaWindow[d.category] + d.held + (g + (p.due - c.due))
      BY <1>2, <1>3, <2>1 DEF Sound
    <2>3. Sound(d, g + (p.due - c.due))
      BY <1>1, <1>2, <2>1, <2>2 DEF Sound
    <2> QED
      BY <1>2, <1>5, <2>3 DEF d
  <1> QED
    BY <1>4, <1>5

\* An approved deferral moves the escalation, never the books.
LEMMA DeferralReactionSound ==
  ASSUME NEW c, NEW g, Sound(c, g), c.due # None, NEW oldDue \in Nat, c.due > oldDue
  PROVE  Sound(DeferralReaction(c, oldDue), g)
  <1> DEFINE reopened == [c EXCEPT !.rem50 = FALSE, !.rem80 = FALSE]
  <1>1. /\ Sound(reopened, g)
        /\ reopened.nextEsc = c.nextEsc /\ c.nextEsc \in MaybeTime /\ c.due \in MaybeTime
    BY DEF Sound, Case
  <1>2. DeferralReaction(c, oldDue) =
          IF c.escalated /\ c.nextEsc # None
          THEN [reopened EXCEPT !.nextEsc = c.nextEsc + (c.due - oldDue)]
          ELSE ArmEscalation(reopened)
    BY DEF DeferralReaction, Sound, Case
  <1> HIDE DEF reopened
  <1>3. CASE c.escalated /\ c.nextEsc # None
    <2>1. c.nextEsc + (c.due - oldDue) \in MaybeTime
      BY <1>1, <1>3 DEF MaybeTime
    <2> QED
      BY <1>1, <1>2, <1>3, <2>1, NextEscSound
  <1>4. CASE ~(c.escalated /\ c.nextEsc # None)
    BY <1>1, <1>2, <1>4, ArmSound
  <1> QED
    BY <1>3, <1>4

\* What a request may ask of case c: a reassignment, or a deadline moved out.
AsksOf(c, p) ==
  /\ p \in Proposal
  /\ p.due # None => c.due # None /\ p.due > c.due
  /\ p.due # None \/ IsReassignment(p)

\* What GrantedBy makes of the deferral g already granted to case c.
GrantedAfter(c, p, g) ==
  IF p.category # None THEN 0 ELSE IF p.due # None THEN g + (p.due - c.due) ELSE g

\* An applied request leaves the books balanced, the ghost being GrantedBy.
LEMMA AppliedSound ==
  ASSUME NEW c, NEW g, NEW t \in Nat, Sound(c, g), NEW p, AsksOf(c, p)
  PROVE  Sound(Applied(c, p, t), GrantedAfter(c, p, g))
  <1> DEFINE written == WithValues(c, p)
  <1>1. c \in Case /\ p \in Proposal
    BY DEF Sound, AsksOf
  <1>2. written \in Case
    BY <1>1, WithValuesIsCase
  <1>3. CASE p.category # None
    <2>1. Applied(c, p, t) = ResetClock(written, t) /\ GrantedAfter(c, p, g) = 0
      BY <1>3 DEF Applied, IsReassignment, GrantedAfter
    <2>2. SlaWindow[written.category] = 0 \/ SlaWindow[written.category] > 0
      BY <1>2 DEF Case
    <2> HIDE DEF written
    <2> QED
      BY <1>2, <2>1, ResetSound
  <1>4. CASE p.category = None
    <2>1. /\ Sound(written, GrantedAfter(c, p, g))
          /\ written.due = IF p.due # None THEN p.due ELSE c.due
      BY <1>1, <1>4, WithValuesSound DEF AsksOf, GrantedAfter
    <2>2. CASE IsReassignment(p)
      BY <1>4, <2>1, <2>2 DEF Applied
    <2>3. CASE ~IsReassignment(p)
      <3>1. p.due # None /\ c.due # None /\ p.due > c.due
        BY <2>3 DEF AsksOf
      <3>2. c.due \in Nat /\ p.due \in Nat
        BY <1>1, <3>1 DEF Case, Proposal, MaybeTime
      <3>3. written.due = p.due
        BY <2>1, <3>1
      <3>4. Applied(c, p, t) = DeferralReaction(written, c.due)
        BY <2>3 DEF Applied
      <3> HIDE DEF written
      <3> QED
        BY <2>1, <3>1, <3>2, <3>3, <3>4, DeferralReactionSound
    <2> QED
      BY <2>2, <2>3
  <1> QED
    BY <1>3, <1>4

-----------------------------------------------------------------------------
\* A pending request names a later deadline than the one it was raised on, so
\* one that is not stale still moves the deadline out.
Wellformed(r) ==
  /\ r \in Request
  /\ r.new.due # None => r.old.due # None /\ r.new.due > r.old.due
  /\ r.new.due # None \/ IsReassignment(r.new)

\* The inductive invariant.
Books ==
  /\ now \in Time
  /\ Sound(case, granted)
  /\ \A r \in requests : Wellformed(r)
  /\ escalating \in Sweep
  /\ expiring \in Sweep

\* The books say the types of the variables.
LEMMA BooksAreTyped == Books => TypeOK
  BY DEF Books, TypeOK, Sound, Wellformed

\* The books say where the deadline stands.
LEMMA BooksAccount == Books => DeadlineAccounting
  BY DEF Books, DeadlineAccounting, Sound

\* A new case owes nothing and has been granted nothing.
LEMMA BooksInit == Init => Books
  <1> SUFFICES ASSUME Init PROVE Books
    OBVIOUS
  <1>1. PICK category \in Category : case = Filed(category)
    BY DEF Init
  <1>2. "Submitted" \in States
    BY DEF States
  <1>3. case \in Case
    BY <1>1, <1>2 DEF Filed, Case, MaybeTime
  <1>4. Sound(case, granted)
    BY <1>1, <1>3 DEF Init, Filed, Sound
  <1> QED
    BY <1>4 DEF Init, Books, Sweep, Time, Created

\* A sweep overtaken by a write is still a sweep.
LEMMA OutdatedIsSweep ==
  ASSUME NEW sweep \in Sweep
  PROVE  Outdated(sweep) \in Sweep
  BY DEF Outdated, Sweep

\* What may be asked of a typed case is what AsksOf says.
LEMMA ProposalAsks ==
  ASSUME NEW c \in Case, NEW p \in Proposals, ValidProposal(c, p)
  PROVE  AsksOf(c, p)
  <1>1. p \in Proposal
    BY CaseAssumption DEF Proposals, Proposal, MaybeTime
  <1>2. p = [category |-> p.category, officer |-> p.officer, due |-> p.due]
    BY <1>1 DEF Proposal
  <1>3. p.due # None \/ IsReassignment(p)
    BY <1>2 DEF ValidProposal, IsReassignment
  <1>4. ASSUME p.due # None PROVE c.due # None /\ p.due > c.due
    <2>1. c.due # None /\ p.due - c.due \in 1..MaxDeferral
      BY <1>4 DEF ValidProposal
    <2>2. c.due \in Nat /\ p.due \in Nat
      BY <1>1, <1>4, <2>1 DEF Case, Proposal, MaybeTime
    <2> QED
      BY <2>1, <2>2
  <1> QED
    BY <1>1, <1>3, <1>4 DEF AsksOf

\* Values that are not stale ask of the case what they asked when raised.
LEMMA FreshAsks ==
  ASSUME NEW c, NEW r, Wellformed(r), CheckNotStale(c, r)
  PROVE  AsksOf(c, r.new)
  BY DEF Wellformed, Request, CheckNotStale, AsksOf

\* Applying what may be asked keeps the books.
LEMMA ApplySound ==
  ASSUME Books, NEW p, AsksOf(case, p), Apply(p)
  PROVE  /\ Sound(case', granted')
         /\ escalating' \in Sweep /\ expiring' \in Sweep
  <1>1. Sound(Applied(case, p, now), GrantedAfter(case, p, granted))
    BY AppliedSound DEF Books, Time
  <1>2. GrantedBy(p) = GrantedAfter(case, p, granted)
    BY DEF GrantedBy, GrantedAfter
  <1> QED
    BY <1>1, <1>2, OutdatedIsSweep DEF Apply, Save, Books

-----------------------------------------------------------------------------
\* Saving the arrival in a state keeps the books: routing, and every move.
LEMMA SaveArrivalSound ==
  ASSUME Books, NEW c, Sound(c, granted), NEW to \in States, Save(Arrive(c, to, now)),
         granted' = IF Restarts(c.state, to) THEN 0 ELSE granted
  PROVE  /\ Sound(case', granted')
         /\ escalating' \in Sweep /\ expiring' \in Sweep
  <1>1. Sound(Arrive(c, to, now), granted')
    BY ArriveSound DEF Books, Time
  <1> QED
    BY <1>1, OutdatedIsSweep DEF Save, Books

\* Routing gives an unowned case an officer and the first clock.
LEMMA RouteBooks == ASSUME Books, Route PROVE Books'
  <1>1. PICK o \in Officers :
          Save(Arrive([case EXCEPT !.officer = o], "Assigned", now))
    BY DEF Route
  <1> DEFINE owned == [case EXCEPT !.officer = o]
  <1>2. Sound(owned, granted) /\ owned.state = case.state
    BY DEF Books, Sound, Case
  <1>3. "Assigned" \in States /\ ~Restarts(case.state, "Assigned")
    BY DEF Route, States, Restarts, SlaCategory
  <1>4. granted' = granted /\ now' = now /\ requests' = requests
    BY DEF Route
  <1> HIDE DEF owned
  <1> QED
    BY <1>1, <1>2, <1>3, <1>4, SaveArrivalSound DEF Books, owned

\* The workflow's moves lead from states to states.
LEMMA MovesAreTyped ==
  ASSUME NEW m \in Transitions
  PROVE  m.from \in States /\ m.to \in States
  BY DEF Transitions, Move, WorkStates, States

\* A move by a person opens new books exactly when it restarts the clock.
LEMMA TakeActionBooks ==
  ASSUME Books, NEW m \in Transitions, TakeAction(m) PROVE Books'
  <1>1. m.to \in States /\ m.from = case.state
    BY MovesAreTyped DEF TakeAction
  <1>2. /\ Save(Arrive(case, m.to, now))
        /\ granted' = IF Restarts(case.state, m.to) THEN 0 ELSE granted
        /\ now' = now /\ requests' = requests
    BY <1>1 DEF TakeAction
  <1>3. Sound(case', granted') /\ escalating' \in Sweep /\ expiring' \in Sweep
    BY <1>1, <1>2, SaveArrivalSound DEF Books
  <1> QED
    BY <1>2, <1>3 DEF Books

\* A request keeps the values it was raised on.
LEMMA RaiseRequestBooks ==
  ASSUME Books, NEW p \in Proposals, RaiseRequest(p) PROVE Books'
  <1> DEFINE r == [old |-> Snapshot(case, p), new |-> p]
  <1>1. case \in Case
    BY DEF Books, Sound
  <1>2. AsksOf(case, p)
    BY <1>1, ProposalAsks DEF Proposals
  <1>3. Snapshot(case, p) \in Proposal
    BY <1>1 DEF Snapshot, Proposal, Case, MaybeTime
  <1>4. p.due # None => Snapshot(case, p).due = case.due
    BY DEF Snapshot
  <1>5. Wellformed(r)
    BY <1>2, <1>3, <1>4 DEF Wellformed, Request, AsksOf
  <1>6. requests' = requests \cup {r}
    BY DEF RaiseRequest
  <1> HIDE DEF r
  <1>7. \A q \in requests' : Wellformed(q)
    BY <1>5, <1>6 DEF Books
  <1> QED
    BY <1>7 DEF Books, RaiseRequest, Wellformed

\* A request decided at once, and an approval that is not stale, apply what
\* may be asked of the case as it is.
LEMMA DecideBooks ==
  ASSUME Books, NEW p \in Proposals, RaiseDecidedRequest(p) PROVE Books'
  <1>1. AsksOf(case, p)
    BY ProposalAsks DEF Books, Sound, Proposals
  <1>2. Sound(case', granted') /\ escalating' \in Sweep /\ expiring' \in Sweep
    BY <1>1, ApplySound DEF RaiseDecidedRequest
  <1> QED
    BY <1>2 DEF RaiseDecidedRequest, Books

\* An approval refuses what went stale, so it applies what may be asked now.
LEMMA ApproveBooks ==
  ASSUME Books, NEW r \in requests, ApproveRequest(r) PROVE Books'
  <1>1. AsksOf(case, r.new)
    BY FreshAsks DEF Books, ApproveRequest
  <1>2. Sound(case', granted') /\ escalating' \in Sweep /\ expiring' \in Sweep
    BY <1>1, ApplySound DEF ApproveRequest
  <1> QED
    BY <1>2 DEF ApproveRequest, Books

\* Reminders touch the reminder flags alone.
LEMMA ReminderBooks == ASSUME Books, SendReminder PROVE Books'
  <1> DEFINE first == [case EXCEPT !.rem80 = TRUE]
             second == [case EXCEPT !.rem50 = TRUE]
  <1>1. Save(first) \/ Save(second)
    BY DEF SendReminder
  <1>2. Sound(first, granted) /\ Sound(second, granted)
    BY DEF Books, Sound, Case
  <1>3. now' = now /\ requests' = requests /\ granted' = granted
    BY DEF SendReminder
  <1> HIDE DEF first, second
  <1> QED
    BY <1>1, <1>2, <1>3, OutdatedIsSweep DEF Save, Books

\* What a sweep holds and has not lost is a case.
LEMMA HeldSweepIsCase ==
  ASSUME NEW sweep \in Sweep, sweep # None, sweep # Lost
  PROVE  sweep \in Case
  BY DEF Sweep

\* An escalation moves no deadline.
LEMMA EscalateBooks == ASSUME Books, EscalateSelected PROVE Books'
  <1>1. None \in Sweep
    BY DEF Sweep
  <1>2. CASE escalating = Lost
    BY <1>1, <1>2 DEF EscalateSelected, Books
  <1>3. CASE escalating # Lost
    <2>1. escalating \in Case
      BY <1>3, HeldSweepIsCase DEF EscalateSelected, Books
    <2>2. Sound(Escalate(case, escalating, now), granted)
      BY <2>1, EscalateSound DEF Books, Time
    <2> QED
      BY <1>1, <1>3, <2>2, OutdatedIsSweep DEF EscalateSelected, Books
  <1> QED
    BY <1>2, <1>3

\* An expired timer opens no window.
LEMMA ExpireBooks == ASSUME Books, ExpireSelected PROVE Books'
  <1>1. None \in Sweep
    BY DEF Sweep
  <1>2. CASE expiring = Lost
    BY <1>1, <1>2 DEF ExpireSelected, Books
  <1>3. CASE expiring # Lost
    <2>1. expiring \in Case
      BY <1>3, HeldSweepIsCase DEF ExpireSelected, Books
    <2>2. Sound(TimerOutcome(case, expiring, now), granted)
      BY <2>1, TimerOutcomeSound DEF Books, Time
    <2> QED
      BY <1>1, <1>3, <2>2, OutdatedIsSweep DEF ExpireSelected, Books
  <1> QED
    BY <1>2, <1>3

\* Every step keeps the books.
LEMMA BooksKept == Books /\ [Next]_vars => Books'
  <1> SUFFICES ASSUME Books, [Next]_vars PROVE Books'
    OBVIOUS
  <1>1. CASE Tick
    BY <1>1 DEF Tick, Books, Time
  <1>2. CASE Route
    BY <1>2, RouteBooks
  <1>3. ASSUME NEW m \in Transitions, TakeAction(m) PROVE Books'
    BY <1>3, TakeActionBooks
  <1>4. ASSUME NEW p \in Proposals, RaiseRequest(p) PROVE Books'
    BY <1>4, RaiseRequestBooks
  <1>5. ASSUME NEW p \in Proposals, RaiseDecidedRequest(p) PROVE Books'
    BY <1>5, DecideBooks
  <1>6. ASSUME NEW r \in requests, ApproveRequest(r) PROVE Books'
    BY <1>6, ApproveBooks
  <1>7. ASSUME NEW r \in requests, RejectRequest(r) PROVE Books'
    BY <1>7 DEF RejectRequest, Books
  <1>8. CASE SendReminder
    BY <1>8, ReminderBooks
  <1>9. CASE SelectBreached
    BY <1>9 DEF SelectBreached, Books, Sweep, Sound
  <1>10. CASE EscalateSelected
    BY <1>10, EscalateBooks
  <1>11. CASE SelectExpired
    BY <1>11 DEF SelectExpired, Books, Sweep, Sound
  <1>12. CASE ExpireSelected
    BY <1>12, ExpireBooks
  <1>13. CASE UNCHANGED vars
    BY <1>13 DEF vars, Books
  <1> QED
    BY <1>1, <1>2, <1>3, <1>4, <1>5, <1>6, <1>7, <1>8, <1>9, <1>10, <1>11, <1>12,
       <1>13 DEF Next

\* The books balance in every reachable state.
THEOREM BooksBalance == Spec => []Books
  BY BooksInit, BooksKept, PTL DEF Spec

\* Every variable keeps its type, for every category, configuration, ladder
\* of rungs and bound, with snapshot isolation or without: above all, the next
\* escalation and the state deadline are always dates the sweeps can compare.
THEOREM TypeCorrect == Spec => []TypeOK
  BY BooksBalance, BooksAreTyped, PTL

\* The deadline is always the window of the category from the start, plus the
\* banked hold, plus the deferral granted in that window, whatever order the
\* moves, approvals and sweeps come in (start_clock, resume_clock, reset_clock,
\* react_to_approved_change), even where a sweep writes an old row's outcome.
THEOREM DeadlinesAddUp == Spec => []DeadlineAccounting
  BY BooksBalance, BooksAccount, PTL

-----------------------------------------------------------------------------
(***************************************************************************)
(* What a state says of the hold and of the resolution stamp.  Both follow *)
(* the state, so only an arrival can break them; everything else keeps the *)
(* three columns as they were.                                             *)
(***************************************************************************)

\* The hold and the stamp agree with the state of case c.
Matched(c) ==
  /\ c.holdSince # None => SlaCategory[c.state] = "Paused"
  /\ (c.resolvedAt # None) <=> (c.state \in ResolvedStates)

\* d differs from c in neither.
SameStanding(c, d) ==
  d.state = c.state /\ d.holdSince = c.holdSince /\ d.resolvedAt = c.resolvedAt

\* Arming touches the next escalation alone.
LEMMA ArmStanding ==
  ASSUME NEW c \in Case
  PROVE  SameStanding(c, ArmEscalation(c))
  BY DEF ArmEscalation, SameStanding, Case

\* Starting and restarting the clock leave the hold and the stamp alone.
LEMMA StartStanding ==
  ASSUME NEW c, NEW g, NEW t \in Nat, Sound(c, g)
  PROVE  SameStanding(c, StartClock(c)) /\ SameStanding(c, ResetClock(c, t))
  <1>a. c \in Case /\ c.category \in Category /\ SlaWindow[c.category] \in Nat
    BY DEF Sound, Case
  <1>1. ASSUME c.due # None \/ SlaWindow[c.category] = 0
        PROVE  SameStanding(c, StartClock(c))
    BY <1>1 DEF StartClock, SameStanding
  <1>2. ASSUME ~(c.due # None \/ SlaWindow[c.category] = 0)
        PROVE  SameStanding(c, StartClock(c))
    <2> DEFINE started == IF c.start # None THEN c.start ELSE Created
               ends == started + SlaWindow[c.category]
               d == [c EXCEPT !.start = started, !.due = ends]
    <2>1. started \in Nat
      BY <1>a DEF Case, MaybeTime, Created
    <2>2. ends \in Nat
      BY <1>a, <2>1
    <2>3. StartClock(c) = ArmEscalation(d)
      BY <1>2 DEF StartClock
    <2> HIDE DEF started, ends
    <2>4. d \in Case
      BY <1>a, <2>1, <2>2 DEF Case, MaybeTime
    <2>5. SameStanding(c, d)
      BY <1>a DEF SameStanding, Case
    <2> HIDE DEF d
    <2> QED
      BY <2>3, <2>4, <2>5, ArmStanding DEF SameStanding
  <1> DEFINE due == IF SlaWindow[c.category] > 0 THEN t + SlaWindow[c.category] ELSE None
             e == [c EXCEPT !.start = t, !.held = 0, !.rem50 = FALSE, !.rem80 = FALSE,
                            !.escalated = FALSE, !.due = due]
  <1>3. due \in MaybeTime
    BY <1>a DEF MaybeTime
  <1>4. ResetClock(c, t) = ArmEscalation(e)
    BY DEF ResetClock
  <1> HIDE DEF due
  <1>5. e \in Case /\ SameStanding(c, e)
    BY <1>a, <1>3, ZenonT(30) DEF Case, MaybeTime, SameStanding
  <1> HIDE DEF e
  <1>6. SameStanding(c, ResetClock(c, t))
    BY <1>4, <1>5, ArmStanding DEF SameStanding
  <1> QED
    BY <1>1, <1>2, <1>6

\* Resuming ends the hold and leaves the stamp.
LEMMA ResumeStanding ==
  ASSUME NEW c \in Case, NEW t
  PROVE  LET d == ResumeClock(c, t)
         IN  d.holdSince = None /\ d.state = c.state /\ d.resolvedAt = c.resolvedAt
  BY DEF ResumeClock, Case

\* on_status_change holds the clock on the way into a Paused state only.
LEMMA StatusStanding ==
  ASSUME NEW c, NEW g, NEW t \in Nat, Sound(c, g), NEW from \in States, NEW to \in States
  PROVE  LET d == OnStatusChange(c, from, to, t)
         IN  /\ d.holdSince # None => SlaCategory[to] = "Paused"
             /\ d.state = c.state /\ d.resolvedAt = c.resolvedAt
  <1> DEFINE started == IF to = "Assigned" THEN StartClock(c) ELSE c
             resumed == ResumeClock(started, t)
             d == OnStatusChange(c, from, to, t)
  <1>1. Sound(started, g) /\ SameStanding(c, started)
    BY StartSound, StartStanding DEF SameStanding
  <1>2. started \in Case
    BY <1>1 DEF Sound
  <1> HIDE DEF started
  <1>r. Sound(resumed, g)
    BY <1>1, ResumeSound
  <1>3. resumed \in Case
    BY <1>r DEF Sound
  <1>4. resumed.holdSince = None /\ resumed.state = c.state /\ resumed.resolvedAt = c.resolvedAt
    BY <1>1, <1>2, ResumeStanding DEF SameStanding
  <1> HIDE DEF resumed
  <1>5. SameStanding(resumed, ResetClock(resumed, t))
    BY <1>r, StartStanding
  <1>6. OnStatusChange(c, from, to, t) \in
          IF SlaCategory[to] = "Paused" THEN {[started EXCEPT !.holdSince = t], started}
          ELSE {[resumed EXCEPT !.nextEsc = None], ResetClock(resumed, t), resumed}
    BY DEF OnStatusChange, started, resumed
  <1>7. CASE SlaCategory[to] = "Paused"
    <2>1. d.state = started.state /\ d.resolvedAt = started.resolvedAt
      BY <1>2, <1>6, <1>7 DEF Case
    <2> QED
      BY <1>1, <1>7, <2>1 DEF SameStanding
  <1>8. CASE SlaCategory[to] # "Paused"
    <2>1. SameStanding(resumed, [resumed EXCEPT !.nextEsc = None])
      BY <1>3 DEF SameStanding, Case
    <2>2. SameStanding(resumed, d)
      BY <1>5, <1>6, <1>8, <2>1 DEF SameStanding
    <2> HIDE DEF d
    <2> QED
      BY <1>4, <2>2 DEF SameStanding, d
  <1> QED
    BY <1>7, <1>8

\* A case arrives with hold and stamp as its new state says; a case that was
\* resolved is never rejected, and a rejection would keep its stamp.
LEMMA ArriveMatched ==
  ASSUME NEW c, NEW g, NEW t \in Nat, Sound(c, g), Matched(c), NEW to \in States,
         to = "Rejected" => c.state \notin ResolvedStates
  PROVE  Matched(Arrive(c, to, t))
  <1> DEFINE moved == [c EXCEPT !.state = to]
             ruled == OnStatusChange(moved, c.state, to, t)
             timed == ArmStateTimer(ruled, to, t)
  <1>1. Sound(moved, g) /\ c.state \in States /\ c \in Case
    BY DEF Sound, Case
  <1>2. moved.state = to /\ moved.resolvedAt = c.resolvedAt
    BY <1>1 DEF Case
  <1> HIDE DEF moved
  <1>3. /\ ruled.holdSince # None => SlaCategory[to] = "Paused"
        /\ ruled.state = to /\ ruled.resolvedAt = c.resolvedAt
    BY <1>1, <1>2, StatusStanding
  <1>4. Sound(ruled, IF Restarts(c.state, to) THEN 0 ELSE g)
    BY <1>1, StatusSound
  <1> HIDE DEF ruled
  <1>5. ruled \in Case
    BY <1>4 DEF Sound
  <1>6. timed \in Case
    BY <1>4, TimerSound DEF Sound
  <1>7. SameStanding(ruled, timed)
    BY <1>5 DEF ArmStateTimer, SameStanding, Case
  <1> HIDE DEF timed
  <1>8. Arrive(c, to, t) = StampResolution(timed, to, t)
    BY DEF Arrive, timed, ruled, moved
  <1>9. /\ StampResolution(timed, to, t).holdSince = timed.holdSince
        /\ StampResolution(timed, to, t).state = timed.state
    BY <1>6 DEF StampResolution, Case
  <1>10. (StampResolution(timed, to, t).resolvedAt # None) <=> (to \in ResolvedStates)
    <2>1. CASE to \in ResolvedStates
      BY <1>6, <2>1 DEF StampResolution, Case
    <2>2. CASE to \notin ResolvedStates /\ to # "Rejected"
      BY <1>6, <2>2 DEF StampResolution, Case
    <2>3. CASE to = "Rejected"
      <3>1. to \notin ResolvedStates /\ c.resolvedAt = None
        BY <2>3 DEF Matched, ResolvedStates
      <3> QED
        BY <1>3, <1>7, <2>3, <3>1 DEF StampResolution, SameStanding
    <2> QED
      BY <2>1, <2>2, <2>3
  <1> QED
    BY <1>3, <1>7, <1>8, <1>9, <1>10 DEF Matched, SameStanding

\* An escalation changes neither the state nor the hold nor the stamp.
LEMMA EscalateStanding ==
  ASSUME NEW c \in Case, NEW seen, NEW t
  PROVE  SameStanding(c, Escalate(c, seen, t))
  BY DEF Escalate, SameStanding, Case

\* Standing is all that Matched looks at.
LEMMA StandingMatched ==
  ASSUME NEW c, NEW d, Matched(c), SameStanding(c, d)
  PROVE  Matched(d)
  BY DEF Matched, SameStanding

\* What the expired timer does leaves a matched case matched.
LEMMA TimerOutcomeMatched ==
  ASSUME NEW c, NEW g, NEW t \in Nat, Sound(c, g), Matched(c), NEW seen \in Case
  PROVE  Matched(TimerOutcome(c, seen, t))
  <1> DEFINE cleared == [c EXCEPT !.deadline = None]
  <1>1. Sound(cleared, g) /\ cleared \in Case
    BY ZenonT(30) DEF Sound, Case, MaybeTime
  <1>2. SameStanding(c, cleared)
    BY DEF Sound, SameStanding, Case
  <1>3. TimerOutcome(c, seen, t) \in
             {cleared, Escalate(cleared, seen, t), Arrive(cleared, "Closed", t)}
    BY DEF TimerOutcome
  <1> HIDE DEF cleared
  <1>4. Matched(cleared)
    BY <1>2, StandingMatched
  <1>5. Matched(Escalate(cleared, seen, t))
    BY <1>1, <1>4, EscalateStanding, StandingMatched
  <1>6. Matched(Arrive(cleared, "Closed", t))
    BY <1>1, <1>4, ArriveMatched DEF States
  <1> QED
    BY <1>3, <1>4, <1>5, <1>6

\* An applied change request leaves the state, the hold and the stamp.
LEMMA AppliedStanding ==
  ASSUME NEW c, NEW g, NEW t \in Nat, Sound(c, g), NEW p, AsksOf(c, p)
  PROVE  SameStanding(c, Applied(c, p, t))
  <1> DEFINE written == WithValues(c, p)
  <1>1. c \in Case /\ p \in Proposal
    BY DEF Sound, AsksOf
  <1>2. written \in Case
    BY <1>1, WithValuesIsCase
  <1>3. SameStanding(c, written)
    BY <1>1 DEF WithValues, SameStanding, Case
  <1>4. CASE p.category # None
    <2>1. Applied(c, p, t) = ResetClock(written, t)
      BY <1>4 DEF Applied, IsReassignment
    <2> DEFINE due == IF SlaWindow[written.category] > 0
                      THEN t + SlaWindow[written.category] ELSE None
               e == [written EXCEPT !.start = t, !.held = 0, !.rem50 = FALSE,
                                    !.rem80 = FALSE, !.escalated = FALSE, !.due = due]
    <2>2. ResetClock(written, t) = ArmEscalation(e)
      BY DEF ResetClock
    <2> HIDE DEF written
    <2>3. due \in MaybeTime
      BY <1>2 DEF MaybeTime, Case
    <2> HIDE DEF due
    <2>4. e \in Case /\ SameStanding(written, e)
      BY <1>2, <2>3, ZenonT(30) DEF Case, MaybeTime, SameStanding
    <2> HIDE DEF e
    <2> QED
      BY <1>3, <2>1, <2>2, <2>4, ArmStanding DEF SameStanding
  <1>5. CASE p.category = None /\ IsReassignment(p)
    BY <1>3, <1>5 DEF Applied
  <1>6. CASE ~IsReassignment(p)
    <2> DEFINE reopened == [written EXCEPT !.rem50 = FALSE, !.rem80 = FALSE]
               later == written.nextEsc + (written.due - c.due)
    <2>1. Applied(c, p, t) \in
            {[reopened EXCEPT !.nextEsc = later], ArmEscalation(reopened)}
      <3>1. reopened.nextEsc = written.nextEsc /\ reopened.due = written.due
        <4> HIDE DEF written
        <4> QED
          BY <1>2 DEF Case
      <3>2. Applied(c, p, t) = DeferralReaction(written, c.due)
        BY <1>6 DEF Applied
      <3> HIDE DEF written
      <3> QED
        BY <3>1, <3>2 DEF DeferralReaction
    <2> HIDE DEF written, later
    <2>2. reopened \in Case /\ SameStanding(written, reopened)
      BY <1>2 DEF Case, SameStanding
    <2> HIDE DEF reopened
    <2>3. SameStanding(reopened, [reopened EXCEPT !.nextEsc = later])
      BY <2>2 DEF Case, SameStanding
    <2> QED
      BY <1>3, <2>1, <2>2, <2>3, ArmStanding DEF SameStanding
  <1> QED
    BY <1>4, <1>5, <1>6 DEF IsReassignment

-----------------------------------------------------------------------------
\* The books, and a case that stands as its state says.
Standing == Books /\ Matched(case)

\* A new case is neither held nor resolved.
LEMMA StandingInit == Init => Standing
  BY BooksInit DEF Init, Standing, Matched, Filed, ResolvedStates, SlaCategory

\* A person's move never rejects a resolved case.
LEMMA MovesReject ==
  ASSUME NEW m \in Transitions, m.to = "Rejected"
  PROVE  m.from \notin ResolvedStates
  BY DEF Transitions, Move, WorkStates, ResolvedStates

\* Every step keeps the standing; the books are kept by BooksKept.
LEMMA StandingKept == Standing /\ [Next]_vars => Standing'
  <1> SUFFICES ASSUME Standing, [Next]_vars PROVE Matched(case)'
    BY BooksKept DEF Standing
  <1>a. Books /\ Sound(case, granted) /\ Matched(case) /\ now \in Nat /\ case \in Case
    BY DEF Standing, Books, Sound, Time
  <1>1. ASSUME case' = case PROVE Matched(case)'
    BY <1>a, <1>1 DEF Matched
  <1>2. CASE Route
    <2>1. PICK o \in Officers :
            Save(Arrive([case EXCEPT !.officer = o], "Assigned", now))
      BY <1>2 DEF Route
    <2> DEFINE owned == [case EXCEPT !.officer = o]
    <2>2. Sound(owned, granted) /\ SameStanding(case, owned)
      BY <1>a DEF Sound, SameStanding, Case
    <2> HIDE DEF owned
    <2>3. Matched(Arrive(owned, "Assigned", now))
      BY <1>a, <2>2, ArriveMatched, StandingMatched DEF States
    <2> QED
      BY <2>1, <2>3 DEF Save, Matched, owned
  <1>3. ASSUME NEW m \in Transitions, TakeAction(m) PROVE Matched(case)'
    <2>1. /\ m.to \in States /\ case' = Arrive(case, m.to, now)
          /\ m.to = "Rejected" => case.state \notin ResolvedStates
      BY <1>3, MovesAreTyped, MovesReject DEF TakeAction, Save
    <2>2. Matched(Arrive(case, m.to, now))
      BY <1>a, <2>1, ArriveMatched
    <2> QED
      BY <2>1, <2>2 DEF Matched
  <1>4. ASSUME NEW p, AsksOf(case, p), Apply(p) PROVE Matched(case)'
    <2>1. Matched(Applied(case, p, now))
      BY <1>a, <1>4, AppliedStanding, StandingMatched
    <2> QED
      BY <1>4, <2>1 DEF Apply, Save, Matched
  <1>5. ASSUME NEW p \in Proposals, RaiseDecidedRequest(p) PROVE Matched(case)'
    BY <1>a, <1>4, <1>5, ProposalAsks DEF RaiseDecidedRequest, Proposals
  <1>6. ASSUME NEW r \in requests, ApproveRequest(r) PROVE Matched(case)'
    BY <1>a, <1>4, <1>6, FreshAsks DEF ApproveRequest, Books
  <1>7. CASE SendReminder
    <2>1. /\ SameStanding(case, [case EXCEPT !.rem80 = TRUE])
          /\ SameStanding(case, [case EXCEPT !.rem50 = TRUE])
      BY <1>a DEF SameStanding, Case
    <2>2. /\ Matched([case EXCEPT !.rem80 = TRUE])
          /\ Matched([case EXCEPT !.rem50 = TRUE])
      BY <1>a, <2>1, StandingMatched
    <2> QED
      BY <1>7, <2>2 DEF SendReminder, Save, Matched
  <1>8. CASE EscalateSelected
    <2>1. CASE escalating # Lost
      <3>1. Matched(Escalate(case, escalating, now))
        BY <1>a, EscalateStanding, StandingMatched
      <3> QED
        BY <1>8, <2>1, <3>1 DEF EscalateSelected, Matched
    <2> QED
      BY <1>1, <1>8, <2>1 DEF EscalateSelected
  <1>9. CASE ExpireSelected
    <2>1. CASE expiring # Lost
      <3>1. expiring \in Case
        BY <1>a, <1>9, <2>1, HeldSweepIsCase DEF ExpireSelected, Books
      <3>2. Matched(TimerOutcome(case, expiring, now))
        BY <1>a, <3>1, TimerOutcomeMatched
      <3> QED
        BY <1>9, <2>1, <3>2 DEF ExpireSelected, Matched
    <2> QED
      BY <1>1, <1>9, <2>1 DEF ExpireSelected
  <1>10. ASSUME NEW p \in Proposals, RaiseRequest(p) PROVE Matched(case)'
    BY <1>1, <1>10 DEF RaiseRequest
  <1>11. ASSUME NEW r \in requests, RejectRequest(r) PROVE Matched(case)'
    BY <1>1, <1>11 DEF RejectRequest
  <1>12. CASE Tick \/ SelectBreached \/ SelectExpired \/ UNCHANGED vars
    BY <1>1, <1>12 DEF Tick, SelectBreached, SelectExpired, vars
  <1> QED
    BY <1>2, <1>3, <1>5, <1>6, <1>7, <1>8, <1>9, <1>10, <1>11, <1>12 DEF Next

\* The case stands as its state says in every reachable state.
THEOREM StandingHolds == Spec => []Standing
  BY StandingInit, StandingKept, PTL DEF Spec

\* Whatever the configuration and whichever sweep wins, the clock is on hold
\* only in a Paused state (on_status_change, resume_clock).
THEOREM HeldOnlyPaused == Spec => []HoldOnlyWhilePaused
  <1>1. Standing => HoldOnlyWhilePaused
    BY DEF Standing, Matched, HoldOnlyWhilePaused
  <1> QED
    BY <1>1, StandingHolds, PTL

\* Exactly the resolved cases carry a resolution date (stamp_resolution).
THEOREM StampFollowsState == Spec => []ResolvedStamp
  <1>1. Standing => ResolvedStamp
    BY DEF Standing, Matched, ResolvedStamp
  <1> QED
    BY <1>1, StandingHolds, PTL
==============================================================================
