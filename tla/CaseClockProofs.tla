--------------------------- MODULE CaseClockProofs ---------------------------
(***************************************************************************)
(* What a step may do to the deadline and to the escalation of a case, for *)
(* every configuration, and what the sweeps may do to a case that others   *)
(* have saved meanwhile.                                                   *)
(*                                                                         *)
(* The functions of SlaClock keep a case's first bump inside its window    *)
(* (`Inside'), and leave the window alone or move it by a hold that ended  *)
(* (`SameWindow'); only a new category or a reopening opens another.  The  *)
(* books of GrievanceCaseProofs say where the window lies.                 *)
(***************************************************************************)
EXTENDS GrievanceCaseProofs

USE NoneAssumption, ConfigAssumption

\* The first bump of case c is due inside its window.
Inside(c) ==
  ~c.escalated /\ c.nextEsc # None /\ c.due # None =>
    c.start <= c.nextEsc /\ c.nextEsc <= c.due

\* d has the window of c, moved at most by the hold that ended at t.
SameWindow(c, d, t) ==
  /\ d.category = c.category /\ d.start = c.start
  /\ \/ /\ d.due = c.due /\ d.held = c.held
        /\ c.holdSince # None => d.holdSince = c.holdSince
     \/ /\ c.holdSince # None /\ d.holdSince = None
        /\ d.due = c.due + OpenHold(c, t) /\ d.held = c.held + OpenHold(c, t)

-----------------------------------------------------------------------------
\* A share of a window is no more than the window.
LEMMA ShareIsInside ==
  ASSUME NEW w \in Nat, NEW percent \in 1..100
  PROVE  (w * percent) \div 100 <= w
  <1>1. w * percent <= w * 100
    BY SMT
  <1>2. w * percent \in Nat
    BY SMT
  <1>3. \A x \in Nat : x <= w * 100 => x \div 100 <= w
    BY SMT
  <1> QED
    BY <1>1, <1>2, <1>3

\* A first bump falls inside the window (arm_escalation).
LEMMA FirstBumpInside ==
  ASSUME NEW c, NEW g, Sound(c, g), c.due # None
  PROVE  c.start <= FirstBump(c) /\ FirstBump(c) <= c.due
  <1>1. /\ c.due \in Nat /\ c.start \in Nat /\ c.start # None
        /\ c.held \in Nat /\ g \in Nat /\ c.category \in Category
    BY DEF Sound, Case, MaybeTime
  <1>2. SlaWindow[c.category] \in Nat /\ Threshold[c.category] \in 1..100
    BY <1>1
  <1>3. c.due - c.start \in Nat
    BY <1>1, <1>2 DEF Sound
  <1> DEFINE share == ((c.due - c.start) * Threshold[c.category]) \div 100
  <1>4. share \in Nat /\ share <= c.due - c.start
    BY <1>2, <1>3, ShareIsNat, ShareIsInside
  <1>5. FirstBump(c) = IF Threshold[c.category] < 100 THEN c.start + share ELSE c.due
    BY <1>1 DEF FirstBump
  <1> HIDE DEF share
  <1> QED
    BY <1>1, <1>3, <1>4, <1>5

\* Arming leaves everything but the next escalation, and puts that inside.
LEMMA ArmInside ==
  ASSUME NEW c, NEW g, Sound(c, g)
  PROVE  LET d == ArmEscalation(c)
         IN  /\ Inside(d)
             /\ d.category = c.category /\ d.start = c.start /\ d.due = c.due
             /\ d.held = c.held /\ d.holdSince = c.holdSince /\ d.state = c.state
             /\ d.escalated = c.escalated
  <1>1. CASE c.escalated \/ c.due = None
    BY <1>1 DEF ArmEscalation, Inside
  <1>2. CASE ~(c.escalated \/ c.due = None)
    <2> DEFINE at == IF AutoEscalate[c.category] THEN FirstBump(c) ELSE None
               d == [c EXCEPT !.nextEsc = at]
    <2>1. ArmEscalation(c) = d
      BY <1>2 DEF ArmEscalation
    <2>2. at # None => c.start <= at /\ at <= c.due
      BY <1>2, FirstBumpInside
    <2> HIDE DEF at
    <2>3. /\ d.nextEsc = at /\ d.category = c.category /\ d.start = c.start /\ d.due = c.due
          /\ d.held = c.held /\ d.holdSince = c.holdSince /\ d.state = c.state
          /\ d.escalated = c.escalated
      BY DEF Sound, Case
    <2> HIDE DEF d
    <2> QED
      BY <2>1, <2>2, <2>3 DEF Inside
  <1> QED
    BY <1>1, <1>2

\* A case with a deadline is started already.
LEMMA StartInside ==
  ASSUME NEW c, NEW g, Sound(c, g), Inside(c)
  PROVE  /\ Inside(StartClock(c))
         /\ StartClock(c).holdSince = c.holdSince
         /\ c.due # None => StartClock(c) = c
  <1>1. CASE c.due # None \/ SlaWindow[c.category] = 0
    BY <1>1 DEF StartClock
  <1>2. CASE ~(c.due # None \/ SlaWindow[c.category] = 0)
    <2> DEFINE started == IF c.start # None THEN c.start ELSE Created
               ends == started + SlaWindow[c.category]
               d == [c EXCEPT !.start = started, !.due = ends]
    <2>1. /\ c.category \in Category /\ SlaWindow[c.category] \in Nat
          /\ started \in Nat /\ c.held = 0 /\ g = 0 /\ c.due = None
      BY <1>2 DEF Sound, Case, MaybeTime, Created
    <2>2. ends \in Nat /\ ends = started + SlaWindow[c.category]
      BY <2>1
    <2>3. StartClock(c) = ArmEscalation(d)
      BY <1>2 DEF StartClock
    <2> HIDE DEF started, ends
    <2>4. d \in Case
      <3>1. c \in Case /\ started \in MaybeTime /\ ends \in MaybeTime
        BY <2>1, <2>2 DEF Sound, MaybeTime
      <3> QED
        BY <3>1 DEF Case
    <2>5. /\ d.due = ends /\ d.start = started /\ d.holdSince = c.holdSince
          /\ d.held = 0 /\ d.category = c.category
      BY <2>1 DEF Sound, Case
    <2> HIDE DEF d
    <2>6. Sound(d, g)
      BY <2>1, <2>2, <2>4, <2>5 DEF Sound
    <2> QED
      BY <2>1, <2>3, <2>5, <2>6, ArmInside
  <1> QED
    BY <1>1, <1>2

\* Resuming moves the window and the first bump together.
LEMMA ResumeInside ==
  ASSUME NEW c, NEW g, NEW t \in Nat, Sound(c, g), Inside(c)
  PROVE  /\ Inside(ResumeClock(c, t))
         /\ c.due # None => SameWindow(c, ResumeClock(c, t), t)
  <1>1. CASE c.holdSince = None
    BY <1>1 DEF ResumeClock, SameWindow
  <1>2. CASE c.holdSince # None
    <2> DEFINE hold == OpenHold(c, t)
               held == c.held + hold
               due  == Later(c.due, hold)
               next == IF c.due = None THEN c.nextEsc ELSE Later(c.nextEsc, hold)
               d == [c EXCEPT !.held = held, !.holdSince = None,
                              !.due = due, !.nextEsc = next]
    <2>1. hold \in Nat
      BY <1>2 DEF OpenHold, Sound, Case, MaybeTime
    <2>2. /\ c.due \in MaybeTime /\ c.nextEsc \in MaybeTime
          /\ c.due # None => c.start \in Nat
      BY DEF Sound, Case, MaybeTime
    <2>3. ResumeClock(c, t) = d
      BY <1>2 DEF ResumeClock, Sound, Case
    <2>4. hold = OpenHold(c, t) /\ held = c.held + OpenHold(c, t)
      OBVIOUS
    <2> HIDE DEF hold
    <2>5. /\ (due = None <=> c.due = None) /\ (c.due # None => due = c.due + hold)
          /\ c.due # None => (next = None <=> c.nextEsc = None)
          /\ c.due # None /\ c.nextEsc # None => next = c.nextEsc + hold
      BY <2>1, <2>2 DEF Later, MaybeTime
    <2> HIDE DEF held, due, next
    <2>6. /\ d.due = due /\ d.held = held /\ d.start = c.start /\ d.nextEsc = next
          /\ d.category = c.category /\ d.holdSince = None /\ d.escalated = c.escalated
      BY DEF Sound, Case
    <2> HIDE DEF d
    <2>7. Inside(d)
      BY <2>1, <2>2, <2>5, <2>6 DEF Inside, MaybeTime
    <2>8. c.due # None => SameWindow(c, d, t)
      BY <1>2, <2>4, <2>5, <2>6 DEF SameWindow
    <2> QED
      BY <2>3, <2>7, <2>8
  <1> QED
    BY <1>1, <1>2

\* A new window is armed inside itself.
LEMMA ResetInside ==
  ASSUME NEW c \in Case, NEW t \in Nat
  PROVE  Inside(ResetClock(c, t))
  <1> DEFINE window == SlaWindow[c.category]
             due == IF window > 0 THEN t + window ELSE None
             d == [c EXCEPT !.start = t, !.held = 0,
                            !.rem50 = FALSE, !.rem80 = FALSE, !.escalated = FALSE,
                            !.due = due]
  <1>1. c.category \in Category /\ window \in Nat
    BY DEF Case
  <1>2. /\ due \in MaybeTime /\ (due = None <=> window = 0)
        /\ (due # None => due = t + window)
    BY <1>1 DEF MaybeTime
  <1>3. ResetClock(c, t) = ArmEscalation(d)
    BY DEF ResetClock
  <1> HIDE DEF due
  <1>4. d \in Case
    BY <1>2 DEF Case, MaybeTime
  <1>5. /\ d.due = due /\ d.start = t /\ d.held = 0 /\ d.category = c.category
    BY DEF Case
  <1> HIDE DEF d
  <1>6. Sound(d, 0)
    BY <1>1, <1>2, <1>4, <1>5 DEF Sound
  <1> QED
    BY <1>3, <1>6, ArmInside

-----------------------------------------------------------------------------
\* d agrees with c in every column of the clock.
SameClock(c, d) ==
  /\ d.category = c.category /\ d.start = c.start /\ d.due = c.due
  /\ d.held = c.held /\ d.holdSince = c.holdSince
  /\ d.nextEsc = c.nextEsc /\ d.escalated = c.escalated

\* on_status_change keeps the first bump inside, and the window unless it
\* restarts the clock.
LEMMA StatusInside ==
  ASSUME NEW c, NEW g, NEW t \in Nat, Sound(c, g), Inside(c),
         NEW from \in States, NEW to \in States
  PROVE  LET d == OnStatusChange(c, from, to, t)
         IN  /\ Inside(d)
             /\ c.due # None /\ ~Restarts(from, to) => SameWindow(c, d, t)
  <1> DEFINE started == IF to = "Assigned" THEN StartClock(c) ELSE c
             resumed == ResumeClock(started, t)
             d == OnStatusChange(c, from, to, t)
  <1>1. Sound(started, g) /\ Inside(started) /\ (c.due # None => started = c)
    BY StartSound, StartInside
  <1>2. /\ Sound(resumed, g) /\ Inside(resumed)
        /\ c.due # None => SameWindow(c, resumed, t)
    BY <1>1, ResumeSound, ResumeInside
  <1>3. SlaCategory[to] \in {"Running", "Paused", "Stopped"}
    BY DEF States, SlaCategory
  <1>4. d =
          IF SlaCategory[to] = "Paused"
          THEN IF started.due # None /\ started.holdSince = None
               THEN [started EXCEPT !.holdSince = t] ELSE started
          ELSE IF SlaCategory[to] = "Stopped" THEN [resumed EXCEPT !.nextEsc = None]
          ELSE IF SlaCategory[from] = "Stopped" THEN ResetClock(resumed, t)
          ELSE resumed
    BY DEF OnStatusChange
  <1>5. started \in Case /\ resumed \in Case
    BY <1>1, <1>2 DEF Sound
  <1> HIDE DEF started, resumed, d
  <1>6. CASE SlaCategory[to] = "Paused"
    <2>1. CASE started.due # None /\ started.holdSince = None
      <3> DEFINE e == [started EXCEPT !.holdSince = t]
      <3>1. /\ e.category = started.category /\ e.start = started.start
            /\ e.due = started.due /\ e.held = started.held
            /\ e.nextEsc = started.nextEsc /\ e.escalated = started.escalated
        BY <1>5 DEF Case
      <3>2. d = e
        BY <1>4, <1>6, <2>1
      <3> HIDE DEF e
      <3> QED
        BY <1>1, <2>1, <3>1, <3>2 DEF Inside, SameWindow, d
    <2>2. CASE ~(started.due # None /\ started.holdSince = None)
      <3>1. d = started
        BY <1>4, <1>6, <2>2
      <3> QED
        BY <1>1, <3>1 DEF SameWindow, d
    <2> QED
      BY <2>1, <2>2
  <1>7. CASE SlaCategory[to] = "Stopped"
    <2> DEFINE e == [resumed EXCEPT !.nextEsc = None]
    <2>1. /\ e.category = resumed.category /\ e.start = resumed.start
          /\ e.due = resumed.due /\ e.held = resumed.held
          /\ e.holdSince = resumed.holdSince /\ e.nextEsc = None
      BY <1>5 DEF Case
    <2>2. d = e
      BY <1>4, <1>7
    <2> HIDE DEF e
    <2> QED
      BY <1>2, <2>1, <2>2 DEF Inside, SameWindow, d
  <1>8. CASE SlaCategory[to] = "Running" /\ SlaCategory[from] = "Stopped"
    BY <1>4, <1>5, <1>8, ResetInside DEF Restarts, d
  <1>9. CASE SlaCategory[to] = "Running" /\ SlaCategory[from] # "Stopped"
    BY <1>2, <1>4, <1>9 DEF d
  <1> QED
    BY <1>3, <1>6, <1>7, <1>8, <1>9

\* So does the whole arrival: the state timer and the resolution date are
\* columns of their own.
LEMMA ArriveInside ==
  ASSUME NEW c, NEW g, NEW t \in Nat, Sound(c, g), Inside(c), NEW to \in States
  PROVE  LET d == Arrive(c, to, t)
         IN  /\ Inside(d) /\ d.state = to
             /\ c.due # None /\ ~Restarts(c.state, to) => SameWindow(c, d, t)
  <1> DEFINE moved == [c EXCEPT !.state = to]
             ruled == OnStatusChange(moved, c.state, to, t)
             timed == ArmStateTimer(ruled, to, t)
             d == StampResolution(timed, to, t)
  <1>1. Sound(moved, g) /\ c.state \in States /\ SameClock(c, moved) /\ moved.state = to
    BY DEF Sound, Case, SameClock
  <1>2. Arrive(c, to, t) = d
    BY DEF Arrive
  <1> HIDE DEF moved
  <1>3. Inside(moved)
    BY <1>1 DEF Inside, SameClock
  <1>4. /\ Inside(ruled)
        /\ moved.due # None /\ ~Restarts(c.state, to) => SameWindow(moved, ruled, t)
    BY <1>1, <1>3, StatusInside
  <1>5. Sound(ruled, IF Restarts(c.state, to) THEN 0 ELSE g) /\ ruled.state = to
    BY <1>1, StatusSound, StatusStanding
  <1> HIDE DEF ruled
  <1>6. ruled \in Case /\ timed \in Case
    BY <1>5, TimerSound DEF Sound
  <1>7. SameClock(ruled, timed) /\ timed.state = to
    BY <1>5, <1>6 DEF ArmStateTimer, SameClock, Case
  <1> HIDE DEF timed
  <1>8. SameClock(timed, d) /\ d.state = to
    BY <1>6, <1>7 DEF StampResolution, SameClock, Case
  <1> HIDE DEF d
  <1>9. Inside(d)
    BY <1>4, <1>7, <1>8 DEF Inside, SameClock
  <1>10. SameWindow(moved, ruled, t) => SameWindow(c, d, t)
    BY <1>1, <1>7, <1>8 DEF SameWindow, SameClock, OpenHold
  <1>11. moved.due = c.due
    BY <1>1 DEF SameClock
  <1> QED
    BY <1>2, <1>4, <1>8, <1>9, <1>10, <1>11

\* d is c handed up: escalated, on the same clock.
HandedUp(c, d) ==
  /\ d.escalated /\ d.state = c.state
  /\ d.category = c.category /\ d.start = c.start /\ d.due = c.due
  /\ d.held = c.held /\ d.holdSince = c.holdSince

\* An escalation moves neither the window nor the hold.
LEMMA EscalateHandsUp ==
  ASSUME NEW c \in Case, NEW seen, NEW t
  PROVE  HandedUp(c, Escalate(c, seen, t))
  BY DEF Escalate, HandedUp, Case

-----------------------------------------------------------------------------
\* What may be asked of case c: a request, for something else than c has, and
\* a deadline moved out by no more than one deferral may grant.
AsksModestly(c, p) ==
  /\ AsksOf(c, p)
  /\ p.category # c.category
  /\ p.due # None => p.due - c.due \in 1..MaxDeferral

\* A pending request asked modestly of the values it was raised on.
Modest(r) ==
  /\ r.new.category # None => r.new.category # r.old.category
  /\ r.new.due # None => r.new.due - r.old.due \in 1..MaxDeferral

\* A modest request that did not go stale asks modestly of the case as it is.
LEMMA FreshAsksModestly ==
  ASSUME NEW c \in Case, NEW r, Wellformed(r), Modest(r), CheckNotStale(c, r)
  PROVE  AsksModestly(c, r.new)
  <1>1. AsksOf(c, r.new) /\ c.category # None
    BY FreshAsks DEF Case
  <1> QED
    BY <1>1 DEF Modest, CheckNotStale, AsksModestly

\* An applied request keeps the first bump inside the window, and without a
\* new category moves the deadline as asked and nothing else of the window.
LEMMA AppliedInside ==
  ASSUME NEW c, NEW g, NEW t \in Nat, Sound(c, g), Inside(c), NEW p, AsksOf(c, p)
  PROVE  LET d == Applied(c, p, t)
         IN  /\ Inside(d)
             /\ p.category = None =>
                  /\ d.category = c.category /\ d.start = c.start
                  /\ d.held = c.held /\ d.holdSince = c.holdSince
                  /\ d.due = IF p.due # None THEN p.due ELSE c.due
             /\ p.category # None => d.category = p.category
  <1> DEFINE written == WithValues(c, p)
             d == Applied(c, p, t)
  <1>1. c \in Case /\ p \in Proposal
    BY DEF Sound, AsksOf
  <1>2. written \in Case
    BY <1>1, WithValuesIsCase
  <1>3. /\ written.start = c.start /\ written.held = c.held
        /\ written.holdSince = c.holdSince
        /\ written.escalated = c.escalated /\ written.nextEsc = c.nextEsc
        /\ written.category = IF p.category = None THEN c.category ELSE p.category
        /\ written.due = IF p.due # None THEN p.due ELSE c.due
    BY <1>1 DEF WithValues, Case
  <1>4. CASE p.category # None
    <2>1. d = ResetClock(written, t)
      BY <1>4 DEF Applied, IsReassignment
    <2>2. ResetClock(written, t).category = written.category
      <3> HIDE DEF written
      <3> DEFINE due == IF SlaWindow[written.category] > 0
                        THEN t + SlaWindow[written.category] ELSE None
                 e == [written EXCEPT !.start = t, !.held = 0, !.rem50 = FALSE,
                                      !.rem80 = FALSE, !.escalated = FALSE, !.due = due]
      <3>1. ResetClock(written, t) = ArmEscalation(e)
        BY DEF ResetClock
      <3>2. due \in MaybeTime
        BY <1>2 DEF MaybeTime, Case
      <3> HIDE DEF due
      <3>3. e \in Case /\ e.category = written.category
        BY <1>2, <3>2, ZenonT(30) DEF Case, MaybeTime
      <3> HIDE DEF e
      <3>4. ArmEscalation(e).category = e.category
        BY <3>3 DEF ArmEscalation, Case
      <3> QED
        BY <3>1, <3>3, <3>4
    <2> HIDE DEF written
    <2> QED
      BY <1>2, <1>3, <1>4, <2>1, <2>2, ResetInside
  <1>5. CASE p.category = None /\ IsReassignment(p)
    <2>1. d = written
      BY <1>5 DEF Applied
    <2>2. /\ c.start \in MaybeTime /\ c.nextEsc \in MaybeTime
          /\ p.due # None => c.due \in Nat /\ p.due \in Nat /\ p.due > c.due
          /\ p.due # None => c.start \in Nat
      BY <1>1 DEF AsksOf, Case, Proposal, MaybeTime, Sound
    <2> HIDE DEF written
    <2>3. Inside(written)
      BY <1>3, <1>5, <2>2 DEF Inside, MaybeTime
    <2> QED
      BY <1>3, <1>5, <2>1, <2>3
  <1>6. CASE p.category = None /\ ~IsReassignment(p)
    <2> DEFINE reopened == [written EXCEPT !.rem50 = FALSE, !.rem80 = FALSE]
    <2>1. d = DeferralReaction(written, c.due)
      BY <1>6 DEF Applied
    <2>2. Sound(written, GrantedAfter(c, p, g))
      BY <1>1, <1>6, WithValuesSound DEF AsksOf, GrantedAfter
    <2> HIDE DEF written
    <2>3. Sound(reopened, GrantedAfter(c, p, g)) /\ reopened \in Case
      BY <1>2, <2>2 DEF Sound, Case
    <2>4. SameClock(written, reopened)
      BY <1>2 DEF SameClock, Case
    <2>5. d = IF written.escalated /\ written.nextEsc # None
              THEN [reopened EXCEPT !.nextEsc = @ + (written.due - c.due)]
              ELSE ArmEscalation(reopened)
      BY <2>1 DEF DeferralReaction
    <2> DEFINE later == [reopened EXCEPT !.nextEsc = @ + (written.due - c.due)]
    <2> HIDE DEF reopened, d
    <2>6. /\ later.category = reopened.category /\ later.start = reopened.start
          /\ later.due = reopened.due /\ later.held = reopened.held
          /\ later.holdSince = reopened.holdSince /\ later.escalated = reopened.escalated
      BY <2>3 DEF Case
    <2> HIDE DEF later
    <2>7. CASE written.escalated /\ written.nextEsc # None
      <3>1. d = later
        BY <2>5, <2>7 DEF later
      <3> QED
        BY <1>3, <1>6, <2>4, <2>6, <2>7, <3>1 DEF Inside, SameClock, d
    <2>8. CASE ~(written.escalated /\ written.nextEsc # None)
      <3>1. d = ArmEscalation(reopened)
        BY <2>5, <2>8
      <3>2. /\ Inside(d) /\ d.category = reopened.category /\ d.start = reopened.start
            /\ d.due = reopened.due /\ d.held = reopened.held
            /\ d.holdSince = reopened.holdSince
        BY <2>3, <3>1, ArmInside
      <3> QED
        BY <1>3, <1>6, <2>4, <3>2 DEF SameClock, d
    <2> QED
      BY <2>7, <2>8
  <1> QED
    BY <1>4, <1>5, <1>6 DEF IsReassignment

-----------------------------------------------------------------------------
(***************************************************************************)
(* Every step does one of four things to the case.                         *)
(***************************************************************************)

\* The inductive invariant: the books, the standing, the first bump inside the
\* window, and requests that asked modestly.
Kept ==
  /\ Standing
  /\ Inside(case)
  /\ \A r \in requests : Modest(r)

\* Nothing happens to the clock.
Untouched == SameClock(case, case') /\ case'.state = case.state

\* The case, or what routing or an expired timer made of its other columns,
\* makes a move of the workflow.
Arrived ==
  \E c \in Case, to \in States :
    /\ SameClock(case, c) /\ c.state = case.state /\ Sound(c, granted)
    /\ \E m \in Transitions : m.from = case.state /\ m.to = to
    /\ case' = Arrive(c, to, now)

\* A change request is carried out.
Changed == \E p \in Proposal : AsksModestly(case, p) /\ case' = Applied(case, p, now)

\* What may be asked is asked modestly.
LEMMA ProposalAsksModestly ==
  ASSUME NEW c \in Case, NEW p \in Proposals, ValidProposal(c, p)
  PROVE  AsksModestly(c, p)
  BY ProposalAsks DEF ValidProposal, AsksModestly

\* An expired timer clears its deadline and then hands up, closes or nothing.
LEMMA ExpiredTimer ==
  ASSUME NEW c, NEW g, Sound(c, g), NEW seen \in Case, NEW t \in Nat
  PROVE  \E d \in Case :
           /\ SameClock(c, d) /\ d.state = c.state /\ Sound(d, g)
           /\ \/ TimerOutcome(c, seen, t) \in {d, Escalate(d, seen, t)}
              \/ c.state \in AutoClosable /\ TimerOutcome(c, seen, t) = Arrive(d, "Closed", t)
  <1> DEFINE cleared == [c EXCEPT !.deadline = None]
  <1>1. Sound(cleared, g) /\ SameClock(c, cleared) /\ cleared.state = c.state
    BY ZenonT(30) DEF Sound, Case, MaybeTime, SameClock
  <1>2. \/ TimerOutcome(c, seen, t) \in {cleared, Escalate(cleared, seen, t)}
        \/ c.state \in AutoClosable /\ TimerOutcome(c, seen, t) = Arrive(cleared, "Closed", t)
    BY DEF TimerOutcome
  <1>3. cleared \in Case
    BY <1>1 DEF Sound
  <1> HIDE DEF cleared
  <1> QED
    BY <1>1, <1>2, <1>3

\* Auto Close closes.
LEMMA AutoCloseCloses ==
  ASSUME NEW m \in Transitions, m.action = "AutoClose"
  PROVE  m.to = "Closed" /\ m.from \in {"MoreInfoNeeded", "Resolved"}
  BY DEF Transitions, Move, WorkStates

\* The four kinds of step.
LEMMA StepKinds ==
  ASSUME Kept, [Next]_vars
  PROVE  Untouched \/ Arrived \/ Changed \/ HandedUp(case, case')
  <1>a. Sound(case, granted) /\ now \in Nat /\ case \in Case
    BY DEF Kept, Standing, Books, Sound, Time
  <1>1. ASSUME case' = case PROVE Untouched
    BY <1>1 DEF Untouched, SameClock
  <1>2. CASE Route
    <2>1. PICK o \in Officers :
            Save(Arrive([case EXCEPT !.officer = o], "Assigned", now))
      BY <1>2 DEF Route
    <2> DEFINE owned == [case EXCEPT !.officer = o]
    <2>2. SameClock(case, owned) /\ owned.state = case.state /\ Sound(owned, granted)
      BY <1>a DEF Sound, SameClock, Case
    <2>3. owned \in Case /\ case' = Arrive(owned, "Assigned", now)
      BY <2>1, <2>2 DEF Sound, Save
    <2> HIDE DEF owned
    <2>4. \E m \in Transitions : m.from = case.state /\ m.to = "Assigned"
      <3> DEFINE m == Move("Submitted", "Assign", "Assigned", "system")
      <3>1. m \in Transitions /\ m.from = "Submitted" /\ m.to = "Assigned"
        BY DEF Transitions, Move
      <3> QED
        BY <1>2, <3>1 DEF Route
    <2> QED
      BY <2>2, <2>3, <2>4 DEF Arrived, States
  <1>3. ASSUME NEW m \in Transitions, TakeAction(m) PROVE Arrived
    <2>1. m.to \in States /\ m.from = case.state /\ case' = Arrive(case, m.to, now)
      BY <1>3, MovesAreTyped DEF TakeAction, Save
    <2>2. SameClock(case, case)
      BY DEF SameClock
    <2> QED
      BY <1>a, <2>1, <2>2 DEF Arrived
  <1>4. ASSUME NEW p \in Proposals, RaiseDecidedRequest(p) PROVE Changed
    <2>1. AsksModestly(case, p)
      BY <1>a, ProposalAsksModestly DEF Proposals
    <2>2. p \in Proposal /\ case' = Applied(case, p, now)
      BY <1>4, <2>1 DEF AsksModestly, AsksOf, RaiseDecidedRequest, Apply, Save
    <2> QED
      BY <2>1, <2>2 DEF Changed
  <1>5. ASSUME NEW r \in requests, ApproveRequest(r) PROVE Changed
    <2>1. AsksModestly(case, r.new)
      BY <1>a, <1>5, FreshAsksModestly DEF ApproveRequest, Kept, Standing, Books
    <2>2. r.new \in Proposal /\ case' = Applied(case, r.new, now)
      BY <1>5, <2>1 DEF AsksModestly, AsksOf, ApproveRequest, Apply, Save
    <2> QED
      BY <2>1, <2>2 DEF Changed
  <1>6. CASE SendReminder
    <2>1. case' = [case EXCEPT !.rem80 = TRUE] \/ case' = [case EXCEPT !.rem50 = TRUE]
      BY <1>6 DEF SendReminder, Save
    <2>2. \A c : c = [case EXCEPT !.rem80 = TRUE] \/ c = [case EXCEPT !.rem50 = TRUE]
                   => SameClock(case, c) /\ c.state = case.state
      BY <1>a DEF SameClock, Case
    <2> QED
      BY <2>1, <2>2 DEF Untouched
  <1>7. CASE EscalateSelected
    <2>1. CASE escalating = Lost
      BY <1>1, <1>7, <2>1 DEF EscalateSelected
    <2>2. CASE escalating # Lost
      BY <1>a, <1>7, <2>2, EscalateHandsUp DEF EscalateSelected
    <2> QED
      BY <2>1, <2>2
  <1>8. CASE ExpireSelected
    <2>1. CASE expiring = Lost
      BY <1>1, <1>8, <2>1 DEF ExpireSelected
    <2>2. CASE expiring # Lost
      <3>1. expiring \in Case /\ case' = TimerOutcome(case, expiring, now)
        BY <1>8, <2>2, HeldSweepIsCase DEF ExpireSelected, Kept, Standing, Books
      <3>2. PICK d \in Case :
              /\ SameClock(case, d) /\ d.state = case.state /\ Sound(d, granted)
              /\ \/ case' \in {d, Escalate(d, expiring, now)}
                 \/ case.state \in AutoClosable /\ case' = Arrive(d, "Closed", now)
        BY <1>a, <3>1, ExpiredTimer
      <3>3. CASE case' = d
        BY <3>2, <3>3 DEF Untouched
      <3>4. CASE case' = Escalate(d, expiring, now)
        <4>1. HandedUp(d, case')
          BY <3>4, EscalateHandsUp
        <4> QED
          BY <3>2, <4>1 DEF HandedUp, SameClock
      <3>5. CASE case.state \in AutoClosable /\ case' = Arrive(d, "Closed", now)
        <4>1. \E m \in Transitions : m.from = case.state /\ m.to = "Closed"
          BY <3>5, AutoCloseCloses DEF AutoClosable
        <4> QED
          BY <3>2, <3>5, <4>1 DEF Arrived, States
      <3> QED
        BY <3>2, <3>3, <3>4, <3>5
    <2> QED
      BY <2>1, <2>2
  <1>9. ASSUME NEW p \in Proposals, RaiseRequest(p) PROVE Untouched
    BY <1>1, <1>9 DEF RaiseRequest
  <1>10. ASSUME NEW r \in requests, RejectRequest(r) PROVE Untouched
    BY <1>1, <1>10 DEF RejectRequest
  <1>11. CASE Tick \/ SelectBreached \/ SelectExpired \/ UNCHANGED vars
    BY <1>1, <1>11 DEF Tick, SelectBreached, SelectExpired, vars
  <1> QED
    BY <1>2, <1>3, <1>4, <1>5, <1>6, <1>7, <1>8, <1>9, <1>10, <1>11 DEF Next

-----------------------------------------------------------------------------
\* A new case asks nothing.
LEMMA KeptInit == Init => Kept
  <1> SUFFICES ASSUME Init PROVE Inside(case)
    BY StandingInit DEF Init, Kept
  <1>1. PICK category \in Category : case = Filed(category)
    BY DEF Init
  <1> QED
    BY <1>1 DEF Filed, Inside

\* Requests are raised modestly and change no more.
LEMMA RequestsStayModest ==
  ASSUME Kept, [Next]_vars
  PROVE  \A r \in requests' : Modest(r)
  <1>1. ASSUME NEW p \in Proposals, RaiseRequest(p)
        PROVE  \A r \in requests' : Modest(r)
    <2> DEFINE r == [old |-> Snapshot(case, p), new |-> p]
    <2>1. AsksModestly(case, p)
      BY ProposalAsksModestly DEF Proposals, Kept, Standing, Books, Sound
    <2>2. /\ p.category # None => Snapshot(case, p).category = case.category
          /\ p.due # None => Snapshot(case, p).due = case.due
      BY DEF Snapshot
    <2>3. Modest(r)
      BY <2>1, <2>2 DEF AsksModestly, Modest
    <2>4. requests' = requests \cup {r}
      BY <1>1 DEF RaiseRequest
    <2> HIDE DEF r
    <2> QED
      BY <2>3, <2>4 DEF Kept
  <1>2. ASSUME requests' \subseteq requests PROVE \A r \in requests' : Modest(r)
    BY <1>2 DEF Kept
  <1>3. \/ requests' \subseteq requests
        \/ \E p \in Proposals : RaiseRequest(p)
    BY DEF Next, Tick, Route, TakeAction, RaiseDecidedRequest, ApproveRequest, RejectRequest,
           SendReminder, SelectBreached, EscalateSelected, SelectExpired, ExpireSelected, vars
  <1> QED
    BY <1>1, <1>2, <1>3

\* Every step keeps what is kept.
LEMMA KeptKept == Kept /\ [Next]_vars => Kept'
  <1> SUFFICES ASSUME Kept, [Next]_vars PROVE Inside(case')
    BY StandingKept, RequestsStayModest DEF Kept, Inside
  <1>a. Sound(case, granted) /\ Inside(case) /\ now \in Nat
    BY DEF Kept, Standing, Books, Time
  <1>1. CASE Untouched
    BY <1>a, <1>1 DEF Untouched, SameClock, Inside
  <1>2. CASE Arrived
    <2>1. PICK c \in Case, to \in States :
            SameClock(case, c) /\ Sound(c, granted) /\ case' = Arrive(c, to, now)
      BY <1>2 DEF Arrived
    <2>2. Inside(c)
      BY <1>a, <2>1 DEF SameClock, Inside
    <2> QED
      BY <1>a, <2>1, <2>2, ArriveInside
  <1>3. CASE Changed
    BY <1>a, <1>3, AppliedInside DEF Changed, AsksModestly
  <1>4. CASE HandedUp(case, case')
    BY <1>4 DEF HandedUp, Inside
  <1> QED
    BY <1>1, <1>2, <1>3, <1>4, StepKinds

\* What is kept holds in every reachable state.
THEOREM KeptAlways == Spec => []Kept
  BY KeptInit, KeptKept, PTL DEF Spec

\* For every window, threshold and ladder, a case that has not escalated is due
\* for its first bump inside its window, however holds, deferrals, reopenings
\* and recategorisations moved it (arm_escalation and all that shifts it).
THEOREM FirstBumpInWindow == Spec => []EscalationInsideWindow
  <1>1. Kept => EscalationInsideWindow
    BY DEF Kept, Inside, EscalationInsideWindow
  <1> QED
    BY <1>1, KeptAlways, PTL

-----------------------------------------------------------------------------
\* The same window moves the deadline out, by a hold that ended or not at all.
LEMMA WindowMovesOut ==
  ASSUME NEW c \in Case, NEW d, NEW t \in Nat, c.due # None, SameWindow(c, d, t)
  PROVE  /\ d.due # None /\ d.due >= c.due
         /\ d.holdSince = c.holdSince => d.due = c.due
  <1>1. c.due \in Nat /\ c.holdSince \in MaybeTime
    BY DEF Case, MaybeTime
  <1>2. OpenHold(c, t) \in Nat
    BY <1>1 DEF OpenHold, MaybeTime
  <1> QED
    BY <1>1, <1>2 DEF SameWindow

\* Within one window no step brings the deadline forward, nor moves it out by
\* more than a hold that ended or one deferral, even when the deadline moved
\* while a request was pending (_validate_deferral, check_not_stale).
THEOREM DeadlineMovesOut == Spec => DeadlineOnlyMovesOut
  <1>1. ASSUME Kept, [Next]_vars, case.due # None, ~Restarted
        PROVE  /\ case'.due # None /\ case'.due >= case.due
               /\ case'.holdSince = case.holdSince => case'.due - case.due <= MaxDeferral
    <2>1. case \in Case /\ case.due \in Nat /\ now \in Nat /\ MaxDeferral \in Nat
      BY <1>1, CaseAssumption DEF Kept, Standing, Books, Sound, Case, MaybeTime, Time
    <2>2. CASE Untouched
      BY <1>1, <2>1, <2>2 DEF Untouched, SameClock
    <2>3. CASE Arrived
      <3>1. PICK c \in Case, to \in States :
              /\ SameClock(case, c) /\ c.state = case.state /\ Sound(c, granted)
              /\ case' = Arrive(c, to, now)
        BY <2>3 DEF Arrived
      <3>2. Inside(c) /\ c.due = case.due /\ c.holdSince = case.holdSince
        BY <1>1, <3>1 DEF Kept, SameClock, Inside
      <3>3. case'.state = to
        BY <2>1, <3>1, <3>2, ArriveInside
      <3>4. SameWindow(c, case', now)
        BY <1>1, <2>1, <3>1, <3>2, <3>3, ArriveInside DEF Restarted
      <3> QED
        BY <1>1, <2>1, <3>2, <3>4, WindowMovesOut
    <2>4. CASE Changed
      <3>1. PICK p \in Proposal : AsksModestly(case, p) /\ case' = Applied(case, p, now)
        BY <2>4 DEF Changed
      <3>2. /\ p.category = None => case'.due = IF p.due # None THEN p.due ELSE case.due
            /\ p.category # None => case'.category = p.category
        BY <1>1, <2>1, <3>1, AppliedInside DEF Kept, Standing, Books, AsksModestly
      <3>3. p.category = None
        BY <1>1, <3>1, <3>2 DEF AsksModestly, Restarted
      <3>4. p.due \in MaybeTime /\ (p.due # None => p.due - case.due \in 1..MaxDeferral)
        BY <3>1 DEF AsksModestly, Proposal
      <3> QED
        BY <1>1, <2>1, <3>2, <3>3, <3>4 DEF MaybeTime
    <2>5. CASE HandedUp(case, case')
      BY <1>1, <2>1, <2>5 DEF HandedUp
    <2> QED
      BY <1>1, <2>2, <2>3, <2>4, <2>5, StepKinds
  <1> QED
    BY <1>1, KeptAlways, PTL DEF Spec, DeadlineOnlyMovesOut

\* A held case without a deadline has no configuration, and gets no deadline.
LEMMA UndatedStays ==
  ASSUME NEW c, NEW g, NEW t \in Nat, Sound(c, g), NEW to \in States,
         c.due = None, c.holdSince # None, SlaCategory[c.state] = "Paused"
  PROVE  Arrive(c, to, t).due = None
  <1> DEFINE moved == [c EXCEPT !.state = to]
             ruled == OnStatusChange(moved, c.state, to, t)
             timed == ArmStateTimer(ruled, to, t)
  <1>a. Sound(moved, g) /\ c.state \in States
    BY DEF Sound, Case
  <1>1. /\ moved \in Case /\ moved.due = None /\ moved.category = c.category
        /\ c.category \in Category
    BY DEF Sound, Case
  <1>2. SlaWindow[moved.category] = 0
    BY <1>1 DEF Sound
  <1> HIDE DEF moved
  <1>3. StartClock(moved) = moved
    BY <1>2 DEF StartClock
  <1>4. ResumeClock(moved, t).due = None /\ ResumeClock(moved, t).category = c.category
    BY <1>1 DEF ResumeClock, Later, Case
  <1>r. DOMAIN moved = DOMAIN ResumeClock(moved, t)
    BY <1>1 DEF ResumeClock, Case
  <1>5. ruled.due = None
    <2> DEFINE resumed == ResumeClock(moved, t)
    <2>1. ruled \in {[moved EXCEPT !.holdSince = t], moved,
                     [resumed EXCEPT !.nextEsc = None], resumed}
      BY <1>3 DEF OnStatusChange
    <2>2. "due" \in DOMAIN moved
      BY <1>1 DEF Case
    <2> HIDE DEF resumed, ruled
    <2> QED
      BY <1>1, <1>4, <1>r, <2>1, <2>2 DEF resumed
  <1>6. Sound(ruled, IF Restarts(c.state, to) THEN 0 ELSE g)
    BY <1>a, StatusSound
  <1> HIDE DEF ruled
  <1>7. ruled \in Case /\ timed \in Case
    BY <1>6, TimerSound DEF Sound
  <1>8. timed.due = None
    BY <1>5, <1>7 DEF ArmStateTimer, Case
  <1> HIDE DEF timed
  <1>9. Arrive(c, to, t) = StampResolution(timed, to, t)
    BY DEF Arrive, timed, ruled, moved
  <1> QED
    BY <1>7, <1>8, <1>9 DEF StampResolution, Case

\* The hold that ends takes nothing of the window's share that was used up.
LEMMA HoldKeepsShare ==
  ASSUME NEW c \in Case, NEW d \in Case, NEW t \in Nat, c.holdSince # None,
         c.due # None, d.holdSince = None, SameWindow(c, d, t)
  PROVE  ConsumedPercent(d, t) = ConsumedPercent(c, t)
  <1>1. /\ d.start = c.start /\ d.due = c.due + OpenHold(c, t)
        /\ d.held = c.held + OpenHold(c, t)
    BY DEF SameWindow
  <1>2. /\ c.due \in Nat /\ c.held \in Nat /\ c.start \in MaybeTime
        /\ OpenHold(c, t) \in Nat /\ OpenHold(d, t) = 0 /\ d.due # None
    BY <1>1 DEF Case, MaybeTime, OpenHold
  <1>3. CASE c.start = None
    BY <1>1, <1>3 DEF ConsumedPercent
  <1>4. CASE c.start # None
    <2>1. c.start \in Nat
      BY <1>2, <1>4 DEF MaybeTime
    <2>2. d.due - d.start - d.held = c.due - c.start - c.held
      BY <1>1, <1>2, <2>1
    <2>3. t - d.start - d.held - OpenHold(d, t) = t - c.start - c.held - OpenHold(c, t)
      BY <1>1, <1>2, <2>1
    <2> QED
      BY <1>1, <1>2, <1>4, <2>2, <2>3 DEF ConsumedPercent
  <1> QED
    BY <1>3, <1>4

\* A carried-out request leaves the hold as it is.
LEMMA ChangedKeepsHold ==
  ASSUME Kept, Changed
  PROVE  case'.holdSince = case.holdSince
  <1>1. PICK p \in Proposal : AsksModestly(case, p) /\ case' = Applied(case, p, now)
    BY DEF Changed
  <1> QED
    BY <1>1, AppliedStanding DEF Kept, Standing, Books, Time, AsksModestly, SameStanding

\* Leaving a hold keeps the share of the window used up, for every window and
\* every length of hold: the submitter's reply makes no reminder due and loses
\* none (resume_clock's reason for leaving the reminder flags alone).
THEOREM PercentSurvivesHold == Spec => PercentKeptAcrossHold
  <1>1. ASSUME Kept, Kept', [Next]_vars, case.holdSince # None, case'.holdSince = None
        PROVE  ConsumedPercent(case', now) = ConsumedPercent(case, now)
    <2>1. /\ case \in Case /\ case' \in Case /\ now \in Nat
          /\ SlaCategory[case.state] = "Paused"
      BY <1>1 DEF Kept, Standing, Books, Sound, Time, Matched
    <2>2. Arrived
      BY <1>1, StepKinds, ChangedKeepsHold DEF Untouched, SameClock, HandedUp
    <2>3. PICK c \in Case, to \in States :
            /\ SameClock(case, c) /\ c.state = case.state /\ Sound(c, granted)
            /\ case' = Arrive(c, to, now)
      BY <2>2 DEF Arrived
    <2>4. Inside(c) /\ c.due = case.due /\ c.holdSince = case.holdSince
      BY <1>1, <2>3 DEF Kept, SameClock, Inside
    <2>5. CASE case.due # None
      <3>1. SameWindow(c, case', now)
        BY <2>1, <2>3, <2>4, <2>5, ArriveInside DEF Restarts
      <3>2. ConsumedPercent(case', now) = ConsumedPercent(c, now)
        BY <1>1, <2>1, <2>4, <2>5, <3>1, HoldKeepsShare
      <3>3. ConsumedPercent(c, now) = ConsumedPercent(case, now)
        BY <2>3 DEF SameClock, ConsumedPercent, OpenHold
      <3> QED
        BY <3>2, <3>3
    <2>6. CASE case.due = None
      <3>1. case'.due = None
        BY <1>1, <2>1, <2>3, <2>4, <2>6, UndatedStays
      <3> QED
        BY <2>6, <3>1 DEF ConsumedPercent
    <2> QED
      BY <2>5, <2>6
  <1> QED
    BY <1>1, KeptAlways, PTL DEF Spec, PercentKeptAcrossHold

-----------------------------------------------------------------------------
(***************************************************************************)
(* What a final case is spared.                                            *)
(***************************************************************************)

\* The states the workflow offers no way out of.
LEMMA TerminalStatesAre == TerminalStates = {"Closed", "Rejected", "Duplicate"}
  <1> DEFINE Out(s) == \E m \in Transitions : m.from = s
             Open == {"Submitted", "Assigned", "Reopened", "InProgress",
                      "MoreInfoNeeded", "Resolved"}
  <1>1. /\ Move("Submitted", "Assign", "Assigned", "system") \in Transitions
        /\ Move("Assigned", "InProgress", "InProgress", "officer") \in Transitions
        /\ Move("Reopened", "InProgress", "InProgress", "officer") \in Transitions
        /\ Move("InProgress", "ReferOnward", "Assigned", "officer") \in Transitions
        /\ Move("MoreInfoNeeded", "SubmitterReply", "InProgress", "submitter") \in Transitions
        /\ Move("Resolved", "Reopen", "Reopened", "submitter") \in Transitions
    BY DEF Transitions
  <1>2. \A s \in Open : Out(s)
    BY <1>1 DEF Move
  <1>3. \A m \in Transitions : m.from \in Open
    BY DEF Transitions, Move, WorkStates
  <1>4. TerminalStates = {s \in States : ~Out(s)}
    BY DEF TerminalStates
  <1> HIDE DEF Out
  <1>5. ASSUME NEW s \in {"Closed", "Rejected", "Duplicate"} PROVE ~Out(s)
    BY <1>3 DEF Out
  <1> QED
    BY <1>2, <1>4, <1>5 DEF States

\* A case that arrives in a final state is armed for nothing: no configuration
\* may set a timer there (GrievanceSLAConfiguration.validate).
LEMMA ArriveFinal ==
  ASSUME NEW c, NEW g, NEW t \in Nat, Sound(c, g), NEW to \in TerminalStates
  PROVE  Arrive(c, to, t).nextEsc = None /\ Arrive(c, to, t).deadline = None
  <1> DEFINE moved == [c EXCEPT !.state = to]
             ruled == OnStatusChange(moved, c.state, to, t)
             timed == ArmStateTimer(ruled, to, t)
  <1>1. to \in {"Closed", "Rejected", "Duplicate"} /\ to \in States
    BY TerminalStatesAre DEF States
  <1>2. SlaCategory[to] = "Stopped" /\ to # "Assigned"
    BY <1>1 DEF SlaCategory
  <1>3. Sound(moved, g) /\ c.state \in States
    BY <1>1 DEF Sound, Case
  <1> HIDE DEF moved
  <1>4. Sound(ruled, IF Restarts(c.state, to) THEN 0 ELSE g)
    BY <1>1, <1>3, StatusSound
  <1>5. ruled = [ResumeClock(moved, t) EXCEPT !.nextEsc = None]
    BY <1>2 DEF OnStatusChange
  <1>6. ResumeClock(moved, t) \in Case
    BY <1>3, ResumeSound DEF Sound
  <1>7. ruled.nextEsc = None
    BY <1>5, <1>6 DEF Case
  <1> HIDE DEF ruled
  <1>8. ruled \in Case /\ timed \in Case /\ ruled.category \in Category
    <2>1. Sound(timed, IF Restarts(c.state, to) THEN 0 ELSE g)
      BY <1>1, <1>4, TimerSound
    <2> QED
      BY <1>4, <2>1 DEF Sound, Case
  <1>9. TimerHours[ruled.category][to] = 0
    <2>1. TimerExpiry[ruled.category][to] \in {"AutoClose", "Escalate"}
      BY <1>1, <1>8
    <2>2. TimerHours[ruled.category][to] \in Nat
      BY <1>1, <1>8
    <2>3. ~(TimerHours[ruled.category][to] > 0)
      BY <1>1, <1>2, <1>8, <2>1, TimerAssumption
    <2> QED
      BY <2>2, <2>3
  <1>10. timed.nextEsc = None /\ timed.deadline = None
    BY <1>7, <1>8, <1>9 DEF ArmStateTimer, Case
  <1> HIDE DEF timed
  <1>11. Arrive(c, to, t) = StampResolution(timed, to, t)
    BY DEF Arrive, timed, ruled, moved
  <1> QED
    BY <1>8, <1>10, <1>11 DEF StampResolution, Case

\* Where the database refuses writes over an old snapshot, a sweep that still
\* has its write holds the row as it is, and a final case is armed for nothing.
Current ==
  /\ escalating \in {None, Lost} \/ (escalating = case /\ EscalationDue(case))
  /\ expiring \in {None, Lost} \/ (expiring = case /\ TimerExpired(case))
  /\ case.state \in TerminalStates => case.nextEsc = None /\ case.deadline = None

\* A new case is not final and no sweep holds it.
LEMMA CurrentInit == Init => Current
  <1> SUFFICES ASSUME Init PROVE case.state \notin TerminalStates
    BY DEF Init, Current
  <1>1. case.state = "Submitted"
    BY DEF Init, Filed
  <1> QED
    BY <1>1, TerminalStatesAre

\* With that, no step writes to a final case.
LEMMA FinalStep ==
  ASSUME Current, [Next]_vars, case.state \in TerminalStates
  PROVE  case' = case
  <1>1. case.state \in {"Closed", "Rejected", "Duplicate"}
    BY TerminalStatesAre
  <1>2. ASSUME NEW m \in Transitions PROVE ~TakeAction(m)
    BY DEF TakeAction, TerminalStates
  <1>3. ASSUME NEW p \in Proposals PROVE ~RaiseDecidedRequest(p)
    BY DEF RaiseDecidedRequest, GuardTerminalState
  <1>4. ASSUME NEW r \in requests PROVE ~ApproveRequest(r)
    BY DEF ApproveRequest, GuardTerminalState
  <1>5. ~Route /\ ~SendReminder
    BY <1>1 DEF Route, SendReminder, SlaCategory
  <1>6. EscalateSelected \/ ExpireSelected => case' = case
    BY DEF Current, EscalateSelected, ExpireSelected, EscalationDue, TimerExpired
  <1>7. \/ case' = case
        \/ EscalateSelected \/ ExpireSelected \/ Route \/ SendReminder
        \/ \E m \in Transitions : TakeAction(m)
        \/ \E p \in Proposals : RaiseDecidedRequest(p)
        \/ \E r \in requests : ApproveRequest(r)
    BY DEF Next, Tick, RaiseRequest, RejectRequest, SelectBreached, SelectExpired, vars
  <1> QED
    BY <1>2, <1>3, <1>4, <1>5, <1>6, <1>7

\* A case becomes final by arriving in a final state.
LEMMA BecomesFinal ==
  ASSUME Kept, [Next]_vars, case.state \notin TerminalStates, case'.state \in TerminalStates
  PROVE  case'.nextEsc = None /\ case'.deadline = None
  <1>1. ~Untouched /\ ~HandedUp(case, case')
    BY DEF Untouched, HandedUp
  <1>2. ~Changed
    BY AppliedStanding DEF Changed, Kept, Standing, Books, Time, AsksModestly, SameStanding
  <1>3. PICK c \in Case, to \in States :
          /\ SameClock(case, c) /\ Sound(c, granted) /\ case' = Arrive(c, to, now)
    BY <1>1, <1>2, StepKinds DEF Arrived
  <1>4. Inside(c) /\ now \in Nat
    BY <1>3 DEF Kept, Standing, Books, Time, SameClock, Inside
  <1>5. case'.state = to
    BY <1>3, <1>4, ArriveInside
  <1> QED
    BY <1>3, <1>4, <1>5, ArriveFinal

\* Under snapshot isolation every step keeps the sweeps current.
LEMMA CurrentKept ==
  ASSUME SnapshotIsolation, Kept, Current, [Next]_vars
  PROVE  Current'
  <1>1. case'.state \in TerminalStates => case'.nextEsc = None /\ case'.deadline = None
    <2>1. CASE case.state \in TerminalStates
      BY <2>1, FinalStep DEF Current
    <2>2. CASE case.state \notin TerminalStates
      BY <2>2, BecomesFinal
    <2> QED
      BY <2>1, <2>2
  <1>2. ASSUME NEW sweep PROVE Outdated(sweep) \in {None, Lost}
    BY DEF Outdated
  <1>3. /\ escalating' \in {None, Lost} \/ (escalating' = case' /\ EscalationDue(case)')
        /\ expiring' \in {None, Lost} \/ (expiring' = case' /\ TimerExpired(case)')
    <2>1. ASSUME NEW c, Save(c) PROVE escalating' \in {None, Lost} /\ expiring' \in {None, Lost}
      BY <1>2, <2>1 DEF Save
    <2>2. CASE Tick
      <3>1. now \in Nat /\ now' = now + 1
        BY <2>2 DEF Tick, Kept, Standing, Books, Time
      <3>2. case \in Case
        BY DEF Kept, Standing, Books, Sound
      <3>3. case.nextEsc \in MaybeTime /\ case.deadline \in MaybeTime
        BY <3>2 DEF Case
      <3>4. /\ EscalationDue(case) => EscalationDue(case)'
            /\ TimerExpired(case) => TimerExpired(case)'
        BY <2>2, <3>1, <3>3 DEF Tick, EscalationDue, TimerExpired, MaybeTime
      <3> QED
        BY <2>2, <3>4 DEF Tick, Current
    <2>3. CASE Route
      BY <2>1, <2>3 DEF Route
    <2>4. ASSUME NEW m \in Transitions, TakeAction(m)
          PROVE  escalating' \in {None, Lost} /\ expiring' \in {None, Lost}
      BY <2>1, <2>4 DEF TakeAction
    <2>5. ASSUME NEW p \in Proposals, RaiseDecidedRequest(p)
          PROVE  escalating' \in {None, Lost} /\ expiring' \in {None, Lost}
      BY <2>1, <2>5 DEF RaiseDecidedRequest, Apply
    <2>6. ASSUME NEW r \in requests, ApproveRequest(r)
          PROVE  escalating' \in {None, Lost} /\ expiring' \in {None, Lost}
      BY <2>1, <2>6 DEF ApproveRequest, Apply
    <2>7. CASE SendReminder
      BY <2>1, <2>7 DEF SendReminder
    <2>8. CASE EscalateSelected
      <3>1. CASE escalating = Lost
        BY <2>8, <3>1 DEF EscalateSelected, Current, TimerExpired
      <3>2. CASE escalating # Lost
        BY <1>2, <2>8, <3>2 DEF EscalateSelected
      <3> QED
        BY <3>1, <3>2
    <2>9. CASE ExpireSelected
      <3>1. CASE expiring = Lost
        BY <2>9, <3>1 DEF ExpireSelected, Current, EscalationDue
      <3>2. CASE expiring # Lost
        BY <1>2, <2>9, <3>2 DEF ExpireSelected
      <3> QED
        BY <3>1, <3>2
    <2>10. CASE SelectBreached
      BY <2>10 DEF SelectBreached, Current, EscalationDue, TimerExpired
    <2>11. CASE SelectExpired
      BY <2>11 DEF SelectExpired, Current, EscalationDue, TimerExpired
    <2>12. ASSUME UNCHANGED <<now, case, escalating, expiring>>
           PROVE  /\ escalating' \in {None, Lost} \/ (escalating' = case' /\ EscalationDue(case)')
                  /\ expiring' \in {None, Lost} \/ (expiring' = case' /\ TimerExpired(case)')
      BY <2>12 DEF Current, EscalationDue, TimerExpired
    <2>13. ASSUME NEW p \in Proposals, RaiseRequest(p)
           PROVE  UNCHANGED <<now, case, escalating, expiring>>
      BY <2>13 DEF RaiseRequest
    <2>14. ASSUME NEW r \in requests, RejectRequest(r)
           PROVE  UNCHANGED <<now, case, escalating, expiring>>
      BY <2>14 DEF RejectRequest
    <2>15. UNCHANGED vars => UNCHANGED <<now, case, escalating, expiring>>
      BY DEF vars
    <2> QED
      BY <2>2, <2>3, <2>4, <2>5, <2>6, <2>7, <2>8, <2>9, <2>10, <2>11, <2>12, <2>13,
         <2>14, <2>15 DEF Next
  <1> QED
    BY <1>1, <1>3 DEF Current

\* Under snapshot isolation no sweep acts on a case that is not overdue as it
\* stands when the write lands, and the invariant it takes holds throughout.
THEOREM CurrentAlways ==
  ASSUME SnapshotIsolation
  PROVE  Spec => [](Kept /\ Current)
  BY KeptInit, KeptKept, CurrentInit, CurrentKept, PTL DEF Spec

\* A sweep acts only on a case that is overdue as it stands when the write
\* lands, whatever was saved since the sweep read it (escalate_breached,
\* expire_state_timers on the deployed database).
THEOREM SweepsActLive ==
  ASSUME SnapshotIsolation
  PROVE  Spec => SweepsActOnLiveRows
  <1>1. ASSUME Current, [Next]_vars
        PROVE  /\ escalating # None /\ escalating' = None /\ case' # case => EscalationDue(case)
               /\ expiring # None /\ expiring' = None /\ case' # case => TimerExpired(case)
    <2>1. Lost # None
      BY CaseAssumption
    <2>2. ASSUME escalating # None, escalating' = None, case' # case
          PROVE  EscalationDue(case)
      <3>1. ASSUME NEW c, Save(c) PROVE FALSE
        BY <2>1, <2>2, <3>1 DEF Save, Outdated
      <3>2. ~Route /\ ~SendReminder /\ ~Tick /\ ~SelectBreached /\ ~SelectExpired
        BY <2>2, <3>1 DEF Route, SendReminder, Tick, SelectBreached, SelectExpired
      <3>3. \A m \in Transitions : ~TakeAction(m)
        BY <3>1 DEF TakeAction
      <3>4. \A p \in Proposals : ~RaiseDecidedRequest(p) /\ ~RaiseRequest(p)
        BY <2>2, <3>1 DEF RaiseDecidedRequest, Apply, RaiseRequest
      <3>5. \A r \in requests : ~ApproveRequest(r) /\ ~RejectRequest(r)
        BY <2>2, <3>1 DEF ApproveRequest, Apply, RejectRequest
      <3>6. ~ExpireSelected
        BY <2>1, <2>2 DEF ExpireSelected, Outdated
      <3>7. EscalateSelected
        BY <1>1, <2>2, <3>2, <3>3, <3>4, <3>5, <3>6 DEF Next, vars
      <3> QED
        BY <1>1, <2>2, <3>7 DEF EscalateSelected, Current
    <2>3. ASSUME expiring # None, expiring' = None, case' # case
          PROVE  TimerExpired(case)
      <3>1. ASSUME NEW c, Save(c) PROVE FALSE
        BY <2>1, <2>3, <3>1 DEF Save, Outdated
      <3>2. ~Route /\ ~SendReminder /\ ~Tick /\ ~SelectBreached /\ ~SelectExpired
        BY <2>3, <3>1 DEF Route, SendReminder, Tick, SelectBreached, SelectExpired
      <3>3. \A m \in Transitions : ~TakeAction(m)
        BY <3>1 DEF TakeAction
      <3>4. \A p \in Proposals : ~RaiseDecidedRequest(p) /\ ~RaiseRequest(p)
        BY <2>3, <3>1 DEF RaiseDecidedRequest, Apply, RaiseRequest
      <3>5. \A r \in requests : ~ApproveRequest(r) /\ ~RejectRequest(r)
        BY <2>3, <3>1 DEF ApproveRequest, Apply, RejectRequest
      <3>6. ~EscalateSelected
        BY <2>1, <2>3 DEF EscalateSelected, Outdated
      <3>7. ExpireSelected
        BY <1>1, <2>3, <3>2, <3>3, <3>4, <3>5, <3>6 DEF Next, vars
      <3> QED
        BY <1>1, <2>3, <3>7 DEF ExpireSelected, Current
    <2> QED
      BY <2>2, <2>3
  <1> QED
    BY <1>1, CurrentAlways, PTL DEF Spec, SweepsActOnLiveRows

\* A Closed, Rejected or Duplicate case is never written again: no approval,
\* sweep or timer that began while it was open reaches it, for every
\* configuration the validation admits (guard_terminal_state, db_set).
THEOREM FinalIsFinal ==
  ASSUME SnapshotIsolation
  PROVE  Spec => TerminalIsFinal
  <1>1. ASSUME Current, [Next]_vars
        PROVE  case.state \in TerminalStates => case' = case
    BY <1>1, FinalStep
  <1> QED
    BY <1>1, CurrentAlways, PTL DEF Spec, TerminalIsFinal

\* Even where a sweep may write over an old snapshot, the outcome of a final
\* case, its deadline and its resolution date stay (apply_workflow reloads).
THEOREM OutcomeIsKept == Spec => FinalOutcomeKept
  <1>1. ASSUME Kept, [Next]_vars, case.state \in TerminalStates
        PROVE  /\ case'.state = case.state /\ case'.due = case.due
               /\ case'.resolvedAt = case.resolvedAt
    <2>1. case.state \in {"Closed", "Rejected", "Duplicate"}
      BY <1>1, TerminalStatesAre
    <2>2. case \in Case
      BY <1>1 DEF Kept, Standing, Books, Sound
    <2>3. ASSUME NEW m \in Transitions PROVE ~TakeAction(m)
      BY <1>1 DEF TakeAction, TerminalStates
    <2>4. ASSUME NEW p \in Proposals PROVE ~RaiseDecidedRequest(p)
      BY <1>1 DEF RaiseDecidedRequest, GuardTerminalState
    <2>5. ASSUME NEW r \in requests PROVE ~ApproveRequest(r)
      BY <1>1 DEF ApproveRequest, GuardTerminalState
    <2>6. ~Route /\ ~SendReminder
      BY <2>1 DEF Route, SendReminder, SlaCategory
    <2>7. \A c \in Case : \A seen :
            LET d == Escalate(c, seen, now)
            IN  d.state = c.state /\ d.due = c.due /\ d.resolvedAt = c.resolvedAt
      BY DEF Escalate, Case
    <2>8. case.state \notin AutoClosable
      <3>1. \A m \in Transitions : m.from # case.state
        BY <1>1 DEF TerminalStates
      <3> QED
        BY <3>1 DEF AutoClosable
    <2>9. CASE EscalateSelected
      BY <2>2, <2>7, <2>9 DEF EscalateSelected
    <2>10. CASE ExpireSelected
      <3> DEFINE cleared == [case EXCEPT !.deadline = None]
      <3>1. /\ cleared \in Case /\ cleared.state = case.state
            /\ cleared.due = case.due /\ cleared.resolvedAt = case.resolvedAt
        BY <2>2 DEF Case, MaybeTime
      <3>2. TimerOutcome(case, expiring, now) \in {cleared, Escalate(cleared, expiring, now)}
        BY <2>8 DEF TimerOutcome
      <3> HIDE DEF cleared
      <3>3. case' \in {case, cleared, Escalate(cleared, expiring, now)}
        BY <2>10, <3>2 DEF ExpireSelected
      <3> QED
        BY <2>7, <3>1, <3>3
    <2>11. \/ case' = case
           \/ EscalateSelected \/ ExpireSelected \/ Route \/ SendReminder
           \/ \E m \in Transitions : TakeAction(m)
           \/ \E p \in Proposals : RaiseDecidedRequest(p)
           \/ \E r \in requests : ApproveRequest(r)
      BY <1>1 DEF Next, Tick, RaiseRequest, RejectRequest, SelectBreached, SelectExpired, vars
    <2> QED
      BY <2>3, <2>4, <2>5, <2>6, <2>9, <2>10, <2>11
  <1> QED
    BY <1>1, KeptAlways, PTL DEF Spec, FinalOutcomeKept

-----------------------------------------------------------------------------
(***************************************************************************)
(* The first escalation.  Only a sweep writes its day, and it judges by    *)
(* the row it read; where that is the row as committed, the day stays.     *)
(***************************************************************************)
SameFirst(c, d) == "escalatedAt" \in DOMAIN d /\ d.escalatedAt = c.escalatedAt

LEMMA ClockKeepsFirst ==
  ASSUME NEW c, "escalatedAt" \in DOMAIN c, NEW t
  PROVE  /\ SameFirst(c, ArmEscalation(c)) /\ SameFirst(c, StartClock(c))
         /\ SameFirst(c, ResumeClock(c, t)) /\ SameFirst(c, ResetClock(c, t))
  <1>1. ASSUME NEW d, "escalatedAt" \in DOMAIN d PROVE SameFirst(d, ArmEscalation(d))
    BY <1>1 DEF SameFirst, ArmEscalation
  <1>2. SameFirst(c, StartClock(c))
    <2> DEFINE started == IF c.start # None THEN c.start ELSE Created
               d == [c EXCEPT !.start = started, !.due = started + SlaWindow[c.category]]
    <2>1. SameFirst(c, d)
      BY DEF SameFirst
    <2>2. StartClock(c) \in {c, ArmEscalation(d)}
      BY DEF StartClock
    <2> HIDE DEF d
    <2> QED
      BY <1>1, <2>1, <2>2 DEF SameFirst
  <1>3. SameFirst(c, ResumeClock(c, t))
    BY DEF SameFirst, ResumeClock
  <1>4. SameFirst(c, ResetClock(c, t))
    <2> DEFINE window == SlaWindow[c.category]
               d == [c EXCEPT !.start = t, !.held = 0,
                              !.rem50 = FALSE, !.rem80 = FALSE, !.escalated = FALSE,
                              !.due = IF window > 0 THEN t + window ELSE None]
    <2>1. SameFirst(c, d)
      BY DEF SameFirst
    <2>2. ResetClock(c, t) = ArmEscalation(d)
      BY DEF ResetClock
    <2> HIDE DEF d
    <2> QED
      BY <1>1, <2>1, <2>2 DEF SameFirst
  <1> QED
    BY <1>1, <1>2, <1>3, <1>4

\* Arriving in a state leaves the day alone, whatever it does to the clock.
LEMMA ArriveKeepsFirst ==
  ASSUME NEW c, "escalatedAt" \in DOMAIN c, NEW to, NEW t
  PROVE  SameFirst(c, Arrive(c, to, t))
  <1> DEFINE moved == [c EXCEPT !.state = to]
             started == IF to = "Assigned" THEN StartClock(moved) ELSE moved
             resumed == ResumeClock(started, t)
             ruled == OnStatusChange(moved, c.state, to, t)
             timed == ArmStateTimer(ruled, to, t)
  <1>1. SameFirst(c, moved)
    BY DEF SameFirst
  <1> HIDE DEF moved
  <1>2. SameFirst(c, started)
    BY <1>1, ClockKeepsFirst DEF SameFirst
  <1> HIDE DEF started
  <1>3. SameFirst(c, resumed)
    BY <1>2, ClockKeepsFirst DEF SameFirst
  <1> HIDE DEF resumed
  <1>4. ruled \in {[started EXCEPT !.holdSince = t], started, [resumed EXCEPT !.nextEsc = None],
                   ResetClock(resumed, t), resumed}
    BY DEF OnStatusChange, ruled, started, resumed
  <1>5. SameFirst(c, [started EXCEPT !.holdSince = t])
        /\ SameFirst(c, [resumed EXCEPT !.nextEsc = None])
    BY <1>2, <1>3 DEF SameFirst
  <1>6. SameFirst(c, ResetClock(resumed, t))
    BY <1>3, ClockKeepsFirst DEF SameFirst
  <1>7. SameFirst(c, ruled)
    BY <1>2, <1>3, <1>4, <1>5, <1>6
  <1> HIDE DEF ruled
  <1>8. SameFirst(c, timed)
    BY <1>7 DEF SameFirst, ArmStateTimer
  <1> HIDE DEF timed
  <1>9. Arrive(c, to, t) = StampResolution(timed, to, t)
    BY DEF Arrive, timed, ruled, moved
  <1> QED
    BY <1>8, <1>9 DEF SameFirst, StampResolution

LEMMA AppliedKeepsFirst ==
  ASSUME NEW c, "escalatedAt" \in DOMAIN c, NEW p, NEW t
  PROVE  SameFirst(c, Applied(c, p, t))
  <1> DEFINE written == WithValues(c, p)
             reopened == [written EXCEPT !.rem50 = FALSE, !.rem80 = FALSE]
  <1>1. SameFirst(c, written)
    BY DEF SameFirst, WithValues
  <1> HIDE DEF written
  <1>2. SameFirst(c, reopened)
    BY <1>1 DEF SameFirst
  <1>3. DeferralReaction(written, c.due) \in
          {[reopened EXCEPT !.nextEsc = @ + (written.due - c.due)], ArmEscalation(reopened)}
    BY DEF DeferralReaction
  <1> HIDE DEF reopened
  <1>4. SameFirst(c, DeferralReaction(written, c.due))
    BY <1>2, <1>3, ClockKeepsFirst DEF SameFirst
  <1>5. SameFirst(c, ResetClock(written, t))
    BY <1>1, ClockKeepsFirst DEF SameFirst
  <1> QED
    BY <1>1, <1>4, <1>5 DEF Applied, written

\* A case that has escalated keeps the day when a row that says so is escalated.
LEMMA EscalateKeepsFirst ==
  ASSUME NEW c, "escalatedAt" \in DOMAIN c, NEW seen, seen.escalatedAt # None, NEW t
  PROVE  SameFirst(c, Escalate(c, seen, t))
  BY DEF SameFirst, Escalate

\* The day a case first escalated is never moved, though the escalation and the
\* timer sweep may both hold it at once (_first_escalation, on the deployed
\* database).
THEOREM FirstDayStays ==
  ASSUME SnapshotIsolation
  PROVE  Spec => FirstEscalationKept
  <1>1. ASSUME Kept, Current, [Next]_vars, case.escalatedAt # None
        PROVE  case'.escalatedAt = case.escalatedAt
    <2>0. "escalatedAt" \in DOMAIN case
      BY <1>1 DEF Kept, Standing, Books, Sound, Case
    <2>1. ASSUME SameFirst(case, case') PROVE case'.escalatedAt = case.escalatedAt
      BY <2>1 DEF SameFirst
    <2>2. CASE Route
      <3>1. PICK o \in Officers : case' = Arrive([case EXCEPT !.officer = o], "Assigned", now)
        BY <2>2 DEF Route, Save
      <3> DEFINE owned == [case EXCEPT !.officer = o]
      <3>2. SameFirst(case, owned)
        BY <2>0 DEF SameFirst
      <3> HIDE DEF owned
      <3>3. case' = Arrive(owned, "Assigned", now)
        BY <3>1 DEF owned
      <3> QED
        BY <3>2, <3>3, ArriveKeepsFirst DEF SameFirst
    <2>3. ASSUME NEW m \in Transitions, TakeAction(m) PROVE SameFirst(case, case')
      BY <2>0, <2>3, ArriveKeepsFirst DEF TakeAction, Save
    <2>4. ASSUME NEW p \in Proposals, RaiseDecidedRequest(p) PROVE SameFirst(case, case')
      BY <2>0, <2>4, AppliedKeepsFirst DEF RaiseDecidedRequest, Apply, Save
    <2>5. ASSUME NEW r \in requests, ApproveRequest(r) PROVE SameFirst(case, case')
      BY <2>0, <2>5, AppliedKeepsFirst DEF ApproveRequest, Apply, Save
    <2>6. CASE SendReminder
      BY <2>0, <2>6 DEF SendReminder, Save
    <2>7. CASE EscalateSelected
      <3>1. escalating = Lost \/ escalating.escalatedAt # None
        BY <1>1, <2>7 DEF Current, EscalateSelected
      <3>2. case' = case \/ (escalating # Lost /\ case' = Escalate(case, escalating, now))
        BY <2>7 DEF EscalateSelected
      <3> QED
        BY <2>0, <2>1, <3>1, <3>2, EscalateKeepsFirst
    <2>8. CASE ExpireSelected
      <3> DEFINE cleared == [case EXCEPT !.deadline = None]
      <3>1. expiring = Lost \/ expiring.escalatedAt # None
        BY <1>1, <2>8 DEF Current, ExpireSelected
      <3>2. case' = case \/ (expiring # Lost /\ case' = TimerOutcome(case, expiring, now))
        BY <2>8 DEF ExpireSelected
      <3>3. TimerOutcome(case, expiring, now) \in
              {cleared, Escalate(cleared, expiring, now), Arrive(cleared, "Closed", now)}
        BY DEF TimerOutcome
      <3>4. SameFirst(case, cleared)
        BY <2>0 DEF SameFirst
      <3> HIDE DEF cleared
      <3>5. SameFirst(cleared, Arrive(cleared, "Closed", now))
        BY <3>4, ArriveKeepsFirst DEF SameFirst
      <3>6. expiring # Lost => SameFirst(cleared, Escalate(cleared, expiring, now))
        BY <3>1, <3>4, EscalateKeepsFirst DEF SameFirst
      <3> QED
        BY <3>2, <3>3, <3>4, <3>5, <3>6 DEF SameFirst
    <2>9. \/ case' = case
          \/ EscalateSelected \/ ExpireSelected \/ Route \/ SendReminder
          \/ \E m \in Transitions : TakeAction(m)
          \/ \E p \in Proposals : RaiseDecidedRequest(p)
          \/ \E r \in requests : ApproveRequest(r)
      BY <1>1 DEF Next, Tick, RaiseRequest, RejectRequest, SelectBreached, SelectExpired, vars
    <2> QED
      BY <2>1, <2>2, <2>3, <2>4, <2>5, <2>6, <2>7, <2>8, <2>9
  <1> QED
    BY <1>1, CurrentAlways, PTL DEF Spec, FirstEscalationKept
==============================================================================
