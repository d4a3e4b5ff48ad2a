----------------------------- MODULE RollupCounts -----------------------------
(***************************************************************************)
(* What a refresh of the dashboards counts (dashboard_rollup.py: refresh,  *)
(* _incremental_window, _rebuild_daily, _rebuild_snapshot): events per day *)
(* and assignee, and how the cases stood each day.  The protocol that      *)
(* decides when a refresh runs is DashboardRollup.                         *)
(*                                                                         *)
(*   today      the day                                                    *)
(*   counted    what the counts read of each case that lies in an area:    *)
(*              the day it was filed, its holder, the days of its events   *)
(*   dayRows    Grievance Stat Daily: per day and holder, the counts       *)
(*   kept       Grievance Stat Snapshot: per day and holder, the statuses  *)
(*   current    refreshed, and nothing happened since                      *)
(*   lastPass   the day of the last refresh                                *)
(*   owing      an incremental refresh left something to the nightly one   *)
(*   disturbed  days of which a reopening or a move took a resolution,     *)
(*              since the last full rebuild                                *)
(*   whole      days whose snapshot saw everything that happened on them   *)
(*   undone     a case was reopened, or closed as a duplicate: ends no day *)
(*              counts, or no longer                                       *)
(*   events     things that happened so far (bound)                        *)
(***************************************************************************)
EXTENDS Integers, FiniteSets, FiniteSetsExt

CONSTANTS
  CountedCases, Holders,
  Anyone,              \* the holder of the rows of a day that is over
  IncrementalDays,     \* INCREMENTAL_DAYS
  BackfillDaysMax,     \* BACKFILL_DAYS_MAX
  LastDay, MaxEvents   \* bounds: days, and things that happen to cases

ASSUME WindowAssumption ==
  IncrementalDays \in Nat \ {0} /\ BackfillDaysMax \in Nat /\ LastDay \in Nat /\ MaxEvents \in Nat

ASSUME CountedAssumption == IsFiniteSet(CountedCases) /\ IsFiniteSet(Holders)

VARIABLES today, counted, dayRows, kept, current, lastPass, owing, disturbed, whole, undone,
          events

countsVars ==
  <<today, counted, dayRows, kept, current, lastPass, owing, disturbed, whole, undone, events>>

Never == -1
StatDays == 0..LastDay
DayOrNever == StatDays \cup {Never}
Standings == {"Open", "Resolved", "Rejected", "Duplicate"}
Metrics == {"submitted", "resolved", "rejected", "escalated", "informed"}

NotCounted(u) ==
  [filed |-> Never, holder |-> u, status |-> "Open", ended |-> Never,
   escalated |-> Never, answered |-> Never, moved |-> Never]

CountsTypeOK ==
  /\ today \in StatDays /\ lastPass \in StatDays
  /\ events \in 0..MaxEvents
  /\ current \in BOOLEAN /\ owing \in BOOLEAN /\ disturbed \subseteq StatDays
  /\ whole \subseteq StatDays /\ undone \in BOOLEAN
  /\ counted \in [CountedCases ->
       [filed : DayOrNever, holder : Holders, status : Standings,
        ended : DayOrNever, escalated : DayOrNever, answered : DayOrNever, moved : DayOrNever]]
  /\ dayRows \in [StatDays -> [Holders -> [Metrics -> 0..Cardinality(CountedCases)]]]
  /\ kept \in [StatDays -> [Holders \cup {Anyone} -> [Standings -> 0..Cardinality(CountedCases)]]]

-----------------------------------------------------------------------------
(***************************************************************************)
(* _daily_queries: what the case adds to a metric of a day.  Escalations   *)
(* and answers are dated by filing, ends by resolved_at or modified.       *)
(***************************************************************************)
DatedBy(metric, c) ==
  CASE metric = "submitted" -> c.filed
    [] metric = "escalated" -> IF c.escalated # Never THEN c.filed ELSE Never
    [] metric = "informed"  -> IF c.answered # Never THEN c.filed ELSE Never
    [] metric = "resolved"  -> IF c.status = "Resolved" THEN c.ended ELSE Never
    [] metric = "rejected"  -> IF c.status = "Rejected" THEN c.ended ELSE Never

DayCounts(d) ==
  [u \in Holders |-> [metric \in Metrics |->
     Cardinality({c \in CountedCases :
                    counted[c].holder = u /\ DatedBy(metric, counted[c]) = d})]]

\* _snapshot_query: the cases as they stand, by holder.
StandNow ==
  [u \in Holders \cup {Anyone} |-> [status \in Standings |->
     Cardinality({c \in CountedCases :
                    /\ counted[c].filed # Never /\ counted[c].holder = u
                    /\ counted[c].status = status})]]

\* _compact_history: the rows of a day that is over, without the holder.
Compacted(rows) ==
  [u \in Holders \cup {Anyone} |-> [status \in Standings |->
     IF u = Anyone THEN SumFunction([v \in DOMAIN rows |-> rows[v][status]]) ELSE 0]]

CountsInit ==
  /\ today = 0 /\ lastPass = 0
  /\ counted \in {[c \in CountedCases |-> NotCounted(u)] : u \in Holders}
  /\ dayRows = [d \in StatDays |-> DayCounts(d)]
  /\ kept = [d \in StatDays |-> StandNow]
  /\ current = FALSE /\ owing = FALSE /\ disturbed = {} /\ events = 0
  /\ whole = {} /\ undone = FALSE

-----------------------------------------------------------------------------
(***************************************************************************)
(* What happens to a case, and the day it leaves behind.                   *)
(***************************************************************************)
Change(c, row) ==
  /\ counted' = [counted EXCEPT ![c] = row]
  /\ current' = FALSE
  /\ events < MaxEvents /\ events' = events + 1
  /\ whole' = whole \ {today}
  /\ undone' = (undone \/ (counted[c].ended # row.ended /\ row.status \in {"Open", "Duplicate"}))
  /\ UNCHANGED <<today, dayRows, kept, lastPass, owing>>

FileCounted(c) ==
  /\ counted[c].filed = Never
  /\ Change(c, [counted[c] EXCEPT !.filed = today])
  /\ UNCHANGED disturbed

Counting(c) == counted[c].filed # Never /\ counted[c].status = "Open"

ResolvedOn(c) == IF counted[c].status = "Resolved" THEN {counted[c].ended} ELSE {}

\* Whoever moves the case leaves a row _reassigned reads: an entry on the
\* timeline, a move to Assigned in the history, a Version of the form.  A
\* resolved case may still be escalated or moved by a request.
Handed(c, u, row) ==
  /\ counted[c].filed # Never /\ counted[c].status \in {"Open", "Resolved"}
  /\ Change(c, [row EXCEPT !.holder = u, !.moved = today])
  /\ disturbed' = disturbed \cup (IF u = counted[c].holder THEN {} ELSE ResolvedOn(c))

\* The first escalation is kept; the case may stay where it is.
EscalateCounted(c, u) ==
  Handed(c, u, [counted[c] EXCEPT !.escalated = IF @ = Never THEN today ELSE @])

MoveCounted(c, u) == u # counted[c].holder /\ Handed(c, u, counted[c])

\* A public entry by an officer; only the first is ever looked for.
AnswerCounted(c) ==
  /\ Counting(c)
  /\ Change(c, [counted[c] EXCEPT !.answered = IF @ = Never THEN today ELSE @])
  /\ UNCHANGED disturbed

EndCounted(c, status) ==
  /\ Counting(c)
  /\ Change(c, [counted[c] EXCEPT !.status = status, !.ended = today])
  /\ UNCHANGED disturbed

\* stamp_resolution: a reopening clears resolved_at.
ReopenCounted(c) ==
  /\ counted[c].status = "Resolved"
  /\ Change(c, [counted[c] EXCEPT !.status = "Open", !.ended = Never])
  /\ disturbed' = disturbed \cup ResolvedOn(c)

-----------------------------------------------------------------------------
(***************************************************************************)
(* The refresh.                                                            *)
(***************************************************************************)

\* Mutant: one day less than INCREMENTAL_DAYS.
WindowStart_DayShort(day) == day - (IncrementalDays - 2)

WindowStart(day) == day - (IncrementalDays - 1)

\* Older filing days whose case was first escalated, first answered or moved
\* in the window.
TouchedDays(start) ==
  {counted[c].filed : c \in {k \in CountedCases :
     /\ counted[k].filed # Never /\ counted[k].filed < start
     /\ \E day \in {counted[k].escalated, counted[k].answered, counted[k].moved} :
          day # Never /\ day >= start}}

Backfilled(start) ==
  {d \in TouchedDays(start) :
     Cardinality({e \in TouchedDays(start) : e > d}) < BackfillDaysMax}

RebuiltDays(full) ==
  IF full THEN StatDays
  ELSE {d \in StatDays : d >= WindowStart(today)} \cup Backfilled(WindowStart(today))

\* An incremental refresh reaches back to what happened on the day of the pass
\* before; one that comes too late, or cannot take all the older days, owes.
FallsShort ==
  lastPass < today - (IncrementalDays - 1)
    \/ Backfilled(WindowStart(today)) # TouchedDays(WindowStart(today))

RefreshCounts(full) ==
  /\ dayRows' = [d \in StatDays |-> IF d \in RebuiltDays(full) THEN DayCounts(d) ELSE dayRows[d]]
  /\ kept' = [d \in StatDays |-> CASE d = today -> StandNow
                                  [] d < today -> Compacted(kept[d])
                                  [] OTHER -> kept[d]]
  /\ current' = TRUE /\ whole' = whole \cup {today}
  /\ lastPass' = today
  /\ owing' = (~full /\ (owing \/ FallsShort))
  /\ disturbed' = IF full THEN {} ELSE disturbed
  /\ UNCHANGED <<today, counted, undone, events>>

NextDay == today < LastDay /\ today' = today + 1
             /\ UNCHANGED <<counted, dayRows, kept, current, lastPass, owing, disturbed, whole,
                            undone, events>>

CountsNext ==
  \/ \E c \in CountedCases :
       \/ FileCounted(c) \/ AnswerCounted(c) \/ ReopenCounted(c)
       \/ \E status \in Standings \ {"Open"} : EndCounted(c, status)
       \/ \E u \in Holders : EscalateCounted(c, u) \/ MoveCounted(c, u)
  \/ \E full \in BOOLEAN : RefreshCounts(full)
  \/ NextDay

CountsSpec == CountsInit /\ [][CountsNext]_countsVars

-----------------------------------------------------------------------------
\* A refresh of the last few days and the older ones touched leaves what a full
\* rebuild would: every count of every day under the holder of now, but for
\* the resolutions a reopening or a late move took from a day (refresh,
\* _incremental_window, _reassigned).
IncrementalIsEnough ==
  current /\ ~owing =>
    \A d \in StatDays, u \in Holders, metric \in Metrics :
      (d \in disturbed /\ metric = "resolved") \/ dayRows[d][u][metric] = DayCounts(d)[u][metric]
==============================================================================
