-------------------------------- MODULE Charts --------------------------------
(***************************************************************************)
(* The charts over time (services/dashboard.py), which read two rollups:   *)
(* what happened on each day, and how the cases stood on each day.  No     *)
(* state of its own; filters and scopes only leave out rows (ChartScope),  *)
(* shares and rounding are left out.                                       *)
(***************************************************************************)
EXTENDS RollupCounts

CONSTANTS PeriodDays        \* the days of a period: a week, or a month

ASSUME PeriodAssumption == PeriodDays \in Nat \ {0}

\* _snapshot: the rows of a day, by status.
Stood(day, status) == SumFunction([u \in Holders \cup {Anyone} |-> kept[day][u][status]])
StoodInAll(day) == SumFunction([status \in Standings |-> Stood(day, status)])

\* _snapshot_on_or_before: the last day with rows; days without a refresh, or
\* before the first case, have none.
SnapshotOn(day) ==
  Max({0} \cup {d \in 0 .. day :
         \E u \in DOMAIN kept[d], status \in Standings : kept[d][u][status] > 0})

\* _daily, _total: what the days of a set add up to.
HappenedOn(metric, day) == SumFunction([u \in Holders |-> dayRows[day][u][metric]])
Happened(metric, days) == SumFunction([day \in days |-> HappenedOn(metric, day)])

\* _periods, _bucketed
Periods == 0 .. (today \div PeriodDays)
DaysOf(period) == {d \in 0 .. today : d \div PeriodDays = period}
LastOf(period) == Max(DaysOf(period))
Later(period) == {p \in Periods : p > period}

\* Mutant: the walk takes back the resolutions only.
Growth_Resolved(period) ==
  Happened("submitted", DaysOf(period)) - Happened("resolved", DaysOf(period))

Growth(period) ==
  Happened("submitted", DaysOf(period)) - Happened("resolved", DaysOf(period))
    - Happened("rejected", DaysOf(period))

\* build_net_backlog_trend: from the cases open now, backwards.
Backlog(period) ==
  Max({0, Stood(SnapshotOn(today), "Open") - SumFunction([p \in Later(period) |-> Growth(p)])})

\* build_kpis: the total at the end of the period before.
TotalBefore(period) ==
  StoodInAll(SnapshotOn(today))
    - Happened("submitted", {d \in 0 .. today : d \div PeriodDays >= period})

-----------------------------------------------------------------------------
\* What the charts work out for the end of a period is what the snapshot of its
\* last day recorded: the total, and, when no end was taken back and none came
\* by a ruling on a duplicate, the backlog and the resolved cases
\* (build_net_backlog_trend, build_kpis, _performance).
BacklogMatchesHistory ==
  current /\ ~owing =>
    \A period \in Periods :
      LET last == LastOf(period) IN
      last \in whole =>
        /\ period < today \div PeriodDays => TotalBefore(period + 1) = StoodInAll(last)
        /\ ~undone =>
             /\ Backlog(period) = Stood(last, "Open")
             /\ Happened("resolved", 0 .. last) = Stood(last, "Resolved")
================================================================================
