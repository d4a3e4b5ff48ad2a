------------------------------ MODULE ChartScope ------------------------------
(***************************************************************************)
(* Whose cases the dashboards count for a caller (services/dashboard.py:   *)
(* caller_scope, _apply_scope, _area_counts).  The rollups know of a case  *)
(* its region, woreda, category, department and officer, so what permits a *)
(* reader (CaseAuthority) is said again in their words.                    *)
(*                                                                         *)
(* No state of its own: the desks, roles and the case are CaseAuthority's, *)
(* and the rollups are those of a refresh made now.  A clause is a record  *)
(* of limits; Anything is no limit.                                        *)
(***************************************************************************)
EXTENDS CaseAuthority

CONSTANTS LevelOf,          \* area |-> "country", "region", "zone", "woreda" or "kebele"
          Anything

\* Areas are nested sets.  A case has one region at most: _grievances joins the
\* region around its area and would count it once for each.
ASSUME AreasAssumption ==
  /\ \A areas \in SUBSET Areas : Anything # areas
  /\ \A a, b \in Areas : Inside(a, b) => AreaBounds[a].rgt <= AreaBounds[b].rgt
  /\ \A a, b \in Areas : LevelOf[a] = "region" /\ LevelOf[b] = "region" /\ Inside(a, b) => a = b

\* _grievances, _woreda: the keys of the areas of a level around a case's own.
KeysAround(level, area) ==
  {r \in Areas : area # Nothing /\ LevelOf[r] = level /\ Inside(area, r)}

\* rollup_keys_within: the areas of a level that begin inside an area.
KeysWithin(level, area) == {r \in Areas : LevelOf[r] = level /\ Inside(r, area)}

\* The level of the counts an area reads.
LevelRead(area) ==
  CASE area = Nothing \/ (area # Nothing /\ LevelOf[area] = "country") -> "federal"
    [] KeysWithin("region", area) # {} -> "region"
    [] OTHER -> "woreda"

\* A desk's area as regions, or as woredas when it holds no region.
Regions(area) ==
  IF area = Nothing \/ KeysWithin("region", area) = {} THEN Anything ELSE KeysWithin("region", area)
Woredas(area) ==
  IF area = Nothing \/ KeysWithin("region", area) # {} THEN Anything ELSE KeysWithin("woreda", area)

DeskClause(s) ==
  [regions |-> Regions(Row(s).area), woredas |-> Woredas(Row(s).area),
   category |-> Scope[s[1]].category, department |-> Scope[s[1]].department,
   teamOf |-> Nothing, level |-> LevelRead(Row(s).area)]

Narrower == <<"woreda", "region", "federal">>
Widest(levels) ==
  CHOOSE level \in levels \cup {"woreda"} :
    \A other \in levels :
      \E i, j \in DOMAIN Narrower : Narrower[i] = level /\ Narrower[j] = other /\ i >= j

\* _placement_level
PlacementLevel(u) == Widest({LevelRead(Row(s).area) : s \in ScopesOf(u)})

TeamClause(u) ==
  [regions |-> Anything, woredas |-> Anything, category |-> Nothing, department |-> Nothing,
   teamOf |-> u, level |-> PlacementLevel(u)]

\* Mutant: an officer of any rung is counted the whole desk.
DesksCounted_AnyRung(u) == ScopesOf(u)

\* A reviewer reads every desk of theirs; an officer only those they head.
DesksCounted(u) == IF HasRole(u, "Reviewer") THEN ScopesOf(u) ELSE HeadScopes(u)

\* caller_scope, for whoever is not an administrator.
CallerScope(u) ==
  {DeskClause(s) : s \in {t \in DesksCounted(u) : Scoped(t) /\ Woredas(Row(t).area) # {}}}
   \cup IF HasRole(u, "Officer") THEN {TeamClause(u)} ELSE {}

\* _grievances joins a case to its area: the rollups hold none without one.
InRollup(c) == c.area # Nothing

\* _apply_scope: the columns of a case's row in the rollups against the clause.
ClauseCounts(clause, c) ==
  /\ clause.regions # Anything => KeysAround("region", c.area) \cap clause.regions # {}
  /\ clause.woredas # Anything => KeysAround("woreda", c.area) \cap clause.woredas # {}
  /\ clause.category \in {Nothing, c.category}
  /\ clause.department \in {Nothing, c.department}
  /\ clause.teamOf # Nothing => c.officer \in Team(clause.teamOf) \ {Nothing}

\* What the chart of areas counts; the other charts have no woreda column and
\* drop the clauses of woredas (get_chart), so they count no more.
Charted(u, c) ==
  InRollup(c) /\ (u = Admin \/ \E clause \in CallerScope(u) : ClauseCounts(clause, c))

\* _visible_levels
VisibleLevels(u) ==
  LET levels == {clause.level : clause \in CallerScope(u)}
      widest == CHOOSE i \in DOMAIN Narrower : Narrower[i] = Widest(levels)
  IN  IF levels = {} THEN {} ELSE {Narrower[i] : i \in 1 .. widest}

-----------------------------------------------------------------------------
\* What the chart of areas may leave out: a case from the IVR without an area,
\* even an administrator's; a case waiting on a ruling, the cases of a reviewer
\* placed nowhere, a case filed above the woredas of a desk that holds no region,
\* and one filed under no region.
LeftOut(u, c) ==
  \/ ~InRollup(c)
  \/ AwaitsRulingOf(u)
  \/ HasRole(u, "Reviewer") /\ SeatsOf(u) = {}
  \/ \E s \in ScopesOf(u) :
       /\ InClause(s, c)
       /\ \/ /\ Woredas(Row(s).area) # Anything
             /\ KeysAround("woreda", c.area) \cap Woredas(Row(s).area) = {}
          \/ Regions(Row(s).area) # Anything /\ KeysAround("region", c.area) = {}

\* An officer's or reviewer's dashboards count no case their list would not
\* show; the chart of areas counts every case the list shows, but for the kinds
\* named; and no row of a level wider than a place of theirs is shown
\* (caller_scope: "less, never more"; _visible_levels).
ChartsMirrorList ==
  Filed => \A u \in People :
    /\ Charted(u, held) => Listed(u, held)
    /\ Listed(u, held) => Charted(u, held) \/ LeftOut(u, held)
    /\ u # Admin => \A level \in VisibleLevels(u) \ {"woreda"} :
         \E s \in ScopesOf(u) : LevelRead(Row(s).area) \in {level, "federal"}
================================================================================
