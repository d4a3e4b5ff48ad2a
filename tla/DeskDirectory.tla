---------------------------- MODULE DeskDirectory ----------------------------
(***************************************************************************)
(* The desks (Grievance RBAC Assignment), who sits on them, and the        *)
(* questions the system asks of them: who covers a case, who stands above  *)
(* an officer, who reads what, which desk and which officer take a case.   *)
(*                                                                         *)
(*   seat      desk |-> officer |-> the officer's row on it, or NoSeat     *)
(*   serving   the desks that are active; opened, the desks that exist     *)
(*   recency   opened desk |-> its place in the order last modified first  *)
(*                                                                         *)
(* A desk serves a department and a category, Nothing standing for every   *)
(* one.  Desks narrowed to a type or a provider, and dates of validity,    *)
(* are left out: both only drop rows.  Where the database may return any   *)
(* of several rows an operator gives the set of possible answers.          *)
(***************************************************************************)
EXTENDS Naturals, Sequences, FiniteSets, SequencesExt

CONSTANTS
  Officers,    \* the logins that may be seated
  Desks,       \* the desks that exist or may be opened, in order of creation
  Scope,       \* desk |-> [department, category]
  AreaBounds,  \* area |-> [lft, rgt], the nested sets of the area tree
  Unrouted,    \* UNROUTED_DEPARTMENT
  Nothing      \* an empty field, and nobody

ASSUME DeskAssumption == Nothing \notin Officers

\* Desks are created one after another, and an area encloses those below it.
ASSUME DirectoryAssumption ==
  /\ Desks \in Seq(Range(Desks)) /\ IsInjective(Desks)
  /\ Nothing \notin Range(Desks) \cup {"L1", "L2", "L3", "Reviewer"}
  /\ \A area \in DOMAIN AreaBounds :
       /\ AreaBounds[area].lft \in Nat /\ AreaBounds[area].rgt \in Nat
       /\ AreaBounds[area].lft <= AreaBounds[area].rgt

VARIABLES seat, serving, opened, recency

directoryVars == <<seat, serving, opened, recency>>

Areas == DOMAIN AreaBounds
DeskSet == Range(Desks)
Chain == <<"L1", "L2", "L3">>
Levels == Range(Chain) \cup {"Reviewer"}
Top == Chain[Len(Chain)]

\* Desks are numbered as they are created.
Created(d) == CHOOSE i \in DOMAIN Desks : Desks[i] = d

NoSeat == [level |-> Nothing]

SeatRow ==
  [level : Levels, area : Areas \cup {Nothing}, reportsTo : Officers \cup {Nothing},
   active : BOOLEAN, leave : BOOLEAN, primary : BOOLEAN]

SeatedOn(d) == {u \in Officers : seat[d][u] # NoSeat}

DirectoryTypeOK ==
  /\ seat \in [DeskSet -> [Officers -> SeatRow \cup {NoSeat}]]
  /\ serving \subseteq opened /\ opened \subseteq DeskSet
  /\ \A d \in DeskSet : d \in opened \/ SeatedOn(d) = {}
  /\ recency \in [opened -> Nat] /\ IsInjective(recency)

-----------------------------------------------------------------------------
(***************************************************************************)
(* Reading rows: query_active_officer_assignments.                         *)
(***************************************************************************)
SeatsOf(u) == {d \in DeskSet : seat[d][u] # NoSeat}

Ranks ==
  [level \in Levels \cup {Nothing} |->
     IF level \in Range(Chain) THEN CHOOSE i \in DOMAIN Chain : Chain[i] = level ELSE 0]

Rank(level) == Ranks[level]

LiveSeat(d, u) == d \in serving /\ u \in Officers /\ seat[d][u] # NoSeat /\ seat[d][u].active

WorkingSeat(d, u) == LiveSeat(d, u) /\ seat[d][u].level # "Reviewer"

LiveSeats == {s \in serving \X Officers : LiveSeat(s[1], s[2])}

WorkingSeats == {s \in serving \X Officers : WorkingSeat(s[1], s[2])}

Row(s) == seat[s[1]][s[2]]

\* Lexicographic order of keys, and the least elements of a set under it.
Precedes(k, l) == \E i \in DOMAIN k : k[i] < l[i] /\ \A j \in 1..(i - 1) : k[j] = l[j]

Least(S, Key(_)) ==
  LET key == [x \in S |-> Key(x)] IN {x \in S : \A y \in S : ~Precedes(key[y], key[x])}

\* order_by is_primary desc, modified desc.
DefaultOrder(s) == <<IF Row(s).primary THEN 0 ELSE 1, recency[s[1]]>>

Width(area) == AreaBounds[area].rgt - AreaBounds[area].lft
Unbounded == 100
Inside(area, outer) ==
  /\ AreaBounds[outer].lft <= AreaBounds[area].lft
  /\ AreaBounds[area].lft <= AreaBounds[outer].rgt

-----------------------------------------------------------------------------
(***************************************************************************)
(* Authority: covering_rows and what is built on it.  A case is a record   *)
(* with fields department, category and area, each possibly Nothing.       *)
(***************************************************************************)
Fits(wanted, scope) == wanted = Nothing \/ scope = Nothing \/ scope = wanted

Covers(s, c) ==
  /\ Fits(c.department, Scope[s[1]].department)
  /\ Fits(c.category, Scope[s[1]].category)
  /\ c.area # Nothing /\ Row(s).area # Nothing => Inside(c.area, Row(s).area)

Named(wanted, scope) == IF wanted # Nothing /\ scope # Nothing THEN 1 ELSE 0

Specificity(d, c) == Named(c.department, Scope[d].department) + Named(c.category, Scope[d].category)

Span(s, c) == IF c.area = Nothing \/ Row(s).area = Nothing THEN Unbounded ELSE Width(Row(s).area)

CoveringKey(s, c) ==
  <<2 - Specificity(s[1], c), Span(s, c), IF Row(s).primary THEN 0 ELSE 1, recency[s[1]]>>

BestCovering(seats, c) ==
  LET key(s) == CoveringKey(s, c) IN Least({s \in seats : Covers(s, c)}, key)

OfficersAtLevel(level, c) ==
  {s[2] : s \in BestCovering({t \in WorkingSeats : Row(t).level = level}, c)}

DepartmentHeads(c) == OfficersAtLevel(Top, c)

HoldsRung(u, level, c) ==
  \E s \in WorkingSeats : s[2] = u /\ Row(s).level = level /\ Covers(s, c)

CurrentLevel(u) ==
  LET first == Least({s \in WorkingSeats : s[2] = u}, DefaultOrder)
  IN  IF first = {} THEN Nothing ELSE Row(CHOOSE s \in first : TRUE).level

Supervisor(u, c, strict) ==
  LET own == {s \in WorkingSeats : s[2] = u /\ Row(s).reportsTo # Nothing}
      best == BestCovering(own, c)
  IN  IF best # {} THEN Row(CHOOSE s \in best : TRUE).reportsTo
      ELSE IF strict \/ own = {} THEN Nothing
      ELSE Row(CHOOSE s \in Least(own, DefaultOrder) : TRUE).reportsTo

\* get_subordinate_officers: the closure of the frontier, u included.
Reports(S) == {s[2] : s \in {t \in WorkingSeats : Row(t).reportsTo \in S}}

Team(u) ==
  LET grown[n \in 0..Cardinality(Officers)] ==
        IF n = 0 THEN {u} ELSE grown[n - 1] \cup Reports(grown[n - 1])
  IN  grown[Cardinality(Officers)]

\* Mutant: the others on the officer's own rung are taken for the rung above.
HigherAuthority_SameRung(u, c) ==
  {o \in OfficersAtLevel(CurrentLevel(u), c) : o # u}

\* Whoever holds the nearest staffed rung above; a rung whose best officer is
\* the user is passed over.
NearestAbove(u, rank, c) ==
  LET best == [r \in {q \in DOMAIN Chain : q > rank} |-> OfficersAtLevel(Chain[r], c)]
      passed == {r \in DOMAIN best : best[r] = {} \/ u \in best[r]}
  IN  UNION {best[r] \ {u} : r \in {q \in DOMAIN best : 1 .. (q - 1) \cap DOMAIN best \subseteq passed}}

\* higher_authority_of: the supervisor when they sit higher or on no rung at
\* all, else the nearest rung above; {} at the top.  Rank and supervisor are
\* bound so that each is looked up once.
HigherAuthority(u, c) ==
  UNION {IF rank < Len(Chain) /\ boss \notin {Nothing, u}
              /\ (CurrentLevel(boss) = Nothing \/ Rank(CurrentLevel(boss)) > rank)
         THEN {boss} ELSE NearestAbove(u, rank, c) :
           rank \in {Rank(CurrentLevel(u))}, boss \in {Supervisor(u, c, FALSE)}}

Outranks(approver, assignee) ==
  /\ CurrentLevel(approver) # Nothing /\ CurrentLevel(assignee) # Nothing
  /\ Rank(CurrentLevel(approver)) > Rank(CurrentLevel(assignee))

-----------------------------------------------------------------------------
(***************************************************************************)
(* Routing: which desks may take a case, best first, and whom they pick.   *)
(***************************************************************************)

\* _evaluate_ancestor_area: unlike Covers, an area never fits a case without.
AreaFits(c, area) == area = Nothing \/ (c.area # Nothing /\ Inside(c.area, area))

RoutingSpan(area) == IF area = Nothing THEN Unbounded ELSE Width(area)

\* _desk_area_fits: the narrowest fit among the active rows, a desk without
\* any counting as unbounded; {} when none fits.
DeskSpans(d, c) ==
  LET areas == {seat[d][u].area : u \in {o \in Officers : seat[d][o] # NoSeat /\ seat[d][o].active}}
      fit == {RoutingSpan(a) : a \in {b \in areas : AreaFits(c, b)}}
  IN  IF areas = {} THEN {Unbounded} ELSE {n \in fit : \A k \in fit : n <= k}

SpanOf(d, c) ==
  LET spans == DeskSpans(d, c) IN IF spans = {} THEN Unbounded ELSE CHOOSE n \in spans : TRUE

CategoryMatches(d, c) == Scope[d].category \in {Nothing, c.category}

Narrowed(d) == IF Scope[d].category = Nothing THEN 0 ELSE 1

\* The desks a case may go to: those for its category, and the triage desks.
Candidates(c) == {d \in serving : Scope[d].department = Unrouted \/ CategoryMatches(d, c)}

\* ranked_assignments: the triage desks come last.
RankingKey(d, c) ==
  IF Scope[d].department = Unrouted THEN <<1, 0, 0, Created(d)>>
  ELSE <<0, SpanOf(d, c), 1 - Narrowed(d), Created(d)>>

\* find_matching_assignment: the strict match, within the area only.
MatchingDesk(c) ==
  LET desks == {d \in serving : CategoryMatches(d, c) /\ DeskSpans(d, c) # {}}
      key(d) == <<SpanOf(d, c), 1 - Narrowed(d), Created(d)>>
  IN  IF desks = {} THEN Nothing ELSE CHOOSE d \in desks : d \in Least(desks, key)

Available(d) ==
  {u \in Officers : seat[d][u] # NoSeat /\ seat[d][u].active /\ seat[d][u].level # "Reviewer"
                      /\ ~seat[d][u].leave}

\* pick_officer_by_strategy up to the strategy: the lowest rung with somebody
\* who covers the area, the narrowest of those, supervisors only if nobody
\* else is left.
Shortlist(d, c, anyArea) ==
  LET covering == {u \in Available(d) : anyArea \/ AreaFits(c, seat[d][u].area)}
      rung(u) == Rank(seat[d][u].level)
      junior == {u \in covering : \A v \in covering : rung(u) <= rung(v)}
      span(u) == RoutingSpan(seat[d][u].area)
      close == IF anyArea THEN junior ELSE {u \in junior : \A v \in junior : span(u) <= span(v)}
      front == {u \in close : \A v \in close : seat[d][v].reportsTo # u}
  IN  IF front = {} THEN close ELSE front

\* The default strategy, Primary First.
PrimaryFirst(d, S) ==
  LET primaries == {u \in S : seat[d][u].primary} IN IF primaries = {} THEN S ELSE primaries

\* Mutant: only officers who cover the area are picked.
PicksOn_NearOnly(d, c) == PrimaryFirst(d, Shortlist(d, c, FALSE))

\* Any officer on the desk beats none.
PicksOn(d, c) ==
  LET near == Shortlist(d, c, FALSE)
  IN  PrimaryFirst(d, IF near # {} THEN near ELSE Shortlist(d, c, TRUE))

\* The desk apply_routing settles on: a desk with neither scope is skipped, a
\* desk with nobody available too.
RoutedTo(desks, c) ==
  LET able == {d \in desks : /\ Scope[d].department # Nothing \/ Scope[d].category # Nothing
                             /\ PicksOn(d, c) # {}}
      key(d) == RankingKey(d, c)
  IN  IF able = {} THEN Nothing ELSE CHOOSE d \in Least(able, key) : TRUE
==============================================================================
