------------------------- MODULE CaseAuthorityProofs -------------------------
(***************************************************************************)
(* Who sees a case and who may be given it, for any desks, ladder, areas   *)
(* and edits of the staff: the list and the document agree, a move that is *)
(* proposed passes the checks it will meet, routing finds whoever is       *)
(* there, authority only climbs, and the charts count what the list shows. *)
(***************************************************************************)
EXTENDS ChartScope, FiniteSetTheorems, WellFoundedInduction, TLAPS

-----------------------------------------------------------------------------
(***************************************************************************)
(* Reading.  The SQL of the list and the Python of the document ask the    *)
(* same of a scope, the one field by field, the other by exclusion.        *)
(***************************************************************************)
LEMMA ScopesAgree ==
  ASSUME NEW s, NEW c
  PROVE  ScopeCovers(s, c) <=> InClause(s, c)
  BY DEF ScopeCovers, InClause

LEMMA ListedAsRead ==
  ASSUME NEW u
  PROVE  /\ Listed(u, held) => Readable(u, held)
         /\ Readable(u, held) /\ u \notin movers => Listed(u, held)
  <1>1. \A s : ScopeCovers(s, held) <=> InClause(s, held)
    BY ScopesAgree
  <1>2. held.officer \in Team(u) \ {Nothing} <=> held.officer # Nothing /\ held.officer \in Team(u)
    OBVIOUS
  <1> QED
    BY <1>1, <1>2 DEF Listed, Readable

\* For any staff and any edits of it, an officer or reviewer finds in their
\* list exactly the cases they may open, but for one they moved on themselves
\* (permissions.py: grievance_query_conditions, has_grievance_permission).
THEOREM ListMirrorsAlways == AuthoritySpec => []ListMirrorsDocument
  <1>1. ListMirrorsDocument
    BY ListedAsRead DEF ListMirrorsDocument
  <1> QED
    BY <1>1, PTL

-----------------------------------------------------------------------------
(***************************************************************************)
(* Moves.  The desks a proposal is made from are narrowed step by step; no *)
(* step may leave the desks that the checks will look at.                  *)
(***************************************************************************)
LEMMA LeastAmong ==
  ASSUME NEW desks, NEW c, NEW u
  PROVE  FirstDesks(desks, c, u) \subseteq desks
  BY DEF FirstDesks, Least

\* Each category a move may settle on comes with desks that accept it.
LEMMA ChoiceAccepted ==
  ASSUME NEW c, NEW desks, NEW category, NEW choice \in CategoryChoice(c, desks, category)
  PROVE  /\ choice.desks \subseteq desks
         /\ \A d \in choice.desks : Accepts(d, choice.category)
  <1> DEFINE current == {d \in desks : Accepts(d, c.category)}
             exact == {d \in current : Scope[d].category = c.category}
             others == {Scope[d].category : d \in desks} \ {Nothing}
             some == IF Cardinality(others) = 1 THEN others ELSE {}
  <1>1. CASE category # Nothing
    BY <1>1 DEF CategoryChoice
  <1>2. CASE category = Nothing /\ current # {}
    <2>1. choice = [category |-> c.category, desks |-> IF exact # {} THEN exact ELSE current]
      BY <1>2 DEF CategoryChoice
    <2> QED
      BY <2>1
  <1>3. CASE category = Nothing /\ current = {}
    <2>1. CategoryChoice(c, desks, category)
            = {[category |-> k, desks |-> {d \in desks : Accepts(d, k)}] : k \in some}
      BY <1>3 DEF CategoryChoice
    <2>2. PICK k \in some : choice = [category |-> k, desks |-> {d \in desks : Accepts(d, k)}]
      BY <2>1
    <2> QED
      BY <2>2
  <1> QED
    BY <1>1, <1>2, <1>3

\* Whoever is picked on a desk for a case works there and covers its area.
LEMMA ReceiverWorks ==
  ASSUME NEW c, NEW d \in serving, NEW u \in Receives(d, c)
  PROVE  WorkingSeat(d, u) /\ AreaFits(c, seat[d][u].area)
  <1>1. u \in Shortlist(d, c, FALSE)
    BY DEF Receives, PrimaryFirst
  <1>2. u \in {v \in Available(d) : FALSE \/ AreaFits(c, seat[d][v].area)}
    BY <1>1 DEF Shortlist
  <1> QED
    BY <1>2 DEF Available, WorkingSeat, LiveSeat

\* The officer a move ends with sits on the desk it ends on, covers the area
\* there, and the desk is of the department asked for.
LEMMA ReceiverSeated ==
  ASSUME NEW c, NEW department, NEW u, NEW desks,
         desks \subseteq IF u # Nothing THEN OfficerDesksFor(c, department, u)
                         ELSE DepartmentDesksFor(c, department),
         NEW t \in Receivers(c, department, u, desks)
  PROVE  /\ t[1] \in desks
         /\ WorkingSeat(t[1], t[2])
         /\ AreaFits(c, seat[t[1]][t[2]].area)
         /\ department = Nothing \/ Fits(department, Scope[t[1]].department)
  <1> DEFINE stay == IF c.officer = Nothing THEN {}
                     ELSE OfficerDesksFor(c, department, c.officer) \cap desks
  <1>1. CASE u # Nothing
    <2>1. t \in FirstDesks(desks, c, u) \X {u}
      BY <1>1 DEF Receivers
    <2>2. t[1] \in desks /\ t[2] = u
      BY <2>1, LeastAmong
    <2> QED
      BY <1>1, <2>2 DEF OfficerDesksFor
  <1>2. CASE u = Nothing /\ stay # {}
    <2>1. t \in FirstDesks(stay, c, c.officer) \X {c.officer}
      BY <1>2 DEF Receivers
    <2>2. t[1] \in stay /\ t[2] = c.officer
      BY <2>1, LeastAmong
    <2> QED
      BY <2>2 DEF OfficerDesksFor
  <1>3. CASE u = Nothing /\ stay = {}
    <2>1. t \in UNION {{d} \X Receives(d, c) : d \in FirstDesks(desks, c, Nothing)}
      BY <1>3 DEF Receivers
    <2>2. PICK d \in FirstDesks(desks, c, Nothing) : t \in {d} \X Receives(d, c)
      BY <2>1
    <2>3. t[1] = d /\ d \in desks /\ t[2] \in Receives(d, c)
      BY <2>2, LeastAmong
    <2>4. d \in serving /\ (department = Nothing \/ Scope[d].department = department)
      BY <1>3, <2>3 DEF DepartmentDesksFor
    <2> QED
      BY <2>3, <2>4, ReceiverWorks DEF Fits
  <1> QED
    BY <1>1, <1>2, <1>3

\* The case keeps its fields, whatever is proposed, applied or escalated.
CaseFields == {"department", "category", "area", "officer", "desk"}
HeldFields == held = [f \in CaseFields |-> held[f]]

LEMMA ProposalStands ==
  ASSUME HeldFields, NEW department, NEW u \in Officers \cup {Nothing}, NEW category,
         NEW new \in Resolve(held, department, u, category)
  PROVE  /\ ValidMove(Nothing, held, new) /\ HasDesk(new.officer)
         /\ new.officer \in Officers
         /\ \/ department # Nothing /\ new.department = department
            \/ \E d \in serving : new.department = Scope[d].department
  <1> DEFINE desks == IF u # Nothing THEN OfficerDesksFor(held, department, u)
                      ELSE DepartmentDesksFor(held, department)
             kept(choice) == KeepDepartment(held, department, choice.desks)
             changed(m) ==
               [held EXCEPT !.category = m.category, !.officer = m.to[2],
                            !.department = IF department # Nothing THEN department
                                           ELSE Scope[m.to[1]].department]
             moves(choice) == [category : {choice.category},
                               to : Receivers(held, department, u, kept(choice))]
  <1>0. PICK choice \in CategoryChoice(held, desks, category) :
          \E m \in moves(choice) : new = changed(m)
    <2> DEFINE able == {k \in CategoryChoice(held, desks, category) : k.desks # {}}
               all == UNION {moves(k) : k \in able}
    <2>1. new \in {changed(m) : m \in all}
      BY DEF Resolve
    <2>2. PICK m \in all : new = changed(m)
      BY <2>1
    <2>3. PICK k \in able : m \in moves(k)
      BY <2>2
    <2> QED
      BY <2>2, <2>3
  <1>1. PICK m \in moves(choice) : new = changed(m)
    BY <1>0
  <1>2. choice.desks \subseteq desks /\ \A d \in choice.desks : Accepts(d, choice.category)
    BY ChoiceAccepted
  <1>3. kept(choice) \subseteq choice.desks
    BY DEF KeepDepartment
  <1>4. m.category = choice.category /\ m.to \in Receivers(held, department, u, kept(choice))
    BY <1>1
  <1> DEFINE d == m.to[1]
             o == m.to[2]
             dept == IF department # Nothing THEN department ELSE Scope[d].department
  <1>5. new.category = choice.category /\ new.officer = o /\ new.department = dept
    BY <1>1, <1>4 DEF HeldFields, CaseFields
  <1>6. /\ d \in kept(choice)
        /\ WorkingSeat(d, o)
        /\ AreaFits(held, seat[d][o].area)
        /\ department = Nothing \/ Fits(department, Scope[d].department)
    BY <1>2, <1>3, <1>4, ReceiverSeated
  <1>7. Fits(dept, Scope[d].department)
    BY <1>6 DEF Fits
  <1>8. d \in serving /\ o # Nothing /\ LiveSeat(d, o)
    BY <1>6, DeskAssumption DEF WorkingSeat, LiveSeat
  <1>9. /\ o \in Officers
        /\ \/ department # Nothing /\ dept = department
           \/ \E e \in serving : dept = Scope[e].department
    BY <1>6, <1>8 DEF LiveSeat
  <1>10. d \in OfficerDesksFor(held, dept, o) /\ Accepts(d, choice.category)
    BY <1>2, <1>3, <1>6, <1>7, <1>8 DEF OfficerDesksFor
  <1> HIDE DEF dept, d, o
  <1> QED
    BY <1>5, <1>8, <1>9, <1>10 DEF ValidMove, HasDesk

-----------------------------------------------------------------------------
(***************************************************************************)
(* Order.  Rows and desks are compared by keys of two or four numbers; any *)
(* set of them that is not empty has a least element.                      *)
(***************************************************************************)
LEMMA LowestValue ==
  ASSUME NEW S, S # {}, NEW f \in [S -> Nat]
  PROVE  \E x \in S : \A y \in S : f[x] <= f[y]
  <1> DEFINE V == {f[x] : x \in S}
             R == {pair \in Nat \X Nat : pair[1] < pair[2]}
  <1>1. V \subseteq Nat /\ V # {}
    OBVIOUS
  <1>2. IsWellFoundedOn(R, Nat)
    BY NatLessThanWellFounded DEF OpToRel
  <1>3. \A i, j \in Nat : <<j, i>> \notin R => i <= j
    OBVIOUS
  <1>4. \A x \in S : f[x] \in V
    OBVIOUS
  <1>5. \A v \in V : \E x \in S : f[x] = v
    OBVIOUS
  <1> HIDE DEF R, V
  <1>6. PICK v \in V : \A w \in V : <<w, v>> \notin R
    BY <1>1, <1>2, WFMin
  <1>7. \A w \in V : v <= w
    BY <1>1, <1>3, <1>6
  <1> QED
    BY <1>4, <1>5, <1>7

LEMMA LeastOfPairs ==
  ASSUME NEW S, S # {}, NEW key \in [S -> Nat \X Nat]
  PROVE  \E x \in S : \A y \in S : ~Precedes(key[y], key[x])
  <1>1. PICK a \in S : \A y \in S : key[a][1] <= key[y][1]
    <2> DEFINE f == [x \in S |-> key[x][1]]
    <2>1. f \in [S -> Nat]
      OBVIOUS
    <2> HIDE DEF f
    <2>2. PICK x \in S : \A y \in S : f[x] <= f[y]
      BY <2>1, LowestValue
    <2> QED
      BY <2>2 DEF f
  <1> DEFINE first == {x \in S : key[x][1] = key[a][1]}
  <1>2. PICK b \in first : \A y \in first : key[b][2] <= key[y][2]
    <2> DEFINE f == [x \in first |-> key[x][2]]
    <2>1. f \in [first -> Nat] /\ first # {}
      OBVIOUS
    <2>2. PICK x \in first : \A y \in first : f[x] <= f[y]
      <3> HIDE DEF f, first
      <3> QED
        BY <2>1, LowestValue
    <2> QED
      BY <2>2
  <1>3. ASSUME NEW y \in S PROVE ~Precedes(key[y], key[b])
    <2>1. \A x \in S : DOMAIN key[x] = {1, 2} /\ key[x][1] \in Nat /\ key[x][2] \in Nat
      OBVIOUS
    <2>2. key[b][1] <= key[y][1]
      BY <1>1, <1>2, <2>1
    <2>3. key[y][1] = key[b][1] => key[b][2] <= key[y][2]
      BY <1>1, <1>2
    <2>4. b \in S /\ 1 \in 1..(2 - 1)
      OBVIOUS
    <2> QED
      BY <2>1, <2>2, <2>3, <2>4 DEF Precedes
  <1> QED
    BY <1>2, <1>3

LEMMA LeastOfFours ==
  ASSUME NEW S, S # {}, NEW key \in [S -> Nat \X Nat \X Nat \X Nat]
  PROVE  \E x \in S : \A y \in S : ~Precedes(key[y], key[x])
  <1>0. \A x \in S : /\ DOMAIN key[x] = {1, 2, 3, 4}
                     /\ \A i \in {1, 2, 3, 4} : key[x][i] \in Nat
    OBVIOUS
  <1>1. ASSUME NEW T \in SUBSET S, T # {}, NEW i \in {1, 2, 3, 4}
        PROVE  \E x \in T : \A y \in T : key[x][i] <= key[y][i]
    <2> DEFINE f == [x \in T |-> key[x][i]]
    <2>1. f \in [T -> Nat]
      BY <1>0
    <2> HIDE DEF f
    <2>2. PICK x \in T : \A y \in T : f[x] <= f[y]
      BY <1>1, <2>1, LowestValue
    <2> QED
      BY <2>2 DEF f
  <1>2. PICK a \in S : \A y \in S : key[a][1] <= key[y][1]
    BY <1>1
  <1> DEFINE A == {x \in S : key[x][1] = key[a][1]}
  <1>3. PICK b \in A : \A y \in A : key[b][2] <= key[y][2]
    <2>1. A \in SUBSET S /\ A # {}
      OBVIOUS
    <2> HIDE DEF A
    <2> QED
      BY <1>1, <2>1
  <1> DEFINE B == {x \in A : key[x][2] = key[b][2]}
  <1>4. PICK c \in B : \A y \in B : key[c][3] <= key[y][3]
    <2>1. B \in SUBSET S /\ B # {}
      OBVIOUS
    <2> HIDE DEF B
    <2> QED
      BY <1>1, <2>1
  <1> DEFINE C == {x \in B : key[x][3] = key[c][3]}
  <1>5. PICK d \in C : \A y \in C : key[d][4] <= key[y][4]
    <2>1. C \in SUBSET S /\ C # {}
      OBVIOUS
    <2> HIDE DEF C
    <2> QED
      BY <1>1, <2>1
  <1>6. ASSUME NEW y \in S PROVE ~Precedes(key[y], key[d])
    <2>1. d \in S /\ key[d][1] = key[a][1] /\ key[d][2] = key[b][2] /\ key[d][3] = key[c][3]
      OBVIOUS
    <2>2. key[d][1] <= key[y][1]
      BY <1>2, <2>1
    <2>3. key[y][1] = key[d][1] => key[d][2] <= key[y][2]
      BY <1>3, <2>1
    <2>4. key[y][1] = key[d][1] /\ key[y][2] = key[d][2] => key[d][3] <= key[y][3]
      BY <1>4, <2>1
    <2>5. key[y][1] = key[d][1] /\ key[y][2] = key[d][2] /\ key[y][3] = key[d][3]
            => key[d][4] <= key[y][4]
      BY <1>5, <2>1
    <2>6. SUFFICES ASSUME NEW i \in {1, 2, 3, 4}, key[y][i] < key[d][i],
                          \A j \in 1..(i - 1) : key[y][j] = key[d][j]
                   PROVE  FALSE
      BY <1>0 DEF Precedes
    <2>7. \A j \in {1, 2, 3} : j < i => key[y][j] = key[d][j]
      BY <2>6
    <2>8. \A j \in {1, 2, 3, 4} : key[y][j] \in Nat /\ key[d][j] \in Nat
      BY <1>0, <2>1
    <2>9. CASE i = 1
      BY <2>2, <2>6, <2>8, <2>9
    <2>10. CASE i = 2
      BY <2>3, <2>6, <2>7, <2>8, <2>10
    <2>11. CASE i = 3
      BY <2>4, <2>6, <2>7, <2>8, <2>11
    <2>12. CASE i = 4
      BY <2>5, <2>6, <2>7, <2>8, <2>12
    <2> QED
      BY <2>9, <2>10, <2>11, <2>12
  <1> QED
    BY <1>5, <1>6

-----------------------------------------------------------------------------
(***************************************************************************)
(* Rungs.  Whoever has a working row stands on a rung of the chain, that   *)
(* of the first of their rows.                                             *)
(***************************************************************************)
Rungs == {"L1", "L2", "L3"}

LEMMA ChainRungs ==
  /\ DOMAIN Chain = 1..3 /\ Chain[1] = "L1" /\ Chain[2] = "L2" /\ Chain[3] = "L3"
  /\ Len(Chain) = 3 /\ Top = "L3"
  /\ Range(Chain) = Rungs /\ Levels = Rungs \cup {"Reviewer"}
  <1>1. DOMAIN Chain = 1..3 /\ Chain[1] = "L1" /\ Chain[2] = "L2" /\ Chain[3] = "L3"
    BY DEF Chain
  <1>2. Len(Chain) = 3
    BY DEF Chain
  <1>3. Range(Chain) = Rungs
    BY <1>1 DEF Range, Rungs
  <1> QED
    BY <1>1, <1>2, <1>3 DEF Top, Levels

LEMMA RankOf ==
  /\ \A r \in DOMAIN Chain : Chain[r] \in Rungs /\ Rank(Chain[r]) = r
  /\ \A level \in Levels \cup {Nothing} : Rank(level) \in 0..3
  <1>1. ASSUME NEW r \in 1..3 PROVE (CHOOSE i \in DOMAIN Chain : Chain[i] = Chain[r]) = r
    <2>1. \A i \in DOMAIN Chain : Chain[i] = Chain[r] <=> i = r
      BY ChainRungs
    <2> QED
      BY <2>1, ChainRungs
  <1>2. \A r \in 1..3 : Chain[r] \in Rungs
    BY ChainRungs DEF Rungs
  <1>3. \A r \in 1..3 : Rank(Chain[r]) = r
    BY <1>1, <1>2, ChainRungs DEF Rank, Ranks
  <1>4. ASSUME NEW level \in Levels \cup {Nothing} PROVE Rank(level) \in 0..3
    <2>1. CASE level \in Rungs
      <3>1. PICK r \in 1..3 : level = Chain[r]
        BY <2>1, ChainRungs DEF Rungs
      <3> QED
        BY <1>3, <3>1
    <2>2. CASE level \notin Rungs
      BY <2>2, ChainRungs DEF Rank, Ranks
    <2> QED
      BY <2>1, <2>2
  <1> QED
    BY <1>2, <1>3, <1>4, ChainRungs

LEMMA WorkingRow ==
  ASSUME DirectoryTypeOK, NEW s \in WorkingSeats
  PROVE  /\ s[1] \in DeskSet /\ s[2] \in Officers /\ WorkingSeat(s[1], s[2])
         /\ Row(s) \in SeatRow /\ Row(s).level \in Rungs
         /\ DefaultOrder(s) \in Nat \X Nat
  <1>1. s[1] \in serving /\ s[2] \in Officers /\ WorkingSeat(s[1], s[2])
    BY DEF WorkingSeats
  <1>2. s[1] \in DeskSet /\ recency[s[1]] \in Nat
    BY <1>1 DEF DirectoryTypeOK
  <1>3. Row(s) \in SeatRow
    BY <1>1, <1>2 DEF DirectoryTypeOK, WorkingSeat, LiveSeat, Row
  <1>4. Row(s).level \in Rungs
    BY <1>1, <1>3, ChainRungs DEF SeatRow, WorkingSeat, Row
  <1> QED
    BY <1>1, <1>2, <1>3, <1>4 DEF DefaultOrder

LEMMA FirstExists ==
  ASSUME DirectoryTypeOK, NEW S \in SUBSET WorkingSeats, S # {}
  PROVE  Least(S, DefaultOrder) # {}
  <1> DEFINE key == [s \in S |-> DefaultOrder(s)]
  <1>1. key \in [S -> Nat \X Nat]
    BY WorkingRow
  <1> HIDE DEF key
  <1>2. \E x \in S : \A y \in S : ~Precedes(key[y], key[x])
    BY <1>1, LeastOfPairs
  <1> QED
    BY <1>2 DEF key, Least

\* A level read is that of a working row, so Nothing is read of the others only.
LEMMA LevelRow ==
  ASSUME DirectoryTypeOK, NEW u
  PROVE  /\ (\A s \in WorkingSeats : s[2] # u) => CurrentLevel(u) = Nothing
         /\ (\E s \in WorkingSeats : s[2] = u)
              => \E s \in WorkingSeats : s[2] = u /\ CurrentLevel(u) = Row(s).level
         /\ CurrentLevel(u) \in Rungs \cup {Nothing}
  <1> DEFINE own == {s \in WorkingSeats : s[2] = u}
             first == Least(own, DefaultOrder)
  <1>1. CurrentLevel(u) = IF first = {} THEN Nothing ELSE Row(CHOOSE s \in first : TRUE).level
    BY DEF CurrentLevel
  <1>2. first \subseteq own
    BY DEF Least
  <1>3. own \in SUBSET WorkingSeats /\ (own # {} => first # {})
    <2>1. own \in SUBSET WorkingSeats
      OBVIOUS
    <2> HIDE DEF own
    <2> QED
      BY <2>1, FirstExists
  <1>4. (\A s \in WorkingSeats : s[2] # u) <=> own = {}
    OBVIOUS
  <1>5. CASE own = {}
    BY <1>1, <1>2, <1>4, <1>5
  <1>6. CASE own # {}
    <2>1. (CHOOSE s \in first : TRUE) \in own
      <3> HIDE DEF first, own
      <3> QED
        BY <1>2, <1>3, <1>6
    <2>2. PICK s \in own : CurrentLevel(u) = Row(s).level
      <3> HIDE DEF first, own
      <3> QED
        BY <1>1, <1>3, <1>6, <2>1
    <2>3. Row(s).level \in Rungs
      BY <2>2, WorkingRow
    <2> QED
      BY <2>2, <2>3
  <1> QED
    BY <1>5, <1>6

\* The supervisor is named in one of the officer's working rows.
LEMMA SupervisorNamed ==
  ASSUME DirectoryTypeOK, NEW u, NEW c, Supervisor(u, c, FALSE) # Nothing
  PROVE  \E s \in WorkingSeats :
           /\ s[2] = u /\ Row(s).reportsTo = Supervisor(u, c, FALSE)
           /\ Row(s).reportsTo \in Officers
  <1> DEFINE own == {s \in WorkingSeats : s[2] = u /\ Row(s).reportsTo # Nothing}
             best == BestCovering(own, c)
             first == Least(own, DefaultOrder)
  <1>1. best \subseteq own
    BY DEF BestCovering, Least
  <1>2. first \subseteq own
    BY DEF Least
  <1>3. own # {} => first # {}
    <2>1. own \in SUBSET WorkingSeats
      OBVIOUS
    <2> HIDE DEF own
    <2> QED
      BY <2>1, FirstExists
  <1>4. Supervisor(u, c, FALSE) =
          IF best # {} THEN Row(CHOOSE s \in best : TRUE).reportsTo
          ELSE IF own = {} THEN Nothing
          ELSE Row(CHOOSE s \in first : TRUE).reportsTo
    BY DEF Supervisor
  <1>5. \E s \in own : Supervisor(u, c, FALSE) = Row(s).reportsTo
    <2> HIDE DEF own, best, first
    <2>1. CASE best # {}
      BY <1>1, <1>4, <2>1
    <2>2. CASE best = {} /\ own # {}
      <3>1. (CHOOSE s \in first : TRUE) \in own
        BY <1>2, <1>3, <2>2
      <3> QED
        BY <1>4, <2>2, <3>1
    <2> QED
      BY <1>4, <2>1, <2>2
  <1>6. PICK s \in own : Supervisor(u, c, FALSE) = Row(s).reportsTo
    BY <1>5
  <1>7. Row(s) \in SeatRow
    BY <1>6, WorkingRow
  <1>8. Row(s).reportsTo \in Officers
    BY <1>6, <1>7 DEF SeatRow
  <1> QED
    BY <1>6, <1>8

\* The rung above is held by somebody who works on it.
LEMMA AboveSits ==
  ASSUME DirectoryTypeOK, NEW u, NEW rank, NEW c, NEW o \in NearestAbove(u, rank, c)
  PROVE  \E r \in DOMAIN Chain, s \in WorkingSeats :
           r > rank /\ s[2] = o /\ Row(s).level = Chain[r]
  <1> DEFINE best == [r \in {q \in DOMAIN Chain : q > rank} |-> OfficersAtLevel(Chain[r], c)]
             passed == {r \in DOMAIN best : best[r] = {} \/ u \in best[r]}
             open == {q \in DOMAIN best : 1 .. (q - 1) \cap DOMAIN best \subseteq passed}
  <1>1. o \in UNION {best[r] \ {u} : r \in open}
    BY DEF NearestAbove
  <1>2. PICK r \in DOMAIN best : o \in best[r]
    BY <1>1
  <1>3. r \in DOMAIN Chain /\ r > rank /\ o \in OfficersAtLevel(Chain[r], c)
    BY <1>2
  <1>4. PICK s \in BestCovering({t \in WorkingSeats : Row(t).level = Chain[r]}, c) : s[2] = o
    BY <1>3 DEF OfficersAtLevel
  <1>5. s \in WorkingSeats /\ Row(s).level = Chain[r]
    BY <1>4 DEF BestCovering, Least
  <1> QED
    BY <1>3, <1>4, <1>5

\* The authority is the supervisor, who sits higher or on no rung, or somebody
\* on a rung above.
LEMMA AuthorityIs ==
  ASSUME NEW u, NEW c, NEW o \in HigherAuthority(u, c)
  PROVE  LET rank == Rank(CurrentLevel(u))
             boss == Supervisor(u, c, FALSE)
         IN  \/ /\ o = boss /\ boss # Nothing
                /\ CurrentLevel(boss) = Nothing \/ Rank(CurrentLevel(boss)) > rank
             \/ o \in NearestAbove(u, rank, c)
  <1> DEFINE rank == Rank(CurrentLevel(u))
             boss == Supervisor(u, c, FALSE)
             answer(r, b) ==
               IF r < Len(Chain) /\ b \notin {Nothing, u}
                    /\ (CurrentLevel(b) = Nothing \/ Rank(CurrentLevel(b)) > r)
               THEN {b} ELSE NearestAbove(u, r, c)
  <1>1. o \in answer(rank, boss)
    <2>1. HigherAuthority(u, c) = UNION {answer(r, b) : r \in {rank}, b \in {boss}}
      BY DEF HigherAuthority
    <2> HIDE DEF answer, rank, boss
    <2>2. {answer(r, b) : r \in {rank}, b \in {boss}} = {answer(rank, boss)}
      OBVIOUS
    <2> QED
      BY <2>1, <2>2
  <1> HIDE DEF rank, boss
  <1>2. \/ /\ o = boss /\ boss # Nothing
           /\ CurrentLevel(boss) = Nothing \/ Rank(CurrentLevel(boss)) > rank
        \/ o \in NearestAbove(u, rank, c)
    BY <1>1
  <1> QED
    BY <1>2 DEF rank, boss

LEMMA AuthorityHigher ==
  ASSUME DirectoryTypeOK, SoundLadder, NEW u, NEW c, NEW o \in HigherAuthority(u, c)
  PROVE  Rank(CurrentLevel(o)) > Rank(CurrentLevel(u))
  <1> DEFINE rank == Rank(CurrentLevel(u))
             boss == Supervisor(u, c, FALSE)
             climbs == /\ o = boss /\ boss # Nothing
                       /\ CurrentLevel(boss) = Nothing \/ Rank(CurrentLevel(boss)) > rank
  <1>1. climbs \/ o \in NearestAbove(u, rank, c)
    BY AuthorityIs
  <1>2. CASE climbs
    <2>0. Supervisor(u, c, FALSE) # Nothing
      BY <1>2
    <2>1. PICK s \in WorkingSeats : s[2] = u /\ Row(s).reportsTo = boss /\ boss \in Officers
      BY <2>0, SupervisorNamed
    <2>2. \E t \in WorkingSeats : t[2] = boss
      <3>1. s[1] \in DeskSet /\ u \in Officers /\ seat[s[1]][u] # NoSeat
        BY <2>1, WorkingRow DEF WorkingSeat, LiveSeat
      <3>2. seat[s[1]][u].reportsTo = boss /\ boss # Nothing
        BY <2>0, <2>1 DEF Row
      <3> HIDE DEF boss
      <3> QED
        BY <3>1, <3>2 DEF SoundLadder
    <2>3. CurrentLevel(boss) # Nothing
      BY <2>2, LevelRow, WorkingRow, DirectoryAssumption DEF Rungs
    <2> QED
      BY <1>2, <2>3
  <1>3. CASE o \in NearestAbove(u, rank, c)
    <2>1. PICK r \in DOMAIN Chain, s \in WorkingSeats :
            r > rank /\ s[2] = o /\ Row(s).level = Chain[r]
      <3> HIDE DEF rank
      <3> QED
        BY <1>3, AboveSits
    <2>2. PICK t \in WorkingSeats : t[2] = o /\ CurrentLevel(o) = Row(t).level
      BY <2>1, LevelRow
    <2>3. Row(t).level = Row(s).level
      BY <2>1, <2>2 DEF SoundLadder
    <2> QED
      BY <2>1, <2>2, <2>3, RankOf
  <1> QED
    BY <1>1, <1>2, <1>3

\* On a sound ladder an escalated case and a forwarded request only climb, for
\* any desks, ladder and areas (higher_authority_of).
LEMMA ClimbsWhenTyped ==
  ASSUME DirectoryTypeOK
  PROVE  LadderClimbs
  BY AuthorityHigher DEF LadderClimbs

-----------------------------------------------------------------------------
(***************************************************************************)
(* Routing.  A desk with somebody available picks somebody, and of the     *)
(* desks that do, one comes first.                                         *)
(***************************************************************************)
LEMMA CreatedIs ==
  ASSUME NEW d \in DeskSet
  PROVE  Created(d) \in DOMAIN Desks /\ Desks[Created(d)] = d /\ Created(d) \in Nat
  <1>1. \E i \in DOMAIN Desks : Desks[i] = d
    BY DEF DeskSet, Range
  <1>2. DOMAIN Desks \subseteq Nat
    BY DirectoryAssumption
  <1> QED
    BY <1>1, <1>2 DEF Created

LEMMA RowTyped ==
  ASSUME DirectoryTypeOK, NEW d \in DeskSet, NEW u \in Officers, seat[d][u] # NoSeat
  PROVE  seat[d][u] \in SeatRow
  BY DEF DirectoryTypeOK

LEMMA SpanTyped ==
  ASSUME NEW area \in Areas \cup {Nothing}
  PROVE  RoutingSpan(area) \in Nat
  <1>1. CASE area = Nothing
    BY <1>1 DEF RoutingSpan, Unbounded
  <1>2. CASE area # Nothing
    <2>1. area \in DOMAIN AreaBounds
      BY <1>2 DEF Areas
    <2>2. /\ AreaBounds[area].lft \in Nat /\ AreaBounds[area].rgt \in Nat
          /\ AreaBounds[area].lft <= AreaBounds[area].rgt
      BY <2>1, DirectoryAssumption
    <2> QED
      BY <1>2, <2>2 DEF RoutingSpan, Width
  <1> QED
    BY <1>1, <1>2

LEMMA SpanOfTyped ==
  ASSUME DirectoryTypeOK, NEW d \in DeskSet, NEW c
  PROVE  SpanOf(d, c) \in Nat
  <1> DEFINE sitting == {o \in Officers : seat[d][o] # NoSeat /\ seat[d][o].active}
             areas == {seat[d][u].area : u \in sitting}
             fit == {RoutingSpan(a) : a \in {b \in areas : AreaFits(c, b)}}
  <1>1. areas \subseteq Areas \cup {Nothing}
    BY RowTyped DEF SeatRow
  <1>2. fit \subseteq Nat
    BY <1>1, SpanTyped
  <1>3. DeskSpans(d, c) \subseteq fit \cup {Unbounded}
    BY DEF DeskSpans
  <1>4. DeskSpans(d, c) \subseteq Nat
    BY <1>2, <1>3 DEF Unbounded
  <1> QED
    BY <1>4 DEF SpanOf, Unbounded

LEMMA RankingTyped ==
  ASSUME DirectoryTypeOK, NEW d \in DeskSet, NEW c
  PROVE  RankingKey(d, c) \in Nat \X Nat \X Nat \X Nat
  <1>1. SpanOf(d, c) \in Nat /\ Created(d) \in Nat
    BY SpanOfTyped, CreatedIs
  <1>2. 1 - Narrowed(d) \in Nat
    BY DEF Narrowed
  <1> QED
    BY <1>1, <1>2 DEF RankingKey

\* Officers are on the desk and available there, whoever is picked.
LEMMA PickedAvailable ==
  ASSUME NEW d, NEW c
  PROVE  PicksOn(d, c) \subseteq Available(d)
  BY DEF PicksOn, PrimaryFirst, Shortlist

LEMMA SomebodyPicked ==
  ASSUME DirectoryTypeOK, NEW d \in DeskSet, NEW c, Available(d) # {}
  PROVE  PicksOn(d, c) # {}
  <1> DEFINE all == {u \in Available(d) : TRUE \/ AreaFits(c, seat[d][u].area)}
             rung == [u \in all |-> Rank(seat[d][u].level)]
             junior == {u \in all : \A v \in all : Rank(seat[d][u].level) <= Rank(seat[d][v].level)}
             front == {u \in junior : \A v \in junior : seat[d][v].reportsTo # u}
  <1>1. all # {}
    OBVIOUS
  <1>2. rung \in [all -> Nat]
    <2>1. ASSUME NEW u \in all PROVE Rank(seat[d][u].level) \in Nat
      <3>1. seat[d][u].level \in Levels
        BY RowTyped DEF Available, SeatRow
      <3> QED
        BY <3>1, RankOf
    <2> HIDE DEF all
    <2> QED
      BY <2>1
  <1>3. \E u \in all : \A v \in all : rung[u] <= rung[v]
    <2> HIDE DEF rung, all
    <2> QED
      BY <1>1, <1>2, LowestValue
  <1>4. junior # {}
    BY <1>3
  <1>5. Shortlist(d, c, TRUE) = IF front = {} THEN junior ELSE front
    BY DEF Shortlist
  <1>6. Shortlist(d, c, TRUE) # {}
    <2> HIDE DEF junior, front
    <2> QED
      BY <1>4, <1>5
  <1>7. \A S : S # {} => PrimaryFirst(d, S) # {}
    BY DEF PrimaryFirst
  <1> QED
    BY <1>6, <1>7 DEF PicksOn

LEMMA RoutedWhenAble ==
  ASSUME DirectoryTypeOK, NEW desks \in SUBSET serving, NEW c
  PROVE  /\ RoutedTo(desks, c) \in desks \cup {Nothing}
         /\ (\E d \in desks : /\ Scope[d].department # Nothing \/ Scope[d].category # Nothing
                              /\ PicksOn(d, c) # {}) => RoutedTo(desks, c) # Nothing
  <1> DEFINE able == {d \in desks : /\ Scope[d].department # Nothing \/ Scope[d].category # Nothing
                                    /\ PicksOn(d, c) # {}}
             key == [d \in able |-> RankingKey(d, c)]
             first == {d \in able : \A e \in able : ~Precedes(key[e], key[d])}
  <1>1. RoutedTo(desks, c) = IF able = {} THEN Nothing ELSE CHOOSE d \in first : TRUE
    BY DEF RoutedTo, Least
  <1>2. desks \subseteq DeskSet
    BY DEF DirectoryTypeOK
  <1>3. key \in [able -> Nat \X Nat \X Nat \X Nat]
    BY <1>2, RankingTyped
  <1>4. able # {} => first # {}
    <2> HIDE DEF able, key
    <2> QED
      BY <1>3, LeastOfFours
  <1>5. able # {} => RoutedTo(desks, c) \in able
    <2>1. first \subseteq able
      OBVIOUS
    <2> HIDE DEF able, first
    <2> QED
      BY <1>1, <1>4, <2>1
  <1>6. Nothing \notin DeskSet
    BY DirectoryAssumption DEF DeskSet
  <1> QED
    BY <1>1, <1>2, <1>5, <1>6

LEMMA FindsWhenTyped ==
  ASSUME DirectoryTypeOK
  PROVE  RoutingFindsSomeone
  <1>1. Candidates(held) \in SUBSET serving
    BY DEF Candidates
  <1>2. ASSUME NEW d \in serving,
               Scope[d].department # Nothing \/ Scope[d].category # Nothing,
               CategoryMatches(d, held) \/ Scope[d].department = Unrouted,
               Available(d) # {}
        PROVE  RoutedTo(Candidates(held), held) # Nothing
    <2>1. d \in Candidates(held)
      BY <1>2 DEF Candidates
    <2>2. d \in DeskSet
      BY DEF DirectoryTypeOK
    <2>3. PicksOn(d, held) # {}
      BY <1>2, <2>2, SomebodyPicked
    <2> QED
      BY <1>1, <1>2, <2>1, <2>3, RoutedWhenAble
  <1> QED
    BY <1>2 DEF RoutingFindsSomeone

-----------------------------------------------------------------------------
(***************************************************************************)
(* Staffing.  Every call leaves rows of their types on desks that exist,   *)
(* and no two desks written at the same moment.                            *)
(***************************************************************************)
LEMMA FiniteDesks == IsFiniteSet(DeskSet)
  <1>1. Desks \in Surjection(1..Len(Desks), DeskSet)
    <2>1. Desks \in [1..Len(Desks) -> DeskSet]
      BY DirectoryAssumption DEF DeskSet
    <2>2. \A d \in DeskSet : \E i \in 1..Len(Desks) : Desks[i] = d
      BY CreatedIs, <2>1
    <2> QED
      BY <2>1, <2>2 DEF Surjection
  <1>2. Len(Desks) \in Nat
    BY DirectoryAssumption
  <1>3. IsFiniteSet(1..Len(Desks))
    BY <1>2, FS_Interval
  <1> QED
    BY <1>1, <1>3, FS_Surjection

\* Counting what comes no later tells the members of a set apart.
CountUpTo(S, key, d) == Cardinality({e \in S : key[e] <= key[d]})

LEMMA CountsDiffer ==
  ASSUME NEW S, IsFiniteSet(S), NEW key \in [S -> Int], IsInjective(key)
  PROVE  /\ \A d \in S : CountUpTo(S, key, d) \in 1..Cardinality(S) /\ CountUpTo(S, key, d) \in Nat
         /\ \A d, e \in S : d # e => CountUpTo(S, key, d) # CountUpTo(S, key, e)
  <1> DEFINE upto(d) == {e \in S : key[e] <= key[d]}
  <1>1. ASSUME NEW d \in S
        PROVE  /\ Cardinality(upto(d)) \in 1..Cardinality(S) /\ Cardinality(upto(d)) \in Nat
               /\ IsFiniteSet(upto(d))
    <2>1. upto(d) \in SUBSET S /\ d \in upto(d)
      OBVIOUS
    <2> HIDE DEF upto
    <2>2. IsFiniteSet(upto(d)) /\ Cardinality(upto(d)) <= Cardinality(S)
      BY <2>1, FS_Subset
    <2>3. Cardinality(upto(d)) \in Nat /\ Cardinality(S) \in Nat /\ Cardinality(upto(d)) # 0
      BY <2>1, <2>2, FS_CardinalityType, FS_EmptySet
    <2> QED
      BY <2>2, <2>3
  <1>2. ASSUME NEW d \in S, NEW e \in S, key[d] < key[e]
        PROVE  Cardinality(upto(d)) # Cardinality(upto(e))
    <2>1. upto(d) \in SUBSET upto(e)
      BY <1>2
    <2>2. e \in upto(e) /\ e \notin upto(d)
      BY <1>2
    <2>3. IsFiniteSet(upto(e))
      BY <1>1
    <2> HIDE DEF upto
    <2> QED
      BY <2>1, <2>2, <2>3, FS_Subset
  <1>3. \A d, e \in S : d # e => key[d] < key[e] \/ key[e] < key[d]
    BY DEF IsInjective
  <1> QED
    BY <1>1, <1>2, <1>3 DEF CountUpTo

LEMMA PlacesDiffer ==
  ASSUME NEW desks \in SUBSET DeskSet
  PROVE  /\ \A d \in desks : PlaceIn(desks, d) \in 1..Cardinality(desks) /\ PlaceIn(desks, d) \in Nat
         /\ \A d, e \in desks : d # e => PlaceIn(desks, d) # PlaceIn(desks, e)
  <1> DEFINE key == [d \in desks |-> 0 - Created(d)]
  <1>1. IsFiniteSet(desks)
    BY FiniteDesks, FS_Subset
  <1>2. key \in [desks -> Int]
    BY CreatedIs
  <1>3. IsInjective(key)
    <2>1. ASSUME NEW d \in desks, NEW e \in desks, key[d] = key[e] PROVE d = e
      <3>1. Created(d) = Created(e)
        BY <2>1, CreatedIs
      <3> QED
        BY <3>1, CreatedIs
    <2> QED
      BY <2>1 DEF IsInjective
  <1>4. ASSUME NEW d \in desks
        PROVE  PlaceIn(desks, d) = CountUpTo(desks, key, d)
    <2>1. \A e \in desks : Created(e) >= Created(d) <=> key[e] <= key[d]
      BY CreatedIs
    <2>2. {e \in desks : Created(e) >= Created(d)} = {e \in desks : key[e] <= key[d]}
      BY <2>1
    <2> QED
      BY <2>2 DEF PlaceIn, CountUpTo
  <1> HIDE DEF key
  <1> QED
    BY <1>1, <1>2, <1>3, <1>4, CountsDiffer

LEMMA TouchKeeps ==
  ASSUME DirectoryTypeOK, NEW touched \in SUBSET DeskSet, Touch(touched)
  PROVE  recency' \in [opened \cup touched -> Nat] /\ IsInjective(recency')
  <1> DEFINE rest == opened \ touched
             key == [d \in rest |-> recency[d]]
             after(d) == Cardinality({e \in rest : recency[e] <= recency[d]})
             place(d) == IF d \in touched THEN PlaceIn(touched, d)
                         ELSE Cardinality(touched) + after(d)
  <1>1. recency' = [d \in opened \cup touched |-> place(d)]
    BY DEF Touch
  <1>2. IsFiniteSet(touched) /\ IsFiniteSet(rest)
    BY FiniteDesks, FS_Subset DEF DirectoryTypeOK
  <1>3. key \in [rest -> Int] /\ IsInjective(key)
    BY DEF DirectoryTypeOK, IsInjective
  <1>4. Cardinality(touched) \in Nat
    BY <1>2, FS_CardinalityType
  <1>5. /\ \A d \in rest : after(d) \in Nat /\ after(d) >= 1
        /\ \A d, e \in rest : d # e => after(d) # after(e)
    <2>1. \A d \in rest : after(d) = CountUpTo(rest, key, d)
      <3>1. ASSUME NEW d \in rest PROVE {e \in rest : recency[e] <= recency[d]}
                                          = {e \in rest : key[e] <= key[d]}
        OBVIOUS
      <3> QED
        BY <3>1 DEF CountUpTo
    <2>2. /\ \A d \in rest : /\ CountUpTo(rest, key, d) \in 1..Cardinality(rest)
                             /\ CountUpTo(rest, key, d) \in Nat
          /\ \A d, e \in rest : d # e => CountUpTo(rest, key, d) # CountUpTo(rest, key, e)
      <3> HIDE DEF key, rest
      <3> QED
        BY <1>2, <1>3, CountsDiffer
    <2>3. \A n \in 1..Cardinality(rest) : n >= 1
      BY <1>2, FS_CardinalityType
    <2> HIDE DEF key, rest, after
    <2> QED
      BY <2>1, <2>2, <2>3
  <1>6. /\ \A d \in touched : /\ PlaceIn(touched, d) \in Nat
                              /\ PlaceIn(touched, d) <= Cardinality(touched)
        /\ \A d, e \in touched : d # e => PlaceIn(touched, d) # PlaceIn(touched, e)
    BY PlacesDiffer
  <1>7. \A d \in opened \cup touched : d \in touched \/ d \in rest
    OBVIOUS
  <1> HIDE DEF after, rest
  <1>8. \A d \in opened \cup touched : place(d) \in Nat
    BY <1>4, <1>5, <1>6, <1>7
  <1>9. ASSUME NEW d \in opened \cup touched, NEW e \in opened \cup touched, d # e
        PROVE  place(d) # place(e)
    <2>1. CASE d \in touched /\ e \in touched
      BY <1>6, <1>9, <2>1
    <2>2. CASE d \in touched /\ e \notin touched
      BY <1>4, <1>5, <1>6, <1>7, <2>2
    <2>3. CASE d \notin touched /\ e \in touched
      BY <1>4, <1>5, <1>6, <1>7, <2>3
    <2>4. CASE d \notin touched /\ e \notin touched
      BY <1>4, <1>5, <1>7, <1>9, <2>4
    <2> QED
      BY <2>1, <2>2, <2>3, <2>4
  <1> HIDE DEF place
  <1> QED
    BY <1>1, <1>8, <1>9 DEF IsInjective

LEMMA NewRowTyped ==
  ASSUME NEW level \in Levels, NEW status, NEW area \in Areas \cup {Nothing},
         NEW boss \in Officers \cup {Nothing}
  PROVE  NewRow(level, status, area, boss) \in SeatRow
  BY DEF NewRow, SeatRow

LEMMA RowIsNotEmpty == NoSeat \notin SeatRow
  BY DirectoryAssumption, ChainRungs DEF NoSeat, SeatRow, Rungs

\* An account is on a rung of the chain, or a reviewer.
LEMMA LevelNowTyped ==
  ASSUME DirectoryTypeOK, NEW u \in Officers
  PROVE  LevelNow(u) \in Levels
  <1> DEFINE has(r) == \E d \in OwnDesks(u) : seat[d][u].level = Chain[r]
             top(r) == has(r) /\ \A d \in OwnDesks(u) : Rank(seat[d][u].level) <= r
  <1>1. CASE ~IsOfficer(u)
    BY <1>1, ChainRungs DEF LevelNow
  <1>2. CASE IsOfficer(u)
    <2>1. \A d \in OwnDesks(u) : seat[d][u].level \in Rungs
      <3>1. ASSUME NEW d \in OwnDesks(u) PROVE seat[d][u].level \in Rungs
        <4>1. d \in DeskSet /\ seat[d][u] # NoSeat /\ seat[d][u].level # "Reviewer"
          BY <1>2 DEF OwnDesks, SeatsOf
        <4> QED
          BY <4>1, RowTyped, ChainRungs DEF SeatRow
      <3> QED
        BY <3>1
    <2>2. OwnDesks(u) # {}
      <3>1. PICK d \in SeatsOf(u) : seat[d][u].level \in Rungs
        BY <1>2, ChainRungs DEF IsOfficer
      <3>2. seat[d][u].level # "Reviewer"
        BY <3>1 DEF Rungs
      <3> QED
        BY <1>2, <3>1, <3>2 DEF OwnDesks
    <2>3. \A d \in OwnDesks(u) : \E r \in 1..3 : seat[d][u].level = Chain[r] /\ Rank(seat[d][u].level) = r
      <3>1. \A level \in Rungs : \E r \in 1..3 : level = Chain[r] /\ Rank(level) = r
        BY ChainRungs, RankOf DEF Rungs
      <3> QED
        BY <2>1, <3>1
    <2>4. \E r \in 1..3 : top(r)
      <3>1. CASE has(3)
        BY <2>3, <3>1
      <3>2. CASE has(2) /\ ~has(3)
        BY <2>3, <3>2
      <3>3. CASE ~has(2) /\ ~has(3)
        BY <2>2, <2>3, <3>3
      <3> QED
        BY <3>1, <3>2, <3>3
    <2>5. (CHOOSE r \in DOMAIN Chain : top(r)) \in 1..3
      <3> HIDE DEF top
      <3> QED
        BY <2>4, ChainRungs
    <2>6. LevelNow(u) = Chain[CHOOSE r \in DOMAIN Chain : top(r)]
      BY <1>2 DEF LevelNow
    <2> HIDE DEF top
    <2> QED
      BY <2>5, <2>6, ChainRungs, RankOf
  <1> QED
    BY <1>1, <1>2

\* What a call grants, and the heads, follow from the rows it wrote.
Roles == {"Officer", "Reviewer", DeskHeadRole}

LEMMA RolesKept ==
  ASSUME StaffingTypeOK, HeadsHoldTheRole, NEW u \in Officers, NEW grant \in SUBSET Roles,
         roles' = [roles EXCEPT ![u] = SyncDeskHeadRole(@ \cup grant, seat', u)],
         \A d \in DeskSet, v \in Officers \ {u} : seat'[d][v] = seat[d][v]
  PROVE  roles' \in [Officers -> SUBSET Roles] /\ HeadsHoldTheRole'
  <1> DEFINE mine == SyncDeskHeadRole(roles[u] \cup grant, seat', u)
  <1>1. roles \in [Officers -> SUBSET Roles] /\ roles' = [roles EXCEPT ![u] = mine]
    BY DEF StaffingTypeOK, Roles
  <1>2. mine \in SUBSET Roles /\ (HoldsTop(seat', u) => DeskHeadRole \in mine)
    <2>1. roles[u] \cup grant \in SUBSET Roles /\ DeskHeadRole \in Roles
      BY <1>1 DEF Roles
    <2> QED
      BY <2>1 DEF SyncDeskHeadRole
  <1> HIDE DEF mine
  <1>3. \A v \in Officers \ {u} : HoldsTop(seat', v) => HoldsTop(seat, v)
    BY DEF HoldsTop
  <1>4. roles'[u] = mine /\ \A v \in Officers \ {u} : roles'[v] = roles[v]
    BY <1>1
  <1>5. \A v \in Officers : HoldsTop(seat', v) => DeskHeadRole \in roles'[v]
    BY <1>2, <1>3, <1>4 DEF HeadsHoldTheRole
  <1> QED
    BY <1>1, <1>2, <1>5 DEF HeadsHoldTheRole

\* The calls write rows on the desks they open, and touch those.
LEMMA CallKeeps ==
  ASSUME DirectoryTypeOK, NEW touched \in SUBSET DeskSet, Touch(touched),
         NEW added \in SUBSET touched, touched \subseteq opened \cup added,
         opened' = opened \cup added, serving' \subseteq opened',
         seat' \in [DeskSet -> [Officers -> SeatRow \cup {NoSeat}]],
         \A d \in DeskSet, v \in Officers :
           seat'[d][v] # NoSeat => d \in opened' \/ seat[d][v] # NoSeat
  PROVE  DirectoryTypeOK'
  <1>1. opened' = opened \cup touched /\ opened' \subseteq DeskSet
    BY DEF DirectoryTypeOK
  <1>2. recency' \in [opened' -> Nat] /\ IsInjective(recency')
    BY <1>1, TouchKeeps
  <1>3. \A d \in DeskSet : d \in opened' \/ SeatedOn(d)' = {}
    BY DEF DirectoryTypeOK, SeatedOn
  <1> QED
    BY <1>1, <1>2, <1>3 DEF DirectoryTypeOK

LEMMA SeatKeeps ==
  ASSUME StaffingTypeOK, HeadsHoldTheRole, NEW u \in Officers, NEW hire \in Hires,
         NEW boss \in Officers \cup {Nothing}, Seat(u, hire, boss)
  PROVE  DirectoryTypeOK' /\ roles' \in [Officers -> SUBSET Roles] /\ HeadsHoldTheRole'
  <1> DEFINE row == NewRow(hire.level, hire.status, hire.area, boss)
             rows == [d \in DeskSet |-> IF d \in hire.desks THEN [seat[d] EXCEPT ![u] = row]
                                        ELSE seat[d]]
  <1>1. /\ hire.level \in Levels /\ hire.desks \in SUBSET DeskSet
        /\ hire.area \in Areas \cup {Nothing}
    BY CallsAssumption
  <1>2. row \in SeatRow
    BY <1>1, NewRowTyped
  <1>3. seat \in [DeskSet -> [Officers -> SeatRow \cup {NoSeat}]]
    BY DEF StaffingTypeOK, DirectoryTypeOK
  <1>4. seat' = rows /\ opened' = opened \cup hire.desks /\ Touch(hire.desks)
        /\ serving' = serving \cup (hire.desks \ opened)
        /\ roles' = [roles EXCEPT ![u] = SyncDeskHeadRole(@ \cup {RoleFor(hire.level)}, rows, u)]
    BY DEF Seat
  <1> HIDE DEF row
  <1>5. seat' \in [DeskSet -> [Officers -> SeatRow \cup {NoSeat}]]
    BY <1>2, <1>3, <1>4
  <1>6. \A d \in DeskSet, v \in Officers \ {u} : seat'[d][v] = seat[d][v]
    BY <1>3, <1>4
  <1>7. \A d \in DeskSet : d \in hire.desks \/ seat'[d] = seat[d]
    BY <1>4
  <1> HIDE DEF rows
  <1>8. DirectoryTypeOK'
    <2>1. serving \subseteq opened
      BY DEF StaffingTypeOK, DirectoryTypeOK
    <2> QED
      BY <1>1, <1>4, <1>5, <1>7, <2>1, CallKeeps DEF StaffingTypeOK
  <1>9. roles' \in [Officers -> SUBSET Roles] /\ HeadsHoldTheRole'
    <2>1. {RoleFor(hire.level)} \in SUBSET Roles
      BY DEF RoleFor, Roles
    <2> QED
      BY <1>4, <1>6, <2>1, RolesKept
  <1> QED
    BY <1>8, <1>9

LEMMA RewrittenTyped ==
  ASSUME DirectoryTypeOK, NEW row \in SeatRow, NEW u \in Officers, NEW change \in Changes,
         NEW level \in Levels
  PROVE  Rewritten(row, u, change, level) \in SeatRow
  <1> DEFINE moves == level # LevelNow(u)
             status == IF "status" \in DOMAIN change THEN change["status"] ELSE "as is"
             area == IF "area" \in DOMAIN change THEN change["area"] ELSE row.area
             boss == IF "boss" \in DOMAIN change THEN change["boss"]
                     ELSE IF moves THEN Nothing ELSE row.reportsTo
             rung == IF moves THEN level ELSE row.level
             active == IF status = "as is" THEN row.active ELSE status # "Inactive"
             leave == IF status = "as is" THEN row.leave ELSE status = "On Leave"
             primary == IF moves THEN level = "L1" ELSE row.primary
  <1>1. Rewritten(row, u, change, level) =
          [level |-> rung, area |-> area, reportsTo |-> boss, active |-> active,
           leave |-> leave, primary |-> primary]
    BY DEF Rewritten
  <1>2. area \in Areas \cup {Nothing} /\ boss \in Officers \cup {Nothing}
    BY CallsAssumption DEF SeatRow
  <1>3. rung \in Levels
    BY DEF SeatRow
  <1>4. active \in BOOLEAN /\ leave \in BOOLEAN /\ primary \in BOOLEAN
    BY DEF SeatRow
  <1> HIDE DEF rung, area, boss, active, leave, primary
  <1> QED
    BY <1>1, <1>2, <1>3, <1>4 DEF SeatRow

LEMMA ReseatKeeps ==
  ASSUME StaffingTypeOK, HeadsHoldTheRole, NEW u \in Officers, NEW change \in Changes,
         NEW target \in SUBSET DeskSet, NEW level \in Levels, Reseat(u, change, target, level)
  PROVE  DirectoryTypeOK' /\ roles' \in [Officers -> SUBSET Roles] /\ HeadsHoldTheRole'
  <1> DEFINE status == IF "status" \in DOMAIN change THEN change.status ELSE StatusNow(u)
             left == OwnDesks(u) \ target
             present(d) == IF seat[d][u] # NoSeat THEN seat[d][u]
                           ELSE NewRow(level, status, Nothing, Nothing)
             rows == [d \in DeskSet |->
               CASE d \in left -> [seat[d] EXCEPT ![u] = NoSeat]
                 [] d \in target -> [seat[d] EXCEPT ![u] = Rewritten(present(d), u, change, level)]
                 [] OTHER -> seat[d]]
  <1>1. DirectoryTypeOK /\ seat \in [DeskSet -> [Officers -> SeatRow \cup {NoSeat}]]
    BY DEF StaffingTypeOK, DirectoryTypeOK
  <1>2. seat' = rows /\ opened' = opened \cup target /\ Touch(left \cup target)
        /\ serving' = serving \cup (target \ opened)
        /\ roles' = [roles EXCEPT ![u] = SyncDeskHeadRole(@, rows, u)]
    BY DEF Reseat
  <1>3. left \subseteq opened /\ left \subseteq DeskSet /\ left \cap target = {}
    <2>1. \A d \in OwnDesks(u) : d \in DeskSet /\ seat[d][u] # NoSeat
      BY DEF OwnDesks, SeatsOf
    <2> QED
      BY <1>1, <2>1 DEF DirectoryTypeOK, SeatedOn
  <1>4. ASSUME NEW d \in target PROVE Rewritten(present(d), u, change, level) \in SeatRow
    <2>1. present(d) \in SeatRow
      BY <1>1, NewRowTyped
    <2> HIDE DEF present
    <2> QED
      BY <1>1, <2>1, RewrittenTyped
  <1> HIDE DEF present, left
  <1>5. ASSUME NEW d \in DeskSet
        PROVE  /\ seat'[d] \in [Officers -> SeatRow \cup {NoSeat}]
               /\ \A v \in Officers \ {u} : seat'[d][v] = seat[d][v]
               /\ d \in left \/ d \in target \/ seat'[d] = seat[d]
    <2>1. CASE d \in left
      <3>1. seat'[d] = [seat[d] EXCEPT ![u] = NoSeat]
        BY <1>2, <1>3, <2>1
      <3> QED
        BY <1>1, <2>1, <3>1
    <2>2. CASE d \notin left /\ d \in target
      <3>1. seat'[d] = [seat[d] EXCEPT ![u] = Rewritten(present(d), u, change, level)]
        BY <1>2, <2>2
      <3> QED
        BY <1>1, <1>4, <2>2, <3>1
    <2>3. CASE d \notin left /\ d \notin target
      <3>1. seat'[d] = seat[d]
        BY <1>2, <2>3
      <3> QED
        BY <1>1, <3>1
    <2> QED
      BY <2>1, <2>2, <2>3
  <1>6. seat' \in [DeskSet -> [Officers -> SeatRow \cup {NoSeat}]]
    <2>1. seat' = [d \in DeskSet |-> seat'[d]]
      BY <1>2
    <2> QED
      BY <1>5, <2>1
  <1> HIDE DEF rows
  <1>7. DirectoryTypeOK'
    <2>1. serving \subseteq opened
      BY <1>1 DEF DirectoryTypeOK
    <2>2. serving' \subseteq opened'
      BY <1>2, <2>1
    <2>3. left \cup target \in SUBSET DeskSet /\ left \cup target \subseteq opened \cup target
          /\ target \in SUBSET (left \cup target)
      BY <1>3
    <2>4. \A d \in DeskSet, v \in Officers :
            seat'[d][v] # NoSeat => d \in opened' \/ seat[d][v] # NoSeat
      BY <1>2, <1>3, <1>5
    <2> QED
      BY <1>1, <1>2, <1>6, <2>2, <2>3, <2>4, CallKeeps
  <1>8. roles' \in [Officers -> SUBSET Roles] /\ HeadsHoldTheRole'
    <2>1. roles[u] \cup {} = roles[u] /\ {} \in SUBSET Roles
      OBVIOUS
    <2>2. roles' = [roles EXCEPT ![u] = SyncDeskHeadRole(@ \cup {}, seat', u)]
      BY <1>2, <2>1
    <2> QED
      BY <1>5, <2>1, <2>2, RolesKept
  <1> QED
    BY <1>7, <1>8

\* A category assignment seats an L1 and an L2 and takes two rows away at most,
\* so it makes nobody a head.
LEMMA WriteDeskKeeps ==
  ASSUME DirectoryTypeOK, NEW d \in DeskSet, NEW l1 \in Officers \cup {Nothing},
         NEW l2 \in Officers \cup {Nothing}, NEW seats, WriteDesk(d, l1, l2, seats)
  PROVE  /\ seat' \in [DeskSet -> [Officers -> SeatRow \cup {NoSeat}]]
         /\ \A e \in DeskSet : e # d => seat'[e] = seat[e]
         /\ \A u \in Officers : HoldsTop(seat', u) => HoldsTop(seat, u)
  <1> DEFINE wanted == {l1, l2} \ {Nothing}
             vacated == (seats \ {Nothing}) \ wanted
             sits(u) == seat[d][u] # NoSeat
             row(u) == [level |-> IF u = l1 THEN "L1" ELSE "L2", primary |-> u = l1, active |-> TRUE,
                        reportsTo |-> IF u = l1 THEN l2 ELSE Nothing,
                        area |-> IF sits(u) THEN seat[d][u].area ELSE Nothing,
                        leave |-> sits(u) /\ seat[d][u].leave]
             cell(u) == IF u \in wanted THEN row(u) ELSE IF u \in vacated THEN NoSeat ELSE seat[d][u]
  <1>1. seat \in [DeskSet -> [Officers -> SeatRow \cup {NoSeat}]]
    BY DEF DirectoryTypeOK
  <1>2. seat' = [seat EXCEPT ![d] = [u \in Officers |-> cell(u)]]
    BY DEF WriteDesk
  <1>3. ASSUME NEW u \in Officers PROVE row(u) \in SeatRow /\ row(u).level # Top
    <2> DEFINE area == IF sits(u) THEN seat[d][u].area ELSE Nothing
               leave == sits(u) /\ seat[d][u].leave
               level == IF u = l1 THEN "L1" ELSE "L2"
               boss == IF u = l1 THEN l2 ELSE Nothing
    <2>1. area \in Areas \cup {Nothing}
      BY <1>1, RowTyped DEF SeatRow
    <2>2. leave \in BOOLEAN
      BY <1>1, RowTyped DEF SeatRow
    <2>3. level \in Levels /\ level # Top /\ boss \in Officers \cup {Nothing}
      BY ChainRungs DEF Rungs
    <2>4. row(u) = [level |-> level, primary |-> u = l1, active |-> TRUE, reportsTo |-> boss,
                    area |-> area, leave |-> leave]
      OBVIOUS
    <2> HIDE DEF area, leave, level, boss, row
    <2> QED
      BY <2>1, <2>2, <2>3, <2>4 DEF SeatRow
  <1> HIDE DEF row
  <1>4. \A u \in Officers : cell(u) \in SeatRow \cup {NoSeat}
    BY <1>1, <1>3
  <1>5. ASSUME NEW u \in Officers, cell(u) # NoSeat, cell(u).level = Top
        PROVE  cell(u) = seat[d][u]
    BY <1>3, <1>5
  <1> HIDE DEF cell
  <1>6. seat' \in [DeskSet -> [Officers -> SeatRow \cup {NoSeat}]]
    BY <1>1, <1>2, <1>4
  <1>7. \A e \in DeskSet : e # d => seat'[e] = seat[e]
    BY <1>1, <1>2
  <1>8. \A u \in Officers : seat'[d][u] = cell(u)
    BY <1>1, <1>2
  <1>9. ASSUME NEW u \in Officers, HoldsTop(seat', u) PROVE HoldsTop(seat, u)
    <2>1. PICK e \in DeskSet : seat'[e][u] # NoSeat /\ seat'[e][u].level = Top /\ seat'[e][u].active
      BY <1>9 DEF HoldsTop
    <2>2. seat'[e][u] = seat[e][u]
      BY <1>5, <1>7, <1>8, <2>1
    <2> QED
      BY <2>1, <2>2 DEF HoldsTop
  <1> QED
    BY <1>6, <1>7, <1>9

LEMMA CreateAssignmentKeeps ==
  ASSUME StaffingTypeOK, HeadsHoldTheRole, NEW d \in DeskSet, NEW l1 \in Officers \cup {Nothing},
         NEW l2 \in Officers \cup {Nothing}, CreateAssignment(d, l1, l2)
  PROVE  DirectoryTypeOK' /\ roles' \in [Officers -> SUBSET Roles] /\ HeadsHoldTheRole'
  <1>1. /\ WriteDesk(d, l1, l2, {}) /\ Touch({d})
        /\ opened' = opened \cup {d} /\ serving' = serving \cup {d} /\ roles' = roles
    BY DEF CreateAssignment
  <1>2. DirectoryTypeOK /\ serving \subseteq opened /\ roles \in [Officers -> SUBSET Roles]
    BY DEF StaffingTypeOK, DirectoryTypeOK, Roles
  <1>3. /\ seat' \in [DeskSet -> [Officers -> SeatRow \cup {NoSeat}]]
        /\ \A e \in DeskSet : e # d => seat'[e] = seat[e]
        /\ \A u \in Officers : HoldsTop(seat', u) => HoldsTop(seat, u)
    BY <1>1, <1>2, WriteDeskKeeps
  <1>4. DirectoryTypeOK'
    <2>1. {d} \in SUBSET DeskSet /\ {d} \in SUBSET {d} /\ {d} \subseteq opened \cup {d}
      OBVIOUS
    <2>2. \A e \in DeskSet, v \in Officers : seat'[e][v] # NoSeat => e \in opened' \/ seat[e][v] # NoSeat
      BY <1>1, <1>3
    <2>3. serving' \subseteq opened'
      BY <1>1, <1>2
    <2> QED
      BY <1>1, <1>2, <1>3, <2>1, <2>2, <2>3, CallKeeps
  <1> QED
    BY <1>1, <1>2, <1>3, <1>4 DEF HeadsHoldTheRole

LEMMA UpdateAssignmentKeeps ==
  ASSUME StaffingTypeOK, HeadsHoldTheRole, NEW d \in DeskSet, NEW edit \in SeatEdits,
         UpdateAssignment(d, edit)
  PROVE  DirectoryTypeOK' /\ roles' \in [Officers -> SUBSET Roles] /\ HeadsHoldTheRole'
  <1>1. DirectoryTypeOK /\ serving \subseteq opened /\ roles \in [Officers -> SUBSET Roles]
        /\ seat \in [DeskSet -> [Officers -> SeatRow \cup {NoSeat}]]
    BY DEF StaffingTypeOK, DirectoryTypeOK, Roles
  <1>2. \A level : Seated(d, level) \subseteq Officers
    BY DEF Seated
  <1>3. FirstSeats(d) \subseteq Officers \cup {Nothing}
    BY <1>2 DEF FirstSeats, PrimaryFirst, OrNobody
  <1>4. \A first : SecondSeats(d, first) \subseteq Officers \cup {Nothing}
    BY <1>2 DEF SecondSeats, OrNobody, Least
  <1>5. PICK first \in FirstSeats(d) : \E second \in SecondSeats(d, first) :
          LET l1 == IF edit.l1 = Keep THEN first ELSE edit.l1
              l2 == IF edit.l2 = Keep THEN second ELSE edit.l2
          IN  /\ d \in opened
              /\ seat' = seat \/ WriteDesk(d, l1, l2, {first, second})
              /\ serving' = CASE edit.active = Keep -> serving
                              [] edit.active = "on" -> serving \cup {d}
                              [] edit.active = "off" -> serving \ {d}
              /\ Touch({d}) /\ opened' = opened /\ roles' = roles
    BY DEF UpdateAssignment
  <1>6. PICK second \in SecondSeats(d, first) :
          LET l1 == IF edit.l1 = Keep THEN first ELSE edit.l1
              l2 == IF edit.l2 = Keep THEN second ELSE edit.l2
          IN  /\ d \in opened
              /\ seat' = seat \/ WriteDesk(d, l1, l2, {first, second})
              /\ serving' = CASE edit.active = Keep -> serving
                              [] edit.active = "on" -> serving \cup {d}
                              [] edit.active = "off" -> serving \ {d}
              /\ Touch({d}) /\ opened' = opened /\ roles' = roles
    BY <1>5
  <1> DEFINE l1 == IF edit.l1 = Keep THEN first ELSE edit.l1
             l2 == IF edit.l2 = Keep THEN second ELSE edit.l2
  <1>7. l1 \in Officers \cup {Nothing} /\ l2 \in Officers \cup {Nothing}
    BY <1>3, <1>4, CallsAssumption
  <1>8. seat' = seat \/ WriteDesk(d, l1, l2, {first, second})
    BY <1>6
  <1> HIDE DEF l1, l2
  <1>9. /\ seat' \in [DeskSet -> [Officers -> SeatRow \cup {NoSeat}]]
        /\ \A e \in DeskSet : e # d => seat'[e] = seat[e]
        /\ \A u \in Officers : HoldsTop(seat', u) => HoldsTop(seat, u)
    BY <1>1, <1>7, <1>8, WriteDeskKeeps
  <1>10. serving' \subseteq opened /\ d \in opened
    BY <1>1, <1>6, CallsAssumption
  <1>11. DirectoryTypeOK'
    <2>1. {d} \in SUBSET DeskSet /\ {} \in SUBSET {d} /\ opened' = opened \cup {}
          /\ {d} \subseteq opened \cup {}
      BY <1>6, <1>10
    <2>2. \A e \in DeskSet, v \in Officers : seat'[e][v] # NoSeat => e \in opened' \/ seat[e][v] # NoSeat
      BY <1>6, <1>9, <1>10
    <2>3. serving' \subseteq opened' /\ Touch({d})
      BY <1>6, <1>10
    <2> QED
      BY <1>1, <1>9, <2>1, <2>2, <2>3, CallKeeps
  <1> QED
    BY <1>1, <1>6, <1>9, <1>11 DEF HeadsHoldTheRole

LEMMA TargetTyped ==
  ASSUME NEW u, NEW change \in Changes, NEW level
  PROVE  Target(u, change, level) \in SUBSET DeskSet
  BY CallsAssumption DEF Target, DesksFor

LEMMA NewLevelTyped ==
  ASSUME DirectoryTypeOK, NEW u \in Officers, NEW change \in Changes
  PROVE  NewLevel(u, change) \in Levels
  BY LevelNowTyped, CallsAssumption DEF NewLevel

LEMMA EditKeeps ==
  ASSUME StaffingTypeOK, HeadsHoldTheRole, StaffingEdit
  PROVE  StaffingTypeOK' /\ HeadsHoldTheRole'
  <1> DEFINE Kept == DirectoryTypeOK' /\ roles' \in [Officers -> SUBSET Roles] /\ HeadsHoldTheRole'
  <1>0. DirectoryTypeOK
    BY DEF StaffingTypeOK
  <1>1. ASSUME NEW u \in Officers, NEW hire \in Hires, CreateOfficer(u, hire) PROVE Kept
    <2>1. hire.boss \in Officers \cup {Nothing}
      BY CallsAssumption
    <2> QED
      BY <1>1, <2>1, SeatKeeps DEF CreateOfficer
  <1>2. ASSUME NEW u \in Officers, NEW hire \in Hires, NEW head \in Officers,
               CreateByHead(head, u, hire)
        PROVE  Kept
    <2>1. (IF hire.boss = Nothing THEN head ELSE hire.boss) \in Officers \cup {Nothing}
      BY CallsAssumption
    <2> QED
      BY <1>2, <2>1, SeatKeeps DEF CreateByHead
  <1>3. ASSUME NEW u \in Officers, NEW change \in Changes, UpdateOfficer(u, change) PROVE Kept
    BY <1>0, <1>3, TargetTyped, NewLevelTyped, ReseatKeeps DEF UpdateOfficer
  <1>4. ASSUME NEW u \in Officers, NEW change \in Changes, NEW head \in Officers,
               UpdateByHead(head, u, change)
        PROVE  Kept
    BY <1>0, <1>4, TargetTyped, NewLevelTyped, ReseatKeeps DEF UpdateByHead
  <1>5. ASSUME NEW d \in DeskSet, NEW edit \in SeatEdits, UpdateAssignment(d, edit) PROVE Kept
    BY <1>5, UpdateAssignmentKeeps
  <1>6. ASSUME NEW d \in DeskSet, NEW edit \in SeatEdits, Keep \notin {edit.l1, edit.l2},
               CreateAssignment(d, edit.l1, edit.l2)
        PROVE  Kept
    <2>1. edit.l1 \in Officers \cup {Nothing} /\ edit.l2 \in Officers \cup {Nothing}
      BY <1>6, CallsAssumption
    <2> QED
      BY <1>6, <2>1, CreateAssignmentKeeps
  <1> HIDE DEF Kept
  <1>7. Kept
    BY <1>1, <1>2, <1>3, <1>4, <1>5, <1>6 DEF StaffingEdit
  <1>8. edits' \in 0..MaxEdits
    BY CallsAssumption DEF StaffingEdit, StaffingTypeOK
  <1> QED
    BY <1>7, <1>8 DEF Kept, StaffingTypeOK, Roles

LEMMA StaffingStart ==
  ASSUME StaffingInit
  PROVE  StaffingTypeOK /\ HeadsHoldTheRole
  <1>1. /\ seat = InitialSeats /\ opened = InitialDesks /\ serving = InitialDesks /\ edits = 0
        /\ roles = [u \in Officers |-> RolesOf(InitialSeats, u)]
        /\ recency = [d \in InitialDesks |-> PlaceIn(InitialDesks, d)]
    BY DEF StaffingInit
  <1>2. recency \in [opened -> Nat] /\ IsInjective(recency)
    <2>1. InitialDesks \in SUBSET DeskSet
      BY CallsAssumption
    <2>2. /\ \A d \in InitialDesks : PlaceIn(InitialDesks, d) \in Nat
          /\ \A d, e \in InitialDesks : d # e => PlaceIn(InitialDesks, d) # PlaceIn(InitialDesks, e)
      BY <2>1, PlacesDiffer
    <2> QED
      BY <1>1, <2>2 DEF IsInjective
  <1>3. \A d \in DeskSet : d \in opened \/ SeatedOn(d) = {}
    BY <1>1, CallsAssumption DEF SeatedOn
  <1>4. DirectoryTypeOK
    BY <1>1, <1>2, <1>3, CallsAssumption DEF DirectoryTypeOK
  <1>5. ASSUME NEW u \in Officers
        PROVE  /\ RolesOf(InitialSeats, u) \in SUBSET Roles
               /\ HoldsTop(InitialSeats, u) => DeskHeadRole \in RolesOf(InitialSeats, u)
    BY DEF RolesOf, RoleFor, Roles
  <1>6. roles \in [Officers -> SUBSET Roles] /\ HeadsHoldTheRole
    BY <1>1, <1>5 DEF HeadsHoldTheRole
  <1> QED
    BY <1>1, <1>4, <1>6, CallsAssumption DEF StaffingTypeOK, Roles

-----------------------------------------------------------------------------
(***************************************************************************)
(* The case and its request.  Whoever is named in them is an officer.      *)
(***************************************************************************)
SomeOfficer == Officers \cup {Nothing}
SomeDepartment == Departments \cup {Nothing}

CaseTyped ==
  /\ HeldFields
  /\ held.officer \in SomeOfficer /\ held.department \in SomeDepartment

RequestTyped ==
  /\ request.status \in {"none", "Pending"} /\ request.with \in SomeOfficer
  /\ request.status = "Pending" =>
       /\ request.by \in People
       /\ request.new.officer \in SomeOfficer /\ request.new.department \in SomeDepartment

AuthorityInv ==
  /\ StaffingTypeOK /\ HeadsHoldTheRole
  /\ CaseTyped /\ RequestTyped
  /\ movers \subseteq People /\ asked \in 0..MaxAsked

LEMMA HeadsAreOfficers ==
  ASSUME NEW level, NEW c
  PROVE  OfficersAtLevel(level, c) \subseteq Officers
  BY DEF OfficersAtLevel, BestCovering, Least, WorkingSeats

LEMMA AuthoritiesAreOfficers ==
  ASSUME DirectoryTypeOK, NEW u, NEW c, NEW o \in HigherAuthority(u, c)
  PROVE  o \in Officers
  <1> DEFINE rank == Rank(CurrentLevel(u))
             boss == Supervisor(u, c, FALSE)
  <1>1. o \in NearestAbove(u, rank, c) \/ (o = boss /\ boss # Nothing)
    BY AuthorityIs
  <1>2. CASE o \in NearestAbove(u, rank, c)
    <2>1. \E r \in DOMAIN Chain, s \in WorkingSeats :
            r > rank /\ s[2] = o /\ Row(s).level = Chain[r]
      <3> HIDE DEF rank
      <3> QED
        BY <1>2, AboveSits
    <2> QED
      BY <2>1, WorkingRow
  <1>3. CASE o = boss /\ boss # Nothing
    <2>1. Supervisor(u, c, FALSE) # Nothing
      BY <1>3
    <2>2. \E s \in WorkingSeats : /\ s[2] = u /\ Row(s).reportsTo = Supervisor(u, c, FALSE)
                                  /\ Row(s).reportsTo \in Officers
      BY <2>1, SupervisorNamed
    <2> QED
      BY <1>3, <2>2
  <1> QED
    BY <1>1, <1>2, <1>3

LEMMA DepartmentTyped ==
  ASSUME NEW d \in DeskSet
  PROVE  Scope[d].department \in Departments
  BY DEF Departments

\* A case takes the values of what is applied, and its own for the rest.
LEMMA ApplyKeeps ==
  ASSUME CaseTyped, NEW old, NEW new, Apply(old, new),
         new.officer \in SomeOfficer, new.department \in SomeDepartment
  PROVE  CaseTyped'
  <1> DEFINE set == [f \in DOMAIN held |->
                       IF f \in Fields /\ old[f] # new[f] THEN new[f] ELSE held[f]]
             desk == IF old = new THEN held.desk ELSE MatchingDesk(set)
             last == IF desk = Nothing THEN held.desk ELSE desk
  <1>1. held' = [set EXCEPT !.desk = last]
    BY DEF Apply
  <1>2. DOMAIN held = CaseFields
    BY DEF CaseTyped, HeldFields
  <1>3. set = [f \in CaseFields |-> set[f]]
    BY <1>2
  <1>4. set.officer \in {held.officer, new.officer} /\ set.department \in {held.department, new.department}
    BY <1>2 DEF CaseFields
  <1> HIDE DEF set, last
  <1>5. held'.officer = set.officer /\ held'.department = set.department
    BY <1>1, <1>3 DEF CaseFields
  <1>6. HeldFields'
    BY <1>1, <1>3 DEF HeldFields
  <1> QED
    BY <1>4, <1>5, <1>6 DEF CaseTyped

LEMMA RaiseKeeps ==
  ASSUME AuthorityInv, NEW by \in People, MayRaise(by), NEW kind, NEW new, NEW decided \in BOOLEAN,
         NEW approvers \in SUBSET Officers, Raise(by, kind, new, decided, approvers),
         new.officer \in SomeOfficer, new.department \in SomeDepartment
  PROVE  CaseTyped' /\ RequestTyped' /\ movers' \subseteq People /\ asked' \in 0..MaxAsked
  <1>1. asked' \in 0..MaxAsked
    BY AskedAssumption DEF AuthorityInv, Raise, MayRaise
  <1>2. CASE Apply(held, new) /\ movers' = movers \cup {by} /\ UNCHANGED request
    <2>1. CaseTyped'
      BY <1>2, ApplyKeeps DEF AuthorityInv
    <2> QED
      BY <1>1, <1>2, <2>1 DEF AuthorityInv, RequestTyped
  <1>3. CASE /\ \E u \in OrNobody(approvers) :
                  request' = [status |-> "Pending", kind |-> kind, by |-> by, with |-> u,
                              old |-> held, new |-> new]
             /\ UNCHANGED <<held, movers>>
    <2>1. PICK u \in OrNobody(approvers) :
            request' = [status |-> "Pending", kind |-> kind, by |-> by, with |-> u,
                        old |-> held, new |-> new]
      BY <1>3
    <2>2. u \in SomeOfficer
      BY DEF OrNobody, SomeOfficer
    <2>3. RequestTyped'
      BY <2>1, <2>2 DEF RequestTyped
    <2> QED
      BY <1>1, <1>3, <2>3 DEF AuthorityInv, CaseTyped, HeldFields
  <1> QED
    BY <1>2, <1>3 DEF Raise

LEMMA MoveKeeps ==
  ASSUME AuthorityInv, NEW department \in SomeDepartment, NEW u \in SomeOfficer, NEW category,
         RaiseMove(department, u, category)
  PROVE  CaseTyped' /\ RequestTyped' /\ movers' \subseteq People /\ asked' \in 0..MaxAsked
  <1>1. PICK new \in Resolve(held, department, u, category) :
          \E needed \in NeedsRuling(held), by \in {p \in People : MayRaise(p)} :
            Raise(by, "move", new, MayDecideMove(by, held, new, needed), DepartmentHeads(new))
    BY DEF RaiseMove
  <1>2. PICK needed \in NeedsRuling(held) : \E by \in {p \in People : MayRaise(p)} :
            Raise(by, "move", new, MayDecideMove(by, held, new, needed), DepartmentHeads(new))
    BY <1>1
  <1>3. PICK by \in {p \in People : MayRaise(p)} :
            Raise(by, "move", new, MayDecideMove(by, held, new, needed), DepartmentHeads(new))
    BY <1>2
  <1>4. new.officer \in SomeOfficer /\ new.department \in SomeDepartment
    <2>1. /\ new.officer \in Officers
          /\ \/ department # Nothing /\ new.department = department
             \/ \E d \in serving : new.department = Scope[d].department
      BY ProposalStands DEF AuthorityInv, CaseTyped, SomeOfficer
    <2> QED
      BY <2>1, DepartmentTyped
         DEF AuthorityInv, StaffingTypeOK, DirectoryTypeOK, SomeOfficer, SomeDepartment
  <1>5. DepartmentHeads(new) \in SUBSET Officers
    BY HeadsAreOfficers DEF DepartmentHeads
  <1>6. MayDecideMove(by, held, new, needed) \in BOOLEAN
    BY DEF MayDecideMove
  <1> QED
    BY <1>3, <1>4, <1>5, <1>6, RaiseKeeps

LEMMA DeferralKeeps ==
  ASSUME AuthorityInv, NEW by \in People, RaiseDeferral(by)
  PROVE  CaseTyped' /\ RequestTyped' /\ movers' \subseteq People /\ asked' \in 0..MaxAsked
  <1>1. HigherAuthority(by, held) \in SUBSET Officers
    BY AuthoritiesAreOfficers DEF AuthorityInv, StaffingTypeOK
  <1>2. MayDecideDeferral(by, held) \in BOOLEAN
    BY DEF MayDecideDeferral
  <1>3. held.officer \in SomeOfficer /\ held.department \in SomeDepartment
    BY DEF AuthorityInv, CaseTyped
  <1> QED
    BY <1>1, <1>2, <1>3, RaiseKeeps DEF RaiseDeferral

LEMMA RouteKeeps ==
  ASSUME AuthorityInv, RouteCase
  PROVE  CaseTyped'
  <1>0. DirectoryTypeOK
    BY DEF AuthorityInv, StaffingTypeOK
  <1>1. PICK desks \in {Candidates(held), {d \in Candidates(held) : Scope[d].department = Unrouted}} :
          LET desk == RoutedTo(desks, held)
          IN  /\ desk # Nothing
              /\ \E u \in PicksOn(desk, held) :
                   held' = [held EXCEPT !.officer = u, !.desk = desk,
                                        !.department = Scope[desk].department]
    BY DEF RouteCase
  <1> DEFINE desk == RoutedTo(desks, held)
  <1>2. desks \in SUBSET serving
    BY <1>1 DEF Candidates
  <1>3. desk \in DeskSet
    <2>1. desk \in desks
      BY <1>0, <1>1, <1>2, RoutedWhenAble
    <2> QED
      BY <1>0, <1>2, <2>1 DEF DirectoryTypeOK
  <1>4. PICK u \in PicksOn(desk, held) :
          held' = [held EXCEPT !.officer = u, !.desk = desk, !.department = Scope[desk].department]
    BY <1>1
  <1>5. u \in Officers /\ Scope[desk].department \in Departments
    BY <1>3, <1>4, PickedAvailable, DepartmentTyped DEF Available
  <1> HIDE DEF desk
  <1> QED
    BY <1>4, <1>5 DEF AuthorityInv, CaseTyped, HeldFields, CaseFields, SomeOfficer, SomeDepartment

LEMMA EscalateKeeps ==
  ASSUME AuthorityInv, EscalateCase
  PROVE  CaseTyped'
  <1>1. PICK u \in HigherAuthority(held.officer, held) : held' = [held EXCEPT !.officer = u]
    BY DEF EscalateCase
  <1>2. u \in Officers
    BY <1>1, AuthoritiesAreOfficers DEF AuthorityInv, StaffingTypeOK
  <1> QED
    BY <1>1, <1>2 DEF AuthorityInv, CaseTyped, HeldFields, CaseFields, SomeOfficer

LEMMA ForwardKeeps ==
  ASSUME AuthorityInv, Forward
  PROVE  RequestTyped'
  <1>1. PICK u \in OrNobody(HigherAuthority(request.with, held)) : request' = [request EXCEPT !.with = u]
    BY DEF Forward
  <1>2. HigherAuthority(request.with, held) \subseteq Officers
    BY AuthoritiesAreOfficers DEF AuthorityInv, StaffingTypeOK
  <1>3. u \in SomeOfficer
    BY <1>1, <1>2 DEF OrNobody, SomeOfficer
  <1>4. /\ request'.status = request.status /\ request'.by = request.by /\ request'.new = request.new
        /\ request'.with \in {u, request.with}
    BY <1>1
  <1> QED
    BY <1>3, <1>4 DEF AuthorityInv, RequestTyped

LEMMA DecideKeeps ==
  ASSUME AuthorityInv, NEW u \in People, NEW approve \in BOOLEAN, Decide(u, approve)
  PROVE  CaseTyped' /\ RequestTyped' /\ movers' \subseteq People
  <1>1. request' = NoRequest /\ RequestTyped'
    BY DEF Decide, RequestTyped, NoRequest, SomeOfficer
  <1>2. CASE approve
    <2>1. Apply(request.old, request.new) /\ movers' = movers \cup {request.by, u}
      BY <1>2 DEF Decide
    <2>2. /\ request.by \in People
          /\ request.new.officer \in SomeOfficer /\ request.new.department \in SomeDepartment
      BY DEF AuthorityInv, RequestTyped, Decide
    <2> QED
      BY <1>1, <2>1, <2>2, ApplyKeeps DEF AuthorityInv
  <1>3. CASE ~approve
    BY <1>1, <1>3 DEF Decide, AuthorityInv, CaseTyped, HeldFields
  <1> QED
    BY <1>2, <1>3

LEMMA StaffRests ==
  ASSUME AuthorityInv, UNCHANGED staffingVars
  PROVE  StaffingTypeOK' /\ HeadsHoldTheRole'
  <1>1. /\ seat' = seat /\ serving' = serving /\ opened' = opened /\ recency' = recency
        /\ roles' = roles /\ edits' = edits
    BY DEF staffingVars, directoryVars
  <1>2. DirectoryTypeOK'
    BY <1>1 DEF AuthorityInv, StaffingTypeOK, DirectoryTypeOK, SeatedOn
  <1> QED
    BY <1>1, <1>2 DEF AuthorityInv, StaffingTypeOK, HeadsHoldTheRole, HoldsTop

LEMMA AuthorityStep ==
  ASSUME AuthorityInv, [AuthorityNext]_authorityVars
  PROVE  AuthorityInv'
  <1> DEFINE CaseKept == CaseTyped' /\ RequestTyped' /\ movers' \subseteq People
                         /\ asked' \in 0..MaxAsked
  <1>0. ASSUME UNCHANGED <<held, request, movers, asked>> PROVE CaseKept
    BY <1>0 DEF AuthorityInv, CaseTyped, HeldFields, RequestTyped
  <1>1. CASE StaffingEdit /\ UNCHANGED <<held, request, movers, asked>>
    BY <1>0, <1>1, EditKeeps DEF AuthorityInv
  <1>2. CASE UNCHANGED staffingVars /\ CaseKept
    BY <1>2, StaffRests DEF AuthorityInv
  <1>3. CASE ReceiveCase
    <2>1. PICK c \in FiledCases : held' = [NotFiled EXCEPT !.category = c.category, !.area = c.area]
      BY <1>3 DEF ReceiveCase
    <2>2. CaseTyped'
      BY <2>1 DEF CaseTyped, HeldFields, NotFiled, CaseFields, SomeOfficer, SomeDepartment
    <2>3. RequestTyped' /\ UNCHANGED <<staffingVars, movers, asked>>
      BY <1>3 DEF ReceiveCase, AuthorityInv, RequestTyped
    <2> QED
      BY <1>2, <2>2, <2>3 DEF AuthorityInv
  <1>4. CASE RouteCase
    <2>1. UNCHANGED <<staffingVars, request, movers, asked>>
      BY <1>4 DEF RouteCase
    <2> QED
      BY <1>2, <1>4, <2>1, RouteKeeps DEF AuthorityInv, RequestTyped
  <1>5. CASE EscalateCase
    <2>1. UNCHANGED <<staffingVars, request, movers, asked>>
      BY <1>5 DEF EscalateCase
    <2> QED
      BY <1>2, <1>5, <2>1, EscalateKeeps DEF AuthorityInv, RequestTyped
  <1>6. ASSUME NEW by \in People, RaiseDeferral(by) PROVE AuthorityInv'
    <2>1. UNCHANGED staffingVars
      BY <1>6 DEF RaiseDeferral, Raise
    <2> QED
      BY <1>2, <1>6, <2>1, DeferralKeeps
  <1>7. ASSUME NEW department \in Departments \cup {Nothing}, NEW u \in Officers \cup {Nothing},
               NEW category, RaiseMove(department, u, category)
        PROVE  AuthorityInv'
    <2>1. UNCHANGED staffingVars
      BY <1>7 DEF RaiseMove, Raise
    <2> QED
      BY <1>2, <1>7, <2>1, MoveKeeps DEF SomeOfficer, SomeDepartment
  <1>8. CASE Forward
    <2>1. UNCHANGED <<staffingVars, held, movers, asked>>
      BY <1>8 DEF Forward
    <2> QED
      BY <1>2, <1>8, <2>1, ForwardKeeps DEF AuthorityInv, CaseTyped, HeldFields
  <1>9. ASSUME NEW u \in People, NEW approve \in BOOLEAN, Decide(u, approve) PROVE AuthorityInv'
    <2>1. UNCHANGED <<staffingVars, asked>>
      BY <1>9 DEF Decide
    <2> QED
      BY <1>2, <1>9, <2>1, DecideKeeps DEF AuthorityInv
  <1>10. CASE UNCHANGED authorityVars
    BY <1>0, <1>2, <1>10 DEF authorityVars
  <1> HIDE DEF CaseKept
  <1> QED
    BY <1>1, <1>3, <1>4, <1>5, <1>6, <1>7, <1>8, <1>9, <1>10 DEF AuthorityNext

LEMMA AuthorityStart ==
  ASSUME AuthorityInit
  PROVE  AuthorityInv
  BY StaffingStart, AskedAssumption
     DEF AuthorityInit, AuthorityInv, CaseTyped, HeldFields, NotFiled, CaseFields, RequestTyped,
         NoRequest, SomeOfficer, SomeDepartment

LEMMA AuthorityHolds == AuthoritySpec => []AuthorityInv
  BY AuthorityStart, AuthorityStep, PTL DEF AuthoritySpec

\* For any desks, officers, calls and requests, every row, desk, case and request
\* keeps its type: a case and a request name officers, a row sits on a desk that
\* exists, and no two desks stand at one place of the order last modified first.
THEOREM AuthorityTyped == AuthoritySpec => []AuthorityTypeOK
  <1>1. AuthorityInv => AuthorityTypeOK
    BY DEF AuthorityInv, AuthorityTypeOK, CaseTyped, RequestTyped, SomeOfficer, SomeDepartment
  <1> QED
    BY <1>1, AuthorityHolds, PTL

\* Whoever holds the top rung of a desk has the role of a head, however they
\* came to it or back to it (officer.py: _sync_desk_head_role;
\* category_assignment.py seats nobody on the top rung).
THEOREM HeadsHoldRoleAlways == AuthoritySpec => []HeadsHoldTheRole
  <1>1. AuthorityInv => HeadsHoldTheRole
    BY DEF AuthorityInv
  <1> QED
    BY <1>1, AuthorityHolds, PTL

\* For any ladder that is sound, whatever desks, areas and rows there are, the
\* authority above an officer stands strictly higher (higher_authority_of).
THEOREM LadderClimbsAlways == AuthoritySpec => []LadderClimbs
  <1>1. AuthorityInv => LadderClimbs
    BY ClimbsWhenTyped DEF AuthorityInv, StaffingTypeOK
  <1> QED
    BY <1>1, AuthorityHolds, PTL

\* For any desks, areas, rungs and leave, a case for which somebody is available
\* on a desk that takes it is routed (ranked_assignments, pick_officer_by_strategy).
THEOREM RoutingFindsAlways == AuthoritySpec => []RoutingFindsSomeone
  <1>1. AuthorityInv => RoutingFindsSomeone
    BY FindsWhenTyped DEF AuthorityInv, StaffingTypeOK
  <1> QED
    BY <1>1, AuthorityHolds, PTL

\* For any staff and any edits of it, whatever move resolve proposes passes the
\* checks of the request it becomes (resolve, validate, assert_officer_has_desk).
THEOREM ResolvedAcceptedAlways == AuthoritySpec => []ResolvedIsAccepted
  <1>1. AuthorityInv => ResolvedIsAccepted
    BY ProposalStands DEF AuthorityInv, CaseTyped, ResolvedIsAccepted
  <1> QED
    BY <1>1, AuthorityHolds, PTL

-----------------------------------------------------------------------------
(***************************************************************************)
(* Charts.  The list asks whether a case lies in the area of a desk, the   *)
(* charts whether a region or a woreda around the case lies in it, of the  *)
(* desks the roles open.  The two agree on nested areas, and the roles are *)
(* there because nobody is seated without one.                             *)
(***************************************************************************)
\* Whoever sits on a desk, or holds any role, was hired as an officer or as a
\* reviewer, and nothing takes that role away.
Hired == {"Officer", "Reviewer"}
Granted ==
  \A u \in Officers : roles[u] # {} \/ SeatsOf(u) # {} => roles[u] \cap Hired # {}

Placed == held.area \in Areas \cup {Nothing}

ScopeInv == Granted /\ Placed

LEMMA SyncKeepsHired ==
  ASSUME NEW mine, NEW rows, NEW u
  PROVE  SyncDeskHeadRole(mine, rows, u) \cap Hired = mine \cap Hired
  BY DEF SyncDeskHeadRole, DeskHeadRole, Hired

\* Only the person a call is about gets rows or roles by it.
LEMMA GrantKeeps ==
  ASSUME StaffingTypeOK, Granted, NEW u \in Officers, NEW mine,
         roles' = [roles EXCEPT ![u] = mine], mine \cap Hired # {},
         \A d \in DeskSet, v \in Officers \ {u} : seat'[d][v] = seat[d][v]
  PROVE  Granted'
  <1>1. roles'[u] = mine /\ \A v \in Officers \ {u} : roles'[v] = roles[v]
    BY DEF StaffingTypeOK
  <1>2. \A v \in Officers \ {u} : SeatsOf(v)' = SeatsOf(v)
    BY DEF SeatsOf
  <1> QED
    BY <1>1, <1>2 DEF Granted

LEMMA SeatGrants ==
  ASSUME StaffingTypeOK, Granted, NEW u \in Officers, NEW hire \in Hires, NEW boss,
         Seat(u, hire, boss)
  PROVE  Granted'
  <1> DEFINE row == NewRow(hire.level, hire.status, hire.area, boss)
             rows == [d \in DeskSet |-> IF d \in hire.desks THEN [seat[d] EXCEPT ![u] = row]
                                        ELSE seat[d]]
             mine == SyncDeskHeadRole(roles[u] \cup {RoleFor(hire.level)}, rows, u)
  <1>1. seat' = rows /\ roles' = [roles EXCEPT ![u] = mine]
    BY DEF Seat
  <1>2. seat \in [DeskSet -> [Officers -> SeatRow \cup {NoSeat}]]
    BY DEF StaffingTypeOK, DirectoryTypeOK
  <1>3. mine \cap Hired # {}
    <2>1. RoleFor(hire.level) \in Hired
      BY DEF RoleFor, Hired
    <2> QED
      BY <2>1, SyncKeepsHired
  <1>4. \A d \in DeskSet, v \in Officers \ {u} : seat'[d][v] = seat[d][v]
    <2> HIDE DEF row
    <2> QED
      BY <1>1, <1>2
  <1> HIDE DEF mine, rows
  <1> QED
    BY <1>1, <1>3, <1>4, GrantKeeps

LEMMA ReseatGrants ==
  ASSUME StaffingTypeOK, Granted, NEW u \in Officers, NEW change, NEW target, NEW level,
         SeatsOf(u) # {}, Reseat(u, change, target, level)
  PROVE  Granted'
  <1> DEFINE status == IF "status" \in DOMAIN change THEN change.status ELSE StatusNow(u)
             left == OwnDesks(u) \ target
             present(d) == IF seat[d][u] # NoSeat THEN seat[d][u]
                           ELSE NewRow(level, status, Nothing, Nothing)
             row(d) == Rewritten(present(d), u, change, level)
             rows == [d \in DeskSet |->
               CASE d \in left -> [seat[d] EXCEPT ![u] = NoSeat]
                 [] d \in target -> [seat[d] EXCEPT ![u] = row(d)]
                 [] OTHER -> seat[d]]
             mine == SyncDeskHeadRole(roles[u], rows, u)
  <1>1. seat' = rows /\ roles' = [roles EXCEPT ![u] = mine]
    BY DEF Reseat
  <1>2. seat \in [DeskSet -> [Officers -> SeatRow \cup {NoSeat}]]
    BY DEF StaffingTypeOK, DirectoryTypeOK
  <1>3. mine \cap Hired # {}
    <2>1. roles[u] \cap Hired # {}
      BY DEF Granted
    <2>2. mine \cap Hired = roles[u] \cap Hired
      BY SyncKeepsHired
    <2> QED
      BY <2>1, <2>2
  <1>4. left \cap target = {}
    OBVIOUS
  <1> HIDE DEF row, left, mine
  <1>5. ASSUME NEW d \in DeskSet, NEW v \in Officers \ {u} PROVE seat'[d][v] = seat[d][v]
    <2>1. CASE d \in left
      BY <1>1, <1>2, <1>4, <2>1
    <2>2. CASE d \notin left /\ d \in target
      BY <1>1, <1>2, <2>2
    <2>3. CASE d \notin left /\ d \notin target
      BY <1>1, <2>3
    <2> QED
      BY <2>1, <2>2, <2>3
  <1> HIDE DEF rows
  <1> QED
    BY <1>1, <1>3, <1>5, GrantKeeps

\* A category assignment seats whoever has a role already.
LEMMA WriteDeskGrants ==
  ASSUME StaffingTypeOK, Granted, NEW d \in DeskSet, NEW l1, NEW l2, NEW seats,
         WriteDesk(d, l1, l2, seats), roles' = roles
  PROVE  Granted'
  <1> DEFINE wanted == {l1, l2} \ {Nothing}
             vacated == (seats \ {Nothing}) \ wanted
             sits(u) == seat[d][u] # NoSeat
             row(u) == [level |-> IF u = l1 THEN "L1" ELSE "L2", primary |-> u = l1, active |-> TRUE,
                        reportsTo |-> IF u = l1 THEN l2 ELSE Nothing,
                        area |-> IF sits(u) THEN seat[d][u].area ELSE Nothing,
                        leave |-> sits(u) /\ seat[d][u].leave]
             cell(u) == IF u \in wanted THEN row(u) ELSE IF u \in vacated THEN NoSeat ELSE seat[d][u]
  <1>1. seat \in [DeskSet -> [Officers -> SeatRow \cup {NoSeat}]]
    BY DEF StaffingTypeOK, DirectoryTypeOK
  <1>2. seat' = [seat EXCEPT ![d] = [u \in Officers |-> cell(u)]] /\ \A u \in wanted : roles[u] # {}
    BY DEF WriteDesk
  <1> HIDE DEF row, wanted, vacated
  <1>3. ASSUME NEW v \in Officers, v \notin wanted PROVE SeatsOf(v)' \subseteq SeatsOf(v)
    <2>1. ASSUME NEW e \in DeskSet, seat'[e][v] # NoSeat PROVE seat[e][v] # NoSeat
      <3>1. CASE e = d
        <4>1. seat'[d][v] = cell(v)
          BY <1>1, <1>2
        <4> QED
          BY <1>3, <2>1, <3>1, <4>1
      <3>2. CASE e # d
        BY <1>1, <1>2, <2>1, <3>2
      <3> QED
        BY <3>1, <3>2
    <2> QED
      BY <2>1 DEF SeatsOf
  <1> HIDE DEF cell
  <1> QED
    BY <1>2, <1>3 DEF Granted

LEMMA StaffGrants ==
  ASSUME StaffingTypeOK, Granted, StaffingEdit
  PROVE  Granted'
  <1>1. ASSUME NEW u \in Officers, NEW hire \in Hires, NEW boss, Seat(u, hire, boss) PROVE Granted'
    BY <1>1, SeatGrants
  <1>2. ASSUME NEW u \in Officers, NEW change, NEW target, NEW level, SeatsOf(u) # {},
               Reseat(u, change, target, level)
        PROVE  Granted'
    BY <1>2, ReseatGrants
  <1>3. ASSUME NEW d \in DeskSet, NEW l1, NEW l2, NEW seats, WriteDesk(d, l1, l2, seats), roles' = roles
        PROVE  Granted'
    BY <1>3, WriteDeskGrants
  <1>4. ASSUME seat' = seat, roles' = roles PROVE Granted'
    BY <1>4 DEF Granted, SeatsOf
  <1>5. ASSUME NEW d \in DeskSet, NEW edit \in SeatEdits, UpdateAssignment(d, edit) PROVE Granted'
    <2>1. roles' = roles /\ (seat' = seat \/ \E l1, l2, seats : WriteDesk(d, l1, l2, seats))
      BY <1>5 DEF UpdateAssignment
    <2> QED
      BY <1>3, <1>4, <2>1
  <1>6. ASSUME NEW d \in DeskSet, NEW l1, NEW l2, CreateAssignment(d, l1, l2) PROVE Granted'
    <2>1. roles' = roles /\ WriteDesk(d, l1, l2, {})
      BY <1>6 DEF CreateAssignment
    <2> QED
      BY <1>3, <2>1
  <1>7. ASSUME NEW u \in Officers, NEW hire \in Hires, CreateOfficer(u, hire) PROVE Granted'
    BY <1>1, <1>7 DEF CreateOfficer
  <1>8. ASSUME NEW u \in Officers, NEW hire \in Hires, NEW head, CreateByHead(head, u, hire)
        PROVE  Granted'
    BY <1>1, <1>8 DEF CreateByHead
  <1>9. ASSUME NEW u \in Officers, NEW change, UpdateOfficer(u, change) PROVE Granted'
    BY <1>2, <1>9 DEF UpdateOfficer
  <1>10. ASSUME NEW u \in Officers, NEW change, NEW head, UpdateByHead(head, u, change) PROVE Granted'
    <2>1. SeatsOf(u) # {}
      BY <1>10 DEF UpdateByHead, IsOfficer
    <2> QED
      BY <1>2, <1>10, <2>1 DEF UpdateByHead
  <1> QED
    BY <1>5, <1>6, <1>7, <1>8, <1>9, <1>10 DEF StaffingEdit

\* Calls, moves and rulings leave the area of a case alone.
LEMMA CaseStays ==
  ASSUME CaseTyped, Placed, AuthorityNext
  PROVE  Placed'
  <1>1. ASSUME NEW old, NEW new, Apply(old, new) PROVE Placed'
    <2> DEFINE set == [f \in DOMAIN held |->
                         IF f \in Fields /\ old[f] # new[f] THEN new[f] ELSE held[f]]
               desk == IF old = new THEN held.desk ELSE MatchingDesk(set)
               last == IF desk = Nothing THEN held.desk ELSE desk
    <2>1. held' = [set EXCEPT !.desk = last] /\ DOMAIN held = CaseFields
      BY <1>1 DEF Apply, CaseTyped, HeldFields
    <2>2. set.area = held.area
      BY <2>1 DEF CaseFields, Fields
    <2> HIDE DEF set, last
    <2>3. held'.area = set.area
      BY <2>1
    <2> QED
      BY <2>2, <2>3 DEF Placed
  <1>2. ASSUME UNCHANGED held PROVE Placed'
    BY <1>2 DEF Placed
  <1>3. ASSUME NEW by, NEW kind, NEW new, NEW decided, NEW approvers,
               Raise(by, kind, new, decided, approvers)
        PROVE  Placed'
    BY <1>1, <1>2, <1>3 DEF Raise
  <1>4. ASSUME NEW u, NEW approve, Decide(u, approve) PROVE Placed'
    BY <1>1, <1>2, <1>4 DEF Decide
  <1>5. CASE ReceiveCase
    <2>1. PICK c \in FiledCases : held' = [NotFiled EXCEPT !.category = c.category, !.area = c.area]
      BY <1>5 DEF ReceiveCase
    <2>2. held'.area = c.area
      BY <2>1 DEF NotFiled
    <2> QED
      BY <2>2, AskedAssumption DEF Placed
  <1>6. CASE RouteCase
    <2>1. \E u, desk, department :
            held' = [held EXCEPT !.officer = u, !.desk = desk, !.department = department]
      BY <1>6 DEF RouteCase
    <2>2. held'.area = held.area
      BY <2>1 DEF CaseTyped, HeldFields, CaseFields
    <2> QED
      BY <2>2 DEF Placed
  <1>7. CASE EscalateCase
    <2>1. \E u : held' = [held EXCEPT !.officer = u]
      BY <1>7 DEF EscalateCase
    <2>2. held'.area = held.area
      BY <2>1 DEF CaseTyped, HeldFields, CaseFields
    <2> QED
      BY <2>2 DEF Placed
  <1>8. ASSUME NEW by, RaiseDeferral(by) PROVE Placed'
    BY <1>3, <1>8 DEF RaiseDeferral
  <1>9. ASSUME NEW department, NEW u, NEW category, RaiseMove(department, u, category) PROVE Placed'
    BY <1>3, <1>9 DEF RaiseMove
  <1>10. CASE Forward
    BY <1>2, <1>10 DEF Forward
  <1> QED
    BY <1>2, <1>4, <1>5, <1>6, <1>7, <1>8, <1>9, <1>10 DEF AuthorityNext

LEMMA ScopeStep ==
  ASSUME AuthorityInv, ScopeInv, [AuthorityNext]_authorityVars
  PROVE  ScopeInv'
  <1>1. ASSUME seat' = seat, roles' = roles PROVE Granted'
    BY <1>1 DEF ScopeInv, Granted, SeatsOf
  <1>2. CASE UNCHANGED authorityVars
    BY <1>1, <1>2 DEF authorityVars, staffingVars, directoryVars, ScopeInv, Placed
  <1>3. CASE AuthorityNext
    <2>1. StaffingEdit \/ UNCHANGED staffingVars
      BY <1>3 DEF AuthorityNext, ReceiveCase, RouteCase, EscalateCase, RaiseDeferral, RaiseMove,
                  Raise, Forward, Decide
    <2>2. Granted'
      BY <1>1, <2>1, StaffGrants DEF staffingVars, directoryVars, AuthorityInv, ScopeInv
    <2>3. Placed'
      BY <1>3, CaseStays DEF AuthorityInv, ScopeInv
    <2> QED
      BY <2>2, <2>3 DEF ScopeInv
  <1> QED
    BY <1>2, <1>3

LEMMA ScopeStart ==
  ASSUME AuthorityInit
  PROVE  ScopeInv
  <1>1. /\ seat = InitialSeats /\ roles = [u \in Officers |-> RolesOf(InitialSeats, u)]
        /\ held.area = Nothing
    BY DEF AuthorityInit, StaffingInit, NotFiled
  <1>2. ASSUME NEW u \in Officers, roles[u] # {} \/ SeatsOf(u) # {} PROVE roles[u] \cap Hired # {}
    <2>1. roles[u] = RolesOf(seat, u)
      BY <1>1
    <2>2. PICK d \in DeskSet : seat[d][u] # NoSeat
      BY <1>2, <2>1 DEF RolesOf, HoldsTop, SeatsOf
    <2>3. RoleFor(seat[d][u].level) \in RolesOf(seat, u) /\ RoleFor(seat[d][u].level) \in Hired
      BY <2>2 DEF RolesOf, RoleFor, Hired
    <2> QED
      BY <2>1, <2>3
  <1> QED
    BY <1>1, <1>2 DEF ScopeInv, Granted, Placed

-----------------------------------------------------------------------------
\* The bounds of nested areas are in order.
LEMMA AreaBoundsTyped ==
  ASSUME NEW a \in Areas
  PROVE  /\ AreaBounds[a].lft \in Nat /\ AreaBounds[a].rgt \in Nat
         /\ AreaBounds[a].lft <= AreaBounds[a].rgt
  BY DirectoryAssumption DEF Areas

LEMMA InsideTransitive ==
  ASSUME NEW a \in Areas, NEW b \in Areas, NEW c \in Areas, Inside(a, b), Inside(b, c)
  PROVE  Inside(a, c)
  <1>1. AreaBounds[b].rgt <= AreaBounds[c].rgt
    BY AreasAssumption
  <1> QED
    BY <1>1, AreaBoundsTyped DEF Inside

\* A desk's area that holds a region holds the region of every case in it.
LEMMA RegionOfCase ==
  ASSUME NEW c \in Areas, NEW a \in Areas, Inside(c, a), KeysWithin("region", a) # {},
         NEW r \in KeysAround("region", c)
  PROVE  r \in KeysWithin("region", a)
  <1>1. r \in Areas /\ LevelOf[r] = "region" /\ Inside(c, r)
    BY DEF KeysAround
  <1>2. PICK r0 \in Areas : LevelOf[r0] = "region" /\ Inside(r0, a)
    BY DEF KeysWithin
  <1>3. CASE Inside(r, a)
    BY <1>1, <1>3 DEF KeysWithin
  <1>4. CASE ~Inside(r, a)
    <2>1. AreaBounds[r].lft < AreaBounds[a].lft /\ Inside(a, r)
      BY <1>1, <1>4, AreaBoundsTyped DEF Inside
    <2>2. Inside(r0, r)
      BY <1>1, <1>2, <2>1, InsideTransitive
    <2>3. r0 = r
      BY <1>1, <1>2, <2>2, AreasAssumption
    <2> QED
      BY <1>2, <1>4, <2>3
  <1> QED
    BY <1>3, <1>4

\* What a clause asks of the region and woreda of a case, and what the list asks
\* of its area.
LEMMA ClauseOfArea ==
  ASSUME NEW a \in Areas \cup {Nothing}
  PROVE  /\ Regions(a) # Anything =>
              a \in Areas /\ a # Nothing /\ Regions(a) = KeysWithin("region", a)
              /\ KeysWithin("region", a) # {}
         /\ Woredas(a) # Anything =>
              a \in Areas /\ a # Nothing /\ Woredas(a) = KeysWithin("woreda", a)
              /\ Regions(a) = Anything
         /\ a # Nothing => Regions(a) # Anything \/ Woredas(a) # Anything
  <1>1. \A level : KeysWithin(level, a) \in SUBSET Areas
    BY DEF KeysWithin
  <1>2. KeysWithin("region", a) # Anything /\ KeysWithin("woreda", a) # Anything
    BY <1>1, AreasAssumption
  <1> QED
    BY <1>2 DEF Regions, Woredas

LEMMA KeysMeet ==
  ASSUME NEW c \in Areas \cup {Nothing}, NEW a \in Areas, NEW level,
         KeysAround(level, c) \cap KeysWithin(level, a) # {}
  PROVE  c # Nothing /\ Inside(c, a)
  <1>1. PICK r : r \in Areas /\ c # Nothing /\ Inside(c, r) /\ Inside(r, a)
    BY DEF KeysAround, KeysWithin
  <1> QED
    BY <1>1, InsideTransitive

\* A clause counts no case outside its desk, and every case of its desk but those
\* named.
LEMMA ClauseIsDesk ==
  ASSUME NEW s, Row(s).area \in Areas \cup {Nothing}, NEW c, c.area \in Areas \cup {Nothing},
         Scoped(s)
  PROVE  /\ ClauseCounts(DeskClause(s), c) => InClause(s, c)
         /\ InClause(s, c) =>
              \/ ClauseCounts(DeskClause(s), c) /\ Woredas(Row(s).area) # {}
              \/ /\ Woredas(Row(s).area) # Anything
                 /\ KeysAround("woreda", c.area) \cap Woredas(Row(s).area) = {}
              \/ Regions(Row(s).area) # Anything /\ KeysAround("region", c.area) = {}
  <1> DEFINE a == Row(s).area
             fits == Scope[s[1]].category \in {Nothing, c.category}
                     /\ Scope[s[1]].department \in {Nothing, c.department}
             regions == Regions(a) # Anything => KeysAround("region", c.area) \cap Regions(a) # {}
             woredas == Woredas(a) # Anything => KeysAround("woreda", c.area) \cap Woredas(a) # {}
             within == a # Nothing => c.area # Nothing /\ Inside(c.area, a)
  <1>1. ClauseCounts(DeskClause(s), c) <=> regions /\ woredas /\ fits
    BY DEF ClauseCounts, DeskClause
  <1>2. InClause(s, c) <=> fits /\ within
    BY DEF InClause
  <1>3. regions /\ woredas => within
    <2>1. CASE a = Nothing
      BY <2>1
    <2>2. CASE a # Nothing /\ Regions(a) # Anything
      BY <2>2, ClauseOfArea, KeysMeet
    <2>3. CASE a # Nothing /\ Woredas(a) # Anything
      BY <2>3, ClauseOfArea, KeysMeet
    <2> QED
      BY <2>1, <2>2, <2>3, ClauseOfArea
  <1>4. within => \/ regions
                  \/ Regions(a) # Anything /\ KeysAround("region", c.area) = {}
    <2>1. ASSUME within, Regions(a) # Anything, KeysAround("region", c.area) # {}
          PROVE  KeysAround("region", c.area) \cap Regions(a) # {}
      <3>1. PICK r : r \in KeysAround("region", c.area)
        BY <2>1
      <3>2. a \in Areas /\ c.area \in Areas /\ Inside(c.area, a) /\ KeysWithin("region", a) # {}
            /\ Regions(a) = KeysWithin("region", a)
        BY <2>1, ClauseOfArea
      <3>3. r \in Regions(a)
        BY <3>1, <3>2, RegionOfCase
      <3> QED
        BY <3>1, <3>3
    <2> QED
      BY <2>1
  <1>5. woredas => Woredas(a) # {}
    BY AreasAssumption
  <1> QED
    BY <1>1, <1>2, <1>3, <1>4, <1>5

\* Where somebody sits.
LEMMA SeatPlaced ==
  ASSUME AuthorityInv, NEW u, NEW s \in ScopesOf(u)
  PROVE  /\ Row(s).area \in Areas \cup {Nothing} /\ u \in Officers
         /\ SeatsOf(u) # {}
  <1>1. s[1] \in serving /\ s[2] \in Officers /\ LiveSeat(s[1], s[2]) /\ s[2] = u
    BY DEF ScopesOf, LiveSeats
  <1>2. s[1] \in DeskSet /\ seat[s[1]][u] # NoSeat
    BY <1>1 DEF AuthorityInv, StaffingTypeOK, DirectoryTypeOK, LiveSeat
  <1>3. seat[s[1]][u] \in SeatRow
    BY <1>1, <1>2, RowTyped DEF AuthorityInv, StaffingTypeOK
  <1> QED
    BY <1>1, <1>2, <1>3 DEF SeatRow, Row, SeatsOf

LEMMA ChartedIsListed ==
  ASSUME AuthorityInv, ScopeInv, NEW u \in People, Charted(u, held)
  PROVE  Listed(u, held)
  <1>1. CASE u = Admin
    BY <1>1 DEF Listed
  <1>2. CASE u # Admin
    <2>1. PICK clause \in CallerScope(u) : ClauseCounts(clause, held)
      BY <1>2 DEF Charted
    <2>2. u \in Officers
      BY <1>2 DEF People
    <2>3. ASSUME NEW s \in DesksCounted(u), Scoped(s), clause = DeskClause(s)
          PROVE  Listed(u, held)
      <3>1. s \in ScopesOf(u)
        BY <2>3 DEF DesksCounted, HeadScopes
      <3>2. InClause(s, held)
        BY <2>1, <2>3, <3>1, SeatPlaced, ClauseIsDesk DEF ScopeInv, Placed
      <3>3. CASE HasRole(u, "Reviewer")
        BY <3>1, <3>2, <3>3 DEF Listed
      <3>4. CASE ~HasRole(u, "Reviewer")
        <4>1. s \in HeadScopes(u)
          BY <2>3, <3>4 DEF DesksCounted
        <4>2. HasRole(u, "Officer")
          BY <1>2, <2>2, <3>1, <3>4, SeatPlaced DEF HasRole, ScopeInv, Granted, Hired
        <4> QED
          BY <3>2, <4>1, <4>2 DEF Listed
      <3> QED
        BY <3>3, <3>4
    <2>4. ASSUME HasRole(u, "Officer"), clause = TeamClause(u) PROVE Listed(u, held)
      <3>1. clause.teamOf = u /\ u # Nothing
        BY <2>2, <2>4, DeskAssumption DEF TeamClause
      <3> QED
        BY <2>1, <2>4, <3>1 DEF ClauseCounts, Listed
    <2> QED
      BY <2>1, <2>3, <2>4 DEF CallerScope
  <1> QED
    BY <1>1, <1>2

LEMMA ListedIsCharted ==
  ASSUME AuthorityInv, ScopeInv, NEW u \in People, Listed(u, held)
  PROVE  Charted(u, held) \/ LeftOut(u, held)
  <1> SUFFICES ASSUME InRollup(held) PROVE Charted(u, held) \/ LeftOut(u, held)
    BY DEF LeftOut
  <1>1. ASSUME NEW s \in DesksCounted(u), InClause(s, held)
        PROVE  Charted(u, held) \/ LeftOut(u, held)
    <2>1. s \in ScopesOf(u) /\ Scoped(s)
      BY <1>1 DEF DesksCounted, HeadScopes, InClause
    <2>2. \/ ClauseCounts(DeskClause(s), held) /\ Woredas(Row(s).area) # {}
          \/ /\ Woredas(Row(s).area) # Anything
             /\ KeysAround("woreda", held.area) \cap Woredas(Row(s).area) = {}
          \/ Regions(Row(s).area) # Anything /\ KeysAround("region", held.area) = {}
      BY <1>1, <2>1, SeatPlaced, ClauseIsDesk DEF ScopeInv, Placed
    <2>3. CASE ClauseCounts(DeskClause(s), held) /\ Woredas(Row(s).area) # {}
      <3>1. DeskClause(s) \in CallerScope(u)
        BY <1>1, <2>1, <2>3 DEF CallerScope
      <3> QED
        BY <2>3, <3>1 DEF Charted
    <2> QED
      BY <1>1, <2>1, <2>2, <2>3 DEF LeftOut
  <1>2. CASE held.officer \in Team(u) \ {Nothing} /\ HasRole(u, "Officer")
    <2>1. TeamClause(u) \in CallerScope(u)
      BY <1>2 DEF CallerScope
    <2>2. ClauseCounts(TeamClause(u), held)
      BY <1>2 DEF ClauseCounts, TeamClause
    <2> QED
      BY <2>1, <2>2 DEF Charted
  <1>3. HeadScopes(u) \subseteq ScopesOf(u) /\ HeadScopes(u) \subseteq DesksCounted(u)
    BY DEF HeadScopes, DesksCounted
  <1> QED
    BY <1>1, <1>2, <1>3 DEF Listed, Charted, LeftOut, DesksCounted

LevelNames == {"federal", "region", "woreda"}

LEMMA WidestIs ==
  ASSUME NEW levels \in SUBSET LevelNames
  PROVE  /\ Widest(levels) \in levels \cup {"woreda"}
         /\ "federal" \in levels => Widest(levels) = "federal"
  <1> DEFINE place(l) == IF l = "woreda" THEN 1 ELSE IF l = "region" THEN 2 ELSE 3
             wide(l) == \A other \in levels : \E i, j \in DOMAIN Narrower :
                          Narrower[i] = l /\ Narrower[j] = other /\ i >= j
  <1>1. \A l, other \in LevelNames :
          (\E i, j \in DOMAIN Narrower : Narrower[i] = l /\ Narrower[j] = other /\ i >= j)
            <=> place(l) >= place(other)
    BY DEF Narrower, LevelNames
  <1>2. \A l \in LevelNames : wide(l) <=> \A other \in levels : place(l) >= place(other)
    BY <1>1
  <1>3. Widest(levels) = CHOOSE l \in levels \cup {"woreda"} : wide(l)
    BY DEF Widest
  <1>4. \E l \in levels \cup {"woreda"} : wide(l)
    <2>1. CASE "federal" \in levels
      BY <1>2, <2>1 DEF LevelNames
    <2>2. CASE "federal" \notin levels /\ "region" \in levels
      BY <1>2, <2>2, SMTT(30) DEF LevelNames
    <2>3. CASE "federal" \notin levels /\ "region" \notin levels
      BY <1>2, <2>3, SMTT(30) DEF LevelNames
    <2> QED
      BY <2>1, <2>2, <2>3
  <1> HIDE DEF wide
  <1>5. Widest(levels) \in levels \cup {"woreda"} /\ wide(Widest(levels))
    BY <1>3, <1>4
  <1> DEFINE widest == Widest(levels)
  <1>6. widest \in LevelNames /\ \A other \in levels : place(widest) >= place(other)
    <2>1. widest \in LevelNames
      BY <1>5 DEF LevelNames
    <2> QED
      BY <1>2, <1>5, <2>1
  <1>7. "federal" \in levels => widest = "federal"
    <2> HIDE DEF widest
    <2> QED
      BY <1>6 DEF LevelNames
  <1> QED
    BY <1>5, <1>7

\* No level is shown that is wider than a place of the reader's.
LEMMA LevelsNotWider ==
  ASSUME NEW u \in People, NEW level \in VisibleLevels(u) \ {"woreda"}
  PROVE  \E s \in ScopesOf(u) : LevelRead(Row(s).area) \in {level, "federal"}
  <1> DEFINE levels == {clause.level : clause \in CallerScope(u)}
             places == {LevelRead(Row(s).area) : s \in ScopesOf(u)}
             top == Widest(levels)
             widest == CHOOSE i \in DOMAIN Narrower : Narrower[i] = top
  <1>1. places \subseteq LevelNames
    BY DEF LevelRead, LevelNames
  <1>2. Widest(places) \in places \cup {"woreda"}
    BY <1>1, WidestIs
  <1>3. levels \subseteq places \cup {"woreda"}
    <2>1. ASSUME NEW clause \in CallerScope(u) PROVE clause.level \in places \cup {"woreda"}
      <3>1. CASE clause = TeamClause(u)
        BY <1>2, <3>1 DEF TeamClause, PlacementLevel
      <3>2. ASSUME NEW s \in DesksCounted(u), clause = DeskClause(s)
            PROVE  clause.level \in places
        BY <3>2 DEF DesksCounted, HeadScopes, DeskClause
      <3> QED
        BY <2>1, <3>1, <3>2 DEF CallerScope
    <2> QED
      BY <2>1
  <1>4. levels \in SUBSET LevelNames
    BY <1>1, <1>3 DEF LevelNames
  <1> HIDE DEF levels, places
  <1>5. top \in levels \cup {"woreda"} /\ top \in LevelNames
    BY <1>4, WidestIs DEF LevelNames
  <1>6. PICK i \in 1 .. widest : level = Narrower[i]
    BY DEF VisibleLevels, levels
  <1> HIDE DEF top
  <1>7. widest \in 1 .. 3 /\ Narrower[widest] = top
    BY <1>5 DEF Narrower, LevelNames
  <1> HIDE DEF widest
  <1>8. i \in 1 .. 3 /\ level # "woreda"
    BY <1>6, <1>7
  <1>9. top \in {level, "federal"} /\ top # "woreda"
    BY <1>6, <1>7, <1>8 DEF Narrower
  <1>10. top \in places
    BY <1>3, <1>5, <1>9
  <1> QED
    BY <1>9, <1>10 DEF places

\* For any desks, areas and edits of the staff, the charts count no case the list
\* would not show, and leave out only what the reader of the code is told they do
\* (caller_scope, _apply_scope, _visible_levels).
THEOREM ChartsMirrorAlways == AuthoritySpec => []ChartsMirrorList
  <1>1. AuthorityInv /\ ScopeInv => ChartsMirrorList
    BY ChartedIsListed, ListedIsCharted, LevelsNotWider DEF ChartsMirrorList
  <1>2. AuthorityInit => AuthorityInv /\ ScopeInv
    BY AuthorityStart, ScopeStart
  <1>3. AuthorityInv /\ ScopeInv /\ [AuthorityNext]_authorityVars => (AuthorityInv /\ ScopeInv)'
    BY AuthorityStep, ScopeStep
  <1> QED
    BY <1>1, <1>2, <1>3, PTL DEF AuthoritySpec
==============================================================================
