----------------------------- MODULE OfficerDesks -----------------------------
(***************************************************************************)
(* Who sits on which desk, as administrators and desk heads edit it:       *)
(* services/officer.py (hiring and editing an officer or reviewer) and     *)
(* services/category_assignment.py (the L1 and L2 seats of a desk).        *)
(*                                                                         *)
(*   roles   the Frappe roles of each login                                *)
(*   edits   calls made so far, which bounds the history                   *)
(*                                                                         *)
(* Every call is one transaction; each desk it writes is locked and is the *)
(* last modified one afterwards.                                           *)
(***************************************************************************)
EXTENDS DeskDirectory

CONSTANTS
  InitialSeats,  \* seats at the start
  InitialDesks,  \* the desks that exist at the start, all active
  Hires,         \* what a create call may ask: role, level, desks, area, boss, status
  Changes,       \* what an update call may ask: any of level, desks, department, area, boss, status
  SeatEdits,     \* what a category assignment may name: l1, l2 and active
  MaxEdits       \* bound: calls

Keep == "keep"
DeskHeadRole == "Desk Head"

Statuses == {"Active", "On Leave", "Inactive"}

\* The calls that reach a save name desks, levels, areas and people that exist
\* (the link and select fields of the request models).
ASSUME CallsAssumption ==
  /\ InitialDesks \subseteq DeskSet
  /\ InitialSeats \in [DeskSet -> [Officers -> SeatRow \cup {NoSeat}]]
  /\ \A d \in DeskSet, u \in Officers : InitialSeats[d][u] # NoSeat => d \in InitialDesks
  /\ Hires \subseteq [level : Levels, desks : SUBSET DeskSet, area : Areas \cup {Nothing},
                      boss : Officers \cup {Nothing}, status : Statuses]
  /\ \A change \in Changes :
       /\ "level" \in DOMAIN change => change.level \in Levels
       /\ "desks" \in DOMAIN change => change.desks \subseteq DeskSet
       /\ "area" \in DOMAIN change => change.area \in Areas \cup {Nothing}
       /\ "boss" \in DOMAIN change => change.boss \in Officers \cup {Nothing}
       /\ "status" \in DOMAIN change => change.status \in Statuses
  /\ SeatEdits \subseteq [l1 : Officers \cup {Nothing, Keep}, l2 : Officers \cup {Nothing, Keep},
                         active : {Keep, "on", "off"}]
  /\ MaxEdits \in Nat

VARIABLES roles, edits

staffingVars == <<directoryVars, roles, edits>>

StaffingTypeOK ==
  /\ DirectoryTypeOK
  /\ roles \in [Officers -> SUBSET {"Officer", "Reviewer", DeskHeadRole}]
  /\ edits \in 0..MaxEdits

HoldsTop(rows, u) ==
  \E d \in DeskSet : rows[d][u] # NoSeat /\ rows[d][u].level = Top /\ rows[d][u].active

RoleFor(level) == IF level = "Reviewer" THEN "Reviewer" ELSE "Officer"

RolesOf(rows, u) ==
  {RoleFor(rows[d][u].level) : d \in {e \in DeskSet : rows[e][u] # NoSeat}}
  \cup (IF HoldsTop(rows, u) THEN {DeskHeadRole} ELSE {})

\* Of desks written together, the one created last comes first.
PlaceIn(desks, d) == Cardinality({e \in desks : Created(e) >= Created(d)})

StaffingInit ==
  /\ seat = InitialSeats
  /\ opened = InitialDesks /\ serving = InitialDesks
  /\ recency = [d \in InitialDesks |-> PlaceIn(InitialDesks, d)]
  /\ roles = [u \in Officers |-> RolesOf(InitialSeats, u)]
  /\ edits = 0

-----------------------------------------------------------------------------
(***************************************************************************)
(* What the calls check and write.                                         *)
(***************************************************************************)
Touch(touched) ==
  LET rest == opened \ touched
      after(d) == Cardinality({e \in rest : recency[e] <= recency[d]})
  IN  recency' = [d \in opened \cup touched |->
                    IF d \in touched THEN PlaceIn(touched, d)
                    ELSE Cardinality(touched) + after(d)]

\* _availability and _placement: the row an officer is first given.
NewRow(level, status, area, boss) ==
  [level |-> level, area |-> area, reportsTo |-> boss,
   active |-> status # "Inactive", leave |-> status = "On Leave", primary |-> level = "L1"]

AboveLevels(level) == CASE level = "L1" -> {"L2", "L3"} [] level = "L2" -> {"L3"} [] OTHER -> {}

\* _resolve_supervisor: a row above, active or not.
BossAllowed(boss, level) ==
  boss # Nothing => \E d \in SeatsOf(boss) : seat[d][boss].level \in AboveLevels(level)

\* _category_desks: desks of one department, by category; only a head may be
\* put on the desk without category, or where there is no desk yet.
Nameable(desks, level) ==
  /\ desks # {} /\ \A d, e \in desks : Scope[d].department = Scope[e].department
  /\ \A d \in desks : Scope[d].category = Nothing => level = Top /\ desks = {d}
  /\ desks \subseteq opened \/ level = Top

\* _assert_head_free
HeadFree(desks, u) ==
  \A d \in desks \cap opened, v \in Officers \ {u} :
    ~(seat[d][v] # NoSeat /\ seat[d][v].level = Top /\ seat[d][v].active)

\* _sync_desk_head_role: the role follows the top rung.
SyncDeskHeadRole(held, rows, u) ==
  IF HoldsTop(rows, u) THEN held \cup {DeskHeadRole} ELSE held \ {DeskHeadRole}

HeadDesks(u) == {d \in SeatsOf(u) : seat[d][u].level = Top /\ seat[d][u].active}

-----------------------------------------------------------------------------
(***************************************************************************)
(* create: by an administrator, or by a desk head on the head's own desks, *)
(* where the officer reports to the head unless told otherwise.            *)
(***************************************************************************)
Seat(u, hire, boss) ==
  LET row == NewRow(hire.level, hire.status, hire.area, boss)
      rows == [d \in DeskSet |-> IF d \in hire.desks THEN [seat[d] EXCEPT ![u] = row] ELSE seat[d]]
  IN  /\ SeatsOf(u) = {} /\ BossAllowed(boss, hire.level)
      /\ hire.level = "Reviewer" => hire.status # "On Leave"
      /\ seat' = rows
      /\ opened' = opened \cup hire.desks
      /\ serving' = serving \cup (hire.desks \ opened)
      /\ roles' = [roles EXCEPT ![u] = SyncDeskHeadRole(@ \cup {RoleFor(hire.level)}, rows, u)]
      /\ Touch(hire.desks)

CreateOfficer(u, hire) ==
  /\ Nameable(hire.desks, hire.level)
  /\ hire.level = Top => HeadFree(hire.desks, u)
  /\ Seat(u, hire, hire.boss)

CreateByHead(head, u, hire) ==
  /\ DeskHeadRole \in roles[head]
  /\ hire.level \in {"L1", "L2"} /\ hire.desks # {} /\ hire.desks \subseteq HeadDesks(head)
  /\ Seat(u, hire, IF hire.boss = Nothing THEN head ELSE hire.boss)

-----------------------------------------------------------------------------
(***************************************************************************)
(* update: what the account is today is read from its rows.                *)
(***************************************************************************)
IsOfficer(u) == \E d \in SeatsOf(u) : seat[d][u].level \in Range(Chain)

OwnDesks(u) == {d \in SeatsOf(u) : (seat[d][u].level = "Reviewer") = ~IsOfficer(u)}

LevelNow(u) ==
  IF IsOfficer(u)
  THEN Chain[CHOOSE r \in DOMAIN Chain :
               /\ \E d \in OwnDesks(u) : seat[d][u].level = Chain[r]
               /\ \A d \in OwnDesks(u) : Rank(seat[d][u].level) <= r]
  ELSE "Reviewer"

DepartmentNow(u) ==
  LET first == CHOOSE d \in OwnDesks(u) : \A e \in OwnDesks(u) : Created(d) <= Created(e)
  IN  Scope[first].department

CategoriesNow(u) == {Scope[d].category : d \in OwnDesks(u)} \ {Nothing}

StatusNow(u) ==
  IF \E d \in OwnDesks(u) : seat[d][u].active /\ ~seat[d][u].leave THEN "Active"
  ELSE IF \E d \in OwnDesks(u) : seat[d][u].active THEN "On Leave" ELSE "Inactive"

\* The desks of a department for some categories, or its desk without any.
DesksFor(department, categories) ==
  {d \in DeskSet : /\ Scope[d].department = department
                   /\ IF categories = {} THEN Scope[d].category = Nothing
                      ELSE Scope[d].category \in categories}

\* Where an update seats the account: the desks named, else its categories in
\* its department.  A head moving on takes the new department's too.
Target(u, change, level) ==
  LET department == IF "department" \in DOMAIN change THEN change.department ELSE DepartmentNow(u)
      theirs == {Scope[d].category : d \in {e \in serving : Scope[e].department = department}}
  IN  IF "desks" \in DOMAIN change THEN change.desks
      ELSE DesksFor(department, CategoriesNow(u) \cup
             (IF level = Top /\ department # DepartmentNow(u) THEN theirs \ {Nothing} ELSE {}))

\* _change_level: nobody reports to an officer who leaves L2 or L3.
LevelFree(u) ==
  \/ LevelNow(u) \notin {"L2", "L3"}
  \/ \A d \in DeskSet, v \in Officers : seat[d][v] # NoSeat => seat[d][v].reportsTo # u

\* A row after an update: the fields it names, and a change of level, which
\* clears whom the officer reports to unless a boss is named.
Rewritten(row, u, change, level) ==
  LET moves == level # LevelNow(u)
      given(field, value) == IF field \in DOMAIN change THEN change[field] ELSE value
      status == given("status", "as is")
  IN  [level |-> IF moves THEN level ELSE row.level,
       area |-> given("area", row.area),
       reportsTo |-> given("boss", IF moves THEN Nothing ELSE row.reportsTo),
       active |-> IF status = "as is" THEN row.active ELSE status # "Inactive",
       leave |-> IF status = "as is" THEN row.leave ELSE status = "On Leave",
       primary |-> IF moves THEN level = "L1" ELSE row.primary]

DeskStaffed(d, u) == \E v \in Officers \ {u} : seat[d][v] # NoSeat

Reseat(u, change, target, level) ==
  LET status == IF "status" \in DOMAIN change THEN change.status ELSE StatusNow(u)
      left == OwnDesks(u) \ target
      present(d) == IF seat[d][u] # NoSeat THEN seat[d][u]
                    ELSE NewRow(level, status, Nothing, Nothing)
      rows == [d \in DeskSet |->
        CASE d \in left -> [seat[d] EXCEPT ![u] = NoSeat]
          [] d \in target -> [seat[d] EXCEPT ![u] = Rewritten(present(d), u, change, level)]
          [] OTHER -> seat[d]]
  IN  /\ IsOfficer(u) \/ ({"level", "boss"} \cap DOMAIN change = {} /\ status # "On Leave")
      /\ "boss" \in DOMAIN change => BossAllowed(change.boss, level)
      /\ level # LevelNow(u) => LevelFree(u)
      /\ \A d \in left : DeskStaffed(d, u)
      /\ seat' = rows
      /\ opened' = opened \cup target
      /\ serving' = serving \cup (target \ opened)
      /\ roles' = [roles EXCEPT ![u] = SyncDeskHeadRole(@, rows, u)]
      /\ Touch(left \cup target)

NewLevel(u, change) == IF "level" \in DOMAIN change THEN change.level ELSE LevelNow(u)

UpdateOfficer(u, change) ==
  LET level == NewLevel(u, change)
      target == Target(u, change, level)
      placing == level # LevelNow(u) \/ {"desks", "department"} \cap DOMAIN change # {}
  IN  /\ SeatsOf(u) # {}
      /\ Nameable(target, level)
      /\ level = Top /\ placing => HeadFree(target, u)
      /\ Reseat(u, change, target, level)

\* scope_update: an L1 or L2 who sits on nothing but the head's desks.
UpdateByHead(head, u, change) ==
  LET level == NewLevel(u, change) target == Target(u, change, level)
  IN  /\ DeskHeadRole \in roles[head]
      /\ IsOfficer(u) /\ {LevelNow(u), level} \subseteq {"L1", "L2"}
      /\ "department" \notin DOMAIN change
      /\ OwnDesks(u) \subseteq HeadDesks(head)
      /\ IF "desks" \in DOMAIN change THEN target # {} /\ target \subseteq HeadDesks(head)
         ELSE Nameable(target, level)
      /\ Reseat(u, change, target, level)

-----------------------------------------------------------------------------
(***************************************************************************)
(* category_assignment: the L1 and the L2 seat of one desk.                *)
(***************************************************************************)
Seated(d, level) ==
  {u \in Officers : seat[d][u] # NoSeat /\ seat[d][u].level = level /\ seat[d][u].active}

OrNobody(S) == IF S = {} THEN {Nothing} ELSE S

\* split_officers: a primary L1, and the L2 the L1 reports to first.
FirstSeats(d) == OrNobody(PrimaryFirst(d, Seated(d, "L1")))

SecondSeats(d, first) ==
  LET supervisor == IF first = Nothing THEN Nothing ELSE seat[d][first].reportsTo
      key(u) == <<IF u = supervisor THEN 0 ELSE 1, IF seat[d][u].primary THEN 1 ELSE 0>>
  IN  OrNobody(Least(Seated(d, "L2"), key))

\* _assert_nobody_reports_to
Stranded(d, vacated, kept) ==
  {u \in Officers \ (vacated \cup kept) :
     seat[d][u] # NoSeat /\ seat[d][u].active /\ seat[d][u].reportsTo \in vacated}

\* _write_desk: the L1 reports to the L2; other rows stay.
WriteDesk(d, l1, l2, seats) ==
  LET wanted == {l1, l2} \ {Nothing}
      vacated == (seats \ {Nothing}) \ wanted
      sits(u) == seat[d][u] # NoSeat
      row(u) == [level |-> IF u = l1 THEN "L1" ELSE "L2", primary |-> u = l1, active |-> TRUE,
                 reportsTo |-> IF u = l1 THEN l2 ELSE Nothing,
                 area |-> IF sits(u) THEN seat[d][u].area ELSE Nothing,
                 leave |-> sits(u) /\ seat[d][u].leave]
  IN  /\ l1 # l2 \/ l2 = Nothing
      /\ \A u \in wanted : roles[u] # {}
      /\ Stranded(d, vacated, wanted) = {}
      /\ seat' = [seat EXCEPT ![d] = [u \in Officers |->
                    IF u \in wanted THEN row(u) ELSE IF u \in vacated THEN NoSeat ELSE @[u]]]

CreateAssignment(d, l1, l2) ==
  /\ d \notin opened /\ Scope[d].category # Nothing
  /\ WriteDesk(d, l1, l2, {})
  /\ opened' = opened \cup {d} /\ serving' = serving \cup {d}
  /\ Touch({d})
  /\ UNCHANGED roles

UpdateAssignment(d, edit) ==
  \E first \in FirstSeats(d) : \E second \in SecondSeats(d, first) :
    LET l1 == IF edit.l1 = Keep THEN first ELSE edit.l1
        l2 == IF edit.l2 = Keep THEN second ELSE edit.l2
    IN  /\ d \in opened /\ Scope[d].category # Nothing
        /\ IF edit = [l1 |-> Keep, l2 |-> Keep, active |-> "off"] THEN UNCHANGED seat
           ELSE WriteDesk(d, l1, l2, {first, second})
        /\ serving' = CASE edit.active = Keep -> serving
                        [] edit.active = "on" -> serving \cup {d}
                        [] edit.active = "off" -> serving \ {d}
        /\ Touch({d})
        /\ UNCHANGED <<opened, roles>>

StaffingEdit ==
  /\ edits < MaxEdits
  /\ edits' = edits + 1
  /\ \/ \E u \in Officers, hire \in Hires :
          CreateOfficer(u, hire) \/ \E head \in Officers : CreateByHead(head, u, hire)
     \/ \E u \in Officers, change \in Changes :
          UpdateOfficer(u, change) \/ \E head \in Officers : UpdateByHead(head, u, change)
     \/ \E d \in DeskSet, edit \in SeatEdits :
          \/ UpdateAssignment(d, edit)
          \/ Keep \notin {edit.l1, edit.l2} /\ CreateAssignment(d, edit.l1, edit.l2)
==============================================================================
