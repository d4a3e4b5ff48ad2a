-------------------------------- MODULE Taxonomy --------------------------------
(***************************************************************************)
(* Service categories and grievance types, edited by crossing requests:    *)
(* the controllers of both doctypes and the endpoints of api/v1/taxonomy.  *)
(*                                                                         *)
(*   cats     Grievance Service Category: active, and the default          *)
(*   kinds    Grievance Type: its category, its name, active               *)
(*   snap     what a request's transaction reads: both tables as it began  *)
(*   moved    the rows changed since a request began                       *)
(*   commits  how many edits were committed                                *)
(*                                                                         *)
(* A save is refused when its row moved since it was read; what is read    *)
(* without a lock is as old as the request.  A write and its commit are    *)
(* one step: what a request writes it holds until it commits.  Ticket      *)
(* codes, sort order, SLA rows and renaming a category are left out.       *)
(***************************************************************************)
EXTENDS Naturals

CONSTANTS Categories, TypeIds, TypeNames, Editors, SeededCategory, SeededType, CatchAll,
          NoRow,
          MaxCommits  \* edits that are committed

ASSUME TaxonomyAssumption ==
  /\ CatchAll \in TypeNames /\ SeededCategory \in Categories /\ SeededType \in TypeIds
  /\ NoRow \notin [active : BOOLEAN, default : BOOLEAN] /\ MaxCommits \in Nat

VARIABLES cats, kinds, snap, moved, commits

taxonomyVars == <<cats, kinds, snap, moved, commits>>

CategoryTables == [Categories -> [active : BOOLEAN, default : BOOLEAN] \cup {NoRow}]
TypeTables == [TypeIds -> [of : Categories, name : TypeNames, active : BOOLEAN] \cup {NoRow}]

TaxonomyTypeOK ==
  /\ cats \in CategoryTables /\ kinds \in TypeTables
  /\ snap \in [Editors -> [cats : CategoryTables, kinds : TypeTables] \cup {NoRow}]
  /\ moved \in [Editors -> SUBSET (Categories \cup TypeIds)]
  /\ commits \in 0..MaxCommits

\* One category is the default, with its catch-all type; others may be there.
TaxonomyInit ==
  /\ cats \in CategoryTables /\ cats[SeededCategory] = [active |-> TRUE, default |-> TRUE]
  /\ \A c \in Categories \ {SeededCategory} : cats[c] # NoRow => ~cats[c].default
  /\ kinds = [k \in TypeIds |->
       IF k = SeededType THEN [of |-> SeededCategory, name |-> CatchAll, active |-> TRUE] ELSE NoRow]
  /\ snap = [e \in Editors |-> NoRow] /\ moved = [e \in Editors |-> {}] /\ commits = 0

-----------------------------------------------------------------------------
Begin(e) ==
  /\ snap[e] = NoRow
  /\ snap' = [snap EXCEPT ![e] = [cats |-> cats, kinds |-> kinds]]
  /\ UNCHANGED <<cats, kinds, moved, commits>>

\* Refused, timed out or given up: everything is rolled back.
Abandon(e) ==
  /\ snap[e] # NoRow
  /\ snap' = [snap EXCEPT ![e] = NoRow] /\ moved' = [moved EXCEPT ![e] = {}]
  /\ UNCHANGED <<cats, kinds, commits>>

\* The rows written are the ones the request read; new ones were not there.
Commit(e, newCats, newKinds) ==
  LET written == {c \in Categories : newCats[c] # cats[c]} \cup
                 {k \in TypeIds : newKinds[k] # kinds[k]} IN
  /\ commits < MaxCommits /\ commits' = commits + 1
  /\ written \cap moved[e] = {}
  /\ cats' = newCats /\ kinds' = newKinds
  /\ snap' = [snap EXCEPT ![e] = NoRow]
  /\ moved' = [f \in Editors |->
       IF f = e \/ snap[f] = NoRow THEN {} ELSE moved[f] \cup written]

\* What the request reads of a category and its types.
Category(e, c) == snap[e].cats[c]
TypesOf(e, c) ==
  {k \in TypeIds : snap[e].kinds[k] # NoRow /\ snap[e].kinds[k].of = c}
Named(e, c, name) == {k \in TypesOf(e, c) : snap[e].kinds[k].name = name}

\* A row nobody has; the series never gives one out twice.
FreeRows(table) == {row \in DOMAIN table : table[row] = NoRow}

-----------------------------------------------------------------------------
(***************************************************************************)
(* Categories.                                                             *)
(***************************************************************************)

\* Mutant: only an update takes over, not the insert of a new default.
Former_OfUpdate(e, c) ==
  {d \in Categories \ {c} : Category(e, c) # NoRow /\ cats[d] # NoRow /\ cats[d].default}

\* take_over_as_default reads the defaults of now, whatever the request saw.
Former(e, c) == {d \in Categories \ {c} : cats[d] # NoRow /\ cats[d].default}

\* ensure_catch_all_type: reactivated, or made; one that is active is left.
WithCatchAll(e, c) ==
  LET there == Named(e, c, CatchAll) IN
  IF there # {}
  THEN {[kinds EXCEPT ![k].active = TRUE] :
          k \in {k \in there \ moved[e] : ~snap[e].kinds[k].active}}
         \cup {kinds : k \in {k \in there : snap[e].kinds[k].active}}
  ELSE {[kinds EXCEPT ![k] = [of |-> c, name |-> CatchAll, active |-> TRUE]] :
          k \in FreeRows(kinds)}

\* A promotion, and the demotions and the type that come with it.
TakeOver(e, c) ==
  /\ Former(e, c) \cap moved[e] = {}
  /\ \E newKinds \in WithCatchAll(e, c) :
       Commit(e, [d \in Categories |->
                    IF d = c THEN [active |-> TRUE, default |-> TRUE]
                    ELSE IF d \in Former(e, c) THEN [cats[d] EXCEPT !.default = FALSE]
                    ELSE cats[d]],
              newKinds)

CreateCategory(e, c, active, default) ==
  /\ snap[e] # NoRow /\ cats[c] = NoRow
  /\ default => active
  /\ IF default THEN TakeOver(e, c)
     ELSE Commit(e, [cats EXCEPT ![c] = [active |-> active, default |-> FALSE]], kinds)

\* A PATCH that sends is_default may send is_active with it.
PromoteCategory(e, c) ==
  /\ snap[e] # NoRow /\ Category(e, c) # NoRow /\ c \notin moved[e]
  /\ ~Category(e, c).default
  /\ TakeOver(e, c)

\* retire_types: those the request knows of.
RetireCategory(e, c) ==
  /\ snap[e] # NoRow /\ Category(e, c) # NoRow /\ c \notin moved[e]
  /\ Category(e, c).active /\ ~Category(e, c).default
  /\ LET retired == {k \in TypesOf(e, c) : snap[e].kinds[k].active} IN
     /\ retired \cap moved[e] = {}
     /\ Commit(e, [cats EXCEPT ![c].active = FALSE],
               [k \in TypeIds |-> IF k \in retired THEN [kinds[k] EXCEPT !.active = FALSE]
                                  ELSE kinds[k]])

RestoreCategory(e, c) ==
  /\ snap[e] # NoRow /\ Category(e, c) # NoRow /\ c \notin moved[e]
  /\ ~Category(e, c).active
  /\ Commit(e, [cats EXCEPT ![c].active = TRUE], kinds)

(***************************************************************************)
(* Types.                                                                  *)
(***************************************************************************)
CreateType(e, c, name) ==
  /\ snap[e] # NoRow /\ Category(e, c) # NoRow /\ Category(e, c).active
  /\ Named(e, c, name) = {}
  /\ \E k \in FreeRows(kinds) :
       Commit(e, cats, [kinds EXCEPT ![k] = [of |-> c, name |-> name, active |-> TRUE]])

\* validate_category when it comes back, validate_fallback when it goes.
SwitchType(e, k) ==
  /\ snap[e] # NoRow /\ snap[e].kinds[k] # NoRow /\ k \notin moved[e]
  /\ LET kind == snap[e].kinds[k] IN
     IF kind.active THEN ~(kind.name = CatchAll /\ Category(e, kind.of).default)
     ELSE Category(e, kind.of).active
  /\ Commit(e, cats, [kinds EXCEPT ![k].active = ~@])

RenameType(e, k, name) ==
  /\ snap[e] # NoRow /\ snap[e].kinds[k] # NoRow /\ k \notin moved[e]
  /\ Named(e, snap[e].kinds[k].of, name) = {}
  /\ Commit(e, cats, [kinds EXCEPT ![k].name = name])

TaxonomyNext ==
  \E e \in Editors :
    \/ Begin(e) \/ Abandon(e)
    \/ \E c \in Categories :
         \/ \E active, default \in BOOLEAN : CreateCategory(e, c, active, default)
         \/ PromoteCategory(e, c) \/ RetireCategory(e, c) \/ RestoreCategory(e, c)
         \/ \E name \in TypeNames : CreateType(e, c, name)
    \/ \E k \in TypeIds :
         SwitchType(e, k) \/ \E name \in TypeNames : RenameType(e, k, name)

TaxonomySpec == TaxonomyInit /\ [][TaxonomyNext]_taxonomyVars

-----------------------------------------------------------------------------
\* Exactly one category is the default, and it is active, however promotions,
\* new categories and retirements cross (validate_default).
OneDefault ==
  \E c \in Categories :
    /\ cats[c] # NoRow /\ cats[c].default /\ cats[c].active
    /\ \A d \in Categories \ {c} : cats[d] # NoRow => ~cats[d].default
================================================================================
