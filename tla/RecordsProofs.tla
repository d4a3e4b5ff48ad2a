----------------------------- MODULE RecordsProofs -----------------------------
(***************************************************************************)
(* The records kept beside the cases: an organization and what was         *)
(* verified of it, the default category, exports on record, the directory  *)
(* of providers, ratings, the form of a case and the pages of its          *)
(* timeline, the seeds a migration brings, and the writers of one row.     *)
(* Each holds for any number of users, records, crossing requests and      *)
(* migrations.                                                             *)
(***************************************************************************)
EXTENDS MCRecords, DashboardRollupProofs

-----------------------------------------------------------------------------
(***************************************************************************)
(* Organizations.  An edit that touches what was verified takes Active     *)
(* away, so what is Active is what was verified, as long as the two agree  *)
(* on what counts as identity.                                             *)
(***************************************************************************)
OrgRow == [is : Identity, status : {"In Review", "Active", "Suspended"}]
BlockRow == {None, "sign-up", "officer"}
ProfileRow ==
  [user : Logins \cup {None}, type : OrgTypes \cup {Farmer}, name : Names, key : DedupeKeys,
   org : OrgIds \cup {None}, block : BlockRow]

RegistryInv == RegistryTypeOK /\ ActiveIsVerified

\* A block an officer placed is still there.
BlocksStand ==
  \A p \in ProfileIds : profiles[p].block = "officer" => profiles'[p].block = "officer"

LEMMA KeyTypes ==
  ASSUME NEW u \in Logins, NEW type, NEW id
  PROVE  /\ DerivedKeys(u, type, id) \subseteq DedupeKeys
         /\ \A n \in Numbers : Key("org", n) \in DedupeKeys
         /\ \A f \in Faydas : Key("fayda", f) \in DedupeKeys
  BY DEF DerivedKeys, DedupeKeys

\* The representative's profile follows the organization and keeps its block.
LEMMA SyncProfileKeeps ==
  ASSUME RegistryTypeOK, NEW u \in Logins, NEW org \in Identity, NEW inserted \in BOOLEAN,
         SyncProfile(u, org, inserted)
  PROVE  profiles' \in [ProfileIds -> {NoProfile} \cup ProfileRow] /\ BlocksStand
  <1>1. PICK p \in IF OwnProfiles(u) = {} THEN {q \in ProfileIds : Unused(q)} ELSE OwnProfiles(u) :
          profiles' = [profiles EXCEPT ![p] = Synced(p, u, org, inserted)]
    BY DEF SyncProfile
  <1>2. p \in ProfileIds
    BY DEF OwnProfiles
  <1> DEFINE old == profiles[p]
             row == Synced(p, u, org, inserted)
  <1>3. profiles \in [ProfileIds -> {NoProfile} \cup ProfileRow]
    BY DEF RegistryTypeOK, ProfileRow, BlockRow
  <1>4. old.block \in BlockRow
    BY <1>2, <1>3 DEF ProfileRow, BlockRow, NoProfile
  <1>5. old = NoProfile \/ old.key \in DedupeKeys
    BY <1>2, <1>3 DEF ProfileRow
  <1>6. Key("org", org.number) \in DedupeKeys
    BY KeyTypes DEF Identity
  <1>7. row.key \in DedupeKeys
    BY <1>5, <1>6 DEF Synced, Unused
  <1>8. /\ row.block \in BlockRow
        /\ old.block = "officer" => row.block = "officer"
    BY <1>4 DEF Synced, Lifted, BlockRow
  <1>9. row \in ProfileRow
    BY <1>7, <1>8 DEF Synced, ProfileRow, Identity, OrgIds
  <1> HIDE DEF row
  <1> QED
    BY <1>1, <1>2, <1>3, <1>8, <1>9 DEF BlocksStand, row

\* A registration writes one profile, and never over an officer's block.
LEMMA RegisterProfileKeeps ==
  ASSUME RegistryTypeOK, NEW u \in Logins, NEW type \in OrgTypes \cup {Farmer},
         NEW name \in Names, NEW id, RegisterProfile(u, type, name, id)
  PROVE  profiles' \in [ProfileIds -> {NoProfile} \cup ProfileRow] /\ BlocksStand
  <1> DEFINE Registered(key, p) ==
               [user |-> u, type |-> type, name |-> name,
                key |-> IF ~Unused(p) /\ profiles[p].key.scheme \in {"fayda", "org"} /\ id = None
                        THEN profiles[p].key ELSE key,
                org |-> profiles[p].org,
                block |-> IF type # Farmer /\ profiles[p].block = None
                          THEN "sign-up" ELSE profiles[p].block]
             Candidates(key) == IF KeyedBy(key) # {} THEN KeyedBy(key)
                                ELSE IF OwnProfiles(u) # {} THEN OwnProfiles(u)
                                ELSE {q \in ProfileIds : Unused(q)}
  <1>0. PICK key \in DerivedKeys(u, type, id) :
          \E p \in Candidates(key) : profiles' = [profiles EXCEPT ![p] = Registered(key, p)]
    BY DEF RegisterProfile
  <1>1. PICK p \in Candidates(key) : profiles' = [profiles EXCEPT ![p] = Registered(key, p)]
    BY <1>0
  <1>2. p \in ProfileIds
    BY DEF KeyedBy, OwnProfiles
  <1> DEFINE old == profiles[p]
             written == IF ~Unused(p) /\ old.key.scheme \in {"fayda", "org"} /\ id = None
                        THEN old.key ELSE key
             block == IF type # Farmer /\ old.block = None THEN "sign-up" ELSE old.block
             row == [user |-> u, type |-> type, name |-> name, key |-> written, org |-> old.org,
                     block |-> block]
  <1>3. profiles \in [ProfileIds -> {NoProfile} \cup ProfileRow]
    BY DEF RegistryTypeOK, ProfileRow, BlockRow
  <1>4. old.block \in BlockRow /\ old.org \in OrgIds \cup {None}
    BY <1>2, <1>3 DEF ProfileRow, BlockRow, NoProfile
  <1>5. old = NoProfile \/ old.key \in DedupeKeys
    BY <1>2, <1>3 DEF ProfileRow
  <1>6. written \in DedupeKeys
    BY <1>5, KeyTypes DEF Unused
  <1>7. block \in BlockRow /\ (old.block = "officer" => block = "officer")
    BY <1>4, RegistryAssumption DEF BlockRow
  <1>8. profiles' = [profiles EXCEPT ![p] = row]
    BY <1>1
  <1> HIDE DEF written, block, old
  <1>9. row \in ProfileRow /\ row.block = block
    BY <1>4, <1>6, <1>7 DEF ProfileRow
  <1> HIDE DEF row
  <1> QED
    BY <1>2, <1>3, <1>7, <1>8, <1>9 DEF BlocksStand, old

\* Blocking, unblocking and walk-ins.
LEMMA ProfileEditKeeps ==
  ASSUME RegistryTypeOK, NEW p \in ProfileIds
  PROVE  /\ Block(p) \/ Unblock(p) => profiles' \in [ProfileIds -> {NoProfile} \cup ProfileRow]
         /\ Block(p) => BlocksStand
         /\ Unblock(p) => \A q \in ProfileIds \ {p} : profiles'[q] = profiles[q]
         /\ \A name \in Names, f \in Faydas : WalkIn(p, name, f) =>
              profiles' \in [ProfileIds -> {NoProfile} \cup ProfileRow] /\ BlocksStand
  <1>1. profiles \in [ProfileIds -> {NoProfile} \cup ProfileRow]
    BY DEF RegistryTypeOK, ProfileRow, BlockRow
  <1>2. \A b \in BlockRow : ~Unused(p) => [profiles[p] EXCEPT !.block = b] \in ProfileRow
    BY <1>1 DEF Unused, ProfileRow
  <1>3. \A b : ~Unused(p) => [profiles[p] EXCEPT !.block = b].block = b
    BY <1>1 DEF Unused, ProfileRow
  <1>4. ASSUME NEW b \in BlockRow, ~Unused(p), profiles' = [profiles EXCEPT ![p].block = b]
        PROVE  /\ profiles' \in [ProfileIds -> {NoProfile} \cup ProfileRow]
               /\ profiles'[p].block = b
               /\ \A q \in ProfileIds \ {p} : profiles'[q] = profiles[q]
    <2> DEFINE row == [profiles[p] EXCEPT !.block = b]
    <2>1. row \in ProfileRow /\ row.block = b /\ profiles' = [profiles EXCEPT ![p] = row]
      BY <1>1, <1>2, <1>3, <1>4
    <2> HIDE DEF row
    <2> QED
      BY <1>1, <2>1
  <1>5. Block(p) \/ Unblock(p) => profiles' \in [ProfileIds -> {NoProfile} \cup ProfileRow]
    BY <1>4 DEF Block, Unblock, BlockRow
  <1>6. Block(p) => BlocksStand
    BY <1>4 DEF Block, BlockRow, BlocksStand
  <1>7. Unblock(p) => \A q \in ProfileIds \ {p} : profiles'[q] = profiles[q]
    BY <1>4 DEF Unblock, BlockRow
  <1>8. ASSUME NEW name \in Names, NEW f \in Faydas, WalkIn(p, name, f)
        PROVE  profiles' \in [ProfileIds -> {NoProfile} \cup ProfileRow] /\ BlocksStand
    <2> DEFINE row == [user |-> None, type |-> Farmer, name |-> name, key |-> Key("fayda", f),
                       org |-> None, block |-> None]
    <2>1. row \in ProfileRow
      BY KeyTypes DEF ProfileRow, BlockRow, DedupeKeys
    <2>2. profiles' = [profiles EXCEPT ![p] = row] /\ profiles[p].block # "officer"
      BY <1>8, RegistryAssumption DEF WalkIn, Unused, NoProfile
    <2> HIDE DEF row
    <2> QED
      BY <1>1, <2>1, <2>2 DEF BlocksStand
  <1> QED
    BY <1>5, <1>6, <1>7, <1>8

LEMMA SameIdentity ==
  ASSUME NEW one \in Identity, NEW two \in Identity,
         one.name = two.name, one.type = two.type, one.number = two.number
  PROVE  one = two
  BY DEF Identity

\* An edit of the identity is verified anew; a verdict is on what is there.
LEMMA OrganizationKeeps ==
  ASSUME RegistryInv, NEW u \in Logins,
         \/ \E values \in Identity : RegisterOrganization(u, values) \/ UpdateOrganization(u, values)
         \/ \E new \in {"In Review", "Active", "Suspended"} : SetStatus(u, new)
  PROVE  RegistryInv' /\ BlocksStand
  <1>1. orgs \in [OrgIds -> {NoOrg} \cup OrgRow] /\ verified \in [OrgIds -> Identity \cup {NoIdentity}]
        /\ u \in OrgIds
    BY DEF RegistryInv, RegistryTypeOK, OrgRow, OrgIds
  <1>2. ASSUME NEW row \in OrgRow, orgs' = [orgs EXCEPT ![u] = row],
               verified' \in [OrgIds -> Identity \cup {NoIdentity}],
               \A o \in OrgIds \ {u} : verified'[o] = verified[o],
               row.status = "Active" => row.is = verified'[u],
               NEW org \in Identity, NEW inserted \in BOOLEAN, SyncProfile(u, org, inserted)
        PROVE  RegistryInv' /\ BlocksStand
    <2>1. profiles' \in [ProfileIds -> {NoProfile} \cup ProfileRow] /\ BlocksStand
      BY <1>2, SyncProfileKeeps DEF RegistryInv
    <2>2. orgs' \in [OrgIds -> {NoOrg} \cup OrgRow]
      BY <1>1, <1>2
    <2>3. ActiveIsVerified'
      BY <1>1, <1>2 DEF RegistryInv, ActiveIsVerified
    <2> QED
      BY <1>2, <2>1, <2>2, <2>3 DEF RegistryInv, RegistryTypeOK, OrgRow, ProfileRow, BlockRow
  <1>3. ASSUME NEW values \in Identity, RegisterOrganization(u, values)
        PROVE  RegistryInv' /\ BlocksStand
    <2> DEFINE row == [is |-> values, status |-> "In Review"]
    <2>1. row \in OrgRow /\ row.status # "Active"
      BY DEF OrgRow
    <2>2. /\ orgs' = [orgs EXCEPT ![u] = row] /\ verified' = verified
          /\ SyncProfile(u, values, TRUE)
      BY <1>3 DEF RegisterOrganization
    <2> HIDE DEF row
    <2> QED
      BY <1>1, <1>2, <2>1, <2>2
  <1>4. ASSUME NEW values \in Identity, UpdateOrganization(u, values)
        PROVE  RegistryInv' /\ BlocksStand
    <2> DEFINE old == orgs[u]
               became == IF old.status = "Active" /\ Voids(old.is, values)
                         THEN "In Review" ELSE old.status
               row == [is |-> values, status |-> became]
    <2>1. old \in OrgRow /\ old.is \in Identity /\ old.is # values
      <3>1. old \in {NoOrg} \cup OrgRow /\ NoOrg.status = "Absent"
        BY <1>1 DEF NoOrg
      <3>2. old.status # "Absent" /\ values # old.is
        BY <1>4 DEF UpdateOrganization
      <3> QED
        BY <3>1, <3>2 DEF OrgRow
    <2>2. row \in OrgRow /\ row.status = became /\ row.is = values
      BY <2>1 DEF OrgRow
    <2>3. ~(old.status = "Active" /\ ~Voids(old.is, values))
      BY <2>1, SameIdentity DEF Voids
    <2>4. row.status # "Active"
      BY <2>2, <2>3
    <2>5. /\ orgs' = [orgs EXCEPT ![u] = row] /\ verified' = verified
          /\ SyncProfile(u, values, FALSE)
      BY <1>1, <1>4 DEF UpdateOrganization
    <2> HIDE DEF row
    <2> QED
      BY <1>1, <1>2, <2>2, <2>4, <2>5
  <1>5. ASSUME NEW new \in {"In Review", "Active", "Suspended"}, SetStatus(u, new)
        PROVE  RegistryInv' /\ BlocksStand
    <2> DEFINE old == orgs[u]
               row == [old EXCEPT !.status = new]
    <2>1. old \in OrgRow
      <3>1. old \in {NoOrg} \cup OrgRow /\ NoOrg.status = "Absent"
        BY <1>1 DEF NoOrg
      <3>2. old.status # "Absent"
        BY <1>5 DEF SetStatus, AdminMoves
      <3> QED
        BY <3>1, <3>2
    <2>2. row \in OrgRow /\ row.status = new /\ row.is = old.is /\ old.is \in Identity
      BY <2>1 DEF OrgRow
    <2>3. /\ orgs' = [orgs EXCEPT ![u] = row] /\ SyncProfile(u, old.is, FALSE)
          /\ verified' = IF new = "Active" THEN [verified EXCEPT ![u] = old.is] ELSE verified
      BY <1>1, <1>5 DEF SetStatus
    <2> HIDE DEF row, old
    <2>4. /\ verified' \in [OrgIds -> Identity \cup {NoIdentity}]
          /\ \A o \in OrgIds \ {u} : verified'[o] = verified[o]
          /\ new = "Active" => verified'[u] = old.is
      BY <1>1, <2>2, <2>3
    <2> QED
      BY <1>2, <2>2, <2>3, <2>4
  <1> QED
    BY <1>3, <1>4, <1>5

\* A step keeps the invariant, and an officer's block unless it is lifted.
LEMMA RegistryStep ==
  ASSUME RegistryInv, [RegistryNext]_registryVars
  PROVE  /\ RegistryInv'
         /\ BlocksStand \/ \E p \in ProfileIds : Unblock(p)
  <1>1. CASE UNCHANGED registryVars
    BY <1>1 DEF registryVars, RegistryInv, RegistryTypeOK, ActiveIsVerified, BlocksStand
  <1>2. ASSUME profiles' \in [ProfileIds -> {NoProfile} \cup ProfileRow], UNCHANGED <<orgs, verified>>
        PROVE  RegistryInv'
    BY <1>2 DEF RegistryInv, RegistryTypeOK, ActiveIsVerified, ProfileRow, BlockRow
  <1>3. ASSUME NEW p \in ProfileIds, Block(p) \/ Unblock(p)
        PROVE  RegistryInv' /\ (BlocksStand \/ Unblock(p))
    <2>1. UNCHANGED <<orgs, verified>>
      BY <1>3 DEF Block, Unblock
    <2> QED
      BY <1>2, <1>3, <2>1, ProfileEditKeeps DEF RegistryInv
  <1>4. ASSUME NEW p \in ProfileIds, NEW name \in Names, NEW f \in Faydas, WalkIn(p, name, f)
        PROVE  RegistryInv' /\ BlocksStand
    <2>1. UNCHANGED <<orgs, verified>>
      BY <1>4 DEF WalkIn
    <2> QED
      BY <1>2, <1>4, <2>1, ProfileEditKeeps DEF RegistryInv
  <1>5. ASSUME NEW u \in Logins, NEW type \in OrgTypes \cup {Farmer}, NEW name \in Names,
               NEW id \in Numbers \cup Faydas \cup {None}, RegisterProfile(u, type, name, id)
        PROVE  RegistryInv' /\ BlocksStand
    <2>1. UNCHANGED <<orgs, verified>>
      BY <1>5 DEF RegisterProfile
    <2> QED
      BY <1>2, <1>5, <2>1, RegisterProfileKeeps DEF RegistryInv
  <1> QED
    BY <1>1, <1>3, <1>4, <1>5, OrganizationKeeps DEF RegistryNext

LEMMA RegistryStarts == RegistryInit => RegistryInv
  BY DEF RegistryInit, RegistryInv, RegistryTypeOK, ActiveIsVerified, NoOrg

\* For any logins, profiles, names, types and numbers, the registry keeps its
\* types, and an Active organization is the one that was verified, whatever its
\* representative edited since (ActiveIsVerified).
THEOREM VerifiedAlways == RegistrySpec => []RegistryTypeOK /\ []ActiveIsVerified
  <1>1. RegistryInv => RegistryTypeOK /\ ActiveIsVerified
    BY DEF RegistryInv
  <1> QED
    BY <1>1, RegistryStarts, RegistryStep, PTL DEF RegistrySpec

\* An officer's block stands until staff lift it, whoever registers, edits or
\* verifies what meanwhile (OfficerBlockStands).
THEOREM BlockStands == RegistrySpec => OfficerBlockStands
  <1>1. ASSUME RegistryInv, [RegistryNext]_registryVars
        PROVE  [\A p \in ProfileIds :
                  profiles[p].block = "officer" /\ profiles'[p].block # "officer"
                    => Unblock(p)]_registryVars
    <2>1. CASE BlocksStand
      BY <2>1 DEF BlocksStand
    <2>2. ASSUME NEW q \in ProfileIds, Unblock(q)
          PROVE  \A p \in ProfileIds :
                   profiles[p].block = "officer" /\ profiles'[p].block # "officer" => Unblock(p)
      BY <1>1, <2>2, ProfileEditKeeps DEF RegistryInv
    <2> QED
      BY <1>1, <2>1, <2>2, RegistryStep
  <1> QED
    BY <1>1, RegistryStarts, RegistryStep, PTL DEF RegistrySpec, OfficerBlockStands

-----------------------------------------------------------------------------
(***************************************************************************)
(* The default category.  A request edits a row only if the row is still   *)
(* as it read it; a promotion asks anew who is the default.                *)
(***************************************************************************)
CategoryRow == [active : BOOLEAN, default : BOOLEAN]
TypeRow == [of : Categories, name : TypeNames, active : BOOLEAN]

\* What a request read of a row nobody moved is what the table says.
ReadsHold ==
  \A e \in Editors : snap[e] # NoRow =>
    /\ \A c \in Categories : c \notin moved[e] => snap[e].cats[c] = cats[c]
    /\ \A k \in TypeIds : k \notin moved[e] => snap[e].kinds[k] = kinds[k]

TaxonomyInv == TaxonomyTypeOK /\ ReadsHold /\ OneDefault

LEMMA RequestReads ==
  ASSUME TaxonomyInv, NEW e \in Editors, snap[e] # NoRow
  PROVE  /\ \A c \in Categories :
              /\ cats[c] \in CategoryRow \cup {NoRow}
              /\ c \notin moved[e] => Category(e, c) = cats[c]
         /\ \A k \in TypeIds :
              /\ kinds[k] \in TypeRow \cup {NoRow}
              /\ snap[e].kinds[k] \in TypeRow \cup {NoRow}
              /\ k \notin moved[e] => snap[e].kinds[k] = kinds[k]
  BY DEF TaxonomyInv, TaxonomyTypeOK, ReadsHold, Category, CategoryTables, TypeTables,
         CategoryRow, TypeRow

\* Whatever is committed, the other requests know which of their rows moved.
LEMMA CommitKeeps ==
  ASSUME TaxonomyInv, NEW e \in Editors, NEW newCats \in CategoryTables,
         NEW newKinds \in TypeTables, Commit(e, newCats, newKinds), OneDefault'
  PROVE  TaxonomyInv'
  <1> DEFINE written == {c \in Categories : newCats[c] # cats[c]} \cup
                        {k \in TypeIds : newKinds[k] # kinds[k]}
  <1>1. /\ cats' = newCats /\ kinds' = newKinds
        /\ commits < MaxCommits /\ commits' = commits + 1
        /\ snap' = [snap EXCEPT ![e] = NoRow]
        /\ moved' = [f \in Editors |->
             IF f = e \/ snap[f] = NoRow THEN {} ELSE moved[f] \cup written]
    BY DEF Commit
  <1>2. written \subseteq Categories \cup TypeIds
    OBVIOUS
  <1>3. TaxonomyTypeOK'
    <2> HIDE DEF written
    <2>1. moved' \in [Editors -> SUBSET (Categories \cup TypeIds)]
      BY <1>1, <1>2 DEF TaxonomyInv, TaxonomyTypeOK
    <2>2. snap' \in [Editors -> [cats : CategoryTables, kinds : TypeTables] \cup {NoRow}]
      BY <1>1 DEF TaxonomyInv, TaxonomyTypeOK
    <2>3. commits' \in 0..MaxCommits
      BY <1>1, TaxonomyAssumption DEF TaxonomyInv, TaxonomyTypeOK
    <2> QED
      BY <1>1, <2>1, <2>2, <2>3 DEF TaxonomyTypeOK
  <1>4. ReadsHold'
    <2> SUFFICES ASSUME NEW f \in Editors, snap'[f] # NoRow
                 PROVE  /\ \A c \in Categories : c \notin moved'[f] => snap'[f].cats[c] = cats'[c]
                        /\ \A k \in TypeIds : k \notin moved'[f] => snap'[f].kinds[k] = kinds'[k]
      BY DEF ReadsHold
    <2>1. f # e /\ snap'[f] = snap[f]
      BY <1>1 DEF TaxonomyInv, TaxonomyTypeOK
    <2>2. moved'[f] = moved[f] \cup written
      BY <1>1, <2>1
    <2> QED
      BY <1>1, <2>1, <2>2 DEF TaxonomyInv, ReadsHold
  <1> QED
    BY <1>3, <1>4 DEF TaxonomyInv

\* The catch-all type of a new default, found or made.
LEMMA CatchAllTables ==
  ASSUME TaxonomyInv, NEW e \in Editors, snap[e] # NoRow, NEW c \in Categories
  PROVE  WithCatchAll(e, c) \subseteq TypeTables
  <1>1. kinds \in [TypeIds -> TypeRow \cup {NoRow}]
    BY DEF TaxonomyInv, TaxonomyTypeOK, TypeTables, TypeRow
  <1>2. ASSUME NEW k \in Named(e, c, CatchAll) \ moved[e]
        PROVE  [kinds EXCEPT ![k].active = TRUE] \in TypeTables
    <2> DEFINE row == [kinds[k] EXCEPT !.active = TRUE]
    <2>1. k \in TypeIds /\ kinds[k] \in TypeRow
      BY <1>2, RequestReads DEF Named, TypesOf
    <2>2. row \in TypeRow
      BY <2>1 DEF TypeRow
    <2> HIDE DEF row
    <2>3. [kinds EXCEPT ![k] = row] \in [TypeIds -> TypeRow \cup {NoRow}]
      BY <1>1, <2>2
    <2> QED
      BY <2>3 DEF row, TypeTables, TypeRow
  <1>3. ASSUME NEW k \in FreeRows(kinds)
        PROVE  [kinds EXCEPT ![k] = [of |-> c, name |-> CatchAll, active |-> TRUE]] \in TypeTables
    <2> DEFINE row == [of |-> c, name |-> CatchAll, active |-> TRUE]
    <2>1. row \in TypeRow
      BY TaxonomyAssumption DEF TypeRow
    <2> HIDE DEF row
    <2>2. [kinds EXCEPT ![k] = row] \in [TypeIds -> TypeRow \cup {NoRow}]
      BY <1>1, <2>1
    <2> QED
      BY <2>2 DEF row, TypeTables, TypeRow
  <1>4. kinds \in TypeTables
    BY DEF TaxonomyInv, TaxonomyTypeOK
  <1> QED
    BY <1>2, <1>3, <1>4 DEF WithCatchAll

\* Whoever was the default gives way to the one that takes over.
LEMMA TakeOverKeeps ==
  ASSUME TaxonomyInv, NEW e \in Editors, snap[e] # NoRow, NEW c \in Categories, TakeOver(e, c)
  PROVE  TaxonomyInv'
  <1> DEFINE newCats == [d \in Categories |->
                 IF d = c THEN [active |-> TRUE, default |-> TRUE]
                 ELSE IF d \in Former(e, c) THEN [cats[d] EXCEPT !.default = FALSE]
                 ELSE cats[d]]
  <1>1. PICK newKinds \in WithCatchAll(e, c) : Commit(e, newCats, newKinds)
    BY DEF TakeOver
  <1>2. \A d \in Categories : cats[d] \in CategoryRow \cup {NoRow}
    BY RequestReads
  <1>3. \A row \in CategoryRow :
          [row EXCEPT !.default = FALSE] \in CategoryRow /\ ~[row EXCEPT !.default = FALSE].default
    BY DEF CategoryRow
  <1>4. [active |-> TRUE, default |-> TRUE] \in CategoryRow
    BY DEF CategoryRow
  <1>5. \A d \in Categories : newCats[d] \in CategoryRow \cup {NoRow}
    BY <1>2, <1>3, <1>4 DEF Former
  <1>6. newCats \in CategoryTables
    BY <1>5 DEF CategoryTables, CategoryRow
  <1>7. newCats[c] = [active |-> TRUE, default |-> TRUE] /\ newCats[c] # NoRow
    BY <1>4, TaxonomyAssumption DEF CategoryRow
  <1>8. \A d \in Categories \ {c} : newCats[d] # NoRow => ~newCats[d].default
    BY <1>2, <1>3 DEF Former
  <1> HIDE DEF newCats
  <1>9. OneDefault'
    BY <1>1, <1>7, <1>8 DEF Commit, OneDefault
  <1> QED
    BY <1>1, <1>6, <1>9, CatchAllTables, CommitKeeps

\* Any other edit of the categories: one row, not the default's but for what
\* leaves it the default.
LEMMA RowEditKeeps ==
  ASSUME TaxonomyInv, NEW e \in Editors, snap[e] # NoRow, NEW c \in Categories,
         NEW row \in CategoryRow, NEW newKinds \in TypeTables,
         Commit(e, [cats EXCEPT ![c] = row], newKinds),
         IF cats[c] = NoRow THEN ~row.default
         ELSE row.default = cats[c].default /\ (row.default => row.active)
  PROVE  TaxonomyInv'
  <1>1. cats \in [Categories -> CategoryRow \cup {NoRow}]
    BY DEF TaxonomyInv, TaxonomyTypeOK, CategoryTables, CategoryRow
  <1>2. [cats EXCEPT ![c] = row] \in CategoryTables
    BY <1>1 DEF CategoryTables, CategoryRow
  <1>3. cats' = [cats EXCEPT ![c] = row] /\ row # NoRow
    BY TaxonomyAssumption DEF Commit, CategoryRow
  <1>4. OneDefault'
    BY <1>1, <1>3 DEF TaxonomyInv, OneDefault
  <1> QED
    BY <1>2, <1>4, CommitKeeps

LEMMA CategoriesKeep ==
  ASSUME TaxonomyInv, NEW e \in Editors, NEW c \in Categories,
         \/ \E active, default \in BOOLEAN : CreateCategory(e, c, active, default)
         \/ PromoteCategory(e, c) \/ RetireCategory(e, c) \/ RestoreCategory(e, c)
  PROVE  TaxonomyInv'
  <1>1. snap[e] # NoRow
    BY DEF CreateCategory, PromoteCategory, RetireCategory, RestoreCategory
  <1>2. kinds \in TypeTables /\ kinds \in [TypeIds -> TypeRow \cup {NoRow}]
    BY DEF TaxonomyInv, TaxonomyTypeOK, TypeTables, TypeRow
  <1>3. CASE PromoteCategory(e, c)
    BY <1>1, <1>3, TakeOverKeeps DEF PromoteCategory
  <1>4. ASSUME NEW active \in BOOLEAN, NEW default \in BOOLEAN,
               CreateCategory(e, c, active, default)
        PROVE  TaxonomyInv'
    <2>1. CASE default
      BY <1>1, <1>4, <2>1, TakeOverKeeps DEF CreateCategory
    <2>2. CASE ~default
      <3> DEFINE row == [active |-> active, default |-> FALSE]
      <3>1. row \in CategoryRow /\ ~row.default
        BY DEF CategoryRow
      <3>2. cats[c] = NoRow /\ Commit(e, [cats EXCEPT ![c] = row], kinds)
        BY <1>4, <2>2 DEF CreateCategory
      <3> HIDE DEF row
      <3> QED
        BY <1>1, <1>2, <3>1, <3>2, RowEditKeeps
    <2> QED
      BY <2>1, <2>2
  <1>5. ASSUME NEW b \in BOOLEAN, NEW newKinds \in TypeTables, cats[c] \in CategoryRow,
               Commit(e, [cats EXCEPT ![c].active = b], newKinds), b \/ ~cats[c].default
        PROVE  TaxonomyInv'
    <2> DEFINE row == [cats[c] EXCEPT !.active = b]
    <2>1. row \in CategoryRow /\ row.default = cats[c].default /\ row.active = b
      BY <1>5 DEF CategoryRow
    <2>2. Commit(e, [cats EXCEPT ![c] = row], newKinds) /\ cats[c] # NoRow
      BY <1>5, TaxonomyAssumption DEF CategoryRow
    <2> HIDE DEF row
    <2> QED
      BY <1>1, <1>5, <2>1, <2>2, RowEditKeeps
  <1>6. CASE RetireCategory(e, c)
    <2> DEFINE retired == {k \in TypesOf(e, c) : snap[e].kinds[k].active}
               newKinds == [k \in TypeIds |-> IF k \in retired THEN [kinds[k] EXCEPT !.active = FALSE]
                                              ELSE kinds[k]]
    <2>1. cats[c] = Category(e, c) /\ cats[c] \in CategoryRow /\ ~cats[c].default
      BY <1>1, <1>6, RequestReads DEF RetireCategory
    <2>2. retired \cap moved[e] = {} /\ Commit(e, [cats EXCEPT ![c].active = FALSE], newKinds)
      BY <1>6 DEF RetireCategory
    <2>3. \A k \in retired : k \in TypeIds /\ kinds[k] \in TypeRow
      BY <1>1, <2>2, RequestReads DEF TypesOf
    <2>4. \A t \in TypeRow : [t EXCEPT !.active = FALSE] \in TypeRow
      BY DEF TypeRow
    <2>5. newKinds \in TypeTables
      BY <1>2, <2>3, <2>4 DEF TypeTables, TypeRow
    <2> HIDE DEF newKinds
    <2> QED
      BY <1>5, <2>1, <2>2, <2>5
  <1>7. CASE RestoreCategory(e, c)
    <2>1. cats[c] = Category(e, c) /\ cats[c] \in CategoryRow
      BY <1>1, <1>7, RequestReads DEF RestoreCategory
    <2> QED
      BY <1>2, <1>5, <1>7, <2>1 DEF RestoreCategory
  <1> QED
    BY <1>3, <1>4, <1>6, <1>7

\* The types' edits leave the categories as they are.
LEMMA TypesKeep ==
  ASSUME TaxonomyInv, NEW e \in Editors,
         \/ \E c \in Categories, name \in TypeNames : CreateType(e, c, name)
         \/ \E k \in TypeIds : SwitchType(e, k) \/ \E name \in TypeNames : RenameType(e, k, name)
  PROVE  TaxonomyInv'
  <1>1. snap[e] # NoRow
    BY DEF CreateType, SwitchType, RenameType
  <1>2. kinds \in [TypeIds -> TypeRow \cup {NoRow}] /\ cats \in CategoryTables
    BY DEF TaxonomyInv, TaxonomyTypeOK, TypeTables, TypeRow
  <1>3. ASSUME NEW k \in TypeIds, NEW row \in TypeRow, Commit(e, cats, [kinds EXCEPT ![k] = row])
        PROVE  TaxonomyInv'
    <2>1. [kinds EXCEPT ![k] = row] \in TypeTables
      BY <1>2 DEF TypeTables, TypeRow
    <2>2. cats' = cats
      BY <1>3 DEF Commit
    <2>3. OneDefault'
      BY <2>2 DEF TaxonomyInv, OneDefault
    <2> QED
      BY <1>2, <1>3, <2>1, <2>3, CommitKeeps
  <1>4. ASSUME NEW c \in Categories, NEW name \in TypeNames, CreateType(e, c, name)
        PROVE  TaxonomyInv'
    <2> DEFINE row == [of |-> c, name |-> name, active |-> TRUE]
    <2>1. PICK k \in FreeRows(kinds) : Commit(e, cats, [kinds EXCEPT ![k] = row])
      BY <1>4 DEF CreateType
    <2>2. row \in TypeRow /\ k \in TypeIds
      BY <1>2 DEF TypeRow, FreeRows
    <2> HIDE DEF row
    <2> QED
      BY <1>3, <2>1, <2>2
  <1>5. ASSUME NEW k \in TypeIds, SwitchType(e, k)
        PROVE  TaxonomyInv'
    <2> DEFINE row == [kinds[k] EXCEPT !.active = ~@]
    <2>1. kinds[k] \in TypeRow
      BY <1>1, <1>5, RequestReads DEF SwitchType
    <2>2. row \in TypeRow
      BY <2>1 DEF TypeRow
    <2>3. Commit(e, cats, [kinds EXCEPT ![k] = row])
      BY <1>5 DEF SwitchType
    <2> HIDE DEF row
    <2> QED
      BY <1>3, <2>2, <2>3
  <1>6. ASSUME NEW k \in TypeIds, NEW name \in TypeNames, RenameType(e, k, name)
        PROVE  TaxonomyInv'
    <2> DEFINE row == [kinds[k] EXCEPT !.name = name]
    <2>1. kinds[k] \in TypeRow
      BY <1>1, <1>6, RequestReads DEF RenameType
    <2>2. row \in TypeRow
      BY <2>1 DEF TypeRow
    <2>3. Commit(e, cats, [kinds EXCEPT ![k] = row])
      BY <1>6 DEF RenameType
    <2> HIDE DEF row
    <2> QED
      BY <1>3, <2>2, <2>3
  <1> QED
    BY <1>4, <1>5, <1>6

LEMMA TaxonomyStep ==
  ASSUME TaxonomyInv, [TaxonomyNext]_taxonomyVars
  PROVE  TaxonomyInv'
  <1>1. CASE UNCHANGED taxonomyVars
    BY <1>1 DEF taxonomyVars, TaxonomyInv, TaxonomyTypeOK, ReadsHold, OneDefault
  <1>2. ASSUME NEW e \in Editors, Begin(e) \/ Abandon(e)
        PROVE  TaxonomyInv'
    <2>1. UNCHANGED <<cats, kinds, commits>>
      BY <1>2 DEF Begin, Abandon
    <2>2. PICK reads \in [cats : CategoryTables, kinds : TypeTables] \cup {NoRow} :
            /\ snap' = [snap EXCEPT ![e] = reads]
            /\ reads = NoRow \/ reads = [cats |-> cats, kinds |-> kinds]
      BY <1>2 DEF Begin, Abandon, TaxonomyInv, TaxonomyTypeOK
    <2>3. \/ moved' = moved
          \/ moved' = [moved EXCEPT ![e] = {}] /\ snap'[e] = NoRow
      BY <1>2 DEF Begin, Abandon, TaxonomyInv, TaxonomyTypeOK
    <2>4. TaxonomyTypeOK'
      BY <2>1, <2>2, <2>3 DEF TaxonomyInv, TaxonomyTypeOK
    <2>5. ReadsHold'
      BY <2>1, <2>2, <2>3 DEF TaxonomyInv, TaxonomyTypeOK, ReadsHold
    <2> QED
      BY <2>1, <2>4, <2>5 DEF TaxonomyInv, OneDefault
  <1> QED
    BY <1>1, <1>2, CategoriesKeep, TypesKeep DEF TaxonomyNext

LEMMA TaxonomyStarts == TaxonomyInit => TaxonomyInv
  <1> SUFFICES ASSUME TaxonomyInit PROVE TaxonomyInv
    OBVIOUS
  <1>1. kinds \in TypeTables
    BY TaxonomyAssumption DEF TaxonomyInit, TypeTables
  <1>2. TaxonomyTypeOK
    BY <1>1, TaxonomyAssumption DEF TaxonomyInit, TaxonomyTypeOK
  <1>3. [active |-> TRUE, default |-> TRUE] \in [active : BOOLEAN, default : BOOLEAN]
    OBVIOUS
  <1>4. cats[SeededCategory] # NoRow
    BY <1>3, TaxonomyAssumption DEF TaxonomyInit
  <1>5. OneDefault
    BY <1>4, TaxonomyAssumption DEF TaxonomyInit, OneDefault
  <1> QED
    BY <1>2, <1>5 DEF TaxonomyInit, TaxonomyInv, ReadsHold

\* For any categories, types and crossing requests, exactly one category is the
\* default, and it is active (OneDefault).
THEOREM OneDefaultAlways == TaxonomySpec => []TaxonomyTypeOK /\ []OneDefault
  <1>1. TaxonomyInv => TaxonomyTypeOK /\ OneDefault
    BY DEF TaxonomyInv
  <1> QED
    BY <1>1, TaxonomyStarts, TaxonomyStep, PTL DEF TaxonomySpec

-----------------------------------------------------------------------------
(***************************************************************************)
(* Exports.  Until a row is committed a request has none, and then it has  *)
(* the one that says what it answers.                                      *)
(***************************************************************************)
ExportRow ==
  [at : Places, says : AuditedDecisions, digest : Digests, tries : 0 .. WriteAttempts,
   read : 0 .. MaxDenials]

\* What a request has on record where it is.
OnRecord(e) ==
  /\ exporting[e].at \notin {"recorded", "answered", "dead"} => RowsOf(e) = {}
  /\ exporting[e].at = "recorded" =>
       \E entry \in RowsOf(e) :
         entry[1].says = exporting[e].says /\ entry[1].digest = exporting[e].digest
  /\ exporting[e].at = "writing" => exporting[e].tries < WriteAttempts
  /\ exporting[e].at = "counted" => exporting[e].read < MaxDenials
  /\ exporting[e].at \notin {"writing", "inserted", "recorded", "answered", "dead"} =>
       exporting[e].tries = 0

AuditInv ==
  AuditTypeOK /\ HandedOverOnRecord /\ \A e \in Exports : OnRecord(e)

LEMMA ExportTypes ==
  ASSUME AuditInv, NEW e \in Exports
  PROVE  /\ exporting \in [Exports -> ExportRow] /\ exporting[e] \in ExportRow
         /\ OnRecord(e)
         /\ NoFile \in Digests /\ content \in Digests
  BY AuditAssumption DEF AuditInv, AuditTypeOK, ExportRow, Digests, NoFile

\* A step of one request that leaves the trail as it was.
LEMMA ExportMoves ==
  ASSUME AuditInv, NEW e \in Exports, NEW row \in ExportRow,
         exporting' = [exporting EXCEPT ![e] = row], UNCHANGED trail,
         content' \in 0 .. MaxContent, refusals' \in 0 .. MaxDenials,
         \/ taken' = taken
         \/ /\ taken' = taken \cup {<<e, row.digest>>} /\ row.digest = exporting[e].digest
            /\ exporting[e].at = "recorded" /\ exporting[e].says = "export",
         OnRecord(e)'
  PROVE  AuditInv'
  <1>1. exporting \in [Exports -> ExportRow]
    BY ExportTypes
  <1>2. exporting' \in [Exports -> ExportRow]
    BY <1>1
  <1>3. taken' \subseteq Exports \X Digests
    BY DEF AuditInv, AuditTypeOK, ExportRow
  <1>4. AuditTypeOK'
    BY <1>2, <1>3 DEF AuditInv, AuditTypeOK, ExportRow
  <1>5. \A f \in Exports : RowsOf(f)' = RowsOf(f)
    BY DEF RowsOf
  <1>6. \A f \in Exports \ {e} : exporting'[f] = exporting[f]
    BY <1>1
  <1>7. \A f \in Exports : OnRecord(f)'
    BY <1>5, <1>6 DEF AuditInv, OnRecord
  <1>8. HandedOverOnRecord'
    <2>1. \A entry \in trail : entry[1].of \in Exports
      BY DEF AuditInv, AuditTypeOK, AuditRows
    <2>2. \A entry \in trail' : RowsOf(entry[1].of)' = {entry}
      BY <1>5, <2>1 DEF AuditInv, HandedOverOnRecord
    <2>3. ASSUME NEW file \in taken'
          PROVE  \E entry \in RowsOf(file[1])' : entry[1].says = "export" /\ entry[1].digest = file[2]
      <3>1. CASE file \in taken
        BY <1>5, <3>1 DEF AuditInv, AuditTypeOK, HandedOverOnRecord
      <3>2. CASE file \notin taken
        <4>1. /\ file = <<e, exporting[e].digest>>
              /\ exporting[e].at = "recorded" /\ exporting[e].says = "export"
          BY <2>3, <3>2
        <4>2. OnRecord(e)
          BY DEF AuditInv
        <4> QED
          BY <1>5, <4>1, <4>2 DEF OnRecord
      <3> QED
        BY <3>1, <3>2
    <2> QED
      BY <2>2, <2>3 DEF HandedOverOnRecord
  <1> QED
    BY <1>4, <1>7, <1>8 DEF AuditInv

\* A row is committed, or perhaps not, by the request that holds it.
LEMMA RowCommits ==
  ASSUME AuditInv, NEW e \in Exports, NEW happened \in BOOLEAN, NEW place \in {"recorded", "answered"},
         exporting[e].at = "inserted", happened \/ place = "answered",
         trail' = IF happened THEN TrailWith(e) ELSE trail,
         JobAt(e, place), UNCHANGED <<content, taken, refusals>>
  PROVE  AuditInv'
  <1> DEFINE entry == <<[of |-> e, says |-> exporting[e].says, digest |-> exporting[e].digest], 1>>
             row == [exporting[e] EXCEPT !.at = place]
  <1>1. exporting \in [Exports -> ExportRow] /\ exporting[e] \in ExportRow
    BY ExportTypes
  <1>2. row \in ExportRow /\ row.at = place /\ row.says = exporting[e].says
          /\ row.digest = exporting[e].digest
    BY <1>1 DEF ExportRow, Places
  <1>3. exporting' = [exporting EXCEPT ![e] = row]
    BY DEF JobAt
  <1>4. RowsOf(e) = {}
    BY DEF AuditInv, OnRecord
  <1>5. TrailWith(e) = trail \cup {entry}
    BY <1>4, FS_EmptySet DEF TrailWith
  <1>6. entry \in AuditRows \X (1 .. WriteAttempts) /\ entry[1].of = e
          /\ entry[1].says = row.says /\ entry[1].digest = row.digest
    BY <1>1, <1>2, AuditAssumption DEF ExportRow, AuditRows
  <1> HIDE DEF row, entry
  <1>7. CASE ~happened
    <2>1. OnRecord(e)'
      BY <1>1, <1>2, <1>3, <1>7 DEF OnRecord
    <2> QED
      BY <1>2, <1>3, <1>7, <2>1, ExportMoves DEF AuditInv, AuditTypeOK
  <1>8. CASE happened
    <2>1. trail' = trail \cup {entry}
      BY <1>5, <1>8
    <2>2. exporting' \in [Exports -> ExportRow]
      BY <1>1, <1>2, <1>3
    <2>3. AuditTypeOK'
      BY <1>6, <2>1, <2>2 DEF AuditInv, AuditTypeOK, ExportRow
    <2>4. /\ RowsOf(e)' = {entry}
          /\ \A f \in Exports \ {e} : RowsOf(f)' = RowsOf(f) /\ exporting'[f] = exporting[f]
      BY <1>1, <1>3, <1>4, <1>6, <2>1 DEF RowsOf
    <2>5. exporting'[e] = row
      BY <1>1, <1>3
    <2>6. OnRecord(e)'
      BY <1>2, <1>6, <2>4, <2>5 DEF OnRecord
    <2>7. \A f \in Exports : OnRecord(f)'
      BY <2>4, <2>6 DEF AuditInv, OnRecord
    <2>8. \A file \in taken' : \E one \in RowsOf(file[1])' :
            one[1].says = "export" /\ one[1].digest = file[2]
      BY <1>4, <2>1 DEF AuditInv, HandedOverOnRecord, RowsOf
    <2>9. \A one \in trail' : RowsOf(one[1].of)' = {one}
      <3> SUFFICES ASSUME NEW one \in trail' PROVE RowsOf(one[1].of)' = {one}
        OBVIOUS
      <3>1. CASE one = entry
        BY <1>6, <2>4, <3>1
      <3>2. CASE one \in trail
        <4>1. one[1].of \in Exports
          BY <3>2 DEF AuditInv, AuditTypeOK, AuditRows
        <4>2. one[1].of # e
          BY <1>4, <3>2 DEF RowsOf
        <4> QED
          BY <2>4, <3>2, <4>1, <4>2 DEF AuditInv, HandedOverOnRecord
      <3> QED
        BY <2>1, <3>1, <3>2
    <2> QED
      BY <2>3, <2>7, <2>8, <2>9 DEF AuditInv, HandedOverOnRecord
  <1> QED
    BY <1>7, <1>8

\* Every other step of a request.
LEMMA ExportStepKeeps ==
  ASSUME AuditInv, NEW e \in Exports,
         \/ \E allowed \in BOOLEAN : Authorise(e, allowed)
         \/ CountRefusals(e) \/ NoteRefusal(e) \/ BuildFile(e)
         \/ InsertRow(e) \/ LoseRace(e) \/ HandOver(e) \/ WorkerDies(e)
  PROVE  AuditInv'
  <1> DEFINE old == exporting[e]
  <1>1. /\ exporting \in [Exports -> ExportRow] /\ old \in ExportRow
        /\ OnRecord(e) /\ NoFile \in Digests /\ content \in Digests
        /\ content \in 0 .. MaxContent /\ refusals \in 0 .. MaxDenials
    BY ExportTypes DEF AuditInv, AuditTypeOK
  <1>2. ASSUME NEW place \in Places, JobAt(e, place), UNCHANGED <<content, trail, taken, refusals>>,
               \/ place \in {"answered", "dead"}
               \/ place = "inserted" /\ old.at = "writing"
               \/ place \in {"cleared", "refused"} /\ old.at = "new"
        PROVE  AuditInv'
    <2> DEFINE row == [old EXCEPT !.at = place]
    <2>1. /\ row \in ExportRow /\ row.at = place /\ row.tries = old.tries
          /\ exporting' = [exporting EXCEPT ![e] = row]
      BY <1>1, <1>2 DEF ExportRow, JobAt
    <2> HIDE DEF row
    <2>2. RowsOf(e)' = RowsOf(e) /\ exporting'[e] = row
      BY <1>1, <1>2, <2>1 DEF RowsOf
    <2>3. OnRecord(e)'
      BY <1>1, <1>2, <2>1, <2>2 DEF OnRecord
    <2> QED
      BY <1>1, <1>2, <2>1, <2>3, ExportMoves
  <1>3. CASE \E allowed \in BOOLEAN : Authorise(e, allowed)
    BY <1>2, <1>3 DEF Authorise, Places
  <1>4. CASE InsertRow(e)
    BY <1>2, <1>4 DEF InsertRow, Places
  <1>5. CASE WorkerDies(e)
    BY <1>2, <1>5 DEF WorkerDies, Places
  <1>6. CASE CountRefusals(e)
    <2> DEFINE place == IF refusals >= MaxDenials THEN "answered" ELSE "counted"
               row == [old EXCEPT !.at = place, !.read = refusals]
    <2>1. /\ row \in ExportRow /\ row.at = place /\ row.tries = old.tries /\ row.read = refusals
      BY <1>1 DEF ExportRow, Places
    <2>2. /\ exporting' = [exporting EXCEPT ![e] = row] /\ old.at = "refused"
          /\ UNCHANGED <<content, trail, taken, refusals>>
      BY <1>1, <1>6 DEF CountRefusals, ExportRow
    <2>3. place = "counted" => refusals < MaxDenials
      BY <1>1, AuditAssumption
    <2>4. place \in {"answered", "counted"}
      OBVIOUS
    <2> HIDE DEF row, place
    <2>5. RowsOf(e)' = RowsOf(e) /\ exporting'[e] = row
      BY <1>1, <2>1, <2>2 DEF RowsOf
    <2>6. OnRecord(e)'
      BY <1>1, <2>1, <2>2, <2>3, <2>4, <2>5 DEF OnRecord
    <2> QED
      BY <1>1, <2>1, <2>2, <2>6, ExportMoves
  <1>7. ASSUME NEW says \in AuditedDecisions, NEW digest \in Digests, RowToWrite(e, says, digest),
               UNCHANGED <<content, trail, taken>>, refusals' \in 0 .. MaxDenials,
               old.at \in {"counted", "cleared"}
        PROVE  AuditInv'
    <2> DEFINE row == [old EXCEPT !.at = "writing", !.says = says, !.digest = digest]
    <2>1. /\ row \in ExportRow /\ row.at = "writing" /\ row.tries = old.tries
      BY <1>1 DEF ExportRow, Places
    <2>2. exporting' = [exporting EXCEPT ![e] = row]
      BY <1>1, <1>7 DEF RowToWrite, ExportRow
    <2> HIDE DEF row
    <2>3. RowsOf(e)' = RowsOf(e) /\ exporting'[e] = row
      BY <1>1, <1>7, <2>1, <2>2 DEF RowsOf
    <2>4. old.tries = 0 /\ 0 < WriteAttempts /\ RowsOf(e) = {}
      BY <1>1, <1>7, AuditAssumption DEF OnRecord
    <2>5. OnRecord(e)'
      BY <2>1, <2>3, <2>4 DEF OnRecord
    <2> QED
      BY <1>1, <1>7, <2>1, <2>2, <2>5, ExportMoves
  <1>8. CASE NoteRefusal(e)
    <2>1. old.read < MaxDenials /\ old.read \in 0 .. MaxDenials
      BY <1>1, <1>8 DEF NoteRefusal, OnRecord, ExportRow
    <2>2. refusals' \in 0 .. MaxDenials
      BY <1>8, <2>1, AuditAssumption DEF NoteRefusal
    <2> QED
      BY <1>1, <1>7, <1>8, <2>2 DEF NoteRefusal, AuditedDecisions
  <1>9. CASE BuildFile(e)
    BY <1>1, <1>7, <1>9 DEF BuildFile, AuditedDecisions
  <1>10. CASE LoseRace(e)
    <2> DEFINE place == IF old.tries + 1 = WriteAttempts THEN "answered" ELSE "writing"
               row == [old EXCEPT !.tries = old.tries + 1, !.at = place]
    <2>1. old.at = "writing" /\ old.tries \in 0 .. WriteAttempts /\ old.tries < WriteAttempts
            /\ RowsOf(e) = {}
      BY <1>1, <1>10 DEF LoseRace, OnRecord, ExportRow
    <2>2. old.tries + 1 \in 0 .. WriteAttempts /\ (place = "writing" => old.tries + 1 < WriteAttempts)
      BY <2>1, AuditAssumption
    <2>3. row \in ExportRow /\ row.at = place /\ row.tries = old.tries + 1
      BY <1>1, <2>2 DEF ExportRow, Places
    <2>4. exporting' = [exporting EXCEPT ![e] = row] /\ UNCHANGED <<content, trail, taken, refusals>>
      BY <1>1, <1>10, <2>1 DEF LoseRace, ExportRow
    <2>5. place \in {"answered", "writing"}
      OBVIOUS
    <2> HIDE DEF row, place
    <2>6. RowsOf(e)' = RowsOf(e) /\ exporting'[e] = row
      BY <1>1, <2>3, <2>4 DEF RowsOf
    <2>7. OnRecord(e)'
      BY <2>1, <2>2, <2>3, <2>5, <2>6 DEF OnRecord
    <2> QED
      BY <1>1, <2>3, <2>4, <2>7, ExportMoves
  <1>11. CASE HandOver(e)
    <2> DEFINE row == [old EXCEPT !.at = "answered"]
    <2>1. row \in ExportRow /\ row.at = "answered" /\ row.digest = old.digest
      BY <1>1 DEF ExportRow, Places
    <2>2. /\ exporting' = [exporting EXCEPT ![e] = row] /\ old.at = "recorded"
          /\ UNCHANGED <<content, trail, refusals>>
          /\ taken' = IF old.says = "export" THEN taken \cup {<<e, row.digest>>} ELSE taken
      BY <1>11, <2>1 DEF HandOver, JobAt
    <2> HIDE DEF row
    <2>3. exporting'[e] = row
      BY <1>1, <2>1, <2>2
    <2>4. OnRecord(e)'
      BY <2>1, <2>3 DEF OnRecord
    <2> QED
      BY <1>1, <2>1, <2>2, <2>4, ExportMoves
  <1> QED
    BY <1>3, <1>4, <1>5, <1>6, <1>8, <1>9, <1>10, <1>11

LEMMA AuditStep ==
  ASSUME AuditInv, [AuditNext]_auditVars
  PROVE  AuditInv'
  <1>1. ASSUME UNCHANGED <<exporting, trail, taken>>, content' \in 0 .. MaxContent,
               refusals' \in 0 .. MaxDenials
        PROVE  AuditInv'
    BY <1>1 DEF AuditInv, AuditTypeOK, HandedOverOnRecord, OnRecord, RowsOf
  <1>2. content \in 0 .. MaxContent /\ refusals \in 0 .. MaxDenials
    BY DEF AuditInv, AuditTypeOK
  <1>3. CASE UNCHANGED auditVars
    BY <1>1, <1>2, <1>3 DEF auditVars
  <1>4. CASE CaseChanges \/ NextMinute
    BY <1>1, <1>2, <1>4, AuditAssumption DEF CaseChanges, NextMinute
  <1>5. ASSUME NEW e \in Exports, CommitRow(e) \/ \E yes \in BOOLEAN : CommitLost(e, yes)
        PROVE  AuditInv'
    BY <1>5, RowCommits DEF CommitRow, CommitLost
  <1> QED
    BY <1>3, <1>4, <1>5, ExportStepKeeps DEF AuditNext

LEMMA AuditStarts == AuditInit => AuditInv
  <1> SUFFICES ASSUME AuditInit PROVE AuditInv
    OBVIOUS
  <1>1. \A e \in Exports : RowsOf(e) = {}
    BY DEF AuditInit, RowsOf
  <1>2. AuditTypeOK
    BY AuditAssumption DEF AuditInit, AuditTypeOK, Places, AuditedDecisions, Digests, NoFile
  <1> QED
    BY <1>1, <1>2 DEF AuditInit, AuditInv, OnRecord, HandedOverOnRecord

\* For any number of exports, attempts and deaths, a file handed over has its
\* committed row with its digest, and no request leaves two (HandedOverOnRecord).
THEOREM OnRecordAlways == AuditSpec => []AuditTypeOK /\ []HandedOverOnRecord
  <1>1. AuditInv => AuditTypeOK /\ HandedOverOnRecord
    BY DEF AuditInv
  <1> QED
    BY <1>1, AuditStarts, AuditStep, PTL DEF AuditSpec

-----------------------------------------------------------------------------
(***************************************************************************)
(* The provider directory.  Between its start and its commit a run sees    *)
(* the providers as they are, but for what somebody edited by hand; and    *)
(* one provider stands for a reference.                                    *)
(***************************************************************************)
RefsDiffer ==
  \A one, other \in Owned(directory) :
    directory[one].ref = directory[other].ref => one = other

SeenHolds ==
  job.at = "running" =>
    /\ \A id \in Ids :
         /\ id \in Owned(directory) <=> id \in Owned(job.seen)
         /\ id \in Owned(directory) => directory[id].ref = job.seen[id].ref
    /\ ~touched => directory = job.seen

SyncInv ==
  /\ SyncTypeOK /\ job = [at |-> job.at, seen |-> job.seen, rows |-> job.rows]
  /\ RefsDiffer /\ SeenHolds /\ DirectoryMirrorsSource

\* A provider that is there goes only when a list that was read left it out.
KeepsListed ==
  \A id \in Owned(directory) :
    directory'[id] = NoProvider => directory[id].ref \notin DOMAIN listed' /\ DOMAIN listed' # {}

LEMMA RowTypes ==
  ASSUME SyncTypeOK
  PROVE  /\ \A id \in Ids : directory[id] \in Rows \cup {NoProvider}
         /\ \A id \in Owned(directory) : directory[id] \in Rows /\ directory[id].ref \in Refs
         /\ job.at = "running" =>
              /\ \A id \in Ids : job.seen[id] \in Rows \cup {NoProvider}
              /\ \A id \in Owned(job.seen) : job.seen[id] \in Rows /\ job.seen[id].ref \in Refs
  BY SyncAssumption DEF SyncTypeOK, Directories, Owned, Rows

LEMMA NoListFits == NoList \in Lists
  <1>1. NoList \in [{} -> Details]
    BY DEF NoList
  <1> QED
    BY <1>1 DEF Lists

\* What leaves the directory as it is.
LEMMA JobMoves ==
  ASSUME SyncInv, UNCHANGED <<directory, touched, touches>>, SyncTypeOK',
         job' = [at |-> job'.at, seen |-> job'.seen, rows |-> job'.rows],
         job'.at = "running" => job'.seen = directory \/ (job'.seen = job.seen /\ job.at = "running"),
         UNCHANGED <<status, listed>> \/ status' = "Failed"
  PROVE  SyncInv' /\ KeepsListed
  <1>1. RefsDiffer' /\ Owned(directory)' = Owned(directory)
    BY DEF SyncInv, RefsDiffer, Owned
  <1>2. SeenHolds'
    BY DEF SyncInv, SeenHolds, Owned
  <1>3. DirectoryMirrorsSource'
    BY DEF SyncInv, DirectoryMirrorsSource, Owned
  <1>4. KeepsListed
    BY DEF KeepsListed, Owned
  <1> QED
    BY <1>1, <1>2, <1>3, <1>4 DEF SyncInv

\* An edit by hand leaves every provider where it is.
LEMMA TouchKeeps ==
  ASSUME SyncInv, NEW written \in Directories, Touch(written),
         \A id \in Ids :
           /\ id \in Owned(directory) <=> id \in Owned(written)
           /\ id \in Owned(directory) => directory[id].ref = written[id].ref
  PROVE  SyncInv' /\ KeepsListed
  <1>1. /\ touches < MaxTouches /\ touches' = touches + 1 /\ touched' = TRUE
        /\ directory' = written /\ listed' = NoList
        /\ UNCHANGED <<catalog, enabled, job, status>>
    BY DEF Touch
  <1>2. SyncTypeOK'
    <2>1. touches' \in 0..MaxTouches
      BY <1>1, SyncAssumption DEF SyncInv, SyncTypeOK
    <2> QED
      BY <1>1, <2>1, NoListFits DEF SyncInv, SyncTypeOK
  <1>3. Owned(directory') = Owned(written) /\ Owned(written) = Owned(directory)
    BY <1>1 DEF Owned
  <1>4. RefsDiffer'
    BY <1>1, <1>3 DEF SyncInv, RefsDiffer, Owned
  <1>5. SeenHolds'
    BY <1>1, <1>3 DEF SyncInv, SeenHolds
  <1>6. DirectoryMirrorsSource' /\ KeepsListed
    BY <1>1, <1>3 DEF DirectoryMirrorsSource, KeepsListed, Owned
  <1> QED
    BY <1>1, <1>2, <1>4, <1>5, <1>6 DEF SyncInv

LEMMA EditsKeep ==
  ASSUME SyncInv, NEW id \in Ids,
         SetActive(id) \/ \E parent \in Ids : AddBranch(id, parent)
  PROVE  SyncInv' /\ KeepsListed
  <1>1. directory \in [Ids -> Rows \cup {NoProvider}]
    BY DEF SyncInv, SyncTypeOK, Directories
  <1>2. ASSUME NEW row \in Rows, Touch([directory EXCEPT ![id] = row]),
               IF Exists(id) THEN row.ref = directory[id].ref ELSE row.ref = NoProvider
        PROVE  SyncInv' /\ KeepsListed
    <2>1. [directory EXCEPT ![id] = row] \in Directories
      BY <1>1 DEF Directories
    <2>2. row # NoProvider
      BY SyncAssumption
    <2> QED
      BY <1>1, <1>2, <2>1, <2>2, TouchKeeps DEF Owned, Exists
  <1>3. CASE SetActive(id)
    <2> DEFINE row == [directory[id] EXCEPT !.active = ~@]
    <2>1. directory[id] \in Rows
      BY <1>1, <1>3 DEF SetActive, Exists
    <2>2. row \in Rows /\ row.ref = directory[id].ref
      BY <2>1 DEF Rows
    <2>3. Touch([directory EXCEPT ![id] = row])
      BY <1>3 DEF SetActive
    <2> HIDE DEF row
    <2> QED
      BY <1>2, <1>3, <2>2, <2>3 DEF SetActive
  <1>4. ASSUME NEW parent \in Ids, AddBranch(id, parent)
        PROVE  SyncInv' /\ KeepsListed
    <2> DEFINE row == Row(NoProvider, NoProvider, TRUE, parent)
    <2>1. row \in Rows /\ row.ref = NoProvider
      BY DEF Row, Rows
    <2>2. Touch([directory EXCEPT ![id] = row]) /\ ~Exists(id)
      BY <1>4 DEF AddBranch
    <2> HIDE DEF row
    <2> QED
      BY <1>2, <2>1, <2>2
  <1> QED
    BY <1>3, <1>4

\* What a run does to a row it saw: it stays who it was, unless it goes; fit and
\* listed it is active and as listed, left out it is not active.
LEMMA RowBrought ==
  ASSUME SyncInv, job.at = "running", job.rows \in Lists, NEW id \in Owned(job.seen)
  PROVE  LET ref == job.seen[id].ref IN
         /\ Brought(id) \in Rows \cup {NoProvider}
         /\ Brought(id) # NoProvider => Brought(id).ref = ref
         /\ Brought(id) = NoProvider => ref \notin DOMAIN job.rows
         /\ ref \in DOMAIN job.rows /\ job.rows[ref] \notin Unfit =>
              Brought(id).active /\ Brought(id).item = job.rows[ref]
         /\ Brought(id) # NoProvider /\ ref \notin DOMAIN job.rows => ~Brought(id).active
  <1> DEFINE row == job.seen[id]
  <1>1. row \in Rows /\ row # NoProvider
    BY SyncAssumption, RowTypes DEF SyncInv
  <1>2. \A r \in DOMAIN job.rows : job.rows[r] \in Details
    BY DEF Lists
  <1>3. \A item \in Details :
          /\ [row EXCEPT !.item = item, !.active = TRUE] \in Rows
          /\ [row EXCEPT !.item = item, !.active = TRUE].ref = row.ref
          /\ [row EXCEPT !.item = item, !.active = TRUE].item = item
          /\ [row EXCEPT !.item = item, !.active = TRUE].active
    BY <1>1 DEF Rows
  <1>4. /\ [row EXCEPT !.active = FALSE] \in Rows
        /\ [row EXCEPT !.active = FALSE].ref = row.ref
        /\ ~[row EXCEPT !.active = FALSE].active
    BY <1>1 DEF Rows
  <1> HIDE DEF row
  <1>5. CASE row.ref \in DOMAIN job.rows
    <2>1. Brought(id) = IF job.rows[row.ref] \in Unfit THEN row
                        ELSE [row EXCEPT !.item = job.rows[row.ref], !.active = TRUE]
      BY <1>5 DEF Brought, StillListed, row
    <2>2. job.rows[row.ref] \in Details /\ NoProvider \notin Rows
      BY <1>2, <1>5, SyncAssumption
    <2>3. CASE job.rows[row.ref] \in Unfit
      BY <1>1, <1>5, <2>1, <2>3 DEF row
    <2>4. CASE job.rows[row.ref] \notin Unfit
      <3>1. Brought(id) \in Rows /\ Brought(id).ref = row.ref
              /\ Brought(id).active /\ Brought(id).item = job.rows[row.ref]
        BY <1>3, <2>1, <2>2, <2>4
      <3> QED
        BY <1>5, <2>2, <3>1 DEF row
    <2> QED
      BY <2>3, <2>4
  <1>6. CASE row.ref \notin DOMAIN job.rows
    <2>1. Brought(id) = IF LinkedTo(job.seen, id) THEN [row EXCEPT !.active = FALSE] ELSE NoProvider
      BY <1>6 DEF Brought, StillListed, row
    <2>2. NoProvider \notin Rows
      BY SyncAssumption
    <2> QED
      BY <1>4, <1>6, <2>1, <2>2 DEF row
  <1> QED
    BY <1>5, <1>6

\* A run that commits.
LEMMA ApplyKeeps ==
  ASSUME SyncInv, ApplySync
  PROVE  SyncInv' /\ KeepsListed
  <1>1. /\ job.at = "running" /\ ~Unusable /\ ~SyncOutrun
        /\ listed' = job.rows /\ job' = Idle
        /\ status' = IF Range(job.rows) \cap Unfit = {} THEN "Success" ELSE "Partial"
        /\ touched' = (touched /\ directory # job.seen)
        /\ UNCHANGED <<catalog, enabled, touches>>
    BY DEF ApplySync, Record
  <1>2. job.rows \in Lists /\ DOMAIN job.rows # {}
    BY <1>1 DEF SyncInv, SyncTypeOK, Unusable
  <1>3. /\ DOMAIN job.rows \subseteq Refs
        /\ \A r \in DOMAIN job.rows : job.rows[r] \in Details
    BY <1>2 DEF Lists
  <1>4. PICK fresh \in [Created -> {id \in Ids : ~Exists(id)}] :
          /\ IsInjective(fresh)
          /\ directory' = [id \in Ids |->
               IF \E r \in Created : fresh[r] = id
               THEN Row(CHOOSE r \in Created : fresh[r] = id,
                        job.rows[CHOOSE r \in Created : fresh[r] = id], TRUE, NoProvider)
               ELSE IF Written(id) THEN Brought(id) ELSE directory[id]]
    BY DEF ApplySync
  <1>5. Created \subseteq DOMAIN job.rows \ Known
    BY DEF Created
  \* A new provider gets an ID nobody had.
  <1>6. ASSUME NEW r \in Created
        PROVE  /\ directory'[fresh[r]] = Row(r, job.rows[r], TRUE, NoProvider)
               /\ fresh[r] \in Ids /\ ~Exists(fresh[r])
    <2>1. \A q \in Created : fresh[q] = fresh[r] => q = r
      BY <1>4 DEF IsInjective
    <2>2. (CHOOSE q \in Created : fresh[q] = fresh[r]) = r
      BY <2>1
    <2> QED
      BY <1>4, <2>2
  <1>7. ASSUME NEW r \in Created
        PROVE  LET row == directory'[fresh[r]] IN
               row \in Rows /\ row # NoProvider /\ row.ref = r /\ row.item = job.rows[r] /\ row.active
    <2> DEFINE row == Row(r, job.rows[r], TRUE, NoProvider)
    <2>1. row \in Rows /\ row.ref = r /\ row.item = job.rows[r] /\ row.active
      BY <1>3, <1>5 DEF Row, Rows
    <2> HIDE DEF row
    <2> QED
      BY <1>6, <2>1, SyncAssumption DEF row
  \* A row that is written is as the run saw it.
  <1>8. ASSUME NEW id \in Ids, \A r \in Created : fresh[r] # id
        PROVE  /\ directory'[id] = IF Written(id) THEN Brought(id) ELSE directory[id]
               /\ Written(id) => /\ id \in Owned(job.seen) /\ id \in Owned(directory)
                                 /\ directory[id] = job.seen[id]
    <2>1. Written(id) => id \in Owned(job.seen) /\ directory[id] = job.seen[id]
      BY <1>1 DEF Written, SyncOutrun
    <2> QED
      BY <1>1, <1>4, <1>8, <2>1 DEF Owned
  <1>9. ASSUME NEW id \in Ids, directory'[id] # NoProvider, \A r \in Created : fresh[r] # id
        PROVE  /\ directory[id] # NoProvider /\ directory'[id] \in Rows
               /\ directory'[id].ref = directory[id].ref
    <2>1. CASE Written(id)
      BY <1>1, <1>2, <1>8, <1>9, <2>1, RowBrought DEF Owned
    <2>2. CASE ~Written(id)
      BY <1>8, <1>9, <2>2, RowTypes DEF SyncInv
    <2> QED
      BY <2>1, <2>2
  <1>10. directory' \in Directories
    BY <1>4, <1>7, <1>9 DEF Directories
  <1>11. SyncTypeOK'
    <2>1. job'.at = "none"
      BY <1>1 DEF Idle
    <2>2. touched' \in BOOLEAN
      BY <1>1 DEF SyncInv, SyncTypeOK
    <2>3. status' \in {"None", "Success", "Partial", "Failed"}
      BY <1>1
    <2> QED
      BY <1>1, <1>2, <1>10, <2>1, <2>2, <2>3 DEF SyncInv, SyncTypeOK
  \* The providers afterwards: new ones, of references nobody had, and old ones.
  <1>12. \A r \in Created : \A id \in Owned(directory) : directory[id].ref # r
    <2>1. \A id \in Owned(directory) : id \in Owned(job.seen) /\ directory[id].ref = job.seen[id].ref
      BY <1>1 DEF SyncInv, SeenHolds, Owned
    <2> QED
      BY <1>5, <2>1 DEF Known
  <1>13. ASSUME NEW id \in Owned(directory'), \A r \in Created : fresh[r] # id
         PROVE  id \in Owned(directory) /\ directory'[id].ref = directory[id].ref
    BY <1>9, <1>13 DEF Owned
  <1>14. RefsDiffer'
    <2> SUFFICES ASSUME NEW one \in Owned(directory'), NEW other \in Owned(directory'),
                        directory'[one].ref = directory'[other].ref
                 PROVE  one = other
      BY DEF RefsDiffer, Owned
    <2>1. CASE (\E r \in Created : fresh[r] = one) /\ (\E r \in Created : fresh[r] = other)
      BY <1>7, <2>1
    <2>2. CASE (\E r \in Created : fresh[r] = one) /\ (\A r \in Created : fresh[r] # other)
      BY <1>7, <1>12, <1>13, <2>2
    <2>3. CASE (\A r \in Created : fresh[r] # one) /\ (\E r \in Created : fresh[r] = other)
      BY <1>7, <1>12, <1>13, <2>3
    <2>4. CASE (\A r \in Created : fresh[r] # one) /\ (\A r \in Created : fresh[r] # other)
      BY <1>13, <2>4 DEF SyncInv, RefsDiffer
    <2> QED
      BY <2>1, <2>2, <2>3, <2>4
  <1>15. DirectoryMirrorsSource'
    <2> SUFFICES ASSUME status' = "Success", ~touched'
                 PROVE  LET active == {id \in Owned(directory') : directory'[id].active} IN
                        /\ {directory'[id].ref : id \in active} = DOMAIN job.rows
                        /\ \A id \in active :
                             /\ directory'[id].item = job.rows[directory'[id].ref]
                             /\ \A other \in active \ {id} :
                                  directory'[other].ref # directory'[id].ref
      BY <1>1 DEF DirectoryMirrorsSource, Owned
    <2>1. directory = job.seen /\ Range(job.rows) \cap Unfit = {}
      BY <1>1 DEF SyncInv, SeenHolds
    <2>2. \A r \in DOMAIN job.rows : job.rows[r] \notin Unfit
      BY <2>1 DEF Range
    <2>3. \A id \in Owned(directory) : \A r \in Created : fresh[r] # id
      BY <1>6 DEF Owned, Exists
    <2>4. ASSUME NEW id \in Owned(directory)
          PROVE  id \in Ids /\ directory'[id] = Brought(id)
      BY <1>8, <2>1, <2>3 DEF Owned, Written
    <2>5. ASSUME NEW r \in DOMAIN job.rows
          PROVE  \E id \in Owned(directory') : directory'[id].active /\ directory'[id].ref = r
      <3>1. CASE r \in Known
        <4>1. PICK id \in Owned(job.seen) : job.seen[id].ref = r
          BY <3>1 DEF Known
        <4>2. directory'[id] = Brought(id) /\ id \in Ids
          BY <2>1, <2>4
        <4>3. Brought(id).active /\ Brought(id) # NoProvider /\ Brought(id).ref = r
          BY <1>1, <1>2, <2>2, <4>1, RowBrought
        <4>4. r # NoProvider
          BY <1>3, SyncAssumption
        <4> QED
          BY <4>2, <4>3, <4>4 DEF Owned
      <3>2. CASE r \notin Known
        <4>1. r \in Created
          BY <2>2, <3>2 DEF Created
        <4>2. r # NoProvider
          BY <1>3, SyncAssumption
        <4> QED
          BY <1>6, <1>7, <4>1, <4>2 DEF Owned
      <3> QED
        BY <3>1, <3>2
    <2>6. ASSUME NEW id \in Owned(directory'), directory'[id].active
          PROVE  /\ directory'[id].ref \in DOMAIN job.rows
                 /\ directory'[id].item = job.rows[directory'[id].ref]
      <3>1. CASE \E r \in Created : fresh[r] = id
        BY <1>5, <1>7, <3>1
      <3>2. CASE \A r \in Created : fresh[r] # id
        <4>1. id \in Owned(directory) /\ directory'[id].ref = directory[id].ref
          BY <1>13, <3>2
        <4>2. directory'[id] = Brought(id) /\ Brought(id) # NoProvider
          BY <2>4, <4>1 DEF Owned
        <4> QED
          BY <1>1, <1>2, <2>1, <2>2, <2>6, <4>1, <4>2, RowBrought
      <3> QED
        BY <3>1, <3>2
    <2>7. \A one, other \in Owned(directory') :
            directory'[one].ref = directory'[other].ref => one = other
      BY <1>14 DEF RefsDiffer, Owned
    <2> QED
      BY <2>5, <2>6, <2>7
  <1>16. KeepsListed
    <2> SUFFICES ASSUME NEW id \in Owned(directory), directory'[id] = NoProvider
                 PROVE  directory[id].ref \notin DOMAIN job.rows
      BY <1>1, <1>2 DEF KeepsListed
    <2>1. id \in Ids /\ directory[id] # NoProvider /\ \A r \in Created : fresh[r] # id
      BY <1>6 DEF Owned, Exists
    <2>2. Brought(id) = NoProvider /\ id \in Owned(job.seen) /\ directory[id] = job.seen[id]
      BY <1>8, <2>1
    <2> QED
      BY <1>1, <1>2, <2>2, RowBrought
  <1>17. SeenHolds'
    BY <1>1 DEF SeenHolds, Idle
  <1>18. job' = [at |-> job'.at, seen |-> job'.seen, rows |-> job'.rows]
    BY <1>1 DEF Idle
  <1> QED
    BY <1>11, <1>14, <1>15, <1>16, <1>17, <1>18 DEF SyncInv

LEMMA SyncStep ==
  ASSUME SyncInv, [SyncNext]_syncVars
  PROVE  SyncInv' /\ KeepsListed
  <1> DEFINE JobIs == job' = [at |-> job'.at, seen |-> job'.seen, rows |-> job'.rows]
  <1>1. CASE UNCHANGED syncVars
    BY <1>1, JobMoves DEF syncVars, SyncInv, SyncTypeOK
  <1>2. ASSUME NEW ref \in Refs, NEW item \in Details \cup {NoProvider}, Publish(ref, item)
        PROVE  SyncInv' /\ KeepsListed
    <2>1. SyncTypeOK'
      BY <1>2 DEF Publish, SyncInv, SyncTypeOK
    <2> QED
      BY <1>2, <2>1, JobMoves DEF Publish, SyncInv
  <1>3. ASSUME job' = Queued \/ job' = job, enabled' \in BOOLEAN,
               UNCHANGED <<catalog, directory, listed, status, touched, touches>>
        PROVE  SyncInv' /\ KeepsListed
    <2>1. job' = job \/ (job'.at = "queued" /\ JobIs)
      BY <1>3 DEF Queued, SyncInv
    <2>2. SyncTypeOK' /\ JobIs
      BY <1>3, <2>1 DEF SyncInv, SyncTypeOK
    <2>3. job'.at = "running" => job'.seen = job.seen /\ job.at = "running"
      BY <2>1
    <2> QED
      BY <1>3, <2>2, <2>3, JobMoves
  <1>4. CASE AskSync \/ \E on \in BOOLEAN : EnableSource(on)
    BY <1>3, <1>4 DEF AskSync, EnableSource, SyncInv, SyncTypeOK
  <1>5. ASSUME Record("Failed"), listed' = NoList,
               UNCHANGED <<catalog, directory, enabled, touched, touches>>
        PROVE  SyncInv' /\ KeepsListed
    <2>1. job'.at = "none" /\ JobIs /\ status' = "Failed"
      BY <1>5 DEF Record, Idle
    <2>2. SyncTypeOK'
      BY <1>5, <2>1, NoListFits DEF SyncInv, SyncTypeOK
    <2> QED
      BY <1>5, <2>1, <2>2, JobMoves
  <1>6. ASSUME NEW answered \in BOOLEAN, StartSync(answered)
        PROVE  SyncInv' /\ KeepsListed
    <2>1. UNCHANGED <<catalog, directory, enabled, touched, touches>>
      BY <1>6 DEF StartSync
    <2>2. CASE enabled
      <3>1. Answer \in [{q \in Refs : catalog[q] # NoProvider} -> Details]
        BY DEF Answer, SyncInv, SyncTypeOK
      <3>2. Answer \in Lists
        BY <3>1 DEF Lists
      <3>3. /\ job'.at = "running" /\ job'.seen = directory /\ job'.rows \in Lists \cup {NoProvider}
            /\ JobIs /\ UNCHANGED <<status, listed>>
        BY <1>6, <2>2, <3>2 DEF StartSync
      <3>4. SyncTypeOK'
        BY <2>1, <3>3 DEF SyncInv, SyncTypeOK
      <3> QED
        BY <2>1, <3>3, <3>4, JobMoves
    <2>3. CASE ~enabled
      <3>1. Record("Failed") /\ listed' = NoList
        BY <1>6, <2>3 DEF StartSync
      <3> QED
        BY <1>5, <2>1, <3>1
    <2> QED
      BY <2>2, <2>3
  <1>7. CASE FailSync
    BY <1>5, <1>7 DEF FailSync
  <1>8. CASE DropSync
    <2>1. /\ job'.at = "none" /\ JobIs
          /\ UNCHANGED <<catalog, directory, enabled, listed, status, touched, touches>>
      BY <1>8 DEF DropSync, Idle
    <2>2. SyncTypeOK'
      BY <2>1 DEF SyncInv, SyncTypeOK
    <2> QED
      BY <2>1, <2>2, JobMoves
  <1> QED
    BY <1>1, <1>2, <1>4, <1>6, <1>7, <1>8, EditsKeep, ApplyKeeps DEF SyncNext

LEMMA SyncStarts == SyncInit => SyncInv
  <1> SUFFICES ASSUME SyncInit PROVE SyncInv
    OBVIOUS
  <1>1. directory \in Directories
    BY DEF SyncInit, Directories
  <1>2. SyncTypeOK
    <2>1. catalog \in [Refs -> Details \cup {NoProvider}] /\ listed \in Lists /\ job.at = "none"
      BY NoListFits DEF SyncInit, Idle
    <2>2. enabled \in BOOLEAN /\ touched \in BOOLEAN
      BY DEF SyncInit
    <2>3. touches \in 0..MaxTouches
      BY SyncAssumption DEF SyncInit
    <2>4. status \in {"None", "Success", "Partial", "Failed"}
      BY DEF SyncInit
    <2> QED
      BY <1>1, <2>1, <2>2, <2>3, <2>4 DEF SyncTypeOK
  <1> QED
    BY <1>2 DEF SyncInit, SyncInv, RefsDiffer, SeenHolds, DirectoryMirrorsSource, Owned, Idle

\* For any references, lists and edits, after a run that succeeded and until
\* somebody edits by hand the active providers are the ones listed, each once
\* (DirectoryMirrorsSource).
THEOREM MirrorsAlways == SyncSpec => []SyncTypeOK /\ []DirectoryMirrorsSource
  <1>1. SyncInv => SyncTypeOK /\ DirectoryMirrorsSource
    BY DEF SyncInv
  <1> QED
    BY <1>1, SyncStarts, SyncStep, PTL DEF SyncSpec

\* A provider keeps its ID as long as it is listed (_apply, run_sync).
THEOREM ListedKeepsIdAlways == SyncSpec => ListedKeepsId
  <1>1. ASSUME SyncInv, [SyncNext]_syncVars
        PROVE  [\A id \in Owned(directory) :
                  directory'[id] = NoProvider =>
                    directory[id].ref \notin DOMAIN listed' /\ DOMAIN listed' # {}]_syncVars
    BY <1>1, SyncStep DEF KeepsListed
  <1> QED
    BY <1>1, SyncStarts, SyncStep, PTL DEF SyncSpec, ListedKeepsId

-----------------------------------------------------------------------------
(***************************************************************************)
(* Ratings.  A request that nobody outran sees the case as it stands, so   *)
(* what it checked when it read it still holds when it writes.             *)
(***************************************************************************)
CallRow == [by : Persons, ticket : TicketRows, said : SUBSET MessageIds, stale : BOOLEAN]

ThreadInv ==
  /\ ThreadTypeOK
  /\ \A w \in Calls : calls[w] # Blank /\ ~calls[w].stale => calls[w].ticket = ticket

\* A rating of the case as it is after the step.
RatingsFit ==
  \A entry \in added' : entry.kind = "feedback" =>
    ticket'.state \in ResolvedStates /\ entry.by # ticket'.handler

LEMMA MovesEnd ==
  \A m \in Transitions :
    m.to \in States /\ (m.action = "CloseCase" => m.by = "submitter" /\ m.to = "Closed")
  BY DEF Transitions, Move, WorkStates, States

LEMMA CallTypes ==
  ASSUME ThreadInv, NEW w \in Calls, calls[w] # Blank
  PROVE  /\ calls[w] \in CallRow /\ calls[w].ticket \in TicketRows /\ calls[w].by \in Persons
         /\ ~calls[w].stale => calls[w].ticket = ticket
  BY DEF ThreadInv, ThreadTypeOK, CallRow

\* A request ends, and outruns the others if it wrote the case.
LEMMA CallsKeep ==
  ASSUME ThreadInv, NEW w \in Calls, ticket' \in TicketRows, said' \subseteq Messages,
         added' \subseteq Entries,
         \/ calls' = Over(w) /\ ticket' = ticket
         \/ calls' = Outrun(Over(w))
         \/ calls' = Outrun(calls)
  PROVE  ThreadInv'
  <1>1. calls \in [Calls -> {Blank} \cup CallRow]
    BY DEF ThreadInv, ThreadTypeOK, CallRow
  <1>2. Over(w) \in [Calls -> {Blank} \cup CallRow]
    BY <1>1 DEF Over
  <1>3. ASSUME NEW open \in [Calls -> {Blank} \cup CallRow], calls' = Outrun(open)
        PROVE  ThreadInv'
    <2>1. \A row \in CallRow : [row EXCEPT !.stale = TRUE] \in CallRow
                                 /\ [row EXCEPT !.stale = TRUE].stale
      BY DEF CallRow
    <2>2. \A v \in Calls : /\ Outrun(open)[v] \in {Blank} \cup CallRow
                           /\ Outrun(open)[v] # Blank => Outrun(open)[v].stale
      BY <1>3, <2>1 DEF Outrun
    <2>3. calls' \in [Calls -> {Blank} \cup CallRow]
      BY <1>3, <2>2 DEF Outrun
    <2> QED
      BY <1>3, <2>2, <2>3 DEF ThreadInv, ThreadTypeOK, CallRow
  <1>4. CASE calls' = Over(w) /\ ticket' = ticket
    <2>1. \A v \in Calls : calls'[v] = Blank \/ calls'[v] = calls[v]
      BY <1>1, <1>4 DEF Over
    <2> QED
      BY <1>2, <1>4, <2>1 DEF ThreadInv, ThreadTypeOK, CallRow
  <1> QED
    BY <1>1, <1>2, <1>3, <1>4

LEMMA ActKeeps ==
  ASSUME ThreadInv, NEW w \in Calls, NEW note \in BOOLEAN, NEW rated \in BOOLEAN, Act(w, note, rated)
  PROVE  ThreadInv' /\ RatingsFit
  <1> DEFINE call == calls[w]
  <1>1. /\ call \in CallRow /\ call.by \in Persons /\ call.ticket \in TicketRows
        /\ calls' = Outrun(Over(w)) /\ said' = said
        /\ added' = {Entry(call.by, "move")}
             \cup {Entry(call.by, kind) : kind \in (IF note THEN {"note"} ELSE {})
                                                \cup (IF rated THEN {"feedback"} ELSE {})}
    BY CallTypes DEF Act
  <1>2. PICK m \in Offered(call) :
          /\ rated => m.action = "CloseCase"
          /\ ticket' = [call.ticket EXCEPT !.state = m.to]
    BY DEF Act
  <1>3. /\ m \in Transitions
        /\ m.by = (IF call.by = Citizen THEN "submitter" ELSE "officer")
    BY <1>2 DEF Offered
  <1>4. m.to \in States /\ (m.action = "CloseCase" => m.by = "submitter" /\ m.to = "Closed")
    BY <1>3, MovesEnd
  <1> HIDE DEF call
  <1>5. ticket' \in TicketRows /\ ticket'.state = m.to /\ ticket'.handler \in Staff \cup {Blank}
    BY <1>1, <1>2, <1>4 DEF TicketRows
  <1>6. added' \subseteq Entries
    BY <1>1 DEF Entry, Entries
  <1>7. RatingsFit
    <2> SUFFICES ASSUME NEW entry \in added', entry.kind = "feedback"
                 PROVE  ticket'.state \in ResolvedStates /\ entry.by # ticket'.handler
      BY DEF RatingsFit
    <2>1. rated /\ entry.by = call.by
      BY <1>1 DEF Entry
    <2>2. call.by = Citizen /\ ticket'.state = "Closed"
      BY <1>2, <1>3, <1>4, <1>5, <2>1
    <2> QED
      BY <1>5, <2>1, <2>2, ThreadAssumption DEF ResolvedStates
  <1>8. said' \subseteq Messages
    BY <1>1 DEF ThreadInv, ThreadTypeOK
  <1> QED
    BY <1>1, <1>5, <1>6, <1>7, <1>8, CallsKeep

LEMMA RateKeeps ==
  ASSUME ThreadInv, NEW w \in Calls, Rate(w)
  PROVE  ThreadInv' /\ RatingsFit
  <1>1. /\ calls[w] # Blank /\ ~calls[w].stale /\ MayRate(calls[w])
        /\ added' = {Entry(calls[w].by, "feedback")}
        /\ calls' = Outrun(Over(w)) /\ ticket' = ticket /\ said' = said
    BY DEF Rate, RatingRefused
  <1>2. calls[w].ticket = ticket /\ calls[w].by \in Persons
    BY <1>1, CallTypes
  <1>3. ticket \in TicketRows /\ ticket.handler \in Staff \cup {Blank} /\ said \subseteq Messages
    BY DEF ThreadInv, ThreadTypeOK, TicketRows
  <1>4. RatingsFit
    BY <1>1, <1>2, <1>3, ThreadAssumption DEF MayRate, RatingsFit, Entry, Persons
  <1>5. added' \subseteq Entries
    BY <1>1, <1>2 DEF Entry, Entries
  <1> QED
    BY <1>1, <1>3, <1>4, <1>5, CallsKeep

LEMMA ThreadStep ==
  ASSUME ThreadInv, [ThreadNext]_threadVars
  PROVE  ThreadInv' /\ [RatingsFit]_threadVars
  <1>1. ticket \in TicketRows /\ said \subseteq Messages /\ added \subseteq Entries
          /\ calls \in [Calls -> {Blank} \cup CallRow]
    BY DEF ThreadInv, ThreadTypeOK, CallRow
  <1>2. CASE UNCHANGED threadVars
    BY <1>2 DEF threadVars, ThreadInv, ThreadTypeOK
  <1>3. CASE Elsewhere
    <2>1. added' = {} /\ said' = said /\ calls' = Outrun(calls)
      BY <1>3 DEF Elsewhere
    <2>2. ticket' \in TicketRows
      <3>1. CASE \E u \in Staff : \E s \in {ticket.state} \cup
                     (IF ticket.state = "Submitted" THEN {"Assigned"} ELSE {}) :
                   ticket' = [state |-> s, handler |-> u]
        BY <1>1, <3>1 DEF TicketRows, States
      <3>2. CASE \E m \in Transitions : ticket' = [ticket EXCEPT !.state = m.to]
        BY <1>1, <3>2, MovesEnd DEF TicketRows
      <3> QED
        BY <1>3, <3>1, <3>2 DEF Elsewhere
    <2>3. ASSUME NEW w \in Calls PROVE ThreadInv'
      BY <1>1, <2>1, <2>2, CallsKeep
    <2>4. ASSUME Calls = {} PROVE ThreadInv'
      <3>1. calls' \in [Calls -> {Blank} \cup CallRow]
        BY <2>1, <2>4 DEF Outrun
      <3> QED
        BY <1>1, <2>1, <2>2, <2>4, <3>1 DEF ThreadInv, ThreadTypeOK, CallRow
    <2> QED
      BY <2>1, <2>3, <2>4 DEF RatingsFit
  <1>4. ASSUME NEW w \in Calls, NEW u \in Persons, StartCall(w, u)
        PROVE  ThreadInv' /\ RatingsFit
    <2> DEFINE row == [by |-> u, ticket |-> ticket, said |-> {id \in MessageIds : <<u, id>> \in said},
                       stale |-> FALSE]
    <2>1. row \in CallRow /\ row.ticket = ticket
      BY <1>1 DEF CallRow
    <2>2. /\ calls' = [calls EXCEPT ![w] = row] /\ added' = {} /\ UNCHANGED <<ticket, said>>
      BY <1>4 DEF StartCall
    <2> HIDE DEF row
    <2>3. calls' \in [Calls -> {Blank} \cup CallRow]
      BY <1>1, <2>1, <2>2
    <2>4. \A v \in Calls : calls'[v] # Blank /\ ~calls'[v].stale => calls'[v].ticket = ticket'
      BY <1>1, <2>1, <2>2 DEF ThreadInv
    <2> QED
      BY <1>1, <2>2, <2>3, <2>4 DEF ThreadInv, ThreadTypeOK, CallRow, RatingsFit
  <1>5. ASSUME NEW w \in Calls, NEW internal \in BOOLEAN, NEW id \in MessageIds \cup {Blank},
               PostMessage(w, internal, id)
        PROVE  ThreadInv' /\ RatingsFit
    <2>1. calls' = Over(w) /\ ticket' = ticket /\ calls[w].by \in Persons
      BY <1>5, CallTypes DEF PostMessage
    <2>2. \/ added' = {} /\ said' = said
          \/ /\ added' = {Entry(calls[w].by, IF internal THEN "note" ELSE "message")}
             /\ said' = said \cup {<<calls[w].by, m>> : m \in {id} \ {Blank}}
      BY <1>5 DEF PostMessage
    <2>3. added' \subseteq Entries /\ RatingsFit
      BY <2>1, <2>2 DEF Entry, Entries, RatingsFit
    <2>4. said' \subseteq Messages
      BY <1>1, <2>1, <2>2 DEF Messages
    <2> QED
      BY <1>1, <2>1, <2>3, <2>4, CallsKeep
  <1>6. ASSUME NEW w \in Calls, Fail(w)
        PROVE  ThreadInv' /\ RatingsFit
    BY <1>1, <1>6, CallsKeep DEF Fail, RatingsFit
  <1> QED
    BY <1>2, <1>3, <1>4, <1>5, <1>6, ActKeeps, RateKeeps DEF ThreadNext

LEMMA ThreadStarts == ThreadInit => ThreadInv
  BY DEF ThreadInit, ThreadInv, ThreadTypeOK, TicketRows, States

\* For any staff, crossing requests and messages, a rating finds the case
\* resolved or closed, and never in the hands of who keys it in (RatingFits).
THEOREM RatingFitsAlways == ThreadSpec => []ThreadTypeOK /\ RatingFits
  <1>1. ThreadInv => ThreadTypeOK
    BY DEF ThreadInv
  <1>2. ASSUME ThreadInv, [ThreadNext]_threadVars
        PROVE  [\A entry \in added' : entry.kind = "feedback" =>
                  ticket'.state \in ResolvedStates /\ entry.by # ticket'.handler]_threadVars
    BY <1>2, ThreadStep DEF RatingsFit
  <1> QED
    BY <1>1, <1>2, ThreadStarts, ThreadStep, PTL DEF ThreadSpec, RatingFits

-----------------------------------------------------------------------------
(***************************************************************************)
(* The form.  Everything it says is read out of the moves; what makes the  *)
(* reading right is that the last move is the one that led to the state,   *)
(* and that an open case has reopened every decision taken before.         *)
(***************************************************************************)
FormTyped ==
  /\ printed \in [status : States, escalated : BOOLEAN, reopens : Nat]
  /\ log \in Seq(LogRows)

Moved(i) == log[i].kind \notin TalkKinds

\* The state of the case is where its last move led.
LastMoveLed ==
  printed.status = "Submitted"
  \/ \E k \in 1 .. Len(log) :
       /\ Moved(k) /\ log[k].to = printed.status
       /\ \A j \in 1 .. Len(log) : j > k => ~Moved(j)

\* Between two decisions lies a reopening; in an open case, also after the last.
Reviewed ==
  /\ \A i, j \in Decisions : i < j => \E r \in MovesTaken({"Reopen"}) : i < r /\ r < j
  /\ printed.status \notin {"Resolved", "Closed", "Rejected", "Duplicate"}
       => \A i \in Decisions : \E r \in MovesTaken({"Reopen"}) : i < r

OpenUntilClosed ==
  printed.status \notin ClosingStates => MovesInto(ClosingStates) = {}

ReopensCounted == Cardinality(MovesTaken({"Reopen"})) = printed.reopens

FormInv == FormTyped /\ LastMoveLed /\ Reviewed /\ OpenUntilClosed /\ ReopensCounted

\* What the table of moves says of decisions, closures and reopenings.
LEMMA MoveTable ==
  ASSUME NEW m \in Transitions
  PROVE  /\ m.from \in States \ ClosingStates /\ m.to \in States \ {"Submitted"}
         /\ m.action \notin TalkKinds
         /\ m.to = "Resolved" <=> m.action \in {"Resolve", "PartiallyResolve"}
         /\ m.to = "Rejected" <=> m.action = "Reject"
         /\ m.to = "Closed" <=> m.action \in {"CloseCase", "AutoClose"}
         /\ m.to = "Duplicate" <=> m.action = "ConfirmDuplicate"
         /\ m.action = "Reopen" => m.from = "Resolved" /\ m.to = "Reopened"
         /\ m.from = "Resolved" => m.action \in {"Reopen", "CloseCase", "AutoClose"}
         /\ m.action \in {"Resolve", "PartiallyResolve", "ReferOnward"} => m.by = "officer"
  BY DEF Transitions, Move, WorkStates, States, ClosingStates, TalkKinds

LEMMA FinalStates == TerminalStates = ClosingStates
  <1>1. /\ Move("Submitted", "Assign", "Assigned", "system") \in Transitions
        /\ Move("Assigned", "InProgress", "InProgress", "officer") \in Transitions
        /\ Move("Reopened", "InProgress", "InProgress", "officer") \in Transitions
        /\ Move("InProgress", "ReferOnward", "Assigned", "officer") \in Transitions
        /\ Move("MoreInfoNeeded", "SubmitterReply", "InProgress", "submitter") \in Transitions
        /\ Move("Resolved", "Reopen", "Reopened", "submitter") \in Transitions
    BY DEF Transitions
  <1>2. \A s \in States \ ClosingStates : \E m \in Transitions : m.from = s
    BY <1>1 DEF Move, States, ClosingStates
  <1>3. \A m \in Transitions : m.from \notin ClosingStates
    BY MoveTable
  <1> QED
    BY <1>2, <1>3 DEF TerminalStates, ClosingStates, States

\* The rows of the history, as the table of moves has them.
LEMMA RowTable ==
  ASSUME NEW row \in LogRows
  PROVE  /\ row.kind \notin TalkKinds => row.kind \in Actions
         /\ row.kind \in TalkKinds => row.to = "none" /\ row.kind \notin Actions
         /\ row.to = "Resolved" <=> row.kind \in {"Resolve", "PartiallyResolve"}
         /\ row.to = "Rejected" <=> row.kind = "Reject"
         /\ row.to = "Closed" <=> row.kind \in {"CloseCase", "AutoClose"}
         /\ row.to = "Duplicate" <=> row.kind = "ConfirmDuplicate"
         /\ row.kind \in {"Resolve", "PartiallyResolve", "ReferOnward"} => row.by = "officer"
  <1>1. \A a \in Actions : a \notin TalkKinds
    BY MoveTable DEF Actions
  <1>2. CASE \E m \in Transitions : row = LogRow(m.action, m.to, m.by)
    <2>1. PICK m \in Transitions : row = LogRow(m.action, m.to, m.by)
      BY <1>2
    <2>2. row.kind = m.action /\ row.to = m.to /\ row.by = m.by
      BY <2>1 DEF LogRow
    <2>3. m.action \in Actions
      BY DEF Actions
    <2> QED
      BY <1>1, <2>2, <2>3, MoveTable
  <1>3. CASE row \in [kind : TalkKinds, to : {"none"}, by : {"officer", "submitter", "system"}]
    <2>1. row.kind \in TalkKinds /\ row.to = "none"
      BY <1>3
    <2> QED
      BY <1>1, <2>1 DEF TalkKinds
  <1> QED
    BY <1>2, <1>3 DEF LogRows

LEMMA LatestIs ==
  ASSUME NEW places \in SUBSET Nat, NEW k \in places, \A i \in places : i <= k
  PROVE  Latest(places) = k
  <1>1. \A x \in places : (\A y \in places : x >= y) => x = k
    OBVIOUS
  <1>2. \A y \in places : k >= y
    OBVIOUS
  <1> QED
    BY <1>1, <1>2 DEF Latest, Max

LEMMA PlacesFinite ==
  ASSUME FormTyped, NEW actions
  PROVE  /\ MovesTaken(actions) \subseteq 1 .. Len(log) /\ Len(log) \in Nat
         /\ IsFiniteSet(MovesTaken(actions))
  <1>1. Len(log) \in Nat /\ IsFiniteSet(1 .. Len(log))
    BY FS_Interval DEF FormTyped
  <1> QED
    BY <1>1, FS_Subset DEF MovesTaken

-----------------------------------------------------------------------------
(***************************************************************************)
(* Steps.  Each appends one row.                                           *)
(***************************************************************************)
LEMMA Appended ==
  ASSUME FormTyped, NEW row \in LogRows, log' = Append(log, row)
  PROVE  /\ log' \in Seq(LogRows) /\ Len(log') = Len(log) + 1
         /\ log'[Len(log) + 1] = row
         /\ \A i \in 1 .. Len(log) : log'[i] = log[i]
         /\ \A actions : MovesTaken(actions)'
              = MovesTaken(actions) \cup (IF row.kind \in actions THEN {Len(log) + 1} ELSE {})
         /\ \A states : MovesInto(states)'
              = MovesInto(states)
                  \cup (IF row.kind \in Actions /\ row.to \in states THEN {Len(log) + 1} ELSE {})
  <1>1. /\ log' \in Seq(LogRows) /\ Len(log') = Len(log) + 1 /\ Len(log) \in Nat
        /\ log'[Len(log) + 1] = row
        /\ \A i \in 1 .. Len(log) : log'[i] = log[i]
    BY DEF FormTyped
  <1>2. 1 .. Len(log') = (1 .. Len(log)) \cup {Len(log) + 1}
    BY <1>1
  <1>3. ASSUME NEW actions
        PROVE  MovesTaken(actions)'
                 = MovesTaken(actions) \cup (IF row.kind \in actions THEN {Len(log) + 1} ELSE {})
    BY <1>1, <1>2 DEF MovesTaken
  <1>4. ASSUME NEW states
        PROVE  MovesInto(states)'
                 = MovesInto(states)
                     \cup (IF row.kind \in Actions /\ row.to \in states THEN {Len(log) + 1} ELSE {})
    BY <1>1, <1>2 DEF MovesInto
  <1> QED
    BY <1>1, <1>3, <1>4

\* What people say, and what is noted among staff, moves nothing.
LEMMA TalkKeeps ==
  ASSUME FormInv, NEW row \in LogRows, row.kind \in TalkKinds, log' = Append(log, row),
         printed'.status = printed.status, printed'.reopens = printed.reopens,
         printed' \in [status : States, escalated : BOOLEAN, reopens : Nat]
  PROVE  FormInv'
  <1>1. FormTyped' /\ Len(log) \in Nat
    BY Appended DEF FormInv, FormTyped
  <1>2. row.kind \notin DecisionActions /\ row.kind # "Reopen" /\ row.kind \notin Actions
    BY RowTable DEF TalkKinds, DecisionActions
  <1>3. /\ MovesTaken({"Reopen"})' = MovesTaken({"Reopen"}) /\ Decisions' = Decisions
        /\ MovesInto(ClosingStates)' = MovesInto(ClosingStates)
    <2>1. FormTyped
      BY DEF FormInv
    <2>2. \A actions : MovesTaken(actions)'
            = MovesTaken(actions) \cup (IF row.kind \in actions THEN {Len(log) + 1} ELSE {})
      BY <2>1, Appended
    <2>3. \A states : MovesInto(states)'
            = MovesInto(states)
                \cup (IF row.kind \in Actions /\ row.to \in states THEN {Len(log) + 1} ELSE {})
      BY <2>1, Appended
    <2> QED
      BY <1>2, <2>2, <2>3 DEF Decisions
  <1>4. LastMoveLed'
    <2>1. /\ Len(log') = Len(log) + 1 /\ log'[Len(log) + 1] = row
          /\ \A i \in 1 .. Len(log) : log'[i] = log[i]
      BY Appended DEF FormInv
    <2>2. \A i \in 1 .. Len(log') : Moved(i)' <=> i \in 1 .. Len(log) /\ Moved(i)
      BY <1>1, <2>1 DEF Moved
    <2>3. LastMoveLed /\ printed'.status = printed.status
      BY DEF FormInv
    <2> QED
      BY <1>1, <2>1, <2>2, <2>3 DEF LastMoveLed
  <1>5. Reviewed' /\ OpenUntilClosed' /\ ReopensCounted'
    BY <1>3 DEF FormInv, Reviewed, OpenUntilClosed, ReopensCounted
  <1> QED
    BY <1>1, <1>4, <1>5 DEF FormInv

LEMMA MoveKeeps ==
  ASSUME FormInv, NEW m \in Transitions, TakeMove(m)
  PROVE  FormInv'
  <1> DEFINE row == LogRow(m.action, m.to, m.by)
  <1>0. PICK n : n = Len(log) + 1
    OBVIOUS
  <1>1. /\ row \in LogRows /\ row.kind = m.action /\ row.to = m.to
        /\ m.action \in Actions /\ m.action \notin TalkKinds
    BY MoveTable DEF LogRows, LogRow, Actions
  <1>2. FormTyped /\ log' = Append(log, row) /\ m.from = printed.status
    BY DEF TakeMove, FormInv
  <1>3. /\ printed' \in [status : States, escalated : BOOLEAN, reopens : Nat]
        /\ printed'.status = m.to
        /\ printed'.reopens = printed.reopens + (IF m.action = "Reopen" THEN 1 ELSE 0)
    <2> DEFINE again == printed.reopens + (IF m.action = "Reopen" THEN 1 ELSE 0)
               late == printed.escalated /\ m.action # "Reopen"
    <2>1. printed' = [printed EXCEPT !.status = m.to, !.reopens = again, !.escalated = late]
      BY DEF TakeMove
    <2>2. printed \in [status : States, escalated : BOOLEAN, reopens : Nat]
      BY <1>2 DEF FormTyped
    <2>3. late \in BOOLEAN /\ again \in Nat /\ m.to \in States
      BY <2>2, MoveTable
    <2>4. again = printed.reopens + (IF m.action = "Reopen" THEN 1 ELSE 0)
      OBVIOUS
    <2> HIDE DEF again, late
    <2> QED
      BY <2>1, <2>2, <2>3, <2>4
  <1>4. FormTyped' /\ Len(log) \in Nat /\ n \in Nat
    BY <1>0, <1>1, <1>2, <1>3, Appended DEF FormTyped
  <1>5. /\ Len(log') = n /\ log'[n] = row /\ \A i \in 1 .. Len(log) : log'[i] = log[i]
        /\ \A actions : MovesTaken(actions)'
             = MovesTaken(actions) \cup (IF m.action \in actions THEN {n} ELSE {})
        /\ \A states : MovesInto(states)'
             = MovesInto(states) \cup (IF m.to \in states THEN {n} ELSE {})
    <2> HIDE DEF row
    <2>1. /\ Len(log') = n /\ log'[n] = row /\ \A i \in 1 .. Len(log) : log'[i] = log[i]
      BY <1>0, <1>1, <1>2, Appended
    <2>2. \A actions : MovesTaken(actions)'
            = MovesTaken(actions) \cup (IF row.kind \in actions THEN {n} ELSE {})
      BY <1>0, <1>1, <1>2, Appended
    <2>3. \A states : MovesInto(states)'
            = MovesInto(states)
                \cup (IF row.kind \in Actions /\ row.to \in states THEN {n} ELSE {})
      BY <1>0, <1>1, <1>2, Appended
    <2> QED
      BY <1>1, <2>1, <2>2, <2>3
  <1> HIDE DEF row
  <1>6. LastMoveLed'
    <2>1. n \in 1 .. Len(log') /\ \A j \in 1 .. Len(log') : ~(j > n)
      BY <1>0, <1>4, <1>5
    <2>2. Moved(n)' /\ log'[n].to = printed'.status
      BY <1>1, <1>3, <1>5 DEF Moved
    <2> QED
      BY <2>1, <2>2 DEF LastMoveLed
  <1>7. /\ Decisions \subseteq 1 .. Len(log) /\ MovesTaken({"Reopen"}) \subseteq 1 .. Len(log)
        /\ IsFiniteSet(MovesTaken({"Reopen"}))
    BY <1>2, PlacesFinite DEF Decisions
  <1>8. Reviewed'
    <2>1. CASE m.action \in DecisionActions
      <3>1. /\ Decisions' = Decisions \cup {n} /\ MovesTaken({"Reopen"})' = MovesTaken({"Reopen"})
            /\ printed'.status \in {"Resolved", "Rejected"}
            /\ printed.status \notin {"Resolved", "Closed", "Rejected", "Duplicate"}
        BY <1>2, <1>3, <1>5, <2>1, MoveTable DEF Decisions, DecisionActions, ClosingStates
      <3>2. \A i \in Decisions : \E r \in MovesTaken({"Reopen"}) : i < r /\ r < n
        BY <1>4, <1>7, <1>0, <3>1 DEF FormInv, Reviewed
      <3>3. \A i \in Decisions : ~(n < i)
        BY <1>4, <1>7, <1>0
      <3> QED
        BY <1>4, <3>1, <3>2, <3>3 DEF FormInv, Reviewed
    <2>2. CASE m.action = "Reopen"
      <3>1. /\ Decisions' = Decisions /\ MovesTaken({"Reopen"})' = MovesTaken({"Reopen"}) \cup {n}
        BY <1>5, <2>2 DEF Decisions, DecisionActions
      <3>2. \A i \in Decisions : i < n
        BY <1>4, <1>7, <1>0
      <3> QED
        BY <3>1, <3>2 DEF FormInv, Reviewed
    <2>3. CASE m.action \notin DecisionActions \cup {"Reopen"}
      <3>1. Decisions' = Decisions /\ MovesTaken({"Reopen"})' = MovesTaken({"Reopen"})
        BY <1>5, <2>3 DEF Decisions
      <3>2. printed.status \in {"Resolved", "Closed", "Rejected", "Duplicate"}
              => printed'.status \in {"Resolved", "Closed", "Rejected", "Duplicate"}
        BY <1>2, <1>3, <2>3, MoveTable DEF ClosingStates
      <3> QED
        BY <3>1, <3>2 DEF FormInv, Reviewed
    <2> QED
      BY <2>1, <2>2, <2>3
  <1>9. OpenUntilClosed'
    BY <1>2, <1>3, <1>5, MoveTable DEF FormInv, OpenUntilClosed
  <1>10. ReopensCounted'
    <2>1. n \notin MovesTaken({"Reopen"})
      BY <1>4, <1>7, <1>0
    <2>2. CASE m.action = "Reopen"
      <3>1. MovesTaken({"Reopen"})' = MovesTaken({"Reopen"}) \cup {n}
        BY <1>5, <2>2
      <3> QED
        BY <1>3, <1>7, <2>1, <2>2, <3>1, FS_AddElement DEF FormInv, ReopensCounted
    <2>3. CASE m.action # "Reopen"
      <3>1. MovesTaken({"Reopen"})' = MovesTaken({"Reopen"})
        BY <1>5, <2>3
      <3> QED
        BY <1>2, <1>3, <2>3, <3>1 DEF FormInv, ReopensCounted, FormTyped
    <2> QED
      BY <2>2, <2>3
  <1> QED
    BY <1>4, <1>6, <1>8, <1>9, <1>10 DEF FormInv

LEMMA FormStep == FormInv /\ [FormNext]_formVars => FormInv'
  <1> SUFFICES ASSUME FormInv, [FormNext]_formVars PROVE FormInv'
    OBVIOUS
  <1>0. printed \in [status : States, escalated : BOOLEAN, reopens : Nat]
    BY DEF FormInv, FormTyped
  <1>1. CASE Reclassify
    <2>1. LogRow("note", "none", "officer") \in LogRows
      BY DEF LogRows, LogRow, TalkKinds
    <2>2. LogRow("note", "none", "officer").kind \in TalkKinds
      BY DEF LogRow, TalkKinds
    <2>3. /\ printed'.status = printed.status /\ printed'.reopens = printed.reopens
          /\ printed' \in [status : States, escalated : BOOLEAN, reopens : Nat]
      BY <1>0, <1>1 DEF Reclassify
    <2> QED
      BY <1>1, <2>1, <2>2, <2>3, TalkKeeps DEF Reclassify
  <1>2. ASSUME NEW kind \in TalkKinds, NEW by \in {"officer", "submitter", "system"}, Say(kind, by)
        PROVE  FormInv'
    <2>1. LogRow(kind, "none", by) \in LogRows /\ LogRow(kind, "none", by).kind \in TalkKinds
      BY DEF LogRows, LogRow
    <2> DEFINE late == printed.escalated \/ kind = "escalation"
    <2>2. printed' = [printed EXCEPT !.escalated = late] /\ late \in BOOLEAN
      BY <1>0, <1>2 DEF Say
    <2> HIDE DEF late
    <2>3. /\ printed'.status = printed.status /\ printed'.reopens = printed.reopens
          /\ printed' \in [status : States, escalated : BOOLEAN, reopens : Nat]
      BY <1>0, <2>2
    <2> QED
      BY <1>2, <2>1, <2>3, TalkKeeps DEF Say
  <1>3. CASE UNCHANGED formVars
    BY <1>3 DEF formVars, FormInv, FormTyped, LastMoveLed, Moved, Reviewed, Decisions, MovesTaken,
                OpenUntilClosed, MovesInto, ReopensCounted
  <1> QED
    BY <1>1, <1>2, <1>3, MoveKeeps DEF FormNext

LEMMA FormStarts == FormInit => FormInv
  <1> SUFFICES ASSUME FormInit PROVE FormInv
    OBVIOUS
  <1>1. Len(log) = 0 /\ log \in Seq(LogRows) /\ 1 .. Len(log) = {}
    BY DEF FormInit
  <1>2. \A actions : MovesTaken(actions) = {} /\ MovesInto(actions) = {}
    BY <1>1 DEF MovesTaken, MovesInto
  <1>3. printed = [status |-> "Submitted", escalated |-> FALSE, reopens |-> 0]
    BY DEF FormInit
  <1>4. FormTyped /\ LastMoveLed
    BY <1>1, <1>3 DEF FormTyped, LastMoveLed, States
  <1>5. Reviewed /\ OpenUntilClosed /\ ReopensCounted
    BY <1>2, <1>3, FS_EmptySet DEF Reviewed, Decisions, OpenUntilClosed, ReopensCounted
  <1> QED
    BY <1>4, <1>5 DEF FormInv

-----------------------------------------------------------------------------
(***************************************************************************)
(* What the form says.                                                     *)
(***************************************************************************)

\* A settled case was settled by its last move, which is then its latest
\* decision or its closure.
LEMMA LastSettled ==
  ASSUME FormInv, printed.status \in {"Resolved"} \cup ClosingStates
  PROVE  /\ LastSettling \in 1 .. Len(log)
         /\ log[LastSettling].to = printed.status
         /\ \A j \in 1 .. Len(log) : j > LastSettling => ~Moved(j)
         /\ \A places \in SUBSET (1 .. Len(log)) :
              LastSettling \in places /\ (\A j \in places : Moved(j)) => Latest(places) = LastSettling
  <1>1. PICK k \in 1 .. Len(log) :
          /\ Moved(k) /\ log[k].to = printed.status
          /\ \A j \in 1 .. Len(log) : j > k => ~Moved(j)
    BY DEF FormInv, LastMoveLed, ClosingStates
  <1>2. Len(log) \in Nat /\ \A i \in 1 .. Len(log) : log[i] \in LogRows
    BY DEF FormInv, FormTyped
  <1>3. ASSUME NEW places \in SUBSET (1 .. Len(log)), k \in places, \A j \in places : Moved(j)
        PROVE  Latest(places) = k
    <2>1. \A j \in places : j <= k /\ j \in Nat
      BY <1>1, <1>2, <1>3
    <2> QED
      BY <1>3, <2>1, LatestIs
  <1>4. log[k].kind \in SettlingActions
    BY <1>1, <1>2, RowTable DEF SettlingActions, ClosingStates
  <1>5. \A j \in MovesTaken(SettlingActions) : Moved(j)
    BY DEF MovesTaken, SettlingActions, Moved, TalkKinds
  <1>6. LastSettling = k
    BY <1>3, <1>4, <1>5 DEF LastSettling, MovesTaken
  <1> QED
    BY <1>1, <1>3, <1>6

LEMMA OneStands ==
  ASSUME FormInv
  PROVE  OneFinalStatus
  <1> DEFINE last == log[LastSettling].kind
             settled == IF LastSettling # 0 /\ last \in {"ReferOnward", "Reopen"} THEN {last} ELSE {}
             standing == IF printed.status \in ResolvedStates THEN {printed.status} ELSE {}
  <1>1. Boxes \ {"Escalated"} \subseteq standing \cup settled
    BY DEF Boxes
  <1>2. standing = {} \/ settled = {}
    <2>1. CASE printed.status \in ResolvedStates
      <3>1. /\ LastSettling \in 1 .. Len(log) /\ log[LastSettling].to = printed.status
        BY <2>1, LastSettled DEF ResolvedStates, ClosingStates
      <3>2. log[LastSettling] \in LogRows
        BY <3>1 DEF FormInv, FormTyped
      <3>3. last \notin {"ReferOnward", "Reopen"}
        BY <2>1, <3>1, <3>2, RowTable DEF ResolvedStates
      <3> QED
        BY <3>3
    <2> QED
      BY <2>1
  <1>3. \E x : Boxes \ {"Escalated"} \subseteq {x}
    BY <1>1, <1>2
  <1>4. \A x : IsFiniteSet({x}) /\ Cardinality({x}) = 1
    BY FS_Singleton
  <1>5. PICK x : Boxes \ {"Escalated"} \in SUBSET {x}
    BY <1>3
  <1>6. Cardinality(Boxes \ {"Escalated"}) <= Cardinality({x})
    BY <1>4, <1>5, FS_Subset
  <1> QED
    BY <1>4, <1>6 DEF OneFinalStatus

LEMMA ClosureHolds ==
  ASSUME FormInv
  PROVE  ClosureFits
  <1>1. Len(log) \in Nat /\ \A i \in 1 .. Len(log) : log[i] \in LogRows
    BY DEF FormInv, FormTyped
  <1>2. CASE printed.status \in ClosingStates
    <2>1. /\ LastSettling \in 1 .. Len(log) /\ log[LastSettling].to = printed.status
          /\ \A places \in SUBSET (1 .. Len(log)) :
               LastSettling \in places /\ (\A j \in places : Moved(j)) => Latest(places) = LastSettling
      BY <1>2, LastSettled
    <2>2. \A j \in MovesInto(ClosingStates) : Moved(j)
      BY <1>1, RowTable DEF MovesInto, Moved
    <2>3. log[LastSettling].to # "none"
      BY <1>2, <2>1 DEF ClosingStates
    <2>4. LastSettling \in MovesInto(ClosingStates)
      BY <1>1, <1>2, <2>1, <2>3, RowTable DEF MovesInto
    <2>5. Closing = LastSettling
      BY <2>1, <2>2, <2>4 DEF Closing, MovesInto
    <2> QED
      BY <1>2, <2>1, <2>5, FinalStates DEF ClosureFits
  <1>3. CASE printed.status \notin ClosingStates
    <2>1. Closing = 0
      BY <1>3 DEF FormInv, OpenUntilClosed, Closing, Latest
    <2> QED
      BY <1>3, <2>1, FinalStates DEF ClosureFits
  <1> QED
    BY <1>2, <1>3

LEMMA DecisionsHold ==
  ASSUME FormInv
  PROVE  DecisionsFit
  <1> DEFINE R == MovesTaken({"Reopen"})
             upTo(i) == {r \in R : r <= i}
  <1>1. /\ Len(log) \in Nat /\ R \subseteq 1 .. Len(log) /\ IsFiniteSet(R)
        /\ Decisions \subseteq 1 .. Len(log)
        /\ \A i \in 1 .. Len(log) : log[i] \in LogRows
    BY PlacesFinite DEF FormInv, FormTyped, Decisions
  <1>2. \A i : IsFiniteSet(upTo(i)) /\ Cardinality(upTo(i)) \in Nat
    BY <1>1, FS_Subset, FS_CardinalityType
  <1>3. \A i : RoundOf(i) = 1 + Cardinality(upTo(i))
    BY DEF RoundOf
  <1>4. ASSUME NEW i \in Decisions, NEW j \in Decisions, i < j
        PROVE  RoundOf(i) # RoundOf(j)
    <2>1. PICK r \in R : i < r /\ r < j
      BY <1>4 DEF FormInv, Reviewed
    <2>2. upTo(i) \subseteq upTo(j) /\ r \in upTo(j) /\ r \notin upTo(i)
      BY <1>1, <1>4, <2>1
    <2>3. Cardinality(upTo(i)) # Cardinality(upTo(j))
      BY <1>2, <2>2, FS_Subset
    <2> HIDE DEF upTo
    <2> QED
      BY <1>2, <1>3, <2>3
  <1>5. \A i, j \in Decisions : RoundOf(i) = RoundOf(j) => i = j
    BY <1>1, <1>4
  <1>6. ASSUME printed.status \in {"Resolved", "Rejected"}
        PROVE  /\ LatestDecision # 0 /\ log[LatestDecision].to = printed.status
               /\ RoundOf(LatestDecision) = 1 + printed.reopens
               /\ printed.status = "Resolved" => Findings = LatestDecision
    <2>1. /\ LastSettling \in 1 .. Len(log) /\ log[LastSettling].to = printed.status
          /\ \A j \in 1 .. Len(log) : j > LastSettling => ~Moved(j)
          /\ \A places \in SUBSET (1 .. Len(log)) :
               LastSettling \in places /\ (\A j \in places : Moved(j)) => Latest(places) = LastSettling
      BY <1>6, LastSettled DEF ClosingStates
    <2>2. \A actions : actions \cap TalkKinds = {} => \A j \in MovesTaken(actions) : Moved(j)
      BY DEF MovesTaken, Moved
    <2>3. LastSettling \in Decisions
      BY <1>1, <1>6, <2>1, RowTable DEF Decisions, MovesTaken, DecisionActions
    <2>4. LatestDecision = LastSettling
      BY <1>1, <2>1, <2>2, <2>3 DEF LatestDecision, Decisions, DecisionActions, TalkKinds
    <2>5. \A r \in R : r <= LastSettling
      <3>1. \A r \in R : Moved(r)
        BY <2>2 DEF TalkKinds
      <3> QED
        BY <1>1, <2>1, <3>1
    <2>6. upTo(LastSettling) = R
      BY <2>5
    <2>7. RoundOf(LatestDecision) = 1 + printed.reopens
      BY <1>3, <2>4, <2>6 DEF FormInv, ReopensCounted
    <2>8. ASSUME printed.status = "Resolved" PROVE Findings = LatestDecision
      <3> DEFINE found == MovesTaken({"Resolve", "PartiallyResolve"})
      <3>1. LastSettling \in found
        BY <1>1, <2>1, <2>8, RowTable DEF MovesTaken
      <3>2. found \subseteq 1 .. Len(log) /\ \A j \in found : Moved(j)
        BY <2>2 DEF MovesTaken, TalkKinds
      <3>3. Latest(found) = LastSettling
        BY <2>1, <3>1, <3>2
      <3> QED
        BY <2>4, <3>3 DEF Findings
    <2> QED
      BY <1>1, <2>1, <2>4, <2>7, <2>8
  <1> QED
    BY <1>5, <1>6 DEF DecisionsFit

LEMMA NumbersHold ==
  ASSUME FormInv
  PROVE  NumbersAgree
  <1>1. Len(log) \in Nat /\ \A i \in 1 .. Len(log) : log[i] \in LogRows
    BY DEF FormInv, FormTyped
  <1>2. ASSUME NEW i \in 1 .. Len(log) PROVE OnForm(i) <=> OnPage(i)
    <2>1. EntryType(log[i]) = "response" => log[i].by = "officer"
      <3>1. log[i].kind \in TalkKinds => EntryType(log[i]) # "response"
        BY DEF EntryType, TalkKinds
      <3>2. log[i].kind \notin TalkKinds /\ EntryType(log[i]) = "response"
              => log[i].kind \in {"Resolve", "PartiallyResolve", "ReferOnward"}
        BY DEF EntryType
      <3> QED
        BY <1>1, <3>1, <3>2, RowTable
    <2> QED
      BY <2>1 DEF OnForm, OnPage
  <1>3. ASSUME NEW i \in 1 .. Len(log) PROVE ResponseNumber(i) = PageNumber(i)
    <2>1. \A j \in 1 .. i : j \in 1 .. Len(log)
      BY <1>1
    <2>2. {j \in 1 .. i : OnForm(j)} = {j \in 1 .. i : OnPage(j)}
      BY <1>2, <2>1
    <2> QED
      BY <2>2 DEF ResponseNumber, PageNumber, NumberAmong
  <1> QED
    BY <1>3 DEF NumbersAgree

\* For any number of moves and entries: one final status is ticked at most, the
\* closure and the decision printed are those of the present round, and a
\* response has one number on form and page (FormTellsTheCase).
THEOREM FormTellsAlways == FormSpec => []FormTellsTheCase
  <1>1. FormInv => FormTellsTheCase
    BY OneStands, ClosureHolds, DecisionsHold, NumbersHold DEF FormTellsTheCase
  <1> QED
    BY <1>1, FormStarts, FormStep, PTL DEF FormSpec

\* The log is bounded by its guards, and a case has not been reopened more often
\* than it has moved.
FormTyping == FormInv /\ Len(log) <= MaxLog

LEMMA FormTypingStep == FormTyping /\ [FormNext]_formVars => FormTyping'
  <1> SUFFICES ASSUME FormTyping, [FormNext]_formVars PROVE Len(log)' <= MaxLog
    BY FormStep DEF FormTyping
  <1>1. log \in Seq(LogRows) /\ Len(log) \in Nat
    BY DEF FormTyping, FormInv, FormTyped
  <1>2. ASSUME NEW row, Len(log) < MaxLog, log' = Append(log, row) PROVE Len(log)' <= MaxLog
    BY <1>1, <1>2, LogAssumption
  <1>3. CASE UNCHANGED formVars
    BY <1>3 DEF formVars, FormTyping
  <1> QED
    BY <1>2, <1>3 DEF FormNext, Reclassify, TakeMove, Say

LEMMA FormTypingStart == FormInit => FormTyping
  BY FormStarts, LogAssumption DEF FormInit, FormTyping

LEMMA FormIsTyped ==
  ASSUME FormTyping
  PROVE  FormTypeOK
  <1>1. /\ FormTyped /\ MovesTaken({"Reopen"}) \subseteq 1 .. Len(log) /\ Len(log) \in Nat
        /\ Len(log) <= MaxLog /\ Cardinality(MovesTaken({"Reopen"})) = printed.reopens
    BY PlacesFinite DEF FormTyping, FormInv, ReopensCounted
  <1>2. printed.reopens <= Len(log)
    <2>1. /\ IsFiniteSet(1 .. Len(log))
          /\ Cardinality(1 .. Len(log)) = IF 1 > Len(log) THEN 0 ELSE Len(log) - 1 + 1
      BY <1>1, FS_Interval
    <2>2. Cardinality(1 .. Len(log)) = Len(log)
      BY <1>1, <2>1
    <2>3. Cardinality(MovesTaken({"Reopen"})) <= Cardinality(1 .. Len(log))
      BY <1>1, <2>1, FS_Subset
    <2> QED
      BY <1>1, <2>2, <2>3
  <1>3. printed.reopens \in 0 .. MaxLog
    BY <1>1, <1>2, LogAssumption DEF FormTyped
  <1> QED
    BY <1>1, <1>3 DEF FormTyped, FormTypeOK

\* For any number of moves and entries, what the form prints of the case keeps
\* its types (the columns of Grievance Ticket it reads).
THEOREM FormTypedAlways == FormSpec => []FormTypeOK
  BY FormTypingStart, FormTypingStep, FormIsTyped, PTL DEF FormSpec

-----------------------------------------------------------------------------
(***************************************************************************)
(* The timeline.  Entries come before a cursor or after it, nothing that   *)
(* is there is taken away, and the rows beyond a full page all come after  *)
(* its last.                                                               *)
(***************************************************************************)
HandedOut == UNION {reader.got[i] : i \in DOMAIN reader.got}

PagesOrdered ==
  \A i, j \in DOMAIN reader.got : i < j =>
    \A row \in reader.got[i], other \in reader.got[j] : Before(row, other)

\* What was there is handed out or still to come; what was handed out is over.
Covered ==
  IF reader.done THEN reader.found \subseteq HandedOut
  ELSE /\ \A row \in reader.found : row \in HandedOut \/ Past(row, reader.cursor)
       /\ \A row \in HandedOut : ~Past(row, reader.cursor)

PagesInv ==
  /\ PagesTypeOK /\ IsFiniteSet(entries)
  /\ reader # NoReader =>
       /\ reader.found \subseteq ReadableBy(reader.staff)
       /\ Covered /\ PagesOrdered
       /\ ~reader.staff => \A row \in HandedOut : ~row.internal

CursorOf(row) == [at |-> row.at, name |-> row.name]

LEMMA MomentsAndNames ==
  /\ \A at \in -1 .. LastMoment : at \in Int
  /\ \A at \in 0 .. LastMoment : at \in Int
  /\ \A name \in EntryNames \cup {0} : name \in Int
  BY PagesAssumption

LEMMA OrderOfRows ==
  ASSUME NEW a \in TimelineRows, NEW b \in TimelineRows, NEW c \in TimelineRows
  PROVE  /\ a.at \in Int /\ a.name \in Int
         /\ Past(a, CursorOf(b)) <=> Before(b, a)
         /\ Before(a, b) /\ ~Before(c, b) => Before(a, c)
         /\ ~Before(b, a) /\ Before(c, a) => Before(c, b)
         /\ Before(a, b) /\ Before(b, c) => Before(a, c)
  <1>1. ASSUME NEW row \in TimelineRows PROVE row.at \in Int /\ row.name \in Int
    BY MomentsAndNames DEF TimelineRows
  <1>2. /\ a.at \in Int /\ a.name \in Int /\ b.at \in Int /\ b.name \in Int
        /\ c.at \in Int /\ c.name \in Int
    BY <1>1
  <1> QED
    BY <1>2 DEF Past, Before, CursorOf

\* A row before a cursor is before every row past it.
LEMMA CursorSplits ==
  ASSUME NEW a \in TimelineRows, NEW b \in TimelineRows,
         NEW cursor \in [at : -1 .. LastMoment, name : EntryNames \cup {0}],
         ~Past(a, cursor), Past(b, cursor)
  PROVE  Before(a, b)
  <1>1. a.at \in Int /\ a.name \in Int /\ b.at \in Int /\ b.name \in Int
    BY OrderOfRows
  <1>2. cursor.at \in Int /\ cursor.name \in Int
    BY MomentsAndNames
  <1> QED
    BY <1>1, <1>2 DEF Past, Before

\* Of the rows a query finds, those left out all come after its last.
LEMMA RestAfterPage ==
  ASSUME NEW rows \in SUBSET TimelineRows, IsFiniteSet(rows),
         NEW last \in FirstOf(rows), NEW row \in rows \ FirstOf(rows)
  PROVE  Before(last, row)
  <1> DEFINE Ahead(r) == {other \in rows : Before(other, r)}
  <1>1. last \in TimelineRows /\ row \in TimelineRows
    BY DEF FirstOf
  <1>2. SUFFICES ASSUME ~Before(last, row) PROVE FALSE
    OBVIOUS
  <1>3. Ahead(row) \subseteq Ahead(last)
    BY <1>1, <1>2, OrderOfRows
  <1>4. IsFiniteSet(Ahead(last))
    BY FS_Subset
  <1>5. /\ Cardinality(Ahead(row)) \in Nat /\ Cardinality(Ahead(last)) \in Nat
        /\ Cardinality(Ahead(row)) <= Cardinality(Ahead(last))
    BY <1>3, <1>4, FS_Subset, FS_CardinalityType
  <1>6. Cardinality(Ahead(last)) < PageLimit /\ ~(Cardinality(Ahead(row)) < PageLimit)
    BY DEF FirstOf
  <1> QED
    BY <1>5, <1>6, PagesAssumption

LEMMA PageAdded ==
  ASSUME NEW got \in Seq(SUBSET TimelineRows), NEW page \in SUBSET TimelineRows
  PROVE  LET longer == Append(got, page)
         IN  /\ DOMAIN longer = DOMAIN got \cup {Len(got) + 1}
             /\ \A i \in DOMAIN got : longer[i] = got[i] /\ i < Len(got) + 1
             /\ longer[Len(got) + 1] = page
             /\ Len(got) + 1 \notin DOMAIN got
  OBVIOUS

\* What a page does to the reading, whether another follows or not.
LEMMA PageKeeps ==
  ASSUME PagesInv, reader # NoReader, ~reader.done, ReadPage
  PROVE  reader' \in Reading /\ Covered' /\ PagesOrdered'
         /\ reader'.found = reader.found /\ reader'.staff = reader.staff
         /\ (~reader'.staff => \A row \in HandedOut' : ~row.internal)
  <1> DEFINE rest == {row \in ReadableBy(reader.staff) : Past(row, reader.cursor)}
             page == FirstOf(rest)
             n == Len(reader.got) + 1
  <1>1. /\ reader \in Reading /\ entries \subseteq TimelineRows /\ IsFiniteSet(entries)
        /\ reader.got \in Seq(SUBSET TimelineRows)
        /\ reader.cursor \in [at : -1 .. LastMoment, name : EntryNames \cup {0}]
    BY DEF PagesInv, PagesTypeOK, Reading
  <1>2. /\ rest \in SUBSET TimelineRows /\ IsFiniteSet(rest)
        /\ page \subseteq rest
    BY <1>1, FS_Subset DEF ReadableBy, FirstOf
  <1>3. /\ Covered /\ PagesOrdered /\ reader.found \subseteq ReadableBy(reader.staff)
        /\ ~reader.staff => \A row \in HandedOut : ~row.internal
    BY DEF PagesInv
  <1>4. \A row \in reader.found : row \in HandedOut \/ row \in rest
    BY <1>3 DEF Covered
  <1>5. \A row \in HandedOut : row \in TimelineRows /\ ~Past(row, reader.cursor)
    BY <1>1, <1>3 DEF Covered, HandedOut
  <1>6. \A row \in page : ~reader.staff => ~row.internal
    BY <1>2 DEF ReadableBy
  <1>7. \A row \in HandedOut, other \in page : Before(row, other)
    BY <1>1, <1>2, <1>5, CursorSplits
  <1> HIDE DEF rest, page
  <1>8. ASSUME reader'.got = Append(reader.got, page), reader'.staff = reader.staff
        PROVE  /\ HandedOut' = HandedOut \cup page
               /\ PagesOrdered'
               /\ ~reader'.staff => \A row \in HandedOut' : ~row.internal
    <2>0. page \in SUBSET TimelineRows
      BY <1>2
    <2>1. /\ DOMAIN reader'.got = DOMAIN reader.got \cup {n}
          /\ \A i \in DOMAIN reader.got : reader'.got[i] = reader.got[i] /\ i < n
          /\ reader'.got[n] = page /\ n \notin DOMAIN reader.got
      BY <1>1, <1>8, <2>0, PageAdded
    <2>2. HandedOut' = HandedOut \cup page
      BY <2>1 DEF HandedOut
    <2>3. ASSUME NEW i \in DOMAIN reader'.got, NEW j \in DOMAIN reader'.got, i < j,
                 NEW row \in reader'.got[i], NEW other \in reader'.got[j]
          PROVE  Before(row, other)
      <3>1. i \in DOMAIN reader.got
        <4>1. CASE i = n
          <5>1. j \in DOMAIN reader.got
            BY <1>1, <2>1, <2>3, <4>1
          <5>2. j < n /\ j \in Nat /\ n \in Nat
            BY <1>1, <2>1, <5>1
          <5> QED
            BY <2>3, <4>1, <5>2
        <4> QED
          BY <2>1, <4>1
      <3>2. CASE j = n
        BY <1>7, <2>1, <3>1, <3>2 DEF HandedOut
      <3>3. CASE j \in DOMAIN reader.got
        BY <1>3, <2>1, <2>3, <3>1, <3>3 DEF PagesOrdered
      <3> QED
        BY <2>1, <3>2, <3>3
    <2> QED
      BY <1>3, <1>6, <1>8, <2>2, <2>3 DEF PagesOrdered
  <1>9. Append(reader.got, page) \in Seq(SUBSET TimelineRows)
    BY <1>1, <1>2
  <1>10. CASE page = rest /\ reader' = [reader EXCEPT !.got = Append(@, page), !.done = TRUE]
    <2> DEFINE longer == Append(reader.got, page)
    <2>1. reader' = [reader EXCEPT !.got = longer, !.done = TRUE] /\ longer \in Seq(SUBSET TimelineRows)
      BY <1>9, <1>10
    <2> HIDE DEF longer
    <2>2. /\ reader' \in Reading /\ reader'.got = longer
          /\ reader'.staff = reader.staff /\ reader'.found = reader.found /\ reader'.done
      BY <1>1, <2>1 DEF Reading
    <2>3. /\ reader' \in Reading /\ reader'.got = Append(reader.got, page)
          /\ reader'.staff = reader.staff /\ reader'.found = reader.found /\ reader'.done
      BY <2>2 DEF longer
    <2>4. Covered'
      BY <1>4, <1>8, <1>10, <2>3 DEF Covered
    <2> QED
      BY <1>8, <2>3, <2>4
  <1>11. ASSUME NEW last \in page, \A row \in page : ~Before(last, row),
                reader' = [reader EXCEPT !.got = Append(@, page), !.cursor = CursorOf(last)]
         PROVE  reader' \in Reading /\ Covered' /\ PagesOrdered'
                /\ reader'.found = reader.found /\ reader'.staff = reader.staff
                /\ (~reader'.staff => \A row \in HandedOut' : ~row.internal)
    <2>1. last \in TimelineRows
      BY <1>2
    <2>2. CursorOf(last) \in [at : -1 .. LastMoment, name : EntryNames \cup {0}]
      BY <2>1, PagesAssumption DEF CursorOf, TimelineRows
    <2> DEFINE longer == Append(reader.got, page)
               cursor == CursorOf(last)
    <2>3. /\ reader' = [reader EXCEPT !.got = longer, !.cursor = cursor]
          /\ longer \in Seq(SUBSET TimelineRows)
          /\ cursor \in [at : -1 .. LastMoment, name : EntryNames \cup {0}]
      BY <1>9, <1>11, <2>2
    <2> HIDE DEF longer, cursor
    <2>4. /\ reader' \in Reading /\ reader'.got = longer /\ reader'.cursor = cursor
          /\ reader'.staff = reader.staff /\ reader'.found = reader.found
          /\ reader'.done = reader.done
      BY <1>1, <2>3 DEF Reading
    <2>5. /\ reader' \in Reading /\ reader'.got = Append(reader.got, page)
          /\ reader'.staff = reader.staff /\ reader'.found = reader.found
          /\ reader'.done = reader.done /\ reader'.cursor = CursorOf(last)
      BY <2>4 DEF longer, cursor
    <2>6. \A row \in rest \ page : Past(row, reader'.cursor)
      BY <1>2, <2>1, <2>5, RestAfterPage, OrderOfRows DEF page
    <2>7. \A row \in page : ~Past(row, reader'.cursor)
      BY <1>2, <1>11, <2>1, <2>5, OrderOfRows
    <2>8. \A row \in HandedOut : ~Past(row, reader'.cursor)
      <3>1. ASSUME NEW row \in HandedOut PROVE ~Before(last, row)
        <4>1. Before(row, last) /\ row \in TimelineRows
          BY <1>5, <1>7
        <4> QED
          BY <2>1, <4>1, OrderOfRows DEF Before
      <3> QED
        BY <1>5, <2>1, <2>5, <3>1, OrderOfRows
    <2>9. Covered'
      BY <1>4, <1>8, <2>5, <2>6, <2>7, <2>8 DEF Covered
    <2> QED
      BY <1>8, <2>5, <2>9
  <1> QED
    BY <1>10, <1>11 DEF ReadPage, rest, page, CursorOf

LEMMA PagesStart ==
  ASSUME PagesInit
  PROVE  PagesInv
  BY FS_EmptySet, PagesAssumption DEF PagesInit, PagesInv, PagesTypeOK

LEMMA PagesStep ==
  ASSUME PagesInv, [PagesNext]_pagesVars
  PROVE  PagesInv'
  <1>0. ASSUME UNCHANGED reader, entries \subseteq entries', PagesTypeOK', IsFiniteSet(entries')
        PROVE  PagesInv'
    BY <1>0 DEF PagesInv, ReadableBy, Covered, PagesOrdered, HandedOut
  <1>1. ASSUME NEW name \in EntryNames, NEW internal \in BOOLEAN, WriteEntry(name, internal)
        PROVE  PagesInv'
    BY <1>0, <1>1 DEF PagesInv, PagesTypeOK, WriteEntry, TimelineRows
  <1>2. ASSUME NEW row \in writing, CommitEntry(row) \/ LoseEntry(row) PROVE PagesInv'
    <2>1. IsFiniteSet(entries')
      BY <1>2, FS_AddElement DEF PagesInv, CommitEntry, LoseEntry
    <2> QED
      BY <1>0, <1>2, <2>1 DEF PagesInv, PagesTypeOK, CommitEntry, LoseEntry
  <1>3. CASE MomentPasses
    BY <1>0, <1>3, PagesAssumption DEF PagesInv, PagesTypeOK, MomentPasses
  <1>4. ASSUME NEW staff \in BOOLEAN, BeginReading(staff) PROVE PagesInv'
    <2>1. reader' \in Reading
      BY <1>4, PagesAssumption DEF PagesInv, PagesTypeOK, BeginReading, Reading, FirstCursor, ReadableBy
    <2>2. /\ reader'.found = ReadableBy(staff) /\ reader'.staff = staff /\ reader'.got = <<>>
          /\ reader'.done = FALSE /\ reader'.cursor = FirstCursor
      BY <1>4 DEF BeginReading
    <2>3. \A row \in reader'.found : Past(row, reader'.cursor)
      <3>1. ASSUME NEW row \in entries PROVE row.at > -1
        BY PagesAssumption DEF PagesInv, PagesTypeOK, TimelineRows
      <3> QED
        BY <2>2, <3>1 DEF ReadableBy, Past, FirstCursor
    <2>4. HandedOut' = {} /\ PagesOrdered'
      BY <2>2 DEF HandedOut, PagesOrdered
    <2> QED
      BY <1>4, <2>1, <2>2, <2>3, <2>4 DEF PagesInv, PagesTypeOK, BeginReading, Covered, ReadableBy
  <1>5. CASE ReadPage
    <2>1. UNCHANGED <<entries, writing, clock>> /\ reader # NoReader /\ ~reader.done
      BY <1>5 DEF ReadPage
    <2> QED
      BY <1>5, <2>1, PageKeeps DEF PagesInv, PagesTypeOK, ReadableBy
  <1>6. CASE UNCHANGED pagesVars
    BY <1>0, <1>6 DEF PagesInv, PagesTypeOK, pagesVars
  <1> QED
    BY <1>1, <1>2, <1>3, <1>4, <1>5, <1>6 DEF PagesNext

\* For any number of entries, however many commit late or never while somebody
\* turns the pages, the reader ends with every entry that was there at the
\* start, each once, in order, and none that is not theirs to see (timeline).
THEOREM PagesCoverAlways == PagesSpec => []PagesTypeOK /\ []PagesCover
  <1>1. PagesInv => PagesTypeOK /\ PagesCover
    BY DEF PagesInv, PagesCover, Covered, PagesOrdered, HandedOut
  <1> QED
    BY <1>1, PagesStart, PagesStep, PTL DEF PagesSpec

-----------------------------------------------------------------------------
(***************************************************************************)
(* Seeds.  A fact is tied to the release the site is at: what it reads is  *)
(* what that release reads for it, given what people chose and when.  Each *)
(* patch carries that relation from one release to the next, one kind of   *)
(* patch at a time, and the seeds do not disturb it.                       *)
(***************************************************************************)
PatchNames == {PatchList[i] : i \in 1 .. PatchCount}

LEMMA PatchListIs ==
  /\ PatchCount = 22 /\ DOMAIN PatchList = 1 .. 22
  /\ \A i, j \in 1 .. PatchCount : PatchList[i] = PatchList[j] => i = j
  /\ "none" \notin PatchNames
  BY DEF PatchCount, PatchList, PatchNames

LEMMA PlaceIs ==
  ASSUME NEW i \in 1 .. PatchCount
  PROVE  Place(PatchList[i]) = i
  BY PatchListIs DEF Place

\* The patch after release n is the one a site has then and had not before.
LEMMA HadNext ==
  ASSUME NEW n \in 0 .. PatchCount - 1, NEW q \in PatchNames \cup {"none"}
  PROVE  /\ Had(q, n + 1) <=> Had(q, n) \/ q = PatchList[n + 1]
         /\ q = PatchList[n + 1] => ~Had(q, n)
         /\ \A m \in 0 .. n : Had(q, m) => Had(q, n)
         /\ Had(q, PatchCount)
  <1>1. PatchCount = 22 /\ "none" \notin PatchNames
    BY PatchListIs
  <1>2. n + 1 \in 1 .. PatchCount /\ PatchList[n + 1] \in PatchNames
    BY <1>1 DEF PatchNames
  <1>3. CASE q = "none"
    BY <1>1, <1>2, <1>3 DEF Had
  <1>4. CASE q \in PatchNames
    <2>1. PICK i \in 1 .. PatchCount : q = PatchList[i]
      BY <1>4 DEF PatchNames
    <2>2. Place(q) = i /\ i \in Nat /\ i <= 22
      BY <1>1, <2>1, PlaceIs
    <2>3. \A m \in Nat : Had(q, m) <=> i <= m
      BY <1>1, <1>4, <2>2 DEF Had
    <2>4. q = PatchList[n + 1] <=> i = n + 1
      BY <1>2, <2>1, PatchListIs
    <2> QED
      BY <1>1, <2>2, <2>3, <2>4
  <1> QED
    BY <1>3, <1>4


\* The facts a patch writes.
Touches(p) ==
  CASE p = "reword_received" -> {"received"} [] p = "reword_more_info" -> {"moreInfo"}
    [] p = "reword_reopened" -> {"reopened"} [] p = "name_assignee" -> {"assigned"}
    [] p = "seed_system_messages" -> Reworded \cup {"system"}
    [] p = "key_messages" -> {"keys"} [] p = "convert_codes" -> {"category"}
    [] p = "set_default" -> {"default"} [] p = "ensure_channels" -> {"channel"}
    [] p = "rename_level" -> {"level"} [] p = "add_timers" -> {"resolvedTimer"}
    [] p = "convert_pending_timers" -> {"resolvedTimer", "pendingTimer"}
    [] p = "unrouted_skips_approval" -> {"approval"} [] p = "unrouted_is_head" -> {"triage"}
    [] p = "grant_head_role" -> {"headRole"} [] p = "move_status" -> {"status"}
    [] p = "move_designation" -> {"title"} [] p = "set_web_portal" -> {"profile"}
    [] p = "add_reopened" -> {"workflow", "case"} [] p = "add_duplicate" -> {"workflow"}
    [] p = "dismiss_flags" -> {"flag"} [] p = "name_officers" -> {"officer"}

LEMMA FactsListed ==
  ASSUME NEW f \in Facts
  PROVE  \/ f = "received"
         \/ f = "moreInfo"
         \/ f = "reopened"
         \/ f = "assigned"
         \/ f = "system"
         \/ f = "keys"
         \/ f = "category"
         \/ f = "default"
         \/ f = "channel"
         \/ f = "region"
         \/ f = "workflow"
         \/ f = "level"
         \/ f = "resolvedTimer"
         \/ f = "pendingTimer"
         \/ f = "approval"
         \/ f = "triage"
         \/ f = "headRole"
         \/ f = "status"
         \/ f = "title"
         \/ f = "profile"
         \/ f = "case"
         \/ f = "flag"
         \/ f = "officer"
         \/ f = "source"
  BY DEF Facts, Reworded

LEMMA PatchesListed ==
  /\ "convert_codes" \in PatchNames
  /\ "reword_received" \in PatchNames
  /\ "move_status" \in PatchNames
  /\ "move_designation" \in PatchNames
  /\ "set_default" \in PatchNames
  /\ "key_messages" \in PatchNames
  /\ "convert_pending_timers" \in PatchNames
  /\ "ensure_channels" \in PatchNames
  /\ "set_web_portal" \in PatchNames
  /\ "rename_level" \in PatchNames
  /\ "name_officers" \in PatchNames
  /\ "grant_head_role" \in PatchNames
  /\ "unrouted_skips_approval" \in PatchNames
  /\ "add_timers" \in PatchNames
  /\ "seed_system_messages" \in PatchNames
  /\ "reword_more_info" \in PatchNames
  /\ "add_reopened" \in PatchNames
  /\ "reword_reopened" \in PatchNames
  /\ "unrouted_is_head" \in PatchNames
  /\ "name_assignee" \in PatchNames
  /\ "add_duplicate" \in PatchNames
  /\ "dismiss_flags" \in PatchNames
  BY PatchListIs DEF PatchNames, PatchList

LEMMA Upgrades ==
  /\ Upgrade("received").by = "reword_received" /\ Upgrade("received").old = "old" /\ Upgrade("received").new = "now"
  /\ Upgrade("moreInfo").by = "reword_more_info" /\ Upgrade("moreInfo").old = "old" /\ Upgrade("moreInfo").new = "now"
  /\ Upgrade("reopened").by = "reword_reopened" /\ Upgrade("reopened").old = "old" /\ Upgrade("reopened").new = "now"
  /\ Upgrade("assigned").by = "name_assignee" /\ Upgrade("assigned").old = "old" /\ Upgrade("assigned").new = "now"
  /\ Upgrade("system").by = "seed_system_messages" /\ Upgrade("system").old = "absent" /\ Upgrade("system").new = "now"
  /\ Upgrade("keys").by = "key_messages" /\ Upgrade("keys").old = "shared" /\ Upgrade("keys").new = "own"
  /\ Upgrade("category").by = "convert_codes" /\ Upgrade("category").old = "old" /\ Upgrade("category").new = "now"
  /\ Upgrade("default").by = "set_default" /\ Upgrade("default").old = "none" /\ Upgrade("default").new = "now"
  /\ Upgrade("channel").by = "ensure_channels" /\ Upgrade("channel").old = "now" /\ Upgrade("channel").new = "now"
  /\ Upgrade("region").by = "none" /\ Upgrade("region").old = "now" /\ Upgrade("region").new = "now"
  /\ Upgrade("workflow").by = "add_duplicate" /\ Upgrade("workflow").old = "old" /\ Upgrade("workflow").new = "now"
  /\ Upgrade("level").by = "rename_level" /\ Upgrade("level").old = "old" /\ Upgrade("level").new = "now"
  /\ Upgrade("resolvedTimer").by = "add_timers" /\ Upgrade("resolvedTimer").old = "none" /\ Upgrade("resolvedTimer").new = "now"
  /\ Upgrade("pendingTimer").by = "convert_pending_timers" /\ Upgrade("pendingTimer").old = "none" /\ Upgrade("pendingTimer").new = "none"
  /\ Upgrade("approval").by = "unrouted_skips_approval" /\ Upgrade("approval").old = "old" /\ Upgrade("approval").new = "now"
  /\ Upgrade("triage").by = "unrouted_is_head" /\ Upgrade("triage").old = "old" /\ Upgrade("triage").new = "now"
  /\ Upgrade("headRole").by = "grant_head_role" /\ Upgrade("headRole").old = "none" /\ Upgrade("headRole").new = "now"
  /\ Upgrade("status").by = "move_status" /\ Upgrade("status").old = "on the user" /\ Upgrade("status").new = "on the row"
  /\ Upgrade("title").by = "move_designation" /\ Upgrade("title").old = "on the user" /\ Upgrade("title").new = "on the row"
  /\ Upgrade("profile").by = "set_web_portal" /\ Upgrade("profile").old = "blank" /\ Upgrade("profile").new = "now"
  /\ Upgrade("case").by = "add_reopened" /\ Upgrade("case").old = "In Progress" /\ Upgrade("case").new = "Reopened"
  /\ Upgrade("flag").by = "dismiss_flags" /\ Upgrade("flag").old = "unreviewed" /\ Upgrade("flag").new = "dismissed"
  /\ Upgrade("officer").by = "name_officers" /\ Upgrade("officer").old = "by address" /\ Upgrade("officer").new = "by name"
  /\ Upgrade("source").by = "none" /\ Upgrade("source").old = "now" /\ Upgrade("source").new = "now"
  BY DEF Upgrade

LEMMA PatchIsNamed ==
  ASSUME NEW p \in PatchNames
  PROVE  \/ p = "convert_codes"
         \/ p = "reword_received"
         \/ p = "move_status"
         \/ p = "move_designation"
         \/ p = "set_default"
         \/ p = "key_messages"
         \/ p = "convert_pending_timers"
         \/ p = "ensure_channels"
         \/ p = "set_web_portal"
         \/ p = "rename_level"
         \/ p = "name_officers"
         \/ p = "grant_head_role"
         \/ p = "unrouted_skips_approval"
         \/ p = "add_timers"
         \/ p = "seed_system_messages"
         \/ p = "reword_more_info"
         \/ p = "add_reopened"
         \/ p = "reword_reopened"
         \/ p = "unrouted_is_head"
         \/ p = "name_assignee"
         \/ p = "add_duplicate"
         \/ p = "dismiss_flags"
  <1>1. PICK i \in 1 .. 22 : p = PatchList[i]
    BY PatchListIs DEF PatchNames
  <1>2. \/ i = 1 \/ i = 2 \/ i = 3 \/ i = 4 \/ i = 5 \/ i = 6 \/ i = 7 \/ i = 8 \/ i = 9 \/ i = 10
        \/ i = 11 \/ i = 12 \/ i = 13 \/ i = 14 \/ i = 15 \/ i = 16 \/ i = 17 \/ i = 18 \/ i = 19
        \/ i = 20 \/ i = 21 \/ i = 22
    BY <1>1
  <1> QED
    BY <1>1, <1>2 DEF PatchList

LEMMA TouchesAre ==
  /\ Touches("reword_received") = {"received"}
  /\ Touches("reword_more_info") = {"moreInfo"}
  /\ Touches("reword_reopened") = {"reopened"}
  /\ Touches("name_assignee") = {"assigned"}
  /\ Touches("seed_system_messages") = Reworded \cup {"system"}
  /\ Touches("key_messages") = {"keys"}
  /\ Touches("convert_codes") = {"category"}
  /\ Touches("set_default") = {"default"}
  /\ Touches("ensure_channels") = {"channel"}
  /\ Touches("rename_level") = {"level"}
  /\ Touches("add_timers") = {"resolvedTimer"}
  /\ Touches("convert_pending_timers") = {"resolvedTimer", "pendingTimer"}
  /\ Touches("unrouted_skips_approval") = {"approval"}
  /\ Touches("unrouted_is_head") = {"triage"}
  /\ Touches("grant_head_role") = {"headRole"}
  /\ Touches("move_status") = {"status"}
  /\ Touches("move_designation") = {"title"}
  /\ Touches("set_web_portal") = {"profile"}
  /\ Touches("add_reopened") = {"workflow", "case"}
  /\ Touches("add_duplicate") = {"workflow"}
  /\ Touches("dismiss_flags") = {"flag"}
  /\ Touches("name_officers") = {"officer"}
  BY DEF Touches

LEMMA UpgradeValues ==
  ASSUME NEW f \in Facts
  PROVE  /\ Upgrade(f).by \in PatchNames \cup {"none"}
         /\ Upgrade(f).by \in PatchNames => f \in Touches(Upgrade(f).by)
         /\ Upgrade(f).old \in Values \ {"mine", "twice"}
         /\ Upgrade(f).new \in Values \ {"mine", "twice", "absent"}
         /\ f \in SeededFacts => Upgrade(f).new = "now"
  <1>1. CASE f = "received"
    BY <1>1, PatchListIs, PatchesListed DEF Touches, Upgrade, Values, SeededFacts, Reworded
  <1>2. CASE f = "moreInfo"
    BY <1>2, PatchListIs, PatchesListed DEF Touches, Upgrade, Values, SeededFacts, Reworded
  <1>3. CASE f = "reopened"
    BY <1>3, PatchListIs, PatchesListed DEF Touches, Upgrade, Values, SeededFacts, Reworded
  <1>4. CASE f = "assigned"
    BY <1>4, PatchListIs, PatchesListed DEF Touches, Upgrade, Values, SeededFacts, Reworded
  <1>5. CASE f = "system"
    BY <1>5, PatchListIs, PatchesListed DEF Touches, Upgrade, Values, SeededFacts, Reworded
  <1>6. CASE f = "keys"
    BY <1>6, PatchListIs, PatchesListed DEF Touches, Upgrade, Values, SeededFacts, Reworded
  <1>7. CASE f = "category"
    BY <1>7, PatchListIs, PatchesListed DEF Touches, Upgrade, Values, SeededFacts, Reworded
  <1>8. CASE f = "default"
    BY <1>8, PatchListIs, PatchesListed DEF Touches, Upgrade, Values, SeededFacts, Reworded
  <1>9. CASE f = "channel"
    BY <1>9, PatchListIs, PatchesListed DEF Touches, Upgrade, Values, SeededFacts, Reworded
  <1>10. CASE f = "region"
    BY <1>10, PatchListIs, PatchesListed DEF Touches, Upgrade, Values, SeededFacts, Reworded
  <1>11. CASE f = "workflow"
    BY <1>11, PatchListIs, PatchesListed DEF Touches, Upgrade, Values, SeededFacts, Reworded
  <1>12. CASE f = "level"
    BY <1>12, PatchListIs, PatchesListed DEF Touches, Upgrade, Values, SeededFacts, Reworded
  <1>13. CASE f = "resolvedTimer"
    BY <1>13, PatchListIs, PatchesListed DEF Touches, Upgrade, Values, SeededFacts, Reworded
  <1>14. CASE f = "pendingTimer"
    BY <1>14, PatchListIs, PatchesListed DEF Touches, Upgrade, Values, SeededFacts, Reworded
  <1>15. CASE f = "approval"
    BY <1>15, PatchListIs, PatchesListed DEF Touches, Upgrade, Values, SeededFacts, Reworded
  <1>16. CASE f = "triage"
    BY <1>16, PatchListIs, PatchesListed DEF Touches, Upgrade, Values, SeededFacts, Reworded
  <1>17. CASE f = "headRole"
    BY <1>17, PatchListIs, PatchesListed DEF Touches, Upgrade, Values, SeededFacts, Reworded
  <1>18. CASE f = "status"
    BY <1>18, PatchListIs, PatchesListed DEF Touches, Upgrade, Values, SeededFacts, Reworded
  <1>19. CASE f = "title"
    BY <1>19, PatchListIs, PatchesListed DEF Touches, Upgrade, Values, SeededFacts, Reworded
  <1>20. CASE f = "profile"
    BY <1>20, PatchListIs, PatchesListed DEF Touches, Upgrade, Values, SeededFacts, Reworded
  <1>21. CASE f = "case"
    BY <1>21, PatchListIs, PatchesListed DEF Touches, Upgrade, Values, SeededFacts, Reworded
  <1>22. CASE f = "flag"
    BY <1>22, PatchListIs, PatchesListed DEF Touches, Upgrade, Values, SeededFacts, Reworded
  <1>23. CASE f = "officer"
    BY <1>23, PatchListIs, PatchesListed DEF Touches, Upgrade, Values, SeededFacts, Reworded
  <1>24. CASE f = "source"
    BY <1>24, PatchListIs, PatchesListed DEF Touches, Upgrade, Values, SeededFacts, Reworded
  <1> QED
    BY FactsListed, <1>1, <1>2, <1>3, <1>4, <1>5, <1>6, <1>7, <1>8, <1>9, <1>10, <1>11, <1>12, <1>13, <1>14, <1>15, <1>16, <1>17, <1>18, <1>19, <1>20, <1>21, <1>22, <1>23, <1>24

LEMMA PatchKeepsOthers ==
  ASSUME NEW s \in [Facts -> Values], NEW p \in PatchNames, NEW f \in Facts \ Touches(p)
  PROVE  PatchOf(p, s)[f] = s[f]
  <1>1. CASE p = "convert_codes"
    BY <1>1 DEF PatchOf, Touches, ConvertCodes, Turn, Reword
  <1>2. CASE p = "reword_received"
    BY <1>2 DEF PatchOf, Touches, RewordReceived, Turn, Reword
  <1>3. CASE p = "move_status"
    BY <1>3 DEF PatchOf, Touches, MoveStatus, Turn, Reword
  <1>4. CASE p = "move_designation"
    BY <1>4 DEF PatchOf, Touches, MoveDesignation, Turn, Reword
  <1>5. CASE p = "set_default"
    BY <1>5 DEF PatchOf, Touches, SetDefault, Turn, Reword
  <1>6. CASE p = "key_messages"
    BY <1>6 DEF PatchOf, Touches, KeyMessages, Turn, Reword
  <1>7. CASE p = "convert_pending_timers"
    BY <1>7 DEF PatchOf, Touches, ConvertPending, Turn, Reword
  <1>8. CASE p = "ensure_channels"
    BY <1>8 DEF PatchOf, Touches, EnsureChannels, Turn, Reword
  <1>9. CASE p = "set_web_portal"
    BY <1>9 DEF PatchOf, Touches, SetWebPortal, Turn, Reword
  <1>10. CASE p = "rename_level"
    BY <1>10 DEF PatchOf, Touches, RenameLevel, Turn, Reword
  <1>11. CASE p = "name_officers"
    BY <1>11 DEF PatchOf, Touches, NameOfficers, Turn, Reword
  <1>12. CASE p = "grant_head_role"
    BY <1>12 DEF PatchOf, Touches, GrantHeadRole, Turn, Reword
  <1>13. CASE p = "unrouted_skips_approval"
    BY <1>13 DEF PatchOf, Touches, SkipApproval, Turn, Reword
  <1>14. CASE p = "add_timers"
    BY <1>14 DEF PatchOf, Touches, AddTimers, Turn, Reword
  <1>15. CASE p = "seed_system_messages"
    BY <1>15 DEF PatchOf, Touches, SeedSystem, Turn, Reword, SeedMessages, SeedMissing
  <1>16. CASE p = "reword_more_info"
    BY <1>16 DEF PatchOf, Touches, RewordMoreInfo, Turn, Reword
  <1>17. CASE p = "add_reopened"
    BY <1>17 DEF PatchOf, Touches, AddReopened, Turn, Reword
  <1>18. CASE p = "reword_reopened"
    BY <1>18 DEF PatchOf, Touches, RewordReopened, Turn, Reword
  <1>19. CASE p = "unrouted_is_head"
    BY <1>19 DEF PatchOf, Touches, HeadUnrouted, Turn, Reword
  <1>20. CASE p = "name_assignee"
    BY <1>20 DEF PatchOf, Touches, NameAssignee, Turn, Reword
  <1>21. CASE p = "add_duplicate"
    BY <1>21 DEF PatchOf, Touches, AddDuplicate, Turn, Reword
  <1>22. CASE p = "dismiss_flags"
    BY <1>22 DEF PatchOf, Touches, DismissFlags, Turn, Reword
  <1> QED
    BY PatchIsNamed, <1>1, <1>2, <1>3, <1>4, <1>5, <1>6, <1>7, <1>8, <1>9, <1>10, <1>11, <1>12, <1>13, <1>14, <1>15, <1>16, <1>17, <1>18, <1>19, <1>20, <1>21, <1>22

LEMMA PatchTyped ==
  ASSUME NEW s \in [Facts -> Values], NEW p \in PatchNames
  PROVE  PatchOf(p, s) \in [Facts -> Values]
  <1>1. CASE p = "convert_codes"
    BY <1>1 DEF PatchOf, Values, ConvertCodes, Turn, Reword, Reworded
  <1>2. CASE p = "reword_received"
    BY <1>2 DEF PatchOf, Values, RewordReceived, Turn, Reword, Reworded
  <1>3. CASE p = "move_status"
    BY <1>3 DEF PatchOf, Values, MoveStatus, Turn, Reword, Reworded
  <1>4. CASE p = "move_designation"
    BY <1>4 DEF PatchOf, Values, MoveDesignation, Turn, Reword, Reworded
  <1>5. CASE p = "set_default"
    BY <1>5 DEF PatchOf, Values, SetDefault, Turn, Reword, Reworded
  <1>6. CASE p = "key_messages"
    BY <1>6 DEF PatchOf, Values, KeyMessages, Turn, Reword, Reworded
  <1>7. CASE p = "convert_pending_timers"
    <2>1. PatchOf(p, s) = ConvertPending(s)
      BY <1>7 DEF PatchOf
    <2>2. s["resolvedTimer"] \in Values /\ s["pendingTimer"] \in Values /\ "none" \in Values
      BY DEF Facts, Values
    <2> HIDE DEF Values
    <2>3. ConvertPending(s) \in [Facts -> Values]
      BY <2>2 DEF ConvertPending
    <2> QED
      BY <2>1, <2>3
  <1>8. CASE p = "ensure_channels"
    BY <1>8 DEF PatchOf, Values, EnsureChannels, Turn, Reword, Reworded
  <1>9. CASE p = "set_web_portal"
    BY <1>9 DEF PatchOf, Values, SetWebPortal, Turn, Reword, Reworded
  <1>10. CASE p = "rename_level"
    BY <1>10 DEF PatchOf, Values, RenameLevel, Turn, Reword, Reworded
  <1>11. CASE p = "name_officers"
    BY <1>11 DEF PatchOf, Values, NameOfficers, Turn, Reword, Reworded
  <1>12. CASE p = "grant_head_role"
    BY <1>12 DEF PatchOf, Values, GrantHeadRole, Turn, Reword, Reworded
  <1>13. CASE p = "unrouted_skips_approval"
    BY <1>13 DEF PatchOf, Values, SkipApproval, Turn, Reword, Reworded
  <1>14. CASE p = "add_timers"
    BY <1>14 DEF PatchOf, Values, AddTimers, Turn, Reword, Reworded
  <1>15. CASE p = "seed_system_messages"
    BY <1>15 DEF PatchOf, Values, SeedSystem, Turn, Reword, SeedMessages, SeedMissing, Reworded
  <1>16. CASE p = "reword_more_info"
    BY <1>16 DEF PatchOf, Values, RewordMoreInfo, Turn, Reword, Reworded
  <1>17. CASE p = "add_reopened"
    BY <1>17 DEF PatchOf, Values, AddReopened, Turn, Reword, Reworded
  <1>18. CASE p = "reword_reopened"
    BY <1>18 DEF PatchOf, Values, RewordReopened, Turn, Reword, Reworded
  <1>19. CASE p = "unrouted_is_head"
    BY <1>19 DEF PatchOf, Values, HeadUnrouted, Turn, Reword, Reworded
  <1>20. CASE p = "name_assignee"
    BY <1>20 DEF PatchOf, Values, NameAssignee, Turn, Reword, Reworded
  <1>21. CASE p = "add_duplicate"
    BY <1>21 DEF PatchOf, Values, AddDuplicate, Turn, Reword, Reworded
  <1>22. CASE p = "dismiss_flags"
    BY <1>22 DEF PatchOf, Values, DismissFlags, Turn, Reword, Reworded
  <1> QED
    BY PatchIsNamed, <1>1, <1>2, <1>3, <1>4, <1>5, <1>6, <1>7, <1>8, <1>9, <1>10, <1>11, <1>12, <1>13, <1>14, <1>15, <1>16, <1>17, <1>18, <1>19, <1>20, <1>21, <1>22

Converted(n) == Had("convert_pending_timers", n)

\* What a fact nobody edited reads at release n.
Usual(f, n) ==
  {AsSetUp(n)[f]} \cup (IF f \in Reworded THEN {"now"} ELSE {})
    \cup IF f \in Reworded \cup {"channel"} \/ (n = PatchCount /\ f \in SeededFacts)
         THEN {"absent"} ELSE {}

Right(f, s, n, e) ==
  IF f = "pendingTimer" THEN s[f] = IF f \in DOMAIN e /\ ~Converted(n) THEN "mine" ELSE "none"
  ELSE IF f = "resolvedTimer" /\ "pendingTimer" \in DOMAIN e /\ Converted(n) THEN s[f] = "mine"
  ELSE IF f = "default" /\ s["category"] = "twice" THEN TRUE
  ELSE IF f \in AlwaysRebuilt THEN TRUE
  ELSE IF f \notin DOMAIN e
       THEN s[f] \in Usual(f, n) \cup IF f = "source" THEN {"blank", "now", "absent"} ELSE {}
  ELSE IF f = "category"
       THEN s[f] = "mine" \/ (s[f] = "twice" /\ ~Had("convert_codes", e[f]))
  ELSE IF f \in RepairedOnce
       THEN s[f] = IF Had(Upgrade(f).by, n) /\ ~Had(Upgrade(f).by, e[f]) THEN "now" ELSE "mine"
  ELSE s[f] = "mine"

LEMMA UsualIs ==
  ASSUME NEW f \in Facts, NEW n \in 0 .. PatchCount
  PROVE  AsSetUp(n)[f] = IF Had(Upgrade(f).by, n) THEN Upgrade(f).new ELSE Upgrade(f).old
  BY DEF AsSetUp

LEMMA PatchNumbers ==
  ASSUME NEW n \in 0 .. PatchCount
  PROVE  /\ Had("convert_codes", n) <=> 1 <= n
         /\ Had("key_messages", n) <=> 6 <= n
         /\ Had("convert_pending_timers", n) <=> 7 <= n
         /\ Had("add_timers", n) <=> 14 <= n
         /\ n < PatchCount =>
              /\ PatchList[n + 1] = "reword_received" => n = 1
              /\ PatchList[n + 1] = "reword_more_info" => n = 15
              /\ PatchList[n + 1] = "reword_reopened" => n = 17
              /\ PatchList[n + 1] = "name_assignee" => n = 19
              /\ PatchList[n + 1] = "convert_pending_timers" => n = 6
  <1>1. /\ PatchList[1] = "convert_codes" /\ PatchList[6] = "key_messages"
        /\ PatchList[7] = "convert_pending_timers" /\ PatchList[14] = "add_timers"
        /\ PatchList[2] = "reword_received" /\ PatchList[16] = "reword_more_info"
        /\ PatchList[18] = "reword_reopened" /\ PatchList[20] = "name_assignee"
    BY DEF PatchList
  <1>2. /\ Place(PatchList[1]) = 1 /\ Place(PatchList[6]) = 6
        /\ Place(PatchList[7]) = 7 /\ Place(PatchList[14]) = 14
    BY PatchListIs, PlaceIs
  <1>3. /\ Had("convert_codes", n) <=> 1 <= n
        /\ Had("key_messages", n) <=> 6 <= n
        /\ Had("convert_pending_timers", n) <=> 7 <= n
        /\ Had("add_timers", n) <=> 14 <= n
    BY <1>1, <1>2 DEF Had
  <1>4. ASSUME n < PatchCount
        PROVE  /\ PatchList[n + 1] = "reword_received" => n = 1
               /\ PatchList[n + 1] = "reword_more_info" => n = 15
               /\ PatchList[n + 1] = "reword_reopened" => n = 17
               /\ PatchList[n + 1] = "name_assignee" => n = 19
               /\ PatchList[n + 1] = "convert_pending_timers" => n = 6
    <2>1. n + 1 \in 1 .. PatchCount /\ PatchCount = 22
      BY <1>4, PatchListIs
    <2> QED
      BY <1>1, <2>1, PatchListIs
  <1> QED
    BY <1>3, <1>4

LEMMA RestStaysRight ==
  ASSUME NEW n \in 0 .. PatchCount - 1, NEW s, NEW t, NEW e,
         NEW f \in Facts \ Touches(PatchList[n + 1]), t[f] = s[f],
         s["category"] = "twice" => t["category"] = "twice", Right(f, s, n, e)
  PROVE  Right(f, t, n + 1, e)
  <1>1. n \in 0 .. PatchCount /\ n + 1 \in 0 .. PatchCount /\ n # PatchCount
    BY PatchListIs
  <1>2. Had(Upgrade(f).by, n + 1) <=> Had(Upgrade(f).by, n)
    <2>1. PatchList[n + 1] \in PatchNames
      BY PatchListIs DEF PatchNames
    <2>2. Upgrade(f).by # PatchList[n + 1] /\ Upgrade(f).by \in PatchNames \cup {"none"}
      BY <2>1, UpgradeValues
    <2> QED
      BY <2>2, HadNext
  <1>3. f \in {"pendingTimer", "resolvedTimer"} => (Converted(n + 1) <=> Converted(n))
    <2>1. f \in {"pendingTimer", "resolvedTimer"} => PatchList[n + 1] # "convert_pending_timers"
      BY TouchesAre
    <2> QED
      BY <2>1, HadNext, PatchesListed DEF Converted
  <1>4. Usual(f, n) \subseteq Usual(f, n + 1)
    BY <1>1, <1>2, UsualIs DEF Usual
  <1> QED
    BY <1>2, <1>3, <1>4 DEF Right

\* A patch that turns the old value of a fact into the new one.
LEMMA TurnedRight ==
  ASSUME NEW n \in 0 .. PatchCount - 1, NEW s, NEW t, NEW e,
         NEW f \in Facts \ {"pendingTimer", "channel", "approval"},
         Upgrade(f).by = PatchList[n + 1],
         t[f] = IF s[f] = Upgrade(f).old THEN Upgrade(f).new ELSE s[f],
         s["category"] = "twice" => t["category"] = "twice", Right(f, s, n, e)
  PROVE  Right(f, t, n + 1, e)
  <1>1. n \in 0 .. PatchCount /\ n + 1 \in 0 .. PatchCount /\ n # PatchCount
    BY PatchListIs
  <1>2. Had(Upgrade(f).by, n + 1) /\ ~Had(Upgrade(f).by, n)
    BY UpgradeValues, HadNext
  <1>3. f = "resolvedTimer" => (Converted(n + 1) <=> Converted(n))
    <2>0. Upgrade("resolvedTimer").by = "add_timers"
      BY Upgrades
    <2>1. f = "resolvedTimer" => PatchList[n + 1] # "convert_pending_timers"
      BY <2>0
    <2> QED
      BY <2>1, HadNext, PatchesListed DEF Converted
  <1>4. AsSetUp(n)[f] = Upgrade(f).old /\ AsSetUp(n + 1)[f] = Upgrade(f).new
    BY <1>1, <1>2, UsualIs
  <1>5. /\ Upgrade(f).old \notin {"mine", "twice"}
        /\ f \in Reworded => Upgrade(f).new = "now"
        /\ f # "source"
    <2>1. Upgrade("source").by = "none" /\ "none" \notin PatchNames
      BY PatchListIs, Upgrades
    <2>2. PatchList[n + 1] \in PatchNames
      BY PatchListIs DEF PatchNames
    <2> QED
      BY <2>1, <2>2, UpgradeValues DEF SeededFacts
  <1>6. s[f] \in Usual(f, n) => t[f] \in Usual(f, n + 1)
    BY <1>1, <1>4, <1>5 DEF Usual
  <1> QED
    BY <1>3, <1>5, <1>6 DEF Right, RepairedOnce

\* Every fact is as it should be at release n, with the edits e.
AllRight(s, n, e) == \A f \in Facts : Right(f, s, n, e)

EditsTyped(n, e) ==
  /\ DOMAIN e \subseteq Editable /\ \A f \in DOMAIN e : e[f] \in 0 .. n
  /\ "pendingTimer" \in DOMAIN e => ~Converted(e["pendingTimer"])

\* The messages' keys are those of the release, so a wording that was seeded is
\* met under the keys its patch expects.
LEMMA KeysOfRelease ==
  ASSUME NEW n \in 0 .. PatchCount, NEW s, NEW e, EditsTyped(n, e), AllRight(s, n, e)
  PROVE  s["keys"] = IF 6 <= n THEN "own" ELSE "shared"
  <1>1. "keys" \in Facts /\ "keys" \notin DOMAIN e
    BY EditableAssumption DEF EditsTyped, Facts
  <1>2. s["keys"] \in Usual("keys", n)
    BY <1>1 DEF AllRight, Right, AlwaysRebuilt
  <1>3. s["keys"] = AsSetUp(n)["keys"]
    BY <1>2 DEF Usual, Reworded, SeededFacts
  <1> QED
    <2>1. /\ Upgrade("keys").by = "key_messages"
          /\ Upgrade("keys").old = "shared" /\ Upgrade("keys").new = "own"
      BY DEF Upgrade
    <2> QED
      BY <1>1, <1>3, <2>1, UsualIs, PatchNumbers

LEMMA PatchKeepsRight ==
  ASSUME NEW n \in 0 .. PatchCount - 1, NEW s \in [Facts -> Values], NEW e,
         EditsTyped(n, e), AllRight(s, n, e)
  PROVE  AllRight(PatchOf(PatchList[n + 1], s), n + 1, e)
  <1> DEFINE p == PatchList[n + 1]
             t == PatchOf(p, s)
  <1>1. /\ p \in PatchNames /\ n \in 0 .. PatchCount /\ n + 1 \in 0 .. PatchCount
        /\ n + 1 \in Nat /\ n \in Nat /\ n < n + 1 /\ PatchCount = 22
    BY PatchListIs DEF PatchNames
  <1>2. t \in [Facts -> Values] /\ \A f \in Facts \ Touches(p) : t[f] = s[f]
    BY <1>1, PatchTyped, PatchKeepsOthers
  <1>3. s["category"] = "twice" => t["category"] = "twice"
    <2>1. CASE p = "convert_codes"
      BY <2>1 DEF PatchOf, ConvertCodes, Turn
    <2>2. CASE p # "convert_codes"
      <3>1. "category" \in Facts \ Touches(p)
        BY <1>1, <2>2, PatchIsNamed, TouchesAre DEF Facts, Reworded
      <3> QED
        BY <1>2, <3>1
    <2> QED
      BY <2>1, <2>2
  <1>4. \A f \in Facts : Right(f, s, n, e)
    BY DEF AllRight
  <1>5. \A f \in Facts \ Touches(p) : Right(f, t, n + 1, e)
    BY <1>2, <1>3, <1>4, RestStaysRight
  <1>6. s["keys"] = IF 6 <= n THEN "own" ELSE "shared"
    BY <1>1, KeysOfRelease
  <1>7. ASSUME NEW f \in Facts \ {"pendingTimer", "channel", "approval"}, Upgrade(f).by = p,
               t[f] = IF s[f] = Upgrade(f).old THEN Upgrade(f).new ELSE s[f]
        PROVE  Right(f, t, n + 1, e)
    BY <1>3, <1>4, <1>7, TurnedRight
  <1> HIDE DEF p, t
  <1>31. SUFFICES \A f \in Facts : Right(f, t, n + 1, e)
    BY DEF AllRight, p, t
  <1>8. ASSUME NEW f \in {"channel", "approval"}, Upgrade(f).by = p, t[f] = "now"
        PROVE  Right(f, t, n + 1, e)
    <2>1. Had(p, n + 1) /\ \A m \in 0 .. n : ~Had(p, m)
      BY <1>1, HadNext DEF p
    <2>2. f \in DOMAIN e => ~Had(p, e[f])
      BY <2>1 DEF EditsTyped
    <2>3. f \in Facts /\ Upgrade(f).new = "now"
      BY DEF Facts, Upgrade
    <2>4. AsSetUp(n + 1)[f] = "now"
      BY <1>1, <1>8, <2>1, <2>3, UsualIs
    <2> QED
      BY <1>8, <2>1, <2>2, <2>4 DEF Right, Usual, RepairedOnce, AlwaysRebuilt
  <1>9. CASE p = "convert_codes"
    <2>1. "category" \in Facts /\ Touches(p) = {"category"}
      BY <1>9 DEF Touches, Facts, Reworded
    <2>2. Upgrade("category").by = "convert_codes" /\ Upgrade("category").old = "old" /\ Upgrade("category").new = "now"
      BY DEF Upgrade
    <2>3. t["category"] = IF s["category"] = "old" THEN "now" ELSE s["category"]
      BY <1>9, <2>1 DEF t, PatchOf, ConvertCodes, Turn
    <2> QED
      BY <1>5, <1>7, <1>9, <2>1, <2>2, <2>3
  <1>10. CASE p = "set_default"
    <2>1. "default" \in Facts /\ Touches(p) = {"default"}
      BY <1>10 DEF Touches, Facts, Reworded
    <2>2. Upgrade("default").by = "set_default" /\ Upgrade("default").old = "none" /\ Upgrade("default").new = "now"
      BY DEF Upgrade
    <2>3. t["default"] = IF s["default"] = "none" THEN "now" ELSE s["default"]
      BY <1>10, <2>1 DEF t, PatchOf, SetDefault, Turn
    <2> QED
      BY <1>5, <1>7, <1>10, <2>1, <2>2, <2>3
  <1>11. CASE p = "key_messages"
    <2>1. "keys" \in Facts /\ Touches(p) = {"keys"}
      BY <1>11 DEF Touches, Facts, Reworded
    <2>2. Upgrade("keys").by = "key_messages" /\ Upgrade("keys").old = "shared" /\ Upgrade("keys").new = "own"
      BY DEF Upgrade
    <2>3. t["keys"] = IF s["keys"] = "shared" THEN "own" ELSE s["keys"]
      BY <1>11, <2>1 DEF t, PatchOf, KeyMessages, Turn
    <2> QED
      BY <1>5, <1>7, <1>11, <2>1, <2>2, <2>3
  <1>12. CASE p = "move_status"
    <2>1. "status" \in Facts /\ Touches(p) = {"status"}
      BY <1>12 DEF Touches, Facts, Reworded
    <2>2. Upgrade("status").by = "move_status" /\ Upgrade("status").old = "on the user" /\ Upgrade("status").new = "on the row"
      BY DEF Upgrade
    <2>3. t["status"] = IF s["status"] = "on the user" THEN "on the row" ELSE s["status"]
      BY <1>12, <2>1 DEF t, PatchOf, MoveStatus, Turn
    <2> QED
      BY <1>5, <1>7, <1>12, <2>1, <2>2, <2>3
  <1>13. CASE p = "move_designation"
    <2>1. "title" \in Facts /\ Touches(p) = {"title"}
      BY <1>13 DEF Touches, Facts, Reworded
    <2>2. Upgrade("title").by = "move_designation" /\ Upgrade("title").old = "on the user" /\ Upgrade("title").new = "on the row"
      BY DEF Upgrade
    <2>3. t["title"] = IF s["title"] = "on the user" THEN "on the row" ELSE s["title"]
      BY <1>13, <2>1 DEF t, PatchOf, MoveDesignation, Turn
    <2> QED
      BY <1>5, <1>7, <1>13, <2>1, <2>2, <2>3
  <1>14. CASE p = "set_web_portal"
    <2>1. "profile" \in Facts /\ Touches(p) = {"profile"}
      BY <1>14 DEF Touches, Facts, Reworded
    <2>2. Upgrade("profile").by = "set_web_portal" /\ Upgrade("profile").old = "blank" /\ Upgrade("profile").new = "now"
      BY DEF Upgrade
    <2>3. t["profile"] = IF s["profile"] = "blank" THEN "now" ELSE s["profile"]
      BY <1>14, <2>1 DEF t, PatchOf, SetWebPortal, Turn
    <2> QED
      BY <1>5, <1>7, <1>14, <2>1, <2>2, <2>3
  <1>15. CASE p = "rename_level"
    <2>1. "level" \in Facts /\ Touches(p) = {"level"}
      BY <1>15 DEF Touches, Facts, Reworded
    <2>2. Upgrade("level").by = "rename_level" /\ Upgrade("level").old = "old" /\ Upgrade("level").new = "now"
      BY DEF Upgrade
    <2>3. t["level"] = IF s["level"] = "old" THEN "now" ELSE s["level"]
      BY <1>15, <2>1 DEF t, PatchOf, RenameLevel, Turn
    <2> QED
      BY <1>5, <1>7, <1>15, <2>1, <2>2, <2>3
  <1>16. CASE p = "name_officers"
    <2>1. "officer" \in Facts /\ Touches(p) = {"officer"}
      BY <1>16 DEF Touches, Facts, Reworded
    <2>2. Upgrade("officer").by = "name_officers" /\ Upgrade("officer").old = "by address" /\ Upgrade("officer").new = "by name"
      BY DEF Upgrade
    <2>3. t["officer"] = IF s["officer"] = "by address" THEN "by name" ELSE s["officer"]
      BY <1>16, <2>1 DEF t, PatchOf, NameOfficers, Turn
    <2> QED
      BY <1>5, <1>7, <1>16, <2>1, <2>2, <2>3
  <1>17. CASE p = "grant_head_role"
    <2>1. "headRole" \in Facts /\ Touches(p) = {"headRole"}
      BY <1>17 DEF Touches, Facts, Reworded
    <2>2. Upgrade("headRole").by = "grant_head_role" /\ Upgrade("headRole").old = "none" /\ Upgrade("headRole").new = "now"
      BY DEF Upgrade
    <2>3. t["headRole"] = IF s["headRole"] = "none" THEN "now" ELSE s["headRole"]
      BY <1>17, <2>1 DEF t, PatchOf, GrantHeadRole, Turn
    <2> QED
      BY <1>5, <1>7, <1>17, <2>1, <2>2, <2>3
  <1>18. CASE p = "unrouted_is_head"
    <2>1. "triage" \in Facts /\ Touches(p) = {"triage"}
      BY <1>18 DEF Touches, Facts, Reworded
    <2>2. Upgrade("triage").by = "unrouted_is_head" /\ Upgrade("triage").old = "old" /\ Upgrade("triage").new = "now"
      BY DEF Upgrade
    <2>3. t["triage"] = IF s["triage"] = "old" THEN "now" ELSE s["triage"]
      BY <1>18, <2>1 DEF t, PatchOf, HeadUnrouted, Turn
    <2> QED
      BY <1>5, <1>7, <1>18, <2>1, <2>2, <2>3
  <1>19. CASE p = "add_timers"
    <2>1. "resolvedTimer" \in Facts /\ Touches(p) = {"resolvedTimer"}
      BY <1>19 DEF Touches, Facts, Reworded
    <2>2. Upgrade("resolvedTimer").by = "add_timers" /\ Upgrade("resolvedTimer").old = "none" /\ Upgrade("resolvedTimer").new = "now"
      BY DEF Upgrade
    <2>3. t["resolvedTimer"] = IF s["resolvedTimer"] = "none" THEN "now" ELSE s["resolvedTimer"]
      BY <1>19, <2>1 DEF t, PatchOf, AddTimers, Turn
    <2> QED
      BY <1>5, <1>7, <1>19, <2>1, <2>2, <2>3
  <1>20. CASE p = "dismiss_flags"
    <2>1. "flag" \in Facts /\ Touches(p) = {"flag"}
      BY <1>20 DEF Touches, Facts, Reworded
    <2>2. Upgrade("flag").by = "dismiss_flags" /\ Upgrade("flag").old = "unreviewed" /\ Upgrade("flag").new = "dismissed"
      BY DEF Upgrade
    <2>3. t["flag"] = IF s["flag"] = "unreviewed" THEN "dismissed" ELSE s["flag"]
      BY <1>20, <2>1 DEF t, PatchOf, DismissFlags, Turn
    <2> QED
      BY <1>5, <1>7, <1>20, <2>1, <2>2, <2>3
  <1>21. CASE p = "reword_received"
    <2>1. "received" \in Facts /\ Touches(p) = {"received"}
      BY <1>21 DEF Touches, Facts, Reworded
    <2>2. Upgrade("received").by = "reword_received" /\ Upgrade("received").old = "old" /\ Upgrade("received").new = "now"
      BY DEF Upgrade
    <2>3. s["keys"] = "shared"
      BY <1>1, <1>6, <1>21, PatchNumbers DEF p
    <2>4. t["received"] = IF s["received"] = "old" THEN "now" ELSE s["received"]
      BY <1>21, <2>1, <2>3 DEF t, PatchOf, RewordReceived, Reword, Turn
    <2> QED
      BY <1>5, <1>7, <1>21, <2>1, <2>2, <2>4
  <1>22. CASE p = "reword_more_info"
    <2>1. "moreInfo" \in Facts /\ Touches(p) = {"moreInfo"}
      BY <1>22 DEF Touches, Facts, Reworded
    <2>2. Upgrade("moreInfo").by = "reword_more_info" /\ Upgrade("moreInfo").old = "old" /\ Upgrade("moreInfo").new = "now"
      BY DEF Upgrade
    <2>3. s["keys"] = "own"
      BY <1>1, <1>6, <1>22, PatchNumbers DEF p
    <2>4. t["moreInfo"] = IF s["moreInfo"] = "old" THEN "now" ELSE s["moreInfo"]
      BY <1>22, <2>1, <2>3 DEF t, PatchOf, RewordMoreInfo, Reword, Turn
    <2> QED
      BY <1>5, <1>7, <1>22, <2>1, <2>2, <2>4
  <1>23. CASE p = "reword_reopened"
    <2>1. "reopened" \in Facts /\ Touches(p) = {"reopened"}
      BY <1>23 DEF Touches, Facts, Reworded
    <2>2. Upgrade("reopened").by = "reword_reopened" /\ Upgrade("reopened").old = "old" /\ Upgrade("reopened").new = "now"
      BY DEF Upgrade
    <2>3. s["keys"] = "own"
      BY <1>1, <1>6, <1>23, PatchNumbers DEF p
    <2>4. t["reopened"] = IF s["reopened"] = "old" THEN "now" ELSE s["reopened"]
      BY <1>23, <2>1, <2>3 DEF t, PatchOf, RewordReopened, Reword, Turn
    <2> QED
      BY <1>5, <1>7, <1>23, <2>1, <2>2, <2>4
  <1>24. CASE p = "name_assignee"
    <2>1. "assigned" \in Facts /\ Touches(p) = {"assigned"}
      BY <1>24 DEF Touches, Facts, Reworded
    <2>2. Upgrade("assigned").by = "name_assignee" /\ Upgrade("assigned").old = "old" /\ Upgrade("assigned").new = "now"
      BY DEF Upgrade
    <2>3. s["keys"] = "own"
      BY <1>1, <1>6, <1>24, PatchNumbers DEF p
    <2>4. t["assigned"] = IF s["assigned"] = "old" THEN "now" ELSE s["assigned"]
      BY <1>24, <2>1, <2>3 DEF t, PatchOf, NameAssignee, Reword, Turn
    <2> QED
      BY <1>5, <1>7, <1>24, <2>1, <2>2, <2>4
  <1>25. CASE p = "ensure_channels"
    <2>1. Touches(p) = {"channel"} /\ Upgrade("channel").by = p
      BY <1>25 DEF Touches, Upgrade
    <2>2. t["channel"] = "now"
      BY <1>25 DEF t, PatchOf, EnsureChannels, Facts
    <2> QED
      BY <1>5, <1>8, <2>1, <2>2
  <1>26. CASE p = "unrouted_skips_approval"
    <2>1. Touches(p) = {"approval"} /\ Upgrade("approval").by = p
      BY <1>26 DEF Touches, Upgrade
    <2>2. t["approval"] = "now"
      BY <1>26 DEF t, PatchOf, SkipApproval, Facts
    <2> QED
      BY <1>5, <1>8, <2>1, <2>2
  <1>27. CASE p = "add_reopened"
    <2>1. "case" \in Facts /\ Touches(p) = {"workflow", "case"}
      BY <1>27 DEF Touches, Facts
    <2>2. Upgrade("case").by = "add_reopened" /\ Upgrade("case").old = "In Progress" /\ Upgrade("case").new = "Reopened"
      BY DEF Upgrade
    <2>3. t["case"] = IF s["case"] = "In Progress" THEN "Reopened" ELSE s["case"]
      BY <1>27, <2>1 DEF t, PatchOf, AddReopened, Turn
    <2>4. Right("workflow", t, n + 1, e)
      BY DEF Right, AlwaysRebuilt
    <2> QED
      BY <1>5, <1>7, <1>27, <2>1, <2>2, <2>3, <2>4
  <1>28. CASE p = "add_duplicate"
    <2>1. Touches(p) = {"workflow"}
      BY <1>28 DEF Touches
    <2>2. Right("workflow", t, n + 1, e)
      BY DEF Right, AlwaysRebuilt
    <2> QED
      BY <1>5, <2>1, <2>2
  <1>29. CASE p = "seed_system_messages"
    <2>1. \A f \in Reworded \cup {"system"} : t[f] = IF s[f] = "absent" THEN "now" ELSE s[f]
      BY <1>29 DEF t, PatchOf, SeedSystem, SeedMessages, SeedMissing, Facts
    <2>4. Touches(p) = Reworded \cup {"system"} /\ "system" \in Facts
      BY <1>29 DEF Touches, Facts
    <2>5. Upgrade("system").by = p /\ Upgrade("system").old = "absent" /\ Upgrade("system").new = "now"
      BY <1>29 DEF Upgrade
    <2>2. Right("system", t, n + 1, e)
      BY <1>7, <2>1, <2>4, <2>5
    <2>3. ASSUME NEW f \in Reworded PROVE Right(f, t, n + 1, e)
      <3>1. /\ f \in Facts \ (AlwaysRebuilt \cup RepairedOnce)
            /\ f \notin {"pendingTimer", "resolvedTimer", "default", "category", "source"}
        BY DEF Facts, Reworded, AlwaysRebuilt, RepairedOnce
      <3>2. Upgrade(f).by # p /\ Upgrade(f).by \in PatchNames \cup {"none"}
        <4>1. Upgrade(f).by # p
          BY <1>29 DEF Reworded, Upgrade
        <4> QED
          BY <3>1, <4>1, UpgradeValues
      <3>3. AsSetUp(n + 1)[f] = AsSetUp(n)[f]
        BY <1>1, <3>1, <3>2, HadNext, UsualIs DEF p
      <3>4. Right(f, s, n, e)
        BY <1>4, <3>1
      <3>5. t[f] = IF s[f] = "absent" THEN "now" ELSE s[f]
        BY <2>1
      <3> QED
        BY <3>1, <3>3, <3>4, <3>5 DEF Right, Usual
    <2> QED
      BY <1>5, <2>2, <2>3, <2>4
  <1>30. CASE p = "convert_pending_timers"
    <2>1. /\ t["pendingTimer"] = "none"
          /\ t["resolvedTimer"] = IF s["resolvedTimer"] = "none" /\ s["pendingTimer"] # "none"
                                 THEN s["pendingTimer"] ELSE s["resolvedTimer"]
      BY <1>30 DEF t, PatchOf, ConvertPending, Facts
    <2>2. Converted(n + 1) /\ ~Converted(n) /\ n = 6
      BY <1>1, <1>30, PatchNumbers DEF p, Converted
    <2>3. "pendingTimer" \in Facts /\ "resolvedTimer" \in Facts
      BY DEF Facts
    <2>4. Right("pendingTimer", t, n + 1, e)
      BY <2>1, <2>2 DEF Right
    <2>5. s["pendingTimer"] = IF "pendingTimer" \in DOMAIN e THEN "mine" ELSE "none"
      BY <1>4, <2>2, <2>3 DEF Right
    <2>6. AsSetUp(n)["resolvedTimer"] = "none" /\ AsSetUp(n + 1)["resolvedTimer"] = "none"
      <3>1. Upgrade("resolvedTimer").by = "add_timers" /\ Upgrade("resolvedTimer").old = "none"
        BY DEF Upgrade
      <3>2. ~Had("add_timers", n) /\ ~Had("add_timers", n + 1)
        BY <1>1, <2>2, PatchNumbers
      <3> QED
        BY <1>1, <2>3, <3>1, <3>2, UsualIs
    <2>7. IF "resolvedTimer" \in DOMAIN e THEN s["resolvedTimer"] = "mine"
          ELSE s["resolvedTimer"] = "none"
      BY <1>1, <1>4, <2>2, <2>3, <2>6 DEF Right, Usual, Reworded, AlwaysRebuilt, RepairedOnce
    <2>8. Right("resolvedTimer", t, n + 1, e)
      BY <2>1, <2>2, <2>5, <2>6, <2>7 DEF Right, Usual, AlwaysRebuilt, RepairedOnce
    <2> QED
      <3>1. Touches(p) = {"resolvedTimer", "pendingTimer"}
        BY <1>30 DEF Touches
      <3> QED
        BY <1>5, <2>4, <2>8, <3>1
  <1> QED
    BY <1>1, PatchIsNamed, <1>9, <1>10, <1>11, <1>12, <1>13, <1>14, <1>15, <1>16, <1>17, <1>18, <1>19, <1>20, <1>21, <1>22, <1>23, <1>24, <1>25, <1>26, <1>27, <1>28, <1>29, <1>30

LEMMA AtLatest ==
  ASSUME NEW f \in Facts
  PROVE  /\ Had(Upgrade(f).by, PatchCount) /\ Converted(PatchCount)
         /\ AsSetUp(PatchCount)[f] = Upgrade(f).new /\ Present[f] = Upgrade(f).new
         /\ f \in SeededFacts => Present[f] = "now"
  <1>1. 0 \in 0 .. PatchCount - 1 /\ PatchCount \in 0 .. PatchCount
    BY PatchListIs
  <1>2. Had(Upgrade(f).by, PatchCount) /\ Converted(PatchCount)
    BY <1>1, UpgradeValues, HadNext, PatchesListed DEF Converted
  <1> QED
    BY <1>1, <1>2, UsualIs, UpgradeValues DEF Present

LEMMA SeededRight ==
  ASSUME NEW s, NEW t, NEW e, NEW f \in Facts, Right(f, s, PatchCount, e),
         t[f] = s[f] \/ (f \in SeededFacts /\ f # "source" /\ t[f] = IF s[f] = "absent" THEN "now" ELSE s[f]),
         s["category"] = "twice" => t["category"] = "twice"
  PROVE  Right(f, t, PatchCount, e)
  <1>1. f \in SeededFacts => AsSetUp(PatchCount)[f] = "now"
    BY AtLatest
  <1>2. s[f] \in Usual(f, PatchCount) => t[f] \in Usual(f, PatchCount)
    BY <1>1 DEF Usual
  <1>3. f = "pendingTimer" => f \notin SeededFacts
    BY DEF SeededFacts, Reworded
  <1> QED
    BY <1>2, <1>3 DEF Right

\* The records seeded before the custom field on Notification.
Early == {"category", "default", "channel", "workflow", "level", "approval", "triage", "headRole"}

LEMMA EarlyIs ==
  /\ SeededFacts \ SeededLate = Early
  /\ Early \cup SeededLate = SeededFacts
  /\ Early \cup SeededLate \subseteq Facts
  /\ "category" \in Early /\ "default" \in Early /\ "source" \notin Early
  BY DEF SeededFacts, SeededLate, Early, Reworded, Facts

LEMMA EarlySeedsRight ==
  ASSUME NEW s \in [Facts -> Values], EditsTyped(PatchCount, edited), AllRight(s, PatchCount, edited)
  PROVE  LET t == SeedsBefore(s)
         IN  /\ t \in [Facts -> Values] /\ AllRight(t, PatchCount, edited)
             /\ \A f \in Early \cup {"source"} : t[f] # "absent"
             /\ t["workflow"] = "now"
             /\ Connection = "good" /\ "source" \notin DOMAIN edited => t["source"] = "now"
             /\ t["category"] # "mine" \/ "category" \notin DOMAIN edited
                  \/ Had("convert_codes", edited["category"])
  <1> DEFINE again == /\ s["category"] = "mine" /\ "category" \in DOMAIN edited
                      /\ ~Had("convert_codes", edited["category"])
             m == SeedMissing(s, SeededFacts \ SeededLate)
             c == SeedCategories(m)
             o == SeedSources(c)
             t == SeedsBefore(s)
  <1>1. /\ m \in [Facts -> Values]
        /\ \A f \in Facts : m[f] = IF f \in Early /\ s[f] = "absent" THEN "now" ELSE s[f]
    BY EarlyIs DEF SeedMissing, Values
  <1>2. /\ "category" \in Facts /\ "default" \in Facts /\ "source" \in Facts /\ "workflow" \in Facts
        /\ "workflow" \in Early
    BY DEF Facts, Early
  <1>3. m["category"] = "mine" <=> s["category"] = "mine"
    BY <1>1, <1>2
  <1> HIDE DEF m
  <1>4. /\ c \in [Facts -> Values]
        /\ c["category"] = IF again THEN "twice" ELSE m["category"]
        /\ c["default"] = IF again THEN "now" ELSE m["default"]
        /\ \A f \in Facts \ {"category", "default"} : c[f] = m[f]
    BY <1>1, <1>2, <1>3 DEF SeedCategories, Values
  <1> HIDE DEF c
  <1>5. /\ o \in [Facts -> Values]
        /\ o["source"] = IF c["source"] = "absent" \/ (c["source"] = "blank" /\ Connection = "good")
                         THEN IF Connection = "good" THEN "now" ELSE "blank" ELSE c["source"]
        /\ \A f \in Facts \ {"source"} : o[f] = c[f]
    BY <1>2, <1>4 DEF SeedSources, Values
  <1> HIDE DEF o
  <1>6. /\ t \in [Facts -> Values] /\ t["workflow"] = "now"
        /\ \A f \in Facts \ {"workflow"} : t[f] = o[f]
    BY <1>2, <1>5 DEF o, c, m, SeedsBefore, SeedWorkflow, Values
  <1> HIDE DEF t
  <1>7. \A f \in Facts \ {"workflow", "category", "default", "source"} :
          t[f] = IF f \in Early /\ s[f] = "absent" THEN "now" ELSE s[f]
    BY <1>1, <1>4, <1>5, <1>6
  <1>8. /\ t["category"] = IF again THEN "twice"
                           ELSE IF s["category"] = "absent" THEN "now" ELSE s["category"]
        /\ ~again => t["default"] = IF s["default"] = "absent" THEN "now" ELSE s["default"]
        /\ t["default"] # "absent"
    BY <1>1, <1>2, <1>4, <1>5, <1>6, EarlyIs
  <1>9. t["source"] = IF s["source"] = "absent" \/ (s["source"] = "blank" /\ Connection = "good")
                      THEN IF Connection = "good" THEN "now" ELSE "blank" ELSE s["source"]
    BY <1>1, <1>2, <1>4, <1>5, <1>6, EarlyIs
  <1>10. s["category"] = "twice" => t["category"] = "twice"
    BY <1>8
  <1>11. \A f \in Facts : Right(f, s, PatchCount, edited)
    BY DEF AllRight
  <1>12. ASSUME NEW f \in Facts PROVE Right(f, t, PatchCount, edited)
    <2>1. CASE f = "workflow"
      BY <2>1 DEF Right, AlwaysRebuilt
    <2>2. CASE f = "category"
      <3>1. CASE again
        BY <1>8, <2>2, <3>1 DEF Right, AlwaysRebuilt
      <3>2. CASE ~again
        BY <1>8, <1>10, <1>11, <2>2, <3>2, SeededRight, EarlyIs
      <3> QED
        BY <3>1, <3>2
    <2>3. CASE f = "default"
      <3>1. CASE again
        BY <1>8, <2>3, <3>1 DEF Right
      <3>2. CASE ~again
        BY <1>8, <1>10, <1>11, <2>3, <3>2, SeededRight, EarlyIs
      <3> QED
        BY <3>1, <3>2
    <2>4. CASE f = "source"
      <3>1. Right("source", s, PatchCount, edited) /\ AsSetUp(PatchCount)["source"] = "now"
        BY <1>2, <1>11, AtLatest, EarlyIs DEF SeededFacts
      <3>2. CASE "source" \in DOMAIN edited
        BY <1>9, <2>4, <3>1, <3>2 DEF Right, AlwaysRebuilt, RepairedOnce
      <3>3. CASE "source" \notin DOMAIN edited
        BY <1>9, <2>4, <3>1, <3>3 DEF Right, AlwaysRebuilt, Usual, Reworded
      <3> QED
        BY <3>2, <3>3
    <2>5. CASE f \notin {"workflow", "category", "default", "source"}
      BY <1>7, <1>10, <1>11, <2>5, SeededRight, EarlyIs
    <2> QED
      BY <2>1, <2>2, <2>3, <2>4, <2>5
  <1>13. \A f \in Early \cup {"source"} : t[f] # "absent"
    BY <1>6, <1>7, <1>8, <1>9, EarlyIs
  <1>14. Connection = "good" /\ "source" \notin DOMAIN edited => t["source"] = "now"
    <2>1. Right("source", s, PatchCount, edited) /\ AsSetUp(PatchCount)["source"] = "now"
      BY <1>2, <1>11, AtLatest, EarlyIs DEF SeededFacts
    <2>2. "source" \notin DOMAIN edited => s["source"] \in {"absent", "blank", "now"}
      BY <2>1 DEF Right, AlwaysRebuilt, Usual, Reworded
    <2> QED
      BY <1>9, <2>2
  <1> QED
    BY <1>6, <1>8, <1>12, <1>13, <1>14 DEF AllRight, t

LEMMA LateSeedsRight ==
  ASSUME NEW s \in [Facts -> Values], NEW e, AllRight(s, PatchCount, e)
  PROVE  LET t == SeedsAfter(s)
         IN  /\ t \in [Facts -> Values] /\ AllRight(t, PatchCount, e)
             /\ t["region"] = "now"
             /\ \A f \in Facts \ SeededLate : t[f] = s[f]
             /\ t["source"] = s["source"]
             /\ \A f \in SeededLate \ {"source"} : t[f] # "absent"
  <1> DEFINE t == SeedsAfter(s)
  <1>1. /\ "region" \in Facts /\ "resolvedTimer" \in Facts /\ "category" \in Facts
        /\ "category" \notin SeededLate /\ SeededLate = Reworded \cup {"system", "region", "source", "resolvedTimer"}
        /\ SeededLate \subseteq Facts /\ SeededLate \subseteq SeededFacts
        /\ {"region", "source", "resolvedTimer"} \cap (Reworded \cup {"system"}) = {}
    BY DEF Facts, SeededLate, Reworded, SeededFacts
  <1>2. /\ t \in [Facts -> Values] /\ t["region"] = "now"
        /\ \A f \in Reworded \cup {"system", "resolvedTimer"} :
             t[f] = IF s[f] = "absent" THEN "now" ELSE s[f]
        /\ \A f \in Facts \ (Reworded \cup {"system", "resolvedTimer", "region"}) : t[f] = s[f]
    <2> DEFINE m == SeedMessages(s)
               g == SeedRegions(m)
    <2>1. /\ m \in [Facts -> Values]
          /\ \A f \in Facts : m[f] = IF f \in Reworded \cup {"system"} /\ s[f] = "absent" THEN "now" ELSE s[f]
      BY DEF SeedMessages, SeedMissing, Values
    <2> HIDE DEF m
    <2>2. g \in [Facts -> Values] /\ g["region"] = "now" /\ \A f \in Facts \ {"region"} : g[f] = m[f]
      BY <1>1, <2>1 DEF SeedRegions, Values
    <2>3. t = Turn(g, "resolvedTimer", {"absent"}, "now")
      BY DEF m, SeedsAfter
    <2> HIDE DEF g, t
    <2>4. /\ t \in [Facts -> Values]
          /\ t["resolvedTimer"] = IF g["resolvedTimer"] = "absent" THEN "now" ELSE g["resolvedTimer"]
          /\ \A f \in Facts \ {"resolvedTimer"} : t[f] = g[f]
      BY <1>1, <2>2, <2>3 DEF Turn, Values
    <2>5. Reworded \cup {"system"} \subseteq Facts
      BY <1>1
    <2> QED
      BY <1>1, <2>1, <2>2, <2>4, <2>5
  <1> HIDE DEF t
  <1>3. t["category"] = s["category"]
    BY <1>1, <1>2
  <1>4. ASSUME NEW f \in Facts PROVE Right(f, t, PatchCount, e)
    <2>1. CASE f = "region"
      BY <2>1 DEF Right, AlwaysRebuilt
    <2>2. CASE f # "region"
      <3>1. t[f] = s[f] \/ (f \in SeededFacts /\ f # "source" /\ t[f] = IF s[f] = "absent" THEN "now" ELSE s[f])
        BY <1>1, <1>2, <2>2
      <3>2. Right(f, s, PatchCount, e)
        BY DEF AllRight
      <3> QED
        BY <1>3, <3>1, <3>2, SeededRight
    <2> QED
      BY <2>1, <2>2
  <1>5. /\ \A f \in Facts \ SeededLate : t[f] = s[f]
        /\ t["source"] = s["source"]
        /\ \A f \in SeededLate \ {"source"} : t[f] # "absent"
    BY <1>1, <1>2
  <1> QED
    BY <1>2, <1>4, <1>5 DEF AllRight, t

\* A migration that has ended left nothing unseeded and rebuilt what it rebuilds.
Settled ==
  stage = "migrated" =>
    /\ \A f \in Facts : f \in SeededFacts => site[f] # "absent"
    /\ \A f \in AlwaysRebuilt : site[f] = "now"
    /\ Connection = "good" /\ "source" \notin DOMAIN edited => site["source"] = "now"
    /\ site["category"] # "mine" \/ "category" \notin DOMAIN edited
         \/ Had("convert_codes", edited["category"])

SeedingInv ==
  /\ SeedingTypeOK
  /\ EditsTyped(had, edited)
  /\ stage \in {"seeding", "migrated"} => had = PatchCount
  /\ AllRight(site, had, edited)
  /\ Settled

LEMMA SeedingStart ==
  ASSUME SeedingInit
  PROVE  SeedingInv
  <1>1. /\ had \in 0 .. PatchCount /\ edited = <<>> /\ DOMAIN edited = {} /\ seedCrashes = 0
        /\ stage \in {"serving", "seeding"} /\ (stage = "seeding" => had = PatchCount)
    <2>1. PatchCount \in Nat /\ FirstReleases \subseteq 0 .. PatchCount
      BY PatchListIs, EditableAssumption
    <2>2. \/ had \in FirstReleases /\ stage = "serving"
          \/ had = PatchCount /\ stage = "seeding"
      BY DEF SeedingInit
    <2>3. edited = <<>> /\ seedCrashes = 0
      BY DEF SeedingInit
    <2>4. DOMAIN edited = {}
      BY <2>3
    <2>5. PatchCount \in 0 .. PatchCount
      BY <2>1
    <2>6. had \in 0 .. PatchCount
      BY <2>1, <2>2, <2>5, Zenon
    <2>7. stage \in {"serving", "seeding"} /\ (stage = "seeding" => had = PatchCount)
      BY <2>2
    <2> QED
      BY <2>3, <2>4, <2>6, <2>7
  <1>2. AsSetUp(had) \in [Facts -> Values]
    BY UpgradeValues DEF AsSetUp
  <1>3. \A f \in Facts : AsSetUp(had)[f] \in Usual(f, had)
    BY DEF Usual
  <1>4. AsSetUp(had)["pendingTimer"] = "none" /\ "pendingTimer" \in Facts /\ "source" \in Facts
    <2>1. "pendingTimer" \in Facts /\ "source" \in Facts
      BY DEF Facts
    <2>2. Upgrade("pendingTimer").old = "none" /\ Upgrade("pendingTimer").new = "none"
      BY DEF Upgrade
    <2> QED
      BY <1>1, <2>1, <2>2, UsualIs
  <1>5. /\ site \in [Facts -> Values]
        /\ \A f \in Facts : site[f] \in Usual(f, had) \cup IF f = "source" THEN {"blank", "now"} ELSE {}
        /\ site["pendingTimer"] = "none"
    <2>1. CASE had \in 0 .. PatchCount /\ site \in BornAt(had)
      <3>1. PICK v \in {"blank", "now"} : site = [AsSetUp(had) EXCEPT !["source"] = v]
        BY <2>1 DEF BornAt
      <3>2. "blank" \in Values /\ "now" \in Values
        BY DEF Values
      <3> QED
        BY <1>2, <1>3, <1>4, <3>1, <3>2
    <2>2. CASE had = PatchCount /\ site = Empty
      <3>1. "pendingTimer" \notin SeededFacts /\ "absent" \in Values
        BY DEF SeededFacts, Reworded, Values
      <3>2. site = [f \in Facts |-> IF f \in SeededFacts THEN "absent" ELSE AsSetUp(had)[f]]
        BY <2>2 DEF Empty, Present
      <3> QED
        BY <1>2, <1>3, <1>4, <2>2, <3>1, <3>2 DEF Usual
    <2> QED
      BY <1>1, <2>1, <2>2 DEF SeedingInit
  <1>6. AllRight(site, had, edited)
    BY <1>1, <1>5 DEF AllRight, Right, RepairedOnce, AlwaysRebuilt
  <1>7. EditsTyped(had, edited)
    BY <1>1 DEF EditsTyped
  <1> QED
    BY <1>1, <1>5, <1>6, <1>7, EditableAssumption DEF SeedingInv, SeedingTypeOK, Settled

LEMMA EditKeepsRight ==
  ASSUME SeedingInv, NEW f \in Editable, Edit(f)
  PROVE  SeedingInv'
  <1>1. /\ site \in [Facts -> Values] /\ had \in 0 .. PatchCount /\ "mine" \in Values
        /\ f \in Facts /\ f \notin DOMAIN edited /\ PatchCount = 22
    BY EditableAssumption, PatchListIs DEF SeedingInv, SeedingTypeOK, Edit, Values
  <1>2. /\ site' = [site EXCEPT ![f] = "mine"] /\ had' = had /\ seedCrashes' = seedCrashes
        /\ DOMAIN edited' = DOMAIN edited \cup {f}
        /\ edited'[f] = had /\ \A g \in DOMAIN edited : edited'[g] = edited[g]
        /\ stage' = "serving"
    BY <1>1 DEF Edit
  <1>3. /\ site' \in [Facts -> Values] /\ site'[f] = "mine"
        /\ \A g \in Facts \ {f} : site'[g] = site[g]
    BY <1>1, <1>2
  <1>4. f = "pendingTimer" => ~Converted(had)
    BY DEF Edit, Converted
  <1>5. EditsTyped(had', edited')
    <2>1. \A g \in DOMAIN edited' : edited'[g] \in 0 .. had
      BY <1>1, <1>2 DEF SeedingInv, EditsTyped
    <2> QED
      BY <1>2, <1>4, <2>1 DEF SeedingInv, EditsTyped
  <1>6. ASSUME NEW g \in Facts PROVE Right(g, site', had', edited')
    <2>1. CASE g = f
      BY <1>1, <1>2, <1>3, <1>4, <2>1 DEF Right
    <2>2. CASE g # f
      <3>1. Right(g, site, had, edited)
        BY DEF SeedingInv, AllRight
      <3>2. site'[g] = site[g] /\ (g \in DOMAIN edited' <=> g \in DOMAIN edited)
            /\ (g \in DOMAIN edited => edited'[g] = edited[g])
        BY <1>2, <1>3, <2>2
      <3>3. site["category"] = "twice" => site'["category"] = "twice"
        <4>1. CASE f = "category"
          <5>1. Right("category", site, had, edited) /\ "category" \in Facts
            BY <1>1, <4>1 DEF SeedingInv, AllRight
          <5>2. site["category"] \in Usual("category", had)
            BY <1>1, <4>1, <5>1 DEF Right, AlwaysRebuilt
          <5>3. AsSetUp(had)["category"] # "twice"
            BY <1>1, <5>1, UsualIs, UpgradeValues
          <5> QED
            BY <5>2, <5>3 DEF Usual
        <4>2. CASE f # "category"
          BY <1>3, <4>2 DEF Facts
        <4> QED
          BY <4>1, <4>2
      <3>4. CASE g = "resolvedTimer" /\ f = "pendingTimer"
        BY <1>2, <1>4, <3>1, <3>2, <3>4 DEF Right
      <3>5. CASE ~(g = "resolvedTimer" /\ f = "pendingTimer")
        BY <1>2, <3>1, <3>2, <3>3, <3>5 DEF Right
      <3> QED
        BY <3>4, <3>5
    <2> QED
      BY <2>1, <2>2
  <1>7. SeedingTypeOK'
    <2>1. \A g \in DOMAIN edited' : edited'[g] \in 0 .. PatchCount
      BY <1>1, <1>2 DEF SeedingInv, SeedingTypeOK
    <2> QED
      BY <1>1, <1>2, <1>3, <2>1 DEF SeedingInv, SeedingTypeOK
  <1> QED
    BY <1>2, <1>5, <1>6, <1>7 DEF SeedingInv, AllRight, Settled

LEMMA SeedingStep ==
  ASSUME SeedingInv, [SeedingNext]_seedingVars
  PROVE  SeedingInv'
  <1>0. /\ site \in [Facts -> Values] /\ had \in 0 .. PatchCount /\ PatchCount = 22
        /\ EditsTyped(had, edited) /\ AllRight(site, had, edited) /\ SeedingTypeOK
    BY PatchListIs DEF SeedingInv, SeedingTypeOK
  <1>1. ASSUME NEW f \in Editable, Edit(f) PROVE SeedingInv'
    BY <1>1, EditKeepsRight
  <1>2. ASSUME NEW f \in Editable, RemoveSeeded(f) PROVE SeedingInv'
    <2>1. /\ f \in Reworded \cup {"channel"} /\ f \notin DOMAIN edited /\ f \in Facts
          /\ site' = [site EXCEPT ![f] = "absent"] /\ stage' = "serving"
          /\ had' = had /\ edited' = edited /\ seedCrashes' = seedCrashes
      BY <1>2, EditableAssumption DEF RemoveSeeded
    <2>2. /\ site' \in [Facts -> Values] /\ site'[f] = "absent"
          /\ \A g \in Facts \ {f} : site'[g] = site[g]
      BY <1>0, <2>1 DEF Values
    <2>3. site'["category"] = site["category"]
      BY <2>1, <2>2 DEF Facts, Reworded
    <2>4. ASSUME NEW g \in Facts PROVE Right(g, site', had, edited)
      <3>1. CASE g = f
        BY <2>1, <2>2, <3>1 DEF Right, Usual, Reworded
      <3>2. CASE g # f
        BY <1>0, <2>2, <2>3, <3>2 DEF AllRight, Right
      <3> QED
        BY <3>1, <3>2
    <2> QED
      BY <1>0, <2>1, <2>2, <2>4 DEF SeedingInv, SeedingTypeOK, AllRight, Settled, EditsTyped
  <1>3. CASE StartMigration
    BY <1>0, <1>3 DEF StartMigration, SeedingInv, SeedingTypeOK, AllRight, Right, Settled, EditsTyped
  <1>4. CASE RunPatch
    <2>1. /\ had \in 0 .. PatchCount - 1 /\ site' = PatchOf(PatchList[had + 1], site)
          /\ had' = had + 1 /\ UNCHANGED <<stage, edited, seedCrashes>> /\ stage = "patching"
      BY <1>0, <1>4 DEF RunPatch
    <2>2. AllRight(site', had', edited')
      BY <1>0, <2>1, PatchKeepsRight
    <2>3. site' \in [Facts -> Values] /\ had' \in 0 .. PatchCount
      <3>1. PatchList[had + 1] \in PatchNames
        BY <1>0, <2>1 DEF PatchNames
      <3> QED
        BY <1>0, <2>1, <3>1, PatchTyped
    <2>4. EditsTyped(had', edited')
      BY <1>0, <2>1 DEF EditsTyped
    <2> QED
      BY <1>0, <2>1, <2>2, <2>3, <2>4 DEF SeedingInv, SeedingTypeOK, Settled
  <1>5. CASE PatchesDone
    BY <1>0, <1>5 DEF PatchesDone, SeedingInv, SeedingTypeOK, AllRight, Right, Settled, EditsTyped
  <1>6. CASE SeedAll
    <2> DEFINE b == SeedsBefore(site)
               t == SeedsAfter(b)
    <2>1. /\ had = PatchCount /\ site' = t /\ stage' = "migrated"
          /\ had' = had /\ edited' = edited /\ seedCrashes' = seedCrashes
      BY <1>6 DEF SeedAll, SeedingInv
    <2>2. /\ b \in [Facts -> Values] /\ AllRight(b, PatchCount, edited)
          /\ \A f \in Early \cup {"source"} : b[f] # "absent"
          /\ b["workflow"] = "now"
          /\ Connection = "good" /\ "source" \notin DOMAIN edited => b["source"] = "now"
          /\ b["category"] # "mine" \/ "category" \notin DOMAIN edited
               \/ Had("convert_codes", edited["category"])
      BY <1>0, <2>1, EarlySeedsRight
    <2> HIDE DEF b
    <2>3. /\ t \in [Facts -> Values] /\ AllRight(t, PatchCount, edited)
          /\ t["region"] = "now"
          /\ \A f \in Facts \ SeededLate : t[f] = b[f]
          /\ t["source"] = b["source"]
          /\ \A f \in SeededLate \ {"source"} : t[f] # "absent"
      BY <2>2, LateSeedsRight
    <2> HIDE DEF t
    <2>4. /\ "workflow" \in Facts \ SeededLate /\ "category" \in Facts \ SeededLate
          /\ Early \subseteq Facts \ SeededLate
      BY DEF Facts, SeededLate, Reworded, Early
    <2>5. \A f \in SeededFacts : t[f] # "absent"
      BY <2>2, <2>3, <2>4, EarlyIs
    <2>6. Settled'
      BY <2>1, <2>2, <2>3, <2>4, <2>5 DEF Settled, AlwaysRebuilt
    <2> QED
      BY <1>0, <2>1, <2>3, <2>6 DEF SeedingInv, SeedingTypeOK, EditsTyped
  <1>7. CASE MigrationStops
    <2>1. /\ stage' = "serving" /\ had' = had /\ edited' = edited
          /\ seedCrashes' = seedCrashes + 1 /\ seedCrashes < MaxCrashes
          /\ site' = site \/ (stage = "seeding" /\ site' = SeedsBefore(site))
      BY <1>7 DEF MigrationStops
    <2>2. site' \in [Facts -> Values] /\ AllRight(site', had, edited)
      <3>1. CASE stage = "seeding" /\ site' = SeedsBefore(site)
        BY <1>0, <3>1, EarlySeedsRight DEF SeedingInv
      <3> QED
        BY <1>0, <2>1, <3>1
    <2>3. seedCrashes' \in 0 .. MaxCrashes
      BY <1>0, <2>1, EditableAssumption DEF SeedingTypeOK
    <2> QED
      BY <1>0, <2>1, <2>2, <2>3 DEF SeedingInv, SeedingTypeOK, Settled, EditsTyped
  <1>8. CASE UNCHANGED seedingVars
    BY <1>0, <1>8 DEF seedingVars, SeedingInv, SeedingTypeOK, AllRight, Right, Settled, EditsTyped
  <1> QED
    BY <1>1, <1>2, <1>3, <1>4, <1>5, <1>6, <1>7, <1>8 DEF SeedingNext

LEMMA SettledKeepsEdits ==
  ASSUME SeedingInv
  PROVE  SeedingKeepsEdits
  <1>1. SUFFICES ASSUME stage = "migrated" PROVE
          /\ site["pendingTimer"] = "none"
          /\ site["category"] = "twice" <=> SeededTwice
          /\ \A f \in Facts \ {"pendingTimer"} :
               ~(SeededTwice /\ f \in {"category", "default"}) =>
                 /\ Chosen(f) => site[f] = "mine"
                 /\ ~Chosen(f) /\ (f = "source" => Connection = "good") => site[f] = Present[f]
    BY DEF SeedingKeepsEdits
  <1>2. /\ had = PatchCount /\ PatchCount \in 0 .. PatchCount
        /\ \A f \in Facts : Right(f, site, PatchCount, edited)
        /\ EditsTyped(PatchCount, edited)
    BY <1>1, PatchListIs DEF SeedingInv, AllRight
  <1>3. /\ \A f \in Facts : f \in SeededFacts => site[f] # "absent"
        /\ \A f \in AlwaysRebuilt : site[f] = "now"
        /\ Connection = "good" /\ "source" \notin DOMAIN edited => site["source"] = "now"
        /\ site["category"] # "mine" \/ "category" \notin DOMAIN edited
             \/ Had("convert_codes", edited["category"])
    BY <1>1 DEF SeedingInv, Settled
  <1>4. /\ "pendingTimer" \in Facts /\ "category" \in Facts /\ "source" \in Facts
        /\ AlwaysRebuilt \subseteq SeededFacts /\ "category" \notin AlwaysRebuilt \cup RepairedOnce
        /\ "pendingTimer" \notin AlwaysRebuilt \cup RepairedOnce /\ Reworded \subseteq SeededFacts
        /\ "channel" \in SeededFacts
    BY DEF Facts, AlwaysRebuilt, RepairedOnce, SeededFacts, Reworded
  <1>5. site["pendingTimer"] = "none"
    BY <1>2, <1>4, AtLatest DEF Right
  <1>6. \A f \in Facts : Present[f] # "twice" /\ Present[f] # "mine" /\ AsSetUp(PatchCount)[f] = Present[f]
    BY AtLatest, UpgradeValues
  <1>7. site["category"] = "twice" <=> SeededTwice
    <2>1. Stands("category") <=> "category" \in DOMAIN edited
      BY <1>4 DEF Stands
    <2>2. CASE "category" \in DOMAIN edited
      <3>1. site["category"] = "mine" \/ (site["category"] = "twice" /\ ~Had("convert_codes", edited["category"]))
        BY <1>2, <1>4, <2>2 DEF Right
      <3> QED
        BY <1>3, <2>1, <2>2, <3>1 DEF SeededTwice
    <2>3. CASE "category" \notin DOMAIN edited
      <3>1. site["category"] \in Usual("category", PatchCount)
        BY <1>2, <1>4, <2>3 DEF Right
      <3> QED
        BY <1>4, <1>6, <2>1, <2>3, <3>1 DEF SeededTwice, Usual, Reworded
    <2> QED
      BY <2>2, <2>3
  <1>8. ASSUME NEW f \in Facts \ {"pendingTimer"}, ~(SeededTwice /\ f \in {"category", "default"})
        PROVE  /\ Chosen(f) => site[f] = "mine"
               /\ ~Chosen(f) /\ (f = "source" => Connection = "good") => site[f] = Present[f]
    <2>1. /\ Right(f, site, PatchCount, edited) /\ Converted(PatchCount)
          /\ Had(Upgrade(f).by, PatchCount) /\ (f \in SeededFacts => Present[f] = "now")
      BY <1>2, AtLatest
    <2>2. site["category"] = "twice" => f # "default"
      BY <1>7, <1>8
    <2>3. f = "category" => site[f] # "twice"
      BY <1>7, <1>8
    <2>4. Stands("pendingTimer") <=> "pendingTimer" \in DOMAIN edited
      BY <1>4 DEF Stands
    <2>5. site[f] \in Usual(f, PatchCount) => site[f] = Present[f]
      BY <1>3, <1>4, <1>6, <2>1 DEF Usual
    <2>6. CASE f \in AlwaysRebuilt
      <3>1. ~Chosen(f) /\ site[f] = "now" /\ Present[f] = "now"
        BY <1>3, <1>4, <2>1, <2>6 DEF Chosen, Stands, AlwaysRebuilt
      <3> QED
        BY <1>6, <3>1
    <2>7. CASE f = "resolvedTimer" /\ "pendingTimer" \in DOMAIN edited
      BY <1>6, <2>1, <2>4, <2>7 DEF Right, Chosen
    <2>8. CASE f \notin AlwaysRebuilt /\ ~(f = "resolvedTimer" /\ "pendingTimer" \in DOMAIN edited)
      <3>1. Chosen(f) <=> /\ f \in DOMAIN edited
                          /\ f \in RepairedOnce => Had(Upgrade(f).by, edited[f])
        BY <2>4, <2>8 DEF Chosen, Stands
      <3>2. CASE f \notin DOMAIN edited
        <4>1. CASE f = "source"
          BY <1>3, <1>4, <2>1, <3>1, <3>2, <4>1 DEF SeededFacts
        <4>2. CASE f # "source"
          BY <2>1, <2>2, <2>5, <2>8, <3>1, <3>2, <4>2 DEF Right
        <4> QED
          BY <4>1, <4>2
      <3>3. CASE f \in DOMAIN edited /\ f \in RepairedOnce
        <4>1. f \in SeededFacts /\ f \notin {"category", "default", "resolvedTimer", "pendingTimer"}
          BY <3>3 DEF RepairedOnce, SeededFacts
        <4> QED
          BY <2>1, <2>8, <3>1, <3>3, <4>1 DEF Right
      <3>4. CASE f \in DOMAIN edited /\ f \notin RepairedOnce
        BY <2>1, <2>2, <2>3, <2>8, <3>1, <3>4 DEF Right
      <3> QED
        BY <3>2, <3>3, <3>4
    <2> QED
      BY <2>6, <2>7, <2>8
  <1> QED
    BY <1>5, <1>7, <1>8

\* From whatever release a site began, with any edits between any number of
\* migrations and crashes, what people chose survives the patches and the seeds,
\* and what they did not choose reads as on a new site (patches.txt, seed_all).
THEOREM EditsSurvive == SeedingSpec => []SeedingTypeOK /\ []SeedingKeepsEdits
  <1>1. SeedingInv => SeedingTypeOK /\ SeedingKeepsEdits
    BY SettledKeepsEdits DEF SeedingInv
  <1> QED
    BY <1>1, SeedingStart, SeedingStep, PTL DEF SeedingSpec

-----------------------------------------------------------------------------
(***************************************************************************)
(* Writers of one row.  A copy with the stamp of the row has its edits and *)
(* its end, since only a save changes those; a copy not outrun is the row. *)
(***************************************************************************)
Copied(w) ==
  /\ copies[w].modified <= stored.modified
  /\ copies[w].modified = stored.modified =>
       copies[w].edits = stored.edits /\ copies[w].final = stored.final
  /\ w \notin outrun => copies[w] = stored

RowInv == RowTypeOK /\ \A w \in RowWriters : Keeps(w) => Copied(w)

\* A write either leaves stamp, edits and end, or brings a new stamp.
Stamps(written) ==
  \/ written.modified = stored.modified + 1
  \/ /\ written.modified = stored.modified
     /\ written.edits = stored.edits /\ written.final = stored.final

LEMMA CopyIsRow ==
  ASSUME RowInv, NEW w \in RowWriters, Keeps(w)
  PROVE  copies[w] \in CaseRows
  BY DEF RowInv, RowTypeOK, Keeps

\* A write that lands leaves whoever else holds a copy outrun.
LEMMA LandsKeeps ==
  ASSUME RowInv, NEW w \in RowWriters, NEW written \in CaseRows, Lands(w, written),
         Stamps(written)
  PROVE  RowInv'
  <1>1. stored' = written /\ copies' = [copies EXCEPT ![w] = NoCopy]
        /\ outrun' = (outrun \cup {v \in RowWriters : Keeps(v)}) \ {w}
    BY DEF Lands
  <1>2. RowTypeOK'
    BY <1>1 DEF RowInv, RowTypeOK
  <1>3. ASSUME NEW v \in RowWriters, Keeps(v)' PROVE Copied(v)'
    <2>1. v # w /\ copies'[v] = copies[v] /\ Keeps(v)
      BY <1>1, <1>3 DEF Keeps, RowInv, RowTypeOK
    <2>2. v \in outrun'
      BY <1>1, <2>1
    <2>3. /\ copies[v].modified \in Nat /\ stored.modified \in Nat
          /\ copies[v].modified <= stored.modified
          /\ copies[v].modified = stored.modified =>
               copies[v].edits = stored.edits /\ copies[v].final = stored.final
      BY <2>1, CopyIsRow DEF RowInv, RowTypeOK, Copied, CaseRows
    <2>4. /\ copies[v].modified <= written.modified
          /\ copies[v].modified = written.modified =>
               copies[v].edits = written.edits /\ copies[v].final = written.final
      BY <2>3 DEF Stamps
    <2> QED
      BY <1>1, <2>1, <2>2, <2>4 DEF Copied
  <1> QED
    BY <1>2, <1>3 DEF RowInv

LEMMA ReadsKeeps ==
  ASSUME RowInv, NEW w \in RowWriters, ReadsRow(w) \/ Leaves(w)
  PROVE  RowInv' /\ UNCHANGED stored
  <1>1. /\ stored' = stored /\ outrun' \subseteq outrun
        /\ \A v \in RowWriters \ {w} : v \in outrun' <=> v \in outrun
        /\ \/ copies' = [copies EXCEPT ![w] = stored]
           \/ copies' = [copies EXCEPT ![w] = NoCopy]
    <2>1. CASE ReadsRow(w)
      BY <2>1 DEF ReadsRow
    <2>2. CASE Leaves(w)
      BY <2>2 DEF Leaves
    <2> QED
      BY <2>1, <2>2
  <1>2. RowTypeOK'
    <2>1. stored \in CaseRows /\ copies \in [RowWriters -> CaseRows \cup {NoCopy}]
          /\ outrun \subseteq RowWriters
      BY DEF RowInv, RowTypeOK
    <2>2. copies' \in [RowWriters -> CaseRows \cup {NoCopy}]
      BY <1>1, <2>1
    <2> QED
      BY <1>1, <2>1, <2>2 DEF RowTypeOK
  <1>3. ASSUME NEW v \in RowWriters, Keeps(v)' PROVE Copied(v)'
    <2>1. stored.modified \in Nat /\ w \in DOMAIN copies /\ v \in DOMAIN copies
          /\ copies \in [RowWriters -> CaseRows \cup {NoCopy}]
      BY DEF RowInv, RowTypeOK, CaseRows
    <2>2. CASE v = w
      <3>1. copies'[v] = stored
        <4>1. copies'[v] # NoCopy
          BY <1>3 DEF Keeps
        <4> QED
          BY <1>1, <2>1, <2>2, <4>1
      <3> QED
        BY <1>1, <2>1, <3>1 DEF Copied
    <2>3. CASE v # w
      <3>1. copies'[v] = copies[v] /\ Keeps(v)
        BY <1>1, <1>3, <2>1, <2>3 DEF Keeps
      <3>2. Copied(v)
        BY <3>1 DEF RowInv
      <3> QED
        BY <1>1, <2>3, <3>1, <3>2 DEF Copied
    <2> QED
      BY <2>2, <2>3
  <1> QED
    BY <1>1, <1>2, <1>3 DEF RowInv

\* A form writes the columns of the service and of change requests as they are,
\* and its own over the edits it has seen: all there are.
LEMMA FormLands ==
  ASSUME RowInv, NEW f \in OpenForms, SaveForm(f)
  PROVE  RowInv' /\ NoneTakenBack
  <1> DEFINE doc == [copies[f] EXCEPT !.edits = @ \cup {stored.modified + 1}]
             written == [OwnLevelOnly(doc) EXCEPT !.modified = @ + 1]
  <1>1. f \in RowWriters /\ Keeps(f) /\ copies[f] \in CaseRows /\ stored \in CaseRows
    BY CopyIsRow DEF SaveForm, RowWriters, RowInv, RowTypeOK
  <1>2. Saveable(doc) /\ Requestable(doc) /\ Lands(f, written)
    BY Zenon DEF SaveForm
  <1>9. /\ doc \in CaseRows /\ doc.edits = copies[f].edits \cup {stored.modified + 1}
        /\ doc.modified = copies[f].modified /\ doc.owner = copies[f].owner
        /\ doc.due = copies[f].due /\ doc.final = copies[f].final
    <2> DEFINE c == copies[f]
               n == stored.modified + 1
    <2>1. c \in CaseRows /\ n \in Nat
      BY <1>1 DEF CaseRows
    <2> HIDE DEF c, n
    <2>2. LET d == [c EXCEPT !.edits = @ \cup {n}]
          IN  /\ d \in CaseRows /\ d.edits = c.edits \cup {n}
              /\ d.modified = c.modified /\ d.owner = c.owner
              /\ d.due = c.due /\ d.final = c.final
      BY <2>1 DEF CaseRows
    <2> QED
      BY <2>2 DEF c, n
  <1> HIDE DEF doc
  <1>3. /\ written.modified = copies[f].modified + 1 /\ written.clock = stored.clock
        /\ written.owner = copies[f].owner /\ written.due = copies[f].due
        /\ written.edits = copies[f].edits \cup {stored.modified + 1}
        /\ written.final = copies[f].final /\ written \in CaseRows
        /\ doc.modified = copies[f].modified /\ doc.owner = copies[f].owner
        /\ doc.due = copies[f].due
    <2>1. /\ written \in CaseRows /\ written.modified = doc.modified + 1
          /\ written.clock = stored.clock /\ written.owner = doc.owner
          /\ written.due = doc.due /\ written.edits = doc.edits
          /\ written.final = doc.final
      <3> DEFINE level == OwnLevelOnly(doc)
                 n == level.modified + 1
      <3>1. /\ level \in CaseRows /\ level.clock = stored.clock
            /\ level.modified = doc.modified /\ level.owner = doc.owner
            /\ level.due = doc.due /\ level.edits = doc.edits
            /\ level.final = doc.final
        <4> DEFINE k == stored.clock
        <4>1. k \in Nat
          BY <1>1 DEF CaseRows
        <4> HIDE DEF k
        <4>2. LET d == [doc EXCEPT !.clock = k]
              IN  /\ d \in CaseRows /\ d.clock = k /\ d.modified = doc.modified
                  /\ d.owner = doc.owner /\ d.due = doc.due /\ d.edits = doc.edits
                  /\ d.final = doc.final
          BY <1>9, <4>1 DEF CaseRows
        <4> QED
          BY <4>2 DEF k, OwnLevelOnly
      <3>2. n \in Nat
        BY <3>1 DEF CaseRows
      <3> HIDE DEF level, n
      <3>3. LET d == [level EXCEPT !.modified = n]
            IN  /\ d \in CaseRows /\ d.modified = n /\ d.clock = level.clock
                /\ d.owner = level.owner /\ d.due = level.due /\ d.edits = level.edits
                /\ d.final = level.final
        BY <3>1, <3>2 DEF CaseRows
      <3>4. written = [level EXCEPT !.modified = n]
        BY DEF level, n
      <3>5. n = doc.modified + 1
        BY <3>1 DEF n
      <3> QED
        BY <3>1, <3>3, <3>4, <3>5
    <2> QED
      BY <1>9, <2>1
  <1> HIDE DEF written
  <1>4. /\ copies[f].modified = stored.modified /\ ~stored.final
        /\ copies[f].owner = stored.owner /\ copies[f].due = stored.due
    BY <1>2, <1>3 DEF Saveable, Requestable
  <1>5. copies[f].edits = stored.edits
    BY <1>1, <1>4 DEF RowInv, Copied
  <1>6. stored' = written
    BY <1>2 DEF Lands
  <1>7. Stamps(written)
    BY <1>3, <1>4 DEF Stamps
  <1>8. NoneTakenBack
    BY <1>1, <1>3, <1>4, <1>5, <1>6 DEF NoneTakenBack, CaseRows
  <1> QED
    BY <1>1, <1>2, <1>3, <1>7, <1>8, LandsKeeps

\* What a request may write of what it read.
Drawn(c, written) ==
  /\ written \in CaseRows
  /\ written.modified = c.modified + 1 /\ written.clock >= c.clock
  /\ written.owner >= c.owner /\ written.due >= c.due /\ written.edits = c.edits

LEMMA RequestWrites ==
  ASSUME RowInv, NEW r \in CaseRequests, MoveCase(r) \/ ApplyApproved(r)
  PROVE  /\ r \in RowWriters /\ StillValid(r) /\ Saveable(copies[r])
         /\ \E written : Drawn(copies[r], written) /\ Lands(r, written)
  <1> DEFINE c == copies[r]
  <1>1. r \in RowWriters /\ StillValid(r) /\ Saveable(c)
    <2>1. CASE MoveCase(r)
      BY <2>1, Zenon DEF MoveCase, RowWriters
    <2>2. CASE ApplyApproved(r)
      BY <2>2, Zenon DEF ApplyApproved, RowWriters
    <2> QED
      BY <2>1, <2>2
  <1>2. c \in CaseRows
    BY <1>1, CopyIsRow DEF StillValid
  <1>3. CASE MoveCase(r)
    <2>1. PICK ends \in BOOLEAN, restarts \in BOOLEAN, later \in {0, 1} :
            Lands(r, [c EXCEPT !.modified = @ + 1, !.clock = @ + 1, !.due = @ + later,
                               !.final = ends, !.flag = @ /\ ~restarts])
      BY <1>3, Zenon DEF MoveCase
    <2> HIDE DEF c
    <2>2. Drawn(c, [c EXCEPT !.modified = @ + 1, !.clock = @ + 1, !.due = @ + later,
                             !.final = ends, !.flag = @ /\ ~restarts])
      <3> DEFINE n == c.modified + 1
                 k == c.clock + 1
                 due == c.due + later
                 flag == c.flag /\ ~restarts
      <3>1. /\ n \in Nat /\ k \in Nat /\ due \in Nat /\ flag \in BOOLEAN
            /\ k >= c.clock /\ due >= c.due /\ c.owner >= c.owner
        BY <1>2 DEF CaseRows
      <3>2. n = c.modified + 1
        OBVIOUS
      <3> HIDE DEF n, k, due, flag
      <3>3. Drawn(c, [c EXCEPT !.modified = n, !.clock = k, !.due = due, !.final = ends,
                               !.flag = flag])
        BY <1>2, <3>1, <3>2 DEF Drawn, CaseRows
      <3> QED
        BY <3>3 DEF n, k, due, flag
    <2> QED
      BY <1>1, <2>1, <2>2 DEF c
  <1>4. CASE ApplyApproved(r)
    <2>1. \/ Lands(r, [c EXCEPT !.modified = @ + 1, !.owner = @ + 1])
          \/ Lands(r, [c EXCEPT !.modified = @ + 1, !.due = @ + 1, !.clock = @ + 1])
          \/ Lands(r, [c EXCEPT !.modified = @ + 1, !.due = @ + 1, !.clock = @ + 1,
                                !.flag = FALSE])
      BY <1>4, Zenon DEF ApplyApproved
    <2> HIDE DEF c
    <2> DEFINE n == c.modified + 1
               k == c.clock + 1
               owner == c.owner + 1
               due == c.due + 1
    <2>2. /\ n \in Nat /\ k \in Nat /\ owner \in Nat /\ due \in Nat
          /\ k >= c.clock /\ owner >= c.owner /\ due >= c.due
          /\ c.clock >= c.clock /\ c.owner >= c.owner /\ c.due >= c.due
      BY <1>2 DEF CaseRows
    <2>3. n = c.modified + 1
      OBVIOUS
    <2> HIDE DEF n, k, owner, due
    <2>4. Drawn(c, [c EXCEPT !.modified = n, !.owner = owner])
      BY <1>2, <2>2, <2>3 DEF Drawn, CaseRows
    <2>5. Drawn(c, [c EXCEPT !.modified = n, !.due = due, !.clock = k])
      BY <1>2, <2>2, <2>3 DEF Drawn, CaseRows
    <2>6. Drawn(c, [c EXCEPT !.modified = n, !.due = due, !.clock = k, !.flag = FALSE])
      BY <1>2, <2>2, <2>3 DEF Drawn, CaseRows
    <2>7. \E written : Drawn(c, written) /\ Lands(r, written)
      BY <2>1, <2>4, <2>5, <2>6, Zenon DEF n, k, owner, due
    <2> QED
      BY <1>1, <2>7 DEF c
  <1> QED
    BY <1>3, <1>4

\* A request writes what it read, which isolation says is the row.
LEMMA RequestLands ==
  ASSUME RowInv, NEW r \in CaseRequests, MoveCase(r) \/ ApplyApproved(r)
  PROVE  RowInv' /\ (RefusesOldSnapshot => NoneTakenBack)
  <1>1. /\ r \in RowWriters /\ StillValid(r) /\ Saveable(copies[r])
        /\ copies[r].modified = stored.modified /\ ~stored.final
    BY RequestWrites DEF Saveable
  <1>2. PICK written : Drawn(copies[r], written) /\ Lands(r, written)
    BY RequestWrites
  <1>3. Stamps(written) /\ written \in CaseRows /\ stored' = written
    BY <1>1, <1>2 DEF Drawn, Stamps, Lands
  <1>4. ASSUME RefusesOldSnapshot PROVE NoneTakenBack
    <2>1. copies[r] = stored
      BY <1>1, <1>4 DEF StillValid, RowInv, Copied
    <2> QED
      BY <1>1, <1>2, <1>3, <2>1 DEF Drawn, NoneTakenBack
  <1> QED
    BY <1>1, <1>2, <1>3, <1>4, LandsKeeps

\* A sweep writes its columns into the row as it is.
LEMMA SweepLands ==
  ASSUME RowInv, NEW s \in SweepRuns,
         SweepEscalates(s) \/ SweepMarks(s) \/ SweepCloses(s)
  PROVE  RowInv' /\ NoneTakenBack
  <1>1. s \in RowWriters /\ stored \in CaseRows
    BY DEF RowWriters, RowInv, RowTypeOK
  <1>2. ASSUME NEW written \in CaseRows, Lands(s, written), Stamps(written),
               written.clock = stored.clock + 1, written.owner >= stored.owner,
               written.due = stored.due, written.edits = stored.edits,
               stored.final => written.final
        PROVE  RowInv' /\ NoneTakenBack
    <2>1. stored' = written /\ stored.clock \in Nat /\ stored.due \in Nat
      BY <1>1, <1>2 DEF Lands, CaseRows
    <2>2. NoneTakenBack
      BY <1>2, <2>1 DEF NoneTakenBack
    <2> QED
      BY <1>1, <1>2, <2>2, LandsKeeps
  <1>3. CASE SweepEscalates(s)
    <2>1. PICK handed \in {0, 1} :
            Lands(s, [stored EXCEPT !.flag = TRUE, !.clock = @ + 1, !.owner = @ + handed])
      BY <1>3, Zenon DEF SweepEscalates
    <2> DEFINE written == [stored EXCEPT !.flag = TRUE, !.clock = @ + 1, !.owner = @ + handed]
    <2>2. /\ written \in CaseRows /\ written.modified = stored.modified
          /\ written.clock = stored.clock + 1
          /\ written.owner >= stored.owner /\ written.due = stored.due
          /\ written.edits = stored.edits /\ written.final = stored.final
      <3> DEFINE k == stored.clock + 1
                 owner == stored.owner + handed
      <3>1. k \in Nat /\ owner \in Nat /\ owner >= stored.owner
        BY <1>1 DEF CaseRows
      <3> HIDE DEF k, owner
      <3>2. LET d == [stored EXCEPT !.flag = TRUE, !.clock = k, !.owner = owner]
            IN  /\ d \in CaseRows /\ d.modified = stored.modified /\ d.clock = k
                /\ d.owner >= stored.owner /\ d.due = stored.due
                /\ d.edits = stored.edits /\ d.final = stored.final
        BY <1>1, <3>1 DEF CaseRows
      <3> QED
        BY <3>2 DEF k, owner
    <2>4. Stamps(written)
      BY <2>2 DEF Stamps
    <2> HIDE DEF written
    <2>3. Lands(s, written)
      BY <2>1 DEF written
    <2> QED
      BY <1>2, <2>2, <2>3, <2>4
  <1>4. CASE SweepMarks(s)
    <2> DEFINE written == [stored EXCEPT !.clock = @ + 1]
    <2>1. Lands(s, written)
      BY <1>4 DEF SweepMarks
    <2>2. /\ written \in CaseRows /\ written.modified = stored.modified
          /\ written.clock = stored.clock + 1
          /\ written.owner >= stored.owner /\ written.due = stored.due
          /\ written.edits = stored.edits /\ written.final = stored.final
      BY <1>1 DEF CaseRows
    <2>4. Stamps(written)
      BY <2>2 DEF Stamps
    <2> HIDE DEF written
    <2> QED
      BY <1>2, <2>1, <2>2, <2>4
  <1>5. CASE SweepCloses(s)
    <2> DEFINE written == [stored EXCEPT !.modified = @ + 1, !.clock = @ + 1, !.final = TRUE]
    <2>1. Lands(s, written)
      BY <1>5 DEF SweepCloses
    <2>2. /\ written \in CaseRows /\ written.modified = stored.modified + 1
          /\ written.clock = stored.clock + 1
          /\ written.owner >= stored.owner /\ written.due = stored.due
          /\ written.edits = stored.edits /\ written.final
      <3> DEFINE n == stored.modified + 1
                 k == stored.clock + 1
      <3>1. n \in Nat /\ k \in Nat /\ stored.owner >= stored.owner
        BY <1>1 DEF CaseRows
      <3> HIDE DEF n, k
      <3>2. LET d == [stored EXCEPT !.modified = n, !.clock = k, !.final = TRUE]
            IN  /\ d \in CaseRows /\ d.modified = n /\ d.clock = k
                /\ d.owner >= stored.owner /\ d.due = stored.due
                /\ d.edits = stored.edits /\ d.final
        BY <1>1, <3>1 DEF CaseRows
      <3> QED
        BY <3>2 DEF n, k
    <2>4. Stamps(written)
      BY <2>2 DEF Stamps
    <2> HIDE DEF written
    <2> QED
      BY <1>2, <2>1, <2>2, <2>4
  <1> QED
    BY <1>3, <1>4, <1>5

LEMMA RowStart ==
  ASSUME RowInit
  PROVE  RowInv
  BY DEF RowInit, RowInv, RowTypeOK, CaseRows, Keeps

LEMMA RowStays ==
  ASSUME RowInv, UNCHANGED rowVars
  PROVE  RowInv' /\ NoneTakenBack
  <1>1. stored \in CaseRows
    BY DEF RowInv, RowTypeOK
  <1>2. RowInv'
    BY DEF rowVars, RowInv, RowTypeOK, Keeps, Copied
  <1>3. NoneTakenBack
    BY <1>1 DEF rowVars, NoneTakenBack, CaseRows
  <1> QED
    BY <1>2, <1>3

LEMMA RowStep ==
  ASSUME RowInv, [RowNext]_rowVars
  PROVE  /\ RowInv'
         /\ \/ NoneTakenBack
            \/ /\ ~RefusesOldSnapshot
               /\ \E r \in CaseRequests : MoveCase(r) \/ ApplyApproved(r)
  <1>1. ASSUME NEW w \in RowWriters, ReadsRow(w) \/ Leaves(w) PROVE RowInv' /\ NoneTakenBack
    <2>1. RowInv' /\ stored' = stored /\ stored \in CaseRows
      BY <1>1, ReadsKeeps DEF RowInv, RowTypeOK
    <2> QED
      BY <2>1 DEF NoneTakenBack, CaseRows
  <1>2. ASSUME NEW r \in CaseRequests, MoveCase(r) \/ ApplyApproved(r)
        PROVE  RowInv' /\ (RefusesOldSnapshot => NoneTakenBack)
    BY <1>2, RequestLands
  <1>3. CASE RowNext
    <2>1. CASE \E w \in RowWriters : ReadsRow(w) \/ Leaves(w)
      BY <1>1, <2>1
    <2>2. CASE \E f \in OpenForms : SaveForm(f)
      BY <2>2, FormLands
    <2>3. CASE \E r \in CaseRequests : MoveCase(r) \/ ApplyApproved(r)
      BY <1>2, <2>3
    <2>4. CASE \E s \in SweepRuns : SweepEscalates(s) \/ SweepMarks(s) \/ SweepCloses(s)
      BY <2>4, SweepLands
    <2> QED
      BY <1>3, <2>1, <2>2, <2>3, <2>4, Zenon DEF RowNext
  <1> QED
    BY <1>3, RowStays

\* Whoever writes the row of a case, and whatever was written since they read
\* it, takes nothing back, on a database that refuses a write on an old
\* snapshot: for any number of forms, requests and sweeps.
THEOREM WritesStand ==
  ASSUME RefusesOldSnapshot
  PROVE  RowSpec => NothingTakenBack
  <1>1. RowInv /\ [RowNext]_rowVars => RowInv' /\ NoneTakenBack
    BY RowStep
  <1> QED
    BY <1>1, RowStart, PTL DEF RowSpec, NothingTakenBack

\* On any database it is only a request, saving what it read at its start, that
\* may take something back.
THEOREM FormsAndSweepsStand == RowSpec => OnlyRequestsTakeBack
  <1>1. /\ RowInv /\ [RowNext]_rowVars => RowInv'
        /\ RowInv /\ [RowNext]_rowVars =>
             NoneTakenBack \/ \E r \in CaseRequests : MoveCase(r) \/ ApplyApproved(r)
    BY RowStep
  <1> QED
    BY <1>1, RowStart, PTL DEF RowSpec, OnlyRequestsTakeBack

-----------------------------------------------------------------------------
(***************************************************************************)
(* All of them side by side, as the run checks them.  Every component has  *)
(* an invariant of its own; the one picked keeps it, the others rest.      *)
(***************************************************************************)
RecordsInv ==
  /\ part = "rollup" => RollupTyped
  /\ part = "counts" => CountsTyping
  /\ part = "registry" => RegistryInv
  /\ part = "directory" => SyncInv
  /\ part = "taxonomy" => TaxonomyInv
  /\ part = "thread" => ThreadInv
  /\ part = "form" => FormTyping
  /\ part = "pages" => PagesInv
  /\ part = "exports" => AuditInv
  /\ part = "seeding" => SeedingInv
  /\ part = "row" => RowInv

LEMMA RecordsStart ==
  ASSUME RecordsInit
  PROVE  RecordsInv
  <1>1. /\ Init /\ RegistryInit /\ SyncInit /\ TaxonomyInit /\ ThreadInit
        /\ FormInit /\ PagesInit /\ AuditInit /\ RowInit
        /\ part = "counts" => CountsInit
        /\ part = "seeding" => SeedingInit
    BY DEF RecordsInit
  <1> QED
    BY <1>1, RollupTypedStart, CountsTypedStart, RegistryStarts, SyncStarts, TaxonomyStarts,
       ThreadStarts, FormTypingStart, PagesStart, AuditStarts, SeedingStart, RowStart
       DEF RecordsInv

\* A step of the run is a step of the component picked, or changes nothing of it.
LEMMA PickedMoves ==
  ASSUME [RecordsNext]_recordsVars
  PROVE  /\ part' = part
         /\ part = "rollup" => [Next]_vars
         /\ part = "counts" => [CountsNext]_countsVars
         /\ part = "registry" => [RegistryNext]_registryVars
         /\ part = "directory" => [SyncNext]_syncVars
         /\ part = "taxonomy" => [TaxonomyNext]_taxonomyVars
         /\ part = "thread" => [ThreadNext]_threadVars
         /\ part = "form" => [FormNext]_formVars
         /\ part = "pages" => [PagesNext]_pagesVars
         /\ part = "exports" => [AuditNext]_auditVars
         /\ part = "seeding" => [SeedingNext]_seedingVars
         /\ part = "row" => [RowNext]_rowVars
  BY DEF RecordsNext, Resting, recordsVars

LEMMA RecordsStep ==
  ASSUME RecordsInv, [RecordsNext]_recordsVars
  PROVE  RecordsInv'
  <1>1. part = "rollup" => RollupTyped'
    BY PickedMoves, RollupTypedStep DEF RecordsInv
  <1>2. part = "counts" => CountsTyping'
    BY PickedMoves, CountsTypedStep DEF RecordsInv
  <1>3. part = "registry" => RegistryInv'
    BY PickedMoves, RegistryStep DEF RecordsInv
  <1>4. part = "directory" => SyncInv'
    BY PickedMoves, SyncStep DEF RecordsInv
  <1>5. part = "taxonomy" => TaxonomyInv'
    BY PickedMoves, TaxonomyStep DEF RecordsInv
  <1>6. part = "thread" => ThreadInv'
    BY PickedMoves, ThreadStep DEF RecordsInv
  <1>7. part = "form" => FormTyping'
    BY PickedMoves, FormTypingStep DEF RecordsInv
  <1>8. part = "pages" => PagesInv'
    BY PickedMoves, PagesStep DEF RecordsInv
  <1>9. part = "exports" => AuditInv'
    BY PickedMoves, AuditStep DEF RecordsInv
  <1>10. part = "seeding" => SeedingInv'
    BY PickedMoves, SeedingStep DEF RecordsInv
  <1>11. part = "row" => RowInv'
    BY PickedMoves, RowStep DEF RecordsInv
  <1> QED
    BY <1>1, <1>2, <1>3, <1>4, <1>5, <1>6, <1>7, <1>8, <1>9, <1>10, <1>11,
       PickedMoves DEF RecordsInv

\* Whatever the sizes, every variable of the component picked keeps its type
\* (RecordsTypeOK).
THEOREM RecordsTyped == RecordsSpec => []RecordsTypeOK
  <1>1. RecordsInv => RecordsTypeOK
    BY FormIsTyped
       DEF RecordsInv, RecordsTypeOK, RollupTyped, CountsTyping, RegistryInv, SyncInv, TaxonomyInv,
           ThreadInv, PagesInv, AuditInv, SeedingInv, RowInv
  <1> QED
    BY <1>1, RecordsStart, RecordsStep, PTL DEF RecordsSpec
==============================================================================
