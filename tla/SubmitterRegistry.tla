--------------------------- MODULE SubmitterRegistry ---------------------------
(***************************************************************************)
(* Organizations and the profiles their representatives file with:         *)
(* services/organization.py, api/v1/organization.py, the registration and  *)
(* the blocks of api/v1/submitter.py, services/identity.py and the profile *)
(* and organization doctypes.                                              *)
(*                                                                         *)
(*   orgs       Grievance Organization, by representative_user             *)
(*   profiles   Grievance Submitter Profile: its login, type, name, key,   *)
(*              link to an organization, and who blocked it                *)
(*   verified   history: what an administrator last made Active            *)
(*                                                                         *)
(* A value stands for all its spellings: a registration number is compared *)
(* and kept in upper case.  The key of a login without a phone is left     *)
(* out: only a server-side caller asks for it.                             *)
(***************************************************************************)
EXTENDS FiniteSets

CONSTANTS
  Logins, ProfileIds,
  Names, OrgTypes, Numbers,    \* of organizations; the names are of people too
  Faydas,                      \* Fayda IDs
  Farmer,                      \* the submitter type that needs no verification
  None

ASSUME RegistryAssumption == None \notin {"sign-up", "officer"}

VARIABLES orgs, profiles, verified

registryVars == <<orgs, profiles, verified>>

OrgIds == Logins
Identity == [name : Names, type : OrgTypes, number : Numbers]
NoIdentity == [name |-> None, type |-> None, number |-> None]

Key(scheme, value) == [scheme |-> scheme, value |-> value]
DedupeKeys == {Key("org", n) : n \in Numbers} \cup {Key("fayda", f) : f \in Faydas}
          \cup {Key("phone", u) : u \in Logins}

NoOrg == [is |-> NoIdentity, status |-> "Absent"]
NoProfile == [user |-> None, type |-> None, name |-> None, key |-> Key(None, None),
              org |-> None, block |-> None]

RegistryTypeOK ==
  /\ orgs \in [OrgIds -> {NoOrg} \cup
                 [is : Identity, status : {"In Review", "Active", "Suspended"}]]
  /\ profiles \in [ProfileIds -> {NoProfile} \cup
       [user : Logins \cup {None}, type : OrgTypes \cup {Farmer}, name : Names, key : DedupeKeys,
        org : OrgIds \cup {None}, block : {None, "sign-up", "officer"}]]
  /\ verified \in [OrgIds -> Identity \cup {NoIdentity}]

-----------------------------------------------------------------------------
(***************************************************************************)
(* DedupeKeys.                                                                   *)
(***************************************************************************)

\* derive_dedupe_key: what a type may be identified by, best first.
DerivedKeys(u, type, id) ==
  IF type = Farmer
  THEN {Key("fayda", f) : f \in {id} \cap Faydas} \cup
       {Key("phone", v) : v \in IF id \in Faydas THEN {} ELSE {u}}
  ELSE {Key("org", n) : n \in {id} \cap Numbers} \cup {Key("fayda", f) : f \in {id} \cap Faydas}

KeyedBy(key) == {p \in ProfileIds : profiles[p] # NoProfile /\ profiles[p].key = key}

\* The login is no unique column: who claims a walk-in profile has two.
OwnProfiles(u) == {p \in ProfileIds : profiles[p] # NoProfile /\ profiles[p].user = u}

Unused(p) == profiles[p] = NoProfile

\* set_dedupe_key: a phone gives way to anything; an organization's key only to
\* the organization service; nobody takes the key of another profile.
MayRekey(p, key, bySync) ==
  \/ profiles[p].key = key
  \/ /\ KeyedBy(key) = {}
     /\ \/ profiles[p].key.scheme = "phone"
        \/ bySync /\ profiles[p].key.scheme = "org"

-----------------------------------------------------------------------------
RegistryInit ==
  /\ orgs = [o \in OrgIds |-> NoOrg]
  /\ profiles = [p \in ProfileIds |-> NoProfile]
  /\ verified = [o \in OrgIds |-> NoIdentity]

(***************************************************************************)
(* The representative's Submitter Profile.                                 *)
(***************************************************************************)

\* Mutant: registering an organization lifts whatever block there is.
Lifted_Any(block) == None

\* Only the block /register itself put there is lifted.
Lifted(block) == IF block = "sign-up" THEN None ELSE block

\* sync_profile, on every save of the organization; inserted: the first one.
Synced(p, u, org, inserted) ==
  LET old == profiles[p]
      fresh == Unused(p)
      keyed == IF fresh \/ old.key.scheme \in {"phone", "org"} THEN Key("org", org.number) ELSE old.key
  IN  [user |-> u, type |-> org.type, name |-> org.name, org |-> u, key |-> keyed,
       block |-> IF inserted THEN Lifted(old.block) ELSE old.block]

SyncProfile(u, org, inserted) ==
  \E p \in IF OwnProfiles(u) = {} THEN {q \in ProfileIds : Unused(q)} ELSE OwnProfiles(u) :
    LET row == Synced(p, u, org, inserted) IN
    /\ IF Unused(p) THEN KeyedBy(row.key) = {} ELSE MayRekey(p, row.key, TRUE)
    /\ profiles' = [profiles EXCEPT ![p] = row]

\* find_or_create_submitter: an assisted filer takes down somebody without a login.
WalkIn(p, name, f) ==
  /\ Unused(p) /\ KeyedBy(Key("fayda", f)) = {}
  /\ profiles' = [profiles EXCEPT ![p] =
       [user |-> None, type |-> Farmer, name |-> name, key |-> Key("fayda", f), org |-> None,
        block |-> None]]
  /\ UNCHANGED <<orgs, verified>>

\* /register: the profile of the key, else the caller's own, else a new one.
RegisterProfile(u, type, name, id) ==
  \E key \in DerivedKeys(u, type, id) :
  \E p \in IF KeyedBy(key) # {} THEN KeyedBy(key)
           ELSE IF OwnProfiles(u) # {} THEN OwnProfiles(u) ELSE {q \in ProfileIds : Unused(q)} :
    LET old == profiles[p]
        kept == ~Unused(p) /\ old.key.scheme \in {"fayda", "org"} /\ id = None
        written == IF kept THEN old.key ELSE key
    IN
    /\ old.user \in {u, None}
    /\ Unused(p) \/ MayRekey(p, written, FALSE)
    /\ profiles' = [profiles EXCEPT ![p] =
         [user |-> u, type |-> type, name |-> name, key |-> written, org |-> old.org,
          block |-> IF type # Farmer /\ old.block = None THEN "sign-up" ELSE old.block]]
    /\ UNCHANGED <<orgs, verified>>

\* The block and unblock endpoints.
Block(p) ==
  /\ ~Unused(p)
  /\ profiles' = [profiles EXCEPT ![p].block = "officer"]
  /\ UNCHANGED <<orgs, verified>>

Unblock(p) ==
  /\ ~Unused(p)
  /\ profiles' = [profiles EXCEPT ![p].block = None]
  /\ UNCHANGED <<orgs, verified>>

-----------------------------------------------------------------------------
(***************************************************************************)
(* The organization.                                                       *)
(***************************************************************************)
NumberFree(u, n) == \A o \in OrgIds \ {u} : orgs[o].is.number # n

\* create: one organization for a login, one login for a number.
RegisterOrganization(u, values) ==
  /\ orgs[u] = NoOrg /\ NumberFree(u, values.number)
  /\ orgs' = [orgs EXCEPT ![u] = [is |-> values, status |-> "In Review"]]
  /\ SyncProfile(u, values, TRUE)
  /\ UNCHANGED verified

\* Mutant: the registration number is not among IDENTITY_FIELDS.
Voids_NotNumber(was, is) == was.name # is.name \/ was.type # is.type

\* update: what was verified changed (IDENTITY_FIELDS).
Voids(was, is) == was.name # is.name \/ was.type # is.type \/ was.number # is.number

UpdateOrganization(u, values) ==
  /\ orgs[u].status \in {"In Review", "Active"}
  /\ values # orgs[u].is /\ NumberFree(u, values.number)
  /\ orgs' = [orgs EXCEPT ![u] =
       [is |-> values,
        status |-> IF @.status = "Active" /\ Voids(@.is, values) THEN "In Review" ELSE @.status]]
  /\ SyncProfile(u, values, FALSE)
  /\ UNCHANGED verified

\* The moves an administrator may take: Verify, Reject, Suspend, Reinstate and
\* Reopen Review.
AdminMoves ==
  {<<"In Review", "Active">>, <<"In Review", "Suspended">>, <<"Active", "Suspended">>,
   <<"Suspended", "Active">>, <<"Suspended", "In Review">>}

SetStatus(o, status) ==
  /\ <<orgs[o].status, status>> \in AdminMoves
  /\ orgs' = [orgs EXCEPT ![o].status = status]
  /\ verified' = IF status = "Active" THEN [verified EXCEPT ![o] = orgs[o].is] ELSE verified
  /\ SyncProfile(o, orgs[o].is, FALSE)

-----------------------------------------------------------------------------
\* assert_may_file.
OrgMayFile(o, u, assisted) == orgs[o].status = "Active" /\ (o = u \/ assisted)

\* _resolve_submitter_identity: the caller's own profile, or the one an assisted
\* filer names; the case takes its name and type.
MayFileAs(p, u, assisted) ==
  /\ ~Unused(p)
  /\ assisted \/ p \in OwnProfiles(u)
  /\ profiles[p].org = None \/ OrgMayFile(profiles[p].org, u, assisted)
  /\ profiles[p].block = None

-----------------------------------------------------------------------------
RegistryNext ==
  \/ \E p \in ProfileIds :
       \/ Block(p) \/ Unblock(p)
       \/ \E name \in Names, f \in Faydas : WalkIn(p, name, f)
  \/ \E u \in Logins :
       \/ \E type \in OrgTypes \cup {Farmer}, name \in Names, id \in Numbers \cup Faydas \cup {None} :
            RegisterProfile(u, type, name, id)
       \/ \E values \in Identity : RegisterOrganization(u, values) \/ UpdateOrganization(u, values)
       \/ \E status \in {"In Review", "Active", "Suspended"} : SetStatus(u, status)

RegistrySpec == RegistryInit /\ [][RegistryNext]_registryVars

-----------------------------------------------------------------------------
\* An Active organization is the one an administrator made Active: the same
\* name, type and number, whatever its representative edited since (update).
ActiveIsVerified ==
  \A o \in OrgIds : orgs[o].status = "Active" => orgs[o].is = verified[o]

\* A block an officer placed stands until staff lift it, whatever is registered,
\* edited or verified (sync_profile, unblock_submitter).
OfficerBlockStands ==
  [][\A p \in ProfileIds :
       profiles[p].block = "officer" /\ profiles'[p].block # "officer" => Unblock(p)]_registryVars

\* The head of organization.py says that what is filed for an organization is
\* filed under its verified name.  Not so: a representative who registers again,
\* as a farmer, keeps the link and files under the new name (RegisterProfile).
FiledUnderVerifiedName ==
  \A p \in ProfileIds, u \in Logins :
    profiles[p].org # None /\ MayFileAs(p, u, FALSE)
      => profiles[p].name = verified[profiles[p].org].name
================================================================================
