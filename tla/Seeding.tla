--------------------------------- MODULE Seeding ---------------------------------
(***************************************************************************)
(* Bringing a site to the present release: the patches it has not had, in  *)
(* the order of patches.txt, then the seeds of setup/install.py, which run *)
(* on every migration.                                                     *)
(*                                                                         *)
(*   site      what the site holds: one fact per kind of seeded record or  *)
(*             of data a patch moves                                       *)
(*   had       how many patches the site has had                           *)
(*   stage     "serving", "patching", "seeding" or "migrated": the         *)
(*             migration has ended and nobody has changed anything since   *)
(*   edited    fact a person changed |-> the patches the site had then     *)
(*                                                                         *)
(* A fact stands for its whole table, seeded record by record in the same  *)
(* way.  Roles, response templates, provider types, types, the desk, the   *)
(* holiday list and the first SLA configurations have no fact of their     *)
(* own: they too are seeded where they are missing (SeedMissing), and left *)
(* alone as long as their names stand.  A template is found by its title   *)
(* and a type by its name and category, so one that was renamed is seeded  *)
(* again beside the edit.  Nobody edits during a migration (maintenance    *)
(* mode).                                                                  *)
(***************************************************************************)
EXTENDS Naturals, FiniteSets, Sequences

CONSTANTS Connection,       \* the provider connection in the site's config: "none", "good", "bad"
          FirstReleases,    \* the patches a site may have had when it was set up
          Editable,         \* the facts people change
          MaxEdits, MaxCrashes

VARIABLES site, had, stage, edited, seedCrashes

seedingVars == <<site, had, stage, edited, seedCrashes>>

-----------------------------------------------------------------------------
\* patches.txt, without the patches that only rebuild a rollup or link files
\* (those are DashboardRollup's and AttachmentScan's).
PatchList ==
  <<"convert_codes", "reword_received", "move_status", "move_designation", "set_default",
    "key_messages", "convert_pending_timers", "ensure_channels", "set_web_portal",
    "rename_level", "name_officers", "grant_head_role", "unrouted_skips_approval", "add_timers",
    "seed_system_messages", "reword_more_info", "add_reopened", "reword_reopened",
    "unrouted_is_head", "name_assignee", "add_duplicate", "dismiss_flags">>

PatchCount == Len(PatchList)
Place(p) == CHOOSE i \in 1 .. PatchCount : PatchList[i] = p

Reworded == {"received", "moreInfo", "reopened", "assigned"}
Facts ==
  Reworded \cup
  {"system", "keys", "category", "default", "channel", "region", "workflow", "level",
   "resolvedTimer", "pendingTimer", "approval", "triage", "headRole", "status", "title",
   "profile", "case", "flag", "source", "officer"}

\* The value of a fact before the patch that changes it, and since.
Upgrade(f) ==
  CASE f = "received"      -> [by |-> "reword_received", old |-> "old", new |-> "now"]
    [] f = "moreInfo"      -> [by |-> "reword_more_info", old |-> "old", new |-> "now"]
    [] f = "reopened"      -> [by |-> "reword_reopened", old |-> "old", new |-> "now"]
    [] f = "assigned"      -> [by |-> "name_assignee", old |-> "old", new |-> "now"]
    [] f = "system"        -> [by |-> "seed_system_messages", old |-> "absent", new |-> "now"]
    [] f = "keys"          -> [by |-> "key_messages", old |-> "shared", new |-> "own"]
    [] f = "category"      -> [by |-> "convert_codes", old |-> "old", new |-> "now"]
    [] f = "default"       -> [by |-> "set_default", old |-> "none", new |-> "now"]
    [] f = "channel"       -> [by |-> "ensure_channels", old |-> "now", new |-> "now"]
    [] f = "region"        -> [by |-> "none", old |-> "now", new |-> "now"]
    [] f = "workflow"      -> [by |-> "add_duplicate", old |-> "old", new |-> "now"]
    [] f = "level"         -> [by |-> "rename_level", old |-> "old", new |-> "now"]
    [] f = "resolvedTimer" -> [by |-> "add_timers", old |-> "none", new |-> "now"]
    [] f = "pendingTimer"  -> [by |-> "convert_pending_timers", old |-> "none", new |-> "none"]
    [] f = "approval"      -> [by |-> "unrouted_skips_approval", old |-> "old", new |-> "now"]
    [] f = "triage"        -> [by |-> "unrouted_is_head", old |-> "old", new |-> "now"]
    [] f = "headRole"      -> [by |-> "grant_head_role", old |-> "none", new |-> "now"]
    [] f = "status"        -> [by |-> "move_status", old |-> "on the user", new |-> "on the row"]
    [] f = "title"         -> [by |-> "move_designation", old |-> "on the user", new |-> "on the row"]
    [] f = "profile"       -> [by |-> "set_web_portal", old |-> "blank", new |-> "now"]
    [] f = "case"          -> [by |-> "add_reopened", old |-> "In Progress", new |-> "Reopened"]
    [] f = "flag"          -> [by |-> "dismiss_flags", old |-> "unreviewed", new |-> "dismissed"]
    [] f = "officer"       -> [by |-> "name_officers", old |-> "by address", new |-> "by name"]
    [] f = "source"        -> [by |-> "none", old |-> "now", new |-> "now"]

Had(p, n) == p = "none" \/ Place(p) <= n

\* A site set up when the first n patches were the only ones: it is born with
\* what they do and never runs them.  Nothing is seeded before the first seeds.
AsSetUp(n) == [f \in Facts |-> IF Had(Upgrade(f).by, n) THEN Upgrade(f).new ELSE Upgrade(f).old]
BornAt(n) == {[AsSetUp(n) EXCEPT !["source"] = v] : v \in {"blank", "now"}}
Present == AsSetUp(PatchCount)
SeededFacts ==
  Reworded \cup {"system", "category", "default", "channel", "region", "workflow", "level",
                 "resolvedTimer", "approval", "triage", "headRole", "source"}
Empty == [f \in Facts |-> IF f \in SeededFacts THEN "absent" ELSE Present[f]]

Values == {"absent", "none", "old", "now", "mine", "shared", "own", "on the user", "on the row",
           "by address", "by name", "blank", "In Progress", "Reopened", "unreviewed", "dismissed", "twice"}

SeedingTypeOK ==
  /\ site \in [Facts -> Values] /\ had \in 0 .. PatchCount
  /\ stage \in {"serving", "patching", "seeding", "migrated"}
  /\ DOMAIN edited \subseteq Editable /\ \A f \in DOMAIN edited : edited[f] \in 0 .. PatchCount
  /\ seedCrashes \in 0 .. MaxCrashes

SeedingInit ==
  /\ \/ \E n \in FirstReleases : had = n /\ site \in BornAt(n) /\ stage = "serving"
     \/ had = PatchCount /\ site = Empty /\ stage = "seeding"
  /\ edited = <<>> /\ seedCrashes = 0

-----------------------------------------------------------------------------
(***************************************************************************)
(* What people change between migrations.                                  *)
(***************************************************************************)
ASSUME EditableAssumption ==
  /\ Editable \subseteq Facts \ {"keys", "system", "headRole", "status", "officer"}
  /\ FirstReleases \subseteq 0 .. PatchCount /\ MaxEdits \in Nat /\ MaxCrashes \in Nat

Edit(f) ==
  /\ stage \in {"serving", "migrated"}
  /\ f \notin DOMAIN edited /\ site[f] # "absent"
  /\ Cardinality(DOMAIN edited) < MaxEdits
  /\ f = "pendingTimer" => ~Had("convert_pending_timers", had)
  /\ f \in {"case", "flag", "profile", "title"} => ~Had(Upgrade(f).by, had)
  /\ site' = [site EXCEPT ![f] = "mine"]
  /\ edited' = [g \in DOMAIN edited \cup {f} |-> IF g = f THEN had ELSE edited[g]]
  /\ stage' = "serving" /\ UNCHANGED <<had, seedCrashes>>

\* A message or a channel deleted; the next seeds bring it back.
RemoveSeeded(f) ==
  /\ stage \in {"serving", "migrated"}
  /\ f \in Reworded \cup {"channel"} /\ f \notin DOMAIN edited
  /\ \A g \in Facts : site[g] # "absent"            \* bound: one at a time
  /\ site' = [site EXCEPT ![f] = "absent"]
  /\ stage' = "serving" /\ UNCHANGED <<had, edited, seedCrashes>>

-----------------------------------------------------------------------------
(***************************************************************************)
(* The patches, by what they do to the facts they touch.                   *)
(***************************************************************************)
Turn(s, f, from, to) == IF s[f] \in from THEN [s EXCEPT ![f] = to] ELSE s

\* Mutant: a rewording replaces whatever the message says.
Reword_Anything(s, f, key) == [s EXCEPT ![f] = "now"]

\* Only a message that reads exactly as it was seeded, under the translation
\* keys of its time, takes the present wording.
Reword(s, f, key) == IF s["keys"] = key THEN Turn(s, f, {"old"}, "now") ELSE s

RewordReceived(s) == Reword(s, "received", "shared")
RewordMoreInfo(s) == Reword(s, "moreInfo", "own")
RewordReopened(s) == Reword(s, "reopened", "own")
NameAssignee(s) == Reword(s, "assigned", "own")

\* Saved messages, reworded ones too, print the officer's name.
NameOfficers(s) == Turn(s, "officer", {"by address"}, "by name")

\* Each channel's message has a translation key of its own.
KeyMessages(s) == Turn(s, "keys", {"shared"}, "own")

\* What is missing under its name is seeded as it reads today; what exists is
\* left alone.
SeedMissing(s, fs) == [f \in Facts |-> IF f \in fs /\ s[f] = "absent" THEN "now" ELSE s[f]]
SeedMessages(s) == SeedMissing(s, Reworded \cup {"system"})
SeedSystem(s) == SeedMessages(s)

\* Ticket segments of categories that still have a code of the old form.
ConvertCodes(s) == Turn(s, "category", {"old"}, "now")
\* The catch-all becomes the default where no category is.
SetDefault(s) == Turn(s, "default", {"none"}, "now")
\* What stood on an officer's User goes to the rows of their desks.
MoveStatus(s) == Turn(s, "status", {"on the user"}, "on the row")
MoveDesignation(s) == Turn(s, "title", {"on the user"}, "on the row")
RenameLevel(s) == Turn(s, "level", {"old"}, "now")
GrantHeadRole(s) == Turn(s, "headRole", {"none"}, "now")
SkipApproval(s) == [s EXCEPT !["approval"] = "now"]
HeadUnrouted(s) == Turn(s, "triage", {"old"}, "now")
EnsureChannels(s) == [s EXCEPT !["channel"] = "now"]
SetWebPortal(s) == Turn(s, "profile", {"blank"}, "now")
AddTimers(s) == Turn(s, "resolvedTimer", {"none"}, "now")
DismissFlags(s) == Turn(s, "flag", {"unreviewed"}, "dismissed")
\* A case nobody has moved since it was reopened goes to the new state.
AddReopened(s) == Turn([s EXCEPT !["workflow"] = "now"], "case", {"In Progress"}, "Reopened")
AddDuplicate(s) == [s EXCEPT !["workflow"] = "now"]

\* The timers of the state that was removed go over to Resolved where it has
\* none, and are deleted.
ConvertPending(s) ==
  [s EXCEPT !["resolvedTimer"] = IF @ = "none" /\ s["pendingTimer"] # "none"
                                 THEN s["pendingTimer"] ELSE @,
            !["pendingTimer"] = "none"]

PatchOf(p, s) ==
  CASE p = "convert_codes"           -> ConvertCodes(s)
    [] p = "reword_received"         -> RewordReceived(s)
    [] p = "move_status"             -> MoveStatus(s)
    [] p = "move_designation"        -> MoveDesignation(s)
    [] p = "set_default"             -> SetDefault(s)
    [] p = "key_messages"            -> KeyMessages(s)
    [] p = "convert_pending_timers"  -> ConvertPending(s)
    [] p = "ensure_channels"         -> EnsureChannels(s)
    [] p = "set_web_portal"          -> SetWebPortal(s)
    [] p = "rename_level"            -> RenameLevel(s)
    [] p = "name_officers"           -> NameOfficers(s)
    [] p = "grant_head_role"         -> GrantHeadRole(s)
    [] p = "unrouted_skips_approval" -> SkipApproval(s)
    [] p = "add_timers"              -> AddTimers(s)
    [] p = "seed_system_messages"    -> SeedSystem(s)
    [] p = "reword_more_info"        -> RewordMoreInfo(s)
    [] p = "add_reopened"            -> AddReopened(s)
    [] p = "reword_reopened"         -> RewordReopened(s)
    [] p = "unrouted_is_head"        -> HeadUnrouted(s)
    [] p = "name_assignee"           -> NameAssignee(s)
    [] p = "add_duplicate"           -> AddDuplicate(s)
    [] p = "dismiss_flags"           -> DismissFlags(s)

-----------------------------------------------------------------------------
(***************************************************************************)
(* The seeds, up to the custom field on Notification and after it: a site  *)
(* without that field commits what is seeded before it.                    *)
(***************************************************************************)
SeededLate == Reworded \cup {"system", "region", "source", "resolvedTimer"}

\* A category is known by its name or its code: one renamed while its code was
\* the old one is known by neither and is seeded a second time, as the default.
SeedCategories(s) ==
  IF s["category"] = "mine" /\ "category" \in DOMAIN edited
     /\ ~Had("convert_codes", edited["category"])
  THEN [s EXCEPT !["category"] = "twice", !["default"] = "now"] ELSE s

\* A source that is switched off or connected is the site's own choice.
SeedSources(s) ==
  IF s["source"] = "absent" \/ (s["source"] = "blank" /\ Connection = "good")
  THEN [s EXCEPT !["source"] = IF Connection = "good" THEN "now" ELSE "blank"] ELSE s

SeedWorkflow(s) == [s EXCEPT !["workflow"] = "now"]
SeedRegions(s) == [s EXCEPT !["region"] = "now"]

SeedsBefore(s) ==
  SeedWorkflow(SeedSources(SeedCategories(SeedMissing(s, SeededFacts \ SeededLate))))

SeedsAfter(s) ==
  Turn(SeedRegions(SeedMessages(s)), "resolvedTimer", {"absent"}, "now")

-----------------------------------------------------------------------------
StartMigration ==
  /\ stage \in {"serving", "migrated"}
  /\ stage' = "patching" /\ UNCHANGED <<site, had, edited, seedCrashes>>

\* A patch and the note that it has run are one transaction.
RunPatch ==
  /\ stage = "patching" /\ had < PatchCount
  /\ site' = PatchOf(PatchList[had + 1], site) /\ had' = had + 1
  /\ UNCHANGED <<stage, edited, seedCrashes>>

PatchesDone ==
  /\ stage = "patching" /\ had = PatchCount
  /\ stage' = "seeding" /\ UNCHANGED <<site, had, edited, seedCrashes>>

\* seed_all commits once, at its end.
SeedAll ==
  /\ stage = "seeding"
  /\ site' = SeedsAfter(SeedsBefore(site))
  /\ stage' = "migrated" /\ UNCHANGED <<had, edited, seedCrashes>>

\* A migration stops: between two patches, or in the seeds, of which nothing
\* is left, or those before an implicit commit.
MigrationStops ==
  /\ stage \in {"patching", "seeding"} /\ seedCrashes < MaxCrashes
  /\ stage' = "serving" /\ seedCrashes' = seedCrashes + 1
  /\ site' \in {site} \cup IF stage = "seeding" THEN {SeedsBefore(site)} ELSE {}
  /\ UNCHANGED <<had, edited>>

SeedingNext ==
  \/ \E f \in Editable : Edit(f) \/ RemoveSeeded(f)
  \/ StartMigration \/ RunPatch \/ PatchesDone \/ SeedAll \/ MigrationStops

SeedingSpec == SeedingInit /\ [][SeedingNext]_seedingVars

-----------------------------------------------------------------------------
\* AlwaysRebuilt from the tables on every migration, and repaired once whatever
\* somebody chose before.
AlwaysRebuilt == {"region", "workflow"}
RepairedOnce == {"channel", "approval"}

Stands(f) ==
  /\ f \in DOMAIN edited /\ f \notin AlwaysRebuilt
  /\ f \in RepairedOnce => Had(Upgrade(f).by, edited[f])

\* A category renamed before its code was converted is seeded again, and takes
\* the default with it.
SeededTwice == Stands("category") /\ ~Had("convert_codes", edited["category"])

\* A window on the state that was removed is one on Resolved.
Chosen(f) == Stands(f) \/ (f = "resolvedTimer" /\ Stands("pendingTimer"))

\* A migrated site is what a new one would be, except for what people chose,
\* which stands through any number of migrations and crashes, from whatever
\* release the site began; a window set on the removed state is now that of
\* Resolved (patches.txt, seed_all).
SeedingKeepsEdits ==
  stage = "migrated" =>
    /\ site["pendingTimer"] = "none"
    /\ site["category"] = "twice" <=> SeededTwice
    /\ \A f \in Facts \ {"pendingTimer"} :
         ~(SeededTwice /\ f \in {"category", "default"}) =>
           /\ Chosen(f) => site[f] = "mine"
           /\ ~Chosen(f) /\ (f = "source" => Connection = "good") => site[f] = Present[f]
================================================================================
