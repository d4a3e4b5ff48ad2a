------------------------------- MODULE MCRecords -------------------------------
(***************************************************************************)
(* Records kept beside the cases, model-checked side by side as in         *)
(* MCServices: the dashboard rollup while a migration runs, what a refresh *)
(* counts and charts, submitters and their organizations, the provider     *)
(* directory, the taxonomy, the conversation on a case, its form and the   *)
(* pages of its timeline, exports on record, a migration's seeds, and      *)
(* everybody who writes one row.                                           *)
(***************************************************************************)
EXTENDS TLC, DashboardRollup, Charts, SubmitterRegistry, ProviderSync, Taxonomy,
        CaseThread, CaseForm, TimelinePages, AccessAudit, Seeding, RowWrites

CONSTANTS Parts             \* the components checked by the run

VARIABLE part

recordsVars ==
  <<part, vars, countsVars, registryVars, syncVars, taxonomyVars, threadVars, formVars,
    pagesVars, auditVars, seedingVars, rowVars>>

-----------------------------------------------------------------------------
\* The two with the largest states hold nothing while another is picked.
CountsRest ==
  /\ counted = <<>> /\ dayRows = <<>> /\ kept = <<>>
  /\ today = 0 /\ lastPass = 0 /\ events = 0
  /\ current = FALSE /\ owing = FALSE /\ undone = FALSE /\ disturbed = {} /\ whole = {}

SeedingRests ==
  site = <<>> /\ edited = <<>> /\ had = 0 /\ stage = "serving" /\ seedCrashes = 0

\* What does not matter to the component picked has one initial value.
RecordsInit ==
  /\ part \in Parts
  /\ Init /\ RegistryInit /\ SyncInit /\ TaxonomyInit /\ ThreadInit
  /\ FormInit /\ PagesInit /\ AuditInit /\ RowInit
  /\ IF part = "counts" THEN CountsInit ELSE CountsRest
  /\ IF part = "seeding" THEN SeedingInit ELSE SeedingRests
  /\ part = "taxonomy" \/ \A c \in Categories \ {SeededCategory} : cats[c] = NoRow

Resting(except) ==
  /\ part = except /\ UNCHANGED part
  /\ IF except = "rollup" THEN TRUE ELSE UNCHANGED vars
  /\ IF except = "counts" THEN TRUE ELSE UNCHANGED countsVars
  /\ IF except = "registry" THEN TRUE ELSE UNCHANGED registryVars
  /\ IF except = "directory" THEN TRUE ELSE UNCHANGED syncVars
  /\ IF except = "taxonomy" THEN TRUE ELSE UNCHANGED taxonomyVars
  /\ IF except = "thread" THEN TRUE ELSE UNCHANGED threadVars
  /\ IF except = "form" THEN TRUE ELSE UNCHANGED formVars
  /\ IF except = "pages" THEN TRUE ELSE UNCHANGED pagesVars
  /\ IF except = "exports" THEN TRUE ELSE UNCHANGED auditVars
  /\ IF except = "seeding" THEN TRUE ELSE UNCHANGED seedingVars
  /\ IF except = "row" THEN TRUE ELSE UNCHANGED rowVars

RecordsNext ==
  \/ Resting("rollup") /\ Next
  \/ Resting("counts") /\ CountsNext
  \/ Resting("registry") /\ RegistryNext
  \/ Resting("directory") /\ SyncNext
  \/ Resting("taxonomy") /\ TaxonomyNext
  \/ Resting("thread") /\ ThreadNext
  \/ Resting("form") /\ FormNext
  \/ Resting("pages") /\ PagesNext
  \/ Resting("exports") /\ AuditNext
  \/ Resting("seeding") /\ SeedingNext
  \/ Resting("row") /\ RowNext

RecordsSpec == RecordsInit /\ [][RecordsNext]_recordsVars

\* The components share their model values, each for a purpose of its own, so
\* that one small group of permutations serves them all.
RecordsSymmetry == UNION {Permutations(S) : S \in {Logins, ProfileIds, Numbers}}

\* Every variable of the component picked keeps its type.
RecordsTypeOK ==
  /\ part = "rollup" => TypeOK
  /\ part = "counts" => CountsTypeOK
  /\ part = "registry" => RegistryTypeOK
  /\ part = "directory" => SyncTypeOK
  /\ part = "taxonomy" => TaxonomyTypeOK
  /\ part = "thread" => ThreadTypeOK
  /\ part = "form" => FormTypeOK
  /\ part = "pages" => PagesTypeOK
  /\ part = "exports" => AuditTypeOK
  /\ part = "seeding" => SeedingTypeOK
  /\ part = "row" => RowTypeOK
================================================================================
