------------------------------ MODULE ProviderSync ------------------------------
(***************************************************************************)
(* The directory of service providers and the sync of one source:          *)
(* services/service_provider_sync.py, service_provider_adapters.py and the *)
(* doctypes of providers and sources.                                      *)
(*                                                                         *)
(*   catalog    what the source lists, by its own ID (without regard to    *)
(*              case); an item without a name counts as not listed         *)
(*   directory  Grievance Service Provider by its ID; a branch has no ref  *)
(*   enabled    is_enabled of the source                                   *)
(*   job        the run queued or running, the directory as its            *)
(*              transaction saw it first, and the rows the adapter answered *)
(*   listed     the rows of the last run, unless it failed or somebody     *)
(*              edited a provider since                                    *)
(*   status     last_sync_status                                           *)
(*   touched    somebody edited a provider since                           *)
(***************************************************************************)
EXTENDS Integers, FiniteSets, Functions

CONSTANTS
  Refs,
  Details,                    \* a name and a region, as the source gives them
  Unfit,                      \* the details a provider is refused for (a name too long)
  NoProvider,
  MaxIds, MaxTouches          \* bounds: IDs drawn from the series, edits by hand

VARIABLES catalog, directory, enabled, job, listed, status, touched, touches

syncVars == <<catalog, directory, enabled, job, listed, status, touched, touches>>

Ids == 1..MaxIds
Lists == UNION {[S -> Details] : S \in SUBSET Refs}
NoList == [r \in {} |-> NoProvider]

Row(ref, item, active, parent) ==
  [ref |-> ref, item |-> item, active |-> active, parent |-> parent]
Rows == [ref : Refs \cup {NoProvider}, item : Details \cup {NoProvider}, active : BOOLEAN,
         parent : Ids \cup {NoProvider}]
ASSUME SyncAssumption == MaxTouches \in Nat /\ NoProvider \notin Refs \cup Rows

Directories == [Ids -> Rows \cup {NoProvider}]

Idle == [at |-> "none", seen |-> NoProvider, rows |-> NoProvider]

SyncTypeOK ==
  /\ catalog \in [Refs -> Details \cup {NoProvider}]
  /\ directory \in Directories
  /\ enabled \in BOOLEAN
  /\ job.at \in {"none", "queued", "running"}
  /\ job.at = "running" => job.seen \in Directories /\ job.rows \in Lists \cup {NoProvider}
  /\ listed \in Lists
  /\ status \in {"None", "Success", "Partial", "Failed"}
  /\ touched \in BOOLEAN /\ touches \in 0..MaxTouches

Exists(id) == directory[id] # NoProvider

SyncInit ==
  /\ catalog = [r \in Refs |-> NoProvider]
  /\ directory = [id \in Ids |-> NoProvider]
  /\ enabled = FALSE
  /\ job = Idle /\ listed = NoList /\ status = "None"
  /\ touched = FALSE /\ touches = 0

-----------------------------------------------------------------------------
(***************************************************************************)
(* The source, and the people who edit by hand.                            *)
(***************************************************************************)
Publish(ref, item) ==
  /\ catalog[ref] # item
  /\ catalog' = [catalog EXCEPT ![ref] = item]
  /\ UNCHANGED <<directory, enabled, job, listed, status, touched, touches>>

\* enqueue_sync: the job ID keeps a second run of the source out.
Queued == IF job.at = "none" THEN [job EXCEPT !.at = "queued"] ELSE job

\* Turning a source on queues its first run after the commit.
EnableSource(on) ==
  /\ enabled # on
  /\ enabled' = on
  /\ job' = IF on THEN Queued ELSE job
  /\ UNCHANGED <<catalog, directory, listed, status, touched, touches>>

\* The daily job, a migration or the endpoint.
AskSync ==
  /\ enabled /\ job.at = "none"
  /\ job' = Queued
  /\ UNCHANGED <<catalog, directory, enabled, listed, status, touched, touches>>

Touch(written) ==
  /\ touches < MaxTouches /\ touches' = touches + 1
  /\ touched' = TRUE
  /\ directory' = written /\ listed' = NoList
  /\ UNCHANGED <<catalog, enabled, job, status>>

\* Only Active is the administrator's (validate_sync_owned_fields).
SetActive(id) ==
  /\ Exists(id)
  /\ Touch([directory EXCEPT ![id].active = ~@])

\* A branch by hand, under a provider that is there.
AddBranch(id, parent) ==
  /\ ~Exists(id) /\ Exists(parent) /\ directory[parent].ref # NoProvider
  /\ \A other \in Ids : Exists(other) => directory[other].ref # NoProvider
  /\ Touch([directory EXCEPT ![id] = Row(NoProvider, NoProvider, TRUE, parent)])

-----------------------------------------------------------------------------
(***************************************************************************)
(* A run.                                                                  *)
(***************************************************************************)

\* ApiAdapter._rows: an item without a name is skipped.
Answer == [r \in {q \in Refs : catalog[q] # NoProvider} |-> catalog[r]]

Record(outcome) ==
  /\ status' = outcome
  /\ job' = Idle

\* run_sync reads the source, and then the list; a source that cannot be read
\* answers nothing.
StartSync(answered) ==
  /\ job.at = "queued"
  /\ IF enabled
     THEN /\ job' = [at |-> "running", seen |-> directory,
                     rows |-> IF answered THEN Answer ELSE NoProvider]
          /\ UNCHANGED status
     ELSE Record("Failed")
  /\ listed' = IF enabled THEN listed ELSE NoList
  /\ UNCHANGED <<catalog, directory, enabled, touched, touches>>

Owned(dir) == {id \in Ids : dir[id] # NoProvider /\ dir[id].ref # NoProvider}

\* The row a ref has, in the directory the run saw.
Known == {job.seen[id].ref : id \in Owned(job.seen)}

Unusable == job.rows = NoProvider \/ DOMAIN job.rows = {}

\* Judged on the whole list, not on the rows that saved.
StillListed(ref) == ref \in DOMAIN job.rows

\* What a delete is refused for, in the directory the run saw.
LinkedTo(dir, id) == \E branch \in Ids : dir[branch] # NoProvider /\ dir[branch].parent = id

\* A provider that is refused is not inserted; the run goes on without it.
Created == {r \in DOMAIN job.rows \ Known : job.rows[r] \notin Unfit}

\* Mutant: an update leaves Active as it is.
Brought_KeepsActive(id) ==
  LET row == job.seen[id] IN
  IF StillListed(row.ref)
  THEN IF job.rows[row.ref] \in Unfit THEN row ELSE [row EXCEPT !.item = job.rows[row.ref]]
  ELSE IF LinkedTo(job.seen, id) THEN [row EXCEPT !.active = FALSE]
  ELSE NoProvider

\* _apply on one row it saw: updated in place and active, or left as it was when
\* refused; removed, or deactivated where something links to it.
Brought(id) ==
  LET row == job.seen[id] IN
  IF StillListed(row.ref)
  THEN IF job.rows[row.ref] \in Unfit THEN row
       ELSE [row EXCEPT !.item = job.rows[row.ref], !.active = TRUE]
  ELSE IF LinkedTo(job.seen, id) THEN [row EXCEPT !.active = FALSE]
  ELSE NoProvider

\* A refused row is not written, nor is an inactive one something links to; one
\* that did not change has its last_synced_at written.
Written(id) ==
  /\ id \in Owned(job.seen)
  /\ Brought(id) # job.seen[id] \/ (job.seen[id].ref \in DOMAIN job.rows
                                      /\ job.rows[job.seen[id].ref] \notin Unfit)

\* MariaDB refuses a write to a row changed since the snapshot.
SyncOutrun == \E id \in Ids : Written(id) /\ directory[id] # job.seen[id]

\* The list was not usable, or an error nobody expected rolled the run back to
\* its savepoint: the failure is recorded, and committed with the job.
FailSync ==
  /\ job.at = "running"
  /\ Record("Failed") /\ listed' = NoList
  /\ UNCHANGED <<catalog, directory, enabled, touched, touches>>

\* The worker is killed, or the database refused a write and rolled back the
\* transaction, savepoint and all: nothing is recorded.
DropSync ==
  /\ job.at = "running"
  /\ job' = Idle
  /\ UNCHANGED <<catalog, directory, enabled, listed, status, touched, touches>>

ApplySync ==
  /\ job.at = "running" /\ ~Unusable /\ ~SyncOutrun
  /\ \E fresh \in {f \in [Created -> {id \in Ids : ~Exists(id)}] : IsInjective(f)} :
       directory' = [id \in Ids |->
         IF \E r \in Created : fresh[r] = id
         THEN Row(CHOOSE r \in Created : fresh[r] = id,
                  job.rows[CHOOSE r \in Created : fresh[r] = id], TRUE, NoProvider)
         ELSE IF Written(id) THEN Brought(id) ELSE directory[id]]
  /\ Record(IF Range(job.rows) \cap Unfit = {} THEN "Success" ELSE "Partial")
  /\ listed' = job.rows
  /\ touched' = (touched /\ directory # job.seen)
  /\ UNCHANGED <<catalog, enabled, touches>>

SyncNext ==
  \/ \E ref \in Refs, item \in Details \cup {NoProvider} : Publish(ref, item)
  \/ \E on \in BOOLEAN : EnableSource(on)
  \/ AskSync
  \/ \E id \in Ids : SetActive(id) \/ \E parent \in Ids : AddBranch(id, parent)
  \/ \E answered \in BOOLEAN : StartSync(answered)
  \/ ApplySync \/ FailSync \/ DropSync

SyncSpec == SyncInit /\ [][SyncNext]_syncVars

-----------------------------------------------------------------------------
\* After a run that succeeded, and until somebody edits by hand, the active
\* providers of the source are the ones it listed, each once and as listed.
DirectoryMirrorsSource ==
  status = "Success" /\ ~touched =>
    LET active == {id \in Owned(directory) : directory[id].active} IN
    /\ {directory[id].ref : id \in active} = DOMAIN listed
    /\ \A id \in active :
         /\ directory[id].item = listed[directory[id].ref]
         /\ \A other \in active \ {id} : directory[other].ref # directory[id].ref

\* A provider keeps its ID as long as it is listed: one goes only when a list
\* that was read left it out (_apply, run_sync).
ListedKeepsId ==
  [][\A id \in Owned(directory) :
       directory'[id] = NoProvider => directory[id].ref \notin DOMAIN listed' /\ DOMAIN listed' # {}]_syncVars
================================================================================
