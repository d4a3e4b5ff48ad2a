# Verification of the OAN grievance service

TLA+ models of `oan_grievance_service` (a Frappe app), the TLC runs that check
them on small instances, and TLAPS proofs of what holds in every instance. Paths
are relative to `src/oan_grievance_service/` unless they start with `src/`.

## 1. The system

A citizen files a grievance. It is routed to an officer, worked through a
workflow, watched by an SLA clock, escalated when it is late, changed through
requests that somebody above approves, and counted on dashboards. Web requests,
jobs of the RQ workers and scheduled sweeps all write the same rows, each in a
database transaction of its own.

| Component | State it keeps | Operations | What makes it correct |
|---|---|---|---|
| Workflow (`setup/install.py`, `services/lifecycle.py`) | the states and moves, seeded once | looked up on every move | final states offer no move; each state says what it does to the clock |
| SLA clock (`services/sla.py`) | start, due date, hold, banked hold, next escalation, reminders, state timer | start, hold, resume, restart, arm, escalate | one deadline, explained by what happened; a late open case is handed up |
| Case lifecycle (`doctype/grievance/grievance.py`, `api/v1/grievance.py`, `services/hooks_handlers.py`) | the row | moves, saves, reactions to approved changes | a final case is never written; the stamp follows the state |
| Change requests (`doctype/grievance_change_request`, `services/reassignment.py`) | old and new values, approver, status | raise, approve, reject, forward | no approval of what went stale; a request always has an approver |
| Sweeps (`tasks.py`) | only a database snapshot | remind, escalate, expire timers, forward, re-queue | act on what is true when the write lands |
| Desks and officers (`services/officer.py`, `services/category_assignment.py`) | the rows of each desk, roles | hire, move, promote, retire, seat | everyone above somebody works; a head holds the head's role |
| Escalation ladder (`services/sla.py`) | role levels, desks | find who is above | the ladder climbs and ends |
| Routing (`services/routing.py`) | queue state on the case | rank desks, route one, drain | every case is routed once and reaches Assigned |
| Permissions (`permissions.py`) | none | the list's SQL, the document's Python | the two agree |
| Notifications (`services/notifications.py`) | queue rows with status and attempts | enqueue with de-duplication, dispatch, retry | nothing lost, nothing sent twice, second rounds not silenced |
| Attachment scanning (`services/scanning.py`) | scan status per attachment, shared files | scan, defer, retry, discard infected twins | a verdict for every upload; a condemned one stays condemned |
| Duplicates (`services/duplicates.py`) | flags and the link to the main ticket | flag, confirm, dismiss | one ruling makes a duplicate |
| Intake and ticket numbers (`services/intake.py`, `ticket_number.py`, `submit`) | the series, the cases | file, deliver again | a call or a submission is filed once |
| Dashboard rollup (`services/dashboard_rollup.py`) | three tables, four Redis keys | ask, run, refresh inline | no refresh overlaps another, no change is forgotten |
| Charts (`services/dashboard.py`) | none | scope, count, walk back | they count what the caller's list shows |
| Submitters and organizations (`services/organization.py`, `identity.py`, `api/v1/submitter.py`) | profiles, organizations, blocks | register, edit, verify, suspend, block | what is Active is what was verified |
| Provider sync (`services/service_provider_sync.py`) | directory rows, sync log | one run per source | the directory is what the source listed; a failed run leaves the old one |
| Taxonomy (`api/v1/taxonomy.py`, its doctypes) | categories, types, the default | create, promote, retire, restore | exactly one default |
| Conversation, timeline, form (`api/v1/grievance.py`, `services/ticket_form*.py`) | entries, messages, ratings | post, page through, print | the form says what happened; a page skips nothing |
| Audit and exports (`services/audit.py`, `ticket_export.py`) | audit rows | authorise, build, record, hand over | nothing leaves without a record |
| Installation (`setup/install.py`, `patches/`) | seeded records | patch, seed | a migration keeps what people chose |
| SLA calendar, rendering, validation, gateway | reference data | lookups | see PROJECT.json |

How they interact. A move is a save; `after_workflow_action` (called from the
save) runs the clock, the state timer, the resolution stamp, history and
notifications in the same transaction. An approved change request saves the case
from its own `on_update`. The sweeps call the clock with `db_set`, which skips the
save and its checks, except that Auto Close goes through `apply_workflow` and so
through a save. Saves ask for a dashboard refresh after their commit, through
Redis and the long queue; filings queue a routing job and a flag job, uploads a
scan job, events a dispatch, each with a scheduled sweep behind it for the jobs
that are lost.

What is hard here: the sweeps read a snapshot and write much later; a change
request is ruled on long after it was raised; the next escalation and the deadline
are each moved by five paths that must agree; `db_set` goes around the guards that
saves have; the same question (who may see a case, who stands above whom, what a
case is counted as) is asked in SQL, in Python and in the words of the rollups;
Redis keys, the queue and the database do not commit together; and workers die
between any two steps. PROJECT.json lists these hazards at their lines, with the
properties that watch them or the reason there is none.

## 2. Modules

The case and its clock:

| Module | Models |
|---|---|
| `GrievanceWorkflow` | the states, what each does to the clock, the moves and who takes them: constants |
| `SlaClock` | `services/sla.py` as functions from the case before a call to the case after it, and `hooks_handlers.after_workflow_action` (`Arrive`) |
| `GrievanceCase` | one case under moves, change requests and the three sweeps |
| `RowWrites` | the row of a case under everybody who writes it: open forms, requests, sweeps |
| `ClockContract` | what the clock promises, with no dates in it: time burns only while it runs |

The services around it:

| Module | Models |
|---|---|
| `DeskDirectory` | the desks and every question asked of them: covering rows, supervisor, team, the rung above, routing's ranking and pick |
| `OfficerDesks` | the edits of the desks: hiring and updating by an administrator or a head, category assignments |
| `CaseAuthority` | one case among those desks: routing, escalation, reassignment (`Resolve`, `ValidMove`), rulings, forwarding, the list's SQL and the document's Python |
| `ChartScope` | whose cases a caller's charts count, in the columns of the rollups |
| `CaseRouting` | the routing job, the hourly drain and the others who write an unrouted case |
| `AttachmentScan` | uploads, scan jobs, the sweep, twins that share bytes, deletions, killed workers |
| `NotificationQueue` | events, reminders, dispatchers that take, send and record, killed workers |
| `DuplicateRuling` | flag jobs, and officers who confirm and dismiss across each other |
| `TicketIntake` | deliveries of calls and portal submissions that cross, the series and the callers' profiles |

The records beside it:

| Module | Models |
|---|---|
| `DashboardRollup` | requests, runners and `refresh_now` of the dashboards, step by step between Redis calls |
| `RollupCounts`, `Charts` | what a refresh counts for which days, and the charts that walk over those counts |
| `SubmitterRegistry` | organizations, profiles, blocks and verification |
| `ProviderSync` | runs of one source over a directory people also edit |
| `Taxonomy` | categories and types edited by crossing requests |
| `CaseThread` | messages, actions with notes and ratings on one case, delivered twice and crossing |
| `CaseForm` | what the exported form reads out of the moves and entries, and the record page beside it |
| `TimelinePages` | the timeline read page by page while it grows |
| `AccessAudit` | an export from its check to its hand-over, and the audit row between |
| `Seeding` | the patches and seeds of a migration over what people edited |

`MCGrievanceCase`, `MCDashboardRollup`, `MCServices` and `MCRecords` give the
constants small values; `MCServices` composes the services, `MCRecords` the
records. `GrievanceCaseProofs`, `CaseClockProofs`, `CaseContractProofs`,
`DashboardRollupProofs`, `FilingProofs`, `HandOverProofs`, `RecordsProofs` and
`CaseAuthorityProofs` hold the theorems (section 5).

### GrievanceCase

`case` is the row as last committed: `workflow_state` (state), `service_category`,
`assigned_to` (as the rung its officer holds), `sla_start_at`, `sla_due_date`,
`on_hold_since`, `total_hold_time`, `next_escalation_at`, `escalated`,
`escalated_at`, the two reminder flags, `state_deadline` and `resolved_at`. Times
are ticks; one tick is an hour.

| Action | Code |
|---|---|
| `Route` | `routing.route_grievance_job`: only an unowned Submitted case |
| `TakeAction(m)` | `api/v1/grievance.py` `action`, then `Arrive`; also the Confirm Duplicate of the duplicate endpoints |
| `RaiseRequest`, `RaiseDecidedRequest` | `GrievanceChangeRequest.before_insert`: the request waits, or its requester stands above the case and it is applied at once |
| `ApproveRequest`, `RejectRequest` | `on_update` with `check_not_stale` and `guard_terminal_state`; applying is `Grievance.apply_change_request` and `on_update` |
| `SendReminder` | `tasks.send_sla_reminders` |
| `SelectBreached`, `EscalateSelected` | `tasks.escalate_breached` before and after the window between reading and writing |
| `SelectExpired`, `ExpireSelected` | `tasks.expire_state_timers`, the same |
| `Tick` | the wall clock, also while a sweep holds its row |

A user's save is one action: Frappe reads the row for update and refuses a save of
a row modified since it was loaded. A sweep is two actions: it holds the row it
selected, and any save may commit before it writes. What happens then depends on
the database. MariaDB 11.6 and later, which the deployment and CI use
(`src/docs/ticket-export.md:47`, `services/audit.py:44`), refuse a write to a row
changed since the writer's snapshot, the sweep logs the error and the next hourly
run tries again: a snapshot that was outrun is `Lost` and its write does nothing.
`SnapshotIsolation = FALSE` is an older database, where the write lands on the row
as it is; `case_no_isolation` shows what still holds there. `SweepsActOnLiveRows`
does not: isolation is what the sweeps rely on.

`requests` are the pending change requests, each with the values it was raised on
and the values asked for. `granted` is history, not code: the deferral granted in
the present window, which `DeadlineAccounting` needs to say what the deadline
should be.

Abstracted: holidays (a deadline is start plus window, as when no holiday list
applies), who may approve (any pending request may be approved or rejected), the
choice of the officer above (`HigherAuthority` is any table; `DeskDirectory` says
which), and what notifications say.

### DashboardRollup

`flags` are the Redis keys that are there (DIRTY, FULL, LOCK, PENDING), `queue` the
runner jobs waiting, `pc` where each saver, scheduled job, worker and patch stands.
Every Redis call is a step of its own, so any two actors cross anywhere. The data
are versions: `data` as committed, for recent and for older days; `shown`, what the
rollup rows were counted from; `seen`, the snapshot a refresh reads. An incremental
refresh brings recent days up to its snapshot, a full one the older days too.
`refresh_now` runs in the transaction of its patch, whose snapshot opened when the
patch first read (`patches/add_assignee_to_dashboard_rollups.py:25`), and commits
after it returned. Failures are actions, counted by `faults` and enabled by kind:
a failed refresh, a failure between refresh and commit, a killed worker, a request
that never reached Redis (or a write that skips document events), a request that
expires untaken, a refused enqueue, a lost job. LOCK expires only when its holder is
gone: the long queue kills a job (25 minutes) before LOCK_TTL (30 minutes) runs out.

`RollupCounts` is the other half: given that a refresh runs, which days it counts
again (`RebuiltDays`: the window, and older filing days whose case was first
escalated, first answered or moved in it, `BACKFILL_DAYS_MAX` at most) and what it
leaves to the nightly rebuild (`owing`). `Charts` reads its two tables.

### Desks, authority and routing

`seat[d][u]` is officer `u`'s row on desk `d`: rung, area, supervisor, whether it is
active, on leave, primary. Where the code takes the first row of a query that does
not decide between equals, the operator gives the set of the possible answers and
the action picks one. Areas are the nested sets of the tree, as `lft` and `rgt`.
`OfficerDesks` translates each check of the two services before it writes
(`_assert_head_free`, `_assert_nobody_reports_to`, `_resolve_supervisor`,
`scope_update`); a call that fails one is not an action. `CaseAuthority` adds one
case (`held`), its pending request, and the people who moved it, whom the
document's check lets in and the list's does not name. `ChartScope` has no state: it is
`caller_scope` and `_apply_scope` of the same case; `LeftOut` names the kinds of cases
the charts do not count though the list shows them. A case from the IVR may have no
area; the rollups join a case to its area and hold none without one (`InRollup`).

`CaseRouting` leaves the choice of the officer open and is about who routes: the
job a filing queued, with the moment between its read and its write, and the
drain, which reads all its rows at once, routes them one by one under savepoints
and commits at the end. Others save, move or hand over the case meanwhile
(`Upset`), on a database with and without snapshot isolation.

### Workers and rulings

`AttachmentScan`: a worker is one transaction. `view` is its snapshot with its own
writes over it; an UPDATE compares with the row as it is now and locks it until the
commit; bytes leave the disk at once. `clamd` is whether the scanner answers, and
changes at any moment: a sweep that finds it silent does nothing, a scan under way
is deferred. A write that waits for a lock too long undoes its statement only
(`LockTimeout`); the sweep goes on, with what it wrote. `NotificationQueue`: a dispatcher locks a row
(FOR UPDATE SKIP LOCKED), hands it over, records it and commits; an e-mail is handed
over by a row of the same transaction, a text message leaves at once, so only a text
can leave from a worker that is then killed. `DuplicateRuling`: a ruling reads the
ticket and its pending rows, then saves them; a row saved since is a timestamp
mismatch and the whole request rolls back. `TicketIntake`: a delivery looks
(`Look`: its snapshot), then writes under the unique key of the call and the row of
the series, and rolls back or answers.

### Records

`SubmitterRegistry` writes an organization and its representative's profile
together, as the code does, and keeps `verified`, what an administrator last made
Active, as history. `ProviderSync` has the directory as it is and as the run's
transaction saw it first; a run writes only the rows that differ from the list, and
may be dropped without a word (`DropSync`).
`RowWrites` takes the saves of `GrievanceCase` apart and leaves out what they mean: a
form writes what it was opened on, perhaps hours ago; a request loads the row, goes on
and saves every column; a sweep writes single columns and leaves `modified` alone. A
column's value is the number of its writing, so one that goes back has lost a write.
`Taxonomy`'s requests read `snap` and are refused on a row in `moved`. `CaseThread`
refuses a request that writes a case written since it began, but not one that only
adds an entry. `CaseForm` keeps moves and entries in one sequence and states what
the form finds in it; `TimelinePages` separates the stamp of an entry from its
commit. `AccessAudit` puts a step between every two writes of an export, with a
commit that fails having happened or not. In `Seeding` one fact stands for each kind
of seeded record or converted datum; a site was set up with any prefix of
`patches.txt`, is migrated, edited, crashed and migrated again.

## 3. Runs

| Run | Checks | Shows |
|---|---|---|
| `case_safety` | `DeadlineAccounting`, `EscalationInsideWindow`, `TerminalIsFinal`, `DeadlineOnlyMovesOut`, `SweepsActOnLiveRows` | with a request pending and both sweeps racing every save: the deadline is explained by what happened, the first bump falls inside the window, a final case is not written, no step brings the deadline forward, sweeps act on what is still true |
| `case_liveness` | `ImplementsContract`, `WaitingOnSubmitterEnds`, `OverdueIsEscalated` | the columns implement `ClockContract`; a case waiting on its submitter is closed in the end, an overdue one handed up |
| `case_no_isolation` | `FinalOutcomeKept` | on a database that refuses no write the outcome of a final case stands |
| `rollup_safety` | `RequestNotStranded`, `ChangesAccounted`, `RebuildNotForgotten` | with failing refreshes and enqueues, on a database that refuses nothing: no change or rebuild is forgotten, and until something fails somebody is bound to look while DIRTY is up |
| `rollup_recovery` | `DashboardsCatchUp` | after any one failure the dashboards catch up for good |
| `services_safety` | `ServicesTypeOK`, `CondemnedForGood`, `HandedOverOnce`, `ListMirrorsDocument`, `ResolvedIsAccepted`, `LadderClimbs`, `RoutingFindsSomeone`, `ChartsMirrorList`, `DuplicateHasOneRuling`, `FiledOnce` | verdicts, notices, rulings and filings happen once although workers and officers cross; who sees, receives and rules on a case stays right while desks are edited |
| `services_liveness` | `PendingSettles`, `QueuedIsHandled`, `RequestReachesAdmin`, `FiledCaseRouted` | once clamd answers for good every upload gets a verdict, every notice is handled, every request nobody rules on reaches the administrators, every filed case gets an officer |
| `records` | `RecordsTypeOK`, `NothingTakenBack`, `IncrementalIsEnough`, `BacklogMatchesHistory`, `ActiveIsVerified`, `OfficerBlockStands`, `DirectoryMirrorsSource`, `OneDefault`, `RatingFits`, `FormTellsTheCase`, `PagesCover`, `HandedOverOnRecord`, `SeedingKeepsEdits` | the records beside the cases and the writers of one row, each under its own crossings and crashes; the rollup also while a migration refreshes inline |
| `case_stopped_stays_disarmed`, `case_hold_inside_window`, `rollup_patch_strands`, `assignee_desk` | one property each, violated | section 4 |

Deadlock is not checked: in every run the clock stops at its bound, or everybody
has finished, or the bound on edits is used up.

**Case.** One case, both sweeps, one rung above the first officer. `MaxNow` stops
the clock, `MoveHorizon` is the last hour in which users act, so that sweeps and
timers can run out after the last move, `MaxDue` limits the deadlines asked for,
`MaxPending` the requests pending at once. Windows are two hours (`land`, first
bump at half the window), one hour (`water`, first bump at the deadline, and an
Escalate timer on Assigned) and none (`other`, without an active configuration).
That is enough for a hold that spans the deadline, a deferral during and after a
hold, a reopening, a recategorisation either way, a second escalation and two
sweeps holding the same row.

**Rollup.** Two savers and two runners: the smallest number of runners that can
overlap, and of savers that can cross with each other and a runner. `MaxData` is one
version more than a runner can answer in one pass. `rollup_recovery` has one saver,
the nightly request and one worker, fewer helpers than the deployment has, so
recovery owes nothing to a lucky save. A migration that refreshes inline is the
part "rollup" of `records`.

**Services and records.** These components share no variable. A behaviour of
`ServicesSpec` or `RecordsSpec` picks one `part` and is a behaviour of that
component while the others rest, so one run checks each of them on its own state
space, and their sizes add up where they would multiply. Two workers, dispatchers,
rulers, editors or exports cross in each, which is where an order nobody tested
first appears; scans have two uploads of the same bytes, duplicates three tickets
that all look alike (the smallest chain), intake five deliveries: a call twice, a
second call of the same caller, and a submission twice. Four officers on three
rungs, up to five desks in two regions and a woreda, one on leave, one bare triage
desk, two edits of any kind (`MaxEdits`), let a supervisor be retired, moved below
their report, or seated twice. Killed scan workers, a second reminder window and
change requests are in `services_liveness` only: waiting out faults is its question,
and no property of `services_safety` reads a request. It has one scanner, and a sweep
of one row for two uploads (`SweepBatch`; two elsewhere). Outages of clamd are in both
runs, at any moment and without a bound. `OrgTypes` has one element in `records`: that `ActiveIsVerified` does not
depend on it is proved. Two forms, a request and a sweep write a row three times: a read, a sweep
past its stamp and a save on the read, and one write more. In `records` the components share model values, each for
its own purpose, so that one small symmetry group serves them all; symmetry is
used in safety runs only.

**Fairness.** No person ever has to act, and no failure has to happen or to stop
happening: failures are bounded by `MaxFaults`, `MaxScanFaults`, `MaxSendFaults`.
Fair, weakly, is what the scheduler and the workers do. `Fairness` of the case: the
clock and the four sweep actions (hourly, `hooks.py`; an overdue row stays
selectable until somebody writes it). `Fairness` of the rollup: the scheduler,
savers that have committed, workers with a job, and the expiry of keys.
`ScanFairness` and `NoticeFairness`: the sweep starts, and a worker that started
goes on. Nothing is assumed of clamd: that an outage ends is a premise of
`PendingSettles`, as no row is given up on while it lasts. `RoutingFairness`: the drain starts, takes each case, commits.
`AuthorityFairness`: the forwarding of stale requests.

Each property has a mutant, a plausible bug named and described beside the
definition it replaces (`PROJECT.json`, "mutants"), under which the same run finds
the property violated.

## 4. Where code and comments disagree

Four have a run that TLC must find violated.

| Run | The comment or document | What happens |
|---|---|---|
| `case_stopped_stays_disarmed` | `services/sla.py:366`: a Stopped case stays disarmed | a deferral approved on a Resolved case arms it again, and the escalation sweep looks at no state |
| `case_hold_inside_window` | `src/docs/reassignment_architecture.md:173`: a new category clears the hold | `reset_clock` clears the banked hold, not `on_hold_since`; the old hold is added to the new deadline |
| `rollup_patch_strands` | `services/dashboard_rollup.py:443`: whoever holds the lock looks again | `refresh_now` does not, nor does a run that raises; the request waits for the 15-minute run |
| `assignee_desk` | `doctype/grievance/grievance.py:224`: a case goes only to an officer on an active desk | escalation writes the officer with `db_set`, past that guard (`services/sla.py:649`), and a supervisor may sit on no desk |

The others are behaviours met while modelling. The models have those that touch
their state; no run singles them out.

Clock and rollup:
- `services/sla.py:270`: a case without a deadline has nothing to escalate against,
  but `arm_escalation` returns before it clears what an earlier category armed.
- `services/sla.py:583`: "a response clears the flag", but only `reset_clock` clears
  `escalated`. Reminder flags are not tied to the deadline they were sent for
  (`grievance.py:500`), so a moved deadline may go without its own.
- `services/dashboard_rollup.py:483`: `refresh_now` answers every request raised so
  far, but its snapshot is older than the flags it takes. This is why
  `ChangesAccounted` is stated without a migration. At `:481` a held lock has a
  third outcome: under snapshot isolation its delete is refused and the migrate fails.
- Reopening moves events of a resolved day, and such a day may keep its old
  assignee. The backlog walk leaves confirmed duplicates out.

- A form opened before an escalation and saved after it puts `escalated` back
  (`grievance.json:113`): the column has no permission level and is not requestable,
  and a sweep leaves the stamp the save compares. On a database that does not refuse
  it, a request puts back all a sweep wrote since it began.

Desks, routing and requests:
- `officer.py:581`: reactivating a head skips the check for another head. A category
  added by `officer.py:637` gives the new row neither region nor supervisor. A
  status edit of somebody who sits in several departments reseats them.
  A category assignment can leave an L2 reporting to an L1, and, against
  `src/docs/desk-scoping-and-authority.md`, the head's role on who no longer heads.
  A reviewer's login in an L1 seat gets cases but no Officer role.
- `forward()` (`grievance_change_request.py:186`) goes back and forth between a
  requester and a retired supervisor, which is why `RequestReachesAdmin` asks for a
  sound ladder.
- `src/docs/routing-architecture.md:95`: "A case only stays unassigned when the
  Unrouted desk is deactivated"; also when its officer is on leave. The drain
  reads its rows once and overwrites the officer of a case routed meanwhile. A
  Submitted case given an officer by a request never reaches Assigned. Fifty rows
  without an order can starve the fifty-first. Crossing jobs exceed the cap of
  Least Loaded.
- A reviewer who is placed nowhere sees every case in the list and zeros in the
  charts.
- `grievance.py:172` waives the area of a case from the IVR, and `intake.py:102` files
  without one. Its officer, their team and a desk for any area find it in the list;
  the rollups join the area (`dashboard_rollup.py:139`), so no chart counts it, the
  administrator's included.

Scanning, notices, duplicates, filing:
- `scanning.py:85`: "a day of outage before a row is given up on", of 24 hourly
  attempts. But `scan_pending` (`:412`) skips the whole sweep while clamd does not
  answer its PING and charges no attempt ("an outage costs no row a retry"), so a
  row waits as long as the outage lasts: `PendingSettles` without its premise `<>[]clamd`
  is violated, and so is the comment taken as `<>[]~clamd` in its place.
- A condemning sweep marks the twins its snapshot shows and it can lock; one uploaded
  or locked meanwhile keeps the verdict of its own scan.
- `scanning.py:394` and `test_attachment_api.py:436`: a condemned file whose bytes
  another row shares can still be on disk. `notifications.py:909`: a text may leave
  twice.
- `grievance.py:209`: a main ticket may become a duplicate itself; a flag job that
  comes late leaves a pending row on a Duplicate, which nobody can rule on;
  `duplicates.py:343`: the move is not always silent.
- After `DuplicateEntryError` in `_caller_profile` the second look uses the old
  snapshot and fails. MariaDB in its strict mode refuses the second of two crossing
  filings of a series. `grievance.json:126` says a retry returns the original
  ticket, `submit` throws. Two similar filings that cross both pass the prompt.
  Crossing saves may give two regions one ticket code.

Records:
- `/register` renames the linked profile: a representative who registers again as a
  farmer files for the organization under the new name (`FiledUnderVerifiedName`,
  which `organization.py` promises, fails with two names); registering again as an NGO that exists
  leaves a sign-up block nothing lifts; the block's reason is translated and then
  matched in English; `set_status` carries no version.
- A provider with a blank name is skipped and so removed though listed. "Only
  `is_active` is the admin's", but a run reactivates
  (`src/docs/service-provider-directory.md:215`). Deleted references may dangle.
- Renaming the catch-all type takes it away (`grievance_type.py:72`); crossing
  requests may leave a type under a retired category, or two of one name; a
  promotion that was raced is refused, not demoted as its comment says;
  `validate_code_is_unissued` looks only at cases under the category now. Moving or
  renaming an area leaves its children's `path_code`.
- Crossing deliveries with one `client_message_id` are both said
  (`test_router.py:364`); `created_on` is set before the commit, so an entry may
  appear before a cursor; a rating stays on a reopened case.
- `clear_holiday_cache` runs before the commit; a half-day holiday on a weekly off
  makes it a working day; weekly offs end with `to_date`.
- An audit row's own commit also commits what the request wrote before; after a crash
  there may be a row without a file; refusals that cross write more than ten rows.
- `setup/install.py:943`: a category renamed before its code was converted is seeded
  again and takes the default back. A renamed or deleted seed returns with the next
  migrate; region codes, workflows, channels and the approval of the triage desk are
  written over.

## 5. Proofs

Every theorem holds for all values of the constants that satisfy the named
assumptions of its modules; no bound on time, requests, workers, rows or rungs is
used. `PROJECT.json` lists all of them. The assumptions:

| Assumption | Says | Because |
|---|---|---|
| `NoneAssumption`, `CaseAssumption`, `DeskAssumption`, `RegistryAssumption`, `ThreadAssumption` | an empty field is no date, row, officer, block or person | NULL |
| `ConfigAssumption`, `TimerAssumption`, `RungAssumption` | windows are natural, thresholds a percentage, timers only what the workflow can carry out | `validate` of the SLA doctypes |
| `ActorsAssumption`, `RollupAssumption` | savers, jobs, workers and migrations are different actors | separate processes |
| `RowAssumption` | forms, requests and sweeps are different writers | separate requests and jobs |
| `DirectoryAssumption` | desks are numbered as they are created, the bounds of an area are in order | autoincrement, nested set |
| `CountedAssumption`, `PeriodAssumption` | the rollup counts finitely many cases and holders, a period has at least one day | tables have finitely many rows; a week or a month |
| `AreasAssumption` | an area inside another ends no later than it, no region lies in a region | nested set; `_grievances` joins the region around a case and would count it once for each |
| `CallsAssumption` | the calls that edit desks name desks, rungs, areas and people that exist | link and select fields, the request models |
| `PagesAssumption` | entry names and moments are natural, a page holds at least one entry | names of rows, `page_limit` of the endpoint |
| `EditableAssumption` | what people edit is what a form lets them, releases are positions in `patches.txt` | desk forms, the list itself |
| `DeliveriesFinite` | finitely many deliveries | they are counted in the type of a series |
| `WindowAssumption`, `NoticeAssumption`, `AuditAssumption`, `SyncAssumption`, `TaxonomyAssumption`, `AskedAssumption`, `ScanAssumption`, `RoutingAssumption`, `LogAssumption` | bounds are natural, there is an attachment, a notification names a channel that exists, the seeded category and type exist, a case is filed in an area or (IVR) in none, a sweep takes at least one row | `constants.py`, link fields, `install.py`, `grievance.py:172`, `scan_pending` |

Each proof is an inductive invariant that `Init` implies and every action keeps,
with one lemma per action.

**The case.** `DeadlineAccounting` is not inductive. The type of the next escalation
needs the deadline not to lie before the start, which the accounting says; the
accounting needs that a case without a deadline in a configured category has no
banked hold, and that a pending deferral asks for a later deadline than the one it was
raised on. `Books` is the conjunction; each function of `SlaClock` has a lemma that
it keeps `Sound`, the part about one case. `Standing` adds what the state says of
hold and stamp (`Matched`), `Kept` that the first bump lies inside the window
(`Inside`) and that a request asks modestly. From these: `TypeCorrect`,
`DeadlinesAddUp`, `HeldOnlyPaused`, `StampFollowsState`, `FirstBumpInWindow`,
`DeadlineMovesOut`, `PercentSurvivesHold`, `OutcomeIsKept`, with either isolation.
`Current` says that a row a sweep holds is the row as committed; it holds under
`SnapshotIsolation` only, and gives `SweepsActLive`, `FinalIsFinal` and `FirstDayStays`:
of everything that writes the case only a sweep touches the day of its first
escalation (`ArriveKeepsFirst`, `AppliedKeepsFirst`), and it goes by the row it read.
`ClockKeepsContract` maps every step of `GrievanceCase` to a step or a stutter of
`ClockContract`. It asks that every window be positive (`WindowsOpen`), since a
category without configuration has no clock and so no contract.

**The row.** What a writer holds of a row (`Copied`) is the row, until a write outruns
it; and while it has the stamp of the row it has its edits and its end, for only a save
changes those. So a form that passes the comparison of the stamp loses no edit, and
what a sweep wrote it cannot reach: the clock has a permission level, officer and
deadline take a change request. `WritesStand` adds that the database refuses a request
whose copy was outrun. `FormsAndSweepsStand` does without: then a request is the only
writer that may take anything back. Both rest on Frappe locking the row as a save loads
it, so that nothing comes between its comparison and its commit.

**The rollup.** `LockInv` (who refreshes has LOCK up, and only its holder, or the
expiry after its death, lowers it) gives `RefreshesExclude`, with no hypothesis.
`RebuildPart` says where a request for a full rebuild may be between its two flags;
`RebuildRemembered` asks for `NoneCutShort`, no worker killed, no request lost
between them and none expired, for then the nightly run is what repairs it. `ChangePart` says that a
snapshot about to be written is not newer than the cases nor older than the rows,
and where what it lacks is asked for: `NoChangeLost`, if what a failure takes is
put back (`Restorable`). `Attended` says who will look at DIRTY: `NobodyStranded`,
without a migration (`rollup_patch_strands` shows why). `CountsInv` says of each
wrong count which day explains it (`Explained`) and that this day is in the next
pass: `IncrementalSuffices`.

`NeverGoesBack` is an action property: what a day shows only grows. `Forward` carries
it: a snapshot that has not been overtaken is not older than what is shown. Without a
migration the lock alone sees to that; a migration reads without waiting for it, and
then it takes a database that refuses writes on an old snapshot, and one migration at
a time (`Isolated`). `RollupTyped` adds to the types what a step has read by then.

`BacklogAlways` says that two roads to the past lead to the same place: the snapshot
a refresh recorded, and the walk back from today by what happened since. `HistoryInv`
states each snapshot in terms of the dates the cases bear now (`SnapshotsHold`): a
filing date never changes, and no end does unless a case is reopened (`Fits`,
`MovesKeepHistory`). A resolved case that fell out of the window is counted on the
right day because a full rebuild is then owed (`ResolutionsHold`). The sums of
counts are sums of the community modules (`SumFunction`), a recursive function that
takes whatever element CHOOSE gives. That its value does not depend on the order is
proved here without induction over data, by taking a smallest set that would break
the law (`SmallestSubset`, `SumWithout`); then counting by day, holder or status and
adding up is counting once (`SumOfCounts`).

**Filing, rulings, verdicts, notices.** `IntakeInv`: a committed key has one case,
and what a delivery saw is still there (`FiledOnceAlways`, for either behaviour of
the database). `DuplicateInv`: a Duplicate has the ruling that made it, and a ruling
under way was read from rows that are unchanged or will be refused
(`OneRulingAlways`). `ScanInv`: what a worker's transaction saw and locked, and that
a condemned row lost its file (`CondemnedStays`). `NoticeInv` counts what left
against what was recorded and who died (`HandedOverOnceAlways`). The last
proof found an error of the model: `Send` could record an in-app notice that had not
left. `ToldOnceAlways`: what one transaction appends differs in its channels from
what the log has of the event, and from itself (`Appends`). `AnnouncedOnceAlways`
needs to know that a row still in Submitted was told to nobody, as committed and as
the drain wrote it (`ToldWithMove`), since the job and the drain decide by that state
only. In `IntakeTyping` a series counts the cases filed in it, and keys tell cases
apart, so it never counts further than there are deliveries (`SeriesBounded`); in
`ScanTyping` no copy of a row, committed or in a worker's hands, was tried more often
than `MAX_SCAN_ATTEMPTS` (`TriedWithin`).

**Types side by side.** `RecordsTyped` and `ServicesTyped` state the type invariants of
the composed modules. Each component has its invariant; a step of the composition is
a step of the component picked, or changes nothing of it (`PickedMoves`,
`PickedServes`).

**Records.** `RegistryInv` for `VerifiedAlways` and `BlockStands`; `TaxonomyInv`
with `ReadsHold` (what a request read is true or the row is in `moved` and its save
is refused) for `OneDefaultAlways`; `AuditInv` with `OnRecord` for `OnRecordAlways`;
`SyncInv` with `SeenHolds` and `RefsDiffer` for `MirrorsAlways` and
`ListedKeepsIdAlways`; `ThreadInv` for `RatingFitsAlways`; `FormInv` for
`FormTellsAlways`: the last move is the one that led to the state (`LastMoveLed`), and
every decision of a case that is open again was followed by its reopening
(`Reviewed`, `OpenUntilClosed`, `ReopensCounted`). `SyncInv` was not
inductive at first, and the reason was the model: a run put back the rows it does
not write, undoing an edit made meanwhile. `PagesInv` for `PagesCoverAlways`: what a page did not
take lies after all it took (`RestAfterPage`), and what commits late lies before the
cursor only if it was not there at the start. `SeedingInv` for `EditsSurvive`: each
fact reads what the release the site is at reads for it, given what people chose and
when (`Right`); each kind of patch carries that to the next release
(`PatchKeepsRight`), the seeds leave it alone (`EarlySeedsRight`, `LateSeedsRight`),
and a finished migration left nothing unseeded (`Settled`).

**Who sees and who receives.** `ListMirrorsAlways` needs no induction: for each scope
the clauses of the SQL and the exclusions of the Python are equivalent
(`ScopesAgree`), in every state. `ResolvedAcceptedAlways` follows the desks through
`Resolve`: each narrowing (`CategoryChoice`, `KeepDepartment`, `FirstDesks`) leaves
desks that `ValidMove` accepts, and each receiver sits and works on the desk it came
by (`ReceiverSeated`). It and the rest follow from one invariant, `AuthorityInv`: rows,
desks, case and request keep their types through every call (`EditKeeps`), no two
desks share a place in the order last modified first (`TouchKeeps`), and whoever is
on a top rung has the head's role (`RolesKept`, for `HeadsHoldRoleAlways`).
`RoutingFindsAlways` and `LadderClimbsAlways` both rest on keys having a least: over
naturals and tuples of them by well-foundedness (`LowestValue`, `LeastOfPairs`,
`LeastOfFours`). Routing's ranking keeps somebody at every narrowing
(`PickedAvailable`, `SomebodyPicked`); the authority is a supervisor or a row of a
later rung of `Chain`, and on a sound ladder an officer has one rung only
(`AboveSits`, `AuthorityHigher`). `ChartsMirrorAlways` compares the two ways of
saying whose cases a person sees. It needs `ScopeInv`: whoever sits on a desk or holds
any role was made officer or reviewer (`Granted`), and the case lies in an area of
the tree or in none (`Placed`). Then a desk's region and woreda keys meet those of the case only if the
case's area lies in the desk's (`RegionOfCase`, `ClauseIsDesk`), which gives both
directions (`ChartedIsListed`, `ListedIsCharted`). The proof added a kind to what
the chart leaves out: a case filed under no region; a case without an area is
another (`InRollup`), for which nothing but the first direction is left to show.

Some properties are proved and not run: `HeldOnlyPaused`, `StampFollowsState`,
`PercentSurvivesHold`, `FirstDayStays`, `ListedKeepsIdAlways`, `HeadsHoldRoleAlways`,
`NeverGoesBack`, `AnnouncedOnceAlways`, `ToldOnceAlways`, `RefreshesExclude`,
`FormsAndSweepsStand`.

**Only model-checked.** Every safety property of a passing run is proved. What is left
is liveness (`WaitingOnSubmitterEnds`, `OverdueIsEscalated`, `DashboardsCatchUp`,
`PendingSettles`, `QueuedIsHandled`, `RequestReachesAdmin`, `FiledCaseRouted`):
fairness and ENABLED are out of the prover's reach.

## 6. Not modelled, and what is next

`PROJECT.json` gives the status of every component. Not modelled: the working
calendar (a deadline is start plus window, as without a holiday list); rendering,
formats and request validation; read-only views; the gateway. Parts left out of
modelled components are named in their notes; among them are the other strategies
of routing, masking of identities, the webhook's signature, and the patches that
link attachments to files or rebuild the rollup (the latter is `refresh_now` of
`DashboardRollup`).

Hazards known and not listed, for being beside what the models check: a rebuild in
a patch that outlives LOCK_TTL (`dashboard_rollup.py:64`), a state timer cleared
before its move (`tasks.py:184`), and those of section 4.

Next: the calendar, as a recursive function against a reference definition.
