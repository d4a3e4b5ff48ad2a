----------------------------- MODULE CaseRouting -----------------------------
(***************************************************************************)
(* Who routes a case: the job a filing queues for it, and the hourly drain *)
(* for what jobs missed (services/routing.py).  Which officer is picked is *)
(* the matter of DeskDirectory; here any of RouteOfficers may be.          *)
(*                                                                         *)
(*   routed      each case as committed: state, officer and how often the  *)
(*               officer was told                                          *)
(*   routeJob    the case's job: waiting, or between its read and write    *)
(*   drain       the sweep: names left, the rows its snapshot shows, and   *)
(*               the rows it has written and not committed                 *)
(*   snapshots   whether the database refuses a write on a row that was    *)
(*               committed after the writer's snapshot (MariaDB 11.6+)     *)
(*   upsets      saves, requests and kills by others so far (bound)        *)
(***************************************************************************)
EXTENDS Naturals

CONSTANTS
  RouteCases,     \* the cases filed
  RouteOfficers,  \* officers some desk may pick
  Unpicked,       \* no officer
  MaxUpsets       \* bound: what others do meanwhile

ASSUME RoutingAssumption == MaxUpsets \in Nat

VARIABLES routed, routeJob, drain, snapshots, upsets

routingVars == <<routed, routeJob, drain, snapshots, upsets>>

Empty == [c \in {} |-> {}]
IdleDrain == [busy |-> FALSE, todo |-> {}, outrun |-> {}, wrote |-> Empty]

CaseRow == [state : {"Unfiled", "Submitted", "Assigned", "Elsewhere"},
            officer : RouteOfficers \cup {Unpicked}, told : 0..2]

RoutingTypeOK ==
  /\ routed \in [RouteCases -> CaseRow]
  /\ routeJob \in [RouteCases -> {"none", "queued", "loaded", "outrun"}]
  /\ drain.todo \cup drain.outrun \subseteq RouteCases
  /\ DOMAIN drain.wrote \subseteq RouteCases \ drain.todo
  /\ snapshots \in BOOLEAN /\ upsets \in 0..MaxUpsets

RoutingInit ==
  /\ routed = [c \in RouteCases |-> [state |-> "Unfiled", officer |-> Unpicked, told |-> 0]]
  /\ routeJob = [c \in RouteCases |-> "none"]
  /\ drain = IdleDrain
  /\ snapshots \in BOOLEAN
  /\ upsets = 0

-----------------------------------------------------------------------------
Unassigned(row) == row.state = "Submitted" /\ row.officer = Unpicked

Free(c) == c \notin DOMAIN drain.wrote

\* Every committed write outruns the snapshots in which the row is older.
OutrunJobs(S) ==
  routeJob' = [c \in RouteCases |->
                 IF c \in S /\ routeJob[c] = "loaded" THEN "outrun" ELSE routeJob[c]]

Behind(S) == IF drain.busy THEN [drain EXCEPT !.outrun = @ \cup S] ELSE drain

\* apply_routing: the officer is written at once; the transition reads the row
\* again, and from another state than Submitted it is refused.
Routes(row, u) ==
  IF row.state = "Submitted"
  THEN [row EXCEPT !.officer = u, !.state = "Assigned", !.told = @ + 1]
  ELSE [row EXCEPT !.officer = u]

\* enqueue_routing: a job that cannot be queued is only logged.
FileCase(c) ==
  /\ routed[c].state = "Unfiled"
  /\ routed' = [routed EXCEPT ![c].state = "Submitted"]
  /\ \E queued \in {"queued", "none"} : routeJob' = [routeJob EXCEPT ![c] = queued]
  /\ UNCHANGED <<drain, snapshots, upsets>>

\* route_grievance_job looks first; a row the drain has written is not shown yet.
LoadJob(c) ==
  /\ routeJob[c] = "queued"
  /\ routeJob' = [routeJob EXCEPT ![c] = IF Unassigned(routed[c]) THEN "loaded" ELSE "none"]
  /\ UNCHANGED <<routed, drain, snapshots, upsets>>

\* The write waits for the drain's lock.  Whatever fails undoes the job.
RunJob(c) ==
  /\ routeJob[c] \in {"loaded", "outrun"} /\ Free(c)
  /\ routeJob' = [routeJob EXCEPT ![c] = "none"]
  /\ IF routeJob[c] = "outrun" /\ (snapshots \/ routed[c].state # "Submitted")
     THEN UNCHANGED <<routed, drain>>
     ELSE /\ \E u \in RouteOfficers : routed' = [routed EXCEPT ![c] = Routes(@, u)]
          /\ drain' = Behind({c})
  /\ UNCHANGED <<snapshots, upsets>>

\* Mutant: the drain goes by the jobs that wait, not by the table.
StartDrain_ByQueue ==
  /\ ~drain.busy
  /\ drain' = [IdleDrain EXCEPT !.busy = TRUE,
                 !.todo = {c \in RouteCases : Unassigned(routed[c]) /\ routeJob[c] # "none"}]
  /\ drain'.todo # {}
  /\ UNCHANGED <<routed, routeJob, snapshots, upsets>>

\* drain_routing_queue lists once; its limit of 50 is above the cases here.
StartDrain ==
  /\ ~drain.busy
  /\ drain' = [IdleDrain EXCEPT !.busy = TRUE, !.todo = {c \in RouteCases : Unassigned(routed[c])}]
  /\ drain'.todo # {}
  /\ UNCHANGED <<routed, routeJob, snapshots, upsets>>

\* Each name is routed without a second look.  What fails is logged and the
\* loop goes on: a refused transition leaves the officer written, a refused
\* write rolls back all the drain wrote and starts a new snapshot.
DrainCase(c) ==
  /\ c \in drain.todo
  /\ IF c \in drain.outrun /\ snapshots
     THEN drain' = [drain EXCEPT !.todo = @ \ {c}, !.outrun = {}, !.wrote = Empty]
     ELSE \E u \in RouteOfficers :
            drain' = [drain EXCEPT !.todo = @ \ {c}, !.wrote =
                        [d \in DOMAIN @ \cup {c} |-> IF d = c THEN Routes(routed[c], u) ELSE @[d]]]
  /\ UNCHANGED <<routed, routeJob, snapshots, upsets>>

CommitDrain ==
  /\ drain.busy /\ drain.todo = {}
  /\ routed' = [c \in RouteCases |-> IF Free(c) THEN routed[c] ELSE drain.wrote[c]]
  /\ OutrunJobs(DOMAIN drain.wrote)
  /\ drain' = IdleDrain
  /\ UNCHANGED <<snapshots, upsets>>

-----------------------------------------------------------------------------
\* Others: a save, a move out of Submitted, a change request that gives the
\* case an officer and leaves it Submitted.
OtherSave(c) ==
  /\ Free(c)
  /\ \/ routed[c].state # "Unfiled" /\ UNCHANGED routed
     \/ routed[c].state = "Submitted" /\ routed' = [routed EXCEPT ![c].state = "Elsewhere"]
     \/ /\ Unassigned(routed[c])
        /\ \E u \in RouteOfficers : routed' = [routed EXCEPT ![c].officer = u]
  /\ OutrunJobs({c}) /\ drain' = Behind({c})

\* A worker is killed: its job is gone, and what it wrote.
KillWorker ==
  \/ \E c \in RouteCases : /\ routeJob[c] # "none" /\ UNCHANGED <<routed, drain>>
                           /\ routeJob' = [routeJob EXCEPT ![c] = "none"]
  \/ drain.busy /\ drain' = IdleDrain /\ UNCHANGED <<routed, routeJob>>

Upset ==
  /\ upsets < MaxUpsets /\ upsets' = upsets + 1
  /\ KillWorker \/ \E c \in RouteCases : OtherSave(c)
  /\ UNCHANGED snapshots

RoutingNext ==
  \/ \E c \in RouteCases : FileCase(c) \/ LoadJob(c) \/ RunJob(c) \/ DrainCase(c)
  \/ StartDrain \/ CommitDrain
  \/ Upset

RoutingSpec == RoutingInit /\ [][RoutingNext]_routingVars

\* The drain is scheduled every hour and its job runs to the end.
RoutingFairness ==
  /\ WF_routingVars(StartDrain) /\ WF_routingVars(CommitDrain)
  /\ \A c \in RouteCases : WF_routingVars(DrainCase(c))

-----------------------------------------------------------------------------
\* However the job and the drain overlap, a case is assigned once and its
\* officer told once (route_grievance_job, drain_routing_queue, transition).
AnnouncedOnce == \A c \in RouteCases : routed[c].told <= 1

\* A filed case gets an officer though its job is lost, killed or overtaken
\* and though other cases of the same drain fail, unless it leaves Submitted.
FiledCaseRouted ==
  \A c \in RouteCases : Unassigned(routed[c]) ~> ~Unassigned(routed[c])
==============================================================================
