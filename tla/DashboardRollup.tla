--------------------------- MODULE DashboardRollup ---------------------------
(***************************************************************************)
(* Keeping the dashboard rollups current without two refreshes on the same *)
(* rows: who asks for a refresh, who runs one, and the Redis keys between  *)
(* them (services/dashboard_rollup.py).                                    *)
(*                                                                         *)
(*   data       the cases as committed: one version of the recent days and *)
(*              one of the older days, which only a full rebuild reads     *)
(*   shown      the versions the committed rollup rows were counted from   *)
(*   flags      the Redis keys that are there                              *)
(*   queue      runner jobs waiting on the long queue                      *)
(*   pc         where each actor stands; a crossing of two actors may fall *)
(*              between any two Redis calls                                *)
(*   full       what an actor asks for, or the refresh it is running       *)
(*   seen       the database snapshot an actor's transaction reads         *)
(*   overtaken  actors whose snapshot is older than the committed rollups  *)
(*   passes     refreshes made by a runner since it took the lock          *)
(*   faults     failures so far                                            *)
(*                                                                         *)
(* What a refresh counts is left out: an incremental one brings the recent *)
(* days up to its snapshot, a full one the older days too.  Pacing         *)
(* (MIN_GAP) changes no order of events and is left out.                   *)
(***************************************************************************)
EXTENDS Integers

CONSTANTS
  Saves,              \* transactions that change cases and ask at commit
  Cron,               \* scheduled requests
  Nightly,            \* those of Cron that ask for a full rebuild
  Workers,            \* workers of the long queue
  Patches,            \* migrations that call refresh_now(full=True)
  Nothing,            \* no snapshot is held
  CatchUpRuns,        \* CATCH_UP_RUNS
  SnapshotIsolation,  \* the database refuses writes based on an old snapshot
  MaxData,            \* bound: versions of each kind of day
  FaultKinds,         \* the failures considered
  MaxQueue,           \* bound: PENDING expires only on a shorter queue
  MaxFaults           \* bound: failures

Actors == Saves \cup Cron \cup Workers \cup Patches
Days == {"recent", "older"}
Versions == [Days -> Nat]
Keys == {"DIRTY", "FULL", "LOCK", "PENDING"}

ASSUME ActorsAssumption ==
  /\ Nightly \subseteq Cron
  /\ Workers \cap (Saves \cup Cron \cup Patches) = {}
  /\ Patches \cap (Saves \cup Cron) = {} /\ Saves \cap Cron = {}
  /\ Nothing \notin Versions

ASSUME RollupAssumption ==
  /\ CatchUpRuns \in Nat /\ SnapshotIsolation \in BOOLEAN
  /\ MaxData \in Nat /\ MaxQueue \in Nat /\ MaxFaults \in Nat

VARIABLES data, shown, flags, queue, pc, full, seen, overtaken, passes, faults

vars == <<data, shown, flags, queue, pc, full, seen, overtaken, passes, faults>>

\* Steps of an actor that holds LOCK, and all steps.
Holding == {"look", "takeDirty", "takeFull", "read", "write",
            "restoreDirty", "restoreFull", "giveUp", "release"}
Steps == Holding \cup
  {"idle", "raiseFull", "raiseDirty", "kick", "enqueue",
   "popped", "acquire", "lookAgain", "wait", "commit", "done", "failed"}

TypeOK ==
  /\ data \in Versions /\ shown \in Versions
  /\ flags \subseteq Keys
  /\ queue \in Nat
  /\ pc \in [Actors -> Steps]
  /\ full \in [Actors -> BOOLEAN]
  /\ seen \in [Actors -> Versions \cup {Nothing}]
  /\ overtaken \subseteq Actors
  /\ passes \in [Workers -> 0..(1 + CatchUpRuns)]
  /\ faults \in 0..MaxFaults

Init ==
  /\ data = [d \in Days |-> 0] /\ shown = data
  /\ flags = {} /\ queue = 0
  /\ pc = [a \in Actors |-> "idle"]
  /\ full = [a \in Actors |-> FALSE]
  /\ seen = [a \in Actors |-> Nothing]
  /\ overtaken = {}
  /\ passes = [w \in Workers |-> 0]
  /\ faults = 0

Goto(a, step) == pc' = [pc EXCEPT ![a] = step]
Raise(key) == flags' = flags \cup {key}
Take(key) == flags' = flags \ {key}

-----------------------------------------------------------------------------
(***************************************************************************)
(* Asking for a refresh.  FULL goes up before DIRTY.                       *)
(***************************************************************************)

\* Mutant: DIRTY goes up before FULL.
AskOrder_DirtyFirst(wantsFull) ==
  [start |-> "raiseDirty", raiseFull |-> "kick",
   raiseDirty |-> IF wantsFull THEN "raiseFull" ELSE "kick"]

\* What a request does after what.
AskOrder(wantsFull) ==
  [start |-> IF wantsFull THEN "raiseFull" ELSE "raiseDirty",
   raiseFull |-> "raiseDirty", raiseDirty |-> "kick"]

Ask(a, wantsFull) ==
  /\ Goto(a, AskOrder(wantsFull).start)
  /\ full' = [full EXCEPT ![a] = wantsFull]

\* A transaction commits, and asks: a case was filed, changed or deleted, or a
\* patch changed the older days and asks for a full rebuild.
SaveCommits(a, day) ==
  /\ pc[a] = "idle" /\ data[day] < MaxData
  /\ data' = [data EXCEPT ![day] = @ + 1]
  /\ Ask(a, day = "older")
  /\ UNCHANGED <<shown, flags, queue, seen, overtaken, passes, faults>>

\* Every quarter of an hour, and every night.
Schedule(a) ==
  /\ pc[a] = "idle"
  /\ Ask(a, a \in Nightly)
  /\ UNCHANGED <<data, shown, flags, queue, seen, overtaken, passes, faults>>

RaiseFull(a) ==
  /\ pc[a] = "raiseFull"
  /\ Raise("FULL") /\ Goto(a, AskOrder(full[a])[pc[a]])
  /\ UNCHANGED <<data, shown, queue, full, seen, overtaken, passes, faults>>

RaiseDirty(a) ==
  /\ pc[a] = "raiseDirty"
  /\ Raise("DIRTY") /\ Goto(a, AskOrder(full[a])[pc[a]])
  /\ UNCHANGED <<data, shown, queue, full, seen, overtaken, passes, faults>>

Rest(a) == Goto(a, IF a \in Patches THEN "done" ELSE "idle")

\* _kick: queue a runner unless one is queued already.
Kick(a) ==
  /\ pc[a] = "kick"
  /\ IF "PENDING" \in flags THEN Rest(a) ELSE Goto(a, "enqueue")
  /\ Raise("PENDING")
  /\ UNCHANGED <<data, shown, queue, full, seen, overtaken, passes, faults>>

Enqueue(a) ==
  /\ pc[a] = "enqueue"
  /\ queue' = queue + 1 /\ Rest(a)
  /\ UNCHANGED <<data, shown, flags, full, seen, overtaken, passes, faults>>

AskerStep(a) == RaiseFull(a) \/ RaiseDirty(a) \/ Kick(a) \/ Enqueue(a)

(***************************************************************************)
(* Running: run_pending, on a worker of the long queue.                    *)
(***************************************************************************)
Pop(w) ==
  /\ pc[w] = "idle" /\ queue > 0
  /\ queue' = queue - 1 /\ Goto(w, "popped")
  /\ UNCHANGED <<data, shown, flags, full, seen, overtaken, passes, faults>>

TakePending(w) ==
  /\ pc[w] = "popped"
  /\ Take("PENDING") /\ Goto(w, "acquire")
  /\ UNCHANGED <<data, shown, queue, full, seen, overtaken, passes, faults>>

\* Another run holds the lock: return, and leave it to that run.
AcquireLock(w) ==
  /\ pc[w] = "acquire"
  /\ Raise("LOCK")
  /\ IF "LOCK" \in flags
     THEN Goto(w, "idle") /\ UNCHANGED passes
     ELSE Goto(w, "look") /\ passes' = [passes EXCEPT ![w] = 0]
  /\ UNCHANGED <<data, shown, queue, full, seen, overtaken, faults>>

\* range(1 + CATCH_UP_RUNS): with the last pass made, nobody asks for DIRTY.
Look(w) ==
  /\ pc[w] = "look"
  /\ Goto(w, IF passes[w] <= CatchUpRuns /\ "DIRTY" \in flags THEN "takeDirty" ELSE "release")
  /\ UNCHANGED <<data, shown, flags, queue, full, seen, overtaken, passes, faults>>

\* DIRTY first, then FULL: a rebuild whose DIRTY is taken has its FULL up.
TakeDirty(a) ==
  /\ pc[a] = "takeDirty"
  /\ Take("DIRTY") /\ Goto(a, "takeFull")
  /\ UNCHANGED <<data, shown, queue, full, seen, overtaken, passes, faults>>

TakeFull(a) ==
  /\ pc[a] = "takeFull"
  /\ Take("FULL") /\ Goto(a, IF a \in Patches THEN "write" ELSE "read")
  /\ full' = [full EXCEPT ![a] = "FULL" \in flags \/ a \in Patches]
  /\ UNCHANGED <<data, shown, queue, seen, overtaken, passes, faults>>

\* The first read of the pass opens its snapshot.
ReadCases(w) ==
  /\ pc[w] = "read"
  /\ seen' = [seen EXCEPT ![w] = data] /\ Goto(w, "write")
  /\ UNCHANGED <<data, shown, flags, queue, full, overtaken, passes, faults>>

\* The rows of the days refreshed, counted from the actor's snapshot.
Rebuilt(a) == IF full[a] THEN seen[a] ELSE [shown EXCEPT !["recent"] = seen[a]["recent"]]

\* Committed rollups overtake every snapshot opened before.
CommitRollup(a) ==
  /\ shown' = Rebuilt(a)
  /\ seen' = [seen EXCEPT ![a] = Nothing]
  /\ overtaken' = (overtaken \cup {b \in Actors : seen[b] # Nothing}) \ {a}

Refused(a) == SnapshotIsolation /\ a \in overtaken

\* A patch's rows are locked from its writes until its commit.
RowsFree == \A p \in Patches : pc[p] \notin {"release", "commit"}

\* Mutant: the request is taken once the rows are written, so the one raised
\* meanwhile goes with it.
WriteRollup_TakesDirty(w) ==
  /\ pc[w] = "write" /\ RowsFree /\ ~Refused(w)
  /\ CommitRollup(w) /\ Take("DIRTY")
  /\ passes' = [passes EXCEPT ![w] = @ + 1]
  /\ Goto(w, "look")
  /\ UNCHANGED <<data, queue, full, faults>>

WriteRollup(w) ==
  /\ pc[w] = "write" /\ RowsFree /\ ~Refused(w)
  /\ CommitRollup(w)
  /\ passes' = [passes EXCEPT ![w] = @ + 1]
  /\ Goto(w, "look")
  /\ UNCHANGED <<data, flags, queue, full, faults>>

\* An exception rolls back; the request is put back for the next run.
RollBack(a) ==
  /\ Goto(a, "restoreDirty")
  /\ seen' = [seen EXCEPT ![a] = Nothing] /\ overtaken' = overtaken \ {a}

\* Only beside a patch, which holds a snapshot without the lock, can the rows
\* be others than the pass has seen.
WriteRefused(a) ==
  /\ pc[a] = "write" /\ RowsFree /\ Refused(a)
  /\ RollBack(a)
  /\ UNCHANGED <<data, shown, flags, queue, full, passes, faults>>

RestoreDirty(a) ==
  /\ pc[a] = "restoreDirty"
  /\ Raise("DIRTY") /\ Goto(a, IF full[a] THEN "restoreFull" ELSE "giveUp")
  /\ UNCHANGED <<data, shown, queue, full, seen, overtaken, passes, faults>>

RestoreFull(a) ==
  /\ pc[a] = "restoreFull"
  /\ Raise("FULL") /\ Goto(a, "giveUp")
  /\ UNCHANGED <<data, shown, queue, full, seen, overtaken, passes, faults>>

\* The exception leaves the function: the lock goes, nobody looks again.
GiveUp(a) ==
  /\ pc[a] = "giveUp"
  /\ Take("LOCK") /\ Goto(a, IF a \in Patches THEN "failed" ELSE "idle")
  /\ UNCHANGED <<data, shown, queue, full, seen, overtaken, passes, faults>>

\* Mutant: nobody looks after unlocking.
Release_WithoutLook(a) ==
  /\ pc[a] = "release"
  /\ Take("LOCK") /\ Goto(a, IF a \in Patches THEN "commit" ELSE "idle")
  /\ UNCHANGED <<data, shown, queue, full, seen, overtaken, passes, faults>>

\* A runner looks once more after unlocking; refresh_now returns to its patch.
Release(a) ==
  /\ pc[a] = "release"
  /\ Take("LOCK") /\ Goto(a, IF a \in Patches THEN "commit" ELSE "lookAgain")
  /\ UNCHANGED <<data, shown, queue, full, seen, overtaken, passes, faults>>

LookAgain(w) ==
  /\ pc[w] = "lookAgain"
  /\ Goto(w, IF "DIRTY" \in flags THEN "kick" ELSE "idle")
  /\ UNCHANGED <<data, shown, flags, queue, full, seen, overtaken, passes, faults>>

RefreshStep(a) ==
  \/ TakeDirty(a) \/ TakeFull(a)
  \/ RestoreDirty(a) \/ RestoreFull(a) \/ GiveUp(a) \/ Release(a)

RunnerStep(w) ==
  \/ TakePending(w) \/ AcquireLock(w) \/ Look(w) \/ ReadCases(w) \/ WriteRollup(w)
  \/ LookAgain(w) \/ RefreshStep(w) \/ Kick(w) \/ Enqueue(w)

(***************************************************************************)
(* Running inline: refresh_now(full=True) in a patch.  The patch has read  *)
(* a case before it calls, so its snapshot is already open, and it commits *)
(* after refresh_now returned.                                             *)
(***************************************************************************)
PatchBegins(p) ==
  /\ pc[p] = "idle"
  /\ seen' = [seen EXCEPT ![p] = data] /\ Goto(p, "wait")
  /\ UNCHANGED <<data, shown, flags, queue, full, overtaken, passes, faults>>

PatchAcquires(p) ==
  /\ pc[p] = "wait" /\ "LOCK" \notin flags
  /\ Raise("LOCK") /\ Goto(p, "takeDirty")
  /\ UNCHANGED <<data, shown, queue, full, seen, overtaken, passes, faults>>

\* The wait ran out: the patch commits and asks for the rebuild instead.
PatchGivesUp(p) ==
  /\ pc[p] = "wait" /\ "LOCK" \in flags
  /\ Ask(p, TRUE)
  /\ seen' = [seen EXCEPT ![p] = Nothing] /\ overtaken' = overtaken \ {p}
  /\ UNCHANGED <<data, shown, flags, queue, passes, faults>>

PatchWrites(p) ==
  /\ pc[p] = "write" /\ ~Refused(p)
  /\ Goto(p, "release")
  /\ UNCHANGED <<data, shown, flags, queue, full, seen, overtaken, passes, faults>>

PatchCommits(p) ==
  /\ pc[p] = "commit"
  /\ CommitRollup(p) /\ Goto(p, "done")
  /\ UNCHANGED <<data, flags, queue, full, passes, faults>>

PatchStep(p) ==
  \/ PatchBegins(p) \/ PatchAcquires(p) \/ PatchGivesUp(p) \/ PatchWrites(p)
  \/ PatchCommits(p) \/ RefreshStep(p) \/ AskerStep(p)

(***************************************************************************)
(* What may fail, and the expiry of keys.                                  *)
(***************************************************************************)
Fault(kind) ==
  /\ kind \in FaultKinds /\ faults < MaxFaults
  /\ faults' = faults + 1

\* A query fails or the job times out.
RefreshFails(w) ==
  /\ Fault("refresh")
  /\ pc[w] \in {"read", "write"}
  /\ RollBack(w)
  /\ UNCHANGED <<data, shown, flags, queue, full, passes>>

\* Redis or the database fails between the refresh and its commit: the rows
\* roll back and nothing puts the request back.
CommitFails(w) ==
  /\ Fault("commit")
  /\ pc[w] = "write" /\ Goto(w, "giveUp")
  /\ seen' = [seen EXCEPT ![w] = Nothing] /\ overtaken' = overtaken \ {w}
  /\ UNCHANGED <<data, shown, flags, queue, full, passes>>

\* The worker is killed; its transaction rolls back and its keys stay.
WorkerKilled(w) ==
  /\ Fault("worker")
  /\ pc[w] # "idle" /\ Goto(w, "idle")
  /\ seen' = [seen EXCEPT ![w] = Nothing] /\ overtaken' = overtaken \ {w}
  /\ UNCHANGED <<data, shown, flags, queue, full, passes>>

\* Redis is gone before the request is through, or the write skipped the
\* document events and never asked.
RequestLost(a) ==
  /\ Fault("request")
  /\ pc[a] \in {"raiseFull", "raiseDirty", "kick"} /\ Goto(a, "idle")
  /\ UNCHANGED <<data, shown, flags, queue, full, seen, overtaken, passes>>

\* The queue refuses the job: PENDING is lowered again.
EnqueueFails(a) ==
  /\ Fault("enqueue")
  /\ pc[a] = "enqueue" /\ Rest(a)
  /\ Take("PENDING")
  /\ UNCHANGED <<data, shown, queue, full, seen, overtaken, passes>>

\* The queue loses a job.
JobLost ==
  /\ Fault("job")
  /\ queue > 0 /\ queue' = queue - 1
  /\ UNCHANGED <<data, shown, flags, pc, full, seen, overtaken, passes>>

\* A key expires before anybody took it (DIRTY_TTL): no worker was free for
\* as long, though the schedule raises DIRTY anew four times in that time.
RequestExpires ==
  /\ Fault("expiry")
  /\ \E key \in {"DIRTY", "FULL"} \cap flags : Take(key)
  /\ UNCHANGED <<data, shown, queue, pc, full, seen, overtaken, passes>>

\* Mutant: the lock never frees itself.
LockExpires_Never ==
  FALSE /\ UNCHANGED vars

\* LOCK_TTL is longer than a job of the long queue may run, so the lock only
\* frees itself when its holder died.
LockExpires ==
  /\ "LOCK" \in flags
  /\ \A a \in Actors : pc[a] \notin Holding
  /\ Take("LOCK")
  /\ UNCHANGED <<data, shown, queue, pc, full, seen, overtaken, passes, faults>>

\* The queued job was lost, or waits for longer than PENDING_TTL.
PendingExpires ==
  /\ "PENDING" \in flags /\ queue < MaxQueue
  /\ Take("PENDING")
  /\ UNCHANGED <<data, shown, queue, pc, full, seen, overtaken, passes, faults>>

-----------------------------------------------------------------------------
Next ==
  \/ \E a \in Saves, day \in Days : SaveCommits(a, day)
  \/ \E a \in Cron : Schedule(a)
  \/ \E a \in Saves \cup Cron : AskerStep(a) \/ RequestLost(a)
  \/ \E w \in Workers : Pop(w) \/ RunnerStep(w)
  \/ \E w \in Workers : RefreshFails(w) \/ CommitFails(w) \/ WorkerKilled(w)
  \/ \E p \in Patches : PatchStep(p) \/ \E a \in Workers \cup {p} : WriteRefused(a)
  \/ \E a \in Saves \cup Cron \cup Workers : EnqueueFails(a)
  \/ JobLost
  \/ RequestExpires
  \/ LockExpires
  \/ PendingExpires

Spec == Init /\ [][Next]_vars

\* The scheduler, the workers and Redis keep going; nobody has to save.
Fairness ==
  /\ \A a \in Saves : WF_vars(AskerStep(a))
  /\ \A a \in Cron : WF_vars(Schedule(a) \/ AskerStep(a))
  /\ \A w \in Workers : WF_vars(Pop(w) \/ RunnerStep(w) \/ WriteRefused(w))
  /\ \A p \in Patches : WF_vars(PatchStep(p) \/ WriteRefused(p))
  /\ WF_vars(LockExpires) /\ WF_vars(PendingExpires)

FairSpec == Spec /\ Fairness

-----------------------------------------------------------------------------
(***************************************************************************)
(* Safety.                                                                 *)
(***************************************************************************)

\* Two refreshes never overlap, also when a worker died with the lock: each
\* deletes and rewrites its days, so two at once would count twice (refresh).
OneRefreshAtATime ==
  \A a, b \in Actors : pc[a] \in Holding /\ pc[b] \in Holding => a = b

\* A committed change the dashboards do not show yet is still asked for: by its
\* save, by DIRTY, or by a runner that took DIRTY and has yet to read, or read
\* the change, or is putting the request back.  No crossing of a save with a
\* refresh loses it (run_pending takes DIRTY before it reads).
ChangesAccounted ==
  data["recent"] > shown["recent"] =>
    \/ "DIRTY" \in flags
    \/ \E a \in Actors :
         \/ pc[a] \in {"raiseFull", "raiseDirty", "takeFull", "read", "restoreDirty"}
         \/ seen[a] # Nothing /\ seen[a]["recent"] = data["recent"]

\* A full rebuild asked for is never left behind by a refresh that took its
\* DIRTY without its FULL (_request and run_pending use opposite orders).
RebuildNotForgotten ==
  "FULL" \in flags =>
    \/ "DIRTY" \in flags
    \/ \E a \in Actors : pc[a] = "takeFull"
    \/ \E a \in Actors : pc[a] = "raiseDirty" /\ full[a]

\* Until something fails, while DIRTY is up somebody is bound to look at it: its
\* request before the kick, a job queued or starting, or a runner with a look
\* still ahead.  The code trusts the queue to merge nothing (_kick, run_pending).
RequestNotStranded ==
  faults = 0 /\ "DIRTY" \in flags =>
    \/ queue > 0
    \/ \E a \in Actors : pc[a] \in {"kick", "enqueue", "popped", "lookAgain"}
    \/ \E w \in Workers : pc[w] \in {"acquire"} \cup Holding

\* The dashboards never go back to older counts: no refresh commits over one
\* that read later (LOCK around read and write, a commit between passes).
ShownNeverGoesBack == [][\A d \in Days : shown'[d] >= shown[d]]_vars

(***************************************************************************)
(* Liveness: whatever is lost, killed or refused, once the cases stop      *)
(* changing the dashboards show them all and go on showing them.           *)
(***************************************************************************)
DashboardsCatchUp == <>[](shown = data)
==============================================================================
