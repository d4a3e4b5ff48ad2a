----------------------- MODULE DashboardRollupProofs -----------------------
(***************************************************************************)
(* Two refreshes never overlap, for any number of saves, workers, patches  *)
(* and failures.                                                           *)
(*                                                                         *)
(* That nobody else holds the lock is not inductive alone: it must also be *)
(* known that whoever refreshes has LOCK up, since that is what the next   *)
(* one looks at, and that only a holder or the expiry lowers it.           *)
(***************************************************************************)
EXTENDS DashboardRollup, Charts, FiniteSetTheorems, WellFoundedInduction, TLAPS

\* The inductive invariant.
LockInv ==
  /\ pc \in [Actors -> Steps]
  /\ \A a \in Actors : pc[a] \in Holding => "LOCK" \in flags
  /\ OneRefreshAtATime

\* A step of a after which it holds the lock only if it did before, and which
\* lowers LOCK only if a held it and lets it go, keeps the invariant.
LEMMA OthersUndisturbed ==
  ASSUME LockInv, NEW a \in Actors, NEW step \in Steps, Goto(a, step),
         step \in Holding => pc[a] \in Holding,
         "LOCK" \in flags => "LOCK" \in flags' \/ (pc[a] \in Holding /\ step \notin Holding)
  PROVE  LockInv'
  <1>1. pc' = [pc EXCEPT ![a] = step] /\ pc' \in [Actors -> Steps]
    BY DEF Goto, LockInv
  <1>2. \A b \in Actors : pc'[b] \in Holding => pc[b] \in Holding
    BY <1>1 DEF LockInv
  <1>3. OneRefreshAtATime'
    BY <1>2 DEF LockInv, OneRefreshAtATime
  <1>4. ASSUME NEW b \in Actors, pc'[b] \in Holding PROVE "LOCK" \in flags'
    <2>1. pc[b] \in Holding /\ "LOCK" \in flags
      BY <1>2, <1>4 DEF LockInv
    <2>2. CASE "LOCK" \in flags'
      BY <2>2
    <2>3. CASE pc[a] \in Holding /\ step \notin Holding
      <3>1. a = b
        BY <2>1, <2>3 DEF LockInv, OneRefreshAtATime
      <3> QED
        BY <1>1, <1>4, <2>3, <3>1 DEF LockInv
    <2> QED
      BY <2>1, <2>2, <2>3
  <1> QED
    BY <1>1, <1>3, <1>4 DEF LockInv

\* Raising LOCK where it was down makes its raiser the only holder.
LEMMA TakesLock ==
  ASSUME LockInv, NEW a \in Actors, NEW step \in Steps, Goto(a, step),
         "LOCK" \notin flags, "LOCK" \in flags'
  PROVE  LockInv'
  <1>1. pc' = [pc EXCEPT ![a] = step] /\ pc' \in [Actors -> Steps]
    BY DEF Goto, LockInv
  <1>2. \A b \in Actors : pc'[b] \in Holding => b = a
    BY <1>1 DEF LockInv
  <1> QED
    BY <1>1, <1>2 DEF LockInv, OneRefreshAtATime

\* A step that moves nobody and leaves LOCK alone.
LEMMA NobodyMoves ==
  ASSUME LockInv, UNCHANGED pc, "LOCK" \in flags => "LOCK" \in flags'
  PROVE  LockInv'
  BY DEF LockInv, OneRefreshAtATime

\* Asking for a refresh touches no lock.
LEMMA AskerKeeps ==
  ASSUME LockInv, NEW a \in Actors, AskerStep(a)
  PROVE  LockInv'
  <1> USE DEF Steps, Holding
  <1>1. CASE RaiseFull(a)
    BY <1>1, OthersUndisturbed DEF RaiseFull, Raise, AskOrder
  <1>2. CASE RaiseDirty(a)
    BY <1>2, OthersUndisturbed DEF RaiseDirty, Raise, AskOrder
  <1>3. CASE Kick(a)
    BY <1>3, OthersUndisturbed DEF Kick, Raise, Rest
  <1>4. CASE Enqueue(a)
    BY <1>4, OthersUndisturbed DEF Enqueue, Rest
  <1> QED
    BY <1>1, <1>2, <1>3, <1>4 DEF AskerStep

\* The steps of a refresh move from holding to holding, or let the lock go.
LEMMA RefreshKeeps ==
  ASSUME LockInv, NEW a \in Actors, RefreshStep(a) \/ WriteRefused(a)
  PROVE  LockInv'
  <1> USE DEF Steps, Holding
  <1>1. CASE TakeDirty(a)
    BY <1>1, OthersUndisturbed DEF TakeDirty, Take
  <1>2. CASE TakeFull(a)
    BY <1>2, OthersUndisturbed DEF TakeFull, Take
  <1>3. CASE WriteRefused(a)
    BY <1>3, OthersUndisturbed DEF WriteRefused, RollBack
  <1>4. CASE RestoreDirty(a)
    BY <1>4, OthersUndisturbed DEF RestoreDirty, Raise
  <1>5. CASE RestoreFull(a)
    BY <1>5, OthersUndisturbed DEF RestoreFull, Raise
  <1>6. CASE GiveUp(a)
    BY <1>6, OthersUndisturbed DEF GiveUp, Take
  <1>7. CASE Release(a)
    BY <1>7, OthersUndisturbed DEF Release, Take
  <1> QED
    BY <1>1, <1>2, <1>3, <1>4, <1>5, <1>6, <1>7 DEF RefreshStep

\* A runner takes the lock only where it finds none.
LEMMA RunnerKeeps ==
  ASSUME LockInv, NEW w \in Workers, Pop(w) \/ RunnerStep(w)
  PROVE  LockInv'
  <1>a. w \in Actors
    BY DEF Actors
  <1> USE <1>a DEF Steps, Holding
  <1>1. CASE Pop(w)
    BY <1>1, OthersUndisturbed DEF Pop
  <1>2. CASE TakePending(w)
    BY <1>2, OthersUndisturbed DEF TakePending, Take
  <1>3. CASE AcquireLock(w) /\ "LOCK" \in flags
    BY <1>3, OthersUndisturbed DEF AcquireLock, Raise
  <1>4. CASE AcquireLock(w) /\ "LOCK" \notin flags
    BY <1>4, TakesLock DEF AcquireLock, Raise
  <1>5. CASE Look(w)
    BY <1>5, OthersUndisturbed DEF Look
  <1>6. CASE ReadCases(w)
    BY <1>6, OthersUndisturbed DEF ReadCases
  <1>7. CASE WriteRollup(w)
    BY <1>7, OthersUndisturbed DEF WriteRollup
  <1>8. CASE LookAgain(w)
    BY <1>8, OthersUndisturbed DEF LookAgain
  <1>9. CASE RefreshStep(w)
    BY <1>9, RefreshKeeps
  <1>10. CASE Kick(w) \/ Enqueue(w)
    BY <1>10, AskerKeeps DEF AskerStep
  <1> QED
    BY <1>1, <1>2, <1>3, <1>4, <1>5, <1>6, <1>7, <1>8, <1>9, <1>10 DEF RunnerStep

\* A patch waits for the lock.
LEMMA PatchKeeps ==
  ASSUME LockInv, NEW p \in Patches, PatchStep(p)
  PROVE  LockInv'
  <1>a. p \in Actors
    BY DEF Actors
  <1> USE <1>a DEF Steps, Holding
  <1>1. CASE PatchBegins(p)
    BY <1>1, OthersUndisturbed DEF PatchBegins
  <1>2. CASE PatchAcquires(p)
    BY <1>2, TakesLock DEF PatchAcquires, Raise
  <1>3. CASE PatchGivesUp(p)
    BY <1>3, OthersUndisturbed DEF PatchGivesUp, Ask, AskOrder
  <1>4. CASE PatchWrites(p)
    BY <1>4, OthersUndisturbed DEF PatchWrites
  <1>5. CASE PatchCommits(p)
    BY <1>5, OthersUndisturbed DEF PatchCommits
  <1>6. CASE RefreshStep(p)
    BY <1>6, RefreshKeeps
  <1>7. CASE AskerStep(p)
    BY <1>7, AskerKeeps
  <1> QED
    BY <1>1, <1>2, <1>3, <1>4, <1>5, <1>6, <1>7 DEF PatchStep

\* A failure leaves the lock where it is; its expiry finds nobody holding it.
LEMMA FaultKeeps ==
  ASSUME LockInv,
         \/ \E w \in Workers : RefreshFails(w) \/ CommitFails(w) \/ WorkerKilled(w)
         \/ \E a \in Saves \cup Cron : RequestLost(a)
         \/ \E a \in Saves \cup Cron \cup Workers : EnqueueFails(a)
         \/ JobLost \/ RequestExpires \/ LockExpires \/ PendingExpires
  PROVE  LockInv'
  <1> USE DEF Steps, Holding, Actors
  <1>1. ASSUME NEW w \in Workers, RefreshFails(w) PROVE LockInv'
    BY <1>1, OthersUndisturbed DEF RefreshFails, RollBack
  <1>2. ASSUME NEW w \in Workers, WorkerKilled(w) PROVE LockInv'
    BY <1>2, OthersUndisturbed DEF WorkerKilled
  <1>3. ASSUME NEW a \in Saves \cup Cron, RequestLost(a) PROVE LockInv'
    BY <1>3, OthersUndisturbed DEF RequestLost
  <1>4. ASSUME NEW a \in Saves \cup Cron \cup Workers, EnqueueFails(a) PROVE LockInv'
    BY <1>4, OthersUndisturbed DEF EnqueueFails, Take, Rest
  <1>5. CASE JobLost
    BY <1>5, NobodyMoves DEF JobLost
  <1>6. CASE LockExpires
    <2>1. pc' = pc /\ \A a \in Actors : pc[a] \notin Holding
      BY <1>6 DEF LockExpires
    <2> QED
      BY <2>1 DEF LockInv, OneRefreshAtATime
  <1>7. CASE PendingExpires
    BY <1>7, NobodyMoves DEF PendingExpires, Take
  <1>8. ASSUME NEW w \in Workers, CommitFails(w) PROVE LockInv'
    BY <1>8, OthersUndisturbed DEF CommitFails
  <1>9. CASE RequestExpires
    BY <1>9, NobodyMoves DEF RequestExpires, Take
  <1> QED
    BY <1>1, <1>2, <1>3, <1>4, <1>5, <1>6, <1>7, <1>8, <1>9

\* At first nobody refreshes.
LEMMA LockInit == Init => LockInv
  BY DEF Init, LockInv, OneRefreshAtATime, Steps, Holding

\* Every step keeps the invariant.
LEMMA LockKept == LockInv /\ [Next]_vars => LockInv'
  <1> SUFFICES ASSUME LockInv, [Next]_vars PROVE LockInv'
    OBVIOUS
  <1>1. ASSUME NEW a \in Saves, NEW day \in Days, SaveCommits(a, day) PROVE LockInv'
    BY <1>1, OthersUndisturbed DEF SaveCommits, Ask, AskOrder, Steps, Holding, Actors
  <1>2. ASSUME NEW a \in Cron, Schedule(a) PROVE LockInv'
    BY <1>2, OthersUndisturbed DEF Schedule, Ask, AskOrder, Steps, Holding, Actors
  <1>3. ASSUME NEW a \in Saves \cup Cron, AskerStep(a) PROVE LockInv'
    BY <1>3, AskerKeeps DEF Actors
  <1>4. ASSUME NEW p \in Patches, NEW a \in Workers \cup {p}, WriteRefused(a) PROVE LockInv'
    BY <1>4, RefreshKeeps DEF Actors
  <1>5. CASE UNCHANGED vars
    BY <1>5, NobodyMoves DEF vars
  <1> QED
    BY <1>1, <1>2, <1>3, <1>4, <1>5, RunnerKeeps, PatchKeeps, FaultKeeps DEF Next

\* Two refreshes never overlap, with any number of runners, patches, saves
\* and failures: the lock is taken in one step, let go only by its holder, and
\* frees itself only after its holder died (run_pending, refresh_now).
THEOREM RefreshesExclude == Spec => []OneRefreshAtATime
  <1>1. LockInv => OneRefreshAtATime
    BY DEF LockInv
  <1> QED
    BY <1>1, LockInit, LockKept, PTL DEF Spec

-----------------------------------------------------------------------------
(***************************************************************************)
(* A full rebuild is not forgotten.  FULL may be up without DIRTY only     *)
(* while its request is about to raise DIRTY, or while the refresh that    *)
(* took DIRTY is about to take FULL; a failed refresh puts DIRTY back      *)
(* first, and nobody can take it until FULL is back too, because the       *)
(* failed refresh still holds the lock.                                    *)
(***************************************************************************)

\* A request has the kind it was raised with, and FULL goes back after DIRTY.
RebuildPart ==
  /\ full \in [Actors -> BOOLEAN]
  /\ \A a \in Actors : pc[a] = "raiseFull" => full[a]
  /\ \A a \in Actors : pc[a] = "restoreFull" => "DIRTY" \in flags
  /\ RebuildNotForgotten

\* A step that takes no DIRTY, raises no FULL, and leaves neither of the two
\* places where FULL may be up alone.
LEMMA RebuildUndisturbed ==
  ASSUME LockInv, RebuildPart, NEW a \in Actors, NEW step \in Steps, Goto(a, step),
         pc[a] \notin {"takeFull", "raiseDirty"},
         step \notin {"raiseFull", "restoreFull"},
         full' \in [Actors -> BOOLEAN],
         \A b \in Actors : b # a => full'[b] = full[b],
         "DIRTY" \in flags => "DIRTY" \in flags',
         "FULL" \in flags' => "FULL" \in flags
  PROVE  RebuildPart'
  <1>1. \A b \in Actors : pc'[b] = IF b = a THEN step ELSE pc[b]
    BY DEF Goto, LockInv
  <1>2. RebuildNotForgotten'
    BY <1>1 DEF RebuildPart, RebuildNotForgotten
  <1> QED
    BY <1>1, <1>2 DEF RebuildPart

\* Asking: FULL before DIRTY.
LEMMA AskKeepsRebuild ==
  ASSUME LockInv, RebuildPart, NEW a \in Actors, NEW wants \in BOOLEAN, Ask(a, wants),
         pc[a] \in {"idle", "wait"}, UNCHANGED flags
  PROVE  RebuildPart'
  <1>1. /\ \A b \in Actors : pc'[b] = IF b = a THEN AskOrder(wants).start ELSE pc[b]
        /\ \A b \in Actors : full'[b] = IF b = a THEN wants ELSE full[b]
        /\ full' \in [Actors -> BOOLEAN]
    BY DEF Ask, Goto, LockInv, RebuildPart
  <1>2. AskOrder(wants).start = IF wants THEN "raiseFull" ELSE "raiseDirty"
    BY DEF AskOrder
  <1>3. RebuildNotForgotten'
    BY <1>1 DEF RebuildPart, RebuildNotForgotten
  <1> QED
    BY <1>1, <1>2, <1>3 DEF RebuildPart

\* The steps of a request.
LEMMA AskerKeepsRebuild ==
  ASSUME LockInv, RebuildPart, NEW a \in Actors, AskerStep(a)
  PROVE  RebuildPart'
  <1> USE DEF Steps, Holding
  <1>1. CASE RaiseFull(a)
    <2>1. /\ \A b \in Actors : pc'[b] = IF b = a THEN "raiseDirty" ELSE pc[b]
          /\ full[a] /\ full' = full /\ flags' = flags \cup {"FULL"}
      BY <1>1 DEF RaiseFull, Goto, Raise, AskOrder, LockInv, RebuildPart
    <2> QED
      BY <2>1 DEF RebuildPart, RebuildNotForgotten
  <1>2. CASE RaiseDirty(a)
    <2>1. /\ \A b \in Actors : pc'[b] = IF b = a THEN "kick" ELSE pc[b]
          /\ full' = full /\ flags' = flags \cup {"DIRTY"}
      BY <1>2 DEF RaiseDirty, Goto, Raise, AskOrder, LockInv, RebuildPart
    <2> QED
      BY <2>1 DEF RebuildPart, RebuildNotForgotten
  <1>3. CASE Kick(a)
    BY <1>3, RebuildUndisturbed DEF Kick, Raise, Rest, RebuildPart
  <1>4. CASE Enqueue(a)
    BY <1>4, RebuildUndisturbed DEF Enqueue, Rest, RebuildPart
  <1> QED
    BY <1>1, <1>2, <1>3, <1>4 DEF AskerStep

\* The steps of a refresh; the lock keeps others from taking DIRTY.
LEMMA RefreshKeepsRebuild ==
  ASSUME LockInv, RebuildPart, NEW a \in Actors, RefreshStep(a) \/ WriteRefused(a)
  PROVE  RebuildPart'
  <1> USE DEF Steps, Holding
  <1>1. CASE TakeDirty(a)
    <2>1. /\ \A b \in Actors : pc'[b] = IF b = a THEN "takeFull" ELSE pc[b]
          /\ full' = full /\ pc[a] = "takeDirty"
      BY <1>1 DEF TakeDirty, Goto, LockInv
    <2>2. \A b \in Actors : b # a => pc[b] # "restoreFull"
      BY <2>1 DEF LockInv, OneRefreshAtATime
    <2> QED
      BY <2>1, <2>2 DEF RebuildPart, RebuildNotForgotten
  <1>2. CASE TakeFull(a)
    <2>1. /\ \A b \in Actors : pc'[b] = IF b = a THEN pc'[a] ELSE pc[b]
          /\ pc'[a] \in {"write", "read"} /\ flags' = flags \ {"FULL"}
          /\ full' \in [Actors -> BOOLEAN]
          /\ \A b \in Actors : b # a => full'[b] = full[b]
      BY <1>2 DEF TakeFull, Goto, Take, LockInv, RebuildPart
    <2> QED
      BY <2>1 DEF RebuildPart, RebuildNotForgotten
  <1>3. CASE WriteRefused(a)
    BY <1>3, RebuildUndisturbed DEF WriteRefused, RollBack, RebuildPart
  <1>4. CASE RestoreDirty(a)
    <2>1. /\ \A b \in Actors : pc'[b] = IF b = a THEN pc'[a] ELSE pc[b]
          /\ pc'[a] \in {"restoreFull", "giveUp"} /\ full' = full
          /\ flags' = flags \cup {"DIRTY"}
      BY <1>4 DEF RestoreDirty, Goto, Raise, LockInv
    <2> QED
      BY <2>1 DEF RebuildPart, RebuildNotForgotten
  <1>5. CASE RestoreFull(a)
    <2>1. /\ \A b \in Actors : pc'[b] = IF b = a THEN "giveUp" ELSE pc[b]
          /\ full' = full /\ flags' = flags \cup {"FULL"} /\ "DIRTY" \in flags
      BY <1>5 DEF RestoreFull, Goto, Raise, LockInv, RebuildPart
    <2> QED
      BY <2>1 DEF RebuildPart, RebuildNotForgotten
  <1>6. CASE GiveUp(a)
    BY <1>6, RebuildUndisturbed DEF GiveUp, Take, RebuildPart
  <1>7. CASE Release(a)
    BY <1>7, RebuildUndisturbed DEF Release, Take, RebuildPart
  <1> QED
    BY <1>1, <1>2, <1>3, <1>4, <1>5, <1>6, <1>7 DEF RefreshStep

\* A runner's own steps between them.
LEMMA RunnerKeepsRebuild ==
  ASSUME LockInv, RebuildPart, NEW w \in Workers, Pop(w) \/ RunnerStep(w)
  PROVE  RebuildPart'
  <1>a. w \in Actors
    BY DEF Actors
  <1> USE <1>a DEF Steps, Holding
  <1>1. CASE Pop(w)
    BY <1>1, RebuildUndisturbed DEF Pop, RebuildPart
  <1>2. CASE TakePending(w)
    BY <1>2, RebuildUndisturbed DEF TakePending, Take, RebuildPart
  <1>3. CASE AcquireLock(w)
    BY <1>3, RebuildUndisturbed DEF AcquireLock, Raise, RebuildPart
  <1>4. CASE Look(w)
    BY <1>4, RebuildUndisturbed DEF Look, RebuildPart
  <1>5. CASE ReadCases(w)
    BY <1>5, RebuildUndisturbed DEF ReadCases, RebuildPart
  <1>6. CASE WriteRollup(w)
    BY <1>6, RebuildUndisturbed DEF WriteRollup, RebuildPart
  <1>7. CASE LookAgain(w)
    BY <1>7, RebuildUndisturbed DEF LookAgain, RebuildPart
  <1>8. CASE RefreshStep(w)
    BY <1>8, RefreshKeepsRebuild
  <1>9. CASE Kick(w) \/ Enqueue(w)
    BY <1>9, AskerKeepsRebuild DEF AskerStep
  <1> QED
    BY <1>1, <1>2, <1>3, <1>4, <1>5, <1>6, <1>7, <1>8, <1>9 DEF RunnerStep

\* A patch takes the request it serves, or asks again.
LEMMA PatchKeepsRebuild ==
  ASSUME LockInv, RebuildPart, NEW p \in Patches, PatchStep(p)
  PROVE  RebuildPart'
  <1>a. p \in Actors
    BY DEF Actors
  <1> USE <1>a DEF Steps, Holding
  <1>1. CASE PatchBegins(p)
    BY <1>1, RebuildUndisturbed DEF PatchBegins, RebuildPart
  <1>2. CASE PatchAcquires(p)
    BY <1>2, RebuildUndisturbed DEF PatchAcquires, Raise, RebuildPart
  <1>3. CASE PatchGivesUp(p)
    BY <1>3, AskKeepsRebuild DEF PatchGivesUp
  <1>4. CASE PatchWrites(p)
    BY <1>4, RebuildUndisturbed DEF PatchWrites, RebuildPart
  <1>5. CASE PatchCommits(p)
    BY <1>5, RebuildUndisturbed DEF PatchCommits, RebuildPart
  <1>6. CASE RefreshStep(p)
    BY <1>6, RefreshKeepsRebuild
  <1>7. CASE AskerStep(p)
    BY <1>7, AskerKeepsRebuild
  <1> QED
    BY <1>1, <1>2, <1>3, <1>4, <1>5, <1>6, <1>7 DEF PatchStep

\* Neither a worker that dies, a request that is lost on the way nor one that
\* expires is among the failures: FULL may then be up alone until somebody asks
\* again.
NoneCutShort == {"worker", "request", "expiry"} \cap FaultKinds = {}

\* Every step keeps the rebuild in mind.
LEMMA RebuildKept ==
  ASSUME NoneCutShort, LockInv, RebuildPart, [Next]_vars
  PROVE  RebuildPart'
  <1> USE DEF Steps, Holding
  <1>1. ASSUME NEW a \in Saves, NEW day \in Days, SaveCommits(a, day) PROVE RebuildPart'
    BY <1>1, AskKeepsRebuild DEF SaveCommits, Actors
  <1>2. ASSUME NEW a \in Cron, Schedule(a) PROVE RebuildPart'
    <2>1. Ask(a, TRUE) \/ Ask(a, FALSE)
      <3>1. (a \in Nightly) = TRUE \/ (a \in Nightly) = FALSE
        OBVIOUS
      <3> QED
        BY <1>2, <3>1 DEF Schedule
    <2> QED
      BY <1>2, <2>1, AskKeepsRebuild DEF Schedule, Actors
  <1>3. ASSUME NEW a \in Saves \cup Cron, AskerStep(a) PROVE RebuildPart'
    BY <1>3, AskerKeepsRebuild DEF Actors
  <1>4. ASSUME NEW a \in Saves \cup Cron PROVE ~RequestLost(a)
    BY DEF RequestLost, Fault, NoneCutShort
  <1>5. ASSUME NEW w \in Workers PROVE ~WorkerKilled(w)
    BY DEF WorkerKilled, Fault, NoneCutShort
  <1>6. ASSUME NEW w \in Workers, RefreshFails(w) \/ CommitFails(w) PROVE RebuildPart'
    BY <1>6, RebuildUndisturbed DEF RefreshFails, RollBack, CommitFails, RebuildPart, Actors
  <1>7. ASSUME NEW p \in Patches, NEW a \in Workers \cup {p}, WriteRefused(a)
        PROVE  RebuildPart'
    BY <1>7, RefreshKeepsRebuild DEF Actors
  <1>8. ASSUME NEW a \in Saves \cup Cron \cup Workers, EnqueueFails(a) PROVE RebuildPart'
    BY <1>8, RebuildUndisturbed DEF EnqueueFails, Take, Rest, RebuildPart, Actors
  <1>9. CASE JobLost \/ LockExpires \/ PendingExpires \/ UNCHANGED vars
    <2>1. /\ pc' = pc /\ full' = full
          /\ "DIRTY" \in flags => "DIRTY" \in flags'
          /\ "FULL" \in flags' => "FULL" \in flags
      BY <1>9 DEF JobLost, LockExpires, PendingExpires, Take, vars
    <2> QED
      BY <2>1 DEF RebuildPart, RebuildNotForgotten
  <1>10. ~RequestExpires
    BY DEF RequestExpires, Fault, NoneCutShort
  <1> QED
    BY <1>1, <1>2, <1>3, <1>4, <1>5, <1>6, <1>7, <1>8, <1>9,
       <1>10, RunnerKeepsRebuild, PatchKeepsRebuild DEF Next

\* At first nothing is asked for.
LEMMA RebuildInit == Init => RebuildPart
  BY DEF Init, RebuildPart, RebuildNotForgotten

\* A full rebuild asked for is never left behind by a refresh that took its
\* DIRTY without its FULL, with any number of saves, runners and patches, and
\* whatever refreshes and commits fail (_request and run_pending use opposite
\* orders).
THEOREM RebuildRemembered ==
  ASSUME NoneCutShort
  PROVE  Spec => []RebuildNotForgotten
  <1>1. RebuildPart => RebuildNotForgotten
    BY DEF RebuildPart
  <1>2. LockInv /\ RebuildPart /\ [Next]_vars => RebuildPart'
    BY RebuildKept
  <1> QED
    BY <1>1, <1>2, LockInit, LockKept, RebuildInit, PTL DEF Spec

-----------------------------------------------------------------------------
(***************************************************************************)
(* No change is lost.  A refresh may be behind the cases it shows, but it  *)
(* is never behind what is shown already, since the lock keeps others from *)
(* writing between its read and its write; so a change it has not seen was *)
(* missing before, and is accounted for by somebody else.                  *)
(***************************************************************************)

\* No migration runs a refresh of its own, and the failures considered put
\* the request back or leave it: a refresh, a full queue, a lost job.
Restorable == Patches = {} /\ FaultKinds \subseteq {"refresh", "enqueue", "job"}

\* Only a runner about to write holds a snapshot, which is no older than what
\* is shown and no newer than the cases.
SnapshotPart ==
  /\ data \in Versions /\ shown \in Versions
  /\ seen \in [Actors -> Versions \cup {Nothing}]
  /\ shown["recent"] <= data["recent"]
  /\ \A a \in Actors : seen[a] # Nothing <=> pc[a] = "write"
  /\ \A a \in Actors :
       pc[a] = "write" =>
         shown["recent"] <= seen[a]["recent"] /\ seen[a]["recent"] <= data["recent"]

\* Where a change is on its way to be counted.
Underway == {"raiseFull", "raiseDirty", "takeFull", "read", "restoreDirty"}

\* ChangesAccounted, through the names above.
Accounted ==
  data["recent"] > shown["recent"] =>
    \/ "DIRTY" \in flags
    \/ \E a \in Actors : pc[a] \in Underway
    \/ \E a \in Actors : pc[a] = "write" /\ seen[a]["recent"] = data["recent"]

ChangePart == SnapshotPart /\ Accounted

\* A step of a that neither writes, reads nor takes DIRTY, and leaves a place
\* where a change is underway only for another or for DIRTY.
LEMMA ChangesUndisturbed ==
  ASSUME LockInv, ChangePart, NEW a \in Actors, NEW step \in Steps, Goto(a, step),
         UNCHANGED <<data, shown, seen>>, pc[a] # "write", step # "write",
         "DIRTY" \in flags => "DIRTY" \in flags' \/ step \in Underway,
         pc[a] \in Underway => "DIRTY" \in flags' \/ step \in Underway
  PROVE  ChangePart'
  <1>1. \A b \in Actors : pc'[b] = IF b = a THEN step ELSE pc[b]
    BY DEF Goto, LockInv
  <1>2. SnapshotPart'
    BY <1>1 DEF ChangePart, SnapshotPart
  <1>3. Accounted'
    BY <1>1 DEF ChangePart, Accounted
  <1> QED
    BY <1>2, <1>3 DEF ChangePart

\* A commit makes what is shown outdated, and its own save asks.
LEMMA SaveKeepsChanges ==
  ASSUME LockInv, ChangePart, NEW a \in Saves, NEW day \in Days, SaveCommits(a, day)
  PROVE  ChangePart'
  <1>1. /\ \A b \in Actors : pc'[b] = IF b = a THEN pc'[a] ELSE pc[b]
        /\ pc'[a] \in {"raiseFull", "raiseDirty"} /\ a \in Actors /\ pc[a] = "idle"
        /\ shown' = shown /\ seen' = seen
        /\ data' = [data EXCEPT ![day] = data[day] + 1]
    BY DEF SaveCommits, Ask, AskOrder, Goto, LockInv, Actors
  <1>2. data' \in Versions /\ data'["recent"] >= data["recent"]
    BY <1>1 DEF ChangePart, SnapshotPart, Versions, Days
  <1>3. /\ data["recent"] \in Nat /\ data'["recent"] \in Nat /\ shown["recent"] \in Nat
        /\ \A b \in Actors : seen[b] # Nothing => seen[b]["recent"] \in Nat
    BY <1>2 DEF ChangePart, SnapshotPart, Versions, Days
  <1>4. SnapshotPart'
    BY <1>1, <1>2, <1>3 DEF ChangePart, SnapshotPart
  <1>5. Accounted'
    BY <1>1 DEF Accounted, Underway
  <1> QED
    BY <1>4, <1>5 DEF ChangePart

\* A runner reads what is committed.
LEMMA ReadKeepsChanges ==
  ASSUME LockInv, ChangePart, NEW w \in Workers, ReadCases(w)
  PROVE  ChangePart'
  <1>1. /\ \A b \in Actors : pc'[b] = IF b = w THEN "write" ELSE pc[b]
        /\ w \in Actors /\ pc[w] = "read"
        /\ data' = data /\ shown' = shown /\ flags' = flags
        /\ seen' = [seen EXCEPT ![w] = data]
    BY DEF ReadCases, Goto, LockInv, Actors
  <1>2. /\ \A b \in Actors : seen'[b] = IF b = w THEN data ELSE seen[b]
        /\ seen' \in [Actors -> Versions \cup {Nothing}] /\ data # Nothing
        /\ data["recent"] \in Nat /\ shown["recent"] <= data["recent"]
    BY <1>1, ActorsAssumption DEF ChangePart, SnapshotPart, Versions, Days
  <1>3. SnapshotPart'
    BY <1>1, <1>2 DEF ChangePart, SnapshotPart
  <1>4. Accounted'
    BY <1>1, <1>2 DEF Accounted
  <1> QED
    BY <1>3, <1>4 DEF ChangePart

\* A runner writes what it read; the lock saw to it that nobody wrote since.
LEMMA WriteKeepsChanges ==
  ASSUME LockInv, ChangePart, NEW w \in Workers, WriteRollup(w)
  PROVE  ChangePart'
  <1>1. /\ \A b \in Actors : pc'[b] = IF b = w THEN "look" ELSE pc[b]
        /\ w \in Actors /\ pc[w] = "write" /\ data' = data /\ flags' = flags
        /\ shown' = Rebuilt(w) /\ seen' = [seen EXCEPT ![w] = Nothing]
    BY DEF WriteRollup, CommitRollup, Goto, LockInv, Actors
  <1>2. /\ seen[w] \in Versions /\ shown["recent"] <= seen[w]["recent"]
        /\ seen[w]["recent"] <= data["recent"]
        /\ shown["recent"] \in Nat /\ data["recent"] \in Nat /\ seen[w]["recent"] \in Nat
    BY <1>1 DEF ChangePart, SnapshotPart, Versions, Days
  <1>3. shown' \in Versions /\ shown'["recent"] = seen[w]["recent"]
    <2>1. CASE full[w]
      BY <1>1, <1>2, <2>1 DEF Rebuilt
    <2>2. CASE ~full[w]
      <3>1. shown' = [shown EXCEPT !["recent"] = seen[w]["recent"]]
        BY <1>1, <2>2 DEF Rebuilt
      <3>2. shown \in Versions
        BY DEF ChangePart, SnapshotPart
      <3> QED
        BY <1>2, <3>1, <3>2 DEF Versions, Days
    <2> QED
      BY <2>1, <2>2
  <1>4. /\ \A b \in Actors : seen'[b] = IF b = w THEN Nothing ELSE seen[b]
        /\ seen' \in [Actors -> Versions \cup {Nothing}]
    BY <1>1 DEF ChangePart, SnapshotPart
  <1>5. \A b \in Actors : b # w => pc[b] # "write"
    BY <1>1 DEF LockInv, OneRefreshAtATime, Holding
  <1>6. SnapshotPart'
    BY <1>1, <1>2, <1>3, <1>4, <1>5 DEF ChangePart, SnapshotPart
  <1>7. Accounted'
    <2>1. ASSUME data["recent"] > shown'["recent"]
          PROVE  "DIRTY" \in flags \/ \E b \in Actors : b # w /\ pc[b] \in Underway
      <3>1. data["recent"] > shown["recent"] /\ seen[w]["recent"] # data["recent"]
        BY <1>2, <1>3, <2>1
      <3> QED
        BY <1>1, <1>5, <3>1 DEF ChangePart, Accounted, Underway
    <2> QED
      BY <1>1, <2>1 DEF Accounted
  <1> QED
    BY <1>6, <1>7 DEF ChangePart

\* A refresh that fails is about to put the request back.
LEMMA FailureKeepsChanges ==
  ASSUME LockInv, ChangePart, NEW w \in Workers, RefreshFails(w)
  PROVE  ChangePart'
  <1>1. /\ \A b \in Actors : pc'[b] = IF b = w THEN "restoreDirty" ELSE pc[b]
        /\ w \in Actors /\ data' = data /\ shown' = shown /\ flags' = flags
        /\ seen' = [seen EXCEPT ![w] = Nothing]
    BY DEF RefreshFails, RollBack, Goto, LockInv, Actors
  <1>2. /\ \A b \in Actors : seen'[b] = IF b = w THEN Nothing ELSE seen[b]
        /\ seen' \in [Actors -> Versions \cup {Nothing}]
    BY <1>1 DEF ChangePart, SnapshotPart
  <1>3. SnapshotPart'
    BY <1>1, <1>2 DEF ChangePart, SnapshotPart
  <1>4. Accounted'
    BY <1>1 DEF Accounted, Underway
  <1> QED
    BY <1>3, <1>4 DEF ChangePart

\* Every step accounts for what changed.
LEMMA ChangesKept ==
  ASSUME Restorable, LockInv, ChangePart, [Next]_vars
  PROVE  ChangePart'
  <1>a. Patches = {}
    BY DEF Restorable
  <1> USE DEF Steps, Holding, Underway
  <1>1. ASSUME NEW a \in Saves, NEW day \in Days, SaveCommits(a, day) PROVE ChangePart'
    BY <1>1, SaveKeepsChanges
  <1>2. ASSUME NEW a \in Cron, Schedule(a) PROVE ChangePart'
    BY <1>2, ChangesUndisturbed DEF Schedule, Ask, AskOrder, Actors
  <1>3. ASSUME NEW a \in Actors, AskerStep(a) PROVE ChangePart'
    <2>1. CASE RaiseFull(a)
      BY <2>1, ChangesUndisturbed DEF RaiseFull, AskOrder, Raise
    <2>2. CASE RaiseDirty(a)
      BY <2>2, ChangesUndisturbed DEF RaiseDirty, AskOrder, Raise
    <2>3. CASE Kick(a)
      BY <2>3, ChangesUndisturbed DEF Kick, Raise, Rest
    <2>4. CASE Enqueue(a)
      BY <2>4, ChangesUndisturbed DEF Enqueue, Rest
    <2> QED
      BY <1>3, <2>1, <2>2, <2>3, <2>4 DEF AskerStep
  <1>4. ASSUME NEW a \in Workers, RefreshStep(a) PROVE ChangePart'
    <2>a. a \in Actors /\ a \notin Patches
      BY <1>a DEF Actors
    <2>1. CASE TakeDirty(a)
      BY <2>a, <2>1, ChangesUndisturbed DEF TakeDirty, Take
    <2>2. CASE TakeFull(a)
      BY <2>a, <2>2, ChangesUndisturbed DEF TakeFull, Take
    <2>3. CASE RestoreDirty(a)
      BY <2>a, <2>3, ChangesUndisturbed DEF RestoreDirty, Raise
    <2>4. CASE RestoreFull(a)
      BY <2>a, <2>4, ChangesUndisturbed DEF RestoreFull, Raise
    <2>5. CASE GiveUp(a)
      BY <2>a, <2>5, ChangesUndisturbed DEF GiveUp, Take
    <2>6. CASE Release(a)
      BY <2>a, <2>6, ChangesUndisturbed DEF Release, Take
    <2> QED
      BY <1>4, <2>1, <2>2, <2>3, <2>4, <2>5, <2>6 DEF RefreshStep
  <1>5. ASSUME NEW w \in Workers, Pop(w) \/ RunnerStep(w) PROVE ChangePart'
    <2>a. w \in Actors
      BY DEF Actors
    <2>1. CASE Pop(w)
      BY <2>a, <2>1, ChangesUndisturbed DEF Pop
    <2>2. CASE TakePending(w)
      BY <2>a, <2>2, ChangesUndisturbed DEF TakePending, Take
    <2>3. CASE AcquireLock(w)
      BY <2>a, <2>3, ChangesUndisturbed DEF AcquireLock, Raise
    <2>4. CASE Look(w)
      BY <2>a, <2>4, ChangesUndisturbed DEF Look
    <2>5. CASE LookAgain(w)
      BY <2>a, <2>5, ChangesUndisturbed DEF LookAgain
    <2>6. CASE Kick(w) \/ Enqueue(w)
      BY <1>3, <2>a, <2>6 DEF AskerStep
    <2> QED
      BY <1>4, <1>5, <2>1, <2>2, <2>3, <2>4, <2>5, <2>6, ReadKeepsChanges, WriteKeepsChanges
         DEF RunnerStep
  <1>6. ASSUME NEW w \in Workers PROVE ~CommitFails(w) /\ ~WorkerKilled(w)
    BY DEF CommitFails, WorkerKilled, Fault, Restorable
  <1>7. ASSUME NEW a \in Saves \cup Cron PROVE ~RequestLost(a)
    BY DEF RequestLost, Fault, Restorable
  <1>8. ASSUME NEW a \in Saves \cup Cron \cup Workers, EnqueueFails(a) PROVE ChangePart'
    BY <1>8, ChangesUndisturbed DEF EnqueueFails, Take, Rest, Actors
  <1>9. CASE JobLost \/ LockExpires \/ PendingExpires \/ UNCHANGED vars
    <2>1. /\ pc' = pc /\ data' = data /\ shown' = shown /\ seen' = seen
          /\ "DIRTY" \in flags => "DIRTY" \in flags'
      BY <1>9 DEF JobLost, LockExpires, PendingExpires, Take, vars
    <2> QED
      BY <2>1 DEF ChangePart, SnapshotPart, Accounted
  <1>10. Saves \cup Cron \subseteq Actors
    BY DEF Actors
  <1>11. ~RequestExpires
    BY DEF RequestExpires, Fault, Restorable
  <1> QED
    BY <1>a, <1>1, <1>2, <1>3, <1>5, <1>6, <1>7, <1>8, <1>9, <1>10, <1>11, FailureKeepsChanges
       DEF Next

\* At first everything is shown.
LEMMA ChangesInit == Init => ChangePart
  <1> SUFFICES ASSUME Init PROVE ChangePart
    OBVIOUS
  <1>1. data \in Versions /\ shown = data /\ data["recent"] = 0
    BY DEF Init, Versions, Days
  <1> QED
    BY <1>1 DEF Init, ChangePart, SnapshotPart, Accounted

\* A committed change that the dashboards do not show is still asked for, with
\* any number of saves and runners, whatever refreshes fail, whatever jobs the
\* queue refuses or loses (run_pending takes DIRTY before it reads).
THEOREM NoChangeLost ==
  ASSUME Restorable
  PROVE  Spec => []ChangesAccounted
  <1>1. ChangePart => ChangesAccounted
    BY DEF ChangePart, SnapshotPart, Accounted, ChangesAccounted, Underway
  <1>2. LockInv /\ ChangePart /\ [Next]_vars => ChangePart'
    BY ChangesKept
  <1> QED
    BY <1>1, <1>2, LockInit, LockKept, ChangesInit, PTL DEF Spec

-----------------------------------------------------------------------------
(***************************************************************************)
(* No request is stranded.  A request that finds PENDING up, or a runner   *)
(* that finds LOCK up, leaves the work to another, so both keys must stand *)
(* for somebody: PENDING for a job queued, about to be queued or just      *)
(* popped, LOCK for a runner that has a look at DIRTY ahead.  A refresh    *)
(* that failed has none, which is why this holds until something fails.    *)
(***************************************************************************)

\* Somebody whose look at DIRTY is still ahead.
Looking ==
  \/ queue > 0
  \/ \E a \in Actors : pc[a] \in {"kick", "enqueue", "popped", "lookAgain"}
  \/ \E w \in Workers : pc[w] \in {"acquire"} \cup Holding

\* What the keys stand for while nothing has failed.
KeysStand ==
  /\ "PENDING" \in flags => queue > 0 \/ \E a \in Actors : pc[a] \in {"enqueue", "popped"}
  /\ "LOCK" \in flags => \E w \in Workers : pc[w] \in Holding
  /\ \A a \in Actors : pc[a] \notin {"restoreDirty", "restoreFull", "giveUp"}
  /\ "DIRTY" \in flags => Looking

Attended == queue \in Nat /\ faults \in Nat /\ (faults = 0 => KeysStand)

\* A step of a that stands for a key only ever gives it up by passing it on.
LEMMA AttentionPassedOn ==
  ASSUME LockInv, queue \in Nat, queue' \in Nat, faults \in Nat, faults' = faults,
         KeysStand, NEW a \in Actors, NEW step \in Steps, Goto(a, step),
         step \notin {"restoreDirty", "restoreFull", "giveUp"},
         queue' >= queue \/ step = "popped",
         "PENDING" \in flags' =>
           "PENDING" \in flags \/ step = "enqueue" \/ queue' > 0,
         pc[a] \in {"enqueue", "popped"} /\ "PENDING" \in flags' =>
           step \in {"enqueue", "popped"} \/ queue' > 0,
         "LOCK" \in flags' => "LOCK" \in flags \/ step \in Holding,
         pc[a] \in Holding /\ "LOCK" \in flags' => step \in Holding,
         a \in Workers \/ (pc[a] \notin Holding /\ step \notin Holding),
         "DIRTY" \in flags' => "DIRTY" \in flags \/ step = "kick",
         \* one that was looking looks still, or finds nothing, or another does
         "DIRTY" \in flags' =>
           \/ pc[a] \notin {"kick", "enqueue", "popped", "lookAgain", "acquire"} \cup Holding
           \/ step \in {"kick", "enqueue", "popped", "lookAgain", "acquire"} \cup Holding
           \/ queue' > 0
           \/ \E b \in Actors : b # a /\ pc[b] \in {"enqueue", "popped"}
           \/ \E w \in Workers : w # a /\ pc[w] \in Holding,
         step = "acquire" => a \in Workers
  PROVE  Attended'
  <1> DEFINE Looks == {"kick", "enqueue", "popped", "lookAgain"}
  <1>1. \A b \in Actors : pc'[b] = IF b = a THEN step ELSE pc[b]
    BY DEF Goto, LockInv
  <1>a. Workers \subseteq Actors
    BY DEF Actors
  <1>2. ("PENDING" \in flags => queue > 0 \/ \E b \in Actors : pc[b] \in {"enqueue", "popped"})'
    <2>1. SUFFICES ASSUME "PENDING" \in flags', ~(queue' > 0), step # "enqueue", step # "popped"
                   PROVE  \E b \in Actors : pc'[b] \in {"enqueue", "popped"}
      BY <1>1
    <2>2. "PENDING" \in flags /\ ~(queue > 0)
      BY <2>1
    <2>3. PICK b \in Actors : pc[b] \in {"enqueue", "popped"}
      BY <2>2 DEF KeysStand
    <2>4. b # a
      BY <2>1, <2>3
    <2> QED
      BY <1>1, <2>3, <2>4
  <1>3. ("LOCK" \in flags => \E w \in Workers : pc[w] \in Holding)'
    <2>1. SUFFICES ASSUME "LOCK" \in flags' PROVE \E w \in Workers : pc'[w] \in Holding
      OBVIOUS
    <2>2. CASE step \in Holding
      BY <1>1, <2>2
    <2>3. CASE step \notin Holding
      <3>1. PICK w \in Workers : pc[w] \in Holding
        BY <2>1, <2>3 DEF KeysStand
      <3>2. w # a
        BY <2>1, <2>3, <3>1
      <3> QED
        BY <1>1, <1>a, <3>1, <3>2
    <2> QED
      BY <2>2, <2>3
  <1>4. (\A b \in Actors : pc[b] \notin {"restoreDirty", "restoreFull", "giveUp"})'
    BY <1>1 DEF KeysStand
  <1>5. ("DIRTY" \in flags => Looking)'
    <2>1. SUFFICES ASSUME "DIRTY" \in flags', ~(queue' > 0), step \notin Looks
                   PROVE  \/ \E b \in Actors : pc'[b] \in Looks
                          \/ \E w \in Workers : pc'[w] \in {"acquire"} \cup Holding
      BY <1>1 DEF Looking
    <2>2. CASE \E b \in Actors : b # a /\ pc[b] \in Looks
      BY <1>1, <2>2
    <2>3. CASE \E w \in Workers : w # a /\ pc[w] \in {"acquire"} \cup Holding
      BY <1>1, <1>a, <2>3
    <2>4. CASE /\ \A b \in Actors : b # a => pc[b] \notin Looks
               /\ \A w \in Workers : w # a => pc[w] \notin {"acquire"} \cup Holding
      <3>1. "DIRTY" \in flags /\ ~(queue > 0)
        BY <2>1
      <3>2. Looking
        BY <3>1 DEF KeysStand
      <3>3. pc[a] \in Looks \cup {"acquire"} \cup Holding
        BY <1>a, <2>4, <3>1, <3>2 DEF Looking
      <3>4. step \in {"acquire"} \cup Holding
        BY <2>1, <2>4, <3>3
      <3>5. a \in Workers
        BY <3>4 DEF Holding
      <3> QED
        BY <1>1, <3>4, <3>5
    <2> QED
      BY <2>2, <2>3, <2>4
  <1> QED
    BY <1>2, <1>3, <1>4, <1>5 DEF Attended, KeysStand

\* A failure, and what follows one, owes nothing.
LEMMA AfterFailure ==
  ASSUME Attended, faults' \in Nat, faults' # 0, queue' \in Nat
  PROVE  Attended'
  BY DEF Attended

\* A step that moves nobody, takes nothing from the queue and lowers keys only.
LEMMA NobodyStands ==
  ASSUME Attended, UNCHANGED <<pc, queue, faults>>, flags' \subseteq flags
  PROVE  Attended'
  BY DEF Attended, KeysStand, Looking

\* Every step keeps the keys standing for somebody.
LEMMA AttentionKept ==
  ASSUME Patches = {}, LockInv, Attended, [Next]_vars
  PROVE  Attended'
  <1>a. /\ queue \in Nat /\ faults \in Nat /\ Workers \subseteq Actors
        /\ Saves \cup Cron \subseteq Actors
        /\ \A a \in Workers : a \notin Saves \cup Cron
    BY ActorsAssumption DEF Attended, Actors
  <1> USE DEF Steps, Holding
  <1>1. CASE faults # 0 /\ faults' = faults /\ queue' \in Nat
    BY <1>a, <1>1, AfterFailure
  <1>2. ASSUME NEW kind, Fault(kind), queue' \in Nat PROVE Attended'
    <2>1. faults' = faults + 1
      BY <1>2 DEF Fault
    <2> QED
      BY <1>a, <1>2, <2>1, AfterFailure
  <1>3. ASSUME NEW w \in Workers, RefreshFails(w) \/ CommitFails(w) \/ WorkerKilled(w)
        PROVE  Attended'
    BY <1>a, <1>2, <1>3 DEF RefreshFails, CommitFails, WorkerKilled
  <1>4. ASSUME NEW a \in Saves \cup Cron, RequestLost(a) PROVE Attended'
    BY <1>a, <1>2, <1>4 DEF RequestLost
  <1>5. ASSUME NEW a \in Saves \cup Cron \cup Workers, EnqueueFails(a) PROVE Attended'
    BY <1>a, <1>2, <1>5 DEF EnqueueFails
  <1>6. CASE JobLost \/ RequestExpires
    <2>1. queue' \in Nat
      BY <1>a, <1>6 DEF JobLost, RequestExpires
    <2> QED
      BY <1>2, <1>6, <2>1 DEF JobLost, RequestExpires
  <1>7. CASE LockExpires \/ PendingExpires \/ UNCHANGED vars
    BY <1>7, NobodyStands DEF LockExpires, PendingExpires, Take, vars
  <1>8. ASSUME NEW a \in Saves, NEW day \in Days, SaveCommits(a, day), KeysStand
        PROVE  Attended'
    BY <1>a, <1>8, AttentionPassedOn DEF SaveCommits, Ask, AskOrder
  <1>9. ASSUME NEW a \in Cron, Schedule(a), KeysStand PROVE Attended'
    BY <1>a, <1>9, AttentionPassedOn DEF Schedule, Ask, AskOrder
  <1>10. ASSUME NEW a \in Saves \cup Cron, RaiseFull(a), KeysStand PROVE Attended'
    BY <1>a, <1>10, AttentionPassedOn DEF RaiseFull, AskOrder, Raise
  <1>11. ASSUME NEW a \in Saves \cup Cron, RaiseDirty(a), KeysStand PROVE Attended'
    BY <1>a, <1>11, AttentionPassedOn DEF RaiseDirty, AskOrder, Raise
  <1>12. ASSUME NEW a \in Saves \cup Cron \cup Workers, Kick(a), KeysStand PROVE Attended'
    <2>1. a \in Actors /\ a \notin Patches
      BY <1>a, <1>12
    <2>2. CASE "PENDING" \in flags
      <3>1. queue > 0 \/ \E b \in Actors : b # a /\ pc[b] \in {"enqueue", "popped"}
        BY <1>12, <2>2 DEF KeysStand, Kick
      <3> QED
        BY <1>a, <1>12, <2>1, <2>2, <3>1, AttentionPassedOn DEF Kick, Rest, Raise
    <2>3. CASE "PENDING" \notin flags
      BY <1>a, <1>12, <2>1, <2>3, AttentionPassedOn DEF Kick, Raise
    <2> QED
      BY <2>2, <2>3
  <1>13. ASSUME NEW a \in Saves \cup Cron \cup Workers, Enqueue(a), KeysStand PROVE Attended'
    <2>1. a \in Actors /\ a \notin Patches /\ queue' > 0
      BY <1>a, <1>13 DEF Enqueue
    <2> QED
      BY <1>a, <1>13, <2>1, AttentionPassedOn DEF Enqueue, Rest
  <1>14. ASSUME NEW w \in Workers, Pop(w), KeysStand PROVE Attended'
    BY <1>a, <1>14, AttentionPassedOn DEF Pop
  <1>15. ASSUME NEW w \in Workers, TakePending(w), KeysStand PROVE Attended'
    BY <1>a, <1>15, AttentionPassedOn DEF TakePending, Take
  <1>16. ASSUME NEW w \in Workers, AcquireLock(w), KeysStand PROVE Attended'
    <2>1. CASE "LOCK" \in flags
      <3>1. \E v \in Workers : v # w /\ pc[v] \in Holding
        BY <1>16, <2>1 DEF KeysStand, AcquireLock
      <3> QED
        BY <1>a, <1>16, <2>1, <3>1, AttentionPassedOn DEF AcquireLock, Raise
    <2>2. CASE "LOCK" \notin flags
      BY <1>a, <1>16, <2>2, AttentionPassedOn DEF AcquireLock, Raise
    <2> QED
      BY <2>1, <2>2
  <1>17. ASSUME NEW w \in Workers, Look(w) \/ ReadCases(w) \/ WriteRollup(w), KeysStand
         PROVE  Attended'
    <2>1. /\ pc[w] \in Holding /\ queue' = queue /\ faults' = faults /\ flags' = flags
          /\ \E step \in {"takeDirty", "release", "write", "look"} : Goto(w, step)
      BY <1>17 DEF Look, ReadCases, WriteRollup
    <2> QED
      BY <1>a, <1>17, <2>1, AttentionPassedOn
  <1>18. ASSUME NEW w \in Workers, LookAgain(w), KeysStand PROVE Attended'
    BY <1>a, <1>18, AttentionPassedOn DEF LookAgain
  <1>19. ASSUME NEW w \in Workers, RefreshStep(w), KeysStand PROVE Attended'
    <2>a. w \notin Patches /\ w \in Actors
      BY <1>a
    <2>1. CASE TakeDirty(w)
      BY <1>a, <1>19, <2>1, AttentionPassedOn DEF TakeDirty, Take
    <2>2. CASE TakeFull(w)
      BY <1>a, <1>19, <2>a, <2>2, AttentionPassedOn DEF TakeFull, Take
    <2>3. CASE Release(w)
      BY <1>a, <1>19, <2>a, <2>3, AttentionPassedOn DEF Release, Take
    <2>4. ~RestoreDirty(w) /\ ~RestoreFull(w) /\ ~GiveUp(w)
      BY <1>19, <2>a DEF RestoreDirty, RestoreFull, GiveUp, KeysStand
    <2> QED
      BY <1>19, <2>1, <2>2, <2>3, <2>4 DEF RefreshStep
  <1>20. faults = 0 => KeysStand
    BY DEF Attended
  <1>21. CASE faults = 0
    BY <1>3, <1>4, <1>5, <1>6, <1>7, <1>8, <1>9, <1>10, <1>11, <1>12, <1>13, <1>14, <1>15,
       <1>16, <1>17, <1>18, <1>19, <1>20, <1>21 DEF Next, AskerStep, RunnerStep
  <1>22. CASE faults # 0
    <2>1. ASSUME NEW a \in Actors, Enqueue(a) \/ Pop(a)
          PROVE  queue' \in Nat /\ faults' = faults
      BY <1>a, <2>1 DEF Enqueue, Pop
    <2>2. \/ Attended'
          \/ queue' = queue /\ faults' = faults
          \/ \E a \in Actors : Enqueue(a) \/ Pop(a)
      BY <1>a, <1>3, <1>4, <1>5, <1>6, <1>7
         DEF Next, AskerStep, RunnerStep, RefreshStep, SaveCommits, Schedule, RaiseFull,
             RaiseDirty, Kick, TakePending, AcquireLock, Look, ReadCases, WriteRollup,
             LookAgain, TakeDirty, TakeFull, RestoreDirty, RestoreFull, GiveUp, Release
    <2> QED
      BY <1>a, <1>1, <1>22, <2>1, <2>2
  <1> QED
    BY <1>21, <1>22

\* At first no key is up.
LEMMA AttentionInit == Init => Attended
  BY DEF Init, Attended, KeysStand

\* Until something fails, while DIRTY is up somebody is bound to look at it, with
\* any number of saves, scheduled requests and runners and any number of passes
\* (_kick trusts PENDING, a second runner trusts LOCK).  Migrations that run a
\* refresh of their own are left out: the run rollup_patch_strands shows that
\* they do strand a request.
THEOREM NobodyStranded ==
  ASSUME Patches = {}
  PROVE  Spec => []RequestNotStranded
  <1>1. Attended => RequestNotStranded
    BY DEF Attended, KeysStand, Looking, RequestNotStranded
  <1>2. LockInv /\ Attended /\ [Next]_vars => Attended'
    BY AttentionKept
  <1> QED
    BY <1>1, <1>2, LockInit, LockKept, AttentionInit, PTL DEF Spec

-----------------------------------------------------------------------------
(***************************************************************************)
(* Types.  A runner counts its passes, and a snapshot is open whenever rows *)
(* are written from one.                                                   *)
(***************************************************************************)
\* A pass that is under way was begun with one left, and whoever is about to
\* write has its snapshot; a migration's is open from its first read on.
PassSteps == {"takeDirty", "takeFull", "read", "write"}
Reads(a) ==
  IF a \in Patches THEN {"wait", "takeDirty", "takeFull", "write", "release", "commit"}
  ELSE {"write"}

\* The inductive invariant for the types.
RollupTyped ==
  /\ TypeOK
  /\ \A w \in Workers : pc[w] \in PassSteps => passes[w] <= CatchUpRuns
  /\ \A a \in Actors : pc[a] \in Reads(a) => seen[a] # Nothing

\* A step of one actor.
LEMMA StepTyped ==
  ASSUME RollupTyped, NEW a \in Actors, NEW step \in Steps, Goto(a, step),
         data' \in Versions, shown' \in Versions, flags' \subseteq Keys, queue' \in Nat,
         full' \in [Actors -> BOOLEAN], overtaken' \subseteq Actors, faults' \in 0 .. MaxFaults,
         \/ seen' = seen /\ (step \in Reads(a) => pc[a] \in Reads(a))
         \/ seen' = [seen EXCEPT ![a] = Nothing] /\ step \notin Reads(a)
         \/ seen' = [seen EXCEPT ![a] = data],
         \/ passes' = passes
         \/ \E n \in 0 .. (1 + CatchUpRuns) : passes' = [passes EXCEPT ![a] = n],
         a \in Workers /\ step \in PassSteps =>
           passes' = passes /\ (pc[a] \in PassSteps \/ passes[a] <= CatchUpRuns)
  PROVE  RollupTyped'
  <1>1. pc' \in [Actors -> Steps] /\ \A b \in Actors : pc'[b] = IF b = a THEN step ELSE pc[b]
    BY DEF Goto, RollupTyped, TypeOK
  <1>2. /\ passes' \in [Workers -> 0 .. (1 + CatchUpRuns)]
        /\ \A w \in Workers : w # a => passes'[w] = passes[w]
    BY DEF RollupTyped, TypeOK
  <1>3. \A w \in Workers : pc'[w] \in PassSteps => passes'[w] <= CatchUpRuns
    BY <1>1, <1>2 DEF RollupTyped, Actors
  <1>4. Nothing \notin Versions /\ data \in Versions /\ seen \in [Actors -> Versions \cup {Nothing}]
    BY ActorsAssumption DEF RollupTyped, TypeOK
  <1>5. seen' \in [Actors -> Versions \cup {Nothing}]
    BY <1>4
  <1>6. \A b \in Actors : pc'[b] \in Reads(b) => seen'[b] # Nothing
    BY <1>1, <1>4 DEF RollupTyped
  <1> QED
    BY <1>1, <1>2, <1>3, <1>5, <1>6 DEF RollupTyped, TypeOK

\* What is committed was counted from cases as they were.
LEMMA RebuiltTyped ==
  ASSUME RollupTyped, NEW a \in Actors, pc[a] \in Reads(a)
  PROVE  Rebuilt(a) \in Versions
  BY DEF RollupTyped, TypeOK, Rebuilt, Versions, Days

\* Asking keeps the types.
LEMMA AskerTyped ==
  ASSUME RollupTyped, NEW a \in Actors, AskerStep(a)
  PROVE  RollupTyped'
  <1>0. TypeOK
    BY DEF RollupTyped
  <1> USE DEF Steps, Holding, Reads, PassSteps
  <1>1. CASE RaiseFull(a)
    <2>1. Goto(a, "raiseDirty") /\ Raise("FULL")
      BY <1>1 DEF RaiseFull, AskOrder
    <2> QED
      BY <1>0, <1>1, <2>1, StepTyped DEF RaiseFull, Raise, TypeOK, Keys
  <1>2. CASE RaiseDirty(a)
    <2>1. full[a] \in BOOLEAN
      BY <1>0 DEF TypeOK
    <2>2. \E step \in {"kick", "raiseFull"} : Goto(a, step)
      BY <1>2, <2>1 DEF RaiseDirty, AskOrder
    <2> QED
      BY <1>0, <1>2, <2>2, StepTyped DEF RaiseDirty, Raise, TypeOK, Keys
  <1>3. CASE Kick(a)
    BY <1>0, <1>3, StepTyped DEF Kick, Raise, Rest, TypeOK, Keys
  <1>4. CASE Enqueue(a)
    BY <1>0, <1>4, StepTyped DEF Enqueue, Rest, TypeOK
  <1> QED
    BY <1>1, <1>2, <1>3, <1>4 DEF AskerStep

\* So does a refresh.
LEMMA RefreshTyped ==
  ASSUME RollupTyped, NEW a \in Actors, RefreshStep(a) \/ WriteRefused(a)
  PROVE  RollupTyped'
  <1>0. TypeOK
    BY DEF RollupTyped
  <1> USE DEF Steps, Holding, Reads, PassSteps
  <1>1. CASE TakeDirty(a)
    BY <1>0, <1>1, StepTyped DEF TakeDirty, Take, TypeOK
  <1>2. CASE TakeFull(a)
    <2> DEFINE whether == "FULL" \in flags \/ a \in Patches
    <2>1. whether \in BOOLEAN
      OBVIOUS
    <2>2. full' = [full EXCEPT ![a] = whether]
      BY <1>2 DEF TakeFull
    <2> HIDE DEF whether
    <2>3. full' \in [Actors -> BOOLEAN]
      BY <1>0, <2>1, <2>2 DEF TypeOK
    <2> QED
      BY <1>0, <1>2, <2>3, StepTyped DEF TakeFull, Take, TypeOK
  <1>3. CASE WriteRefused(a)
    BY <1>0, <1>3, StepTyped DEF WriteRefused, RollBack, TypeOK
  <1>4. CASE RestoreDirty(a)
    BY <1>0, <1>4, StepTyped DEF RestoreDirty, Raise, TypeOK, Keys
  <1>5. CASE RestoreFull(a)
    BY <1>0, <1>5, StepTyped DEF RestoreFull, Raise, TypeOK, Keys
  <1>6. CASE GiveUp(a)
    BY <1>0, <1>6, StepTyped DEF GiveUp, Take, TypeOK
  <1>7. CASE Release(a)
    BY <1>0, <1>7, StepTyped DEF Release, Take, TypeOK
  <1> QED
    BY <1>1, <1>2, <1>3, <1>4, <1>5, <1>6, <1>7 DEF RefreshStep

\* A runner makes no more passes than it may.
LEMMA RunnerTyped ==
  ASSUME RollupTyped, NEW w \in Workers, Pop(w) \/ RunnerStep(w)
  PROVE  RollupTyped'
  <1>0. TypeOK /\ w \in Actors /\ w \notin Patches
    BY ActorsAssumption DEF RollupTyped, Actors
  <1>n. CatchUpRuns \in Nat /\ passes[w] \in 0 .. (1 + CatchUpRuns)
    BY <1>0, RollupAssumption DEF TypeOK
  <1> USE <1>0, <1>n DEF Steps, Holding, Reads, PassSteps
  <1>1. CASE Pop(w)
    BY <1>1, StepTyped DEF Pop, TypeOK
  <1>2. CASE TakePending(w)
    BY <1>2, StepTyped DEF TakePending, Take, TypeOK
  <1>3. CASE AcquireLock(w)
    <2>1. \E step \in {"idle", "look"} : Goto(w, step)
      BY <1>3 DEF AcquireLock
    <2>2. passes' = passes \/ \E n \in 0 .. (1 + CatchUpRuns) : passes' = [passes EXCEPT ![w] = n]
      BY <1>3 DEF AcquireLock
    <2> QED
      BY <1>3, <2>1, <2>2, StepTyped DEF AcquireLock, Raise, TypeOK, Keys
  <1>5. CASE Look(w)
    BY <1>5, StepTyped DEF Look, TypeOK
  <1>6. CASE ReadCases(w)
    BY <1>6, StepTyped DEF ReadCases, TypeOK
  <1>7. CASE WriteRollup(w)
    <2>1. passes[w] <= CatchUpRuns
      BY <1>7 DEF WriteRollup, RollupTyped
    <2> DEFINE n == passes[w] + 1
    <2>2. n \in 0 .. (1 + CatchUpRuns) /\ passes' = [passes EXCEPT ![w] = n]
      BY <1>7, <2>1 DEF WriteRollup
    <2> HIDE DEF n
    <2>3. Rebuilt(w) \in Versions
      BY <1>7, RebuiltTyped DEF WriteRollup
    <2>4. /\ Goto(w, "look") /\ shown' = Rebuilt(w) /\ seen' = [seen EXCEPT ![w] = Nothing]
          /\ overtaken' \subseteq Actors
          /\ UNCHANGED <<data, flags, queue, full, faults>>
      BY <1>7 DEF WriteRollup, CommitRollup, TypeOK
    <2> QED
      BY <2>2, <2>3, <2>4, StepTyped DEF TypeOK
  <1>8. CASE LookAgain(w)
    BY <1>8, StepTyped DEF LookAgain, TypeOK
  <1>9. CASE RefreshStep(w)
    BY <1>9, RefreshTyped
  <1>10. CASE Kick(w) \/ Enqueue(w)
    BY <1>10, AskerTyped DEF AskerStep
  <1> QED
    BY <1>1, <1>2, <1>3, <1>5, <1>6, <1>7, <1>8, <1>9, <1>10 DEF RunnerStep

\* A migration.
LEMMA PatchTypedStep ==
  ASSUME RollupTyped, NEW p \in Patches, PatchStep(p)
  PROVE  RollupTyped'
  <1>0. TypeOK /\ p \in Actors /\ p \notin Workers
    BY ActorsAssumption DEF RollupTyped, Actors
  <1> USE <1>0 DEF Steps, Holding, Reads, PassSteps
  <1>1. CASE PatchBegins(p)
    BY <1>1, StepTyped DEF PatchBegins, TypeOK
  <1>2. CASE PatchAcquires(p)
    BY <1>2, StepTyped DEF PatchAcquires, Raise, TypeOK, Keys
  <1>3. CASE PatchGivesUp(p)
    <2>1. Goto(p, "raiseFull") /\ full' \in [Actors -> BOOLEAN]
      BY <1>3 DEF PatchGivesUp, Ask, AskOrder, TypeOK
    <2> QED
      BY <1>3, <2>1, StepTyped DEF PatchGivesUp, TypeOK
  <1>4. CASE PatchWrites(p)
    BY <1>4, StepTyped DEF PatchWrites, TypeOK
  <1>5. CASE PatchCommits(p)
    <2>1. Rebuilt(p) \in Versions
      BY <1>5, RebuiltTyped DEF PatchCommits
    <2>2. /\ Goto(p, "done") /\ shown' = Rebuilt(p) /\ seen' = [seen EXCEPT ![p] = Nothing]
          /\ overtaken' \subseteq Actors
          /\ UNCHANGED <<data, flags, queue, full, passes, faults>>
      BY <1>5 DEF PatchCommits, CommitRollup, TypeOK
    <2> QED
      BY <2>1, <2>2, StepTyped DEF TypeOK
  <1>6. CASE RefreshStep(p)
    BY <1>6, RefreshTyped
  <1>7. CASE AskerStep(p)
    BY <1>7, AskerTyped
  <1> QED
    BY <1>1, <1>2, <1>3, <1>4, <1>5, <1>6, <1>7 DEF PatchStep

\* What may fail.
LEMMA FaultTyped ==
  ASSUME RollupTyped,
         \/ \E w \in Workers : RefreshFails(w) \/ CommitFails(w) \/ WorkerKilled(w)
         \/ \E a \in Saves \cup Cron : RequestLost(a)
         \/ \E a \in Saves \cup Cron \cup Workers : EnqueueFails(a)
         \/ JobLost \/ RequestExpires \/ LockExpires \/ PendingExpires
  PROVE  RollupTyped'
  <1>0. /\ TypeOK
        /\ \A w \in Workers : w \in Actors /\ w \notin Patches
        /\ \A a \in Saves \cup Cron : a \in Actors /\ a \notin Patches
    BY ActorsAssumption DEF RollupTyped, Actors
  <1>f. ASSUME NEW kind, Fault(kind) PROVE faults' \in 0 .. MaxFaults
    BY <1>0, <1>f, RollupAssumption DEF Fault, TypeOK
  <1> USE <1>0, <1>f DEF Steps, Holding, Reads, PassSteps
  <1>1. ASSUME NEW w \in Workers, RefreshFails(w) PROVE RollupTyped'
    BY <1>1, StepTyped DEF RefreshFails, RollBack, TypeOK
  <1>2. ASSUME NEW w \in Workers, CommitFails(w) PROVE RollupTyped'
    BY <1>2, StepTyped DEF CommitFails, TypeOK
  <1>3. ASSUME NEW w \in Workers, WorkerKilled(w) PROVE RollupTyped'
    BY <1>3, StepTyped DEF WorkerKilled, TypeOK
  <1>4. ASSUME NEW a \in Saves \cup Cron, RequestLost(a) PROVE RollupTyped'
    BY <1>4, StepTyped DEF RequestLost, TypeOK
  <1>5. ASSUME NEW a \in Saves \cup Cron \cup Workers, EnqueueFails(a) PROVE RollupTyped'
    BY <1>5, StepTyped DEF EnqueueFails, Rest, Take, TypeOK
  <1>6. CASE JobLost
    BY <1>6 DEF JobLost, RollupTyped, TypeOK
  <1>7. CASE RequestExpires \/ LockExpires \/ PendingExpires
    BY <1>7 DEF RequestExpires, LockExpires, PendingExpires, Take, RollupTyped, TypeOK
  <1> QED
    BY <1>1, <1>2, <1>3, <1>4, <1>5, <1>6, <1>7

\* The types hold at first.
LEMMA RollupTypedStart == Init => RollupTyped
  <1> SUFFICES ASSUME Init PROVE RollupTyped
    OBVIOUS
  <1> USE DEF Init
  <1>1. data \in Versions /\ shown \in Versions
    BY DEF Versions
  <1>2. 0 \in 0 .. (1 + CatchUpRuns) /\ 0 \in 0 .. MaxFaults
    BY RollupAssumption
  <1>3. \A a \in Actors : pc[a] = "idle" /\ pc[a] \in Steps /\ pc[a] \notin Reads(a) \cup PassSteps
    BY DEF Steps, Reads, PassSteps
  <1>4. TypeOK
    BY <1>1, <1>2 DEF TypeOK, Steps
  <1> QED
    BY <1>3, <1>4 DEF RollupTyped, Actors

\* Every step keeps them.
LEMMA RollupTypedStep == RollupTyped /\ [Next]_vars => RollupTyped'
  <1> SUFFICES ASSUME RollupTyped, [Next]_vars PROVE RollupTyped'
    OBVIOUS
  <1>0. TypeOK
    BY DEF RollupTyped
  <1> USE DEF Steps, Holding, Reads, PassSteps
  <1>1. ASSUME NEW a \in Actors \ (Workers \cup Patches), NEW wantsFull \in BOOLEAN, Ask(a, wantsFull),
               data' \in Versions,
               UNCHANGED <<shown, flags, queue, seen, overtaken, passes, faults>>
        PROVE  RollupTyped'
    <2>1. /\ \E step \in {"raiseFull", "raiseDirty"} : Goto(a, step)
          /\ full' \in [Actors -> BOOLEAN]
      BY <1>0, <1>1 DEF Ask, AskOrder, TypeOK
    <2> QED
      BY <1>0, <1>1, <2>1, StepTyped DEF TypeOK
  <1>2. ASSUME NEW a \in Saves, NEW day \in Days, SaveCommits(a, day) PROVE RollupTyped'
    <2>1. data' \in Versions
      BY <1>0, <1>2 DEF SaveCommits, TypeOK, Versions
    <2>2. Ask(a, day = "older") /\ (day = "older") \in BOOLEAN
      BY <1>2 DEF SaveCommits
    <2>3. a \in Actors \ (Workers \cup Patches)
      BY ActorsAssumption DEF Actors
    <2> QED
      BY <1>1, <1>2, <2>1, <2>2, <2>3 DEF SaveCommits
  <1>3. ASSUME NEW a \in Cron, Schedule(a) PROVE RollupTyped'
    <2>1. Ask(a, a \in Nightly) /\ (a \in Nightly) \in BOOLEAN
      BY <1>3 DEF Schedule
    <2>2. a \in Actors \ (Workers \cup Patches)
      BY ActorsAssumption DEF Actors
    <2> QED
      BY <1>0, <1>1, <1>3, <2>1, <2>2 DEF Schedule, TypeOK
  <1>4. ASSUME NEW a \in Saves \cup Cron, AskerStep(a) PROVE RollupTyped'
    BY <1>4, AskerTyped DEF Actors
  <1>5. ASSUME NEW p \in Patches, NEW a \in Workers \cup {p}, WriteRefused(a) PROVE RollupTyped'
    BY <1>5, RefreshTyped DEF Actors
  <1>6. CASE UNCHANGED vars
    BY <1>6 DEF vars, RollupTyped, TypeOK
  <1> QED
    BY <1>2, <1>3, <1>4, <1>5, <1>6, RunnerTyped, PatchTypedStep, FaultTyped DEF Next

\* Everything keeps its type whatever fails: among it, that no runner makes more
\* than its first pass and CATCH_UP_RUNS (run_pending).
THEOREM RollupTypedAlways == Spec => []TypeOK
  <1>1. RollupTyped => TypeOK
    BY DEF RollupTyped
  <1> QED
    BY <1>1, RollupTypedStart, RollupTypedStep, PTL DEF Spec

-----------------------------------------------------------------------------
(***************************************************************************)
(* What is shown never goes back.  A commit is based on a snapshot that no *)
(* other commit has overtaken, and whatever is shown was read before it.   *)
(***************************************************************************)
\* The database refuses what is based on an old snapshot, or no migration
\* refreshes; and migrations run one at a time.
Isolated ==
  /\ SnapshotIsolation \/ Patches = {}
  /\ \A p, q \in Patches : p = q

\* No snapshot is newer than the cases, and one that was not overtaken is no
\* older than what is shown; whoever has written was not overtaken.
Forward ==
  /\ \A d \in Days : shown[d] <= data[d]
  /\ \A a \in Actors, d \in Days :
       seen[a] # Nothing =>
         seen[a][d] <= data[d] /\ (a \notin overtaken => shown[d] <= seen[a][d])
  /\ \A p \in Patches : pc[p] \in {"release", "commit"} => p \notin overtaken
  /\ Patches = {} => overtaken = {} /\ \A a \in Actors : seen[a] # Nothing => pc[a] = "write"

\* The inductive invariant.
ForwardPart == LockInv /\ RollupTyped /\ Forward

\* What versions are made of.
LEMMA VersionNumbers ==
  ASSUME RollupTyped
  PROVE  /\ \A d \in Days : data[d] \in Nat /\ shown[d] \in Nat
         /\ \A a \in Actors, d \in Days : seen[a] # Nothing => seen[a][d] \in Nat
         /\ data # Nothing
  BY ActorsAssumption DEF RollupTyped, TypeOK, Versions

\* A step of one actor that commits no rollup.
LEMMA ForwardQuiet ==
  ASSUME RollupTyped, Forward, NEW a \in Actors, NEW step \in Steps, Goto(a, step),
         shown' = shown, data' = data \/ (\A d \in Days : data'[d] >= data[d] /\ data'[d] \in Nat),
         \/ seen' = seen /\ (pc[a] = "write" => a \in Patches)
         \/ seen' = [seen EXCEPT ![a] = Nothing]
         \/ seen' = [seen EXCEPT ![a] = data] /\ (step = "write" \/ a \in Patches),
         overtaken' = overtaken \/ (overtaken' = overtaken \ {a} /\ seen'[a] = Nothing),
         a \in Patches /\ step \in {"release", "commit"} => a \notin overtaken
  PROVE  Forward'
  <1>1. \A b \in Actors : pc'[b] = IF b = a THEN step ELSE pc[b]
    BY DEF Goto, RollupTyped, TypeOK
  <1>2. \A b \in Actors : \/ seen'[b] = seen[b]
                          \/ b = a /\ seen'[b] = Nothing
                          \/ b = a /\ seen'[b] = data
    BY DEF RollupTyped, TypeOK
  <1>a. \A d \in Days : data'[d] >= data[d] /\ data'[d] \in Nat
    BY VersionNumbers
  <1>3. \A d \in Days : shown'[d] <= data'[d]
    BY <1>a, VersionNumbers DEF Forward
  <1>4. ASSUME NEW b \in Actors, NEW d \in Days, seen'[b] # Nothing
        PROVE  seen'[b][d] <= data'[d] /\ (b \notin overtaken' => shown'[d] <= seen'[b][d])
    <2>0. b \notin overtaken' => b \notin overtaken
      BY <1>4
    <2>1. CASE seen'[b] = seen[b]
      BY <1>4, <1>a, <2>0, <2>1, VersionNumbers DEF Forward
    <2>2. CASE seen'[b] = data
      BY <1>4, <1>a, <2>2, VersionNumbers DEF Forward
    <2> QED
      BY <1>2, <1>4, <2>1, <2>2
  <1>5. \A p \in Patches : pc'[p] \in {"release", "commit"} => p \notin overtaken'
    BY <1>1 DEF Forward, Actors
  <1>6. Patches = {} => overtaken' = {} /\ \A b \in Actors : seen'[b] # Nothing => pc'[b] = "write"
    BY <1>1, <1>2 DEF Forward, RollupTyped, TypeOK
  <1> QED
    BY <1>3, <1>4, <1>5, <1>6 DEF Forward

\* A commit of a rollup based on a snapshot that was not overtaken.
LEMMA ForwardCommit ==
  ASSUME LockInv, RollupTyped, Forward, NEW a \in Actors, NEW step \in Steps, Goto(a, step),
         CommitRollup(a), data' = data, seen[a] # Nothing, a \notin overtaken,
         step \notin {"release", "commit"}, a \in Patches \/ pc[a] = "write",
         \A p \in Patches : p # a => pc[p] \notin {"release", "commit"}
  PROVE  Forward' /\ \A d \in Days : shown'[d] >= shown[d]
  <1>1. \A b \in Actors : pc'[b] = IF b = a THEN step ELSE pc[b]
    BY DEF Goto, RollupTyped, TypeOK
  <1>2. \A b \in Actors : seen'[b] = IF b = a THEN Nothing ELSE seen[b]
    BY DEF CommitRollup, RollupTyped, TypeOK
  <1>3. overtaken' = (overtaken \cup {b \in Actors : seen[b] # Nothing}) \ {a}
    BY DEF CommitRollup
  <1>4. ASSUME NEW d \in Days PROVE shown'[d] \in {shown[d], seen[a][d]}
    <2>1. shown' = IF full[a] THEN seen[a] ELSE [shown EXCEPT !["recent"] = seen[a]["recent"]]
      BY DEF CommitRollup, Rebuilt
    <2>2. shown \in Versions
      BY DEF RollupTyped, TypeOK
    <2> QED
      BY <2>1, <2>2 DEF Versions, Days
  <1>5. \A d \in Days : shown[d] <= seen[a][d] /\ seen[a][d] <= data[d]
    BY DEF Forward
  <1>6. \A d \in Days : shown'[d] <= data'[d] /\ shown'[d] >= shown[d]
    BY <1>4, <1>5, VersionNumbers
  <1>7. \A b \in Actors, d \in Days :
          seen'[b] # Nothing => b \in overtaken' /\ seen'[b][d] <= data'[d]
    BY <1>2, <1>3 DEF Forward
  <1>8. \A p \in Patches : pc'[p] \in {"release", "commit"} => p \notin overtaken'
    BY <1>1 DEF Actors
  <1>9. ASSUME Patches = {}
        PROVE  overtaken' = {} /\ \A b \in Actors : seen'[b] # Nothing => pc'[b] = "write"
    <2>1. \A b \in Actors : seen[b] # Nothing => b = a
      BY <1>9 DEF Forward, LockInv, OneRefreshAtATime, Holding
    <2> QED
      BY <1>2, <1>3, <1>9, <2>1 DEF Forward
  <1> QED
    BY <1>6, <1>7, <1>8, <1>9 DEF Forward

\* Asking commits nothing.
LEMMA AskerForward ==
  ASSUME RollupTyped, Forward, NEW a \in Actors, AskerStep(a)
  PROVE  Forward' /\ shown' = shown
  <1>0. TypeOK
    BY DEF RollupTyped
  <1>1. PICK step \in Steps \ {"write", "release", "commit"} : Goto(a, step)
    <2>1. CASE RaiseFull(a)
      BY <2>1 DEF RaiseFull, AskOrder, Steps
    <2>2. CASE RaiseDirty(a)
      <3>1. full[a] \in BOOLEAN
        BY <1>0 DEF TypeOK
      <3> QED
        BY <2>2, <3>1 DEF RaiseDirty, AskOrder, Steps
    <2>3. CASE Kick(a)
      BY <2>3 DEF Kick, Rest, Steps
    <2>4. CASE Enqueue(a)
      BY <2>4 DEF Enqueue, Rest, Steps
    <2> QED
      BY <2>1, <2>2, <2>3, <2>4 DEF AskerStep
  <1>2. data' = data /\ shown' = shown /\ seen' = seen /\ overtaken' = overtaken /\ pc[a] # "write"
    BY DEF AskerStep, RaiseFull, RaiseDirty, Kick, Enqueue
  <1> QED
    BY <1>1, <1>2, ForwardQuiet, VersionNumbers

\* A refresh takes flags and passes through.
LEMMA RefreshForward ==
  ASSUME RollupTyped, Forward, NEW a \in Actors, RefreshStep(a) \/ WriteRefused(a)
  PROVE  Forward' /\ shown' = shown
  <1> USE VersionNumbers DEF Steps, Holding
  <1>1. CASE TakeDirty(a)
    BY <1>1, ForwardQuiet DEF TakeDirty
  <1>2. CASE TakeFull(a)
    BY <1>2, ForwardQuiet DEF TakeFull
  <1>3. CASE WriteRefused(a)
    <2>1. seen'[a] = Nothing
      BY <1>3 DEF WriteRefused, RollBack, RollupTyped, TypeOK
    <2> QED
      BY <1>3, <2>1, ForwardQuiet DEF WriteRefused, RollBack
  <1>4. CASE RestoreDirty(a)
    BY <1>4, ForwardQuiet DEF RestoreDirty
  <1>5. CASE RestoreFull(a)
    BY <1>5, ForwardQuiet DEF RestoreFull
  <1>6. CASE GiveUp(a)
    BY <1>6, ForwardQuiet DEF GiveUp
  <1>7. CASE Release(a)
    <2>1. a \in Patches => a \notin overtaken
      BY <1>7 DEF Release, Forward
    <2> QED
      BY <1>7, <2>1, ForwardQuiet DEF Release
  <1> QED
    BY <1>1, <1>2, <1>3, <1>4, <1>5, <1>6, <1>7 DEF RefreshStep

\* A runner commits what it read, if nobody committed since.
LEMMA RunnerForward ==
  ASSUME Isolated, LockInv, RollupTyped, Forward, NEW w \in Workers, Pop(w) \/ RunnerStep(w)
  PROVE  Forward' /\ \A d \in Days : shown'[d] >= shown[d]
  <1>0. w \in Actors /\ w \notin Patches /\ TypeOK
    BY ActorsAssumption DEF Actors, RollupTyped
  <1>s. shown' = shown => \A d \in Days : shown'[d] >= shown[d]
    BY VersionNumbers
  <1> USE <1>0, <1>s, VersionNumbers DEF Steps, Holding
  <1>1. CASE Pop(w)
    BY <1>1, ForwardQuiet DEF Pop
  <1>2. CASE TakePending(w)
    BY <1>2, ForwardQuiet DEF TakePending
  <1>3. CASE AcquireLock(w)
    <2>1. \E step \in {"idle", "look"} : Goto(w, step)
      BY <1>3 DEF AcquireLock
    <2> QED
      BY <1>3, <2>1, ForwardQuiet DEF AcquireLock
  <1>5. CASE Look(w)
    BY <1>5, ForwardQuiet DEF Look
  <1>6. CASE ReadCases(w)
    BY <1>6, ForwardQuiet DEF ReadCases
  <1>7. CASE WriteRollup(w)
    <2>1. /\ Goto(w, "look") /\ CommitRollup(w) /\ data' = data /\ pc[w] = "write"
          /\ seen[w] # Nothing
      BY <1>7 DEF WriteRollup, RollupTyped, Reads
    <2>2. w \notin overtaken
      BY <1>7 DEF WriteRollup, Refused, Isolated, Forward
    <2>3. \A p \in Patches : pc[p] \notin {"release", "commit"}
      BY <1>7 DEF WriteRollup, RowsFree
    <2> QED
      BY <2>1, <2>2, <2>3, ForwardCommit
  <1>8. CASE LookAgain(w)
    BY <1>8, ForwardQuiet DEF LookAgain
  <1>9. CASE RefreshStep(w)
    BY <1>9, RefreshForward
  <1>10. CASE Kick(w) \/ Enqueue(w)
    BY <1>10, AskerForward DEF AskerStep
  <1> QED
    BY <1>1, <1>2, <1>3, <1>5, <1>6, <1>7, <1>8, <1>9, <1>10 DEF RunnerStep

\* A migration commits what it wrote, if nobody committed since it began.
LEMMA PatchForward ==
  ASSUME Isolated, LockInv, RollupTyped, Forward, NEW p \in Patches, PatchStep(p)
  PROVE  Forward' /\ \A d \in Days : shown'[d] >= shown[d]
  <1>0. p \in Actors /\ p \notin Workers /\ TypeOK
    BY ActorsAssumption DEF Actors, RollupTyped
  <1>s. shown' = shown => \A d \in Days : shown'[d] >= shown[d]
    BY VersionNumbers
  <1> USE <1>0, <1>s, VersionNumbers DEF Steps, Holding
  <1>1. CASE PatchBegins(p)
    BY <1>1, ForwardQuiet DEF PatchBegins
  <1>2. CASE PatchAcquires(p)
    BY <1>2, ForwardQuiet DEF PatchAcquires
  <1>3. CASE PatchGivesUp(p)
    <2>1. Goto(p, "raiseFull") /\ seen'[p] = Nothing
      BY <1>3 DEF PatchGivesUp, Ask, AskOrder, TypeOK
    <2> QED
      BY <1>3, <2>1, ForwardQuiet DEF PatchGivesUp
  <1>4. CASE PatchWrites(p)
    <2>1. p \notin overtaken
      BY <1>4 DEF PatchWrites, Refused, Isolated
    <2> QED
      BY <1>4, <2>1, ForwardQuiet DEF PatchWrites
  <1>5. CASE PatchCommits(p)
    <2>1. /\ Goto(p, "done") /\ CommitRollup(p) /\ data' = data /\ pc[p] = "commit"
          /\ seen[p] # Nothing
      BY <1>5 DEF PatchCommits, RollupTyped, Reads
    <2>2. p \notin overtaken
      BY <2>1 DEF Forward
    <2>3. \A q \in Patches : q # p => pc[q] \notin {"release", "commit"}
      BY DEF Isolated
    <2> QED
      BY <2>1, <2>2, <2>3, ForwardCommit
  <1>6. CASE RefreshStep(p)
    BY <1>6, RefreshForward
  <1>7. CASE AskerStep(p)
    BY <1>7, AskerForward
  <1> QED
    BY <1>1, <1>2, <1>3, <1>4, <1>5, <1>6, <1>7 DEF PatchStep

\* What may fail commits no rollup.
LEMMA FaultForward ==
  ASSUME RollupTyped, Forward,
         \/ \E w \in Workers : RefreshFails(w) \/ CommitFails(w) \/ WorkerKilled(w)
         \/ \E a \in Saves \cup Cron : RequestLost(a)
         \/ \E a \in Saves \cup Cron \cup Workers : EnqueueFails(a)
         \/ JobLost \/ RequestExpires \/ LockExpires \/ PendingExpires
  PROVE  Forward' /\ shown' = shown
  <1>0. /\ TypeOK /\ \A a \in Saves \cup Cron \cup Workers : a \in Actors /\ a \notin Patches
    BY ActorsAssumption DEF RollupTyped, Actors
  <1> USE <1>0, VersionNumbers DEF Steps, Holding
  <1>1. ASSUME NEW w \in Workers, NEW step \in {"restoreDirty", "giveUp", "idle"}, Goto(w, step),
               seen' = [seen EXCEPT ![w] = Nothing], overtaken' = overtaken \ {w},
               data' = data, shown' = shown
        PROVE  Forward' /\ shown' = shown
    <2>1. seen'[w] = Nothing
      BY <1>1 DEF TypeOK
    <2> QED
      BY <1>1, <2>1, ForwardQuiet
  <1>2. ASSUME NEW w \in Workers, RefreshFails(w) \/ CommitFails(w) \/ WorkerKilled(w)
        PROVE  Forward' /\ shown' = shown
    BY <1>1, <1>2 DEF RefreshFails, CommitFails, WorkerKilled, RollBack
  <1>3. ASSUME NEW a \in Saves \cup Cron, RequestLost(a) PROVE Forward' /\ shown' = shown
    BY <1>3, ForwardQuiet DEF RequestLost
  <1>4. ASSUME NEW a \in Saves \cup Cron \cup Workers, EnqueueFails(a)
        PROVE  Forward' /\ shown' = shown
    BY <1>4, ForwardQuiet DEF EnqueueFails, Rest
  <1>5. CASE JobLost \/ RequestExpires \/ LockExpires \/ PendingExpires
    BY <1>5 DEF JobLost, RequestExpires, LockExpires, PendingExpires, Forward
  <1> QED
    BY <1>2, <1>3, <1>4, <1>5

\* Every step keeps the invariant, and what is shown only moves on.
LEMMA ForwardStep ==
  ASSUME Isolated, ForwardPart, [Next]_vars
  PROVE  ForwardPart' /\ [\A d \in Days : shown'[d] >= shown[d]]_vars
  <1>0. /\ LockInv /\ RollupTyped /\ Forward /\ LockInv' /\ RollupTyped'
        /\ \A d \in Days : data'[d] \in Nat
    <2>1. LockInv /\ RollupTyped /\ Forward /\ LockInv' /\ RollupTyped'
      BY LockKept, RollupTypedStep DEF ForwardPart
    <2> QED
      BY <2>1 DEF RollupTyped, TypeOK, Versions
  <1>s. shown' = shown => \A d \in Days : shown'[d] >= shown[d]
    BY <1>0, VersionNumbers
  <1>1. ASSUME NEW a \in Saves \cup Cron, NEW wantsFull \in BOOLEAN, Ask(a, wantsFull),
               shown' = shown, seen' = seen, overtaken' = overtaken, pc[a] = "idle",
               \A d \in Days : data'[d] >= data[d]
        PROVE  Forward'
    <2>1. \E step \in {"raiseFull", "raiseDirty"} : Goto(a, step)
      BY <1>1 DEF Ask, AskOrder
    <2>2. a \in Actors
      BY DEF Actors
    <2> QED
      BY <1>0, <1>1, <2>1, <2>2, ForwardQuiet DEF Steps
  <1>2. ASSUME NEW a \in Saves, NEW day \in Days, SaveCommits(a, day)
        PROVE  Forward' /\ shown' = shown
    <2>1. \A d \in Days : data'[d] >= data[d]
      BY <1>0, <1>2 DEF SaveCommits, RollupTyped, TypeOK, Versions
    <2>2. Ask(a, day = "older") /\ (day = "older") \in BOOLEAN
      BY <1>2 DEF SaveCommits
    <2> QED
      BY <1>1, <1>2, <2>1, <2>2 DEF SaveCommits
  <1>3. ASSUME NEW a \in Cron, Schedule(a) PROVE Forward' /\ shown' = shown
    <2>1. Ask(a, a \in Nightly) /\ (a \in Nightly) \in BOOLEAN
      BY <1>3 DEF Schedule
    <2>2. \A d \in Days : data'[d] >= data[d]
      BY <1>0, <1>3, VersionNumbers DEF Schedule
    <2> QED
      BY <1>1, <1>3, <2>1, <2>2 DEF Schedule
  <1>4. ASSUME NEW a \in Saves \cup Cron, AskerStep(a) PROVE Forward' /\ shown' = shown
    BY <1>0, <1>4, AskerForward DEF Actors
  <1>5. ASSUME NEW p \in Patches, NEW a \in Workers \cup {p}, WriteRefused(a)
        PROVE  Forward' /\ shown' = shown
    BY <1>0, <1>5, RefreshForward DEF Actors
  <1>6. CASE UNCHANGED vars
    BY <1>0, <1>6 DEF vars, Forward, ForwardPart
  <1>7. CASE Next
    <2>1. Forward' /\ \A d \in Days : shown'[d] >= shown[d]
      BY <1>0, <1>s, <1>2, <1>3, <1>4, <1>5, <1>7, RunnerForward, PatchForward, FaultForward DEF Next
    <2> QED
      BY <1>0, <2>1 DEF ForwardPart
  <1> QED
    BY <1>6, <1>7

\* The dashboards never go back to older counts, of recent days or older ones,
\* whatever fails: without a migration the lock sees to it, and beside one the
\* database does, by refusing what is based on an old snapshot (run_pending,
\* refresh_now).
THEOREM NeverGoesBack ==
  ASSUME Isolated
  PROVE  Spec => ShownNeverGoesBack
  <1>1. Init => ForwardPart
    <2> SUFFICES ASSUME Init PROVE Forward
      BY LockInit, RollupTypedStart DEF ForwardPart
    <2>1. \A d \in Days : data[d] = 0 /\ shown[d] = 0
      BY DEF Init
    <2> QED
      BY <2>1 DEF Init, Forward
  <1>2. ForwardPart /\ [Next]_vars => ForwardPart' /\ [\A d \in Days : shown'[d] >= shown[d]]_vars
    BY ForwardStep
  <1> QED
    BY <1>1, <1>2, PTL DEF Spec, ShownNeverGoesBack

-----------------------------------------------------------------------------
(***************************************************************************)
(* What an incremental refresh counts.  A count that is out of date is of  *)
(* a day the next refresh comes to: one since the last refresh, or the     *)
(* filing day of a case that was escalated, answered or moved since.       *)
(***************************************************************************)
CountedRow ==
  [filed : DayOrNever, holder : Holders, status : Standings,
   ended : DayOrNever, escalated : DayOrNever, answered : DayOrNever, moved : DayOrNever]

\* A case was escalated, answered or moved since the last refresh.
Recent(row) == row.escalated >= lastPass \/ row.answered >= lastPass \/ row.moved >= lastPass

Exact(d, u, metric) == dayRows[d][u][metric] = DayCounts(d)[u][metric]

\* A count is as it should be, or there is why not.
Explained(d, u, metric) ==
  \/ Exact(d, u, metric)
  \/ d \in disturbed /\ metric = "resolved"
  \/ d >= lastPass
  \/ \E c \in CountedCases : counted[c].filed = d /\ Recent(counted[c])

CountsTyped ==
  /\ today \in StatDays /\ lastPass \in StatDays /\ lastPass <= today
  /\ counted \in [CountedCases -> CountedRow]

CountsInv ==
  /\ CountsTyped /\ IncrementalIsEnough
  /\ ~owing => \A d \in StatDays, u \in Holders, metric \in Metrics : Explained(d, u, metric)

\* The row adds one to a count.
Adds(row, d, u, metric) == row.holder = u /\ DatedBy(metric, row) = d

LEMMA CountOf ==
  ASSUME NEW d, NEW u \in Holders, NEW metric \in Metrics
  PROVE  DayCounts(d)[u][metric] = Cardinality({c \in CountedCases : Adds(counted[c], d, u, metric)})
  BY DEF DayCounts, Adds

LEMMA DayFacts ==
  /\ Never \in Int /\ Never < 0 /\ StatDays \subseteq Int /\ \A d \in StatDays : d >= 0 /\ d # Never
  /\ DayOrNever \subseteq Int
  BY WindowAssumption DEF Never, StatDays, DayOrNever

\* What happens to a case disturbs no count but those it explains.
LEMMA ChangeKeeps ==
  ASSUME CountsInv, NEW c \in CountedCases, NEW row \in CountedRow, Change(c, row),
         disturbed \subseteq disturbed',
         counted[c].filed # Never =>
           row.filed = counted[c].filed /\ (Recent(counted[c]) => Recent(row)),
         \A d \in StatDays, u \in Holders, metric \in Metrics :
           \/ Adds(counted[c], d, u, metric) <=> Adds(row, d, u, metric)
           \/ d \in disturbed' /\ metric = "resolved"
           \/ d >= lastPass
           \/ row.filed = d /\ Recent(row)
  PROVE  CountsInv'
  <1>1. /\ counted' = [counted EXCEPT ![c] = row] /\ current' = FALSE
        /\ UNCHANGED <<today, dayRows, lastPass, owing>>
    BY DEF Change
  <1>2. CountsTyped' /\ IncrementalIsEnough'
    BY <1>1 DEF CountsInv, CountsTyped, IncrementalIsEnough
  <1>3. counted \in [CountedCases -> CountedRow]
    BY DEF CountsInv, CountsTyped
  <1>4. ASSUME ~owing', NEW d \in StatDays, NEW u \in Holders, NEW metric \in Metrics
        PROVE  Explained(d, u, metric)'
    <2>1. Explained(d, u, metric)
      BY <1>1, <1>4 DEF CountsInv
    <2>2. CASE (d \in disturbed' /\ metric = "resolved") \/ d >= lastPass
      BY <1>1, <2>2 DEF Explained
    <2>3. CASE row.filed = d /\ Recent(row)
      <3>1. counted'[c].filed = d /\ Recent(counted[c])'
        BY <1>1, <1>3, <2>3 DEF Recent
      <3> QED
        BY <3>1 DEF Explained
    <2>4. CASE Adds(counted[c], d, u, metric) <=> Adds(row, d, u, metric)
      <3>1. CASE Exact(d, u, metric)
        <4>1. \A k \in CountedCases :
                Adds(counted'[k], d, u, metric) <=> Adds(counted[k], d, u, metric)
          BY <1>1, <1>3, <2>4
        <4>2. {k \in CountedCases : Adds(counted'[k], d, u, metric)}
                = {k \in CountedCases : Adds(counted[k], d, u, metric)}
          BY <4>1
        <4>3. DayCounts(d)'[u][metric] = Cardinality({k \in CountedCases : Adds(counted'[k], d, u, metric)})
          BY DEF DayCounts, Adds
        <4>4. DayCounts(d)'[u][metric] = DayCounts(d)[u][metric]
          BY <4>2, <4>3, CountOf
        <4> QED
          BY <1>1, <3>1, <4>4 DEF Exact, Explained
      <3>2. ASSUME NEW k \in CountedCases, counted[k].filed = d, Recent(counted[k])
            PROVE  Explained(d, u, metric)'
        <4>1. CASE k = c
          <5>1. row.filed = d /\ Recent(row)
            BY <3>2, <4>1, DayFacts
          <5> QED
            BY <2>3, <5>1
        <4>2. CASE k # c
          <5>1. counted'[k] = counted[k] /\ Recent(counted[k])'
            BY <1>1, <1>3, <3>2, <4>2 DEF Recent
          <5> QED
            BY <3>2, <5>1 DEF Explained
        <4> QED
          BY <4>1, <4>2
      <3> QED
        BY <2>1, <2>2, <3>1, <3>2 DEF Explained
    <2> QED
      BY <2>2, <2>3, <2>4
  <1> QED
    BY <1>2, <1>4 DEF CountsInv

\* Moving a case, with or without escalating it.
LEMMA HandedKeeps ==
  ASSUME CountsInv, NEW c \in CountedCases, NEW u \in Holders,
         EscalateCounted(c, u) \/ MoveCounted(c, u)
  PROVE  CountsInv'
  <1> DEFINE old == counted[c]
  <1>1. PICK day \in DayOrNever :
          /\ old.escalated # Never => day = old.escalated
          /\ Handed(c, u, [old EXCEPT !.escalated = day])
    <2>1. old \in CountedRow /\ today \in DayOrNever
      BY DEF CountsInv, CountsTyped, DayOrNever
    <2>2. old = [old EXCEPT !.escalated = old.escalated] /\ old.escalated \in DayOrNever
      BY <2>1 DEF CountedRow
    <2> QED
      BY <2>1, <2>2 DEF EscalateCounted, MoveCounted
  <1>2. old \in CountedRow /\ today \in StatDays /\ lastPass \in StatDays /\ lastPass <= today
    BY DEF CountsInv, CountsTyped
  <1> DEFINE risen == [old EXCEPT !.escalated = day]
             row == [risen EXCEPT !.holder = u, !.moved = today]
  <1>3. /\ Change(c, row) /\ old.filed # Never /\ old.status \in {"Open", "Resolved"}
        /\ disturbed' = disturbed \cup (IF u = old.holder THEN {} ELSE ResolvedOn(c))
    <2>1. risen.filed = old.filed /\ risen.status = old.status
      BY <1>2 DEF CountedRow
    <2> QED
      BY <1>1, <2>1 DEF Handed
  <1>4. /\ risen \in CountedRow /\ risen.filed = old.filed /\ risen.status = old.status
        /\ risen.ended = old.ended /\ risen.answered = old.answered /\ risen.escalated = day
    BY <1>2 DEF CountedRow
  <1> HIDE DEF risen
  <1>5. /\ row \in CountedRow /\ row.filed = old.filed /\ row.status = old.status
        /\ row.ended = old.ended /\ row.answered = old.answered /\ row.escalated = day
        /\ row.moved = today /\ row.holder = u
    BY <1>2, <1>4 DEF CountedRow, DayOrNever
  <1> HIDE DEF row
  <1>6. Recent(row)
    BY <1>2, <1>5, DayFacts DEF Recent
  <1>7. ASSUME NEW d \in StatDays, NEW v \in Holders, NEW metric \in Metrics,
               ~(d \in disturbed' /\ metric = "resolved"), row.filed # d
        PROVE  Adds(old, d, v, metric) <=> Adds(row, d, v, metric)
    <2>1. d # Never
      BY DayFacts
    <2>2. CASE metric \in {"submitted", "escalated", "informed"}
      BY <1>5, <1>7, <2>1, <2>2 DEF Adds, DatedBy
    <2>3. CASE metric = "rejected"
      BY <1>3, <1>5, <2>1, <2>3 DEF Adds, DatedBy
    <2>4. CASE metric = "resolved"
      BY <1>3, <1>5, <1>7, <2>1, <2>4 DEF Adds, DatedBy, ResolvedOn
    <2> QED
      BY <2>2, <2>3, <2>4 DEF Metrics
  <1>8. disturbed \subseteq disturbed'
    BY <1>3
  <1> QED
    BY <1>3, <1>5, <1>6, <1>7, <1>8, ChangeKeeps

\* A case filed, answered, ended or reopened.
LEMMA CaseKeeps ==
  ASSUME CountsInv, NEW c \in CountedCases,
         \/ FileCounted(c) \/ AnswerCounted(c) \/ ReopenCounted(c)
         \/ \E standing \in Standings \ {"Open"} : EndCounted(c, standing)
  PROVE  CountsInv'
  <1> DEFINE old == counted[c]
  <1>1. old \in CountedRow /\ today \in StatDays /\ lastPass \in StatDays /\ lastPass <= today
    BY DEF CountsInv, CountsTyped
  <1>2. today \in DayOrNever /\ Never \in DayOrNever
    BY <1>1 DEF DayOrNever
  <1>3. CASE FileCounted(c)
    <2> DEFINE row == [old EXCEPT !.filed = today]
    <2>1. old.filed = Never /\ Change(c, row) /\ disturbed' = disturbed
      BY <1>3 DEF FileCounted
    <2>2. row \in CountedRow
      BY <1>1, <1>2 DEF CountedRow
    <2>3. ASSUME NEW d \in StatDays, NEW v \in Holders, NEW metric \in Metrics, ~(d >= lastPass)
          PROVE  Adds(old, d, v, metric) <=> Adds(row, d, v, metric)
      <3>1. d # Never /\ d # today
        BY <1>1, <2>3, DayFacts
      <3>2. /\ row.filed = today /\ row.holder = old.holder /\ row.status = old.status
            /\ row.ended = old.ended
        BY <1>1 DEF CountedRow
      <3> QED
        BY <2>1, <3>1, <3>2 DEF Adds, DatedBy, Metrics
    <2> HIDE DEF row
    <2> QED
      BY <2>1, <2>2, <2>3, ChangeKeeps
  <1>4. CASE AnswerCounted(c)
    <2> DEFINE day == IF old.answered = Never THEN today ELSE old.answered
               row == [old EXCEPT !.answered = day]
    <2>1. Change(c, row) /\ disturbed' = disturbed
      BY <1>4 DEF AnswerCounted
    <2>2. /\ row \in CountedRow /\ row.filed = old.filed /\ row.holder = old.holder
          /\ row.status = old.status /\ row.ended = old.ended /\ row.answered = day
          /\ row.escalated = old.escalated /\ row.moved = old.moved
      BY <1>1, <1>2 DEF CountedRow
    <2>3. Recent(old) => Recent(row)
      BY <1>1, <2>2, DayFacts DEF Recent
    <2>4. ASSUME NEW d \in StatDays, NEW v \in Holders, NEW metric \in Metrics,
                 ~(row.filed = d /\ Recent(row))
          PROVE  Adds(old, d, v, metric) <=> Adds(row, d, v, metric)
      <3>1. d # Never
        BY DayFacts
      <3>2. CASE old.answered = Never
        <4>1. Recent(row)
          BY <1>1, <2>2, <3>2 DEF Recent
        <4> QED
          BY <2>2, <2>4, <3>1, <4>1 DEF Adds, DatedBy, Metrics
      <3>3. CASE old.answered # Never
        BY <2>2, <3>3 DEF Adds, DatedBy, Metrics
      <3> QED
        BY <3>2, <3>3
    <2> HIDE DEF row
    <2> QED
      BY <2>1, <2>2, <2>3, <2>4, ChangeKeeps
  <1>5. CASE ReopenCounted(c)
    <2> DEFINE row == [old EXCEPT !.status = "Open", !.ended = Never]
    <2>1. /\ Change(c, row) /\ old.status = "Resolved" /\ disturbed' = disturbed \cup {old.ended}
      BY <1>5 DEF ReopenCounted, ResolvedOn
    <2>2. /\ row \in CountedRow /\ row.filed = old.filed /\ row.holder = old.holder
          /\ row.status = "Open" /\ row.answered = old.answered
          /\ row.escalated = old.escalated /\ row.moved = old.moved
      BY <1>1, <1>2 DEF CountedRow, Standings
    <2>3. Recent(old) => Recent(row)
      BY <2>2 DEF Recent
    <2>4. ASSUME NEW d \in StatDays, NEW v \in Holders, NEW metric \in Metrics,
                 ~(d \in disturbed' /\ metric = "resolved")
          PROVE  Adds(old, d, v, metric) <=> Adds(row, d, v, metric)
      <3>1. d # Never
        BY DayFacts
      <3> QED
        BY <2>1, <2>2, <2>4, <3>1 DEF Adds, DatedBy, Metrics
    <2> HIDE DEF row
    <2> QED
      BY <2>1, <2>2, <2>3, <2>4, ChangeKeeps
  <1>6. ASSUME NEW standing \in Standings \ {"Open"}, EndCounted(c, standing)
        PROVE  CountsInv'
    <2> DEFINE row == [old EXCEPT !.status = standing, !.ended = today]
    <2>1. /\ Change(c, row) /\ old.status = "Open" /\ disturbed' = disturbed
      BY <1>6 DEF EndCounted, Counting
    <2>2. /\ row \in CountedRow /\ row.filed = old.filed /\ row.holder = old.holder
          /\ row.ended = today /\ row.answered = old.answered
          /\ row.escalated = old.escalated /\ row.moved = old.moved
      BY <1>1, <1>2 DEF CountedRow
    <2>3. Recent(old) => Recent(row)
      BY <2>2 DEF Recent
    <2>4. ASSUME NEW d \in StatDays, NEW v \in Holders, NEW metric \in Metrics, ~(d >= lastPass)
          PROVE  Adds(old, d, v, metric) <=> Adds(row, d, v, metric)
      <3>1. d # Never /\ d # today
        BY <1>1, <2>4, DayFacts
      <3> QED
        BY <2>1, <2>2, <3>1 DEF Adds, DatedBy, Metrics
    <2> HIDE DEF row
    <2> QED
      BY <2>1, <2>2, <2>3, <2>4, ChangeKeeps
  <1> QED
    BY <1>3, <1>4, <1>5, <1>6

\* What is neither recent nor touched since is right already.
LEMMA RecountKeeps ==
  ASSUME CountsInv, NEW every \in BOOLEAN, RefreshCounts(every)
  PROVE  CountsInv'
  <1>1. /\ dayRows' = [d \in StatDays |-> IF d \in RebuiltDays(every) THEN DayCounts(d) ELSE dayRows[d]]
        /\ current' = TRUE /\ lastPass' = today
        /\ owing' = (~every /\ (owing \/ FallsShort))
        /\ disturbed' = IF every THEN {} ELSE disturbed
        /\ UNCHANGED <<today, counted>>
    BY DEF RefreshCounts
  <1>2. today \in StatDays /\ lastPass \in StatDays /\ lastPass <= today
          /\ counted \in [CountedCases -> CountedRow]
    BY DEF CountsInv, CountsTyped
  <1>3. \A d : DayCounts(d)' = DayCounts(d)
    BY <1>1 DEF DayCounts
  <1>4. ASSUME ~owing', NEW d \in StatDays, NEW u \in Holders, NEW metric \in Metrics,
               ~(d \in disturbed' /\ metric = "resolved")
        PROVE  dayRows'[d][u][metric] = DayCounts(d)[u][metric]
    <2>1. CASE d \in RebuiltDays(every)
      BY <1>1, <2>1
    <2>2. CASE d \notin RebuiltDays(every)
      <3>1. ~every /\ ~owing /\ ~FallsShort /\ disturbed' = disturbed
        BY <1>1, <1>4, <2>2 DEF RebuiltDays
      <3> DEFINE start == WindowStart(today)
      <3>2. start \in Int /\ lastPass >= start
        BY <1>2, <3>1, WindowAssumption, DayFacts DEF FallsShort, WindowStart
      <3>3. ~(d >= start) /\ d \notin TouchedDays(start)
        BY <2>2, <3>1 DEF RebuiltDays, FallsShort
      <3>4. d \in Int /\ lastPass \in Int
        BY <1>2, DayFacts
      <3>5. ~(d >= lastPass) /\ d < start
        BY <3>2, <3>3, <3>4
      <3>6. ASSUME NEW c \in CountedCases, counted[c].filed = d, Recent(counted[c])
            PROVE  FALSE
        <4>1. \E day \in {counted[c].escalated, counted[c].answered, counted[c].moved} :
                day \in DayOrNever /\ day >= lastPass
          BY <1>2, <3>6 DEF Recent, CountedRow
        <4>2. \E day \in {counted[c].escalated, counted[c].answered, counted[c].moved} :
                day # Never /\ day >= start
          BY <1>2, <3>2, <3>4, <4>1, DayFacts
        <4>3. d \in TouchedDays(start)
          BY <3>5, <3>6, <4>2, DayFacts DEF TouchedDays
        <4> QED
          BY <3>3, <4>3
      <3>7. Explained(d, u, metric)
        BY <3>1 DEF CountsInv
      <3>8. Exact(d, u, metric)
        BY <1>4, <3>1, <3>5, <3>6, <3>7 DEF Explained
      <3> QED
        BY <1>1, <2>2, <3>8 DEF Exact
    <2> QED
      BY <2>1, <2>2
  <1>5. IncrementalIsEnough'
    BY <1>3, <1>4 DEF IncrementalIsEnough
  <1>6. ASSUME ~owing', NEW d \in StatDays, NEW u \in Holders, NEW metric \in Metrics
        PROVE  Explained(d, u, metric)'
    BY <1>3, <1>4, <1>6 DEF Explained, Exact
  <1>7. CountsTyped'
    BY <1>1, <1>2, DayFacts DEF CountsTyped
  <1> QED
    BY <1>5, <1>6, <1>7 DEF CountsInv

LEMMA CountsStep ==
  ASSUME CountsInv, [CountsNext]_countsVars
  PROVE  CountsInv'
  <1>1. ASSUME UNCHANGED <<counted, dayRows, current, lastPass, owing, disturbed>>,
               today' \in StatDays, today' >= lastPass
        PROVE  CountsInv'
    BY <1>1 DEF CountsInv, CountsTyped, IncrementalIsEnough, Explained, Exact, DayCounts, Recent
  <1>2. today \in StatDays /\ today \in Int /\ lastPass \in Int /\ lastPass <= today
    BY DayFacts DEF CountsInv, CountsTyped
  <1>3. CASE UNCHANGED countsVars
    BY <1>1, <1>2, <1>3 DEF countsVars
  <1>4. CASE NextDay
    <2>1. today' \in StatDays /\ today' >= lastPass
      BY <1>2, <1>4, WindowAssumption DEF NextDay, StatDays
    <2> QED
      BY <1>1, <1>4, <2>1 DEF NextDay
  <1> QED
    BY <1>3, <1>4, HandedKeeps, CaseKeeps, RecountKeeps DEF CountsNext

LEMMA CountsStart == CountsInit => CountsInv
  <1> SUFFICES ASSUME CountsInit PROVE CountsInv
    OBVIOUS
  <1>1. PICK u \in Holders : counted = [c \in CountedCases |-> NotCounted(u)]
    BY DEF CountsInit
  <1>2. NotCounted(u) \in CountedRow
    BY DEF NotCounted, CountedRow, DayOrNever, Standings
  <1>3. CountsTyped
    BY <1>1, <1>2, WindowAssumption DEF CountsInit, CountsTyped, StatDays
  <1>4. \A d \in StatDays, v \in Holders, metric \in Metrics : Exact(d, v, metric)
    BY DEF CountsInit, Exact
  <1> QED
    BY <1>3, <1>4 DEF CountsInit, CountsInv, IncrementalIsEnough, Explained

\* For any cases, holders, days and lengths of the windows, an incremental
\* refresh that owes nothing leaves every count of every day as a full rebuild
\* would, but for the resolutions taken from a day (IncrementalIsEnough).
THEOREM IncrementalSuffices == CountsSpec => []IncrementalIsEnough
  <1>1. CountsInv => IncrementalIsEnough
    BY DEF CountsInv
  <1> QED
    BY <1>1, CountsStart, CountsStep, PTL DEF CountsSpec

-----------------------------------------------------------------------------
(***************************************************************************)
(* Sums.  SumFunction of the community modules folds a set by a recursive  *)
(* function that takes out whichever element CHOOSE gives: what it adds up *)
(* does not depend on the order, so sums can be split and compared.        *)
(***************************************************************************)
\* The element the library's fold takes first.
Pick(s) == CHOOSE x \in s : TRUE

\* The function by which the library adds up the values of f.
Adding(f, g, S) ==
  \A s \in SUBSET S : g[s] = IF s = {} THEN 0 ELSE f[Pick(s)] + g[s \ {Pick(s)}]

\* Among subsets of a finite set there is one without a smaller one.
LEMMA SmallestSubset ==
  ASSUME NEW S, IsFiniteSet(S), NEW family \in SUBSET (SUBSET S), family # {}
  PROVE  \E s \in family : \A t \in family : t \subseteq s => t = s
  <1> DEFINE R == {pair \in Nat \X Nat : pair[1] < pair[2]}
             sizes == {Cardinality(s) : s \in family}
  <1>1. IsWellFoundedOn(R, Nat)
    BY NatLessThanWellFounded DEF OpToRel
  <1>2. \A s \in family : IsFiniteSet(s) /\ Cardinality(s) \in Nat
    BY FS_Subset, FS_CardinalityType
  <1>3. sizes \subseteq Nat /\ sizes # {}
    BY <1>2
  <1>4. \A i, j \in Nat : <<j, i>> \notin R => i <= j
    OBVIOUS
  <1> HIDE DEF R, sizes
  <1>5. PICK n \in sizes : \A m \in sizes : <<m, n>> \notin R
    BY <1>1, <1>3, WFMin
  <1> USE DEF sizes
  <1>6. PICK s \in family : n = Cardinality(s)
    OBVIOUS
  <1>7. ASSUME NEW t \in family, t \subseteq s PROVE t = s
    <2>1. Cardinality(t) >= Cardinality(s)
      BY <1>2, <1>4, <1>5, <1>6
    <2>2. Cardinality(t) <= Cardinality(s) /\ (Cardinality(s) = Cardinality(t) => s = t)
      BY <1>2, <1>7, FS_Subset
    <2> QED
      BY <1>2, <2>1, <2>2
  <1> QED
    BY <1>7

\* Two functions that add up f agree where both are defined.
LEMMA AddingSame ==
  ASSUME NEW S, IsFiniteSet(S), NEW f, NEW g, NEW h, NEW T, T \subseteq S,
         Adding(f, g, S), Adding(f, h, T)
  PROVE  \A s \in SUBSET T : g[s] = h[s]
  <1> DEFINE differ == {s \in SUBSET T : g[s] # h[s]}
  <1> SUFFICES ASSUME differ # {} PROVE FALSE
    OBVIOUS
  <1>1. differ \in SUBSET (SUBSET T) /\ IsFiniteSet(T)
    BY FS_Subset
  <1>2. PICK s \in differ : \A t \in differ : t \subseteq s => t = s
    <2> HIDE DEF differ
    <2> QED
      BY <1>1, SmallestSubset
  <1>3. s \in SUBSET T /\ s \in SUBSET S /\ g[s] # h[s]
    OBVIOUS
  <1>4. s # {}
    BY <1>3 DEF Adding
  <1>5. Pick(s) \in s
    BY <1>4 DEF Pick
  <1> DEFINE t == s \ {Pick(s)}
  <1>6. t \in SUBSET T /\ t \subseteq s /\ t # s
    BY <1>3, <1>5
  <1>7. g[t] = h[t]
    BY <1>2, <1>6
  <1>8. g[s] = f[Pick(s)] + g[t] /\ h[s] = f[Pick(s)] + h[t]
    BY <1>3, <1>4 DEF Adding
  <1> QED
    BY <1>3, <1>7, <1>8

\* There is one for every finite set: up to any size, by the least size without.
LEMMA AddingExists ==
  ASSUME NEW S, IsFiniteSet(S), NEW f \in [S -> Int]
  PROVE  \E g \in [SUBSET S -> Int] : Adding(f, g, S)
  <1> DEFINE UpTo(g, n) ==
               \A s \in SUBSET S : Cardinality(s) <= n =>
                 g[s] = IF s = {} THEN 0 ELSE f[Pick(s)] + g[s \ {Pick(s)}]
             short == {n \in Nat : ~ \E g \in [SUBSET S -> Int] : UpTo(g, n)}
             R == {pair \in Nat \X Nat : pair[1] < pair[2]}
  <1>1. \A s \in SUBSET S : /\ IsFiniteSet(s) /\ Cardinality(s) \in Nat
                            /\ Cardinality(s) <= Cardinality(S)
    BY FS_Subset, FS_CardinalityType
  <1>2. Cardinality(S) \in Nat
    BY FS_CardinalityType
  <1>3. ASSUME short = {} PROVE \E g \in [SUBSET S -> Int] : Adding(f, g, S)
    <2>1. PICK g \in [SUBSET S -> Int] : UpTo(g, Cardinality(S))
      BY <1>2, <1>3
    <2>2. Adding(f, g, S)
      BY <1>1, <2>1 DEF Adding
    <2> QED
      BY <2>2
  <1>4. ASSUME short # {} PROVE FALSE
    <2>1. IsWellFoundedOn(R, Nat)
      BY NatLessThanWellFounded DEF OpToRel
    <2>2. \A i \in Nat : i # 0 => <<i - 1, i>> \in R
      OBVIOUS
    <2>3. short \subseteq Nat
      OBVIOUS
    <2> HIDE DEF R, short
    <2>4. PICK n \in short : \A m \in short : <<m, n>> \notin R
      BY <1>4, <2>1, <2>3, WFMin
    <2>5. n # 0
      <3> SUFFICES \E g \in [SUBSET S -> Int] : UpTo(g, 0)
        BY DEF short
      <3> DEFINE g == [s \in SUBSET S |-> 0]
      <3>1. \A s \in SUBSET S : Cardinality(s) <= 0 => s = {}
        BY <1>1, FS_EmptySet
      <3>2. g \in [SUBSET S -> Int] /\ UpTo(g, 0)
        BY <3>1
      <3> QED
        BY <3>2
    <2>6. n \in Nat /\ n - 1 \in Nat /\ n - 1 \notin short
      <3>1. n \in Nat
        BY <2>3
      <3>2. <<n - 1, n>> \in R
        BY <2>2, <2>5, <3>1
      <3> QED
        BY <2>4, <2>5, <3>1, <3>2
    <2>7. PICK g \in [SUBSET S -> Int] : UpTo(g, n - 1)
      BY <2>6 DEF short
    <2> DEFINE h == [s \in SUBSET S |-> IF s = {} THEN 0 ELSE f[Pick(s)] + g[s \ {Pick(s)}]]
    <2>8. \A s \in SUBSET S : s # {} => Pick(s) \in s
      BY DEF Pick
    <2>9. h \in [SUBSET S -> Int]
      BY <2>8
    <2>10. ASSUME NEW s \in SUBSET S, Cardinality(s) <= n
           PROVE  h[s] = IF s = {} THEN 0 ELSE f[Pick(s)] + h[s \ {Pick(s)}]
      <3>1. CASE s = {}
        BY <3>1
      <3>2. CASE s # {}
        <4> DEFINE t == s \ {Pick(s)}
        <4>1. t \in SUBSET S /\ Cardinality(t) = Cardinality(s) - 1
          BY <1>1, <2>8, <3>2, FS_RemoveElement
        <4>2. Cardinality(t) <= n - 1
          BY <1>1, <2>6, <2>10, <4>1
        <4>3. g[t] = h[t]
          BY <2>7, <4>1, <4>2
        <4>4. h[s] = f[Pick(s)] + g[t]
          BY <3>2
        <4> QED
          BY <3>2, <4>3, <4>4
      <3> QED
        BY <3>1, <3>2
    <2> HIDE DEF h
    <2>11. n \notin short
      BY <2>9, <2>10 DEF short
    <2> QED
      BY <2>11
  <1> QED
    BY <1>3, <1>4

\* What the library's sum is.
LEMMA SumIsAdded ==
  ASSUME NEW S, IsFiniteSet(S), NEW f \in [S -> Int], NEW T \in SUBSET S
  PROVE  \A g : Adding(f, g, S) => SumFunctionOnSet(f, T) = g[T]
  <1> SUFFICES ASSUME NEW g, Adding(f, g, S) PROVE SumFunctionOnSet(f, T) = g[T]
    OBVIOUS
  <1> DEFINE Rec(h) == h = [s \in SUBSET T |-> IF s = {} THEN 0
                                               ELSE f[Pick(s)] + h[s \ {Pick(s)}]]
  <1>1. SumFunctionOnSet(f, T) = (CHOOSE h : Rec(h))[T]
    BY Zenon DEF SumFunctionOnSet, FoldFunctionOnSet, MapThenFoldSet, Pick
  <1>2. Rec([s \in SUBSET T |-> g[s]])
    <2> DEFINE h == [s \in SUBSET T |-> g[s]]
    <2>1. ASSUME NEW s \in SUBSET T
          PROVE  h[s] = IF s = {} THEN 0 ELSE f[Pick(s)] + h[s \ {Pick(s)}]
      <3>1. s \in SUBSET S /\ s \ {Pick(s)} \in SUBSET T
        OBVIOUS
      <3>2. h[s] = g[s] /\ h[s \ {Pick(s)}] = g[s \ {Pick(s)}]
        BY <3>1
      <3> QED
        BY <3>1, <3>2 DEF Adding
    <2> QED
      BY <2>1
  <1> DEFINE it == CHOOSE h : Rec(h)
  <1>3. Rec(it)
    BY <1>2
  <1> HIDE DEF it
  <1>4. Adding(f, it, T)
    BY <1>3 DEF Adding
  <1> HIDE DEF Rec
  <1>5. g[T] = it[T]
    BY <1>4, AddingSame
  <1> QED
    BY <1>1, <1>5 DEF it

\* Sums of the values of a function over the subsets of a finite set.
LEMMA SumLaws ==
  ASSUME NEW S, IsFiniteSet(S), NEW f \in [S -> Int]
  PROVE  /\ SumFunctionOnSet(f, {}) = 0
         /\ \A T \in SUBSET S :
              /\ SumFunctionOnSet(f, T) \in Int
              /\ T # {} => \E x \in T : SumFunctionOnSet(f, T) = f[x] + SumFunctionOnSet(f, T \ {x})
  <1>1. PICK g \in [SUBSET S -> Int] : Adding(f, g, S)
    BY AddingExists
  <1>2. \A T \in SUBSET S : SumFunctionOnSet(f, T) = g[T]
    BY <1>1, SumIsAdded
  <1>3. g[{}] = 0
    BY <1>1 DEF Adding
  <1>4. ASSUME NEW T \in SUBSET S, T # {}
        PROVE  Pick(T) \in T /\ g[T] = f[Pick(T)] + g[T \ {Pick(T)}]
    <2>1. Pick(T) \in T
      BY <1>4 DEF Pick
    <2> QED
      BY <1>1, <1>4, <2>1 DEF Adding
  <1>5. ASSUME NEW T \in SUBSET S, T # {}
        PROVE  \E x \in T : SumFunctionOnSet(f, T) = f[x] + SumFunctionOnSet(f, T \ {x})
    <2>1. T \ {Pick(T)} \in SUBSET S
      OBVIOUS
    <2> QED
      BY <1>2, <1>4, <1>5, <2>1
  <1> QED
    BY <1>2, <1>3, <1>5

\* Any element may be taken out first.
LEMMA SumWithout ==
  ASSUME NEW S, IsFiniteSet(S), NEW f \in [S -> Int], NEW T \in SUBSET S, NEW x \in T
  PROVE  SumFunctionOnSet(f, T) = f[x] + SumFunctionOnSet(f, T \ {x})
  <1> DEFINE Sum(s) == SumFunctionOnSet(f, s)
             odd == {s \in SUBSET S : \E y \in s : Sum(s) # f[y] + Sum(s \ {y})}
  <1> SUFFICES ASSUME odd # {} PROVE FALSE
    OBVIOUS
  <1>1. odd \in SUBSET (SUBSET S)
    OBVIOUS
  <1>2. PICK s \in odd : \A t \in odd : t \subseteq s => t = s
    <2> HIDE DEF odd
    <2> QED
      BY <1>1, SmallestSubset
  <1>3. PICK y \in s : Sum(s) # f[y] + Sum(s \ {y})
    OBVIOUS
  <1>4. PICK z \in s : Sum(s) = f[z] + Sum(s \ {z})
    BY SumLaws
  <1>5. y # z /\ s \in SUBSET S
    BY <1>3, <1>4
  <1>6. s \ {y} \notin odd /\ s \ {z} \notin odd
    BY <1>2, <1>5
  <1>7. Sum(s \ {y}) = f[z] + Sum((s \ {y}) \ {z}) /\ Sum(s \ {z}) = f[y] + Sum((s \ {z}) \ {y})
    BY <1>5, <1>6
  <1>8. (s \ {y}) \ {z} = (s \ {z}) \ {y} /\ (s \ {y}) \ {z} \in SUBSET S
    BY <1>5
  <1>9. Sum((s \ {y}) \ {z}) \in Int /\ f[y] \in Int /\ f[z] \in Int
    BY <1>5, <1>8, SumLaws
  <1>10. PICK rest \in Int : Sum((s \ {y}) \ {z}) = rest
    BY <1>9
  <1>11. Sum(s) = f[z] + (f[y] + rest) /\ Sum(s \ {y}) = f[z] + rest
    BY <1>4, <1>7, <1>8, <1>10
  <1> QED
    BY <1>3, <1>9, <1>11

\* What passes from a set without an element to the set holds of the whole set.
LEMMA SubsetInduction ==
  ASSUME NEW S, IsFiniteSet(S), NEW good, {} \in good,
         \A T \in SUBSET S : \A x \in T : T \ {x} \in good => T \in good
  PROVE  S \in good
  <1> DEFINE bad == {T \in SUBSET S : T \notin good}
  <1> SUFFICES ASSUME bad # {} PROVE FALSE
    OBVIOUS
  <1>1. bad \in SUBSET (SUBSET S)
    OBVIOUS
  <1>2. PICK T \in bad : \A U \in bad : U \subseteq T => U = T
    <2> HIDE DEF bad
    <2> QED
      BY <1>1, SmallestSubset
  <1>3. PICK x \in T : TRUE
    OBVIOUS
  <1>4. T \ {x} \notin bad /\ T \ {x} \in SUBSET S
    BY <1>2, <1>3
  <1> QED
    BY <1>4

\* The sum of the differences is the difference of the sums.
LEMMA SumDifference ==
  ASSUME NEW S, IsFiniteSet(S), NEW f \in [S -> Int], NEW g \in [S -> Int]
  PROVE  SumFunction([x \in S |-> f[x] - g[x]]) = SumFunction(f) - SumFunction(g)
  <1> DEFINE h == [x \in S |-> f[x] - g[x]]
             good == {T \in SUBSET S :
                        SumFunctionOnSet(h, T) = SumFunctionOnSet(f, T) - SumFunctionOnSet(g, T)}
  <1>1. h \in [S -> Int] /\ \A x \in S : h[x] = f[x] - g[x]
    OBVIOUS
  <1> HIDE DEF h
  <1>2. {} \in good
    BY <1>1, SumLaws
  <1>3. ASSUME NEW T \in SUBSET S, NEW x \in T, T \ {x} \in good PROVE T \in good
    <2> DEFINE U == T \ {x}
    <2>1. U \in SUBSET S
      OBVIOUS
    <2>2. /\ SumFunctionOnSet(f, U) \in Int /\ SumFunctionOnSet(g, U) \in Int
      BY <2>1, SumLaws
    <2>3. /\ SumFunctionOnSet(f, T) = f[x] + SumFunctionOnSet(f, U)
          /\ SumFunctionOnSet(g, T) = g[x] + SumFunctionOnSet(g, U)
          /\ SumFunctionOnSet(h, T) = h[x] + SumFunctionOnSet(h, U)
      BY <1>1, SumWithout
    <2>4. h[x] = f[x] - g[x] /\ f[x] \in Int /\ g[x] \in Int
      BY <1>1
    <2>5. SumFunctionOnSet(h, U) = SumFunctionOnSet(f, U) - SumFunctionOnSet(g, U)
      BY <1>3
    <2> QED
      BY <2>2, <2>3, <2>4, <2>5
  <1> HIDE DEF good
  <1>4. S \in good
    BY <1>2, <1>3, SubsetInduction
  <1> QED
    BY <1>1, <1>4 DEF good, h, SumFunction

\* Counting by key and adding up is counting those with any of the keys.
LEMMA SumOfCounts ==
  ASSUME NEW C, IsFiniteSet(C), NEW S, IsFiniteSet(S), NEW key
  PROVE  /\ [x \in S |-> Cardinality({c \in C : key[c] = x})] \in [S -> Nat]
         /\ SumFunction([x \in S |-> Cardinality({c \in C : key[c] = x})])
              = Cardinality({c \in C : key[c] \in S})
  <1> DEFINE with(T) == {c \in C : key[c] \in T}
             f == [x \in S |-> Cardinality({c \in C : key[c] = x})]
             good == {T \in SUBSET S : SumFunctionOnSet(f, T) = Cardinality(with(T))}
  <1>1. \A T : IsFiniteSet(with(T)) /\ Cardinality(with(T)) \in Nat
    BY FS_Subset, FS_CardinalityType
  <1>2. \A x : {c \in C : key[c] = x} = with({x})
    OBVIOUS
  <1>3. f \in [S -> Nat] /\ \A x \in S : f[x] = Cardinality(with({x}))
    BY <1>1, <1>2
  <1>4. f \in [S -> Int]
    BY <1>3
  <1>5. with({}) = {}
    OBVIOUS
  <1> HIDE DEF f
  <1>6. {} \in good
    BY <1>4, <1>5, SumLaws, FS_EmptySet
  <1>7. ASSUME NEW T \in SUBSET S, NEW x \in T, T \ {x} \in good PROVE T \in good
    <2> DEFINE U == T \ {x}
    <2>1. SumFunctionOnSet(f, T) = f[x] + SumFunctionOnSet(f, U)
      BY <1>4, SumWithout
    <2>2. with(T) = with(U) \cup with({x}) /\ with(U) \cap with({x}) = {}
      OBVIOUS
    <2>3. Cardinality(with(T)) = Cardinality(with(U)) + Cardinality(with({x}))
      <3> HIDE DEF with
      <3>1. Cardinality(with(U) \cap with({x})) = 0
        BY <2>2, FS_EmptySet
      <3>2. Cardinality(with(T))
              = Cardinality(with(U)) + Cardinality(with({x})) - Cardinality(with(U) \cap with({x}))
        BY <1>1, <2>2, FS_Union
      <3> QED
        BY <1>1, <3>1, <3>2
    <2> HIDE DEF with
    <2>4. SumFunctionOnSet(f, U) = Cardinality(with(U)) /\ f[x] = Cardinality(with({x}))
      BY <1>3, <1>7
    <2> QED
      BY <1>1, <2>1, <2>3, <2>4
  <1>8. S \in good
    <2> HIDE DEF good
    <2> QED
      BY <1>6, <1>7, SubsetInduction
  <1> QED
    BY <1>3, <1>8 DEF f, SumFunction

\* One value among zeros, and the values of a sum of naturals.
LEMMA SumOfNaturals ==
  ASSUME NEW S, IsFiniteSet(S), NEW f \in [S -> Nat]
  PROVE  /\ SumFunction(f) \in Nat
         /\ \A x \in S : f[x] <= SumFunction(f)
         /\ (\A x \in S : f[x] = 0) => SumFunction(f) = 0
         /\ \A x \in S : (\A y \in S \ {x} : f[y] = 0) => SumFunction(f) = f[x]
  <1> DEFINE Sum(T) == SumFunctionOnSet(f, T)
             good == {T \in SUBSET S : Sum(T) \in Nat /\ ((\A x \in T : f[x] = 0) => Sum(T) = 0)}
  <1>1. f \in [S -> Int]
    OBVIOUS
  <1>2. ASSUME NEW U \in SUBSET S PROVE U \in good
    <2>1. {} \in good
      BY <1>1, SumLaws
    <2>2. IsFiniteSet(U)
      BY FS_Subset
    <2>3. ASSUME NEW T \in SUBSET U, NEW x \in T, T \ {x} \in good PROVE T \in good
      <3>1. T \in SUBSET S /\ f[x] \in Nat
        OBVIOUS
      <3>2. Sum(T) = f[x] + Sum(T \ {x})
        BY <1>1, <3>1, SumWithout
      <3> QED
        BY <2>3, <3>1, <3>2
    <2> HIDE DEF good
    <2> QED
      BY <2>1, <2>2, <2>3, SubsetInduction
  <1>3. SumFunction(f) = Sum(S)
    BY DEF SumFunction
  <1>4. \A x \in S : Sum(S) = f[x] + Sum(S \ {x})
    BY <1>1, SumWithout
  <1>5. \A x \in S : f[x] \in Nat /\ S \ {x} \in SUBSET S
    OBVIOUS
  <1>6. \A x \in S : Sum(S \ {x}) \in Nat /\ ((\A y \in S \ {x} : f[y] = 0) => Sum(S \ {x}) = 0)
    BY <1>2, <1>5
  <1>7. Sum(S) \in Nat /\ ((\A x \in S : f[x] = 0) => Sum(S) = 0)
    BY <1>2
  <1>8. ASSUME NEW x \in S
        PROVE  /\ f[x] <= SumFunction(f)
               /\ (\A y \in S \ {x} : f[y] = 0) => SumFunction(f) = f[x]
    <2>1. PICK n \in Nat : Sum(S \ {x}) = n /\ ((\A y \in S \ {x} : f[y] = 0) => n = 0)
      BY <1>6
    <2>2. Sum(S) = f[x] + n
      BY <1>4, <2>1
    <2> HIDE DEF Sum
    <2> QED
      BY <1>3, <1>5, <2>1, <2>2
  <1> QED
    BY <1>3, <1>7, <1>8

-----------------------------------------------------------------------------
(***************************************************************************)
(* The charts over time.  They walk back from the cases as they stand now, *)
(* by what the day rows say happened since.  So the invariant says what    *)
(* every snapshot recorded in terms of the dates the cases bear today: the *)
(* filing date never changes, and neither does the end as long as no case  *)
(* is reopened; what the day rows say was resolved adds up to the same     *)
(* cases by their dates.                                                   *)
(***************************************************************************)
\* Who a row of the state rollup may be of, and how many cases there are.
Groups == Holders \cup {Anyone}
Size == Cardinality(CountedCases)

\* The cases that were filed, ended, resolved by a day, and those dated that day.
FiledBy(day) == {c \in CountedCases : counted[c].filed # Never /\ counted[c].filed <= day}
EndedBy(day) == {c \in CountedCases : counted[c].ended # Never /\ counted[c].ended <= day}
ResolvedBy(day) == {c \in EndedBy(day) : counted[c].status = "Resolved"}
DatedOn(metric, day) == {c \in CountedCases : DatedBy(metric, counted[c]) = day}

\* What a row says fits together.
Fits(r) ==
  /\ r.filed <= today /\ r.ended <= today
  /\ r.status = "Open" <=> r.ended = Never
  /\ r.ended # Never => r.filed # Never /\ r.filed <= r.ended
  /\ r.status = "Duplicate" => undone

\* The snapshot of a day tells how the cases stood at its end.
Tells(day) ==
  /\ StoodInAll(day) = Cardinality(FiledBy(day))
  /\ ~undone =>
       /\ Stood(day, "Open") = Cardinality(FiledBy(day) \ EndedBy(day))
       /\ Stood(day, "Resolved") = Cardinality(ResolvedBy(day))

\* The rows of the state rollup.
KeptRows == [StatDays -> [Groups -> [Standings -> 0 .. Size]]]

\* The rows are counts of cases; days not reached yet have none; the snapshot of a
\* day whose end was recorded tells it, and the last refresh recorded the cases
\* as they are until one of them changes.
SnapshotsHold ==
  /\ kept \in KeptRows
  /\ \A day \in StatDays, status \in Standings : Stood(day, status) \in 0 .. Size
  /\ \A day \in StatDays : day > lastPass \/ FiledBy(today) = {} =>
       \A u \in Groups, status \in Standings : kept[day][u][status] = 0
  /\ whole \subseteq 0 .. lastPass
  /\ \A day \in whole : Tells(day)
  /\ current => kept[lastPass] = StandNow

\* With nothing owing and no end taken back, what the days say was resolved is
\* what the cases say: of every day the last refresh has behind it.
ResolutionsHold ==
  ~owing /\ ~undone =>
    \A day \in StatDays : current \/ day < lastPass =>
      HappenedOn("resolved", day) = Cardinality(DatedOn("resolved", day))

\* The inductive invariant.
HistoryInv ==
  /\ CountsInv
  /\ \A c \in CountedCases : Fits(counted[c])
  /\ SnapshotsHold
  /\ ResolutionsHold

-----------------------------------------------------------------------------
\* A set of numbers has a least one.
LEMMA LeastNatural ==
  ASSUME NEW S \in SUBSET Nat, S # {}
  PROVE  \E i \in S : \A j \in S : i <= j
  <1> DEFINE R == {pair \in Nat \X Nat : pair[1] < pair[2]}
  <1>1. IsWellFoundedOn(R, Nat)
    BY NatLessThanWellFounded DEF OpToRel
  <1>2. \A i, j \in Nat : <<j, i>> \notin R => i <= j
    OBVIOUS
  <1> HIDE DEF R
  <1>3. PICK i \in S : \A j \in S : <<j, i>> \notin R
    BY <1>1, WFMin
  <1> QED
    BY <1>2, <1>3

\* The counts are of finitely many cases and holders.
LEMMA GroupsFinite == IsFiniteSet(Groups) /\ Size \in Nat
  BY CountedAssumption, FS_AddElement, FS_CardinalityType DEF Groups, Size

\* There are finitely many standings.
LEMMA StandingsFinite == IsFiniteSet(Standings)
  <1>1. Standings = (({"Open"} \cup {"Resolved"}) \cup {"Rejected"}) \cup {"Duplicate"}
    BY DEF Standings
  <1>2. IsFiniteSet({"Open"})
    BY FS_Singleton
  <1>3. IsFiniteSet({"Open"} \cup {"Resolved"})
    BY <1>2, FS_AddElement
  <1>4. IsFiniteSet(({"Open"} \cup {"Resolved"}) \cup {"Rejected"})
    BY <1>3, FS_AddElement
  <1> QED
    BY <1>1, <1>4, FS_AddElement

\* A set of cases is finite and no larger than all of them.
LEMMA SizeOf ==
  ASSUME NEW S \in SUBSET CountedCases
  PROVE  IsFiniteSet(S) /\ Cardinality(S) \in 0 .. Size
  BY CountedAssumption, FS_Subset, FS_CardinalityType DEF Size

\* The part of a set and the rest.
LEMMA SizeOfRest ==
  ASSUME NEW S \in SUBSET CountedCases, NEW T \in SUBSET S
  PROVE  Cardinality(S \ T) = Cardinality(S) - Cardinality(T)
  <1>1. /\ IsFiniteSet(S) /\ IsFiniteSet(T) /\ IsFiniteSet(S \ T)
        /\ Cardinality(S) \in Nat /\ Cardinality(T) \in Nat /\ Cardinality(S \ T) \in Nat
    BY SizeOf
  <1>2. S = T \cup (S \ T) /\ T \cap (S \ T) = {}
    OBVIOUS
  <1>3. Cardinality(T \cap (S \ T)) = 0
    BY <1>2, FS_EmptySet
  <1>4. Cardinality(T \cup (S \ T)) = Cardinality(T) + Cardinality(S \ T) - Cardinality(T \cap (S \ T))
    BY <1>1, FS_Union
  <1> QED
    BY <1>1, <1>2, <1>3, <1>4

\* The rows of a refresh made now.
LEMMA NowStands ==
  ASSUME CountsTyped
  PROVE  /\ StandNow \in [Groups -> [Standings -> 0 .. Size]]
         /\ \A status \in Standings :
              SumFunction([u \in Groups |-> StandNow[u][status]])
                = Cardinality({c \in CountedCases :
                                 counted[c].filed # Never /\ counted[c].status = status})
  <1>1. StandNow \in [Groups -> [Standings -> 0 .. Size]]
    BY SizeOf DEF StandNow, Groups
  <1>2. ASSUME NEW status \in Standings
        PROVE  SumFunction([u \in Groups |-> StandNow[u][status]])
                 = Cardinality({c \in CountedCases :
                                  counted[c].filed # Never /\ counted[c].status = status})
    <2> DEFINE C == {c \in CountedCases : counted[c].filed # Never /\ counted[c].status = status}
               holder == [c \in CountedCases |-> counted[c].holder]
    <2>1. IsFiniteSet(C)
      BY SizeOf
    <2>2. \A u \in Groups : StandNow[u][status] = Cardinality({c \in C : holder[c] = u})
      <3> TAKE u \in Groups
      <3>1. {c \in C : holder[c] = u}
              = {c \in CountedCases : /\ counted[c].filed # Never /\ counted[c].holder = u
                                      /\ counted[c].status = status}
        OBVIOUS
      <3> QED
        BY <3>1 DEF StandNow, Groups
    <2>3. {c \in C : holder[c] \in Groups} = C
      BY DEF CountsTyped, CountedRow, Groups
    <2> HIDE DEF C, holder
    <2>4. [u \in Groups |-> StandNow[u][status]]
            = [u \in Groups |-> Cardinality({c \in C : holder[c] = u})]
      BY <2>2
    <2>5. SumFunction([u \in Groups |-> Cardinality({c \in C : holder[c] = u})])
            = Cardinality({c \in C : holder[c] \in Groups})
      BY <2>1, GroupsFinite, SumOfCounts
    <2>6. SumFunction([u \in Groups |-> StandNow[u][status]]) = Cardinality(C)
      BY <2>3, <2>4, <2>5
    <2> QED
      BY <2>6 DEF C
  <1> QED
    BY <1>1, <1>2

\* Leaving out the holders changes no total.
LEMMA CompactedStands ==
  ASSUME NEW rows \in [Groups -> [Standings -> 0 .. Size]],
         \A status \in Standings : SumFunction([u \in Groups |-> rows[u][status]]) \in 0 .. Size
  PROVE  /\ Compacted(rows) \in [Groups -> [Standings -> 0 .. Size]]
         /\ \A status \in Standings :
              SumFunction([u \in Groups |-> Compacted(rows)[u][status]])
                = SumFunction([u \in Groups |-> rows[u][status]])
         /\ (\A u \in Groups, status \in Standings : rows[u][status] = 0) =>
              \A u \in Groups, status \in Standings : Compacted(rows)[u][status] = 0
  <1> DEFINE total(status) == SumFunction([u \in Groups |-> rows[u][status]])
  <1>1. \A u \in Groups, status \in Standings :
          Compacted(rows)[u][status] = IF u = Anyone THEN total(status) ELSE 0
    BY DEF Compacted, Groups
  <1>2. Size \in Nat /\ 0 \in 0 .. Size
    BY GroupsFinite
  <1>3. Compacted(rows) \in [Groups -> [Standings -> 0 .. Size]]
    <2>1. Compacted(rows) = [u \in Groups |-> [status \in Standings |->
                               IF u = Anyone THEN total(status) ELSE 0]]
      BY DEF Compacted, Groups
    <2> HIDE DEF total
    <2>2. \A status \in Standings : total(status) \in 0 .. Size
      BY DEF total
    <2> QED
      BY <1>2, <2>1, <2>2
  <1>4. ASSUME NEW status \in Standings
        PROVE  SumFunction([u \in Groups |-> Compacted(rows)[u][status]]) = total(status)
    <2> DEFINE f == [u \in Groups |-> Compacted(rows)[u][status]]
    <2>1. f \in [Groups -> Nat]
      BY <1>2, <1>3
    <2>2. Anyone \in Groups /\ f[Anyone] = total(status)
      BY <1>1 DEF Groups
    <2>3. \A u \in Groups \ {Anyone} : f[u] = 0
      BY <1>1
    <2> HIDE DEF f
    <2>4. SumFunction(f) = total(status)
      BY <2>1, <2>2, <2>3, GroupsFinite, SumOfNaturals
    <2> QED
      BY <2>4 DEF f
  <1>5. ASSUME \A u \in Groups, status \in Standings : rows[u][status] = 0,
               NEW status \in Standings
        PROVE  total(status) = 0
    <2> DEFINE f == [u \in Groups |-> rows[u][status]]
    <2>1. f \in [Groups -> Nat] /\ \A u \in Groups : f[u] = 0
      BY <1>5
    <2> HIDE DEF f
    <2>2. SumFunction(f) = 0
      BY <2>1, GroupsFinite, SumOfNaturals
    <2> QED
      BY <2>2 DEF f
  <1> HIDE DEF total
  <1> QED
    BY <1>1, <1>3, <1>4, <1>5 DEF total

-----------------------------------------------------------------------------
\* What a call does to the row of its case.
RowMoves(c, row) ==
  /\ \/ row.filed = counted[c].filed
     \/ /\ counted[c].filed = Never /\ row.filed = today
        /\ row.status = counted[c].status /\ row.ended = counted[c].ended
  /\ \/ row.status = counted[c].status /\ row.ended = counted[c].ended
     \/ /\ counted[c].status = "Open" /\ counted[c].filed # Never
        /\ row.status \in Standings \ {"Open"} /\ row.ended = today /\ row.filed = counted[c].filed
     \/ /\ counted[c].status = "Resolved" /\ row.status = "Open" /\ row.ended = Never
        /\ row.filed = counted[c].filed

\* Every call moves the row of its case in one of these ways.
LEMMA CallMoves ==
  ASSUME HistoryInv, NEW c \in CountedCases,
         \/ FileCounted(c) \/ AnswerCounted(c) \/ ReopenCounted(c)
         \/ \E standing \in Standings \ {"Open"} : EndCounted(c, standing)
         \/ \E u \in Holders : EscalateCounted(c, u) \/ MoveCounted(c, u)
  PROVE  \E row \in CountedRow : Change(c, row) /\ RowMoves(c, row)
  <1> DEFINE old == counted[c]
  <1>1. old \in CountedRow /\ today \in DayOrNever /\ Never \in DayOrNever
    BY DEF HistoryInv, CountsInv, CountsTyped, DayOrNever
  <1>2. CASE FileCounted(c)
    <2> DEFINE row == [old EXCEPT !.filed = today]
    <2>1. row \in CountedRow /\ row.filed = today /\ row.status = old.status /\ row.ended = old.ended
      BY <1>1 DEF CountedRow
    <2>2. Change(c, row) /\ old.filed = Never
      BY <1>2 DEF FileCounted
    <2> HIDE DEF row
    <2> QED
      BY <2>1, <2>2 DEF RowMoves
  <1>3. CASE AnswerCounted(c)
    <2> DEFINE row == [old EXCEPT !.answered = IF @ = Never THEN today ELSE @]
    <2>1. /\ row \in CountedRow /\ row.filed = old.filed /\ row.status = old.status
          /\ row.ended = old.ended
      BY <1>1 DEF CountedRow
    <2>2. Change(c, row)
      BY <1>3 DEF AnswerCounted
    <2> HIDE DEF row
    <2> QED
      BY <2>1, <2>2 DEF RowMoves
  <1>4. CASE ReopenCounted(c)
    <2> DEFINE row == [old EXCEPT !.status = "Open", !.ended = Never]
    <2>1. /\ row \in CountedRow /\ row.filed = old.filed /\ row.status = "Open"
          /\ row.ended = Never
      BY <1>1 DEF CountedRow, Standings
    <2>2. Change(c, row) /\ old.status = "Resolved"
      BY <1>4 DEF ReopenCounted
    <2> HIDE DEF row
    <2> QED
      BY <2>1, <2>2 DEF RowMoves
  <1>5. ASSUME NEW standing \in Standings \ {"Open"}, EndCounted(c, standing)
        PROVE  \E row \in CountedRow : Change(c, row) /\ RowMoves(c, row)
    <2> DEFINE row == [old EXCEPT !.status = standing, !.ended = today]
    <2>1. /\ row \in CountedRow /\ row.filed = old.filed /\ row.status = standing
          /\ row.ended = today
      BY <1>1 DEF CountedRow
    <2>2. Change(c, row) /\ old.status = "Open" /\ old.filed # Never
      BY <1>5 DEF EndCounted, Counting
    <2> HIDE DEF row
    <2> QED
      BY <2>1, <2>2 DEF RowMoves
  <1>6. ASSUME NEW u \in Holders, EscalateCounted(c, u) \/ MoveCounted(c, u)
        PROVE  \E row \in CountedRow : Change(c, row) /\ RowMoves(c, row)
    <2>1. PICK day \in DayOrNever : Handed(c, u, [old EXCEPT !.escalated = day])
      <3>1. old = [old EXCEPT !.escalated = old.escalated] /\ old.escalated \in DayOrNever
        BY <1>1 DEF CountedRow
      <3> QED
        BY <1>1, <1>6, <3>1 DEF EscalateCounted, MoveCounted
    <2> DEFINE risen == [old EXCEPT !.escalated = day]
               row == [risen EXCEPT !.holder = u, !.moved = today]
    <2>2. /\ risen \in CountedRow /\ risen.filed = old.filed /\ risen.status = old.status
          /\ risen.ended = old.ended
      BY <1>1 DEF CountedRow
    <2>3. Change(c, row)
      BY <2>1 DEF Handed
    <2> HIDE DEF risen
    <2>4. /\ row \in CountedRow /\ row.filed = old.filed /\ row.status = old.status
          /\ row.ended = old.ended
      BY <1>1, <2>2 DEF CountedRow
    <2> HIDE DEF row
    <2> QED
      BY <2>3, <2>4 DEF RowMoves
  <1> QED
    BY <1>2, <1>3, <1>4, <1>5, <1>6

\* What happens to a case today leaves what is told of the days before.
LEMMA MovesKeepHistory ==
  ASSUME HistoryInv, NEW c \in CountedCases, NEW row \in CountedRow,
         Change(c, row), RowMoves(c, row)
  PROVE  /\ \A k \in CountedCases : Fits(counted[k])'
         /\ SnapshotsHold' /\ ResolutionsHold'
  <1> DEFINE old == counted[c]
  <1>1. /\ counted' = [counted EXCEPT ![c] = row] /\ current' = FALSE
        /\ whole' = whole \ {today}
        /\ undone' = (undone \/ (old.ended # row.ended /\ row.status \in {"Open", "Duplicate"}))
        /\ UNCHANGED <<today, dayRows, kept, lastPass, owing>>
    BY DEF Change
  <1>2. /\ today \in StatDays /\ lastPass \in StatDays /\ lastPass <= today
        /\ counted \in [CountedCases -> CountedRow] /\ old \in CountedRow
    BY DEF HistoryInv, CountsInv, CountsTyped
  <1>3. Fits(old) /\ \A k \in CountedCases : Fits(counted[k])
    BY DEF HistoryInv
  <1>4. /\ today \in Int /\ lastPass \in Int /\ today >= 0 /\ lastPass >= 0 /\ Never \in Int /\ Never < 0
        /\ \A k \in CountedCases : counted[k].filed \in Int /\ counted[k].ended \in Int
        /\ row.filed \in Int /\ row.ended \in Int
        /\ row.status \in Standings /\ old.status \in Standings
    BY <1>2, DayFacts DEF CountedRow
  <1>5. \A k \in CountedCases : counted'[k] = IF k = c THEN row ELSE counted[k]
    BY <1>1, <1>2
  <1>6. /\ row.filed <= today /\ row.ended <= today
        /\ row.status = "Open" <=> row.ended = Never
        /\ row.ended # Never => row.filed # Never /\ row.filed <= row.ended
        /\ row.status = "Duplicate" => undone'
    <2>1. /\ old.filed <= today /\ old.ended <= today
          /\ old.status = "Open" <=> old.ended = Never
          /\ old.ended # Never => old.filed # Never /\ old.filed <= old.ended
          /\ old.status = "Duplicate" => undone
      BY <1>3 DEF Fits
    <2>2. old.filed \in Int /\ old.ended \in Int /\ today # Never
      BY <1>4
    <2>undone. (undone \/ (old.ended # row.ended /\ row.status \in {"Open", "Duplicate"})) => undone'
      BY <1>1, Zenon
    <2>3. CASE row.status = old.status /\ row.ended = old.ended
      BY <1>4, <2>1, <2>2, <2>3, <2>undone DEF RowMoves
    <2>4. CASE /\ old.status = "Open" /\ old.filed # Never
               /\ row.status \in Standings \ {"Open"} /\ row.ended = today /\ row.filed = old.filed
      BY <1>4, <2>1, <2>2, <2>4, <2>undone
    <2>5. CASE /\ old.status = "Resolved" /\ row.status = "Open" /\ row.ended = Never
               /\ row.filed = old.filed
      BY <1>4, <2>1, <2>2, <2>5
    <2> QED
      BY <2>3, <2>4, <2>5 DEF RowMoves
  <1>ends. ~undone' => \/ row.status = old.status /\ row.ended = old.ended
                       \/ old.status = "Open" /\ old.ended = Never /\ row.ended = today
    BY <1>1, <1>3, <1>4 DEF RowMoves, Fits
  <1>7. \A k \in CountedCases : Fits(counted[k])'
    BY <1>1, <1>3, <1>5, <1>6 DEF Fits
  <1>8. ASSUME NEW day \in Int, day < today
        PROVE  /\ FiledBy(day)' = FiledBy(day)
               /\ ~undone' => EndedBy(day)' = EndedBy(day) /\ ResolvedBy(day)' = ResolvedBy(day)
    <2>1. row.filed # Never /\ row.filed <= day <=> old.filed # Never /\ old.filed <= day
      BY <1>4, <1>8 DEF RowMoves
    <2>2. FiledBy(day)' = FiledBy(day)
      BY <1>5, <2>1 DEF FiledBy
    <2>3. ASSUME ~undone'
          PROVE  EndedBy(day)' = EndedBy(day) /\ ResolvedBy(day)' = ResolvedBy(day)
      <3>1. /\ row.ended # Never /\ row.ended <= day <=> old.ended # Never /\ old.ended <= day
            /\ old.ended # Never => row.status = old.status
        BY <1>4, <1>8, <1>ends, <2>3
      <3>2. EndedBy(day)' = EndedBy(day)
        BY <1>5, <3>1 DEF EndedBy
      <3> QED
        BY <1>5, <3>1, <3>2 DEF ResolvedBy, EndedBy
    <2> QED
      BY <2>2, <2>3
  <1>9. SnapshotsHold'
    <2>1. SnapshotsHold
      BY DEF HistoryInv
    <2>2. \A day, status : Stood(day, status)' = Stood(day, status)
      BY <1>1 DEF Stood
    <2>3. \A day : StoodInAll(day)' = StoodInAll(day)
      BY <2>2 DEF StoodInAll
    <2>4. whole' \subseteq 0 .. lastPass
      BY <1>1, <2>1 DEF SnapshotsHold
    <2>5. ASSUME NEW day \in whole' PROVE Tells(day)'
      <3>1. day \in whole /\ day \in Int /\ day < today
        BY <1>1, <1>2, <1>4, <2>1, <2>5 DEF SnapshotsHold
      <3>2. Tells(day)
        BY <2>1, <3>1 DEF SnapshotsHold
      <3>3. ~undone' => ~undone
        BY <1>1
      <3>4. /\ FiledBy(day)' = FiledBy(day)
            /\ ~undone' => EndedBy(day)' = EndedBy(day) /\ ResolvedBy(day)' = ResolvedBy(day)
        BY <1>8, <3>1
      <3> QED
        BY <2>2, <2>3, <3>2, <3>3, <3>4 DEF Tells
    <2>6. FiledBy(today)' = {} => FiledBy(today) = {}
      BY <1>1, <1>2, <1>4, <1>5, <1>3 DEF FiledBy, RowMoves, Fits
    <2> QED
      BY <1>1, <2>1, <2>2, <2>4, <2>5, <2>6 DEF SnapshotsHold, KeptRows
  <1>10. ResolutionsHold'
    <2> SUFFICES ASSUME ~owing', ~undone', NEW day \in StatDays, day < lastPass
                 PROVE  HappenedOn("resolved", day)' = Cardinality(DatedOn("resolved", day))'
      BY <1>1 DEF ResolutionsHold
    <2>1. ~owing /\ ~undone
      BY <1>1
    <2>2. HappenedOn("resolved", day) = Cardinality(DatedOn("resolved", day))
      BY <1>1, <2>1 DEF HistoryInv, ResolutionsHold
    <2>3. HappenedOn("resolved", day)' = HappenedOn("resolved", day)
      BY <1>1 DEF HappenedOn
    <2>4. day \in Int /\ day # Never /\ day < today
      <3>1. day \in Int /\ day # Never
        BY DayFacts
      <3> QED
        BY <1>2, <1>4, <3>1
    <2>5. DatedBy("resolved", row) = day <=> DatedBy("resolved", old) = day
      BY <1>3, <1>4, <1>ends, <2>4 DEF DatedBy
    <2>6. DatedOn("resolved", day)' = DatedOn("resolved", day)
      BY <1>5, <2>5 DEF DatedOn
    <2> QED
      BY <2>2, <2>3, <2>6
  <1> QED
    BY <1>7, <1>9, <1>10

-----------------------------------------------------------------------------
\* The sum of a day over the holders is the count of the day.
LEMMA DayAddsUp ==
  ASSUME CountsTyped, NEW day, NEW metric \in Metrics
  PROVE  SumFunction([u \in Holders |-> DayCounts(day)[u][metric]])
           = Cardinality(DatedOn(metric, day))
  <1> DEFINE C == DatedOn(metric, day)
             holder == [c \in CountedCases |-> counted[c].holder]
  <1>1. IsFiniteSet(C) /\ IsFiniteSet(Holders)
    BY SizeOf, CountedAssumption DEF DatedOn
  <1>2. \A u \in Holders : DayCounts(day)[u][metric] = Cardinality({c \in C : holder[c] = u})
    <2> TAKE u \in Holders
    <2>1. {c \in C : holder[c] = u}
            = {c \in CountedCases : counted[c].holder = u /\ DatedBy(metric, counted[c]) = day}
      BY DEF DatedOn
    <2> QED
      BY <2>1 DEF DayCounts
  <1>3. {c \in C : holder[c] \in Holders} = C
    BY DEF DatedOn, CountsTyped, CountedRow
  <1> HIDE DEF C, holder
  <1>4. [u \in Holders |-> DayCounts(day)[u][metric]]
          = [u \in Holders |-> Cardinality({c \in C : holder[c] = u})]
    BY <1>2
  <1>5. SumFunction([u \in Holders |-> Cardinality({c \in C : holder[c] = u})])
          = Cardinality({c \in C : holder[c] \in Holders})
    BY <1>1, SumOfCounts
  <1>6. SumFunction([u \in Holders |-> DayCounts(day)[u][metric]]) = Cardinality(C)
    BY <1>3, <1>4, <1>5
  <1> QED
    BY <1>6 DEF C

\* All the standings of a day together.
LEMMA StandNowAll ==
  ASSUME CountsTyped
  PROVE  SumFunction([status \in Standings |->
           Cardinality({c \in CountedCases :
                          counted[c].filed # Never /\ counted[c].status = status})])
         = Cardinality({c \in CountedCases : counted[c].filed # Never})
  <1> DEFINE C == {c \in CountedCases : counted[c].filed # Never}
             standing == [c \in CountedCases |-> counted[c].status]
  <1>1. IsFiniteSet(C)
    BY SizeOf
  <1>2. \A status \in Standings :
          {c \in CountedCases : counted[c].filed # Never /\ counted[c].status = status}
            = {c \in C : standing[c] = status}
    OBVIOUS
  <1>3. {c \in C : standing[c] \in Standings} = C
    BY DEF CountsTyped, CountedRow
  <1>4. [status \in Standings |->
           Cardinality({c \in CountedCases :
                          counted[c].filed # Never /\ counted[c].status = status})]
          = [status \in Standings |-> Cardinality({c \in C : standing[c] = status})]
    BY <1>2
  <1> HIDE DEF C, standing
  <1>5. SumFunction([status \in Standings |-> Cardinality({c \in C : standing[c] = status})])
          = Cardinality({c \in C : standing[c] \in Standings})
    BY <1>1, StandingsFinite, SumOfCounts
  <1> QED
    BY <1>3, <1>4, <1>5 DEF C

\* A refresh records how the cases stand, and keeps what it leaves out.
LEMMA RefreshKeepsHistory ==
  ASSUME HistoryInv, NEW every \in BOOLEAN, RefreshCounts(every)
  PROVE  /\ \A k \in CountedCases : Fits(counted[k])'
         /\ SnapshotsHold' /\ ResolutionsHold'
  <1>1. /\ dayRows' = [d \in StatDays |-> IF d \in RebuiltDays(every) THEN DayCounts(d) ELSE dayRows[d]]
        /\ kept' = [d \in StatDays |-> CASE d = today -> StandNow
                                        [] d < today -> Compacted(kept[d])
                                        [] OTHER -> kept[d]]
        /\ current' = TRUE /\ lastPass' = today /\ whole' = whole \cup {today}
        /\ owing' = (~every /\ (owing \/ FallsShort))
        /\ UNCHANGED <<today, counted, undone>>
    BY DEF RefreshCounts
  <1>same. today' = today /\ counted' = counted /\ lastPass' = today /\ (undone' <=> undone)
    BY <1>1
  <1>2. /\ today \in StatDays /\ lastPass \in StatDays /\ lastPass <= today
        /\ counted \in [CountedCases -> CountedRow] /\ CountsTyped
    BY DEF HistoryInv, CountsInv, CountsTyped
  <1>3. /\ today \in Int /\ lastPass \in Int /\ today >= 0 /\ lastPass >= 0 /\ Never \in Int /\ Never < 0
        /\ \A k \in CountedCases : counted[k].filed \in Int /\ counted[k].ended \in Int
    BY <1>2, DayFacts DEF CountedRow
  <1>4. \A d \in StatDays : d \in Int
    BY DayFacts
  <1>5. SnapshotsHold /\ \A k \in CountedCases : Fits(counted[k])
    BY DEF HistoryInv
  <1>6. \A k \in CountedCases : Fits(counted[k])'
    BY <1>1, <1>5 DEF Fits
  <1>7. \A day : /\ FiledBy(day)' = FiledBy(day) /\ EndedBy(day)' = EndedBy(day)
                 /\ ResolvedBy(day)' = ResolvedBy(day)
    BY <1>1 DEF FiledBy, EndedBy, ResolvedBy
  <1>8. StandNow' = StandNow
    BY <1>1 DEF StandNow
  <1>9. \A d \in StatDays : /\ kept[d] \in [Groups -> [Standings -> 0 .. Size]]
                            /\ \A status \in Standings :
                                 SumFunction([u \in Groups |-> kept[d][u][status]]) \in 0 .. Size
    BY <1>5 DEF SnapshotsHold, KeptRows, Stood, Groups
  <1>10. ASSUME NEW d \in StatDays
         PROVE  /\ d = today => kept'[d] = StandNow
                /\ d < today => kept'[d] = Compacted(kept[d])
                /\ d > today => kept'[d] = kept[d]
    BY <1>1, <1>3, <1>4
  <1>11. ASSUME NEW d \in StatDays
         PROVE  /\ kept'[d] \in [Groups -> [Standings -> 0 .. Size]]
                /\ d # today => \A status \in Standings : Stood(d, status)' = Stood(d, status)
                /\ d # today /\ (\A u \in Groups, status \in Standings : kept[d][u][status] = 0) =>
                     \A u \in Groups, status \in Standings : kept'[d][u][status] = 0
    <2>1. CASE d = today
      BY <1>2, <1>10, <2>1, NowStands
    <2>2. CASE d < today
      <3>1. kept'[d] = Compacted(kept[d])
        BY <1>10, <2>2
      <3>2. /\ Compacted(kept[d]) \in [Groups -> [Standings -> 0 .. Size]]
            /\ \A status \in Standings :
                 SumFunction([u \in Groups |-> Compacted(kept[d])[u][status]])
                   = SumFunction([u \in Groups |-> kept[d][u][status]])
            /\ (\A u \in Groups, status \in Standings : kept[d][u][status] = 0) =>
                 \A u \in Groups, status \in Standings : Compacted(kept[d])[u][status] = 0
        BY <1>9, CompactedStands
      <3>3. \A status \in Standings : Stood(d, status)' = Stood(d, status)
        BY <3>1, <3>2 DEF Stood, Groups
      <3> QED
        BY <3>1, <3>2, <3>3
    <2>3. CASE d > today
      <3>1. kept'[d] = kept[d]
        BY <1>10, <2>3
      <3> QED
        BY <1>9, <3>1 DEF Stood
    <2> QED
      BY <1>3, <1>4, <2>1, <2>2, <2>3
  <1>12. \A status \in Standings :
           Stood(today, status)' = Cardinality({c \in CountedCases :
                                      counted[c].filed # Never /\ counted[c].status = status})
    <2> TAKE status \in Standings
    <2>1. kept'[today'] = StandNow
      BY <1>2, <1>10, <1>same
    <2>2. Stood(today, status)' = SumFunction([u \in Groups |-> StandNow[u][status]])
      BY <2>1 DEF Stood, Groups
    <2> QED
      BY <1>2, <2>2, NowStands
  <1>13. \A d \in StatDays, status \in Standings : Stood(d, status)' \in 0 .. Size
    <2> TAKE d \in StatDays, status \in Standings
    <2>1. CASE d = today
      BY <1>1, <1>12, <2>1, SizeOf
    <2>2. CASE d # today
      BY <1>5, <1>11, <2>2 DEF SnapshotsHold
    <2> QED
      BY <2>1, <2>2
  <1>14. ASSUME NEW d \in StatDays, d > today \/ FiledBy(today)' = {},
                NEW u \in Groups, NEW status \in Standings
         PROVE  kept'[d][u][status] = 0
    <2>1. CASE d = today
      <3>1. FiledBy(today) = {}
        BY <1>3, <1>7, <1>14, <1>same, <2>1
      <3>2. \A c \in CountedCases : counted[c].filed = Never
        BY <1>5, <3>1 DEF FiledBy, Fits
      <3>3. {c \in CountedCases : /\ counted[c].filed # Never /\ counted[c].holder = u
                                  /\ counted[c].status = status} = {}
        BY <3>2
      <3>4. StandNow[u][status] = 0
        BY <3>3, FS_EmptySet DEF StandNow, Groups
      <3> QED
        BY <1>10, <2>1, <3>4
    <2>2. CASE d # today
      <3>1. d > lastPass \/ FiledBy(today) = {}
        BY <1>2, <1>3, <1>4, <1>7, <1>14, <1>same
      <3>2. \A v \in Groups, x \in Standings : kept[d][v][x] = 0
        BY <1>5, <3>1 DEF SnapshotsHold
      <3> QED
        BY <1>11, <2>2, <3>2
    <2> QED
      BY <2>1, <2>2
  <1>15. whole' \subseteq 0 .. today
    BY <1>1, <1>2, <1>3, <1>5 DEF SnapshotsHold
  <1>16. ASSUME NEW day \in whole' PROVE Tells(day)'
    <2>1. CASE day = today
      <3> DEFINE standing(status) == {c \in CountedCases :
                                        counted[c].filed # Never /\ counted[c].status = status}
      <3>1. \A status \in Standings : Stood(today, status)' = Cardinality(standing(status))
        BY <1>12
      <3>2. StoodInAll(today)' = Cardinality({c \in CountedCases : counted[c].filed # Never})
        <4>1. [status \in Standings |-> Stood(today, status)']
                = [status \in Standings |-> Cardinality(standing(status))]
          BY <1>12
        <4>2. StoodInAll(today)' = SumFunction([status \in Standings |-> Stood(today, status)'])
          BY DEF StoodInAll
        <4> QED
          BY <1>2, <4>1, <4>2, StandNowAll
      <3>3. FiledBy(today) = {c \in CountedCases : counted[c].filed # Never}
        BY <1>5 DEF FiledBy, Fits
      <3>4. FiledBy(today) \ EndedBy(today) = standing("Open")
        BY <1>5 DEF FiledBy, EndedBy, Fits
      <3>5. ResolvedBy(today) = standing("Resolved")
        BY <1>5 DEF ResolvedBy, EndedBy, Fits
      <3>6. "Open" \in Standings /\ "Resolved" \in Standings
        BY DEF Standings
      <3> HIDE DEF standing
      <3> QED
        BY <1>same, <1>7, <2>1, <3>1, <3>2, <3>3, <3>4, <3>5, <3>6 DEF Tells
    <2>2. CASE day # today
      <3>1. day \in whole /\ day \in StatDays
        BY <1>1, <1>2, <1>3, <1>5, <2>2, WindowAssumption DEF SnapshotsHold, StatDays
      <3>2. Tells(day)
        BY <1>5, <3>1 DEF SnapshotsHold
      <3>3. \A status \in Standings : Stood(day, status)' = Stood(day, status)
        BY <1>11, <2>2, <3>1
      <3>4. StoodInAll(day)' = StoodInAll(day)
        BY <3>3 DEF StoodInAll
      <3> QED
        BY <1>1, <1>7, <3>2, <3>3, <3>4 DEF Tells, Standings
    <2> QED
      BY <2>1, <2>2
  <1>17. SnapshotsHold'
    <2>1. kept' \in KeptRows
      BY <1>1, <1>11 DEF KeptRows
    <2>2. kept'[lastPass'] = StandNow
      BY <1>1, <1>2, <1>10
    <2> QED
      BY <1>1, <1>8, <1>13, <1>14, <1>15, <1>16, <2>1, <2>2 DEF SnapshotsHold
  <1>18. ResolutionsHold'
    <2> SUFFICES ASSUME ~owing', ~undone', NEW day \in StatDays
                 PROVE  HappenedOn("resolved", day)' = Cardinality(DatedOn("resolved", day))'
      BY <1>1 DEF ResolutionsHold
    <2>1. DatedOn("resolved", day)' = DatedOn("resolved", day)
      BY <1>1 DEF DatedOn
    <2>2. CASE day \in RebuiltDays(every)
      <3>1. dayRows'[day] = DayCounts(day)
        BY <1>1, <2>2
      <3> QED
        BY <1>2, <2>1, <3>1, DayAddsUp DEF HappenedOn, Metrics
    <2>3. CASE day \notin RebuiltDays(every)
      <3>1. ~every /\ ~owing /\ ~FallsShort /\ ~undone
        BY <1>1, <2>3 DEF RebuiltDays
      <3> DEFINE start == WindowStart(today)
      <3>2. start \in Int /\ lastPass >= start
        BY <1>2, <1>3, <3>1, WindowAssumption DEF FallsShort, WindowStart
      <3>3. ~(day >= start)
        BY <2>3, <3>1 DEF RebuiltDays
      <3>4. day < lastPass
        BY <1>3, <1>4, <3>2, <3>3
      <3>5. HappenedOn("resolved", day) = Cardinality(DatedOn("resolved", day))
        BY <3>1, <3>4 DEF HistoryInv, ResolutionsHold
      <3>6. dayRows'[day] = dayRows[day]
        BY <1>1, <2>3
      <3> QED
        BY <2>1, <3>5, <3>6 DEF HappenedOn
    <2> QED
      BY <2>2, <2>3
  <1> QED
    BY <1>6, <1>17, <1>18

\* Every step keeps the invariant: a day that passes, a call, a refresh.
LEMMA HistoryStep ==
  ASSUME HistoryInv, [CountsNext]_countsVars
  PROVE  HistoryInv'
  <1>1. CountsInv'
    BY CountsStep DEF HistoryInv
  <1>2. ASSUME UNCHANGED <<counted, dayRows, kept, current, lastPass, owing, whole, undone>>,
               today' >= today, today' \in Int
        PROVE  HistoryInv'
    <2>1. \A k \in CountedCases : Fits(counted[k]) /\ counted[k].filed \in Int /\ counted[k].ended \in Int
      BY DayFacts DEF HistoryInv, CountsInv, CountsTyped, CountedRow
    <2>2. today \in Int
      BY DayFacts DEF HistoryInv, CountsInv, CountsTyped
    <2>3. \A k \in CountedCases : Fits(counted[k])'
      BY <1>2, <2>1, <2>2 DEF Fits
    <2>4. \A day : /\ FiledBy(day)' = FiledBy(day) /\ EndedBy(day)' = EndedBy(day)
                   /\ ResolvedBy(day)' = ResolvedBy(day)
      BY <1>2 DEF FiledBy, EndedBy, ResolvedBy
    <2>5. FiledBy(today)' = FiledBy(today)
      BY <1>2, <2>1, <2>2 DEF FiledBy, Fits
    <2>6. \A day, status : Stood(day, status)' = Stood(day, status)
      BY <1>2 DEF Stood
    <2>7. \A day : StoodInAll(day)' = StoodInAll(day)
      BY <2>6 DEF StoodInAll
    <2>8. StandNow' = StandNow
      BY <1>2 DEF StandNow
    <2>9. \A day \in whole : Tells(day)'
      BY <1>2, <2>4, <2>6, <2>7 DEF Tells, HistoryInv, SnapshotsHold
    <2>10. SnapshotsHold'
      BY <1>2, <2>5, <2>6, <2>8, <2>9 DEF SnapshotsHold, HistoryInv, KeptRows
    <2>11. ResolutionsHold'
      BY <1>2 DEF ResolutionsHold, HistoryInv, HappenedOn, DatedOn
    <2> QED
      BY <1>1, <2>3, <2>10, <2>11 DEF HistoryInv
  <1>3. today \in Int
    BY DayFacts DEF HistoryInv, CountsInv, CountsTyped
  <1>4. CASE UNCHANGED countsVars
    BY <1>2, <1>3, <1>4 DEF countsVars
  <1>5. CASE NextDay
    BY <1>2, <1>3, <1>5 DEF NextDay
  <1>6. ASSUME NEW c \in CountedCases,
               \/ FileCounted(c) \/ AnswerCounted(c) \/ ReopenCounted(c)
               \/ \E standing \in Standings \ {"Open"} : EndCounted(c, standing)
               \/ \E u \in Holders : EscalateCounted(c, u) \/ MoveCounted(c, u)
        PROVE  HistoryInv'
    <2>1. PICK row \in CountedRow : Change(c, row) /\ RowMoves(c, row)
      BY <1>6, CallMoves
    <2> QED
      BY <1>1, <2>1, MovesKeepHistory DEF HistoryInv
  <1>7. ASSUME NEW every \in BOOLEAN, RefreshCounts(every) PROVE HistoryInv'
    BY <1>1, <1>7, RefreshKeepsHistory DEF HistoryInv
  <1> QED
    BY <1>4, <1>5, <1>6, <1>7 DEF CountsNext

\* The invariant holds before the first case.
LEMMA HistoryStart == CountsInit => HistoryInv
  <1> SUFFICES ASSUME CountsInit PROVE HistoryInv
    OBVIOUS
  <1>1. CountsInv /\ CountsTyped
    BY CountsStart DEF CountsInv
  <1>2. PICK v \in Holders : counted = [c \in CountedCases |-> NotCounted(v)]
    BY DEF CountsInit
  <1>3. today = 0 /\ lastPass = 0 /\ current = FALSE /\ whole = {}
        /\ kept = [d \in StatDays |-> StandNow] /\ dayRows = [d \in StatDays |-> DayCounts(d)]
    BY DEF CountsInit
  <1>4. \A c \in CountedCases : counted[c].filed = Never /\ counted[c].ended = Never
                                /\ counted[c].status = "Open"
    BY <1>2 DEF NotCounted
  <1>5. \A c \in CountedCases : Fits(counted[c])
    BY <1>3, <1>4, DayFacts DEF Fits
  <1>6. \A u \in Groups, status \in Standings : StandNow[u][status] = 0
    <2> TAKE u \in Groups, status \in Standings
    <2>1. {c \in CountedCases : /\ counted[c].filed # Never /\ counted[c].holder = u
                                /\ counted[c].status = status} = {}
      BY <1>4
    <2> QED
      BY <2>1, FS_EmptySet DEF StandNow, Groups
  <1>7. StandNow \in [Groups -> [Standings -> 0 .. Size]]
    BY <1>1, NowStands
  <1>8. \A d \in StatDays, status \in Standings : Stood(d, status) \in 0 .. Size
    <2> TAKE d \in StatDays, status \in Standings
    <2>1. Stood(d, status) = SumFunction([u \in Groups |-> StandNow[u][status]])
      BY <1>3 DEF Stood, Groups
    <2> QED
      BY <1>1, <2>1, NowStands, SizeOf
  <1>9. SnapshotsHold
    BY <1>3, <1>6, <1>7, <1>8 DEF SnapshotsHold, KeptRows
  <1>10. ResolutionsHold
    BY <1>1, <1>3, DayAddsUp DEF ResolutionsHold, HappenedOn, Metrics
  <1> QED
    BY <1>1, <1>5, <1>9, <1>10 DEF HistoryInv

-----------------------------------------------------------------------------
\* Later days lie in later periods.
LEMMA QuotientsInOrder ==
  ASSUME NEW P \in Nat, P > 0, NEW q \in Int, NEW r \in Int, NEW x \in Nat, NEW y \in Nat,
         x < P, y < P, P * q + x <= P * r + y
  PROVE  q <= r
  OBVIOUS

\* An earlier day lies in no later period.
LEMMA PeriodsInOrder ==
  ASSUME NEW d \in Nat, NEW e \in Nat
  PROVE  /\ d \div PeriodDays \in Nat
         /\ d <= e => d \div PeriodDays <= e \div PeriodDays
  <1>1. PeriodDays \in Nat /\ PeriodDays > 0
    BY PeriodAssumption
  <1>2. d \div PeriodDays \in Nat /\ e \div PeriodDays \in Nat
    BY <1>1
  <1>3. /\ d = PeriodDays * (d \div PeriodDays) + (d % PeriodDays)
        /\ d % PeriodDays \in Nat /\ d % PeriodDays < PeriodDays
    BY <1>1
  <1>4. /\ e = PeriodDays * (e \div PeriodDays) + (e % PeriodDays)
        /\ e % PeriodDays \in Nat /\ e % PeriodDays < PeriodDays
    BY <1>1
  <1>5. ASSUME d <= e PROVE d \div PeriodDays <= e \div PeriodDays
    <2>1. PeriodDays * (d \div PeriodDays) + (d % PeriodDays)
            <= PeriodDays * (e \div PeriodDays) + (e % PeriodDays)
      BY <1>3, <1>4, <1>5
    <2> QED
      BY <1>1, <1>2, <1>3, <1>4, <2>1, QuotientsInOrder
  <1> QED
    BY <1>2, <1>5

\* The last day of a period: the days after it are those of later periods.
LEMMA LastOfPeriod ==
  ASSUME NEW period \in Periods, today \in Nat
  PROVE  /\ LastOf(period) \in 0 .. today
         /\ \A d \in 0 .. today : /\ d \div PeriodDays \in Periods
                                  /\ d \div PeriodDays > period <=> d > LastOf(period)
  <1> DEFINE last == LastOf(period)
             S == DaysOf(period)
  <1>1. PeriodDays \in Nat /\ PeriodDays > 0 /\ period \in Nat
    BY PeriodAssumption DEF Periods
  <1>2. \A d \in 0 .. today : d \div PeriodDays \in Nat /\ d \div PeriodDays <= today \div PeriodDays
    BY PeriodsInOrder
  <1>3. today \div PeriodDays \in Nat
    BY PeriodsInOrder
  <1>4. S # {}
    <2> DEFINE first == period * PeriodDays
    <2>1. first \in Nat /\ first \div PeriodDays = period
      BY <1>1
    <2>2. first <= today
      <3> SUFFICES ASSUME first > today PROVE FALSE
        BY <2>1
      <3>1. today \div PeriodDays <= first \div PeriodDays
        BY <2>1, PeriodsInOrder
      <3>2. today \div PeriodDays = period
        BY <1>1, <1>3, <2>1, <3>1 DEF Periods
      <3>3. today = PeriodDays * (today \div PeriodDays) + (today % PeriodDays)
            /\ today % PeriodDays \in Nat
        BY <1>1
      <3>4. today = PeriodDays * period + (today % PeriodDays)
        BY <3>2, <3>3
      <3>5. first = PeriodDays * period
        BY <1>1
      <3> HIDE DEF first
      <3> QED
        BY <2>1, <3>3, <3>4, <3>5
    <2>3. first \in S
      BY <2>1, <2>2 DEF DaysOf
    <2> QED
      BY <2>3
  <1>5. S \subseteq 0 .. today /\ \A d \in S : d \div PeriodDays = period
    BY DEF DaysOf
  <1>6. \E d \in S : \A e \in S : d >= e
    <2> DEFINE far == {today - d : d \in S}
    <2>1. far \in SUBSET Nat /\ far # {}
      BY <1>4, <1>5
    <2> HIDE DEF far
    <2>2. PICK n \in far : \A m \in far : n <= m
      BY <2>1, LeastNatural
    <2> USE DEF far
    <2>3. PICK d \in S : n = today - d
      OBVIOUS
    <2>4. \A e \in S : today - d <= today - e
      BY <2>2, <2>3
    <2> QED
      BY <1>5, <2>4
  <1>7. last \in S /\ \A e \in S : last >= e
    BY <1>6 DEF LastOf, Max
  <1>8. last \in 0 .. today /\ last \div PeriodDays = period
    BY <1>5, <1>7
  <1> HIDE DEF last
  <1>9. ASSUME NEW d \in 0 .. today
        PROVE  d \div PeriodDays > period <=> d > last
    <2>1. CASE d <= last
      <3>1. d \div PeriodDays <= last \div PeriodDays
        BY <1>8, <2>1, PeriodsInOrder
      <3> QED
        BY <1>1, <1>2, <1>8, <2>1, <3>1
    <2>2. CASE d > last
      <3>1. last \div PeriodDays <= d \div PeriodDays
        BY <1>8, <2>2, PeriodsInOrder
      <3>2. d \div PeriodDays # period
        BY <1>7, <1>8, <2>2 DEF DaysOf
      <3> QED
        BY <1>1, <1>2, <1>8, <2>2, <3>1, <3>2
    <2> QED
      BY <1>8, <2>1, <2>2
  <1> QED
    BY <1>2, <1>8, <1>9 DEF last, Periods

\* No count is cut off at zero.
LEMMA HighestOf ==
  ASSUME NEW n \in Nat
  PROVE  Max({0, n}) = n
  <1>1. n \in {0, n} /\ \A x \in {0, n} : n >= x
    OBVIOUS
  <1>2. \A y \in {0, n} : (\A x \in {0, n} : y >= x) => y = n
    OBVIOUS
  <1> QED
    BY <1>1, <1>2 DEF Max

\* The last snapshot tells how the cases stand now.
LEMMA SnapshotIs ==
  ASSUME HistoryInv, current
  PROVE  /\ SnapshotOn(today) \in StatDays
         /\ \A status \in Standings :
              Stood(SnapshotOn(today), status)
                = Cardinality({c \in CountedCases :
                                 counted[c].filed # Never /\ counted[c].status = status})
  <1> DEFINE standing(status) == {c \in CountedCases :
                                    counted[c].filed # Never /\ counted[c].status = status}
             Shown(d) == \E u \in Groups, status \in Standings : kept[d][u][status] > 0
             V == {0} \cup {d \in 0 .. today : Shown(d)}
  <1>1. CountsTyped /\ SnapshotsHold /\ \A c \in CountedCases : Fits(counted[c])
    BY DEF HistoryInv, CountsInv
  <1>2. /\ today \in Nat /\ lastPass \in 0 .. today /\ 0 .. today \subseteq StatDays
        /\ 0 \in StatDays /\ today \in StatDays /\ lastPass \in StatDays
    BY <1>1, WindowAssumption DEF CountsTyped, StatDays
  <1>3. /\ kept \in KeptRows /\ kept[lastPass] = StandNow
        /\ \A d \in StatDays : d > lastPass \/ FiledBy(today) = {} =>
             \A u \in Groups, status \in Standings : kept[d][u][status] = 0
    BY <1>1 DEF SnapshotsHold
  <1>4. SnapshotOn(today) = Max(V)
    <2>1. \A d \in 0 .. today : DOMAIN kept[d] = Groups
      BY <1>2, <1>3 DEF KeptRows
    <2> QED
      BY <2>1 DEF SnapshotOn
  <1>5. \A status \in Standings : Stood(lastPass, status) = Cardinality(standing(status))
    BY <1>1, <1>3, NowStands DEF Stood, Groups
  <1>6. CASE Shown(lastPass)
    <2>1. lastPass \in V
      BY <1>2, <1>6
    <2>2. \A d \in V : d <= lastPass
      <3>1. \A d \in 0 .. today : d > lastPass => ~Shown(d)
        BY <1>2, <1>3
      <3> HIDE DEF Shown
      <3> QED
        BY <1>2, <3>1
    <2>3. \A d \in V : d \in Int
      BY <1>2
    <2> HIDE DEF V
    <2>4. \A e \in V : (\A d \in V : e >= d) => e = lastPass
      BY <1>2, <2>1, <2>2, <2>3
    <2>5. lastPass \in V /\ \A d \in V : lastPass >= d
      BY <1>2, <2>1, <2>2, <2>3
    <2>6. Max(V) = lastPass
      BY <2>4, <2>5 DEF Max
    <2> QED
      BY <1>2, <1>4, <1>5, <2>6
  <1>7. CASE ~Shown(lastPass)
    <2>1. StandNow \in [Groups -> [Standings -> 0 .. Size]]
      BY <1>1, NowStands
    <2>2. \A u \in Groups, status \in Standings : StandNow[u][status] = 0
      BY <1>3, <1>7, <2>1, GroupsFinite
    <2>3. ASSUME NEW c \in CountedCases, counted[c].filed # Never PROVE FALSE
      <3> DEFINE u == counted[c].holder
                 status == counted[c].status
                 with == {k \in CountedCases : /\ counted[k].filed # Never /\ counted[k].holder = u
                                               /\ counted[k].status = status}
      <3>1. u \in Groups /\ status \in Standings
        BY <1>1 DEF CountsTyped, CountedRow, Groups
      <3>2. StandNow[u][status] = Cardinality(with)
        BY <3>1 DEF StandNow, Groups
      <3>3. IsFiniteSet(with) /\ with # {}
        BY <2>3, SizeOf
      <3> HIDE DEF with, u, status
      <3> QED
        BY <2>2, <3>1, <3>2, <3>3, FS_EmptySet
    <2>4. FiledBy(today) = {} /\ \A status \in Standings : standing(status) = {}
      BY <2>3 DEF FiledBy
    <2>5. \A d \in StatDays, u \in Groups, status \in Standings : kept[d][u][status] = 0
      BY <1>3, <2>4
    <2>6. V = {0}
      BY <1>2, <2>5
    <2>7. Max(V) = 0
      <3>1. \A e \in {0} : (\A d \in {0} : e >= d) <=> e = 0
        OBVIOUS
      <3> HIDE DEF V
      <3> QED
        BY <2>6, <3>1 DEF Max
    <2>8. \A status \in Standings : Stood(0, status) = Stood(lastPass, status)
      <3> TAKE status \in Standings
      <3>1. [u \in Groups |-> kept[0][u][status]] = [u \in Groups |-> kept[lastPass][u][status]]
        BY <1>2, <2>5
      <3> QED
        BY <3>1 DEF Stood, Groups
    <2> QED
      BY <1>2, <1>4, <1>5, <2>7, <2>8
  <1> QED
    BY <1>6, <1>7

\* What the days of a set add up to is what was dated by one of them.
LEMMA HappenedIs ==
  ASSUME HistoryInv, current, ~owing, NEW metric \in Metrics,
         metric = "resolved" => ~undone,
         NEW days \in SUBSET (0 .. today)
  PROVE  Happened(metric, days)
           = Cardinality({c \in CountedCases : DatedBy(metric, counted[c]) \in days})
  <1> DEFINE C == CountedCases
             date == [c \in C |-> DatedBy(metric, counted[c])]
  <1>1. CountsTyped /\ IncrementalIsEnough /\ ResolutionsHold
    BY DEF HistoryInv, CountsInv
  <1>2. days \subseteq StatDays /\ IsFiniteSet(days)
    <2>1. today \in 0 .. LastDay
      BY <1>1 DEF CountsTyped, StatDays
    <2>2. 0 .. today \subseteq StatDays /\ IsFiniteSet(0 .. today)
      BY <2>1, WindowAssumption, FS_Interval DEF StatDays
    <2> QED
      BY <2>2, FS_Subset
  <1>3. \A day \in days : HappenedOn(metric, day) = Cardinality({c \in C : date[c] = day})
    <2> TAKE day \in days
    <2>1. DatedOn(metric, day) = {c \in C : date[c] = day}
      BY DEF DatedOn
    <2>2. CASE metric = "resolved"
      BY <1>1, <1>2, <2>1, <2>2 DEF ResolutionsHold
    <2>3. CASE metric # "resolved"
      <3>1. \A u \in Holders : dayRows[day][u][metric] = DayCounts(day)[u][metric]
        BY <1>1, <1>2, <2>3 DEF IncrementalIsEnough
      <3>2. [u \in Holders |-> dayRows[day][u][metric]]
              = [u \in Holders |-> DayCounts(day)[u][metric]]
        BY <3>1
      <3> QED
        BY <1>1, <2>1, <3>2, DayAddsUp DEF HappenedOn
    <2> QED
      BY <2>2, <2>3
  <1>4. {c \in C : date[c] \in days} = {c \in C : DatedBy(metric, counted[c]) \in days}
    OBVIOUS
  <1>5. IsFiniteSet(C)
    BY CountedAssumption
  <1> HIDE DEF C, date
  <1>6. [day \in days |-> HappenedOn(metric, day)]
          = [day \in days |-> Cardinality({c \in C : date[c] = day})]
    BY <1>3
  <1>7. SumFunction([day \in days |-> Cardinality({c \in C : date[c] = day})])
          = Cardinality({c \in C : date[c] \in days})
    <2> DEFINE S == days
    <2>1. IsFiniteSet(S)
      BY <1>2
    <2> HIDE DEF S
    <2>2. SumFunction([day \in S |-> Cardinality({c \in C : date[c] = day})])
            = Cardinality({c \in C : date[c] \in S})
      BY <1>5, <2>1, SumOfCounts
    <2> QED
      BY <2>2 DEF S
  <1>8. Happened(metric, days) = Cardinality({c \in C : DatedBy(metric, counted[c]) \in days})
    BY <1>4, <1>6, <1>7 DEF Happened
  <1> QED
    BY <1>8 DEF C

\* What the periods after one add up to is what was dated after its last day.
LEMMA LaterDates ==
  ASSUME HistoryInv, NEW metric \in Metrics, NEW period \in Periods
  PROVE  LET dated(p) == {c \in CountedCases : DatedBy(metric, counted[c]) \in DaysOf(p)}
         IN  SumFunction([p \in Later(period) |-> Cardinality(dated(p))])
               = Cardinality({c \in CountedCases : DatedBy(metric, counted[c]) \in 0 .. today
                                /\ DatedBy(metric, counted[c]) > LastOf(period)})
  <1> DEFINE date(c) == DatedBy(metric, counted[c])
             dated(p) == {c \in CountedCases : date(c) \in DaysOf(p)}
             C == {c \in CountedCases : date(c) \in 0 .. today}
             key == [c \in CountedCases |-> date(c) \div PeriodDays]
             S == Later(period)
  <1>1. today \in Nat
    BY WindowAssumption DEF HistoryInv, CountsInv, CountsTyped, StatDays
  <1>2. today \div PeriodDays \in Nat
    BY <1>1, PeriodsInOrder
  <1>3. IsFiniteSet(C) /\ IsFiniteSet(S)
    <2>1. IsFiniteSet(Periods) /\ S \in SUBSET Periods
      BY <1>2, FS_Interval DEF Periods, Later
    <2> QED
      BY <2>1, SizeOf, FS_Subset
  <1>4. \A p \in S : dated(p) = {c \in C : key[c] = p}
    BY DEF DaysOf
  <1>5. {c \in C : key[c] \in S}
          = {c \in CountedCases : date(c) \in 0 .. today /\ date(c) > LastOf(period)}
    <2>1. \A d \in 0 .. today : d \div PeriodDays \in S <=> d > LastOf(period)
      BY <1>1, LastOfPeriod DEF Later
    <2> QED
      BY <2>1
  <1>6. [p \in S |-> Cardinality(dated(p))] = [p \in S |-> Cardinality({c \in C : key[c] = p})]
    BY <1>4
  <1> HIDE DEF key, C, S
  <1>7. SumFunction([p \in S |-> Cardinality({c \in C : key[c] = p})])
          = Cardinality({c \in C : key[c] \in S})
    BY <1>3, SumOfCounts
  <1> QED
    BY <1>5, <1>6, <1>7 DEF S

\* In every state of the invariant the charts say what the snapshots recorded.
LEMMA ChartsHold ==
  ASSUME HistoryInv, current, ~owing, NEW period \in Periods, LastOf(period) \in whole
  PROVE  /\ period < today \div PeriodDays => TotalBefore(period + 1) = StoodInAll(LastOf(period))
         /\ ~undone =>
              /\ Backlog(period) = Stood(LastOf(period), "Open")
              /\ Happened("resolved", 0 .. LastOf(period)) = Stood(LastOf(period), "Resolved")
  <1> DEFINE last == LastOf(period)
             Dated(metric, days) == {c \in CountedCases : DatedBy(metric, counted[c]) \in days}
             rest == {d \in 0 .. today : d > last}
  <1>1. CountsTyped /\ SnapshotsHold /\ \A c \in CountedCases : Fits(counted[c])
    BY DEF HistoryInv, CountsInv
  <1>2. /\ today \in Nat /\ Never \in Int /\ Never < 0
        /\ \A c \in CountedCases :
             /\ counted[c].filed \in Int /\ counted[c].ended \in Int
             /\ counted[c].filed = Never \/ counted[c].filed \in 0 .. today
             /\ counted[c].ended = Never \/ counted[c].ended \in 0 .. today
             /\ counted[c].status \in Standings
    BY <1>1, DayFacts, WindowAssumption DEF CountsTyped, CountedRow, StatDays, DayOrNever, Fits
  <1>3. /\ last \in 0 .. today
        /\ \A d \in 0 .. today : /\ d \div PeriodDays \in Periods
                                 /\ d \div PeriodDays > period <=> d > last
    BY <1>2, LastOfPeriod
  <1>4. Tells(last)
    BY <1>1 DEF SnapshotsHold
  <1>5. /\ \A status \in Standings :
             Stood(SnapshotOn(today), status)
               = Cardinality({c \in CountedCases :
                                counted[c].filed # Never /\ counted[c].status = status})
        /\ StoodInAll(SnapshotOn(today)) = Cardinality(FiledBy(today))
    <2>1. \A status \in Standings :
             Stood(SnapshotOn(today), status)
               = Cardinality({c \in CountedCases :
                                counted[c].filed # Never /\ counted[c].status = status})
      BY SnapshotIs
    <2>2. [status \in Standings |-> Stood(SnapshotOn(today), status)]
            = [status \in Standings |->
                 Cardinality({c \in CountedCases :
                                counted[c].filed # Never /\ counted[c].status = status})]
      BY <2>1
    <2>3. FiledBy(today) = {c \in CountedCases : counted[c].filed # Never}
      BY <1>1 DEF FiledBy, Fits
    <2> QED
      BY <1>1, <2>1, <2>2, <2>3, StandNowAll DEF StoodInAll
  <1> HIDE DEF last
  \* Filed: by the last day of the period, and since.
  <1>6. /\ FiledBy(today) \ Dated("submitted", rest) = FiledBy(last)
        /\ Dated("submitted", rest) \in SUBSET FiledBy(today)
    BY <1>1, <1>2, <1>3 DEF FiledBy, Fits, DatedBy
  <1>7. Cardinality(FiledBy(last)) = Cardinality(FiledBy(today)) - Cardinality(Dated("submitted", rest))
    <2>1. FiledBy(today) \in SUBSET CountedCases
      BY DEF FiledBy
    <2> HIDE DEF Dated, rest
    <2> QED
      BY <1>6, <2>1, SizeOfRest
  <1>8. ASSUME period < today \div PeriodDays
        PROVE  TotalBefore(period + 1) = StoodInAll(last)
    <2>1. {d \in 0 .. today : d \div PeriodDays >= period + 1} = rest
      <3>1. period \in Int /\ \A d \in 0 .. today : d \div PeriodDays \in Int
        BY <1>3 DEF Periods
      <3>2. \A d \in 0 .. today : d \div PeriodDays >= period + 1 <=> d > last
        BY <1>3, <3>1
      <3> QED
        BY <3>2
    <2>2. Happened("submitted", rest) = Cardinality(Dated("submitted", rest))
      BY HappenedIs DEF Metrics
    <2> HIDE DEF rest, Dated
    <2> QED
      BY <1>4, <1>5, <1>7, <2>1, <2>2 DEF TotalBefore, Tells
  <1>9. ASSUME ~undone
        PROVE  Happened("resolved", 0 .. last) = Stood(last, "Resolved")
    <2>1. 0 .. last \in SUBSET (0 .. today)
      BY <1>2, <1>3
    <2>2. Happened("resolved", 0 .. last) = Cardinality(Dated("resolved", 0 .. last))
      BY <1>9, <2>1, HappenedIs DEF Metrics
    <2>3. Dated("resolved", 0 .. last) = ResolvedBy(last)
      BY <1>2, <1>3 DEF DatedBy, ResolvedBy, EndedBy
    <2> QED
      BY <1>4, <1>9, <2>2, <2>3 DEF Tells
  <1>10. ASSUME ~undone
         PROVE  Backlog(period) = Stood(last, "Open")
    <2> DEFINE count(metric) == [p \in Later(period) |-> Cardinality(Dated(metric, DaysOf(p)))]
               after(metric) == Dated(metric, rest)
    <2>1. IsFiniteSet(Later(period))
      <3>1. today \div PeriodDays \in Nat
        BY <1>2, PeriodsInOrder
      <3>2. IsFiniteSet(Periods) /\ Later(period) \in SUBSET Periods
        BY <3>1, FS_Interval DEF Periods, Later
      <3> QED
        BY <3>2, FS_Subset
    <2>2. ASSUME NEW metric \in Metrics
          PROVE  /\ count(metric) \in [Later(period) -> Int]
                 /\ SumFunction(count(metric)) = Cardinality(after(metric))
                 /\ Cardinality(after(metric)) \in Nat
      <3>1. count(metric) \in [Later(period) -> Int] /\ Cardinality(after(metric)) \in Nat
        BY SizeOf
      <3>2. after(metric) = {c \in CountedCases : DatedBy(metric, counted[c]) \in 0 .. today
                                /\ DatedBy(metric, counted[c]) > last}
        OBVIOUS
      <3>3. SumFunction(count(metric)) = Cardinality(after(metric))
        BY <3>2, LaterDates DEF last
      <3> QED
        BY <3>1, <3>3
    <2>3. ASSUME NEW p \in Later(period)
          PROVE  Growth(p) = (count("submitted")[p] - count("resolved")[p]) - count("rejected")[p]
      <3>1. DaysOf(p) \in SUBSET (0 .. today)
        BY DEF DaysOf
      <3>2. \A metric \in {"submitted", "resolved", "rejected"} :
              Happened(metric, DaysOf(p)) = count(metric)[p]
        BY <1>10, <3>1, HappenedIs DEF Metrics
      <3> HIDE DEF count
      <3> QED
        BY <3>2 DEF Growth
    <2> DEFINE left == [p \in Later(period) |-> count("submitted")[p] - count("resolved")[p]]
    <2>4. SumFunction([p \in Later(period) |-> Growth(p)])
            = (Cardinality(after("submitted")) - Cardinality(after("resolved")))
                - Cardinality(after("rejected"))
      <3>1. /\ count("submitted") \in [Later(period) -> Int]
            /\ count("resolved") \in [Later(period) -> Int]
            /\ count("rejected") \in [Later(period) -> Int]
            /\ SumFunction(count("submitted")) = Cardinality(after("submitted"))
            /\ SumFunction(count("resolved")) = Cardinality(after("resolved"))
            /\ SumFunction(count("rejected")) = Cardinality(after("rejected"))
        BY <2>2 DEF Metrics
      <3> HIDE DEF count, after
      <3>2. left \in [Later(period) -> Int]
            /\ \A p \in Later(period) : left[p] = count("submitted")[p] - count("resolved")[p]
        BY <3>1
      <3>3. SumFunction(left) = SumFunction(count("submitted")) - SumFunction(count("resolved"))
        BY <2>1, <3>1, SumDifference
      <3> HIDE DEF left
      <3>4. SumFunction([p \in Later(period) |-> left[p] - count("rejected")[p]])
              = SumFunction(left) - SumFunction(count("rejected"))
        BY <2>1, <3>1, <3>2, SumDifference
      <3>5. [p \in Later(period) |-> Growth(p)]
              = [p \in Later(period) |-> left[p] - count("rejected")[p]]
        BY <2>3, <3>2
      <3> QED
        BY <3>1, <3>3, <3>4, <3>5
    <2>5. /\ after("submitted") = Dated("submitted", rest)
          /\ after("resolved") = {c \in EndedBy(today) \ EndedBy(last) : counted[c].status = "Resolved"}
          /\ after("rejected") = {c \in EndedBy(today) \ EndedBy(last) : counted[c].status # "Resolved"}
      <3>1. \A c \in CountedCases : counted[c].ended # Never <=> counted[c].status \in {"Resolved", "Rejected"}
        BY <1>1, <1>2, <1>10 DEF Fits, Standings
      <3>2. after("resolved") = {c \in EndedBy(today) \ EndedBy(last) : counted[c].status = "Resolved"}
        BY <1>2, <1>3, <3>1 DEF DatedBy, EndedBy
      <3>3. after("rejected") = {c \in EndedBy(today) \ EndedBy(last) : counted[c].status # "Resolved"}
        BY <1>2, <1>3, <3>1 DEF DatedBy, EndedBy
      <3> QED
        BY <3>2, <3>3
    <2>6. /\ Stood(SnapshotOn(today), "Open") = Cardinality(FiledBy(today) \ EndedBy(today))
          /\ EndedBy(today) \in SUBSET FiledBy(today) /\ EndedBy(last) \in SUBSET FiledBy(last)
          /\ EndedBy(last) \in SUBSET EndedBy(today) /\ FiledBy(last) \in SUBSET CountedCases
          /\ FiledBy(today) \in SUBSET CountedCases /\ EndedBy(today) \in SUBSET CountedCases
      <3>1. FiledBy(today) \ EndedBy(today)
              = {c \in CountedCases : counted[c].filed # Never /\ counted[c].status = "Open"}
        BY <1>1 DEF FiledBy, EndedBy, Fits
      <3>2. EndedBy(today) \in SUBSET FiledBy(today) /\ EndedBy(last) \in SUBSET FiledBy(last)
        BY <1>1, <1>2, <1>3 DEF FiledBy, EndedBy, Fits
      <3>3. EndedBy(last) \in SUBSET EndedBy(today)
        BY <1>2, <1>3 DEF EndedBy
      <3> QED
        BY <1>5, <3>1, <3>2, <3>3 DEF Standings, FiledBy, EndedBy
    <2> DEFINE ended == EndedBy(today) \ EndedBy(last)
    <2>7. Cardinality(after("resolved")) + Cardinality(after("rejected")) = Cardinality(ended)
      <3>1. /\ after("resolved") \in SUBSET ended
            /\ after("rejected") = ended \ after("resolved")
            /\ ended \in SUBSET CountedCases
        BY <2>5, <2>6
      <3> HIDE DEF after, ended
      <3>2. Cardinality(after("rejected")) = Cardinality(ended) - Cardinality(after("resolved"))
        BY <3>1, SizeOfRest
      <3> QED
        BY <3>1, <3>2, SizeOf
    <2>8. /\ Cardinality(FiledBy(today) \ EndedBy(today))
               = Cardinality(FiledBy(today)) - Cardinality(EndedBy(today))
          /\ Cardinality(FiledBy(last) \ EndedBy(last))
               = Cardinality(FiledBy(last)) - Cardinality(EndedBy(last))
          /\ Cardinality(ended) = Cardinality(EndedBy(today)) - Cardinality(EndedBy(last))
      BY <2>6, SizeOfRest
    <2>9. /\ Cardinality(FiledBy(today)) \in Nat /\ Cardinality(EndedBy(today)) \in Nat
          /\ Cardinality(FiledBy(last)) \in Nat /\ Cardinality(EndedBy(last)) \in Nat
          /\ Cardinality(FiledBy(last) \ EndedBy(last)) \in Nat
          /\ Cardinality(ended) \in Nat
      BY <2>6, SizeOf
    <2>10. /\ Cardinality(after("submitted")) \in Nat /\ Cardinality(after("resolved")) \in Nat
           /\ Cardinality(after("rejected")) \in Nat
      BY <2>2 DEF Metrics
    <2>11. Cardinality(FiledBy(last)) = Cardinality(FiledBy(today)) - Cardinality(after("submitted"))
      BY <1>7, <2>5
    <2> HIDE DEF after, ended, count, Dated, rest
    <2>12. Stood(SnapshotOn(today), "Open") - SumFunction([p \in Later(period) |-> Growth(p)])
             = Cardinality(FiledBy(last) \ EndedBy(last))
      BY <2>4, <2>6, <2>7, <2>8, <2>9, <2>10, <2>11
    <2> QED
      BY <1>4, <1>10, <2>9, <2>12, HighestOf DEF Backlog, Tells
  <1> QED
    BY <1>8, <1>9, <1>10 DEF last

\* With the rollup up to date, what the dashboard works out for the end of a past
\* period, going back from today by what happened since, is what the snapshot of
\* its last day recorded: the total, and, when no end was taken back, the backlog
\* and the resolved cases (build_net_backlog_trend, build_kpis, _performance).
THEOREM BacklogAlways == CountsSpec => []BacklogMatchesHistory
  <1>1. HistoryInv => BacklogMatchesHistory
    BY ChartsHold DEF BacklogMatchesHistory
  <1> QED
    BY <1>1, HistoryStart, HistoryStep, PTL DEF CountsSpec
-----------------------------------------------------------------------------
\* The counts keep their types: a change of a case keeps its row typed, and what
\* it disturbs is a day.
CountsTyping == HistoryInv /\ CountsTypeOK

\* Every step keeps the types.
LEMMA CountsTypedStep ==
  ASSUME CountsTyping, [CountsNext]_countsVars
  PROVE  CountsTyping'
  <1>1. HistoryInv'
    BY HistoryStep DEF CountsTyping
  <1>2. /\ HistoryInv /\ CountsTypeOK
    BY DEF CountsTyping
  <1>3. /\ today' \in StatDays /\ lastPass' \in StatDays
        /\ counted' \in [CountedCases ->
             [filed : DayOrNever, holder : Holders, status : Standings,
              ended : DayOrNever, escalated : DayOrNever, answered : DayOrNever,
              moved : DayOrNever]]
        /\ kept' \in [StatDays -> [Holders \cup {Anyone} -> [Standings -> 0 .. Cardinality(CountedCases)]]]
    BY <1>1 DEF HistoryInv, CountsInv, CountsTyped, CountedRow, SnapshotsHold, KeptRows, Groups, Size
  <1>4. ASSUME NEW c \in CountedCases, NEW row, Change(c, row),
               disturbed' = disturbed \/ disturbed' = disturbed \cup ResolvedOn(c)
        PROVE  CountsTypeOK'
    <2>1. /\ dayRows' = dayRows /\ events < MaxEvents /\ events' = events + 1
          /\ current' = FALSE /\ whole' = whole \ {today} /\ owing' = owing
      BY <1>4 DEF Change
    <2>2. undone' = (undone \/ (counted[c].ended # row.ended /\ row.status \in {"Open", "Duplicate"}))
      BY <1>4 DEF Change
    <2>3. undone' \in BOOLEAN
      BY <2>2, Zenon
    <2>4. events' \in 0 .. MaxEvents
      BY <1>2, <2>1, WindowAssumption DEF CountsTypeOK
    <2>5. ResolvedOn(c) \subseteq StatDays
      BY <1>2 DEF ResolvedOn, HistoryInv, Fits, CountsTypeOK, DayOrNever
    <2> QED
      BY <1>2, <1>3, <1>4, <2>1, <2>3, <2>4, <2>5 DEF CountsTypeOK
  <1>5. ASSUME NEW every \in BOOLEAN, RefreshCounts(every) PROVE CountsTypeOK'
    <2>1. \A d \in StatDays : DayCounts(d) \in [Holders -> [Metrics -> 0 .. Cardinality(CountedCases)]]
      BY SizeOf DEF DayCounts, Size
    <2>2. dayRows' \in [StatDays -> [Holders -> [Metrics -> 0 .. Cardinality(CountedCases)]]]
      BY <1>2, <1>5, <2>1 DEF RefreshCounts, CountsTypeOK
    <2>3. owing' \in BOOLEAN
      <3>1. owing' = (~every /\ (owing \/ FallsShort))
        BY <1>5 DEF RefreshCounts
      <3> QED
        BY <3>1, Zenon
    <2>4. /\ current' = TRUE /\ whole' = whole \cup {today} /\ disturbed' \in {{}, disturbed}
          /\ events' = events
      BY <1>5 DEF RefreshCounts
    <2>5. undone' \in BOOLEAN
      BY <1>2, <1>5 DEF RefreshCounts, CountsTypeOK
    <2>6. /\ events' \in 0 .. MaxEvents /\ current' \in BOOLEAN
          /\ disturbed' \subseteq StatDays /\ whole' \subseteq StatDays
      BY <1>2, <2>4 DEF CountsTypeOK
    <2> QED
      BY <1>3, <2>2, <2>3, <2>5, <2>6 DEF CountsTypeOK
  <1>6. CASE NextDay \/ UNCHANGED countsVars
    BY <1>1, <1>2, <1>3, <1>6 DEF NextDay, countsVars, CountsTypeOK, CountsTyping
  <1>7. ASSUME NEW c \in CountedCases,
               \/ FileCounted(c) \/ AnswerCounted(c) \/ ReopenCounted(c)
               \/ \E standing \in Standings \ {"Open"} : EndCounted(c, standing)
               \/ \E u \in Holders : EscalateCounted(c, u) \/ MoveCounted(c, u)
        PROVE  CountsTypeOK'
    <2>1. CASE FileCounted(c)
      BY <1>4, <2>1 DEF FileCounted
    <2>2. CASE AnswerCounted(c)
      BY <1>4, <2>2 DEF AnswerCounted
    <2>3. CASE ReopenCounted(c)
      BY <1>4, <2>3 DEF ReopenCounted
    <2>4. ASSUME NEW standing \in Standings \ {"Open"}, EndCounted(c, standing)
          PROVE  CountsTypeOK'
      BY <1>4, <2>4 DEF EndCounted
    <2>5. ASSUME NEW u \in Holders, NEW row, Handed(c, u, row) PROVE CountsTypeOK'
      <3>1. Change(c, [row EXCEPT !.holder = u, !.moved = today])
        BY <2>5 DEF Handed
      <3>2. disturbed' = disturbed \/ disturbed' = disturbed \cup ResolvedOn(c)
        BY <2>5 DEF Handed
      <3> QED
        BY <1>4, <3>1, <3>2
    <2> QED
      BY <1>7, <2>1, <2>2, <2>3, <2>4, <2>5 DEF EscalateCounted, MoveCounted
  <1> QED
    BY <1>1, <1>5, <1>6, <1>7 DEF CountsTyping, CountsNext

\* The types hold at first.
LEMMA CountsTypedStart == CountsInit => CountsTyping
  <1> SUFFICES ASSUME CountsInit PROVE CountsTypeOK
    BY HistoryStart DEF CountsTyping
  <1>1. HistoryInv
    BY HistoryStart
  <1>2. /\ today = 0 /\ lastPass = 0 /\ events = 0 /\ current = FALSE /\ owing = FALSE
        /\ disturbed = {} /\ whole = {} /\ undone = FALSE
        /\ dayRows = [d \in StatDays |-> DayCounts(d)]
    BY DEF CountsInit
  <1>3. \A d \in StatDays : DayCounts(d) \in [Holders -> [Metrics -> 0 .. Cardinality(CountedCases)]]
    BY SizeOf DEF DayCounts, Size
  <1>4. dayRows \in [StatDays -> [Holders -> [Metrics -> 0 .. Cardinality(CountedCases)]]]
    BY <1>2, <1>3
  <1>5. events \in 0 .. MaxEvents
    BY <1>2, WindowAssumption
  <1> QED
    BY <1>1, <1>2, <1>4, <1>5 DEF CountsTypeOK, HistoryInv, CountsInv, CountsTyped, CountedRow,
         SnapshotsHold, KeptRows, Groups, Size

\* Days, rows and counts keep their types, and no count exceeds the cases there
\* are, with any cases, holders and days (refresh).
THEOREM CountsTypedAlways == CountsSpec => []CountsTypeOK
  <1>1. CountsTyping => CountsTypeOK
    BY DEF CountsTyping
  <1> QED
    BY <1>1, CountsTypedStart, CountsTypedStep, PTL DEF CountsSpec
==============================================================================
