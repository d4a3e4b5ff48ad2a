----------------------------- MODULE HandOverProofs -----------------------------
(***************************************************************************)
(* Background workers that take a row, do something that cannot be taken   *)
(* back, and write down what they did: the malware scans of the            *)
(* attachments and the dispatch of the notices, for any number of rows,    *)
(* workers, attempts and workers killed.                                   *)
(***************************************************************************)
EXTENDS AttachmentScan, NotificationQueue, CaseRouting, FiniteSetTheorems,
        SequenceTheorems, WellFoundedInduction, TLAPS

-----------------------------------------------------------------------------
(***************************************************************************)
(* Scanning.  A worker's writes are its own until it commits; a row it has *)
(* written is locked, so the committed row is still the one it wrote over. *)
(* That is why a compare-and-set on the row it found is enough, though its *)
(* reads may be as old as its transaction.                                 *)
(***************************************************************************)
ScanRow ==
  [status : {"Absent", "Pending", "Deleted"} \cup Verdicts, attempts : Nat, file : BOOLEAN]
ScanRows == [Attachments -> ScanRow]

\* A worker as it may be; what it works on is a row once it has taken one.
ScanWorker ==
  [pc : {"idle", "next", "settle", "defer", "discard"},
   sweep : BOOLEAN, todo : SUBSET Attachments,
   name : Attachments \cup {Resting.name}, answer : Answers,
   view : ScanRows, wrote : SUBSET Attachments, outrun : SUBSET Attachments]

Busy == {"settle", "defer", "discard"}

\* What a worker is about to do fits what it has found.
AtWork(w) ==
  /\ w.pc \in Busy => w.name \in Attachments
  /\ w.pc = "settle" => w.answer \in Verdicts
  /\ w.pc = "idle" => w.wrote = {}

\* A row written as condemned has lost its file, but for the one whose twins
\* are about to be condemned with it.
FilesGo(w) ==
  \A a \in w.wrote :
    w.view[a].status = "Infected" =>
      ~w.view[a].file \/ (w.pc = "discard" /\ w.name = a)

\* What a worker wrote over a condemned row condemns it still.
KeepsCondemned(w, rows) ==
  \A a \in w.wrote :
    rows[a].status = "Infected" => w.view[a].status = "Infected" /\ ~w.view[a].file

\* A worker's transaction in good order over the rows as committed.
WorkerSound(w, rows) ==
  w \in ScanWorker /\ AtWork(w) /\ FilesGo(w) /\ KeepsCondemned(w, rows)

ScanInv ==
  /\ attachment \in ScanRows
  /\ \A a \in Attachments : attachment[a].status = "Infected" => ~attachment[a].file
  /\ DOMAIN scanner = Scanners
  /\ \A s \in Scanners : WorkerSound(scanner[s], attachment)
  /\ \A s, t \in Scanners : s # t => scanner[s].wrote \cap scanner[t].wrote = {}

\* One worker's step that commits nothing.
LEMMA OneWorkerMoves ==
  ASSUME ScanInv, NEW s \in Scanners, NEW w, Step(s, w), UNCHANGED attachment,
         WorkerSound(w, attachment), w.wrote \subseteq Attachments \ LockedBy(s)
  PROVE  ScanInv'
  <1>1. \A t \in Scanners : scanner'[t] = IF t = s THEN w ELSE scanner[t]
    BY DEF Step, ScanInv
  <1>2. DOMAIN scanner' = Scanners
    BY DEF Step, ScanInv
  <1>3. \A t \in Scanners \ {s} : scanner[t].wrote \subseteq LockedBy(s)
    BY DEF LockedBy
  <1>4. \A t, u \in Scanners : t # u => scanner'[t].wrote \cap scanner'[u].wrote = {}
    BY <1>1, <1>3 DEF ScanInv
  <1> QED
    BY <1>1, <1>2, <1>4 DEF ScanInv

\* The rows a worker has written are not among those the others hold.
LEMMA OwnRowsOnly ==
  ASSUME ScanInv, NEW s \in Scanners
  PROVE  /\ scanner[s] \in ScanWorker
         /\ scanner[s].wrote \subseteq Attachments \ LockedBy(s)
         /\ \A t \in Scanners \ {s} : scanner[t].wrote \cap scanner[s].wrote = {}
  BY DEF ScanInv, WorkerSound, ScanWorker, LockedBy

LEMMA RestingSound ==
  ASSUME NEW rows
  PROVE  WorkerSound(Resting, rows) /\ Resting.wrote = {} /\ Resting.pc = "idle"
  <1>1. Resting \in ScanWorker
    BY DEF Resting, ScanWorker, NoUpload, ScanRows, ScanRow, Verdicts, Answers
  <1> QED
    BY <1>1 DEF Resting, WorkerSound, AtWork, FilesGo, KeepsCondemned, Busy

LEMMA DoneTyped ==
  ASSUME NEW w \in ScanWorker
  PROVE  Done(w) \in ScanWorker /\ Done(w).view = w.view /\ Done(w).wrote = w.wrote
  <1>1. Resting.name \in Attachments \cup {Resting.name} /\ Resting.answer \in Answers
    BY DEF Resting, Answers
  <1> QED
    BY <1>1 DEF Done, ScanWorker

\* A worker done with a row, with its writes as they were.
LEMMA DoneSound ==
  ASSUME NEW w, NEW rows, w \in ScanWorker, KeepsCondemned(w, rows),
         \A a \in w.wrote : w.view[a].status = "Infected" => ~w.view[a].file
  PROVE  WorkerSound(Done(w), rows) /\ Done(w).wrote = w.wrote
  <1>1. Done(w) \in ScanWorker
    BY DoneTyped
  <1>2. Done(w).pc = "next" /\ Done(w).view = w.view /\ Done(w).wrote = w.wrote
    BY DEF Done, ScanWorker
  <1> QED
    BY <1>1, <1>2 DEF WorkerSound, AtWork, FilesGo, KeepsCondemned, Busy

\* The compare-and-set of a worker: it finds a row of the kind it may write over.
LEMMA WriteSound ==
  ASSUME ScanInv, NEW s \in Scanners, NEW w, w = scanner[s], w.pc \in {"settle", "defer"},
         w.name \notin LockedBy(s), NEW live, live = Live(s, w.name),
         NEW from, "Infected" \notin from, NEW row, row \in ScanRow,
         NEW v, v = Write(w, w.name, live, from, row)
  PROVE  /\ v \in ScanWorker
         /\ v.wrote \subseteq Attachments \ LockedBy(s)
         /\ KeepsCondemned(v, attachment)
         /\ v.pc = w.pc /\ v.name = w.name /\ v.answer = w.answer
         /\ \A a \in v.wrote \ {w.name} : v.view[a].status = "Infected" => ~v.view[a].file
         /\ \/ v = w
            \/ v.view[w.name] = row
  <1>1. w \in ScanWorker /\ w.name \in Attachments /\ KeepsCondemned(w, attachment) /\ FilesGo(w)
    BY DEF ScanInv, WorkerSound, AtWork, Busy
  <1>2. w.wrote \subseteq Attachments \ LockedBy(s)
    BY OwnRowsOnly
  <1>3. \A a \in w.wrote : w.view[a].status = "Infected" => ~w.view[a].file
    BY <1>1 DEF FilesGo
  <1>4. CASE live.status \notin from
    <2>1. v = w
      BY <1>4 DEF Write
    <2>2. /\ w.pc = w.pc /\ w.name = w.name /\ w.answer = w.answer
          /\ \A a \in w.wrote \ {w.name} : w.view[a].status = "Infected" => ~w.view[a].file
      BY <1>3
    <2> QED
      BY <1>1, <1>2, <2>1, <2>2, Zenon
  <1>5. CASE live.status \in from
    <2>1. v = [w EXCEPT !.view[w.name] = row, !.wrote = @ \cup {w.name}]
      BY <1>5 DEF Write
    <2>2. attachment[w.name].status # "Infected"
      BY <1>1, <1>5 DEF Live, KeepsCondemned
    <2>3. /\ v.pc = w.pc /\ v.name = w.name /\ v.answer = w.answer
          /\ v.wrote = w.wrote \cup {w.name}
          /\ v.view = [w.view EXCEPT ![w.name] = row]
          /\ v \in ScanWorker
      <3> DEFINE rows == [w.view EXCEPT ![w.name] = row]
                 mine == w.wrote \cup {w.name}
      <3>1. /\ v = [w EXCEPT !.view = rows, !.wrote = mine]
            /\ rows \in ScanRows /\ mine \in SUBSET Attachments
        BY <1>1, <2>1 DEF ScanWorker, ScanRows
      <3> HIDE DEF rows, mine
      <3>2. /\ v.pc = w.pc /\ v.name = w.name /\ v.answer = w.answer
            /\ v.wrote = mine /\ v.view = rows /\ v \in ScanWorker
        BY <1>1, <3>1 DEF ScanWorker
      <3> QED
        BY <3>2 DEF rows, mine
    <2>4. v.view = [w.view EXCEPT ![w.name] = row] /\ DOMAIN w.view = Attachments
      BY <1>1, <2>3 DEF ScanWorker, ScanRows
    <2>5. v.view[w.name] = row /\ \A a \in Attachments \ {w.name} : v.view[a] = w.view[a]
      BY <1>1, <2>4
    <2>6. KeepsCondemned(v, attachment)
      BY <1>1, <1>2, <2>2, <2>3, <2>5 DEF KeepsCondemned
    <2>7. \A a \in v.wrote \ {w.name} : v.view[a].status = "Infected" => ~v.view[a].file
      BY <1>2, <1>3, <2>3, <2>5
    <2>8. v.wrote \subseteq Attachments \ LockedBy(s)
      BY <1>1, <1>2, <2>3
    <2> QED
      BY <2>3, <2>5, <2>6, <2>7, <2>8
  <1> QED
    BY <1>4, <1>5

\* A verdict is written, and a condemned row goes on to its twins.
LEMMA SettleKeeps ==
  ASSUME ScanInv, NEW s \in Scanners, Settle(s)
  PROVE  ScanInv'
  <1> DEFINE w == scanner[s]
             live == Live(s, w.name)
             row == [live EXCEPT !.status = w.answer]
             v == Write(w, w.name, live, Overwrites(w.answer), row)
             on == v.answer = "Infected" /\ v.view[w.name].status = "Infected"
             next == [v EXCEPT !.pc = "discard"]
  <1>1. w.pc = "settle" /\ w.pc \in {"settle", "defer"} /\ w.name \notin LockedBy(s) /\ w.answer \in Verdicts
        /\ w.name \in Attachments
    BY DEF Settle, ScanInv, WorkerSound, AtWork, Busy
  <1>2. live \in ScanRow
    BY <1>1 DEF Live, ScanInv, WorkerSound, ScanWorker, ScanRows
  <1>3. row \in ScanRow /\ row.status = w.answer
    BY <1>1, <1>2 DEF ScanRow, Verdicts
  <1>4. "Infected" \notin Overwrites(w.answer)
    BY DEF Overwrites
  <1> HIDE DEF row
  <1>5. /\ v \in ScanWorker
        /\ v.wrote \subseteq Attachments \ LockedBy(s)
        /\ KeepsCondemned(v, attachment)
        /\ v.pc = w.pc /\ v.name = w.name /\ v.answer = w.answer
        /\ \A a \in v.wrote \ {w.name} : v.view[a].status = "Infected" => ~v.view[a].file
        /\ v = w \/ v.view[w.name] = row
    BY <1>1, <1>3, <1>4, WriteSound
  <1>6. Step(s, IF on THEN next ELSE Done(v)) /\ UNCHANGED attachment
    BY <1>5, Zenon DEF Settle, row
  <1>7. FilesGo(w) /\ AtWork(w)
    BY DEF ScanInv, WorkerSound
  <1> HIDE DEF v, live
  <1>8. CASE on
    <2>1. next \in ScanWorker
      BY <1>5 DEF ScanWorker
    <2>2. /\ next.pc = "discard" /\ next.name = v.name /\ next.wrote = v.wrote
          /\ next.view = v.view
      BY <1>5 DEF ScanWorker
    <2> HIDE DEF next, w
    <2>3. WorkerSound(next, attachment)
      BY <1>1, <1>5, <2>1, <2>2 DEF WorkerSound, AtWork, FilesGo, KeepsCondemned, Busy
    <2>4. next.wrote \subseteq Attachments \ LockedBy(s)
      BY <1>5, <2>2
    <2> QED
      BY <1>6, <1>8, <2>3, <2>4, OneWorkerMoves
  <1>9. CASE ~on
    <2>1. \A a \in v.wrote : v.view[a].status = "Infected" => ~v.view[a].file
      <3>1. CASE v = w
        BY <1>1, <1>7, <3>1 DEF FilesGo
      <3>2. CASE v.view[w.name] = row
        BY <1>3, <1>5, <1>9, <3>2
      <3> QED
        BY <1>5, <3>1, <3>2
    <2>2. WorkerSound(Done(v), attachment) /\ Done(v).wrote = v.wrote
      BY <1>5, <2>1, DoneSound
    <2> HIDE DEF next, on
    <2> QED
      BY <1>5, <1>6, <1>9, <2>2, OneWorkerMoves
  <1> QED
    BY <1>8, <1>9

\* A deferral touches a row that is pending still.
LEMMA DeferKeeps ==
  ASSUME ScanInv, NEW s \in Scanners, Defer(s)
  PROVE  ScanInv'
  <1> DEFINE w == scanner[s]
             live == Live(s, w.name)
             row == Deferred(w.view[w.name].attempts, live)
             from == {"Pending"}
             v == Write(w, w.name, live, from, row)
  <1>1. w.pc = "defer" /\ w.pc \in {"settle", "defer"} /\ w.name \notin LockedBy(s) /\ w.name \in Attachments
    BY DEF Defer, ScanInv, WorkerSound, AtWork, Busy
  <1>2. live \in ScanRow /\ w.view[w.name].attempts \in Nat
    BY <1>1 DEF Live, ScanInv, WorkerSound, ScanWorker, ScanRows, ScanRow
  <1>3. row \in ScanRow
    BY <1>2 DEF ScanRow, Verdicts, Deferred
  <1>4. Step(s, Done(v)) /\ UNCHANGED attachment
    BY Zenon DEF Defer
  <1>5. row.status = "Infected" => live.status = "Infected"
    BY <1>2 DEF Deferred, ScanRow
  <1>6. FilesGo(w)
    BY DEF ScanInv, WorkerSound
  <1>7. v # w => live.status = "Pending"
    BY DEF Write
  <1> HIDE DEF row
  <1>8. /\ v \in ScanWorker
        /\ v.wrote \subseteq Attachments \ LockedBy(s)
        /\ KeepsCondemned(v, attachment)
        /\ \A a \in v.wrote \ {w.name} : v.view[a].status = "Infected" => ~v.view[a].file
        /\ v = w \/ v.view[w.name] = row
    <2>1. "Infected" \notin from
      OBVIOUS
    <2> HIDE DEF from
    <2> QED
      BY <1>1, <1>3, <2>1, WriteSound
  <1> HIDE DEF v, live
  <1>9. \A a \in v.wrote : v.view[a].status = "Infected" => ~v.view[a].file
    BY <1>1, <1>5, <1>6, <1>7, <1>8 DEF FilesGo
  <1>10. WorkerSound(Done(v), attachment) /\ Done(v).wrote = v.wrote
    BY <1>8, <1>9, DoneSound
  <1> QED
    BY <1>4, <1>8, <1>10, OneWorkerMoves

\* A row is condemned together with its twins, or those that can be locked, but
\* for a twin deleted since.
LEMMA CondemnKeeps ==
  ASSUME ScanInv, NEW s \in Scanners, scanner[s].pc = "discard", UNCHANGED attachment,
         NEW rows \in SUBSET (Condemned(scanner[s]) \ LockedBy(s)), scanner[s].name \in rows,
         Condemn(s, rows)
  PROVE  ScanInv'
  <1> DEFINE w == scanner[s]
             written == {a \in rows : Live(s, a).status # "Deleted"}
             seen == [a \in Attachments |->
                        IF a \in written
                        THEN [w.view[a] EXCEPT !.status = "Infected", !.file = FALSE]
                        ELSE w.view[a]]
             v == [w EXCEPT !.wrote = @ \cup written, !.view = seen]
  <1>1. /\ w \in ScanWorker /\ w.pc = "discard" /\ w.name \in Attachments
        /\ FilesGo(w) /\ KeepsCondemned(w, attachment)
        /\ rows \cap LockedBy(s) = {}
    BY DEF ScanInv, WorkerSound, AtWork, Busy
  <1>2. Step(s, Done(v)) /\ UNCHANGED attachment
    BY Zenon DEF Condemn
  <1>3. rows \subseteq Attachments /\ w.name \in rows
    BY <1>1 DEF Condemned, Twins
  <1>4. w.view \in ScanRows /\ w.wrote \subseteq Attachments
    BY <1>1 DEF ScanWorker
  <1>5. seen \in ScanRows
    BY <1>4 DEF ScanRows, ScanRow, Verdicts
  <1>6. \A a \in Attachments :
          /\ a \in written => seen[a].status = "Infected" /\ ~seen[a].file
          /\ a \notin written => seen[a] = w.view[a]
    BY <1>4 DEF ScanRows, ScanRow
  <1>7. \A a \in w.wrote : a \in rows \ written => w.view[a].status = "Deleted"
    BY DEF Live
  <1>8. written \subseteq rows
    OBVIOUS
  <1> HIDE DEF seen, written, w
  <1>9. v \in ScanWorker /\ v.wrote = w.wrote \cup written /\ v.view = seen
    BY <1>1, <1>3, <1>4, <1>5, <1>8 DEF ScanWorker
  <1> HIDE DEF v
  <1>10. \A a \in v.wrote : v.view[a].status = "Infected" => ~v.view[a].file
    BY <1>1, <1>3, <1>4, <1>6, <1>7, <1>8, <1>9 DEF FilesGo
  <1>11. KeepsCondemned(v, attachment)
    BY <1>1, <1>3, <1>4, <1>6, <1>8, <1>9 DEF KeepsCondemned
  <1>12. v.wrote \subseteq Attachments \ LockedBy(s)
    BY <1>1, <1>3, <1>8, <1>9, OwnRowsOnly DEF w
  <1>13. WorkerSound(Done(v), attachment) /\ Done(v).wrote = v.wrote
    BY <1>9, <1>10, <1>11, DoneSound
  <1> QED
    BY <1>2, <1>12, <1>13, OneWorkerMoves

LEMMA DiscardKeeps ==
  ASSUME ScanInv, NEW s \in Scanners, Discard(s)
  PROVE  ScanInv'
  <1> DEFINE rows == Condemned(scanner[s])
  <1>1. /\ scanner[s].pc = "discard" /\ rows \cap LockedBy(s) = {} /\ Condemn(s, rows)
        /\ UNCHANGED attachment
    BY DEF Discard
  <1>2. scanner[s].name \in rows
    BY DEF Condemned
  <1> HIDE DEF rows
  <1>3. rows \in SUBSET (Condemned(scanner[s]) \ LockedBy(s))
    BY <1>1 DEF rows
  <1> QED
    BY <1>1, <1>2, <1>3, CondemnKeeps

\* Looking at the next row writes nothing.
LEMMA ExamineKeeps ==
  ASSUME ScanInv, NEW s \in Scanners, Examine(s)
  PROVE  ScanInv'
  <1>1. PICK a \in scanner[s].todo :
          LET w == [scanner[s] EXCEPT !.name = a]
          IN  IF w.view[a].status # "Pending" THEN Step(s, Done(w))
              ELSE \E answer \in AnswersFor(w) :
                     Step(s, [w EXCEPT !.pc = IF answer = "retry" THEN "defer" ELSE "settle",
                                       !.answer = answer])
    BY DEF Examine
  <1> DEFINE w == [scanner[s] EXCEPT !.name = a]
  <1>2. scanner[s] \in ScanWorker /\ scanner[s].pc = "next" /\ FilesGo(scanner[s])
        /\ KeepsCondemned(scanner[s], attachment)
    BY DEF Examine, ScanInv, WorkerSound
  <1>3. a \in Attachments
    BY <1>2 DEF ScanWorker
  <1>4. /\ w \in ScanWorker /\ w.wrote = scanner[s].wrote /\ w.view = scanner[s].view
        /\ w.name = a
    BY <1>2, <1>3 DEF ScanWorker
  <1>5. UNCHANGED attachment
    BY DEF Examine
  <1>6. \A b \in w.wrote : w.view[b].status = "Infected" => ~w.view[b].file
    BY <1>2, <1>4 DEF FilesGo
  <1>7. KeepsCondemned(w, attachment)
    BY <1>2, <1>4 DEF KeepsCondemned
  <1>8. w.wrote \subseteq Attachments \ LockedBy(s)
    BY <1>4, OwnRowsOnly
  <1>9. CASE Step(s, Done(w))
    BY <1>4, <1>5, <1>6, <1>7, <1>8, <1>9, DoneSound, OneWorkerMoves
  <1>10. ASSUME NEW answer \in AnswersFor(w),
                Step(s, [w EXCEPT !.pc = IF answer = "retry" THEN "defer" ELSE "settle",
                                  !.answer = answer])
         PROVE  ScanInv'
    <2> DEFINE v == [w EXCEPT !.pc = IF answer = "retry" THEN "defer" ELSE "settle",
                              !.answer = answer]
    <2>1. answer \in Answers
      BY DEF AnswersFor, Verdict, Answers, Verdicts
    <2>2. Step(s, v)
      BY <1>10
    <2> HIDE DEF w
    <2>3. /\ v \in ScanWorker /\ v.wrote = w.wrote /\ v.view = w.view /\ v.name = a
          /\ v.pc = (IF answer = "retry" THEN "defer" ELSE "settle") /\ v.answer = answer
      BY <1>4, <2>1 DEF ScanWorker
    <2> HIDE DEF v
    <2>4. WorkerSound(v, attachment)
      BY <1>3, <1>6, <1>7, <2>1, <2>3
      DEF WorkerSound, AtWork, FilesGo, KeepsCondemned, Answers, Busy
    <2> QED
      BY <1>5, <1>8, <2>2, <2>3, <2>4, OneWorkerMoves
  <1> QED
    BY <1>1, <1>9, <1>10

\* Rows change that no worker has written: every transaction is still in order.
LEMMA OthersOutrun ==
  ASSUME NEW w, NEW rows, NEW changed \in [Attachments -> ScanRow], NEW moved \in SUBSET Attachments,
         WorkerSound(w, rows), \A a \in w.wrote : changed[a] = rows[a]
  PROVE  WorkerSound(Outrun(w, moved), changed) /\ Outrun(w, moved).wrote = w.wrote
  <1>1. w \in ScanWorker
    BY DEF WorkerSound
  <1> DEFINE v == Outrun(w, moved)
  <1>2. /\ v \in ScanWorker /\ v.pc = w.pc /\ v.name = w.name /\ v.answer = w.answer
        /\ v.view = w.view /\ v.wrote = w.wrote
    BY <1>1 DEF Outrun, ScanWorker
  <1> HIDE DEF v
  <1>3. WorkerSound(v, changed)
    BY <1>2 DEF WorkerSound, AtWork, FilesGo, KeepsCondemned
  <1> QED
    BY <1>2, <1>3 DEF v

\* A commit puts the worker's rows in the place of those it wrote over.
LEMMA CommitKeeps ==
  ASSUME ScanInv, NEW s \in Scanners, Commit(s)
  PROVE  /\ ScanInv'
         /\ \A a \in Attachments : attachment[a].status = "Infected" =>
              attachment'[a].status = "Infected" /\ ~attachment'[a].file
  <1> DEFINE w == scanner[s]
  <1>1. w \in ScanWorker /\ w.pc = "next" /\ FilesGo(w) /\ KeepsCondemned(w, attachment)
    BY DEF Commit, ScanInv, WorkerSound
  <1>2. \A a \in Attachments :
          attachment'[a] = IF a \in w.wrote THEN w.view[a] ELSE attachment[a]
    BY DEF Commit
  <1>3. attachment' \in ScanRows
    BY <1>1 DEF Commit, ScanInv, ScanRows, ScanWorker
  <1>4. \A a \in Attachments : attachment'[a].status = "Infected" => ~attachment'[a].file
    BY <1>1, <1>2 DEF ScanInv, FilesGo
  <1>5. \A a \in Attachments : attachment[a].status = "Infected" =>
          attachment'[a].status = "Infected" /\ ~attachment'[a].file
    BY <1>1, <1>2 DEF ScanInv, KeepsCondemned
  <1>6. w.wrote \in SUBSET Attachments
    BY <1>1 DEF ScanWorker
  <1>7. ASSUME NEW t \in Scanners
        PROVE  /\ WorkerSound(scanner'[t], attachment')
               /\ scanner'[t].wrote = IF t = s THEN {} ELSE scanner[t].wrote
    <2>1. CASE t = s
      <3>1. scanner'[t] = Resting
        BY <2>1 DEF Commit
      <3> QED
        BY <2>1, <3>1, RestingSound
    <2>2. CASE t # s
      <3>1. scanner'[t] = Outrun(scanner[t], w.wrote)
        BY <2>2 DEF Commit
      <3>2. scanner[t].wrote \cap w.wrote = {} /\ WorkerSound(scanner[t], attachment)
        BY <2>2 DEF ScanInv
      <3>3. scanner[t].wrote \subseteq Attachments
        BY <3>2 DEF WorkerSound, ScanWorker
      <3>4. \A a \in scanner[t].wrote : attachment'[a] = attachment[a]
        BY <1>2, <3>2, <3>3
      <3> QED
        BY <1>3, <1>6, <2>2, <3>1, <3>2, <3>4, OthersOutrun DEF ScanRows
    <2> QED
      BY <2>1, <2>2
  <1>8. DOMAIN scanner' = Scanners
    BY DEF Commit
  <1>9. \A t, u \in Scanners : t # u => scanner'[t].wrote \cap scanner'[u].wrote = {}
    BY <1>7 DEF ScanInv
  <1> QED
    BY <1>3, <1>4, <1>5, <1>7, <1>8, <1>9 DEF ScanInv

\* A transaction begins on the rows as committed, and holds none of them.
LEMMA BeginKeeps ==
  ASSUME ScanInv, NEW s \in Scanners, NEW todo \in SUBSET Attachments, NEW sweep \in BOOLEAN,
         Begin(s, todo, sweep), UNCHANGED attachment
  PROVE  ScanInv'
  <1> DEFINE v == [Resting EXCEPT !.pc = "next", !.sweep = sweep, !.todo = todo,
                                  !.view = attachment]
  <1>1. Step(s, v)
    BY DEF Begin
  <1>2. /\ v.wrote = {} /\ v.pc = "next" /\ v.name = Resting.name /\ v \in ScanWorker
    BY DEF ScanInv, Resting, ScanWorker, Answers, ScanRows
  <1> HIDE DEF v
  <1>3. WorkerSound(v, attachment)
    BY <1>2 DEF WorkerSound, AtWork, FilesGo, KeepsCondemned, Busy
  <1> QED
    BY <1>1, <1>2, <1>3, OneWorkerMoves

\* A refused write or a killed worker gives the transaction up.
LEMMA GivingUpKeeps ==
  ASSUME ScanInv, NEW s \in Scanners, Refuse(s) \/ KillScanner(s)
  PROVE  ScanInv'
  <1>1. CASE Step(s, Resting) /\ UNCHANGED attachment
    BY <1>1, RestingSound, OneWorkerMoves
  <1>2. CASE /\ Step(s, [Done(scanner[s]) EXCEPT !.view = attachment, !.wrote = {}, !.outrun = {}])
             /\ UNCHANGED attachment
    <2> DEFINE d == Done(scanner[s])
               v == [d EXCEPT !.view = attachment, !.wrote = {}, !.outrun = {}]
    <2>1. scanner[s] \in ScanWorker
      BY DEF ScanInv, WorkerSound
    <2>2. d \in ScanWorker /\ d.pc = "next"
      BY <2>1 DEF Done, ScanWorker, Resting, Answers
    <2>3. Step(s, v)
      BY <1>2
    <2> HIDE DEF d
    <2>4. v \in ScanWorker /\ v.wrote = {} /\ v.pc = "next"
      BY <2>2 DEF ScanInv, ScanWorker, ScanRows
    <2> HIDE DEF v
    <2>5. WorkerSound(v, attachment)
      BY <2>4 DEF WorkerSound, AtWork, FilesGo, KeepsCondemned, Busy
    <2> QED
      BY <1>2, <2>3, <2>4, <2>5, OneWorkerMoves
  <1> QED
    BY <1>1, <1>2 DEF Refuse, KillScanner

\* A sweep that waited too long keeps what it has seen and written.
LEMMA TimeoutKeeps ==
  ASSUME ScanInv, NEW s \in Scanners, LockTimeout(s)
  PROVE  ScanInv'
  <1>1. CASE scanner[s].pc # "discard" /\ Step(s, Done(scanner[s]))
    <2>1. /\ scanner[s] \in ScanWorker /\ KeepsCondemned(scanner[s], attachment)
          /\ FilesGo(scanner[s])
      BY DEF ScanInv, WorkerSound
    <2>2. WorkerSound(Done(scanner[s]), attachment) /\ Done(scanner[s]).wrote = scanner[s].wrote
      BY <1>1, <2>1, DoneSound DEF FilesGo
    <2>3. UNCHANGED attachment
      BY DEF LockTimeout
    <2> QED
      BY <1>1, <2>2, <2>3, OwnRowsOnly, OneWorkerMoves
  <1>2. ASSUME scanner[s].pc = "discard",
               NEW rows \in SUBSET (Condemned(scanner[s]) \ LockedBy(s)),
               scanner[s].name \in rows, Condemn(s, rows)
        PROVE  ScanInv'
    BY <1>2, CondemnKeeps DEF LockTimeout
  <1> QED
    BY <1>1, <1>2 DEF LockTimeout

\* The users only touch rows nobody holds.
LEMMA UsersKeep ==
  ASSUME ScanInv, NEW a \in Attachments, Upload(a) \/ DeleteAttachment(a)
  PROVE  /\ ScanInv'
         /\ \A b \in Attachments : attachment[b].status = "Infected" =>
              attachment'[b].status \in {"Infected", "Deleted"} /\ ~attachment'[b].file
  <1>1. CASE Upload(a)
    <2>1. attachment[a].status = "Absent" /\ UNCHANGED scanner
      BY <1>1 DEF Upload
    <2>2. /\ attachment' \in ScanRows /\ attachment'[a].status = "Pending"
          /\ \A b \in Attachments \ {a} : attachment'[b] = attachment[b]
      BY <1>1 DEF Upload, ScanInv, ScanRows, ScanRow
    <2>3. \A s \in Scanners : KeepsCondemned(scanner[s], attachment')
      BY <2>2 DEF ScanInv, WorkerSound, ScanWorker, KeepsCondemned
    <2> QED
      BY <2>1, <2>2, <2>3 DEF ScanInv, WorkerSound
  <1>2. CASE DeleteAttachment(a)
    <2>1. /\ attachment' \in ScanRows /\ attachment'[a].status = "Deleted"
          /\ ~attachment'[a].file
          /\ \A b \in Attachments \ {a} : attachment'[b] = attachment[b]
      <3> DEFINE row == [attachment[a] EXCEPT !.status = "Deleted", !.file = FALSE]
      <3>1. attachment' = [attachment EXCEPT ![a] = row]
        BY <1>2 DEF DeleteAttachment, ScanInv, ScanRows
      <3>2. row \in ScanRow /\ row.status = "Deleted" /\ ~row.file
        BY DEF ScanInv, ScanRows, ScanRow
      <3> HIDE DEF row
      <3> QED
        BY <3>1, <3>2 DEF ScanInv, ScanRows
    <2>2. ASSUME NEW s \in Scanners
          PROVE  /\ WorkerSound(scanner'[s], attachment')
                 /\ scanner'[s].wrote = scanner[s].wrote
      <3>1. scanner'[s] = Outrun(scanner[s], {a}) /\ a \notin scanner[s].wrote
        BY <1>2 DEF DeleteAttachment, Locked
      <3>2. \A b \in scanner[s].wrote : attachment'[b] = attachment[b]
        BY <2>1, <3>1 DEF ScanInv, WorkerSound, ScanWorker
      <3> QED
        BY <2>1, <3>1, <3>2, OthersOutrun DEF ScanInv, ScanRows
    <2>3. DOMAIN scanner' = Scanners
      BY <1>2 DEF DeleteAttachment
    <2> QED
      BY <2>1, <2>2, <2>3 DEF ScanInv
  <1> QED
    BY <1>1, <1>2

\* Every step, and what it does to a condemned row.
LEMMA ScanStep ==
  ASSUME ScanInv, [ScanNext]_scanVars
  PROVE  /\ ScanInv'
         /\ \A a \in Attachments : attachment[a].status = "Infected" =>
              attachment'[a].status \in {"Infected", "Deleted"} /\ ~attachment'[a].file
  <1>1. CASE ScanInv' /\ UNCHANGED attachment
    BY <1>1 DEF ScanInv
  <1>2. CASE UNCHANGED scanVars
    BY <1>2 DEF ScanInv, scanVars
  <1>3. ASSUME NEW s \in Scanners, NEW a \in Attachments, StartJob(s, a) PROVE ScanInv'
    BY <1>3, BeginKeeps DEF StartJob
  <1>4. ASSUME NEW s \in Scanners, StartSweep(s) PROVE ScanInv'
    <2>1. PICK rows \in Batches : Begin(s, rows, TRUE)
      BY <1>4 DEF StartSweep
    <2>2. rows \in SUBSET Attachments /\ TRUE \in BOOLEAN /\ UNCHANGED attachment
      BY <1>4 DEF Batches, Waiting, StartSweep
    <2> QED
      BY <2>1, <2>2, BeginKeeps
  <1>5. ASSUME NEW s \in Scanners,
               \/ Examine(s) \/ Settle(s) \/ Defer(s) \/ Discard(s) \/ Refuse(s)
               \/ LockTimeout(s) \/ KillScanner(s)
        PROVE  ScanInv' /\ UNCHANGED attachment
    BY <1>5, ExamineKeeps, SettleKeeps, DeferKeeps, DiscardKeeps, GivingUpKeeps, TimeoutKeeps
    DEF Examine, Settle, Defer, Discard, Refuse, LockTimeout, KillScanner
  <1>6. \A s \in Scanners, a \in Attachments : StartJob(s, a) => UNCHANGED attachment
    BY DEF StartJob
  <1>7. \A s \in Scanners : StartSweep(s) => UNCHANGED attachment
    BY DEF StartSweep
  <1>8. CASE ClamdChanges
    BY <1>8 DEF ClamdChanges, ScanInv
  <1> QED
    BY <1>1, <1>2, <1>3, <1>4, <1>5, <1>6, <1>7, <1>8, UsersKeep, CommitKeeps DEF ScanNext

LEMMA ScanStarts == ScanInit => ScanInv
  <1> SUFFICES ASSUME ScanInit PROVE ScanInv
    OBVIOUS
  <1>1. attachment \in ScanRows /\ \A a \in Attachments : attachment[a].status = "Absent"
    BY DEF ScanInit, NoUpload, ScanRows, ScanRow
  <1>2. DOMAIN scanner = Scanners /\ \A s \in Scanners : scanner[s] = Resting
    BY DEF ScanInit
  <1>3. \A s \in Scanners : WorkerSound(scanner[s], attachment) /\ scanner[s].wrote = {}
    BY <1>2, RestingSound
  <1> QED
    BY <1>1, <1>2, <1>3 DEF ScanInv

\* For any uploads, contents and workers: a condemned row stays condemned until
\* it is deleted, and its File is gone with it (CondemnedForGood).
THEOREM CondemnedStays == ScanSpec => CondemnedForGood
  <1>1. ASSUME ScanInv, [ScanNext]_scanVars
        PROVE  [\A a \in Attachments : attachment[a].status = "Infected" =>
                  /\ attachment'[a].status \in {"Infected", "Deleted"}
                  /\ ~attachment'[a].file]_scanVars
    BY <1>1, ScanStep
  <1> QED
    BY <1>1, ScanStarts, ScanStep, PTL DEF ScanSpec, CondemnedForGood

\* A row is never tried more often than MAX_SCAN_ATTEMPTS, as committed or as a
\* worker sees it: the attempt that would be the last gives the row up.
TriedWithin(rows) == \A a \in Attachments : rows[a].attempts <= MaxScanAttempts

ScanTyping ==
  /\ ScanInv /\ scanner = [s \in Scanners |-> scanner[s]]
  /\ TriedWithin(attachment) /\ \A s \in Scanners : TriedWithin(scanner[s].view)
  /\ bytesOnDisk \subseteq {Checksum[a] : a \in Attachments} /\ scanJobs \subseteq Attachments
  /\ scanFaults \in 0..MaxScanFaults /\ clamd \in BOOLEAN

\* What a worker writes on a row it is settling, deferring or condemning.
LEMMA WritesWithin ==
  ASSUME ScanTyping, NEW s \in Scanners, scanner[s].pc \in Busy,
         Settle(s) \/ Defer(s) \/ \E rows \in SUBSET Attachments : Condemn(s, rows)
  PROVE  TriedWithin(scanner'[s].view)
  <1> DEFINE w == scanner[s]
             live == Live(s, w.name)
  <1>1. /\ w \in ScanWorker /\ w.view \in ScanRows /\ attachment \in ScanRows
        /\ TriedWithin(w.view) /\ TriedWithin(attachment) /\ DOMAIN scanner = Scanners
    BY DEF ScanTyping, ScanInv, WorkerSound, ScanWorker
  <1>2. w.name \in Attachments
    BY DEF ScanTyping, ScanInv, WorkerSound, AtWork
  <1>3. live \in ScanRow /\ live.attempts <= MaxScanAttempts
    BY <1>1, <1>2 DEF Live, TriedWithin, ScanRows
  <1>4. \A v : Step(s, v) => scanner'[s] = v
    BY <1>1 DEF Step
  <1>5. \A v : v \in ScanWorker => Done(v).view = v.view
    BY DEF Done, ScanWorker
  <1>6. ASSUME NEW from, NEW row \in ScanRow, row.attempts <= MaxScanAttempts
        PROVE  /\ Write(w, w.name, live, from, row) \in ScanWorker
               /\ TriedWithin(Write(w, w.name, live, from, row).view)
    <2> HIDE DEF w, live
    <2>1. CASE live.status \notin from
      BY <1>1, <2>1 DEF Write
    <2>2. CASE live.status \in from
      <3> DEFINE seen == [w.view EXCEPT ![w.name] = row]
                 wrote == w.wrote \cup {w.name}
      <3>1. seen \in ScanRows /\ TriedWithin(seen)
        BY <1>1, <1>2, <1>6 DEF ScanRows, TriedWithin
      <3>2. wrote \in SUBSET Attachments
        BY <1>1, <1>2 DEF ScanWorker
      <3>3. Write(w, w.name, live, from, row) = [w EXCEPT !.view = seen, !.wrote = wrote]
        BY <1>1, <2>2 DEF Write, ScanWorker
      <3> HIDE DEF seen, wrote
      <3> QED
        BY <1>1, <3>1, <3>2, <3>3 DEF ScanWorker
    <2> QED
      BY <2>1, <2>2
  <1>7. CASE Settle(s)
    <2> DEFINE row == [live EXCEPT !.status = w.answer]
               settled == Write(w, w.name, live, Overwrites(w.answer), row)
    <2>1. w.answer \in Verdicts
      BY <1>7 DEF ScanTyping, ScanInv, WorkerSound, AtWork, Settle
    <2>2. \/ Step(s, [settled EXCEPT !.pc = "discard"])
          \/ Step(s, Done(settled))
      BY <1>7, Zenon DEF Settle
    <2>3. row \in ScanRow /\ row.attempts <= MaxScanAttempts
      <3> HIDE DEF live, w
      <3> QED
        BY <1>3, <2>1 DEF ScanRow
    <2> HIDE DEF row
    <2>4. settled \in ScanWorker /\ TriedWithin(settled.view)
      BY <1>6, <2>3
    <2> HIDE DEF settled
    <2>5. [settled EXCEPT !.pc = "discard"].view = settled.view
      BY <2>4 DEF ScanWorker
    <2> QED
      BY <1>4, <1>5, <2>2, <2>4, <2>5
  <1>8. CASE Defer(s)
    <2> DEFINE row == Deferred(w.view[w.name].attempts, live)
               from == {"Pending"}
    <2>1. Step(s, Done(Write(w, w.name, live, from, row)))
      BY <1>8, Zenon DEF Defer
    <2>2. w.view[w.name].attempts \in Nat
      BY <1>1, <1>2 DEF ScanRows, ScanRow
    <2>3. row \in ScanRow /\ row.attempts <= MaxScanAttempts
      <3> DEFINE n == w.view[w.name].attempts + 1
      <3>1. n \in Nat /\ (~(n >= MaxScanAttempts) => n <= MaxScanAttempts)
        BY <2>2, ScanAssumption
      <3>2. row = IF n >= MaxScanAttempts THEN [live EXCEPT !.status = "Failed"]
                  ELSE [live EXCEPT !.attempts = n]
        BY DEF Deferred
      <3> HIDE DEF n, live, row
      <3> QED
        BY <1>3, <3>1, <3>2 DEF ScanRow, Verdicts
    <2> HIDE DEF row, from
    <2>4. /\ Write(w, w.name, live, from, row) \in ScanWorker
          /\ TriedWithin(Write(w, w.name, live, from, row).view)
      BY <1>6, <2>3
    <2> QED
      BY <1>4, <1>5, <2>1, <2>4
  <1>9. ASSUME NEW rows \in SUBSET Attachments, Condemn(s, rows)
        PROVE  TriedWithin(scanner'[s].view)
    <2> DEFINE written == {a \in rows : Live(s, a).status # "Deleted"}
               seen == [a \in Attachments |->
                          IF a \in written
                          THEN [w.view[a] EXCEPT !.status = "Infected", !.file = FALSE]
                          ELSE w.view[a]]
               v == [w EXCEPT !.wrote = @ \cup written, !.view = seen]
    <2>1. Step(s, Done(v))
      BY <1>9, Zenon DEF Condemn
    <2>2. written \subseteq Attachments
      OBVIOUS
    <2> HIDE DEF written
    <2>3. seen \in ScanRows /\ TriedWithin(seen)
      <3> DEFINE condemned(a) == [w.view[a] EXCEPT !.status = "Infected", !.file = FALSE]
      <3>1. ASSUME NEW a \in Attachments
            PROVE  w.view[a] \in ScanRow /\ w.view[a].attempts <= MaxScanAttempts
        BY <1>1 DEF ScanRows, TriedWithin
      <3>2. ASSUME NEW a \in Attachments
            PROVE  condemned(a) \in ScanRow /\ condemned(a).attempts = w.view[a].attempts
        BY <3>1 DEF ScanRow, Verdicts
      <3> HIDE DEF w, condemned
      <3>3. \A a \in Attachments : seen[a] = IF a \in written THEN condemned(a) ELSE w.view[a]
        BY DEF condemned
      <3>4. seen = [a \in Attachments |-> seen[a]]
        OBVIOUS
      <3> HIDE DEF seen
      <3> QED
        BY <3>1, <3>2, <3>3, <3>4 DEF ScanRows, TriedWithin
    <2> HIDE DEF seen, w
    <2>4. v \in ScanWorker /\ v.view = seen
      BY <1>1, <2>2, <2>3 DEF ScanWorker
    <2> QED
      BY <1>4, <1>5, <2>1, <2>3, <2>4
  <1> QED
    BY <1>7, <1>8, <1>9

LEMMA WorkersStay ==
  ASSUME scanner = [s \in Scanners |-> scanner[s]], [ScanNext]_scanVars
  PROVE  scanner' = [s \in Scanners |-> scanner'[s]]
  <1>1. ASSUME NEW s, NEW w, Step(s, w) PROVE scanner' = [x \in Scanners |-> scanner'[x]]
    BY <1>1 DEF Step
  <1>2. CASE UNCHANGED scanVars
    BY <1>2 DEF scanVars
  <1>3. ASSUME NEW a \in Attachments, Upload(a) \/ DeleteAttachment(a)
        PROVE  scanner' = [x \in Scanners |-> scanner'[x]]
    BY <1>3 DEF Upload, DeleteAttachment
  <1>4. ASSUME NEW s \in Scanners, Commit(s)
        PROVE  scanner' = [x \in Scanners |-> scanner'[x]]
    BY <1>4 DEF Commit
  <1>5. ASSUME NEW s \in Scanners,
               \/ StartSweep(s) \/ \E a \in Attachments : StartJob(s, a)
               \/ Examine(s) \/ Settle(s) \/ Defer(s) \/ Discard(s) \/ Refuse(s)
               \/ LockTimeout(s) \/ KillScanner(s)
        PROVE  \E w : Step(s, w)
    BY <1>5, Zenon DEF StartSweep, StartJob, Begin, Examine, Settle, Defer, Discard, Condemn,
                       Refuse, LockTimeout, KillScanner
  <1>6. CASE ClamdChanges
    BY <1>6 DEF ClamdChanges
  <1> QED
    BY <1>1, <1>2, <1>3, <1>4, <1>5, <1>6 DEF ScanNext

LEMMA ScanTypingStep ==
  ASSUME ScanTyping, [ScanNext]_scanVars
  PROVE  ScanTyping'
  <1>0. ScanInv /\ ScanInv' /\ scanner' = [s \in Scanners |-> scanner'[s]]
    BY ScanStep, WorkersStay DEF ScanTyping
  <1>1. /\ attachment \in ScanRows /\ TriedWithin(attachment) /\ DOMAIN scanner = Scanners
        /\ \A s \in Scanners : scanner[s] \in ScanWorker /\ TriedWithin(scanner[s].view)
    BY DEF ScanTyping, ScanInv, WorkerSound
  <1>2. TriedWithin(Resting.view)
    BY ScanAssumption DEF Resting, NoUpload, TriedWithin
  <1>3. \A view, dropped : BytesAfterDrop(view, dropped) \subseteq bytesOnDisk
    BY DEF BytesAfterDrop
  <1>4. ASSUME NEW s \in Scanners, NEW w, Step(s, w), TriedWithin(w.view)
        PROVE  \A x \in Scanners : TriedWithin(scanner'[x].view)
    BY <1>1, <1>4 DEF Step
  <1>5. \A w, moved : w \in ScanWorker => Outrun(w, moved).view = w.view
    BY DEF Outrun, ScanWorker
  <1>6. \A w : w \in ScanWorker => Done(w).view = w.view
    BY DEF Done, ScanWorker
  <1>7. CASE UNCHANGED scanVars
    BY <1>0, <1>7 DEF scanVars, ScanTyping
  <1>8. ASSUME NEW a \in Attachments, Upload(a) PROVE ScanTyping'
    <2>1. TriedWithin(attachment') /\ UNCHANGED <<scanner, scanFaults, clamd>>
      BY <1>1, <1>8, ScanAssumption DEF Upload, TriedWithin, ScanRows
    <2> QED
      BY <1>0, <1>8, <2>1 DEF Upload, ScanTyping
  <1>9. ASSUME NEW a \in Attachments, DeleteAttachment(a) PROVE ScanTyping'
    <2>1. TriedWithin(attachment')
      BY <1>1, <1>9 DEF DeleteAttachment, TriedWithin, ScanRows, ScanRow
    <2>2. \A s \in Scanners : TriedWithin(scanner'[s].view)
      BY <1>1, <1>5, <1>9 DEF DeleteAttachment
    <2>3. bytesOnDisk' \subseteq bytesOnDisk /\ UNCHANGED <<scanJobs, scanFaults, clamd>>
      BY <1>3, <1>9 DEF DeleteAttachment
    <2> QED
      BY <1>0, <2>1, <2>2, <2>3 DEF ScanTyping
  <1>10. ASSUME NEW s \in Scanners, NEW todo, NEW sweep, Begin(s, todo, sweep),
                UNCHANGED <<attachment, bytesOnDisk, scanFaults, clamd>>,
                scanJobs' \subseteq scanJobs
         PROVE  ScanTyping'
    <2> DEFINE v == [Resting EXCEPT !.pc = "next", !.sweep = sweep, !.todo = todo,
                                    !.view = attachment]
    <2>1. Step(s, v) /\ v.view = attachment
      BY <1>10 DEF Begin, Resting
    <2> HIDE DEF v
    <2>2. \A x \in Scanners : TriedWithin(scanner'[x].view)
      BY <1>1, <1>4, <2>1
    <2> QED
      BY <1>0, <1>10, <2>2 DEF ScanTyping
  <1>11. ASSUME NEW s \in Scanners, Examine(s) PROVE ScanTyping'
    <2>1. PICK a \in scanner[s].todo :
            LET w == [scanner[s] EXCEPT !.name = a]
            IN  IF w.view[a].status # "Pending" THEN Step(s, Done(w))
                ELSE \E answer \in AnswersFor(w) :
                       Step(s, [w EXCEPT !.pc = IF answer = "retry" THEN "defer" ELSE "settle",
                                         !.answer = answer])
      BY <1>11 DEF Examine
    <2> DEFINE w == [scanner[s] EXCEPT !.name = a]
    <2>2. w \in ScanWorker /\ w.view = scanner[s].view
      BY <1>1 DEF ScanWorker
    <2> HIDE DEF w
    <2>3. \A pc, answer : [w EXCEPT !.pc = pc, !.answer = answer].view = w.view
      BY <2>2 DEF ScanWorker
    <2>4. \E v : Step(s, v) /\ v.view = scanner[s].view
      <3>1. CASE Step(s, Done(w))
        BY <1>6, <2>2, <3>1
      <3>2. ASSUME NEW pc, NEW answer, Step(s, [w EXCEPT !.pc = pc, !.answer = answer])
            PROVE  \E v : Step(s, v) /\ v.view = scanner[s].view
        <4>1. [w EXCEPT !.pc = pc, !.answer = answer].view = scanner[s].view
          BY <2>2, <2>3
        <4> QED
          BY <3>2, <4>1, Zenon
      <3>3. \/ Step(s, Done(w))
            \/ \E answer :
                 Step(s, [w EXCEPT !.pc = IF answer = "retry" THEN "defer" ELSE "settle",
                                   !.answer = answer])
        BY <2>1, Zenon DEF w
      <3>4. \/ Step(s, Done(w))
            \/ \E pc, answer : Step(s, [w EXCEPT !.pc = pc, !.answer = answer])
        BY <3>3, Zenon
      <3> QED
        BY <3>1, <3>2, <3>4, Zenon
    <2>5. \A x \in Scanners : TriedWithin(scanner'[x].view)
      BY <1>1, <1>4, <2>4
    <2>6. UNCHANGED <<attachment, bytesOnDisk, scanJobs, scanFaults, clamd>>
      BY <1>11 DEF Examine
    <2> QED
      BY <1>0, <2>5, <2>6 DEF ScanTyping
  <1>12. ASSUME NEW s \in Scanners, scanner[s].pc \in Busy,
                Settle(s) \/ Defer(s) \/ \E rows \in SUBSET Attachments : Condemn(s, rows),
                UNCHANGED <<attachment, scanJobs, scanFaults, clamd>>
         PROVE  ScanTyping'
    <2>1. TriedWithin(scanner'[s].view)
      BY <1>12, WritesWithin
    <2>2. \A x \in Scanners \ {s} : scanner'[x] = scanner[x]
      BY <1>1, <1>12, Zenon DEF Settle, Defer, Condemn, Step
    <2>3. bytesOnDisk' \subseteq bytesOnDisk
      BY <1>3, <1>12, Zenon DEF Settle, Defer, Condemn
    <2> QED
      BY <1>0, <1>1, <1>12, <2>1, <2>2, <2>3 DEF ScanTyping
  <1>13. ASSUME NEW s \in Scanners, Commit(s) PROVE ScanTyping'
    <2>1. TriedWithin(attachment')
      BY <1>1, <1>13 DEF Commit, TriedWithin
    <2>2. \A x \in Scanners : TriedWithin(scanner'[x].view)
      BY <1>1, <1>2, <1>5, <1>13 DEF Commit
    <2> QED
      BY <1>0, <1>13, <2>1, <2>2 DEF Commit, ScanTyping
  <1>14. ASSUME NEW s \in Scanners, Refuse(s) PROVE ScanTyping'
    <2> DEFINE d == Done(scanner[s])
               v == [d EXCEPT !.view = attachment, !.wrote = {}, !.outrun = {}]
    <2>1. d \in ScanWorker
      BY <1>1, DoneTyped
    <2>2. Step(s, v) \/ Step(s, Resting)
      BY <1>14, Zenon DEF Refuse
    <2> HIDE DEF d
    <2>3. v.view = attachment
      BY <2>1 DEF ScanWorker
    <2> HIDE DEF v
    <2>4. \A x \in Scanners : TriedWithin(scanner'[x].view)
      BY <1>1, <1>2, <1>4, <2>2, <2>3
    <2>5. UNCHANGED <<attachment, bytesOnDisk, scanJobs, scanFaults, clamd>>
      BY <1>14 DEF Refuse
    <2> QED
      BY <1>0, <2>4, <2>5 DEF ScanTyping
  <1>15. ASSUME NEW s \in Scanners, KillScanner(s) PROVE ScanTyping'
    <2>1. \A x \in Scanners : TriedWithin(scanner'[x].view)
      BY <1>2, <1>4, <1>15 DEF KillScanner
    <2>2. scanFaults' \in 0..MaxScanFaults /\ UNCHANGED <<attachment, bytesOnDisk, scanJobs, clamd>>
      BY <1>15, ScanAssumption DEF KillScanner, ScanTyping
    <2> QED
      BY <1>0, <2>1, <2>2 DEF ScanTyping
  <1>16. ASSUME NEW s \in Scanners, StartSweep(s) \/ \E a \in Attachments : StartJob(s, a)
         PROVE  ScanTyping'
    BY <1>10, <1>16 DEF StartSweep, StartJob
  <1>17. ASSUME NEW s \in Scanners, Settle(s) \/ Defer(s) \/ Discard(s) PROVE ScanTyping'
    <2>1. scanner[s].pc \in Busy /\ UNCHANGED <<attachment, scanJobs, scanFaults, clamd>>
      BY <1>17, Zenon DEF Settle, Defer, Discard, Busy
    <2>2. CASE Discard(s)
      <3>1. Condemned(scanner[s]) \in SUBSET Attachments
        BY <1>0, <2>1 DEF Condemned, Twins, ScanInv, WorkerSound, AtWork
      <3>2. Condemn(s, Condemned(scanner[s]))
        BY <2>2 DEF Discard
      <3> QED
        BY <1>12, <2>1, <3>1, <3>2
    <2> QED
      BY <1>12, <1>17, <2>1, <2>2
  <1>18. ASSUME NEW s \in Scanners, LockTimeout(s) PROVE ScanTyping'
    <2>1. UNCHANGED <<attachment, scanJobs, scanFaults, clamd>>
      BY <1>18 DEF LockTimeout
    <2>2. CASE Step(s, Done(scanner[s])) /\ UNCHANGED bytesOnDisk
      <3>1. Done(scanner[s]).view = scanner[s].view
        BY <1>1, <1>6
      <3>2. \A x \in Scanners : TriedWithin(scanner'[x].view)
        BY <1>1, <1>4, <2>2, <3>1
      <3> QED
        BY <1>0, <2>1, <2>2, <3>2 DEF ScanTyping
    <2>3. ASSUME scanner[s].pc = "discard",
                 NEW rows \in SUBSET (Condemned(scanner[s]) \ LockedBy(s)), Condemn(s, rows)
          PROVE  ScanTyping'
      <3>1. rows \in SUBSET Attachments /\ scanner[s].pc \in Busy
        BY <1>0, <2>3 DEF Condemned, Twins, ScanInv, WorkerSound, AtWork, Busy
      <3> QED
        BY <1>12, <2>1, <2>3, <3>1
    <2> QED
      BY <1>18, <2>2, <2>3 DEF LockTimeout
  <1>19. CASE ClamdChanges
    BY <1>0, <1>19 DEF ClamdChanges, ScanTyping
  <1> QED
    BY <1>7, <1>8, <1>9, <1>11, <1>13, <1>14, <1>15, <1>16, <1>17, <1>18, <1>19 DEF ScanNext

LEMMA ScanTypingStart == ScanInit => ScanTyping
  <1> SUFFICES ASSUME ScanInit PROVE ScanTyping
    OBVIOUS
  <1>1. TriedWithin(NoUpload) /\ \A s \in Scanners : TriedWithin(scanner[s].view)
    BY ScanAssumption DEF ScanInit, Resting, NoUpload, TriedWithin
  <1> QED
    BY <1>1, ScanStarts, ScanAssumption DEF ScanInit, ScanTyping

LEMMA ScanIsTyped == ScanTyping => ScanTypeOK
  <1> SUFFICES ASSUME ScanTyping PROVE ScanTypeOK
    OBVIOUS
  <1>1. \A rows : rows \in ScanRows /\ TriedWithin(rows) => rows \in Rows
    BY ScanAssumption DEF ScanRows, ScanRow, Rows, AttachmentRow, TriedWithin
  <1>2. Resting.name \in Attachments
    BY ScanAssumption DEF Resting
  <1>3. ASSUME NEW s \in Scanners PROVE scanner[s] \in Worker
    BY <1>1, <1>2 DEF ScanTyping, ScanInv, WorkerSound, ScanWorker, Worker
  <1>4. scanner \in [Scanners -> Worker]
    BY <1>3 DEF ScanTyping
  <1> QED
    BY <1>1, <1>4 DEF ScanTyping, ScanInv, ScanTypeOK

\* For any uploads, workers and workers killed: rows, views and answers keep
\* their types, and no row is tried more often than MAX_SCAN_ATTEMPTS (_defer).
THEOREM ScanTypedAlways == ScanSpec => []ScanTypeOK
  BY ScanTypingStart, ScanTypingStep, ScanIsTyped, PTL DEF ScanSpec

-----------------------------------------------------------------------------
(***************************************************************************)
(* Dispatching.  A row is held by one worker from the moment it is taken   *)
(* until its outcome is committed, and stays Queued all that time.  So an  *)
(* email, which is handed over by that very commit, goes once; any other   *)
(* message has left at most once more than the workers that died on it,    *)
(* and while a worker is recording it, once more than before.              *)
(***************************************************************************)
NoticeRow == [event : NoticeEvents \cup {ReminderEvent}, channel : DOMAIN Channels,
              status : {"Queued", "Sent", "Failed"}, window : Nat]

DispatchWorker == [pc : {"idle", "taking", "sending", "recording"}, row : Nat,
                   ok : BOOLEAN, sweep : BOOLEAN]

\* The worker has a row in its hands.
Holds(w) == w.pc \in {"sending", "recording"}

\* A row in hand is in the log and still to be recorded.
HoldsQueued(w) ==
  /\ Holds(w) => w.row \in DOMAIN notices /\ notices[w.row].status = "Queued"
  /\ ~Holds(w) => w.row = NoRow

\* Somebody has sent the message and not recorded it yet.
BeingRecorded(i) ==
  \E d \in Dispatchers : dispatcher[d].pc = "recording" /\ dispatcher[d].row = i

\* What has left of one message.
LeftSoFar(i) ==
  /\ Kind(i) = "email" => handed[i] = (IF notices[i].status = "Sent" THEN 1 ELSE 0)
  /\ Kind(i) # "email" =>
       /\ handed[i] <= 1 + sendFaults
       /\ notices[i].status = "Queued" /\ ~BeingRecorded(i) => handed[i] <= sendFaults
       /\ notices[i].status = "Sent" => handed[i] >= 1
  /\ \A d \in Dispatchers :
       dispatcher[d].pc = "recording" /\ dispatcher[d].row = i /\ dispatcher[d].ok
         /\ Kind(i) # "email" => handed[i] >= 1

NoticeInv ==
  /\ notices \in Seq(NoticeRow) /\ Len(notices) <= MaxNotices
  /\ dispatcher \in [Dispatchers -> DispatchWorker]
  /\ handed \in [1..MaxNotices -> Nat] /\ sendFaults \in Nat
  /\ reminder.window \in Nat
  /\ \A d \in Dispatchers : HoldsQueued(dispatcher[d])
  /\ \A d, e \in Dispatchers :
       d # e /\ Holds(dispatcher[d]) /\ Holds(dispatcher[e])
         => dispatcher[d].row # dispatcher[e].row
  /\ \A i \in DOMAIN notices : LeftSoFar(i)
  /\ \A i \in 1..MaxNotices : i \notin DOMAIN notices => handed[i] = 0

\* As many rows as an event is still to be told on.
LEMMA UntoldFinite ==
  ASSUME NEW event
  PROVE  Untold(event) \subseteq DOMAIN Channels /\ Cardinality(Untold(event)) \in Nat
  <1>1. Untold(event) \subseteq DOMAIN Channels
    BY NoticeAssumption DEF Untold
  <1> QED
    BY <1>1, NoticeAssumption, FS_Subset, FS_CardinalityType

\* A log that only grew: what is in it stands as it did.
LEMMA GrownKeeps ==
  ASSUME NoticeInv, NEW rows \in Seq(NoticeRow),
         \A i \in 1..Len(rows) : rows[i].status = "Queued",
         notices' = notices \o rows, Len(notices) + Len(rows) <= MaxNotices,
         reminder'.window \in Nat, UNCHANGED <<dispatcher, handed, sendFaults>>
  PROVE  NoticeInv'
  <1>1. Len(notices) \in Nat /\ Len(rows) \in Nat /\ DOMAIN notices = 1..Len(notices)
    BY LenProperties DEF NoticeInv
  <1>2. /\ notices' \in Seq(NoticeRow) /\ Len(notices') = Len(notices) + Len(rows)
        /\ \A i \in 1..Len(notices) + Len(rows) :
             notices'[i] = IF i <= Len(notices) THEN notices[i] ELSE rows[i - Len(notices)]
    BY ConcatProperties DEF NoticeInv
  <1>3. DOMAIN notices' = 1..Len(notices) + Len(rows)
    BY <1>2, LenProperties
  <1>4. \A i \in DOMAIN notices : i \in DOMAIN notices' /\ notices'[i] = notices[i]
    BY <1>1, <1>2, <1>3
  <1>5. \A d \in Dispatchers : HoldsQueued(dispatcher[d])'
    BY <1>4 DEF NoticeInv, HoldsQueued, Holds
  <1>6. ASSUME NEW i \in DOMAIN notices' PROVE LeftSoFar(i)'
    <2>1. CASE i \in DOMAIN notices
      <3>1. notices'[i] = notices[i] /\ LeftSoFar(i)
        BY <1>4, <2>1 DEF NoticeInv
      <3> QED
        BY <3>1 DEF LeftSoFar, BeingRecorded, Kind
    <2>2. CASE i \notin DOMAIN notices
      <3>1. notices'[i].status = "Queued"
        BY <1>1, <1>2, <1>3, <2>2
      <3>2. i \in 1..MaxNotices
        BY <1>1, <1>3, NoticeAssumption
      <3>3. handed'[i] = 0 /\ sendFaults' \in Nat
        BY <2>2, <3>2 DEF NoticeInv
      <3>4. \A d \in Dispatchers : ~(dispatcher[d].pc = "recording" /\ dispatcher[d].row = i)
        BY <2>2 DEF NoticeInv, HoldsQueued, Holds
      <3> QED
        BY <3>1, <3>3, <3>4 DEF LeftSoFar, BeingRecorded
    <2> QED
      BY <2>1, <2>2
  <1>7. \A i \in 1..MaxNotices : i \notin DOMAIN notices' => handed'[i] = 0
    BY <1>4 DEF NoticeInv
  <1> QED
    BY <1>2, <1>5, <1>6, <1>7 DEF NoticeInv

\* What a transaction appends: one Queued row for each channel still to be told.
Appends(rows, event, window) ==
  /\ notices' = notices \o rows /\ Len(notices) + Len(rows) <= MaxNotices
  /\ \A i \in 1..Len(rows) :
       /\ rows[i].status = "Queued" /\ rows[i].event = event /\ rows[i].window = window
       /\ ~AlreadyQueued(event, rows[i].channel)
  /\ \A i, j \in 1..Len(rows) : rows[i].channel = rows[j].channel => i = j
  /\ sendJobs' \in {sendJobs, sendJobs + 1}

LEMMA QueuedRows ==
  ASSUME NoticeInv, NEW event \in NoticeEvents \cup {ReminderEvent}, NEW window \in Nat,
         Queue(event, window)
  PROVE  \E rows \in Seq(NoticeRow) : Appends(rows, event, window)
  <1>1. PICK rows \in RowsFor(event, window) :
          /\ Len(notices) + Len(rows) <= MaxNotices
          /\ notices' = notices \o rows
          /\ sendJobs' \in {sendJobs, sendJobs + 1}
    BY DEF Queue
  <1> DEFINE n == Cardinality(Untold(event))
  <1>2. n \in Nat /\ Untold(event) \subseteq DOMAIN Channels
    BY UntoldFinite
  <1>3. PICK order \in [1..n -> Untold(event)] :
          /\ rows = [i \in 1..n |-> [event |-> event, channel |-> order[i],
                                      status |-> "Queued", window |-> window]]
          /\ \A i, j \in 1..n : order[i] = order[j] => i = j
    BY DEF RowsFor
  <1>4. \A channel \in Untold(event) : ~AlreadyQueued(event, channel)
    BY DEF Untold
  <1> HIDE DEF n
  <1>5. \A i \in 1..n : /\ rows[i] \in NoticeRow /\ rows[i].status = "Queued"
                        /\ rows[i].event = event /\ rows[i].window = window
                        /\ rows[i].channel = order[i] /\ order[i] \in Untold(event)
    BY <1>2, <1>3 DEF NoticeRow
  <1>6. rows \in [1..n -> NoticeRow]
    BY <1>3, <1>5
  <1>7. rows \in Seq(NoticeRow) /\ Len(rows) = n
    BY <1>2, <1>6
  <1>8. \A i \in 1..n : ~AlreadyQueued(event, rows[i].channel)
    BY <1>4, <1>5
  <1>9. \A i, j \in 1..n : rows[i].channel = rows[j].channel => i = j
    BY <1>3, <1>5
  <1>10. Appends(rows, event, window)
    BY <1>1, <1>5, <1>7, <1>8, <1>9 DEF Appends
  <1> QED
    BY <1>7, <1>10

\* The appended rows are Queued, and none of them has left.
LEMMA QueueKeeps ==
  ASSUME NoticeInv, NEW event \in NoticeEvents \cup {ReminderEvent}, NEW window \in Nat,
         Queue(event, window), reminder'.window \in Nat,
         UNCHANGED <<dispatcher, handed, sendFaults>>
  PROVE  NoticeInv'
  <1>1. PICK rows \in Seq(NoticeRow) : Appends(rows, event, window)
    BY QueuedRows
  <1> QED
    BY <1>1, GrownKeeps DEF Appends

\* One worker goes on, with the log and what has left as they were.
LEMMA WorkerMoves ==
  ASSUME NoticeInv, NEW d \in Dispatchers, NEW w \in DispatchWorker,
         dispatcher' = [dispatcher EXCEPT ![d] = w],
         UNCHANGED <<notices, handed, reminder>>, sendFaults' \in Nat, sendFaults' >= sendFaults,
         HoldsQueued(w), w.pc # "recording",
         Holds(w) => \A e \in Dispatchers \ {d} : Holds(dispatcher[e]) => dispatcher[e].row # w.row,
         dispatcher[d].pc = "recording" => sendFaults' >= sendFaults + 1
  PROVE  NoticeInv'
  <1>1. \A e \in Dispatchers : dispatcher'[e] = IF e = d THEN w ELSE dispatcher[e]
    BY DEF NoticeInv
  <1>2. dispatcher' \in [Dispatchers -> DispatchWorker]
    BY DEF NoticeInv
  <1>3. \A e \in Dispatchers : HoldsQueued(dispatcher[e])'
    BY <1>1 DEF NoticeInv, HoldsQueued, Holds
  <1>4. \A e, f \in Dispatchers :
          e # f /\ Holds(dispatcher'[e]) /\ Holds(dispatcher'[f])
            => dispatcher'[e].row # dispatcher'[f].row
    BY <1>1 DEF NoticeInv
  <1>5. ASSUME NEW i \in DOMAIN notices PROVE LeftSoFar(i)'
    <2>1. LeftSoFar(i) /\ notices' = notices /\ handed' = handed
      BY DEF NoticeInv
    <2>2. handed[i] \in Nat
      <3>1. i \in 1..MaxNotices
        BY LenProperties, NoticeAssumption DEF NoticeInv
      <3> QED
        BY <3>1 DEF NoticeInv
    <2>3. BeingRecorded(i)' => BeingRecorded(i)
      BY <1>1 DEF BeingRecorded
    <2>4. BeingRecorded(i) /\ ~BeingRecorded(i)' => dispatcher[d].pc = "recording"
      BY <1>1 DEF BeingRecorded
    <2>5. Kind(i)' = Kind(i)
      BY <2>1 DEF Kind
    <2>6. Kind(i) # "email" =>
            /\ handed'[i] <= 1 + sendFaults'
            /\ notices'[i].status = "Queued" /\ ~BeingRecorded(i)' => handed'[i] <= sendFaults'
            /\ notices'[i].status = "Sent" => handed'[i] >= 1
      BY <2>1, <2>2, <2>4 DEF LeftSoFar, NoticeInv
    <2>7. \A e \in Dispatchers :
            dispatcher'[e].pc = "recording" => e # d /\ dispatcher'[e] = dispatcher[e]
      BY <1>1
    <2> QED
      BY <2>1, <2>5, <2>6, <2>7 DEF LeftSoFar
  <1> QED
    BY <1>2, <1>3, <1>4, <1>5 DEF NoticeInv

\* A set of numbers has a least one.
LEMMA LeastOfNaturals ==
  ASSUME NEW S \in SUBSET Nat, S # {}
  PROVE  (CHOOSE i \in S : \A j \in S : i <= j) \in S
  <1> DEFINE R == {pair \in Nat \X Nat : pair[1] < pair[2]}
  <1>1. IsWellFoundedOn(R, Nat)
    BY NatLessThanWellFounded DEF OpToRel
  <1>2. \A i, j \in Nat : <<j, i>> \notin R => i <= j
    OBVIOUS
  <1> HIDE DEF R
  <1>3. PICK i \in S : \A j \in S : <<j, i>> \notin R
    BY <1>1, WFMin
  <1>4. \A j \in S : i <= j
    BY <1>2, <1>3
  <1> QED
    BY <1>4

\* A job or the sweep starts, with nothing in hand.
LEMMA StartDispatchKeeps ==
  ASSUME NoticeInv, NEW d \in Dispatchers, StartDispatch(d)
  PROVE  NoticeInv'
  <1>1. PICK sweep \in BOOLEAN :
          dispatcher' = [dispatcher EXCEPT ![d] = [pc |-> "taking", row |-> NoRow, ok |-> FALSE,
                                                   sweep |-> sweep]]
    BY DEF StartDispatch, Off
  <1> DEFINE w == [pc |-> "taking", row |-> NoRow, ok |-> FALSE, sweep |-> sweep]
  <1>2. w \in DispatchWorker /\ HoldsQueued(w) /\ ~Holds(w) /\ w.pc # "recording"
    BY DEF DispatchWorker, HoldsQueued, Holds, NoRow
  <1>3. dispatcher[d].pc = "idle" /\ UNCHANGED <<notices, handed, reminder, sendFaults>>
    BY DEF StartDispatch
  <1>4. sendFaults' \in Nat /\ sendFaults' >= sendFaults /\ dispatcher[d].pc # "recording"
    BY <1>3 DEF NoticeInv
  <1> HIDE DEF w
  <1> QED
    BY <1>1, <1>2, <1>3, <1>4, WorkerMoves DEF w

\* A worker takes a row nobody holds, or ends.
LEMMA TakeRowKeeps ==
  ASSUME NoticeInv, NEW d \in Dispatchers, TakeRow(d)
  PROVE  NoticeInv'
  <1> DEFINE first == CHOOSE i \in Takeable : \A j \in Takeable : i <= j
             taken == [dispatcher[d] EXCEPT !.pc = "sending", !.row = first]
  <1>1. dispatcher[d] \in DispatchWorker /\ dispatcher[d].pc = "taking"
    BY DEF TakeRow, NoticeInv
  <1>2. UNCHANGED <<notices, handed, reminder, sendFaults>>
    BY DEF TakeRow
  <1>3. sendFaults' \in Nat /\ sendFaults' >= sendFaults /\ dispatcher[d].pc # "recording"
    BY <1>1, <1>2 DEF NoticeInv
  <1>4. CASE Takeable = {}
    <2>1. dispatcher' = [dispatcher EXCEPT ![d] = Off]
      BY <1>4 DEF TakeRow, NoticeInv
    <2>2. Off \in DispatchWorker /\ HoldsQueued(Off) /\ ~Holds(Off) /\ Off.pc # "recording"
      BY DEF Off, DispatchWorker, HoldsQueued, Holds, NoRow
    <2> QED
      BY <1>2, <1>3, <2>1, <2>2, WorkerMoves
  <1>5. CASE Takeable # {}
    <2>1. dispatcher' = [dispatcher EXCEPT ![d] = taken]
      BY <1>5 DEF TakeRow, NoticeInv
    <2>2. Takeable \in SUBSET Nat
      BY LenProperties DEF Takeable, NoticeInv
    <2>3. first \in Takeable
      BY <1>5, <2>2, LeastOfNaturals
    <2>4. first \in DOMAIN notices /\ notices[first].status = "Queued" /\ first \notin Held
          /\ first \in Nat
      BY <2>2, <2>3 DEF Takeable
    <2> HIDE DEF first
    <2>5. taken \in DispatchWorker /\ taken.pc = "sending" /\ taken.row = first
      BY <1>1, <2>4 DEF DispatchWorker
    <2> HIDE DEF taken
    <2>6. HoldsQueued(taken)
      BY <2>4, <2>5 DEF HoldsQueued, Holds
    <2>7. \A e \in Dispatchers \ {d} : dispatcher[e].row # taken.row
      BY <2>4, <2>5 DEF Held
    <2> QED
      BY <1>2, <1>3, <2>1, <2>5, <2>6, <2>7, WorkerMoves
  <1> QED
    BY <1>4, <1>5

\* A killed worker lets its row go; what it may have sent is on its account.
LEMMA KillKeeps ==
  ASSUME NoticeInv, NEW d \in Dispatchers, KillDispatcher(d)
  PROVE  NoticeInv'
  <1>1. /\ dispatcher' = [dispatcher EXCEPT ![d] = Off] /\ sendFaults' = sendFaults + 1
        /\ UNCHANGED <<notices, handed, reminder>>
    BY DEF KillDispatcher
  <1>2. sendFaults' \in Nat /\ sendFaults' >= sendFaults /\ sendFaults' >= sendFaults + 1
    BY <1>1 DEF NoticeInv
  <1>3. Off \in DispatchWorker /\ HoldsQueued(Off) /\ ~Holds(Off) /\ Off.pc # "recording"
    BY DEF Off, DispatchWorker, HoldsQueued, Holds, NoRow
  <1> QED
    BY <1>1, <1>2, <1>3, WorkerMoves

\* The message leaves, or not, and the worker holds its row until it is recorded.
LEMMA SendKeeps ==
  ASSUME NoticeInv, NEW d \in Dispatchers, Send(d)
  PROVE  NoticeInv'
  <1> PICK i \in Nat : i = dispatcher[d].row
    BY DEF NoticeInv, DispatchWorker
  <1>1. PICK ok \in BOOLEAN :
          /\ dispatcher' = [dispatcher EXCEPT ![d].pc = "recording", ![d].ok = ok]
          /\ IF Kind(i) = "email" THEN UNCHANGED handed
             ELSE \E left \in {ok, ok \/ Kind(i) = "text"} :
                    handed' = IF left THEN [handed EXCEPT ![i] = @ + 1] ELSE handed
    BY DEF Send
  <1>2. dispatcher[d].pc = "sending" /\ UNCHANGED <<notices, sendJobs, reminder, sendFaults>>
    BY DEF Send
  <1>3. /\ i \in DOMAIN notices /\ notices[i].status = "Queued" /\ LeftSoFar(i)
        /\ \A e \in Dispatchers \ {d} : Holds(dispatcher[e]) => dispatcher[e].row # i
    BY <1>2 DEF NoticeInv, HoldsQueued, Holds
  <1>4. i \in 1..MaxNotices /\ handed[i] \in Nat
    BY <1>3, LenProperties, NoticeAssumption DEF NoticeInv
  <1>5. ~BeingRecorded(i)
    BY <1>2, <1>3 DEF BeingRecorded, Holds
  <1> DEFINE w == [dispatcher[d] EXCEPT !.pc = "recording", !.ok = ok]
  <1>6. dispatcher' = [dispatcher EXCEPT ![d] = w]
    BY <1>1 DEF NoticeInv, DispatchWorker
  <1>7. w \in DispatchWorker /\ w.pc = "recording" /\ w.row = i /\ w.ok = ok
    BY DEF NoticeInv, DispatchWorker
  <1>8. \A j \in 1..MaxNotices : j # i => handed'[j] = handed[j]
    BY <1>1 DEF NoticeInv
  <1>9. /\ handed' \in [1..MaxNotices -> Nat]
        /\ Kind(i) = "email" => handed'[i] = handed[i]
        /\ Kind(i) # "email" => handed'[i] \in {handed[i], handed[i] + 1}
        /\ Kind(i) # "email" /\ ok => handed'[i] = handed[i] + 1
    <2>1. CASE Kind(i) = "email"
      BY <1>1, <2>1 DEF NoticeInv
    <2>2. CASE Kind(i) # "email"
      <3>1. PICK left \in {ok, ok \/ Kind(i) = "text"} :
              handed' = IF left THEN [handed EXCEPT ![i] = @ + 1] ELSE handed
        BY <1>1, <2>2
      <3>2. ok => left
        BY <3>1
      <3>3. left \in BOOLEAN
        BY <3>1
      <3> QED
        BY <1>4, <2>2, <3>1, <3>2, <3>3 DEF NoticeInv
    <2> QED
      BY <2>1, <2>2
  <1> HIDE DEF w
  <1>10. \A e \in Dispatchers : dispatcher'[e] = IF e = d THEN w ELSE dispatcher[e]
    BY <1>6 DEF NoticeInv
  <1>11. dispatcher' \in [Dispatchers -> DispatchWorker]
    BY <1>6, <1>7 DEF NoticeInv
  <1>12. \A e \in Dispatchers : HoldsQueued(dispatcher[e])'
    BY <1>2, <1>3, <1>7, <1>10 DEF NoticeInv, HoldsQueued, Holds
  <1>13. \A e, f \in Dispatchers :
           e # f /\ Holds(dispatcher'[e]) /\ Holds(dispatcher'[f])
             => dispatcher'[e].row # dispatcher'[f].row
    BY <1>3, <1>7, <1>10 DEF NoticeInv
  <1>14. ASSUME NEW j \in DOMAIN notices PROVE LeftSoFar(j)'
    <2>1. LeftSoFar(j) /\ j \in 1..MaxNotices /\ Kind(j)' = Kind(j)
      BY <1>2, LenProperties, NoticeAssumption DEF NoticeInv, Kind
    <2>2. CASE j = i
      <3>1. handed[i] <= sendFaults \/ Kind(i) = "email"
        BY <1>3, <1>5 DEF LeftSoFar
      <3>2. \A e \in Dispatchers : dispatcher'[e].pc = "recording" /\ dispatcher'[e].row = i
              => dispatcher'[e] = w
        BY <1>3, <1>10 DEF Holds
      <3>3. BeingRecorded(i)'
        BY <1>7, <1>10 DEF BeingRecorded
      <3>4. Kind(i) = "email" => handed'[i] = 0
        BY <1>3, <1>9 DEF LeftSoFar
      <3>5. Kind(i) # "email" => handed'[i] <= 1 + sendFaults
        BY <1>4, <1>9, <3>1 DEF NoticeInv
      <3>6. Kind(i) # "email" /\ ok => handed'[i] >= 1
        BY <1>4, <1>9
      <3> QED
        BY <1>2, <1>3, <1>7, <2>1, <2>2, <3>2, <3>3, <3>4, <3>5, <3>6 DEF LeftSoFar
    <2>3. CASE j # i
      <3>1. handed'[j] = handed[j]
        BY <1>8, <2>1, <2>3
      <3>2. \A e \in Dispatchers : dispatcher'[e].pc = "recording" /\ dispatcher'[e].row = j
              => e # d /\ dispatcher'[e] = dispatcher[e]
        BY <1>7, <1>10, <2>3
      <3>3. BeingRecorded(j) => BeingRecorded(j)'
        BY <1>2, <1>10 DEF BeingRecorded
      <3> QED
        BY <1>2, <2>1, <3>1, <3>2, <3>3 DEF LeftSoFar
    <2> QED
      BY <2>2, <2>3
  <1>15. \A j \in 1..MaxNotices : j \notin DOMAIN notices => handed'[j] = 0
    BY <1>3, <1>8 DEF NoticeInv
  <1> QED
    BY <1>2, <1>9, <1>11, <1>12, <1>13, <1>14, <1>15 DEF NoticeInv

\* The outcome is committed, an email's hand-over with it, and the row let go.
LEMMA RecordKeeps ==
  ASSUME NoticeInv, NEW d \in Dispatchers, Record(d)
  PROVE  NoticeInv'
  <1> DEFINE i == dispatcher[d].row
             ok == dispatcher[d].ok
             w == [dispatcher[d] EXCEPT !.pc = "taking", !.row = NoRow, !.ok = FALSE]
             row == [notices[i] EXCEPT !.status = Outcome(ok)]
  <1>1. /\ dispatcher[d].pc = "recording" /\ dispatcher[d] \in DispatchWorker
        /\ UNCHANGED <<sendJobs, reminder, sendFaults>>
        /\ dispatcher' = [dispatcher EXCEPT ![d] = w]
        /\ handed' = IF Kind(i) = "email" /\ ok THEN [handed EXCEPT ![i] = @ + 1] ELSE handed
    BY DEF Record, NoticeInv
  <1>2. /\ i \in DOMAIN notices /\ notices[i].status = "Queued" /\ LeftSoFar(i)
        /\ \A e \in Dispatchers \ {d} : Holds(dispatcher[e]) => dispatcher[e].row # i
    BY <1>1 DEF NoticeInv, HoldsQueued, Holds
  <1>3. DOMAIN notices = 1..Len(notices) /\ i \in 1..MaxNotices /\ handed[i] \in Nat
    BY <1>2, LenProperties, NoticeAssumption DEF NoticeInv
  <1>4. notices[i] \in NoticeRow /\ ok \in BOOLEAN
    BY <1>1, <1>2, <1>3, ElementOfSeq DEF NoticeInv, DispatchWorker
  <1>5. /\ row \in NoticeRow /\ row.status = Outcome(ok) /\ row.channel = notices[i].channel
        /\ Outcome(ok) = (IF ok THEN "Sent" ELSE "Failed")
    BY <1>4 DEF NoticeRow, Outcome
  <1>6. notices' = [notices EXCEPT ![i] = row]
    BY <1>1, <1>2 DEF Record, NoticeInv
  <1>7. w \in DispatchWorker /\ w.pc = "taking" /\ w.row = NoRow
    BY <1>1 DEF DispatchWorker, NoRow
  <1>8. /\ handed' \in [1..MaxNotices -> Nat]
        /\ \A j \in 1..MaxNotices : j # i => handed'[j] = handed[j]
        /\ handed'[i] = IF Kind(i) = "email" /\ ok THEN handed[i] + 1 ELSE handed[i]
    BY <1>1, <1>3 DEF NoticeInv
  <1> HIDE DEF w, row
  <1>9. /\ notices' \in Seq(NoticeRow) /\ Len(notices') = Len(notices)
        /\ \A j \in 1..Len(notices) : notices'[j] = IF j = i THEN row ELSE notices[j]
    BY <1>2, <1>3, <1>5, <1>6, ExceptSeq DEF NoticeInv
  <1>10. DOMAIN notices' = DOMAIN notices
    BY <1>3, <1>9, LenProperties
  <1>11. \A e \in Dispatchers : dispatcher'[e] = IF e = d THEN w ELSE dispatcher[e]
    BY <1>1 DEF NoticeInv
  <1>12. dispatcher' \in [Dispatchers -> DispatchWorker]
    BY <1>1, <1>7 DEF NoticeInv
  <1>13. ASSUME NEW e \in Dispatchers PROVE HoldsQueued(dispatcher[e])'
    <2>1. CASE e = d
      BY <1>7, <1>11, <2>1 DEF HoldsQueued, Holds
    <2>2. CASE e # d
      BY <1>2, <1>3, <1>9, <1>10, <1>11, <2>2 DEF NoticeInv, HoldsQueued
    <2> QED
      BY <2>1, <2>2
  <1>14. \A e, f \in Dispatchers :
           e # f /\ Holds(dispatcher'[e]) /\ Holds(dispatcher'[f])
             => dispatcher'[e].row # dispatcher'[f].row
    BY <1>7, <1>11 DEF NoticeInv, Holds
  <1>15. ASSUME NEW j \in DOMAIN notices PROVE LeftSoFar(j)'
    <2>1. LeftSoFar(j) /\ j \in 1..MaxNotices /\ j \in 1..Len(notices)
      BY <1>3, LenProperties, NoticeAssumption DEF NoticeInv
    <2>2. Kind(j)' = Kind(j)
      BY <1>5, <1>9, <2>1 DEF Kind
    <2>3. \A e \in Dispatchers : dispatcher'[e].pc = "recording"
            => e # d /\ dispatcher'[e] = dispatcher[e]
      BY <1>7, <1>11
    <2>4. CASE j = i
      <3>1. notices'[i].status = Outcome(ok)
        BY <1>5, <1>9, <2>1, <2>4
      <3>2. \A e \in Dispatchers : ~(dispatcher'[e].pc = "recording" /\ dispatcher'[e].row = i)
        BY <1>2, <2>3 DEF Holds
      <3>3. Kind(i) = "email" => handed'[i] = (IF ok THEN 1 ELSE 0)
        BY <1>2, <1>4, <1>8 DEF LeftSoFar
      <3>4. Kind(i) # "email" => handed'[i] = handed[i] /\ handed[i] <= 1 + sendFaults
        BY <1>2, <1>8 DEF LeftSoFar
      <3>5. Kind(i) # "email" /\ ok => handed'[i] >= 1
        BY <1>1, <1>2, <1>8 DEF LeftSoFar
      <3> QED
        BY <1>1, <1>4, <1>5, <2>2, <2>4, <3>1, <3>2, <3>3, <3>4, <3>5 DEF LeftSoFar
    <2>5. CASE j # i
      <3>1. handed'[j] = handed[j] /\ notices'[j] = notices[j]
        BY <1>8, <1>9, <2>1, <2>5
      <3>2. BeingRecorded(j) => BeingRecorded(j)'
        BY <1>11, <2>5 DEF BeingRecorded
      <3> QED
        BY <1>1, <2>1, <2>2, <2>3, <3>1, <3>2 DEF LeftSoFar
    <2> QED
      BY <2>4, <2>5
  <1>16. \A j \in 1..MaxNotices : j \notin DOMAIN notices => handed'[j] = 0
    BY <1>2, <1>8 DEF NoticeInv
  <1>17. Len(notices') <= MaxNotices /\ sendFaults' \in Nat /\ reminder'.window \in Nat
    BY <1>1, <1>9 DEF NoticeInv
  <1> QED
    BY <1>8, <1>9, <1>10, <1>12, <1>13, <1>14, <1>15, <1>16, <1>17 DEF NoticeInv

\* Every step of the case, the sweeps and the workers.
LEMMA NoticeKept ==
  ASSUME NoticeInv, [NoticeNext]_noticeVars
  PROVE  NoticeInv'
  <1>1. CASE UNCHANGED noticeVars
    BY <1>1 DEF NoticeInv, noticeVars, HoldsQueued, LeftSoFar, BeingRecorded, Kind
  <1>2. ASSUME NEW e \in NoticeEvents, Notify(e) PROVE NoticeInv'
    BY <1>2, QueueKeeps DEF Notify, NoticeInv
  <1>3. ASSUME NEW e \in NoticeEvents, ExtendDeadline(e) PROVE NoticeInv'
    <2>1. reminder'.window = reminder.window + 1 /\ reminder.window + 1 \in Nat
      BY <1>3 DEF ExtendDeadline, NoticeInv
    <2> QED
      BY <1>3, <2>1, QueueKeeps DEF ExtendDeadline
  <1>4. CASE Remind
    <2>1. reminder.window \in Nat /\ reminder' = [reminder EXCEPT !.sent = TRUE]
      BY <1>4 DEF Remind, NoticeInv
    <2>2. reminder'.window = reminder.window
      BY <2>1
    <2> QED
      BY <1>4, <2>1, <2>2, QueueKeeps DEF Remind
  <1> QED
    BY <1>1, <1>2, <1>3, <1>4, StartDispatchKeeps, TakeRowKeeps, SendKeeps, RecordKeeps, KillKeeps
    DEF NoticeNext

LEMMA NoticeStarts == NoticeInit => NoticeInv
  <1> SUFFICES ASSUME NoticeInit PROVE NoticeInv
    OBVIOUS
  <1>1. notices = <<>> /\ notices \in Seq(NoticeRow) /\ Len(notices) = 0 /\ DOMAIN notices = {}
    BY EmptySeq DEF NoticeInit
  <1>2. dispatcher \in [Dispatchers -> DispatchWorker]
        /\ \A d \in Dispatchers : ~Holds(dispatcher[d]) /\ dispatcher[d].row = NoRow
    BY DEF NoticeInit, Off, DispatchWorker, NoRow, Holds
  <1>3. \A d \in Dispatchers : HoldsQueued(dispatcher[d])
    BY <1>2 DEF HoldsQueued
  <1> QED
    BY <1>1, <1>2, <1>3, NoticeAssumption DEF NoticeInit, NoticeInv

\* For any events, notifications, workers and workers killed: an email is handed
\* over once at most, any other message once more at most for every worker that
\* died, and what the log calls Sent was handed over (HandedOverOnce).
THEOREM HandedOverOnceAlways == NoticeSpec => []HandedOverOnce
  <1>1. NoticeInv => HandedOverOnce
    <2> SUFFICES ASSUME NoticeInv, NEW i \in DOMAIN notices
                 PROVE  /\ handed[i] <= 1 + (IF Kind(i) = "email" THEN 0 ELSE sendFaults)
                        /\ notices[i].status = "Sent" => handed[i] >= 1
      BY DEF HandedOverOnce
    <2>1. LeftSoFar(i) /\ sendFaults \in Nat
      BY DEF NoticeInv
    <2> QED
      BY <2>1 DEF LeftSoFar
  <1> QED
    BY <1>1, NoticeStarts, NoticeKept, PTL DEF NoticeSpec

\* Everything else the dispatchers share keeps its type, and the log its promise.
NoticeTyping ==
  /\ NoticeInv /\ ToldOnce
  /\ reminder \in [sent : BOOLEAN, window : 1..MaxWindows]
  /\ \A i \in DOMAIN notices : notices[i].window \in 1..MaxWindows
  /\ sendJobs \in Nat /\ sendFaults \in 0..MaxSendFaults

\* A row is appended on a channel that was not told yet.
LEMMA QueueTells ==
  ASSUME NoticeTyping, NEW event \in NoticeEvents \cup {ReminderEvent},
         NEW window \in 1..MaxWindows, Queue(event, window)
  PROVE  /\ ToldOnce' /\ \A i \in DOMAIN notices' : notices'[i].window \in 1..MaxWindows
         /\ sendJobs' \in Nat
  <1>0. NoticeInv /\ window \in Nat /\ sendJobs \in Nat
    BY NoticeAssumption DEF NoticeTyping
  <1>1. PICK rows \in Seq(NoticeRow) : Appends(rows, event, window)
    BY <1>0, QueuedRows
  <1>2. /\ Len(notices) \in Nat /\ Len(rows) \in Nat /\ DOMAIN notices = 1..Len(notices)
        /\ DOMAIN notices' = 1..Len(notices) + Len(rows)
        /\ \A i \in 1..Len(notices) + Len(rows) :
             notices'[i] = IF i <= Len(notices) THEN notices[i] ELSE rows[i - Len(notices)]
    <2>1. notices \in Seq(NoticeRow)
      BY <1>0 DEF NoticeInv
    <2>2. notices' \in Seq(NoticeRow) /\ Len(notices') = Len(notices) + Len(rows)
      BY <1>1, <2>1, ConcatProperties DEF Appends
    <2> QED
      BY <1>1, <2>1, <2>2, ConcatProperties, LenProperties DEF Appends
  <1>3. \A i \in DOMAIN notices' :
          \/ i \in DOMAIN notices /\ notices'[i] = notices[i]
          \/ /\ i \notin DOMAIN notices /\ i - Len(notices) \in 1..Len(rows)
             /\ notices'[i] = rows[i - Len(notices)]
    BY <1>2
  <1>4. \A i \in DOMAIN notices : notices[i].event = event /\ event \notin Repeatable =>
          \A j \in 1..Len(rows) : notices[i].channel # rows[j].channel
    BY <1>1 DEF Appends, AlreadyQueued
  <1>5. ToldOnce'
    <2> SUFFICES ASSUME NEW i \in DOMAIN notices', NEW j \in DOMAIN notices',
                        notices'[i].event = notices'[j].event,
                        notices'[i].channel = notices'[j].channel,
                        notices'[i].event \notin Repeatable
                 PROVE  i = j
      BY DEF ToldOnce
    <2>1. CASE i \in DOMAIN notices /\ j \in DOMAIN notices
      BY <1>3, <2>1 DEF NoticeTyping, ToldOnce
    <2>2. CASE i \notin DOMAIN notices /\ j \notin DOMAIN notices
      <3>0. /\ i - Len(notices) \in 1..Len(rows) /\ notices'[i] = rows[i - Len(notices)]
            /\ j - Len(notices) \in 1..Len(rows) /\ notices'[j] = rows[j - Len(notices)]
        BY <1>3, <2>2
      <3>1. i - Len(notices) = j - Len(notices)
        BY <1>1, <3>0 DEF Appends
      <3> QED
        BY <1>2, <3>1
    <2>3. CASE i \in DOMAIN notices /\ j \notin DOMAIN notices
      BY <1>1, <1>3, <1>4, <2>3 DEF Appends
    <2>4. CASE i \notin DOMAIN notices /\ j \in DOMAIN notices
      BY <1>1, <1>3, <1>4, <2>4 DEF Appends
    <2> QED
      BY <2>1, <2>2, <2>3, <2>4
  <1>6. \A i \in DOMAIN notices' : notices'[i].window \in 1..MaxWindows
    BY <1>1, <1>3 DEF Appends, NoticeTyping
  <1> QED
    BY <1>0, <1>1, <1>5, <1>6 DEF Appends

LEMMA NoticeTypingStep ==
  ASSUME NoticeTyping, [NoticeNext]_noticeVars
  PROVE  NoticeTyping'
  <1>0. NoticeInv /\ NoticeInv' /\ reminder \in [sent : BOOLEAN, window : 1..MaxWindows]
    BY NoticeKept DEF NoticeTyping
  <1>1. ASSUME UNCHANGED notices, sendJobs' \in Nat, UNCHANGED reminder,
               sendFaults' \in 0..MaxSendFaults
        PROVE  NoticeTyping'
    BY <1>0, <1>1 DEF NoticeTyping, ToldOnce
  <1>2. CASE UNCHANGED noticeVars
    BY <1>1, <1>2 DEF noticeVars, NoticeTyping
  <1>3. ASSUME NEW e \in NoticeEvents, Notify(e) PROVE NoticeTyping'
    <2>1. Queue(e, reminder.window) /\ UNCHANGED <<reminder, sendFaults>>
      BY <1>3 DEF Notify
    <2>2. reminder.window \in 1..MaxWindows
      BY <1>0
    <2> QED
      BY <1>0, <2>1, <2>2, QueueTells DEF NoticeTyping
  <1>4. ASSUME NEW e \in NoticeEvents, ExtendDeadline(e) PROVE NoticeTyping'
    <2>1. /\ Queue(e, reminder.window + 1) /\ UNCHANGED sendFaults
          /\ reminder' = [sent |-> FALSE, window |-> reminder.window + 1]
          /\ reminder.window < MaxWindows
      BY <1>4 DEF ExtendDeadline
    <2>2. reminder.window + 1 \in 1..MaxWindows
      BY <1>0, <2>1, NoticeAssumption
    <2>3. reminder' \in [sent : BOOLEAN, window : 1..MaxWindows]
      BY <2>1, <2>2
    <2> QED
      BY <1>0, <2>1, <2>2, <2>3, QueueTells DEF NoticeTyping
  <1>5. CASE Remind
    <2>1. /\ Queue(ReminderEvent, reminder.window) /\ UNCHANGED sendFaults
          /\ reminder' = [reminder EXCEPT !.sent = TRUE]
      BY <1>5 DEF Remind
    <2>2. reminder.window \in 1..MaxWindows
          /\ reminder' \in [sent : BOOLEAN, window : 1..MaxWindows]
      BY <1>0, <2>1
    <2> QED
      BY <1>0, <2>1, <2>2, QueueTells DEF NoticeTyping
  <1>6. ASSUME NEW d \in Dispatchers, StartDispatch(d) PROVE NoticeTyping'
    <2>1. sendJobs' \in Nat
      <3>1. CASE sendJobs > 0 /\ sendJobs' = sendJobs - 1
        BY <3>1 DEF NoticeTyping
      <3>2. CASE UNCHANGED sendJobs
        BY <3>2 DEF NoticeTyping
      <3> QED
        BY <1>6, <3>1, <3>2, Zenon DEF StartDispatch
    <2> QED
      BY <1>1, <1>6, <2>1 DEF StartDispatch, NoticeTyping
  <1>7. ASSUME NEW d \in Dispatchers, TakeRow(d) \/ Send(d) PROVE NoticeTyping'
    <2>1. UNCHANGED <<notices, sendJobs, reminder, sendFaults>>
      BY <1>7, Zenon DEF TakeRow, Send
    <2> QED
      BY <1>1, <2>1 DEF NoticeTyping
  <1>8. ASSUME NEW d \in Dispatchers, KillDispatcher(d) PROVE NoticeTyping'
    <2>1. /\ UNCHANGED <<notices, sendJobs, reminder>> /\ sendFaults < MaxSendFaults
          /\ sendFaults' = sendFaults + 1
      BY <1>8, Zenon DEF KillDispatcher
    <2>2. sendFaults' \in 0..MaxSendFaults
      BY <2>1, NoticeAssumption DEF NoticeTyping
    <2> QED
      BY <1>1, <2>1, <2>2 DEF NoticeTyping
  <1>9. ASSUME NEW d \in Dispatchers, Record(d) PROVE NoticeTyping'
    <2> DEFINE i == dispatcher[d].row
               how == Outcome(dispatcher[d].ok)
    <2>1. /\ notices' = [notices EXCEPT ![i].status = how]
          /\ UNCHANGED <<sendJobs, reminder, sendFaults>>
      BY <1>9, Zenon DEF Record
    <2> HIDE DEF i, how
    <2>2. notices \in [DOMAIN notices -> NoticeRow]
      BY <1>0, LenProperties DEF NoticeInv
    <2>3. /\ DOMAIN notices' = DOMAIN notices
          /\ \A j \in DOMAIN notices :
               /\ notices'[j].event = notices[j].event
               /\ notices'[j].channel = notices[j].channel
               /\ notices'[j].window = notices[j].window
      BY <2>1, <2>2 DEF NoticeRow
    <2> QED
      BY <1>0, <2>1, <2>3 DEF NoticeTyping, ToldOnce
  <1> QED
    BY <1>2, <1>3, <1>4, <1>5, <1>6, <1>7, <1>8, <1>9 DEF NoticeNext

LEMMA NoticeTypingStart == NoticeInit => NoticeTyping
  <1> SUFFICES ASSUME NoticeInit PROVE NoticeTyping
    OBVIOUS
  <1>1. DOMAIN notices = {}
    BY DEF NoticeInit
  <1>2. reminder \in [sent : BOOLEAN, window : 1..MaxWindows]
    BY NoticeAssumption DEF NoticeInit
  <1> QED
    BY <1>1, <1>2, NoticeStarts, NoticeAssumption DEF NoticeInit, NoticeTyping, ToldOnce

LEMMA NoticeIsTyped == NoticeTyping => NoticeTypeOK
  <1> SUFFICES ASSUME NoticeTyping PROVE NoticeTypeOK
    OBVIOUS
  <1>1. notices \in Seq(NoticeRow) /\ Len(notices) <= MaxNotices
        /\ DOMAIN notices = 1..Len(notices)
    BY LenProperties DEF NoticeTyping, NoticeInv
  <1>2. notices \in Seq(Notice)
    <2>1. ASSUME NEW i \in 1..Len(notices) PROVE notices[i] \in Notice
      <3>1. notices[i] \in NoticeRow /\ notices[i].window \in 1..MaxWindows
        BY <1>1 DEF NoticeTyping
      <3> QED
        BY <3>1 DEF NoticeRow, Notice
    <2> QED
      BY <1>1, <2>1
  <1>3. \A d \in Dispatchers :
          dispatcher[d] \in [pc : {"idle", "taking", "sending", "recording"},
                             row : 0..MaxNotices, ok : BOOLEAN, sweep : BOOLEAN]
    BY <1>1, NoticeAssumption
    DEF NoticeTyping, NoticeInv, DispatchWorker, HoldsQueued, Holds, NoRow
  <1> QED
    BY <1>1, <1>2, <1>3 DEF NoticeTyping, NoticeInv, NoticeTypeOK

\* For any events, channels and workers: rows, jobs and workers keep their types,
\* and a citizen is not messaged twice about one event on one channel, whatever
\* rounds the case goes through (ToldOnce, _already_queued).
THEOREM ToldOnceAlways == NoticeSpec => []NoticeTypeOK /\ []ToldOnce
  <1>1. NoticeTyping => NoticeTypeOK /\ ToldOnce
    BY NoticeIsTyped DEF NoticeTyping
  <1> QED
    BY <1>1, NoticeTypingStart, NoticeTypingStep, PTL DEF NoticeSpec

-----------------------------------------------------------------------------
(***************************************************************************)
(* Routing.  Telling the officer goes with the move to Assigned, and no    *)
(* case comes back to Submitted.  The job and the drain read the state     *)
(* again before they move a case, so it is enough that a case in Submitted *)
(* has told nobody yet, as committed and as the drain wrote it.            *)
(***************************************************************************)
ToldWithMove(row) ==
  row.told <= 1 /\ (row.state \in {"Unfiled", "Submitted"} => row.told = 0)

RoutingInv ==
  /\ routed \in [RouteCases -> CaseRow]
  /\ routeJob \in [RouteCases -> {"none", "queued", "loaded", "outrun"}]
  /\ snapshots \in BOOLEAN /\ upsets \in 0..MaxUpsets
  /\ drain = [busy |-> drain.busy, todo |-> drain.todo, outrun |-> drain.outrun,
              wrote |-> drain.wrote]
  /\ drain.todo \subseteq RouteCases /\ drain.outrun \subseteq RouteCases
  /\ DOMAIN drain.wrote \subseteq RouteCases \ drain.todo
  /\ \A c \in RouteCases : ToldWithMove(routed[c])
  /\ \A c \in DOMAIN drain.wrote : drain.wrote[c] \in CaseRow /\ ToldWithMove(drain.wrote[c])

\* An officer written on a row, and told if the row was Submitted.
LEMMA RoutesTold ==
  ASSUME NEW row \in CaseRow, ToldWithMove(row), NEW u \in RouteOfficers
  PROVE  Routes(row, u) \in CaseRow /\ ToldWithMove(Routes(row, u))
  <1>1. CASE row.state = "Submitted"
    <2>1. row.told = 0
      BY <1>1 DEF ToldWithMove
    <2>2. Routes(row, u) = [row EXCEPT !.officer = u, !.state = "Assigned", !.told = 1]
      BY <1>1, <2>1 DEF Routes
    <2>3. Routes(row, u) = [state |-> "Assigned", officer |-> u, told |-> 1]
      BY <2>2 DEF CaseRow
    <2> QED
      BY <2>3 DEF CaseRow, ToldWithMove
  <1>2. CASE row.state # "Submitted"
    <2>1. Routes(row, u) = [row EXCEPT !.officer = u]
      BY <1>2 DEF Routes
    <2> QED
      BY <2>1 DEF CaseRow, ToldWithMove
  <1> QED
    BY <1>1, <1>2

\* A step that leaves the drain alone, or only behind, and one row rewritten.
LEMMA RowRouted ==
  ASSUME RoutingInv, NEW c \in RouteCases, NEW row \in CaseRow, ToldWithMove(row),
         routed' = [routed EXCEPT ![c] = row], UNCHANGED snapshots,
         routeJob' \in [RouteCases -> {"none", "queued", "loaded", "outrun"}],
         upsets' \in 0..MaxUpsets, drain' = drain \/ drain' = Behind({c})
  PROVE  RoutingInv'
  <1>1. /\ routed' \in [RouteCases -> CaseRow]
        /\ \A d \in RouteCases : routed'[d] = IF d = c THEN row ELSE routed[d]
    BY DEF RoutingInv
  <1>2. /\ drain' = [busy |-> drain'.busy, todo |-> drain'.todo, outrun |-> drain'.outrun,
                     wrote |-> drain'.wrote]
        /\ drain'.todo = drain.todo /\ drain'.outrun \subseteq RouteCases
        /\ drain'.wrote = drain.wrote
    BY DEF Behind, RoutingInv
  <1> QED
    BY <1>1, <1>2 DEF RoutingInv

\* Filing, the job and what others do to one case.
LEMMA CasesKeep ==
  ASSUME RoutingInv, NEW c \in RouteCases, UNCHANGED upsets,
         FileCase(c) \/ LoadJob(c) \/ RunJob(c)
  PROVE  RoutingInv'
  <1>0. /\ routed[c] \in CaseRow /\ ToldWithMove(routed[c]) /\ routed = [routed EXCEPT ![c] = @]
        /\ upsets' \in 0..MaxUpsets
    BY DEF RoutingInv
  <1>1. CASE FileCase(c)
    <2> DEFINE row == [routed[c] EXCEPT !.state = "Submitted"]
    <2>1. row \in CaseRow /\ ToldWithMove(row)
      BY <1>0, <1>1 DEF FileCase, CaseRow, ToldWithMove
    <2>2. /\ routed' = [routed EXCEPT ![c] = row] /\ UNCHANGED <<drain, snapshots>>
          /\ routeJob' \in [RouteCases -> {"none", "queued", "loaded", "outrun"}]
      BY <1>1 DEF FileCase, RoutingInv
    <2> HIDE DEF row
    <2> QED
      BY <1>0, <2>1, <2>2, RowRouted
  <1>2. CASE LoadJob(c)
    <2>1. /\ UNCHANGED <<routed, drain, snapshots>>
          /\ routeJob' \in [RouteCases -> {"none", "queued", "loaded", "outrun"}]
      BY <1>2 DEF LoadJob, RoutingInv
    <2> QED
      BY <1>0, <2>1, RowRouted
  <1>3. CASE RunJob(c)
    <2>1. /\ routeJob' \in [RouteCases -> {"none", "queued", "loaded", "outrun"}]
          /\ UNCHANGED snapshots
      BY <1>3 DEF RunJob, RoutingInv
    <2>2. \/ UNCHANGED <<routed, drain>>
          \/ /\ \E u \in RouteOfficers : routed' = [routed EXCEPT ![c] = Routes(routed[c], u)]
             /\ drain' = Behind({c})
      BY <1>3 DEF RunJob
    <2> QED
      BY <1>0, <2>1, <2>2, RowRouted, RoutesTold
  <1> QED
    BY <1>1, <1>2, <1>3

LEMMA OtherSaveKeeps ==
  ASSUME RoutingInv, NEW c \in RouteCases, OtherSave(c), UNCHANGED snapshots,
         upsets' \in 0..MaxUpsets
  PROVE  RoutingInv'
  <1>1. /\ routed[c] \in CaseRow /\ ToldWithMove(routed[c]) /\ routed = [routed EXCEPT ![c] = @]
        /\ drain' = Behind({c})
        /\ routeJob' \in [RouteCases -> {"none", "queued", "loaded", "outrun"}]
    BY DEF RoutingInv, OtherSave, OutrunJobs
  <1>2. CASE UNCHANGED routed
    BY <1>1, <1>2, RowRouted
  <1>3. CASE routed[c].state = "Submitted" /\ routed' = [routed EXCEPT ![c].state = "Elsewhere"]
    <2> DEFINE row == [routed[c] EXCEPT !.state = "Elsewhere"]
    <2>1. row \in CaseRow /\ ToldWithMove(row) /\ routed' = [routed EXCEPT ![c] = row]
      BY <1>1, <1>3 DEF CaseRow, ToldWithMove
    <2> HIDE DEF row
    <2> QED
      BY <1>1, <2>1, RowRouted
  <1>4. ASSUME NEW u \in RouteOfficers, routed' = [routed EXCEPT ![c].officer = u]
        PROVE  RoutingInv'
    <2> DEFINE row == [routed[c] EXCEPT !.officer = u]
    <2>1. row \in CaseRow /\ ToldWithMove(row) /\ routed' = [routed EXCEPT ![c] = row]
      BY <1>1, <1>4 DEF CaseRow, ToldWithMove
    <2> HIDE DEF row
    <2> QED
      BY <1>1, <2>1, RowRouted
  <1> QED
    BY <1>2, <1>3, <1>4 DEF OtherSave

\* The drain: it takes the names it found, writes what it routes and commits.
LEMMA DrainKeeps ==
  ASSUME RoutingInv, UNCHANGED upsets,
         StartDrain \/ CommitDrain \/ \E c \in RouteCases : DrainCase(c)
  PROVE  RoutingInv'
  <1>1. /\ DOMAIN IdleDrain.wrote = {} /\ IdleDrain.todo = {} /\ IdleDrain.outrun = {}
        /\ IdleDrain = [busy |-> FALSE, todo |-> {}, outrun |-> {}, wrote |-> Empty]
    BY DEF IdleDrain, Empty
  <1>2. CASE StartDrain
    <2>1. /\ drain' = [busy |-> TRUE, todo |-> {c \in RouteCases : Unassigned(routed[c])},
                       outrun |-> {}, wrote |-> Empty]
          /\ UNCHANGED <<routed, routeJob, snapshots>> /\ DOMAIN Empty = {}
      BY <1>2 DEF StartDrain, IdleDrain, Empty
    <2> QED
      BY <2>1 DEF RoutingInv
  <1>3. CASE CommitDrain
    <2>1. \A c \in RouteCases :
            routed'[c] = IF c \notin DOMAIN drain.wrote THEN routed[c] ELSE drain.wrote[c]
      BY <1>3 DEF CommitDrain, Free
    <2>2. routed' \in [RouteCases -> CaseRow] /\ \A c \in RouteCases : ToldWithMove(routed'[c])
      BY <1>3, <2>1 DEF CommitDrain, Free, RoutingInv
    <2>3. routeJob' \in [RouteCases -> {"none", "queued", "loaded", "outrun"}]
      BY <1>3 DEF CommitDrain, OutrunJobs, RoutingInv
    <2>4. drain' = IdleDrain /\ UNCHANGED <<snapshots, upsets>>
      BY <1>3 DEF CommitDrain
    <2> QED
      BY <1>1, <2>2, <2>3, <2>4 DEF RoutingInv
  <1>4. ASSUME NEW c \in RouteCases, DrainCase(c) PROVE RoutingInv'
    <2>1. c \in drain.todo /\ UNCHANGED <<routed, routeJob, snapshots>>
      BY <1>4, Zenon DEF DrainCase
    <2>2. CASE drain' = [drain EXCEPT !.todo = @ \ {c}, !.outrun = {}, !.wrote = Empty]
      <3>1. /\ drain' = [busy |-> drain.busy, todo |-> drain.todo \ {c}, outrun |-> {},
                         wrote |-> Empty]
            /\ DOMAIN Empty = {}
        BY <2>2 DEF RoutingInv, Empty
      <3> QED
        BY <2>1, <3>1 DEF RoutingInv
    <2>3. ASSUME NEW u \in RouteOfficers, NEW wrote,
                 wrote = [d \in DOMAIN drain.wrote \cup {c} |->
                            IF d = c THEN Routes(routed[c], u) ELSE drain.wrote[d]],
                 drain' = [drain EXCEPT !.todo = @ \ {c}, !.wrote = wrote]
          PROVE  RoutingInv'
      <3>1. drain' = [busy |-> drain.busy, todo |-> drain.todo \ {c}, outrun |-> drain.outrun,
                      wrote |-> wrote]
        BY <2>3 DEF RoutingInv
      <3>2. DOMAIN wrote \subseteq RouteCases \ (drain.todo \ {c})
        BY <2>3 DEF RoutingInv
      <3>3. \A d \in DOMAIN wrote : wrote[d] \in CaseRow /\ ToldWithMove(wrote[d])
        BY <2>3, RoutesTold DEF RoutingInv
      <3> QED
        BY <2>1, <3>1, <3>2, <3>3 DEF RoutingInv
    <2>4. ~(c \in drain.outrun /\ snapshots) =>
            \E u \in RouteOfficers :
              drain' = [drain EXCEPT !.todo = @ \ {c}, !.wrote =
                          [d \in DOMAIN drain.wrote \cup {c} |->
                             IF d = c THEN Routes(routed[c], u) ELSE drain.wrote[d]]]
      BY <1>4, Zenon DEF DrainCase
    <2>5. c \in drain.outrun /\ snapshots =>
            drain' = [drain EXCEPT !.todo = @ \ {c}, !.outrun = {}, !.wrote = Empty]
      BY <1>4, Zenon DEF DrainCase
    <2>6. CASE c \in drain.outrun /\ snapshots
      BY <2>2, <2>5, <2>6
    <2>7. CASE ~(c \in drain.outrun /\ snapshots)
      <3>1. PICK u \in RouteOfficers :
              drain' = [drain EXCEPT !.todo = @ \ {c}, !.wrote =
                          [d \in DOMAIN drain.wrote \cup {c} |->
                             IF d = c THEN Routes(routed[c], u) ELSE drain.wrote[d]]]
        BY <2>4, <2>7, Zenon
      <3>2. PICK wrote : wrote = [d \in DOMAIN drain.wrote \cup {c} |->
                                    IF d = c THEN Routes(routed[c], u) ELSE drain.wrote[d]]
        BY Zenon
      <3>3. drain' = [drain EXCEPT !.todo = @ \ {c}, !.wrote = wrote]
        BY <3>1, <3>2, Zenon
      <3> QED
        BY <2>3, <3>2, <3>3, Zenon
    <2> QED
      BY <2>6, <2>7, Zenon
  <1> QED
    BY <1>2, <1>3, <1>4

LEMMA RoutingStep ==
  ASSUME RoutingInv, [RoutingNext]_routingVars
  PROVE  RoutingInv'
  <1>1. CASE UNCHANGED routingVars
    BY <1>1 DEF RoutingInv, routingVars
  <1>2. ASSUME NEW c \in RouteCases, FileCase(c) \/ LoadJob(c) \/ RunJob(c) PROVE RoutingInv'
    <2>1. UNCHANGED upsets
      BY <1>2 DEF FileCase, LoadJob, RunJob
    <2> QED
      BY <1>2, <2>1, CasesKeep
  <1>3. CASE StartDrain \/ CommitDrain \/ \E c \in RouteCases : DrainCase(c)
    <2>1. UNCHANGED upsets
      BY <1>3, Zenon DEF StartDrain, CommitDrain, DrainCase
    <2> QED
      BY <1>3, <2>1, DrainKeeps
  <1>4. CASE Upset
    <2>1. upsets' \in 0..MaxUpsets /\ UNCHANGED snapshots
      BY <1>4, RoutingAssumption DEF Upset, RoutingInv
    <2>2. CASE KillWorker
      <3>1. /\ UNCHANGED routed /\ drain' \in {drain, IdleDrain}
            /\ routeJob' \in [RouteCases -> {"none", "queued", "loaded", "outrun"}]
        BY <2>2 DEF KillWorker, RoutingInv
      <3>2. /\ IdleDrain = [busy |-> FALSE, todo |-> {}, outrun |-> {}, wrote |-> Empty]
            /\ DOMAIN Empty = {}
        BY DEF IdleDrain, Empty
      <3> QED
        BY <2>1, <3>1, <3>2 DEF RoutingInv
    <2>3. ASSUME NEW c \in RouteCases, OtherSave(c) PROVE RoutingInv'
      BY <2>1, <2>3, OtherSaveKeeps
    <2> QED
      BY <1>4, <2>2, <2>3 DEF Upset
  <1> QED
    BY <1>1, <1>2, <1>3, <1>4 DEF RoutingNext

LEMMA RoutingStart == RoutingInit => RoutingInv
  <1> SUFFICES ASSUME RoutingInit PROVE RoutingInv
    OBVIOUS
  <1>1. /\ drain = [busy |-> FALSE, todo |-> {}, outrun |-> {}, wrote |-> Empty]
        /\ DOMAIN Empty = {}
    BY DEF RoutingInit, IdleDrain, Empty
  <1>2. \A c \in RouteCases : routed[c] \in CaseRow /\ ToldWithMove(routed[c])
    BY DEF RoutingInit, CaseRow, ToldWithMove
  <1>3. routed \in [RouteCases -> CaseRow]
    BY DEF RoutingInit, CaseRow
  <1> QED
    BY <1>1, <1>2, <1>3, RoutingAssumption DEF RoutingInit, RoutingInv

LEMMA RoutingHolds == RoutingInv => RoutingTypeOK /\ AnnouncedOnce
  BY DEF RoutingInv, RoutingTypeOK, AnnouncedOnce, ToldWithMove

\* For any cases and officers, however the job, the drain, the saves of others
\* and killed workers overlap and whichever database it is: a case is assigned
\* once and its officer told once (AnnouncedOnce).
THEOREM AnnouncedOnceAlways == RoutingSpec => []RoutingTypeOK /\ []AnnouncedOnce
  BY RoutingStart, RoutingStep, RoutingHolds, PTL DEF RoutingSpec
==============================================================================
