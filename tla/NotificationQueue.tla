------------------------- MODULE NotificationQueue -------------------------
(***************************************************************************)
(* services/notifications.py: what is told about one grievance, from the   *)
(* event to the hand-over of each message, and the SLA reminder whose      *)
(* flag opens again when the deadline moves.                               *)
(*                                                                         *)
(*   notices     the Grievance Notification Log, in order of creation      *)
(*   sendJobs    immediate dispatch jobs in the queue                      *)
(*   dispatcher  the workers inside dispatch_queued, and the row each holds*)
(*   handed      history: how often each message left the system           *)
(*   reminder    reminder flag, and the window (deadline) it belongs to    *)
(*   sendFaults  workers killed so far                                     *)
(*                                                                         *)
(* A row is locked from the moment it is taken until the commit after the  *)
(* send (FOR UPDATE SKIP LOCKED).  An email is handed over by a row of the *)
(* same transaction (Email Queue); a text or an in-app message leaves at   *)
(* once.  Events of one case are queued one transaction after the other,   *)
(* as each writes or locks the case.                                       *)
(***************************************************************************)
EXTENDS Naturals, Sequences, FiniteSets

CONSTANTS
  NoticeEvents,   \* events a transaction of the case may raise
  ReminderEvent,  \* the event of the reminder sweep
  Channels,       \* channel |-> its kind of hand-over: "email", "text", "inapp"
  Notifications,  \* the enabled records: {[event, channel]}
  Repeatable,     \* REPEATABLE_EVENTS
  Dispatchers,    \* workers of the notification queue
  MaxNotices,     \* bound: rows in the log
  MaxWindows,     \* bound: deadlines granted
  MaxSendFaults   \* bound: workers killed

ASSUME NoticeAssumption ==
  /\ IsFiniteSet(DOMAIN Channels) /\ \A n \in Notifications : n.channel \in DOMAIN Channels
  /\ MaxNotices \in Nat /\ MaxWindows \in Nat \ {0} /\ MaxSendFaults \in Nat

VARIABLES notices, sendJobs, dispatcher, handed, reminder, sendFaults

noticeVars == <<notices, sendJobs, dispatcher, handed, reminder, sendFaults>>

Notice ==
  [event : NoticeEvents \cup {ReminderEvent}, channel : DOMAIN Channels,
   status : {"Queued", "Sent", "Failed"}, window : 1..MaxWindows]

NoRow == 0

NoticeTypeOK ==
  /\ notices \in Seq(Notice) /\ Len(notices) <= MaxNotices
  /\ sendJobs \in Nat
  /\ dispatcher \in [Dispatchers -> [pc : {"idle", "taking", "sending", "recording"},
                                     row : 0..MaxNotices, ok : BOOLEAN, sweep : BOOLEAN]]
  /\ handed \in [1..MaxNotices -> Nat]
  /\ reminder \in [sent : BOOLEAN, window : 1..MaxWindows]
  /\ sendFaults \in 0..MaxSendFaults

Off == [pc |-> "idle", row |-> NoRow, ok |-> FALSE, sweep |-> FALSE]

NoticeInit ==
  /\ notices = <<>>
  /\ sendJobs = 0
  /\ dispatcher = [d \in Dispatchers |-> Off]
  /\ handed = [i \in 1..MaxNotices |-> 0]
  /\ reminder = [sent |-> FALSE, window |-> 1]
  /\ sendFaults = 0

-----------------------------------------------------------------------------
(***************************************************************************)
(* Queueing.                                                               *)
(***************************************************************************)

\* An event is told once per recipient and channel, whatever became of it.
AlreadyQueued(event, channel) ==
  /\ event \notin Repeatable
  /\ \E i \in DOMAIN notices : notices[i].event = event /\ notices[i].channel = channel

\* The channels on which an occurrence is still to be told.
Untold(event) ==
  {n.channel : n \in {m \in Notifications :
                        m.event = event /\ ~AlreadyQueued(event, m.channel)}}

\* The rows appended, in some order, one per channel.
RowsFor(event, window) ==
  {[i \in 1..Cardinality(Untold(event)) |->
      [event |-> event, channel |-> order[i], status |-> "Queued", window |-> window]] :
   order \in {f \in [1..Cardinality(Untold(event)) -> Untold(event)] :
                \A i, j \in DOMAIN f : f[i] = f[j] => i = j}}

\* queue: new rows ask for an immediate job; a job that cannot be queued is
\* logged and the rows wait for the sweep.
Queue(event, window) ==
  \E rows \in RowsFor(event, window) :
    /\ Len(notices) + Len(rows) <= MaxNotices
    /\ notices' = notices \o rows
    /\ sendJobs' \in IF rows = <<>> THEN {sendJobs} ELSE {sendJobs, sendJobs + 1}

Notify(event) ==
  /\ Queue(event, reminder.window)
  /\ UNCHANGED <<dispatcher, handed, reminder, sendFaults>>

\* send_sla_reminders: the flag goes up with the notice.
Remind ==
  /\ ~reminder.sent
  /\ Queue(ReminderEvent, reminder.window)
  /\ reminder' = [reminder EXCEPT !.sent = TRUE]
  /\ UNCHANGED <<dispatcher, handed, sendFaults>>

\* react_to_approved_change: a later deadline opens the reminder again.
ExtendDeadline(event) ==
  /\ event \in Repeatable
  /\ reminder.window < MaxWindows
  /\ reminder' = [sent |-> FALSE, window |-> reminder.window + 1]
  /\ Queue(event, reminder.window + 1)
  /\ UNCHANGED <<dispatcher, handed, sendFaults>>

-----------------------------------------------------------------------------
(***************************************************************************)
(* Dispatching.                                                            *)
(***************************************************************************)
Held == {dispatcher[d].row : d \in Dispatchers}

\* Mutant: rows another worker holds are not skipped.
Takeable_Held == {i \in DOMAIN notices : notices[i].status = "Queued"}

Takeable == {i \in DOMAIN notices : notices[i].status = "Queued" /\ i \notin Held}

\* Mutant: there is no sweep.
StartDispatch_JobsOnly(d) ==
  /\ dispatcher[d].pc = "idle"
  /\ sendJobs > 0 /\ sendJobs' = sendJobs - 1
  /\ dispatcher' = [dispatcher EXCEPT ![d] = [Off EXCEPT !.pc = "taking"]]
  /\ UNCHANGED <<notices, handed, reminder, sendFaults>>

StartDispatch(d) ==
  /\ dispatcher[d].pc = "idle"
  /\ \/ /\ sendJobs > 0 /\ sendJobs' = sendJobs - 1
        /\ dispatcher' = [dispatcher EXCEPT ![d] = [Off EXCEPT !.pc = "taking"]]
     \/ /\ Takeable # {} /\ \A e \in Dispatchers : ~dispatcher[e].sweep
        /\ dispatcher' = [dispatcher EXCEPT ![d] = [Off EXCEPT !.pc = "taking", !.sweep = TRUE]]
        /\ UNCHANGED sendJobs
  /\ UNCHANGED <<notices, handed, reminder, sendFaults>>

\* _next_queued_row: the oldest row nobody holds; none ends the job.
TakeRow(d) ==
  /\ dispatcher[d].pc = "taking"
  /\ dispatcher' = [dispatcher EXCEPT ![d] =
       IF Takeable = {} THEN Off
       ELSE [@ EXCEPT !.pc = "sending",
                      !.row = CHOOSE i \in Takeable : \A j \in Takeable : i <= j]]
  /\ UNCHANGED <<notices, sendJobs, handed, reminder, sendFaults>>

Kind(i) == Channels[notices[i].channel]

\* A text may leave and still count as failed: the gateway wrote no log.
Send(d) ==
  LET i == dispatcher[d].row
  IN  /\ dispatcher[d].pc = "sending"
      /\ \E ok \in BOOLEAN :
           /\ dispatcher' = [dispatcher EXCEPT ![d].pc = "recording", ![d].ok = ok]
           /\ IF Kind(i) = "email" THEN UNCHANGED handed
              ELSE \E left \in {ok, ok \/ Kind(i) = "text"} :
                     handed' = IF left THEN [handed EXCEPT ![i] = @ + 1] ELSE handed
      /\ UNCHANGED <<notices, sendJobs, reminder, sendFaults>>

Outcome(ok) == IF ok THEN "Sent" ELSE "Failed"

\* The commit after the send: status, and for an email its queue row.
Record(d) ==
  LET i == dispatcher[d].row
  IN  /\ dispatcher[d].pc = "recording"
      /\ notices' = [notices EXCEPT ![i].status = Outcome(dispatcher[d].ok)]
      /\ handed' = IF Kind(i) = "email" /\ dispatcher[d].ok
                   THEN [handed EXCEPT ![i] = @ + 1] ELSE handed
      /\ dispatcher' = [dispatcher EXCEPT ![d] =
                          [@ EXCEPT !.pc = "taking", !.row = NoRow, !.ok = FALSE]]
      /\ UNCHANGED <<sendJobs, reminder, sendFaults>>

\* A worker that dies loses its lock; what already left is not taken back.
KillDispatcher(d) ==
  /\ dispatcher[d].pc # "idle"
  /\ sendFaults < MaxSendFaults
  /\ sendFaults' = sendFaults + 1
  /\ dispatcher' = [dispatcher EXCEPT ![d] = Off]
  /\ UNCHANGED <<notices, sendJobs, handed, reminder>>

NoticeNext ==
  \/ \E e \in NoticeEvents : Notify(e) \/ ExtendDeadline(e)
  \/ Remind
  \/ \E d \in Dispatchers : StartDispatch(d) \/ TakeRow(d) \/ Send(d) \/ Record(d)
                              \/ KillDispatcher(d)

NoticeSpec == NoticeInit /\ [][NoticeNext]_noticeVars

\* The sweep is scheduled every five minutes and workers go on.
NoticeFairness ==
  /\ WF_noticeVars(\E d \in Dispatchers : StartDispatch(d))
  /\ \A d \in Dispatchers : WF_noticeVars(TakeRow(d) \/ Send(d) \/ Record(d))

-----------------------------------------------------------------------------
\* Whatever dispatchers cross or die, an email is handed over once at most and
\* any other message once more at most for every worker that died, and what
\* the log calls Sent has been handed over (_next_queued_row, the commit per
\* row, and the fail-closed sends).
HandedOverOnce ==
  \A i \in DOMAIN notices :
    /\ handed[i] <= 1 + (IF Kind(i) = "email" THEN 0 ELSE sendFaults)
    /\ notices[i].status = "Sent" => handed[i] >= 1

\* A citizen is not messaged twice about one event on one channel, whatever
\* rounds the case goes through (_already_queued).
ToldOnce ==
  \A i, j \in DOMAIN notices :
    /\ notices[i].event = notices[j].event /\ notices[i].channel = notices[j].channel
    /\ notices[i].event \notin Repeatable
    => i = j

\* Every notice is sent or marked failed in the end, though jobs are lost and
\* workers die holding rows (dispatch_queued as a sweep).
QueuedIsHandled ==
  \A i \in 1..MaxNotices :
    (i \in DOMAIN notices /\ notices[i].status = "Queued")
      ~> (i \in DOMAIN notices /\ notices[i].status # "Queued")
==============================================================================
