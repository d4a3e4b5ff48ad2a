------------------------------ MODULE MCServices ------------------------------
(***************************************************************************)
(* The components that share no state with one another, model-checked side *)
(* by side: a behaviour picks one of Parts at the start and is a behaviour *)
(* of that component, while all the others rest.                           *)
(***************************************************************************)
EXTENDS TLC, AttachmentScan, NotificationQueue, ChartScope, CaseRouting,
        DuplicateRuling, TicketIntake

CONSTANTS
  Parts,                  \* the components checked by the run
  h, s, n, t,             \* the officers
  X, Y, Z, A, U,          \* categories; a department, and the triage department
  North, South, Plain     \* areas

VARIABLE part

servicesVars ==
  <<part, scanVars, noticeVars, authorityVars, routingVars, duplicateVars, intakeVars>>

-----------------------------------------------------------------------------
(***************************************************************************)
(* Attachments and notices.                                                *)
(***************************************************************************)
MCChecksum == [a \in Attachments |-> "bytes"]

MCChannels == "Email" :> "email" @@ "SMS" :> "text"

MCNotifications ==
  {[event |-> "resolved", channel |-> "Email"], [event |-> "resolved", channel |-> "SMS"],
   [event |-> "sla_reminder_50", channel |-> "Email"],
   [event |-> "deadline_extended", channel |-> "SMS"]}

-----------------------------------------------------------------------------
(***************************************************************************)
(* Desks: h heads the desks of X, where n works under s; s also has those  *)
(* of Y; t, on leave, is the only one on the triage desk.  Z has no desk   *)
(* yet, and no desk serves the whole department.                           *)
(***************************************************************************)
MCOfficers == {h, s, n, t}
MCDesks == <<"AX", "AY", "AZ", "A0", "UX">>
MCTwoDesks == <<"AX", "UX">>

MCScope ==
  "AX" :> [department |-> A, category |-> X] @@ "AY" :> [department |-> A, category |-> Y] @@
  "AZ" :> [department |-> A, category |-> Z] @@ "A0" :> [department |-> A, category |-> Nothing] @@
  "UX" :> [department |-> U, category |-> X]

\* Two regions, and a woreda in one of them.
MCAreaBounds ==
  North :> [lft |-> 1, rgt |-> 2] @@ South :> [lft |-> 3, rgt |-> 6] @@
  Plain :> [lft |-> 4, rgt |-> 5]
MCLevelOf == North :> "region" @@ South :> "region" @@ Plain :> "woreda"

MCInitialDesks == {"AX", "AY", "UX"}

MCSeat(level, area, boss) ==
  [level |-> level, area |-> area, reportsTo |-> boss, active |-> TRUE, leave |-> FALSE,
   primary |-> level = "L1"]

MCInitialSeats ==
  LET empty == [u \in MCOfficers |-> NoSeat] IN
  [d \in DeskSet |->
     CASE d = "AX" -> n :> MCSeat("L1", South, s) @@ s :> MCSeat("L2", North, Nothing)
                        @@ h :> MCSeat("L3", Nothing, Nothing) @@ empty
       [] d = "AY" -> s :> MCSeat("L2", North, Nothing) @@ empty
       [] d = "UX" -> t :> [MCSeat("L1", Nothing, Nothing) EXCEPT !.leave = TRUE] @@ empty
       [] OTHER -> empty]

MCHires ==
  {[level |-> "L1", desks |-> {"AX"}, area |-> South, boss |-> b, status |-> "Active"] :
     b \in {Nothing, s}}
  \cup {[level |-> l, desks |-> {"AX", "AY"}, area |-> Nothing, boss |-> Nothing,
         status |-> "Active"] : l \in {"L3", "Reviewer"}}

MCChanges ==
  {[status |-> x] : x \in {"On Leave", "Inactive"}}
  \cup {[level |-> l] : l \in {"L1", "L3"}}
  \cup {[boss |-> h], [area |-> Plain], [department |-> U]}
  \cup {[desks |-> {d}] : d \in {"AY", "A0"}}

\* Enough to move the ladder under a request.
MCLadderChanges == {[status |-> "Inactive"], [level |-> "L1"], [boss |-> h]}

MCSeatEdits ==
  {[l1 |-> t, l2 |-> Keep, active |-> Keep], [l1 |-> Keep, l2 |-> Nothing, active |-> Keep]}
  \cup {[l1 |-> Keep, l2 |-> Keep, active |-> x] : x \in {"on", "off"}}
  \cup {[l1 |-> t, l2 |-> s, active |-> "on"]}

\* A case from the IVR may have no area.
MCFiledCases ==
  {[category |-> X, area |-> Plain], [category |-> Y, area |-> South],
   [category |-> X, area |-> Nothing]}
MCFiledCase == {[category |-> X, area |-> Plain]}

-----------------------------------------------------------------------------
(***************************************************************************)
(* Tickets: three that look alike; and one call delivered twice, a second  *)
(* call of the same person, and one portal submission sent twice.          *)
(***************************************************************************)
MCSimilar == {<<2, 1>>, <<3, 1>>, <<3, 2>>}

MCCall(channel, key, described, confirmed) ==
  [channel |-> channel, key |-> key, person |-> "caller", series |-> "region",
   described |-> described, confirmed |-> confirmed]

MCDeliveries ==
  "call" :> MCCall("ivr", "k1", FALSE, FALSE) @@ "again" :> MCCall("ivr", "k1", FALSE, FALSE) @@
  "other" :> MCCall("ivr", "k2", TRUE, FALSE) @@ "form" :> MCCall("portal", "k3", TRUE, FALSE) @@
  "sure" :> MCCall("portal", "k3", TRUE, TRUE)

-----------------------------------------------------------------------------
\* What does not matter to the component picked has one initial value.
ServicesInit ==
  /\ part \in Parts
  /\ ScanInit /\ NoticeInit /\ AuthorityInit /\ RoutingInit /\ DuplicateInit /\ IntakeInit
  /\ part = "routing" \/ ~snapshots
  /\ part = "intake" \/ ~strict
  /\ part = "scan" \/ clamd

Rest(except) ==
  /\ part = except /\ UNCHANGED part
  /\ IF except = "scan" THEN TRUE ELSE UNCHANGED scanVars
  /\ IF except = "notices" THEN TRUE ELSE UNCHANGED noticeVars
  /\ IF except = "authority" THEN TRUE ELSE UNCHANGED authorityVars
  /\ IF except = "routing" THEN TRUE ELSE UNCHANGED routingVars
  /\ IF except = "duplicates" THEN TRUE ELSE UNCHANGED duplicateVars
  /\ IF except = "intake" THEN TRUE ELSE UNCHANGED intakeVars

ServicesNext ==
  \/ Rest("scan") /\ ScanNext
  \/ Rest("notices") /\ NoticeNext
  \/ Rest("authority") /\ AuthorityNext
  \/ Rest("routing") /\ RoutingNext
  \/ Rest("duplicates") /\ DuplicateNext
  \/ Rest("intake") /\ IntakeNext

ServicesSpec == ServicesInit /\ [][ServicesNext]_servicesVars

\* Each component under the fairness of its own module.
ServicesFairness ==
  ScanFairness /\ NoticeFairness /\ AuthorityFairness /\ RoutingFairness

FairServicesSpec == ServicesSpec /\ ServicesFairness

ServicesSymmetry == Permutations(Attachments) \cup Permutations(Scanners)

-----------------------------------------------------------------------------
\* Every variable of the component picked keeps its type: rows, workers, desks,
\* requests, rulings, counters and the answers given.
ServicesTypeOK ==
  /\ part = "scan" => ScanTypeOK
  /\ part = "notices" => NoticeTypeOK
  /\ part = "authority" => AuthorityTypeOK
  /\ part = "routing" => RoutingTypeOK
  /\ part = "duplicates" => DuplicateTypeOK
  /\ part = "intake" => IntakeTypeOK
===============================================================================
