--------------------------- MODULE DuplicateRuling ---------------------------
(***************************************************************************)
(* services/duplicates.py: one submitter's tickets that look alike are     *)
(* flagged by a job after each filing, and officers rule on the flags:     *)
(* confirm one as the main ticket, or dismiss them all.                    *)
(*                                                                         *)
(*   dupTicket   state of each ticket and the main ticket it points to     *)
(*   reviews     rulings of the Grievance Duplicate rows of each pair      *)
(*   flagging    the flag job of each ticket, and the rows it will insert  *)
(*   ruling      the request each officer is inside: what it has read      *)
(*                                                                         *)
(* A request reads, then writes and commits; saving a row that was changed *)
(* since it was read is refused, and the request with it.                  *)
(***************************************************************************)
EXTENDS Naturals

CONSTANTS
  Tickets,   \* tickets of the submitter, numbered in the order of filing
  Similar,   \* the pairs <<later, earlier>> that score above the threshold
  Rulers,    \* officers at work
  NoMain     \* an empty duplicate_of

VARIABLES dupTicket, reviews, flagging, ruling

duplicateVars == <<dupTicket, reviews, flagging, ruling>>

Pairs == {p \in Tickets \X Tickets : p[1] # p[2]}
NoRequestYet == [kind |-> "none"]

DuplicateTypeOK ==
  /\ dupTicket \in [Tickets -> [state : {"Unfiled", "Open", "Closed", "Duplicate"},
                                main : Tickets \cup {NoMain}]]
  /\ reviews \in [Pairs -> SUBSET {"pending", "confirmed", "dismissed"}]
  /\ flagging \in [Tickets -> [at : {"none", "queued", "scored"}, found : SUBSET Tickets]]
  /\ \A o \in Rulers : ruling[o].kind \in {"none", "confirm", "dismiss"}

NoJob == [at |-> "none", found |-> {}]

DuplicateInit ==
  /\ dupTicket = [t \in Tickets |-> [state |-> "Unfiled", main |-> NoMain]]
  /\ reviews = [p \in Pairs |-> {}]
  /\ flagging = [t \in Tickets |-> NoJob]
  /\ ruling = [o \in Rulers |-> NoRequestYet]

PendingMains(t) == {m \in Tickets \ {t} : "pending" \in reviews[<<t, m>>]}

-----------------------------------------------------------------------------
\* Filing queues the flag job after the commit, if the queue can be reached.
FileTicket(t) ==
  /\ dupTicket[t].state = "Unfiled"
  /\ \A s \in Tickets : s < t => dupTicket[s].state # "Unfiled"
  /\ dupTicket' = [dupTicket EXCEPT ![t].state = "Open"]
  /\ \E job \in {"queued", "none"} : flagging' = [flagging EXCEPT ![t].at = job]
  /\ UNCHANGED <<reviews, ruling>>

\* matches_for: earlier tickets still open or resolved; a pair on record is
\* not recorded again.
ScoreTicket(t) ==
  /\ flagging[t].at = "queued"
  /\ flagging' = [flagging EXCEPT ![t] = [at |-> "scored", found |->
                    {m \in Tickets : /\ <<t, m>> \in Similar
                                     /\ dupTicket[m].state = "Open" /\ reviews[<<t, m>>] = {}}]]
  /\ UNCHANGED <<dupTicket, reviews, ruling>>

\* flag_without_failing: all rows, or none and a line in the error log.
FlagTicket(t) ==
  /\ flagging[t].at = "scored"
  /\ reviews' \in {reviews, [p \in Pairs |-> IF p[1] = t /\ p[2] \in flagging[t].found
                                             THEN reviews[p] \cup {"pending"} ELSE reviews[p]]}
  /\ flagging' = [flagging EXCEPT ![t] = NoJob]
  /\ UNCHANGED <<dupTicket, ruling>>

\* validate_main_ticket
ValidMain(t, m) == m # t /\ dupTicket[m].state = "Open"

\* confirm names a main ticket or takes the best pending match; it reads the
\* ticket, its pending rows and the state of the main ticket.
ReadToConfirm(o, t, m) ==
  /\ ruling[o].kind = "none" /\ dupTicket[t].state = "Open" /\ ValidMain(t, m)
  /\ ruling' = [ruling EXCEPT ![o] = [kind |-> "confirm", ticket |-> t, main |-> m,
                                      seen |-> dupTicket[t], pending |-> PendingMains(t)]]
  /\ UNCHANGED <<dupTicket, reviews, flagging>>

\* dismiss needs a flag to dismiss, on a ticket that is no duplicate yet.
ReadToDismiss(o, t) ==
  /\ ruling[o].kind = "none"
  /\ dupTicket[t].state \in {"Open", "Closed"} /\ PendingMains(t) # {}
  /\ ruling' = [ruling EXCEPT ![o] = [kind |-> "dismiss", ticket |-> t,
                                      pending |-> PendingMains(t)]]
  /\ UNCHANGED <<dupTicket, reviews, flagging>>

\* Mutant: a row ruled on meanwhile is saved over.
RowsAsRead_Any(r) == TRUE

\* Every row a request saves is as the request read it.
RowsAsRead(r) ==
  /\ r.pending \subseteq PendingMains(r.ticket)
  /\ r.kind = "confirm" => dupTicket[r.ticket] = r.seen

Settled(row, to) == (row \ {"pending"}) \cup {to}

\* The row of the main ticket is confirmed, a new one if none was pending; the
\* others are superseded.
Confirmed(r) ==
  [p \in Pairs |->
     IF p = <<r.ticket, r.main>>
     THEN (IF r.main \in r.pending THEN Settled(reviews[p], "confirmed")
           ELSE reviews[p] \cup {"confirmed"})
     ELSE IF p[1] = r.ticket /\ p[2] \in r.pending THEN Settled(reviews[p], "dismissed")
     ELSE reviews[p]]

Dismissed(r) ==
  [p \in Pairs |-> IF p[1] = r.ticket /\ p[2] \in r.pending
                   THEN Settled(reviews[p], "dismissed") ELSE reviews[p]]

\* The link, the move to Duplicate and the rulings commit together or not at all.
Rule(o) ==
  /\ ruling[o].kind # "none"
  /\ LET r == ruling[o]
     IN  IF ~RowsAsRead(r) THEN UNCHANGED <<dupTicket, reviews>>
         ELSE IF r.kind = "confirm"
         THEN /\ dupTicket' = [dupTicket EXCEPT ![r.ticket] = [state |-> "Duplicate", main |-> r.main]]
              /\ reviews' = Confirmed(r)
         ELSE reviews' = Dismissed(r) /\ UNCHANGED dupTicket
  /\ ruling' = [ruling EXCEPT ![o] = NoRequestYet]
  /\ UNCHANGED <<flagging>>

\* The case ends some other way.
CloseTicket(t) ==
  /\ dupTicket[t].state = "Open"
  /\ dupTicket' = [dupTicket EXCEPT ![t].state = "Closed"]
  /\ UNCHANGED <<reviews, flagging, ruling>>

DuplicateNext ==
  \/ \E t \in Tickets : FileTicket(t) \/ ScoreTicket(t) \/ FlagTicket(t) \/ CloseTicket(t)
  \/ \E o \in Rulers, t \in Tickets : \/ ReadToDismiss(o, t)
                                      \/ \E m \in Tickets : ReadToConfirm(o, t, m)
  \/ \E o \in Rulers : Rule(o)

DuplicateSpec == DuplicateInit /\ [][DuplicateNext]_duplicateVars

-----------------------------------------------------------------------------
\* A ticket is a Duplicate by exactly one confirmed ruling, the one that names
\* its main ticket, and no other ticket has any, however two officers' rulings
\* and a late flag job cross (confirm, dismiss, the timestamp of saved rows).
DuplicateHasOneRuling ==
  \A t \in Tickets :
    {m \in Tickets \ {t} : "confirmed" \in reviews[<<t, m>>]} =
      IF dupTicket[t].state = "Duplicate" THEN {dupTicket[t].main} ELSE {}
==============================================================================
