---------------------------- MODULE TicketIntake ----------------------------
(***************************************************************************)
(* Filing: the IVR webhook (services/intake.py) and the portal (submit in  *)
(* api/v1/grievance.py), each delivery one transaction that looks, then    *)
(* writes; the ticket number is drawn inside it (ticket_number.py).        *)
(*                                                                         *)
(*   cases      the cases filed                                            *)
(*   series     the counter of each region, category and year              *)
(*   callers    the profiles made for IVR callers                          *)
(*   delivery   each delivery: what its snapshot showed, what it answered  *)
(*   strict     whether the database refuses a write on a row committed    *)
(*              after the snapshot (MariaDB 11.6+)                         *)
(***************************************************************************)
EXTENDS Naturals, FiniteSets

CONSTANTS
  Deliveries,  \* delivery |-> [channel, key, person, series, described, confirmed]
  NoTicket,    \* no answer yet
  AskFirst     \* ask_before_filing_duplicate

ASSUME DeliveriesFinite == IsFiniteSet(DOMAIN Deliveries)

VARIABLES cases, series, callers, delivery, strict

intakeVars == <<cases, series, callers, delivery, strict>>

Calls == DOMAIN Deliveries
Series == {Deliveries[d].series : d \in Calls}
Persons == {Deliveries[d].person : d \in Calls}
Keys == {Deliveries[d].key : d \in Calls}

Numbers == Series \X (1..Cardinality(Calls))
Case == [key : Keys, person : Persons, number : Numbers, flagging : BOOLEAN]

IntakeTypeOK ==
  /\ cases \subseteq Case
  /\ series \in [Series -> 0..Cardinality(Calls)]
  /\ callers \in [Persons -> 0..Cardinality(Calls)]
  /\ \A d \in Calls :
       /\ delivery[d].at \in {"sent", "read", "answered", "refused", "asked", "failed"}
       /\ delivery[d].answer \in Numbers \cup {NoTicket}
  /\ strict \in BOOLEAN

At(how, number) == [at |-> how, answer |-> number, count |-> 0, known |-> FALSE]

IntakeInit ==
  /\ cases = {}
  /\ series = [s \in Series |-> 0]
  /\ callers = [p \in Persons |-> 0]
  /\ delivery = [d \in Calls |-> At("sent", NoTicket)]
  /\ strict \in BOOLEAN

-----------------------------------------------------------------------------
\* client_submission_uuid; the key of a call is a name space of its own.
FiledAs(key, filed) == {c \in filed : c.key = key}

\* _similar_recent_grievances: a farmer on the portal is asked once.
AsksFirst(d) ==
  /\ AskFirst /\ Deliveries[d].channel = "portal" /\ ~Deliveries[d].confirmed
  /\ \E c \in cases : c.person = Deliveries[d].person

Ends(d, how, number) == delivery' = [delivery EXCEPT ![d] = At(how, number)]

\* The lookups.  A submission already filed is returned to the call, refused
\* to the portal with its number.
Look(d) ==
  /\ delivery[d].at = "sent"
  /\ LET call == Deliveries[d] filed == FiledAs(Deliveries[d].key, cases)
     IN  IF filed # {}
         THEN \E c \in filed :
                Ends(d, IF call.channel = "ivr" THEN "answered" ELSE "refused", c.number)
         ELSE IF AsksFirst(d) THEN Ends(d, "asked", NoTicket)
         ELSE delivery' = [delivery EXCEPT ![d] =
                [at |-> "read", answer |-> NoTicket, count |-> series[call.series],
                 known |-> callers[call.person] > 0]]
  /\ UNCHANGED <<cases, series, callers, strict>>

\* getseries locks the counter.  One that moved since the snapshot is refused
\* by a strict database; two that start a series may collide in any.
CounterStands(d) ==
  LET moved == series[Deliveries[d].series] # delivery[d].count
  IN  IF ~moved THEN {TRUE} ELSE IF strict THEN {FALSE}
      ELSE IF delivery[d].count = 0 THEN BOOLEAN ELSE {TRUE}

\* A profile that another call made meanwhile: the insert is refused, and the
\* second lookup still reads the old snapshot, so the call fails.
ProfileStands(d) ==
  Deliveries[d].channel = "ivr" /\ ~delivery[d].known => callers[Deliveries[d].person] = 0

\* Mutant: a case of the same key is not refused.
KeyFree_Always(key) == TRUE

\* The unique index on client_submission_uuid.
KeyFree(key) == FiledAs(key, cases) = {}

\* Profile, number, case, timeline entry and acknowledgement commit together.
\* A call whose key was taken meanwhile rolls back and answers with that case.
File(d) ==
  /\ delivery[d].at = "read"
  /\ LET call == Deliveries[d] number == <<call.series, series[call.series] + 1>>
     IN  \E counted \in CounterStands(d) :
           \/ /\ ~ProfileStands(d) \/ ~counted
              /\ Ends(d, "failed", NoTicket)
              /\ UNCHANGED <<cases, series, callers>>
           \/ /\ ProfileStands(d) /\ counted /\ ~KeyFree(call.key)
              /\ IF call.channel = "ivr"
                 THEN \E c \in FiledAs(call.key, cases) : Ends(d, "answered", c.number)
                 ELSE Ends(d, "failed", NoTicket)
              /\ UNCHANGED <<cases, series, callers>>
           \/ /\ ProfileStands(d) /\ counted /\ KeyFree(call.key)
              /\ cases' = cases \cup {[key |-> call.key, person |-> call.person, number |-> number,
                                       flagging |-> call.channel = "portal" \/ call.described]}
              /\ series' = [series EXCEPT ![call.series] = @ + 1]
              /\ callers' = IF call.channel = "ivr" /\ ~delivery[d].known
                            THEN [callers EXCEPT ![call.person] = @ + 1] ELSE callers
              /\ Ends(d, "answered", number)
  /\ UNCHANGED strict

\* What failed or got no answer is sent again.
SendAgain(d) ==
  /\ delivery[d].at = "failed"
  /\ delivery' = [delivery EXCEPT ![d].at = "sent"]
  /\ UNCHANGED <<cases, series, callers, strict>>

IntakeNext == \E d \in Calls : Look(d) \/ File(d) \/ SendAgain(d)

IntakeSpec == IntakeInit /\ [][IntakeNext]_intakeVars

-----------------------------------------------------------------------------
\* A call or a submission is filed once, whichever deliveries cross: one case
\* and one number per key, one profile per caller, no number twice, and every
\* answer names that case (file_from_ivr, _caller_profile, submit, generate).
FiledOnce ==
  /\ \A b, c \in cases : b.key = c.key \/ b.number = c.number => b = c
  /\ \A p \in Persons : callers[p] <= 1
  /\ \A d \in Calls : delivery[d].answer # NoTicket =>
       \E c \in cases : c.key = Deliveries[d].key /\ c.number = delivery[d].answer
==============================================================================
