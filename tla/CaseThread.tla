------------------------------- MODULE CaseThread -------------------------------
(***************************************************************************)
(* The conversation on one case: messages and notes, workflow actions that *)
(* leave an entry, and ratings, sent by requests that cross                *)
(* (api/v1/grievance.py, Grievance Timeline, Grievance Feedback).          *)
(*                                                                         *)
(*   ticket   the columns of the case that the conversation reads or writes*)
(*   said     the messages on the timeline that carry an id                *)
(*   added    the entries the last step put on the timeline                *)
(*   calls    the requests under way: who sent one, the case and the       *)
(*            sender's messages its transaction sees, and whether the case *)
(*            has been written since                                       *)
(*                                                                         *)
(* A request that writes the case is refused when the case was written     *)
(* since it began; one that only adds an entry is not.  A request's writes *)
(* and its commit are one step.  The database is one that refuses to write *)
(* what an old snapshot read.  Texts, files, templates and departments are *)
(* left out; Citizen is the submitter, Staff are officers who may write to *)
(* the case, and the few accounts nothing restricts are left out.          *)
(***************************************************************************)
EXTENDS GrievanceWorkflow

CONSTANTS Calls, Citizen, Staff, MessageIds, Blank

ASSUME ThreadAssumption == Citizen \notin Staff \cup {Blank}

VARIABLES ticket, said, added, calls

threadVars == <<ticket, said, added, calls>>

Entry(by, kind) == [by |-> by, kind |-> kind]

Persons == Staff \cup {Citizen}
Entries == [by : Persons, kind : {"message", "note", "move", "feedback"}]
TicketRows == [state : States, handler : Staff \cup {Blank}]
Messages == Persons \X MessageIds

ThreadTypeOK ==
  /\ ticket \in TicketRows
  /\ said \subseteq Messages /\ added \subseteq Entries
  /\ calls \in [Calls -> {Blank} \cup
       [by : Persons, ticket : TicketRows, said : SUBSET MessageIds, stale : BOOLEAN]]

ThreadInit ==
  /\ ticket = [state |-> "Submitted", handler |-> Blank]
  /\ said = {} /\ added = {} /\ calls = [w \in Calls |-> Blank]

-----------------------------------------------------------------------------
StartCall(w, u) ==
  /\ calls[w] = Blank
  /\ calls' = [calls EXCEPT ![w] =
       [by |-> u, ticket |-> ticket, said |-> {id \in MessageIds : <<u, id>> \in said}, stale |-> FALSE]]
  /\ added' = {} /\ UNCHANGED <<ticket, said>>

Over(w) == [calls EXCEPT ![w] = Blank]

\* A write of the case outruns every request that read it before.
Outrun(open) ==
  [v \in Calls |-> IF open[v] = Blank THEN Blank ELSE [open[v] EXCEPT !.stale = TRUE]]

\* GrievanceTimeline.record: a message its author repeats is not said again,
\* as far as the request can see.
AlreadySaid(call, id) == id \in call.said

\* A message, or a note among staff; the case itself is not written.
PostMessage(w, internal, id) ==
  LET call == calls[w] IN
  /\ call # Blank
  /\ internal => call.by \in Staff
  /\ call.ticket.state # "Duplicate"
  /\ IF AlreadySaid(call, id) THEN added' = {} /\ UNCHANGED said
     ELSE /\ added' = {Entry(call.by, IF internal THEN "note" ELSE "message")}
          /\ said' = said \cup {<<call.by, m>> : m \in {id} \ {Blank}}
  /\ calls' = Over(w) /\ UNCHANGED ticket

\* Anything that ends in an error: nothing of the request remains.
Fail(w) ==
  /\ calls[w] # Blank
  /\ calls' = Over(w) /\ added' = {} /\ UNCHANGED <<ticket, said>>

-----------------------------------------------------------------------------
(***************************************************************************)
(* A workflow action, its entry, the note of an officer and the rating of  *)
(* a submitter who closes the case.  Assign and the confirmation of a      *)
(* duplicate have endpoints of their own.                                  *)
(***************************************************************************)
Offered(call) ==
  {m \in Transitions :
     /\ m.from = call.ticket.state
     /\ m.by = (IF call.by = Citizen THEN "submitter" ELSE "officer")
     /\ m.action \notin {"Assign", "ConfirmDuplicate"}}

\* Work starts with an owner (_ensure_owner).
NeedsOwner(m) ==
  \/ m.action = "InProgress"
  \/ m.from \in {"Assigned", "Reopened"}
       /\ m.action \in {"RequestMoreInfo", "Resolve", "PartiallyResolve"}

Act(w, note, rated) ==
  LET call == calls[w] IN
  /\ call # Blank /\ ~call.stale
  /\ note => call.by \in Staff
  /\ \E m \in Offered(call) :
       /\ NeedsOwner(m) => call.ticket.handler # Blank
       /\ rated => m.action = "CloseCase"
       /\ ticket' = [call.ticket EXCEPT !.state = m.to]
  /\ added' = {Entry(call.by, "move")}
               \cup {Entry(call.by, kind) : kind \in (IF note THEN {"note"} ELSE {})
                                                  \cup (IF rated THEN {"feedback"} ELSE {})}
  /\ calls' = Outrun(Over(w)) /\ UNCHANGED said

-----------------------------------------------------------------------------
(***************************************************************************)
(* Ratings.                                                                *)
(***************************************************************************)
MayRate(call) ==
  /\ call.ticket.state \in ResolvedStates
  /\ call.by \in Staff => call.ticket.handler # call.by

\* Mutant: the rating is kept in its own row only, and the case is not written.
RatingRefused_Never(call) == FALSE

\* The rating is copied to the case, which must be the one that was read.
RatingRefused(call) == call.stale

Rate(w) ==
  /\ calls[w] # Blank /\ MayRate(calls[w]) /\ ~RatingRefused(calls[w])
  /\ added' = {Entry(calls[w].by, "feedback")}
  /\ calls' = Outrun(Over(w)) /\ UNCHANGED <<ticket, said>>

-----------------------------------------------------------------------------
(***************************************************************************)
(* What else writes the case: routing, an approved reassignment, the       *)
(* ruling on a duplicate and the closing by the timer.                     *)
(***************************************************************************)
Elsewhere ==
  /\ \/ \E u \in Staff :
          /\ ticket.state \notin TerminalStates /\ ticket.handler # u
          /\ \E s \in {ticket.state} \cup
                     (IF ticket.state = "Submitted" THEN {"Assigned"} ELSE {}) :
               ticket' = [state |-> s, handler |-> u]
     \/ \E m \in Transitions :
          /\ m.from = ticket.state /\ m.action \in {"ConfirmDuplicate", "AutoClose"}
          /\ ticket' = [ticket EXCEPT !.state = m.to]
  /\ calls' = Outrun(calls) /\ added' = {} /\ UNCHANGED said

ThreadNext ==
  \/ Elsewhere
  \/ \E w \in Calls :
       \/ \E u \in Persons : StartCall(w, u)
       \/ \E internal \in BOOLEAN, id \in MessageIds \cup {Blank} : PostMessage(w, internal, id)
       \/ \E note, rated \in BOOLEAN : Act(w, note, rated)
       \/ Rate(w) \/ Fail(w)

ThreadSpec == ThreadInit /\ [][ThreadNext]_threadVars

-----------------------------------------------------------------------------
\* A rating finds the case resolved or closed, and never in the hands of the
\* officer who keys it in, though moves and reassignments cross it (validate).
RatingFits ==
  [][\A entry \in added' : entry.kind = "feedback" =>
       ticket'.state \in ResolvedStates /\ entry.by # ticket'.handler]_threadVars
================================================================================
