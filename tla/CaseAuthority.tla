---------------------------- MODULE CaseAuthority ----------------------------
(***************************************************************************)
(* One case and its change request among desks that are being edited: who  *)
(* gets the case (routing, escalation, reassignment), who has to rule on a *)
(* request (grievance_change_request.py, reassignment.py) and who may read *)
(* or act (permissions.py).                                                *)
(*                                                                         *)
(*   held       department, category, area and officer of the case         *)
(*   request    its pending change request, if any                         *)
(*   movers     who raised or ruled on an approved request                 *)
(*   asked      requests raised so far (bound)                             *)
(***************************************************************************)
EXTENDS OfficerDesks

CONSTANTS
  FiledCases,          \* the case as filed: category and area, no officer
  Admin,               \* an administrator, who sits on no desk
  ApprovalDesks,       \* the desks with reassignment_requires_approval
  Fallback,            \* FALLBACK_SERVICE_CATEGORY
  SupervisorApproval,  \* requires_supervisor_approval of the deferral policy
  MaxAsked             \* bound: change requests

\* The area of a case links to one; only a case from the IVR may have none.
ASSUME AskedAssumption ==
  MaxAsked \in Nat /\ \A c \in FiledCases : c.area \in Areas \cup {Nothing}

VARIABLES held, request, movers, asked

authorityVars == <<staffingVars, held, request, movers, asked>>

Departments == {Scope[d].department : d \in DeskSet}
People == Officers \cup {Admin}

NoRequest == [status |-> "none", with |-> Nothing]

NotFiled == [f \in {"department", "category", "area", "officer", "desk"} |-> Nothing]
Filed == held.category # Nothing

AuthorityTypeOK ==
  /\ StaffingTypeOK
  /\ held.officer \in Officers \cup {Nothing} /\ held.department \in Departments \cup {Nothing}
  /\ request.status \in {"none", "Pending"} /\ request.with \in Officers \cup {Nothing}
  /\ movers \subseteq People
  /\ asked \in 0..MaxAsked

AuthorityInit ==
  /\ StaffingInit
  /\ held = NotFiled
  /\ request = NoRequest
  /\ movers = {}
  /\ asked = 0

-----------------------------------------------------------------------------
(***************************************************************************)
(* permissions.py: what a list shows and what a single document allows.    *)
(***************************************************************************)

\* active_scopes: every live row, a reviewer's too.
ScopesOf(u) == {s \in LiveSeats : s[2] = u}

\* officer_case_scopes: only the top rung reads a whole desk.
HeadScopes(u) == {s \in ScopesOf(u) : Row(s).level = Top}

Scoped(s) ==
  Scope[s[1]].department # Nothing \/ Scope[s[1]].category # Nothing \/ Row(s).area # Nothing

\* The SQL of _scope_clauses: equality on each field that is set.
InClause(s, c) ==
  /\ Scoped(s)
  /\ Scope[s[1]].department \in {Nothing, c.department}
  /\ Scope[s[1]].category \in {Nothing, c.category}
  /\ Row(s).area # Nothing => c.area # Nothing /\ Inside(c.area, Row(s).area)

\* Mutant: _scope_covers does not look at the category.
ScopeCovers_AnyCategory(s, c) == InClause(s, [c EXCEPT !.category = Scope[s[1]].category])

\* _scope_covers skips a scope on its first field that differs.
ScopeCovers(s, c) ==
  ~(\/ ~Scoped(s)
    \/ Scope[s[1]].department # Nothing /\ c.department # Scope[s[1]].department
    \/ Scope[s[1]].category # Nothing /\ c.category # Scope[s[1]].category
    \/ Row(s).area # Nothing /\ (c.area = Nothing \/ ~Inside(c.area, Row(s).area)))

HasRole(u, role) == IF u = Admin THEN FALSE ELSE role \in roles[u]

AwaitsRulingOf(u) == request.status = "Pending" /\ request.with = u

\* grievance_query_conditions
Listed(u, c) ==
  \/ u = Admin
  \/ HasRole(u, "Reviewer") /\ (SeatsOf(u) = {} \/ \E s \in ScopesOf(u) : InClause(s, c))
  \/ /\ HasRole(u, "Officer")
     /\ \/ \E s \in HeadScopes(u) : InClause(s, c)
        \/ c.officer \in Team(u) \ {Nothing}
        \/ AwaitsRulingOf(u)

\* has_grievance_permission for "read"
Readable(u, c) ==
  \/ u = Admin
  \/ HasRole(u, "Reviewer") /\ (SeatsOf(u) = {} \/ \E s \in ScopesOf(u) : ScopeCovers(s, c))
  \/ /\ HasRole(u, "Officer")
     /\ \/ c.officer # Nothing /\ c.officer \in Team(u)
        \/ AwaitsRulingOf(u)
        \/ u \in movers
        \/ \E s \in HeadScopes(u) : ScopeCovers(s, c)

\* has_grievance_permission for "write"
Writable(u, c) == u = Admin \/ (HasRole(u, "Officer") /\ c.officer # Nothing /\ c.officer \in Team(u))

-----------------------------------------------------------------------------
(***************************************************************************)
(* reassignment.py: the proposal, and whether it stands.                   *)
(***************************************************************************)
DeskKey(span, d, constrained) == <<span, 2 - Narrowed(d) - (IF constrained THEN 1 ELSE 0)>>

\* officer_desks: where the officer sits and covers the area.
OfficerDesksFor(c, department, u) ==
  {d \in serving : /\ WorkingSeat(d, u)
                   /\ Fits(department, Scope[d].department)
                   /\ AreaFits(c, seat[d][u].area)}

\* department_desks: the desks that fit, of the department or of all but Unrouted.
DepartmentDesksFor(c, department) ==
  {d \in serving : /\ DeskSpans(d, c) # {}
                   /\ IF department = Nothing THEN Scope[d].department # Unrouted
                      ELSE Scope[d].department = department}

Accepts(d, category) == Scope[d].category \in {Nothing, category}

\* The categories a move may settle on, and the desks left for each.
CategoryChoice(c, desks, category) ==
  LET current == {d \in desks : Accepts(d, c.category)}
      exact == {d \in current : Scope[d].category = c.category}
      others == {Scope[d].category : d \in desks} \ {Nothing}
  IN  IF category # Nothing
      THEN {[category |-> category, desks |-> {d \in desks : Accepts(d, category)}]}
      ELSE IF current # {}
      THEN {[category |-> c.category, desks |-> IF exact # {} THEN exact ELSE current]}
      ELSE {[category |-> k, desks |-> {d \in desks : Accepts(d, k)}] :
              k \in IF Cardinality(others) = 1 THEN others ELSE {}}

\* A move that names no department stays in the case's own when it can.
KeepDepartment(c, department, desks) ==
  LET same == {d \in desks : Scope[d].department = c.department}
  IN  IF department = Nothing /\ same # {} THEN same ELSE desks

SpanFor(d, c, u) == IF u = Nothing THEN SpanOf(d, c) ELSE RoutingSpan(seat[d][u].area)

FirstDesks(desks, c, u) ==
  LET key(d) == LET span == SpanFor(d, c, u) IN DeskKey(span, d, span # Unbounded)
  IN  Least(desks, key)

\* Mutant: the receiving desk's officer is picked without a look at the area.
Receives_AnyArea(d, c) == PrimaryFirst(d, Shortlist(d, c, TRUE))

Receives(d, c) == PrimaryFirst(d, Shortlist(d, c, FALSE))

\* Who takes the case and on which desk: the officer named, else the current
\* officer if still on a desk left, else a pick on the first desk.
Receivers(c, department, u, desks) ==
  LET stay == IF c.officer = Nothing THEN {}
              ELSE OfficerDesksFor(c, department, c.officer) \cap desks
  IN  IF u # Nothing THEN FirstDesks(desks, c, u) \X {u}
      ELSE IF stay # {} THEN FirstDesks(stay, c, c.officer) \X {c.officer}
      ELSE UNION {{d} \X Receives(d, c) : d \in FirstDesks(desks, c, Nothing)}

\* resolve: the values proposed, none when the move is refused.
Resolve(c, department, u, category) ==
  LET desks == IF u # Nothing THEN OfficerDesksFor(c, department, u)
               ELSE DepartmentDesksFor(c, department)
      moves == UNION {[category : {choice.category},
                       to : Receivers(c, department, u, KeepDepartment(c, department, choice.desks))] :
                        choice \in {k \in CategoryChoice(c, desks, category) : k.desks # {}}}
      made == {[c EXCEPT !.category = m.category, !.officer = m.to[2],
                         !.department = IF department # Nothing THEN department
                                        ELSE Scope[m.to[1]].department] : m \in moves}
  IN  IF u # Nothing /\ department = Nothing /\ category = Nothing THEN {} ELSE made \ {c}

\* validate: the receiving officer sits on a desk that takes the case.
ValidMove(by, c, new) ==
  /\ c.officer # Nothing => new.officer # Nothing
  /\ by = Admin \/ new.officer = Nothing
       \/ \E d \in OfficerDesksFor(c, new.department, new.officer) : Accepts(d, new.category)

HasDesk(u) == \E d \in serving : LiveSeat(d, u)

-----------------------------------------------------------------------------
(***************************************************************************)
(* Who may rule.                                                           *)
(***************************************************************************)

\* desk_requires_approval: the desk the case came by, the officer's, the
\* department's, the best match, and yes when there is none of them.
RulingDesks(c) ==
  LET routed == {d \in {c.desk} \ {Nothing} : Scope[d].department \in {Nothing, c.department}}
      own == IF c.officer = Nothing THEN {} ELSE OfficerDesksFor(c, c.department, c.officer)
      dept == DepartmentDesksFor(c, c.department)
      match == {d \in {MatchingDesk(c)} \ {Nothing} : Fits(c.department, Scope[d].department)}
  IN  CASE routed # {} -> routed
        [] c.department # Nothing /\ own # {} -> FirstDesks(own, c, c.officer)
        [] c.department # Nothing /\ dept # {} -> FirstDesks(dept, c, Nothing)
        [] OTHER -> match

NeedsRuling(c) ==
  IF RulingDesks(c) = {} THEN {TRUE} ELSE {(d \in ApprovalDesks) : d \in RulingDesks(c)}

SitsOnFallback(u) == \E d \in serving : WorkingSeat(d, u) /\ Scope[d].category = Fallback

\* may_decide, when the desk asks for a ruling (`needed') or does not.
MayDecideMove(u, c, new, needed) ==
  \/ u = Admin \/ ~needed
  \/ c.category = Fallback /\ new.category # Fallback /\ SitsOnFallback(u)
  \/ new.department = c.department /\ new.officer \notin {c.officer, u} /\ new.officer \in Team(u)
  \/ HoldsRung(u, Top, new)

\* requester_may_decide for a deferral.
MayDecideDeferral(u, c) ==
  \/ u = Admin \/ ~SupervisorApproval
  \/ c.officer \notin {Nothing, u} /\ (Supervisor(c.officer, c, TRUE) = u \/ Outranks(u, c.officer))

CheckDecider(u) == u = Admin \/ (u = request.with /\ u # request.by)

Fields == {"department", "category", "officer"}

\* The approver ruled on the values shown; a later change voids the request.
Stale == \E f \in Fields : request.old[f] # request.new[f] /\ held[f] # request.old[f]

\* apply_change_request and on_applied: the fields that change, and the desk
\* the case now belongs to.
Apply(old, new) ==
  LET set == [f \in DOMAIN held |-> IF f \in Fields /\ old[f] # new[f] THEN new[f] ELSE held[f]]
      desk == IF old = new THEN held.desk ELSE MatchingDesk(set)
  IN  /\ set.officer # held.officer => HasDesk(set.officer)
      /\ held' = [set EXCEPT !.desk = IF desk = Nothing THEN held.desk ELSE desk]

-----------------------------------------------------------------------------
(***************************************************************************)
(* Actions on the case.                                                    *)
(***************************************************************************)

\* A case arrives with its category, its area if it has one, and nobody on it.
ReceiveCase ==
  /\ ~Filed
  /\ held' \in {[NotFiled EXCEPT !.category = c.category, !.area = c.area] : c \in FiledCases}
  /\ UNCHANGED <<staffingVars, request, movers, asked>>

\* apply_routing; with auto-routing off only the triage desk is asked.
RouteCase ==
  /\ Filed /\ held.officer = Nothing
  /\ \E desks \in {Candidates(held),
                   {d \in Candidates(held) : Scope[d].department = Unrouted}} :
       LET desk == RoutedTo(desks, held)
       IN  /\ desk # Nothing
           /\ \E u \in PicksOn(desk, held) :
                held' = [held EXCEPT !.officer = u, !.desk = desk,
                                     !.department = Scope[desk].department]
  /\ UNCHANGED <<staffingVars, request, movers, asked>>

\* escalate: no permission and no desk is asked for.
EscalateCase ==
  /\ Filed
  /\ \E u \in HigherAuthority(held.officer, held) : held' = [held EXCEPT !.officer = u]
  /\ UNCHANGED <<staffingVars, request, movers, asked>>

MayRaise(by) == Filed /\ request = NoRequest /\ asked < MaxAsked /\ Writable(by, held)

\* A request that nobody has to rule on is applied at once.
Raise(by, kind, new, decided, approvers) ==
  /\ asked' = asked + 1
  /\ \/ decided /\ Apply(held, new) /\ movers' = movers \cup {by} /\ UNCHANGED request
     \/ /\ ~decided
        /\ \E u \in OrNobody(approvers) :
             request' = [status |-> "Pending", kind |-> kind, by |-> by, with |-> u,
                         old |-> held, new |-> new]
        /\ UNCHANGED <<held, movers>>
  /\ UNCHANGED staffingVars

\* reassign: the receiving department's head rules.
RaiseMove(department, u, category) ==
  \E new \in Resolve(held, department, u, category), needed \in NeedsRuling(held),
     by \in {p \in People : MayRaise(p)} :
    /\ ValidMove(by, held, new) /\ HasDesk(new.officer)
    /\ Raise(by, "move", new, MayDecideMove(by, held, new, needed), DepartmentHeads(new))

\* defer_sla: whoever stands above the requester rules.
RaiseDeferral(by) ==
  /\ MayRaise(by)
  /\ Raise(by, "deferral", held, MayDecideDeferral(by, held), HigherAuthority(by, held))

\* Mutant: a request stays with the last approver when nobody is above.
Forward_KeepsLast ==
  /\ request.status = "Pending" /\ request.with # Nothing
  /\ UNCHANGED <<staffingVars, held, movers, asked>>
  /\ \E u \in HigherAuthority(request.with, held) : request' = [request EXCEPT !.with = u]

\* forward_stale_change_requests: one step up; past the top, the admin queue.
Forward ==
  /\ request.status = "Pending" /\ request.with # Nothing
  /\ \E u \in OrNobody(HigherAuthority(request.with, held)) :
       request' = [request EXCEPT !.with = u]
  /\ UNCHANGED <<staffingVars, held, movers, asked>>

Decide(u, approve) ==
  /\ request.status = "Pending" /\ CheckDecider(u)
  /\ IF approve THEN /\ ~Stale /\ Apply(request.old, request.new)
                     /\ movers' = movers \cup {request.by, u}
     ELSE UNCHANGED <<held, movers>>
  /\ request' = NoRequest
  /\ UNCHANGED <<staffingVars, asked>>

AuthorityNext ==
  \/ StaffingEdit /\ UNCHANGED <<held, request, movers, asked>>
  \/ ReceiveCase \/ RouteCase \/ EscalateCase
  \/ \E by \in People : RaiseDeferral(by)
  \/ /\ {by \in People : MayRaise(by)} # {}
     /\ \E department \in Departments \cup {Nothing}, u \in Officers \cup {Nothing},
           category \in {Scope[d].category : d \in DeskSet} \cup {Nothing} :
          RaiseMove(department, u, category)
  \/ Forward
  \/ \E u \in People, approve \in BOOLEAN : Decide(u, approve)

AuthoritySpec == AuthorityInit /\ [][AuthorityNext]_authorityVars

\* forward_stale_change_requests is scheduled; nothing makes anybody rule.
AuthorityFairness == WF_authorityVars(Forward)

-----------------------------------------------------------------------------
\* An officer or reviewer finds in their list exactly the cases they may open,
\* but for one they moved on themselves (permissions.py: the SQL of
\* grievance_query_conditions, the Python of has_grievance_permission).
ListMirrorsDocument ==
  Filed => \A u \in People :
    /\ Listed(u, held) => Readable(u, held)
    /\ Readable(u, held) /\ u \notin movers => Listed(u, held)

\* Whatever move resolve proposes, to anybody but the admin, whom nothing stops,
\* passes the checks of the request it becomes,
\* whichever desks are edited, retired or emptied before (resolve, validate,
\* assert_officer_has_desk).
ResolvedIsAccepted ==
  Filed =>
    \A department \in Departments \cup {Nothing}, u \in Officers \cup {Nothing},
       category \in {Scope[d].category : d \in DeskSet} \cup {Nothing} :
    \A new \in Resolve(held, department, u, category) :
      ValidMove(Nothing, held, new) /\ HasDesk(new.officer)

\* Everyone who is reported to works, and nobody sits on two rungs.
SoundLadder ==
  LET working == WorkingSeats IN
  /\ \A d \in DeskSet, u \in Officers :
       seat[d][u] # NoSeat /\ seat[d][u].reportsTo # Nothing
         => \E s \in working : s[2] = seat[d][u].reportsTo
  /\ \A s, t \in working : s[2] = t[2] => Row(s).level = Row(t).level

\* On a sound ladder authority only climbs, so neither an escalated case nor a
\* forwarded request comes back down (higher_authority_of).
LadderClimbs ==
  Filed /\ SoundLadder =>
    \A u \in Officers : \A o \in HigherAuthority(u, held) :
      Rank(CurrentLevel(o)) > Rank(CurrentLevel(u))

\* A category admin holds the role that lets them manage their people, however
\* they came to the rung or back to it (_sync_desk_head_role).
HeadsHoldTheRole == \A u \in Officers : HoldsTop(seat, u) => DeskHeadRole \in roles[u]

\* Somebody available on a desk for the case's category, or on the triage desk,
\* is enough for the case to get an officer, whatever areas, rungs and leave
\* stand in the way elsewhere (ranked_assignments, pick_officer_by_strategy).
RoutingFindsSomeone ==
  /\ Filed
  /\ \E d \in serving :
       /\ Scope[d].department # Nothing \/ Scope[d].category # Nothing
       /\ CategoryMatches(d, held) \/ Scope[d].department = Unrouted
       /\ Available(d) # {}
  => RoutedTo(Candidates(held), held) # Nothing

\* A request nobody rules on reaches the queue of the administrators once the
\* ladder above it is sound and stays so (forward).
RequestReachesAdmin ==
  <>[](request.status = "Pending" => SoundLadder) =>
    (request.status = "Pending" ~> (request.status = "none" \/ request.with = Nothing))

\* guard_assignee_has_desk: a case goes only to an officer on an active desk.
AssigneeHasDesk ==
  [][held'.officer \notin {held.officer, Nothing} => HasDesk(held'.officer)]_authorityVars
==============================================================================
