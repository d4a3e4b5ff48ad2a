--------------------------- MODULE MCGrievanceCase ---------------------------
(***************************************************************************)
(* Small instances of GrievanceCase.  Three categories: `land' climbs at   *)
(* half its window, `water' at its deadline with an Escalate timer on      *)
(* Assigned, and `other' has no active SLA configuration at all.           *)
(***************************************************************************)
EXTENDS GrievanceCase

\* start_clock's configurations, one row per category.
MCSlaWindow == [c \in Category |-> CASE c = "land" -> 2 [] c = "water" -> 1 [] OTHER -> 0]
MCAutoEscalate == [c \in Category |-> TRUE]
MCThreshold == [c \in Category |-> IF c = "land" THEN 50 ELSE 100]

\* The default Auto Close timers, and an Escalate timer where water waits.
MCTimerHours ==
  [c \in Category |-> [s \in States |->
     IF c # "other" /\ (s \in {"Resolved", "MoreInfoNeeded"} \/ (c = "water" /\ s = "Assigned"))
     THEN 1 ELSE 0]]
MCTimerExpiry ==
  [c \in Category |-> [s \in States |->
     IF s \in {"Resolved", "MoreInfoNeeded"} THEN "AutoClose" ELSE "Escalate"]]

\* A chain whose rungs all set hours, and one whose top rung is terminal.
MCRungHours == [r \in 1..Rungs |-> 1]
MCTerminalTop == [r \in 1..Rungs |-> IF r < Rungs THEN 1 ELSE 0]
MCHigherAuthority ==
  [o \in Officers |-> IF o = Rungs THEN None ELSE [officer |-> o + 1, rung |-> o + 1]]
=============================================================================
