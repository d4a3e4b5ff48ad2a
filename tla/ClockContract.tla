---------------------------- MODULE ClockContract ----------------------------
(***************************************************************************)
(* What the SLA clock promises about a case, without dates: the time left  *)
(* burns only while the clock runs.  A hold keeps it, a deferral adds to   *)
(* it, and a new category or a reopening brings a fresh window.            *)
(***************************************************************************)
EXTENDS Integers

CONSTANTS
  Windows,      \* the windows the categories give
  MostDeferred  \* the most one deferral may add

VARIABLES
  phase,  \* "Running", "Held" or "Stopped"
  left    \* time to the deadline; negative when overdue, 0 once stopped

contractVars == <<phase, left>>

Init == phase = "Running" /\ left \in Windows

Burn == phase = "Running" /\ left' = left - 1 /\ UNCHANGED phase

Pause == phase = "Running" /\ phase' = "Held" /\ UNCHANGED left

Resume == phase = "Held" /\ phase' = "Running" /\ UNCHANGED left

Stop == phase # "Stopped" /\ phase' = "Stopped" /\ left' = 0

Reopen == phase = "Stopped" /\ phase' = "Running" /\ left' \in Windows

Extend ==
  /\ phase # "Stopped"
  /\ \E by \in 1..MostDeferred : left' = left + by
  /\ UNCHANGED phase

\* A recategorised case gets the new window.  One recategorised on hold also
\* gets back the hold so far, because the code leaves on_hold_since alone.
Restart ==
  /\ phase # "Stopped"
  /\ \/ phase = "Running" /\ left' \in Windows
     \/ phase = "Held" /\ left' \in Int /\ \E w \in Windows : left' >= w
  /\ UNCHANGED phase

Next == Burn \/ Pause \/ Resume \/ Stop \/ Reopen \/ Extend \/ Restart

Spec == Init /\ [][Next]_contractVars
=============================================================================
