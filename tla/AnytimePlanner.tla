-------------------------- MODULE AnytimePlanner --------------------------
(***************************************************************************)
(* What the planner promises its user: it keeps at most one plan, never    *)
(* gives up having one, and shows the kept plan when it stops.  Where the  *)
(* command line makes the search monotone, it replaces the plan only by a  *)
(* strictly shorter one.  Only a program that is killed may show nothing.  *)
(***************************************************************************)
EXTENDS Integers

CONSTANTS PlanLengths,  \* the lengths plans can have
          None          \* no plan

VARIABLES monotone, \* only shorter plans replace the kept one
          kept,     \* length of the kept plan
          shown,    \* length of the plan shown to the user
          status    \* "running", "stopped" or "killed"

vars == <<monotone, kept, shown, status>>

Init ==
  /\ monotone \in BOOLEAN
  /\ kept = None /\ shown = None
  /\ status = "running"

\* A first plan or another one.
Improve ==
  /\ status = "running"
  /\ kept' \in PlanLengths
  /\ monotone /\ kept # None => kept' < kept
  /\ UNCHANGED <<monotone, shown, status>>

\* Stop, by itself or on request, and show what there is.
Stop ==
  /\ status = "running" /\ status' = "stopped"
  /\ shown' = kept
  /\ UNCHANGED <<monotone, kept>>

\* The process is made to leave at once.
Kill ==
  /\ status = "running" /\ status' = "killed"
  /\ UNCHANGED <<monotone, kept, shown>>

Next == Improve \/ Stop \/ Kill

Spec == Init /\ [][Next]_vars
===========================================================================
