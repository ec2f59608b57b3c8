------------------------------- MODULE MC_Timer -------------------------------
(***************************************************************************)
(* Model-checking instance of Timer: three list nodes and three alarms,  *)
(* two of them with the same period (insertEntry must keep equal expiries *)
(* in insertion order) and one shorter (it is inserted in front), and the *)
(* abstract timer the list implements.                                     *)
(***************************************************************************)
EXTENDS Timer

CONSTANTS n1, n2, n3, a1, a2, a3

MCNodes == {n1, n2, n3}
MCAlarms == {a1, a2, a3}
MCInterval == (a1 :> 1) @@ (a2 :> 2) @@ (a3 :> 2)
\* NOSIGNAL polls with getTimeout; SYNC stands for both signal modes, whose
\* handler is delivered between operations in this model.
MCModes == {"NOSIGNAL", "SYNC"}

(***************************************************************************)
(* Refinement mapping: the abstract set of scheduled alarms is the set of  *)
(* alarms the active list holds; expiries are the same.                    *)
(***************************************************************************)
Abs == INSTANCE AbstractTimer WITH active <- ActiveAlarms, rem <- rem

\* The list implements the abstract timer, safety part.
AbsSafety == Abs!Init /\ [][Abs!Next]_(Abs!vars)

=============================================================================
