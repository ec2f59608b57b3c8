---------------------------- MODULE MC_TimerAsync ----------------------------
(***************************************************************************)
(* Model-checking instance of TimerAsync: three nodes (enough for a node   *)
(* on each list and one in flight), two alarms of different periods.      *)
(***************************************************************************)
EXTENDS TimerAsync

CONSTANTS n1, n2, n3, a1, a2

MCNodes == {n1, n2, n3}
MCAlarms == {a1, a2}
MCInterval == (a1 :> 1) @@ (a2 :> 2)

=============================================================================
