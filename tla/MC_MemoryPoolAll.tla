-------------------------- MODULE MC_MemoryPoolAll --------------------------
EXTENDS MC_MemoryPool

(***************************************************************************)
(* The three workloads in one run: a program has one of them from start-  *)
(* up on, so Init picks it and it never changes.  The behaviours are those *)
(* of the three separate runs together, and the state count their sum.    *)
(***************************************************************************)
VARIABLE workload

Workloads ==
  { [configs |-> ConfigsGood, requests |-> RequestsPooled,  heap |-> 77824],
    [configs |-> ConfigsGood, requests |-> RequestsMapped,  heap |-> 98304],
    [configs |-> ConfigsGood, requests |-> RequestsInPlace, heap |-> 65792] }

WorkloadInit == Init /\ workload \in Workloads
WorkloadNext == NextFor(workload.configs, workload.requests) /\ UNCHANGED workload
WorkloadSpec == WorkloadInit /\ [][WorkloadNext]_<< vars, workload >>
WorkloadHeapBound == pfree <= workload.heap

=============================================================================
