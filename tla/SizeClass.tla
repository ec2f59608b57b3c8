----------------------------- MODULE SizeClass -----------------------------
(***************************************************************************)
(* The size-class table of UMemoryPool (src/src/ulib/internal/            *)
(* memory_pool.cpp) and the two ways the code maps a byte count to a      *)
(* class index: U_SIZE_TO_STACK_INDEX, the direct lookup used by every    *)
(* caller (its macro lives in a header outside the sources, so it is      *)
(* modelled from its contract: the smallest class that fits).  The binary *)
(* search UMemoryPool::stackIndexToSize is commented out in the source    *)
(* and is not modelled.                                                    *)
(***************************************************************************)
EXTENDS Integers

CONSTANTS
  NumStackType,  \* U_NUM_STACK_TYPE: number of size classes
  StackType      \* U_STACK_INDEX_TO_SIZE: class index -> block size

StackIndex == 0 .. NumStackType - 1

ASSUME StackTypeAssumption ==
  /\ NumStackType \in Nat \ {0}
  /\ StackType \in [StackIndex -> Nat \ {0}]
  /\ \A i \in StackIndex : i + 1 \in StackIndex => StackType[i] < StackType[i + 1]

\* U_MAX_SIZE_PREALLOCATE: the last entry of U_STACK_INDEX_TO_SIZE.
MaxSizePreallocate == StackType[NumStackType - 1]

\* U_SIZE_TO_STACK_INDEX(sz), for 0 < sz <= U_MAX_SIZE_PREALLOCATE.
SizeToStackIndex(sz) ==
  CHOOSE i \in StackIndex : /\ sz <= StackType[i]
                            /\ \A j \in StackIndex : j < i => StackType[j] < sz

=============================================================================
