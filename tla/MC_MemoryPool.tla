--------------------------- MODULE MC_MemoryPool ---------------------------
(***************************************************************************)
(* The 64-bit size-class table with U_NUM_ENTRY_MEM_BLOCK = 2, the value  *)
(* memory_pool.cpp names for testing, so that every class empties after  *)
(* two pops and refills, squeezes and pointer-array growth happen within *)
(* a few calls.  A small page keeps the provider's rounding (mmap of 32  *)
(* bytes grants a page) while keeping class 0's refills small.           *)
(***************************************************************************)
EXTENDS MemoryPool

MCStackType == [i \in 0 .. 9 |-> << 8, 24, 32, 56, 128, 256, 512, 1024, 2048, 4096 >>[i + 1]]

CONSTANT HeapLimit   \* bound: how far the provider's bump pointer may advance

\* Three workloads, one per way a class gets its blocks.  Classes that do
\* not feed each other are kept in separate runs: their stacks evolve
\* independently and together only multiply the state count.
\*  - 20 and 100 bytes: class 1 refills from class 4, class 4 from class 6,
\*    next to the oversized path (5000 bytes) sharing the provider;
\*  - 4096 and 5000 bytes: class 9 refills straight from mmap;
\*  - 8 and 20 bytes: class 0 maps its in-place slots, class 1 grows its
\*    pointer array from the same provider.
RequestsPooled == { << 1, 20 >>, << 1, 100 >>, << 1, 5000 >> }
RequestsMapped == { << 1, 4096 >>, << 1, 5000 >> }
RequestsInPlace == { << 1, 8 >>, << 1, 20 >> }

\* No preallocation string, and one that squeezes one pair of class 4 into
\* class 5, grows class 5 (by taking one of its own blocks) and class 6,
\* and stops parsing at a non-number.
ConfigsGood == { << >>, << 0, 0, 0, -2, 4, 5, NaN, 9 >> }

\* Growing class 1 by three blocks takes one 128-byte block of class 4;
\* squeezing class 4 then pops its last static block and, after a refill,
\* the lowest block of a fresh chunk.
ConfigsSqueezeRefill == { << 5, 0, 0, -2, NaN >> }
\* A squeeze of two pairs of class 4 into class 5, and nothing else.
ConfigsSqueezePairs == { << 0, 0, 0, -4, NaN >> }
\* Growing class 5 by one block beyond its two static ones.
ConfigsGrowByOne == { << 0, 0, 0, 0, 3, NaN >> }

HeapBound == pfree <= HeapLimit

Abs == INSTANCE AbstractPool

\* UMemoryPool implements the contract of AbstractPool.
AbsSpec == Abs!Spec

=============================================================================
