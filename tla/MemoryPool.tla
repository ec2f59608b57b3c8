----------------------------- MODULE MemoryPool -----------------------------
(***************************************************************************)
(* UMemoryPool and UStackMemoryPool (src/src/ulib/internal/               *)
(* memory_pool.cpp): one stack of free blocks per size class, refilled    *)
(* from a larger class or from UFile::mmap when empty, with a pointer     *)
(* array that grows through mmap and is released through deallocate.     *)
(*                                                                         *)
(* The allocator is single-threaded: every public call runs to completion *)
(* before the next, so each call is one atomic action.  The calls nest    *)
(* (pop -> allocateMemoryBlocks -> _malloc -> pop of a larger class), so  *)
(* the state is handled as a record S = [stack, pfree, unmapped] passed   *)
(* through operators that return the new record and their results.       *)
(*                                                                         *)
(* Addresses are byte addresses.  The memory provider under UFile::mmap   *)
(* and UMemoryPool::deallocate lies outside the sources and is modelled  *)
(* from its contract: a bump region starting at HeapBase whose free part  *)
(* starts at pfree, sizes rounded up to PageSize, and released ranges.   *)
(***************************************************************************)
EXTENDS SizeClass, Sequences, Bags, Functions

CONSTANTS
  NumEntryMemBlock,     \* U_NUM_ENTRY_MEM_BLOCK: static blocks per class
  PtrSize,              \* sizeof(void*)
  PageSize,             \* granularity of UFile::mmap
  MemBlockBase,         \* &UStackMemoryPool::mem_block[0]
  MemPointerBlockBase,  \* &UStackMemoryPool::mem_pointer_block[0]
  HeapBase,             \* first address UFile::mmap hands out
  NaN,                  \* a preallocation token strtol does not parse
  Configs,              \* preallocation strings, as token sequences
  Requests,             \* <<num, type_size>> pairs callers pass to _malloc
  MaxHeld               \* bound: blocks the callers hold at once

N == NumEntryMemBlock

\* U_SIZE_MEM_BLOCK and the start of each class's part of mem_block (U_SPACE).
MemBlockOf(i) ==
  MemBlockBase + SumFunctionOnSet([j \in StackIndex |-> StackType[j] * N], {j \in StackIndex : j < i})
SizeMemBlock == MemBlockOf(NumStackType) - MemBlockBase

\* Class i's part of mem_pointer_block, and the end of the whole array.
PointerSection(i) == MemPointerBlockBase + i * N * 2 * PtrSize
MemPointerBlockEnd == PointerSection(NumStackType)

ASSUME LayoutAssumption ==
  /\ N \in Nat \ {0} /\ PtrSize = StackType[0] /\ PageSize \in Nat \ {0}
  /\ MemBlockBase + SizeMemBlock <= MemPointerBlockBase
  /\ MemPointerBlockEnd <= HeapBase

\* Every preallocation string is well formed for the parsing loop: empty,
\* with an entry for each class 1 .. 9, or cut short by a character strtol
\* stops at.  A shorter string makes the loop read past its terminator.
ASSUME ConfigsAssumption ==
  \A t \in Configs : Len(t) = 0 \/ Len(t) = NumStackType - 1 \/ \E j \in 1 .. Len(t) : t[j] = NaN

VARIABLES
  mem_stack,   \* UStackMemoryPool::mem_stack[i]: [pb, len, space, slots]
  pfree,       \* start of the provider's free bump space (UFile::pfree)
  unmapped,    \* ranges <<lo, hi>> released by madvise/munmap
  held,        \* bag of blocks the library has allocated and not freed
  phase,       \* "boot" before UMemoryPool::allocateMemoryBlocks(config)
  assertFailed \* a debug-build U_INTERNAL_ASSERT of the squeeze failed

vars == << mem_stack, pfree, unmapped, held, phase, assertFailed >>

Sys == [stack |-> mem_stack, pfree |-> pfree, unmapped |-> unmapped]

SetSys(S) == /\ mem_stack' = S.stack /\ pfree' = S.pfree /\ unmapped' = S.unmapped

(***************************************************************************)
(* Memory provider (UFile, outside the sources).                          *)
(***************************************************************************)
\* Faulty variant: rounds down to the page instead of up.
GetSizeAlignedDown(n) == (n \div PageSize) * PageSize

GetSizeAligned(n) == ((n + PageSize - 1) \div PageSize) * PageSize

\* UFile::mmap(&size, ...): maps at pfree, returns the rounded size.
MMap(S, size) ==
  LET len == GetSizeAligned(size)
  IN  [s   |-> [S EXCEPT !.pfree    = @ + len,
                         !.unmapped = {r \in @ : r[2] <= S.pfree \/ r[1] >= S.pfree + len}],
       ptr |-> S.pfree,
       len |-> len]

IsLastAllocation(S, ptr, length) == ptr + length = S.pfree

\* UMemoryPool::deallocate: the tail goes back to the bump space, anything
\* else is released with madvise(MADV_DONTNEED) or, with huge pages, munmap.
Deallocate(S, ptr, length) ==
  IF IsLastAllocation(S, ptr, length)
  THEN [S EXCEPT !.pfree = ptr]
  ELSE [S EXCEPT !.unmapped = @ \cup {<< ptr, ptr + length >>}]

(***************************************************************************)
(* UStackMemoryPool.                                                      *)
(***************************************************************************)
\* mem_stack[] as initialised: class i uses its part of mem_pointer_block,
\* whose first N entries point at its part of mem_block; class 0 hands out
\* the slots of its pointer array themselves.
InitStack(i) ==
  [pb    |-> PointerSection(i),
   len   |-> N,
   space |-> 2 * N,
   slots |-> IF i = 0 THEN << >>
                      ELSE [k \in 1 .. N |-> MemBlockOf(i) + (k - 1) * StackType[i]]]

DeallocatePointerBlock(S, i) ==
  LET st == S.stack[i]
  IN  IF st.pb < MemPointerBlockBase \/ st.pb > MemPointerBlockEnd
      THEN Deallocate(S, st.pb, st.space * PtrSize)
      ELSE S

\* Faulty variant: installs the new array before releasing the old one, so
\* deallocatePointerBlock gives back the array just mapped.
GrowPointerBlockFreesNew(S, i, new_space) ==
  LET m == MMap(S, new_space * PtrSize)
  IN  DeallocatePointerBlock([m.s EXCEPT !.stack[i].space = m.len \div PtrSize,
                                         !.stack[i].pb    = m.ptr], i)

\* The live prefix is copied, so slots is unchanged.
GrowPointerBlock(S, i, new_space) ==
  LET m  == MMap(S, new_space * PtrSize)
      S1 == DeallocatePointerBlock(m.s, i)
  IN  [S1 EXCEPT !.stack[i].space = m.len \div PtrSize,
                 !.stack[i].pb    = m.ptr]

\* allocateMemoryBlocks for class 0: one region whose slots are the blocks.
MapClass0(S, n) ==
  LET m == MMap(S, (n - S.stack[0].len) * StackType[0])
  IN  [m.s EXCEPT !.stack[0].pb    = m.ptr,
                  !.stack[0].len   = m.len \div StackType[0],
                  !.stack[0].space = m.len \div StackType[0]]

\* Faulty variant: never grows the pointer array before appending a chunk.
AppendChunkNoGrow(r, i) ==
  [r.s EXCEPT !.stack[i].slots = @ \o [k \in 1 .. r.num |-> r.ptr + (r.num - k) * StackType[i]],
              !.stack[i].len   = @ + r.num]

\* allocateMemoryBlocks for class i > 0, once _malloc(&num_entry, type)
\* returned the chunk r = [s, ptr, num]: new_len is computed from len as it
\* is after the call, the array grows when space <= new_len, and the
\* chunk is pushed from its high end down.
AppendChunk(r, i) ==
  LET newLen == r.s.stack[i].len + r.num
      S1     == IF r.s.stack[i].space <= newLen
                THEN GrowPointerBlock(r.s, i, r.s.stack[i].space + r.num)
                ELSE r.s
  IN  [S1 EXCEPT !.stack[i].slots = @ \o [k \in 1 .. r.num |-> r.ptr + (r.num - k) * StackType[i]],
                 !.stack[i].len   = @ + r.num]

\* Faulty variant: class 0 hands out the slot below the top one.
PopTopClass0Below(S1, i) ==
  LET st == S1.stack[i]
  IN  [s   |-> [S1 EXCEPT !.stack[i].len   = @ - 1,
                          !.stack[i].slots = IF i = 0 THEN @ ELSE SubSeq(@, 1, st.len - 1)],
       ptr |-> IF i = 0 THEN st.pb + (st.len - 2) * PtrSize ELSE st.slots[st.len]]

\* pop once the stack is non-empty: --len, and the slot itself for class 0.
PopTop(S1, i) ==
  LET st == S1.stack[i]
  IN  [s   |-> [S1 EXCEPT !.stack[i].len   = @ - 1,
                          !.stack[i].slots = IF i = 0 THEN @ ELSE SubSeq(@, 1, st.len - 1)],
       ptr |-> IF i = 0 THEN st.pb + (st.len - 1) * PtrSize ELSE st.slots[st.len]]

\* The chunk _malloc(&num, type) returns: mapped, or popped from class i.
MappedChunk(m, type) == [s |-> m.s, ptr |-> m.ptr, num |-> m.len \div type]
PoppedChunk(p, i, type) == [s |-> p.s, ptr |-> p.ptr, num |-> StackType[i] \div type]

(***************************************************************************)
(* pop -> allocateMemoryBlocks -> _malloc(&num) -> pop of another class.  *)
(* Each recursive body uses the result of its nested call once and hands *)
(* it to one of the operators above.                                     *)
(***************************************************************************)
RECURSIVE Pop(_, _), AllocateMemoryBlocks(_, _, _), MallocN(_, _, _)

AllocateMemoryBlocks(S, i, n) ==
  IF i = 0 THEN MapClass0(S, n)
           ELSE AppendChunk(MallocN(S, n - S.stack[i].len, StackType[i]), i)

Pop(S, i) ==
  PopTop(IF S.stack[i].len = 0 THEN AllocateMemoryBlocks(S, i, S.stack[i].space) ELSE S, i)

\* UMemoryPool::_malloc(&num, type_size): also reports how many objects of
\* type_size fit in what was granted.
MallocN(S, num, type) ==
  IF num * type > MaxSizePreallocate
  THEN MappedChunk(MMap(S, num * type), type)
  ELSE PoppedChunk(Pop(S, SizeToStackIndex(num * type)), SizeToStackIndex(num * type), type)

\* Faulty variant: stores the entry without counting it.
PushNoCount(S, i, ptr) ==
  LET S1 == IF S.stack[i].len = S.stack[i].space THEN GrowPointerBlock(S, i, S.stack[i].space * 2) ELSE S
  IN  [S1 EXCEPT !.stack[i].slots = Append(@, ptr)]

Push(S, i, ptr) ==
  LET S1 == IF S.stack[i].len = S.stack[i].space THEN GrowPointerBlock(S, i, S.stack[i].space * 2) ELSE S
  IN  [S1 EXCEPT !.stack[i].slots = Append(@, ptr),
                 !.stack[i].len   = @ + 1]

(***************************************************************************)
(* UMemoryPool.                                                           *)
(***************************************************************************)
\* UMemoryPool::push: class 0 blocks are never given back.
UPush(S, ptr, i) == IF i # 0 THEN Push(S, i, ptr) ELSE S

\* A block popped from class i, reported with the class's size.
PoppedBlock(p, i) == [s |-> p.s, ptr |-> p.ptr, len |-> StackType[i]]

\* UMemoryPool::_malloc(num, type_size): returns [s, ptr, len].
Malloc(S, num, type) ==
  LET length == num * type
  IN  IF length <= MaxSizePreallocate
      THEN PoppedBlock(Pop(S, SizeToStackIndex(length)), SizeToStackIndex(length))
      ELSE MMap(S, length)

\* UMemoryPool::_free(ptr, num, type_size).
Free(S, ptr, num, type) ==
  LET length == num * type
  IN  IF length <= MaxSizePreallocate
      THEN UPush(S, ptr, SizeToStackIndex(length))
      ELSE Deallocate(S, ptr, GetSizeAligned(length))

\* UMemoryPool::allocateMemoryBlocks(stack_index, n): grow to n blocks.
UAllocateMemoryBlocks(S, i, n) ==
  IF n > S.stack[i].len THEN AllocateMemoryBlocks(S, i, n) ELSE S

\* The parsing loop of allocateMemoryBlocks(config): one strtol per
\* class from index 1, stopping at the first token it cannot parse.
ParseMemBlock(tokens) ==
  [i \in StackIndex |->
     IF i > 0 /\ i <= Len(tokens) /\ \A j \in 1 .. i : tokens[j] # NaN
     THEN tokens[i] ELSE 0]

\* The evened count of a negative entry: memblock[i] += memblock[i] & 1.
EvenCount(c) == c + (c % 2)

\* The second block popped, pushed as one block of class i+1.
PushSecond(p2, i) == Push(p2.s, i + 1, p2.ptr)

(***************************************************************************)
(* The squeeze loop: pop two blocks from the class pstack points at and    *)
(* push the second popped as one block of class i+1, until the (evened)  *)
(* counter reaches 0.  pstack starts at class i and is moved to class i+1 *)
(* inside the loop, so every pair after the first is popped from i+1.    *)
(***************************************************************************)
RECURSIVE Squeeze(_, _, _, _), SqueezeWhile(_, _, _)

Squeeze(S, i, pstack, count) ==
  SqueezeWhile(PushSecond(Pop(Pop(S, pstack).s, pstack), i), i, count + 2)

SqueezeWhile(S, i, count) ==
  IF count < 0 THEN Squeeze(S, i, i + 1, count) ELSE [s |-> S, count |-> count]

\* The debug assertions before the squeeze of class i.
SqueezeAsserts(i) ==
  /\ i < NumStackType - 1
  /\ StackType[i] * 2 = StackType[i + 1]

\* The squeeze's result, with its closing assertion memblock[i] == 0.
Squeezed(sq, ok) == [s |-> sq.s, ok |-> ok /\ sq.count = 0]

\* One class of the loop of allocateMemoryBlocks(config), on R = [s, ok]
\* where ok says every debug assertion so far held.
PreallocateStep(R, c, i) ==
  CASE c > 0                         -> [s |-> UAllocateMemoryBlocks(R.s, i, c), ok |-> R.ok]
    [] c < 0 /\ i < NumStackType - 1 -> Squeezed(Squeeze(R.s, i, i, EvenCount(c)), R.ok /\ SqueezeAsserts(i))
    [] c < 0                         -> [s |-> R.s, ok |-> R.ok /\ SqueezeAsserts(i)]
    [] OTHER                         -> R

RECURSIVE PreallocateFrom(_, _, _)
PreallocateFrom(R, memblock, i) ==
  IF i = NumStackType THEN R
  ELSE PreallocateFrom(PreallocateStep(R, memblock[i], i), memblock, i + 1)

(***************************************************************************)
(* Actions.                                                               *)
(***************************************************************************)
Block == [ptr : Nat, num : Nat, type : Nat, size : Nat]

Init ==
  /\ mem_stack = [i \in StackIndex |-> InitStack(i)]
  /\ pfree = HeapBase
  /\ unmapped = {}
  /\ held = EmptyBag
  /\ phase = "boot"
  /\ assertFailed = FALSE

\* UMemoryPool::allocateMemoryBlocks(config), run once at start-up.
Preallocate(tokens) ==
  LET r == PreallocateFrom([s |-> Sys, ok |-> TRUE], ParseMemBlock(tokens), 1)
  IN  /\ phase = "boot"
      /\ SetSys(r.s)
      /\ assertFailed' = ~r.ok
      /\ phase' = "serve"
      /\ UNCHANGED held

\* A caller's UMemoryPool::_malloc(num, type_size).
Allocate(num, type) ==
  LET r == Malloc(Sys, num, type)
  IN  /\ phase = "serve"
      /\ SetSys(r.s)
      /\ held' = held (+) SetToBag({[ptr |-> r.ptr, num |-> num, type |-> type, size |-> r.len]})
      /\ UNCHANGED << phase, assertFailed >>

\* The caller's UMemoryPool::_free(ptr, num, type_size) of a block it holds.
Release(b) ==
  /\ phase = "serve"
  /\ SetSys(Free(Sys, b.ptr, b.num, b.type))
  /\ held' = held (-) SetToBag({b})
  /\ UNCHANGED << phase, assertFailed >>

\* The steps of a program whose preallocation strings are cfgs and whose
\* callers make the requests reqs.
NextFor(cfgs, reqs) ==
  \/ \E t \in cfgs : Preallocate(t)
  \/ \E r \in reqs : /\ BagCardinality(held) < MaxHeld
                     /\ Allocate(r[1], r[2])
  \/ \E b \in BagToSet(held) : Release(b)

Next == NextFor(Configs, Requests)

Spec == Init /\ [][Next]_vars

(***************************************************************************)
(* Properties.                                                            *)
(***************************************************************************)
StackRec == [pb : Nat, len : Nat, space : Nat, slots : Seq(Nat)]

TypeOK ==
  /\ mem_stack \in [StackIndex -> StackRec]
  /\ mem_stack[0].slots = << >>
  /\ \A i \in StackIndex \ {0} : Len(mem_stack[i].slots) = mem_stack[i].len
  /\ pfree \in Nat /\ unmapped \subseteq Nat \X Nat
  /\ IsABag(held) /\ BagToSet(held) \subseteq Block
  /\ phase \in {"boot", "serve"} /\ assertFailed \in BOOLEAN

\* Every byte range the pool owns or has handed out: free blocks (class 0's
\* are the live prefix of its pointer array), the pointer arrays of the
\* other classes, and the blocks the callers hold.
LiveRegions ==
  LET st(i) == mem_stack[i]
  IN  { [lo |-> st(0).pb, hi |-> st(0).pb + st(0).len * PtrSize, who |-> << "free", 0, 0 >>] :
          x \in IF st(0).len > 0 THEN {0} ELSE {} }
      \cup UNION { { [lo |-> st(i).slots[k], hi |-> st(i).slots[k] + StackType[i], who |-> << "free", i, k >>] :
                       k \in 1 .. st(i).len } : i \in StackIndex \ {0} }
      \cup { [lo |-> st(i).pb, hi |-> st(i).pb + st(i).space * PtrSize, who |-> << "array", i, 0 >>] :
               i \in StackIndex \ {0} }
      \cup { [lo |-> b.ptr, hi |-> b.ptr + b.size, who |-> << "held", b.ptr, b.type >>] : b \in BagToSet(held) }

Overlap(r1, r2) == r1.lo < r2.hi /\ r2.lo < r1.hi

(***************************************************************************)
(* No byte is in two places at once: no block is handed out twice, no    *)
(* free block overlaps another free block, a held block or a pointer     *)
(* array, across all classes.  Broken by a refill, squeeze or growth that *)
(* slices or merges blocks wrongly (allocateMemoryBlocks, the squeeze of *)
(* allocateMemoryBlocks(config), growPointerBlock).                 *)
(***************************************************************************)
NoAliasing ==
  /\ \A b \in BagToSet(held) : CopiesIn(b, held) = 1
  /\ \A r1, r2 \in LiveRegions : r1 # r2 => ~Overlap(r1, r2)

InStaticStorage(r) ==
  \/ MemBlockBase <= r.lo /\ r.hi <= MemBlockBase + SizeMemBlock
  \/ MemPointerBlockBase <= r.lo /\ r.hi <= MemPointerBlockEnd

(***************************************************************************)
(* Everything live lies in the static arrays or in memory the provider    *)
(* has mapped and not taken back: below pfree and outside every range    *)
(* released by deallocate.  Broken when deallocate or                    *)
(* deallocatePointerBlock gives back memory that is still in use.        *)
(***************************************************************************)
LiveMemoryMapped ==
  \A r \in LiveRegions :
     \/ InStaticStorage(r)
     \/ /\ HeapBase <= r.lo /\ r.hi <= pfree
        /\ \A u \in unmapped : u[2] <= r.lo \/ r.hi <= u[1]

(***************************************************************************)
(* A stack never holds more entries than its pointer array has room for: *)
(* push grows the array when full, allocateMemoryBlocks before appending *)
(* a chunk, also when the chunk came from the same class's own stack.    *)
(***************************************************************************)
StackWithinCapacity ==
  \A i \in StackIndex : mem_stack[i].len <= mem_stack[i].space

(***************************************************************************)
(* After preallocation every class configured with a positive count n     *)
(* holds at least n free blocks: allocateMemoryBlocks(n) is called to     *)
(* bring the stack up to n entries.                                      *)
(***************************************************************************)
PreallocateReachesTarget ==
  [][\A t \in Configs :
       Preallocate(t) =>
         \A i \in StackIndex :
            ParseMemBlock(t)[i] > 0 => mem_stack'[i].len >= ParseMemBlock(t)[i]]_vars

\* A preallocation string whose only non-zero entry is a squeeze of class i.
SingleSqueeze(t, i) ==
  /\ ParseMemBlock(t)[i] < 0
  /\ \A j \in StackIndex \ {i} : ParseMemBlock(t)[j] = 0

(***************************************************************************)
(* A squeeze of |c| blocks of class i (c evened) moves them pairwise up:   *)
(* class i+1 gains one block per pair, as the configuration format of     *)
(* allocateMemoryBlocks(config) describes negative entries.              *)
(***************************************************************************)
SqueezeMovesPairsUp ==
  [][\A t \in Configs, i \in StackIndex :
       Preallocate(t) /\ SingleSqueeze(t, i) /\ i < NumStackType - 1 =>
         mem_stack'[i + 1].len = mem_stack[i + 1].len + (-EvenCount(ParseMemBlock(t)[i])) \div 2]_vars

=============================================================================
