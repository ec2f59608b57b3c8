---------------------------- MODULE AbstractPool ----------------------------
(***************************************************************************)
(* What UMemoryPool promises its callers, whatever the size classes,      *)
(* stacks and provider underneath: _malloc(num, type_size) hands out a   *)
(* block of at least num * type_size bytes that overlaps no block the    *)
(* callers still hold, and _free takes back exactly the block freed.     *)
(* Nothing else changes the set of held blocks.                          *)
(*                                                                         *)
(* The actions constrain the new value of held rather than construct it, *)
(* so this module is checked as a property of an implementation.         *)
(***************************************************************************)
EXTENDS Naturals, Bags

VARIABLE held   \* bag of [ptr, num, type, size] blocks the callers hold

Disjoint(b, c) == b.ptr + b.size <= c.ptr \/ c.ptr + c.size <= b.ptr

\* A new block, large enough and apart from every block already held.
Alloc ==
  \E b \in BagToSet(held') :
     /\ held' = held (+) SetToBag({b})
     /\ b.size >= b.num * b.type
     /\ \A c \in BagToSet(held) : Disjoint(b, c)

\* One held block is given back.
Free ==
  \E b \in BagToSet(held) : held' = held (-) SetToBag({b})

Init == held = EmptyBag

Spec == Init /\ [][Alloc \/ Free]_held

=============================================================================
