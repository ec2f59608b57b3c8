------------------------------ MODULE TimerAsync ------------------------------
(***************************************************************************)
(* UTimer's lists at the level of their pointers, with the program inside  *)
(* insert or erase one statement at a time and the SIGALRM handler         *)
(* (handlerAlarm -> setTimer -> run -> callHandlerTimeout) running to      *)
(* completion in between.  UTimer::init installs handlerAlarm with         *)
(* setHandlerForSignal (SYNC) or UInterrupt::insert (ASYNC, "async         *)
(* signal"); whether the handler may run between any two statements or    *)
(* only between two operations of the program (SignalAnywhere) depends on *)
(* UInterrupt, which is outside the sources, so both are checked.          *)
(*                                                                         *)
(* A pointer-to-pointer `ptr` (UTimer** in insertEntry and erase) is       *)
(* "first" for &first or a node n for &n->next.  Expiries are relative     *)
(* to now as in Timer; time passes only while both actors are idle.        *)
(***************************************************************************)
EXTENDS Naturals, Sequences, SequencesExt, Functions

CONSTANTS Nodes, Alarms, Interval, NoAlarm, Nil, SignalAnywhere

ASSUME AsyncAssumption ==
    /\ NoAlarm \notin Alarms /\ Nil \notin Nodes /\ "first" \notin Nodes
    /\ Interval \in [Alarms -> Nat \ {0}]
    /\ SignalAnywhere \in BOOLEAN

VARIABLES
    first, pool,   \* UTimer::first, UTimer::pool: a node or Nil
    next,          \* next[n]: UTimer::next of node n
    alarm,         \* alarm[n]: UTimer::alarm of node n
    rem,           \* rem[a]: expiry of alarm a minus now, floored at 0
    allocated,     \* nodes U_NEW created
    mpc,           \* the program's position inside insert / erase
    marg,          \* the alarm passed to insert / erase
    mitem,         \* the local `item` of insert or erase
    mnext,         \* pool->next as read by insert
    ptr,           \* the local UTimer** of insertEntry or erase
    hpc,           \* "none" or "run": the signal handler is inside run
    hitem,         \* the local `item` of run in the handler
    fault          \* the program dereferenced a null UTimer*

vars == <<first, pool, next, alarm, rem, allocated, mpc, marg, mitem, mnext,
          ptr, hpc, hitem, fault>>

N == Cardinality(Nodes)

\* *ptr
Deref(p) == IF p = "first" THEN first ELSE next[p]

\* *ptr = v
SetDeref(p, v) ==
    IF p = "first" THEN first' = v /\ UNCHANGED next
                   ELSE next' = [next EXCEPT ![p] = v] /\ UNCHANGED first

\* the nodes reached from p by following next, at most k of them
RECURSIVE ChainFrom(_, _)
ChainFrom(p, k) == IF p = Nil \/ k = 0 THEN <<>> ELSE <<p>> \o ChainFrom(next[p], k - 1)

ActiveChain == ChainFrom(first, N + 1)
PoolChain == ChainFrom(pool, N + 1)

\* UTimer::operator< on the alarms' expiries
Less(m, n) == rem[alarm[m]] < rem[alarm[n]]

\* the program may take its next step: the handler is not running
ProgramMay == hpc = "none" /\ ~fault

MStep(from, to) == mpc = from /\ ProgramMay /\ mpc' = to

Init ==
    /\ first = Nil /\ pool = Nil
    /\ next = [n \in Nodes |-> Nil]
    /\ alarm = [n \in Nodes |-> NoAlarm]
    /\ rem = [a \in Alarms |-> 0]
    /\ allocated = {}
    /\ mpc = "idle" /\ marg = NoAlarm /\ mitem = Nil /\ mnext = Nil
    /\ ptr = "first" /\ hpc = "none" /\ hitem = Nil /\ fault = FALSE

(***************************************************************************)
(* insert: `item = pool; pool = pool->next;` loads pool->next and then     *)
(* stores it into pool (two steps); with an empty pool it U_NEWs a node.   *)
(* `item->alarm = a` and insertEntry's a->setCurrentTime() touch only the  *)
(* program's own node and alarm and go with the store.                     *)
(***************************************************************************)
Arm(n, a) ==
    /\ alarm' = [alarm EXCEPT ![n] = a]
    /\ rem' = [rem EXCEPT ![a] = Interval[a]]

InsNew(a) ==
    /\ MStep("idle", "ins_check")
    /\ pool = Nil
    /\ Nodes \ allocated # {}
    /\ LET n == CHOOSE x \in Nodes \ allocated : TRUE
       IN  /\ mitem' = n
           /\ allocated' = allocated \cup {n}
           /\ next' = [next EXCEPT ![n] = Nil]
           /\ Arm(n, a)
    /\ marg' = a
    /\ UNCHANGED <<first, pool, mnext, ptr, hpc, hitem, fault>>

InsTake(a) ==
    /\ MStep("idle", "ins_setpool")
    /\ pool # Nil
    /\ marg' = a
    /\ mitem' = pool
    /\ mnext' = next[pool]
    /\ UNCHANGED <<first, pool, next, alarm, rem, allocated, ptr, hpc, hitem, fault>>

InsSetPool ==
    /\ MStep("ins_setpool", "ins_check")
    /\ pool' = mnext
    /\ Arm(mitem, marg)
    /\ UNCHANGED <<first, next, allocated, marg, mitem, mnext, ptr, hpc, hitem, fault>>

(***************************************************************************)
(* insertEntry: an empty list gets the node as its only entry; otherwise   *)
(* ptr = &first and each iteration of the do-while reads *ptr, stops when  *)
(* the node is strictly before it, else advances and stops at the end.     *)
(* The first iteration dereferences *ptr without a check (first was seen  *)
(* non-null by the test before it).                                       *)
(* `next = *ptr; *ptr = this;` are two stores.                             *)
(***************************************************************************)
InsCheck ==
    /\ mpc = "ins_check" /\ ProgramMay
    /\ IF first = Nil
       THEN /\ mpc' = "idle"
            /\ next' = [next EXCEPT ![mitem] = Nil]
            /\ first' = mitem
            /\ UNCHANGED ptr
       ELSE /\ mpc' = "ins_walk"
            /\ ptr' = "first"
            /\ UNCHANGED <<first, next>>
    /\ UNCHANGED <<pool, alarm, rem, allocated, marg, mitem, mnext, hpc, hitem, fault>>

InsWalk ==
    /\ mpc = "ins_walk" /\ ProgramMay
    /\ LET cur == Deref(ptr)
       IN  CASE cur = Nil ->
                    fault' = TRUE /\ UNCHANGED <<mpc, ptr>>
             [] Less(mitem, cur) ->
                    mpc' = "ins_link" /\ UNCHANGED <<ptr, fault>>
             [] OTHER ->
                    /\ ptr' = cur
                    /\ mpc' = IF next[cur] = Nil THEN "ins_link" ELSE "ins_walk"
                    /\ UNCHANGED fault
    /\ UNCHANGED <<first, pool, next, alarm, rem, allocated, marg, mitem, mnext, hpc, hitem>>

InsLinkNext ==
    /\ MStep("ins_link", "ins_link2")
    /\ next' = [next EXCEPT ![mitem] = Deref(ptr)]
    /\ UNCHANGED <<first, pool, alarm, rem, allocated, marg, mitem, mnext, ptr, hpc, hitem, fault>>

InsLinkPtr ==
    /\ MStep("ins_link2", "idle")
    /\ SetDeref(ptr, mitem)
    /\ UNCHANGED <<pool, alarm, rem, allocated, marg, mitem, mnext, ptr, hpc, hitem, fault>>

(***************************************************************************)
(* erase: `for (ptr = &first; (item = *ptr); ptr = &next of *ptr)`; on a   *)
(* match `*ptr = item->next`, then `item->alarm = 0; item->next = pool;`   *)
(* and `pool = item` (the last store is a step of its own).                *)
(***************************************************************************)
EraseBegin(a) ==
    /\ MStep("idle", "er_walk")
    /\ marg' = a
    /\ ptr' = "first"
    /\ UNCHANGED <<first, pool, next, alarm, rem, allocated, mitem, mnext, hpc, hitem, fault>>

EraseWalk ==
    /\ mpc = "er_walk" /\ ProgramMay
    /\ LET cur == Deref(ptr)
       IN  CASE cur = Nil -> mpc' = "idle" /\ UNCHANGED <<mitem, ptr>>
             [] alarm[cur] = marg -> mpc' = "er_unlink" /\ mitem' = cur /\ UNCHANGED ptr
             [] OTHER -> ptr' = cur /\ UNCHANGED <<mpc, mitem>>
    /\ UNCHANGED <<first, pool, next, alarm, rem, allocated, marg, mnext, hpc, hitem, fault>>

EraseUnlink ==
    /\ MStep("er_unlink", "er_free")
    /\ SetDeref(ptr, next[mitem])
    /\ UNCHANGED <<pool, alarm, rem, allocated, marg, mitem, mnext, ptr, hpc, hitem, fault>>

\* mutant: erase puts the node on the pool without `item->next = pool`
EraseFreeNoLink ==
    /\ MStep("er_free", "er_push")
    /\ alarm' = [alarm EXCEPT ![mitem] = NoAlarm]
    /\ UNCHANGED <<first, next, pool, rem, allocated, marg, mitem, mnext, ptr, hpc, hitem, fault>>

EraseFree ==
    /\ MStep("er_free", "er_push")
    /\ alarm' = [alarm EXCEPT ![mitem] = NoAlarm]
    /\ next' = [next EXCEPT ![mitem] = pool]
    /\ UNCHANGED <<first, pool, rem, allocated, marg, mitem, mnext, ptr, hpc, hitem, fault>>

ErasePush ==
    /\ MStep("er_push", "idle")
    /\ pool' = mitem
    /\ UNCHANGED <<first, next, alarm, rem, allocated, marg, mitem, mnext, ptr, hpc, hitem, fault>>

(***************************************************************************)
(* The SIGALRM handler: handlerAlarm -> setTimer -> run.  It is delivered  *)
(* while alarms are pending (an empty list is Timer's NoRunOnEmptyList),   *)
(* between two statements of the program or, without SignalAnywhere,       *)
(* only between two of its operations.                                     *)
(***************************************************************************)
HandlerStart ==
    /\ hpc = "none" /\ ~fault
    /\ first # Nil
    /\ SignalAnywhere \/ mpc = "idle"
    /\ hpc' = "run"
    /\ hitem' = first
    /\ UNCHANGED <<first, pool, next, alarm, rem, allocated, mpc, marg, mitem, mnext, ptr, fault>>

(***************************************************************************)
(* callHandlerTimeout in the handler: unlink first; a one-shot goes on the *)
(* pool, a monitor is re-armed and insertEntry links it back in front of   *)
(* the first node it is strictly before (the program is suspended, so the  *)
(* whole walk is one step).  run saved item->next before the call.         *)
(***************************************************************************)
HandlerStep(oneShot) ==
    /\ hpc = "run"
    /\ hitem # Nil /\ rem[alarm[hitem]] = 0
    /\ hitem' = next[hitem]
    /\ LET h == first
           rest == next[h]
       IN  IF oneShot
           THEN /\ first' = rest
                /\ alarm' = [alarm EXCEPT ![h] = NoAlarm]
                /\ next' = [next EXCEPT ![h] = pool]
                /\ pool' = h
                /\ UNCHANGED rem
           ELSE LET R == [rem EXCEPT ![alarm[h]] = Interval[alarm[h]]]
                    L == ChainFrom(rest, N + 1)
                    pos == SelectInSeq(L, LAMBDA m : R[alarm[h]] < R[alarm[m]])
                    prev == L[IF pos = 0 THEN Len(L) ELSE pos - 1]
                IN  /\ rem' = R
                    /\ IF L = <<>> \/ pos = 1
                       THEN first' = h /\ next' = [next EXCEPT ![h] = rest]
                       ELSE /\ first' = rest
                            /\ next' = [next EXCEPT ![h] = next[prev], ![prev] = h]
                    /\ UNCHANGED <<alarm, pool>>
    /\ UNCHANGED <<allocated, mpc, marg, mitem, mnext, ptr, hpc, fault>>

\* the loop of run ends; the rest of setTimer re-arms the itimer
HandlerExit ==
    /\ hpc = "run"
    /\ ~(hitem # Nil /\ rem[alarm[hitem]] = 0)
    /\ hpc' = "none"
    /\ hitem' = Nil
    /\ UNCHANGED <<first, pool, next, alarm, rem, allocated, mpc, marg, mitem, mnext, ptr, fault>>

\* time passes while neither actor is inside an operation
Tick ==
    /\ hpc = "none" /\ mpc = "idle" /\ ~fault
    /\ rem' = [a \in Alarms |-> IF rem[a] > 0 THEN rem[a] - 1 ELSE 0]
    /\ UNCHANGED <<first, pool, next, alarm, allocated, mpc, marg, mitem, mnext, ptr, hpc, hitem, fault>>

\* UTimer::isHandler(a), which callers check before inserting a
IsHandler(a) == \E i \in 1..Len(ActiveChain) : alarm[ActiveChain[i]] = a

Next ==
    \/ \E a \in Alarms :
          \/ ~IsHandler(a) /\ (InsNew(a) \/ InsTake(a))
          \/ IsHandler(a) /\ EraseBegin(a)
    \/ InsSetPool \/ InsCheck \/ InsWalk \/ InsLinkNext \/ InsLinkPtr
    \/ EraseWalk \/ EraseUnlink \/ EraseFree \/ ErasePush
    \/ HandlerStart \/ (\E oneShot \in BOOLEAN : HandlerStep(oneShot)) \/ HandlerExit
    \/ Tick

Spec == Init /\ [][Next]_vars

-----------------------------------------------------------------------------

\* the node the program holds outside both lists in the middle of an operation
Held == IF mpc \in {"ins_check", "ins_walk", "ins_link", "ins_link2", "er_free", "er_push"}
        THEN {mitem} ELSE {}

(***************************************************************************)
(* The active list and the pool are two disjoint, acyclic chains; every    *)
(* node U_NEW created is on one of them or is the node insert or erase is  *)
(* moving; no pooled node holds an alarm.  A node lost here is a leak, a   *)
(* node on both chains is handed out twice.                                *)
(***************************************************************************)
ListsWellFormed ==
    LET A == ActiveChain
        P == PoolChain
    IN  /\ Len(A) <= N /\ Len(P) <= N
        /\ IsInjective(A \o P)
        /\ Held \cap (ToSet(A) \cup ToSet(P)) = {}
        /\ allocated = ToSet(A) \cup ToSet(P) \cup Held
        /\ \A n \in ToSet(P) : alarm[n] = NoAlarm

=============================================================================
