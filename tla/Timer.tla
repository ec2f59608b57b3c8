-------------------------------- MODULE Timer --------------------------------
(***************************************************************************)
(* UTimer (src/ulib/timer.cpp, include/ulib/timer.h): the process-wide     *)
(* list of pending alarms.  `first` is the active list, kept sorted by     *)
(* expiry; `pool` is the free list of recycled list nodes.  An alarm is    *)
(* a UEventTime whose handlerTime() callback says whether it is a one-shot *)
(* (non-zero: the node goes back to the pool) or a monitor (zero: it is    *)
(* re-armed from the current time and re-inserted).                        *)
(*                                                                         *)
(* Time is kept relative to now: rem[a] is a's expiry minus now, floored   *)
(* at 0 ("already due").  The floor never changes a comparison the code   *)
(* makes, because every value insertEntry compares against is a freshly   *)
(* set interval >= 1.  itimer is ITIMER_REAL's it_value, 0 meaning         *)
(* disarmed; when it counts down to 0 SIGALRM becomes pending.             *)
(*                                                                         *)
(* run() is a loop; its iterations are steps (pc = "run") during which     *)
(* nothing else happens: run reads the time once (timeout1) and in this    *)
(* model the signal handler is only delivered between two operations of   *)
(* the main program.                                                       *)
(***************************************************************************)
EXTENDS Naturals, Sequences, SequencesExt, Functions

CONSTANTS
    Nodes,                \* UTimer objects U_NEW can create (bound on nodes)
    Alarms,               \* UEventTime objects the program passes to insert
    Interval,             \* Interval[a]: a->tv_sec, the period of alarm a
    NoAlarm,              \* a null UEventTime* (item->alarm = 0)
    Nil,                  \* a null UTimer*
    Modes                 \* the values UTimer::init may be given as mode

ASSUME TimerAssumption ==
    /\ NoAlarm \notin Alarms /\ Nil \notin Nodes
    /\ Interval \in [Alarms -> Nat \ {0}]
    /\ Modes \subseteq {"SYNC", "ASYNC", "NOSIGNAL"} /\ Modes # {}

MaxInterval == Max({Interval[a] : a \in Alarms})

VARIABLES
    first,       \* UTimer::first, the active list, as the sequence of its nodes
    pool,        \* UTimer::pool, the free list
    allocated,   \* nodes created by U_NEW(UTimer) and not yet deleted
    alarm,       \* alarm[n]: UTimer::alarm of node n
    rem,         \* rem[a]: a->ctime + a->tv_sec - now, floored at 0
    itimer,      \* UInterrupt::timerval.it_value as last given to setitimer
    sigpending,  \* SIGALRM raised and not yet handled
    pc,          \* "idle" or "run" (inside the loop of UTimer::run)
    caller,      \* who called run: "getTimeout" or "setTimer"
    item,        \* the local `item` of UTimer::run
    crashed,     \* run dereferenced a null `first`
    mode         \* UTimer::mode

vars == <<first, pool, allocated, alarm, rem, itimer, sigpending, pc, caller,
          item, crashed, mode>>

FreeNodes == Nodes \ allocated

\* UTimer::empty
Empty == first = <<>>

\* UTimer::isHandler: some node of the active list holds alarm a
IsHandler(a) == \E i \in 1..Len(first) : alarm[first[i]] = a

\* mutant: the expiry is set one unit past now + tv_sec
SetCurrentTimeLate(a) == [rem EXCEPT ![a] = Interval[a] + 1]

\* UEventTime::setCurrentTime: a's expiry becomes now + tv_sec
SetCurrentTime(a) == [rem EXCEPT ![a] = Interval[a]]

\* mutant: isExpired compares strictly (expire < now)
ExpiredStrict(n) == rem[alarm[n]] < 0

\* UEventTime::isExpired / isExpiredWithTolerance at the model's granularity
Expired(n) == rem[alarm[n]] = 0

\* UTimer::insertEntry: the walk stops at the first node node n is strictly
\* before (operator<), so n goes after every node with an equal expiry.
\* A and R are the alarm and expiry functions after setCurrentTime.
InsertEntry(list, n, A, R) ==
    LET pos == SelectInSeq(list, LAMBDA m : R[A[n]] < R[A[m]])
    IN  IF pos = 0 THEN Append(list, n) ELSE InsertAt(list, pos, n)

\* item->next, read while item is on the active list
NextOf(n) ==
    LET i == CHOOSE j \in 1..Len(first) : first[j] = n
    IN  IF i = Len(first) THEN Nil ELSE first[i + 1]

\* the test at label `loop` of UTimer::run: item is not null and expired
LoopContinues == item # Nil /\ Expired(item)

Idle == pc = "idle" /\ ~crashed

(***************************************************************************)
(* UTimer::init: the mode is fixed, the lists are empty, no itimer.        *)
(***************************************************************************)
Init ==
    /\ first = <<>>
    /\ pool = <<>>
    /\ allocated = {}
    /\ alarm = [n \in Nodes |-> NoAlarm]
    /\ rem = [a \in Alarms |-> 0]
    /\ itimer = 0
    /\ sigpending = FALSE
    /\ pc = "idle"
    /\ caller = "getTimeout"
    /\ item = Nil
    /\ crashed = FALSE
    /\ mode \in Modes

\* mutant: insert reuses the pool's head without `pool = pool->next`
InsertKeepPool(a) ==
    /\ Idle
    /\ ~IsHandler(a)
    /\ pool # <<>> \/ FreeNodes # {}
    /\ LET n == IF pool = <<>> THEN CHOOSE x \in FreeNodes : TRUE ELSE Head(pool)
       IN  /\ allocated' = allocated \cup {n}
           /\ alarm' = [alarm EXCEPT ![n] = a]
           /\ rem' = SetCurrentTime(a)
           /\ first' = InsertEntry(first, n, alarm', rem')
    /\ UNCHANGED <<pool, itimer, sigpending, pc, caller, item, crashed, mode>>

\* mutant: insertEntry without alarm->setCurrentTime()
InsertNoSetCurrentTime(a) ==
    /\ Idle
    /\ ~IsHandler(a)
    /\ pool # <<>> \/ FreeNodes # {}
    /\ LET n == IF pool = <<>> THEN CHOOSE x \in FreeNodes : TRUE ELSE Head(pool)
       IN  /\ pool' = IF pool = <<>> THEN pool ELSE Tail(pool)
           /\ allocated' = allocated \cup {n}
           /\ alarm' = [alarm EXCEPT ![n] = a]
           /\ first' = InsertEntry(first, n, alarm', rem)
    /\ UNCHANGED <<rem, itimer, sigpending, pc, caller, item, crashed, mode>>

(***************************************************************************)
(* UTimer::insert(a): take the pool's head, or U_NEW a node when the pool  *)
(* is empty, point it at a, and insertEntry it (which first calls          *)
(* a->setCurrentTime()).  Callers that keep the discipline never insert an *)
(* alarm that isHandler already reports.                                   *)
(***************************************************************************)
Insert(a) ==
    /\ Idle
    /\ ~IsHandler(a)
    /\ pool # <<>> \/ FreeNodes # {}
    /\ LET n == IF pool = <<>> THEN CHOOSE x \in FreeNodes : TRUE ELSE Head(pool)
           R == SetCurrentTime(a)
       IN  /\ pool' = IF pool = <<>> THEN pool ELSE Tail(pool)
           /\ allocated' = allocated \cup {n}
           /\ alarm' = [alarm EXCEPT ![n] = a]
           /\ rem' = R
           /\ first' = InsertEntry(first, n, alarm', R)
    /\ UNCHANGED <<itimer, sigpending, pc, caller, item, crashed, mode>>

(***************************************************************************)
(* UTimer::erase(a): unlink the FIRST node holding a and push it on the    *)
(* pool.  When no node holds a the loop ends without a change (a stutter). *)
(***************************************************************************)
Erase(a) ==
    /\ Idle
    /\ IsHandler(a)
    /\ LET i == SelectInSeq(first, LAMBDA m : alarm[m] = a)
       IN  /\ first' = RemoveAt(first, i)
           /\ alarm' = [alarm EXCEPT ![first[i]] = NoAlarm]
           /\ pool' = <<first[i]>> \o pool
    /\ UNCHANGED <<allocated, rem, itimer, sigpending, pc, caller, item, crashed, mode>>

(***************************************************************************)
(* UTimer::clear: disarm the itimer (unless NOSIGNAL), null every alarm    *)
(* pointer and delete both lists (~UTimer deletes the `next` chain).  A    *)
(* SIGALRM already raised stays pending.                                   *)
(***************************************************************************)
Clear ==
    /\ Idle
    /\ itimer' = IF mode # "NOSIGNAL" THEN 0 ELSE itimer
    /\ first' = <<>>
    /\ pool' = <<>>
    /\ allocated' = {}
    /\ alarm' = [n \in Nodes |-> NoAlarm]
    /\ UNCHANGED <<rem, sigpending, pc, caller, item, crashed, mode>>

(***************************************************************************)
(* The first lines of UTimer::run: read the time and set item = first.     *)
(* There is no null check: with an empty list `item->alarm` dereferences   *)
(* a null pointer (the DEBUG build asserts instead).                       *)
(***************************************************************************)
RunStart(c) ==
    \/ /\ first = <<>>
       /\ crashed' = TRUE
       /\ UNCHANGED <<pc, caller, item, mode>>
    \/ /\ first # <<>>
       /\ pc' = "run"
       /\ caller' = c
       /\ item' = Head(first)
       /\ UNCHANGED <<crashed, mode>>

\* UTimer::getTimeout: `first && (run(), first)`
GetTimeout ==
    /\ Idle
    /\ ~Empty
    /\ RunStart("getTimeout")
    /\ UNCHANGED <<first, pool, allocated, alarm, rem, itimer, sigpending>>

\* UTimer::setTimer called by the program (never in NOSIGNAL mode).  The
\* program keeps run's precondition (DEBUG: U_INTERNAL_ASSERT_POINTER(item))
\* and calls it only with a non-empty list; the signal handler cannot.
SetTimer ==
    /\ Idle
    /\ mode # "NOSIGNAL"
    /\ ~Empty
    /\ RunStart("setTimer")
    /\ UNCHANGED <<first, pool, allocated, alarm, rem, itimer, sigpending>>

\* UTimer::handlerAlarm: the SIGALRM handler calls setTimer
HandlerAlarm ==
    /\ Idle
    /\ mode # "NOSIGNAL"
    /\ sigpending
    /\ sigpending' = FALSE
    /\ RunStart("setTimer")
    /\ UNCHANGED <<first, pool, allocated, alarm, rem, itimer>>

\* mutant: the monitor is re-inserted at its old (expired) position value
CallHandlerTimeoutStale(oneShot) ==
    LET h == Head(first)
    IN  IF oneShot
        THEN /\ first' = Tail(first)
             /\ alarm' = [alarm EXCEPT ![h] = NoAlarm]
             /\ pool' = <<h>> \o pool
             /\ UNCHANGED rem
        ELSE /\ rem' = SetCurrentTime(alarm[h])
             /\ first' = InsertEntry(Tail(first), h, alarm, rem)
             /\ UNCHANGED <<alarm, pool>>

\* mutant: the re-armed monitor is pushed back on the front of the list
CallHandlerTimeoutFront(oneShot) ==
    LET h == Head(first)
    IN  IF oneShot
        THEN /\ first' = Tail(first)
             /\ alarm' = [alarm EXCEPT ![h] = NoAlarm]
             /\ pool' = <<h>> \o pool
             /\ UNCHANGED rem
        ELSE /\ rem' = SetCurrentTime(alarm[h])
             /\ first' = first
             /\ UNCHANGED <<alarm, pool>>

(***************************************************************************)
(* UTimer::callHandlerTimeout: unlink `first`; a non-zero handlerTime()    *)
(* (oneShot) puts the node on the pool, zero re-arms the alarm and         *)
(* insertEntry puts the node back in order.                                *)
(***************************************************************************)
CallHandlerTimeout(oneShot) ==
    LET h == Head(first)
    IN  IF oneShot
        THEN /\ first' = Tail(first)
             /\ alarm' = [alarm EXCEPT ![h] = NoAlarm]
             /\ pool' = <<h>> \o pool
             /\ UNCHANGED rem
        ELSE LET R == SetCurrentTime(alarm[h])
             IN  /\ rem' = R
                 /\ first' = InsertEntry(Tail(first), h, alarm, R)
                 /\ UNCHANGED <<alarm, pool>>

(***************************************************************************)
(* One iteration of the loop of UTimer::run: item is expired, so          *)
(* item = item->next and callHandlerTimeout() (which removes `first`, the  *)
(* node that was tested when the list is sorted).                          *)
(***************************************************************************)
RunStep(oneShot) ==
    /\ pc = "run"
    /\ LoopContinues
    /\ item' = NextOf(item)
    /\ CallHandlerTimeout(oneShot)
    /\ UNCHANGED <<allocated, itimer, sigpending, pc, caller, crashed, mode>>

\* mutant: the it_value setTimer computes is one unit short
RunExitEarly ==
    /\ pc = "run"
    /\ ~LoopContinues
    /\ pc' = "idle"
    /\ item' = Nil
    /\ itimer' = IF caller = "setTimer"
                 THEN IF first = <<>> THEN 0 ELSE rem[alarm[Head(first)]] - 1
                 ELSE itimer
    /\ UNCHANGED <<first, pool, allocated, alarm, rem, sigpending, caller, crashed, mode>>

(***************************************************************************)
(* The loop of run ends (item is null or not expired).  When setTimer      *)
(* called it, the rest of setTimer arms the itimer for the new first's     *)
(* expiry, or disarms it (it_value = 0) when the list is empty.            *)
(***************************************************************************)
RunExit ==
    /\ pc = "run"
    /\ ~LoopContinues
    /\ pc' = "idle"
    /\ item' = Nil
    /\ itimer' = IF caller = "setTimer"
                 THEN IF first = <<>> THEN 0 ELSE rem[alarm[Head(first)]]
                 ELSE itimer
    /\ UNCHANGED <<first, pool, allocated, alarm, rem, sigpending, caller, crashed, mode>>

(***************************************************************************)
(* One unit of time passes between two operations: every expiry comes one  *)
(* closer and the itimer counts down, raising SIGALRM when it reaches 0.   *)
(***************************************************************************)
Tick ==
    /\ Idle
    /\ rem' = [a \in Alarms |-> IF rem[a] > 0 THEN rem[a] - 1 ELSE 0]
    /\ itimer' = IF itimer > 0 THEN itimer - 1 ELSE 0
    /\ sigpending' = (sigpending \/ itimer = 1)
    /\ UNCHANGED <<first, pool, allocated, alarm, pc, caller, item, crashed, mode>>

Next ==
    \/ \E a \in Alarms : Insert(a) \/ Erase(a)
    \/ Clear
    \/ GetTimeout
    \/ SetTimer
    \/ HandlerAlarm
    \/ \E oneShot \in BOOLEAN : RunStep(oneShot)
    \/ RunExit
    \/ Tick

(***************************************************************************)
(* Fairness: the loop of run, once entered, finishes; time passes; and in  *)
(* NOSIGNAL mode the main program calls getTimeout "every so often"        *)
(* (timer.h), in the signal modes a pending SIGALRM is delivered.          *)
(***************************************************************************)
Fairness ==
    /\ WF_vars(\E oneShot \in BOOLEAN : RunStep(oneShot))
    /\ WF_vars(RunExit)
    /\ WF_vars(Tick)
    /\ WF_vars(mode = "NOSIGNAL" /\ GetTimeout)
    /\ WF_vars(HandlerAlarm)

Spec == Init /\ [][Next]_vars /\ Fairness

-----------------------------------------------------------------------------

ActiveAlarms == {alarm[first[i]] : i \in 1..Len(first)}

TypeOK ==
    /\ first \in Seq(Nodes) /\ pool \in Seq(Nodes)
    /\ allocated \subseteq Nodes
    /\ alarm \in [Nodes -> Alarms \cup {NoAlarm}]
    /\ rem \in [Alarms -> 0..MaxInterval]
    /\ itimer \in 0..MaxInterval
    /\ sigpending \in BOOLEAN
    /\ pc \in {"idle", "run"}
    /\ caller \in {"getTimeout", "setTimer"}
    /\ item \in Nodes \cup {Nil}
    /\ crashed \in BOOLEAN
    /\ mode \in Modes

(***************************************************************************)
(* Every node U_NEW created and clear has not deleted is on exactly one of *)
(* the two lists, once, and holds an alarm iff it is on the active list:   *)
(* insert, erase and callHandlerTimeout move nodes between the lists by    *)
(* pointer surgery, and a node linked twice or dropped is a corruption or  *)
(* a leak.                                                                 *)
(***************************************************************************)
NodeOwnership ==
    /\ IsInjective(first) /\ IsInjective(pool)
    /\ ToSet(first) \cap ToSet(pool) = {}
    /\ ToSet(first) \cup ToSet(pool) = allocated
    /\ \A n \in Nodes : (alarm[n] # NoAlarm) <=> n \in ToSet(first)

(***************************************************************************)
(* UTimer::invariant, asserted after every insertEntry and erase in DEBUG  *)
(* builds: the active list is sorted by expiry.  run relies on it to stop  *)
(* at the first alarm that is not expired.                                 *)
(***************************************************************************)
Sorted ==
    \A i \in 1..(Len(first) - 1) : rem[alarm[first[i]]] <= rem[alarm[first[i + 1]]]

(***************************************************************************)
(* run never starts on an empty active list: its `item->alarm` would       *)
(* dereference a null pointer.  getTimeout guards with `first &&`;         *)
(* setTimer and the SIGALRM handler do not.                                *)
(***************************************************************************)
NoRunOnEmptyList == ~crashed

(***************************************************************************)
(* Inside run, an expired item the loop is about to handle is the head of *)
(* the active list: callHandlerTimeout removes `first`, not `item`, so a   *)
(* monitor re-inserted in front of the saved item->next would be handled  *)
(* in its place.                                                           *)
(***************************************************************************)
ItemIsFirst == (pc = "run" /\ LoopContinues) => item = Head(first)

(***************************************************************************)
(* When setTimer finishes with alarms pending, setitimer gets a non-zero   *)
(* it_value: an it_value of 0 would disarm the itimer and no SIGALRM would *)
(* ever run the list again.                                                *)
(***************************************************************************)
SetTimerArmsNonEmpty ==
    [][(pc = "run" /\ pc' = "idle" /\ caller = "setTimer" /\ first' # <<>>)
         => itimer' > 0]_vars

(***************************************************************************)
(* An active alarm that is due is eventually handled by run: it leaves the *)
(* active list (one-shot, erase, clear) or is re-armed (monitor).  This   *)
(* is promised in NOSIGNAL mode, where getTimeout is polled; in the signal *)
(* modes insert does not arm the itimer, so it depends on the program      *)
(* calling setTimer, which nothing obliges it to do.                       *)
(***************************************************************************)
DueAlarmEventuallyRun ==
    \A a \in Alarms :
        (mode = "NOSIGNAL" /\ a \in ActiveAlarms /\ rem[a] = 0)
            ~> (a \notin ActiveAlarms \/ rem[a] > 0)

=============================================================================
