---------------------------- MODULE AbstractTimer ----------------------------
(***************************************************************************)
(* What UTimer promises its callers (timer.h): a set of scheduled alarms,  *)
(* each with a time to expiry.  insert schedules, erase deschedules, clear *)
(* cancels everything, and an alarm fires only once it is due: a one-shot  *)
(* is then descheduled, a periodic alarm is re-armed for a full period.    *)
(***************************************************************************)
EXTENDS Naturals

CONSTANTS Alarms, Interval

VARIABLES active, rem

vars == <<active, rem>>

Init ==
    /\ active = {}
    /\ rem = [a \in Alarms |-> 0]

Schedule(a) ==
    /\ a \notin active
    /\ active' = active \cup {a}
    /\ rem' = [rem EXCEPT ![a] = Interval[a]]

Cancel(a) ==
    /\ a \in active
    /\ active' = active \ {a}
    /\ UNCHANGED rem

CancelAll ==
    /\ active' = {}
    /\ UNCHANGED rem

Fire(a) ==
    /\ a \in active
    /\ rem[a] = 0
    /\ \/ active' = active \ {a} /\ UNCHANGED rem
       \/ rem' = [rem EXCEPT ![a] = Interval[a]] /\ UNCHANGED active

Elapse ==
    /\ rem' = [a \in Alarms |-> IF rem[a] > 0 THEN rem[a] - 1 ELSE 0]
    /\ UNCHANGED active

Next ==
    \/ \E a \in Alarms : Schedule(a) \/ Cancel(a) \/ Fire(a)
    \/ CancelAll
    \/ Elapse

\* The alarms that are scheduled and due.
Due == {a \in active : rem[a] = 0}

\* A due alarm does not stay unfired forever: WF_vars of firing, with its
\* ENABLED written out (a due alarm can always be fired by removing it).
FireFairness == []<>(Due = {}) \/ []<><<\E a \in Alarms : Fire(a)>>_vars

Spec == Init /\ [][Next]_vars /\ FireFairness

=============================================================================
