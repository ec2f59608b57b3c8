------------------------------- MODULE AtExit -------------------------------
(***************************************************************************)
(* The at-exit registry of src/src/ulib/base/base.c: the array            *)
(* vPF u_fns[32] with its fill index u_fns_index, u_atexit, u_unatexit,   *)
(* and u_exit, which u_init registers with the C library's atexit(3).    *)
(* The process is single-threaded here: each call is one step, and the    *)
(* functions u_exit calls are opaque (nothing in src registers any).      *)
(***************************************************************************)
EXTENDS Integers, Sequences, SequencesExt

CONSTANTS
    Fns,      \* the function pointers the program may pass
    Null,     \* the null pointer, the value of an empty slot
    NumFns    \* the length of u_fns: 32

VARIABLES
    u_fns,        \* u_fns[0 .. NumFns-1]
    u_fns_index,  \* the slots ever filled
    called,       \* the functions u_exit called, in call order
    phase         \* "running", "exited" (u_exit returned), or "overflow":
                  \* u_atexit wrote u_fns[NumFns], past the array

vars == << u_fns, u_fns_index, called, phase >>

Slots == 0 .. NumFns - 1

Init ==
    /\ u_fns = [i \in Slots |-> Null]   \* static storage is zeroed
    /\ u_fns_index = 0
    /\ called = << >>
    /\ phase = "running"

\* for (i = u_fns_index - 1; i >= 0; --i) if (u_fns[i] == function) ...
Registered(f) == \E i \in 0 .. u_fns_index - 1 : u_fns[i] = f

\* u_atexit(function): return if it is there (a stuttering step, left
\* out), else u_fns[u_fns_index++] = function, with no check against the
\* array's length: at u_fns_index = NumFns the write is past u_fns, which
\* is undefined behaviour; the model stops there.
UAtExitFull(f) ==
    /\ phase = "running"
    /\ ~Registered(f)
    /\ u_fns_index = NumFns
    /\ phase' = "overflow"
    /\ UNCHANGED << u_fns, u_fns_index, called >>

UAtExit(f) ==
    /\ phase = "running"
    /\ ~Registered(f)
    /\ u_fns_index < NumFns
    /\ u_fns' = [u_fns EXCEPT ![u_fns_index] = f]
    /\ u_fns_index' = u_fns_index + 1
    /\ UNCHANGED << called, phase >>

\* u_unatexit(function): the highest slot holding it becomes 0; the index
\* stays where it is.  A function that is not there leaves everything as
\* it is (a stuttering step, left out).
UUnAtExit(f) ==
    /\ phase = "running"
    /\ LET hits == {i \in 0 .. u_fns_index - 1 : u_fns[i] = f}
       IN  /\ hits # {}
           /\ u_fns' = [u_fns EXCEPT ![CHOOSE i \in hits : \A j \in hits : j <= i] = Null]
    /\ UNCHANGED << u_fns_index, called, phase >>

\* Mutant of CallOrder: the slots from the bottom up.
RECURSIVE CallOrderUp(_)
CallOrderUp(i) ==
    IF i < 0 THEN << >>
    ELSE CallOrderUp(i - 1) \o (IF u_fns[i] # Null THEN << u_fns[i] >> ELSE << >>)

\* The non-null slots below u_fns_index, from the top down.
RECURSIVE CallOrder(_)
CallOrder(i) ==
    IF i < 0 THEN << >>
    ELSE (IF u_fns[i] # Null THEN << u_fns[i] >> ELSE << >>) \o CallOrder(i - 1)

\* u_exit, run by exit(3): call every non-null slot from u_fns_index - 1
\* down to 0.
UExit ==
    /\ phase = "running"
    /\ called' = CallOrder(u_fns_index - 1)
    /\ phase' = "exited"
    /\ UNCHANGED << u_fns, u_fns_index >>

Next ==
    \/ UExit
    \/ \E f \in Fns : UAtExit(f) \/ UAtExitFull(f) \/ UUnAtExit(f)

Spec == Init /\ [][Next]_vars

=============================================================================
