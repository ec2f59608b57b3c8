--------------------------- MODULE AbstractAtExit ---------------------------
(***************************************************************************)
(* What the at-exit registry of base.c promises its callers: a function   *)
(* registered with u_atexit and not withdrawn with u_unatexit is called   *)
(* once when the process exits, after every function registered later;   *)
(* registering a function that is already registered does nothing.        *)
(***************************************************************************)
EXTENDS Sequences, SequencesExt

CONSTANT Fns   \* the functions the program may register

VARIABLES
    live,     \* the registered functions, in the order they were registered
    called,   \* the functions called at exit, in call order
    exited    \* u_exit has run

vars == << live, called, exited >>

Init == live = << >> /\ called = << >> /\ exited = FALSE

Register(f) ==
    /\ ~exited
    /\ live' = IF f \in ToSet(live) THEN live ELSE Append(live, f)
    /\ UNCHANGED << called, exited >>

Unregister(f) ==
    /\ ~exited
    /\ live' = Remove(live, f)
    /\ UNCHANGED << called, exited >>

\* Last registered, first called.
Exit ==
    /\ ~exited
    /\ called' = Reverse(live)
    /\ exited' = TRUE
    /\ UNCHANGED live

Next == Exit \/ \E f \in Fns : Register(f) \/ Unregister(f)

Spec == Init /\ [][Next]_vars

=============================================================================
