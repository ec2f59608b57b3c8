------------------------------ MODULE Num2Str -------------------------------
(***************************************************************************)
(* u_num2str32, u_num2str32s, u_num2str64 and u_num2str64s of             *)
(* src/src/ulib/base/base.c: decimal conversion two digits at a time.     *)
(* The base-100 digits below the leading one or two are saved in a local  *)
(* array (ui32vec[4], ui64vec[10]) and written back from the top.  The     *)
(* numbers are those TLC holds, |num| <= 2^31 - 1: below UINT_MAX, so      *)
(* u_num2str64 always takes its u_num2str32 branch, and never INT32_MIN,  *)
(* whose negation in u_num2str32s overflows.                              *)
(***************************************************************************)
EXTENDS Integers, Sequences

\* '0' + num, in ASCII order (10 gives ':')
Digit(d) == SubSeq("0123456789:", d + 1, d + 1)

\* U_NUM2STR16(cp, v): the two digits of v, from a table of the pairs 00..99
Num2Str16(v) == Digit(v \div 10) \o Digit(v % 10)

\* Mutant of Vec: num /= 10U in place of num /= 100U.
RECURSIVE VecByTen(_)
VecByTen(num) == IF num >= 100 THEN << num % 100 >> \o VecByTen(num \div 10) ELSE << >>

\* ui32vec[0 .. i-1]: while (num >= 100U) { ui32vec[i++] = num % 100U; num /= 100U; }
RECURSIVE Vec(_)
Vec(num) == IF num >= 100 THEN << num % 100 >> \o Vec(num \div 100) ELSE << >>

\* num after that loop: its last 1-2 digits
RECURSIVE Lead(_)
Lead(num) == IF num >= 100 THEN Lead(num \div 100) ELSE num

\* while (--i >= 0) { U_NUM2STR16(cp, ui32vec[i]); cp += 2; }
RECURSIVE Pairs(_)
Pairs(v) == IF v = << >> THEN "" ELSE Num2Str16(v[Len(v)]) \o Pairs(SubSeq(v, 1, Len(v) - 1))

\* Mutant of Num2Str32: `if (num <= 10U)` for the last digits.
Num2Str32AtTen(num) ==
    LET lead == Lead(num)
        vec  == Vec(num)
    IN  [out |-> (IF lead <= 10 THEN Digit(lead) ELSE Num2Str16(lead)) \o Pairs(vec),
         used |-> Len(vec)]

\* u_num2str32(cp, num): the bytes written at cp, and how many saved digits
\* pairs the local array had to hold.
Num2Str32(num) ==
    LET lead == Lead(num)
        vec  == Vec(num)
    IN  [out |-> (IF lead < 10 THEN Digit(lead) ELSE Num2Str16(lead)) \o Pairs(vec),
         used |-> Len(vec)]

\* u_num2str32s: '-' before the digits of -num; u_num2str64 on a number
\* <= UINT_MAX: u_num2str32.
Num2Str32s(num) ==
    IF num < 0 THEN LET r == Num2Str32(-num) IN [r EXCEPT !.out = "-" \o @] ELSE Num2Str32(num)

CONSTANT Calls   \* [fn, num]: fn one of "32", "32s", "64", "64s"

VARIABLES
    pc,      \* "ready" or "returned"
    call,    \* the call made (<< >> before it)
    result   \* out: the bytes from cp on; ret: the value returned; used:
             \* the entries of the digit array written

vars == << pc, call, result >>

Init ==
    /\ pc = "ready"
    /\ call = << >>
    /\ result = [out |-> "", ret |-> 0, used |-> 0]

\* The signed versions write '-' and return u_num2str32(cp, num) for cp
\* already past it: (cp - start) there does not count the sign.
Convert(cl) ==
    /\ pc = "ready"
    /\ LET r == IF cl.fn \in {"32s", "64s"} THEN Num2Str32s(cl.num) ELSE Num2Str32(cl.num)
           signed == cl.fn \in {"32s", "64s"} /\ cl.num < 0
       IN  result' = [out |-> r.out, ret |-> Len(r.out) - (IF signed THEN 1 ELSE 0), used |-> r.used]
    /\ call' = cl
    /\ pc' = "returned"

Next == \E cl \in Calls : Convert(cl)

Spec == Init /\ [][Next]_vars

=============================================================================
