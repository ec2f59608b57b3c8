------------------------------ MODULE HexDump -------------------------------
(***************************************************************************)
(* u_hexdump_encode and u_hexdump_decode of                               *)
(* src/src/ulib/base/coder/chexdump.c: each byte as two hex digits taken  *)
(* from u_hex_lower, and back.  Bytes are the integers 0 .. 255; the      *)
(* encoded text is a string.  Decoding reads input[i] and input[i+1] for  *)
(* even i < len, so only even lengths stay inside the input.              *)
(***************************************************************************)
EXTENDS Integers, Sequences

HexLower == "0123456789abcdef"                         \* u_hex_lower
Nibble(v) == SubSeq(HexLower, v + 1, v + 1)             \* u_hex_lower[v & 0x0F]

\* u__hexc2int(c) & 0x0F: the value of a hex digit, either case
HexVal(c) == CHOOSE v \in 0 .. 15 : c \in {SubSeq("0123456789abcdef", v + 1, v + 1),
                                            SubSeq("0123456789ABCDEF", v + 1, v + 1)}

\* Mutant of Encode: the low nibble first.
RECURSIVE EncodeLowFirst(_)
EncodeLowFirst(input) ==
    IF input = << >> THEN ""
    ELSE Nibble(Head(input) % 16) \o Nibble(Head(input) \div 16) \o EncodeLowFirst(Tail(input))

\* u_hexdump_encode: for each byte ch, *r++ = hex of ch >> 4, *r++ = hex of
\* ch & 0x0F; the NUL after them is not counted.
RECURSIVE Encode(_)
Encode(input) ==
    IF input = << >> THEN ""
    ELSE Nibble(Head(input) \div 16) \o Nibble(Head(input) % 16) \o Encode(Tail(input))

\* u_hexdump_decode: one byte per pair input[i], input[i+1] for i = 0, 2, ...
\* below len.  For an odd len the last pair's second digit is the byte
\* after the input, which the caller does not provide: any value 0 .. 15.
Decode(input, low) ==
    LET c(i) == SubSeq(input, i, i)
        n    == (Len(input) + 1) \div 2
        lo(k) == IF 2 * k <= Len(input) THEN HexVal(c(2 * k)) ELSE low
    IN  [k \in 1 .. n |-> HexVal(c(2 * k - 1)) * 16 + lo(k)]

CONSTANT Calls   \* [fn, input]: fn "encode" with bytes, or "decode" with text

VARIABLES
    pc,      \* "ready" or "returned"
    call,    \* the call made (<< >> before it)
    result   \* out: what was written at result before its NUL; ret: the
             \* value returned, r - result

vars == << pc, call, result >>

Init ==
    /\ pc = "ready"
    /\ call = << >>
    /\ result = [out |-> << >>, ret |-> 0]

HexdumpEncode(cl) ==
    /\ pc = "ready"
    /\ cl.fn = "encode"
    /\ LET out == Encode(cl.input) IN result' = [out |-> out, ret |-> Len(out)]
    /\ call' = cl
    /\ pc' = "returned"

HexdumpDecode(cl) ==
    /\ pc = "ready"
    /\ cl.fn = "decode"
    /\ \E low \in 0 .. 15 :
         LET out == Decode(cl.input, low) IN result' = [out |-> out, ret |-> Len(out)]
    /\ call' = cl
    /\ pc' = "returned"

Next == \E cl \in Calls : HexdumpEncode(cl) \/ HexdumpDecode(cl)

Spec == Init /\ [][Next]_vars

=============================================================================
