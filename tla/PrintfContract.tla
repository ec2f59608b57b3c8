---------------------------- MODULE PrintfContract ----------------------------
(***************************************************************************)
(* What a call of snprintf promises for the conversions Vsnprintf models, *)
(* written from the C standard's description of fprintf (7.21.6.1) and   *)
(* not from u__vsnprintf: a conversion specification is '%', flags, a    *)
(* width, a precision, a length modifier and a conversion character; the *)
(* field is the converted value, its sign or 0x prefix, zeros up to the  *)
(* precision, and padding up to the width.  Where the standard leaves a  *)
(* choice to the library the reference takes the one ULib documents:     *)
(* the ' flag groups digits with ',' (base.c: "grouped with thousands"), *)
(* "%?" for an unknown ? prints "%?", and %p prints 0x and hex digits,    *)
(* "(nil)" for a null pointer.  A precision on %s is the number of bytes *)
(* to print.                                                               *)
(***************************************************************************)
EXTENDS Integers, Sequences

CharAt(s, i) == IF i <= Len(s) THEN SubSeq(s, i, i) ELSE ""      \* "" past the end
Rest(s, n) == IF n >= Len(s) THEN "" ELSE SubSeq(s, n + 1, Len(s)) \* drop n bytes

RECURSIVE Copies(_, _)
Copies(x, n) == IF n <= 0 THEN "" ELSE x \o Copies(x, n - 1)

\* the length of the longest prefix of s made of bytes of S
RECURSIVE Span(_, _)
Span(s, S) == IF s = "" THEN 0 ELSE IF CharAt(s, 1) \in S THEN 1 + Span(Rest(s, 1), S) ELSE 0

DecimalDigits == {"0", "1", "2", "3", "4", "5", "6", "7", "8", "9"}

\* the value of a string of decimal digits
RECURSIVE Value(_)
Value(s) ==
    IF s = "" THEN 0
    ELSE 10 * Value(SubSeq(s, 1, Len(s) - 1))
         + (CHOOSE d \in 0 .. 9 : SubSeq("0123456789", d + 1, d + 1) = CharAt(s, Len(s)))

\* the base-b numeral of m >= 0, with no leading zeros ("0" for 0)
RECURSIVE Numeral(_, _, _)
Numeral(m, b, upper) ==
    LET digit(k) == SubSeq(IF upper THEN "0123456789ABCDEF" ELSE "0123456789abcdef", k + 1, k + 1)
    IN  IF m < b THEN digit(m) ELSE Numeral(m \div b, b, upper) \o digit(m % b)

\* groups of three digits from the right, separated by ','
RECURSIVE Group(_)
Group(d) == IF Len(d) <= 3 THEN d ELSE Group(SubSeq(d, 1, Len(d) - 3)) \o "," \o Rest(d, Len(d) - 3)

\* blank padding up to width w, on the right when left-justified
Justify(body, w, left) ==
    IF left THEN body \o Copies(" ", w - Len(body)) ELSE Copies(" ", w - Len(body)) \o body

IntConversions == {"d", "i", "u", "o", "x", "X", "p"}
Conversions == IntConversions \cup {"c", "s"}

(***************************************************************************)
(* One integer field: F the flags, w the width, p the precision (-1: none),*)
(* short the h modifier (the value is converted to short or unsigned       *)
(* short), C the conversion, v the argument.                               *)
(***************************************************************************)
IntField(F, w, p, short, C, v) ==
    LET signed == C \in {"d", "i"}
        val    == CASE short /\ signed -> ((v + 32768) % 65536) - 32768
                    [] short           -> v % 65536
                    [] OTHER           -> v
        mag    == IF val < 0 THEN -val ELSE val
        base   == CASE C = "o" -> 8 [] C \in {"x", "X", "p"} -> 16 [] OTHER -> 10
        raw    == IF p = 0 /\ mag = 0 THEN "" ELSE Numeral(mag, base, C = "X")
        grp    == IF "'" \in F /\ base = 10 THEN Group(raw) ELSE raw
        prec   == Copies("0", p - Len(grp)) \o grp
        digits == IF C = "o" /\ "#" \in F /\ (prec = "" \/ CharAt(prec, 1) # "0")
                  THEN "0" \o prec ELSE prec
        prefix == CASE signed /\ val < 0  -> "-"
                    [] signed /\ "+" \in F -> "+"
                    [] signed /\ " " \in F -> " "
                    [] C = "p" \/ (C \in {"x", "X"} /\ "#" \in F /\ mag # 0) -> IF C = "X" THEN "0X" ELSE "0x"
                    [] OTHER -> ""
    IN  CASE C = "p" /\ v = 0 -> "(nil)"
          [] "-" \in F -> Justify(prefix \o digits, w, TRUE)
          [] "0" \in F /\ p < 0 -> prefix \o Copies("0", w - Len(prefix) - Len(digits)) \o digits
          [] OTHER -> Justify(prefix \o digits, w, FALSE)

Field(F, w, p, short, C, v) ==
    CASE C \in IntConversions -> IntField(F, w, p, short, C, v)
      [] C = "c" -> Justify(v, w, "-" \in F)
      [] C = "s" -> Justify(IF p >= 0 THEN SubSeq(v, 1, p) ELSE v, w, "-" \in F)

(***************************************************************************)
(* One conversion specification s (the bytes after '%') with arguments a:  *)
(* the text it prints, the format after it, and the arguments left.  A '*' *)
(* width or precision takes an argument first; a negative width is a '-'  *)
(* flag, a negative precision is none.                                     *)
(***************************************************************************)
Specification(s, a) ==
    LET nf    == Span(s, {" ", "#", "'", "+", "-", "0"})
        F0    == {CharAt(s, i) : i \in 1 .. nf}
        s1    == Rest(s, nf)
        wstar == CharAt(s1, 1) = "*"
        nw    == IF wstar THEN 1 ELSE Span(s1, DecimalDigits)
        w0    == IF wstar THEN Head(a) ELSE Value(SubSeq(s1, 1, nw))
        a1    == IF wstar THEN Tail(a) ELSE a
        s2    == Rest(s1, nw)
        dot   == CharAt(s2, 1) = "."
        s3    == IF dot THEN Rest(s2, 1) ELSE s2
        pstar == dot /\ CharAt(s3, 1) = "*"
        np    == IF pstar THEN 1 ELSE IF dot THEN Span(s3, DecimalDigits) ELSE 0
        p0    == CASE pstar -> Head(a1) [] dot -> Value(SubSeq(s3, 1, np)) [] OTHER -> -1
        a2    == IF pstar THEN Tail(a1) ELSE a1
        s4    == Rest(s3, np)
        nl    == Span(s4, {"h", "l", "q", "j", "L"})
        C     == CharAt(s4, nl + 1)
        F     == IF w0 < 0 THEN F0 \cup {"-"} ELSE F0
    IN  IF C \in Conversions
        THEN [text |-> Field(F, IF w0 < 0 THEN -w0 ELSE w0, IF p0 < 0 THEN -1 ELSE p0,
                             SubSeq(s4, 1, nl) = "h", C, Head(a2)),
              rest |-> Rest(s4, nl + 1), args |-> Tail(a2)]
        ELSE [text |-> IF C = "%" THEN "%" ELSE "%" \o C,
              rest |-> Rest(s4, nl + 1), args |-> a2]

\* The string snprintf(buffer, size, fmt, args...) leaves in a large buffer.
RECURSIVE Printf(_, _)
Printf(fmt, a) ==
    IF fmt = "" THEN ""
    ELSE IF CharAt(fmt, 1) # "%" THEN CharAt(fmt, 1) \o Printf(Rest(fmt, 1), a)
    ELSE LET r == Specification(Rest(fmt, 1), a) IN r.text \o Printf(r.rest, r.args)

=============================================================================
