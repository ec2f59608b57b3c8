------------------------------ MODULE Vsnprintf ------------------------------
(***************************************************************************)
(* The format interpreter u__vsnprintf of src/src/ulib/base/base.c, for    *)
(* the conversions that do not reach outside the call: the flags ' ', #,   *)
(* ', *, +, -, 0, a width, a precision (digits or a star), the length      *)
(* modifiers h, l, ll, q, j, the conversions d i u o x X p c s, and "%%"   *)
(* and unknown characters, which go to the cdefault label, and of the     *)
(* extensions %S and %O (escaped strings) and %D (dates, through the     *)
(* u_strftime2 of Strftime).  The other extensions (%B, %M, %V, %W, ...)  *)
(* and the floating conversions, which call sprintf, are not modelled.    *)
(*                                                                         *)
(* A call is one step.  The interpreter threads a configuration record     *)
(* through the labels of the C function:                                   *)
(*   fmt    the rest of the format string     args  the rest of va_list    *)
(*   buf    the bytes written from `buffer`   bp    bp - buffer            *)
(*   ret    the return value accumulator                                   *)
(*   under  a byte was written before `buffer`                             *)
(*   over   a padding loop ran with a negative count (it counts down       *)
(*          through the whole int range, writing some 2^32 bytes: the      *)
(*          call does not return normally, and the model stops it there)   *)
(*   stop   the loop has been left (`break`)                               *)
(*   flags, width, prec, sign   the per-conversion locals                  *)
(* Strings are TLA+ strings; reading past the end of the format yields     *)
(* "", the NUL character.                                                  *)
(***************************************************************************)
EXTENDS Integers, Sequences

\* A byte read past the terminator of a %s argument (its value is whatever
\* memory holds; the model does not tell those values apart).
OverRead == "?"

Dec == << "0", "1", "2", "3", "4", "5", "6", "7", "8", "9" >>
HexLower == Dec \o << "a", "b", "c", "d", "e", "f" >>   \* u_hex_lower
HexUpper == Dec \o << "A", "B", "C", "D", "E", "F" >>   \* u_hex_upper

IsDigit(ch) == \E i \in 1 .. 10 : Dec[i] = ch
DigitVal(ch) == CHOOSE i \in 0 .. 9 : Dec[i + 1] = ch
Larger(a, b) == IF a > b THEN a ELSE b

RECURSIVE Repeat(_, _)
Repeat(x, n) == IF n <= 0 THEN "" ELSE x \o Repeat(x, n - 1)

\* *bp++ = x, with bp possibly moved back over bytes already written.
PutChar(c, x) ==
    IF c.bp < 0
    THEN [c EXCEPT !.under = TRUE, !.bp = @ + 1]
    ELSE [c EXCEPT !.buf = SubSeq(@, 1, c.bp) \o x \o SubSeq(@, c.bp + 2, Len(@)),
                   !.bp = @ + 1]

\* PutChar for every byte of s in turn: the bytes that fall before buffer
\* are lost (and flagged), the rest overwrite or extend buf from bp on.
PutStr(c, s) ==
    LET lost  == IF c.bp >= 0 THEN 0 ELSE IF -c.bp < Len(s) THEN -c.bp ELSE Len(s)
        kept  == IF lost = Len(s) THEN "" ELSE SubSeq(s, lost + 1, Len(s))
        start == IF c.bp < 0 THEN 0 ELSE c.bp
    IN  [c EXCEPT !.under = @ \/ lost > 0,
                  !.buf = SubSeq(@, 1, start) \o kept \o SubSeq(@, start + Len(kept) + 1, Len(@)),
                  !.bp = @ + Len(s)]

\* for (; n; --n) *bp++ = x;  with n < 0 the loop runs away.
PadLoop(c, n, x) ==
    IF n < 0 THEN [c EXCEPT !.over = TRUE, !.stop = TRUE]
             ELSE PutStr(c, Repeat(x, n))

NextCh(c) == IF c.fmt = "" THEN "" ELSE Head(c.fmt)   \* *format
Adv(c) == IF c.fmt = "" THEN c ELSE [c EXCEPT !.fmt = Tail(@)]
PopArg(c) == [c EXCEPT !.args = Tail(@)]                \* after VA_ARG
SetFlag(c, f) == [c EXCEPT !.flags = @ \cup {f}]

\* SARG() and UARG(): the width the length modifiers give the argument.
\* Arguments are within the int range, so int, long and long long agree;
\* short truncates to 16 bits.
Short(c) == "SHORTINT" \in c.flags /\ c.flags \cap {"LONGINT", "LLONGINT"} = {}
SArg(c) == IF Short(c) THEN ((Head(c.args) + 32768) % 65536) - 32768 ELSE Head(c.args)
UArg(c) == IF Short(c) THEN Head(c.args) % 65536 ELSE Head(c.args)

-----------------------------------------------------------------------------
(* Conversion of the argument into the digits at cp (label `number`).     *)

\* the do-while loops of the octal and hex branches, and the pairwise
\* U_NUM2STR16 loops of the decimal branch, which give the same digits
RECURSIVE Digits(_, _, _)
Digits(a, base, xdigs) ==
    IF a < base THEN xdigs[a + 1]
    ELSE Digits(a \div base, base, xdigs) \o xdigs[(a % base) + 1]

\* THOUSANDS_GROUPED: a ',' before every third digit, counted with n = 1..
RECURSIVE Grouped(_, _)
Grouped(a, n) ==
    IF a >= 10
    THEN Grouped(a \div 10, n + 1) \o (IF n % 3 = 0 THEN "," ELSE "") \o Dec[(a % 10) + 1]
    ELSE Dec[a + 1]

NumDigits(a, base, flags, ch) ==
    CASE base = 8 ->
           LET d == Digits(a, 8, Dec)
           IN  IF "ALT" \in flags /\ Head(d) # "0" THEN "0" \o d ELSE d
      [] base = 16 -> Digits(a, 16, IF ch = "X" THEN HexUpper ELSE HexLower)
      [] base = 10 -> IF "THOUSANDS" \in flags THEN Grouped(a, 1) ELSE Digits(a, 10, Dec)

-----------------------------------------------------------------------------
(* The label `next`: pad and emit the field at cp.  A sign or the 0x      *)
(* prefix is written over the last blank of a right-adjusted field, taken *)
(* out of the padding, or else counted in ret: one byte for the sign, two *)
(* for the prefix, whatever the padding left.                              *)
EmitField(c, cp, dprec, ch) ==
    LET size    == Len(cp)
        dpad    == Larger(dprec - size, 0)
        fieldsz == size + dpad
        pads    == Larger(c.width - fieldsz, 0)
        blank   == pads # 0 /\ c.flags \cap {"LADJUST", "ZEROPAD"} = {}
        bpad    == IF blank THEN pads ELSE 0
        c1      == [c EXCEPT !.ret = @ + Larger(c.width, fieldsz)]
        c2      == IF blank THEN PutStr(c1, Repeat(" ", pads)) ELSE c1
        pads2   == IF blank THEN 0 ELSE pads
        prefix  == IF c.sign # "" THEN c.sign
                   ELSE IF "HEXPREFIX" \in c.flags THEN "0" \o ch ELSE ""
        k       == Len(prefix)
        c3      == PutStr(IF k = 0 \/ bpad # 0 THEN [c2 EXCEPT !.bp = @ - k]
                          ELSE IF pads2 # 0 THEN c2
                          ELSE [c2 EXCEPT !.ret = @ + k], prefix)
        pads3   == IF k # 0 /\ bpad = 0 /\ pads2 # 0 THEN pads2 - k ELSE pads2
        c4      == IF c.flags \cap {"LADJUST", "ZEROPAD"} = {"ZEROPAD"}
                   THEN PadLoop(c3, pads3, "0") ELSE c3
        c5      == IF c4.stop THEN c4 ELSE PutStr(c4, Repeat("0", dpad) \o cp)
    IN  IF "LADJUST" \in c.flags /\ ~c5.stop THEN PadLoop(c5, pads3, " ") ELSE c5

\* mutant: the 0 flag kept although a precision is given
NumberKeepZero(c, base, a, ch) ==
    EmitField(c, IF a # 0 \/ c.prec # 0 THEN NumDigits(a, base, c.flags, ch) ELSE "",
              c.prec, ch)

\* `number`: a precision drops the 0 flag; 0 with precision 0 has no digits.
Number(c, base, a, ch) ==
    EmitField(IF c.prec >= 0 THEN [c EXCEPT !.flags = @ \ {"ZEROPAD"}] ELSE c,
              IF a # 0 \/ c.prec # 0 THEN NumDigits(a, base, c.flags, ch) ELSE "",
              c.prec, ch)

\* `nosign`, reached by u, o, x, X and p
NoSign(c, base, a, ch) == Number([c EXCEPT !.sign = ""], base, a, ch)

ConvD(c) ==
    LET v == SArg(c)
    IN  Number(IF v < 0 THEN [PopArg(c) EXCEPT !.sign = "-"] ELSE PopArg(c),
               10, IF v < 0 THEN -v ELSE v, "d")

ConvX(c, ch) ==
    NoSign(IF "ALT" \in c.flags /\ UArg(c) # 0 THEN SetFlag(PopArg(c), "HEXPREFIX")
                                              ELSE PopArg(c),
           16, UArg(c), ch)

\* %p on a 64-bit Linux build: a null pointer prints "(nil)" unpadded.
ConvP(c) ==
    IF Head(c.args) = 0
    THEN [PutStr(PopArg(c), "(nil)") EXCEPT !.ret = @ + 5]
    ELSE NoSign(SetFlag(PopArg(c), "HEXPREFIX"), 16, Head(c.args), "x")

ConvC(c) == EmitField([PopArg(c) EXCEPT !.sign = ""], Head(c.args), 0, "c")

\* %s of a non-null string (case_str, then case_ustring_v): a precision is
\* the byte count, with no look for the terminator.
StrBytes(s, n) == IF n <= Len(s) THEN SubSeq(s, 1, n) ELSE s \o Repeat(OverRead, n - Len(s))

ConvS(c) ==
    LET s == Head(c.args)
    IN  EmitField([PopArg(c) EXCEPT !.sign = "", !.flags = @ \ {"ZEROPAD"}],
                  StrBytes(s, IF c.prec < 0 THEN Len(s) ELSE c.prec), 0, "s")

-----------------------------------------------------------------------------
(* %S and %O (case_str for ch != 's', then case_ustring_V): the argument is *)
(* [null, mem], a null pointer or the bytes at cp (0 .. 255; the string    *)
(* ends at the first 0).  The field is the bytes escaped by u_sprintc      *)
(* between double quotes, with "..." after a string cut at maxlen.          *)

\* the bytes 32 .. 126, the ones u_sprintc copies as they are (96, the
\* grave accent, cannot stand in a TLA+ string: it is written as ' here,
\* and no modelled argument holds it)
Printable == " !\"#$%&'()*+,-./0123456789:;<=>?@ABCDEFGHIJKLMNOPQRSTUVWXYZ[\\]^_'abcdefghijklmnopqrstuvwxyz{|}~"
Byte(b) == SubSeq(Printable, b - 31, b - 31)

\* the control bytes with a letter escape: \a \b \t \n \v \f \r \e
CtrlBytes == {7, 8, 9, 10, 11, 12, 13, 27}
CtrlLetter(b) == IF b = 27 THEN "e" ELSE SubSeq("abtnvfr", b - 6, b - 6)

\* \DDD: the do-while writes the octal digits of b from the right, and the
\* loop after it fills the rest of the three with '0'
Octal(b) == Dec[(b \div 64) + 1] \o Dec[((b \div 8) % 8) + 1] \o Dec[(b % 8) + 1]

\* Mutant of Sprintc: `c >= 126` escapes '~' as well.
SprintcTilde(b) ==
    CASE b \in CtrlBytes                    -> "\\" \o CtrlLetter(b)
      [] b \in {34, 92}                     -> "\\" \o Byte(b)
      [] b \notin CtrlBytes /\ (b < 32 \/ b >= 126) /\ b \notin {34, 92} -> "\\" \o Octal(b)
      [] b \in 32 .. 125 /\ b \notin {34, 92} -> Byte(b)

\* u_sprintc(out, c): the bytes it writes; it returns their number.
Sprintc(b) ==
    CASE b \in CtrlBytes                    -> "\\" \o CtrlLetter(b)
      [] b \in {34, 92}                     -> "\\" \o Byte(b)
      [] b \notin CtrlBytes /\ (b < 32 \/ b > 126) -> "\\" \o Octal(b)
      [] b \in 32 .. 126 /\ b \notin {34, 92} -> Byte(b)

ByteAt(m, n) == m[n + 1]   \* cp[n]

\* while (true) { if (cp[n] == '\0' && !ALT) break; i = u_sprintc(bp, cp[n]);
\* bp += i; remaining -= i; if (++n >= prec || remaining <= 60) break; }
RECURSIVE EscLoop(_, _, _, _)
EscLoop(m, alt, prec, l) ==
    IF ByteAt(m, l.n) = 0 /\ ~alt THEN l
    ELSE LET s  == Sprintc(ByteAt(m, l.n))
             l1 == [n |-> l.n + 1, rem |-> l.rem - Len(s), out |-> l.out \o s]
         IN  IF l1.n >= prec \/ l1.rem <= 60 THEN l1 ELSE EscLoop(m, alt, prec, l1)

Counted(c, s) == [PutStr(c, s) EXCEPT !.ret = @ + Len(s)]

\* case_ustring_V on the bytes m: precision 0 prints "", else the loop runs
\* with prec capped at maxlen (u_printf_string_max_length, or 128 when it
\* is not positive) and remaining = buffer_size - ret, less 4 bytes per
\* byte of prec unless '#' asks for the whole binary string.  "..." marks a
\* string with no precision cut at prec (cp[n] is read first in C; the
\* model tests it last, where the inputs always have that byte).
UstringV(c, m) ==
    IF c.prec = 0 THEN Counted(c, "\"\"")
    ELSE LET maxlen == IF c.strmax > 0 THEN c.strmax ELSE 128
             prec   == IF c.prec < 0 \/ c.prec > maxlen THEN maxlen ELSE c.prec
             alt    == "ALT" \in c.flags
             l      == EscLoop(m, alt, prec, [n |-> 0, out |-> "",
                                  rem |-> c.size - c.ret - (IF alt THEN 0 ELSE prec * 4)])
             dots   == c.prec < 0 /\ l.n = prec /\ ByteAt(m, l.n) # 0
         IN  Counted(c, "\"" \o l.out \o "\"" \o (IF dots THEN "..." ELSE ""))

\* case_str for S and O: a null pointer prints (null) with no precision,
\* "" at precision 0 for S only (goto empty), and nothing otherwise; no
\* padding follows.
ConvFormatted(c, ch) ==
    LET a == Head(c.args)
        d == PopArg(c)
    IN  CASE ~a.null                 -> UstringV(d, a.mem)
          [] c.prec = 0 /\ ch = "S"  -> Counted(d, "\"\"")
          [] c.prec = -1             -> Counted(d, "(null)")
          [] OTHER                   -> d

-----------------------------------------------------------------------------
(* case_D: the date and time through u_strftime2.  u_now (tv_sec, tv_usec) *)
(* after U_gettimeofday, u_now_adjust and tzname[u_daylight] are the       *)
(* call's now, usec, adjust and tz.                                        *)

\* u_strftime2 alone: none of Strftime's state is used
ST == INSTANCE Strftime WITH pc <- "ready", call <- << >>, result <- << >>, Calls <- {}

\* the format the width selects
DateFormat(w) ==
    CASE w = 0      -> "%d/%m/%y"
      [] w \in 1 .. 2 -> "%T"
      [] w = 3      -> "%d/%m/%Y %T"
      [] w = 4      -> "%d%m%y_%H%M%S"
      [] w = 5      -> "%a, %d %b %Y %T %Z"
      [] w = 6      -> "%Y/%m/%d"
      [] w = 7      -> "%Y/%m/%d %T"
      [] w = 8      -> "%a, %d %b %Y %T GMT"
      [] w = 9      -> "%d/%m/%y %T"
      [] w > 9      -> "%d/%b/%Y:%T %z"

\* mutant: u_now_adjust added for width 8 (GMT) too
DateTimeAlwaysLocal(c) ==
    IF "ALT" \in c.flags THEN Head(c.args) ELSE c.now + c.adjust

\* t: the argument under '#', else u_now->tv_sec, plus u_now_adjust unless
\* the width is 8
DateTime(c) ==
    IF "ALT" \in c.flags THEN Head(c.args)
    ELSE c.now + (IF c.width # 8 THEN c.adjust ELSE 0)

\* sprintf("%03ld") of a number below 1000
Dec3(n) == Dec[(n \div 100) + 1] \o Dec[((n \div 10) % 10) + 1] \o Dec[(n % 10) + 1]

\* u_strftime2(bp, 36, fmtdate, t), then " +n days" for width 2 under '#'
\* past one day, or "_millisec" for width 4; bp and ret move by len
ConvDate(c) ==
    LET alt  == "ALT" \in c.flags
        t    == DateTime(c)
        s    == ST!Strftime2(36, DateFormat(c.width), t, c.adjust, c.tz)
        more == CASE c.width = 2 /\ alt /\ t > 86400 ->
                       " +" \o Digits(t \div 86400, 10, Dec) \o " days"
                  [] c.width = 4 -> "_" \o Dec3(c.usec \div 1000)
                  [] OTHER -> ""
    IN  Counted(IF alt THEN PopArg(c) ELSE c, s \o more)

\* mutant: the second byte of "%?" written but not counted in ret
CdefaultUncounted(c, ch) ==
    LET c1 == [PutChar(c, "%") EXCEPT !.ret = @ + 1]
    IN  CASE ch = "%" -> c1
          [] ch = ""  -> [c1 EXCEPT !.stop = TRUE]
          [] OTHER    -> PutChar(c1, ch)

\* cdefault: "%%" prints %, "%?" prints %?, and a '%' at the end prints %
\* and leaves the loop.
Cdefault(c, ch) ==
    LET c1 == [PutChar(c, "%") EXCEPT !.ret = @ + 1]
    IN  CASE ch = "%" -> c1
          [] ch = ""  -> [c1 EXCEPT !.stop = TRUE]
          [] OTHER    -> [PutChar(c1, ch) EXCEPT !.ret = @ + 1]

-----------------------------------------------------------------------------
(* The labels rflag and reswitch: read the next format character and       *)
(* dispatch on it through dispatch_table.  Every entry that is 0, and      *)
(* every character u__isprintf rejects, lands on cdefault.                 *)
RECURSIVE RFlag(_), Reswitch(_, _)

\* for (n = 0; u__isdigit(ch); ch = *format++) n = n*10 + (ch-'0');
RECURSIVE ScanDigits(_, _, _)
ScanDigits(n, ch, c) ==
    IF IsDigit(ch) THEN ScanDigits(n * 10 + DigitVal(ch), NextCh(c), Adv(c))
                   ELSE [n |-> n, ch |-> ch, c |-> c]

\* case_minus: '-' sets LADJUST and disables '0'
Minus(c) == [c EXCEPT !.flags = (@ \cup {"LADJUST"}) \ {"ZEROPAD"}]

\* case_asterisk: a negative width argument is a '-' and its magnitude
Asterisk(c) ==
    LET w == Head(c.args)
    IN  IF w >= 0 THEN RFlag([PopArg(c) EXCEPT !.width = w])
                  ELSE RFlag(Minus([PopArg(c) EXCEPT !.width = -w]))

\* case_digit: the field width, then reswitch on the character after it
Width(c, ch) ==
    LET r == ScanDigits(0, ch, c)
    IN  Reswitch([r.c EXCEPT !.width = r.n], r.ch)

\* case_period: ".*" takes the precision from the arguments and goes to
\* case_str directly when an s or S follows; ".digits" (none: 0) reswitches.
Period(c) ==
    IF NextCh(c) = "*"
    THEN LET c1 == Adv([PopArg(c) EXCEPT !.prec = Head(c.args)])
         IN  CASE NextCh(c1) = "s" -> ConvS(Adv(c1))
               [] NextCh(c1) = "S" -> ConvFormatted(Adv(c1), "S")
               [] OTHER            -> Reswitch(Adv(c1), NextCh(c1))
    ELSE LET r == ScanDigits(0, NextCh(c), Adv(c))
         IN  Reswitch([r.c EXCEPT !.prec = r.n], r.ch)

\* the length modifiers h, l (twice: ll), q, j and L only set flags
LengthFlag(c, ch) ==
    CASE ch = "h" -> SetFlag(c, "SHORTINT")
      [] ch = "l" -> SetFlag(c, IF "LONGINT" \in c.flags THEN "LLONGINT" ELSE "LONGINT")
      [] ch = "q" -> SetFlag(c, "LLONGINT")
      [] ch = "j" -> c
      [] ch = "L" -> SetFlag(c, "LONGDBL")

Reswitch(c, ch) ==
    CASE ch = " " -> RFlag(IF c.sign = "" THEN [c EXCEPT !.sign = " "] ELSE c)
      [] ch = "#" -> RFlag(SetFlag(c, "ALT"))
      [] ch = "'" -> RFlag(SetFlag(c, "THOUSANDS"))
      [] ch = "*" -> Asterisk(c)
      [] ch = "-" -> RFlag(Minus(c))
      [] ch = "+" -> RFlag([c EXCEPT !.sign = "+"])
      [] ch = "." -> Period(c)
      [] ch = "0" -> RFlag(IF "LADJUST" \in c.flags THEN c ELSE SetFlag(c, "ZEROPAD"))
      [] ch \in {"1", "2", "3", "4", "5", "6", "7", "8", "9"} -> Width(c, ch)
      [] ch \in {"h", "l", "q", "j", "L"} -> RFlag(LengthFlag(c, ch))
      [] ch \in {"d", "i"} -> ConvD(c)
      [] ch = "u" -> NoSign(PopArg(c), 10, UArg(c), ch)
      [] ch = "o" -> NoSign(PopArg(c), 8, UArg(c), ch)
      [] ch \in {"x", "X"} -> ConvX(c, ch)
      [] ch = "p" -> ConvP(c)
      [] ch = "c" -> ConvC(c)
      [] ch = "s" -> ConvS(c)
      [] ch \in {"S", "O"} -> ConvFormatted(c, ch)
      [] ch = "D" -> ConvDate(c)
      [] OTHER -> Cdefault(c, ch)

RFlag(c) == Reswitch(Adv(c), NextCh(c))

\* The body of the while (true) loop: copy the text up to the next '%'
\* (counting it in ret), leave at the end of the format, else reset the
\* conversion state, skip the '%' and read the conversion.
\* the number of bytes before the first '%' of f, or all of f
TextLen(f) ==
    LET P == {i \in 1 .. Len(f) : SubSeq(f, i, i) = "%"}
    IN  IF P = {} THEN Len(f) ELSE (CHOOSE i \in P : \A j \in P : i <= j) - 1

CopyText(c) ==
    LET n == TextLen(c.fmt)
    IN  IF n = 0 THEN c
        ELSE [PutStr(c, SubSeq(c.fmt, 1, n)) EXCEPT
                 !.fmt = IF n = Len(@) THEN "" ELSE SubSeq(@, n + 1, Len(@)),
                 !.ret = @ + n]

\* after a conversion: leave the loop on `break`, else scan on
RECURSIVE Scan(_), Continue(_)
Scan(c) ==
    LET t == CopyText(c)
    IN  IF t.fmt = "" THEN t
        ELSE Continue(RFlag([Adv(t) EXCEPT !.prec = -1, !.sign = "", !.width = 0, !.flags = {}]))

Continue(d) == IF d.stop THEN d ELSE Scan(d)

-----------------------------------------------------------------------------
(* The caller: one call u__snprintf(buffer, buffer_size, format, ...) on a *)
(* buffer large enough (U_INTERNAL_ERROR asserts ret <= buffer_size; the   *)
(* release build does not check it).                                      *)

CONSTANT Calls   \* the (format, arguments) pairs the program may pass

VARIABLES
    pc,      \* "ready", "returned", or "overrun" (a padding loop ran away)
    call,    \* the format and argument list of the call (<< >> before it)
    result   \* out: the string at buffer; ret: the value returned; under:
             \* a byte was written before buffer

vars == << pc, call, result >>

Start(cl) ==
    [fmt |-> cl.fmt, args |-> cl.args, size |-> cl.size, strmax |-> cl.strmax,
     now |-> cl.now, usec |-> cl.usec, adjust |-> cl.adjust, tz |-> cl.tz,
     buf |-> "", bp |-> 0, ret |-> 0,
     under |-> FALSE, over |-> FALSE, stop |-> FALSE,
     flags |-> {}, width |-> 0, prec |-> -1, sign |-> ""]

Init ==
    /\ pc = "ready"
    /\ call = << >>
    /\ result = [out |-> "", ret |-> 0, under |-> FALSE]

\* u__vsnprintf: run the loop, then `if (ret < buffer_size) *bp = '\0'`,
\* so the string at buffer is the bytes before bp.
Vsnprintf ==
    /\ pc = "ready"
    /\ \E cl \in Calls :
         LET r == Scan(Start(cl))
         IN  /\ pc' = IF r.over THEN "overrun" ELSE "returned"
             /\ call' = cl
             /\ result' = [out |-> SubSeq(r.buf, 1, r.bp), ret |-> r.ret, under |-> r.under]

Next == Vsnprintf

\* A call that returns has nothing left to do: the caller's process goes on
\* elsewhere, so the final states are not deadlocks of the program.
Spec == Init /\ [][Next]_vars

=============================================================================
