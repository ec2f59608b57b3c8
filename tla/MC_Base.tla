------------------------------ MODULE MC_Base -------------------------------
(***************************************************************************)
(* The formatting routines of src/src/ulib/base/base.c for model checking:*)
(* u__vsnprintf (module Vsnprintf) and u_strftime1 (module Strftime), each*)
(* checked against a reference written from the C standard; u_num2str*   *)
(* (Num2Str) and the hexdump coder (HexDump) against printf's %u, %d and  *)
(* %x; and the at-exit registry (AtExit) against AbstractAtExit.  A       *)
(* behaviour exercises one of the five; they share no state.               *)
(***************************************************************************)
EXTENDS Integers, Sequences, TLC

CONSTANTS VCalls, SCalls, NCalls, HCalls, f1, f2, f3, Null, NumFns

VARIABLES vpc, vcall, vresult, spc, scall, sresult, npc, ncall, nresult, hpc, hcall, hresult,
          u_fns, u_fns_index, called, phase

vvars == << vpc, vcall, vresult >>
svars == << spc, scall, sresult >>
nvars == << npc, ncall, nresult >>
hvars == << hpc, hcall, hresult >>
avars == << u_fns, u_fns_index, called, phase >>

V == INSTANCE Vsnprintf WITH pc <- vpc, call <- vcall, result <- vresult, Calls <- VCalls
S == INSTANCE Strftime WITH pc <- spc, call <- scall, result <- sresult, Calls <- SCalls
N == INSTANCE Num2Str WITH pc <- npc, call <- ncall, result <- nresult, Calls <- NCalls
H == INSTANCE HexDump WITH pc <- hpc, call <- hcall, result <- hresult, Calls <- HCalls

Printing == INSTANCE PrintfContract
Standard == INSTANCE StrftimeContract

\* Three function pointers u_atexit may be given.
MCFns == {f1, f2, f3}

A == INSTANCE AtExit WITH Fns <- MCFns

Init == V!Init /\ S!Init /\ N!Init /\ H!Init /\ A!Init

\* The registry before any call.
Untouched == u_fns_index = 0 /\ phase = "running"

\* Each component steps only while the others are still at their start.
Next == \/ /\ spc = "ready" /\ npc = "ready" /\ hpc = "ready" /\ Untouched
           /\ V!Next /\ UNCHANGED << svars, nvars, hvars, avars >>
        \/ /\ vpc = "ready" /\ npc = "ready" /\ hpc = "ready" /\ Untouched
           /\ S!Next /\ UNCHANGED << vvars, nvars, hvars, avars >>
        \/ /\ vpc = "ready" /\ spc = "ready" /\ hpc = "ready" /\ Untouched
           /\ N!Next /\ UNCHANGED << vvars, svars, hvars, avars >>
        \/ /\ vpc = "ready" /\ spc = "ready" /\ npc = "ready" /\ Untouched
           /\ H!Next /\ UNCHANGED << vvars, svars, nvars, avars >>
        \/ /\ vpc = "ready" /\ spc = "ready" /\ npc = "ready" /\ hpc = "ready"
           /\ A!Next /\ UNCHANGED << vvars, svars, nvars, hvars >>

\* A call that returns has nothing left to do: the caller goes on elsewhere,
\* and u_exit ends the process, so the final states are not deadlocks of
\* the program.
Spec == Init /\ [][Next]_<< vvars, svars, nvars, hvars, avars >>

-----------------------------------------------------------------------------
(* Calls of u__snprintf: every combination of a set of flags, widths      *)
(* (none, 6, and '*' with -6) and precisions (none, .3, .0, and '*' with  *)
(* -1) with the integer conversions, on zero, a small and a seven-digit   *)
(* value; %s, %c and %p fields; the length modifiers; "%%", an unknown    *)
(* conversion, a '%' at the end; and a format with two fields.  Each      *)
(* format starts with a text byte, so a field that writes before its own  *)
(* start overwrites it.                                                    *)

FlagStrings == {"", "-", "0", "+", " ", "#", "'", "-#", "0#", "+0", " -"}
Widths == {[t |-> "", a |-> << >>], [t |-> "6", a |-> << >>], [t |-> "*", a |-> << -6 >>]}
Precisions == {[t |-> "", a |-> << >>], [t |-> ".3", a |-> << >>], [t |-> ".0", a |-> << >>],
               [t |-> ".*", a |-> << -1 >>]}
\* unsigned conversions get non-negative values: (unsigned)-1 does not fit
\* TLC's integers
Values(C) == IF C = "d" THEN {0, -42, 1234567} ELSE {0, 255, 1234567}

ConvValues == UNION {{[c |-> C, v |-> v] : v \in Values(C)} : C \in {"d", "u", "o", "x", "X"}}

IntCalls ==
    {[fmt |-> "=%" \o f \o w.t \o p.t \o cv.c, args |-> w.a \o p.a \o << cv.v >>] :
        f \in FlagStrings, w \in Widths, p \in Precisions, cv \in ConvValues}

\* C prints "0" for %#.0o of zero; u__vsnprintf prints nothing.  These
\* calls are left out of the passing run (see README, "Findings").
OctalZeroCorner(cl) ==
    /\ SubSeq(cl.fmt, Len(cl.fmt), Len(cl.fmt)) = "o"
    /\ \E i \in 1 .. Len(cl.fmt) : SubSeq(cl.fmt, i, i) = "#"
    /\ \E i \in 1 .. Len(cl.fmt) - 1 : SubSeq(cl.fmt, i, i + 1) = ".0"
    /\ cl.args[Len(cl.args)] = 0
OtherCalls ==
    {[fmt |-> "=%" \o f \o w.t \o p.t \o "s", args |-> w.a \o p.a \o << "hello" >>] :
        f \in {"", "-"}, w \in Widths, p \in {[t |-> "", a |-> << >>], [t |-> ".2", a |-> << >>],
                                          [t |-> ".*", a |-> << 3 >>]}}
    \cup {[fmt |-> "=%" \o f \o "c", args |-> << "a" >>] : f \in {"", "3", "-3"}}
    \cup {[fmt |-> "=%" \o f \o "p", args |-> << v >>] : f \in {"", "10", "-10"}, v \in {255}}
    \cup {[fmt |-> "=%p", args |-> << 0 >>],
          [fmt |-> "=%%", args |-> << >>], [fmt |-> "50%%=", args |-> << >>],
          [fmt |-> "=%k", args |-> << >>], [fmt |-> "=%", args |-> << >>],
          [fmt |-> "=%5%", args |-> << >>],
          [fmt |-> "=%hd", args |-> << 40000 >>], [fmt |-> "=%hu", args |-> << 70000 >>],
          [fmt |-> "=%ld", args |-> << -5 >>], [fmt |-> "=%lld", args |-> << -5 >>],
          [fmt |-> "=%qd", args |-> << 7 >>], [fmt |-> "=%jd", args |-> << 7 >>],
          [fmt |-> "=%i", args |-> << -42 >>], [fmt |-> "=% +d", args |-> << 5 >>],
          [fmt |-> "=%+ d", args |-> << 5 >>], [fmt |-> "=%0-5d", args |-> << 5 >>],
          [fmt |-> "=%d,%s!", args |-> << 7, "ab" >>]}

\* A call into a buffer of 4096 bytes with u_printf_string_max_length 0,
\* its value until a program sets it; u_now and the zone are read by %D only.
Roomy(Cs) == {[fmt |-> cl.fmt, args |-> cl.args, size |-> 4096, strmax |-> 0,
               now |-> 0, usec |-> 0, adjust |-> 0, tz |-> "UTC"] : cl \in Cs}

\* %S and %O: the bytes at cp end with the terminator 0 and hold a
\* quote, a backslash, named and unnamed control bytes, '~', DEL and bytes
\* above 127; the precisions are none, 2, a star (3, -1, 0) and 0, in a
\* buffer of 4096 bytes and, without a precision or with 2, of 200 bytes.
Ptr(m) == [null |-> FALSE, mem |-> m]
NullPtr == [null |-> TRUE, mem |-> << >>]
Plain   == << 97, 98, 0 >>                              \* "ab"
Mixed   == << 34, 92, 9, 1, 126, 127, 200, 255, 0 >>     \* "\"\\\t\001~\177\310\377"
Ctrl    == << 7, 8, 10, 11, 12, 13, 27, 31, 0 >>
Binary  == << 65, 0, 66, 10, 0 >>                       \* "A", and more after its 0
FormattedArgs == {Ptr(Plain), Ptr(Mixed), Ptr(Ctrl), Ptr(Binary), NullPtr}
FormattedCalls ==
    {[fmt |-> "=%" \o p.t \o ch, args |-> p.a \o << a >>, size |-> 4096, strmax |-> mx,
      now |-> 0, usec |-> 0, adjust |-> 0, tz |-> "UTC"] :
        p \in {[t |-> "", a |-> << >>], [t |-> ".2", a |-> << >>], [t |-> ".0", a |-> << >>],
              [t |-> ".*", a |-> << 3 >>], [t |-> ".*", a |-> << -1 >>], [t |-> ".*", a |-> << 0 >>]},
        ch \in {"S", "O"}, a \in FormattedArgs, mx \in {0, 3}}
    \cup {[fmt |-> "=%#.*S!", args |-> << n, Ptr(Binary) >>, size |-> 4096, strmax |-> 0,
          now |-> 0, usec |-> 0, adjust |-> 0, tz |-> "UTC"] : n \in {1, 3, 5}}
    \* a buffer of 200 bytes: no room for the worst case of 128 bytes
    \cup {[fmt |-> "=%" \o t \o ch, args |-> << a >>, size |-> 200, strmax |-> 0,
          now |-> 0, usec |-> 0, adjust |-> 0, tz |-> "UTC"] :
            t \in {"", ".2"}, ch \in {"S", "O"}, a \in {Ptr(Plain), Ptr(Mixed)}}

\* %D with widths 0 .. 10: under '#' the time is the argument (an hour and a
\* minute, a second either side of one day, a day more, and 2001-09-09
\* 01:46:40 UTC; one day itself is OneDayCalls); without it u_now is
\* that instant, with a zone an hour east (CET) or five hours west (EST),
\* the latter a day back, and tv_usec 7000 or 999999.  w and alt record the
\* width and the flag the format spells.
DateFmt(w, alt) == "=%" \o (IF alt THEN "#" ELSE "") \o (IF w = 0 THEN "" ELSE ToString(w)) \o "D"
DateCalls ==
    {[fmt |-> DateFmt(w, TRUE), args |-> << t >>, size |-> 4096, strmax |-> 0,
      now |-> 0, usec |-> 0, adjust |-> 3600, tz |-> "CET", w |-> w, alt |-> TRUE] :
        w \in 0 .. 10, t \in {1000000000}}
    \cup {[fmt |-> DateFmt(2, TRUE), args |-> << t >>, size |-> 4096, strmax |-> 0,
           now |-> 0, usec |-> 0, adjust |-> 0, tz |-> "UTC", w |-> 2, alt |-> TRUE] :
             t \in {3661, 86399, 86401, 90061}}
    \cup {[fmt |-> DateFmt(w, FALSE), args |-> << >>, size |-> 4096, strmax |-> 0,
           now |-> 1000000000, usec |-> us, adjust |-> z.adjust, tz |-> z.tz,
           w |-> w, alt |-> FALSE] :
             w \in 0 .. 10, us \in {7000, 999999},
             z \in {[adjust |-> 3600, tz |-> "CET"], [adjust |-> -18000, tz |-> "EST"]}}

\* %#2D of exactly one day, U_ONE_DAY_IN_SECOND: the edge of t > 86400.
OneDayCalls ==
    {[fmt |-> DateFmt(2, TRUE), args |-> << 86400 >>, size |-> 4096, strmax |-> 0,
      now |-> 0, usec |-> 0, adjust |-> 0, tz |-> "UTC", w |-> 2, alt |-> TRUE]}

PassCalls == Roomy({cl \in IntCalls \cup OtherCalls : ~OctalZeroCorner(cl)})
             \cup FormattedCalls \cup DateCalls

\* A '#' hex or a %p field whose width leaves exactly one byte of padding.
PrefixCalls == Roomy(
    {[fmt |-> "=%#3x", args |-> << 16 >>], [fmt |-> "=%#03x", args |-> << 16 >>],
     [fmt |-> "=%-#3x", args |-> << 16 >>], [fmt |-> "=%3p", args |-> << 16 >>],
     [fmt |-> "%#3x", args |-> << 16 >>]})

(***************************************************************************)
(* The call returns, and the string it leaves at buffer is the one the C  *)
(* standard's description of snprintf gives for the same format and       *)
(* arguments: the flags, width and precision of each field interact in    *)
(* the `next` label of u__vsnprintf, where a sign or 0x prefix is taken   *)
(* out of the padding or counted on top of it.                             *)
(***************************************************************************)
Formatted(cl) == \E i \in 1 .. Len(cl.fmt) : SubSeq(cl.fmt, i, i) \in {"S", "O"}
IsDate(cl) == "w" \in DOMAIN cl

OutputMatchesPrintf ==
    vpc # "ready" => /\ vpc = "returned"
                     /\ ~Formatted(vcall) /\ ~IsDate(vcall) => vresult.out = Printing!Printf(vcall.fmt, vcall.args)

(***************************************************************************)
(* The value u__vsnprintf returns is the length of the string it wrote,   *)
(* and it wrote nothing before buffer: callers advance their output       *)
(* pointer by the return value (u__printf writes `bytes_written` bytes).  *)
(***************************************************************************)
ReturnIsLength ==
    vpc = "returned" => vresult.ret = Len(vresult.out) /\ ~vresult.under

\* The escape of byte b in a C string literal (C 6.4.4.4): the simple
\* escapes, \e for ESC, three octal digits for the other bytes outside the
\* printable range, and the byte itself.
SimpleEscapes == << << 7, "a" >>, << 8, "b" >>, << 9, "t" >>, << 10, "n" >>, << 11, "v" >>,
                   << 12, "f" >>, << 13, "r" >>, << 27, "e" >>, << 34, "\"" >>, << 92, "\\" >> >>
EscapeOf(b) ==
    LET k == {i \in 1 .. Len(SimpleEscapes) : SimpleEscapes[i][1] = b}
        o(d) == SubSeq("01234567", d + 1, d + 1)
    IN  IF k # {} THEN "\\" \o SimpleEscapes[CHOOSE i \in k : TRUE][2]
        ELSE IF b \in 32 .. 126 THEN V!Byte(b)
        ELSE "\\" \o o(b \div 64) \o o((b \div 8) % 8) \o o(b % 8)

RECURSIVE Escaped(_)
Escaped(bs) == IF bs = << >> THEN "" ELSE EscapeOf(Head(bs)) \o Escaped(Tail(bs))

\* the C string at m: the bytes before the first 0
CString(m) == SubSeq(m, 1, (CHOOSE i \in DOMAIN m : m[i] = 0 /\ \A j \in 1 .. i - 1 : m[j] # 0) - 1)

\* the precision the format gives the field, -1 for none (a negative star
\* argument counts as none)
PrecisionOf(cl) ==
    LET has(s) == \E i \in 1 .. Len(cl.fmt) - 1 : SubSeq(cl.fmt, i, i + 1) = s
    IN  CASE has(".*") -> IF cl.args[1] < 0 THEN -1 ELSE cl.args[1]
          [] has(".2") -> 2
          [] has(".0") -> 0
          [] OTHER     -> -1

\* What %S promises for a string: the string between double quotes, each
\* byte escaped, at most the precision or, without one, at most maxlen
\* bytes followed by "..." when the string is longer; with '#' exactly that
\* many bytes of the binary string, terminators included.
Shown(cl) ==
    LET a      == cl.args[Len(cl.args)]
        p      == PrecisionOf(cl)
        maxlen == IF cl.strmax > 0 THEN cl.strmax ELSE 128
        limit  == IF p < 0 \/ p > maxlen THEN maxlen ELSE p
        alt    == \E i \in 1 .. Len(cl.fmt) : SubSeq(cl.fmt, i, i) = "#"
        s      == CString(a.mem)
    IN  [bytes |-> IF alt THEN SubSeq(a.mem, 1, limit)
                   ELSE SubSeq(s, 1, IF Len(s) < limit THEN Len(s) ELSE limit),
         more  |-> p < 0 /\ ~alt /\ Len(s) > limit,
         empty |-> p = 0]

\* The field cut after k shown bytes: whole escapes, the closing quote, and
\* "..." only after all of them.
FieldUpTo(sh, k) ==
    IF sh.empty THEN "\"\""
    ELSE "\"" \o Escaped(SubSeq(sh.bytes, 1, k)) \o "\""
         \o (IF sh.more /\ k = Len(sh.bytes) THEN "..." ELSE "")

Bang(cl) == IF SubSeq(cl.fmt, Len(cl.fmt), Len(cl.fmt)) = "!" THEN "!" ELSE ""

(***************************************************************************)
(* case_str and case_ustring_V print a %S or %O string as the C literal of *)
(* its bytes: u_sprintc's escapes, the cut at the precision or at maxlen   *)
(* (u_printf_string_max_length), the "..." that marks a string cut without *)
(* a precision, and '#' reading past the terminator.  In a buffer of 4096  *)
(* bytes, more than the worst case of 4 bytes for each of maxlen bytes,    *)
(* the field is whole; in any buffer ("compatibly with buffer size", the   *)
(* comment says) it may stop early, but only after a whole escape, closed  *)
(* by its quote, and within buffer_size.  (A null pointer has no contract; *)
(* those calls are held to ReturnIsLength only.)                           *)
(***************************************************************************)
FormattedStringIsEscaped ==
    vpc = "returned" /\ Formatted(vcall) /\ ~vcall.args[Len(vcall.args)].null =>
        LET sh == Shown(vcall)
        IN  /\ Len(vresult.out) <= vcall.size
            /\ vcall.size >= 4096 => vresult.out = "=" \o FieldUpTo(sh, Len(sh.bytes)) \o Bang(vcall)
            /\ \E k \in 0 .. Len(sh.bytes) : vresult.out = "=" \o FieldUpTo(sh, k) \o Bang(vcall)

\* The date formats the comment above case_D documents, by width.
DocumentedDate == << "%d/%m/%y", "%T", "%T", "%d/%m/%Y %T", "%d%m%y_%H%M%S",
                     "%a, %d %b %Y %T %Z", "%Y/%m/%d", "%Y/%m/%d %T",
                     "%a, %d %b %Y %T GMT", "%d/%m/%y %T", "%d/%b/%Y:%T %z" >>

\* A time in seconds since the Epoch as a struct tm in UTC, counting whole
\* years and then whole months off the days (an independent gmtime).
LeapYear(y) == (y % 4 = 0 /\ y % 100 # 0) \/ y % 400 = 0
MonthLengths(y) == << 31, IF LeapYear(y) THEN 29 ELSE 28, 31, 30, 31, 30, 31, 31, 30, 31, 30, 31 >>
RECURSIVE YearOf(_, _), MonthOf(_, _, _)
YearOf(y, d) ==
    LET n == IF LeapYear(y) THEN 366 ELSE 365
    IN  IF d < n THEN [y |-> y, d |-> d] ELSE YearOf(y + 1, d - n)
MonthOf(ml, mo, d) == IF d < ml[mo + 1] THEN [mo |-> mo, d |-> d] ELSE MonthOf(ml, mo + 1, d - ml[mo + 1])
UtcTime(t) ==
    LET days == t \div 86400
        yd   == YearOf(1970, days)
        md   == MonthOf(MonthLengths(yd.y), 0, yd.d)
    IN  [wday |-> (days + 4) % 7, mon |-> md.mo, mday |-> md.d + 1,
         hour |-> (t % 86400) \div 3600, min |-> (t % 3600) \div 60, sec |-> t % 60,
         yday |-> yd.d, year |-> yd.y - 1900]

ZeroPad3(n) == LET s == ToString(n) IN SubSeq("00", 1, 3 - Len(s)) \o s

(***************************************************************************)
(* %D (case_D) prints strftime of the format the comment above case_D     *)
(* documents for its width, of the time t: the argument under '#', else   *)
(* u_now in local time, except for width 8 whose format says GMT.  Width  *)
(* 2 under '#' adds " +n days" when t spans n >= 1 whole days, and width 4 *)
(* adds "_" and the milliseconds of u_now in three digits.                 *)
(***************************************************************************)
DateFieldMatchesStrftime ==
    vpc = "returned" /\ IsDate(vcall) =>
        LET t    == IF vcall.alt THEN vcall.args[1]
                    ELSE vcall.now + (IF vcall.w = 8 THEN 0 ELSE vcall.adjust)
            more == CASE vcall.w = 2 /\ vcall.alt /\ t \div 86400 >= 1 ->
                           " +" \o ToString(t \div 86400) \o " days"
                      [] vcall.w = 4 -> "_" \o ZeroPad3(vcall.usec \div 1000)
                      [] OTHER -> ""
        IN  vresult.out = "=" \o Standard!Strftime(DocumentedDate[vcall.w + 1], UtcTime(t),
                                                   vcall.adjust, vcall.tz) \o more


-----------------------------------------------------------------------------
(* Calls of u_strftime1.  The times are real dates (tm_wday and tm_yday   *)
(* agree with tm_mday, tm_mon and tm_year) with hours 0, 9, 12, 13 and 23 *)
(* for %I and %p, days of the month below and above 10 for %e, a leap     *)
(* day, and the first and last day of a year; the zones are whole hours  *)
(* east and west of UTC, UTC itself, and India's, half an hour off the    *)
(* hour.  The formats are every documented conversion     *)
(* between two text bytes, "%%", a letter with no conversion, a byte that *)
(* is not a letter, a '%' at the end, and the ten formats %D of           *)
(* u__vsnprintf passes with maxsize 36.                                    *)

Apr1992 == [wday |-> 3, mon |-> 3, mday |-> 1, hour |-> 13, min |-> 13, sec |-> 13, yday |-> 91, year |-> 92]
Jan2024 == [wday |-> 1, mon |-> 0, mday |-> 1, hour |-> 0, min |-> 5, sec |-> 9, yday |-> 0, year |-> 124]
Dec2023 == [wday |-> 0, mon |-> 11, mday |-> 31, hour |-> 23, min |-> 59, sec |-> 59, yday |-> 364, year |-> 123]
Feb2000 == [wday |-> 2, mon |-> 1, mday |-> 29, hour |-> 12, min |-> 0, sec |-> 0, yday |-> 59, year |-> 100]
Jul1999 == [wday |-> 1, mon |-> 6, mday |-> 5, hour |-> 9, min |-> 30, sec |-> 7, yday |-> 185, year |-> 99]
Times == {Apr1992, Jan2024, Dec2023, Feb2000, Jul1999}

Zones == {[adjust |-> 3600, tz |-> "CET"], [adjust |-> 7200, tz |-> "CEST"],
          [adjust |-> -18000, tz |-> "EST"]}

ConvLetters == {"A", "B", "H", "I", "M", "S", "T", "U", "W", "X", "Y", "Z",
                "a", "b", "c", "d", "e", "h", "j", "m", "p", "w", "x", "y", "z"}

\* the formats case_D of u__vsnprintf chooses by width
DateFormats == {"%d/%m/%y", "%T", "%d/%m/%Y %T", "%d%m%y_%H%M%S", "%a, %d %b %Y %T %Z",
                "%Y/%m/%d", "%Y/%m/%d %T", "%a, %d %b %Y %T GMT", "%d/%m/%y %T",
                "%d/%b/%Y:%T %z"}

Formats == {"[%" \o ch \o "]" : ch \in ConvLetters}
           \cup {"50%%", "[%q]", "[%5]", "[%[]", "ab%"} \cup DateFormats

\* zones where case_z's sign test (u_now_adjust / 3600 > 0) and its
\* seconds-through-the-two-digit-table remainder meet their edges
EdgeZones == {[adjust |-> 0, tz |-> "UTC"], [adjust |-> 19800, tz |-> "IST"]}

AllSCalls == {[fmt |-> f, max |-> 36, tm |-> t, adjust |-> z.adjust, tz |-> z.tz] :
                 f \in Formats, t \in Times, z \in Zones \cup EdgeZones}

\* %W on a Monday: u_strftime1 counts the week one short (see README,
\* "Findings"); these calls are left out of the passing run.
MondayWeek(cl) == (\E i \in 1 .. Len(cl.fmt) : SubSeq(cl.fmt, i, i) = "W") /\ cl.tm.wday = 1

\* %z in UTC or in a zone off the hour: case_z prints '-' for UTC and the
\* remainder in seconds (README, "Findings"); left out of the passing run.
EdgeZone(cl) == (\E i \in 1 .. Len(cl.fmt) : SubSeq(cl.fmt, i, i) = "z")
                /\ (cl.adjust = 0 \/ cl.adjust % 3600 # 0)

PassSCalls == {cl \in AllSCalls : ~MondayWeek(cl) /\ ~EdgeZone(cl)}
EdgeSCalls == {cl \in AllSCalls : MondayWeek(cl) \/ EdgeZone(cl)}

(***************************************************************************)
(* u_strftime1 writes what strftime writes for the same format, time and *)
(* zone, returns its length, and terminates it: the dispatch through      *)
(* dispatch_table, the cdefault path for bytes without a conversion, and  *)
(* each case_ label's arithmetic (week numbers, 12-hour clock, the zone's *)
(* sign and digits, two-digit years) against the standard's definitions.  *)
(* The Monday %W and the UTC and off-the-hour %z, where the code differs, *)
(* are the run strftime_edges.                                             *)
(***************************************************************************)
OutputMatchesStrftime ==
    spc = "returned" =>
        /\ sresult.out = Standard!Strftime(scall.fmt, scall.tm, scall.adjust, scall.tz)
        /\ sresult.count = Len(sresult.out)
        /\ sresult.terminated

-----------------------------------------------------------------------------
(* Calls of u_num2str*: the numbers at each change of digit count and of   *)
(* base-100 digit count (9/10, 99/100/101, 999/1000), a ten-digit number   *)
(* that fills the four entries of ui32vec, and negatives for the signed   *)
(* versions.                                                               *)

UValues == {0, 7, 10, 99, 100, 101, 999, 1000, 65536, 9999999, 1000000000, 2147483647}
SValues == UValues \cup {-1, -10, -100, -2147483647}

PassNCalls == {[fn |-> f, num |-> n] : f \in {"32", "64"}, n \in UValues}
              \cup {[fn |-> f, num |-> n] : f \in {"32s", "64s"}, n \in SValues}

Signed(cl) == cl.fn \in {"32s", "64s"}

(***************************************************************************)
(* u_num2str32 and friends write what printf's %u (%d for the signed ones)*)
(* writes, the two-digit table lookups and the reversal of the saved      *)
(* base-100 digits included; the unsigned ones return its length.          *)
(***************************************************************************)
Num2StrMatchesPrintf ==
    npc = "returned" =>
        /\ nresult.out = Printing!Printf(IF Signed(ncall) THEN "%d" ELSE "%u", << ncall.num >>)
        /\ ~Signed(ncall) => nresult.ret = Len(nresult.out)

(***************************************************************************)
(* The loop of u_num2str32 stores at most four base-100 digits: ui32vec   *)
(* has four entries, and a ten-digit number needs all of them.             *)
(***************************************************************************)
DigitArrayInBounds == npc = "returned" => nresult.used <= 4

-----------------------------------------------------------------------------
(* Calls of the hexdump coder: bytes at 0, 127/128 and 255 and nibbles of *)
(* every size to encode; lower, upper and mixed case text to decode.      *)

PassHCalls == {[fn |-> "encode", input |-> b] :
                  b \in {<< >>, << 0 >>, << 255 >>, << 16, 1 >>, << 171, 205, 239 >>, << 0, 127, 128 >>}}
              \cup {[fn |-> "decode", input |-> t] : t \in {"", "00", "ff", "FF", "1001", "aBcD", "7f80"}}

\* The C standard's %02x of each byte, in turn: two lower-case digits of
\* 0123456789abcdef, high nibble first.
HexDigit(v) == SubSeq("0123456789abcdef", v + 1, v + 1)

RECURSIVE HexOf(_)
HexOf(bytes) ==
    IF bytes = << >> THEN ""
    ELSE HexDigit(Head(bytes) \div 16) \o HexDigit(Head(bytes) % 16) \o HexOf(Tail(bytes))

\* the string s with the letters A-F made lower-case
RECURSIVE Lower(_)
Lower(s) ==
    IF s = "" THEN ""
    ELSE LET ch    == SubSeq(s, 1, 1)
             Upper == {j \in 1 .. 6 : SubSeq("ABCDEF", j, j) = ch}
         IN  (IF Upper = {} THEN ch ELSE LET j == CHOOSE j \in Upper : TRUE IN SubSeq("abcdef", j, j))
             \o Lower(SubSeq(s, 2, Len(s)))

(***************************************************************************)
(* u_hexdump_encode writes each byte as the C standard's %02x and returns    *)
(* twice the input's length; u_hexdump_decode gives back the bytes whose  *)
(* digits, in either case, are the input's, one per pair, high first.     *)
(***************************************************************************)
HexMatchesStandard ==
    hpc = "returned" =>
      IF hcall.fn = "encode"
      THEN /\ hresult.out = HexOf(hcall.input)
           /\ hresult.ret = Len(hresult.out)
      ELSE /\ \A k \in 1 .. Len(hresult.out) : hresult.out[k] \in 0 .. 255
           /\ Lower(SubSeq(hcall.input, 1, 2 * (Len(hcall.input) \div 2))) = HexOf(hresult.out)
           /\ hresult.ret = Len(hresult.out)

-----------------------------------------------------------------------------
(* The registry's refinement mapping: the registered functions are the    *)
(* non-null slots below u_fns_index, from the bottom up.                  *)

Live == SelectSeq([k \in 1 .. u_fns_index |-> u_fns[k - 1]], LAMBDA x : x # Null)

Registry == INSTANCE AbstractAtExit WITH Fns <- MCFns, live <- Live, exited <- (phase = "exited")

(***************************************************************************)
(* u_atexit, u_unatexit and u_exit implement the registry: u_exit calls   *)
(* each function registered and not withdrawn exactly once, the latest    *)
(* first, however registrations, withdrawals and re-registrations of the  *)
(* same function interleave (a withdrawn slot stays behind as a hole, and *)
(* a re-registration goes above it).                                       *)
(***************************************************************************)
AtExitRefinesRegistry == Registry!Spec

=============================================================================
