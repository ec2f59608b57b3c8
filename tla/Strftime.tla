------------------------------ MODULE Strftime ------------------------------
(***************************************************************************)
(* u_strftime1 of src/src/ulib/base/base.c: the format loop that writes   *)
(* the broken-down time u_strftime_tm into s, bounded only by the test   *)
(* count < maxsize at the top of each iteration.  One call is one step.  *)
(*                                                                         *)
(* The configuration record c holds the rest of the format, the bytes    *)
(* written from s[0] on (count is their number), maxsize, the time tm    *)
(* (tm_wday, tm_mon, tm_mday, tm_hour, tm_min, tm_sec, tm_yday, tm_year), *)
(* the global u_now_adjust (local time minus UTC, in seconds) and         *)
(* tzname[u_daylight].  Years are 1900 + tm_year in 1000 .. 9999, the    *)
(* range in which sprintf("%.4d") writes exactly the four bytes counted. *)
(***************************************************************************)
EXTENDS Integers, Sequences

\* Two bytes U_NUM2STR16 reads from outside its table of the pairs 00..99
\* (the model does not tell their values apart).
Garbage == "??"

DName == << "Sunday", "Monday", "Tuesday", "Wednesday", "Thursday", "Friday", "Saturday" >>
MName == << "January", "February", "March", "April", "May", "June", "July", "August",
            "September", "October", "November", "December" >>
DNameLen == << 6, 6, 7, 9, 8, 6, 8 >>
MNameLen == << 7, 8, 5, 5, 3, 4, 4, 6, 9, 7, 8, 8 >>

Digit(d) == SubSeq("0123456789", d + 1, d + 1)   \* '0' + d

\* U_NUM2STR16(p, v): the two digits of v, taken from a table of 100 pairs
Num2Str16(v) == IF v \in 0 .. 99 THEN Digit(v \div 10) \o Digit(v % 10) ELSE Garbage

RECURSIVE Decimal(_)
Decimal(v) == IF v < 10 THEN Digit(v) ELSE Decimal(v \div 10) \o Digit(v % 10)

\* sprintf "%.nd" of v >= 0: at least n digits, zero-filled
DotD(v, n) == LET d == Decimal(v)
              IN  IF Len(d) >= n THEN d ELSE SubSeq("0000", 1, n - Len(d)) \o d

\* C's / and % on int, which truncate toward zero
CDiv(a, b) == IF a >= 0 THEN a \div b ELSE -((-a) \div b)
CRem(a, b) == a - b * CDiv(a, b)

Letters == "ABCDEFGHIJKLMNOPQRSTUVWXYZabcdefghijklmnopqrstuvwxyz"
IsAlpha(ch) == \E i \in 1 .. 52 : SubSeq(Letters, i, i) = ch          \* u__isalpha

\* The letters whose dispatch_table entry is not 0.
Dispatched == {"A", "B", "H", "I", "M", "S", "T", "U", "W", "X", "Y", "Z",
               "a", "b", "c", "d", "e", "h", "j", "m", "p", "w", "x", "y", "z"}

Abbrev(s) == SubSeq(s, 1, 3)   \* for (i = 0; i < 3; ++i) s[count++] = name[i]

\* Mutant of TwelveHour: noon is not special.
TwelveHourNoNoon(h) ==
    IF h = 0 THEN "12"
    ELSE LET val == h % 12
         IN  Digit(IF val >= 10 THEN val \div 10 ELSE 0) \o Digit(val % 10)

\* %I: "12" for hours 0 and 12, else the two digits of tm_hour % 12
TwelveHour(h) ==
    IF h = 0 \/ h = 12 THEN "12"
    ELSE LET val == h % 12
         IN  Digit(IF val >= 10 THEN val \div 10 ELSE 0) \o Digit(val % 10)

\* %z: the sign from u_now_adjust / 3600, its two digits, and then
\* U_NUM2STR16 of u_now_adjust % 3600
Zone(adj) ==
    LET val == CDiv(adj, 3600)
    IN  (IF val > 0 THEN "+" \o Num2Str16(val) ELSE "-" \o Num2Str16(-val))
        \o Num2Str16(CRem(adj, 3600))

\* The bytes one dispatched conversion writes (the case_ labels).
Field(ch, c) ==
    LET tm == c.tm
        hms == Num2Str16(tm.hour) \o ":" \o Num2Str16(tm.min) \o ":" \o Num2Str16(tm.sec)
        dm  == Abbrev(DName[tm.wday + 1]) \o " " \o Abbrev(MName[tm.mon + 1])
    IN  CASE ch = "A" -> SubSeq(DName[tm.wday + 1], 1, DNameLen[tm.wday + 1])
          [] ch = "B" -> SubSeq(MName[tm.mon + 1], 1, MNameLen[tm.mon + 1])
          [] ch = "H" -> Num2Str16(tm.hour)
          [] ch = "I" -> TwelveHour(tm.hour)
          [] ch = "M" -> Num2Str16(tm.min)
          [] ch = "S" -> Num2Str16(tm.sec)
          [] ch \in {"T", "X"} -> hms
          [] ch = "U" -> Num2Str16((tm.yday + 7 - tm.wday) \div 7)
          [] ch = "W" -> Num2Str16((tm.yday + ((8 - tm.wday) % 7)) \div 7)
          [] ch = "Y" -> DotD(1900 + tm.year, 4)
          [] ch = "Z" -> c.tz
          [] ch = "a" -> Abbrev(DName[tm.wday + 1])
          [] ch \in {"b", "h"} -> Abbrev(MName[tm.mon + 1])
          [] ch = "c" -> dm \o " " \o DotD(tm.mday, 2) \o " " \o DotD(tm.hour, 2) \o ":"
                         \o DotD(tm.min, 2) \o ":" \o DotD(tm.sec, 2) \o " " \o DotD(1900 + tm.year, 4)
          [] ch = "d" -> Num2Str16(tm.mday)
          [] ch = "e" -> (IF tm.mday >= 10 THEN Digit(tm.mday \div 10) ELSE " ") \o Digit(tm.mday % 10)
          [] ch = "j" -> DotD(tm.yday + 1, 3)
          [] ch = "m" -> Num2Str16(tm.mon + 1)
          [] ch = "p" -> IF tm.hour < 12 THEN "AM" ELSE "PM"
          [] ch = "w" -> Digit(tm.wday % 10)
          [] ch = "x" -> dm \o " " \o DotD(tm.mday, 2) \o " " \o DotD(1900 + tm.year, 4)
          [] ch = "y" -> Num2Str16(CRem(CRem(tm.year, 100) + 100, 100))
          [] ch = "z" -> Zone(c.adjust)

-----------------------------------------------------------------------------
(* The while (count < maxsize) loop.                                       *)

CharAt(f, i) == IF i <= Len(f) THEN SubSeq(f, i, i) ELSE ""     \* "" is '\0'
Drop(f, n) == IF n >= Len(f) THEN "" ELSE SubSeq(f, n + 1, Len(f))

\* the number of bytes before the first '%' of f, or all of f
TextLen(f) ==
    LET P == {i \in 1 .. Len(f) : SubSeq(f, i, i) = "%"}
    IN  IF P = {} THEN Len(f) ELSE (CHOOSE i \in P : \A j \in P : i <= j) - 1

\* while (n--) s[count++] = *fmark++;
CopyText(c) ==
    LET n == TextLen(c.fmt)
    IN  [c EXCEPT !.buf = @ \o SubSeq(c.fmt, 1, n), !.fmt = Drop(@, n)]

\* cdefault: "%%" prints %, "%?" prints %?, and a '%' at the end prints %
\* and leaves the loop (stop).
Cdefault(c, ch) ==
    CASE ch = "%" -> [c EXCEPT !.buf = @ \o "%"]
      [] ch = ""  -> [c EXCEPT !.buf = @ \o "%", !.stop = TRUE]
      [] OTHER    -> [c EXCEPT !.buf = @ \o "%" \o ch]

\* One iteration after the text: leave at the end of the format, else skip
\* the '%', read ch, and dispatch on it.
Convert(t) ==
    LET ch == CharAt(t.fmt, 2)
        c  == [t EXCEPT !.fmt = Drop(@, 2)]
    IN  IF IsAlpha(ch) /\ ch \in Dispatched THEN [c EXCEPT !.buf = @ \o Field(ch, c)]
                                            ELSE Cdefault(c, ch)

RECURSIVE Loop(_), Continue(_)
Loop(c) ==
    IF Len(c.buf) >= c.max THEN c
    ELSE LET t == CopyText(c)
         IN  IF t.fmt = "" THEN t ELSE Continue(Convert(t))

Continue(c) == IF c.stop THEN c ELSE Loop(c)

-----------------------------------------------------------------------------
(* u_strftime2(s, maxsize, format, t): gmtime_r(t) into u_strftime_tm, then *)
(* u_strftime1.  gmtime_r is the C library's; it is modelled from POSIX's   *)
(* definition of seconds since the Epoch, for 0 <= t < 2^31.                *)

GmTime(t) ==
    LET IsLeap(y) == (y % 4 = 0 /\ y % 100 # 0) \/ y % 400 = 0
        \* the days from 1 January 1970 to 1 January of year y >= 1970
        YearStart(y) == 365 * (y - 1970) + (y - 1969) \div 4
                        - (y - 1901) \div 100 + (y - 1601) \div 400
        \* the days of year y before month mo (0 .. 12)
        MonthStart(y, mo) ==
            << 0, 31, 59, 90, 120, 151, 181, 212, 243, 273, 304, 334, 365 >>[mo + 1]
            + (IF IsLeap(y) /\ mo >= 2 THEN 1 ELSE 0)
        d  == t \div 86400
        s  == t % 86400
        y  == CHOOSE y \in 1970 .. 2038 : YearStart(y) <= d /\ d < YearStart(y + 1)
        yd == d - YearStart(y)
        mo == CHOOSE mo \in 0 .. 11 : MonthStart(y, mo) <= yd /\ yd < MonthStart(y, mo + 1)
    IN  [wday |-> (d + 4) % 7, mon |-> mo, mday |-> yd - MonthStart(y, mo) + 1,
         hour |-> s \div 3600, min |-> (s % 3600) \div 60, sec |-> s % 60,
         yday |-> yd, year |-> y - 1900]

\* the bytes u_strftime2 writes (u_now_adjust and tzname[u_daylight] are
\* the caller's adj and tz)
Strftime2(max, fmt, t, adj, tz) ==
    Loop([fmt |-> fmt, buf |-> "", max |-> max, tm |-> GmTime(t),
          adjust |-> adj, tz |-> tz, stop |-> FALSE]).buf

-----------------------------------------------------------------------------
(* One call u_strftime1(s, maxsize, format) with u_strftime_tm, u_now_adjust *)
(* and tzname set by the caller (u_strftime2 or %D of u__vsnprintf).       *)

CONSTANT Calls   \* [fmt, max, tm, adjust, tz] records the program may pass

VARIABLES
    pc,      \* "ready" or "returned"
    call,    \* the call made (<< >> before it)
    result   \* out: the bytes written; count: the value returned;
             \* terminated: s[count] = '\0' was written

vars == << pc, call, result >>

Start(cl) == [fmt |-> cl.fmt, buf |-> "", max |-> cl.max, tm |-> cl.tm,
              adjust |-> cl.adjust, tz |-> cl.tz, stop |-> FALSE]

Init ==
    /\ pc = "ready"
    /\ call = << >>
    /\ result = [out |-> "", count |-> 0, terminated |-> FALSE]

\* u_strftime1: the loop, then `if (count < maxsize) s[count] = '\0'` and
\* return count.
Strftime1 ==
    /\ pc = "ready"
    /\ \E cl \in Calls :
         LET r == Loop(Start(cl))
         IN  /\ call' = cl
             /\ result' = [out |-> r.buf, count |-> Len(r.buf), terminated |-> Len(r.buf) < cl.max]
    /\ pc' = "returned"

Next == Strftime1

Spec == Init /\ [][Next]_vars

=============================================================================
