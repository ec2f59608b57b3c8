-------------------------- MODULE StrftimeContract --------------------------
(***************************************************************************)
(* What strftime promises, from the C standard (7.27.3.5) and, where      *)
(* u_strftime1's documentation comment fixes a choice the standard leaves *)
(* to the locale, from that comment: %c is "Mon Apr 01 13:13:13 1992", %x  *)
(* is "Mon Apr 01 1992", and an unknown "%?" is copied as it is.  Written *)
(* one format byte at a time and independently of the code's tables.      *)
(*                                                                         *)
(* A time t is [wday, mon, mday, hour, min, sec, yday, year] as in struct *)
(* tm; off is the zone's offset east of UTC in seconds and tz its name.   *)
(***************************************************************************)
EXTENDS Integers, Sequences, FiniteSets

Days   == << "Sun", "Mon", "Tue", "Wed", "Thu", "Fri", "Sat" >>
Months == << "Jan", "Feb", "Mar", "Apr", "May", "Jun", "Jul", "Aug", "Sep", "Oct", "Nov", "Dec" >>
DayRest   == << "day", "day", "sday", "nesday", "rsday", "day", "urday" >>
MonthRest == << "uary", "ruary", "ch", "il", "", "e", "y", "ust", "tember", "ober", "ember", "ember" >>

Digits == << "0", "1", "2", "3", "4", "5", "6", "7", "8", "9" >>

\* the last n decimal digits of v >= 0, zero-filled
RECURSIVE Dec(_, _)
Dec(v, n) == IF n = 0 THEN "" ELSE Dec(v \div 10, n - 1) \o Digits[(v % 10) + 1]

\* the weekday (0 = Sunday) of day d of the year of t
WeekdayOf(t, d) == (t.wday - (t.yday - d)) % 7

\* %U and %W: the number of the given weekday among days 0 .. tm_yday, i.e.
\* the week, counted from the first such weekday of the year as week 1
WeekNumber(t, first) == Cardinality({d \in 0 .. t.yday : WeekdayOf(t, d) = first})

Year(t) == 1900 + t.year

HMS(t) == Dec(t.hour, 2) \o ":" \o Dec(t.min, 2) \o ":" \o Dec(t.sec, 2)

\* %z: "+hhmm" or "-hhmm", the offset's hours and minutes
Offset(off) ==
    LET a == IF off < 0 THEN -off ELSE off
    IN  (IF off < 0 THEN "-" ELSE "+") \o Dec(a \div 3600, 2) \o Dec((a % 3600) \div 60, 2)

\* The bytes "%" followed by ch stands for.
Conversion(ch, t, off, tz) ==
    CASE ch = "a" -> Days[t.wday + 1]
      [] ch = "A" -> Days[t.wday + 1] \o DayRest[t.wday + 1]
      [] ch \in {"b", "h"} -> Months[t.mon + 1]
      [] ch = "B" -> Months[t.mon + 1] \o MonthRest[t.mon + 1]
      [] ch = "c" -> Days[t.wday + 1] \o " " \o Months[t.mon + 1] \o " " \o Dec(t.mday, 2)
                     \o " " \o HMS(t) \o " " \o Dec(Year(t), 4)
      [] ch = "d" -> Dec(t.mday, 2)
      [] ch = "e" -> IF t.mday < 10 THEN " " \o Dec(t.mday, 1) ELSE Dec(t.mday, 2)
      [] ch = "H" -> Dec(t.hour, 2)
      [] ch = "I" -> Dec(((t.hour + 11) % 12) + 1, 2)
      [] ch = "j" -> Dec(t.yday + 1, 3)
      [] ch = "m" -> Dec(t.mon + 1, 2)
      [] ch = "M" -> Dec(t.min, 2)
      [] ch = "p" -> IF t.hour < 12 THEN "AM" ELSE "PM"
      [] ch = "S" -> Dec(t.sec, 2)
      [] ch \in {"T", "X"} -> HMS(t)
      [] ch = "U" -> Dec(WeekNumber(t, 0), 2)
      [] ch = "W" -> Dec(WeekNumber(t, 1), 2)
      [] ch = "w" -> Dec(t.wday, 1)
      [] ch = "x" -> Days[t.wday + 1] \o " " \o Months[t.mon + 1] \o " " \o Dec(t.mday, 2)
                     \o " " \o Dec(Year(t), 4)
      [] ch = "y" -> Dec(Year(t) % 100, 2)
      [] ch = "Y" -> Dec(Year(t), 4)
      [] ch = "z" -> Offset(off)
      [] ch = "Z" -> tz
      [] ch = "%" -> "%"
      [] OTHER    -> "%" \o ch

After(f, n) == IF Len(f) <= n THEN "" ELSE SubSeq(f, n + 1, Len(f))

\* The string strftime writes for format f (a '%' at the end is kept).
RECURSIVE Strftime(_, _, _, _)
Strftime(f, t, off, tz) ==
    IF f = "" THEN ""
    ELSE IF SubSeq(f, 1, 1) # "%"
         THEN SubSeq(f, 1, 1) \o Strftime(After(f, 1), t, off, tz)
    ELSE IF Len(f) = 1 THEN "%"
    ELSE Conversion(SubSeq(f, 2, 2), t, off, tz) \o Strftime(After(f, 2), t, off, tz)

=============================================================================
