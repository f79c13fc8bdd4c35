---------------------------- MODULE LogCalendar ----------------------------
(***************************************************************************)
(* The calendar of the logs: a time is the number of hours since the start *)
(* of a small calendar whose days, months and years all have one length;   *)
(* and the loop over the lines of a file.                                  *)
(***************************************************************************)
EXTENDS Integers, Sequences, SequencesExt

CONSTANTS
  HOURS, DAYS, MONTHS, YEARS,   \* hours of a day, days of a month, ...
  DAY                           \* what 24*3600 is in an int, in hours

ASSUME CalendarAssumption == {HOURS, DAYS, MONTHS, YEARS} \subseteq Nat \ {0}

(* 86400 does not fit an int of 16 bits: it is 20864 s, less than a day.   *)
ASSUME DayAssumption == DAY \in 0 .. HOURS - 1

Times == 0 .. HOURS * DAYS * MONTHS * YEARS - 1

HourOf(t)  == t % HOURS
DayOf(t)   == (t \div HOURS) % DAYS
MonthOf(t) == (t \div (HOURS * DAYS)) % MONTHS
YearOf(t)  == t \div (HOURS * DAYS * MONTHS)

(* makeTime() of the fields above.                                         *)
TimeOf(year, month, day, hour) ==
  ((year * MONTHS + month) * DAYS + day) * HOURS + hour

(* The midnight before a time.                                             *)
Midnight(t) == t - HourOf(t)

(* The end of a query is meant to be a day later than asked for.           *)
EndOf(start, end) == (IF start > end THEN start ELSE end) + DAY

(* The lines that are among S, in their order.                             *)
Chosen(lines, S) ==
  FoldLeft(LAMBDA list, l : IF l \in S THEN Append(list, l) ELSE list, <<>>, lines)

(* The lines up to the first one that is too late, which ends the loop.    *)
UpTo(lines, Late) ==
  LET late == {i \in DOMAIN lines : lines[i] \in Late}
  IN  IF late = {} THEN lines ELSE SubSeq(lines, 1, Min(late) - 1)

=============================================================================
