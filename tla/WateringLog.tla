---------------------------- MODULE WateringLog ----------------------------
(***************************************************************************)
(* The log of zones watered, a file per month, and of schedules run, a     *)
(* file per year, with the tables that a web client asks of them           *)
(* (LogZoneEvent, LogSchedEvent, TableZone, TableSchedule in sdlog.cpp).   *)
(* A line is written at the end of a run, into the file of that moment.    *)
(* It gives how long the run was, and a moment it started: of a zone, the  *)
(* minutes it was meant to run for before its end (LogEvent, core.cpp).    *)
(*                                                                         *)
(* A definition whose comment starts with "Fault:" is a faulty variant of  *)
(* the definition after it, which nothing uses.                            *)
(***************************************************************************)
EXTENDS LogCalendar

CONSTANTS
  Runs,           \* numbers of schedules
  Durations,      \* how long a run was, or was meant to be
  MaxLines        \* of both logs together

ASSUME RunsAssumption == Durations \subseteq Nat /\ MaxLines \in Nat

Lines == [at : Times, start : Times, duration : Durations, sched : Runs]

VARIABLES
  zoneLines,      \* all lines of all files: [at, start, duration, sched]
  schedLines

waterLogVars == <<zoneLines, schedLines>>

WaterLogInit == zoneLines = <<>> /\ schedLines = <<>>

(* The clock may show any time: it may have been set back.                 *)
LogZoneEvent ==
  /\ \E l \in Lines : /\ l.at - l.start \in Durations
                      /\ zoneLines' = Append(zoneLines, l)
  /\ UNCHANGED schedLines

LogSchedEvent ==
  /\ \E l \in Lines : /\ l.at - l.start = l.duration
                      /\ schedLines' = Append(schedLines, l)
  /\ UNCHANGED zoneLines

WaterLogNext ==
  /\ Len(zoneLines) + Len(schedLines) < MaxLines
  /\ LogZoneEvent \/ LogSchedEvent

WaterLogSpec == WaterLogInit /\ [][WaterLogNext]_waterLogVars

-----------------------------------------------------------------------------
(* The last month and day of a table; a query that spans years ends with   *)
(* the first of them.                                                      *)
EndMonth(start, end) == IF YearOf(end) # YearOf(start) THEN MONTHS - 1 ELSE MonthOf(end)
EndDay(start, end)   == IF YearOf(end) # YearOf(start) THEN DAYS - 1 ELSE DayOf(end)

(* The rows of TableZone from the file of a month: a line is read as of    *)
(* the day and hour it gives, in the month of its file.                    *)
RowsOfMonth(month, start, end) ==
  LET year == YearOf(start)
      file == Chosen(zoneLines, {l \in Lines : YearOf(l.at) = year /\ MonthOf(l.at) = month})
      read == UpTo(file, {l \in Lines : /\ month = EndMonth(start, end)
                                        /\ DayOf(l.start) > EndDay(start, end)})
      date(l) == TimeOf(year, month, DayOf(l.start), HourOf(l.start))
      taken == Chosen(read, {l \in Lines : date(l) >= start})
  IN  [i \in DOMAIN taken |->
        [line |-> taken[i], date |-> date(taken[i]), firstOfFile |-> i = 1]]

(* Fault: a gap does not start a new group.                                *)
AddRowIgnoresGap(acc, row) ==
  LET new == row.line.sched # acc.sched
      out == [line |-> row.line, group |-> acc.group + (IF new THEN 1 ELSE 0),
              comma |-> ~(new \/ row.firstOfFile)]
  IN  [sched |-> row.line.sched,
       prevEnd |-> row.date + row.line.duration + 1,
       group |-> out.group, rows |-> Append(acc.rows, out)]

(* A row starts a new group if its schedule differs or there is a gap; it  *)
(* is separated from the row before it unless it is the first of its group *)
(* or of its file.                                                         *)
AddRow(acc, row) ==
  LET new == row.line.sched # acc.sched \/ row.date > acc.prevEnd
      out == [line |-> row.line, group |-> acc.group + (IF new THEN 1 ELSE 0),
              comma |-> ~(new \/ row.firstOfFile)]
  IN  [sched |-> row.line.sched,
       prevEnd |-> row.date + row.line.duration + 1,
       group |-> out.group, rows |-> Append(acc.rows, out)]

TableZone(start, asked) ==
  LET end    == EndOf(start, asked)
      months == [i \in 1 .. EndMonth(start, end) - MonthOf(start) + 1 |->
                  RowsOfMonth(MonthOf(start) + i - 1, start, end)]
  IN  FoldLeft(AddRow, [sched |-> -1, prevEnd |-> 0, group |-> 0, rows |-> <<>>],
               FlattenSeq(months)).rows

(* Fault: lines from before the first day end the table.                   *)
TableScheduleStopsEarly(start, asked) ==
  LET end == EndOf(start, asked)
  IN  UpTo(Chosen(schedLines, {l \in Lines : YearOf(l.at) = YearOf(start)}),
           {l \in Lines : \/ MonthOf(l.start) # EndMonth(start, end)
                          \/ DayOf(l.start) > EndDay(start, end)})

(* TableSchedule: the lines of the year's file, up to the first one after  *)
(* the last day.                                                           *)
TableSchedule(start, asked) ==
  LET end  == EndOf(start, asked)
      file == Chosen(schedLines, {l \in Lines : YearOf(l.at) = YearOf(start)})
      read == UpTo(file, {l \in Lines :
                \/ MonthOf(l.start) > EndMonth(start, end)
                \/ /\ MonthOf(l.start) = EndMonth(start, end)
                   /\ DayOf(l.start) > EndDay(start, end)})
  IN  Chosen(read, {l \in Lines :
        \/ MonthOf(l.start) > MonthOf(start)
        \/ MonthOf(l.start) = MonthOf(start) /\ DayOf(l.start) >= DayOf(start)})

-----------------------------------------------------------------------------
(* The queries of a client: from one midnight to another.                  *)
LogQueries == {q \in Times \X Times : HourOf(q[1]) = 0 /\ HourOf(q[2]) = 0 /\ q[1] <= q[2]}

(* The runs of a log that started in the days of a query, in its first     *)
(* year.                                                                   *)
StartedWithin(log, q) ==
  Chosen(log, {l \in Lines : /\ q[1] <= l.start /\ l.start < q[2] + HOURS
                             /\ YearOf(l.start) = YearOf(q[1])})

LinesOf(rows) == [i \in DOMAIN rows |-> rows[i].line]

SameMonth(t, u) == YearOf(t) = YearOf(u) /\ MonthOf(t) = MonthOf(u)

(* Some run ends in another file than it started in.                       *)
ZoneStraddles == \E i \in DOMAIN zoneLines :
                   ~SameMonth(zoneLines[i].at, zoneLines[i].start)
SchedStraddles == \E i \in DOMAIN schedLines :
                   YearOf(schedLines[i].at) # YearOf(schedLines[i].start)

(* No run of a log is said to have started on an earlier day than one      *)
(* before it: the clock was not set back so far.                           *)
StartsInOrder(log) ==
  \A i, j \in DOMAIN log : i < j => Midnight(log[i].start) <= Midnight(log[j].start)

(* As long as no run straddles the end of a month (or year), and the clock *)
(* was not set back to an earlier day, the tables hold every run of the    *)
(* days asked for, once and in order.                                      *)
TablesAreComplete ==
  /\ zoneLines # <<>> /\ ~ZoneStraddles /\ StartsInOrder(zoneLines) =>
       \A q \in LogQueries :
         LinesOf(TableZone(q[1], q[2])) = StartedWithin(zoneLines, q)
  /\ schedLines # <<>> /\ ~SchedStraddles /\ StartsInOrder(schedLines) =>
       \A q \in LogQueries : TableSchedule(q[1], q[2]) = StartedWithin(schedLines, q)

(* What TableZone is for: a run that straddles the end of a month hides    *)
(* no other one.                                                           *)
EveryRunIsShown ==
  StartsInOrder(zoneLines) =>
    \A q \in LogQueries : \A l \in ToSet(StartedWithin(zoneLines, q)) :
      SameMonth(l.at, l.start) => l \in ToSet(LinesOf(TableZone(q[1], q[2])))

(* The zones of one run of a schedule are shown together, apart from those *)
(* of the next run of the same schedule.  The rows of a group are          *)
(* separated by commas, and its first one has none: a client can parse the *)
(* table if it covers a single month.  (Over the end of a month the        *)
(* separator of a group that goes on is missing.)                          *)
RunsAreGrouped ==
  zoneLines # <<>> =>
    \A q \in LogQueries :
      LET rows == TableZone(q[1], q[2])
      IN  /\ ~ZoneStraddles =>
               \A i \in 1 .. Len(rows) - 1 :
                 rows[i].group = rows[i + 1].group
                   <=> /\ rows[i].line.sched = rows[i + 1].line.sched
                       /\ rows[i + 1].line.start <= rows[i].line.start + rows[i].line.duration + 1
          /\ EndMonth(q[1], EndOf(q[1], q[2])) = MonthOf(q[1]) =>
               \A i \in DOMAIN rows :
                 rows[i].comma <=> i > 1 /\ rows[i].group = rows[i - 1].group

=============================================================================
