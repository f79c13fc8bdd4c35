----------------------------- MODULE SensorLog -----------------------------
(***************************************************************************)
(* The log of a sensor, a file per month on the SD card, and the series    *)
(* that a web client asks of it (LogSensorReading and EmitSensorLog,       *)
(* sdlog.cpp).  Times are those of LogCalendar.                            *)
(*                                                                         *)
(* A definition whose comment starts with "Fault:" is a faulty variant of  *)
(* the definition after it, which nothing uses.                            *)
(***************************************************************************)
EXTENDS LogCalendar, FiniteSets

CONSTANTS
  Readings,       \* a reading is logged as a number of any length
  INTS,           \* how many values an int has
  MaxRecords

ASSUME ReadingsAssumption ==
  Readings \subseteq Int /\ INTS \in Nat \ {0} /\ MaxRecords \in Nat

Records == [at : Times, reading : Readings]

VARIABLE records      \* all lines of all files: [at, reading]

LogInit == records = <<>>

(* The reading of now is appended to the file of the month, whatever the   *)
(* clock shows: it may have been set back.                                 *)
LogSensorReading(t, v) ==
  /\ Len(records) < MaxRecords
  /\ records' = Append(records, [at |-> t, reading |-> v])

LogNext == \E t \in Times, v \in Readings : LogSensorReading(t, v)

LogSpec == LogInit /\ [][LogNext]_records

-----------------------------------------------------------------------------
FileOf(year, month) ==
  Chosen(records, {r \in Records : YearOf(r.at) = year /\ MonthOf(r.at) = month})

(* The record that ends the loop over a file, and those that it takes up.  *)
AfterEnd(r, end) ==
  \/ MonthOf(r.at) > MonthOf(end)
  \/ MonthOf(r.at) = MonthOf(end) /\ DayOf(r.at) > DayOf(end)

FromStart(r, start) ==
  \/ MonthOf(r.at) > MonthOf(start)
  \/ MonthOf(r.at) = MonthOf(start) /\ DayOf(r.at) >= DayOf(start)

(* A reading is read back into an int.                                     *)
ReadBack(v) == ((v + (INTS \div 2)) % INTS) - (INTS \div 2)

(* The quotient of C, which is cut off towards zero.                       *)
Average(sum, n) == IF sum >= 0 THEN sum \div n ELSE -((-sum) \div n)

(* The start of the hour, day or month that a record is summed up in.      *)
StampOf(t, summary) ==
  CASE summary = "hour"  -> t
    [] summary = "day"   -> Midnight(t)
    [] summary = "month" -> t - (t % (HOURS * DAYS))

(* Fault: the record that starts a new sum is counted, but not added.      *)
SumUpForgetsFirst(acc, r, summary) ==
  LET stamp == StampOf(r.at, summary)
  IN  IF acc.n = 0
      THEN [acc EXCEPT !.stamp = stamp, !.sum = ReadBack(r.reading), !.n = 1]
      ELSE IF acc.stamp = stamp
      THEN [acc EXCEPT !.sum = @ + ReadBack(r.reading), !.n = @ + 1]
      ELSE [stamp |-> stamp, sum |-> 0, n |-> 1,
            out |-> Append(acc.out, <<acc.stamp, Average(acc.sum, acc.n)>>)]

(* A record is added to the open sum, or closes it and starts the next.    *)
SumUp(acc, r, summary) ==
  LET stamp == StampOf(r.at, summary)
  IN  IF acc.n = 0
      THEN [acc EXCEPT !.stamp = stamp, !.sum = ReadBack(r.reading), !.n = 1]
      ELSE IF acc.stamp = stamp
      THEN [acc EXCEPT !.sum = @ + ReadBack(r.reading), !.n = @ + 1]
      ELSE [stamp |-> stamp, sum |-> ReadBack(r.reading), n |-> 1,
            out |-> Append(acc.out, <<acc.stamp, Average(acc.sum, acc.n)>>)]

(* What is output for a file; its open sum is dropped with its end.        *)
EmitFile(file, start, end, summary) ==
  LET read  == UpTo(file, {r \in Records : AfterEnd(r, end)})
      taken == Chosen(read, {r \in Records : FromStart(r, start)})
  IN  IF summary = "none"
      THEN [i \in DOMAIN taken |-> <<taken[i].at, ReadBack(taken[i].reading)>>]
      ELSE FoldLeft(LAMBDA acc, r : SumUp(acc, r, summary),
                    [stamp |-> 0, sum |-> 0, n |-> 0, out |-> <<>>], taken).out

(* EmitSensorLog: each month from that of the start to that of the end, in *)
(* each of the years.                                                      *)
EmitSensorLog(start, asked, summary) ==
  LET end    == EndOf(start, asked)
      months == MonthOf(start) .. MonthOf(end)
      files  == [i \in 1 .. (YearOf(end) - YearOf(start) + 1) * Cardinality(months) |->
                  FileOf(YearOf(start) + ((i - 1) \div Cardinality(months)),
                         MonthOf(start) + ((i - 1) % Cardinality(months)))]
  IN  FlattenSeq([i \in DOMAIN files |-> EmitFile(files[i], start, end, summary)])

-----------------------------------------------------------------------------
(* The queries within a calendar year, midnight to midnight.               *)
Midnights == {t \in Times : HourOf(t) = 0}

Queries == {q \in Midnights \X Midnights : q[1] <= q[2] /\ YearOf(q[2]) = YearOf(q[1])}

Within(q) == Chosen(records, {r \in Records : q[1] <= r.at /\ r.at < q[2] + HOURS})

(* The clock was never set back from one hour, or day, to an earlier one   *)
(* between two readings.                                                   *)
InOrder(unit) ==
  \A i, j \in DOMAIN records :
    i < j => StampOf(records[i].at, unit) <= StampOf(records[j].at, unit)

(* Without a summary a query of a log that holds anything returns every    *)
(* reading from the first day asked for to the last one, once and in       *)
(* order, as an int holds it, as long as the clock was never set back to   *)
(* an earlier day.                                                         *)
RawIsComplete ==
  records # <<>> /\ InOrder("day") =>
    \A q \in Queries :
      EmitSensorLog(q[1], q[2], "none") =
        LET w == Within(q) IN [i \in DOMAIN w |-> <<w[i].at, ReadBack(w[i].reading)>>]

(* The average of the readings of one hour, day or month.                  *)
Total(lines) == FoldLeft(LAMBDA n, r : n + ReadBack(r.reading), 0, lines)

AverageOf(stamp, w, summary) ==
  LET group == Chosen(w, {r \in Records : StampOf(r.at, summary) = stamp})
  IN  Average(Total(group), Len(group))

(* A summary returns the average of all readings of each hour, day or      *)
(* month, once and in order, except for the last one of each file: a month *)
(* that has no reading after it in its file, so any month, is never        *)
(* returned.  The clock must not have been set back to an earlier day, nor *)
(* to an earlier hour for a summary of hours.                              *)
SummaryLacksTheLast ==
  records # <<>> =>
    \A q \in Queries, summary \in {"hour", "day", "month"} :
      InOrder("day") /\ InOrder(summary) =>
        LET w      == Within(q)
            stamps == {StampOf(w[i].at, summary) : i \in DOMAIN w}
            closed == {s \in stamps : \E t \in stamps :
                         s < t /\ StampOf(s, "month") = StampOf(t, "month")}
            out    == EmitSensorLog(q[1], q[2], summary)
        IN  /\ {out[i][1] : i \in DOMAIN out} = closed
            /\ \A i, j \in DOMAIN out : i < j => out[i][1] < out[j][1]
            /\ \A i \in DOMAIN out : out[i][2] = AverageOf(out[i][1], w, summary)

(* A web client gets the series of readings, and their averages, that it   *)
(* may count on.                                                           *)
SeriesAreComplete == RawIsComplete /\ SummaryLacksTheLast

=============================================================================
