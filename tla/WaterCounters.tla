--------------------------- MODULE WaterCounters ---------------------------
(***************************************************************************)
(* The water counters in EEPROM (settings.cpp): one per day of the week,   *)
(* in hundredths of a gallon, and a lifetime total in gallons.  A day's    *)
(* counter is added to the total and starts anew when that day of the week *)
(* has come round and the counter is looked at.                            *)
(*                                                                         *)
(* EEPROM is written byte by byte: each byte is one step, and the power    *)
(* may fail between two of them.  The bytes of a date are those of the     *)
(* number of the day here, of its seconds in the code.                     *)
(*                                                                         *)
(* A definition whose comment starts with "Fault:" is a faulty variant of  *)
(* the definition after it, which nothing uses.                            *)
(***************************************************************************)
EXTENDS Integers, FiniteSets, SequencesExt

CONSTANTS
  WEEK,          \* days in a week, 7 in the code
  Dates,         \* the days the clock may show
  GALLON,        \* units of a counter in a gallon, 100 in the code
  CELL,          \* 2^8, the range of a byte of EEPROM
  Uses,          \* how much one run of a zone may use
  MaxUsed,       \* water used in a behaviour
  MaxFolds,      \* how often a counter is added to the total
  MaxCuts        \* power failures while a counter is moved

(* A day's counter has two bytes, the total and a date have four.          *)
COUNTER == CELL * CELL
TOTAL   == COUNTER * COUNTER

ASSUME WaterAssumption ==
  /\ WEEK \in Nat \ {0} /\ GALLON \in Nat \ {0} /\ CELL \in Nat \ {0}
  /\ Dates \subseteq 0 .. TOTAL - 1 /\ 0 \in Dates /\ Uses \subseteq Nat
  /\ MaxUsed \in Nat /\ MaxFolds \in Nat /\ MaxCuts \in Nat

VARIABLES
  date,           \* the day of the clock
  wwCounter,      \* EEPROM: per weekday, the water used
  wCounterDate,   \* EEPROM: per weekday, the day its counter is for
  totalWCounter,  \* EEPROM: the lifetime total
  todo,           \* the writes a call in progress has left
  dow, amount,    \* what the call adds to which counter
  bytesDone,      \* bytes written of the value being written
  newValue,       \* that value
  oldValue,       \* history: what it replaces
  usedOn,         \* history: the water used, per day
  lost,           \* history: water of calls cut before it was written
  folds,          \* history: counters added to the total
  doubled,        \* history: what cut calls have left in both
  astray,         \* history: water recorded across a midnight
  cuts,           \* history: power failures
  overflowed,     \* history: a counter or the total has wrapped
  torn            \* history: a counter or the total was left half written

waterEeprom  == <<wwCounter, wCounterDate, totalWCounter>>
waterHistory == <<usedOn, lost, folds, doubled, astray, cuts, overflowed, torn>>
writing      == <<bytesDone, newValue, oldValue>>
waterVars    == <<date, waterEeprom, todo, dow, amount, writing, waterHistory>>

Weekdays == 0 .. WEEK - 1
weekday(d) == d % WEEK
Used == SumFunction(usedOn)
UsedOn(d) == IF d \in Dates THEN usedOn[d] ELSE 0

WaterInit ==
  /\ date \in Dates
  /\ wwCounter = [w \in Weekdays |-> 0]
  /\ wCounterDate = [w \in Weekdays |-> 0]
  /\ totalWCounter = 0
  /\ todo = <<>> /\ dow = 0 /\ amount = 0
  /\ bytesDone = 0 /\ newValue = 0 /\ oldValue = 0
  /\ usedOn = [d \in Dates |-> 0]
  /\ lost = 0 /\ folds = 0 /\ doubled = 0 /\ astray = 0
  /\ cuts = 0 /\ overflowed = FALSE /\ torn = FALSE

-----------------------------------------------------------------------------
(* Midnight, and the setting of the clock.                                 *)
SetDate(d) ==
  /\ todo = <<>> /\ date' = d
  /\ UNCHANGED <<waterEeprom, todo, dow, amount, writing, waterHistory>>

(* Fault: the counter is cleared before it is added to the total.          *)
MovesTotalLast(d) ==
  IF wCounterDate[weekday(d)] # d THEN <<"date", "zero", "total">> ELSE <<>>

(* Fault: the counter is kept after it has been added to the total.        *)
MovesKeepCounter(d) ==
  IF wCounterDate[weekday(d)] # d THEN <<"total", "date">> ELSE <<>>

(* checkWWCounter looks at today's counter, whichever was asked for.       *)
MovesOf(d) ==
  IF wCounterDate[weekday(d)] # d THEN <<"total", "date", "zero">> ELSE <<>>

(* LogZoneEvent; it reads the clock twice, and may do so around midnight.  *)
CountZoneWater(use) ==
  /\ todo = <<>>
  /\ Used + use <= MaxUsed
  /\ dow' = weekday(date) /\ amount' = use
  /\ usedOn' = [usedOn EXCEPT ![date] = @ + use]
  /\ date' \in {date, date + 1} \cap Dates
  /\ astray' = astray + (IF date' = date THEN 0 ELSE use)
  /\ todo' = MovesOf(date') \o <<"add">>
  /\ UNCHANGED <<waterEeprom, writing, lost, folds, doubled, cuts, overflowed, torn>>

(* JSONWWCounters reads all counters.                                      *)
JSONWWCounters ==
  /\ todo = <<>>
  /\ todo' = MovesOf(date)
  /\ UNCHANGED <<date, waterEeprom, dow, amount, writing, waterHistory>>

(* What the first k bytes of a value reach up to, and a cell that has them *)
(* from the value v, the rest still its own.                               *)
Power == <<CELL, COUNTER, COUNTER * CELL, TOTAL>>
Mixed(cell, v, k) == (cell \div Power[k]) * Power[k] + (v % Power[k])

(* setEEPROM2bytes and setEEPROM4bytes: the next byte of the value v, lowest *)
(* first, for a cell of size bytes, whose value then is Byte(cell, v).      *)
Byte(cell, v) == Mixed(cell, IF bytesDone = 0 THEN v ELSE newValue, bytesDone + 1)

NextByte(cell, v, size) ==
  IF bytesDone + 1 = size
  THEN /\ bytesDone' = 0 /\ newValue' = 0 /\ oldValue' = 0
       /\ todo' = Tail(todo)
  ELSE /\ bytesDone' = bytesDone + 1 /\ todo' = todo
       /\ newValue' = IF bytesDone = 0 THEN v ELSE newValue
       /\ oldValue' = IF bytesDone = 0 THEN cell ELSE oldValue

SetTotalWCounter ==
  /\ Head(todo) = "total" /\ folds < MaxFolds
  /\ LET sum == totalWCounter + wwCounter[weekday(date)] \div GALLON
     IN  /\ totalWCounter' = Byte(totalWCounter, sum % TOTAL)
         /\ NextByte(totalWCounter, sum % TOTAL, 4)
         /\ overflowed' = (overflowed \/ (bytesDone = 0 /\ sum >= TOTAL))
  /\ folds' = IF bytesDone' = 0 THEN folds + 1 ELSE folds
  /\ UNCHANGED <<wwCounter, wCounterDate>>

SetWCounterDate ==
  /\ Head(todo) = "date"
  /\ LET cell == wCounterDate[weekday(date)]
     IN  /\ wCounterDate' = [wCounterDate EXCEPT ![weekday(date)] = Byte(cell, date)]
         /\ NextByte(cell, date, 4)
  /\ UNCHANGED <<wwCounter, totalWCounter, folds, overflowed>>

ClearWWCounter ==
  /\ Head(todo) = "zero"
  /\ LET cell == wwCounter[weekday(date)]
     IN  /\ wwCounter' = [wwCounter EXCEPT ![weekday(date)] = Byte(cell, 0)]
         /\ NextByte(cell, 0, 2)
  /\ UNCHANGED <<wCounterDate, totalWCounter, folds, overflowed>>

AddToWWCounter ==
  /\ Head(todo) = "add"
  /\ LET cell == wwCounter[dow]
         sum  == cell + amount
     IN  /\ wwCounter' = [wwCounter EXCEPT ![dow] = Byte(cell, sum % COUNTER)]
         /\ NextByte(cell, sum % COUNTER, 2)
         /\ overflowed' = (overflowed \/ (bytesDone = 0 /\ sum >= COUNTER))
  /\ UNCHANGED <<wCounterDate, totalWCounter, folds>>

EepromWrite ==
  /\ todo # <<>>
  /\ SetTotalWCounter \/ SetWCounterDate \/ ClearWWCounter \/ AddToWWCounter
  /\ UNCHANGED <<date, dow, amount, usedOn, lost, doubled, astray, cuts, torn>>

(* The power fails, or the watchdog bites, between two bytes.  A value may *)
(* have all its new bytes, where its last ones do not differ; a counter or *)
(* a total that is neither the old one nor the new one is torn.            *)
Content == CASE Head(todo) = "total" -> totalWCounter
             [] Head(todo) = "date"  -> wCounterDate[weekday(date)]
             [] Head(todo) = "zero"  -> wwCounter[weekday(date)]
             [] Head(todo) = "add"   -> wwCounter[dow]
Written == bytesDone > 0 /\ Content = newValue

PowerFails ==
  /\ todo # <<>> /\ todo' = <<>>
  /\ bytesDone' = 0 /\ newValue' = 0 /\ oldValue' = 0
  /\ cuts < MaxCuts /\ cuts' = cuts + 1
  /\ lost' = IF Last(todo) # "add" \/ (Head(todo) = "add" /\ Written)
             THEN lost ELSE lost + amount
  /\ doubled' = IF Head(todo) \in {"date", "zero"} \/ (Head(todo) = "total" /\ Written)
                THEN doubled + wwCounter[weekday(date)] ELSE doubled
  /\ torn' = \/ torn
             \/ /\ Head(todo) \in {"total", "add"} /\ bytesDone > 0
                /\ Content \notin {oldValue, newValue}
  /\ UNCHANGED <<date, waterEeprom, dow, amount, usedOn, folds, astray, overflowed>>

WaterNext ==
  \/ \E d \in Dates : SetDate(d)
  \/ \E use \in Uses : CountZoneWater(use)
  \/ JSONWWCounters \/ EepromWrite \/ PowerFails

WaterSpec == WaterInit /\ [][WaterNext]_waterVars

-----------------------------------------------------------------------------
(* Counters are words, the total and the dates double words, and a call    *)
(* has at most four values to write.                                       *)
WaterTypeOK ==
  /\ date \in Dates
  /\ wwCounter \in [Weekdays -> 0 .. COUNTER - 1]
  /\ wCounterDate \in [Weekdays -> 0 .. TOTAL - 1]
  /\ totalWCounter \in 0 .. TOTAL - 1
  /\ todo \in Seq({"total", "date", "zero", "add"}) /\ Len(todo) <= 4
  /\ dow \in Weekdays /\ amount \in Uses \cup {0}
  /\ bytesDone \in 0 .. 3 /\ newValue \in 0 .. TOTAL - 1 /\ oldValue \in 0 .. TOTAL - 1
  /\ usedOn \in [Dates -> Nat] /\ lost \in Nat /\ folds \in 0 .. MaxFolds
  /\ doubled \in Nat /\ astray \in Nat /\ cuts \in 0 .. MaxCuts
  /\ overflowed \in BOOLEAN /\ torn \in BOOLEAN

(* Between calls the counters and the total together hold the water used,  *)
(* whatever the clock does: each move to the total drops less than a       *)
(* gallon, and a power failure loses the run being recorded or counts a    *)
(* counter twice, but never loses a counter.  It does not hold once a      *)
(* counter or the total has wrapped, or a power failure between two bytes  *)
(* that both differ has torn one.                                          *)
WaterConserved ==
  todo = <<>> /\ ~overflowed /\ ~torn =>
    LET held == totalWCounter * GALLON + SumFunction(wwCounter)
    IN  /\ held >= Used - lost - folds * (GALLON - 1)
        /\ held <= Used - lost + doubled

(* A counter holds no other day's water than that of the date it bears,    *)
(* unless a power failure has kept it from being cleared, or its water was *)
(* recorded across a midnight, when one day's counter is checked and       *)
(* another day's added to.  A date that a power failure has torn may be    *)
(* one on which the clock never was.                                       *)
CounterIsOfItsDate ==
  todo = <<>> /\ doubled = 0 =>
    \A w \in Weekdays : wwCounter[w] <= UsedOn(wCounterDate[w]) + astray

=============================================================================
