# SmartGarden in TLA+

SmartGarden is an irrigation controller: Arduino stations that open and close
water valves on schedules, by hand, from a web page, or on the command of a
master station over a radio link. These modules model the program under
`src/Station/` (about 13 000 lines of C++), check it on small instances with
TLC, and prove some of its properties for every instance with TLAPS.

## The system

Every station runs one thread, `loop()` in `Station.ino`: `mainLoop()` of
`core.cpp` (time service, sensors, zone handler and serial board in their
100 ms slots; web server, scheduler and TFTP on every pass), then the local
user interface, then the radio protocol, then the watchdog. A handler runs to
completion, so a station's concurrency is that of handlers in any order, with
an unknown time between two passes. Interrupts (water counter, watchdog, radio)
and other stations are truly concurrent. RAM is lost on a reset; the EEPROM and
the SD card are not; all valves are closed at start-up.

| Component | State | Operations | Hard about it | What makes it correct | Module |
|---|---|---|---|---|---|
| Run state and scheduler (`core.cpp`) | running schedule, zone, next zone, start time, run time, quick schedule, end of pause; zone state cache | start and stop of schedules and zones, pause, the periodic pass, zone reports | ten kinds of handlers change the same fields; time wraps; the clock jumps; resets | one valve at a time, none forgotten, runs end on time, nothing starts during a pause, every zone gets its turn | `RunState` |
| Master and remotes (`core.cpp`, `RProtocolMS.cpp`) | two run states, requests and reports under way | set zones, reports, registration | packets lost or late, either station restarts, the remote is also used by hand | the remote waters what the master times; the cache shows the remote; every run ends | `MasterRemote` |
| MoteinoRF link (`MoteinoRF.cpp`, `RFM69.cpp`) | sequence numbers per peer, one frame buffer | send with retries, receive, acknowledge | lost and stale acknowledgements, resets, both ends sending | packets are handled in order, each at most once; a send ends | `MoteinoLink`, `PacketDelivery` |
| XBee link (`XBeeRF.cpp`) | address table | send, receive, learn addresses | requests to unknown addresses are broadcast and answered by everybody | remotes know the master; what has been learnt stays | `XBeeNetwork` |
| Output boards (`LocalBoard.cpp`) | shift register, latch, recorded outputs | channel on and off, all off, refresh | a reset in the middle of a transfer | no valve opens that nobody opened | `SerialBoard`, `ChannelSet` |
| Sensors (`sensors.cpp`) | lists of sensors and last readings, poll timers | poll, report, log | lists in different orders, lost packets, widths and signs | a reading ends at its own sensor, in time | `SensorReadings` |
| Water meter (`sensors.cpp`) | counters shared with an interrupt | interrupt, poll | interrupt between any two steps; wrapping, scaling | no pulse lost or counted twice | `CounterMeter` |
| Water counters (`settings.cpp`, `sdlog.cpp`) | EEPROM: a counter and a date per weekday, a total | count a run, fold a day into the total | power cut between two writes; midnight; clock steps | water is conserved | `WaterCounters` |
| Loading the configuration (`settings.cpp`, `Station.ino`) | EEPROM: signature, stations, sensors, zones | load from `device.ini` or from defaults | power cut between two records; sections skipped, repeated, too many | a station that starts has one configuration, of one piece | `Provisioning` |
| Local UI (`localUI.cpp`, `keys.cpp`) | key state, screen, cursor | four buttons, four screens | keys held and repeated across screens; byte arithmetic | a run is only started as it was meant | `Panel`, `RunState` |
| Main program and watchdog (`Station.ino`, `SgWdt.cpp`) | slot counter, tick counter | pass, interrupt, reboot | passes that are slow or hang | a hanging station restarts, a slow one does not, no slot starves | `MainLoop` |
| Time service (`nntp.cpp`, `RProtocolMS.cpp`) | clock, last synchronisation, next broadcast | ask the server, broadcast, change the time zone | failed exchanges, clock set back | clocks are right, or known not to be | `TimeService` |
| Logs (`sdlog.cpp`) | files per month and year | log a zone, a schedule, a reading; answer queries | runs over the end of a file; grouping; summaries | a query returns what was logged | `LogCalendar`, `WateringLog`, `SensorLog` |
| TFTP server (`tftp.cpp`) | client, block number, open file | read and write requests, data, acknowledgements, errors, timeout | lost and repeated datagrams | a file arrives as it was sent | `TftpServer` |
| Web server (`web.cpp`), weather (`Weather.cpp`) | none | commands, pages; a scale of run times | commands at any time | see scheduler | actions of `RunState`, `WaterCounters`, `Provisioning` |
| Thermistor, system information, port layer | none of interest | | | | |

`PROJECT.json` lists the components with what is modelled of each, the lines
every definition stands for (`map`), and the places in the code where it can go
wrong, each with the properties that would notice (`hazards`).

Definitions marked "Fault:" are faulty variants no definition uses. Substituted
for the definition after them they show that the property listed with them in
`PROJECT.json` (`mutants`) notices the fault.

## Modules and the code

### RunState

`runStateClass` calls its own methods freely, so they are operators from a run
state `r` (and EEPROM contents `e`) to a run state, named as in the code, and a
handler is an action that composes them in the code's order, from the entry in
`mainLoop`, `web.cpp`, `localUI.cpp` or `RProtocolMS.cpp` down to its last call.

* `rs.sched`, `zone`, `next`, `mins` are `m_iSchedule`, `m_iZone`,
  `m_iNextZone`, `m_zoneMins`; `quick` is `quickSchedule`; `cache` is
  `zoneStateCache`; `out` is what the boards put on the valves; `sent` the
  requests the latest handler gave to the radio.
* `m_startZoneMillis` and `m_endPauseMillis` are only ever compared with
  `millis()`; the model keeps the differences, `age` and `left`, and lets
  `left` wrap at `MILLIS` as the unsigned subtraction does. The `int` the time
  left is cast to has `INT` values, the upper half of them negative.
* `ee` is the part of the EEPROM the scheduler reads. Days and start times are
  sets; an interval schedule is a set of days of the cycle.
* `clock` is the wall clock, which `SetTime` may set to anything; `lag` and
  `late` are the ticks since the scheduler and the zone handler last ran, at
  most `MaxLag` and `MaxLate`: the main loop is late, but not arbitrarily.
* `GetNextEvent` adds the rest of the pause to the minute of the day in a `short`
  (`Short`): a pause of some 22 days or more makes the sum negative, and the
  day's schedules start in the middle of it, although `core.h:128` says "we are
  in pause mode". `PauseHolds` is about the pauses that fit (`PauseFits`).
* The seasonal and the weather scale are one factor, chosen anew from `Scales`
  each time the code asks for it.
* A start with the number of a schedule outside of the table is not modelled:
  `LoadSchedule` leaves its result uninitialised there.

### MasterRemote

Two instances of `RunState`, a master without local zones and a remote without
stored schedules, joined by the packets of `RProtocolMS.cpp`: the `sent` of the
master's handlers become `ZONES_SET` packets, `MessageZonesSet` at the remote
starts or stops a zone with the run time and one minute (the backstop of
`core.cpp`) and answers with a `ZONES_REPORT`, whose arrival is
`ReportZoneStatus` at the master. The link is what `PacketDelivery` promises:
in order, at most once, anything may be lost: the zones of a handler's requests
become one packet each in the order of the calls (`Requested`, `InOrder`), and
what arrives is any part of them in that order (`Transmit`). Losses, resets of either station
and commands given at the remote itself are the `events`, of which a behaviour
has at most `MaxEvents`. The end of a run that the remote started by itself is
not reported to the master, which shows it as running until the next command:
`disturbed` covers the use of the remote by hand for that reason.

### MoteinoLink and PacketDelivery

A station is either in its main loop or inside `sendWithRetry`, which blocks it
(`tx`). What the radio has received and nobody has read yet is one frame
(`rx`), as in `RFM69`; a later frame replaces it or is lost. `Send` is
`MoteinoRFSendPacket`, `Transmit` one turn of the retry loop, `PollForAck` its
inner loop, `GiveUp` the return after the last turn, `Loop` one call of
`MoteinoRFClass::loop`, `Reset` a reset. The radio (`RFM69.cpp` is a library
with the author's changes) loses any frame it likes. `handled` is a history
variable: the packets given to `ProcessNewFrame`, in order. An acknowledgement
names no packet, so it may come late and be taken for that of the next packet; a
station that is itself sending takes the other's packets off its radio and drops
them. An answer that `ProcessNewFrame` sends from within `loop` is a `Send` that
follows the `Loop` action.

`PacketDelivery` is what `RProtocol` can rely on: per pair of stations, packets
are handled in the order in which they were sent, each at most once. The
refinement mapping is the identity on `sent` and `handled`. A receiver that
resets forgets the last number and may handle a packet twice; a sender that
resets starts its numbers at 0, and its first packet may be taken for a
duplicate (`OnlyDuplicatesSkipped` allows for both).

### XBeeNetwork

The address of a radio is the station it belongs to, `arpTable` what a station
has learnt, `air` the packets under way, each to one receiver and possibly lost.
`XBeeSendPacket` broadcasts when the address is unknown; `ProcessNewFrame`
learns from every frame and answers every request in the name of the station it
was for, whoever the receiver is. `RemotesKnowMaster` says that this confusion
never concerns the master's address, `StaysSettled` that a network that has
learnt all addresses and has no misleading frame on the air keeps them. That a
remote does get into the table under another's number is the run `arp_misled`.

### SerialBoard and ChannelSet

A command records the channel and shifts every recorded bit into the chain of
registers, one clock at a time, then latches the chain onto the outputs; the
watchdog may restart the station between any two bits. The module implements
`ChannelSet`, whose steps switch one channel or all of them off, under the
mapping of the latched bits to the channels they drive.

### SensorReadings, CounterMeter, WaterCounters

`SensorReadings` follows a reading from the hardware (a value of the channel)
through the list of the remote, the `SENSORS_REPORT` packet and the list of the
master, with the round of polls (`poll_MinTimer`), unasked reports of flow
counters, losses and restarts. A request reaches whom `Hearers` says: over MoteinoRF
the station it is for, over XBee the radio known under that station's number,
whose ever it is, or every XBee remote while none is known. `MessageSensorsRead`
does not look at whom a request was for, and answers in that station's name, so
the master may show another remote's reading, although `XBeeRF.cpp:292` relies on
"the RProtocol stack to filter out right packets"; `ReadingsAreAttributed` and `FlowIsCurrent` hold for a sensor whose station's
requests have reached nobody else (`misled`), or whose station was the last to
report (`source`). A BMP180 that fails reports nothing; a DHT that fails reports
two variables that were never set (`Garbage`), as the code does. The part assumes
that the sensors of every list are at stations that have a number to be polled by
and that their hardware reads values a packet can carry (`ListAssumption`), that
a round of polls has a minute for every station to poll, and that a remote only
polls itself (`PollAssumption`).

`CounterMeter` has the interrupt routine as one
action and the poller as three (test of the flag, read with interrupts disabled,
sum), so that an interrupt may come between any two.

`WaterCounters` makes each byte that `setEEPROM2bytes` and `setEEPROM4bytes`
write one step (`NextByte`; a byte has `CELL` values) and lets the power fail
between any two. History variables keep the water used and what was lost or
doubled by the power failures, and `torn` whether one has left a counter or the
total with some bytes of the old value and some of the new: nothing in the code
notices that, and the water such a number stands for is anything, so
`WaterConserved` ends there. A cut between two bytes of a date is covered: the
date is then another day's, or no day's at all, and the counter is moved to the
total at the next look.

### MainLoop, TimeService

`MainLoop` counts in tenths of a second: a pass takes any time, makes one tick
of the slot counter at most, and resets the watchdog's counter at its end.
`TimeService` has the master's two blocks (`checkTime` with the request to the
server, the broadcast), the remotes that listen, and changes of the time zone;
times that are only subtracted are kept as differences, `millis()` modulo
`MILLIS`. Time passes wherever the loop is: up to `LATE` ticks before it comes to
a block, up to `WAIT` in a request that is not answered. `LateAssumption` says
that an interval, a late loop and a request together are shorter than the time a
clock counts as reliable (60 s, 2 s and 1500 s in the code). The watchdog cuts a
pass after 64 s at the latest and there are at most seven slots between the blocks
(`NoBlockStarves`), so `LATE` is at most 512 s and the assumption holds. The seconds of a
time zone are a product of ints (`OffsetTicks`): on the AVR, zones of ten hours
and more set a clock that is 65536 s wrong, and `ClockIsRight` is about the others.

### WateringLog, SensorLog, LogCalendar, TftpServer

The logs are sequences of lines per file, and a query is an operator over them
that reads the files, filters, groups and sums up as `TableZone`,
`TableSchedule` and `EmitSensorLog` do; the properties compare it, for every
query, with what was logged. `LogCalendar` is a calendar of hours, days, months
and years that all have one length, and the loop over the lines of a file
(`Chosen`), a fold. Readings and durations are numbers (`ReadingsAssumption`,
`RunsAssumption`). A line is logged at whatever time the clock shows, which may
have been set back; the loops over a file stop at the first line that is too
late (`UpTo`), so they miss lines behind one of a later day, and the properties
say for which clocks they do not (`InOrder`, `StartsInOrder`). Three things are as
an int of the AVR has them: the day that is added to the end of a query is `DAY`
hours, less than a day (20864 s, `DayAssumption`), so a query that ends at a
midnight ends with that day, although `sdlog.cpp:795` says "add 1 day"; a reading is logged as a long but
read back into an int of `INTS` values (`ReadBack`), so that counters of more than
15 bits (`log_format2.2.txt:90` has 32) come back as other numbers; and averages
are cut towards zero (`Average`). `TftpServer` has the server's packet handler and timeout and a
client that follows RFC 1350 and repeats what is lost; a block is a pair of the
upload it comes from and its number, and block numbers are read through a signed
`char` as in the code.

### Provisioning

`ResetEEPROM` as one record per step: the signature, the stations (cleared, then
loaded section by section), the sensors, the zones generated from the stations,
the restart; `ResetEEPROM_NoSD` is the same with one default station. The power
may fail between any two steps. Files are sequences of sections that may lack a
key, name a station twice or a number out of range, or be too many. `fits`
remembers whether `SaveZone` took all the zones: it refuses numbers not below
the recorded number of zones, which is set after the zones have been saved, so a
load that generates more zones than the last one counts zones it never wrote,
although `settings.cpp:819` says that it "will fully populate EEPROM".
`EepromIsWhole` states what does hold. A load cut off after the signature leaves
a station that takes itself for configured; its sensors are still those of one
file, its stations and zones need not be.

### Panel

`get_button_async` with its three states, debouncing and repetition, in the
times of the code as ages; the screens with what they remember; a press is a
step of the user. What `CONFIRM` on the home screen and `StartZone` do to the
run state is in `RunState`, whose guard of the manual start is what
`RunsAreMeant` shows: a channel of the station shown, or channel 0 of one that
has none. The numbers shown are bytes that `Turn` moves within their range
(`PanelAssumption`: 15 stations and 99 minutes fit a byte).
The search for the next station never ends if none of the first 15 is
valid (`hung`, ended by the watchdog), and station 15 cannot be reached. In the
setup screen one long press of `CONFIRM` is enough to load the defaults, since
its repetition confirms the number it has just begun to edit.

## Checks

| Run | Shows | Bounds |
|---|---|---|
| `run_state_core` | types, no state corruption, valves, cache and timer agree, runs last what they were started with, disabled means idle | 2 local zones and a remote one, 2 schedules, a day of 2 minutes, run times scaled to 0 and 200 %, clock steps, resets |
| `run_state_edits` | one valve at a time while schedules and idle zones are edited; nothing but an explicit start starts a stored schedule during a pause that, with the minute of the day, fits a short | 2 zones, 1 slot, pauses of 0 and 1 minute, `millis()` wrapping after 4 ticks |
| `run_state_live` | valves close, remote zones leave the transitional states, every zone is watered day after day | 2 schedules with disjoint runs, a day of 6 minutes, at most 2 commands |
| `master_remote` | the remote follows the master, its own timer ends every run, the cache shows the remote | 2 zones, 3 events |
| `moteino_link` | the link implements `PacketDelivery`; only duplicates are skipped; every send ends | 3 stations, 2 links, 3 packets each, 2 sequence numbers, 2 retries |
| `services` | the properties of the parts below | see below |
| `pause_wraps` | counterexample: a pause nobody asks about in its last minute comes back | |
| `disabled_zone_stays_on` | counterexample: a zone disabled while it runs stays on | |
| `arp_misled` | counterexample: a remote is known under another's number | |
| `tftp_stuck` | counterexample: after an error the file stays open and every later transfer is refused | |
| `unreliable_time` | counterexample: a clock that was never set is broadcast | |
| `month_end_hides_log` | counterexample: a run over the end of a month hides the next month's runs | |

The counterexamples are disagreements of the code with its own comments; the
`findings` of `PROJECT.json` quote the lines.

`services` checks in one run parts that keep no state in common. A behaviour is
one of a single part, the others stay as they were initially (`MCServices`):

| Part | Properties | Bounds |
|---|---|---|
| `network` | `RemotesKnowMaster`, `StaysSettled` | a master, 2 remotes, 2 packets on the air |
| `board` | `OutputsAreRecorded`, `OneChannelAtATime` | 2 boards of 2 channels |
| `meter` | `NoPulseForgotten`, `MeterCounts` | words of 3 bits, 12 edges, 3 polls, scale 3/2 |
| `sensors` | `ReadingsAreAttributed`, `FlowIsCurrent`, `NoSensorStarves` | 2 XBee remotes, requests to one, the other or both, lists in different orders, failing sensors, 1 packet on its way, 1 loss or restart |
| `water` | `WaterConserved`, `CounterIsOfItsDate` | weeks of 2 days, 4 dates, bytes of 1 bit, 4 units used, 2 moves, 1 power cut between any two bytes |
| `loop` | `HangsEnd`, `SlowPassSpared`, `NoBlockStarves` | seconds of 3 ticks, 2 slots, a watchdog of 3 interrupts |
| `tftp` | `TransfersAreExact` | files of 1 and 4 blocks, 3 transfers, signed bytes of 3 bits |
| `time` | `ClockIsRight`, `RemotesHearInTime` | 8 ticks, loop late by 1, a wait of 1, 2 time zones of which one does not fit an int of 3 bits, 1 missed broadcast |
| `readings` | `SeriesAreComplete` | 2 hours, days, months and years, 3 records at any times, readings within and beyond an int of 3 bits, every query |
| `watering` | `TablesAreComplete`, `RunsAreGrouped` | the same calendar, 2 lines at any times, every query |
| `load` | `EepromIsWhole` | 3 stations of 2 channels, 3 files and 2 defaults, 2 loads |
| `panel` | `RunsAreMeant` | 3 stations, 2 minutes, delays of 1 and 2 ticks |

A minute of `RunState` is two ticks, so that a pass can come before, at and after
its end; two local zones and a remote one are the fewest for which a zone can be
replaced by another of its own and of the other kind; two minutes are the fewest
in which a start can come during and after the run of another schedule. The
link's runs use two sequence numbers, so that they wrap within three packets. The
other bounds are the smallest for which every wrap, limit and refusal of the code
happens. Runs without a check for deadlock have a bound on something that real
behaviours repeat for ever (packets, loads, dates); the run state has none and
is checked for deadlock.

**Fairness.** `Tick`, `ZoneHandlerLoop` and `Pass` are weakly fair: the hardware
timer runs, and `loop()` returns to `mainLoop`, which runs the zone handler in
its slot and the scheduler on every pass; the watchdog resets a station whose
loop does not. Commands are not fair, and `MCRunStateLive` bounds their number:
a user who restarts a zone for ever does keep its valve open. For the link the
retry loop is weakly fair: the timer it waits for runs, whatever the radio does.

## Proofs

The proofs hold for all values of the constants that satisfy the named
assumptions of the modules.

`RunStateProofs` proves that `TypeOK`, `NoStateCorruption`, `CacheShowsValves`,
`DisabledMeansIdle` and `NoOverrun` are invariants, that every step satisfies
`PauseHolds` (of pauses that fit a short), that `OneValve` is an invariant if `EditRunningZones` is false
(`disabled_zone_stays_on` shows that it must be), and that `ValveFollowsTimer`
is one if zones are not edited at all.
The properties of valves are not inductive alone. "Stop all" switches off
what the cache shows, so `OneValve` needs the cache; `TurnOffZone` refuses zones
that are disabled or that belong to other stations, so it also needs that an
open valve can still be switched off; and the end of a zone needs to know that
the open valve is the timed one. `Inv` is the conjunction: `Good` collects what
every method preserves, `Resting` and `Stopped` what holds half-way through a
handler, and `OnTime` that a pass leaves no run over its time, to which the ticks
before the next pass add at most `lag`. `ValveFollowsTimer` needs `Waters`, that
a timed zone that can be switched is on, and that no zone is disabled.

`PauseHolds` is proved from a relation, `Allowed`, between the schedule that is
running before a handler and the run state it leaves. Every method that knows
nothing of pauses keeps the schedule or stops it (`SamePause`); only
`StartNextEvent` starts a stored one, and it starts an event of this minute,
which `Events` holds only if no pause time remains or the sum with the minute of
the day is beyond a short. There is a lemma for every
operator and a step for every action.
`TurnOff` and the searches for the next zone are over sets, which keeps
induction out of the proofs; that a non-empty set of zones has a first one comes
from the well-foundedness of `<` on the naturals.

`MoteinoLinkProofs` proves, whatever the radio loses, that `TypeOK` is an
invariant and, if no receiver resets, that the link implements `PacketDelivery`
(`InOrderAtMostOnce`). The assumption cannot be dropped: a receiver that resets
between two copies of a packet handles it twice. The invariant follows a packet:
one that is being sent is the last one sent (`Sending`), copies of it that wait
in the receiver's radio have its number (`Waiting`), and what has been handled is
earlier, or is the same packet and then its number is the receiver's last one
(`NoneLater`). So a packet that is not skipped is later than all that were handled.

`OnlyDuplicatesSkipped` is proved there too, with receivers that reset. A number
stands for its packet up to whole rounds (`Numbered`): the counter of the sender
(`Counting`), the frames on their way (`Carried`) and the number a receiver
remembers (`Remembered`) all do, and two packets with the same number are a whole
round apart (`RoundApart`).

`HandledAsSent` follows from the refinement: what is handled over a link is at
any time a subsequence of what was sent. `DeliveryIsTransmit`, in
`MasterRemoteProofs`, is the other half: any subsequence of the packets of a
handler is one of the ways in which `MasterRemote` lets the radio treat them
(`Transmit`). So the link does nothing that the composition of master and remote
leaves out, as long as the receiver does not reset.

`MasterRemoteProofs` cites, for each of the two stations, what `RunStateProofs`
proves of a handler, and adds how the stations and the packets between them fit
together. `Sound` holds however many packets are lost, whichever station resets
and whatever is done at the remote by hand: both keep the invariant of the run
state, a request to start that is under way is one somebody has just made, and
the remote's timer has run for at least as long as nobody has asked for the zone
(`TimerCovers`), which is `BackstopEndsRun`. `RemoteFollowsMaster` and
`CacheShowsRemote` need `Agree`: while nothing disturbs the two, the last request
under way is what the master is timing (`Promised`), and with none under way the
remote times the master's zone, with the same age and a minute more (`Follows`);
the last report under way shows the remote's valves, or the master's cache does
(`WillShow`). These two theorems assume `Prompt`: the main loop passes more
than once a minute, or a run of the master would outlive the remote's
backstop, and no run time is 255 minutes, the one that wraps in the byte
`MessageZonesSet` adds the minute to. The bounds of `master_remote` satisfy it.

`StationProofs` has the parts of a station other than its run state, its
sensors and its logs.

* `XBeeNetwork`: `RemotesKnowMaster` and `StaysSettled`, for any number of
  remotes. The first needs that nobody but the master sends requests or the
  time, and nobody answers in its name (`AirHonest`): remotes receive no request
  for station 0.
* `SerialBoard` implements `ChannelSet`, and its outputs are those recorded. The
  invariant relates the bits shifted so far to the recorded channels
  (`ShiftedBits`) and says that what is recorded is one command away from what is
  shown (`OneCommandAway`), also after a restart, when nothing is recorded
  (`DownIsEmpty`).
* `Panel`: `RunsAreMeant`, for any tables of stations and any use of the keys.
  That a run takes three presses at least needs to know what is left of earlier
  ones: a key still held down or not yet read (`Touches`) may be about to act, so
  every state of the manual screen has a number of presses it takes to get there
  (`PressesNeeded`).
* `Provisioning`: `EepromIsWhole`, for any files and any cuts of the power.
  `StationsLoaded` follows the loop over the sections, of which the last one of a
  number decides; `ZonesSoFar` and `Given` follow the loop over stations and
  channels, in which the numbers given out so far are an interval without gap or
  overlap; `SensorsLoad` says that the recorded count is 0 while sensors change
  and that those written so far are the sections kept so far (`KeptBy`), by their
  number among them.
* `MainLoop`: for any period and limit of the watchdog and any division of a
  second, a hanging pass is cut (`HangsEnd`), a slow one is spared
  (`SlowPassSpared`) and no block of periodic work starves (`NoBlockStarves`).
  The watchdog's counter and its phase bound the age of a pass from both sides
  (`NotTooOld`, `NotTooYoung`): the counter is reset anywhere in a period, and the
  part of the period that had gone by is not known. A block has waited for at most
  one of the longest passes per tick since its turn, and for the present slot
  (`Waited`), which is no longer than a pass (`SlotIsShort`).
* `TimeService`: `ClockIsRight` for any intervals and time zones, and
  `RemotesHearInTime` for any number of remotes. The first needs that the main
  loop asks for the time before it broadcasts it (`Synced`), and speaks of zones
  whose seconds fit an int (`OffsetFits`). The second relates a
  remote's last broadcast to the next one due by the master's clock (`Heard`,
  `NextDue`), with what the loop can be late by (`MostLate`); it assumes that clocks are never negative (`ClocksArePositive`, true
  of seconds since 1970), since the first broadcast is due at time zero.
* `TftpServer`: `TransfersAreExact`, for files of any length, any range of a byte
  and any losses and repetitions. The invariant says what every datagram under way
  tells of both ends (`AskedOK`, `AnswerOK`): block numbers never run ahead of what
  the other end has seen, and a datagram of an earlier transfer bears its port.
  Datagrams arrive in the order in which they were sent (`InOrder`), without which
  an old request would start a transfer again. That the card never holds more
  than a file's length needs that every block under way fits one (`Sizes`).

`SensorProofs` has the parts that measure.

* `CounterMeter`: no pulse is forgotten (`NoPulseForgotten`), which is inductive
  together with the types: the flag is cleared with interrupts still to come, but
  before the counter is read. And none is counted twice (`MeterCounts`): up to
  whole words the edges counted and those suppressed as ringing are all that came
  (`EdgesMissed`), and the scaled total times the divisor, with what the divisions
  have dropped, is the pulses taken times the multiplier (`UnitsLost`).
* `SensorReadings`: a reading on its way, or in a list, is one of the hardware of
  the station that sent it (`SensorTypes`), and the entries that no other
  station was the last to report on (`Sure`) hold one of their own sensor, from which
  `ReadingsAreAttributed` follows; a sensor waits as many minutes as have gone by
  since its station's turn (`Rounds`), which gives `NoSensorStarves`.
  `FlowIsCurrent` needs that a remote that lost nothing has told the master its
  counter, or has a report on its way that does (`FlowFollows`). It assumes
  `ListsMatch`: no sensor is listed twice by the master, and every remote one is
  in its remote's list. The lists come from two files, and nothing in the code
  compares them.
* `WaterCounters`: `Balance` says that counters and total hold the water used,
  but for what the current call has still to add (`Pending`) and what it has in
  both places while it moves a day to the total (`Twice`), where a value of which
  some bytes are written counts as the one it replaces; a gallon's fraction is
  lost per move. `Dated` says that every counter holds no more than was used
  on its date, except the one that is being moved. Between two
  bytes a cell holds the new low bytes and the old high ones (`Mixed`), which for a
  counter is no more than the sum that is being written (`MixedBelow`).

`FoldTheorems` is what these proofs need of the folds of the community modules,
which are defined by recursion over the subsets of a set. The library's induction
theorems take operators as parameters, which the provers cannot instantiate, so
the module derives what it needs from the least element of a set of numbers: that
a fold exists and is unique, that it keeps a set closed under its step, and how
a sum changes with one of its terms.

`LogProofs` proves what the logs' queries return, for every calendar, every log
and every query. A fold over a log is determined by its steps (`FoldsAgree`) and
has one more step for one more line (`FoldsAppend`), both from the least number
at which they would fail; from there on the queries are equations between
subsequences (`ChosenAppend`, `ChosenTwice`, `ChosenSplit`). The loop that stops
at the first line that is too late misses none if no line of an earlier day follows
one of a later day (`UpToIsChosen`, with `ByDay` and `StartOrder`), which is the
condition of the theorems on the clock; a query ends with its last day because less
than a day is added to it (`EndOfQuery`). A file holds one month,
and what a query takes of it is what was logged in the days asked for
(`TakenOfMonth`, `RowsInFile`); the months joined are the whole (`RawOfQuery`,
`SummaryOfQuery`, `RowsOfTable`). Within a file, `SumInv` says that the sums
emitted so far are those of the groups that have ended, and that the open one is
the last group's; `RowsInv` says the same of the groups of a table. What the
code loses is in the statements: the last sum of every file, and tables when a run
straddles the end of one.

`ServicesProofs` proves that a behaviour of the parts of `MCServices` is one of
each part's own specification (`PartsAreSpecified`): that the run `services`
takes them one at a time loses nothing of what is proved of them, and each of its
properties is a theorem. `ServicesTypeCorrect` is its type invariant.

Only model-checked: liveness (`EveryValveCloses`, `TransitionsResolve`,
`EveryZoneGetsItsTurn`, `EverySendEnds`), which the prover cannot express. Every
other property of the passing runs is a theorem, some under the conditions given
above.

## Plan

What is left to do: `MoteinoLink` itself under `MasterRemote`, with the resets of
receivers for which `PacketDelivery` does not hold; registers and system events
of the remote protocol.

## Not modelled

* Parsing and formatting (web requests, pages, `device.ini`, packets' layout,
  log lines), the display, the drivers of sensors, Ethernet, SD card and radio
  chips, the weather service's HTTP exchange: input and output without a part in
  the state above. The libraries under `src/libraries` are third-party code,
  apart from the retry loop of `RFM69`, which is modelled.
* Settings that are written and read back without a part in any decision above
  (addresses, ports, pin maps). Two slips in loading them, seen while reading:
  `settings.cpp:929-933` stores -8 if the file has an `NTPOffset` and an
  uninitialised value if it has none, and `settings.cpp:965` stores the number of
  parallel channels before it is truncated. Files that define more than 64 zones
  run past the zone block and are excluded by an assumption of `Provisioning`.
* The system log, the registers of `RProtocol`, the record of recent runs for
  display: no property of the system depends on them.
* Manual runs with schedules disabled: the next pass of the scheduler stops them,
  which `DisabledMeansIdle` states as what the code does.
* The parallel output board: one pin per channel, each written by one call.
