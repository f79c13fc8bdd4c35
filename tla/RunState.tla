------------------------------ MODULE RunState ------------------------------
(***************************************************************************)
(* One SmartGarden station: runStateClass (core.cpp), the zone state cache *)
(* it shares with the UI and the RF protocol, the outputs of the local     *)
(* boards it drives, and the part of the EEPROM it reads.                  *)
(*                                                                         *)
(* A definition whose comment starts with "Fault:" is a faulty variant of  *)
(* the definition after it.  No definition uses it: it is there to be      *)
(* substituted, to see that a property notices the fault.                  *)
(*                                                                         *)
(* The station is a single-threaded super-loop, so each handler runs to    *)
(* completion: every action below is one whole handler.  The methods of    *)
(* runStateClass call each other and change the same fields, so they are   *)
(* operators from a run state r (and the EEPROM contents e they read) to   *)
(* the run state they leave; a handler composes them in the code's order.  *)
(*                                                                         *)
(* Time advances in ticks.  millis() is only ever subtracted from an       *)
(* earlier reading, so the model keeps the differences: age is the time    *)
(* since m_startZoneMillis and left the time until m_endPauseMillis.       *)
(***************************************************************************)
EXTENDS Integers, Sequences, FiniteSets

CONSTANTS
  NumZones,         (* GetNumZones()                                       *)
  Stations,         (* the station IDs of the stations table               *)
  RFStations,       (* those reached through rprotocol; others are boards  *)
  ActiveStations,   (* those with the ENABLED and VALID flags              *)
  MyStations,       (* those MessageZonesSet may address (RCONTROL)        *)
  StartZoneOf,      (* startZone of a station                              *)
  NumZoneChannels,  (* numZoneChannels of a station                        *)
  MAX_SCHEDULES,    (* slots of the schedule table                         *)
  MINUTE,           (* ticks in a minute                                   *)
  DELAY_BETWEEN_ZONES, (* SG_DELAY_BETWEEN_ZONES in ticks                  *)
  ZONE_STATE_TIMEOUT,  (* calls of zoneHandlerLoop, at most 15             *)
  MILLIS,           (* ticks after which millis() wraps                    *)
  INT,              (* number of values of the compiler's int              *)
  BYTE,             (* number of values of uint8_t                         *)
  DayMinutes,       (* minutes in a day                                    *)
  Days              (* number of days a schedule's day set tells apart     *)

CONSTANTS
  ScheduleDefs,     (* the schedules users may store                       *)
  InitialSlots,     (* the possible contents of the table at power-on      *)
  QuickDefs,        (* the partial updates of quickSchedule users may post *)
  RunMinutes,       (* the run times users and masters may ask for         *)
  PauseMinutes,     (* the pauses users may ask for                        *)
  Scales,           (* combined seasonal and weather scales, in percent    *)
  EditZones,        (* users may enable and disable zones                  *)
  EditRunningZones, (* ... also while the zone's output is on              *)
  ClockSteps,       (* NTP, the master or the user may set the clock       *)
  Reboots,          (* the station may reset                               *)
  MaxLag,           (* ticks that may pass without a pass of the main loop *)
  MaxLate           (* ticks that may pass without zoneHandlerLoop         *)

Zones  == 0 .. NumZones - 1
Slots  == 0 .. MAX_SCHEDULES - 1
NoZone == -1
Gap    == -2               \* m_iZone during the delay between zones
NoSchedule == -1
Quick  == 100

OFF      == 0
STARTING == 16
STOPPING == 32
RUNNING  == 240

ZoneStates == {OFF, RUNNING}
              \cup {STARTING + t : t \in 1 .. ZONE_STATE_TIMEOUT}
              \cup {STOPPING + t : t \in 1 .. ZONE_STATE_TIMEOUT}

ASSUME SizesAssumption ==
  /\ NumZones \in Nat \ {0}
  /\ MAX_SCHEDULES \in 1 .. Quick
  /\ MINUTE \in Nat \ {0} /\ DELAY_BETWEEN_ZONES \in Nat
  /\ ZONE_STATE_TIMEOUT \in 1 .. 15
  /\ INT \in Nat \ {0} /\ BYTE \in Nat /\ BYTE > 254 /\ MILLIS \in Nat \ {0}
  /\ DayMinutes \in Nat \ {0} /\ Days \in Nat \ {0}
  /\ MaxLag \in Nat /\ MaxLate \in Nat

(* zone.stationID and zone.channel are generated from these tables, and    *)
(* every zone belongs to the station whose range it is in.                 *)
ASSUME StationsAssumption ==
  /\ RFStations \subseteq Stations /\ ActiveStations \subseteq Stations
  /\ MyStations \subseteq ActiveStations
  /\ StartZoneOf \in [Stations -> Nat]
  /\ NumZoneChannels \in [Stations -> Nat]
  /\ \A z \in 0 .. NumZones - 1 :
       \E s \in Stations :
         z \in StartZoneOf[s] .. StartZoneOf[s] + NumZoneChannels[s] - 1

Durations == [Zones -> 0 .. BYTE - 1]
Schedules == [enabled : BOOLEAN, wadj : BOOLEAN, days : SUBSET (0 .. Days - 1),
              times : SUBSET (0 .. DayMinutes - 1), duration : Durations]

ASSUME InputsAssumption ==
  /\ ScheduleDefs \subseteq Schedules
  /\ InitialSlots \subseteq [nsched : 0 .. MAX_SCHEDULES, slot : [Slots -> Schedules]]
  /\ \A q \in QuickDefs :
       DOMAIN q \subseteq Zones /\ \A z \in DOMAIN q : q[z] \in 0 .. BYTE - 1
  /\ RunMinutes \subseteq 0 .. BYTE - 1
  /\ PauseMinutes \subseteq Nat
  /\ Scales \subseteq Nat
  /\ {EditZones, EditRunningZones, ClockSteps, Reboots} \subseteq BOOLEAN

StationOf(z) ==
  CHOOSE s \in Stations :
    z \in StartZoneOf[s] .. StartZoneOf[s] + NumZoneChannels[s] - 1
IsRF(z)   == StationOf(z) \in RFStations
Active(z) == StationOf(z) \in ActiveStations

VARIABLES
  ee,     (* EEPROM: run (GetRunSchedules), the schedule table, zone flags  *)
  rs,     (* the fields of runState, zoneStateCache, the board outputs and  *)
          (* sent, the RF commands of the latest handler                    *)
  clock,  (* ticks since the start of the first day of the cycle            *)
  late,   (* ticks since zoneHandlerLoop last ran                           *)
  lag     (* ticks since ProcessScheduledEvents last ran                    *)

vars == <<ee, rs, clock, late, lag>>

Requests == [zones : SUBSET Zones, ttr : 0 .. BYTE - 1]   \* a CHANNEL_ON or _OFF

RunStates ==
  [sched : {NoSchedule, Quick} \cup Slots, zone : {NoZone, Gap} \cup Zones,
   next : {NoZone} \cup Zones, age : Nat, mins : 0 .. BYTE - 1, quick : Durations,
   paused : BOOLEAN, left : 0 .. MILLIS - 1,
   cache : [Zones -> ZoneStates], out : [Zones -> BOOLEAN],
   sent : Seq(Requests)]

Eeproms == [run : BOOLEAN, nsched : 0 .. MAX_SCHEDULES, slot : [Slots -> Schedules],
            enabled : [Zones -> BOOLEAN]]

-----------------------------------------------------------------------------
(* Zones.  A parallel or serial output answers at once; a zone of another  *)
(* station is STARTING or STOPPING until that station reports.             *)

Switchable(e, z) == e.enabled[z] /\ Active(z)

TurnOnZone(r, e, z, ttr) ==
  IF ~Switchable(e, z) THEN r
  ELSE IF IsRF(z)
       THEN [r EXCEPT !.cache[z] = STARTING + ZONE_STATE_TIMEOUT,
                      !.sent = Append(@, [zones |-> {z}, ttr |-> ttr])]
       ELSE [r EXCEPT !.cache[z] = RUNNING, !.out[z] = TRUE]

(* Switch off the zones of Z that can be switched, in one batch.           *)
TurnOff(r, e, Z) ==
  LET can == {z \in Z : Switchable(e, z)}
      rf  == {z \in can : IsRF(z)}
  IN  [r EXCEPT
         !.cache = [z \in Zones |->
                      IF z \in rf THEN STOPPING + ZONE_STATE_TIMEOUT
                      ELSE IF z \in can THEN OFF ELSE @[z]],
         !.out   = [z \in Zones |-> @[z] /\ ~(z \in can \ rf)],
         !.sent  = IF rf = {} THEN @ ELSE Append(@, [zones |-> rf, ttr |-> 0])]

TurnOffZone(r, e, z) == TurnOff(r, e, {z})

NotOff(r) == {z \in Zones : r.cache[z] # OFF}

(* Fault: m_iSchedule survives "stop all".                                 *)
TurnOffZonesWorkerKeepsSchedule(r, e) ==
  [TurnOff(r, e, NotOff(r)) EXCEPT !.zone = NoZone]

TurnOffZonesWorker(r, e) ==
  [TurnOff(r, e, NotOff(r)) EXCEPT !.zone = NoZone, !.sched = NoSchedule]

(* Fault: RUNNING is taken for a transitional state.                       *)
StepAnyZoneState(s) ==
  IF s = OFF THEN s ELSE IF s % 16 > 1 THEN s - 1 ELSE OFF

(* Fault: the timer stops at one and the state stays.                      *)
StepZoneStateNoTimeout(s) ==
  IF s \in {OFF, RUNNING} THEN s ELSE IF s % 16 > 1 THEN s - 1 ELSE s

(* zoneHandlerLoop: both transitional states time out to OFF.              *)
StepZoneState(s) ==
  IF s \in {OFF, RUNNING} THEN s ELSE IF s % 16 > 1 THEN s - 1 ELSE OFF

-----------------------------------------------------------------------------
(* Pause: int16 arithmetic on the minutes left, which also ends the pause. *)

RemainingPauseTime(r) ==
  LET m == (r.left \div MINUTE) % INT
  IN  IF r.paused /\ 2 * m < INT THEN m ELSE 0

PollPause(r) == [r EXCEPT !.paused = @ /\ RemainingPauseTime(r) # 0]

-----------------------------------------------------------------------------
(* Schedules.                                                              *)

(* Fault: the running zone is forgotten, not turned off.                   *)
StopScheduleLeavesZone(r, e) ==
  IF r.sched = NoSchedule THEN r
  ELSE [r EXCEPT !.zone = NoZone, !.sched = NoSchedule]

StopSchedule(r, e) ==
  IF r.sched = NoSchedule THEN r
  ELSE [(IF r.zone \in Zones THEN TurnOffZone(r, e, r.zone) ELSE r)
          EXCEPT !.zone = NoZone, !.sched = NoSchedule]

sAdj(val, scale) ==
  LET adjusted == (val * scale + 50) \div 100
  IN  IF adjusted < 254 THEN adjusted ELSE 254

ZoneMinutes(s, z, scale) ==
  IF s.wadj THEN sAdj(s.duration[z], scale) ELSE s.duration[z]

(* Fault: the search skips the zone right after z.                         *)
ZonesAfterNext(s, z) == {y \in Zones : y > z + 1 /\ s.duration[y] # 0}

(* The first zone after z that has a run time in s.                        *)
ZonesAfter(s, z) == {y \in Zones : y > z /\ s.duration[y] # 0}
FirstOf(Z) == CHOOSE y \in Z : \A x \in Z : y <= x

(* Make z the zone being timed and switch it on.                           *)
RunZone(r, e, z, minutes) ==
  TurnOnZone([r EXCEPT !.zone = z, !.age = 0, !.mins = minutes], e, z, minutes)

QuickSchedule(r) ==
  [enabled |-> TRUE, wadj |-> FALSE, days |-> {}, times |-> {}, duration |-> r.quick]

StartFirstZone(r, e, id, s, scale) ==
  LET Z == ZonesAfter(s, NoZone)
      z == FirstOf(Z)
  IN  IF Z = {} THEN r
      ELSE RunZone([r EXCEPT !.sched = id], e, z, ZoneMinutes(s, z, scale))

StartQuickSchedule(r, e) ==
  LET q == StopSchedule(r, e) IN StartFirstZone(q, e, Quick, QuickSchedule(q), 100)

(* Only schedules of the table are ever asked for.                         *)
StartSchedule(r, e, id, scale) ==
  LET q == StopSchedule(r, e)
  IN  IF id \in Slots /\ e.slot[id].enabled
      THEN StartFirstZone(q, e, id, e.slot[id], scale) ELSE q

MinuteOf(t) == (t \div MINUTE) % DayMinutes
DayOf(t)    == (t \div MINUTE) \div DayMinutes

IsRunToday(s, t) == s.enabled /\ DayOf(t) \in s.days

(* Fault: the pause does not move the earliest start.                      *)
EventsIgnorePause(r, e, t) ==
  {p \in Slots \X (0 .. DayMinutes - 1) :
     LET s == e.slot[p[1]]
     IN  /\ p[1] < e.nsched
         /\ IsRunToday(s, t)
         /\ p[2] \in s.times
         /\ p[2] >= MinuteOf(t)
         /\ \E z \in Zones : s.duration[z] # 0}

(* GetNextEvent: the first start left today after the pause, the lowest    *)
(* slot winning a tie.  The earliest start is kept in a short.             *)
Short(n) == LET m == n % INT IN IF 2 * m < INT THEN m ELSE m - INT

Events(r, e, t) ==
  {p \in Slots \X (0 .. DayMinutes - 1) :
     LET s == e.slot[p[1]]
     IN  /\ p[1] < e.nsched
         /\ IsRunToday(s, t)
         /\ p[2] \in s.times
         /\ p[2] >= Short(MinuteOf(t) + RemainingPauseTime(r))
         /\ \E z \in Zones : s.duration[z] # 0}
GetNextEvent(r, e, t) ==
  CHOOSE p \in Events(r, e, t) :
    \A q \in Events(r, e, t) : p[2] < q[2] \/ (p[2] = q[2] /\ p[1] <= q[1])

StartNextEvent(r, e, t, scale) ==
  LET p == GetNextEvent(r, e, t)
  IN  IF Events(r, e, t) # {} /\ p[2] = MinuteOf(t)
      THEN StartSchedule(PollPause(r), e, p[1], scale)
      ELSE PollPause(r)

CurrentSchedule(r, e) ==
  IF r.sched = Quick THEN QuickSchedule(r) ELSE e.slot[r.sched]

EndDelay(r, e, scale) ==
  LET s == CurrentSchedule(r, e)
  IN  IF r.age < DELAY_BETWEEN_ZONES THEN r
      ELSE IF r.next = NoZone \/ ~s.enabled
           THEN StopSchedule([r EXCEPT !.zone = NoZone], e)
           ELSE RunZone([r EXCEPT !.next = NoZone], e, r.next,
                        ZoneMinutes(s, r.next, scale))

(* Fault: the zone is not turned off when another one follows.             *)
EndZoneLeavesZone(r, e) ==
  LET s == CurrentSchedule(r, e)
      Z == ZonesAfter(s, r.zone)
  IN  IF r.age \div MINUTE < r.mins THEN r
      ELSE IF s.enabled /\ Z # {}
           THEN [r EXCEPT !.next = FirstOf(Z), !.zone = Gap, !.age = 0]
           ELSE StopSchedule(r, e)

(* Fault: one minute too many.                                             *)
EndZoneLate(r, e) ==
  LET q == TurnOffZone(r, e, r.zone)
      s == CurrentSchedule(r, e)
      Z == ZonesAfter(s, r.zone)
  IN  IF r.age \div MINUTE <= r.mins THEN r
      ELSE IF s.enabled /\ Z # {}
           THEN [q EXCEPT !.next = FirstOf(Z), !.zone = Gap, !.age = 0]
           ELSE StopSchedule([q EXCEPT !.zone = NoZone], e)

EndZone(r, e) ==
  LET q == TurnOffZone(r, e, r.zone)
      s == CurrentSchedule(r, e)
      Z == ZonesAfter(s, r.zone)
  IN  IF r.age \div MINUTE < r.mins THEN r
      ELSE IF s.enabled /\ Z # {}
           THEN [q EXCEPT !.next = FirstOf(Z), !.zone = Gap, !.age = 0]
           ELSE StopSchedule([q EXCEPT !.zone = NoZone], e)

(* Fault: the flag that disables schedules only prevents new starts.       *)
ProcessScheduledEventsKeepsRun(r, e, t, scale) ==
  CASE r.sched = NoSchedule ->
         IF e.run THEN StartNextEvent(r, e, t, scale) ELSE r
    [] r.sched # NoSchedule /\ r.zone = Gap -> EndDelay(r, e, scale)
    [] r.sched # NoSchedule /\ r.zone \in Zones -> EndZone(r, e)
    [] OTHER -> StopSchedule(r, e)

ProcessScheduledEvents(r, e, t, scale) ==
  CASE ~e.run -> StopSchedule(r, e)
    [] e.run /\ r.sched = NoSchedule -> StartNextEvent(r, e, t, scale)
    [] e.run /\ r.sched # NoSchedule /\ r.zone = Gap -> EndDelay(r, e, scale)
    [] e.run /\ r.sched # NoSchedule /\ r.zone \in Zones -> EndZone(r, e)
    [] OTHER -> StopSchedule(r, e)

SetPause(r, e, t, minutes, scale) ==
  IF minutes = 0
  THEN IF r.paused
       THEN ProcessScheduledEvents([r EXCEPT !.paused = FALSE], e, t, scale)
       ELSE r
  ELSE ProcessScheduledEvents(
         [(IF e.run THEN StopSchedule(r, e) ELSE r)
            EXCEPT !.paused = TRUE, !.left = (minutes * MINUTE) % MILLIS],
         e, t, scale)

(* A manual run is a quick schedule with one zone.                         *)
StartsZone(st, channel) ==
  /\ st \in ActiveStations
  /\ channel <= NumZoneChannels[st]
  /\ StartZoneOf[st] + channel \in Zones

StartZoneWorker(r, e, t, st, channel, minutes) ==
  LET stopped == StopSchedule(r, e)
      off == IF NotOff(stopped) # {} THEN TurnOffZonesWorker(stopped, e) ELSE stopped
      one == [z \in Zones |-> IF z = StartZoneOf[st] + channel THEN minutes ELSE 0]
  IN  IF StartsZone(st, channel)
      THEN ProcessScheduledEvents(
             StartQuickSchedule([off EXCEPT !.quick = one], e), e, t, 100)
      ELSE r

-----------------------------------------------------------------------------
Init ==
  /\ \E t \in InitialSlots :
       ee \in [run : BOOLEAN, nsched : {t.nsched}, slot : {t.slot},
               enabled : {[z \in Zones |-> TRUE]}]
  /\ rs = [sched |-> NoSchedule, zone |-> NoZone, next |-> 0, age |-> 0, mins |-> 0,
           quick |-> [z \in Zones |-> 0], paused |-> FALSE, left |-> 0,
           cache |-> [z \in Zones |-> OFF], out |-> [z \in Zones |-> FALSE],
           sent |-> <<>>]
  /\ clock = 0 /\ late = 0 /\ lag = 0

Cycle == Days * DayMinutes * MINUTE
Now   == [rs EXCEPT !.sent = <<>>]      \* the run state a handler starts from

(* A handler that ends with ProcessScheduledEvents and one that does not.  *)
Processed(r) == rs' = r /\ lag' = 0 /\ UNCHANGED <<clock, late>>
Handled(r)   == rs' = r /\ UNCHANGED <<clock, late, lag>>

(* One tick of millis() and of the clock.                                  *)
Tick ==
  /\ lag < MaxLag /\ lag' = lag + 1
  /\ late < MaxLate /\ late' = late + 1
  /\ clock' = (clock + 1) % Cycle
  /\ rs' = [Now EXCEPT
              !.age  = IF rs.sched # NoSchedule THEN @ + 1 ELSE @,
              !.left = IF rs.paused THEN (@ - 1) % MILLIS ELSE @]
  /\ UNCHANGED ee

ZoneHandlerLoop ==
  /\ late > 0 /\ late' = 0
  /\ rs' = [Now EXCEPT !.cache = [z \in Zones |-> StepZoneState(@[z])]]
  /\ UNCHANGED <<ee, clock, lag>>

(* mainLoop calls ProcessScheduledEvents on every pass.                    *)
Pass ==
  /\ \E w \in Scales : Processed(ProcessScheduledEvents(Now, ee, clock, w))
  /\ UNCHANGED ee

(* bin/run?system=on|off                                                   *)
WebRunSchedules(on) ==
  LET e == [ee EXCEPT !.run = on]
  IN  /\ ee' = e
      /\ \E w \in Scales : Processed(ProcessScheduledEvents(Now, e, clock, w))

(* bin/run?pause=minutes                                                   *)
WebPause(minutes) ==
  /\ \E w \in Scales :
       Processed(ProcessScheduledEvents(SetPause(Now, ee, clock, minutes, w),
                                        ee, clock, w))
  /\ UNCHANGED ee

(* bin/setQSched with zone times: only the zones listed are updated.       *)
WebQuickSchedule(q) ==
  LET r == StopSchedule(Now, ee)
  IN  /\ Handled(StartQuickSchedule(
                   [r EXCEPT !.quick = [z \in Zones |->
                                         IF z \in DOMAIN q THEN q[z] ELSE @[z]]], ee))
      /\ UNCHANGED ee

(* bin/setQSched?sched=id                                                  *)
WebStartSchedule(id) ==
  /\ \E w \in Scales : Handled(StartSchedule(StopSchedule(Now, ee), ee, id, w))
  /\ UNCHANGED ee

(* What delSched and settings do when schedules are enabled.               *)
Restart(e) ==
  IF e.run
  THEN \E w \in Scales :
         Processed(ProcessScheduledEvents(StopSchedule(Now, e), e, clock, w))
  ELSE Handled(Now)

(* Fault: the slot number is not checked.                                  *)
WebDeleteAnySchedule(id) ==
  LET e == [ee EXCEPT !.nsched = @ - 1,
                      !.slot = [i \in Slots |->
                                 IF i \in id .. ee.nsched - 2 THEN @[i + 1] ELSE @[i]]]
  IN  ee' = e /\ Restart(e)

(* bin/delSched: the slots after id move down, the last one is not erased. *)
WebDeleteSchedule(id) ==
  LET e == [ee EXCEPT !.nsched = @ - 1,
                      !.slot = [i \in Slots |->
                                 IF i \in id .. ee.nsched - 2 THEN @[i + 1] ELSE @[i]]]
  IN  id < ee.nsched /\ ee' = e /\ Restart(e)

(* bin/setSched for slot id, a new slot when id is the first free one.     *)
WebSetSchedule(id, s) ==
  LET e == [ee EXCEPT !.slot[id] = s,
                      !.nsched = IF id = @ THEN @ + 1 ELSE @]
  IN  /\ id <= ee.nsched
      /\ ee' = e
      /\ IF rs.sched = id THEN Restart(e) ELSE Handled(Now)

WebSettings == Restart(ee) /\ UNCHANGED ee

(* bin/setZones and bin/set1Zone                                           *)
WebSetZone(z, on) ==
  /\ EditZones /\ (EditRunningZones \/ ~rs.out[z])
  /\ ee' = [ee EXCEPT !.enabled[z] = on]
  /\ Handled(Now)

(* The home page and json/state poll the pause.                            *)
WebState == Handled(PollPause(Now)) /\ UNCHANGED ee

(* CONFIRM on the home screen.                                             *)
UIHomeConfirm ==
  LET e == [ee EXCEPT !.run = ~@ /\ NotOff(rs) = {}]
      r == IF ~ee.run /\ NotOff(rs) # {} THEN TurnOffZonesWorker(Now, ee) ELSE Now
  IN  /\ ee' = e
      /\ \E w \in Scales : Processed(ProcessScheduledEvents(r, e, clock, w))

(* CONFIRM on the manual screen: StartZone.  A station without channels is *)
(* offered channel 0 all the same (see Panel).                             *)
UIManualStart(st, channel, minutes) ==
  /\ channel < NumZoneChannels[st] \/ channel = 0
  /\ minutes # 0
  /\ IF StartsZone(st, channel)
     THEN Processed(StartZoneWorker(Now, ee, clock, st, channel, minutes))
     ELSE Handled(Now)
  /\ UNCHANGED ee

(* Fault: the backstop is the run time itself.                             *)
MessageZonesSetNoBackstop(st, channel, ttr) ==
  /\ st \in MyStations /\ channel < NumZoneChannels[st]
  /\ IF ttr = 0 THEN Handled(TurnOffZonesWorker(Now, ee))
     ELSE IF StartsZone(st, channel)
     THEN Processed(StartZoneWorker(Now, ee, clock, st, channel, ttr))
     ELSE Handled(Now)
  /\ UNCHANGED ee

(* MessageZonesSet: RemoteStopAllZones or RemoteStartZone, whose backstop  *)
(* is one uint8_t minute longer than the run time the master asked for.    *)
MessageZonesSet(st, channel, ttr) ==
  /\ st \in MyStations /\ channel < NumZoneChannels[st]
  /\ IF ttr = 0 THEN Handled(TurnOffZonesWorker(Now, ee))
     ELSE IF StartsZone(st, channel)
     THEN Processed(StartZoneWorker(Now, ee, clock, st, channel, (ttr + 1) % BYTE))
     ELSE Handled(Now)
  /\ UNCHANGED ee

(* ReportStationZonesStatus: a report overwrites whatever the cache says.  *)
ReportStationZonesStatus(st, on) ==
  /\ IF st \in ActiveStations
     THEN Handled([Now EXCEPT !.cache = [z \in Zones |->
            IF StationOf(z) # st THEN @[z] ELSE IF z \in on THEN RUNNING ELSE OFF]])
     ELSE Handled(Now)
  /\ UNCHANGED ee

(* setTime from NTP, from the master's broadcast or from the UI.           *)
SetTime(t) ==
  /\ ClockSteps
  /\ clock' = t /\ rs' = Now /\ UNCHANGED <<ee, late, lag>>

(* A reset loses the RAM; begin() switches all board outputs off.          *)
Reboot ==
  /\ Reboots
  /\ rs' = [sched |-> NoSchedule, zone |-> NoZone, next |-> 0, age |-> 0, mins |-> 0,
            quick |-> [z \in Zones |-> 0], paused |-> FALSE, left |-> 0,
            cache |-> [z \in Zones |-> OFF], out |-> [z \in Zones |-> FALSE],
            sent |-> <<>>]
  /\ UNCHANGED <<ee, clock, late, lag>>

Command ==
  \/ \E on \in BOOLEAN : WebRunSchedules(on)
  \/ \E m \in PauseMinutes : WebPause(m)
  \/ \E q \in QuickDefs : WebQuickSchedule(q)
  \/ \E id \in Slots : WebStartSchedule(id) \/ WebDeleteSchedule(id)
  \/ \E id \in Slots, s \in ScheduleDefs : WebSetSchedule(id, s)
  \/ WebSettings
  \/ \E z \in Zones, on \in BOOLEAN : WebSetZone(z, on)
  \/ WebState
  \/ UIHomeConfirm
  \/ \E st \in Stations, c \in Zones, m \in RunMinutes :
       UIManualStart(st, c, m) \/ MessageZonesSet(st, c, m)
  \/ \E st \in RFStations, on \in SUBSET Zones : ReportStationZonesStatus(st, on)
  \/ \E t \in 0 .. Cycle - 1 : SetTime(t)
  \/ Reboot

Next == Tick \/ ZoneHandlerLoop \/ Pass \/ Command

Spec == Init /\ [][Next]_vars

-----------------------------------------------------------------------------
(* The station's variables have the types of the fields they stand for.    *)
TypeOK ==
  /\ ee \in Eeproms
  /\ rs \in RunStates
  /\ clock \in 0 .. Cycle - 1
  /\ late \in 0 .. MaxLate
  /\ lag \in 0 .. MaxLag

(* The branches ProcessScheduledEvents and StartSchedule guard as "state   *)
(* corruption" are unreachable: m_iZone is meaningful exactly while a      *)
(* schedule runs, and a delay always knows the zone that follows it.       *)
NoStateCorruption ==
  /\ rs.sched = NoSchedule <=> rs.zone = NoZone
  /\ rs.zone = Gap => rs.next \in Zones

(* Water flows through a local valve only while runState is timing that    *)
(* very zone, so at most one local valve is open and none is forgotten by  *)
(* whatever stops or replaces a run.                                       *)
OneValve == \A z \in Zones : rs.out[z] => rs.sched # NoSchedule /\ rs.zone = z

(* The cache the UI shows, and "stop all" trusts, is right about the local *)
(* valves.                                                                 *)
CacheShowsValves ==
  \A z \in Zones : ~IsRF(z) => rs.cache[z] = IF rs.out[z] THEN RUNNING ELSE OFF

(* A zone is timed for its run time, and a delay for its length, give or   *)
(* take the ticks the main loop is late.                                   *)
NoOverrun ==
  /\ rs.zone \in Zones => rs.age <= rs.mins * MINUTE + lag
  /\ rs.zone = Gap => rs.age <= DELAY_BETWEEN_ZONES + lag

(* With schedules disabled whatever is started, by hand, by the web page   *)
(* or by the master, is stopped again by the next pass of the main loop.   *)
DisabledMeansIdle == ~ee.run /\ rs.sched # NoSchedule => rs.age <= lag

(* As long as the set of enabled zones is not edited, the timed zone's     *)
(* valve really is open: time on the schedule is time watering.            *)
ValveFollowsTimer ==
  \A z \in Zones : ~IsRF(z) /\ Active(z) => rs.out[z] = (rs.zone = z)

(* The minutes of the day and of the pause add up to a short.              *)
PauseFits(r, t) == 2 * (MinuteOf(t) + RemainingPauseTime(r)) < INT

(* While a pause is on, nothing but an explicit start from the web page    *)
(* starts one of the stored schedules, as long as the remaining pause and  *)
(* the time of day together fit a short.                                   *)
PauseHolds ==
  [][rs'.sched \in Slots /\ rs'.sched # rs.sched =>
       \/ RemainingPauseTime(rs') = 0
       \/ ~PauseFits(rs', clock)
       \/ \E id \in Slots : WebStartSchedule(id)]_vars

(* A pause ends by itself: once set, the time remaining never grows again  *)
(* without a new request ("this field has millis value for the end of the  *)
(* pause period", core.h).                                                 *)
PauseNeverGrows ==
  [][RemainingPauseTime(rs') > RemainingPauseTime(rs) =>
       \E m \in PauseMinutes : WebPause(m)]_vars

-----------------------------------------------------------------------------
(* The main loop and the tick counter run for ever; commands need not.     *)
Fairness == WF_vars(Tick) /\ WF_vars(ZoneHandlerLoop) /\ WF_vars(Pass)

(* No local valve stays open: each is closed by its run time, a stop or a  *)
(* reset, and stays closed until something starts it again.                *)
EveryValveCloses == \A z \in Zones : rs.out[z] ~> ~rs.out[z]

(* A remote zone that never reports is not shown starting or stopping for  *)
(* ever.                                                                   *)
TransitionsResolve ==
  \A z \in Zones : []<>(rs.cache[z] \in {OFF, RUNNING})

(* If schedules end up enabled and not paused, every zone with a run time  *)
(* in an enabled schedule gets its turn again and again, provided that no  *)
(* start falls in the run of another schedule.                             *)
EveryZoneGetsItsTurn ==
  <>[](ee.run /\ ~rs.paused) =>
    \A i \in Slots, z \in Zones :
      []<>(i >= ee.nsched \/ ~ee.slot[i].enabled \/ ee.slot[i].duration[z] = 0
           \/ (rs.sched = i /\ rs.zone = z))

=============================================================================
