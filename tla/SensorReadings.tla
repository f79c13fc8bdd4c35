--------------------------- MODULE SensorReadings ---------------------------
(***************************************************************************)
(* The sensors of a master and of its remote stations (sensors.cpp): every *)
(* station has a list of sensors and reads its own ones; the master polls  *)
(* the others one station a minute, and a remote reports a flow counter    *)
(* that changed without being asked.  Packets of a pair of stations stay   *)
(* in order, and any of them may be lost (PacketDelivery).  Over XBee the  *)
(* master asks a station whose radio it does not know by a broadcast, and  *)
(* may have learnt a wrong one (XBeeNetwork).                              *)
(*                                                                         *)
(* A definition whose comment starts with "Fault:" is a faulty variant of  *)
(* the definition after it, which nothing uses.                            *)
(***************************************************************************)
EXTENDS Integers, FiniteSets, Sequences, SequencesExt

CONSTANTS
  SensorMaster, SensorRemotes,
  SensorsOf,      \* of a station: its list, of [station, channel, flow]
  ChannelsOf,     \* of a station: the channels its own hardware reads
  Order,          \* the stations in the order of their numbers
  REPEAT,         \* of a station: SENSORS_POLL_DEFAULT_REPEAT
  Registered,     \* the remotes whose event master wants sensor reports
  READINGS,       \* 2^16: values of the 16-bit unsigned type on the wire
  ValuesOf,       \* of a station, of a channel: what its hardware may read
  Silent,         \* of a station: the channels of its BMP180
  Unsure,         \* of a station: the channels of its DHT
  Garbage,        \* what a variable may hold that nobody has set
  XBeeRemotes,    \* the remotes with an XBee radio, not a MoteinoRF one
  NoRadio,        \* no station
  MaxFlight,      \* packets a station has in flight to another
  MaxTrouble      \* lost packets and restarts

AllStations == {SensorMaster} \cup SensorRemotes

(* The stations that have a sensor in the list of s.                       *)
HasSensors(s, p) == \E i \in DOMAIN SensorsOf[s] : SensorsOf[s][i].station = p

PollLists ==
  [s \in AllStations |->
     FoldLeft(LAMBDA list, p : IF HasSensors(s, p) THEN Append(list, p) ELSE list, <<>>, Order)]
StationsToPoll(s) == PollLists[s]

Sensors == [station : ToSet(Order), channel : Nat, flow : BOOLEAN]
WireReadings == -(READINGS \div 2) .. READINGS \div 2 - 1

ASSUME SensorAssumption ==
  /\ SensorMaster \notin SensorRemotes /\ Registered \subseteq SensorRemotes
  /\ READINGS \in Nat /\ READINGS > 1 /\ MaxFlight \in Nat
  /\ XBeeRemotes \subseteq SensorRemotes /\ NoRadio \notin AllStations
  /\ Garbage \subseteq WireReadings

(* The stations of all sensors have a place in the order: device.ini may   *)
(* name one number too many (AcceptedSensor of Provisioning), whose        *)
(* sensors no round of polls comes to.                                     *)
ASSUME ListAssumption ==
  \A s \in AllStations :
    /\ SensorsOf[s] \in Seq(Sensors)
    /\ ChannelsOf[s] \in Seq(Nat)
    /\ \A i \in DOMAIN ChannelsOf[s] : ValuesOf[s][ChannelsOf[s][i]] \subseteq WireReadings

ASSUME PollAssumption ==
  /\ Order \in Seq(AllStations)
  /\ \A s \in AllStations : REPEAT[s] \in Nat /\ Len(StationsToPoll(s)) <= REPEAT[s]
  /\ \A r \in SensorRemotes : StationsToPoll(r) = <<r>>

VARIABLES
  last,           \* of a station, of an entry of its list: lastReading
  minutes,        \* pollMinutesCounter
  nPoll,
  toRemote,       \* requests on their way to a remote: the station each asks
  toMaster,       \* reports on their way from a remote: [from, first, data]
  trouble,        \* history: of a remote, it or the master restarted or
                  \* a packet of theirs was lost
  waits,          \* history: of an entry of the master's list, the minutes
                  \* since it was asked for
  source,         \* history: of an entry of the master's list, the remote
                  \* whose report it last took a reading from
  misled,         \* history: of a station, a request for it has reached
                  \* others, too, or only others
  troubles        \* history: how many of MaxTrouble have happened

sensorVars ==
  <<last, minutes, nPoll, toRemote, toMaster, trouble, waits, source, misled,
    troubles>>

Zeros(s) == [i \in DOMAIN SensorsOf[s] |-> 0]

SensorInit ==
  /\ last = [s \in AllStations |-> Zeros(s)]
  /\ minutes = [s \in AllStations |-> 0] /\ nPoll = [s \in AllStations |-> 1]
  /\ toRemote = [r \in SensorRemotes |-> <<>>] /\ toMaster = [r \in SensorRemotes |-> <<>>]
  /\ trouble = [r \in SensorRemotes |-> FALSE]
  /\ waits = [i \in DOMAIN SensorsOf[SensorMaster] |-> 0]
  /\ source = [i \in DOMAIN SensorsOf[SensorMaster] |-> NoRadio]
  /\ misled = [p \in AllStations |-> FALSE]
  /\ troubles = 0

-----------------------------------------------------------------------------
(* The conversions of a reading for the wire and back.                     *)
ToWire(v) == v % READINGS

FromWire(w) == IF w >= READINGS \div 2 THEN w - READINGS ELSE w

(* Fault: an entry is found by its channel alone.                          *)
EntriesOfChannel(s, station, channel) ==
  {i \in DOMAIN SensorsOf[s] : SensorsOf[s][i].channel = channel}

(* The entries of s for a channel of a station.                            *)
EntriesOf(s, station, channel) ==
  {i \in DOMAIN SensorsOf[s] :
     SensorsOf[s][i].station = station /\ SensorsOf[s][i].channel = channel}

(* Fault: the report is sent before the reading is stored.                 *)
ReportSensorReadingEarly(s, before, station, channel, reading) ==
  LET entries == EntriesOf(s, station, channel)
      i       == CHOOSE j \in entries : \A k \in entries : j <= k
  IN IF entries = {} THEN before
     ELSE [list |-> [before.list EXCEPT ![i] = reading],
           out  |-> IF SensorsOf[s][i].flow /\ reading # before.list[i] /\ s \in Registered
                    THEN Append(before.out, [from |-> s, first |-> i - 1,
                                             data |-> <<ToWire(before.list[i])>>])
                    ELSE before.out]

(* The first entry for the sensor takes the reading; if that is a flow     *)
(* counter that changed, a report of the entry is sent.  An unknown sensor *)
(* is ignored.                                                             *)
ReportSensorReading(s, before, station, channel, reading) ==
  LET entries == EntriesOf(s, station, channel)
      i       == CHOOSE j \in entries : \A k \in entries : j <= k
  IN IF entries = {} THEN before
     ELSE [list |-> [before.list EXCEPT ![i] = reading],
           out  |-> IF SensorsOf[s][i].flow /\ reading # before.list[i] /\ s \in Registered
                    THEN Append(before.out, [from |-> s, first |-> i - 1,
                                             data |-> <<ToWire(reading)>>])
                    ELSE before.out]

(* The state of the station before a series of readings, and after it.     *)
Before(s) == [list |-> last[s], out |-> <<>>]

After(s, result) ==
  /\ last' = [last EXCEPT ![s] = result.list]
  /\ IF s = SensorMaster THEN UNCHANGED toMaster
     ELSE /\ toMaster' = [toMaster EXCEPT ![s] = @ \o result.out]
          /\ Len(toMaster'[s]) <= MaxFlight

-----------------------------------------------------------------------------
(* Fault: a new round of polls starts only when the last one is complete.  *)
PollFromReload(s) == nPoll[s]

(* The next station of the list to poll, the first one in a new round.     *)
PollFrom(s) == IF minutes[s] - 1 <= 0 THEN 1 ELSE nPoll[s]

(* The station reads all of its own hardware but what fails, which shows v. *)
OwnReadings(s, v, failed) ==
  FoldLeft(LAMBDA b, c : IF c \in failed THEN b ELSE ReportSensorReading(s, b, s, c, v[c]),
           Before(s), ChannelsOf[s])

(* A BMP180 that fails reports nothing; a DHT that fails, two variables    *)
(* that have not been set.                                                 *)
ReadHardware(s) ==
  /\ \E failed \in {{}, Silent[s]}, unset \in {{}, Unsure[s]},
        v \in [ToSet(ChannelsOf[s]) ->
                Garbage \cup UNION {ValuesOf[s][c] : c \in ToSet(ChannelsOf[s])}] :
       /\ \A c \in DOMAIN v : v[c] \in IF c \in unset THEN Garbage ELSE ValuesOf[s][c]
       /\ After(s, OwnReadings(s, v, failed))
  /\ UNCHANGED <<toRemote, source, misled>>

(* Whom XBeeSendPacket and MoteinoRFSendPacket may send a packet for p to: *)
(* over XBee, the radio known under its number, whose ever it is, or       *)
(* everybody when none is known.                                           *)
Hearers(p) ==
  IF p \in XBeeRemotes THEN {XBeeRemotes} \cup {{r} : r \in XBeeRemotes} ELSE {{p}}

(* PollStationSensors: the station asks another one for its readings.      *)
PollStationSensors(p) ==
  /\ \E hearers \in Hearers(p) :
       /\ \A r \in hearers : Len(toRemote[r]) < MaxFlight
       /\ toRemote' = [r \in SensorRemotes |->
                         IF r \in hearers THEN Append(toRemote[r], p) ELSE toRemote[r]]
       /\ misled' = [misled EXCEPT ![p] = @ \/ hearers # {p}]
  /\ UNCHANGED <<last, toMaster, source>>

(* poll_MinTimer, once a minute: the next station of the list, if any.     *)
PollMinTimer(s) ==
  LET list == StationsToPoll(s)
      poll == PollFrom(s)
      now  == poll <= Len(list)
  IN
  /\ minutes' = [minutes EXCEPT ![s] = IF @ - 1 <= 0 THEN REPEAT[s] ELSE @ - 1]
  /\ nPoll' = [nPoll EXCEPT ![s] = IF now THEN poll + 1 ELSE poll]
  /\ IF ~now THEN UNCHANGED <<last, toRemote, toMaster, source, misled>>
     ELSE IF list[poll] = s THEN ReadHardware(s)
     ELSE PollStationSensors(list[poll])
  /\ waits' = IF s # SensorMaster THEN waits
              ELSE [i \in DOMAIN waits |->
                     IF now /\ SensorsOf[SensorMaster][i].station = list[poll] THEN 0
                     ELSE waits[i] + 1]
  /\ UNCHANGED <<trouble, troubles>>

(* MessageSensorsRead on a remote: a report of its whole list, in the name *)
(* of the station that was asked.                                          *)
MessageSensorsRead(r) ==
  /\ toRemote[r] # <<>> /\ Len(toMaster[r]) < MaxFlight
  /\ toRemote' = [toRemote EXCEPT ![r] = Tail(@)]
  /\ toMaster' =
       [toMaster EXCEPT ![r] =
         Append(@, [from |-> Head(toRemote[r]), first |-> 0,
                    data |-> [i \in DOMAIN last[r] |-> ToWire(last[r][i])]])]
  /\ UNCHANGED <<last, minutes, nPoll, trouble, waits, source, misled, troubles>>

(* MessageSensorsReport on the master: the readings of a report, in order. *)
ReportedReadings(packet) ==
  FoldLeft(LAMBDA b, i : ReportSensorReading(SensorMaster, b, packet.from, packet.first + i - 1,
                                             FromWire(packet.data[i])),
           Before(SensorMaster), [i \in DOMAIN packet.data |-> i])

(* The entries of the master's list that take a reading of a report.       *)
Reported(packet) ==
  {i \in DOMAIN SensorsOf[SensorMaster] :
     \E j \in DOMAIN packet.data :
       LET entries == EntriesOf(SensorMaster, packet.from, packet.first + j - 1)
       IN  i \in entries /\ \A k \in entries : i <= k}

MessageSensorsReport(r) ==
  /\ toMaster[r] # <<>>
  /\ LET packet == Head(toMaster[r])
     IN  /\ last' = [last EXCEPT ![SensorMaster] = ReportedReadings(packet).list]
         /\ source' = [i \in DOMAIN source |-> IF i \in Reported(packet) THEN r ELSE source[i]]
  /\ toMaster' = [toMaster EXCEPT ![r] = Tail(@)]
  /\ UNCHANGED <<minutes, nPoll, toRemote, trouble, waits, misled, troubles>>

(* The radio loses a packet between the master and r.                      *)
Lose(r) ==
  /\ troubles < MaxTrouble /\ troubles' = troubles + 1
  /\ trouble' = [trouble EXCEPT ![r] = TRUE]
  /\ \/ /\ toRemote[r] # <<>> /\ toRemote' = [toRemote EXCEPT ![r] = Tail(@)]
        /\ UNCHANGED toMaster
     \/ /\ toMaster[r] # <<>> /\ toMaster' = [toMaster EXCEPT ![r] = Tail(@)]
        /\ UNCHANGED toRemote
  /\ UNCHANGED <<last, minutes, nPoll, waits, source, misled>>

(* A restart: the readings are in memory only.                             *)
Restart(s) ==
  /\ troubles < MaxTrouble /\ troubles' = troubles + 1
  /\ last' = [last EXCEPT ![s] = Zeros(s)]
  /\ minutes' = [minutes EXCEPT ![s] = 0] /\ nPoll' = [nPoll EXCEPT ![s] = 1]
  /\ trouble' = [r \in SensorRemotes |-> trouble[r] \/ s \in {r, SensorMaster}]
  /\ IF s = SensorMaster
     THEN /\ waits' = [i \in DOMAIN waits |-> 0]
          /\ source' = [i \in DOMAIN source |-> NoRadio]
     ELSE UNCHANGED <<waits, source>>
  /\ UNCHANGED <<toRemote, toMaster, misled>>

SensorNext ==
  \/ \E s \in AllStations : PollMinTimer(s) \/ Restart(s)
  \/ \E r \in SensorRemotes : MessageSensorsRead(r) \/ MessageSensorsReport(r) \/ Lose(r)

SensorSpec == SensorInit /\ [][SensorNext]_sensorVars

-----------------------------------------------------------------------------
(* The lists keep their lengths and the counters their ranges.             *)
SensorTypeOK ==
  /\ \A s \in AllStations :
       /\ last[s] \in [DOMAIN SensorsOf[s] -> WireReadings]
       /\ minutes[s] \in 0 .. REPEAT[s]
       /\ nPoll[s] \in 1 .. Len(StationsToPoll(s)) + 1
  /\ \A r \in SensorRemotes :
       /\ Len(toRemote[r]) <= MaxFlight /\ ToSet(toRemote[r]) \subseteq SensorRemotes
       /\ Len(toMaster[r]) <= MaxFlight

(* What the hardware of a sensor may report.                               *)
HardwareOf(sensor) ==
  LET own == SensorsOf[sensor.station][sensor.channel + 1]
  IN  IF sensor.station = SensorMaster THEN sensor.channel ELSE own.channel

Plausible(sensor) ==
  ValuesOf[sensor.station][HardwareOf(sensor)] \cup
    (IF HardwareOf(sensor) \in Unsure[sensor.station] THEN Garbage ELSE {})

(* The master asks the sensor's station alone, or the station was the last *)
(* one to report.                                                          *)
Undisturbed(i) ==
  LET remote == SensorsOf[SensorMaster][i].station
  IN  ~misled[remote] \/ source[i] = remote

(* What the master shows for a sensor is a reading of that sensor's own    *)
(* hardware: channels, order and sign survive the way, also when the lists *)
(* differ, packets are lost and stations restart.  0 is shown before the   *)
(* first reading.  A request that reached other radios may show a reading  *)
(* of theirs, until the station itself reports.                            *)
ReadingsAreAttributed ==
  \A i \in DOMAIN SensorsOf[SensorMaster] :
    Undisturbed(i) => last[SensorMaster][i] \in {0} \cup Plausible(SensorsOf[SensorMaster][i])

(* With nothing on its way and nothing lost, the master knows the flow     *)
(* counters of a registered remote, whose changes need no poll, unless it  *)
(* is another radio that reported last.                                    *)
FlowIsCurrent ==
  \A i \in DOMAIN SensorsOf[SensorMaster] :
    LET sensor == SensorsOf[SensorMaster][i]
        remote == sensor.station
    IN  /\ remote \in Registered /\ SensorsOf[remote][sensor.channel + 1].flow
        /\ ~trouble[remote] /\ toMaster[remote] = <<>> /\ Undisturbed(i)
        => last[SensorMaster][i] = last[remote][sensor.channel + 1]

(* Each sensor is asked for in every round, whatever the number of the     *)
(* stations before it in the list.                                         *)
NoSensorStarves ==
  \A i \in DOMAIN SensorsOf[SensorMaster] :
    waits[i] <= REPEAT[SensorMaster]

=============================================================================
