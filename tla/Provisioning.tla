---------------------------- MODULE Provisioning ----------------------------
(***************************************************************************)
(* How a station gets its configuration: ResetEEPROM (settings.cpp) fills  *)
(* the EEPROM from device.ini, or on a station without a card from         *)
(* defaults, and restarts.  It runs when the signature is missing at       *)
(* start-up (setup, Station.ino) and on the command bin/factory (web.cpp). *)
(*                                                                         *)
(* The EEPROM is written record by record, with the watchdog off; the      *)
(* power may fail between any two of them.  Zones and sensors are numbered *)
(* from 0.  Files are such that all zones have room in the EEPROM.         *)
(*                                                                         *)
(* A definition whose comment starts with "Fault:" is a faulty variant of  *)
(* the definition after it, which nothing uses.                            *)
(***************************************************************************)
EXTENDS Integers, Sequences, FiniteSets

CONSTANTS
  MAX_STATIONS, MAX_SENSORS,
  MAX_CHANNELS,    \* channels of a station, 8
  ErasedByte,      \* what an erased byte of the EEPROM reads as, 255
  IniFiles,        \* what device.ini may hold
  DefaultIDs,      \* station numbers a station without a card may be given
  DefaultChannels, DefaultSensors,
  None,            \* no load has been completed
  MaxLoads         \* loads of the configuration in a behaviour

(* A section that lacks a key or names an unknown network is unreadable.   *)
StationSections == [id : Nat, channels : Nat, readable : BOOLEAN]
SensorSections  == [station : Nat, channel : Nat, readable : BOOLEAN]

ASSUME ProvisioningAssumption ==
  /\ {MAX_STATIONS, MAX_CHANNELS, ErasedByte, MaxLoads} \subseteq Nat
  /\ MAX_SENSORS \in Nat \ {0}
  /\ MAX_STATIONS * MAX_CHANNELS < ErasedByte /\ MAX_SENSORS < ErasedByte
  /\ DefaultIDs \subseteq 0 .. MAX_STATIONS - 1
  /\ DefaultChannels \in 0 .. MAX_CHANNELS /\ DefaultSensors \in Seq(SensorSections)
  /\ None \notin IniFiles
  /\ \A ini \in IniFiles :
       /\ ini.stations \in Seq(StationSections)
       /\ ini.sensors \in Seq(SensorSections)

VARIABLES
  hasCard,     \* built with HW_ENABLE_SD
  ep,       \* the EEPROM
  job,      \* where ResetEEPROM is: step, loop variables, next sensor or zone
  ini,      \* the file that is loaded
  fits,     \* history: SaveZone took every zone of the latest load
  loaded,   \* history: the file of the latest load, if it was completed
  loads     \* history: how many loads have begun

provisioningVars == <<hasCard, ep, job, ini, fits, loaded, loads>>

StationIDs  == 0 .. MAX_STATIONS - 1
ZoneNumbers == 0 .. MAX_STATIONS * MAX_CHANNELS - 1
NoStation   == [valid |-> FALSE, channels |-> 0, startZone |-> 0]
Erased      == [station |-> ErasedByte, channel |-> ErasedByte]

(* What a station without a card loads, and one whose file does not open.  *)
Defaults(id) ==
  [stations |-> <<[id |-> id, channels |-> DefaultChannels, readable |-> TRUE]>>,
   sensors  |-> DefaultSensors]
NoFile  == [stations |-> << >>, sensors |-> << >>]
Files   == IF hasCard THEN IniFiles \cup {NoFile} ELSE {Defaults(id) : id \in DefaultIDs}

(* An erased chip has no signature; every station looks valid.             *)
ProvisioningInit ==
  /\ hasCard \in BOOLEAN
  /\ ep = [signature  |-> FALSE,
           stations   |-> [s \in StationIDs |-> [valid |-> TRUE, channels |-> ErasedByte,
                                                 startZone |-> ErasedByte]],
           sensors    |-> [n \in 0 .. MAX_SENSORS - 1 |-> Erased],
           numSensors |-> ErasedByte,
           zones      |-> [z \in ZoneNumbers |-> Erased],
           numZones   |-> ErasedByte]
  /\ job = [at |-> "boot", i |-> 0, j |-> 0, n |-> 0]
  /\ ini = NoFile /\ fits = FALSE /\ loaded = None /\ loads = 0

-----------------------------------------------------------------------------
(* A list of sections is ignored if it is too long.                        *)
Sections(list, limit) == IF Len(list) >= limit THEN << >> ELSE list

Accepted(section) == section.readable /\ section.id < MAX_STATIONS

(* Sensors of one station number too many are let through.                 *)
AcceptedSensor(section) ==
  section.readable /\ section.station <= MAX_STATIONS /\ section.channel < ErasedByte

Truncated(channels) == IF channels > MAX_CHANNELS THEN MAX_CHANNELS ELSE channels

Goto(label) == job' = [at |-> label, i |-> 0, j |-> 0, n |-> 0]

(* The signature, and what is not loaded from the file, come first.        *)
BeginLoad ==
  /\ loads < MaxLoads /\ loads' = loads + 1
  /\ ini' \in Files /\ loaded' = None /\ fits' = FALSE
  /\ ep' = [ep EXCEPT !.signature = TRUE]
  /\ Goto("clear")

ClearStation ==
  /\ job.at = "clear"
  /\ IF job.i < MAX_STATIONS
     THEN /\ ep' = [ep EXCEPT !.stations[job.i] = NoStation]
          /\ job' = [job EXCEPT !.i = @ + 1]
     ELSE Goto("stations") /\ UNCHANGED ep
  /\ UNCHANGED <<ini, fits, loaded, loads>>

LoadStation ==
  /\ job.at = "stations"
  /\ LET list == Sections(ini.stations, MAX_STATIONS) IN
     IF job.i < Len(list)
     THEN LET section == list[job.i + 1] IN
          /\ ep' = IF Accepted(section)
                   THEN [ep EXCEPT !.stations[section.id] =
                          [valid |-> TRUE, channels |-> Truncated(section.channels),
                           startZone |-> 0]]
                   ELSE ep
          /\ job' = [job EXCEPT !.i = @ + 1]
     ELSE Goto("sensorCount") /\ UNCHANGED ep
  /\ UNCHANGED <<ini, fits, loaded, loads>>

(* Fault: the old number of sensors stands until the new ones are saved.   *)
KeepSensorCount ==
  /\ job.at = "sensorCount" /\ Goto("sensors")
  /\ UNCHANGED <<ep, ini, fits, loaded, loads>>

ClearSensorCount ==
  /\ job.at = "sensorCount" /\ Goto("sensors")
  /\ ep' = [ep EXCEPT !.numSensors = 0]
  /\ UNCHANGED <<ini, fits, loaded, loads>>

LoadSensor ==
  /\ job.at = "sensors"
  /\ LET list == Sections(ini.sensors, MAX_SENSORS) IN
     IF job.i < Len(list)
     THEN LET section == list[job.i + 1] IN
          IF AcceptedSensor(section)
          THEN /\ ep' = [ep EXCEPT !.sensors[job.n] =
                          [station |-> section.station, channel |-> section.channel]]
               /\ job' = [job EXCEPT !.i = @ + 1, !.n = @ + 1]
          ELSE job' = [job EXCEPT !.i = @ + 1] /\ UNCHANGED ep
     ELSE Goto("zones") /\ ep' = [ep EXCEPT !.numSensors = job.n]
  /\ UNCHANGED <<ini, fits, loaded, loads>>

(* SaveZone refuses a number that is not below the recorded one.           *)
SaveZone(e, num, zone) ==
  IF num < e.numZones THEN [e EXCEPT !.zones[num] = zone] ELSE e

StartAt(e, s, zoneIndex) == [e EXCEPT !.stations[s].startZone = zoneIndex]

(* A turn of the two loops that generate the zones: the first channel of a *)
(* station also writes the reference to it.                                *)
GenerateZone ==
  /\ job.at = "zones"
  /\ IF job.i = MAX_STATIONS
     THEN /\ ep' = [ep EXCEPT !.numZones = job.n]
          /\ fits' = (job.n <= ep.numZones)
          /\ Goto("end")
     ELSE LET st == ep.stations[job.i] IN
          /\ UNCHANGED fits
          /\ IF st.valid /\ job.j < st.channels
             THEN /\ ep' = SaveZone(IF job.j = 0 THEN StartAt(ep, job.i, job.n) ELSE ep,
                                    job.n, [station |-> job.i, channel |-> job.j])
                  /\ job' = [job EXCEPT !.j = @ + 1, !.n = @ + 1]
             ELSE job' = [job EXCEPT !.i = @ + 1, !.j = 0] /\ UNCHANGED ep
  /\ UNCHANGED <<ini, loaded, loads>>

(* The load ends with a restart.                                           *)
EndLoad ==
  /\ job.at = "end" /\ Goto("boot")
  /\ loaded' = ini
  /\ UNCHANGED <<ep, ini, fits, loads>>

(* setup: without a signature the configuration is loaded.                 *)
StartUp ==
  /\ job.at = "boot"
  /\ IF ep.signature
     THEN Goto("up") /\ UNCHANGED <<ep, ini, fits, loaded, loads>>
     ELSE BeginLoad

Factory == job.at = "up" /\ BeginLoad

PowerCut ==
  /\ job.at # "boot" /\ Goto("boot")
  /\ UNCHANGED <<ep, ini, fits, loaded, loads>>

ProvisioningNext ==
  /\ UNCHANGED hasCard
  /\ \/ StartUp \/ Factory \/ PowerCut
     \/ ClearStation \/ LoadStation \/ ClearSensorCount \/ LoadSensor
     \/ GenerateZone \/ EndLoad

ProvisioningSpec == ProvisioningInit /\ [][ProvisioningNext]_provisioningVars

-----------------------------------------------------------------------------
(* The EEPROM has the layout of eepromMap.h, and no load runs beyond it.   *)
ProvisioningTypeOK ==
  /\ ep.signature \in BOOLEAN
  /\ ep.stations \in [StationIDs -> [valid : BOOLEAN, channels : 0 .. ErasedByte,
                                     startZone : 0 .. ErasedByte]]
  /\ ep.numZones \in 0 .. MAX_STATIONS * MAX_CHANNELS \cup {ErasedByte}
  /\ ep.numSensors \in 0 .. MAX_SENSORS - 1 \cup {ErasedByte}
  /\ job.i \in 0 .. MAX_STATIONS + MAX_SENSORS /\ job.n \in 0 .. ErasedByte - 1

ZonesOf(s) ==
  IF ep.stations[s].valid
  THEN ep.stations[s].startZone .. ep.stations[s].startZone + ep.stations[s].channels - 1
  ELSE {}

ZonesAreListed ==
  \A s \in StationIDs : \A z \in ZonesOf(s) :
    ep.zones[z] = [station |-> s, channel |-> z - ep.stations[s].startZone]

(* A station whose load was completed has the stations of the file, the    *)
(* last section of a number deciding; their channels are numbered without  *)
(* gap or overlap, as the run state assumes; and the zones of these        *)
(* numbers are those channels, unless SaveZone refused some of them, as it *)
(* does when a load generates more zones than the last one.                *)
ZonesMatchStations ==
  loaded # None =>
    LET list == Sections(loaded.stations, MAX_STATIONS)
        Naming(s) == {k \in DOMAIN list : Accepted(list[k]) /\ list[k].id = s}
    IN  /\ \A s \in StationIDs :
             /\ ep.stations[s].valid <=> Naming(s) # {}
             /\ \A k \in Naming(s) :
                  (\A l \in Naming(s) : l <= k) =>
                    ep.stations[s].channels = Truncated(list[k].channels)
             /\ \A t \in StationIDs \ {s} : ZonesOf(s) \cap ZonesOf(t) = {}
        /\ UNION {ZonesOf(s) : s \in StationIDs} = 0 .. ep.numZones - 1
        /\ fits => ZonesAreListed

(* Whatever load was cut off, the sensors listed are all those of one      *)
(* file, in its order: the count is cleared before they change and set     *)
(* when they have been saved.                                              *)
SensorsAreWhole ==
  ep.numSensors # ErasedByte =>
    \/ ep.numSensors = 0
    \/ \E f \in Files :
         LET list == Sections(f.sensors, MAX_SENSORS)
             kept == {k \in DOMAIN list : AcceptedSensor(list[k])}
         IN  /\ ep.numSensors = Cardinality(kept)
             /\ \A k \in kept :
                  ep.sensors[Cardinality({l \in kept : l < k})]
                    = [station |-> list[k].station, channel |-> list[k].channel]

(* What a station finds in its EEPROM at start-up is of one piece: the     *)
(* stations and zones of a completed load, and the sensors of any.         *)
EepromIsWhole == ZonesMatchStations /\ SensorsAreWhole

=============================================================================
