---------------------------- MODULE MasterRemote ----------------------------
(***************************************************************************)
(* A master that waters through the zones of a remote station: two runs of *)
(* RunState joined by the ZONES_SET, ZONES_REPORT and EVTMASTER_SET        *)
(* packets of RProtocolMS.cpp.                                             *)
(*                                                                         *)
(* The link between them is what PacketDelivery promises: packets arrive   *)
(* in order and at most once, and any of them may be lost.  A packet needs *)
(* well under a second, and time advances here in ticks of a large part of *)
(* a minute, so a tick passes only when nothing is in flight.              *)
(***************************************************************************)
EXTENDS Integers, FiniteSets, Sequences

CONSTANTS
  NumZones,            (* zones of the remote, the only ones               *)
  MINUTE,              (* these six as in RunState                         *)
  DELAY_BETWEEN_ZONES,
  ZONE_STATE_TIMEOUT,
  RunMinutes,
  QuickDefs,
  MaxLag,
  MaxLate,
  MaxEvents            (* commands, resets and lost packets                *)

(* What both stations have in common.  The stored schedules are left out.  *)
Stations        == {1}
ActiveStations  == {1}
StartZoneOf     == [s \in Stations |-> 0]
NumZoneChannels == [s \in Stations |-> NumZones]
MAX_SCHEDULES   == 1
MILLIS          == 64
INT             == 64
BYTE            == 256
DayMinutes      == 1
Days            == 1
ScheduleDefs    == {}
InitialSlots    ==
  {[nsched |-> 0,
    slot |-> [i \in {0} |->
               [enabled |-> FALSE, wadj |-> FALSE, days |-> {}, times |-> {},
                duration |-> [z \in 0 .. NumZones - 1 |-> 0]]]]}
PauseMinutes == {}
Scales       == {100}
EditZones    == FALSE
EditRunningZones == FALSE
ClockSteps   == FALSE
Reboots      == TRUE

(* Users ask for the same run times, whichever way they ask.               *)
ASSUME MasterRemoteAssumption ==
  /\ NumZones \in Nat \ {0}
  /\ MINUTE \in Nat \ {0} /\ DELAY_BETWEEN_ZONES \in Nat
  /\ ZONE_STATE_TIMEOUT \in 1 .. 15
  /\ RunMinutes \subseteq 0 .. BYTE - 1 /\ RunMinutes # {}
  /\ \A q \in QuickDefs :
       DOMAIN q \subseteq 0 .. NumZones - 1 /\ \A z \in DOMAIN q : q[z] \in RunMinutes \cup {0}
  /\ MaxLag \in Nat /\ MaxLate \in Nat

VARIABLES
  clock,                  (* both clocks: the master broadcasts its time   *)
  mee, mrs, mlag,         (* ee, rs and lag of the master                  *)
  ree, rrs, rlag,         (* ... and of the remote                         *)
  late,                   (* of both: the remote's zones are local, so its *)
                          (* zoneHandlerLoop has nothing to do             *)
  registered,             (* EEPROM of the remote: the event master is set *)
  toRemote, toMaster,     (* packets in flight                             *)
  disturbed,              (* history: a packet was lost, a station reset,  *)
                          (* or the remote was used by hand                *)
  unasked,                (* history: ticks since the last one who asked   *)
                          (* for a zone that is on stopped doing so        *)
  events                  (* history: how many of MaxEvents have happened  *)

(* RunStateProofs is RunState with what is proved of it.                   *)
Master == INSTANCE RunStateProofs WITH ee <- mee, rs <- mrs, lag <- mlag,
                                 RFStations <- Stations, MyStations <- {}
Remote == INSTANCE RunStateProofs WITH ee <- ree, rs <- rrs, lag <- rlag,
                                 RFStations <- {}, MyStations <- Stations

master  == <<mee, mrs, mlag>>
remote  == <<ree, rrs, rlag, registered>>
history == <<disturbed, unasked, events>>
vars    == <<clock, late, master, remote, toRemote, toMaster, history>>

Zones == Master!Zones

Register   == [kind |-> "EVTMASTER_SET"]
Set(z, m)  == [kind |-> "ZONES_SET", zone |-> z, ttr |-> m]

Packets == {Register} \cup [kind : {"ZONES_SET"}, zone : Zones, ttr : 0 .. BYTE - 1]

Init ==
  /\ Master!Init /\ Remote!Init
  /\ registered = FALSE
  /\ toRemote = <<Register>> /\ toMaster = <<>>
  /\ disturbed = FALSE /\ unasked = 0 /\ events = 0

-----------------------------------------------------------------------------
(* One ZONES_SET per zone of a command, in the order of the commands and   *)
(* of the loop over the zones.                                             *)
Requested(sent) == {p \in (DOMAIN sent) \X Zones : p[2] \in sent[p[1]].zones}
Precedes(p, q)  == p[1] < q[1] \/ (p[1] = q[1] /\ p[2] < q[2])
InOrder(P, n)   ==
  {f \in [1 .. n -> P] : \A i, j \in 1 .. n : i < j => Precedes(f[i], f[j])}

(* What the radio may make of the packets of a handler: each of them is    *)
(* delivered or lost.                                                      *)
Transmit(sent) ==
  UNION {{[i \in 1 .. n |-> Set(f[i][2], sent[f[i][1]].ttr)] : f \in InOrder(Requested(sent), n)} :
           n \in 0 .. Cardinality(Requested(sent))}

(* The state bits of a ZONES_REPORT about the zones Z.                     *)
ReportOf(r, Z) == {z \in Z : r.cache[z] = Remote!RUNNING}

(* The master asks for a zone by a request to start it, and as long as it  *)
(* times it.                                                               *)
SomeoneAsks(m) == m.zone \in Zones \/ \E i \in DOMAIN m.sent : m.sent[i].ttr # 0

-----------------------------------------------------------------------------
(* n events: losses, and resets and commands, of which disturbing ones are *)
(* remembered.                                                             *)
Happen(n, disturbing) ==
  /\ events' = events + n /\ events' <= MaxEvents
  /\ disturbed' = (disturbed \/ disturbing)

(* A handler of the master: a command or a pass of its loop, and the       *)
(* packets it sends.                                                       *)
MasterCommand ==
  \/ \E on \in BOOLEAN : Master!WebRunSchedules(on)
  \/ \E q \in QuickDefs : Master!WebQuickSchedule(q)
  \/ Master!UIHomeConfirm
  \/ \E z \in Zones, m \in RunMinutes : Master!UIManualStart(1, z, m)

MasterSends(commands) ==
  LET lost == Cardinality(Requested(mrs'.sent)) - Len(toRemote')
  IN  /\ toRemote' \in Transmit(mrs'.sent)
      /\ Happen(commands + lost, lost > 0)
      /\ unasked' = IF SomeoneAsks(mrs') THEN 0 ELSE unasked
      /\ UNCHANGED <<remote, toMaster>>

MasterHandler ==
  /\ toRemote = <<>>
  /\ (MasterCommand /\ MasterSends(1)) \/ (Master!Pass /\ MasterSends(0))

(* A reset of the master; setup ends with RegisterRemoteEvents.            *)
MasterReboot ==
  /\ Master!Reboot
  /\ toRemote' = <<Register>> /\ toMaster' = <<>>
  /\ Happen(1, TRUE)
  /\ UNCHANGED <<remote, unasked>>

(* ReportStationZonesStatus with the bits of the report.                   *)
MasterReceive ==
  /\ toMaster # <<>> /\ toMaster' = Tail(toMaster)
  /\ Master!ReportStationZonesStatus(1, Head(toMaster))
  /\ UNCHANGED <<remote, toRemote, history>>

(* Send the report, unless it is lost.                                     *)
Report(bits, commands, disturbing) ==
  /\ toMaster' \in {toMaster, Append(toMaster, bits)}
  /\ LET lost == Len(toMaster) + 1 - Len(toMaster')
     IN  Happen(commands + lost, disturbing \/ lost > 0)

(* Fault: the report is made before the request is carried out.            *)
ReceiveSetReportsFirst(packet) ==
  /\ packet.kind = "ZONES_SET"
  /\ Remote!MessageZonesSet(1, packet.zone, packet.ttr)
  /\ Report(ReportOf(rrs, {packet.zone}), 0, FALSE)
  /\ UNCHANGED registered

(* FCODE_ZONES_SET, always with RMESSAGE_FLAGS_ACK_REPORT: the report is   *)
(* about the zone of the request only, and says OFF of all others.         *)
ReceiveSet(packet) ==
  /\ packet.kind = "ZONES_SET"
  /\ Remote!MessageZonesSet(1, packet.zone, packet.ttr)
  /\ Report(ReportOf(rrs', {packet.zone}), 0, FALSE)
  /\ UNCHANGED registered

(* FCODE_EVTMASTER_SET.                                                    *)
ReceiveRegister(packet) ==
  /\ packet.kind = "EVTMASTER_SET"
  /\ registered' = TRUE
  /\ UNCHANGED <<clock, late, ree, rrs, rlag, toMaster, disturbed, events>>

RemoteReceive ==
  /\ toRemote # <<>> /\ toRemote' = Tail(toRemote)
  /\ ReceiveSet(Head(toRemote)) \/ ReceiveRegister(Head(toRemote))
  /\ UNCHANGED <<master, unasked>>

RemotePass ==
  /\ Remote!Pass
  /\ UNCHANGED <<master, registered, toRemote, toMaster, history>>

(* What a person does at the remote itself.  StartZone and TurnOffZones    *)
(* report to the event master.                                             *)
ByHand(reports) ==
  /\ unasked' = 0
  /\ IF registered /\ reports THEN Report(ReportOf(rrs', Zones), 1, TRUE)
     ELSE Happen(1, TRUE) /\ UNCHANGED toMaster
  /\ UNCHANGED <<master, registered, toRemote>>

RemoteManualStart(z, m) == Remote!UIManualStart(1, z, m) /\ ByHand(TRUE)

(* TurnOffZones is called, and reports, before the pass of the scheduler,  *)
(* which finds nothing left to do.                                         *)
RemoteHomeConfirm ==
  Remote!UIHomeConfirm /\ ByHand(~ree.run /\ Remote!NotOff(rrs) # {})

RemoteReboot ==
  /\ Remote!Reboot
  /\ toRemote' = <<>>
  /\ Happen(1, TRUE)
  /\ UNCHANGED <<master, registered, toMaster, unasked>>

ZoneHandlerLoop ==
  /\ Master!ZoneHandlerLoop /\ Remote!ZoneHandlerLoop
  /\ UNCHANGED <<registered, toRemote, toMaster, history>>

Tick ==
  /\ toRemote = <<>> /\ toMaster = <<>>
  /\ Master!Tick /\ Remote!Tick
  /\ unasked' = IF SomeoneAsks(mrs) \/ \A z \in Zones : ~rrs.out[z] THEN 0 ELSE unasked + 1
  /\ UNCHANGED <<registered, toRemote, toMaster, disturbed, events>>

Next ==
  \/ Tick \/ ZoneHandlerLoop
  \/ MasterHandler \/ MasterReboot \/ MasterReceive
  \/ RemoteReceive \/ RemotePass \/ RemoteReboot
  \/ \E z \in Zones, m \in RunMinutes : RemoteManualStart(z, m)
  \/ RemoteHomeConfirm

Spec == Init /\ [][Next]_vars

-----------------------------------------------------------------------------
(* As long as no packet is lost, nothing resets and nobody uses the remote *)
(* by hand, the remote waters exactly the zone the master is timing: the   *)
(* backstop never cuts a run short, and no stop is forgotten.              *)
RemoteFollowsMaster ==
  ree.run /\ ~disturbed /\ toRemote = <<>> =>
    \A z \in Zones : rrs.out[z] = (mrs.zone = z)

(* Whatever is lost and whoever resets, a zone of the remote stays on at   *)
(* most its backstop after the last one who asked for it is gone: the      *)
(* longest run time and one minute ("to ensure zone will not stay On if    *)
(* there is an interruption in comms, or if Master died", core.cpp).       *)
LongestRun == CHOOSE m \in RunMinutes : \A n \in RunMinutes : n <= m
BackstopEndsRun == unasked <= (LongestRun + 1) * MINUTE + MaxLag

(* When everything has been delivered the master shows the remote's zones  *)
(* as they are, although each report says OFF of the zones it is not about *)
(* and any of them may come after the time-out or between two commands.    *)
CacheShowsRemote ==
  ~disturbed /\ toRemote = <<>> /\ toMaster = <<>> =>
    \A z \in Zones :
      mrs.cache[z] \in {Master!OFF, Master!RUNNING} =>
        (mrs.cache[z] = Master!RUNNING <=> rrs.out[z])

=============================================================================
