------------------------- MODULE MasterRemoteProofs -------------------------
(***************************************************************************)
(* Proofs about MasterRemote.  What a handler does to one station is a     *)
(* lemma of RunStateProofs, cited for the master and for the remote; what  *)
(* is proved here is how the two stations and the packets between them fit *)
(* together.                                                               *)
(***************************************************************************)
EXTENDS MasterRemote, FiniteSetTheorems, TLAPS

LastOf(s) == s[Len(s)]

(* The last packet on its way to the remote is a request.                  *)
Pending == toRemote # <<>> /\ LastOf(toRemote).kind = "ZONES_SET"

(* Both stations are well, and neither stores a schedule.                  *)
StationsOK ==
  /\ Master!Inv /\ Remote!Inv
  /\ mee.nsched = 0 /\ ree.nsched = 0
  /\ \A z \in Zones : mee.enabled[z] /\ ree.enabled[z]
  /\ Master!Errand(mrs, RunMinutes)
  /\ Remote!Single(rrs)
  /\ ~ree.run => Remote!Idle(rrs)

PacketsOK ==
  /\ toRemote \in Seq(Packets)
  /\ toMaster \in Seq(SUBSET Zones)
  /\ disturbed \in BOOLEAN
  /\ unasked \in Nat

(* A request to start is recent, and asks for no more than users do.       *)
RequestsAreAsked ==
  \A i \in DOMAIN toRemote :
    toRemote[i].kind = "ZONES_SET" /\ toRemote[i].ttr # 0 =>
      unasked = 0 /\ toRemote[i].ttr \in RunMinutes

(* The remote's timer has run for as long as nobody has asked.             *)
TimerCovers ==
  rrs.zone \in Zones => unasked <= rrs.age /\ rrs.mins <= LongestRun + 1

(* What holds however disturbed the two are.                               *)
Sound == StationsOK /\ PacketsOK /\ RequestsAreAsked /\ TimerCovers /\ BackstopEndsRun

(* The remote times what the master times, for one minute longer.          *)
Follows ==
  IF mrs.zone \in Zones
  THEN rrs.zone = mrs.zone /\ rrs.age = mrs.age /\ rrs.mins = mrs.mins + 1
  ELSE rrs.zone = Remote!NoZone

(* It will once the request p has arrived.                                 *)
Promised(p) ==
  IF p.ttr = 0 THEN mrs.zone \notin Zones
  ELSE mrs.zone = p.zone /\ mrs.mins = p.ttr /\ mrs.age = 0

InStep ==
  ~disturbed /\ ree.run => IF Pending THEN Promised(LastOf(toRemote)) ELSE Follows

(* The master shows the remote's zones, or will when the last report on    *)
(* its way has arrived.                                                    *)
WillShow ==
  ~disturbed /\ ~Pending =>
    IF toMaster = <<>>
    THEN \A z \in Zones :
           mrs.cache[z] = IF rrs.out[z] THEN Master!RUNNING ELSE Master!OFF
    ELSE LastOf(toMaster) = {z \in Zones : rrs.out[z]}

-----------------------------------------------------------------------------

(* The two stations are instances of RunState whose assumptions hold.      *)
LEMMA RemoteAssumptions ==
  Remote!SizesAssumption /\ Remote!StationsAssumption /\ Remote!InputsAssumption
<1>1. Remote!SizesAssumption
  BY MasterRemoteAssumption
     DEF Remote!SizesAssumption, Remote!Quick, MAX_SCHEDULES, INT, BYTE, MILLIS,
         DayMinutes, Days
<1>2. Remote!StationsAssumption
  BY MasterRemoteAssumption
     DEF Remote!StationsAssumption, Stations, ActiveStations, StartZoneOf,
         NumZoneChannels
<1>3. InitialSlots \subseteq
        [nsched : 0 .. MAX_SCHEDULES, slot : [Remote!Slots -> Remote!Schedules]]
  <2> DEFINE s == [enabled |-> FALSE, wadj |-> FALSE, days |-> {}, times |-> {},
                   duration |-> [z \in 0 .. NumZones - 1 |-> 0]]
  <2>1. Remote!Slots = {0} /\ 0 \in 0 .. MAX_SCHEDULES
    BY DEF Remote!Slots, MAX_SCHEDULES
  <2>2. [z \in 0 .. NumZones - 1 |-> 0] \in Remote!Durations
    BY DEF Remote!Durations, Remote!Zones, BYTE
  <2>3. s \in Remote!Schedules
    BY <2>2 DEF Remote!Schedules
  <2>4. InitialSlots = {[nsched |-> 0, slot |-> [i \in {0} |-> s]]}
    BY DEF InitialSlots
  <2> HIDE DEF s
  <2> QED
    BY <2>1, <2>3, <2>4
<1>4. /\ RunMinutes \subseteq 0 .. BYTE - 1
      /\ \A q \in QuickDefs :
           DOMAIN q \subseteq Remote!Zones /\ \A z \in DOMAIN q : q[z] \in 0 .. BYTE - 1
  <2>1. Remote!Zones = 0 .. NumZones - 1 /\ 0 \in 0 .. BYTE - 1
    BY DEF Remote!Zones, BYTE
  <2>2. RunMinutes \subseteq 0 .. BYTE - 1
    BY MasterRemoteAssumption
  <2>3. ASSUME NEW q \in QuickDefs
        PROVE  DOMAIN q \subseteq Remote!Zones /\ \A z \in DOMAIN q : q[z] \in 0 .. BYTE - 1
    <3>1. /\ DOMAIN q \subseteq 0 .. NumZones - 1
          /\ \A z \in DOMAIN q : q[z] \in RunMinutes \cup {0}
      BY MasterRemoteAssumption
    <3> QED
      BY <2>1, <2>2, <3>1
  <2> QED
    BY <2>2, <2>3
<1>5. /\ ScheduleDefs \subseteq Remote!Schedules /\ PauseMinutes \subseteq Nat
      /\ Scales \subseteq Nat
      /\ {EditZones, EditRunningZones, ClockSteps, Reboots} \subseteq BOOLEAN
  BY DEF ScheduleDefs, PauseMinutes, Scales, EditZones, EditRunningZones, ClockSteps,
         Reboots
<1>6. Remote!InputsAssumption
  BY <1>3, <1>4, <1>5 DEF Remote!InputsAssumption
<1> QED
  BY <1>1, <1>2, <1>6

(* ... for the master as for the remote.                                   *)
LEMMA MasterAssumptions ==
  Master!SizesAssumption /\ Master!StationsAssumption /\ Master!InputsAssumption
<1>1. Master!SizesAssumption
  BY MasterRemoteAssumption
     DEF Master!SizesAssumption, Master!Quick, MAX_SCHEDULES, INT, BYTE, MILLIS,
         DayMinutes, Days
<1>2. Master!StationsAssumption
  BY MasterRemoteAssumption
     DEF Master!StationsAssumption, Stations, ActiveStations, StartZoneOf,
         NumZoneChannels
<1>3. InitialSlots \subseteq
        [nsched : 0 .. MAX_SCHEDULES, slot : [Master!Slots -> Master!Schedules]]
  <2> DEFINE s == [enabled |-> FALSE, wadj |-> FALSE, days |-> {}, times |-> {},
                   duration |-> [z \in 0 .. NumZones - 1 |-> 0]]
  <2>1. Master!Slots = {0} /\ 0 \in 0 .. MAX_SCHEDULES
    BY DEF Master!Slots, MAX_SCHEDULES
  <2>2. [z \in 0 .. NumZones - 1 |-> 0] \in Master!Durations
    BY DEF Master!Durations, Master!Zones, BYTE
  <2>3. s \in Master!Schedules
    BY <2>2 DEF Master!Schedules
  <2>4. InitialSlots = {[nsched |-> 0, slot |-> [i \in {0} |-> s]]}
    BY DEF InitialSlots
  <2> HIDE DEF s
  <2> QED
    BY <2>1, <2>3, <2>4
<1>4. /\ RunMinutes \subseteq 0 .. BYTE - 1
      /\ \A q \in QuickDefs :
           DOMAIN q \subseteq Master!Zones /\ \A z \in DOMAIN q : q[z] \in 0 .. BYTE - 1
  <2>1. Master!Zones = 0 .. NumZones - 1 /\ 0 \in 0 .. BYTE - 1
    BY DEF Master!Zones, BYTE
  <2>2. RunMinutes \subseteq 0 .. BYTE - 1
    BY MasterRemoteAssumption
  <2>3. ASSUME NEW q \in QuickDefs
        PROVE  DOMAIN q \subseteq Master!Zones /\ \A z \in DOMAIN q : q[z] \in 0 .. BYTE - 1
    <3>1. /\ DOMAIN q \subseteq 0 .. NumZones - 1
          /\ \A z \in DOMAIN q : q[z] \in RunMinutes \cup {0}
      BY MasterRemoteAssumption
    <3> QED
      BY <2>1, <2>2, <3>1
  <2> QED
    BY <2>2, <2>3
<1>5. /\ ScheduleDefs \subseteq Master!Schedules /\ PauseMinutes \subseteq Nat
      /\ Scales \subseteq Nat
      /\ {EditZones, EditRunningZones, ClockSteps, Reboots} \subseteq BOOLEAN
  BY DEF ScheduleDefs, PauseMinutes, Scales, EditZones, EditRunningZones, ClockSteps,
         Reboots
<1>6. Master!InputsAssumption
  BY <1>3, <1>4, <1>5 DEF Master!InputsAssumption
<1> QED
  BY <1>1, <1>2, <1>6

(* Both have the same zones, all of them the remote's.                     *)
LEMMA ZoneFacts ==
  /\ Zones = 0 .. NumZones - 1 /\ Zones \subseteq Nat
  /\ Master!Zones = Zones /\ Remote!Zones = Zones
  /\ Remote!NoZone \notin Zones /\ Remote!Gap \notin Zones
  /\ \A z \in Zones : /\ Master!StationOf(z) = 1 /\ Master!IsRF(z) /\ ~Remote!IsRF(z)
                      /\ Master!Active(z) /\ Remote!Active(z)
                      /\ Remote!StartsZone(1, z) /\ StartZoneOf[1] + z = z
<1>1. /\ Zones = 0 .. NumZones - 1 /\ Zones \subseteq Nat
      /\ Master!Zones = Zones /\ Remote!Zones = Zones
      /\ Remote!NoZone \notin Zones /\ Remote!Gap \notin Zones
  BY MasterRemoteAssumption DEF Zones, Master!Zones, Remote!Zones, Remote!NoZone, Remote!Gap
<1>2. ASSUME NEW z \in Zones
      PROVE  /\ Master!StationOf(z) = 1 /\ Remote!StationOf(z) = 1
             /\ StartZoneOf[1] + z = z /\ NumZoneChannels[1] = NumZones
  <2>1. 1 \in Stations /\ \A s \in Stations : s = 1
    BY DEF Stations
  <2>2. StartZoneOf[1] = 0 /\ NumZoneChannels[1] = NumZones
    BY <2>1 DEF StartZoneOf, NumZoneChannels
  <2>3. z \in StartZoneOf[1] .. StartZoneOf[1] + NumZoneChannels[1] - 1
    BY <1>1, <2>2, MasterRemoteAssumption
  <2> QED
    BY <1>1, <2>1, <2>2, <2>3 DEF Master!StationOf, Remote!StationOf
<1>3. ASSUME NEW z \in Zones
      PROVE  Remote!StartsZone(1, z)
  BY <1>1, <1>2, <1>3, MasterRemoteAssumption
     DEF Remote!StartsZone, ActiveStations
<1> QED
  BY <1>1, <1>2, <1>3
     DEF Master!IsRF, Remote!IsRF, Master!Active, Remote!Active, Stations, ActiveStations

(* Every valve of the remote is that of the timed zone, and shown as it is. *)
LEMMA RemoteOutputs ==
  ASSUME NEW r, NEW e, Remote!Good(r, e), \A z \in Zones : e.enabled[z]
  PROVE  /\ \A z \in Zones : r.out[z] <=> r.zone = z
         /\ \A z \in Zones : r.cache[z] = IF r.out[z] THEN Remote!RUNNING ELSE Remote!OFF
BY ZoneFacts
   DEF Remote!Good, Remote!OnlyTimed, Remote!Waters, Remote!CacheRight,
       Remote!Switchable, EditZones, EditRunningZones

-----------------------------------------------------------------------------
(* Which steps of the stations the steps of the whole are.                 *)

(* The handlers of the master leave the clock to Tick.                     *)
LEMMA MasterActs ==
  ASSUME MasterHandler
  PROVE  Master!MasterAction /\ clock' = clock /\ late' = late /\ UNCHANGED remote
BY ZoneFacts
   DEF MasterHandler, MasterCommand, MasterSends, Master!MasterAction, Master!Pass,
       Master!WebRunSchedules, Master!WebQuickSchedule, Master!UIHomeConfirm,
       Master!UIManualStart, Master!Processed, Master!Handled, Stations

(* A step of the whole is a step of the master, or leaves it alone.        *)
LEMMA MasterSteps ==
  ASSUME PacketsOK, [Next]_vars
  PROVE  [Master!Next]_(Master!vars)
<1>1. CASE MasterHandler
  BY <1>1, MasterActs, ZoneFacts
     DEF Master!MasterAction, Master!Next, Master!Command
<1>2. CASE Tick \/ ZoneHandlerLoop \/ MasterReboot
  BY <1>2 DEF Tick, ZoneHandlerLoop, MasterReboot, Master!Next, Master!Command
<1>3. CASE MasterReceive
  <2>1. Head(toMaster) \in SUBSET Zones
    BY <1>3 DEF MasterReceive, PacketsOK
  <2>2. Master!ReportStationZonesStatus(1, Head(toMaster)) /\ 1 \in Stations
    BY <1>3 DEF MasterReceive, Stations
  <2> QED
    BY <2>1, <2>2, ZoneFacts DEF Master!Next, Master!Command
<1>4. CASE RemoteReceive
  BY <1>4 DEF RemoteReceive, ReceiveSet, ReceiveRegister, Remote!MessageZonesSet,
     Remote!Processed, Remote!Handled, master, Master!vars
<1>5. CASE RemotePass \/ RemoteReboot \/ RemoteHomeConfirm
  BY <1>5 DEF RemotePass, RemoteReboot, RemoteHomeConfirm, ByHand, Remote!Pass,
     Remote!Reboot, Remote!UIHomeConfirm, Remote!Processed, master, Master!vars
<1>6. CASE \E z \in Zones, m \in RunMinutes : RemoteManualStart(z, m)
  BY <1>6 DEF RemoteManualStart, ByHand, Remote!UIManualStart, Remote!Processed,
     Remote!Handled, master, Master!vars
<1>7. CASE UNCHANGED vars
  BY <1>7 DEF vars, master, Master!vars
<1> QED
  BY <1>1, <1>2, <1>3, <1>4, <1>5, <1>6, <1>7 DEF Next

(* ... and one of the remote, which also obeys run times the master's      *)
(* users did not ask for.                                                  *)
LEMMA RemoteSteps ==
  ASSUME PacketsOK, [Next]_vars
  PROVE  \/ [Remote!Next]_(Remote!vars)
         \/ \E z \in Zones, m \in 0 .. BYTE - 1 : Remote!MessageZonesSet(1, z, m)
<1>1. CASE MasterHandler
  BY <1>1, MasterActs DEF remote, Remote!vars
<1>2. CASE Tick \/ ZoneHandlerLoop \/ RemotePass \/ RemoteReboot \/ RemoteHomeConfirm
  BY <1>2 DEF Tick, ZoneHandlerLoop, RemotePass, RemoteReboot, RemoteHomeConfirm,
     Remote!Next, Remote!Command
<1>3. CASE MasterReceive \/ MasterReboot
  BY <1>3 DEF MasterReceive, MasterReboot, Master!ReportStationZonesStatus,
     Master!Handled, Master!Reboot, remote, Remote!vars
<1>4. CASE RemoteReceive
  <2>1. Head(toRemote) \in Packets
    BY <1>4 DEF RemoteReceive, PacketsOK
  <2>2. CASE ReceiveSet(Head(toRemote))
    <3>1. Head(toRemote).zone \in Zones /\ Head(toRemote).ttr \in 0 .. BYTE - 1
      BY <2>1, <2>2 DEF ReceiveSet, Packets, Register
    <3> QED
      BY <2>2, <3>1 DEF ReceiveSet
  <2>3. CASE ReceiveRegister(Head(toRemote))
    BY <2>3 DEF ReceiveRegister, Remote!vars
  <2> QED
    BY <1>4, <2>2, <2>3 DEF RemoteReceive
<1>5. CASE \E z \in Zones, m \in RunMinutes : RemoteManualStart(z, m)
  <2>1. PICK z \in Zones, m \in RunMinutes : Remote!UIManualStart(1, z, m)
    BY <1>5 DEF RemoteManualStart
  <2>2. 1 \in Stations
    BY DEF Stations
  <2> QED
    BY <2>1, <2>2, ZoneFacts DEF Remote!Next, Remote!Command
<1>6. CASE UNCHANGED vars
  BY <1>6 DEF vars, remote, Remote!vars
<1> QED
  BY <1>1, <1>2, <1>3, <1>4, <1>5, <1>6 DEF Next

(* No command of either station stores a schedule or disables a zone.      *)
LEMMA EepromsKept ==
  ASSUME StationsOK, PacketsOK, [Next]_vars
  PROVE  /\ mee'.nsched = 0 /\ ree'.nsched = 0
         /\ \A z \in Zones : mee'.enabled[z] /\ ree'.enabled[z]
         /\ ~RemoteHomeConfirm => ree' = ree
<1>1. mee \in Master!Eeproms /\ ree \in Remote!Eeproms
  BY DEF StationsOK, Master!Inv, Master!TypeOK, Remote!Inv, Remote!TypeOK
<1>2. mee' = mee \/ \E on : mee' = [mee EXCEPT !.run = on]
  <2>1. CASE MasterHandler
    <3>1. Master!MasterAction
      BY <2>1, MasterActs
    <3> QED
      BY <3>1 DEF Master!MasterAction, Master!Pass, Master!WebRunSchedules,
         Master!WebQuickSchedule, Master!UIHomeConfirm, Master!UIManualStart
  <2>2. CASE ~MasterHandler
    BY <2>2 DEF Next, Tick, ZoneHandlerLoop, MasterReboot, MasterReceive, RemoteReceive,
       RemotePass, RemoteReboot, RemoteManualStart, RemoteHomeConfirm, ByHand, vars,
       master, Master!Tick, Master!ZoneHandlerLoop, Master!Reboot,
       Master!ReportStationZonesStatus
  <2> QED
    BY <2>1, <2>2
<1>3. ~RemoteHomeConfirm => ree' = ree
  <2>1. CASE MasterHandler
    BY <2>1, MasterActs DEF remote
  <2>2. CASE ~MasterHandler
    BY <2>2 DEF Next, Tick, ZoneHandlerLoop, MasterReboot, MasterReceive, RemoteReceive,
       ReceiveSet, ReceiveRegister, RemotePass, RemoteReboot, RemoteManualStart, vars,
       remote, Remote!Tick, Remote!ZoneHandlerLoop, Remote!Reboot, Remote!Pass,
       Remote!UIManualStart, Remote!MessageZonesSet
  <2> QED
    BY <2>1, <2>2
<1>4. RemoteHomeConfirm => \E on : ree' = [ree EXCEPT !.run = on]
  BY DEF RemoteHomeConfirm, Remote!UIHomeConfirm
<1>5. /\ mee'.nsched = mee.nsched /\ mee'.enabled = mee.enabled
      /\ ree'.nsched = ree.nsched /\ ree'.enabled = ree.enabled
  BY <1>1, <1>2, <1>3, <1>4 DEF Master!Eeproms, Remote!Eeproms
<1> QED
  BY <1>3, <1>5 DEF StationsOK

(* The master's step: what it asks for is what users may ask for.          *)
LEMMA ErrandKept ==
  ASSUME StationsOK, PacketsOK, [Next]_vars
  PROVE  Master!Errand(mrs', RunMinutes)
<1> USE MasterAssumptions
<1>0. Master!Inv /\ Master!Errand(mrs, RunMinutes)
  BY DEF StationsOK
<1>1. CASE MasterHandler
  <2>1. Master!Far(mee) /\ mee.nsched = 0
    BY ZoneFacts DEF StationsOK, Master!Far, Master!Switchable
  <2>2. \A q \in QuickDefs : \A z \in DOMAIN q : q[z] \in RunMinutes \cup {0}
    BY MasterRemoteAssumption
  <2> QED
    BY <1>0, <1>1, <2>1, <2>2, MasterActs, Master!MasterTells
<1>2. CASE Tick
  <2>1. /\ mrs'.sched = mrs.sched /\ mrs'.zone = mrs.zone /\ mrs'.next = mrs.next
        /\ mrs'.mins = mrs.mins /\ mrs'.quick = mrs.quick /\ mrs'.sent = <<>>
    BY <1>0, <1>2, Master!TickRun DEF Tick
  <2> QED
    BY <1>0, <2>1 DEF Master!Errand, Master!Orders
<1>3. CASE ZoneHandlerLoop \/ MasterReceive
  <2>1. Master!SameRun(mrs, mrs') /\ mrs'.next = mrs.next /\ mrs'.sent = <<>>
    BY <1>0, <1>3, Master!CacheRun DEF ZoneHandlerLoop, MasterReceive
  <2> QED
    BY <1>0, <2>1 DEF Master!Errand, Master!Orders, Master!SameRun
<1>4. CASE MasterReboot
  <2>1. Master!Idle(mrs') /\ mrs'.sent = <<>> /\ \A z \in Zones : mrs'.quick[z] = 0
    BY <1>4, Master!RebootRun, ZoneFacts DEF MasterReboot
  <2>2. Master!NoZone \notin Zones /\ Master!NoZone # Master!Gap
    BY ZoneFacts DEF Master!NoZone, Master!Gap, Remote!NoZone
  <2>3. \A z \in Master!Zones : mrs'.quick[z] = 0
    BY <2>1, ZoneFacts
  <2>4. DOMAIN mrs'.sent = {}
    BY <2>1
  <2>5. Master!Orders(mrs', RunMinutes)
    BY <2>1, <2>3, <2>4 DEF Master!Orders, Master!Idle
  <2> QED
    BY <2>1, <2>2, <2>5, ZoneFacts DEF Master!Errand, Master!Idle
<1>5. CASE mrs' = mrs
  BY <1>0, <1>5
<1> QED
  BY <1>1, <1>2, <1>3, <1>4, <1>5
     DEF Next, RemoteReceive, RemotePass, RemoteReboot, RemoteManualStart,
         RemoteHomeConfirm, ByHand, vars, master

(* The remote's step: a single run, and none while it is disabled.         *)
LEMMA SingleKept ==
  ASSUME StationsOK, PacketsOK, [Next]_vars
  PROVE  Remote!Single(rrs') /\ (~ree'.run => Remote!Idle(rrs'))
<1> USE RemoteAssumptions
<1>0. /\ Remote!Inv /\ Remote!Single(rrs) /\ (~ree.run => Remote!Idle(rrs))
      /\ ree.nsched = 0
  BY DEF StationsOK
<1>00. ~RemoteHomeConfirm => ree' = ree
  BY EepromsKept
<1>1. CASE RemoteHomeConfirm
  BY <1>0, <1>1, Remote!HomeConfirmSingle DEF RemoteHomeConfirm
<1>2. CASE RemotePass
  <2>1. ree' = ree
    BY <1>2 DEF RemotePass, Remote!Pass
  <2> QED
    BY <1>0, <1>2, <2>1, Remote!PassSingle DEF RemotePass
<1>3. CASE ~RemoteHomeConfirm /\ \E z \in Zones, m \in RunMinutes : RemoteManualStart(z, m)
  <2>1. PICK z \in Zones, m \in RunMinutes : Remote!UIManualStart(1, z, m)
    BY <1>3 DEF RemoteManualStart
  <2>2. m \in 0 .. BYTE - 1
    BY MasterRemoteAssumption
  <2> QED
    BY <1>0, <1>00, <1>3, <2>1, <2>2, Remote!ManualStartSingle
<1>4. CASE ~RemoteHomeConfirm /\ \E z \in Zones, m \in 0 .. BYTE - 1 : Remote!MessageZonesSet(1, z, m)
  <2>1. PICK z \in Zones, m \in 0 .. BYTE - 1 : Remote!MessageZonesSet(1, z, m)
    BY <1>4
  <2>2. Remote!StartsZone(1, z)
    BY ZoneFacts
  <2> QED
    BY <1>0, <1>00, <1>4, <2>1, <2>2, Remote!ZonesSetSingle
<1>5. CASE Tick \/ ZoneHandlerLoop
  <2>1. /\ rrs'.sched = rrs.sched /\ rrs'.zone = rrs.zone /\ rrs'.quick = rrs.quick
        /\ ree' = ree
    BY <1>0, <1>5, Remote!TickRun, Remote!CacheRun
       DEF Tick, ZoneHandlerLoop, Remote!SameRun, Remote!Tick, Remote!ZoneHandlerLoop
  <2> QED
    BY <1>0, <2>1 DEF Remote!Single, Remote!Idle
<1>6. CASE RemoteReboot
  BY <1>6, Remote!RebootRun DEF RemoteReboot, Remote!Single, Remote!Idle
<1>7. CASE rrs' = rrs /\ ree' = ree
  BY <1>0, <1>7
<1>8. CASE RemoteReceive /\ ~RemoteHomeConfirm
  <2>1. CASE ReceiveSet(Head(toRemote))
    <3>1. Head(toRemote) \in Packets
      BY <1>8 DEF RemoteReceive, PacketsOK
    <3>2. Head(toRemote).zone \in Zones /\ Head(toRemote).ttr \in 0 .. BYTE - 1
      BY <2>1, <3>1 DEF ReceiveSet, Packets, Register
    <3> QED
      BY <1>4, <1>8, <2>1, <3>2 DEF ReceiveSet
  <2>2. CASE ReceiveRegister(Head(toRemote))
    BY <1>7, <2>2 DEF ReceiveRegister
  <2> QED
    BY <1>8, <2>1, <2>2 DEF RemoteReceive
<1>9. CASE MasterHandler \/ MasterReboot \/ MasterReceive \/ UNCHANGED vars
  <2>1. rrs' = rrs /\ ree' = ree
    BY <1>9, MasterActs DEF MasterReboot, MasterReceive, vars, remote
  <2> QED
    BY <1>7, <2>1
<1> QED
  BY <1>1, <1>2, <1>3, <1>5, <1>6, <1>8, <1>9 DEF Next

(* Each station keeps the invariant it has alone, and more.                *)
LEMMA StationsNext ==
  ASSUME StationsOK, PacketsOK, [Next]_vars
  PROVE  StationsOK'
<1> USE MasterAssumptions, RemoteAssumptions
<1>1. Master!Inv'
  BY MasterSteps, Master!NextInv DEF StationsOK
<1>2. Remote!Inv'
  BY RemoteSteps, Remote!NextInv, Remote!MessageZonesSetInv DEF StationsOK
<1> QED
  BY <1>1, <1>2, EepromsKept, ErrandKept, SingleKept DEF StationsOK

-----------------------------------------------------------------------------
(* The packets of a handler.                                               *)

(* A handler asks for finitely many zones.                                 *)
LEMMA RequestedFinite ==
  ASSUME NEW sent \in Seq(Master!Requests)
  PROVE  IsFiniteSet(Requested(sent)) /\ Cardinality(Requested(sent)) \in Nat
<1>1. DOMAIN sent = 1 .. Len(sent) /\ Len(sent) \in Nat
  OBVIOUS
<1>2. IsFiniteSet(DOMAIN sent) /\ IsFiniteSet(Zones)
  BY <1>1, ZoneFacts, MasterRemoteAssumption, FS_Interval
<1>3. IsFiniteSet((DOMAIN sent) \X Zones)
  BY <1>2, FS_Product
<1>4. IsFiniteSet(Requested(sent))
  <2>1. Requested(sent) \in SUBSET ((DOMAIN sent) \X Zones)
    BY DEF Requested
  <2> QED
    BY <1>3, <2>1, FS_Subset
<1> QED
  BY <1>4, FS_CardinalityType

(* Whatever gets through was asked for.                                    *)
LEMMA TransmitType ==
  ASSUME NEW sent \in Seq(Master!Requests), NEW s \in Transmit(sent)
  PROVE  /\ s \in Seq(Packets) /\ Len(s) \in 0 .. Cardinality(Requested(sent))
         /\ \A i \in DOMAIN s :
              s[i].kind = "ZONES_SET" /\ \E j \in DOMAIN sent : s[i].ttr = sent[j].ttr
<1> DEFINE P == Requested(sent)
<1>1. PICK n \in 0 .. Cardinality(P) :
        \E f \in InOrder(P, n) : s = [i \in 1 .. n |-> Set(f[i][2], sent[f[i][1]].ttr)]
  BY DEF Transmit
<1>2. PICK f \in InOrder(P, n) : s = [i \in 1 .. n |-> Set(f[i][2], sent[f[i][1]].ttr)]
  BY <1>1
<1>3. n \in Nat
  BY RequestedFinite
<1>4. ASSUME NEW i \in 1 .. n
      PROVE  /\ f[i][1] \in DOMAIN sent /\ f[i][2] \in Zones
             /\ sent[f[i][1]].ttr \in 0 .. BYTE - 1
  <2>1. f[i] \in P
    BY DEF InOrder
  <2>2. f[i][1] \in DOMAIN sent /\ f[i][2] \in Zones
    BY <2>1 DEF Requested
  <2>3. sent[f[i][1]] \in Master!Requests
    BY <2>2
  <2> QED
    BY <2>2, <2>3 DEF Master!Requests
<1>5. ASSUME NEW i \in 1 .. n
      PROVE  /\ s[i] \in Packets /\ s[i].kind = "ZONES_SET"
             /\ s[i].ttr = sent[f[i][1]].ttr
  BY <1>2, <1>4 DEF Set, Packets
<1>6. s \in [1 .. n -> Packets]
  BY <1>2, <1>5
<1>7. s \in Seq(Packets) /\ Len(s) = n /\ DOMAIN s = 1 .. n
  BY <1>3, <1>6
<1> QED
  BY <1>4, <1>5, <1>7

(* If nothing is lost the last packet is one of the last request.          *)
LEMMA TransmitAll ==
  ASSUME NEW sent \in Seq(Master!Requests), NEW s \in Transmit(sent),
         sent # <<>>, sent[Len(sent)].zones # {}, Len(s) = Cardinality(Requested(sent))
  PROVE  /\ s # <<>> /\ LastOf(s).kind = "ZONES_SET"
         /\ LastOf(s).zone \in sent[Len(sent)].zones
         /\ LastOf(s).ttr = sent[Len(sent)].ttr
<1> DEFINE P == Requested(sent)
           m == Len(sent)
<1>1. m \in Nat /\ m # 0 /\ DOMAIN sent = 1 .. m /\ sent[m] \in Master!Requests
  OBVIOUS
<1>2. PICK z \in sent[m].zones : z \in Zones
  BY <1>1, ZoneFacts DEF Master!Requests
<1>3. <<m, z>> \in P
  BY <1>1, <1>2 DEF Requested
<1>4. PICK n \in 0 .. Cardinality(P) :
        \E f \in InOrder(P, n) : s = [i \in 1 .. n |-> Set(f[i][2], sent[f[i][1]].ttr)]
  BY DEF Transmit
<1>5. PICK f \in InOrder(P, n) : s = [i \in 1 .. n |-> Set(f[i][2], sent[f[i][1]].ttr)]
  BY <1>4
<1>6. IsFiniteSet(P) /\ Cardinality(P) \in Nat /\ n \in Nat
  BY RequestedFinite
<1>7. Len(s) = n /\ n = Cardinality(P)
  BY <1>5, <1>6
<1>8. f \in Injection(1 .. n, P)
  <2>1. f \in [1 .. n -> P]
    BY DEF InOrder
  <2>2. ASSUME NEW i \in 1 .. n, NEW j \in 1 .. n, i < j PROVE f[i] # f[j]
    <3>1. Precedes(f[i], f[j])
      BY <2>2 DEF InOrder
    <3>2. f[i][1] \in Nat /\ f[i][2] \in Nat
      BY <1>1, <2>1, ZoneFacts DEF Requested
    <3> QED
      BY <3>1, <3>2 DEF Precedes
  <2>3. \A i, j \in 1 .. n : f[i] = f[j] => i = j
    BY <1>6, <2>2
  <2> QED
    BY <2>1, <2>3 DEF Injection, IsInjective
<1>9. f \in Surjection(1 .. n, P)
  <2>1. Cardinality(1 .. n) = n
    <3>1. 1 \in Int /\ n \in Int
      BY <1>6
    <3>2. Cardinality(1 .. n) = IF 1 > n THEN 0 ELSE n - 1 + 1
      BY <3>1, FS_Interval, Zenon
    <3> QED
      BY <1>6, <3>2
  <2> DEFINE S == 1 .. n
  <2>2. Cardinality(S) = Cardinality(P) /\ f \in Injection(S, P)
    BY <1>7, <1>8, <2>1
  <2> HIDE DEF P, S
  <2>3. f \in Surjection(S, P)
    BY <1>6, <2>2, FS_Injection
  <2> QED
    BY <2>3 DEF S
<1>10. PICK k \in 1 .. n : f[k] = <<m, z>>
  BY <1>3, <1>9 DEF Surjection
<1>11. n \in 1 .. n
  BY <1>6, <1>10
<1>12. f[n][1] = m
  <2>1. f[n] \in P /\ f[n][1] \in 1 .. m
    BY <1>1, <1>11 DEF InOrder, Requested
  <2>2. CASE k = n
    BY <1>10, <2>2
  <2>3. CASE k # n
    <3>1. Precedes(f[k], f[n])
      BY <1>6, <1>10, <1>11, <2>3 DEF InOrder
    <3> QED
      BY <1>1, <1>10, <2>1, <3>1 DEF Precedes
  <2> QED
    BY <2>2, <2>3
<1>13. f[n][2] \in sent[m].zones
  BY <1>11, <1>12 DEF InOrder, Requested
<1>14. LastOf(s) = Set(f[n][2], sent[m].ttr)
  BY <1>5, <1>7, <1>11, <1>12 DEF LastOf
<1>15. s # <<>>
  BY <1>7, <1>11
<1> QED
  BY <1>13, <1>14, <1>15 DEF Set

(* A handler that asks for nothing sends nothing.                          *)
LEMMA TransmitNothing ==
  ASSUME NEW s \in Transmit(<<>>)
  PROVE  s = <<>>
<1>1. <<>> \in Seq(Master!Requests) /\ Requested(<<>>) = {}
  BY DEF Requested
<1>2. Cardinality(Requested(<<>>)) = 0
  BY <1>1, FS_EmptySet
<1>3. s \in Seq(Packets) /\ Len(s) \in 0 .. 0
  BY <1>1, <1>2, TransmitType
<1> QED
  BY <1>3

-----------------------------------------------------------------------------
(* However disturbed the two are.                                          *)

(* There is a longest run time.                                            *)
LEMMA LongestIsLongest ==
  LongestRun \in RunMinutes /\ LongestRun \in Nat /\ \A m \in RunMinutes : m <= LongestRun
<1> DEFINE Z == {BYTE - m : m \in RunMinutes}
<1>1. RunMinutes \subseteq 0 .. BYTE - 1 /\ RunMinutes # {} /\ BYTE \in Nat
  BY MasterRemoteAssumption DEF BYTE
<1>2. Z \subseteq Nat /\ Z # {}
  <2>1. ASSUME NEW m \in RunMinutes PROVE BYTE - m \in Nat
    <3>1. m \in 0 .. BYTE - 1
      BY <1>1
    <3> QED
      BY <1>1, <3>1
  <2>2. Z \subseteq Nat
    BY <2>1
  <2>3. Z # {}
    BY <1>1
  <2> QED
    BY <2>2, <2>3
<1> HIDE DEF Z
<1>3. PICK y \in Z : \A x \in Z : y <= x
  BY <1>2, RemoteAssumptions, Remote!MinExists
<1> USE DEF Z
<1>4. PICK m \in RunMinutes : y = BYTE - m
  BY <1>3
<1>5. ASSUME NEW n \in RunMinutes PROVE n <= m
  <2>1. y <= BYTE - n
    BY <1>3
  <2>2. m \in Nat /\ n \in Nat
    BY <1>1
  <2> QED
    BY <1>1, <1>4, <2>1, <2>2
<1> HIDE DEF Z
<1>6. \E n \in RunMinutes : \A k \in RunMinutes : k <= n
  BY <1>5
<1>7. LongestRun \in RunMinutes /\ \A k \in RunMinutes : k <= LongestRun
  BY <1>6, Zenon DEF LongestRun
<1>8. LongestRun \in Nat
  BY <1>1, <1>7
<1> QED
  BY <1>7, <1>8

(* A packet is put into, or taken from, a queue of its kind.               *)
LEMMA QueueTypes ==
  ASSUME NEW S, NEW s \in Seq(S)
  PROVE  /\ \A x \in S : Append(s, x) \in Seq(S)
         /\ s # <<>> => Tail(s) \in Seq(S) /\ Head(s) \in S
         /\ s # <<>> => \A i \in DOMAIN Tail(s) : i + 1 \in DOMAIN s /\ Tail(s)[i] = s[i + 1]
<1>1. \A x \in S : Append(s, x) \in Seq(S)
  OBVIOUS
<1>2. ASSUME s # <<>> PROVE Tail(s) \in Seq(S) /\ Head(s) \in S
  BY <1>2
<1>3. ASSUME s # <<>>, NEW i \in DOMAIN Tail(s)
      PROVE  i + 1 \in DOMAIN s /\ Tail(s)[i] = s[i + 1]
  <2>1. Len(s) \in Nat /\ Len(Tail(s)) = Len(s) - 1 /\ DOMAIN s = 1 .. Len(s)
    BY <1>3
  <2>2. Tail(s) \in Seq(S)
    BY <1>2, <1>3
  <2>3. DOMAIN Tail(s) = 1 .. Len(Tail(s))
    BY <2>2
  <2>4. i \in 1 .. Len(s) - 1
    BY <1>3, <2>1, <2>3
  <2> QED
    BY <1>3, <2>1, <2>4
<1> QED
  BY <1>1, <1>2, <1>3

(* What is on its way is well-formed, and requests to start are recent.    *)
LEMMA RequestsNext ==
  ASSUME Sound, StationsOK', [Next]_vars
  PROVE  PacketsOK' /\ RequestsAreAsked'
<1>0. /\ toRemote \in Seq(Packets) /\ toMaster \in Seq(SUBSET Zones)
      /\ disturbed \in BOOLEAN /\ unasked \in Nat /\ RequestsAreAsked
  BY DEF Sound, PacketsOK
<1>1. ASSUME NEW r, NEW Z \in SUBSET Zones, NEW commands, NEW disturbing,
             Report(ReportOf(r, Z), commands, disturbing)
      PROVE  toMaster' \in Seq(SUBSET Zones) /\ disturbed' \in BOOLEAN
  <2>1. ReportOf(r, Z) \in SUBSET Zones
    BY DEF ReportOf
  <2>2. Append(toMaster, ReportOf(r, Z)) \in Seq(SUBSET Zones)
    BY <1>0, <2>1, QueueTypes
  <2> QED
    BY <1>0, <1>1, <2>2 DEF Report, Happen
<1>2. CASE MasterHandler
  <2>1. PICK commands : MasterSends(commands)
    BY <1>2 DEF MasterHandler
  <2>2. mrs'.sent \in Seq(Master!Requests) /\ Master!Errand(mrs', RunMinutes)
    BY DEF StationsOK, Master!Inv, Master!TypeOK, Master!RunStates
  <2>3. /\ toRemote' \in Transmit(mrs'.sent) /\ toMaster' = toMaster
        /\ disturbed' \in BOOLEAN
        /\ unasked' = IF SomeoneAsks(mrs') THEN 0 ELSE unasked
    BY <1>0, <2>1 DEF MasterSends, Happen
  <2>4. /\ toRemote' \in Seq(Packets)
        /\ \A i \in DOMAIN toRemote' : \E j \in DOMAIN mrs'.sent : toRemote'[i].ttr = mrs'.sent[j].ttr
    BY <2>2, <2>3, TransmitType
  <2>5. ASSUME NEW i \in DOMAIN toRemote', toRemote'[i].ttr # 0
        PROVE  unasked' = 0 /\ toRemote'[i].ttr \in RunMinutes
    <3>1. PICK j \in DOMAIN mrs'.sent : toRemote'[i].ttr = mrs'.sent[j].ttr
      BY <2>4
    <3>2. SomeoneAsks(mrs')
      BY <2>5, <3>1 DEF SomeoneAsks
    <3>3. mrs'.sent[j].ttr \in RunMinutes \cup {0}
      BY <2>2 DEF Master!Errand, Master!Orders
    <3> QED
      BY <2>3, <2>5, <3>1, <3>2, <3>3
  <2>6. unasked' \in Nat
    BY <1>0, <2>3
  <2> QED
    BY <1>0, <2>3, <2>4, <2>5, <2>6 DEF PacketsOK, RequestsAreAsked
<1>3. CASE MasterReboot \/ RemoteReboot
  <2>1. toRemote' \in {<<>>, <<Register>>} /\ toMaster' \in {<<>>, toMaster}
        /\ disturbed' \in BOOLEAN /\ unasked' = unasked
    BY <1>0, <1>3 DEF MasterReboot, RemoteReboot, Happen
  <2>2. /\ <<>> \in Seq(Packets) /\ <<Register>> \in Seq(Packets)
        /\ <<>> \in Seq(SUBSET Zones)
    BY DEF Packets
  <2>3. PacketsOK'
    BY <1>0, <2>1, <2>2 DEF PacketsOK
  <2>4. RequestsAreAsked'
    BY <2>1 DEF RequestsAreAsked, Register
  <2> QED
    BY <2>3, <2>4
<1>4. CASE MasterReceive
  <2>1. toRemote' = toRemote /\ toMaster' = Tail(toMaster) /\ toMaster # <<>>
        /\ disturbed' = disturbed /\ unasked' = unasked
    BY <1>4 DEF MasterReceive, history
  <2>2. Tail(toMaster) \in Seq(SUBSET Zones)
    BY <1>0, <2>1, QueueTypes
  <2> QED
    BY <1>0, <2>1, <2>2 DEF PacketsOK, RequestsAreAsked
<1>5. CASE RemoteReceive
  <2>1. toRemote' = Tail(toRemote) /\ toRemote # <<>> /\ unasked' = unasked
    BY <1>5 DEF RemoteReceive
  <2>2. /\ Tail(toRemote) \in Seq(Packets) /\ Head(toRemote) \in Packets
        /\ \A i \in DOMAIN Tail(toRemote) :
             i + 1 \in DOMAIN toRemote /\ Tail(toRemote)[i] = toRemote[i + 1]
    BY <1>0, <2>1, QueueTypes
  <2>3. RequestsAreAsked'
    BY <1>0, <2>1, <2>2 DEF RequestsAreAsked
  <2>4. CASE ReceiveSet(Head(toRemote))
    <3>1. {Head(toRemote).zone} \in SUBSET Zones
      BY <2>2, <2>4 DEF ReceiveSet, Packets, Register
    <3>2. Report(ReportOf(rrs', {Head(toRemote).zone}), 0, FALSE)
      BY <2>4 DEF ReceiveSet
    <3>3. toMaster' \in Seq(SUBSET Zones) /\ disturbed' \in BOOLEAN
      BY <1>1, <3>1, <3>2
    <3> QED
      BY <1>0, <2>1, <2>2, <2>3, <3>3 DEF PacketsOK
  <2>5. CASE ReceiveRegister(Head(toRemote))
    BY <1>0, <2>1, <2>2, <2>3, <2>5 DEF PacketsOK, ReceiveRegister
  <2> QED
    BY <1>5, <2>4, <2>5 DEF RemoteReceive
<1>6. ASSUME NEW reports, ByHand(reports) PROVE PacketsOK' /\ RequestsAreAsked'
  <2>1. toRemote' = toRemote /\ unasked' = 0
    BY <1>6 DEF ByHand
  <2>2. Zones \in SUBSET Zones
    OBVIOUS
  <2>3. toMaster' \in Seq(SUBSET Zones) /\ disturbed' \in BOOLEAN
    <3>1. CASE registered /\ reports
      BY <1>1, <1>6, <2>2, <3>1 DEF ByHand
    <3>2. CASE ~(registered /\ reports)
      BY <1>0, <1>6, <3>2 DEF ByHand, Happen
    <3> QED
      BY <3>1, <3>2
  <2> QED
    BY <1>0, <2>1, <2>3 DEF PacketsOK, RequestsAreAsked
<1>7. CASE Tick
  <2>1. /\ toRemote = <<>> /\ toRemote' = toRemote /\ toMaster' = toMaster
        /\ disturbed' = disturbed /\ unasked' \in {0, unasked + 1}
    BY <1>7 DEF Tick
  <2>2. DOMAIN toRemote' = {} /\ unasked' \in Nat
    BY <1>0, <2>1
  <2> QED
    BY <1>0, <2>1, <2>2 DEF PacketsOK, RequestsAreAsked
<1>8. CASE ZoneHandlerLoop \/ RemotePass \/ UNCHANGED vars
  BY <1>0, <1>8 DEF ZoneHandlerLoop, RemotePass, history, vars, PacketsOK, RequestsAreAsked
<1> QED
  BY <1>2, <1>3, <1>4, <1>5, <1>6, <1>7, <1>8
     DEF Next, RemoteManualStart, RemoteHomeConfirm

(* A longer time takes no fewer ticks.                                     *)
LEMMA TimesMonotone ==
  ASSUME NEW a \in Nat, NEW b \in Nat, NEW c \in Nat, a <= b
  PROVE  a * c <= b * c /\ a * c \in Nat /\ b * c \in Nat
<1>1. PICK d \in Nat : b = a + d
  <2>1. b - a \in Nat /\ b = a + (b - a)
    OBVIOUS
  <2> QED
    BY <2>1
<1>2. (a + d) * c = a * c + d * c /\ d * c \in Nat /\ a * c \in Nat
  OBVIOUS
<1> QED
  BY <1>1, <1>2

(* Nobody has been silent for longer than the remote's timer has run.      *)
LEMMA TimerNext ==
  ASSUME Sound, StationsOK', PacketsOK', [Next]_vars
  PROVE  TimerCovers'
<1> USE RemoteAssumptions
<1>00. PacketsOK /\ RequestsAreAsked /\ TimerCovers /\ unasked \in Nat /\ unasked' \in Nat
  BY DEF Sound, PacketsOK
<1>0. Remote!Inv /\ Remote!Single(rrs) /\ ree.nsched = 0
  BY DEF Sound, StationsOK
<1>1. rrs.age \in Nat /\ rrs'.age \in Nat /\ rrs.mins \in Nat /\ rrs'.mins \in Nat
  <2>1. rrs \in Remote!RunStates /\ rrs' \in Remote!RunStates
    BY DEF Sound, StationsOK, Remote!Inv, Remote!TypeOK
  <2>2. rrs.age \in Nat /\ rrs'.age \in Nat
    BY <2>1 DEF Remote!RunStates
  <2>3. rrs.mins \in 0 .. BYTE - 1 /\ rrs'.mins \in 0 .. BYTE - 1
    BY <2>1 DEF Remote!RunStates
  <2>4. \A n \in 0 .. BYTE - 1 : n \in Nat
    BY DEF BYTE
  <2> QED
    BY <2>2, <2>3, <2>4
<1>2. ASSUME Remote!Idle(rrs') PROVE TimerCovers'
  BY <1>2, ZoneFacts DEF TimerCovers, Remote!Idle
<1>3. ASSUME Remote!SameRun(rrs, rrs') \/ rrs' = rrs, unasked' \in {0, unasked}
      PROVE  TimerCovers'
  <2>1. rrs'.zone = rrs.zone /\ rrs'.age = rrs.age /\ rrs'.mins = rrs.mins
    BY <1>3 DEF Remote!SameRun
  <2>2. unasked' <= unasked
    BY <1>00, <1>3
  <2>3. ASSUME rrs.zone \in Zones PROVE unasked' <= rrs.age
    <3>1. unasked <= rrs.age
      BY <1>00, <2>3 DEF TimerCovers
    <3> QED
      BY <1>00, <1>1, <2>2, <3>1
  <2> QED
    BY <1>00, <2>1, <2>3 DEF TimerCovers
<1>4. CASE MasterHandler
  <2>1. unasked' \in {0, unasked}
    BY <1>4 DEF MasterHandler, MasterSends
  <2> QED
    BY <1>3, <1>4, <2>1, MasterActs DEF remote
<1>5. CASE MasterReboot \/ MasterReceive \/ UNCHANGED vars
  BY <1>3, <1>5 DEF MasterReboot, MasterReceive, vars, remote, history
<1>6. CASE RemoteReceive /\ ReceiveSet(Head(toRemote))
  <2> DEFINE z == Head(toRemote).zone
             m == Head(toRemote).ttr
  <2>1. /\ toRemote # <<>> /\ unasked' = unasked
        /\ Remote!MessageZonesSet(1, z, m) /\ Head(toRemote).kind = "ZONES_SET"
    BY <1>6 DEF RemoteReceive, ReceiveSet
  <2>2. z \in Zones /\ m \in 0 .. BYTE - 1
    <3>1. Head(toRemote) \in Packets
      BY <1>00, <2>1 DEF PacketsOK
    <3> QED
      BY <2>1, <3>1 DEF Packets, Register
  <2>3. Remote!StartsZone(1, z)
    BY <2>2, ZoneFacts
  <2> HIDE DEF z, m
  <2>4. m = 0 => Remote!Idle(rrs')
    BY <1>0, <2>1, <2>2, <2>3, Remote!ZonesSetSingle
  <2>7. Remote!Idle(rrs') \/ (rrs'.age = 0 /\ rrs'.mins = (m + 1) % BYTE)
    BY <1>0, <2>1, <2>2, <2>3, Remote!ZonesSetSingle
  <2>5. CASE Remote!Idle(rrs')
    BY <1>2, <2>5
  <2>6. CASE ~Remote!Idle(rrs')
    <3>1. unasked = 0 /\ m \in RunMinutes
      <4>1. 1 \in DOMAIN toRemote /\ toRemote[1] = Head(toRemote)
        BY <1>00, <2>1 DEF PacketsOK
      <4> QED
        BY <1>00, <2>1, <2>4, <2>6, <4>1 DEF RequestsAreAsked, m
    <3>2. m <= LongestRun /\ LongestRun \in Nat
      BY <3>1, LongestIsLongest
    <3>3. rrs'.age = 0 /\ rrs'.mins = (m + 1) % BYTE
      BY <2>6, <2>7
    <3>4. (m + 1) % BYTE <= m + 1 /\ m \in Nat
      BY <2>2 DEF BYTE
    <3>5. rrs'.mins <= LongestRun + 1
      BY <1>1, <3>2, <3>3, <3>4
    <3> QED
      BY <2>1, <3>1, <3>3, <3>5 DEF TimerCovers
  <2> QED
    BY <2>5, <2>6
<1>7. CASE RemoteReceive /\ ReceiveRegister(Head(toRemote))
  BY <1>3, <1>7 DEF RemoteReceive, ReceiveRegister
<1>8. CASE RemotePass
  BY <1>0, <1>2, <1>3, <1>8, Remote!PassSingle DEF RemotePass, history
<1>9. CASE \E z \in Zones, m \in RunMinutes : RemoteManualStart(z, m)
  <2>1. PICK z \in Zones, m \in RunMinutes : Remote!UIManualStart(1, z, m) /\ unasked' = 0
    BY <1>9 DEF RemoteManualStart, ByHand
  <2>2. m \in 0 .. BYTE - 1 /\ m \in Nat /\ m <= LongestRun /\ LongestRun \in Nat
    BY MasterRemoteAssumption, LongestIsLongest DEF BYTE
  <2>3. \/ Remote!Idle(rrs') \/ Remote!SameRun(rrs, rrs')
        \/ rrs'.zone \in Zones /\ rrs'.age = 0 /\ rrs'.mins = m
    BY <1>0, <2>1, <2>2, ZoneFacts, Remote!ManualStartSingle
  <2>4. CASE rrs'.age = 0 /\ rrs'.mins = m
    BY <2>1, <2>2, <2>4 DEF TimerCovers
  <2> QED
    BY <1>2, <1>3, <2>1, <2>3, <2>4
<1>10. CASE RemoteHomeConfirm
  BY <1>0, <1>2, <1>3, <1>10, Remote!HomeConfirmSingle DEF RemoteHomeConfirm, ByHand
<1>11. CASE RemoteReboot
  BY <1>2, <1>11, Remote!RebootRun DEF RemoteReboot
<1>12. CASE ZoneHandlerLoop
  BY <1>0, <1>3, <1>12, Remote!CacheRun DEF ZoneHandlerLoop, history
<1>13. CASE Tick
  <2>1. /\ rrs'.zone = rrs.zone /\ rrs'.mins = rrs.mins
        /\ rrs'.age = IF rrs.sched # Remote!NoSchedule THEN rrs.age + 1 ELSE rrs.age
    BY <1>0, <1>13, Remote!TickRun DEF Tick
  <2>2. rrs.zone \in Zones => rrs.sched # Remote!NoSchedule
    BY <1>0, ZoneFacts DEF Remote!Inv, Remote!Good, Remote!Uncorrupted
  <2>3. unasked' \in {0, unasked + 1}
    BY <1>13 DEF Tick
  <2> QED
    BY <1>00, <1>1, <2>1, <2>2, <2>3 DEF TimerCovers
<1> QED
  BY <1>4, <1>5, <1>6, <1>7, <1>8, <1>9, <1>10, <1>11, <1>12, <1>13
     DEF Next, RemoteReceive

(* ... so nobody has been silent for longer than the backstop.             *)
LEMMA BackstopNext ==
  ASSUME Sound, StationsOK', PacketsOK', TimerCovers', [Next]_vars
  PROVE  BackstopEndsRun'
<1> USE RemoteAssumptions
<1>1. /\ unasked \in Nat /\ unasked' \in Nat /\ BackstopEndsRun
      /\ MINUTE \in Nat /\ MaxLag \in Nat /\ LongestRun \in Nat
  BY MasterRemoteAssumption, LongestIsLongest DEF Sound, PacketsOK
<1>2. (LongestRun + 1) * MINUTE \in Nat
  BY <1>1
<1>3. CASE unasked' \in {0, unasked}
  BY <1>1, <1>2, <1>3 DEF BackstopEndsRun
<1>4. CASE unasked' \notin {0, unasked}
  <2>1. Tick
    BY <1>4 DEF Next, MasterHandler, MasterSends, MasterReboot, MasterReceive,
       RemoteReceive, RemotePass, RemoteReboot, RemoteManualStart, RemoteHomeConfirm,
       ByHand, ZoneHandlerLoop, history, vars
  <2>2. PICK z \in Zones : rrs.out[z]
    BY <1>4, <2>1 DEF Tick
  <2>3. rrs.zone = z
    BY <2>2, RemoteOutputs DEF Sound, StationsOK, Remote!Inv
  <2>4. rrs'.zone = z
    BY <2>1, <2>3, Remote!TickRun DEF Tick, Sound, StationsOK
  <2>5. /\ unasked' <= rrs'.age /\ rrs'.mins <= LongestRun + 1
    BY <2>4 DEF TimerCovers
  <2>6. /\ rrs'.age <= rrs'.mins * MINUTE + rlag' /\ rlag' \in 0 .. MaxLag
        /\ rrs'.age \in Nat /\ rrs'.mins \in 0 .. BYTE - 1
    BY <2>4, ZoneFacts
       DEF StationsOK, Remote!Inv, Remote!TypeOK, Remote!OnTime, Remote!RunStates
  <2>7. rrs'.mins \in Nat
    BY <2>6 DEF BYTE
  <2>8. rrs'.mins * MINUTE <= (LongestRun + 1) * MINUTE /\ rrs'.mins * MINUTE \in Nat
    BY <1>1, <2>5, <2>7, TimesMonotone
  <2> DEFINE a == (LongestRun + 1) * MINUTE
             b == rrs'.mins * MINUTE
  <2> HIDE DEF a, b
  <2>9. unasked' <= a + MaxLag
    <3>1. b <= a /\ b \in Nat /\ a \in Nat
      BY <1>2, <2>8 DEF a, b
    <3>2. rrs'.age <= b + rlag'
      BY <2>6 DEF b
    <3> QED
      BY <1>1, <2>5, <2>6, <3>1, <3>2
  <2> QED
    BY <2>9 DEF BackstopEndsRun, a
<1> QED
  BY <1>3, <1>4

(* Both stations start idle, and the remote is about to learn its master.  *)
LEMMA InitSound == ASSUME Init PROVE Sound
<1> USE MasterAssumptions, RemoteAssumptions
<1>1. Master!Inv /\ Remote!Inv
  BY Master!InitInv, Remote!InitInv DEF Init
<1>2. /\ mee.nsched = 0 /\ ree.nsched = 0
      /\ \A z \in Zones : mee.enabled[z] /\ ree.enabled[z]
  BY ZoneFacts DEF Init, Master!Init, Remote!Init, InitialSlots
<1>3. /\ mrs.sched = Master!NoSchedule /\ mrs.zone = Master!NoZone /\ mrs.sent = <<>>
      /\ \A z \in Zones : mrs.quick[z] = 0
      /\ Remote!Idle(rrs)
  BY ZoneFacts DEF Init, Master!Init, Remote!Init, Remote!Idle
<1>4. Master!Errand(mrs, RunMinutes)
  <2>1. Master!NoZone \notin Zones /\ Master!NoZone # Master!Gap
    BY ZoneFacts DEF Master!NoZone, Master!Gap, Remote!NoZone
  <2>2. \A z \in Master!Zones : mrs.quick[z] = 0
    BY <1>3, ZoneFacts
  <2>3. DOMAIN mrs.sent = {}
    BY <1>3
  <2>4. Master!Orders(mrs, RunMinutes)
    BY <1>3, <2>2, <2>3 DEF Master!Orders
  <2> QED
    BY <1>3, <2>1, <2>4, ZoneFacts DEF Master!Errand
<1>5. StationsOK
  BY <1>1, <1>2, <1>3, <1>4 DEF StationsOK, Remote!Single, Remote!Idle
<1>6. toRemote = <<Register>> /\ toMaster = <<>> /\ disturbed = FALSE /\ unasked = 0
  BY DEF Init
<1>7. PacketsOK
  <2>1. <<Register>> \in Seq(Packets) /\ <<>> \in Seq(SUBSET Zones)
    BY DEF Packets
  <2> QED
    BY <1>6, <2>1 DEF PacketsOK
<1>8. RequestsAreAsked
  BY <1>6 DEF RequestsAreAsked, Register
<1>9. TimerCovers
  BY <1>3, ZoneFacts DEF TimerCovers, Remote!Idle
<1>10. BackstopEndsRun
  <2>1. LongestRun + 1 \in Nat /\ MINUTE \in Nat /\ MaxLag \in Nat
    BY LongestIsLongest, MasterRemoteAssumption
  <2>2. 0 <= (LongestRun + 1) * MINUTE /\ (LongestRun + 1) * MINUTE \in Nat
    BY <2>1
  <2> QED
    BY <1>6, <2>1, <2>2 DEF BackstopEndsRun
<1> QED
  BY <1>5, <1>7, <1>8, <1>9, <1>10 DEF Sound

(* Every step keeps all of it.                                             *)
LEMMA SoundNext == Sound /\ [Next]_vars => Sound'
<1> SUFFICES ASSUME Sound, [Next]_vars PROVE Sound'
  OBVIOUS
<1>1. StationsOK'
  BY StationsNext DEF Sound
<1>2. PacketsOK' /\ RequestsAreAsked'
  BY <1>1, RequestsNext
<1>3. TimerCovers'
  BY <1>1, <1>2, TimerNext
<1> QED
  BY <1>1, <1>2, <1>3, BackstopNext DEF Sound

(* However many packets are lost and stations reset, both stations keep    *)
(* the invariant of RunState and the packets in flight are well-formed.    *)
THEOREM MasterRemoteSound == Spec => []Sound
<1>1. Init => Sound
  BY InitSound
<1>2. Sound /\ [Next]_vars => Sound'
  BY SoundNext
<1> QED
  BY <1>1, <1>2, PTL DEF Spec

(* The backstop ends every run of the remote: RemoteStartZone gives the    *)
(* zone one minute more than the master asked for, and after that and the  *)
(* longest time between two passes nothing is on that nobody asks for.     *)
THEOREM BackstopHolds == Spec => []BackstopEndsRun
<1>1. Sound => BackstopEndsRun
  BY DEF Sound
<1> QED
  BY <1>1, MasterRemoteSound, PTL

-----------------------------------------------------------------------------
(* While nothing disturbs the two.                                         *)

(* A registration travels alone.                                           *)
RegistersAlone ==
  toRemote = <<Register>> \/ \A i \in DOMAIN toRemote : toRemote[i].kind = "ZONES_SET"

(* The stations agree, or will when what is in flight has arrived.         *)
Agree == RegistersAlone /\ InStep /\ WillShow

(* The main loop passes more than once a minute, and a run time leaves     *)
(* room for the minute that MessageZonesSet adds to it in a uint8_t.       *)
Prompt == MaxLag < MINUTE /\ RunMinutes \subseteq 0 .. BYTE - 2

(* What is known of each station in a sound state.                         *)
LEMMA SoundFacts ==
  ASSUME Sound
  PROVE  /\ Master!Inv /\ Remote!Inv /\ Remote!Single(rrs)
         /\ mee.nsched = 0 /\ ree.nsched = 0 /\ (~ree.run => Remote!Idle(rrs))
         /\ toRemote \in Seq(Packets) /\ toMaster \in Seq(SUBSET Zones)
         /\ disturbed \in BOOLEAN
         /\ mrs \in Master!RunStates /\ rrs \in Remote!RunStates
         /\ mrs.cache \in [Zones -> Master!ZoneStates]
         /\ mrs.age \in Nat /\ rrs.age \in Nat /\ mrs.mins \in Nat /\ rrs.mins \in Nat
<1>1. mrs \in Master!RunStates /\ rrs \in Remote!RunStates
  BY DEF Sound, StationsOK, Master!Inv, Master!TypeOK, Remote!Inv, Remote!TypeOK
<1>2. /\ mrs.cache \in [Zones -> Master!ZoneStates] /\ mrs.age \in Nat /\ rrs.age \in Nat
      /\ mrs.mins \in 0 .. BYTE - 1 /\ rrs.mins \in 0 .. BYTE - 1
  BY <1>1, ZoneFacts DEF Master!RunStates, Remote!RunStates
<1>3. \A n \in 0 .. BYTE - 1 : n \in Nat
  BY DEF BYTE
<1> QED
  BY <1>1, <1>2, <1>3 DEF Sound, StationsOK, PacketsOK

(* The remote's outputs, after a step too.                                 *)
LEMMA SoundOutputs ==
  ASSUME Sound
  PROVE  /\ \A z \in Zones : rrs.out[z] <=> rrs.zone = z
         /\ \A z \in Zones :
              rrs.cache[z] = IF rrs.out[z] THEN Remote!RUNNING ELSE Remote!OFF
         /\ rrs.zone \in Zones => rrs.sched # Remote!NoSchedule
         /\ mrs.zone \in Zones => mrs.sched # Master!NoSchedule
<1>1. Remote!Good(rrs, ree) /\ Master!Good(mrs, mee) /\ \A z \in Zones : ree.enabled[z]
  BY DEF Sound, StationsOK, Remote!Inv, Master!Inv
<1>2. Master!NoZone \notin Zones
  BY ZoneFacts DEF Master!NoZone, Remote!NoZone
<1> QED
  BY <1>1, <1>2, RemoteOutputs, ZoneFacts
     DEF Remote!Good, Remote!Uncorrupted, Master!Good, Master!Uncorrupted

(* A queue that shortens keeps its last element.                           *)
LEMMA LastOfTail ==
  ASSUME NEW S, NEW s \in Seq(S), s # <<>>
  PROVE  /\ Tail(s) # <<>> => LastOf(Tail(s)) = LastOf(s)
         /\ Tail(s) = <<>> => Head(s) = LastOf(s)
<1> DEFINE t == Tail(s)
           n == Len(t)
<1>1. Len(s) \in Nat /\ Len(s) # 0 /\ n = Len(s) - 1 /\ t \in Seq(S)
  OBVIOUS
<1>2. DOMAIN t = 1 .. n /\ n \in Nat /\ (t # <<>> => n # 0) /\ (t = <<>> => n = 0)
  <2>1. \A u \in Seq(S) : /\ DOMAIN u = 1 .. Len(u) /\ Len(u) \in Nat
                          /\ u # <<>> => Len(u) # 0
    OBVIOUS
  <2> HIDE DEF t
  <2>2. t = <<>> => n = 0
    OBVIOUS
  <2> QED
    BY <1>1, <2>1, <2>2
<1>3. \A i \in DOMAIN t : t[i] = s[i + 1]
  <2>1. s # <<>> => \A i \in DOMAIN Tail(s) : Tail(s)[i] = s[i + 1]
    BY QueueTypes
  <2> QED
    BY <2>1
<1> HIDE DEF n, t
<1>4. t # <<>> => t[n] = s[Len(s)]
  <2>1. t # <<>> => n \in DOMAIN t
    BY <1>2
  <2>2. t # <<>> => t[n] = s[n + 1]
    BY <1>3, <2>1
  <2> QED
    BY <1>1, <2>2
<1>5. t = <<>> => s[1] = s[Len(s)]
  <2>1. n = 0 => Len(s) = 1
    BY <1>1
  <2> QED
    BY <1>2, <2>1
<1>6. Head(s) = s[1]
  BY <1>1 DEF Head
<1>7. t # <<>> => LastOf(t) = LastOf(s)
  BY <1>4 DEF n, LastOf
<1>8. t = <<>> => Head(s) = LastOf(s)
  BY <1>5, <1>6 DEF LastOf
<1> QED
  BY <1>7, <1>8 DEF t

(* A queue that grows has what was appended as its last element.           *)
LEMMA LastOfAppend ==
  ASSUME NEW S, NEW s \in Seq(S), NEW x \in S
  PROVE  Append(s, x) # <<>> /\ LastOf(Append(s, x)) = x /\ Len(Append(s, x)) = Len(s) + 1
BY DEF LastOf

(* A handler of the master: what it does not say leaves all as it was, and *)
(* what it says last will bring the remote into step.                      *)
LEMMA AgreeMaster ==
  ASSUME Sound, Agree, MasterHandler
  PROVE  Agree'
<1> USE MasterAssumptions
<1>1. PICK commands : MasterSends(commands)
  BY DEF MasterHandler
<1>2. /\ toRemote = <<>> /\ toRemote' \in Transmit(mrs'.sent) /\ toMaster' = toMaster
      /\ rrs' = rrs /\ ree' = ree
      /\ disturbed' = (disturbed \/ Cardinality(Requested(mrs'.sent)) - Len(toRemote') > 0)
  BY <1>1 DEF MasterHandler, MasterSends, Happen, remote
<1>3. Master!Tells(Master!Now, mrs')
  <2>1. Master!Inv /\ mee.nsched = 0 /\ Master!Errand(mrs, RunMinutes) /\ Master!Far(mee)
    BY ZoneFacts DEF Sound, StationsOK, Master!Far, Master!Switchable
  <2>2. \A q \in QuickDefs : \A z \in DOMAIN q : q[z] \in RunMinutes \cup {0}
    BY MasterRemoteAssumption
  <2> QED
    BY <2>1, <2>2, MasterActs, Master!MasterTells
<1>4. mrs'.sent \in Seq(Master!Requests)
  <2>1. Master!Inv'
    BY MasterSteps, SoundFacts, Master!NextInv DEF Sound, Next
  <2> QED
    BY <2>1 DEF Master!Inv, Master!TypeOK, Master!RunStates
<1>5. /\ Master!Now.sent = <<>> /\ Master!Now.cache = mrs.cache
      /\ Master!Now.zone = mrs.zone /\ Master!Now.age = mrs.age /\ Master!Now.mins = mrs.mins
  BY SoundFacts DEF Master!Now, Master!RunStates
<1>6. RegistersAlone'
  BY <1>2, <1>4, TransmitType DEF RegistersAlone
<1>7. ~Pending
  BY <1>2 DEF Pending
<1>8. CASE mrs'.sent = <<>>
  <2>1. toRemote' = <<>> /\ ~Pending'
    BY <1>2, <1>8, TransmitNothing DEF Pending
  <2>2. /\ mrs'.cache = mrs.cache
        /\ IF mrs.zone \in Zones
           THEN mrs'.zone = mrs.zone /\ mrs'.age = mrs.age /\ mrs'.mins = mrs.mins
           ELSE mrs'.zone \notin Zones
    BY <1>3, <1>5, <1>8, ZoneFacts DEF Master!Tells, Master!SameWatering
  <2>3. disturbed' = FALSE => disturbed = FALSE
    BY <1>2, SoundFacts
  <2>4. InStep'
    BY <1>2, <1>7, <2>1, <2>2, <2>3 DEF Agree, InStep, Follows
  <2>5. WillShow'
    BY <1>2, <1>7, <2>1, <2>2, <2>3 DEF Agree, WillShow
  <2> QED
    BY <1>6, <2>4, <2>5 DEF Agree
<1>9. CASE mrs'.sent # <<>> /\ ~disturbed'
  <2> DEFINE s == mrs'.sent[Len(mrs'.sent)]
  <2>1. IF s.ttr = 0 THEN mrs'.zone \notin Zones /\ s.zones # {}
        ELSE mrs'.zone \in Zones /\ s.zones = {mrs'.zone} /\ mrs'.mins = s.ttr /\ mrs'.age = 0
    BY <1>3, <1>5, <1>9, ZoneFacts DEF Master!Tells, Master!Told
  <2>2. Len(toRemote') = Cardinality(Requested(mrs'.sent))
    <3>1. /\ Len(toRemote') \in 0 .. Cardinality(Requested(mrs'.sent))
          /\ Cardinality(Requested(mrs'.sent)) \in Nat
      BY <1>2, <1>4, TransmitType, RequestedFinite
    <3>2. ~(Cardinality(Requested(mrs'.sent)) - Len(toRemote') > 0)
      BY <1>2, <1>9
    <3> QED
      BY <3>1, <3>2
  <2>3. s.zones # {}
    BY <2>1
  <2>4. /\ toRemote' # <<>> /\ LastOf(toRemote').kind = "ZONES_SET"
        /\ LastOf(toRemote').zone \in s.zones /\ LastOf(toRemote').ttr = s.ttr
    BY <1>2, <1>4, <1>9, <2>2, <2>3, TransmitAll
  <2> HIDE DEF s
  <2>5. Pending'
    BY <2>4 DEF Pending, LastOf
  <2>6. Promised(LastOf(toRemote))'
    BY <2>1, <2>4 DEF Promised, LastOf
  <2>7. InStep' /\ WillShow'
    BY <2>5, <2>6 DEF InStep, WillShow, LastOf
  <2> QED
    BY <1>6, <2>7 DEF Agree
<1>10. CASE disturbed'
  BY <1>6, <1>10 DEF Agree, InStep, WillShow
<1> QED
  BY <1>8, <1>9, <1>10

(* What the remote makes of a packet, and of its report.                   *)
LEMMA AgreeReceive ==
  ASSUME Prompt, Sound, Sound', Agree, RemoteReceive
  PROVE  Agree'
<1> USE RemoteAssumptions
<1> DEFINE p == Head(toRemote)
           rest == Tail(toRemote)
<1>1. /\ toRemote # <<>> /\ toRemote' = rest /\ mrs' = mrs
      /\ toRemote \in Seq(Packets) /\ p \in Packets /\ rest \in Seq(Packets)
      /\ 1 \in DOMAIN toRemote /\ toRemote[1] = p
  BY SoundFacts DEF RemoteReceive, master
<1>2. /\ \A i \in DOMAIN rest : i + 1 \in DOMAIN toRemote /\ rest[i] = toRemote[i + 1]
      /\ rest # <<>> => LastOf(rest) = LastOf(toRemote)
      /\ rest = <<>> => p = LastOf(toRemote)
  BY <1>1, QueueTypes, LastOfTail
<1>3. RegistersAlone'
  <2>1. CASE toRemote = <<Register>>
    BY <1>1, <2>1 DEF RegistersAlone
  <2>2. CASE \A i \in DOMAIN toRemote : toRemote[i].kind = "ZONES_SET"
    BY <1>1, <1>2, <2>2 DEF RegistersAlone
  <2> QED
    BY <2>1, <2>2 DEF Agree, RegistersAlone
<1>4. disturbed' = FALSE => disturbed = FALSE
  BY SoundFacts DEF RemoteReceive, ReceiveSet, ReceiveRegister, Report, Happen
<1>5. CASE ReceiveRegister(p)
  <2>1. toRemote = <<Register>>
    <3>1. p.kind # "ZONES_SET"
      BY <1>5 DEF ReceiveRegister
    <3> QED
      BY <1>1, <3>1 DEF Agree, RegistersAlone
  <2>2. toRemote' = <<>> /\ ~Pending /\ ~Pending'
    BY <1>1, <2>1 DEF Pending, LastOf, Register
  <2>3. rrs' = rrs /\ ree' = ree /\ toMaster' = toMaster
    BY <1>5 DEF ReceiveRegister
  <2> QED
    BY <1>1, <1>3, <1>4, <2>2, <2>3 DEF Agree, InStep, WillShow, Follows
<1>6. CASE ReceiveSet(p)
  <2> DEFINE z == p.zone
             m == p.ttr
             bits == ReportOf(rrs', {z})
  <2>1. /\ Remote!MessageZonesSet(1, z, m) /\ p.kind = "ZONES_SET"
        /\ Report(bits, 0, FALSE)
    BY <1>6 DEF ReceiveSet
  <2>2. z \in Zones /\ m \in 0 .. BYTE - 1 /\ Remote!StartsZone(1, z) /\ StartZoneOf[1] + z = z
    <3>1. z \in Zones /\ m \in 0 .. BYTE - 1
      BY <1>1, <2>1 DEF Packets, Register
    <3> QED
      BY <3>1, ZoneFacts
  <2>3. ree' = ree
    BY <2>1 DEF Remote!MessageZonesSet
  <2>4. LastOf(toRemote).kind = "ZONES_SET" /\ Pending
    <3>1. toRemote # <<Register>>
      BY <1>1, <2>1 DEF Register
    <3>2. Len(toRemote) \in DOMAIN toRemote
      BY <1>1
    <3> QED
      BY <1>1, <3>1, <3>2 DEF Agree, RegistersAlone, LastOf, Pending
  <2>5. CASE rest # <<>>
    <3>1. Pending' /\ LastOf(toRemote)' = LastOf(toRemote)
      BY <1>1, <1>2, <2>4, <2>5 DEF Pending, LastOf
    <3>2. Promised(LastOf(toRemote))' = Promised(LastOf(toRemote))
      BY <1>1, <3>1 DEF Promised, LastOf
    <3> QED
      BY <1>3, <1>4, <2>3, <2>4, <3>1, <3>2 DEF Agree, InStep, WillShow
  <2>6. CASE rest = <<>>
    <3> HIDE DEF z, m
    <3>1. ~Pending'
      BY <1>1, <2>6 DEF Pending
    <3>2. /\ m = 0 \/ ~ree.run => Remote!Idle(rrs')
          /\ \/ Remote!Idle(rrs')
             \/ rrs'.zone = z /\ rrs'.age = 0 /\ rrs'.mins = (m + 1) % BYTE
          /\ ree.run /\ m # 0 /\ (m + 1) % BYTE # 0 => ~Remote!Idle(rrs')
      <4>1. Remote!Inv /\ ree.nsched = 0
        BY SoundFacts
      <4>2. /\ m = 0 \/ ~ree.run => Remote!Idle(rrs')
            /\ ree.run /\ m # 0 /\ (m + 1) % BYTE # 0 => ~Remote!Idle(rrs')
        BY <2>1, <2>2, <4>1, Remote!ZonesSetSingle
      <4>3. \/ Remote!Idle(rrs')
            \/ /\ rrs'.zone = StartZoneOf[1] + z /\ rrs'.sched = Remote!Quick
               /\ rrs'.age = 0 /\ rrs'.mins = (m + 1) % BYTE
        BY <2>1, <2>2, <4>1, Remote!ZonesSetSingle
      <4> QED
        BY <2>2, <4>2, <4>3
    <3>3. InStep'
      <4>1. SUFFICES ASSUME ~disturbed', ree.run PROVE Follows'
        BY <2>3, <3>1 DEF InStep
      <4>2. Promised(p)
        BY <1>2, <1>4, <2>4, <2>6, <4>1, SoundFacts DEF Agree, InStep
      <4>3. CASE m = 0
        BY <1>1, <3>2, <4>2, <4>3 DEF Promised, Follows, Remote!Idle, m
      <4>4. CASE m # 0
        <5>1. m \in RunMinutes
          BY <1>1, <2>1, <4>4 DEF Sound, RequestsAreAsked, m
        <5>2. (m + 1) % BYTE = m + 1 /\ m + 1 # 0
          <6>1. m \in 0 .. BYTE - 2
            BY <5>1 DEF Prompt
          <6> QED
            BY <6>1 DEF BYTE
        <5>3. rrs'.zone = z /\ rrs'.age = 0 /\ rrs'.mins = m + 1
          BY <3>2, <4>1, <4>4, <5>2
        <5>4. mrs.zone = z /\ mrs.mins = m /\ mrs.age = 0
          BY <4>2, <4>4 DEF Promised, z, m
        <5> QED
          BY <1>1, <2>2, <5>3, <5>4 DEF Follows
      <4> QED
        BY <4>3, <4>4
    <3>4. WillShow'
      <4>1. SUFFICES ASSUME ~disturbed'
                     PROVE  toMaster' # <<>> /\ LastOf(toMaster)' = {y \in Zones : rrs'.out[y]}
        BY <3>1 DEF WillShow
      <4>2. bits \in SUBSET Zones /\ toMaster \in Seq(SUBSET Zones)
        BY <2>2, SoundFacts DEF ReportOf
      <4>3. bits = {y \in Zones : rrs'.out[y]}
        <5>1. /\ \A y \in Zones : rrs'.out[y] <=> rrs'.zone = y
              /\ \A y \in Zones :
                   rrs'.cache[y] = IF rrs'.out[y] THEN Remote!RUNNING ELSE Remote!OFF
          <6>1. Remote!Good(rrs', ree') /\ \A y \in Zones : ree'.enabled[y]
            BY DEF Sound, StationsOK, Remote!Inv
          <6> QED
            BY <6>1, RemoteOutputs
        <5>2. \A y \in Zones : rrs'.zone = y => y = z
          BY <3>2, ZoneFacts DEF Remote!Idle
        <5>3. Remote!RUNNING # Remote!OFF
          BY DEF Remote!RUNNING, Remote!OFF
        <5> QED
          BY <2>2, <5>1, <5>2, <5>3 DEF ReportOf
      <4> HIDE DEF bits
      <4>4. toMaster' = Append(toMaster, bits)
        <5>1. CASE toMaster' = toMaster
          <6>1. Len(toMaster) \in Nat /\ Len(toMaster) + 1 - Len(toMaster') > 0
            BY <4>2, <5>1
          <6> QED
            BY <2>1, <4>1, <6>1 DEF Report, Happen
        <5> QED
          BY <2>1, <5>1 DEF Report
      <4> QED
        BY <4>2, <4>3, <4>4, LastOfAppend DEF LastOf
    <3> QED
      BY <1>3, <3>3, <3>4 DEF Agree
  <2> QED
    BY <2>5, <2>6
<1> QED
  BY <1>5, <1>6 DEF RemoteReceive

(* Time, the loops of the stations and a report change neither what is     *)
(* timed nor what is said of it.                                           *)
LEMMA AgreeElse ==
  ASSUME Prompt, Sound, Sound', Agree,
         Tick \/ ZoneHandlerLoop \/ MasterReceive \/ RemotePass
  PROVE  Agree'
<1> USE MasterAssumptions, RemoteAssumptions
<1>0. /\ Master!Inv /\ Remote!Inv /\ Remote!Single(rrs) /\ ree.nsched = 0
      /\ (~ree.run => Remote!Idle(rrs))
      /\ toMaster \in Seq(SUBSET Zones) /\ mrs.age \in Nat /\ rrs.age \in Nat
      /\ mrs.mins \in Nat /\ rrs.mins \in Nat /\ mrs.cache \in [Zones -> Master!ZoneStates]
  BY SoundFacts
<1>1. toRemote' = toRemote /\ disturbed' = disturbed /\ ree' = ree
  BY DEF Tick, ZoneHandlerLoop, MasterReceive, RemotePass, history, remote,
         Remote!Tick, Remote!ZoneHandlerLoop, Remote!Pass
<1>2. RegistersAlone' /\ Pending' = Pending
  BY <1>1 DEF Agree, RegistersAlone, Pending, LastOf
<1>3. CASE Tick
  <2>1. /\ toRemote = <<>> /\ toMaster = <<>> /\ toMaster' = toMaster
        /\ Master!Tick /\ Remote!Tick
    BY <1>3 DEF Tick
  <2>2. /\ mrs'.zone = mrs.zone /\ mrs'.mins = mrs.mins /\ mrs'.cache = mrs.cache
        /\ mrs'.age = IF mrs.sched # Master!NoSchedule THEN mrs.age + 1 ELSE mrs.age
    BY <1>0, <2>1, Master!TickRun
  <2>3. /\ rrs'.zone = rrs.zone /\ rrs'.mins = rrs.mins /\ rrs'.out = rrs.out
        /\ rrs'.age = IF rrs.sched # Remote!NoSchedule THEN rrs.age + 1 ELSE rrs.age
    BY <1>0, <2>1, Remote!TickRun
  <2>4. ~Pending
    BY <2>1 DEF Pending
  <2>5. InStep'
    BY <1>1, <1>2, <2>2, <2>3, <2>4, SoundOutputs DEF Agree, InStep, Follows
  <2>6. WillShow'
    BY <1>1, <1>2, <2>1, <2>2, <2>3, <2>4 DEF Agree, WillShow
  <2> QED
    BY <1>2, <2>5, <2>6 DEF Agree
<1>4. CASE ZoneHandlerLoop
  <2>1. toMaster' = toMaster /\ Master!ZoneHandlerLoop /\ Remote!ZoneHandlerLoop
    BY <1>4 DEF ZoneHandlerLoop
  <2>2. Master!SameRun(mrs, mrs') /\ Remote!SameRun(rrs, rrs') /\ rrs'.out = rrs.out
    BY <1>0, <2>1, Master!CacheRun, Remote!CacheRun
  <2>3. ASSUME NEW z \in Zones, mrs.cache[z] \in {Master!OFF, Master!RUNNING}
        PROVE  mrs'.cache[z] = mrs.cache[z]
    <3>1. mrs'.cache = [y \in Zones |-> Master!StepZoneState(mrs.cache[y])]
      <4>1. Master!Now.cache = mrs.cache /\ Master!Now \in Master!RunStates
        BY <1>0, Master!NowGood
      <4> QED
        BY <2>1, <4>1, ZoneFacts DEF Master!ZoneHandlerLoop, Master!RunStates
    <3> QED
      BY <2>3, <3>1 DEF Master!StepZoneState
  <2>4. InStep'
    BY <1>1, <1>2, <2>2
       DEF Agree, InStep, Follows, Promised, Master!SameRun, Remote!SameRun, LastOf
  <2>5. WillShow'
    BY <1>1, <1>2, <2>1, <2>2, <2>3 DEF Agree, WillShow, LastOf
  <2> QED
    BY <1>2, <2>4, <2>5 DEF Agree
<1>5. CASE MasterReceive
  <2>1. /\ toMaster # <<>> /\ toMaster' = Tail(toMaster) /\ rrs' = rrs
        /\ Master!ReportStationZonesStatus(1, Head(toMaster))
    BY <1>5 DEF MasterReceive, remote
  <2>2. Master!SameRun(mrs, mrs')
    BY <1>0, <2>1, Master!CacheRun
  <2>3. InStep'
    BY <1>1, <1>2, <2>1, <2>2 DEF Agree, InStep, Follows, Promised, Master!SameRun, LastOf
  <2>4. /\ Tail(toMaster) # <<>> => LastOf(Tail(toMaster)) = LastOf(toMaster)
        /\ Tail(toMaster) = <<>> => Head(toMaster) = LastOf(toMaster)
    BY <1>0, <2>1, LastOfTail
  <2>5. ASSUME NEW z \in Zones
        PROVE  mrs'.cache[z] = IF z \in Head(toMaster) THEN Master!RUNNING ELSE Master!OFF
    <3>1. 1 \in ActiveStations /\ mrs \in Master!RunStates
      BY SoundFacts DEF ActiveStations
    <3>2. mrs' = [Master!Now EXCEPT !.cache =
                   [y \in Master!Zones |->
                      IF Master!StationOf(y) # 1 THEN @[y]
                      ELSE IF y \in Head(toMaster) THEN Master!RUNNING ELSE Master!OFF]]
      BY <2>1, <3>1 DEF Master!ReportStationZonesStatus, Master!Handled
    <3>3. Master!Now \in Master!RunStates
      BY <1>0, Master!NowGood
    <3>4. mrs'.cache = [y \in Master!Zones |->
                          IF Master!StationOf(y) # 1 THEN Master!Now.cache[y]
                          ELSE IF y \in Head(toMaster) THEN Master!RUNNING ELSE Master!OFF]
      BY <3>2, <3>3 DEF Master!RunStates
    <3> QED
      BY <3>4, ZoneFacts
  <2>6. WillShow'
    BY <1>1, <1>2, <2>1, <2>4, <2>5 DEF Agree, WillShow, LastOf
  <2> QED
    BY <1>2, <2>3, <2>6 DEF Agree
<1>6. CASE RemotePass
  <2>1. Remote!Pass /\ toMaster' = toMaster /\ mrs' = mrs
    BY <1>6 DEF RemotePass, master
  <2>2. CASE disturbed \/ (Pending /\ ree.run)
    BY <1>1, <1>2, <2>1, <2>2 DEF Agree, InStep, WillShow, Promised, LastOf
  <2>3. CASE ~disturbed /\ (~Pending \/ ~ree.run)
    <3>1. rrs'.zone = rrs.zone /\ (Remote!SameRun(rrs, rrs') \/ Remote!Idle(rrs'))
      <4>1. Remote!Idle(rrs') \/ Remote!SameRun(rrs, rrs')
        BY <1>0, <2>1, Remote!PassSingle
      <4>2. CASE Remote!SameRun(rrs, rrs')
        BY <4>1, <4>2 DEF Remote!SameRun
      <4>3. CASE ~Remote!SameRun(rrs, rrs')
        <5>1. ~(ree.run /\ rrs.zone \in Zones /\ rrs.age < rrs.mins * MINUTE)
          BY <1>0, <2>1, <4>3, Remote!PassSingle, ZoneFacts
        <5>2. rrs.zone = Remote!NoZone
          <6>1. CASE ~ree.run
            BY <1>0, <6>1 DEF Remote!Idle
          <6>2. CASE ree.run
            <7>1. Follows
              BY <2>3, <6>2 DEF Agree, InStep
            <7>2. ASSUME mrs.zone \in Zones PROVE FALSE
              <8>1. rrs.zone \in Zones /\ rrs.age = mrs.age /\ rrs.mins = mrs.mins + 1
                BY <7>1, <7>2 DEF Follows
              <8>2. mrs.age <= mrs.mins * MINUTE + mlag /\ mlag \in 0 .. MaxLag
                BY <1>0, <7>2, ZoneFacts DEF Master!Inv, Master!TypeOK, Master!OnTime
              <8>3. MaxLag \in Nat /\ MINUTE \in Nat /\ MaxLag < MINUTE
                BY MasterRemoteAssumption DEF Prompt
              <8>4. /\ (mrs.mins + 1) * MINUTE = mrs.mins * MINUTE + MINUTE
                    /\ mrs.mins * MINUTE \in Nat
                BY <1>0, <8>3
              <8>5. rrs.age < rrs.mins * MINUTE
                <9> DEFINE a == mrs.mins * MINUTE
                <9>1. rrs.mins * MINUTE = a + MINUTE /\ a \in Nat
                  BY <8>1, <8>4
                <9>2. mrs.age <= a + mlag /\ mlag <= MaxLag /\ mlag \in Nat
                  BY <8>2, <8>3
                <9> HIDE DEF a
                <9>3. rrs.age < a + MINUTE
                  BY <1>0, <8>1, <8>3, <9>1, <9>2
                <9> QED
                  BY <9>1, <9>3
              <8> QED
                BY <5>1, <6>2, <8>1, <8>5
            <7> QED
              BY <7>1, <7>2 DEF Follows
          <6> QED
            BY <6>1, <6>2
        <5> QED
          BY <4>1, <4>3, <5>2 DEF Remote!Idle
      <4> QED
        BY <4>2, <4>3
    <3>2. \A z \in Zones : rrs'.out[z] <=> rrs.out[z]
      <4>1. \A z \in Zones : rrs.out[z] <=> rrs.zone = z
        BY SoundOutputs
      <4>2. \A z \in Zones : rrs'.out[z] <=> rrs'.zone = z
        <5>1. Remote!Good(rrs', ree') /\ \A z \in Zones : ree'.enabled[z]
          BY DEF Sound, StationsOK, Remote!Inv
        <5> QED
          BY <5>1, RemoteOutputs
      <4> QED
        BY <3>1, <4>1, <4>2
    <3>3. InStep'
      <4>1. CASE ree.run
        <5>1. ~Pending /\ Follows
          BY <2>3, <4>1 DEF Agree, InStep
        <5>2. CASE mrs.zone \in Zones
          <6>1. Remote!SameRun(rrs, rrs')
            BY <3>1, <5>1, <5>2, ZoneFacts DEF Follows, Remote!Idle
          <6> QED
            BY <1>1, <1>2, <2>1, <5>1, <5>2, <6>1 DEF InStep, Follows, Remote!SameRun
        <5>3. CASE mrs.zone \notin Zones
          BY <1>1, <1>2, <2>1, <3>1, <5>1, <5>3 DEF InStep, Follows
        <5> QED
          BY <5>2, <5>3
      <4>2. CASE ~ree.run
        BY <1>1, <4>2 DEF InStep
      <4> QED
        BY <4>1, <4>2
    <3>4. WillShow'
      <4>1. {z \in Zones : rrs'.out[z]} = {z \in Zones : rrs.out[z]}
        BY <3>2
      <4> QED
        BY <1>1, <1>2, <2>1, <3>2, <4>1 DEF Agree, WillShow, LastOf
    <3> QED
      BY <1>2, <3>3, <3>4 DEF Agree
  <2> QED
    BY <2>2, <2>3
<1> QED
  BY <1>3, <1>4, <1>5, <1>6

(* Resets and hands at the remote are remembered, so nothing is promised.  *)
LEMMA AgreeDisturbed ==
  ASSUME Sound, Agree,
         \/ MasterReboot \/ RemoteReboot \/ RemoteHomeConfirm
         \/ \E z \in Zones, m \in RunMinutes : RemoteManualStart(z, m)
  PROVE  Agree'
<1>1. disturbed'
  BY DEF MasterReboot, RemoteReboot, RemoteHomeConfirm, RemoteManualStart, ByHand,
         Report, Happen
<1>2. toRemote' \in {toRemote, <<>>, <<Register>>}
  BY DEF MasterReboot, RemoteReboot, RemoteHomeConfirm, RemoteManualStart, ByHand
<1>3. RegistersAlone'
  BY <1>2 DEF Agree, RegistersAlone
<1> QED
  BY <1>1, <1>3 DEF Agree, InStep, WillShow

(* So every step keeps the agreement, or remembers what disturbed it.      *)
LEMMA AgreeNext ==
  ASSUME Prompt, Sound, Sound', Agree, [Next]_vars
  PROVE  Agree'
<1>1. CASE UNCHANGED vars
  BY <1>1 DEF vars, master, remote, history, Agree, RegistersAlone, InStep, WillShow,
     Pending, Promised, Follows, LastOf
<1> QED
  BY <1>1, AgreeMaster, AgreeReceive, AgreeElse, AgreeDisturbed DEF Next

(* At power-on both are idle, and the master shows it.                     *)
LEMMA InitAgree == ASSUME Init PROVE Agree
<1>1. /\ toRemote = <<Register>> /\ toMaster = <<>>
      /\ mrs.zone = Master!NoZone /\ rrs.zone = Remote!NoZone
      /\ mrs.cache = [z \in Zones |-> Master!OFF] /\ rrs.out = [z \in Zones |-> FALSE]
  BY ZoneFacts DEF Init, Master!Init, Remote!Init
<1>2. ~Pending
  BY <1>1 DEF Pending, LastOf, Register
<1>3. Master!NoZone \notin Zones
  BY ZoneFacts DEF Master!NoZone, Remote!NoZone
<1> QED
  BY <1>1, <1>2, <1>3 DEF Agree, RegistersAlone, InStep, WillShow, Follows

(* Undisturbed, the stations agree about what is watered, or will once     *)
(* what is in flight has arrived.                                          *)
LEMMA AgreeHolds == Prompt => (Spec => [](Sound /\ Agree))
<1> SUFFICES ASSUME Prompt PROVE Spec => [](Sound /\ Agree)
  OBVIOUS
<1>1. Init => Sound /\ Agree
  BY InitSound, InitAgree
<1>2. Sound /\ Agree /\ [Next]_vars => (Sound /\ Agree)'
  BY SoundNext, AgreeNext
<1> QED
  BY <1>1, <1>2, PTL DEF Spec

(* The remote waters exactly what the master times: with passes of the     *)
(* loop more than once a minute, and run times that fit a uint8_t with the *)
(* minute MessageZonesSet adds, the backstop never cuts a run short and no *)
(* stop is forgotten while no packet is lost and nobody interferes.        *)
THEOREM FollowsHolds == Prompt => (Spec => []RemoteFollowsMaster)
<1> SUFFICES ASSUME Prompt PROVE Spec => []RemoteFollowsMaster
  OBVIOUS
<1>1. Sound /\ Agree => RemoteFollowsMaster
  <2> SUFFICES ASSUME Sound, Agree, ree.run, ~disturbed, toRemote = <<>>, NEW z \in Zones
               PROVE  rrs.out[z] = (mrs.zone = z)
    BY DEF RemoteFollowsMaster
  <2>1. ~Pending
    BY DEF Pending
  <2>2. Follows
    BY <2>1 DEF Agree, InStep
  <2>3. rrs.out[z] <=> rrs.zone = z
    BY SoundOutputs
  <2>4. rrs.out[z] \in BOOLEAN
    BY SoundFacts, ZoneFacts DEF Remote!RunStates
  <2>5. (rrs.zone = z) <=> (mrs.zone = z)
    BY <2>2, ZoneFacts DEF Follows
  <2> QED
    BY <2>3, <2>4, <2>5
<1> QED
  BY <1>1, AgreeHolds, PTL

(* When nothing is in flight the master shows what the remote waters,      *)
(* under the same conditions and also while the remote's schedules are     *)
(* disabled.                                                               *)
THEOREM CacheShowsHolds == Prompt => (Spec => []CacheShowsRemote)
<1> SUFFICES ASSUME Prompt PROVE Spec => []CacheShowsRemote
  OBVIOUS
<1>1. Agree => CacheShowsRemote
  <2> SUFFICES ASSUME Agree, ~disturbed, toRemote = <<>>, toMaster = <<>>, NEW z \in Zones
               PROVE  mrs.cache[z] = Master!RUNNING <=> rrs.out[z]
    BY DEF CacheShowsRemote
  <2>1. mrs.cache[z] = IF rrs.out[z] THEN Master!RUNNING ELSE Master!OFF
    BY DEF Agree, WillShow, Pending
  <2> QED
    BY <2>1 DEF Master!RUNNING, Master!OFF
<1> QED
  BY <1>1, AgreeHolds, PTL

-----------------------------------------------------------------------------
(* What PacketDelivery promises covers the packets of a handler.           *)

(* The places of S that rise strictly.                                     *)
Rising(places, S) ==
  /\ places \in Seq(S)
  /\ \A i, j \in 1 .. Len(places) : i < j => places[i] < places[j]

LEMMA SeqIsFunction ==
  ASSUME NEW S, NEW s \in Seq(S)
  PROVE  Len(s) \in Nat /\ s \in [1 .. Len(s) -> S]
OBVIOUS

(* Whichever of the packets of a handler the link hands over, in the order *)
(* in which they were sent and each at most once (PacketDelivery), is one  *)
(* of the ways of Transmit in which the radio may treat them: all is the   *)
(* order in which the loops of turnOnZoneWorker send their requests, and   *)
(* places are those that arrive.                                           *)
THEOREM DeliveryIsTransmit ==
  ASSUME NEW sent \in Seq(Master!Requests),
         NEW all \in InOrder(Requested(sent), Cardinality(Requested(sent))),
         NEW places, Rising(places, 1 .. Cardinality(Requested(sent)))
  PROVE  [i \in 1 .. Len(places) |-> Set(all[places[i]][2], sent[all[places[i]][1]].ttr)]
           \in Transmit(sent)
<1> DEFINE N == Cardinality(Requested(sent))
           n == Len(places)
           f == [i \in 1 .. n |-> all[places[i]]]
<1>1. N \in Nat
  BY RequestedFinite
<1>2. n \in Nat /\ places \in [1 .. n -> 1 .. N]
  BY SeqIsFunction DEF Rising
<1>3. \A i, j \in 1 .. n : i < j => places[i] < places[j]
  BY DEF Rising
<1> HIDE DEF N, n
<1>4. n \in 0 .. N
  <2>1. IsFiniteSet(1 .. n) /\ Cardinality(1 .. n) = n
    BY <1>2, FS_Interval
  <2>2. IsFiniteSet(1 .. N) /\ Cardinality(1 .. N) = N
    BY <1>1, FS_Interval
  <2>3. ASSUME NEW i \in 1 .. n, NEW j \in 1 .. n, places[i] = places[j]
        PROVE  i = j
    <3>1. places[i] \in 1 .. N /\ places[j] \in 1 .. N
      BY <1>2
    <3>2. ~(places[i] < places[j]) /\ ~(places[j] < places[i])
      BY <2>3, <3>1, <1>1
    <3> QED
      BY <3>2, <1>2, <1>3
  <2>4. places \in Injection(1 .. n, 1 .. N)
    BY <1>2, <2>3 DEF Injection, IsInjective
  <2> QED
    BY <2>1, <2>2, <2>4, <1>1, <1>2, FS_Injection
<1>5. f \in InOrder(Requested(sent), n)
  <2>1. all \in [1 .. N -> Requested(sent)]
    BY DEF InOrder, N
  <2>2. \A i, j \in 1 .. N : i < j => Precedes(all[i], all[j])
    BY DEF InOrder, N
  <2>3. \A i \in 1 .. n : places[i] \in 1 .. N
    BY <1>2
  <2>4. f \in [1 .. n -> Requested(sent)]
    BY <2>1, <2>3
  <2>5. ASSUME NEW i \in 1 .. n, NEW j \in 1 .. n, i < j
        PROVE  Precedes(f[i], f[j])
    <3>1. f[i] = all[places[i]] /\ f[j] = all[places[j]]
      OBVIOUS
    <3>2. Precedes(all[places[i]], all[places[j]])
      BY <2>2, <2>3, <2>5, <1>3
    <3> QED
      BY <3>1, <3>2
  <2> QED
    BY <2>4, <2>5 DEF InOrder
<1>6. [i \in 1 .. n |-> Set(all[places[i]][2], sent[all[places[i]][1]].ttr)]
        = [i \in 1 .. n |-> Set(f[i][2], sent[f[i][1]].ttr)]
  OBVIOUS
<1> HIDE DEF f
<1>7. [i \in 1 .. n |-> Set(f[i][2], sent[f[i][1]].ttr)] \in Transmit(sent)
  BY <1>4, <1>5 DEF Transmit, N
<1> QED
  BY <1>6, <1>7 DEF n

=============================================================================
