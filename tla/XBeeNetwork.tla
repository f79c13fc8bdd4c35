---------------------------- MODULE XBeeNetwork ----------------------------
(***************************************************************************)
(* XBeeRF.cpp: stations find each other's 64-bit addresses by themselves.  *)
(* A packet to a station whose address is not known is broadcast, and      *)
(* every packet received teaches the address of the station it names as    *)
(* its sender.  RProtocolMS.cpp answers a request in the name of the       *)
(* station the request is for, and does not look who that is.              *)
(*                                                                         *)
(* Packets are what tells a request, which is answered, from the rest; the *)
(* address of a station's radio is the station itself.                     *)
(*                                                                         *)
(* A definition whose comment starts with "Fault:" is a faulty variant of  *)
(* the definition after it, which nothing uses.                            *)
(***************************************************************************)
EXTENDS Integers, FiniteSets

CONSTANTS
  Master,       \* station 0
  Remotes,
  Unknown,      \* no address: LSB = 0
  Everyone,     \* STATIONID_BROADCAST
  MaxAir        \* packets on their way at a time

ASSUME XBeeAssumption ==
  /\ Master \notin Remotes
  /\ Unknown \notin Remotes \cup {Master}
  /\ Everyone \notin Remotes \cup {Master}
  /\ MaxAir \in Nat

VARIABLES
  fXBeeReady,   \* per station, whether begin() has set up its radio
  arpTable,     \* per station, the address it has for each station
  evtMaster,    \* per station, in EEPROM, the station to report events to
  air           \* the packets on their way, each to one receiver

netVars == <<fXBeeReady, arpTable, evtMaster, air>>

XStations == {Master} \cup Remotes

Packets == [kind : {"EVTMASTER_SET", "READ", "REPORT", "TIME_BROADCAST"},
            from : XStations, to : XStations \cup {Everyone},
            sender : XStations, receiver : XStations]

Requests == {"EVTMASTER_SET", "READ"}

-----------------------------------------------------------------------------
(* Who may hear a packet of s, which looks the address up in table.        *)
ReceiversOf(table, s, to) ==
  IF to # Everyone /\ table[s][to] # Unknown
  THEN {table[s][to]} \ {s} ELSE XStations \ {s}

(* Fault: the table is never used.                                         *)
XBeeSendAlwaysBroadcasts(table, s, kind, from, to) ==
  {[kind |-> kind, from |-> from, to |-> to, sender |-> s, receiver |-> d]
     : d \in XStations \ {s}}

(* The packets a call sends, one per receiver.                             *)
XBeeSendPacket(table, s, kind, from, to) ==
  {[kind |-> kind, from |-> from, to |-> to, sender |-> s, receiver |-> d]
     : d \in ReceiversOf(table, s, to)}

(* s sends packets, any of which may get lost; none without a radio.       *)
NetTransmit(s, rest, packets) ==
  \E heard \in SUBSET IF fXBeeReady'[s] THEN packets ELSE {} :
    /\ Cardinality(rest \cup heard) <= MaxAir
    /\ air' = rest \cup heard

NoAddresses == [d \in XStations |-> Unknown]

(* RegisterRemoteEvents, at the end of the master's setup.                 *)
Registrations(table) ==
  UNION {XBeeSendPacket(table, Master, "EVTMASTER_SET", Master, r) : r \in Remotes}

NetInit ==
  /\ fXBeeReady = [s \in XStations |-> FALSE]
  /\ arpTable = [s \in XStations |-> NoAddresses]
  /\ evtMaster = [s \in XStations |-> Unknown]
  /\ air = {}

(* begin leaves the radio unusable if it does not answer; the master ends  *)
(* by registering.                                                         *)
Boot(s) ==
  /\ \E ready \in BOOLEAN : fXBeeReady' = [fXBeeReady EXCEPT ![s] = ready]
  /\ arpTable' = [arpTable EXCEPT ![s] = NoAddresses]
  /\ NetTransmit(s, {p \in air : p.receiver # s},
              IF s = Master THEN Registrations(arpTable') ELSE {})
  /\ UNCHANGED evtMaster

(* The master sets zones of a remote or reads its state or sensors.        *)
SendRequest(r) ==
  /\ UNCHANGED <<fXBeeReady, arpTable, evtMaster>>
  /\ NetTransmit(Master, air, XBeeSendPacket(arpTable, Master, "READ", Master, r))

SendTimeBroadcast ==
  /\ UNCHANGED <<fXBeeReady, arpTable, evtMaster>>
  /\ NetTransmit(Master, air,
              XBeeSendPacket(arpTable, Master, "TIME_BROADCAST", Master, Everyone))

(* A zone, a sensor or a system event, reported unasked.                   *)
SendEvent(r) ==
  /\ evtMaster[r] # Unknown
  /\ UNCHANGED <<fXBeeReady, arpTable, evtMaster>>
  /\ NetTransmit(r, air, XBeeSendPacket(arpTable, r, "REPORT", r, evtMaster[r]))

(* Fault: the address is kept for the station the packet is for.           *)
XBeeARPUpdateAddressee(p) ==
  IF fXBeeReady[p.receiver] /\ p.to # Everyone
  THEN [arpTable EXCEPT ![p.receiver][p.to] = p.sender] ELSE arpTable

(* begin registers the callback only if the radio is ready.                *)
XBeeARPUpdate(p) ==
  IF fXBeeReady[p.receiver]
  THEN [arpTable EXCEPT ![p.receiver][p.from] = p.sender] ELSE arpTable

(* What a request makes its receiver send: a report or an error message,   *)
(* from the station the request is for, to the one it is from.             *)
Answer(p, table) ==
  IF p.kind \in Requests
  THEN XBeeSendPacket(table, p.receiver, "REPORT", p.to, p.from) ELSE {}

(* Fault: the station the packet is for is registered.                     *)
MessageEvtMasterSetAddressee(p) ==
  IF p.kind = "EVTMASTER_SET"
  THEN [evtMaster EXCEPT ![p.receiver] = p.to] ELSE evtMaster

(* EVTMASTER_FLAGS_REGISTER_SELF: the sender is registered.                *)
MessageEvtMasterSet(p) ==
  IF p.kind = "EVTMASTER_SET"
  THEN [evtMaster EXCEPT ![p.receiver] = p.from] ELSE evtMaster

(* XBeeRFClass::loop and ProcessNewFrame: the table is updated before the  *)
(* request is answered.                                                    *)
ProcessNewFrame(p) ==
  /\ arpTable' = XBeeARPUpdate(p)
  /\ evtMaster' = MessageEvtMasterSet(p)
  /\ UNCHANGED fXBeeReady
  /\ NetTransmit(p.receiver, air \ {p}, Answer(p, arpTable'))

NetNext ==
  \/ \E s \in XStations : Boot(s)
  \/ \E r \in Remotes : SendRequest(r) \/ SendEvent(r)
  \/ SendTimeBroadcast
  \/ \E p \in air : ProcessNewFrame(p)

NetSpec == NetInit /\ [][NetNext]_netVars

-----------------------------------------------------------------------------
(* Tables hold stations, and no more than MaxAir packets are on their way. *)
NetTypeOK ==
  /\ fXBeeReady \in [XStations -> BOOLEAN]
  /\ arpTable \in [XStations -> [XStations -> XStations \cup {Unknown}]]
  /\ evtMaster \in [XStations -> {Master, Unknown}]
  /\ air \in SUBSET Packets /\ Cardinality(air) <= MaxAir

(* Reports reach the master: whatever answers are sent in whose name, no   *)
(* remote ever takes another remote's radio for the master's.              *)
RemotesKnowMaster ==
  \A r \in Remotes : arpTable[r][Master] \in {Master, Unknown}

(* "Once remote station responds - we cache its 64bit address": the master *)
(* has the right address for a station, or none.                           *)
ArpTruthful == \A r \in Remotes : arpTable[Master][r] \in {r, Unknown}

(* The master has the addresses of all remotes, and nobody is about to     *)
(* speak, or to be made to speak, in the name of another.                  *)
Impostor(p) ==
  \/ p.kind = "REPORT" /\ p.from # p.sender
  \/ p.kind \in Requests /\ p.to # p.receiver
Settled ==
  /\ \A r \in Remotes : arpTable[Master][r] = r
  /\ \A p \in air : ~Impostor(p)

(* From then on requests are not overheard, and the addresses stay right   *)
(* whatever is lost and whichever remote resets, until the master resets.  *)
StaysSettled == [][Settled => Settled' \/ arpTable'[Master] = NoAddresses]_netVars

=============================================================================
