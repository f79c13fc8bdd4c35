----------------------------- MODULE MCServices -----------------------------
(***************************************************************************)
(* Small instances of the parts that keep no state in common: the XBee     *)
(* network, the sensors, the outputs, the services, the logs, the loading  *)
(* of the configuration and the panel.                                     *)
(* A behaviour is one of a single part; the other parts stay in an initial *)
(* state of theirs.  The properties of all parts are checked in one run.   *)
(***************************************************************************)
EXTENDS XBeeNetwork, SerialBoard, CounterMeter, SensorReadings,
        WaterCounters, MainLoop, TftpServer, TimeService, SensorLog, WateringLog,
        MCProvisioning, Panel

CONSTANTS
  m, r, q,        \* a master and two remotes
  Parts           \* the parts that a behaviour may be of

VARIABLE part

servicesVars ==
  <<part, netVars, boardVars, meterVars, sensorVars, waterVars, loopVars,
    tftpVars, timeVars, records, waterLogVars, provisioningVars, panelVars>>

-----------------------------------------------------------------------------
(* The master lists sensors of its own and of the remote r, not in the     *)
(* order of the remote's own list; q may hear what it asks r.              *)
Sensor(station, channel, flow) ==
  [station |-> station, channel |-> channel, flow |-> flow]

SomeSensors ==
  (m :> <<Sensor(r, 1, FALSE), Sensor(m, 0, FALSE), Sensor(r, 0, TRUE)>>)
  @@ (r :> <<Sensor(r, 3, TRUE), Sensor(r, 2, FALSE)>>)
  @@ (q :> <<Sensor(q, 0, FALSE)>>)

SomeChannels == (m :> <<0>>) @@ (r :> <<2, 3>>) @@ (q :> <<0>>)
SomeOrder    == <<m, r, q>>
SomeRepeats  == (m :> 3) @@ (r :> 1) @@ (q :> 1)
BlockOf(valid, channels) == [valid |-> valid, channels |-> channels]
OneBoard    == BlockOf(TRUE, 1)
FirstBoards == [mine |-> 0, block |-> (0 :> BlockOf(TRUE, 2)) @@ (1 :> BlockOf(TRUE, 0))
                                      @@ (2 :> BlockOf(TRUE, 1))]
SomeBoards  == {FirstBoards, [mine |-> 0, block |-> [b \in Boards |-> BlockOf(FALSE, 0)]]}

SomeValues   == (m :> (0 :> {2})) @@ (q :> (0 :> {-2}))
                @@ (r :> ((2 :> {-1}) @@ (3 :> {1, -4})))
SomeSilent   == (m :> {0}) @@ (r :> {}) @@ (q :> {})
SomeUnsure   == (m :> {}) @@ (r :> {2}) @@ (q :> {})
SomeGarbage  == {-3}

-----------------------------------------------------------------------------
ServicesInit ==
  /\ part \in Parts
  /\ NetInit /\ BoardInit /\ MeterInit /\ SensorInit /\ WaterInit
  /\ LoopInit /\ TftpInit /\ TimeInit /\ LogInit /\ WaterLogInit
  /\ ProvisioningInit /\ PanelInit
  /\ part # "water" => date = 0
  /\ part # "load" => hasCard = FALSE
  /\ part # "time" => offset = 1
  /\ part # "panel" => withCard /\ boards = FirstBoards
  /\ part # "board" => {chain[c] : c \in Channels} \cup
                       {latched[c] : c \in Channels} = {FALSE}

ServicesNext ==
  /\ UNCHANGED part
  /\ IF part = "network"  THEN NetNext      ELSE UNCHANGED netVars
  /\ IF part = "board"    THEN BoardNext    ELSE UNCHANGED boardVars
  /\ IF part = "meter"    THEN MeterNext    ELSE UNCHANGED meterVars
  /\ IF part = "sensors"  THEN SensorNext   ELSE UNCHANGED sensorVars
  /\ IF part = "water"    THEN WaterNext    ELSE UNCHANGED waterVars
  /\ IF part = "loop"     THEN LoopNext     ELSE UNCHANGED loopVars
  /\ IF part = "tftp"     THEN TftpNext     ELSE UNCHANGED tftpVars
  /\ IF part = "time"     THEN TimeNext     ELSE UNCHANGED timeVars
  /\ IF part = "readings" THEN LogNext      ELSE UNCHANGED records
  /\ IF part = "watering" THEN WaterLogNext ELSE UNCHANGED waterLogVars
  /\ IF part = "load"     THEN ProvisioningNext ELSE UNCHANGED provisioningVars
  /\ IF part = "panel"    THEN PanelNext    ELSE UNCHANGED panelVars

ServicesSpec == ServicesInit /\ [][ServicesNext]_servicesVars

-----------------------------------------------------------------------------
(* Every part keeps its types.                                             *)
ServicesTypeOK ==
  /\ NetTypeOK /\ BoardTypeOK /\ MeterTypeOK /\ SensorTypeOK
  /\ WaterTypeOK /\ LoopTypeOK /\ TftpTypeOK /\ TimeTypeOK
  /\ ProvisioningTypeOK /\ PanelTypeOK

=============================================================================
