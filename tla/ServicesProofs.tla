--------------------------- MODULE ServicesProofs ---------------------------
(***************************************************************************)
(* The parts of MCServices together: a behaviour of all of them is one of  *)
(* each of them, so that what is proved of a part holds in the run.        *)
(***************************************************************************)
EXTENDS MCServices, StationProofs, SensorProofs, TLAPS

(* A step of the parts is one of each part, or leaves it alone.            *)
LEMMA PartSteps ==
  ASSUME [ServicesNext]_servicesVars
  PROVE  /\ [NetNext]_netVars /\ [BoardNext]_boardVars /\ [MeterNext]_meterVars
         /\ [SensorNext]_sensorVars /\ [WaterNext]_waterVars /\ [LoopNext]_loopVars
         /\ [TftpNext]_tftpVars /\ [TimeNext]_timeVars /\ [LogNext]_records
         /\ [WaterLogNext]_waterLogVars /\ [ProvisioningNext]_provisioningVars
         /\ [PanelNext]_panelVars
<1>1. CASE ServicesNext
  BY <1>1 DEF ServicesNext
<1>2. CASE UNCHANGED servicesVars
  BY <1>2 DEF servicesVars
<1> QED
  BY <1>1, <1>2

(* Each part behaves as it is specified, whichever part a behaviour is of  *)
(* (mainLoop and loop, which call them all).                               *)
THEOREM PartsAreSpecified ==
  ServicesSpec =>
    /\ NetSpec /\ BoardSpec /\ MeterSpec /\ SensorSpec /\ WaterSpec /\ LoopSpec
    /\ TftpSpec /\ TimeSpec /\ LogSpec /\ WaterLogSpec /\ ProvisioningSpec /\ PanelSpec
<1>1. ServicesInit =>
        /\ NetInit /\ BoardInit /\ MeterInit /\ SensorInit /\ WaterInit /\ LoopInit
        /\ TftpInit /\ TimeInit /\ LogInit /\ WaterLogInit /\ ProvisioningInit /\ PanelInit
  BY DEF ServicesInit
<1>2. ServicesSpec => NetSpec /\ BoardSpec /\ MeterSpec
  BY <1>1, PartSteps, PTL DEF ServicesSpec, NetSpec, BoardSpec, MeterSpec
<1>3. ServicesSpec => SensorSpec /\ WaterSpec /\ LoopSpec
  BY <1>1, PartSteps, PTL DEF ServicesSpec, SensorSpec, WaterSpec, LoopSpec
<1>4. ServicesSpec => TftpSpec /\ TimeSpec /\ LogSpec
  BY <1>1, PartSteps, PTL DEF ServicesSpec, TftpSpec, TimeSpec, LogSpec
<1>5. ServicesSpec => WaterLogSpec /\ ProvisioningSpec /\ PanelSpec
  BY <1>1, PartSteps, PTL DEF ServicesSpec, WaterLogSpec, ProvisioningSpec, PanelSpec
<1> QED
  BY <1>2, <1>3, <1>4, <1>5

(* Every part keeps its types, for all values of the constants             *)
(* (ServicesTypeOK).                                                       *)
THEOREM ServicesTypeCorrect == ServicesSpec => []ServicesTypeOK
<1>1. ServicesSpec => []NetTypeOK /\ []BoardTypeOK /\ []MeterTypeOK /\ []SensorTypeOK
  BY PartsAreSpecified, NetworkTypeCorrect, BoardTypeCorrect, MeterTypeCorrect, ReadingTypeCorrect
<1>2. ServicesSpec => []WaterTypeOK /\ []LoopTypeOK /\ []TftpTypeOK
  BY PartsAreSpecified, WaterTypeCorrect, LoopTypeCorrect, TftpTypeCorrect
<1>3. ServicesSpec => []TimeTypeOK /\ []ProvisioningTypeOK /\ []PanelTypeOK
  BY PartsAreSpecified, TimeTypeCorrect, ProvisioningTypeCorrect, PanelTypeCorrect
<1>4. /\ NetTypeOK /\ BoardTypeOK /\ MeterTypeOK /\ SensorTypeOK
      /\ WaterTypeOK /\ LoopTypeOK /\ TftpTypeOK
      /\ TimeTypeOK /\ ProvisioningTypeOK /\ PanelTypeOK
      => ServicesTypeOK
  BY DEF ServicesTypeOK
<1> QED
  BY <1>1, <1>2, <1>3, <1>4, PTL

=============================================================================
