--------------------------- MODULE MCMasterRemote ---------------------------
(* A remote with two zones.                                                *)
EXTENDS MasterRemote, TLC

BothZones == {0 :> 1 @@ 1 :> 1}

=============================================================================
