--------------------------- MODULE MCProvisioning ---------------------------
(***************************************************************************)
(* Files for Provisioning: stations that are skipped, truncated, without   *)
(* channels or named twice, sensors that are skipped, of a station number  *)
(* one too high, or too many.                                              *)
(***************************************************************************)
EXTENDS Provisioning

Section(id, channels, readable) ==
  [id |-> id, channels |-> channels, readable |-> readable]
Probe(station, channel, readable) ==
  [station |-> station, channel |-> channel, readable |-> readable]

SomeFiles ==
  {[stations |-> <<Section(1, 1, TRUE), Section(0, 0, TRUE)>>,
    sensors  |-> <<Probe(0, 1, FALSE), Probe(1, 2, TRUE)>>],
   [stations |-> <<Section(2, 3, TRUE), Section(5, 1, TRUE)>>,
    sensors  |-> <<Probe(3, 1, TRUE), Probe(0, 2, TRUE)>>],
   [stations |-> <<Section(0, 1, TRUE), Section(0, 2, TRUE)>>,
    sensors  |-> <<Probe(0, 0, TRUE), Probe(0, 0, TRUE), Probe(0, 0, TRUE)>>]}

SomeDefaults == <<Probe(0, 1, TRUE)>>

=============================================================================
