----------------------------- MODULE MCRunState -----------------------------
(***************************************************************************)
(* Small instances of RunState: a master with two local zones (0 and 1,    *)
(* station 0) and one zone of a remote (2, station 1), or only the first   *)
(* of the local ones and the remote's (1).                                 *)
(***************************************************************************)
EXTENDS RunState, TLC

MCStartZoneOf      == 0 :> 0 @@ 1 :> 2
MCNumZoneChannels  == 0 :> 2 @@ 1 :> 1
TwoStartZoneOf     == 0 :> 0 @@ 1 :> 1
TwoNumZoneChannels == 0 :> 1 @@ 1 :> 1

Minutes(a, b, c) == [z \in Zones |-> CASE z = 0 -> a [] z = 1 -> b [] z = 2 -> c]

Sched(times, wadj, d) ==
  [enabled |-> TRUE, wadj |-> wadj, days |-> {0}, times |-> times, duration |-> d]

Garden == Sched({0}, FALSE, Minutes(1, 0, 1))
Lawn   == Sched({1}, TRUE, Minutes(0, 1, 0))
Evening == Sched({4}, TRUE, Minutes(0, 1, 0))
Both   == Sched({1}, TRUE, Minutes(1, 1, 0))
Empty  == [Garden EXCEPT !.enabled = FALSE]

TwoSchedules  == {[nsched |-> 2, slot |-> 0 :> Garden @@ 1 :> Lawn]}
Disjoint      == {[nsched |-> 2, slot |-> 0 :> Garden @@ 1 :> Evening]}
OneSlot       == {[nsched |-> 1, slot |-> 0 :> Both]}
NoSchedules   == {[nsched |-> 0, slot |-> 0 :> Empty @@ 1 :> Empty]}
BothLocal     == {0 :> 1 @@ 1 :> 1}
EditDefs      == {Both, Empty}

=============================================================================
