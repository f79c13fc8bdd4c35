---------------------------- MODULE ChannelSet ----------------------------
(***************************************************************************)
(* What a board of valves promises (the operations of LocalBoard.h): a     *)
(* command changes one channel, and a restart closes them all.  No valve   *)
(* is ever seen open that nobody opened.                                   *)
(***************************************************************************)
CONSTANT Channels

VARIABLE on       \* the channels whose output is driven

SetInit == on \subseteq Channels

ChannelOn(c) == on' = on \cup {c}

ChannelOff(c) == on' = on \ {c}

AllOff == on' = {}

SetNext == AllOff \/ \E c \in Channels : ChannelOn(c) \/ ChannelOff(c)

SetSpec == SetInit /\ [][SetNext]_on

=============================================================================
