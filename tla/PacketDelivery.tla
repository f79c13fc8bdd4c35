--------------------------- MODULE PacketDelivery ---------------------------
(***************************************************************************)
(* What the link between stations promises to RProtocol: the packets from  *)
(* one station to another are handled in the order in which they were      *)
(* sent, each at most once.  It does not promise that they arrive.         *)
(***************************************************************************)
EXTENDS Integers, Sequences

CONSTANTS
  Stations,
  Links,        \* the pairs <<s, d>> such that s sends packets to d
  MaxPackets    \* packets sent over a link in a behaviour

VARIABLES
  sent,         \* the number of packets s has sent to d
  handled       \* the numbers of the packets from s that d has handled

DeliveryInit ==
  /\ sent = [l \in Links |-> 0]
  /\ handled = [l \in Links |-> <<>>]

Accept(l) ==
  /\ sent[l] < MaxPackets
  /\ sent' = [sent EXCEPT ![l] = @ + 1]
  /\ UNCHANGED handled

Handle(l) ==
  /\ \E n \in 1 .. sent[l] :
       /\ \A i \in 1 .. Len(handled[l]) : handled[l][i] < n
       /\ handled' = [handled EXCEPT ![l] = Append(@, n)]
  /\ UNCHANGED sent

DeliveryNext == \E l \in Links : Accept(l) \/ Handle(l)

DeliverySpec == DeliveryInit /\ [][DeliveryNext]_<<sent, handled>>

=============================================================================
