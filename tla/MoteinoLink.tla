---------------------------- MODULE MoteinoLink ----------------------------
(***************************************************************************)
(* MoteinoRF.cpp: packets between stations over RFM69 radios, with retries,*)
(* acknowledgements and sequence numbers that let the receiver skip        *)
(* retransmissions of a packet whose acknowledgement was lost.             *)
(*                                                                         *)
(* A station is in its main loop, or inside of sendWithRetry, which keeps  *)
(* it until an acknowledgement or the last timeout.  The radio keeps what  *)
(* it received in one buffer until the station looks at it.  Stations run  *)
(* concurrently; what happens between two uses of a radio is one action.   *)
(*                                                                         *)
(* A definition whose comment starts with "Fault:" is a faulty variant of  *)
(* the definition after it, which nothing uses.                            *)
(***************************************************************************)
EXTENDS Integers, Sequences, FiniteSets

CONSTANTS
  Stations,
  Links,          \* the pairs <<s, d>> such that s sends packets to d
  RETRY_COUNT,    \* NETWORK_MOTEINORF_RETRY_COUNT
  LastNumber,     \* the highest sequence number, 254 in the code
  MaxPackets,     \* packets sent over a link in a behaviour
  Masters,        \* the stations that broadcast the time
  Resetting       \* the stations that may reset

(* The reserved number: "no packet received yet", 255 in the code.         *)
NoNumber == LastNumber + 1

ASSUME LinkAssumption ==
  /\ Links \subseteq {l \in Stations \X Stations : l[1] # l[2]}
  /\ RETRY_COUNT \in Nat /\ LastNumber \in Nat \ {0} /\ MaxPackets \in Nat
  /\ Masters \subseteq Stations
  /\ Resetting \subseteq Stations

VARIABLES
  tx,         \* per station, the packet sendWithRetry is busy with, if any
  rx,         \* per station, the frame in the radio's buffer, if any
  uNextSNumber,          \* per link, the number of its next packet
  uLastReceivedSNumber,  \* per link, the number of the last packet received
  sent,       \* per link, how many packets have been sent
  handled     \* per link, the packets given to ProcessNewFrame, in order

vars == <<tx, rx, uNextSNumber, uLastReceivedSNumber, sent, handled>>

Numbers == 0 .. LastNumber
Sends   == [link : Links, number : Numbers, packet : Nat \ {0},
            left : 0 .. RETRY_COUNT + 1]

(* A data frame carries its sequence number; packet stands for its         *)
(* contents.  An acknowledgement carries nothing.                          *)
Data(l, number, packet) ==
  [kind |-> "data", link |-> l, number |-> number, packet |-> packet]
Ack(l) == [kind |-> "ack", link |-> l, number |-> 0, packet |-> 0]
Broadcast(s) ==
  [kind |-> "broadcast", link |-> <<s, s>>, number |-> 0, packet |-> 0]

Frames == [kind : {"data", "ack"}, link : Links, number : Numbers, packet : Nat]
          \cup {Broadcast(s) : s \in Stations}

Init ==
  /\ tx = [s \in Stations |-> {}]
  /\ rx = [s \in Stations |-> {}]
  /\ uNextSNumber = [l \in Links |-> 0]
  /\ uLastReceivedSNumber = [l \in Links |-> NoNumber]
  /\ sent = [l \in Links |-> 0]
  /\ handled = [l \in Links |-> <<>>]

-----------------------------------------------------------------------------
(* What a radio's buffer may hold after another radio has sent it frame f: *)
(* the frame gets lost, or takes the place of one nobody has read.         *)
AfterFrame(buffer, f) == {buffer, {f}}

Following(n) == IF n = LastNumber THEN 0 ELSE n + 1

(* MoteinoRFSendPacket.                                                    *)
Send(l) ==
  /\ tx[l[1]] = {} /\ sent[l] < MaxPackets
  /\ sent' = [sent EXCEPT ![l] = @ + 1]
  /\ tx' = [tx EXCEPT ![l[1]] =
             {[link |-> l, number |-> uNextSNumber[l], packet |-> sent[l] + 1,
               left |-> RETRY_COUNT + 1]}]
  /\ UNCHANGED <<rx, uNextSNumber, uLastReceivedSNumber, handled>>

(* Fault: every transmission takes a new sequence number.                  *)
TransmitRenumbered(s) ==
  \E t \in tx[s] :
    LET d == t.link[2] IN
    /\ t.left > 0
    /\ tx' = [tx EXCEPT ![s] = {[t EXCEPT !.left = @ - 1, !.number = Following(@)]}]
    /\ \E buffer \in AfterFrame(rx[d], Data(t.link, t.number, t.packet)) :
         rx' = [rx EXCEPT ![s] = {}, ![d] = buffer]
    /\ UNCHANGED <<uNextSNumber, uLastReceivedSNumber, sent, handled>>

(* Fault: the loop that waits for an answer never counts its turns.        *)
TransmitForEver(s) ==
  \E t \in tx[s] :
    LET d == t.link[2] IN
    /\ t.left > 0
    /\ tx' = [tx EXCEPT ![s] = {[t EXCEPT !.left = IF @ = 1 THEN 1 ELSE @ - 1]}]
    /\ \E buffer \in AfterFrame(rx[d], Data(t.link, t.number, t.packet)) :
         rx' = [rx EXCEPT ![s] = {}, ![d] = buffer]
    /\ UNCHANGED <<uNextSNumber, uLastReceivedSNumber, sent, handled>>

(* One turn of sendWithRetry: send forgets what the radio has received.    *)
Transmit(s) ==
  \E t \in tx[s] :
    LET d == t.link[2] IN
    /\ t.left > 0
    /\ tx' = [tx EXCEPT ![s] = {[t EXCEPT !.left = @ - 1]}]
    /\ \E buffer \in AfterFrame(rx[d], Data(t.link, t.number, t.packet)) :
         rx' = [rx EXCEPT ![s] = {}, ![d] = buffer]
    /\ UNCHANGED <<uNextSNumber, uLastReceivedSNumber, sent, handled>>

(* The packet is done with: the number advances, acknowledged or not.      *)
Finish(s, t) ==
  /\ tx' = [tx EXCEPT ![s] = {}]
  /\ uNextSNumber' = [uNextSNumber EXCEPT ![t.link] = Following(@)]
  /\ UNCHANGED <<uLastReceivedSNumber, sent, handled>>

(* ACKReceived: whatever the radio has received is taken, and ignored      *)
(* unless it is an acknowledgement from the station the packet is for.     *)
PollForAck(s) ==
  \E t \in tx[s], f \in rx[s] :
    /\ t.left <= RETRY_COUNT
    /\ rx' = [rx EXCEPT ![s] = {}]
    /\ IF f.kind = "ack" /\ f.link = t.link
       THEN Finish(s, t)
       ELSE UNCHANGED <<tx, uNextSNumber, uLastReceivedSNumber, sent, handled>>

GiveUp(s) ==
  \E t \in tx[s] : t.left = 0 /\ Finish(s, t) /\ UNCHANGED rx

(* Fault: older numbers are taken for duplicates too.                      *)
NotNewer(number, l) ==
  uLastReceivedSNumber[l] # NoNumber /\ number <= uLastReceivedSNumber[l]

IsDuplicate(number, l) == number = uLastReceivedSNumber[l]

(* MoteinoRFClass::loop: acknowledge a packet, then handle it if it is new.*)
Loop(s) ==
  /\ tx[s] = {}
  /\ \E f \in rx[s] :
       IF f.kind = "data"
       THEN /\ \E buffer \in AfterFrame(rx[f.link[1]], Ack(f.link)) :
                 rx' = [rx EXCEPT ![s] = {}, ![f.link[1]] = buffer]
            /\ IF IsDuplicate(f.number, f.link)
               THEN UNCHANGED <<uLastReceivedSNumber, handled>>
               ELSE /\ uLastReceivedSNumber' =
                         [uLastReceivedSNumber EXCEPT ![f.link] = f.number]
                    /\ handled' = [handled EXCEPT ![f.link] = Append(@, f.packet)]
       ELSE /\ rx' = [rx EXCEPT ![s] = {}]
            /\ UNCHANGED <<uLastReceivedSNumber, handled>>
  /\ UNCHANGED <<tx, uNextSNumber, sent>>

(* SendTimeBroadcast: no number, no acknowledgement, no retry.             *)
SendBroadcast(s) ==
  /\ s \in Masters /\ tx[s] = {}
  /\ \E heard \in SUBSET (Stations \ {s}) :
       rx' = [d \in Stations |->
               IF d = s THEN {} ELSE IF d \in heard THEN {Broadcast(s)} ELSE rx[d]]
  /\ UNCHANGED <<tx, uNextSNumber, uLastReceivedSNumber, sent, handled>>

(* A reset: begin() starts all counters anew.                              *)
Reset(s) ==
  /\ s \in Resetting
  /\ tx' = [tx EXCEPT ![s] = {}]
  /\ rx' = [rx EXCEPT ![s] = {}]
  /\ uNextSNumber' =
       [l \in Links |-> IF l[1] = s THEN 0 ELSE uNextSNumber[l]]
  /\ uLastReceivedSNumber' =
       [l \in Links |-> IF l[2] = s THEN NoNumber ELSE uLastReceivedSNumber[l]]
  /\ UNCHANGED <<sent, handled>>

Next ==
  \/ \E l \in Links : Send(l)
  \/ \E s \in Stations :
       \/ Transmit(s) \/ PollForAck(s) \/ GiveUp(s)
       \/ Loop(s) \/ SendBroadcast(s) \/ Reset(s)

Spec == Init /\ [][Next]_vars

(* The retry loop goes on, since the timer it waits for does.              *)
Fairness == \A s \in Stations : WF_vars(Transmit(s)) /\ WF_vars(GiveUp(s))

FairSpec == Spec /\ Fairness

-----------------------------------------------------------------------------
(* At most one packet and one frame per station, numbered as the code      *)
(* numbers them.                                                           *)
TypeOK ==
  /\ tx \in [Stations -> SUBSET Sends]
  /\ rx \in [Stations -> SUBSET Frames]
  /\ \A s \in Stations : Cardinality(tx[s]) <= 1 /\ Cardinality(rx[s]) <= 1
  /\ uNextSNumber \in [Links -> Numbers]
  /\ uLastReceivedSNumber \in [Links -> 0 .. NoNumber]
  /\ sent \in [Links -> 0 .. MaxPackets]
  /\ \A l \in Links : handled[l] \in Seq(1 .. MaxPackets)

(* "allowing receiving end to skip duplicates": the packets of a link are  *)
(* handled in order, each at most once.                                    *)
Delivery == INSTANCE PacketDelivery
              WITH sent <- sent, handled <- handled
InOrderAtMostOnce == Delivery!DeliverySpec

(* "To avoid false positives": a frame about to be skipped as a duplicate  *)
(* carries a packet that has been handled, unless the receiver has missed  *)
(* so many packets that the numbers have come round to the same one, or    *)
(* the sender may have started anew to count.                              *)
OnlyDuplicatesSkipped ==
  \A s \in Stations : \A f \in rx[s] :
    LET done == handled[f.link] IN
    f.kind = "data" /\ f.link[1] \notin Resetting /\ IsDuplicate(f.number, f.link) =>
      \/ \E i \in 1 .. Len(done) : done[i] = f.packet
      \/ done # <<>> /\ f.packet - done[Len(done)] > LastNumber

(* sendWithRetry returns, whatever the radio does: a silent peer does not  *)
(* block the station.                                                      *)
EverySendEnds == \A s \in Stations : tx[s] # {} ~> tx[s] = {}

=============================================================================
