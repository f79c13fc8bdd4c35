------------------------- MODULE MoteinoLinkProofs -------------------------
(***************************************************************************)
(* Proofs about MoteinoLink, for any number of stations and links and any  *)
(* number of retries: types, what is skipped, and the implementation of    *)
(* PacketDelivery by links whose receivers do not reset.                   *)
(***************************************************************************)
EXTENDS MoteinoLink, FiniteSetTheorems, TLAPS

Lone(S) == \A x, y \in S : x = y

Types ==
  /\ tx \in [Stations -> SUBSET Sends]
  /\ rx \in [Stations -> SUBSET Frames]
  /\ \A s \in Stations : Lone(tx[s]) /\ Lone(rx[s])
  /\ uNextSNumber \in [Links -> Numbers]
  /\ uLastReceivedSNumber \in [Links -> 0 .. NoNumber]
  /\ sent \in [Links -> 0 .. MaxPackets]
  /\ handled \in [Links -> Seq(1 .. MaxPackets)]

(* Receivers lose the last number they have received when they reset.      *)
ReceiversStayUp == \A l \in Links : l[2] \notin Resetting

(* Whatever has been handled came before packet p, or is a copy of it that *)
(* left its number behind.                                                 *)
NoneLater(l, number, p) ==
  \A i \in 1 .. Len(handled[l]) :
    /\ handled[l][i] <= p
    /\ handled[l][i] = p => uLastReceivedSNumber[l] = number

(* Packet p is on its way over link l with the given number.               *)
Fresh(l, number, p) ==
  /\ p \in 1 .. sent[l]
  /\ ReceiversStayUp => NoneLater(l, number, p)

(* A station retries the last packet it has sent over the link.            *)
Sending ==
  \A s \in Stations : \A t \in tx[s] :
    /\ t.link[1] = s
    /\ t.packet = sent[t.link]
    /\ Fresh(t.link, t.number, t.packet)

(* A data frame waits at its receiver; a copy still being sent carries the *)
(* same number.                                                            *)
Waiting ==
  \A d \in Stations : \A f \in rx[d] :
    f.kind = "data" =>
      /\ f.link[2] = d
      /\ Fresh(f.link, f.number, f.packet)
      /\ \A t \in tx[f.link[1]] :
           t.link = f.link /\ t.packet = f.packet => t.number = f.number

PastHandled ==
  \A l \in Links : \A i \in 1 .. Len(handled[l]) : handled[l][i] <= sent[l]

Inv == Types /\ Sending /\ Waiting /\ PastHandled

-----------------------------------------------------------------------------
(* The elements of a sequence.                                             *)
LEMMA ElementType ==
  ASSUME NEW S, NEW q \in Seq(S)
  PROVE  \A i \in 1 .. Len(q) : q[i] \in S
OBVIOUS

(* The fields of a data frame.                                             *)
LEMMA DataFrame ==
  ASSUME NEW f \in Frames, f.kind = "data"
  PROVE  f.link \in Links /\ f.number \in Numbers /\ f.packet \in Nat
<1>1. CASE f \in [kind : {"data", "ack"}, link : Links, number : Numbers, packet : Nat]
  BY <1>1
<1>2. CASE \E s \in Stations : f = Broadcast(s)
  BY <1>2 DEF Broadcast
<1>3. QED
  BY <1>1, <1>2 DEF Frames

(* Data frames and acknowledgements are frames.                            *)
LEMMA FramesMade ==
  ASSUME LinkAssumption, NEW l \in Links, NEW n \in Numbers, NEW p \in Nat
  PROVE  /\ Data(l, n, p) \in Frames /\ Data(l, n, p).kind = "data"
         /\ Data(l, n, p).link = l
         /\ Data(l, n, p).number = n /\ Data(l, n, p).packet = p
         /\ Ack(l) \in Frames /\ Ack(l).kind = "ack"
BY DEF Data, Ack, Frames, Numbers, LinkAssumption

(* The two ends of a link.                                                 *)
LEMMA Ends ==
  ASSUME LinkAssumption, NEW l \in Links
  PROVE  l[1] \in Stations /\ l[2] \in Stations /\ l[1] # l[2]
BY DEF LinkAssumption

(* The number after a sequence number is a sequence number.                *)
LEMMA FollowingNumber ==
  ASSUME LinkAssumption, NEW n \in Numbers
  PROVE  Following(n) \in Numbers /\ n \in 0 .. NoNumber /\ 0 \in Numbers
                                  /\ NoNumber \in 0 .. NoNumber
BY DEF LinkAssumption, Numbers, Following, NoNumber

(* Fresh survives when nothing it speaks of changes.                       *)
LEMMA FreshKept ==
  ASSUME NEW l, NEW n, NEW p, Fresh(l, n, p), UNCHANGED <<sent, handled>>,
         ReceiversStayUp => uLastReceivedSNumber' = uLastReceivedSNumber
  PROVE  Fresh(l, n, p)'
BY DEF Fresh, NoneLater, ReceiversStayUp

(* The initial states satisfy the invariant.                               *)
LEMMA InitInv ==
  ASSUME LinkAssumption, Init
  PROVE  Inv
<1>1. NoNumber \in 0 .. NoNumber /\ 0 \in Numbers /\ 0 \in 0 .. MaxPackets
  BY DEF LinkAssumption, NoNumber, Numbers
<1>2. <<>> \in Seq(1 .. MaxPackets) /\ Len(<<>>) = 0
  OBVIOUS
<1>3. Types
  BY <1>1, <1>2 DEF Init, Types, Lone
<1>4. Sending /\ Waiting
  BY DEF Init, Sending, Waiting
<1>5. PastHandled
  BY <1>2 DEF Init, PastHandled
<1>6. QED
  BY <1>3, <1>4, <1>5 DEF Inv

(* Sending a packet keeps the invariant.                                   *)
LEMMA SendInv ==
  ASSUME LinkAssumption, Inv, NEW l \in Links, Send(l)
  PROVE  Inv'
<1> DEFINE t0 == [link |-> l, number |-> uNextSNumber[l], packet |-> sent[l] + 1,
                  left |-> RETRY_COUNT + 1]
<1>1. /\ l[1] \in Stations /\ tx[l[1]] = {} /\ sent[l] < MaxPackets
      /\ sent[l] \in 0 .. MaxPackets /\ uNextSNumber[l] \in Numbers
  BY Ends DEF Send, Inv, Types
<1>2. sent' = [sent EXCEPT ![l] = sent[l] + 1] /\ tx' = [tx EXCEPT ![l[1]] = {t0}]
  BY DEF Send
<1>3. UNCHANGED <<rx, uNextSNumber, uLastReceivedSNumber, handled>>
  BY DEF Send
<1>4. t0 \in Sends
  BY <1>1 DEF Sends, LinkAssumption
<1>5. /\ t0.link = l /\ t0.number = uNextSNumber[l] /\ t0.packet = sent[l] + 1
  OBVIOUS
<1> HIDE DEF t0
<1>6. sent[l] + 1 \in 0 .. MaxPackets
  BY <1>1 DEF LinkAssumption
<1>7. Types'
  BY <1>1, <1>2, <1>3, <1>4, <1>6 DEF Inv, Types, Lone
<1>8. \A k \in Links : sent[k] \in Nat /\ sent'[k] = IF k = l THEN sent[l] + 1 ELSE sent[k]
  BY <1>2 DEF Inv, Types
<1>9. \A k \in Links, i \in Nat :
        i \in 1 .. Len(handled[k]) => handled[k][i] \in Nat /\ handled[k][i] <= sent[k]
  <2>1. \A k \in Links : handled[k] \in Seq(1 .. MaxPackets)
    BY DEF Inv, Types
  <2>2. QED
    BY <2>1 DEF Inv, PastHandled
<1>10. PastHandled'
  BY <1>3, <1>8, <1>9 DEF PastHandled
<1>11. ASSUME NEW k \in Links, NEW n, NEW p, Fresh(k, n, p)
       PROVE  Fresh(k, n, p)'
  <2>1. p \in 1 .. sent'[k]
    BY <1>8, <1>11 DEF Fresh
  <2>2. QED
    BY <2>1, <1>3, <1>11 DEF Fresh, NoneLater, ReceiversStayUp
<1>12. ASSUME NEW n, NEW p, p = sent[l] + 1
       PROVE  Fresh(l, n, p)'
  <2>1. p \in 1 .. sent'[l] /\ Len(handled[l]) \in Nat
    BY <1>8, <1>12 DEF Inv, Types
  <2>2. \A i \in 1 .. Len(handled[l]) : handled[l][i] < p
    BY <2>1, <1>8, <1>9, <1>12
  <2>3. \A i \in 1 .. Len(handled[l]) : handled[l][i] <= p /\ handled[l][i] # p
    BY <2>1, <2>2, <1>8, <1>9, <1>12
  <2>4. QED
    BY <2>1, <2>3, <1>3 DEF Fresh, NoneLater
<1>13. Sending'
  <2> SUFFICES ASSUME NEW s \in Stations, NEW t \in tx'[s]
               PROVE  /\ t.link[1] = s /\ t.packet = sent'[t.link]
                      /\ Fresh(t.link, t.number, t.packet)'
    BY DEF Sending
  <2>1. CASE s = l[1]
    <3>1. t = t0
      BY <2>1, <1>1, <1>2 DEF Inv, Types
    <3>2. t.link = l /\ t.packet = sent[l] + 1
      BY <3>1, <1>5
    <3>3. QED
      BY <3>2, <2>1, <1>8, <1>12
  <2>2. CASE s # l[1]
    <3>1. t \in tx[s]
      BY <2>2, <1>1, <1>2 DEF Inv, Types
    <3>2. t.link \in Links
      BY <3>1 DEF Inv, Types, Sends
    <3>3. QED
      BY <3>1, <3>2, <2>2, <1>8, <1>11 DEF Inv, Sending
  <2>3. QED
    BY <2>1, <2>2
<1>14. Waiting'
  <2> SUFFICES ASSUME NEW d \in Stations, NEW f \in rx'[d], f.kind = "data"
               PROVE  /\ f.link[2] = d /\ Fresh(f.link, f.number, f.packet)'
                      /\ \A t \in tx'[f.link[1]] :
                           t.link = f.link /\ t.packet = f.packet => t.number = f.number
    BY DEF Waiting
  <2>1. f \in rx[d] /\ f \in Frames
    BY <1>3 DEF Inv, Types
  <2>2. f.link \in Links /\ f.link[1] \in Stations
    BY <2>1, DataFrame, Ends
  <2>3. /\ f.link[2] = d /\ Fresh(f.link, f.number, f.packet)
        /\ \A t \in tx[f.link[1]] :
             t.link = f.link /\ t.packet = f.packet => t.number = f.number
    BY <2>1 DEF Inv, Waiting
  <2>4. f.link = l => f.packet # sent[l] + 1
    BY <2>3, <1>8 DEF Fresh
  <2>5. ASSUME NEW t \in tx'[f.link[1]], t.link = f.link, t.packet = f.packet
        PROVE  t.number = f.number
    <3>1. t \in tx[f.link[1]] \/ t = t0
      BY <2>2, <1>1, <1>2 DEF Inv, Types
    <3>2. t # t0
      BY <2>4, <2>5, <1>5
    <3>3. QED
      BY <3>1, <3>2, <2>3, <2>5
  <2>6. QED
    BY <2>2, <2>3, <2>5, <1>11
<1>15. QED
  BY <1>7, <1>10, <1>13, <1>14 DEF Inv

(* A step that handles and sends no packet keeps the invariant: packets    *)
(* already being sent go on being sent or are done with, and a new data    *)
(* frame is a copy of one of them, on its way to its receiver.             *)
LEMMA QuietStepInv ==
  ASSUME LinkAssumption, Inv, Types',
         UNCHANGED <<sent, handled>>,
         ReceiversStayUp => uLastReceivedSNumber' = uLastReceivedSNumber,
         \A s \in Stations : \A u \in tx'[s] :
           \E t \in tx[s] :
             u.link = t.link /\ u.number = t.number /\ u.packet = t.packet,
         \A d \in Stations : \A f \in rx'[d] :
           f.kind = "data" =>
             \/ f \in rx[d]
             \/ \E s \in Stations : \E t \in tx[s] :
                  t.link[2] = d /\ f = Data(t.link, t.number, t.packet)
  PROVE  Inv'
<1>1. Sending'
  <2> SUFFICES ASSUME NEW s \in Stations, NEW u \in tx'[s]
               PROVE  /\ u.link[1] = s /\ u.packet = sent'[u.link]
                      /\ Fresh(u.link, u.number, u.packet)'
    BY DEF Sending
  <2>1. PICK t \in tx[s] :
          u.link = t.link /\ u.number = t.number /\ u.packet = t.packet
    OBVIOUS
  <2>2. t.link[1] = s /\ t.packet = sent[t.link] /\ Fresh(t.link, t.number, t.packet)
    BY DEF Inv, Sending
  <2>3. QED
    BY <2>1, <2>2, FreshKept
<1>2. Waiting'
  <2> SUFFICES ASSUME NEW d \in Stations, NEW f \in rx'[d], f.kind = "data"
               PROVE  /\ f.link[2] = d /\ Fresh(f.link, f.number, f.packet)'
                      /\ \A u \in tx'[f.link[1]] :
                           u.link = f.link /\ u.packet = f.packet => u.number = f.number
    BY DEF Waiting
  <2>1. f.link[1] \in Stations
    <3>1. f \in Frames
      BY DEF Types
    <3>2. QED
      BY <3>1, DataFrame, Ends
  <2>2. /\ f.link[2] = d /\ Fresh(f.link, f.number, f.packet)
        /\ \A t \in tx[f.link[1]] :
             t.link = f.link /\ t.packet = f.packet => t.number = f.number
    <3>1. CASE f \in rx[d]
      BY <3>1 DEF Inv, Waiting
    <3>2. CASE \E s \in Stations : \E t \in tx[s] :
                 t.link[2] = d /\ f = Data(t.link, t.number, t.packet)
      <4>1. PICK s \in Stations :
              \E t \in tx[s] : t.link[2] = d /\ f = Data(t.link, t.number, t.packet)
        BY <3>2
      <4> PICK t \in tx[s] : t.link[2] = d /\ f = Data(t.link, t.number, t.packet)
        BY <4>1
      <4>2. f.link = t.link /\ f.number = t.number /\ f.packet = t.packet
        BY DEF Data
      <4>3. t.link[1] = s /\ Fresh(t.link, t.number, t.packet)
        BY DEF Inv, Sending
      <4>4. \A v \in tx[s] : v = t
        BY DEF Inv, Types, Lone
      <4>5. QED
        BY <4>2, <4>3, <4>4
    <3>3. QED
      BY <3>1, <3>2
  <2>3. Fresh(f.link, f.number, f.packet)'
    BY <2>2, FreshKept
  <2>4. QED
    BY <2>1, <2>2, <2>3
<1>3. PastHandled'
  BY DEF Inv, PastHandled
<1>4. QED
  BY <1>1, <1>2, <1>3 DEF Inv

(* A turn of the retry loop keeps the invariant.                           *)
LEMMA TransmitInv ==
  ASSUME LinkAssumption, Inv, NEW s \in Stations, Transmit(s)
  PROVE  Inv'
<1>1. PICK t \in tx[s] :
        /\ t.left > 0
        /\ tx' = [tx EXCEPT ![s] = {[t EXCEPT !.left = t.left - 1]}]
        /\ \E buffer \in AfterFrame(rx[t.link[2]], Data(t.link, t.number, t.packet)) :
             rx' = [rx EXCEPT ![s] = {}, ![t.link[2]] = buffer]
  BY DEF Transmit
<1>2. UNCHANGED <<uNextSNumber, uLastReceivedSNumber, sent, handled>>
  BY DEF Transmit
<1>3. t \in Sends /\ t.link[1] = s
  BY DEF Inv, Types, Sending
<1>4. /\ t.link \in Links /\ t.link[2] \in Stations /\ t.link[2] # s
      /\ t.number \in Numbers /\ t.packet \in Nat
  BY <1>3, Ends DEF Sends
<1> DEFINE u == [t EXCEPT !.left = t.left - 1]
           f == Data(t.link, t.number, t.packet)
<1>5. u \in Sends /\ u.link = t.link /\ u.number = t.number /\ u.packet = t.packet
  BY <1>1, <1>3 DEF Sends, LinkAssumption
<1>6. f \in Frames
  BY <1>4, FramesMade
<1>7. tx' = [tx EXCEPT ![s] = {u}]
  BY <1>1
<1>8. PICK buffer : /\ buffer = rx[t.link[2]] \/ buffer = {f}
                    /\ rx' = [rx EXCEPT ![s] = {}, ![t.link[2]] = buffer]
  BY <1>1 DEF AfterFrame
<1> HIDE DEF u, f
<1>9. /\ tx'[s] = {u} /\ \A a \in Stations : a # s => tx'[a] = tx[a]
      /\ tx' \in [Stations -> SUBSET Sends]
  BY <1>5, <1>7 DEF Inv, Types
<1>10. \A d \in Stations : rx'[d] = {} \/ rx'[d] = rx[d]
                             \/ (d = t.link[2] /\ rx'[d] = {f})
  <2>1. PICK e : e = t.link[2]
    OBVIOUS
  <2>2. e \in Stations /\ rx' = [rx EXCEPT ![s] = {}, ![e] = buffer]
    BY <1>4, <1>8, <2>1
  <2>3. buffer = rx[e] \/ buffer = {f}
    BY <1>8, <2>1
  <2>4. \A d \in Stations : rx'[d] = IF d = e THEN buffer ELSE IF d = s THEN {} ELSE rx[d]
    BY <2>2 DEF Inv, Types
  <2>5. QED
    BY <2>1, <2>3, <2>4
<1>11. Types'
  <2>1. rx' \in [Stations -> SUBSET Frames]
    <3>1. buffer \in SUBSET Frames
      BY <1>4, <1>6, <1>8 DEF Inv, Types
    <3>2. QED
      BY <3>1, <1>8 DEF Inv, Types
  <2>2. Lone({}) /\ Lone({u}) /\ Lone({f})
    BY DEF Lone
  <2>3. \A d \in Stations : Lone(tx[d]) /\ Lone(rx[d])
    BY DEF Inv, Types
  <2>4. \A d \in Stations : Lone(tx'[d]) /\ Lone(rx'[d])
    BY <1>9, <1>10, <2>2, <2>3
  <2>5. QED
    BY <2>1, <2>4, <1>2, <1>9 DEF Inv, Types
<1>12. \A a \in Stations : \A v \in tx'[a] : \E w \in tx[a] :
         v.link = w.link /\ v.number = w.number /\ v.packet = w.packet
  BY <1>5, <1>9
<1>13. \A d \in Stations : \A g \in rx'[d] :
         g \in rx[d] \/ (d = t.link[2] /\ g = Data(t.link, t.number, t.packet))
  BY <1>10 DEF f
<1>14. QED
  BY <1>2, <1>11, <1>12, <1>13, QuietStepInv

(* The end of a send keeps the invariant.                                  *)
LEMMA FinishInv ==
  ASSUME LinkAssumption, Inv, NEW s \in Stations, NEW t \in tx[s], Finish(s, t),
         rx' = rx \/ rx' = [rx EXCEPT ![s] = {}]
  PROVE  Inv'
<1>1. /\ tx' = [tx EXCEPT ![s] = {}]
      /\ uNextSNumber' = [uNextSNumber EXCEPT ![t.link] = Following(uNextSNumber[t.link])]
      /\ UNCHANGED <<uLastReceivedSNumber, sent, handled>>
  BY DEF Finish
<1>2. uNextSNumber' \in [Links -> Numbers]
  <2>1. t.link \in Links
    BY DEF Inv, Types, Sends
  <2>2. Following(uNextSNumber[t.link]) \in Numbers
    BY <2>1, FollowingNumber DEF Inv, Types
  <2>3. QED
    BY <1>1, <2>2 DEF Inv, Types
<1>3. /\ \A a \in Stations : tx'[a] \subseteq tx[a] /\ (tx'[a] = {} \/ tx'[a] = tx[a])
      /\ tx' \in [Stations -> SUBSET Sends]
  BY <1>1 DEF Inv, Types
<1>4. /\ \A a \in Stations : rx'[a] \subseteq rx[a] /\ (rx'[a] = {} \/ rx'[a] = rx[a])
      /\ rx' \in [Stations -> SUBSET Frames]
  BY DEF Inv, Types
<1>5. Types'
  BY <1>1, <1>2, <1>3, <1>4 DEF Inv, Types, Lone
<1>6. QED
  BY <1>1, <1>3, <1>4, <1>5, QuietStepInv

(* What the retry loop makes of a received frame keeps the invariant.      *)
LEMMA PollForAckInv ==
  ASSUME LinkAssumption, Inv, NEW s \in Stations, PollForAck(s)
  PROVE  Inv'
<1>1. rx' = [rx EXCEPT ![s] = {}]
  BY DEF PollForAck
<1>2. CASE \E t \in tx[s] : Finish(s, t)
  BY <1>1, <1>2, FinishInv
<1>3. CASE UNCHANGED <<tx, uNextSNumber, uLastReceivedSNumber, sent, handled>>
  <2>1. /\ \A a \in Stations : rx'[a] \subseteq rx[a] /\ (rx'[a] = {} \/ rx'[a] = rx[a])
        /\ rx' \in [Stations -> SUBSET Frames]
    BY <1>1 DEF Inv, Types
  <2>2. Types'
    BY <1>3, <2>1 DEF Inv, Types, Lone
  <2>3. QED
    BY <1>3, <2>1, <2>2, QuietStepInv
<1>4. QED
  BY <1>2, <1>3 DEF PollForAck

(* A time broadcast keeps the invariant.                                   *)
LEMMA SendBroadcastInv ==
  ASSUME LinkAssumption, Inv, NEW s \in Stations, SendBroadcast(s)
  PROVE  Inv'
<1>1. PICK heard \in SUBSET (Stations \ {s}) :
        rx' = [d \in Stations |->
                IF d = s THEN {} ELSE IF d \in heard THEN {Broadcast(s)} ELSE rx[d]]
  BY DEF SendBroadcast
<1>2. UNCHANGED <<tx, uNextSNumber, uLastReceivedSNumber, sent, handled>>
  BY DEF SendBroadcast
<1>3. Broadcast(s) \in Frames /\ Broadcast(s).kind # "data"
  BY DEF Frames, Broadcast
<1>4. \A d \in Stations : rx'[d] = {} \/ rx'[d] = rx[d] \/ rx'[d] = {Broadcast(s)}
  BY <1>1
<1>5. Types'
  <2>1. \A d \in Stations : rx'[d] \in SUBSET Frames
    BY <1>3, <1>4 DEF Inv, Types
  <2>2. rx' \in [Stations -> SUBSET Frames]
    BY <1>1, <2>1
  <2>3. Lone({}) /\ Lone({Broadcast(s)})
    BY DEF Lone
  <2>4. \A d \in Stations : Lone(rx[d]) /\ Lone(tx'[d])
    BY <1>2 DEF Inv, Types
  <2>5. \A d \in Stations : Lone(rx'[d])
    BY <1>4, <2>3, <2>4
  <2>6. QED
    BY <2>2, <2>4, <2>5, <1>2 DEF Inv, Types
<1>6. \A d \in Stations : \A f \in rx'[d] : f.kind = "data" => f \in rx[d]
  BY <1>3, <1>4
<1>7. QED
  BY <1>2, <1>5, <1>6, QuietStepInv

(* A reset keeps the invariant.                                            *)
LEMMA ResetInv ==
  ASSUME LinkAssumption, Inv, NEW s \in Stations, Reset(s)
  PROVE  Inv'
<1>1. /\ ReceiversStayUp => uLastReceivedSNumber' = uLastReceivedSNumber
      /\ uLastReceivedSNumber' \in [Links -> 0 .. NoNumber]
  <2>1. ReceiversStayUp => \A l \in Links : l[2] # s
    BY DEF ReceiversStayUp, Reset
  <2>2. NoNumber \in 0 .. NoNumber
    BY DEF NoNumber, LinkAssumption
  <2>3. QED
    BY <2>1, <2>2 DEF Reset, Inv, Types
<1>2. uNextSNumber' \in [Links -> Numbers]
  <2>1. 0 \in Numbers
    BY DEF Numbers, LinkAssumption
  <2>2. QED
    BY <2>1 DEF Reset, Inv, Types
<1>3. /\ tx' = [tx EXCEPT ![s] = {}] /\ rx' = [rx EXCEPT ![s] = {}]
      /\ UNCHANGED <<sent, handled>>
  BY DEF Reset
<1>4. \A a \in Stations : /\ tx'[a] \subseteq tx[a] /\ (tx'[a] = {} \/ tx'[a] = tx[a])
                          /\ rx'[a] \subseteq rx[a] /\ (rx'[a] = {} \/ rx'[a] = rx[a])
  BY <1>3 DEF Inv, Types
<1>5. tx' \in [Stations -> SUBSET Sends] /\ rx' \in [Stations -> SUBSET Frames]
  BY <1>3 DEF Inv, Types
<1>6. Types'
  BY <1>1, <1>2, <1>3, <1>4, <1>5 DEF Inv, Types, Lone
<1>7. QED
  BY <1>1, <1>3, <1>4, <1>6, QuietStepInv

(* A station handles a data frame that is not a duplicate; it has handled  *)
(* nothing of its link but earlier packets.                                *)
LEMMA NewPacketIsLater ==
  ASSUME Inv, NEW s \in Stations, NEW f \in rx[s], f.kind = "data",
         ~IsDuplicate(f.number, f.link)
  PROVE  /\ f.link \in Links /\ f.number \in Numbers /\ f.link[2] = s
         /\ f.packet \in 1 .. sent[f.link]
         /\ ReceiversStayUp =>
              \A i \in 1 .. Len(handled[f.link]) : handled[f.link][i] < f.packet
<1>1. f \in Frames
  BY DEF Inv, Types
<1>2. f.link \in Links /\ f.number \in Numbers
  BY <1>1, DataFrame
<1>3. f.link[2] = s /\ Fresh(f.link, f.number, f.packet)
  BY DEF Inv, Waiting
<1>4. handled[f.link] \in Seq(1 .. MaxPackets) /\ sent[f.link] \in 0 .. MaxPackets
  BY <1>2 DEF Inv, Types
<1>5. /\ f.packet \in 1 .. sent[f.link] /\ f.packet \in Nat
      /\ \A i \in 1 .. Len(handled[f.link]) : handled[f.link][i] \in Nat
  <2>1. f.packet \in 1 .. sent[f.link] /\ sent[f.link] \in Int
    BY <1>3, <1>4 DEF Fresh
  <2>2. f.packet \in Nat
    BY <2>1
  <2>3. \A i \in 1 .. Len(handled[f.link]) : handled[f.link][i] \in 1 .. MaxPackets
    BY <1>4, ElementType
  <2>4. QED
    BY <2>1, <2>2, <2>3, LinkAssumption DEF LinkAssumption
<1>6. ASSUME ReceiversStayUp, NEW i \in 1 .. Len(handled[f.link])
      PROVE  handled[f.link][i] < f.packet
  <2>1. handled[f.link][i] <= f.packet /\ handled[f.link][i] # f.packet
    BY <1>3, <1>6 DEF Fresh, NoneLater, IsDuplicate
  <2>2. QED
    BY <2>1, <1>5
<1>7. QED
  BY <1>2, <1>3, <1>5, <1>6

(* The last element of a sequence and the others.                          *)
LEMMA Appended ==
  ASSUME NEW S, NEW q \in Seq(S), NEW x \in S
  PROVE  /\ Append(q, x) \in Seq(S)
         /\ \A i \in 1 .. Len(Append(q, x)) :
              \/ i \in 1 .. Len(q) /\ Append(q, x)[i] = q[i]
              \/ Append(q, x)[i] = x
         /\ \E i \in 1 .. Len(Append(q, x)) : Append(q, x)[i] = x
<1>1. Len(q) \in Nat /\ Len(Append(q, x)) = Len(q) + 1 /\ Append(q, x)[Len(q) + 1] = x
  OBVIOUS
<1>2. Append(q, x) \in Seq(S)
  OBVIOUS
<1>3. \A i \in 1 .. Len(q) : Append(q, x)[i] = q[i]
  OBVIOUS
<1>4. \A i \in 1 .. Len(Append(q, x)) : i \in 1 .. Len(q) \/ i = Len(q) + 1
  BY <1>1
<1>5. Len(q) + 1 \in 1 .. Len(Append(q, x))
  BY <1>1
<1>6. Append(q, x)[Len(q) + 1] = x
  BY <1>1
<1>7. QED
  BY <1>2, <1>3, <1>4, <1>5, <1>6

(* Handling a new packet keeps the invariant.                              *)
LEMMA HandleInv ==
  ASSUME LinkAssumption, Inv, NEW s \in Stations, NEW f \in rx[s], f.kind = "data",
         ~IsDuplicate(f.number, f.link),
         uLastReceivedSNumber' = [uLastReceivedSNumber EXCEPT ![f.link] = f.number],
         handled' = [handled EXCEPT ![f.link] = Append(handled[f.link], f.packet)],
         UNCHANGED <<tx, uNextSNumber, sent>>,
         rx' \in [Stations -> SUBSET Frames], rx'[s] = {},
         \A d \in Stations : Lone(rx'[d]),
         \A d \in Stations : \A g \in rx'[d] : g.kind = "data" => g \in rx[d]
  PROVE  Inv'
<1> DEFINE l == f.link
           p == f.packet
<1>1. /\ l \in Links /\ f.number \in Numbers /\ l[2] = s /\ p \in 1 .. sent[l]
      /\ ReceiversStayUp => \A i \in 1 .. Len(handled[l]) : handled[l][i] < p
  BY NewPacketIsLater
<1>2. handled[l] \in Seq(1 .. MaxPackets) /\ sent[l] \in 0 .. MaxPackets
  BY <1>1 DEF Inv, Types
<1>3. p \in 1 .. MaxPackets /\ p \in Nat /\ p <= sent[l]
  BY <1>1, <1>2 DEF LinkAssumption
<1>4. handled' = [handled EXCEPT ![l] = Append(handled[l], p)]
  OBVIOUS
<1>5. uLastReceivedSNumber' = [uLastReceivedSNumber EXCEPT ![l] = f.number]
  OBVIOUS
<1>6. \A g : g \in rx[s] => g = f
  BY DEF Inv, Types, Lone
<1>7. \A t \in tx[l[1]] : t.link = l /\ t.packet = p => t.number = f.number
  BY DEF Inv, Waiting
<1> HIDE DEF l, p
<1>8. /\ handled'[l] = Append(handled[l], p)
      /\ \A k \in Links : k # l => handled'[k] = handled[k]
      /\ uLastReceivedSNumber'[l] = f.number
      /\ \A k \in Links : k # l => uLastReceivedSNumber'[k] = uLastReceivedSNumber[k]
  BY <1>1, <1>4, <1>5 DEF Inv, Types
<1>9. \A i \in 1 .. Len(handled'[l]) :
        \/ i \in 1 .. Len(handled[l]) /\ handled'[l][i] = handled[l][i]
        \/ handled'[l][i] = p
  BY <1>2, <1>3, <1>8, Appended
<1>10. \A i \in 1 .. Len(handled'[l]) :
         /\ handled'[l][i] \in Nat /\ handled'[l][i] <= sent[l]
         /\ ReceiversStayUp => handled'[l][i] <= p
  <2>1. \A i \in 1 .. Len(handled[l]) : handled[l][i] \in Nat
    BY <1>2
  <2>2. \A i \in 1 .. Len(handled[l]) : handled[l][i] <= sent[l]
    BY <1>1 DEF Inv, PastHandled
  <2>3. QED
    BY <2>1, <2>2, <1>1, <1>3, <1>9
<1>11. Types'
  <2>1. f.number \in 0 .. NoNumber
    BY <1>1, FollowingNumber
  <2>2. uLastReceivedSNumber' \in [Links -> 0 .. NoNumber]
    BY <2>1, <1>5 DEF Inv, Types
  <2>3. Append(handled[l], p) \in Seq(1 .. MaxPackets)
    BY <1>2, <1>3, Appended
  <2>4. handled' \in [Links -> Seq(1 .. MaxPackets)]
    BY <2>3, <1>4 DEF Inv, Types
  <2>5. QED
    BY <2>2, <2>4 DEF Inv, Types
<1>12. PastHandled'
  <2> SUFFICES ASSUME NEW k \in Links, NEW i \in 1 .. Len(handled'[k])
               PROVE  handled'[k][i] <= sent[k]
    BY DEF PastHandled
  <2>1. CASE k = l
    BY <2>1, <1>2, <1>3, <1>10
  <2>2. CASE k # l
    BY <2>2, <1>8 DEF Inv, PastHandled
  <2>3. QED
    BY <2>1, <2>2
<1>13. ASSUME NEW k \in Links, k # l, NEW n, NEW x, Fresh(k, n, x)
       PROVE  Fresh(k, n, x)'
  BY <1>8, <1>13 DEF Fresh, NoneLater, ReceiversStayUp
<1>14. Sending'
  <2> SUFFICES ASSUME NEW a \in Stations, NEW t \in tx[a]
               PROVE  /\ t.link[1] = a /\ t.packet = sent[t.link]
                      /\ Fresh(t.link, t.number, t.packet)'
    BY DEF Sending
  <2>1. /\ t.link \in Links /\ t.link[1] = a /\ t.packet = sent[t.link]
        /\ Fresh(t.link, t.number, t.packet)
    BY DEF Inv, Sending, Types, Sends
  <2>2. CASE t.link = l
    <3>1. t.packet \in 1 .. sent'[l] /\ p <= t.packet /\ t.packet \in Nat
      BY <2>1, <2>2, <1>2, <1>3 DEF Fresh
    <3>2. t.packet = p => t.number = f.number
      BY <2>1, <2>2, <1>7
    <3>3. ReceiversStayUp =>
            \A i \in 1 .. Len(handled'[l]) :
              /\ handled'[l][i] <= t.packet
              /\ handled'[l][i] = t.packet => t.packet = p
      BY <3>1, <1>3, <1>10
    <3>4. QED
      BY <3>1, <3>2, <3>3, <2>1, <2>2, <1>8 DEF Fresh, NoneLater, ReceiversStayUp
  <2>3. CASE t.link # l
    BY <2>1, <2>3, <1>13
  <2>4. QED
    BY <2>2, <2>3
<1>15. Waiting'
  <2> SUFFICES ASSUME NEW d \in Stations, NEW g \in rx'[d], g.kind = "data"
               PROVE  /\ g.link[2] = d /\ Fresh(g.link, g.number, g.packet)'
                      /\ \A t \in tx[g.link[1]] :
                           t.link = g.link /\ t.packet = g.packet => t.number = g.number
    BY DEF Waiting
  <2>1. g \in rx[d] /\ d # s
    OBVIOUS
  <2>2. /\ g.link[2] = d /\ Fresh(g.link, g.number, g.packet)
        /\ \A t \in tx[g.link[1]] :
             t.link = g.link /\ t.packet = g.packet => t.number = g.number
    BY <2>1 DEF Inv, Waiting
  <2>3. g.link # l /\ g.link \in Links
    <3>1. g \in Frames
      BY <2>1 DEF Inv, Types
    <3>2. QED
      BY <3>1, <2>1, <2>2, <1>1, DataFrame
  <2>4. QED
    BY <2>2, <2>3, <1>13
<1>16. QED
  BY <1>11, <1>12, <1>14, <1>15 DEF Inv

(* A call of MoteinoRFClass::loop keeps the invariant.                     *)
LEMMA LoopInv ==
  ASSUME LinkAssumption, Inv, NEW s \in Stations, Loop(s)
  PROVE  Inv'
<1>1. PICK f \in rx[s] :
        IF f.kind = "data"
        THEN /\ \E buffer \in AfterFrame(rx[f.link[1]], Ack(f.link)) :
                  rx' = [rx EXCEPT ![s] = {}, ![f.link[1]] = buffer]
             /\ IF IsDuplicate(f.number, f.link)
                THEN UNCHANGED <<uLastReceivedSNumber, handled>>
                ELSE /\ uLastReceivedSNumber' =
                          [uLastReceivedSNumber EXCEPT ![f.link] = f.number]
                     /\ handled' = [handled EXCEPT
                                      ![f.link] = Append(handled[f.link], f.packet)]
        ELSE /\ rx' = [rx EXCEPT ![s] = {}]
             /\ UNCHANGED <<uLastReceivedSNumber, handled>>
  BY DEF Loop
<1>2. UNCHANGED <<tx, uNextSNumber, sent>>
  BY DEF Loop
<1>3. /\ rx' \in [Stations -> SUBSET Frames] /\ rx'[s] = {}
      /\ \A d \in Stations : Lone(rx'[d])
      /\ \A d \in Stations : \A g \in rx'[d] : g.kind = "data" => g \in rx[d]
  <2>1. CASE f.kind = "data"
    <3>1. f.link \in Links /\ f.link[2] = s
      <4>1. f \in Frames
        BY DEF Inv, Types
      <4>2. QED
        BY <4>1, <2>1, DataFrame DEF Inv, Waiting
    <3>2. PICK e : e = f.link[1]
      OBVIOUS
    <3>3. e \in Stations /\ e # s
      BY <3>1, <3>2, Ends
    <3>4. PICK buffer : /\ buffer = rx[e] \/ buffer = {Ack(f.link)}
                        /\ rx' = [rx EXCEPT ![s] = {}, ![e] = buffer]
      BY <1>1, <2>1, <3>2 DEF AfterFrame
    <3>5. Ack(f.link) \in Frames /\ Ack(f.link).kind # "data"
      BY <3>1 DEF Ack, Frames, Numbers, LinkAssumption
    <3>6. buffer \in SUBSET Frames
      BY <3>3, <3>4, <3>5 DEF Inv, Types
    <3>7. rx' \in [Stations -> SUBSET Frames]
      BY <3>4, <3>6 DEF Inv, Types
    <3>8. \A d \in Stations : rx'[d] = IF d = e THEN buffer ELSE IF d = s THEN {} ELSE rx[d]
      BY <3>4 DEF Inv, Types
    <3>9. Lone({}) /\ Lone({Ack(f.link)}) /\ \A d \in Stations : Lone(rx[d])
      BY DEF Lone, Inv, Types
    <3>10. \A d \in Stations : Lone(rx'[d])
      BY <3>3, <3>4, <3>8, <3>9
    <3>11. \A d \in Stations : \A g \in rx'[d] : g.kind = "data" => g \in rx[d]
      BY <3>3, <3>4, <3>5, <3>8
    <3>12. QED
      BY <3>3, <3>7, <3>8, <3>10, <3>11
  <2>2. CASE f.kind # "data"
    <3>1. rx' = [rx EXCEPT ![s] = {}]
      BY <1>1, <2>2
    <3>2. QED
      BY <3>1 DEF Inv, Types, Lone
  <2>3. QED
    BY <2>1, <2>2
<1>4. CASE UNCHANGED <<uLastReceivedSNumber, handled>>
  <2>1. Types'
    BY <1>2, <1>3, <1>4 DEF Inv, Types
  <2>2. QED
    BY <2>1, <1>2, <1>3, <1>4, QuietStepInv
<1>5. CASE f.kind = "data" /\ ~IsDuplicate(f.number, f.link)
  BY <1>1, <1>2, <1>3, <1>5, HandleInv
<1>6. QED
  BY <1>1, <1>4, <1>5

(* Every step keeps the invariant.                                         *)
LEMMA StepInv ==
  ASSUME LinkAssumption, Inv, [Next]_vars
  PROVE  Inv'
<1>1. CASE \E l \in Links : Send(l)
  BY <1>1, SendInv
<1>2. ASSUME NEW s \in Stations, Transmit(s)
      PROVE  Inv'
  BY <1>2, TransmitInv
<1>3. ASSUME NEW s \in Stations, PollForAck(s)
      PROVE  Inv'
  BY <1>3, PollForAckInv
<1>4. ASSUME NEW s \in Stations, GiveUp(s)
      PROVE  Inv'
  BY <1>4, FinishInv DEF GiveUp
<1>5. ASSUME NEW s \in Stations, Loop(s)
      PROVE  Inv'
  BY <1>5, LoopInv
<1>6. ASSUME NEW s \in Stations, SendBroadcast(s)
      PROVE  Inv'
  BY <1>6, SendBroadcastInv
<1>7. ASSUME NEW s \in Stations, Reset(s)
      PROVE  Inv'
  BY <1>7, ResetInv
<1>8. CASE UNCHANGED vars
  <2>1. UNCHANGED <<tx, rx, uNextSNumber, uLastReceivedSNumber, sent, handled>>
    BY <1>8 DEF vars
  <2>2. Types'
    BY <2>1 DEF Inv, Types
  <2>3. QED
    BY <2>1, <2>2, QuietStepInv
<1>9. QED
  BY <1>1, <1>2, <1>3, <1>4, <1>5, <1>6, <1>7, <1>8 DEF Next

(* The invariant holds in all reachable states.                            *)
LEMMA InvHolds == Spec => []Inv
<1> USE LinkAssumption
<1>1. Init => Inv
  BY InitInv
<1>2. Inv /\ [Next]_vars => Inv'
  BY StepInv
<1>3. QED
  BY <1>1, <1>2, PTL DEF Spec

-----------------------------------------------------------------------------
(* A set without two different elements has at most one.                   *)
LEMMA LoneCardinality ==
  ASSUME NEW S, Lone(S)
  PROVE  Cardinality(S) <= 1
<1>1. CASE S = {}
  BY <1>1, FS_EmptySet
<1>2. CASE S # {}
  <2>1. PICK x \in S : TRUE
    BY <1>2
  <2>2. S = {x}
    BY <2>1 DEF Lone
  <2>3. QED
    BY <2>2, FS_Singleton
<1>3. QED
  BY <1>1, <1>2

(* The variables of MoteinoRF.cpp keep their types: a station has at most  *)
(* one packet in sendWithRetry and one frame in its radio, and no sequence *)
(* number but the reserved one exceeds LastNumber.                         *)
THEOREM LinkTypeCorrect == Spec => []TypeOK
<1> USE LinkAssumption
<1>1. Inv => TypeOK
  BY LoneCardinality DEF Inv, Types, TypeOK
<1>2. QED
  BY <1>1, InvHolds, PTL

(* The link between two stations, of which the receiver does not reset,    *)
(* hands the packets to RProtocol in order and each at most once, whatever *)
(* the radio loses, however often a packet is retried and wherever the     *)
(* sequence numbers wrap.                                                  *)
THEOREM ImplementsDelivery ==
  ReceiversStayUp => (Spec => InOrderAtMostOnce)
<1> SUFFICES ASSUME ReceiversStayUp
             PROVE  Spec => InOrderAtMostOnce
  OBVIOUS
<1> USE LinkAssumption
<1>1. Init => Delivery!DeliveryInit
  BY DEF Init, Delivery!DeliveryInit
<1>2. ASSUME Inv, [Next]_vars
      PROVE  [Delivery!DeliveryNext]_<<sent, handled>>
  <2>1. ASSUME NEW l \in Links, Send(l)
        PROVE  Delivery!Accept(l)
    BY <2>1 DEF Send, Delivery!Accept
  <2>2. ASSUME NEW s \in Stations, Loop(s)
        PROVE  (\E l \in Links : Delivery!Handle(l)) \/ UNCHANGED <<sent, handled>>
    <3>1. PICK f \in rx[s] :
            \/ handled' = handled
            \/ /\ f.kind = "data" /\ ~IsDuplicate(f.number, f.link)
               /\ handled' = [handled EXCEPT
                                ![f.link] = Append(handled[f.link], f.packet)]
      BY <2>2 DEF Loop
    <3>2. sent' = sent
      BY <2>2 DEF Loop
    <3>3. CASE handled' = handled
      BY <3>2, <3>3
    <3>4. CASE f.kind = "data" /\ ~IsDuplicate(f.number, f.link) /\ handled' # handled
      <4>1. /\ f.link \in Links /\ f.packet \in 1 .. sent[f.link]
            /\ \A i \in 1 .. Len(handled[f.link]) : handled[f.link][i] < f.packet
        BY <1>2, <3>4, NewPacketIsLater
      <4>2. Delivery!Handle(f.link)
        BY <3>1, <3>2, <3>4, <4>1 DEF Delivery!Handle
      <4>3. QED
        BY <4>1, <4>2
    <3>5. QED
      BY <3>1, <3>3, <3>4
  <2>3. ASSUME NEW s \in Stations,
               Transmit(s) \/ PollForAck(s) \/ GiveUp(s) \/ SendBroadcast(s) \/ Reset(s)
        PROVE  UNCHANGED <<sent, handled>>
    BY <2>3 DEF Transmit, PollForAck, GiveUp, Finish, SendBroadcast, Reset
  <2>4. CASE UNCHANGED vars
    BY <2>4 DEF vars
  <2>5. QED
    BY <1>2, <2>1, <2>2, <2>3, <2>4 DEF Next, Delivery!DeliveryNext
<1>3. QED
  BY <1>1, <1>2, InvHolds, PTL DEF Spec, InOrderAtMostOnce, Delivery!DeliverySpec

-----------------------------------------------------------------------------
(* Packet p has number n: the numbers go round.                            *)
Numbered(p, n) == \E k \in Nat : p = k * (LastNumber + 1) + n + 1

(* The sender of the link does not start anew to count.                    *)
Steady(l) == l[1] \notin Resetting

BusyWith(l) == \E t \in tx[l[1]] : t.link = l

(* The number uNextSNumber stands for the packet that is being sent, or    *)
(* for the one to be sent next.                                            *)
Counting ==
  \A l \in Links : Steady(l) =>
    /\ Numbered(IF BusyWith(l) THEN sent[l] ELSE sent[l] + 1, uNextSNumber[l])
    /\ \A t \in tx[l[1]] : t.link = l => t.number = uNextSNumber[l]

(* A waiting data frame carries the number of its packet, and nothing      *)
(* later has been handled.                                                 *)
Carried ==
  \A d \in Stations : \A f \in rx[d] :
    f.kind = "data" =>
      /\ Steady(f.link) => Numbered(f.packet, f.number)
      /\ \A i \in 1 .. Len(handled[f.link]) : handled[f.link][i] <= f.packet

(* The number a receiver remembers is that of the last packet handled.     *)
Remembered ==
  \A l \in Links : Steady(l) /\ uLastReceivedSNumber[l] # NoNumber =>
    /\ Len(handled[l]) > 0
    /\ Numbered(handled[l][Len(handled[l])], uLastReceivedSNumber[l])

NumberInv == Inv /\ Counting /\ Carried /\ Remembered

(* One factor more by one.                                                 *)
LEMMA OneMoreTimes ==
  ASSUME NEW a \in Nat, NEW x \in Nat
  PROVE  (a + 1) * x = a * x + x /\ a * x \in Nat
OBVIOUS

(* The next packet has the next number.                                    *)
LEMMA NumberedNext ==
  ASSUME LinkAssumption, NEW p \in Nat, NEW n \in Numbers, Numbered(p, n)
  PROVE  Numbered(p + 1, Following(n))
<1> DEFINE M == LastNumber + 1
<1>1. LastNumber \in Nat /\ M \in Nat /\ n \in Nat
  BY DEF LinkAssumption, Numbers
<1>2. PICK k \in Nat : p = k * M + n + 1
  BY DEF Numbered
<1>3. k * M \in Nat /\ (k + 1) * M = k * M + M
  BY <1>1, OneMoreTimes
<1>4. CASE n = LastNumber
  <2>1. Following(n) = 0 /\ M = n + 1
    BY <1>4 DEF Following
  <2> HIDE DEF M
  <2>2. p + 1 = (k + 1) * M + 0 + 1 /\ k + 1 \in Nat
    BY <1>1, <1>2, <1>3, <2>1
  <2> QED
    BY <2>1, <2>2 DEF Numbered, M
<1>5. CASE n # LastNumber
  <2>1. Following(n) = n + 1
    BY <1>5 DEF Following
  <2> HIDE DEF M
  <2>2. p + 1 = k * M + (n + 1) + 1
    BY <1>1, <1>2, <1>3
  <2> QED
    BY <2>1, <2>2 DEF Numbered, M
<1> QED
  BY <1>4, <1>5

(* Two packets of the same number are a whole round apart.                 *)
LEMMA RoundApart ==
  ASSUME LinkAssumption, NEW p \in Nat, NEW q \in Nat, NEW n \in Numbers,
         Numbered(p, n), Numbered(q, n), p < q
  PROVE  q - p > LastNumber
<1> DEFINE M == LastNumber + 1
<1>1. LastNumber \in Nat /\ M \in Nat /\ n \in Nat
  BY DEF LinkAssumption, Numbers
<1>2. PICK k \in Nat : p = k * M + n + 1
  BY DEF Numbered
<1>3. PICK j \in Nat : q = j * M + n + 1
  BY DEF Numbered
<1> HIDE DEF M
<1>4. \A a, b \in Nat : a <= b => /\ a * M \in Nat /\ b * M \in Nat
                                 /\ a * M <= b * M
  <2> SUFFICES ASSUME NEW a \in Nat, NEW b \in Nat, a <= b
               PROVE  a * M \in Nat /\ b * M \in Nat /\ a * M <= b * M
    OBVIOUS
  <2>1. PICK d \in Nat : b = a + d
    <3>1. b - a \in Nat /\ b = a + (b - a)
      OBVIOUS
    <3> QED
      BY <3>1
  <2>2. b * M = a * M + d * M /\ a * M \in Nat /\ d * M \in Nat
    BY <1>1, <2>1
  <2> QED
    BY <2>2
<1>5. ~(j <= k)
  <2> SUFFICES ASSUME j <= k PROVE FALSE
    OBVIOUS
  <2>1. j * M \in Nat /\ k * M \in Nat /\ j * M <= k * M
    BY <1>4
  <2> QED
    BY <2>1, <1>1, <1>2, <1>3
<1>6. k + 1 <= j /\ k + 1 \in Nat
  BY <1>5
<1>7. (k + 1) * M = k * M + M /\ k * M \in Nat
  BY <1>1, OneMoreTimes
<1>8. (k + 1) * M <= j * M /\ j * M \in Nat
  BY <1>4, <1>6
<1>9. q - p >= M
  BY <1>1, <1>2, <1>3, <1>7, <1>8
<1> QED
  BY <1>1, <1>9 DEF M

(* The types of a link's variables.                                        *)
LEMMA LinkTypes ==
  ASSUME LinkAssumption, Inv, NEW l \in Links
  PROVE  /\ sent[l] \in Nat /\ uNextSNumber[l] \in Numbers
         /\ handled[l] \in Seq(1 .. MaxPackets) /\ Len(handled[l]) \in Nat
         /\ \A i \in 1 .. Len(handled[l]) : handled[l][i] \in Nat
         /\ l[1] \in Stations /\ Lone(tx[l[1]])
BY Ends DEF Inv, Types, LinkAssumption

(* Nothing is handled or sent yet.                                         *)
LEMMA InitNumbered ==
  ASSUME LinkAssumption, Init
  PROVE  Counting /\ Carried /\ Remembered
<1>1. ASSUME NEW l \in Links
      PROVE  /\ sent[l] = 0 /\ uNextSNumber[l] = 0 /\ tx[l[1]] = {}
             /\ uLastReceivedSNumber[l] = NoNumber
  BY Ends DEF Init
<1>2. Numbered(0 + 1, 0)
  <2>1. 0 * (LastNumber + 1) = 0
    BY DEF LinkAssumption
  <2> QED
    BY <2>1 DEF Numbered
<1>3. Counting
  BY <1>1, <1>2 DEF Counting, BusyWith
<1>4. Carried
  BY DEF Init, Carried
<1> QED
  BY <1>1, <1>3, <1>4 DEF Remembered

(* A sent packet has the number that was next.                             *)
LEMMA SendNumbered ==
  ASSUME LinkAssumption, NumberInv, NEW l \in Links, Send(l)
  PROVE  Counting' /\ Carried' /\ Remembered'
<1> DEFINE t0 == [link |-> l, number |-> uNextSNumber[l], packet |-> sent[l] + 1,
                  left |-> RETRY_COUNT + 1]
<1>1. /\ sent' = [sent EXCEPT ![l] = sent[l] + 1] /\ tx' = [tx EXCEPT ![l[1]] = {t0}]
      /\ tx[l[1]] = {}
      /\ UNCHANGED <<rx, uNextSNumber, uLastReceivedSNumber, handled>>
  BY DEF Send
<1>2. t0.link = l /\ t0.number = uNextSNumber[l]
  OBVIOUS
<1> HIDE DEF t0
<1>3. Inv /\ Types
  BY DEF NumberInv, Inv
<1>4. Counting'
  <2> SUFFICES ASSUME NEW k \in Links, Steady(k)
               PROVE  /\ Numbered(IF BusyWith(k)' THEN sent'[k] ELSE sent'[k] + 1,
                                  uNextSNumber[k])
                      /\ \A t \in tx'[k[1]] : t.link = k => t.number = uNextSNumber[k]
    BY <1>1 DEF Counting, Steady, Numbered
  <2>1. /\ Numbered(IF BusyWith(k) THEN sent[k] ELSE sent[k] + 1, uNextSNumber[k])
        /\ \A t \in tx[k[1]] : t.link = k => t.number = uNextSNumber[k]
    BY DEF NumberInv, Counting
  <2>2. k[1] \in Stations /\ l[1] \in Stations
    BY Ends
  <2>3. CASE k = l
    <3>1. tx'[l[1]] = {t0} /\ sent'[l] = sent[l] + 1 /\ ~BusyWith(l) /\ BusyWith(l)'
      BY <1>1, <1>2, <1>3, <2>2 DEF Types, BusyWith
    <3> QED
      BY <3>1, <2>1, <2>3, <1>2
  <2>4. CASE k # l
    <3>1. sent'[k] = sent[k] /\ (tx'[k[1]] = tx[k[1]] \/ (tx'[k[1]] = {t0} /\ tx[k[1]] = {}))
      BY <1>1, <1>3, <2>2, <2>4 DEF Types
    <3>2. BusyWith(k)' <=> BusyWith(k)
      BY <3>1, <1>2, <2>4 DEF BusyWith
    <3> QED
      BY <3>1, <3>2, <2>1, <2>4, <1>2
  <2> QED
    BY <2>3, <2>4
<1>5. Carried' /\ Remembered'
  BY <1>1 DEF NumberInv, Carried, Remembered, Steady, Numbered
<1> QED
  BY <1>4, <1>5

(* A copy of a packet that is being sent carries the packet's number.      *)
LEMMA TransmitNumbered ==
  ASSUME LinkAssumption, NumberInv, NEW s \in Stations, Transmit(s)
  PROVE  Counting' /\ Carried' /\ Remembered'
<1>1. PICK t \in tx[s] :
        /\ t.left > 0
        /\ tx' = [tx EXCEPT ![s] = {[t EXCEPT !.left = t.left - 1]}]
        /\ \E buffer \in AfterFrame(rx[t.link[2]], Data(t.link, t.number, t.packet)) :
             rx' = [rx EXCEPT ![s] = {}, ![t.link[2]] = buffer]
  BY DEF Transmit
<1>2. UNCHANGED <<uNextSNumber, uLastReceivedSNumber, sent, handled>>
  BY DEF Transmit
<1>3. Inv /\ Types
  BY DEF NumberInv, Inv
<1>4. t \in Sends /\ t.link[1] = s /\ t.packet = sent[t.link] /\ t.link \in Links
  BY <1>3 DEF Inv, Types, Sending, Sends
<1> DEFINE u == [t EXCEPT !.left = t.left - 1]
           f == Data(t.link, t.number, t.packet)
<1>5. u.link = t.link /\ u.number = t.number
  BY <1>4 DEF Sends
<1>6. f.link = t.link /\ f.number = t.number /\ f.packet = t.packet
  BY DEF Data
<1>7. tx' = [tx EXCEPT ![s] = {u}]
  BY <1>1
<1>8. PICK e, buffer : /\ e = t.link[2] /\ rx' = [rx EXCEPT ![s] = {}, ![e] = buffer]
                       /\ buffer = rx[e] \/ buffer = {f}
  BY <1>1 DEF AfterFrame
<1> HIDE DEF u, f
<1>9. Counting'
  <2> SUFFICES ASSUME NEW k \in Links, Steady(k)
               PROVE  /\ Numbered(IF BusyWith(k)' THEN sent[k] ELSE sent[k] + 1,
                                  uNextSNumber[k])
                      /\ \A v \in tx'[k[1]] : v.link = k => v.number = uNextSNumber[k]
    BY <1>2 DEF Counting, Steady, Numbered
  <2>1. /\ Numbered(IF BusyWith(k) THEN sent[k] ELSE sent[k] + 1, uNextSNumber[k])
        /\ \A v \in tx[k[1]] : v.link = k => v.number = uNextSNumber[k]
    BY DEF NumberInv, Counting
  <2>2. k[1] \in Stations /\ Lone(tx[s])
    BY <1>3, Ends DEF Types
  <2>3. tx'[k[1]] = tx[k[1]] \/ (k[1] = s /\ tx'[k[1]] = {u})
    BY <1>3, <1>7, <2>2 DEF Types
  <2>4. BusyWith(k)' <=> BusyWith(k)
    BY <2>2, <2>3, <1>5 DEF BusyWith, Lone
  <2> QED
    BY <2>1, <2>3, <2>4, <1>5
<1>10. /\ Steady(f.link) => Numbered(f.packet, f.number)
       /\ \A i \in 1 .. Len(handled[f.link]) : handled[f.link][i] <= f.packet
  <2>1. BusyWith(t.link)
    BY <1>4 DEF BusyWith
  <2>2. Steady(t.link) => t.number = uNextSNumber[t.link]
                          /\ Numbered(sent[t.link], uNextSNumber[t.link])
    BY <2>1, <1>4 DEF NumberInv, Counting
  <2>3. \A i \in 1 .. Len(handled[t.link]) : handled[t.link][i] <= sent[t.link]
    BY <1>3, <1>4 DEF Inv, PastHandled
  <2> QED
    BY <2>2, <2>3, <1>4, <1>6
<1>11. Carried'
  <2> SUFFICES ASSUME NEW d \in Stations, NEW g \in rx'[d], g.kind = "data"
               PROVE  /\ Steady(g.link) => Numbered(g.packet, g.number)
                      /\ \A i \in 1 .. Len(handled[g.link]) : handled[g.link][i] <= g.packet
    BY <1>2 DEF Carried, Steady, Numbered
  <2>1. rx'[d] = rx[d] \/ rx'[d] = {} \/ rx'[d] = {f}
    BY <1>3, <1>8 DEF Types
  <2>2. g \in rx[d] \/ g = f
    BY <2>1
  <2> QED
    BY <2>2, <1>10 DEF NumberInv, Carried
<1>12. Remembered'
  BY <1>2 DEF NumberInv, Remembered, Steady, Numbered
<1> QED
  BY <1>9, <1>11, <1>12

(* The end of a send makes the next number stand for the next packet.      *)
LEMMA FinishNumbered ==
  ASSUME LinkAssumption, NumberInv, NEW s \in Stations, NEW t \in tx[s], Finish(s, t),
         rx' = rx \/ rx' = [rx EXCEPT ![s] = {}]
  PROVE  Counting' /\ Carried' /\ Remembered'
<1>1. /\ tx' = [tx EXCEPT ![s] = {}]
      /\ uNextSNumber' = [uNextSNumber EXCEPT ![t.link] = Following(uNextSNumber[t.link])]
      /\ UNCHANGED <<uLastReceivedSNumber, sent, handled>>
  BY DEF Finish
<1>2. Inv /\ Types
  BY DEF NumberInv, Inv
<1>3. t \in Sends /\ t.link[1] = s /\ t.link \in Links
  BY <1>2 DEF Inv, Types, Sending, Sends
<1>4. Counting'
  <2> SUFFICES ASSUME NEW k \in Links, Steady(k)
               PROVE  /\ Numbered(IF BusyWith(k)' THEN sent[k] ELSE sent[k] + 1,
                                  uNextSNumber'[k])
                      /\ \A v \in tx'[k[1]] : v.link = k => v.number = uNextSNumber'[k]
    BY <1>1 DEF Counting, Steady, Numbered
  <2>1. /\ Numbered(IF BusyWith(k) THEN sent[k] ELSE sent[k] + 1, uNextSNumber[k])
        /\ \A v \in tx[k[1]] : v.link = k => v.number = uNextSNumber[k]
    BY DEF NumberInv, Counting
  <2>2. k[1] \in Stations /\ Lone(tx[s])
    BY <1>2, Ends DEF Types
  <2>3. sent[k] \in Nat /\ uNextSNumber[k] \in Numbers
    BY <1>2, LinkTypes
  <2>4. CASE k = t.link
    <3>1. BusyWith(k) /\ tx'[k[1]] = {} /\ ~BusyWith(k)'
      BY <1>1, <1>2, <1>3, <2>4 DEF BusyWith, Types
    <3>2. uNextSNumber'[k] = Following(uNextSNumber[k])
      BY <1>1, <1>2, <2>4 DEF Types
    <3> QED
      BY <3>1, <3>2, <2>1, <2>3, NumberedNext
  <2>5. CASE k # t.link
    <3>1. uNextSNumber'[k] = uNextSNumber[k]
      BY <1>1, <1>2, <2>5 DEF Types
    <3>2. tx'[k[1]] = tx[k[1]] \/ (k[1] = s /\ tx'[k[1]] = {})
      BY <1>1, <1>2, <2>2 DEF Types
    <3>3. BusyWith(k)' <=> BusyWith(k)
      BY <3>2, <2>2, <2>5 DEF BusyWith, Lone
    <3> QED
      BY <3>1, <3>2, <3>3, <2>1
  <2> QED
    BY <2>4, <2>5
<1>5. \A d \in Stations : \A f \in rx'[d] : f \in rx[d]
  BY <1>2 DEF Types
<1>6. Carried' /\ Remembered'
  BY <1>1, <1>5 DEF NumberInv, Carried, Remembered, Steady, Numbered
<1> QED
  BY <1>4, <1>6

(* Steps that send nothing and bring no data frame.                        *)
LEMMA QuietNumbered ==
  ASSUME NumberInv, UNCHANGED <<tx, uNextSNumber, uLastReceivedSNumber, sent, handled>>,
         \A d \in Stations : \A f \in rx'[d] : f.kind = "data" => f \in rx[d]
  PROVE  Counting' /\ Carried' /\ Remembered'
BY DEF NumberInv, Counting, Carried, Remembered, Steady, Numbered, BusyWith

(* Handling a packet leaves its number behind.                             *)
LEMMA HandleNumbered ==
  ASSUME LinkAssumption, NumberInv, NEW s \in Stations, NEW f \in rx[s],
         f.kind = "data", ~IsDuplicate(f.number, f.link),
         uLastReceivedSNumber' = [uLastReceivedSNumber EXCEPT ![f.link] = f.number],
         handled' = [handled EXCEPT ![f.link] = Append(handled[f.link], f.packet)],
         UNCHANGED <<tx, uNextSNumber, sent>>, rx'[s] = {},
         \A d \in Stations : \A g \in rx'[d] : g.kind = "data" => g \in rx[d]
  PROVE  Counting' /\ Carried' /\ Remembered'
<1> DEFINE l == f.link
           p == f.packet
<1>1. Inv /\ Types
  BY DEF NumberInv, Inv
<1>2. l \in Links /\ l[2] = s /\ p \in 1 .. sent[l] /\ sent[l] \in 0 .. MaxPackets
  BY <1>1, NewPacketIsLater DEF Types
<1>3. /\ handled' = [handled EXCEPT ![l] = Append(handled[l], p)]
      /\ uLastReceivedSNumber' = [uLastReceivedSNumber EXCEPT ![l] = f.number]
  OBVIOUS
<1>4. Steady(l) => Numbered(p, f.number)
  BY DEF NumberInv, Carried
<1> HIDE DEF l, p
<1>5. /\ handled'[l] = Append(handled[l], p)
      /\ \A k \in Links : k # l => handled'[k] = handled[k]
      /\ uLastReceivedSNumber'[l] = f.number
      /\ \A k \in Links : k # l => uLastReceivedSNumber'[k] = uLastReceivedSNumber[k]
  BY <1>1, <1>2, <1>3 DEF Types
<1>6. Counting'
  BY DEF NumberInv, Counting, Steady, Numbered, BusyWith
<1>7. Carried'
  <2> SUFFICES ASSUME NEW d \in Stations, NEW g \in rx'[d], g.kind = "data"
               PROVE  /\ Steady(g.link) => Numbered(g.packet, g.number)
                      /\ \A i \in 1 .. Len(handled'[g.link]) : handled'[g.link][i] <= g.packet
    BY DEF Carried, Steady, Numbered
  <2>1. g \in rx[d] /\ d # s
    OBVIOUS
  <2>2. g.link \in Links /\ g.link[2] = d
    <3>1. g \in Frames
      BY <1>1, <2>1 DEF Types
    <3> QED
      BY <3>1, <2>1, <1>1, DataFrame DEF Inv, Waiting
  <2>3. handled'[g.link] = handled[g.link]
    BY <2>1, <2>2, <1>2, <1>5
  <2> QED
    BY <2>1, <2>3 DEF NumberInv, Carried
<1>8. Remembered'
  <2> SUFFICES ASSUME NEW k \in Links, Steady(k), uLastReceivedSNumber'[k] # NoNumber
               PROVE  /\ Len(handled'[k]) > 0
                      /\ Numbered(handled'[k][Len(handled'[k])], uLastReceivedSNumber'[k])
    BY DEF Remembered, Steady, Numbered
  <2>1. CASE k = l
    <3>1. handled[l] \in Seq(1 .. MaxPackets) /\ Len(handled[l]) \in Nat
      BY <1>1, <1>2, LinkTypes
    <3>2. /\ Len(Append(handled[l], p)) = Len(handled[l]) + 1
          /\ Append(handled[l], p)[Len(handled[l]) + 1] = p
      BY <3>1
    <3> QED
      BY <3>1, <3>2, <2>1, <1>4, <1>5
  <2>2. CASE k # l
    BY <2>2, <1>5 DEF NumberInv, Remembered
  <2> QED
    BY <2>1, <2>2
<1> QED
  BY <1>6, <1>7, <1>8

(* A call of MoteinoRFClass::loop.                                         *)
LEMMA LoopNumbered ==
  ASSUME LinkAssumption, NumberInv, NEW s \in Stations, Loop(s)
  PROVE  Counting' /\ Carried' /\ Remembered'
<1>1. PICK f \in rx[s] :
        IF f.kind = "data"
        THEN /\ \E buffer \in AfterFrame(rx[f.link[1]], Ack(f.link)) :
                  rx' = [rx EXCEPT ![s] = {}, ![f.link[1]] = buffer]
             /\ IF IsDuplicate(f.number, f.link)
                THEN UNCHANGED <<uLastReceivedSNumber, handled>>
                ELSE /\ uLastReceivedSNumber' =
                          [uLastReceivedSNumber EXCEPT ![f.link] = f.number]
                     /\ handled' = [handled EXCEPT
                                      ![f.link] = Append(handled[f.link], f.packet)]
        ELSE /\ rx' = [rx EXCEPT ![s] = {}]
             /\ UNCHANGED <<uLastReceivedSNumber, handled>>
  BY DEF Loop
<1>2. UNCHANGED <<tx, uNextSNumber, sent>>
  BY DEF Loop
<1>3. Inv /\ Types
  BY DEF NumberInv, Inv
<1>4. /\ rx'[s] = {}
      /\ \A d \in Stations : \A g \in rx'[d] : g.kind = "data" => g \in rx[d]
  <2>1. CASE f.kind = "data"
    <3>1. f.link \in Links /\ f.link[2] = s
      <4>1. f \in Frames
        BY <1>3 DEF Types
      <4> QED
        BY <4>1, <2>1, <1>3, DataFrame DEF Inv, Waiting
    <3>2. PICK e, buffer : /\ e = f.link[1]
                           /\ buffer = rx[e] \/ buffer = {Ack(f.link)}
                           /\ rx' = [rx EXCEPT ![s] = {}, ![e] = buffer]
      BY <1>1, <2>1 DEF AfterFrame
    <3>3. e \in Stations /\ e # s
      BY <3>1, <3>2, Ends
    <3>4. \A d \in Stations : rx'[d] = IF d = e THEN buffer ELSE IF d = s THEN {} ELSE rx[d]
      BY <1>3, <3>2 DEF Types
    <3>5. Ack(f.link).kind # "data" /\ s # e
      BY <3>3 DEF Ack
    <3>6. rx'[s] = {}
      BY <3>4, <3>5
    <3>7. \A d \in Stations : rx'[d] = {} \/ rx'[d] = rx[d] \/ rx'[d] = {Ack(f.link)}
      BY <3>2, <3>4
    <3> QED
      BY <3>5, <3>6, <3>7
  <2>2. CASE f.kind # "data"
    BY <1>1, <1>3, <2>2 DEF Types
  <2> QED
    BY <2>1, <2>2
<1>5. CASE UNCHANGED <<uLastReceivedSNumber, handled>>
  BY <1>2, <1>4, <1>5, QuietNumbered
<1>6. CASE f.kind = "data" /\ ~IsDuplicate(f.number, f.link)
  BY <1>1, <1>2, <1>4, <1>6, HandleNumbered
<1> QED
  BY <1>1, <1>5, <1>6

(* A reset makes its station's links unsteady and its receivers forget.    *)
LEMMA ResetNumbered ==
  ASSUME LinkAssumption, NumberInv, NEW s \in Stations, Reset(s)
  PROVE  Counting' /\ Carried' /\ Remembered'
<1>1. /\ s \in Resetting
      /\ tx' = [tx EXCEPT ![s] = {}] /\ rx' = [rx EXCEPT ![s] = {}]
      /\ uNextSNumber' = [l \in Links |-> IF l[1] = s THEN 0 ELSE uNextSNumber[l]]
      /\ uLastReceivedSNumber' =
           [l \in Links |-> IF l[2] = s THEN NoNumber ELSE uLastReceivedSNumber[l]]
      /\ UNCHANGED <<sent, handled>>
  BY DEF Reset
<1>2. Inv /\ Types
  BY DEF NumberInv, Inv
<1>3. ASSUME NEW l \in Links, Steady(l)
      PROVE  uNextSNumber'[l] = uNextSNumber[l] /\ tx'[l[1]] = tx[l[1]]
  BY <1>1, <1>2, <1>3, Ends DEF Steady, Types
<1>4. Counting'
  <2> SUFFICES ASSUME NEW k \in Links, Steady(k)
               PROVE  /\ Numbered(IF BusyWith(k)' THEN sent[k] ELSE sent[k] + 1,
                                  uNextSNumber'[k])
                      /\ \A v \in tx'[k[1]] : v.link = k => v.number = uNextSNumber'[k]
    BY <1>1 DEF Counting, Steady, Numbered
  <2>1. /\ Numbered(IF BusyWith(k) THEN sent[k] ELSE sent[k] + 1, uNextSNumber[k])
        /\ \A v \in tx[k[1]] : v.link = k => v.number = uNextSNumber[k]
    BY DEF NumberInv, Counting
  <2>2. uNextSNumber'[k] = uNextSNumber[k] /\ tx'[k[1]] = tx[k[1]]
    BY <1>3
  <2>3. BusyWith(k)' <=> BusyWith(k)
    BY <2>2 DEF BusyWith
  <2> QED
    BY <2>1, <2>2, <2>3
<1>5. \A d \in Stations : \A f \in rx'[d] : f \in rx[d]
  BY <1>1, <1>2 DEF Types
<1>6. Carried'
  BY <1>1, <1>5 DEF NumberInv, Carried, Steady, Numbered
<1>7. \A l \in Links : uLastReceivedSNumber'[l] # NoNumber =>
                         uLastReceivedSNumber'[l] = uLastReceivedSNumber[l]
  BY <1>1
<1>8. Remembered'
  BY <1>1, <1>7 DEF NumberInv, Remembered, Steady, Numbered
<1> QED
  BY <1>4, <1>6, <1>8

(* Every step keeps packets and numbers together.                          *)
LEMMA NumberStep ==
  ASSUME LinkAssumption, NumberInv, [Next]_vars
  PROVE  NumberInv'
<1>1. Inv'
  BY StepInv DEF NumberInv
<1> SUFFICES Counting' /\ Carried' /\ Remembered'
  BY <1>1 DEF NumberInv
<1>2. ASSUME NEW l \in Links, Send(l) PROVE Counting' /\ Carried' /\ Remembered'
  BY <1>2, SendNumbered
<1>3. ASSUME NEW s \in Stations, Transmit(s) PROVE Counting' /\ Carried' /\ Remembered'
  BY <1>3, TransmitNumbered
<1>4. ASSUME NEW s \in Stations, PollForAck(s) PROVE Counting' /\ Carried' /\ Remembered'
  <2>1. rx' = [rx EXCEPT ![s] = {}]
    BY <1>4 DEF PollForAck
  <2>2. CASE \E t \in tx[s] : Finish(s, t)
    BY <2>1, <2>2, FinishNumbered
  <2>3. CASE UNCHANGED <<tx, uNextSNumber, uLastReceivedSNumber, sent, handled>>
    <3>1. \A d \in Stations : \A f \in rx'[d] : f \in rx[d]
      BY <2>1 DEF NumberInv, Inv, Types
    <3> QED
      BY <3>1, <2>3, QuietNumbered
  <2> QED
    BY <2>2, <2>3, <1>4 DEF PollForAck
<1>5. ASSUME NEW s \in Stations, GiveUp(s) PROVE Counting' /\ Carried' /\ Remembered'
  BY <1>5, FinishNumbered DEF GiveUp
<1>6. ASSUME NEW s \in Stations, Loop(s) PROVE Counting' /\ Carried' /\ Remembered'
  BY <1>6, LoopNumbered
<1>7. ASSUME NEW s \in Stations, SendBroadcast(s) PROVE Counting' /\ Carried' /\ Remembered'
  <2>1. Broadcast(s).kind # "data"
    BY DEF Broadcast
  <2>2. \A d \in Stations : \A f \in rx'[d] : f.kind = "data" => f \in rx[d]
    BY <2>1, <1>7 DEF SendBroadcast
  <2>3. UNCHANGED <<tx, uNextSNumber, uLastReceivedSNumber, sent, handled>>
    BY <1>7 DEF SendBroadcast
  <2> QED
    BY <2>2, <2>3, QuietNumbered
<1>8. ASSUME NEW s \in Stations, Reset(s) PROVE Counting' /\ Carried' /\ Remembered'
  BY <1>8, ResetNumbered
<1>9. CASE UNCHANGED vars
  BY <1>9, QuietNumbered DEF vars
<1> QED
  BY <1>2, <1>3, <1>4, <1>5, <1>6, <1>7, <1>8, <1>9 DEF Next

(* A receiver skips a frame as a duplicate only if it has handled its      *)
(* packet, or has missed a whole round of numbers, also if receivers reset *)
(* (MoteinoRF.cpp, loop).                                                  *)
THEOREM SkipsOnlyDuplicates == Spec => []OnlyDuplicatesSkipped
<1> USE LinkAssumption
<1>1. Init => NumberInv
  BY InitInv, InitNumbered DEF NumberInv
<1>2. NumberInv /\ [Next]_vars => NumberInv'
  BY NumberStep
<1>3. NumberInv => OnlyDuplicatesSkipped
  <2> SUFFICES ASSUME NumberInv, NEW s \in Stations, NEW f \in rx[s], f.kind = "data",
                      Steady(f.link), IsDuplicate(f.number, f.link)
               PROVE  \/ \E i \in 1 .. Len(handled[f.link]) : handled[f.link][i] = f.packet
                      \/ /\ handled[f.link] # <<>>
                         /\ f.packet - handled[f.link][Len(handled[f.link])] > LastNumber
    BY DEF OnlyDuplicatesSkipped, Steady
  <2> DEFINE done == handled[f.link]
             last == done[Len(done)]
  <2>1. f \in Frames
    BY DEF NumberInv, Inv, Types
  <2>2. f.link \in Links /\ f.number \in Numbers /\ f.packet \in Nat
    BY <2>1, DataFrame
  <2>3. uLastReceivedSNumber[f.link] = f.number /\ f.number # NoNumber
    BY <2>2 DEF IsDuplicate, Numbers, NoNumber, LinkAssumption
  <2>4. Len(done) > 0 /\ Numbered(last, f.number)
    BY <2>2, <2>3 DEF NumberInv, Remembered
  <2>5. Numbered(f.packet, f.number) /\ \A i \in 1 .. Len(done) : done[i] <= f.packet
    BY DEF NumberInv, Carried
  <2>6. Len(done) \in Nat /\ \A i \in 1 .. Len(done) : done[i] \in Nat
    BY <2>2, LinkTypes DEF NumberInv
  <2>7. Len(done) \in 1 .. Len(done)
    BY <2>4, <2>6
  <2>8. last \in Nat /\ last <= f.packet
    BY <2>5, <2>6, <2>7
  <2>9. done # <<>>
    BY <2>4
  <2>10. CASE last = f.packet
    BY <2>7, <2>10
  <2>11. CASE last < f.packet
    BY <2>2, <2>4, <2>5, <2>8, <2>9, <2>11, RoundApart
  <2> QED
    BY <2>2, <2>8, <2>10, <2>11
<1> QED
  BY <1>1, <1>2, <1>3, PTL DEF Spec

-----------------------------------------------------------------------------
(* The packets handled are among those sent, and their numbers rise.       *)
RisingOf(l) ==
  /\ sent[l] \in Nat
  /\ handled[l] \in Seq(1 .. sent[l])
  /\ \A i, j \in 1 .. Len(handled[l]) : i < j => handled[l][i] < handled[l][j]

DeliveryInv ==
  /\ sent = [l \in Links |-> sent[l]]
  /\ handled = [l \in Links |-> handled[l]]
  /\ \A l \in Links : RisingOf(l)

LEMMA DeliveryStep ==
  ASSUME DeliveryInv, [Delivery!DeliveryNext]_<<sent, handled>>
  PROVE  DeliveryInv'
<1>1. ASSUME NEW l \in Links, Delivery!Accept(l)
      PROVE  DeliveryInv'
  <2>1. sent' = [sent EXCEPT ![l] = @ + 1] /\ handled' = handled
    BY <1>1 DEF Delivery!Accept
  <2>2. ASSUME NEW k \in Links PROVE RisingOf(k)'
    <3>1. sent[k] \in Nat /\ handled[k] \in Seq(1 .. sent[k])
      BY DEF DeliveryInv, RisingOf
    <3>2. sent'[k] \in Nat /\ sent'[k] >= sent[k]
      BY <2>1, <3>1 DEF DeliveryInv
    <3>3. handled'[k] \in Seq(1 .. sent'[k])
      <4>1. 1 .. sent[k] \subseteq 1 .. sent'[k]
        BY <3>1, <3>2
      <4> QED
        BY <2>1, <3>1, <4>1
    <3> QED
      BY <2>1, <3>2, <3>3 DEF DeliveryInv, RisingOf
  <2>3. sent' = [k \in Links |-> sent'[k]] /\ handled' = [k \in Links |-> handled'[k]]
    BY <2>1 DEF DeliveryInv
  <2> QED
    BY <2>2, <2>3 DEF DeliveryInv
<1>2. ASSUME NEW l \in Links, Delivery!Handle(l)
      PROVE  DeliveryInv'
  <2>1. PICK p \in 1 .. sent[l] :
          /\ \A i \in 1 .. Len(handled[l]) : handled[l][i] < p
          /\ handled' = [handled EXCEPT ![l] = Append(@, p)]
    BY <1>2 DEF Delivery!Handle
  <2>2. sent' = sent
    BY <1>2 DEF Delivery!Handle
  <2>3. ASSUME NEW k \in Links, k # l PROVE RisingOf(k)'
    <3>1. handled'[k] = handled[k] /\ sent'[k] = sent[k]
      BY <2>1, <2>2, <2>3 DEF DeliveryInv
    <3> QED
      BY <3>1 DEF DeliveryInv, RisingOf
  <2>4. RisingOf(l)'
    <3>1. sent[l] \in Nat /\ handled[l] \in Seq(1 .. sent[l])
      BY DEF DeliveryInv, RisingOf
    <3>2. \A i, j \in 1 .. Len(handled[l]) : i < j => handled[l][i] < handled[l][j]
      BY DEF DeliveryInv, RisingOf
    <3>3. handled'[l] = Append(handled[l], p) /\ sent'[l] = sent[l]
      BY <2>1, <2>2 DEF DeliveryInv
    <3>4. handled'[l] \in Seq(1 .. sent'[l])
      BY <3>1, <3>3
    <3>5. Len(handled'[l]) = Len(handled[l]) + 1 /\ Len(handled[l]) \in Nat
      BY <3>1, <3>3
    <3>6. handled'[l][Len(handled[l]) + 1] = p
          /\ \A i \in 1 .. Len(handled[l]) : handled'[l][i] = handled[l][i]
      BY <3>1, <3>3
    <3>7. ASSUME NEW i \in 1 .. Len(handled'[l]), NEW j \in 1 .. Len(handled'[l]), i < j
          PROVE  handled'[l][i] < handled'[l][j]
      <4>1. i \in 1 .. Len(handled[l])
        BY <3>5, <3>7
      <4>2. CASE j \in 1 .. Len(handled[l])
        BY <4>1, <4>2, <3>2, <3>6, <3>7
      <4>3. CASE j = Len(handled[l]) + 1
        BY <4>1, <4>3, <3>6, <2>1
      <4> QED
        BY <4>2, <4>3, <3>5
    <3> QED
      BY <3>1, <3>3, <3>4, <3>7 DEF RisingOf
  <2>5. sent' = [k \in Links |-> sent'[k]] /\ handled' = [k \in Links |-> handled'[k]]
    BY <2>1, <2>2 DEF DeliveryInv
  <2> QED
    BY <2>3, <2>4, <2>5 DEF DeliveryInv
<1>3. CASE UNCHANGED <<sent, handled>>
  BY <1>3 DEF DeliveryInv, RisingOf
<1> QED
  BY <1>1, <1>2, <1>3 DEF Delivery!DeliveryNext

(* Over a link whose receiver does not reset, what RProtocol handles is a  *)
(* subsequence of what was sent, at any time: with DeliveryIsTransmit of   *)
(* MasterRemoteProofs, the radio does to the packets between the master    *)
(* and a remote nothing that MasterRemote does not allow for.              *)
THEOREM HandledAsSent ==
  ReceiversStayUp => (Spec => [](\A l \in Links : RisingOf(l)))
<1> SUFFICES ASSUME ReceiversStayUp
             PROVE  Spec => [](\A l \in Links : RisingOf(l))
  OBVIOUS
<1>1. Spec => Delivery!DeliverySpec
  BY ImplementsDelivery DEF InOrderAtMostOnce
<1>2. Delivery!DeliveryInit => DeliveryInv
  BY DEF Delivery!DeliveryInit, DeliveryInv, RisingOf
<1>3. DeliveryInv => \A l \in Links : RisingOf(l)
  BY DEF DeliveryInv
<1> QED
  BY <1>1, <1>2, <1>3, DeliveryStep, PTL DEF Delivery!DeliverySpec

=============================================================================
