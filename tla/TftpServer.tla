----------------------------- MODULE TftpServer -----------------------------
(***************************************************************************)
(* The TFTP server that fills the SD card of a station (tftp.cpp), with a  *)
(* client that follows RFC 1350, a network that may lose packets, and the  *)
(* one file they are about.  A block of the file is a pair: the upload it  *)
(* comes from and its number there.                                        *)
(*                                                                         *)
(* A definition whose comment starts with "Fault:" is a faulty variant of  *)
(* the definition after it, which nothing uses.                            *)
(***************************************************************************)
EXTENDS Integers, Sequences

CONSTANTS
  CHAR,           \* the number of values of a char, which is signed
  Lengths,        \* blocks of a file, its short last one included
  MaxTransfers,   \* transfers a client starts
  MaxSends,       \* packets a client sends in one transfer
  MaxQueue        \* packets under way in one direction

ASSUME TftpAssumption ==
  /\ CHAR \in Nat \ {0} /\ Lengths \subseteq Nat \ {0} /\ Lengths # {}
  /\ MaxTransfers \in Nat /\ MaxSends \in Nat /\ MaxQueue \in Nat

VARIABLES
  m_timeout,     \* a timeout is running: a client is on the line
  m_remotePort,  \* the client, one port per transfer
  m_curBlock,
  m_theFile,     \* how the server's file is open, if it is
  position,      \* blocks it has read or written
  card,          \* the blocks the file on the card holds
  ending,        \* "none" there is no file, "full" its last block is full
                 \* or there is none, "short" it ends with a short block
  client,        \* [dir, id, length, block, sends, status, got]
  toServer, toClient

serverVars == <<m_timeout, m_remotePort, m_curBlock, m_theFile, position, card, ending>>
tftpVars   == <<serverVars, client, toServer, toClient>>

Idle == [dir |-> "up", id |-> 0, length |-> 1, block |-> 0, sends |-> 0,
         status |-> "idle", got |-> <<>>]

TftpInit ==
  /\ m_timeout = FALSE /\ m_remotePort = 0 /\ m_curBlock = 0
  /\ m_theFile = "closed" /\ position = 0 /\ card = <<>> /\ ending = "none"
  /\ client = Idle
  /\ toServer = <<>> /\ toClient = <<>>

-----------------------------------------------------------------------------
(* The number the server reads from the two bytes of block n.              *)
Signed(byte) == IF byte < CHAR \div 2 THEN byte ELSE byte - CHAR
blocknum(n)  == Signed((n \div CHAR) % CHAR) * CHAR + Signed(n % CHAR)

(* A reply takes its place behind the replies under way, or gets lost, as  *)
(* it does when the client's port is closed.                               *)
Reply(port, p) ==
  toClient' \in {toClient} \cup
    (IF Len(toClient) < MaxQueue /\ port = client.id
     THEN {Append(toClient, p)} ELSE {})

(* "m_timeout = 0", and the file stays as it is.                           *)
SendERR(port) ==
  /\ m_timeout' = FALSE
  /\ Reply(port, [op |-> "ERR", block |-> 0, last |-> TRUE, what |-> <<0, 0>>])

SendACK(port, n) ==
  Reply(port, [op |-> "ACK", block |-> n, last |-> FALSE, what |-> <<0, 0>>])

(* The next block of a file of contents c; after a full last block that is *)
(* an empty one.  A file that is open for writing cannot be read, which    *)
(* the server takes for its end.                                           *)
IsLast(c, mode, pos) ==
  mode # "read" \/ pos >= Len(c) \/ (pos + 1 = Len(c) /\ ending = "short")

SendBlock(port, n, c, mode, pos) ==
  LET last == IsLast(c, mode, pos)
  IN  /\ Reply(port, [op |-> "DATA", block |-> n, last |-> last,
                what |-> IF mode = "read" /\ pos < Len(c) THEN c[pos + 1] ELSE <<0, 0>>])
      /\ m_timeout' = ~last
      /\ m_theFile' = IF last THEN "closed" ELSE mode
      /\ position' = pos + 1

(* open fails when the file is open already.                               *)
ReadRequest(p) ==
  IF m_timeout THEN UNCHANGED <<serverVars, toClient>>
  ELSE /\ m_remotePort' = p.port /\ m_curBlock' = 1 /\ UNCHANGED <<card, ending>>
       /\ IF m_theFile = "closed" /\ ending # "none"
          THEN SendBlock(p.port, 1, card, "read", 0)
          ELSE SendERR(p.port) /\ UNCHANGED <<m_theFile, position>>

WriteRequest(p) ==
  IF m_timeout THEN UNCHANGED <<serverVars, toClient>>
  ELSE /\ m_remotePort' = p.port /\ m_curBlock' = 0
       /\ IF m_theFile = "closed"
          THEN /\ m_theFile' = "write" /\ position' = 0
               /\ card' = <<>> /\ ending' = "full"
               /\ m_timeout' = TRUE /\ SendACK(p.port, 0)
          ELSE SendERR(p.port) /\ UNCHANGED <<m_theFile, position, card, ending>>

(* Fault: every block is taken for the next one.                           *)
DataInAnyOrder(p) ==
  IF ~m_timeout THEN UNCHANGED <<serverVars, toClient>>
  ELSE /\ m_curBlock' = m_curBlock + 1
       /\ SendACK(m_remotePort, m_curBlock + 1)
       /\ IF m_theFile = "write"
          THEN /\ card' = Append(card, p.what)
               /\ ending' = IF p.last THEN "short" ELSE "full"
          ELSE UNCHANGED <<card, ending>>
       /\ m_timeout' = ~p.last
       /\ m_theFile' = IF p.last THEN "closed" ELSE m_theFile
       /\ UNCHANGED <<m_remotePort, position>>

DataPacket(p) ==
  IF ~m_timeout THEN UNCHANGED <<serverVars, toClient>>
  ELSE IF blocknum(p.block) # m_curBlock + 1
  THEN /\ SendERR(m_remotePort)
       /\ UNCHANGED <<m_remotePort, m_curBlock, m_theFile, position, card, ending>>
  ELSE /\ m_curBlock' = m_curBlock + 1
       /\ SendACK(m_remotePort, m_curBlock + 1)
       /\ IF m_theFile = "write"
          THEN /\ card' = Append(card, p.what)
               /\ ending' = IF p.last THEN "short" ELSE "full"
          ELSE UNCHANGED <<card, ending>>
       /\ m_timeout' = ~p.last
       /\ m_theFile' = IF p.last THEN "closed" ELSE m_theFile
       /\ UNCHANGED <<m_remotePort, position>>

Acknowledged(p) ==
  IF ~m_timeout THEN UNCHANGED <<serverVars, toClient>>
  ELSE IF blocknum(p.block) # m_curBlock
  THEN /\ SendERR(m_remotePort)
       /\ UNCHANGED <<m_remotePort, m_curBlock, m_theFile, position, card, ending>>
  ELSE /\ m_curBlock' = m_curBlock + 1 /\ UNCHANGED <<m_remotePort, card, ending>>
       /\ SendBlock(m_remotePort, m_curBlock + 1, card, m_theFile, position)

(* tftp::Poll with a packet at hand.                                       *)
Poll ==
  /\ toServer # <<>> /\ toServer' = Tail(toServer)
  /\ LET p == Head(toServer)
     IN  \/ p.op = "RRQ" /\ ReadRequest(p)
         \/ p.op = "WRQ" /\ WriteRequest(p)
         \/ p.op = "DATA" /\ DataPacket(p)
         \/ p.op = "ACK" /\ Acknowledged(p)
  /\ UNCHANGED client

(* tftp::Poll without one, a second after the last packet.                 *)
PollTimeout ==
  /\ m_timeout /\ toServer = <<>>
  /\ m_timeout' = FALSE /\ m_theFile' = "closed"
  /\ UNCHANGED <<m_remotePort, m_curBlock, position, card, ending, client, toServer,
                 toClient>>

-----------------------------------------------------------------------------
(* The client.  The packet it sends, and sends again, in its state c.      *)
Request(c) ==
  IF c.dir = "up"
  THEN [op |-> IF c.block = 0 THEN "WRQ" ELSE "DATA", block |-> c.block,
        port |-> c.id, last |-> c.block = c.length, what |-> <<c.id, c.block>>]
  ELSE [op |-> IF c.block = 0 THEN "RRQ" ELSE "ACK", block |-> c.block,
        port |-> c.id, last |-> FALSE, what |-> <<0, 0>>]

(* The packet reaches the server, or gets lost.                            *)
ClientSends(c) ==
  /\ client' = [c EXCEPT !.sends = @ + 1] /\ c.sends < MaxSends
  /\ toServer' \in {toServer} \cup
       (IF Len(toServer) < MaxQueue THEN {Append(toServer, Request(c))} ELSE {})

(* A new transfer, from a new port, also when the client has given up the  *)
(* previous one.                                                           *)
Start(dir, length) ==
  /\ client.id < MaxTransfers
  /\ ClientSends([Idle EXCEPT !.dir = dir, !.id = client.id + 1, !.length = length,
                              !.status = "busy"])
  /\ toClient' = <<>> /\ UNCHANGED serverVars

Resend ==
  /\ client.status = "busy" /\ ClientSends(client)
  /\ UNCHANGED <<serverVars, toClient>>

Expected(p) ==
  IF client.dir = "up" THEN p.op = "ACK" /\ p.block = client.block
                       ELSE p.op = "DATA" /\ p.block = client.block + 1

Receive ==
  /\ toClient # <<>> /\ toClient' = Tail(toClient) /\ UNCHANGED serverVars
  /\ LET p == Head(toClient)
         c == [client EXCEPT !.block = @ + 1,
                 !.got = IF client.dir = "up" \/ p.what = <<0, 0>> THEN @
                         ELSE Append(@, p.what)]
     IN  IF client.status # "busy" THEN UNCHANGED <<client, toServer>>
         ELSE IF p.op = "ERR"
         THEN client' = [client EXCEPT !.status = "failed"] /\ UNCHANGED toServer
         ELSE IF ~Expected(p) THEN UNCHANGED <<client, toServer>>
         ELSE IF client.dir = "up" /\ client.block = client.length
         THEN client' = [client EXCEPT !.status = "done"] /\ UNCHANGED toServer
         ELSE IF p.last
         THEN client' = [c EXCEPT !.status = "done"] /\ UNCHANGED toServer
         ELSE ClientSends(c)

TftpNext ==
  \/ Poll \/ PollTimeout \/ Resend \/ Receive
  \/ \E dir \in {"up", "down"}, length \in Lengths : Start(dir, length)

TftpSpec == TftpInit /\ [][TftpNext]_tftpVars

-----------------------------------------------------------------------------
(* The server's file and counters; a block is written once.                *)
TftpTypeOK ==
  /\ m_timeout \in BOOLEAN
  /\ m_theFile \in {"closed", "read", "write"}
  /\ \E top \in Lengths : m_curBlock \in 0 .. top + 1 /\ Len(card) <= top
  /\ position \in Nat /\ ending \in {"none", "full", "short"}
  /\ client.status \in {"idle", "busy", "done", "failed"}
  /\ Len(toServer) <= MaxQueue /\ Len(toClient) <= MaxQueue

(* Whatever is lost, sent again or given up, the card holds the first      *)
(* blocks of one upload, each once and in order; an upload the client      *)
(* takes for done is there to its last block, and a download it takes for  *)
(* done is what the card holds.  A client on the line has the file open.   *)
TransfersAreExact ==
  /\ card # <<>> =>
       \A i \in 1 .. Len(card) : card[i] = <<card[1][1], i>>
  /\ client.status = "done" /\ client.dir = "up" =>
       Len(card) = client.length /\ card[1][1] = client.id
  /\ client.status = "done" /\ client.dir = "down" => client.got = card
  /\ m_timeout => m_theFile # "closed"

(* A request is refused only while a client is on the line ("Check to see  *)
(* we don't already have a client on the line"): nobody else keeps the     *)
(* file open.                                                              *)
FreeLineFreeFile == ~m_timeout => m_theFile = "closed"

=============================================================================
