--------------------------- MODULE StationProofs ----------------------------
(***************************************************************************)
(* Proofs about the parts of a station around its run state: the serial    *)
(* board, the panel, the loading of the configuration, the main loop with  *)
(* its watchdog, the clock and its broadcasts, the TFTP server and the     *)
(* XBee link.                                                              *)
(***************************************************************************)
EXTENDS SerialBoard, Panel, Provisioning, MainLoop, TimeService, TftpServer, XBeeNetwork,
        FiniteSetTheorems, TLAPS

-----------------------------------------------------------------------------
(***************************************************************************)
(* SerialBoard: the board implements the set of channels it promises       *)
(* (BoardAssumption).                                                      *)
(***************************************************************************)

(* The bits already shifted in a transfer stand at the start of the chain, *)
(* the last one first.                                                     *)
ShiftedBits ==
  step = "shift" =>
    \A j \in 0 .. shifted - 1 : chain[j] = (ChannelAt(shifted - 1 - j) \in outState)

(* What is recorded is at most one command away from what is shown.        *)
OneCommandAway ==
  step # "down" =>
    \/ outState = {} \/ outState = Shown
    \/ \E c \in Channels : outState = Shown \cup {c} \/ outState = Shown \ {c}

(* A restarted station has forgotten its outputs.                          *)
DownIsEmpty == step = "down" => outState = {}

ShownInv == BoardTypeOK /\ ShiftedBits /\ OneCommandAway /\ DownIsEmpty /\ OutputsAreRecorded

-----------------------------------------------------------------------------
(* The start of the station satisfies the invariant.                       *)
LEMMA InitInv == BoardInit => ShownInv
  BY BoardAssumption
  DEF BoardInit, ShownInv, BoardTypeOK, ShiftedBits, OneCommandAway, DownIsEmpty,
      OutputsAreRecorded, Bits

(* The outputs depend on the latch only.                                   *)
LEMMA ShownOfLatch == latched' = latched => Shown' = Shown
  BY DEF Shown

(* A transfer starts with no bit shifted, one command away from what is    *)
(* shown.                                                                  *)
LEMMA TransferInv ==
  ASSUME ShownInv, NEW S \in SUBSET Channels, Transfer(S), clearing' \in 0 .. Bits,
         \/ S = {} \/ S = Shown
         \/ \E c \in Channels : S = Shown \cup {c} \/ S = Shown \ {c}
  PROVE  ShownInv'
<1>1. BoardTypeOK'
  BY BoardAssumption DEF ShownInv, BoardTypeOK, Transfer, Bits
<1>2. Shown' = Shown
  BY ShownOfLatch DEF Transfer
<1>3. ShiftedBits'
  BY DEF ShiftedBits, Transfer
<1>4. OneCommandAway'
  BY <1>2 DEF OneCommandAway, Transfer
<1>5. DownIsEmpty' /\ OutputsAreRecorded'
  BY DEF DownIsEmpty, OutputsAreRecorded, Transfer
<1> QED BY <1>1, <1>3, <1>4, <1>5 DEF ShownInv

(* An idle station shows what it has recorded.                             *)
LEMMA IdleShows == ASSUME ShownInv, step = "idle" PROVE Shown = outState
  BY DEF ShownInv, OutputsAreRecorded

(* Another bit in the chain.                                               *)
LEMMA ShiftInv == ASSUME ShownInv, Shift PROVE ShownInv'
<1> USE DEF Channels
<1>1. /\ step = "shift" /\ shifted \in Nat /\ shifted < Bits /\ Bits \in Nat
      /\ shifted' = shifted + 1 /\ outState' = outState /\ latched' = latched
      /\ step' = step /\ clearing' = clearing
      /\ chain' = [i \in 0 .. Bits - 1 |->
                    IF i = 0 THEN ChannelAt(shifted) \in outState ELSE chain[i - 1]]
  BY BoardAssumption DEF Shift, ShownInv, BoardTypeOK, Bits
<1>2. BoardTypeOK'
  <2>1. chain' \in [0 .. Bits - 1 -> BOOLEAN]
    <3>1. ASSUME NEW i \in 0 .. Bits - 1, i # 0 PROVE chain[i - 1] \in BOOLEAN
      <4>1. i - 1 \in 0 .. Bits - 1
        BY <1>1, <3>1
      <4> QED BY <4>1 DEF ShownInv, BoardTypeOK
    <3>2. (ChannelAt(shifted) \in outState) \in BOOLEAN
      OBVIOUS
    <3> QED BY <1>1, <3>1, <3>2, Zenon
  <2> QED BY <1>1, <2>1 DEF ShownInv, BoardTypeOK
<1>3. ShiftedBits'
  <2>1. ASSUME NEW j \in 0 .. shifted
        PROVE  chain'[j] = (ChannelAt(shifted - j) \in outState)
    <3>1. CASE j = 0
      <4>1. 0 \in 0 .. Bits - 1 /\ shifted - 0 = shifted
        BY <1>1
      <4>2. chain'[0] = (ChannelAt(shifted) \in outState)
        BY <1>1, <4>1
      <4> QED BY <3>1, <4>1, <4>2
    <3>2. CASE j # 0
      <4>1. j - 1 \in 0 .. shifted - 1 /\ j \in 0 .. Bits - 1
        BY <1>1, <2>1, <3>2
      <4>2. chain[j - 1] = (ChannelAt(shifted - 1 - (j - 1)) \in outState)
        BY <1>1, <4>1 DEF ShownInv, ShiftedBits
      <4>3. shifted - 1 - (j - 1) = shifted - j
        BY <1>1, <2>1
      <4> QED BY <1>1, <3>2, <4>1, <4>2, <4>3
    <3> QED BY <3>1, <3>2
  <2>2. shifted' - 1 = shifted
    BY <1>1
  <2>3. \A j \in 0 .. shifted' - 1 :
          chain'[j] = (ChannelAt(shifted' - 1 - j) \in outState')
    BY <1>1, <2>1, <2>2
  <2> QED BY <2>3 DEF ShiftedBits
<1>4. Shown' = Shown
  BY <1>1, ShownOfLatch
<1>5. OneCommandAway' /\ DownIsEmpty' /\ OutputsAreRecorded'
  BY <1>1, <1>4 DEF ShownInv, OneCommandAway, DownIsEmpty, OutputsAreRecorded
<1> QED BY <1>2, <1>3, <1>5 DEF ShownInv

(* A complete transfer shows what is recorded.                             *)
LEMMA LatchShows == ASSUME ShownInv, Latch PROVE Shown' = outState
<1>1. /\ Bits \in Nat /\ step = "shift" /\ shifted = Bits /\ latched' = chain
      /\ outState \subseteq Channels
  BY BoardAssumption DEF Latch, ShownInv, BoardTypeOK
<1>2. ASSUME NEW c \in Channels PROVE chain[Wire(c)] = (c \in outState)
  <2>1. Wire(c) \in 0 .. Bits - 1 /\ ChannelAt(Bits - 1 - Wire(c)) = c
    BY BoardAssumption, <1>2 DEF Channels
  <2> QED BY <1>1, <2>1 DEF ShownInv, ShiftedBits
<1>3. Shown' = {c \in Channels : chain[Wire(c)]}
  BY <1>1 DEF Shown
<1> QED BY <1>1, <1>2, <1>3

(* The latch, followed by the next channel of AllChannelsOff if any.       *)
LEMMA LatchInv == ASSUME ShownInv, Latch PROVE ShownInv'
<1>1. Shown' = outState
  BY LatchShows
<1>2. BoardTypeOK'
  BY BoardAssumption DEF Latch, ShownInv, BoardTypeOK
<1>3. CASE clearing < Bits
  <2>1. /\ outState' = outState \ {clearing} /\ step' = "shift" /\ shifted' = 0
        /\ clearing \in Channels
    BY <1>3, BoardAssumption DEF Latch, ShownInv, BoardTypeOK, Channels
  <2>2. ShiftedBits'
    BY <2>1 DEF ShiftedBits
  <2>3. OneCommandAway' /\ DownIsEmpty' /\ OutputsAreRecorded'
    BY <1>1, <2>1 DEF OneCommandAway, DownIsEmpty, OutputsAreRecorded
  <2> QED BY <1>2, <2>2, <2>3 DEF ShownInv
<1>4. CASE ~(clearing < Bits)
  BY <1>1, <1>2, <1>4
  DEF Latch, ShownInv, ShiftedBits, OneCommandAway, DownIsEmpty, OutputsAreRecorded
<1> QED BY <1>3, <1>4

(* Every step keeps the invariant.                                         *)
LEMMA NextInv == ASSUME ShownInv, [BoardNext]_boardVars PROVE ShownInv'
<1> USE DEF ShownInv
<1>1. outState \subseteq Channels /\ Bits \in Nat
  BY BoardAssumption DEF BoardTypeOK
<1>2. CASE Begin
  <2>1. outState = {}
    BY <1>2 DEF Begin, DownIsEmpty
  <2>2. Transfer({}) /\ clearing' \in 0 .. Bits
    BY <1>1, <1>2, <2>1 DEF Begin
  <2> QED BY <2>2, TransferInv
<1>3. CASE SwitchAllOff
  <2>1. step = "idle" /\ Transfer(outState \ {0}) /\ clearing' \in 0 .. Bits
        /\ 0 \in Channels
    BY <1>1, <1>3 DEF SwitchAllOff, Channels
  <2>2. Shown = outState
    BY <2>1, IdleShows
  <2> QED BY <1>1, <2>1, <2>2, TransferInv
<1>4. CASE Refresh
  <2>1. step = "idle" /\ Transfer(outState) /\ clearing' \in 0 .. Bits
    BY <1>4 DEF Refresh, BoardTypeOK
  <2>2. Shown = outState
    BY <2>1, IdleShows
  <2> QED BY <1>1, <2>1, <2>2, TransferInv
<1>5. ASSUME NEW c \in Channels, SwitchOn(c) PROVE ShownInv'
  <2>1. step = "idle" /\ Transfer(outState \cup {c}) /\ clearing' \in 0 .. Bits
    BY <1>5 DEF SwitchOn, BoardTypeOK
  <2>2. Shown = outState
    BY <2>1, IdleShows
  <2> QED BY <1>1, <2>1, <2>2, TransferInv
<1>6. ASSUME NEW c \in Channels, SwitchOff(c) PROVE ShownInv'
  <2>1. step = "idle" /\ Transfer(outState \ {c}) /\ clearing' \in 0 .. Bits
    BY <1>6 DEF SwitchOff, BoardTypeOK
  <2>2. Shown = outState
    BY <2>1, IdleShows
  <2> QED BY <1>1, <2>1, <2>2, TransferInv
<1>7. CASE Shift
  BY <1>7, ShiftInv
<1>8. CASE Latch
  BY <1>8, LatchInv
<1>9. CASE Watchdog
  BY <1>1, <1>9
  DEF Watchdog, BoardTypeOK, ShiftedBits, OneCommandAway, DownIsEmpty,
      OutputsAreRecorded
<1>10. CASE UNCHANGED boardVars
  BY <1>10
  DEF boardVars, BoardTypeOK, ShiftedBits, OneCommandAway, DownIsEmpty,
      OutputsAreRecorded, Shown
<1> QED BY <1>2, <1>3, <1>4, <1>5, <1>6, <1>7, <1>8, <1>9, <1>10 DEF BoardNext

-----------------------------------------------------------------------------
(* The invariant holds of every state.                                     *)
THEOREM BoardInvariant == BoardSpec => []ShownInv
<1>1. BoardInit => ShownInv
  BY InitInv
<1>2. ShownInv /\ [BoardNext]_boardVars => ShownInv'
  BY NextInv
<1> QED BY <1>1, <1>2, PTL DEF BoardSpec

(* The state has its type: no transfer runs past the registers.            *)
THEOREM BoardTypeCorrect == BoardSpec => []BoardTypeOK
<1>1. ShownInv => BoardTypeOK
  BY DEF ShownInv
<1> QED BY <1>1, BoardInvariant, PTL

(* Between two commands the outputs are what the station has recorded.     *)
THEOREM RecordedIsShown == BoardSpec => []OutputsAreRecorded
<1>1. ShownInv => OutputsAreRecorded
  BY DEF ShownInv
<1> QED BY <1>1, BoardInvariant, PTL

(* Every step of the board is a step of the set of channels or a stutter.  *)
LEMMA StepRefines ==
  ASSUME ShownInv, [BoardNext]_boardVars PROVE [Board!SetNext]_Shown
<1>1. CASE Latch
  <2>1. Shown' = outState /\ step = "shift"
    BY <1>1, LatchShows DEF Latch
  <2>2. \/ Shown' = {} \/ Shown' = Shown
        \/ \E c \in Channels : Shown' = Shown \cup {c} \/ Shown' = Shown \ {c}
    BY <2>1 DEF ShownInv, OneCommandAway
  <2> QED BY <2>2
      DEF Board!SetNext, Board!AllOff, Board!ChannelOn, Board!ChannelOff
<1>2. CASE ~Latch
  <2>1. latched' = latched
    BY <1>2
    DEF BoardNext, boardVars, Begin, SwitchAllOff, Refresh, SwitchOn, SwitchOff,
        Transfer, Shift, Watchdog
  <2> QED BY <2>1, ShownOfLatch
<1> QED BY <1>1, <1>2

(* The board implements the set of channels: whatever is interrupted, the  *)
(* outputs change by one channel at a time or go off together.             *)
THEOREM BoardImplementsChannelSet == BoardSpec => OneChannelAtATime
<1>1. BoardInit => Board!SetInit
  BY DEF BoardInit, Board!SetInit, Shown
<1>2. ShownInv /\ [BoardNext]_boardVars => [Board!SetNext]_Shown
  BY StepRefines
<1> QED BY <1>1, <1>2, BoardInvariant, PTL
        DEF BoardSpec, OneChannelAtATime, Board!SetSpec

-----------------------------------------------------------------------------
(***************************************************************************)
(* Panel: the channel, the length and the station on the screens always    *)
(* stand within what the station has, so a run that a key starts is one    *)
(* that the screen showed (PanelAssumption).                               *)
(***************************************************************************)

KeyStates ==
  [state : {"idle", "debounce", "held"}, old : Keys \cup {"NONE"}, age : Nat,
   sent : BOOLEAN, since : Nat]

Panels ==
  [mode : {"home", "manual", "status", "setup", "hung"}, board : Boards,
   channels : 0 .. BYTE - 1, channel : 0 .. BYTE - 1, editing : BOOLEAN,
   number : 0 .. BYTE - 1, key : KeyStates]

(* The screens show stations and numbers that exist.                       *)
PanelTypes ==
  /\ boards \in [mine : Boards, block : [Boards -> BoardBlocks]]
  /\ withCard \in BOOLEAN /\ held \in Keys \cup {"NONE"} /\ presses \in 0 .. MaxPresses
  /\ panel \in Panels

(* The user holds the key down, or it is the one that was read last.       *)
Touches(p, k) == held = k \/ p.key.old = k
Turns(p)      == Touches(p, "UP") \/ Touches(p, "DOWN")

(* How many presses it takes to get where the manual screen is.            *)
PressesNeeded(p, n) ==
  /\ p.editing \/ Touches(p, "CONFIRM") => n >= 1
  /\ p.editing /\ (p.number # 0 \/ Turns(p)) => n >= 2
  /\ p.editing /\ p.number # 0 /\ Touches(p, "CONFIRM") => n >= 3

(* What the manual screen offers.                                          *)
Offers(p) ==
  /\ p.channels = boards.block[p.board].channels
  /\ p.channels > 0 => p.channel < p.channels
  /\ p.editing => p.number <= MAX_MINUTES

(* The number on the setup screen is a station's.                          *)
OffersStation(p) == p.mode = "setup" /\ p.editing => p.number \in Boards

PanelInv ==
  /\ PanelTypes
  /\ IF panel.mode = "manual" THEN Offers(panel) /\ PressesNeeded(panel, presses)
     ELSE presses = 0
  /\ OffersStation(panel)
  /\ RunsAreMeant

-----------------------------------------------------------------------------
(* Numbers are turned within their range, and only by UP and DOWN.         *)
LEMMA TurnStays ==
  ASSUME NEW n \in Nat, NEW k, NEW first \in {0, 1}, NEW count \in Nat,
         first + count <= BYTE, BYTE \in Nat, BYTE > 1
  PROVE  /\ k \notin {"UP", "DOWN"} => Turn(n, k, first, count) = n
         /\ n < BYTE => Turn(n, k, first, count) \in 0 .. BYTE - 1
         /\ count > 0 /\ n < first + count => Turn(n, k, first, count) < first + count
<1>1. k \notin {"UP", "DOWN"} => Turn(n, k, first, count) = n
  BY DEF Turn
<1>2. CASE k = "UP"
  BY <1>2 DEF Turn
<1>3. CASE k = "DOWN" /\ n > first
  BY <1>3 DEF Turn
<1>4. CASE k = "DOWN" /\ ~(n > first)
  <2>1. Turn(n, k, first, count) = (first + count - 1) % BYTE
    BY <1>4 DEF Turn
  <2>2. (first + count - 1) % BYTE \in 0 .. BYTE - 1
    OBVIOUS
  <2>3. ASSUME count > 0 PROVE (first + count - 1) % BYTE = first + count - 1
    <3>1. first + count - 1 \in 0 .. BYTE - 1
      BY <2>3
    <3> QED
      BY <3>1
  <2> QED
    BY <1>4, <2>1, <2>2, <2>3
<1> QED
  BY <1>1, <1>2, <1>3, <1>4

(* What get_button_async returns has been held since it was first seen,    *)
(* and what it remembers it remembered before, or is held now.             *)
LEMMA KeysRead ==
  ASSUME NEW k \in KeyStates, held \in Keys \cup {"NONE"}, NEW rep \in BOOLEAN
  PROVE  /\ NextKeys(k, rep) \in KeyStates
         /\ NextKeys(k, rep).old \in {k.old, held, "NONE"}
         /\ KeyOf(k, rep) \in Keys \cup {"NONE"}
         /\ KeyOf(k, rep) # "NONE" =>
              /\ held = KeyOf(k, rep) /\ k.old = KeyOf(k, rep)
              /\ NextKeys(k, rep).old = KeyOf(k, rep)
<1> DEFINE n == NextKeys(k, rep)
<1>0. k.old \in Keys \cup {"NONE"} /\ k.state \in {"idle", "debounce", "held"}
  BY DEF KeyStates
<1>1. \/ n = k
      \/ n = KeyIdle(k)
      \/ k.state = "idle" /\ n = [k EXCEPT !.state = "debounce", !.old = held, !.age = 0]
      \/ held = k.old /\ n = [k EXCEPT !.state = "held"]
      \/ held = k.old /\ n = [k EXCEPT !.sent = TRUE, !.since = 0]
      \/ held = k.old /\ n = [k EXCEPT !.sent = FALSE, !.since = 0]
  BY <1>0 DEF NextKeys
<1>2. n.state = "held" /\ k.state # "idle" => held = k.old
  <2>1. KeyIdle(k).state = "idle"
    BY DEF KeyIdle, KeyStates
  <2>2. k.state = "debounce" /\ n.state = "held" => held = k.old
    BY <2>1 DEF NextKeys
  <2>3. k.state = "held" /\ n.state = "held" => held = k.old
    BY <2>1 DEF NextKeys
  <2> QED
    BY <1>0, <2>2, <2>3
<1>3. k.state = "idle" => n.state # "held"
  BY <1>0 DEF NextKeys, KeyStates
<1>4. \/ KeyOf(k, rep) = "NONE"
      \/ KeyOf(k, rep) = k.old /\ n.state = "held"
  BY DEF KeyOf
<1> HIDE DEF n
<1>5. n \in KeyStates /\ n.old \in {k.old, held, "NONE"}
  <2>1. KeyIdle(k) \in KeyStates /\ KeyIdle(k).old = "NONE"
    BY DEF KeyIdle, KeyStates
  <2>2. [k EXCEPT !.state = "debounce", !.old = held, !.age = 0] \in KeyStates
    BY DEF KeyStates
  <2>3. [k EXCEPT !.state = "held"] \in KeyStates
    BY DEF KeyStates
  <2>4. /\ [k EXCEPT !.sent = TRUE, !.since = 0] \in KeyStates
        /\ [k EXCEPT !.sent = FALSE, !.since = 0] \in KeyStates
    BY DEF KeyStates
  <2>5. n \in KeyStates
    BY <1>1, <2>1, <2>2, <2>3, <2>4
  <2>6. n.old \in {k.old, held, "NONE"}
    BY <1>1, <2>1 DEF KeyStates
  <2> QED
    BY <2>5, <2>6
<1>6. n.state = "held" => n.old = k.old
  BY <1>1, <1>3 DEF KeyStates, KeyIdle
<1> QED
  BY <1>0, <1>2, <1>3, <1>4, <1>5, <1>6 DEF n

(* Reading the keys touches nothing else of a screen.                      *)
LEMMA ReadKeeps ==
  ASSUME NEW p \in Panels, held \in Keys \cup {"NONE"}, NEW rep \in BOOLEAN
  PROVE  LET s == Read(p, rep)
         IN  /\ s \in Panels
             /\ s.mode = p.mode /\ s.board = p.board /\ s.channels = p.channels
             /\ s.channel = p.channel /\ s.editing = p.editing /\ s.number = p.number
             /\ s.key = NextKeys(p.key, rep)
<1>1. NextKeys(p.key, rep) \in KeyStates
  BY KeysRead DEF Panels
<1> QED
  BY <1>1 DEF Read, Panels

(* Sizes as the proofs need them.                                          *)
LEMMA PanelSizes ==
  /\ BYTE \in Nat /\ BYTE > 1 /\ LASTBOARD \in Nat /\ LASTBOARD < BYTE
  /\ MAX_MINUTES \in Nat /\ MAX_MINUTES < BYTE /\ MAX_ID \in Nat \ {0} /\ MAX_ID <= LASTBOARD
  /\ MaxPresses \in Nat /\ MaxPresses > 2 /\ Boards = 0 .. LASTBOARD
  /\ \A k \in Keys : k # "NONE" /\ k \in {"MODE", "UP", "DOWN", "CONFIRM"}
BY PanelAssumption DEF Boards, Keys

(* The manual screen stays within what it offers, and whatever it reads is *)
(* paid for by a press.                                                    *)
LEMMA ManualStays ==
  ASSUME NEW p \in Panels, NEW n \in Nat, held \in Keys \cup {"NONE"},
         boards.mine \in Boards,
         p.mode = "manual", Offers(p), PressesNeeded(p, n)
  PROVE  LET q == Manual(p)
         IN  /\ q \in Panels /\ q.mode \in {"manual", "status", "home"}
             /\ q.mode = "manual" => Offers(q) /\ PressesNeeded(q, n)
<1> DEFINE k == KeyOf(p.key, TRUE)
           s == Read(p, TRUE)
<1>1. /\ s \in Panels /\ s.mode = p.mode /\ s.board = p.board /\ s.channels = p.channels
      /\ s.channel = p.channel /\ s.editing = p.editing /\ s.number = p.number
      /\ s.key = NextKeys(p.key, TRUE)
  BY ReadKeeps
<1>2. p.key \in KeyStates /\ p.channel \in Nat /\ p.channels \in Nat /\ p.number \in Nat
      /\ p.channel < BYTE /\ p.channels < BYTE /\ p.number < BYTE /\ p.editing \in BOOLEAN
      /\ p.board \in Boards
  BY PanelSizes DEF Panels
<1>3. /\ s.key.old \in {p.key.old, held, "NONE"} /\ k \in Keys \cup {"NONE"}
      /\ k # "NONE" => held = k /\ p.key.old = k /\ s.key.old = k
  BY <1>1, <1>2, KeysRead
<1>4. \A key \in {"UP", "DOWN", "CONFIRM"} : Touches(s, key) => Touches(p, key)
  BY <1>3 DEF Touches
<1>5. /\ p.channels = boards.block[p.board].channels
      /\ p.channels > 0 => p.channel < p.channels
      /\ p.editing => p.number <= MAX_MINUTES
  BY DEF Offers
<1>6. /\ p.editing \/ Touches(p, "CONFIRM") => n >= 1
      /\ p.editing /\ (p.number # 0 \/ Turns(p)) => n >= 2
      /\ p.editing /\ p.number # 0 /\ Touches(p, "CONFIRM") => n >= 3
  BY DEF PressesNeeded
<1> DEFINE q == Manual(p)
<1>7. q = CASE k = "MODE" -> EnterStatus(s)
            [] k = "CONFIRM" /\ ~p.editing -> [s EXCEPT !.editing = TRUE, !.number = 0]
            [] k = "CONFIRM" /\ p.editing  -> EnterHome(s)
            [] k \notin {"MODE", "CONFIRM"} /\ ~p.editing ->
                 [s EXCEPT !.channel = Turn(@, k, 0, p.channels)]
            [] k \notin {"MODE", "CONFIRM"} /\ p.editing ->
                 [s EXCEPT !.number = Turn(@, k, 0, MAX_MINUTES + 1)]
  BY DEF Manual
<1> HIDE DEF k, s, q
<1>8. CASE k = "MODE"
  <2>1. q = [s EXCEPT !.mode = "status", !.channel = 0, !.channels = 0]
    BY <1>7, <1>8 DEF EnterStatus
  <2>2. 0 \in 0 .. BYTE - 1
    BY PanelSizes
  <2> QED
    BY <1>1, <2>1, <2>2 DEF Panels, q
<1>9. CASE k = "CONFIRM" /\ p.editing
  <2>1. q = [s EXCEPT !.mode = "home", !.board = boards.mine, !.channel = 0, !.channels = 0]
    BY <1>7, <1>9 DEF EnterHome
  <2>2. 0 \in 0 .. BYTE - 1
    BY PanelSizes
  <2> QED
    BY <1>1, <2>1, <2>2 DEF Panels, q
<1>10. CASE k = "CONFIRM" /\ ~p.editing
  <2>1. q = [s EXCEPT !.editing = TRUE, !.number = 0]
    BY <1>7, <1>10
  <2>2. 0 \in 0 .. BYTE - 1 /\ 0 <= MAX_MINUTES
    BY PanelSizes
  <2>3. /\ q \in Panels /\ q.mode = "manual" /\ q.board = p.board /\ q.channels = p.channels
        /\ q.channel = p.channel /\ q.number = 0 /\ q.editing /\ q.key = s.key
    BY <1>1, <2>1, <2>2 DEF Panels
  <2>4. Offers(q)
    BY <1>5, <2>2, <2>3 DEF Offers
  <2>5. n >= 1 /\ ~Turns(q)
    BY <1>3, <1>6, <1>10, <2>3 DEF Turns, Touches
  <2> QED
    BY <2>3, <2>4, <2>5 DEF PressesNeeded, q
<1>11. CASE k \notin {"MODE", "CONFIRM"} /\ ~p.editing
  <2> DEFINE c == Turn(p.channel, k, 0, p.channels)
  <2>1. c \in 0 .. BYTE - 1 /\ (p.channels > 0 => c < p.channels)
    <3>1. 0 \in {0, 1} /\ 0 + p.channels <= BYTE /\ BYTE \in Nat /\ BYTE > 1
      BY <1>2, PanelSizes
    <3>2. /\ p.channel < BYTE => c \in 0 .. BYTE - 1
          /\ p.channels > 0 /\ p.channel < 0 + p.channels => c < 0 + p.channels
      BY <1>2, <3>1, TurnStays
    <3> HIDE DEF c
    <3> QED
      BY <1>2, <1>5, <3>2
  <2>2. q = [s EXCEPT !.channel = c]
    BY <1>1, <1>7, <1>11
  <2> HIDE DEF c
  <2>3. /\ q \in Panels /\ q.mode = "manual" /\ q.board = p.board /\ q.channels = p.channels
        /\ q.channel = c /\ q.number = p.number /\ ~q.editing /\ q.key = s.key
    BY <1>1, <1>11, <2>1, <2>2 DEF Panels
  <2>4. Offers(q)
    BY <1>5, <2>1, <2>3 DEF Offers
  <2>5. Touches(q, "CONFIRM") => Touches(s, "CONFIRM")
    BY <2>3 DEF Touches
  <2> QED
    BY <1>4, <1>6, <2>3, <2>4, <2>5 DEF PressesNeeded, q
<1>12. CASE k \notin {"MODE", "CONFIRM"} /\ p.editing
  <2> DEFINE c == Turn(p.number, k, 0, MAX_MINUTES + 1)
  <2>1. c \in 0 .. BYTE - 1 /\ c <= MAX_MINUTES /\ (k \notin {"UP", "DOWN"} => c = p.number)
    <3> DEFINE count == MAX_MINUTES + 1
    <3>1. /\ 0 \in {0, 1} /\ 0 + count <= BYTE /\ BYTE \in Nat /\ BYTE > 1
          /\ count \in Nat /\ count > 0 /\ p.number < 0 + count
      BY <1>2, <1>5, <1>12, PanelSizes
    <3> HIDE DEF count
    <3> DEFINE d == Turn(p.number, k, 0, count)
    <3>2. /\ k \notin {"UP", "DOWN"} => d = p.number
          /\ p.number < BYTE => d \in 0 .. BYTE - 1
          /\ count > 0 /\ p.number < 0 + count => d < 0 + count
      BY <1>2, <3>1, TurnStays
    <3>3. c = d
      BY DEF count
    <3> HIDE DEF c, d
    <3> QED
      BY <1>2, <3>1, <3>2, <3>3, PanelSizes DEF count
  <2>2. q = [s EXCEPT !.number = c]
    BY <1>1, <1>7, <1>12
  <2> HIDE DEF c
  <2>3. /\ q \in Panels /\ q.mode = "manual" /\ q.board = p.board /\ q.channels = p.channels
        /\ q.channel = p.channel /\ q.number = c /\ q.editing /\ q.key = s.key
    BY <1>1, <1>12, <2>1, <2>2 DEF Panels
  <2>4. Offers(q)
    BY <1>5, <2>1, <2>3 DEF Offers
  <2>5. \A key \in {"UP", "DOWN", "CONFIRM"} : Touches(q, key) => Touches(p, key)
    BY <1>4, <2>3 DEF Touches
  <2>6. k \in {"UP", "DOWN"} => Turns(p) /\ ~Touches(q, "CONFIRM")
    BY <1>3, <2>3 DEF Turns, Touches
  <2>7. PressesNeeded(q, n)
    BY <1>6, <1>12, <2>1, <2>3, <2>5, <2>6 DEF PressesNeeded, Turns
  <2> QED
    BY <2>3, <2>4, <2>7 DEF q
<1> QED
  BY <1>3, <1>8, <1>9, <1>10, <1>11, <1>12

(* It is entered with the button down that leads to it, and offers what    *)
(* the station on the display has.                                         *)
LEMMA ManualEntered ==
  ASSUME NEW p \in Panels, held = "MODE", p.key.old = "MODE", NEW n \in Nat,
         boards \in [mine : Boards, block : [Boards -> BoardBlocks]]
  PROVE  LET q == EnterManual(p)
         IN  /\ q \in Panels /\ q.mode \in {"manual", "status", "home"}
             /\ q.mode = "manual" => Offers(q) /\ PressesNeeded(q, n)
<1> DEFINE c == boards.block[p.board].channels
           s == [p EXCEPT !.mode = "manual", !.editing = FALSE, !.channel = 0,
                          !.channels = c]
<1>1. c \in 0 .. BYTE - 1
  BY DEF Panels, BoardBlocks
<1>2. 0 \in 0 .. BYTE - 1
  BY PanelSizes
<1> HIDE DEF c
<1>3. /\ s \in Panels /\ s.mode = "manual" /\ s.editing = FALSE /\ s.channel = 0
      /\ s.channels = c /\ s.board = p.board /\ s.key = p.key
  BY <1>1, <1>2 DEF Panels
<1> HIDE DEF s
<1>4. Offers(s)
  BY <1>1, <1>2, <1>3 DEF Offers, c
<1>5. PressesNeeded(s, n)
  BY <1>3 DEF PressesNeeded, Touches
<1>6. EnterManual(p) = Manual(s)
  BY DEF EnterManual, s, c
<1>7. held \in Keys \cup {"NONE"}
  BY DEF Keys
<1> QED
  BY <1>3, <1>4, <1>5, <1>6, <1>7, ManualStays

(* The setup screen turns through numbers of stations.                     *)
LEMMA SetupTurns ==
  ASSUME NEW n \in 0 .. LASTBOARD, NEW k
  PROVE  Turn(n, k, 1, MAX_ID) \in Boards /\ Turn(n, k, 1, MAX_ID) \in 0 .. BYTE - 1
<1> DEFINE c == Turn(n, k, 1, MAX_ID)
<1>1. (1 + MAX_ID - 1) % BYTE = MAX_ID
  <2>1. 1 + MAX_ID - 1 = MAX_ID /\ MAX_ID \in 0 .. BYTE - 1 /\ BYTE > 0 /\ BYTE \in Nat
    BY PanelSizes
  <2> QED
    BY <2>1
<1>2. 1 + MAX_ID - 1 = MAX_ID /\ n \in Nat /\ n <= LASTBOARD
  BY PanelSizes
<1>3. \/ c = n \/ c = 1 \/ c = MAX_ID
      \/ n < MAX_ID /\ c = n + 1
      \/ n > 1 /\ c = n - 1
  BY <1>1, <1>2 DEF Turn
<1> HIDE DEF c
<1>4. c \in Nat /\ c <= LASTBOARD
  BY <1>2, <1>3, PanelSizes
<1> QED
  BY <1>4, PanelSizes DEF c

(* The setup screen offers the numbers of stations.                        *)
LEMMA SetupStays ==
  ASSUME NEW p \in Panels, held \in Keys \cup {"NONE"}, boards.mine \in Boards,
         p.mode = "setup", OffersStation(p)
  PROVE  LET q == Setup(p)
         IN  q \in Panels /\ q.mode \in {"setup", "home"} /\ OffersStation(q)
<1> DEFINE k == KeyOf(p.key, TRUE)
           s == Read(p, TRUE)
           q == Setup(p)
           c == Turn(p.number, k, 1, MAX_ID)
<1>1. /\ s \in Panels /\ s.mode = p.mode /\ s.board = p.board /\ s.channels = p.channels
      /\ s.channel = p.channel /\ s.editing = p.editing /\ s.number = p.number
      /\ s.key = NextKeys(p.key, TRUE)
  BY ReadKeeps
<1>2. boards.mine \in 0 .. BYTE - 1 /\ 0 \in 0 .. BYTE - 1
  BY PanelSizes
<1>3. q = CASE k = "MODE" -> EnterHome(s)
            [] k = "CONFIRM" -> [s EXCEPT !.editing = TRUE, !.number = boards.mine]
            [] k \notin {"MODE", "CONFIRM"} ->
                 IF p.editing THEN [s EXCEPT !.number = c] ELSE s
  BY <1>1 DEF Setup
<1>4. p.editing => c \in Boards /\ c \in 0 .. BYTE - 1
  <2> SUFFICES ASSUME p.editing PROVE c \in Boards /\ c \in 0 .. BYTE - 1
    OBVIOUS
  <2>1. p.number \in 0 .. LASTBOARD
    BY PanelSizes DEF OffersStation
  <2> HIDE DEF k
  <2> QED
    BY <2>1, SetupTurns
<1> HIDE DEF k, s, c, q
<1>6. CASE k = "MODE"
  <2>1. q = [s EXCEPT !.mode = "home", !.board = boards.mine, !.channel = 0, !.channels = 0]
    BY <1>3, <1>6 DEF EnterHome
  <2> QED
    BY <1>1, <1>2, <2>1 DEF Panels, OffersStation, q
<1>7. CASE k = "CONFIRM"
  <2>1. q = [s EXCEPT !.editing = TRUE, !.number = boards.mine]
    BY <1>3, <1>7
  <2> QED
    BY <1>1, <1>2, <2>1 DEF Panels, OffersStation, q
<1>8. CASE k \notin {"MODE", "CONFIRM"} /\ p.editing
  <2>1. q = [s EXCEPT !.number = c]
    BY <1>3, <1>8
  <2> QED
    BY <1>1, <1>4, <1>8, <2>1 DEF Panels, OffersStation, q
<1>9. CASE k \notin {"MODE", "CONFIRM"} /\ ~p.editing
  BY <1>1, <1>3, <1>9 DEF OffersStation, q
<1> QED
  BY <1>6, <1>7, <1>8, <1>9 DEF Panels

(* ... if it is built in; without it the home screen comes next.           *)
LEMMA SetupEntered ==
  ASSUME NEW p \in Panels, held \in Keys \cup {"NONE"}, boards.mine \in Boards
  PROVE  LET q == EnterSetup(p)
         IN  q \in Panels /\ q.mode \in {"setup", "home"} /\ OffersStation(q)
<1> DEFINE s == [p EXCEPT !.mode = "setup", !.editing = FALSE]
           h == EnterHome(p)
<1>1. s \in Panels /\ s.mode = "setup" /\ OffersStation(s)
  BY DEF Panels, OffersStation
<1>2. h \in Panels /\ h.mode = "home" /\ OffersStation(h)
  <2>1. 0 \in 0 .. BYTE - 1
    BY PanelSizes
  <2> QED
    BY <2>1 DEF EnterHome, Panels, OffersStation
<1> HIDE DEF s
<1>3. LET q == Setup(s) IN q \in Panels /\ q.mode \in {"setup", "home"} /\ OffersStation(q)
  BY <1>1, SetupStays
<1>4. EnterSetup(p) = IF withCard THEN h ELSE Setup(s)
  BY DEF EnterSetup, s
<1> HIDE DEF h
<1> QED
  BY <1>2, <1>3, <1>4

(* A station that starts shows itself.                                     *)
LEMMA StartStays ==
  ASSUME NEW b \in Boards
  PROVE  PanelStart(b) \in Panels /\ PanelStart(b).mode = "home"
<1>1. 0 \in 0 .. BYTE - 1
  BY PanelSizes
<1> QED
  BY <1>1 DEF PanelStart, Panels, KeyStates

(* The invariant, which history makes long: the home screen comes first... *)
LEMMA PanelInitInv == PanelInit => PanelInv
<1> SUFFICES ASSUME PanelInit PROVE PanelInv
  OBVIOUS
<1>1. boards \in [mine : Boards, block : [Boards -> BoardBlocks]]
  BY PanelAssumption DEF PanelInit
<1>2. panel \in Panels /\ panel.mode = "home"
  BY <1>1, StartStays DEF PanelInit
<1>3. presses = 0 /\ presses \in 0 .. MaxPresses /\ run = NoRun /\ held = "NONE"
      /\ withCard \in BOOLEAN
  BY PanelSizes DEF PanelInit
<1> QED
  BY <1>1, <1>2, <1>3 DEF PanelInv, PanelTypes, RunsAreMeant, OffersStation

(* ... and no poll, press or tick leaves it.                               *)
LEMMA PanelNextInv == PanelInv /\ [PanelNext]_panelVars => PanelInv'
<1> SUFFICES ASSUME PanelInv, [PanelNext]_panelVars PROVE PanelInv'
  OBVIOUS
<1>0. /\ boards \in [mine : Boards, block : [Boards -> BoardBlocks]] /\ boards.mine \in Boards
      /\ withCard \in BOOLEAN /\ held \in Keys \cup {"NONE"} /\ presses \in 0 .. MaxPresses
      /\ panel \in Panels /\ panel.key \in KeyStates /\ OffersStation(panel)
      /\ panel.mode # "manual" => presses = 0
      /\ panel.mode = "manual" => Offers(panel) /\ PressesNeeded(panel, presses)
      /\ presses \in Nat /\ MaxPresses \in Nat /\ 0 \in 0 .. MaxPresses /\ 0 \in Nat
  BY PanelSizes DEF PanelInv, PanelTypes, Panels
<1>1. ASSUME NEW b \in Boards, PollHome(b)
      PROVE  PanelInv'
  <2> DEFINE k == KeyOf(panel.key, FALSE)
             s == Read(panel, FALSE)
  <2>1. /\ panel.mode = "home" /\ run' = NoRun /\ boards' = boards /\ withCard' = withCard
        /\ held' = held /\ presses' = 0 /\ presses = 0
    BY <1>0, <1>1 DEF PollHome
  <2>2. /\ s \in Panels /\ s.mode = "home" /\ s.key = NextKeys(panel.key, FALSE)
        /\ k \in Keys \cup {"NONE"} /\ (k # "NONE" => held = k /\ s.key.old = k)
    BY <1>0, <2>1, ReadKeeps, KeysRead
  <2>3. panel' = CASE k = "MODE" -> EnterManual(s)
                   [] k \in {"UP", "DOWN"} /\ SearchHangs(s.board, k) ->
                        [s EXCEPT !.mode = "hung"]
                   [] k \in {"UP", "DOWN"} /\ ~SearchHangs(s.board, k) ->
                        [s EXCEPT !.board = b]
                   [] k \in {"CONFIRM", "NONE"} -> [s EXCEPT !.board = b]
    BY <1>1 DEF PollHome
  <2> HIDE DEF k, s
  <2>4. CASE k = "MODE"
    <3>1. panel' = EnterManual(s) /\ held = "MODE" /\ s.key.old = "MODE"
      BY <2>2, <2>3, <2>4
    <3>2. /\ panel' \in Panels /\ panel'.mode \in {"manual", "status", "home"}
          /\ panel'.mode = "manual" => Offers(panel') /\ PressesNeeded(panel', 0)
      BY <1>0, <2>2, <3>1, ManualEntered
    <3>3. panel'.mode = "manual" => Offers(panel)' /\ PressesNeeded(panel, presses)'
      BY <2>1, <3>2 DEF Offers, PressesNeeded, Touches, Turns
    <3> QED
      BY <1>0, <2>1, <3>2, <3>3 DEF PanelInv, PanelTypes, RunsAreMeant, OffersStation
  <2>5. CASE k # "MODE"
    <3>1. panel' \in {[s EXCEPT !.mode = "hung"], [s EXCEPT !.board = b]}
      BY <2>2, <2>3, <2>5 DEF Keys
    <3>2. panel' \in Panels /\ panel'.mode \in {"hung", "home"}
      BY <2>2, <3>1 DEF Panels
    <3> QED
      BY <1>0, <2>1, <3>2 DEF PanelInv, PanelTypes, RunsAreMeant, OffersStation
  <2> QED
    BY <2>4, <2>5
<1>2. CASE PollManual
  <2>1. /\ panel.mode = "manual" /\ panel' = Manual(panel) /\ boards' = boards
        /\ withCard' = withCard /\ held' = held
        /\ presses' = IF panel'.mode = "manual" THEN presses ELSE 0
    BY <1>2 DEF PollManual
  <2>2. /\ panel' \in Panels /\ panel'.mode \in {"manual", "status", "home"}
        /\ panel'.mode = "manual" => Offers(panel') /\ PressesNeeded(panel', presses)
    BY <1>0, <2>1, ManualStays
  <2>3. panel'.mode = "manual" => Offers(panel)' /\ PressesNeeded(panel, presses)'
    BY <2>1, <2>2 DEF Offers, PressesNeeded, Touches, Turns
  <2>4. RunsAreMeant'
    <3>1. CASE run' = NoRun
      BY <3>1 DEF RunsAreMeant
    <3>2. CASE run' # NoRun
      <4>1. /\ KeyOf(panel.key, TRUE) = "CONFIRM" /\ panel.editing /\ panel.number # 0
            /\ run' = [board |-> panel.board, channel |-> panel.channel,
                       minutes |-> panel.number, presses |-> presses]
        BY <1>2, <3>2 DEF PollManual
      <4>2. held = "CONFIRM"
        BY <1>0, <4>1, KeysRead
      <4>3. presses >= 3
        BY <1>0, <2>1, <4>1, <4>2 DEF PressesNeeded, Touches
      <4>4. panel.number \in 1 .. MAX_MINUTES
        <5>1. panel.number \in 0 .. BYTE - 1 /\ panel.number <= MAX_MINUTES
          BY <1>0, <2>1, <4>1 DEF Offers, Panels
        <5> QED
          BY <4>1, <5>1, PanelSizes
      <4>5. boards.block[panel.board].channels > 0 =>
              panel.channel < boards.block[panel.board].channels
        BY <1>0, <2>1 DEF Offers
      <4>6. /\ run'.board = panel.board /\ run'.channel = panel.channel
            /\ run'.minutes = panel.number /\ run'.presses = presses
        BY <4>1
      <4> QED
        BY <2>1, <4>3, <4>4, <4>5, <4>6 DEF RunsAreMeant
    <3> QED
      BY <3>1, <3>2
  <2>5. presses' \in 0 .. MaxPresses /\ (panel'.mode # "manual" => presses' = 0)
    BY <1>0, <2>1
  <2>6. OffersStation(panel)'
    BY <2>2 DEF OffersStation
  <2> QED
    BY <1>0, <2>1, <2>2, <2>3, <2>4, <2>5, <2>6 DEF PanelInv, PanelTypes
<1>3. CASE PollStatus
  <2> DEFINE s == Read(panel, FALSE)
  <2>1. /\ panel.mode = "status" /\ run' = NoRun /\ boards' = boards /\ withCard' = withCard
        /\ held' = held /\ presses' = 0 /\ (panel' = EnterSetup(s) \/ panel' = s)
    BY <1>0, <1>3 DEF PollStatus
  <2>2. s \in Panels /\ s.mode = "status"
    BY <1>0, <2>1, ReadKeeps
  <2> HIDE DEF s
  <2>3. LET q == EnterSetup(s)
        IN  q \in Panels /\ q.mode \in {"setup", "home"} /\ OffersStation(q)
    BY <1>0, <2>2, SetupEntered
  <2>4. panel' \in Panels /\ panel'.mode # "manual" /\ OffersStation(panel')
    BY <2>1, <2>2, <2>3 DEF OffersStation
  <2>5. OffersStation(panel)'
    BY <2>4 DEF OffersStation
  <2> QED
    BY <1>0, <2>1, <2>4, <2>5 DEF PanelInv, PanelTypes, RunsAreMeant
<1>4. CASE PollSetup /\ panel' = Setup(panel) /\ boards' = boards
  <2>1. /\ panel.mode = "setup" /\ run' = NoRun /\ withCard' = withCard
        /\ held' = held /\ presses' = 0
    BY <1>0, <1>4 DEF PollSetup
  <2>2. panel' \in Panels /\ panel'.mode # "manual" /\ OffersStation(panel')
    BY <1>0, <1>4, <2>1, SetupStays
  <2>3. OffersStation(panel)'
    BY <2>2 DEF OffersStation
  <2> QED
    BY <1>0, <1>4, <2>1, <2>2, <2>3 DEF PanelInv, PanelTypes, RunsAreMeant
<1>5. CASE PollSetup /\ ~(panel' = Setup(panel) /\ boards' = boards)
  <2>1. /\ panel.mode = "setup" /\ run' = NoRun /\ withCard' = withCard
        /\ held' = held /\ presses' = 0 /\ panel.editing
        /\ boards' = [mine |-> panel.number,
                      block |-> [b \in Boards |-> IF b = panel.number THEN DefaultBoard
                                                  ELSE [valid |-> FALSE, channels |-> 0]]]
        /\ panel' = PanelStart(panel.number)
    BY <1>0, <1>5 DEF PollSetup
  <2>2. panel.number \in Boards
    BY <1>0, <2>1 DEF OffersStation
  <2>3. panel' \in Panels /\ panel'.mode = "home"
    BY <2>1, <2>2, StartStays
  <2>4. boards' \in [mine : Boards, block : [Boards -> BoardBlocks]]
    <3>1. DefaultBoard \in BoardBlocks /\ [valid |-> FALSE, channels |-> 0] \in BoardBlocks
      BY PanelAssumption, PanelSizes DEF BoardBlocks
    <3> QED
      BY <2>1, <2>2, <3>1
  <2> QED
    BY <1>0, <2>1, <2>3, <2>4 DEF PanelInv, PanelTypes, RunsAreMeant, OffersStation
<1>6. CASE PanelReset
  <2>1. /\ run' = NoRun /\ boards' = boards /\ withCard' = withCard
        /\ held' = held /\ presses' = 0 /\ panel' = PanelStart(boards.mine)
    BY <1>0, <1>6 DEF PanelReset
  <2>2. panel' \in Panels /\ panel'.mode = "home"
    BY <1>0, <2>1, StartStays
  <2> QED
    BY <1>0, <2>1, <2>2 DEF PanelInv, PanelTypes, RunsAreMeant, OffersStation
<1>7. ASSUME NEW k \in Keys \cup {"NONE"}, PressKey(k)
      PROVE  PanelInv'
  <2>1. /\ held' = k /\ run' = NoRun /\ boards' = boards /\ withCard' = withCard
        /\ panel' = panel
        /\ presses' = IF panel.mode = "manual" /\ k # "NONE" /\ presses < MaxPresses
                      THEN presses + 1 ELSE presses
    BY <1>7 DEF PressKey
  <2>2. presses' \in 0 .. MaxPresses /\ (panel.mode # "manual" => presses' = 0)
    BY <1>0, <2>1
  <2>3. ASSUME panel.mode = "manual" PROVE Offers(panel)' /\ PressesNeeded(panel, presses)'
    <3>1. Offers(panel)'
      BY <1>0, <2>1, <2>3 DEF Offers
    <3>2. CASE k = "NONE"
      <4>1. presses' = presses /\ held' = "NONE"
        BY <2>1, <3>2
      <4>2. \A key \in {"UP", "DOWN", "CONFIRM"} : Touches(panel, key)' => Touches(panel, key)
        BY <2>1, <4>1 DEF Touches
      <4> QED
        BY <1>0, <2>1, <2>3, <3>1, <4>1, <4>2 DEF PressesNeeded, Turns
    <3>3. CASE k # "NONE"
      <4>1. presses' >= presses /\ (presses < 3 => presses' = presses + 1)
        BY <1>0, <2>1, <2>3, <3>3, PanelSizes
      <4>2. /\ panel.editing \/ Touches(panel, "CONFIRM") => presses >= 1
            /\ panel.editing /\ (panel.number # 0 \/ Turns(panel)) => presses >= 2
            /\ panel.editing /\ panel.number # 0 /\ Touches(panel, "CONFIRM") => presses >= 3
        BY <1>0, <2>3 DEF PressesNeeded
      <4>3. presses \in Nat /\ presses' \in Nat /\ presses' >= 1
        BY <1>0, <2>2, <4>1
      <4>4. panel.editing => presses' >= 2
        BY <4>1, <4>2, <4>3
      <4>5. panel.editing /\ panel.number # 0 => presses' >= 3
        BY <4>1, <4>2, <4>3
      <4> QED
        BY <2>1, <3>1, <4>3, <4>4, <4>5 DEF PressesNeeded
    <3> QED
      BY <3>2, <3>3
  <2> QED
    BY <1>0, <2>1, <2>2, <2>3 DEF PanelInv, PanelTypes, RunsAreMeant, OffersStation
<1>8. CASE KeysAge
  <2> DEFINE a == IF panel.key.state # "idle" /\ panel.key.age < HOLD
                  THEN panel.key.age + 1 ELSE panel.key.age
             b == IF panel.key.sent /\ panel.key.since <= REPEAT_INTERVAL
                  THEN panel.key.since + 1 ELSE panel.key.since
  <2>1. /\ run' = NoRun /\ boards' = boards /\ withCard' = withCard
        /\ held' = held /\ presses' = presses
        /\ panel' = [panel EXCEPT !.key.age = a, !.key.since = b]
    BY <1>8 DEF KeysAge
  <2>2. a \in Nat /\ b \in Nat
    BY <1>0 DEF KeyStates
  <2> HIDE DEF a, b
  <2> DEFINE key == [panel.key EXCEPT !.age = a, !.since = b]
  <2>3. panel' = [panel EXCEPT !.key = key]
    BY <1>0, <2>1 DEF Panels, KeyStates
  <2>4. key \in KeyStates /\ key.old = panel.key.old
    BY <1>0, <2>2 DEF KeyStates
  <2> HIDE DEF key
  <2>5. /\ panel' \in Panels /\ panel'.mode = panel.mode /\ panel'.board = panel.board
        /\ panel'.channels = panel.channels /\ panel'.channel = panel.channel
        /\ panel'.editing = panel.editing /\ panel'.number = panel.number
        /\ panel'.key.old = panel.key.old
    BY <1>0, <2>3, <2>4 DEF Panels
  <2>6. panel.mode = "manual" => Offers(panel)' /\ PressesNeeded(panel, presses)'
    BY <1>0, <2>1, <2>5 DEF Offers, PressesNeeded, Touches, Turns
  <2> QED
    BY <1>0, <2>1, <2>5, <2>6 DEF PanelInv, PanelTypes, RunsAreMeant, OffersStation
<1>9. CASE UNCHANGED panelVars
  BY <1>9 DEF panelVars, PanelInv, PanelTypes, RunsAreMeant, OffersStation, Offers,
     PressesNeeded, Touches, Turns
<1> QED
  BY <1>1, <1>2, <1>3, <1>4, <1>5, <1>6, <1>7, <1>8, <1>9 DEF PanelNext

(* However long keys are held, repeat, or are still down when the screen   *)
(* changes: a run is of a channel that was on the display, for minutes     *)
(* that were, and takes three presses.                                     *)
THEOREM PanelMeansIt == PanelSpec => []RunsAreMeant
<1>1. PanelInv => RunsAreMeant
  BY DEF PanelInv
<1> QED
  BY <1>1, PanelInitInv, PanelNextInv, PTL DEF PanelSpec

(* The screens show stations and numbers that exist.                       *)
THEOREM PanelTypeCorrect == PanelSpec => []PanelTypeOK
<1>1. PanelInv => PanelTypeOK
  BY DEF PanelInv, PanelTypes, PanelTypeOK, Panels
<1> QED
  BY <1>1, PanelInitInv, PanelNextInv, PTL DEF PanelSpec

-----------------------------------------------------------------------------
(***************************************************************************)
(* Provisioning: after a load that was completed the stations and zones    *)
(* are those of its file, and the sensors are those of one file after any  *)
(* load (ProvisioningAssumption).                                          *)
(***************************************************************************)

(* The list of stations that is loaded, its sections below k that count    *)
(* for station s, and the list of sensors with those below k that are      *)
(* taken over.                                                             *)
List          == Sections(ini.stations, MAX_STATIONS)
SensorList    == Sections(ini.sensors, MAX_SENSORS)
NamedBy(s, k) == {a \in 1 .. k : Accepted(List[a]) /\ List[a].id = s}
KeptBy(k)     == {a \in 1 .. k : AcceptedSensor(SensorList[a])}

Steps    == {"boot", "clear", "stations", "sensorCount", "sensors", "zones", "end", "up"}
Loading  == job.at \in {"clear", "stations", "sensorCount", "sensors", "zones", "end"}
Stations == [valid : BOOLEAN, channels : 0 .. ErasedByte, startZone : 0 .. ErasedByte]
Shorts   == [station : Nat, channel : Nat]
Layouts  ==
  [signature  : BOOLEAN,
   stations   : [StationIDs -> Stations],
   sensors    : [0 .. MAX_SENSORS - 1 -> Shorts],
   numSensors : 0 .. MAX_SENSORS - 1 \cup {ErasedByte},
   zones      : [ZoneNumbers -> Shorts],
   numZones   : 0 .. MAX_STATIONS * MAX_CHANNELS \cup {ErasedByte}]

(* The loops stay within their lists.                                      *)
LoopsInRange ==
  /\ job.at = "clear" => job.i <= MAX_STATIONS /\ job.j = 0 /\ job.n = 0
  /\ job.at = "stations" => job.i <= Len(List) /\ job.j = 0 /\ job.n = 0
  /\ job.at = "sensors" => job.i <= Len(SensorList) /\ job.j = 0 /\ job.n <= job.i
  /\ job.at = "zones" => /\ job.i <= MAX_STATIONS /\ job.j <= MAX_CHANNELS
                         /\ job.i = MAX_STATIONS => job.j = 0
                         /\ job.n <= job.i * MAX_CHANNELS + job.j
  /\ job.at \notin {"clear", "stations", "sensors", "zones"} =>
       job.i = 0 /\ job.j = 0 /\ job.n = 0

ProvTypes ==
  /\ hasCard \in BOOLEAN
  /\ ep \in Layouts
  /\ job \in [at : Steps, i : Nat, j : Nat, n : Nat]
  /\ ini.stations \in Seq(StationSections) /\ ini.sensors \in Seq(SensorSections)
  /\ LoopsInRange

(* The first k sections have been loaded.                                  *)
StationsLoaded(k) ==
  \A s \in StationIDs :
    /\ ep.stations[s].valid <=> NamedBy(s, k) # {}
    /\ \A a \in NamedBy(s, k) :
         (\A b \in NamedBy(s, k) : b <= a) =>
           ep.stations[s].channels = Truncated(List[a].channels)
    /\ ep.stations[s].channels <= MAX_CHANNELS

(* The zones that station s has been given so far.                         *)
Given(s) ==
  IF ~ep.stations[s].valid \/ s > job.i THEN {}
  ELSE ep.stations[s].startZone ..
         ep.stations[s].startZone + (IF s < job.i THEN ep.stations[s].channels ELSE job.j) - 1

ZonesSoFar ==
  /\ \A s, t \in StationIDs : s # t => \A z \in Given(s) : z \notin Given(t)
  /\ \A s \in StationIDs : \A z \in Given(s) : z \in 0 .. job.n - 1
  /\ \A z \in 0 .. job.n - 1 : \E s \in StationIDs : z \in Given(s)
  /\ \A s \in StationIDs : \A z \in Given(s) :
       z < ep.numZones => ep.zones[z] = [station |-> s, channel |-> z - ep.stations[s].startZone]
  /\ job.j > 0 => /\ ep.stations[job.i].valid /\ job.j <= ep.stations[job.i].channels
                  /\ ep.stations[job.i].startZone = job.n - job.j

ZonesDone ==
  /\ \A s, t \in StationIDs : s # t => \A z \in ZonesOf(s) : z \notin ZonesOf(t)
  /\ \A s \in StationIDs : \A z \in ZonesOf(s) : z \in 0 .. ep.numZones - 1
  /\ \A z \in 0 .. ep.numZones - 1 : \E s \in StationIDs : z \in ZonesOf(s)
  /\ fits => ZonesAreListed

StationsLoad ==
  /\ Loading => loaded = None /\ ini \in Files
  /\ loaded # None => loaded = ini
  /\ job.at = "clear" => \A s \in StationIDs : s < job.i => ep.stations[s] = NoStation
  /\ job.at = "stations" => StationsLoaded(job.i)
  /\ job.at \in {"sensorCount", "sensors", "zones", "end"} \/ loaded # None =>
       StationsLoaded(Len(List))
  /\ job.at = "zones" => ZonesSoFar
  /\ job.at = "end" \/ loaded # None => ZonesDone

SensorsLoad ==
  /\ job.at = "sensors" =>
       /\ ep.numSensors = 0
       /\ job.n = Cardinality(KeptBy(job.i))
       /\ \A a \in KeptBy(job.i) :
            ep.sensors[Cardinality(KeptBy(a - 1))]
              = [station |-> SensorList[a].station, channel |-> SensorList[a].channel]
  /\ SensorsAreWhole

ProvInv == ProvTypes /\ StationsLoad /\ SensorsLoad

-----------------------------------------------------------------------------
(* The numbers of zones and sensors are bytes that no erased byte equals.  *)
LEMMA ProvConstants ==
  /\ MAX_STATIONS \in Nat /\ MAX_CHANNELS \in Nat /\ ErasedByte \in Nat
  /\ MAX_SENSORS \in Nat \ {0} /\ MaxLoads \in Nat
  /\ MAX_STATIONS * MAX_CHANNELS \in Nat /\ MAX_STATIONS * MAX_CHANNELS < ErasedByte
  /\ MAX_SENSORS < ErasedByte
  /\ MAX_STATIONS > 0 => MAX_CHANNELS < ErasedByte
<1>1. /\ MAX_STATIONS \in Nat /\ MAX_CHANNELS \in Nat /\ ErasedByte \in Nat
      /\ MAX_SENSORS \in Nat \ {0} /\ MaxLoads \in Nat
      /\ MAX_STATIONS * MAX_CHANNELS < ErasedByte /\ MAX_SENSORS < ErasedByte
  BY ProvisioningAssumption DEF ProvisioningAssumption
<1>2. MAX_STATIONS * MAX_CHANNELS \in Nat
  BY <1>1
<1>3. MAX_STATIONS > 0 => MAX_CHANNELS <= MAX_STATIONS * MAX_CHANNELS
  BY <1>1
<1> QED
  BY <1>1, <1>2, <1>3

(* Whatever is loaded is a list of stations and one of sensors.            *)
LEMMA FilesAreLists ==
  ASSUME NEW f \in Files
  PROVE  f.stations \in Seq(StationSections) /\ f.sensors \in Seq(SensorSections)
<1>1. f \in IniFiles => f.stations \in Seq(StationSections) /\ f.sensors \in Seq(SensorSections)
  BY ProvisioningAssumption DEF ProvisioningAssumption
<1>2. f = NoFile => f.stations \in Seq(StationSections) /\ f.sensors \in Seq(SensorSections)
  BY DEF NoFile
<1>3. ASSUME NEW id \in DefaultIDs, f = Defaults(id)
      PROVE  f.stations \in Seq(StationSections) /\ f.sensors \in Seq(SensorSections)
  <2>1. id \in Nat /\ DefaultChannels \in Nat /\ DefaultSensors \in Seq(SensorSections)
    BY ProvConstants, ProvisioningAssumption DEF ProvisioningAssumption
  <2>2. [id |-> id, channels |-> DefaultChannels, readable |-> TRUE] \in StationSections
    BY <2>1 DEF StationSections
  <2> QED
    BY <1>3, <2>1, <2>2 DEF Defaults
<1> QED
  BY <1>1, <1>2, <1>3 DEF Files

(* The lists that are loaded fit.                                          *)
LEMMA ListsFit ==
  ASSUME ini.stations \in Seq(StationSections), ini.sensors \in Seq(SensorSections)
  PROVE  /\ List \in Seq(StationSections) /\ Len(List) \in Nat /\ Len(List) <= MAX_STATIONS
         /\ SensorList \in Seq(SensorSections) /\ Len(SensorList) \in 0 .. MAX_SENSORS - 1
         /\ \A a \in 1 .. Len(List) : List[a] \in StationSections
         /\ \A a \in 1 .. Len(SensorList) : SensorList[a] \in SensorSections
<1>1. List \in Seq(StationSections) /\ Len(List) \in Nat /\ Len(List) <= MAX_STATIONS
  BY ProvConstants DEF List, Sections
<1>2. SensorList \in Seq(SensorSections) /\ Len(SensorList) \in 0 .. MAX_SENSORS - 1
  BY ProvConstants DEF SensorList, Sections
<1> QED
  BY <1>1, <1>2

(* What the first write of a load changes in the EEPROM.                  *)
LEMMA SignatureWritten ==
  ASSUME NEW e \in Layouts, NEW f, f = [e EXCEPT !.signature = TRUE]
  PROVE  /\ f \in Layouts
         /\ f.stations = e.stations /\ f.sensors = e.sensors /\ f.numSensors = e.numSensors
         /\ f.zones = e.zones /\ f.numZones = e.numZones
BY DEF Layouts

(* A zone is written if it is below the recorded number of zones, and the  *)
(* start of the station when its first channel is.                         *)
LEMMA ZoneWritten ==
  ASSUME NEW e \in Layouts, NEW f, NEW s \in StationIDs, NEW first \in BOOLEAN,
         NEW a \in ZoneNumbers, NEW x \in Shorts,
         f = SaveZone(IF first THEN StartAt(e, s, a) ELSE e, a, x)
  PROVE  /\ f \in Layouts
         /\ f.stations = IF first
                         THEN [e.stations EXCEPT ![s] = [e.stations[s] EXCEPT !.startZone = a]]
                         ELSE e.stations
         /\ f.zones = IF a < e.numZones THEN [e.zones EXCEPT ![a] = x] ELSE e.zones
         /\ f.signature = e.signature /\ f.numZones = e.numZones
         /\ f.sensors = e.sensors /\ f.numSensors = e.numSensors
<1> DEFINE g == IF first THEN StartAt(e, s, a) ELSE e
<1>0. a \in 0 .. ErasedByte
  BY ProvConstants DEF ZoneNumbers
<1>1. /\ g \in Layouts
      /\ g.stations = IF first
                      THEN [e.stations EXCEPT ![s] = [e.stations[s] EXCEPT !.startZone = a]]
                      ELSE e.stations
      /\ g.signature = e.signature /\ g.zones = e.zones /\ g.numZones = e.numZones
      /\ g.sensors = e.sensors /\ g.numSensors = e.numSensors
  BY <1>0 DEF Layouts, Stations, StartAt
<1> HIDE DEF g
<1>2. f = IF a < g.numZones THEN [g EXCEPT !.zones[a] = x] ELSE g
  BY DEF SaveZone, g
<1>3. /\ f \in Layouts
      /\ f.zones = IF a < g.numZones THEN [g.zones EXCEPT ![a] = x] ELSE g.zones
      /\ f.stations = g.stations
      /\ f.signature = g.signature /\ f.numZones = g.numZones
      /\ f.sensors = g.sensors /\ f.numSensors = g.numSensors
  BY <1>1, <1>2 DEF Layouts
<1> QED
  BY <1>1, <1>3

-----------------------------------------------------------------------------
(* What a step does not touch *)

(* The loops start over.                                                   *)
LEMMA GotoStarts ==
  ASSUME NEW label \in Steps, Goto(label)
  PROVE  /\ job' \in [at : Steps, i : Nat, j : Nat, n : Nat]
         /\ job'.at = label /\ job'.i = 0 /\ job'.j = 0 /\ job'.n = 0
BY DEF Goto

(* The sections count for the same stations as long as the file is kept.   *)
LEMMA ListsKept ==
  ASSUME UNCHANGED ini
  PROVE  /\ List' = List /\ SensorList' = SensorList
         /\ \A s, k : NamedBy(s, k)' = NamedBy(s, k)
         /\ \A k : KeptBy(k)' = KeptBy(k)
BY DEF List, SensorList, NamedBy, KeptBy

(* Zones that have been given stay while their records do.                 *)
LEMMA ZonesKept ==
  ASSUME ZonesDone, ep'.stations = ep.stations, ep'.zones = ep.zones,
         ep'.numZones = ep.numZones, UNCHANGED fits
  PROVE  ZonesDone'
BY DEF ZonesDone, ZonesOf, ZonesAreListed

(* So do the sensors, unless they are loaded.                              *)
LEMMA SensorsKept ==
  ASSUME SensorsLoad, UNCHANGED hasCard, ep'.sensors = ep.sensors,
         ep'.numSensors = ep.numSensors, job'.at # "sensors"
  PROVE  SensorsLoad'
<1>1. SensorsAreWhole
  BY DEF SensorsLoad
<1>2. Files' = Files
  BY DEF Files
<1>3. SensorsAreWhole'
  BY <1>1, <1>2 DEF SensorsAreWhole
<1> QED
  BY <1>3 DEF SensorsLoad

-----------------------------------------------------------------------------
(* The steps *)

(* The start of a load, at the first start-up and on request.              *)
LEMMA BeginLoadInv ==
  ASSUME ProvInv, UNCHANGED hasCard, BeginLoad
  PROVE  ProvInv'
<1>1. /\ ep \in Layouts /\ ep' = [ep EXCEPT !.signature = TRUE]
      /\ ini' \in Files /\ loaded' = None /\ Goto("clear")
  BY DEF ProvInv, ProvTypes, BeginLoad
<1>2. /\ ep' \in Layouts /\ ep'.sensors = ep.sensors /\ ep'.numSensors = ep.numSensors
  BY <1>1, SignatureWritten
<1>3. /\ job' \in [at : Steps, i : Nat, j : Nat, n : Nat]
      /\ job'.at = "clear" /\ job'.i = 0 /\ job'.j = 0 /\ job'.n = 0
  BY <1>1, GotoStarts DEF Steps
<1>4. ini'.stations \in Seq(StationSections) /\ ini'.sensors \in Seq(SensorSections)
  BY <1>1, FilesAreLists
<1>5. ProvTypes'
  <2>1. LoopsInRange'
    BY <1>3, ProvConstants DEF LoopsInRange
  <2> QED
    BY <1>2, <1>3, <1>4, <2>1 DEF ProvInv, ProvTypes
<1>6. StationsLoad'
  <2>1. Files' = Files
    BY DEF Files
  <2>2. \A s \in StationIDs : ~(s < job'.i)
    BY <1>3, ProvConstants DEF StationIDs
  <2> QED
    BY <1>1, <1>3, <2>1, <2>2 DEF StationsLoad
<1>7. SensorsLoad'
  BY <1>2, <1>3, SensorsKept DEF ProvInv
<1> QED
  BY <1>5, <1>6, <1>7 DEF ProvInv

(* The end of a load, a cut, and a start-up with a configuration.          *)
LEMMA NothingWrittenInv ==
  ASSUME ProvInv, UNCHANGED <<hasCard, ep, ini, fits>>,
         NEW label \in {"boot", "up"}, Goto(label),
         \/ loaded' = loaded
         \/ job.at = "end" /\ loaded' = ini
  PROVE  ProvInv'
<1>1. /\ job' \in [at : Steps, i : Nat, j : Nat, n : Nat]
      /\ job'.at = label /\ job'.i = 0 /\ job'.j = 0 /\ job'.n = 0
  BY GotoStarts DEF Steps
<1>2. ProvTypes'
  <2>1. LoopsInRange'
    BY <1>1 DEF LoopsInRange
  <2> QED
    BY <1>1, <2>1 DEF ProvInv, ProvTypes
<1>3. loaded' # None => /\ loaded' = ini' /\ StationsLoaded(Len(List)) /\ ZonesDone
  BY DEF ProvInv, StationsLoad
<1>4. StationsLoad'
  <2>1. StationsLoaded(Len(List)) => StationsLoaded(Len(List))'
    BY ListsKept DEF StationsLoaded
  <2>2. ZonesDone => ZonesDone'
    BY ZonesKept
  <2> QED
    BY <1>1, <1>3, <2>1, <2>2 DEF StationsLoad, Loading
<1>5. SensorsLoad'
  BY <1>1, SensorsKept DEF ProvInv
<1> QED
  BY <1>2, <1>4, <1>5 DEF ProvInv

(* A station's record is cleared.                                          *)
LEMMA ClearStationInv ==
  ASSUME ProvInv, UNCHANGED hasCard, ClearStation
  PROVE  ProvInv'
<1>0. /\ job.at = "clear" /\ ep \in Layouts /\ UNCHANGED <<ini, fits, loaded>>
      /\ job \in [at : Steps, i : Nat, j : Nat, n : Nat]
      /\ job.i \in Nat /\ job.i <= MAX_STATIONS /\ job.j = 0 /\ job.n = 0
      /\ loaded = None /\ ini \in Files
      /\ \A s \in StationIDs : s < job.i => ep.stations[s] = NoStation
      /\ ini.stations \in Seq(StationSections) /\ ini.sensors \in Seq(SensorSections)
  BY DEF ProvInv, ProvTypes, LoopsInRange, StationsLoad, ClearStation, Loading
<1>1. Files' = Files /\ MAX_STATIONS \in Nat
  BY ProvConstants DEF Files
<1>2. CASE job.i < MAX_STATIONS
  <2>1. /\ ep' = [ep EXCEPT !.stations[job.i] = NoStation]
        /\ job' = [job EXCEPT !.i = @ + 1]
    BY <1>2 DEF ClearStation
  <2>2. job.i \in StationIDs /\ NoStation \in Stations
    BY <1>0, <1>1, <1>2, ProvConstants DEF StationIDs, NoStation, Stations
  <2>3. /\ ep' \in Layouts /\ ep'.stations = [ep.stations EXCEPT ![job.i] = NoStation]
        /\ ep'.sensors = ep.sensors /\ ep'.numSensors = ep.numSensors
    BY <1>0, <2>1, <2>2 DEF Layouts
  <2>4. /\ job' \in [at : Steps, i : Nat, j : Nat, n : Nat]
        /\ job'.at = "clear" /\ job'.i = job.i + 1 /\ job'.j = 0 /\ job'.n = 0
    BY <1>0, <2>1
  <2>5. ProvTypes'
    <3>1. LoopsInRange'
      BY <1>0, <1>1, <1>2, <2>4 DEF LoopsInRange
    <3> QED
      BY <1>0, <2>3, <2>4, <3>1 DEF ProvTypes, ProvInv
  <2>6. StationsLoad'
    <3>1. \A s \in StationIDs : s < job'.i => ep'.stations[s] = NoStation
      BY <1>0, <1>1, <2>2, <2>3, <2>4 DEF StationIDs, Layouts
    <3> QED
      BY <1>0, <1>1, <2>4, <3>1 DEF StationsLoad
  <2>7. SensorsLoad'
    BY <2>3, <2>4, SensorsKept DEF ProvInv
  <2> QED
    BY <2>5, <2>6, <2>7 DEF ProvInv
<1>3. CASE ~(job.i < MAX_STATIONS)
  <2>1. Goto("stations") /\ ep' = ep
    BY <1>3 DEF ClearStation
  <2>2. /\ job' \in [at : Steps, i : Nat, j : Nat, n : Nat]
        /\ job'.at = "stations" /\ job'.i = 0 /\ job'.j = 0 /\ job'.n = 0
    BY <2>1, GotoStarts DEF Steps
  <2>3. ProvTypes'
    <3>1. LoopsInRange'
      <4>1. Len(List') \in Nat
        BY <1>0, ListsFit, ListsKept
      <4> QED
        BY <2>2, <4>1 DEF LoopsInRange
    <3> QED
      BY <1>0, <2>1, <2>2, <3>1 DEF ProvTypes, ProvInv
  <2>4. StationsLoad'
    <3>1. \A s \in StationIDs : ep'.stations[s] = NoStation /\ NamedBy(s, 0)' = {}
      BY <1>0, <1>1, <1>3, <2>1 DEF StationIDs, NamedBy
    <3>2. StationsLoaded(0)'
      BY <3>1, ProvConstants DEF StationsLoaded, NoStation
    <3>3. StationsLoaded(job.i)'
      BY <2>2, <3>2
    <3> QED
      BY <1>0, <1>1, <2>2, <3>3 DEF StationsLoad
  <2>5. SensorsLoad'
    BY <2>1, <2>2, SensorsKept DEF ProvInv
  <2> QED
    BY <2>3, <2>4, <2>5 DEF ProvInv
<1> QED
  BY <1>2, <1>3

(* Channels are cut to what a station may have.                            *)
LEMMA TruncatedFits ==
  ASSUME NEW c \in Nat
  PROVE  Truncated(c) \in Nat /\ Truncated(c) <= MAX_CHANNELS
BY ProvConstants DEF Truncated

(* A section more.                                                         *)
LEMMA NamedMore ==
  ASSUME NEW k \in Nat, NEW s
  PROVE  NamedBy(s, k + 1) = IF Accepted(List[k + 1]) /\ List[k + 1].id = s
                             THEN NamedBy(s, k) \cup {k + 1} ELSE NamedBy(s, k)
<1>1. \A a : a \in 1 .. k + 1 <=> a \in 1 .. k \/ a = k + 1
  OBVIOUS
<1> QED
  BY <1>1 DEF NamedBy

(* A station's section is loaded.                                          *)
LEMMA LoadStationInv ==
  ASSUME ProvInv, UNCHANGED hasCard, LoadStation
  PROVE  ProvInv'
<1>0. /\ job.at = "stations" /\ ep \in Layouts /\ UNCHANGED <<ini, fits, loaded>>
      /\ job \in [at : Steps, i : Nat, j : Nat, n : Nat]
      /\ job.i \in Nat /\ job.i <= Len(List) /\ job.j = 0 /\ job.n = 0
      /\ loaded = None /\ ini \in Files /\ StationsLoaded(job.i)
      /\ ini.stations \in Seq(StationSections) /\ ini.sensors \in Seq(SensorSections)
  BY DEF ProvInv, ProvTypes, LoopsInRange, StationsLoad, LoadStation, Loading
<1>1. Files' = Files
  BY DEF Files
<1>2. /\ Len(List) \in Nat /\ \A a \in 1 .. Len(List) : List[a] \in StationSections
      /\ List' = List
  BY <1>0, ListsFit, ListsKept
<1>3. CASE job.i < Len(List)
  <2> DEFINE section == List[job.i + 1]
             st == [valid |-> TRUE, channels |-> Truncated(section.channels), startZone |-> 0]
  <2>1. /\ ep' = IF Accepted(section) THEN [ep EXCEPT !.stations[section.id] = st] ELSE ep
        /\ job' = [job EXCEPT !.i = @ + 1]
    BY <1>3 DEF LoadStation, List
  <2>2. section \in StationSections
    <3>1. job.i + 1 \in 1 .. Len(List)
      BY <1>0, <1>2, <1>3
    <3> QED
      BY <1>2, <3>1
  <2> HIDE DEF section
  <2>3. section.id \in Nat /\ section.channels \in Nat
    BY <2>2 DEF StationSections
  <2>4. Truncated(section.channels) \in Nat /\ Truncated(section.channels) <= MAX_CHANNELS
    BY <2>3, TruncatedFits
  <2>5. Accepted(section) => section.id \in StationIDs /\ st \in Stations
    BY <2>3, <2>4, ProvConstants DEF Accepted, StationIDs, Stations
  <2>6. /\ ep' \in Layouts
        /\ ep'.stations = IF Accepted(section) THEN [ep.stations EXCEPT ![section.id] = st]
                          ELSE ep.stations
        /\ ep'.sensors = ep.sensors /\ ep'.numSensors = ep.numSensors
    <3> HIDE DEF st
    <3>1. CASE Accepted(section)
      <4>1. ep' = [ep EXCEPT !.stations[section.id] = st]
        BY <2>1, <3>1
      <4> QED
        BY <1>0, <2>5, <3>1, <4>1 DEF Layouts
    <3>2. CASE ~Accepted(section)
      BY <1>0, <2>1, <3>2
    <3> QED
      BY <3>1, <3>2
  <2>7. /\ job' \in [at : Steps, i : Nat, j : Nat, n : Nat]
        /\ job'.at = "stations" /\ job'.i = job.i + 1 /\ job'.j = 0 /\ job'.n = 0
    BY <1>0, <2>1
  <2>8. ProvTypes'
    <3>1. LoopsInRange'
      BY <1>0, <1>2, <1>3, <2>7 DEF LoopsInRange
    <3> QED
      BY <1>0, <2>6, <2>7, <3>1 DEF ProvTypes, ProvInv
  <2>9. StationsLoad'
    <3>1. PICK k \in Nat : k = job.i
      BY <1>0
    <3>2. \A s \in StationIDs : NamedBy(s, k + 1)' = NamedBy(s, k + 1)
      BY <1>0, ListsKept
    <3>3. List[k + 1] = section
      BY <3>1 DEF section
    <3>4. ASSUME NEW s \in StationIDs
          PROVE  /\ ep'.stations[s].valid <=> NamedBy(s, k + 1) # {}
                 /\ \A a \in NamedBy(s, k + 1) :
                      (\A b \in NamedBy(s, k + 1) : b <= a) =>
                        ep'.stations[s].channels = Truncated(List[a].channels)
                 /\ ep'.stations[s].channels <= MAX_CHANNELS
      <4>1. /\ ep.stations[s].valid <=> NamedBy(s, k) # {}
            /\ \A a \in NamedBy(s, k) :
                 (\A b \in NamedBy(s, k) : b <= a) =>
                   ep.stations[s].channels = Truncated(List[a].channels)
            /\ ep.stations[s].channels <= MAX_CHANNELS
        BY <1>0, <3>1 DEF StationsLoaded
      <4>2. CASE Accepted(section) /\ section.id = s
        <5>1. NamedBy(s, k + 1) = NamedBy(s, k) \cup {k + 1}
          BY <3>3, <4>2, NamedMore
        <5>2. ep'.stations[s] = st
          BY <1>0, <2>6, <4>2 DEF Layouts
        <5>3. \A a \in NamedBy(s, k + 1) : a \in Nat /\ a <= k + 1
          BY DEF NamedBy
        <5>4. \A a \in NamedBy(s, k + 1) : k + 1 <= a => a = k + 1
          BY <5>3
        <5> QED
          BY <2>4, <3>3, <5>1, <5>2, <5>4
      <4>3. CASE ~(Accepted(section) /\ section.id = s)
        <5>1. NamedBy(s, k + 1) = NamedBy(s, k)
          BY <3>3, <4>3, NamedMore
        <5>2. ep'.stations[s] = ep.stations[s]
          BY <1>0, <2>5, <2>6, <4>3 DEF Layouts
        <5> QED
          BY <4>1, <5>1, <5>2
      <4> QED
        BY <4>2, <4>3
    <3>5. StationsLoaded(k + 1)'
      BY <1>2, <3>2, <3>4 DEF StationsLoaded
    <3>6. StationsLoaded(job.i)'
      BY <2>7, <3>1, <3>5
    <3> QED
      BY <1>0, <1>1, <2>7, <3>6 DEF StationsLoad
  <2>10. SensorsLoad'
    BY <2>6, <2>7, SensorsKept DEF ProvInv
  <2> QED
    BY <2>8, <2>9, <2>10 DEF ProvInv
<1>4. CASE ~(job.i < Len(List))
  <2>1. Goto("sensorCount") /\ ep' = ep
    BY <1>4 DEF LoadStation, List
  <2>2. /\ job' \in [at : Steps, i : Nat, j : Nat, n : Nat]
        /\ job'.at = "sensorCount" /\ job'.i = 0 /\ job'.j = 0 /\ job'.n = 0
    BY <2>1, GotoStarts DEF Steps
  <2>3. ProvTypes'
    <3>1. LoopsInRange'
      BY <2>2 DEF LoopsInRange
    <3> QED
      BY <1>0, <2>1, <2>2, <3>1 DEF ProvTypes, ProvInv
  <2>4. StationsLoad'
    <3>1. PICK k \in Nat : k = job.i /\ k = Len(List)
      BY <1>0, <1>2, <1>4
    <3>2. StationsLoaded(k)
      BY <1>0, <3>1
    <3>3. StationsLoaded(k)'
      BY <1>0, <2>1, <3>2, ListsKept DEF StationsLoaded
    <3>4. StationsLoaded(Len(List))'
      BY <1>2, <3>1, <3>3
    <3> QED
      BY <1>0, <1>1, <2>2, <3>4 DEF StationsLoad
  <2>5. SensorsLoad'
    BY <2>1, <2>2, SensorsKept DEF ProvInv
  <2> QED
    BY <2>3, <2>4, <2>5 DEF ProvInv
<1> QED
  BY <1>3, <1>4

(* The number of sensors is cleared before they change.                    *)
LEMMA ClearSensorCountInv ==
  ASSUME ProvInv, UNCHANGED hasCard, ClearSensorCount
  PROVE  ProvInv'
<1>0. /\ job.at = "sensorCount" /\ ep \in Layouts /\ UNCHANGED <<ini, fits, loaded>>
      /\ loaded = None /\ ini \in Files /\ StationsLoaded(Len(List))
      /\ ini.stations \in Seq(StationSections) /\ ini.sensors \in Seq(SensorSections)
      /\ ep' = [ep EXCEPT !.numSensors = 0] /\ Goto("sensors")
  BY DEF ProvInv, ProvTypes, StationsLoad, ClearSensorCount, Loading
<1>1. Files' = Files
  BY DEF Files
<1>2. /\ job' \in [at : Steps, i : Nat, j : Nat, n : Nat]
      /\ job'.at = "sensors" /\ job'.i = 0 /\ job'.j = 0 /\ job'.n = 0
  BY <1>0, GotoStarts DEF Steps
<1>3. /\ ep' \in Layouts /\ ep'.numSensors = 0 /\ ep'.stations = ep.stations
      /\ ep'.sensors = ep.sensors /\ ep'.zones = ep.zones /\ ep'.numZones = ep.numZones
  <2>1. 0 \in 0 .. MAX_SENSORS - 1
    BY ProvConstants
  <2> QED
    BY <1>0, <2>1 DEF Layouts
<1>4. ProvTypes'
  <2>1. LoopsInRange'
    <3>1. Len(SensorList') \in Nat
      BY <1>0, ListsFit, ListsKept
    <3> QED
      BY <1>2, <3>1 DEF LoopsInRange
  <2> QED
    BY <1>0, <1>2, <1>3, <2>1 DEF ProvTypes, ProvInv
<1>5. StationsLoad'
  <2>1. StationsLoaded(Len(List))'
    BY <1>0, <1>3, ListsKept DEF StationsLoaded
  <2> QED
    BY <1>0, <1>1, <1>2, <2>1 DEF StationsLoad
<1>6. SensorsLoad'
  <2>1. KeptBy(0)' = {} /\ Cardinality({}) = 0
    BY FS_EmptySet DEF KeptBy
  <2>2. KeptBy(job.i)' = {}
    BY <1>2, <2>1
  <2>3. SensorsAreWhole'
    BY <1>3 DEF SensorsAreWhole
  <2> QED
    BY <1>2, <1>3, <2>1, <2>2, <2>3 DEF SensorsLoad
<1> QED
  BY <1>4, <1>5, <1>6 DEF ProvInv

(* The sensors taken over are counted, and a section more.                 *)
LEMMA KeptCounted ==
  ASSUME NEW k \in Nat
  PROVE  /\ IsFiniteSet(KeptBy(k)) /\ Cardinality(KeptBy(k)) \in Nat
         /\ KeptBy(k + 1) = IF AcceptedSensor(SensorList[k + 1])
                            THEN KeptBy(k) \cup {k + 1} ELSE KeptBy(k)
         /\ Cardinality(KeptBy(k + 1)) = Cardinality(KeptBy(k))
              + (IF AcceptedSensor(SensorList[k + 1]) THEN 1 ELSE 0)
<1>1. IsFiniteSet(1 .. k) /\ KeptBy(k) \subseteq 1 .. k
  BY FS_Interval DEF KeptBy
<1>2. IsFiniteSet(KeptBy(k)) /\ Cardinality(KeptBy(k)) \in Nat
  BY <1>1, FS_Subset, FS_CardinalityType
<1>3. \A a : a \in 1 .. k + 1 <=> a \in 1 .. k \/ a = k + 1
  OBVIOUS
<1>4. KeptBy(k + 1) = IF AcceptedSensor(SensorList[k + 1])
                      THEN KeptBy(k) \cup {k + 1} ELSE KeptBy(k)
  BY <1>3 DEF KeptBy
<1>5. k + 1 \notin KeptBy(k)
  BY <1>1
<1>6. Cardinality(KeptBy(k) \cup {k + 1}) = Cardinality(KeptBy(k)) + 1
  BY <1>2, <1>5, FS_AddElement
<1> QED
  BY <1>2, <1>4, <1>6

(* Each is saved behind those before it.                                   *)
LEMMA KeptInOrder ==
  ASSUME NEW k \in Nat, NEW a \in KeptBy(k)
  PROVE  /\ a \in Nat /\ Cardinality(KeptBy(a - 1)) \in Nat
         /\ Cardinality(KeptBy(a - 1)) < Cardinality(KeptBy(k))
         /\ {b \in KeptBy(k) : b < a} = KeptBy(a - 1)
<1>1. a \in 1 .. k /\ a - 1 \in Nat /\ AcceptedSensor(SensorList[a])
  BY DEF KeptBy
<1>2. {b \in KeptBy(k) : b < a} = KeptBy(a - 1)
  <2>1. \A b : b \in 1 .. k /\ b < a <=> b \in 1 .. a - 1
    BY <1>1
  <2> QED
    BY <2>1 DEF KeptBy
<1>3. IsFiniteSet(KeptBy(k)) /\ Cardinality(KeptBy(k)) \in Nat
  BY KeptCounted
<1>4. PICK n \in Nat : n = a - 1
  BY <1>1
<1>5. Cardinality(KeptBy(n)) \in Nat /\ Cardinality(KeptBy(n + 1)) = Cardinality(KeptBy(n)) + 1
  <2>1. n + 1 = a
    BY <1>1, <1>4
  <2> QED
    BY <1>1, <2>1, KeptCounted
<1>6. KeptBy(n + 1) \subseteq KeptBy(k)
  <2>1. n + 1 <= k /\ n \in Nat
    BY <1>1, <1>4
  <2>2. \A b \in 1 .. n + 1 : b \in 1 .. k
    BY <2>1
  <2> QED
    BY <2>2 DEF KeptBy
<1>7. Cardinality(KeptBy(n + 1)) <= Cardinality(KeptBy(k))
  BY <1>3, <1>6, FS_Subset
<1> QED
  BY <1>1, <1>2, <1>3, <1>4, <1>5, <1>7

(* A sensor is saved, or passed over.                                      *)
LEMMA LoadSensorInv ==
  ASSUME ProvInv, UNCHANGED hasCard, LoadSensor
  PROVE  ProvInv'
<1>0. /\ job.at = "sensors" /\ ep \in Layouts /\ UNCHANGED <<ini, fits, loaded>>
      /\ job \in [at : Steps, i : Nat, j : Nat, n : Nat]
      /\ job.i \in Nat /\ job.n \in Nat /\ job.i <= Len(SensorList) /\ job.j = 0
      /\ job.n <= job.i
      /\ loaded = None /\ ini \in Files /\ StationsLoaded(Len(List))
      /\ ini.stations \in Seq(StationSections) /\ ini.sensors \in Seq(SensorSections)
  BY DEF ProvInv, ProvTypes, LoopsInRange, StationsLoad, LoadSensor, Loading
<1>1. Files' = Files
  BY DEF Files
<1>2. /\ Len(SensorList) \in 0 .. MAX_SENSORS - 1
      /\ \A a \in 1 .. Len(SensorList) : SensorList[a] \in SensorSections
      /\ SensorList' = SensorList /\ List' = List /\ MAX_SENSORS \in Nat
  BY <1>0, ListsFit, ListsKept, ProvConstants
<1>3. PICK k \in Nat, n \in Nat : k = job.i /\ n = job.n
  BY <1>0
<1>4. /\ ep.numSensors = 0 /\ n = Cardinality(KeptBy(k))
      /\ \A a \in KeptBy(k) :
           ep.sensors[Cardinality(KeptBy(a - 1))]
             = [station |-> SensorList[a].station, channel |-> SensorList[a].channel]
  BY <1>0, <1>3 DEF ProvInv, SensorsLoad
<1>5. CASE job.i < Len(SensorList)
  <2> DEFINE section == SensorList[job.i + 1]
             x == [station |-> section.station, channel |-> section.channel]
  <2>1. /\ ep' = IF AcceptedSensor(section) THEN [ep EXCEPT !.sensors[job.n] = x] ELSE ep
        /\ job' = IF AcceptedSensor(section) THEN [job EXCEPT !.i = @ + 1, !.n = @ + 1]
                  ELSE [job EXCEPT !.i = @ + 1]
    BY <1>5 DEF LoadSensor, SensorList
  <2>2. section \in SensorSections /\ section = SensorList[k + 1]
    <3>1. job.i + 1 \in 1 .. Len(SensorList)
      BY <1>0, <1>2, <1>5
    <3> QED
      BY <1>2, <1>3, <3>1
  <2> HIDE DEF section
  <2>3. x \in Shorts
    BY <2>2 DEF SensorSections, Shorts
  <2>4. job.n \in 0 .. MAX_SENSORS - 1
    BY <1>0, <1>2, <1>5
  <2>5. /\ ep' \in Layouts
        /\ ep'.sensors = IF AcceptedSensor(section) THEN [ep.sensors EXCEPT ![n] = x]
                         ELSE ep.sensors
        /\ ep'.stations = ep.stations /\ ep'.numSensors = ep.numSensors
    <3> HIDE DEF x
    <3>1. CASE AcceptedSensor(section)
      <4>1. ep' = [ep EXCEPT !.sensors[job.n] = x]
        BY <2>1, <3>1
      <4> QED
        BY <1>0, <1>3, <2>3, <2>4, <3>1, <4>1 DEF Layouts
    <3>2. CASE ~AcceptedSensor(section)
      BY <1>0, <2>1, <3>2
    <3> QED
      BY <3>1, <3>2
  <2>6. /\ job' \in [at : Steps, i : Nat, j : Nat, n : Nat]
        /\ job'.at = "sensors" /\ job'.i = k + 1 /\ job'.j = 0
        /\ job'.n = n + (IF AcceptedSensor(section) THEN 1 ELSE 0)
    <3>1. CASE AcceptedSensor(section)
      <4>1. job' = [job EXCEPT !.i = @ + 1, !.n = @ + 1]
        BY <2>1, <3>1
      <4>2. job.i + 1 \in Nat /\ job.n + 1 \in Nat
        BY <1>0
      <4>3. job' = [at |-> job.at, i |-> job.i + 1, j |-> job.j, n |-> job.n + 1]
        BY <1>0, <4>1
      <4>4. job' \in [at : Steps, i : Nat, j : Nat, n : Nat]
        BY <1>0, <4>2, <4>3
      <4> QED
        BY <1>0, <1>3, <3>1, <4>3, <4>4
    <3>2. CASE ~AcceptedSensor(section)
      <4>1. job' = [job EXCEPT !.i = @ + 1]
        BY <2>1, <3>2
      <4> QED
        BY <1>0, <1>3, <3>2, <4>1
    <3> QED
      BY <3>1, <3>2
  <2>7. ProvTypes'
    <3>1. LoopsInRange'
      BY <1>0, <1>2, <1>3, <1>5, <2>6 DEF LoopsInRange
    <3> QED
      BY <1>0, <2>5, <2>6, <3>1 DEF ProvTypes, ProvInv
  <2>8. StationsLoad'
    <3>1. StationsLoaded(Len(List))'
      BY <1>0, <2>5, ListsKept DEF StationsLoaded
    <3> QED
      BY <1>0, <1>1, <2>6, <3>1 DEF StationsLoad
  <2>9. SensorsLoad'
    <3>1. /\ KeptBy(k + 1) = IF AcceptedSensor(section) THEN KeptBy(k) \cup {k + 1} ELSE KeptBy(k)
          /\ Cardinality(KeptBy(k + 1))
               = Cardinality(KeptBy(k)) + (IF AcceptedSensor(section) THEN 1 ELSE 0)
      BY <2>2, KeptCounted
    <3>2. job'.n = Cardinality(KeptBy(k + 1))
      BY <1>4, <2>6, <3>1
    <3>3. ASSUME NEW a \in KeptBy(k + 1)
          PROVE  ep'.sensors[Cardinality(KeptBy(a - 1))]
                   = [station |-> SensorList[a].station, channel |-> SensorList[a].channel]
      <4>1. CASE a \in KeptBy(k)
        <5>1. /\ Cardinality(KeptBy(a - 1)) \in Nat /\ Cardinality(KeptBy(a - 1)) < n
          BY <1>4, <4>1, KeptInOrder
        <5>2. PICK c \in Nat : c = Cardinality(KeptBy(a - 1))
          BY <5>1
        <5>3. ep.sensors[c]
                = [station |-> SensorList[a].station, channel |-> SensorList[a].channel]
          BY <1>4, <4>1, <5>2
        <5>4. ep'.sensors[c] = ep.sensors[c]
          <6>1. c # n /\ c \in 0 .. MAX_SENSORS - 1
            BY <1>2, <1>3, <2>4, <5>1, <5>2
          <6>2. ep.sensors \in [0 .. MAX_SENSORS - 1 -> Shorts]
            BY <1>0 DEF Layouts
          <6> QED
            BY <2>5, <6>1, <6>2
        <5> QED
          BY <5>2, <5>3, <5>4
      <4>2. CASE a \notin KeptBy(k)
        <5>1. AcceptedSensor(section) /\ a = k + 1
          BY <3>1, <4>2
        <5>2. a - 1 = k
          BY <5>1
        <5>3. Cardinality(KeptBy(a - 1)) = n
          BY <1>4, <5>2
        <5>4. ep'.sensors[n] = x
          <6>1. ep.sensors \in [0 .. MAX_SENSORS - 1 -> Shorts]
            BY <1>0 DEF Layouts
          <6> QED
            BY <1>3, <2>4, <2>5, <5>1, <6>1
        <5> QED
          BY <2>2, <5>1, <5>3, <5>4
      <4> QED
        BY <4>1, <4>2
    <3>4. SensorsAreWhole'
      BY <1>4, <2>5 DEF SensorsAreWhole
    <3>5. /\ KeptBy(job.i)' = KeptBy(k + 1)
          /\ \A a : KeptBy(a - 1)' = KeptBy(a - 1)
      BY <1>0, <2>6, ListsKept
    <3>6. job'.n = Cardinality(KeptBy(job.i)')
      BY <3>2, <3>5
    <3>7. \A a \in KeptBy(job.i)' :
            ep'.sensors[Cardinality(KeptBy(a - 1)')]
              = [station |-> SensorList'[a].station, channel |-> SensorList'[a].channel]
      BY <1>2, <3>3, <3>5
    <3>8. ep'.numSensors = 0
      BY <1>4, <2>5
    <3> QED
      BY <3>4, <3>6, <3>7, <3>8 DEF SensorsLoad
  <2> QED
    BY <2>7, <2>8, <2>9 DEF ProvInv
<1>6. CASE ~(job.i < Len(SensorList))
  <2>1. ep' = [ep EXCEPT !.numSensors = job.n] /\ Goto("zones")
    BY <1>6 DEF LoadSensor, SensorList
  <2>2. /\ job' \in [at : Steps, i : Nat, j : Nat, n : Nat]
        /\ job'.at = "zones" /\ job'.i = 0 /\ job'.j = 0 /\ job'.n = 0
    BY <2>1, GotoStarts DEF Steps
  <2>3. k = Len(SensorList) /\ n \in 0 .. MAX_SENSORS - 1
    BY <1>0, <1>2, <1>3, <1>6
  <2>4. /\ ep' \in Layouts /\ ep'.numSensors = n /\ ep'.stations = ep.stations
        /\ ep'.sensors = ep.sensors
    BY <1>0, <1>3, <2>1, <2>3 DEF Layouts
  <2>5. ProvTypes'
    <3>1. LoopsInRange'
      <4>1. 0 * MAX_CHANNELS = 0
        BY ProvConstants
      <4> QED
        BY <2>2, <4>1, ProvConstants DEF LoopsInRange
    <3> QED
      BY <1>0, <2>2, <2>4, <3>1 DEF ProvTypes, ProvInv
  <2>6. StationsLoad'
    <3>1. StationsLoaded(Len(List))'
      BY <1>0, <2>4, ListsKept DEF StationsLoaded
    <3>2. \A s \in StationIDs : Given(s)' = {}
      <4>1. ASSUME NEW s \in StationIDs
            PROVE  Given(s)' = {}
        <5>1. s \in Nat /\ ep'.stations[s].startZone \in Nat
          BY <2>4, ProvConstants DEF StationIDs, Layouts, Stations
        <5>2. ~(s < 0) /\ (s > 0 \/ s = 0)
          BY <5>1
        <5> QED
          BY <2>2, <5>1, <5>2 DEF Given
      <4> QED
        BY <4>1
    <3>3. ZonesSoFar'
      BY <2>2, <3>2 DEF ZonesSoFar
    <3> QED
      BY <1>0, <1>1, <2>2, <3>1, <3>3 DEF StationsLoad
  <2>7. SensorsLoad'
    <3>1. SensorsAreWhole'
      <4> DEFINE f == ini
                 list == Sections(f.sensors, MAX_SENSORS)
                 kept == {a \in DOMAIN list : AcceptedSensor(list[a])}
      <4>1. f \in Files' /\ list = SensorList
        BY <1>0, <1>1 DEF SensorList
      <4>2. kept = KeptBy(k)
        <5>1. DOMAIN list = 1 .. k
          BY <1>0, <2>3, <4>1, ListsFit
        <5> QED
          BY <4>1, <5>1 DEF KeptBy
      <4>3. ep'.numSensors = Cardinality(kept)
        BY <1>4, <2>4, <4>2
      <4>4. ASSUME NEW a \in kept
            PROVE  ep'.sensors[Cardinality({b \in kept : b < a})]
                     = [station |-> list[a].station, channel |-> list[a].channel]
        <5>1. a \in KeptBy(k) /\ {b \in kept : b < a} = KeptBy(a - 1)
          BY <4>2, KeptInOrder
        <5> HIDE DEF kept, list
        <5> QED
          BY <1>4, <2>4, <4>1, <5>1
      <4>5. \E g \in Files' :
              LET glist == Sections(g.sensors, MAX_SENSORS)
                  gkept == {a \in DOMAIN glist : AcceptedSensor(glist[a])}
              IN  /\ ep'.numSensors = Cardinality(gkept)
                  /\ \A a \in gkept :
                       ep'.sensors[Cardinality({b \in gkept : b < a})]
                         = [station |-> glist[a].station, channel |-> glist[a].channel]
        BY <4>1, <4>3, <4>4
      <4> QED
        BY <4>5 DEF SensorsAreWhole
    <3> QED
      BY <2>2, <3>1 DEF SensorsLoad
  <2> QED
    BY <2>5, <2>6, <2>7 DEF ProvInv
<1> QED
  BY <1>5, <1>6

(* The numbers in a layout.                                                *)
LEMMA StationNumbers ==
  ASSUME ep \in Layouts
  PROVE  /\ \A s \in StationIDs : /\ s \in Nat /\ ep.stations[s].startZone \in Nat
                                  /\ ep.stations[s].channels \in Nat
                                  /\ ep.stations[s] \in Stations
         /\ ep.stations \in [StationIDs -> Stations]
         /\ ep.zones \in [ZoneNumbers -> Shorts] /\ ep.numZones \in Nat
<1>1. /\ ep.stations \in [StationIDs -> Stations] /\ ep.zones \in [ZoneNumbers -> Shorts]
      /\ ep.numZones \in 0 .. MAX_STATIONS * MAX_CHANNELS \cup {ErasedByte}
  BY DEF Layouts
<1>2. ep.numZones \in Nat
  BY <1>1, ProvConstants
<1>3. ASSUME NEW s \in StationIDs
      PROVE  /\ s \in Nat /\ ep.stations[s].startZone \in Nat
             /\ ep.stations[s].channels \in Nat /\ ep.stations[s] \in Stations
  <2>1. ep.stations[s] \in Stations
    BY <1>1
  <2>2. ep.stations[s].startZone \in Nat /\ ep.stations[s].channels \in Nat
    BY <2>1, ProvConstants DEF Stations
  <2> QED
    BY <2>1, <2>2, ProvConstants DEF StationIDs
<1> QED
  BY <1>1, <1>2, <1>3

(* The zones of a valid station end where those of the next begin, so that *)
(* there is room for the next zone.                                        *)
LEMMA RoomForZone ==
  ASSUME NEW i \in Nat, NEW j \in Nat, NEW n \in Nat, i < MAX_STATIONS,
         n <= i * MAX_CHANNELS + j
  PROVE  /\ j < MAX_CHANNELS => n \in ZoneNumbers
         /\ j <= MAX_CHANNELS => n <= (i + 1) * MAX_CHANNELS + 0
         /\ (i + 1) * MAX_CHANNELS <= MAX_STATIONS * MAX_CHANNELS
<1>1. MAX_STATIONS \in Nat /\ MAX_CHANNELS \in Nat /\ i + 1 <= MAX_STATIONS
  BY ProvConstants
<1>2. (i + 1) * MAX_CHANNELS = i * MAX_CHANNELS + MAX_CHANNELS /\ i * MAX_CHANNELS \in Nat
  BY <1>1
<1>3. (i + 1) * MAX_CHANNELS <= MAX_STATIONS * MAX_CHANNELS
  <2>1. PICK d \in Nat : MAX_STATIONS = (i + 1) + d
    <3>1. MAX_STATIONS - (i + 1) \in Nat
      BY <1>1
    <3>2. MAX_STATIONS = (i + 1) + (MAX_STATIONS - (i + 1))
      BY <1>1
    <3> QED
      BY <3>1, <3>2
  <2>2. MAX_STATIONS * MAX_CHANNELS = (i + 1) * MAX_CHANNELS + d * MAX_CHANNELS
        /\ d * MAX_CHANNELS \in Nat
    <3>1. ((i + 1) + d) * MAX_CHANNELS = (i + 1) * MAX_CHANNELS + d * MAX_CHANNELS
      BY <1>1
    <3>2. d * MAX_CHANNELS \in Nat
      BY <1>1
    <3> QED
      BY <2>1, <3>1, <3>2
  <2> QED
    BY <1>1, <1>2, <2>2
<1>4. MAX_STATIONS * MAX_CHANNELS \in Nat
  BY ProvConstants
<1> QED
  BY <1>1, <1>2, <1>3, <1>4 DEF ZoneNumbers

(* The loops have come to the end of a station: its zones are all given.   *)
LEMMA StationDone ==
  ASSUME ProvTypes, ZonesSoFar, job.at = "zones", job.i < MAX_STATIONS,
         UNCHANGED ep, job'.i = job.i + 1, job'.j = 0, job'.n = job.n,
         ~(ep.stations[job.i].valid /\ job.j < ep.stations[job.i].channels)
  PROVE  ZonesSoFar'
<1>1. /\ job.i \in Nat /\ job.j \in Nat /\ job.n \in Nat /\ job.i \in StationIDs
      /\ \A s \in StationIDs : /\ s \in Nat /\ ep.stations[s].startZone \in Nat
                               /\ ep.stations[s].channels \in Nat
  <2>1. job.i \in Nat /\ job.j \in Nat /\ job.n \in Nat
    BY DEF ProvTypes
  <2>2. job.i \in StationIDs
    BY <2>1, ProvConstants DEF StationIDs
  <2> QED
    BY <2>1, <2>2, StationNumbers DEF ProvTypes
<1>2. job.j > 0 => /\ ep.stations[job.i].valid /\ job.j <= ep.stations[job.i].channels
  BY DEF ZonesSoFar
<1>3. ASSUME NEW s \in StationIDs
      PROVE  Given(s)' = Given(s)
  <2>1. CASE ~ep.stations[s].valid
    BY <2>1 DEF Given
  <2>2. CASE ep.stations[s].valid /\ s < job.i
    <3>1. s < job'.i /\ ~(s > job.i) /\ ~(s > job'.i)
      BY <1>1, <2>2
    <3> QED
      BY <2>2, <3>1 DEF Given
  <2>3. CASE ep.stations[s].valid /\ s = job.i
    <3>1. s < job'.i /\ ~(s > job.i) /\ ~(s > job'.i) /\ ~(s < job.i)
      BY <1>1, <2>3
    <3>2. job.j = ep.stations[s].channels
      BY <1>1, <1>2, <2>3
    <3> QED
      BY <2>3, <3>1, <3>2 DEF Given
  <2>4. CASE ep.stations[s].valid /\ s > job.i
    <3>1. ~(s < job'.i)
      BY <1>1, <2>4
    <3>2. ep.stations[s].startZone .. ep.stations[s].startZone + 0 - 1 = {}
      BY <1>1
    <3> QED
      BY <2>4, <3>1, <3>2 DEF Given
  <2> QED
    BY <1>1, <2>1, <2>2, <2>3, <2>4
<1>4. job'.j = 0 /\ job'.n = job.n /\ ~(job'.j > 0)
  OBVIOUS
<1> QED
  BY <1>3, <1>4 DEF ZonesSoFar

(* The next zone is given to the station.                                  *)
LEMMA ZoneGiven ==
  ASSUME ProvTypes, ZonesSoFar, job.at = "zones", job.i < MAX_STATIONS,
         ep.stations[job.i].valid, job.j < ep.stations[job.i].channels,
         job.n \in ZoneNumbers,
         job'.i = job.i, job'.j = job.j + 1, job'.n = job.n + 1,
         ep'.stations = IF job.j = 0
                        THEN [ep.stations EXCEPT ![job.i] =
                                [ep.stations[job.i] EXCEPT !.startZone = job.n]]
                        ELSE ep.stations,
         ep'.numZones = ep.numZones,
         ep'.zones = IF job.n < ep.numZones
                     THEN [ep.zones EXCEPT ![job.n] = [station |-> job.i, channel |-> job.j]]
                     ELSE ep.zones
  PROVE  ZonesSoFar'
<1>0. PICK i \in Nat, j \in Nat, n \in Nat : i = job.i /\ j = job.j /\ n = job.n
  BY DEF ProvTypes
<1>1. /\ i \in StationIDs /\ ep.stations \in [StationIDs -> Stations]
      /\ \A s \in StationIDs : /\ s \in Nat /\ ep.stations[s].startZone \in Nat
                               /\ ep.stations[s].channels \in Nat
      /\ ep.zones \in [ZoneNumbers -> Shorts] /\ ep.numZones \in Nat
  <2>1. i \in StationIDs
    BY <1>0, ProvConstants DEF StationIDs
  <2> QED
    BY <2>1, StationNumbers DEF ProvTypes
<1>2. /\ ep'.stations[i].startZone = n - j /\ ep'.stations[i].valid
      /\ ep'.stations[i].channels = ep.stations[i].channels
      /\ j > 0 => ep.stations[i].startZone = n - j
      /\ \A s \in StationIDs : s # i => ep'.stations[s] = ep.stations[s]
  <2>1. j > 0 => ep.stations[i].startZone = n - j
    BY <1>0 DEF ZonesSoFar
  <2>2. CASE j = 0
    <3>1. ep'.stations = [ep.stations EXCEPT ![i] = [ep.stations[i] EXCEPT !.startZone = n]]
      BY <1>0, <2>2
    <3>2. ep'.stations[i] = [ep.stations[i] EXCEPT !.startZone = n]
          /\ ep.stations[i] \in Stations
      BY <1>1, <3>1
    <3>3. /\ ep'.stations[i].startZone = n
          /\ ep'.stations[i].valid = ep.stations[i].valid
          /\ ep'.stations[i].channels = ep.stations[i].channels
      BY <3>2 DEF Stations
    <3> QED
      BY <1>0, <1>1, <2>1, <2>2, <3>1, <3>3
  <2>3. CASE j # 0
    <3>1. ep'.stations = ep.stations
      BY <1>0, <2>3
    <3> QED
      BY <1>0, <2>1, <2>3, <3>1
  <2> QED
    BY <2>2, <2>3
<1>3. ASSUME NEW s \in StationIDs, s # i
      PROVE  Given(s)' = Given(s)
  <2>1. ep'.stations[s] = ep.stations[s] /\ s \in Nat /\ (s < i \/ s > i)
    BY <1>1, <1>2, <1>3
  <2> QED
    BY <1>0, <2>1 DEF Given
<1>4. Given(i) = (IF j = 0 THEN {} ELSE (n - j) .. n - 1) /\ Given(i)' = (n - j) .. n
  <2>1. Given(i)' = (n - j) .. (n - j) + (j + 1) - 1
    BY <1>0, <1>2 DEF Given
  <2>2. (n - j) + (j + 1) - 1 = n
    OBVIOUS
  <2>3. Given(i) = ep.stations[i].startZone .. ep.stations[i].startZone + j - 1
    BY <1>0 DEF Given
  <2>4. j = 0 => Given(i) = {}
    BY <1>1, <2>3
  <2>5. j # 0 => Given(i) = (n - j) .. n - 1
    <3>1. (n - j) + j - 1 = n - 1
      OBVIOUS
    <3> QED
      BY <1>2, <2>3, <3>1
  <2> QED
    BY <2>1, <2>2, <2>4, <2>5
<1>5. /\ \A z \in Given(i)' : z = n \/ z \in Given(i)
      /\ n \in Given(i)' /\ \A z \in Given(i) : z \in Given(i)'
  <2>1. CASE j = 0
    BY <1>4, <2>1
  <2>2. CASE j # 0
    BY <1>4, <2>2
  <2> QED
    BY <2>1, <2>2
<1>6. \A s \in StationIDs : \A z \in Given(s) : z \in 0 .. n - 1
  BY <1>0 DEF ZonesSoFar
<1>7. \A s, t \in StationIDs : s # t => \A z \in Given(s)' : z \notin Given(t)'
  <2>1. \A s, t \in StationIDs : s # t => \A z \in Given(s) : z \notin Given(t)
    BY DEF ZonesSoFar
  <2>2. \A s \in StationIDs : n \notin Given(s)
    BY <1>6
  <2> QED
    BY <1>3, <1>5, <2>1, <2>2
<1>8. \A s \in StationIDs : \A z \in Given(s)' : z \in 0 .. n
  <2>1. \A z : z \in 0 .. n - 1 => z \in 0 .. n
    OBVIOUS
  <2>2. n \in 0 .. n
    OBVIOUS
  <2> QED
    BY <1>3, <1>5, <1>6, <2>1, <2>2
<1>9. \A z \in 0 .. n : \E s \in StationIDs : z \in Given(s)'
  <2>1. \A z \in 0 .. n - 1 : \E s \in StationIDs : z \in Given(s)
    BY <1>0 DEF ZonesSoFar
  <2>2. \A z \in 0 .. n : z = n \/ z \in 0 .. n - 1
    OBVIOUS
  <2> QED
    BY <1>1, <1>3, <1>5, <2>1, <2>2
<1>10. ASSUME NEW s \in StationIDs, NEW z \in Given(s)', z < ep'.numZones
       PROVE  ep'.zones[z] = [station |-> s, channel |-> z - ep'.stations[s].startZone]
  <2>1. z \in 0 .. n /\ z < ep.numZones
    BY <1>8, <1>10
  <2>2. CASE z = n
    <3>1. s = i
      BY <1>3, <1>6, <1>10, <2>2
    <3>2. ep'.zones[z] = [station |-> i, channel |-> j]
      BY <1>0, <1>1, <2>1, <2>2
    <3>3. z - ep'.stations[s].startZone = j
      BY <1>2, <2>2, <3>1
    <3> QED
      BY <3>1, <3>2, <3>3
  <2>3. CASE z # n
    <3>1. z \in Given(s)
      BY <1>3, <1>5, <1>10, <2>3
    <3>2. ep.zones[z] = [station |-> s, channel |-> z - ep.stations[s].startZone]
      BY <2>1, <3>1 DEF ZonesSoFar
    <3>3. ep'.zones[z] = ep.zones[z]
      BY <1>0, <1>1, <2>3
    <3>4. ep'.stations[s].startZone = ep.stations[s].startZone
      <4>1. CASE s # i
        BY <1>2, <4>1
      <4>2. CASE s = i
        <5>1. j # 0
          BY <1>4, <3>1, <4>2
        <5> QED
          BY <1>2, <4>2, <5>1
      <4> QED
        BY <4>1, <4>2
    <3> QED
      BY <3>2, <3>3, <3>4
  <2> QED
    BY <2>2, <2>3
<1>11. /\ ep'.stations[i].valid /\ j + 1 <= ep'.stations[i].channels
       /\ ep'.stations[i].startZone = (n + 1) - (j + 1)
  <2>1. j + 1 <= ep.stations[i].channels
    BY <1>0, <1>1
  <2>2. n - j = (n + 1) - (j + 1)
    OBVIOUS
  <2> QED
    BY <1>2, <2>1, <2>2
<1>12. job'.i = i /\ job'.j = j + 1 /\ job'.n = n + 1 /\ (n + 1) - 1 = n
  BY <1>0
<1> QED
  <2>1. \A s \in StationIDs : \A z \in Given(s)' : z \in 0 .. job'.n - 1
    BY <1>8, <1>12
  <2>2. \A z \in 0 .. job'.n - 1 : \E s \in StationIDs : z \in Given(s)'
    BY <1>9, <1>12
  <2>3. job'.j > 0 => /\ ep'.stations[job'.i].valid /\ job'.j <= ep'.stations[job'.i].channels
                      /\ ep'.stations[job'.i].startZone = job'.n - job'.j
    BY <1>11, <1>12
  <2> QED
    BY <1>7, <1>10, <2>1, <2>2, <2>3 DEF ZonesSoFar

(* All zones have been given: the numbers go into the EEPROM.              *)
LEMMA ZonesCounted ==
  ASSUME ProvTypes, ZonesSoFar, job.i = MAX_STATIONS,
         ep'.stations = ep.stations, ep'.zones = ep.zones, ep'.numZones = job.n,
         fits' = (job.n <= ep.numZones)
  PROVE  ZonesDone'
<1>1. /\ \A s \in StationIDs : s \in Nat /\ s < job.i
      /\ job.i \in Nat /\ job.n \in Nat /\ ep.numZones \in Nat
  <2>1. \A s \in StationIDs : s \in Nat /\ s < MAX_STATIONS
    BY ProvConstants DEF StationIDs
  <2> QED
    BY <2>1, StationNumbers DEF ProvTypes
<1>2. ASSUME NEW s \in StationIDs
      PROVE  ZonesOf(s)' = Given(s)
  <2>1. ~(s > job.i) /\ s < job.i
    BY <1>1
  <2> QED
    BY <2>1 DEF ZonesOf, Given
<1>3. fits' => ZonesAreListed'
  <2> SUFFICES ASSUME fits', NEW s \in StationIDs, NEW z \in ZonesOf(s)'
               PROVE  ep'.zones[z] = [station |-> s, channel |-> z - ep'.stations[s].startZone]
    BY DEF ZonesAreListed
  <2>1. z \in Given(s)
    BY <1>2
  <2>2. z \in 0 .. job.n - 1
    BY <2>1 DEF ZonesSoFar
  <2>3. z < ep.numZones
    <3>1. job.n <= ep.numZones
      BY Zenon
    <3> QED
      BY <1>1, <2>2, <3>1
  <2> QED
    BY <2>1, <2>3 DEF ZonesSoFar
<1>4. /\ \A s, t \in StationIDs : s # t => \A z \in Given(s) : z \notin Given(t)
      /\ \A s \in StationIDs : \A z \in Given(s) : z \in 0 .. job.n - 1
      /\ \A z \in 0 .. job.n - 1 : \E s \in StationIDs : z \in Given(s)
  BY DEF ZonesSoFar
<1> QED
  BY <1>2, <1>3, <1>4 DEF ZonesDone

(* A zone is generated, or the loops go on.                                *)
LEMMA GenerateZoneInv ==
  ASSUME ProvInv, UNCHANGED hasCard, GenerateZone
  PROVE  ProvInv'
<1>0. /\ job.at = "zones" /\ ep \in Layouts /\ UNCHANGED <<ini, loaded>>
      /\ job \in [at : Steps, i : Nat, j : Nat, n : Nat]
      /\ job.i \in Nat /\ job.j \in Nat /\ job.n \in Nat
      /\ job.i <= MAX_STATIONS /\ job.j <= MAX_CHANNELS
      /\ job.i = MAX_STATIONS => job.j = 0
      /\ job.n <= job.i * MAX_CHANNELS + job.j
      /\ loaded = None /\ ini \in Files /\ StationsLoaded(Len(List)) /\ ZonesSoFar
      /\ ini.stations \in Seq(StationSections) /\ ini.sensors \in Seq(SensorSections)
      /\ ProvTypes
  BY DEF ProvInv, ProvTypes, LoopsInRange, StationsLoad, GenerateZone, Loading
<1>1. /\ Files' = Files /\ MAX_STATIONS \in Nat /\ MAX_CHANNELS \in Nat /\ List' = List
      /\ \A s \in StationIDs : ep.stations[s].channels \in Nat
                               /\ ep.stations[s].channels <= MAX_CHANNELS
  BY <1>0, ProvConstants, ListsKept, StationNumbers DEF Files, StationsLoaded
<1>2. CASE job.i = MAX_STATIONS
  <2>1. /\ ep' = [ep EXCEPT !.numZones = job.n] /\ fits' = (job.n <= ep.numZones)
        /\ Goto("end")
    BY <1>2 DEF GenerateZone
  <2>2. /\ job' \in [at : Steps, i : Nat, j : Nat, n : Nat]
        /\ job'.at = "end" /\ job'.i = 0 /\ job'.j = 0 /\ job'.n = 0
    BY <2>1, GotoStarts DEF Steps
  <2>3. job.n \in 0 .. MAX_STATIONS * MAX_CHANNELS
    <3>1. MAX_STATIONS * MAX_CHANNELS \in Nat /\ job.n <= MAX_STATIONS * MAX_CHANNELS + 0
      BY <1>0, <1>2, ProvConstants
    <3> QED
      BY <1>0, <3>1
  <2>4. /\ ep' \in Layouts /\ ep'.numZones = job.n /\ ep'.stations = ep.stations
        /\ ep'.sensors = ep.sensors /\ ep'.numSensors = ep.numSensors /\ ep'.zones = ep.zones
    BY <1>0, <2>1, <2>3 DEF Layouts
  <2>5. ProvTypes'
    <3>1. LoopsInRange'
      BY <2>2 DEF LoopsInRange
    <3> QED
      BY <1>0, <2>2, <2>4, <3>1 DEF ProvTypes
  <2>6. StationsLoad'
    <3>1. StationsLoaded(Len(List))'
      BY <1>0, <2>4, ListsKept DEF StationsLoaded
    <3>2. ZonesDone'
      BY <1>0, <1>2, <2>1, <2>4, ZonesCounted
    <3> QED
      BY <1>0, <1>1, <2>2, <3>1, <3>2 DEF StationsLoad
  <2>7. SensorsLoad'
    BY <2>2, <2>4, SensorsKept DEF ProvInv
  <2> QED
    BY <2>5, <2>6, <2>7 DEF ProvInv
<1> DEFINE st == ep.stations[job.i]
<1>3. CASE job.i # MAX_STATIONS /\ ~(st.valid /\ job.j < st.channels)
  <2>1. UNCHANGED <<ep, fits>> /\ job' = [job EXCEPT !.i = @ + 1, !.j = 0]
    BY <1>3 DEF GenerateZone
  <2>2. /\ job' \in [at : Steps, i : Nat, j : Nat, n : Nat]
        /\ job'.at = "zones" /\ job'.i = job.i + 1 /\ job'.j = 0 /\ job'.n = job.n
    <3>1. job.i + 1 \in Nat
      BY <1>0
    <3>2. job' = [at |-> job.at, i |-> job.i + 1, j |-> 0, n |-> job.n]
      BY <1>0, <2>1
    <3> QED
      BY <1>0, <3>1, <3>2
  <2>3. job.i < MAX_STATIONS
    BY <1>0, <1>1, <1>3
  <2>4. ProvTypes'
    <3>1. job'.n <= job'.i * MAX_CHANNELS + job'.j
      <4>1. job.n <= (job.i + 1) * MAX_CHANNELS + 0
        BY <1>0, <2>3, RoomForZone
      <4> QED
        BY <2>2, <4>1
    <3>2. LoopsInRange'
      BY <1>0, <1>1, <2>2, <2>3, <3>1 DEF LoopsInRange
    <3> QED
      BY <1>0, <2>1, <2>2, <3>2 DEF ProvTypes
  <2>5. StationsLoad'
    <3>1. StationsLoaded(Len(List))'
      BY <1>0, <2>1, ListsKept DEF StationsLoaded
    <3>2. ZonesSoFar'
      BY <1>0, <1>3, <2>1, <2>2, <2>3, StationDone
    <3> QED
      BY <1>0, <1>1, <2>2, <3>1, <3>2 DEF StationsLoad
  <2>6. SensorsLoad'
    BY <2>1, <2>2, SensorsKept DEF ProvInv
  <2> QED
    BY <2>4, <2>5, <2>6 DEF ProvInv
<1>4. CASE job.i # MAX_STATIONS /\ st.valid /\ job.j < st.channels
  <2> DEFINE x == [station |-> job.i, channel |-> job.j]
  <2>1. /\ ep' = SaveZone(IF job.j = 0 THEN StartAt(ep, job.i, job.n) ELSE ep, job.n, x)
        /\ job' = [job EXCEPT !.j = @ + 1, !.n = @ + 1] /\ fits' = fits
    BY <1>4 DEF GenerateZone
  <2>2. /\ job' \in [at : Steps, i : Nat, j : Nat, n : Nat]
        /\ job'.at = "zones" /\ job'.i = job.i /\ job'.j = job.j + 1 /\ job'.n = job.n + 1
    <3>1. job.j + 1 \in Nat /\ job.n + 1 \in Nat
      BY <1>0
    <3>2. job' = [at |-> job.at, i |-> job.i, j |-> job.j + 1, n |-> job.n + 1]
      BY <1>0, <2>1
    <3> QED
      BY <1>0, <3>1, <3>2
  <2>3. job.i < MAX_STATIONS /\ job.i \in StationIDs
    BY <1>0, <1>1, <1>4 DEF StationIDs
  <2>4. job.j < MAX_CHANNELS /\ job.n \in ZoneNumbers
    <3>1. job.j < MAX_CHANNELS
      BY <1>0, <1>1, <1>4, <2>3
    <3> QED
      BY <1>0, <2>3, <3>1, RoomForZone
  <2>5. x \in Shorts
    BY <1>0 DEF Shorts
  <2>6. /\ ep' \in Layouts
        /\ ep'.stations = IF job.j = 0
                          THEN [ep.stations EXCEPT ![job.i] =
                                  [ep.stations[job.i] EXCEPT !.startZone = job.n]]
                          ELSE ep.stations
        /\ ep'.zones = IF job.n < ep.numZones THEN [ep.zones EXCEPT ![job.n] = x] ELSE ep.zones
        /\ ep'.numZones = ep.numZones
        /\ ep'.sensors = ep.sensors /\ ep'.numSensors = ep.numSensors
    <3>1. PICK e \in Layouts, s \in StationIDs, a \in ZoneNumbers, y \in Shorts,
               first \in BOOLEAN :
            e = ep /\ s = job.i /\ a = job.n /\ y = x /\ (first <=> job.j = 0)
      <4>1. (job.j = 0) \in BOOLEAN
        OBVIOUS
      <4> QED
        BY <1>0, <2>3, <2>4, <2>5, <4>1
    <3> HIDE DEF x
    <3>2. PICK f : f = ep'
      OBVIOUS
    <3>3. f = SaveZone(IF first THEN StartAt(e, s, a) ELSE e, a, y)
      <4>1. CASE first
        BY <2>1, <3>1, <3>2, <4>1
      <4>2. CASE ~first
        BY <2>1, <3>1, <3>2, <4>2
      <4> QED
        BY <4>1, <4>2
    <3>4. /\ f \in Layouts
          /\ f.stations = IF first
                          THEN [e.stations EXCEPT ![s] = [e.stations[s] EXCEPT !.startZone = a]]
                          ELSE e.stations
          /\ f.zones = IF a < e.numZones THEN [e.zones EXCEPT ![a] = y] ELSE e.zones
          /\ f.signature = e.signature /\ f.numZones = e.numZones
          /\ f.sensors = e.sensors /\ f.numSensors = e.numSensors
      BY <3>3, ZoneWritten
    <3> QED
      BY <3>1, <3>2, <3>4
  <2>7. ProvTypes'
    <3>1. job'.n <= job'.i * MAX_CHANNELS + job'.j
      <4>1. job.i * MAX_CHANNELS \in Nat
        BY <1>0, <1>1
      <4> QED
        BY <1>0, <2>2, <4>1
    <3>2. LoopsInRange'
      BY <1>0, <1>1, <2>2, <2>3, <2>4, <3>1 DEF LoopsInRange
    <3> QED
      BY <1>0, <2>2, <2>6, <3>2 DEF ProvTypes
  <2>8. StationsLoad'
    <3>1. StationsLoaded(Len(List))'
      <4>1. ASSUME NEW s \in StationIDs
            PROVE  /\ ep'.stations[s].valid = ep.stations[s].valid
                   /\ ep'.stations[s].channels = ep.stations[s].channels
        <5>1. ep.stations \in [StationIDs -> Stations]
          BY <1>0, StationNumbers
        <5>2. CASE s = job.i /\ job.j = 0
          <6>1. ep'.stations[s] = [ep.stations[s] EXCEPT !.startZone = job.n]
            BY <2>6, <5>1, <5>2
          <6>2. ep.stations[s] \in Stations
            BY <5>1
          <6> QED
            BY <6>1, <6>2 DEF Stations
        <5>3. CASE ~(s = job.i /\ job.j = 0)
          <6>1. ep'.stations[s] = ep.stations[s]
            BY <2>6, <5>1, <5>3
          <6> QED
            BY <6>1
        <5> QED
          BY <5>2, <5>3
      <4> QED
        BY <1>0, <4>1, ListsKept DEF StationsLoaded
    <3>2. ZonesSoFar'
      BY <1>0, <1>4, <2>2, <2>3, <2>4, <2>6, ZoneGiven
    <3> QED
      BY <1>0, <1>1, <2>1, <2>2, <3>1, <3>2 DEF StationsLoad
  <2>9. SensorsLoad'
    BY <2>2, <2>6, SensorsKept DEF ProvInv
  <2> QED
    BY <2>7, <2>8, <2>9 DEF ProvInv
<1> QED
  BY <1>2, <1>3, <1>4

(* At the start nothing has been loaded.                                   *)
LEMMA ProvInitInv == ProvisioningInit => ProvInv
<1> SUFFICES ASSUME ProvisioningInit
             PROVE  ProvInv
  OBVIOUS
<1>1. /\ ep.sensors = [n \in 0 .. MAX_SENSORS - 1 |-> Erased] /\ ep.numSensors = ErasedByte
      /\ job = [at |-> "boot", i |-> 0, j |-> 0, n |-> 0]
      /\ ini = NoFile /\ loaded = None /\ hasCard \in BOOLEAN
  BY DEF ProvisioningInit
<1>2. ep \in Layouts
  <2>1. Erased \in Shorts
    BY ProvConstants DEF Erased, Shorts
  <2>2. [valid |-> TRUE, channels |-> ErasedByte, startZone |-> ErasedByte] \in Stations
    BY ProvConstants DEF Stations
  <2> QED
    BY <2>1, <2>2 DEF ProvisioningInit, Layouts
<1>3. ProvTypes
  <2>1. job.at \in Steps /\ ini.stations = << >> /\ ini.sensors = << >>
    BY <1>1 DEF Steps, NoFile
  <2>2. LoopsInRange
    BY <1>1 DEF LoopsInRange
  <2> QED
    BY <1>1, <1>2, <2>1, <2>2 DEF ProvTypes
<1>4. StationsLoad
  BY <1>1 DEF StationsLoad, Loading
<1>5. SensorsLoad
  BY <1>1 DEF SensorsLoad, SensorsAreWhole
<1> QED
  BY <1>3, <1>4, <1>5 DEF ProvInv

(* Every step keeps the invariant.                                         *)
LEMMA ProvNextInv ==
  ASSUME ProvInv, [ProvisioningNext]_provisioningVars
  PROVE  ProvInv'
<1>1. ASSUME ProvisioningNext
      PROVE  ProvInv'
  <2>0. UNCHANGED hasCard
    BY <1>1 DEF ProvisioningNext
  <2>1. CASE StartUp
    <3>1. CASE ep.signature
      <4>1. Goto("up") /\ UNCHANGED <<ep, ini, fits, loaded>>
        BY <2>1, <3>1 DEF StartUp
      <4> QED
        BY <2>0, <4>1, NothingWrittenInv
    <3>2. CASE ~ep.signature
      BY <2>0, <2>1, <3>2, BeginLoadInv DEF StartUp
    <3> QED
      BY <3>1, <3>2
  <2>2. CASE Factory
    BY <2>0, <2>2, BeginLoadInv DEF Factory
  <2>3. CASE PowerCut
    <3>1. Goto("boot") /\ UNCHANGED <<ep, ini, fits, loaded>>
      BY <2>3 DEF PowerCut
    <3> QED
      BY <2>0, <3>1, NothingWrittenInv
  <2>4. CASE ClearStation
    BY <2>0, <2>4, ClearStationInv
  <2>5. CASE LoadStation
    BY <2>0, <2>5, LoadStationInv
  <2>6. CASE ClearSensorCount
    BY <2>0, <2>6, ClearSensorCountInv
  <2>7. CASE LoadSensor
    BY <2>0, <2>7, LoadSensorInv
  <2>8. CASE GenerateZone
    BY <2>0, <2>8, GenerateZoneInv
  <2>9. CASE EndLoad
    <3>1. Goto("boot") /\ UNCHANGED <<ep, ini, fits>> /\ job.at = "end" /\ loaded' = ini
      BY <2>9 DEF EndLoad
    <3> QED
      BY <2>0, <3>1, NothingWrittenInv
  <2> QED
    BY <1>1, <2>1, <2>2, <2>3, <2>4, <2>5, <2>6, <2>7, <2>8, <2>9 DEF ProvisioningNext
<1>2. CASE UNCHANGED provisioningVars
  <2>1. UNCHANGED <<hasCard, ep, job, ini, fits, loaded>>
    BY <1>2 DEF provisioningVars
  <2>2. ProvTypes'
    BY <2>1 DEF ProvInv, ProvTypes, LoopsInRange, List, SensorList
  <2>3. StationsLoad'
    BY <2>1 DEF ProvInv, StationsLoad, Loading, Files, StationsLoaded, List, NamedBy,
                ZonesSoFar, Given, ZonesDone, ZonesOf, ZonesAreListed
  <2>4. SensorsLoad'
    BY <2>1 DEF ProvInv, SensorsLoad, SensorsAreWhole, Files, KeptBy, SensorList
  <2> QED
    BY <2>2, <2>3, <2>4 DEF ProvInv
<1> QED
  BY <1>1, <1>2

(* The invariant of the loading: at every step of it the loops are within  *)
(* their lists, what has been loaded is what the sections so far say, and  *)
(* the zones given so far have the numbers so far, each once.              *)
THEOREM ProvInvHolds == ProvisioningSpec => []ProvInv
<1>1. ProvisioningInit => ProvInv
  BY ProvInitInv
<1>2. ProvInv /\ [ProvisioningNext]_provisioningVars => ProvInv'
  BY ProvNextInv
<1> QED
  BY <1>1, <1>2, PTL DEF ProvisioningSpec

(* The EEPROM keeps its layout, and no load runs beyond it.                *)
THEOREM ProvisioningTypeCorrect == ProvisioningSpec => []ProvisioningTypeOK
<1>1. ProvInv => ProvisioningTypeOK
  <2> SUFFICES ASSUME ProvTypes
               PROVE  ProvisioningTypeOK
    BY DEF ProvInv
  <2>1. /\ ep.signature \in BOOLEAN /\ ep.stations \in [StationIDs -> Stations]
        /\ ep.numZones \in 0 .. MAX_STATIONS * MAX_CHANNELS \cup {ErasedByte}
        /\ ep.numSensors \in 0 .. MAX_SENSORS - 1 \cup {ErasedByte}
    BY DEF ProvTypes, Layouts
  <2>2. /\ job.i \in Nat /\ job.j \in Nat /\ job.n \in Nat
        /\ MAX_STATIONS \in Nat /\ MAX_SENSORS \in Nat /\ ErasedByte \in Nat
        /\ MAX_STATIONS * MAX_CHANNELS \in Nat /\ MAX_STATIONS * MAX_CHANNELS < ErasedByte
        /\ MAX_SENSORS < ErasedByte /\ MAX_CHANNELS \in Nat
        /\ Len(List) \in Nat /\ Len(List) <= MAX_STATIONS
        /\ Len(SensorList) \in Nat /\ Len(SensorList) < MAX_SENSORS
    BY ProvConstants, ListsFit DEF ProvTypes
  <2>3. job.i <= MAX_STATIONS + MAX_SENSORS /\ job.n < ErasedByte
    <3>1. CASE job.at = "clear"
      BY <2>2, <3>1 DEF ProvTypes, LoopsInRange
    <3>2. CASE job.at = "stations"
      BY <2>2, <3>2 DEF ProvTypes, LoopsInRange
    <3>3. CASE job.at = "sensors"
      BY <2>2, <3>3 DEF ProvTypes, LoopsInRange
    <3>4. CASE job.at = "zones"
      <4>1. /\ job.i <= MAX_STATIONS /\ job.j <= MAX_CHANNELS
            /\ job.i = MAX_STATIONS => job.j = 0
            /\ job.n <= job.i * MAX_CHANNELS + job.j
        BY <3>4 DEF ProvTypes, LoopsInRange
      <4>2. job.n <= MAX_STATIONS * MAX_CHANNELS
        <5>1. CASE job.i < MAX_STATIONS
          <6>1. job.n <= (job.i + 1) * MAX_CHANNELS + 0
                /\ (job.i + 1) * MAX_CHANNELS <= MAX_STATIONS * MAX_CHANNELS
            BY <2>2, <4>1, <5>1, RoomForZone
          <6>2. (job.i + 1) * MAX_CHANNELS \in Nat
            BY <2>2
          <6> QED
            BY <2>2, <6>1, <6>2
        <5>2. CASE job.i = MAX_STATIONS
          BY <2>2, <4>1, <5>2
        <5> QED
          BY <2>2, <4>1, <5>1, <5>2
      <4> QED
        BY <2>2, <4>1, <4>2
    <3>5. CASE job.at \notin {"clear", "stations", "sensors", "zones"}
      BY <2>2, <3>5 DEF ProvTypes, LoopsInRange
    <3> QED
      BY <3>1, <3>2, <3>3, <3>4, <3>5
  <2>4. job.i \in 0 .. MAX_STATIONS + MAX_SENSORS /\ job.n \in 0 .. ErasedByte - 1
    BY <2>2, <2>3
  <2> QED
    BY <2>1, <2>4 DEF ProvisioningTypeOK, Stations
<1> QED
  BY <1>1, ProvInvHolds, PTL

(* What a station finds in its EEPROM is of one piece, wherever loads have *)
(* been cut: the stations and zones are those of a completed load, their   *)
(* zones numbered without gap or overlap, and the sensors are those of one *)
(* file.                                                                   *)
THEOREM LoadsAreWhole == ProvisioningSpec => []EepromIsWhole
<1>1. ProvInv => SensorsAreWhole
  BY DEF ProvInv, SensorsLoad
<1>2. ProvInv => ZonesMatchStations
  <2> SUFFICES ASSUME ProvInv, loaded # None
               PROVE  ZonesMatchStations
    BY DEF ZonesMatchStations
  <2>1. loaded = ini /\ StationsLoaded(Len(List)) /\ ZonesDone
    BY DEF ProvInv, StationsLoad
  <2> DEFINE list == Sections(loaded.stations, MAX_STATIONS)
             Naming(s) == {k \in DOMAIN list : Accepted(list[k]) /\ list[k].id = s}
  <2>2. list = List /\ \A s : Naming(s) = NamedBy(s, Len(List))
    <3>1. DOMAIN List = 1 .. Len(List)
      BY ListsFit DEF ProvInv, ProvTypes
    <3> QED
      BY <2>1, <3>1 DEF List, NamedBy
  <2>3. ASSUME NEW s \in StationIDs
        PROVE  /\ ep.stations[s].valid <=> Naming(s) # {}
               /\ \A k \in Naming(s) :
                    (\A l \in Naming(s) : l <= k) =>
                      ep.stations[s].channels = Truncated(list[k].channels)
               /\ \A t \in StationIDs \ {s} : ZonesOf(s) \cap ZonesOf(t) = {}
    <3>1. /\ ep.stations[s].valid <=> NamedBy(s, Len(List)) # {}
          /\ \A k \in NamedBy(s, Len(List)) :
               (\A l \in NamedBy(s, Len(List)) : l <= k) =>
                 ep.stations[s].channels = Truncated(List[k].channels)
      BY <2>1 DEF StationsLoaded
    <3>2. \A t \in StationIDs \ {s} : ZonesOf(s) \cap ZonesOf(t) = {}
      BY <2>1 DEF ZonesDone
    <3> HIDE DEF list, Naming
    <3> QED
      BY <2>2, <3>1, <3>2
  <2>4. UNION {ZonesOf(s) : s \in StationIDs} = 0 .. ep.numZones - 1
    BY <2>1 DEF ZonesDone
  <2>5. fits => ZonesAreListed
    BY <2>1 DEF ZonesDone
  <2> QED
    BY <2>3, <2>4, <2>5 DEF ZonesMatchStations
<1> QED
  BY <1>1, <1>2, ProvInvHolds, PTL DEF EepromIsWhole

-----------------------------------------------------------------------------
(***************************************************************************)
(* MainLoop: for every period and limit of the watchdog and every division *)
(* of a second, a pass that hangs is cut in time, a slow one is spared,    *)
(* and no block of periodic work starves.                                  *)
(***************************************************************************)

(* The watchdog's counter and phase tell the age of the pass, up to the    *)
(* part of a period that had gone by when the counter was reset.           *)
NotTooOld   == passAge <= wdtCounter * WDT_TICK + phase
NotTooYoung == wdtCounter > 0 => passAge > (wdtCounter - 1) * WDT_TICK + phase

(* The time slot of a pass begins when the pass does.                      *)
SlotOfPass ==
  IF running THEN sinceTick <= passAge ELSE passAge = 0

(* Ticks since the turn of block b, which comes every TENTHS ticks.        *)
TicksSince(b) ==
  IF b <= tick_counter THEN tick_counter - b ELSE tick_counter - b + TENTHS

Longest == IF passAge > slowest THEN passAge ELSE slowest

(* A block has waited for a pass per tick, and for the present slot.       *)
Waited ==
  \A b \in Blocks : blockAge[b] <= TicksSince(b) * Longest + sinceTick

(* The slot is no longer than a pass, but for the first after a start.     *)
SlotIsShort == sinceTick <= Longest \/ \A b \in Blocks : blockAge[b] = 0

LoopInv ==
  /\ LoopTypeOK
  /\ NotTooOld /\ NotTooYoung
  /\ SlotOfPass /\ Waited /\ SlotIsShort

-----------------------------------------------------------------------------
(* A product grows with its factors.                                       *)
LEMMA Grows ==
  ASSUME NEW a \in Nat, NEW x \in Nat, NEW y \in Nat, x <= y
  PROVE  a * x \in Nat /\ a * y \in Nat /\ a * x <= a * y
<1>1. PICK d \in Nat : y = x + d
  <2>1. y - x \in Nat /\ y = x + (y - x)
    OBVIOUS
  <2> QED
    BY <2>1
<1>2. a * y = a * x + a * d /\ a * d \in Nat /\ a * x \in Nat
  BY <1>1
<1> QED
  BY <1>2

(* One factor more by one.                                                 *)
LEMMA OneMoreTimes ==
  ASSUME NEW a \in Nat, NEW x \in Nat
  PROVE  (a + 1) * x = a * x + x /\ a * x \in Nat
OBVIOUS

(* The watchdog's counter bounds the age of a pass.                        *)
LEMMA AgeBound ==
  ASSUME LoopTypeOK, NotTooOld
  PROVE  passAge < WDT_MAX * WDT_TICK /\ passAge < MAX_AGE
<1>1. /\ wdtCounter \in Nat /\ wdtCounter <= WDT_MAX - 1
      /\ phase \in Nat /\ phase <= WDT_TICK - 1
      /\ WDT_MAX \in Nat /\ WDT_MAX - 1 \in Nat /\ WDT_TICK \in Nat /\ passAge \in Nat
      /\ MAX_AGE \in Nat /\ MAX_AGE >= WDT_MAX * WDT_TICK
  BY LoopAssumption DEF LoopTypeOK
<1>2. WDT_TICK * wdtCounter <= WDT_TICK * (WDT_MAX - 1)
  BY <1>1, Grows
<1>3. /\ WDT_TICK * wdtCounter = wdtCounter * WDT_TICK
      /\ WDT_TICK * (WDT_MAX - 1) + WDT_TICK = WDT_MAX * WDT_TICK
      /\ WDT_TICK * wdtCounter \in Nat /\ WDT_MAX * WDT_TICK \in Nat
  BY <1>1
<1> QED
  BY <1>1, <1>2, <1>3 DEF NotTooOld

(* The ages after a tenth of a second.                                     *)
LEMMA OneMoreType ==
  ASSUME NEW age \in Nat
  PROVE  /\ OneMore(age) \in Nat /\ age <= OneMore(age) /\ OneMore(age) <= age + 1
         /\ age < MAX_AGE => OneMore(age) = age + 1
BY LoopAssumption DEF OneMore

(* A station that has just started satisfies the invariant.                *)
LEMMA StartedInv ==
  ASSUME Started
  PROVE  LoopInv'
<1>1. /\ running' = FALSE /\ sinceTick' = TENTHS /\ tick_counter' = 0
      /\ wdtCounter' = 0 /\ phase' = 0 /\ passAge' = 0 /\ slowest' = 0
      /\ blockAge' = [b \in Blocks |-> 0]
  BY DEF Started
<1>2. \A b \in Blocks : b \in Nat /\ b <= TENTHS - 1
  BY LoopAssumption
<1>3. LoopTypeOK'
  <2>1. /\ 0 \in 0 .. TENTHS - 1 /\ 0 \in 0 .. WDT_MAX - 1 /\ 0 \in 0 .. WDT_TICK - 1
        /\ TENTHS \in Nat
    BY LoopAssumption
  <2>2. blockAge' \in [Blocks -> Nat]
    BY <1>1
  <2>3. running' \in BOOLEAN
    BY <1>1, Zenon
  <2> QED
    BY <1>1, <2>1, <2>2, <2>3 DEF LoopTypeOK
<1>4. Longest' = 0
  BY <1>1 DEF Longest
<1>5. \A b \in Blocks : TicksSince(b)' \in Nat
  BY <1>1, <1>2, LoopAssumption DEF TicksSince
<1>6. Waited'
  <2> SUFFICES ASSUME NEW b \in Blocks
               PROVE  blockAge'[b] <= TicksSince(b)' * Longest' + sinceTick'
    BY DEF Waited
  <2>1. TicksSince(b)' * 0 = 0
    BY <1>5
  <2> QED
    BY <1>1, <1>4, <2>1, LoopAssumption
<1>7. SlotIsShort' /\ SlotOfPass'
  BY <1>1 DEF SlotIsShort, SlotOfPass
<1>8. 0 * WDT_TICK = 0
  BY LoopAssumption
<1> QED
  BY <1>1, <1>3, <1>6, <1>7, <1>8 DEF LoopInv, NotTooOld, NotTooYoung

(* What the types say of the variables one by one.                         *)
LEMMA LoopTypes ==
  ASSUME LoopTypeOK
  PROVE  /\ running \in BOOLEAN /\ tick_counter \in Nat /\ tick_counter <= TENTHS - 1
         /\ sinceTick \in Nat /\ passAge \in Nat /\ slowest \in Nat
         /\ wdtCounter \in Nat /\ phase \in Nat
         /\ Longest \in Nat /\ passAge <= Longest /\ slowest <= Longest
         /\ \A b \in Blocks :
              /\ b \in Nat /\ b <= TENTHS - 1
              /\ blockAge[b] \in Nat
              /\ TicksSince(b) \in Nat /\ TicksSince(b) <= TENTHS - 1
         /\ TENTHS \in Nat /\ TENTHS > 0
BY LoopAssumption DEF LoopTypeOK, Longest, TicksSince

(* The beginning of a pass, with or without a tick.                        *)
LEMMA BeginPassInv ==
  ASSUME LoopInv, BeginPass
  PROVE  LoopInv'
<1> USE LoopTypes DEF LoopInv
<1>1. /\ running' = TRUE /\ sinceTick' = 0
      /\ UNCHANGED <<wdtCounter, phase, passAge, slowest>>
  BY DEF BeginPass
<1>2. tick_counter' = IF sinceTick = 0 THEN tick_counter
                      ELSE IF tick_counter = TENTHS - 1 THEN 0 ELSE tick_counter + 1
  <2>1. CASE sinceTick = 0
    <3>1. tick_counter' = (tick_counter + 0) % TENTHS
      BY <2>1 DEF BeginPass, TicksOfPass
    <3>2. (tick_counter + 0) % TENTHS = tick_counter
      OBVIOUS
    <3> QED
      BY <2>1, <3>1, <3>2
  <2>2. CASE sinceTick # 0
    <3>1. tick_counter' = (tick_counter + 1) % TENTHS
      BY <2>2 DEF BeginPass, TicksOfPass
    <3> QED
      BY <2>2, <3>1
  <2> QED
    BY <2>1, <2>2
<1>3. \A b \in Blocks :
        blockAge'[b] = IF sinceTick # 0 /\ b = tick_counter' THEN 0 ELSE blockAge[b]
  BY DEF BeginPass, TicksOfPass
<1>4. blockAge' \in [Blocks -> Nat]
  BY <1>3 DEF BeginPass, LoopTypeOK
<1>5. LoopTypeOK'
  BY <1>1, <1>2, <1>4 DEF LoopTypeOK
<1>6. Longest' = Longest
  BY <1>1 DEF Longest
<1>7. Waited'
  <2> SUFFICES ASSUME NEW b \in Blocks
               PROVE  blockAge'[b] <= TicksSince(b)' * Longest + 0
    BY <1>1, <1>6 DEF Waited
  <2>1. blockAge[b] <= TicksSince(b) * Longest + sinceTick
    BY DEF Waited
  <2>2. CASE sinceTick = 0
    <3>1. TicksSince(b)' = TicksSince(b) /\ blockAge'[b] = blockAge[b]
      BY <1>2, <1>3, <2>2 DEF TicksSince
    <3> QED
      BY <2>1, <2>2, <3>1
  <2>3. CASE sinceTick # 0 /\ b = tick_counter'
    <3>1. TicksSince(b)' = 0 /\ blockAge'[b] = 0
      BY <1>3, <2>3 DEF TicksSince
    <3> QED
      BY <3>1
  <2>4. CASE sinceTick # 0 /\ b # tick_counter'
    <3>1. TicksSince(b)' = TicksSince(b) + 1 /\ blockAge'[b] = blockAge[b]
      BY <1>2, <1>3, <2>4 DEF TicksSince
    <3> DEFINE n == TicksSince(b)
    <3> HIDE DEF n
    <3>2. n \in Nat
      BY DEF n
    <3>3. (n + 1) * Longest = n * Longest + Longest /\ n * Longest \in Nat
      BY <3>2, OneMoreTimes
    <3>4. blockAge[b] <= n * Longest + Longest
      BY <2>1, <3>3 DEF SlotIsShort, n
    <3> QED
      BY <3>1, <3>3, <3>4 DEF n
  <2> QED
    BY <2>2, <2>3, <2>4
<1>8. SlotIsShort' /\ SlotOfPass'
  BY <1>1, <1>6 DEF SlotIsShort, SlotOfPass
<1> QED
  BY <1>1, <1>5, <1>7, <1>8 DEF NotTooOld, NotTooYoung

(* The end of a pass.                                                      *)
LEMMA EndPassInv ==
  ASSUME LoopInv, EndPass
  PROVE  LoopInv'
<1> USE LoopTypes DEF LoopInv
<1>1. /\ running' = FALSE /\ wdtCounter' = 0 /\ passAge' = 0
      /\ slowest' = Longest
      /\ UNCHANGED <<sinceTick, tick_counter, phase, blockAge>>
  BY DEF EndPass, Longest
<1>2. Longest' = Longest
  BY <1>1 DEF Longest
<1>3. LoopTypeOK'
  <2>1. 0 \in 0 .. WDT_MAX - 1
    BY LoopAssumption
  <2>2. running' \in BOOLEAN
    BY <1>1, Zenon
  <2> QED
    BY <1>1, <2>1, <2>2 DEF LoopTypeOK
<1>4. Waited' /\ SlotIsShort' /\ SlotOfPass'
  <2>1. \A b \in Blocks : TicksSince(b)' = TicksSince(b)
    BY <1>1 DEF TicksSince
  <2>2. Waited'
    BY <1>1, <1>2, <2>1 DEF Waited
  <2> QED
    BY <1>1, <1>2, <2>2 DEF SlotIsShort, SlotOfPass
<1>5. 0 * WDT_TICK = 0
  BY LoopAssumption
<1> QED
  BY <1>1, <1>3, <1>4, <1>5 DEF NotTooOld, NotTooYoung

(* A tenth of a second, without the watchdog's restart.                    *)
LEMMA TenthInv ==
  ASSUME LoopInv, running, Tenth, ~(phase + 1 = WDT_TICK /\ WdtExpired)
  PROVE  LoopInv'
<1> USE LoopTypes DEF LoopInv
<1>1. /\ phase' = (phase + 1) % WDT_TICK
      /\ wdtCounter' = IF phase + 1 = WDT_TICK THEN wdtCounter + 1 ELSE wdtCounter
      /\ sinceTick' = OneMore(sinceTick) /\ passAge' = OneMore(passAge)
      /\ blockAge' = [b \in Blocks |-> OneMore(blockAge[b])]
      /\ UNCHANGED <<running, tick_counter, slowest>>
  BY DEF Tenth
<1>2. sinceTick <= passAge /\ passAge < MAX_AGE /\ MAX_AGE \in Nat
  BY AgeBound, LoopAssumption DEF SlotOfPass
<1>3. passAge' = passAge + 1 /\ sinceTick' = sinceTick + 1
  BY <1>1, <1>2, OneMoreType
<1>4. \A b \in Blocks : blockAge'[b] \in Nat /\ blockAge'[b] <= blockAge[b] + 1
  BY <1>1, OneMoreType
<1>5. /\ phase \in 0 .. WDT_TICK - 1 /\ WDT_TICK \in Nat \ {0}
      /\ wdtCounter \in 0 .. WDT_MAX - 1 /\ WDT_MAX \in Nat
  BY LoopAssumption DEF LoopTypeOK
<1>6. phase' = IF phase + 1 = WDT_TICK THEN 0 ELSE phase + 1
  BY <1>1, <1>5
<1>7. phase + 1 = WDT_TICK => wdtCounter + 1 <= WDT_MAX - 1
  BY <1>5 DEF WdtExpired
<1>8. LoopTypeOK'
  <2>1. blockAge' \in [Blocks -> Nat]
    BY <1>1, <1>4
  <2> QED
    BY <1>1, <1>3, <1>5, <1>6, <1>7, <2>1 DEF LoopTypeOK
<1>9. Longest <= Longest' /\ Longest' \in Nat /\ passAge' <= Longest'
  BY <1>1, <1>3 DEF Longest
<1>10. Waited'
  <2> SUFFICES ASSUME NEW b \in Blocks
               PROVE  blockAge'[b] <= TicksSince(b) * Longest' + sinceTick'
    BY <1>1 DEF Waited, TicksSince
  <2> DEFINE n == TicksSince(b)
  <2>1. n \in Nat /\ blockAge[b] <= n * Longest + sinceTick
    BY DEF Waited
  <2> HIDE DEF n
  <2>2. n * Longest \in Nat /\ n * Longest' \in Nat /\ n * Longest <= n * Longest'
    BY <1>9, <2>1, Grows
  <2>3. blockAge'[b] <= n * Longest' + sinceTick'
    BY <1>3, <1>4, <2>1, <2>2
  <2> QED
    BY <2>3 DEF n
<1>11. SlotIsShort' /\ SlotOfPass'
  BY <1>1, <1>2, <1>3, <1>9 DEF SlotIsShort, SlotOfPass
<1>12. /\ wdtCounter * WDT_TICK \in Nat
       /\ (wdtCounter + 1) * WDT_TICK = wdtCounter * WDT_TICK + WDT_TICK
  BY <1>5, OneMoreTimes
<1>13. NotTooOld'
  BY <1>1, <1>3, <1>5, <1>6, <1>12 DEF NotTooOld
<1>14. NotTooYoung'
  <2>1. CASE phase + 1 # WDT_TICK
    <3>1. wdtCounter > 0 => (wdtCounter - 1) * WDT_TICK \in Nat
      <4>1. wdtCounter > 0 => wdtCounter - 1 \in Nat
        OBVIOUS
      <4> QED
        BY <1>5, <4>1
    <3> QED
      BY <1>1, <1>3, <1>6, <2>1, <3>1 DEF NotTooYoung
  <2>2. CASE phase + 1 = WDT_TICK
    <3>1. wdtCounter' - 1 = wdtCounter /\ phase' = 0
      BY <1>1, <1>6, <2>2
    <3>2. passAge + 1 > wdtCounter * WDT_TICK
      <4>1. CASE wdtCounter = 0
        BY <1>5, <1>12, <4>1
      <4>2. CASE wdtCounter > 0
        <5>1. PICK w \in Nat : wdtCounter = w + 1
          <6>1. wdtCounter - 1 \in Nat /\ wdtCounter = (wdtCounter - 1) + 1
            BY <4>2
          <6> QED
            BY <6>1
        <5>2. (w + 1) * WDT_TICK = w * WDT_TICK + WDT_TICK /\ w * WDT_TICK \in Nat
          BY <1>5, OneMoreTimes
        <5>3. wdtCounter - 1 = w
          BY <5>1
        <5>4. passAge > w * WDT_TICK + phase
          BY <4>2, <5>3 DEF NotTooYoung
        <5> QED
          BY <1>5, <2>2, <5>1, <5>2, <5>4
      <4> QED
        BY <4>1, <4>2
    <3> QED
      BY <1>3, <1>12, <3>1, <3>2 DEF NotTooYoung
  <2> QED
    BY <2>1, <2>2
<1> QED
  BY <1>8, <1>10, <1>11, <1>13, <1>14

(* Every step keeps the invariant.                                         *)
LEMMA LoopStepInv ==
  ASSUME LoopInv, [LoopNext]_loopVars
  PROVE  LoopInv'
<1>1. CASE BeginPass
  BY <1>1, BeginPassInv
<1>2. CASE EndPass
  BY <1>2, EndPassInv
<1>3. CASE running /\ Tenth
  <2>1. CASE phase + 1 = WDT_TICK /\ WdtExpired
    BY <1>3, <2>1, StartedInv DEF Tenth
  <2>2. CASE ~(phase + 1 = WDT_TICK /\ WdtExpired)
    BY <1>3, <2>2, TenthInv
  <2> QED
    BY <2>1, <2>2
<1>4. CASE UNCHANGED loopVars
  BY <1>4
     DEF loopVars, LoopInv, LoopTypeOK, NotTooOld, NotTooYoung, SlotOfPass,
         Waited, SlotIsShort, Longest, TicksSince
<1> QED
  BY <1>1, <1>2, <1>3, <1>4 DEF LoopNext

(* The invariant holds in all reachable states.                            *)
LEMMA LoopInvHolds == LoopSpec => []LoopInv
<1>1. LoopInit => LoopInv
  <2> SUFFICES ASSUME LoopInit PROVE LoopInv
    OBVIOUS
  <2>1. /\ running = FALSE /\ sinceTick = TENTHS /\ tick_counter = 0
        /\ wdtCounter = 0 /\ phase = 0 /\ passAge = 0 /\ slowest = 0
        /\ blockAge = [b \in Blocks |-> 0]
    BY DEF LoopInit
  <2>2. LoopTypeOK
    <3>1. /\ 0 \in 0 .. TENTHS - 1 /\ 0 \in 0 .. WDT_MAX - 1
          /\ 0 \in 0 .. WDT_TICK - 1 /\ TENTHS \in Nat
      BY LoopAssumption
    <3>2. blockAge \in [Blocks -> Nat]
      BY <2>1
    <3>3. running \in BOOLEAN
      BY <2>1, Zenon
    <3> QED
      BY <2>1, <3>1, <3>2, <3>3 DEF LoopTypeOK
  <2>3. Longest = 0 /\ \A b \in Blocks : TicksSince(b) \in Nat
    BY <2>1, <2>2, LoopTypes DEF Longest
  <2>4. Waited
    <3> SUFFICES ASSUME NEW b \in Blocks
                 PROVE  blockAge[b] <= TicksSince(b) * Longest + sinceTick
      BY DEF Waited
    <3>1. TicksSince(b) * 0 = 0
      BY <2>3
    <3> QED
      BY <2>1, <2>3, <3>1, LoopAssumption
  <2>5. SlotIsShort /\ SlotOfPass
    BY <2>1 DEF SlotIsShort, SlotOfPass
  <2>6. 0 * WDT_TICK = 0
    BY LoopAssumption
  <2> QED
    BY <2>1, <2>2, <2>4, <2>5, <2>6 DEF LoopInv, NotTooOld, NotTooYoung
<1>2. LoopInv /\ [LoopNext]_loopVars => LoopInv'
  BY LoopStepInv
<1> QED
  BY <1>1, <1>2, PTL DEF LoopSpec

-----------------------------------------------------------------------------
(* The loop's counters stay below their limits.                            *)
THEOREM LoopTypeCorrect == LoopSpec => []LoopTypeOK
<1>1. LoopInv => LoopTypeOK
  BY DEF LoopInv
<1> QED
  BY <1>1, LoopInvHolds, PTL

(* No pass, and so no handler that hangs with a valve open, outlives the   *)
(* watchdog's last period (SgWdt.cpp).                                     *)
THEOREM HangingPassEnds == LoopSpec => []HangsEnd
<1>1. LoopInv => HangsEnd
  BY AgeBound DEF LoopInv, HangsEnd
<1> QED
  BY <1>1, LoopInvHolds, PTL

(* The watchdog restarts the station only behind a pass that has lasted    *)
(* for all but the first of its periods, wherever in one the pass began.   *)
THEOREM SlowPassIsSpared == LoopSpec => SlowPassSpared
<1>1. ASSUME LoopInv, [LoopNext]_loopVars, running, Started
      PROVE  passAge + 1 > (WDT_MAX - 1) * WDT_TICK
  <2> USE <1>1, LoopTypes DEF LoopInv
  <2>1. CASE BeginPass \/ UNCHANGED loopVars
    BY <2>1 DEF BeginPass, Started, loopVars
  <2>2. CASE EndPass
    <3>1. sinceTick = TENTHS /\ sinceTick <= passAge /\ Longest = 0
      BY <2>2 DEF EndPass, Started, SlotOfPass, Longest
    <3> QED
      BY <3>1
  <2>3. CASE running /\ Tenth
    <3>1. phase + 1 = WDT_TICK /\ wdtCounter + 1 >= WDT_MAX
      BY <2>3 DEF Tenth, Started, WdtExpired
    <3>2. /\ wdtCounter = WDT_MAX - 1 /\ WDT_MAX \in Nat \ {0}
          /\ WDT_TICK \in Nat \ {0} /\ wdtCounter \in Nat
      BY <3>1, LoopAssumption DEF LoopTypeOK
    <3>3. CASE wdtCounter = 0
      <4>1. (WDT_MAX - 1) * WDT_TICK = 0
        BY <3>2, <3>3
      <4> QED
        BY <4>1
    <3>4. CASE wdtCounter > 0
      <4>1. PICK w \in Nat : wdtCounter = w + 1
        <5>1. wdtCounter - 1 \in Nat /\ wdtCounter = (wdtCounter - 1) + 1
          BY <3>4
        <5> QED
          BY <5>1
      <4>2. (w + 1) * WDT_TICK = w * WDT_TICK + WDT_TICK /\ w * WDT_TICK \in Nat
        BY <3>2, OneMoreTimes
      <4>3. passAge > w * WDT_TICK + phase
        <5>1. wdtCounter - 1 = w
          BY <4>1
        <5> QED
          BY <3>4, <5>1 DEF NotTooYoung
      <4> QED
        BY <3>1, <3>2, <4>1, <4>2, <4>3
    <3> QED
      BY <3>2, <3>3, <3>4
  <2> QED
    BY <2>1, <2>2, <2>3 DEF LoopNext
<1> QED
  BY <1>1, LoopInvHolds, PTL DEF LoopSpec, SlowPassSpared

(* However slow the passes are, every block of periodic work runs at least *)
(* once in as many of them as a second has ticks (core.cpp, mainLoop).     *)
THEOREM BlocksRun == LoopSpec => []NoBlockStarves
<1>1. ASSUME LoopInv PROVE NoBlockStarves
  <2> USE <1>1, LoopTypes DEF LoopInv
  <2> SUFFICES ASSUME NEW b \in Blocks
               PROVE  blockAge[b] <= TENTHS * Longest
    BY DEF NoBlockStarves, Longest
  <2> DEFINE n == TicksSince(b)
  <2>1. n \in Nat /\ n + 1 <= TENTHS /\ blockAge[b] <= n * Longest + sinceTick
    BY DEF Waited
  <2> HIDE DEF n
  <2>2. (n + 1) * Longest = n * Longest + Longest /\ n * Longest \in Nat
    BY <2>1, OneMoreTimes
  <2>3. Longest * (n + 1) <= Longest * TENTHS /\ Longest * TENTHS \in Nat
    BY <2>1, Grows
  <2>4. /\ Longest * (n + 1) = (n + 1) * Longest
        /\ Longest * TENTHS = TENTHS * Longest
    BY <2>1
  <2>5. blockAge[b] <= n * Longest + Longest
    BY <2>1, <2>2 DEF SlotIsShort
  <2> QED
    BY <2>1, <2>2, <2>3, <2>4, <2>5
<1> QED
  BY <1>1, LoopInvHolds, PTL

-----------------------------------------------------------------------------
(***************************************************************************)
(* TimeService: for all intervals, time zones and remotes, the master's    *)
(* clock is right while it counts as synchronised, and remotes hear from   *)
(* the master in time.                                                     *)
(***************************************************************************)

(* A request for the time is due again before tLastSync gets old, and the  *)
(* main loop makes it before anything is broadcast.                        *)
Synced ==
  /\ block = "broadcast" => sinceSync <= SYNC + waited
  /\ block = "checkTime" /\ answered => sinceSync <= SYNC + LATE + waited
  /\ block = "asking" /\ answered => sinceSync <= SYNC + 2 * LATE + waited

SyncInv == TimeTypeOK /\ Synced /\ ClockIsRight

(* Clocks count from a past no time zone reaches back to (1970).           *)
ClocksArePositive == \A x \in Leads, zone \in Offsets : x + OffsetTicks(zone) >= 0

(* The longest the loop may have been on its way since it last saw whether *)
(* a broadcast was due.                                                    *)
Slack ==
  CASE block = "checkTime" -> waited
    [] block = "asking"    -> LATE + waited
    [] block = "broadcast" -> LATE + WAIT + waited

(* A remote has heard from the master within an interval, and the next     *)
(* broadcast is due within an interval of the last.                        *)
InTime(r) == remoteSince[r] <= BROADCAST + Slack + steppedBack
NextDue(r) == remoteSince[r] + nextBroadcastTime <= now + BROADCAST + steppedBack
NothingYet == elapsed <= Slack /\ nextBroadcastTime = 0

Heard(r) == NothingYet \/ (InTime(r) /\ NextDue(r))

TimeInv ==
  /\ SyncInv
  /\ now >= 0
  /\ \A r \in Listeners : missed[r] = 0 => Heard(r)

-----------------------------------------------------------------------------
(* What the assumptions say of the intervals.                              *)
LEMMA Intervals ==
  /\ SYNC \in Nat /\ SYNC > 0 /\ SYNC < OFFLINE
  /\ OFFLINE \in Nat /\ BROADCAST \in Nat /\ BROADCAST > 0 /\ BROADCAST < OFFLINE
  /\ MILLIS \in Nat /\ OFFLINE < MILLIS /\ MaxTicks \in Nat /\ MaxMissed \in Nat
  /\ LATE \in Nat /\ WAIT \in Nat
  /\ SYNC + 2 * LATE + WAIT + 1 < MILLIS /\ SYNC + LATE < OFFLINE
BY TimeAssumption, LateAssumption DEF SYNC

(* The seconds of a time zone are a number.                                *)
LEMMA OffsetNumbers ==
  ASSUME NEW zone \in Offsets
  PROVE  OffsetTicks(zone) \in Int /\ zone * HOUR \in Int
<1>1. zone \in Int /\ HOUR \in Int /\ INT \in Nat \ {0}
  BY TimeAssumption
<1>2. zone * HOUR \in Int
  BY <1>1
<1>3. (zone * HOUR) % INT \in Int
  BY <1>1, <1>2
<1> QED
  BY <1>1, <1>2, <1>3 DEF OffsetTicks

(* The types of the variables one by one.                                  *)
LEMMA TimeTypes ==
  ASSUME TimeTypeOK
  PROVE  /\ elapsed \in Nat /\ lead \in Int /\ offset \in Int
         /\ now \in Int /\ nextBroadcastTime \in Int /\ steppedBack \in Nat
         /\ sinceSync \in Nat /\ sinceSync < MILLIS
         /\ waited \in Nat
         /\ \A r \in Listeners : /\ remoteNow[r] \in Int
                                 /\ remoteSince[r] \in Nat /\ remoteSince[r] < MILLIS
                                 /\ missed[r] \in 0 .. MaxMissed
BY TimeAssumption, Intervals DEF TimeTypeOK

(* The loop is never later than a round of its blocks.                     *)
LEMMA SlackRange ==
  ASSUME TimeTypeOK
  PROVE  Slack \in Nat /\ Slack <= 2 * LATE + WAIT
<1>1. CASE block = "checkTime"
  BY <1>1, Intervals DEF TimeTypeOK, Slack
<1>2. CASE block = "asking"
  BY <1>2, Intervals DEF TimeTypeOK, Slack
<1>3. CASE block = "broadcast"
  BY <1>3, Intervals DEF TimeTypeOK, Slack
<1> QED
  BY <1>1, <1>2, <1>3 DEF TimeTypeOK

(* The stations start unsynchronised.                                      *)
LEMMA TimeInitInv ==
  ASSUME TimeInit
  PROVE  TimeInv
<1>1. SyncInv
  <2>1. 0 \in 0 .. MaxTicks /\ 0 \in 0 .. MaxMissed /\ 0 \in 0 .. LATE
        /\ OFFLINE \in 0 .. MILLIS - 1
    BY TimeAssumption, Intervals
  <2>2. everAnswered \in BOOLEAN /\ answered \in BOOLEAN /\ ~answered
    BY Zenon DEF TimeInit
  <2>3. /\ remoteNow \in [Listeners -> Int]
        /\ remoteSince \in [Listeners -> 0 .. MILLIS - 1]
        /\ missed \in [Listeners -> 0 .. MaxMissed]
    BY <2>1 DEF TimeInit
  <2>4. TimeTypeOK
    BY <2>1, <2>2, <2>3 DEF TimeInit, TimeTypeOK
  <2> QED
    BY <2>2, <2>4 DEF TimeInit, SyncInv, Synced, ClockIsRight
<1>2. NothingYet /\ now >= 0
  BY DEF TimeInit, NothingYet, Slack
<1> QED
  BY <1>1, <1>2 DEF TimeInv, Heard

(* A tick.                                                                 *)
LEMMA TimePassesInv ==
  ASSUME SyncInv, TimePasses
  PROVE  SyncInv'
<1> USE Intervals, TimeTypes DEF SyncInv
<1>1. /\ elapsed' = elapsed + 1 /\ elapsed < MaxTicks /\ now' = now + 1
      /\ waited' = waited + 1
      /\ waited < (IF block = "asking" THEN WAIT ELSE LATE)
      /\ sinceSync' = (sinceSync + 1) % MILLIS
      /\ UNCHANGED <<lead, offset, nextBroadcastTime, block, missed,
                     answered, everAnswered, steppedBack>>
  BY DEF TimePasses
<1>2. block = "broadcast" \/ answered =>
        sinceSync' = sinceSync + 1 /\ sinceSync + 1 \in Nat
  <2>1. block \in {"checkTime", "asking", "broadcast"}
    BY DEF TimeTypeOK
  <2>2. block = "broadcast" \/ answered => sinceSync <= SYNC + 2 * LATE + WAIT
    BY <1>1, <2>1 DEF Synced
  <2>3. sinceSync + 1 \in Nat /\ MILLIS \in Nat /\ SYNC + 2 * LATE + WAIT + 1 < MILLIS
    OBVIOUS
  <2>4. ASSUME block = "broadcast" \/ answered
        PROVE  (sinceSync + 1) % MILLIS = sinceSync + 1
    <3>1. sinceSync + 1 < MILLIS
      BY <2>2, <2>3, <2>4
    <3> QED
      BY <2>3, <3>1
  <2> QED
    BY <1>1, <2>3, <2>4
<1>3. /\ remoteNow' \in [Listeners -> Int]
      /\ remoteSince' \in [Listeners -> 0 .. MILLIS - 1]
  BY DEF TimePasses
<1>4. TimeTypeOK'
  <2>1. elapsed' \in 0 .. MaxTicks /\ sinceSync' \in 0 .. MILLIS - 1
    BY <1>1 DEF TimeTypeOK
  <2>2. waited' \in 0 .. IF block = "asking" THEN WAIT ELSE LATE
    BY <1>1
  <2> QED
    BY <1>1, <1>3, <2>1, <2>2 DEF TimeTypeOK
<1>5. ClockIsRight'
  <2> SUFFICES ASSUME answered, sinceSync' < SYNC, OffsetFits(offset)
               PROVE  now' = lead + elapsed' + offset * HOUR
    BY <1>1 DEF ClockIsRight, OffsetFits
  <2>1. now = lead + elapsed + offset * HOUR
    BY <1>2 DEF ClockIsRight
  <2>2. offset * HOUR \in Int
    BY OffsetNumbers DEF TimeTypeOK
  <2> QED
    BY <1>1, <2>1, <2>2
<1> QED
  BY <1>1, <1>2, <1>4, <1>5 DEF Synced

(* The start of a request, or none.                                        *)
LEMMA checkTimeInv ==
  ASSUME SyncInv, checkTime
  PROVE  SyncInv'
<1> USE Intervals, TimeTypes DEF SyncInv
<1>1. /\ block = "checkTime" /\ waited' = 0
      /\ block' = IF sinceSync > SYNC THEN "asking" ELSE "broadcast"
      /\ UNCHANGED <<elapsed, lead, offset, now, sinceSync, answered, everAnswered,
                     steppedBack, nextBroadcastTime, remoteNow, remoteSince, missed>>
  BY DEF checkTime, ComesTo, clockVars, remoteVars
<1>2. waited <= LATE
  BY <1>1 DEF TimeTypeOK
<1>3. TimeTypeOK'
  BY <1>1 DEF TimeTypeOK
<1>4. Synced' /\ ClockIsRight'
  BY <1>1, <1>2 DEF Synced, ClockIsRight, OffsetFits
<1> QED
  BY <1>3, <1>4

(* The end of a request, answered or not.                                  *)
LEMMA getNtpTimeInv ==
  ASSUME SyncInv, NEW replies \in BOOLEAN, getNtpTime(replies)
  PROVE  /\ SyncInv'
         /\ now' + steppedBack' >= now + steppedBack /\ steppedBack' >= steppedBack
         /\ now' = now \/ now' = lead + elapsed + OffsetTicks(offset)
<1> USE Intervals, TimeTypes DEF SyncInv
<1>1. /\ block' = "broadcast" /\ waited' = 0 /\ sinceSync' = 0
      /\ answered' = replies
      /\ UNCHANGED <<elapsed, lead, offset, nextBroadcastTime,
                     remoteNow, remoteSince, missed>>
  BY DEF getNtpTime, ComesTo, remoteVars
<1>2. everAnswered' \in BOOLEAN /\ answered' \in BOOLEAN
  BY <1>1, Zenon DEF getNtpTime
<1>3. /\ now' = IF replies THEN lead + elapsed + OffsetTicks(offset) ELSE now
      /\ steppedBack' = steppedBack + (IF now' < now THEN now - now' ELSE 0)
  BY DEF getNtpTime
<1>4. now' \in Int /\ steppedBack' \in Nat
  BY <1>3, OffsetNumbers DEF TimeTypeOK
<1>5. TimeTypeOK'
  BY <1>1, <1>2, <1>4 DEF TimeTypeOK
<1>6. Synced' /\ ClockIsRight'
  BY <1>1, <1>3 DEF Synced, ClockIsRight, OffsetFits
<1> QED
  BY <1>3, <1>4, <1>5, <1>6

(* A broadcast.                                                            *)
LEMMA BroadcastTimeInv ==
  ASSUME SyncInv, NEW hears \in SUBSET Listeners, BroadcastTime(hears)
  PROVE  SyncInv'
<1> USE Intervals, TimeTypes DEF SyncInv
<1>1. /\ block = "broadcast" /\ block' = "checkTime" /\ waited' = 0
      /\ UNCHANGED <<elapsed, lead, offset, now, sinceSync, answered, everAnswered,
                     steppedBack>>
  BY DEF BroadcastTime, ComesTo, clockVars
<1>2. /\ nextBroadcastTime' \in Int
      /\ remoteNow' \in [Listeners -> Int]
      /\ remoteSince' \in [Listeners -> 0 .. MILLIS - 1]
      /\ missed' \in [Listeners -> 0 .. MaxMissed]
  <2>1. CASE GetNetworkStatus(sinceSync) /\ nextBroadcastTime <= now
    <3>1. nextBroadcastTime' = now + BROADCAST
      BY <2>1 DEF BroadcastTime, NextBroadcast
    <3>2. /\ remoteNow' = [r \in Listeners |-> IF r \in hears THEN now ELSE remoteNow[r]]
          /\ remoteSince' = [r \in Listeners |-> IF r \in hears THEN 0 ELSE remoteSince[r]]
      BY <2>1 DEF BroadcastTime
    <3>3. /\ missed' = [r \in Listeners |->
                          missed[r] + (IF r \in hears THEN 0 ELSE 1)]
          /\ \A r \in Listeners : missed'[r] <= MaxMissed
      BY <2>1 DEF BroadcastTime
    <3>4. \A r \in Listeners : missed'[r] \in 0 .. MaxMissed
      BY <3>3
    <3>5. missed' \in [Listeners -> 0 .. MaxMissed]
      BY <3>3, <3>4
    <3>6. 0 \in 0 .. MILLIS - 1
      OBVIOUS
    <3> QED
      BY <3>1, <3>2, <3>5, <3>6 DEF TimeTypeOK
  <2>2. CASE ~(GetNetworkStatus(sinceSync) /\ nextBroadcastTime <= now)
    BY <2>2 DEF BroadcastTime, remoteVars, TimeTypeOK
  <2> QED
    BY <2>1, <2>2
<1>3. TimeTypeOK' /\ waited <= LATE
  BY <1>1, <1>2 DEF TimeTypeOK
<1> QED
  BY <1>1, <1>3 DEF Synced, ClockIsRight, OffsetFits

(* A change of the time zone.                                              *)
LEMMA SetNTPOffsetInv ==
  ASSUME SyncInv, NEW zone \in Offsets, SetNTPOffset(zone)
  PROVE  SyncInv'
<1> USE Intervals, TimeTypes DEF SyncInv
<1>1. /\ block # "asking" /\ offset' = zone /\ sinceSync' = SYNC
      /\ UNCHANGED <<elapsed, lead, now, answered, everAnswered, steppedBack,
                     nextBroadcastTime, block, waited, remoteNow, remoteSince, missed>>
  BY DEF SetNTPOffset, loopBlock, remoteVars
<1>2. TimeTypeOK'
  <2>1. SYNC \in 0 .. MILLIS - 1
    OBVIOUS
  <2> QED
    BY <1>1, <2>1 DEF TimeTypeOK
<1> QED
  BY <1>1, <1>2 DEF Synced, ClockIsRight

(* The part of the invariant that is about the master alone.               *)
LEMMA SyncStepInv ==
  ASSUME SyncInv, [TimeNext]_timeVars
  PROVE  SyncInv'
<1>1. CASE UNCHANGED timeVars
  BY <1>1 DEF timeVars, clockVars, loopBlock, remoteVars, SyncInv, TimeTypeOK, Synced,
              ClockIsRight, OffsetFits
<1>2. ASSUME NEW hears \in SUBSET Listeners, BroadcastTime(hears) PROVE SyncInv'
  BY <1>2, BroadcastTimeInv
<1>3. ASSUME NEW zone \in Offsets, SetNTPOffset(zone) PROVE SyncInv'
  BY <1>3, SetNTPOffsetInv
<1>4. ASSUME NEW replies \in BOOLEAN, getNtpTime(replies) PROVE SyncInv'
  BY <1>4, getNtpTimeInv
<1> QED
  BY <1>1, <1>2, <1>3, <1>4, TimePassesInv, checkTimeInv DEF TimeNext

(* What an inference about a remote needs when the loop moves on: it has   *)
(* had less time than it will have taken.                                  *)
LEMMA StillHeard ==
  ASSUME TimeTypeOK, TimeTypeOK', NEW r \in Listeners, Heard(r),
         UNCHANGED <<elapsed, nextBroadcastTime, remoteSince>>,
         Slack' \in Nat, Slack <= Slack',
         now' + steppedBack' >= now + steppedBack, steppedBack' >= steppedBack
  PROVE  Heard(r)'
<1> USE Intervals, TimeTypes
<1>1. Slack \in Nat /\ now' \in Int /\ steppedBack' \in Nat
  BY SlackRange DEF TimeTypeOK
<1>2. CASE NothingYet
  BY <1>1, <1>2 DEF Heard, NothingYet
<1>3. CASE InTime(r) /\ NextDue(r)
  BY <1>1, <1>3 DEF Heard, InTime, NextDue
<1> QED
  BY <1>2, <1>3 DEF Heard

(* The part about the remotes.                                             *)
LEMMA TimeStepInv ==
  ASSUME ClocksArePositive, TimeInv, [TimeNext]_timeVars
  PROVE  TimeInv'
<1> USE Intervals, TimeTypes DEF TimeInv
<1>0. SyncInv' /\ TimeTypeOK /\ TimeTypeOK'
  BY SyncStepInv DEF SyncInv
<1> USE <1>0
<1>1. CASE TimePasses
  <2>1. /\ elapsed' = elapsed + 1 /\ now' = now + 1 /\ waited' = waited + 1
        /\ UNCHANGED <<block, nextBroadcastTime, missed, steppedBack>>
    BY <1>1 DEF TimePasses
  <2>2. Slack' = Slack + 1 /\ Slack \in Nat
    BY <2>1, SlackRange DEF Slack, TimeTypeOK
  <2>3. ASSUME NEW r \in Listeners, missed'[r] = 0 PROVE Heard(r)'
    <3>1. Heard(r)
      BY <2>1, <2>3
    <3>2. remoteSince'[r] = (remoteSince[r] + 1) % MILLIS
      BY <1>1 DEF TimePasses
    <3>3. remoteSince'[r] \in Nat /\ remoteSince'[r] <= remoteSince[r] + 1
      <4>1. remoteSince[r] + 1 \in Nat /\ remoteSince[r] + 1 <= MILLIS
        OBVIOUS
      <4>2. CASE remoteSince[r] + 1 = MILLIS
        BY <3>2, <4>1, <4>2
      <4>3. CASE remoteSince[r] + 1 < MILLIS
        BY <3>2, <4>1, <4>3
      <4> QED
        BY <4>1, <4>2, <4>3
    <3>4. CASE NothingYet
      BY <2>1, <2>2, <3>4 DEF Heard, NothingYet
    <3>5. CASE InTime(r) /\ NextDue(r)
      BY <2>1, <2>2, <3>3, <3>5 DEF Heard, InTime, NextDue
    <3> QED
      BY <3>1, <3>4, <3>5 DEF Heard
  <2> QED
    BY <2>1, <2>3
<1>2. CASE checkTime
  <2>1. /\ block = "checkTime" /\ block' \in {"asking", "broadcast"} /\ waited' = 0
        /\ UNCHANGED <<elapsed, now, steppedBack, nextBroadcastTime, remoteSince, missed>>
    BY <1>2 DEF checkTime, ComesTo, clockVars, remoteVars
  <2>2. Slack' \in Nat /\ Slack <= Slack'
    BY <2>1 DEF Slack, TimeTypeOK
  <2> QED
    BY <2>1, <2>2, StillHeard
<1>3. ASSUME NEW replies \in BOOLEAN, getNtpTime(replies) PROVE TimeInv'
  <2>1. /\ block = "asking" /\ block' = "broadcast" /\ waited' = 0
        /\ UNCHANGED <<elapsed, lead, offset, nextBroadcastTime, remoteSince, missed>>
    BY <1>3 DEF getNtpTime, ComesTo, remoteVars
  <2>2. /\ now' + steppedBack' >= now + steppedBack /\ steppedBack' >= steppedBack
        /\ now' = now \/ now' = lead + elapsed + OffsetTicks(offset)
    BY <1>3, getNtpTimeInv
  <2>3. Slack' \in Nat /\ Slack <= Slack'
    BY <2>1 DEF Slack, TimeTypeOK
  <2>4. now' >= 0
    <3>1. lead + OffsetTicks(offset) >= 0 /\ OffsetTicks(offset) \in Int
      BY OffsetNumbers DEF ClocksArePositive, TimeTypeOK
    <3> QED
      BY <2>2, <3>1
  <2> QED
    BY <2>1, <2>2, <2>3, <2>4, StillHeard
<1>4. ASSUME NEW hears \in SUBSET Listeners, BroadcastTime(hears)
      PROVE  TimeInv'
  <2>1. /\ block = "broadcast" /\ block' = "checkTime" /\ waited' = 0
        /\ UNCHANGED <<elapsed, now, sinceSync, steppedBack>>
    BY <1>4 DEF BroadcastTime, ComesTo, clockVars
  <2>2. GetNetworkStatus(sinceSync)
    BY <2>1 DEF SyncInv, Synced, GetNetworkStatus, TimeTypeOK
  <2>3. Slack' = 0
    BY <2>1 DEF Slack
  <2>4. CASE nextBroadcastTime <= now
    <3>1. nextBroadcastTime' = now + BROADCAST
      BY <1>4, <2>2, <2>4 DEF BroadcastTime, NextBroadcast
    <3>2. ASSUME NEW r \in Listeners, missed'[r] = 0 PROVE Heard(r)'
      <4>1. missed'[r] = missed[r] + (IF r \in hears THEN 0 ELSE 1)
        BY <1>4, <2>2, <2>4 DEF BroadcastTime
      <4>2. r \in hears
        BY <3>2, <4>1
      <4>3. remoteSince'[r] = 0
        BY <1>4, <2>2, <2>4, <4>2 DEF BroadcastTime
      <4> QED
        BY <2>1, <2>3, <3>1, <4>3 DEF Heard, InTime, NextDue
    <3> QED
      BY <2>1, <3>2
  <2>5. CASE nextBroadcastTime > now
    <3>1. UNCHANGED <<nextBroadcastTime, remoteSince, missed>>
      BY <1>4, <2>5 DEF BroadcastTime, remoteVars
    <3>2. ASSUME NEW r \in Listeners, missed'[r] = 0 PROVE Heard(r)'
      <4>1. ~NothingYet
        BY <2>5 DEF NothingYet
      <4>2. NextDue(r)
        BY <3>1, <3>2, <4>1 DEF Heard
      <4> QED
        BY <2>1, <2>3, <2>5, <3>1, <4>2 DEF Heard, InTime, NextDue
    <3> QED
      BY <2>1, <3>2
  <2> QED
    BY <2>4, <2>5
<1>5. ASSUME NEW zone \in Offsets, SetNTPOffset(zone)
      PROVE  TimeInv'
  <2>1. UNCHANGED <<elapsed, now, steppedBack, nextBroadcastTime, block, waited,
                    remoteSince, missed>>
    BY <1>5 DEF SetNTPOffset, loopBlock, remoteVars
  <2> QED
    BY <2>1 DEF Heard, NothingYet, InTime, NextDue, Slack
<1>6. CASE UNCHANGED timeVars
  BY <1>6
     DEF timeVars, clockVars, loopBlock, remoteVars, Heard, NothingYet, InTime, NextDue,
         Slack
<1> QED
  BY <1>1, <1>2, <1>3, <1>4, <1>5, <1>6 DEF TimeNext

-----------------------------------------------------------------------------
(* Clocks, intervals and counts keep their types, whatever the server does.*)
THEOREM TimeTypeCorrect == TimeSpec => []TimeTypeOK
<1>1. TimeInit => SyncInv
  BY TimeInitInv DEF TimeInv
<1>2. SyncInv /\ [TimeNext]_timeVars => SyncInv'
  BY SyncStepInv
<1>3. SyncInv => TimeTypeOK
  BY DEF SyncInv
<1> QED
  BY <1>1, <1>2, <1>3, PTL DEF TimeSpec

(* Between an answer of the server and the time the next request is due    *)
(* the master's clock is right (nntp.cpp, GetNTPOffset), also when users   *)
(* change the time zone.                                                   *)
THEOREM ClockStaysRight == TimeSpec => []ClockIsRight
<1>1. TimeInit => SyncInv
  BY TimeInitInv DEF TimeInv
<1>2. SyncInv /\ [TimeNext]_timeVars => SyncInv'
  BY SyncStepInv
<1>3. SyncInv => ClockIsRight
  BY DEF SyncInv
<1> QED
  BY <1>1, <1>2, <1>3, PTL DEF TimeSpec

(* A remote that misses no broadcast hears from the master once per        *)
(* interval, plus the longest the master's loop may take to come to its    *)
(* blocks and what the master's clock has been set back by.                *)
THEOREM RemotesAreInTime ==
  ASSUME ClocksArePositive
  PROVE  TimeSpec => []RemotesHearInTime
<1>1. TimeInit => TimeInv
  BY TimeInitInv
<1>2. TimeInv /\ [TimeNext]_timeVars => TimeInv'
  BY TimeStepInv
<1>3. TimeInv => RemotesHearInTime
  <2> SUFFICES ASSUME TimeInv, NEW r \in Listeners, missed[r] = 0, elapsed > MostLate
               PROVE  /\ remoteSince[r] <= BROADCAST + MostLate + steppedBack
                      /\ steppedBack = 0 => GetNetworkStatus(remoteSince[r])
    BY DEF RemotesHearInTime
  <2>0. TimeTypeOK
    BY DEF TimeInv, SyncInv
  <2>1. Slack <= MostLate /\ Slack \in Nat /\ MostLate \in Nat
        /\ BROADCAST + MostLate < OFFLINE
    BY <2>0, SlackRange, LateAssumption, Intervals DEF MostLate
  <2>2. ~NothingYet
    BY <2>0, <2>1, TimeTypes DEF NothingYet
  <2>3. InTime(r)
    BY <2>2 DEF TimeInv, Heard
  <2> QED
    BY <2>0, <2>1, <2>3, TimeTypes, Intervals DEF InTime, GetNetworkStatus
<1> QED
  BY <1>1, <1>2, <1>3, PTL DEF TimeSpec

-----------------------------------------------------------------------------
(***************************************************************************)
(* TftpServer: whatever the lines lose and the clients resend, the card    *)
(* holds the first blocks of one upload, each once and in order, and a     *)
(* transfer that ends well has carried the whole file, for every length of *)
(* the files and every range of a byte.                                    *)
(***************************************************************************)

FileBlocks == Nat \X Nat
Asked      == [op : {"WRQ", "RRQ", "DATA", "ACK"}, block : Nat, port : Nat \ {0},
               last : BOOLEAN, what : FileBlocks]
Answers    == [op : {"ERR", "ACK", "DATA"}, block : Nat, last : BOOLEAN, what : FileBlocks]
Clients    == [dir : {"up", "down"}, id : Nat, length : Nat \ {0}, block : Nat, sends : Nat,
               status : {"idle", "busy", "done", "failed"}, got : Seq(FileBlocks)]

TftpTypes ==
  /\ m_timeout \in BOOLEAN /\ m_remotePort \in Nat /\ m_curBlock \in Nat
  /\ m_theFile \in {"closed", "read", "write"} /\ position \in Nat /\ card \in Seq(FileBlocks)
  /\ ending \in {"none", "full", "short"}
  /\ client \in Clients /\ toServer \in Seq(Asked) /\ toClient \in Seq(Answers)

(* Uploads and downloads ask for different things, and say so first.       *)
Uploads(p)  == p.op \in {"WRQ", "DATA"}
Opens(p)    == p.op \in {"WRQ", "RRQ"}

(* The blocks a download has, an empty one after a full last one included, *)
(* and what is in each.                                                    *)
BlockCount == IF ending = "short" THEN Len(card) ELSE Len(card) + 1
BlockAt(n) == IF n <= Len(card) THEN card[n] ELSE <<0, 0>>

(* The card holds the first n blocks of upload id, and nothing else.       *)
Holds(file, id, n) == Len(file) = n /\ \A i \in 1 .. n : file[i] = <<id, i>>

(* What a packet on its way to the server tells of both ends: the client   *)
(* had to hear from the server before it said more than a request, and a   *)
(* request repeated changes nothing any more.                              *)
AskedOK(p) ==
  /\ Opens(p) <=> p.block = 0
  /\ p.op = "DATA" => p.what = <<p.port, p.block>>
  /\ m_remotePort <= p.port /\ p.port <= client.id
  /\ p.block > 0 => p.port = m_remotePort
  /\ p.block > 0 => p.block <= m_curBlock + (IF Uploads(p) THEN 1 ELSE 0)
  /\ Opens(p) /\ p.port = m_remotePort => m_curBlock = IF Uploads(p) THEN 0 ELSE 1
  /\ m_timeout /\ p.port = m_remotePort => (Uploads(p) <=> m_theFile = "write")
  /\ p.port = client.id =>
       /\ Uploads(p) <=> client.dir = "up"
       /\ p.block <= client.block
       /\ Uploads(p) => p.block <= client.length

(* The network keeps the order, and so the client's order.                 *)
Earlier(p, n) ==
  \/ p.port < n.port
  \/ p.port = n.port /\ p.block <= n.block /\ (Uploads(p) <=> Uploads(n))

OnWay(queue, p) == \E i \in 1 .. Len(queue) : queue[i] = p

InSequence(queue) == \A i, j \in 1 .. Len(queue) : i < j => Earlier(queue[i], queue[j])

ToServerOK == InSequence(toServer) /\ \A p \in Asked : OnWay(toServer, p) => AskedOK(p)

(* What is on its way to the client is what it asked for.                  *)
AnswerOK(a) ==
  a.op # "ERR" =>
    /\ m_remotePort = client.id
    /\ a.op = IF client.dir = "up" THEN "ACK" ELSE "DATA"
    /\ a.block <= m_curBlock
    /\ client.dir = "up" => a.block <= client.block /\ ~a.last
    /\ client.dir = "down" =>
         /\ a.block \in 1 .. BlockCount /\ a.what = BlockAt(a.block)
         /\ a.last <=> a.block = BlockCount

ToClientOK == \A a \in Answers : OnWay(toClient, a) => AnswerOK(a)

CardOK ==
  /\ \E id \in Nat \ {0} : Holds(card, id, Len(card))
  /\ ending = "short" => card # <<>>

ServerOK ==
  /\ m_remotePort <= client.id
  /\ m_timeout => m_theFile # "closed" /\ m_remotePort > 0
  /\ m_timeout /\ m_theFile = "write" => Holds(card, m_remotePort, m_curBlock)
  /\ m_timeout /\ m_theFile = "read" => position = m_curBlock /\ m_curBlock < BlockCount
  /\ m_remotePort = client.id /\ client.dir = "up" =>
       /\ m_curBlock <= client.length
       /\ m_curBlock > 0 => Holds(card, client.id, m_curBlock)
  /\ m_remotePort = client.id /\ client.id > 0 /\ client.block = 0 =>
       m_curBlock = IF client.dir = "up" THEN 0 ELSE 1
  /\ m_remotePort = client.id /\ m_timeout => (client.dir = "up" <=> m_theFile = "write")

ClientOK ==
  /\ client.status # "idle" => client.id > 0
  /\ client.status = "idle" => client.block = 0
  /\ client.block > 0 => m_remotePort = client.id
  /\ client.dir = "up" =>
       /\ client.block <= client.length
       /\ client.block > 0 => client.block <= m_curBlock + 1
       /\ client.status = "done" => m_curBlock = client.length /\ client.block > 0
  /\ client.dir = "down" =>
       /\ client.block <= BlockCount \/ client.block = 0
       /\ client.block <= m_curBlock \/ client.block = 0
       /\ Len(client.got) = IF client.block <= Len(card) THEN client.block ELSE Len(card)
       /\ \A i \in 1 .. Len(client.got) : client.got[i] = card[i]
       /\ client.status = "done" => client.block = BlockCount /\ client.block > 0

TftpInv == TftpTypes /\ ToServerOK /\ ToClientOK /\ CardOK /\ ServerOK /\ ClientOK

-----------------------------------------------------------------------------
(* A queue in order stays so when its first packet is taken.               *)
LEMMA QueueTail ==
  ASSUME NEW queue \in Seq(Asked), queue # <<>>, InSequence(queue)
  PROVE  /\ Tail(queue) \in Seq(Asked) /\ InSequence(Tail(queue))
         /\ Head(queue) \in Asked /\ OnWay(queue, Head(queue))
         /\ \A n \in Asked : OnWay(Tail(queue), n) => OnWay(queue, n) /\ Earlier(Head(queue), n)
<1>1. /\ Len(queue) \in Nat /\ Len(queue) > 0 /\ Tail(queue) \in Seq(Asked)
      /\ Len(Tail(queue)) = Len(queue) - 1 /\ Head(queue) = queue[1]
      /\ \A i \in 1 .. Len(queue) - 1 : Tail(queue)[i] = queue[i + 1]
  OBVIOUS
<1>2. 1 \in 1 .. Len(queue) /\ queue[1] \in Asked
  BY <1>1
<1>3. \A i \in 1 .. Len(queue) - 1 : i + 1 \in 1 .. Len(queue) /\ 1 < i + 1
  BY <1>1
<1>4. ASSUME NEW n \in Asked, OnWay(Tail(queue), n)
      PROVE  OnWay(queue, n) /\ Earlier(Head(queue), n)
  <2>1. PICK i \in 1 .. Len(queue) - 1 : Tail(queue)[i] = n
    BY <1>1, <1>4 DEF OnWay
  <2>2. queue[i + 1] = n /\ i + 1 \in 1 .. Len(queue) /\ 1 < i + 1
    BY <1>1, <1>3, <2>1
  <2> QED
    BY <1>1, <1>2, <2>2 DEF OnWay, InSequence
<1>5. InSequence(Tail(queue))
  <2> SUFFICES ASSUME NEW i \in 1 .. Len(queue) - 1, NEW j \in 1 .. Len(queue) - 1, i < j
               PROVE  Earlier(Tail(queue)[i], Tail(queue)[j])
    BY <1>1 DEF InSequence
  <2>1. /\ i + 1 \in 1 .. Len(queue) /\ j + 1 \in 1 .. Len(queue) /\ i + 1 < j + 1
        /\ Tail(queue)[i] = queue[i + 1] /\ Tail(queue)[j] = queue[j + 1]
    BY <1>1, <1>3
  <2> QED
    BY <2>1 DEF InSequence
<1> QED
  BY <1>1, <1>2, <1>4, <1>5 DEF OnWay

(* ... and when a later one is put behind it.                              *)
LEMMA QueueAppend ==
  ASSUME NEW queue \in Seq(Asked), InSequence(queue), NEW r \in Asked,
         \A n \in Asked : OnWay(queue, n) => Earlier(n, r)
  PROVE  /\ Append(queue, r) \in Seq(Asked) /\ InSequence(Append(queue, r))
         /\ \A n \in Asked : OnWay(Append(queue, r), n) => OnWay(queue, n) \/ n = r
<1> DEFINE long == Append(queue, r)
<1>1. /\ Len(queue) \in Nat /\ long \in Seq(Asked) /\ Len(long) = Len(queue) + 1
      /\ \A i \in 1 .. Len(queue) : long[i] = queue[i] /\ queue[i] \in Asked
      /\ long[Len(queue) + 1] = r
  OBVIOUS
<1>2. \A i \in 1 .. Len(long) : i \in 1 .. Len(queue) \/ i = Len(queue) + 1
  BY <1>1
<1> HIDE DEF long
<1>3. \A n \in Asked : OnWay(long, n) => OnWay(queue, n) \/ n = r
  BY <1>1, <1>2 DEF OnWay
<1>4. InSequence(long)
  <2> SUFFICES ASSUME NEW i \in 1 .. Len(long), NEW j \in 1 .. Len(long), i < j
               PROVE  Earlier(long[i], long[j])
    BY DEF InSequence
  <2>1. i \in 1 .. Len(queue) /\ OnWay(queue, queue[i]) /\ long[i] = queue[i]
        /\ queue[i] \in Asked
    <3>1. i \in 1 .. Len(queue)
      BY <1>1, <1>2
    <3> QED
      BY <1>1, <3>1 DEF OnWay
  <2>2. CASE j \in 1 .. Len(queue)
    BY <1>1, <2>1, <2>2 DEF InSequence
  <2>3. CASE j = Len(queue) + 1
    BY <1>1, <2>1, <2>3
  <2> QED
    BY <1>2, <2>2, <2>3
<1> QED
  BY <1>1, <1>3, <1>4 DEF long

(* An answer reaches the client it is for, behind the others, or nobody.   *)
LEMMA AnswersGrow ==
  ASSUME TftpTypes, NEW a \in Answers, NEW port, Reply(port, a)
  PROVE  /\ toClient' \in Seq(Answers)
         /\ \A r \in Answers : OnWay(toClient', r) =>
              OnWay(toClient, r) \/ (r = a /\ port = client.id)
<1>1. CASE toClient' = toClient
  BY <1>1 DEF TftpTypes
<1>2. CASE toClient' = Append(toClient, a) /\ port = client.id
  <2>1. /\ toClient \in Seq(Answers) /\ Len(toClient) \in Nat
        /\ toClient' \in Seq(Answers) /\ Len(toClient') = Len(toClient) + 1
        /\ \A i \in 1 .. Len(toClient) : toClient'[i] = toClient[i]
        /\ toClient'[Len(toClient) + 1] = a
    BY <1>2 DEF TftpTypes
  <2>2. \A i \in 1 .. Len(toClient') : i \in 1 .. Len(toClient) \/ i = Len(toClient) + 1
    BY <2>1
  <2> QED
    BY <1>2, <2>1, <2>2 DEF OnWay
<1> QED
  BY <1>1, <1>2 DEF Reply

(* The number that the server reads is never larger than the block's.      *)
LEMMA BlocknumBelow ==
  ASSUME NEW n \in Nat
  PROVE  blocknum(n) \in Int /\ blocknum(n) <= n
<1> DEFINE d == n \div CHAR
           hi == d % CHAR
           lo == n % CHAR
<1>1. /\ CHAR \in Nat /\ CHAR > 0
  BY TftpAssumption
<1>2. d \in Nat /\ hi \in Nat /\ lo \in Nat /\ n = CHAR * d + lo
  BY <1>1
<1>3. hi <= d
  BY <1>1
<1>4. \A x \in Nat : Signed(x) \in Int /\ Signed(x) <= x
  <2> TAKE x \in Nat
  <2>1. Signed(x) \in {x, x - CHAR}
    BY DEF Signed
  <2> QED
    BY <1>1, <2>1
<1> DEFINE a == Signed(hi)
           b == Signed(lo)
<1>5. a \in Int /\ b \in Int /\ a <= hi /\ b <= lo
  BY <1>2, <1>4
<1>6. blocknum(n) = a * CHAR + b
  BY DEF blocknum
<1> HIDE DEF d, hi, lo, a, b
<1>7. a * CHAR <= d * CHAR /\ a * CHAR \in Int /\ d * CHAR = CHAR * d /\ d * CHAR \in Int
  BY <1>1, <1>2, <1>3, <1>5
<1> QED
  BY <1>2, <1>5, <1>6, <1>7

-----------------------------------------------------------------------------
(* What the server takes for the last block is the last one.               *)
LEMMA LastIs ==
  ASSUME TftpInv, NEW pos \in Nat, pos < BlockCount
  PROVE  /\ IsLast(card, "read", pos) <=> pos + 1 >= BlockCount
         /\ BlockCount \in Nat \ {0} /\ pos + 1 \in 1 .. BlockCount
         /\ BlockAt(pos + 1) \in FileBlocks
         /\ BlockAt(pos + 1) = IF pos < Len(card) THEN card[pos + 1] ELSE <<0, 0>>
<1>1. card \in Seq(FileBlocks) /\ Len(card) \in Nat /\ <<0, 0>> \in FileBlocks
  BY DEF TftpInv, TftpTypes, FileBlocks
<1>2. BlockCount \in Nat
  BY <1>1 DEF BlockCount
<1>3. IsLast(card, "read", pos) <=> pos + 1 >= BlockCount
  BY <1>1 DEF BlockCount, IsLast
<1>4. pos < Len(card) => card[pos + 1] \in FileBlocks
  BY <1>1
<1>5. BlockAt(pos + 1) = IF pos < Len(card) THEN card[pos + 1] ELSE <<0, 0>>
  BY <1>1 DEF BlockAt
<1> QED
  BY <1>1, <1>2, <1>3, <1>4, <1>5

(* There is always a first block to send.                                  *)
LEMMA SomePart ==
  ASSUME TftpInv
  PROVE  0 < BlockCount
<1>1. card \in Seq(FileBlocks) /\ (ending = "short" => card # <<>>)
  BY DEF TftpInv, TftpTypes, CardOK
<1>2. Len(card) \in Nat /\ (card # <<>> => Len(card) > 0)
  BY <1>1
<1> QED
  BY <1>1, <1>2 DEF BlockCount

(* Nothing new: a packet is ignored or refused, or the line times out.     *)
LEMMA LineDrops ==
  ASSUME TftpInv, TftpTypes', client' = client, m_remotePort' = m_remotePort,
         m_curBlock' = m_curBlock, card' = card, ending' = ending,
         m_timeout' => m_timeout /\ m_theFile' = m_theFile /\ position' = position,
         InSequence(toServer'), \A n \in Asked : OnWay(toServer', n) => OnWay(toServer, n),
         \A a \in Answers : OnWay(toClient', a) => OnWay(toClient, a) \/ a.op = "ERR"
  PROVE  TftpInv'
<1>1. ToServerOK'
  <2>1. \A n \in Asked : AskedOK(n) => AskedOK(n)'
    BY DEF AskedOK
  <2> QED
    BY <2>1 DEF TftpInv, ToServerOK
<1>2. ToClientOK'
  <2>1. \A a \in Answers : AnswerOK(a) \/ a.op = "ERR" => AnswerOK(a)'
    BY DEF AnswerOK, BlockCount, BlockAt
  <2> QED
    BY <2>1 DEF TftpInv, ToClientOK
<1>3. CardOK' /\ ClientOK'
  BY DEF TftpInv, CardOK, ClientOK, BlockCount
<1>4. ServerOK'
  BY DEF TftpInv, ServerOK, BlockCount
<1> QED
  BY <1>1, <1>2, <1>3, <1>4 DEF TftpInv

(* A client that has not heard from the server has nothing.                *)
LEMMA NothingGot ==
  ASSUME TftpInv, client.block = 0, client.dir = "down"
  PROVE  client.got = <<>> /\ client.status # "done"
<1>1. client.got \in Seq(FileBlocks) /\ Len(card) \in Nat
  BY DEF TftpInv, TftpTypes, Clients
<1>2. Len(client.got) = 0 /\ client.status # "done"
  BY <1>1 DEF TftpInv, ClientOK
<1> QED
  BY <1>1, <1>2

(* A request for a free line: it is refused, or the first block goes out,  *)
(* or an empty file is ready for the first block.                          *)
LEMMA LineOpens ==
  ASSUME TftpInv, TftpTypes', NEW p \in Asked, OnWay(toServer, p), Opens(p),
         ~m_timeout, client' = client, m_remotePort' = p.port,
         m_curBlock' = IF Uploads(p) THEN 0 ELSE 1,
         \/ card' = card /\ ending' = ending
         \/ Uploads(p) /\ card' = <<>> /\ ending' = "full",
         m_timeout' /\ Uploads(p) => m_theFile' = "write" /\ card' = <<>>,
         m_timeout' /\ ~Uploads(p) => m_theFile' = "read" /\ position' = 1 /\ 1 < BlockCount,
         InSequence(toServer'),
         \A n \in Asked : OnWay(toServer', n) => OnWay(toServer, n) /\ Earlier(p, n),
         \A a \in Answers : OnWay(toClient', a) =>
           \/ OnWay(toClient, a) \/ a.op = "ERR"
           \/ p.port = client.id /\ Uploads(p) /\ a.op = "ACK" /\ a.block = 0 /\ ~a.last
           \/ /\ p.port = client.id /\ ~Uploads(p) /\ a.op = "DATA" /\ a.block = 1
              /\ a.what = BlockAt(1) /\ (a.last <=> 1 >= BlockCount)
  PROVE  TftpInv'
<1>0. /\ p.port \in Nat \ {0} /\ client.id \in Nat /\ client.block \in Nat /\ m_curBlock \in Nat
      /\ m_remotePort \in Nat /\ m_curBlock' \in Nat /\ client.length \in Nat \ {0}
      /\ client.dir \in {"up", "down"} /\ card \in Seq(FileBlocks) /\ Len(card) \in Nat
      /\ (card = <<>> <=> Len(card) = 0)
  BY DEF TftpInv, TftpTypes, Asked, Clients
<1>1. /\ AskedOK(p) /\ p.block = 0 /\ m_remotePort <= p.port /\ p.port <= client.id
      /\ p.port = m_remotePort => m_curBlock' = m_curBlock
      /\ p.port = client.id => (Uploads(p) <=> client.dir = "up")
  BY DEF TftpInv, ToServerOK, AskedOK
(* To a client that has heard from the server nothing is new.              *)
<1>2. ASSUME m_remotePort = client.id
      PROVE  /\ p.port = client.id /\ m_remotePort' = client.id /\ m_curBlock' = m_curBlock
             /\ client.dir = "down" => card' = card /\ ending' = ending
  BY <1>0, <1>1, <1>2
<1>3. ToServerOK'
  <2> SUFFICES ASSUME NEW n \in Asked, OnWay(toServer, n), Earlier(p, n)
               PROVE  AskedOK(n)'
    BY DEF ToServerOK
  <2>1. AskedOK(n) /\ n.port \in Nat /\ n.block \in Nat
    BY DEF TftpInv, ToServerOK, Asked
  <2>2. /\ Opens(n) <=> n.block = 0
        /\ n.op = "DATA" => n.what = <<n.port, n.block>>
        /\ p.port <= n.port /\ n.port <= client.id
    BY <1>0, <2>1 DEF AskedOK, Earlier
  <2>3. n.block > 0 => /\ n.port = m_remotePort /\ p.port = n.port
                       /\ m_curBlock' = m_curBlock
                       /\ n.block <= m_curBlock + (IF Uploads(n) THEN 1 ELSE 0)
    BY <1>0, <1>1, <2>1, <2>2 DEF AskedOK
  <2>4. n.port = p.port => (Uploads(n) <=> Uploads(p))
    BY <1>0, <2>1 DEF Earlier
  <2>5. n.port = client.id =>
          /\ Uploads(n) <=> client.dir = "up"
          /\ n.block <= client.block
          /\ Uploads(n) => n.block <= client.length
    BY <2>1 DEF AskedOK
  <2> QED
    BY <2>2, <2>3, <2>4, <2>5 DEF AskedOK
<1>4. ToClientOK'
  <2> SUFFICES ASSUME NEW a \in Answers, OnWay(toClient', a), a.op # "ERR"
               PROVE  AnswerOK(a)'
    BY DEF ToClientOK, AnswerOK
  <2>1. CASE OnWay(toClient, a)
    <3>1. AnswerOK(a)
      BY <2>1 DEF TftpInv, ToClientOK
    <3> QED
      BY <1>2, <3>1 DEF AnswerOK, BlockCount, BlockAt
  <2>2. CASE p.port = client.id /\ Uploads(p) /\ a.op = "ACK" /\ a.block = 0 /\ ~a.last
    BY <1>0, <1>1, <2>2 DEF AnswerOK
  <2>3. CASE /\ p.port = client.id /\ ~Uploads(p) /\ a.op = "DATA" /\ a.block = 1
             /\ a.what = BlockAt(1) /\ (a.last <=> 1 >= BlockCount)
    <3>1. BlockCount \in Nat /\ BlockCount > 0
      BY <1>0, SomePart DEF BlockCount
    <3>2. 1 \in 1 .. BlockCount /\ (1 >= BlockCount <=> 1 = BlockCount)
      BY <3>1
    <3>3. BlockCount' = BlockCount /\ BlockAt(1)' = BlockAt(1)
      BY <2>3 DEF BlockCount, BlockAt
    <3> QED
      BY <1>0, <1>1, <2>3, <3>2, <3>3 DEF AnswerOK
  <2> QED
    BY <2>1, <2>2, <2>3
<1>5. CardOK'
  <2>1. CASE card' = card /\ ending' = ending
    BY <2>1 DEF TftpInv, CardOK
  <2>2. CASE card' = <<>> /\ ending' = "full"
    <3>1. Len(card') = 0 /\ 1 \in Nat \ {0}
      BY <2>2
    <3>2. \E id \in Nat \ {0} : Holds(card', id, Len(card'))
      BY <3>1 DEF Holds
    <3> QED
      BY <2>2, <3>2 DEF CardOK
  <2> QED
    BY <2>1, <2>2
<1>6. ServerOK'
  <2>1. m_timeout' => m_theFile' # "closed" /\ m_remotePort' > 0
    BY <1>0
  <2>2. m_timeout' /\ m_theFile' = "write" => Holds(card', m_remotePort', m_curBlock')
    <3> SUFFICES ASSUME m_timeout', m_theFile' = "write"
                 PROVE  Holds(card', m_remotePort', m_curBlock')
      OBVIOUS
    <3>1. card' = <<>> /\ m_curBlock' = 0
      OBVIOUS
    <3>2. Len(card') = 0
      BY <3>1
    <3> QED
      BY <3>1, <3>2 DEF Holds
  <2>3. m_timeout' /\ m_theFile' = "read" => position' = m_curBlock' /\ m_curBlock' < BlockCount'
    BY DEF BlockCount
  <2>4. m_remotePort' = client.id /\ client.dir = "up" => m_curBlock' = 0
    BY <1>1
  <2>5. m_remotePort' = client.id => m_curBlock' = IF client.dir = "up" THEN 0 ELSE 1
    BY <1>1
  <2>6. m_remotePort' = client.id /\ m_timeout' => (client.dir = "up" <=> m_theFile' = "write")
    BY <1>1
  <2> QED
    BY <1>0, <1>1, <2>1, <2>2, <2>3, <2>4, <2>5, <2>6 DEF ServerOK
<1>7. ClientOK'
  <2>1. CASE m_remotePort = client.id
    BY <1>2, <2>1 DEF TftpInv, ClientOK, BlockCount
  <2>2. CASE m_remotePort # client.id
    <3>1. client.block = 0
      BY <1>0, <2>2 DEF TftpInv, ClientOK
    <3>2. client.dir = "down" => client.got = <<>> /\ client.status # "done"
      BY <1>0, <3>1, NothingGot
    <3>3. Len(<<>>) = 0 /\ Len(card') \in Nat
      BY DEF TftpTypes
    <3> QED
      BY <1>0, <3>1, <3>2, <3>3 DEF TftpInv, ClientOK
  <2> QED
    BY <2>1, <2>2
<1> QED
  BY <1>3, <1>4, <1>5, <1>6, <1>7 DEF TftpInv

(* A block that is written, or the acknowledgement of one that was read,   *)
(* is answered: the packet was the next one, and its client's latest.      *)
LEMMA BlockPasses ==
  ASSUME TftpInv, TftpTypes', NEW p \in Asked, OnWay(toServer, p), p.block > 0,
         m_timeout, client' = client, m_remotePort' = m_remotePort,
         m_curBlock' = m_curBlock + 1,
         p.block = m_curBlock + (IF Uploads(p) THEN 1 ELSE 0),
         m_timeout' => m_theFile' = m_theFile,
         Uploads(p) => card' = Append(card, <<m_remotePort, m_curBlock + 1>>),
         ~Uploads(p) => card' = card /\ ending' = ending,
         m_timeout' /\ ~Uploads(p) =>
           position' = m_curBlock + 1 /\ m_curBlock + 1 < BlockCount,
         InSequence(toServer'),
         \A n \in Asked : OnWay(toServer', n) => OnWay(toServer, n) /\ Earlier(p, n),
         \A a \in Answers : OnWay(toClient', a) =>
           \/ OnWay(toClient, a)
           \/ m_remotePort = client.id /\ Uploads(p) /\ a.op = "ACK" /\ a.block = p.block /\ ~a.last
           \/ /\ m_remotePort = client.id /\ ~Uploads(p) /\ a.op = "DATA"
              /\ a.block = m_curBlock + 1 /\ m_curBlock < BlockCount /\ a.what = BlockAt(a.block)
              /\ (a.last <=> m_curBlock + 1 >= BlockCount)
  PROVE  TftpInv'
<1>0. /\ p.port \in Nat \ {0} /\ client.id \in Nat /\ client.block \in Nat /\ m_curBlock \in Nat
      /\ m_remotePort \in Nat /\ m_curBlock' \in Nat /\ client.length \in Nat \ {0}
      /\ client.dir \in {"up", "down"} /\ card \in Seq(FileBlocks) /\ Len(card) \in Nat
      /\ p.block \in Nat /\ p.block > 0 /\ m_curBlock' = m_curBlock + 1
  BY DEF TftpInv, TftpTypes, Asked, Clients
<1>1. /\ p.port = m_remotePort /\ m_remotePort > 0 /\ ~Opens(p)
      /\ Uploads(p) <=> m_theFile = "write"
      /\ p.port = client.id =>
           /\ Uploads(p) <=> client.dir = "up"
           /\ p.block <= client.block
           /\ Uploads(p) => p.block <= client.length
  BY <1>0 DEF TftpInv, ToServerOK, AskedOK
<1>2. m_remotePort # client.id => client.block = 0
  BY <1>0 DEF TftpInv, ClientOK
(* The card with one more block.                                           *)
<1>3. Uploads(p) => Holds(card', m_remotePort, m_curBlock + 1)
  <2> SUFFICES ASSUME Uploads(p) PROVE Holds(card', m_remotePort, m_curBlock + 1)
    OBVIOUS
  <2>1. Holds(card, m_remotePort, m_curBlock)
    BY <1>1 DEF TftpInv, ServerOK
  <2>2. /\ Len(card') = Len(card) + 1 /\ card'[Len(card) + 1] = <<m_remotePort, m_curBlock + 1>>
        /\ \A i \in 1 .. Len(card) : card'[i] = card[i]
    BY <1>0
  <2>3. Len(card) = m_curBlock /\ \A i \in 1 .. m_curBlock : card[i] = <<m_remotePort, i>>
    BY <2>1 DEF Holds
  <2>4. \A i \in 1 .. m_curBlock + 1 : i \in 1 .. m_curBlock \/ i = m_curBlock + 1
    BY <1>0
  <2> QED
    BY <1>0, <2>2, <2>3, <2>4 DEF Holds
<1>4. ToServerOK'
  <2> SUFFICES ASSUME NEW n \in Asked, OnWay(toServer, n), Earlier(p, n)
               PROVE  AskedOK(n)'
    BY DEF ToServerOK
  <2>1. AskedOK(n) /\ n.port \in Nat /\ n.block \in Nat
    BY DEF TftpInv, ToServerOK, Asked
  <2>2. /\ Opens(n) <=> n.block = 0
        /\ n.op = "DATA" => n.what = <<n.port, n.block>>
        /\ m_remotePort <= n.port /\ n.port <= client.id
        /\ n.block > 0 => n.port = m_remotePort
    BY <2>1 DEF AskedOK
  <2>3. n.block > 0 => n.block <= m_curBlock' + (IF Uploads(n) THEN 1 ELSE 0)
    BY <1>0, <2>1 DEF AskedOK
  <2>4. Opens(n) => n.port # m_remotePort
    BY <1>0, <1>1, <2>1, <2>2 DEF Earlier
  <2>5. m_timeout' /\ n.port = m_remotePort => (Uploads(n) <=> m_theFile' = "write")
    BY <1>0, <1>1, <2>1 DEF Earlier
  <2>6. n.port = client.id =>
          /\ Uploads(n) <=> client.dir = "up"
          /\ n.block <= client.block
          /\ Uploads(n) => n.block <= client.length
    BY <2>1 DEF AskedOK
  <2> QED
    BY <2>2, <2>3, <2>4, <2>5, <2>6 DEF AskedOK
<1>5. ToClientOK'
  <2> SUFFICES ASSUME NEW a \in Answers, OnWay(toClient', a), a.op # "ERR"
               PROVE  AnswerOK(a)'
    BY DEF ToClientOK, AnswerOK
  <2>0. a.block \in Nat
    BY DEF Answers
  <2>1. CASE OnWay(toClient, a)
    <3>1. AnswerOK(a)
      BY <2>1 DEF TftpInv, ToClientOK
    <3>2. m_remotePort = client.id /\ a.block <= m_curBlock + 1
      BY <1>0, <2>0, <3>1 DEF AnswerOK
    <3>3. client.dir = "down" => card' = card /\ ending' = ending
      BY <1>1, <3>2
    <3> QED
      BY <1>0, <3>1, <3>2, <3>3 DEF AnswerOK, BlockCount, BlockAt
  <2>2. CASE m_remotePort = client.id /\ Uploads(p) /\ a.op = "ACK" /\ a.block = p.block /\ ~a.last
    BY <1>0, <1>1, <2>2 DEF AnswerOK
  <2>3. CASE /\ m_remotePort = client.id /\ ~Uploads(p) /\ a.op = "DATA"
             /\ a.block = m_curBlock + 1 /\ m_curBlock < BlockCount /\ a.what = BlockAt(a.block)
             /\ (a.last <=> m_curBlock + 1 >= BlockCount)
    <3>0. BlockCount \in Nat
      BY <1>0 DEF BlockCount
    <3>1. a.block \in 1 .. BlockCount /\ (m_curBlock + 1 >= BlockCount <=> a.block = BlockCount)
      BY <1>0, <2>3, <3>0
    <3>2. a.block <= m_curBlock' /\ client.dir = "down"
      BY <1>0, <1>1, <2>3
    <3>3. BlockCount' = BlockCount /\ \A n : BlockAt(n)' = BlockAt(n)
      BY <2>3 DEF BlockCount, BlockAt
    <3> QED
      BY <2>3, <3>1, <3>2, <3>3 DEF AnswerOK
  <2> QED
    BY <2>1, <2>2, <2>3
<1>6. CardOK'
  <2>1. CASE ~Uploads(p)
    BY <2>1 DEF TftpInv, CardOK
  <2>2. CASE Uploads(p)
    <3>1. m_remotePort \in Nat \ {0} /\ Holds(card', m_remotePort, Len(card'))
      BY <1>0, <1>1, <1>3, <2>2 DEF Holds
    <3>2. Len(card') = m_curBlock + 1
      BY <1>3, <2>2 DEF Holds
    <3>3. card' # <<>>
      BY <1>0, <3>2
    <3> QED
      BY <3>1, <3>3 DEF CardOK
  <2> QED
    BY <2>1, <2>2
<1>7. ServerOK'
  <2>1. m_timeout' => m_theFile' # "closed" /\ m_remotePort' > 0
    BY <1>0, <1>1 DEF TftpInv, ServerOK
  <2>2. m_timeout' /\ m_theFile' = "write" => Holds(card', m_remotePort', m_curBlock')
    BY <1>0, <1>1, <1>3
  <2>3. m_timeout' /\ m_theFile' = "read" => position' = m_curBlock' /\ m_curBlock' < BlockCount'
    BY <1>0, <1>1 DEF BlockCount
  <2>4. m_remotePort = client.id /\ client.dir = "up" =>
          m_curBlock' <= client.length /\ Holds(card', client.id, m_curBlock')
    BY <1>0, <1>1, <1>3
  <2>5. m_remotePort = client.id /\ client.block = 0 => Uploads(p) = FALSE /\ p.block = 0
    BY <1>0, <1>1
  <2>6. m_remotePort = client.id /\ m_timeout' => (client.dir = "up" <=> m_theFile' = "write")
    BY <1>1
  <2>7. m_remotePort' <= client.id
    BY DEF TftpInv, ServerOK
  <2> QED
    BY <1>0, <2>1, <2>2, <2>3, <2>4, <2>5, <2>6, <2>7 DEF ServerOK
<1>8. ClientOK'
  <2>1. CASE m_remotePort # client.id
    <3>1. client.block = 0
      BY <1>2, <2>1
    <3>2. client.dir = "down" => client.got = <<>> /\ client.status # "done"
      BY <1>0, <3>1, NothingGot
    <3>3. Len(<<>>) = 0 /\ Len(card') \in Nat
      BY DEF TftpTypes
    <3> QED
      BY <1>0, <2>1, <3>1, <3>2, <3>3 DEF TftpInv, ClientOK
  <2>2. CASE m_remotePort = client.id /\ Uploads(p)
    <3>1. client.dir = "up" /\ client.status # "done"
      BY <1>0, <1>1, <2>2 DEF TftpInv, ClientOK
    <3> QED
      BY <1>0, <2>2, <3>1 DEF TftpInv, ClientOK
  <2>3. CASE m_remotePort = client.id /\ ~Uploads(p)
    <3>1. client.dir = "down" /\ card' = card /\ BlockCount' = BlockCount
      BY <1>0, <1>1, <2>3 DEF BlockCount
    <3> QED
      BY <1>0, <2>3, <3>1 DEF TftpInv, ClientOK
  <2> QED
    BY <2>1, <2>2, <2>3
<1> QED
  BY <1>4, <1>5, <1>6, <1>7, <1>8 DEF TftpInv

-----------------------------------------------------------------------------
(* What the server answers with.                                           *)
LEMMA ServerAnswers ==
  /\ [op |-> "ERR", block |-> 0, last |-> TRUE, what |-> <<0, 0>>] \in Answers
  /\ \A n \in Nat :
       /\ [op |-> "ACK", block |-> n, last |-> FALSE, what |-> <<0, 0>>] \in Answers
       /\ \A last \in BOOLEAN, what \in FileBlocks :
            [op |-> "DATA", block |-> n, last |-> last, what |-> what] \in Answers
BY DEF Answers, FileBlocks

(* A packet for the server, whatever it is, leaves the invariant.          *)
LEMMA PollInv ==
  ASSUME TftpInv, Poll
  PROVE  TftpInv'
<1> DEFINE p == Head(toServer)
           err == [op |-> "ERR", block |-> 0, last |-> TRUE, what |-> <<0, 0>>]
<1>1. /\ toServer \in Seq(Asked) /\ toServer # <<>> /\ InSequence(toServer)
      /\ toServer' = Tail(toServer) /\ client' = client
      /\ \/ p.op = "RRQ" /\ ReadRequest(p)
         \/ p.op = "WRQ" /\ WriteRequest(p)
         \/ p.op = "DATA" /\ DataPacket(p)
         \/ p.op = "ACK" /\ Acknowledged(p)
  BY DEF TftpInv, TftpTypes, ToServerOK, Poll
<1>2. /\ toServer' \in Seq(Asked) /\ InSequence(toServer') /\ p \in Asked /\ OnWay(toServer, p)
      /\ \A n \in Asked : OnWay(toServer', n) => OnWay(toServer, n) /\ Earlier(p, n)
  BY <1>1, QueueTail
<1> HIDE DEF p
<1>3. /\ client' \in Clients /\ m_remotePort \in Nat /\ m_curBlock \in Nat /\ position \in Nat
      /\ card \in Seq(FileBlocks) /\ Len(card) \in Nat /\ m_timeout \in BOOLEAN
      /\ m_theFile \in {"closed", "read", "write"} /\ toClient \in Seq(Answers)
      /\ p.port \in Nat \ {0} /\ p.block \in Nat /\ p.last \in BOOLEAN /\ p.what \in FileBlocks
      /\ <<0, 0>> \in FileBlocks /\ ending \in {"none", "full", "short"}
  BY <1>1, <1>2 DEF TftpInv, TftpTypes, Asked, FileBlocks
<1>4. AskedOK(p)
  BY <1>2 DEF TftpInv, ToServerOK
<1>5. err \in Answers /\ err.op = "ERR"
  BY ServerAnswers
<1>6. CASE UNCHANGED <<serverVars, toClient>>
  <2>1. UNCHANGED <<m_timeout, m_remotePort, m_curBlock, m_theFile, position, card, ending,
                    toClient>>
    BY <1>6 DEF serverVars
  <2>2. TftpTypes'
    BY <1>2, <1>3, <2>1 DEF TftpTypes
  <2> QED
    BY <1>1, <1>2, <2>1, <2>2, LineDrops
<1>7. CASE /\ SendERR(m_remotePort)
           /\ UNCHANGED <<m_remotePort, m_curBlock, m_theFile, position, card, ending>>
  <2>1. m_timeout' = FALSE /\ Reply(m_remotePort, err)
    BY <1>7 DEF SendERR
  <2>2. /\ toClient' \in Seq(Answers)
        /\ \A r \in Answers : OnWay(toClient', r) => OnWay(toClient, r) \/ r = err
    BY <1>5, <2>1, AnswersGrow DEF TftpInv
  <2>3. TftpTypes'
    BY <1>2, <1>3, <1>7, <2>1, <2>2 DEF TftpTypes
  <2>4. \A r \in Answers : OnWay(toClient', r) => OnWay(toClient, r) \/ r.op = "ERR"
    BY <1>5, <2>2
  <2> HIDE DEF err
  <2> QED
    BY <1>1, <1>2, <1>7, <2>1, <2>3, <2>4, LineDrops
<1>8. CASE p.op = "RRQ" /\ ReadRequest(p) /\ ~m_timeout
  <2>0. Opens(p) /\ ~Uploads(p)
    BY <1>8 DEF Opens, Uploads
  <2>1. /\ m_remotePort' = p.port /\ m_curBlock' = 1 /\ card' = card /\ ending' = ending
        /\ IF m_theFile = "closed" /\ ending # "none"
           THEN SendBlock(p.port, 1, card, "read", 0)
           ELSE SendERR(p.port) /\ UNCHANGED <<m_theFile, position>>
    BY <1>8 DEF ReadRequest
  <2>2. CASE ~(m_theFile = "closed" /\ ending # "none")
    <3>1. /\ m_timeout' = FALSE /\ Reply(p.port, err) /\ UNCHANGED <<m_theFile, position>>
      BY <2>1, <2>2 DEF SendERR
    <3>2. /\ toClient' \in Seq(Answers)
          /\ \A r \in Answers : OnWay(toClient', r) => OnWay(toClient, r) \/ r.op = "ERR"
      BY <1>5, <3>1, AnswersGrow DEF TftpInv
    <3>3. TftpTypes'
      BY <1>2, <1>3, <2>1, <3>1, <3>2 DEF TftpTypes
    <3> HIDE DEF err
    <3> QED
      BY <1>1, <1>2, <1>8, <2>0, <2>1, <3>1, <3>2, <3>3, LineOpens
  <2>3. CASE m_theFile = "closed" /\ ending # "none"
    <3> DEFINE last == 1 >= BlockCount
               data == [op |-> "DATA", block |-> 1, last |-> last, what |-> BlockAt(1)]
    <3>0. SendBlock(p.port, 1, card, "read", 0)
      BY <2>1, <2>3
    <3>1. /\ IsLast(card, "read", 0) <=> last
          /\ BlockAt(1) \in FileBlocks /\ last \in BOOLEAN /\ BlockCount \in Nat
          /\ BlockAt(1) = IF 0 < Len(card) THEN card[1] ELSE <<0, 0>>
      <4>1. 0 \in Nat /\ 0 < BlockCount /\ 0 + 1 = 1
        BY SomePart
      <4>2. /\ IsLast(card, "read", 0) <=> 1 >= BlockCount
            /\ BlockCount \in Nat \ {0} /\ BlockAt(1) \in FileBlocks
            /\ BlockAt(1) = IF 0 < Len(card) THEN card[0 + 1] ELSE <<0, 0>>
        BY <4>1, LastIs
      <4> QED
        BY <4>1, <4>2
    <3>2. /\ Reply(p.port, data) /\ m_timeout' = ~last
          /\ m_theFile' = (IF last THEN "closed" ELSE "read") /\ position' = 1
      <4>1. /\ Reply(p.port, [op |-> "DATA", block |-> 1, last |-> IsLast(card, "read", 0),
                               what |-> IF 0 < Len(card) THEN card[0 + 1] ELSE <<0, 0>>])
            /\ m_timeout' = ~IsLast(card, "read", 0)
            /\ m_theFile' = (IF IsLast(card, "read", 0) THEN "closed" ELSE "read")
            /\ position' = 0 + 1
        BY <3>0 DEF SendBlock
      <4>2. IsLast(card, "read", 0) = last
        BY <3>1 DEF IsLast
      <4>3. 0 + 1 = 1
        OBVIOUS
      <4> HIDE DEF last
      <4> QED
        BY <3>1, <4>1, <4>2, <4>3
    <3>3. /\ data \in Answers /\ data.op = "DATA" /\ data.block = 1 /\ data.what = BlockAt(1)
          /\ (data.last <=> 1 >= BlockCount)
      BY <3>1, ServerAnswers
    <3> HIDE DEF data
    <3>4. /\ toClient' \in Seq(Answers)
          /\ \A r \in Answers : OnWay(toClient', r) =>
               OnWay(toClient, r) \/ (r = data /\ p.port = client.id)
      BY <3>2, <3>3, AnswersGrow DEF TftpInv
    <3>5. TftpTypes'
      BY <1>2, <1>3, <2>1, <3>1, <3>2, <3>4 DEF TftpTypes
    <3>6. \A r \in Answers : OnWay(toClient', r) =>
            \/ OnWay(toClient, r) \/ r.op = "ERR"
            \/ /\ p.port = client.id /\ ~Uploads(p) /\ r.op = "DATA" /\ r.block = 1
               /\ r.what = BlockAt(1) /\ (r.last <=> 1 >= BlockCount)
      BY <2>0, <2>3, <3>3, <3>4
    <3>7. m_timeout' => m_theFile' = "read" /\ position' = 1 /\ 1 < BlockCount
      <4>1. ~last => 1 < BlockCount
        BY <3>1
      <4> HIDE DEF last
      <4> QED
        BY <3>1, <3>2, <4>1
    <3> QED
      BY <1>1, <1>2, <1>8, <2>0, <2>1, <3>5, <3>6, <3>7, LineOpens
  <2> QED
    BY <2>2, <2>3
<1>9. CASE p.op = "WRQ" /\ WriteRequest(p) /\ ~m_timeout
  <2>0. Opens(p) /\ Uploads(p)
    BY <1>9 DEF Opens, Uploads
  <2>1. /\ m_remotePort' = p.port /\ m_curBlock' = 0
        /\ IF m_theFile = "closed"
           THEN /\ m_theFile' = "write" /\ position' = 0
                /\ card' = <<>> /\ ending' = "full"
                /\ m_timeout' = TRUE /\ SendACK(p.port, 0)
           ELSE SendERR(p.port) /\ UNCHANGED <<m_theFile, position, card, ending>>
    BY <1>9 DEF WriteRequest
  <2>2. CASE m_theFile # "closed"
    <3>1. /\ m_timeout' = FALSE /\ Reply(p.port, err)
          /\ UNCHANGED <<m_theFile, position, card, ending>>
      BY <2>1, <2>2 DEF SendERR
    <3>2. /\ toClient' \in Seq(Answers)
          /\ \A r \in Answers : OnWay(toClient', r) => OnWay(toClient, r) \/ r.op = "ERR"
      BY <1>5, <3>1, AnswersGrow DEF TftpInv
    <3>3. TftpTypes'
      BY <1>2, <1>3, <2>1, <3>1, <3>2 DEF TftpTypes
    <3> HIDE DEF err
    <3> QED
      BY <1>1, <1>2, <1>9, <2>0, <2>1, <3>1, <3>2, <3>3, LineOpens
  <2>3. CASE m_theFile = "closed"
    <3> DEFINE ack == [op |-> "ACK", block |-> 0, last |-> FALSE, what |-> <<0, 0>>]
    <3>1. /\ m_theFile' = "write" /\ position' = 0 /\ card' = <<>> /\ ending' = "full"
          /\ m_timeout' = TRUE /\ Reply(p.port, ack)
      BY <2>1, <2>3 DEF SendACK
    <3>2. ack \in Answers /\ ack.op = "ACK" /\ ack.block = 0 /\ ~ack.last
      BY ServerAnswers
    <3> HIDE DEF ack
    <3>3. /\ toClient' \in Seq(Answers)
          /\ \A r \in Answers : OnWay(toClient', r) =>
               OnWay(toClient, r) \/ (r = ack /\ p.port = client.id)
      BY <3>1, <3>2, AnswersGrow DEF TftpInv
    <3>4. TftpTypes'
      BY <1>2, <1>3, <2>1, <3>1, <3>3 DEF TftpTypes
    <3>5. \A r \in Answers : OnWay(toClient', r) =>
            \/ OnWay(toClient, r) \/ r.op = "ERR"
            \/ p.port = client.id /\ Uploads(p) /\ r.op = "ACK" /\ r.block = 0 /\ ~r.last
      BY <2>0, <3>2, <3>3
    <3> QED
      BY <1>1, <1>2, <1>9, <2>0, <2>1, <3>1, <3>4, <3>5, LineOpens
  <2> QED
    BY <2>2, <2>3
<1>10. CASE /\ p.op = "DATA" /\ DataPacket(p) /\ m_timeout
            /\ blocknum(p.block) = m_curBlock + 1
  <2>0. Uploads(p) /\ p.block > 0
    BY <1>3, <1>4, <1>10 DEF Uploads, Opens, AskedOK
  <2>1. p.block = m_curBlock + 1
    <3>1. blocknum(p.block) <= p.block /\ p.block <= m_curBlock + 1
      BY <1>3, <1>4, <2>0, BlocknumBelow DEF AskedOK
    <3> QED
      BY <1>3, <1>10, <3>1
  <2>2. m_theFile = "write" /\ p.port = m_remotePort /\ p.what = <<m_remotePort, m_curBlock + 1>>
    BY <1>3, <1>4, <1>10, <2>0, <2>1 DEF AskedOK
  <2> DEFINE ack == [op |-> "ACK", block |-> p.block, last |-> FALSE, what |-> <<0, 0>>]
  <2>3. /\ m_curBlock' = m_curBlock + 1 /\ Reply(m_remotePort, ack)
        /\ card' = Append(card, <<m_remotePort, m_curBlock + 1>>)
        /\ ending' = (IF p.last THEN "short" ELSE "full")
        /\ m_timeout' = ~p.last /\ m_theFile' = (IF p.last THEN "closed" ELSE m_theFile)
        /\ m_remotePort' = m_remotePort /\ position' = position
    <3>1. /\ m_curBlock' = m_curBlock + 1 /\ SendACK(m_remotePort, m_curBlock + 1)
          /\ IF m_theFile = "write"
             THEN card' = Append(card, p.what) /\ ending' = IF p.last THEN "short" ELSE "full"
             ELSE UNCHANGED <<card, ending>>
          /\ m_timeout' = ~p.last /\ m_theFile' = (IF p.last THEN "closed" ELSE m_theFile)
          /\ m_remotePort' = m_remotePort /\ position' = position
      BY <1>10 DEF DataPacket
    <3> QED
      BY <2>1, <2>2, <3>1 DEF SendACK
  <2>4. ack \in Answers /\ ack.op = "ACK" /\ ack.block = p.block /\ ~ack.last
    BY <1>3, ServerAnswers
  <2> HIDE DEF ack
  <2>5. /\ toClient' \in Seq(Answers)
        /\ \A r \in Answers : OnWay(toClient', r) =>
             OnWay(toClient, r) \/ (r = ack /\ m_remotePort = client.id)
    BY <2>3, <2>4, AnswersGrow DEF TftpInv
  <2>6. /\ card' \in Seq(FileBlocks) /\ m_curBlock' \in Nat /\ m_timeout' \in BOOLEAN
        /\ ending' \in {"none", "full", "short"}
    BY <1>3, <2>2, <2>3
  <2>7. TftpTypes'
    BY <1>2, <1>3, <2>3, <2>5, <2>6 DEF TftpTypes
  <2>8. \A r \in Answers : OnWay(toClient', r) =>
          \/ OnWay(toClient, r)
          \/ m_remotePort = client.id /\ Uploads(p) /\ r.op = "ACK" /\ r.block = p.block /\ ~r.last
    BY <2>0, <2>4, <2>5
  <2>9. m_timeout' => m_theFile' = m_theFile
    BY <2>3
  <2> QED
    BY <1>1, <1>2, <1>10, <2>0, <2>1, <2>3, <2>7, <2>8, <2>9, BlockPasses
<1>11. CASE /\ p.op = "ACK" /\ Acknowledged(p) /\ m_timeout
            /\ blocknum(p.block) = m_curBlock
  <2>0. ~Uploads(p) /\ p.block > 0
    BY <1>3, <1>4, <1>11 DEF Uploads, Opens, AskedOK
  <2>1. p.block = m_curBlock
    <3>1. blocknum(p.block) <= p.block /\ p.block <= m_curBlock
      BY <1>3, <1>4, <2>0, BlocknumBelow DEF AskedOK
    <3> QED
      BY <1>3, <1>11, <3>1
  <2>2. /\ m_theFile = "read" /\ p.port = m_remotePort
        /\ position = m_curBlock /\ m_curBlock < BlockCount
    <3>1. m_theFile # "write" /\ p.port = m_remotePort
      BY <1>3, <1>4, <1>11, <2>0 DEF AskedOK
    <3> QED
      BY <1>3, <1>11, <3>1 DEF TftpInv, ServerOK
  <2> DEFINE last == m_curBlock + 1 >= BlockCount
             data == [op |-> "DATA", block |-> m_curBlock + 1, last |-> last,
                      what |-> BlockAt(m_curBlock + 1)]
  <2>3. /\ IsLast(card, "read", m_curBlock) = last /\ BlockCount \in Nat
        /\ BlockAt(m_curBlock + 1) \in FileBlocks /\ last \in BOOLEAN /\ m_curBlock + 1 \in Nat
        /\ BlockAt(m_curBlock + 1) =
             IF m_curBlock < Len(card) THEN card[m_curBlock + 1] ELSE <<0, 0>>
    <3>1. /\ IsLast(card, "read", m_curBlock) <=> last
          /\ BlockCount \in Nat \ {0} /\ BlockAt(m_curBlock + 1) \in FileBlocks
          /\ BlockAt(m_curBlock + 1) =
               IF m_curBlock < Len(card) THEN card[m_curBlock + 1] ELSE <<0, 0>>
      BY <1>3, <2>2, LastIs
    <3>2. IsLast(card, "read", m_curBlock) = last
      BY <3>1 DEF IsLast
    <3> QED
      BY <1>3, <3>1, <3>2
  <2>4. /\ m_curBlock' = m_curBlock + 1 /\ Reply(m_remotePort, data) /\ m_timeout' = ~last
        /\ m_theFile' = (IF last THEN "closed" ELSE m_theFile) /\ position' = m_curBlock + 1
        /\ m_remotePort' = m_remotePort /\ card' = card /\ ending' = ending
    <3> HIDE DEF last
    <3>1. /\ m_curBlock' = m_curBlock + 1 /\ UNCHANGED <<m_remotePort, card, ending>>
          /\ SendBlock(m_remotePort, m_curBlock + 1, card, m_theFile, position)
      BY <1>11 DEF Acknowledged
    <3> QED
      BY <2>2, <2>3, <3>1 DEF SendBlock
  <2>5. /\ data \in Answers /\ data.op = "DATA" /\ data.block = m_curBlock + 1
        /\ data.what = BlockAt(data.block) /\ (data.last <=> m_curBlock + 1 >= BlockCount)
    BY <2>3, ServerAnswers
  <2> HIDE DEF data
  <2>6. /\ toClient' \in Seq(Answers)
        /\ \A r \in Answers : OnWay(toClient', r) =>
             OnWay(toClient, r) \/ (r = data /\ m_remotePort = client.id)
    BY <2>4, <2>5, AnswersGrow DEF TftpInv
  <2>7. TftpTypes'
    BY <1>2, <1>3, <2>3, <2>4, <2>6 DEF TftpTypes
  <2>8. \A r \in Answers : OnWay(toClient', r) =>
          \/ OnWay(toClient, r)
          \/ /\ m_remotePort = client.id /\ ~Uploads(p) /\ r.op = "DATA"
             /\ r.block = m_curBlock + 1 /\ m_curBlock < BlockCount /\ r.what = BlockAt(r.block)
             /\ (r.last <=> m_curBlock + 1 >= BlockCount)
    BY <2>0, <2>2, <2>5, <2>6
  <2>9. m_timeout' => /\ m_theFile' = m_theFile /\ position' = m_curBlock + 1
                      /\ m_curBlock + 1 < BlockCount
    <3>1. ~last => m_curBlock + 1 < BlockCount
      BY <1>3, <2>3
    <3> HIDE DEF last
    <3> QED
      BY <2>3, <2>4, <3>1
  <2>10. p.block = m_curBlock + (IF Uploads(p) THEN 1 ELSE 0)
    BY <1>3, <2>0, <2>1
  <2> QED
    BY <1>1, <1>2, <1>11, <2>0, <2>4, <2>7, <2>8, <2>9, <2>10, BlockPasses
<1> QED
  BY <1>1, <1>6, <1>7, <1>8, <1>9, <1>10, <1>11
  DEF ReadRequest, WriteRequest, DataPacket, Acknowledged

-----------------------------------------------------------------------------
(* What the client sends, if it arrives, is the last in order.             *)
LEMMA RequestSent ==
  ASSUME TftpTypes, InSequence(toServer), NEW c \in Clients, c.id > 0, ClientSends(c),
         \A n \in Asked : OnWay(toServer, n) => Earlier(n, Request(c))
  PROVE  /\ Request(c) \in Asked /\ client' \in Clients
         /\ client' = [c EXCEPT !.sends = c.sends + 1]
         /\ toServer' \in Seq(Asked) /\ InSequence(toServer')
         /\ \A n \in Asked : OnWay(toServer', n) => OnWay(toServer, n) \/ n = Request(c)
<1>1. Request(c) \in Asked
  <2>1. /\ c.dir \in {"up", "down"} /\ c.id \in Nat \ {0} /\ c.block \in Nat
        /\ <<c.id, c.block>> \in FileBlocks /\ <<0, 0>> \in FileBlocks
        /\ (c.block = c.length) \in BOOLEAN
    BY DEF Clients, FileBlocks
  <2>2. CASE c.dir = "up"
    <3>1. Request(c) = [op |-> IF c.block = 0 THEN "WRQ" ELSE "DATA", block |-> c.block,
                        port |-> c.id, last |-> c.block = c.length, what |-> <<c.id, c.block>>]
      BY <2>2 DEF Request
    <3> DEFINE final == c.block = c.length
               opcode == IF c.block = 0 THEN "WRQ" ELSE "DATA"
               pair == <<c.id, c.block>>
    <3>2. final \in BOOLEAN /\ pair \in FileBlocks /\ opcode \in {"WRQ", "RRQ", "DATA", "ACK"}
      BY <2>1
    <3>3. Request(c) = [op |-> opcode, block |-> c.block, port |-> c.id, last |-> final,
                        what |-> pair]
      BY <3>1
    <3> HIDE DEF final, opcode, pair
    <3> QED
      BY <2>1, <3>2, <3>3 DEF Asked
  <2>3. CASE c.dir = "down"
    BY <2>1, <2>3 DEF Request, Asked
  <2> QED
    BY <2>1, <2>2, <2>3
<1>2. client' = [c EXCEPT !.sends = c.sends + 1] /\ c.sends \in Nat
  BY DEF ClientSends, Clients
<1>3. client' \in Clients
  BY <1>2 DEF Clients
<1>4. toServer' = toServer \/ toServer' = Append(toServer, Request(c))
  BY DEF ClientSends
<1>5. toServer \in Seq(Asked)
  BY DEF TftpTypes
<1>6. CASE toServer' = toServer
  BY <1>1, <1>2, <1>3, <1>5, <1>6
<1>7. CASE toServer' = Append(toServer, Request(c))
  <2> DEFINE r == Request(c)
  <2>1. r \in Asked
    BY <1>1
  <2> HIDE DEF r
  <2>2. \A n \in Asked : OnWay(toServer, n) => Earlier(n, r)
    BY DEF r
  <2>3. toServer' = Append(toServer, r)
    BY <1>7 DEF r
  <2>4. /\ Append(toServer, r) \in Seq(Asked) /\ InSequence(Append(toServer, r))
        /\ \A n \in Asked : OnWay(Append(toServer, r), n) => OnWay(toServer, n) \/ n = r
    BY <1>5, <2>1, <2>2, QueueAppend
  <2> QED
    BY <1>2, <1>3, <2>1, <2>3, <2>4 DEF r
<1> QED
  BY <1>4, <1>6, <1>7

(* The transfer goes on at the client's end; the server sees what it sends.*)
LEMMA ClientGoesOn ==
  ASSUME TftpInv, UNCHANGED serverVars, client' \in Clients, ClientOK',
         client'.id = client.id, client'.dir = client.dir, client'.length = client.length,
         client'.block \in {client.block, client.block + 1},
         toServer' \in Seq(Asked), InSequence(toServer'),
         \A n \in Asked : OnWay(toServer', n) => OnWay(toServer, n) \/ AskedOK(n)',
         toClient' \in Seq(Answers),
         \A a \in Answers : OnWay(toClient', a) => OnWay(toClient, a)
  PROVE  TftpInv'
<1>0. /\ UNCHANGED <<m_timeout, m_remotePort, m_curBlock, m_theFile, position, card, ending>>
      /\ client.block \in Nat /\ client'.block \in Nat /\ client'.block >= client.block
      /\ client'.block = 0 => client.block = 0
  BY DEF serverVars, TftpInv, TftpTypes, Clients
<1>1. TftpTypes'
  BY <1>0 DEF TftpInv, TftpTypes
<1>2. ToServerOK'
  <2>1. ASSUME NEW n \in Asked, OnWay(toServer, n)
        PROVE  AskedOK(n)'
    <3>1. AskedOK(n) /\ n.block \in Nat
      BY <2>1 DEF TftpInv, ToServerOK, Asked
    <3> QED
      BY <1>0, <3>1 DEF AskedOK
  <2> QED
    BY <2>1 DEF ToServerOK
<1>3. ToClientOK'
  <2>1. ASSUME NEW a \in Answers, OnWay(toClient, a)
        PROVE  AnswerOK(a)'
    <3>1. AnswerOK(a) /\ a.block \in Nat
      BY <2>1 DEF TftpInv, ToClientOK, Answers
    <3> QED
      BY <1>0, <3>1 DEF AnswerOK, BlockCount, BlockAt
  <2> QED
    BY <2>1 DEF ToClientOK
<1>4. CardOK'
  BY <1>0 DEF TftpInv, CardOK
<1>5. ServerOK'
  BY <1>0 DEF TftpInv, ServerOK, BlockCount
<1> QED
  BY <1>1, <1>2, <1>3, <1>4, <1>5 DEF TftpInv

(* A new transfer has the port to itself, and nothing has been said on it. *)
LEMMA StartInv ==
  ASSUME TftpInv, NEW dir \in {"up", "down"}, NEW length \in Lengths, Start(dir, length)
  PROVE  TftpInv'
<1> DEFINE c == [Idle EXCEPT !.dir = dir, !.id = client.id + 1, !.length = length,
                             !.status = "busy"]
<1>0. /\ client \in Clients /\ client.id \in Nat /\ length \in Nat \ {0}
      /\ m_remotePort \in Nat /\ m_remotePort <= client.id
      /\ UNCHANGED <<m_timeout, m_remotePort, m_curBlock, m_theFile, position, card, ending>>
  BY TftpAssumption DEF TftpInv, TftpTypes, ServerOK, Clients, Start, serverVars
<1>1. /\ c \in Clients /\ c.id = client.id + 1 /\ c.block = 0 /\ c.dir = dir
      /\ c.length = length /\ c.status = "busy" /\ c.got = <<>>
  <2> DEFINE none == <<>>
             id == client.id + 1
  <2>1. none \in Seq(FileBlocks) /\ id \in Nat
    BY <1>0
  <2>2. c = [Idle EXCEPT !.dir = dir, !.id = id, !.length = length, !.status = "busy"]
    OBVIOUS
  <2>3. Idle = [dir |-> "up", id |-> 0, length |-> 1, block |-> 0, sends |-> 0,
                status |-> "idle", got |-> none]
    BY DEF Idle
  <2> HIDE DEF none, id, c
  <2>4. Idle \in Clients /\ Idle.block = 0 /\ Idle.got = none
    BY <2>1, <2>3 DEF Clients
  <2>5. /\ c \in Clients /\ c.id = id /\ c.block = 0 /\ c.dir = dir
        /\ c.length = length /\ c.status = "busy" /\ c.got = none
    BY <1>0, <2>1, <2>2, <2>4 DEF Clients
  <2> QED
    BY <2>5 DEF none, id
<1>2. ClientSends(c) /\ toClient' = <<>>
  BY DEF Start
<1> HIDE DEF c
<1>3. /\ Request(c).port = c.id /\ Request(c).block = 0 /\ Opens(Request(c))
      /\ Request(c).op # "DATA"
  BY <1>1 DEF Request, Opens
<1>4. \A n \in Asked : OnWay(toServer, n) => n.port <= client.id /\ n.port \in Nat
  BY DEF TftpInv, ToServerOK, AskedOK, Asked
<1>5. \A n \in Asked : OnWay(toServer, n) => Earlier(n, Request(c))
  BY <1>0, <1>1, <1>3, <1>4 DEF Earlier
<1>6. /\ Request(c) \in Asked /\ client' \in Clients
      /\ client' = [c EXCEPT !.sends = c.sends + 1]
      /\ toServer' \in Seq(Asked) /\ InSequence(toServer')
      /\ \A n \in Asked : OnWay(toServer', n) => OnWay(toServer, n) \/ n = Request(c)
  BY <1>0, <1>1, <1>2, <1>5, RequestSent DEF TftpInv, ToServerOK
<1>7. /\ client'.id = client.id + 1 /\ client'.block = 0 /\ client'.dir = dir
      /\ client'.length = length /\ client'.status = "busy" /\ client'.got = <<>>
  BY <1>1, <1>6 DEF Clients
<1>8. TftpTypes'
  BY <1>0, <1>2, <1>6 DEF TftpInv, TftpTypes
<1>9. ToServerOK'
  <2>1. ASSUME NEW n \in Asked, OnWay(toServer, n) PROVE AskedOK(n)'
    <3>1. AskedOK(n) /\ n.port # client.id + 1
      BY <1>0, <1>4, <2>1 DEF TftpInv, ToServerOK
    <3>2. n.port <= client.id + 1
      BY <1>0, <1>4, <2>1
    <3> QED
      BY <1>0, <1>7, <3>1, <3>2 DEF AskedOK
  <2>2. ASSUME NEW n, n = Request(c) PROVE AskedOK(n)'
    <3>1. /\ n.port = client.id + 1 /\ n.block = 0 /\ Opens(n) /\ n.op # "DATA"
          /\ n.port # m_remotePort /\ m_remotePort <= n.port
      BY <1>0, <1>1, <1>3, <2>2
    <3>2. Uploads(n) <=> dir = "up"
      BY <1>1, <2>2 DEF Uploads, Request
    <3> QED
      BY <1>0, <1>7, <3>1, <3>2 DEF AskedOK
  <2> QED
    BY <1>6, <2>1, <2>2 DEF ToServerOK
<1>10. ToClientOK'
  BY <1>2 DEF ToClientOK, OnWay
<1>11. CardOK'
  BY <1>0 DEF TftpInv, CardOK
<1>12. ServerOK'
  BY <1>0, <1>7 DEF TftpInv, ServerOK, BlockCount
<1>13. ClientOK'
  <2>1. Len(client'.got) = 0
    BY <1>7
  <2> QED
    BY <1>0, <1>7, <2>1 DEF ClientOK
<1> QED
  BY <1>8, <1>9, <1>10, <1>11, <1>12, <1>13 DEF TftpInv

(* What the client may send: what its state says, if the server's agrees.  *)
LEMMA SaysOK ==
  ASSUME TftpInv, NEW c \in Clients, client' \in Clients, UNCHANGED serverVars,
         client'.id = client.id, client'.dir = client.dir, client'.length = client.length,
         client'.block = c.block, client.id > 0,
         c.id = client.id, c.dir = client.dir, c.length = client.length,
         c.block \in {client.block, client.block + 1},
         c.dir = "up" => c.block <= c.length,
         c.block > 0 => m_remotePort = client.id /\
                        c.block <= m_curBlock + (IF c.dir = "up" THEN 1 ELSE 0)
  PROVE  /\ \A n \in Asked : OnWay(toServer, n) => Earlier(n, Request(c))
         /\ \A n : n = Request(c) => AskedOK(n)'
<1>0. /\ UNCHANGED <<m_timeout, m_remotePort, m_curBlock, m_theFile, position, card, ending>>
      /\ client.id \in Nat /\ client.block \in Nat /\ c.block \in Nat /\ c.block >= client.block
      /\ m_remotePort \in Nat /\ m_remotePort <= client.id /\ client.dir \in {"up", "down"}
  BY DEF serverVars, TftpInv, TftpTypes, ServerOK, Clients
<1>1. ASSUME NEW r, r = Request(c)
      PROVE  /\ r.port = client.id /\ r.block = c.block /\ (Uploads(r) <=> client.dir = "up")
             /\ Opens(r) <=> c.block = 0
             /\ r.op = "DATA" => r.what = <<r.port, r.block>>
  BY <1>0, <1>1 DEF Request, Uploads, Opens
<1>2. ASSUME NEW n \in Asked, OnWay(toServer, n)
      PROVE  Earlier(n, Request(c))
  <2> DEFINE r == Request(c)
  <2>1. /\ r.port = client.id /\ r.block = c.block /\ (Uploads(r) <=> client.dir = "up")
    BY <1>1
  <2> HIDE DEF r
  <2>2. /\ n.port <= client.id /\ n.port \in Nat /\ n.block \in Nat
        /\ n.port = client.id => n.block <= client.block /\ (Uploads(n) <=> client.dir = "up")
    BY <1>2 DEF TftpInv, ToServerOK, AskedOK, Asked
  <2>3. Earlier(n, r)
    BY <1>0, <2>1, <2>2 DEF Earlier
  <2> QED
    BY <2>3 DEF r
<1>3. ASSUME NEW n, n = Request(c)
      PROVE  AskedOK(n)'
  <2>1. /\ n.port = client.id /\ n.block = c.block /\ (Uploads(n) <=> client.dir = "up")
        /\ Opens(n) <=> n.block = 0
        /\ n.op = "DATA" => n.what = <<n.port, n.block>>
    BY <1>1, <1>3
  <2>2. c.block = 0 /\ m_remotePort = client.id =>
          m_curBlock = IF client.dir = "up" THEN 0 ELSE 1
    BY <1>0 DEF TftpInv, ServerOK
  <2>3. m_timeout /\ m_remotePort = client.id => (client.dir = "up" <=> m_theFile = "write")
    BY DEF TftpInv, ServerOK
  <2> QED
    BY <1>0, <2>1, <2>2, <2>3 DEF AskedOK
<1> QED
  BY <1>2, <1>3

(* The client says it again.                                               *)
LEMMA ResendInv ==
  ASSUME TftpInv, Resend
  PROVE  TftpInv'
<1>0. /\ client \in Clients /\ client.status = "busy" /\ client.id > 0 /\ client.id \in Nat
      /\ client.block \in Nat /\ ClientSends(client) /\ UNCHANGED serverVars
      /\ toClient' = toClient /\ toClient \in Seq(Answers)
      /\ UNCHANGED <<m_timeout, m_remotePort, m_curBlock, m_theFile, position, card, ending>>
  BY DEF TftpInv, TftpTypes, ClientOK, Clients, Resend, serverVars
<1>1. client' = [client EXCEPT !.sends = client.sends + 1] /\ client.sends \in Nat
  BY <1>0 DEF ClientSends, Clients
<1>2. /\ client' \in Clients /\ client'.id = client.id /\ client'.dir = client.dir
      /\ client'.length = client.length /\ client'.block = client.block
      /\ client'.status = client.status /\ client'.got = client.got
  BY <1>0, <1>1 DEF Clients
<1>3. ClientOK'
  BY <1>0, <1>2 DEF TftpInv, ClientOK, BlockCount
<1>4. /\ client.dir = "up" => client.block <= client.length
      /\ client.block > 0 => m_remotePort = client.id /\
                             client.block <= m_curBlock + (IF client.dir = "up" THEN 1 ELSE 0)
  BY <1>0 DEF TftpInv, TftpTypes, ClientOK, Clients
<1>5. /\ \A n \in Asked : OnWay(toServer, n) => Earlier(n, Request(client))
      /\ \A n : n = Request(client) => AskedOK(n)'
  BY <1>0, <1>2, <1>4, SaysOK
<1>6. /\ toServer' \in Seq(Asked) /\ InSequence(toServer')
      /\ \A n \in Asked : OnWay(toServer', n) => OnWay(toServer, n) \/ n = Request(client)
  BY <1>0, <1>5, RequestSent DEF TftpInv, ToServerOK
<1> QED
  BY <1>0, <1>2, <1>3, <1>5, <1>6, ClientGoesOn

(* The client takes what it expects, and goes on or is done.               *)
LEMMA ReceiveInv ==
  ASSUME TftpInv, Receive
  PROVE  TftpInv'
<1> DEFINE a == Head(toClient)
           taken == IF client.dir = "up" \/ a.what = <<0, 0>> THEN client.got
                    ELSE Append(client.got, a.what)
           c == [client EXCEPT !.block = client.block + 1, !.got = taken]
<1>0. /\ client \in Clients /\ client.id \in Nat /\ client.block \in Nat /\ UNCHANGED serverVars
      /\ client.dir \in {"up", "down"} /\ client.length \in Nat \ {0}
      /\ m_curBlock \in Nat /\ Len(card) \in Nat /\ card \in Seq(FileBlocks)
      /\ client.got \in Seq(FileBlocks) /\ toServer \in Seq(Asked) /\ InSequence(toServer)
      /\ UNCHANGED <<m_timeout, m_remotePort, m_curBlock, m_theFile, position, card, ending>>
  BY DEF TftpInv, TftpTypes, ToServerOK, Clients, Receive, serverVars
<1>1. /\ toClient \in Seq(Answers) /\ toClient # <<>> /\ toClient' = Tail(toClient)
  BY DEF TftpInv, TftpTypes, Receive
<1>2. /\ a \in Answers /\ OnWay(toClient, a) /\ toClient' \in Seq(Answers)
      /\ \A r \in Answers : OnWay(toClient', r) => OnWay(toClient, r)
  <2>1. /\ Len(toClient) \in Nat /\ Len(toClient) > 0 /\ a = toClient[1]
        /\ toClient' \in Seq(Answers) /\ Len(toClient') = Len(toClient) - 1
        /\ \A i \in 1 .. Len(toClient) - 1 : toClient'[i] = toClient[i + 1]
    BY <1>1
  <2>2. 1 \in 1 .. Len(toClient) /\ a \in Answers
    BY <1>1, <2>1
  <2>3. \A i \in 1 .. Len(toClient) - 1 : i + 1 \in 1 .. Len(toClient)
    BY <2>1
  <2> HIDE DEF a
  <2> QED
    BY <2>1, <2>2, <2>3 DEF OnWay
<1>3. AnswerOK(a) /\ a.what \in FileBlocks /\ a.block \in Nat /\ a.last \in BOOLEAN
  BY <1>2 DEF TftpInv, ToClientOK, Answers
<1>4. IF client.status # "busy" THEN UNCHANGED <<client, toServer>>
      ELSE IF a.op = "ERR"
      THEN client' = [client EXCEPT !.status = "failed"] /\ UNCHANGED toServer
      ELSE IF ~Expected(a) THEN UNCHANGED <<client, toServer>>
      ELSE IF client.dir = "up" /\ client.block = client.length
      THEN client' = [client EXCEPT !.status = "done"] /\ UNCHANGED toServer
      ELSE IF a.last
      THEN client' = [c EXCEPT !.status = "done"] /\ UNCHANGED toServer
      ELSE ClientSends(c)
  BY DEF Receive
<1>5. taken \in Seq(FileBlocks)
  BY <1>0, <1>3
<1> HIDE DEF taken
<1>6. /\ c \in Clients /\ c.id = client.id /\ c.dir = client.dir /\ c.length = client.length
      /\ c.block = client.block + 1 /\ c.got = taken /\ c.status = client.status
  <2> DEFINE n == client.block + 1
  <2>1. n \in Nat /\ c = [client EXCEPT !.block = n, !.got = taken]
    BY <1>0
  <2> HIDE DEF n, c
  <2>2. /\ c \in Clients /\ c.id = client.id /\ c.dir = client.dir /\ c.length = client.length
        /\ c.block = n /\ c.got = taken /\ c.status = client.status
    BY <1>0, <1>5, <2>1 DEF Clients
  <2> QED
    BY <2>2 DEF n
<1> HIDE DEF a, c
<1>7. CASE UNCHANGED <<client, toServer>>
  <2>1. ClientOK'
    BY <1>0, <1>7 DEF TftpInv, ClientOK, BlockCount
  <2> QED
    BY <1>0, <1>2, <1>7, <2>1, ClientGoesOn
<1>8. CASE /\ client.status = "busy" /\ toServer' = toServer
           /\ client' = [client EXCEPT !.status = "failed"]
  <2>1. /\ client' \in Clients /\ client'.id = client.id /\ client'.dir = client.dir
        /\ client'.length = client.length /\ client'.block = client.block
        /\ client'.status = "failed" /\ client'.got = client.got
    BY <1>0, <1>8 DEF Clients
  <2>2. ClientOK'
    BY <1>0, <1>8, <2>1 DEF TftpInv, ClientOK, BlockCount
  <2> QED
    BY <1>0, <1>2, <1>8, <2>1, <2>2, ClientGoesOn
<1>9. CASE /\ client.status = "busy" /\ a.op # "ERR" /\ Expected(a) /\ toServer' = toServer
           /\ client.dir = "up" /\ client.block = client.length
           /\ client' = [client EXCEPT !.status = "done"]
  <2>1. /\ client' \in Clients /\ client'.id = client.id /\ client'.dir = client.dir
        /\ client'.length = client.length /\ client'.block = client.block
        /\ client'.status = "done" /\ client'.got = client.got
    BY <1>0, <1>9 DEF Clients
  <2>2. a.block = client.length
    BY <1>9 DEF Expected
  <2>3. m_curBlock = client.length /\ client.block > 0
    <3>1. m_curBlock >= client.length /\ m_remotePort = client.id
      BY <1>0, <1>3, <1>9, <2>2 DEF AnswerOK
    <3>2. m_curBlock <= client.length
      BY <1>9, <3>1 DEF TftpInv, ServerOK
    <3> QED
      BY <1>0, <1>9, <3>1, <3>2
  <2>4. ClientOK'
    BY <1>0, <1>9, <2>1, <2>3 DEF TftpInv, ClientOK
  <2> QED
    BY <1>0, <1>2, <1>9, <2>1, <2>4, ClientGoesOn
<1> DEFINE goesOn == /\ client.status = "busy" /\ a.op # "ERR" /\ Expected(a)
                     /\ ~(client.dir = "up" /\ client.block = client.length)
(* The next block: acknowledged, or just what the card holds.              *)
<1>10. ASSUME goesOn
       PROVE  /\ m_remotePort = client.id /\ client.id > 0
              /\ c.block <= m_curBlock + (IF c.dir = "up" THEN 1 ELSE 0)
              /\ c.dir = "up" => c.block <= c.length /\ ~a.last
              /\ c.dir = "down" =>
                   /\ c.block <= BlockCount /\ (a.last => c.block = BlockCount)
                   /\ Len(c.got) = IF c.block <= Len(card) THEN c.block ELSE Len(card)
                   /\ \A i \in 1 .. Len(c.got) : c.got[i] = card[i]
  <2>1. m_remotePort = client.id /\ client.id > 0 /\ a.block <= m_curBlock
    BY <1>0, <1>3, <1>10 DEF AnswerOK, TftpInv, ClientOK
  <2>2. CASE client.dir = "up"
    <3>1. a.block = client.block /\ ~a.last /\ client.block <= client.length
      BY <1>3, <1>10, <2>2 DEF AnswerOK, Expected, TftpInv, ClientOK
    <3> QED
      BY <1>0, <1>6, <1>10, <2>1, <2>2, <3>1
  <2>3. CASE client.dir = "down"
    <3>0. BlockCount \in Nat /\ BlockCount <= Len(card) + 1
      BY <1>0 DEF BlockCount
    <3>1. /\ a.block = client.block + 1 /\ a.block \in 1 .. BlockCount /\ a.what = BlockAt(a.block)
          /\ a.last => a.block = BlockCount
      BY <1>0, <1>3, <1>10, <2>3 DEF AnswerOK, Expected
    <3>2. /\ client.block <= Len(card) /\ Len(client.got) = client.block
          /\ \A i \in 1 .. client.block : client.got[i] = card[i]
      <4>1. client.block <= Len(card)
        BY <1>0, <3>0, <3>1
      <4> QED
        BY <2>3, <4>1 DEF TftpInv, ClientOK
    <3>3. client.block + 1 <= m_curBlock /\ client.block + 1 <= BlockCount
      BY <1>0, <2>1, <3>0, <3>1
    <3>4. CASE client.block < Len(card)
      <4>1. a.what = card[a.block]
        BY <1>0, <3>1, <3>4 DEF BlockAt
      <4>2. a.what # <<0, 0>>
        <5>1. PICK id \in Nat \ {0} : \A i \in 1 .. Len(card) : card[i] = <<id, i>>
          BY DEF TftpInv, CardOK, Holds
        <5>2. a.block \in 1 .. Len(card)
          BY <1>0, <3>1, <3>4
        <5>3. a.what = <<id, a.block>> /\ id # 0
          BY <4>1, <5>1, <5>2
        <5> QED
          BY <5>3
      <4>3. c.got = Append(client.got, a.what)
        BY <1>6, <2>3, <4>2 DEF taken
      <4>4. /\ Len(c.got) = client.block + 1 /\ c.got[client.block + 1] = a.what
            /\ \A i \in 1 .. client.block : c.got[i] = client.got[i]
        BY <1>0, <3>2, <4>3
      <4>5. \A i \in 1 .. client.block + 1 : i \in 1 .. client.block \/ i = client.block + 1
        BY <1>0
      <4>6. \A i \in 1 .. client.block + 1 : c.got[i] = card[i]
        BY <3>1, <3>2, <4>1, <4>4, <4>5
      <4>7. c.block <= Len(card) /\ Len(c.got) = c.block
        BY <1>0, <1>6, <3>4, <4>4
      <4> QED
        BY <1>0, <1>6, <2>1, <2>3, <3>1, <3>3, <4>4, <4>6, <4>7
(* The empty block after a full last one.                                  *)
    <3>5. CASE client.block = Len(card)
      <4>1. a.what = <<0, 0>>
        BY <1>0, <3>1, <3>5 DEF BlockAt
      <4>2. c.got = client.got
        BY <1>6, <4>1 DEF taken
      <4>3. ~(c.block <= Len(card)) /\ Len(c.got) = Len(card)
        BY <1>0, <1>6, <3>2, <3>5, <4>2
      <4> QED
        BY <1>0, <1>6, <2>1, <2>3, <3>1, <3>2, <3>3, <3>5, <4>2, <4>3
    <3> QED
      BY <1>0, <3>2, <3>4, <3>5
  <2> QED
    BY <1>0, <2>2, <2>3
<1>11. CASE goesOn /\ a.last /\ client' = [c EXCEPT !.status = "done"] /\ toServer' = toServer
  <2>1. /\ client' \in Clients /\ client'.id = client.id /\ client'.dir = client.dir
        /\ client'.length = client.length /\ client'.block = c.block
        /\ client'.status = "done" /\ client'.got = c.got
    BY <1>6, <1>11 DEF Clients
  <2>2. c.dir = "down" /\ c.block > 0 /\ c.block = client.block + 1
    BY <1>0, <1>6, <1>10, <1>11
  <2>3. ClientOK'
    BY <1>0, <1>6, <1>10, <1>11, <2>1, <2>2 DEF ClientOK, BlockCount
  <2> QED
    BY <1>0, <1>2, <1>6, <1>11, <2>1, <2>3, ClientGoesOn
<1>12. CASE goesOn /\ ~a.last /\ ClientSends(c)
  <2>1. client' = [c EXCEPT !.sends = c.sends + 1] /\ c.sends \in Nat
    BY <1>6, <1>12 DEF ClientSends, Clients
  <2>2. /\ client' \in Clients /\ client'.id = client.id /\ client'.dir = client.dir
        /\ client'.length = client.length /\ client'.block = c.block
        /\ client'.status = "busy" /\ client'.got = c.got
    BY <1>6, <1>12, <2>1 DEF Clients
  <2>3. ClientOK'
    BY <1>0, <1>6, <1>10, <1>12, <2>2 DEF ClientOK, BlockCount
  <2>4. /\ \A n \in Asked : OnWay(toServer, n) => Earlier(n, Request(c))
        /\ \A n : n = Request(c) => AskedOK(n)'
    BY <1>0, <1>6, <1>10, <1>12, <2>2, SaysOK
  <2>5. /\ toServer' \in Seq(Asked) /\ InSequence(toServer')
        /\ \A n \in Asked : OnWay(toServer', n) => OnWay(toServer, n) \/ n = Request(c)
    BY <1>0, <1>6, <1>10, <1>12, <2>4, RequestSent DEF TftpInv
  <2> QED
    BY <1>0, <1>2, <1>6, <2>2, <2>3, <2>4, <2>5, ClientGoesOn
<1> QED
  BY <1>3, <1>4, <1>7, <1>8, <1>9, <1>11, <1>12

(* The invariant of the transfers.                                         *)
LEMMA TftpInitInv == TftpInit => TftpInv
<1> SUFFICES ASSUME TftpInit PROVE TftpInv
  OBVIOUS
<1>1. /\ \A S : <<>> \in Seq(S) /\ Len(<<>>) = 0
  OBVIOUS
<1>2. client = [dir |-> "up", id |-> 0, length |-> 1, block |-> 0, sends |-> 0,
                status |-> "idle", got |-> <<>>]
  BY DEF TftpInit, Idle
<1>3. client \in Clients
  BY <1>1, <1>2 DEF Clients
<1>4. TftpTypes
  BY <1>1, <1>3 DEF TftpInit, TftpTypes
<1>5. ToServerOK /\ ToClientOK
  BY <1>1 DEF TftpInit, ToServerOK, ToClientOK, InSequence, OnWay
<1>6. CardOK
  <2>1. Holds(card, 1, Len(card))
    BY <1>1 DEF TftpInit, Holds
  <2>2. 1 \in Nat \ {0} /\ ending = "none"
    BY DEF TftpInit
  <2> QED
    BY <2>1, <2>2 DEF CardOK
<1>7. ServerOK /\ ClientOK
  BY <1>2 DEF TftpInit, ServerOK, ClientOK
<1> QED
  BY <1>4, <1>5, <1>6, <1>7 DEF TftpInv

LEMMA TftpNextInv == TftpInv /\ [TftpNext]_tftpVars => TftpInv'
<1> SUFFICES ASSUME TftpInv, [TftpNext]_tftpVars PROVE TftpInv'
  OBVIOUS
<1>1. CASE Poll
  BY <1>1, PollInv
<1>2. CASE PollTimeout
  <2>1. TftpTypes'
    BY <1>2 DEF PollTimeout, TftpInv, TftpTypes
  <2>2. InSequence(toServer)
    BY DEF TftpInv, ToServerOK
  <2>3. /\ m_timeout' = FALSE /\ toServer' = toServer /\ toClient' = toClient
        /\ UNCHANGED <<client, m_remotePort, m_curBlock, card, ending>>
    BY <1>2 DEF PollTimeout
  <2> QED
    BY <2>1, <2>2, <2>3, LineDrops
<1>3. CASE Resend
  BY <1>3, ResendInv
<1>4. CASE Receive
  BY <1>4, ReceiveInv
<1>5. ASSUME NEW dir \in {"up", "down"}, NEW length \in Lengths, Start(dir, length)
      PROVE  TftpInv'
  BY <1>5, StartInv
<1>6. CASE UNCHANGED tftpVars
  <2>1. UNCHANGED <<m_timeout, m_remotePort, m_curBlock, m_theFile, position, card, ending,
                    client, toServer, toClient>>
    BY <1>6 DEF tftpVars, serverVars
  <2>2. TftpTypes' /\ InSequence(toServer')
    BY <2>1 DEF TftpInv, TftpTypes, ToServerOK
  <2> QED
    BY <2>1, <2>2, LineDrops
<1> QED
  BY <1>1, <1>2, <1>3, <1>4, <1>5, <1>6 DEF TftpNext

(* Whatever is lost, sent again or given up, transfers are exact: for any  *)
(* lengths of files, any number of transfers, repetitions and packets      *)
(* under way, and any width of a char.                                     *)
THEOREM ExactTransfers == TftpSpec => []TransfersAreExact
<1>1. TftpInv => TransfersAreExact
  <2> SUFFICES ASSUME TftpInv PROVE TransfersAreExact
    OBVIOUS
  <2>0. /\ card \in Seq(FileBlocks) /\ Len(card) \in Nat /\ client.length \in Nat \ {0}
        /\ client.got \in Seq(FileBlocks) /\ client.block \in Nat
        /\ (card # <<>> => 1 \in 1 .. Len(card))
    BY DEF TftpInv, TftpTypes, Clients
  <2>1. card # <<>> => \A i \in 1 .. Len(card) : card[i] = <<card[1][1], i>>
    <3>1. PICK id \in Nat \ {0} : \A i \in 1 .. Len(card) : card[i] = <<id, i>>
      BY DEF TftpInv, CardOK, Holds
    <3>2. card # <<>> => card[1] = <<id, 1>> /\ card[1][1] = id
      BY <2>0, <3>1
    <3> QED
      BY <3>1, <3>2
  <2>2. client.status = "done" /\ client.dir = "up" =>
          Len(card) = client.length /\ card[1][1] = client.id
    <3> SUFFICES ASSUME client.status = "done", client.dir = "up"
                 PROVE  Len(card) = client.length /\ card[1][1] = client.id
      OBVIOUS
    <3>1. m_curBlock = client.length /\ m_remotePort = client.id
      BY <2>0 DEF TftpInv, ClientOK
    <3>2. Holds(card, client.id, client.length)
      BY <2>0, <3>1 DEF TftpInv, ServerOK
    <3>3. 1 \in 1 .. client.length
      BY <2>0
    <3>4. Len(card) = client.length /\ card[1] = <<client.id, 1>>
      BY <3>2, <3>3 DEF Holds
    <3> QED
      BY <3>4
  <2>3. client.status = "done" /\ client.dir = "down" => client.got = card
    <3> SUFFICES ASSUME client.status = "done", client.dir = "down"
                 PROVE  client.got = card
      OBVIOUS
    <3>1. Len(client.got) = Len(card) /\ \A i \in 1 .. Len(card) : client.got[i] = card[i]
      <4>1. /\ client.block = BlockCount
            /\ Len(client.got) = IF client.block <= Len(card) THEN client.block ELSE Len(card)
            /\ \A i \in 1 .. Len(client.got) : client.got[i] = card[i]
        BY DEF TftpInv, ClientOK
      <4>2. Len(client.got) = Len(card)
        BY <2>0, <4>1 DEF BlockCount
      <4> QED
        BY <4>1, <4>2
    <3> QED
      BY <2>0, <3>1
  <2>4. m_timeout => m_theFile # "closed"
    BY DEF TftpInv, ServerOK
  <2> QED
    BY <2>1, <2>2, <2>3, <2>4 DEF TransfersAreExact
<1> QED
  BY <1>1, TftpInitInv, TftpNextInv, PTL DEF TftpSpec

-----------------------------------------------------------------------------
(* How long files and queues get.                                          *)

(* A block with such a number, or a file of so many, fits some length.     *)
Fits(n) == \E top \in Lengths : n <= top

Sizes ==
  /\ Len(toServer) <= MaxQueue /\ Len(toClient) <= MaxQueue
  /\ client.status # "idle" => client.length \in Lengths
  /\ \A i \in 1 .. Len(toServer) : Uploads(toServer[i]) => Fits(toServer[i].block)
  /\ \E top \in Lengths : m_curBlock <= top + 1 /\ Len(card) <= top

(* A reply leaves its queue within its limit.                              *)
LEMMA ReplyFits ==
  ASSUME TftpTypes, Len(toClient) <= MaxQueue, NEW port, NEW a, Reply(port, a)
  PROVE  Len(toClient') <= MaxQueue
<1>1. toClient \in Seq(Answers) /\ Len(toClient) \in Nat /\ MaxQueue \in Nat
  BY TftpAssumption DEF TftpTypes
<1>2. CASE toClient' = toClient
  BY <1>2
<1>3. CASE Len(toClient) < MaxQueue /\ toClient' = Append(toClient, a)
  <2>1. Len(toClient') = Len(toClient) + 1
    BY <1>1, <1>3
  <2> QED
    BY <1>1, <1>3, <2>1
<1> QED
  BY <1>2, <1>3 DEF Reply

(* So does what a client sends, and its blocks are those of its file.      *)
LEMMA RequestFits ==
  ASSUME TftpTypes, Sizes, NEW c \in Clients, c.length \in Lengths,
         c.dir = "up" => c.block <= c.length, ClientSends(c)
  PROVE  /\ Len(toServer') <= MaxQueue /\ client'.length = c.length
         /\ \A i \in 1 .. Len(toServer') : Uploads(toServer'[i]) => Fits(toServer'[i].block)
<1>1. toServer \in Seq(Asked) /\ Len(toServer) \in Nat /\ MaxQueue \in Nat
  BY TftpAssumption DEF TftpTypes
<1>2. client' = [c EXCEPT !.sends = c.sends + 1]
  BY DEF ClientSends
<1>3. client'.length = c.length
  BY <1>2 DEF Clients
<1>4. CASE toServer' = toServer
  BY <1>3, <1>4 DEF Sizes
<1>5. CASE Len(toServer) < MaxQueue /\ toServer' = Append(toServer, Request(c))
  <2>1. PICK p : p = Request(c)
    OBVIOUS
  <2>2. p.block = c.block /\ (Uploads(p) => c.dir = "up")
    BY <2>1 DEF Request, Uploads
  <2>3. Uploads(p) => Fits(p.block)
    BY <2>2 DEF Fits
  <2>4. /\ Len(toServer') = Len(toServer) + 1
        /\ \A i \in 1 .. Len(toServer) : toServer'[i] = toServer[i]
        /\ toServer'[Len(toServer) + 1] = p
    BY <1>1, <1>5, <2>1
  <2>5. \A i \in 1 .. Len(toServer') : i \in 1 .. Len(toServer) \/ i = Len(toServer) + 1
    BY <1>1, <2>4
  <2>6. Len(toServer') <= MaxQueue
    BY <1>1, <1>5, <2>4
  <2> QED
    BY <1>3, <2>3, <2>4, <2>5, <2>6 DEF Sizes
<1> QED
  BY <1>4, <1>5 DEF ClientSends

(* A client's packet makes a file no longer than an upload may be.         *)
LEMMA PollSizes ==
  ASSUME TftpInv, Sizes, Poll
  PROVE  Sizes'
<1> DEFINE p == Head(toServer)
<1>1. /\ toServer \in Seq(Asked) /\ toServer # <<>> /\ Len(toServer) \in Nat /\ Len(toServer) > 0
      /\ toServer' = Tail(toServer) /\ client' = client /\ MaxQueue \in Nat
      /\ \/ p.op = "RRQ" /\ ReadRequest(p)
         \/ p.op = "WRQ" /\ WriteRequest(p)
         \/ p.op = "DATA" /\ DataPacket(p)
         \/ p.op = "ACK" /\ Acknowledged(p)
  BY TftpAssumption DEF TftpInv, TftpTypes, Poll
<1>2. /\ p = toServer[1] /\ Len(toServer') = Len(toServer) - 1
      /\ \A i \in 1 .. Len(toServer') : toServer'[i] = toServer[i + 1]
      /\ \A i \in 1 .. Len(toServer') : i + 1 \in 1 .. Len(toServer)
      /\ 1 \in 1 .. Len(toServer)
  BY <1>1
<1>3. p \in Asked /\ OnWay(toServer, p)
  BY <1>1, <1>2 DEF OnWay
<1> HIDE DEF p
<1>4. /\ p.port \in Nat \ {0} /\ p.block \in Nat
      /\ card \in Seq(FileBlocks) /\ Len(card) \in Nat /\ m_curBlock \in Nat
      /\ m_timeout \in BOOLEAN /\ m_theFile \in {"closed", "read", "write"}
  BY <1>3 DEF Asked, TftpInv, TftpTypes
<1>5. AskedOK(p) /\ (Uploads(p) => Fits(p.block))
  BY <1>2, <1>3 DEF TftpInv, ToServerOK, Sizes
<1>6. /\ Len(toServer') <= MaxQueue
      /\ \A i \in 1 .. Len(toServer') : Uploads(toServer'[i]) => Fits(toServer'[i].block)
  <2>1. Len(toServer') <= MaxQueue
    BY <1>1, <1>2 DEF Sizes
  <2> QED
    BY <1>2, <2>1 DEF Sizes
<1>7. Len(toClient') <= MaxQueue
  <2>1. Len(toClient) <= MaxQueue /\ TftpTypes
    BY DEF Sizes, TftpInv
  <2>2. toClient' = toClient \/ \E port, a : Reply(port, a)
    BY <1>1 DEF ReadRequest, WriteRequest, DataPacket, Acknowledged, SendERR, SendACK, SendBlock,
       serverVars
  <2> QED
    BY <2>1, <2>2, ReplyFits
<1>8. \A n \in Lengths : n \in Nat \ {0}
  BY TftpAssumption
<1>9. \/ m_curBlock' = m_curBlock /\ card' = card
      \/ m_curBlock' \in {0, 1} /\ (card' = card \/ card' = <<>>)
      \/ /\ m_timeout /\ p.op = "DATA" /\ blocknum(p.block) = m_curBlock + 1
         /\ m_curBlock' = m_curBlock + 1
         /\ card' = (IF m_theFile = "write" THEN Append(card, p.what) ELSE card)
      \/ /\ m_timeout /\ p.op = "ACK" /\ blocknum(p.block) = m_curBlock
         /\ m_curBlock' = m_curBlock + 1 /\ card' = card
  BY <1>1 DEF ReadRequest, WriteRequest, DataPacket, Acknowledged, serverVars
<1>10. PICK top \in Lengths : m_curBlock <= top + 1 /\ Len(card) <= top
  BY DEF Sizes
<1>11. CASE m_curBlock' = m_curBlock /\ card' = card
  BY <1>1, <1>6, <1>7, <1>11 DEF Sizes
<1>12. CASE m_curBlock' \in {0, 1} /\ (card' = card \/ card' = <<>>)
  <2>1. m_curBlock' <= top + 1 /\ Len(card') <= top
    BY <1>4, <1>8, <1>10, <1>12
  <2> QED
    BY <1>1, <1>6, <1>7, <1>10, <2>1 DEF Sizes
<1>13. CASE /\ m_timeout /\ p.op = "DATA" /\ blocknum(p.block) = m_curBlock + 1
            /\ m_curBlock' = m_curBlock + 1
            /\ card' = IF m_theFile = "write" THEN Append(card, p.what) ELSE card
  <2>1. Uploads(p) /\ p.block > 0
    BY <1>4, <1>5, <1>13 DEF Uploads, Opens, AskedOK
  <2>2. p.block = m_curBlock + 1
    <3>1. blocknum(p.block) <= p.block /\ p.block <= m_curBlock + 1
      BY <1>4, <1>5, <2>1, BlocknumBelow DEF AskedOK
    <3> QED
      BY <1>4, <1>13, <3>1
  <2>3. m_theFile = "write" /\ p.port = m_remotePort
    BY <1>4, <1>5, <1>13, <2>1 DEF AskedOK
  <2>4. Len(card) = m_curBlock
    BY <1>13, <2>3 DEF TftpInv, ServerOK, Holds
  <2>5. Len(card') = m_curBlock + 1
    BY <1>4, <1>13, <2>3, <2>4
  <2>6. PICK most \in Lengths : p.block <= most
    BY <1>5, <2>1 DEF Fits
  <2>7. m_curBlock' <= most + 1 /\ Len(card') <= most
    BY <1>4, <1>8, <1>13, <2>2, <2>5, <2>6
  <2> QED
    BY <1>1, <1>6, <1>7, <2>6, <2>7 DEF Sizes
<1>14. CASE /\ m_timeout /\ p.op = "ACK" /\ blocknum(p.block) = m_curBlock
            /\ m_curBlock' = m_curBlock + 1 /\ card' = card
  <2>1. ~Uploads(p) /\ p.block > 0
    BY <1>4, <1>5, <1>14 DEF Uploads, Opens, AskedOK
  <2>2. m_theFile # "write"
    BY <1>4, <1>5, <1>14, <2>1 DEF AskedOK
  <2>3. m_curBlock < Len(card) + 1
    BY <1>4, <1>14, <2>2 DEF TftpInv, ServerOK, BlockCount
  <2>4. m_curBlock' <= top + 1 /\ Len(card') <= top
    BY <1>4, <1>8, <1>10, <1>14, <2>3
  <2> QED
    BY <1>1, <1>6, <1>7, <1>10, <2>4 DEF Sizes
<1> QED
  BY <1>9, <1>11, <1>12, <1>13, <1>14

(* What a client does leaves the sizes, too.                               *)
LEMMA ResendSizes ==
  ASSUME TftpInv, Sizes, Resend
  PROVE  Sizes'
<1>01. /\ TftpTypes /\ client \in Clients /\ client.length \in Nat \ {0} /\ client.block \in Nat
       /\ toClient \in Seq(Answers) /\ Len(toClient) \in Nat /\ MaxQueue \in Nat
       /\ \A n \in Lengths : n \in Nat \ {0}
  BY TftpAssumption DEF TftpInv, TftpTypes, Clients
<1>02. UNCHANGED <<m_curBlock, card>>
  BY DEF Resend, serverVars
<1>03. \E top \in Lengths : m_curBlock' <= top + 1 /\ Len(card') <= top
  BY <1>02 DEF Sizes
<1>1. client.status = "busy" /\ ClientSends(client) /\ toClient' = toClient
  BY DEF Resend
<1>2. client.length \in Lengths /\ (client.dir = "up" => client.block <= client.length)
  BY <1>1 DEF Sizes, TftpInv, ClientOK
<1>3. /\ Len(toServer') <= MaxQueue /\ client'.length = client.length
      /\ \A i \in 1 .. Len(toServer') : Uploads(toServer'[i]) => Fits(toServer'[i].block)
  BY <1>01, <1>1, <1>2, RequestFits
<1> QED
  BY <1>03, <1>1, <1>2, <1>3 DEF Sizes

LEMMA ReceiveSizes ==
  ASSUME TftpInv, Sizes, Receive
  PROVE  Sizes'
<1>01. /\ TftpTypes /\ client \in Clients /\ client.length \in Nat \ {0} /\ client.block \in Nat
       /\ toClient \in Seq(Answers) /\ Len(toClient) \in Nat /\ MaxQueue \in Nat
       /\ \A n \in Lengths : n \in Nat \ {0}
  BY TftpAssumption DEF TftpInv, TftpTypes, Clients
<1>02. UNCHANGED <<m_curBlock, card>>
  BY DEF Receive, serverVars
<1>03. \E top \in Lengths : m_curBlock' <= top + 1 /\ Len(card') <= top
  BY <1>02 DEF Sizes
<1> DEFINE a == Head(toClient)
           taken == IF client.dir = "up" \/ a.what = <<0, 0>> THEN client.got
                    ELSE Append(client.got, a.what)
<1>1. toClient # <<>> /\ toClient' = Tail(toClient) /\ a \in Answers
  BY <1>01 DEF Receive
<1>2. Len(toClient') <= MaxQueue
  <2>1. Len(toClient') = Len(toClient) - 1 /\ Len(toClient) <= MaxQueue
    BY <1>01, <1>1 DEF Sizes
  <2> QED
    BY <1>01, <2>1
<1>3. PICK c : c = [client EXCEPT !.block = client.block + 1, !.got = taken]
  <2> HIDE DEF taken
  <2> QED
    OBVIOUS
<1>4. \/ toServer' = toServer /\ client'.status = client.status
                              /\ client'.length = client.length
      \/ client.status = "busy" /\ toServer' = toServer /\ client'.length = client.length
      \/ /\ client.status = "busy" /\ ClientSends(c)
         /\ ~(client.dir = "up" /\ client.block = client.length)
  <2>1. client.length = c.length
    BY <1>01, <1>3 DEF Clients
  <2>2. IF client.status # "busy" THEN UNCHANGED <<client, toServer>>
        ELSE IF a.op = "ERR"
        THEN client' = [client EXCEPT !.status = "failed"] /\ UNCHANGED toServer
        ELSE IF ~Expected(a) THEN UNCHANGED <<client, toServer>>
        ELSE IF client.dir = "up" /\ client.block = client.length
        THEN client' = [client EXCEPT !.status = "done"] /\ UNCHANGED toServer
        ELSE IF a.last
        THEN client' = [c EXCEPT !.status = "done"] /\ UNCHANGED toServer
        ELSE ClientSends(c)
    BY <1>3 DEF Receive
  <2> HIDE DEF a
  <2>3. \A s : /\ [client EXCEPT !.status = s].length = client.length
               /\ [c EXCEPT !.status = s].length = client.length
    BY <1>01, <1>3 DEF Clients
  <2> QED
    BY <2>2, <2>3
<1>5. CASE toServer' = toServer /\ client'.status = client.status
                                /\ client'.length = client.length
  BY <1>03, <1>2, <1>5 DEF Sizes
<1>6. CASE client.status = "busy" /\ toServer' = toServer /\ client'.length = client.length
  BY <1>03, <1>2, <1>6 DEF Sizes
<1>7. CASE /\ client.status = "busy" /\ ClientSends(c)
           /\ ~(client.dir = "up" /\ client.block = client.length)
  <2>1. taken \in Seq(FileBlocks)
    <3>1. client.got \in Seq(FileBlocks) /\ a.what \in FileBlocks
      BY <1>01, <1>1 DEF Clients, Answers
    <3> HIDE DEF a
    <3> QED
      BY <3>1
  <2> HIDE DEF a, taken
  <2>2. /\ c \in Clients /\ c.length = client.length /\ c.dir = client.dir
        /\ c.block = client.block + 1
    <3>1. PICK n \in Nat : n = client.block + 1
      BY <1>01
    <3>2. c = [client EXCEPT !.block = n, !.got = taken]
      BY <1>3, <3>1
    <3> QED
      BY <1>01, <2>1, <3>1, <3>2 DEF Clients
  <2>3. client.length \in Lengths /\ (client.dir = "up" => client.block <= client.length)
    BY <1>7 DEF Sizes, TftpInv, ClientOK
  <2>4. c.dir = "up" => c.block <= c.length
    BY <1>01, <1>7, <2>2, <2>3
  <2>5. /\ Len(toServer') <= MaxQueue /\ client'.length = c.length
        /\ \A i \in 1 .. Len(toServer') : Uploads(toServer'[i]) => Fits(toServer'[i].block)
    BY <1>01, <1>7, <2>2, <2>3, <2>4, RequestFits
  <2> QED
    BY <1>03, <1>2, <2>2, <2>3, <2>5 DEF Sizes
<1> QED
  BY <1>4, <1>5, <1>6, <1>7

LEMMA StartSizes ==
  ASSUME TftpInv, Sizes, NEW dir \in {"up", "down"}, NEW length \in Lengths, Start(dir, length)
  PROVE  Sizes'
<1>01. /\ TftpTypes /\ client \in Clients /\ client.length \in Nat \ {0} /\ client.block \in Nat
       /\ toClient \in Seq(Answers) /\ Len(toClient) \in Nat /\ MaxQueue \in Nat
       /\ \A n \in Lengths : n \in Nat \ {0}
  BY TftpAssumption DEF TftpInv, TftpTypes, Clients
<1>02. UNCHANGED <<m_curBlock, card>>
  BY DEF Start, serverVars
<1>03. \E top \in Lengths : m_curBlock' <= top + 1 /\ Len(card') <= top
  BY <1>02 DEF Sizes
<1>1. PICK c : c = [Idle EXCEPT !.dir = dir, !.id = client.id + 1, !.length = length,
                                !.status = "busy"]
  OBVIOUS
<1>2. ClientSends(c) /\ toClient' = <<>>
  <2>1. ClientSends([Idle EXCEPT !.dir = dir, !.id = client.id + 1, !.length = length,
                                 !.status = "busy"])
    BY DEF Start
  <2>2. toClient' = <<>>
    BY DEF Start
  <2> QED
    BY <1>1, <2>1, <2>2
<1>3. c = [dir |-> dir, id |-> client.id + 1, length |-> length, block |-> 0, sends |-> 0,
           status |-> "busy", got |-> <<>>]
  BY <1>1 DEF Idle
<1>4. client.id + 1 \in Nat /\ length \in Nat \ {0} /\ <<>> \in Seq(FileBlocks)
  BY <1>01 DEF Clients
<1>5. c \in Clients /\ c.length = length /\ c.block = 0
  BY <1>3, <1>4 DEF Clients
<1>6. /\ Len(toServer') <= MaxQueue /\ client'.length = length
      /\ \A i \in 1 .. Len(toServer') : Uploads(toServer'[i]) => Fits(toServer'[i].block)
  BY <1>01, <1>2, <1>4, <1>5, RequestFits
<1>7. Len(toClient') <= MaxQueue
  BY <1>01, <1>2
<1> QED
  BY <1>03, <1>6, <1>7 DEF Sizes

(* The card never holds more blocks than a file may have, the block number *)
(* stays next to them, and no queue outgrows its limit: for any lengths of *)
(* files, losses and repetitions.                                          *)
THEOREM TftpTypeCorrect == TftpSpec => []TftpTypeOK
<1>1. TftpInit => Sizes
  <2> SUFFICES ASSUME TftpInit PROVE Sizes
    OBVIOUS
  <2>1. /\ Len(<<>>) = 0 /\ toServer = <<>> /\ toClient = <<>> /\ card = <<>> /\ m_curBlock = 0
        /\ client.status = "idle"
    BY DEF TftpInit, Idle
  <2>2. /\ MaxQueue \in Nat /\ \E top \in Lengths : top \in Nat
    BY TftpAssumption
  <2> QED
    BY <2>1, <2>2 DEF Sizes
<1>2. TftpInv /\ Sizes /\ [TftpNext]_tftpVars => Sizes'
  <2> SUFFICES ASSUME TftpInv, Sizes, [TftpNext]_tftpVars PROVE Sizes'
    OBVIOUS
  <2>1. CASE Poll
    BY <2>1, PollSizes
  <2>2. CASE PollTimeout \/ UNCHANGED tftpVars
    <3>1. UNCHANGED <<m_curBlock, card, client, toServer, toClient>>
      BY <2>2 DEF PollTimeout, tftpVars, serverVars
    <3> QED
      BY <3>1 DEF Sizes
  <2>3. CASE Resend
    BY <2>3, ResendSizes
  <2>4. CASE Receive
    BY <2>4, ReceiveSizes
  <2>5. ASSUME NEW dir \in {"up", "down"}, NEW length \in Lengths, Start(dir, length)
        PROVE  Sizes'
    BY <2>5, StartSizes
  <2> QED
    BY <2>1, <2>2, <2>3, <2>4, <2>5 DEF TftpNext
<1>3. TftpInv /\ Sizes => TftpTypeOK
  <2> SUFFICES ASSUME TftpInv, Sizes PROVE TftpTypeOK
    OBVIOUS
  <2>1. /\ m_timeout \in BOOLEAN /\ m_theFile \in {"closed", "read", "write"} /\ position \in Nat
        /\ ending \in {"none", "full", "short"}
        /\ m_curBlock \in Nat /\ client.status \in {"idle", "busy", "done", "failed"}
    BY DEF TftpInv, TftpTypes, Clients
  <2>2. PICK top \in Lengths : m_curBlock <= top + 1 /\ Len(card) <= top
    BY DEF Sizes
  <2>3. top \in Nat
    BY TftpAssumption
  <2>4. m_curBlock \in 0 .. top + 1
    BY <2>1, <2>2, <2>3
  <2> QED
    BY <2>1, <2>2, <2>4 DEF Sizes, TftpTypeOK
<1> QED
  BY <1>1, <1>2, <1>3, TftpInitInv, TftpNextInv, PTL DEF TftpSpec

-----------------------------------------------------------------------------
(***************************************************************************)
(* XBeeNetwork, for any number of remotes: who is known to whom.           *)
(***************************************************************************)

(* Who speaks for whom: only the master sends requests and the time, only  *)
(* remotes receive them, and so nobody answers in the master's name.       *)
Honest(p) ==
  IF p.kind = "REPORT" THEN p.from \in Remotes
  ELSE /\ p.from = Master /\ p.sender = Master /\ p.receiver \in Remotes
       /\ p.kind \in Requests => p.to \in Remotes

AirHonest == \A p \in air : Honest(p)

NetInv == NetTypeOK /\ AirHonest /\ RemotesKnowMaster

-----------------------------------------------------------------------------
Kinds  == {"EVTMASTER_SET", "READ", "REPORT", "TIME_BROADCAST"}
Tables == [XStations -> [XStations -> XStations \cup {Unknown}]]

(* What a call sends is a set of packets with the fields it was given.     *)
LEMMA SentPackets ==
  ASSUME NEW table \in Tables, NEW s \in XStations, NEW kind \in Kinds,
         NEW from \in XStations, NEW to \in XStations \cup {Everyone},
         NEW p \in XBeeSendPacket(table, s, kind, from, to)
  PROVE  /\ p \in Packets
         /\ p.kind = kind /\ p.from = from /\ p.to = to /\ p.sender = s
         /\ p.receiver \in ReceiversOf(table, s, to) /\ p.receiver # s
<1>1. PICK d \in ReceiversOf(table, s, to) :
        p = [kind |-> kind, from |-> from, to |-> to, sender |-> s, receiver |-> d]
  BY DEF XBeeSendPacket
<1>2. d \in XStations /\ d # s
  <2>1. CASE to # Everyone /\ table[s][to] # Unknown
    <3>1. to \in XStations  BY <2>1
    <3>2. table[s][to] \in XStations  BY <2>1, <3>1 DEF Tables
    <3> QED  BY <2>1, <3>2 DEF ReceiversOf
  <2>2. CASE ~(to # Everyone /\ table[s][to] # Unknown)
    BY <2>2 DEF ReceiversOf
  <2> QED  BY <2>1, <2>2
<1> QED  BY <1>1, <1>2 DEF Packets, Kinds

(* The air after a transmission holds nothing but what was there and what  *)
(* was sent, and not too much.                                             *)
LEMMA Transmitted ==
  ASSUME NEW s, NEW rest, NEW packets, NetTransmit(s, rest, packets)
  PROVE  air' \subseteq rest \cup packets /\ Cardinality(air') <= MaxAir
BY DEF NetTransmit

(* The tables keep their types.                                            *)
LEMMA TableUpdated ==
  ASSUME NetTypeOK, NEW p \in Packets
  PROVE  /\ XBeeARPUpdate(p) \in Tables
         /\ \A s, d \in XStations :
              XBeeARPUpdate(p)[s][d] # arpTable[s][d] =>
                s = p.receiver /\ d = p.from /\ XBeeARPUpdate(p)[s][d] = p.sender
BY DEF NetTypeOK, Packets, XBeeARPUpdate, Tables

-----------------------------------------------------------------------------
(* The invariant holds initially.                                          *)
LEMMA NetInvInit == NetInit => NetInv
<1> SUFFICES ASSUME NetInit PROVE NetInv
  OBVIOUS
<1>1. Cardinality(air) <= MaxAir
  BY FS_EmptySet, XBeeAssumption DEF NetInit
<1>2. NetTypeOK
  BY <1>1 DEF NetInit, NetTypeOK, NoAddresses, Packets
<1> QED  BY <1>2 DEF NetInv, NetInit, AirHonest, RemotesKnowMaster, NoAddresses, XStations

(* Registrations are honest packets.                                       *)
LEMMA HonestRegistrations ==
  ASSUME NetTypeOK,
         NEW table \in Tables,
         NEW p \in Registrations(table)
  PROVE  p \in Packets /\ Honest(p)
<1>1. PICK r \in Remotes : p \in XBeeSendPacket(table, Master, "EVTMASTER_SET", Master, r)
  BY DEF Registrations
<1>2. /\ p \in Packets
      /\ p.kind = "EVTMASTER_SET" /\ p.from = Master /\ p.to = r /\ p.sender = Master
      /\ p.receiver # Master
  BY <1>1, SentPackets DEF XStations, Kinds
<1>3. p.receiver \in Remotes
  BY <1>2 DEF Packets, XStations
<1> QED  BY <1>2, <1>3 DEF Honest, Requests

(* Every step preserves the invariant.                                     *)
LEMMA NetInvNext == NetInv /\ [NetNext]_netVars => NetInv'
<1> SUFFICES ASSUME NetInv, [NetNext]_netVars PROVE NetInv'
  OBVIOUS
<1> USE DEF NetInv
<1>a. XStations = {Master} \cup Remotes
  BY DEF XStations
<1>b. arpTable \in Tables
  BY DEF NetTypeOK, Tables
<1>c. "READ" \in Kinds /\ "REPORT" \in Kinds /\ "TIME_BROADCAST" \in Kinds
  BY DEF Kinds
<1>d. /\ Master \in XStations
      /\ \A r \in Remotes : r \in XStations /\ r \in XStations \cup {Everyone}
      /\ \A s \in XStations : s \in XStations \cup {Everyone}
      /\ Everyone \in XStations \cup {Everyone}
  BY DEF XStations
<1>1. ASSUME NEW s \in XStations, Boot(s) PROVE NetInv'
  <2>1. fXBeeReady' \in [XStations -> BOOLEAN]
    BY <1>1 DEF Boot, NetTypeOK
  <2>2. arpTable' \in Tables
    BY <1>1 DEF Boot, NetTypeOK, NoAddresses, Tables
  <2>3. NetTransmit(s, {p \in air : p.receiver # s},
                 IF s = Master THEN Registrations(arpTable') ELSE {})
    BY <1>1 DEF Boot
  <2>4. air' \subseteq air \cup Registrations(arpTable') /\ Cardinality(air') <= MaxAir
    BY <2>3, Transmitted
  <2>5. \A p \in air' : p \in Packets /\ Honest(p)
    BY <2>2, <2>4, HonestRegistrations DEF NetTypeOK, AirHonest
  <2>6. RemotesKnowMaster'
    BY <1>1, <1>a DEF Boot, RemotesKnowMaster, NoAddresses, NetTypeOK
  <2> QED  BY <1>1, <2>1, <2>2, <2>4, <2>5, <2>6 DEF Boot, NetTypeOK, Tables, AirHonest, Honest
<1>2. ASSUME NEW r \in Remotes, SendRequest(r) PROVE NetInv'
  <2>1. air' \subseteq air \cup XBeeSendPacket(arpTable, Master, "READ", Master, r)
          /\ Cardinality(air') <= MaxAir
    BY <1>2, Transmitted DEF SendRequest
  <2>2. \A p \in XBeeSendPacket(arpTable, Master, "READ", Master, r) : p \in Packets /\ Honest(p)
    <3> SUFFICES ASSUME NEW p \in XBeeSendPacket(arpTable, Master, "READ", Master, r)
                 PROVE  p \in Packets /\ Honest(p)
      OBVIOUS
    <3>1. /\ p \in Packets /\ p.kind = "READ" /\ p.from = Master /\ p.to = r
          /\ p.sender = Master /\ p.receiver # Master
      BY SentPackets, <1>b, <1>c, <1>d
    <3> QED  BY <3>1, <1>a DEF Packets, Honest, Requests
  <2> QED  BY <1>2, <2>1, <2>2
           DEF SendRequest, NetTypeOK, AirHonest, Honest, RemotesKnowMaster
<1>3. ASSUME NEW r \in Remotes, SendEvent(r) PROVE NetInv'
  <2>1. evtMaster[r] \in XStations
    BY <1>3, <1>a DEF SendEvent, NetTypeOK
  <2>2. air' \subseteq air \cup XBeeSendPacket(arpTable, r, "REPORT", r, evtMaster[r])
          /\ Cardinality(air') <= MaxAir
    BY <1>3, Transmitted DEF SendEvent
  <2>3. \A p \in XBeeSendPacket(arpTable, r, "REPORT", r, evtMaster[r]) : p \in Packets /\ Honest(p)
    <3> SUFFICES ASSUME NEW p \in XBeeSendPacket(arpTable, r, "REPORT", r, evtMaster[r])
                 PROVE  p \in Packets /\ Honest(p)
      OBVIOUS
    <3>1. p \in Packets /\ p.kind = "REPORT" /\ p.from = r
      BY <2>1, SentPackets, <1>b, <1>c, <1>d
    <3> QED  BY <3>1 DEF Honest
  <2> QED  BY <1>3, <2>2, <2>3
           DEF SendEvent, NetTypeOK, AirHonest, Honest, RemotesKnowMaster
<1>4. ASSUME SendTimeBroadcast PROVE NetInv'
  <2>1. air' \subseteq air \cup XBeeSendPacket(arpTable, Master, "TIME_BROADCAST", Master, Everyone)
          /\ Cardinality(air') <= MaxAir
    BY <1>4, Transmitted DEF SendTimeBroadcast
  <2>2. \A p \in XBeeSendPacket(arpTable, Master, "TIME_BROADCAST", Master, Everyone) :
          p \in Packets /\ Honest(p)
    <3> SUFFICES ASSUME NEW p \in XBeeSendPacket(arpTable, Master, "TIME_BROADCAST", Master, Everyone)
                 PROVE  p \in Packets /\ Honest(p)
      OBVIOUS
    <3>1. /\ p \in Packets /\ p.kind = "TIME_BROADCAST" /\ p.from = Master
          /\ p.sender = Master /\ p.receiver # Master
      BY SentPackets, <1>b, <1>c, <1>d
    <3> QED  BY <3>1, <1>a DEF Packets, Honest, Requests
  <2> QED  BY <1>4, <2>1, <2>2
           DEF SendTimeBroadcast, NetTypeOK, AirHonest, Honest, RemotesKnowMaster
<1>5. ASSUME NEW p \in air, ProcessNewFrame(p) PROVE NetInv'
  <2>1. p \in Packets /\ Honest(p)
    BY DEF NetTypeOK, AirHonest
  <2>2. arpTable' = XBeeARPUpdate(p)
    BY <1>5 DEF ProcessNewFrame
  <2>3. arpTable' \in Tables
    BY <2>1, <2>2, TableUpdated
  <2>4. evtMaster' \in [XStations -> {Master, Unknown}]
    BY <1>5, <2>1 DEF ProcessNewFrame, MessageEvtMasterSet, NetTypeOK, Honest, Packets
  <2>5. air' \subseteq air \cup Answer(p, arpTable') /\ Cardinality(air') <= MaxAir
    <3>1. NetTransmit(p.receiver, air \ {p}, Answer(p, arpTable'))
      BY <1>5 DEF ProcessNewFrame
    <3> QED  BY <3>1, Transmitted
  <2>6. \A a \in Answer(p, arpTable') : a \in Packets /\ Honest(a)
    <3> SUFFICES ASSUME NEW a \in Answer(p, arpTable') PROVE a \in Packets /\ Honest(a)
      OBVIOUS
    <3>1. /\ p.kind \in Requests
          /\ a \in XBeeSendPacket(arpTable', p.receiver, "REPORT", p.to, p.from)
      BY DEF Answer
    <3>2. p.to \in Remotes /\ p.from \in XStations /\ p.receiver \in XStations
      BY <2>1, <3>1 DEF Honest, Requests, Packets
    <3>3. a \in Packets /\ a.kind = "REPORT" /\ a.from = p.to
      BY <2>3, <3>1, <3>2, <1>c, <1>d, SentPackets
    <3> QED  BY <3>2, <3>3 DEF Honest
  <2>7. RemotesKnowMaster'
    <3> SUFFICES ASSUME NEW r \in Remotes PROVE arpTable'[r][Master] \in {Master, Unknown}
      BY DEF RemotesKnowMaster
    <3>1. CASE arpTable'[r][Master] = arpTable[r][Master]
      BY <3>1 DEF RemotesKnowMaster
    <3>2. CASE arpTable'[r][Master] # arpTable[r][Master]
      <4>1. p.from = Master /\ arpTable'[r][Master] = p.sender
        BY <2>1, <2>2, <3>2, <1>a, TableUpdated
      <4>2. p.sender = Master
        BY <2>1, <4>1, XBeeAssumption DEF Honest
      <4> QED  BY <4>1, <4>2
    <3> QED  BY <3>1, <3>2
  <2> QED  BY <1>5, <2>3, <2>4, <2>5, <2>6, <2>7 DEF ProcessNewFrame, NetTypeOK, Tables, AirHonest, Honest
<1>6. CASE UNCHANGED netVars
  BY <1>6 DEF netVars, NetTypeOK, AirHonest, Honest, RemotesKnowMaster
<1> QED  BY <1>1, <1>2, <1>3, <1>4, <1>5, <1>6 DEF NetNext

(* The invariant holds in every reachable state.                           *)
LEMMA NetInvariance == NetSpec => []NetInv
BY NetInvInit, NetInvNext, PTL DEF NetSpec

(* Tables hold stations, whatever is heard, missed or answered.            *)
THEOREM NetworkTypeCorrect == NetSpec => []NetTypeOK
<1>1. NetInv => NetTypeOK
  BY DEF NetInv
<1> QED  BY <1>1, NetInvariance, PTL

(* No remote mistakes another remote for the master, however many remotes  *)
(* there are.                                                              *)
THEOREM MasterIsKnown == NetSpec => []RemotesKnowMaster
<1>1. NetInv => RemotesKnowMaster
  BY DEF NetInv
<1> QED  BY <1>1, NetInvariance, PTL

-----------------------------------------------------------------------------
(* Once all remotes are known nobody speaks for another, and then nobody   *)
(* is ever taken for another.                                              *)
LEMMA SettledStep ==
  ASSUME NetInv, Settled, [NetNext]_netVars
  PROVE  Settled' \/ arpTable'[Master] = NoAddresses
<1> USE DEF NetInv
<1>b. arpTable \in Tables
  BY DEF NetTypeOK, Tables
<1>c. "READ" \in Kinds /\ "REPORT" \in Kinds /\ "TIME_BROADCAST" \in Kinds
  BY DEF Kinds
<1>d. /\ Master \in XStations
      /\ \A r \in Remotes : r \in XStations /\ r \in XStations \cup {Everyone}
      /\ \A s \in XStations : s \in XStations \cup {Everyone}
      /\ Everyone \in XStations \cup {Everyone}
      /\ \A r \in Remotes : r # Everyone /\ r # Unknown
  BY XBeeAssumption DEF XStations
<1>1. ASSUME NEW s \in XStations, Boot(s) PROVE Settled' \/ arpTable'[Master] = NoAddresses
  <2>1. CASE s = Master
    BY <1>1, <1>b, <1>d, <2>1 DEF Boot, Tables
  <2>2. CASE s # Master
    <3>1. arpTable'[Master] = arpTable[Master]
      BY <1>1, <1>b, <1>d, <2>2 DEF Boot, Tables
    <3>2. air' \subseteq air
      <4>1. NetTransmit(s, {p \in air : p.receiver # s}, {})
        BY <1>1, <2>2 DEF Boot
      <4> QED  BY <4>1, Transmitted
    <3> QED  BY <3>1, <3>2 DEF Settled, Impostor
  <2> QED  BY <2>1, <2>2
<1>2. ASSUME NEW r \in Remotes, SendRequest(r) PROVE Settled'
  <2>1. air' \subseteq air \cup XBeeSendPacket(arpTable, Master, "READ", Master, r)
    BY <1>2, Transmitted DEF SendRequest
  <2>2. \A p \in XBeeSendPacket(arpTable, Master, "READ", Master, r) : ~Impostor(p)
    <3> SUFFICES ASSUME NEW p \in XBeeSendPacket(arpTable, Master, "READ", Master, r)
                 PROVE  ~Impostor(p)
      OBVIOUS
    <3>1. p.kind = "READ" /\ p.to = r /\ p.receiver \in ReceiversOf(arpTable, Master, r)
      BY SentPackets, <1>b, <1>c, <1>d
    <3>2. p.receiver = r
      BY <3>1, <1>d DEF ReceiversOf, Settled
    <3> QED  BY <3>1, <3>2 DEF Impostor
  <2> QED  BY <1>2, <2>1, <2>2 DEF SendRequest, Settled, Impostor
<1>3. ASSUME NEW r \in Remotes, SendEvent(r) PROVE Settled'
  <2>1. evtMaster[r] \in XStations \cup {Everyone}
    BY <1>3, <1>d DEF SendEvent, NetTypeOK
  <2>2. air' \subseteq air \cup XBeeSendPacket(arpTable, r, "REPORT", r, evtMaster[r])
    BY <1>3, Transmitted DEF SendEvent
  <2>3. \A p \in XBeeSendPacket(arpTable, r, "REPORT", r, evtMaster[r]) : ~Impostor(p)
    <3> SUFFICES ASSUME NEW p \in XBeeSendPacket(arpTable, r, "REPORT", r, evtMaster[r])
                 PROVE  ~Impostor(p)
      OBVIOUS
    <3>1. p.kind = "REPORT" /\ p.from = r /\ p.sender = r
      BY <2>1, SentPackets, <1>b, <1>c, <1>d
    <3> QED  BY <3>1 DEF Impostor, Requests
  <2> QED  BY <1>3, <2>2, <2>3 DEF SendEvent, Settled, Impostor
<1>4. ASSUME SendTimeBroadcast PROVE Settled'
  <2>1. air' \subseteq air \cup XBeeSendPacket(arpTable, Master, "TIME_BROADCAST", Master, Everyone)
    BY <1>4, Transmitted DEF SendTimeBroadcast
  <2>2. \A p \in XBeeSendPacket(arpTable, Master, "TIME_BROADCAST", Master, Everyone) : ~Impostor(p)
    <3> SUFFICES ASSUME NEW p \in XBeeSendPacket(arpTable, Master, "TIME_BROADCAST", Master, Everyone)
                 PROVE  ~Impostor(p)
      OBVIOUS
    <3>1. p.kind = "TIME_BROADCAST"
      BY SentPackets, <1>b, <1>c, <1>d
    <3> QED  BY <3>1 DEF Impostor, Requests
  <2> QED  BY <1>4, <2>1, <2>2 DEF SendTimeBroadcast, Settled, Impostor
<1>5. ASSUME NEW p \in air, ProcessNewFrame(p) PROVE Settled'
  <2>1. p \in Packets /\ Honest(p) /\ ~Impostor(p)
    BY DEF NetTypeOK, AirHonest, Settled
  <2>2. arpTable' = XBeeARPUpdate(p) /\ arpTable' \in Tables
    BY <1>5, <2>1, TableUpdated DEF ProcessNewFrame
  <2>3. ASSUME NEW r \in Remotes PROVE arpTable'[Master][r] = r
    <3>1. CASE arpTable'[Master][r] = arpTable[Master][r]
      BY <3>1 DEF Settled
    <3>2. CASE arpTable'[Master][r] # arpTable[Master][r]
      <4>1. r = p.from /\ arpTable'[Master][r] = p.sender
        BY <2>1, <2>2, <3>2, <1>d, TableUpdated
      <4>2. p.kind = "REPORT"
        BY <2>1, <4>1, XBeeAssumption DEF Honest
      <4> QED  BY <2>1, <4>1, <4>2 DEF Impostor
    <3> QED  BY <3>1, <3>2
  <2>4. air' \subseteq air \cup Answer(p, arpTable')
    <3>1. NetTransmit(p.receiver, air \ {p}, Answer(p, arpTable'))
      BY <1>5 DEF ProcessNewFrame
    <3> QED  BY <3>1, Transmitted
  <2>5. \A a \in Answer(p, arpTable') : ~Impostor(a)
    <3> SUFFICES ASSUME NEW a \in Answer(p, arpTable') PROVE ~Impostor(a)
      OBVIOUS
    <3>1. /\ p.kind \in Requests
          /\ a \in XBeeSendPacket(arpTable', p.receiver, "REPORT", p.to, p.from)
      BY DEF Answer
    <3>2. /\ p.to \in Remotes /\ p.from \in XStations /\ p.receiver \in XStations
          /\ p.to = p.receiver
      BY <2>1, <3>1 DEF Honest, Requests, Packets, Impostor
    <3>3. a.kind = "REPORT" /\ a.from = p.to /\ a.sender = p.receiver
      BY <2>2, <3>1, <3>2, <1>c, <1>d, SentPackets
    <3> QED  BY <3>2, <3>3 DEF Impostor, Requests
  <2> QED  BY <2>3, <2>4, <2>5 DEF Settled, Impostor
<1>6. CASE UNCHANGED netVars
  BY <1>6 DEF netVars, Settled, Impostor
<1> QED  BY <1>1, <1>2, <1>3, <1>4, <1>5, <1>6 DEF NetNext

(* Whatever is lost and whichever remote resets, a master that has found   *)
(* all its remotes keeps their addresses right until it resets itself.     *)
THEOREM SettledForever == NetSpec => StaysSettled
<1>1. NetInv /\ [NetNext]_netVars => [Settled => Settled' \/ arpTable'[Master] = NoAddresses]_netVars
  BY SettledStep
<1> QED  BY <1>1, NetInvariance, PTL DEF NetSpec, StaysSettled

=============================================================================
