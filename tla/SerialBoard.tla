---------------------------- MODULE SerialBoard ----------------------------
(***************************************************************************)
(* The serial outputs of a station (class LocalBoardSerial, LocalBoard.cpp)*)
(* and the chain of shift registers they drive, one clock at a time.  A    *)
(* command records the channel in outState, shifts every bit of outState   *)
(* into the chain and latches the chain onto the outputs.  The watchdog    *)
(* may restart the station between any two bits; the chain keeps what it   *)
(* holds.                                                                  *)
(*                                                                         *)
(* A definition whose comment starts with "Fault:" is a faulty variant of  *)
(* the definition after it, which nothing uses.                            *)
(***************************************************************************)
EXTENDS Integers

CONSTANTS
  BOARDS,         \* GetNumOSChannels() / 8: whole boards only, a rest of the
                  \* division has channels that are accepted and never driven
  WIDTH           \* bits of a register, 8 in the code

Bits == BOARDS * WIDTH

Channels == 0 .. Bits - 1

(* The channel whose bit is shifted as number k: the boards in order, the  *)
(* highest bit of each first.                                              *)
ChannelAt(k) == WIDTH * (k \div WIDTH) + (WIDTH - 1 - (k % WIDTH))

(* The position in the chain that a channel's valve is wired to: the board *)
(* whose bits go first ends farthest from the station.                     *)
Wire(c) == WIDTH * (BOARDS - 1 - (c \div WIDTH)) + (c % WIDTH)

ASSUME BoardAssumption ==
  /\ BOARDS \in Nat /\ WIDTH \in Nat /\ Bits \in Nat
  /\ \A c \in Channels : Wire(c) \in Channels
  /\ \A c \in Channels : ChannelAt(Bits - 1 - Wire(c)) = c

VARIABLES
  outState,       \* the channels recorded as on, the bits of outState
  chain,          \* the shift registers, the bit shifted last at 0
  latched,        \* the outputs
  step,           \* "down": before begin(); "shift": in a transfer; "idle"
  shifted,        \* the bits shifted in this transfer
  clearing        \* AllChannelsOff: the channel to switch off next, or Bits

boardVars == <<outState, chain, latched, step, shifted, clearing>>

(* At power-up the registers and the outputs hold anything.                *)
BoardInit ==
  /\ outState = {} /\ step = "down" /\ shifted = 0 /\ clearing = Bits
  /\ chain \in [Channels -> BOOLEAN] /\ latched \in [Channels -> BOOLEAN]

-----------------------------------------------------------------------------
(* A transfer of the given state starts.                                   *)
Transfer(state) ==
  /\ outState' = state /\ step' = "shift" /\ shifted' = 0
  /\ UNCHANGED <<chain, latched>>

SwitchOn(c) ==
  /\ step = "idle" /\ Transfer(outState \cup {c}) /\ UNCHANGED clearing

SwitchOff(c) ==
  /\ step = "idle" /\ Transfer(outState \ {c}) /\ UNCHANGED clearing

(* loop(), once a second: the outputs are written again.                   *)
Refresh == step = "idle" /\ Transfer(outState) /\ UNCHANGED clearing

(* AllChannelsOff, and the call of it that begin() ends with: ChannelOff   *)
(* of each channel in turn, each with a transfer of its own.               *)
SwitchAllOff ==
  /\ step = "idle" /\ Bits > 0
  /\ Transfer(outState \ {0}) /\ clearing' = 1

Begin ==
  /\ step = "down" /\ Bits > 0
  /\ Transfer(outState \ {0}) /\ clearing' = 1

(* One bit enters the chain and moves all the others on.                   *)
Shift ==
  /\ step = "shift" /\ shifted < Bits
  /\ chain' = [i \in Channels |->
                IF i = 0 THEN ChannelAt(shifted) \in outState ELSE chain[i - 1]]
  /\ shifted' = shifted + 1
  /\ UNCHANGED <<outState, latched, step, clearing>>

(* Fault: the transfer is latched a bit short.                             *)
LatchBitShort ==
  /\ step = "shift" /\ shifted = Bits - 1
  /\ latched' = chain
  /\ IF clearing < Bits
     THEN /\ outState' = outState \ {clearing}
          /\ clearing' = clearing + 1 /\ step' = "shift" /\ shifted' = 0
     ELSE step' = "idle" /\ UNCHANGED <<outState, clearing, shifted>>
  /\ UNCHANGED chain

(* The rising edge of the latch pin ends the transfer.                     *)
Latch ==
  /\ step = "shift" /\ shifted = Bits
  /\ latched' = chain
  /\ IF clearing < Bits
     THEN /\ outState' = outState \ {clearing}
          /\ clearing' = clearing + 1 /\ step' = "shift" /\ shifted' = 0
     ELSE step' = "idle" /\ UNCHANGED <<outState, clearing, shifted>>
  /\ UNCHANGED chain

(* Fault: the outputs recorded before the restart survive it.              *)
WatchdogKeepsState ==
  /\ step' = "down" /\ shifted' = 0 /\ clearing' = Bits
  /\ UNCHANGED <<outState, chain, latched>>

(* A restart in the middle of anything.                                    *)
Watchdog ==
  /\ step' = "down" /\ shifted' = 0 /\ clearing' = Bits
  /\ outState' = {} /\ UNCHANGED <<chain, latched>>

BoardNext ==
  \/ Begin \/ SwitchAllOff \/ Refresh \/ Shift \/ Latch \/ Watchdog
  \/ \E c \in Channels : SwitchOn(c) \/ SwitchOff(c)

BoardSpec == BoardInit /\ [][BoardNext]_boardVars

-----------------------------------------------------------------------------
(* The channels whose output is driven.                                    *)
Shown == {c \in Channels : latched[Wire(c)]}

(* Types and bounds of the state.                                          *)
BoardTypeOK ==
  /\ outState \subseteq Channels
  /\ chain \in [Channels -> BOOLEAN] /\ latched \in [Channels -> BOOLEAN]
  /\ step \in {"down", "shift", "idle"}
  /\ shifted \in 0 .. Bits /\ clearing \in 0 .. Bits

(* Between two commands the outputs are exactly what the station believes  *)
(* they are, whatever was interrupted before.                              *)
OutputsAreRecorded == step = "idle" => Shown = outState

(* Every valve is driven through the outputs of the registers, which pass  *)
(* through no intermediate state: a command changes one channel and a      *)
(* restart ends with all of them off.                                      *)
Board == INSTANCE ChannelSet WITH on <- Shown, Channels <- Channels

OneChannelAtATime == Board!SetSpec

=============================================================================
