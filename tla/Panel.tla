------------------------------- MODULE Panel -------------------------------
(***************************************************************************)
(* The panel of a station: four buttons, read without waiting (keys.cpp),  *)
(* and the screens they lead through (localUI.cpp).  What the screens do   *)
(* to the run state is in RunState; here is how a run comes to be asked    *)
(* for.                                                                    *)
(*                                                                         *)
(* panel.key is the state of get_button_async; its times are ages, kept    *)
(* while they are looked at and no longer than to the delays.  A screen    *)
(* that is entered reads the keys again, within the same call.             *)
(*                                                                         *)
(* A definition whose comment starts with "Fault:" is a faulty variant of  *)
(* the definition after it, which nothing uses.                            *)
(***************************************************************************)
EXTENDS Integers

CONSTANTS
  LASTBOARD,       \* MAX_STATIONS - 1
  BoardTables,     \* what the EEPROM may say of the stations
  DefaultBoard,    \* the block that ResetEEPROM_NoSD writes
  DEBOUNCE, HOLD, REPEAT_INTERVAL,   \* KEY_DEBOUNCE_DELAY and so on, in ticks
  BYTE,            \* 256, the range of uint8_t
  MAX_MINUTES,     \* 99, the longest manual run
  MAX_ID,          \* 9, the largest station number the setup screen offers
  MaxPresses       \* presses that history tells apart, three at least

Boards == 0 .. LASTBOARD
Keys   == {"MODE", "UP", "DOWN", "CONFIRM"}
BoardBlocks == [valid : BOOLEAN, channels : 0 .. BYTE - 1]

ASSUME PanelAssumption ==
  /\ {LASTBOARD, BYTE, DEBOUNCE, HOLD, REPEAT_INTERVAL, MAX_MINUTES, MAX_ID} \subseteq Nat \ {0}
  /\ DEBOUNCE < HOLD /\ MAX_ID <= LASTBOARD /\ LASTBOARD < BYTE /\ MAX_MINUTES < BYTE
  /\ MaxPresses \in Nat /\ MaxPresses > 2
  /\ DefaultBoard \in BoardBlocks
  /\ BoardTables \subseteq [mine : Boards, block : [Boards -> BoardBlocks]]

VARIABLES
  boards,     \* GetMyStationID and the station blocks
  withCard,   \* built with HW_ENABLE_SD, and so without a setup screen
  held,       \* the button the user holds down (two at a time act as none)
  panel,      \* screens and keys
  presses,    \* history: presses on the manual screen since it was entered
  run         \* history: the run that the latest step asked for

panelVars == <<boards, withCard, held, panel, presses, run>>

NoRun == [board |-> 0, channel |-> 0, minutes |-> 0, presses |-> 0]

(* begin(), then set_mode(OSUI_MODE_HOME) once the station is up.          *)
PanelStart(board) ==
  [mode |-> "home", board |-> board, channels |-> 0, channel |-> 0, editing |-> FALSE,
   number |-> 0,
   key |-> [state |-> "idle", old |-> "NONE", age |-> 0, sent |-> FALSE, since |-> 0]]

PanelInit ==
  /\ boards \in BoardTables /\ withCard \in BOOLEAN
  /\ held = "NONE" /\ panel = PanelStart(boards.mine) /\ presses = 0 /\ run = NoRun

-----------------------------------------------------------------------------
(* get_button_async: what it remembers, and the key it returns.            *)
KeyIdle(k) == [k EXCEPT !.state = "idle", !.old = "NONE", !.age = 0]

NextKeys(k, repeat) ==
  CASE k.state = "idle" ->
         IF held = "NONE" THEN k
         ELSE [k EXCEPT !.state = "debounce", !.old = held, !.age = 0]
    [] k.state = "debounce" ->
         IF k.age < DEBOUNCE THEN k
         ELSE IF held # k.old THEN KeyIdle(k) ELSE [k EXCEPT !.state = "held"]
    [] k.state = "held" ->
         IF held # k.old THEN KeyIdle(k)
         ELSE IF ~repeat \/ k.age < HOLD THEN k
         ELSE IF ~k.sent THEN [k EXCEPT !.sent = TRUE, !.since = 0]
         ELSE IF k.since <= REPEAT_INTERVAL THEN k
         ELSE [k EXCEPT !.sent = FALSE, !.since = 0]

KeyOf(k, repeat) ==
  LET n == NextKeys(k, repeat) IN
  IF n.state = "held" /\ (k.state = "debounce" \/ (n.sent /\ ~k.sent))
  THEN k.old ELSE "NONE"

Read(p, repeat) == [p EXCEPT !.key = NextKeys(@, repeat)]

(* GetNextStation and GetPrevStation: the next enabled station in a cyclic *)
(* order that lacks the last station, the present one if there is no other.*)
Valid(from, to) == {b \in from .. to : boards.block[b].valid}
Least(S)        == CHOOSE b \in S : \A c \in S : b <= c
Greatest(S)     == CHOOSE b \in S : \A c \in S : b >= c

GetNextStation(b) ==
  LET above == Valid(b + 1, LASTBOARD - 1)
      below == Valid(0, b - 1)
  IN  IF above # {} THEN Least(above) ELSE IF below # {} THEN Least(below) ELSE b

GetPrevStation(b) ==
  LET below == Valid(0, b - 1)
      above == Valid(b + 1, LASTBOARD - 1)
  IN  IF below # {} THEN Greatest(below) ELSE IF above # {} THEN Greatest(above) ELSE b

(* A search in vain ends where it started, but upwards it never comes back *)
(* to station 0, nor downwards to the last one.                            *)
SearchHangs(b, k) ==
  /\ Valid(0, LASTBOARD - 1) = {}
  /\ \/ k = "UP" /\ b = 0
     \/ k = "DOWN" /\ b = LASTBOARD

-----------------------------------------------------------------------------
(* set_mode.  The screens without repetition read no key when entered, and *)
(* the channels are not read until the manual screen sets them again.      *)
EnterHome(p)   == [p EXCEPT !.mode = "home", !.board = boards.mine,
                            !.channel = 0, !.channels = 0]
EnterStatus(p) == [p EXCEPT !.mode = "status", !.channel = 0, !.channels = 0]

(* Fault: the channel after the last one can be selected.                  *)
TurnTooFar(n, k, first, count) ==
  CASE k = "UP"   -> IF n < first + count THEN n + 1 ELSE first
    [] k = "DOWN" -> IF n > first THEN n - 1 ELSE (first + count - 1) % BYTE
    [] OTHER      -> n

(* UP and DOWN on count numbers, in bytes: 0 - 1 wraps.                    *)
Turn(n, k, first, count) ==
  CASE k = "UP"   -> IF n < first + count - 1 THEN n + 1 ELSE first
    [] k = "DOWN" -> IF n > first THEN n - 1 ELSE (first + count - 1) % BYTE
    [] OTHER      -> n

(* The manual screen: first a channel, then the minutes.                   *)
Manual(p) ==
  LET k == KeyOf(p.key, TRUE)
      seen == Read(p, TRUE)
  IN  CASE k = "MODE" -> EnterStatus(seen)
        [] k = "CONFIRM" /\ ~p.editing -> [seen EXCEPT !.editing = TRUE, !.number = 0]
        [] k = "CONFIRM" /\ p.editing  -> EnterHome(seen)
        [] k \notin {"MODE", "CONFIRM"} /\ ~p.editing ->
             [seen EXCEPT !.channel = Turn(@, k, 0, p.channels)]
        [] k \notin {"MODE", "CONFIRM"} /\ p.editing ->
             [seen EXCEPT !.number = Turn(@, k, 0, MAX_MINUTES + 1)]

EnterManual(p) ==
  Manual([p EXCEPT !.mode = "manual", !.editing = FALSE, !.channel = 0,
                   !.channels = boards.block[p.board].channels])

(* The setup screen: the number of the station.                            *)
Setup(p) ==
  LET k == KeyOf(p.key, TRUE)
      seen == Read(p, TRUE)
  IN  CASE k = "MODE" -> EnterHome(seen)
        [] k = "CONFIRM" -> [seen EXCEPT !.editing = TRUE, !.number = boards.mine]
        [] k \notin {"MODE", "CONFIRM"} ->
             IF p.editing THEN [seen EXCEPT !.number = Turn(@, k, 1, MAX_ID)] ELSE seen

EnterSetup(p) ==
  IF withCard THEN EnterHome(p)
  ELSE Setup([p EXCEPT !.mode = "setup", !.editing = FALSE])

-----------------------------------------------------------------------------
PollHome(board) ==
  /\ panel.mode = "home"
  /\ LET k == KeyOf(panel.key, FALSE)
         seen == Read(panel, FALSE)
     IN  /\ panel' =
              CASE k = "MODE" -> EnterManual(seen)
                [] k \in {"UP", "DOWN"} /\ SearchHangs(seen.board, k) ->
                     [seen EXCEPT !.mode = "hung"]
                [] k \in {"UP", "DOWN"} /\ ~SearchHangs(seen.board, k) ->
                     [seen EXCEPT !.board = board]
                [] k \in {"CONFIRM", "NONE"} -> [seen EXCEPT !.board = board]
         /\ \/ boards.block[board].channels > 0   \* that of the active zone
            \/ board = CASE k = "UP" -> GetNextStation(seen.board)
                         [] k = "DOWN" -> GetPrevStation(seen.board)
                         [] k \notin {"UP", "DOWN"} -> seen.board
  /\ run' = NoRun /\ UNCHANGED <<boards, withCard, held, presses>>

(* CONFIRM on the minutes calls StartZone unless they are 0.               *)
PollManual ==
  /\ panel.mode = "manual" /\ panel' = Manual(panel)
  /\ run' = IF KeyOf(panel.key, TRUE) = "CONFIRM" /\ panel.editing /\ panel.number # 0
            THEN [board |-> panel.board, channel |-> panel.channel,
                  minutes |-> panel.number, presses |-> presses]
            ELSE NoRun
  /\ presses' = IF panel'.mode = "manual" THEN presses ELSE 0
  /\ UNCHANGED <<boards, withCard, held>>

(* The pages of the status screen are left out.                            *)
PollStatus ==
  /\ panel.mode = "status"
  /\ LET seen == Read(panel, FALSE) IN
     panel' = IF KeyOf(panel.key, FALSE) = "MODE" THEN EnterSetup(seen) ELSE seen
  /\ run' = NoRun /\ UNCHANGED <<boards, withCard, held, presses>>

(* CONFIRM on a number loads the defaults for it (Provisioning) and resets.*)
PollSetup ==
  /\ panel.mode = "setup"
  /\ IF KeyOf(panel.key, TRUE) = "CONFIRM" /\ panel.editing
     THEN /\ boards' = [mine |-> panel.number,
                        block |-> [b \in Boards |->
                          IF b = panel.number THEN DefaultBoard
                          ELSE [valid |-> FALSE, channels |-> 0]]]
          /\ panel' = PanelStart(panel.number)
     ELSE panel' = Setup(panel) /\ UNCHANGED boards
  /\ run' = NoRun /\ UNCHANGED <<withCard, held, presses>>

(* The watchdog ends a search that does not.                               *)
PanelReset ==
  /\ panel.mode = "hung" /\ panel' = PanelStart(boards.mine)
  /\ run' = NoRun /\ UNCHANGED <<boards, withCard, held, presses>>

(* The user presses another button or lets go; the milliseconds advance.   *)
PressKey(k) ==
  /\ k # held /\ held' = k
  /\ presses' = IF panel.mode = "manual" /\ k # "NONE" /\ presses < MaxPresses
                THEN presses + 1 ELSE presses
  /\ run' = NoRun /\ UNCHANGED <<boards, withCard, panel>>

KeysAge ==
  /\ panel' = [panel EXCEPT
       !.key.age   = IF panel.key.state # "idle" /\ @ < HOLD THEN @ + 1 ELSE @,
       !.key.since = IF panel.key.sent /\ @ <= REPEAT_INTERVAL THEN @ + 1 ELSE @]
  /\ run' = NoRun /\ UNCHANGED <<boards, withCard, held, presses>>

PanelNext ==
  \/ \E b \in Boards : PollHome(b)
  \/ PollManual \/ PollStatus \/ PollSetup \/ PanelReset
  \/ \E k \in Keys \cup {"NONE"} : PressKey(k)
  \/ KeysAge

PanelSpec == PanelInit /\ [][PanelNext]_panelVars

-----------------------------------------------------------------------------
(* A run that the panel asks for was meant: of a channel of the station on *)
(* the display, for as long as the screen can show, and by three presses   *)
(* at least (channel, minutes, confirmation), however long buttons are     *)
(* held, repeated, or still down when the screen changes.  A station       *)
(* without channels is the exception: it offers channel 0, the first zone  *)
(* of all (core.cpp:328).                                                  *)
RunsAreMeant ==
  run # NoRun =>
    /\ boards.block[run.board].channels > 0 =>
         run.channel < boards.block[run.board].channels
    /\ run.minutes \in 1 .. MAX_MINUTES
    /\ run.presses >= 3

(* The screens show stations and numbers that exist.                       *)
PanelTypeOK ==
  /\ boards.mine \in Boards /\ withCard \in BOOLEAN
  /\ held \in Keys \cup {"NONE"} /\ presses \in 0 .. MaxPresses
  /\ panel.mode \in {"home", "manual", "status", "setup", "hung"}
  /\ panel.board \in Boards /\ panel.channel \in 0 .. BYTE - 1 /\ panel.number \in 0 .. BYTE - 1

=============================================================================
