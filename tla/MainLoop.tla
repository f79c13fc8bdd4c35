------------------------------ MODULE MainLoop ------------------------------
(***************************************************************************)
(* The super-loop of a station (Station.ino, core.cpp) and the watchdog    *)
(* that restarts the station when a pass takes too long (SgWdt.cpp).  A    *)
(* pass may take any time: it waits for web clients, for the NTP server,   *)
(* for acknowledgements.  Time is counted in tenths of a second.           *)
(*                                                                         *)
(* A definition whose comment starts with "Fault:" is a faulty variant of  *)
(* the definition after it, which nothing uses.                            *)
(***************************************************************************)
EXTENDS Integers

CONSTANTS
  TENTHS,         \* ticks in a second, 10 in the code
  Blocks,         \* the ticks that have a block of periodic work
  WDT_TICK,       \* tenths between two watchdog interrupts, 80 in the code
  WDT_MAX,        \* SG_WDT_MAX_TICK_ALLOWED
  MAX_AGE         \* where the ages below stop counting

ASSUME LoopAssumption ==
  /\ TENTHS \in Nat \ {0} /\ Blocks \subseteq 0 .. TENTHS - 1
  /\ WDT_TICK \in Nat \ {0} /\ WDT_MAX \in Nat \ {0}
  /\ MAX_AGE \in Nat /\ MAX_AGE >= WDT_MAX * WDT_TICK

VARIABLES
  running,        \* a pass is under way
  sinceTick,      \* millis() - old_millis
  tick_counter,
  wdtCounter,
  phase,          \* tenths since the last watchdog interrupt
  passAge,        \* history: tenths since the last pass was complete
  slowest,        \* history: the longest pass since the start
  blockAge        \* history: tenths since each block last ran,
                  \* or since the start

loopVars == <<running, sinceTick, tick_counter, wdtCounter, phase,
              passAge, slowest, blockAge>>

OneMore(age) == IF age < MAX_AGE THEN age + 1 ELSE age

(* A start of the station, at any moment of the watchdog's period.         *)
Started ==
  /\ running' = FALSE /\ sinceTick' = TENTHS /\ tick_counter' = 0
  /\ wdtCounter' = 0 /\ phase' = 0 /\ passAge' = 0 /\ slowest' = 0
  /\ blockAge' = [b \in Blocks |-> 0]

LoopInit ==
  /\ running = FALSE /\ sinceTick = TENTHS /\ tick_counter = 0
  /\ wdtCounter = 0 /\ phase = 0 /\ passAge = 0 /\ slowest = 0
  /\ blockAge = [b \in Blocks |-> 0]

-----------------------------------------------------------------------------
(* Fault: the loop catches up on the ticks a slow pass has missed.         *)
TicksOfPassCatchUp == IF sinceTick >= 1 THEN sinceTick ELSE 0

(* A pass makes at most one tick, however long the previous one took.      *)
TicksOfPass == IF sinceTick >= 1 THEN 1 ELSE 0

(* mainLoop up to the block that is due, which starts to run.              *)
BeginPass ==
  /\ ~running /\ running' = TRUE
  /\ sinceTick' = IF sinceTick >= 1 THEN 0 ELSE sinceTick
  /\ tick_counter' = (tick_counter + TicksOfPass) % TENTHS
  /\ blockAge' = [b \in Blocks |->
                   IF TicksOfPass > 0 /\ b = tick_counter' THEN 0 ELSE blockAge[b]]
  /\ UNCHANGED <<wdtCounter, phase, passAge, slowest>>

(* The rest of the pass, the panel and the radio: loop() resets the        *)
(* watchdog's counter.                                                     *)
EndPass ==
  /\ running /\ running' = FALSE
  /\ wdtCounter' = 0 /\ passAge' = 0
  /\ slowest' = IF passAge > slowest THEN passAge ELSE slowest
  /\ UNCHANGED <<sinceTick, tick_counter, phase, blockAge>>

(* Fault: the interrupt restarts the station one period early.             *)
WdtExpiredEarly == wdtCounter + 1 >= WDT_MAX - 1

(* Fault: the interrupt restarts the station one period late.              *)
WdtExpiredLate == wdtCounter >= WDT_MAX

WdtExpired == wdtCounter + 1 >= WDT_MAX

(* A tenth of a second, with the watchdog's interrupt when it is due.      *)
Tenth ==
  IF phase + 1 = WDT_TICK /\ WdtExpired THEN Started
  ELSE /\ phase' = (phase + 1) % WDT_TICK
       /\ wdtCounter' = IF phase + 1 = WDT_TICK THEN wdtCounter + 1 ELSE wdtCounter
       /\ sinceTick' = OneMore(sinceTick) /\ passAge' = OneMore(passAge)
       /\ blockAge' = [b \in Blocks |-> OneMore(blockAge[b])]
       /\ UNCHANGED <<running, tick_counter, slowest>>

LoopNext == BeginPass \/ EndPass \/ (running /\ Tenth)

LoopSpec == LoopInit /\ [][LoopNext]_loopVars

-----------------------------------------------------------------------------
(* The counters stay below their limits.                                   *)
LoopTypeOK ==
  /\ running \in BOOLEAN
  /\ tick_counter \in 0 .. TENTHS - 1
  /\ wdtCounter \in 0 .. WDT_MAX - 1 /\ phase \in 0 .. WDT_TICK - 1
  /\ {sinceTick, passAge, slowest} \subseteq Nat
  /\ blockAge \in [Blocks -> Nat]

(* The watchdog spares a slow pass: only one that has lasted for all but   *)
(* the first of the watchdog's periods is cut.                             *)
SlowPassSpared ==
  [][running /\ Started => passAge + 1 > (WDT_MAX - 1) * WDT_TICK]_loopVars

(* A pass that hangs is cut in the end, whatever the watchdog's phase when *)
(* it started: no valve stays open behind a hanging loop for longer.       *)
HangsEnd == passAge < WDT_MAX * WDT_TICK

(* Each block has its turn at least once in as many passes as there are    *)
(* ticks: slow passes delay the countdown of zone states, the broadcasts   *)
(* and the sensors, but starve none of them.                               *)
NoBlockStarves ==
  \A b \in Blocks :
    blockAge[b] <= TENTHS * (IF passAge > slowest THEN passAge ELSE slowest)

=============================================================================
