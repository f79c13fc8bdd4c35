---------------------------- MODULE CounterMeter ----------------------------
(***************************************************************************)
(* The water meter of a remote station (sensors.cpp): a timer interrupt    *)
(* samples the input, suppresses ringing and counts pulses; the sensor     *)
(* poller takes the pulses over, scales them and reports a running total.  *)
(* The interrupt may come between any two steps of the poller, except in   *)
(* the section that runs with interrupts disabled.                         *)
(*                                                                         *)
(* A definition whose comment starts with "Fault:" is a faulty variant of  *)
(* the definition after it, which nothing uses.                            *)
(***************************************************************************)
EXTENDS Integers

CONSTANTS
  RING_DELAY,     \* SENSOR_COUNTERMETER_RING_DELAY
  MULT, DIV,      \* SENSOR_CHANNEL_COUNTERMETER_1_MULT and _DIV
  WORD,           \* 2^16, the range of the counters
  MaxEdges,       \* falling edges of the input in a behaviour
  MaxPolls        \* polls that find new pulses

ASSUME MeterAssumption ==
  /\ RING_DELAY \in Nat /\ MULT \in Nat /\ DIV \in Nat \ {0}
  /\ WORD \in Nat \ {0} /\ MaxEdges \in Nat /\ MaxPolls \in Nat

VARIABLES
  uOldCounterMeter1,   \* the level the interrupt has accepted
  urCounterMeter1,     \* differing samples it has ignored
  fCounterMeter1,      \* the flag: pulses to take over
  cCounterMeter1,      \* raw pulses, modulo WORD
  oldCM1, newCM1,      \* the raw pulses at the last poll and at this one
  normalizedCM1,       \* the running total, modulo WORD
  at,                  \* where the poller is
  level,               \* history: the last sample
  edges,               \* history: falling edges in the samples
  taken,               \* history: raw pulses in the running total
  polls                \* history: how often pulses have been taken over

isrVars   == <<uOldCounterMeter1, urCounterMeter1, level, edges>>
pollVars  == <<oldCM1, newCM1, normalizedCM1, at, taken, polls>>
meterVars == <<isrVars, fCounterMeter1, cCounterMeter1, pollVars>>

LOW    == 0
HIGH   == 1
ACTIVE == LOW

MeterInit ==
  /\ uOldCounterMeter1 = LOW /\ urCounterMeter1 = 0 /\ level = LOW /\ edges = 0
  /\ fCounterMeter1 = TRUE /\ cCounterMeter1 = 0
  /\ oldCM1 = 0 /\ newCM1 = 0 /\ normalizedCM1 = 0
  /\ at = "idle" /\ taken = 0 /\ polls = 0

-----------------------------------------------------------------------------
(* Fault: a pulse is counted at both of its edges.                         *)
AcceptBothEdges(sample) ==
  /\ uOldCounterMeter1' = sample /\ UNCHANGED urCounterMeter1
  /\ cCounterMeter1' = (cCounterMeter1 + 1) % WORD /\ fCounterMeter1' = TRUE

(* The input has changed: count a change to the active level.              *)
Accept(sample) ==
  /\ uOldCounterMeter1' = sample /\ UNCHANGED urCounterMeter1
  /\ IF sample = ACTIVE
     THEN /\ cCounterMeter1' = (cCounterMeter1 + 1) % WORD
          /\ fCounterMeter1' = TRUE
     ELSE UNCHANGED <<cCounterMeter1, fCounterMeter1>>

(* The interrupt, every 10 ms.                                             *)
pollSensorIsr(sample) ==
  /\ edges' = edges + (IF level = HIGH /\ sample = LOW THEN 1 ELSE 0)
  /\ edges' <= MaxEdges
  /\ level' = sample
  /\ IF sample = uOldCounterMeter1
     THEN UNCHANGED <<uOldCounterMeter1, urCounterMeter1, cCounterMeter1, fCounterMeter1>>
     ELSE IF urCounterMeter1 < RING_DELAY
     THEN /\ urCounterMeter1' = urCounterMeter1 + 1
          /\ UNCHANGED <<uOldCounterMeter1, cCounterMeter1, fCounterMeter1>>
     ELSE Accept(sample)
  /\ UNCHANGED pollVars

(* poll_MinTimer: "if( fCounterMeter1 )", with interrupts enabled.         *)
TestFlag ==
  /\ at = "idle" /\ fCounterMeter1 /\ polls < MaxPolls
  /\ at' = "read" /\ polls' = polls + 1
  /\ UNCHANGED <<isrVars, fCounterMeter1, cCounterMeter1,
                 oldCM1, newCM1, normalizedCM1, taken>>

(* The section with interrupts disabled.                                   *)
ReadCounter ==
  /\ at = "read" /\ at' = "add"
  /\ newCM1' = cCounterMeter1 /\ fCounterMeter1' = FALSE
  /\ UNCHANGED <<isrVars, cCounterMeter1, oldCM1, normalizedCM1, taken, polls>>

(* Raw pulses since the last poll: an unsigned difference.                 *)
Delta == (newCM1 - oldCM1) % WORD

Scaled == ((Delta * MULT) \div DIV) % WORD

(* Fault: the flag is cleared when the pulses have been added.             *)
AddDeltaClearsFlag ==
  /\ at = "add" /\ at' = "idle"
  /\ oldCM1' = newCM1 /\ taken' = taken + Delta
  /\ normalizedCM1' = (normalizedCM1 + Scaled) % WORD
  /\ fCounterMeter1' = FALSE
  /\ UNCHANGED <<isrVars, cCounterMeter1, newCM1, polls>>

(* The total is updated, and then reported.                                *)
AddDelta ==
  /\ at = "add" /\ at' = "idle"
  /\ oldCM1' = newCM1 /\ taken' = taken + Delta
  /\ normalizedCM1' = (normalizedCM1 + Scaled) % WORD
  /\ UNCHANGED <<isrVars, fCounterMeter1, cCounterMeter1, newCM1, polls>>

MeterNext ==
  \/ \E sample \in {LOW, HIGH} : pollSensorIsr(sample)
  \/ TestFlag \/ ReadCounter \/ AddDelta

MeterSpec == MeterInit /\ [][MeterNext]_meterVars

-----------------------------------------------------------------------------
(* The counters are words, and the poller is in one of three places.       *)
MeterTypeOK ==
  /\ uOldCounterMeter1 \in {LOW, HIGH} /\ level \in {LOW, HIGH}
  /\ urCounterMeter1 \in 0 .. RING_DELAY
  /\ fCounterMeter1 \in BOOLEAN
  /\ cCounterMeter1 \in 0 .. WORD - 1 /\ oldCM1 \in 0 .. WORD - 1
  /\ newCM1 \in 0 .. WORD - 1 /\ normalizedCM1 \in 0 .. WORD - 1
  /\ at \in {"idle", "read", "add"}
  /\ edges \in Nat /\ taken \in Nat /\ polls \in Nat

(* A pulse that comes while the poller is at work is not forgotten: with   *)
(* the flag down every pulse counted is in the total or on its way there.  *)
NoPulseForgotten ==
  ~fCounterMeter1 => cCounterMeter1 = IF at = "add" THEN newCM1 ELSE oldCM1

(* Ring suppression is spent once: of all falling edges in the samples,    *)
(* whatever the pattern, at most RING_DELAY are not counted, and no edge   *)
(* is counted twice (up to the wrap of the counter).                       *)
EdgesCounted ==
  \E missed \in 0 .. urCounterMeter1 : (edges - missed - cCounterMeter1) % WORD = 0

(* Scaling drops less than one unit per poll, and invents nothing, also    *)
(* when the counters wrap.                                                 *)
ScalingLoss ==
  \E loss \in 0 .. polls * (DIV - 1) :
    (normalizedCM1 * DIV + loss - taken * MULT) % (WORD * DIV) = 0

(* From the edges of the meter's switch to the scaled reading nothing is   *)
(* counted twice and no more is lost than suppression and scaling drop.    *)
MeterCounts == EdgesCounted /\ ScalingLoss

=============================================================================
