---------------------------- MODULE TimeService ----------------------------
(***************************************************************************)
(* Where the stations get their clocks from: the master asks an NTP server *)
(* (nntp.cpp) and broadcasts its clock to the remotes (RProtocolMS.cpp);   *)
(* both judge whether their clock is reliable by the time since tLastSync. *)
(*                                                                         *)
(* A clock counts from 0 when the station starts.  lead is how far the     *)
(* true time is ahead of the time since the start.  Times that are only    *)
(* ever subtracted are kept as differences, millis() modulo MILLIS.        *)
(*                                                                         *)
(* The main loop comes to its one-second blocks when it can: slow passes   *)
(* make it late, and a request to the server stops it until the answer is  *)
(* there or the wait is over.                                              *)
(*                                                                         *)
(* A definition whose comment starts with "Fault:" is a faulty variant of  *)
(* the definition after it, which nothing uses.                            *)
(***************************************************************************)
EXTENDS Integers, FiniteSets

CONSTANTS
  Listeners,      \* the remotes that hear the master
  OFFLINE,        \* DEFAULT_MAX_OFFLINE_TDELTA in ticks
  BROADCAST,      \* ticks between two broadcasts, 60 s in the code
  MILLIS,         \* 2^32, the range of millis()
  HOUR,           \* ticks in an hour
  INT,            \* 2^16, the range of the compiler's int
  WAIT,           \* ticks getNtpTime waits for an answer, 2 s in the code
  LATE,           \* ticks until the loop comes to its next block, at most
  Leads,          \* true time minus time since the start
  Offsets,        \* time zones users may set, in hours
  MaxTicks,       \* ticks in a behaviour
  MaxMissed       \* broadcasts that may get lost for one remote

ASSUME TimeAssumption ==
  /\ IsFiniteSet(Listeners)
  /\ OFFLINE \in Nat /\ OFFLINE > 4 /\ BROADCAST \in 1 .. OFFLINE - 1
  /\ MILLIS \in Nat /\ MILLIS > 2 * OFFLINE
  /\ HOUR \in Nat /\ INT \in Nat \ {0} /\ WAIT \in Nat /\ LATE \in Nat
  /\ Leads \subseteq Nat /\ Offsets \subseteq Int
  /\ MaxTicks \in Nat /\ MaxMissed \in Nat

(* The loop may be late by minutes, not by as long as a clock counts as    *)
(* reliable.                                                               *)
ASSUME LateAssumption == BROADCAST + 2 * LATE + WAIT < OFFLINE

VARIABLES
  elapsed,            \* ticks since the stations started
  lead,               \* the true time at the start
  offset,             \* GetNTPOffset of the master
  now,                \* the master's clock
  sinceSync,          \* millis() - tLastSync of the master, modulo MILLIS
  nextBroadcastTime,
  block,              \* what the master's main loop does next
  waited,             \* ticks since it has had this to do
  remoteNow,          \* the clock of each remote
  remoteSince,        \* millis() - tLastSync of each remote
  everAnswered,       \* history: the NTP server has answered
  answered,           \* history: the server answered the latest request
  steppedBack,        \* history: ticks the master's clock was set back by
  missed              \* history: broadcasts each remote has missed

clockVars   == <<now, sinceSync, answered, everAnswered, steppedBack>>
remoteVars  == <<remoteNow, remoteSince, missed>>
loopBlock   == <<block, waited>>
timeVars ==
  <<elapsed, lead, offset, clockVars, nextBroadcastTime, loopBlock, remoteVars>>

SYNC == OFFLINE \div 5

TimeInit ==
  /\ elapsed = 0 /\ lead \in Leads /\ offset \in Offsets
  /\ now = 0 /\ sinceSync = OFFLINE /\ nextBroadcastTime = 0
  /\ block = "checkTime" /\ waited = 0
  /\ remoteNow = [r \in Listeners |-> 0]
  /\ remoteSince = [r \in Listeners |-> OFFLINE]
  /\ everAnswered = FALSE /\ answered = FALSE /\ steppedBack = 0
  /\ missed = [r \in Listeners |-> 0]

-----------------------------------------------------------------------------
GetNetworkStatus(since) == since < OFFLINE

(* A tick of the true time, of all clocks and of millis(), wherever the    *)
(* master's loop is.                                                       *)
TimePasses ==
  /\ waited < (IF block = "asking" THEN WAIT ELSE LATE)
  /\ waited' = waited + 1
  /\ elapsed < MaxTicks /\ elapsed' = elapsed + 1
  /\ now' = now + 1 /\ sinceSync' = (sinceSync + 1) % MILLIS
  /\ remoteNow' = [r \in Listeners |-> remoteNow[r] + 1]
  /\ remoteSince' = [r \in Listeners |-> (remoteSince[r] + 1) % MILLIS]
  /\ UNCHANGED <<lead, offset, nextBroadcastTime, block, missed,
                 answered, everAnswered, steppedBack>>

ComesTo(next) == block' = next /\ waited' = 0

(* nntp::checkTime asks the server when the last request is old enough.    *)
checkTime ==
  /\ block = "checkTime"
  /\ ComesTo(IF sinceSync > SYNC THEN "asking" ELSE "broadcast")
  /\ UNCHANGED <<elapsed, lead, offset, clockVars, nextBroadcastTime, remoteVars>>

(* GetNTPOffset()*3600 is a product of ints.                               *)
OffsetTicks(zone) ==
  LET n == (zone * HOUR) % INT IN IF 2 * n < INT THEN n ELSE n - INT

(* The end of the request, by an answer or after the wait; tLastSync is    *)
(* renewed in both cases.                                                  *)
getNtpTime(replies) ==
  /\ block = "asking" /\ (replies \/ waited = WAIT)
  /\ ComesTo("broadcast")
  /\ sinceSync' = 0 /\ answered' = replies
  /\ everAnswered' = (everAnswered \/ replies)
  /\ now' = IF replies THEN lead + elapsed + OffsetTicks(offset) ELSE now
  /\ steppedBack' = steppedBack + (IF now' < now THEN now - now' ELSE 0)
  /\ UNCHANGED <<elapsed, lead, offset, nextBroadcastTime, remoteVars>>

(* Fault: every other broadcast is skipped.                                *)
NextBroadcastTwice == now + 2 * BROADCAST

NextBroadcast == now + BROADCAST

(* SendTimeBroadcast, "if we have reliable time data", and                 *)
(* MessageTimeBroadcast at the remotes that hear it.                       *)
BroadcastTime(hears) ==
  /\ block = "broadcast" /\ ComesTo("checkTime")
  /\ IF GetNetworkStatus(sinceSync) /\ nextBroadcastTime <= now
     THEN /\ nextBroadcastTime' = NextBroadcast
          /\ remoteNow' = [r \in Listeners |-> IF r \in hears THEN now ELSE remoteNow[r]]
          /\ remoteSince' = [r \in Listeners |-> IF r \in hears THEN 0 ELSE remoteSince[r]]
          /\ missed' = [r \in Listeners |-> missed[r] + (IF r \in hears THEN 0 ELSE 1)]
          /\ \A r \in Listeners : missed'[r] <= MaxMissed
     ELSE hears = {} /\ UNCHANGED <<nextBroadcastTime, remoteVars>>
  /\ UNCHANGED <<elapsed, lead, offset, clockVars>>

(* Fault: a new time zone waits for the next regular request.              *)
SetNTPOffsetWithoutFlag(zone) ==
  /\ block # "asking"
  /\ zone # offset /\ offset' = zone
  /\ UNCHANGED <<elapsed, lead, clockVars, nextBroadcastTime, loopBlock, remoteVars>>

(* bin/settings: flagCheckTime makes the clock be set soon.                *)
SetNTPOffset(zone) ==
  /\ block # "asking"
  /\ offset' = zone
  /\ sinceSync' = SYNC
  /\ UNCHANGED <<elapsed, lead, now, answered, everAnswered, steppedBack,
                 nextBroadcastTime, loopBlock, remoteVars>>

TimeNext ==
  \/ TimePasses \/ checkTime
  \/ \E replies \in BOOLEAN : getNtpTime(replies)
  \/ \E hears \in SUBSET Listeners : BroadcastTime(hears)
  \/ \E zone \in Offsets : SetNTPOffset(zone)

TimeSpec == TimeInit /\ [][TimeNext]_timeVars

-----------------------------------------------------------------------------
(* Differences of millis() are below its range, and history only counts.   *)
TimeTypeOK ==
  /\ elapsed \in 0 .. MaxTicks /\ lead \in Leads /\ offset \in Offsets
  /\ now \in Int /\ nextBroadcastTime \in Int
  /\ sinceSync \in 0 .. MILLIS - 1
  /\ block \in {"checkTime", "asking", "broadcast"}
  /\ waited \in 0 .. IF block = "asking" THEN WAIT ELSE LATE
  /\ remoteNow \in [Listeners -> Int]
  /\ remoteSince \in [Listeners -> 0 .. MILLIS - 1]
  /\ {everAnswered, answered} \subseteq BOOLEAN /\ steppedBack \in Nat
  /\ missed \in [Listeners -> 0 .. MaxMissed]

(* The master's clock shows the time of its time zone once the server has  *)
(* answered, also after a change of the zone, unless a request is due or   *)
(* the seconds of the zone do not fit an int.                              *)
OffsetFits(zone) == OffsetTicks(zone) = zone * HOUR

ClockIsRight ==
  answered /\ sinceSync < SYNC /\ OffsetFits(offset) =>
    now = lead + elapsed + offset * HOUR

(* A remote that misses nothing hears from the master once per interval,   *)
(* and as late as the master's loop is and its clock is set back; it shows *)
(* its clock as reliable if that has not happened.                         *)
MostLate == 2 * LATE + WAIT

RemotesHearInTime ==
  \A r \in Listeners :
    missed[r] = 0 /\ elapsed > MostLate =>
      /\ remoteSince[r] <= BROADCAST + MostLate + steppedBack
      /\ steppedBack = 0 => GetNetworkStatus(remoteSince[r])


=============================================================================
