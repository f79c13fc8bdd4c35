--------------------------- MODULE RunStateProofs ---------------------------
(***************************************************************************)
(* Proofs about RunState.  Each operator of RunState gets a lemma that     *)
(* says what it makes of a run state; the step proof then has one step per *)
(* action, which cites the lemmas of the operators the action is made of.  *)
(***************************************************************************)
EXTENDS RunState, WellFoundedInduction, TLAPS

(* The cache is right about the local valves.                              *)
CacheRight(r) ==
  \A z \in Zones : ~IsRF(z) => r.cache[z] = IF r.out[z] THEN RUNNING ELSE OFF

(* An open valve is the timed zone's, and can be switched off again.       *)
OnlyTimed(r, e) ==
  \A z \in Zones : r.out[z] => r.zone = z /\ Switchable(e, z) /\ ~IsRF(z)

Uncorrupted(r) ==
  /\ r.sched = NoSchedule <=> r.zone = NoZone
  /\ r.zone = Gap => r.next \in Zones

(* The timed zone's valve is open, if it can be switched.                  *)
Waters(r, e) ==
  \A z \in Zones : r.zone = z /\ Switchable(e, z) /\ ~IsRF(z) => r.out[z]

(* What every handler preserves.  Users who disable a running zone break   *)
(* OnlyTimed, those who enable a timed one Waters, and nothing else.       *)
Good(r, e) ==
  /\ r \in RunStates
  /\ Uncorrupted(r)
  /\ CacheRight(r)
  /\ ~EditRunningZones => OnlyTimed(r, e)
  /\ ~EditZones => Waters(r, e)

(* A zone or a delay is at most this much over its time.                   *)
OnTime(r, slack) ==
  /\ r.zone \in Zones => r.age <= r.mins * MINUTE + slack
  /\ r.zone = Gap => r.age <= DELAY_BETWEEN_ZONES + slack

(* No local valve is open, whatever is being timed.                        *)
Resting(r) ==
  /\ r \in RunStates
  /\ CacheRight(r)
  /\ ~EditRunningZones => \A z \in Zones : ~r.out[z]

Stopped(r) == Resting(r) /\ r.sched = NoSchedule /\ r.zone = NoZone

(* The inductive invariant.                                                *)
Inv == TypeOK /\ Good(rs, ee) /\ DisabledMeansIdle /\ OnTime(rs, lag)

-----------------------------------------------------------------------------
(* Sequences, choice and arithmetic.                                       *)

(* Appending to a sequence keeps its type.                                 *)
LEMMA AppendType ==
  ASSUME NEW S, NEW s \in Seq(S), NEW x \in S
  PROVE  Append(s, x) \in Seq(S)
OBVIOUS

(* A non-empty set of natural numbers has a least element.                 *)
LEMMA MinExists ==
  ASSUME NEW Z, Z \subseteq Nat, Z # {}
  PROVE  \E y \in Z : \A x \in Z : y <= x
<1> DEFINE R == OpToRel(<, Nat)
<1>1. IsWellFoundedOn(R, Nat)
  BY NatLessThanWellFounded
<1>2. \A x, y \in Nat : x < y => <<x, y>> \in R
  BY DEF OpToRel
<1> HIDE DEF R
<1>3. PICK y \in Z : \A x \in Z : ~(<<x, y>> \in R)
  BY <1>1, WFMin
<1>4. \A x \in Z : ~(x < y)
  BY <1>2, <1>3
<1> QED
  BY <1>3, <1>4

(* The search for the next zone finds one of the zones that qualify.       *)
LEMMA FirstOfType ==
  ASSUME NEW Z \in SUBSET Zones, Z # {}
  PROVE  FirstOf(Z) \in Z
<1>1. Z \subseteq Nat
  BY SizesAssumption DEF Zones
<1>2. \E y \in Z : \A x \in Z : y <= x
  BY <1>1, MinExists
<1> QED
  BY <1>2 DEF FirstOf

(* Less than m whole minutes is less than m minutes.                       *)
LEMMA WholeMinutes ==
  ASSUME NEW n \in Nat, NEW m \in Nat, NEW k \in Nat \ {0}, n \div k < m
  PROVE  n <= m * k
<1>1. n < m * k
  BY SMTT(30)
<1>2. m * k \in Nat
  OBVIOUS
<1> QED
  BY <1>1, <1>2

(* Adjusted run times fit m_zoneMins.                                      *)
LEMMA ZoneMinutesType ==
  ASSUME NEW s \in Schedules, NEW z \in Zones, NEW scale \in Nat
  PROVE  ZoneMinutes(s, z, scale) \in 0 .. BYTE - 1
<1>1. s.duration[z] \in 0 .. BYTE - 1
  BY DEF Schedules, Durations
<1>2. \A val, x \in Nat : val * x \in Nat
  OBVIOUS
<1>3. \A n \in Nat : (n + 50) \div 100 \in Nat
  OBVIOUS
<1>4. s.duration[z] \in Nat /\ BYTE \in Nat /\ BYTE > 254
  BY <1>1, SizesAssumption
<1>5. (s.duration[z] * scale + 50) \div 100 \in Nat
  BY <1>2, <1>3, <1>4
<1>6. sAdj(s.duration[z], scale) \in 0 .. BYTE - 1
  BY <1>4, <1>5 DEF sAdj
<1> QED
  BY <1>1, <1>6 DEF ZoneMinutes

(* Sets of times and schedules are sets of well-formed schedules.          *)
LEMMA QuickScheduleType ==
  ASSUME NEW r \in RunStates
  PROVE  QuickSchedule(r) \in Schedules
BY DEF RunStates, QuickSchedule, Schedules

(* The schedule that runs is the quick one or a stored one.                *)
LEMMA CurrentScheduleType ==
  ASSUME NEW r \in RunStates, NEW e \in Eeproms, r.sched # NoSchedule
  PROVE  CurrentSchedule(r, e) \in Schedules
<1>1. CASE r.sched = Quick
  BY <1>1, QuickScheduleType DEF CurrentSchedule
<1>2. CASE r.sched \in Slots
  <2>1. Quick \notin Slots
    BY SizesAssumption DEF Slots, Quick
  <2> QED
    BY <1>2, <2>1 DEF CurrentSchedule, Eeproms
<1> QED
  BY <1>1, <1>2 DEF RunStates

-----------------------------------------------------------------------------
(* Zones.                                                                  *)

(* Switching off changes the cache, the valves and the radio only.         *)
LEMMA TurnOffType ==
  ASSUME NEW r \in RunStates, NEW e \in Eeproms, NEW Z \in SUBSET Zones
  PROVE  /\ TurnOff(r, e, Z) \in RunStates
         /\ TurnOff(r, e, Z).sched = r.sched
         /\ TurnOff(r, e, Z).zone = r.zone
         /\ TurnOff(r, e, Z).next = r.next
         /\ TurnOff(r, e, Z).age = r.age
         /\ TurnOff(r, e, Z).mins = r.mins
<1> DEFINE can == {z \in Z : Switchable(e, z)}
           rf  == {z \in can : IsRF(z)}
           cache == [z \in Zones |->
                      IF z \in rf THEN STOPPING + ZONE_STATE_TIMEOUT
                      ELSE IF z \in can THEN OFF ELSE r.cache[z]]
           out  == [z \in Zones |-> r.out[z] /\ ~(z \in can \ rf)]
           sent == IF rf = {} THEN r.sent
                   ELSE Append(r.sent, [zones |-> rf, ttr |-> 0])
<1>1. TurnOff(r, e, Z) =
        [r EXCEPT !.cache = cache, !.out = out, !.sent = sent]
  BY DEF TurnOff, RunStates
<1>2. cache \in [Zones -> ZoneStates]
  BY SizesAssumption DEF RunStates, ZoneStates
<1>3. out \in [Zones -> BOOLEAN]
  BY DEF RunStates
<1>4. sent \in Seq(Requests)
  <2>1. [zones |-> rf, ttr |-> 0] \in Requests
    BY SizesAssumption DEF Requests
  <2> QED
    BY <2>1, AppendType DEF RunStates
<1> HIDE DEF cache, out, sent
<1> QED
  BY <1>1, <1>2, <1>3, <1>4 DEF RunStates

(* Switching off keeps the cache right about the local valves.             *)
LEMMA TurnOffCache ==
  ASSUME NEW r \in RunStates, NEW e \in Eeproms, NEW Z \in SUBSET Zones,
         CacheRight(r)
  PROVE  CacheRight(TurnOff(r, e, Z))
BY DEF CacheRight, TurnOff, RunStates

(* Switching off a set that holds the timed zone closes every valve.       *)
LEMMA TurnOffRests ==
  ASSUME NEW r, NEW e \in Eeproms, Good(r, e), NEW Z \in SUBSET Zones,
         \A z \in Zones : r.out[z] /\ r.zone = z => z \in Z
  PROVE  Resting(TurnOff(r, e, Z))
<1>1. r \in RunStates
  BY DEF Good
<1>2. ASSUME ~EditRunningZones, NEW z \in Zones
      PROVE  ~TurnOff(r, e, Z).out[z]
  BY <1>1, <1>2 DEF Good, OnlyTimed, TurnOff, RunStates
<1> QED
  BY <1>1, <1>2, TurnOffType, TurnOffCache DEF Good, Resting

(* Any update of the bookkeeping leaves the valves at rest.                *)
LEMMA RestingUpdate ==
  ASSUME NEW r, Resting(r), NEW q \in RunStates,
         q.cache = r.cache, q.out = r.out
  PROVE  Resting(q)
BY DEF Resting, CacheRight

(* A stopped run state is as good as any.                                  *)
LEMMA StoppedIsGood ==
  ASSUME NEW r, NEW e, Stopped(r)
  PROVE  Good(r, e)
BY SizesAssumption
   DEF Stopped, Resting, Good, Uncorrupted, OnlyTimed, Waters, Zones, NoZone,
       NoSchedule, Gap

(* Between two zones, and when nothing runs, no valve is open.             *)
LEMMA NoZoneRests ==
  ASSUME NEW r, NEW e, Good(r, e), r.zone \notin Zones
  PROVE  Resting(r)
BY DEF Good, OnlyTimed, Resting

(* "Stop all" closes what the cache shows as open, hence everything.       *)
LEMMA TurnOffZonesWorkerStops ==
  ASSUME NEW r, NEW e \in Eeproms, Good(r, e)
  PROVE  Stopped(TurnOffZonesWorker(r, e))
<1>1. \A z \in Zones : r.out[z] /\ r.zone = z /\ ~EditRunningZones => z \in NotOff(r)
  BY DEF Good, OnlyTimed, CacheRight, NotOff, OFF, RUNNING
<1> DEFINE q == TurnOff(r, e, NotOff(r))
<1>2. q \in RunStates /\ CacheRight(q)
  BY TurnOffType, TurnOffCache DEF Good, NotOff
<1>3. ASSUME ~EditRunningZones, NEW z \in Zones
      PROVE  ~q.out[z]
  BY <1>1, <1>3 DEF Good, OnlyTimed, TurnOff, RunStates
<1>4. Resting(q)
  BY <1>2, <1>3 DEF Resting
<1> HIDE DEF q
<1>5. TurnOffZonesWorker(r, e) = [q EXCEPT !.zone = NoZone, !.sched = NoSchedule]
  BY DEF TurnOffZonesWorker, q
<1>6. TurnOffZonesWorker(r, e) \in RunStates
  BY <1>2, <1>5 DEF RunStates
<1> QED
  BY <1>2, <1>4, <1>5, <1>6, RestingUpdate DEF Stopped, RunStates

(* Once a run has been stopped nothing is open.                            *)
LEMMA StopScheduleStops ==
  ASSUME NEW r, NEW e \in Eeproms, Good(r, e)
  PROVE  Stopped(StopSchedule(r, e))
<1>1. CASE r.sched = NoSchedule
  <2>1. r.zone = NoZone /\ r.zone \notin Zones
    BY <1>1, SizesAssumption DEF Good, Uncorrupted, Zones, NoZone
  <2> QED
    BY <1>1, <2>1, NoZoneRests DEF StopSchedule, Stopped
<1>2. CASE r.sched # NoSchedule
  <2> DEFINE q == IF r.zone \in Zones THEN TurnOffZone(r, e, r.zone) ELSE r
  <2>1. Resting(q)
    <3>1. CASE r.zone \in Zones
      BY <3>1, TurnOffRests DEF TurnOffZone
    <3>2. CASE r.zone \notin Zones
      BY <3>2, NoZoneRests
    <3> QED
      BY <3>1, <3>2
  <2> HIDE DEF q
  <2>2. StopSchedule(r, e) = [q EXCEPT !.zone = NoZone, !.sched = NoSchedule]
    BY <1>2 DEF StopSchedule, q
  <2>3. q \in RunStates
    BY <2>1 DEF Resting
  <2>4. StopSchedule(r, e) \in RunStates
    BY <2>2, <2>3 DEF RunStates
  <2> QED
    BY <2>1, <2>2, <2>3, <2>4, RestingUpdate DEF Stopped, RunStates
<1> QED
  BY <1>1, <1>2

(* Stopping a schedule that has no timed zone.                             *)
LEMMA StopScheduleEnds ==
  ASSUME NEW r, NEW e \in Eeproms, Resting(r), r.zone = NoZone
  PROVE  Stopped(StopSchedule(r, e))
<1>1. r \in RunStates /\ r.zone \notin Zones
  BY SizesAssumption DEF Resting, Zones, NoZone
<1>2. CASE r.sched = NoSchedule
  BY <1>2 DEF StopSchedule, Stopped
<1>3. CASE r.sched # NoSchedule
  <2>1. StopSchedule(r, e) = [r EXCEPT !.zone = NoZone, !.sched = NoSchedule]
    BY <1>1, <1>3 DEF StopSchedule
  <2>2. StopSchedule(r, e) \in RunStates
    BY <1>1, <2>1 DEF RunStates
  <2> QED
    BY <1>1, <2>1, <2>2, RestingUpdate DEF Stopped, RunStates
<1> QED
  BY <1>2, <1>3

(* Opening one valve while all are closed.                                 *)
LEMMA RunZoneGood ==
  ASSUME NEW r, NEW e \in Eeproms, Resting(r), r.sched # NoSchedule,
         NEW z \in Zones, NEW m \in 0 .. BYTE - 1
  PROVE  /\ Good(RunZone(r, e, z, m), e)
         /\ RunZone(r, e, z, m).age = 0
         /\ RunZone(r, e, z, m).sched = r.sched
         /\ RunZone(r, e, z, m).zone = z
<1> DEFINE q == [r EXCEPT !.zone = z, !.age = 0, !.mins = m]
           p == RunZone(r, e, z, m)
<1>1. q \in RunStates /\ q.sched # NoSchedule /\ q.zone = z /\ q.age = 0
      /\ q.cache = r.cache /\ q.out = r.out /\ q.sched = r.sched
  BY DEF Resting, RunStates
<1>2. Resting(q)
  BY <1>1, RestingUpdate
<1>3. p = TurnOnZone(q, e, z, m)
  BY DEF RunZone
<1>4. z # NoZone /\ z # Gap
  BY SizesAssumption DEF Zones, NoZone, Gap
<1> HIDE DEF q, p
<1>5. CASE ~Switchable(e, z)
  BY <1>1, <1>2, <1>3, <1>4, <1>5
     DEF TurnOnZone, Good, Uncorrupted, OnlyTimed, Waters, Resting, p
<1>6. CASE Switchable(e, z) /\ IsRF(z)
  <2>1. p = [q EXCEPT !.cache[z] = STARTING + ZONE_STATE_TIMEOUT,
                      !.sent = Append(@, [zones |-> {z}, ttr |-> m])]
    BY <1>3, <1>6 DEF TurnOnZone
  <2>2. [zones |-> {z}, ttr |-> m] \in Requests
    BY DEF Requests
  <2>3. STARTING + ZONE_STATE_TIMEOUT \in ZoneStates
    BY SizesAssumption DEF ZoneStates
  <2>4. q.sent \in Seq(Requests)
    BY <1>1 DEF RunStates
  <2>5. Append(q.sent, [zones |-> {z}, ttr |-> m]) \in Seq(Requests)
    BY <2>2, <2>4, AppendType
  <2>6. p \in RunStates
    BY <1>1, <2>1, <2>3, <2>5 DEF RunStates
  <2> QED
    BY <1>1, <1>2, <1>4, <1>6, <2>1, <2>6
       DEF Good, Uncorrupted, OnlyTimed, Waters, CacheRight, Resting, RunStates, p
<1>7. CASE Switchable(e, z) /\ ~IsRF(z)
  <2>1. p = [q EXCEPT !.cache[z] = RUNNING, !.out[z] = TRUE]
    BY <1>3, <1>7 DEF TurnOnZone
  <2>2. p \in RunStates
    BY <1>1, <2>1 DEF RunStates, ZoneStates
  <2> QED
    BY <1>1, <1>2, <1>4, <1>7, <2>1, <2>2
       DEF Good, Uncorrupted, OnlyTimed, Waters, CacheRight, Resting, RunStates, p
<1> QED
  BY <1>5, <1>6, <1>7

-----------------------------------------------------------------------------
(* Schedules.                                                              *)

(* A run state that is idle or has only just started to time a zone.       *)
Fresh(r) == r.sched = NoSchedule \/ r.age = 0

(* Such a run state is on time.                                            *)
LEMMA FreshOnTime ==
  ASSUME NEW r, NEW e, Good(r, e), Fresh(r)
  PROVE  OnTime(r, 0)
<1>1. \A m \in Nat : m * MINUTE \in Nat
  BY SizesAssumption
<1>2. r.mins \in Nat
  BY DEF Good, RunStates
<1>3. NoZone \notin Zones /\ NoZone # Gap
  BY SizesAssumption DEF Zones, NoZone, Gap
<1>4. CASE r.sched = NoSchedule
  BY <1>3, <1>4 DEF Good, Uncorrupted, OnTime
<1>5. CASE r.age = 0
  BY <1>1, <1>2, <1>5, SizesAssumption DEF OnTime
<1> QED
  BY <1>4, <1>5 DEF Fresh

(* Starting a schedule, if it has a zone to start, opens its first one.    *)
LEMMA StartFirstZoneGood ==
  ASSUME NEW r, NEW e \in Eeproms, Stopped(r), NEW id \in {Quick} \cup Slots,
         NEW s \in Schedules, NEW scale \in Nat
  PROVE  LET q == StartFirstZone(r, e, id, s, scale) IN Good(q, e) /\ Fresh(q)
<1> DEFINE Z == ZonesAfter(s, NoZone)
           q == [r EXCEPT !.sched = id]
           z == FirstOf(Z)
           m == ZoneMinutes(s, z, scale)
<1>1. CASE Z = {}
  BY <1>1, StoppedIsGood DEF StartFirstZone, Stopped, Fresh
<1>2. CASE Z # {}
  <2>1. z \in Zones
    BY <1>2, FirstOfType DEF ZonesAfter
  <2>2. m \in 0 .. BYTE - 1
    BY <2>1, ZoneMinutesType
  <2>3. Resting(q) /\ q.sched # NoSchedule
    <3>1. r \in RunStates /\ Resting(r)
      BY DEF Stopped, Resting
    <3>2. id # NoSchedule
      BY SizesAssumption DEF Slots, NoSchedule, Quick
    <3>3. q \in RunStates /\ q.sched = id /\ q.cache = r.cache /\ q.out = r.out
      BY <3>1 DEF RunStates
    <3> QED
      BY <3>1, <3>2, <3>3, RestingUpdate
  <2>4. StartFirstZone(r, e, id, s, scale) = RunZone(q, e, z, m)
    BY <1>2 DEF StartFirstZone
  <2> HIDE DEF q, m, z
  <2> QED
    BY <2>1, <2>2, <2>3, <2>4, RunZoneGood DEF Fresh
<1> QED
  BY <1>1, <1>2

(* StartSchedule with and without fQuickSched.                             *)
LEMMA StartQuickScheduleGood ==
  ASSUME NEW r, NEW e \in Eeproms, Good(r, e)
  PROVE  LET q == StartQuickSchedule(r, e) IN Good(q, e) /\ Fresh(q)
<1> DEFINE q == StopSchedule(r, e)
<1>1. Stopped(q) /\ q \in RunStates
  BY StopScheduleStops DEF Stopped, Resting
<1>2. StartQuickSchedule(r, e) = StartFirstZone(q, e, Quick, QuickSchedule(q), 100)
  BY DEF StartQuickSchedule
<1> HIDE DEF q
<1> QED
  BY <1>1, <1>2, QuickScheduleType, StartFirstZoneGood

(* The same for a schedule of the table.                                   *)
LEMMA StartScheduleGood ==
  ASSUME NEW r, NEW e \in Eeproms, Good(r, e), NEW id, NEW scale \in Nat
  PROVE  LET q == StartSchedule(r, e, id, scale) IN Good(q, e) /\ Fresh(q)
<1> DEFINE q == StopSchedule(r, e)
<1>1. Stopped(q)
  BY StopScheduleStops
<1>2. Good(q, e) /\ Fresh(q)
  BY <1>1, StoppedIsGood DEF Stopped, Fresh
<1>3. CASE id \in Slots /\ e.slot[id].enabled
  <2>1. e.slot[id] \in Schedules
    BY <1>3 DEF Eeproms
  <2>2. StartSchedule(r, e, id, scale) = StartFirstZone(q, e, id, e.slot[id], scale)
    BY <1>3 DEF StartSchedule
  <2> HIDE DEF q
  <2> QED
    BY <1>1, <1>3, <2>1, <2>2, StartFirstZoneGood
<1>4. CASE ~(id \in Slots /\ e.slot[id].enabled)
  BY <1>2, <1>4 DEF StartSchedule
<1> QED
  BY <1>3, <1>4

(* Asking for the time a pause has left may end it and does nothing else.  *)
LEMMA GoodUpdate ==
  ASSUME NEW r, NEW e, Good(r, e), NEW q \in RunStates,
         q.sched = r.sched, q.zone = r.zone, q.next = r.next,
         q.cache = r.cache, q.out = r.out
  PROVE  Good(q, e)
BY DEF Good, Uncorrupted, CacheRight, OnlyTimed, Waters

(* Polling the pause changes nothing but the pause.                        *)
LEMMA PollPauseGood ==
  ASSUME NEW r, NEW e \in Eeproms, Good(r, e)
  PROVE  /\ Good(PollPause(r), e)
         /\ PollPause(r).sched = r.sched
         /\ PollPause(r).age = r.age
         /\ PollPause(r).zone = r.zone
         /\ PollPause(r).mins = r.mins
<1> DEFINE p == r.paused /\ RemainingPauseTime(r) # 0
<1>1. PollPause(r) = [r EXCEPT !.paused = p] /\ r \in RunStates
  BY DEF PollPause, Good
<1>2. p \in BOOLEAN
  OBVIOUS
<1> HIDE DEF p
<1>3. PollPause(r) \in RunStates
  BY <1>1, <1>2 DEF RunStates
<1>4. /\ PollPause(r).sched = r.sched /\ PollPause(r).zone = r.zone
      /\ PollPause(r).next = r.next /\ PollPause(r).cache = r.cache
      /\ PollPause(r).out = r.out /\ PollPause(r).age = r.age
      /\ PollPause(r).mins = r.mins
  BY <1>1 DEF RunStates
<1> QED
  BY <1>3, <1>4, GoodUpdate

(* What the next event starts, if any, has only just started.              *)
LEMMA StartNextEventGood ==
  ASSUME NEW r, NEW e \in Eeproms, Good(r, e), r.sched = NoSchedule,
         NEW t, NEW scale \in Nat
  PROVE  LET q == StartNextEvent(r, e, t, scale) IN Good(q, e) /\ Fresh(q)
<1>1. Good(PollPause(r), e) /\ Fresh(PollPause(r))
  BY PollPauseGood DEF Fresh
<1> QED
  BY <1>1, StartScheduleGood DEF StartNextEvent

(* The end of the delay between two zones.                                 *)
LEMMA EndDelayGood ==
  ASSUME NEW r, NEW e \in Eeproms, Good(r, e), NEW scale \in Nat,
         r.sched # NoSchedule, r.zone = Gap
  PROVE  LET p == EndDelay(r, e, scale) IN Good(p, e) /\ OnTime(p, 0)
<1> DEFINE s == CurrentSchedule(r, e)
<1>1. r \in RunStates /\ r.zone \notin Zones /\ Resting(r)
  <2>1. r.zone \notin Zones
    BY SizesAssumption DEF Zones, Gap
  <2> QED
    BY <2>1, NoZoneRests DEF Good
<1>2. s \in Schedules
  BY <1>1, CurrentScheduleType
<1>3. CASE r.age < DELAY_BETWEEN_ZONES
  <2>1. OnTime(r, 0)
    BY <1>1, <1>3, SizesAssumption DEF OnTime, RunStates
  <2> QED
    BY <1>3, <2>1 DEF EndDelay
<1>4. CASE ~(r.age < DELAY_BETWEEN_ZONES) /\ (r.next = NoZone \/ ~s.enabled)
  <2> DEFINE q == [r EXCEPT !.zone = NoZone]
  <2>1. q \in RunStates /\ q.zone = NoZone /\ q.cache = r.cache /\ q.out = r.out
    BY <1>1 DEF RunStates
  <2>2. Resting(q)
    BY <1>1, <2>1, RestingUpdate
  <2>3. EndDelay(r, e, scale) = StopSchedule(q, e)
    BY <1>4 DEF EndDelay
  <2> HIDE DEF q
  <2>4. Good(StopSchedule(q, e), e) /\ Fresh(StopSchedule(q, e))
    BY <2>1, <2>2, StopScheduleEnds, StoppedIsGood DEF Stopped, Fresh
  <2> QED
    BY <2>3, <2>4, FreshOnTime
<1>5. CASE ~(r.age < DELAY_BETWEEN_ZONES) /\ ~(r.next = NoZone \/ ~s.enabled)
  <2> DEFINE q == [r EXCEPT !.next = NoZone]
             m == ZoneMinutes(s, r.next, scale)
  <2>1. q \in RunStates /\ q.sched # NoSchedule /\ q.cache = r.cache /\ q.out = r.out
    BY <1>1 DEF RunStates
  <2>2. Resting(q)
    BY <1>1, <2>1, RestingUpdate
  <2>3. r.next \in Zones
    BY <1>1, <1>5 DEF RunStates
  <2>4. m \in 0 .. BYTE - 1
    BY <1>2, <2>3, ZoneMinutesType
  <2>5. EndDelay(r, e, scale) = RunZone(q, e, r.next, m)
    BY <1>5 DEF EndDelay
  <2> HIDE DEF q, m
  <2>6. Good(RunZone(q, e, r.next, m), e) /\ Fresh(RunZone(q, e, r.next, m))
    BY <2>1, <2>2, <2>3, <2>4, RunZoneGood DEF Fresh
  <2> QED
    BY <2>5, <2>6, FreshOnTime
<1> QED
  BY <1>3, <1>4, <1>5

(* The end of a zone's run time.                                           *)
LEMMA EndZoneGood ==
  ASSUME NEW r, NEW e \in Eeproms, Good(r, e),
         r.sched # NoSchedule, r.zone \in Zones
  PROVE  LET p == EndZone(r, e) IN Good(p, e) /\ OnTime(p, 0)
<1> DEFINE s == CurrentSchedule(r, e)
           Z == ZonesAfter(s, r.zone)
           q == TurnOffZone(r, e, r.zone)
<1>1. r \in RunStates /\ Resting(q) /\ q \in RunStates /\ q.sched = r.sched
  BY TurnOffRests, TurnOffType DEF Good, TurnOffZone, Resting
<1>2. CASE r.age \div MINUTE < r.mins
  <2>1. \A n, m \in Nat : n \div MINUTE < m => n <= m * MINUTE
    BY SizesAssumption, WholeMinutes
  <2>2. r.age \in Nat /\ r.mins \in Nat /\ Gap \notin Zones
    BY <1>1, SizesAssumption DEF RunStates, Zones, Gap
  <2>3. r.age <= r.mins * MINUTE
    BY <1>2, <2>1, <2>2
  <2>4. r.mins * MINUTE + 0 = r.mins * MINUTE
    BY <2>2, SizesAssumption
  <2>5. OnTime(r, 0)
    BY <2>2, <2>3, <2>4 DEF OnTime
  <2> QED
    BY <1>2, <2>5 DEF EndZone
<1>3. CASE ~(r.age \div MINUTE < r.mins) /\ s.enabled /\ Z # {}
  <2> DEFINE p == [q EXCEPT !.next = FirstOf(Z), !.zone = Gap, !.age = 0]
  <2>1. FirstOf(Z) \in Zones
    BY <1>3, FirstOfType DEF ZonesAfter
  <2>2. EndZone(r, e) = p
    BY <1>3 DEF EndZone
  <2> HIDE DEF Z, q
  <2>3. /\ p \in RunStates /\ p.sched # NoSchedule /\ p.zone = Gap
        /\ p.next \in Zones /\ p.cache = q.cache /\ p.out = q.out
    BY <1>1, <2>1 DEF RunStates
  <2>4. Resting(p)
    BY <1>1, <2>3, RestingUpdate
  <2>5. Good(p, e)
    BY <2>3, <2>4, SizesAssumption
       DEF Good, Uncorrupted, OnlyTimed, Waters, Resting, Zones, Gap, NoZone
  <2>6. p.age = 0
    BY <1>1 DEF RunStates
  <2> HIDE DEF p
  <2> QED
    BY <2>2, <2>5, <2>6, FreshOnTime DEF Fresh
<1>4. CASE ~(r.age \div MINUTE < r.mins) /\ ~(s.enabled /\ Z # {})
  <2> DEFINE p == [q EXCEPT !.zone = NoZone]
  <2>1. EndZone(r, e) = StopSchedule(p, e)
    BY <1>4 DEF EndZone
  <2> HIDE DEF q
  <2>2. p \in RunStates /\ p.zone = NoZone /\ p.cache = q.cache /\ p.out = q.out
    BY <1>1 DEF RunStates
  <2>3. Resting(p)
    BY <1>1, <2>2, RestingUpdate
  <2> HIDE DEF p
  <2>4. Good(StopSchedule(p, e), e) /\ Fresh(StopSchedule(p, e))
    BY <2>2, <2>3, StopScheduleEnds, StoppedIsGood DEF Stopped, Fresh
  <2> QED
    BY <2>1, <2>4, FreshOnTime
<1> QED
  BY <1>2, <1>3, <1>4

(* A pass of the scheduler, which stops everything when disabled.          *)
LEMMA ProcessScheduledEventsGood ==
  ASSUME NEW r, NEW e \in Eeproms, Good(r, e), NEW t, NEW scale \in Nat
  PROVE  LET q == ProcessScheduledEvents(r, e, t, scale)
         IN  Good(q, e) /\ OnTime(q, 0) /\ (~e.run => q.sched = NoSchedule)
<1>0. Gap \notin Zones
  BY SizesAssumption DEF Zones, Gap
<1> DEFINE q == StopSchedule(r, e)
<1>6. Good(q, e) /\ OnTime(q, 0) /\ q.sched = NoSchedule
  BY StopScheduleStops, StoppedIsGood, FreshOnTime DEF Stopped, Fresh
<1> HIDE DEF q
<1>1. CASE ~e.run
  BY <1>1, <1>6 DEF ProcessScheduledEvents, q
<1>2. CASE e.run /\ r.sched = NoSchedule
  BY <1>2, StartNextEventGood, FreshOnTime DEF ProcessScheduledEvents
<1>3. CASE e.run /\ r.sched # NoSchedule /\ r.zone = Gap
  BY <1>0, <1>3, EndDelayGood DEF ProcessScheduledEvents
<1>4. CASE e.run /\ r.sched # NoSchedule /\ r.zone \in Zones
  BY <1>0, <1>4, EndZoneGood DEF ProcessScheduledEvents
<1>5. CASE e.run /\ r.sched # NoSchedule /\ r.zone # Gap /\ r.zone \notin Zones
  BY <1>5, <1>6 DEF ProcessScheduledEvents, q
<1> QED
  BY <1>1, <1>2, <1>3, <1>4, <1>5

(* Setting or ending a pause.                                              *)
LEMMA SetPauseGood ==
  ASSUME NEW r, NEW e \in Eeproms, Good(r, e), NEW t, NEW minutes \in Nat,
         NEW scale \in Nat
  PROVE  Good(SetPause(r, e, t, minutes, scale), e)
<1>1. CASE minutes = 0
  <2> DEFINE q == [r EXCEPT !.paused = FALSE]
  <2>1. /\ q \in RunStates /\ q.sched = r.sched /\ q.zone = r.zone
        /\ q.next = r.next /\ q.cache = r.cache /\ q.out = r.out
    BY DEF Good, RunStates
  <2>2. Good(q, e)
    BY <2>1, GoodUpdate
  <2>3. SetPause(r, e, t, minutes, scale) =
          IF r.paused THEN ProcessScheduledEvents(q, e, t, scale) ELSE r
    BY <1>1 DEF SetPause
  <2> HIDE DEF q
  <2> QED
    BY <2>2, <2>3, ProcessScheduledEventsGood
<1>2. CASE minutes # 0
  <2> DEFINE p == IF e.run THEN StopSchedule(r, e) ELSE r
             left == (minutes * MINUTE) % MILLIS
             q == [p EXCEPT !.paused = TRUE, !.left = left]
  <2>1. Good(p, e)
    BY StopScheduleStops, StoppedIsGood
  <2>2. SetPause(r, e, t, minutes, scale) = ProcessScheduledEvents(q, e, t, scale)
    BY <1>2 DEF SetPause
  <2>3. left \in 0 .. MILLIS - 1
    BY SizesAssumption
  <2> HIDE DEF p, left
  <2>4. /\ q \in RunStates /\ q.sched = p.sched /\ q.zone = p.zone
        /\ q.next = p.next /\ q.cache = p.cache /\ q.out = p.out
    BY <2>1, <2>3 DEF Good, RunStates
  <2>5. Good(q, e)
    BY <2>1, <2>4, GoodUpdate
  <2> HIDE DEF q
  <2> QED
    BY <2>2, <2>5, ProcessScheduledEventsGood
<1> QED
  BY <1>1, <1>2

(* A manual run, from the panel or from the master.                        *)
LEMMA StartZoneWorkerGood ==
  ASSUME NEW r, NEW e \in Eeproms, Good(r, e), NEW t, NEW st, NEW channel,
         NEW minutes \in 0 .. BYTE - 1
  PROVE  LET q == StartZoneWorker(r, e, t, st, channel, minutes)
         IN  /\ Good(q, e)
             /\ StartsZone(st, channel) => OnTime(q, 0)
             /\ StartsZone(st, channel) /\ ~e.run => q.sched = NoSchedule
<1>1. CASE ~StartsZone(st, channel)
  BY <1>1 DEF StartZoneWorker
<1>2. CASE StartsZone(st, channel)
  <2> DEFINE stopped == StopSchedule(r, e)
             off == IF NotOff(stopped) # {}
                    THEN TurnOffZonesWorker(stopped, e) ELSE stopped
             one == [z \in Zones |->
                      IF z = StartZoneOf[st] + channel THEN minutes ELSE 0]
             q == [off EXCEPT !.quick = one]
             p == StartQuickSchedule(q, e)
  <2>1. Good(stopped, e)
    BY StopScheduleStops, StoppedIsGood
  <2> HIDE DEF stopped
  <2>2. Good(off, e)
    BY <2>1, TurnOffZonesWorkerStops, StoppedIsGood
  <2>3. one \in Durations
    BY SizesAssumption DEF Durations
  <2>4. StartZoneWorker(r, e, t, st, channel, minutes) =
          ProcessScheduledEvents(p, e, t, 100)
    BY <1>2 DEF StartZoneWorker, stopped
  <2> HIDE DEF off, one
  <2>5. /\ q \in RunStates /\ q.sched = off.sched /\ q.zone = off.zone
        /\ q.next = off.next /\ q.cache = off.cache /\ q.out = off.out
    BY <2>2, <2>3 DEF Good, RunStates
  <2>6. Good(q, e)
    BY <2>2, <2>5, GoodUpdate
  <2> HIDE DEF q
  <2>7. Good(p, e)
    BY <2>6, StartQuickScheduleGood
  <2> HIDE DEF p
  <2> QED
    BY <2>4, <2>7, ProcessScheduledEventsGood
<1> QED
  BY <1>1, <1>2

-----------------------------------------------------------------------------
(* The step.                                                               *)

(* Goodness of a run state depends on the zone flags of the EEPROM only.   *)
LEMMA SameFlags ==
  ASSUME NEW r, NEW e, NEW f, Good(r, e), f.enabled = e.enabled
  PROVE  Good(r, f)
BY DEF Good, OnlyTimed, Waters, Switchable

(* The run state handlers start from.                                      *)
LEMMA NowGood ==
  ASSUME Inv
  PROVE  /\ Good(Now, ee) /\ Now \in RunStates
         /\ Now.sched = rs.sched /\ Now.zone = rs.zone /\ Now.next = rs.next
         /\ Now.age = rs.age /\ Now.mins = rs.mins /\ Now.cache = rs.cache /\ Now.out = rs.out
         /\ Now.left = rs.left /\ Now.paused = rs.paused
<1>1. <<>> \in Seq(Requests)
  OBVIOUS
<1>2. /\ Now \in RunStates
      /\ Now.sched = rs.sched /\ Now.zone = rs.zone /\ Now.next = rs.next
      /\ Now.age = rs.age /\ Now.mins = rs.mins /\ Now.cache = rs.cache /\ Now.out = rs.out
      /\ Now.left = rs.left /\ Now.paused = rs.paused
  BY <1>1 DEF Inv, TypeOK, Now, RunStates
<1> QED
  BY <1>2, GoodUpdate DEF Inv

(* The state a station powers up in.                                       *)
LEMMA PowerOnGood ==
  ASSUME NEW e,
         NEW r, r = [sched |-> NoSchedule, zone |-> NoZone, next |-> 0, age |-> 0,
                     mins |-> 0, quick |-> [z \in Zones |-> 0], paused |-> FALSE,
                     left |-> 0, cache |-> [z \in Zones |-> OFF],
                     out |-> [z \in Zones |-> FALSE], sent |-> <<>>]
  PROVE  Good(r, e) /\ r.sched = NoSchedule
<1>1. <<>> \in Seq(Requests)
  OBVIOUS
<1>2. 0 \in Zones /\ 0 \in 0 .. BYTE - 1 /\ 0 \in 0 .. MILLIS - 1
  BY SizesAssumption DEF Zones
<1>3. r \in RunStates
  BY <1>1, <1>2 DEF RunStates, Durations, ZoneStates
<1>4. Stopped(r)
  BY <1>3 DEF Stopped, Resting, CacheRight
<1> QED
  BY <1>4, StoppedIsGood DEF Stopped

(* What is on time stays so when more is allowed.                          *)
LEMMA OnTimeLater ==
  ASSUME NEW r \in RunStates, NEW a \in Nat, NEW b \in Nat, a <= b, OnTime(r, a)
  PROVE  OnTime(r, b)
<1>1. r.age \in Nat /\ r.mins * MINUTE \in Nat /\ DELAY_BETWEEN_ZONES \in Nat
  <2>1. r.mins \in Nat /\ MINUTE \in Nat
    BY SizesAssumption DEF RunStates
  <2> QED
    BY <2>1, SizesAssumption DEF RunStates
<1> DEFINE length == r.mins * MINUTE
<1> HIDE DEF length
<1>2. length \in Nat
  BY <1>1 DEF length
<1>3. r.zone \in Zones => r.age <= length + a
  BY DEF OnTime, length
<1>4. r.zone \in Zones => r.age <= length + b
  BY <1>1, <1>2, <1>3
<1>5. r.zone = Gap => r.age <= DELAY_BETWEEN_ZONES + b
  BY <1>1 DEF OnTime
<1> QED
  BY <1>4, <1>5 DEF OnTime, length

(* What is timed, and since when, as before the handler.                   *)
SameTimer(r) ==
  /\ r.sched = rs.sched /\ r.zone = rs.zone
  /\ r.age = rs.age /\ r.mins = rs.mins

(* With schedules disabled a run is new, or has just been left to the next *)
(* pass: the part of the invariant about time.                             *)
LEMMA ProcessedInv ==
  ASSUME Inv, ee' \in Eeproms, NEW r, Processed(r), Good(r, ee'), OnTime(r, 0),
         ~ee'.run => r.sched = NoSchedule
  PROVE  Inv'
<1>1. TypeOK' /\ DisabledMeansIdle'
  BY SizesAssumption DEF Inv, TypeOK, Processed, Good, DisabledMeansIdle
<1>2. rs' = r /\ lag' = 0
  BY DEF Processed
<1> QED
  BY <1>1, <1>2 DEF Inv

(* A handler without a pass at its end starts something or leaves the timer. *)
LEMMA HandledInv ==
  ASSUME Inv, ee' \in Eeproms, ee'.run = ee.run,
         NEW r, Handled(r), Good(r, ee'),
         Fresh(r) \/ SameTimer(r)
  PROVE  Inv'
<1>1. TypeOK' /\ DisabledMeansIdle'
  BY SizesAssumption
     DEF Inv, TypeOK, Handled, Good, DisabledMeansIdle, Fresh, SameTimer
<1>2. rs' = r /\ lag' = lag /\ lag \in Nat
  BY SizesAssumption DEF Inv, TypeOK, Handled
<1>3. OnTime(r, lag)
  <2>1. CASE Fresh(r)
    <3>1. OnTime(r, 0) /\ r \in RunStates
      BY <2>1, FreshOnTime DEF Good
    <3> QED
      BY <1>2, <3>1, OnTimeLater
  <2>2. CASE SameTimer(r)
    <3>1. OnTime(rs, lag)
      BY DEF Inv
    <3> QED
      BY <2>2, <3>1 DEF SameTimer, OnTime
  <2> QED
    BY <2>1, <2>2
<1> QED
  BY <1>1, <1>2, <1>3 DEF Inv

(* What delSched, setSched and settings end with.                          *)
LEMMA RestartInv ==
  ASSUME Inv, NEW e \in Eeproms, ee' = e, e.run = ee.run,
         e.enabled = ee.enabled, Restart(e)
  PROVE  Inv'
<1> DEFINE r == StopSchedule(Now, e)
<1>1. Good(Now, e)
  BY NowGood, SameFlags
<1>2. CASE e.run
  <2>1. Good(r, e)
    BY <1>1, StopScheduleStops, StoppedIsGood
  <2>2. PICK w \in Scales : Processed(ProcessScheduledEvents(r, e, clock, w))
    BY <1>2 DEF Restart
  <2>3. w \in Nat
    BY InputsAssumption
  <2> HIDE DEF r
  <2> QED
    BY <2>1, <2>2, <2>3, ProcessScheduledEventsGood, ProcessedInv
<1>3. CASE ~e.run
  <2>1. Handled(Now)
    BY <1>3 DEF Restart
  <2> QED
    BY <1>1, <2>1, NowGood, HandledInv DEF SameTimer
<1> QED
  BY <1>2, <1>3

(* The invariant holds at power-on.                                        *)
LEMMA InitInv == Init => Inv
<1> SUFFICES ASSUME Init PROVE Inv
  OBVIOUS
<1>1. ee \in Eeproms
  BY InputsAssumption DEF Init, Eeproms
<1>2. Good(rs, ee) /\ rs.sched = NoSchedule
  BY PowerOnGood DEF Init
<1>3. clock \in 0 .. Cycle - 1
  <2>1. \A a, b, c \in Nat \ {0} : a * b * c \in Nat \ {0}
    OBVIOUS
  <2>2. Cycle \in Nat \ {0}
    BY <2>1, SizesAssumption DEF Cycle
  <2> QED
    BY <2>2 DEF Init
<1>4. OnTime(rs, lag)
  <2>1. OnTime(rs, 0)
    BY <1>2, FreshOnTime DEF Fresh
  <2> QED
    BY <2>1 DEF Init
<1> QED
  BY <1>1, <1>2, <1>3, <1>4, SizesAssumption
     DEF Init, Inv, TypeOK, Good, DisabledMeansIdle

(* Every action preserves the invariant.                                   *)
LEMMA NextInv == Inv /\ [Next]_vars => Inv'
<1> SUFFICES ASSUME Inv, [Next]_vars PROVE Inv'
  OBVIOUS
<1> USE NowGood
<1>0. /\ ee \in Eeproms /\ rs \in RunStates /\ clock \in 0 .. Cycle - 1
      /\ late \in 0 .. MaxLate /\ lag \in 0 .. MaxLag
      /\ \A w \in Scales : w \in Nat
  BY InputsAssumption DEF Inv, TypeOK
<1>1. CASE Tick
  <2> DEFINE age == IF rs.sched # NoSchedule THEN Now.age + 1 ELSE Now.age
             left == IF rs.paused THEN (Now.left - 1) % MILLIS ELSE Now.left
  <2>1. rs' = [Now EXCEPT !.age = age, !.left = left]
    BY <1>1 DEF Tick, Now, RunStates
  <2>2. age \in Nat /\ left \in 0 .. MILLIS - 1
    BY <1>0, SizesAssumption DEF RunStates
  <2> HIDE DEF left
  <2>3. /\ rs' \in RunStates /\ rs'.sched = Now.sched /\ rs'.zone = Now.zone
        /\ rs'.next = Now.next /\ rs'.cache = Now.cache /\ rs'.out = Now.out
        /\ rs'.age = age /\ rs'.mins = Now.mins
    BY <2>1, <2>2 DEF RunStates
  <2>4. Good(rs', ee')
    BY <1>1, <2>3, GoodUpdate DEF Tick
  <2>5. clock' \in 0 .. Cycle - 1
    <3>1. \A a, b, c \in Nat \ {0} : a * b * c \in Nat \ {0}
      OBVIOUS
    <3>2. Cycle \in Nat \ {0}
      BY <3>1, SizesAssumption DEF Cycle
    <3> QED
      BY <1>0, <1>1, <3>2 DEF Tick
  <2>6. late' \in 0 .. MaxLate /\ lag' \in 0 .. MaxLag /\ ee' \in Eeproms
    BY <1>0, <1>1, SizesAssumption DEF Tick
  <2>7. DisabledMeansIdle'
    <3>1. ASSUME ~ee'.run, rs'.sched # NoSchedule PROVE rs.age <= lag
      BY <1>1, <2>3, <3>1 DEF Tick, Inv, DisabledMeansIdle
    <3>2. rs'.sched # NoSchedule => rs'.age = rs.age + 1
      BY <2>3
    <3>3. rs.age \in Nat /\ lag' = lag + 1
      BY <1>0, <1>1 DEF Tick, RunStates
    <3> HIDE DEF age
    <3> QED
      BY <1>0, <3>1, <3>2, <3>3 DEF DisabledMeansIdle
  <2>8. OnTime(rs', lag')
    <3>1. age \in {rs.age, rs.age + 1} /\ rs.age \in Nat /\ lag \in Nat
      BY <1>0, SizesAssumption DEF RunStates
    <3>2. lag' = lag + 1
      BY <1>1 DEF Tick
    <3>3. rs.mins * MINUTE \in Nat /\ DELAY_BETWEEN_ZONES \in Nat
      <4>1. rs.mins \in Nat /\ MINUTE \in Nat
        BY <1>0, SizesAssumption DEF RunStates
      <4> QED
        BY <4>1, SizesAssumption
    <3>4. OnTime(rs, lag) /\ rs'.zone = rs.zone /\ rs'.mins = rs.mins /\ rs'.age = age
      BY <2>3 DEF Inv
    <3> DEFINE length == rs.mins * MINUTE
    <3> HIDE DEF age, length
    <3>5. length \in Nat
      BY <3>3 DEF length
    <3>6. rs.zone \in Zones => age <= length + lag'
      <4>1. rs.zone \in Zones => rs.age <= length + lag
        BY <3>4 DEF OnTime, length
      <4> QED
        BY <3>1, <3>2, <3>5, <4>1
    <3>7. rs.zone = Gap => age <= DELAY_BETWEEN_ZONES + lag'
      BY <3>1, <3>2, <3>3, <3>4 DEF OnTime
    <3> QED
      BY <3>4, <3>6, <3>7 DEF OnTime, length
  <2> QED
    BY <2>3, <2>4, <2>5, <2>6, <2>7, <2>8 DEF Inv, TypeOK
<1>2. CASE ZoneHandlerLoop
  <2> DEFINE cache == [z \in Zones |-> StepZoneState(Now.cache[z])]
  <2>1. rs' = [Now EXCEPT !.cache = cache]
    BY <1>2 DEF ZoneHandlerLoop
  <2>2. \A s \in ZoneStates : StepZoneState(s) \in ZoneStates
    BY SizesAssumption
       DEF ZoneStates, StepZoneState, OFF, RUNNING, STARTING, STOPPING
  <2>3. cache \in [Zones -> ZoneStates]
    BY <2>2 DEF RunStates
  <2>4. \A z \in Zones : Now.cache[z] \in {OFF, RUNNING} => cache[z] = Now.cache[z]
    BY DEF StepZoneState
  <2> HIDE DEF cache
  <2>5. /\ rs' \in RunStates /\ rs'.sched = Now.sched /\ rs'.zone = Now.zone
        /\ rs'.next = Now.next /\ rs'.cache = cache /\ rs'.out = Now.out
        /\ rs'.age = Now.age /\ rs'.mins = Now.mins
    BY <2>1, <2>3 DEF RunStates
  <2>6. Good(rs', ee)
    BY <2>4, <2>5 DEF Good, Uncorrupted, CacheRight, OnlyTimed, Waters
  <2>7. ee' = ee /\ clock' = clock /\ lag' = lag /\ late' \in 0 .. MaxLate
    BY <1>2, SizesAssumption DEF ZoneHandlerLoop
  <2>8. TypeOK' /\ DisabledMeansIdle'
    BY <1>0, <2>5, <2>7 DEF Inv, TypeOK, DisabledMeansIdle
  <2>9. OnTime(rs', lag')
    BY <2>5, <2>7 DEF Inv, OnTime
  <2> QED
    BY <2>6, <2>7, <2>8, <2>9 DEF Inv
<1>3. CASE Pass
  <2>1. PICK w \in Scales : Processed(ProcessScheduledEvents(Now, ee, clock, w))
    BY <1>3 DEF Pass
  <2> QED
    BY <1>0, <1>3, <2>1, ProcessScheduledEventsGood, ProcessedInv DEF Pass
<1>4. ASSUME NEW on \in BOOLEAN, WebRunSchedules(on) PROVE Inv'
  <2> DEFINE e == [ee EXCEPT !.run = on]
  <2>1. e \in Eeproms /\ e.enabled = ee.enabled /\ ee' = e
    BY <1>0, <1>4 DEF WebRunSchedules, Eeproms
  <2>2. PICK w \in Scales : Processed(ProcessScheduledEvents(Now, e, clock, w))
    BY <1>4 DEF WebRunSchedules
  <2> HIDE DEF e
  <2>3. Good(Now, e)
    BY <2>1, SameFlags
  <2> QED
    BY <1>0, <2>1, <2>2, <2>3, ProcessScheduledEventsGood, ProcessedInv
<1>5. ASSUME NEW m \in PauseMinutes, WebPause(m) PROVE Inv'
  <2>1. PICK w \in Scales :
          Processed(ProcessScheduledEvents(SetPause(Now, ee, clock, m, w), ee, clock, w))
    BY <1>5 DEF WebPause
  <2>2. Good(SetPause(Now, ee, clock, m, w), ee)
    BY <1>0, SetPauseGood, InputsAssumption
  <2> QED
    BY <1>0, <1>5, <2>1, <2>2, ProcessScheduledEventsGood, ProcessedInv DEF WebPause
<1>6. ASSUME NEW q \in QuickDefs, WebQuickSchedule(q) PROVE Inv'
  <2> DEFINE r == StopSchedule(Now, ee)
             quick == [z \in Zones |-> IF z \in DOMAIN q THEN q[z] ELSE r.quick[z]]
             p == [r EXCEPT !.quick = quick]
  <2>1. Good(r, ee) /\ r \in RunStates
    BY <1>0, StopScheduleStops, StoppedIsGood DEF Good
  <2> HIDE DEF r
  <2>2. quick \in Durations
    BY <2>1, InputsAssumption DEF RunStates, Durations
  <2> HIDE DEF quick
  <2>3. Good(p, ee)
    <3>1. /\ p \in RunStates /\ p.sched = r.sched /\ p.zone = r.zone
          /\ p.next = r.next /\ p.cache = r.cache /\ p.out = r.out
      BY <2>1, <2>2 DEF RunStates
    <3> QED
      BY <2>1, <3>1, GoodUpdate
  <2>4. Handled(StartQuickSchedule(p, ee)) /\ ee' = ee
    BY <1>6 DEF WebQuickSchedule, r, quick
  <2> HIDE DEF p
  <2> QED
    BY <1>0, <2>3, <2>4, StartQuickScheduleGood, HandledInv
<1>7. ASSUME NEW id \in Slots, WebStartSchedule(id) PROVE Inv'
  <2>1. PICK w \in Scales : Handled(StartSchedule(StopSchedule(Now, ee), ee, id, w))
    BY <1>7 DEF WebStartSchedule
  <2>2. Good(StopSchedule(Now, ee), ee)
    BY <1>0, StopScheduleStops, StoppedIsGood
  <2> QED
    BY <1>0, <1>7, <2>1, <2>2, StartScheduleGood, HandledInv DEF WebStartSchedule
<1>8. ASSUME NEW id \in Slots, WebDeleteSchedule(id) PROVE Inv'
  <2> DEFINE slot == [i \in Slots |->
                       IF i \in id .. ee.nsched - 2 THEN ee.slot[i + 1] ELSE ee.slot[i]]
             e == [ee EXCEPT !.nsched = @ - 1, !.slot = slot]
  <2>1. id < ee.nsched /\ ee' = e /\ Restart(e)
    <3>1. e = [ee EXCEPT !.nsched = @ - 1,
                         !.slot = [i \in Slots |->
                           IF i \in id .. ee.nsched - 2 THEN @[i + 1] ELSE @[i]]]
      BY <1>0 DEF Eeproms
    <3> HIDE DEF e
    <3> QED
      BY <1>8, <3>1 DEF WebDeleteSchedule
  <2>2. /\ ee.nsched \in 0 .. MAX_SCHEDULES /\ MAX_SCHEDULES \in Nat
        /\ ee.slot \in [Slots -> Schedules] /\ id \in 0 .. MAX_SCHEDULES - 1
    BY <1>0, SizesAssumption DEF Eeproms, Quick, Slots
  <2>3. slot \in [Slots -> Schedules]
    <3>1. \A i \in Slots : i \in id .. ee.nsched - 2 => i + 1 \in Slots
      BY <2>2 DEF Slots
    <3> QED
      BY <2>2, <3>1
  <2> HIDE DEF slot
  <2>4. e \in Eeproms /\ e.run = ee.run /\ e.enabled = ee.enabled
    <3>1. ee.nsched - 1 \in 0 .. MAX_SCHEDULES
      BY <2>1, <2>2
    <3> QED
      BY <1>0, <2>3, <3>1 DEF Eeproms
  <2> HIDE DEF e
  <2> QED
    BY <2>1, <2>4, RestartInv
<1>9. ASSUME NEW id \in Slots, NEW s \in ScheduleDefs, WebSetSchedule(id, s)
      PROVE  Inv'
  <2> DEFINE e == [ee EXCEPT !.slot[id] = s,
                             !.nsched = IF id = @ THEN @ + 1 ELSE @]
  <2>1. e \in Eeproms /\ e.run = ee.run /\ e.enabled = ee.enabled
    <3> DEFINE n == IF id = ee.nsched THEN ee.nsched + 1 ELSE ee.nsched
               slot == [ee.slot EXCEPT ![id] = s]
    <3>1. n \in 0 .. MAX_SCHEDULES
      BY <1>0, SizesAssumption DEF Eeproms, Slots, Quick
    <3>2. slot \in [Slots -> Schedules]
      BY <1>0, InputsAssumption DEF Eeproms
    <3>3. e = [ee EXCEPT !.slot = slot, !.nsched = n]
      BY <1>0 DEF Eeproms
    <3> HIDE DEF n, slot, e
    <3> QED
      BY <1>0, <3>1, <3>2, <3>3 DEF Eeproms
  <2>2. ee' = e /\ IF rs.sched = id THEN Restart(e) ELSE Handled(Now)
    BY <1>9 DEF WebSetSchedule
  <2> HIDE DEF e
  <2>3. CASE rs.sched = id
    BY <2>1, <2>2, <2>3, RestartInv
  <2>4. CASE rs.sched # id
    BY <2>1, <2>2, <2>4, SameFlags, HandledInv DEF SameTimer
  <2> QED
    BY <2>3, <2>4
<1>10. CASE WebSettings
  BY <1>0, <1>10, RestartInv DEF WebSettings
<1>11. ASSUME NEW z \in Zones, NEW on \in BOOLEAN, WebSetZone(z, on) PROVE Inv'
  <2>1. ee' = [ee EXCEPT !.enabled[z] = on] /\ Handled(Now)
    BY <1>11 DEF WebSetZone
  <2>2. ee' \in Eeproms /\ ee'.run = ee.run
    BY <1>0, <2>1 DEF Eeproms
  <2>3. ~EditRunningZones => OnlyTimed(Now, ee')
    BY <1>0, <1>11, <2>1 DEF WebSetZone, Good, OnlyTimed, Switchable, Eeproms
  <2>4. Good(Now, ee')
    BY <1>11, <2>3 DEF Good, WebSetZone
  <2> QED
    BY <2>1, <2>2, <2>4, HandledInv DEF SameTimer
<1>12. CASE WebState
  BY <1>0, <1>12, PollPauseGood, HandledInv DEF WebState, SameTimer
<1>13. CASE UIHomeConfirm
  <2> DEFINE e == [ee EXCEPT !.run = ~@ /\ NotOff(rs) = {}]
             r == IF ~ee.run /\ NotOff(rs) # {} THEN TurnOffZonesWorker(Now, ee) ELSE Now
  <2>1. e \in Eeproms /\ e.enabled = ee.enabled
    BY <1>0 DEF Eeproms
  <2>2. ee' = e /\ \E w \in Scales : Processed(ProcessScheduledEvents(r, e, clock, w))
    BY <1>13 DEF UIHomeConfirm
  <2>3. PICK w \in Scales : Processed(ProcessScheduledEvents(r, e, clock, w))
    BY <2>2
  <2> HIDE DEF e
  <2>4. Good(r, ee)
    BY <1>0, TurnOffZonesWorkerStops, StoppedIsGood
  <2> HIDE DEF r
  <2>5. Good(r, e)
    BY <2>1, <2>4, SameFlags
  <2> QED
    BY <1>0, <2>1, <2>2, <2>3, <2>5, ProcessScheduledEventsGood, ProcessedInv
<1>14. ASSUME NEW st \in Stations, NEW c \in Zones, NEW m \in RunMinutes,
              UIManualStart(st, c, m)
       PROVE  Inv'
  <2>1. m \in 0 .. BYTE - 1
    BY InputsAssumption
  <2>2. CASE StartsZone(st, c)
    BY <1>0, <1>14, <2>1, <2>2, StartZoneWorkerGood, ProcessedInv DEF UIManualStart
  <2>3. CASE ~StartsZone(st, c)
    BY <1>0, <1>14, <2>3, HandledInv DEF UIManualStart, SameTimer
  <2> QED
    BY <2>2, <2>3
<1>15. ASSUME NEW st \in Stations, NEW c \in Zones, NEW m \in RunMinutes,
              MessageZonesSet(st, c, m)
       PROVE  Inv'
  <2>1. (m + 1) % BYTE \in 0 .. BYTE - 1
    BY InputsAssumption, SizesAssumption
  <2>2. CASE m = 0
    BY <1>0, <1>15, <2>2, TurnOffZonesWorkerStops, StoppedIsGood, HandledInv
       DEF MessageZonesSet, Stopped, Fresh
  <2>3. CASE m # 0 /\ StartsZone(st, c)
    BY <1>0, <1>15, <2>1, <2>3, StartZoneWorkerGood, ProcessedInv DEF MessageZonesSet
  <2>4. CASE m # 0 /\ ~StartsZone(st, c)
    BY <1>0, <1>15, <2>4, HandledInv DEF MessageZonesSet, SameTimer
  <2> QED
    BY <2>2, <2>3, <2>4
<1>16. ASSUME NEW st \in RFStations, NEW on \in SUBSET Zones,
              ReportStationZonesStatus(st, on)
       PROVE  Inv'
  <2> DEFINE cache == [z \in Zones |-> IF StationOf(z) # st THEN Now.cache[z]
                                       ELSE IF z \in on THEN RUNNING ELSE OFF]
             r == [Now EXCEPT !.cache = cache]
  <2>1. cache \in [Zones -> ZoneStates]
    BY DEF RunStates, ZoneStates
  <2>2. \A z \in Zones : ~IsRF(z) => cache[z] = Now.cache[z]
    BY DEF IsRF
  <2>3. ee' = ee /\ (Handled(r) \/ Handled(Now))
    BY <1>16 DEF ReportStationZonesStatus
  <2> HIDE DEF cache
  <2>4. /\ r \in RunStates /\ r.sched = Now.sched /\ r.zone = Now.zone
        /\ r.next = Now.next /\ r.cache = cache /\ r.out = Now.out
        /\ r.age = Now.age /\ r.mins = Now.mins
    BY <2>1 DEF RunStates
  <2>5. Good(r, ee)
    BY <2>2, <2>4 DEF Good, Uncorrupted, CacheRight, OnlyTimed, Waters
  <2> HIDE DEF r
  <2> QED
    BY <1>0, <2>3, <2>4, <2>5, HandledInv DEF SameTimer
<1>17. ASSUME NEW t \in 0 .. Cycle - 1, SetTime(t) PROVE Inv'
  <2>1. /\ rs' = Now /\ ee' = ee /\ late' = late /\ lag' = lag
        /\ clock' \in 0 .. Cycle - 1
    BY <1>17 DEF SetTime
  <2>2. TypeOK' /\ DisabledMeansIdle'
    BY <1>0, <2>1 DEF Inv, TypeOK, DisabledMeansIdle
  <2>3. OnTime(rs', lag')
    BY <2>1 DEF Inv, OnTime
  <2> QED
    BY <2>1, <2>2, <2>3 DEF Inv
<1>18. CASE Reboot
  <2>1. Good(rs', ee) /\ rs'.sched = NoSchedule
    BY <1>18, PowerOnGood DEF Reboot
  <2>2. UNCHANGED <<ee, clock, late, lag>>
    BY <1>18 DEF Reboot
  <2>3. OnTime(rs', lag')
    BY <1>0, <2>1, <2>2, FreshOnTime, OnTimeLater DEF Fresh, Good
  <2> QED
    BY <1>0, <2>1, <2>2, <2>3 DEF Inv, TypeOK, DisabledMeansIdle, Good
<1>19. CASE UNCHANGED vars
  BY <1>19 DEF vars, Inv, TypeOK, DisabledMeansIdle, OnTime
<1> QED
  BY <1>1, <1>2, <1>3, <1>4, <1>5, <1>6, <1>7, <1>8, <1>9, <1>10, <1>11, <1>12,
     <1>13, <1>14, <1>15, <1>16, <1>17, <1>18, <1>19
     DEF Next, Command

-----------------------------------------------------------------------------
(* The station's state keeps its types in every reachable state.           *)
THEOREM TypeCorrect == Spec => []TypeOK
<1>1. Inv => TypeOK
  BY DEF Inv
<1> QED
  BY <1>1, InitInv, NextInv, PTL DEF Spec

(* The branches the code guards as state corruption are never taken, for   *)
(* any number of zones, stations and schedules and whatever users, the     *)
(* radio, the clock and resets do.                                         *)
THEOREM NeverCorrupt == Spec => []NoStateCorruption
<1>1. Inv => NoStateCorruption
  BY DEF Inv, Good, Uncorrupted, NoStateCorruption
<1> QED
  BY <1>1, InitInv, NextInv, PTL DEF Spec

(* The zone cache never lies about a local valve.                          *)
THEOREM CacheIsRight == Spec => []CacheShowsValves
<1>1. Inv => CacheShowsValves
  BY DEF Inv, Good, CacheRight, CacheShowsValves
<1> QED
  BY <1>1, InitInv, NextInv, PTL DEF Spec

(* Disabling schedules stops whatever runs by the next pass.               *)
THEOREM DisabledIsIdle == Spec => []DisabledMeansIdle
<1>1. Inv => DisabledMeansIdle
  BY DEF Inv
<1> QED
  BY <1>1, InitInv, NextInv, PTL DEF Spec

(* A zone waters for its run time and a delay lasts its length, give or    *)
(* take the time the main loop is late, also when the clock is set.        *)
THEOREM RunsEndOnTime == Spec => []NoOverrun
<1>1. Inv => NoOverrun
  BY DEF Inv, OnTime, NoOverrun
<1> QED
  BY <1>1, InitInv, NextInv, PTL DEF Spec

(* As long as no one disables a zone that is running, at most one local    *)
(* valve is open, the one being timed.                                     *)
THEOREM AtMostOneValve ==
  ASSUME ~EditRunningZones
  PROVE  Spec => []OneValve
<1>1. Inv => OneValve
  <2> SUFFICES ASSUME Inv, NEW z \in Zones, rs.out[z]
               PROVE  rs.sched # NoSchedule /\ rs.zone = z
    BY DEF OneValve
  <2>1. rs.zone = z
    BY DEF Inv, Good, OnlyTimed
  <2>2. rs.zone # NoZone
    BY <2>1, SizesAssumption DEF Zones, NoZone
  <2> QED
    BY <2>1, <2>2 DEF Inv, Good, Uncorrupted
<1> QED
  BY <1>1, InitInv, NextInv, PTL DEF Spec

(* What a station starts with.                                             *)
AllEnabled == \A z \in Zones : ee.enabled[z]

(* If users do not edit the zones, every zone stays enabled.               *)
LEMMA NextEnabled ==
  ASSUME ~EditZones, Inv, AllEnabled, [Next]_vars
  PROVE  AllEnabled'
<1>1. ee \in Eeproms
  BY DEF Inv, TypeOK
<1>2. ee'.enabled = ee.enabled
  <2> USE <1>1 DEF Eeproms
  <2>1. CASE Tick \/ ZoneHandlerLoop \/ Pass \/ UNCHANGED vars
    BY <2>1 DEF Tick, ZoneHandlerLoop, Pass, vars
  <2>2. ASSUME NEW on \in BOOLEAN, WebRunSchedules(on) PROVE ee'.enabled = ee.enabled
    BY <2>2 DEF WebRunSchedules
  <2>3. ASSUME NEW m \in PauseMinutes, WebPause(m) PROVE ee'.enabled = ee.enabled
    BY <2>3 DEF WebPause
  <2>4. ASSUME NEW q \in QuickDefs, WebQuickSchedule(q)
        PROVE  ee'.enabled = ee.enabled
    BY <2>4 DEF WebQuickSchedule
  <2>5. ASSUME NEW id \in Slots, WebStartSchedule(id) \/ WebDeleteSchedule(id)
        PROVE  ee'.enabled = ee.enabled
    BY <2>5 DEF WebStartSchedule, WebDeleteSchedule
  <2>6. ASSUME NEW id \in Slots, NEW s \in ScheduleDefs, WebSetSchedule(id, s)
        PROVE  ee'.enabled = ee.enabled
    BY <2>6 DEF WebSetSchedule
  <2>7. ASSUME NEW z \in Zones, NEW on \in BOOLEAN, WebSetZone(z, on)
        PROVE  ee'.enabled = ee.enabled
    BY <2>7 DEF WebSetZone
  <2>8. CASE WebSettings \/ WebState \/ UIHomeConfirm \/ Reboot
    BY <2>8 DEF WebSettings, WebState, UIHomeConfirm, Reboot
  <2>9. ASSUME NEW st \in Stations, NEW c \in Zones, NEW m \in RunMinutes,
               UIManualStart(st, c, m) \/ MessageZonesSet(st, c, m)
        PROVE  ee'.enabled = ee.enabled
    BY <2>9 DEF UIManualStart, MessageZonesSet
  <2>10. ASSUME NEW st \in RFStations, NEW on \in SUBSET Zones,
                ReportStationZonesStatus(st, on)
         PROVE  ee'.enabled = ee.enabled
    BY <2>10 DEF ReportStationZonesStatus
  <2>11. ASSUME NEW t \in 0 .. Cycle - 1, SetTime(t) PROVE ee'.enabled = ee.enabled
    BY <2>11 DEF SetTime
  <2> QED
    BY <2>1, <2>2, <2>3, <2>4, <2>5, <2>6, <2>7, <2>8, <2>9, <2>10, <2>11
       DEF Next, Command
<1> QED
  BY <1>2 DEF AllEnabled

(* Time on a schedule is time watering: unless users edit the zones, a     *)
(* local valve is open exactly while its zone is the timed one.            *)
THEOREM TimerIsFollowed ==
  ASSUME ~EditZones, ~EditRunningZones
  PROVE  Spec => []ValveFollowsTimer
<1>1. Init => AllEnabled
  <2> SUFFICES ASSUME Init, NEW z \in Zones PROVE ee.enabled[z]
    BY DEF AllEnabled
  <2>1. ee.enabled = [y \in Zones |-> TRUE]
    BY DEF Init
  <2> QED
    BY <2>1
<1>2. Inv /\ AllEnabled => ValveFollowsTimer
  <2> SUFFICES ASSUME Inv, AllEnabled, NEW z \in Zones, ~IsRF(z), Active(z)
               PROVE  rs.out[z] = (rs.zone = z)
    BY DEF ValveFollowsTimer
  <2>1. Switchable(ee, z)
    BY DEF AllEnabled, Switchable
  <2>2. rs.zone = z => rs.out[z]
    BY <2>1 DEF Inv, Good, Waters
  <2>3. rs.out[z] => rs.zone = z
    BY DEF Inv, Good, OnlyTimed
  <2>4. rs.out[z] \in BOOLEAN
    BY DEF Inv, Good, RunStates
  <2> QED
    BY <2>2, <2>3, <2>4
<1>3. Inv /\ AllEnabled /\ [Next]_vars => (Inv /\ AllEnabled)'
  BY NextInv, NextEnabled
<1> QED
  BY <1>1, <1>2, <1>3, InitInv, PTL DEF Spec

-----------------------------------------------------------------------------
(* The pause.                                                              *)

SamePause(r, q) == q.paused = r.paused /\ q.left = r.left

(* A run state may run a stored schedule other than id at time t only if   *)
(* no pause is on, or one that does not fit.                               *)
Allowed(id, r, t) ==
  r.sched \in Slots /\ r.sched # id => RemainingPauseTime(r) = 0 \/ ~PauseFits(r, t)

(* What a method that knows nothing of pauses may do to the schedule.      *)
LEMMA StaysAllowed ==
  ASSUME NEW id, NEW r, NEW t, Allowed(id, r, t), NEW q, SamePause(r, q),
         q.sched \in {r.sched, NoSchedule}
  PROVE  Allowed(id, q, t)
<1>1. NoSchedule \notin Slots
  BY SizesAssumption DEF Slots, NoSchedule, Quick
<1> QED
  BY <1>1 DEF Allowed, SamePause, RemainingPauseTime, PauseFits

(* Nothing stored runs with the quick schedule or none.                    *)
LEMMA OthersAllowed ==
  ASSUME NEW id, NEW r, NEW t, r.sched \in {NoSchedule, Quick}
  PROVE  Allowed(id, r, t)
BY SizesAssumption DEF Allowed, Slots, NoSchedule, Quick

(* The time that remains is a number of minutes.                           *)
LEMMA RemainingType ==
  ASSUME NEW r \in RunStates
  PROVE  RemainingPauseTime(r) \in Nat
<1>1. r.left \div MINUTE \in Int
  BY SizesAssumption DEF RunStates
<1>2. (r.left \div MINUTE) % INT \in Nat
  BY <1>1, SizesAssumption
<1> QED
  BY <1>2 DEF RemainingPauseTime

(* Switching zones leaves the pause alone.                                 *)
LEMMA TurnOffPause ==
  ASSUME NEW r \in RunStates, NEW e, NEW Z
  PROVE  SamePause(r, TurnOff(r, e, Z)) /\ TurnOff(r, e, Z).sched = r.sched
BY DEF TurnOff, SamePause, RunStates

(* The same for switching one on.                                          *)
LEMMA RunZonePause ==
  ASSUME NEW r \in RunStates, NEW e, NEW z, NEW m
  PROVE  SamePause(r, RunZone(r, e, z, m)) /\ RunZone(r, e, z, m).sched = r.sched
<1> DEFINE q == [r EXCEPT !.zone = z, !.age = 0, !.mins = m]
           p == TurnOnZone(q, e, z, m)
<1>1. SamePause(r, q) /\ q.sched = r.sched
  BY DEF SamePause, RunStates
<1>2. \/ p = q
      \/ p = [q EXCEPT !.cache[z] = STARTING + ZONE_STATE_TIMEOUT,
                       !.sent = Append(@, [zones |-> {z}, ttr |-> m])]
      \/ p = [q EXCEPT !.cache[z] = RUNNING, !.out[z] = TRUE]
  BY DEF TurnOnZone
<1>3. DOMAIN q = DOMAIN r
  OBVIOUS
<1> HIDE DEF q
<1>4. SamePause(q, p) /\ p.sched = q.sched
  BY <1>2, <1>3 DEF SamePause, RunStates
<1> QED
  BY <1>1, <1>4 DEF SamePause, RunZone, q, p

(* StopSchedule leaves the pause alone and no schedule.                    *)
LEMMA StopSchedulePause ==
  ASSUME NEW r \in RunStates, NEW e \in Eeproms
  PROVE  SamePause(r, StopSchedule(r, e)) /\ StopSchedule(r, e).sched = NoSchedule
<1>1. CASE r.sched = NoSchedule
  BY <1>1 DEF StopSchedule, SamePause
<1>2. CASE r.sched # NoSchedule
  <2> DEFINE q == IF r.zone \in Zones THEN TurnOffZone(r, e, r.zone) ELSE r
  <2>1. q \in RunStates /\ SamePause(r, q)
    BY TurnOffType, TurnOffPause DEF TurnOffZone, SamePause
  <2>2. StopSchedule(r, e) = [q EXCEPT !.zone = NoZone, !.sched = NoSchedule]
    BY <1>2 DEF StopSchedule
  <2> HIDE DEF q
  <2> QED
    BY <2>1, <2>2 DEF SamePause, RunStates
<1> QED
  BY <1>1, <1>2

(* "Stop all" does too.                                                    *)
LEMMA TurnOffZonesWorkerPause ==
  ASSUME NEW r \in RunStates, NEW e \in Eeproms
  PROVE  /\ SamePause(r, TurnOffZonesWorker(r, e))
         /\ TurnOffZonesWorker(r, e).sched = NoSchedule
<1> DEFINE q == TurnOff(r, e, NotOff(r))
<1>1. q \in RunStates /\ SamePause(r, q)
  BY TurnOffType, TurnOffPause DEF NotOff
<1>2. TurnOffZonesWorker(r, e) = [q EXCEPT !.zone = NoZone, !.sched = NoSchedule]
  BY DEF TurnOffZonesWorker
<1> HIDE DEF q
<1> QED
  BY <1>1, <1>2 DEF SamePause, RunStates

(* Starting a schedule, if it has a zone to start.                         *)
LEMMA StartFirstZonePause ==
  ASSUME NEW r \in RunStates, NEW e, NEW id \in {Quick} \cup Slots, NEW s, NEW scale
  PROVE  /\ SamePause(r, StartFirstZone(r, e, id, s, scale))
         /\ StartFirstZone(r, e, id, s, scale).sched \in {r.sched, id}
<1> DEFINE Z == ZonesAfter(s, NoZone)
           q == [r EXCEPT !.sched = id]
<1>1. CASE Z = {}
  BY <1>1 DEF StartFirstZone, SamePause
<1>2. CASE Z # {}
  <2>1. q \in RunStates /\ SamePause(r, q) /\ q.sched = id
    BY DEF RunStates, SamePause
  <2>2. PICK z, m : StartFirstZone(r, e, id, s, scale) = RunZone(q, e, z, m)
    BY <1>2 DEF StartFirstZone
  <2> HIDE DEF q
  <2>3. SamePause(q, RunZone(q, e, z, m)) /\ RunZone(q, e, z, m).sched = q.sched
    BY <2>1, RunZonePause
  <2> QED
    BY <2>1, <2>2, <2>3 DEF SamePause
<1> QED
  BY <1>1, <1>2

(* StartSchedule with and without fQuickSched.                             *)
LEMMA StartQuickSchedulePause ==
  ASSUME NEW r, NEW e \in Eeproms, Good(r, e)
  PROVE  StartQuickSchedule(r, e).sched \in {NoSchedule, Quick}
<1> DEFINE q == StopSchedule(r, e)
<1>1. q \in RunStates /\ q.sched = NoSchedule
  BY StopScheduleStops DEF Stopped, Resting
<1>2. StartQuickSchedule(r, e) = StartFirstZone(q, e, Quick, QuickSchedule(q), 100)
  BY DEF StartQuickSchedule
<1> HIDE DEF q
<1> QED
  BY <1>1, <1>2, StartFirstZonePause

(* The same for a schedule of the table.                                   *)
LEMMA StartSchedulePause ==
  ASSUME NEW r, NEW e \in Eeproms, Good(r, e), NEW id, NEW scale
  PROVE  SamePause(r, StartSchedule(r, e, id, scale))
<1> DEFINE q == StopSchedule(r, e)
<1>1. q \in RunStates /\ SamePause(r, q)
  BY StopScheduleStops, StopSchedulePause DEF Stopped, Resting, Good
<1>2. CASE id \in Slots /\ e.slot[id].enabled
  <2>1. StartSchedule(r, e, id, scale) = StartFirstZone(q, e, id, e.slot[id], scale)
    BY <1>2 DEF StartSchedule
  <2> HIDE DEF q
  <2> QED
    BY <1>1, <1>2, <2>1, StartFirstZonePause DEF SamePause
<1>3. CASE ~(id \in Slots /\ e.slot[id].enabled)
  BY <1>1, <1>3 DEF StartSchedule
<1> QED
  BY <1>2, <1>3

(* Polling the pause ends it only when no time remains.                    *)
LEMMA PollPauseTime ==
  ASSUME NEW r \in RunStates
  PROVE  /\ RemainingPauseTime(PollPause(r)) = RemainingPauseTime(r)
         /\ PollPause(r).sched = r.sched
<1> DEFINE p == r.paused /\ RemainingPauseTime(r) # 0
           q == PollPause(r)
<1>1. q = [r EXCEPT !.paused = p]
  BY DEF PollPause
<1>2. (p <=> (r.paused /\ RemainingPauseTime(r) # 0)) /\ p \in BOOLEAN
  OBVIOUS
<1> HIDE DEF p
<1>3. q.paused = p /\ q.left = r.left /\ q.sched = r.sched
  BY <1>1 DEF RunStates
<1> HIDE DEF q
<1>4. ASSUME p PROVE RemainingPauseTime(q) = RemainingPauseTime(r)
  BY <1>2, <1>3, <1>4 DEF RemainingPauseTime
<1>5. ASSUME ~p PROVE RemainingPauseTime(q) = RemainingPauseTime(r)
  <2>1. RemainingPauseTime(q) = 0
    BY <1>3, <1>5 DEF RemainingPauseTime
  <2>2. ~r.paused => RemainingPauseTime(r) = 0
    BY DEF RemainingPauseTime
  <2> QED
    BY <1>2, <1>5, <2>1, <2>2
<1> QED
  BY <1>3, <1>4, <1>5 DEF q

(* The next event is one of the events.                                    *)
LEMMA NextEventIsOne ==
  ASSUME NEW r, NEW e, NEW t, Events(r, e, t) # {}
  PROVE  GetNextEvent(r, e, t) \in Events(r, e, t)
<1> DEFINE E == Events(r, e, t)
           T == {p[2] : p \in E}
<1>1. \A p \in E : p = <<p[1], p[2]>> /\ p[1] \in Nat /\ p[2] \in Nat
  BY SizesAssumption DEF Events, Slots, Quick
<1> HIDE DEF E
<1>2. PICK first \in T : \A x \in T : first <= x
  <2>1. T \subseteq Nat /\ T # {}
    BY <1>1 DEF E
  <2> HIDE DEF T
  <2> QED
    BY <2>1, MinExists
<1> DEFINE S == {p[1] : p \in {p \in E : p[2] = first}}
<1>3. PICK low \in S : \A x \in S : low <= x
  <2>1. S \subseteq Nat /\ S # {}
    BY <1>1, <1>2
  <2> HIDE DEF S
  <2> QED
    BY <2>1, MinExists
<1>4. PICK p \in E : p[1] = low /\ p[2] = first
  BY <1>3
<1>5. \A q \in E : p[2] < q[2] \/ (p[2] = q[2] /\ p[1] <= q[1])
  <2> SUFFICES ASSUME NEW q \in E, ~(p[2] < q[2])
               PROVE  p[2] = q[2] /\ p[1] <= q[1]
    OBVIOUS
  <2>1. first <= q[2] /\ p[2] \in Nat /\ q[2] \in Nat
    BY <1>1, <1>2
  <2>2. q[2] = first
    BY <1>4, <2>1
  <2>3. q[1] \in S
    BY <2>2
  <2> QED
    BY <1>3, <1>4, <2>2, <2>3
<1> QED
  BY <1>4, <1>5 DEF GetNextEvent, E

(* A short holds a number of minutes below half its values.                *)
LEMMA ShortIsExact ==
  ASSUME NEW n \in Nat, 2 * n < INT
  PROVE  Short(n) = n
BY SizesAssumption DEF Short

(* A start is due only when the pause leaves it time.                      *)
LEMMA StartNextEventAllowed ==
  ASSUME NEW id, NEW r, NEW e \in Eeproms, Good(r, e), r.sched = NoSchedule,
         NEW t \in Int, NEW scale
  PROVE  Allowed(id, StartNextEvent(r, e, t, scale), t)
<1> DEFINE p == GetNextEvent(r, e, t)
           q == PollPause(r)
<1>1. r \in RunStates /\ Good(q, e)
  BY PollPauseGood DEF Good
<1>2. q.sched = NoSchedule /\ RemainingPauseTime(q) = RemainingPauseTime(r)
  BY <1>1, PollPauseTime
<1>3. CASE Events(r, e, t) # {} /\ p[2] = MinuteOf(t)
  <2>1. p \in Events(r, e, t)
    BY <1>3, NextEventIsOne
  <2>2. p[2] >= Short(MinuteOf(t) + RemainingPauseTime(r))
    BY <2>1 DEF Events
  <2>3. MinuteOf(t) \in Nat
    <3>1. t \div MINUTE \in Int
      BY SizesAssumption
    <3> QED
      BY <3>1, SizesAssumption DEF MinuteOf
  <2>4. RemainingPauseTime(r) = 0 \/ ~PauseFits(r, t)
    <3> SUFFICES ASSUME PauseFits(r, t)
                 PROVE  RemainingPauseTime(r) = 0
      OBVIOUS
    <3>1. Short(MinuteOf(t) + RemainingPauseTime(r)) = MinuteOf(t) + RemainingPauseTime(r)
      BY <1>1, <2>3, RemainingType, ShortIsExact DEF PauseFits
    <3> QED
      BY <1>1, <1>3, <2>2, <2>3, <3>1, RemainingType
  <2>5. StartNextEvent(r, e, t, scale) = StartSchedule(q, e, p[1], scale)
    BY <1>3 DEF StartNextEvent
  <2> HIDE DEF p, q
  <2>6. SamePause(q, StartSchedule(q, e, p[1], scale))
    BY <1>1, StartSchedulePause
  <2> QED
    BY <1>2, <2>4, <2>5, <2>6
       DEF Allowed, SamePause, RemainingPauseTime, PauseFits
<1>4. CASE ~(Events(r, e, t) # {} /\ p[2] = MinuteOf(t))
  BY <1>2, <1>4, OthersAllowed DEF StartNextEvent
<1> QED
  BY <1>3, <1>4

(* The end of a delay or of a zone changes no pause and no schedule but to *)
(* stop it.                                                                *)
LEMMA EndDelayPause ==
  ASSUME NEW r \in RunStates, NEW e \in Eeproms, NEW scale
  PROVE  LET p == EndDelay(r, e, scale)
         IN  SamePause(r, p) /\ p.sched \in {r.sched, NoSchedule}
<1> DEFINE q == [r EXCEPT !.zone = NoZone]
           n == [r EXCEPT !.next = NoZone]
           p == EndDelay(r, e, scale)
<1>1. /\ q \in RunStates /\ SamePause(r, q)
      /\ n \in RunStates /\ SamePause(r, n) /\ n.sched = r.sched
  BY DEF RunStates, SamePause
<1>2. p = r \/ p = StopSchedule(q, e) \/ \E z, m : p = RunZone(n, e, z, m)
  BY DEF EndDelay
<1> HIDE DEF q, n, p
<1>3. CASE p = r
  BY <1>3 DEF SamePause, p
<1>4. CASE p = StopSchedule(q, e)
  BY <1>1, <1>4, StopSchedulePause DEF SamePause, p
<1>5. ASSUME NEW z, NEW m, p = RunZone(n, e, z, m)
      PROVE  SamePause(r, p) /\ p.sched = r.sched
  <2>1. SamePause(n, p) /\ p.sched = n.sched
    BY <1>1, <1>5, RunZonePause
  <2> QED
    BY <1>1, <2>1 DEF SamePause
<1> QED
  BY <1>2, <1>3, <1>4, <1>5 DEF p

(* The end of a zone's run time.                                           *)
LEMMA EndZonePause ==
  ASSUME NEW r \in RunStates, NEW e \in Eeproms, r.zone \in Zones
  PROVE  LET p == EndZone(r, e)
         IN  SamePause(r, p) /\ p.sched \in {r.sched, NoSchedule}
<1> DEFINE s == CurrentSchedule(r, e)
           Z == ZonesAfter(s, r.zone)
           q == TurnOffZone(r, e, r.zone)
           o == [q EXCEPT !.zone = NoZone]
           g == [q EXCEPT !.next = FirstOf(Z), !.zone = Gap, !.age = 0]
           p == EndZone(r, e)
<1>1. q \in RunStates /\ SamePause(r, q) /\ q.sched = r.sched
  BY TurnOffType, TurnOffPause DEF TurnOffZone
<1>2. p = r \/ p = g \/ p = StopSchedule(o, e)
  BY DEF EndZone
<1> HIDE DEF q, s, Z
<1>3. SamePause(r, g) /\ g.sched = r.sched
  BY <1>1 DEF SamePause, RunStates
<1>4. o \in RunStates /\ SamePause(r, o)
  BY <1>1 DEF SamePause, RunStates
<1> HIDE DEF g, o, p
<1>5. CASE p = r
  BY <1>5 DEF SamePause, p
<1>6. CASE p = StopSchedule(o, e)
  BY <1>4, <1>6, StopSchedulePause DEF SamePause, p
<1> QED
  BY <1>2, <1>3, <1>5, <1>6 DEF p

(* A pass of the scheduler starts no stored schedule during a pause.       *)
LEMMA ProcessScheduledEventsAllowed ==
  ASSUME NEW id, NEW r, NEW e \in Eeproms, Good(r, e), NEW t \in Int,
         Allowed(id, r, t), NEW scale
  PROVE  Allowed(id, ProcessScheduledEvents(r, e, t, scale), t)
<1> DEFINE q == StopSchedule(r, e)
<1>0. r \in RunStates /\ Gap \notin Zones
  BY SizesAssumption DEF Good, Zones, Gap
<1>1. Allowed(id, q, t)
  BY <1>0, StopSchedulePause, OthersAllowed
<1> HIDE DEF q
<1>2. CASE ~e.run
  BY <1>1, <1>2 DEF ProcessScheduledEvents, q
<1>3. CASE e.run /\ r.sched = NoSchedule
  BY <1>3, StartNextEventAllowed DEF ProcessScheduledEvents
<1>4. CASE e.run /\ r.sched # NoSchedule /\ r.zone = Gap
  <2>1. ProcessScheduledEvents(r, e, t, scale) = EndDelay(r, e, scale)
    BY <1>0, <1>4 DEF ProcessScheduledEvents
  <2> QED
    BY <1>0, <2>1, EndDelayPause, StaysAllowed
<1>5. CASE e.run /\ r.sched # NoSchedule /\ r.zone \in Zones
  <2>1. ProcessScheduledEvents(r, e, t, scale) = EndZone(r, e)
    BY <1>0, <1>5 DEF ProcessScheduledEvents
  <2> QED
    BY <1>0, <1>5, <2>1, EndZonePause, StaysAllowed
<1>6. CASE e.run /\ r.sched # NoSchedule /\ r.zone # Gap /\ r.zone \notin Zones
  BY <1>1, <1>6 DEF ProcessScheduledEvents, q
<1> QED
  BY <1>2, <1>3, <1>4, <1>5, <1>6

(* A request for a pause stops the schedule before the pause begins.       *)
LEMMA SetPauseAllowed ==
  ASSUME NEW id, NEW r, NEW e \in Eeproms, Good(r, e), r.sched = id,
         NEW t \in Int, NEW minutes \in Nat, NEW scale \in Nat
  PROVE  Allowed(id, SetPause(r, e, t, minutes, scale), t)
<1>0. r \in RunStates /\ Allowed(id, r, t)
  BY DEF Good, Allowed
<1>1. CASE minutes = 0
  <2> DEFINE q == [r EXCEPT !.paused = FALSE]
  <2>1. /\ q \in RunStates /\ q.sched = r.sched /\ q.zone = r.zone
        /\ q.next = r.next /\ q.cache = r.cache /\ q.out = r.out
    BY <1>0 DEF RunStates
  <2>2. Good(q, e) /\ Allowed(id, q, t)
    BY <2>1, GoodUpdate DEF Allowed
  <2>3. SetPause(r, e, t, minutes, scale) =
          IF r.paused THEN ProcessScheduledEvents(q, e, t, scale) ELSE r
    BY <1>1 DEF SetPause
  <2> HIDE DEF q
  <2> QED
    BY <1>0, <2>2, <2>3, ProcessScheduledEventsAllowed
<1>2. CASE minutes # 0
  <2> DEFINE p == IF e.run THEN StopSchedule(r, e) ELSE r
             left == (minutes * MINUTE) % MILLIS
             q == [p EXCEPT !.paused = TRUE, !.left = left]
  <2>1. Good(p, e) /\ p.sched \in {r.sched, NoSchedule}
    BY <1>0, StopScheduleStops, StoppedIsGood, StopSchedulePause
  <2>2. SetPause(r, e, t, minutes, scale) = ProcessScheduledEvents(q, e, t, scale)
    BY <1>2 DEF SetPause
  <2>3. left \in 0 .. MILLIS - 1
    BY SizesAssumption
  <2> HIDE DEF p, left
  <2>4. /\ q \in RunStates /\ q.sched = p.sched /\ q.zone = p.zone
        /\ q.next = p.next /\ q.cache = p.cache /\ q.out = p.out
    BY <2>1, <2>3 DEF Good, RunStates
  <2> HIDE DEF q
  <2>5. Good(q, e)
    BY <2>1, <2>4, GoodUpdate
  <2>6. Allowed(id, q, t)
    BY <2>1, <2>4, OthersAllowed DEF Allowed
  <2> QED
    BY <2>2, <2>5, <2>6, ProcessScheduledEventsAllowed
<1> QED
  BY <1>1, <1>2

(* A manual run is none of a stored schedule.                              *)
LEMMA StartZoneWorkerAllowed ==
  ASSUME NEW id, NEW r, NEW e \in Eeproms, Good(r, e), r.sched = id,
         NEW t \in Int, NEW st, NEW channel, NEW minutes \in 0 .. BYTE - 1
  PROVE  Allowed(id, StartZoneWorker(r, e, t, st, channel, minutes), t)
<1>1. CASE ~StartsZone(st, channel)
  BY <1>1 DEF StartZoneWorker, Allowed
<1>2. CASE StartsZone(st, channel)
  <2> DEFINE stopped == StopSchedule(r, e)
             off == IF NotOff(stopped) # {}
                    THEN TurnOffZonesWorker(stopped, e) ELSE stopped
             one == [z \in Zones |->
                      IF z = StartZoneOf[st] + channel THEN minutes ELSE 0]
             q == [off EXCEPT !.quick = one]
             p == StartQuickSchedule(q, e)
  <2>1. Good(stopped, e)
    BY StopScheduleStops, StoppedIsGood
  <2> HIDE DEF stopped
  <2>2. Good(off, e)
    BY <2>1, TurnOffZonesWorkerStops, StoppedIsGood
  <2>3. one \in Durations
    BY SizesAssumption DEF Durations
  <2>4. StartZoneWorker(r, e, t, st, channel, minutes) =
          ProcessScheduledEvents(p, e, t, 100)
    BY <1>2 DEF StartZoneWorker, stopped
  <2> HIDE DEF off, one
  <2>5. /\ q \in RunStates /\ q.sched = off.sched /\ q.zone = off.zone
        /\ q.next = off.next /\ q.cache = off.cache /\ q.out = off.out
    BY <2>2, <2>3 DEF Good, RunStates
  <2>6. Good(q, e)
    BY <2>2, <2>5, GoodUpdate
  <2> HIDE DEF q
  <2>7. Good(p, e) /\ p.sched \in {NoSchedule, Quick}
    BY <2>6, StartQuickScheduleGood, StartQuickSchedulePause
  <2> HIDE DEF p
  <2>8. Allowed(id, p, t)
    BY <2>7, OthersAllowed
  <2> QED
    BY <2>4, <2>7, <2>8, ProcessScheduledEventsAllowed
<1> QED
  BY <1>1, <1>2

(* What delSched, setSched and settings end with.                          *)
LEMMA RestartAllowed ==
  ASSUME Inv, clock \in Int, NEW e \in Eeproms, e.enabled = ee.enabled, Restart(e)
  PROVE  Allowed(rs.sched, rs', clock)
<1> DEFINE r == StopSchedule(Now, e)
<1>1. Good(Now, e) /\ Now \in RunStates
  BY NowGood, SameFlags
<1>2. CASE e.run
  <2>1. Good(r, e) /\ Allowed(rs.sched, r, clock)
    BY <1>1, StopScheduleStops, StoppedIsGood, StopSchedulePause, OthersAllowed
  <2>2. PICK w \in Scales : Processed(ProcessScheduledEvents(r, e, clock, w))
    BY <1>2 DEF Restart
  <2> HIDE DEF r
  <2> QED
    BY <2>1, <2>2, ProcessScheduledEventsAllowed DEF Processed
<1>3. CASE ~e.run
  BY <1>3, NowGood DEF Restart, Handled, Allowed
<1> QED
  BY <1>2, <1>3

(* The steps other than a start from the web page.                         *)
LEMMA NextAllowed ==
  ASSUME Inv, [Next]_vars
  PROVE  Allowed(rs.sched, rs', clock) \/ \E id \in Slots : WebStartSchedule(id)
<1> DEFINE before == rs.sched
<1> USE NowGood
<1>0. ee \in Eeproms /\ rs \in RunStates /\ clock \in Int
      /\ \A w \in Scales : w \in Nat
  BY InputsAssumption DEF Inv, TypeOK
<1>00. Allowed(before, Now, clock) /\ Good(Now, ee) /\ Now \in RunStates
  BY DEF Allowed
<1>01. rs'.sched = rs.sched => Allowed(before, rs', clock)
  BY DEF Allowed
<1> HIDE DEF before
<1>1. CASE Tick
  <2>1. rs'.sched = Now.sched
    BY <1>1, <1>00 DEF Tick, RunStates
  <2> QED
    BY <1>01, <2>1 DEF before
<1>2. CASE ZoneHandlerLoop
  <2>1. rs'.sched = Now.sched
    BY <1>2, <1>00 DEF ZoneHandlerLoop, RunStates
  <2> QED
    BY <1>01, <2>1 DEF before
<1>3. CASE Pass
  <2>1. PICK w \in Scales : Processed(ProcessScheduledEvents(Now, ee, clock, w))
    BY <1>3 DEF Pass
  <2> QED
    BY <1>0, <1>00, <2>1, ProcessScheduledEventsAllowed DEF Processed, before
<1>4. ASSUME NEW on \in BOOLEAN, WebRunSchedules(on) PROVE Allowed(before, rs', clock)
  <2> DEFINE e == [ee EXCEPT !.run = on]
  <2>1. e \in Eeproms /\ e.enabled = ee.enabled
    BY <1>0 DEF Eeproms
  <2>2. PICK w \in Scales : Processed(ProcessScheduledEvents(Now, e, clock, w))
    BY <1>4 DEF WebRunSchedules
  <2> HIDE DEF e
  <2>3. Good(Now, e)
    BY <1>00, <2>1, SameFlags
  <2> QED
    BY <1>0, <1>00, <2>1, <2>2, <2>3, ProcessScheduledEventsAllowed DEF Processed
<1>5. ASSUME NEW m \in PauseMinutes, WebPause(m) PROVE Allowed(before, rs', clock)
  <2>1. PICK w \in Scales :
          Processed(ProcessScheduledEvents(SetPause(Now, ee, clock, m, w), ee, clock, w))
    BY <1>5 DEF WebPause
  <2>2. m \in Nat /\ w \in Nat /\ Now.sched = before
    BY <1>0, InputsAssumption DEF before
  <2>3. /\ Good(SetPause(Now, ee, clock, m, w), ee)
        /\ Allowed(before, SetPause(Now, ee, clock, m, w), clock)
    BY <1>0, <1>00, <2>2, SetPauseGood, SetPauseAllowed
  <2> QED
    BY <1>0, <2>1, <2>3, ProcessScheduledEventsAllowed DEF Processed
<1>6. ASSUME NEW q \in QuickDefs, WebQuickSchedule(q) PROVE Allowed(before, rs', clock)
  <2> DEFINE r == StopSchedule(Now, ee)
             quick == [z \in Zones |-> IF z \in DOMAIN q THEN q[z] ELSE r.quick[z]]
             p == [r EXCEPT !.quick = quick]
  <2>1. Good(r, ee) /\ r \in RunStates
    BY <1>0, <1>00, StopScheduleStops, StoppedIsGood DEF Good
  <2> HIDE DEF r
  <2>2. quick \in Durations
    BY <2>1, InputsAssumption DEF RunStates, Durations
  <2> HIDE DEF quick
  <2>3. Good(p, ee)
    <3>1. /\ p \in RunStates /\ p.sched = r.sched /\ p.zone = r.zone
          /\ p.next = r.next /\ p.cache = r.cache /\ p.out = r.out
      BY <2>1, <2>2 DEF RunStates
    <3> QED
      BY <2>1, <3>1, GoodUpdate
  <2>4. rs' = StartQuickSchedule(p, ee)
    BY <1>6 DEF WebQuickSchedule, Handled, r, quick
  <2> HIDE DEF p
  <2> QED
    BY <1>0, <2>3, <2>4, StartQuickSchedulePause, OthersAllowed
<1>7. ASSUME NEW id \in Slots, WebDeleteSchedule(id) PROVE Allowed(before, rs', clock)
  <2>1. ee' \in Eeproms
    BY <1>7, NextInv DEF Next, Command, Inv, TypeOK
  <2>2. PICK slot, n : ee' = [ee EXCEPT !.nsched = n, !.slot = slot]
    BY <1>7 DEF WebDeleteSchedule
  <2>3. ee'.enabled = ee.enabled
    BY <1>0, <2>2 DEF Eeproms
  <2>4. Restart(ee')
    BY <1>7 DEF WebDeleteSchedule
  <2> QED
    BY <1>0, <2>1, <2>3, <2>4, RestartAllowed DEF before
<1>8. ASSUME NEW id \in Slots, NEW s \in ScheduleDefs, WebSetSchedule(id, s)
      PROVE  Allowed(before, rs', clock)
  <2>1. ee' \in Eeproms
    BY <1>8, NextInv DEF Next, Command, Inv, TypeOK
  <2>2. PICK slot, n : ee' = [ee EXCEPT !.slot = slot, !.nsched = n]
    BY <1>8 DEF WebSetSchedule
  <2>3. ee'.enabled = ee.enabled
    BY <1>0, <2>2 DEF Eeproms
  <2>4. Restart(ee') \/ rs' = Now
    BY <1>8 DEF WebSetSchedule, Handled
  <2> QED
    BY <1>0, <1>00, <2>1, <2>3, <2>4, RestartAllowed DEF before
<1>9. CASE WebSettings
  BY <1>0, <1>9, RestartAllowed DEF WebSettings, before
<1>10. CASE WebState
  <2>1. rs'.sched = rs.sched
    BY <1>00, <1>10, PollPauseTime DEF WebState, Handled
  <2> QED
    BY <1>01, <2>1 DEF before
<1>11. CASE UIHomeConfirm
  <2> DEFINE e == [ee EXCEPT !.run = ~@ /\ NotOff(rs) = {}]
             r == IF ~ee.run /\ NotOff(rs) # {} THEN TurnOffZonesWorker(Now, ee) ELSE Now
  <2>1. e \in Eeproms /\ e.enabled = ee.enabled
    BY <1>0 DEF Eeproms
  <2>2. PICK w \in Scales : Processed(ProcessScheduledEvents(r, e, clock, w))
    BY <1>11 DEF UIHomeConfirm
  <2> HIDE DEF e
  <2>3. Good(r, ee) /\ Allowed(before, r, clock)
    BY <1>0, <1>00, TurnOffZonesWorkerStops, StoppedIsGood, TurnOffZonesWorkerPause,
       OthersAllowed
  <2> HIDE DEF r
  <2>4. Good(r, e)
    BY <2>1, <2>3, SameFlags
  <2> QED
    BY <1>0, <2>1, <2>2, <2>3, <2>4, ProcessScheduledEventsAllowed
       DEF Processed, before
<1>12. ASSUME NEW st \in Stations, NEW c \in Zones, NEW m \in RunMinutes,
              UIManualStart(st, c, m)
       PROVE  Allowed(before, rs', clock)
  <2>1. m \in 0 .. BYTE - 1 /\ Now.sched = before
    BY InputsAssumption DEF before
  <2>2. rs' = Now \/ rs' = StartZoneWorker(Now, ee, clock, st, c, m)
    BY <1>12 DEF UIManualStart, Handled, Processed
  <2> QED
    BY <1>0, <1>00, <2>1, <2>2, StartZoneWorkerAllowed
<1>13. ASSUME NEW st \in Stations, NEW c \in Zones, NEW m \in RunMinutes,
              MessageZonesSet(st, c, m)
       PROVE  Allowed(before, rs', clock)
  <2> DEFINE n == (m + 1) % BYTE
  <2>1. n \in 0 .. BYTE - 1 /\ Now.sched = before
    BY InputsAssumption, SizesAssumption DEF before
  <2>2. \/ rs' = Now \/ rs' = TurnOffZonesWorker(Now, ee)
        \/ rs' = StartZoneWorker(Now, ee, clock, st, c, n)
    BY <1>13 DEF MessageZonesSet, Handled, Processed
  <2> HIDE DEF n
  <2> QED
    BY <1>0, <1>00, <2>1, <2>2, StartZoneWorkerAllowed, TurnOffZonesWorkerPause,
       OthersAllowed
<1>14. ASSUME NEW st \in RFStations, NEW on \in SUBSET Zones,
              ReportStationZonesStatus(st, on)
       PROVE  Allowed(before, rs', clock)
  <2>1. \E cache : rs' \in {Now, [Now EXCEPT !.cache = cache]}
    BY <1>14 DEF ReportStationZonesStatus, Handled
  <2>2. rs'.sched = Now.sched
    BY <1>00, <2>1 DEF RunStates
  <2> QED
    BY <1>01, <2>2
<1>15. CASE \/ \E z \in Zones, on \in BOOLEAN : WebSetZone(z, on)
            \/ \E t \in 0 .. Cycle - 1 : SetTime(t)
  BY <1>00, <1>15 DEF WebSetZone, SetTime, Handled, before
<1>16. CASE Reboot
  <2>1. rs'.sched = NoSchedule
    BY <1>16 DEF Reboot
  <2> QED
    BY <2>1, OthersAllowed
<1>17. CASE UNCHANGED vars
  BY <1>01, <1>17 DEF vars, before
<1> QED
  BY <1>1, <1>2, <1>3, <1>4, <1>5, <1>6, <1>7, <1>8, <1>9, <1>10, <1>11, <1>12,
     <1>13, <1>14, <1>15, <1>16, <1>17
     DEF Next, Command, before

(* While a pause is on that fits a short together with the time of day, no *)
(* stored schedule starts but from the web page, whatever the clock, the   *)
(* table of schedules and the other commands do.                           *)
THEOREM PauseIsKept == Spec => PauseHolds
<1>1. Inv /\ [Next]_vars =>
        [rs'.sched \in Slots /\ rs'.sched # rs.sched =>
           \/ RemainingPauseTime(rs') = 0
           \/ ~PauseFits(rs', clock)
           \/ \E id \in Slots : WebStartSchedule(id)]_vars
  BY NextAllowed DEF Allowed
<1> QED
  BY <1>1, InitInv, NextInv, PTL DEF Spec, PauseHolds

--------------------------------------------------------------------------
(* The quick schedule on a station that stores no other: what a remote     *)
(* does when it is asked to water a zone.                                  *)

Idle(r) == r.sched = NoSchedule /\ r.zone = NoZone

(* The run of a single zone, or none.                                      *)
Single(r) ==
  r.sched # NoSchedule =>
    r.sched = Quick /\ r.zone \in Zones /\ \A z \in Zones : r.quick[z] # 0 => z = r.zone

(* The same run, at the same time.                                         *)
SameRun(r, q) ==
  /\ q.sched = r.sched /\ q.zone = r.zone
  /\ q.age = r.age /\ q.mins = r.mins /\ q.quick = r.quick

(* Switching off touches neither the timer nor the quick schedule.         *)
LEMMA TurnOffRun ==
  ASSUME NEW r \in RunStates, NEW e, NEW Z
  PROVE  SameRun(r, TurnOff(r, e, Z))
BY DEF TurnOff, SameRun, RunStates

(* Nor does the start of a zone touch the quick schedule.                  *)
LEMMA RunZoneRun ==
  ASSUME NEW r \in RunStates, NEW e, NEW z, NEW m
  PROVE  LET q == RunZone(r, e, z, m)
         IN  /\ q.sched = r.sched /\ q.zone = z /\ q.age = 0 /\ q.mins = m
             /\ q.quick = r.quick
<1> DEFINE q == [r EXCEPT !.zone = z, !.age = 0, !.mins = m]
           p == TurnOnZone(q, e, z, m)
<1>1. /\ q.sched = r.sched /\ q.zone = z /\ q.age = 0 /\ q.mins = m
      /\ q.quick = r.quick
  BY DEF RunStates
<1>2. \/ p = q
      \/ p = [q EXCEPT !.cache[z] = STARTING + ZONE_STATE_TIMEOUT,
                       !.sent = Append(@, [zones |-> {z}, ttr |-> m])]
      \/ p = [q EXCEPT !.cache[z] = RUNNING, !.out[z] = TRUE]
  BY DEF TurnOnZone
<1>3. DOMAIN q = DOMAIN r
  OBVIOUS
<1> HIDE DEF q
<1>4. SameRun(q, p)
  BY <1>2, <1>3 DEF SameRun, RunStates
<1> QED
  BY <1>1, <1>4 DEF SameRun, RunZone, q, p

(* A stop leaves the quick schedule as it is.                              *)
LEMMA StopScheduleRun ==
  ASSUME NEW r, NEW e \in Eeproms, Good(r, e)
  PROVE  LET q == StopSchedule(r, e) IN Idle(q) /\ q.quick = r.quick
<1>1. Stopped(StopSchedule(r, e))
  BY StopScheduleStops
<1>2. CASE r.sched = NoSchedule
  BY <1>1, <1>2 DEF StopSchedule, Stopped, Idle
<1>3. CASE r.sched # NoSchedule
  <2> DEFINE q == IF r.zone \in Zones THEN TurnOffZone(r, e, r.zone) ELSE r
  <2>1. q \in RunStates /\ q.quick = r.quick
    BY TurnOffType, TurnOffRun DEF TurnOffZone, SameRun, Good
  <2>2. StopSchedule(r, e) = [q EXCEPT !.zone = NoZone, !.sched = NoSchedule]
    BY <1>3 DEF StopSchedule
  <2> HIDE DEF q
  <2> QED
    BY <1>1, <2>1, <2>2 DEF RunStates, Stopped, Idle
<1> QED
  BY <1>2, <1>3

(* So does "stop all".                                                     *)
LEMMA TurnOffZonesWorkerRun ==
  ASSUME NEW r \in RunStates, NEW e \in Eeproms
  PROVE  LET q == TurnOffZonesWorker(r, e) IN Idle(q) /\ q.quick = r.quick
<1> DEFINE q == TurnOff(r, e, NotOff(r))
<1>1. q \in RunStates /\ q.quick = r.quick
  BY TurnOffType, TurnOffRun DEF NotOff, SameRun
<1>2. TurnOffZonesWorker(r, e) = [q EXCEPT !.zone = NoZone, !.sched = NoSchedule]
  BY DEF TurnOffZonesWorker
<1> HIDE DEF q
<1> QED
  BY <1>1, <1>2 DEF RunStates, Idle

(* With nothing stored no event is due.                                    *)
LEMMA NothingStored ==
  ASSUME NEW r \in RunStates, NEW e, e.nsched = 0, NEW t, NEW scale
  PROVE  LET q == StartNextEvent(r, e, t, scale) IN q = PollPause(r) /\ SameRun(r, q)
<1>1. Events(r, e, t) = {}
  <2> SUFFICES ASSUME NEW p \in Slots \X (0 .. DayMinutes - 1), p[1] < e.nsched
               PROVE  FALSE
    BY DEF Events
  <2> QED
    BY SizesAssumption DEF Slots, Quick
<1>2. StartNextEvent(r, e, t, scale) = PollPause(r)
  BY <1>1 DEF StartNextEvent
<1> QED
  BY <1>2 DEF PollPause, SameRun, RunStates

(* Less than m minutes is less than m whole minutes.                       *)
LEMMA LateMinutes ==
  ASSUME NEW n \in Nat, NEW m \in Nat, NEW k \in Nat \ {0}, n < m * k
  PROVE  n \div k < m
<1> DEFINE d == n \div k
<1>1. d \in Nat /\ k * d <= n
  BY SMTT(30)
<1> HIDE DEF d
<1>2. d >= m => k * d >= k * m
  BY <1>1, SMTT(30)
<1>3. k * m = m * k /\ k * d \in Nat /\ m * k \in Nat
  BY <1>1
<1>4. ~(d >= m)
  BY <1>1, <1>2, <1>3
<1> QED
  BY <1>1, <1>4 DEF d

(* A pass keeps a single run or ends it, and the latter never early.       *)
LEMMA SingleProcessed ==
  ASSUME NEW r, NEW e \in Eeproms, Good(r, e), Single(r), e.nsched = 0,
         NEW t, NEW scale \in Nat
  PROVE  LET q == ProcessScheduledEvents(r, e, t, scale)
         IN  /\ q.quick = r.quick
             /\ Idle(q) \/ SameRun(r, q)
             /\ ~e.run => Idle(q)
             /\ e.run /\ r.zone \in Zones /\ r.age < r.mins * MINUTE => SameRun(r, q)
<1>0. Gap \notin Zones /\ NoZone \notin Zones
  BY SizesAssumption DEF Zones, Gap, NoZone
<1>1. CASE ~e.run
  BY <1>1, StopScheduleRun DEF ProcessScheduledEvents
<1>2. CASE e.run /\ r.sched = NoSchedule
  <2>1. Idle(r)
    BY <1>2 DEF Good, Uncorrupted, Idle
  <2>2. ProcessScheduledEvents(r, e, t, scale) = StartNextEvent(r, e, t, scale)
    BY <1>2 DEF ProcessScheduledEvents
  <2> QED
    BY <1>2, <2>1, <2>2, NothingStored DEF Idle, SameRun, Good
<1>3. CASE e.run /\ r.sched # NoSchedule
  <2>1. r.sched = Quick /\ r.zone \in Zones /\ r.zone # Gap /\ r \in RunStates
    BY <1>0, <1>3 DEF Single, Good
  <2>2. ProcessScheduledEvents(r, e, t, scale) = EndZone(r, e)
    BY <1>3, <2>1 DEF ProcessScheduledEvents
  <2>3. r.age \in Nat /\ r.mins \in Nat
    BY <2>1, SizesAssumption DEF RunStates
  <2>4. CASE r.age \div MINUTE < r.mins
    <3>1. EndZone(r, e) = r
      BY <2>4 DEF EndZone
    <3> QED
      BY <1>3, <2>2, <3>1 DEF SameRun
  <2>5. CASE ~(r.age \div MINUTE < r.mins)
    <3> DEFINE q == [TurnOffZone(r, e, r.zone) EXCEPT !.zone = NoZone]
    <3>1. ZonesAfter(CurrentSchedule(r, e), r.zone) = {}
      <4>1. CurrentSchedule(r, e).duration = r.quick
        BY <2>1 DEF CurrentSchedule, QuickSchedule
      <4> QED
        BY <1>3, <2>1, <4>1, SizesAssumption DEF ZonesAfter, Single, Zones
    <3>2. EndZone(r, e) = StopSchedule(q, e)
      BY <2>5, <3>1 DEF EndZone
    <3>3. TurnOffZone(r, e, r.zone) \in RunStates /\ SameRun(r, TurnOffZone(r, e, r.zone))
      BY <2>1, TurnOffType, TurnOffRun DEF TurnOffZone
    <3>4. q \in RunStates /\ q.zone = NoZone /\ q.sched # NoSchedule
          /\ q.quick = r.quick
      BY <1>3, <3>3 DEF RunStates, SameRun
    <3> HIDE DEF q
    <3>5. StopSchedule(q, e) = [q EXCEPT !.zone = NoZone, !.sched = NoSchedule]
      BY <1>0, <3>4 DEF StopSchedule
    <3>6. Idle(StopSchedule(q, e)) /\ StopSchedule(q, e).quick = r.quick
      BY <3>4, <3>5 DEF Idle, RunStates
    <3>7. ~(r.age < r.mins * MINUTE)
      BY <2>3, <2>5, LateMinutes, SizesAssumption
    <3> QED
      BY <1>3, <2>2, <3>2, <3>6, <3>7
  <2> QED
    BY <2>4, <2>5
<1> QED
  BY <1>1, <1>2, <1>3

(* A request for a zone ends what was running and starts the zone, and     *)
(* nothing if the time is zero or schedules are disabled.                  *)
LEMMA SingleStarted ==
  ASSUME NEW r, NEW e \in Eeproms, Good(r, e), e.nsched = 0, NEW t, NEW st, NEW channel,
         StartsZone(st, channel), NEW minutes \in 0 .. BYTE - 1
  PROVE  LET q == StartZoneWorker(r, e, t, st, channel, minutes)
         IN  /\ Single(q)
             /\ \/ Idle(q)
                \/ /\ q.zone = StartZoneOf[st] + channel /\ q.sched = Quick
                   /\ q.age = 0 /\ q.mins = minutes
             /\ ~e.run \/ minutes = 0 => Idle(q)
             /\ e.run /\ minutes # 0 => ~Idle(q)
<1> DEFINE stopped == StopSchedule(r, e)
           off == IF NotOff(stopped) # {}
                  THEN TurnOffZonesWorker(stopped, e) ELSE stopped
           zone == StartZoneOf[st] + channel
           one == [z \in Zones |-> IF z = zone THEN minutes ELSE 0]
           q == [off EXCEPT !.quick = one]
           p == StartQuickSchedule(q, e)
<1>0. zone \in Zones /\ NoZone \notin Zones /\ Quick # NoSchedule
  BY SizesAssumption DEF StartsZone, Zones, NoZone, Quick, NoSchedule
<1>1. Good(stopped, e) /\ Idle(stopped) /\ stopped \in RunStates
  BY StopScheduleStops, StopScheduleRun, StoppedIsGood DEF Good
<1> HIDE DEF stopped
<1>2. Good(off, e) /\ Idle(off) /\ off \in RunStates
  BY <1>1, TurnOffZonesWorkerStops, TurnOffZonesWorkerRun, StoppedIsGood DEF Good
<1>3. one \in Durations
  BY SizesAssumption DEF Durations
<1>4. StartZoneWorker(r, e, t, st, channel, minutes) = ProcessScheduledEvents(p, e, t, 100)
  BY DEF StartZoneWorker, stopped
<1> HIDE DEF off
<1>5. /\ q \in RunStates /\ q.sched = off.sched /\ q.zone = off.zone
      /\ q.next = off.next /\ q.cache = off.cache /\ q.out = off.out /\ q.quick = one
  BY <1>2, <1>3 DEF RunStates
<1>6. Good(q, e) /\ Idle(q)
  BY <1>2, <1>5, GoodUpdate DEF Idle
<1> HIDE DEF q
<1>7. p = StartFirstZone(q, e, Quick, QuickSchedule(q), 100)
  BY <1>6 DEF StartQuickSchedule, StopSchedule, Idle
<1>8. Good(p, e)
  BY <1>6, StartQuickScheduleGood
<1> DEFINE Z == ZonesAfter(QuickSchedule(q), NoZone)
<1>9. Z = IF minutes = 0 THEN {} ELSE {zone}
  BY <1>0, <1>5, SizesAssumption DEF ZonesAfter, QuickSchedule, Zones, NoZone
<1>10. CASE minutes = 0
  <2>1. p = q
    BY <1>7, <1>9, <1>10 DEF StartFirstZone
  <2>2. Single(p)
    BY <1>6, <2>1 DEF Single, Idle
  <2>3. LET s == ProcessScheduledEvents(p, e, t, 100) IN Idle(s) \/ SameRun(p, s)
    BY <1>8, <2>2, SingleProcessed
  <2>4. Idle(ProcessScheduledEvents(p, e, t, 100))
    BY <1>6, <2>1, <2>3 DEF Idle, SameRun
  <2> QED
    BY <1>4, <1>10, <2>4 DEF Single, Idle
<1>11. CASE minutes # 0
  <2>1. FirstOf(Z) = zone
    BY <1>0, <1>9, <1>11, SizesAssumption DEF FirstOf, Zones
  <2>2. ZoneMinutes(QuickSchedule(q), zone, 100) = minutes
    BY <1>0, <1>5 DEF ZoneMinutes, QuickSchedule
  <2> DEFINE f == [q EXCEPT !.sched = Quick]
  <2>3. p = RunZone(f, e, zone, minutes)
    BY <1>7, <1>9, <1>11, <2>1, <2>2 DEF StartFirstZone
  <2>4. f \in RunStates /\ f.sched = Quick /\ f.quick = one
    BY <1>5 DEF RunStates
  <2> HIDE DEF f
  <2>5. p.sched = Quick /\ p.zone = zone /\ p.age = 0 /\ p.mins = minutes /\ p.quick = one
    BY <2>3, <2>4, RunZoneRun
  <2>6. Single(p)
    BY <1>0, <2>5 DEF Single
  <2>7. 0 < minutes * MINUTE
    BY <1>11, SizesAssumption
  <2> DEFINE s == ProcessScheduledEvents(p, e, t, 100)
  <2>8. (Idle(s) \/ SameRun(p, s)) /\ (~e.run => Idle(s)) /\ (e.run => SameRun(p, s))
    BY <1>0, <1>8, <2>5, <2>6, <2>7, SingleProcessed
  <2> HIDE DEF s
  <2>9. Single(s)
    BY <2>6, <2>8 DEF Single, Idle, SameRun
  <2> QED
    BY <1>0, <1>4, <1>11, <2>5, <2>8, <2>9 DEF Idle, SameRun, s
<1> QED
  BY <1>10, <1>11

-----------------------------------------------------------------------------
(* The quick schedule on a station all of whose zones are other stations': *)
(* what a master asks for while it times a zone, and when it has stopped.  *)

Far(e) == \A z \in Zones : Switchable(e, z) /\ IsRF(z)

(* Run times and requests come from M.                                     *)
Orders(r, M) ==
  /\ r.sched \in {NoSchedule, Quick}
  /\ \A z \in Zones : r.quick[z] \in M \cup {0}
  /\ \A i \in DOMAIN r.sent : r.sent[i].ttr \in M \cup {0}

(* So does that of the timed zone, and the next one has one.               *)
Errand(r, M) ==
  /\ Orders(r, M)
  /\ r.zone = Gap => r.quick[r.next] # 0
  /\ r.zone \in Zones => r.mins \in M \ {0}

(* The last request is for the zone that is timed from now on, or to stop. *)
Told(q) ==
  LET s == q.sent[Len(q.sent)]
  IN  IF s.ttr = 0 THEN q.zone \notin Zones /\ s.zones # {}
      ELSE q.zone \in Zones /\ s.zones = {q.zone} /\ q.mins = s.ttr /\ q.age = 0

(* The same zone is timed, if any, and the same states are shown.          *)
SameWatering(r, q) ==
  /\ q.cache = r.cache
  /\ IF r.zone \in Zones THEN q.zone = r.zone /\ q.age = r.age /\ q.mins = r.mins
     ELSE q.zone \notin Zones

(* Whoever changes what is timed says so in its last request.              *)
Tells(r, q) ==
  IF q.sent = r.sent THEN SameWatering(r, q)
  ELSE Len(q.sent) > Len(r.sent) /\ Told(q)

(* What a method and then another one tells.                               *)
LEMMA TellsTransitive ==
  ASSUME NEW r \in RunStates, NEW p \in RunStates, NEW q \in RunStates,
         Tells(r, p), Tells(p, q)
  PROVE  Tells(r, q)
<1>1. r.sent \in Seq(Requests) /\ p.sent \in Seq(Requests) /\ q.sent \in Seq(Requests)
  BY DEF RunStates
<1>2. Len(r.sent) \in Nat /\ Len(p.sent) \in Nat /\ Len(q.sent) \in Nat
  BY <1>1
<1>3. CASE q.sent = p.sent
  BY <1>3 DEF Tells, SameWatering, Told
<1>4. CASE q.sent # p.sent
  BY <1>2, <1>4 DEF Tells
<1> QED
  BY <1>3, <1>4

(* Switching off at least one zone and timing none is told.                *)
LEMMA TurnOffTells ==
  ASSUME NEW M, NEW r \in RunStates, NEW e \in Eeproms, Far(e),
         NEW Z \in SUBSET Zones, Z # {}, Orders(r, M)
  PROVE  LET q == TurnOff(r, e, Z)
         IN  /\ q.quick = r.quick /\ Orders(q, M)
             /\ Len(q.sent) > Len(r.sent) /\ q.sent # r.sent
             /\ q.sent[Len(q.sent)] = [zones |-> Z, ttr |-> 0]
<1> DEFINE q == TurnOff(r, e, Z)
           s == [zones |-> Z, ttr |-> 0]
<1>1. {z \in {z \in Z : Switchable(e, z)} : IsRF(z)} = Z
  BY DEF Far
<1>2. q.sent = Append(r.sent, s)
  BY <1>1 DEF TurnOff, RunStates
<1>3. q.quick = r.quick /\ q.sched = r.sched
  BY TurnOffRun DEF SameRun
<1> HIDE DEF q
<1>4. r.sent \in Seq(Requests)
  BY DEF RunStates
<1>5. /\ DOMAIN q.sent = 1 .. Len(r.sent) + 1 /\ Len(q.sent) = Len(r.sent) + 1
      /\ Len(r.sent) \in Nat
      /\ q.sent[Len(r.sent) + 1] = s
      /\ \A i \in 1 .. Len(r.sent) : q.sent[i] = r.sent[i]
  BY <1>2, <1>4
<1>6. \A i \in DOMAIN q.sent : q.sent[i].ttr \in M \cup {0}
  <2> SUFFICES ASSUME NEW i \in DOMAIN q.sent PROVE q.sent[i].ttr \in M \cup {0}
    OBVIOUS
  <2>1. CASE i = Len(r.sent) + 1
    BY <1>5, <2>1
  <2>2. CASE i # Len(r.sent) + 1
    <3>1. i \in 1 .. Len(r.sent) /\ i \in DOMAIN r.sent
      BY <1>4, <1>5, <2>2
    <3> QED
      BY <1>5, <3>1 DEF Orders
  <2> QED
    BY <2>1, <2>2
<1>7. Len(q.sent) > Len(r.sent) /\ q.sent # r.sent
  BY <1>5
<1> QED
  BY <1>3, <1>5, <1>6, <1>7 DEF Orders, q

(* The same for one zone.                                                  *)
LEMMA TurnOffZoneTells ==
  ASSUME NEW M, NEW r \in RunStates, NEW e \in Eeproms, Far(e), NEW z \in Zones,
         Orders(r, M)
  PROVE  LET q == TurnOff(r, e, {z})
         IN  /\ q.quick = r.quick /\ Orders(q, M)
             /\ Len(q.sent) > Len(r.sent) /\ q.sent # r.sent
             /\ q.sent[Len(q.sent)] = [zones |-> {z}, ttr |-> 0]
<1> DEFINE Z == {z}
<1>1. Z \in SUBSET Zones /\ Z # {}
  OBVIOUS
<1> HIDE DEF Z
<1>2. LET q == TurnOff(r, e, Z)
      IN  /\ q.quick = r.quick /\ Orders(q, M)
          /\ Len(q.sent) > Len(r.sent) /\ q.sent # r.sent
          /\ q.sent[Len(q.sent)] = [zones |-> Z, ttr |-> 0]
  BY <1>1, TurnOffTells
<1> QED
  BY <1>2 DEF Z

(* A request to stop, and no timed zone.                                   *)
LEMMA ToldStop ==
  ASSUME NEW q, NEW Z, q.sent[Len(q.sent)] = [zones |-> Z, ttr |-> 0], Z # {},
         q.zone \notin Zones
  PROVE  Told(q)
<1>1. q.sent[Len(q.sent)].zones = Z /\ q.sent[Len(q.sent)].ttr = 0
  OBVIOUS
<1> QED
  BY <1>1 DEF Told

(* The start of a zone is told.                                            *)
LEMMA RunZoneTells ==
  ASSUME NEW M \in SUBSET (0 .. BYTE - 1), NEW r \in RunStates, NEW e \in Eeproms, Far(e),
         Orders(r, M), NEW z \in Zones, NEW m \in M \ {0}
  PROVE  LET q == RunZone(r, e, z, m) IN Errand(q, M) /\ Tells(r, q)
<1> DEFINE q == RunZone(r, e, z, m)
           s == [zones |-> {z}, ttr |-> m]
           f == [r EXCEPT !.zone = z, !.age = 0, !.mins = m]
<1>1. q.sched = r.sched /\ q.zone = z /\ q.age = 0 /\ q.mins = m /\ q.quick = r.quick
  BY RunZoneRun
<1>2. f.sent = r.sent /\ DOMAIN f = DOMAIN r
  BY DEF RunStates
<1>3. q = [f EXCEPT !.cache[z] = STARTING + ZONE_STATE_TIMEOUT, !.sent = Append(@, s)]
  BY DEF RunZone, TurnOnZone, Far
<1>4. q.sent = Append(r.sent, s)
  BY <1>2, <1>3 DEF RunStates
<1> HIDE DEF q, f
<1>5. r.sent \in Seq(Requests)
  BY DEF RunStates
<1>6. /\ DOMAIN q.sent = 1 .. Len(r.sent) + 1 /\ Len(q.sent) = Len(r.sent) + 1
      /\ Len(r.sent) \in Nat
      /\ q.sent[Len(r.sent) + 1] = s
      /\ \A i \in 1 .. Len(r.sent) : q.sent[i] = r.sent[i]
  BY <1>4, <1>5
<1>7. \A i \in DOMAIN q.sent : q.sent[i].ttr \in M \cup {0}
  <2> SUFFICES ASSUME NEW i \in DOMAIN q.sent PROVE q.sent[i].ttr \in M \cup {0}
    OBVIOUS
  <2>1. CASE i = Len(r.sent) + 1
    BY <1>6, <2>1
  <2>2. CASE i # Len(r.sent) + 1
    <3>1. i \in 1 .. Len(r.sent) /\ i \in DOMAIN r.sent
      BY <1>5, <1>6, <2>2
    <3> QED
      BY <1>6, <3>1 DEF Orders
  <2> QED
    BY <2>1, <2>2
<1>8. z # Gap
  BY SizesAssumption DEF Zones, Gap
<1>9. Errand(q, M)
  BY <1>1, <1>7, <1>8 DEF Errand, Orders
<1>10. Told(q)
  BY <1>1, <1>6 DEF Told
<1>11. Len(q.sent) > Len(r.sent) /\ q.sent # r.sent
  BY <1>6
<1> QED
  BY <1>9, <1>10, <1>11 DEF Tells, q

(* A stop is told if it stops a zone.                                      *)
LEMMA StopScheduleTells ==
  ASSUME NEW M, NEW r, NEW e \in Eeproms, Good(r, e), Far(e), Errand(r, M)
  PROVE  LET q == StopSchedule(r, e) IN Errand(q, M) /\ Tells(r, q)
<1>0. r \in RunStates /\ NoZone \notin Zones /\ NoZone # Gap
  BY SizesAssumption DEF Good, Zones, NoZone, Gap
<1>1. CASE r.sched = NoSchedule
  BY <1>1 DEF StopSchedule, Tells, SameWatering
<1>2. CASE r.sched # NoSchedule /\ r.zone \in Zones
  <2> DEFINE q == TurnOff(r, e, {r.zone})
             p == [q EXCEPT !.zone = NoZone, !.sched = NoSchedule]
  <2>1. q \in RunStates
    BY <1>0, <1>2, TurnOffType
  <2>0. {r.zone} # {} /\ Orders(r, M)
    BY <1>2 DEF Errand
  <2>2. /\ Orders(q, M) /\ Len(q.sent) > Len(r.sent) /\ q.sent # r.sent
        /\ q.sent[Len(q.sent)] = [zones |-> {r.zone}, ttr |-> 0]
    BY <1>0, <1>2, <2>0, TurnOffZoneTells
  <2>3. StopSchedule(r, e) = p
    BY <1>2 DEF StopSchedule, TurnOffZone
  <2> HIDE DEF q
  <2>4. p.zone = NoZone /\ p.sched = NoSchedule /\ p.sent = q.sent /\ p.quick = q.quick
    BY <2>1 DEF RunStates
  <2> HIDE DEF p
  <2>5. Errand(p, M)
    BY <1>0, <2>2, <2>4 DEF Errand, Orders
  <2>6. Told(p)
    BY <1>0, <2>0, <2>2, <2>4, ToldStop
  <2> QED
    BY <2>2, <2>3, <2>4, <2>5, <2>6 DEF Tells
<1>3. CASE r.sched # NoSchedule /\ r.zone \notin Zones
  <2> DEFINE p == [r EXCEPT !.zone = NoZone, !.sched = NoSchedule]
  <2>1. StopSchedule(r, e) = p
    BY <1>3 DEF StopSchedule
  <2>2. /\ p.zone = NoZone /\ p.sched = NoSchedule /\ p.sent = r.sent
        /\ p.quick = r.quick /\ p.cache = r.cache
    BY <1>0 DEF RunStates
  <2> HIDE DEF p
  <2> QED
    BY <1>0, <1>3, <2>1, <2>2 DEF Errand, Orders, Tells, SameWatering
<1> QED
  BY <1>1, <1>2, <1>3

(* So is "stop all" when there is something to stop.                       *)
LEMMA TurnOffZonesWorkerTells ==
  ASSUME NEW M, NEW r \in RunStates, NEW e \in Eeproms, Far(e), Orders(r, M),
         NotOff(r) # {}
  PROVE  LET q == TurnOffZonesWorker(r, e) IN Errand(q, M) /\ Tells(r, q)
<1>0. NoZone \notin Zones /\ NoZone # Gap
  BY SizesAssumption DEF Zones, NoZone, Gap
<1> DEFINE q == TurnOff(r, e, NotOff(r))
           p == [q EXCEPT !.zone = NoZone, !.sched = NoSchedule]
<1>1. q \in RunStates
  BY TurnOffType DEF NotOff
<1>2. /\ Orders(q, M) /\ Len(q.sent) > Len(r.sent) /\ q.sent # r.sent
      /\ q.sent[Len(q.sent)] = [zones |-> NotOff(r), ttr |-> 0]
  <2>1. NotOff(r) \in SUBSET Zones
    BY DEF NotOff
  <2> QED
    BY <2>1, TurnOffTells
<1>3. TurnOffZonesWorker(r, e) = p
  BY DEF TurnOffZonesWorker
<1> HIDE DEF q
<1>4. p.zone = NoZone /\ p.sched = NoSchedule /\ p.sent = q.sent /\ p.quick = q.quick
  BY <1>1 DEF RunStates
<1> HIDE DEF p
<1>5. Errand(p, M)
  BY <1>0, <1>2, <1>4 DEF Errand, Orders
<1>6. Told(p)
  BY <1>0, <1>2, <1>4, ToldStop
<1> QED
  BY <1>2, <1>3, <1>4, <1>5, <1>6 DEF Tells

(* The quick schedule starts with a request for its first zone.            *)
LEMMA StartQuickScheduleTells ==
  ASSUME NEW M \in SUBSET (0 .. BYTE - 1), NEW r, NEW e \in Eeproms, Good(r, e), Far(e),
         Errand(r, M)
  PROVE  LET q == StartQuickSchedule(r, e) IN Errand(q, M) /\ Tells(r, q)
<1> DEFINE q == StopSchedule(r, e)
           Z == ZonesAfter(QuickSchedule(q), NoZone)
           z == FirstOf(Z)
           f == [q EXCEPT !.sched = Quick]
           p == StartQuickSchedule(r, e)
<1>1. q \in RunStates /\ r \in RunStates /\ q.zone = NoZone
  BY StopScheduleStops DEF Good, Stopped, Resting
<1>2. Errand(q, M) /\ Tells(r, q)
  BY StopScheduleTells
<1>3. p = StartFirstZone(q, e, Quick, QuickSchedule(q), 100)
  BY DEF StartQuickSchedule
<1> HIDE DEF q, p
<1>4. CASE Z = {}
  BY <1>2, <1>3, <1>4 DEF StartFirstZone, p
<1>5. CASE Z # {}
  <2>1. z \in Zones /\ q.quick[z] # 0
    BY <1>5, FirstOfType DEF ZonesAfter, QuickSchedule
  <2>2. q.quick[z] \in M \ {0}
    BY <1>2, <2>1 DEF Errand, Orders
  <2>3. p = RunZone(f, e, z, q.quick[z])
    BY <1>3, <1>5 DEF StartFirstZone, ZoneMinutes, QuickSchedule
  <2> HIDE DEF z
  <2>4. /\ f \in RunStates /\ Orders(f, M) /\ f.sent = q.sent /\ f.cache = q.cache
        /\ f.zone = q.zone
    BY <1>1, <1>2 DEF RunStates, Errand, Orders
  <2>5. Tells(q, f)
    BY <1>1, <2>4, SizesAssumption DEF Tells, SameWatering, Zones, NoZone
  <2> HIDE DEF f
  <2>6. Errand(p, M) /\ Tells(f, p)
    BY <2>1, <2>2, <2>3, <2>4, RunZoneTells
  <2>7. p \in RunStates
    BY StartQuickScheduleGood DEF Good, p
  <2>8. Tells(r, p)
    BY <1>1, <1>2, <2>4, <2>5, <2>6, <2>7, TellsTransitive
  <2> QED
    BY <2>6, <2>8 DEF p
<1> QED
  BY <1>4, <1>5

(* The end of a delay starts the next zone or nothing.                     *)
LEMMA EndDelayTells ==
  ASSUME NEW M \in SUBSET (0 .. BYTE - 1), NEW r, NEW e \in Eeproms, Good(r, e), Far(e),
         Errand(r, M), r.sched # NoSchedule, r.zone = Gap, NEW scale
  PROVE  LET q == EndDelay(r, e, scale) IN Errand(q, M) /\ Tells(r, q)
<1>0. r \in RunStates /\ Gap \notin Zones /\ r.next \in Zones /\ r.sched = Quick
      /\ r.next # NoZone
  BY SizesAssumption DEF Good, Uncorrupted, Errand, Orders, Zones, NoZone, Gap
<1>1. CurrentSchedule(r, e) = QuickSchedule(r)
  BY <1>0 DEF CurrentSchedule
<1>2. CASE r.age < DELAY_BETWEEN_ZONES
  BY <1>2 DEF EndDelay, Tells, SameWatering
<1>3. CASE ~(r.age < DELAY_BETWEEN_ZONES)
  <2> DEFINE f == [r EXCEPT !.next = NoZone]
             p == RunZone(f, e, r.next, r.quick[r.next])
  <2>1. EndDelay(r, e, scale) = p
    BY <1>0, <1>1, <1>3 DEF EndDelay, ZoneMinutes, QuickSchedule
  <2>2. r.quick[r.next] \in M \ {0}
    BY <1>0 DEF Errand, Orders
  <2>3. f \in RunStates /\ f.sent = r.sent /\ f.cache = r.cache /\ f.zone = r.zone
        /\ f.quick = r.quick /\ f.sched = r.sched
    BY <1>0 DEF RunStates
  <2> HIDE DEF f
  <2>4. Orders(f, M) /\ Tells(r, f)
    BY <1>0, <2>3 DEF Errand, Orders, Tells, SameWatering
  <2>5. Errand(p, M) /\ Tells(f, p)
    BY <1>0, <2>2, <2>3, <2>4, RunZoneTells
  <2>6. r.quick[r.next] \in 0 .. BYTE - 1
    BY <2>2
  <2>7. p \in RunStates
    <3>1. Resting(r)
      BY <1>0, NoZoneRests
    <3>2. Resting(f)
      BY <2>3, <3>1, RestingUpdate DEF RunStates, Good, f
    <3> QED
      BY <1>0, <2>3, <2>6, <3>2, RunZoneGood DEF Good
  <2>8. Tells(r, p)
    BY <1>0, <2>3, <2>4, <2>5, <2>7, TellsTransitive
  <2> QED
    BY <2>1, <2>5, <2>8
<1> QED
  BY <1>2, <1>3

(* The end of a zone's run time is told.                                   *)
LEMMA EndZoneTells ==
  ASSUME NEW M, NEW r, NEW e \in Eeproms, Good(r, e), Far(e), Errand(r, M),
         r.sched # NoSchedule, r.zone \in Zones
  PROVE  LET q == EndZone(r, e) IN Errand(q, M) /\ Tells(r, q)
<1>0. r \in RunStates /\ Gap \notin Zones /\ NoZone \notin Zones /\ NoZone # Gap
      /\ r.sched = Quick
  BY SizesAssumption DEF Good, Errand, Orders, Zones, NoZone, Gap
<1> DEFINE s == CurrentSchedule(r, e)
           Z == ZonesAfter(s, r.zone)
           q == TurnOff(r, e, {r.zone})
           g == [q EXCEPT !.next = FirstOf(Z), !.zone = Gap, !.age = 0]
           o == [q EXCEPT !.zone = NoZone]
           p == EndZone(r, e)
<1>1. q \in RunStates /\ q.sched = r.sched
  BY <1>0, TurnOffType
<1>2. /\ q.quick = r.quick /\ Orders(q, M) /\ Len(q.sent) > Len(r.sent)
      /\ q.sent # r.sent /\ q.sent[Len(q.sent)] = [zones |-> {r.zone}, ttr |-> 0]
  BY <1>0, TurnOffZoneTells DEF Errand
<1>3. \/ p = r
      \/ Z # {} /\ p = g
      \/ p = StopSchedule(o, e)
  BY DEF EndZone, TurnOffZone
<1> HIDE DEF q, p
<1>4. CASE p = r
  BY <1>4 DEF Tells, SameWatering, p
<1>5. CASE Z # {} /\ p = g
  <2>1. FirstOf(Z) \in Zones /\ r.quick[FirstOf(Z)] # 0
    <3>1. FirstOf(Z) \in Z
      BY <1>5, FirstOfType DEF ZonesAfter
    <3> QED
      BY <1>0, <3>1 DEF ZonesAfter, CurrentSchedule, QuickSchedule
  <2> HIDE DEF Z
  <2>2. /\ g.zone = Gap /\ g.sched = q.sched /\ g.sent = q.sent /\ g.quick = q.quick
        /\ g.next = FirstOf(Z)
    BY <1>1 DEF RunStates
  <2> HIDE DEF g
  <2>3. Errand(g, M)
    BY <1>0, <1>2, <2>1, <2>2 DEF Errand, Orders
  <2>4. Told(g)
    BY <1>0, <1>2, <2>2, ToldStop
  <2> QED
    BY <1>2, <1>5, <2>2, <2>3, <2>4 DEF Tells, p
<1>6. CASE p = StopSchedule(o, e)
  <2>1. /\ o.zone = NoZone /\ o.sched # NoSchedule /\ o \in RunStates
        /\ o.sent = q.sent /\ o.quick = q.quick
    BY <1>1 DEF RunStates
  <2> HIDE DEF o
  <2> DEFINE u == [o EXCEPT !.zone = NoZone, !.sched = NoSchedule]
  <2>2. StopSchedule(o, e) = u
    BY <1>0, <2>1 DEF StopSchedule
  <2>3. u.zone = NoZone /\ u.sched = NoSchedule /\ u.sent = q.sent /\ u.quick = q.quick
    BY <2>1 DEF RunStates
  <2> HIDE DEF u
  <2>4. Errand(u, M)
    BY <1>0, <1>2, <2>3 DEF Errand, Orders
  <2>5. Told(u)
    BY <1>0, <1>2, <2>3, ToldStop
  <2> QED
    BY <1>2, <1>6, <2>2, <2>3, <2>4, <2>5 DEF Tells, p
<1> QED
  BY <1>3, <1>4, <1>5, <1>6

(* So is whatever a pass of the scheduler does.                            *)
LEMMA ProcessScheduledEventsTells ==
  ASSUME NEW M \in SUBSET (0 .. BYTE - 1), NEW r, NEW e \in Eeproms, Good(r, e), Far(e),
         e.nsched = 0, Errand(r, M), NEW t, NEW scale
  PROVE  LET q == ProcessScheduledEvents(r, e, t, scale) IN Errand(q, M) /\ Tells(r, q)
<1>0. r \in RunStates /\ Gap \notin Zones
  BY SizesAssumption DEF Good, Zones, Gap
<1>1. CASE ~e.run \/ (r.sched # NoSchedule /\ r.zone # Gap /\ r.zone \notin Zones)
  BY <1>1, StopScheduleTells DEF ProcessScheduledEvents
<1>2. CASE e.run /\ r.sched = NoSchedule
  <2> DEFINE q == PollPause(r)
  <2>1. ProcessScheduledEvents(r, e, t, scale) = q
    BY <1>0, <1>2, NothingStored DEF ProcessScheduledEvents
  <2>2. /\ q.sched = r.sched /\ q.zone = r.zone /\ q.next = r.next /\ q.age = r.age
        /\ q.mins = r.mins /\ q.quick = r.quick /\ q.sent = r.sent /\ q.cache = r.cache
    BY <1>0 DEF PollPause, RunStates
  <2> HIDE DEF q
  <2> QED
    BY <2>1, <2>2 DEF Errand, Orders, Tells, SameWatering
<1>3. CASE e.run /\ r.sched # NoSchedule /\ r.zone = Gap
  BY <1>0, <1>3, EndDelayTells DEF ProcessScheduledEvents
<1>4. CASE e.run /\ r.sched # NoSchedule /\ r.zone \in Zones
  BY <1>0, <1>4, EndZoneTells DEF ProcessScheduledEvents
<1> QED
  BY <1>1, <1>2, <1>3, <1>4

(* A manual run is told, whatever it replaces.                             *)
LEMMA StartZoneWorkerTells ==
  ASSUME NEW M \in SUBSET (0 .. BYTE - 1), NEW r, NEW e \in Eeproms, Good(r, e), Far(e),
         e.nsched = 0, Errand(r, M), NEW t, NEW st, NEW channel,
         StartsZone(st, channel), NEW minutes \in M
  PROVE  LET q == StartZoneWorker(r, e, t, st, channel, minutes)
         IN  Errand(q, M) /\ Tells(r, q)
<1> DEFINE stopped == StopSchedule(r, e)
           off == IF NotOff(stopped) # {}
                  THEN TurnOffZonesWorker(stopped, e) ELSE stopped
           one == [z \in Zones |->
                    IF z = StartZoneOf[st] + channel THEN minutes ELSE 0]
           q == [off EXCEPT !.quick = one]
           p == StartQuickSchedule(q, e)
           s == ProcessScheduledEvents(p, e, t, 100)
<1>1. r \in RunStates /\ Good(stopped, e) /\ stopped \in RunStates
      /\ stopped.zone = NoZone
  BY StopScheduleStops, StoppedIsGood DEF Good, Stopped
<1>2. Errand(stopped, M) /\ Tells(r, stopped)
  BY StopScheduleTells
<1>3. StartZoneWorker(r, e, t, st, channel, minutes) = s
  BY DEF StartZoneWorker
<1> HIDE DEF stopped
<1>4. Good(off, e) /\ off \in RunStates /\ off.zone = NoZone
  BY <1>1, TurnOffZonesWorkerStops, StoppedIsGood DEF Good, Stopped
<1>5. Errand(off, M) /\ Tells(r, off)
  <2>1. CASE NotOff(stopped) # {}
    <3>1. Orders(stopped, M)
      BY <1>2 DEF Errand
    <3>2. Errand(off, M) /\ Tells(stopped, off)
      BY <1>1, <2>1, <3>1, TurnOffZonesWorkerTells
    <3> HIDE DEF off
    <3> QED
      BY <1>1, <1>2, <1>4, <3>2, TellsTransitive
  <2>2. CASE NotOff(stopped) = {}
    BY <1>2, <2>2
  <2> QED
    BY <2>1, <2>2
<1>6. one \in Durations /\ \A z \in Zones : one[z] \in M \cup {0}
  BY SizesAssumption DEF Durations
<1> HIDE DEF off, one
<1>7. /\ q \in RunStates /\ q.sched = off.sched /\ q.zone = off.zone
      /\ q.next = off.next /\ q.cache = off.cache /\ q.out = off.out
      /\ q.sent = off.sent /\ q.quick = one
  BY <1>4, <1>6 DEF RunStates
<1> HIDE DEF q
<1>8. NoZone \notin Zones /\ NoZone # Gap
  BY SizesAssumption DEF Zones, NoZone, Gap
<1>9. Good(q, e) /\ Errand(q, M) /\ Tells(off, q)
  BY <1>4, <1>5, <1>6, <1>7, <1>8, GoodUpdate
     DEF Errand, Orders, Tells, SameWatering
<1>10. Good(p, e) /\ p \in RunStates
  BY <1>9, StartQuickScheduleGood DEF Good
<1>11. Errand(p, M) /\ Tells(q, p)
  BY <1>9, StartQuickScheduleTells
<1> HIDE DEF p
<1>12. Errand(s, M) /\ Tells(p, s)
  BY <1>10, <1>11, ProcessScheduledEventsTells
<1>13. s \in RunStates
  BY <1>10, ProcessScheduledEventsGood DEF Good
<1> HIDE DEF s
<1>14. Tells(r, q)
  BY <1>1, <1>4, <1>5, <1>7, <1>9, TellsTransitive
<1>15. Tells(r, p)
  BY <1>1, <1>7, <1>10, <1>11, <1>14, TellsTransitive
<1>16. Tells(r, s)
  BY <1>1, <1>10, <1>12, <1>13, <1>15, TellsTransitive
<1> QED
  BY <1>3, <1>12, <1>16

-----------------------------------------------------------------------------
(* The same for the handlers.                                              *)

(* A request with any run time, not only one of RunMinutes.                *)
LEMMA MessageZonesSetInv ==
  ASSUME Inv, NEW st, NEW c, NEW m \in 0 .. BYTE - 1, MessageZonesSet(st, c, m)
  PROVE  Inv'
<1> USE NowGood
<1>0. ee \in Eeproms
  BY DEF Inv, TypeOK
<1>1. (m + 1) % BYTE \in 0 .. BYTE - 1
  BY SizesAssumption
<1>2. CASE m = 0
  BY <1>0, <1>2, TurnOffZonesWorkerStops, StoppedIsGood, HandledInv
     DEF MessageZonesSet, Stopped, Fresh
<1>3. CASE m # 0 /\ StartsZone(st, c)
  BY <1>0, <1>1, <1>3, StartZoneWorkerGood, ProcessedInv DEF MessageZonesSet
<1>4. CASE m # 0 /\ ~StartsZone(st, c)
  BY <1>0, <1>4, HandledInv DEF MessageZonesSet, SameTimer
<1> QED
  BY <1>2, <1>3, <1>4

(* What handlers start from is the same run.                               *)
LEMMA NowRun ==
  ASSUME Inv
  PROVE  SameRun(rs, Now) /\ Now.sent = <<>>
BY DEF Inv, TypeOK, RunStates, Now, SameRun

(* Time only ages a run.                                                   *)
LEMMA TickRun ==
  ASSUME Inv, Tick
  PROVE  /\ rs'.sched = rs.sched /\ rs'.zone = rs.zone /\ rs'.next = rs.next
         /\ rs'.mins = rs.mins /\ rs'.quick = rs.quick
         /\ rs'.cache = rs.cache /\ rs'.out = rs.out /\ rs'.sent = <<>>
         /\ rs'.age = IF rs.sched # NoSchedule THEN rs.age + 1 ELSE rs.age
<1>1. /\ SameRun(rs, Now) /\ Now.sent = <<>> /\ Now \in RunStates
      /\ Now.next = rs.next /\ Now.cache = rs.cache /\ Now.out = rs.out
  BY NowRun, NowGood
<1>2. PICK age, left : /\ rs' = [Now EXCEPT !.age = age, !.left = left]
                       /\ age = IF rs.sched # NoSchedule THEN Now.age + 1 ELSE Now.age
  BY <1>1 DEF Tick, RunStates
<1> QED
  BY <1>1, <1>2 DEF SameRun, RunStates

(* The time-outs of the zone states and the reports of the stations touch  *)
(* the cache only.                                                         *)
LEMMA CacheRun ==
  ASSUME Inv, ZoneHandlerLoop \/ \E st, on : ReportStationZonesStatus(st, on)
  PROVE  /\ SameRun(rs, rs') /\ rs'.next = rs.next
         /\ rs'.out = rs.out /\ rs'.sent = <<>>
<1>1. /\ SameRun(rs, Now) /\ Now.sent = <<>> /\ Now \in RunStates
      /\ Now.next = rs.next /\ Now.cache = rs.cache /\ Now.out = rs.out
  BY NowRun, NowGood
<1>2. rs' = Now \/ \E cache : rs' = [Now EXCEPT !.cache = cache]
  BY DEF ZoneHandlerLoop, ReportStationZonesStatus, Handled
<1> QED
  BY <1>1, <1>2 DEF SameRun, RunStates

(* A reset ends the run and forgets everything.                            *)
LEMMA RebootRun ==
  ASSUME Reboot
  PROVE  /\ Idle(rs') /\ rs'.sent = <<>>
         /\ \A z \in Zones : rs'.quick[z] = 0
BY DEF Reboot, Idle

(* A pass with nothing stored keeps the single run or ends it.             *)
LEMMA PassSingle ==
  ASSUME Inv, Single(rs), ee.nsched = 0, Pass
  PROVE  /\ Single(rs')
         /\ Idle(rs') \/ SameRun(rs, rs')
         /\ ~ee.run => Idle(rs')
         /\ ee.run /\ rs.zone \in Zones /\ rs.age < rs.mins * MINUTE => SameRun(rs, rs')
<1>1. PICK w \in Scales : rs' = ProcessScheduledEvents(Now, ee, clock, w)
  BY DEF Pass, Processed
<1>2. ee \in Eeproms /\ w \in Nat /\ Good(Now, ee) /\ SameRun(rs, Now)
  BY NowGood, NowRun, InputsAssumption DEF Inv, TypeOK
<1>3. Single(Now)
  BY <1>2 DEF Single, SameRun
<1>4. /\ rs'.quick = Now.quick
      /\ Idle(rs') \/ SameRun(Now, rs')
      /\ ~ee.run => Idle(rs')
      /\ ee.run /\ Now.zone \in Zones /\ Now.age < Now.mins * MINUTE => SameRun(Now, rs')
  BY <1>1, <1>2, <1>3, SingleProcessed
<1>5. SameRun(Now, rs') => SameRun(rs, rs')
  BY <1>2 DEF SameRun
<1> QED
  BY <1>2, <1>3, <1>4, <1>5 DEF Single, SameRun, Idle

(* CONFIRM on the home screen keeps it or stops it, and toggles the flag.  *)
LEMMA HomeConfirmSingle ==
  ASSUME Inv, Single(rs), ee.nsched = 0, UIHomeConfirm
  PROVE  /\ Single(rs')
         /\ Idle(rs') \/ SameRun(rs, rs')
         /\ ~ee'.run => Idle(rs')
<1> DEFINE e == [ee EXCEPT !.run = ~@ /\ NotOff(rs) = {}]
           r == IF ~ee.run /\ NotOff(rs) # {} THEN TurnOffZonesWorker(Now, ee) ELSE Now
<1>1. PICK w \in Scales : rs' = ProcessScheduledEvents(r, e, clock, w)
  BY DEF UIHomeConfirm, Processed
<1>2. /\ ee \in Eeproms /\ w \in Nat /\ Good(Now, ee) /\ SameRun(rs, Now)
      /\ Now \in RunStates
  BY NowGood, NowRun, InputsAssumption DEF Inv, TypeOK
<1>3. e \in Eeproms /\ e.enabled = ee.enabled /\ e.nsched = 0 /\ ee' = e
  BY <1>2 DEF Eeproms, UIHomeConfirm
<1> HIDE DEF e
<1>4. Good(r, ee) /\ (Idle(r) \/ SameRun(rs, r))
  BY <1>2, TurnOffZonesWorkerStops, TurnOffZonesWorkerRun, StoppedIsGood
<1> HIDE DEF r
<1>5. Good(r, e) /\ Single(r)
  BY <1>3, <1>4, SameFlags DEF Single, SameRun, Idle
<1>6. /\ rs'.quick = r.quick
      /\ Idle(rs') \/ SameRun(r, rs')
      /\ ~e.run => Idle(rs')
  BY <1>1, <1>2, <1>3, <1>5, SingleProcessed
<1>7. Idle(rs') \/ SameRun(rs, rs')
  BY <1>4, <1>6 DEF SameRun, Idle
<1>8. Single(rs')
  BY <1>5, <1>6 DEF Single, SameRun, Idle
<1> QED
  BY <1>3, <1>6, <1>7, <1>8

(* A start by hand.                                                        *)
LEMMA ManualStartSingle ==
  ASSUME Inv, Single(rs), ee.nsched = 0, NEW st, NEW c, NEW m \in 0 .. BYTE - 1,
         UIManualStart(st, c, m)
  PROVE  /\ Single(rs')
         /\ \/ Idle(rs') \/ SameRun(rs, rs')
            \/ rs'.zone \in Zones /\ rs'.age = 0 /\ rs'.mins = m
         /\ ~ee.run /\ Idle(rs) => Idle(rs')
<1>1. ee \in Eeproms /\ Good(Now, ee) /\ SameRun(rs, Now)
  BY NowGood, NowRun DEF Inv, TypeOK
<1>2. CASE ~StartsZone(st, c)
  <2>1. rs' = Now
    BY <1>2 DEF UIManualStart, Handled
  <2> QED
    BY <1>1, <2>1 DEF Single, SameRun, Idle
<1>3. CASE StartsZone(st, c)
  <2>1. rs' = StartZoneWorker(Now, ee, clock, st, c, m)
    BY <1>3 DEF UIManualStart, Processed
  <2>2. StartZoneOf[st] + c \in Zones
    BY <1>3 DEF StartsZone
  <2> QED
    BY <1>1, <1>3, <2>1, <2>2, SingleStarted
<1> QED
  BY <1>2, <1>3

(* A request of the master, for a time or to stop.                         *)
LEMMA ZonesSetSingle ==
  ASSUME Inv, ee.nsched = 0, NEW st, NEW c, NEW m \in 0 .. BYTE - 1,
         StartsZone(st, c), MessageZonesSet(st, c, m)
  PROVE  /\ Single(rs')
         /\ m = 0 \/ ~ee.run => Idle(rs')
         /\ \/ Idle(rs')
            \/ /\ rs'.zone = StartZoneOf[st] + c /\ rs'.sched = Quick
               /\ rs'.age = 0 /\ rs'.mins = (m + 1) % BYTE
         /\ ee.run /\ m # 0 /\ (m + 1) % BYTE # 0 => ~Idle(rs')
<1> DEFINE n == (m + 1) % BYTE
<1>1. ee \in Eeproms /\ Good(Now, ee) /\ Now \in RunStates
  BY NowGood DEF Inv, TypeOK
<1>2. n \in 0 .. BYTE - 1
  BY SizesAssumption
<1>3. CASE m = 0
  <2>1. rs' = TurnOffZonesWorker(Now, ee)
    BY <1>3 DEF MessageZonesSet, Handled
  <2>2. Idle(rs')
    BY <1>1, <2>1, TurnOffZonesWorkerRun
  <2> QED
    BY <1>3, <2>2 DEF Single, Idle
<1>4. CASE m # 0
  <2>1. rs' = StartZoneWorker(Now, ee, clock, st, c, n)
    BY <1>4 DEF MessageZonesSet, Processed
  <2> HIDE DEF n
  <2>2. /\ Single(rs')
        /\ \/ Idle(rs')
           \/ /\ rs'.zone = StartZoneOf[st] + c /\ rs'.sched = Quick
              /\ rs'.age = 0 /\ rs'.mins = n
        /\ ~ee.run \/ n = 0 => Idle(rs')
        /\ ee.run /\ n # 0 => ~Idle(rs')
    BY <1>1, <1>2, <2>1, SingleStarted
  <2> QED
    BY <1>4, <2>2 DEF n
<1> QED
  BY <1>3, <1>4

(* A master whose users ask for the run times of RunMinutes.               *)
MasterAction ==
  \/ Pass
  \/ \E on \in BOOLEAN : WebRunSchedules(on)
  \/ \E q \in QuickDefs : WebQuickSchedule(q)
  \/ UIHomeConfirm
  \/ \E st \in Stations, c \in Zones, m \in RunMinutes : UIManualStart(st, c, m)

(* A master whose zones are all another station's asks for each zone it    *)
(* starts timing, and for a stop whenever it stops timing one.             *)
LEMMA MasterTells ==
  ASSUME Inv, Far(ee), ee.nsched = 0, Errand(rs, RunMinutes), MasterAction,
         \A q \in QuickDefs : \A z \in DOMAIN q : q[z] \in RunMinutes \cup {0}
  PROVE  Errand(rs', RunMinutes) /\ Tells(Now, rs')
<1> DEFINE M == RunMinutes
<1>0. /\ ee \in Eeproms /\ Good(Now, ee) /\ SameRun(rs, Now) /\ Now.sent = <<>>
      /\ Now.next = rs.next /\ Now \in RunStates
      /\ M \in SUBSET (0 .. BYTE - 1) /\ \A w \in Scales : w \in Nat
      /\ NoZone \notin Zones /\ NoZone # Gap
  BY NowGood, NowRun, InputsAssumption, SizesAssumption
     DEF Inv, TypeOK, Zones, NoZone, Gap
<1>00. Errand(Now, M)
  BY <1>0 DEF Errand, Orders, SameRun
<1> HIDE DEF M
<1> SUFFICES Errand(rs', M) /\ Tells(Now, rs')
  BY DEF M
<1>1. CASE Pass
  <2>1. PICK w \in Scales : rs' = ProcessScheduledEvents(Now, ee, clock, w)
    BY <1>1 DEF Pass, Processed
  <2> QED
    BY <1>0, <1>00, <2>1, ProcessScheduledEventsTells
<1>2. ASSUME NEW on \in BOOLEAN, WebRunSchedules(on)
      PROVE  Errand(rs', M) /\ Tells(Now, rs')
  <2> DEFINE e == [ee EXCEPT !.run = on]
  <2>1. e \in Eeproms /\ e.enabled = ee.enabled /\ e.nsched = 0
    BY <1>0 DEF Eeproms
  <2>2. PICK w \in Scales : rs' = ProcessScheduledEvents(Now, e, clock, w)
    BY <1>2 DEF WebRunSchedules, Processed
  <2> HIDE DEF e
  <2>3. Good(Now, e) /\ Far(e)
    BY <1>0, <2>1, SameFlags DEF Far, Switchable
  <2> QED
    BY <1>0, <1>00, <2>1, <2>2, <2>3, ProcessScheduledEventsTells
<1>3. ASSUME NEW q \in QuickDefs, WebQuickSchedule(q)
      PROVE  Errand(rs', M) /\ Tells(Now, rs')
  <2> DEFINE r == StopSchedule(Now, ee)
             quick == [z \in Zones |-> IF z \in DOMAIN q THEN q[z] ELSE r.quick[z]]
             p == [r EXCEPT !.quick = quick]
  <2>1. /\ Good(r, ee) /\ r \in RunStates /\ r.zone = NoZone
        /\ Errand(r, M) /\ Tells(Now, r)
    BY <1>0, <1>00, StopScheduleStops, StopScheduleTells, StoppedIsGood
       DEF Good, Stopped
  <2> HIDE DEF r
  <2>2. quick \in Durations /\ \A z \in Zones : quick[z] \in M \cup {0}
    <3>1. \A z \in Zones : quick[z] \in M \cup {0}
      BY <2>1 DEF Errand, Orders, M
    <3> QED
      BY <2>1, <3>1, InputsAssumption DEF RunStates, Durations
  <2> HIDE DEF quick
  <2>3. /\ p \in RunStates /\ p.sched = r.sched /\ p.zone = r.zone
        /\ p.next = r.next /\ p.cache = r.cache /\ p.out = r.out
        /\ p.sent = r.sent /\ p.quick = quick
    BY <2>1, <2>2 DEF RunStates
  <2>4. rs' = StartQuickSchedule(p, ee)
    BY <1>3 DEF WebQuickSchedule, Handled, r, quick
  <2> HIDE DEF p
  <2>5. Good(p, ee) /\ Errand(p, M) /\ Tells(r, p)
    BY <1>0, <2>1, <2>2, <2>3, GoodUpdate DEF Errand, Orders, Tells, SameWatering
  <2>6. Errand(rs', M) /\ Tells(p, rs') /\ rs' \in RunStates
    BY <1>0, <2>4, <2>5, StartQuickScheduleTells, StartQuickScheduleGood DEF Good
  <2>7. Tells(Now, p)
    BY <1>0, <2>1, <2>3, <2>5, TellsTransitive
  <2> QED
    BY <1>0, <2>3, <2>6, <2>7, TellsTransitive
<1>4. CASE UIHomeConfirm
  <2> DEFINE e == [ee EXCEPT !.run = ~@ /\ NotOff(rs) = {}]
             r == IF ~ee.run /\ NotOff(rs) # {} THEN TurnOffZonesWorker(Now, ee) ELSE Now
  <2>1. PICK w \in Scales : rs' = ProcessScheduledEvents(r, e, clock, w)
    BY <1>4 DEF UIHomeConfirm, Processed
  <2>2. e \in Eeproms /\ e.enabled = ee.enabled /\ e.nsched = 0
    BY <1>0 DEF Eeproms
  <2> HIDE DEF e
  <2>3. Good(r, ee) /\ r \in RunStates
    BY <1>0, TurnOffZonesWorkerStops, StoppedIsGood DEF Good
  <2>4. Errand(r, M) /\ Tells(Now, r)
    <3>1. CASE ~ee.run /\ NotOff(rs) # {}
      <4>1. NotOff(Now) # {}
        BY <3>1, NowGood DEF NotOff
      <4> QED
        BY <1>0, <1>00, <3>1, <4>1, TurnOffZonesWorkerTells DEF Errand
    <3>2. CASE ~(~ee.run /\ NotOff(rs) # {})
      BY <1>00, <3>2 DEF Tells, SameWatering
    <3> QED
      BY <3>1, <3>2
  <2> HIDE DEF r
  <2>5. Good(r, e) /\ Far(e)
    BY <2>2, <2>3, SameFlags DEF Far, Switchable
  <2>6. Errand(rs', M) /\ Tells(r, rs')
    BY <1>0, <2>1, <2>2, <2>4, <2>5, ProcessScheduledEventsTells
  <2>7. rs' \in RunStates
    BY <1>0, <2>1, <2>2, <2>5, ProcessScheduledEventsGood DEF Good
  <2> QED
    BY <1>0, <2>3, <2>4, <2>6, <2>7, TellsTransitive
<1>5. ASSUME NEW st \in Stations, NEW c \in Zones, NEW m \in RunMinutes,
             UIManualStart(st, c, m)
      PROVE  Errand(rs', M) /\ Tells(Now, rs')
  <2>1. CASE StartsZone(st, c)
    <3>1. rs' = StartZoneWorker(Now, ee, clock, st, c, m)
      BY <1>5, <2>1 DEF UIManualStart, Processed
    <3> QED
      BY <1>0, <1>00, <2>1, <3>1, StartZoneWorkerTells DEF M
  <2>2. CASE ~StartsZone(st, c)
    <3>1. rs' = Now
      BY <1>5, <2>2 DEF UIManualStart, Handled
    <3> QED
      BY <1>00, <3>1 DEF Tells, SameWatering
  <2> QED
    BY <2>1, <2>2
<1> QED
  BY <1>1, <1>2, <1>3, <1>4, <1>5 DEF MasterAction

=============================================================================
