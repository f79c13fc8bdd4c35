---------------------------- MODULE SensorProofs ----------------------------
(***************************************************************************)
(* Proofs about the readings of sensors: the way of a reading from the     *)
(* hardware into the master's list, the rounds of polls, the water meter's *)
(* interrupt against its poll, and the counters of the water used.         *)
(***************************************************************************)
EXTENDS SensorReadings, CounterMeter, WaterCounters, SequenceTheorems, FoldTheorems, TLAPS

-----------------------------------------------------------------------------
(***************************************************************************)
(* SensorReadings: every list shows readings of its own sensors only, no   *)
(* sensor waits longer than a round, and the master follows the flow       *)
(* counters (SensorAssumption, ListAssumption, PollAssumption).            *)
(***************************************************************************)

(* Lists of readings, reports under way, and what a series of readings     *)
(* turns a station's list into.                                            *)
Lists(s)   == [DOMAIN SensorsOf[s] -> WireReadings]
Reports    == [from : AllStations, first : Nat, data : Seq(0 .. READINGS - 1)]
Results(s) == [list : Lists(s), out : Seq(Reports)]

(* What a channel may read, and what an entry of the list of s may show: 0 *)
(* or what the hardware of its own sensor reads.                           *)
Shows(s, c) == ValuesOf[s][c] \cup (IF c \in Unsure[s] THEN Garbage ELSE {})

ShownBy(s, c) ==
  {0} \cup {v \in WireReadings : c \in ToSet(ChannelsOf[s]) /\ v \in Shows(s, c)}

May(s, i) ==
  LET sensor == SensorsOf[s][i]
  IN  ShownBy(sensor.station, IF s = SensorMaster THEN HardwareOf(sensor) ELSE sensor.channel)

GoodLists(s) == {l \in Lists(s) : \A i \in DOMAIN SensorsOf[s] : l[i] \in May(s, i)}

GoodReports(s) ==
  {p \in Reports : \A k \in DOMAIN p.data :
     p.first + k \in DOMAIN SensorsOf[s] /\ FromWire(p.data[k]) \in May(s, p.first + k)}

OwnReports(s) == {p \in GoodReports(s) : p.from = s}

GoodResults(s) == [list : GoodLists(s), out : Seq(OwnReports(s))]

(* One reading, of hardware that may have failed.                          *)
HandOne(s, b, station, c, v, failed) ==
  IF c \in failed THEN b ELSE ReportSensorReading(s, b, station, c, v)

(* f is the fold that hands the readings val of the channels chan to a     *)
(* station, one after the other.                                           *)
Hands(f, s, station, chan, val, failed, base, D) ==
  f = [T \in SUBSET D |->
        IF T = {} THEN base
        ELSE HandOne(s, f[T \ {Max(T)}], station, chan[Max(T)], val[Max(T)], failed)]

(* A station of the order is one of all.                                   *)
LEMMA OrderNames == ToSet(Order) \subseteq AllStations
<1>1. Order \in Seq(AllStations)
  BY PollAssumption DEF PollAssumption
<1> QED
  BY <1>1 DEF ToSet

(* The largest element is a choice.                                        *)
LEMMA MaxChooses ==
  ASSUME NEW n \in Nat
  PROVE  \A T \in SUBSET (1 .. n) : T # {} => Max(T) \in T
<1> SUFFICES ASSUME NEW T \in SUBSET (1 .. n), T # {}
             PROVE  Max(T) \in T
  OBVIOUS
<1>1. \E x \in T : \A y \in T : x >= y
  BY LargestIndex
<1> QED
  BY <1>1 DEF Max

(* The lists of sensors are sequences of them.                             *)
LEMMA SensorLists ==
  ASSUME NEW s \in AllStations
  PROVE  /\ Len(SensorsOf[s]) \in Nat /\ DOMAIN SensorsOf[s] = 1 .. Len(SensorsOf[s])
         /\ \A i \in DOMAIN SensorsOf[s] :
              /\ SensorsOf[s][i].station \in ToSet(Order)
              /\ SensorsOf[s][i].channel \in Nat /\ SensorsOf[s][i].flow \in BOOLEAN
         /\ Len(ChannelsOf[s]) \in Nat /\ DOMAIN ChannelsOf[s] = 1 .. Len(ChannelsOf[s])
         /\ \A i \in DOMAIN ChannelsOf[s] : ChannelsOf[s][i] \in Nat
<1>1. /\ SensorsOf[s] \in Seq(Sensors)
      /\ ChannelsOf[s] \in Seq(Nat)
  BY ListAssumption DEF ListAssumption
<1>2. /\ Len(SensorsOf[s]) \in Nat /\ DOMAIN SensorsOf[s] = 1 .. Len(SensorsOf[s])
      /\ \A i \in DOMAIN SensorsOf[s] :
           SensorsOf[s][i] \in Sensors
  BY <1>1
<1>3. /\ Len(ChannelsOf[s]) \in Nat /\ DOMAIN ChannelsOf[s] = 1 .. Len(ChannelsOf[s])
      /\ \A i \in DOMAIN ChannelsOf[s] : ChannelsOf[s][i] \in Nat
  BY <1>1
<1> QED
  BY <1>2, <1>3 DEF Sensors

(* A reading survives the way over the wire.                               *)
LEMMA WireKeeps ==
  ASSUME NEW v \in WireReadings
  PROVE  /\ ToWire(v) \in 0 .. READINGS - 1
         /\ FromWire(ToWire(v)) = v
<1>0. READINGS \in Nat /\ READINGS > 1
  BY SensorAssumption DEF SensorAssumption
<1> DEFINE h == READINGS \div 2
<1>1. h \in Nat /\ 2 * h <= READINGS /\ READINGS <= 2 * h + 1
  BY <1>0
<1>2. v \in Int /\ -h <= v /\ v <= h - 1
  BY <1>1 DEF WireReadings
<1> HIDE DEF h
<1>3. CASE v >= 0
  <2>1. v % READINGS = v
    BY <1>0, <1>1, <1>2, <1>3
  <2> QED
    BY <1>0, <1>1, <1>2, <1>3, <2>1 DEF ToWire, FromWire, h
<1>4. CASE v < 0
  <2>1. v % READINGS = v + READINGS
    BY <1>0, <1>1, <1>2, <1>4
  <2>2. v + READINGS >= h
    BY <1>0, <1>1, <1>2
  <2> QED
    BY <1>0, <1>1, <1>2, <1>4, <2>1, <2>2 DEF ToWire, FromWire, h
<1> QED
  BY <1>2, <1>3, <1>4

(* Zero is a reading.                                                      *)
LEMMA ZeroReading == 0 \in WireReadings
<1>1. READINGS \in Nat /\ READINGS > 1
  BY SensorAssumption DEF SensorAssumption
<1> DEFINE h == READINGS \div 2
<1>2. h \in Nat /\ h >= 1
  BY <1>1
<1> HIDE DEF h
<1>3. 0 \in -h .. h - 1
  BY <1>2
<1> QED
  BY <1>3 DEF h, WireReadings

(* after is b once the first entry for the sensor took the reading, with   *)
(* a report of it if one is due.                                           *)
Takes(s, b, station, channel, reading, after) ==
  \/ EntriesOf(s, station, channel) = {} /\ after = b
  \/ \E i \in EntriesOf(s, station, channel) :
       /\ \A k \in EntriesOf(s, station, channel) : i <= k
       /\ after.list = [b.list EXCEPT ![i] = reading]
       /\ after.out =
            IF SensorsOf[s][i].flow /\ reading # b.list[i] /\ s \in Registered
            THEN Append(b.out, [from |-> s, first |-> i - 1,
                                data |-> <<ToWire(reading)>>])
            ELSE b.out

(* A reading changes the first entry for its sensor only, and adds at most *)
(* a report of it.                                                         *)
LEMMA OneReading ==
  ASSUME NEW s \in AllStations, NEW b \in Results(s), NEW station,
         NEW channel \in Nat, NEW reading \in WireReadings
  PROVE  /\ ReportSensorReading(s, b, station, channel, reading) \in Results(s)
         /\ Takes(s, b, station, channel, reading,
                  ReportSensorReading(s, b, station, channel, reading))
<1> DEFINE entries == EntriesOf(s, station, channel)
           after == ReportSensorReading(s, b, station, channel, reading)
<1>1. CASE entries = {}
  BY <1>1 DEF ReportSensorReading, Takes
<1>2. CASE entries # {}
  <2>1. entries \subseteq DOMAIN SensorsOf[s] /\ DOMAIN SensorsOf[s] \subseteq Nat \ {0}
    BY SensorLists DEF EntriesOf
  <2>2. \E j \in entries : \A k \in entries : j <= k
    <3> HIDE DEF entries
    <3> QED
      BY <1>2, <2>1, NatMin
  <2> DEFINE i == CHOOSE j \in entries : \A k \in entries : j <= k
  <2>3. i \in entries /\ \A k \in entries : i <= k
    BY <2>2
  <2>4. after = [list |-> [b.list EXCEPT ![i] = reading],
                 out  |-> IF SensorsOf[s][i].flow /\ reading # b.list[i] /\ s \in Registered
                          THEN Append(b.out, [from |-> s, first |-> i - 1,
                                              data |-> <<ToWire(reading)>>])
                          ELSE b.out]
    BY <1>2 DEF ReportSensorReading
  <2> HIDE DEF i, entries, after
  <2>5. i \in Nat \ {0} /\ i \in DOMAIN SensorsOf[s]
    BY <2>1, <2>3
  <2>6. b.list \in Lists(s) /\ b.out \in Seq(Reports)
    BY DEF Results
  <2>7. [b.list EXCEPT ![i] = reading] \in Lists(s)
    BY <2>5, <2>6 DEF Lists
  <2>8. [from |-> s, first |-> i - 1, data |-> <<ToWire(reading)>>] \in Reports
    <3>1. i - 1 \in Nat
      BY <2>5
    <3>2. ToWire(reading) \in 0 .. READINGS - 1
      BY WireKeeps
    <3> QED
      BY <3>1, <3>2 DEF Reports
  <2>9. after.out \in Seq(Reports)
    BY <2>4, <2>6, <2>8
  <2>10. after \in Results(s)
    <3>1. after = [list |-> after.list, out |-> after.out]
      BY <2>4
    <3>2. after.list \in Lists(s)
      BY <2>4, <2>7
    <3> QED
      BY <2>9, <3>1, <3>2 DEF Results
  <2>11. /\ after.list = [b.list EXCEPT ![i] = reading]
         /\ after.out =
              IF SensorsOf[s][i].flow /\ reading # b.list[i] /\ s \in Registered
              THEN Append(b.out, [from |-> s, first |-> i - 1,
                                data |-> <<ToWire(reading)>>])
              ELSE b.out
    BY <2>4
  <2> QED
    BY <2>3, <2>10, <2>11 DEF after, entries, Takes
<1> QED
  BY <1>1, <1>2

(* One reading of hardware that may have failed leaves a result.           *)
LEMMA OneHanded ==
  ASSUME NEW s \in AllStations, NEW b \in Results(s), NEW station,
         NEW channel \in Nat, NEW reading \in WireReadings, NEW failed
  PROVE  HandOne(s, b, station, channel, reading, failed) \in Results(s)
BY OneReading DEF HandOne

(* Series of readings have a fold, and its values are lists and reports.   *)
LEMMA HandsExist ==
  ASSUME NEW s \in AllStations, NEW station, NEW n \in Nat, NEW chan \in [1 .. n -> Nat],
         NEW val \in [1 .. n -> WireReadings], NEW base \in Results(s),
         NEW failed
  PROVE  \E f : Hands(f, s, station, chan, val, failed, base, 1 .. n)
<1> DEFINE D == 1 .. n
           c == [T \in SUBSET D |-> Max(T)]
           G == [p \in D \X Results(s) |->
                  HandOne(s, p[2], station, chan[p[1]], val[p[1]], failed)]
<1>1. IsFiniteSet(D)
  BY FS_Interval
<1>2. \A T \in SUBSET D : T # {} => Max(T) \in T
  BY MaxChooses
<1>3. Chooses(c, D)
  BY <1>2 DEF Chooses
<1>4. \A x \in D, b \in Results(s) :
        /\ G[<<x, b>>] = HandOne(s, b, station, chan[x], val[x], failed)
        /\ G[<<x, b>>] \in Results(s)
  <2> SUFFICES ASSUME NEW x \in D, NEW b \in Results(s)
               PROVE  HandOne(s, b, station, chan[x], val[x], failed) \in Results(s)
    OBVIOUS
  <2>1. chan[x] \in Nat /\ val[x] \in WireReadings
    OBVIOUS
  <2> QED
    BY <2>1, OneHanded
<1> HIDE DEF G
<1>5. PICK f : /\ Recurs(f, D, SUBSET D, base, c, G)
               /\ \A T \in SUBSET D : f[T] \in Results(s)
  <2>1. \A x \in D, b \in Results(s) : G[<<x, b>>] \in Results(s)
    BY <1>4
  <2> HIDE DEF D, c
  <2> QED
    BY <1>1, <1>3, <2>1, FoldDefined
<1>6. \A T \in SUBSET D : T # {} =>
        G[<<c[T], f[T \ {c[T]}]>>]
          = HandOne(s, f[T \ {Max(T)}], station, chan[Max(T)], val[Max(T)], failed)
  <2> SUFFICES ASSUME NEW T \in SUBSET D, T # {}
               PROVE  G[<<c[T], f[T \ {c[T]}]>>]
                        = HandOne(s, f[T \ {Max(T)}], station, chan[Max(T)], val[Max(T)], failed)
    OBVIOUS
  <2>1. c[T] = Max(T) /\ Max(T) \in D
    BY <1>2
  <2>2. T \ {Max(T)} \in SUBSET D
    OBVIOUS
  <2>3. f[T \ {Max(T)}] \in Results(s)
    BY <1>5, <2>2
  <2> QED
    BY <1>4, <2>1, <2>3
<1>7. f = [T \in SUBSET D |->
            IF T = {} THEN base
            ELSE HandOne(s, f[T \ {Max(T)}], station, chan[Max(T)], val[Max(T)], failed)]
  BY <1>5, <1>6 DEF Recurs
<1> QED
  BY <1>7 DEF Hands

(* Every reading of the series keeps B.                                    *)
Keeps(B, s, station, chan, val, n) ==
  \A k \in 1 .. n, b \in B \cap Results(s) :
    ReportSensorReading(s, b, station, chan[k], val[k]) \in B

(* A series of readings stays in a set of results if every reading does.   *)
LEMMA HandsStay ==
  ASSUME NEW s \in AllStations, NEW station, NEW n \in Nat, NEW chan \in [1 .. n -> Nat],
         NEW val \in [1 .. n -> WireReadings], NEW base \in Results(s),
         NEW failed, NEW f, Hands(f, s, station, chan, val, failed, base, 1 .. n),
         NEW B, base \in B, Keeps(B, s, station, chan, val, n)
  PROVE  \A T \in SUBSET (1 .. n) : f[T] \in B \cap Results(s)
<1> DEFINE D == 1 .. n
           c == [T \in SUBSET D |-> Max(T)]
           Good == {T \in SUBSET D : f[T] \in B \cap Results(s)}
<1>1. IsFiniteSet(D)
  BY FS_Interval
<1>2. \A T \in SUBSET D : T # {} => Max(T) \in T
  BY MaxChooses
<1>3. Chooses(c, D)
  BY <1>2 DEF Chooses
<1>4. \A T \in SUBSET D :
        f[T] = IF T = {} THEN base
               ELSE HandOne(s, f[T \ {Max(T)}], station, chan[Max(T)], val[Max(T)], failed)
  BY DEF Hands
<1>5. {} \in Good
  BY <1>4
<1>6. ASSUME NEW T \in SUBSET D, T # {}, T \ {c[T]} \in Good
      PROVE  T \in Good
  <2> DEFINE k == Max(T)
             b == f[T \ {Max(T)}]
  <2>1. k \in D /\ c[T] = k
    BY <1>2, <1>6
  <2>2. b \in B \cap Results(s)
    BY <1>6, <2>1
  <2>3. f[T] = HandOne(s, b, station, chan[k], val[k], failed)
    BY <1>4, <1>6
  <2> HIDE DEF k, b
  <2>4. chan[k] \in Nat /\ val[k] \in WireReadings
    BY <2>1
  <2>5. f[T] \in Results(s)
    <3>1. b \in Results(s)
      BY <2>2
    <3>2. HandOne(s, b, station, chan[k], val[k], failed) \in Results(s)
      BY <2>4, <3>1, OneHanded
    <3> QED
      BY <2>3, <3>2
  <2>6. f[T] \in B
    BY <2>1, <2>2, <2>3 DEF Keeps, HandOne
  <2> QED
    BY <2>5, <2>6
<1>7. Closed(Good, c, D)
  <2>1. \A T \in SUBSET D : T # {} /\ T \ {c[T]} \in Good => T \in Good
    <3> HIDE DEF Good, c, D
    <3> QED
      BY <1>6
  <2> HIDE DEF Good, c, D
  <2> QED
    BY <1>5, <2>1 DEF Closed
<1>8. SUBSET D \subseteq Good
  <2> HIDE DEF Good, c, D
  <2> QED
    BY <1>1, <1>3, <1>7, SubsetInduction
<1> QED
  BY <1>8

(* f gathers the stations of the order that have sensors.                  *)
Gathers(f, s) ==
  f = [T \in SUBSET DOMAIN Order |->
        IF T = {} THEN <<>>
        ELSE IF HasSensors(s, Order[Max(T)])
             THEN Append(f[T \ {Max(T)}], Order[Max(T)]) ELSE f[T \ {Max(T)}]]

(* The gathering of stations has a fold.                                   *)
LEMMA GathersExists ==
  ASSUME NEW s \in AllStations
  PROVE  \E f : Gathers(f, s)
<1>0. Order \in Seq(AllStations)
  BY PollAssumption DEF PollAssumption
<1> DEFINE n == Len(Order)
           D == 1 .. n
           c == [T \in SUBSET D |-> Max(T)]
           G == [p \in D \X Seq(AllStations) |->
                  IF HasSensors(s, Order[p[1]]) THEN Append(p[2], Order[p[1]]) ELSE p[2]]
<1>1. n \in Nat /\ DOMAIN Order = D /\ \A k \in D : Order[k] \in AllStations
  BY <1>0
<1>2. IsFiniteSet(D)
  BY <1>1, FS_Interval
<1> HIDE DEF n
<1>3. \A T \in SUBSET D : T # {} => Max(T) \in T
  BY <1>1, MaxChooses
<1>4. Chooses(c, D)
  BY <1>3 DEF Chooses
<1>5. \A x \in D, b \in Seq(AllStations) :
        /\ G[<<x, b>>] = IF HasSensors(s, Order[x]) THEN Append(b, Order[x]) ELSE b
        /\ G[<<x, b>>] \in Seq(AllStations)
  BY <1>1
<1>6. << >> \in Seq(AllStations)
  OBVIOUS
<1> HIDE DEF G
<1>7. PICK f : /\ Recurs(f, D, SUBSET D, << >>, c, G)
               /\ \A T \in SUBSET D : f[T] \in Seq(AllStations)
  <2>1. \A x \in D, b \in Seq(AllStations) : G[<<x, b>>] \in Seq(AllStations)
    BY <1>5
  <2> HIDE DEF D, c
  <2> QED
    BY <1>2, <1>4, <1>6, <2>1, FoldDefined
<1>8. \A T \in SUBSET D : T # {} =>
        G[<<c[T], f[T \ {c[T]}]>>]
          = IF HasSensors(s, Order[Max(T)])
            THEN Append(f[T \ {Max(T)}], Order[Max(T)]) ELSE f[T \ {Max(T)}]
  <2> SUFFICES ASSUME NEW T \in SUBSET D, T # {}
               PROVE  G[<<c[T], f[T \ {c[T]}]>>]
                        = IF HasSensors(s, Order[Max(T)])
                          THEN Append(f[T \ {Max(T)}], Order[Max(T)]) ELSE f[T \ {Max(T)}]
    OBVIOUS
  <2>1. c[T] = Max(T) /\ Max(T) \in D
    BY <1>3
  <2>2. T \ {Max(T)} \in SUBSET D
    OBVIOUS
  <2>3. f[T \ {Max(T)}] \in Seq(AllStations)
    BY <1>7, <2>2
  <2> QED
    BY <1>5, <2>1, <2>3
<1>9. f = [T \in SUBSET D |->
            IF T = {} THEN <<>>
            ELSE IF HasSensors(s, Order[Max(T)])
                 THEN Append(f[T \ {Max(T)}], Order[Max(T)]) ELSE f[T \ {Max(T)}]]
  BY <1>7, <1>8 DEF Recurs
<1> QED
  BY <1>1, <1>9 DEF Gathers

(* The list of stations to poll names the station of every sensor.         *)
LEMMA StationsOfSensors ==
  ASSUME NEW s \in AllStations
  PROVE  /\ StationsToPoll(s) \in Seq(AllStations)
         /\ \A i \in DOMAIN SensorsOf[s] :
              \E p \in 1 .. Len(StationsToPoll(s)) :
                StationsToPoll(s)[p] = SensorsOf[s][i].station
<1>0. Order \in Seq(AllStations)
  BY PollAssumption DEF PollAssumption
<1> DEFINE n == Len(Order)
           D == 1 .. n
           c == [T \in SUBSET D |-> Max(T)]
           f == CHOOSE h : Gathers(h, s)
           Good == {T \in SUBSET D :
                      /\ f[T] \in Seq(AllStations)
                      /\ \A k \in T : HasSensors(s, Order[k]) =>
                           \E p \in 1 .. Len(f[T]) : f[T][p] = Order[k]}
<1>1. n \in Nat /\ DOMAIN Order = D /\ \A k \in D : Order[k] \in AllStations
  BY <1>0
<1>2. StationsToPoll(s) = f[D]
  <2> HIDE DEF D, n
  <2>1. StationsToPoll(s) =
          (CHOOSE h : h =
             [T \in SUBSET DOMAIN Order |->
               IF T = {} THEN <<>>
               ELSE IF HasSensors(s, Order[Max(T)])
                    THEN Append(h[T \ {Max(T)}], Order[Max(T)]) ELSE h[T \ {Max(T)}]])
          [DOMAIN Order]
    BY DEF StationsToPoll, PollLists, FoldLeft, MapThenFoldSet
  <2>2. StationsToPoll(s) = f[DOMAIN Order]
    BY <2>1 DEF Gathers
  <2> QED
    BY <1>1, <2>2
<1>3. Gathers(f, s)
  BY GathersExists
<1> HIDE DEF f, n
<1>4. IsFiniteSet(D)
  BY <1>1, FS_Interval
<1>5. \A T \in SUBSET D : T # {} => Max(T) \in T
  BY <1>1, MaxChooses
<1>6. Chooses(c, D)
  BY <1>5 DEF Chooses
<1>7. \A T \in SUBSET D :
        f[T] = IF T = {} THEN <<>>
               ELSE IF HasSensors(s, Order[Max(T)])
                    THEN Append(f[T \ {Max(T)}], Order[Max(T)]) ELSE f[T \ {Max(T)}]
  BY <1>1, <1>3 DEF Gathers
<1>8. {} \in Good
  <2>1. f[{}] = << >> /\ {} \in SUBSET D
    BY <1>7
  <2>2. << >> \in Seq(AllStations)
    OBVIOUS
  <2> QED
    BY <2>1, <2>2
<1>9. ASSUME NEW T \in SUBSET D, T # {}, T \ {c[T]} \in Good
      PROVE  T \in Good
  <2> DEFINE k == Max(T)
             g == f[T \ {Max(T)}]
  <2>1. k \in D /\ k \in T /\ c[T] = k
    BY <1>5, <1>9
  <2>2. /\ g \in Seq(AllStations)
        /\ \A j \in T \ {k} : HasSensors(s, Order[j]) =>
             \E p \in 1 .. Len(g) : g[p] = Order[j]
    BY <1>9, <2>1
  <2>3. f[T] = IF HasSensors(s, Order[k]) THEN Append(g, Order[k]) ELSE g
    BY <1>7, <1>9
  <2> HIDE DEF k, g, D
  <2>4. Order[k] \in AllStations /\ Len(g) \in Nat
    BY <1>1, <2>1, <2>2
  <2>5. f[T] \in Seq(AllStations)
    BY <2>2, <2>3, <2>4
  <2>6. \A p \in 1 .. Len(g) : p \in 1 .. Len(f[T]) /\ f[T][p] = g[p]
    BY <2>2, <2>3, <2>4
  <2>7. HasSensors(s, Order[k]) => \E p \in 1 .. Len(f[T]) : f[T][p] = Order[k]
    <3> SUFFICES ASSUME HasSensors(s, Order[k])
                 PROVE  \E p \in 1 .. Len(f[T]) : f[T][p] = Order[k]
      OBVIOUS
    <3>1. f[T] = Append(g, Order[k])
      BY <2>3
    <3>2. Len(f[T]) = Len(g) + 1 /\ f[T][Len(g) + 1] = Order[k]
      BY <2>2, <2>4, <3>1
    <3>3. Len(g) + 1 \in 1 .. Len(f[T])
      BY <2>4, <3>2
    <3> QED
      BY <3>2, <3>3
  <2>8. ASSUME NEW j \in T, HasSensors(s, Order[j])
        PROVE  \E p \in 1 .. Len(f[T]) : f[T][p] = Order[j]
    BY <2>2, <2>6, <2>7, <2>8
  <2> QED
    BY <2>5, <2>8
<1>10. Closed(Good, c, D)
  <2>1. \A T \in SUBSET D : T # {} /\ T \ {c[T]} \in Good => T \in Good
    <3> HIDE DEF Good, c, D
    <3> QED
      BY <1>9
  <2> HIDE DEF Good, c, D
  <2> QED
    BY <1>8, <2>1 DEF Closed
<1>11. SUBSET D \subseteq Good
  <2> HIDE DEF Good, c, D
  <2> QED
    BY <1>4, <1>6, <1>10, SubsetInduction
<1>12. D \in Good
  <2>1. D \in SUBSET D
    OBVIOUS
  <2> HIDE DEF Good, D
  <2> QED
    BY <1>11, <2>1
<1>13. ASSUME NEW i \in DOMAIN SensorsOf[s]
       PROVE  \E p \in 1 .. Len(f[D]) : f[D][p] = SensorsOf[s][i].station
  <2>1. SensorsOf[s][i].station \in ToSet(Order)
    BY SensorLists
  <2>2. PICK k \in D : Order[k] = SensorsOf[s][i].station
    BY <1>1, <2>1 DEF ToSet
  <2>3. HasSensors(s, Order[k])
    BY <2>2 DEF HasSensors
  <2> HIDE DEF D
  <2> QED
    BY <1>12, <2>2, <2>3
<1> QED
  BY <1>2, <1>12, <1>13

-----------------------------------------------------------------------------
(* The rounds of polls *)

(* The station of an entry of the master's list, and its place in the list *)
(* of that station.                                                        *)
Of(i) == SensorsOf[SensorMaster][i].station
Place(i) == SensorsOf[SensorMaster][i].channel + 1

(* No station but its own was the last to report on the entry.             *)
Sure(i) == source[i] \in {NoRadio, Of(i)}

(* Lists show readings of their own sensors, unless a request for them     *)
(* went astray and another station reported last.                          *)
ListsGood ==
  /\ DOMAIN last = AllStations
  /\ \A s \in AllStations : last[s] \in Lists(s)
  /\ \A r \in SensorRemotes : last[r] \in GoodLists(r)
  /\ DOMAIN source = DOMAIN SensorsOf[SensorMaster]
  /\ \A i \in DOMAIN SensorsOf[SensorMaster] :
       /\ Sure(i) => last[SensorMaster][i] \in May(SensorMaster, i)
       /\ Sure(i) \/ misled[Of(i)]

(* The stations r may be asked for, and the reports it may send.           *)
AskedOf(r) == {p \in SensorRemotes : p = r \/ misled[p]}
Told(r)  == {g \in GoodReports(r) : g.from = r \/ misled[g.from]}

PacketsGood ==
  /\ misled \in [AllStations -> BOOLEAN]
  /\ DOMAIN toRemote = SensorRemotes /\ DOMAIN toMaster = SensorRemotes
  /\ \A r \in SensorRemotes :
       /\ toRemote[r] \in Seq(AskedOf(r)) /\ Len(toRemote[r]) <= MaxFlight
       /\ toMaster[r] \in Seq(Told(r)) /\ Len(toMaster[r]) <= MaxFlight

CountersGood ==
  /\ \A s \in AllStations :
       minutes[s] <= REPEAT[s] /\ nPoll[s] <= Len(StationsToPoll(s)) + 1
  /\ minutes \in [AllStations -> Nat] /\ nPoll \in [AllStations -> Nat \ {0}]
  /\ trouble \in [SensorRemotes -> BOOLEAN]
  /\ waits \in [DOMAIN SensorsOf[SensorMaster] -> Nat]

SensorTypes == ListsGood /\ PacketsGood /\ CountersGood

(* The minutes since the master's round began, from 0.                     *)
Minute == REPEAT[SensorMaster] - minutes[SensorMaster]
Polled == StationsToPoll(SensorMaster)

(* A sensor of the station at place p was asked for in minute p - 1 of     *)
(* this round, or else in that of the last round.                          *)
WaitsBy(i, p) ==
  waits[i] <= IF p <= Minute + 1 THEN Minute + 1 - p
              ELSE Minute + 1 - p + REPEAT[SensorMaster]

Rounds ==
  IF minutes[SensorMaster] = 0
  THEN nPoll[SensorMaster] = 1 /\ \A i \in DOMAIN waits : waits[i] = 0
  ELSE /\ nPoll[SensorMaster] = IF Minute < Len(Polled) THEN Minute + 2 ELSE Len(Polled) + 1
       /\ \A i \in DOMAIN waits, p \in 1 .. Len(Polled) :
            Polled[p] = SensorsOf[SensorMaster][i].station => WaitsBy(i, p)

(* The minute of a round, as the timer moves it.                           *)
LEMMA TimerTurns ==
  ASSUME CountersGood, PollMinTimer(SensorMaster), Rounds
  PROVE  Rounds'
<1> DEFINE M == SensorMaster
           R == REPEAT[M]
           L == Len(Polled)
           m == minutes[M]
           poll == PollFrom(M)
           now == poll <= L
<1>1. /\ M \in AllStations /\ R \in Nat /\ L \in Nat /\ L <= R /\ m \in Nat /\ m <= R
      /\ nPoll[M] \in Nat \ {0}
  <2>1. M \in AllStations
    BY DEF AllStations
  <2>2. R \in Nat /\ L <= R
    BY <2>1, PollAssumption DEF PollAssumption, Polled
  <2>3. L \in Nat
    BY <2>1, StationsOfSensors DEF Polled
  <2> QED
    BY <2>1, <2>2, <2>3 DEF CountersGood
<1>2. /\ minutes'[M] = IF m - 1 <= 0 THEN R ELSE m - 1
      /\ nPoll'[M] = IF now THEN poll + 1 ELSE poll
      /\ poll = IF m - 1 <= 0 THEN 1 ELSE nPoll[M]
      /\ DOMAIN waits' = DOMAIN waits
      /\ \A i \in DOMAIN waits :
           waits'[i] = IF now /\ SensorsOf[M][i].station = Polled[poll] THEN 0 ELSE waits[i] + 1
  BY <1>1 DEF CountersGood, PollMinTimer, PollFrom, Polled
<1>3. \A i \in DOMAIN waits : waits[i] \in Nat
  BY DEF CountersGood
<1>4. \A i \in DOMAIN waits : \E p \in 1 .. L : Polled[p] = SensorsOf[M][i].station
  BY <1>1, StationsOfSensors DEF CountersGood, Polled
<1>5. Polled' = Polled
  BY DEF Polled
<1> HIDE DEF poll, R, L, m, M, now
<1>6. CASE m - 1 <= 0 /\ R = 0
  <2>1. L = 0
    BY <1>1, <1>6
  <2>2. DOMAIN waits = {}
    BY <1>4, <2>1
  <2>3. minutes'[M] = 0 /\ poll = 1
    BY <1>2, <1>6
  <2>4. ~now
    BY <2>1, <2>3 DEF now
  <2>5. nPoll'[M] = 1
    BY <1>2, <2>3, <2>4
  <2> QED
    BY <1>2, <2>2, <2>3, <2>5 DEF Rounds, M
<1>7. CASE m - 1 <= 0 /\ R # 0
  <2>1. minutes'[M] = R /\ poll = 1 /\ R > 0
    BY <1>1, <1>2, <1>7
  <2>2. Minute' = 0
    BY <1>1, <2>1 DEF Minute, M, R
  <2>3. nPoll'[M] = IF 0 < L THEN 2 ELSE L + 1
    BY <1>1, <1>2, <2>1 DEF now
  <2>4. ASSUME NEW i \in DOMAIN waits, NEW p \in 1 .. L, Polled[p] = SensorsOf[M][i].station
        PROVE  waits'[i] <= IF p <= 1 THEN 1 - p ELSE 1 - p + R
    <3>1. p \in Nat /\ 1 <= p /\ p <= R
      BY <1>1, <2>4
    <3>2. CASE p = 1
      <4>1. now /\ SensorsOf[M][i].station = Polled[poll]
        BY <1>1, <2>1, <2>4, <3>2 DEF now
      <4> QED
        BY <1>2, <3>2, <4>1
    <3>3. CASE p > 1
      <4>1. waits[i] <= R - p
        <5>1. CASE m = 0
          BY <1>1, <3>1, <5>1 DEF Rounds, M, m
        <5>2. CASE m = 1
          <6>1. Minute = R - 1 /\ minutes[SensorMaster] # 0
            BY <5>2 DEF Minute, M, R, m
          <6>2. WaitsBy(i, p)
            BY <2>4, <6>1 DEF Rounds, L, M
          <6>3. p <= Minute + 1
            BY <1>1, <3>1, <6>1
          <6> QED
            BY <1>1, <3>1, <6>1, <6>2, <6>3 DEF WaitsBy
        <5> QED
          BY <1>1, <1>7, <5>1, <5>2
      <4>2. waits'[i] <= waits[i] + 1
        BY <1>2, <1>3
      <4>3. waits[i] \in Nat /\ waits'[i] \in Nat
        BY <1>2, <1>3
      <4> QED
        BY <1>1, <3>1, <3>3, <4>1, <4>2, <4>3
    <3> QED
      BY <3>1, <3>2, <3>3
  <2>5. \A i \in DOMAIN waits', p \in 1 .. Len(Polled') :
          Polled'[p] = SensorsOf[SensorMaster][i].station =>
            waits'[i] <= IF p <= Minute' + 1 THEN Minute' + 1 - p
                         ELSE Minute' + 1 - p + REPEAT[SensorMaster]
    BY <1>2, <1>5, <2>2, <2>4 DEF L, M, R
  <2> QED
    BY <1>5, <2>1, <2>2, <2>3, <2>5 DEF Rounds, WaitsBy, L, M
<1>8. CASE m - 1 > 0
  <2>1. minutes'[M] = m - 1 /\ poll = nPoll[M] /\ m - 1 # 0 /\ m # 0
    BY <1>1, <1>2, <1>8
  <2> DEFINE k == Minute
  <2>2. k = R - m /\ k \in Nat /\ k < R
    BY <1>1, <1>8 DEF Minute, R, m, M
  <2>3. Minute' = k + 1
    BY <1>1, <2>1, <2>2 DEF Minute, M, R
  <2>4. poll = IF k < L THEN k + 2 ELSE L + 1
    BY <2>1 DEF Rounds, m, M, L
  <2> HIDE DEF k
  <2>5. nPoll'[M] = IF k + 1 < L THEN k + 3 ELSE L + 1
    BY <1>1, <1>2, <2>2, <2>4 DEF now
  <2>6. ASSUME NEW i \in DOMAIN waits, NEW p \in 1 .. L, Polled[p] = SensorsOf[M][i].station
        PROVE  waits'[i] <= IF p <= k + 2 THEN k + 2 - p ELSE k + 2 - p + R
    <3>1. p \in Nat /\ 1 <= p /\ p <= L
      BY <1>1, <2>6
    <3>2. waits[i] <= IF p <= k + 1 THEN k + 1 - p ELSE k + 1 - p + R
      BY <2>1, <2>6 DEF Rounds, WaitsBy, m, M, L, k, R
    <3>3. waits'[i] <= waits[i] + 1 /\ waits[i] \in Nat /\ waits'[i] \in Nat
      BY <1>2, <1>3
    <3>4. CASE p = k + 2
      <4>1. k < L
        BY <1>1, <2>2, <3>1, <3>4
      <4>2. poll = p /\ now
        BY <1>1, <2>4, <3>1, <3>4, <4>1 DEF now
      <4> QED
        BY <1>2, <2>2, <2>6, <3>4, <4>2
    <3>5. CASE p # k + 2
      BY <1>1, <2>2, <3>1, <3>2, <3>3, <3>5
    <3> QED
      BY <3>4, <3>5
  <2>7. \A i \in DOMAIN waits', p \in 1 .. Len(Polled') :
          Polled'[p] = SensorsOf[SensorMaster][i].station =>
            waits'[i] <= IF p <= Minute' + 1 THEN Minute' + 1 - p
                         ELSE Minute' + 1 - p + REPEAT[SensorMaster]
    <3> SUFFICES ASSUME NEW i \in DOMAIN waits, NEW p \in 1 .. L,
                        Polled[p] = SensorsOf[SensorMaster][i].station
                 PROVE  waits'[i] <= IF p <= Minute' + 1 THEN Minute' + 1 - p
                                     ELSE Minute' + 1 - p + R
      BY <1>2, <1>5 DEF L, M, R
    <3>1. waits'[i] <= IF p <= k + 2 THEN k + 2 - p ELSE k + 2 - p + R
      BY <2>6 DEF M
    <3>2. p \in Nat /\ waits'[i] \in Nat
      BY <1>1, <1>2, <1>3
    <3> QED
      BY <1>1, <2>2, <2>3, <3>1, <3>2
  <2>8. nPoll'[M] = IF Minute' < Len(Polled') THEN Minute' + 2 ELSE Len(Polled') + 1
    <3>1. Minute' + 2 = k + 3
      BY <2>2, <2>3
    <3> QED
      BY <1>5, <2>3, <2>5, <3>1 DEF L
  <2> QED
    BY <2>1, <2>7, <2>8 DEF Rounds, WaitsBy, M
<1> QED
  BY <1>1, <1>6, <1>7, <1>8

-----------------------------------------------------------------------------
(* Whose readings the lists show *)

(* What an entry may show is a reading, and 0 is.                          *)
LEMMA MayShow ==
  ASSUME NEW s \in AllStations, NEW i
  PROVE  May(s, i) \subseteq WireReadings /\ 0 \in May(s, i)
BY ZeroReading DEF May, ShownBy

(* A reading of its own sensor keeps a list good.                          *)
LEMMA OneGood ==
  ASSUME NEW s \in AllStations, NEW b \in GoodResults(s), NEW station,
         NEW channel \in Nat, NEW reading \in WireReadings,
         \A i \in EntriesOf(s, station, channel) : reading \in May(s, i)
  PROVE  ReportSensorReading(s, b, station, channel, reading) \in GoodResults(s)
<1> DEFINE after == ReportSensorReading(s, b, station, channel, reading)
<1>1. b \in Results(s) /\ b.list \in GoodLists(s) /\ b.out \in Seq(OwnReports(s))
  <2>1. b.list \in GoodLists(s) /\ b.out \in Seq(OwnReports(s))
        /\ b = [list |-> b.list, out |-> b.out]
    BY DEF GoodResults
  <2>2. b.list \in Lists(s)
    BY <2>1 DEF GoodLists
  <2>3. b.out \in Seq(Reports)
    <3>1. OwnReports(s) \subseteq Reports
      BY DEF OwnReports, GoodReports
    <3> QED
      BY <2>1, <3>1
  <2> QED
    BY <2>1, <2>2, <2>3 DEF Results
<1>2. after \in Results(s)
      /\ \/ after = b
         \/ \E i \in EntriesOf(s, station, channel) :
              /\ after.list = [b.list EXCEPT ![i] = reading]
              /\ \/ after.out = b.out
                 \/ after.out = Append(b.out, [from |-> s, first |-> i - 1,
                                                data |-> <<ToWire(reading)>>])
  <2>1. b \in Results(s)
    BY <1>1
  <2>2. after \in Results(s) /\ Takes(s, b, station, channel, reading, after)
    BY <2>1, OneReading
  <2> HIDE DEF after
  <2> QED
    BY <2>2 DEF Takes
<1>3. CASE after = b
  BY <1>3
<1>4. CASE after # b
  <2>1. PICK i \in EntriesOf(s, station, channel) :
              /\ after.list = [b.list EXCEPT ![i] = reading]
              /\ \/ after.out = b.out
                 \/ after.out = Append(b.out, [from |-> s, first |-> i - 1,
                                                data |-> <<ToWire(reading)>>])
    BY <1>2, <1>4
  <2>2. after = [list |-> after.list, out |-> after.out] /\ after.list \in Lists(s)
    BY <1>2 DEF Results
  <2>3. i \in DOMAIN SensorsOf[s] /\ i \in Nat \ {0} /\ reading \in May(s, i)
    BY SensorLists DEF EntriesOf
  <2> HIDE DEF after
  <2>4. after.list \in GoodLists(s)
    BY <1>1, <2>1, <2>2, <2>3 DEF GoodLists, Lists
  <2> DEFINE p == [from |-> s, first |-> i - 1, data |-> <<ToWire(reading)>>]
  <2>5. p \in OwnReports(s)
    <3>1. ToWire(reading) \in 0 .. READINGS - 1 /\ FromWire(ToWire(reading)) = reading
      BY WireKeeps
    <3>2. p \in Reports
      BY <2>3, <3>1 DEF Reports
    <3>3. DOMAIN p.data = {1} /\ p.data[1] = ToWire(reading) /\ p.first + 1 = i
      BY <2>3
    <3> QED
      BY <2>3, <3>1, <3>2, <3>3 DEF OwnReports, GoodReports
  <2>6. after.out \in Seq(OwnReports(s))
    <3> HIDE DEF p
    <3>1. after.out = b.out \/ after.out = Append(b.out, p)
      BY <2>1 DEF p
    <3> QED
      BY <1>1, <2>5, <3>1
  <2> QED
    BY <2>2, <2>4, <2>6 DEF GoodResults, after
<1> QED
  BY <1>3, <1>4

(* What an entry shows stays in S if the readings it takes are in S.       *)
LEMMA OneEntry ==
  ASSUME NEW s \in AllStations, NEW b \in Results(s), NEW station,
         NEW channel \in Nat, NEW reading \in WireReadings,
         NEW i \in DOMAIN SensorsOf[s], NEW S, b.list[i] \in S,
         i \in EntriesOf(s, station, channel) => reading \in S
  PROVE  ReportSensorReading(s, b, station, channel, reading).list[i] \in S
<1> DEFINE after == ReportSensorReading(s, b, station, channel, reading)
<1>1. Takes(s, b, station, channel, reading, after)
  BY OneReading
<1>2. b.list \in Lists(s)
  BY DEF Results
<1> HIDE DEF after
<1>3. CASE after = b
  BY <1>3 DEF after
<1>4. CASE after # b
  <2>1. PICK k \in EntriesOf(s, station, channel) : after.list = [b.list EXCEPT ![k] = reading]
    BY <1>1, <1>4 DEF Takes
  <2>2. after.list[i] = IF k = i THEN reading ELSE b.list[i]
    BY <1>2, <2>1 DEF Lists
  <2> QED
    BY <2>1, <2>2 DEF after
<1> QED
  BY <1>3, <1>4

(* What hardware may read are readings.                                    *)
LEMMA ShowsReadings ==
  ASSUME NEW s \in AllStations, NEW c \in ToSet(ChannelsOf[s])
  PROVE  c \in Nat /\ Shows(s, c) \subseteq WireReadings
<1>1. PICK k \in DOMAIN ChannelsOf[s] : ChannelsOf[s][k] = c
  BY DEF ToSet
<1>2. c \in Nat
  BY <1>1, SensorLists
<1>3. ValuesOf[s][c] \subseteq WireReadings
  BY <1>1, ListAssumption DEF ListAssumption
<1>4. Garbage \subseteq WireReadings
  BY SensorAssumption DEF SensorAssumption
<1> QED
  BY <1>2, <1>3, <1>4 DEF Shows

(* The readings of a station's own hardware stay in what they keep.        *)
LEMMA OwnStays ==
  ASSUME NEW s \in AllStations, last[s] \in Lists(s), NEW v,
         NEW failed,
         \A c \in ToSet(ChannelsOf[s]) : v[c] \in Shows(s, c),
         NEW B, Before(s) \in B,
         \A c \in ToSet(ChannelsOf[s]), b \in B \cap Results(s) :
           c \in Nat /\ v[c] \in WireReadings => ReportSensorReading(s, b, s, c, v[c]) \in B
  PROVE  OwnReadings(s, v, failed) \in B \cap Results(s)
<1> DEFINE n == Len(ChannelsOf[s])
           D == 1 .. n
           chan == [k \in 1 .. n |-> ChannelsOf[s][k]]
           val == [k \in 1 .. n |-> v[ChannelsOf[s][k]]]
           base == Before(s)
           f == CHOOSE h : Hands(h, s, s, chan, val, failed, base, D)
<1>1. n \in Nat /\ DOMAIN ChannelsOf[s] = D
      /\ \A k \in D : ChannelsOf[s][k] \in Nat /\ ChannelsOf[s][k] \in ToSet(ChannelsOf[s])
  BY SensorLists DEF ToSet
<1>2. \A k \in D : v[ChannelsOf[s][k]] \in WireReadings
  BY <1>1, ShowsReadings
<1>3. chan \in [1 .. n -> Nat] /\ val \in [1 .. n -> WireReadings]
  BY <1>1, <1>2
<1>4. base \in Results(s)
  BY DEF Results, Before
<1>5. \A T \in SUBSET D : T # {} => Max(T) \in T
  BY <1>1, MaxChooses
<1>6. OwnReadings(s, v, failed) = f[D]
  <2> DEFINE E == DOMAIN ChannelsOf[s]
  <2>1. OwnReadings(s, v, failed) =
          (CHOOSE h : h =
             [T \in SUBSET E |->
               IF T = {} THEN Before(s)
               ELSE HandOne(s, h[T \ {Max(T)}], s, ChannelsOf[s][Max(T)],
                            v[ChannelsOf[s][Max(T)]], failed)])[E]
    BY DEF HandOne, OwnReadings, FoldLeft, MapThenFoldSet
  <2>2. \A h : Hands(h, s, s, chan, val, failed, base, D) <=>
               h = [T \in SUBSET E |->
                     IF T = {} THEN Before(s)
                     ELSE HandOne(s, h[T \ {Max(T)}], s, ChannelsOf[s][Max(T)],
                                  v[ChannelsOf[s][Max(T)]], failed)]
    <3> SUFFICES ASSUME NEW h
                 PROVE  [T \in SUBSET D |->
                          IF T = {} THEN base
                          ELSE HandOne(s, h[T \ {Max(T)}], s, chan[Max(T)], val[Max(T)],
                                       failed)]
                      = [T \in SUBSET D |->
                          IF T = {} THEN Before(s)
                          ELSE HandOne(s, h[T \ {Max(T)}], s, ChannelsOf[s][Max(T)],
                                       v[ChannelsOf[s][Max(T)]], failed)]
      BY <1>1 DEF Hands
    <3>1. \A T \in SUBSET D : T # {} => chan[Max(T)] = ChannelsOf[s][Max(T)]
                                        /\ val[Max(T)] = v[ChannelsOf[s][Max(T)]]
      BY <1>5
    <3> QED
      BY <3>1
  <2> HIDE DEF base, chan, val, D, E
  <2>3. OwnReadings(s, v, failed) = (CHOOSE h : Hands(h, s, s, chan, val, failed, base, D))[E]
    BY <2>1, <2>2
  <2> QED
    BY <1>1, <2>3 DEF E
<1> HIDE DEF n, chan, val, base
<1>7. Hands(f, s, s, chan, val, failed, base, D)
  BY <1>1, <1>3, <1>4, HandsExist
<1> HIDE DEF f
<1>8. Keeps(B, s, s, chan, val, n)
  BY <1>1, <1>2 DEF chan, val, Keeps
<1>9. \A T \in SUBSET (1 .. n) : f[T] \in B \cap Results(s)
  <2>1. base \in B
    BY DEF base
  <2> QED
    BY <1>1, <1>3, <1>4, <1>7, <1>8, <2>1, HandsStay
<1> QED
  BY <1>6, <1>9

(* A station's own readings change the entries of its own sensors, each to *)
(* what its channel may read.                                              *)
LEMMA OwnEntry ==
  ASSUME NEW s \in AllStations, last[s] \in Lists(s), NEW v, NEW failed,
         \A c \in ToSet(ChannelsOf[s]) : v[c] \in Shows(s, c),
         NEW i \in DOMAIN SensorsOf[s], NEW S, last[s][i] \in S,
         \A c \in ToSet(ChannelsOf[s]) : i \in EntriesOf(s, s, c) => v[c] \in S
  PROVE  OwnReadings(s, v, failed).list[i] \in S
<1> DEFINE B == {b \in Results(s) : b.list[i] \in S}
<1>1. Before(s) \in B
  BY DEF Before, Results
<1>2. \A c \in ToSet(ChannelsOf[s]), b \in B \cap Results(s) :
        c \in Nat /\ v[c] \in WireReadings => ReportSensorReading(s, b, s, c, v[c]) \in B
  BY OneReading, OneEntry
<1> HIDE DEF B
<1>3. OwnReadings(s, v, failed) \in B \cap Results(s)
  BY <1>1, <1>2, OwnStays
<1> QED
  BY <1>3 DEF B

(* The channels and the readings of a report, in order.                    *)
ReportChannels(p) == [k \in 1 .. Len(p.data) |-> p.first + k - 1]
ReportValues(p) == [k \in 1 .. Len(p.data) |-> FromWire(p.data[k])]

(* A report is for entries of its sender's list.                           *)
LEMMA ReportHas ==
  ASSUME NEW r \in SensorRemotes, NEW p \in GoodReports(r)
  PROVE  /\ Len(p.data) \in Nat /\ DOMAIN p.data = 1 .. Len(p.data) /\ p.first \in Nat
         /\ p.from \in AllStations
         /\ \A k \in 1 .. Len(p.data) :
              /\ p.first + k \in DOMAIN SensorsOf[r]
              /\ FromWire(p.data[k]) \in May(r, p.first + k)
              /\ FromWire(p.data[k]) \in WireReadings
         /\ ReportChannels(p) \in [1 .. Len(p.data) -> Nat]
         /\ ReportValues(p) \in [1 .. Len(p.data) -> WireReadings]
<1>1. p \in Reports /\ \A k \in DOMAIN p.data :
        p.first + k \in DOMAIN SensorsOf[r] /\ FromWire(p.data[k]) \in May(r, p.first + k)
  BY DEF GoodReports
<1>2. p.data \in Seq(0 .. READINGS - 1) /\ p.first \in Nat /\ p.from \in AllStations
  BY <1>1 DEF Reports
<1>3. Len(p.data) \in Nat /\ DOMAIN p.data = 1 .. Len(p.data)
  BY <1>2
<1>4. \A k \in 1 .. Len(p.data) :
        /\ p.first + k \in DOMAIN SensorsOf[r]
        /\ FromWire(p.data[k]) \in May(r, p.first + k)
        /\ FromWire(p.data[k]) \in WireReadings
  <2>1. r \in AllStations
    BY DEF AllStations
  <2>2. \A i : May(r, i) \subseteq WireReadings
    BY <2>1, MayShow
  <2> QED
    BY <1>1, <1>3, <2>2
<1>5. \A k \in 1 .. Len(p.data) : p.first + k - 1 \in Nat
  BY <1>2, <1>3
<1> QED
  BY <1>2, <1>3, <1>4, <1>5 DEF ReportChannels, ReportValues

(* What the master makes of a report is a series of readings.              *)
LEMMA ReportIsSeries ==
  ASSUME NEW r \in SensorRemotes, NEW p \in GoodReports(r),
         last[SensorMaster] \in Lists(SensorMaster)
  PROVE  /\ Before(SensorMaster) \in Results(SensorMaster)
         /\ \E f : /\ Hands(f, SensorMaster, p.from, ReportChannels(p), ReportValues(p), {},
                            Before(SensorMaster), 1 .. Len(p.data))
                   /\ ReportedReadings(p) = f[1 .. Len(p.data)]
<1> DEFINE M == SensorMaster
           n == Len(p.data)
           D == 1 .. n
           chan == ReportChannels(p)
           val == ReportValues(p)
           base == Before(M)
           f == CHOOSE h : Hands(h, M, p.from, chan, val, {}, base, D)
           list == [i \in DOMAIN p.data |-> i]
<1>0. M \in AllStations
  BY DEF AllStations
<1>1. n \in Nat /\ DOMAIN p.data = D
  BY ReportHas
<1>2. chan \in [1 .. n -> Nat] /\ val \in [1 .. n -> WireReadings]
  BY ReportHas
<1>3. base \in Results(M)
  BY DEF Results, Before
<1>4. \A T \in SUBSET D : T # {} => Max(T) \in T
  BY <1>1, MaxChooses
<1>5. ReportedReadings(p) = f[D]
  <2> DEFINE E == DOMAIN list
  <2>1. ReportedReadings(p) =
          (CHOOSE h : h =
             [T \in SUBSET E |->
               IF T = {} THEN Before(M)
               ELSE ReportSensorReading(M, h[T \ {Max(T)}], p.from, p.first + list[Max(T)] - 1,
                                        FromWire(p.data[list[Max(T)]]))])[E]
    BY DEF ReportedReadings, FoldLeft, MapThenFoldSet
  <2>2. \A h : Hands(h, M, p.from, chan, val, {}, base, D) <=>
               h = [T \in SUBSET E |->
                     IF T = {} THEN Before(M)
                     ELSE ReportSensorReading(M, h[T \ {Max(T)}], p.from, p.first + list[Max(T)] - 1,
                                              FromWire(p.data[list[Max(T)]]))]
    <3> SUFFICES ASSUME NEW h
                 PROVE  [T \in SUBSET D |->
                          IF T = {} THEN base
                          ELSE HandOne(M, h[T \ {Max(T)}], p.from, chan[Max(T)], val[Max(T)], {})]
                      = [T \in SUBSET D |->
                          IF T = {} THEN Before(M)
                          ELSE ReportSensorReading(M, h[T \ {Max(T)}], p.from,
                                                   p.first + list[Max(T)] - 1,
                                                   FromWire(p.data[list[Max(T)]]))]
      <4>1. E = D
        BY <1>1
      <4> HIDE DEF E, D, list, chan, val, base
      <4> QED
        BY <4>1 DEF Hands, base
    <3>1. \A T \in SUBSET D : T # {} =>
            /\ chan[Max(T)] = p.first + list[Max(T)] - 1
            /\ val[Max(T)] = FromWire(p.data[list[Max(T)]])
      <4> SUFFICES ASSUME NEW T \in SUBSET D, T # {}
                   PROVE  /\ chan[Max(T)] = p.first + list[Max(T)] - 1
                          /\ val[Max(T)] = FromWire(p.data[list[Max(T)]])
        OBVIOUS
      <4> DEFINE k == Max(T)
      <4>1. k \in D
        BY <1>4
      <4> HIDE DEF k
      <4>2. list[k] = k
        BY <1>1, <4>1
      <4>3. chan[k] = p.first + k - 1 /\ val[k] = FromWire(p.data[k])
        BY <4>1 DEF ReportChannels, ReportValues
      <4> HIDE DEF list, chan, val
      <4> QED
        BY <4>2, <4>3 DEF k
    <3> QED
      BY <3>1 DEF HandOne
  <2> HIDE DEF base, chan, val, D, E
  <2>3. ReportedReadings(p) = (CHOOSE h : Hands(h, M, p.from, chan, val, {}, base, D))[E]
    BY <2>1, <2>2
  <2>4. E = D
    BY <1>1 DEF E
  <2> QED
    BY <2>3, <2>4
<1> HIDE DEF n, chan, val, base
<1>6. Hands(f, M, p.from, chan, val, {}, base, D)
  BY <1>0, <1>1, <1>2, <1>3, HandsExist
<1> HIDE DEF f
<1> QED
  BY <1>3, <1>5, <1>6 DEF n, chan, val, base

(* A remote station has sensors of its own only.                           *)
LEMMA RemotesOwn ==
  ASSUME NEW r \in SensorRemotes, NEW i \in DOMAIN SensorsOf[r]
  PROVE  SensorsOf[r][i].station = r
<1>1. r \in AllStations
  BY DEF AllStations
<1>2. StationsToPoll(r) = <<r>>
  BY PollAssumption DEF PollAssumption
<1>3. PICK p \in 1 .. Len(StationsToPoll(r)) : StationsToPoll(r)[p] = SensorsOf[r][i].station
  BY <1>1, StationsOfSensors
<1> QED
  BY <1>2, <1>3

(* What a station's hardware reads is attributed to its sensors.           *)
LEMMA OwnAreGood ==
  ASSUME NEW s \in AllStations, last[s] \in GoodLists(s), NEW v,
         NEW failed,
         \A c \in ToSet(ChannelsOf[s]) : v[c] \in Shows(s, c)
  PROVE  OwnReadings(s, v, failed) \in GoodResults(s)
<1> DEFINE B == GoodResults(s)
<1>1. last[s] \in Lists(s)
  BY DEF GoodLists
<1>2. Before(s) \in B
  BY DEF Before, GoodResults
<1>3. ASSUME NEW c \in ToSet(ChannelsOf[s]), NEW b \in B \cap Results(s),
             c \in Nat, v[c] \in WireReadings
      PROVE  ReportSensorReading(s, b, s, c, v[c]) \in B
  <2>1. ASSUME NEW i \in EntriesOf(s, s, c)
        PROVE  v[c] \in May(s, i)
    <3>1. SensorsOf[s][i].station = s /\ SensorsOf[s][i].channel = c
      BY DEF EntriesOf
    <3>2. v[c] \in ShownBy(s, c)
      BY <1>3 DEF ShownBy
    <3> QED
      BY <3>1, <3>2 DEF May, HardwareOf
  <2> QED
    BY <1>3, <2>1, OneGood
<1> HIDE DEF B
<1>4. OwnReadings(s, v, failed) \in B \cap Results(s)
  BY <1>1, <1>2, <1>3, OwnStays
<1> QED
  BY <1>4 DEF B

(* What a report says of entry j of the list of r.                         *)
Mentions(p, r, j) == p.from = r /\ p.first < j /\ j <= p.first + Len(p.data)
Tells(p, j) == FromWire(p.data[j - p.first])

(* The entry of the master's list that takes the readings of its sensor.   *)
IsFirst(i) ==
  \A k \in DOMAIN SensorsOf[SensorMaster] :
    /\ SensorsOf[SensorMaster][k].station = SensorsOf[SensorMaster][i].station
    /\ SensorsOf[SensorMaster][k].channel = SensorsOf[SensorMaster][i].channel
    => i <= k

(* The place of an entry is a number from 1, its station one of all.       *)
LEMMA Places ==
  ASSUME NEW i \in DOMAIN SensorsOf[SensorMaster]
  PROVE  /\ i \in Nat \ {0} /\ Place(i) \in Nat \ {0} /\ Of(i) \in AllStations
         /\ SensorsOf[SensorMaster][i].channel \in Nat
         /\ SensorsOf[SensorMaster][i].channel + 1 = Place(i)
BY SensorLists, OrderNames DEF Place, Of, AllStations

(* A report changes exactly the first entries it mentions.                 *)
LEMMA ReportTells ==
  ASSUME NEW r \in SensorRemotes, NEW p \in GoodReports(r),
         last[SensorMaster] \in Lists(SensorMaster),
         NEW i \in DOMAIN SensorsOf[SensorMaster]
  PROVE  /\ ReportedReadings(p) \in Results(SensorMaster)
         /\ ReportedReadings(p).list[i] =
              IF IsFirst(i) /\ Mentions(p, Of(i), Place(i)) THEN Tells(p, Place(i))
              ELSE last[SensorMaster][i]
<1> DEFINE M == SensorMaster
           n == Len(p.data)
           D == 1 .. n
           c == [T \in SUBSET D |-> Max(T)]
           nth == Place(i) - p.first
           chan == ReportChannels(p)
           val == ReportValues(p)
           base == Before(M)
<1>0. M \in AllStations /\ last[M] \in Lists(M)
  BY DEF AllStations
<1>1. /\ n \in Nat /\ p.first \in Nat
      /\ chan \in [1 .. n -> Nat] /\ val \in [1 .. n -> WireReadings]
  BY ReportHas
<1>2. PICK f : /\ base \in Results(M)
               /\ Hands(f, M, p.from, chan, val, {}, base, D)
               /\ ReportedReadings(p) = f[D]
  BY <1>0, ReportIsSeries
<1>3. \A T \in SUBSET D :
        f[T] = IF T = {} THEN base
               ELSE ReportSensorReading(M, f[T \ {Max(T)}], p.from, chan[Max(T)], val[Max(T)])
  BY <1>2 DEF Hands, HandOne
<1>4. Place(i) \in Nat \ {0} /\ Place(i) = SensorsOf[M][i].channel + 1
  BY <1>0, SensorLists DEF Place
<1>5. \A T \in SUBSET D : T # {} => Max(T) \in T
  BY <1>1, MaxChooses
<1>6. Chooses(c, D)
  BY <1>5 DEF Chooses
<1> DEFINE Good == {T \in SUBSET D :
                      /\ f[T] \in Results(M)
                      /\ f[T].list[i] = IF IsFirst(i) /\ Of(i) = p.from /\ nth \in T
                                        THEN Tells(p, Place(i)) ELSE last[M][i]}
<1> HIDE DEF n, chan, val, base
<1>7. {} \in Good
  <2>1. f[{}] = base /\ {} \in SUBSET D
    BY <1>3
  <2>2. base.list = last[M]
    BY DEF base, Before
  <2>3. f[{}] \in Results(M) /\ f[{}].list[i] = last[M][i]
    BY <1>2, <2>1, <2>2
  <2> HIDE DEF nth, D
  <2> QED
    BY <2>1, <2>3
<1>8. ASSUME NEW T \in SUBSET D, T # {}, T \ {c[T]} \in Good
      PROVE  T \in Good
  <2> DEFINE k == Max(T)
             b == f[T \ {Max(T)}]
  <2>1. k \in D /\ k \in T /\ c[T] = k
    BY <1>5, <1>8
  <2>2. /\ b \in Results(M)
        /\ b.list[i] = IF IsFirst(i) /\ Of(i) = p.from /\ nth \in T \ {k}
                      THEN Tells(p, Place(i)) ELSE last[M][i]
    BY <1>8, <2>1
  <2>3. f[T] = ReportSensorReading(M, b, p.from, chan[k], val[k])
    BY <1>3, <1>8
  <2> HIDE DEF k, b, D, c, Good
  <2>4. /\ k \in 1 .. n
        /\ chan[k] = p.first + k - 1 /\ val[k] = FromWire(p.data[k])
        /\ chan[k] \in Nat /\ val[k] \in WireReadings
    <3>1. k \in 1 .. n
      BY <2>1 DEF D
    <3> QED
      BY <1>1, <3>1 DEF chan, val, n, ReportChannels, ReportValues
  <2>5. f[T] \in Results(M) /\ Takes(M, b, p.from, chan[k], val[k], f[T])
    BY <1>0, <2>2, <2>3, <2>4, OneReading
  <2>6. b.list \in Lists(M)
    BY <2>2 DEF Results
  <2>7. i \in EntriesOf(M, p.from, chan[k]) <=> Of(i) = p.from /\ nth = k
    <3>1. i \in EntriesOf(M, p.from, chan[k]) <=> Of(i) = p.from /\ SensorsOf[M][i].channel = chan[k]
      BY DEF EntriesOf, Of
    <3> DEFINE x == SensorsOf[M][i].channel
    <3>2. x \in Nat /\ k \in Nat /\ p.first \in Nat /\ nth = x + 1 - p.first
      <4>1. x \in Nat
        BY <1>0, SensorLists
      <4>2. k \in Nat
        BY <1>1, <2>4
      <4>3. nth = x + 1 - p.first
        <5> DEFINE y == p.first
                   z == Place(i)
        <5>1. z = x + 1 /\ y \in Nat
          BY <1>1, <1>4
        <5> HIDE DEF x, y, z
        <5>2. z - y = x + 1 - y
          BY <4>1, <5>1
        <5> QED
          BY <5>2 DEF y, z
      <4> QED
        BY <1>1, <4>1, <4>2, <4>3
    <3> HIDE DEF x, nth
    <3>3. x = chan[k] <=> nth = k
      BY <2>4, <3>2
    <3> QED
      BY <3>1, <3>3 DEF x
  <2> DEFINE mine == EntriesOf(M, p.from, chan[k])
  <2>8. CASE i \in mine /\ IsFirst(i)
    <3>1. \A e \in mine : i <= e
      BY <2>8 DEF IsFirst, EntriesOf
    <3>2. PICK e \in mine : (\A d \in mine : e <= d) /\ f[T].list = [b.list EXCEPT ![e] = val[k]]
      BY <2>5, <2>8 DEF Takes
    <3>3. e \in Nat /\ i \in Nat
      BY <1>0, SensorLists DEF EntriesOf
    <3>4. e = i
      BY <2>8, <3>1, <3>2, <3>3
    <3>5. f[T].list[i] = val[k]
      BY <2>6, <3>2, <3>4 DEF Lists
    <3>6. Of(i) = p.from /\ nth \in T /\ val[k] = Tells(p, Place(i))
      BY <2>1, <2>4, <2>7, <2>8 DEF Tells
    <3> QED
      BY <2>5, <2>8, <3>5, <3>6 DEF Good
  <2>9. CASE ~(i \in mine /\ IsFirst(i))
    <3>1. f[T].list[i] = b.list[i]
      <4>1. CASE f[T] = b
        BY <4>1
      <4>2. CASE f[T] # b
        <5>1. PICK e \in mine : (\A d \in mine : e <= d) /\ f[T].list = [b.list EXCEPT ![e] = val[k]]
          BY <2>5, <4>2 DEF Takes
        <5>2. e # i
          <6>1. CASE i \notin mine
            BY <6>1
          <6>2. CASE i \in mine /\ e = i
            <7>1. IsFirst(i)
              BY <5>1, <6>2 DEF IsFirst, EntriesOf
            <7> QED
              BY <2>9, <6>2, <7>1
          <6> QED
            BY <6>1, <6>2
        <5> QED
          BY <2>6, <5>1, <5>2 DEF Lists
      <4> QED
        BY <4>1, <4>2
    <3>2. (IsFirst(i) /\ Of(i) = p.from /\ nth \in T)
            <=> (IsFirst(i) /\ Of(i) = p.from /\ nth \in T \ {k})
      BY <2>7, <2>9
    <3> QED
      BY <2>2, <2>5, <3>1, <3>2 DEF Good
  <2> QED
    BY <2>8, <2>9
<1>9. Closed(Good, c, D)
  <2>1. \A T \in SUBSET D : T # {} /\ T \ {c[T]} \in Good => T \in Good
    <3> HIDE DEF Good, c, D
    <3> QED
      BY <1>8
  <2> HIDE DEF Good, c, D
  <2> QED
    BY <1>7, <2>1 DEF Closed
<1>10. IsFiniteSet(D)
  BY <1>1, FS_Interval
<1>11. D \in Good
  <2>1. D \in SUBSET D
    OBVIOUS
  <2>2. SUBSET D \subseteq Good
    <3> HIDE DEF Good, c, D
    <3> QED
      BY <1>6, <1>9, <1>10, SubsetInduction
  <2> QED
    BY <2>1, <2>2
<1>12. Of(i) = p.from /\ nth \in D <=> Mentions(p, Of(i), Place(i))
  BY <1>1, <1>4 DEF Mentions, n
<1>13. f[D] \in Results(M)
       /\ f[D].list[i] = IF IsFirst(i) /\ Of(i) = p.from /\ nth \in D THEN Tells(p, Place(i))
                         ELSE last[M][i]
  <2> HIDE DEF D, nth
  <2> QED
    BY <1>11 DEF Good
<1> HIDE DEF D, nth
<1> QED
  BY <1>2, <1>12, <1>13

(* Those entries are the ones a report has reported.                       *)
LEMMA ReportedIs ==
  ASSUME NEW r \in SensorRemotes, NEW p \in GoodReports(r),
         NEW i \in DOMAIN SensorsOf[SensorMaster]
  PROVE  i \in Reported(p) <=> IsFirst(i) /\ Mentions(p, Of(i), Place(i))
<1> DEFINE M == SensorMaster
           x == SensorsOf[M][i].channel
<1>1. /\ Len(p.data) \in Nat /\ DOMAIN p.data = 1 .. Len(p.data) /\ p.first \in Nat
      /\ x \in Nat /\ x + 1 = Place(i)
  BY ReportHas, Places
<1>2. i \in Reported(p) <=>
        \E j \in DOMAIN p.data :
          /\ Of(i) = p.from /\ x = p.first + j - 1
          /\ \A k \in EntriesOf(M, p.from, p.first + j - 1) : i <= k
  BY DEF Reported, EntriesOf, Of
<1> HIDE DEF x
<1>3. \A j : x = p.first + j - 1 /\ Of(i) = p.from =>
        (IsFirst(i) <=> \A k \in EntriesOf(M, p.from, p.first + j - 1) : i <= k)
  BY DEF IsFirst, EntriesOf, Of, x
<1>4. ASSUME i \in Reported(p)
      PROVE  IsFirst(i) /\ Mentions(p, Of(i), Place(i))
  <2>1. PICK j \in DOMAIN p.data :
          /\ Of(i) = p.from /\ x = p.first + j - 1
          /\ \A k \in EntriesOf(M, p.from, p.first + j - 1) : i <= k
    BY <1>2, <1>4
  <2>2. p.first < x + 1 /\ x + 1 <= p.first + Len(p.data)
    BY <1>1, <2>1
  <2> QED
    BY <1>1, <1>3, <2>1, <2>2 DEF Mentions
<1>5. ASSUME IsFirst(i), Mentions(p, Of(i), Place(i))
      PROVE  i \in Reported(p)
  <2> DEFINE j == x + 1 - p.first
  <2>1. Of(i) = p.from /\ p.first < x + 1 /\ x + 1 <= p.first + Len(p.data)
    BY <1>1, <1>5 DEF Mentions
  <2>2. j \in DOMAIN p.data /\ x = p.first + j - 1
    BY <1>1, <2>1
  <2> HIDE DEF j
  <2> QED
    BY <1>2, <1>3, <1>5, <2>1, <2>2
<1> QED
  BY <1>4, <1>5

(* What a station reports of a sensor of its own the master may show.      *)
LEMMA ToldIsGood ==
  ASSUME NEW r \in SensorRemotes, NEW p \in GoodReports(r),
         NEW i \in DOMAIN SensorsOf[SensorMaster], Mentions(p, r, Place(i)), Of(i) = r
  PROVE  Tells(p, Place(i)) \in May(SensorMaster, i)
<1> DEFINE M == SensorMaster
           k == Place(i) - p.first
<1>0. M \in AllStations /\ r \in AllStations /\ r # M
  BY SensorAssumption DEF SensorAssumption, AllStations
<1>1. p.first \in Nat /\ Len(p.data) \in Nat /\ Place(i) \in Nat
  BY ReportHas, Places
<1>2. k \in 1 .. Len(p.data) /\ p.first + k = Place(i)
  BY <1>1 DEF Mentions
<1>3. Place(i) \in DOMAIN SensorsOf[r] /\ Tells(p, Place(i)) \in May(r, Place(i))
  <2> HIDE DEF k
  <2>1. p.first + k \in DOMAIN SensorsOf[r] /\ FromWire(p.data[k]) \in May(r, p.first + k)
    BY <1>2, ReportHas
  <2> QED
    BY <1>2, <2>1 DEF Tells, k
<1>4. May(M, i) = ShownBy(r, SensorsOf[r][Place(i)].channel)
  BY <1>0 DEF May, HardwareOf, Of, Place
<1>5. SensorsOf[r][Place(i)].station = r
  BY <1>3, RemotesOwn
<1>6. May(r, Place(i)) = ShownBy(r, SensorsOf[r][Place(i)].channel)
  BY <1>0, <1>5 DEF May
<1> QED
  BY <1>3, <1>4, <1>6

-----------------------------------------------------------------------------
(* The types *)

(* A poll is of the station itself or, on the master, of a remote.         *)
LEMMA PollsOf ==
  ASSUME NEW s \in AllStations, NEW k \in 1 .. Len(StationsToPoll(s)),
         StationsToPoll(s)[k] # s
  PROVE  s = SensorMaster /\ StationsToPoll(s)[k] \in SensorRemotes
<1>1. StationsToPoll(s) \in Seq(AllStations)
  BY StationsOfSensors
<1>2. StationsToPoll(s)[k] \in AllStations
  BY <1>1
<1>3. CASE s \in SensorRemotes
  <2>1. StationsToPoll(s) = <<s>>
    BY <1>3, PollAssumption DEF PollAssumption
  <2> QED
    BY <2>1
<1>4. CASE s = SensorMaster
  BY <1>2, <1>4 DEF AllStations
<1> QED
  BY <1>3, <1>4 DEF AllStations

(* What a minute does to the readings and the packets: nothing, the        *)
(* station's own readings, or a request.                                   *)
LEMMA MinuteReads ==
  ASSUME CountersGood, NEW s \in AllStations, PollMinTimer(s)
  PROVE  \/ UNCHANGED <<last, toRemote, toMaster, source, misled>>
         \/ \E v, failed :
              /\ \A c \in ToSet(ChannelsOf[s]) : v[c] \in Shows(s, c)
              /\ After(s, OwnReadings(s, v, failed)) /\ UNCHANGED <<toRemote, source, misled>>
         \/ \E p \in SensorRemotes : PollStationSensors(p)
<1> DEFINE list == StationsToPoll(s)
           poll == PollFrom(s)
           now == poll <= Len(list)
<1>1. CASE ~now
  BY <1>1 DEF PollMinTimer
<1>2. CASE now /\ list[poll] = s
  <2>1. ReadHardware(s)
    BY <1>2 DEF PollMinTimer
  <2>2. PICK failed \in {{}, Silent[s]}, unset \in {{}, Unsure[s]},
             v \in [ToSet(ChannelsOf[s]) ->
                     Garbage \cup UNION {ValuesOf[s][c] : c \in ToSet(ChannelsOf[s])}] :
          /\ \A c \in DOMAIN v : v[c] \in IF c \in unset THEN Garbage ELSE ValuesOf[s][c]
          /\ After(s, OwnReadings(s, v, failed))
    BY <2>1 DEF ReadHardware
  <2>3. \A c \in ToSet(ChannelsOf[s]) : v[c] \in Shows(s, c)
    BY <2>2 DEF Shows
  <2>4. UNCHANGED <<toRemote, source, misled>>
    BY <2>1 DEF ReadHardware
  <2> QED
    BY <2>2, <2>3, <2>4
<1>3. CASE now /\ list[poll] # s
  <2>1. list \in Seq(AllStations)
    BY StationsOfSensors
  <2>2. PollFrom(s) \in Nat \ {0}
    BY DEF CountersGood, PollFrom
  <2>3. poll \in 1 .. Len(list)
    BY <1>3, <2>1, <2>2
  <2>4. list[poll] \in SensorRemotes
    BY <1>3, <2>3, PollsOf
  <2>5. PollStationSensors(list[poll])
    BY <1>3 DEF PollMinTimer
  <2> QED
    BY <2>4, <2>5
<1> QED
  BY <1>1, <1>2, <1>3

(* The fresh readings of a station are good ones.                          *)
LEMMA ZerosAreGood ==
  ASSUME NEW s \in AllStations
  PROVE  Zeros(s) \in GoodLists(s) /\ Zeros(s) \in Lists(s)
<1>1. Zeros(s) \in Lists(s)
  BY ZeroReading DEF Zeros, Lists
<1> QED
  BY <1>1, MayShow DEF Zeros, GoodLists

(* The types hold in the initial states.                                   *)
LEMMA TypesInit == SensorInit => SensorTypes
<1> SUFFICES ASSUME SensorInit
             PROVE  SensorTypes
  OBVIOUS
<1>0. SensorMaster \in AllStations /\ SensorRemotes \subseteq AllStations /\ MaxFlight \in Nat
  BY SensorAssumption DEF SensorAssumption, AllStations
<1>1. ListsGood
  <2>1. /\ last = [s \in AllStations |-> Zeros(s)]
        /\ source = [i \in DOMAIN SensorsOf[SensorMaster] |-> NoRadio]
    BY DEF SensorInit
  <2>2. \A s \in AllStations : last[s] \in GoodLists(s) /\ last[s] \in Lists(s)
    BY <2>1, ZerosAreGood
  <2>3. \A i \in DOMAIN SensorsOf[SensorMaster] :
          last[SensorMaster][i] \in May(SensorMaster, i)
    BY <1>0, <2>2 DEF GoodLists
  <2> QED
    BY <1>0, <2>1, <2>2, <2>3 DEF ListsGood, Sure
<1>2. PacketsGood
  BY <1>0 DEF SensorInit, PacketsGood
<1>3. CountersGood
  <2>1. \A s \in AllStations : REPEAT[s] \in Nat /\ Len(StationsToPoll(s)) \in Nat
    BY PollAssumption, StationsOfSensors DEF PollAssumption
  <2>2. \A s \in AllStations :
          minutes[s] <= REPEAT[s] /\ nPoll[s] <= Len(StationsToPoll(s)) + 1
    BY <2>1 DEF SensorInit
  <2> QED
    BY <2>2 DEF SensorInit, CountersGood
<1> QED
  BY <1>1, <1>2, <1>3 DEF SensorTypes

(* Lists that no one touches stay good, as more requests go astray.        *)
LEMMA ListsStay ==
  ASSUME ListsGood, PacketsGood, UNCHANGED <<last, source>>,
         \A p \in AllStations : misled[p] => misled'[p]
  PROVE  ListsGood'
<1>1. \A i \in DOMAIN SensorsOf[SensorMaster] : Of(i) \in AllStations
  BY Places
<1> QED
  BY <1>1 DEF ListsGood, Sure

(* What a station reads keeps the lists good.                              *)
LEMMA OwnKeepsLists ==
  ASSUME ListsGood, NEW s \in AllStations, NEW v, NEW failed,
         \A c \in ToSet(ChannelsOf[s]) : v[c] \in Shows(s, c),
         After(s, OwnReadings(s, v, failed)), UNCHANGED <<source, misled>>
  PROVE  ListsGood'
<1> DEFINE M == SensorMaster
           result == OwnReadings(s, v, failed)
<1>0. M \in AllStations /\ DOMAIN last = AllStations /\ last[s] \in Lists(s)
  BY DEF ListsGood, AllStations
<1>1. result \in Results(s)
  <2> DEFINE B == Results(s)
  <2>1. Before(s) \in B
    BY <1>0 DEF Before, Results
  <2>2. \A c \in ToSet(ChannelsOf[s]), b \in B \cap Results(s) :
          c \in Nat /\ v[c] \in WireReadings => ReportSensorReading(s, b, s, c, v[c]) \in B
    BY OneReading
  <2> HIDE DEF B
  <2>3. result \in B \cap Results(s)
    BY <1>0, <2>1, <2>2, OwnStays
  <2> QED
    BY <2>3
<1>2. last' = [last EXCEPT ![s] = result.list]
  BY DEF After
<1>3. result.list \in Lists(s)
  BY <1>1 DEF Results
<1>4. \A t \in AllStations : last'[t] \in Lists(t)
  <2> HIDE DEF result
  <2> QED
    BY <1>0, <1>2, <1>3 DEF ListsGood
<1>5. ASSUME NEW r \in SensorRemotes
      PROVE  last'[r] \in GoodLists(r)
  <2>1. r \in AllStations
    BY DEF AllStations
  <2>2. CASE s = r
    <3>1. result \in GoodResults(r)
      BY <2>1, <2>2, OwnAreGood DEF ListsGood
    <3>2. result.list \in GoodLists(r)
      BY <3>1 DEF GoodResults
    <3> QED
      BY <1>0, <1>2, <2>2, <3>2
  <2>3. CASE s # r
    BY <1>0, <1>2, <2>1, <2>3 DEF ListsGood
  <2> QED
    BY <2>2, <2>3
<1>6. ASSUME NEW i \in DOMAIN SensorsOf[M], Sure(i)
      PROVE  last'[M][i] \in May(M, i)
  <2>1. last[M][i] \in May(M, i)
    BY <1>6 DEF ListsGood
  <2>2. CASE s # M
    BY <1>0, <1>2, <2>1, <2>2
  <2>3. CASE s = M
    <3>1. ASSUME NEW c \in ToSet(ChannelsOf[M]), i \in EntriesOf(M, M, c)
          PROVE  v[c] \in May(M, i)
      <4>1. SensorsOf[M][i].station = M /\ SensorsOf[M][i].channel = c
        BY <3>1 DEF EntriesOf
      <4>2. v[c] \in ShownBy(M, c)
        BY <1>0, <2>3, ShowsReadings DEF ShownBy
      <4> QED
        BY <4>1, <4>2 DEF May, HardwareOf
    <3>2. OwnReadings(M, v, failed).list[i] \in May(M, i)
      <4> DEFINE S == May(M, i)
      <4>1. \A c \in ToSet(ChannelsOf[M]) : i \in EntriesOf(M, M, c) => v[c] \in S
        BY <3>1
      <4>2. last[M][i] \in S
        BY <2>1
      <4> HIDE DEF S
      <4>3. OwnReadings(M, v, failed).list[i] \in S
        BY <1>0, <2>3, <4>1, <4>2, OwnEntry
      <4> QED
        BY <4>3 DEF S
    <3> QED
      BY <1>0, <1>2, <2>3, <3>2
  <2> QED
    BY <2>2, <2>3
<1>7. \A i \in DOMAIN SensorsOf[M] : Sure(i)' <=> Sure(i)
  BY DEF Sure
<1> HIDE DEF result
<1> QED
  BY <1>0, <1>2, <1>4, <1>5, <1>6, <1>7 DEF ListsGood

(* A report keeps the lists good.                                          *)
LEMMA ReportKeepsLists ==
  ASSUME ListsGood, PacketsGood, NEW r \in SensorRemotes, MessageSensorsReport(r)
  PROVE  ListsGood'
<1> DEFINE M == SensorMaster
           p == Head(toMaster[r])
<1>0. /\ M \in AllStations /\ DOMAIN last = AllStations /\ r \in AllStations /\ r # M
      /\ last[M] \in Lists(M) /\ r # NoRadio
  BY SensorAssumption DEF ListsGood, AllStations, SensorAssumption
<1>1. p \in Told(r)
  <2>1. toMaster[r] \in Seq(Told(r)) /\ toMaster[r] # << >>
    BY DEF PacketsGood, MessageSensorsReport
  <2> QED
    BY <2>1
<1>2. p \in GoodReports(r) /\ (p.from = r \/ misled[p.from])
  BY <1>1 DEF Told
<1>3. /\ last' = [last EXCEPT ![M] = ReportedReadings(p).list]
      /\ source' = [i \in DOMAIN source |-> IF i \in Reported(p) THEN r ELSE source[i]]
      /\ misled' = misled
  BY DEF MessageSensorsReport
<1> HIDE DEF p
<1>4. \A i \in DOMAIN SensorsOf[M] :
        /\ ReportedReadings(p) \in Results(M)
        /\ ReportedReadings(p).list[i] =
             IF IsFirst(i) /\ Mentions(p, Of(i), Place(i)) THEN Tells(p, Place(i))
             ELSE last[M][i]
        /\ i \in Reported(p) <=> IsFirst(i) /\ Mentions(p, Of(i), Place(i))
  BY <1>0, <1>2, ReportTells, ReportedIs
<1>5. ReportedReadings(p).list \in Lists(M)
  <2>1. PICK f : /\ Before(M) \in Results(M)
                 /\ Hands(f, M, p.from, ReportChannels(p), ReportValues(p), {}, Before(M),
                          1 .. Len(p.data))
                 /\ ReportedReadings(p) = f[1 .. Len(p.data)]
    BY <1>0, <1>2, ReportIsSeries
  <2>2. /\ Len(p.data) \in Nat
        /\ ReportChannels(p) \in [1 .. Len(p.data) -> Nat]
        /\ ReportValues(p) \in [1 .. Len(p.data) -> WireReadings]
    BY <1>2, ReportHas
  <2> DEFINE n == Len(p.data)
             chan == ReportChannels(p)
             val == ReportValues(p)
             B == Results(M)
  <2> HIDE DEF n, chan, val, B
  <2>3. Keeps(B, M, p.from, chan, val, n)
    BY <1>0, <2>2, OneReading DEF Keeps, B, n, chan, val
  <2>4. \A T \in SUBSET (1 .. n) : f[T] \in B \cap Results(M)
    <3>1. Before(M) \in B
      BY <2>1 DEF B
    <3>2. Hands(f, M, p.from, chan, val, {}, Before(M), 1 .. n)
      BY <2>1 DEF n, chan, val
    <3>3. n \in Nat /\ chan \in [1 .. n -> Nat] /\ val \in [1 .. n -> WireReadings]
      BY <2>2 DEF n, chan, val
    <3> QED
      BY <1>0, <2>1, <2>3, <3>1, <3>2, <3>3, HandsStay
  <2>5. f[1 .. n] \in Results(M)
    BY <2>4
  <2> QED
    BY <2>1, <2>5 DEF n, Results
<1>6. ASSUME NEW i \in DOMAIN SensorsOf[M]
      PROVE  /\ Sure(i)' => last'[M][i] \in May(M, i)
             /\ Sure(i)' \/ misled'[Of(i)]
  <2>1. /\ Sure(i) => last[M][i] \in May(M, i)
        /\ Sure(i) \/ misled[Of(i)]
    BY DEF ListsGood
  <2>2. DOMAIN source = DOMAIN SensorsOf[M]
    BY DEF ListsGood
  <2>3. CASE i \in Reported(p)
    <3>1. last'[M][i] = Tells(p, Place(i)) /\ source'[i] = r /\ Mentions(p, Of(i), Place(i))
      BY <1>0, <1>3, <1>4, <2>2, <2>3
    <3>2. p.from = Of(i)
      BY <3>1 DEF Mentions
    <3>3. CASE Of(i) = r
      <4>1. Tells(p, Place(i)) \in May(M, i)
        BY <1>2, <3>1, <3>3, ToldIsGood
      <4> QED
        BY <3>1, <3>3, <4>1 DEF Sure
    <3>4. CASE Of(i) # r
      <4>1. misled[Of(i)]
        BY <1>2, <3>2, <3>4
      <4>2. ~Sure(i)'
        BY <1>0, <3>1, <3>4 DEF Sure, Of
      <4> QED
        BY <1>3, <4>1, <4>2
    <3> QED
      BY <3>3, <3>4
  <2>4. CASE i \notin Reported(p)
    <3>1. last'[M][i] = last[M][i] /\ source'[i] = source[i]
      BY <1>0, <1>3, <1>4, <2>2, <2>4
    <3> QED
      BY <1>3, <2>1, <3>1 DEF Sure
  <2> QED
    BY <2>3, <2>4
<1>7. \A s \in AllStations : last'[s] \in Lists(s)
  BY <1>0, <1>3, <1>5 DEF ListsGood
<1>8. \A s \in SensorRemotes : last'[s] \in GoodLists(s)
  <2>1. \A s \in SensorRemotes : s \in AllStations /\ s # M
    BY SensorAssumption DEF AllStations, SensorAssumption
  <2> QED
    BY <1>0, <1>3, <2>1 DEF ListsGood
<1>9. DOMAIN last' = AllStations /\ DOMAIN source' = DOMAIN SensorsOf[M]
  BY <1>0, <1>3 DEF ListsGood
<1> QED
  BY <1>6, <1>7, <1>8, <1>9 DEF ListsGood

(* A restart keeps the lists good.                                         *)
LEMMA RestartKeepsLists ==
  ASSUME ListsGood, NEW s \in AllStations, Restart(s)
  PROVE  ListsGood'
<1> DEFINE M == SensorMaster
<1>0. M \in AllStations /\ DOMAIN last = AllStations /\ SensorRemotes \subseteq AllStations
  BY DEF ListsGood, AllStations
<1>1. last' = [last EXCEPT ![s] = Zeros(s)] /\ misled' = misled
  BY DEF Restart
<1>2. \A t \in AllStations : last'[t] \in Lists(t)
  BY <1>0, <1>1, ZerosAreGood DEF ListsGood
<1>3. \A t \in SensorRemotes : last'[t] \in GoodLists(t)
  BY <1>0, <1>1, ZerosAreGood DEF ListsGood
<1>4. CASE s = M
  <2>1. source' = [i \in DOMAIN source |-> NoRadio]
    BY <1>4 DEF Restart
  <2>2. last'[M] \in GoodLists(M)
    BY <1>0, <1>1, <1>4, ZerosAreGood
  <2>3. \A i \in DOMAIN SensorsOf[M] : last'[M][i] \in May(M, i) /\ Sure(i)'
    BY <2>1, <2>2 DEF GoodLists, Sure, ListsGood
  <2> QED
    BY <1>0, <1>1, <1>2, <1>3, <2>1, <2>3 DEF ListsGood
<1>5. CASE s # M
  <2>1. source' = source /\ last'[M] = last[M]
    BY <1>0, <1>1, <1>5 DEF Restart
  <2>2. \A i \in DOMAIN SensorsOf[M] : Sure(i)' <=> Sure(i)
    BY <2>1 DEF Sure
  <2> QED
    BY <1>0, <1>1, <1>2, <1>3, <2>1, <2>2 DEF ListsGood
<1> QED
  BY <1>4, <1>5

(* As more requests go astray, more reports may come from others.          *)
LEMMA MoreMisled ==
  ASSUME PacketsGood, \A p \in AllStations : misled[p] => misled'[p], NEW r \in SensorRemotes
  PROVE  /\ AskedOf(r) \subseteq AskedOf(r)' /\ Told(r) \subseteq Told(r)'
         /\ toRemote[r] \in Seq(AskedOf(r)') /\ toMaster[r] \in Seq(Told(r)')
<1>1. AskedOf(r) \subseteq AskedOf(r)'
  BY DEF AskedOf, AllStations
<1>2. Told(r) \subseteq Told(r)'
  BY DEF Told, GoodReports, Reports
<1>3. toRemote[r] \in Seq(AskedOf(r)) /\ toMaster[r] \in Seq(Told(r))
  BY DEF PacketsGood
<1> DEFINE A == AskedOf(r)
           B == AskedOf(r)'
           C == Told(r)
           D == Told(r)'
<1> HIDE DEF A, B, C, D
<1>4. \A S, T : S \subseteq T => Seq(S) \subseteq Seq(T)
  BY SeqMonotonic
<1>5. Seq(A) \subseteq Seq(B) /\ Seq(C) \subseteq Seq(D)
  BY <1>1, <1>2, <1>4 DEF A, B, C, D
<1> QED
  BY <1>1, <1>2, <1>3, <1>5 DEF A, B, C, D

(* A station's own readings are reported in its own name.                  *)
LEMMA OwnKeepsPackets ==
  ASSUME ListsGood, PacketsGood, NEW s \in AllStations, NEW v, NEW failed,
         \A c \in ToSet(ChannelsOf[s]) : v[c] \in Shows(s, c),
         After(s, OwnReadings(s, v, failed)), UNCHANGED <<toRemote, source, misled>>
  PROVE  PacketsGood'
<1> DEFINE result == OwnReadings(s, v, failed)
<1>1. CASE s = SensorMaster
  <2>1. UNCHANGED <<toRemote, toMaster, misled>>
    BY <1>1 DEF After
  <2> QED
    BY <2>1 DEF PacketsGood, AskedOf, Told
<1>2. CASE s # SensorMaster
  <2>1. s \in SensorRemotes
    BY <1>2 DEF AllStations
  <2>2. result \in GoodResults(s)
    BY <2>1, OwnAreGood DEF ListsGood
  <2>3. toMaster' = [toMaster EXCEPT ![s] = @ \o result.out] /\ Len(toMaster'[s]) <= MaxFlight
    BY <1>2 DEF After
  <2> HIDE DEF result
  <2>4. result.out \in Seq(Told(s))
    <3>1. result.out \in Seq(OwnReports(s))
      BY <2>2 DEF GoodResults
    <3>2. OwnReports(s) \subseteq Told(s)
      BY DEF OwnReports, Told
    <3> DEFINE S == OwnReports(s)
               T == Told(s)
    <3> HIDE DEF S, T
    <3>3. Seq(S) \subseteq Seq(T)
      BY <3>2, SeqMonotonic DEF S, T
    <3> QED
      BY <3>1, <3>3 DEF S, T
  <2>5. toMaster'[s] \in Seq(Told(s))
    <3> DEFINE T == Told(s)
    <3>1. toMaster[s] \in Seq(T) /\ toMaster'[s] = toMaster[s] \o result.out
      BY <2>1, <2>3 DEF PacketsGood
    <3>2. result.out \in Seq(T)
      BY <2>4
    <3> HIDE DEF T
    <3>3. toMaster'[s] \in Seq(T)
      BY <3>1, <3>2
    <3> QED
      BY <3>3 DEF T
  <2>6. \A r : Told(r)' = Told(r) /\ AskedOf(r)' = AskedOf(r)
    BY DEF Told, AskedOf
  <2>7. \A r \in SensorRemotes : toMaster'[r] \in Seq(Told(r)) /\ Len(toMaster'[r]) <= MaxFlight
    BY <2>3, <2>5 DEF PacketsGood
  <2> QED
    BY <2>3, <2>6, <2>7 DEF PacketsGood
<1> QED
  BY <1>1, <1>2

(* A request that reaches others is noted.                                 *)
LEMMA PollKeepsPackets ==
  ASSUME PacketsGood, NEW p \in SensorRemotes, PollStationSensors(p)
  PROVE  PacketsGood' /\ \A q \in AllStations : misled[q] => misled'[q]
<1>0. p \in AllStations /\ MaxFlight \in Nat
  BY SensorAssumption DEF SensorAssumption, AllStations
<1>1. PICK hearers \in Hearers(p) :
       /\ \A r \in hearers : Len(toRemote[r]) < MaxFlight
       /\ toRemote' = [r \in SensorRemotes |->
                         IF r \in hearers THEN Append(toRemote[r], p) ELSE toRemote[r]]
       /\ misled' = [misled EXCEPT ![p] = @ \/ hearers # {p}]
  BY DEF PollStationSensors
<1>2. misled' \in [AllStations -> BOOLEAN]
  BY <1>0, <1>1 DEF PacketsGood
<1>3. \A q \in AllStations : misled[q] => misled'[q]
  BY <1>0, <1>1 DEF PacketsGood
<1>4. ASSUME NEW r \in SensorRemotes
      PROVE  /\ toRemote'[r] \in Seq(AskedOf(r)') /\ Len(toRemote'[r]) <= MaxFlight
             /\ toMaster'[r] \in Seq(Told(r)') /\ Len(toMaster'[r]) <= MaxFlight
  <2> DEFINE A == AskedOf(r)'
  <2>1. /\ toRemote[r] \in Seq(A) /\ toMaster[r] \in Seq(Told(r)')
        /\ Len(toRemote[r]) <= MaxFlight /\ Len(toMaster[r]) <= MaxFlight
        /\ toMaster' = toMaster
    BY <1>3, MoreMisled DEF PacketsGood, PollStationSensors
  <2>2. CASE r \in hearers
    <3>1. p \in A
      <4>1. p = r \/ misled'[p]
        <5>1. misled'[p] = (misled[p] \/ hearers # {p})
          BY <1>0, <1>1 DEF PacketsGood
        <5>2. p # r => hearers # {p}
          BY <2>2
        <5> QED
          BY <5>1, <5>2
      <4> QED
        BY <4>1 DEF AskedOf
    <3>2. toRemote'[r] = Append(toRemote[r], p) /\ Len(toRemote[r]) < MaxFlight
      BY <1>1, <2>2
    <3> HIDE DEF A
    <3>3. toRemote'[r] \in Seq(A)
      BY <2>1, <3>1, <3>2
    <3>4. Len(toRemote'[r]) = Len(toRemote[r]) + 1 /\ Len(toRemote[r]) \in Nat
      BY <2>1, <3>1, <3>2
    <3> QED
      BY <1>0, <2>1, <3>2, <3>3, <3>4 DEF A
  <2>3. CASE r \notin hearers
    BY <1>1, <2>1, <2>3
  <2> QED
    BY <2>2, <2>3
<1>5. DOMAIN toRemote' = SensorRemotes /\ DOMAIN toMaster' = SensorRemotes
  BY <1>1 DEF PollStationSensors, PacketsGood
<1> QED
  BY <1>2, <1>3, <1>4, <1>5 DEF PacketsGood

(* A remote answers in the name of the station that was asked.             *)
LEMMA ReadKeepsPackets ==
  ASSUME ListsGood, PacketsGood, NEW r \in SensorRemotes, MessageSensorsRead(r)
  PROVE  PacketsGood'
<1>0. MaxFlight \in Nat /\ r \in AllStations
  BY SensorAssumption DEF SensorAssumption, AllStations
<1> DEFINE asked == Head(toRemote[r])
           p == [from |-> asked, first |-> 0,
                 data |-> [i \in DOMAIN last[r] |-> ToWire(last[r][i])]]
           n == Len(SensorsOf[r])
<1>1. asked \in AskedOf(r) /\ Tail(toRemote[r]) \in Seq(AskedOf(r))
      /\ Len(Tail(toRemote[r])) <= MaxFlight
  <2> DEFINE A == AskedOf(r)
  <2>1. toRemote[r] \in Seq(A) /\ toRemote[r] # << >> /\ Len(toRemote[r]) <= MaxFlight
    BY DEF PacketsGood, MessageSensorsRead
  <2> HIDE DEF A
  <2>2. Head(toRemote[r]) \in A /\ Tail(toRemote[r]) \in Seq(A)
        /\ Len(Tail(toRemote[r])) <= MaxFlight
    BY <1>0, <2>1
  <2> QED
    BY <2>2 DEF A
<1>2. /\ toRemote' = [toRemote EXCEPT ![r] = Tail(@)]
      /\ toMaster' = [toMaster EXCEPT ![r] = Append(@, p)]
      /\ Len(toMaster[r]) < MaxFlight /\ misled' = misled
  BY DEF MessageSensorsRead
<1> HIDE DEF asked
<1>3. asked \in SensorRemotes /\ asked \in AllStations /\ (asked = r \/ misled[asked])
  BY <1>1 DEF AskedOf, AllStations
<1>4. last[r] \in GoodLists(r) /\ last[r] \in Lists(r)
      /\ DOMAIN last[r] = 1 .. n /\ n \in Nat /\ DOMAIN SensorsOf[r] = 1 .. n
  BY <1>0, SensorLists DEF ListsGood, GoodLists, Lists
<1>5. \A i \in 1 .. n :
        /\ ToWire(last[r][i]) \in 0 .. READINGS - 1
        /\ FromWire(ToWire(last[r][i])) \in May(r, i)
  <2> SUFFICES ASSUME NEW i \in 1 .. n
               PROVE  /\ ToWire(last[r][i]) \in 0 .. READINGS - 1
                      /\ FromWire(ToWire(last[r][i])) \in May(r, i)
    OBVIOUS
  <2>1. last[r][i] \in WireReadings /\ last[r][i] \in May(r, i)
    BY <1>4 DEF GoodLists, Lists
  <2> QED
    BY <2>1, WireKeeps
<1>6. p.data \in [1 .. n -> 0 .. READINGS - 1] /\ p.first = 0
  BY <1>4, <1>5
<1>7. p.data \in Seq(0 .. READINGS - 1) /\ DOMAIN p.data = 1 .. n
  <2> DEFINE S == 0 .. READINGS - 1
  <2> HIDE DEF p, n, S
  <2>1. p.data \in Seq(S)
    <3>1. p.data \in [1 .. n -> S]
      BY <1>6 DEF S
    <3>2. \A T : Seq(T) = UNION {[1 .. m -> T] : m \in Nat}
      BY SeqDef
    <3> QED
      BY <1>4, <3>1, <3>2, Zenon
  <2> QED
    BY <1>6, <2>1 DEF S
<1>8. p \in GoodReports(r)
  <2>1. p \in Reports
    BY <1>3, <1>7 DEF Reports
  <2>2. \A k \in DOMAIN p.data : p.first + k = k /\ p.data[k] = ToWire(last[r][k])
    BY <1>4, <1>7
  <2> HIDE DEF p, n
  <2> QED
    BY <1>4, <1>5, <1>7, <2>1, <2>2 DEF GoodReports
<1>9. p \in Told(r)
  BY <1>3, <1>8 DEF Told
<1> HIDE DEF p, n
<1>10. toMaster'[r] \in Seq(Told(r)) /\ Len(toMaster'[r]) <= MaxFlight
  <2> DEFINE T == Told(r)
  <2>1. toMaster[r] \in Seq(T) /\ p \in T /\ toMaster'[r] = Append(toMaster[r], p)
    BY <1>2, <1>9 DEF PacketsGood
  <2> HIDE DEF T
  <2>2. toMaster'[r] \in Seq(T) /\ Len(toMaster'[r]) <= MaxFlight
    BY <1>0, <1>2, <2>1
  <2> QED
    BY <2>2 DEF T
<1>11. \A t : Told(t)' = Told(t) /\ AskedOf(t)' = AskedOf(t)
  BY <1>2 DEF Told, AskedOf
<1>12. \A t \in SensorRemotes :
         /\ toRemote'[t] \in Seq(AskedOf(t)) /\ Len(toRemote'[t]) <= MaxFlight
         /\ toMaster'[t] \in Seq(Told(t)) /\ Len(toMaster'[t]) <= MaxFlight
  BY <1>1, <1>2, <1>10 DEF PacketsGood
<1> QED
  BY <1>2, <1>11, <1>12 DEF PacketsGood

(* Packets that are taken or lost leave the others.                        *)
LEMMA TakenPackets ==
  ASSUME PacketsGood, NEW r \in SensorRemotes, misled' = misled,
         \/ /\ toMaster[r] # << >> /\ toMaster' = [toMaster EXCEPT ![r] = Tail(@)]
            /\ UNCHANGED toRemote
         \/ /\ toRemote[r] # << >> /\ toRemote' = [toRemote EXCEPT ![r] = Tail(@)]
            /\ UNCHANGED toMaster
  PROVE  PacketsGood'
<1>0. MaxFlight \in Nat
  BY SensorAssumption DEF SensorAssumption
<1>1. \A t : Told(t)' = Told(t) /\ AskedOf(t)' = AskedOf(t)
  BY DEF Told, AskedOf
<1>2. ASSUME NEW S, NEW q \in Seq(S), q # << >>, Len(q) <= MaxFlight
      PROVE  Tail(q) \in Seq(S) /\ Len(Tail(q)) <= MaxFlight
  BY <1>0, <1>2
<1>3. \A t \in SensorRemotes :
        /\ toRemote'[t] \in Seq(AskedOf(t)) /\ Len(toRemote'[t]) <= MaxFlight
        /\ toMaster'[t] \in Seq(Told(t)) /\ Len(toMaster'[t]) <= MaxFlight
  <2> SUFFICES ASSUME NEW t \in SensorRemotes
               PROVE  /\ toRemote'[t] \in Seq(AskedOf(t)) /\ Len(toRemote'[t]) <= MaxFlight
                      /\ toMaster'[t] \in Seq(Told(t)) /\ Len(toMaster'[t]) <= MaxFlight
    OBVIOUS
  <2>1. /\ toRemote[t] \in Seq(AskedOf(t)) /\ Len(toRemote[t]) <= MaxFlight
        /\ toMaster[t] \in Seq(Told(t)) /\ Len(toMaster[t]) <= MaxFlight
        /\ DOMAIN toRemote = SensorRemotes /\ DOMAIN toMaster = SensorRemotes
    BY DEF PacketsGood
  <2> DEFINE A == AskedOf(t)
             T == Told(t)
  <2> HIDE DEF A, T
  <2>2. CASE t # r
    BY <2>1, <2>2
  <2>3. CASE t = r /\ toMaster' = [toMaster EXCEPT ![r] = Tail(@)] /\ toMaster[r] # << >>
             /\ UNCHANGED toRemote
    BY <1>2, <2>1, <2>3
  <2>4. CASE t = r /\ toRemote' = [toRemote EXCEPT ![r] = Tail(@)] /\ toRemote[r] # << >>
             /\ UNCHANGED toMaster
    BY <1>2, <2>1, <2>4
  <2> QED
    BY <2>2, <2>3, <2>4
<1> QED
  BY <1>1, <1>3 DEF PacketsGood

(* A minute keeps the lists and the packets.                               *)
LEMMA DataPolled ==
  ASSUME SensorTypes, NEW s \in AllStations, PollMinTimer(s)
  PROVE  ListsGood' /\ PacketsGood'
<1>0. ListsGood /\ PacketsGood /\ CountersGood
  BY DEF SensorTypes
<1>1. CASE UNCHANGED <<last, toRemote, toMaster, source, misled>>
  <2>1. ListsGood'
    BY <1>0, <1>1, ListsStay
  <2>2. PacketsGood'
    BY <1>0, <1>1 DEF PacketsGood, AskedOf, Told
  <2> QED
    BY <2>1, <2>2
<1>2. ASSUME NEW v, NEW failed, \A c \in ToSet(ChannelsOf[s]) : v[c] \in Shows(s, c),
             After(s, OwnReadings(s, v, failed)), UNCHANGED <<toRemote, source, misled>>
      PROVE  ListsGood' /\ PacketsGood'
  BY <1>0, <1>2, OwnKeepsLists, OwnKeepsPackets
<1>3. ASSUME NEW p \in SensorRemotes, PollStationSensors(p)
      PROVE  ListsGood' /\ PacketsGood'
  <2>1. PacketsGood' /\ \A q \in AllStations : misled[q] => misled'[q]
    BY <1>0, <1>3, PollKeepsPackets
  <2>2. UNCHANGED <<last, source>>
    BY <1>3 DEF PollStationSensors
  <2> QED
    BY <1>0, <2>1, <2>2, ListsStay
<1> QED
  BY <1>0, <1>1, <1>2, <1>3, MinuteReads

(* A minute moves the counters within their ranges.                        *)
LEMMA CountersPolled ==
  ASSUME CountersGood, NEW s \in AllStations, PollMinTimer(s)
  PROVE  CountersGood'
<1> DEFINE L == Len(StationsToPoll(s))
           poll == PollFrom(s)
<1>1. /\ REPEAT[s] \in Nat /\ L \in Nat
      /\ minutes[s] \in Nat /\ minutes[s] <= REPEAT[s]
      /\ nPoll[s] \in Nat \ {0} /\ nPoll[s] <= L + 1
  BY PollAssumption, StationsOfSensors DEF PollAssumption, CountersGood
<1>2. poll \in Nat \ {0} /\ poll <= L + 1
  BY <1>1 DEF PollFrom
<1>3. minutes' = [minutes EXCEPT ![s] = IF @ - 1 <= 0 THEN REPEAT[s] ELSE @ - 1]
      /\ nPoll' = [nPoll EXCEPT ![s] = IF poll <= L THEN poll + 1 ELSE poll]
      /\ UNCHANGED trouble
  BY DEF PollMinTimer
<1>4. waits' \in [DOMAIN SensorsOf[SensorMaster] -> Nat]
  BY DEF PollMinTimer, CountersGood
<1> HIDE DEF poll, L
<1>5. minutes'[s] \in Nat /\ minutes'[s] <= REPEAT[s]
      /\ nPoll'[s] \in Nat \ {0} /\ nPoll'[s] <= L + 1
  BY <1>1, <1>2, <1>3 DEF CountersGood
<1>6. minutes' \in [AllStations -> Nat] /\ nPoll' \in [AllStations -> Nat \ {0}]
  BY <1>3, <1>5 DEF CountersGood
<1>7. \A t \in AllStations :
        minutes'[t] <= REPEAT[t] /\ nPoll'[t] <= Len(StationsToPoll(t)) + 1
  BY <1>3, <1>5 DEF CountersGood, L
<1> QED
  BY <1>3, <1>4, <1>6, <1>7 DEF CountersGood

(* Every step keeps the types.                                             *)
LEMMA TypesStep ==
  ASSUME SensorTypes, [SensorNext]_sensorVars
  PROVE  SensorTypes'
<1>0. ListsGood /\ PacketsGood /\ CountersGood
  BY DEF SensorTypes
<1>1. ASSUME NEW s \in AllStations, PollMinTimer(s)
      PROVE  SensorTypes'
  BY <1>0, <1>1, DataPolled, CountersPolled DEF SensorTypes
<1>2. ASSUME NEW s \in AllStations, Restart(s)
      PROVE  SensorTypes'
  <2>1. ListsGood'
    BY <1>0, <1>2, RestartKeepsLists
  <2>2. PacketsGood'
    BY <1>0, <1>2 DEF Restart, PacketsGood, AskedOf, Told
  <2>3. CountersGood'
    <3>1. \A t \in AllStations : REPEAT[t] \in Nat /\ Len(StationsToPoll(t)) \in Nat
      BY PollAssumption, StationsOfSensors DEF PollAssumption
    <3>2. \A t \in AllStations :
            minutes'[t] <= REPEAT[t] /\ nPoll'[t] <= Len(StationsToPoll(t)) + 1
      BY <1>0, <1>2, <3>1 DEF CountersGood, Restart
    <3>3. minutes' \in [AllStations -> Nat] /\ nPoll' \in [AllStations -> Nat \ {0}]
      BY <1>0, <1>2 DEF CountersGood, Restart
    <3>4. trouble' \in [SensorRemotes -> BOOLEAN]
      <4>1. \A r \in SensorRemotes : (trouble[r] \/ s \in {r, SensorMaster}) \in BOOLEAN
        OBVIOUS
      <4> QED
        BY <1>2, <4>1 DEF Restart
    <3>5. waits' \in [DOMAIN SensorsOf[SensorMaster] -> Nat]
      BY <1>0, <1>2 DEF CountersGood, Restart
    <3> QED
      BY <3>2, <3>3, <3>4, <3>5 DEF CountersGood
  <2> QED
    BY <2>1, <2>2, <2>3 DEF SensorTypes
<1>3. ASSUME NEW r \in SensorRemotes, MessageSensorsRead(r)
      PROVE  SensorTypes'
  <2>1. ListsGood'
    BY <1>0, <1>3, ListsStay DEF MessageSensorsRead
  <2>2. PacketsGood'
    BY <1>0, <1>3, ReadKeepsPackets
  <2>3. CountersGood'
    BY <1>0, <1>3 DEF MessageSensorsRead, CountersGood
  <2> QED
    BY <2>1, <2>2, <2>3 DEF SensorTypes
<1>4. ASSUME NEW r \in SensorRemotes, MessageSensorsReport(r)
      PROVE  SensorTypes'
  <2>1. ListsGood'
    BY <1>0, <1>4, ReportKeepsLists
  <2>2. PacketsGood'
    BY <1>0, <1>4, TakenPackets DEF MessageSensorsReport
  <2>3. CountersGood'
    BY <1>0, <1>4 DEF MessageSensorsReport, CountersGood
  <2> QED
    BY <2>1, <2>2, <2>3 DEF SensorTypes
<1>5. ASSUME NEW r \in SensorRemotes, Lose(r)
      PROVE  SensorTypes'
  <2>1. ListsGood'
    BY <1>0, <1>5, ListsStay DEF Lose
  <2>2. PacketsGood'
    BY <1>0, <1>5, TakenPackets DEF Lose
  <2>3. CountersGood'
    BY <1>0, <1>5 DEF Lose, CountersGood
  <2> QED
    BY <2>1, <2>2, <2>3 DEF SensorTypes
<1>6. CASE UNCHANGED sensorVars
  <2>1. ListsGood'
    BY <1>0, <1>6, ListsStay DEF sensorVars
  <2>2. PacketsGood'
    BY <1>0, <1>6 DEF PacketsGood, AskedOf, Told, sensorVars
  <2>3. CountersGood'
    BY <1>0, <1>6 DEF CountersGood, sensorVars
  <2> QED
    BY <2>1, <2>2, <2>3 DEF SensorTypes
<1> QED
  BY <1>1, <1>2, <1>3, <1>4, <1>5, <1>6 DEF SensorNext

-----------------------------------------------------------------------------
(* The invariant of the polls and of the readings.                         *)
ReadingInv == SensorTypes /\ Rounds

(* The rounds go on at every step.                                         *)
LEMMA RoundsStep ==
  ASSUME SensorTypes, Rounds, [SensorNext]_sensorVars
  PROVE  Rounds'
<1>1. ASSUME UNCHANGED <<minutes, nPoll, waits>>
      PROVE  Rounds'
  BY <1>1 DEF Rounds, Minute, Polled, WaitsBy
<1>2. ASSUME NEW s \in AllStations, s # SensorMaster, PollMinTimer(s)
      PROVE  Rounds'
  <2>1. SensorMaster \in AllStations
    BY DEF AllStations
  <2>2. minutes'[SensorMaster] = minutes[SensorMaster]
        /\ nPoll'[SensorMaster] = nPoll[SensorMaster] /\ waits' = waits
    BY <1>2, <2>1 DEF PollMinTimer, SensorTypes, CountersGood
  <2> QED
    BY <2>2 DEF Rounds, Minute, Polled, WaitsBy
<1>3. ASSUME NEW s \in AllStations, Restart(s)
      PROVE  Rounds'
  <2>1. SensorMaster \in AllStations
    BY DEF AllStations
  <2>2. CASE s = SensorMaster
    <3>1. minutes'[SensorMaster] = 0 /\ nPoll'[SensorMaster] = 1
          /\ waits' = [i \in DOMAIN waits |-> 0]
      BY <1>3, <2>1, <2>2 DEF Restart, SensorTypes, CountersGood
    <3> QED
      BY <3>1 DEF Rounds
  <2>3. CASE s # SensorMaster
    <3>1. minutes'[SensorMaster] = minutes[SensorMaster]
          /\ nPoll'[SensorMaster] = nPoll[SensorMaster] /\ waits' = waits
      BY <1>3, <2>1, <2>3 DEF Restart, SensorTypes, CountersGood
    <3> QED
      BY <3>1 DEF Rounds, Minute, Polled, WaitsBy
  <2> QED
    BY <2>2, <2>3
<1>4. ASSUME NEW r \in SensorRemotes,
             MessageSensorsRead(r) \/ MessageSensorsReport(r) \/ Lose(r)
      PROVE  Rounds'
  BY <1>1, <1>4 DEF MessageSensorsRead, MessageSensorsReport, Lose
<1>5. CASE UNCHANGED sensorVars
  BY <1>1, <1>5 DEF sensorVars
<1> QED
  BY <1>2, <1>3, <1>4, <1>5, TimerTurns DEF SensorNext, SensorTypes

(* The invariant holds in every reachable state.                           *)
THEOREM ReadingInvHolds == SensorSpec => []ReadingInv
<1>1. SensorInit => ReadingInv
  <2> SUFFICES ASSUME SensorInit
               PROVE  ReadingInv
    OBVIOUS
  <2>1. SensorTypes
    BY TypesInit
  <2>2. minutes[SensorMaster] = 0 /\ nPoll[SensorMaster] = 1
        /\ \A i \in DOMAIN waits : waits[i] = 0
    BY DEF SensorInit, AllStations
  <2> QED
    BY <2>1, <2>2 DEF ReadingInv, Rounds
<1>2. ReadingInv /\ [SensorNext]_sensorVars => ReadingInv'
  BY TypesStep, RoundsStep DEF ReadingInv
<1> QED
  BY <1>1, <1>2, PTL DEF SensorSpec

(* The lists keep their lengths and the counters their ranges, whatever    *)
(* the lists of sensors, the losses and the restarts (sensors.cpp).        *)
THEOREM ReadingTypeCorrect == SensorSpec => []SensorTypeOK
<1>1. ReadingInv => SensorTypeOK
  <2> SUFFICES ASSUME SensorTypes
               PROVE  SensorTypeOK
    BY DEF ReadingInv
  <2>1. \A s \in AllStations : REPEAT[s] \in Nat /\ Len(StationsToPoll(s)) \in Nat
    BY PollAssumption, StationsOfSensors DEF PollAssumption
  <2>2. ASSUME NEW s \in AllStations
        PROVE  /\ last[s] \in [DOMAIN SensorsOf[s] -> WireReadings]
               /\ minutes[s] \in 0 .. REPEAT[s]
               /\ nPoll[s] \in 1 .. Len(StationsToPoll(s)) + 1
    <3>1. last[s] \in [DOMAIN SensorsOf[s] -> WireReadings]
      BY DEF SensorTypes, ListsGood, Lists
    <3>2. minutes[s] \in Nat /\ minutes[s] <= REPEAT[s]
          /\ nPoll[s] \in Nat \ {0} /\ nPoll[s] <= Len(StationsToPoll(s)) + 1
      BY DEF SensorTypes, CountersGood
    <3> QED
      BY <2>1, <3>1, <3>2
  <2>3. ASSUME NEW r \in SensorRemotes
        PROVE  ToSet(toRemote[r]) \subseteq SensorRemotes
    <3>1. toRemote[r] \in Seq(AskedOf(r)) /\ AskedOf(r) \subseteq SensorRemotes
      BY DEF SensorTypes, PacketsGood, AskedOf
    <3> DEFINE A == AskedOf(r)
    <3> HIDE DEF A
    <3>2. ToSet(toRemote[r]) \subseteq A
      BY <3>1 DEF ToSet, A
    <3> QED
      BY <3>1, <3>2 DEF A
  <2> QED
    BY <2>2, <2>3 DEF SensorTypes, PacketsGood, SensorTypeOK
<1> QED
  BY <1>1, ReadingInvHolds, PTL

(* What the master shows for a sensor is 0 or a reading of that sensor's   *)
(* own hardware, through any lists, losses, delays, restarts and failing   *)
(* hardware, as long as no request for it has reached another radio or its *)
(* own station was the last to report (ReportSensorReading, rmsg_sensors,  *)
(* XBeeSendPacket).                                                        *)
THEOREM ReadingsHaveTheirSensor == SensorSpec => []ReadingsAreAttributed
<1>1. ReadingInv => ReadingsAreAttributed
  <2> SUFFICES ASSUME SensorTypes, NEW i \in DOMAIN SensorsOf[SensorMaster], Undisturbed(i)
               PROVE  last[SensorMaster][i] \in {0} \cup Plausible(SensorsOf[SensorMaster][i])
    BY DEF ReadingInv, ReadingsAreAttributed
  <2>1. /\ Sure(i) => last[SensorMaster][i] \in May(SensorMaster, i)
        /\ Sure(i) \/ misled[Of(i)]
    BY DEF SensorTypes, ListsGood
  <2>2. Sure(i)
    BY <2>1 DEF Undisturbed, Sure, Of
  <2> QED
    BY <2>1, <2>2 DEF May, ShownBy, Shows, Plausible
<1> QED
  BY <1>1, ReadingInvHolds, PTL

(* Every sensor is asked for once a round, whatever its place in the list  *)
(* of stations and its length (poll_MinTimer).                             *)
THEOREM EverySensorPolled == SensorSpec => []NoSensorStarves
<1>1. ReadingInv => NoSensorStarves
  <2> SUFFICES ASSUME SensorTypes, Rounds, NEW i \in DOMAIN SensorsOf[SensorMaster]
               PROVE  waits[i] <= REPEAT[SensorMaster]
    BY DEF ReadingInv, NoSensorStarves
  <2>1. /\ SensorMaster \in AllStations /\ REPEAT[SensorMaster] \in Nat
        /\ Len(Polled) \in Nat /\ i \in DOMAIN waits /\ waits[i] \in Nat
        /\ minutes[SensorMaster] \in Nat /\ minutes[SensorMaster] <= REPEAT[SensorMaster]
    BY PollAssumption, StationsOfSensors DEF PollAssumption, AllStations, SensorTypes, CountersGood,
       Polled
  <2>2. CASE minutes[SensorMaster] = 0
    BY <2>1, <2>2 DEF Rounds
  <2>3. CASE minutes[SensorMaster] # 0
    <3>1. PICK p \in 1 .. Len(Polled) : Polled[p] = SensorsOf[SensorMaster][i].station
      BY <2>1, StationsOfSensors DEF Polled
    <3>2. WaitsBy(i, p)
      BY <2>1, <2>3, <3>1 DEF Rounds
    <3>3. Minute \in Nat /\ Minute + 1 <= REPEAT[SensorMaster]
      BY <2>1, <2>3 DEF Minute
    <3> QED
      BY <2>1, <3>1, <3>2, <3>3 DEF WaitsBy
  <2> QED
    BY <2>2, <2>3
<1> QED
  BY <1>1, ReadingInvHolds, PTL

(* The flow counters that report themselves *)

(* The master shows, or is about to show, what remote r has.               *)
Follows(r, q, shown, actual, j) ==
  \/ shown = actual /\ \A k \in 1 .. Len(q) : ~Mentions(q[k], r, j)
  \/ \E k \in 1 .. Len(q) :
       /\ Mentions(q[k], r, j) /\ Tells(q[k], j) = actual
       /\ \A l \in 1 .. Len(q) : l > k => ~Mentions(q[l], r, j)

(* A report of other entries changes nothing.                              *)
LEMMA FollowsMore ==
  ASSUME NEW r, NEW S, NEW q \in Seq(S), NEW p, NEW shown, NEW actual, NEW j,
         ~Mentions(p, r, j), Follows(r, q, shown, actual, j)
  PROVE  Follows(r, Append(q, p), shown, actual, j)
<1> DEFINE a == Append(q, p)
           n == Len(q)
<1>1. n \in Nat /\ Len(a) = n + 1 /\ a[n + 1] = p /\ \A k \in 1 .. n : a[k] = q[k]
  OBVIOUS
<1> HIDE DEF a, n
<1>2. \A k \in 1 .. Len(a) : k \in 1 .. n \/ k = n + 1
  BY <1>1
<1>3. \A k \in 1 .. n : k \in 1 .. Len(a)
  BY <1>1
<1>4. CASE shown = actual /\ \A k \in 1 .. n : ~Mentions(q[k], r, j)
  <2>1. \A k \in 1 .. Len(a) : ~Mentions(a[k], r, j)
    BY <1>1, <1>2, <1>4
  <2> QED
    BY <1>4, <2>1 DEF Follows, a
<1>5. CASE \E k \in 1 .. n :
             /\ Mentions(q[k], r, j) /\ Tells(q[k], j) = actual
             /\ \A l \in 1 .. n : l > k => ~Mentions(q[l], r, j)
  <2>1. PICK k \in 1 .. n :
             /\ Mentions(q[k], r, j) /\ Tells(q[k], j) = actual
             /\ \A l \in 1 .. n : l > k => ~Mentions(q[l], r, j)
    BY <1>5
  <2>2. k \in 1 .. Len(a) /\ Mentions(a[k], r, j) /\ Tells(a[k], j) = actual
    BY <1>1, <1>3, <2>1
  <2>3. \A l \in 1 .. Len(a) : l > k => ~Mentions(a[l], r, j)
    BY <1>1, <1>2, <2>1
  <2> QED
    BY <2>2, <2>3 DEF Follows, a
<1> QED
  BY <1>4, <1>5 DEF Follows, n

(* A report of the entry settles it.                                       *)
LEMMA FollowsTold ==
  ASSUME NEW r, NEW S, NEW q \in Seq(S), NEW p, NEW shown, NEW j, Mentions(p, r, j)
  PROVE  Follows(r, Append(q, p), shown, Tells(p, j), j)
<1> DEFINE a == Append(q, p)
           n == Len(q)
<1>1. n \in Nat /\ Len(a) = n + 1 /\ a[n + 1] = p
  OBVIOUS
<1> HIDE DEF a, n
<1>2. n + 1 \in 1 .. Len(a) /\ \A l \in 1 .. Len(a) : ~(l > n + 1)
  BY <1>1
<1>3. Mentions(a[n + 1], r, j) /\ Tells(a[n + 1], j) = Tells(p, j)
  BY <1>1
<1> QED
  BY <1>2, <1>3 DEF Follows, a

(* The master takes the first report.                                      *)
LEMMA FollowsTaken ==
  ASSUME NEW r, NEW S, NEW q \in Seq(S), q # << >>, NEW shown, NEW actual, NEW j,
         Follows(r, q, shown, actual, j)
  PROVE  Follows(r, Tail(q), IF Mentions(Head(q), r, j) THEN Tells(Head(q), j) ELSE shown, actual, j)
<1> DEFINE t == Tail(q)
           n == Len(q)
           new == IF Mentions(Head(q), r, j) THEN Tells(Head(q), j) ELSE shown
<1>1. n \in Nat /\ n >= 1 /\ Len(t) = n - 1 /\ Head(q) = q[1]
  BY EmptySeq, HeadTailProperties
<1>2. \A k \in 1 .. n - 1 : t[k] = q[k + 1]
  BY <1>1, HeadTailProperties
<1> HIDE DEF t, n
<1>3. CASE shown = actual /\ \A k \in 1 .. n : ~Mentions(q[k], r, j)
  <2>1. new = actual
    BY <1>1, <1>3
  <2>2. \A k \in 1 .. Len(t) : ~Mentions(t[k], r, j)
    <3>1. \A k \in 1 .. n - 1 : k + 1 \in 1 .. n
      BY <1>1
    <3> QED
      BY <1>1, <1>2, <1>3, <3>1
  <2> QED
    BY <2>1, <2>2 DEF Follows, t
<1>4. CASE \E k \in 1 .. n :
             /\ Mentions(q[k], r, j) /\ Tells(q[k], j) = actual
             /\ \A l \in 1 .. n : l > k => ~Mentions(q[l], r, j)
  <2>1. PICK k \in 1 .. n :
             /\ Mentions(q[k], r, j) /\ Tells(q[k], j) = actual
             /\ \A l \in 1 .. n : l > k => ~Mentions(q[l], r, j)
    BY <1>4
  <2>2. \A l \in 1 .. n - 1 : l + 1 \in 1 .. n /\ l + 1 > 1
    BY <1>1
  <2>3. CASE k = 1
    <3>1. new = actual
      BY <1>1, <2>1, <2>3
    <3>2. \A l \in 1 .. Len(t) : ~Mentions(t[l], r, j)
      BY <1>1, <1>2, <2>1, <2>2, <2>3
    <3> QED
      BY <3>1, <3>2 DEF Follows, t
  <2>4. CASE k # 1
    <3>1. k - 1 \in 1 .. n - 1 /\ k - 1 + 1 = k
      BY <1>1, <2>4
    <3>2. t[k - 1] = q[k]
      BY <1>2, <3>1
    <3>3. \A l \in 1 .. Len(t) : l > k - 1 => ~Mentions(t[l], r, j)
      <4> SUFFICES ASSUME NEW l \in 1 .. n - 1, l > k - 1
                   PROVE  ~Mentions(t[l], r, j)
        BY <1>1
      <4>1. l + 1 \in 1 .. n /\ l + 1 > k
        BY <1>1, <3>1
      <4> QED
        BY <1>2, <2>1, <4>1
    <3>4. k - 1 \in 1 .. Len(t) /\ Mentions(t[k - 1], r, j) /\ Tells(t[k - 1], j) = actual
      BY <1>1, <2>1, <3>1, <3>2
    <3> QED
      BY <3>3, <3>4 DEF Follows, t
  <2> QED
    BY <2>3, <2>4
<1> QED
  BY <1>3, <1>4 DEF Follows, n

(* A remote's own readings report the changes of its flow counters.        *)
LEMMA OwnFollow ==
  ASSUME NEW r \in SensorRemotes, r \in Registered, last[r] \in GoodLists(r),
         NEW j \in DOMAIN SensorsOf[r], SensorsOf[r][j].flow,
         NEW q \in Seq(Told(r)), NEW shown, Follows(r, q, shown, last[r][j], j),
         NEW v, NEW failed, \A c \in ToSet(ChannelsOf[r]) : v[c] \in Shows(r, c)
  PROVE  Follows(r, q \o OwnReadings(r, v, failed).out, shown, OwnReadings(r, v, failed).list[j], j)
<1> DEFINE B == {b \in Results(r) : Follows(r, q \o b.out, shown, b.list[j], j)}
<1>0. r \in AllStations /\ last[r] \in Lists(r) /\ q \in Seq(Reports)
  <2> DEFINE T == Told(r)
  <2>1. T \subseteq Reports
    BY DEF Told, GoodReports
  <2> HIDE DEF T
  <2>2. q \in Seq(Reports)
    BY <2>1, SeqMonotonic DEF T
  <2> QED
    BY <2>2 DEF AllStations, GoodLists
<1>1. Before(r) \in B
  <2>1. Before(r) \in Results(r) /\ Before(r).out = << >> /\ Before(r).list = last[r]
    BY <1>0 DEF Before, Results
  <2>2. q \o << >> = q
    BY <1>0, ConcatEmptySeq
  <2> QED
    BY <2>1, <2>2
<1>2. ASSUME NEW c \in ToSet(ChannelsOf[r]), NEW b \in B \cap Results(r),
             c \in Nat, v[c] \in WireReadings
      PROVE  ReportSensorReading(r, b, r, c, v[c]) \in B
  <2> DEFINE after == ReportSensorReading(r, b, r, c, v[c])
             u == v[c]
  <2>1. after \in Results(r) /\ Takes(r, b, r, c, u, after)
    BY <1>0, <1>2, OneReading
  <2>2. b \in Results(r) /\ Follows(r, q \o b.out, shown, b.list[j], j)
    OBVIOUS
  <2> HIDE DEF after, u
  <2>3. /\ b.list \in Lists(r) /\ b.out \in Seq(Reports)
        /\ q \o b.out \in Seq(Reports)
    BY <1>0, <2>2 DEF Results
  <2>4. \A p \in Reports : q \o Append(b.out, p) = Append(q \o b.out, p)
    BY <1>0, <2>3
  <2>5. CASE after = b
    BY <2>2, <2>5 DEF after, u
  <2>6. CASE after # b
    <3>1. PICK i \in EntriesOf(r, r, c) :
            /\ after.list = [b.list EXCEPT ![i] = u]
            /\ after.out =
                 IF SensorsOf[r][i].flow /\ u # b.list[i] /\ r \in Registered
                 THEN Append(b.out, [from |-> r, first |-> i - 1,
                                     data |-> <<ToWire(u)>>])
                 ELSE b.out
      BY <2>1, <2>6 DEF Takes
    <3> DEFINE p == [from |-> r, first |-> i - 1, data |-> <<ToWire(u)>>]
    <3>2. i \in DOMAIN SensorsOf[r] /\ i \in Nat \ {0} /\ j \in Nat \ {0}
      BY <1>0, SensorLists DEF EntriesOf
    <3>3. ToWire(u) \in 0 .. READINGS - 1 /\ FromWire(ToWire(u)) = u
      BY <1>2, WireKeeps DEF u
    <3>4. p \in Reports
      BY <1>0, <3>2, <3>3 DEF Reports
    <3>5. p.from = r /\ p.first = i - 1 /\ Len(p.data) = 1 /\ p.data[1] = ToWire(u)
      OBVIOUS
    <3> HIDE DEF p
    <3>6. after.out = b.out \/ (after.out = Append(b.out, p))
      BY <3>1 DEF p
    <3>7. CASE i = j
      <4>1. after.list[j] = u
        BY <2>3, <3>1, <3>2, <3>7 DEF Lists
      <4>2. CASE u = b.list[j]
        <5>1. after.out = b.out
          BY <3>1, <3>7, <4>2
        <5> QED
          BY <2>1, <2>2, <4>1, <4>2, <5>1 DEF after, u
      <4>3. CASE u # b.list[j]
        <5>1. after.out = Append(b.out, p)
          BY <3>1, <3>7, <4>3 DEF p
        <5>2. Mentions(p, r, j) /\ Tells(p, j) = u
          BY <3>2, <3>3, <3>5, <3>7 DEF Mentions, Tells
        <5>3. Follows(r, Append(q \o b.out, p), shown, u, j)
          BY <2>3, <5>2, FollowsTold
        <5>4. q \o after.out = Append(q \o b.out, p)
          BY <2>4, <3>4, <5>1
        <5> QED
          BY <2>1, <4>1, <5>3, <5>4 DEF after, u
      <4> QED
        BY <4>2, <4>3
    <3>8. CASE i # j
      <4>1. after.list[j] = b.list[j]
        BY <2>3, <3>1, <3>8 DEF Lists
      <4>2. ~Mentions(p, r, j)
        BY <3>2, <3>5, <3>8 DEF Mentions
      <4>3. Follows(r, q \o after.out, shown, b.list[j], j)
        <5>1. CASE after.out = b.out
          BY <2>2, <5>1
        <5>2. CASE after.out = Append(b.out, p)
          <6>1. Follows(r, Append(q \o b.out, p), shown, b.list[j], j)
            BY <2>2, <2>3, <4>2, FollowsMore
          <6> QED
            BY <2>4, <3>4, <5>2, <6>1
        <5> QED
          BY <3>6, <5>1, <5>2
      <4> QED
        BY <2>1, <4>1, <4>3 DEF after, u
    <3> QED
      BY <3>7, <3>8
  <2> QED
    BY <2>5, <2>6
<1> HIDE DEF B
<1>3. OwnReadings(r, v, failed) \in B \cap Results(r)
  BY <1>0, <1>1, <1>2, OwnStays
<1> QED
  BY <1>3 DEF B

(* What the remote has will do for what is shown.                          *)
LEMMA FollowsFrom ==
  ASSUME NEW r, NEW q, NEW shown, NEW actual, NEW j, Follows(r, q, shown, actual, j)
  PROVE  Follows(r, q, actual, actual, j)
BY DEF Follows

(* The lists of the master and of the remotes name the same sensors: no    *)
(* sensor is listed twice, and every remote one has its entry there.       *)
ListsMatch ==
  \A i \in DOMAIN SensorsOf[SensorMaster] :
    LET sensor == SensorsOf[SensorMaster][i]
    IN  /\ \A k \in DOMAIN SensorsOf[SensorMaster] :
             /\ SensorsOf[SensorMaster][k].station = sensor.station
             /\ SensorsOf[SensorMaster][k].channel = sensor.channel
             => k = i
        /\ sensor.station \in SensorRemotes =>
             sensor.channel + 1 \in DOMAIN SensorsOf[sensor.station]

(* The entries of such a list all take readings.                           *)
LEMMA MatchIsFirst ==
  ASSUME ListsMatch, NEW i \in DOMAIN SensorsOf[SensorMaster]
  PROVE  IsFirst(i)
<1>1. i \in Nat
  BY Places
<1> QED
  BY <1>1 DEF ListsMatch, IsFirst

(* The master's own readings are no news of a remote's sensor.             *)
LEMMA MasterKeeps ==
  ASSUME last[SensorMaster] \in Lists(SensorMaster),
         NEW i \in DOMAIN SensorsOf[SensorMaster], Of(i) # SensorMaster,
         NEW v, NEW failed,
         \A c \in ToSet(ChannelsOf[SensorMaster]) : v[c] \in Shows(SensorMaster, c)
  PROVE  OwnReadings(SensorMaster, v, failed).list[i] = last[SensorMaster][i]
<1> DEFINE M == SensorMaster
           S == {last[M][i]}
<1>1. M \in AllStations
  BY DEF AllStations
<1>2. \A c \in ToSet(ChannelsOf[M]) : i \notin EntriesOf(M, M, c)
  BY DEF EntriesOf, Of
<1>3. last[M][i] \in S
  OBVIOUS
<1> HIDE DEF S
<1>4. OwnReadings(M, v, failed).list[i] \in S
  BY <1>1, <1>2, <1>3, OwnEntry
<1> QED
  BY <1>4 DEF S

(* The flow counters whose remote reports their changes.                   *)
Watched(i) ==
  i \in DOMAIN SensorsOf[SensorMaster] /\ Of(i) \in Registered /\ SensorsOf[Of(i)][Place(i)].flow

(* What the master shows of an entry; what another radio reported for it,  *)
(* does not count.                                                         *)
Seen(i) == IF Sure(i) THEN last[SensorMaster][i] ELSE last[Of(i)][Place(i)]

FlowFollows ==
  \A i \in DOMAIN SensorsOf[SensorMaster] :
    Watched(i) /\ ~trouble[Of(i)] =>
      Follows(Of(i), toMaster[Of(i)], Seen(i), last[Of(i)][Place(i)], Place(i))

(* The length of a list.                                                   *)
LEMMA LenOf ==
  ASSUME NEW n \in Nat, NEW data, DOMAIN data = 1 .. n, \E S : data \in [1 .. n -> S]
  PROVE  Len(data) = n
<1>1. PICK S : data \in [1 .. n -> S]
  OBVIOUS
<1>2. data \in Seq(S)
  <2>1. \A T : Seq(T) = UNION {[1 .. m -> T] : m \in Nat}
    BY SeqDef
  <2> QED
    BY <1>1, <2>1, Zenon
<1> QED
  BY <1>2

(* Every step keeps what the master shows of r in line with r, as far as   *)
(* nothing was lost: own readings, requests, answers and reports.          *)
LEMMA FollowsStep ==
  ASSUME SensorTypes, ListsMatch, FlowFollows, [SensorNext]_sensorVars
  PROVE  FlowFollows'
<1> DEFINE M == SensorMaster
<1> SUFFICES ASSUME NEW i \in DOMAIN SensorsOf[M], Watched(i), ~trouble'[Of(i)]
             PROVE  Follows(Of(i), toMaster'[Of(i)], Seen(i)', last'[Of(i)][Place(i)], Place(i))
  BY DEF FlowFollows, Watched, Of, Place
<1> DEFINE r == Of(i)
           j == Place(i)
<1>1. /\ M \in AllStations /\ r \in AllStations /\ r \in SensorRemotes /\ r # M
      /\ r \in Registered /\ SensorsOf[r][j].flow /\ j \in DOMAIN SensorsOf[r]
      /\ r # NoRadio /\ \A s \in SensorRemotes : s # M /\ s # NoRadio
  <2>1. r \in Registered /\ SensorsOf[r][j].flow
    BY DEF Watched
  <2>2. r \in SensorRemotes /\ r # M
    BY <2>1, SensorAssumption DEF SensorAssumption
  <2>3. j \in DOMAIN SensorsOf[r]
    BY <2>2 DEF ListsMatch, Of, Place
  <2> QED
    BY <2>1, <2>2, <2>3, SensorAssumption DEF SensorAssumption, AllStations
<1> DEFINE seen == Seen(i)
           Goal == Follows(r, toMaster'[r], Seen(i)', last'[r][j], j)
<1>2. /\ DOMAIN last = AllStations /\ DOMAIN toMaster = SensorRemotes
      /\ DOMAIN trouble = SensorRemotes /\ DOMAIN source = DOMAIN SensorsOf[M]
      /\ last[r] \in GoodLists(r) /\ last[r] \in Lists(r) /\ last[M] \in Lists(M)
      /\ toMaster[r] \in Seq(Told(r)) /\ toMaster[r] \in Seq(GoodReports(r))
  <2>1. toMaster[r] \in Seq(Told(r)) /\ Told(r) \subseteq GoodReports(r)
    BY <1>1 DEF SensorTypes, PacketsGood, Told
  <2> DEFINE S == Told(r)
             T == GoodReports(r)
  <2> HIDE DEF S, T
  <2>2. toMaster[r] \in Seq(T)
    BY <2>1, SeqMonotonic DEF S, T
  <2> QED
    BY <1>1, <2>1, <2>2 DEF SensorTypes, ListsGood, PacketsGood, CountersGood, T
<1>3. ~trouble[r] => Follows(r, toMaster[r], seen, last[r][j], j)
  BY DEF FlowFollows
<1>4. /\ ~trouble'[r]
      /\ seen = IF source[i] \in {NoRadio, r} THEN last[M][i] ELSE last[r][j]
      /\ Seen(i)' = IF source'[i] \in {NoRadio, r} THEN last'[M][i] ELSE last'[r][j]
  BY DEF Seen, Sure, Of, Place
<1> HIDE DEF r, j, M, seen
<1>5. ASSUME ~trouble[r], toMaster'[r] = toMaster[r], last'[M][i] = last[M][i],
             last'[r][j] = last[r][j], source'[i] = source[i]
      PROVE  Goal
  BY <1>3, <1>4, <1>5
<1>6. ASSUME NEW s \in AllStations, PollMinTimer(s)
      PROVE  Goal
  <2>1. ~trouble[r]
    BY <1>4, <1>6 DEF PollMinTimer
  <2>2. CASE UNCHANGED <<last, toRemote, toMaster, source, misled>>
    BY <1>5, <2>1, <2>2
  <2>3. ASSUME NEW p \in SensorRemotes, PollStationSensors(p)
        PROVE  Goal
    BY <1>5, <2>1, <2>3 DEF PollStationSensors
  <2>4. ASSUME NEW v, NEW failed, \A c \in ToSet(ChannelsOf[s]) : v[c] \in Shows(s, c),
               After(s, OwnReadings(s, v, failed)), source' = source
        PROVE  Goal
    <3>1. last' = [last EXCEPT ![s] = OwnReadings(s, v, failed).list]
      BY <2>4 DEF After
    <3>2. CASE s = M
      <4>1. toMaster' = toMaster
        BY <2>4, <3>2 DEF After, M
      <4>2. last'[r] = last[r] /\ last'[M] = OwnReadings(M, v, failed).list
        BY <1>1, <1>2, <3>1, <3>2
      <4>3. OwnReadings(M, v, failed).list[i] = last[M][i]
        BY <1>1, <1>2, <2>4, <3>2, MasterKeeps DEF r, M
      <4> QED
        BY <1>5, <2>1, <2>4, <4>1, <4>2, <4>3
    <3>3. CASE s = r
      <4>1. /\ toMaster'[r] = toMaster[r] \o OwnReadings(r, v, failed).out
            /\ last'[r] = OwnReadings(r, v, failed).list /\ last'[M] = last[M]
        BY <1>1, <1>2, <2>4, <3>1, <3>3 DEF After, M
      <4>2. Follows(r, toMaster[r] \o OwnReadings(r, v, failed).out, seen,
                    OwnReadings(r, v, failed).list[j], j)
        BY <1>1, <1>2, <1>3, <2>1, <2>4, <3>3, OwnFollow
      <4>3. Follows(r, toMaster'[r], seen, last'[r][j], j)
        BY <4>1, <4>2
      <4>4. Follows(r, toMaster'[r], last'[r][j], last'[r][j], j)
        BY <4>3, FollowsFrom
      <4> QED
        BY <1>4, <2>4, <4>1, <4>3, <4>4
    <3>4. CASE s # M /\ s # r
      <4>1. toMaster'[r] = toMaster[r] /\ last'[r] = last[r] /\ last'[M] = last[M]
        BY <1>1, <1>2, <2>4, <3>1, <3>4 DEF After, M
      <4> QED
        BY <1>5, <2>1, <2>4, <4>1
    <3> QED
      BY <3>2, <3>3, <3>4
  <2> HIDE DEF Goal
  <2>5. CountersGood
    BY DEF SensorTypes
  <2> QED
    BY <1>6, <2>2, <2>3, <2>4, <2>5, MinuteReads
<1>7. ASSUME NEW s \in AllStations, Restart(s)
      PROVE  Goal
  <2>1. ~trouble[r] /\ s # r /\ s # M
    BY <1>1, <1>4, <1>7 DEF Restart, M
  <2>2. toMaster' = toMaster /\ last'[r] = last[r] /\ last'[M] = last[M] /\ source' = source
    BY <1>1, <1>2, <1>7, <2>1 DEF Restart, M
  <2> QED
    BY <1>5, <2>1, <2>2
<1>8. ASSUME NEW s \in SensorRemotes, MessageSensorsRead(s)
      PROVE  Goal
  <2>1. ~trouble[r] /\ last' = last /\ source' = source /\ Seen(i)' = seen
    BY <1>4, <1>8 DEF MessageSensorsRead
  <2>2. CASE s # r
    <3>1. toMaster'[r] = toMaster[r]
      BY <1>1, <1>2, <1>8, <2>2 DEF MessageSensorsRead
    <3> QED
      BY <1>5, <2>1, <3>1
  <2>3. CASE s = r
    <3> DEFINE p == [from |-> Head(toRemote[r]), first |-> 0,
                     data |-> [k \in DOMAIN last[r] |-> ToWire(last[r][k])]]
               n == Len(SensorsOf[r])
    <3>1. toMaster'[r] = Append(toMaster[r], p)
      BY <1>1, <1>2, <1>8, <2>3 DEF MessageSensorsRead
    <3>2. /\ n \in Nat /\ DOMAIN SensorsOf[r] = 1 .. n
          /\ DOMAIN last[r] = 1 .. n /\ j \in 1 .. n
      BY <1>1, <1>2, SensorLists DEF Lists
    <3>3. last[r][j] \in WireReadings
      BY <1>1, <1>2 DEF Lists
    <3>4. p.first = 0 /\ DOMAIN p.data = 1 .. n /\ p.data[j] = ToWire(last[r][j])
      BY <3>2
    <3>5. Len(p.data) = n
      <4> DEFINE S == {ToWire(last[r][k]) : k \in 1 .. n}
      <4>1. p.data \in [1 .. n -> S]
        BY <3>2
      <4> HIDE DEF p, n, S
      <4>2. \E T : p.data \in [1 .. n -> T]
        BY <4>1
      <4> QED
        BY <3>2, <3>4, <4>2, LenOf
    <3> HIDE DEF p, n
    <3>6. CASE p.from = r
      <4>1. Mentions(p, r, j)
        BY <3>2, <3>4, <3>5, <3>6 DEF Mentions
      <4>2. Tells(p, j) = last[r][j]
        <5>1. j - p.first = j
          BY <3>2, <3>4
        <5> QED
          BY <3>3, <3>4, <5>1, WireKeeps DEF Tells
      <4>3. Follows(r, Append(toMaster[r], p), seen, Tells(p, j), j)
        BY <1>2, <4>1, FollowsTold
      <4> QED
        BY <2>1, <3>1, <4>2, <4>3
    <3>7. CASE p.from # r
      <4>1. ~Mentions(p, r, j)
        BY <3>7 DEF Mentions
      <4>2. Follows(r, Append(toMaster[r], p), seen, last[r][j], j)
        BY <1>2, <1>3, <2>1, <4>1, FollowsMore
      <4> QED
        BY <2>1, <3>1, <4>2
    <3> QED
      BY <3>6, <3>7
  <2> QED
    BY <2>2, <2>3
<1>9. ASSUME NEW s \in SensorRemotes, MessageSensorsReport(s)
      PROVE  Goal
  <2> DEFINE p == Head(toMaster[s])
  <2>1. /\ ~trouble[r] /\ toMaster[s] # << >>
        /\ toMaster' = [toMaster EXCEPT ![s] = Tail(@)]
        /\ last' = [last EXCEPT ![M] = ReportedReadings(p).list]
        /\ source' = [k \in DOMAIN source |-> IF k \in Reported(p) THEN s ELSE source[k]]
    BY <1>4, <1>9 DEF MessageSensorsReport, M
  <2>2. p \in GoodReports(s)
    <3> DEFINE T == Told(s)
    <3>1. toMaster[s] \in Seq(T)
      BY DEF SensorTypes, PacketsGood
    <3> HIDE DEF T
    <3>2. p \in T
      BY <2>1, <3>1
    <3> QED
      BY <3>2 DEF T, Told
  <2>3. /\ ReportedReadings(p).list[i] =
             IF Mentions(p, r, j) THEN Tells(p, j) ELSE last[M][i]
        /\ i \in Reported(p) <=> Mentions(p, r, j)
    <3>1. IsFirst(i)
      BY MatchIsFirst DEF M
    <3> HIDE DEF p
    <3> QED
      BY <1>2, <2>2, <3>1, ReportTells, ReportedIs DEF r, j, M
  <2> HIDE DEF p
  <2>4. /\ last'[r] = last[r] /\ last'[M] = ReportedReadings(p).list
        /\ source'[i] = IF Mentions(p, r, j) THEN s ELSE source[i]
    BY <1>1, <1>2, <2>1, <2>3 DEF M
  <2>5. CASE s # r
    <3>1. toMaster'[r] = toMaster[r]
      BY <1>1, <1>2, <2>1, <2>5
    <3>2. CASE Mentions(p, r, j)
      <4>1. Seen(i)' = last'[r][j]
        BY <1>1, <1>4, <2>4, <2>5, <3>2
      <4>2. Follows(r, toMaster[r], last[r][j], last[r][j], j)
        BY <1>3, <2>1, FollowsFrom
      <4> QED
        BY <2>4, <3>1, <4>1, <4>2
    <3>3. CASE ~Mentions(p, r, j)
      BY <1>5, <2>1, <2>3, <2>4, <3>1, <3>3
    <3> QED
      BY <3>2, <3>3
  <2>6. CASE s = r
    <3>1. toMaster'[r] = Tail(toMaster[r])
      BY <1>1, <1>2, <2>1, <2>6
    <3>2. Follows(r, Tail(toMaster[r]),
                  IF Mentions(Head(toMaster[r]), r, j) THEN Tells(Head(toMaster[r]), j)
                  ELSE seen, last[r][j], j)
      BY <1>2, <1>3, <2>1, <2>6, FollowsTaken
    <3>3. Seen(i)' = IF Mentions(p, r, j) THEN Tells(p, j) ELSE seen
      BY <1>4, <2>3, <2>4, <2>6
    <3> QED
      BY <2>4, <2>6, <3>1, <3>2, <3>3 DEF p
  <2> QED
    BY <2>5, <2>6
<1>10. ASSUME NEW s \in SensorRemotes, Lose(s)
       PROVE  Goal
  <2>1. s # r /\ ~trouble[r]
    BY <1>1, <1>2, <1>4, <1>10 DEF Lose
  <2>2. toMaster'[r] = toMaster[r] /\ last' = last /\ source' = source
    BY <1>1, <1>2, <1>10, <2>1 DEF Lose
  <2> QED
    BY <1>5, <2>1, <2>2
<1>11. ASSUME UNCHANGED sensorVars
       PROVE  Goal
  <2>1. /\ ~trouble[r] /\ toMaster'[r] = toMaster[r] /\ last'[M][i] = last[M][i]
        /\ last'[r][j] = last[r][j] /\ source' = source
    BY <1>4, <1>11 DEF sensorVars
  <2> QED
    BY <1>5, <2>1
<1>12. Goal
  <2> HIDE DEF Goal
  <2>1. CASE SensorNext
    BY <1>6, <1>7, <1>8, <1>9, <1>10, <2>1 DEF SensorNext
  <2> QED
    BY <1>11, <2>1
<1> QED
  BY <1>12 DEF r, j, M

(* With nothing on its way and nothing lost, the master knows the flow     *)
(* counters of a registered remote, when the lists name the same sensors   *)
(* and no other radio has reported them last (ReportSensorReading and its  *)
(* event, XBeeSendPacket).                                                 *)
THEOREM FlowKnown == ListsMatch => (SensorSpec => []FlowIsCurrent)
<1> SUFFICES ASSUME ListsMatch
             PROVE  SensorSpec => []FlowIsCurrent
  OBVIOUS
<1>1. SensorInit => FlowFollows
  <2> SUFFICES ASSUME SensorInit, NEW i \in DOMAIN SensorsOf[SensorMaster], Watched(i)
               PROVE  Follows(Of(i), toMaster[Of(i)], Seen(i), last[Of(i)][Place(i)], Place(i))
    BY DEF FlowFollows
  <2>1. Of(i) \in SensorRemotes /\ Of(i) \in AllStations /\ SensorMaster \in AllStations
    BY SensorAssumption DEF SensorAssumption, Watched, AllStations
  <2>2. Place(i) \in DOMAIN SensorsOf[Of(i)]
    BY <2>1 DEF ListsMatch, Of, Place
  <2>3. toMaster[Of(i)] = << >>
    BY <2>1 DEF SensorInit
  <2>4. last[SensorMaster][i] = 0 /\ last[Of(i)][Place(i)] = 0
    BY <2>1, <2>2 DEF SensorInit, Zeros
  <2> QED
    BY <2>3, <2>4 DEF Follows, Seen
<1>2. ReadingInv /\ FlowFollows /\ [SensorNext]_sensorVars => FlowFollows'
  BY FollowsStep DEF ReadingInv
<1>3. ReadingInv /\ FlowFollows => FlowIsCurrent
  <2> SUFFICES ASSUME ReadingInv, FlowFollows, NEW i \in DOMAIN SensorsOf[SensorMaster],
                      Of(i) \in Registered, SensorsOf[Of(i)][Place(i)].flow,
                      ~trouble[Of(i)], toMaster[Of(i)] = << >>, Undisturbed(i)
               PROVE  last[SensorMaster][i] = last[Of(i)][Place(i)]
    BY DEF FlowIsCurrent, Of, Place
  <2>1. Follows(Of(i), << >>, Seen(i), last[Of(i)][Place(i)], Place(i))
    BY DEF FlowFollows, Watched
  <2>2. Seen(i) = last[Of(i)][Place(i)]
    BY <2>1 DEF Follows
  <2>3. Sure(i)
    BY DEF ReadingInv, SensorTypes, ListsGood, Undisturbed, Sure, Of
  <2> QED
    BY <2>2, <2>3 DEF Seen
<1> QED
  BY <1>1, <1>2, <1>3, ReadingInvHolds, PTL DEF SensorSpec


-----------------------------------------------------------------------------
(***************************************************************************)
(* CounterMeter: for every word width, ringing delay and scale the         *)
(* counters stay words, and no pulse is forgotten (MeterAssumption).       *)
(***************************************************************************)

(* The counters of the meter, reduced to a word, are words.                *)
LEMMA WordRange ==
  ASSUME NEW n \in Int
  PROVE  n % WORD \in 0 .. WORD - 1
  BY MeterAssumption DEF MeterAssumption

(* What the scaling makes of a difference of two words is a word.          *)
LEMMA ScaledIsWord ==
  ASSUME MeterTypeOK
  PROVE  Delta \in 0 .. WORD - 1 /\ Scaled \in 0 .. WORD - 1
<1>1. newCM1 - oldCM1 \in Int
  BY MeterAssumption DEF MeterTypeOK, MeterAssumption
<1>2. Delta \in 0 .. WORD - 1
  BY <1>1, WordRange DEF Delta
<1>3. Delta \in Int /\ MULT \in Int
  BY <1>2, MeterAssumption DEF MeterAssumption
<1>4. Delta * MULT \in Int
  BY <1>3
<1>5. (Delta * MULT) \div DIV \in Int
  BY <1>4, MeterAssumption DEF MeterAssumption
<1>. QED  BY <1>2, <1>5, WordRange DEF Scaled

\* The meter starts well-typed: no pulses, the flag up, the level low.
LEMMA MeterInitTypeOK == MeterInit => MeterTypeOK
  BY MeterAssumption DEF MeterInit, MeterTypeOK, MeterAssumption, LOW, HIGH

\* The interrupt handler counts an edge and flags a counter, and keeps types.
LEMMA IsrTypeOK ==
  ASSUME MeterTypeOK, NEW sample \in {LOW, HIGH}, pollSensorIsr(sample)
  PROVE  MeterTypeOK'
<1>1. cCounterMeter1 + 1 \in Int
  BY MeterAssumption DEF MeterTypeOK, MeterAssumption
<1>2. (cCounterMeter1 + 1) % WORD \in 0 .. WORD - 1
  BY <1>1, WordRange
<1>3. cCounterMeter1' \in 0 .. WORD - 1 /\ fCounterMeter1' \in BOOLEAN
  BY <1>2 DEF MeterTypeOK, pollSensorIsr, Accept
<1>4. uOldCounterMeter1' \in {LOW, HIGH} /\ urCounterMeter1' \in 0 .. RING_DELAY
  BY MeterAssumption DEF MeterTypeOK, MeterAssumption, pollSensorIsr, Accept
<1>5. level' \in {LOW, HIGH} /\ edges' \in Nat
  BY DEF MeterTypeOK, pollSensorIsr
<1>. QED  BY <1>3, <1>4, <1>5 DEF MeterTypeOK, pollSensorIsr, pollVars

\* A poll scales the pulses it took and adds them without leaving the types.
LEMMA AddDeltaTypeOK ==
  ASSUME MeterTypeOK, AddDelta
  PROVE  MeterTypeOK'
<1>1. Delta \in Nat /\ Scaled \in Nat
  BY ScaledIsWord
<1>2. normalizedCM1 + Scaled \in Int
  BY <1>1, MeterAssumption DEF MeterTypeOK, MeterAssumption
<1>3. (normalizedCM1 + Scaled) % WORD \in 0 .. WORD - 1
  BY <1>2, WordRange
<1>. QED  BY <1>1, <1>3 DEF MeterTypeOK, AddDelta, isrVars

(* Every step of the interrupt and of the poller keeps them.               *)
LEMMA MeterStepTypeOK == MeterTypeOK /\ [MeterNext]_meterVars => MeterTypeOK'
<1> SUFFICES ASSUME MeterTypeOK, [MeterNext]_meterVars
             PROVE  MeterTypeOK'
  OBVIOUS
<1>1. CASE \E sample \in {LOW, HIGH} : pollSensorIsr(sample)
  BY <1>1, IsrTypeOK
<1>2. CASE TestFlag
  BY <1>2 DEF TestFlag, MeterTypeOK, isrVars
<1>3. CASE ReadCounter
  BY <1>3 DEF ReadCounter, MeterTypeOK, isrVars
<1>4. CASE AddDelta
  BY <1>4, AddDeltaTypeOK
<1>5. CASE UNCHANGED meterVars
  BY <1>5 DEF meterVars, isrVars, pollVars, MeterTypeOK
<1> QED
  BY <1>1, <1>2, <1>3, <1>4, <1>5 DEF MeterNext

(* The counters stay within a word, and the poller in one of its places.   *)
THEOREM MeterTypeCorrect == MeterSpec => []MeterTypeOK
  BY MeterInitTypeOK, MeterStepTypeOK, PTL DEF MeterSpec

(* The interrupt may count at any moment, also between the test of the     *)
(* flag, the section that clears it, and the sum: whenever the flag is     *)
(* down, every pulse is in the total or about to be added.                 *)
THEOREM PulsesAreKept == MeterSpec => []NoPulseForgotten
<1>1. MeterInit => NoPulseForgotten
  BY DEF MeterInit, NoPulseForgotten
<1>2. NoPulseForgotten /\ [MeterNext]_meterVars => NoPulseForgotten'
  <2>. SUFFICES ASSUME NoPulseForgotten, [MeterNext]_meterVars
                PROVE  NoPulseForgotten'
    OBVIOUS
  <2>1. CASE \E sample \in {LOW, HIGH} : pollSensorIsr(sample)
    BY <2>1 DEF pollSensorIsr, Accept, pollVars, NoPulseForgotten
  <2>2. CASE TestFlag
    BY <2>2 DEF TestFlag, NoPulseForgotten
  <2>3. CASE ReadCounter
    BY <2>3 DEF ReadCounter, NoPulseForgotten
  <2>4. CASE AddDelta
    BY <2>4 DEF AddDelta, NoPulseForgotten
  <2>5. CASE UNCHANGED meterVars
    BY <2>5 DEF meterVars, isrVars, pollVars, NoPulseForgotten
  <2>. QED  BY <2>1, <2>2, <2>3, <2>4, <2>5 DEF MeterNext
<1>. QED  BY <1>1, <1>2, PTL DEF MeterSpec

-----------------------------------------------------------------------------
(* Quotient and remainder.                                                 *)
LEMMA DivMod ==
  ASSUME NEW x \in Int, NEW w \in Nat \ {0}
  PROVE  x \div w \in Int /\ x % w \in 0 .. w - 1 /\ x = w * (x \div w) + (x % w)
<1>1. w \in Nat /\ w > 0
  OBVIOUS
<1>2. x = w * (x \div w) + (x % w)
  BY <1>1, Z3
<1>3. x \div w \in Int
  BY <1>1
<1>4. x % w \in 0 .. w - 1
  BY <1>1
<1> QED
  BY <1>2, <1>3, <1>4

(* Without a remainder means: a multiple.                                  *)
LEMMA Multiples ==
  ASSUME NEW x \in Int, NEW w \in Nat \ {0}
  PROVE  x % w = 0 <=> \E k \in Int : x = k * w
<1>1. x % w = 0 => \E k \in Int : x = k * w
  <2>1. x \div w \in Int /\ x = w * (x \div w) + (x % w)
    BY DivMod
  <2> DEFINE k == x \div w
  <2> HIDE DEF k
  <2>2. k \in Int /\ x = w * k + (x % w)
    BY <2>1 DEF k
  <2>3. w * k = k * w /\ w * k \in Int
    BY <2>2
  <2> QED
    BY <2>2, <2>3
<1>2. ASSUME NEW k \in Int, x = k * w
      PROVE  x % w = 0
  <2> DEFINE q == x \div w
             s == x % w
  <2>1. q \in Int /\ s \in 0 .. w - 1 /\ x = w * q + s
    BY DivMod
  <2> HIDE DEF q, s
  <2> DEFINE d == k - q
  <2>2. d \in Int /\ k = q + d
    BY <2>1
  <2> HIDE DEF d
  <2>3. (q + d) * w = w * q + d * w /\ w * q \in Int /\ d * w \in Int
    BY <2>1, <2>2
  <2>4. s = d * w
    BY <1>2, <2>1, <2>2, <2>3
  <2>5. d > 0 => d * w >= w
    BY <2>2
  <2>6. d < 0 => d * w < 0
    BY <2>2
  <2>7. d = 0 => d * w = 0
    BY <2>2
  <2>8. s = 0
    BY <2>1, <2>2, <2>4, <2>5, <2>6, <2>7
  <2> QED
    BY <2>8 DEF s
<1> QED
  BY <1>1, <1>2

(* Multiples of w, with one more w or the difference of two.               *)
LEMMA MoreMultiples ==
  ASSUME NEW x \in Int, NEW y \in Int, NEW w \in Nat \ {0}, x % w = 0,
         NEW j \in Int, y = x - j * w
  PROVE  y % w = 0
<1>1. PICK k \in Int : x = k * w
  BY Multiples
<1>2. (k - j) * w = k * w - j * w /\ k - j \in Int
  OBVIOUS
<1>3. y = (k - j) * w
  BY <1>1, <1>2
<1> QED
  BY <1>2, <1>3, Multiples

(* The edges missed so far: one less when the sample before this one was   *)
(* the first that differed, one more when the last edge may still count.   *)
EdgesMissed(missed) ==
  /\ missed \in 0 .. urCounterMeter1
  /\ uOldCounterMeter1 = LOW /\ level = HIGH => missed < urCounterMeter1
  /\ uOldCounterMeter1 = HIGH /\ level = LOW => missed > 0
  /\ (edges - missed - cCounterMeter1) % WORD = 0

(* The units dropped so far, of which this poll has dropped none yet.      *)
UnitsLost(loss) ==
  /\ loss \in Nat
  /\ loss <= (IF at = "idle" THEN polls ELSE polls - 1) * (DIV - 1)
  /\ (normalizedCM1 * DIV + loss - taken * MULT) % (WORD * DIV) = 0

CountsInv ==
  /\ MeterTypeOK /\ (at # "idle" => polls > 0)
  /\ \E missed \in Nat : EdgesMissed(missed)
  /\ \E loss \in Nat : UnitsLost(loss)

(* A counted pulse keeps the difference a multiple of a word.              *)
LEMMA OneMoreCounted ==
  ASSUME NEW c \in 0 .. WORD - 1, NEW e \in Int, NEW f \in Int, (e - c) % WORD = 0, f = e + 1
  PROVE  (f - ((c + 1) % WORD)) % WORD = 0
<1>1. WORD \in Nat \ {0}
  BY MeterAssumption
<1> DEFINE d == (c + 1) % WORD
           x == e - c
           y == f - d
<1>2. x \in Int /\ x % WORD = 0
  OBVIOUS
<1>3. CASE c + 1 < WORD
  <2>1. d = c + 1
    BY <1>1, <1>3
  <2> HIDE DEF d
  <2>2. y = x
    BY <1>1, <2>1
  <2> QED
    BY <1>2, <2>2 DEF d
<1>4. CASE c + 1 = WORD
  <2>1. d = 0
    BY <1>1, <1>4
  <2> HIDE DEF d
  <2>2. y \in Int /\ y = x - (-1) * WORD /\ -1 \in Int
    BY <1>1, <1>4, <2>1
  <2> HIDE DEF x, y
  <2>3. y % WORD = 0
    BY <1>1, <1>2, <2>2, MoreMultiples
  <2> QED
    BY <2>3 DEF y, d
<1> QED
  BY <1>1, <1>3, <1>4

(* An edge is counted, or suppressed at the price of a sample.             *)
LEMMA IsrCounts ==
  ASSUME MeterTypeOK, NEW sample \in {LOW, HIGH}, pollSensorIsr(sample),
         NEW missed \in Nat, EdgesMissed(missed)
  PROVE  \E m \in Nat : EdgesMissed(m)'
<1>0. /\ RING_DELAY \in Nat /\ WORD \in Nat \ {0} /\ LOW # HIGH /\ ACTIVE = LOW
      /\ urCounterMeter1 \in 0 .. RING_DELAY /\ cCounterMeter1 \in 0 .. WORD - 1
      /\ edges \in Nat /\ uOldCounterMeter1 \in {LOW, HIGH} /\ level \in {LOW, HIGH}
  BY MeterAssumption DEF MeterTypeOK, LOW, HIGH, ACTIVE
<1>1. level' = sample /\ edges' = edges + (IF level = HIGH /\ sample = LOW THEN 1 ELSE 0)
  BY DEF pollSensorIsr
<1>2. /\ missed \in 0 .. urCounterMeter1
      /\ uOldCounterMeter1 = LOW /\ level = HIGH => missed < urCounterMeter1
      /\ uOldCounterMeter1 = HIGH /\ level = LOW => missed > 0
      /\ (edges - missed - cCounterMeter1) % WORD = 0
  BY DEF EdgesMissed
<1>3. CASE /\ sample = uOldCounterMeter1
           /\ UNCHANGED <<uOldCounterMeter1, urCounterMeter1, cCounterMeter1>>
  <2>1. CASE level = HIGH /\ sample = LOW
    <3>1. /\ missed + 1 \in Nat /\ missed + 1 \in 0 .. urCounterMeter1'
          /\ edges' - (missed + 1) - cCounterMeter1' = edges - missed - cCounterMeter1
      BY <1>0, <1>1, <1>2, <1>3, <2>1
    <3>2. EdgesMissed(missed + 1)'
      BY <1>0, <1>1, <1>2, <1>3, <2>1, <3>1 DEF EdgesMissed
    <3> QED
      BY <3>1, <3>2
  <2>2. CASE ~(level = HIGH /\ sample = LOW)
    <3>1. edges' = edges
      BY <1>0, <1>1, <2>2
    <3>2. EdgesMissed(missed)'
      BY <1>0, <1>1, <1>2, <1>3, <2>2, <3>1 DEF EdgesMissed
    <3> QED
      BY <3>2
  <2> QED
    BY <2>1, <2>2
<1>4. CASE /\ sample # uOldCounterMeter1 /\ urCounterMeter1 < RING_DELAY
           /\ urCounterMeter1' = urCounterMeter1 + 1
           /\ UNCHANGED <<uOldCounterMeter1, cCounterMeter1>>
  <2>1. CASE level = HIGH /\ sample = LOW
    <3>1. /\ missed + 1 \in Nat /\ missed + 1 \in 0 .. urCounterMeter1' /\ missed + 1 > 0
          /\ edges' - (missed + 1) - cCounterMeter1' = edges - missed - cCounterMeter1
      BY <1>0, <1>1, <1>2, <1>4, <2>1
    <3>2. EdgesMissed(missed + 1)'
      BY <1>0, <1>1, <1>2, <1>4, <2>1, <3>1 DEF EdgesMissed
    <3> QED
      BY <3>1, <3>2
  <2>2. CASE ~(level = HIGH /\ sample = LOW)
    <3>1. edges' = edges /\ missed \in 0 .. urCounterMeter1' /\ missed < urCounterMeter1'
      BY <1>0, <1>1, <1>2, <1>4, <2>2
    <3>2. EdgesMissed(missed)'
      BY <1>0, <1>1, <1>2, <1>4, <2>2, <3>1 DEF EdgesMissed
    <3> QED
      BY <3>2
  <2> QED
    BY <2>1, <2>2
<1>5. CASE sample # uOldCounterMeter1 /\ Accept(sample)
  <2>0. uOldCounterMeter1' = sample /\ urCounterMeter1' = urCounterMeter1
    BY <1>5 DEF Accept
  <2>1. CASE sample = HIGH
    <3>1. edges' = edges /\ cCounterMeter1' = cCounterMeter1
      BY <1>0, <1>1, <1>5, <2>1 DEF Accept
    <3>2. EdgesMissed(missed)'
      BY <1>0, <1>1, <1>2, <2>0, <2>1, <3>1 DEF EdgesMissed
    <3> QED
      BY <3>2
  <2>2. CASE sample = LOW
    <3>1. cCounterMeter1' = (cCounterMeter1 + 1) % WORD /\ uOldCounterMeter1 = HIGH
      BY <1>0, <1>5, <2>2 DEF Accept
    <3> DEFINE m == IF level = HIGH THEN missed ELSE missed - 1
    <3>2. /\ m \in Nat /\ m \in 0 .. urCounterMeter1
          /\ edges' - m = (edges - missed) + 1
      BY <1>0, <1>1, <1>2, <2>2, <3>1
    <3> HIDE DEF m
    <3> DEFINE e == edges - missed
               f == edges' - m
    <3>3. e \in Int /\ f \in Int /\ f = e + 1 /\ (e - cCounterMeter1) % WORD = 0
      BY <1>0, <1>1, <1>2, <3>2
    <3> HIDE DEF e, f
    <3>4. (f - cCounterMeter1') % WORD = 0
      BY <1>0, <3>1, <3>3, OneMoreCounted
    <3>5. PICK n \in Nat : n = m
      BY <3>2
    <3>6. EdgesMissed(n)'
      BY <1>0, <1>1, <2>0, <2>2, <3>2, <3>4, <3>5 DEF EdgesMissed, f
    <3> QED
      BY <3>6
  <2> QED
    BY <2>1, <2>2
<1> QED
  BY <1>3, <1>4, <1>5 DEF pollSensorIsr

(* Numbers of polls give a unit more to lose.                              *)
LEMMA MoreToLose ==
  ASSUME NEW p \in Nat
  PROVE  p * (DIV - 1) \in Nat /\ (p + 1) * (DIV - 1) = p * (DIV - 1) + (DIV - 1)
<1>1. DIV - 1 \in Nat
  BY MeterAssumption
<1> DEFINE d == DIV - 1
<1>2. d \in Nat
  BY <1>1
<1> HIDE DEF d
<1>3. p * d \in Nat /\ (p + 1) * d = p * d + d
  BY <1>2
<1> QED
  BY <1>3 DEF d

(* What a poll adds it has scaled with a remainder, and two wraps keep the *)
(* sum a multiple.                                                         *)
LEMMA AddDeltaLoses ==
  ASSUME MeterTypeOK, AddDelta, polls > 0, NEW loss \in Nat, UnitsLost(loss)
  PROVE  \E l \in Nat : UnitsLost(l)'
<1> DEFINE big == Delta * MULT
           q == big \div DIV
           r == big % DIV
           j == (normalizedCM1 + Scaled) \div WORD
           i == q \div WORD
<1>0. /\ MULT \in Nat /\ DIV \in Nat \ {0} /\ WORD \in Nat \ {0} /\ Delta \in Nat
      /\ normalizedCM1 \in Nat /\ taken \in Nat /\ polls \in Nat /\ Scaled \in Nat
  BY MeterAssumption, ScaledIsWord DEF MeterTypeOK
<1>1. /\ at' = "idle" /\ at = "add" /\ taken' = taken + Delta /\ polls' = polls
      /\ normalizedCM1' = (normalizedCM1 + Scaled) % WORD
  BY DEF AddDelta
<1>2. /\ loss <= (polls - 1) * (DIV - 1)
      /\ (normalizedCM1 * DIV + loss - taken * MULT) % (WORD * DIV) = 0
  BY <1>1 DEF UnitsLost
<1>3. big \in Nat
  BY <1>0
<1>4. Scaled = q % WORD
  BY DEF Scaled
<1> HIDE DEF big
<1>5. q \in Int /\ r \in 0 .. DIV - 1 /\ big = DIV * q + r
  BY <1>0, <1>3
<1> HIDE DEF q, r
<1>6. i \in Int /\ q = WORD * i + Scaled
  BY <1>0, <1>4, <1>5
<1>7. j \in Int /\ normalizedCM1 + Scaled = WORD * j + normalizedCM1'
  <2> DEFINE n == normalizedCM1 + Scaled
  <2>1. n \in Int
    BY <1>0
  <2>2. n \div WORD \in Int /\ n = WORD * (n \div WORD) + (n % WORD)
    <3> HIDE DEF n
    <3> QED
      BY <1>0, <2>1, DivMod
  <2> QED
    BY <1>1, <2>2 DEF n
<1> HIDE DEF i, j
<1>8. normalizedCM1' \in Int
  BY <1>0, <1>1
<1> DEFINE w == WORD * DIV
           old == normalizedCM1 * DIV + loss - taken * MULT
           new == normalizedCM1' * DIV + (loss + r) - taken' * MULT
<1>9. new = old - (j + i) * w
  <2>1. Delta * MULT = DIV * q + r
    BY <1>5 DEF big
  <2>2. /\ normalizedCM1 \in Int /\ normalizedCM1' \in Int /\ taken \in Int /\ Delta \in Int
        /\ loss \in Int /\ q \in Int /\ r \in Int /\ Scaled \in Int /\ i \in Int /\ j \in Int
        /\ WORD \in Int /\ DIV \in Int /\ MULT \in Int
    BY <1>0, <1>5, <1>6, <1>7, <1>8
  <2>3. normalizedCM1' * DIV + (loss + r) - (taken + Delta) * MULT
          = (normalizedCM1 * DIV + loss - taken * MULT) - (j + i) * (WORD * DIV)
    <3> DEFINE n == normalizedCM1
               m == normalizedCM1'
               x == WORD * i
               y == WORD * j
    <3>1. /\ n \in Int /\ m \in Int /\ x \in Int /\ y \in Int
          /\ q = x + Scaled /\ n + Scaled = y + m
      <4>1. x \in Int /\ y \in Int
        BY <2>2
      <4>2. q = x + Scaled
        BY <1>6
      <4>3. n + Scaled = y + m
        BY <1>7
      <4> QED
        BY <2>2, <4>1, <4>2, <4>3
    <3>2. (j + i) * (WORD * DIV) = y * DIV + x * DIV
      <4>1. (WORD * j) * DIV = j * (WORD * DIV) /\ (WORD * i) * DIV = i * (WORD * DIV)
        BY <2>2
      <4>2. WORD * DIV \in Int
        BY <2>2
      <4>3. (j + i) * (WORD * DIV) = j * (WORD * DIV) + i * (WORD * DIV)
        BY <2>2, <4>2
      <4> QED
        BY <4>1, <4>3
    <3>3. (taken + Delta) * MULT = taken * MULT + (DIV * q + r)
      <4>1. (taken + Delta) * MULT = taken * MULT + Delta * MULT
        BY <2>2
      <4> QED
        BY <2>1, <4>1
    <3> HIDE DEF n, m, x, y
    <3>4. m = ((n + q) - x) - y
      BY <2>2, <3>1
    <3>5. m * DIV = ((n * DIV + DIV * q) - x * DIV) - y * DIV
      BY <2>2, <3>1, <3>4
    <3>6. /\ n * DIV \in Int /\ DIV * q \in Int /\ x * DIV \in Int /\ y * DIV \in Int
          /\ taken * MULT \in Int /\ m * DIV \in Int
      BY <2>2, <3>1
    <3> DEFINE nd == n * DIV
               qd == DIV * q
               xd == x * DIV
               yd == y * DIV
               tm == taken * MULT
               md == m * DIV
               td == (taken + Delta) * MULT
               ji == (j + i) * (WORD * DIV)
    <3>7. /\ nd \in Int /\ qd \in Int /\ xd \in Int /\ yd \in Int /\ tm \in Int
          /\ md = ((nd + qd) - xd) - yd /\ td = tm + (qd + r) /\ ji = yd + xd
      BY <3>2, <3>3, <3>5, <3>6
    <3> HIDE DEF nd, qd, xd, yd, tm, md, td, ji
    <3>8. md + (loss + r) - td = (nd + loss - tm) - ji
      BY <2>2, <3>7
    <3> QED
      BY <3>8 DEF nd, tm, md, td, ji, n, m
  <2> QED
    BY <1>1, <2>3
<1>10. w \in Nat \ {0} /\ old \in Int /\ old % w = 0 /\ j + i \in Int /\ r \in Nat
  <2>1. w \in Nat \ {0}
    BY <1>0
  <2>2. normalizedCM1 * DIV \in Int /\ taken * MULT \in Int
    BY <1>0
  <2> QED
    BY <1>0, <1>2, <1>5, <1>6, <1>7, <2>1, <2>2
<1> HIDE DEF w, old
<1>11. new % w = 0
  <2>1. new \in Int
    <3>1. normalizedCM1' * DIV \in Int /\ taken' * MULT \in Int
      BY <1>0, <1>1, <1>8
    <3> QED
      BY <1>10, <3>1
  <2> HIDE DEF new
  <2> QED
    BY <1>9, <1>10, <2>1, MoreMultiples
<1>12. loss + r <= polls * (DIV - 1)
  <2>1. polls - 1 \in Nat /\ polls = (polls - 1) + 1
    BY <1>0
  <2>2. /\ (polls - 1) * (DIV - 1) \in Nat
        /\ ((polls - 1) + 1) * (DIV - 1) = (polls - 1) * (DIV - 1) + (DIV - 1)
    BY <2>1, MoreToLose
  <2> DEFINE before == (polls - 1) * (DIV - 1)
             now == polls * (DIV - 1)
  <2>3. before \in Nat /\ now = before + (DIV - 1) /\ loss <= before
    BY <1>2, <2>1, <2>2
  <2> HIDE DEF before, now
  <2>4. loss + r <= now
    BY <1>0, <1>5, <2>3
  <2> QED
    BY <2>4 DEF now
<1>13. \E k \in Nat : UnitsLost(k)'
  <2>1. (normalizedCM1' * DIV + (loss + r) - taken' * MULT) % (WORD * DIV) = 0
    BY <1>11 DEF w
  <2>2. loss + r \in Nat /\ loss + r <= polls' * (DIV - 1) /\ at' = "idle"
    BY <1>1, <1>10, <1>12
  <2> DEFINE l == loss + r
  <2>3. /\ (normalizedCM1' * DIV + l - taken' * MULT) % (WORD * DIV) = 0
        /\ l \in Nat /\ l <= polls' * (DIV - 1)
    BY <2>1, <2>2
  <2> HIDE DEF new, l
  <2>4. PICK k \in Nat : k = l
    BY <2>3
  <2>5. UnitsLost(k)'
    BY <2>2, <2>3, <2>4 DEF UnitsLost
  <2> QED
    BY <2>5
<1> QED
  BY <1>13

(* From the edges of the switch to the reading nothing is counted twice,   *)
(* and no more is lost than suppression and scaling drop: for every width  *)
(* of the counters, ringing delay, scale, and pattern of samples.          *)
THEOREM MeterCountsAll == MeterSpec => []MeterCounts
<1>1. MeterInit => CountsInv
  <2> SUFFICES ASSUME MeterInit PROVE CountsInv
    OBVIOUS
  <2>1. WORD \in Nat \ {0} /\ DIV \in Nat \ {0} /\ MULT \in Nat
    BY MeterAssumption
  <2>2. WORD * DIV \in Nat \ {0} /\ 0 * (DIV - 1) = 0 /\ 0 * DIV = 0 /\ 0 * MULT = 0
    BY <2>1
  <2>3. 0 % WORD = 0 /\ 0 % (WORD * DIV) = 0
    <3> DEFINE w == WORD * DIV
    <3>1. w \in Nat \ {0}
      BY <2>2
    <3> HIDE DEF w
    <3>2. 0 % w = 0 /\ 0 % WORD = 0
      BY <2>1, <3>1
    <3> QED
      BY <3>2 DEF w
  <2>4. EdgesMissed(0)
    BY <2>3 DEF MeterInit, EdgesMissed, LOW, HIGH
  <2>5. UnitsLost(0)
    BY <2>2, <2>3 DEF MeterInit, UnitsLost
  <2> QED
    BY <2>4, <2>5, MeterInitTypeOK DEF MeterInit, CountsInv
<1>2. CountsInv /\ [MeterNext]_meterVars => CountsInv'
  <2> SUFFICES ASSUME CountsInv, [MeterNext]_meterVars PROVE CountsInv'
    OBVIOUS
  <2>0. /\ MeterTypeOK /\ MeterTypeOK' /\ polls \in Nat
        /\ at \in {"idle", "read", "add"} /\ (at # "idle" => polls > 0)
    BY MeterStepTypeOK DEF CountsInv, MeterTypeOK
  <2>1. PICK missed \in Nat : EdgesMissed(missed)
    BY DEF CountsInv
  <2>2. PICK loss \in Nat : UnitsLost(loss)
    BY DEF CountsInv
  <2>3. ASSUME NEW sample \in {LOW, HIGH}, pollSensorIsr(sample)
        PROVE  CountsInv'
    <3>1. UNCHANGED <<normalizedCM1, at, taken, polls>>
      BY <2>3 DEF pollSensorIsr, pollVars
    <3>2. UnitsLost(loss)'
      BY <2>2, <3>1 DEF UnitsLost
    <3> QED
      BY <2>0, <2>1, <2>3, <3>1, <3>2, IsrCounts DEF CountsInv
  <2>4. CASE UNCHANGED isrVars /\ UNCHANGED cCounterMeter1
    <3>1. EdgesMissed(missed)'
      BY <2>1, <2>4 DEF isrVars, EdgesMissed
    <3>2. CASE TestFlag
      <4>1. /\ at = "idle" /\ at' = "read" /\ polls' = polls + 1
            /\ UNCHANGED <<normalizedCM1, taken>> /\ polls' - 1 = polls
        BY <2>0, <3>2 DEF TestFlag
      <4>2. UnitsLost(loss)'
        BY <2>2, <4>1 DEF UnitsLost
      <4> QED
        BY <2>0, <3>1, <4>1, <4>2 DEF CountsInv
    <3>3. CASE ReadCounter
      <4>1. UnitsLost(loss)'
        BY <2>2, <3>3 DEF ReadCounter, UnitsLost
      <4> QED
        BY <2>0, <3>1, <3>3, <4>1 DEF ReadCounter, CountsInv
    <3>4. CASE AddDelta
      <4>1. at = "add" /\ at' = "idle"
        BY <3>4 DEF AddDelta
      <4>2. \E l \in Nat : UnitsLost(l)'
        BY <2>0, <2>2, <3>4, <4>1, AddDeltaLoses
      <4> QED
        BY <2>0, <3>1, <4>1, <4>2 DEF CountsInv
    <3>5. CASE UNCHANGED meterVars
      <4>1. UnitsLost(loss)'
        BY <2>2, <3>5 DEF meterVars, pollVars, UnitsLost
      <4> QED
        BY <2>0, <3>1, <3>5, <4>1 DEF meterVars, pollVars, CountsInv
    <3>6. ASSUME NEW sample \in {LOW, HIGH}, pollSensorIsr(sample)
          PROVE  CountsInv'
      BY <2>3, <3>6
    <3> QED
      BY <3>2, <3>3, <3>4, <3>5, <3>6 DEF MeterNext
  <2>5. \/ UNCHANGED isrVars /\ UNCHANGED cCounterMeter1
        \/ \E sample \in {LOW, HIGH} : pollSensorIsr(sample)
    BY DEF MeterNext, TestFlag, ReadCounter, AddDelta, meterVars
  <2> QED
    BY <2>3, <2>4, <2>5
<1>3. CountsInv => MeterCounts
  <2> SUFFICES ASSUME CountsInv PROVE EdgesCounted /\ ScalingLoss
    BY DEF MeterCounts
  <2>1. PICK missed \in Nat : EdgesMissed(missed)
    BY DEF CountsInv
  <2>2. PICK loss \in Nat : UnitsLost(loss)
    BY DEF CountsInv
  <2>3. polls \in Nat /\ (at # "idle" => polls > 0) /\ DIV - 1 \in Nat
    BY MeterAssumption DEF CountsInv, MeterTypeOK
  <2>4. loss \in 0 .. polls * (DIV - 1)
    <3>1. CASE at = "idle"
      BY <2>2, <2>3, <3>1, MoreToLose DEF UnitsLost
    <3>2. CASE at # "idle"
      <4>1. polls - 1 \in Nat /\ polls = (polls - 1) + 1
        BY <2>3, <3>2
      <4>2. /\ (polls - 1) * (DIV - 1) \in Nat
            /\ ((polls - 1) + 1) * (DIV - 1) = (polls - 1) * (DIV - 1) + (DIV - 1)
        BY <4>1, MoreToLose
      <4>3. loss <= (polls - 1) * (DIV - 1)
        BY <2>2, <3>2 DEF UnitsLost
      <4> QED
        BY <2>3, <4>1, <4>2, <4>3
    <3> QED
      BY <3>1, <3>2
  <2> QED
    BY <2>1, <2>2, <2>4 DEF EdgesMissed, UnitsLost, EdgesCounted, ScalingLoss
<1> QED
  BY <1>1, <1>2, <1>3, PTL DEF MeterSpec

-----------------------------------------------------------------------------
(***************************************************************************)
(* WaterCounters: for every week, size of a gallon and range of a byte     *)
(* no water is lost or counted twice but what cut calls lose and leave,    *)
(* and a counter is of the day it bears (WaterAssumption).                 *)
(***************************************************************************)

(* What a call may have left to do.                                        *)
Plans ==
  {<<>>, <<"total", "date", "zero">>, <<"date", "zero">>, <<"zero">>,
   <<"total", "date", "zero", "add">>, <<"date", "zero", "add">>, <<"zero", "add">>, <<"add">>}

(* The run of a call in progress is recorded; the counter of the day is    *)
(* moved to the total; it is in the total already.                         *)
Recording == todo # <<>> /\ Last(todo) = "add"
Moving    == todo # <<>> /\ Head(todo) \in {"total", "date", "zero"}
Moved     == todo # <<>> /\ Head(todo) \in {"date", "zero"}

(* A value of the operation op is partly written.  Until all of it is, the *)
(* counters and the total are reckoned as they were before.                *)
Open(op) == bytesDone > 0 /\ todo # <<>> /\ Head(todo) = op

Counters == IF Open("add") THEN [wwCounter EXCEPT ![dow] = oldValue] ELSE wwCounter
TotalNow == IF Open("total") THEN oldValue ELSE totalWCounter

Pending == IF Recording THEN amount ELSE 0
Twice   == IF Moved THEN wwCounter[weekday(date)] ELSE 0

WaterTypes ==
  /\ date \in Dates
  /\ wwCounter \in [Weekdays -> 0 .. COUNTER - 1]
  /\ wCounterDate \in [Weekdays -> 0 .. TOTAL - 1]
  /\ totalWCounter \in 0 .. TOTAL - 1
  /\ todo \in Plans
  /\ dow \in Weekdays /\ amount \in Uses \cup {0}
  /\ bytesDone \in 0 .. 3 /\ newValue \in 0 .. TOTAL - 1 /\ oldValue \in 0 .. TOTAL - 1
  /\ bytesDone > 0 => todo # <<>>
  /\ Open("zero") \/ Open("add") =>
       bytesDone = 1 /\ newValue \in 0 .. COUNTER - 1 /\ oldValue \in 0 .. COUNTER - 1
  /\ usedOn \in [Dates -> Nat] /\ lost \in Nat /\ folds \in 0 .. MaxFolds
  /\ doubled \in Nat /\ astray \in Nat /\ cuts \in 0 .. MaxCuts
  /\ overflowed \in BOOLEAN /\ torn \in BOOLEAN

(* The value being written is the one that the values at the start of its  *)
(* writing give, and a counter that is partly written is not above it.     *)
Halfway ==
  /\ Open("total") =>
       LET sum == oldValue + wwCounter[weekday(date)] \div GALLON
       IN  newValue = sum % TOTAL /\ (sum >= TOTAL => overflowed)
  /\ Open("date") => newValue = date
  /\ Open("zero") => newValue = 0
  /\ Open("add") =>
       LET sum == oldValue + amount
       IN  /\ newValue = sum % COUNTER /\ (sum >= COUNTER => overflowed)
           /\ wwCounter[dow] <= sum

(* The head and the end of every plan.                                     *)
LEMMA PlanShapes ==
  \A p \in Plans :
    /\ p # <<>> => Tail(p) \in Plans
    /\ p # <<>> /\ Head(p) \in {"total", "date", "zero"} =>
         (Tail(p) # <<>> => Last(Tail(p)) = Last(p))
    /\ p # <<>> /\ Head(p) \in {"total", "date", "zero"} => (Tail(p) = <<>> => Last(p) = "zero")
    /\ p # <<>> /\ Head(p) = "total" => Tail(p) # <<>> /\ Head(Tail(p)) = "date"
    /\ p # <<>> /\ Head(p) = "date" => Tail(p) # <<>> /\ Head(Tail(p)) = "zero"
    /\ p # <<>> /\ Head(p) = "zero" => Tail(p) = <<>> \/ Head(Tail(p)) = "add"
    /\ p # <<>> /\ Head(p) = "add" => Tail(p) = <<>> /\ Last(p) = "add"
    /\ p # <<>> => Head(p) \in {"total", "date", "zero", "add"}
    /\ Len(p) <= 4 /\ p \in Seq({"total", "date", "zero", "add"})
<1> SUFFICES ASSUME NEW p \in Plans
             PROVE
    /\ p # <<>> => Tail(p) \in Plans
    /\ p # <<>> /\ Head(p) \in {"total", "date", "zero"} =>
         (Tail(p) # <<>> => Last(Tail(p)) = Last(p))
    /\ p # <<>> /\ Head(p) \in {"total", "date", "zero"} => (Tail(p) = <<>> => Last(p) = "zero")
    /\ p # <<>> /\ Head(p) = "total" => Tail(p) # <<>> /\ Head(Tail(p)) = "date"
    /\ p # <<>> /\ Head(p) = "date" => Tail(p) # <<>> /\ Head(Tail(p)) = "zero"
    /\ p # <<>> /\ Head(p) = "zero" => Tail(p) = <<>> \/ Head(Tail(p)) = "add"
    /\ p # <<>> /\ Head(p) = "add" => Tail(p) = <<>> /\ Last(p) = "add"
    /\ p # <<>> => Head(p) \in {"total", "date", "zero", "add"}
    /\ Len(p) <= 4 /\ p \in Seq({"total", "date", "zero", "add"})
  OBVIOUS
<1>1. CASE p = <<>>
  BY <1>1
<1>2. CASE p = <<"add">>
  BY <1>2 DEF Plans, Last
<1>3. CASE p = <<"zero">>
  BY <1>3 DEF Plans, Last
<1>4. CASE p = <<"zero", "add">>
  <2>1. Tail(p) = <<"add">> /\ Last(p) = "add" /\ Last(Tail(p)) = "add"
    BY <1>4 DEF Last
  <2> QED
    BY <1>4, <2>1 DEF Plans
<1>5. CASE p = <<"date", "zero">>
  <2>1. Tail(p) = <<"zero">> /\ Last(p) = "zero" /\ Last(Tail(p)) = "zero"
    BY <1>5 DEF Last
  <2> QED
    BY <1>5, <2>1 DEF Plans
<1>6. CASE p = <<"date", "zero", "add">>
  <2>1. Tail(p) = <<"zero", "add">> /\ Last(p) = "add" /\ Last(Tail(p)) = "add"
    BY <1>6 DEF Last
  <2> QED
    BY <1>6, <2>1 DEF Plans
<1>7. CASE p = <<"total", "date", "zero">>
  <2>1. Tail(p) = <<"date", "zero">> /\ Last(p) = "zero" /\ Last(Tail(p)) = "zero"
    BY <1>7 DEF Last
  <2> QED
    BY <1>7, <2>1 DEF Plans
<1>8. CASE p = <<"total", "date", "zero", "add">>
  <2>1. Tail(p) = <<"date", "zero", "add">> /\ Last(p) = "add" /\ Last(Tail(p)) = "add"
    BY <1>8 DEF Last
  <2> QED
    BY <1>8, <2>1 DEF Plans
<1> QED
  BY <1>1, <1>2, <1>3, <1>4, <1>5, <1>6, <1>7, <1>8 DEF Plans

(* What a call has to do when it starts.                                   *)
LEMMA PlanStarts ==
  ASSUME NEW d
  PROVE  /\ MovesOf(d) \o <<"add">> \in Plans /\ MovesOf(d) \in Plans
         /\ MovesOf(d) \o <<"add">> # <<>> /\ Last(MovesOf(d) \o <<"add">>) = "add"
         /\ IF wCounterDate[weekday(d)] # d
            THEN MovesOf(d) # <<>> /\ Head(MovesOf(d)) = "total" /\ Last(MovesOf(d)) = "zero"
                 /\ Head(MovesOf(d) \o <<"add">>) = "total"
            ELSE MovesOf(d) = <<>> /\ Head(MovesOf(d) \o <<"add">>) = "add"
<1>1. CASE wCounterDate[weekday(d)] # d
  <2>1. MovesOf(d) = <<"total", "date", "zero">>
    BY <1>1 DEF MovesOf
  <2> DEFINE S == {"total", "date", "zero", "add"}
  <2>2. MovesOf(d) \o <<"add">> = Append(MovesOf(d), "add")
    <3>1. MovesOf(d) \in Seq(S) /\ "add" \in S
      BY <2>1
    <3> HIDE DEF S
    <3> QED
      BY <3>1, AppendIsConcat
  <2>3. Append(<<"total", "date", "zero">>, "add") = <<"total", "date", "zero", "add">>
    <3> DEFINE t == <<"total", "date", "zero">>
               a == Append(t, "add")
               q == <<"total", "date", "zero", "add">>
    <3>1. t \in Seq(S) /\ "add" \in S /\ Len(t) = 3
      OBVIOUS
    <3>2. a \in Seq(S) /\ Len(a) = 4 /\ a[4] = "add" /\ \A i \in 1 .. 3 : a[i] = t[i]
      <4> HIDE DEF t, S
      <4>1. /\ a \in Seq(S) /\ Len(a) = Len(t) + 1 /\ a[Len(t) + 1] = "add"
            /\ \A i \in 1 .. Len(t) : a[i] = t[i]
        <5> DEFINE e == "add"
        <5>1. t \in Seq(S) /\ e \in S
          BY <3>1
        <5> HIDE DEF e
        <5>2. /\ Append(t, e) \in Seq(S) /\ Len(Append(t, e)) = Len(t) + 1
              /\ Append(t, e)[Len(t) + 1] = e
              /\ \A i \in 1 .. Len(t) : Append(t, e)[i] = t[i]
          BY <5>1, AppendProperties
        <5> QED
          BY <5>2 DEF e
      <4> HIDE DEF a
      <4>2. Len(t) + 1 = 4
        BY <3>1
      <4> QED
        BY <3>1, <4>1, <4>2
    <3>3. q \in Seq(S) /\ Len(q) = 4 /\ q[4] = "add" /\ \A i \in 1 .. 3 : q[i] = t[i]
      OBVIOUS
    <3> HIDE DEF a, q, S, t
    <3>4. \A i \in 1 .. Len(a) : a[i] = q[i]
      BY <3>2, <3>3
    <3>5. a = q
      BY <3>2, <3>3, <3>4, SeqEqual
    <3> QED
      BY <3>5 DEF a, q, t
  <2>4. MovesOf(d) \o <<"add">> = <<"total", "date", "zero", "add">>
    BY <2>1, <2>2, <2>3
  <2> QED
    BY <1>1, <2>1, <2>4 DEF Plans, Last
<1>2. CASE wCounterDate[weekday(d)] = d
  <2>1. MovesOf(d) = <<>>
    BY <1>2 DEF MovesOf
  <2>2. MovesOf(d) \o <<"add">> = <<"add">>
    BY <2>1
  <2> QED
    BY <1>2, <2>1, <2>2 DEF Plans, Last
<1> QED
  BY <1>1, <1>2

(* The day of the week of a date is one.                                   *)
LEMMA WeekdayOf ==
  ASSUME NEW d \in Dates
  PROVE  weekday(d) \in Weekdays
<1>1. d \in Nat /\ WEEK \in Nat \ {0}
  BY WaterAssumption DEF WaterAssumption
<1>2. d % WEEK \in 0 .. WEEK - 1
  BY <1>1
<1> QED
  BY <1>2 DEF weekday, Weekdays

-----------------------------------------------------------------------------
(* Cells of several bytes *)

(* The remainder of what is less than the divisor.                         *)
LEMMA SmallModulo ==
  ASSUME NEW w \in Nat \ {0}, NEW x \in 0 .. w - 1
  PROVE  x % w = x
<1> DEFINE q == x \div w
           s == x % w
<1>1. q \in Int /\ s \in 0 .. w - 1 /\ x = w * q + s
  BY DivMod
<1> HIDE DEF q, s
<1>2. q > 0 => w * q >= w
  BY <1>1
<1>3. q < 0 => w * q <= -w
  <2>1. q < 0 => w * (q + 1) <= 0
    BY <1>1
  <2>2. w * (q + 1) = w * q + w
    BY <1>1
  <2> QED
    BY <1>1, <2>1, <2>2
<1>4. q = 0 => w * q = 0
  OBVIOUS
<1>5. w * q \in Int
  BY <1>1
<1>6. s = x
  BY <1>1, <1>2, <1>3, <1>4, <1>5
<1> QED
  BY <1>6 DEF s

(* The low part of a number replaced by that of another: what is below     *)
(* p * q stays so.                                                         *)
LEMMA LowPartReplaced ==
  ASSUME NEW p \in Nat \ {0}, NEW q \in Nat \ {0}, NEW c \in 0 .. p * q - 1, NEW v \in Nat
  PROVE  (c \div p) * p + (v % p) \in 0 .. p * q - 1
<1> DEFINE d == c \div p
           r == c % p
           s == v % p
<1>0. c \in Int /\ p * q \in Int
  OBVIOUS
<1>1. d \in Int /\ r \in 0 .. p - 1 /\ c = p * d + r
  BY <1>0, DivMod
<1>2. s \in 0 .. p - 1
  BY DivMod
<1> HIDE DEF d, r, s
<1>3. d >= 0
  <2>1. d < 0 => p * (d + 1) <= 0
    BY <1>1
  <2>2. p * (d + 1) = p * d + p
    BY <1>1
  <2>3. p * d \in Int
    BY <1>1
  <2> QED
    BY <1>0, <1>1, <2>1, <2>2, <2>3
<1>4. d <= q - 1
  <2>1. d >= q => p * (d - q) >= 0
    BY <1>1
  <2>2. p * (d - q) = p * d - p * q
    BY <1>1
  <2>3. p * d \in Int
    BY <1>1
  <2> QED
    BY <1>0, <1>1, <2>1, <2>2, <2>3
<1>5. p * (q - 1 - d) >= 0 /\ p * (q - 1 - d) = p * q - p - p * d /\ p * d >= 0
      /\ p * d = d * p /\ p * d \in Int
  BY <1>1, <1>3, <1>4
<1>6. d * p + s \in 0 .. p * q - 1
  BY <1>0, <1>2, <1>5
<1> QED
  BY <1>6 DEF d, s

(* All of a number replaced.                                               *)
LEMMA AllReplaced ==
  ASSUME NEW p \in Nat \ {0}, NEW c \in 0 .. p - 1, NEW v \in 0 .. p - 1
  PROVE  (c \div p) * p + (v % p) = v
<1> DEFINE d == c \div p
<1>1. d \in Int /\ c = p * d + (c % p) /\ c \in Int
  BY DivMod
<1>2. c % p = c /\ v % p = v
  BY SmallModulo
<1> HIDE DEF d
<1>3. p * d = d * p /\ p * d \in Int
  BY <1>1
<1>4. d * p = 0
  BY <1>1, <1>2, <1>3
<1>5. d * p + (v % p) = v
  BY <1>2, <1>4
<1> QED
  BY <1>5 DEF d

(* The ranges of one to four bytes.                                        *)
LEMMA Powers ==
  /\ CELL \in Nat \ {0} /\ COUNTER \in Nat \ {0} /\ TOTAL \in Nat \ {0} /\ COUNTER <= TOTAL
  /\ COUNTER * CELL \in Nat \ {0} /\ CELL * COUNTER \in Nat \ {0}
  /\ Power[1] = CELL /\ Power[2] = COUNTER /\ Power[3] = COUNTER * CELL /\ Power[4] = TOTAL
  /\ COUNTER = CELL * CELL /\ TOTAL = CELL * (CELL * COUNTER)
  /\ TOTAL = COUNTER * COUNTER /\ TOTAL = (COUNTER * CELL) * CELL
<1> DEFINE k == COUNTER
<1>1. CELL \in Nat \ {0} /\ COUNTER = CELL * CELL /\ TOTAL = k * k
  BY WaterAssumption DEF WaterAssumption, COUNTER, TOTAL
<1>2. k \in Nat \ {0}
  BY <1>1
<1>3. k * CELL \in Nat \ {0} /\ CELL * k = k * CELL /\ k * k \in Nat \ {0} /\ k <= k * k
  <2>1. k * (k - 1) >= 0 /\ k * (k - 1) = k * k - k
    BY <1>2
  <2> HIDE DEF k
  <2>2. k * CELL >= 1 /\ k * k >= 1
    BY <1>1, <1>2
  <2> QED
    BY <1>1, <1>2, <2>1, <2>2
<1>4. k * k = (k * CELL) * CELL
  <2> HIDE DEF k
  <2>1. k * (CELL * CELL) = (k * CELL) * CELL
    BY <1>1, <1>2
  <2> QED
    BY <1>1, <2>1 DEF k
<1>5. k * k = CELL * (CELL * k)
  <2> HIDE DEF k
  <2>1. (CELL * CELL) * k = CELL * (CELL * k)
    BY <1>1, <1>2
  <2> QED
    BY <1>1, <2>1 DEF k
<1>6. Power[1] = CELL /\ Power[2] = COUNTER /\ Power[3] = COUNTER * CELL /\ Power[4] = TOTAL
  BY DEF Power
<1> QED
  BY <1>1, <1>2, <1>3, <1>4, <1>5, <1>6

(* A counter with bytes of a counter is one, and its second byte is its    *)
(* last.                                                                   *)
LEMMA MixedCounter ==
  ASSUME NEW c \in 0 .. COUNTER - 1, NEW v \in 0 .. COUNTER - 1
  PROVE  /\ Mixed(c, v, 1) \in 0 .. COUNTER - 1
         /\ Mixed(c, v, 2) = v
<1>1. /\ CELL \in Nat \ {0} /\ COUNTER \in Nat \ {0} /\ COUNTER = CELL * CELL
      /\ Power[1] = CELL /\ Power[2] = COUNTER /\ v \in Nat
  BY Powers
<1>2. (c \div CELL) * CELL + (v % CELL) \in 0 .. CELL * CELL - 1
  BY <1>1, LowPartReplaced
<1>3. (c \div COUNTER) * COUNTER + (v % COUNTER) = v
  BY <1>1, AllReplaced
<1> QED
  BY <1>1, <1>2, <1>3 DEF Mixed

(* A double word with bytes of a double word is one, and its fourth byte   *)
(* is its last.                                                            *)
LEMMA MixedTotal ==
  ASSUME NEW c \in 0 .. TOTAL - 1, NEW v \in 0 .. TOTAL - 1
  PROVE  /\ \A k \in 1 .. 4 : Mixed(c, v, k) \in 0 .. TOTAL - 1
         /\ Mixed(c, v, 4) = v
<1> DEFINE n == CELL * COUNTER
           o == COUNTER * CELL
<1>1. /\ CELL \in Nat \ {0} /\ COUNTER \in Nat \ {0} /\ n \in Nat \ {0} /\ o \in Nat \ {0}
      /\ TOTAL = CELL * n /\ TOTAL = COUNTER * COUNTER /\ TOTAL = o * CELL
      /\ Power[1] = CELL /\ Power[2] = COUNTER /\ Power[3] = o /\ Power[4] = TOTAL
      /\ v \in Nat /\ TOTAL \in Nat \ {0}
  BY Powers
<1> HIDE DEF n, o
<1>2. (c \div CELL) * CELL + (v % CELL) \in 0 .. TOTAL - 1
  BY <1>1, LowPartReplaced
<1>3. (c \div COUNTER) * COUNTER + (v % COUNTER) \in 0 .. TOTAL - 1
  BY <1>1, LowPartReplaced
<1>4. (c \div o) * o + (v % o) \in 0 .. TOTAL - 1
  BY <1>1, LowPartReplaced
<1>5. (c \div TOTAL) * TOTAL + (v % TOTAL) = v
  BY <1>1, AllReplaced
<1>6. /\ Mixed(c, v, 1) \in 0 .. TOTAL - 1 /\ Mixed(c, v, 2) \in 0 .. TOTAL - 1
      /\ Mixed(c, v, 3) \in 0 .. TOTAL - 1 /\ Mixed(c, v, 4) = v
  BY <1>1, <1>2, <1>3, <1>4, <1>5 DEF Mixed
<1> QED
  BY <1>6

(* With the low byte of a larger number a counter stays below that number. *)
LEMMA MixedBelow ==
  ASSUME NEW c \in 0 .. COUNTER - 1, NEW a \in Nat
  PROVE  Mixed(c, (c + a) % COUNTER, 1) <= c + a
<1> DEFINE d == c \div CELL
           r == c % CELL
           m == (c + a) % COUNTER
           j == (c + a) \div COUNTER
           e == m \div CELL
           s == m % CELL
<1>0. CELL \in Nat \ {0} /\ COUNTER \in Nat \ {0} /\ COUNTER = CELL * CELL /\ Power[1] = CELL
      /\ c \in Nat /\ c + a \in Nat
  BY Powers
<1>1. d \in Int /\ r \in 0 .. CELL - 1 /\ c = CELL * d + r
  <2>1. c \in Int
    BY <1>0
  <2> HIDE DEF m, j, e, s
  <2> QED
    BY <1>0, <2>1, DivMod
<1>2. j \in Int /\ m \in 0 .. COUNTER - 1 /\ c + a = COUNTER * j + m
  <2> DEFINE x == c + a
  <2>1. x \in Int /\ COUNTER \in Nat \ {0}
    BY <1>0
  <2> HIDE DEF x
  <2>2. x \div COUNTER \in Int /\ x % COUNTER \in 0 .. COUNTER - 1
        /\ x = COUNTER * (x \div COUNTER) + (x % COUNTER)
    BY <2>1, DivMod
  <2> QED
    BY <2>2 DEF x
<1>3. e \in Int /\ s \in 0 .. CELL - 1 /\ m = CELL * e + s
  <2>1. m \in Int
    BY <1>0, <1>2
  <2> HIDE DEF m
  <2> QED
    BY <1>0, <2>1, DivMod
<1>4. Mixed(c, m, 1) = d * CELL + s
  BY <1>0 DEF Mixed
<1> HIDE DEF d, r, m, j, e, s
<1> DEFINE n == CELL * j
           k == n + e - d
<1>5. n \in Int /\ k \in Int /\ COUNTER * j = CELL * n
  BY <1>0, <1>1, <1>2, <1>3
<1>6. CELL * k = CELL * n + CELL * e - CELL * d /\ CELL * k \in Int
      /\ CELL * n \in Int /\ CELL * e \in Int /\ CELL * d \in Int /\ d * CELL = CELL * d
  <2> HIDE DEF n
  <2> QED
    BY <1>0, <1>1, <1>3, <1>5
<1>7. r + a = CELL * k + s
  BY <1>0, <1>1, <1>2, <1>3, <1>5, <1>6
<1> HIDE DEF n, k
<1>8. k >= 0
  <2>1. k < 0 => CELL * (k + 1) <= 0
    BY <1>0, <1>5
  <2>2. CELL * (k + 1) = CELL * k + CELL
    BY <1>0, <1>5
  <2> QED
    BY <1>0, <1>1, <1>3, <1>5, <1>6, <1>7, <2>1, <2>2
<1>9. CELL * k >= 0
  BY <1>0, <1>5, <1>8
<1>10. d * CELL + s <= c + a
  BY <1>0, <1>1, <1>3, <1>6, <1>7, <1>9
<1> QED
  BY <1>4, <1>10 DEF m

-----------------------------------------------------------------------------
(* One byte of a write *)

(* Numbers that can be counted with.                                       *)
LEMMA WaterNumbers ==
  ASSUME WaterTypes
  PROVE  /\ \A w \in Weekdays : wwCounter[w] \in Nat /\ wwCounter[w] \in 0 .. COUNTER - 1
         /\ \A w \in Weekdays : wCounterDate[w] \in 0 .. TOTAL - 1
         /\ \A d : UsedOn(d) \in Nat
         /\ weekday(date) \in Weekdays /\ dow \in Weekdays /\ amount \in Nat /\ astray \in Nat
         /\ date \in 0 .. TOTAL - 1 /\ doubled \in Nat /\ lost \in Nat /\ folds \in Nat
         /\ totalWCounter \in Nat /\ oldValue \in Nat /\ newValue \in Nat /\ bytesDone \in Nat
<1>1. COUNTER \in Nat \ {0} /\ TOTAL \in Nat \ {0} /\ Uses \subseteq Nat /\ MaxFolds \in Nat
      /\ Dates \subseteq 0 .. TOTAL - 1 /\ weekday(date) \in Weekdays
  BY WaterAssumption, WeekdayOf, Powers DEF WaterAssumption, WaterTypes
<1>2. \A d : UsedOn(d) \in Nat
  BY DEF UsedOn, WaterTypes
<1> QED
  BY <1>1, <1>2 DEF WaterTypes

(* A value goes on being written, or has been written.                     *)
GoesOn == bytesDone' \in 1 .. 3 /\ todo' = todo
IsDone == bytesDone' = 0 /\ newValue' = 0 /\ oldValue' = 0 /\ todo' = Tail(todo)

(* What a byte of a counter does: the first one takes its value from the   *)
(* counter, and the second is the last.                                    *)
LEMMA ByteOfCounter ==
  ASSUME WaterTypes, todo # <<>>, Head(todo) \in {"zero", "add"},
         NEW c \in 0 .. COUNTER - 1, NEW v \in 0 .. COUNTER - 1, NextByte(c, v, 2)
  PROVE  /\ Byte(c, v) \in 0 .. COUNTER - 1
         /\ \/ /\ bytesDone = 0 /\ GoesOn /\ bytesDone' = 1 /\ newValue' = v /\ oldValue' = c
               /\ Byte(c, v) = Mixed(c, v, 1)
            \/ bytesDone = 1 /\ IsDone /\ Byte(c, v) = newValue
<1>1. CASE bytesDone = 0
  <2>1. Byte(c, v) = Mixed(c, v, 1)
    BY <1>1 DEF Byte
  <2>2. GoesOn /\ bytesDone' = 1 /\ newValue' = v /\ oldValue' = c
    BY <1>1 DEF NextByte, GoesOn
  <2> QED
    BY <1>1, <2>1, <2>2, MixedCounter
<1>2. CASE bytesDone # 0
  <2>1. bytesDone = 1 /\ newValue \in 0 .. COUNTER - 1
    BY <1>2 DEF WaterTypes, Open
  <2>2. Byte(c, v) = Mixed(c, newValue, 2)
    BY <2>1 DEF Byte
  <2>3. IsDone
    BY <2>1 DEF NextByte, IsDone
  <2> QED
    BY <2>1, <2>2, <2>3, MixedCounter
<1> QED
  BY <1>1, <1>2

(* What a byte of a double word does: the first one takes its value from   *)
(* the cell, and the fourth is the last.                                   *)
LEMMA ByteOfTotal ==
  ASSUME WaterTypes, NEW c \in 0 .. TOTAL - 1, NEW v \in 0 .. TOTAL - 1, NextByte(c, v, 4)
  PROVE  /\ Byte(c, v) \in 0 .. TOTAL - 1
         /\ \/ bytesDone = 0 /\ GoesOn /\ newValue' = v /\ oldValue' = c
            \/ bytesDone \in 1 .. 2 /\ GoesOn /\ newValue' = newValue /\ oldValue' = oldValue
            \/ bytesDone = 3 /\ IsDone /\ Byte(c, v) = newValue
<1>0. bytesDone \in 0 .. 3 /\ newValue \in 0 .. TOTAL - 1
  BY DEF WaterTypes
<1>1. CASE bytesDone = 0
  <2>1. Byte(c, v) = Mixed(c, v, 1)
    BY <1>1 DEF Byte
  <2>2. GoesOn /\ newValue' = v /\ oldValue' = c
    BY <1>1 DEF NextByte, GoesOn
  <2> QED
    BY <1>1, <2>1, <2>2, MixedTotal
<1>2. CASE bytesDone \in 1 .. 2
  <2>1. Byte(c, v) = Mixed(c, newValue, bytesDone + 1) /\ bytesDone + 1 \in 1 .. 4
    BY <1>2 DEF Byte
  <2>2. GoesOn /\ newValue' = newValue /\ oldValue' = oldValue
    BY <1>2 DEF NextByte, GoesOn
  <2> QED
    BY <1>0, <1>2, <2>1, <2>2, MixedTotal
<1>3. CASE bytesDone = 3
  <2>1. Byte(c, v) = Mixed(c, newValue, 4)
    BY <1>3 DEF Byte
  <2>2. IsDone
    BY <1>3 DEF NextByte, IsDone
  <2> QED
    BY <1>0, <1>3, <2>1, <2>2, MixedTotal
<1> QED
  BY <1>0, <1>1, <1>2, <1>3

(* A byte of the total leaves the total reckoned as it was until the last, *)
(* which adds the gallons of the counter.                                  *)
LEMMA WriteOfTotal ==
  ASSUME WaterTypes, Halfway, EepromWrite, Head(todo) = "total"
  PROVE  /\ UNCHANGED <<wwCounter, wCounterDate>> /\ totalWCounter' \in 0 .. TOTAL - 1
         /\ overflowed' \in BOOLEAN /\ (overflowed => overflowed')
         /\ folds' \in 0 .. MaxFolds
         /\ LET sum == TotalNow + wwCounter[weekday(date)] \div GALLON
            IN  \/ /\ GoesOn /\ newValue' = sum % TOTAL /\ (sum >= TOTAL => overflowed')
                   /\ newValue' \in 0 .. TOTAL - 1 /\ oldValue' = TotalNow /\ folds' = folds
                \/ /\ bytesDone > 0 /\ IsDone /\ folds' = folds + 1
                   /\ ~overflowed' => totalWCounter' = sum
<1> DEFINE c == wwCounter[weekday(date)] \div GALLON
           sum == TotalNow + c
           now == totalWCounter + c
<1>0. /\ todo # <<>> /\ c \in Nat /\ TotalNow \in 0 .. TOTAL - 1 /\ totalWCounter \in 0 .. TOTAL - 1
      /\ TOTAL \in Nat \ {0} /\ folds \in 0 .. MaxFolds /\ MaxFolds \in Nat /\ overflowed \in BOOLEAN
  <2>1. GALLON \in Nat \ {0} /\ wwCounter[weekday(date)] \in Nat /\ MaxFolds \in Nat
    BY WaterNumbers, WaterAssumption DEF WaterAssumption
  <2>2. c \in Nat
    BY <2>1
  <2> QED
    BY <2>1, <2>2, Powers DEF EepromWrite, WaterTypes, TotalNow
<1>1. /\ totalWCounter' = Byte(totalWCounter, now % TOTAL)
      /\ NextByte(totalWCounter, now % TOTAL, 4)
      /\ overflowed' = (overflowed \/ (bytesDone = 0 /\ now >= TOTAL))
      /\ folds < MaxFolds /\ folds' = IF bytesDone' = 0 THEN folds + 1 ELSE folds
      /\ UNCHANGED <<wwCounter, wCounterDate>>
  BY DEF EepromWrite, SetTotalWCounter, SetWCounterDate, ClearWWCounter, AddToWWCounter
<1>2. bytesDone = 0 => TotalNow = totalWCounter
  BY DEF TotalNow, Open
<1>3. bytesDone > 0 => /\ TotalNow = oldValue /\ newValue = sum % TOTAL
                       /\ (sum >= TOTAL => overflowed)
  BY <1>0 DEF TotalNow, Open, Halfway
<1> HIDE DEF c
<1>4. now \in Nat /\ sum \in Nat
  BY <1>0
<1> HIDE DEF now, sum
<1>5. now % TOTAL \in 0 .. TOTAL - 1 /\ sum % TOTAL \in 0 .. TOTAL - 1
  BY <1>0, <1>4, DivMod
<1>6. bytesDone = 0 => now = sum
  BY <1>2 DEF now, sum
<1>7. /\ Byte(totalWCounter, now % TOTAL) \in 0 .. TOTAL - 1
      /\ \/ bytesDone = 0 /\ GoesOn /\ newValue' = now % TOTAL /\ oldValue' = totalWCounter
         \/ bytesDone \in 1 .. 2 /\ GoesOn /\ newValue' = newValue /\ oldValue' = oldValue
         \/ bytesDone = 3 /\ IsDone /\ Byte(totalWCounter, now % TOTAL) = newValue
  <2> DEFINE v == now % TOTAL
  <2>1. v \in 0 .. TOTAL - 1 /\ NextByte(totalWCounter, v, 4)
    BY <1>1, <1>5
  <2> HIDE DEF v
  <2>2. /\ Byte(totalWCounter, v) \in 0 .. TOTAL - 1
        /\ \/ bytesDone = 0 /\ GoesOn /\ newValue' = v /\ oldValue' = totalWCounter
           \/ bytesDone \in 1 .. 2 /\ GoesOn /\ newValue' = newValue /\ oldValue' = oldValue
           \/ bytesDone = 3 /\ IsDone /\ Byte(totalWCounter, v) = newValue
    BY <1>0, <2>1, ByteOfTotal
  <2> QED
    BY <2>2 DEF v
<1>8. totalWCounter' \in 0 .. TOTAL - 1
  BY <1>1, <1>7
<1>9. overflowed' \in BOOLEAN /\ (overflowed => overflowed')
  BY <1>0, <1>1
<1>10. folds' \in 0 .. MaxFolds
  BY <1>0, <1>1
<1>11. CASE bytesDone = 0 /\ GoesOn /\ newValue' = now % TOTAL /\ oldValue' = totalWCounter
  <2>1. sum >= TOTAL => overflowed'
    BY <1>0, <1>1, <1>6, <1>11
  <2>2. folds' = folds
    BY <1>1, <1>11 DEF GoesOn
  <2>3. newValue' = sum % TOTAL /\ newValue' \in 0 .. TOTAL - 1 /\ oldValue' = TotalNow
    BY <1>2, <1>5, <1>6, <1>11
  <2> QED
    BY <1>1, <1>8, <1>9, <1>10, <1>11, <2>1, <2>2, <2>3 DEF sum, c
<1>12. CASE bytesDone \in 1 .. 2 /\ GoesOn /\ newValue' = newValue /\ oldValue' = oldValue
  <2>1. sum >= TOTAL => overflowed'
    BY <1>3, <1>9, <1>12
  <2>2. folds' = folds
    BY <1>1, <1>12 DEF GoesOn
  <2>3. newValue' = sum % TOTAL /\ newValue' \in 0 .. TOTAL - 1 /\ oldValue' = TotalNow
    BY <1>3, <1>5, <1>12
  <2> QED
    BY <1>1, <1>8, <1>9, <1>10, <1>12, <2>1, <2>2, <2>3 DEF sum, c
<1>13. CASE bytesDone = 3 /\ IsDone /\ Byte(totalWCounter, now % TOTAL) = newValue
  <2>1. folds' = folds + 1 /\ bytesDone > 0
    BY <1>1, <1>13 DEF IsDone
  <2>2. ~overflowed' => totalWCounter' = sum
    <3>1. totalWCounter' = sum % TOTAL
      BY <1>1, <1>3, <1>13, <2>1
    <3>2. ~overflowed' => sum \in 0 .. TOTAL - 1
      BY <1>0, <1>3, <1>4, <1>9, <2>1
    <3> QED
      BY <1>0, <3>1, <3>2, SmallModulo
  <2> QED
    BY <1>1, <1>8, <1>9, <1>10, <1>13, <2>1, <2>2 DEF sum, c
<1> QED
  BY <1>7, <1>11, <1>12, <1>13

(* The last byte of a date makes it today's.                               *)
LEMMA WriteOfDate ==
  ASSUME WaterTypes, Halfway, EepromWrite, Head(todo) = "date"
  PROVE  /\ UNCHANGED <<wwCounter, totalWCounter, folds, overflowed>>
         /\ wCounterDate' \in [Weekdays -> 0 .. TOTAL - 1]
         /\ \A w \in Weekdays \ {weekday(date)} : wCounterDate'[w] = wCounterDate[w]
         /\ \/ /\ GoesOn /\ newValue' = date
               /\ newValue' \in 0 .. TOTAL - 1 /\ oldValue' \in 0 .. TOTAL - 1
            \/ bytesDone > 0 /\ IsDone /\ wCounterDate'[weekday(date)] = date
<1> DEFINE w0 == weekday(date)
           c == wCounterDate[w0]
<1>1. /\ wCounterDate' = [wCounterDate EXCEPT ![w0] = Byte(c, date)] /\ NextByte(c, date, 4)
      /\ UNCHANGED <<wwCounter, totalWCounter, folds, overflowed>>
  BY DEF EepromWrite, SetTotalWCounter, SetWCounterDate, ClearWWCounter, AddToWWCounter
<1>2. /\ todo # <<>> /\ w0 \in Weekdays /\ c \in 0 .. TOTAL - 1 /\ date \in 0 .. TOTAL - 1
      /\ wCounterDate \in [Weekdays -> 0 .. TOTAL - 1] /\ oldValue \in 0 .. TOTAL - 1
  BY WaterNumbers DEF EepromWrite, WaterTypes
<1>3. bytesDone > 0 => newValue = date
  BY <1>2 DEF Halfway, Open
<1> HIDE DEF w0, c
<1>4. /\ Byte(c, date) \in 0 .. TOTAL - 1
      /\ \/ bytesDone = 0 /\ GoesOn /\ newValue' = date /\ oldValue' = c
         \/ bytesDone \in 1 .. 2 /\ GoesOn /\ newValue' = newValue /\ oldValue' = oldValue
         \/ bytesDone = 3 /\ IsDone /\ Byte(c, date) = newValue
  BY <1>1, <1>2, ByteOfTotal
<1>5. /\ wCounterDate' \in [Weekdays -> 0 .. TOTAL - 1] /\ wCounterDate'[w0] = Byte(c, date)
      /\ \A w \in Weekdays \ {w0} : wCounterDate'[w] = wCounterDate[w]
  BY <1>1, <1>2, <1>4
<1> QED
  BY <1>1, <1>2, <1>3, <1>4, <1>5 DEF w0

(* The last byte clears a counter.                                         *)
LEMMA WriteOfZero ==
  ASSUME WaterTypes, Halfway, EepromWrite, Head(todo) = "zero"
  PROVE  /\ UNCHANGED <<wCounterDate, totalWCounter, folds, overflowed>>
         /\ wwCounter' \in [Weekdays -> 0 .. COUNTER - 1]
         /\ \E v \in 0 .. COUNTER - 1 :
              wwCounter' = [wwCounter EXCEPT ![weekday(date)] = v]
              /\ \/ /\ GoesOn /\ bytesDone' = 1 /\ newValue' = 0
                    /\ oldValue' \in 0 .. COUNTER - 1
                 \/ bytesDone > 0 /\ IsDone /\ v = 0
<1> DEFINE w0 == weekday(date)
           c == wwCounter[w0]
<1>1. /\ wwCounter' = [wwCounter EXCEPT ![w0] = Byte(c, 0)] /\ NextByte(c, 0, 2)
      /\ UNCHANGED <<wCounterDate, totalWCounter, folds, overflowed>>
  BY DEF EepromWrite, SetTotalWCounter, SetWCounterDate, ClearWWCounter, AddToWWCounter
<1>2. /\ todo # <<>> /\ w0 \in Weekdays /\ c \in 0 .. COUNTER - 1 /\ 0 \in 0 .. COUNTER - 1
      /\ wwCounter \in [Weekdays -> 0 .. COUNTER - 1]
  BY WaterNumbers, Powers DEF EepromWrite, WaterTypes
<1>3. bytesDone > 0 => newValue = 0
  BY <1>2 DEF Halfway, Open
<1> HIDE DEF w0, c
<1>4. /\ Byte(c, 0) \in 0 .. COUNTER - 1
      /\ \/ bytesDone = 0 /\ GoesOn /\ bytesDone' = 1 /\ newValue' = 0 /\ oldValue' = c
         \/ bytesDone = 1 /\ IsDone /\ Byte(c, 0) = newValue
  BY <1>1, <1>2, ByteOfCounter
<1>5. wwCounter' \in [Weekdays -> 0 .. COUNTER - 1]
  BY <1>1, <1>2, <1>4
<1> DEFINE b == Byte(c, 0)
<1>6. /\ b \in 0 .. COUNTER - 1 /\ wwCounter' = [wwCounter EXCEPT ![w0] = b]
      /\ \/ GoesOn /\ bytesDone' = 1 /\ newValue' = 0 /\ oldValue' \in 0 .. COUNTER - 1
         \/ bytesDone > 0 /\ IsDone /\ b = 0
  BY <1>1, <1>2, <1>3, <1>4
<1> HIDE DEF b
<1> QED
  BY <1>1, <1>5, <1>6 DEF w0

(* A byte of the day's counter leaves the counters reckoned as they were   *)
(* until the last, which adds the water used.                              *)
LEMMA WriteOfAdd ==
  ASSUME WaterTypes, Halfway, EepromWrite, Head(todo) = "add"
  PROVE  /\ UNCHANGED <<wCounterDate, totalWCounter, folds>>
         /\ wwCounter' \in [Weekdays -> 0 .. COUNTER - 1]
         /\ overflowed' \in BOOLEAN /\ (overflowed => overflowed')
         /\ Counters \in [Weekdays -> 0 .. COUNTER - 1]
         /\ LET sum == Counters[dow] + amount
            IN  \/ /\ GoesOn /\ bytesDone = 0 /\ bytesDone' = 1 /\ newValue' = sum % COUNTER
                   /\ newValue' \in 0 .. COUNTER - 1 /\ oldValue' = Counters[dow]
                   /\ sum >= COUNTER => overflowed'
                   /\ wwCounter'[dow] <= sum
                   /\ [wwCounter' EXCEPT ![dow] = oldValue'] = Counters
                \/ /\ bytesDone > 0 /\ IsDone
                   /\ wwCounter' = [Counters EXCEPT ![dow] = sum % COUNTER]
                   /\ sum >= COUNTER => overflowed'
<1> DEFINE c == wwCounter[dow]
           now == c + amount
           sum == Counters[dow] + amount
<1>1. /\ wwCounter' = [wwCounter EXCEPT ![dow] = Byte(c, now % COUNTER)]
      /\ NextByte(c, now % COUNTER, 2)
      /\ overflowed' = (overflowed \/ (bytesDone = 0 /\ now >= COUNTER))
      /\ UNCHANGED <<wCounterDate, totalWCounter, folds>>
  BY DEF EepromWrite, SetTotalWCounter, SetWCounterDate, ClearWWCounter, AddToWWCounter
<1>2. /\ todo # <<>> /\ dow \in Weekdays /\ c \in 0 .. COUNTER - 1 /\ amount \in Nat
      /\ wwCounter \in [Weekdays -> 0 .. COUNTER - 1] /\ COUNTER \in Nat \ {0}
      /\ overflowed \in BOOLEAN
  BY WaterNumbers, Powers DEF EepromWrite, WaterTypes
<1>3. bytesDone = 0 => Counters = wwCounter
  BY DEF Counters, Open
<1>4. bytesDone > 0 => /\ oldValue \in 0 .. COUNTER - 1 /\ newValue \in 0 .. COUNTER - 1
                       /\ Counters = [wwCounter EXCEPT ![dow] = oldValue]
                       /\ Counters[dow] = oldValue
  BY <1>2 DEF Counters, Open, WaterTypes
<1>5. bytesDone > 0 => newValue = sum % COUNTER /\ (sum >= COUNTER => overflowed)
  <2>1. bytesDone > 0 => LET s == oldValue + amount
                         IN  newValue = s % COUNTER /\ (s >= COUNTER => overflowed)
    BY <1>2 DEF Open, Halfway
  <2> QED
    BY <1>4, <2>1
<1>6. Counters \in [Weekdays -> 0 .. COUNTER - 1]
  <2>1. bytesDone \in 0 .. 3
    BY DEF WaterTypes
  <2> QED
    BY <1>2, <1>3, <1>4, <2>1
<1>7. now \in Nat /\ sum \in Nat
  BY <1>2, <1>6
<1>8. now % COUNTER \in 0 .. COUNTER - 1 /\ sum % COUNTER \in 0 .. COUNTER - 1
  <2> HIDE DEF now, sum
  <2> QED
    BY <1>2, <1>7, DivMod
<1>9. /\ Byte(c, now % COUNTER) \in 0 .. COUNTER - 1
      /\ \/ /\ bytesDone = 0 /\ GoesOn /\ bytesDone' = 1
            /\ newValue' = now % COUNTER /\ oldValue' = c
            /\ Byte(c, now % COUNTER) = Mixed(c, now % COUNTER, 1)
         \/ bytesDone = 1 /\ IsDone /\ Byte(c, now % COUNTER) = newValue
  <2> DEFINE v == now % COUNTER
  <2>1. v \in 0 .. COUNTER - 1 /\ NextByte(c, v, 2) /\ Head(todo) \in {"zero", "add"}
    BY <1>1, <1>8
  <2> HIDE DEF v, c, now
  <2>2. /\ Byte(c, v) \in 0 .. COUNTER - 1
        /\ \/ /\ bytesDone = 0 /\ GoesOn /\ bytesDone' = 1 /\ newValue' = v /\ oldValue' = c
              /\ Byte(c, v) = Mixed(c, v, 1)
           \/ bytesDone = 1 /\ IsDone /\ Byte(c, v) = newValue
    BY <1>2, <2>1, ByteOfCounter
  <2> QED
    BY <2>2 DEF v
<1>10. wwCounter' \in [Weekdays -> 0 .. COUNTER - 1] /\ wwCounter'[dow] = Byte(c, now % COUNTER)
  BY <1>1, <1>2, <1>9
<1>11. overflowed' \in BOOLEAN /\ (overflowed => overflowed')
  BY <1>1, <1>2
<1>12. CASE /\ bytesDone = 0 /\ GoesOn /\ bytesDone' = 1
            /\ newValue' = now % COUNTER /\ oldValue' = c
            /\ Byte(c, now % COUNTER) = Mixed(c, now % COUNTER, 1)
  <2>1. now = sum /\ c = Counters[dow]
    BY <1>3, <1>12
  <2>2. Mixed(c, now % COUNTER, 1) <= now
    BY <1>2, MixedBelow
  <2>3. sum >= COUNTER => overflowed'
    BY <1>1, <1>12, <2>1
  <2>4. [wwCounter' EXCEPT ![dow] = oldValue'] = Counters
    <3>1. wwCounter = Counters /\ oldValue' = wwCounter[dow]
      BY <1>3, <1>12
    <3> QED
      BY <1>1, <1>2, <3>1
  <2>5. wwCounter'[dow] <= sum
    BY <1>10, <1>12, <2>1, <2>2
  <2> HIDE DEF now
  <2> QED
    BY <1>1, <1>6, <1>8, <1>10, <1>11, <1>12, <2>1, <2>3, <2>4, <2>5
<1>13. CASE bytesDone = 1 /\ IsDone /\ Byte(c, now % COUNTER) = newValue
  <2>1. wwCounter' = [Counters EXCEPT ![dow] = sum % COUNTER]
    <3>1. wwCounter' = [wwCounter EXCEPT ![dow] = newValue]
      BY <1>1, <1>13
    <3>2. Counters = [wwCounter EXCEPT ![dow] = oldValue] /\ newValue = sum % COUNTER
      BY <1>4, <1>5, <1>13
    <3> HIDE DEF sum
    <3> QED
      BY <1>2, <3>1, <3>2
  <2>2. sum >= COUNTER => overflowed'
    BY <1>5, <1>11, <1>13
  <2>3. bytesDone > 0 /\ IsDone /\ UNCHANGED <<wCounterDate, totalWCounter, folds>>
    BY <1>1, <1>13
  <2>4. wwCounter' \in [Weekdays -> 0 .. COUNTER - 1]
    BY <1>10
  <2> HIDE DEF c, now
  <2> QED
    BY <1>6, <1>11, <2>1, <2>2, <2>3, <2>4
<1> QED
  BY <1>9, <1>12, <1>13

-----------------------------------------------------------------------------
(* Types *)

(* A write keeps the types, and goes on with the value it began with.      *)
LEMMA WriteTypes ==
  ASSUME WaterTypes, Halfway, EepromWrite
  PROVE  WaterTypes' /\ Halfway'
<1>0. /\ todo # <<>> /\ todo \in Plans
      /\ UNCHANGED <<date, dow, amount, usedOn, lost, doubled, astray, cuts, torn>>
      /\ weekday(date)' = weekday(date)
      /\ Head(todo) \in {"total", "date", "zero", "add"} /\ Tail(todo) \in Plans
  BY PlanShapes DEF EepromWrite, WaterTypes, weekday
<1>1. COUNTER <= TOTAL /\ 0 \in 0 .. TOTAL - 1 /\ COUNTER \in Nat /\ TOTAL \in Nat
  BY Powers
<1>2. ASSUME \/ /\ GoesOn /\ newValue' \in 0 .. TOTAL - 1 /\ oldValue' \in 0 .. TOTAL - 1
                /\ Head(todo) \in {"zero", "add"} =>
                     /\ bytesDone' = 1 /\ newValue' \in 0 .. COUNTER - 1
                     /\ oldValue' \in 0 .. COUNTER - 1
             \/ IsDone
      PROVE  /\ todo' \in Plans /\ bytesDone' \in 0 .. 3
             /\ newValue' \in 0 .. TOTAL - 1 /\ oldValue' \in 0 .. TOTAL - 1
             /\ bytesDone' > 0 => todo' # <<>>
             /\ Open("zero")' \/ Open("add")' =>
                  /\ bytesDone' = 1 /\ newValue' \in 0 .. COUNTER - 1
                  /\ oldValue' \in 0 .. COUNTER - 1
  <2>1. CASE IsDone
    BY <1>0, <1>1, <2>1 DEF IsDone, Open
  <2>2. CASE /\ GoesOn /\ newValue' \in 0 .. TOTAL - 1 /\ oldValue' \in 0 .. TOTAL - 1
             /\ Head(todo) \in {"zero", "add"} =>
                  /\ bytesDone' = 1 /\ newValue' \in 0 .. COUNTER - 1
                  /\ oldValue' \in 0 .. COUNTER - 1
    <3>1. todo' = todo /\ bytesDone' \in 0 .. 3
      BY <2>2 DEF GoesOn
    <3>2. Open("zero")' \/ Open("add")' => Head(todo) \in {"zero", "add"}
      BY <3>1 DEF Open
    <3> QED
      BY <1>0, <2>2, <3>1, <3>2
  <2> QED
    BY <1>2, <2>1, <2>2
<1>3. IsDone => Halfway'
  <2>1. IsDone => /\ ~Open("total")' /\ ~Open("date")' /\ ~Open("zero")' /\ ~Open("add")'
    BY DEF IsDone, Open
  <2> QED
    BY <2>1 DEF Halfway
<1>4. GoesOn => /\ Open("total")' => Head(todo) = "total"
                /\ Open("date")' => Head(todo) = "date"
                /\ Open("zero")' => Head(todo) = "zero"
                /\ Open("add")' => Head(todo) = "add"
  BY DEF GoesOn, Open
<1>5. CASE Head(todo) = "total"
  <2> DEFINE sum == TotalNow + wwCounter[weekday(date)] \div GALLON
  <2>1. /\ UNCHANGED <<wwCounter, wCounterDate>> /\ totalWCounter' \in 0 .. TOTAL - 1
        /\ overflowed' \in BOOLEAN /\ folds' \in 0 .. MaxFolds
        /\ \/ /\ GoesOn /\ newValue' = sum % TOTAL /\ (sum >= TOTAL => overflowed')
              /\ newValue' \in 0 .. TOTAL - 1 /\ oldValue' = TotalNow
           \/ IsDone
    BY <1>5, WriteOfTotal
  <2>2. TotalNow \in 0 .. TOTAL - 1
    BY DEF TotalNow, WaterTypes
  <2>3. WaterTypes'
    BY <1>0, <1>2, <1>5, <2>1, <2>2 DEF WaterTypes
  <2>4. GoesOn => Halfway'
    <3>1. GoesOn => oldValue' + wwCounter'[weekday(date)'] \div GALLON = sum
                    /\ newValue' = sum % TOTAL /\ (sum >= TOTAL => overflowed')
      BY <1>0, <2>1 DEF GoesOn, IsDone
    <3> HIDE DEF sum
    <3> QED
      BY <1>4, <1>5, <3>1 DEF Halfway
  <2> QED
    BY <1>3, <2>1, <2>3, <2>4
<1>6. CASE Head(todo) = "date"
  <2>1. /\ UNCHANGED <<wwCounter, totalWCounter, folds, overflowed>>
        /\ wCounterDate' \in [Weekdays -> 0 .. TOTAL - 1]
        /\ \/ /\ GoesOn /\ newValue' = date
              /\ newValue' \in 0 .. TOTAL - 1 /\ oldValue' \in 0 .. TOTAL - 1
           \/ IsDone
    BY <1>6, WriteOfDate
  <2>2. WaterTypes'
    BY <1>0, <1>2, <1>6, <2>1 DEF WaterTypes
  <2>3. GoesOn => Halfway'
    <3>1. GoesOn => newValue' = date'
      BY <1>0, <2>1 DEF GoesOn, IsDone
    <3> QED
      BY <1>4, <1>6, <3>1 DEF Halfway
  <2> QED
    BY <1>3, <2>1, <2>2, <2>3
<1>7. CASE Head(todo) = "zero"
  <2>1. /\ UNCHANGED <<wCounterDate, totalWCounter, folds, overflowed>>
        /\ wwCounter' \in [Weekdays -> 0 .. COUNTER - 1]
        /\ \/ GoesOn /\ bytesDone' = 1 /\ newValue' = 0 /\ oldValue' \in 0 .. COUNTER - 1
           \/ IsDone
    BY <1>7, WriteOfZero
  <2>2. 0 \in 0 .. COUNTER - 1
    BY Powers
  <2>3. WaterTypes'
    BY <1>0, <1>1, <1>2, <1>7, <2>1, <2>2 DEF WaterTypes
  <2>4. GoesOn => Halfway'
    <3>1. GoesOn => newValue' = 0
      BY <2>1 DEF GoesOn, IsDone
    <3> QED
      BY <1>4, <1>7, <3>1 DEF Halfway
  <2> QED
    BY <1>3, <2>1, <2>3, <2>4
<1>8. CASE Head(todo) = "add"
  <2> DEFINE sum == Counters[dow] + amount
  <2>1. /\ UNCHANGED <<wCounterDate, totalWCounter, folds>>
        /\ wwCounter' \in [Weekdays -> 0 .. COUNTER - 1] /\ overflowed' \in BOOLEAN
        /\ Counters \in [Weekdays -> 0 .. COUNTER - 1]
        /\ \/ /\ GoesOn /\ bytesDone' = 1 /\ newValue' = sum % COUNTER
              /\ newValue' \in 0 .. COUNTER - 1 /\ oldValue' = Counters[dow]
              /\ (sum >= COUNTER => overflowed') /\ wwCounter'[dow] <= sum
           \/ IsDone
    BY <1>8, WriteOfAdd
  <2>2. dow \in Weekdays
    BY DEF WaterTypes
  <2>3. WaterTypes'
    <3> HIDE DEF sum
    <3> QED
      BY <1>0, <1>1, <1>2, <1>8, <2>1, <2>2 DEF WaterTypes
  <2>4. GoesOn => Halfway'
    <3>1. GoesOn => /\ oldValue' + amount' = sum /\ dow' = dow
                    /\ newValue' = sum % COUNTER /\ (sum >= COUNTER => overflowed')
                    /\ wwCounter'[dow] <= sum
      BY <1>0, <2>1 DEF GoesOn, IsDone
    <3> HIDE DEF sum
    <3> QED
      BY <1>4, <1>8, <3>1 DEF Halfway
  <2> QED
    BY <1>3, <2>1, <2>3, <2>4
<1> QED
  BY <1>0, <1>5, <1>6, <1>7, <1>8

(* When nothing is being written nothing is half way.                      *)
LEMMA NotWriting ==
  ASSUME bytesDone = 0
  PROVE  Halfway /\ \A op : ~Open(op)
BY DEF Halfway, Open

(* Every step keeps the types.                                             *)
LEMMA WaterTypesStep ==
  ASSUME WaterTypes, Halfway, [WaterNext]_waterVars
  PROVE  WaterTypes' /\ Halfway'
<1>0. /\ Uses \subseteq Nat /\ MaxFolds \in Nat /\ MaxCuts \in Nat /\ weekday(date) \in Weekdays
      /\ 0 \in 0 .. TOTAL - 1
  BY WaterAssumption, WeekdayOf, Powers DEF WaterAssumption, WaterTypes
<1>a. todo = <<>> => bytesDone = 0
  BY DEF WaterTypes
<1>b. bytesDone' = 0 => /\ Halfway' /\ ~(Open("zero")' \/ Open("add")')
                        /\ (bytesDone' > 0 => todo' # <<>>)
  BY DEF Halfway, Open
<1>1. ASSUME NEW d \in Dates, SetDate(d)
      PROVE  WaterTypes' /\ Halfway'
  BY <1>1, <1>a, <1>b DEF WaterTypes, SetDate, waterEeprom, waterHistory, writing
<1>2. ASSUME NEW use \in Uses, CountZoneWater(use)
      PROVE  WaterTypes' /\ Halfway'
  <2>1. date' \in Dates /\ dow' \in Weekdays /\ amount' \in Uses \cup {0} /\ use \in Nat
    BY <1>0, <1>2 DEF CountZoneWater
  <2>2. usedOn' \in [Dates -> Nat] /\ astray' \in Nat
    BY <1>2, <2>1 DEF CountZoneWater, WaterTypes
  <2>3. todo' \in Plans
    BY <1>2, PlanStarts DEF CountZoneWater
  <2>4. bytesDone' = 0
    BY <1>2, <1>a DEF CountZoneWater, writing
  <2> QED
    BY <1>2, <1>b, <2>1, <2>2, <2>3, <2>4 DEF WaterTypes, CountZoneWater, waterEeprom, writing
<1>3. CASE JSONWWCounters
  <2>1. todo' \in Plans
    BY <1>3, PlanStarts DEF JSONWWCounters
  <2>2. bytesDone' = 0
    BY <1>3, <1>a DEF JSONWWCounters, writing
  <2> QED
    BY <1>3, <1>b, <2>1, <2>2 DEF WaterTypes, JSONWWCounters, waterEeprom, waterHistory, writing
<1>4. CASE EepromWrite
  BY <1>4, WriteTypes
<1>5. CASE PowerFails
  <2>1. todo' \in Plans /\ bytesDone' = 0 /\ newValue' = 0 /\ oldValue' = 0
    BY <1>5 DEF PowerFails, Plans
  <2>2. wwCounter[weekday(date)] \in Nat /\ amount \in Nat
    BY WaterNumbers
  <2>3. lost' \in Nat /\ doubled' \in Nat /\ cuts' \in 0 .. MaxCuts /\ torn' \in BOOLEAN
    BY <1>0, <1>5, <2>2 DEF PowerFails, WaterTypes
  <2> QED
    BY <1>0, <1>5, <1>b, <2>1, <2>3 DEF WaterTypes, PowerFails, waterEeprom
<1>6. CASE UNCHANGED waterVars
  BY <1>6 DEF WaterTypes, Halfway, Open, weekday, waterVars, waterEeprom, waterHistory, writing
<1> QED
  BY <1>1, <1>2, <1>3, <1>4, <1>5, <1>6 DEF WaterNext

(* The initial states have the types.                                      *)
LEMMA WaterTypesInit == WaterInit => WaterTypes /\ Halfway
<1> SUFFICES ASSUME WaterInit
             PROVE  WaterTypes /\ Halfway
  OBVIOUS
<1>1. /\ WEEK \in Nat \ {0} /\ COUNTER \in Nat \ {0} /\ TOTAL \in Nat \ {0} /\ 0 \in Dates
      /\ MaxFolds \in Nat /\ MaxCuts \in Nat
  BY WaterAssumption, Powers DEF WaterAssumption
<1>2. /\ 0 \in Weekdays /\ 0 \in 0 .. COUNTER - 1 /\ 0 \in 0 .. TOTAL - 1
      /\ 0 \in 0 .. MaxFolds /\ 0 \in 0 .. MaxCuts
  BY <1>1 DEF Weekdays
<1>3. Halfway /\ ~Open("zero") /\ ~Open("add") /\ bytesDone = 0
  BY DEF WaterInit, Halfway, Open
<1> QED
  BY <1>1, <1>2, <1>3 DEF WaterInit, WaterTypes, Plans

-----------------------------------------------------------------------------
(* The counters of the days *)

(* What a counter holds, with what is about to be added to it, was used on *)
(* the day that it is for.                                                 *)
CountsItsDay(w) ==
  Counters[w] + (IF Recording /\ w = dow THEN amount ELSE 0)
    <= UsedOn(wCounterDate[w]) + astray

(* The counter of today's weekday may be an old one until it has been      *)
(* moved, and what is recorded then was used on this day.                  *)
Dated ==
  doubled = 0 =>
    /\ \A w \in Weekdays : (Moving /\ w = weekday(date)) \/ CountsItsDay(w)
    /\ todo # <<>> /\ Head(todo) = "total" =>
         wwCounter[weekday(date)] <= UsedOn(wCounterDate[weekday(date)]) + astray
    /\ todo # <<>> /\ Head(todo) = "zero" => wCounterDate[weekday(date)] = date
    /\ Recording => amount <= UsedOn(date) + astray

(* A counter keeps to its day at every byte.                               *)
LEMMA DatedWrite ==
  ASSUME WaterTypes, Halfway, Dated, EepromWrite
  PROVE  Dated'
<1> DEFINE w0 == weekday(date)
<1>0. /\ \A w \in Weekdays : wwCounter[w] \in Nat
      /\ \A d : UsedOn(d) \in Nat
      /\ w0 \in Weekdays /\ dow \in Weekdays /\ amount \in Nat /\ astray \in Nat
  BY WaterNumbers
<1>1. /\ todo # <<>> /\ todo \in Plans
      /\ UNCHANGED <<date, dow, amount, usedOn, doubled, astray>>
      /\ weekday(date)' = w0 /\ w0' = w0 /\ \A d : UsedOn(d)' = UsedOn(d)
  BY DEF EepromWrite, WaterTypes, weekday, UsedOn
<1>2. WaterTypes' /\ Halfway'
  BY WriteTypes
<1> HIDE DEF w0
<1> SUFFICES ASSUME doubled = 0
             PROVE  /\ \A w \in Weekdays : (Moving' /\ w = w0) \/ CountsItsDay(w)'
                    /\ todo' # <<>> /\ Head(todo') = "total" =>
                         wwCounter'[w0] <= UsedOn(wCounterDate'[w0]) + astray
                    /\ todo' # <<>> /\ Head(todo') = "zero" => wCounterDate'[w0] = date
                    /\ Recording' => amount <= UsedOn(date) + astray
  BY <1>1 DEF Dated, UsedOn
<1>3. /\ \A w \in Weekdays : (Moving /\ w = w0) \/ CountsItsDay(w)
      /\ Head(todo) = "total" => wwCounter[w0] <= UsedOn(wCounterDate[w0]) + astray
      /\ Head(todo) = "zero" => wCounterDate[w0] = date
      /\ Recording => amount <= UsedOn(date) + astray
  BY <1>1 DEF Dated, w0
<1>4. IsDone => ~(todo' # <<>> /\ Head(todo') = "total")
  BY <1>1, PlanShapes DEF IsDone
<1>5. GoesOn => (Moving' <=> Moving) /\ (Recording' <=> Recording)
  BY DEF GoesOn, Moving, Recording
<1>6. ASSUME Head(todo) # "add"
      PROVE  /\ Moving /\ (Recording' <=> Recording)
             /\ \A w \in Weekdays \ {w0} : CountsItsDay(w)'
             /\ IsDone \/ GoesOn
  <2>1. Head(todo) \in {"total", "date", "zero"}
    BY <1>1, <1>6, PlanShapes
  <2>2. /\ IsDone \/ GoesOn
        /\ \A w \in Weekdays \ {w0} : wwCounter'[w] = wwCounter[w]
                                      /\ wCounterDate'[w] = wCounterDate[w]
    <3>1. CASE Head(todo) = "total"
      BY <3>1, WriteOfTotal
    <3>2. CASE Head(todo) = "date"
      BY <3>2, WriteOfDate DEF w0
    <3>3. CASE Head(todo) = "zero"
      <4>1. wwCounter \in [Weekdays -> 0 .. COUNTER - 1]
        BY DEF WaterTypes
      <4>2. UNCHANGED wCounterDate /\ (IsDone \/ GoesOn)
            /\ \E v \in 0 .. COUNTER - 1 : wwCounter' = [wwCounter EXCEPT ![w0] = v]
        BY <3>3, WriteOfZero DEF w0
      <4> QED
        BY <4>1, <4>2
    <3> QED
      BY <2>1, <3>1, <3>2, <3>3
  <2>3. Moving
    BY <1>1, <2>1 DEF Moving
  <2>4. Recording' <=> Recording
    <3>1. IsDone => (Recording' <=> Recording)
      <4>1. (Tail(todo) # <<>> => Last(Tail(todo)) = Last(todo))
            /\ (Tail(todo) = <<>> => Last(todo) = "zero")
        BY <1>1, <2>1, PlanShapes
      <4> QED
        BY <1>1, <4>1 DEF Recording, IsDone
    <3> QED
      BY <1>5, <2>2, <3>1
  <2>5. Counters = wwCounter /\ Counters' = wwCounter'
    <3>1. ~Open("add")
      BY <1>6 DEF Open
    <3>2. ~Open("add")'
      BY <1>6, <2>2 DEF Open, GoesOn, IsDone
    <3> QED
      BY <3>1, <3>2 DEF Counters
  <2>6. ASSUME NEW w \in Weekdays, w # w0
        PROVE  CountsItsDay(w)'
    <3>1. CountsItsDay(w)
      BY <1>3, <2>6
    <3>2. Counters'[w] = Counters[w] /\ wCounterDate'[w] = wCounterDate[w]
      BY <2>2, <2>5, <2>6
    <3>3. CountsItsDay(w)' <=> Counters'[w] + (IF Recording' /\ w = dow' THEN amount' ELSE 0)
                                 <= UsedOn(wCounterDate'[w]) + astray'
      BY <1>1 DEF CountsItsDay, UsedOn
    <3> QED
      BY <1>1, <2>4, <3>1, <3>2, <3>3 DEF CountsItsDay
  <2> QED
    BY <2>2, <2>3, <2>4, <2>6
<1>7. CASE Head(todo) # "add" /\ GoesOn
  <2>1. Moving' /\ todo' = todo /\ (Recording' <=> Recording)
    BY <1>5, <1>6, <1>7 DEF GoesOn
  <2>2. Head(todo) = "total" => wwCounter'[w0] = wwCounter[w0] /\ wCounterDate' = wCounterDate
    BY WriteOfTotal
  <2>3. Head(todo) = "zero" => wCounterDate' = wCounterDate
    BY WriteOfZero
  <2> QED
    BY <1>3, <1>6, <1>7, <2>1, <2>2, <2>3
<1>8. CASE Head(todo) \in {"total", "date"} /\ IsDone
  <2>1. Moving' /\ todo' # <<>>
    BY <1>1, <1>8, PlanShapes DEF Moving, IsDone
  <2>2. Head(todo') = "zero" => wCounterDate'[w0] = date
    <3>1. Head(todo') = "zero" => Head(todo) = "date"
      BY <1>1, <1>8, PlanShapes DEF IsDone
    <3>2. Head(todo) = "date" => wCounterDate'[w0] = date
      BY <1>8, WriteOfDate DEF w0, GoesOn, IsDone
    <3> QED
      BY <3>1, <3>2
  <2> QED
    BY <1>3, <1>4, <1>6, <1>8, <2>1, <2>2
<1>9. CASE Head(todo) = "zero" /\ IsDone
  <2>1. wwCounter'[w0] = 0 /\ wCounterDate' = wCounterDate
    <3>1. wwCounter \in [Weekdays -> 0 .. COUNTER - 1] /\ w0 \in Weekdays
      BY <1>0 DEF WaterTypes
    <3>2. UNCHANGED wCounterDate /\ wwCounter' = [wwCounter EXCEPT ![w0] = 0]
      BY <1>9, WriteOfZero DEF w0, GoesOn, IsDone
    <3> QED
      BY <3>1, <3>2
  <2>2. Counters' = wwCounter'
    BY <1>9 DEF Counters, Open, IsDone
  <2>3. \A w \in Weekdays : w = w0 => CountsItsDay(w)'
    <3>1. 0 + (IF Recording' /\ w0 = dow THEN amount ELSE 0) <= UsedOn(date) + astray
      BY <1>0, <1>3, <1>6, <1>9
    <3>2. CountsItsDay(w0)' <=> Counters'[w0] + (IF Recording' /\ w0 = dow' THEN amount' ELSE 0)
                                  <= UsedOn(wCounterDate'[w0]) + astray'
      BY <1>1 DEF CountsItsDay, UsedOn
    <3> QED
      BY <1>1, <1>3, <1>9, <2>1, <2>2, <3>1, <3>2
  <2>4. todo' # <<>> => Head(todo') = "add"
    BY <1>1, <1>9, PlanShapes DEF IsDone
  <2> QED
    BY <1>3, <1>4, <1>6, <1>9, <2>3, <2>4
<1>10. CASE Head(todo) = "add"
  <2>1. Recording /\ ~Moving
    BY <1>1, <1>10, PlanShapes DEF Recording, Moving
  <2> DEFINE sum == Counters[dow] + amount
  <2>2. /\ UNCHANGED wCounterDate
        /\ Counters \in [Weekdays -> 0 .. COUNTER - 1]
        /\ \/ GoesOn /\ Counters' = Counters
           \/ /\ IsDone /\ wwCounter' = [Counters EXCEPT ![dow] = sum % COUNTER]
              /\ Counters' = wwCounter'
    <3>1. GoesOn => Counters' = [wwCounter' EXCEPT ![dow'] = oldValue']
      BY <1>1, <1>10 DEF Counters, Open, GoesOn
    <3>2. IsDone => Counters' = wwCounter'
      BY DEF Counters, Open, IsDone
    <3> QED
      BY <1>1, <1>10, <3>1, <3>2, WriteOfAdd
  <2>3. \A w \in Weekdays : CountsItsDay(w)
    BY <1>3, <2>1
  <2>4. CASE GoesOn /\ Counters' = Counters
    <3>1. \A w \in Weekdays : CountsItsDay(w)'
      <4>1. \A w \in Weekdays : CountsItsDay(w)' <=> CountsItsDay(w)
        BY <1>1, <1>5, <2>2, <2>4 DEF CountsItsDay, UsedOn
      <4> QED
        BY <2>3, <4>1
    <3> QED
      BY <1>3, <1>5, <1>10, <2>4, <3>1 DEF GoesOn
  <2>5. CASE /\ IsDone /\ wwCounter' = [Counters EXCEPT ![dow] = sum % COUNTER]
             /\ Counters' = wwCounter'
    <3>1. todo' = <<>> /\ ~Recording'
      BY <1>1, <1>10, <2>5, PlanShapes DEF Recording, IsDone
    <3>2. sum \in Nat /\ sum % COUNTER \in Nat /\ sum % COUNTER <= sum
      <4>1. COUNTER \in Nat \ {0} /\ sum \in Nat
        BY <1>0, <2>2, Powers
      <4> HIDE DEF sum
      <4> QED
        BY <4>1
    <3>3. ASSUME NEW w \in Weekdays
          PROVE  CountsItsDay(w)'
      <4>1. CountsItsDay(w)
        BY <2>3
      <4>2. CountsItsDay(w)' <=> Counters'[w] + 0 <= UsedOn(wCounterDate[w]) + astray
        BY <1>1, <2>2, <3>1 DEF CountsItsDay, UsedOn
      <4>3. CASE w = dow
        <5>1. Counters'[w] = sum % COUNTER
          BY <1>0, <2>2, <2>5, <4>3
        <5>2. sum <= UsedOn(wCounterDate[w]) + astray
          BY <2>1, <4>1, <4>3 DEF CountsItsDay
        <5> HIDE DEF sum
        <5> QED
          BY <1>0, <3>2, <4>2, <5>1, <5>2
      <4>4. CASE w # dow
        <5>1. Counters'[w] = Counters[w] /\ Counters[w] \in Nat
          BY <2>2, <2>5, <4>4
        <5>2. Counters[w] + 0 <= UsedOn(wCounterDate[w]) + astray
          BY <4>1, <4>4 DEF CountsItsDay
        <5> QED
          BY <4>2, <5>1, <5>2
      <4> QED
        BY <4>3, <4>4
    <3> QED
      BY <3>1, <3>3
  <2> QED
    BY <2>2, <2>4, <2>5
<1>11. Head(todo) \in {"total", "date", "zero", "add"}
  BY <1>1, PlanShapes
<1> QED
  BY <1>6, <1>7, <1>8, <1>9, <1>10, <1>11

(* A counter keeps to its day when nothing is written: when the clock is   *)
(* set, when a call starts, and when the power fails.                      *)
LEMMA DatedOther ==
  ASSUME WaterTypes, Halfway, Dated,
         \/ \E d \in Dates : SetDate(d)
         \/ \E use \in Uses : CountZoneWater(use)
         \/ JSONWWCounters \/ PowerFails \/ UNCHANGED waterVars
  PROVE  Dated'
<1>0. /\ \A w \in Weekdays : wwCounter[w] \in Nat
      /\ \A d : UsedOn(d) \in Nat
      /\ weekday(date) \in Weekdays /\ dow \in Weekdays /\ amount \in Nat /\ astray \in Nat
      /\ UsedOn(date) \in Nat /\ doubled \in Nat
  BY WaterNumbers
<1>a. ASSUME todo = <<>>, doubled = 0
      PROVE  ~Recording /\ ~Moving
             /\ \A w \in Weekdays : wwCounter[w] <= UsedOn(wCounterDate[w]) + astray
  <2>1. ~Recording /\ ~Moving /\ Counters = wwCounter
    BY <1>a DEF Recording, Moving, Counters, Open
  <2>2. \A w \in Weekdays : CountsItsDay(w)
    BY <1>a, <2>1 DEF Dated
  <2> QED
    BY <1>0, <2>1, <2>2 DEF CountsItsDay
<1>b. ASSUME todo' = <<>>,
             doubled' = 0 => \A w \in Weekdays : wwCounter'[w] <= UsedOn(wCounterDate[w])' + astray',
             \A w \in Weekdays : wwCounter'[w] \in Nat
      PROVE  Dated'
  <2>1. ~Recording' /\ ~Moving' /\ Counters' = wwCounter'
    BY <1>b DEF Recording, Moving, Counters, Open
  <2>2. doubled' = 0 => \A w \in Weekdays : CountsItsDay(w)'
    BY <1>b, <2>1 DEF CountsItsDay
  <2> QED
    BY <1>b, <2>1, <2>2 DEF Dated
<1>c. bytesDone' = 0 => Counters' = wwCounter'
  BY DEF Counters, Open
<1>d. todo = <<>> => bytesDone = 0
  BY DEF WaterTypes
<1>1. ASSUME NEW d \in Dates, SetDate(d)
      PROVE  Dated'
  <2>1. /\ todo = <<>> /\ todo' = <<>>
        /\ UNCHANGED <<wwCounter, wCounterDate, usedOn, astray, doubled>>
        /\ \A w \in Weekdays : UsedOn(wCounterDate[w])' = UsedOn(wCounterDate[w])
    BY <1>1 DEF SetDate, waterEeprom, waterHistory, UsedOn
  <2> QED
    BY <1>0, <1>a, <1>b, <2>1
<1>2. ASSUME NEW use \in Uses, CountZoneWater(use)
      PROVE  Dated'
  <2> DEFINE w0 == weekday(date)
             w1 == weekday(date')
  <2>1. /\ todo = <<>> /\ dow' = w0 /\ amount' = use /\ use \in Nat
        /\ usedOn' = [usedOn EXCEPT ![date] = @ + use]
        /\ astray' = astray + (IF date' = date THEN 0 ELSE use)
        /\ UNCHANGED <<wwCounter, wCounterDate, doubled>>
        /\ date' \in Dates /\ date \in Dates /\ bytesDone' = 0
    BY <1>2, <1>d, WaterAssumption
       DEF CountZoneWater, waterEeprom, writing, WaterAssumption, WaterTypes
  <2>2. /\ Recording'
        /\ Moving' \/ wCounterDate[w1] = date'
        /\ todo' # <<>> /\ Head(todo') # "zero"
    <3>1. todo' = MovesOf(date') \o <<"add">>
      BY <1>2 DEF CountZoneWater
    <3>2. todo' # <<>> /\ Last(todo') = "add"
          /\ IF wCounterDate[w1] # date' THEN Head(todo') = "total" ELSE Head(todo') = "add"
      BY <3>1, PlanStarts
    <3> HIDE DEF w1
    <3> QED
      BY <3>2 DEF Recording, Moving
  <2>3. w0 \in Weekdays /\ w1 \in Weekdays /\ weekday(date)' = w1
    BY <2>1, WeekdayOf DEF weekday
  <2> HIDE DEF w0, w1
  <2> DEFINE UsedThen(d) == IF d \in Dates THEN usedOn'[d] ELSE 0
  <2>4. /\ \A d : UsedThen(d) \in Nat /\ UsedThen(d) >= UsedOn(d)
        /\ UsedThen(date) = UsedOn(date) + use
        /\ UsedThen(date') >= 0
    <3>1. usedOn \in [Dates -> Nat]
      BY DEF WaterTypes
    <3> QED
      BY <2>1, <3>1 DEF UsedOn
  <2>5. astray' \in Nat /\ astray' >= astray
    BY <1>0, <2>1
  <2>6. ASSUME doubled = 0, NEW w \in Weekdays
        PROVE  /\ wwCounter[w] <= UsedThen(wCounterDate[w]) + astray'
               /\ (Moving' /\ w = w1) \/ CountsItsDay(w)'
               /\ wwCounter[w] \in Nat
    <3>1. /\ wwCounter[w] <= UsedOn(wCounterDate[w]) + astray
          /\ wwCounter[w] \in Nat
      BY <1>0, <1>a, <2>1, <2>6
    <3> DEFINE a == UsedOn(wCounterDate[w])
               b == UsedThen(wCounterDate[w])
    <3>2. a \in Nat /\ b \in Nat /\ b >= a
      BY <1>0, <2>4
    <3>3. wCounterDate[w] = date => b = a + use
      BY <2>4
    <3>4. wwCounter[w] <= a + astray
      BY <3>1
    <3>5. CountsItsDay(w)' <=> wwCounter[w] + (IF w = w0 THEN use ELSE 0) <= b + astray'
      <4>1. Counters' = wwCounter'
        BY <1>c, <2>1
      <4> QED
        BY <2>1, <2>2, <4>1 DEF CountsItsDay, UsedOn
    <3> HIDE DEF a, b
    <3>6. wwCounter[w] <= b + astray'
      BY <1>0, <2>5, <3>1, <3>2, <3>4
    <3>7. (Moving' /\ w = w1) \/ CountsItsDay(w)'
      <4>1. CASE date' # date
        <5>1. astray' = astray + use
          BY <2>1, <4>1
        <5>2. wwCounter[w] + (IF w = w0 THEN use ELSE 0) <= b + astray'
          BY <1>0, <2>1, <3>1, <3>2, <3>4, <5>1
        <5> QED
          BY <3>5, <5>2
      <4>2. CASE date' = date /\ w # w0
        BY <3>1, <3>5, <3>6, <4>2
      <4>3. CASE date' = date /\ w = w0
        <5>1. w1 = w0
          BY <4>3 DEF w0, w1
        <5>2. CASE Moving'
          BY <4>3, <5>1, <5>2
        <5>3. CASE ~Moving'
          <6>1. b = a + use
            BY <2>2, <3>3, <4>3, <5>1, <5>3
          <6>2. wwCounter[w] + use <= b + astray'
            BY <1>0, <2>1, <2>5, <3>1, <3>2, <3>4, <6>1
          <6> QED
            BY <3>5, <4>3, <6>2
        <5> QED
          BY <5>2, <5>3
      <4> QED
        BY <4>1, <4>2, <4>3
    <3>8. wwCounter[w] <= UsedThen(wCounterDate[w]) + astray'
      BY <3>6 DEF b
    <3> QED
      BY <3>1, <3>7, <3>8
  <2>7. amount' <= UsedThen(date') + astray'
    <3>1. CASE date' = date
      BY <1>0, <2>1, <2>4, <2>5, <3>1
    <3>2. CASE date' # date
      <4>1. astray' = astray + use /\ UsedThen(date') \in Nat
        BY <2>1, <2>4, <3>2
      <4> HIDE DEF UsedThen
      <4> QED
        BY <1>0, <2>1, <4>1
    <3> QED
      BY <3>1, <3>2
  <2>8. doubled' = 0 => /\ \A w \in Weekdays : (Moving' /\ w = w1) \/ CountsItsDay(w)'
                        /\ wwCounter'[w1] <= UsedThen(wCounterDate'[w1]) + astray'
    BY <2>1, <2>3, <2>6
  <2>9. UsedOn(date)' = UsedThen(date') /\ UsedOn(wCounterDate[weekday(date)])' = UsedThen(wCounterDate'[w1])
    BY <2>3 DEF UsedOn
  <2> HIDE DEF UsedThen
  <2> QED
    BY <2>2, <2>3, <2>7, <2>8, <2>9 DEF Dated
<1>3. CASE JSONWWCounters
  <2>1. /\ todo = <<>> /\ todo' = MovesOf(date) /\ bytesDone' = 0
        /\ UNCHANGED <<date, wwCounter, wCounterDate, usedOn, astray, doubled>>
        /\ weekday(date)' = weekday(date)
        /\ \A w \in Weekdays : UsedOn(wCounterDate[w])' = UsedOn(wCounterDate[w])
    BY <1>3, <1>d DEF JSONWWCounters, waterEeprom, waterHistory, writing, weekday, UsedOn
  <2>2. CASE wCounterDate[weekday(date)] = date
    <3>1. todo' = <<>>
      BY <2>1, <2>2, PlanStarts
    <3> QED
      BY <1>0, <1>a, <1>b, <2>1, <3>1
  <2>3. CASE wCounterDate[weekday(date)] # date
    <3>1. Head(todo') = "total" /\ Last(todo') = "zero"
      BY <2>1, <2>3, PlanStarts
    <3>2. ~Recording' /\ Counters' = wwCounter'
      BY <1>c, <2>1, <3>1 DEF Recording
    <3>3. doubled' = 0 =>
            /\ \A w \in Weekdays : wwCounter'[w] <= UsedOn(wCounterDate[w])' + astray'
            /\ \A w \in Weekdays : wwCounter'[w] \in Nat
      BY <1>0, <1>a, <2>1
    <3>4. doubled' = 0 => \A w \in Weekdays : CountsItsDay(w)'
      BY <3>2, <3>3 DEF CountsItsDay
    <3>5. doubled' = 0 => wwCounter'[weekday(date)]
                            <= UsedOn(wCounterDate[weekday(date)])' + astray'
      <4>1. UsedOn(wCounterDate[weekday(date)])' = UsedOn(wCounterDate[weekday(date)])
        BY <2>1 DEF UsedOn
      <4> QED
        BY <1>0, <1>a, <2>1, <4>1
    <3> QED
      BY <2>1, <3>1, <3>2, <3>4, <3>5 DEF Dated
  <2> QED
    BY <2>2, <2>3
<1>4. CASE PowerFails
  <2>1. /\ todo # <<>> /\ todo' = <<>>
        /\ doubled' \in {doubled, doubled + wwCounter[weekday(date)]}
        /\ Head(todo) \in {"date", "zero"} => doubled' = doubled + wwCounter[weekday(date)]
        /\ UNCHANGED <<wwCounter, wCounterDate, usedOn, astray>>
        /\ \A w \in Weekdays : UsedOn(wCounterDate[w])' = UsedOn(wCounterDate[w])
    BY <1>4 DEF PowerFails, waterEeprom, UsedOn
  <2>2. doubled' = 0 => doubled = 0
    BY <1>0, <2>1
  <2>3. ASSUME doubled' = 0, NEW w \in Weekdays
        PROVE  wwCounter[w] <= UsedOn(wCounterDate[w]) + astray
    <3> DEFINE extra == IF Recording /\ w = dow THEN amount ELSE 0
    <3>1. CASE CountsItsDay(w)
      <4>1. Counters[w] + extra <= UsedOn(wCounterDate[w]) + astray
        BY <3>1 DEF CountsItsDay
      <4>2. CASE Open("add") /\ w = dow
        <5>1. Recording
          BY <2>1, <4>2, PlanShapes DEF Recording, Open, WaterTypes
        <5>2. Counters[w] = oldValue /\ wwCounter[w] <= oldValue + amount
          BY <1>0, <4>2 DEF Counters, Halfway, WaterTypes
        <5> QED
          BY <1>0, <4>1, <4>2, <5>1, <5>2, WaterNumbers
      <4>3. CASE ~(Open("add") /\ w = dow)
        <5>1. Counters[w] = wwCounter[w]
          BY <4>3 DEF Counters, WaterTypes
        <5> QED
          BY <1>0, <4>1, <5>1
      <4> QED
        BY <4>2, <4>3
    <3>2. CASE ~CountsItsDay(w)
      <4>1. Moving /\ w = weekday(date)
        BY <2>2, <2>3, <3>2 DEF Dated
      <4>2. CASE Head(todo) = "total"
        BY <2>1, <2>2, <2>3, <4>1, <4>2 DEF Dated
      <4>3. CASE Head(todo) \in {"date", "zero"}
        <5>1. wwCounter[w] = 0
          BY <1>0, <2>1, <2>3, <4>1, <4>3
        <5> QED
          BY <1>0, <5>1
      <4> QED
        BY <4>1, <4>2, <4>3 DEF Moving
    <3> QED
      BY <3>1, <3>2
  <2> QED
    BY <1>0, <1>b, <2>1, <2>3
<1>5. CASE UNCHANGED waterVars
  BY <1>5 DEF Dated, CountsItsDay, Counters, Open, UsedOn, Moving, Recording, waterVars,
              waterEeprom, waterHistory, writing, weekday
<1> QED
  BY <1>1, <1>2, <1>3, <1>4, <1>5

(* A counter keeps to its day.                                             *)
LEMMA DatedStep ==
  ASSUME WaterTypes, Halfway, Dated, [WaterNext]_waterVars
  PROVE  Dated'
BY DatedWrite, DatedOther DEF WaterNext

(* The counters are empty at the start.                                    *)
LEMMA DatedInit == WaterInit => Dated
<1> SUFFICES ASSUME WaterInit
             PROVE  Dated
  OBVIOUS
<1>1. /\ ~Recording /\ ~Moving /\ todo = <<>> /\ astray = 0 /\ Counters = wwCounter
      /\ \A w \in Weekdays : wwCounter[w] = 0
      /\ \A d : UsedOn(d) \in Nat
  BY WaterTypesInit, WaterNumbers DEF WaterInit, Recording, Moving, Counters, Open
<1>2. \A w \in Weekdays : CountsItsDay(w)
  <2> SUFFICES ASSUME NEW w \in Weekdays
               PROVE  CountsItsDay(w)
    OBVIOUS
  <2>1. UsedOn(wCounterDate[w]) \in Nat
    BY <1>1
  <2> QED
    BY <1>1, <2>1 DEF CountsItsDay
<1> QED
  BY <1>1, <1>2 DEF Dated

-----------------------------------------------------------------------------
(* The water *)

(* The counters and the total hold the water used, but for what is still   *)
(* to be added, and what a move has in both.                               *)
Held == TotalNow * GALLON + SumFunction(Counters)

Balance ==
  ~overflowed /\ ~torn =>
    /\ Used - lost - folds * (GALLON - 1) <= Held + Pending - Twice
    /\ Held + Pending - Twice <= Used - lost + doubled

WaterInv == WaterTypes /\ Halfway /\ Dated /\ Balance

(* Adding one more fold, and moving whole gallons.                         *)
LEMMA GallonsAdd ==
  ASSUME NEW g \in Nat \ {0}, NEW n \in Nat, NEW t \in Nat, NEW c \in Nat
  PROVE  /\ (n + 1) * (g - 1) = n * (g - 1) + (g - 1)
         /\ c \div g \in Nat
         /\ (t + c \div g) * g <= t * g + c
         /\ (t + c \div g) * g >= t * g + c - (g - 1)
         /\ (t + c \div g) * g >= t * g
<1>1. (n + 1) * (g - 1) = n * (g - 1) + (g - 1)
  <2> DEFINE h == g - 1
  <2>1. h \in Int
    OBVIOUS
  <2> HIDE DEF h
  <2>2. (n + 1) * h = n * h + h
    BY <2>1
  <2> QED
    BY <2>2 DEF h
<1> DEFINE d == c \div g
<1>2. d \in Nat /\ d * g <= c /\ d * g >= c - (g - 1) /\ d * g >= 0
  <2> DEFINE r == c % g
  <2>1. d \in Int /\ r \in 0 .. g - 1 /\ c = g * d + r
    BY DivMod
  <2> HIDE DEF d, r
  <2>2. g * d = d * g /\ d * g \in Int
    BY <2>1
  <2>3. d < 0 => d * g <= -g
    <3>1. d < 0 => (d + 1) * g <= 0
      BY <2>1
    <3>2. (d + 1) * g = d * g + g
      BY <2>1
    <3> QED
      BY <2>1, <2>2, <3>1, <3>2
  <2>4. d >= 0
    BY <2>1, <2>2, <2>3
  <2>5. d * g >= 0
    BY <2>1, <2>4
  <2> QED
    BY <2>1, <2>2, <2>4, <2>5
<1> HIDE DEF d
<1>3. (t + d) * g = t * g + d * g /\ t * g \in Int /\ d * g \in Int
  BY <1>2
<1>4. /\ (t + d) * g <= t * g + c /\ (t + d) * g >= t * g + c - (g - 1)
      /\ (t + d) * g >= t * g
  BY <1>2, <1>3
<1> QED
  BY <1>1, <1>2, <1>4 DEF d

(* What the sums are, and how they change.                                 *)
LEMMA WaterSums ==
  ASSUME WaterTypes
  PROVE  /\ Used \in Nat
         /\ \A f \in [Weekdays -> Nat], w \in Weekdays, v \in Nat :
              /\ SumFunction(f) \in Nat
              /\ SumFunction([f EXCEPT ![w] = v]) = SumFunction(f) - f[w] + v
         /\ \A v \in Nat : SumFunction([usedOn EXCEPT ![date] = v]) = Used - usedOn[date] + v
<1>1. IsFiniteSet(Dates) /\ WEEK \in Nat \ {0}
  <2>1. Dates \subseteq 0 .. TOTAL - 1 /\ WEEK \in Nat \ {0}
    BY WaterAssumption DEF WaterAssumption
  <2>2. IsFiniteSet(0 .. TOTAL - 1)
    <3>1. TOTAL \in Int
      BY Powers
    <3> QED
      BY <3>1, FS_Interval
  <2> QED
    BY <2>1, <2>2, FS_Subset
<1>2. IsFiniteSet(Weekdays)
  BY <1>1, FS_Interval DEF Weekdays
<1>3. usedOn \in [Dates -> Nat] /\ date \in Dates
  BY DEF WaterTypes
<1>5. \A f \in [Weekdays -> Nat], w \in Weekdays, v \in Nat :
        /\ SumFunction(f) \in Nat
        /\ SumFunction([f EXCEPT ![w] = v]) = SumFunction(f) - f[w] + v
  BY <1>2, SumChange
<1>6. \A v \in Nat :
        /\ SumFunction(usedOn) \in Nat
        /\ SumFunction([usedOn EXCEPT ![date] = v]) = SumFunction(usedOn) - usedOn[date] + v
  BY <1>1, <1>3, SumChange
<1> QED
  BY <1>5, <1>6 DEF Used

(* The counters and the total as they are reckoned.                        *)
LEMMA Reckoned ==
  ASSUME WaterTypes
  PROVE  /\ Counters \in [Weekdays -> Nat] /\ wwCounter \in [Weekdays -> Nat]
         /\ \A w \in Weekdays : Counters[w] \in 0 .. COUNTER - 1
         /\ TotalNow \in Nat /\ TotalNow \in 0 .. TOTAL - 1
<1>1. COUNTER \in Nat \ {0} /\ TOTAL \in Nat \ {0}
  BY Powers
<1>2. wwCounter \in [Weekdays -> 0 .. COUNTER - 1] /\ dow \in Weekdays
  BY DEF WaterTypes
<1>3. Counters \in [Weekdays -> 0 .. COUNTER - 1]
  BY <1>2 DEF Counters, WaterTypes
<1>4. TotalNow \in 0 .. TOTAL - 1
  BY DEF TotalNow, WaterTypes
<1> QED
  BY <1>1, <1>2, <1>3, <1>4

(* The two bounds of the balance.                                          *)
LEMMA BalanceNumbers ==
  ASSUME WaterTypes
  PROVE  /\ Used \in Nat /\ lost \in Nat /\ folds * (GALLON - 1) \in Int
         /\ TotalNow * GALLON \in Int /\ SumFunction(Counters) \in Nat
         /\ Held \in Int /\ Pending \in Nat /\ Twice \in Nat /\ doubled \in Nat
<1>1. GALLON \in Nat
  BY WaterAssumption DEF WaterAssumption
<1>2. folds * (GALLON - 1) \in Int /\ TotalNow * GALLON \in Int
  BY <1>1, WaterNumbers, Reckoned
<1>3. SumFunction(Counters) \in Nat
  BY WaterNumbers, WaterSums, Reckoned
<1> QED
  BY <1>2, <1>3, WaterNumbers, WaterSums DEF Held, Pending, Twice

(* A byte keeps the balance.                                               *)
LEMMA BalanceWrite ==
  ASSUME WaterTypes, Halfway, Balance, EepromWrite
  PROVE  Balance'
<1> DEFINE w0 == weekday(date)
           F == folds * (GALLON - 1)
           S == SumFunction(Counters)
           T == TotalNow * GALLON
<1>0. /\ todo # <<>> /\ todo \in Plans
      /\ UNCHANGED <<date, dow, amount, usedOn, lost, doubled, torn>>
      /\ Used' = Used /\ weekday(date)' = w0
  BY DEF EepromWrite, WaterTypes, weekday, Used
<1>1. /\ wwCounter[w0] \in Nat /\ amount \in Nat
      /\ w0 \in Weekdays /\ dow \in Weekdays /\ TotalNow \in Nat /\ folds \in Nat
      /\ wwCounter \in [Weekdays -> Nat] /\ Counters \in [Weekdays -> Nat]
      /\ Counters[dow] \in 0 .. COUNTER - 1
      /\ GALLON \in Nat \ {0} /\ COUNTER \in Nat \ {0}
  BY WaterNumbers, Reckoned, Powers, WaterAssumption DEF WaterAssumption
<1>2. /\ Used \in Nat /\ lost \in Nat /\ F \in Int /\ T \in Int /\ S \in Nat
      /\ Pending \in Nat /\ Twice \in Nat /\ doubled \in Nat /\ Held = T + S
  BY BalanceNumbers DEF Held
<1>3. \A f \in [Weekdays -> Nat], w \in Weekdays, v \in Nat :
        SumFunction([f EXCEPT ![w] = v]) = SumFunction(f) - f[w] + v
  BY WaterSums
<1> DEFINE Lower == Used - lost
           L == wwCounter[w0]
<1>4. L \in Nat /\ Lower \in Int
  BY <1>1, <1>2
<1> SUFFICES ASSUME ~overflowed', ~torn
             PROVE  /\ Lower - F' <= T' + S' + Pending' - Twice'
                    /\ T' + S' + Pending' - Twice' <= Lower + doubled
  BY <1>0 DEF Balance, Held
<1>5. Pending' = IF Recording' THEN amount ELSE 0
  BY <1>0 DEF Pending
<1>6. Twice' = IF Moved' THEN wwCounter'[w0] ELSE 0
  BY <1>0 DEF Twice
<1>7. ~overflowed => Lower - F <= T + S + Pending - Twice
                     /\ T + S + Pending - Twice <= Lower + doubled
  BY <1>2 DEF Balance
<1> HIDE DEF w0, F, S, T, Lower, L
<1>8. Head(todo) # "add" /\ IsDone => (Recording' <=> Recording)
  <2>1. Head(todo) # "add" => /\ Tail(todo) # <<>> => Last(Tail(todo)) = Last(todo)
                              /\ Tail(todo) = <<>> => Last(todo) = "zero"
    BY <1>0, PlanShapes
  <2> QED
    BY <1>0, <2>1 DEF Recording, IsDone
<1>9. GoesOn => (Recording' <=> Recording) /\ (Moved' <=> Moved)
  BY DEF GoesOn, Recording, Moved
<1>10. (Head(todo) # "add" /\ IsDone) \/ GoesOn => Pending' = Pending
  BY <1>5, <1>8, <1>9 DEF Pending
<1>11. Head(todo) # "add" /\ (IsDone \/ GoesOn) => Counters' = wwCounter' /\ Counters = wwCounter
  BY DEF Counters, Open, IsDone, GoesOn
<1>12. IsDone => Counters' = wwCounter' /\ TotalNow' = totalWCounter'
  BY DEF Counters, TotalNow, Open, IsDone
<1>13. Head(todo) # "total" /\ (IsDone \/ GoesOn) => TotalNow' = totalWCounter' /\ TotalNow = totalWCounter
  <2>1. Head(todo) # "total" /\ IsDone => ~Open("total") /\ ~Open("total")'
    BY DEF Open, IsDone
  <2>2. Head(todo) # "total" /\ GoesOn => ~Open("total") /\ ~Open("total")'
    BY DEF Open, GoesOn
  <2> QED
    BY <2>1, <2>2 DEF TotalNow
<1>14. CASE Head(todo) = "total"
  <2> DEFINE sum == TotalNow + L \div GALLON
  <2>1. /\ UNCHANGED wwCounter /\ (overflowed => overflowed')
        /\ \/ GoesOn /\ oldValue' = TotalNow /\ folds' = folds
           \/ IsDone /\ folds' = folds + 1 /\ totalWCounter' = sum
    BY <1>14, WriteOfTotal DEF w0, L
  <2>2. S' = S
    BY <1>11, <1>14, <2>1 DEF S
  <2>3. ~Moved /\ Twice = 0
    BY <1>14 DEF Moved, Twice
  <2>4. CASE GoesOn /\ oldValue' = TotalNow /\ folds' = folds
    <3>1. TotalNow' = TotalNow
      BY <1>0, <1>14, <2>4 DEF TotalNow, Open, GoesOn
    <3>2. T' = T /\ F' = F /\ Twice' = 0
      BY <1>6, <1>9, <2>3, <2>4, <3>1 DEF T, F
    <3> QED
      BY <1>7, <1>10, <2>1, <2>2, <2>3, <2>4, <3>2
  <2>5. CASE IsDone /\ folds' = folds + 1 /\ totalWCounter' = sum
    <3>1. Moved'
      BY <1>0, <1>14, <2>5, PlanShapes DEF Moved, IsDone
    <3>2. Twice' = L
      BY <1>6, <2>1, <3>1 DEF L
    <3>3. F' = F + (GALLON - 1) /\ T' <= T + L /\ T' >= T + L - (GALLON - 1) /\ T' \in Int
      <4>1. /\ (folds + 1) * (GALLON - 1) = folds * (GALLON - 1) + (GALLON - 1)
            /\ L \div GALLON \in Nat
            /\ (TotalNow + L \div GALLON) * GALLON <= TotalNow * GALLON + L
            /\ (TotalNow + L \div GALLON) * GALLON >= TotalNow * GALLON + L - (GALLON - 1)
        BY <1>1, <1>4, GallonsAdd
      <4>2. F' = (folds + 1) * (GALLON - 1)
        BY <2>5 DEF F
      <4>3. T' = (TotalNow + L \div GALLON) * GALLON
        BY <1>12, <2>5 DEF T
      <4>4. F' = F + (GALLON - 1)
        BY <4>1, <4>2 DEF F
      <4>5. T' <= T + L /\ T' >= T + L - (GALLON - 1)
        BY <4>1, <4>3 DEF T
      <4>6. T' \in Int
        BY <1>1, <4>1, <4>3
      <4> QED
        BY <4>4, <4>5, <4>6
    <3> HIDE DEF sum
    <3> QED
      BY <1>1, <1>2, <1>4, <1>7, <1>10, <1>14, <2>1, <2>2, <2>3, <2>5, <3>2, <3>3
  <2> QED
    BY <2>1, <2>4, <2>5
<1>15. CASE Head(todo) = "date"
  <2>1. UNCHANGED <<wwCounter, totalWCounter, folds, overflowed>> /\ (GoesOn \/ IsDone)
    BY <1>15, WriteOfDate
  <2>2. Moved' /\ Moved
    <3>1. Moved
      BY <1>0, <1>15 DEF Moved
    <3>2. IsDone => Moved'
      BY <1>0, <1>15, PlanShapes DEF Moved, IsDone
    <3> QED
      BY <1>9, <2>1, <3>1, <3>2
  <2>3. Twice' = Twice /\ S' = S /\ T' = T /\ F' = F
    <3>1. Counters' = Counters /\ TotalNow' = TotalNow
      BY <1>11, <1>13, <1>15, <2>1
    <3> QED
      BY <1>6, <2>1, <2>2, <3>1 DEF Twice, S, T, F, w0
  <2> QED
    BY <1>7, <1>10, <1>15, <2>1, <2>3
<1>16. CASE Head(todo) = "zero"
  <2>1. /\ UNCHANGED <<totalWCounter, folds, overflowed>> /\ (GoesOn \/ IsDone)
        /\ \E v \in 0 .. COUNTER - 1 : /\ wwCounter' = [wwCounter EXCEPT ![w0] = v]
                                       /\ IsDone => v = 0
    BY <1>16, WriteOfZero DEF w0, GoesOn, IsDone
  <2>2. PICK v \in 0 .. COUNTER - 1 : /\ wwCounter' = [wwCounter EXCEPT ![w0] = v]
                                      /\ IsDone => v = 0
    BY <2>1
  <2>3. v \in Nat
    BY <1>1
  <2>4. Moved /\ Twice = L
    BY <1>0, <1>16 DEF Moved, Twice, L, w0
  <2>5. Twice' = v
    <3>1. wwCounter'[w0] = v
      BY <1>1, <2>2
    <3>2. IsDone => ~Moved'
      <4>1. Tail(todo) = <<>> \/ Head(Tail(todo)) = "add"
        BY <1>0, <1>16, PlanShapes
      <4> QED
        BY <1>0, <4>1 DEF Moved, IsDone
    <3> QED
      BY <1>6, <1>9, <2>1, <2>2, <2>4, <3>1, <3>2
  <2>6. S' = S - L + v
    <3>1. Counters' = [wwCounter EXCEPT ![w0] = v] /\ Counters = wwCounter
      BY <1>11, <1>16, <2>1, <2>2
    <3>2. S' = SumFunction([wwCounter EXCEPT ![w0] = v]) /\ S = SumFunction(wwCounter)
      BY <3>1 DEF S
    <3> QED
      BY <1>1, <1>3, <2>3, <3>2 DEF L
  <2>7. T' = T /\ F' = F
    BY <1>13, <1>16, <2>1 DEF T, F
  <2> QED
    BY <1>2, <1>4, <1>7, <1>10, <1>16, <2>1, <2>3, <2>4, <2>5, <2>6, <2>7
<1>17. CASE Head(todo) = "add"
  <2> DEFINE sum == Counters[dow] + amount
  <2>1. /\ UNCHANGED <<totalWCounter, folds>> /\ (overflowed => overflowed')
        /\ \/ GoesOn /\ [wwCounter' EXCEPT ![dow] = oldValue'] = Counters
           \/ /\ IsDone /\ wwCounter' = [Counters EXCEPT ![dow] = sum % COUNTER]
              /\ sum < COUNTER
    <3>1. sum \in Nat
      BY <1>1
    <3> HIDE DEF sum
    <3> QED
      BY <1>1, <1>17, <3>1, WriteOfAdd DEF sum
  <2>2. ~Moved /\ Recording /\ Twice = 0 /\ Pending = amount
    BY <1>0, <1>17, PlanShapes DEF Moved, Recording, Twice, Pending
  <2>3. T' = T /\ F' = F
    BY <1>13, <1>17, <2>1 DEF T, F
  <2>4. CASE GoesOn /\ [wwCounter' EXCEPT ![dow] = oldValue'] = Counters
    <3>1. Counters' = Counters
      BY <1>0, <1>17, <2>4 DEF Counters, Open, GoesOn
    <3>2. S' = S /\ Twice' = 0
      BY <1>6, <1>9, <2>2, <2>4, <3>1 DEF S
    <3> QED
      BY <1>7, <1>10, <2>1, <2>2, <2>3, <2>4, <3>2
  <2>5. CASE /\ IsDone /\ wwCounter' = [Counters EXCEPT ![dow] = sum % COUNTER]
             /\ sum < COUNTER
    <3>1. ~Moved' /\ ~Recording'
      <4>1. Tail(todo) = <<>>
        BY <1>0, <1>17, PlanShapes
      <4> QED
        BY <2>5, <4>1 DEF Moved, Recording, IsDone
    <3>2. Twice' = 0 /\ Pending' = 0
      BY <1>5, <1>6, <3>1
    <3>3. sum \in Nat /\ sum \in 0 .. COUNTER - 1
      BY <1>1, <2>5
    <3>4. sum % COUNTER = sum
      <4> HIDE DEF sum
      <4> QED
        BY <1>1, <3>3, SmallModulo
    <3>5. S' = S + amount
      <4>1. S' = SumFunction([Counters EXCEPT ![dow] = sum])
        <5>1. Counters' = [Counters EXCEPT ![dow] = sum]
          BY <1>12, <2>5, <3>4, Zenon
        <5> QED
          BY <5>1 DEF S
      <4>2. S' = S - Counters[dow] + sum
        <5> HIDE DEF sum
        <5> QED
          BY <1>1, <1>3, <3>3, <4>1 DEF S
      <4> QED
        BY <1>1, <1>2, <4>2
    <3> HIDE DEF sum
    <3> QED
      BY <1>1, <1>2, <1>4, <1>7, <2>1, <2>2, <2>3, <3>2, <3>5
  <2> QED
    BY <2>1, <2>4, <2>5
<1> QED
  BY <1>0, <1>14, <1>15, <1>16, <1>17, PlanShapes

(* The other actions keep the balance.                                     *)
LEMMA BalanceOther ==
  ASSUME WaterTypes, Halfway, Balance,
         \/ \E d \in Dates : SetDate(d)
         \/ \E use \in Uses : CountZoneWater(use)
         \/ JSONWWCounters \/ PowerFails \/ UNCHANGED waterVars
  PROVE  Balance'
<1> DEFINE F == folds * (GALLON - 1)
<1>0. /\ Used \in Nat /\ lost \in Nat /\ F \in Int /\ Held \in Int
      /\ Pending \in Nat /\ Twice \in Nat /\ doubled \in Nat
      /\ amount \in Nat /\ wwCounter[weekday(date)] \in Nat
  BY BalanceNumbers, WaterNumbers
<1>1. ~overflowed /\ ~torn => /\ Used - lost - F <= Held + Pending - Twice
                              /\ Held + Pending - Twice <= Used - lost + doubled
  BY DEF Balance
<1>a. bytesDone = 0 => Counters = wwCounter /\ TotalNow = totalWCounter
  BY DEF Counters, TotalNow, Open
<1>b. bytesDone' = 0 => Counters' = wwCounter' /\ TotalNow' = totalWCounter'
  BY DEF Counters, TotalNow, Open
<1>c. todo = <<>> => bytesDone = 0
  BY DEF WaterTypes
<1>2. ASSUME bytesDone = 0, bytesDone' = 0,
             UNCHANGED <<wwCounter, totalWCounter, folds, overflowed>>
      PROVE  Held' = Held /\ F' = F /\ overflowed' = overflowed
  BY <1>2, <1>a, <1>b DEF Held
<1>3. todo = <<>> => Pending = 0 /\ Twice = 0
  BY DEF Pending, Twice, Recording, Moved
<1>4. todo' = <<>> => Pending' = 0 /\ Twice' = 0
  BY DEF Pending, Twice, Recording, Moved
<1>5. ASSUME Used' - lost' - F' <= Held' + Pending' - Twice',
             Held' + Pending' - Twice' <= Used' - lost' + doubled'
      PROVE  Balance'
  BY <1>5 DEF Balance
<1> HIDE DEF F
<1>7. ASSUME NEW d \in Dates, SetDate(d)
      PROVE  Balance'
  <2>1. /\ todo = <<>> /\ todo' = <<>> /\ bytesDone = 0 /\ bytesDone' = 0
        /\ UNCHANGED <<wwCounter, totalWCounter, folds, overflowed, torn, usedOn, lost, doubled>>
    BY <1>7, <1>c DEF SetDate, waterEeprom, waterHistory, writing
  <2>2. Held' = Held /\ F' = F /\ Used' = Used
    BY <1>2, <2>1 DEF Used
  <2> QED
    BY <1>1, <1>3, <1>4, <2>1, <2>2 DEF Balance, F
<1>8. ASSUME NEW use \in Uses, CountZoneWater(use)
      PROVE  Balance'
  <2>1. /\ todo = <<>> /\ todo' = MovesOf(date') \o <<"add">> /\ amount' = use
        /\ usedOn' = [usedOn EXCEPT ![date] = @ + use]
        /\ bytesDone = 0 /\ bytesDone' = 0
        /\ UNCHANGED <<wwCounter, totalWCounter, folds, overflowed, torn, lost, doubled>>
    BY <1>8, <1>c DEF CountZoneWater, waterEeprom, writing
  <2>2. use \in Nat /\ usedOn[date] \in Nat
    BY WaterAssumption DEF WaterAssumption, WaterTypes
  <2>3. Used' = Used + use
    <3>1. usedOn[date] + use \in Nat
      BY <2>2
    <3>2. Used' = SumFunction([usedOn EXCEPT ![date] = usedOn[date] + use])
      BY <2>1 DEF Used
    <3>3. Used' = Used - usedOn[date] + (usedOn[date] + use)
      BY <3>1, <3>2, WaterSums
    <3> QED
      BY <1>0, <2>2, <3>3
  <2>4. Pending' = use
    BY <2>1, PlanStarts DEF Pending, Recording
  <2>5. Twice' = 0
    <3>1. Head(todo') \in {"total", "add"}
      BY <2>1, PlanStarts
    <3> QED
      BY <3>1 DEF Twice, Moved
  <2>6. Held' = Held /\ F' = F
    BY <1>2, <2>1
  <2>7. ~overflowed /\ ~torn => /\ Used' - lost' - F' <= Held' + Pending' - Twice'
                                /\ Held' + Pending' - Twice' <= Used' - lost' + doubled'
    BY <1>0, <1>1, <1>3, <2>1, <2>2, <2>3, <2>4, <2>5, <2>6
  <2> QED
    BY <1>5, <2>1, <2>7 DEF Balance
<1>9. CASE JSONWWCounters
  <2>1. /\ todo = <<>> /\ todo' = MovesOf(date) /\ bytesDone = 0 /\ bytesDone' = 0
        /\ UNCHANGED <<wwCounter, totalWCounter, folds, overflowed, torn, usedOn, lost, doubled>>
    BY <1>9, <1>c DEF JSONWWCounters, waterEeprom, waterHistory, writing
  <2>2. Pending' = 0 /\ Twice' = 0
    <3>1. CASE todo' = <<>>
      BY <1>4, <3>1
    <3>2. CASE todo' # <<>>
      <4>1. Head(todo') = "total" /\ Last(todo') = "zero"
        BY <2>1, <3>2, PlanStarts
      <4> QED
        BY <4>1 DEF Pending, Twice, Recording, Moved
    <3> QED
      BY <3>1, <3>2
  <2>3. Held' = Held /\ F' = F /\ Used' = Used
    BY <1>2, <2>1 DEF Used
  <2>4. ~overflowed /\ ~torn => /\ Used' - lost' - F' <= Held' + Pending' - Twice'
                                /\ Held' + Pending' - Twice' <= Used' - lost' + doubled'
    BY <1>1, <1>3, <2>1, <2>2, <2>3
  <2> QED
    BY <1>5, <2>1, <2>4 DEF Balance
<1>10. CASE PowerFails
  <2> DEFINE w0 == weekday(date)
             L == wwCounter[w0]
             T == TotalNow * GALLON
             S == SumFunction(Counters)
  <2>1. /\ todo # <<>> /\ todo \in Plans /\ todo' = <<>> /\ bytesDone' = 0
        /\ lost' = IF Last(todo) # "add" \/ (Head(todo) = "add" /\ Written)
                   THEN lost ELSE lost + amount
        /\ doubled' = IF Head(todo) \in {"date", "zero"} \/ (Head(todo) = "total" /\ Written)
                      THEN doubled + L ELSE doubled
        /\ UNCHANGED <<wwCounter, totalWCounter, folds, overflowed, usedOn>>
        /\ F' = F /\ Used' = Used /\ Pending' = 0 /\ Twice' = 0
    BY <1>4, <1>10 DEF PowerFails, waterEeprom, WaterTypes, Used, F
  <2>2. torn' = (torn \/ (/\ Head(todo) \in {"total", "add"} /\ bytesDone > 0
                         /\ Content \notin {oldValue, newValue}))
    BY <1>10 DEF PowerFails
  <2>3. Held' = totalWCounter * GALLON + SumFunction(wwCounter) /\ Held = T + S
    BY <1>b, <2>1 DEF Held
  <2>4. /\ L \in Nat /\ amount \in Nat /\ T \in Int /\ S \in Nat /\ GALLON \in Nat \ {0}
        /\ TotalNow \in Nat /\ COUNTER \in Nat \ {0} /\ TOTAL \in Nat \ {0}
        /\ wwCounter \in [Weekdays -> Nat] /\ Counters \in [Weekdays -> Nat] /\ dow \in Weekdays
        /\ oldValue \in Nat /\ newValue \in Nat
    BY BalanceNumbers, WaterNumbers, Reckoned, Powers, WaterAssumption DEF WaterAssumption
  <2>5. /\ Recording <=> Last(todo) = "add"
        /\ Moved <=> Head(todo) \in {"date", "zero"}
    BY <2>1 DEF Recording, Moved
  <2> HIDE DEF w0, L, T, S
  <2>6. Pending = (IF Last(todo) = "add" THEN amount ELSE 0)
        /\ Twice = (IF Head(todo) \in {"date", "zero"} THEN L ELSE 0)
    BY <2>5 DEF Pending, Twice, L, w0
  <2>7. ASSUME \/ Held' = Held /\ lost' = lost + Pending /\ doubled' = doubled + Twice
               \/ /\ Held' >= Held /\ Held' <= Held + L /\ lost' = lost + Pending
                  /\ Twice = 0 /\ doubled' = doubled + L
               \/ Held' = Held + Pending /\ lost' = lost /\ doubled' = doubled /\ Twice = 0,
               Held' \in Int
        PROVE  Balance'
    <3>1. ~overflowed /\ ~torn => /\ Used' - lost' - F' <= Held' + Pending' - Twice'
                                  /\ Held' + Pending' - Twice' <= Used' - lost' + doubled'
      <4>1. /\ Used' = Used /\ F' = F /\ Pending' = 0 /\ Twice' = 0
            /\ Held \in Int /\ Held' \in Int /\ L \in Nat
        BY <1>0, <2>1, <2>4, <2>7
      <4>2. CASE Held' = Held /\ lost' = lost + Pending /\ doubled' = doubled + Twice
        BY <1>0, <1>1, <4>1, <4>2
      <4>3. CASE /\ Held' >= Held /\ Held' <= Held + L /\ lost' = lost + Pending
                 /\ Twice = 0 /\ doubled' = doubled + L
        <5> SUFFICES ASSUME ~overflowed, ~torn
                     PROVE  /\ Used' - lost' - F' <= Held' + Pending' - Twice'
                            /\ Held' + Pending' - Twice' <= Used' - lost' + doubled'
          OBVIOUS
        <5>1. Used - lost - F <= Held + Pending /\ Held + Pending <= Used - lost + doubled
          BY <1>0, <1>1, <4>3
        <5>2. Used - (lost + Pending) - F <= Held' /\ Held' <= Used - (lost + Pending) + (doubled + L)
          BY <1>0, <4>1, <4>3, <5>1
        <5>3. /\ Used' - lost' - F' = Used - (lost + Pending) - F
              /\ Used' - lost' + doubled' = Used - (lost + Pending) + (doubled + L)
          BY <4>1, <4>3
        <5>4. Held' + Pending' - Twice' = Held'
          <6>1. Pending' = 0 /\ Twice' = 0 /\ Held' \in Int
            BY <4>1
          <6>2. \A h \in Int : h + 0 - 0 = h
            OBVIOUS
          <6>3. Held' + 0 - 0 = Held'
            BY <6>1, <6>2
          <6> QED
            BY <6>1, <6>3
        <5> QED
          BY <5>2, <5>3, <5>4
      <4>4. CASE Held' = Held + Pending /\ lost' = lost /\ doubled' = doubled /\ Twice = 0
        BY <1>0, <1>1, <4>1, <4>4
      <4> QED
        BY <2>7, <4>2, <4>3, <4>4
    <3>2. ~overflowed' /\ ~torn' => ~overflowed /\ ~torn
      BY <2>1, <2>2
    <3> QED
      BY <3>1, <3>2 DEF Balance, F
  <2>8. Held' \in Int
    <3>1. SumFunction(wwCounter) \in Nat
      BY <2>4, WaterSums
    <3>2. totalWCounter * GALLON \in Int
      BY <2>4, WaterNumbers
    <3> QED
      BY <2>3, <3>1, <3>2
  <2>9. CASE bytesDone = 0 \/ Head(todo) \in {"date", "zero"}
    <3>1. Held' = Held
      <4>1. Counters = wwCounter /\ TotalNow = totalWCounter
        BY <2>9 DEF Counters, TotalNow, Open
      <4> QED
        BY <2>3, <4>1 DEF T, S
    <3>2. lost' = lost + Pending /\ doubled' = doubled + Twice
      <4>1. bytesDone = 0 => ~Written
        BY DEF Written
      <4> QED
        BY <1>0, <2>1, <2>4, <2>6, <2>9, <4>1
    <3> QED
      BY <2>7, <2>8, <3>1, <3>2
  <2>10. CASE Open("total")
    <3> DEFINE sum == oldValue + L \div GALLON
    <3>1. /\ Content = totalWCounter /\ Head(todo) = "total" /\ bytesDone > 0
          /\ Counters = wwCounter /\ TotalNow = oldValue /\ Twice = 0
          /\ newValue = sum % TOTAL /\ (sum >= TOTAL => overflowed)
      <4>1. Content = totalWCounter /\ Head(todo) = "total" /\ bytesDone > 0
        BY <2>10 DEF Content, Open
      <4>2. Counters = wwCounter /\ TotalNow = oldValue
        BY <2>10, <4>1 DEF Counters, TotalNow, Open
      <4>3. newValue = sum % TOTAL /\ (sum >= TOTAL => overflowed)
        BY <2>10 DEF Halfway, L, w0
      <4> QED
        BY <2>6, <4>1, <4>2, <4>3
    <3>2. CASE totalWCounter = newValue
      <4>1. lost' = lost + Pending /\ doubled' = doubled + L
        BY <1>0, <2>1, <2>4, <2>6, <3>1, <3>2 DEF Written
      <4>2. CASE overflowed
        BY <2>1, <4>2 DEF Balance
      <4>3. CASE ~overflowed
        <5>1. L \div GALLON \in Nat /\ (TotalNow + L \div GALLON) * GALLON <= T + L
              /\ (TotalNow + L \div GALLON) * GALLON >= T
          BY <2>4, GallonsAdd DEF T
        <5>2. sum \in 0 .. TOTAL - 1
          BY <2>4, <3>1, <4>3, <5>1
        <5>3. totalWCounter = sum
          <6> HIDE DEF sum
          <6> QED
            BY <2>4, <3>1, <3>2, <5>2, SmallModulo
        <5>4. Held' = (TotalNow + L \div GALLON) * GALLON + S
          BY <2>3, <3>1, <5>3 DEF S
        <5>5. Held' >= Held /\ Held' <= Held + L
          <6> DEFINE p == (TotalNow + L \div GALLON) * GALLON
          <6>1. p \in Int /\ p <= T + L /\ p >= T /\ Held' = p + S
            BY <2>4, <5>1, <5>4
          <6> HIDE DEF p
          <6> QED
            BY <2>3, <2>4, <6>1
        <5> QED
          BY <2>7, <2>8, <3>1, <4>1, <5>5
      <4> QED
        BY <4>2, <4>3
    <3>3. CASE totalWCounter # newValue /\ totalWCounter = oldValue
      <4>1. lost' = lost + Pending /\ doubled' = doubled + Twice
        BY <1>0, <2>1, <2>4, <2>6, <3>1, <3>3 DEF Written
      <4>2. Held' = Held
        BY <2>3, <3>1, <3>3 DEF T, S
      <4> QED
        BY <2>7, <2>8, <4>1, <4>2
    <3>4. CASE totalWCounter \notin {oldValue, newValue}
      <4>1. torn'
        BY <2>2, <3>1, <3>4
      <4> QED
        BY <4>1 DEF Balance
    <3> QED
      BY <3>2, <3>3, <3>4
  <2>11. CASE Open("add")
    <3> DEFINE sum == oldValue + amount
    <3>1. /\ Content = wwCounter[dow] /\ Head(todo) = "add" /\ Last(todo) = "add"
          /\ bytesDone > 0 /\ Counters = [wwCounter EXCEPT ![dow] = oldValue]
          /\ TotalNow = totalWCounter /\ Twice = 0 /\ Pending = amount
          /\ newValue = sum % COUNTER /\ (sum >= COUNTER => overflowed)
      <4>1. Content = wwCounter[dow] /\ Head(todo) = "add" /\ bytesDone > 0
        BY <2>11 DEF Content, Open
      <4>2. Last(todo) = "add"
        BY <2>1, <4>1, PlanShapes
      <4>3. Counters = [wwCounter EXCEPT ![dow] = oldValue] /\ TotalNow = totalWCounter
        BY <2>11, <4>1 DEF Counters, TotalNow, Open
      <4>4. newValue = sum % COUNTER /\ (sum >= COUNTER => overflowed)
        BY <2>11 DEF Halfway
      <4> QED
        BY <2>6, <4>1, <4>2, <4>3, <4>4
    <3>2. S = SumFunction(wwCounter) - wwCounter[dow] + oldValue
          /\ SumFunction(wwCounter) \in Nat /\ wwCounter[dow] \in Nat
      <4>1. SumFunction([wwCounter EXCEPT ![dow] = oldValue])
              = SumFunction(wwCounter) - wwCounter[dow] + oldValue
        BY <2>4, WaterSums
      <4>2. S = SumFunction([wwCounter EXCEPT ![dow] = oldValue])
        BY <3>1 DEF S
      <4>3. SumFunction(wwCounter) \in Nat
        BY <2>4, WaterSums
      <4>4. wwCounter[dow] \in Nat
        BY <2>4
      <4> QED
        BY <4>1, <4>2, <4>3, <4>4
    <3>3. CASE wwCounter[dow] = newValue
      <4>1. lost' = lost /\ doubled' = doubled
        BY <2>1, <3>1, <3>3 DEF Written
      <4>2. CASE overflowed
        BY <2>1, <4>2 DEF Balance
      <4>3. CASE ~overflowed
        <5>1. sum \in 0 .. COUNTER - 1
          BY <2>4, <3>1, <4>3
        <5>2. wwCounter[dow] = sum
          <6> HIDE DEF sum
          <6> QED
            BY <2>4, <3>1, <3>3, <5>1, SmallModulo
        <5>3. SumFunction(wwCounter) = S + amount
          BY <2>4, <3>2, <5>2
        <5>4. Held' = Held + Pending
          BY <2>3, <2>4, <3>1, <3>2, <5>3 DEF T
        <5> QED
          BY <2>7, <2>8, <3>1, <4>1, <5>4
      <4> QED
        BY <4>2, <4>3
    <3>4. CASE wwCounter[dow] # newValue /\ wwCounter[dow] = oldValue
      <4>1. lost' = lost + Pending /\ doubled' = doubled + Twice
        BY <1>0, <2>1, <2>4, <2>6, <3>1, <3>4 DEF Written
      <4>2. Held' = Held
        <5>1. SumFunction(wwCounter) = S
          BY <2>4, <3>2, <3>4
        <5> QED
          BY <2>3, <3>1, <5>1 DEF T
      <4> QED
        BY <2>7, <2>8, <4>1, <4>2
    <3>5. CASE wwCounter[dow] \notin {oldValue, newValue}
      <4>1. torn'
        BY <2>2, <3>1, <3>5
      <4> QED
        BY <4>1 DEF Balance
    <3> QED
      BY <3>3, <3>4, <3>5
  <2> QED
    <3>1. Head(todo) \in {"total", "date", "zero", "add"} /\ bytesDone \in 0 .. 3
      BY <2>1, PlanShapes DEF WaterTypes
    <3> QED
      BY <2>1, <2>9, <2>10, <2>11, <3>1 DEF Open
<1>11. CASE UNCHANGED waterVars
  <2>1. UNCHANGED <<wwCounter, totalWCounter, folds, overflowed, torn, usedOn, lost, doubled, todo,
                    amount, date, dow, bytesDone, oldValue>>
    BY <1>11 DEF waterVars, waterEeprom, waterHistory, writing
  <2>2. Held' = Held /\ F' = F /\ Used' = Used /\ Pending' = Pending /\ Twice' = Twice
    <3>1. Recording' = Recording /\ Moved' = Moved /\ weekday(date)' = weekday(date)
          /\ Counters' = Counters /\ TotalNow' = TotalNow
      BY <2>1 DEF Recording, Moved, weekday, Counters, TotalNow, Open
    <3>2. Pending' = Pending /\ Twice' = Twice
      BY <2>1, <3>1 DEF Pending, Twice
    <3> QED
      BY <2>1, <3>1, <3>2 DEF Used, Held, F
  <2>3. ~overflowed /\ ~torn => /\ Used' - lost' - F' <= Held' + Pending' - Twice'
                                /\ Held' + Pending' - Twice' <= Used' - lost' + doubled'
    BY <1>1, <2>1, <2>2
  <2> QED
    BY <1>5, <2>1, <2>3 DEF Balance
<1> QED
  BY <1>7, <1>8, <1>9, <1>10, <1>11

(* Every step keeps the balance.                                           *)
LEMMA BalanceStep ==
  ASSUME WaterTypes, Halfway, Balance, [WaterNext]_waterVars
  PROVE  Balance'
BY BalanceWrite, BalanceOther DEF WaterNext

(* At the start nothing has been used.                                     *)
LEMMA BalanceInit == WaterInit => Balance
<1> SUFFICES ASSUME WaterInit
             PROVE  Balance
  OBVIOUS
<1>1. IsFiniteSet(Dates) /\ WEEK \in Nat \ {0} /\ GALLON \in Nat \ {0}
  <2>1. Dates \subseteq 0 .. TOTAL - 1 /\ WEEK \in Nat \ {0} /\ GALLON \in Nat \ {0}
    BY WaterAssumption DEF WaterAssumption
  <2>2. IsFiniteSet(0 .. TOTAL - 1)
    <3>1. TOTAL \in Int
      BY Powers
    <3> QED
      BY <3>1, FS_Interval
  <2> QED
    BY <2>1, <2>2, FS_Subset
<1>2. IsFiniteSet(Weekdays)
  BY <1>1, FS_Interval DEF Weekdays
<1>a. Counters = wwCounter /\ TotalNow = totalWCounter
  BY DEF WaterInit, Counters, TotalNow, Open
<1>3. Used = 0 /\ SumFunction(Counters) = 0
  BY <1>1, <1>2, <1>a, SumOfZeros DEF WaterInit, Used
<1>4. Pending = 0 /\ Twice = 0
  BY DEF WaterInit, Pending, Twice, Recording, Moved
<1>5. TotalNow * GALLON = 0 /\ folds * (GALLON - 1) = 0 /\ lost = 0 /\ doubled = 0
  <2>1. TotalNow = 0 /\ folds = 0 /\ lost = 0 /\ doubled = 0
    BY <1>a DEF WaterInit
  <2>2. 0 * GALLON = 0 /\ 0 * (GALLON - 1) = 0
    BY <1>1
  <2> QED
    BY <2>1, <2>2
<1>6. Held = 0
  BY <1>3, <1>5 DEF Held
<1> QED
  BY <1>3, <1>4, <1>5, <1>6 DEF Balance

-----------------------------------------------------------------------------
(* The invariant of the water counters: a call in progress is a plan of    *)
(* writes, a value half written is the right one, every counter keeps to   *)
(* its day but for the one being moved, and the counters and the total     *)
(* hold the water used.                                                    *)
THEOREM WaterInvHolds == WaterSpec => []WaterInv
<1>1. WaterInit => WaterInv
  BY WaterTypesInit, DatedInit, BalanceInit DEF WaterInv
<1>2. WaterInv /\ [WaterNext]_waterVars => WaterInv'
  BY WaterTypesStep, DatedStep, BalanceStep DEF WaterInv
<1> QED
  BY <1>1, <1>2, PTL DEF WaterSpec

(* Counters are words, the total and the dates double words, and a call    *)
(* has at most four values to write.                                       *)
THEOREM WaterTypeCorrect == WaterSpec => []WaterTypeOK
<1>1. WaterInv => WaterTypeOK
  <2> SUFFICES ASSUME WaterTypes
               PROVE  WaterTypeOK
    BY DEF WaterInv
  <2>1. todo \in Seq({"total", "date", "zero", "add"}) /\ Len(todo) <= 4
    BY PlanShapes DEF WaterTypes
  <2> QED
    BY <2>1 DEF WaterTypes, WaterTypeOK
<1> QED
  BY <1>1, WaterInvHolds, PTL

(* Between calls no water is lost but the fractions of a gallon, and the   *)
(* run of a call that was cut; and none is counted twice but what cut      *)
(* calls have left in a counter: unless a counter or the total has         *)
(* wrapped, or been torn by a power failure between two of its bytes.      *)
THEOREM WaterIsConserved == WaterSpec => []WaterConserved
<1>1. WaterInv => WaterConserved
  <2> SUFFICES ASSUME WaterTypes, Balance, todo = <<>>, ~overflowed, ~torn
               PROVE  LET held == totalWCounter * GALLON + SumFunction(wwCounter)
                      IN  /\ held >= Used - lost - folds * (GALLON - 1)
                          /\ held <= Used - lost + doubled
    BY DEF WaterInv, WaterConserved
  <2>1. Pending = 0 /\ Twice = 0
    BY DEF Pending, Twice, Recording, Moved
  <2>2. /\ Used - lost - folds * (GALLON - 1) <= Held + Pending - Twice
        /\ Held + Pending - Twice <= Used - lost + doubled
    BY DEF Balance
  <2>3. /\ Used \in Nat /\ lost \in Nat /\ folds * (GALLON - 1) \in Int /\ Held \in Int
        /\ doubled \in Nat
    BY BalanceNumbers
  <2> DEFINE F == folds * (GALLON - 1)
  <2>4. F \in Int /\ Used - lost - F <= Held + Pending - Twice
    BY <2>2, <2>3
  <2> HIDE DEF F
  <2>5. Held >= Used - lost - F
    BY <2>1, <2>3, <2>4
  <2>6. Held <= Used - lost + doubled
    BY <2>1, <2>2, <2>3
  <2>7. Held = totalWCounter * GALLON + SumFunction(wwCounter)
    BY DEF Held, TotalNow, Counters, Open
  <2> QED
    BY <2>5, <2>6, <2>7 DEF F
<1> QED
  BY <1>1, WaterInvHolds, PTL

(* Between calls a counter holds no more than was used on the day that it  *)
(* bears, and what was recorded across a midnight, wherever the power has  *)
(* failed, unless it has left a counter in the total that was not cleared. *)
THEOREM CountersKeepTheirDate == WaterSpec => []CounterIsOfItsDate
<1>1. WaterInv => CounterIsOfItsDate
  <2> SUFFICES ASSUME WaterTypes, Dated, todo = <<>>, doubled = 0, NEW w \in Weekdays
               PROVE  wwCounter[w] <= UsedOn(wCounterDate[w]) + astray
    BY DEF WaterInv, CounterIsOfItsDate
  <2>1. ~Recording /\ ~Moving /\ Counters = wwCounter
    BY DEF Recording, Moving, Counters, Open
  <2>2. CountsItsDay(w)
    BY <2>1 DEF Dated
  <2> QED
    BY <2>1, <2>2, WaterNumbers DEF CountsItsDay
<1> QED
  BY <1>1, WaterInvHolds, PTL

=============================================================================
