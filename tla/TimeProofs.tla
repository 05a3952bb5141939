----------------------------- MODULE TimeProofs -----------------------------
(***************************************************************************)
(* Proofs about Timer and TracingSpan, for every interval, every           *)
(* resolution of the clocks, every way in which time passes and every way  *)
(* in which the system clock is set.                                       *)
(***************************************************************************)
EXTENDS Timer, TracingSpan, SequenceTheorems, TLAPS

-----------------------------------------------------------------------------
(* Timer.                                                                  *)

(* What the timer keeps is the reading, cut to milliseconds, of the moment *)
(* when it last fired; the result of the last check is exact.              *)
TimerInv ==
  /\ steady \in Nat /\ fired \in Nat /\ fired <= steady
  /\ prev_time = fired \div TicksPerMilli
  /\ NeverEarly /\ NeverLate

(* Cutting to milliseconds loses less than one of them.                    *)
LEMMA CutBounds ==
  ASSUME NEW a \in Nat, NEW n \in Nat \ {0}
  PROVE  /\ a \div n \in Nat
         /\ n * (a \div n) <= a
         /\ a < n * (a \div n) + n
<1>1. a \div n \in Int /\ a % n \in 0..(n - 1)
  OBVIOUS
<1>2. a = n * (a \div n) + (a % n)
  OBVIOUS
<1>3. a \div n >= 0
  <2> SUFFICES ASSUME a \div n <= -1 PROVE FALSE
    BY <1>1
  <2>1. n * (a \div n) <= n * (-1)
    BY <1>1
  <2> QED
    BY <1>1, <1>2, <2>1
<1> QED
  BY <1>1, <1>2, <1>3

(* A difference of two readings in milliseconds against the real one.      *)
LEMMA CutDifference ==
  ASSUME NEW a \in Nat, NEW b \in Nat, NEW n \in Nat \ {0}, NEW m \in Nat
  PROVE  /\ (a \div n) - (b \div n) > m => a - b > m * n
         /\ ~((a \div n) - (b \div n) > m) => a - b < (m + 1) * n
<1> DEFINE p == a \div n
           q == b \div n
<1>1. /\ p \in Nat /\ n * p <= a /\ a < n * p + n
      /\ q \in Nat /\ n * q <= b /\ b < n * q + n
  BY CutBounds
<1> HIDE DEF p, q
<1>2. ASSUME p - q > m PROVE a - b > m * n
  <2>1. p >= q + m + 1
    BY <1>1, <1>2
  <2>2. n * p >= n * (q + m + 1)
    BY <1>1, <2>1
  <2>3. n * (q + m + 1) = n * q + m * n + n
    BY <1>1
  <2>4. n * p \in Nat /\ n * q \in Nat /\ m * n \in Nat
    BY <1>1
  <2> QED
    BY <1>1, <2>2, <2>3, <2>4
<1>3. ASSUME ~(p - q > m) PROVE a - b < (m + 1) * n
  <2>1. p <= q + m
    BY <1>1, <1>3
  <2>2. n * p <= n * (q + m)
    BY <1>1, <2>1
  <2>3. n * (q + m) = n * q + m * n /\ (m + 1) * n = m * n + n
    BY <1>1
  <2>4. n * p \in Nat /\ n * q \in Nat /\ m * n \in Nat
    BY <1>1
  <2> QED
    BY <1>1, <2>2, <2>3, <2>4
<1> QED
  BY <1>2, <1>3 DEF p, q

LEMMA InitTimerInv == TimerInit => TimerInv
<1> SUFFICES ASSUME TimerInit PROVE TimerInv
  OBVIOUS
<1>1. steady = 0 /\ fired = 0 /\ prev_time = 0 \div TicksPerMilli
  BY DEF TimerInit, ClockInit, Fetch, Now
<1>2. NeverEarly /\ NeverLate
  <2>1. interval \in Nat /\ TicksPerMilli \in Nat \ {0}
    BY IntervalAssumption, ClockAssumption DEF interval
  <2>2. (interval + 1) * TicksPerMilli > 0
    BY <2>1
  <2> QED
    BY <2>1, <2>2 DEF TimerInit, NeverEarly, NeverLate
<1> QED
  BY <1>1, <1>2 DEF TimerInv

(* The only step that may spoil the invariant is a check.                  *)
LEMMA CheckTimerInv == TimerInv /\ Check => TimerInv'
<1> SUFFICES ASSUME TimerInv, Check PROVE TimerInv'
  OBVIOUS
<1> DEFINE current == steady \div TicksPerMilli
<1>1. interval \in Nat /\ TicksPerMilli \in Nat \ {0}
  BY IntervalAssumption, ClockAssumption DEF interval
<1>2. steady \in Nat /\ fired \in Nat /\ fired <= steady
  BY DEF TimerInv
<1>3. /\ result' = [value |-> Elapsed(current), since |-> steady - fired]
      /\ prev_time' = IF Elapsed(current) THEN current ELSE prev_time
      /\ fired' = IF Elapsed(current) THEN steady ELSE fired
      /\ steady' = steady
  BY DEF Check, Fetch, Now, clockVars
<1>4. Elapsed(current)
        <=> (steady \div TicksPerMilli) - (fired \div TicksPerMilli) > interval
  BY DEF Elapsed, TimerInv
<1>5. /\ Elapsed(current) => steady - fired > interval * TicksPerMilli
      /\ ~Elapsed(current) => steady - fired < (interval + 1) * TicksPerMilli
  <2> HIDE DEF interval, current
  <2> QED
    BY <1>1, <1>2, <1>4, CutDifference
<1>6. NeverEarly' /\ NeverLate'
  <2>1. /\ result'.value = Elapsed(current)
        /\ result'.since = steady - fired
    BY <1>3
  <2> HIDE DEF current
  <2> QED
    BY <1>5, <2>1 DEF NeverEarly, NeverLate, interval
<1>7. prev_time' = fired' \div TicksPerMilli
  BY <1>3 DEF TimerInv
<1> QED
  BY <1>2, <1>3, <1>6, <1>7 DEF TimerInv

LEMMA StepTimerInv == TimerInv /\ [TimerNext]_<<clockVars, timerVars>> => TimerInv'
<1> SUFFICES ASSUME TimerInv, [TimerNext]_<<clockVars, timerVars>>
             PROVE  TimerInv'
  OBVIOUS
<1>1. ASSUME NEW d \in Steps, Pass(d), UNCHANGED timerVars PROVE TimerInv'
  BY <1>1, ClockAssumption
     DEF TimerInv, Pass, timerVars, NeverEarly, NeverLate, interval
<1>2. ASSUME NEW r \in SystemTimes, Adjust(r), UNCHANGED timerVars
      PROVE  TimerInv'
  BY <1>2 DEF TimerInv, Adjust, timerVars, NeverEarly, NeverLate, interval
<1>3. CASE Check
  BY <1>3, CheckTimerInv
<1>4. CASE UNCHANGED <<clockVars, timerVars>>
  BY <1>4 DEF TimerInv, clockVars, timerVars, NeverEarly, NeverLate, interval
<1> QED
  BY <1>1, <1>2, <1>3, <1>4 DEF TimerNext

(* Timer::check returns true only when more than the whole interval has    *)
(* passed since the timer was made or last returned true.                  *)
THEOREM TimerIsNeverEarly == TimerSpec => []NeverEarly
<1>1. TimerInv => NeverEarly
  BY DEF TimerInv
<1> QED
  BY <1>1, InitTimerInv, StepTimerInv, PTL DEF TimerSpec

(* Timer::check returns false only until less than a millisecond after the *)
(* interval, whatever checks came before.                                  *)
THEOREM TimerIsNeverLate == TimerSpec => []NeverLate
<1>1. TimerInv => NeverLate
  BY DEF TimerInv
<1> QED
  BY <1>1, InitTimerInv, StepTimerInv, PTL DEF TimerSpec

-----------------------------------------------------------------------------
(* TracingSpan.                                                            *)

Reading == [clock : Clocks, point : Nat, taken : Nat, adjusted : Nat]

TimeStamp == [millis : Int, from : Reading, stored : Nat]

AllStamps == {logs[k] : k \in 1..Len(logs)} \cup ({start, end} \ {NoTime})

(* The readings that the program still has.                                *)
Readings == points \cup {s.from : s \in AllStamps}

(* Between two readings of one clock, not set in between, as much time has *)
(* passed as they differ.                                                  *)
Agree(p, q) == Comparable(p, q) => p.point - q.point = p.taken - q.taken

ReadingsInv ==
  /\ \A p \in Readings : p \in Reading /\ p.adjusted <= adjustments
  /\ \A p, q \in Readings : Agree(p, q)
  /\ \A p \in Readings, c \in Clocks : Agree(p, Now(c))

StampsInv ==
  /\ logs \in Seq(TimeStamp)
  /\ \A s \in AllStamps :
       s \in TimeStamp /\ s.millis = Fetch(s.from) /\ s.stored <= steady

(* The order of the calls that stored the times.                           *)
OrderInv ==
  /\ ~finished => end = NoTime
  /\ \A k \in 1..Len(logs) : \A j \in k..Len(logs) :
       logs[k].stored <= logs[j].stored
  /\ end # NoTime => \A k \in 1..Len(logs) : logs[k].stored <= end.stored

SpanInv ==
  /\ steady \in Nat /\ system \in Nat /\ adjustments \in Nat
  /\ ReadingsInv /\ StampsInv /\ OrderInv

LEMMA NowIsReading ==
  ASSUME steady \in Nat, system \in Nat, adjustments \in Nat, NEW c \in Clocks
  PROVE  Now(c) \in Reading /\ Now(c).adjusted = adjustments
BY DEF Now, Reading, Clocks

LEMMA InitSpanInv == SpanInit => SpanInv
<1> SUFFICES ASSUME SpanInit PROVE SpanInv
  OBVIOUS
<1>1. steady \in Nat /\ system \in Nat /\ adjustments \in Nat
  BY ClockAssumption DEF SpanInit, ClockInit
<1>2. logs = <<>> /\ start = NoTime /\ end = NoTime /\ points = {}
  BY DEF SpanInit
<1>3. Len(logs) = 0 /\ logs \in Seq(TimeStamp)
  BY <1>2, EmptySeq
<1>4. AllStamps = {}
  BY <1>2, <1>3 DEF AllStamps
<1>5. Readings = {}
  BY <1>2, <1>4 DEF Readings
<1> QED
  BY <1>1, <1>2, <1>3, <1>4, <1>5 DEF SpanInv, ReadingsInv, StampsInv, OrderInv

(* While time passes or a clock is set, the span and the readings stay.    *)
LEMMA PassSpanInv ==
  ASSUME SpanInv, NEW d \in Steps, Pass(d), UNCHANGED spanVars
  PROVE  SpanInv'
<1>1. /\ steady' = steady + d /\ system' = system + d /\ d \in Nat
      /\ adjustments' = adjustments /\ steady' \in Nat /\ system' \in Nat
      /\ adjustments' \in Nat
      /\ UNCHANGED <<points, finished, start, end, logs>>
  BY ClockAssumption DEF SpanInv, Pass, spanVars
<1>2. AllStamps' = AllStamps /\ Readings' = Readings
  BY <1>1 DEF AllStamps, Readings
<1>3. ASSUME NEW p \in Readings, NEW c \in Clocks
      PROVE  Agree(p, Now(c)')
  <2>1. /\ Now(c)'.clock = Now(c).clock /\ Now(c)'.adjusted = Now(c).adjusted
        /\ Now(c)'.point = Now(c).point + d /\ Now(c)'.taken = Now(c).taken + d
    BY <1>1 DEF Now
  <2>2. Now(c) \in Reading /\ p \in Reading
    BY NowIsReading DEF SpanInv, ReadingsInv
  <2>3. Agree(p, Now(c))
    BY DEF SpanInv, ReadingsInv
  <2>4. PICK q \in Reading : q = Now(c)
    BY <2>2
  <2> QED
    BY <1>1, <2>1, <2>2, <2>3, <2>4 DEF Agree, Comparable, Reading
<1>4. ReadingsInv'
  <2>1. \A p \in Readings : p \in Reading /\ p.adjusted <= adjustments'
    BY <1>1 DEF SpanInv, ReadingsInv
  <2>2. \A p, q \in Readings : Agree(p, q)
    BY DEF SpanInv, ReadingsInv
  <2> QED
    BY <1>2, <1>3, <2>1, <2>2 DEF ReadingsInv, Agree
<1>5. StampsInv'
  <2>1. \A s \in AllStamps : s \in TimeStamp /\ s.millis = Fetch(s.from)
                             /\ s.stored <= steady'
    <3> SUFFICES ASSUME NEW s \in AllStamps
                 PROVE  s \in TimeStamp /\ s.millis = Fetch(s.from)
                        /\ s.stored <= steady'
      OBVIOUS
    <3>1. s \in TimeStamp /\ s.millis = Fetch(s.from) /\ s.stored <= steady
      BY DEF SpanInv, StampsInv
    <3> QED
      BY <1>1, <3>1 DEF TimeStamp, SpanInv
  <2> QED
    BY <1>1, <1>2, <2>1 DEF SpanInv, StampsInv, Fetch
<1>6. OrderInv'
  BY <1>1 DEF SpanInv, OrderInv
<1> QED
  BY <1>1, <1>4, <1>5, <1>6 DEF SpanInv

LEMMA AdjustSpanInv ==
  ASSUME SpanInv, NEW reading \in SystemTimes, Adjust(reading), UNCHANGED spanVars
  PROVE  SpanInv'
<1>1. /\ steady' = steady /\ system' = reading
      /\ adjustments' = adjustments + 1 /\ steady' \in Nat /\ system' \in Nat
      /\ adjustments' \in Nat /\ adjustments \in Nat
      /\ UNCHANGED <<points, finished, start, end, logs>>
  BY ClockAssumption DEF SpanInv, Adjust, spanVars
<1>2. AllStamps' = AllStamps /\ Readings' = Readings
  BY <1>1 DEF AllStamps, Readings
<1>3. ASSUME NEW p \in Readings, NEW c \in Clocks
      PROVE  Agree(p, Now(c)')
  <2>1. p \in Reading /\ p.adjusted <= adjustments
    BY DEF SpanInv, ReadingsInv
  <2>2. CASE c = "steady"
    <3>1. /\ Now(c)'.clock = c /\ Now(c)'.point = Now(c).point
          /\ Now(c)'.taken = Now(c).taken /\ Now(c).clock = c
      BY <1>1, <2>2 DEF Now
    <3>2. Agree(p, Now(c))
      BY DEF SpanInv, ReadingsInv
    <3> QED
      BY <2>2, <3>1, <3>2 DEF Agree, Comparable
  <2>3. CASE c = "system"
    <3>1. Now(c)'.clock = "system" /\ Now(c)'.adjusted = adjustments + 1
      BY <1>1, <2>3 DEF Now
    <3>2. ~Comparable(p, Now(c)')
      BY <1>1, <2>1, <3>1 DEF Comparable, Reading
    <3> QED
      BY <3>2 DEF Agree
  <2> QED
    BY <2>2, <2>3 DEF Clocks
<1>4. ReadingsInv'
  <2>1. \A p \in Readings : p \in Reading /\ p.adjusted <= adjustments'
    <3> SUFFICES ASSUME NEW p \in Readings
                 PROVE  p \in Reading /\ p.adjusted <= adjustments'
      OBVIOUS
    <3>1. p \in Reading /\ p.adjusted <= adjustments
      BY DEF SpanInv, ReadingsInv
    <3> QED
      BY <1>1, <3>1 DEF Reading
  <2>2. \A p, q \in Readings : Agree(p, q)
    BY DEF SpanInv, ReadingsInv
  <2> QED
    BY <1>2, <1>3, <2>1, <2>2 DEF ReadingsInv, Agree
<1>5. StampsInv' /\ OrderInv'
  BY <1>1, <1>2 DEF SpanInv, StampsInv, OrderInv, Fetch
<1> QED
  BY <1>1, <1>4, <1>5 DEF SpanInv

LEMMA AgreeSymmetric ==
  ASSUME NEW p \in Reading, NEW q \in Reading, Agree(p, q)
  PROVE  Agree(q, p)
<1> SUFFICES ASSUME Comparable(q, p)
             PROVE  q.point - p.point = q.taken - p.taken
  BY DEF Agree
<1>1. Comparable(p, q)
  BY DEF Comparable
<1>2. p.point - q.point = p.taken - q.taken
  BY <1>1 DEF Agree
<1>3. /\ p.point \in Nat /\ p.taken \in Nat
      /\ q.point \in Nat /\ q.taken \in Nat
  BY DEF Reading
<1> QED
  BY <1>2, <1>3

(* A step that keeps at most one more reading, old or of this moment.      *)
LEMMA OneMoreReading ==
  ASSUME SpanInv, UNCHANGED clockVars, NEW p,
         p \in Readings \/ (\E c \in Clocks : p = Now(c)),
         Readings' \subseteq Readings \cup {p}
  PROVE  ReadingsInv'
<1>1. UNCHANGED <<steady, system, adjustments>>
  BY DEF clockVars
<1>2. /\ \A r \in Readings : r \in Reading /\ r.adjusted <= adjustments
      /\ \A r, q \in Readings : Agree(r, q)
      /\ \A r \in Readings, c \in Clocks : Agree(r, Now(c))
  BY DEF SpanInv, ReadingsInv
<1>3. p \in Reading /\ p.adjusted <= adjustments
  <2>1. \A c \in Clocks : Now(c) \in Reading /\ Now(c).adjusted <= adjustments
    BY NowIsReading DEF SpanInv
  <2> QED
    BY <1>2, <2>1
<1>4. \A c \in Clocks : Agree(p, Now(c))
  <2>1. ASSUME NEW a \in Clocks, NEW c \in Clocks
        PROVE  Agree(Now(a), Now(c))
    <3>1. Now(a) \in Reading /\ Now(c) \in Reading
      BY NowIsReading DEF SpanInv
    <3>2. CASE a = c
      BY <3>1, <3>2 DEF Agree, Reading
    <3>3. CASE a # c
      BY <3>3 DEF Agree, Comparable, Now
    <3> QED
      BY <3>2, <3>3
  <2> QED
    BY <1>2, <2>1
<1>5. \A r \in Readings : Agree(p, r) /\ Agree(r, p)
  <2>1. CASE p \in Readings
    BY <1>2, <2>1
  <2>2. CASE \E c \in Clocks : p = Now(c)
    <3>1. \A r \in Readings : Agree(r, p)
      BY <1>2, <2>2
    <3> QED
      BY <1>2, <1>3, <3>1, AgreeSymmetric
  <2> QED
    BY <2>1, <2>2
<1>6. Agree(p, p)
  BY <1>3 DEF Agree, Reading
<1>7. \A r \in Readings' : r \in Reading /\ r.adjusted <= adjustments
  BY <1>2, <1>3
<1>8. \A r, q \in Readings' : Agree(r, q)
  BY <1>2, <1>5, <1>6
<1>9. \A r \in Readings', c \in Clocks : Agree(r, Now(c)')
  <2>1. \A c \in Clocks : Now(c)' = Now(c)
    BY <1>1 DEF Now
  <2>2. \A r \in Readings', c \in Clocks : Agree(r, Now(c))
    BY <1>2, <1>4
  <2> QED
    BY <2>1, <2>2
<1> QED
  BY <1>1, <1>7, <1>8, <1>9 DEF ReadingsInv, Agree

LEMMA TakeSpanInv ==
  ASSUME SpanInv, NEW clock \in Clocks, TakeTimePoint(clock)
  PROVE  SpanInv'
<1>1. /\ UNCHANGED clockVars /\ points' = points \cup {Now(clock)}
      /\ UNCHANGED <<finished, start, end, logs>>
  BY DEF TakeTimePoint
<1>2. UNCHANGED <<steady, system, adjustments>>
  BY <1>1 DEF clockVars
<1>3. AllStamps' = AllStamps
  BY <1>1 DEF AllStamps
<1>4. Readings' \subseteq Readings \cup {Now(clock)}
  BY <1>1, <1>3 DEF Readings
<1>5. ReadingsInv'
  BY <1>1, <1>4, OneMoreReading
<1>6. StampsInv' /\ OrderInv'
  BY <1>1, <1>2, <1>3 DEF SpanInv, StampsInv, OrderInv, Fetch
<1> QED
  BY <1>2, <1>5, <1>6 DEF SpanInv

(* What the three calls store.                                             *)
LEMMA NewStamp ==
  ASSUME SpanInv, NEW p \in points \cup {Now("system")}
  PROVE  /\ Stamp(p) \in TimeStamp /\ Stamp(p).from = p
         /\ Stamp(p).millis = Fetch(p) /\ Stamp(p).stored = steady
         /\ p \in Readings \/ (\E c \in Clocks : p = Now(c))
<1>1. "system" \in Clocks
  BY DEF Clocks
<1>2. p \in Readings \/ (\E c \in Clocks : p = Now(c))
  BY <1>1 DEF Readings
<1>3. p \in Reading
  BY <1>1, <1>2, NowIsReading DEF SpanInv, ReadingsInv
<1>4. Fetch(p) \in Int
  BY <1>3, ClockAssumption DEF Fetch, Reading
<1> QED
  BY <1>2, <1>3, <1>4 DEF Stamp, TimeStamp, SpanInv

(* A call that stores one more time stamp and forgets others, if any.      *)
LEMMA OneMoreStamp ==
  ASSUME SpanInv, UNCHANGED <<clockVars, points>>,
         NEW p \in points \cup {Now("system")},
         AllStamps' \subseteq AllStamps \cup {Stamp(p)}, logs' \in Seq(TimeStamp)
  PROVE  /\ UNCHANGED <<steady, system, adjustments>>
         /\ ReadingsInv' /\ StampsInv'
<1>1. UNCHANGED <<steady, system, adjustments>>
  BY DEF clockVars
<1>2. /\ Stamp(p) \in TimeStamp /\ Stamp(p).from = p
      /\ Stamp(p).millis = Fetch(p) /\ Stamp(p).stored = steady
      /\ p \in Readings \/ (\E c \in Clocks : p = Now(c))
  BY NewStamp
<1>3. Readings' \subseteq Readings \cup {p}
  BY <1>2 DEF Readings
<1>4. ReadingsInv'
  BY <1>2, <1>3, OneMoreReading
<1>5. StampsInv'
  <2>1. ASSUME NEW s \in AllStamps'
        PROVE  s \in TimeStamp /\ s.millis = Fetch(s.from) /\ s.stored <= steady
    <3>1. CASE s \in AllStamps
      BY <3>1 DEF SpanInv, StampsInv
    <3>2. CASE s = Stamp(p)
      BY <1>2, <3>2 DEF SpanInv
    <3> QED
      BY <3>1, <3>2
  <2> QED
    BY <1>1, <2>1 DEF StampsInv, Fetch
<1> QED
  BY <1>1, <1>4, <1>5

LEMMA StartSpanInv ==
  ASSUME SpanInv, NEW p \in points \cup {Now("system")}, StartSpan(p)
  PROVE  SpanInv'
<1>1. /\ start' = Stamp(p) /\ UNCHANGED clockVars
      /\ UNCHANGED <<points, finished, end, logs>>
  BY DEF StartSpan
<1>2. AllStamps' \subseteq AllStamps \cup {Stamp(p)}
  BY <1>1 DEF AllStamps
<1>3. logs' \in Seq(TimeStamp)
  BY <1>1 DEF SpanInv, StampsInv
<1>4. /\ UNCHANGED <<steady, system, adjustments>>
      /\ ReadingsInv' /\ StampsInv'
  BY <1>1, <1>2, <1>3, OneMoreStamp
<1>5. OrderInv'
  BY <1>1 DEF SpanInv, OrderInv
<1> QED
  BY <1>4, <1>5 DEF SpanInv

LEMMA EndSpanInv ==
  ASSUME SpanInv, NEW p \in points \cup {Now("system")}, EndSpan(p)
  PROVE  SpanInv'
<1>1. /\ end' = Stamp(p) /\ finished' = TRUE /\ UNCHANGED clockVars
      /\ UNCHANGED <<points, start, logs>>
  BY DEF EndSpan
<1>2. AllStamps' \subseteq AllStamps \cup {Stamp(p)}
  BY <1>1 DEF AllStamps
<1>3. logs' \in Seq(TimeStamp)
  BY <1>1 DEF SpanInv, StampsInv
<1>4. /\ UNCHANGED <<steady, system, adjustments>>
      /\ ReadingsInv' /\ StampsInv'
  BY <1>1, <1>2, <1>3, OneMoreStamp
<1>5. OrderInv'
  <2>1. end'.stored = steady
    BY <1>1, NewStamp
  <2>2. \A k \in 1..Len(logs) : logs[k].stored <= steady
    BY DEF SpanInv, StampsInv, AllStamps
  <2> QED
    BY <1>1, <2>1, <2>2 DEF SpanInv, OrderInv
<1> QED
  BY <1>4, <1>5 DEF SpanInv

LEMMA AddLogInv ==
  ASSUME SpanInv, NEW p \in points \cup {Now("system")}, AddLog(p)
  PROVE  SpanInv'
<1>1. /\ ~finished /\ logs' = Append(logs, Stamp(p)) /\ UNCHANGED clockVars
      /\ UNCHANGED <<points, finished, start, end>>
  BY DEF AddLog
<1>2. logs \in Seq(TimeStamp) /\ Stamp(p) \in TimeStamp
      /\ Stamp(p).stored = steady
  BY NewStamp DEF SpanInv, StampsInv
<1>3. /\ logs' \in Seq(TimeStamp) /\ Len(logs') = Len(logs) + 1
      /\ \A k \in 1..Len(logs) : logs'[k] = logs[k]
      /\ logs'[Len(logs) + 1] = Stamp(p)
  BY <1>1, <1>2, AppendProperties
<1>4. \A k \in 1..Len(logs') : k \in 1..Len(logs) \/ k = Len(logs) + 1
  BY <1>2, <1>3
<1>5. AllStamps' \subseteq AllStamps \cup {Stamp(p)}
  BY <1>1, <1>3, <1>4 DEF AllStamps
<1>6. /\ UNCHANGED <<steady, system, adjustments>>
      /\ ReadingsInv' /\ StampsInv'
  BY <1>1, <1>3, <1>5, OneMoreStamp
<1>7. OrderInv'
  <2>1. end = NoTime
    BY <1>1 DEF SpanInv, OrderInv
  <2>2. ASSUME NEW k \in 1..Len(logs'), NEW j \in k..Len(logs')
        PROVE  logs'[k].stored <= logs'[j].stored
    <3>1. CASE j \in 1..Len(logs)
      <4>1. k \in 1..Len(logs) /\ j \in k..Len(logs)
        BY <3>1
      <4> QED
        BY <1>3, <3>1, <4>1 DEF SpanInv, OrderInv
    <3>2. CASE j = Len(logs) + 1 /\ k \in 1..Len(logs)
      <4>1. logs[k].stored <= steady
        BY <3>2 DEF SpanInv, StampsInv, AllStamps
      <4> QED
        BY <1>2, <1>3, <3>2, <4>1
    <3>3. CASE j = Len(logs) + 1 /\ k = Len(logs) + 1
      BY <1>2, <1>3, <3>3 DEF SpanInv
    <3>4. j \in 1..Len(logs')
      BY <1>3
    <3> QED
      BY <1>4, <3>1, <3>2, <3>3, <3>4
  <2> QED
    BY <1>1, <2>1, <2>2 DEF OrderInv
<1> QED
  BY <1>6, <1>7 DEF SpanInv

LEMMA StepSpanInv ==
  SpanInv /\ [SpanNext]_<<clockVars, spanVars>> => SpanInv'
<1> SUFFICES ASSUME SpanInv, [SpanNext]_<<clockVars, spanVars>>
             PROVE  SpanInv'
  OBVIOUS
<1>1. ASSUME NEW d \in Steps, Pass(d), UNCHANGED spanVars
      PROVE  SpanInv'
  BY <1>1, PassSpanInv
<1>2. ASSUME NEW r \in SystemTimes, Adjust(r), UNCHANGED spanVars
      PROVE  SpanInv'
  BY <1>2, AdjustSpanInv
<1>3. ASSUME NEW clock \in Clocks, TakeTimePoint(clock)
      PROVE  SpanInv'
  BY <1>3, TakeSpanInv
<1>4. ASSUME NEW p \in points \cup {Now("system")},
             StartSpan(p) \/ AddLog(p) \/ EndSpan(p)
      PROVE  SpanInv'
  BY <1>4, StartSpanInv, AddLogInv, EndSpanInv
<1>5. CASE UNCHANGED <<clockVars, spanVars>>
  <2>1. UNCHANGED <<steady, system, adjustments, points, finished, start, end, logs>>
    BY <1>5 DEF clockVars, spanVars
  <2>2. AllStamps' = AllStamps
    BY <2>1 DEF AllStamps
  <2>3. Readings' = Readings /\ \A c \in Clocks : Now(c)' = Now(c)
    BY <2>1, <2>2 DEF Readings, Now
  <2>4. ReadingsInv'
    BY <2>1, <2>3 DEF SpanInv, ReadingsInv, Agree
  <2>5. StampsInv' /\ OrderInv'
    BY <2>1, <2>2 DEF SpanInv, StampsInv, OrderInv, Fetch
  <2> QED
    BY <2>1, <2>4, <2>5 DEF SpanInv
<1> QED
  BY <1>1, <1>2, <1>3, <1>4, <1>5 DEF SpanNext

LEMMA AlwaysSpanInv == SpanSpec => []SpanInv
BY InitSpanInv, StepSpanInv, PTL DEF SpanSpec

(* Cutting keeps the order.                                                *)
LEMMA CutMonotone ==
  ASSUME NEW a \in Nat, NEW b \in Nat, NEW n \in Nat \ {0}, a <= b
  PROVE  a \div n <= b \div n
<1> DEFINE p == a \div n
           q == b \div n
<1>1. p \in Nat /\ n * p <= a /\ q \in Nat /\ b < n * q + n
  BY CutBounds
<1> HIDE DEF p, q
<1>2. SUFFICES ASSUME p >= q + 1 PROVE FALSE
  BY <1>1 DEF p, q
<1>3. n * p >= n * (q + 1) /\ n * (q + 1) = n * q + n
  BY <1>1, <1>2
<1>4. n * p \in Nat /\ n * q \in Nat
  BY <1>1
<1> QED
  BY <1>1, <1>3, <1>4

(* The difference of two cut readings is that of the readings, up to one   *)
(* millisecond.                                                            *)
LEMMA CutMeasure ==
  ASSUME NEW a \in Nat, NEW b \in Nat, NEW n \in Nat \ {0}, a <= b
  PROVE  /\ ((b \div n) - (a \div n)) * n >= 0
         /\ (b - a) - n < ((b \div n) - (a \div n)) * n
         /\ ((b \div n) - (a \div n)) * n < (b - a) + n
<1> DEFINE p == a \div n
           q == b \div n
<1>1. /\ p \in Nat /\ n * p <= a /\ a < n * p + n
      /\ q \in Nat /\ n * q <= b /\ b < n * q + n
  BY CutBounds
<1>2. p <= q
  BY CutMonotone
<1> HIDE DEF p, q
<1>3. (q - p) * n = n * q - n * p
  BY <1>1
<1>4. n * p \in Nat /\ n * q \in Nat
  BY <1>1
<1>5. n * p <= n * q
  BY <1>1, <1>2
<1>6. /\ (q - p) * n >= 0 /\ (b - a) - n < (q - p) * n
      /\ (q - p) * n < (b - a) + n
  BY <1>1, <1>3, <1>4, <1>5
<1> QED
  BY <1>6 DEF p, q

(* What the invariant says of two time stamps.                             *)
LEMMA TwoStamps ==
  ASSUME SpanInv, NEW s \in AllStamps, NEW t \in AllStamps,
         Comparable(s.from, t.from)
  PROVE  \E a, b, x, y \in Nat :
           /\ a = s.from.point /\ b = t.from.point
           /\ x = s.from.taken /\ y = t.from.taken
           /\ a - b = x - y
           /\ s.millis = a \div TicksPerMilli /\ t.millis = b \div TicksPerMilli
<1>1. /\ s \in TimeStamp /\ t \in TimeStamp
      /\ s.millis = Fetch(s.from) /\ t.millis = Fetch(t.from)
  BY DEF SpanInv, StampsInv
<1>2. s.from \in Readings /\ t.from \in Readings
  BY DEF Readings
<1>3. s.from.point - t.from.point = s.from.taken - t.from.taken
  BY <1>2 DEF SpanInv, ReadingsInv, Agree
<1>4. s.from \in Reading /\ t.from \in Reading
  BY <1>1 DEF TimeStamp
<1> QED
  BY <1>1, <1>3, <1>4 DEF Reading, Fetch

(* The times of a span measure real time to the millisecond: for every     *)
(* resolution of the clocks, any number of logs and any order of calls.    *)
THEOREM SpanTimesMeasure == SpanSpec => []TimesMeasureSpan
<1>1. ASSUME SpanInv
      PROVE  TimesMeasureSpan
  <2> SUFFICES ASSUME NEW s \in Stamps, NEW t \in Stamps,
                      Comparable(s.from, t.from), s.from.taken <= t.from.taken
               PROVE  LET passed == t.from.taken - s.from.taken
                          shown == (t.millis - s.millis) * TicksPerMilli
                      IN  /\ shown >= 0
                          /\ passed - TicksPerMilli < shown
                          /\ shown < passed + TicksPerMilli
    BY DEF TimesMeasureSpan
  <2>1. s \in AllStamps /\ t \in AllStamps
    BY DEF Stamps, AllStamps
  <2>2. PICK a, b, x, y \in Nat :
          /\ x = s.from.taken /\ y = t.from.taken /\ a - b = x - y
          /\ s.millis = a \div TicksPerMilli /\ t.millis = b \div TicksPerMilli
    BY <1>1, <2>1, TwoStamps
  <2>3. a <= b /\ y - x = b - a /\ TicksPerMilli \in Nat \ {0}
    BY <2>2, ClockAssumption
  <2>4. /\ (t.millis - s.millis) * TicksPerMilli >= 0
        /\ (b - a) - TicksPerMilli < (t.millis - s.millis) * TicksPerMilli
        /\ (t.millis - s.millis) * TicksPerMilli < (b - a) + TicksPerMilli
    BY <2>2, <2>3, CutMeasure
  <2> QED
    BY <2>2, <2>3, <2>4
<1> QED
  BY <1>1, AlwaysSpanInv, PTL

(* addLog lists the logs of a span in the order they happened, and none is *)
(* later than the end that endSpan stores.                                 *)
THEOREM LogsAreInOrder == SpanSpec => []LogsBeforeEnd
<1>1. ASSUME SpanInv
      PROVE  LogsBeforeEnd
  <2> SUFFICES ASSUME NEW k \in 1..Len(logs),
                      NEW t \in {logs[j] : j \in k..Len(logs)}
                                \cup ({end} \ {NoTime}),
                      Immediate(logs[k]), Immediate(t),
                      Comparable(logs[k].from, t.from)
               PROVE  logs[k].millis <= t.millis
    BY DEF LogsBeforeEnd
  <2>1. logs[k].stored <= t.stored
    <3>1. CASE t \in {logs[j] : j \in k..Len(logs)}
      BY <1>1, <3>1 DEF SpanInv, OrderInv
    <3>2. CASE t \in {end} \ {NoTime}
      BY <1>1, <3>2 DEF SpanInv, OrderInv
    <3> QED
      BY <3>1, <3>2
  <2>2. PICK s : /\ s = logs[k] /\ s \in AllStamps /\ t \in AllStamps
                 /\ Comparable(s.from, t.from)
                 /\ Immediate(s) /\ s.stored <= t.stored
    <3>1. \A j \in k..Len(logs) : j \in 1..Len(logs)
      BY <1>1 DEF SpanInv, StampsInv
    <3> QED
      BY <2>1, <3>1 DEF AllStamps
  <2>3. PICK a, b, x, y \in Nat :
          /\ a = s.from.point /\ b = t.from.point
          /\ x = s.from.taken /\ y = t.from.taken
          /\ a - b = x - y
          /\ s.millis = a \div TicksPerMilli /\ t.millis = b \div TicksPerMilli
    BY <1>1, <2>2, TwoStamps, Zenon
  <2>4. x <= y
    BY <2>2, <2>3 DEF Immediate
  <2>5. a <= b /\ TicksPerMilli \in Nat \ {0}
    <3>1. a - b = x - y
      BY <2>3
    <3>2. a <= b
      BY <2>4, <3>1
    <3> QED
      BY <3>2, ClockAssumption
  <2> QED
    BY <2>2, <2>3, <2>5, CutMonotone
<1> QED
  BY <1>1, AlwaysSpanInv, PTL
=============================================================================
