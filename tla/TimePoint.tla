----------------------------- MODULE TimePoint -----------------------------
(***************************************************************************)
(* The two clocks of a process and TimePoint (cpp2sky/time.h), a reading   *)
(* of one of them that fetch() turns into milliseconds. The clocks run in  *)
(* ticks finer than a millisecond. The steady clock only advances; the     *)
(* system clock advances with it and may be set to another time.           *)
(***************************************************************************)
EXTENDS Integers

CONSTANTS
  TicksPerMilli,   \* ticks of std::chrono's clocks in a millisecond
  Steps,           \* ticks that may pass between two steps of the program
  SystemTimes,     \* readings the system clock may be set to
  MaxSteps,        \* bound: passages of time
  MaxAdjustments   \* bound: settings of the system clock

ASSUME ClockAssumption ==
  /\ TicksPerMilli \in Nat \ {0}
  /\ Steps \subseteq Nat /\ SystemTimes \subseteq Nat

VARIABLES
  steady,        \* steady_clock::now(), which is also the time that has passed
  system,        \* system_clock::now()
  passages,      \* passages of time so far
  adjustments    \* settings of the system clock so far

clockVars == <<steady, system, passages, adjustments>>

Clocks == {"steady", "system"}

ClockInit ==
  /\ steady = 0 /\ passages = 0 /\ adjustments = 0
  /\ system \in SystemTimes

Pass(d) ==
  /\ passages < MaxSteps /\ passages' = passages + 1
  /\ steady' = steady + d
  /\ system' = system + d
  /\ UNCHANGED adjustments

Adjust(reading) ==
  /\ adjustments < MaxAdjustments /\ adjustments' = adjustments + 1
  /\ system' = reading
  /\ UNCHANGED <<steady, passages>>

(* TimePoint<T>(): the reading of its clock. When it was taken, and after  *)
(* how many adjustments, is history that the program does not see.         *)
Now(clock) ==
  [ clock |-> clock, point |-> IF clock = "steady" THEN steady ELSE system,
    taken |-> steady, adjusted |-> adjustments ]

(* fetch(): duration_cast cuts the part below a millisecond off.           *)
Fetch(p) == p.point \div TicksPerMilli

(* Two readings of one clock that was not set to another time in between.  *)
Comparable(p, q) ==
  p.clock = q.clock /\ (p.clock = "system" => p.adjusted = q.adjusted)
=============================================================================
