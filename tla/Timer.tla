------------------------------- MODULE Timer -------------------------------
(***************************************************************************)
(* Timer (source/utils/timer.h): check() tells an application that polls   *)
(* it, at whatever moments, when another interval has passed.              *)
(***************************************************************************)
EXTENDS TimePoint

CONSTANT IntervalSec   \* interval_sec

ASSUME IntervalAssumption == IntervalSec \in Nat

VARIABLES
  prev_time,   \* prev_time_
  fired,       \* history: when the timer was made or last fired
  result       \* what the last check returned, and how long after that

timerVars == <<prev_time, fired, result>>

interval == IntervalSec * 1000

TimerInit ==
  /\ ClockInit
  /\ prev_time = Fetch(Now("steady"))
  /\ fired = steady
  /\ result = [value |-> FALSE, since |-> 0]

(* Plausible bug: the interval has passed as soon as it is reached.        *)
ElapsedAtInterval(current) == current - prev_time >= interval

Elapsed(current) == current - prev_time > interval

(* Plausible bug: every check starts the interval anew.                    *)
CheckRestarting ==
  LET current_time == Fetch(Now("steady"))
  IN  /\ result' = [value |-> Elapsed(current_time),
                    since |-> steady - fired]
      /\ prev_time' = current_time
      /\ fired' = IF Elapsed(current_time) THEN steady ELSE fired
      /\ UNCHANGED clockVars

Check ==
  LET current_time == Fetch(Now("steady"))
  IN  /\ result' = [value |-> Elapsed(current_time),
                    since |-> steady - fired]
      /\ prev_time' = IF Elapsed(current_time) THEN current_time ELSE prev_time
      /\ fired' = IF Elapsed(current_time) THEN steady ELSE fired
      /\ UNCHANGED clockVars

TimerNext ==
  \/ \E d \in Steps : Pass(d) /\ UNCHANGED timerVars
  \/ \E r \in SystemTimes : Adjust(r) /\ UNCHANGED timerVars
  \/ Check

TimerSpec == TimerInit /\ [][TimerNext]_<<clockVars, timerVars>>

-----------------------------------------------------------------------------
(* Properties.                                                             *)

(* Although both readings are cut to milliseconds, the timer fires only    *)
(* when the whole interval has really passed since it was made or last     *)
(* fired, and setting the system clock does not bring it forward.          *)
NeverEarly == result.value => result.since > interval * TicksPerMilli

(* Nor does it miss: a check that says no comes less than a millisecond    *)
(* after the interval, however often the timer was polled before.          *)
NeverLate == ~result.value => result.since < (interval + 1) * TicksPerMilli
=============================================================================
