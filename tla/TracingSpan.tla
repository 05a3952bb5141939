---------------------------- MODULE TracingSpan ----------------------------
(***************************************************************************)
(* The times of one TracingSpanImpl. An application passes a TimePoint it  *)
(* took earlier, on either clock, or none; then the span reads the system  *)
(* clock itself. The asserts of the code are preconditions of the          *)
(* application and so guards. Attributes that are only stored (peer, tags, *)
(* layer and the like) are left out.                                       *)
(***************************************************************************)
EXTENDS TimePoint, Sequences, FiniteSets

CONSTANTS
  NoTime,      \* a time stamp that has not been set
  MaxPoints,   \* bound: TimePoint objects the application keeps
  MaxLogs      \* bound: logs of the span

VARIABLES
  points,      \* TimePoint objects the application keeps
  finished,    \* finished_
  start, end,  \* starttime and endtime
  logs         \* times of the logs, in the order they were added

spanVars == <<points, finished, start, end, logs>>

SpanInit ==
  /\ ClockInit
  /\ points = {} /\ finished = FALSE
  /\ start = NoTime /\ end = NoTime /\ logs = <<>>

(* A time stamp. Its reading and the moment it was stored are history.     *)
Stamp(p) == [millis |-> Fetch(p), from |-> p, stored |-> steady]

TakeTimePoint(clock) ==
  /\ Cardinality(points) < MaxPoints
  /\ points' = points \cup {Now(clock)}
  /\ UNCHANGED <<clockVars, finished, start, end, logs>>

(* startSpan does not ask whether the span is finished.                    *)
StartSpan(p) ==
  /\ start' = Stamp(p)
  /\ UNCHANGED <<clockVars, points, finished, end, logs>>

(* Plausible bug: the time that was passed is not the time that is stored. *)
EndSpanAtSystemTime(p) ==
  /\ ~finished /\ finished' = TRUE
  /\ end' = [millis |-> Fetch(Now("system")), from |-> p, stored |-> steady]
  /\ UNCHANGED <<clockVars, points, start, logs>>

EndSpan(p) ==
  /\ ~finished /\ finished' = TRUE
  /\ end' = Stamp(p)
  /\ UNCHANGED <<clockVars, points, start, logs>>

(* Plausible bug: a log may be added after the end.                        *)
AddLogAnyTime(p) ==
  /\ Len(logs) < MaxLogs
  /\ logs' = Append(logs, Stamp(p))
  /\ UNCHANGED <<clockVars, points, finished, start, end>>

AddLog(p) ==
  /\ ~finished /\ Len(logs) < MaxLogs
  /\ logs' = Append(logs, Stamp(p))
  /\ UNCHANGED <<clockVars, points, finished, start, end>>

(* The overloads: a TimePoint of the application, or the system clock.     *)
SpanNext ==
  \/ \E d \in Steps : Pass(d) /\ UNCHANGED spanVars
  \/ \E r \in SystemTimes : Adjust(r) /\ UNCHANGED spanVars
  \/ \E clock \in Clocks : TakeTimePoint(clock)
  \/ \E p \in points \cup {Now("system")} :
       StartSpan(p) \/ AddLog(p) \/ EndSpan(p)

SpanSpec == SpanInit /\ [][SpanNext]_<<clockVars, spanVars>>

-----------------------------------------------------------------------------
(* Properties.                                                             *)

Stamps ==
  ({start, end} \cup {logs[k] : k \in 1..Len(logs)}) \ {NoTime}

(* "Set start time to calculate execution time" (tracing_context.h:100):   *)
(* the difference of any two times of a span is the time that passed       *)
(* between the two readings, to the millisecond, and never of the wrong    *)
(* sign, when both come from one clock that was not set in between,        *)
(* whichever overloads were used, in whichever order and however late.     *)
TimesMeasureSpan ==
  \A s, t \in Stamps :
    Comparable(s.from, t.from) /\ s.from.taken <= t.from.taken =>
      LET passed == t.from.taken - s.from.taken
          shown == (t.millis - s.millis) * TicksPerMilli
      IN  /\ shown >= 0
          /\ passed - TicksPerMilli < shown /\ shown < passed + TicksPerMilli

(* Stored when it was read, as the overloads without a TimePoint do.       *)
Immediate(s) == s.from.taken = s.stored

(* Logs are listed in the order they happened and lie before the end of    *)
(* their span, as far as they and the end carry the time of their call on  *)
(* one clock that was not set in between.                                  *)
LogsBeforeEnd ==
  \A k \in 1..Len(logs) :
    \A t \in {logs[j] : j \in k..Len(logs)} \cup ({end} \ {NoTime}) :
      /\ Immediate(logs[k]) /\ Immediate(t)
      /\ Comparable(logs[k].from, t.from)
      => logs[k].millis <= t.millis
=============================================================================
