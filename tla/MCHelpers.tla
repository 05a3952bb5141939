----------------------------- MODULE MCHelpers -----------------------------
(***************************************************************************)
(* Propagation, Base64, RandomGenerator, TracingSpan and Timer for TLC.    *)
(* They share no state, so a behaviour is one of them at work while the    *)
(* others rest.                                                            *)
(***************************************************************************)
EXTENDS MCPropagation, Base64, RandomGenerator, TracingSpan, Timer, TLC

VARIABLE component   \* the one at work

allVars ==
  <<component, vars, codecVars, uuidVars, clockVars, spanVars, timerVars>>

ParserRests == kind = "sw8"
CodecRests == bytes = <<>> /\ ~add_padding /\ phase = "encode"

HelpersInit ==
  /\ component \in {"parser", "codec", "uuid", "span", "timer"}
  /\ Init /\ CodecInit /\ UuidInit /\ SpanInit /\ TimerInit
  /\ component # "parser" => ParserRests
  /\ component # "codec" => CodecRests

HelpersNext ==
  \/ /\ component = "parser" /\ Next
     /\ UNCHANGED <<component, codecVars, uuidVars, clockVars, spanVars,
                    timerVars>>
  \/ /\ component = "codec" /\ CodecNext
     /\ UNCHANGED <<component, vars, uuidVars, clockVars, spanVars, timerVars>>
  \/ /\ component = "uuid" /\ UuidNext
     /\ UNCHANGED <<component, vars, codecVars, clockVars, spanVars, timerVars>>
  \/ /\ component = "span" /\ SpanNext
     /\ UNCHANGED <<component, vars, codecVars, uuidVars, timerVars>>
  \/ /\ component = "timer" /\ TimerNext
     /\ UNCHANGED <<component, vars, codecVars, uuidVars, spanVars>>
  \/ component \notin {"parser", "codec"} /\ UNCHANGED allVars

HelpersSpec == HelpersInit /\ [][HelpersNext]_allVars

-----------------------------------------------------------------------------
(* Values. For the codec every single byte, and all short sequences over   *)
(* bytes whose bits alternate or are equal; all short texts over digits    *)
(* that use every bit, the padding character and one that is in no table.  *)

SeqsUpTo(S, n) == UNION {[1..k -> S] : k \in 0..n}

\* 0, 01010101, 10101010, 11111011 (a '+'), 11111111
MCInputs == [1..1 -> Byte] \cup SeqsUpTo({0, 85, 170, 251, 255}, 4)

\* A (0), B (1), Q (16), / (63), = and -
MCTexts == SeqsUpTo({65, 66, 81, 47, Pad, HeaderSeparator}, 5)

MCNoTime == [millis |-> -1]

(* No action or property names a thread.                                   *)
ThreadSymmetry == Permutations(Threads)
=============================================================================
