------------------------ MODULE MCTraceAsyncClient ------------------------
(***************************************************************************)
(* TraceAsyncClient for TLC.                                               *)
(***************************************************************************)
EXTENDS TraceAsyncClient, TLC

(* Reporters are interchangeable: no action or property names one.         *)
ReporterSymmetry == Permutations(Reporters)
=============================================================================
