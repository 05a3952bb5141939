--------------------------- MODULE MCRaiiTracing ---------------------------
(***************************************************************************)
(* RaiiTracing for TLC: two operation names, none of them ignored, or one  *)
(* where a property has nothing to do with names.                          *)
(***************************************************************************)
EXTENDS RaiiTracing, TLC

MCOperationNames == {<<"/", "a">>, <<"/", "b">>}
MCOneName == {<<"/", "a">>}

(* Tracers are interchangeable: no action or property names one.           *)
TracerSymmetry == Permutations(Tracers)
=============================================================================
