------------------------- MODULE MCTracingContext -------------------------
(***************************************************************************)
(* TracingContext for TLC: operation names over one character and a slash. *)
(***************************************************************************)
EXTENDS TracingContext, TLC

(* "/a" is reported; "b/a" has the ignored suffix "b/a".                   *)
MCOperationNames == {<<"/", "a">>, <<"b", "/", "a">>}
MCIgnoreSuffixes == {<<"b", "/", "a">>}

(* Tracers are interchangeable: no action or property names one.           *)
TracerSymmetry == Permutations(Tracers)
=============================================================================
