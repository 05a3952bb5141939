----------------------------- MODULE MCSamples -----------------------------
(***************************************************************************)
(* Samples for TLC. The operation names are those of the programs, one     *)
(* character each.                                                         *)
(***************************************************************************)
EXTENDS Samples

MCOp1 == <<"1">>
MCOp2 == <<"2">>
MCOp3 == <<"3">>
MCOperationNames == {MCOp1, MCOp2, MCOp3}
=============================================================================
