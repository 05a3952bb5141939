--------------------------- MODULE MCPropagation ---------------------------
(***************************************************************************)
(* Propagation for TLC. The codec has one code word, <<"1">> for <<"x">>,  *)
(* besides the empty one; all other text is invalid. The span id is the    *)
(* number of 1s in its text.                                               *)
(***************************************************************************)
EXTENDS Propagation

MCChar(k) == IF k = "sw8" THEN {Separator, "1", "x"}
                          ELSE {Separator, "0", "1"}

MCEncode(v) == IF v = <<"x">> THEN <<"1">> ELSE <<>>
MCDecode(t) == IF t = <<"1">> THEN <<"x">> ELSE <<>>

MCToDecimal(n) == [i \in 1..n |-> "1"]
MCSimpleAtoi(t) ==
  IF t # <<>> /\ \A i \in 1..Len(t) : t[i] = "1" THEN Len(t) ELSE 0

\* One member is not empty, or two neighbours are not.
MCMembers == <<"traceId", "traceSegmentId", "service", "serviceInstance",
               "endpoint", "targetAddress">>
MCOwnContexts ==
  { [ f \in {MCMembers[i] : i \in 1..6} \cup {"spanId"} |->
        IF f = "spanId" THEN id
        ELSE IF \E j \in set : MCMembers[j] = f THEN <<"x">> ELSE <<>> ] :
    id \in {1, 2}, set \in {{1}, {2}, {3}, {4}, {5}, {6}, {1, 2}, {5, 6}} }
=============================================================================
