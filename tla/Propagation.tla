---------------------------- MODULE Propagation ----------------------------
(***************************************************************************)
(* The parsers of the two propagation headers: SpanContextImpl for sw8 and *)
(* SpanContextExtensionImpl for sw8-x (source/propagation_impl.cc), and    *)
(* the text encodeSpan writes for the next process. Both parsers are one   *)
(* loop over the characters of the header value with their own number of   *)
(* fields; an action is one iteration, and the value is any sequence of    *)
(* characters up to a bound.                                               *)
(*                                                                         *)
(* The codec of the fields is a parameter: module Base64 has its details.  *)
(***************************************************************************)
EXTENDS Naturals, Sequences, FiniteSets

CONSTANTS
  Char(_),          \* the characters a header of a kind is made of
  Encode(_),        \* Base64::encode
  Decode(_),        \* Base64::decodeWithoutPadding, <<>> for invalid text
  ToDecimal(_),     \* std::to_string
  SimpleAtoi(_),    \* absl::SimpleAtoi, NotAnInteger when it returns false
  NotAnInteger,
  OwnContexts,      \* what tracers of this library propagate
  MaxHeaderLength   \* bound: characters of a header value

Separator == "-"

Members == {"traceId", "traceSegmentId", "spanId", "service",
            "serviceInstance", "endpoint", "targetAddress"}

(* The text encodeSpan writes for member f.                                *)
TextOf(own, f) == IF f = "spanId" THEN ToDecimal(own[f]) ELSE Encode(own[f])

ASSUME PropagationAssumption ==
  /\ MaxHeaderLength \in Nat
  /\ \A own \in OwnContexts :
       /\ own = [f \in Members |-> own[f]] /\ own.spanId # NotAnInteger
       /\ \A f \in Members :
            LET t == TextOf(own, f)
            IN  /\ t \in Seq(Char("sw8"))
                /\ \A i \in 1..Len(t) : t[i] # Separator
                /\ own[f] = IF f = "spanId" THEN SimpleAtoi(t) ELSE Decode(t)

VARIABLES
  kind,                \* which header: "sw8" or "sw8-x"
  header_value,        \* the characters read so far
  fields,
  current_field_idx,
  value,
  outcome,                  \* "reading", or how the constructor ended
  context              \* the object it constructed

vars ==
  <<kind, header_value, fields, current_field_idx, value, outcome, context>>

(* EXPECTED_FIELD_COUNT and EXPECTED_EXTENSION_FIELD_COUNT.                *)
FieldCount(k) == IF k = "sw8" THEN 8 ELSE 1

NoContext == "none"

Init ==
  /\ kind \in {"sw8", "sw8-x"}
  /\ header_value = <<>> /\ value = <<>> /\ current_field_idx = 0
  /\ fields = [i \in 0..(FieldCount(kind) - 1) |-> <<>>]
  /\ outcome = "reading" /\ context = NoContext

-----------------------------------------------------------------------------
(* The loop, for the next character of the value.                          *)

NextChar(k, ch) ==
  /\ kind = k /\ outcome = "reading" /\ Len(header_value) < MaxHeaderLength
  /\ header_value' = Append(header_value, ch)
  /\ UNCHANGED <<kind, context>>

(* There is a character behind the last field: TracerException.            *)
TooManyFields(k, ch) ==
  /\ NextChar(k, ch) /\ current_field_idx >= FieldCount(k)
  /\ outcome' = "rejected"
  /\ UNCHANGED <<fields, current_field_idx, value>>

(* Plausible bug: value is not cleared.                                    *)
EndFieldKeepingValue(k) ==
  /\ NextChar(k, Separator) /\ current_field_idx < FieldCount(k)
  /\ fields' = [fields EXCEPT ![current_field_idx] = value]
  /\ current_field_idx' = current_field_idx + 1
  /\ UNCHANGED <<outcome, value>>

EndField(k) ==
  /\ NextChar(k, Separator) /\ current_field_idx < FieldCount(k)
  /\ fields' = [fields EXCEPT ![current_field_idx] = value]
  /\ value' = <<>>
  /\ current_field_idx' = current_field_idx + 1
  /\ UNCHANGED outcome

ExtendField(k, ch) ==
  /\ NextChar(k, ch) /\ current_field_idx < FieldCount(k)
  /\ ch # Separator
  /\ value' = Append(value, ch)
  /\ UNCHANGED <<fields, current_field_idx, outcome>>

-----------------------------------------------------------------------------
(* After the loop.                                                         *)

(* The constructor of SpanContextImpl reads its fields by position;        *)
(* sample_ is true whatever field 0 says.                                  *)
SpanContext(f) ==
  [ traceId |-> Decode(f[1]), traceSegmentId |-> Decode(f[2]),
    spanId |-> SimpleAtoi(f[3]), service |-> Decode(f[4]),
    serviceInstance |-> Decode(f[5]), endpoint |-> Decode(f[6]),
    targetAddress |-> Decode(f[7]) ]

SpanContextExtension(f) ==
  [tracingMode |-> IF f[0] = <<"1">> THEN "Skip" ELSE "Default"]

(* Plausible bug: field 0 is not looked at.                                *)
WellFormedButSample(k, f) == k = "sw8" => SimpleAtoi(f[3]) # NotAnInteger

(* The checks that throw once the fields are known.                        *)
WellFormed(k, f) ==
  /\ f[0] \in {<<"0">>, <<"1">>}
  /\ k = "sw8" => SimpleAtoi(f[3]) # NotAnInteger

Finish(k, verdict, result) ==
  /\ kind = k /\ outcome = "reading" /\ outcome' = verdict /\ context' = result
  /\ UNCHANGED <<kind, header_value, current_field_idx, value>>

(* The value ends in its last field.                                       *)
EndInLastField(k) ==
  LET f == [fields EXCEPT ![current_field_idx] = value]
  IN  /\ kind = k /\ current_field_idx = FieldCount(k) - 1
      /\ fields' = f
      /\ IF WellFormed(k, f)
         THEN Finish(k, "accepted", IF k = "sw8" THEN SpanContext(f)
                                               ELSE SpanContextExtension(f))
         ELSE Finish(k, "rejected", NoContext)

(* It ends in an earlier one: TracerException.                             *)
EndTooEarly(k) ==
  /\ kind = k /\ current_field_idx < FieldCount(k) - 1
  /\ fields' = [fields EXCEPT ![current_field_idx] = value]
  /\ Finish(k, "rejected", NoContext)

(* It ends with a separator behind the last field. current_field_idx is    *)
(* past the array, and so is the store of value that comes before the test *)
(* of the index: the test throws, if the program gets that far.            *)
EndBehindLastField(k) ==
  /\ current_field_idx = FieldCount(k)
  /\ \E verdict \in {"rejected", "undefined"} : Finish(k, verdict, NoContext)
  /\ UNCHANGED fields

SpanContextImpl ==
  \/ \E ch \in Char("sw8") : TooManyFields("sw8", ch) \/ ExtendField("sw8", ch)
  \/ EndField("sw8") \/ EndInLastField("sw8")
  \/ EndTooEarly("sw8") \/ EndBehindLastField("sw8")

(* A single field, so that no value ends too early.                        *)
SpanContextExtensionImpl ==
  \/ \E ch \in Char("sw8-x") :
       TooManyFields("sw8-x", ch) \/ ExtendField("sw8-x", ch)
  \/ EndField("sw8-x") \/ EndInLastField("sw8-x")
  \/ EndBehindLastField("sw8-x")

Constructed == outcome # "reading" /\ UNCHANGED vars

Next == SpanContextImpl \/ SpanContextExtensionImpl \/ Constructed

Spec == Init /\ [][Next]_vars

-----------------------------------------------------------------------------
(* encodeSpan of the sending process.                                      *)

(* Plausible bug: service and instance change places.                      *)
EncodeSpanSwapped(own) ==
  <<"1", Separator>> \o Encode(own.traceId) \o <<Separator>>
    \o Encode(own.traceSegmentId) \o <<Separator>>
    \o ToDecimal(own.spanId) \o <<Separator>>
    \o Encode(own.serviceInstance) \o <<Separator>>
    \o Encode(own.service) \o <<Separator>>
    \o Encode(own.endpoint) \o <<Separator>> \o Encode(own.targetAddress)

EncodeSpan(own) ==
  <<"1", Separator>> \o Encode(own.traceId) \o <<Separator>>
    \o Encode(own.traceSegmentId) \o <<Separator>>
    \o ToDecimal(own.spanId) \o <<Separator>>
    \o Encode(own.service) \o <<Separator>>
    \o Encode(own.serviceInstance) \o <<Separator>>
    \o Encode(own.endpoint) \o <<Separator>> \o Encode(own.targetAddress)

-----------------------------------------------------------------------------
(* Properties.                                                             *)

Returned == outcome \in {"accepted", "rejected"}

(* Reference: the fields of a value are what its separators divide it into.*)
SeparatorsBefore(n) ==
  Cardinality({i \in 1..n : header_value[i] = Separator})

FieldOf(j) ==
  LET until(n) ==
        Cardinality({i \in 1..Len(header_value) : SeparatorsBefore(i) < n})
  IN  SubSeq(header_value, IF j = 0 THEN 1 ELSE until(j) + 2, until(j + 1))

Split == [j \in 0..SeparatorsBefore(Len(header_value)) |-> FieldOf(j)]

(* A header is accepted exactly when its separators divide it into the     *)
(* expected number of fields, field 0 is 0 or 1 and the span id is an      *)
(* integer; then every member is read from its own field, and nothing of a *)
(* neighbouring or an earlier field leaks into it.                         *)
ParsesExactly ==
  Returned =>
    IF /\ DOMAIN Split = 0..(FieldCount(kind) - 1)
       /\ Split[0] \in {<<"0">>, <<"1">>}
       /\ kind = "sw8" => SimpleAtoi(Split[3]) # NotAnInteger
    THEN /\ outcome = "accepted"
         /\ context = IF kind = "sw8" THEN SpanContext(Split)
                                      ELSE SpanContextExtension(Split)
    ELSE outcome = "rejected" /\ context = NoContext

(* The header one tracer writes is accepted by the next one and carries    *)
(* every member over unchanged.                                            *)
OwnHeaderUnderstood ==
  \A own \in OwnContexts :
    Returned /\ kind = "sw8" /\ header_value = EncodeSpan(own) =>
      outcome = "accepted" /\ context = own

(* Within the loop every store is to a field of the array: the index is at *)
(* most one past the end, and then no character is consumed any more.      *)
TypeOK ==
  /\ kind \in {"sw8", "sw8-x"}
  /\ current_field_idx \in 0..FieldCount(kind)
  /\ DOMAIN fields = 0..(FieldCount(kind) - 1)
  /\ current_field_idx = FieldCount(kind) => value = <<>>
  /\ outcome \in {"reading", "accepted", "rejected", "undefined"}

-----------------------------------------------------------------------------
(* What the repository says and the code does not keep.                    *)

(* propagation_impl.cc:59: "Invalid span context format. It must have 8    *)
(* fields.", and line 108 with 1 for the extension: a value with another   *)
(* number of fields ends in that exception.                                *)
WrongFieldCountThrows == outcome # "undefined"
=============================================================================
