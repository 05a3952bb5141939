-------------------------- MODULE TracingContext --------------------------
(***************************************************************************)
(* Tracers, their tracing contexts (segments under construction), spans,   *)
(* and the sw8 header that carries a trace from one process to the next:   *)
(* TracerImpl, TracingContextFactory, TracingContextImpl, TracingSpanImpl, *)
(* SpanContextImpl at the level of header fields, and SuffixMatcher.       *)
(*                                                                         *)
(* A context belongs to one request; requests of all processes interleave. *)
(* Headers travel over a network that may lose, delay, reorder and         *)
(* duplicate them. Preconditions of the code (its asserts, and the README: *)
(* a context is not used after it was sent) are guards. What is only       *)
(* stored is left out: time stamps, tags, logs, peers, layers, component   *)
(* ids, error flags, and a skip flag the application sets on one span.     *)
(***************************************************************************)
EXTENDS Integers, Sequences, FiniteSets

CONSTANTS
  Tracers,          \* one per process, with its own service and instance
  OperationNames,   \* sequences of characters
  IgnoreSuffixes,   \* ignore_operation_name_suffix of every tracer
  Targets,          \* network addresses passed to createSW8HeaderValue
  MaxContexts,      \* bound: contexts created
  MaxSpans          \* bound: spans of a context

ASSUME TracingBounds == MaxContexts \in Nat /\ MaxSpans \in Nat

VARIABLES
  contexts,   \* all contexts, in the order of their creation
  uuids,      \* number of uuids drawn: the last one drawn
  headers,    \* sw8 values handed to the application
  reported    \* segments given to async_client_->sendMessage

vars == <<contexts, uuids, headers, reported>>

Contexts == 1..Len(contexts)
SpansOf(c) == 1..Len(contexts[c].spans)

NoParent == [traceId |-> 0]
NoName   == <<>>
Service(t)  == [service |-> t]
Instance(t) == [instance |-> t]

(* The application still owns the context.                                 *)
Open(c) == c \in Contexts /\ ~contexts[c].sent

(* Base64 text and decimal text, as far as the header cares: a field reads *)
(* back only through the decoder that belongs to its encoder.              *)
Base64Encode(v) == [base64 |-> v]
DecodeWithoutPadding(text) == text.base64
DecimalText(n) == [decimal |-> n]
SimpleAtoi(text) == text.decimal

Init ==
  /\ contexts = <<>> /\ uuids = 0 /\ headers = {} /\ reported = <<>>

-----------------------------------------------------------------------------
(* The sw8 header.                                                         *)

(* encodeSpan: eight fields; the endpoint is the name the first span has   *)
(* at this moment.                                                         *)
EncodeSpan(ctx, span, target) ==
  << "1",
     Base64Encode(ctx.trace),
     Base64Encode(ctx.segment),
     DecimalText(span.id),
     Base64Encode(Service(ctx.tracer)),
     Base64Encode(Instance(ctx.tracer)),
     Base64Encode(ctx.spans[1].name),
     Base64Encode(target) >>

(* SpanContextImpl(header_value), for a header some tracer produced.       *)
SpanContext(header) ==
  [ traceId |-> DecodeWithoutPadding(header[2]),
    traceSegmentId |-> DecodeWithoutPadding(header[3]),
    spanId |-> SimpleAtoi(header[4]),
    service |-> DecodeWithoutPadding(header[5]),
    serviceInstance |-> DecodeWithoutPadding(header[6]),
    endpoint |-> DecodeWithoutPadding(header[7]),
    targetAddress |-> DecodeWithoutPadding(header[8]) ]

-----------------------------------------------------------------------------
(* Contexts.                                                               *)

Context(tracer, trace, segment, parent, mode) ==
  [ tracer |-> tracer, trace |-> trace, segment |-> segment,
    parent |-> parent, mode |-> mode, should_skip |-> mode = "Skip",
    spans |-> <<>>, sent |-> FALSE ]

(* newContext(): both ids are fresh.                                       *)
NewContext(t) ==
  /\ Len(contexts) < MaxContexts
  /\ uuids' = uuids + 2
  /\ contexts' =
       Append(contexts, Context(t, uuids + 1, uuids + 2, NoParent, "Default"))
  /\ UNCHANGED <<headers, reported>>

(* Plausible bug: a propagated context starts a trace of its own.          *)
NewTracePerContext(t, header, mode) ==
  /\ Len(contexts) < MaxContexts
  /\ uuids' = uuids + 2
  /\ contexts' = Append(contexts, Context(t, uuids + 1, uuids + 2,
                                          SpanContext(header), mode))
  /\ UNCHANGED <<headers, reported>>

(* Plausible bug: the segment id is taken from the caller as well.         *)
NewContextInParentSegment(t, header, mode) ==
  /\ Len(contexts) < MaxContexts
  /\ LET parent == SpanContext(header)
     IN  contexts' = Append(contexts, Context(t, parent.traceId,
                                              parent.traceSegmentId, parent, mode))
  /\ UNCHANGED <<uuids, headers, reported>>

(* newContext(span), and TracingContextFactory::create with an extension:  *)
(* the trace id is the parent's, and mode Skip calls setSkipAnalysis.      *)
NewContextFrom(t, header, mode) ==
  /\ Len(contexts) < MaxContexts
  /\ uuids' = uuids + 1
  /\ LET parent == SpanContext(header)
     IN  contexts' = Append(contexts, Context(t, parent.traceId, uuids + 1,
                                              parent, mode))
  /\ UNCHANGED <<headers, reported>>

(* Plausible bug: the context's flag is not handed to its spans.           *)
SpanAlwaysAnalysed(ctx, parent_id, type, refs) ==
  [ id |-> Len(ctx.spans), parent |-> parent_id, type |-> type,
    name |-> NoName, skip |-> FALSE, refs |-> refs, finished |-> FALSE ]

(* createSpan: the id is the number of spans so far.                       *)
Span(ctx, parent_id, type, refs) ==
  [ id |-> Len(ctx.spans), parent |-> parent_id, type |-> type,
    name |-> NoName, skip |-> ctx.should_skip, refs |-> refs,
    finished |-> FALSE ]

AddSpan(c, span) ==
  /\ Len(contexts[c].spans) < MaxSpans
  /\ contexts' = [contexts EXCEPT ![c].spans = Append(@, span)]
  /\ UNCHANGED <<uuids, headers, reported>>

(* createEntrySpan; it returns nullptr when the context has spans already. *)
CreateEntrySpan(c) ==
  /\ Open(c) /\ contexts[c].spans = <<>>
  /\ AddSpan(c, Span(contexts[c], -1, "Entry",
                     IF contexts[c].parent = NoParent
                     THEN {} ELSE {contexts[c].parent}))

(* createExitSpan below a span of the same context.                        *)
CreateExitSpan(c, i) ==
  /\ Open(c) /\ i \in SpansOf(c)
  /\ AddSpan(c, Span(contexts[c], contexts[c].spans[i].id, "Exit", {}))

(* setSkipAnalysis() of the context.                                       *)
SetSkipAnalysis(c) ==
  /\ Open(c) /\ ~contexts[c].should_skip
  /\ contexts' = [contexts EXCEPT ![c].should_skip = TRUE]
  /\ UNCHANGED <<uuids, headers, reported>>

(* Plausible bug: the header is made from any kind of span.                *)
CreateSW8HeaderValueOfAnySpan(c, target) ==
  /\ Open(c) /\ contexts[c].spans # <<>>
  /\ LET spans == contexts[c].spans
     IN  headers' = headers \cup
                      {EncodeSpan(contexts[c], spans[Len(spans)], target)}
  /\ UNCHANGED <<contexts, uuids, reported>>

(* createSW8HeaderValue: of the last span created, when it is an exit span.*)
CreateSW8HeaderValue(c, target) ==
  /\ Open(c) /\ contexts[c].spans # <<>>
  /\ LET spans == contexts[c].spans
         target_span == spans[Len(spans)]
     IN  /\ target_span.type = "Exit"
         /\ headers' = headers \cup {EncodeSpan(contexts[c], target_span, target)}
  /\ UNCHANGED <<contexts, uuids, reported>>

-----------------------------------------------------------------------------
(* Spans.                                                                  *)

UpdateSpan(c, i, span) ==
  /\ contexts' = [contexts EXCEPT ![c].spans[i] = span]
  /\ UNCHANGED <<uuids, headers, reported>>

(* Only the name of the first span is ever read (by report and in the      *)
(* header), so only that one is tracked. startSpan does not assert that    *)
(* the span is unfinished; setOperationName does.                          *)
StartSpan(c, name) ==
  /\ Open(c) /\ 1 \in SpansOf(c)
  /\ UpdateSpan(c, 1, [contexts[c].spans[1] EXCEPT !.name = name])

SetOperationName(c, name) ==
  /\ Open(c) /\ 1 \in SpansOf(c) /\ ~contexts[c].spans[1].finished
  /\ UpdateSpan(c, 1, [contexts[c].spans[1] EXCEPT !.name = name])

EndSpan(c, i) ==
  /\ Open(c) /\ i \in SpansOf(c) /\ ~contexts[c].spans[i].finished
  /\ UpdateSpan(c, i, [contexts[c].spans[i] EXCEPT !.finished = TRUE])

-----------------------------------------------------------------------------
(* TracerImpl::report.                                                     *)

EndsWith(name, suffix) ==
  /\ Len(suffix) <= Len(name)
  /\ \A k \in 1..Len(suffix) :
       name[Len(name) - Len(suffix) + k] = suffix[k]

(* SuffixMatcher::match.                                                   *)
Match(name) == \E suffix \in IgnoreSuffixes : EndsWith(name, suffix)

(* Plausible bugs: only the entry span is asked, or only the last one.     *)
EntrySpanFinished(ctx) == ctx.spans # <<>> => ctx.spans[1].finished
LastSpanFinished(ctx)  == ctx.spans # <<>> => ctx.spans[Len(ctx.spans)].finished

ReadyToSend(ctx) ==
  \A i \in 1..Len(ctx.spans) : ctx.spans[i].finished

(* createSegmentObject moves the segment out of the context.               *)
SegmentObject(ctx) ==
  [ trace |-> ctx.trace, segment |-> ctx.segment, tracer |-> ctx.tracer,
    spans |-> ctx.spans ]

(* report returns true. It returns false and changes nothing when a span   *)
(* is unfinished or the entry span's name is ignored: the application may  *)
(* try again.                                                              *)
Report(c) ==
  /\ Open(c)
  /\ ReadyToSend(contexts[c])
  /\ contexts[c].spans # <<>> => ~Match(contexts[c].spans[1].name)
  /\ reported' = Append(reported, SegmentObject(contexts[c]))
  /\ contexts' = [contexts EXCEPT ![c].sent = TRUE]
  /\ UNCHANGED <<uuids, headers>>

Next ==
  \/ \E t \in Tracers :
       \/ NewContext(t)
       \/ \E h \in headers, mode \in {"Default", "Skip"} :
            NewContextFrom(t, h, mode)
  \/ \E c \in 1..MaxContexts :
       \/ CreateEntrySpan(c)
       \/ SetSkipAnalysis(c)
       \/ \E target \in Targets : CreateSW8HeaderValue(c, target)
       \/ Report(c)
       \/ \E name \in OperationNames :
            StartSpan(c, name) \/ SetOperationName(c, name)
       \/ \E i \in 1..MaxSpans :
            \/ CreateExitSpan(c, i)
            \/ EndSpan(c, i)

Spec == Init /\ [][Next]_vars

-----------------------------------------------------------------------------
(* Properties.                                                             *)

(* A segment that is reported is a finished tree: the spans are numbered   *)
(* 0, 1, ... in order, the first one and no other is an entry span and the *)
(* root, every other span hangs below an earlier one, and none is still    *)
(* running, whatever the order in which spans were created and ended and   *)
(* report was tried.                                                       *)
SegmentIsTree ==
  \A k \in 1..Len(reported) :
    LET spans == reported[k].spans
    IN  \A i \in 1..Len(spans) :
          /\ spans[i].id = i - 1 /\ spans[i].finished
          /\ spans[i].type = (IF i = 1 THEN "Entry" ELSE "Exit")
          /\ IF i = 1 THEN spans[i].parent = -1
                      ELSE spans[i].parent \in 0..(i - 2) /\ spans[i].refs = {}

(* Context c was started by a request of context p.                        *)
ChildOf(c, p) ==
  /\ contexts[c].parent # NoParent
  /\ contexts[c].parent.traceSegmentId = contexts[p].segment

(* Segments are connected across processes: a context that was created     *)
(* from a header belongs to the trace of exactly one earlier context, and  *)
(* its parent span is an exit span of that context, whatever happened to   *)
(* the caller's context since the header was made. So a trace is a tree    *)
(* with one root, as the OAP expects.                                      *)
TraceIsTree ==
  /\ \A c \in Contexts : contexts[c].parent # NoParent =>
       \E p \in 1..(c - 1) :
         /\ ChildOf(c, p)
         /\ \A q \in Contexts : ChildOf(c, q) => q = p
         /\ contexts[p].trace = contexts[c].trace
         /\ contexts[c].parent.service = Service(contexts[p].tracer)
         /\ LET id == contexts[c].parent.spanId
            IN  /\ id + 1 \in SpansOf(p)
                /\ contexts[p].spans[id + 1].type = "Exit"
  /\ \A c, d \in Contexts :
       /\ contexts[c].trace = contexts[d].trace
       /\ contexts[c].parent = NoParent /\ contexts[d].parent = NoParent
       => c = d

(* What the collector receives is connected as well: when the segments of  *)
(* caller and callee were both reported, in either order, the reference of *)
(* the callee's entry span names an exit span of the caller's segment.     *)
ReportedRefsResolve ==
  \A k, n \in 1..Len(reported) :
    \A i \in 1..Len(reported[k].spans) :
      \A ref \in reported[k].spans[i].refs :
        ref.traceSegmentId = reported[n].segment =>
          /\ i = 1 /\ ref.traceId = reported[n].trace
          /\ \E j \in 1..Len(reported[n].spans) :
               /\ reported[n].spans[j].id = ref.spanId
               /\ reported[n].spans[j].type = "Exit"

(* A context that was started by a caller in tracing mode Skip ("all spans *)
(* generated in this context should skip analysis", cpp2sky/propagation.h) *)
(* has no span that is analysed.                                           *)
SkipModeHonoured ==
  \A c \in Contexts : contexts[c].mode = "Skip" =>
    \A i \in SpansOf(c) : contexts[c].spans[i].skip

-----------------------------------------------------------------------------
(* What the repository says and the code does not keep.                    *)

(* cpp2sky/tracing_context.h:246: "If called, all spans belongs to this    *)
(* segment will be skipped analysis."                                      *)
SkipCoversSegment ==
  \A c \in Contexts : contexts[c].should_skip =>
    \A i \in SpansOf(c) : contexts[c].spans[i].skip

(* cpp2sky/propagation.h:60: "Get endpoint. Operation Name of the first    *)
(* entry span in the parent segment." The endpoint a header carries is the *)
(* name that span has in the segment that is reported.                     *)
EndpointIsReported ==
  \A k \in 1..Len(reported) : \A h \in headers :
    SpanContext(h).traceSegmentId = reported[k].segment =>
      SpanContext(h).endpoint = reported[k].spans[1].name
=============================================================================
