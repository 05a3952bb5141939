---------------------------- MODULE RaiiTracing ----------------------------
(***************************************************************************)
(* Applications that create their spans as StartEntrySpan and              *)
(* StartExitSpan objects (cpp2sky/tracing_context.h): the constructor      *)
(* creates and starts a span, the destructor ends it. C++ destroys scope   *)
(* objects in the reverse order of their construction, so a request has a  *)
(* stack of them. get() hands out the span, and the pointer may be kept:   *)
(* it serves as a parent and to name the span, also when its scope is left.*)
(* Requests interleave freely, and report(ctx) may be tried at any time,   *)
(* also while scopes are open.                                             *)
(***************************************************************************)
EXTENDS TracingContext

VARIABLE scopes   \* for every context, the spans of its live scope objects

raiiVars == <<vars, scopes>>

RaiiInit == Init /\ scopes = [c \in 1..MaxContexts |-> <<>>]

(* A span made by createEntrySpan or createExitSpan and started: nothing   *)
(* of another thread can come between the two calls.                       *)
OpenScope(c, span) ==
  /\ AddSpan(c, span)
  /\ scopes' = [scopes EXCEPT ![c] = Append(@, Len(contexts[c].spans) + 1)]

(* StartEntrySpan uses the pointer createEntrySpan returns without a test, *)
(* and "called once per workload" (tracing_context.h:227) keeps it from    *)
(* being nullptr.                                                          *)
StartEntrySpan(c, name) ==
  /\ Open(c) /\ contexts[c].spans = <<>>
  /\ OpenScope(c, [Span(contexts[c], -1, "Entry",
                        IF contexts[c].parent = NoParent
                        THEN {} ELSE {contexts[c].parent}) EXCEPT !.name = name])

(* The parent is a span obtained with get(), whether it has ended or not.  *)
StartExitSpan(c, i, name) ==
  /\ Open(c) /\ i \in SpansOf(c)
  /\ OpenScope(c, [Span(contexts[c], contexts[c].spans[i].id, "Exit", {})
                     EXCEPT !.name = name])

InnermostScope(c) == scopes[c][Len(scopes[c])]

(* ~StartEntrySpan and ~StartExitSpan. They write through the reference to *)
(* the span object, whoever owns it by now. (The assert of endSpan keeps   *)
(* an application from ending the span through get() as well.)             *)
CloseScope(c) ==
  /\ scopes[c] # <<>>
  /\ UpdateSpan(c, InnermostScope(c),
       [contexts[c].spans[InnermostScope(c)] EXCEPT !.finished = TRUE])
  /\ scopes' = [scopes EXCEPT ![c] = SubSeq(@, 1, Len(@) - 1)]

(* get()->startSpan and get()->setOperationName, of the first span: only   *)
(* its name is ever read.                                                  *)
NameThroughGet(c, name) ==
  /\ StartSpan(c, name) \/ SetOperationName(c, name)
  /\ UNCHANGED scopes

RaiiNext ==
  \/ \E t \in Tracers :
       \/ NewContext(t) /\ UNCHANGED scopes
       \/ \E h \in headers : NewContextFrom(t, h, "Default") /\ UNCHANGED scopes
  \/ \E c \in 1..MaxContexts :
       \/ \E name \in OperationNames :
            \/ StartEntrySpan(c, name)
            \/ NameThroughGet(c, name)
            \/ \E i \in 1..MaxSpans : StartExitSpan(c, i, name)
       \/ CloseScope(c)
       \/ \E target \in Targets :
            CreateSW8HeaderValue(c, target) /\ UNCHANGED scopes
       \/ Report(c) /\ UNCHANGED scopes

RaiiSpec == RaiiInit /\ [][RaiiNext]_raiiVars

-----------------------------------------------------------------------------
(* Properties.                                                             *)

(* "Span won't be released because the entity is holded by TracingContext" *)
(* (tracing_context.h:283): report moves a segment out of its context only *)
(* when every scope of the request has been left, so no destructor ends a  *)
(* span that has been handed to the client.                                *)
NoUseAfterReport == \A c \in Contexts : contexts[c].sent => scopes[c] = <<>>

(* Leaving the scopes is all an application has to do: a request can be    *)
(* reported exactly when it has no live scope object.                      *)
ReadyWhenClosed ==
  \A c \in Contexts : ReadyToSend(contexts[c]) <=> scopes[c] = <<>>
=============================================================================
