--------------------------- MODULE SamplesProofs ---------------------------
(***************************************************************************)
(* Proofs about Samples, for any number of requests of either kind.        *)
(*                                                                         *)
(* The two programs work on contexts through the actions of RaiiTracing,   *)
(* so the invariant of RaiiTracingProofs holds of them.                    *)
(* To it belongs what the place of a thread in its program says of the     *)
(* thread's context (PingsInv, HandlersInv), that no two threads share one *)
(* (OwnContexts), and that what the reporters hold and have transmitted    *)
(* are the segments of different contexts (ReportersInv). That every step  *)
(* of the programs is one of RaiiTracing is a theorem at the end.          *)
(***************************************************************************)
EXTENDS Samples, RaiiTracingProofs

-----------------------------------------------------------------------------
(* The inductive invariant.                                                *)

PingPlaces == {"context", "entry", "exit", "call", "wait", "leave exit",
               "leave entry", "report", "done"}
HandlerPlaces == {"unsent", "request", "entry", "leave", "report", "replied",
                  "failed", "undefined"}

(* How many spans a ping has created, and how many scopes it is inside of. *)
Created(place) ==
  CASE place = "entry" -> 0
    [] place = "exit" -> 1
    [] OTHER -> 2
Inside(place) ==
  CASE place \in {"entry", "report", "done"} -> 0
    [] place \in {"exit", "leave entry"} -> 1
    [] OTHER -> 2

PingInv(ping) ==
  LET c == ping.ctx
  IN  IF ping.pc = "context"
      THEN c = NoContext
      ELSE /\ c \in Contexts
           /\ Len(contexts[c].spans) = Created(ping.pc)
           /\ Len(scopes[c]) = Inside(ping.pc)
           /\ ping.pc = "done" => contexts[c].sent

(* A header of a ping names the ping's exit span.                          *)
FromPing(header, ping) ==
  /\ ping.ctx \in Contexts /\ header \in headers
  /\ SpanContext(header).traceId = contexts[ping.ctx].trace
  /\ SpanContext(header).traceSegmentId = contexts[ping.ctx].segment
  /\ SpanContext(header).spanId = 1

(* The context of a handler continues the trace its header names, and its  *)
(* first span has the reference.                                           *)
Continues(c, header) ==
  /\ c \in Contexts
  /\ contexts[c].parent = SpanContext(header)
  /\ contexts[c].trace = SpanContext(header).traceId
  /\ contexts[c].spans # <<>> =>
       SpanContext(header) \in contexts[c].spans[1].refs
  /\ contexts[c].sent => contexts[c].spans # <<>>

HandlerInv(handler) ==
  LET c == handler.ctx
  IN  IF c = NoContext
      THEN handler.pc \in {"unsent", "request", "entry", "failed", "undefined"}
      ELSE /\ handler.pc \notin {"unsent", "request"}
           /\ handler.header # NoHeader /\ Continues(c, handler.header)
           /\ handler.pc = "entry" => scopes[c] = <<>>
           /\ handler.pc = "leave" =>
                contexts[c].spans # <<>> /\ Len(scopes[c]) = 1
           /\ handler.pc = "report" =>
                contexts[c].spans # <<>> /\ scopes[c] = <<>>
           /\ handler.pc = "replied" => contexts[c].sent

PingsInv ==
  /\ pings \in [Pings -> [pc : PingPlaces, ctx : Nat]]
  /\ \A p \in Pings : PingInv(pings[p])

HandlersInv ==
  /\ handlers \in [Requests -> [ pc : HandlerPlaces, ctx : Nat,
                                 header : headers \cup {NoHeader} ]]
  /\ \A r \in Requests :
       /\ HandlerInv(handlers[r])
       /\ handlers[r].header # NoHeader =>
            r \in Pings /\ FromPing(handlers[r].header, pings[r])

(* The threads that hold a context.                                        *)
OwnContexts ==
  /\ \A p, q \in Pings :
       pings[p].ctx = pings[q].ctx /\ pings[p].ctx # NoContext => p = q
  /\ \A r, s \in Requests :
       handlers[r].ctx = handlers[s].ctx /\ handlers[r].ctx # NoContext => r = s
  /\ \A p \in Pings, r \in Requests :
       pings[p].ctx = handlers[r].ctx => pings[p].ctx = NoContext

(* What a reporter holds or has transmitted: segments that were reported.  *)
Shipped(queue) ==
  /\ queue \in Seq(SegmentRec)
  /\ \A k \in 1..Len(queue) :
       \E c \in Contexts : /\ contexts[c].sent
                           /\ queue[k] = SegmentObject(contexts[c])

NotTwice(queue) ==
  \A j, k \in 1..Len(queue) : queue[j].segment = queue[k].segment => j = k

Apart(queue, other) ==
  \A j \in 1..Len(queue), k \in 1..Len(other) :
    queue[j].segment # other[k].segment

CallerQueue == caller_wire \o caller_backlog
ServerQueue == server_wire \o server_backlog

ReportersInv ==
  /\ caller_wire \in Seq(SegmentRec) /\ caller_backlog \in Seq(SegmentRec)
  /\ server_wire \in Seq(SegmentRec) /\ server_backlog \in Seq(SegmentRec)
  /\ Shipped(CallerQueue) /\ Shipped(ServerQueue)
  /\ NotTwice(CallerQueue) /\ NotTwice(ServerQueue)
  /\ Apart(CallerQueue, ServerQueue)

SamplesInv ==
  RaiiInv /\ PingsInv /\ HandlersInv /\ OwnContexts /\ ReportersInv

-----------------------------------------------------------------------------
(* What a step does to a context other than the one of its thread: nothing.*)

Untouched(d) ==
  /\ d \in Contexts'
  /\ contexts'[d] = contexts[d] /\ scopes'[d] = scopes[d]

TouchesOnly(c) ==
  /\ Persist /\ headers \subseteq headers'
  /\ \A d \in Contexts : d # c => Untouched(d)

LEMMA ContextIsNumber ==
  ASSUME TracingInv, NEW c \in Contexts
  PROVE  /\ c \in Nat \ {0} /\ contexts[c] \in ContextRec
         /\ contexts[c].spans \in Seq(SpanRec) /\ Len(contexts[c].spans) \in Nat
<1>1. contexts[c] \in ContextRec /\ Len(contexts) \in Nat
  BY ContextType DEF TracingInv, TracingTypeOK
<1> QED
  BY <1>1 DEF Contexts, ContextRec

LEMMA ChangeTouches ==
  ASSUME TracingInv, NEW c \in Contexts, NEW new \in ContextRec,
         Inherits(new, contexts[c]),
         contexts' = [contexts EXCEPT ![c] = new], headers \subseteq headers',
         \A d \in Contexts : d # c => scopes'[d] = scopes[d]
  PROVE  /\ TouchesOnly(c) /\ c \in Contexts' /\ contexts'[c] = new
<1>1. /\ Contexts' = Contexts /\ contexts'[c] = new
      /\ \A d \in Contexts : d # c => contexts'[d] = contexts[d]
  BY ChangedContexts DEF TracingInv
<1>2. Persist
  BY <1>1, ContextType, InheritsItself DEF Persist, TracingInv
<1> QED
  BY <1>1, <1>2 DEF TouchesOnly, Untouched

LEMMA NothingTouched ==
  ASSUME TracingInv, UNCHANGED <<contexts, scopes>>, headers \subseteq headers'
  PROVE  \A c : TouchesOnly(c)
<1>1. Contexts' = Contexts
  BY DEF Contexts
<1>2. Persist
  BY <1>1, ContextType, InheritsItself DEF Persist, TracingInv
<1> QED
  BY <1>1, <1>2 DEF TouchesOnly, Untouched

(* A scope is opened: one more span, one more scope.                       *)
LEMMA OpenTouches ==
  ASSUME RaiiInv, NEW c \in Contexts, ~contexts[c].sent,
         NEW span \in SpanRec, OpenScope(c, span)
  PROVE  /\ TouchesOnly(c) /\ c \in Contexts'
         /\ Len(contexts'[c].spans) = Len(contexts[c].spans) + 1
         /\ contexts[c].spans = <<>> => contexts'[c].spans[1] = span
         /\ contexts'[c].sent = contexts[c].sent
         /\ Len(scopes'[c]) = Len(scopes[c]) + 1
<1> DEFINE old == contexts[c]
           new == [contexts[c] EXCEPT !.spans = Append(contexts[c].spans, span)]
           n   == Len(contexts[c].spans)
<1>1. /\ TracingInv /\ ScopeInv /\ old \in ContextRec
      /\ old.spans \in Seq(SpanRec) /\ n \in Nat
  BY ContextIsNumber DEF RaiiInv
<1>2. /\ Append(old.spans, span) \in Seq(SpanRec)
      /\ Len(Append(old.spans, span)) = n + 1
      /\ \A i \in 1..n : Append(old.spans, span)[i] = old.spans[i]
      /\ Append(old.spans, span)[n + 1] = span
  BY <1>1, AppendProperties
<1>3. /\ new \in ContextRec /\ new.spans = Append(old.spans, span)
      /\ new.tracer = old.tracer /\ new.trace = old.trace
      /\ new.segment = old.segment /\ new.parent = old.parent
      /\ new.mode = old.mode /\ new.sent = old.sent
  BY <1>1, <1>2 DEF ContextRec
<1>4. /\ contexts' = [contexts EXCEPT ![c] = new] /\ UNCHANGED headers
      /\ scopes' = [scopes EXCEPT ![c] = Append(scopes[c], n + 1)]
  BY DEF OpenScope, AddSpan
<1>5. scopes[c] \in Seq(Nat) /\ c \in DOMAIN scopes
  <2>1. Len(contexts) \in Nat /\ Len(contexts) <= MaxContexts
        /\ MaxContexts \in Nat
    BY <1>1, TracingBounds DEF ScopeInv, TracingInv, TracingTypeOK
  <2>2. c \in 1..MaxContexts
    BY <2>1 DEF Contexts
  <2> QED
    BY <1>1, <2>2 DEF ScopeInv
<1>6. /\ Len(scopes'[c]) = Len(scopes[c]) + 1
      /\ \A d \in Contexts : d # c => scopes'[d] = scopes[d]
  BY <1>1, <1>4, <1>5, AppendProperties
<1> HIDE DEF new
<1>7. Inherits(new, old)
  BY <1>1, <1>2, <1>3 DEF Inherits, SameSpan
<1>8. old.spans = <<>> => n = 0
  BY <1>1, EmptySeq
<1>9. TouchesOnly(c) /\ c \in Contexts' /\ contexts'[c] = new
  BY <1>1, <1>3, <1>4, <1>6, <1>7, ChangeTouches
<1> QED
  BY <1>2, <1>3, <1>6, <1>8, <1>9

(* The innermost scope is closed: a span has ended, nothing else changed.  *)
LEMMA CloseTouches ==
  ASSUME RaiiInv, NEW c \in Contexts, CloseScope(c)
  PROVE  /\ TouchesOnly(c) /\ c \in Contexts'
         /\ Len(contexts'[c].spans) = Len(contexts[c].spans)
         /\ contexts'[c].sent = contexts[c].sent
         /\ Len(scopes'[c]) = Len(scopes[c]) - 1
<1> DEFINE old   == contexts[c]
           s     == scopes[c]
           j     == InnermostScope(c)
           span  == [contexts[c].spans[j] EXCEPT !.finished = TRUE]
           spans == [contexts[c].spans EXCEPT ![j] = span]
           new   == [contexts[c] EXCEPT !.spans = spans]
<1>1. /\ TracingInv /\ ScopeInv /\ old \in ContextRec
      /\ old.spans \in Seq(SpanRec) /\ Len(old.spans) \in Nat
  BY ContextIsNumber DEF RaiiInv
<1>2. ScopesMatch(old, s) /\ s # <<>> /\ s \in Seq(Nat)
  BY <1>1 DEF ScopeInv, CloseScope, ScopesMatch
<1>3. j \in 1..Len(old.spans) /\ ~old.sent /\ Len(s) \in Nat \ {0}
  <2>1. Len(s) \in 1..Len(s)
    BY <1>2, EmptySeq
  <2> QED
    BY <1>2, <2>1 DEF ScopesMatch, InnermostScope
<1>4. /\ contexts' = [contexts EXCEPT ![c] = new] /\ UNCHANGED headers
      /\ scopes' = [scopes EXCEPT ![c] = SubSeq(s, 1, Len(s) - 1)]
  BY DEF CloseScope, UpdateSpan
<1>5. c \in DOMAIN scopes
  <2>1. Len(contexts) \in Nat /\ Len(contexts) <= MaxContexts
        /\ MaxContexts \in Nat
    BY <1>1, TracingBounds DEF ScopeInv, TracingInv, TracingTypeOK
  <2>2. c \in 1..MaxContexts
    BY <2>1 DEF Contexts
  <2> QED
    BY <1>1, <2>2 DEF ScopeInv
<1>6. Len(SubSeq(s, 1, Len(s) - 1)) = Len(s) - 1
  BY <1>2, <1>3, SubSeqProperties
<1>7. /\ Len(scopes'[c]) = Len(s) - 1
      /\ \A d \in Contexts : d # c => scopes'[d] = scopes[d]
  BY <1>1, <1>4, <1>5, <1>6
<1>8. span \in SpanRec /\ SameSpan(span, old.spans[j])
  <2>1. old.spans[j] \in SpanRec
    BY <1>1, <1>3
  <2> QED
    BY <2>1 DEF SpanRec, SameSpan
<1> HIDE DEF j, span, old
<1>9. /\ spans \in Seq(SpanRec) /\ Len(spans) = Len(old.spans)
      /\ \A i \in 1..Len(old.spans) :
           spans[i] = IF i = j THEN span ELSE old.spans[i]
  BY <1>1, <1>3, <1>8, ExceptSeq DEF old
<1> HIDE DEF spans
<1>10. /\ new \in ContextRec /\ new.spans = spans
       /\ new.tracer = old.tracer /\ new.trace = old.trace
       /\ new.segment = old.segment /\ new.parent = old.parent
       /\ new.mode = old.mode /\ new.sent = old.sent
  BY <1>1, <1>9 DEF ContextRec, old
<1> HIDE DEF new
<1>11. Inherits(new, old)
  <2>1. \A i \in 1..Len(old.spans) : SameSpan(new.spans[i], old.spans[i])
    BY <1>8, <1>9, <1>10 DEF SameSpan
  <2> QED
    BY <1>1, <1>3, <1>9, <1>10, <2>1 DEF Inherits
<1>12. TouchesOnly(c) /\ c \in Contexts' /\ contexts'[c] = new
  BY <1>1, <1>4, <1>7, <1>10, <1>11, ChangeTouches DEF old
<1> QED
  BY <1>7, <1>9, <1>10, <1>12 DEF old

(* A segment is moved out of its context.                                  *)
LEMMA ReportTouches ==
  ASSUME RaiiInv, NEW c, Report(c), UNCHANGED scopes
  PROVE  /\ TouchesOnly(c) /\ c \in Contexts /\ c \in Contexts'
         /\ ~contexts[c].sent /\ contexts'[c].sent
         /\ contexts'[c].spans = contexts[c].spans
         /\ SegmentObject(contexts[c]) \in SegmentRec
         /\ SegmentObject(contexts'[c]) = SegmentObject(contexts[c])
<1> DEFINE old == contexts[c]
           new == [contexts[c] EXCEPT !.sent = TRUE]
<1>1. /\ TracingInv /\ c \in Contexts /\ ~old.sent /\ old \in ContextRec
      /\ Len(old.spans) \in Nat
  BY ContextIsNumber DEF RaiiInv, Report, Open
<1>2. contexts' = [contexts EXCEPT ![c] = new] /\ UNCHANGED headers
  BY DEF Report
<1>3. /\ new \in ContextRec /\ new.sent /\ new.spans = old.spans
      /\ new.tracer = old.tracer /\ new.trace = old.trace
      /\ new.segment = old.segment /\ new.parent = old.parent
      /\ new.mode = old.mode
  BY <1>1 DEF ContextRec
<1> HIDE DEF new
<1>4. Inherits(new, old)
  BY <1>1, <1>3 DEF Inherits, SameSpan
<1>5. TouchesOnly(c) /\ c \in Contexts' /\ contexts'[c] = new
  BY <1>1, <1>2, <1>3, <1>4, ChangeTouches
<1>6. SegmentObject(old) \in SegmentRec
  BY <1>1 DEF SegmentObject, SegmentRec, ContextRec
<1>7. SegmentObject(new) = SegmentObject(old)
  BY <1>3 DEF SegmentObject
<1> QED
  BY <1>1, <1>3, <1>5, <1>6, <1>7

(* A context arrives: it is nobody's yet, and its number is free.          *)
LEMMA ArrivalTouches ==
  ASSUME RaiiInv, NEW ctx, Arrives(ctx), UNCHANGED scopes,
         Len(contexts) < MaxContexts
  PROVE  /\ \A c : TouchesOnly(c)
         /\ Len(contexts) + 1 \in Contexts' \ Contexts
         /\ contexts'[Len(contexts) + 1] = ctx
         /\ scopes'[Len(contexts) + 1] = <<>>
<1> DEFINE n == Len(contexts)
<1>1. n \in Nat /\ contexts \in Seq(ContextRec) /\ TracingInv /\ ScopeInv
  BY DEF RaiiInv, TracingInv, TracingTypeOK
<1>2. /\ Len(contexts') = n + 1 /\ contexts'[n + 1] = ctx
      /\ \A c \in 1..n : contexts'[c] = contexts[c]
  BY <1>1, AppendProperties DEF Arrives
<1>3. n < MaxContexts /\ MaxContexts \in Nat
  BY TracingBounds
<1> HIDE DEF n
<1>4. /\ Contexts = 1..n /\ Contexts' = 1..(n + 1)
      /\ n + 1 \in 1..MaxContexts /\ n + 1 \in Contexts' \ Contexts
      /\ Contexts \subseteq Contexts'
  BY <1>1, <1>2, <1>3 DEF Contexts, n
<1>5. scopes[n + 1] = <<>>
  BY <1>1, <1>4 DEF ScopeInv
<1>6. Persist
  BY <1>1, <1>2, <1>4, ContextType, InheritsItself DEF Persist, TracingInv
<1>7. \A d \in Contexts : Untouched(d)
  BY <1>2, <1>4 DEF Untouched
<1> QED
  BY <1>2, <1>4, <1>5, <1>6, <1>7 DEF TouchesOnly, Arrives, n

-----------------------------------------------------------------------------
(* What is said of a thread stays true while others work.                  *)

LEMMA Persisting ==
  ASSUME NEW c \in Contexts, Persist
  PROVE  /\ c \in Contexts' /\ Inherits(contexts'[c], contexts[c])
         /\ contexts'[c].trace = contexts[c].trace
         /\ contexts'[c].segment = contexts[c].segment
         /\ contexts'[c].parent = contexts[c].parent
BY DEF Persist, Inherits

LEMMA SameSpanContext ==
  ASSUME NEW h
  PROVE  SpanContext(h)' = SpanContext(h)
BY DEF SpanContext, DecodeWithoutPadding, SimpleAtoi

(* A thread that has made no context, or does not work with c.             *)
LEMMA PingKept ==
  ASSUME NEW c, TouchesOnly(c), NEW p \in Pings, PingInv(pings[p]),
         pings'[p] = pings[p], pings[p].pc = "context" \/ pings[p].ctx # c
  PROVE  PingInv(pings[p])'
<1>1. CASE pings[p].pc = "context"
  BY <1>1 DEF PingInv
<1>2. CASE pings[p].pc # "context"
  <2>1. pings[p].ctx \in Contexts /\ pings[p].ctx # c
    BY <1>2 DEF PingInv
  <2>2. Untouched(pings[p].ctx)
    BY <2>1 DEF TouchesOnly
  <2> HIDE DEF Created, Inside
  <2> QED
    BY <1>2, <2>1, <2>2 DEF PingInv, Untouched
<1> QED
  BY <1>1, <1>2

LEMMA FromPingKept ==
  ASSUME NEW c, TouchesOnly(c), NEW p \in Pings, NEW h,
         FromPing(h, pings[p]), pings'[p].ctx = pings[p].ctx
  PROVE  FromPing(h, pings[p])'
<1>1. /\ pings[p].ctx \in Contexts /\ h \in headers /\ h \in headers'
      /\ Persist
  BY DEF FromPing, TouchesOnly
<1>2. /\ pings[p].ctx \in Contexts'
      /\ contexts'[pings[p].ctx].trace = contexts[pings[p].ctx].trace
      /\ contexts'[pings[p].ctx].segment = contexts[pings[p].ctx].segment
  BY <1>1, Persisting
<1>3. SpanContext(h)' = SpanContext(h)
  BY SameSpanContext
<1> QED
  BY <1>1, <1>2, <1>3 DEF FromPing

(* The context of a handler after a step that leaves its first span's      *)
(* reference, creates it, or does not touch the context.                   *)
LEMMA ContinuesKept ==
  ASSUME TracingInv, TracingInv', Persist, NEW c, NEW h, Continues(c, h),
         contexts'[c].spans # <<>> /\ contexts[c].spans = <<>> =>
           contexts[c].parent \in contexts'[c].spans[1].refs,
         contexts'[c].sent => contexts'[c].spans # <<>>
  PROVE  Continues(c, h)'
<1>1. /\ c \in Contexts /\ c \in Contexts'
      /\ Inherits(contexts'[c], contexts[c])
      /\ contexts'[c].trace = contexts[c].trace
      /\ contexts'[c].parent = contexts[c].parent
  BY Persisting DEF Continues
<1>2. SpanContext(h)' = SpanContext(h)
  BY SameSpanContext
<1>3. PICK sc : sc = SpanContext(h)
  OBVIOUS
<1>4. contexts'[c].spans # <<>> => sc \in contexts'[c].spans[1].refs
  <2>1. CASE contexts[c].spans = <<>>
    BY <1>3, <2>1 DEF Continues
  <2>2. CASE contexts[c].spans # <<>>
    <3>1. sc \in contexts[c].spans[1].refs
      BY <1>3, <2>2 DEF Continues
    <3>2. 1 \in 1..Len(contexts[c].spans)
      BY <1>1, <2>2, ContextIsNumber, EmptySeq
    <3>3. SameSpan(contexts'[c].spans[1], contexts[c].spans[1])
      BY <1>1, <3>2 DEF Inherits
    <3> QED
      BY <3>1, <3>3 DEF SameSpan
  <2> QED
    BY <2>1, <2>2
<1>5. contexts'[c].parent = sc /\ contexts'[c].trace = sc.traceId
  BY <1>1, <1>3 DEF Continues
<1> QED
  BY <1>1, <1>2, <1>3, <1>4, <1>5 DEF Continues

LEMMA HandlerKept ==
  ASSUME TracingInv, TracingInv', NEW c, TouchesOnly(c),
         NEW r \in Requests, HandlerInv(handlers[r]), handlers'[r] = handlers[r],
         handlers[r].ctx = NoContext \/ handlers[r].ctx # c
  PROVE  HandlerInv(handlers[r])'
<1>1. CASE handlers[r].ctx = NoContext
  BY <1>1 DEF HandlerInv, NoContext
<1>2. CASE handlers[r].ctx # NoContext
  <2>1. PICK d, h : d = handlers[r].ctx /\ h = handlers[r].header
    OBVIOUS
  <2>2. d \in Contexts /\ d # c /\ d # NoContext /\ Continues(d, h)
        /\ h # NoHeader
    BY <1>2, <2>1 DEF HandlerInv, Continues
  <2>3. Untouched(d) /\ Persist
    BY <2>2 DEF TouchesOnly
  <2>4. Continues(d, h)'
    BY <2>2, <2>3, ContinuesKept DEF Untouched, Continues
  <2>5. Continues(handlers[r].ctx, handlers[r].header)'
    BY <2>1, <2>4 DEF Continues, SpanContext, DecodeWithoutPadding, SimpleAtoi
  <2> QED
    BY <1>2, <2>1, <2>2, <2>3, <2>5 DEF HandlerInv, Untouched, NoContext, NoHeader
<1> QED
  BY <1>1, <1>2

LEMMA PingsKept ==
  ASSUME NEW c, TouchesOnly(c), PingsInv, UNCHANGED pings,
         \A p \in Pings : pings[p].pc = "context" \/ pings[p].ctx # c
  PROVE  PingsInv'
<1>1. ASSUME NEW p \in Pings PROVE PingInv(pings[p])'
  BY PingKept DEF PingsInv
<1> QED
  BY <1>1 DEF PingsInv

LEMMA HandlersKept ==
  ASSUME TracingInv, TracingInv', NEW c, TouchesOnly(c), HandlersInv,
         UNCHANGED handlers,
         \A p \in Pings : pings'[p].ctx = pings[p].ctx
                          \/ pings[p].ctx \notin Contexts,
         \A r \in Requests : handlers[r].ctx = NoContext \/ handlers[r].ctx # c
  PROVE  HandlersInv'
<1>1. ASSUME NEW r \in Requests PROVE HandlerInv(handlers[r])'
  BY HandlerKept DEF HandlersInv
<1>2. ASSUME NEW r \in Requests, handlers[r].header # NoHeader
      PROVE  r \in Pings /\ FromPing(handlers[r].header, pings[r])'
  <2>1. r \in Pings /\ FromPing(handlers[r].header, pings[r])
    BY <1>2 DEF HandlersInv
  <2>2. PICK h : h = handlers[r].header
    OBVIOUS
  <2>3. pings'[r].ctx = pings[r].ctx
    BY <2>1 DEF FromPing
  <2>4. FromPing(h, pings[r])'
    BY <2>1, <2>2, <2>3, FromPingKept
  <2> QED
    BY <2>1, <2>2, <2>4 DEF FromPing, SpanContext, DecodeWithoutPadding,
                            SimpleAtoi
<1>3. handlers' \in [Requests -> [ pc : HandlerPlaces, ctx : Nat,
                                   header : headers' \cup {NoHeader} ]]
  BY DEF HandlersInv, TouchesOnly
<1> QED
  BY <1>1, <1>2, <1>3 DEF HandlersInv, FromPing, SpanContext,
                          DecodeWithoutPadding, SimpleAtoi

(* Nobody else works with the context of a ping, or of a handler.          *)
LEMMA PingOwns ==
  ASSUME PingsInv, OwnContexts, NEW p \in Pings, pings[p].ctx # NoContext
  PROVE  /\ \A q \in Pings : q # p => pings[q].ctx # pings[p].ctx
         /\ \A r \in Requests : handlers[r].ctx # pings[p].ctx
BY DEF OwnContexts

LEMMA HandlerOwns ==
  ASSUME OwnContexts, NEW r \in Requests, handlers[r].ctx # NoContext
  PROVE  /\ \A s \in Requests : s # r => handlers[s].ctx # handlers[r].ctx
         /\ \A p \in Pings : pings[p].ctx # handlers[r].ctx
<1>1. \A p \in Pings : pings[p].ctx = handlers[r].ctx => pings[p].ctx = NoContext
  BY DEF OwnContexts
<1> QED
  BY <1>1 DEF OwnContexts

LEMMA PingHasContext ==
  ASSUME RaiiInv, PingsInv, NEW p \in Pings, pings[p].pc # "context"
  PROVE  /\ pings[p].ctx \in Contexts /\ pings[p].ctx # NoContext
         /\ Len(contexts[pings[p].ctx].spans) = Created(pings[p].pc)
         /\ Len(scopes[pings[p].ctx]) = Inside(pings[p].pc)
<1>1. /\ pings[p].ctx \in Contexts
      /\ Len(contexts[pings[p].ctx].spans) = Created(pings[p].pc)
      /\ Len(scopes[pings[p].ctx]) = Inside(pings[p].pc)
  <2> HIDE DEF Created, Inside
  <2> QED
    BY DEF PingsInv, PingInv
<1>2. pings[p].ctx # NoContext
  BY <1>1 DEF Contexts, NoContext
<1> QED
  BY <1>1, <1>2

(* A ping goes from one place to another and works on its own context.     *)
LEMMA PingMoves ==
  ASSUME SamplesInv, RaiiInv', NEW p \in Pings, pings[p].pc # "context",
         NEW to \in PingPlaces \ {"context"}, Ping(p, pings[p].pc, to),
         TouchesOnly(pings[p].ctx),
         Len(contexts'[pings[p].ctx].spans) = Created(to),
         Len(scopes'[pings[p].ctx]) = Inside(to),
         to = "done" => contexts'[pings[p].ctx].sent
  PROVE  /\ PingsInv'
         /\ \A q \in Pings : pings'[q].ctx = pings[q].ctx
         /\ UNCHANGED handlers => HandlersInv' /\ OwnContexts'
<1> DEFINE c == pings[p].ctx
<1>1. /\ RaiiInv /\ PingsInv /\ HandlersInv /\ OwnContexts
      /\ TracingInv /\ TracingInv'
  BY DEF SamplesInv, RaiiInv
<1>2. c \in Contexts /\ c # NoContext /\ c \in Contexts'
  BY <1>1, PingHasContext DEF TouchesOnly, Persist
<1>3. /\ pings \in [Pings -> [pc : PingPlaces, ctx : Nat]]
      /\ pings'[p].pc = to /\ pings'[p].ctx = c
      /\ \A q \in Pings : q # p => pings'[q] = pings[q]
      /\ pings' \in [Pings -> [pc : PingPlaces, ctx : Nat]]
  BY <1>1 DEF PingsInv, Ping
<1>4. \A q \in Pings : pings'[q].ctx = pings[q].ctx
  BY <1>3
<1>5. PingsInv'
  <2>1. ASSUME NEW q \in Pings PROVE PingInv(pings[q])'
    <3>1. CASE q = p
      <4> HIDE DEF Created, Inside
      <4> QED
        BY <1>2, <1>3, <3>1 DEF PingInv
    <3>2. CASE q # p
      <4>1. pings[q].ctx # c
        BY <1>1, <1>2, <3>2, PingOwns
      <4> QED
        BY <1>1, <1>3, <3>2, <4>1, PingKept DEF PingsInv
    <3> QED
      BY <3>1, <3>2
  <2> QED
    BY <1>3, <2>1 DEF PingsInv
<1>6. ASSUME UNCHANGED handlers PROVE HandlersInv' /\ OwnContexts'
  <2>1. \A r \in Requests : handlers[r].ctx # c
    BY <1>1, <1>2, PingOwns
  <2>2. HandlersInv'
    BY <1>1, <1>4, <1>6, <2>1, HandlersKept
  <2>3. OwnContexts'
    BY <1>1, <1>4, <1>6 DEF OwnContexts
  <2> QED
    BY <2>2, <2>3
<1> QED
  BY <1>4, <1>5, <1>6

(* A handler does.                                                         *)
LEMMA HandlerMoves ==
  ASSUME SamplesInv, RaiiInv', NEW r \in Requests, handlers[r].ctx # NoContext,
         NEW to \in {"leave", "report", "replied"},
         Handle(r, handlers[r].pc, to), UNCHANGED pings,
         TouchesOnly(handlers[r].ctx),
         contexts'[handlers[r].ctx].spans # <<>>,
         contexts[handlers[r].ctx].spans = <<>> =>
           contexts[handlers[r].ctx].parent
             \in contexts'[handlers[r].ctx].spans[1].refs,
         to = "leave" => Len(scopes'[handlers[r].ctx]) = 1,
         to = "report" => scopes'[handlers[r].ctx] = <<>>,
         to = "replied" => contexts'[handlers[r].ctx].sent
  PROVE  PingsInv' /\ HandlersInv' /\ OwnContexts'
<1>1. /\ RaiiInv /\ PingsInv /\ HandlersInv /\ OwnContexts
      /\ TracingInv /\ TracingInv'
  BY DEF SamplesInv, RaiiInv
<1>2. PICK c, h : c = handlers[r].ctx /\ h = handlers[r].header
  OBVIOUS
<1>3. c \in Contexts /\ Continues(c, h) /\ h # NoHeader /\ c # NoContext
  BY <1>1, <1>2 DEF HandlersInv, HandlerInv, Continues
<1>4. /\ handlers \in [Requests -> [ pc : HandlerPlaces, ctx : Nat,
                                     header : headers \cup {NoHeader} ]]
      /\ handlers'[r].pc = to /\ handlers'[r].ctx = c /\ handlers'[r].header = h
      /\ \A s \in Requests : s # r => handlers'[s] = handlers[s]
      /\ handlers' \in [Requests -> [ pc : HandlerPlaces, ctx : Nat,
                                      header : headers \cup {NoHeader} ]]
  BY <1>1, <1>2 DEF HandlersInv, Handle, HandlerPlaces
<1>5. TouchesOnly(c) /\ Persist /\ headers \subseteq headers'
  BY <1>2 DEF TouchesOnly
<1>6. \A s \in Requests : /\ handlers'[s].ctx = handlers[s].ctx
                          /\ handlers'[s].header = handlers[s].header
  BY <1>2, <1>4
<1>7. PingsInv'
  <2>1. \A p \in Pings : pings[p].ctx # c
    BY <1>1, <1>2, <1>3, HandlerOwns
  <2> QED
    BY <1>1, <1>5, <2>1, PingsKept
<1>8. OwnContexts'
  BY <1>1, <1>6 DEF OwnContexts
<1>9. ASSUME NEW s \in Requests PROVE HandlerInv(handlers[s])'
  <2>1. CASE s = r
    <3>1. Continues(c, h)'
      BY <1>1, <1>2, <1>3, <1>5, ContinuesKept
    <3>2. Continues(handlers[s].ctx, handlers[s].header)'
      BY <1>4, <2>1, <3>1 DEF Continues, SpanContext, DecodeWithoutPadding,
                              SimpleAtoi
    <3> QED
      BY <1>2, <1>3, <1>4, <2>1, <3>2 DEF HandlerInv, NoContext, NoHeader
  <2>2. CASE s # r
    <3>1. handlers[s].ctx # c
      BY <1>1, <1>2, <1>3, <2>2, HandlerOwns
    <3> QED
      BY <1>1, <1>4, <1>5, <2>2, <3>1, HandlerKept DEF HandlersInv
  <2> QED
    BY <2>1, <2>2
<1>10. ASSUME NEW s \in Requests, handlers'[s].header # NoHeader
       PROVE  s \in Pings /\ FromPing(handlers[s].header, pings[s])'
  <2>1. PICK g : g = handlers[s].header
    OBVIOUS
  <2>2. s \in Pings /\ FromPing(g, pings[s])
    BY <1>1, <1>6, <1>10, <2>1 DEF HandlersInv
  <2>3. FromPing(g, pings[s])'
    BY <1>5, <2>2, FromPingKept
  <2>4. handlers'[s].header = g
    BY <1>6, <2>1
  <2> QED
    BY <2>2, <2>3, <2>4 DEF FromPing, SpanContext, DecodeWithoutPadding,
                            SimpleAtoi
<1>11. HandlersInv'
  <2>1. handlers' \in [Requests -> [ pc : HandlerPlaces, ctx : Nat,
                                     header : headers' \cup {NoHeader} ]]
    BY <1>4, <1>5
  <2>2. \A s \in Requests : NoHeader' = NoHeader
    BY DEF NoHeader
  <2> QED
    BY <1>9, <1>10, <2>1, <2>2 DEF HandlersInv
<1> QED
  BY <1>7, <1>8, <1>11

-----------------------------------------------------------------------------
(* The queues of the reporters.                                            *)

Shorter(queue, old) ==
  /\ queue \in Seq(SegmentRec) /\ Len(queue) <= Len(old)
  /\ \A k \in 1..Len(queue) : queue[k] = old[k]

LEMMA ShippedPersists ==
  ASSUME Persist, NEW queue, Shipped(queue)
  PROVE  Shipped(queue)'
<1> SUFFICES ASSUME NEW k \in 1..Len(queue)
             PROVE  \E c \in Contexts' : /\ contexts'[c].sent
                                         /\ queue[k] = SegmentObject(contexts'[c])
  BY DEF Shipped
<1>1. PICK c \in Contexts : /\ contexts[c].sent
                            /\ queue[k] = SegmentObject(contexts[c])
  BY DEF Shipped
<1>2. c \in Contexts' /\ Inherits(contexts'[c], contexts[c])
  BY Persisting
<1> QED
  BY <1>1, <1>2 DEF Inherits, SegmentObject

LEMMA ShorterKeeps ==
  ASSUME NEW queue, NEW old \in Seq(SegmentRec), Shorter(queue, old),
         Shipped(old), NotTwice(old)
  PROVE  /\ Shipped(queue) /\ NotTwice(queue)
         /\ \A k \in 1..Len(queue) : k \in 1..Len(old) /\ queue[k] = old[k]
<1>1. \A k \in 1..Len(queue) : k \in 1..Len(old) /\ queue[k] = old[k]
  BY DEF Shorter
<1>2. Shipped(queue)
  BY <1>1 DEF Shipped, Shorter
<1>3. NotTwice(queue)
  BY <1>1 DEF NotTwice
<1> QED
  BY <1>1, <1>2, <1>3

LEMMA QueuesAreSequences ==
  ASSUME ReportersInv
  PROVE  CallerQueue \in Seq(SegmentRec) /\ ServerQueue \in Seq(SegmentRec)
BY DEF ReportersInv, Shipped

(* Nothing new gets into the queues.                                       *)
LEMMA ReportersShrink ==
  ASSUME ReportersInv, Persist,
         caller_wire' \in Seq(SegmentRec), caller_backlog' \in Seq(SegmentRec),
         server_wire' \in Seq(SegmentRec), server_backlog' \in Seq(SegmentRec),
         Shorter(CallerQueue', CallerQueue), Shorter(ServerQueue', ServerQueue)
  PROVE  ReportersInv'
<1>1. PICK a, b, x, y : /\ a = CallerQueue' /\ b = ServerQueue'
                        /\ x = CallerQueue /\ y = ServerQueue
  OBVIOUS
<1>2. /\ x \in Seq(SegmentRec) /\ y \in Seq(SegmentRec)
      /\ Shorter(a, x) /\ Shorter(b, y) /\ Shipped(x) /\ Shipped(y)
      /\ NotTwice(x) /\ NotTwice(y) /\ Apart(x, y)
  BY <1>1, QueuesAreSequences DEF ReportersInv
<1>3. /\ Shipped(a) /\ NotTwice(a)
      /\ \A k \in 1..Len(a) : k \in 1..Len(x) /\ a[k] = x[k]
  BY <1>2, ShorterKeeps
<1>4. /\ Shipped(b) /\ NotTwice(b)
      /\ \A k \in 1..Len(b) : k \in 1..Len(y) /\ b[k] = y[k]
  BY <1>2, ShorterKeeps
<1>5. Apart(a, b)
  BY <1>2, <1>3, <1>4 DEF Apart
<1>6. Shipped(a)' /\ Shipped(b)'
  BY <1>3, <1>4, ShippedPersists
<1>7. Shipped(CallerQueue)' /\ Shipped(ServerQueue)'
  BY <1>1, <1>6 DEF Shipped
<1>8. NotTwice(CallerQueue)' /\ NotTwice(ServerQueue)'
  BY <1>1, <1>3, <1>4 DEF NotTwice
<1>9. Apart(CallerQueue, ServerQueue)'
  BY <1>1, <1>5 DEF Apart
<1> QED
  BY <1>7, <1>8, <1>9 DEF ReportersInv

LEMMA SameIsShorter ==
  ASSUME NEW queue \in Seq(SegmentRec)
  PROVE  Shorter(queue, queue)
<1>1. Len(queue) \in Nat
  OBVIOUS
<1> QED
  BY <1>1 DEF Shorter

LEMMA ReportersKept ==
  ASSUME ReportersInv, Persist,
         UNCHANGED <<caller_wire, caller_backlog, server_wire, server_backlog>>
  PROVE  ReportersInv'
<1>1. CallerQueue' = CallerQueue /\ ServerQueue' = ServerQueue
  BY DEF CallerQueue, ServerQueue
<1> QED
  BY <1>1, QueuesAreSequences, SameIsShorter, ReportersShrink DEF ReportersInv

(* A segment is new: the context it comes from was not reported before, so *)
(* neither reporter has anything of it.                                    *)
Fresh(m, queue) == \A k \in 1..Len(queue) : queue[k].segment # m.segment

LEMMA NotSentIsFresh ==
  ASSUME TracingInv, NEW c \in Contexts, ~contexts[c].sent, NEW queue,
         Shipped(queue)
  PROVE  Fresh(SegmentObject(contexts[c]), queue)
<1> SUFFICES ASSUME NEW k \in 1..Len(queue),
                    queue[k].segment = contexts[c].segment
             PROVE  FALSE
  BY DEF Fresh, SegmentObject
<1>1. PICK d \in Contexts : /\ contexts[d].sent
                            /\ queue[k] = SegmentObject(contexts[d])
  BY DEF Shipped
<1>2. contexts[d].segment = contexts[c].segment
  BY <1>1 DEF SegmentObject
<1> QED
  BY <1>1, <1>2 DEF TracingInv, FreshIds

LEMMA AppendFresh ==
  ASSUME NEW queue \in Seq(SegmentRec), NEW m \in SegmentRec,
         NotTwice(queue), Fresh(m, queue)
  PROVE  /\ NotTwice(Append(queue, m))
         /\ \A k \in 1..Len(Append(queue, m)) :
              \/ k \in 1..Len(queue) /\ Append(queue, m)[k] = queue[k]
              \/ Append(queue, m)[k] = m
<1> DEFINE n == Len(queue)
           longer == Append(queue, m)
<1>1. /\ n \in Nat /\ Len(longer) = n + 1 /\ longer[n + 1] = m
      /\ \A k \in 1..n : longer[k] = queue[k]
  BY AppendProperties
<1> HIDE DEF longer
<1>2. \A k \in 1..(n + 1) : k \in 1..n \/ k = n + 1
  BY <1>1
<1>3. \A k \in 1..(n + 1) : \/ k \in 1..n /\ longer[k] = queue[k]
                            \/ k = n + 1 /\ longer[k] = m
  BY <1>1, <1>2
<1>4. NotTwice(longer)
  <2> SUFFICES ASSUME NEW j \in 1..(n + 1), NEW k \in 1..(n + 1),
                      longer[j].segment = longer[k].segment
               PROVE  j = k
    BY <1>1 DEF NotTwice
  <2>1. CASE j \in 1..n /\ k \in 1..n
    BY <1>1, <2>1 DEF NotTwice
  <2>2. CASE j = n + 1 /\ k \in 1..n
    BY <1>1, <2>2 DEF Fresh
  <2>3. CASE j \in 1..n /\ k = n + 1
    BY <1>1, <2>3 DEF Fresh
  <2> QED
    BY <1>2, <2>1, <2>2, <2>3
<1> QED
  BY <1>1, <1>3, <1>4 DEF longer

LEMMA AppendShipped ==
  ASSUME Persist, NEW queue \in Seq(SegmentRec), NEW m \in SegmentRec,
         Shipped(queue), NEW c \in Contexts', contexts'[c].sent,
         m = SegmentObject(contexts'[c])
  PROVE  Shipped(Append(queue, m))'
<1>1. Shipped(queue)'
  BY ShippedPersists
<1>2. PICK longer : longer = Append(queue, m)
  OBVIOUS
<1>3. /\ longer \in Seq(SegmentRec) /\ Len(longer) = Len(queue) + 1
      /\ \A k \in 1..Len(queue) : longer[k] = queue[k]
      /\ longer[Len(queue) + 1] = m /\ Len(queue) \in Nat
  BY <1>2, AppendProperties
<1>4. \A k \in 1..Len(longer) : k \in 1..Len(queue) \/ k = Len(queue) + 1
  BY <1>3
<1>5. Shipped(longer)'
  BY <1>1, <1>3, <1>4 DEF Shipped
<1> QED
  BY <1>2, <1>5

(* A context is reported and its segment accepted by one of the reporters. *)
LEMMA CallerGrows ==
  ASSUME RaiiInv, ReportersInv, NEW c, Report(c), UNCHANGED scopes,
         CallerReporter!Accept(SegmentObject(contexts[c])), UNCHANGED serverVars
  PROVE  ReportersInv'
<1>1. /\ TracingInv /\ Persist /\ c \in Contexts /\ c \in Contexts'
      /\ ~contexts[c].sent /\ contexts'[c].sent
      /\ SegmentObject(contexts[c]) \in SegmentRec
      /\ SegmentObject(contexts'[c]) = SegmentObject(contexts[c])
  BY ReportTouches DEF RaiiInv, TouchesOnly
<1>2. PICK m, x, y : /\ m = SegmentObject(contexts[c])
                     /\ x = CallerQueue /\ y = ServerQueue
  OBVIOUS
<1>3. /\ m \in SegmentRec /\ x \in Seq(SegmentRec) /\ y \in Seq(SegmentRec)
      /\ Shipped(x) /\ Shipped(y) /\ NotTwice(x) /\ NotTwice(y) /\ Apart(x, y)
  BY <1>1, <1>2, QueuesAreSequences DEF ReportersInv
<1>4. Fresh(m, x) /\ Fresh(m, y)
  BY <1>1, <1>2, <1>3, NotSentIsFresh
<1>5. /\ caller_wire' = caller_wire /\ caller_backlog' = Append(caller_backlog, m)
      /\ caller_wire \in Seq(SegmentRec) /\ caller_backlog \in Seq(SegmentRec)
  BY <1>2 DEF CallerReporter!Accept, ReportersInv
<1>6. CallerQueue' = Append(x, m)
  <2>1. caller_backlog' = caller_backlog \o <<m>> /\ <<m>> \in Seq(SegmentRec)
    BY <1>3, <1>5, AppendIsConcat
  <2>2. CallerQueue' = caller_wire \o (caller_backlog \o <<m>>)
    BY <1>5, <2>1 DEF CallerQueue
  <2>3. (caller_wire \o caller_backlog) \o <<m>>
          = caller_wire \o (caller_backlog \o <<m>>)
    BY <1>5, <2>1, ConcatAssociative
  <2>4. Append(x, m) = x \o <<m>>
    BY <1>3, AppendIsConcat
  <2> QED
    BY <1>2, <2>2, <2>3, <2>4 DEF CallerQueue
<1>7. ServerQueue' = y /\ UNCHANGED <<server_wire, server_backlog>>
  BY <1>2 DEF serverVars, ServerQueue
<1>8. /\ NotTwice(Append(x, m)) /\ Apart(Append(x, m), y)
      /\ Shipped(Append(x, m))' /\ Shipped(y)'
  <2>1. Shipped(Append(x, m))'
    BY <1>1, <1>2, <1>3, AppendShipped
  <2>2. Apart(Append(x, m), y)
    BY <1>3, <1>4, AppendFresh DEF Apart, Fresh
  <2> QED
    BY <1>1, <1>3, <1>4, <2>1, <2>2, AppendFresh, ShippedPersists
<1>9. PICK a : a = Append(x, m)
  OBVIOUS
<1>10. Shipped(CallerQueue)' /\ Shipped(ServerQueue)'
  BY <1>6, <1>7, <1>8, <1>9 DEF Shipped
<1>11. NotTwice(CallerQueue)' /\ NotTwice(ServerQueue)'
       /\ Apart(CallerQueue, ServerQueue)'
  BY <1>3, <1>6, <1>7, <1>8, <1>9 DEF NotTwice, Apart
<1>12. caller_backlog' \in Seq(SegmentRec)
  BY <1>3, <1>5, AppendProperties
<1> QED
  BY <1>5, <1>7, <1>10, <1>11, <1>12 DEF ReportersInv

LEMMA ServerGrows ==
  ASSUME RaiiInv, ReportersInv, NEW c, Report(c), UNCHANGED scopes,
         ServerReporter!Accept(SegmentObject(contexts[c])), UNCHANGED callerVars
  PROVE  ReportersInv'
<1>1. /\ TracingInv /\ Persist /\ c \in Contexts /\ c \in Contexts'
      /\ ~contexts[c].sent /\ contexts'[c].sent
      /\ SegmentObject(contexts[c]) \in SegmentRec
      /\ SegmentObject(contexts'[c]) = SegmentObject(contexts[c])
  BY ReportTouches DEF RaiiInv, TouchesOnly
<1>2. PICK m, x, y : /\ m = SegmentObject(contexts[c])
                     /\ x = CallerQueue /\ y = ServerQueue
  OBVIOUS
<1>3. /\ m \in SegmentRec /\ x \in Seq(SegmentRec) /\ y \in Seq(SegmentRec)
      /\ Shipped(x) /\ Shipped(y) /\ NotTwice(x) /\ NotTwice(y) /\ Apart(x, y)
  BY <1>1, <1>2, QueuesAreSequences DEF ReportersInv
<1>4. Fresh(m, x) /\ Fresh(m, y)
  BY <1>1, <1>2, <1>3, NotSentIsFresh
<1>5. /\ server_wire' = server_wire /\ server_backlog' = Append(server_backlog, m)
      /\ server_wire \in Seq(SegmentRec) /\ server_backlog \in Seq(SegmentRec)
  BY <1>2 DEF ServerReporter!Accept, ReportersInv
<1>6. ServerQueue' = Append(y, m)
  <2>1. server_backlog' = server_backlog \o <<m>> /\ <<m>> \in Seq(SegmentRec)
    BY <1>3, <1>5, AppendIsConcat
  <2>2. ServerQueue' = server_wire \o (server_backlog \o <<m>>)
    BY <1>5, <2>1 DEF ServerQueue
  <2>3. (server_wire \o server_backlog) \o <<m>>
          = server_wire \o (server_backlog \o <<m>>)
    BY <1>5, <2>1, ConcatAssociative
  <2>4. Append(y, m) = y \o <<m>>
    BY <1>3, AppendIsConcat
  <2> QED
    BY <1>2, <2>2, <2>3, <2>4 DEF ServerQueue
<1>7. CallerQueue' = x /\ UNCHANGED <<caller_wire, caller_backlog>>
  BY <1>2 DEF callerVars, CallerQueue
<1>8. /\ NotTwice(Append(y, m)) /\ Apart(x, Append(y, m))
      /\ Shipped(Append(y, m))' /\ Shipped(x)'
  <2>1. Shipped(Append(y, m))'
    BY <1>1, <1>2, <1>3, AppendShipped
  <2>2. Apart(x, Append(y, m))
    BY <1>3, <1>4, AppendFresh DEF Apart, Fresh
  <2> QED
    BY <1>1, <1>3, <1>4, <2>1, <2>2, AppendFresh, ShippedPersists
<1>9. PICK b : b = Append(y, m)
  OBVIOUS
<1>10. Shipped(CallerQueue)' /\ Shipped(ServerQueue)'
  BY <1>6, <1>7, <1>8, <1>9 DEF Shipped
<1>11. NotTwice(CallerQueue)' /\ NotTwice(ServerQueue)'
       /\ Apart(CallerQueue, ServerQueue)'
  BY <1>3, <1>6, <1>7, <1>8, <1>9 DEF NotTwice, Apart
<1>12. server_backlog' \in Seq(SegmentRec)
  BY <1>3, <1>5, AppendProperties
<1> QED
  BY <1>5, <1>7, <1>10, <1>11, <1>12 DEF ReportersInv

(* What a reporter does by itself: the next segment moves to the wire, or  *)
(* the end of the backlog is given up.                                     *)
LEMMA MovedToWire ==
  ASSUME NEW wire \in Seq(SegmentRec), NEW backlog \in Seq(SegmentRec),
         backlog # <<>>
  PROVE  /\ Append(wire, Head(backlog)) \in Seq(SegmentRec)
         /\ Tail(backlog) \in Seq(SegmentRec)
         /\ Append(wire, Head(backlog)) \o Tail(backlog) = wire \o backlog
<1>1. /\ Head(backlog) \in SegmentRec /\ Tail(backlog) \in Seq(SegmentRec)
      /\ <<Head(backlog)>> \in Seq(SegmentRec)
      /\ backlog = <<Head(backlog)>> \o Tail(backlog)
  BY HeadTailProperties
<1>2. Append(wire, Head(backlog)) = wire \o <<Head(backlog)>>
  BY <1>1, AppendIsConcat
<1>3. (wire \o <<Head(backlog)>>) \o Tail(backlog)
        = wire \o (<<Head(backlog)>> \o Tail(backlog))
  BY <1>1, ConcatAssociative
<1> QED
  BY <1>1, <1>2, <1>3, AppendProperties

LEMMA GivenUp ==
  ASSUME NEW wire \in Seq(SegmentRec), NEW backlog \in Seq(SegmentRec),
         NEW n \in {0, 1}, n <= Len(backlog)
  PROVE  /\ SubSeq(backlog, 1, n) \in Seq(SegmentRec)
         /\ Shorter(wire \o SubSeq(backlog, 1, n), wire \o backlog)
<1> DEFINE kept == SubSeq(backlog, 1, n)
<1>1. /\ kept \in Seq(SegmentRec) /\ Len(kept) = n
      /\ \A k \in 1..n : kept[k] = backlog[k]
  <2>1. \A k \in 1..n : backlog[k] \in SegmentRec
    OBVIOUS
  <2>2. /\ kept \in Seq(SegmentRec)
        /\ Len(kept) = (IF 1 <= n THEN n - 1 + 1 ELSE 0)
        /\ \A k \in 1..(n - 1 + 1) : kept[k] = backlog[1 + k - 1]
    BY <2>1, SubSeqProperties
  <2> HIDE DEF kept
  <2>3. /\ n - 1 + 1 = n /\ (~(1 <= n) => n = 0)
        /\ \A k \in 1..n : 1 + k - 1 = k
    <3>1. n \in Nat
      OBVIOUS
    <3> QED
      BY <3>1
  <2> QED
    BY <2>2, <2>3
<1> HIDE DEF kept
<1>2. /\ wire \o kept \in Seq(SegmentRec) /\ Len(wire \o kept) = Len(wire) + n
      /\ Len(wire \o backlog) = Len(wire) + Len(backlog)
      /\ Len(wire) \in Nat /\ Len(backlog) \in Nat
      /\ \A k \in 1..(Len(wire) + n) :
           (wire \o kept)[k] = IF k <= Len(wire) THEN wire[k]
                               ELSE kept[k - Len(wire)]
      /\ \A k \in 1..(Len(wire) + Len(backlog)) :
           (wire \o backlog)[k] = IF k <= Len(wire) THEN wire[k]
                                  ELSE backlog[k - Len(wire)]
  BY <1>1, ConcatProperties
<1>3. \A k \in 1..(Len(wire) + n) : (wire \o kept)[k] = (wire \o backlog)[k]
  <2> TAKE k \in 1..(Len(wire) + n)
  <2>1. k \in 1..(Len(wire) + Len(backlog))
        /\ (k <= Len(wire) \/ k - Len(wire) \in 1..n)
    BY <1>2
  <2> QED
    BY <1>1, <1>2, <2>1
<1> QED
  BY <1>1, <1>2, <1>3 DEF Shorter, kept

LEMMA CallerWorks ==
  ASSUME ReportersInv, Persist, UNCHANGED serverVars,
         \/ CallerReporter!Transmit \/ CallerReporter!Acknowledge
         \/ CallerReporter!Lose \/ CallerReporter!Refuse \/ CallerReporter!Close
  PROVE  ReportersInv'
<1>1. UNCHANGED <<server_wire, server_backlog>>
  BY DEF serverVars
<1>2. ASSUME UNCHANGED <<caller_wire, caller_backlog>> PROVE ReportersInv'
  BY <1>1, <1>2, ReportersKept
<1>3. ServerQueue' = ServerQueue
      /\ caller_wire \in Seq(SegmentRec) /\ caller_backlog \in Seq(SegmentRec)
      /\ server_wire \in Seq(SegmentRec) /\ server_backlog \in Seq(SegmentRec)
  BY <1>1 DEF ServerQueue, ReportersInv
<1>4. CASE CallerReporter!Transmit
  <2>1. /\ caller_wire' = Append(caller_wire, Head(caller_backlog))
        /\ caller_backlog' = Tail(caller_backlog) /\ caller_backlog # <<>>
    BY <1>4 DEF CallerReporter!Transmit
  <2>2. /\ caller_wire' \in Seq(SegmentRec) /\ caller_backlog' \in Seq(SegmentRec)
        /\ CallerQueue' = CallerQueue
    BY <1>3, <2>1, MovedToWire DEF CallerQueue
  <2> QED
    BY <1>1, <1>3, <2>2, QueuesAreSequences, SameIsShorter, ReportersShrink
<1>5. CASE CallerReporter!Close
  <2>1. PICK n \in {0, 1} : /\ n <= Len(caller_backlog)
                            /\ caller_backlog' = SubSeq(caller_backlog, 1, n)
    BY <1>5 DEF CallerReporter!Close
  <2>2. caller_wire' = caller_wire
    BY <1>5 DEF CallerReporter!Close
  <2>3. caller_backlog' \in Seq(SegmentRec) /\ Shorter(CallerQueue', CallerQueue)
    BY <1>3, <2>1, <2>2, GivenUp DEF CallerQueue
  <2> QED
    BY <1>1, <1>3, <2>2, <2>3, QueuesAreSequences, SameIsShorter, ReportersShrink
<1>6. CASE \/ CallerReporter!Acknowledge \/ CallerReporter!Lose
           \/ CallerReporter!Refuse
  BY <1>2, <1>6 DEF CallerReporter!Acknowledge, CallerReporter!Lose,
                    CallerReporter!Refuse
<1> QED
  BY <1>4, <1>5, <1>6

LEMMA ServerWorks ==
  ASSUME ReportersInv, Persist, UNCHANGED callerVars,
         \/ ServerReporter!Transmit \/ ServerReporter!Acknowledge
         \/ ServerReporter!Lose \/ ServerReporter!Refuse
  PROVE  ReportersInv'
<1>1. UNCHANGED <<caller_wire, caller_backlog>>
  BY DEF callerVars
<1>2. CASE ServerReporter!Transmit
  <2>1. /\ server_wire' = Append(server_wire, Head(server_backlog))
        /\ server_backlog' = Tail(server_backlog) /\ server_backlog # <<>>
    BY <1>2 DEF ServerReporter!Transmit
  <2>2. CallerQueue' = CallerQueue
        /\ caller_wire \in Seq(SegmentRec) /\ caller_backlog \in Seq(SegmentRec)
        /\ server_wire \in Seq(SegmentRec) /\ server_backlog \in Seq(SegmentRec)
    BY <1>1 DEF CallerQueue, ReportersInv
  <2>3. /\ server_wire' \in Seq(SegmentRec) /\ server_backlog' \in Seq(SegmentRec)
        /\ ServerQueue' = ServerQueue
    BY <2>1, <2>2, MovedToWire DEF ServerQueue
  <2> QED
    BY <1>1, <2>2, <2>3, QueuesAreSequences, SameIsShorter, ReportersShrink
<1>3. CASE \/ ServerReporter!Acknowledge \/ ServerReporter!Lose
           \/ ServerReporter!Refuse
  <2>1. UNCHANGED <<server_wire, server_backlog>>
    BY <1>3 DEF ServerReporter!Acknowledge, ServerReporter!Lose,
                ServerReporter!Refuse
  <2> QED
    BY <1>1, <2>1, ReportersKept
<1> QED
  BY <1>2, <1>3

-----------------------------------------------------------------------------
(* The steps of a ping.                                                    *)

LEMMA ContextsHeld ==
  ASSUME PingsInv, HandlersInv
  PROVE  /\ \A p \in Pings : \/ pings[p].pc = "context" /\ pings[p].ctx = NoContext
                             \/ pings[p].ctx \in Contexts
         /\ \A r \in Requests : \/ handlers[r].ctx = NoContext
                                \/ handlers[r].ctx \in Contexts
         /\ NoContext \notin Contexts
<1>1. \A p \in Pings : \/ pings[p].pc = "context" /\ pings[p].ctx = NoContext
                       \/ pings[p].ctx \in Contexts
  <2> HIDE DEF Created, Inside
  <2> QED
    BY DEF PingsInv, PingInv
<1>2. \A r \in Requests : \/ handlers[r].ctx = NoContext
                          \/ handlers[r].ctx \in Contexts
  BY DEF HandlersInv, HandlerInv, Continues
<1>3. NoContext \notin Contexts
  BY DEF NoContext, Contexts
<1> QED
  BY <1>1, <1>2, <1>3

(* The reporters have their variables for themselves.                      *)
LEMMA TracingOnly ==
  ASSUME SamplesInv, RaiiInv', PingsInv', HandlersInv', OwnContexts', Persist,
         UNCHANGED <<callerVars, serverVars>>
  PROVE  SamplesInv'
<1>1. UNCHANGED <<caller_wire, caller_backlog, server_wire, server_backlog>>
  BY DEF callerVars, serverVars
<1> QED
  BY <1>1, ReportersKept DEF SamplesInv

LEMMA PingContextInv ==
  ASSUME SamplesInv, NEW p \in Pings, PingContext(p)
  PROVE  SamplesInv'
<1>1. /\ RaiiInv /\ PingsInv /\ HandlersInv /\ OwnContexts /\ TracingInv
      /\ Caller \in Tracers
  BY SamplesAssumption DEF SamplesInv, RaiiInv
<1>2. NewContext(Caller) /\ UNCHANGED scopes /\ Len(contexts) < MaxContexts
  BY DEF PingContext, NewContext
<1>3. PICK ctx : Arrives(ctx)
  BY <1>1, <1>2, NewContextArrives
<1>4. PICK n : n = Len(contexts) + 1
  OBVIOUS
<1>5. /\ RaiiInv' /\ TouchesOnly(n) /\ n \in Contexts' /\ n \notin Contexts
      /\ contexts'[n] = ctx /\ scopes'[n] = <<>> /\ ctx.spans = <<>>
  BY <1>1, <1>2, <1>3, <1>4, ContextArrives, ArrivalTouches DEF Arrives
<1>6. TracingInv' /\ n \in Nat \ {0} /\ Persist
  BY <1>5 DEF RaiiInv, Contexts, TouchesOnly
<1>7. /\ pings[p].pc = "context" /\ handlers' = handlers
      /\ pings' = [pings EXCEPT ![p] = [pc |-> "entry", ctx |-> n]]
      /\ UNCHANGED <<callerVars, serverVars>>
  BY <1>4 DEF PingContext
<1>8. /\ pings \in [Pings -> [pc : PingPlaces, ctx : Nat]]
      /\ pings'[p].pc = "entry" /\ pings'[p].ctx = n
      /\ \A q \in Pings : q # p => pings'[q] = pings[q]
      /\ pings' \in [Pings -> [pc : PingPlaces, ctx : Nat]]
  BY <1>1, <1>6, <1>7 DEF PingsInv, PingPlaces
<1>9. PingsInv'
  <2>1. PingInv(pings[p])'
    BY <1>5, <1>8, EmptySeq DEF PingInv, Created, Inside
  <2>2. ASSUME NEW q \in Pings, q # p PROVE PingInv(pings[q])'
    <3>1. pings[q].pc = "context" \/ pings[q].ctx # n
      BY <1>1, <1>5, ContextsHeld
    <3> QED
      BY <1>1, <1>5, <1>8, <2>2, <3>1, PingKept DEF PingsInv
  <2> QED
    BY <1>8, <2>1, <2>2 DEF PingsInv
<1>10. HandlersInv'
  <2>1. \A q \in Pings : pings'[q].ctx = pings[q].ctx
                         \/ pings[q].ctx \notin Contexts
    BY <1>1, <1>7, <1>8, ContextsHeld DEF PingsInv, PingInv
  <2>2. \A r \in Requests : handlers[r].ctx = NoContext \/ handlers[r].ctx # n
    BY <1>1, <1>5, ContextsHeld
  <2> QED
    BY <1>1, <1>5, <1>6, <1>7, <2>1, <2>2, HandlersKept
<1>11. OwnContexts'
  <2>1. /\ \A q \in Pings : pings[q].ctx # n
        /\ \A r \in Requests : handlers[r].ctx # n
        /\ n # NoContext
    BY <1>1, <1>5, <1>6, ContextsHeld DEF NoContext
  <2> QED
    BY <1>1, <1>7, <1>8, <2>1 DEF OwnContexts, NoContext
<1> QED
  BY <1>5, <1>6, <1>7, <1>9, <1>10, <1>11, TracingOnly

(* What StartEntrySpan and StartExitSpan do, whoever calls them.           *)
LEMMA EntrySpanOpens ==
  ASSUME RaiiInv, NEW c, NEW name \in OperationNames, StartEntrySpan(c, name)
  PROVE  /\ RaiiInv' /\ TouchesOnly(c)
         /\ contexts[c].spans = <<>> /\ Len(contexts[c].spans) = 0
         /\ Len(contexts'[c].spans) = 1
         /\ contexts[c].parent # NoParent =>
              contexts[c].parent \in contexts'[c].spans[1].refs
         /\ contexts'[c].sent = contexts[c].sent
         /\ Len(scopes'[c]) = Len(scopes[c]) + 1
<1> DEFINE refs == IF contexts[c].parent = NoParent
                   THEN {} ELSE {contexts[c].parent}
           created == Span(contexts[c], -1, "Entry", refs)
           span == [created EXCEPT !.name = name]
<1>1. c \in Contexts /\ ~contexts[c].sent /\ contexts[c].spans = <<>>
      /\ contexts[c] \in ContextRec
  BY ContextType DEF StartEntrySpan, Open, RaiiInv, TracingInv
<1>2. Len(contexts[c].spans) = 0
  BY <1>1, EmptySeq
<1>3. refs \in SUBSET SpanContextRec
  BY <1>1 DEF ContextRec
<1>4. /\ OpenScope(c, span)
      /\ contexts[c].parent # NoParent => contexts[c].parent \in refs
  BY DEF StartEntrySpan
<1> HIDE DEF refs
<1>5. created \in SpanRec /\ created.refs = refs
  BY <1>1, <1>2, <1>3 DEF Span, SpanRec, ContextRec, Names
<1> HIDE DEF created
<1>6. span \in SpanRec /\ span.refs = refs
  BY <1>5 DEF SpanRec, Names
<1> HIDE DEF span
<1>7. /\ TouchesOnly(c)
      /\ Len(contexts'[c].spans) = Len(contexts[c].spans) + 1
      /\ contexts'[c].spans[1] = span
      /\ contexts'[c].sent = contexts[c].sent
      /\ Len(scopes'[c]) = Len(scopes[c]) + 1
  BY <1>1, <1>4, <1>6, OpenTouches
<1>8. RaiiInv'
  BY StartEntrySpanOpens
<1>9. Len(contexts'[c].spans) = 1
  BY <1>2, <1>7
<1> QED
  BY <1>1, <1>2, <1>4, <1>6, <1>7, <1>8, <1>9

LEMMA ExitSpanOpens ==
  ASSUME RaiiInv, NEW c, NEW i, NEW name \in OperationNames,
         StartExitSpan(c, i, name)
  PROVE  /\ RaiiInv' /\ TouchesOnly(c)
         /\ Len(contexts'[c].spans) = Len(contexts[c].spans) + 1
         /\ Len(scopes'[c]) = Len(scopes[c]) + 1
<1> DEFINE n == Len(contexts[c].spans)
           created == Span(contexts[c], contexts[c].spans[i].id, "Exit", {})
           span == [created EXCEPT !.name = name]
<1>1. c \in Contexts /\ ~contexts[c].sent /\ contexts[c] \in ContextRec
      /\ n \in Nat /\ contexts[c].spans \in Seq(SpanRec)
  BY ContextType DEF StartExitSpan, Open, RaiiInv, TracingInv, ContextRec
<1>2. i \in 1..n
  BY DEF StartExitSpan, SpansOf
<1>3. contexts[c].spans[i].id \in Int
  <2>1. contexts[c].spans[i] \in SpanRec
    BY <1>1, <1>2
  <2> QED
    BY <2>1 DEF SpanRec
<1>4. OpenScope(c, span)
  BY DEF StartExitSpan
<1>5. span \in SpanRec
  BY <1>1, <1>3 DEF Span, SpanRec, ContextRec, Names, NoName
<1> HIDE DEF span
<1> QED
  BY <1>1, <1>4, <1>5, OpenTouches, StartExitSpanOpens

LEMMA PingEntrySpanInv ==
  ASSUME SamplesInv, NEW p \in Pings, PingEntrySpan(p)
  PROVE  SamplesInv'
<1>1. /\ RaiiInv /\ PingsInv /\ Op1 \in OperationNames
      /\ pings[p].pc = "entry" /\ Ping(p, "entry", "exit")
      /\ StartEntrySpan(pings[p].ctx, Op1) /\ UNCHANGED handlers
      /\ UNCHANGED <<callerVars, serverVars>>
  BY SamplesAssumption DEF SamplesInv, PingEntrySpan, Ping
<1>2. Len(scopes[pings[p].ctx]) = 0
  BY <1>1, PingHasContext DEF Inside
<1>3. /\ RaiiInv' /\ TouchesOnly(pings[p].ctx)
      /\ Len(contexts'[pings[p].ctx].spans) = 1
      /\ Len(scopes'[pings[p].ctx]) = Len(scopes[pings[p].ctx]) + 1
  BY <1>1, EntrySpanOpens
<1>4. /\ Len(contexts'[pings[p].ctx].spans) = Created("exit")
      /\ Len(scopes'[pings[p].ctx]) = Inside("exit")
      /\ "exit" \in PingPlaces \ {"context"}
  BY <1>2, <1>3 DEF Created, Inside, PingPlaces
<1>5. PingsInv' /\ HandlersInv' /\ OwnContexts'
  BY <1>1, <1>2, <1>3, <1>4, PingMoves
<1> QED
  BY <1>1, <1>3, <1>5, TracingOnly DEF TouchesOnly

LEMMA PingExitSpanInv ==
  ASSUME SamplesInv, NEW p \in Pings, PingExitSpan(p)
  PROVE  SamplesInv'
<1>1. /\ RaiiInv /\ PingsInv /\ Op2 \in OperationNames
      /\ pings[p].pc = "exit" /\ Ping(p, "exit", "call")
      /\ StartExitSpan(pings[p].ctx, 1, Op2) /\ UNCHANGED handlers
      /\ UNCHANGED <<callerVars, serverVars>>
  BY SamplesAssumption DEF SamplesInv, PingExitSpan, Ping
<1>2. Len(contexts[pings[p].ctx].spans) = 1 /\ Len(scopes[pings[p].ctx]) = 1
  BY <1>1, PingHasContext DEF Created, Inside
<1>3. /\ RaiiInv' /\ TouchesOnly(pings[p].ctx)
      /\ Len(contexts'[pings[p].ctx].spans)
           = Len(contexts[pings[p].ctx].spans) + 1
      /\ Len(scopes'[pings[p].ctx]) = Len(scopes[pings[p].ctx]) + 1
  BY <1>1, ExitSpanOpens
<1>4. /\ Len(contexts'[pings[p].ctx].spans) = Created("call")
      /\ Len(scopes'[pings[p].ctx]) = Inside("call")
      /\ "call" \in PingPlaces \ {"context"}
  BY <1>2, <1>3 DEF Created, Inside, PingPlaces
<1>5. PingsInv' /\ HandlersInv' /\ OwnContexts'
  BY <1>1, <1>2, <1>3, <1>4, PingMoves
<1> QED
  BY <1>1, <1>3, <1>5, TracingOnly DEF TouchesOnly

LEMMA PingReturnInv ==
  ASSUME SamplesInv, NEW p \in Pings, PingReturn(p)
  PROVE  SamplesInv'
<1>1. /\ RaiiInv /\ PingsInv /\ TracingInv
      /\ pings[p].pc = "wait" /\ Ping(p, "wait", "leave exit")
      /\ UNCHANGED <<contexts, scopes, headers>> /\ UNCHANGED handlers
      /\ UNCHANGED <<callerVars, serverVars>> /\ UNCHANGED raiiVars
  BY DEF SamplesInv, RaiiInv, PingReturn, Ping, raiiVars, vars
<1>2. Len(contexts[pings[p].ctx].spans) = 2 /\ Len(scopes[pings[p].ctx]) = 2
  BY <1>1, PingHasContext DEF Created, Inside
<1>3. RaiiInv' /\ TouchesOnly(pings[p].ctx)
  BY <1>1, RaiiStutters, NothingTouched
<1>4. Created("leave exit") = 2 /\ Inside("leave exit") = 2
      /\ "leave exit" \in PingPlaces \ {"context"}
  BY DEF Created, Inside, PingPlaces
<1>5. PingsInv' /\ HandlersInv' /\ OwnContexts'
  BY <1>1, <1>2, <1>3, <1>4, PingMoves
<1> QED
  BY <1>1, <1>3, <1>5, TracingOnly DEF TouchesOnly

(* A scope object is left.                                                 *)
LEMMA PingLeaves ==
  ASSUME SamplesInv, NEW p \in Pings, pings[p].pc # "context",
         NEW to \in PingPlaces \ {"context", "done"},
         Ping(p, pings[p].pc, to), CloseScope(pings[p].ctx),
         Created(to) = Created(pings[p].pc),
         Inside(to) = Inside(pings[p].pc) - 1,
         UNCHANGED <<handlers, callerVars, serverVars>>
  PROVE  SamplesInv'
<1>1. /\ RaiiInv /\ PingsInv /\ UNCHANGED handlers
      /\ UNCHANGED <<callerVars, serverVars>>
  BY DEF SamplesInv
<1>2. /\ pings[p].ctx \in Contexts
      /\ Len(contexts[pings[p].ctx].spans) = Created(pings[p].pc)
      /\ Len(scopes[pings[p].ctx]) = Inside(pings[p].pc)
  BY <1>1, PingHasContext
<1>3. RaiiInv'
  BY <1>1, <1>2, ScopeCloses
<1>4. /\ TouchesOnly(pings[p].ctx)
      /\ Len(contexts'[pings[p].ctx].spans) = Len(contexts[pings[p].ctx].spans)
      /\ Len(scopes'[pings[p].ctx]) = Len(scopes[pings[p].ctx]) - 1
  BY <1>1, <1>2, CloseTouches
<1>5. /\ Len(contexts'[pings[p].ctx].spans) = Created(to)
      /\ Len(scopes'[pings[p].ctx]) = Inside(to)
      /\ to \in PingPlaces \ {"context"} /\ to # "done"
  BY <1>2, <1>4
<1>6. PingsInv' /\ HandlersInv' /\ OwnContexts'
  BY <1>1, <1>3, <1>4, <1>5, PingMoves
<1> QED
  BY <1>1, <1>3, <1>4, <1>6, TracingOnly DEF TouchesOnly

LEMMA PingLeaveExitSpanInv ==
  ASSUME SamplesInv, NEW p \in Pings, PingLeaveExitSpan(p)
  PROVE  SamplesInv'
<1>1. /\ pings[p].pc = "leave exit" /\ Ping(p, "leave exit", "leave entry")
      /\ CloseScope(pings[p].ctx)
      /\ UNCHANGED <<handlers, callerVars, serverVars>>
  BY DEF PingLeaveExitSpan, Ping
<1>2. /\ Created("leave entry") = Created("leave exit")
      /\ Inside("leave entry") = Inside("leave exit") - 1
      /\ "leave entry" \in PingPlaces \ {"context", "done"}
  BY DEF Created, Inside, PingPlaces
<1> QED
  BY <1>1, <1>2, PingLeaves

LEMMA PingLeaveEntrySpanInv ==
  ASSUME SamplesInv, NEW p \in Pings, PingLeaveEntrySpan(p)
  PROVE  SamplesInv'
<1>1. /\ pings[p].pc = "leave entry" /\ Ping(p, "leave entry", "report")
      /\ CloseScope(pings[p].ctx)
      /\ UNCHANGED <<handlers, callerVars, serverVars>>
  BY DEF PingLeaveEntrySpan, Ping
<1>2. /\ Created("report") = Created("leave entry")
      /\ Inside("report") = Inside("leave entry") - 1
      /\ "report" \in PingPlaces \ {"context", "done"}
  BY DEF Created, Inside, PingPlaces
<1> QED
  BY <1>1, <1>2, PingLeaves

(* The request carries a header of the ping's exit span, its second span.  *)
LEMMA HeaderFromPing ==
  ASSUME SamplesInv, NEW p \in Pings, pings[p].pc = "call",
         CreateSW8HeaderValue(pings[p].ctx, Target),
         NEW h, h = EncodeSpan(contexts[pings[p].ctx],
                               LastSpan(pings[p].ctx), Target)
  PROVE  /\ headers' = headers \cup {h}
         /\ pings[p].ctx \in Contexts
         /\ SpanContext(h).traceId = contexts[pings[p].ctx].trace
         /\ SpanContext(h).traceSegmentId = contexts[pings[p].ctx].segment
         /\ SpanContext(h).spanId = 1
<1>1. /\ pings[p].ctx \in Contexts
      /\ Len(contexts[pings[p].ctx].spans) = 2
  BY PingHasContext DEF SamplesInv, Created
<1>2. headers' = headers \cup {h}
  BY DEF CreateSW8HeaderValue, LastSpan
<1>3. LastSpan(pings[p].ctx).id = 1
  <2>1. WellFormed(contexts[pings[p].ctx])
    BY <1>1 DEF SamplesInv, RaiiInv, TracingInv, AllWellFormed
  <2>2. InTree(contexts[pings[p].ctx], 2)
    BY <1>1, <2>1 DEF WellFormed
  <2>3. contexts[pings[p].ctx].spans[2].id = 2 - 1
    BY <2>2 DEF InTree
  <2>4. LastSpan(pings[p].ctx) = contexts[pings[p].ctx].spans[2]
    BY <1>1 DEF LastSpan
  <2> QED
    BY <2>3, <2>4
<1> QED
  BY <1>1, <1>2, <1>3, HeaderReadsBack

LEMMA PingCallInv ==
  ASSUME SamplesInv, NEW p \in Pings, PingCall(p)
  PROVE  SamplesInv'
<1>1. PICK c, h : /\ c = pings[p].ctx
                  /\ h = EncodeSpan(contexts[c], LastSpan(c), Target)
  OBVIOUS
<1>2. /\ pings[p].pc = "call" /\ Ping(p, "call", "wait")
      /\ CreateSW8HeaderValue(c, Target) /\ handlers' = Requested(p, h)
      /\ UNCHANGED scopes /\ UNCHANGED <<callerVars, serverVars>>
  BY <1>1 DEF PingCall, Ping
<1>3. /\ RaiiInv /\ PingsInv /\ HandlersInv /\ OwnContexts /\ TracingInv
      /\ Target \in Targets
  BY SamplesAssumption DEF SamplesInv, RaiiInv
<1>4. /\ c \in Contexts /\ headers' = headers \cup {h}
      /\ SpanContext(h).traceId = contexts[c].trace
      /\ SpanContext(h).traceSegmentId = contexts[c].segment
      /\ SpanContext(h).spanId = 1
  BY <1>1, <1>2, HeaderFromPing
<1>5. /\ Len(contexts[c].spans) = Created("call") /\ Len(scopes[c]) = Inside("call")
  BY <1>1, <1>2, <1>3, PingHasContext
<1>6. UNCHANGED contexts
  BY <1>2 DEF CreateSW8HeaderValue
<1>7. RaiiInv' /\ \A d : TouchesOnly(d)
  BY <1>2, <1>3, <1>4, <1>6, HeaderIsMade, NothingTouched
<1>8. TracingInv' /\ Persist
  BY <1>7 DEF RaiiInv, TouchesOnly
<1>9. /\ Len(contexts'[c].spans) = Created("wait")
      /\ Len(scopes'[c]) = Inside("wait")
      /\ "wait" \in PingPlaces \ {"context"}
  BY <1>2, <1>5, <1>6 DEF Created, Inside, PingPlaces
<1>10. PingsInv' /\ \A q \in Pings : pings'[q].ctx = pings[q].ctx
  BY <1>1, <1>2, <1>7, <1>9, PingMoves
<1>11. /\ handlers \in [Requests -> [ pc : HandlerPlaces, ctx : Nat,
                                      header : headers \cup {NoHeader} ]]
       /\ \A r \in Requests : r # p => handlers'[r] = handlers[r]
       /\ handlers'[p] = IF handlers[p].pc = "undefined" THEN handlers[p]
                         ELSE [pc |-> "request", ctx |-> NoContext, header |-> h]
       /\ p \in Requests
  <2>1. p \in Requests
    BY SamplesAssumption DEF Pings, Requests
  <2> QED
    BY <1>2, <1>3, <2>1 DEF HandlersInv, Requested
<1>12. handlers' \in [Requests -> [ pc : HandlerPlaces, ctx : Nat,
                                    header : headers' \cup {NoHeader} ]]
  <2>1. [pc |-> "request", ctx |-> NoContext, header |-> h]
          \in [ pc : HandlerPlaces, ctx : Nat, header : headers' \cup {NoHeader} ]
    BY <1>4 DEF HandlerPlaces, NoContext
  <2>2. [ pc : HandlerPlaces, ctx : Nat, header : headers \cup {NoHeader} ]
          \subseteq
        [ pc : HandlerPlaces, ctx : Nat, header : headers' \cup {NoHeader} ]
    BY <1>4
  <2>3. DOMAIN handlers' = Requests /\ handlers' = [r \in Requests |-> handlers'[r]]
    BY <1>2, <1>11 DEF Requested
  <2> QED
    BY <1>11, <2>1, <2>2, <2>3
<1>13. ASSUME NEW r \in Requests, handlers'[r] = handlers[r]
       PROVE  /\ HandlerInv(handlers[r])'
              /\ handlers'[r].header # NoHeader =>
                   r \in Pings /\ FromPing(handlers[r].header, pings[r])'
  <2>1. HandlerInv(handlers[r])'
    <3>1. handlers[r].ctx = NoContext \/ handlers[r].ctx # NoContext
      OBVIOUS
    <3> QED
      BY <1>3, <1>7, <1>8, <1>13, <3>1, HandlerKept DEF HandlersInv
  <2>2. ASSUME handlers'[r].header # NoHeader
        PROVE  r \in Pings /\ FromPing(handlers[r].header, pings[r])'
    <3>1. PICK g : g = handlers[r].header
      OBVIOUS
    <3>2. r \in Pings /\ FromPing(g, pings[r])
      BY <1>3, <1>13, <2>2, <3>1 DEF HandlersInv
    <3>3. FromPing(g, pings[r])'
      BY <1>7, <1>10, <3>2, FromPingKept
    <3> QED
      BY <1>13, <3>1, <3>2, <3>3 DEF FromPing, SpanContext,
                                     DecodeWithoutPadding, SimpleAtoi
  <2> QED
    BY <2>1, <2>2
<1>14. ASSUME handlers'[p] = [pc |-> "request", ctx |-> NoContext, header |-> h]
       PROVE  /\ HandlerInv(handlers[p])'
              /\ p \in Pings /\ FromPing(handlers[p].header, pings[p])'
  <2>1. HandlerInv(handlers[p])'
    BY <1>14 DEF HandlerInv, NoContext
  <2>2. /\ pings'[p].ctx = c /\ c \in Contexts' /\ h \in headers'
        /\ contexts'[c].trace = contexts[c].trace
        /\ contexts'[c].segment = contexts[c].segment
    BY <1>1, <1>4, <1>6, <1>10 DEF Contexts
  <2>3. FromPing(h, pings[p])'
    BY <1>4, <2>2, SameSpanContext DEF FromPing
  <2> QED
    BY <1>14, <2>1, <2>3 DEF FromPing, SpanContext, DecodeWithoutPadding,
                             SimpleAtoi
<1>15. HandlersInv'
  <2>1. \A r \in Requests :
          /\ HandlerInv(handlers[r])'
          /\ handlers'[r].header # NoHeader =>
               r \in Pings /\ FromPing(handlers[r].header, pings[r])'
    BY <1>11, <1>13, <1>14
  <2> QED
    BY <1>12, <2>1 DEF HandlersInv, NoHeader, FromPing, SpanContext,
                       DecodeWithoutPadding, SimpleAtoi
<1>16. OwnContexts'
  <2>1. \A r \in Requests : handlers'[r].ctx = handlers[r].ctx
                            \/ handlers'[r].ctx = NoContext
    BY <1>11
  <2> QED
    BY <1>3, <1>10, <2>1 DEF OwnContexts, NoContext
<1> QED
  BY <1>2, <1>7, <1>8, <1>10, <1>15, <1>16, TracingOnly

(* A segment without scopes and with a first span of a name that is not    *)
(* ignored is always taken: report has no other reason to return false.    *)
LEMMA NoScopeIsReady ==
  ASSUME RaiiInv, NEW c \in Contexts, Len(scopes[c]) = 0
  PROVE  ReadyToSend(contexts[c])
<1>1. /\ contexts[c] \in ContextRec /\ ScopesMatch(contexts[c], scopes[c])
  BY ContextIsNumber DEF RaiiInv, ScopeInv
<1>2. scopes[c] = <<>>
  BY <1>1, EmptySeq DEF ScopesMatch
<1> QED
  BY <1>1, <1>2, ReadyHasNoScope

LEMMA PingReportInv ==
  ASSUME SamplesInv, NEW p \in Pings, PingReport(p)
  PROVE  SamplesInv'
<1>1. PICK c : c = pings[p].ctx
  OBVIOUS
<1>2. /\ RaiiInv /\ PingsInv /\ ReportersInv
      /\ pings[p].pc = "report" /\ Ping(p, "report", "done")
      /\ UNCHANGED scopes /\ UNCHANGED handlers /\ UNCHANGED serverVars
  BY DEF SamplesInv, PingReport, Ping
<1>3. /\ c \in Contexts /\ Len(contexts[c].spans) = 2 /\ Len(scopes[c]) = 0
  BY <1>1, <1>2, PingHasContext DEF Created, Inside
<1>4. /\ Report(c)
      /\ \/ CallerReporter!Accept(SegmentObject(contexts[c]))
         \/ CallerReporter!Refuse
  <2>1. ReadyToSend(contexts[c]) /\ ~Match(Op1)
    BY <1>2, <1>3, NoScopeIsReady, SamplesAssumption
  <2> QED
    BY <1>1, <2>1 DEF PingReport
<1>5. RaiiInv'
  BY <1>2, <1>4, ContextReported
<1>6. /\ TouchesOnly(c) /\ contexts'[c].sent
      /\ contexts'[c].spans = contexts[c].spans
  BY <1>2, <1>4, ReportTouches
<1>7. /\ Len(contexts'[c].spans) = Created("done")
      /\ Len(scopes'[c]) = Inside("done")
      /\ "done" \in PingPlaces \ {"context"}
  BY <1>2, <1>3, <1>6 DEF Created, Inside, PingPlaces
<1>8. PingsInv' /\ HandlersInv' /\ OwnContexts'
  BY <1>1, <1>2, <1>5, <1>6, <1>7, PingMoves
<1>9. ReportersInv'
  <2>1. CASE CallerReporter!Accept(SegmentObject(contexts[c]))
    BY <1>2, <1>4, <2>1, CallerGrows
  <2>2. CASE CallerReporter!Refuse
    BY <1>2, <1>6, <2>2, CallerWorks DEF TouchesOnly
  <2> QED
    BY <1>4, <2>1, <2>2
<1> QED
  BY <1>5, <1>8, <1>9 DEF SamplesInv

LEMMA PingStepInv ==
  ASSUME SamplesInv, NEW p \in Pings, PingStep(p)
  PROVE  SamplesInv'
BY PingContextInv, PingEntrySpanInv, PingExitSpanInv, PingCallInv,
   PingReturnInv, PingLeaveExitSpanInv, PingLeaveEntrySpanInv, PingReportInv
   DEF PingStep

-----------------------------------------------------------------------------
(* The steps of a handler.                                                 *)

LEMMA HandlerContextInv ==
  ASSUME SamplesInv, NEW r \in Requests, HandlerContext(r)
  PROVE  SamplesInv'
<1>1. PICK h, n : h = handlers[r].header /\ n = Len(contexts) + 1
  OBVIOUS
<1>2. /\ RaiiInv /\ PingsInv /\ HandlersInv /\ OwnContexts /\ TracingInv
      /\ Server \in Tracers
  BY SamplesAssumption DEF SamplesInv, RaiiInv
<1>3. /\ handlers[r].pc = "request" /\ h # NoHeader
      /\ NewContextFrom(Server, h, "Default") /\ Len(contexts) < MaxContexts
      /\ handlers' = [handlers EXCEPT ![r].pc = "entry", ![r].ctx = n]
      /\ UNCHANGED scopes /\ UNCHANGED pings
      /\ UNCHANGED <<callerVars, serverVars>>
  BY <1>1 DEF HandlerContext, NewContextFrom
<1>4. h \in headers
  BY <1>1, <1>2, <1>3 DEF HandlersInv
<1>5. PICK ctx : Arrives(ctx)
  BY <1>2, <1>3, <1>4, NewContextFromArrives
<1>6. /\ RaiiInv' /\ TouchesOnly(n) /\ n \in Contexts' /\ n \notin Contexts
      /\ contexts'[n] = ctx /\ scopes'[n] = <<>> /\ ctx.spans = <<>>
      /\ ~ctx.sent
  BY <1>1, <1>2, <1>3, <1>5, ContextArrives, ArrivalTouches DEF Arrives
<1>7. TracingInv' /\ n \in Nat \ {0} /\ Persist /\ headers \subseteq headers'
  BY <1>6 DEF RaiiInv, Contexts, TouchesOnly
<1>8. ctx.parent = SpanContext(h) /\ ctx.trace = SpanContext(h).traceId
  <2>1. PICK parent, made :
          /\ parent = SpanContext(h)
          /\ made = Context(Server, parent.traceId, uuids + 1, parent, "Default")
    OBVIOUS
  <2>2. contexts' = Append(contexts, made)
    BY <1>3, <2>1 DEF NewContextFrom
  <2>3. contexts \in Seq(ContextRec \cup {made})
    BY <1>2 DEF TracingInv, TracingTypeOK
  <2>4. contexts'[n] = made
    BY <1>1, <2>2, <2>3, AppendProperties
  <2> QED
    BY <1>6, <2>1, <2>4 DEF Context
<1>9. /\ handlers \in [Requests -> [ pc : HandlerPlaces, ctx : Nat,
                                     header : headers \cup {NoHeader} ]]
      /\ handlers'[r].pc = "entry" /\ handlers'[r].ctx = n
      /\ handlers'[r].header = h
      /\ \A s \in Requests : s # r => handlers'[s] = handlers[s]
      /\ handlers' \in [Requests -> [ pc : HandlerPlaces, ctx : Nat,
                                      header : headers' \cup {NoHeader} ]]
  <2>1. handlers \in [Requests -> [ pc : HandlerPlaces, ctx : Nat,
                                    header : headers \cup {NoHeader} ]]
    BY <1>2 DEF HandlersInv
  <2>2. /\ handlers'[r].pc = "entry" /\ handlers'[r].ctx = n
        /\ handlers'[r].header = h
        /\ \A s \in Requests : s # r => handlers'[s] = handlers[s]
    BY <1>1, <1>3, <2>1
  <2>3. handlers' \in [Requests -> [ pc : HandlerPlaces, ctx : Nat,
                                     header : headers \cup {NoHeader} ]]
    BY <1>3, <1>7, <2>1 DEF HandlerPlaces
  <2> QED
    BY <1>7, <2>1, <2>2, <2>3
<1>10. /\ \A q \in Pings : pings[q].pc = "context" \/ pings[q].ctx # n
       /\ \A q \in Pings : pings[q].ctx # n
       /\ \A s \in Requests : handlers[s].ctx # n
       /\ n # NoContext
  BY <1>2, <1>6, <1>7, ContextsHeld DEF NoContext
<1>11. PingsInv'
  BY <1>2, <1>3, <1>6, <1>10, PingsKept
<1>12. OwnContexts'
  BY <1>2, <1>3, <1>9, <1>10 DEF OwnContexts, NoContext
<1>13. ASSUME NEW s \in Requests PROVE HandlerInv(handlers[s])'
  <2>1. CASE s = r
    <3>1. Continues(n, h)'
      BY <1>6, <1>8, SameSpanContext DEF Continues
    <3>2. Continues(handlers[s].ctx, handlers[s].header)'
      BY <1>9, <2>1, <3>1 DEF Continues, SpanContext, DecodeWithoutPadding,
                              SimpleAtoi
    <3> QED
      BY <1>3, <1>6, <1>9, <1>10, <2>1, <3>2
         DEF HandlerInv, NoContext, NoHeader
  <2>2. CASE s # r
    BY <1>2, <1>6, <1>7, <1>9, <1>10, <2>2, HandlerKept DEF HandlersInv
  <2> QED
    BY <2>1, <2>2
<1>14. ASSUME NEW s \in Requests, handlers'[s].header # NoHeader
       PROVE  s \in Pings /\ FromPing(handlers[s].header, pings[s])'
  <2>1. PICK g : g = handlers[s].header
    OBVIOUS
  <2>2. handlers'[s].header = g
    BY <1>1, <1>9, <2>1
  <2>3. s \in Pings /\ FromPing(g, pings[s])
    BY <1>2, <1>14, <2>1, <2>2 DEF HandlersInv
  <2>4. FromPing(g, pings[s])'
    BY <1>3, <1>6, <2>3, FromPingKept
  <2> QED
    BY <2>2, <2>3, <2>4 DEF FromPing, SpanContext, DecodeWithoutPadding,
                            SimpleAtoi
<1>15. HandlersInv'
  BY <1>9, <1>13, <1>14 DEF HandlersInv, NoHeader
<1> QED
  BY <1>3, <1>6, <1>7, <1>11, <1>12, <1>15, TracingOnly

(* Nothing of the tracing library changes, and a handler stays without     *)
(* context or stops for good.                                              *)
LEMMA HandlersIdle ==
  ASSUME SamplesInv, UNCHANGED <<raiiVars, pings, callerVars, serverVars>>,
         NEW new \in [Requests -> HandlerPlaces],
         handlers' = [r \in Requests |-> [handlers[r] EXCEPT !.pc = new[r]]],
         \A r \in Requests :
           \/ new[r] = handlers[r].pc \/ new[r] = "undefined"
           \/ new[r] \in {"entry", "failed"} /\ handlers[r].ctx = NoContext
  PROVE  SamplesInv'
<1>1. /\ RaiiInv /\ PingsInv /\ HandlersInv /\ OwnContexts /\ TracingInv
      /\ UNCHANGED <<contexts, scopes, headers>> /\ UNCHANGED pings
      /\ UNCHANGED <<callerVars, serverVars>> /\ UNCHANGED raiiVars
  BY DEF SamplesInv, RaiiInv, raiiVars, vars
<1>2. RaiiInv' /\ TouchesOnly(NoContext) /\ TouchesOnly(-1)
  BY <1>1, RaiiStutters, NothingTouched
<1>3. PingsInv'
  <2>1. \A p \in Pings : pings[p].pc = "context" \/ pings[p].ctx # NoContext
    BY <1>1, ContextsHeld
  <2> QED
    BY <1>1, <1>2, <2>1, PingsKept
<1>4. /\ handlers \in [Requests -> [ pc : HandlerPlaces, ctx : Nat,
                                     header : headers \cup {NoHeader} ]]
      /\ \A r \in Requests : /\ handlers'[r].pc = new[r]
                             /\ handlers'[r].ctx = handlers[r].ctx
                             /\ handlers'[r].header = handlers[r].header
      /\ handlers' \in [Requests -> [ pc : HandlerPlaces, ctx : Nat,
                                      header : headers' \cup {NoHeader} ]]
  BY <1>1 DEF HandlersInv
<1>5. OwnContexts'
  BY <1>1, <1>4 DEF OwnContexts
<1>6. ASSUME NEW r \in Requests PROVE HandlerInv(handlers[r])'
  <2>1. HandlerInv(handlers[r])
    BY <1>1 DEF HandlersInv
  <2>2. CASE handlers[r].ctx = NoContext
    BY <1>4, <2>1, <2>2 DEF HandlerInv, NoContext
  <2>3. CASE handlers[r].ctx # NoContext
    <3>1. Continues(handlers[r].ctx, handlers[r].header)'
      BY <1>1, <1>4, <2>1, <2>3 DEF HandlerInv, Continues, Contexts, SpanContext,
                                    DecodeWithoutPadding, SimpleAtoi
    <3> QED
      BY <1>1, <1>4, <2>1, <2>3, <3>1 DEF HandlerInv, NoContext, NoHeader
  <2> QED
    BY <2>2, <2>3
<1>7. ASSUME NEW r \in Requests, handlers'[r].header # NoHeader
      PROVE  r \in Pings /\ FromPing(handlers[r].header, pings[r])'
  <2>1. r \in Pings /\ FromPing(handlers[r].header, pings[r])
    BY <1>1, <1>4, <1>7 DEF HandlersInv
  <2> QED
    BY <1>1, <1>4, <2>1 DEF FromPing, Contexts, SpanContext,
                            DecodeWithoutPadding, SimpleAtoi
<1>8. HandlersInv'
  BY <1>4, <1>6, <1>7 DEF HandlersInv, NoHeader
<1> QED
  BY <1>1, <1>2, <1>3, <1>5, <1>8, TracingOnly DEF TouchesOnly

(* A request without a header of ours gets no context.                     *)
LEMMA HandlerStrangerInv ==
  ASSUME SamplesInv, NEW r \in Requests, NEW to \in {"entry", "failed"},
         Handle(r, "request", to),
         UNCHANGED <<raiiVars, pings, callerVars, serverVars>>
  PROVE  SamplesInv'
<1> DEFINE new == [s \in Requests |-> IF s = r THEN to ELSE handlers[s].pc]
<1>1. /\ handlers \in [Requests -> [ pc : HandlerPlaces, ctx : Nat,
                                     header : headers \cup {NoHeader} ]]
      /\ HandlerInv(handlers[r])
  BY DEF SamplesInv, HandlersInv
<1>2. /\ handlers[r].pc = "request"
      /\ handlers' = [handlers EXCEPT ![r].pc = to]
  BY DEF Handle
<1>3. handlers[r].ctx = NoContext
  BY <1>1, <1>2 DEF HandlerInv
<1>4. new \in [Requests -> HandlerPlaces]
  BY <1>1 DEF HandlerPlaces
<1>5. handlers' = [s \in Requests |-> [handlers[s] EXCEPT !.pc = new[s]]]
  BY <1>1, <1>2
<1>6. \A s \in Requests :
        \/ new[s] = handlers[s].pc \/ new[s] = "undefined"
        \/ new[s] \in {"entry", "failed"} /\ handlers[s].ctx = NoContext
  BY <1>3
<1> HIDE DEF new
<1> QED
  BY <1>4, <1>5, <1>6, HandlersIdle

LEMMA HandlerNullContextInv ==
  ASSUME SamplesInv, NEW r \in Requests, HandlerNullContext(r)
  PROVE  SamplesInv'
<1> DEFINE new == [s \in Requests |-> "undefined"]
<1>1. /\ handlers' = [s \in Requests |-> [handlers[s] EXCEPT !.pc = "undefined"]]
      /\ UNCHANGED <<raiiVars, pings, callerVars, serverVars>>
  BY DEF HandlerNullContext
<1>2. new \in [Requests -> HandlerPlaces]
  BY DEF HandlerPlaces
<1>3. /\ handlers' = [s \in Requests |-> [handlers[s] EXCEPT !.pc = new[s]]]
      /\ \A s \in Requests : new[s] = "undefined"
  BY <1>1
<1> HIDE DEF new
<1> QED
  BY <1>1, <1>2, <1>3, HandlersIdle

(* What the other handler steps start from.                                *)
LEMMA HandlerHasContext ==
  ASSUME SamplesInv, NEW r \in Requests, handlers[r].ctx # NoContext
  PROVE  /\ RaiiInv /\ TracingInv /\ ReportersInv
         /\ handlers[r].ctx \in Contexts
         /\ contexts[handlers[r].ctx].parent # NoParent
         /\ handlers[r].pc = "entry" => Len(scopes[handlers[r].ctx]) = 0
         /\ handlers[r].pc = "leave" =>
              /\ contexts[handlers[r].ctx].spans # <<>>
              /\ Len(scopes[handlers[r].ctx]) = 1
         /\ handlers[r].pc = "report" =>
              /\ contexts[handlers[r].ctx].spans # <<>>
              /\ Len(scopes[handlers[r].ctx]) = 0
<1>1. /\ RaiiInv /\ TracingInv /\ ReportersInv /\ HandlersInv
  BY DEF SamplesInv, RaiiInv
<1>2. PICK c, h : c = handlers[r].ctx /\ h = handlers[r].header
  OBVIOUS
<1>3. /\ Continues(c, h) /\ c \in Contexts /\ h # NoHeader
      /\ handlers[r].pc = "entry" => scopes[c] = <<>>
      /\ handlers[r].pc = "leave" =>
           contexts[c].spans # <<>> /\ Len(scopes[c]) = 1
      /\ handlers[r].pc = "report" =>
           contexts[c].spans # <<>> /\ scopes[c] = <<>>
  BY <1>1, <1>2 DEF HandlersInv, HandlerInv, Continues
<1>4. contexts[c].parent # NoParent
  <2>1. h \in headers
    BY <1>1, <1>2, <1>3 DEF HandlersInv
  <2>2. SpanContext(h) \in SpanContextRec
    BY <1>1, <2>1 DEF TracingInv, TracingTypeOK
  <2> QED
    BY <1>3, <2>2, ParentIsNotNone DEF Continues
<1>5. scopes[c] = <<>> => Len(scopes[c]) = 0
  BY EmptySeq
<1> QED
  BY <1>1, <1>2, <1>3, <1>4, <1>5

LEMMA HandlerEntrySpanInv ==
  ASSUME SamplesInv, NEW r \in Requests, HandlerEntrySpan(r)
  PROVE  SamplesInv'
<1>1. PICK c : c = handlers[r].ctx
  OBVIOUS
<1>2. /\ handlers[r].pc = "entry" /\ c # NoContext /\ Handle(r, "entry", "leave")
      /\ StartEntrySpan(c, Op3) /\ Op3 \in OperationNames
      /\ UNCHANGED pings /\ UNCHANGED <<callerVars, serverVars>>
  BY <1>1, SamplesAssumption DEF HandlerEntrySpan, Handle
<1>3. /\ RaiiInv /\ TracingInv /\ c \in Contexts
      /\ contexts[c].parent # NoParent /\ Len(scopes[c]) = 0
  BY <1>1, <1>2, HandlerHasContext
<1>4. /\ RaiiInv' /\ TouchesOnly(c)
      /\ contexts[c].spans = <<>> /\ Len(contexts'[c].spans) = 1
      /\ contexts[c].parent \in contexts'[c].spans[1].refs
      /\ Len(scopes'[c]) = Len(scopes[c]) + 1
  BY <1>2, <1>3, EntrySpanOpens
<1>5. Len(scopes'[c]) = 1 /\ contexts'[c].spans # <<>>
  BY <1>3, <1>4, EmptySeq
<1>6. PingsInv' /\ HandlersInv' /\ OwnContexts'
  BY <1>1, <1>2, <1>4, <1>5, HandlerMoves
<1> QED
  BY <1>2, <1>4, <1>6, TracingOnly DEF TouchesOnly

LEMMA HandlerLeaveInv ==
  ASSUME SamplesInv, NEW r \in Requests, HandlerLeave(r)
  PROVE  SamplesInv'
<1>1. PICK c : c = handlers[r].ctx
  OBVIOUS
<1>2. /\ handlers[r].pc = "leave" /\ Handle(r, "leave", "report")
      /\ CloseScope(c)
      /\ UNCHANGED pings /\ UNCHANGED <<callerVars, serverVars>>
  BY <1>1 DEF HandlerLeave, Handle
<1>3. c # NoContext
  BY <1>1, <1>2 DEF SamplesInv, HandlersInv, HandlerInv
<1>4. /\ RaiiInv /\ TracingInv /\ c \in Contexts
      /\ contexts[c].spans # <<>> /\ Len(scopes[c]) = 1
  BY <1>1, <1>2, <1>3, HandlerHasContext
<1>5. /\ RaiiInv' /\ TouchesOnly(c) /\ c \in Contexts'
      /\ Len(contexts'[c].spans) = Len(contexts[c].spans)
      /\ Len(scopes'[c]) = Len(scopes[c]) - 1
  BY <1>2, <1>4, ScopeCloses, CloseTouches
<1>6. scopes'[c] = <<>>
  <2>1. ScopesMatch(contexts[c], scopes[c])'
    BY <1>5 DEF RaiiInv, ScopeInv
  <2>2. scopes'[c] \in Seq(Nat)
    BY <2>1 DEF ScopesMatch
  <2>3. Len(scopes'[c]) = 0
    BY <1>4, <1>5
  <2> QED
    BY <2>2, <2>3, EmptySeq
<1>7. contexts'[c].spans # <<>>
  <2>1. Len(contexts[c].spans) # 0
    BY <1>4, ContextIsNumber, EmptySeq
  <2> QED
    BY <1>5, <2>1, EmptySeq
<1>8. PingsInv' /\ HandlersInv' /\ OwnContexts'
  BY <1>1, <1>2, <1>3, <1>4, <1>5, <1>6, <1>7, HandlerMoves
<1> QED
  BY <1>2, <1>5, <1>8, TracingOnly DEF TouchesOnly

LEMMA HandlerReportInv ==
  ASSUME SamplesInv, NEW r \in Requests, HandlerReport(r)
  PROVE  SamplesInv'
<1>1. PICK c : c = handlers[r].ctx
  OBVIOUS
<1>2. /\ handlers[r].pc = "report" /\ Handle(r, "report", "replied")
      /\ UNCHANGED scopes /\ UNCHANGED pings /\ UNCHANGED callerVars
  BY <1>1 DEF HandlerReport, Handle
<1>3. c # NoContext
  BY <1>1, <1>2 DEF SamplesInv, HandlersInv, HandlerInv
<1>4. /\ RaiiInv /\ TracingInv /\ ReportersInv /\ c \in Contexts
      /\ contexts[c].spans # <<>> /\ Len(scopes[c]) = 0
  BY <1>1, <1>2, <1>3, HandlerHasContext
<1>5. /\ Report(c)
      /\ \/ ServerReporter!Accept(SegmentObject(contexts[c]))
         \/ ServerReporter!Refuse
  <2>1. ReadyToSend(contexts[c]) /\ ~Match(Op3)
    BY <1>4, NoScopeIsReady, SamplesAssumption
  <2> QED
    BY <1>1, <2>1 DEF HandlerReport
<1>6. RaiiInv'
  BY <1>2, <1>4, <1>5, ContextReported
<1>7. /\ TouchesOnly(c) /\ contexts'[c].sent
      /\ contexts'[c].spans = contexts[c].spans
  BY <1>2, <1>4, <1>5, ReportTouches
<1>8. PingsInv' /\ HandlersInv' /\ OwnContexts'
  BY <1>1, <1>2, <1>3, <1>4, <1>6, <1>7, HandlerMoves
<1>9. ReportersInv'
  <2>1. CASE ServerReporter!Accept(SegmentObject(contexts[c]))
    BY <1>2, <1>4, <1>5, <2>1, ServerGrows
  <2>2. CASE ServerReporter!Refuse
    BY <1>2, <1>4, <1>7, <2>2, ServerWorks DEF TouchesOnly
  <2> QED
    BY <1>5, <2>1, <2>2
<1> QED
  BY <1>6, <1>8, <1>9 DEF SamplesInv

LEMMA HandlerStepInv ==
  ASSUME SamplesInv, NEW r \in Requests, HandlerStep(r)
  PROVE  SamplesInv'
<1>1. CASE HandlerNoContext(r) \/ HandlerRejects(r)
  BY <1>1, HandlerStrangerInv DEF HandlerNoContext, HandlerRejects
<1> QED
  BY <1>1, HandlerContextInv, HandlerEntrySpanInv, HandlerNullContextInv,
     HandlerLeaveInv, HandlerReportInv DEF HandlerStep

-----------------------------------------------------------------------------
(* The reporters' own steps, and the whole.                                *)

(* Nothing happens in the two programs.                                    *)
LEMMA ProgramsIdle ==
  ASSUME SamplesInv, UNCHANGED <<raiiVars, pings, handlers>>
  PROVE  RaiiInv' /\ PingsInv' /\ HandlersInv' /\ OwnContexts' /\ Persist
<1>1. /\ RaiiInv /\ PingsInv /\ HandlersInv /\ OwnContexts /\ TracingInv
      /\ UNCHANGED <<contexts, scopes, headers>> /\ UNCHANGED raiiVars
      /\ UNCHANGED pings /\ UNCHANGED handlers
  BY DEF SamplesInv, RaiiInv, raiiVars, vars
<1>2. RaiiInv' /\ TouchesOnly(NoContext)
  BY <1>1, RaiiStutters, NothingTouched
<1>3. TracingInv' /\ Persist
  BY <1>2 DEF RaiiInv, TouchesOnly
<1>4. PingsInv'
  <2>1. \A p \in Pings : pings[p].pc = "context" \/ pings[p].ctx # NoContext
    BY <1>1, ContextsHeld
  <2> QED
    BY <1>1, <1>2, <2>1, PingsKept
<1>5. HandlersInv'
  <2>1. /\ \A p \in Pings : pings'[p].ctx = pings[p].ctx
        /\ \A r \in Requests : handlers[r].ctx = NoContext
                               \/ handlers[r].ctx # NoContext
    BY <1>1
  <2> QED
    BY <1>1, <1>2, <1>3, <2>1, HandlersKept
<1>6. OwnContexts'
  BY <1>1 DEF OwnContexts
<1> QED
  BY <1>2, <1>3, <1>4, <1>5, <1>6

LEMMA CallerReportsInv ==
  ASSUME SamplesInv, CallerReports \/ CallerExit
  PROVE  SamplesInv'
<1>1. /\ UNCHANGED <<raiiVars, pings, handlers>> /\ UNCHANGED serverVars
      /\ \/ CallerReporter!Transmit \/ CallerReporter!Acknowledge
         \/ CallerReporter!Lose \/ CallerReporter!Close
  BY DEF CallerReports, CallerExit
<1>2. RaiiInv' /\ PingsInv' /\ HandlersInv' /\ OwnContexts' /\ Persist
  BY <1>1, ProgramsIdle
<1>3. ReportersInv'
  BY <1>1, <1>2, CallerWorks DEF SamplesInv
<1> QED
  BY <1>2, <1>3 DEF SamplesInv

LEMMA ServerReportsInv ==
  ASSUME SamplesInv, ServerReports
  PROVE  SamplesInv'
<1>1. /\ UNCHANGED <<raiiVars, pings, handlers>> /\ UNCHANGED callerVars
      /\ \/ ServerReporter!Transmit \/ ServerReporter!Acknowledge
         \/ ServerReporter!Lose
  BY DEF ServerReports
<1>2. RaiiInv' /\ PingsInv' /\ HandlersInv' /\ OwnContexts' /\ Persist
  BY <1>1, ProgramsIdle
<1>3. ReportersInv'
  BY <1>1, <1>2, ServerWorks DEF SamplesInv
<1> QED
  BY <1>2, <1>3 DEF SamplesInv

LEMMA InitSamplesInv == SamplesInit => SamplesInv
<1> SUFFICES ASSUME SamplesInit PROVE SamplesInv
  OBVIOUS
<1>1. RaiiInv
  BY InitRaiiInv DEF SamplesInit
<1>2. PingsInv
  BY DEF SamplesInit, PingsInv, PingInv, PingPlaces, NoContext
<1>3. HandlersInv
  BY DEF SamplesInit, HandlersInv, HandlerInv, HandlerPlaces, NoContext, NoHeader
<1>4. OwnContexts
  BY DEF SamplesInit, OwnContexts
<1>5. ReportersInv
  <2>1. /\ caller_wire = <<>> /\ caller_backlog = <<>>
        /\ server_wire = <<>> /\ server_backlog = <<>>
    BY DEF SamplesInit, CallerReporter!Init, ServerReporter!Init
  <2>2. <<>> \in Seq(SegmentRec) /\ Len(<<>>) = 0 /\ <<>> \o <<>> = <<>>
    BY EmptySeq, ConcatEmptySeq
  <2>3. CallerQueue = <<>> /\ ServerQueue = <<>>
    BY <2>1, <2>2 DEF CallerQueue, ServerQueue
  <2> QED
    BY <2>1, <2>2, <2>3 DEF ReportersInv, Shipped, NotTwice, Apart
<1> QED
  BY <1>1, <1>2, <1>3, <1>4, <1>5 DEF SamplesInv

LEMMA NextSamplesInv ==
  ASSUME SamplesInv, [SamplesNext]_sampleVars
  PROVE  SamplesInv'
<1>1. CASE SamplesNext
  BY <1>1, PingStepInv, HandlerStepInv, CallerReportsInv, ServerReportsInv
     DEF SamplesNext
<1>2. CASE UNCHANGED sampleVars
  <2>1. /\ UNCHANGED <<raiiVars, pings, handlers>>
        /\ UNCHANGED <<callerVars, serverVars>>
    BY <1>2 DEF sampleVars
  <2> QED
    BY <2>1, ProgramsIdle, TracingOnly
<1> QED
  BY <1>1, <1>2

LEMMA SamplesInvariant == SamplesSpec => []SamplesInv
<1>1. SamplesInv /\ [SamplesNext]_sampleVars => SamplesInv'
  BY NextSamplesInv
<1> QED
  BY <1>1, InitSamplesInv, PTL DEF SamplesSpec

-----------------------------------------------------------------------------
(* What the collector may rely on.                                         *)

(* report, whose result both programs ignore, never returns false: when it *)
(* is called every scope object is left, on every path.                    *)
THEOREM ReportsAreMade == SamplesSpec => []NothingUnreported
<1>1. ASSUME SamplesInv PROVE NothingUnreported
  <2>1. ASSUME NEW p \in Pings, pings[p].pc = "done"
        PROVE  contexts[pings[p].ctx].sent
    BY <1>1, <2>1 DEF SamplesInv, PingsInv, PingInv
  <2>2. ASSUME NEW r \in Requests, handlers[r].pc = "replied"
        PROVE  contexts[handlers[r].ctx].sent
    BY <1>1, <2>2 DEF SamplesInv, HandlersInv, HandlerInv
  <2> QED
    BY <2>1, <2>2 DEF NothingUnreported
<1> QED
  BY <1>1, SamplesInvariant, PTL

(* What is on a wire is in the queue of its reporter, at the same place.   *)
LEMMA OnTheWire ==
  ASSUME NEW wire \in Seq(SegmentRec), NEW backlog \in Seq(SegmentRec),
         NEW k \in 1..Len(wire)
  PROVE  k \in 1..Len(wire \o backlog) /\ (wire \o backlog)[k] = wire[k]
<1>1. /\ Len(wire) \in Nat /\ Len(backlog) \in Nat
      /\ Len(wire \o backlog) = Len(wire) + Len(backlog)
  BY ConcatProperties
<1>2. k \in 1..(Len(wire) + Len(backlog)) /\ k <= Len(wire)
  BY <1>1
<1> QED
  BY <1>1, <1>2, ConcatProperties

(* Two processes, any number of threads, lossy reporters: the collector    *)
(* gets no segment and no segment id twice.                                *)
THEOREM CollectedAtMostOnce == SamplesSpec => []CollectedOnce
<1>1. ASSUME SamplesInv PROVE CollectedOnce
  <2>1. PICK x, y : x = caller_wire /\ y = server_wire
    OBVIOUS
  <2>2. /\ x \in Seq(SegmentRec) /\ y \in Seq(SegmentRec)
        /\ Len(x) \in Nat /\ Len(y) \in Nat
    BY <1>1, <2>1 DEF SamplesInv, ReportersInv
  <2>3. /\ \A k \in 1..Len(x) : k \in 1..Len(CallerQueue) /\ CallerQueue[k] = x[k]
        /\ \A k \in 1..Len(y) : k \in 1..Len(ServerQueue) /\ ServerQueue[k] = y[k]
    BY <1>1, <2>1, OnTheWire
       DEF SamplesInv, ReportersInv, CallerQueue, ServerQueue
  <2>4. /\ NotTwice(CallerQueue) /\ NotTwice(ServerQueue)
        /\ Apart(CallerQueue, ServerQueue)
    BY <1>1 DEF SamplesInv, ReportersInv
  <2>5. NotTwice(x) /\ NotTwice(y) /\ Apart(x, y)
    <3>1. NotTwice(x)
      BY <2>3, <2>4 DEF NotTwice
    <3>2. NotTwice(y)
      BY <2>3, <2>4 DEF NotTwice
    <3>3. Apart(x, y)
      BY <2>3, <2>4 DEF Apart
    <3> QED
      BY <3>1, <3>2, <3>3
  <2> SUFFICES ASSUME NEW j \in 1..Len(x \o y), NEW k \in 1..Len(x \o y),
                      (x \o y)[j].segment = (x \o y)[k].segment
               PROVE  j = k
    BY <2>1 DEF CollectedOnce
  <2>6. /\ Len(x \o y) = Len(x) + Len(y)
        /\ \A i \in 1..(Len(x) + Len(y)) :
             (x \o y)[i] = IF i <= Len(x) THEN x[i] ELSE y[i - Len(x)]
    BY <2>2, ConcatProperties
  <2>7. \A i \in 1..Len(x \o y) :
          \/ i \in 1..Len(x) /\ (x \o y)[i] = x[i]
          \/ i - Len(x) \in 1..Len(y) /\ (x \o y)[i] = y[i - Len(x)]
    BY <2>2, <2>6
  <2>8. CASE j \in 1..Len(x) /\ (x \o y)[j] = x[j]
    <3>1. k \in 1..Len(x) /\ (x \o y)[k] = x[k]
      BY <2>5, <2>7, <2>8 DEF Apart
    <3> QED
      BY <2>5, <2>8, <3>1 DEF NotTwice
  <2>9. CASE j - Len(x) \in 1..Len(y) /\ (x \o y)[j] = y[j - Len(x)]
    <3>1. k - Len(x) \in 1..Len(y) /\ (x \o y)[k] = y[k - Len(x)]
      BY <2>5, <2>7, <2>9 DEF Apart
    <3>2. j - Len(x) = k - Len(x)
      BY <2>5, <2>9, <3>1 DEF NotTwice
    <3>3. j \in Int /\ k \in Int
      BY <2>2, <2>6
    <3> QED
      BY <2>2, <3>2, <3>3
  <2> QED
    BY <2>7, <2>8, <2>9
<1> QED
  BY <1>1, SamplesInvariant, PTL

(* Requests are not mixed up: the segment of a handler continues the trace *)
(* of the ping it serves and refers to that ping's exit span.              *)
THEOREM CollectedSegmentsBelong == SamplesSpec => []CollectedBelongsToPing
<1>1. ASSUME SamplesInv PROVE CollectedBelongsToPing
  <2> SUFFICES ASSUME NEW r \in Pings, NEW k \in 1..Len(server_wire),
                      handlers[r].ctx # NoContext,
                      contexts[handlers[r].ctx].segment = server_wire[k].segment
               PROVE  /\ server_wire[k].trace = contexts[pings[r].ctx].trace
                      /\ \E ref \in server_wire[k].spans[1].refs :
                           /\ ref.traceSegmentId = contexts[pings[r].ctx].segment
                           /\ ref.spanId = 1
    BY DEF CollectedBelongsToPing, Elements
  <2>1. /\ TracingInv /\ HandlersInv /\ Shipped(ServerQueue) /\ r \in Requests
        /\ server_wire \in Seq(SegmentRec) /\ server_backlog \in Seq(SegmentRec)
    BY <1>1, SamplesAssumption
       DEF SamplesInv, RaiiInv, ReportersInv, Pings, Requests
  <2>2. k \in 1..Len(ServerQueue) /\ ServerQueue[k] = server_wire[k]
    BY <2>1, OnTheWire DEF ServerQueue
  <2>3. PICK d \in Contexts : /\ contexts[d].sent
                              /\ server_wire[k] = SegmentObject(contexts[d])
    BY <2>1, <2>2 DEF Shipped
  <2>4. PICK c, h : c = handlers[r].ctx /\ h = handlers[r].header
    OBVIOUS
  <2>5. /\ c \in Contexts /\ h # NoHeader /\ Continues(c, h)
        /\ FromPing(h, pings[r])
    BY <2>1, <2>4 DEF HandlersInv, HandlerInv, Continues
  <2>6. c = d
    BY <2>1, <2>3, <2>4, <2>5 DEF TracingInv, FreshIds, SegmentObject
  <2>7. /\ SpanContext(h) \in contexts[c].spans[1].refs
        /\ contexts[c].trace = SpanContext(h).traceId
    BY <2>3, <2>5, <2>6 DEF Continues
  <2>8. /\ SpanContext(h).traceId = contexts[pings[r].ctx].trace
        /\ SpanContext(h).traceSegmentId = contexts[pings[r].ctx].segment
        /\ SpanContext(h).spanId = 1
    BY <2>5 DEF FromPing
  <2>9. /\ server_wire[k].trace = contexts[c].trace
        /\ server_wire[k].spans = contexts[c].spans
    BY <2>3, <2>6 DEF SegmentObject
  <2> QED
    BY <2>7, <2>8, <2>9
<1> QED
  BY <1>1, SamplesInvariant, PTL

-----------------------------------------------------------------------------
(* The two programs are applications as RaiiTracing describes them.        *)

LEMMA ContextIsBounded ==
  ASSUME RaiiInv, NEW c \in Contexts
  PROVE  c \in 1..MaxContexts
<1>1. /\ Len(contexts) \in Nat /\ Len(contexts) <= MaxContexts
      /\ MaxContexts \in Nat
  BY TracingBounds DEF RaiiInv, ScopeInv, TracingInv, TracingTypeOK
<1> QED
  BY <1>1 DEF Contexts

LEMMA PingStepUsesScopes ==
  ASSUME SamplesInv, NEW p \in Pings, PingStep(p)
  PROVE  RaiiNext \/ UNCHANGED raiiVars
<1>1. PICK c : c = pings[p].ctx
  OBVIOUS
<1>2. /\ RaiiInv /\ PingsInv
      /\ Caller \in Tracers /\ Op1 \in OperationNames /\ Op2 \in OperationNames
      /\ Target \in Targets
  BY SamplesAssumption DEF SamplesInv
<1>3. ASSUME pings[p].pc # "context" PROVE c \in 1..MaxContexts
  BY <1>1, <1>2, <1>3, PingHasContext, ContextIsBounded
<1>4. CASE PingContext(p)
  BY <1>2, <1>4 DEF PingContext, RaiiNext
<1>5. CASE PingEntrySpan(p)
  BY <1>1, <1>2, <1>3, <1>5 DEF PingEntrySpan, Ping, RaiiNext
<1>6. CASE PingExitSpan(p)
  <2>1. /\ c \in 1..MaxContexts /\ StartExitSpan(c, 1, Op2)
        /\ Len(contexts[c].spans) = 1
    BY <1>1, <1>2, <1>3, <1>6, PingHasContext DEF PingExitSpan, Ping, Created
  <2>2. Len(contexts[c].spans) < MaxSpans /\ MaxSpans \in Nat
    BY <2>1, TracingBounds DEF StartExitSpan, OpenScope, AddSpan
  <2>3. 1 \in 1..MaxSpans
    BY <2>1, <2>2
  <2> QED
    BY <1>2, <2>1, <2>3 DEF RaiiNext
<1>7. CASE PingCall(p)
  BY <1>1, <1>2, <1>3, <1>7 DEF PingCall, Ping, RaiiNext
<1>8. CASE PingReturn(p)
  BY <1>8 DEF PingReturn
<1>9. CASE PingLeaveExitSpan(p) \/ PingLeaveEntrySpan(p)
  BY <1>1, <1>3, <1>9 DEF PingLeaveExitSpan, PingLeaveEntrySpan, Ping, RaiiNext
<1>10. CASE PingReport(p)
  <2>1. c \in 1..MaxContexts /\ UNCHANGED scopes
        /\ (Report(c) \/ UNCHANGED vars)
    BY <1>1, <1>3, <1>10 DEF PingReport, Ping
  <2> QED
    BY <2>1 DEF RaiiNext, raiiVars
<1> QED
  BY <1>4, <1>5, <1>6, <1>7, <1>8, <1>9, <1>10 DEF PingStep

LEMMA HandlerStepUsesScopes ==
  ASSUME SamplesInv, NEW r \in Requests, HandlerStep(r)
  PROVE  RaiiNext \/ UNCHANGED raiiVars
<1>1. PICK c, h : c = handlers[r].ctx /\ h = handlers[r].header
  OBVIOUS
<1>2. /\ RaiiInv /\ HandlersInv /\ Server \in Tracers /\ Op3 \in OperationNames
  BY SamplesAssumption DEF SamplesInv
<1>3. ASSUME c # NoContext PROVE c \in 1..MaxContexts
  BY <1>1, <1>2, <1>3, HandlerHasContext, ContextIsBounded
<1>4. ASSUME handlers[r].pc \in {"leave", "report"} PROVE c \in 1..MaxContexts
  BY <1>1, <1>2, <1>3, <1>4 DEF HandlersInv, HandlerInv
<1>5. CASE HandlerContext(r)
  <2>1. /\ h \in headers /\ NewContextFrom(Server, h, "Default")
        /\ UNCHANGED scopes
    BY <1>1, <1>2, <1>5 DEF HandlersInv, HandlerContext
  <2> QED
    BY <1>2, <2>1 DEF RaiiNext
<1>6. CASE HandlerNoContext(r) \/ HandlerRejects(r) \/ HandlerNullContext(r)
  BY <1>6 DEF HandlerNoContext, HandlerRejects, HandlerNullContext
<1>7. CASE HandlerEntrySpan(r)
  BY <1>1, <1>2, <1>3, <1>7 DEF HandlerEntrySpan, RaiiNext
<1>8. CASE HandlerLeave(r)
  BY <1>1, <1>4, <1>8 DEF HandlerLeave, Handle, RaiiNext
<1>9. CASE HandlerReport(r)
  <2>1. c \in 1..MaxContexts /\ UNCHANGED scopes
        /\ (Report(c) \/ UNCHANGED vars)
    BY <1>1, <1>4, <1>9 DEF HandlerReport, Handle
  <2> QED
    BY <2>1 DEF RaiiNext, raiiVars
<1> QED
  BY <1>5, <1>6, <1>7, <1>8, <1>9 DEF HandlerStep

(* Both programs keep the rules of the library: every call they make is    *)
(* one that RaiiTracing allows, with a context that has not been reported, *)
(* and a scope object that is the innermost one. So whatever RaiiTracing   *)
(* guarantees (NoScopeAfterReport, ScopedTracesAreTrees, ...) is theirs.   *)
THEOREM SamplesUseScopes == SamplesSpec => RaiiSpec
<1>1. SamplesInit => RaiiInit
  BY DEF SamplesInit
<1>2. ASSUME SamplesInv, [SamplesNext]_sampleVars PROVE [RaiiNext]_raiiVars
  <2>1. CASE SamplesNext
    <3>1. CASE CallerExit \/ CallerReports \/ ServerReports
      BY <3>1 DEF CallerExit, CallerReports, ServerReports
    <3> QED
      BY <1>2, <2>1, <3>1, PingStepUsesScopes, HandlerStepUsesScopes
         DEF SamplesNext
  <2>2. CASE UNCHANGED sampleVars
    BY <2>2 DEF sampleVars
  <2> QED
    BY <1>2, <2>1, <2>2
<1> QED
  BY <1>1, <1>2, SamplesInvariant, PTL DEF SamplesSpec, RaiiSpec

(* The trees of spans and of segments, across the two processes.           *)
THEOREM SampleTracesAreTrees == SamplesSpec => [](TraceIsTree /\ SegmentIsTree)
BY SamplesUseScopes, ScopedTracesAreTrees, PTL
=============================================================================
