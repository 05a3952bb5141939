------------------------ MODULE TracingContextProofs ------------------------
(***************************************************************************)
(* Proofs about TracingContext, for any number of tracers, contexts and    *)
(* spans, and any set of operation names and ignored suffixes.             *)
(*                                                                         *)
(* The inductive invariant (TracingInv) says where every id comes from: a  *)
(* header describes an exit span of a context that exists, the parent of a *)
(* context is such a header, and a reported segment is the final state of  *)
(* a context. Contexts only grow (Inherits), so what was described stays   *)
(* described. Steps fall into four kinds (Arrives, Changes, Announces,     *)
(* Ships); each kind preserves the invariant.                              *)
(***************************************************************************)
EXTENDS TracingContext, SequenceTheorems, TLAPS

-----------------------------------------------------------------------------
(* Types.                                                                  *)

Names == OperationNames \cup {NoName}

SpanContextRec ==
  [ traceId : Nat \ {0}, traceSegmentId : Nat, spanId : Nat,
    service : {Service(t) : t \in Tracers},
    serviceInstance : {Instance(t) : t \in Tracers},
    endpoint : Names, targetAddress : Targets ]

SpanRec ==
  [ id : Nat, parent : Int, type : {"Entry", "Exit"}, name : Names,
    skip : BOOLEAN, refs : SUBSET SpanContextRec, finished : BOOLEAN ]

ContextRec ==
  [ tracer : Tracers, trace : Nat \ {0}, segment : Nat,
    parent : SpanContextRec \cup {NoParent}, mode : {"Default", "Skip"},
    should_skip : BOOLEAN, spans : Seq(SpanRec), sent : BOOLEAN ]

SegmentRec ==
  [ trace : Nat \ {0}, segment : Nat, tracer : Tracers, spans : Seq(SpanRec) ]

TracingTypeOK ==
  /\ contexts \in Seq(ContextRec) /\ uuids \in Nat
  /\ \A h \in headers : SpanContext(h) \in SpanContextRec
  /\ reported \in Seq(SegmentRec)

-----------------------------------------------------------------------------
(* The inductive invariant.                                                *)

(* A span in the tree of its context.                                      *)
InTree(ctx, i) ==
  LET span == ctx.spans[i]
  IN  /\ span.id = i - 1
      /\ span.type = (IF i = 1 THEN "Entry" ELSE "Exit")
      /\ i = 1 => /\ span.parent = -1
                  /\ \A ref \in span.refs : ref = ctx.parent /\ ref # NoParent
      /\ i # 1 => span.parent \in 0..(i - 2) /\ span.refs = {}

WellFormed(ctx) ==
  /\ \A i \in 1..Len(ctx.spans) : InTree(ctx, i)
  /\ ctx.mode = "Skip" =>
       ctx.should_skip /\ \A i \in 1..Len(ctx.spans) : ctx.spans[i].skip

(* What a decoded header says is true of context p.                        *)
Describes(sc, p) ==
  /\ p \in Contexts
  /\ sc.traceId = contexts[p].trace /\ sc.traceSegmentId = contexts[p].segment
  /\ sc.service = Service(contexts[p].tracer)
  /\ sc.spanId + 1 \in SpansOf(p)
  /\ contexts[p].spans[sc.spanId + 1].type = "Exit"

FreshIds ==
  /\ \A c \in Contexts : /\ contexts[c].trace \in 1..uuids
                         /\ contexts[c].segment \in 1..uuids
  /\ \A c, d \in Contexts : contexts[c].segment = contexts[d].segment => c = d
  /\ \A c, d \in Contexts :
       /\ contexts[c].trace = contexts[d].trace
       /\ contexts[c].parent = NoParent /\ contexts[d].parent = NoParent
       => c = d

AllWellFormed == \A c \in Contexts : WellFormed(contexts[c])

HeadersResolve == \A h \in headers : \E p \in Contexts : Describes(SpanContext(h), p)

ParentsResolve ==
  \A c \in Contexts : contexts[c].parent # NoParent =>
    \E p \in 1..(c - 1) : /\ Describes(contexts[c].parent, p)
                          /\ contexts[c].trace = contexts[p].trace

ReportsMatch ==
  \A k \in 1..Len(reported) :
    \E c \in Contexts : /\ contexts[c].sent /\ ReadyToSend(contexts[c])
                        /\ reported[k] = SegmentObject(contexts[c])

TracingInv == /\ TracingTypeOK /\ FreshIds /\ AllWellFormed
              /\ HeadersResolve /\ ParentsResolve /\ ReportsMatch

-----------------------------------------------------------------------------
(* Contexts only grow.                                                     *)

SameSpan(new, old) ==
  /\ new.id = old.id /\ new.parent = old.parent /\ new.type = old.type
  /\ new.skip = old.skip /\ new.refs = old.refs

Inherits(new, old) ==
  /\ new.tracer = old.tracer /\ new.trace = old.trace
  /\ new.segment = old.segment /\ new.parent = old.parent
  /\ new.mode = old.mode
  /\ Len(old.spans) <= Len(new.spans)
  /\ \A i \in 1..Len(old.spans) : SameSpan(new.spans[i], old.spans[i])
  /\ old.sent => new.sent /\ new.spans = old.spans

Persist ==
  /\ Contexts \subseteq Contexts'
  /\ \A c \in Contexts : Inherits(contexts'[c], contexts[c])

LEMMA DescribesPersists ==
  ASSUME TracingTypeOK, TracingTypeOK', Persist, NEW sc, NEW p, Describes(sc, p)
  PROVE  Describes(sc, p)'
<1>1. p \in Contexts /\ p \in Contexts' /\ Inherits(contexts'[p], contexts[p])
  BY DEF Persist, Describes
<1>2. contexts[p] \in ContextRec /\ contexts'[p] \in ContextRec
  BY <1>1 DEF TracingTypeOK, Contexts
<1>3. Len(contexts[p].spans) \in Nat /\ Len(contexts'[p].spans) \in Nat
  BY <1>2 DEF ContextRec
<1>4. sc.spanId + 1 \in 1..Len(contexts'[p].spans)
  BY <1>1, <1>3 DEF Describes, SpansOf, Inherits
<1> QED
  BY <1>1, <1>4 DEF Describes, SpansOf, Inherits, SameSpan

LEMMA ReportsPersist ==
  ASSUME TracingTypeOK, Persist, ReportsMatch, UNCHANGED reported
  PROVE  ReportsMatch'
<1> SUFFICES ASSUME NEW k \in 1..Len(reported)
             PROVE  \E c \in Contexts' : /\ contexts'[c].sent
                                         /\ ReadyToSend(contexts'[c])
                                         /\ reported[k] = SegmentObject(contexts'[c])
  BY DEF ReportsMatch
<1>1. PICK c \in Contexts : /\ contexts[c].sent /\ ReadyToSend(contexts[c])
                            /\ reported[k] = SegmentObject(contexts[c])
  BY DEF ReportsMatch
<1>2. c \in Contexts' /\ Inherits(contexts'[c], contexts[c])
  BY <1>1 DEF Persist
<1> QED
  BY <1>1, <1>2 DEF Inherits, ReadyToSend, SegmentObject

(* All that an old context, an old header and an old report need.          *)
LEMMA OldContextsKept ==
  ASSUME TracingInv, TracingTypeOK', Persist
  PROVE  /\ \A h \in headers : \E p \in Contexts' : Describes(SpanContext(h), p)'
         /\ \A c \in Contexts : contexts'[c].parent # NoParent =>
              \E p \in 1..(c - 1) : /\ Describes(contexts[c].parent, p)'
                                    /\ contexts'[c].trace = contexts'[p].trace
<1>1. ASSUME NEW h \in headers
      PROVE  \E p \in Contexts' : Describes(SpanContext(h), p)'
  <2>1. PICK p \in Contexts : Describes(SpanContext(h), p)
    BY DEF TracingInv, HeadersResolve
  <2> DEFINE sc == SpanContext(h)
  <2>2. Describes(sc, p)
    BY <2>1
  <2> HIDE DEF sc
  <2>3. Describes(sc, p)'
    BY <2>2, DescribesPersists DEF TracingInv
  <2> QED
    BY <2>1, <2>3 DEF Persist, sc
<1>2. ASSUME NEW c \in Contexts, contexts'[c].parent # NoParent
      PROVE  \E p \in 1..(c - 1) : /\ Describes(contexts[c].parent, p)'
                                   /\ contexts'[c].trace = contexts'[p].trace
  <2>1. contexts'[c].parent = contexts[c].parent
        /\ contexts'[c].trace = contexts[c].trace
    BY DEF Persist, Inherits
  <2>2. PICK p \in 1..(c - 1) : /\ Describes(contexts[c].parent, p)
                                /\ contexts[c].trace = contexts[p].trace
    BY <1>2, <2>1 DEF TracingInv, ParentsResolve
  <2>3. contexts'[p].trace = contexts[p].trace
    BY <2>2 DEF Describes, Persist, Inherits
  <2>4. PICK sc : sc = contexts[c].parent
    OBVIOUS
  <2>5. Describes(sc, p)'
    BY <2>2, <2>4, DescribesPersists DEF TracingInv
  <2>6. Describes(contexts[c].parent, p)'
    BY <2>1, <2>4, <2>5 DEF Describes
  <2> QED
    BY <2>1, <2>2, <2>3, <2>6
<1> QED
  BY <1>1, <1>2

-----------------------------------------------------------------------------
(* Four kinds of steps.                                                    *)

(* A new context, of a new trace or of the trace of a caller.              *)
Arrives(ctx) ==
  /\ ctx \in ContextRec /\ ctx.spans = <<>> /\ ~ctx.sent
  /\ ctx.mode = "Skip" => ctx.should_skip
  /\ uuids' \in Nat /\ uuids' > uuids /\ ctx.segment = uuids'
  /\ \/ ctx.parent = NoParent /\ ctx.trace \in (uuids + 1)..uuids'
     \/ \E h \in headers : /\ ctx.parent = SpanContext(h)
                           /\ ctx.trace = ctx.parent.traceId
  /\ contexts' = Append(contexts, ctx)
  /\ UNCHANGED <<headers, reported>>

(* A context that is still open becomes ctx.                               *)
Changes(c, ctx) ==
  /\ c \in Contexts /\ ~contexts[c].sent
  /\ ctx \in ContextRec /\ Inherits(ctx, contexts[c]) /\ WellFormed(ctx)
  /\ contexts' = [contexts EXCEPT ![c] = ctx]
  /\ UNCHANGED <<uuids, headers, reported>>

(* A header is made of an exit span.                                       *)
Announces(h) ==
  /\ SpanContext(h) \in SpanContextRec
  /\ \E p \in Contexts : Describes(SpanContext(h), p)
  /\ headers' = headers \cup {h}
  /\ UNCHANGED <<contexts, uuids, reported>>

Ships(c) ==
  /\ c \in Contexts /\ ~contexts[c].sent /\ ReadyToSend(contexts[c])
  /\ reported' = Append(reported, SegmentObject(contexts[c]))
  /\ contexts' = [contexts EXCEPT ![c] = [contexts[c] EXCEPT !.sent = TRUE]]
  /\ UNCHANGED <<uuids, headers>>

(* No decoded header is taken for the absence of one: its trace id is not  *)
(* zero.                                                                   *)
LEMMA ParentIsNotNone ==
  ASSUME NEW sc \in SpanContextRec
  PROVE  sc # NoParent
BY DEF SpanContextRec, NoParent

LEMMA InheritsItself ==
  ASSUME NEW ctx \in ContextRec
  PROVE  Inherits(ctx, ctx)
<1>1. Len(ctx.spans) \in Nat
  BY DEF ContextRec
<1> QED
  BY <1>1 DEF Inherits, SameSpan

LEMMA ContextType ==
  ASSUME TracingTypeOK, NEW c \in Contexts
  PROVE  contexts[c] \in ContextRec
BY DEF TracingTypeOK, Contexts

LEMMA ArrivesInv ==
  ASSUME TracingInv, NEW ctx, Arrives(ctx)
  PROVE  TracingInv'
<1> DEFINE n == Len(contexts)
<1>1. n \in Nat /\ contexts \in Seq(ContextRec) /\ uuids \in Nat
  BY DEF TracingInv, TracingTypeOK
<1>2. /\ contexts' \in Seq(ContextRec) /\ Len(contexts') = n + 1
      /\ contexts'[n + 1] = ctx
      /\ \A c \in 1..n : contexts'[c] = contexts[c]
  BY <1>1, AppendProperties DEF Arrives
<1> HIDE DEF n
<1>3. /\ Contexts = 1..n /\ Contexts' = 1..(n + 1)
      /\ Contexts \subseteq Contexts' /\ n + 1 \in Contexts' \ Contexts
      /\ \A c \in Contexts' : c \in Contexts \/ c = n + 1
      /\ \A c \in Contexts : contexts'[c] = contexts[c]
  BY <1>1, <1>2 DEF Contexts, n
<1>4. TracingTypeOK'
  BY <1>1, <1>2 DEF TracingInv, TracingTypeOK, Arrives, SpanContext,
                    DecodeWithoutPadding, SimpleAtoi
<1>5. Persist
  BY <1>3, ContextType, InheritsItself DEF Persist, TracingInv
<1>6. AllWellFormed'
  <2>1. WellFormed(ctx)
    BY EmptySeq DEF Arrives, WellFormed
  <2> QED
    BY <1>2, <1>3, <2>1 DEF AllWellFormed, TracingInv
<1>7. ctx.parent # NoParent =>
        \E p \in 1..n : /\ Describes(ctx.parent, p)
                        /\ ctx.trace = contexts[p].trace
  BY <1>3 DEF Arrives, TracingInv, HeadersResolve, Describes
<1>8. FreshIds'
  <2>1. \A c \in Contexts : contexts[c].trace \in 1..uuids
                            /\ contexts[c].segment \in 1..uuids
    BY DEF TracingInv, FreshIds
  <2>2. ctx.segment \in 1..uuids' /\ ctx.segment > uuids /\ uuids' > uuids
        /\ uuids' \in Nat
    BY <1>1 DEF Arrives
  <2>3. ctx.trace \in 1..uuids' /\ (ctx.parent = NoParent => ctx.trace > uuids)
    <3>1. CASE ctx.parent = NoParent
      <4>1. ctx.trace \in (uuids + 1)..uuids'
        <5>1. \A h \in headers : SpanContext(h) # NoParent
          BY ParentIsNotNone DEF TracingInv, TracingTypeOK
        <5> QED
          BY <3>1, <5>1 DEF Arrives
      <4> QED
        BY <1>1, <2>2, <4>1
    <3>2. CASE ctx.parent # NoParent
      BY <1>1, <1>3, <1>7, <2>1, <2>2, <3>2
    <3> QED
      BY <3>1, <3>2
  <2>4. \A c \in Contexts' : contexts'[c].trace \in 1..uuids'
                             /\ contexts'[c].segment \in 1..uuids'
    BY <1>1, <1>2, <1>3, <2>1, <2>2, <2>3
  <2>5. \A c, d \in Contexts' :
          contexts'[c].segment = contexts'[d].segment => c = d
    BY <1>1, <1>2, <1>3, <2>1, <2>2 DEF TracingInv, FreshIds
  <2>6. \A c, d \in Contexts' :
          /\ contexts'[c].trace = contexts'[d].trace
          /\ contexts'[c].parent = NoParent /\ contexts'[d].parent = NoParent
          => c = d
    BY <1>1, <1>2, <1>3, <2>1, <2>3 DEF TracingInv, FreshIds
  <2> QED
    BY <2>4, <2>5, <2>6 DEF FreshIds
<1>9. HeadersResolve'
  BY <1>4, <1>5, OldContextsKept DEF Arrives, HeadersResolve, SpanContext,
     DecodeWithoutPadding, SimpleAtoi
<1>10. ParentsResolve'
  <2> SUFFICES ASSUME NEW c \in Contexts', contexts'[c].parent # NoParent
               PROVE  \E p \in 1..(c - 1) :
                        /\ Describes(contexts[c].parent, p)'
                        /\ contexts'[c].trace = contexts'[p].trace
    BY DEF ParentsResolve
  <2>1. CASE c \in Contexts
    BY <1>4, <1>5, <2>1, OldContextsKept
  <2>2. CASE c = n + 1
    <3>1. PICK p \in 1..n : /\ Describes(ctx.parent, p)
                            /\ ctx.trace = contexts[p].trace
      BY <1>2, <1>7, <2>2
    <3>2. PICK sc : sc = ctx.parent
      OBVIOUS
    <3>3. Describes(sc, p)'
      BY <1>4, <1>5, <3>1, <3>2, DescribesPersists DEF TracingInv
    <3>4. Describes(contexts[c].parent, p)'
      BY <1>2, <2>2, <3>2, <3>3 DEF Describes
    <3>5. p \in 1..(c - 1) /\ contexts'[c].trace = contexts'[p].trace
      BY <1>1, <1>2, <2>2, <3>1
    <3> QED
      BY <3>4, <3>5
  <2> QED
    BY <1>3, <2>1, <2>2
<1>11. ReportsMatch'
  BY <1>5, ReportsPersist DEF TracingInv, Arrives
<1> QED
  BY <1>4, <1>6, <1>8, <1>9, <1>10, <1>11 DEF TracingInv

LEMMA ChangedContexts ==
  ASSUME TracingTypeOK, NEW c \in Contexts, NEW ctx \in ContextRec,
         contexts' = [contexts EXCEPT ![c] = ctx]
  PROVE  /\ contexts' \in Seq(ContextRec) /\ Contexts' = Contexts
         /\ contexts'[c] = ctx
         /\ \A d \in Contexts : d # c => contexts'[d] = contexts[d]
<1>1. contexts \in Seq(ContextRec) /\ c \in 1..Len(contexts)
  BY DEF TracingTypeOK, Contexts
<1>2. /\ [contexts EXCEPT ![c] = ctx] \in Seq(ContextRec)
      /\ Len([contexts EXCEPT ![c] = ctx]) = Len(contexts)
      /\ \A j \in 1..Len(contexts) :
           [contexts EXCEPT ![c] = ctx][j] = IF j = c THEN ctx ELSE contexts[j]
  BY <1>1, ExceptSeq
<1> QED
  BY <1>1, <1>2 DEF Contexts

(* What a change of one context, its shipping included, leaves true.       *)
LEMMA ChangeKeeps ==
  ASSUME TracingInv, NEW c \in Contexts, NEW ctx \in ContextRec,
         Inherits(ctx, contexts[c]), WellFormed(ctx),
         contexts' = [contexts EXCEPT ![c] = ctx], UNCHANGED <<uuids, headers>>,
         TracingTypeOK'
  PROVE  /\ Persist /\ AllWellFormed' /\ FreshIds'
         /\ HeadersResolve' /\ ParentsResolve'
<1>1. /\ Contexts' = Contexts /\ contexts'[c] = ctx
      /\ \A d \in Contexts : d # c => contexts'[d] = contexts[d]
  BY ChangedContexts DEF TracingInv
<1>2. Persist
  BY <1>1, ContextType, InheritsItself DEF Persist, TracingInv
<1>3. AllWellFormed'
  BY <1>1 DEF AllWellFormed, TracingInv
<1>4. FreshIds'
  <2>1. \A d \in Contexts : /\ contexts'[d].trace = contexts[d].trace
                            /\ contexts'[d].segment = contexts[d].segment
                            /\ contexts'[d].parent = contexts[d].parent
    BY <1>2 DEF Persist, Inherits
  <2> QED
    BY <1>1, <2>1 DEF FreshIds, TracingInv
<1>5. HeadersResolve'
  BY <1>2, OldContextsKept DEF HeadersResolve, SpanContext,
     DecodeWithoutPadding, SimpleAtoi
<1>6. ParentsResolve'
  BY <1>1, <1>2, OldContextsKept DEF ParentsResolve
<1> QED
  BY <1>2, <1>3, <1>4, <1>5, <1>6

LEMMA ChangesInv ==
  ASSUME TracingInv, NEW c, NEW ctx, Changes(c, ctx)
  PROVE  TracingInv'
<1>1. TracingTypeOK'
  BY ChangedContexts DEF Changes, TracingInv, TracingTypeOK, SpanContext,
                         DecodeWithoutPadding, SimpleAtoi
<1>2. /\ Persist /\ AllWellFormed' /\ FreshIds'
      /\ HeadersResolve' /\ ParentsResolve'
  BY <1>1, ChangeKeeps DEF Changes
<1>3. ReportsMatch'
  BY <1>2, ReportsPersist DEF TracingInv, Changes
<1> QED
  BY <1>1, <1>2, <1>3 DEF TracingInv

LEMMA AnnouncesInv ==
  ASSUME TracingInv, NEW h, Announces(h)
  PROVE  TracingInv'
<1>1. TracingTypeOK'
  BY DEF Announces, TracingInv, TracingTypeOK, SpanContext,
         DecodeWithoutPadding, SimpleAtoi
<1>2. HeadersResolve'
  <2>1. /\ UNCHANGED contexts /\ headers' = headers \cup {h}
        /\ \E p \in Contexts : Describes(SpanContext(h), p)
    BY DEF Announces
  <2>2. /\ Contexts' = Contexts
        /\ \A s, p : Describes(s, p)' <=> Describes(s, p)
    BY <2>1 DEF Contexts, Describes, SpansOf
  <2>3. \A g \in headers \cup {h} : SpanContext(g)' = SpanContext(g)
    BY DEF SpanContext, DecodeWithoutPadding, SimpleAtoi
  <2> QED
    BY <2>1, <2>2, <2>3 DEF TracingInv, HeadersResolve
<1>3. FreshIds' /\ AllWellFormed'
  BY DEF Announces, TracingInv, FreshIds, AllWellFormed, Contexts
<1>4. Persist
  BY ContextType, InheritsItself DEF Announces, Persist, Contexts, TracingInv
<1>5. ParentsResolve'
  BY <1>1, <1>4, OldContextsKept DEF ParentsResolve, Announces, Contexts
<1>6. ReportsMatch'
  BY <1>4, ReportsPersist DEF Announces, TracingInv
<1> QED
  BY <1>1, <1>2, <1>3, <1>5, <1>6 DEF TracingInv

LEMMA ShipsInv ==
  ASSUME TracingInv, NEW c, Ships(c)
  PROVE  TracingInv'
<1> DEFINE ctx == [contexts[c] EXCEPT !.sent = TRUE]
<1>1. c \in Contexts /\ contexts[c] \in ContextRec
  BY ContextType DEF Ships, TracingInv
<1>2. /\ ctx \in ContextRec /\ ctx.sent
      /\ ctx.tracer = contexts[c].tracer /\ ctx.trace = contexts[c].trace
      /\ ctx.segment = contexts[c].segment /\ ctx.parent = contexts[c].parent
      /\ ctx.mode = contexts[c].mode /\ ctx.spans = contexts[c].spans
      /\ ctx.should_skip = contexts[c].should_skip
  BY <1>1 DEF ContextRec
<1>3. Inherits(ctx, contexts[c])
  BY <1>1, <1>2, InheritsItself DEF Inherits
<1>4. WellFormed(ctx)
  <2>1. WellFormed(contexts[c])
    BY <1>1 DEF TracingInv, AllWellFormed
  <2> QED
    BY <1>2, <2>1 DEF WellFormed, InTree
<1>5. contexts' = [contexts EXCEPT ![c] = ctx]
  BY DEF Ships
<1> HIDE DEF ctx
<1>6. /\ contexts' \in Seq(ContextRec) /\ Contexts' = Contexts
      /\ contexts'[c] = ctx
  BY <1>1, <1>2, <1>5, ChangedContexts DEF TracingInv
<1>7. SegmentObject(contexts[c]) \in SegmentRec
  BY <1>1 DEF SegmentObject, SegmentRec, ContextRec
<1>8. /\ reported \in Seq(SegmentRec) /\ reported' \in Seq(SegmentRec)
      /\ Len(reported') = Len(reported) + 1
      /\ \A k \in 1..Len(reported) : reported'[k] = reported[k]
      /\ reported'[Len(reported) + 1] = SegmentObject(contexts[c])
  BY <1>7, AppendProperties DEF Ships, TracingInv, TracingTypeOK
<1>9. TracingTypeOK'
  BY <1>6, <1>8 DEF Ships, TracingInv, TracingTypeOK, SpanContext,
                    DecodeWithoutPadding, SimpleAtoi
<1>10. /\ Persist /\ AllWellFormed' /\ FreshIds'
       /\ HeadersResolve' /\ ParentsResolve'
  BY <1>1, <1>2, <1>3, <1>4, <1>5, <1>9, ChangeKeeps DEF Ships
<1>11. ReportsMatch'
  <2> SUFFICES ASSUME NEW k \in 1..Len(reported')
               PROVE  \E d \in Contexts' :
                        /\ contexts'[d].sent /\ ReadyToSend(contexts'[d])
                        /\ reported'[k] = SegmentObject(contexts'[d])
    BY DEF ReportsMatch
  <2>1. CASE k \in 1..Len(reported)
    <3>1. PICK d \in Contexts : /\ contexts[d].sent /\ ReadyToSend(contexts[d])
                                /\ reported[k] = SegmentObject(contexts[d])
      BY <2>1 DEF TracingInv, ReportsMatch
    <3>2. d \in Contexts' /\ Inherits(contexts'[d], contexts[d])
      BY <1>10, <3>1 DEF Persist
    <3> QED
      BY <1>8, <2>1, <3>1, <3>2 DEF Inherits, ReadyToSend, SegmentObject
  <2>2. CASE k = Len(reported) + 1
    <3>1. ReadyToSend(ctx) /\ SegmentObject(ctx) = SegmentObject(contexts[c])
      BY <1>2 DEF Ships, ReadyToSend, SegmentObject
    <3> QED
      BY <1>1, <1>2, <1>6, <1>8, <2>2, <3>1
  <2>3. Len(reported) \in Nat
    BY <1>8
  <2> QED
    BY <1>8, <2>1, <2>2, <2>3
<1> QED
  BY <1>9, <1>10, <1>11 DEF TracingInv

-----------------------------------------------------------------------------
(* The operations are steps of these kinds.                                *)

(* At the level of fields, the decoder undoes the encoder.                 *)
LEMMA HeaderReadsBack ==
  ASSUME NEW ctx, NEW span, NEW target
  PROVE  SpanContext(EncodeSpan(ctx, span, target)) =
           [ traceId |-> ctx.trace, traceSegmentId |-> ctx.segment,
             spanId |-> span.id, service |-> Service(ctx.tracer),
             serviceInstance |-> Instance(ctx.tracer),
             endpoint |-> ctx.spans[1].name, targetAddress |-> target ]
BY DEF SpanContext, EncodeSpan, Base64Encode, DecodeWithoutPadding,
       DecimalText, SimpleAtoi

LEMMA NewContextArrives ==
  ASSUME TracingInv, NEW t \in Tracers, NewContext(t)
  PROVE  \E ctx : Arrives(ctx)
<1> DEFINE ctx == Context(t, uuids + 1, uuids + 2, NoParent, "Default")
<1>1. uuids \in Nat /\ <<>> \in Seq(SpanRec)
  BY EmptySeq DEF TracingInv, TracingTypeOK
<1>2. ctx \in ContextRec
  BY <1>1 DEF Context, ContextRec
<1>3. /\ ctx.spans = <<>> /\ ~ctx.sent /\ ctx.mode = "Default"
      /\ ctx.segment = uuids + 2 /\ ctx.parent = NoParent
      /\ ctx.trace = uuids + 1
  BY DEF Context
<1>4. contexts' = Append(contexts, ctx) /\ uuids' = uuids + 2
      /\ UNCHANGED <<headers, reported>>
  BY DEF NewContext
<1> HIDE DEF ctx
<1>5. uuids' \in Nat /\ uuids' > uuids /\ ctx.segment = uuids'
      /\ ctx.trace \in (uuids + 1)..uuids'
  BY <1>1, <1>3, <1>4
<1>6. Arrives(ctx)
  BY <1>2, <1>3, <1>4, <1>5 DEF Arrives
<1> QED
  BY <1>6

LEMMA NewContextFromArrives ==
  ASSUME TracingInv, NEW t \in Tracers, NEW h \in headers,
         NEW mode \in {"Default", "Skip"}, NewContextFrom(t, h, mode)
  PROVE  \E ctx : Arrives(ctx)
<1> DEFINE parent == SpanContext(h)
           ctx == Context(t, parent.traceId, uuids + 1, parent, mode)
<1>1. uuids \in Nat /\ parent \in SpanContextRec /\ <<>> \in Seq(SpanRec)
  BY EmptySeq DEF TracingInv, TracingTypeOK
<1>2. parent.traceId \in Nat \ {0}
  BY <1>1 DEF SpanContextRec
<1>3. contexts' = Append(contexts, ctx) /\ uuids' = uuids + 1
      /\ UNCHANGED <<headers, reported>>
  BY DEF NewContextFrom
<1> HIDE DEF parent
<1>4. ctx \in ContextRec
  BY <1>1, <1>2 DEF Context, ContextRec
<1>5. /\ ctx.spans = <<>> /\ ~ctx.sent /\ ctx.mode = mode
      /\ ctx.should_skip = (mode = "Skip")
      /\ ctx.segment = uuids + 1 /\ ctx.parent = parent
      /\ ctx.trace = parent.traceId
  BY DEF Context
<1> HIDE DEF ctx
<1>6. uuids' \in Nat /\ uuids' > uuids /\ ctx.segment = uuids'
  BY <1>1, <1>3, <1>5
<1>7. Arrives(ctx)
  BY <1>3, <1>4, <1>5, <1>6 DEF Arrives, parent
<1> QED
  BY <1>7

(* A span that may be the next one of a context.                           *)
Fits(span, ctx) ==
  LET n == Len(ctx.spans)
  IN  /\ span.id = n
      /\ span.type = (IF n = 0 THEN "Entry" ELSE "Exit")
      /\ n = 0 => /\ span.parent = -1
                  /\ \A ref \in span.refs : ref = ctx.parent /\ ref # NoParent
      /\ n # 0 => span.parent \in 0..(n - 1) /\ span.refs = {}
      /\ span.skip = ctx.should_skip

LEMMA AddedSpanChanges ==
  ASSUME TracingInv, NEW c \in Contexts, ~contexts[c].sent,
         NEW span \in SpanRec, Fits(span, contexts[c]), AddSpan(c, span)
  PROVE  \E ctx : Changes(c, ctx)
<1> DEFINE old == contexts[c]
           ctx == [contexts[c] EXCEPT !.spans = Append(contexts[c].spans, span)]
           n   == Len(contexts[c].spans)
<1>1. old \in ContextRec /\ n \in Nat /\ old.spans \in Seq(SpanRec)
  BY ContextType DEF TracingInv, ContextRec
<1>2. /\ Append(old.spans, span) \in Seq(SpanRec)
      /\ Len(Append(old.spans, span)) = n + 1
      /\ \A i \in 1..n : Append(old.spans, span)[i] = old.spans[i]
      /\ Append(old.spans, span)[n + 1] = span
  BY <1>1, AppendProperties
<1>3. /\ ctx \in ContextRec /\ ctx.spans = Append(old.spans, span)
      /\ ctx.tracer = old.tracer /\ ctx.trace = old.trace
      /\ ctx.segment = old.segment /\ ctx.parent = old.parent
      /\ ctx.mode = old.mode /\ ctx.should_skip = old.should_skip
      /\ ctx.sent = old.sent
  BY <1>1, <1>2 DEF ContextRec
<1>4. contexts' = [contexts EXCEPT ![c] = ctx]
      /\ UNCHANGED <<uuids, headers, reported>>
  BY DEF AddSpan
<1>5. WellFormed(old)
  BY DEF TracingInv, AllWellFormed
<1> HIDE DEF ctx, old, n
<1>6. /\ Len(ctx.spans) = n + 1 /\ ctx.spans[n + 1] = span
      /\ \A i \in 1..n : ctx.spans[i] = old.spans[i]
      /\ Len(old.spans) = n
  BY <1>2, <1>3 DEF n, old
<1>7. Inherits(ctx, old)
  BY <1>1, <1>3, <1>6 DEF Inherits, SameSpan, old
<1>8. InTree(ctx, n + 1)
  <2>1. /\ span.id = n /\ span.type = (IF n = 0 THEN "Entry" ELSE "Exit")
        /\ n = 0 => /\ span.parent = -1
                    /\ \A ref \in span.refs : ref = old.parent /\ ref # NoParent
        /\ n # 0 => span.parent \in 0..(n - 1) /\ span.refs = {}
    BY DEF Fits, n, old
  <2> QED
    BY <1>1, <1>3, <1>6, <2>1 DEF InTree
<1>9. WellFormed(ctx)
  <2>1. \A i \in 1..n : InTree(ctx, i)
    BY <1>3, <1>5, <1>6 DEF WellFormed, InTree
  <2>2. \A i \in 1..(n + 1) : i \in 1..n \/ i = n + 1
    BY <1>1
  <2>3. \A i \in 1..(n + 1) : InTree(ctx, i)
    BY <1>8, <2>1, <2>2
  <2>4. ctx.mode = "Skip" =>
          ctx.should_skip /\ \A i \in 1..(n + 1) : ctx.spans[i].skip
    BY <1>3, <1>5, <1>6, <2>2 DEF WellFormed, Fits, old
  <2> QED
    BY <1>6, <2>3, <2>4 DEF WellFormed
<1>10. Changes(c, ctx)
  BY <1>3, <1>4, <1>7, <1>9 DEF Changes, old
<1> QED
  BY <1>10

LEMMA UpdatedSpanChanges ==
  ASSUME TracingInv, NEW c \in Contexts, ~contexts[c].sent,
         NEW i \in SpansOf(c), NEW span \in SpanRec,
         SameSpan(span, contexts[c].spans[i]), UpdateSpan(c, i, span)
  PROVE  \E ctx : Changes(c, ctx)
<1> DEFINE old == contexts[c]
           spans == [contexts[c].spans EXCEPT ![i] = span]
           ctx == [contexts[c] EXCEPT !.spans = spans]
<1>1. old \in ContextRec /\ Len(old.spans) \in Nat /\ old.spans \in Seq(SpanRec)
      /\ i \in 1..Len(old.spans)
  BY ContextType DEF TracingInv, ContextRec, SpansOf
<1>2. /\ spans \in Seq(SpanRec) /\ Len(spans) = Len(old.spans)
      /\ \A j \in 1..Len(old.spans) :
           spans[j] = IF j = i THEN span ELSE old.spans[j]
  BY <1>1, ExceptSeq
<1>3. contexts' = [contexts EXCEPT ![c] = ctx]
      /\ UNCHANGED <<uuids, headers, reported>>
  BY DEF UpdateSpan
<1> HIDE DEF spans
<1>4. /\ ctx \in ContextRec /\ ctx.spans = spans
      /\ ctx.tracer = old.tracer /\ ctx.trace = old.trace
      /\ ctx.segment = old.segment /\ ctx.parent = old.parent
      /\ ctx.mode = old.mode /\ ctx.should_skip = old.should_skip
      /\ ctx.sent = old.sent
  BY <1>1, <1>2 DEF ContextRec
<1>5. WellFormed(old)
  BY DEF TracingInv, AllWellFormed
<1> HIDE DEF ctx
<1>6. /\ Len(ctx.spans) = Len(old.spans)
      /\ \A j \in 1..Len(old.spans) : SameSpan(ctx.spans[j], old.spans[j])
  BY <1>1, <1>2, <1>4 DEF SameSpan
<1>7. Inherits(ctx, old)
  BY <1>1, <1>4, <1>6 DEF Inherits
<1>8. WellFormed(ctx)
  <2>1. ASSUME NEW j \in 1..Len(old.spans) PROVE InTree(ctx, j)
    <3>1. InTree(old, j) /\ SameSpan(ctx.spans[j], old.spans[j])
      BY <1>5, <1>6 DEF WellFormed
    <3> HIDE DEF old
    <3> QED
      BY <1>4, <3>1 DEF InTree, SameSpan
  <2>2. ctx.mode = "Skip" =>
          ctx.should_skip /\ \A j \in 1..Len(old.spans) : ctx.spans[j].skip
    BY <1>4, <1>5, <1>6 DEF WellFormed, SameSpan
  <2> QED
    BY <1>6, <2>1, <2>2 DEF WellFormed
<1>9. Changes(c, ctx)
  BY <1>3, <1>4, <1>7, <1>8 DEF Changes
<1> QED
  BY <1>9

LEMMA CreateEntrySpanChanges ==
  ASSUME TracingInv, NEW c, CreateEntrySpan(c)
  PROVE  \E ctx : Changes(c, ctx)
<1> DEFINE refs == IF contexts[c].parent = NoParent
                   THEN {} ELSE {contexts[c].parent}
           span == Span(contexts[c], -1, "Entry", refs)
<1>1. c \in Contexts /\ ~contexts[c].sent /\ contexts[c].spans = <<>>
      /\ contexts[c] \in ContextRec
  BY ContextType DEF CreateEntrySpan, Open, TracingInv
<1>2. Len(contexts[c].spans) = 0
  BY <1>1, EmptySeq
<1>3. refs \in SUBSET SpanContextRec
      /\ \A ref \in refs : ref = contexts[c].parent /\ ref # NoParent
  BY <1>1 DEF ContextRec
<1>4. AddSpan(c, span)
  BY DEF CreateEntrySpan
<1> HIDE DEF refs
<1>5. span \in SpanRec /\ Fits(span, contexts[c])
  BY <1>1, <1>2, <1>3 DEF Span, SpanRec, Fits, ContextRec, Names
<1> QED
  BY <1>1, <1>4, <1>5, AddedSpanChanges

LEMMA CreateExitSpanChanges ==
  ASSUME TracingInv, NEW c, NEW i, CreateExitSpan(c, i)
  PROVE  \E ctx : Changes(c, ctx)
<1> DEFINE n == Len(contexts[c].spans)
           span == Span(contexts[c], contexts[c].spans[i].id, "Exit", {})
<1>1. c \in Contexts /\ ~contexts[c].sent /\ i \in 1..n
      /\ contexts[c] \in ContextRec /\ n \in Nat
  BY ContextType DEF CreateExitSpan, Open, TracingInv, SpansOf, ContextRec
<1>2. contexts[c].spans[i].id = i - 1
  BY <1>1 DEF TracingInv, AllWellFormed, WellFormed, InTree
<1>3. AddSpan(c, span)
  BY DEF CreateExitSpan
<1>4. span \in SpanRec /\ Fits(span, contexts[c])
  BY <1>1, <1>2 DEF Span, SpanRec, Fits, ContextRec, Names
<1> QED
  BY <1>1, <1>3, <1>4, AddedSpanChanges

LEMMA SetSkipAnalysisChanges ==
  ASSUME TracingInv, NEW c, SetSkipAnalysis(c)
  PROVE  \E ctx : Changes(c, ctx)
<1> DEFINE old == contexts[c]
           ctx == [contexts[c] EXCEPT !.should_skip = TRUE]
<1>1. c \in Contexts /\ ~old.sent /\ old \in ContextRec /\ Len(old.spans) \in Nat
  BY ContextType DEF SetSkipAnalysis, Open, TracingInv, ContextRec
<1>2. /\ ctx \in ContextRec /\ ctx.spans = old.spans
      /\ ctx.tracer = old.tracer /\ ctx.trace = old.trace
      /\ ctx.segment = old.segment /\ ctx.parent = old.parent
      /\ ctx.mode = old.mode /\ ctx.should_skip /\ ctx.sent = old.sent
  BY <1>1 DEF ContextRec
<1>3. contexts' = [contexts EXCEPT ![c] = ctx]
      /\ UNCHANGED <<uuids, headers, reported>>
  BY DEF SetSkipAnalysis
<1>4. WellFormed(old)
  BY <1>1 DEF TracingInv, AllWellFormed
<1> HIDE DEF ctx
<1>5. Inherits(ctx, old)
  BY <1>1, <1>2 DEF Inherits, SameSpan
<1>6. WellFormed(ctx)
  BY <1>2, <1>4 DEF WellFormed, InTree
<1>7. Changes(c, ctx)
  BY <1>1, <1>2, <1>3, <1>5, <1>6 DEF Changes
<1> QED
  BY <1>7

LEMMA CreateSW8HeaderValueAnnounces ==
  ASSUME TracingInv, NEW c, NEW target \in Targets,
         CreateSW8HeaderValue(c, target)
  PROVE  \E h : Announces(h)
<1> DEFINE ctx == contexts[c]
           n == Len(contexts[c].spans)
           h == EncodeSpan(contexts[c], contexts[c].spans[n], target)
<1>1. c \in Contexts /\ ctx \in ContextRec /\ ctx.spans \in Seq(SpanRec)
  BY ContextType DEF CreateSW8HeaderValue, Open, TracingInv, ContextRec
<1>2. n \in Nat \ {0}
  BY <1>1, EmptySeq DEF CreateSW8HeaderValue
<1>3. ctx.spans[n] \in SpanRec /\ ctx.spans[1] \in SpanRec
      /\ ctx.spans[n].id = n - 1 /\ ctx.spans[n].type = "Exit"
  BY <1>1, <1>2 DEF CreateSW8HeaderValue, TracingInv, AllWellFormed, WellFormed,
                    InTree
<1>4. headers' = headers \cup {h} /\ UNCHANGED <<contexts, uuids, reported>>
  BY DEF CreateSW8HeaderValue
<1>5. SpanContext(h) =
        [ traceId |-> ctx.trace, traceSegmentId |-> ctx.segment,
          spanId |-> n - 1, service |-> Service(ctx.tracer),
          serviceInstance |-> Instance(ctx.tracer),
          endpoint |-> ctx.spans[1].name, targetAddress |-> target ]
  BY <1>3, HeaderReadsBack
<1>6. SpanContext(h) \in SpanContextRec
  <2>1. /\ ctx.trace \in Nat \ {0} /\ ctx.segment \in Nat
        /\ ctx.tracer \in Tracers /\ ctx.spans[1].name \in Names
    BY <1>1, <1>3 DEF ContextRec, SpanRec
  <2> HIDE DEF ctx, n, h
  <2> QED
    BY <1>2, <1>5, <2>1 DEF SpanContextRec
<1>7. Describes(SpanContext(h), c)
  <2>1. (n - 1) + 1 = n /\ n \in 1..n
    BY <1>2
  <2> HIDE DEF h
  <2> QED
    BY <1>1, <1>3, <1>5, <2>1 DEF Describes, SpansOf
<1>8. Announces(h)
  BY <1>1, <1>4, <1>6, <1>7 DEF Announces
<1> QED
  BY <1>8

LEMMA NameChanges ==
  ASSUME TracingInv, NEW c \in Contexts, ~contexts[c].sent, 1 \in SpansOf(c),
         NEW name \in OperationNames,
         UpdateSpan(c, 1, [contexts[c].spans[1] EXCEPT !.name = name])
  PROVE  \E ctx : Changes(c, ctx)
<1>1. contexts[c].spans[1] \in SpanRec
  BY ContextType DEF TracingInv, ContextRec, SpansOf
<1>2. /\ [contexts[c].spans[1] EXCEPT !.name = name] \in SpanRec
      /\ SameSpan([contexts[c].spans[1] EXCEPT !.name = name],
                  contexts[c].spans[1])
  BY <1>1 DEF SpanRec, SameSpan, Names
<1> QED
  BY <1>2, UpdatedSpanChanges

LEMMA EndSpanChanges ==
  ASSUME TracingInv, NEW c \in Contexts, ~contexts[c].sent, NEW i \in SpansOf(c),
         UpdateSpan(c, i, [contexts[c].spans[i] EXCEPT !.finished = TRUE])
  PROVE  \E ctx : Changes(c, ctx)
<1>1. contexts[c].spans[i] \in SpanRec
  BY ContextType DEF TracingInv, ContextRec, SpansOf
<1>2. /\ [contexts[c].spans[i] EXCEPT !.finished = TRUE] \in SpanRec
      /\ SameSpan([contexts[c].spans[i] EXCEPT !.finished = TRUE],
                  contexts[c].spans[i])
  BY <1>1 DEF SpanRec, SameSpan
<1> QED
  BY <1>2, UpdatedSpanChanges

LEMMA ReportShips ==
  ASSUME NEW c, Report(c)
  PROVE  Ships(c)
BY DEF Report, Open, Ships

TracingStep == \/ \E ctx : Arrives(ctx)
               \/ \E c, ctx : Changes(c, ctx)
               \/ \E h : Announces(h)
               \/ \E c : Ships(c)

LEMMA TracingStepInv == TracingInv /\ TracingStep => TracingInv'
BY ArrivesInv, ChangesInv, AnnouncesInv, ShipsInv DEF TracingStep

LEMMA NextIsTracingStep ==
  ASSUME TracingInv, Next
  PROVE  TracingStep
<1>1. ASSUME NEW t \in Tracers, NewContext(t) PROVE TracingStep
  BY <1>1, NewContextArrives DEF TracingStep
<1>2. ASSUME NEW t \in Tracers, NEW h \in headers,
             NEW mode \in {"Default", "Skip"}, NewContextFrom(t, h, mode)
      PROVE  TracingStep
  BY <1>2, NewContextFromArrives DEF TracingStep
<1>3. ASSUME NEW c, CreateEntrySpan(c) PROVE TracingStep
  BY <1>3, CreateEntrySpanChanges DEF TracingStep
<1>4. ASSUME NEW c, SetSkipAnalysis(c) PROVE TracingStep
  BY <1>4, SetSkipAnalysisChanges DEF TracingStep
<1>5. ASSUME NEW c, NEW target \in Targets, CreateSW8HeaderValue(c, target)
      PROVE  TracingStep
  BY <1>5, CreateSW8HeaderValueAnnounces DEF TracingStep
<1>6. ASSUME NEW c, Report(c) PROVE TracingStep
  BY <1>6, ReportShips DEF TracingStep
<1>7. ASSUME NEW c, NEW name \in OperationNames,
             StartSpan(c, name) \/ SetOperationName(c, name)
      PROVE  TracingStep
  BY <1>7, NameChanges DEF TracingStep, StartSpan, SetOperationName, Open
<1>8. ASSUME NEW c, NEW i, CreateExitSpan(c, i) PROVE TracingStep
  BY <1>8, CreateExitSpanChanges DEF TracingStep
<1>9. ASSUME NEW c, NEW i, EndSpan(c, i) PROVE TracingStep
  BY <1>9, EndSpanChanges DEF TracingStep, EndSpan, Open
<1> QED
  BY <1>1, <1>2, <1>3, <1>4, <1>5, <1>6, <1>7, <1>8, <1>9 DEF Next

LEMMA InitTracingInv == Init => TracingInv
<1> SUFFICES ASSUME Init PROVE TracingInv
  OBVIOUS
<1>1. /\ <<>> \in Seq(ContextRec) /\ <<>> \in Seq(SegmentRec) /\ Len(<<>>) = 0
      /\ 1..0 = {}
  BY EmptySeq
<1> QED
  BY <1>1 DEF Init, TracingInv, TracingTypeOK, FreshIds, AllWellFormed,
              HeadersResolve, ParentsResolve, ReportsMatch, Contexts

(* Nothing else matters than the variables of the module.                  *)
LEMMA TracingStutters ==
  ASSUME TracingInv, UNCHANGED vars
  PROVE  TracingInv'
<1>1. UNCHANGED <<contexts, uuids, headers, reported>>
  BY DEF vars
<1>2. TracingTypeOK'
  BY <1>1 DEF TracingInv, TracingTypeOK
<1>3. FreshIds' /\ AllWellFormed'
  BY <1>1 DEF TracingInv, FreshIds, AllWellFormed, Contexts
<1>4. HeadersResolve'
  BY <1>1 DEF TracingInv, HeadersResolve, Contexts, Describes, SpansOf,
              SpanContext, DecodeWithoutPadding, SimpleAtoi
<1>5. ParentsResolve'
  BY <1>1 DEF TracingInv, ParentsResolve, Contexts, Describes, SpansOf
<1>6. ReportsMatch'
  BY <1>1 DEF TracingInv, ReportsMatch, Contexts
<1> QED
  BY <1>2, <1>3, <1>4, <1>5, <1>6 DEF TracingInv

LEMMA TracingInvariant == Spec => []TracingInv
<1>1. TracingInv /\ [Next]_vars => TracingInv'
  <2> SUFFICES ASSUME TracingInv, [Next]_vars PROVE TracingInv'
    OBVIOUS
  <2>1. CASE Next
    BY <2>1, NextIsTracingStep, TracingStepInv
  <2>2. CASE UNCHANGED vars
    BY <2>2, TracingStutters
  <2> QED
    BY <2>1, <2>2
<1> QED
  BY <1>1, InitTracingInv, PTL DEF Spec

-----------------------------------------------------------------------------
(* What the invariant says of segments, traces and reports.                *)

LEMMA InvSegmentIsTree == TracingInv => SegmentIsTree
<1> SUFFICES ASSUME TracingInv, NEW k \in 1..Len(reported),
                    NEW i \in 1..Len(reported[k].spans)
             PROVE  LET spans == reported[k].spans
                    IN  /\ spans[i].id = i - 1 /\ spans[i].finished
                        /\ spans[i].type = (IF i = 1 THEN "Entry" ELSE "Exit")
                        /\ IF i = 1 THEN spans[i].parent = -1
                           ELSE /\ spans[i].parent \in 0..(i - 2)
                                /\ spans[i].refs = {}
  BY DEF SegmentIsTree
<1>1. PICK c \in Contexts : /\ ReadyToSend(contexts[c])
                            /\ reported[k] = SegmentObject(contexts[c])
  BY DEF TracingInv, ReportsMatch
<1>2. reported[k].spans = contexts[c].spans
  BY <1>1 DEF SegmentObject
<1>3. InTree(contexts[c], i) /\ contexts[c].spans[i].finished
  BY <1>1, <1>2 DEF TracingInv, AllWellFormed, WellFormed, ReadyToSend
<1> QED
  BY <1>2, <1>3 DEF InTree

LEMMA InvTraceIsTree == TracingInv => TraceIsTree
<1> SUFFICES ASSUME TracingInv PROVE TraceIsTree
  OBVIOUS
<1>1. ASSUME NEW c \in Contexts, contexts[c].parent # NoParent
      PROVE  \E p \in 1..(c - 1) :
               /\ ChildOf(c, p)
               /\ \A q \in Contexts : ChildOf(c, q) => q = p
               /\ contexts[p].trace = contexts[c].trace
               /\ contexts[c].parent.service = Service(contexts[p].tracer)
               /\ LET id == contexts[c].parent.spanId
                  IN  /\ id + 1 \in SpansOf(p)
                      /\ contexts[p].spans[id + 1].type = "Exit"
  <2>1. PICK p \in 1..(c - 1) : /\ Describes(contexts[c].parent, p)
                                /\ contexts[c].trace = contexts[p].trace
    BY <1>1 DEF TracingInv, ParentsResolve
  <2>2. \A q \in Contexts : ChildOf(c, q) => q = p
    BY <2>1 DEF ChildOf, Describes, TracingInv, FreshIds
  <2> QED
    BY <1>1, <2>1, <2>2 DEF ChildOf, Describes
<1> QED
  BY <1>1 DEF TraceIsTree, TracingInv, FreshIds

LEMMA InvReportedRefsResolve == TracingInv => ReportedRefsResolve
<1> SUFFICES ASSUME TracingInv, NEW k \in 1..Len(reported),
                    NEW n \in 1..Len(reported),
                    NEW i \in 1..Len(reported[k].spans),
                    NEW ref \in reported[k].spans[i].refs,
                    ref.traceSegmentId = reported[n].segment
             PROVE  /\ i = 1 /\ ref.traceId = reported[n].trace
                    /\ \E j \in 1..Len(reported[n].spans) :
                         /\ reported[n].spans[j].id = ref.spanId
                         /\ reported[n].spans[j].type = "Exit"
  BY DEF ReportedRefsResolve
<1>1. PICK c \in Contexts : reported[k] = SegmentObject(contexts[c])
  BY DEF TracingInv, ReportsMatch
<1>2. PICK d \in Contexts : reported[n] = SegmentObject(contexts[d])
  BY DEF TracingInv, ReportsMatch
<1>3. /\ reported[k].spans = contexts[c].spans
      /\ reported[n].spans = contexts[d].spans
      /\ reported[n].segment = contexts[d].segment
      /\ reported[n].trace = contexts[d].trace
  BY <1>1, <1>2 DEF SegmentObject
<1>4. InTree(contexts[c], i)
  BY <1>3 DEF TracingInv, AllWellFormed, WellFormed
<1>5. i = 1 /\ ref = contexts[c].parent /\ ref # NoParent
  BY <1>3, <1>4 DEF InTree
<1>6. PICK p \in 1..(c - 1) : Describes(ref, p)
  BY <1>5 DEF TracingInv, ParentsResolve
<1>7. p = d
  BY <1>3, <1>6 DEF Describes, TracingInv, FreshIds
<1>8. ref.spanId + 1 \in 1..Len(contexts[d].spans)
      /\ contexts[d].spans[ref.spanId + 1].type = "Exit"
      /\ ref.traceId = contexts[d].trace
  BY <1>6, <1>7 DEF Describes, SpansOf
<1>9. contexts[c] \in ContextRec
  BY ContextType DEF TracingInv
<1>10. ref.spanId \in Nat
  BY <1>5, <1>9 DEF ContextRec, SpanContextRec
<1>11. contexts[d].spans[ref.spanId + 1].id = ref.spanId
  <2>1. InTree(contexts[d], ref.spanId + 1)
    BY <1>8 DEF TracingInv, AllWellFormed, WellFormed
  <2> QED
    BY <1>10, <2>1 DEF InTree
<1> QED
  BY <1>3, <1>5, <1>8, <1>11

(* Every reported segment is one finished tree with an entry span as its   *)
(* root, in whatever order spans were created, ended and report was tried. *)
THEOREM ReportedSegmentIsTree == Spec => []SegmentIsTree
BY TracingInvariant, InvSegmentIsTree, PTL

(* A context made of a header has exactly one parent, an earlier context   *)
(* of the same trace, and hangs below one of its exit spans; a trace has   *)
(* one root. Headers may be lost, delayed, duplicated and reordered.       *)
THEOREM TracesAreTrees == Spec => []TraceIsTree
BY TracingInvariant, InvTraceIsTree, PTL

(* Of two reported segments, a reference from one into the other names an  *)
(* exit span the other has.                                                *)
THEOREM ReferencesResolve == Spec => []ReportedRefsResolve
BY TracingInvariant, InvReportedRefsResolve, PTL

(* No span is analysed in a context started by a caller in mode Skip.      *)
THEOREM SkipModeIsHonoured == Spec => []SkipModeHonoured
<1>1. TracingInv => SkipModeHonoured
  BY DEF TracingInv, AllWellFormed, WellFormed, SkipModeHonoured, SpansOf
<1> QED
  BY <1>1, TracingInvariant, PTL
=============================================================================
