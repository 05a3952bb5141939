------------------------- MODULE RaiiTracingProofs -------------------------
(***************************************************************************)
(* Proofs about RaiiTracing: spans that are scope objects. The invariant   *)
(* of TracingContextProofs holds of these applications as well, and the    *)
(* scope objects of a request are exactly its unfinished spans, outermost  *)
(* first (ScopesMatch).                                                    *)
(***************************************************************************)
EXTENDS RaiiTracing, TracingContextProofs

-----------------------------------------------------------------------------
(* The inductive invariant.                                                *)

(* s is the stack of scope objects of ctx.                                 *)
ScopesMatch(ctx, s) ==
  /\ s \in Seq(Nat)
  /\ \A k \in 1..Len(s) : /\ s[k] \in 1..Len(ctx.spans)
                          /\ ~ctx.spans[s[k]].finished
  /\ \A k, l \in 1..Len(s) : k < l => s[k] < s[l]
  /\ \A i \in 1..Len(ctx.spans) :
       ~ctx.spans[i].finished => \E k \in 1..Len(s) : s[k] = i
  /\ ctx.sent => s = <<>>

ScopeInv ==
  /\ scopes \in [1..MaxContexts -> Seq(Nat)]
  /\ Len(contexts) <= MaxContexts
  /\ \A c \in 1..MaxContexts : c \notin Contexts => scopes[c] = <<>>
  /\ \A c \in Contexts : ScopesMatch(contexts[c], scopes[c])

RaiiInv == TracingInv /\ ScopeInv

-----------------------------------------------------------------------------
(* A scope of one context is opened or closed.                             *)

LEMMA ScopeOpened ==
  ASSUME NEW ctx \in ContextRec, NEW s, ScopesMatch(ctx, s), ~ctx.sent,
         NEW span \in SpanRec, ~span.finished,
         NEW new \in ContextRec, ~new.sent, new.spans = Append(ctx.spans, span)
  PROVE  ScopesMatch(new, Append(s, Len(ctx.spans) + 1))
<1> DEFINE n == Len(ctx.spans)
           m == Len(s)
           t == Append(s, Len(ctx.spans) + 1)
<1>1. n \in Nat /\ ctx.spans \in Seq(SpanRec) /\ m \in Nat /\ s \in Seq(Nat)
  BY DEF ContextRec, ScopesMatch
<1>2. /\ Len(new.spans) = n + 1 /\ new.spans[n + 1] = span
      /\ \A i \in 1..n : new.spans[i] = ctx.spans[i]
  BY <1>1, AppendProperties
<1>3. /\ t \in Seq(Nat) /\ Len(t) = m + 1 /\ t[m + 1] = n + 1
      /\ \A k \in 1..m : t[k] = s[k]
  BY <1>1, AppendProperties
<1>4. /\ \A k \in 1..m : s[k] \in 1..n /\ ~ctx.spans[s[k]].finished
      /\ \A k, l \in 1..m : k < l => s[k] < s[l]
      /\ \A i \in 1..n : ~ctx.spans[i].finished => \E k \in 1..m : s[k] = i
  BY DEF ScopesMatch
<1> HIDE DEF n, m, t
<1>5. /\ \A i \in 1..(n + 1) : i \in 1..n \/ i = n + 1
      /\ \A k \in 1..(m + 1) : k \in 1..m \/ k = m + 1
      /\ n + 1 \in 1..(n + 1) /\ 1..n \subseteq 1..(n + 1)
      /\ m + 1 \in 1..(m + 1) /\ 1..m \subseteq 1..(m + 1)
  BY <1>1
<1>6. \A k \in 1..(m + 1) : t[k] \in 1..(n + 1) /\ ~new.spans[t[k]].finished
  <2>1. ASSUME NEW k \in 1..m
        PROVE  t[k] \in 1..n /\ ~new.spans[t[k]].finished
    <3>1. t[k] = s[k] /\ s[k] \in 1..n /\ ~ctx.spans[s[k]].finished
      BY <1>3, <1>4, Zenon
    <3>2. \A i \in 1..n : new.spans[i] = ctx.spans[i]
      BY <1>2
    <3>3. new.spans[s[k]] = ctx.spans[s[k]]
      BY <3>1, <3>2, Zenon
    <3> QED
      BY <3>1, <3>3, Zenon
  <2>2. t[m + 1] = n + 1 /\ ~new.spans[n + 1].finished
    BY <1>2, <1>3
  <2> QED
    BY <1>5, <2>1, <2>2, Zenon
<1>7. \A k, l \in 1..(m + 1) : k < l => t[k] < t[l]
  <2> SUFFICES ASSUME NEW k \in 1..(m + 1), NEW l \in 1..(m + 1), k < l
               PROVE  t[k] < t[l]
    OBVIOUS
  <2>1. k \in 1..m /\ t[k] = s[k] /\ s[k] \in 1..n
    BY <1>1, <1>3, <1>4
  <2>2. CASE l \in 1..m
    BY <1>3, <1>4, <2>1, <2>2
  <2>3. CASE l = m + 1
    BY <1>1, <1>3, <2>1, <2>3
  <2> QED
    BY <1>5, <2>2, <2>3
<1>8. \A i \in 1..(n + 1) :
        ~new.spans[i].finished => \E k \in 1..(m + 1) : t[k] = i
  BY <1>2, <1>3, <1>4, <1>5
<1> QED
  BY <1>2, <1>3, <1>6, <1>7, <1>8 DEF ScopesMatch, t

(* The innermost scope is the last span that still runs.                   *)
LEMMA ScopeClosed ==
  ASSUME NEW ctx \in ContextRec, NEW s, ScopesMatch(ctx, s), s # <<>>,
         NEW new \in ContextRec, new.sent = ctx.sent,
         new.spans = [ctx.spans EXCEPT ![s[Len(s)]] =
                        [ctx.spans[s[Len(s)]] EXCEPT !.finished = TRUE]]
  PROVE  ScopesMatch(new, SubSeq(s, 1, Len(s) - 1))
<1> DEFINE n == Len(ctx.spans)
           m == Len(s)
           j == s[Len(s)]
           t == SubSeq(s, 1, Len(s) - 1)
<1>1. n \in Nat /\ ctx.spans \in Seq(SpanRec) /\ s \in Seq(Nat)
      /\ m \in Nat \ {0} /\ ~ctx.sent
  BY EmptySeq DEF ContextRec, ScopesMatch
<1>2. j \in 1..n
  BY <1>1 DEF ScopesMatch
<1>3. /\ Len(new.spans) = n
      /\ \A i \in 1..n : i # j => new.spans[i] = ctx.spans[i]
      /\ new.spans[j].finished
  <2>1. ctx.spans[j] \in SpanRec
    BY <1>1, <1>2
  <2>2. [ctx.spans[j] EXCEPT !.finished = TRUE] \in SpanRec
        /\ [ctx.spans[j] EXCEPT !.finished = TRUE].finished
    BY <2>1 DEF SpanRec
  <2> QED
    BY <1>1, <1>2, <2>2, ExceptSeq
<1>4. /\ t \in Seq(Nat) /\ Len(t) = m - 1
      /\ \A k \in 1..(m - 1) : t[k] = s[k]
  <2>1. \A i \in 1..(m - 1) : s[i] \in Nat
    BY <1>1
  <2>2. /\ t \in Seq(Nat) /\ Len(t) = (IF 1 <= m - 1 THEN (m - 1) - 1 + 1 ELSE 0)
        /\ \A i \in 1..((m - 1) - 1 + 1) : t[i] = s[1 + i - 1]
    BY <1>1, <2>1, SubSeqProperties
  <2> HIDE DEF m, t
  <2>3. /\ (m - 1) - 1 + 1 = m - 1 /\ (~(1 <= m - 1) => m - 1 = 0)
        /\ \A i \in 1..(m - 1) : 1 + i - 1 = i
    BY <1>1
  <2> QED
    BY <2>2, <2>3
<1>5. /\ \A k \in 1..m : s[k] \in 1..n /\ ~ctx.spans[s[k]].finished
      /\ \A k, l \in 1..m : k < l => s[k] < s[l]
      /\ \A i \in 1..n : ~ctx.spans[i].finished => \E k \in 1..m : s[k] = i
      /\ j = s[m]
  BY DEF ScopesMatch
<1> HIDE DEF n, m, j, t
<1>6. /\ \A k \in 1..m : k \in 1..(m - 1) \/ k = m
      /\ 1..(m - 1) \subseteq 1..m /\ m \in 1..m
      /\ \A k \in 1..(m - 1) : k < m
  BY <1>1
<1>7. \A k \in 1..(m - 1) : s[k] < j /\ s[k] # j
  BY <1>1, <1>2, <1>5, <1>6
<1>8. ScopesMatch(new, t)
  <2>1. \A k \in 1..(m - 1) : t[k] \in 1..n /\ ~new.spans[t[k]].finished
    <3> SUFFICES ASSUME NEW k \in 1..(m - 1)
                 PROVE  t[k] \in 1..n /\ ~new.spans[t[k]].finished
      OBVIOUS
    <3>1. /\ t[k] = s[k] /\ s[k] \in 1..n /\ s[k] # j
          /\ ~ctx.spans[s[k]].finished
      BY <1>4, <1>5, <1>6, <1>7
    <3> QED
      BY <1>3, <3>1
  <2>2. \A k, l \in 1..(m - 1) : k < l => t[k] < t[l]
    BY <1>4, <1>5, <1>6
  <2>3. \A i \in 1..n :
          ~new.spans[i].finished => \E k \in 1..(m - 1) : t[k] = i
    <3> SUFFICES ASSUME NEW i \in 1..n, ~new.spans[i].finished
                 PROVE  \E k \in 1..(m - 1) : t[k] = i
      OBVIOUS
    <3>1. i # j /\ ~ctx.spans[i].finished
      BY <1>3
    <3>2. PICK k \in 1..m : s[k] = i
      BY <1>5, <3>1
    <3>3. k \in 1..(m - 1)
      BY <1>5, <1>6, <3>1, <3>2
    <3> QED
      BY <1>4, <3>2, <3>3
  <2> QED
    BY <1>1, <1>3, <1>4, <2>1, <2>2, <2>3 DEF ScopesMatch
<1> QED
  BY <1>8 DEF t

-----------------------------------------------------------------------------
(* Every step of such an application preserves the invariant.              *)

(* Context c becomes new, and t is its stack.                              *)
LEMMA ScopeInvOfChange ==
  ASSUME TracingInv, ScopeInv, NEW c \in Contexts, NEW new \in ContextRec,
         NEW t, ScopesMatch(new, t),
         contexts' = [contexts EXCEPT ![c] = new],
         scopes' = [scopes EXCEPT ![c] = t]
  PROVE  ScopeInv'
<1>1. /\ contexts \in Seq(ContextRec) /\ c \in 1..Len(contexts)
      /\ Len(contexts) \in Nat /\ Len(contexts) <= MaxContexts
      /\ Contexts = 1..Len(contexts)
  BY DEF TracingInv, TracingTypeOK, ScopeInv, Contexts
<1>2. /\ Contexts' = Contexts /\ contexts'[c] = new
      /\ \A d \in Contexts : d # c => contexts'[d] = contexts[d]
      /\ Len(contexts') = Len(contexts)
  <2>1. /\ Contexts' = Contexts /\ contexts'[c] = new
        /\ \A d \in Contexts : d # c => contexts'[d] = contexts[d]
    BY ChangedContexts DEF TracingInv
  <2>2. Len(contexts') = Len(contexts)
    BY <1>1, ExceptSeq
  <2> QED
    BY <2>1, <2>2
<1>3. c \in 1..MaxContexts /\ t \in Seq(Nat)
  BY <1>1, TracingBounds DEF ScopesMatch
<1>4. /\ scopes' \in [1..MaxContexts -> Seq(Nat)] /\ scopes'[c] = t
      /\ \A d \in 1..MaxContexts : d # c => scopes'[d] = scopes[d]
  BY <1>3 DEF ScopeInv
<1>5. Contexts \subseteq 1..MaxContexts
  BY <1>1, TracingBounds
<1> QED
  BY <1>1, <1>2, <1>4, <1>5 DEF ScopeInv

LEMMA ContextArrives ==
  ASSUME RaiiInv, NEW ctx, Arrives(ctx), UNCHANGED scopes,
         Len(contexts) < MaxContexts
  PROVE  RaiiInv'
<1> DEFINE n == Len(contexts)
<1>1. n \in Nat /\ contexts \in Seq(ContextRec) /\ uuids \in Nat
  BY DEF RaiiInv, TracingInv, TracingTypeOK
<1>2. /\ Len(contexts') = n + 1 /\ contexts'[n + 1] = ctx
      /\ \A c \in 1..n : contexts'[c] = contexts[c]
  BY <1>1, AppendProperties DEF Arrives
<1>3. n < MaxContexts /\ MaxContexts \in Nat
  BY TracingBounds
<1> HIDE DEF n
<1>4. /\ Contexts = 1..n /\ Contexts' = 1..(n + 1)
      /\ \A c \in Contexts' : c \in Contexts \/ c = n + 1
      /\ n + 1 \in 1..MaxContexts /\ n + 1 \notin Contexts
  BY <1>1, <1>2, <1>3 DEF Contexts, n
<1>5. TracingInv'
  BY ArrivesInv DEF RaiiInv
<1>6. ScopeInv'
  <2>1. scopes[n + 1] = <<>>
    BY <1>4 DEF RaiiInv, ScopeInv
  <2>2. ScopesMatch(ctx, <<>>)
    BY EmptySeq DEF Arrives, ScopesMatch
  <2>3. n + 1 <= MaxContexts
    BY <1>1, <1>3
  <2>4. \A c \in Contexts' : ScopesMatch(contexts'[c], scopes[c])
    BY <1>2, <1>4, <2>1, <2>2 DEF RaiiInv, ScopeInv
  <2>5. \A c \in 1..MaxContexts : c \notin Contexts' => scopes[c] = <<>>
    BY <1>1, <1>4 DEF RaiiInv, ScopeInv
  <2> QED
    BY <1>2, <2>3, <2>4, <2>5 DEF RaiiInv, ScopeInv
<1> QED
  BY <1>5, <1>6 DEF RaiiInv

(* A span is created, and its scope object with it.                        *)
LEMMA ScopeOpens ==
  ASSUME RaiiInv, NEW c \in Contexts, ~contexts[c].sent,
         NEW span \in SpanRec, Fits(span, contexts[c]), ~span.finished,
         OpenScope(c, span)
  PROVE  RaiiInv'
<1> DEFINE old == contexts[c]
           new == [contexts[c] EXCEPT !.spans = Append(contexts[c].spans, span)]
           t   == Append(scopes[c], Len(contexts[c].spans) + 1)
<1>1. TracingInv /\ ScopeInv /\ old \in ContextRec
      /\ old.spans \in Seq(SpanRec) /\ Len(old.spans) \in Nat
  BY ContextType DEF RaiiInv, TracingInv, ContextRec
<1>2. TracingInv'
  BY <1>1, AddedSpanChanges, ChangesInv DEF OpenScope
<1>3. /\ new \in ContextRec /\ new.spans = Append(old.spans, span)
      /\ new.sent = old.sent
  BY <1>1, AppendProperties DEF ContextRec
<1>4. contexts' = [contexts EXCEPT ![c] = new]
      /\ scopes' = [scopes EXCEPT ![c] = t]
  BY DEF OpenScope, AddSpan
<1>5. ScopesMatch(old, scopes[c])
  BY <1>1 DEF ScopeInv
<1> HIDE DEF new
<1>6. ScopesMatch(new, t)
  BY <1>1, <1>3, <1>5, ScopeOpened
<1>7. ScopeInv'
  BY <1>1, <1>3, <1>4, <1>6, ScopeInvOfChange
<1> QED
  BY <1>2, <1>7 DEF RaiiInv

LEMMA ScopeCloses ==
  ASSUME RaiiInv, NEW c \in Contexts, CloseScope(c)
  PROVE  RaiiInv'
<1> DEFINE old   == contexts[c]
           s     == scopes[c]
           j     == InnermostScope(c)
           spans == [contexts[c].spans EXCEPT
                       ![j] = [contexts[c].spans[j] EXCEPT !.finished = TRUE]]
           new   == [contexts[c] EXCEPT !.spans = spans]
           t     == SubSeq(scopes[c], 1, Len(scopes[c]) - 1)
<1>1. TracingInv /\ ScopeInv /\ old \in ContextRec
      /\ old.spans \in Seq(SpanRec) /\ Len(old.spans) \in Nat
  BY ContextType DEF RaiiInv, TracingInv, ContextRec
<1>2. ScopesMatch(old, s) /\ s # <<>>
  BY <1>1 DEF ScopeInv, CloseScope
<1>3. j \in 1..Len(old.spans) /\ ~old.sent /\ j = s[Len(s)]
  <2>1. Len(s) \in 1..Len(s)
    BY <1>2, EmptySeq DEF ScopesMatch
  <2> QED
    BY <1>2, <2>1 DEF ScopesMatch, InnermostScope
<1>4. UpdateSpan(c, j, [contexts[c].spans[j] EXCEPT !.finished = TRUE])
  BY DEF CloseScope
<1>5. TracingInv'
  BY <1>1, <1>3, <1>4, EndSpanChanges, ChangesInv DEF SpansOf
<1>6. spans \in Seq(SpanRec)
  <2>1. old.spans[j] \in SpanRec
    BY <1>1, <1>3
  <2>2. [old.spans[j] EXCEPT !.finished = TRUE] \in SpanRec
    BY <2>1 DEF SpanRec
  <2> HIDE DEF j, old
  <2>3. [old.spans EXCEPT ![j] = [old.spans[j] EXCEPT !.finished = TRUE]]
          \in Seq(SpanRec)
    BY <1>1, <1>3, <2>2, ExceptSeq
  <2> QED
    BY <2>3 DEF old
<1>7. contexts' = [contexts EXCEPT ![c] = new]
      /\ scopes' = [scopes EXCEPT ![c] = t]
  BY DEF CloseScope, UpdateSpan
<1>8. new.spans = [old.spans EXCEPT ![s[Len(s)]] =
                     [old.spans[s[Len(s)]] EXCEPT !.finished = TRUE]]
  BY <1>1, <1>3 DEF ContextRec
<1> HIDE DEF spans, j
<1>9. new \in ContextRec /\ new.sent = old.sent
  BY <1>1, <1>6 DEF ContextRec
<1> HIDE DEF new
<1>10. ScopesMatch(new, t)
  BY <1>1, <1>2, <1>8, <1>9, ScopeClosed
<1>11. ScopeInv'
  BY <1>1, <1>7, <1>9, <1>10, ScopeInvOfChange
<1> QED
  BY <1>5, <1>11 DEF RaiiInv

(* A name given through get() leaves every scope open that was open.       *)
LEMMA SpanIsNamed ==
  ASSUME RaiiInv, NEW c, NEW name \in OperationNames, NameThroughGet(c, name)
  PROVE  RaiiInv'
<1> DEFINE old   == contexts[c]
           first == [contexts[c].spans[1] EXCEPT !.name = name]
           spans == [contexts[c].spans EXCEPT ![1] = first]
           new   == [contexts[c] EXCEPT !.spans = spans]
<1>1. /\ c \in Contexts /\ ~old.sent /\ 1 \in SpansOf(c)
      /\ UpdateSpan(c, 1, first) /\ UNCHANGED scopes
  BY DEF NameThroughGet, StartSpan, SetOperationName, Open
<1>2. TracingInv /\ ScopeInv /\ old \in ContextRec
      /\ old.spans \in Seq(SpanRec) /\ 1 \in 1..Len(old.spans)
  BY <1>1, ContextType DEF RaiiInv, TracingInv, ContextRec, SpansOf
<1>3. TracingInv'
  BY <1>1, <1>2, NameChanges, ChangesInv
<1>4. first \in SpanRec /\ first.finished = old.spans[1].finished
  <2>1. old.spans[1] \in SpanRec
    BY <1>2
  <2> QED
    BY <2>1 DEF SpanRec, Names
<1> HIDE DEF first
<1>5. /\ spans \in Seq(SpanRec) /\ Len(spans) = Len(old.spans)
      /\ \A i \in 1..Len(old.spans) :
           spans[i].finished = old.spans[i].finished
  BY <1>2, <1>4, ExceptSeq
<1>6. contexts' = [contexts EXCEPT ![c] = new]
  BY <1>1 DEF UpdateSpan
<1> HIDE DEF spans
<1>7. new \in ContextRec /\ new.spans = spans /\ new.sent = old.sent
  BY <1>2, <1>5 DEF ContextRec
<1> HIDE DEF new
<1>8. ScopesMatch(old, scopes[c]) /\ scopes' = [scopes EXCEPT ![c] = scopes[c]]
  BY <1>1, <1>2 DEF ScopeInv
<1>9. ScopesMatch(new, scopes[c])
  BY <1>5, <1>7, <1>8 DEF ScopesMatch
<1>10. ScopeInv'
  BY <1>1, <1>2, <1>6, <1>7, <1>8, <1>9, ScopeInvOfChange
<1> QED
  BY <1>3, <1>10 DEF RaiiInv

LEMMA HeaderIsMade ==
  ASSUME RaiiInv, NEW c, NEW target \in Targets,
         CreateSW8HeaderValue(c, target), UNCHANGED scopes
  PROVE  RaiiInv'
<1>1. TracingInv /\ ScopeInv
  BY DEF RaiiInv
<1>2. TracingInv'
  BY <1>1, CreateSW8HeaderValueAnnounces, AnnouncesInv
<1>3. UNCHANGED contexts
  BY DEF CreateSW8HeaderValue
<1>4. ScopeInv'
  BY <1>1, <1>3 DEF ScopeInv, Contexts
<1> QED
  BY <1>2, <1>4 DEF RaiiInv

(* A context whose spans have all ended has no scope object.               *)
LEMMA ReadyHasNoScope ==
  ASSUME NEW ctx \in ContextRec, NEW s, ScopesMatch(ctx, s)
  PROVE  ReadyToSend(ctx) <=> s = <<>>
<1>1. s \in Seq(Nat) /\ Len(s) \in Nat
  BY DEF ScopesMatch
<1>2. ASSUME s = <<>> PROVE ReadyToSend(ctx)
  BY <1>2, EmptySeq DEF ScopesMatch, ReadyToSend
<1>3. ASSUME ReadyToSend(ctx), s # <<>> PROVE FALSE
  <2>1. 1 \in 1..Len(s)
    BY <1>1, <1>3, EmptySeq
  <2> QED
    BY <1>3, <2>1 DEF ScopesMatch, ReadyToSend
<1> QED
  BY <1>2, <1>3

LEMMA ContextReported ==
  ASSUME RaiiInv, NEW c, Report(c), UNCHANGED scopes
  PROVE  RaiiInv'
<1> DEFINE old == contexts[c]
           new == [contexts[c] EXCEPT !.sent = TRUE]
<1>1. TracingInv /\ ScopeInv /\ c \in Contexts
      /\ old \in ContextRec
  BY ContextType DEF RaiiInv, TracingInv, Report, Open
<1>2. TracingInv'
  BY <1>1, ReportShips, ShipsInv
<1>3. new \in ContextRec /\ new.spans = old.spans
  BY <1>1 DEF ContextRec
<1>4. contexts' = [contexts EXCEPT ![c] = new] /\ ReadyToSend(old)
  BY DEF Report
<1>5. ScopesMatch(old, scopes[c])
  BY <1>1 DEF ScopeInv
<1>6. scopes[c] = <<>>
  BY <1>1, <1>4, <1>5, ReadyHasNoScope
<1> HIDE DEF new
<1>7. ScopesMatch(new, scopes[c])
  BY <1>3, <1>5, <1>6 DEF ScopesMatch
<1>8. scopes' = [scopes EXCEPT ![c] = scopes[c]]
  BY <1>1 DEF ScopeInv
<1>9. ScopeInv'
  BY <1>1, <1>3, <1>4, <1>7, <1>8, ScopeInvOfChange
<1> QED
  BY <1>2, <1>9 DEF RaiiInv

LEMMA StartEntrySpanOpens ==
  ASSUME RaiiInv, NEW c, NEW name \in OperationNames, StartEntrySpan(c, name)
  PROVE  RaiiInv'
<1> DEFINE refs == IF contexts[c].parent = NoParent
                   THEN {} ELSE {contexts[c].parent}
           created == Span(contexts[c], -1, "Entry", refs)
           span == [created EXCEPT !.name = name]
<1>1. c \in Contexts /\ ~contexts[c].sent /\ contexts[c].spans = <<>>
      /\ contexts[c] \in ContextRec
  BY ContextType DEF StartEntrySpan, Open, RaiiInv, TracingInv
<1>2. Len(contexts[c].spans) = 0
  BY <1>1, EmptySeq
<1>3. refs \in SUBSET SpanContextRec
      /\ \A ref \in refs : ref = contexts[c].parent /\ ref # NoParent
  BY <1>1 DEF ContextRec
<1>4. OpenScope(c, span)
  BY DEF StartEntrySpan
<1> HIDE DEF refs
<1>5. /\ created \in SpanRec /\ ~created.finished
      /\ Fits(created, contexts[c])
  BY <1>1, <1>2, <1>3 DEF Span, SpanRec, Fits, ContextRec, Names
<1> HIDE DEF created
<1>6. /\ span \in SpanRec /\ ~span.finished
      /\ Fits(span, contexts[c])
  BY <1>5 DEF SpanRec, Fits, Names
<1> QED
  BY <1>1, <1>4, <1>6, ScopeOpens

LEMMA StartExitSpanOpens ==
  ASSUME RaiiInv, NEW c, NEW i, NEW name \in OperationNames,
         StartExitSpan(c, i, name)
  PROVE  RaiiInv'
<1> DEFINE n == Len(contexts[c].spans)
           created == Span(contexts[c], contexts[c].spans[i].id, "Exit", {})
           span == [created EXCEPT !.name = name]
<1>1. TracingInv /\ c \in Contexts /\ ~contexts[c].sent
      /\ contexts[c] \in ContextRec /\ n \in Nat
  BY ContextType DEF RaiiInv, TracingInv, StartExitSpan, Open, ContextRec
<1>2. i \in 1..n
  BY DEF StartExitSpan, SpansOf
<1>3. contexts[c].spans[i].id = i - 1
  BY <1>1, <1>2 DEF TracingInv, AllWellFormed, WellFormed, InTree
<1>4. OpenScope(c, span)
  BY DEF StartExitSpan
<1>5. created \in SpanRec /\ ~created.finished /\ Fits(created, contexts[c])
  BY <1>1, <1>2, <1>3 DEF Span, SpanRec, Fits, ContextRec, Names
<1> HIDE DEF created
<1>6. span \in SpanRec /\ ~span.finished /\ Fits(span, contexts[c])
  BY <1>5 DEF SpanRec, Fits, Names
<1> QED
  BY <1>1, <1>4, <1>6, ScopeOpens

LEMMA NextRaiiInv ==
  ASSUME RaiiInv, RaiiNext
  PROVE  RaiiInv'
<1>0. TracingInv /\ ScopeInv
  BY DEF RaiiInv
<1>1. ASSUME NEW t \in Tracers, NewContext(t), UNCHANGED scopes PROVE RaiiInv'
  BY <1>0, <1>1, NewContextArrives, ContextArrives DEF NewContext
<1>2. ASSUME NEW t \in Tracers, NEW h \in headers,
             NewContextFrom(t, h, "Default"), UNCHANGED scopes
      PROVE  RaiiInv'
  BY <1>0, <1>2, NewContextFromArrives, ContextArrives DEF NewContextFrom
<1>3. ASSUME NEW c \in 1..MaxContexts, CloseScope(c) PROVE RaiiInv'
  <2>1. c \in Contexts
    BY <1>0, <1>3 DEF ScopeInv, CloseScope
  <2> QED
    BY <1>3, <2>1, ScopeCloses
<1> QED
  BY <1>1, <1>2, <1>3, StartEntrySpanOpens, SpanIsNamed, StartExitSpanOpens,
     HeaderIsMade, ContextReported DEF RaiiNext

LEMMA InitRaiiInv == RaiiInit => RaiiInv
<1> SUFFICES ASSUME RaiiInit PROVE RaiiInv
  OBVIOUS
<1>1. TracingInv
  BY InitTracingInv DEF RaiiInit
<1>2. <<>> \in Seq(Nat) /\ Len(contexts) = 0 /\ Contexts = {}
  BY EmptySeq DEF RaiiInit, Init, Contexts
<1>3. ScopeInv
  BY <1>2, TracingBounds DEF RaiiInit, ScopeInv
<1> QED
  BY <1>1, <1>3 DEF RaiiInv

LEMMA RaiiStutters ==
  ASSUME RaiiInv, UNCHANGED raiiVars
  PROVE  RaiiInv'
<1>1. UNCHANGED vars /\ UNCHANGED scopes
  BY DEF raiiVars
<1>2. TracingInv'
  BY <1>1, TracingStutters DEF RaiiInv
<1>3. ScopeInv'
  BY <1>1 DEF RaiiInv, vars, ScopeInv, Contexts
<1> QED
  BY <1>2, <1>3 DEF RaiiInv

LEMMA RaiiInvariant == RaiiSpec => []RaiiInv
<1>1. RaiiInv /\ [RaiiNext]_raiiVars => RaiiInv'
  BY NextRaiiInv, RaiiStutters
<1> QED
  BY <1>1, InitRaiiInv, PTL DEF RaiiSpec

-----------------------------------------------------------------------------
(* A segment leaves its context only when no scope object refers to it, so *)
(* no destructor ends a span that the client owns.                         *)
THEOREM NoScopeAfterReport == RaiiSpec => []NoUseAfterReport
<1>1. RaiiInv => NoUseAfterReport
  BY DEF RaiiInv, ScopeInv, ScopesMatch, NoUseAfterReport
<1> QED
  BY <1>1, RaiiInvariant, PTL

(* A request is ready to be reported exactly when all its scopes are left. *)
THEOREM ScopesDecideReadiness == RaiiSpec => []ReadyWhenClosed
<1>1. RaiiInv => ReadyWhenClosed
  BY ContextType, ReadyHasNoScope
     DEF RaiiInv, TracingInv, ScopeInv, ReadyWhenClosed
<1> QED
  BY <1>1, RaiiInvariant, PTL

(* The trees of spans and of segments, for these applications as well.     *)
THEOREM ScopedTracesAreTrees == RaiiSpec => [](TraceIsTree /\ SegmentIsTree)
<1>1. RaiiInv => TraceIsTree /\ SegmentIsTree
  BY InvTraceIsTree, InvSegmentIsTree DEF RaiiInv
<1> QED
  BY <1>1, RaiiInvariant, PTL
=============================================================================
