-------------------------- MODULE PropagationProofs --------------------------
(***************************************************************************)
(* Proofs about the header parsers, for header values of every length over *)
(* any alphabet and for any codec of the fields.                           *)
(*                                                                         *)
(* The reference divides a value at its separators by counting. The first  *)
(* part says how these counts change when a character is appended; that is *)
(* what one iteration of the loop has to follow. The second part divides   *)
(* the value a tracer of this library writes.                              *)
(***************************************************************************)
EXTENDS Propagation, SequenceTheorems, FiniteSetTheorems, FunctionTheorems,
        TLAPS

-----------------------------------------------------------------------------
(* Counting separators.                                                    *)

Seps(h, n) == Cardinality({i \in 1..n : h[i] = Separator})

Until(h, n) == Cardinality({i \in 1..Len(h) : Seps(h, i) < n})

FieldAt(h, j) ==
  SubSeq(h, IF j = 0 THEN 1 ELSE Until(h, j) + 2, Until(h, j + 1))

(* There are finitely many positions, and at most n of them up to n.       *)
LEMMA PositionsFinite ==
  ASSUME NEW n \in Nat, NEW T \in SUBSET (1..n)
  PROVE  IsFiniteSet(T) /\ Cardinality(T) \in 0..n
<1>1. IsFiniteSet(1..n) /\ Cardinality(1..n) = n
  <2>1. 1 \in Int /\ n \in Int /\ (IF 1 > n THEN 0 ELSE n - 1 + 1) = n
    OBVIOUS
  <2> QED
    BY <2>1, FS_Interval
<1>2. IsFiniteSet(T) /\ Cardinality(T) <= n
  BY <1>1, FS_Subset
<1>3. Cardinality(T) \in Nat
  BY <1>2, FS_CardinalityType
<1> QED
  BY <1>2, <1>3

(* A count of separators is a number, and what it counts is finite.        *)
LEMMA SepsType ==
  ASSUME NEW h, NEW n \in Nat
  PROVE  /\ Seps(h, n) \in 0..n
         /\ IsFiniteSet({i \in 1..n : h[i] = Separator})
BY PositionsFinite DEF Seps

LEMMA SepsNat ==
  ASSUME NEW h, NEW n \in Nat
  PROVE  Seps(h, n) \in Nat
<1>1. Seps(h, n) \in 0..n
  BY SepsType
<1> QED
  BY <1>1

(* More characters hold no fewer separators.                               *)
LEMMA SepsMonotone ==
  ASSUME NEW h, NEW m \in Nat, NEW n \in Nat, m <= n
  PROVE  Seps(h, m) <= Seps(h, n)
<1>1. {i \in 1..m : h[i] = Separator} \in SUBSET {i \in 1..n : h[i] = Separator}
  OBVIOUS
<1> QED
  BY <1>1, SepsType, FS_Subset DEF Seps

(* One character adds one separator or none.                               *)
LEMMA SepsNext ==
  ASSUME NEW h, NEW n \in Nat
  PROVE  Seps(h, n + 1) =
           IF h[n + 1] = Separator THEN Seps(h, n) + 1 ELSE Seps(h, n)
<1> DEFINE T == {i \in 1..n : h[i] = Separator}
           U == {i \in 1..(n + 1) : h[i] = Separator}
<1>1. IsFiniteSet(T) /\ n + 1 \notin T
  BY SepsType
<1>2. CASE h[n + 1] = Separator
  <2>1. U = T \cup {n + 1}
    BY <1>2
  <2>2. Cardinality(T \cup {n + 1}) = Cardinality(T) + 1
    <3> HIDE DEF T
    <3> QED
      BY <1>1, FS_AddElement
  <2> QED
    BY <1>2, <2>1, <2>2 DEF Seps
<1>3. CASE h[n + 1] # Separator
  <2>1. U = T
    BY <1>3
  <2> QED
    BY <1>3, <2>1 DEF Seps
<1> QED
  BY <1>2, <1>3

(* Values that agree up to n have as many separators there.                *)
LEMMA SepsSame ==
  ASSUME NEW h, NEW g, NEW n \in Nat, \A i \in 1..n : g[i] = h[i]
  PROVE  Seps(g, n) = Seps(h, n)
<1>1. {i \in 1..n : g[i] = Separator} = {i \in 1..n : h[i] = Separator}
  OBVIOUS
<1> QED
  BY <1>1 DEF Seps

(* Until counts positions of the value.                                    *)
LEMMA UntilType ==
  ASSUME NEW h, Len(h) \in Nat, NEW n \in Nat
  PROVE  /\ Until(h, n) \in 0..Len(h)
         /\ IsFiniteSet({i \in 1..Len(h) : Seps(h, i) < n})
BY PositionsFinite DEF Until

(* All of the value lies before separator n, if it has fewer.              *)
LEMMA UntilAll ==
  ASSUME NEW h, Len(h) \in Nat, NEW n \in Nat, Seps(h, Len(h)) < n
  PROVE  Until(h, n) = Len(h)
<1>1. ASSUME NEW i \in 1..Len(h) PROVE Seps(h, i) < n
  <2>1. Seps(h, i) <= Seps(h, Len(h))
    BY SepsMonotone
  <2>2. Seps(h, i) \in Nat
    <3>1. i \in Nat
      OBVIOUS
    <3> QED
      BY <3>1, SepsNat
  <2>3. Seps(h, Len(h)) \in Nat
    BY SepsNat
  <2> QED
    BY <2>1, <2>2, <2>3
<1>2. {i \in 1..Len(h) : Seps(h, i) < n} = 1..Len(h)
  BY <1>1
<1>3. Cardinality(1..Len(h)) = Len(h)
  <2>1. 1 \in Int /\ Len(h) \in Int
        /\ (IF 1 > Len(h) THEN 0 ELSE Len(h) - 1 + 1) = Len(h)
    OBVIOUS
  <2> QED
    BY <2>1, FS_Interval
<1> QED
  BY <1>2, <1>3 DEF Until

(* A separator the value has is one of its characters.                     *)
LEMMA UntilInside ==
  ASSUME NEW h, Len(h) \in Nat, NEW n \in Nat \ {0}, n <= Seps(h, Len(h))
  PROVE  Until(h, n) < Len(h)
<1>1. Seps(h, Len(h)) \in 0..Len(h)
  BY SepsType
<1>2. Len(h) - 1 \in Nat
  BY <1>1
<1>3. {i \in 1..Len(h) : Seps(h, i) < n} \in SUBSET (1..(Len(h) - 1))
  <2>1. ASSUME NEW i \in 1..Len(h), Seps(h, i) < n PROVE i # Len(h)
    BY <1>1, <2>1
  <2> QED
    BY <2>1
<1>4. Until(h, n) \in 0..(Len(h) - 1)
  BY <1>2, <1>3, PositionsFinite DEF Until
<1> QED
  BY <1>4

(* Nothing read yet: no separator, and one empty field.                    *)
LEMMA EmptyValue ==
  /\ Seps(<<>>, 0) = 0
  /\ FieldAt(<<>>, 0) = <<>>
<1>1. Len(<<>>) = 0 /\ 1..0 = {} /\ 0 \in Nat /\ 1 \in Nat
  BY EmptySeq
<1>2. Seps(<<>>, 0) = 0
  <2>1. Seps(<<>>, 0) \in 0..0
    BY <1>1, SepsType
  <2> QED
    BY <2>1
<1>3. Until(<<>>, 1) = 0
  BY <1>1, <1>2, UntilAll
<1>4. SubSeq(<<>>, 1, 0) = <<>>
  BY SubSeqEmpty
<1> QED
  BY <1>2, <1>3, <1>4 DEF FieldAt

-----------------------------------------------------------------------------
(* One more character.                                                     *)

LEMMA AppendSeps ==
  ASSUME NEW S, NEW h \in Seq(S), NEW ch \in S
  PROVE  /\ \A n \in 0..Len(h) : Seps(Append(h, ch), n) = Seps(h, n)
         /\ Seps(Append(h, ch), Len(Append(h, ch))) =
              IF ch = Separator THEN Seps(h, Len(h)) + 1 ELSE Seps(h, Len(h))
<1> DEFINE g == Append(h, ch)
<1>1. /\ Len(h) \in Nat /\ Len(g) = Len(h) + 1 /\ g[Len(h) + 1] = ch
      /\ \A i \in 1..Len(h) : g[i] = h[i]
  BY AppendProperties, LenProperties
<1> HIDE DEF g
<1>2. ASSUME NEW n \in 0..Len(h) PROVE Seps(g, n) = Seps(h, n)
  <2>1. n \in Nat /\ \A i \in 1..n : g[i] = h[i]
    BY <1>1
  <2> QED
    BY <2>1, SepsSame
<1>3. Seps(g, Len(h)) = Seps(h, Len(h))
  BY <1>1, <1>2
<1>4. Seps(g, Len(h) + 1) =
        IF g[Len(h) + 1] = Separator THEN Seps(g, Len(h)) + 1
                                     ELSE Seps(g, Len(h))
  BY <1>1, SepsNext
<1> QED
  BY <1>1, <1>2, <1>3, <1>4 DEF g

(* The new character lies before every separator not yet reached.          *)
LEMMA AppendUntil ==
  ASSUME NEW S, NEW h \in Seq(S), NEW ch \in S, NEW n \in Nat
  PROVE  Until(Append(h, ch), n) =
           IF Seps(Append(h, ch), Len(Append(h, ch))) < n
           THEN Until(h, n) + 1 ELSE Until(h, n)
<1> DEFINE g == Append(h, ch)
           T == {i \in 1..Len(h) : Seps(h, i) < n}
           U == {i \in 1..Len(g) : Seps(g, i) < n}
<1>1. Len(h) \in Nat /\ Len(g) = Len(h) + 1
  BY AppendProperties, LenProperties
<1>2. \A i \in 1..Len(h) : Seps(g, i) = Seps(h, i)
  BY <1>1, AppendSeps
<1>3. IsFiniteSet(T) /\ Len(h) + 1 \notin T
  BY <1>1, UntilType
<1> HIDE DEF g
<1>4. CASE Seps(g, Len(g)) < n
  <2>1. U = T \cup {Len(h) + 1}
    BY <1>1, <1>2, <1>4
  <2>2. Cardinality(T \cup {Len(h) + 1}) = Cardinality(T) + 1
    <3> HIDE DEF T
    <3> QED
      BY <1>3, FS_AddElement
  <2> QED
    BY <1>4, <2>1, <2>2 DEF Until, g
<1>5. CASE ~(Seps(g, Len(g)) < n)
  <2>1. U = T
    BY <1>1, <1>2, <1>5
  <2> QED
    BY <1>5, <2>1 DEF Until, g
<1> QED
  BY <1>4, <1>5 DEF g

(* What lies before the new character stays.                               *)
LEMMA AppendSubSeq ==
  ASSUME NEW S, NEW h \in Seq(S), NEW ch \in S,
         NEW a \in Nat \ {0}, NEW b \in 0..Len(h)
  PROVE  SubSeq(Append(h, ch), a, b) = SubSeq(h, a, b)
<1> DEFINE g == Append(h, ch)
<1>1. /\ Len(h) \in Nat /\ a \in Int /\ b \in Int
      /\ \A i \in a..b : i \in 1..Len(h)
  BY LenProperties
<1>2. \A i \in a..b : g[i] = h[i] /\ h[i] \in S
  BY <1>1, AppendProperties, LenProperties
<1> HIDE DEF g
<1>3. /\ SubSeq(h, a, b) \in Seq(S)
      /\ Len(SubSeq(h, a, b)) = IF a <= b THEN b - a + 1 ELSE 0
      /\ \A i \in 1..(b - a + 1) : SubSeq(h, a, b)[i] = h[a + i - 1]
  BY <1>1, <1>2, SubSeqProperties
<1>4. /\ SubSeq(g, a, b) \in Seq(S)
      /\ Len(SubSeq(g, a, b)) = IF a <= b THEN b - a + 1 ELSE 0
      /\ \A i \in 1..(b - a + 1) : SubSeq(g, a, b)[i] = g[a + i - 1]
  <2>1. \A i \in a..b : g[i] \in S
    BY <1>2
  <2> QED
    BY <1>1, <2>1, SubSeqProperties
<1>5. ASSUME NEW i \in 1..Len(SubSeq(h, a, b))
      PROVE  SubSeq(g, a, b)[i] = SubSeq(h, a, b)[i]
  <2>1. i \in 1..(b - a + 1) /\ a + i - 1 \in a..b
    BY <1>1, <1>3
  <2> QED
    BY <1>2, <1>3, <1>4, <2>1
<1>6. SubSeq(g, a, b) = SubSeq(h, a, b)
  BY <1>3, <1>4, <1>5, SeqEqual
<1> QED
  BY <1>6 DEF g

(* Where the last field begins; at most right behind the value.            *)
LEMMA LastFieldBegins ==
  ASSUME NEW h, Len(h) \in Nat
  PROVE  LET c == Seps(h, Len(h))
         IN  /\ c \in Nat
             /\ (IF c = 0 THEN 1 ELSE Until(h, c) + 2) \in 1..(Len(h) + 1)
             /\ Until(h, c + 1) = Len(h)
<1> DEFINE c == Seps(h, Len(h))
<1>1. c \in Nat
  <2>1. c \in 0..Len(h)
    BY SepsType
  <2> QED
    BY <2>1
<1>2. CASE c # 0
  <2>1. c \in Nat \ {0}
    BY <1>1, <1>2
  <2>2. Until(h, c) < Len(h)
    BY <2>1, UntilInside
  <2>3. Until(h, c) \in 0..Len(h)
    BY <1>1, UntilType
  <2> QED
    BY <1>1, <1>2, <2>2, <2>3, UntilAll
<1>3. CASE c = 0
  BY <1>1, <1>3, UntilAll
<1> QED
  BY <1>2, <1>3

(* A complete field is not touched.                                        *)
LEMMA FieldKept ==
  ASSUME NEW S, NEW h \in Seq(S), NEW ch \in S,
         NEW j \in Nat, j < Seps(h, Len(h))
  PROVE  FieldAt(Append(h, ch), j) = FieldAt(h, j)
<1> DEFINE g == Append(h, ch)
           c == Seps(h, Len(h))
           d == Seps(g, Len(g))
<1>1. Len(h) \in Nat
  BY LenProperties
<1>2. c \in 0..Len(h)
  BY <1>1, SepsType
<1>3. d = c \/ d = c + 1
  BY AppendSeps
<1>4. ~(d < j) /\ ~(d < j + 1) /\ j + 1 \in Nat
  BY <1>2, <1>3
<1>5. Until(g, j) = Until(h, j) /\ Until(g, j + 1) = Until(h, j + 1)
  BY <1>4, AppendUntil
<1>6. Until(h, j) \in 0..Len(h) /\ Until(h, j + 1) \in 0..Len(h)
  BY <1>1, <1>4, UntilType
<1>7. (IF j = 0 THEN 1 ELSE Until(h, j) + 2) \in Nat \ {0}
  BY <1>1, <1>6
<1>8. PICK a : a = IF j = 0 THEN 1 ELSE Until(h, j) + 2
  OBVIOUS
<1>9. /\ FieldAt(h, j) = SubSeq(h, a, Until(h, j + 1))
      /\ FieldAt(g, j) = SubSeq(g, a, Until(h, j + 1))
  BY <1>5, <1>8 DEF FieldAt
<1> HIDE DEF c, d
<1>10. SubSeq(g, a, Until(h, j + 1)) = SubSeq(h, a, Until(h, j + 1))
  BY <1>6, <1>7, <1>8, AppendSubSeq
<1> QED
  BY <1>9, <1>10

(* A character that is no separator is one more of the last field.         *)
LEMMA FieldGrows ==
  ASSUME NEW S, NEW h \in Seq(S), NEW ch \in S, ch # Separator
  PROVE  LET c == Seps(h, Len(h))
         IN  /\ FieldAt(h, c) \in Seq(S)
             /\ FieldAt(Append(h, ch), c) = Append(FieldAt(h, c), ch)
<1> DEFINE g == Append(h, ch)
           c == Seps(h, Len(h))
           a == IF c = 0 THEN 1 ELSE Until(h, c) + 2
<1>1. /\ Len(h) \in Nat /\ Len(g) = Len(h) + 1 /\ g \in Seq(S)
      /\ g[Len(g)] = ch
  BY AppendProperties, LenProperties
<1>2. c \in Nat /\ a \in 1..(Len(h) + 1) /\ Until(h, c + 1) = Len(h)
  BY <1>1, LastFieldBegins
<1>3. Seps(g, Len(g)) = c
  BY AppendSeps
<1>4. Until(g, c) = Until(h, c) /\ Until(g, c + 1) = Len(g)
  BY <1>1, <1>2, <1>3, AppendUntil
<1>5. /\ FieldAt(h, c) = SubSeq(h, a, Len(h))
      /\ FieldAt(g, c) = SubSeq(g, a, Len(g))
  BY <1>2, <1>4 DEF FieldAt
<1> HIDE DEF g, a, c
<1>6. SubSeq(h, a, Len(h)) \in Seq(S)
  <2>1. \A i \in a..Len(h) : h[i] \in S
    BY <1>1, <1>2, ElementOfSeq
  <2> QED
    BY <1>1, <1>2, <2>1, SubSeqProperties
<1>7. SubSeq(g, a, Len(g)) = SubSeq(g, a, Len(g) - 1) \o <<g[Len(g)]>>
  <2>1. a \in 1..Len(g) /\ Len(g) \in a..Len(g)
    BY <1>1, <1>2
  <2> QED
    BY <1>1, <2>1, SubSeqRecursiveSecond
<1>8. SubSeq(g, a, Len(g) - 1) = SubSeq(h, a, Len(h))
  <2>1. a \in Nat \ {0} /\ Len(h) \in 0..Len(h) /\ Len(g) - 1 = Len(h)
    BY <1>1, <1>2
  <2> QED
    BY <2>1, AppendSubSeq DEF g
<1>9. Append(SubSeq(h, a, Len(h)), ch) = SubSeq(h, a, Len(h)) \o <<ch>>
  BY <1>6, AppendIsConcat
<1>10. FieldAt(g, c) = Append(FieldAt(h, c), ch)
  BY <1>1, <1>5, <1>7, <1>8, <1>9
<1> QED
  BY <1>5, <1>6, <1>10 DEF g, c

(* A separator completes the last field and begins an empty one.           *)
LEMMA FieldEnds ==
  ASSUME NEW S, NEW h \in Seq(S), NEW ch \in S, ch = Separator
  PROVE  LET c == Seps(h, Len(h))
         IN  /\ FieldAt(Append(h, ch), c) = FieldAt(h, c)
             /\ FieldAt(Append(h, ch), c + 1) = <<>>
<1> DEFINE g == Append(h, ch)
           c == Seps(h, Len(h))
           a == IF c = 0 THEN 1 ELSE Until(h, c) + 2
<1>1. Len(h) \in Nat /\ Len(g) = Len(h) + 1
  BY AppendProperties, LenProperties
<1>2. c \in Nat /\ a \in 1..(Len(h) + 1) /\ Until(h, c + 1) = Len(h)
  BY <1>1, LastFieldBegins
<1>3. Seps(g, Len(g)) = c + 1
  BY AppendSeps
<1>4. Until(g, c) = Until(h, c) /\ Until(g, c + 1) = Len(h)
  <2>1. c + 1 \in Nat /\ ~(c + 1 < c) /\ ~(c + 1 < c + 1)
    BY <1>2
  <2> QED
    BY <1>2, <1>3, <2>1, AppendUntil
<1>5. Until(g, c + 1 + 1) = Len(g)
  <2>1. Seps(g, Len(g)) < c + 1 + 1 /\ c + 1 + 1 \in Nat /\ Len(g) \in Nat
    BY <1>1, <1>2, <1>3
  <2> QED
    BY <2>1, UntilAll
<1>6. FieldAt(g, c) = FieldAt(h, c)
  <2>1. /\ FieldAt(h, c) = SubSeq(h, a, Len(h))
        /\ FieldAt(g, c) = SubSeq(g, a, Len(h))
    BY <1>2, <1>4 DEF FieldAt
  <2>2. a \in Nat \ {0} /\ Len(h) \in 0..Len(h)
    BY <1>1, <1>2
  <2> HIDE DEF a
  <2> QED
    BY <2>1, <2>2, AppendSubSeq
<1>7. FieldAt(g, c + 1) = <<>>
  <2>1. FieldAt(g, c + 1) = SubSeq(g, Len(h) + 2, Len(g))
    <3>1. c + 1 # 0
      BY <1>2
    <3> QED
      BY <1>4, <1>5, <3>1 DEF FieldAt
  <2>2. Len(h) + 2 \in Int /\ Len(g) \in Int /\ Len(g) < Len(h) + 2
    BY <1>1
  <2> QED
    BY <2>1, <2>2, SubSeqEmpty
<1> QED
  BY <1>6, <1>7

-----------------------------------------------------------------------------
(* The loop.                                                               *)

Letters == Char("sw8") \cup Char("sw8-x") \cup {Separator}

(* The module's reference and its demand on the result, for any value.     *)
SplitOf(h) == [j \in 0..Seps(h, Len(h)) |-> FieldAt(h, j)]

Verdict(h, k, ended, result) ==
  IF DOMAIN SplitOf(h) = 0..(FieldCount(k) - 1) /\ WellFormed(k, SplitOf(h))
  THEN /\ ended = "accepted"
       /\ result = IF k = "sw8" THEN SpanContext(SplitOf(h))
                                ELSE SpanContextExtension(SplitOf(h))
  ELSE ended = "rejected" /\ result = NoContext

(* While the value is read, the fields before the current one are complete *)
(* and value is what the current one has so far.                           *)
ReadSoFar ==
  outcome = "reading" =>
    /\ current_field_idx = Seps(header_value, Len(header_value))
    /\ value = FieldAt(header_value, current_field_idx)
    /\ \A j \in 0..(current_field_idx - 1) :
         fields[j] = FieldAt(header_value, j)
    /\ context = NoContext

ParserTypeOK ==
  /\ header_value \in Seq(Letters)
  /\ fields = [j \in 0..(FieldCount(kind) - 1) |-> fields[j]]

ParseInv == TypeOK /\ ParserTypeOK /\ ReadSoFar /\ ParsesExactly

(* ParsesExactly, said with the counts of separators.                      *)
LEMMA Judged ==
  /\ ParsesExactly <=>
       (Returned => Verdict(header_value, kind, outcome, context))
  /\ ParsesExactly' <=>
       (Returned' => Verdict(header_value', kind', outcome', context'))
<1>1. ParsesExactly <=>
       (Returned => Verdict(header_value, kind, outcome, context))
  <2>1. Split = SplitOf(header_value)
    BY DEF Split, FieldOf, SeparatorsBefore, SplitOf, FieldAt, Until, Seps
  <2> QED
    BY <2>1 DEF ParsesExactly, Verdict, WellFormed
<1>2. ParsesExactly' <=>
        (Returned' => Verdict(header_value', kind', outcome', context'))
  <2>1. Split' = SplitOf(header_value')
    BY DEF Split, FieldOf, SeparatorsBefore, SplitOf, FieldAt, Until, Seps
  <2> QED
    BY <2>1 DEF ParsesExactly, Verdict, WellFormed
<1> QED
  BY <1>1, <1>2

LEMMA FieldCounts ==
  FieldCount("sw8") = 8 /\ FieldCount("sw8-x") = 1
BY DEF FieldCount

(* A value with another number of separators is rejected.                  *)
LEMMA WrongCountIsRejected ==
  ASSUME NEW h, NEW k \in {"sw8", "sw8-x"}, Seps(h, Len(h)) \in Nat,
         Seps(h, Len(h)) # FieldCount(k) - 1
  PROVE  Verdict(h, k, "rejected", NoContext)
<1>1. PICK c \in Nat : c = Seps(h, Len(h))
  OBVIOUS
<1>2. PICK n \in Nat : n = FieldCount(k) - 1
  BY FieldCounts
<1>3. DOMAIN SplitOf(h) = 0..c
  BY <1>1 DEF SplitOf
<1>4. 0..c # 0..n
  <2>1. c \in 0..c /\ n \in 0..n
    OBVIOUS
  <2>2. c \notin 0..n \/ n \notin 0..c
    BY <1>1, <1>2
  <2> QED
    BY <2>1, <2>2
<1> QED
  BY <1>2, <1>3, <1>4 DEF Verdict

(* The invariant, action by action.                                        *)
LEMMA InitParseInv == Init => ParseInv
<1> SUFFICES ASSUME Init PROVE ParseInv
  OBVIOUS
<1>1. <<>> \in Seq(Letters) /\ Len(<<>>) = 0
  BY EmptySeq
<1>2. TypeOK /\ ParserTypeOK
  BY <1>1, FieldCounts DEF Init, TypeOK, ParserTypeOK
<1>3. ReadSoFar
  BY <1>1, EmptyValue DEF Init, ReadSoFar
<1>4. ParsesExactly
  BY Judged DEF Init, Returned
<1> QED
  BY <1>2, <1>3, <1>4 DEF ParseInv

LEMMA TooManyFieldsParseInv ==
  ASSUME ParseInv, NEW k \in {"sw8", "sw8-x"}, NEW ch \in Letters,
         TooManyFields(k, ch)
  PROVE  ParseInv'
<1>1. /\ kind = k /\ kind' = k /\ outcome = "reading" /\ outcome' = "rejected"
      /\ header_value' = Append(header_value, ch)
      /\ UNCHANGED <<fields, current_field_idx, value, context>>
      /\ current_field_idx >= FieldCount(k)
  BY DEF TooManyFields, NextChar
<1>2. TypeOK /\ header_value \in Seq(Letters)
  BY DEF ParseInv, ParserTypeOK
<1>3. TypeOK' /\ ParserTypeOK'
  <2>1. header_value' \in Seq(Letters)
    BY <1>1, <1>2, AppendProperties
  <2> QED
    BY <1>1, <2>1 DEF ParseInv, TypeOK, ParserTypeOK
<1>4. Verdict(header_value', k, "rejected", NoContext)
  <2>1. current_field_idx = Seps(header_value, Len(header_value))
    BY <1>1 DEF ParseInv, ReadSoFar
  <2>2. \/ Seps(header_value', Len(header_value')) = current_field_idx
        \/ Seps(header_value', Len(header_value')) = current_field_idx + 1
    BY <1>1, <1>2, <2>1, AppendSeps
  <2>3. current_field_idx \in Nat /\ FieldCount(k) \in Nat
    BY <1>1, <1>2, FieldCounts DEF TypeOK
  <2>4. /\ Seps(header_value', Len(header_value')) \in Nat
        /\ Seps(header_value', Len(header_value')) # FieldCount(k) - 1
    BY <1>1, <2>2, <2>3
  <2>5. PICK h : h = header_value'
    OBVIOUS
  <2> QED
    BY <2>4, <2>5, WrongCountIsRejected
<1>5. ParsesExactly'
  <2>1. context' = NoContext
    BY <1>1 DEF ParseInv, ReadSoFar
  <2> QED
    BY <1>1, <1>4, <2>1, Judged
<1> QED
  BY <1>1, <1>3, <1>5 DEF ParseInv, ReadSoFar

LEMMA EndFieldParseInv ==
  ASSUME ParseInv, NEW k \in {"sw8", "sw8-x"}, EndField(k)
  PROVE  ParseInv'
<1> DEFINE c == current_field_idx
           h == header_value
<1>1. /\ kind = k /\ kind' = k /\ outcome = "reading" /\ outcome' = "reading"
      /\ header_value' = Append(h, Separator) /\ context' = context
      /\ fields' = [fields EXCEPT ![c] = value]
      /\ value' = <<>> /\ current_field_idx' = c + 1 /\ c < FieldCount(k)
  BY DEF EndField, NextChar
<1>2. /\ h \in Seq(Letters) /\ Separator \in Letters
      /\ c \in 0..(FieldCount(k) - 1) /\ FieldCount(k) \in Nat
      /\ DOMAIN fields = 0..(FieldCount(k) - 1)
      /\ c = Seps(h, Len(h)) /\ value = FieldAt(h, c) /\ context = NoContext
      /\ \A j \in 0..(c - 1) : fields[j] = FieldAt(h, j)
  <2>1. /\ c = Seps(h, Len(h)) /\ value = FieldAt(h, c) /\ context = NoContext
        /\ \A j \in 0..(c - 1) : fields[j] = FieldAt(h, j)
    BY <1>1 DEF ParseInv, ReadSoFar
  <2>2. h \in Seq(Letters) /\ Separator \in Letters
    BY DEF ParseInv, ParserTypeOK, Letters
  <2>3. c \in 0..FieldCount(k) /\ DOMAIN fields = 0..(FieldCount(k) - 1)
    BY <1>1 DEF ParseInv, TypeOK
  <2>4. FieldCount(k) \in Nat
    BY FieldCounts
  <2>5. c \in 0..(FieldCount(k) - 1)
    BY <1>1, <2>3, <2>4
  <2> QED
    BY <2>1, <2>2, <2>3, <2>4, <2>5
<1>3. /\ header_value' \in Seq(Letters)
      /\ Seps(header_value', Len(header_value')) = c + 1
      /\ FieldAt(header_value', c) = FieldAt(h, c)
      /\ FieldAt(header_value', c + 1) = <<>>
      /\ \A j \in 0..(c - 1) : FieldAt(header_value', j) = FieldAt(h, j)
  <2>1. Append(h, Separator) \in Seq(Letters)
    BY <1>2, AppendProperties
  <2>2. Seps(Append(h, Separator), Len(Append(h, Separator))) = c + 1
    BY <1>2, AppendSeps
  <2>3. /\ FieldAt(Append(h, Separator), c) = FieldAt(h, c)
        /\ FieldAt(Append(h, Separator), c + 1) = <<>>
    BY <1>2, FieldEnds
  <2>4. ASSUME NEW j \in 0..(c - 1)
        PROVE  FieldAt(Append(h, Separator), j) = FieldAt(h, j)
    <3>1. j \in Nat /\ j < Seps(h, Len(h))
      BY <1>2
    <3> QED
      BY <1>2, <3>1, FieldKept
  <2> QED
    BY <1>1, <2>1, <2>2, <2>3, <2>4
<1> HIDE DEF h
<1>4. TypeOK' /\ ParserTypeOK'
  <2>1. /\ DOMAIN fields' = 0..(FieldCount(k) - 1)
        /\ fields' = [j \in DOMAIN fields' |-> fields'[j]]
    BY <1>1, <1>2
  <2>2. c + 1 \in 0..FieldCount(k)
    BY <1>2
  <2>3. TypeOK'
    BY <1>1, <2>1, <2>2 DEF TypeOK
  <2> QED
    BY <1>1, <1>3, <2>1, <2>3 DEF ParserTypeOK
<1>5. ReadSoFar'
  <2>1. ASSUME NEW j \in 0..(c + 1 - 1)
        PROVE  fields'[j] = FieldAt(header_value', j)
    BY <1>1, <1>2, <1>3
  <2> QED
    BY <1>1, <1>2, <1>3, <2>1 DEF ReadSoFar
<1>6. ParsesExactly'
  BY <1>1, Judged DEF Returned
<1> QED
  BY <1>4, <1>5, <1>6 DEF ParseInv

LEMMA ExtendFieldParseInv ==
  ASSUME ParseInv, NEW k \in {"sw8", "sw8-x"}, NEW ch \in Letters,
         ExtendField(k, ch)
  PROVE  ParseInv'
<1> DEFINE c == current_field_idx
           h == header_value
<1>1. /\ kind = k /\ kind' = k /\ outcome = "reading" /\ outcome' = "reading"
      /\ header_value' = Append(h, ch) /\ ch # Separator
      /\ value' = Append(value, ch) /\ c < FieldCount(k)
      /\ UNCHANGED <<fields, current_field_idx, context>>
  BY DEF ExtendField, NextChar
<1>2. /\ h \in Seq(Letters) /\ c \in Nat
      /\ c = Seps(h, Len(h)) /\ value = FieldAt(h, c) /\ context = NoContext
      /\ \A j \in 0..(c - 1) : fields[j] = FieldAt(h, j)
  <2>1. /\ c = Seps(h, Len(h)) /\ value = FieldAt(h, c) /\ context = NoContext
        /\ \A j \in 0..(c - 1) : fields[j] = FieldAt(h, j)
    BY <1>1 DEF ParseInv, ReadSoFar
  <2>2. h \in Seq(Letters)
    BY DEF ParseInv, ParserTypeOK
  <2>3. c \in Nat
    <3>1. c \in 0..FieldCount(k) /\ FieldCount(k) \in Nat
      BY <1>1, FieldCounts DEF ParseInv, TypeOK
    <3> QED
      BY <3>1
  <2> QED
    BY <2>1, <2>2, <2>3
<1>3. /\ header_value' \in Seq(Letters)
      /\ Seps(header_value', Len(header_value')) = c
      /\ FieldAt(header_value', c) = Append(FieldAt(h, c), ch)
      /\ \A j \in 0..(c - 1) : FieldAt(header_value', j) = FieldAt(h, j)
  <2>1. Append(h, ch) \in Seq(Letters)
    BY <1>2, AppendProperties
  <2>2. Seps(Append(h, ch), Len(Append(h, ch))) = c
    BY <1>1, <1>2, AppendSeps
  <2>3. FieldAt(Append(h, ch), c) = Append(FieldAt(h, c), ch)
    BY <1>1, <1>2, FieldGrows
  <2>4. ASSUME NEW j \in 0..(c - 1)
        PROVE  FieldAt(Append(h, ch), j) = FieldAt(h, j)
    <3>1. j \in Nat /\ j < Seps(h, Len(h))
      BY <1>2
    <3> QED
      BY <1>2, <3>1, FieldKept
  <2> QED
    BY <1>1, <2>1, <2>2, <2>3, <2>4
<1> HIDE DEF h
<1>4. TypeOK' /\ ParserTypeOK'
  <2>1. c # FieldCount(k)
    BY <1>1, <1>2, FieldCounts
  <2> QED
    BY <1>1, <1>2, <1>3, <2>1 DEF ParseInv, TypeOK, ParserTypeOK
<1>5. ReadSoFar'
  BY <1>1, <1>2, <1>3 DEF ReadSoFar
<1>6. ParsesExactly'
  BY <1>1, Judged DEF Returned
<1> QED
  BY <1>4, <1>5, <1>6 DEF ParseInv

LEMMA FinishParseInv ==
  ASSUME ParseInv, NEW k \in {"sw8", "sw8-x"}, NEW verdict, NEW result,
         Finish(k, verdict, result), verdict \in {"accepted", "rejected"},
         Verdict(header_value, k, verdict, result),
         DOMAIN fields' = 0..(FieldCount(k) - 1),
         fields' = [j \in DOMAIN fields' |-> fields'[j]]
  PROVE  ParseInv'
<1>1. /\ kind = k /\ kind' = k /\ outcome' = verdict /\ context' = result
      /\ UNCHANGED <<header_value, current_field_idx, value>>
      /\ outcome' \in {"accepted", "rejected"}
  BY DEF Finish
<1>2. TypeOK'
  BY <1>1 DEF ParseInv, TypeOK
<1>3. ParserTypeOK'
  BY <1>1 DEF ParseInv, ParserTypeOK
<1>4. ReadSoFar'
  BY <1>1 DEF ReadSoFar
<1>5. ParsesExactly'
  BY <1>1, Judged
<1> QED
  BY <1>2, <1>3, <1>4, <1>5 DEF ParseInv

(* What the loop left, for the steps after it.                             *)
LEMMA AfterLoop ==
  ASSUME ParseInv, NEW k \in {"sw8", "sw8-x"}, kind = k, outcome = "reading"
  PROVE  /\ FieldCount(k) \in Nat \ {0}
         /\ current_field_idx \in 0..FieldCount(k)
         /\ Seps(header_value, Len(header_value)) = current_field_idx
         /\ value = FieldAt(header_value, current_field_idx)
         /\ \A j \in 0..(current_field_idx - 1) :
              fields[j] = FieldAt(header_value, j)
         /\ DOMAIN fields = 0..(FieldCount(k) - 1)
         /\ fields = [j \in DOMAIN fields |-> fields[j]]
<1>1. FieldCount(k) \in Nat \ {0}
  BY FieldCounts
<1>2. /\ current_field_idx \in 0..FieldCount(k)
      /\ DOMAIN fields = 0..(FieldCount(k) - 1)
  BY DEF ParseInv, TypeOK
<1>3. fields = [j \in DOMAIN fields |-> fields[j]]
  BY <1>2 DEF ParseInv, ParserTypeOK
<1>4. /\ Seps(header_value, Len(header_value)) = current_field_idx
      /\ value = FieldAt(header_value, current_field_idx)
      /\ \A j \in 0..(current_field_idx - 1) :
           fields[j] = FieldAt(header_value, j)
  BY DEF ParseInv, ReadSoFar
<1> QED
  BY <1>1, <1>2, <1>3, <1>4

LEMMA EndInLastFieldParseInv ==
  ASSUME ParseInv, NEW k \in {"sw8", "sw8-x"}, EndInLastField(k)
  PROVE  ParseInv'
<1> DEFINE c == current_field_idx
           f == [fields EXCEPT ![c] = value]
<1>1. /\ kind = k /\ outcome = "reading" /\ c = FieldCount(k) - 1 /\ fields' = f
  BY DEF EndInLastField, Finish
<1>2. /\ FieldCount(k) \in Nat \ {0}
      /\ Seps(header_value, Len(header_value)) = c
      /\ value = FieldAt(header_value, c)
      /\ \A j \in 0..(c - 1) : fields[j] = FieldAt(header_value, j)
      /\ DOMAIN fields = 0..c
  BY <1>1, AfterLoop
<1>3. f = [j \in 0..c |-> f[j]] /\ DOMAIN f = 0..c
  BY <1>2
<1>4. ASSUME NEW j \in 0..c PROVE f[j] = FieldAt(header_value, j)
  <2>1. CASE j = c
    BY <1>2, <2>1
  <2>2. CASE j # c
    <3>1. j \in 0..(c - 1)
      BY <1>1, <1>2, <2>2
    <3> QED
      BY <1>2, <2>2, <3>1
  <2> QED
    BY <2>1, <2>2
<1> HIDE DEF f, c
<1>5. f = SplitOf(header_value)
  BY <1>2, <1>3, <1>4 DEF SplitOf
<1>6. DOMAIN SplitOf(header_value) = 0..(FieldCount(k) - 1)
  BY <1>1, <1>3, <1>5
<1>7. /\ DOMAIN fields' = 0..(FieldCount(k) - 1)
      /\ fields' = [j \in DOMAIN fields' |-> fields'[j]]
  BY <1>1, <1>3
<1>8. CASE WellFormed(k, f)
  <2>1. PICK result :
          /\ result = IF k = "sw8" THEN SpanContext(f)
                                  ELSE SpanContextExtension(f)
          /\ Finish(k, "accepted", result)
    BY <1>8 DEF EndInLastField, f, c
  <2>2. Verdict(header_value, k, "accepted", result)
    BY <1>5, <1>6, <1>8, <2>1 DEF Verdict
  <2> QED
    BY <1>7, <2>1, <2>2, FinishParseInv
<1>9. CASE ~WellFormed(k, f)
  <2>1. Finish(k, "rejected", NoContext)
    BY <1>9 DEF EndInLastField, f, c
  <2>2. Verdict(header_value, k, "rejected", NoContext)
    BY <1>5, <1>9 DEF Verdict
  <2> QED
    BY <1>7, <2>1, <2>2, FinishParseInv
<1> QED
  BY <1>8, <1>9

LEMMA EndTooEarlyParseInv ==
  ASSUME ParseInv, NEW k \in {"sw8", "sw8-x"}, EndTooEarly(k)
  PROVE  ParseInv'
<1>1. /\ kind = k /\ outcome = "reading" /\ current_field_idx < FieldCount(k) - 1
      /\ fields' = [fields EXCEPT ![current_field_idx] = value]
      /\ Finish(k, "rejected", NoContext)
  BY DEF EndTooEarly, Finish
<1>2. /\ FieldCount(k) \in Nat /\ current_field_idx \in 0..FieldCount(k)
      /\ Seps(header_value, Len(header_value)) = current_field_idx
      /\ DOMAIN fields = 0..(FieldCount(k) - 1)
  BY <1>1, AfterLoop
<1>3. /\ Seps(header_value, Len(header_value)) \in Nat
      /\ Seps(header_value, Len(header_value)) # FieldCount(k) - 1
  BY <1>1, <1>2
<1>4. Verdict(header_value, k, "rejected", NoContext)
  BY <1>3, WrongCountIsRejected
<1>5. /\ DOMAIN fields' = 0..(FieldCount(k) - 1)
      /\ fields' = [j \in DOMAIN fields' |-> fields'[j]]
  BY <1>1, <1>2
<1> QED
  BY <1>1, <1>4, <1>5, FinishParseInv

LEMMA EndBehindLastFieldParseInv ==
  ASSUME ParseInv, NEW k \in {"sw8", "sw8-x"}, EndBehindLastField(k)
  PROVE  ParseInv'
<1>1. /\ kind = k /\ outcome = "reading" /\ current_field_idx = FieldCount(k)
      /\ fields' = fields
      /\ \/ Finish(k, "rejected", NoContext)
         \/ Finish(k, "undefined", NoContext)
  BY DEF EndBehindLastField, Finish
<1>2. /\ FieldCount(k) \in Nat
      /\ Seps(header_value, Len(header_value)) = current_field_idx
      /\ DOMAIN fields = 0..(FieldCount(k) - 1)
      /\ fields = [j \in DOMAIN fields |-> fields[j]]
  BY <1>1, AfterLoop
<1>3. /\ Seps(header_value, Len(header_value)) \in Nat
      /\ Seps(header_value, Len(header_value)) # FieldCount(k) - 1
  BY <1>1, <1>2
<1>4. Verdict(header_value, k, "rejected", NoContext)
  BY <1>3, WrongCountIsRejected
<1>5. CASE Finish(k, "rejected", NoContext)
  BY <1>1, <1>2, <1>4, <1>5, FinishParseInv
<1>6. CASE Finish(k, "undefined", NoContext)
  <2>1. /\ kind' = k /\ outcome' = "undefined"
        /\ UNCHANGED <<header_value, current_field_idx, value, fields>>
    BY <1>1, <1>6 DEF Finish
  <2>2. TypeOK' /\ ParserTypeOK' /\ ReadSoFar'
    BY <1>1, <2>1 DEF ParseInv, TypeOK, ParserTypeOK, ReadSoFar
  <2>3. ParsesExactly'
    BY <2>1, Judged DEF Returned
  <2> QED
    BY <2>2, <2>3 DEF ParseInv
<1> QED
  BY <1>1, <1>5, <1>6

LEMMA StepParseInv == ParseInv /\ [Next]_vars => ParseInv'
<1> SUFFICES ASSUME ParseInv, [Next]_vars PROVE ParseInv'
  OBVIOUS
<1>1. ASSUME NEW k \in {"sw8", "sw8-x"}, NEW ch \in Letters,
             TooManyFields(k, ch) \/ ExtendField(k, ch)
      PROVE  ParseInv'
  BY <1>1, TooManyFieldsParseInv, ExtendFieldParseInv
<1>2. ASSUME NEW k \in {"sw8", "sw8-x"},
             EndField(k) \/ EndInLastField(k) \/ EndTooEarly(k)
               \/ EndBehindLastField(k)
      PROVE  ParseInv'
  BY <1>2, EndFieldParseInv, EndInLastFieldParseInv, EndTooEarlyParseInv,
     EndBehindLastFieldParseInv
<1>3. CASE SpanContextImpl
  <2>1. Char("sw8") \subseteq Letters
    BY DEF Letters
  <2> QED
    BY <1>1, <1>2, <1>3, <2>1 DEF SpanContextImpl
<1>4. CASE SpanContextExtensionImpl
  <2>1. Char("sw8-x") \subseteq Letters
    BY DEF Letters
  <2> QED
    BY <1>1, <1>2, <1>4, <2>1 DEF SpanContextExtensionImpl
<1>5. CASE UNCHANGED vars
  <2>1. UNCHANGED <<kind, header_value, fields, current_field_idx,
                    value, outcome, context>>
    BY <1>5 DEF vars
  <2>2. TypeOK' /\ ParserTypeOK' /\ ReadSoFar'
    BY <2>1 DEF ParseInv, TypeOK, ParserTypeOK, ReadSoFar
  <2>3. ParsesExactly'
    BY <2>1, Judged DEF ParseInv, Returned
  <2> QED
    BY <2>2, <2>3 DEF ParseInv
<1> QED
  BY <1>3, <1>4, <1>5 DEF Next, Constructed

(* Within the loop of either constructor every store is to a field of the  *)
(* array, whatever the value of the header.                                *)
THEOREM ParserTypeCorrect == Spec => []TypeOK
<1>1. ParseInv => TypeOK
  BY DEF ParseInv
<1> QED
  BY <1>1, InitParseInv, StepParseInv, PTL DEF Spec

(* SpanContextImpl and SpanContextExtensionImpl accept exactly the values  *)
(* that split into their number of fields with a legal first field and     *)
(* span id, and read every member from its own field.                      *)
THEOREM ParsersAreExact == Spec => []ParsesExactly
<1>1. ParseInv => ParsesExactly
  BY DEF ParseInv
<1> QED
  BY <1>1, InitParseInv, StepParseInv, PTL DEF Spec

-----------------------------------------------------------------------------
(* A value that begins with a field.                                       *)

LEMMA ShiftCardinality ==
  ASSUME NEW L \in Nat, NEW T \in SUBSET Nat, IsFiniteSet(T)
  PROVE  /\ IsFiniteSet({L + x : x \in T})
         /\ Cardinality({L + x : x \in T}) = Cardinality(T)
<1> DEFINE F == [x \in T |-> L + x]
           U == {L + x : x \in T}
<1>1. F \in [T -> U] /\ \A y \in U : \E x \in T : F[x] = y
  OBVIOUS
<1>2. ASSUME NEW a \in T, NEW b \in T, F[a] = F[b] PROVE a = b
  <2>1. L + a = L + b /\ a \in Nat /\ b \in Nat
    BY <1>2
  <2> QED
    BY <2>1
<1> HIDE DEF F, U
<1>3. F \in Bijection(T, U)
  BY <1>1, <1>2, Fun_IsBij
<1>4. ExistsBijection(T, U)
  BY <1>3, Fun_ExistsBij
<1>5. IsFiniteSet(U) /\ Cardinality(U) = Cardinality(T)
  BY <1>4, FS_Bijection
<1> QED
  BY <1>5 DEF U

(* h is the field t, a separator and rest.                                 *)
Begins(h, t, rest) ==
  /\ Len(t) \in Nat /\ Len(rest) \in Nat /\ Len(h) = Len(t) + 1 + Len(rest)
  /\ \A i \in 1..Len(t) : h[i] = t[i] /\ t[i] # Separator
  /\ h[Len(t) + 1] = Separator
  /\ \A i \in 1..Len(rest) : h[Len(t) + 1 + i] = rest[i]

(* The separators of the field in front and its end.                       *)
LEMMA SepsOfFirst ==
  ASSUME NEW h, NEW t, NEW rest, Begins(h, t, rest)
  PROVE  /\ \A n \in 0..Len(t) : Seps(h, n) = 0
         /\ Seps(h, Len(t) + 1) = 1
<1>1. ASSUME NEW n \in 0..Len(t) PROVE Seps(h, n) = 0
  <2>1. {i \in 1..n : h[i] = Separator} = {}
    BY DEF Begins
  <2> QED
    BY <2>1, FS_EmptySet DEF Seps
<1>2. Len(t) \in Nat /\ h[Len(t) + 1] = Separator
  BY DEF Begins
<1>3. Seps(h, Len(t)) = 0
  BY <1>1, <1>2
<1> QED
  BY <1>1, <1>2, <1>3, SepsNext

(* Behind the field in front, counts are those of the rest plus one.       *)
LEMMA SepsOfRest ==
  ASSUME NEW h, NEW t, NEW rest, Begins(h, t, rest), NEW n \in 0..Len(rest)
  PROVE  Seps(h, Len(t) + 1 + n) = Seps(rest, n) + 1
<1> DEFINE L == Len(t) + 1
           T == {i \in 1..n : rest[i] = Separator}
           U == {L + i : i \in T}
           V == {i \in 1..(L + n) : h[i] = Separator}
<1>1. /\ L \in Nat \ {0} /\ Len(rest) \in Nat /\ n \in Nat /\ h[L] = Separator
      /\ \A i \in 1..(L - 1) : h[i] # Separator
      /\ \A i \in 1..n : h[L + i] = rest[i]
  <2>1. Len(t) \in Nat /\ Len(rest) \in Nat /\ h[L] = Separator
    BY DEF Begins
  <2>2. \A i \in 1..(L - 1) : i \in 1..Len(t)
    BY <2>1
  <2>3. \A i \in 1..Len(t) : h[i] # Separator
    BY DEF Begins
  <2>4. \A i \in 1..n : i \in 1..Len(rest)
    BY <2>1
  <2>5. \A i \in 1..Len(rest) : h[L + i] = rest[i]
    BY DEF Begins
  <2> QED
    BY <2>1, <2>2, <2>3, <2>4, <2>5
<1> HIDE DEF L
<1>2. IsFiniteSet(T) /\ T \in SUBSET Nat
  <2>1. T \in SUBSET (1..n)
    OBVIOUS
  <2>2. IsFiniteSet(T)
    BY <1>1, <2>1, PositionsFinite
  <2> QED
    BY <1>1, <2>1, <2>2
<1>3. V = U \cup {L}
  <2>1. ASSUME NEW i \in V PROVE i \in U \cup {L}
    <3>1. CASE i \in 1..(L - 1)
      BY <1>1, <3>1
    <3>2. CASE i = L
      BY <3>2
    <3>3. CASE i > L
      <4>1. i - L \in 1..n /\ L + (i - L) = i
        BY <1>1, <3>3
      <4>2. rest[i - L] = Separator
        BY <1>1, <4>1
      <4> QED
        BY <4>1, <4>2
    <3> QED
      BY <1>1, <3>1, <3>2, <3>3
  <2>2. ASSUME NEW i \in T PROVE L + i \in V
    BY <1>1
  <2>3. L \in V
    BY <1>1
  <2> QED
    BY <2>1, <2>2, <2>3
<1>4. L \notin U
  BY <1>1
<1> HIDE DEF T
<1>5. IsFiniteSet(U) /\ Cardinality(U) = Cardinality(T)
  BY <1>1, <1>2, ShiftCardinality
<1> HIDE DEF U
<1>6. Cardinality(U \cup {L}) = Cardinality(U) + 1
  BY <1>4, <1>5, FS_AddElement
<1> QED
  BY <1>3, <1>5, <1>6 DEF Seps, T, L

(* What lies before the first separator is the field in front.             *)
LEMMA UntilOfFirst ==
  ASSUME NEW h, NEW t, NEW rest, Begins(h, t, rest)
  PROVE  Until(h, 1) = Len(t)
<1>1. Len(t) \in Nat /\ Len(rest) \in Nat /\ Len(h) = Len(t) + 1 + Len(rest)
  BY DEF Begins
<1>2. ASSUME NEW i \in 1..Len(h), Seps(h, i) < 1 PROVE i \in 1..Len(t)
  <2> SUFFICES ASSUME Len(t) + 1 <= i PROVE FALSE
    BY <1>1
  <2>1. Seps(h, Len(t) + 1) <= Seps(h, i)
    BY <1>1, SepsMonotone
  <2>2. Seps(h, i) \in Nat
    <3>1. i \in Nat
      BY <1>1
    <3> QED
      BY <3>1, SepsNat
  <2> QED
    BY <1>2, <2>1, <2>2, SepsOfFirst
<1>3. ASSUME NEW i \in 1..Len(t) PROVE i \in 1..Len(h) /\ Seps(h, i) < 1
  <2>1. i \in 0..Len(t) /\ i \in 1..Len(h)
    BY <1>1
  <2> QED
    BY <2>1, SepsOfFirst
<1>4. {i \in 1..Len(h) : Seps(h, i) < 1} = 1..Len(t)
  BY <1>2, <1>3
<1>5. Cardinality(1..Len(t)) = Len(t)
  <2>1. 1 \in Int /\ Len(t) \in Int
        /\ (IF 1 > Len(t) THEN 0 ELSE Len(t) - 1 + 1) = Len(t)
    BY <1>1
  <2> QED
    BY <2>1, FS_Interval
<1> QED
  BY <1>4, <1>5 DEF Until

(* What lies before a later separator is one field longer.                 *)
LEMMA UntilOfRest ==
  ASSUME NEW h, NEW t, NEW rest, Begins(h, t, rest), NEW n \in Nat \ {0}
  PROVE  Until(h, n + 1) = Len(t) + 1 + Until(rest, n)
<1> DEFINE L == Len(t) + 1
           T == {i \in 1..Len(rest) : Seps(rest, i) < n}
           U == {L + i : i \in T}
           V == {i \in 1..Len(h) : Seps(h, i) < n + 1}
<1>1. L \in Nat \ {0} /\ Len(rest) \in Nat /\ Len(h) = L + Len(rest)
  BY DEF Begins
<1>2. Seps(h, L) = 1
  BY SepsOfFirst
<1>3. ASSUME NEW i \in 1..Len(rest)
      PROVE  Seps(h, L + i) = Seps(rest, i) + 1 /\ Seps(rest, i) \in Nat
  <2>1. i \in 0..Len(rest) /\ i \in Nat
    BY <1>1
  <2> QED
    BY <2>1, SepsOfRest, SepsNat
<1> HIDE DEF L
<1>4. ASSUME NEW i \in 1..L PROVE i \in V
  <2>1. i \in Nat /\ L \in Nat /\ i <= L /\ i \in 1..Len(h)
    BY <1>1
  <2>2. Seps(h, i) <= 1
    BY <1>2, <2>1, SepsMonotone
  <2>3. Seps(h, i) \in Nat
    BY <2>1, SepsNat
  <2> QED
    BY <2>1, <2>2, <2>3
<1>5. V = (1..L) \cup U
  <2>1. ASSUME NEW i \in V, i \notin 1..L PROVE i \in U
    <3>1. i - L \in 1..Len(rest) /\ L + (i - L) = i
      BY <1>1, <2>1
    <3>2. Seps(h, i) = Seps(rest, i - L) + 1 /\ Seps(rest, i - L) \in Nat
      BY <1>3, <3>1
    <3>3. Seps(h, i) < n + 1
      OBVIOUS
    <3>4. Seps(rest, i - L) < n
      BY <3>2, <3>3
    <3> QED
      BY <3>1, <3>4
  <2>2. ASSUME NEW i \in T PROVE L + i \in V
    <3>1. L + i \in 1..Len(h)
      BY <1>1
    <3>2. Seps(h, L + i) < n + 1
      BY <1>3
    <3> QED
      BY <3>1, <3>2
  <2> QED
    BY <1>4, <2>1, <2>2
<1>6. IsFiniteSet(T) /\ T \in SUBSET Nat
  BY <1>1, UntilType
<1>7. (1..L) \cap U = {}
  BY <1>1
<1> HIDE DEF T
<1>8. IsFiniteSet(U) /\ Cardinality(U) = Cardinality(T)
  BY <1>1, <1>6, ShiftCardinality
<1>9. IsFiniteSet(1..L) /\ Cardinality(1..L) = L
  <2>1. 1 \in Int /\ L \in Int /\ (IF 1 > L THEN 0 ELSE L - 1 + 1) = L
    BY <1>1
  <2> QED
    BY <2>1, FS_Interval
<1> HIDE DEF U
<1>10. Cardinality((1..L) \cup U) = L + Cardinality(T)
  <2>1. /\ Cardinality((1..L) \cup U) = L + Cardinality(T) - Cardinality({})
        /\ Cardinality({}) = 0
    <3>1. PICK A : A = 1..L
      OBVIOUS
    <3>2. Cardinality(A \cup U)
            = Cardinality(A) + Cardinality(U) - Cardinality(A \cap U)
      BY <1>8, <1>9, <3>1, FS_Union
    <3> QED
      BY <1>7, <1>8, <1>9, <3>1, <3>2, FS_EmptySet
  <2>2. Cardinality(T) \in Nat
    BY <1>6, FS_CardinalityType
  <2> QED
    BY <1>1, <2>1, <2>2
<1> QED
  BY <1>5, <1>10 DEF Until, T, L

(* Field 0 is the field in front.                                          *)
LEMMA FirstField ==
  ASSUME NEW S, NEW h \in Seq(S), NEW t \in Seq(S), NEW rest,
         Begins(h, t, rest)
  PROVE  FieldAt(h, 0) = t
<1>1. /\ Len(t) \in Nat /\ \A i \in 1..Len(t) : h[i] = t[i] /\ t[i] \in S
      /\ \A i \in 1..Len(t) : i \in 1..Len(h)
  BY ElementOfSeq DEF Begins
<1>2. FieldAt(h, 0) = SubSeq(h, 1, Len(t))
  BY UntilOfFirst DEF FieldAt
<1>3. /\ SubSeq(h, 1, Len(t)) \in Seq(S)
      /\ Len(SubSeq(h, 1, Len(t))) = IF 1 <= Len(t) THEN Len(t) - 1 + 1 ELSE 0
      /\ \A i \in 1..(Len(t) - 1 + 1) : SubSeq(h, 1, Len(t))[i] = h[1 + i - 1]
  <2>1. \A i \in 1..Len(t) : h[i] \in S
    BY <1>1
  <2>2. 1 \in Int /\ Len(t) \in Int
    BY <1>1
  <2> QED
    BY <2>1, <2>2, SubSeqProperties
<1>4. Len(SubSeq(h, 1, Len(t))) = Len(t)
  BY <1>1, <1>3
<1>5. ASSUME NEW i \in 1..Len(t) PROVE SubSeq(h, 1, Len(t))[i] = t[i]
  <2>1. i \in 1..(Len(t) - 1 + 1) /\ 1 + i - 1 = i
    BY <1>1
  <2> QED
    BY <1>1, <1>3, <2>1
<1>6. SubSeq(h, 1, Len(t)) = t
  BY <1>3, <1>4, <1>5, SeqEqual
<1> QED
  BY <1>2, <1>6

(* Parts of the value behind the field are parts of the rest.              *)
LEMMA ShiftSubSeq ==
  ASSUME NEW S, NEW h \in Seq(S), NEW rest \in Seq(S), NEW L \in Nat,
         Len(h) = L + Len(rest),
         \A i \in 1..Len(rest) : h[L + i] = rest[i],
         NEW a \in Nat \ {0}, NEW b \in 0..Len(rest)
  PROVE  SubSeq(h, L + a, L + b) = SubSeq(rest, a, b)
<1>1. Len(rest) \in Nat
  BY LenProperties
<1>2. /\ SubSeq(rest, a, b) \in Seq(S)
      /\ Len(SubSeq(rest, a, b)) = IF a <= b THEN b - a + 1 ELSE 0
      /\ \A i \in 1..(b - a + 1) : SubSeq(rest, a, b)[i] = rest[a + i - 1]
  <2>1. \A i \in a..b : i \in 1..Len(rest)
    BY <1>1
  <2>2. a \in Int /\ b \in Int /\ \A i \in a..b : rest[i] \in S
    BY <1>1, <2>1, ElementOfSeq
  <2> QED
    BY <2>2, SubSeqProperties
<1>3. /\ SubSeq(h, L + a, L + b) \in Seq(S)
      /\ Len(SubSeq(h, L + a, L + b)) =
           IF L + a <= L + b THEN (L + b) - (L + a) + 1 ELSE 0
      /\ \A i \in 1..((L + b) - (L + a) + 1) :
           SubSeq(h, L + a, L + b)[i] = h[(L + a) + i - 1]
  <2>1. \A i \in (L + a)..(L + b) : i \in 1..Len(h)
    BY <1>1
  <2>2. /\ L + a \in Int /\ L + b \in Int
        /\ \A i \in (L + a)..(L + b) : h[i] \in S
    BY <1>1, <2>1, ElementOfSeq
  <2> QED
    BY <2>2, SubSeqProperties
<1>4. (L + b) - (L + a) = b - a /\ (L + a <= L + b <=> a <= b)
  BY <1>1
<1>5. Len(SubSeq(h, L + a, L + b)) = Len(SubSeq(rest, a, b))
  BY <1>2, <1>3, <1>4
<1>6. ASSUME NEW i \in 1..Len(SubSeq(rest, a, b))
      PROVE  SubSeq(h, L + a, L + b)[i] = SubSeq(rest, a, b)[i]
  <2>1. /\ i \in 1..(b - a + 1) /\ a + i - 1 \in 1..Len(rest)
        /\ (L + a) + i - 1 = L + (a + i - 1)
    BY <1>1, <1>2
  <2> QED
    BY <1>2, <1>3, <1>4, <2>1
<1> QED
  BY <1>2, <1>3, <1>5, <1>6, SeqEqual

(* The fields behind it are the fields of the rest.                        *)
LEMMA OtherFields ==
  ASSUME NEW S, NEW h \in Seq(S), NEW t, NEW rest \in Seq(S),
         Begins(h, t, rest), NEW j \in Nat
  PROVE  FieldAt(h, j + 1) = FieldAt(rest, j)
<1> DEFINE L == Len(t) + 1
           a == IF j = 0 THEN 1 ELSE Until(rest, j) + 2
           b == Until(rest, j + 1)
<1>1. /\ Len(t) \in Nat /\ L \in Nat /\ Len(rest) \in Nat
      /\ Len(h) = L + Len(rest)
      /\ \A i \in 1..Len(rest) : h[L + i] = rest[i]
  BY DEF Begins
<1>2. a \in Nat \ {0} /\ b \in 0..Len(rest)
  <2>1. Until(rest, j) \in 0..Len(rest)
    BY <1>1, UntilType
  <2>2. j + 1 \in Nat
    OBVIOUS
  <2>3. Until(rest, j + 1) \in 0..Len(rest)
    BY <1>1, <2>2, UntilType
  <2> QED
    BY <1>1, <2>1, <2>3
<1>3. Until(h, j + 1) + 2 = L + a
  <2>1. CASE j = 0
    <3>1. Until(h, 1) = Len(t)
      BY UntilOfFirst
    <3> QED
      BY <1>1, <2>1, <3>1
  <2>2. CASE j # 0
    <3>1. j \in Nat \ {0}
      BY <2>2
    <3>2. Until(h, j + 1) = Len(t) + 1 + Until(rest, j)
      BY <3>1, UntilOfRest
    <3>3. Until(rest, j) \in 0..Len(rest)
      BY <1>1, UntilType
    <3> QED
      BY <1>1, <2>2, <3>2, <3>3
  <2> QED
    BY <2>1, <2>2
<1>4. Until(h, j + 1 + 1) = L + b
  <2>1. j + 1 \in Nat \ {0}
    OBVIOUS
  <2> QED
    BY <2>1, UntilOfRest
<1>5. FieldAt(h, j + 1) = SubSeq(h, L + a, L + b)
  <2>1. j + 1 # 0
    OBVIOUS
  <2> QED
    BY <1>3, <1>4, <2>1 DEF FieldAt
<1>6. FieldAt(rest, j) = SubSeq(rest, a, b)
  BY DEF FieldAt
<1> HIDE DEF L, a, b
<1>7. SubSeq(h, L + a, L + b) = SubSeq(rest, a, b)
  BY <1>1, <1>2, ShiftSubSeq
<1> QED
  BY <1>5, <1>6, <1>7

(* A value without a separator is one field.                               *)
LEMMA SingleField ==
  ASSUME NEW S, NEW t \in Seq(S), \A i \in 1..Len(t) : t[i] # Separator
  PROVE  Seps(t, Len(t)) = 0 /\ FieldAt(t, 0) = t
<1>1. Len(t) \in Nat
  BY LenProperties
<1>2. Seps(t, Len(t)) = 0
  <2>1. {i \in 1..Len(t) : t[i] = Separator} = {}
    OBVIOUS
  <2> QED
    BY <2>1, FS_EmptySet DEF Seps
<1>3. Until(t, 1) = Len(t)
  BY <1>1, <1>2, UntilAll
<1>4. FieldAt(t, 0) = SubSeq(t, 1, Len(t))
  BY <1>3 DEF FieldAt
<1> QED
  BY <1>2, <1>4, SubSeqFull

(* h has one field more than rest: t, in front of the others.              *)
InFront(t, rest, h) ==
  /\ Seps(h, Len(h)) = Seps(rest, Len(rest)) + 1 /\ FieldAt(h, 0) = t
  /\ FieldAt(h, 1) = FieldAt(rest, 0) /\ FieldAt(h, 2) = FieldAt(rest, 1)
  /\ FieldAt(h, 3) = FieldAt(rest, 2) /\ FieldAt(h, 4) = FieldAt(rest, 3)
  /\ FieldAt(h, 5) = FieldAt(rest, 4) /\ FieldAt(h, 6) = FieldAt(rest, 5)
  /\ FieldAt(h, 7) = FieldAt(rest, 6)

(* Both together, for the eight fields of sw8.                             *)
LEMMA FieldInFront ==
  ASSUME NEW S, Separator \in S, NEW t \in Seq(S), NEW rest \in Seq(S),
         \A i \in 1..Len(t) : t[i] # Separator,
         NEW h, h = (t \o <<Separator>>) \o rest
  PROVE  h \in Seq(S) /\ InFront(t, rest, h)
<1> DEFINE s == <<Separator>>
           u == t \o s
<1>0. h = u \o rest
  OBVIOUS
<1>1. s \in Seq(S) /\ Len(s) = 1 /\ s[1] = Separator
  OBVIOUS
<1> HIDE DEF s
<1>2. /\ u \in Seq(S) /\ Len(u) = Len(t) + 1
      /\ \A i \in 1..(Len(t) + 1) :
           u[i] = IF i <= Len(t) THEN t[i] ELSE s[i - Len(t)]
  <2>1. /\ u \in Seq(S) /\ Len(u) = Len(t) + Len(s)
        /\ \A i \in 1..Len(t) + Len(s) :
             u[i] = IF i <= Len(t) THEN t[i] ELSE s[i - Len(t)]
    BY <1>1, ConcatProperties, Zenon
  <2> QED
    BY <1>1, <2>1
<1>3. Len(t) \in Nat /\ Len(rest) \in Nat
  BY LenProperties
<1>4. (\A i \in 1..Len(t) : u[i] = t[i]) /\ u[Len(t) + 1] = Separator
  BY <1>1, <1>2, <1>3
<1> HIDE DEF u
<1>5. /\ h \in Seq(S) /\ Len(h) = Len(u) + Len(rest)
      /\ \A i \in 1..(Len(u) + Len(rest)) :
           h[i] = IF i <= Len(u) THEN u[i] ELSE rest[i - Len(u)]
  <2>1. u \in Seq(S)
    BY <1>2
  <2>2. /\ u \o rest \in Seq(S) /\ Len(u \o rest) = Len(u) + Len(rest)
        /\ \A i \in 1..(Len(u) + Len(rest)) :
             (u \o rest)[i] = IF i <= Len(u) THEN u[i] ELSE rest[i - Len(u)]
    BY <2>1, ConcatProperties
  <2> QED
    BY <1>0, <2>2
<1>6. Begins(h, t, rest)
  <2>1. ASSUME NEW i \in 1..Len(t) PROVE h[i] = t[i]
    <3>1. i \in 1..(Len(u) + Len(rest)) /\ i <= Len(u)
      BY <1>2, <1>3
    <3> QED
      BY <1>4, <1>5, <3>1
  <2>2. h[Len(t) + 1] = Separator
    <3>1. Len(t) + 1 \in 1..(Len(u) + Len(rest)) /\ Len(t) + 1 <= Len(u)
      BY <1>2, <1>3
    <3> QED
      BY <1>4, <1>5, <3>1
  <2>3. ASSUME NEW i \in 1..Len(rest) PROVE h[Len(t) + 1 + i] = rest[i]
    <3>1. /\ Len(t) + 1 + i \in 1..(Len(u) + Len(rest))
          /\ ~(Len(t) + 1 + i <= Len(u)) /\ Len(t) + 1 + i - Len(u) = i
      BY <1>2, <1>3
    <3> QED
      BY <1>5, <3>1
  <2> QED
    BY <1>2, <1>3, <1>5, <2>1, <2>2, <2>3 DEF Begins
<1>7. Seps(h, Len(h)) = Seps(rest, Len(rest)) + 1
  <2>1. Len(rest) \in 0..Len(rest) /\ Len(h) = Len(t) + 1 + Len(rest)
    BY <1>2, <1>3, <1>5
  <2> QED
    BY <1>6, <2>1, SepsOfRest
<1>8. FieldAt(h, 0) = t /\ \A j \in Nat : FieldAt(h, j + 1) = FieldAt(rest, j)
  BY <1>5, <1>6, FirstField, OtherFields
<1>9. /\ FieldAt(h, 0 + 1) = FieldAt(rest, 0)
      /\ FieldAt(h, 1 + 1) = FieldAt(rest, 1)
      /\ FieldAt(h, 2 + 1) = FieldAt(rest, 2)
      /\ FieldAt(h, 3 + 1) = FieldAt(rest, 3)
      /\ FieldAt(h, 4 + 1) = FieldAt(rest, 4)
      /\ FieldAt(h, 5 + 1) = FieldAt(rest, 5)
      /\ FieldAt(h, 6 + 1) = FieldAt(rest, 6)
  BY <1>8
<1>10. /\ FieldAt(h, 1) = FieldAt(rest, 0) /\ FieldAt(h, 2) = FieldAt(rest, 1)
       /\ FieldAt(h, 3) = FieldAt(rest, 2) /\ FieldAt(h, 4) = FieldAt(rest, 3)
       /\ FieldAt(h, 5) = FieldAt(rest, 4) /\ FieldAt(h, 6) = FieldAt(rest, 5)
       /\ FieldAt(h, 7) = FieldAt(rest, 6)
  BY <1>9
<1> QED
  BY <1>5, <1>7, <1>8, <1>10 DEF InFront

-----------------------------------------------------------------------------
(* The header a tracer of this library writes.                             *)

OwnLetters == Char("sw8") \cup {Separator, "1"}

Ended(t) == t \o <<Separator>>

Extended(x, t) == (x \o t) \o <<Separator>>

(* A text and its separator are a sequence.                                *)
LEMMA ExtendedType ==
  ASSUME NEW x \in Seq(OwnLetters), NEW t \in Seq(OwnLetters)
  PROVE  Extended(x, t) \in Seq(OwnLetters)
<1>1. Separator \in OwnLetters
  BY DEF OwnLetters
<1>2. <<Separator>> \in Seq(OwnLetters)
  BY <1>1
<1>3. x \o t \in Seq(OwnLetters)
  BY ConcatProperties
<1> QED
  BY <1>2, <1>3, ConcatProperties DEF Extended

(* The order in which texts and separators are joined is irrelevant.       *)
LEMMA Regroup ==
  ASSUME NEW x \in Seq(OwnLetters), NEW t \in Seq(OwnLetters),
         NEW r \in Seq(OwnLetters)
  PROVE  Extended(x, t) \o r = x \o (Ended(t) \o r)
<1>1. PICK s \in Seq(OwnLetters) : s = <<Separator>>
  <2>1. Separator \in OwnLetters
    BY DEF OwnLetters
  <2>2. <<Separator>> \in Seq(OwnLetters)
    BY <2>1
  <2> QED
    BY <2>2
<1>2. x \o t \in Seq(OwnLetters) /\ t \o s \in Seq(OwnLetters)
  BY <1>1, ConcatProperties
<1>3. (x \o t) \o s = x \o (t \o s)
  BY <1>1, ConcatAssociative
<1>4. PICK u \in Seq(OwnLetters) : u = t \o s
  BY <1>2
<1>5. (x \o u) \o r = x \o (u \o r)
  <2>1. ASSUME NEW v \in Seq(OwnLetters)
        PROVE  (x \o v) \o r = x \o (v \o r)
    BY ConcatAssociative
  <2> QED
    BY <2>1, Zenon
<1> QED
  BY <1>1, <1>3, <1>4, <1>5 DEF Ended, Extended

(* What the assumption says of one context.                                *)
LEMMA OwnTexts ==
  ASSUME NEW own \in OwnContexts, NEW f \in Members
  PROVE  /\ TextOf(own, f) \in Seq(OwnLetters)
         /\ \A i \in 1..Len(TextOf(own, f)) : TextOf(own, f)[i] # Separator
         /\ own[f] = IF f = "spanId" THEN SimpleAtoi(TextOf(own, f))
                                     ELSE Decode(TextOf(own, f))
<1>1. /\ TextOf(own, f) \in Seq(Char("sw8"))
      /\ \A i \in 1..Len(TextOf(own, f)) : TextOf(own, f)[i] # Separator
      /\ own[f] = IF f = "spanId" THEN SimpleAtoi(TextOf(own, f))
                                  ELSE Decode(TextOf(own, f))
  BY PropagationAssumption
<1>2. Char("sw8") \subseteq OwnLetters
  BY DEF OwnLetters
<1> QED
  BY <1>1, <1>2

(* The header encodeSpan writes splits into its eight texts.               *)
LEMMA OwnHeaderSplits ==
  ASSUME NEW own \in OwnContexts
  PROVE  LET h == EncodeSpan(own)
         IN  /\ Seps(h, Len(h)) = 7
             /\ FieldAt(h, 0) = <<"1">>
             /\ FieldAt(h, 1) = TextOf(own, "traceId")
             /\ FieldAt(h, 2) = TextOf(own, "traceSegmentId")
             /\ FieldAt(h, 3) = TextOf(own, "spanId")
             /\ FieldAt(h, 4) = TextOf(own, "service")
             /\ FieldAt(h, 5) = TextOf(own, "serviceInstance")
             /\ FieldAt(h, 6) = TextOf(own, "endpoint")
             /\ FieldAt(h, 7) = TextOf(own, "targetAddress")
<1>1. PICK t1, t2, t3, t4, t5, t6, t7 :
        /\ t1 = TextOf(own, "traceId") /\ t2 = TextOf(own, "traceSegmentId")
        /\ t3 = TextOf(own, "spanId") /\ t4 = TextOf(own, "service")
        /\ t5 = TextOf(own, "serviceInstance") /\ t6 = TextOf(own, "endpoint")
        /\ t7 = TextOf(own, "targetAddress")
  OBVIOUS
<1>2. ASSUME NEW t \in {t1, t2, t3, t4, t5, t6, t7}
      PROVE  t \in Seq(OwnLetters) /\ \A i \in 1..Len(t) : t[i] # Separator
  <2>1. \E f \in Members : t = TextOf(own, f)
    BY <1>1 DEF Members
  <2> QED
    BY <2>1, OwnTexts
<1>3. /\ Separator \in OwnLetters /\ "1" \in OwnLetters
      /\ <<"1">> \in Seq(OwnLetters) /\ <<"1", Separator>> \in Seq(OwnLetters)
  <2>1. Separator \in OwnLetters /\ "1" \in OwnLetters
    BY DEF OwnLetters
  <2> QED
    BY <2>1
<1>4. PICK r6, r5, r4, r3, r2, r1, r0 :
        /\ r6 = Ended(t6) \o t7 /\ r5 = Ended(t5) \o r6
        /\ r4 = Ended(t4) \o r5 /\ r3 = Ended(t3) \o r4
        /\ r2 = Ended(t2) \o r3 /\ r1 = Ended(t1) \o r2
        /\ r0 = Ended(<<"1">>) \o r1
  OBVIOUS
<1>5. ASSUME NEW t \in Seq(OwnLetters), NEW rest \in Seq(OwnLetters),
             \A i \in 1..Len(t) : t[i] # Separator,
             NEW h, h = Ended(t) \o rest
      PROVE  h \in Seq(OwnLetters) /\ InFront(t, rest, h)
  BY <1>3, <1>5, FieldInFront DEF Ended
<1>6. r6 \in Seq(OwnLetters) /\ InFront(t6, t7, r6)
  BY <1>2, <1>4, <1>5
<1>7. r5 \in Seq(OwnLetters) /\ InFront(t5, r6, r5)
  BY <1>2, <1>4, <1>5, <1>6
<1>8. r4 \in Seq(OwnLetters) /\ InFront(t4, r5, r4)
  BY <1>2, <1>4, <1>5, <1>7
<1>9. r3 \in Seq(OwnLetters) /\ InFront(t3, r4, r3)
  BY <1>2, <1>4, <1>5, <1>8
<1>10. r2 \in Seq(OwnLetters) /\ InFront(t2, r3, r2)
  BY <1>2, <1>4, <1>5, <1>9
<1>11. r1 \in Seq(OwnLetters) /\ InFront(t1, r2, r1)
  BY <1>2, <1>4, <1>5, <1>10
<1>12. r0 \in Seq(OwnLetters) /\ InFront(<<"1">>, r1, r0)
  <2>1. \A i \in 1..Len(<<"1">>) : <<"1">>[i] # Separator
    BY DEF Separator
  <2> QED
    BY <1>3, <1>4, <1>5, <1>11, <2>1
<1>13. Seps(t7, Len(t7)) = 0 /\ FieldAt(t7, 0) = t7
  BY <1>2, SingleField
<1>14. /\ Seps(r0, Len(r0)) = 7 /\ FieldAt(r0, 0) = <<"1">>
       /\ FieldAt(r0, 1) = t1 /\ FieldAt(r0, 2) = t2 /\ FieldAt(r0, 3) = t3
       /\ FieldAt(r0, 4) = t4 /\ FieldAt(r0, 5) = t5 /\ FieldAt(r0, 6) = t6
       /\ FieldAt(r0, 7) = t7
  BY <1>6, <1>7, <1>8, <1>9, <1>10, <1>11, <1>12, <1>13 DEF InFront
<1>15. EncodeSpan(own) = r0
  <2>1. PICK p1, p2, p3, p4, p5, p6, p7 :
          /\ p1 = <<"1", Separator>> /\ p2 = Extended(p1, t1)
          /\ p3 = Extended(p2, t2) /\ p4 = Extended(p3, t3)
          /\ p5 = Extended(p4, t4) /\ p6 = Extended(p5, t5)
          /\ p7 = Extended(p6, t6)
    OBVIOUS
  <2>2. EncodeSpan(own) = p7 \o t7
    BY <1>1, <2>1 DEF EncodeSpan, TextOf, Extended
  <2>3. /\ t1 \in Seq(OwnLetters) /\ t2 \in Seq(OwnLetters)
        /\ t3 \in Seq(OwnLetters) /\ t4 \in Seq(OwnLetters)
        /\ t5 \in Seq(OwnLetters) /\ t6 \in Seq(OwnLetters)
        /\ t7 \in Seq(OwnLetters)
    BY <1>2
  <2>4. p1 \in Seq(OwnLetters)
    BY <1>3, <2>1
  <2>5. p2 \in Seq(OwnLetters)
    BY <2>1, <2>3, <2>4, ExtendedType, Zenon
  <2>6. p3 \in Seq(OwnLetters)
    BY <2>1, <2>3, <2>5, ExtendedType, Zenon
  <2>7. p4 \in Seq(OwnLetters)
    BY <2>1, <2>3, <2>6, ExtendedType, Zenon
  <2>8. p5 \in Seq(OwnLetters)
    BY <2>1, <2>3, <2>7, ExtendedType, Zenon
  <2>9. p6 \in Seq(OwnLetters)
    BY <2>1, <2>3, <2>8, ExtendedType, Zenon
  <2>10. p7 \o t7 = p6 \o r6
    <3>1. Extended(p6, t6) \o t7 = p6 \o (Ended(t6) \o t7)
      BY <2>3, <2>9, Regroup, Zenon
    <3> QED
      BY <1>4, <2>1, <3>1, Zenon
  <2>11. p6 \o r6 = p5 \o r5
    <3>1. Extended(p5, t5) \o r6 = p5 \o (Ended(t5) \o r6)
      <4>1. t5 \in Seq(OwnLetters) /\ r6 \in Seq(OwnLetters)
        BY <2>3, <1>6, Zenon
      <4> QED
        BY <2>8, <4>1, Regroup, Zenon
    <3> QED
      BY <1>4, <2>1, <3>1, Zenon
  <2>12. p5 \o r5 = p4 \o r4
    <3>1. Extended(p4, t4) \o r5 = p4 \o (Ended(t4) \o r5)
      <4>1. t4 \in Seq(OwnLetters) /\ r5 \in Seq(OwnLetters)
        BY <2>3, <1>7, Zenon
      <4> QED
        BY <2>7, <4>1, Regroup, Zenon
    <3> QED
      BY <1>4, <2>1, <3>1, Zenon
  <2>13. p4 \o r4 = p3 \o r3
    <3>1. Extended(p3, t3) \o r4 = p3 \o (Ended(t3) \o r4)
      <4>1. t3 \in Seq(OwnLetters) /\ r4 \in Seq(OwnLetters)
        BY <2>3, <1>8, Zenon
      <4> QED
        BY <2>6, <4>1, Regroup, Zenon
    <3> QED
      BY <1>4, <2>1, <3>1, Zenon
  <2>14. p3 \o r3 = p2 \o r2
    <3>1. Extended(p2, t2) \o r3 = p2 \o (Ended(t2) \o r3)
      <4>1. t2 \in Seq(OwnLetters) /\ r3 \in Seq(OwnLetters)
        BY <2>3, <1>9, Zenon
      <4> QED
        BY <2>5, <4>1, Regroup, Zenon
    <3> QED
      BY <1>4, <2>1, <3>1, Zenon
  <2>15. p2 \o r2 = p1 \o r1
    <3>1. Extended(p1, t1) \o r2 = p1 \o (Ended(t1) \o r2)
      <4>1. t1 \in Seq(OwnLetters) /\ r2 \in Seq(OwnLetters)
        BY <2>3, <1>10, Zenon
      <4> QED
        BY <2>4, <4>1, Regroup, Zenon
    <3> QED
      BY <1>4, <2>1, <3>1, Zenon
  <2>16. p1 = Ended(<<"1">>)
    BY <2>1 DEF Ended
  <2> QED
    BY <1>4, <2>2, <2>10, <2>11, <2>12, <2>13,
       <2>14, <2>15, <2>16
<1> QED
  BY <1>1, <1>14, <1>15

(* The next tracer accepts that header and reads every member back.        *)
LEMMA OwnVerdict ==
  ASSUME NEW own \in OwnContexts, NEW ended, NEW result,
         Verdict(EncodeSpan(own), "sw8", ended, result)
  PROVE  ended = "accepted" /\ result = own
<1> DEFINE f == SplitOf(EncodeSpan(own))
<1>1. /\ DOMAIN f = 0..7
      /\ f[0] = <<"1">>
      /\ f[1] = TextOf(own, "traceId") /\ f[2] = TextOf(own, "traceSegmentId")
      /\ f[3] = TextOf(own, "spanId") /\ f[4] = TextOf(own, "service")
      /\ f[5] = TextOf(own, "serviceInstance") /\ f[6] = TextOf(own, "endpoint")
      /\ f[7] = TextOf(own, "targetAddress")
  BY OwnHeaderSplits DEF SplitOf
<1> HIDE DEF f
<1>2. /\ own.traceId = Decode(f[1]) /\ own.traceSegmentId = Decode(f[2])
      /\ own.spanId = SimpleAtoi(f[3]) /\ own.service = Decode(f[4])
      /\ own.serviceInstance = Decode(f[5]) /\ own.endpoint = Decode(f[6])
      /\ own.targetAddress = Decode(f[7])
  BY <1>1, OwnTexts DEF Members
<1>3. WellFormed("sw8", f)
  <2>1. own.spanId # NotAnInteger
    BY PropagationAssumption
  <2> QED
    BY <1>1, <1>2, <2>1 DEF WellFormed
<1>4. SpanContext(f) = own
  <2>1. own = [m \in Members |-> own[m]]
    BY PropagationAssumption
  <2>2. SpanContext(f) = [m \in Members |-> SpanContext(f)[m]]
    BY DEF SpanContext, Members
  <2>3. ASSUME NEW m \in Members PROVE SpanContext(f)[m] = own[m]
    BY <1>2 DEF SpanContext, Members
  <2> QED
    BY <2>1, <2>2, <2>3
<1>5. FieldCount("sw8") - 1 = 7
  BY FieldCounts
<1> QED
  BY <1>1, <1>3, <1>4, <1>5 DEF Verdict, f

(* What encodeSpan of one process writes, SpanContextImpl of the next one  *)
(* accepts, and every member arrives unchanged.                            *)
THEOREM OwnHeadersAreUnderstood == Spec => []OwnHeaderUnderstood
<1>1. ParseInv => OwnHeaderUnderstood
  <2> SUFFICES ASSUME ParseInv, NEW own \in OwnContexts,
                      Returned, kind = "sw8", header_value = EncodeSpan(own)
               PROVE  outcome = "accepted" /\ context = own
    BY DEF OwnHeaderUnderstood
  <2>1. Verdict(EncodeSpan(own), "sw8", outcome, context)
    BY Judged DEF ParseInv
  <2> QED
    BY <2>1, OwnVerdict
<1> QED
  BY <1>1, InitParseInv, StepParseInv, PTL DEF Spec

=============================================================================
