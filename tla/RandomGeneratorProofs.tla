----------------------- MODULE RandomGeneratorProofs -----------------------
(***************************************************************************)
(* Proofs about RandomGenerator, for every set of threads, every size of   *)
(* the buffer and any number of ids. The argument: the bytes of a buffer   *)
(* are handed out in order, so that the bytes of the ids a thread has      *)
(* returned all lie before the point that its next id is taken from.       *)
(***************************************************************************)
EXTENDS RandomGenerator, SequenceTheorems, FiniteSetTheorems,
        FunctionTheorems, TLAPS

ByteIds == Threads \X Nat \X Nat

Chars == [ byte : ByteIds \cup {<<>>},
           bits : {"uninitialised", "-", "random", "version 4", "variant 1"},
           half : {"none", "high", "low"} ]

Arrays == [0..(UUID_LENGTH - 1) -> Chars]

UuidTypeOK ==
  /\ buffered_idx \in [Threads -> Nat] /\ fills \in [Threads -> Nat]
  /\ rand \in [Threads -> Nat] /\ i \in [Threads -> 0..UuidBytes]
  /\ uuid \in [Threads -> Arrays]
  /\ pc \in [Threads -> {"idle", "take", "advance", "format"}]
  /\ issued \in [Threads -> Seq(Arrays)]

(* The bytes of the id that thread t is making.                            *)
Taken(t) == {<<t, fills[t], o>> : o \in rand[t]..(rand[t] + UuidBytes - 1)}

(* The bytes of the buffer of t before the ones of the id it is making.    *)
Limit(t) == IF pc[t] = "format" THEN rand[t] ELSE buffered_idx[t]

Spent(t) ==
  {b \in ByteIds : /\ b[1] = t
                   /\ b[2] <= fills[t]
                   /\ b[2] = fills[t] => b[3] < Limit(t)}

(* The thread's bytes are the ones right before the index.                 *)
TakenInOrder ==
  \A t \in Threads :
    /\ pc[t] = "advance" => rand[t] = buffered_idx[t]
    /\ pc[t] = "format" => /\ rand[t] + UuidBytes = buffered_idx[t]
                           /\ Bytes(uuid[t]) \subseteq Taken(t)

IssuedAreSpent ==
  \A t \in Threads : \A m \in 1..Len(issued[t]) :
    Bytes(issued[t][m]) \subseteq Spent(t)

UuidInv ==
  UuidTypeOK /\ TakenInOrder /\ IssuedAreSpent /\ FreshBytes

LEMMA UnsetArray ==
  LET blank == [k \in 0..(UUID_LENGTH - 1) |-> Unset]
  IN  blank \in Arrays /\ Bytes(blank) = {}
<1>1. Unset \in Chars
  BY DEF Unset, Chars
<1> QED
  BY <1>1 DEF Arrays, Bytes

LEMMA InitUuidInv == UuidInit => UuidInv
<1> SUFFICES ASSUME UuidInit PROVE UuidInv
  OBVIOUS
<1>1. UuidTypeOK
  <2>1. <<>> \in Seq(Arrays)
    BY EmptySeq
  <2>2. uuid \in [Threads -> Arrays]
    BY UnsetArray DEF UuidInit
  <2>3. /\ buffered_idx \in [Threads -> Nat] /\ fills \in [Threads -> Nat]
        /\ rand \in [Threads -> Nat] /\ i \in [Threads -> 0..UuidBytes]
    BY BufferAssumption DEF UuidInit, UuidBytes
  <2>4. /\ pc \in [Threads -> {"idle", "take", "advance", "format"}]
        /\ issued \in [Threads -> Seq(Arrays)]
    BY <2>1 DEF UuidInit
  <2> QED
    BY <2>2, <2>3, <2>4 DEF UuidTypeOK
<1>2. \A t \in Threads : pc[t] = "idle" /\ 1..Len(issued[t]) = {}
  BY EmptySeq DEF UuidInit
<1> QED
  BY <1>1, <1>2 DEF UuidInv, TakenInOrder, IssuedAreSpent, FreshBytes

(* The bytes spent only become more, and no id is returned: the ids        *)
(* returned before stay spent and apart.                                   *)
LEMMA SpentGrows ==
  ASSUME UuidInv, UNCHANGED issued,
         \A t \in Threads : Spent(t) \subseteq Spent(t)'
  PROVE  IssuedAreSpent' /\ FreshBytes'
BY DEF UuidInv, IssuedAreSpent, FreshBytes

LEMMA RefillUuidInv ==
  ASSUME UuidInv, NEW t \in Threads, Refill(t)
  PROVE  UuidInv'
<1>1. UuidTypeOK /\ UuidTypeOK'
  <2>1. fills' \in [Threads -> Nat] /\ buffered_idx' \in [Threads -> Nat]
    <3>1. fills \in [Threads -> Nat] /\ buffered_idx \in [Threads -> Nat]
      BY DEF UuidInv, UuidTypeOK
    <3>2. CASE Exhausted(buffered_idx[t])
      <4>1. /\ fills' = [fills EXCEPT ![t] = @ + 1]
            /\ buffered_idx' = [buffered_idx EXCEPT ![t] = 0]
        BY <3>2 DEF Refill, BufferOf
      <4> QED
        BY <3>1, <4>1
    <3>3. CASE ~Exhausted(buffered_idx[t])
      BY <3>1, <3>3 DEF Refill, BufferOf
    <3> QED
      BY <3>2, <3>3
  <2>2. pc' \in [Threads -> {"idle", "take", "advance", "format"}]
    BY DEF UuidInv, UuidTypeOK, Refill, Goto
  <2> QED
    BY <2>1, <2>2 DEF UuidInv, UuidTypeOK, Refill
<1>2. TakenInOrder'
  BY <1>1 DEF UuidInv, UuidTypeOK, TakenInOrder, Taken, Refill, Goto, BufferOf
<1>3. ASSUME NEW u \in Threads PROVE Spent(u) \subseteq Spent(u)'
  <2>1. ASSUME NEW b \in ByteIds PROVE b[2] \in Nat /\ b[3] \in Nat
    BY DEF ByteIds
  <2>2. \/ fills'[u] = fills[u] /\ Limit(u)' = Limit(u)
        \/ fills'[u] = fills[u] + 1 /\ fills[u] \in Nat
    BY <1>1 DEF UuidTypeOK, Limit, Refill, Goto, BufferOf
  <2> QED
    BY <2>1, <2>2 DEF Spent
<1> QED
  BY <1>1, <1>2, <1>3, SpentGrows DEF UuidInv, Refill

LEMMA TakeUuidInv ==
  ASSUME UuidInv, NEW t \in Threads, Take(t)
  PROVE  UuidInv'
<1>1. UuidTypeOK /\ UuidTypeOK'
  BY DEF UuidInv, UuidTypeOK, Take, Goto, BufferOf
<1>2. TakenInOrder'
  BY <1>1 DEF UuidInv, UuidTypeOK, TakenInOrder, Taken, Take, Goto, BufferOf
<1>3. ASSUME NEW u \in Threads PROVE Spent(u) \subseteq Spent(u)'
  BY <1>1 DEF UuidTypeOK, Spent, Limit, Take, Goto
<1> QED
  BY <1>1, <1>2, <1>3, SpentGrows DEF UuidInv, Take

LEMMA AdvanceUuidInv ==
  ASSUME UuidInv, NEW t \in Threads, Advance(t)
  PROVE  UuidInv'
<1>1. UuidTypeOK /\ UuidTypeOK'
  <2>1. uuid' \in [Threads -> Arrays]
    BY UnsetArray DEF UuidInv, UuidTypeOK, Advance
  <2> QED
    BY <2>1 DEF UuidInv, UuidTypeOK, Advance, Goto, BufferOf, UuidBytes
<1>2. TakenInOrder'
  <2>1. Bytes(uuid'[t]) = {}
    BY <1>1, UnsetArray DEF UuidTypeOK, Advance
  <2>2. ASSUME NEW u \in Threads \ {t}
        PROVE  /\ pc'[u] = pc[u] /\ rand'[u] = rand[u] /\ fills'[u] = fills[u]
               /\ uuid'[u] = uuid[u] /\ buffered_idx'[u] = buffered_idx[u]
    BY <1>1 DEF UuidTypeOK, Advance, Goto, BufferOf
  <2>3. pc'[t] = "format" /\ rand'[t] + UuidBytes = buffered_idx'[t]
    BY <1>1 DEF UuidInv, UuidTypeOK, TakenInOrder, Advance, Goto, BufferOf
  <2> QED
    BY <2>1, <2>2, <2>3 DEF UuidInv, TakenInOrder, Taken
<1>3. ASSUME NEW u \in Threads PROVE Spent(u) \subseteq Spent(u)'
  <2>1. Limit(u)' = Limit(u) /\ fills'[u] = fills[u]
    BY <1>1
       DEF UuidInv, UuidTypeOK, TakenInOrder, Limit, Advance, Goto, BufferOf
  <2> QED
    BY <2>1 DEF Spent
<1> QED
  BY <1>1, <1>2, <1>3, SpentGrows DEF UuidInv, Advance

(* One iteration adds the digits of one of the sixteen bytes.              *)
LEMMA FormatByteUuidInv ==
  ASSUME UuidInv, NEW t \in Threads, FormatByte(t)
  PROVE  UuidInv'
<1> DEFINE n    == i[t]
           byte == <<t, fills[t], rand[t] + n>>
<1>1. UuidTypeOK /\ n \in 0..(UuidBytes - 1)
  BY DEF UuidInv, UuidTypeOK, FormatByte, UuidBytes
<1>2. byte \in ByteIds /\ byte \in Taken(t)
  <2>1. rand[t] \in Nat /\ fills[t] \in Nat
    BY <1>1 DEF UuidTypeOK
  <2>2. rand[t] + n \in rand[t]..(rand[t] + UuidBytes - 1)
    BY <1>1, <2>1 DEF UuidBytes
  <2> QED
    BY <1>1, <2>1, <2>2 DEF ByteIds, Taken, UuidBytes
<1>3. ASSUME NEW half \in {"high", "low"}
      PROVE  /\ Digit(byte, n, half) \in Chars
             /\ Digit(byte, n, half).byte = byte
  BY <1>2 DEF Digit, Chars
<1>4. Dash \in Chars
  BY DEF Dash, Chars
<1>5. ASSUME NEW k \in 0..(UUID_LENGTH - 1)
      PROVE  \/ uuid'[t][k] \in {Digit(byte, n, "high"), Digit(byte, n, "low")}
             \/ uuid'[t][k] = Dash
             \/ uuid'[t][k] = uuid[t][k]
  <2> HIDE DEF n, byte
  <2>1. uuid'[t][k] = CASE k = Position(n)     -> Digit(byte, n, "high")
                        [] k = Position(n) + 1 -> Digit(byte, n, "low")
                        [] k \in DashAfter(n)  -> Dash
                        [] OTHER -> uuid[t][k]
    BY <1>1 DEF UuidTypeOK, FormatByte, BufferOf, n, byte
  <2> QED
    BY <2>1
<1>6. /\ uuid' = [uuid EXCEPT ![t] = uuid'[t]]
      /\ DOMAIN uuid'[t] = 0..(UUID_LENGTH - 1)
      /\ uuid'[t] = [k \in 0..(UUID_LENGTH - 1) |-> uuid'[t][k]]
  BY <1>1 DEF UuidTypeOK, FormatByte
<1> HIDE DEF n, byte
<1>7. uuid'[t] \in Arrays
  <2>1. ASSUME NEW k \in 0..(UUID_LENGTH - 1) PROVE uuid'[t][k] \in Chars
    BY <1>1, <1>3, <1>4, <1>5 DEF UuidTypeOK, Arrays
  <2> QED
    BY <1>6, <2>1 DEF Arrays
<1>8. UuidTypeOK'
  <2>1. uuid' \in [Threads -> Arrays]
    BY <1>1, <1>6, <1>7 DEF UuidTypeOK
  <2>2. i' \in [Threads -> 0..UuidBytes]
    <3>1. i' = [i EXCEPT ![t] = n + 1]
      BY DEF FormatByte, n
    <3>2. n + 1 \in 0..UuidBytes
      BY <1>1 DEF UuidBytes
    <3> QED
      BY <1>1, <3>1, <3>2 DEF UuidTypeOK
  <2> QED
    BY <1>1, <2>1, <2>2 DEF UuidTypeOK, FormatByte
<1>9. Bytes(uuid'[t]) \subseteq Taken(t)
  <2> SUFFICES ASSUME NEW k \in DOMAIN uuid'[t],
                      uuid'[t][k] \notin {Dash, Unset}
               PROVE  uuid'[t][k].byte \in Taken(t)
    BY DEF Bytes
  <2>1. CASE uuid'[t][k] \in {Digit(byte, n, "high"), Digit(byte, n, "low")}
    BY <1>2, <1>3, <2>1
  <2>2. CASE uuid'[t][k] = uuid[t][k]
    <3>1. k \in DOMAIN uuid[t] /\ Bytes(uuid[t]) \subseteq Taken(t)
      BY <1>1, <1>6
         DEF UuidInv, UuidTypeOK, Arrays, TakenInOrder, FormatByte
    <3> QED
      BY <2>2, <3>1 DEF Bytes
  <2> QED
    BY <1>5, <1>6, <2>1, <2>2
<1>10. TakenInOrder'
  <2>1. /\ UNCHANGED <<buffered_idx, fills, rand, pc>>
        /\ \A u \in Threads \ {t} : uuid'[u] = uuid[u]
    BY <1>1, <1>6 DEF UuidTypeOK, FormatByte
  <2> QED
    BY <1>9, <2>1 DEF UuidInv, TakenInOrder, Taken
<1>11. ASSUME NEW u \in Threads PROVE Spent(u) \subseteq Spent(u)'
  BY DEF Spent, Limit, FormatByte
<1> QED
  BY <1>8, <1>10, <1>11, SpentGrows DEF UuidInv, FormatByte

(* The id that is returned has the bytes after the ones spent before.      *)
LEMMA ReturnUuidInv ==
  ASSUME UuidInv, NEW t \in Threads, Return(t)
  PROVE  UuidInv'
<1> DEFINE last == Len(issued[t]) + 1
<1>1. /\ UuidTypeOK /\ pc[t] = "format" /\ pc'[t] = "idle"
      /\ UNCHANGED <<buffered_idx, fills, rand, uuid, i>>
      /\ \A u \in Threads \ {t} : pc'[u] = pc[u] /\ issued'[u] = issued[u]
      /\ issued'[t] = Append(issued[t], uuid[t])
  BY DEF UuidInv, UuidTypeOK, Return, Goto
<1>2. issued[t] \in Seq(Arrays) /\ uuid[t] \in Arrays
  BY <1>1 DEF UuidTypeOK
<1>3. UuidTypeOK'
  <2>1. issued' \in [Threads -> Seq(Arrays)]
    BY <1>1, <1>2, AppendProperties DEF UuidTypeOK, Return
  <2>2. pc' \in [Threads -> {"idle", "take", "advance", "format"}]
    BY <1>1 DEF UuidTypeOK, Return, Goto
  <2> QED
    BY <1>1, <2>1, <2>2 DEF UuidTypeOK
<1>4. TakenInOrder'
  BY <1>1 DEF UuidInv, TakenInOrder, Taken, BufferOf
<1>5. /\ Len(issued'[t]) = last /\ issued'[t][last] = uuid[t]
      /\ \A m \in 1..Len(issued[t]) : issued'[t][m] = issued[t][m]
  BY <1>1, <1>2, AppendProperties
<1>6. /\ Bytes(uuid[t]) \subseteq Taken(t)
      /\ rand[t] + UuidBytes = buffered_idx[t]
  BY <1>1 DEF UuidInv, TakenInOrder
<1>7. Taken(t) \subseteq Spent(t)' /\ Taken(t) \cap Spent(t) = {}
  <2>1. /\ Limit(t) = rand[t] /\ Limit(t)' = buffered_idx[t]
        /\ rand[t] \in Nat /\ fills[t] \in Nat /\ fills'[t] = fills[t]
    BY <1>1 DEF Limit, UuidTypeOK
  <2>2. ASSUME NEW b \in Taken(t)
        PROVE  /\ b \in ByteIds /\ b[1] = t /\ b[2] = fills[t]
               /\ b[3] \in rand[t]..(rand[t] + UuidBytes - 1)
    BY <2>1 DEF Taken, ByteIds, UuidBytes
  <2>3. ASSUME NEW b \in Taken(t) PROVE b \in Spent(t)' /\ b \notin Spent(t)
    BY <1>6, <2>1, <2>2 DEF Spent, UuidBytes
  <2> QED
    BY <2>3
<1>8. ASSUME NEW u \in Threads PROVE Spent(u) \subseteq Spent(u)'
  <2>1. CASE u = t
    <3>1. /\ Limit(t) = rand[t] /\ Limit(t)' = buffered_idx[t]
          /\ rand[t] \in Nat /\ rand[t] <= buffered_idx[t]
          /\ fills'[t] = fills[t] /\ buffered_idx[t] \in Nat
      BY <1>1, <1>6 DEF Limit, UuidTypeOK, UuidBytes
    <3>2. ASSUME NEW b \in ByteIds PROVE b[3] \in Nat
      BY DEF ByteIds
    <3> QED
      BY <2>1, <3>1, <3>2 DEF Spent
  <2>2. CASE u # t
    BY <1>1, <2>2 DEF Spent, Limit
  <2> QED
    BY <2>1, <2>2
<1>9. IssuedAreSpent'
  <2> SUFFICES ASSUME NEW u \in Threads, NEW m \in 1..Len(issued'[u])
               PROVE  Bytes(issued'[u][m]) \subseteq Spent(u)'
    BY DEF IssuedAreSpent
  <2>1. CASE u = t /\ m = last
    BY <1>5, <1>6, <1>7, <2>1
  <2>2. CASE ~(u = t /\ m = last)
    <3>1. m \in 1..Len(issued[u]) /\ issued'[u][m] = issued[u][m]
      <4>1. CASE u = t
        <5>1. Len(issued[t]) \in Nat /\ m \in 1..last /\ m # last
          BY <1>2, <1>5, <2>2, <4>1, LenProperties
        <5>2. m \in 1..Len(issued[t])
          BY <5>1
        <5> QED
          BY <1>5, <4>1, <5>2
      <4>2. CASE u # t
        BY <1>1, <4>2
      <4> QED
        BY <4>1, <4>2
    <3> QED
      BY <1>8, <3>1 DEF UuidInv, IssuedAreSpent
  <2> QED
    BY <2>1, <2>2
<1>10. FreshBytes'
  <2> SUFFICES ASSUME NEW u \in Threads, NEW v \in Threads,
                      NEW m \in 1..Len(issued'[u]),
                      NEW k \in 1..Len(issued'[v]),
                      u # v \/ m # k
               PROVE  Bytes(issued'[u][m]) \cap Bytes(issued'[v][k]) = {}
    BY DEF FreshBytes
  <2>1. ASSUME NEW w \in Threads, NEW j \in 1..Len(issued'[w]),
               ~(w = t /\ j = last)
        PROVE  /\ j \in 1..Len(issued[w]) /\ issued'[w][j] = issued[w][j]
               /\ Bytes(issued'[w][j]) \cap Bytes(uuid[t]) = {}
    <3>1. j \in 1..Len(issued[w]) /\ issued'[w][j] = issued[w][j]
      <4>1. CASE w = t
        <5>1. Len(issued[t]) \in Nat /\ j \in 1..last /\ j # last
          BY <1>2, <1>5, <2>1, <4>1, LenProperties
        <5>2. j \in 1..Len(issued[t])
          BY <5>1
        <5> QED
          BY <1>5, <4>1, <5>2
      <4>2. CASE w # t
        BY <1>1, <2>1, <4>2
      <4> QED
        BY <4>1, <4>2
    <3>2. Bytes(issued[w][j]) \subseteq Spent(w)
      BY <3>1 DEF UuidInv, IssuedAreSpent
    <3>3. Spent(w) \cap Taken(t) = {}
      <4>1. CASE w = t
        BY <1>7, <4>1
      <4>2. CASE w # t
        BY <4>2 DEF Spent, Taken
      <4> QED
        BY <4>1, <4>2
    <3> QED
      BY <1>6, <3>1, <3>2, <3>3
  <2>2. CASE u = t /\ m = last
    BY <1>5, <2>1, <2>2
  <2>3. CASE v = t /\ k = last
    BY <1>5, <2>1, <2>3
  <2>4. CASE ~(u = t /\ m = last) /\ ~(v = t /\ k = last)
    BY <2>1, <2>4 DEF UuidInv, FreshBytes
  <2> QED
    BY <2>2, <2>3, <2>4
<1> QED
  BY <1>3, <1>4, <1>9, <1>10 DEF UuidInv

LEMMA StepUuidInv == UuidInv /\ [UuidNext]_uuidVars => UuidInv'
<1> SUFFICES ASSUME UuidInv, [UuidNext]_uuidVars PROVE UuidInv'
  OBVIOUS
<1>1. ASSUME NEW t \in Threads,
             Refill(t) \/ Take(t) \/ Advance(t) \/ FormatByte(t) \/ Return(t)
      PROVE  UuidInv'
  BY <1>1, RefillUuidInv, TakeUuidInv, AdvanceUuidInv, FormatByteUuidInv,
     ReturnUuidInv
<1>2. CASE UNCHANGED uuidVars
  <2>1. UuidTypeOK' /\ TakenInOrder'
    BY <1>2 DEF UuidInv, UuidTypeOK, TakenInOrder, Taken, uuidVars
  <2>2. ASSUME NEW u \in Threads PROVE Spent(u) \subseteq Spent(u)'
    BY <1>2 DEF Spent, Limit, uuidVars
  <2> QED
    BY <1>2, <2>1, <2>2, SpentGrows DEF UuidInv, uuidVars
<1> QED
  BY <1>1, <1>2 DEF UuidNext

(* RandomGeneratorImpl::uuid never uses a random byte twice, neither for   *)
(* two ids of one thread nor for ids of two.                               *)
THEOREM IdsShareNoByte == UuidSpec => []FreshBytes
<1>1. UuidInv => FreshBytes
  BY DEF UuidInv
<1> QED
  BY <1>1, InitUuidInv, StepUuidInv, PTL DEF UuidSpec

-----------------------------------------------------------------------------
(* The form of an id.                                                      *)

Dashes == {8, 13, 18, 23}

(* Byte m of id is in its place. The bytes of the id are those of fill f   *)
(* of the buffer of t from offset r on.                                    *)
Placed(id, t, f, r, m) ==
  /\ id[Position(m)] = Digit(<<t, f, r + m>>, m, "high")
  /\ id[Position(m) + 1] = Digit(<<t, f, r + m>>, m, "low")
  /\ \A k \in DashAfter(m) : id[k] = Dash

(* The first n bytes of id are formatted.                                  *)
Formed(id, t, f, r, n) == \A m \in 0..(n - 1) : Placed(id, t, f, r, m)

(* Bytes 0 to n are n + 1 bytes.                                           *)
LEMMA FormedUpTo ==
  ASSUME NEW id, NEW t, NEW f, NEW r, NEW n \in Nat,
         \A m \in 0..n : Placed(id, t, f, r, m)
  PROVE  Formed(id, t, f, r, n + 1)
BY DEF Formed

(* Arrays are formatted up to the position of their thread, ids completely.*)
FormInv ==
  \A t \in Threads :
    /\ pc[t] = "format" => Formed(uuid[t], t, fills[t], rand[t], i[t])
    /\ \A j \in 1..Len(issued[t]) :
         \E f, r \in Nat : Formed(issued[t][j], t, f, r, UuidBytes)

(* The five loops write from left to right.                                *)
LEMMA WrittenLeftToRight ==
  ASSUME NEW m \in 0..(UuidBytes - 1), NEW n \in 0..(UuidBytes - 1), m < n
  PROVE  /\ Position(m) + 1 < Position(n)
         /\ \A k \in DashAfter(m) : k < Position(n)
BY DEF Position, DashAfter, UuidBytes

(* They write every character, and the dashes where no digit is.           *)
LEMMA Layout ==
  /\ \A m \in 0..(UuidBytes - 1) :
       /\ Position(m) \in 0..(UUID_LENGTH - 1) \ Dashes
       /\ Position(m) + 1 \in 0..(UUID_LENGTH - 1) \ Dashes
       /\ DashAfter(m) \subseteq Dashes
  /\ \A k \in Dashes : \E m \in 0..(UuidBytes - 1) : k \in DashAfter(m)
  /\ \A k \in 0..(UUID_LENGTH - 1) \ Dashes :
       \E m \in 0..(UuidBytes - 1) : k \in {Position(m), Position(m) + 1}
<1>1. ASSUME NEW m \in 0..(UuidBytes - 1)
      PROVE  /\ Position(m) \in 0..(UUID_LENGTH - 1) \ Dashes
             /\ Position(m) + 1 \in 0..(UUID_LENGTH - 1) \ Dashes
             /\ DashAfter(m) \subseteq Dashes
  BY DEF Position, DashAfter, UuidBytes, UUID_LENGTH, Dashes
<1>2. ASSUME NEW k \in Dashes
      PROVE  \E m \in 0..(UuidBytes - 1) : k \in DashAfter(m)
  <2>1. 8 \in DashAfter(3) /\ 13 \in DashAfter(5) /\ 18 \in DashAfter(7)
        /\ 23 \in DashAfter(9)
    BY DEF DashAfter
  <2> QED
    BY <2>1 DEF Dashes, UuidBytes
<1>3. ASSUME NEW k \in 0..(UUID_LENGTH - 1) \ Dashes
      PROVE  \E m \in 0..(UuidBytes - 1) : k \in {Position(m), Position(m) + 1}
  <2>1. ASSUME NEW d \in 0..4, NEW m \in 0..(UuidBytes - 1),
               Position(m) = 2 * m + d, k - d \in {2 * m, 2 * m + 1}
        PROVE  k \in {Position(m), Position(m) + 1}
    BY <2>1 DEF UUID_LENGTH
  <2>2. \E d \in 0..4 : \E m \in 0..(UuidBytes - 1) :
          Position(m) = 2 * m + d /\ k - d \in {2 * m, 2 * m + 1}
    <3>1. CASE k < 8
      <4>1. k \div 2 \in 0..3 /\ k \in {2 * (k \div 2), 2 * (k \div 2) + 1}
        BY <3>1 DEF UUID_LENGTH
      <4> QED
        BY <4>1 DEF Position, UuidBytes
    <3>2. CASE k \in 9..12
      BY <3>2 DEF Position, UuidBytes
    <3>3. CASE k \in 14..17
      BY <3>3 DEF Position, UuidBytes
    <3>4. CASE k \in 19..22
      BY <3>4 DEF Position, UuidBytes
    <3>5. CASE k > 23
      <4>1. /\ (k - 4) \div 2 \in 10..15
            /\ k - 4 \in {2 * ((k - 4) \div 2), 2 * ((k - 4) \div 2) + 1}
        BY <3>5 DEF UUID_LENGTH
      <4> QED
        BY <4>1 DEF Position, UuidBytes
    <3> QED
      BY <3>1, <3>2, <3>3, <3>4, <3>5 DEF UUID_LENGTH, Dashes
  <2> QED
    BY <2>1, <2>2
<1> QED
  BY <1>1, <1>2, <1>3

(* A digit knows its byte and differs from a dash.                         *)
LEMMA DigitIsNoOther ==
  ASSUME NEW b, NEW n, NEW half \in {"high", "low"}
  PROVE  /\ Digit(b, n, half).byte = b
         /\ Digit(b, n, half) \notin {Dash, Unset}
<1>1. Digit(b, n, half).half = half /\ Digit(b, n, half).byte = b
  BY DEF Digit
<1>2. Dash.half = "none" /\ Unset.half = "none" /\ Dash # Unset
  BY DEF Dash, Unset
<1> QED
  BY <1>1, <1>2

(* What UuidFormat asks of an id.                                          *)
HasForm(id) ==
  /\ \A k \in DOMAIN id : id[k] # Unset
  /\ {k \in DOMAIN id : id[k] = Dash} = {8, 13, 18, 23}
  /\ id[14].bits = "version 4" /\ id[19].bits = "variant 1"
  /\ Cardinality(Bytes(id)) = UuidBytes
  /\ \A j, k \in DOMAIN id \ {8, 13, 18, 23} :
       j < k => id[j].byte[3] <= id[k].byte[3]

(* Character k is one of the digits of byte m.                             *)
FromByte(id, t, f, r, k, m) ==
  /\ k \in {Position(m), Position(m) + 1}
  /\ id[k] \in {Digit(<<t, f, r + m>>, m, "high"),
               Digit(<<t, f, r + m>>, m, "low")}

(* A character that is not a dash belongs to one of the sixteen bytes.     *)
LEMMA CharOfFormed ==
  ASSUME NEW id, NEW t, NEW f, NEW r, Formed(id, t, f, r, UuidBytes),
         NEW k \in 0..(UUID_LENGTH - 1) \ Dashes
  PROVE  \E m \in 0..(UuidBytes - 1) : FromByte(id, t, f, r, k, m)
<1>1. PICK m \in 0..(UuidBytes - 1) : k \in {Position(m), Position(m) + 1}
  BY Layout
<1>2. /\ id[Position(m)] = Digit(<<t, f, r + m>>, m, "high")
      /\ id[Position(m) + 1] = Digit(<<t, f, r + m>>, m, "low")
  BY <1>1 DEF Formed, Placed
<1> QED
  BY <1>1, <1>2 DEF FromByte

(* Its byte is known, and it is neither a dash nor unwritten.              *)
LEMMA FromByteIsDigit ==
  ASSUME NEW id, NEW t, NEW f, NEW r, NEW k, NEW m,
         FromByte(id, t, f, r, k, m)
  PROVE  /\ id[k].byte = <<t, f, r + m>>
         /\ id[k] \notin {Dash, Unset}
BY DigitIsNoOther DEF FromByte

(* What is masked into bytes 6 and 8.                                      *)
LEMMA VersionAndVariant ==
  ASSUME NEW b
  PROVE  /\ Digit(b, 6, "high").bits = "version 4"
         /\ Digit(b, 8, "high").bits = "variant 1"
<1>1. "high" # "low" /\ 6 # 8
  OBVIOUS
<1> QED
  BY <1>1 DEF Digit

(* A formatted id has sixteen different bytes.                             *)
LEMMA FormedBytes ==
  ASSUME NEW id \in Arrays, NEW t, NEW f, NEW r \in Nat,
         Formed(id, t, f, r, UuidBytes)
  PROVE  Cardinality(Bytes(id)) = UuidBytes
<1> DEFINE I == 0..(UuidBytes - 1)
           F == [m \in I |-> <<t, f, r + m>>]
<1>1. Bytes(id) = {F[m] : m \in I}
  <2>1. ASSUME NEW k \in DOMAIN id, id[k] \notin {Dash, Unset}
        PROVE  id[k].byte \in {F[m] : m \in I}
    <3>1. k \in 0..(UUID_LENGTH - 1)
      BY <2>1 DEF Arrays
    <3>2. k \notin Dashes
      <4> SUFFICES ASSUME k \in Dashes PROVE FALSE
        OBVIOUS
      <4>1. PICK m \in I : k \in DashAfter(m)
        BY Layout
      <4> QED
        BY <2>1, <4>1 DEF Formed, Placed
    <3>3. PICK m \in I : FromByte(id, t, f, r, k, m)
      BY <3>1, <3>2, CharOfFormed
    <3>4. id[k].byte = F[m]
      BY <3>3, FromByteIsDigit
    <3> QED
      BY <3>4
  <2>2. ASSUME NEW m \in I PROVE F[m] \in Bytes(id)
    <3>1. /\ Position(m) \in DOMAIN id
          /\ id[Position(m)] = Digit(<<t, f, r + m>>, m, "high")
      BY Layout DEF Formed, Placed, Arrays
    <3> HIDE DEF I
    <3>2. /\ id[Position(m)] \notin {Dash, Unset}
          /\ id[Position(m)].byte = F[m]
      BY <3>1, DigitIsNoOther
    <3> QED
      BY <3>1, <3>2 DEF Bytes
  <2> QED
    BY <2>1, <2>2 DEF Bytes
<1>2. ExistsBijection(I, Bytes(id))
  <2>1. ASSUME NEW a \in I, NEW b \in I, F[a] = F[b] PROVE a = b
    <3>1. r + a = r + b
      BY <2>1
    <3> QED
      BY <3>1
  <2>2. F \in [I -> Bytes(id)]
    BY <1>1
  <2>3. F \in Bijection(I, Bytes(id))
    BY <1>1, <2>1, <2>2, Fun_IsBij
  <2> QED
    BY <2>3, Fun_ExistsBij
<1>3. IsFiniteSet(I) /\ Cardinality(I) = UuidBytes
  <2>1. 0 \in Int /\ 15 \in Int /\ ~(0 > 15) /\ 15 - 0 + 1 = 16
    OBVIOUS
  <2>2. IsFiniteSet(0..15) /\ Cardinality(0..15) = 15 - 0 + 1
    BY <2>1, FS_Interval
  <2> QED
    BY <2>1, <2>2 DEF UuidBytes
<1> QED
  BY <1>2, <1>3, FS_Bijection

LEMMA FormedHasForm ==
  ASSUME NEW id \in Arrays, NEW t, NEW f, NEW r \in Nat,
         Formed(id, t, f, r, UuidBytes)
  PROVE  HasForm(id)
<1>1. DOMAIN id = 0..(UUID_LENGTH - 1)
  BY DEF Arrays
<1>2. ASSUME NEW k \in Dashes PROVE id[k] = Dash
  <2>1. PICK m \in 0..(UuidBytes - 1) : k \in DashAfter(m)
    BY Layout
  <2> QED
    BY <2>1 DEF Formed, Placed
<1>3. ASSUME NEW k \in DOMAIN id \ Dashes
      PROVE  \E m \in 0..(UuidBytes - 1) : FromByte(id, t, f, r, k, m)
  <2>1. k \in 0..(UUID_LENGTH - 1) \ Dashes
    BY <1>1
  <2> QED
    BY <2>1, CharOfFormed
<1>4. ASSUME NEW k \in DOMAIN id \ Dashes PROVE id[k] \notin {Dash, Unset}
  BY <1>3, FromByteIsDigit
<1>5. \A k \in DOMAIN id : id[k] # Unset
  <2>1. Dash # Unset
    BY DEF Dash, Unset
  <2> QED
    BY <1>2, <1>4, <2>1
<1>6. {k \in DOMAIN id : id[k] = Dash} = {8, 13, 18, 23}
  <2>1. Dashes \subseteq DOMAIN id
    BY <1>1 DEF Dashes, UUID_LENGTH
  <2> QED
    BY <1>2, <1>4, <2>1 DEF Dashes
<1>7. id[14].bits = "version 4" /\ id[19].bits = "variant 1"
  <2>1. /\ 6 \in 0..(UuidBytes - 1) /\ Position(6) = 14
        /\ 8 \in 0..(UuidBytes - 1) /\ Position(8) = 19
    BY DEF UuidBytes, Position
  <2>2. /\ id[14] = Digit(<<t, f, r + 6>>, 6, "high")
        /\ id[19] = Digit(<<t, f, r + 8>>, 8, "high")
    BY <2>1 DEF Formed, Placed
  <2> QED
    BY <2>2, VersionAndVariant
<1>8. ASSUME NEW j \in DOMAIN id \ Dashes, NEW k \in DOMAIN id \ Dashes, j < k
      PROVE  id[j].byte[3] <= id[k].byte[3]
  <2>1. PICK m \in 0..(UuidBytes - 1) : FromByte(id, t, f, r, j, m)
    BY <1>3
  <2>2. PICK n \in 0..(UuidBytes - 1) : FromByte(id, t, f, r, k, n)
    BY <1>3
  <2>3. m <= n
    <3>1. ASSUME n < m PROVE FALSE
      <4>1. Position(n) + 1 < Position(m)
        BY <3>1, WrittenLeftToRight
      <4>2. Position(n) \in Nat /\ Position(m) \in Nat
        BY Layout
      <4> QED
        BY <1>8, <2>1, <2>2, <4>1, <4>2 DEF FromByte
    <3> QED
      BY <3>1 DEF UuidBytes
  <2>4. id[j].byte = <<t, f, r + m>> /\ id[k].byte = <<t, f, r + n>>
    BY <2>1, <2>2, FromByteIsDigit
  <2> QED
    BY <2>3, <2>4 DEF UuidBytes
<1> QED
  BY <1>5, <1>6, <1>7, <1>8, FormedBytes DEF HasForm, Dashes

(* The iteration for byte n leaves the bytes before it alone.              *)
LEMMA FormatByteExtends ==
  ASSUME UuidInv, FormInv, NEW t \in Threads, FormatByte(t)
  PROVE  Formed(uuid'[t], t, fills[t], rand[t], i[t] + 1)
<1> DEFINE n    == i[t]
           byte == <<t, fills[t], rand[t] + n>>
<1>1. UuidTypeOK /\ n \in 0..(UuidBytes - 1)
  BY DEF UuidInv, UuidTypeOK, FormatByte, UuidBytes
<1>2. Formed(uuid[t], t, fills[t], rand[t], n)
  BY DEF FormInv, FormatByte
<1>3. ASSUME NEW k \in 0..(UUID_LENGTH - 1)
      PROVE  uuid'[t][k] = CASE k = Position(n)     -> Digit(byte, n, "high")
                             [] k = Position(n) + 1 -> Digit(byte, n, "low")
                             [] k \in DashAfter(n)  -> Dash
                             [] OTHER -> uuid[t][k]
  BY <1>1 DEF UuidTypeOK, FormatByte, BufferOf
<1> HIDE DEF n, byte
<1>4. /\ uuid'[t][Position(n)] = Digit(byte, n, "high")
      /\ uuid'[t][Position(n) + 1] = Digit(byte, n, "low")
      /\ \A k \in DashAfter(n) : uuid'[t][k] = Dash
  <2>1. /\ Position(n) \in 0..(UUID_LENGTH - 1) \ Dashes
        /\ Position(n) + 1 \in 0..(UUID_LENGTH - 1) \ Dashes
        /\ DashAfter(n) \subseteq Dashes
        /\ Dashes \subseteq 0..(UUID_LENGTH - 1)
    BY <1>1, Layout DEF Dashes, UUID_LENGTH
  <2>2. Position(n) # Position(n) + 1
    BY <2>1
  <2> QED
    BY <1>3, <2>1, <2>2
<1>5. ASSUME NEW k \in 0..(UUID_LENGTH - 1), k < Position(n),
             \A d \in DashAfter(n) : k < d
      PROVE  uuid'[t][k] = uuid[t][k]
  <2>1. k # Position(n) /\ k # Position(n) + 1 /\ k \notin DashAfter(n)
    BY <1>1, <1>5, Layout
  <2> QED
    BY <1>3, <2>1
<1>6. ASSUME NEW d \in DashAfter(n) PROVE Position(n) < d
  BY <1>1, <1>6 DEF DashAfter, Position, UuidBytes
<1>7. ASSUME NEW m \in 0..(n - 1)
      PROVE  Placed(uuid'[t], t, fills[t], rand[t], m)
  <2>1. m \in 0..(UuidBytes - 1) /\ m < n
    BY <1>1 DEF UuidBytes
  <2>2. /\ Position(m) + 1 < Position(n)
        /\ \A k \in DashAfter(m) : k < Position(n)
    BY <1>1, <2>1, WrittenLeftToRight
  <2>3. /\ Position(m) \in 0..(UUID_LENGTH - 1)
        /\ Position(m) + 1 \in 0..(UUID_LENGTH - 1)
        /\ DashAfter(m) \subseteq 0..(UUID_LENGTH - 1)
        /\ Position(n) \in Nat /\ DashAfter(n) \subseteq Nat
    <3>1. Dashes \subseteq 0..(UUID_LENGTH - 1) /\ Dashes \subseteq Nat
      BY DEF Dashes, UUID_LENGTH
    <3>2. /\ Position(m) \in 0..(UUID_LENGTH - 1)
          /\ Position(m) + 1 \in 0..(UUID_LENGTH - 1)
          /\ DashAfter(m) \subseteq Dashes
      BY <2>1, Layout
    <3>3. Position(n) \in 0..(UUID_LENGTH - 1) /\ DashAfter(n) \subseteq Dashes
      BY <1>1, Layout
    <3>4. /\ DashAfter(m) \subseteq 0..(UUID_LENGTH - 1)
          /\ DashAfter(n) \subseteq Nat
      BY <3>1, <3>2, <3>3
    <3>5. Position(n) \in Nat
      BY <3>3 DEF UUID_LENGTH
    <3> QED
      BY <3>2, <3>4, <3>5
  <2>4. ASSUME NEW k \in {Position(m), Position(m) + 1} \cup DashAfter(m)
        PROVE  uuid'[t][k] = uuid[t][k]
    <3>1. k \in 0..(UUID_LENGTH - 1) /\ k < Position(n)
      BY <2>2, <2>3
    <3>2. \A d \in DashAfter(n) : k < d
      BY <1>6, <2>3, <3>1
    <3> QED
      BY <1>5, <3>1, <3>2
  <2> QED
    BY <1>2, <2>4 DEF Formed, Placed
<1>8. ASSUME NEW m \in 0..n PROVE m \in 0..(n - 1) \/ m = n
  BY <1>1 DEF UuidBytes
<1>9. Placed(uuid'[t], t, fills[t], rand[t], n)
  BY <1>4 DEF Placed, byte
<1>10. PICK id : id = uuid'[t]
  OBVIOUS
<1>11. ASSUME NEW m \in 0..n PROVE Placed(id, t, fills[t], rand[t], m)
  BY <1>7, <1>8, <1>9, <1>10
<1>12. n \in Nat
  BY <1>1
<1>13. Formed(id, t, fills[t], rand[t], n + 1)
  BY <1>11, <1>12, FormedUpTo
<1> QED
  BY <1>10, <1>13 DEF n

LEMMA InitFormInv == UuidInit => FormInv
<1> SUFFICES ASSUME UuidInit PROVE FormInv
  OBVIOUS
<1>1. \A t \in Threads : pc[t] = "idle" /\ 1..Len(issued[t]) = {}
  BY EmptySeq DEF UuidInit
<1> QED
  BY <1>1 DEF FormInv

LEMMA StepFormInv == UuidInv /\ FormInv /\ [UuidNext]_uuidVars => FormInv'
<1> SUFFICES ASSUME UuidInv, FormInv, [UuidNext]_uuidVars PROVE FormInv'
  OBVIOUS
<1>1. UuidTypeOK
  BY DEF UuidInv
<1>2. ASSUME NEW t \in Threads, Refill(t) \/ Take(t) PROVE FormInv'
  <2>1. /\ UNCHANGED <<uuid, i, issued>> /\ pc'[t] # "format"
        /\ \A u \in Threads \ {t} : /\ pc'[u] = pc[u] /\ rand'[u] = rand[u]
                                    /\ fills'[u] = fills[u]
    BY <1>1, <1>2 DEF Refill, Take, Goto, UuidTypeOK, BufferOf
  <2> QED
    BY <2>1 DEF FormInv
<1>3. ASSUME NEW t \in Threads, Advance(t) PROVE FormInv'
  <2>1. /\ UNCHANGED <<fills, rand, issued>> /\ i'[t] = 0
        /\ \A u \in Threads \ {t} : /\ pc'[u] = pc[u] /\ i'[u] = i[u]
                                    /\ uuid'[u] = uuid[u]
    BY <1>1, <1>3 DEF Advance, Goto, UuidTypeOK
  <2>2. Formed(uuid'[t], t, fills[t], rand[t], 0)
    BY DEF Formed, Placed
  <2> QED
    BY <2>1, <2>2 DEF FormInv
<1>4. ASSUME NEW t \in Threads, FormatByte(t) PROVE FormInv'
  <2>1. /\ UNCHANGED <<fills, rand, pc, issued>> /\ i'[t] = i[t] + 1
        /\ \A u \in Threads \ {t} : i'[u] = i[u] /\ uuid'[u] = uuid[u]
    BY <1>1, <1>4 DEF FormatByte, UuidTypeOK
  <2>2. Formed(uuid'[t], t, fills[t], rand[t], i[t] + 1)
    BY <1>4, FormatByteExtends
  <2> QED
    BY <2>1, <2>2 DEF FormInv
<1>5. ASSUME NEW t \in Threads, Return(t) PROVE FormInv'
  <2>1. /\ UNCHANGED <<fills, rand, uuid, i>> /\ pc'[t] = "idle"
        /\ pc[t] = "format" /\ i[t] = UuidBytes
        /\ issued'[t] = Append(issued[t], uuid[t])
        /\ \A u \in Threads \ {t} : pc'[u] = pc[u] /\ issued'[u] = issued[u]
    BY <1>1, <1>5 DEF Return, Goto, UuidTypeOK
  <2>2. issued[t] \in Seq(Arrays) /\ uuid[t] \in Arrays
        /\ fills[t] \in Nat /\ rand[t] \in Nat
    BY <1>1 DEF UuidTypeOK
  <2>3. Formed(uuid[t], t, fills[t], rand[t], UuidBytes)
    BY <2>1 DEF FormInv
  <2>4. ASSUME NEW j \in 1..Len(issued'[t])
        PROVE  \E f, r \in Nat : Formed(issued'[t][j], t, f, r, UuidBytes)
    <3>1. CASE j = Len(issued[t]) + 1
      <4>1. issued'[t][j] = uuid[t]
        BY <2>1, <2>2, <3>1, AppendProperties
      <4> QED
        BY <2>2, <2>3, <4>1
    <3>2. CASE j # Len(issued[t]) + 1
      <4>1. j \in 1..Len(issued[t]) /\ issued'[t][j] = issued[t][j]
        BY <2>1, <2>2, <3>2, AppendProperties, LenProperties
      <4> QED
        BY <4>1 DEF FormInv
    <3> QED
      BY <3>1, <3>2
  <2>5. ASSUME NEW u \in Threads
        PROVE  /\ pc'[u] = "format" =>
                    Formed(uuid[u], u, fills[u], rand[u], i[u])
               /\ \A j \in 1..Len(issued'[u]) :
                    \E f, r \in Nat : Formed(issued'[u][j], u, f, r, UuidBytes)
    <3>1. CASE u = t
      BY <2>1, <2>4, <3>1
    <3>2. CASE u # t
      BY <2>1, <3>2 DEF FormInv
    <3> QED
      BY <3>1, <3>2
  <2> QED
    BY <2>1, <2>5 DEF FormInv
<1>6. CASE UNCHANGED uuidVars
  BY <1>6 DEF FormInv, uuidVars
<1> QED
  BY <1>2, <1>3, <1>4, <1>5, <1>6 DEF UuidNext

(* Every id RandomGeneratorImpl::uuid returns has the form of RFC 4122 and *)
(* all sixteen bytes the thread took, each in its place.                   *)
THEOREM IdsAreWellFormed == UuidSpec => []UuidFormat
<1>1. UuidInv /\ FormInv => UuidFormat
  <2> SUFFICES ASSUME UuidInv, FormInv, NEW t \in Threads,
                      NEW m \in 1..Len(issued[t])
               PROVE  HasForm(issued[t][m])
    BY DEF UuidFormat, HasForm
  <2>1. PICK f \in Nat, r \in Nat : Formed(issued[t][m], t, f, r, UuidBytes)
    BY DEF FormInv
  <2>2. issued[t][m] \in Arrays
    <3>1. issued[t] \in Seq(Arrays)
      BY DEF UuidInv, UuidTypeOK
    <3> QED
      BY <3>1, LenProperties
  <2> QED
    BY <2>1, <2>2, FormedHasForm
<1> QED
  BY <1>1, InitUuidInv, StepUuidInv, InitFormInv, StepFormInv, PTL DEF UuidSpec

=============================================================================
