-------------------------- MODULE RandomGenerator --------------------------
(***************************************************************************)
(* RandomGeneratorImpl::uuid (source/utils/random_generator.cc), the       *)
(* source of trace and segment ids. Every tracing thread calls it; the     *)
(* buffer of random bytes and its index are static thread_local. An action *)
(* is one access to them, or one iteration of the formatting loops.        *)
(*                                                                         *)
(* A random byte is known by the buffer it is in, the number of times that *)
(* buffer had been filled, and its offset: two ids are independent when    *)
(* they share no such byte. std::random_device is external.                *)
(***************************************************************************)
EXTENDS Naturals, Sequences, FiniteSets

CONSTANTS
  Threads,
  BufferSize,   \* sizeof(buffered), 2048 in the code
  MaxUuids      \* bound: ids a thread asks for

UuidBytes   == 16
UUID_LENGTH == 36

ASSUME BufferAssumption ==
  BufferSize \in Nat /\ BufferSize >= UuidBytes /\ MaxUuids \in Nat

VARIABLES
  buffered_idx,   \* of every buffer
  fills,          \* how often each buffer was filled
  rand,           \* where the thread's sixteen bytes begin
  uuid,           \* the thread's local array of characters
  i,              \* the thread's position in the formatting loops
  pc,
  issued          \* ids returned, in order, for each thread

uuidVars == <<buffered_idx, fills, rand, uuid, i, pc, issued>>

(* Plausible bug: the buffer is static, but not thread_local.              *)
SharedBuffer(t) == CHOOSE u \in Threads : TRUE

(* static thread_local: every thread has its own.                          *)
BufferOf(t) == t

(* A character of the array: a digit, a dash, or not yet written.          *)
Unset == [byte |-> <<>>, bits |-> "uninitialised", half |-> "none"]
Dash  == [byte |-> <<>>, bits |-> "-", half |-> "none"]

UuidInit ==
  /\ buffered_idx = [t \in Threads |-> BufferSize]
  /\ fills = [t \in Threads |-> 0]
  /\ rand = [t \in Threads |-> 0] /\ i = [t \in Threads |-> 0]
  /\ uuid = [t \in Threads |-> [k \in 0..(UUID_LENGTH - 1) |-> Unset]]
  /\ pc = [t \in Threads |-> "idle"]
  /\ issued = [t \in Threads |-> <<>>]

Goto(t, from, to) == pc[t] = from /\ pc' = [pc EXCEPT ![t] = to]

Exhausted(idx) == idx + UuidBytes > BufferSize

(* The test for a refill; randomBuffer(buffered, sizeof(buffered)).        *)
Refill(t) ==
  LET b == BufferOf(t)
  IN  /\ Len(issued[t]) < MaxUuids
      /\ Goto(t, "idle", "take")
      /\ IF Exhausted(buffered_idx[b])
         THEN /\ fills' = [fills EXCEPT ![b] = @ + 1]
              /\ buffered_idx' = [buffered_idx EXCEPT ![b] = 0]
         ELSE UNCHANGED <<fills, buffered_idx>>
      /\ UNCHANGED <<rand, uuid, i, issued>>

(* rand = &buffered[buffered_idx].                                         *)
Take(t) ==
  /\ Goto(t, "take", "advance")
  /\ rand' = [rand EXCEPT ![t] = buffered_idx[BufferOf(t)]]
  /\ UNCHANGED <<buffered_idx, fills, uuid, i, issued>>

(* buffered_idx += 16.                                                     *)
Advance(t) ==
  /\ Goto(t, "advance", "format")
  /\ buffered_idx' = [buffered_idx EXCEPT ![BufferOf(t)] = @ + UuidBytes]
  /\ i' = [i EXCEPT ![t] = 0]
  /\ uuid' = [uuid EXCEPT ![t] = [k \in 0..(UUID_LENGTH - 1) |-> Unset]]
  /\ UNCHANGED <<fills, rand, issued>>

(* Plausible bug: the last group starts one character early.               *)
PositionLastGroupEarly(n) ==
  2 * n + (CASE n < 4 -> 0 [] n \in 4..5 -> 1 [] n \in 6..7 -> 2 [] OTHER -> 3)

(* Where the five loops write the first of the two digits of byte n.       *)
Position(n) ==
  2 * n + (CASE n < 4 -> 0 [] n \in 4..5 -> 1 [] n \in 6..7 -> 2
             [] n \in 8..9 -> 3 [] OTHER -> 4)

(* The '-' written after the loop that ends with byte n.                   *)
DashAfter(n) ==
  CASE n = 3 -> {8} [] n = 5 -> {13} [] n = 7 -> {18} [] n = 9 -> {23}
    [] OTHER -> {}

(* The two digits of byte n, after the version and the variant have been   *)
(* masked in: byte 6 keeps its low digit, byte 8 six bits.                 *)
Digit(byte, n, half) ==
  [ byte |-> byte,
    bits |-> CASE half = "low" -> "random"
               [] n = 6 -> "version 4" [] n = 8 -> "variant 1"
               [] OTHER -> "random",
    half |-> half ]

(* One iteration of the formatting loops.                                  *)
FormatByte(t) ==
  LET n == i[t]
      byte == <<BufferOf(t), fills[BufferOf(t)], rand[t] + n>>
  IN  /\ pc[t] = "format" /\ n < UuidBytes
      /\ uuid' = [uuid EXCEPT ![t] =
           [k \in 0..(UUID_LENGTH - 1) |->
              CASE k = Position(n)     -> Digit(byte, n, "high")
                [] k = Position(n) + 1 -> Digit(byte, n, "low")
                [] k \in DashAfter(n)  -> Dash
                [] OTHER -> uuid[t][k]]]
      /\ i' = [i EXCEPT ![t] = n + 1]
      /\ UNCHANGED <<buffered_idx, fills, rand, pc, issued>>

(* return std::string(uuid, UUID_LENGTH).                                  *)
Return(t) ==
  /\ i[t] = UuidBytes /\ Goto(t, "format", "idle")
  /\ issued' = [issued EXCEPT ![t] = Append(@, uuid[t])]
  /\ UNCHANGED <<buffered_idx, fills, rand, uuid, i>>

UuidNext == \E t \in Threads :
  Refill(t) \/ Take(t) \/ Advance(t) \/ FormatByte(t) \/ Return(t)

UuidSpec == UuidInit /\ [][UuidNext]_uuidVars

-----------------------------------------------------------------------------
(* Properties.                                                             *)

Bytes(id) == {id[k].byte : k \in {j \in DOMAIN id : id[j] \notin {Dash, Unset}}}

(* No random byte is used for two ids, in one thread or in two, across     *)
(* refills: trace and segment ids are as independent as the random device. *)
FreshBytes ==
  \A t, u \in Threads : \A m \in 1..Len(issued[t]), n \in 1..Len(issued[u]) :
    (t # u \/ m # n) => Bytes(issued[t][m]) \cap Bytes(issued[u][n]) = {}

(* An id has the form of RFC 4122: every character of the array was        *)
(* written, the dashes stand at 8, 13, 18 and 23 and the version and the   *)
(* variant right behind two of them, and all sixteen bytes appear in order.*)
UuidFormat ==
  \A t \in Threads : \A m \in 1..Len(issued[t]) :
    LET id == issued[t][m]
    IN  /\ \A k \in DOMAIN id : id[k] # Unset
        /\ {k \in DOMAIN id : id[k] = Dash} = {8, 13, 18, 23}
        /\ id[14].bits = "version 4" /\ id[19].bits = "variant 1"
        /\ Cardinality(Bytes(id)) = UuidBytes
        /\ \A j, k \in DOMAIN id \ {8, 13, 18, 23} :
             j < k => id[j].byte[3] <= id[k].byte[3]
=============================================================================
