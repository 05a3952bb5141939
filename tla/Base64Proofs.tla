---------------------------- MODULE Base64Proofs ----------------------------
(***************************************************************************)
(* Proofs about the codec, for byte strings and texts of every length.     *)
(*                                                                         *)
(* The encoder's output is described digit by digit (Digit), independently *)
(* of the loop that makes it; the decoder's invariant says which bytes of  *)
(* the result are complete and which bits of the last one are there.       *)
(***************************************************************************)
EXTENDS Base64, SequenceTheorems, TLAPS

-----------------------------------------------------------------------------
(* Arithmetic of positions and digits.                                     *)

LEMMA InThrees ==
  ASSUME NEW n \in Nat
  PROVE  \E q \in Nat, r \in 0..2 : n = 3 * q + r /\ n \div 3 = q /\ n % 3 = r
<1>1. n \div 3 \in Nat /\ n % 3 \in 0..2 /\ n = 3 * (n \div 3) + (n % 3)
  OBVIOUS
<1> QED
  BY <1>1

LEMMA InFours ==
  ASSUME NEW n \in Nat
  PROVE  \E q \in Nat, r \in 0..3 : n = 4 * q + r /\ n \div 4 = q /\ n % 4 = r
<1>1. n \div 4 \in Nat /\ n % 4 \in 0..3 /\ n = 4 * (n \div 4) + (n % 4)
  OBVIOUS
<1> QED
  BY <1>1

(* The two tables are inverse to each other, and neither the padding nor   *)
(* the separator is a digit.                                               *)
LEMMA Tables ==
  ASSUME NEW d \in 0..63
  PROVE  /\ CHAR_TABLE(d) \in Byte
         /\ CHAR_TABLE(d) # Pad /\ CHAR_TABLE(d) # HeaderSeparator
         /\ REVERSE_LOOKUP_TABLE(CHAR_TABLE(d)) = d
<1>1. CASE d < 26
  <2>1. CHAR_TABLE(d) = d + 65
    BY <1>1 DEF CHAR_TABLE
  <2> QED
    BY <1>1, <2>1 DEF REVERSE_LOOKUP_TABLE, Byte, Pad, HeaderSeparator
<1>2. CASE d \in 26..51
  <2>1. CHAR_TABLE(d) = d + 71
    BY <1>2 DEF CHAR_TABLE
  <2> QED
    BY <1>2, <2>1 DEF REVERSE_LOOKUP_TABLE, Byte, Pad, HeaderSeparator
<1>3. CASE d \in 52..61
  <2>1. CHAR_TABLE(d) = d - 4
    BY <1>3 DEF CHAR_TABLE
  <2> QED
    BY <1>3, <2>1 DEF REVERSE_LOOKUP_TABLE, Byte, Pad, HeaderSeparator
<1>4. CASE d = 62
  BY <1>4 DEF CHAR_TABLE, REVERSE_LOOKUP_TABLE, Byte, Pad, HeaderSeparator
<1>5. CASE d = 63
  BY <1>5 DEF CHAR_TABLE, REVERSE_LOOKUP_TABLE, Byte, Pad, HeaderSeparator
<1> QED
  BY <1>1, <1>2, <1>3, <1>4, <1>5

LEMMA ReverseLookup ==
  ASSUME NEW c \in Byte
  PROVE  REVERSE_LOOKUP_TABLE(c) \in 0..64 /\ REVERSE_LOOKUP_TABLE(Pad) = 64
BY DEF Byte, REVERSE_LOOKUP_TABLE, Pad

(* How a byte is cut into the parts of two digits.                         *)
LEMMA ByteParts ==
  ASSUME NEW b \in Byte
  PROVE  /\ b \div 4 \in 0..63 /\ b % 4 \in 0..3 /\ b = (b \div 4) * 4 + (b % 4)
         /\ b \div 16 \in 0..15 /\ b % 16 \in 0..15
         /\ b = (b \div 16) * 16 + (b % 16)
         /\ b \div 64 \in 0..3 /\ b % 64 \in 0..63
         /\ b = (b \div 64) * 64 + (b % 64)
BY DEF Byte

-----------------------------------------------------------------------------
(* What encode writes, without the loop: digit r of the q-th group of four *)
(* is made of the q-th three bytes of b. Behind the end there are zeros.   *)

ByteAt(b, j) == IF j <= Len(b) THEN b[j] ELSE 0

Digit(b, q, r) ==
  CASE r = 0 -> ByteAt(b, 3 * q + 1) \div 4
    [] r = 1 -> (ByteAt(b, 3 * q + 1) % 4) * 16 + (ByteAt(b, 3 * q + 2) \div 16)
    [] r = 2 -> (ByteAt(b, 3 * q + 2) % 16) * 4 + (ByteAt(b, 3 * q + 3) \div 64)
    [] r = 3 -> ByteAt(b, 3 * q + 3) % 64

(* The first n characters of t are the first n digits of b.                *)
Encoded(b, t, n) ==
  \A q \in Nat, r \in 0..3 :
    4 * q + r < n => t[4 * q + r + 1] = CHAR_TABLE(Digit(b, q, r))

DigitCount(m) == 4 * (m \div 3) + (IF m % 3 = 0 THEN 0 ELSE (m % 3) + 1)

LEMMA ByteAtType ==
  ASSUME NEW b \in Seq(Byte), NEW j \in Nat \ {0}
  PROVE  ByteAt(b, j) \in Byte
<1>1. CASE j <= Len(b)
  <2>1. j \in 1..Len(b)
    BY <1>1
  <2> QED
    BY <1>1, <2>1 DEF ByteAt
<1>2. CASE ~(j <= Len(b))
  BY <1>2 DEF ByteAt, Byte
<1> QED
  BY <1>1, <1>2

LEMMA DigitType ==
  ASSUME NEW b \in Seq(Byte), NEW q \in Nat, NEW r \in 0..3
  PROVE  Digit(b, q, r) \in 0..63
<1>1. PICK x \in Byte, y \in Byte, z \in Byte :
        /\ x = ByteAt(b, 3 * q + 1) /\ y = ByteAt(b, 3 * q + 2)
        /\ z = ByteAt(b, 3 * q + 3)
  BY ByteAtType
<1>2. /\ x \div 4 \in 0..63 /\ (x % 4) * 16 + (y \div 16) \in 0..63
      /\ (y % 16) * 4 + (z \div 64) \in 0..63 /\ z % 64 \in 0..63
  BY DEF Byte
<1> QED
  BY <1>1, <1>2 DEF Digit

LEMMA FoursUnique ==
  ASSUME NEW p \in Nat, NEW s \in 0..3, NEW q \in Nat, NEW r \in 0..3,
         4 * p + s = 4 * q + r
  PROVE  p = q /\ s = r
OBVIOUS

LEMMA AppendByte ==
  ASSUME NEW t \in Seq(Byte), NEW c \in Byte
  PROVE  /\ Append(t, c) \in Seq(Byte) /\ Len(Append(t, c)) = Len(t) + 1
         /\ \A i \in 1..Len(t) : Append(t, c)[i] = t[i]
         /\ Append(t, c)[Len(t) + 1] = c
BY AppendProperties

(* The digit at n is digit r of group q.                                   *)
Place(n, q, r) == n \in Nat /\ q \in Nat /\ r \in 0..3 /\ n = 4 * q + r

LEMMA OneMoreDigit ==
  ASSUME NEW b, NEW t, NEW q, NEW r, b \in Seq(Byte), t \in Seq(Byte),
         Encoded(b, t, Len(t)), Place(Len(t), q, r)
  PROVE  /\ Append(t, CHAR_TABLE(Digit(b, q, r))) \in Seq(Byte)
         /\ Len(Append(t, CHAR_TABLE(Digit(b, q, r)))) = Len(t) + 1
         /\ Encoded(b, Append(t, CHAR_TABLE(Digit(b, q, r))), Len(t) + 1)
<1>1. q \in Nat /\ r \in 0..3 /\ Len(t) = 4 * q + r
  BY DEF Place
<1>2. PICK c \in Byte : c = CHAR_TABLE(Digit(b, q, r))
  BY <1>1, DigitType, Tables
<1>3. PICK u : u = Append(t, c)
  OBVIOUS
<1>4. PICK n \in Nat : n = Len(t) /\ n = 4 * q + r
  BY <1>1
<1>5. /\ u \in Seq(Byte) /\ Len(u) = n + 1 /\ u[n + 1] = c
      /\ \A i \in 1..n : u[i] = t[i]
  <2>1. /\ u \in Seq(Byte) /\ Len(u) = Len(t) + 1 /\ u[Len(t) + 1] = c
        /\ \A i \in 1..Len(t) : u[i] = t[i]
    BY <1>2, <1>3, AppendByte
  <2> QED
    BY <1>4, <2>1
<1>6. ASSUME NEW p \in Nat, NEW s \in 0..3, 4 * p + s < n + 1
      PROVE  u[4 * p + s + 1] = CHAR_TABLE(Digit(b, p, s))
  <2>1. CASE 4 * p + s < n
    <3>1. 4 * p + s + 1 \in 1..n
      BY <1>4, <2>1
    <3>2. t[4 * p + s + 1] = CHAR_TABLE(Digit(b, p, s))
      BY <1>4, <2>1 DEF Encoded
    <3> QED
      BY <1>5, <3>1, <3>2
  <2>2. CASE 4 * p + s = n
    <3>1. p = q /\ s = r
      BY <1>1, <1>4, <2>2, FoursUnique
    <3> QED
      BY <1>2, <1>5, <2>2, <3>1
  <2>3. 4 * p + s < n \/ 4 * p + s = n
    BY <1>4, <1>6
  <2> QED
    BY <2>1, <2>2, <2>3
<1>7. Encoded(b, u, n + 1)
  BY <1>6 DEF Encoded
<1> QED
  BY <1>2, <1>3, <1>4, <1>5, <1>7

LEMMA PaddedDigits ==
  ASSUME NEW b, NEW t \in Seq(Byte), NEW p \in Seq(Byte),
         Encoded(b, t, Len(t))
  PROVE  Encoded(b, t \o p, Len(t))
<1>1. \A i \in 1..Len(t) : (t \o p)[i] = t[i]
  BY ConcatProperties
<1>2. ASSUME NEW q \in Nat, NEW r \in 0..3, 4 * q + r < Len(t)
      PROVE  (t \o p)[4 * q + r + 1] = t[4 * q + r + 1]
  <2>1. 4 * q + r + 1 \in 1..Len(t)
    BY <1>2
  <2> QED
    BY <1>1, <2>1
<1> QED
  BY <1>2 DEF Encoded

(* A byte x is made of the high bits of it that come before digit r of its *)
(* group, and of the rest, which that digit brings.                        *)
Kept(x, r) ==
  CASE r = 1 -> (x \div 4) * 4 [] r = 2 -> (x \div 16) * 16
    [] r = 3 -> (x \div 64) * 64

Rest(x, r) == CASE r = 1 -> x % 4 [] r = 2 -> x % 16 [] r = 3 -> x % 64

(* The two parts of a digit: High goes to the last byte, Low starts one.   *)
High(d, r) == CASE r = 1 -> d \div 16 [] r = 2 -> d \div 4 [] r = 3 -> d

Low(d, r) ==
  CASE r = 0 -> (d * 4) % 256 [] r = 1 -> (d * 16) % 256
    [] r = 2 -> (d * 64) % 256

(* s is what r digits after q whole groups give: where digit r puts its    *)
(* high part the last byte has no bits yet.                                *)
Partial(s, q, r) ==
  Len(s) = 3 * q + r /\ (r # 0 => Rest(s[Len(s)], r) = 0)

(* s holds bytes of b, the last one as far as digit r is missing.          *)
Holds(b, s, r) ==
  \A j \in 1..Len(s) :
    s[j] = IF j = Len(s) /\ r # 0 THEN Kept(ByteAt(b, j), r) ELSE ByteAt(b, j)

(* Text with n digits and some padding.                                    *)
Padded(t, n) ==
  /\ Len(t) \in n..(n + 2) /\ (n = 0 => Len(t) = 0)
  /\ \A i \in (n + 1)..Len(t) : t[i] = Pad
  /\ n # 0 => t[n] # Pad

LEMMA PaddedLength ==
  ASSUME NEW t \in Seq(Byte), NEW n \in Nat, Padded(t, n)
  PROVE  WithoutPadding(t) = n
<1>1. Len(t) \in Nat /\ Len(t) \in {n, n + 1, n + 2} /\ (n = 0 => Len(t) = 0)
  BY DEF Padded
<1>2. CASE n = 0
  BY <1>1, <1>2 DEF WithoutPadding
<1>3. CASE n # 0 /\ Len(t) = n
  BY <1>1, <1>3 DEF WithoutPadding, Padded
<1>4. CASE n # 0 /\ Len(t) = n + 1
  <2>1. t[n + 1] = Pad /\ t[n] # Pad /\ n + 1 - 1 = n
    BY <1>4 DEF Padded
  <2> QED
    BY <1>1, <1>4, <2>1 DEF WithoutPadding
<1>5. CASE n # 0 /\ Len(t) = n + 2
  <2>1. t[n + 1] = Pad /\ t[n + 2] = Pad /\ n + 2 - 1 = n + 1 /\ n + 2 - 2 = n
    BY <1>5 DEF Padded
  <2> QED
    BY <1>1, <1>5, <2>1 DEF WithoutPadding
<1> QED
  BY <1>1, <1>2, <1>3, <1>4, <1>5

LEMMA WithoutPaddingBounds ==
  ASSUME NEW t \in Seq(Byte), t # <<>>
  PROVE  /\ WithoutPadding(t) \in 0..Len(t)
         /\ WithoutPadding(t) = 0 => t[1] = Pad
<1>1. Len(t) \in Nat \ {0}
  BY EmptySeq
<1>2. CASE t[Len(t)] # Pad
  BY <1>1, <1>2 DEF WithoutPadding
<1>3. CASE Len(t) = 1 /\ t[Len(t)] = Pad
  BY <1>1, <1>3 DEF WithoutPadding
<1>4. CASE Len(t) > 1 /\ t[Len(t)] = Pad /\ t[Len(t) - 1] = Pad
  BY <1>1, <1>4 DEF WithoutPadding
<1>5. CASE Len(t) > 1 /\ t[Len(t)] = Pad /\ t[Len(t) - 1] # Pad
  BY <1>1, <1>5 DEF WithoutPadding
<1>6. Len(t) = 1 \/ Len(t) > 1
  <2>1. \A n \in Nat \ {0} : n = 1 \/ n > 1
    OBVIOUS
  <2> QED
    BY <1>1, <2>1
<1> QED
  BY <1>2, <1>3, <1>4, <1>5, <1>6

-----------------------------------------------------------------------------
(* The inductive invariant.                                                *)

SizesOK ==
  /\ 2 * Len(bytes) + 4 < SizeModulus
  /\ phase = "decode_foreign" => 2 * Len(text) + 4 < SizeModulus

(* The bits of the last byte that wait for the next character.             *)
Waiting(q, r) ==
  CASE r = 0 -> 0
    [] r = 1 -> (ByteAt(bytes, 3 * q + 1) % 4) * 16
    [] r = 2 -> (ByteAt(bytes, 3 * q + 2) % 16) * 4

EncodeInv ==
  phase = "encode" =>
    /\ pos <= Len(bytes) /\ ret = <<>>
    /\ Encoded(bytes, text, Len(text))
    /\ \A q \in Nat, r \in 0..2 :
         pos = 3 * q + r => Len(text) = 4 * q + r /\ next_c = Waiting(q, r)

OwnText ==
  phase \in {"decode_own", "done_own"} =>
    /\ Padded(text, DigitCount(Len(bytes)))
    /\ Encoded(bytes, text, DigitCount(Len(bytes)))

(* How much of the text is decoded.                                        *)
DecodeInv ==
  Decoding =>
    /\ pos = 0 \/ pos < WithoutPadding(text)
    /\ \A q \in Nat, r \in 0..3 : Place(pos, q, r) => Partial(ret, q, r)

(* Of own text, what is decoded are the bytes that were encoded.           *)
OwnResult ==
  phase = "decode_own" =>
    \A q \in Nat, r \in 0..3 : Place(pos, q, r) => Holds(bytes, ret, r)

CodecInv == /\ CodecTypeOK /\ SizesOK /\ EncodeInv /\ OwnText
            /\ DecodeInv /\ OwnResult /\ AssertHolds /\ RoundTrip

LEMMA InitCodecInv == CodecInit => CodecInv
<1> SUFFICES ASSUME CodecInit PROVE CodecInv
  OBVIOUS
<1>1. /\ <<>> \in Seq(Byte) /\ Len(<<>>) = 0 /\ pos = 0 /\ next_c = 0
      /\ ret = <<>> /\ phase \in {"encode", "decode_foreign"}
      /\ add_padding \in BOOLEAN
  BY EmptySeq DEF CodecInit
<1>2. \A q \in Nat, r \in 0..3 : 0 = 3 * q + r \/ 0 = 4 * q + r => q = 0 /\ r = 0
  OBVIOUS
<1>3. CASE bytes \in Inputs /\ text = <<>> /\ phase = "encode"
  <2>1. CodecTypeOK /\ SizesOK
    BY <1>1, <1>3, Base64Assumption DEF CodecTypeOK, SizesOK
  <2>2. EncodeInv
    <3>1. pos <= Len(bytes) /\ Len(text) = 0
      BY <1>1, <1>3, <2>1 DEF CodecTypeOK
    <3>2. Encoded(bytes, text, Len(text))
      BY <3>1 DEF Encoded
    <3>3. \A q \in Nat, r \in 0..2 :
            pos = 3 * q + r => Len(text) = 4 * q + r /\ next_c = Waiting(q, r)
      BY <1>1, <1>2, <3>1 DEF Waiting
    <3> QED
      BY <1>1, <3>1, <3>2, <3>3 DEF EncodeInv
  <2> QED
    BY <1>3, <2>1, <2>2 DEF CodecInv, OwnText, DecodeInv, OwnResult, AssertHolds,
                            RoundTrip, Decoding
<1>4. CASE text \in Texts /\ bytes = <<>> /\ phase = "decode_foreign"
  <2>1. CodecTypeOK /\ SizesOK
    <3>1. text \in Seq(Byte) /\ 2 * Len(text) + 4 < SizeModulus
      BY <1>4, Base64Assumption
    <3>2. 2 * Len(bytes) + 4 < SizeModulus
      BY <1>1, <1>4, <3>1, Base64Assumption
    <3> QED
      BY <1>1, <1>4, <3>1, <3>2 DEF CodecTypeOK, SizesOK
  <2>2. DecodeInv
    BY <1>1, <1>2, <1>4 DEF DecodeInv, Place, Partial
  <2> QED
    BY <1>4, <2>1, <2>2 DEF CodecInv, OwnText, EncodeInv, OwnResult, AssertHolds,
                            RoundTrip
<1> QED
  BY <1>3, <1>4 DEF CodecInit

-----------------------------------------------------------------------------
(* encode.                                                                 *)

LEMMA ThreesUnique ==
  ASSUME NEW p \in Nat, NEW s \in 0..2, NEW q \in Nat, NEW r \in 0..2,
         3 * p + s = 3 * q + r
  PROVE  p = q /\ s = r
OBVIOUS

LEMMA EncodeBaseStep ==
  ASSUME CodecInv, EncodeBase
  PROVE  CodecInv'
<1>1. /\ bytes \in Seq(Byte) /\ text \in Seq(Byte) /\ pos \in Nat
      /\ phase = "encode" /\ pos < Len(bytes) /\ pos' = pos + 1
      /\ UNCHANGED <<bytes, add_padding, ret, phase>>
      /\ Len(bytes) \in Nat
  BY DEF CodecInv, CodecTypeOK, EncodeBase
<1>2. Encoded(bytes, text, Len(text)) /\ ret = <<>>
  BY <1>1 DEF CodecInv, EncodeInv
<1>3. PICK q \in Nat, r \in 0..2 : pos = 3 * q + r /\ pos % 3 = r
  BY <1>1, InThrees
<1>4. Len(text) = 4 * q + r /\ next_c = Waiting(q, r)
  BY <1>1, <1>3 DEF CodecInv, EncodeInv
<1>5. PICK cur : cur = bytes[pos + 1] /\ cur = ByteAt(bytes, pos + 1)
  BY <1>1 DEF ByteAt
<1>6. cur \in Byte
  BY <1>1, <1>5, ByteAtType
<1>b. bytes \in Seq(Byte) /\ text \in Seq(Byte)
  BY <1>1
<1>t. PICK t2, c2 : t2 = text' /\ c2 = next_c'
  OBVIOUS
<1> DEFINE Grown(p, s) == /\ pos + 1 = 3 * p + s /\ Len(t2) = 4 * p + s
                          /\ t2 \in Seq(Byte) /\ Encoded(bytes, t2, Len(t2))
                          /\ c2 \in 0..63 /\ c2 = Waiting(p, s)
           SomeGrown == \E p \in Nat, s \in 0..2 : Grown(p, s)
<1>7. ASSUME r = 0 PROVE SomeGrown
  <2>1. t2 = Append(text, CHAR_TABLE(cur \div 4)) /\ c2 = (cur % 4) * 16
    BY <1>3, <1>5, <1>7, <1>t DEF EncodeBase
  <2>2. Digit(bytes, q, 0) = cur \div 4 /\ Waiting(q, 1) = (cur % 4) * 16
    BY <1>3, <1>5, <1>7 DEF Digit, Waiting
  <2>3. Place(Len(text), q, 0)
    BY <1>b, <1>3, <1>4, <1>7 DEF Place
  <2>4. /\ t2 \in Seq(Byte) /\ Len(t2) = Len(text) + 1
        /\ Encoded(bytes, t2, Len(text) + 1)
    <3>1. t2 = Append(text, CHAR_TABLE(Digit(bytes, q, 0)))
      BY <2>1, <2>2
    <3> QED
      BY <1>b, <1>2, <2>3, <3>1, OneMoreDigit
  <2>5. pos + 1 = 3 * q + 1 /\ Len(text) + 1 = 4 * q + 1 /\ c2 \in 0..63
    BY <1>b, <1>3, <1>4, <1>6, <1>7, <2>1 DEF Byte
  <2>6. Grown(q, 1)
    BY <2>1, <2>2, <2>4, <2>5
  <2> QED
    BY <1>3, <2>6
<1>8. ASSUME r = 1 PROVE SomeGrown
  <2>1. t2 = Append(text, CHAR_TABLE(next_c + cur \div 16))
        /\ c2 = (cur % 16) * 4
    BY <1>3, <1>5, <1>8, <1>t DEF EncodeBase
  <2>2. Digit(bytes, q, 1) = next_c + cur \div 16
        /\ Waiting(q, 2) = (cur % 16) * 4
    BY <1>3, <1>4, <1>5, <1>8 DEF Digit, Waiting
  <2>3. Place(Len(text), q, 1)
    BY <1>b, <1>3, <1>4, <1>8 DEF Place
  <2>4. /\ t2 \in Seq(Byte) /\ Len(t2) = Len(text) + 1
        /\ Encoded(bytes, t2, Len(text) + 1)
    <3>1. t2 = Append(text, CHAR_TABLE(Digit(bytes, q, 1)))
      BY <2>1, <2>2
    <3> QED
      BY <1>b, <1>2, <2>3, <3>1, OneMoreDigit
  <2>5. pos + 1 = 3 * q + 2 /\ Len(text) + 1 = 4 * q + 2 /\ c2 \in 0..63
    BY <1>b, <1>3, <1>4, <1>6, <1>8, <2>1 DEF Byte
  <2>6. Grown(q, 2)
    BY <2>1, <2>2, <2>4, <2>5
  <2> QED
    BY <1>3, <2>6
<1>9. ASSUME r = 2 PROVE SomeGrown
  <2>1. text' = text \o <<CHAR_TABLE(next_c + cur \div 64), CHAR_TABLE(cur % 64)>>
        /\ c2 = 0
    BY <1>3, <1>5, <1>9, <1>t DEF EncodeBase
  <2>2. Digit(bytes, q, 2) = next_c + cur \div 64 /\ Digit(bytes, q, 3) = cur % 64
    BY <1>3, <1>4, <1>5, <1>9 DEF Digit, Waiting
  <2>3. Place(Len(text), q, 2) /\ Place(Len(text) + 1, q, 3)
    BY <1>b, <1>3, <1>4, <1>9 DEF Place
  <2>4. PICK half : half = Append(text, CHAR_TABLE(Digit(bytes, q, 2)))
    OBVIOUS
  <2>5. /\ half \in Seq(Byte) /\ Len(half) = Len(text) + 1
        /\ Encoded(bytes, half, Len(half)) /\ Place(Len(half), q, 3)
    BY <1>b, <1>2, <2>3, <2>4, OneMoreDigit
  <2>6. t2 = Append(half, CHAR_TABLE(Digit(bytes, q, 3)))
    <3>1. Digit(bytes, q, 2) \in 0..63 /\ Digit(bytes, q, 3) \in 0..63
      BY <1>b, <2>3, DigitType
    <3>2. PICK c \in Byte, d \in Byte : /\ c = CHAR_TABLE(Digit(bytes, q, 2))
                                        /\ d = CHAR_TABLE(Digit(bytes, q, 3))
      BY <3>1, Tables
    <3>3. Append(Append(text, c), d) = text \o <<c, d>>
      BY <1>b, <3>2
    <3> QED
      BY <1>t, <2>1, <2>2, <2>4, <3>2, <3>3
  <2>7. /\ t2 \in Seq(Byte) /\ Len(t2) = Len(half) + 1
        /\ Encoded(bytes, t2, Len(half) + 1)
    BY <1>b, <2>5, <2>6, OneMoreDigit
  <2>8. /\ pos + 1 = 3 * (q + 1) + 0 /\ Len(half) + 1 = 4 * (q + 1) + 0
        /\ q + 1 \in Nat /\ c2 \in 0..63
    BY <1>b, <1>3, <1>4, <1>9, <2>1, <2>5
  <2>9. Waiting(q + 1, 0) = 0
    BY DEF Waiting
  <2>10. Grown(q + 1, 0)
    BY <2>1, <2>7, <2>8, <2>9
  <2> QED
    BY <2>8, <2>10
<1>10. PICK p \in Nat, s \in 0..2 : Grown(p, s)
  BY <1>7, <1>8, <1>9 DEF Grown
<1> HIDE DEF Grown
<1>11. CodecTypeOK' /\ SizesOK'
  <2>1. text' \in Seq(Byte) /\ next_c' \in 0..63
    BY <1>10, <1>t DEF Grown
  <2> QED
    BY <1>1, <2>1 DEF CodecInv, CodecTypeOK, SizesOK
<1>12. EncodeInv'
  <2>1. Encoded(bytes', text', Len(text')) /\ pos' <= Len(bytes') /\ ret' = <<>>
    BY <1>1, <1>2, <1>10, <1>t DEF Grown
  <2>2. ASSUME NEW k \in Nat, NEW l \in 0..2, pos' = 3 * k + l
        PROVE  Len(text') = 4 * k + l /\ next_c' = Waiting(k, l)'
    <3>1. k = p /\ l = s
      BY <1>1, <1>10, <2>2, ThreesUnique DEF Grown
    <3>2. Waiting(p, s)' = Waiting(p, s)
      BY <1>1 DEF Waiting
    <3> QED
      BY <1>10, <1>t, <3>1, <3>2 DEF Grown
  <2> QED
    BY <2>1, <2>2 DEF EncodeInv
<1> QED
  BY <1>1, <1>2, <1>11, <1>12
     DEF CodecInv, OwnText, DecodeInv, OwnResult, AssertHolds, RoundTrip, Decoding

LEMMA DigitCounts ==
  ASSUME NEW q \in Nat, NEW r \in 0..2
  PROVE  DigitCount(3 * q + r) = 4 * q + (IF r = 0 THEN 0 ELSE r + 1)
<1>1. (3 * q + r) \div 3 = q /\ (3 * q + r) % 3 = r
  <2>1. PICK p \in Nat, s \in 0..2 : /\ 3 * q + r = 3 * p + s
                                     /\ (3 * q + r) \div 3 = p
                                     /\ (3 * q + r) % 3 = s
    <3>1. 3 * q + r \in Nat
      OBVIOUS
    <3> QED
      BY <3>1, InThrees
  <2> QED
    BY <2>1, ThreesUnique
<1> QED
  BY <1>1 DEF DigitCount

(* All digits are there, only padding may follow.                          *)
LEMMA PaddingFollows ==
  ASSUME NEW b \in Seq(Byte), NEW t \in Seq(Byte), Encoded(b, t, Len(t)),
         NEW p \in Seq(Byte), Len(p) \in 0..2, Len(t) = 0 => Len(p) = 0,
         \A i \in 1..Len(p) : p[i] = Pad
  PROVE  /\ t \o p \in Seq(Byte) /\ Padded(t \o p, Len(t))
         /\ Encoded(b, t \o p, Len(t))
<1>1. /\ t \o p \in Seq(Byte) /\ Len(t \o p) = Len(t) + Len(p)
      /\ \A i \in 1..Len(t) : (t \o p)[i] = t[i]
      /\ \A i \in 1..Len(p) : (t \o p)[Len(t) + i] = p[i]
  BY ConcatProperties
<1>2. PICK n \in Nat : n = Len(t)
  OBVIOUS
<1>m. PICK m \in 0..2 : m = Len(p)
  OBVIOUS
<1>u. PICK u : u = t \o p
  OBVIOUS
<1>v. /\ Len(u) = n + m /\ \A i \in 1..n : u[i] = t[i]
      /\ \A i \in 1..m : u[n + i] = Pad
  BY <1>1, <1>2, <1>m, <1>u
<1>3. ASSUME NEW i \in (n + 1)..Len(u)
      PROVE  u[i] = Pad
  <2>1. PICK j \in 1..m : i = n + j
    <3>1. i - n \in 1..m /\ i = n + (i - n)
      BY <1>v
    <3> QED
      BY <3>1
  <2> QED
    BY <1>v, <2>1
<1>4. ASSUME n # 0
      PROVE  u[n] # Pad
  <2>1. PICK q \in Nat, r \in 0..3 : n - 1 = 4 * q + r
    <3>1. n - 1 \in Nat
      BY <1>4
    <3> QED
      BY <3>1, InFours
  <2>2. 4 * q + r < n /\ 4 * q + r + 1 = n /\ n \in 1..n
    BY <1>4, <2>1
  <2>3. t[n] = CHAR_TABLE(Digit(b, q, r))
    BY <1>2, <2>2 DEF Encoded
  <2>4. CHAR_TABLE(Digit(b, q, r)) # Pad
    <3>1. Digit(b, q, r) \in 0..63
      BY <2>1, DigitType
    <3> QED
      BY <3>1, Tables
  <2> QED
    BY <1>v, <2>2, <2>3, <2>4
<1>5. Len(u) \in n..(n + 2) /\ (n = 0 => Len(u) = 0)
  BY <1>2, <1>m, <1>v
<1>6. Padded(u, n)
  BY <1>3, <1>4, <1>5 DEF Padded
<1>7. Encoded(b, t \o p, Len(t))
  BY PaddedDigits
<1> QED
  BY <1>1, <1>2, <1>u, <1>6, <1>7

LEMMA EncodeLastStep ==
  ASSUME CodecInv, EncodeLast
  PROVE  CodecInv'
<1>1. /\ bytes \in Seq(Byte) /\ text \in Seq(Byte) /\ add_padding \in BOOLEAN
      /\ phase = "encode" /\ pos = Len(bytes) /\ Len(bytes) \in Nat
      /\ phase' = "decode_own" /\ pos' = 0 /\ next_c' = 0
      /\ UNCHANGED <<bytes, add_padding, ret>>
  BY DEF CodecInv, CodecTypeOK, EncodeLast
<1>b. bytes \in Seq(Byte) /\ text \in Seq(Byte) /\ add_padding \in BOOLEAN
  BY <1>1
<1>2. Encoded(bytes, text, Len(text)) /\ ret = <<>>
  BY <1>1 DEF CodecInv, EncodeInv
<1>3. PICK q \in Nat, r \in 0..2 : pos = 3 * q + r /\ pos % 3 = r
  BY <1>1, InThrees
<1>4. Len(text) = 4 * q + r /\ next_c = Waiting(q, r)
  BY <1>1, <1>3 DEF CodecInv, EncodeInv
<1>5. PICK missing \in 0..2 : missing = (3 - (pos % 3)) % 3
                              /\ missing = (IF r = 0 THEN 0 ELSE 3 - r)
  BY <1>3
<1>6. PICK last : last = IF missing = 0 THEN <<>> ELSE <<CHAR_TABLE(next_c)>>
  OBVIOUS
<1>7. PICK pads : pads = IF add_padding THEN [k \in 1..missing |-> Pad] ELSE <<>>
  OBVIOUS
<1>8. text' = text \o last \o pads
  BY <1>5, <1>6, <1>7 DEF EncodeLast
<1>9. /\ pads \in Seq(Byte) /\ Len(pads) \in 0..2
      /\ \A i \in 1..Len(pads) : pads[i] = Pad
      /\ missing = 0 => Len(pads) = 0
  <2>1. CASE add_padding
    <3>1. pads = [k \in 1..missing |-> Pad] /\ Pad \in Byte
      BY <1>7, <2>1 DEF Pad, Byte
    <3> QED
      BY <3>1
  <2>2. CASE ~add_padding
    <3>1. pads = <<>>
      BY <1>7, <2>2
    <3> QED
      BY <3>1, EmptySeq
  <2> QED
    BY <2>1, <2>2
<1>10. PICK m : m = DigitCount(Len(bytes))
                /\ m = 4 * q + (IF r = 0 THEN 0 ELSE r + 1)
  BY <1>1, <1>3, DigitCounts
<1>11. /\ text \o last \in Seq(Byte) /\ Len(text \o last) = m
       /\ Encoded(bytes, text \o last, m) /\ (m = 0 => missing = 0)
  <2>1. CASE r = 0
    <3>1. last = <<>> /\ m = Len(text)
      BY <1>4, <1>5, <1>6, <1>10, <2>1
    <3>2. text \o last = text
      BY <1>b, <3>1, ConcatEmptySeq
    <3> QED
      BY <1>b, <1>2, <1>5, <2>1, <3>1, <3>2
  <2>2. CASE r # 0
    <3>1. last = <<CHAR_TABLE(next_c)>> /\ m = Len(text) + 1
      BY <1>3, <1>4, <1>5, <1>6, <1>10, <2>2
    <3>2. next_c = Digit(bytes, q, r)
      <4>1. CASE r = 1
        <5>1. ByteAt(bytes, 3 * q + 2) = 0
          BY <1>1, <1>3, <4>1 DEF ByteAt
        <5>2. ByteAt(bytes, 3 * q + 1) % 4 \in 0..3
          <6>1. ByteAt(bytes, 3 * q + 1) \in Byte
            BY <1>b, <1>3, ByteAtType
          <6> QED
            BY <6>1, ByteParts
        <5>3. PICK x \in 0..3 : x = ByteAt(bytes, 3 * q + 1) % 4
          BY <5>2
        <5>4. Digit(bytes, q, 1) = x * 16
          <6>1. 0 \div 16 = 0
            OBVIOUS
          <6> QED
            BY <5>1, <5>3, <6>1 DEF Digit
        <5>5. Waiting(q, 1) = x * 16
          BY <5>3 DEF Waiting
        <5> QED
          BY <1>4, <4>1, <5>4, <5>5
      <4>2. CASE r = 2
        <5>1. ByteAt(bytes, 3 * q + 3) = 0
          BY <1>1, <1>3, <4>2 DEF ByteAt
        <5>2. ByteAt(bytes, 3 * q + 2) % 16 \in 0..15
          <6>1. ByteAt(bytes, 3 * q + 2) \in Byte
            BY <1>b, <1>3, ByteAtType
          <6> QED
            BY <6>1, ByteParts
        <5>3. PICK x \in 0..15 : x = ByteAt(bytes, 3 * q + 2) % 16
          BY <5>2
        <5>4. Digit(bytes, q, 2) = x * 4
          <6>1. 0 \div 64 = 0
            OBVIOUS
          <6> QED
            BY <5>1, <5>3, <6>1 DEF Digit
        <5>5. Waiting(q, 2) = x * 4
          BY <5>3 DEF Waiting
        <5> QED
          BY <1>4, <4>2, <5>4, <5>5
      <4> QED
        BY <1>3, <2>2, <4>1, <4>2
    <3>3. Place(Len(text), q, r)
      BY <1>b, <1>3, <1>4 DEF Place
    <3>4. text \o last = Append(text, CHAR_TABLE(Digit(bytes, q, r)))
      <4>1. CHAR_TABLE(Digit(bytes, q, r)) \in Byte
        <5>1. r \in 0..3 /\ q \in Nat
          BY <1>3
        <5>2. Digit(bytes, q, r) \in 0..63
          BY <1>b, <5>1, DigitType
        <5> QED
          BY <5>2, Tables
      <4> QED
        BY <1>b, <3>1, <3>2, <4>1, AppendIsConcat
    <3>5. /\ text \o last \in Seq(Byte) /\ Len(text \o last) = Len(text) + 1
          /\ Encoded(bytes, text \o last, Len(text) + 1)
      BY <1>b, <1>2, <3>3, <3>4, OneMoreDigit
    <3>6. m # 0
      BY <1>b, <3>1
    <3> QED
      BY <3>1, <3>5, <3>6
  <2> QED
    BY <2>1, <2>2
<1>12. text' \in Seq(Byte) /\ Padded(text', m) /\ Encoded(bytes, text', m)
  BY <1>b, <1>8, <1>9, <1>11, PaddingFollows
<1>13. CodecTypeOK' /\ SizesOK'
  BY <1>1, <1>2, <1>12 DEF CodecInv, CodecTypeOK, SizesOK
<1>14. OwnText'
  BY <1>1, <1>10, <1>12 DEF OwnText
<1>15. DecodeInv' /\ OwnResult'
  <2>1. \A k \in Nat, l \in 0..3 : 0 = 4 * k + l => k = 0 /\ l = 0
    OBVIOUS
  <2>2. Len(ret') = 0
    BY <1>1, <1>2, EmptySeq
  <2> QED
    BY <1>1, <2>1, <2>2 DEF DecodeInv, OwnResult, Place, Partial, Holds
<1> QED
  BY <1>1, <1>13, <1>14, <1>15 DEF CodecInv, EncodeInv, AssertHolds, RoundTrip

-----------------------------------------------------------------------------
(* decodeWithoutPadding.                                                   *)

LEMMA BehindByte ==
  ASSUME NEW h \in Nat, NEW l \in 0..255
  PROVE  (256 * h + l) % 256 = l
OBVIOUS

(* Digit r of group q comes when n bytes are begun.                        *)
Behind(n, q, r) == n \in Nat /\ q \in Nat /\ r \in 0..3 /\ n = 3 * q + r

(* Decoding undoes how encode cut the bytes into digits.                   *)
LEMMA DigitParts ==
  ASSUME NEW b, NEW n, NEW q, NEW r, b \in Seq(Byte), Behind(n, q, r)
  PROVE  /\ r # 0 => High(Digit(b, q, r), r) = Rest(ByteAt(b, n), r)
         /\ r # 3 => Low(Digit(b, q, r), r) = Kept(ByteAt(b, n + 1), r + 1)
<1>0. q \in Nat /\ r \in 0..3 /\ n = 3 * q + r
  BY DEF Behind
<1>1. PICK x \in Byte, y \in Byte, z \in Byte :
        /\ x = ByteAt(b, 3 * q + 1) /\ y = ByteAt(b, 3 * q + 2)
        /\ z = ByteAt(b, 3 * q + 3)
  BY <1>0, ByteAtType
<1>2. CASE r = 0
  <2>1. ((x \div 4) * 4) % 256 = (x \div 4) * 4
    BY DEF Byte
  <2>2. Digit(b, q, 0) = x \div 4 /\ n + 1 = 3 * q + 1
    BY <1>0, <1>1, <1>2 DEF Digit
  <2> QED
    BY <1>0, <1>1, <1>2, <2>1, <2>2 DEF Low, Kept
<1>3. CASE r = 1
  <2>1. PICK h \in 0..3, l \in 0..15 : h = x % 4 /\ l = y \div 16
    BY DEF Byte
  <2>2. (h * 16 + l) \div 16 = h /\ ((h * 16 + l) * 16) % 256 = l * 16
    <3>1. (h * 16 + l) \div 16 = h
      OBVIOUS
    <3>2. (h * 16 + l) * 16 = 256 * h + l * 16 /\ l * 16 \in 0..255
      OBVIOUS
    <3> QED
      BY <3>1, <3>2, BehindByte
  <2>3. Digit(b, q, 1) = h * 16 + l /\ n + 1 = 3 * q + 2
    BY <1>0, <1>1, <1>3, <2>1 DEF Digit
  <2> QED
    BY <1>0, <1>1, <1>3, <2>1, <2>2, <2>3 DEF High, Low, Kept, Rest
<1>4. CASE r = 2
  <2>1. PICK h \in 0..15, l \in 0..3 : h = y % 16 /\ l = z \div 64
    BY DEF Byte
  <2>2. (h * 4 + l) \div 4 = h /\ ((h * 4 + l) * 64) % 256 = l * 64
    <3>1. (h * 4 + l) \div 4 = h
      OBVIOUS
    <3>2. (h * 4 + l) * 64 = 256 * h + l * 64 /\ l * 64 \in 0..255
      OBVIOUS
    <3> QED
      BY <3>1, <3>2, BehindByte
  <2>3. Digit(b, q, 2) = h * 4 + l /\ n + 1 = 3 * q + 3
    BY <1>0, <1>1, <1>4, <2>1 DEF Digit
  <2> QED
    BY <1>0, <1>1, <1>4, <2>1, <2>2, <2>3 DEF High, Low, Kept, Rest
<1>5. CASE r = 3
  BY <1>0, <1>1, <1>5 DEF Digit, High, Rest
<1> QED
  BY <1>0, <1>2, <1>3, <1>4, <1>5

(* A byte without its rest has room for the high part of a digit.          *)
LEMMA PartsFit ==
  ASSUME NEW x \in Byte, NEW d \in 0..63, NEW r \in 1..3
  PROVE  /\ Kept(x, r) + Rest(x, r) = x
         /\ Rest(x, r) = 0 => x + High(d, r) \in Byte
         /\ Low(d, r - 1) \in Byte /\ Rest(Low(d, r - 1), r) = 0
<1>1. CASE r = 1
  BY <1>1 DEF Byte, Kept, Rest, High, Low
<1>2. CASE r = 2
  BY <1>2 DEF Byte, Kept, Rest, High, Low
<1>3. CASE r = 3
  BY <1>3 DEF Byte, Kept, Rest, High, Low
<1> QED
  BY <1>1, <1>2, <1>3

(* ret.back() |= bits, for any string of bytes.                            *)
OrLast(s, e) == [s EXCEPT ![Len(s)] = @ + e]

LEMMA OrLastSeq ==
  ASSUME NEW s \in Seq(Byte), NEW e, Len(s) # 0, s[Len(s)] + e \in Byte
  PROVE  /\ OrLast(s, e) \in Seq(Byte) /\ Len(OrLast(s, e)) = Len(s)
         /\ \A j \in 1..Len(s) :
              OrLast(s, e)[j] = IF j = Len(s) THEN s[Len(s)] + e ELSE s[j]
<1>1. PICK x \in Byte : x = s[Len(s)] + e
  OBVIOUS
<1>2. OrLast(s, e) = [s EXCEPT ![Len(s)] = x]
  BY <1>1 DEF OrLast
<1>3. Len(s) \in 1..Len(s)
  OBVIOUS
<1> QED
  BY <1>1, <1>2, <1>3, ExceptSeq

(* A digit completes the last byte.                                        *)
LEMMA HighPart ==
  ASSUME NEW s, NEW q, NEW r, NEW d, s \in Seq(Byte), q \in Nat, r \in 1..3,
         d \in 0..63, Partial(s, q, r)
  PROVE  /\ OrLast(s, High(d, r)) \in Seq(Byte)
         /\ Len(OrLast(s, High(d, r))) = Len(s)
         /\ \A b \in Seq(Byte) :
              Holds(b, s, r) /\ d = Digit(b, q, r) =>
                Holds(b, OrLast(s, High(d, r)), 0)
<1>1. Len(s) = 3 * q + r /\ Rest(s[Len(s)], r) = 0 /\ Len(s) # 0
  BY DEF Partial
<1>2. s[Len(s)] \in Byte
  BY <1>1
<1>3. s[Len(s)] + High(d, r) \in Byte
  BY <1>1, <1>2, PartsFit
<1>4. PICK u : u = OrLast(s, High(d, r))
  OBVIOUS
<1>5. /\ u \in Seq(Byte) /\ Len(u) = Len(s)
      /\ \A j \in 1..Len(s) :
           u[j] = IF j = Len(s) THEN s[Len(s)] + High(d, r) ELSE s[j]
  BY <1>1, <1>3, <1>4, OrLastSeq
<1>6. ASSUME NEW b \in Seq(Byte), Holds(b, s, r), d = Digit(b, q, r)
      PROVE  Holds(b, u, 0)
  <2>1. ASSUME NEW j \in 1..Len(s)
        PROVE  u[j] = ByteAt(b, j)
    <3>1. CASE j = Len(s)
      <4>1. s[j] = Kept(ByteAt(b, j), r)
        BY <1>6, <3>1 DEF Holds
      <4>2. High(d, r) = Rest(ByteAt(b, j), r)
        <5>1. Behind(Len(s), q, r) /\ r # 0
          BY <1>1 DEF Behind
        <5>2. High(Digit(b, q, r), r) = Rest(ByteAt(b, Len(s)), r)
          BY <1>6, <5>1, DigitParts
        <5> QED
          BY <1>6, <3>1, <5>2
      <4>3. Kept(ByteAt(b, j), r) + Rest(ByteAt(b, j), r) = ByteAt(b, j)
        BY <2>1, ByteAtType, PartsFit
      <4>4. u[j] = s[j] + High(d, r)
        BY <1>5, <3>1
      <4> QED
        BY <4>1, <4>2, <4>3, <4>4
    <3>2. CASE j # Len(s)
      <4>1. s[j] = ByteAt(b, j)
        BY <1>6, <3>2 DEF Holds
      <4> QED
        BY <1>5, <3>2, <4>1
    <3> QED
      BY <3>1, <3>2
  <2> QED
    BY <1>5, <2>1 DEF Holds
<1> QED
  BY <1>4, <1>5, <1>6

(* The rest of a digit starts the next byte.                               *)
LEMMA LowPart ==
  ASSUME NEW s, NEW q, NEW r, NEW d, s \in Seq(Byte), r # 3, d \in 0..63,
         Behind(Len(s), q, r)
  PROVE  /\ Append(s, Low(d, r)) \in Seq(Byte)
         /\ Partial(Append(s, Low(d, r)), q, r + 1)
         /\ \A b \in Seq(Byte) :
              Holds(b, s, 0) /\ d = Digit(b, q, r) =>
                Holds(b, Append(s, Low(d, r)), r + 1)
<1>0. q \in Nat /\ r \in 0..2 /\ Len(s) = 3 * q + r
  BY DEF Behind
<1>1. PICK c : c = Low(d, r)
  OBVIOUS
<1>2. c \in Byte /\ Rest(c, r + 1) = 0
  <2>1. PICK t \in 1..3 : t = r + 1 /\ t - 1 = r
    BY <1>0
  <2>2. 0 \in Byte
    BY DEF Byte
  <2>3. Low(d, t - 1) \in Byte /\ Rest(Low(d, t - 1), t) = 0
    BY <2>2, PartsFit
  <2> QED
    BY <1>1, <2>1, <2>3
<1>3. PICK u : u = Append(s, c)
  OBVIOUS
<1>4. /\ u \in Seq(Byte) /\ Len(u) = Len(s) + 1 /\ u[Len(s) + 1] = c
      /\ \A i \in 1..Len(s) : u[i] = s[i]
  BY <1>2, <1>3, AppendByte
<1>5. Partial(u, q, r + 1)
  BY <1>0, <1>2, <1>4 DEF Partial
<1>6. ASSUME NEW b \in Seq(Byte), Holds(b, s, 0), d = Digit(b, q, r)
      PROVE  Holds(b, u, r + 1)
  <2>1. ASSUME NEW j \in 1..Len(u), j # Len(u)
        PROVE  u[j] = ByteAt(b, j)
    <3>1. j \in 1..Len(s)
      BY <1>4, <2>1
    <3>2. s[j] = ByteAt(b, j)
      BY <1>6, <3>1 DEF Holds
    <3> QED
      BY <1>4, <3>1, <3>2
  <2>2. u[Len(u)] = Kept(ByteAt(b, Len(u)), r + 1)
    <3>2. Low(Digit(b, q, r), r) = Kept(ByteAt(b, Len(s) + 1), r + 1)
      BY <1>6, DigitParts
    <3> QED
      BY <1>1, <1>4, <1>6, <3>2
  <2>3. r + 1 # 0
    BY <1>0
  <2> QED
    BY <2>1, <2>2, <2>3 DEF Holds
<1> QED
  BY <1>1, <1>3, <1>4, <1>5, <1>6

(* n - 1 in unsigned arithmetic, for n from 1.                             *)
LEMMA LastIsBefore ==
  ASSUME NEW m \in Nat \ {0}, NEW k \in 1..m
  PROVE  (k + m - 1) % m = k - 1
<1>1. PICK a, d : a = k + m - 1 /\ d = a \div m
  OBVIOUS
<1>2. /\ a \in Nat /\ d \in Int /\ a % m \in 0..(m - 1) /\ a = m * d + (a % m)
      /\ a \in m..(2 * m - 1)
  BY <1>1
<1>3. d = 1
  <2>1. ASSUME d <= 0 PROVE FALSE
    <3>1. m * d <= 0
      BY <1>2, <2>1
    <3> QED
      BY <1>2, <3>1
  <2>2. ASSUME d >= 2 PROVE FALSE
    <3>1. m * d >= m * 2
      BY <1>2, <2>2
    <3> QED
      BY <1>2, <3>1
  <2> QED
    BY <1>2, <2>1, <2>2
<1> QED
  BY <1>1, <1>2, <1>3

LEMMA DigitCountBound ==
  ASSUME NEW m \in Nat
  PROVE  DigitCount(m) \in 0..(2 * m) /\ (m # 0 => DigitCount(m) # 0)
<1>1. PICK q \in Nat, r \in 0..2 : m = 3 * q + r
  BY InThrees
<1>2. DigitCount(m) = 4 * q + (IF r = 0 THEN 0 ELSE r + 1)
  BY <1>1, DigitCounts
<1> QED
  BY <1>1, <1>2

(* Of own text every digit is found, whatever the padding.                 *)
LEMMA OwnLength ==
  ASSUME CodecTypeOK, OwnText, phase = "decode_own"
  PROVE  WithoutPadding(text) = DigitCount(Len(bytes))
<1>1. Len(bytes) \in Nat /\ text \in Seq(Byte)
  BY DEF CodecTypeOK
<1>2. DigitCount(Len(bytes)) \in Nat
  BY <1>1, DigitCountBound
<1> QED
  BY <1>1, <1>2, PaddedLength DEF OwnText

LEMMA OwnDigit ==
  ASSUME CodecInv, phase = "decode_own", pos < WithoutPadding(text),
         NEW q \in Nat, NEW r \in 0..3, Place(pos, q, r)
  PROVE  cur_digit = Digit(bytes, q, r)
<1>1. Encoded(bytes, text, DigitCount(Len(bytes))) /\ bytes \in Seq(Byte)
  BY DEF CodecInv, CodecTypeOK, OwnText
<1>2. WithoutPadding(text) = DigitCount(Len(bytes))
  BY OwnLength DEF CodecInv
<1>3. pos = 4 * q + r
  BY DEF Place
<1>4. text[pos + 1] = CHAR_TABLE(Digit(bytes, q, r))
  BY <1>1, <1>2, <1>3 DEF Encoded
<1>5. Digit(bytes, q, r) \in 0..63
  BY <1>1, DigitType
<1> QED
  BY <1>4, <1>5, Tables DEF cur_digit

(* A digit that is decoded is one of the text: the wrap-around of last is  *)
(* harmless, because text of nothing but padding begins with padding.      *)
LEMMA ReadPosition ==
  ASSUME CodecInv, Decoding, text # <<>>, pos <= Last(text),
         cur_digit # 64 \/ phase = "decode_own"
  PROVE  /\ WithoutPadding(text) \in 1..Len(text)
         /\ Last(text) = WithoutPadding(text) - 1
         /\ pos < WithoutPadding(text) /\ pos \in Nat
<1>1. /\ text \in Seq(Byte) /\ bytes \in Seq(Byte) /\ pos \in Nat
      /\ phase \in {"decode_own", "decode_foreign"}
  BY DEF CodecInv, CodecTypeOK, Decoding
<1>2. PICK n : n = WithoutPadding(text)
  OBVIOUS
<1>3. n \in 0..Len(text) /\ (n = 0 => text[1] = Pad)
  BY <1>1, <1>2, WithoutPaddingBounds
<1>4. pos = 0 \/ pos < n
  BY <1>2 DEF CodecInv, DecodeInv
<1>5. n # 0
  <2>1. ASSUME n = 0 PROVE FALSE
    <3>1. pos = 0 /\ pos + 1 = 1
      BY <1>1, <1>4, <2>1
    <3>2. cur_digit = 64
      <4>1. cur_digit = REVERSE_LOOKUP_TABLE(Pad)
        BY <1>3, <2>1, <3>1 DEF cur_digit
      <4>2. REVERSE_LOOKUP_TABLE(Pad) = 64
        BY DEF REVERSE_LOOKUP_TABLE, Pad
      <4> QED
        BY <4>1, <4>2
    <3>3. phase = "decode_own"
      BY <3>2
    <3>4. Padded(text, 0)
      BY <1>2, <2>1, <3>3, OwnLength DEF CodecInv, OwnText
    <3>5. Len(text) = 0
      BY <3>4 DEF Padded
    <3> QED
      BY <1>1, <3>5, EmptySeq
  <2> QED
    BY <2>1
<1>6. n < SizeModulus
  <2>1. CASE phase = "decode_foreign"
    <3>1. 2 * Len(text) + 4 < SizeModulus /\ Len(text) \in Nat
      BY <1>1, <2>1 DEF CodecInv, SizesOK
    <3> QED
      BY <1>3, <3>1, Base64Assumption
  <2>2. CASE phase = "decode_own"
    <3>1. 2 * Len(bytes) + 4 < SizeModulus /\ Len(bytes) \in Nat
      BY <1>1 DEF CodecInv, SizesOK
    <3>2. n = DigitCount(Len(bytes))
      BY <1>2, <2>2, OwnLength DEF CodecInv
    <3>3. n \in 0..(2 * Len(bytes))
      BY <3>1, <3>2, DigitCountBound
    <3> QED
      BY <3>1, <3>3, Base64Assumption
  <2> QED
    BY <1>1, <2>1, <2>2
<1>7. Last(text) = n - 1
  <2>1. SizeModulus \in Nat \ {0} /\ n \in 1..SizeModulus
    BY <1>3, <1>5, <1>6, Base64Assumption
  <2>2. (n + SizeModulus - 1) % SizeModulus = n - 1
    BY <2>1, LastIsBefore
  <2> QED
    BY <1>2, <2>2 DEF Last
<1> QED
  BY <1>1, <1>2, <1>3, <1>4, <1>5, <1>7

LEMMA DecodeEmptyStep ==
  ASSUME CodecInv, DecodeEmpty
  PROVE  CodecInv'
<1>1. /\ text = <<>> /\ ret' = <<>> /\ phase \in {"decode_own", "decode_foreign"}
      /\ phase' = IF phase = "decode_own" THEN "done_own" ELSE "done_foreign"
      /\ UNCHANGED <<bytes, add_padding, text, next_c, pos>>
  BY DEF DecodeEmpty, Decoding, Done
<1>2. CodecTypeOK' /\ SizesOK'
  BY <1>1, EmptySeq DEF CodecInv, CodecTypeOK, SizesOK
<1>3. OwnText'
  BY <1>1 DEF CodecInv, OwnText
<1>4. RoundTrip'
  <2>1. ASSUME phase = "decode_own" PROVE bytes = <<>>
    <3>1. Len(text) = 0 /\ WithoutPadding(text) = 0
      BY <1>1, EmptySeq DEF WithoutPadding
    <3>2. DigitCount(Len(bytes)) = 0
      BY <2>1, <3>1, OwnLength DEF CodecInv
    <3>3. bytes \in Seq(Byte) /\ Len(bytes) \in Nat
      BY DEF CodecInv, CodecTypeOK
    <3>4. Len(bytes) = 0
      BY <3>2, <3>3, DigitCountBound
    <3> QED
      BY <3>3, <3>4, EmptySeq
  <2> QED
    BY <1>1, <2>1 DEF RoundTrip
<1> QED
  BY <1>1, <1>2, <1>3, <1>4
     DEF CodecInv, EncodeInv, DecodeInv, OwnResult, AssertHolds, Decoding

(* encode's own text has no invalid character.                             *)
LEMMA DecodeInvalidStep ==
  ASSUME CodecInv, DecodeInvalid
  PROVE  CodecInv'
<1>1. /\ text # <<>> /\ pos <= Last(text) /\ cur_digit = 64 /\ ret' = <<>>
      /\ Decoding /\ phase \in {"decode_own", "decode_foreign"}
      /\ phase' = IF phase = "decode_own" THEN "done_own" ELSE "done_foreign"
      /\ UNCHANGED <<bytes, add_padding, text, next_c, pos>>
  BY DEF DecodeInvalid, Decoding, Done
<1>2. phase # "decode_own"
  <2>1. ASSUME phase = "decode_own" PROVE FALSE
    <3>1. pos < WithoutPadding(text) /\ pos \in Nat
      BY <1>1, <2>1, ReadPosition
    <3>2. PICK q \in Nat, r \in 0..3 : pos = 4 * q + r
      BY <3>1, InFours
    <3>3. Place(pos, q, r)
      BY <3>1, <3>2 DEF Place
    <3>4. cur_digit = Digit(bytes, q, r)
      BY <2>1, <3>1, <3>2, <3>3, OwnDigit
    <3>5. Digit(bytes, q, r) \in 0..63
      BY <3>2, DigitType DEF CodecInv, CodecTypeOK
    <3>6. cur_digit # 64
      BY <3>4, <3>5
    <3> QED
      BY <1>1, <3>6
  <2> QED
    BY <2>1
<1>3. CodecTypeOK' /\ SizesOK'
  BY <1>1, <1>2, EmptySeq DEF CodecInv, CodecTypeOK, SizesOK
<1> QED
  BY <1>1, <1>2, <1>3
     DEF CodecInv, OwnText, EncodeInv, DecodeInv, OwnResult, AssertHolds,
         RoundTrip, Decoding

(* The digit read next: its place, its range and what it is of own text.   *)
LEMMA NextDigit ==
  ASSUME CodecInv, Decoding, text # <<>>, pos <= Last(text), cur_digit # 64
  PROVE  \E q \in Nat, r \in 0..3 :
           /\ Place(pos, q, r) /\ pos % 4 = r /\ cur_digit \in 0..63
           /\ Partial(ret, q, r)
           /\ phase = "decode_own" =>
                Holds(bytes, ret, r) /\ cur_digit = Digit(bytes, q, r)
<1>1. /\ WithoutPadding(text) \in 1..Len(text) /\ pos \in Nat
      /\ pos < WithoutPadding(text)
  BY ReadPosition
<1>2. PICK q \in Nat, r \in 0..3 : pos = 4 * q + r /\ pos % 4 = r
  BY <1>1, InFours
<1>3. Place(pos, q, r)
  BY <1>1, <1>2 DEF Place
<1>4. cur_digit \in 0..63
  <2>1. text \in Seq(Byte)
    BY DEF CodecInv, CodecTypeOK
  <2>2. text[pos + 1] \in Byte
    BY <1>1, <2>1
  <2>3. cur_digit \in 0..64
    BY <2>2, ReverseLookup DEF cur_digit
  <2> QED
    BY <2>3
<1>5. Partial(ret, q, r)
  BY <1>2, <1>3 DEF CodecInv, DecodeInv
<1>6. ASSUME phase = "decode_own"
      PROVE  Holds(bytes, ret, r) /\ cur_digit = Digit(bytes, q, r)
  <2>1. Holds(bytes, ret, r)
    BY <1>2, <1>3, <1>6 DEF CodecInv, OwnResult
  <2>2. cur_digit = Digit(bytes, q, r)
    BY <1>1, <1>2, <1>3, <1>6, OwnDigit
  <2> QED
    BY <2>1, <2>2
<1> QED
  BY <1>2, <1>3, <1>4, <1>5, <1>6

LEMMA DecodeBaseStep ==
  ASSUME CodecInv, DecodeBase
  PROVE  CodecInv'
<1>1. /\ Decoding /\ text # <<>> /\ pos < Last(text) /\ cur_digit # 64
      /\ pos' = pos + 1 /\ UNCHANGED <<bytes, add_padding, text, next_c, phase>>
  BY DEF DecodeBase
<1>2. /\ ret \in Seq(Byte) /\ bytes \in Seq(Byte) /\ pos \in Nat
      /\ phase \in {"decode_own", "decode_foreign"}
  BY <1>1 DEF CodecInv, CodecTypeOK, Decoding
<1>3. pos <= Last(text) /\ pos + 1 < WithoutPadding(text)
  <2>1. PICK l : l = Last(text)
    OBVIOUS
  <2>2. SizeModulus \in Nat \ {0} /\ WithoutPadding(text) + SizeModulus - 1 \in Int
    <3>1. text \in Seq(Byte)
      BY DEF CodecInv, CodecTypeOK
    <3>2. WithoutPadding(text) \in Nat
      BY <1>1, <3>1, WithoutPaddingBounds
    <3> QED
      BY <3>2, Base64Assumption
  <2>3. l \in Int
    BY <2>1, <2>2 DEF Last
  <2>4. pos <= l
    BY <1>1, <1>2, <2>1, <2>3
  <2>5. /\ l = WithoutPadding(text) - 1 /\ WithoutPadding(text) \in 1..Len(text)
    BY <1>1, <2>1, <2>4, ReadPosition
  <2> QED
    BY <1>1, <1>2, <2>1, <2>4, <2>5
<1>4. PICK q \in Nat, r \in 0..3 :
        /\ Place(pos, q, r) /\ pos % 4 = r /\ cur_digit \in 0..63
        /\ Partial(ret, q, r)
        /\ phase = "decode_own" =>
             Holds(bytes, ret, r) /\ cur_digit = Digit(bytes, q, r)
  BY <1>1, <1>3, NextDigit
<1>5. PICK d \in 0..63 : d = cur_digit
  BY <1>4
<1>6. PICK u : u = ret'
  OBVIOUS
<1>7. Partial(ret, q, r) /\ Behind(Len(ret), q, r)
  BY <1>4 DEF Partial, Behind
<1> DEFINE Next(p, s) == /\ Place(pos + 1, p, s) /\ u \in Seq(Byte)
                         /\ Partial(u, p, s)
                         /\ phase = "decode_own" => Holds(bytes, u, s)
           SomeNext == \E p \in Nat, s \in 0..3 : Next(p, s)
<1>8. ASSUME r = 0 PROVE SomeNext
  <2>1. u = Append(ret, Low(d, 0))
    BY <1>4, <1>5, <1>6, <1>8 DEF DecodeBase, Low
  <2>2. Behind(Len(ret), q, 0) /\ 0 # 3 /\ 0 + 1 = 1 /\ 1 \in 0..3
    BY <1>7, <1>8
  <2>3. /\ u \in Seq(Byte) /\ Partial(u, q, 1)
        /\ \A b \in Seq(Byte) :
             Holds(b, ret, 0) /\ d = Digit(b, q, 0) => Holds(b, u, 1)
    BY <1>2, <2>1, <2>2, LowPart
  <2>4. phase = "decode_own" => Holds(bytes, u, 1)
    BY <1>2, <1>4, <1>5, <1>8, <2>3
  <2>5. Place(pos + 1, q, 1)
    BY <1>4, <1>8 DEF Place
  <2> QED
    BY <2>2, <1>4, <2>3, <2>4, <2>5
<1>9. ASSUME r \in 1..2 PROVE SomeNext
  <2>1. PICK v : v = OrLast(ret, High(d, r))
    OBVIOUS
  <2>2. u = Append(v, Low(d, r))
    <3>1. CASE r = 1
      BY <1>4, <1>5, <1>6, <2>1, <3>1 DEF DecodeBase, Low, High, OrBack, OrLast
    <3>2. CASE r = 2
      BY <1>4, <1>5, <1>6, <2>1, <3>2 DEF DecodeBase, Low, High, OrBack, OrLast
    <3> QED
      BY <1>9, <3>1, <3>2
  <2>r. r \in 1..3 /\ r # 3 /\ q \in Nat
    BY <1>9
  <2>3. /\ v \in Seq(Byte) /\ Len(v) = Len(ret)
        /\ \A b \in Seq(Byte) :
             Holds(b, ret, r) /\ d = Digit(b, q, r) => Holds(b, v, 0)
    BY <1>2, <1>7, <2>1, <2>r, HighPart
  <2>4. /\ u \in Seq(Byte) /\ Partial(u, q, r + 1)
        /\ \A b \in Seq(Byte) :
             Holds(b, v, 0) /\ d = Digit(b, q, r) => Holds(b, u, r + 1)
    <3>1. Behind(Len(v), q, r)
      BY <1>7, <2>3
    <3> QED
      BY <2>2, <2>3, <2>r, <3>1, LowPart
  <2>5. phase = "decode_own" => Holds(bytes, u, r + 1)
    BY <1>2, <1>4, <1>5, <2>3, <2>4
  <2>6. Place(pos + 1, q, r + 1) /\ r + 1 \in 0..3
    BY <1>4, <1>9 DEF Place
  <2> QED
    BY <1>4, <2>4, <2>5, <2>6
<1>10. ASSUME r = 3 PROVE SomeNext
  <2>1. u = OrLast(ret, High(d, 3))
    BY <1>4, <1>5, <1>6, <1>10 DEF DecodeBase, High, OrBack, OrLast
  <2>2. 3 \in 1..3 /\ 0 \in 0..3 /\ q + 1 \in Nat /\ q \in Nat
        /\ Partial(ret, q, 3)
    BY <1>7, <1>10
  <2>3. /\ u \in Seq(Byte) /\ Len(u) = Len(ret)
        /\ \A b \in Seq(Byte) :
             Holds(b, ret, 3) /\ d = Digit(b, q, 3) => Holds(b, u, 0)
    BY <1>2, <2>1, <2>2, HighPart
  <2>4. Partial(u, q + 1, 0)
    BY <1>10, <2>2, <2>3 DEF Partial
  <2>5. phase = "decode_own" => Holds(bytes, u, 0)
    BY <1>2, <1>4, <1>5, <1>10, <2>3
  <2>6. Place(pos + 1, q + 1, 0)
    BY <1>4, <1>10 DEF Place
  <2> QED
    BY <2>2, <2>3, <2>4, <2>5, <2>6
<1>11. PICK p \in Nat, s \in 0..3 : Next(p, s)
  <2>1. r = 0 \/ r \in 1..2 \/ r = 3
    OBVIOUS
  <2> QED
    BY <1>8, <1>9, <1>10, <2>1
<1> HIDE DEF Next
<1>12. CodecTypeOK' /\ SizesOK' /\ OwnText'
  BY <1>1, <1>2, <1>6, <1>11
     DEF Next, CodecInv, CodecTypeOK, SizesOK, OwnText
<1>13. \A k \in Nat, l \in 0..3 : Place(pos + 1, k, l) => k = p /\ l = s
  BY <1>11, FoursUnique DEF Next, Place
<1>14. DecodeInv'
  <2>1. pos' < WithoutPadding(text)'
    BY <1>1, <1>3
  <2>2. ASSUME NEW k \in Nat, NEW l \in 0..3, Place(pos', k, l)
        PROVE  Partial(ret', k, l)
    BY <1>1, <1>6, <1>11, <1>13, <2>2 DEF Next
  <2> QED
    BY <2>1, <2>2 DEF DecodeInv
<1>15. OwnResult'
  <2>1. ASSUME NEW k \in Nat, NEW l \in 0..3, Place(pos', k, l),
               phase = "decode_own"
        PROVE  Holds(bytes, ret', l)
    BY <1>1, <1>6, <1>11, <1>13, <2>1 DEF Next
  <2> QED
    BY <1>1, <2>1 DEF OwnResult
<1> QED
  BY <1>1, <1>2, <1>12, <1>14, <1>15
     DEF CodecInv, EncodeInv, AssertHolds, RoundTrip, Decoding

(* The number of bytes of 4q + r + 1 digits, and that no number of bytes   *)
(* makes one digit more than whole groups.                                 *)
LEMMA MaxLengths ==
  ASSUME NEW q \in Nat, NEW r \in 1..3
  PROVE  MaxLength(4 * q + r + 1) = 3 * q + r
<1>1. PICK n \in Nat : n = 4 * q + r + 1
  OBVIOUS
<1>2. CASE r = 1
  <2>1. (n + 3) \div 4 = q + 1 /\ n % 4 = 2
    BY <1>1, <1>2
  <2> QED
    BY <1>1, <1>2, <2>1 DEF MaxLength
<1>3. CASE r = 2
  <2>1. (n + 3) \div 4 = q + 1 /\ n % 4 = 3
    BY <1>1, <1>3
  <2> QED
    BY <1>1, <1>3, <2>1 DEF MaxLength
<1>4. CASE r = 3
  <2>1. (n + 3) \div 4 = q + 1 /\ n % 4 = 0
    BY <1>1, <1>4
  <2> QED
    BY <1>1, <1>4, <2>1 DEF MaxLength
<1> QED
  BY <1>2, <1>3, <1>4

LEMMA BytesOfDigits ==
  ASSUME NEW m \in Nat, NEW q \in Nat, NEW r \in 0..3,
         DigitCount(m) = 4 * q + r + 1
  PROVE  r # 0 /\ m = 3 * q + r
<1>1. PICK p \in Nat, s \in 0..2 : m = 3 * p + s
  BY InThrees
<1>2. DigitCount(m) = 4 * p + (IF s = 0 THEN 0 ELSE s + 1)
  BY <1>1, DigitCounts
<1> QED
  BY <1>1, <1>2

(* Behind the last byte of the argument encode writes zeros.               *)
LEMMA LastDigitIsExact ==
  ASSUME NEW b \in Seq(Byte), NEW q \in Nat, NEW r \in 1..3,
         NEW d \in 0..63, d = Digit(b, q, r), Behind(Len(b), q, r)
  PROVE  (r = 1 => d % 16 = 0) /\ (r = 2 => d % 4 = 0)
<1>1. ByteAt(b, Len(b) + 1) = 0
  BY DEF ByteAt
<1>2. r # 3 => Low(d, r) = Kept(0, r + 1)
  BY <1>1, DigitParts
<1>3. CASE r = 1
  <2>1. (d * 16) % 256 = 0
    BY <1>2, <1>3 DEF Low, Kept
  <2> QED
    BY <1>3, <2>1
<1>4. CASE r = 2
  <2>1. (d * 64) % 256 = 0
    BY <1>2, <1>4 DEF Low, Kept
  <2> QED
    BY <1>4, <2>1
<1> QED
  BY <1>3, <1>4

LEMMA DecodeLastStep ==
  ASSUME CodecInv, DecodeLast
  PROVE  CodecInv'
<1>1. /\ Decoding /\ text # <<>> /\ pos = Last(text) /\ cur_digit # 64
      /\ phase' = IF phase = "decode_own" THEN "done_own" ELSE "done_foreign"
      /\ UNCHANGED <<bytes, add_padding, text, next_c, pos>>
  BY DEF DecodeLast, Done
<1>2. /\ ret \in Seq(Byte) /\ bytes \in Seq(Byte) /\ pos \in Nat
      /\ phase \in {"decode_own", "decode_foreign"} /\ Len(bytes) \in Nat
  BY <1>1 DEF CodecInv, CodecTypeOK, Decoding
<1>3. pos <= Last(text)
  BY <1>1, <1>2
<1>4. /\ WithoutPadding(text) \in 1..Len(text)
      /\ pos = WithoutPadding(text) - 1
  BY <1>1, <1>3, ReadPosition
<1>5. PICK q \in Nat, r \in 0..3 :
        /\ Place(pos, q, r) /\ pos % 4 = r /\ cur_digit \in 0..63
        /\ Partial(ret, q, r)
        /\ phase = "decode_own" =>
             Holds(bytes, ret, r) /\ cur_digit = Digit(bytes, q, r)
  BY <1>1, <1>3, NextDigit
<1>6. PICK d \in 0..63 : d = cur_digit
  BY <1>5
<1>7. PICK u : u = OrLast(ret, High(d, r))
  OBVIOUS
<1>8. \/ ret' = <<>> /\ (r = 0 \/ (r = 1 /\ d % 16 # 0) \/ (r = 2 /\ d % 4 # 0))
      \/ ret' = u /\ r # 0
  <2>1. CASE r = 0
    <3>1. pos % 4 # 1 /\ pos % 4 # 2 /\ pos % 4 # 3
      BY <1>5, <2>1
    <3>2. Done(<<>>)
      BY <3>1 DEF DecodeLast
    <3>3. ret' = <<>>
      BY <3>2 DEF Done
    <3> QED
      BY <2>1, <3>3, Zenon
  <2>2. CASE r = 1
    <3>1. u = OrBack(cur_digit \div 16)
      BY <1>6, <1>7, <2>2 DEF High, OrBack, OrLast
    <3>2. pos % 4 # 0 /\ pos % 4 # 2 /\ pos % 4 # 3
      BY <1>5, <2>2
    <3>3. Done(IF cur_digit % 16 = 0 THEN OrBack(cur_digit \div 16) ELSE <<>>)
      BY <3>2 DEF DecodeLast
    <3>4. CASE cur_digit % 16 = 0
      <4>1. ret' = OrBack(cur_digit \div 16)
        BY <3>3, <3>4 DEF Done
      <4> QED
        BY <2>2, <3>1, <4>1
    <3>5. CASE cur_digit % 16 # 0
      BY <1>6, <2>2, <3>3, <3>5 DEF Done
    <3> QED
      BY <3>4, <3>5
  <2>3. CASE r = 2
    BY <1>5, <1>6, <1>7, <2>3 DEF DecodeLast, Done, High, OrBack, OrLast
  <2>4. CASE r = 3
    BY <1>5, <1>6, <1>7, <2>4 DEF DecodeLast, Done, High, OrBack, OrLast
  <2> QED
    BY <2>1, <2>2, <2>3, <2>4
<1>9. WithoutPadding(text) = 4 * q + r + 1 /\ Len(ret) = 3 * q + r
  BY <1>4, <1>5 DEF Place, Partial
<1>10. ASSUME r # 0
       PROVE  /\ u \in Seq(Byte) /\ Len(u) = Len(ret)
              /\ \A b \in Seq(Byte) :
                   Holds(b, ret, r) /\ d = Digit(b, q, r) => Holds(b, u, 0)
  <2>1. r \in 1..3 /\ Partial(ret, q, r) /\ q \in Nat
    BY <1>5, <1>10
  <2> QED
    BY <1>2, <1>7, <2>1, HighPart
<1>11. ret' \in Seq(Byte)
  BY <1>8, <1>10, EmptySeq
<1>12. CodecTypeOK' /\ SizesOK' /\ OwnText'
  BY <1>1, <1>2, <1>11 DEF CodecInv, CodecTypeOK, SizesOK, OwnText
<1>13. AssertHolds'
  <2>1. ASSUME ret' # <<>>
        PROVE  Len(ret') = MaxLength(WithoutPadding(text))
    <3>1. ret' = u /\ r # 0
      BY <1>8, <2>1
    <3>2. Len(u) = 3 * q + r
      BY <1>9, <1>10, <3>1
    <3>3. r \in 1..3
      BY <1>5, <3>1
    <3>4. MaxLength(4 * q + r + 1) = 3 * q + r
      BY <1>5, <3>3, MaxLengths
    <3> QED
      BY <1>9, <3>1, <3>2, <3>4
  <2> QED
    BY <1>1, <2>1 DEF AssertHolds
<1>14. RoundTrip'
  <2>1. ASSUME phase = "decode_own"
        PROVE  ret' = bytes
    <3>1. DigitCount(Len(bytes)) = 4 * q + r + 1
      BY <1>9, <2>1, OwnLength DEF CodecInv
    <3>2. r # 0 /\ Len(bytes) = 3 * q + r
      <4>1. Len(bytes) \in Nat /\ q \in Nat /\ r \in 0..3
        BY <1>1, <1>5, LenProperties DEF CodecInv, CodecTypeOK
      <4> QED
        BY <3>1, <4>1, BytesOfDigits
    <3>3. r \in 1..3 /\ Behind(Len(bytes), q, r)
      BY <1>2, <1>5, <3>2 DEF Behind
    <3>4. d = Digit(bytes, q, r) /\ Holds(bytes, ret, r)
      BY <1>5, <1>6, <2>1
    <3>5. (r = 1 => d % 16 = 0) /\ (r = 2 => d % 4 = 0)
      BY <1>2, <1>5, <1>6, <3>3, <3>4, LastDigitIsExact
    <3>6. ret' = u
      BY <1>8, <3>2, <3>5
    <3>7. u \in Seq(Byte) /\ Len(u) = Len(bytes) /\ Holds(bytes, u, 0)
      BY <1>2, <1>9, <1>10, <3>2, <3>4
    <3>8. \A j \in 1..Len(u) : u[j] = bytes[j]
      BY <3>7 DEF Holds, ByteAt
    <3> QED
      BY <1>2, <3>6, <3>7, <3>8, SeqEqual
  <2> QED
    BY <1>1, <2>1 DEF RoundTrip
<1> QED
  BY <1>1, <1>2, <1>12, <1>13, <1>14
     DEF CodecInv, EncodeInv, DecodeInv, OwnResult, Decoding

LEMMA NextCodecInv == CodecInv /\ [CodecNext]_codecVars => CodecInv'
<1> SUFFICES ASSUME CodecInv, [CodecNext]_codecVars PROVE CodecInv'
  OBVIOUS
<1>1. CASE UNCHANGED codecVars
  BY <1>1 DEF codecVars, CodecInv, CodecTypeOK, SizesOK, EncodeInv, OwnText,
              DecodeInv, OwnResult, AssertHolds, RoundTrip, Decoding, Waiting
<1>2. CASE EncodeBase
  BY <1>2, EncodeBaseStep
<1>3. CASE EncodeLast
  BY <1>3, EncodeLastStep
<1>4. CASE DecodeEmpty
  BY <1>4, DecodeEmptyStep
<1>5. CASE DecodeInvalid
  BY <1>5, DecodeInvalidStep
<1>6. CASE DecodeBase
  BY <1>6, DecodeBaseStep
<1>7. CASE DecodeLast
  BY <1>7, DecodeLastStep
<1> QED
  BY <1>1, <1>2, <1>3, <1>4, <1>5, <1>6, <1>7 DEF CodecNext, CodecReturned

LEMMA AlwaysCodecInv == CodecSpec => []CodecInv
BY InitCodecInv, NextCodecInv, PTL DEF CodecSpec

-----------------------------------------------------------------------------
(* The theorems.                                                           *)

(* Bytes stay bytes and indexes stay within the tables, for arguments of   *)
(* every length.                                                           *)
THEOREM CodecTypeCorrect == CodecSpec => []CodecTypeOK
<1>1. CodecInv => CodecTypeOK
  BY DEF CodecInv
<1> QED
  BY <1>1, AlwaysCodecInv, PTL

(* decodeWithoutPadding never reads behind its argument, although last is  *)
(* a huge number for text of nothing but padding.                          *)
THEOREM DecoderReadsItsText == CodecSpec => []ReadsInside
<1>1. ASSUME CodecInv
      PROVE  ReadsInside
  <2>1. ASSUME Decoding, text # <<>>
        PROVE  pos < Len(text)
    <3>1. text \in Seq(Byte)
      BY <1>1 DEF CodecInv, CodecTypeOK
    <3>2. Len(text) \in Nat \ {0}
      BY <2>1, <3>1, EmptySeq
    <3>3. WithoutPadding(text) \in 0..Len(text)
      BY <2>1, <3>1, WithoutPaddingBounds
    <3>4. pos \in Nat /\ (pos = 0 \/ pos < WithoutPadding(text))
      BY <1>1, <2>1 DEF CodecInv, CodecTypeOK, DecodeInv
    <3> QED
      BY <3>2, <3>3, <3>4
  <2> QED
    BY <2>1 DEF ReadsInside
<1> QED
  BY <1>1, AlwaysCodecInv, PTL

(* The assert at the end of decodeWithoutPadding holds for every text.     *)
THEOREM DecoderAssertHolds == CodecSpec => []AssertHolds
<1>1. CodecInv => AssertHolds
  BY DEF CodecInv
<1> QED
  BY <1>1, AlwaysCodecInv, PTL

(* What encode makes of any bytes, with padding or without,                *)
(* decodeWithoutPadding turns back into the same bytes.                    *)
THEOREM DecodingUndoesEncoding == CodecSpec => []RoundTrip
<1>1. CodecInv => RoundTrip
  BY DEF CodecInv
<1> QED
  BY <1>1, AlwaysCodecInv, PTL

(* The separator of the sw8 header is never part of an encoded field.      *)
THEOREM EncodedHasNoSeparator == CodecSpec => []NoSeparator
<1>1. ASSUME CodecInv
      PROVE  NoSeparator
  <2>1. ASSUME phase \in {"decode_own", "done_own"}, NEW i \in 1..Len(text)
        PROVE  text[i] # HeaderSeparator
    <3>1. PICK n : n = DigitCount(Len(bytes))
      OBVIOUS
    <3>2. /\ text \in Seq(Byte) /\ bytes \in Seq(Byte)
          /\ Padded(text, n) /\ Encoded(bytes, text, n)
      BY <1>1, <2>1, <3>1 DEF CodecInv, CodecTypeOK, OwnText
    <3>3. n \in Nat /\ i \in Nat \ {0} /\ i - 1 \in Nat
      <4>1. Len(bytes) \in Nat /\ Len(text) \in Nat
        BY <3>2
      <4> QED
        BY <2>1, <3>1, <4>1, DigitCountBound
    <3>4. CASE i <= n
      <4>1. PICK q \in Nat, r \in 0..3 : i - 1 = 4 * q + r
        BY <3>3, InFours
      <4>2. 4 * q + r < n /\ 4 * q + r + 1 = i
        BY <3>3, <3>4, <4>1
      <4>3. text[i] = CHAR_TABLE(Digit(bytes, q, r))
        BY <3>2, <4>2 DEF Encoded
      <4>4. Digit(bytes, q, r) \in 0..63
        BY <3>2, <4>1, DigitType
      <4> QED
        BY <4>3, <4>4, Tables
    <3>5. CASE ~(i <= n)
      <4>1. i \in (n + 1)..Len(text)
        BY <3>2, <3>3, <3>5
      <4>2. text[i] = Pad
        BY <3>2, <4>1 DEF Padded
      <4> QED
        BY <4>2 DEF Pad, HeaderSeparator
    <3> QED
      BY <3>4, <3>5
  <2> QED
    BY <2>1 DEF NoSeparator
<1> QED
  BY <1>1, AlwaysCodecInv, PTL

-----------------------------------------------------------------------------
(* Exactness: the bits of the text, digit by digit, are the bits of the    *)
(* result, byte by byte.                                                   *)

DigitAt(t, i) == REVERSE_LOOKUP_TABLE(t[i])

(* The bytes of s whose two digits are among the first n of t.             *)
Complete(s, t, n) ==
  \A p \in Nat, e \in 1..3 :
    4 * p + e < n =>
      s[3 * p + e] = Low(DigitAt(t, 4 * p + e), e - 1)
                       + High(DigitAt(t, 4 * p + e + 1), e)

(* The byte that digit r of group q has begun.                             *)
Begun(s, t, q, r) ==
  r # 0 => s[3 * q + r] = Low(DigitAt(t, 4 * q + r), r - 1)

ReadInv ==
  Decoding =>
    /\ \A i \in 1..pos : DigitAt(text, i) # 64
    /\ Complete(ret, text, pos)
    /\ \A q \in Nat, r \in 0..3 : Place(pos, q, r) => Begun(ret, text, q, r)

(* Bytes and digits count alike.                                           *)
LEMMA BytesBefore ==
  ASSUME NEW p \in Nat, NEW e \in 1..3, NEW q \in Nat, NEW r \in 0..3
  PROVE  /\ 4 * p + e < 4 * q + r => 3 * p + e \in 1..(3 * q + r)
         /\ 4 * p + e < 4 * q + r /\ r # 0 => 3 * p + e # 3 * q + r
         /\ 4 * p + e < 4 * q + r + 1 => 3 * p + e \in 1..(3 * q + r)
         /\ 4 * p + e < 4 * q + 1 => 4 * p + e < 4 * q
         /\ 4 * p + e = 4 * q + r => p = q /\ e = r
OBVIOUS

LEMMA CompleteHigh ==
  ASSUME NEW s, NEW t, NEW q, NEW r, NEW d, s \in Seq(Byte), q \in Nat,
         r \in 1..3, d \in 0..63, Partial(s, q, r),
         d = DigitAt(t, 4 * q + r + 1),
         Complete(s, t, 4 * q + r), Begun(s, t, q, r)
  PROVE  Complete(OrLast(s, High(d, r)), t, 4 * q + r + 1)
<1>1. Len(s) = 3 * q + r /\ Rest(s[Len(s)], r) = 0 /\ Len(s) # 0
  BY DEF Partial
<1>2. s[Len(s)] \in Byte
  BY <1>1
<1>3. s[Len(s)] + High(d, r) \in Byte
  BY <1>1, <1>2, PartsFit
<1>4. PICK u : u = OrLast(s, High(d, r))
  OBVIOUS
<1>5. /\ \A j \in 1..Len(s) :
           u[j] = IF j = Len(s) THEN s[Len(s)] + High(d, r) ELSE s[j]
  BY <1>1, <1>3, <1>4, OrLastSeq
<1>6. ASSUME NEW p \in Nat, NEW e \in 1..3, 4 * p + e < 4 * q + r + 1
      PROVE  u[3 * p + e] = Low(DigitAt(t, 4 * p + e), e - 1)
                              + High(DigitAt(t, 4 * p + e + 1), e)
  <2>1. 3 * p + e \in 1..Len(s)
    BY <1>1, <1>6, BytesBefore
  <2>2. CASE 4 * p + e < 4 * q + r
    <3>1. 3 * p + e # Len(s)
      BY <1>1, <2>2, BytesBefore
    <3>2. u[3 * p + e] = s[3 * p + e]
      BY <1>5, <2>1, <3>1
    <3> QED
      BY <2>2, <3>2 DEF Complete
  <2>3. CASE 4 * p + e = 4 * q + r
    <3>1. p = q /\ e = r /\ r # 0
      BY <2>3, BytesBefore
    <3>2. u[3 * q + r] = s[3 * q + r] + High(d, r)
      BY <1>1, <1>5, <2>1, <3>1
    <3>3. s[3 * q + r] = Low(DigitAt(t, 4 * q + r), r - 1)
      BY <3>1 DEF Begun
    <3> QED
      BY <3>1, <3>2, <3>3
  <2> QED
    BY <1>6, <2>2, <2>3
<1>7. Complete(u, t, 4 * q + r + 1)
  BY <1>6 DEF Complete
<1> QED
  BY <1>4, <1>7

LEMMA CompleteLow ==
  ASSUME NEW s, NEW t, NEW q, NEW r, NEW d, s \in Seq(Byte), r # 3,
         d \in 0..63, Behind(Len(s), q, r),
         d = DigitAt(t, 4 * q + r + 1), Complete(s, t, 4 * q + r + 1)
  PROVE  /\ Complete(Append(s, Low(d, r)), t, 4 * q + r + 1)
         /\ Begun(Append(s, Low(d, r)), t, q, r + 1)
<1>0. q \in Nat /\ r \in 0..2 /\ Len(s) = 3 * q + r
  BY DEF Behind
<1>1. PICK c : c = Low(d, r)
  OBVIOUS
<1>2. c \in Byte
  <2>1. PICK e \in 1..3 : e = r + 1 /\ e - 1 = r
    BY <1>0
  <2>2. 0 \in Byte
    BY DEF Byte
  <2>3. Low(d, e - 1) \in Byte
    BY <2>2, PartsFit
  <2> QED
    BY <1>1, <2>1, <2>3
<1>3. PICK u : u = Append(s, c)
  OBVIOUS
<1>4. /\ u[Len(s) + 1] = c
      /\ \A i \in 1..Len(s) : u[i] = s[i]
  BY <1>2, <1>3, AppendByte
<1>5. ASSUME NEW p \in Nat, NEW e \in 1..3, 4 * p + e < 4 * q + r + 1
      PROVE  u[3 * p + e] = Low(DigitAt(t, 4 * p + e), e - 1)
                              + High(DigitAt(t, 4 * p + e + 1), e)
  <2>1. 3 * p + e \in 1..Len(s)
    BY <1>0, <1>5, BytesBefore
  <2>2. u[3 * p + e] = s[3 * p + e]
    BY <1>4, <2>1
  <2> QED
    BY <1>5, <2>2 DEF Complete
<1>6. Complete(u, t, 4 * q + r + 1)
  BY <1>5 DEF Complete
<1>7. Begun(u, t, q, r + 1)
  <2>1. u[3 * q + (r + 1)] = c
    BY <1>0, <1>4
  <2>2. DigitAt(t, 4 * q + (r + 1)) = d /\ (r + 1) - 1 = r
    BY <1>0
  <2> QED
    BY <1>1, <2>1, <2>2 DEF Begun
<1> QED
  BY <1>1, <1>3, <1>6, <1>7

(* The first digit of a group completes nothing.                           *)
LEMMA NothingComplete ==
  ASSUME NEW s, NEW t, NEW q \in Nat, Complete(s, t, 4 * q)
  PROVE  Complete(s, t, 4 * q + 1)
BY BytesBefore DEF Complete

-----------------------------------------------------------------------------
(* Bits.                                                                   *)

(* Bit o of a number of six or eight bits, the highest bit first.          *)
BitOf(x, width, o) == (x \div PowerOfTwo[width - o]) % 2

LEMMA SixBits ==
  ASSUME NEW numbers, NEW i \in Nat, NEW o \in 0..5
  PROVE  Bit(numbers, 6, 6 * i + o) = BitOf(numbers[i + 1], 6, o)
<1>1. (6 * i + o) \div 6 = i /\ (6 * i + o) % 6 = o
  OBVIOUS
<1> QED
  BY <1>1 DEF Bit, BitOf

LEMMA EightBits ==
  ASSUME NEW numbers, NEW i \in Nat, NEW o \in 0..7
  PROVE  Bit(numbers, 8, 8 * i + o) = BitOf(numbers[i + 1], 8, o)
<1>1. (8 * i + o) \div 8 = i /\ (8 * i + o) % 8 = o
  OBVIOUS
<1> QED
  BY <1>1 DEF Bit, BitOf

LEMMA Bits ==
  ASSUME NEW x
  PROVE  /\ BitOf(x, 6, 0) = (x \div 32) % 2 /\ BitOf(x, 6, 1) = (x \div 16) % 2
         /\ BitOf(x, 6, 2) = (x \div 8) % 2  /\ BitOf(x, 6, 3) = (x \div 4) % 2
         /\ BitOf(x, 6, 4) = (x \div 2) % 2  /\ BitOf(x, 6, 5) = (x \div 1) % 2
         /\ BitOf(x, 8, 0) = (x \div 128) % 2
         /\ BitOf(x, 8, 1) = (x \div 64) % 2 /\ BitOf(x, 8, 2) = (x \div 32) % 2
         /\ BitOf(x, 8, 3) = (x \div 16) % 2 /\ BitOf(x, 8, 4) = (x \div 8) % 2
         /\ BitOf(x, 8, 5) = (x \div 4) % 2  /\ BitOf(x, 8, 6) = (x \div 2) % 2
         /\ BitOf(x, 8, 7) = (x \div 1) % 2
BY DEF BitOf, PowerOfTwo

(* The bits of a byte are the last bits of one digit and the first ones of *)
(* the next.                                                               *)
LEMMA ByteOfDigits ==
  ASSUME NEW a \in 0..63, NEW b \in 0..63, NEW e \in 1..3, NEW j \in 0..7
  PROVE  BitOf(Low(a, e - 1) + High(b, e), 8, j) =
           IF 2 * (e - 1) + j < 6 THEN BitOf(a, 6, 2 * (e - 1) + j)
                                  ELSE BitOf(b, 6, 2 * (e - 1) + j - 6)
<1>0. j \in {0, 1, 2, 3, 4, 5, 6, 7}
  OBVIOUS
<1>1. PICK z : z = Low(a, e - 1) + High(b, e)
  OBVIOUS
<1>2. CASE e = 1
  <2>1. PICK h \in 0..3 : h = b \div 16
    OBVIOUS
  <2>2. (a * 4) % 256 = a * 4
    OBVIOUS
  <2>3. z = a * 4 + h
    BY <1>1, <1>2, <2>1, <2>2 DEF Low, High
  <2>4. /\ (z \div 128) % 2 = (a \div 32) % 2
        /\ (z \div 64) % 2 = (a \div 16) % 2
        /\ (z \div 32) % 2 = (a \div 8) % 2
        /\ (z \div 16) % 2 = (a \div 4) % 2
    <3>1. z \div 128 = a \div 32 /\ z \div 64 = a \div 16
      BY <2>1, <2>3
    <3>2. z \div 32 = a \div 8 /\ z \div 16 = a \div 4
      BY <2>1, <2>3
    <3> QED
      BY <3>1, <3>2
  <2>5. /\ (z \div 8) % 2 = (a \div 2) % 2
        /\ (z \div 4) % 2 = (a \div 1) % 2
        /\ (z \div 2) % 2 = (b \div 32) % 2
        /\ (z \div 1) % 2 = (b \div 16) % 2
    BY <2>1, <2>3
  <2>6. /\ BitOf(z, 8, 0) = BitOf(a, 6, 0) /\ BitOf(z, 8, 1) = BitOf(a, 6, 1)
        /\ BitOf(z, 8, 2) = BitOf(a, 6, 2) /\ BitOf(z, 8, 3) = BitOf(a, 6, 3)
        /\ BitOf(z, 8, 4) = BitOf(a, 6, 4) /\ BitOf(z, 8, 5) = BitOf(a, 6, 5)
        /\ BitOf(z, 8, 6) = BitOf(b, 6, 0) /\ BitOf(z, 8, 7) = BitOf(b, 6, 1)
    BY <2>4, <2>5, Bits
  <2> QED
    BY <1>0, <1>1, <1>2, <2>6
<1>3. CASE e = 2
  <2>1. PICK g \in 0..15, h \in 0..15 : g = a % 16 /\ h = b \div 4
    OBVIOUS
  <2>2. (a * 16) % 256 = (a % 16) * 16
    OBVIOUS
  <2>3. z = g * 16 + h
    BY <1>1, <1>3, <2>1, <2>2 DEF Low, High
  <2>4. /\ (z \div 128) % 2 = (a \div 8) % 2
        /\ (z \div 64) % 2 = (a \div 4) % 2
        /\ (z \div 32) % 2 = (a \div 2) % 2
        /\ (z \div 16) % 2 = (a \div 1) % 2
    BY <2>1, <2>3
  <2>5. /\ (z \div 8) % 2 = (b \div 32) % 2
        /\ (z \div 4) % 2 = (b \div 16) % 2
    BY <2>1, <2>3
  <2>6. /\ (z \div 2) % 2 = (b \div 8) % 2
        /\ (z \div 1) % 2 = (b \div 4) % 2
    BY <2>1, <2>3
  <2>7. /\ BitOf(z, 8, 0) = BitOf(a, 6, 2) /\ BitOf(z, 8, 1) = BitOf(a, 6, 3)
        /\ BitOf(z, 8, 2) = BitOf(a, 6, 4) /\ BitOf(z, 8, 3) = BitOf(a, 6, 5)
        /\ BitOf(z, 8, 4) = BitOf(b, 6, 0) /\ BitOf(z, 8, 5) = BitOf(b, 6, 1)
        /\ BitOf(z, 8, 6) = BitOf(b, 6, 2) /\ BitOf(z, 8, 7) = BitOf(b, 6, 3)
    <3>1. /\ BitOf(z, 8, 0) = BitOf(a, 6, 2) /\ BitOf(z, 8, 1) = BitOf(a, 6, 3)
          /\ BitOf(z, 8, 2) = BitOf(a, 6, 4) /\ BitOf(z, 8, 3) = BitOf(a, 6, 5)
      BY <2>4, Bits
    <3>2. /\ BitOf(z, 8, 4) = BitOf(b, 6, 0) /\ BitOf(z, 8, 5) = BitOf(b, 6, 1)
          /\ BitOf(z, 8, 6) = BitOf(b, 6, 2) /\ BitOf(z, 8, 7) = BitOf(b, 6, 3)
      BY <2>5, <2>6, Bits
    <3> QED
      BY <3>1, <3>2
  <2> QED
    BY <1>0, <1>1, <1>3, <2>7
<1>4. CASE e = 3
  <2>1. PICK g \in 0..3 : g = a % 4
    OBVIOUS
  <2>2. (a * 64) % 256 = (a % 4) * 64
    OBVIOUS
  <2>3. z = g * 64 + b
    BY <1>1, <1>4, <2>1, <2>2 DEF Low, High
  <2>4. /\ (z \div 128) % 2 = (a \div 2) % 2
        /\ (z \div 64) % 2 = (a \div 1) % 2
        /\ (z \div 32) % 2 = (b \div 32) % 2
        /\ (z \div 16) % 2 = (b \div 16) % 2
    BY <2>1, <2>3
  <2>5. /\ (z \div 8) % 2 = (b \div 8) % 2
        /\ (z \div 4) % 2 = (b \div 4) % 2
        /\ (z \div 2) % 2 = (b \div 2) % 2
        /\ (z \div 1) % 2 = (b \div 1) % 2
    BY <2>1, <2>3
  <2>6. /\ BitOf(z, 8, 0) = BitOf(a, 6, 4) /\ BitOf(z, 8, 1) = BitOf(a, 6, 5)
        /\ BitOf(z, 8, 2) = BitOf(b, 6, 0) /\ BitOf(z, 8, 3) = BitOf(b, 6, 1)
        /\ BitOf(z, 8, 4) = BitOf(b, 6, 2) /\ BitOf(z, 8, 5) = BitOf(b, 6, 3)
        /\ BitOf(z, 8, 6) = BitOf(b, 6, 4) /\ BitOf(z, 8, 7) = BitOf(b, 6, 5)
    BY <2>4, <2>5, Bits
  <2> QED
    BY <1>0, <1>1, <1>4, <2>6
<1> QED
  BY <1>2, <1>3, <1>4

(* The digits of a text, as a sequence.                                    *)
LEMMA DigitsType ==
  ASSUME NEW t \in Seq(Byte), NEW n \in Nat, n = WithoutPadding(t), n <= Len(t)
  PROVE  /\ Len(Digits(t)) = n
         /\ \A i \in 1..n : Digits(t)[i] = DigitAt(t, i)
         /\ \A i \in 1..n : DigitAt(t, i) \in 0..64
<1>1. Digits(t) = [i \in 1..n |-> DigitAt(t, i)]
  BY DEF Digits, DigitAt
<1>2. ASSUME NEW i \in 1..n PROVE DigitAt(t, i) \in 0..64
  <2>1. t[i] \in Byte
    BY LenProperties
  <2> QED
    BY <2>1, ReverseLookup DEF DigitAt
<1>3. Digits(t) \in [1..n -> 0..64] /\ DOMAIN Digits(t) = 1..n
  <2>1. [i \in 1..n |-> DigitAt(t, i)] \in [1..n -> 0..64]
    BY <1>2, Zenon
  <2> QED
    BY <1>1, <2>1, Zenon
<1>4. Len(Digits(t)) = n
  <2>1. Digits(t) \in Seq(0..64)
    <3>1. [1..n -> 0..64] \in {[1..k -> 0..64] : k \in Nat}
      OBVIOUS
    <3>2. Seq(0..64) = UNION {[1..k -> 0..64] : k \in Nat}
      BY SeqDef
    <3> QED
      BY <1>3, <3>1, <3>2
  <2> QED
    BY <1>3, <2>1, LenProperties
<1> QED
  BY <1>1, <1>2, <1>4

(* 4q + r + 1 digits are 3q + r bytes and a rest of less than a digit.     *)
LEMMA BitCounts ==
  ASSUME NEW q \in Nat, NEW r \in 1..3
  PROVE  /\ (6 * (4 * q + r + 1)) \div 8 = 3 * q + r
         /\ (4 * q + r + 1) % 4 # 1
         /\ r = 1 => /\ 8 * (3 * q + r) = 24 * q + 8
                     /\ 6 * (4 * q + r + 1) - 1 = 24 * q + 11
         /\ r = 2 => /\ 8 * (3 * q + r) = 24 * q + 16
                     /\ 6 * (4 * q + r + 1) - 1 = 24 * q + 17
         /\ r = 3 => 6 * (4 * q + r + 1) - 1 < 8 * (3 * q + r)
<1>1. CASE r = 1
  BY <1>1
<1>2. CASE r = 2
  BY <1>2
<1>3. CASE r = 3
  BY <1>3
<1> QED
  BY <1>1, <1>2, <1>3

(* The bits behind the last byte are zero exactly if decodeLast finds no   *)
(* remainder.                                                              *)
LEMMA TailBits ==
  ASSUME NEW d, NEW q \in Nat, NEW r \in 1..3, NEW x \in 0..63,
         x = d[4 * q + r + 1]
  PROVE  (\A k \in (8 * (3 * q + r))..(6 * (4 * q + r + 1) - 1) :
            Bit(d, 6, k) = 0)
         <=> (r = 1 => x % 16 = 0) /\ (r = 2 => x % 4 = 0)
<1>1. CASE r = 1
  <2>1. 24 * q + 8 = 6 * (4 * q + 1) + 2 /\ 24 * q + 9 = 6 * (4 * q + 1) + 3
        /\ 24 * q + 10 = 6 * (4 * q + 1) + 4 /\ 24 * q + 11 = 6 * (4 * q + 1) + 5
        /\ 4 * q + 1 \in Nat
    OBVIOUS
  <2>2. d[(4 * q + 1) + 1] = x
    BY <1>1
  <2>3. /\ Bit(d, 6, 24 * q + 8) = (x \div 8) % 2
        /\ Bit(d, 6, 24 * q + 9) = (x \div 4) % 2
        /\ Bit(d, 6, 24 * q + 10) = (x \div 2) % 2
        /\ Bit(d, 6, 24 * q + 11) = (x \div 1) % 2
    <3>1. PICK p \in Nat : p = 4 * q + 1
      BY <2>1
    <3>2. \A o \in 0..5 : Bit(d, 6, 6 * p + o) = BitOf(x, 6, o)
      BY <2>2, <3>1, SixBits
    <3> QED
      BY <2>1, <3>1, <3>2, Bits
  <2>4. x % 16 = 0 <=> /\ (x \div 8) % 2 = 0 /\ (x \div 4) % 2 = 0
                       /\ (x \div 2) % 2 = 0 /\ (x \div 1) % 2 = 0
    OBVIOUS
  <2>5. \A k : k \in (24 * q + 8)..(24 * q + 11) <=>
                 k \in {24 * q + 8, 24 * q + 9, 24 * q + 10, 24 * q + 11}
    OBVIOUS
  <2>6. (8 * (3 * q + r))..(6 * (4 * q + r + 1) - 1) = (24 * q + 8)..(24 * q + 11)
    <3>1. /\ 8 * (3 * q + r) = 24 * q + 8
          /\ 6 * (4 * q + r + 1) - 1 = 24 * q + 11
      BY <1>1
    <3> QED
      BY <3>1, Zenon
  <2>7. (\A k \in (24 * q + 8)..(24 * q + 11) : Bit(d, 6, k) = 0)
          <=> /\ (x \div 8) % 2 = 0 /\ (x \div 4) % 2 = 0
              /\ (x \div 2) % 2 = 0 /\ (x \div 1) % 2 = 0
    BY <2>3, <2>5, Zenon
  <2>8. r # 2
    BY <1>1
  <2> QED
    BY <1>1, <2>4, <2>6, <2>7, <2>8, Zenon
<1>2. CASE r = 2
  <2>1. 24 * q + 16 = 6 * (4 * q + 2) + 4 /\ 24 * q + 17 = 6 * (4 * q + 2) + 5
        /\ 4 * q + 2 \in Nat
    OBVIOUS
  <2>2. d[(4 * q + 2) + 1] = x
    BY <1>2
  <2>3. /\ Bit(d, 6, 24 * q + 16) = (x \div 2) % 2
        /\ Bit(d, 6, 24 * q + 17) = (x \div 1) % 2
    <3>1. PICK p \in Nat : p = 4 * q + 2
      BY <2>1
    <3>2. \A o \in 0..5 : Bit(d, 6, 6 * p + o) = BitOf(x, 6, o)
      BY <2>2, <3>1, SixBits
    <3> QED
      BY <2>1, <3>1, <3>2, Bits
  <2>4. x % 4 = 0 <=> (x \div 2) % 2 = 0 /\ (x \div 1) % 2 = 0
    OBVIOUS
  <2>5. \A k : k \in (24 * q + 16)..(24 * q + 17) <=>
                 k \in {24 * q + 16, 24 * q + 17}
    OBVIOUS
  <2>6. (8 * (3 * q + r))..(6 * (4 * q + r + 1) - 1) = (24 * q + 16)..(24 * q + 17)
    BY <1>2, BitCounts
  <2> QED
    BY <1>2, <2>3, <2>4, <2>5, <2>6
<1>3. CASE r = 3
  <2>1. (8 * (3 * q + r))..(6 * (4 * q + r + 1) - 1) = {}
    BY <1>3, BitCounts
  <2> QED
    BY <1>3, <2>1
<1> QED
  BY <1>1, <1>2, <1>3

(* Where bit o of byte 3p + e is found among the digits.                   *)
LEMMA BitPosition ==
  ASSUME NEW p \in Nat, NEW e \in 1..3, NEW o \in 0..7
  PROVE  /\ 2 * (e - 1) + o \in 0..11
         /\ 8 * (3 * p + e - 1) + o = 6 * (4 * p + e - 1) + (2 * (e - 1) + o)
         /\ 8 * (3 * p + e - 1) + o = 6 * (4 * p + e) + (2 * (e - 1) + o - 6)
         /\ 4 * p + e - 1 \in Nat /\ 4 * p + e \in Nat
         /\ (4 * p + e - 1) + 1 = 4 * p + e
OBVIOUS

(* Byte 3p + e of u is made of two of the digits d.                        *)
MadeOf(d, u, p, e) ==
  /\ p \in Nat /\ e \in 1..3
  /\ d[4 * p + e] \in 0..63 /\ d[4 * p + e + 1] \in 0..63
  /\ u[3 * p + e] = Low(d[4 * p + e], e - 1) + High(d[4 * p + e + 1], e)

SameBit(d, u, k) == Bit(d, 6, k) = Bit(u, 8, k)

LEMMA BitOfComplete ==
  ASSUME NEW d, NEW u, NEW p, NEW e, MadeOf(d, u, p, e), NEW o \in 0..7
  PROVE  SameBit(d, u, 8 * (3 * p + e - 1) + o)
<1>0. /\ p \in Nat /\ e \in 1..3
      /\ d[4 * p + e] \in 0..63 /\ d[4 * p + e + 1] \in 0..63
      /\ u[3 * p + e] = Low(d[4 * p + e], e - 1) + High(d[4 * p + e + 1], e)
  BY DEF MadeOf
<1>1. PICK a \in 0..63, b \in 0..63 : a = d[4 * p + e] /\ b = d[4 * p + e + 1]
  BY <1>0
<1>2. PICK k \in Nat : k = 8 * (3 * p + e - 1) + o
  BY <1>0
<1>3. Bit(u, 8, k) = BitOf(Low(a, e - 1) + High(b, e), 8, o)
  <2>1. PICK i \in Nat : i = 3 * p + e - 1 /\ i + 1 = 3 * p + e
    BY <1>0
  <2>2. Bit(u, 8, 8 * i + o) = BitOf(u[i + 1], 8, o)
    BY EightBits
  <2> QED
    BY <1>0, <1>1, <1>2, <2>1, <2>2
<1>4. PICK c \in 0..11 : c = 2 * (e - 1) + o
  BY <1>0, BitPosition
<1>5. CASE c < 6
  <2>1. PICK i \in Nat : i = 4 * p + e - 1 /\ i + 1 = 4 * p + e
    BY <1>0, BitPosition
  <2>2. k = 6 * i + c /\ c \in 0..5
    BY <1>2, <1>4, <1>5, <1>0, <2>1, BitPosition
  <2>3. Bit(d, 6, k) = BitOf(a, 6, c)
    BY <1>1, <2>1, <2>2, SixBits
  <2> QED
    BY <1>0, <1>2, <1>3, <1>4, <1>5, <2>3, ByteOfDigits DEF SameBit
<1>6. CASE ~(c < 6)
  <2>1. PICK i \in Nat : i = 4 * p + e /\ i + 1 = 4 * p + e + 1
    BY <1>0, BitPosition
  <2>2. PICK f \in 0..5 : f = c - 6
    BY <1>6
  <2>3. k = 6 * i + f
    BY <1>2, <1>4, <1>0, <2>1, <2>2, BitPosition
  <2>4. Bit(d, 6, k) = BitOf(b, 6, f)
    BY <1>1, <2>1, <2>3, SixBits
  <2>5. BitOf(Low(a, e - 1) + High(b, e), 8, o) = BitOf(b, 6, f)
    <3>1. ~(2 * (e - 1) + o < 6) /\ 2 * (e - 1) + o - 6 = f
      BY <1>0, <1>4, <1>6, <2>2
    <3>2. BitOf(Low(a, e - 1) + High(b, e), 8, o) =
            IF 2 * (e - 1) + o < 6 THEN BitOf(a, 6, 2 * (e - 1) + o)
                                   ELSE BitOf(b, 6, 2 * (e - 1) + o - 6)
      BY <1>0, ByteOfDigits, Zenon
    <3> QED
      BY <3>1, <3>2, Zenon
  <2> QED
    BY <1>2, <1>3, <2>4, <2>5 DEF SameBit
<1> QED
  BY <1>5, <1>6

(* What decodeLast accepts is canonical, and the bytes are its bits.       *)
LEMMA BytesDenote ==
  ASSUME NEW t \in Seq(Byte), NEW u \in Seq(Byte), NEW q \in Nat, NEW r \in 1..3,
         WithoutPadding(t) = 4 * q + r + 1, 4 * q + r + 1 <= Len(t),
         \A i \in 1..(4 * q + r + 1) : DigitAt(t, i) # 64,
         Complete(u, t, 4 * q + r + 1), Len(u) = 3 * q + r,
         r = 1 => DigitAt(t, 4 * q + r + 1) % 16 = 0,
         r = 2 => DigitAt(t, 4 * q + r + 1) % 4 = 0
  PROVE  Canonical(t) /\ Denotes(Digits(t), u)
<1>1. PICK n \in Nat : n = 4 * q + r + 1
  OBVIOUS
<1>2. PICK d : d = Digits(t)
  OBVIOUS
<1>3. /\ Len(d) = n
      /\ \A i \in 1..n : d[i] = DigitAt(t, i) /\ d[i] \in 0..64
  BY <1>1, <1>2, DigitsType
<1>4. \A i \in 1..n : d[i] \in 0..63 /\ d[i] # 64
  BY <1>1, <1>3
<1>5. /\ (6 * n) \div 8 = 3 * q + r /\ n % 4 # 1
  BY <1>1, BitCounts
<1>6. \A k \in (8 * (3 * q + r))..(6 * n - 1) : Bit(d, 6, k) = 0
  <2>1. PICK x \in 0..63 : x = d[n]
    <3>1. n \in 1..n
      BY <1>1
    <3> QED
      BY <1>4, <3>1
  <2>2. (r = 1 => x % 16 = 0) /\ (r = 2 => x % 4 = 0)
    BY <1>1, <1>3, <2>1
  <2> QED
    BY <1>1, <2>1, <2>2, TailBits
<1>7. Canonical(t)
  BY <1>2, <1>3, <1>4, <1>5, <1>6 DEF Canonical
<1>8. ASSUME NEW k \in 0..(8 * (3 * q + r) - 1)
      PROVE  Bit(d, 6, k) = Bit(u, 8, k)
  <2>1. PICK i \in Nat, o \in 0..7 : k = 8 * i + o
    <3>1. k \div 8 \in Nat /\ k % 8 \in 0..7 /\ k = 8 * (k \div 8) + (k % 8)
      OBVIOUS
    <3> QED
      BY <3>1
  <2>2. PICK p \in Nat, s \in 0..2 : i = 3 * p + s
    BY InThrees
  <2>3. PICK e \in 1..3 : e = s + 1
    OBVIOUS
  <2>4. /\ i = 3 * p + e - 1 /\ i < 3 * q + r
    BY <1>8, <2>1, <2>2, <2>3
  <2>5. 4 * p + e < 4 * q + r + 1 /\ 4 * p + e \in 1..n /\ 4 * p + e + 1 \in 1..n
    BY <1>1, <2>4
  <2>6. u[3 * p + e] = Low(DigitAt(t, 4 * p + e), e - 1)
                         + High(DigitAt(t, 4 * p + e + 1), e)
    BY <2>5 DEF Complete
  <2>7. /\ d[4 * p + e] = DigitAt(t, 4 * p + e) /\ d[4 * p + e] \in 0..63
        /\ d[4 * p + e + 1] = DigitAt(t, 4 * p + e + 1)
        /\ d[4 * p + e + 1] \in 0..63
    BY <1>3, <1>4, <2>5
  <2>8. u[3 * p + e] = Low(d[4 * p + e], e - 1) + High(d[4 * p + e + 1], e)
    BY <2>6, <2>7
  <2>9. MadeOf(d, u, p, e)
    BY <2>2, <2>3, <2>7, <2>8 DEF MadeOf
  <2>10. SameBit(d, u, 8 * (3 * p + e - 1) + o)
    BY <2>1, <2>9, BitOfComplete
  <2>11. SameBit(d, u, k)
    BY <2>1, <2>4, <2>10
  <2> QED
    BY <2>11 DEF SameBit
<1>9. Denotes(d, u)
  BY <1>3, <1>5, <1>6, <1>8 DEF Denotes
<1> QED
  BY <1>2, <1>7, <1>9

(* What decodeLast does not accept is not canonical.                       *)
LEMMA NotCanonical ==
  ASSUME NEW t \in Seq(Byte), NEW q \in Nat, NEW r \in 0..3,
         WithoutPadding(t) = 4 * q + r + 1, 4 * q + r + 1 <= Len(t),
         DigitAt(t, 4 * q + r + 1) # 64,
         \/ r = 0
         \/ r = 1 /\ DigitAt(t, 4 * q + r + 1) % 16 # 0
         \/ r = 2 /\ DigitAt(t, 4 * q + r + 1) % 4 # 0
  PROVE  ~Canonical(t)
<1>1. PICK n \in Nat : n = 4 * q + r + 1 /\ n \in 1..n
  OBVIOUS
<1>2. PICK d : d = Digits(t)
  OBVIOUS
<1>3. /\ Len(d) = n
      /\ \A i \in 1..n : d[i] = DigitAt(t, i) /\ d[i] \in 0..64
  BY <1>1, <1>2, DigitsType
<1>4. CASE r = 0
  <2>1. n % 4 = 1
    BY <1>1, <1>4
  <2> QED
    BY <1>2, <1>3, <2>1 DEF Canonical
<1>5. CASE r # 0
  <2>1. PICK x \in 0..63 : x = d[n] /\ x = DigitAt(t, 4 * q + r + 1)
    <3>1. d[n] = DigitAt(t, 4 * q + r + 1) /\ d[n] \in 0..64 /\ d[n] # 64
      BY <1>1, <1>3
    <3>2. d[n] \in 0..63
      BY <3>1
    <3> QED
      BY <3>1, <3>2
  <2>2. ~((r = 1 => x % 16 = 0) /\ (r = 2 => x % 4 = 0))
    BY <1>5, <2>1
  <2>3. (6 * n) \div 8 = 3 * q + r /\ r \in 1..3
    BY <1>1, <1>5, BitCounts
  <2>4. ~(\A k \in (8 * (3 * q + r))..(6 * n - 1) : Bit(d, 6, k) = 0)
    BY <1>1, <2>1, <2>2, <2>3, TailBits
  <2> QED
    BY <1>2, <1>3, <2>3, <2>4 DEF Canonical
<1> QED
  BY <1>4, <1>5

(* An invalid character is not canonical either.                           *)
LEMMA InvalidDigit ==
  ASSUME NEW t \in Seq(Byte), NEW i, i \in 1..WithoutPadding(t),
         WithoutPadding(t) \in 0..Len(t), DigitAt(t, i) = 64
  PROVE  ~Canonical(t)
<1>1. PICK n \in Nat : n = WithoutPadding(t) /\ n <= Len(t)
  BY LenProperties
<1>2. PICK d : d = Digits(t)
  OBVIOUS
<1>3. Len(d) = n /\ d[i] = 64 /\ i \in 1..n
  BY <1>1, <1>2, DigitsType
<1> QED
  BY <1>2, <1>3 DEF Canonical

(* Text without digits means nothing, and nothing is what it decodes to.   *)
LEMMA NoDigits ==
  ASSUME NEW t \in Seq(Byte), WithoutPadding(t) = 0
  PROVE  Denotes(Digits(t), <<>>)
<1>1. Len(t) \in Nat
  BY LenProperties
<1>2. PICK d : d = Digits(t)
  OBVIOUS
<1>3. Len(d) = 0
  BY <1>1, <1>2, DigitsType
<1>4. (6 * 0) \div 8 = 0 /\ 0..(8 * 0 - 1) = {} /\ (8 * 0)..(6 * 0 - 1) = {}
  OBVIOUS
<1>5. Len(<<>>) = 0
  BY EmptySeq
<1> QED
  BY <1>2, <1>3, <1>4, <1>5 DEF Denotes

-----------------------------------------------------------------------------
(* The steps of the decoder, once more.                                    *)

LEMMA InitExactInv == CodecInit => ReadInv /\ DecodeExact
<1> SUFFICES ASSUME CodecInit PROVE ReadInv /\ DecodeExact
  OBVIOUS
<1>1. pos = 0 /\ phase \in {"encode", "decode_foreign"}
  BY DEF CodecInit
<1>2. Complete(ret, text, 0)
  <2>1. \A p \in Nat, e \in 1..3 : ~(4 * p + e < 0)
    OBVIOUS
  <2> QED
    BY <2>1 DEF Complete
<1>3. \A q \in Nat, r \in 0..3 : Place(0, q, r) => r = 0
  BY DEF Place
<1>4. ReadInv
  BY <1>1, <1>2, <1>3 DEF ReadInv, Begun
<1> QED
  BY <1>1, <1>4 DEF DecodeExact

LEMMA EncodeLastExact ==
  ASSUME CodecInv, EncodeLast
  PROVE  ReadInv' /\ DecodeExact'
<1>1. pos' = 0 /\ phase' = "decode_own"
  BY DEF EncodeLast
<1>2. PICK s : s = ret'
  OBVIOUS
<1>3. PICK t : t = text'
  OBVIOUS
<1>4. Complete(s, t, 0)
  <2>1. \A p \in Nat, e \in 1..3 : ~(4 * p + e < 0)
    OBVIOUS
  <2> QED
    BY <2>1 DEF Complete
<1>5. \A q \in Nat, r \in 0..3 : Place(0, q, r) => Begun(s, t, q, r)
  BY DEF Place, Begun
<1>6. \A i \in 1..0 : DigitAt(t, i) # 64
  OBVIOUS
<1> QED
  BY <1>1, <1>2, <1>3, <1>4, <1>5, <1>6 DEF ReadInv, DecodeExact

LEMMA DecodeEmptyExact ==
  ASSUME CodecInv, DecodeEmpty
  PROVE  ReadInv' /\ DecodeExact'
<1>1. text = <<>> /\ text' = text /\ ret' = <<>> /\ ~Decoding'
  BY DEF DecodeEmpty, Done, Decoding
<1>2. text \in Seq(Byte) /\ WithoutPadding(text) = 0
  BY <1>1, EmptySeq DEF CodecInv, CodecTypeOK, WithoutPadding
<1>3. Denotes(Digits(text), <<>>)
  BY <1>2, NoDigits
<1> QED
  BY <1>1, <1>3 DEF ReadInv, DecodeExact

LEMMA DecodeInvalidExact ==
  ASSUME CodecInv, DecodeInvalid
  PROVE  ReadInv' /\ DecodeExact'
<1>1. /\ Decoding /\ text # <<>> /\ cur_digit = 64
      /\ text' = text /\ ret' = <<>> /\ ~Decoding'
  BY DEF DecodeInvalid, Done, Decoding
<1>2. text \in Seq(Byte) /\ pos \in Nat /\ WithoutPadding(text) \in 0..Len(text)
  BY <1>1, WithoutPaddingBounds DEF CodecInv, CodecTypeOK
<1>3. CASE WithoutPadding(text) = 0
  <2>1. Denotes(Digits(text), <<>>)
    BY <1>2, <1>3, NoDigits
  <2> QED
    BY <1>1, <2>1 DEF ReadInv, DecodeExact
<1>4. CASE WithoutPadding(text) # 0
  <2>1. PICK n \in Nat : n = WithoutPadding(text) /\ n # 0
    <3>1. Len(text) \in Nat
      BY <1>2
    <3> QED
      BY <1>2, <1>4, <3>1
  <2>2. pos = 0 \/ pos < n
    BY <1>1, <2>1 DEF CodecInv, DecodeInv
  <2>3. pos + 1 \in 1..n
    BY <1>2, <2>1, <2>2
  <2>4. DigitAt(text, pos + 1) = 64
    BY <1>1 DEF cur_digit, DigitAt
  <2>5. ~Canonical(text)
    BY <1>2, <2>1, <2>3, <2>4, InvalidDigit
  <2> QED
    BY <1>1, <2>5 DEF ReadInv, DecodeExact
<1> QED
  BY <1>3, <1>4

(* What is known of the bytes and the digit before a step of either loop.  *)
LEMMA ReadSoFar ==
  ASSUME CodecInv, ReadInv, Decoding, text # <<>>, pos <= Last(text),
         cur_digit # 64
  PROVE  \E q \in Nat, r \in 0..3, d \in 0..63 :
           /\ pos = 4 * q + r /\ pos % 4 = r /\ d = cur_digit
           /\ d = DigitAt(text, 4 * q + r + 1)
           /\ Partial(ret, q, r) /\ ret \in Seq(Byte)
           /\ Complete(ret, text, 4 * q + r) /\ Begun(ret, text, q, r)
<1>1. PICK q \in Nat, r \in 0..3 :
        /\ Place(pos, q, r) /\ pos % 4 = r /\ cur_digit \in 0..63
        /\ Partial(ret, q, r)
  BY NextDigit
<1>2. pos = 4 * q + r
  BY <1>1 DEF Place
<1>3. cur_digit = DigitAt(text, 4 * q + r + 1)
  BY <1>2 DEF cur_digit, DigitAt
<1>4. Complete(ret, text, 4 * q + r) /\ Begun(ret, text, q, r)
  BY <1>1, <1>2 DEF ReadInv
<1>5. ret \in Seq(Byte)
  BY DEF CodecInv, CodecTypeOK
<1> QED
  BY <1>1, <1>2, <1>3, <1>4, <1>5

LEMMA DecodeBaseExact ==
  ASSUME CodecInv, ReadInv, DecodeBase
  PROVE  ReadInv' /\ DecodeExact'
<1>1. /\ Decoding /\ text # <<>> /\ pos < Last(text) /\ cur_digit # 64
      /\ pos' = pos + 1 /\ text' = text /\ phase' = phase
  BY DEF DecodeBase
<1>2. pos <= Last(text) /\ pos \in Nat
  <2>1. pos \in Nat /\ text \in Seq(Byte)
    BY DEF CodecInv, CodecTypeOK
  <2>2. Last(text) \in Int
    <3>1. Len(text) \in Nat /\ WithoutPadding(text) \in 0..Len(text)
      BY <1>1, <2>1, WithoutPaddingBounds
    <3>2. /\ SizeModulus \in Nat \ {0}
          /\ WithoutPadding(text) + SizeModulus - 1 \in Int
      BY <3>1, Base64Assumption
    <3> QED
      BY <3>2 DEF Last
  <2> QED
    BY <1>1, <2>1, <2>2
<1>3. PICK q \in Nat, r \in 0..3, d \in 0..63 :
        /\ pos = 4 * q + r /\ pos % 4 = r /\ d = cur_digit
        /\ d = DigitAt(text, 4 * q + r + 1)
        /\ Partial(ret, q, r) /\ ret \in Seq(Byte)
        /\ Complete(ret, text, 4 * q + r) /\ Begun(ret, text, q, r)
  BY <1>1, <1>2, ReadSoFar
<1>4. PICK u : u = ret'
  OBVIOUS
<1>5. Behind(Len(ret), q, r)
  BY <1>3 DEF Partial, Behind
<1> DEFINE Next(p, s) == /\ pos + 1 = 4 * p + s
                         /\ Complete(u, text, pos + 1) /\ Begun(u, text, p, s)
           SomeNext == \E p \in Nat, s \in 0..3 : Next(p, s)
<1>6. ASSUME r = 0 PROVE SomeNext
  <2>1. u = Append(ret, Low(d, r))
    BY <1>3, <1>4, <1>6 DEF DecodeBase, Low
  <2>2. Complete(ret, text, 4 * q + r + 1)
    BY <1>3, <1>6, NothingComplete
  <2>r. r # 3 /\ Behind(Len(ret), q, r)
    BY <1>5, <1>6
  <2>3. Complete(u, text, 4 * q + r + 1) /\ Begun(u, text, q, r + 1)
    BY <1>3, <2>1, <2>2, <2>r, CompleteLow
  <2>4. pos + 1 = 4 * q + (r + 1) /\ r + 1 \in 0..3 /\ pos + 1 = 4 * q + r + 1
    BY <1>3, <1>6
  <2> QED
    BY <1>3, <2>3, <2>4
<1>7. ASSUME r \in 1..2 PROVE SomeNext
  <2>1. PICK v : v = OrLast(ret, High(d, r))
    OBVIOUS
  <2>2. u = Append(v, Low(d, r))
    <3>1. CASE r = 1
      BY <1>3, <1>4, <2>1, <3>1 DEF DecodeBase, Low, High, OrBack, OrLast
    <3>2. CASE r = 2
      BY <1>3, <1>4, <2>1, <3>2 DEF DecodeBase, Low, High, OrBack, OrLast
    <3> QED
      BY <1>7, <3>1, <3>2
  <2>3. r \in 1..3 /\ r # 3
    BY <1>7
  <2>4. Complete(v, text, 4 * q + r + 1)
    BY <1>3, <2>1, <2>3, CompleteHigh
  <2>5. v \in Seq(Byte) /\ Behind(Len(v), q, r)
    BY <1>3, <1>5, <2>1, <2>3, HighPart
  <2>6. Complete(u, text, 4 * q + r + 1) /\ Begun(u, text, q, r + 1)
    BY <1>3, <2>2, <2>3, <2>4, <2>5, CompleteLow
  <2>7. pos + 1 = 4 * q + (r + 1) /\ r + 1 \in 0..3 /\ pos + 1 = 4 * q + r + 1
    BY <1>3, <1>7
  <2> QED
    BY <1>3, <2>6, <2>7
<1>8. ASSUME r = 3 PROVE SomeNext
  <2>1. u = OrLast(ret, High(d, r))
    BY <1>3, <1>4, <1>8 DEF DecodeBase, High, OrBack, OrLast
  <2>2. r \in 1..3
    BY <1>8
  <2>3. Complete(u, text, 4 * q + r + 1)
    BY <1>3, <2>1, <2>2, CompleteHigh
  <2>4. /\ pos + 1 = 4 * (q + 1) + 0 /\ pos + 1 = 4 * q + r + 1
        /\ q + 1 \in Nat /\ 0 \in 0..3
    BY <1>3, <1>8
  <2>5. Begun(u, text, q + 1, 0)
    BY DEF Begun
  <2> QED
    BY <2>3, <2>4, <2>5
<1>9. PICK p \in Nat, s \in 0..3 : Next(p, s)
  <2>1. r = 0 \/ r \in 1..2 \/ r = 3
    OBVIOUS
  <2> QED
    BY <1>6, <1>7, <1>8, <2>1
<1>10. \A k \in Nat, l \in 0..3 : Place(pos + 1, k, l) => k = p /\ l = s
  BY <1>9, FoursUnique DEF Place
<1>11. ASSUME NEW i \in 1..(pos + 1) PROVE DigitAt(text, i) # 64
  <2>1. CASE i = pos + 1
    BY <1>1, <2>1 DEF cur_digit, DigitAt
  <2>2. CASE i # pos + 1
    <3>1. i \in 1..pos
      BY <1>2, <2>2
    <3> QED
      BY <1>1, <3>1 DEF ReadInv
  <2> QED
    BY <2>1, <2>2
<1>12. ReadInv'
  BY <1>1, <1>4, <1>9, <1>10, <1>11 DEF ReadInv
<1> QED
  BY <1>1, <1>12 DEF DecodeExact, Decoding

LEMMA DecodeLastExact ==
  ASSUME CodecInv, ReadInv, DecodeLast
  PROVE  ReadInv' /\ DecodeExact'
<1>1. /\ Decoding /\ text # <<>> /\ pos = Last(text) /\ cur_digit # 64
      /\ text' = text /\ ~Decoding'
  BY DEF DecodeLast, Done, Decoding
<1>2. pos \in Nat /\ pos <= Last(text) /\ text \in Seq(Byte)
  BY <1>1 DEF CodecInv, CodecTypeOK
<1>3. PICK q \in Nat, r \in 0..3, d \in 0..63 :
        /\ pos = 4 * q + r /\ pos % 4 = r /\ d = cur_digit
        /\ d = DigitAt(text, 4 * q + r + 1)
        /\ Partial(ret, q, r) /\ ret \in Seq(Byte)
        /\ Complete(ret, text, 4 * q + r) /\ Begun(ret, text, q, r)
  BY <1>1, <1>2, ReadSoFar
<1>4. WithoutPadding(text) = 4 * q + r + 1 /\ 4 * q + r + 1 <= Len(text)
  <2>1. /\ WithoutPadding(text) \in 1..Len(text)
        /\ pos = WithoutPadding(text) - 1
    BY <1>1, <1>2, ReadPosition
  <2> QED
    BY <1>2, <1>3, <2>1
<1>5. PICK u : u = OrLast(ret, High(d, r))
  OBVIOUS
<1>6. \/ ret' = <<>> /\ (r = 0 \/ (r = 1 /\ d % 16 # 0) \/ (r = 2 /\ d % 4 # 0))
      \/ /\ ret' = u /\ r # 0
         /\ (r = 1 => d % 16 = 0) /\ (r = 2 => d % 4 = 0)
  <2>1. CASE r = 0
    <3>1. Done(<<>>)
      BY <1>3, <2>1 DEF DecodeLast
    <3> QED
      BY <2>1, <3>1 DEF Done
  <2>2. CASE r = 1
    BY <1>3, <1>5, <2>2 DEF DecodeLast, Done, High, OrBack, OrLast
  <2>3. CASE r = 2
    BY <1>3, <1>5, <2>3 DEF DecodeLast, Done, High, OrBack, OrLast
  <2>4. CASE r = 3
    BY <1>3, <1>5, <2>4 DEF DecodeLast, Done, High, OrBack, OrLast
  <2> QED
    BY <2>1, <2>2, <2>3, <2>4
<1>7. CASE ret' = <<>> /\ (r = 0 \/ (r = 1 /\ d % 16 # 0) \/ (r = 2 /\ d % 4 # 0))
  <2>1. DigitAt(text, 4 * q + r + 1) # 64
    BY <1>1, <1>3
  <2>2. ~Canonical(text)
    BY <1>2, <1>3, <1>4, <1>7, <2>1, NotCanonical
  <2> QED
    BY <1>1, <1>7, <2>2 DEF ReadInv, DecodeExact
<1>8. CASE /\ ret' = u /\ r # 0
           /\ (r = 1 => d % 16 = 0) /\ (r = 2 => d % 4 = 0)
  <2>1. r \in 1..3 /\ Len(ret) = 3 * q + r
    BY <1>3, <1>8 DEF Partial
  <2>2. u \in Seq(Byte) /\ Len(u) = 3 * q + r
    BY <1>3, <1>5, <2>1, HighPart
  <2>3. Complete(u, text, 4 * q + r + 1)
    BY <1>3, <1>5, <2>1, CompleteHigh
  <2>4. ASSUME NEW i \in 1..(4 * q + r + 1) PROVE DigitAt(text, i) # 64
    <3>1. CASE i = pos + 1
      BY <1>1, <3>1 DEF cur_digit, DigitAt
    <3>2. CASE i # pos + 1
      <4>1. i \in 1..pos
        BY <1>3, <3>2
      <4> QED
        BY <1>1, <4>1 DEF ReadInv
    <3> QED
      BY <3>1, <3>2
  <2>5. /\ r = 1 => DigitAt(text, 4 * q + r + 1) % 16 = 0
        /\ r = 2 => DigitAt(text, 4 * q + r + 1) % 4 = 0
    BY <1>3, <1>8
  <2>6. Denotes(Digits(text), u)
    BY <1>2, <1>3, <1>4, <2>1, <2>2, <2>3, <2>4, <2>5, BytesDenote
  <2>7. Canonical(text)
    BY <1>2, <1>3, <1>4, <2>1, <2>2, <2>3, <2>4, <2>5, BytesDenote
  <2> QED
    BY <1>1, <1>8, <2>6, <2>7 DEF ReadInv, DecodeExact
<1> QED
  BY <1>6, <1>7, <1>8

LEMMA NextExactInv ==
  ASSUME CodecInv, ReadInv, DecodeExact, [CodecNext]_codecVars
  PROVE  ReadInv' /\ DecodeExact'
<1>1. CASE UNCHANGED codecVars
  BY <1>1 DEF codecVars, ReadInv, DecodeExact, Decoding
<1>2. CASE EncodeBase
  BY <1>2 DEF EncodeBase, ReadInv, DecodeExact, Decoding
<1>3. CASE EncodeLast
  BY <1>3, EncodeLastExact
<1>4. CASE DecodeEmpty
  BY <1>4, DecodeEmptyExact
<1>5. CASE DecodeInvalid
  BY <1>5, DecodeInvalidExact
<1>6. CASE DecodeBase
  BY <1>6, DecodeBaseExact
<1>7. CASE DecodeLast
  BY <1>7, DecodeLastExact
<1> QED
  BY <1>1, <1>2, <1>3, <1>4, <1>5, <1>6, <1>7 DEF CodecNext, CodecReturned

(* decodeWithoutPadding returns the bytes a text denotes, bit by bit, if   *)
(* the text is canonical, and "" for every other text, whatever its length *)
(* and whoever wrote it.                                                   *)
THEOREM DecoderIsExact == CodecSpec => []DecodeExact
<1>1. CodecInit => CodecInv /\ ReadInv /\ DecodeExact
  BY InitCodecInv, InitExactInv
<1>2. CodecInv /\ ReadInv /\ DecodeExact /\ [CodecNext]_codecVars
        => (CodecInv /\ ReadInv /\ DecodeExact)'
  BY NextCodecInv, NextExactInv
<1> QED
  BY <1>1, <1>2, PTL DEF CodecSpec
=============================================================================
