------------------------------- MODULE Base64 -------------------------------
(***************************************************************************)
(* Base64::encode and Base64::decodeWithoutPadding (source/utils/base64.h),*)
(* which carry the text fields of the sw8 header. Bytes and characters are *)
(* numbers, characters by their ASCII codes. The loops are state machines: *)
(* one action is one iteration. Every | of the code joins operands that    *)
(* have no bit in common (RoundTrip and DecodeExact would fail if they     *)
(* had) and is written +; shifts of a char keep its width of eight bits.   *)
(*                                                                         *)
(* A behaviour encodes some bytes and decodes the result, or decodes text  *)
(* that comes from elsewhere.                                              *)
(***************************************************************************)
EXTENDS Naturals, Sequences

CONSTANTS
  Inputs,       \* arguments of encode
  Texts,        \* arguments of decodeWithoutPadding from elsewhere
  SizeModulus   \* size_t and uint64_t wrap at this value, 2^64 in the code

Byte == 0..255

ASSUME Base64Assumption ==
  /\ Inputs \subseteq Seq(Byte) /\ Texts \subseteq Seq(Byte)
  /\ SizeModulus \in Nat \ {0, 1}
  /\ \A t \in Inputs \cup Texts : 2 * Len(t) + 4 < SizeModulus

VARIABLES
  bytes,         \* the argument of encode
  add_padding,   \* the other argument of encode
  text,          \* what encode has built so far, then the text to decode
  ret,           \* what decodeWithoutPadding has built so far, or returned
  next_c,        \* encode: bits waiting for the next character
  pos,           \* the position of either loop
  phase          \* where the behaviour is

codecVars == <<bytes, add_padding, text, ret, next_c, pos, phase>>

Pad == 61         \* '='
HeaderSeparator == 45   \* '-', the separator of the header

(* Plausible bug: the URL-safe alphabet.                                   *)
UrlSafeTable(i) ==
  CASE i < 26 -> i + 65 [] i \in 26..51 -> i + 71 [] i \in 52..61 -> i - 4
    [] i = 62 -> HeaderSeparator   [] OTHER -> 95

(* CHAR_TABLE: A-Z, a-z, 0-9, +, /.                                        *)
CHAR_TABLE(i) ==
  CASE i < 26 -> i + 65 [] i \in 26..51 -> i + 71 [] i \in 52..61 -> i - 4
    [] i = 62 -> 43     [] OTHER -> 47

(* Plausible bug: the padding character counts as a digit.                 *)
LookupWithPadding(c) ==
  CASE c \in 65..90 -> c - 65 [] c \in 97..122 -> c - 71
    [] c \in 48..57 -> c + 4  [] c = 43 -> 62 [] c = 47 -> 63
    [] c = Pad -> 0           [] OTHER -> 64

(* REVERSE_LOOKUP_TABLE; 64 means that the character is invalid.           *)
REVERSE_LOOKUP_TABLE(c) ==
  CASE c \in 65..90 -> c - 65 [] c \in 97..122 -> c - 71
    [] c \in 48..57 -> c + 4  [] c = 43 -> 62 [] c = 47 -> 63
    [] OTHER -> 64

CodecInit ==
  /\ \/ bytes \in Inputs /\ add_padding \in BOOLEAN /\ text = <<>>
        /\ phase = "encode"
     \/ text \in Texts /\ add_padding = FALSE /\ bytes = <<>>
        /\ phase = "decode_foreign"
  /\ ret = <<>> /\ next_c = 0 /\ pos = 0

-----------------------------------------------------------------------------
(* encode.                                                                 *)

(* Plausible bug: four bits are left over and moved by four.               *)
EncodeBaseWrongShift ==
  /\ phase = "encode" /\ pos < Len(bytes) /\ pos' = pos + 1
  /\ text' = Append(text, CHAR_TABLE(next_c + bytes[pos + 1] \div 16))
  /\ next_c' = (bytes[pos + 1] % 16) * 16
  /\ UNCHANGED <<bytes, add_padding, ret, phase>>

(* encodeBase for the byte at pos.                                         *)
EncodeBase ==
  /\ phase = "encode" /\ pos < Len(bytes) /\ pos' = pos + 1
  /\ LET cur == bytes[pos + 1]
     IN  \/ /\ pos % 3 = 0
            /\ text' = Append(text, CHAR_TABLE(cur \div 4))
            /\ next_c' = (cur % 4) * 16
         \/ /\ pos % 3 = 1
            /\ text' = Append(text, CHAR_TABLE(next_c + cur \div 16))
            /\ next_c' = (cur % 16) * 4
         \/ /\ pos % 3 = 2
            /\ text' = text \o <<CHAR_TABLE(next_c + cur \div 64),
                                 CHAR_TABLE(cur % 64)>>
            /\ next_c' = 0
  /\ UNCHANGED <<bytes, add_padding, ret, phase>>

(* encodeLast: the bits left over, then the padding; encode returns.       *)
EncodeLast ==
  /\ phase = "encode" /\ pos = Len(bytes) /\ phase' = "decode_own"
  /\ LET missing == (3 - (pos % 3)) % 3
     IN  text' = text \o
           (IF missing = 0 THEN <<>> ELSE <<CHAR_TABLE(next_c)>>) \o
           (IF add_padding THEN [k \in 1..missing |-> Pad] ELSE <<>>)
  /\ pos' = 0 /\ next_c' = 0
  /\ UNCHANGED <<bytes, add_padding, ret>>

-----------------------------------------------------------------------------
(* decodeWithoutPadding.                                                   *)

Decoding == phase \in {"decode_own", "decode_foreign"}

(* "At most last two chars can be '='": n of the code.                     *)
WithoutPadding(t) ==
  LET len == Len(t)
  IN  CASE len = 0 -> 0
        [] len > 0 /\ t[len] # Pad -> len
        [] len > 1 /\ t[len] = Pad /\ t[len - 1] = Pad -> len - 2
        [] OTHER -> len - 1

(* last, an unsigned n - 1: the largest number of its type when n is 0.    *)
Last(t) == (WithoutPadding(t) + SizeModulus - 1) % SizeModulus

MaxLength(n) ==
  ((n + 3) \div 4) * 3
    - (CASE n % 4 = 3 -> 1 [] n % 4 = 2 -> 2 [] OTHER -> 0)

Done(result) ==
  /\ phase' = IF phase = "decode_own" THEN "done_own" ELSE "done_foreign"
  /\ ret' = result /\ UNCHANGED <<bytes, add_padding, text, next_c, pos>>

DecodeEmpty == Decoding /\ text = <<>> /\ Done(<<>>)

cur_digit == REVERSE_LOOKUP_TABLE(text[pos + 1])

(* ret.back() |= bits.                                                     *)
OrBack(bits) == [ret EXCEPT ![Len(ret)] = @ + bits]

(* decodeBase or decodeLast meets an invalid character: return "".         *)
DecodeInvalid ==
  /\ Decoding /\ text # <<>> /\ pos <= Last(text)
  /\ cur_digit = 64 /\ Done(<<>>)

(* decodeBase for the character at pos.                                    *)
DecodeBase ==
  /\ Decoding /\ text # <<>> /\ pos < Last(text) /\ pos' = pos + 1
  /\ cur_digit # 64
  /\ \/ pos % 4 = 0 /\ ret' = Append(ret, (cur_digit * 4) % 256)
     \/ pos % 4 = 1
        /\ ret' = Append(OrBack(cur_digit \div 16), (cur_digit * 16) % 256)
     \/ pos % 4 = 2
        /\ ret' = Append(OrBack(cur_digit \div 4), (cur_digit * 64) % 256)
     \/ pos % 4 = 3 /\ ret' = OrBack(cur_digit)
  /\ UNCHANGED <<bytes, add_padding, text, next_c, phase>>

(* Plausible bug: a digit without a byte, and bits without a meaning, pass.*)
DecodeLastTolerant ==
  /\ Decoding /\ text # <<>> /\ pos = Last(text) /\ cur_digit # 64
  /\ Done(IF pos % 4 = 0 THEN ret
          ELSE OrBack(cur_digit \div 4^(3 - (pos % 4))))

(* decodeLast: the last digit starts no byte, and the bits it has beyond   *)
(* the last byte must be zero; otherwise return "".                        *)
DecodeLast ==
  /\ Decoding /\ text # <<>> /\ pos = Last(text) /\ cur_digit # 64
  /\ \/ pos % 4 = 0 /\ Done(<<>>)
     \/ pos % 4 = 1
        /\ Done(IF cur_digit % 16 = 0 THEN OrBack(cur_digit \div 16) ELSE <<>>)
     \/ pos % 4 = 2
        /\ Done(IF cur_digit % 4 = 0 THEN OrBack(cur_digit \div 4) ELSE <<>>)
     \/ pos % 4 = 3 /\ Done(OrBack(cur_digit))

CodecReturned == phase \in {"done_own", "done_foreign"} /\ UNCHANGED codecVars

CodecNext == EncodeBase \/ EncodeLast
        \/ DecodeEmpty \/ DecodeInvalid \/ DecodeBase \/ DecodeLast
        \/ CodecReturned

CodecSpec == CodecInit /\ [][CodecNext]_codecVars

-----------------------------------------------------------------------------
(* The reference: both sides are written as one string of bits, the most   *)
(* significant bit of the first number first.                              *)

PowerOfTwo == <<1, 2, 4, 8, 16, 32, 64, 128>>

Bit(numbers, width, k) ==
  (numbers[k \div width + 1] \div PowerOfTwo[width - (k % width)]) % 2

Digits(t) ==
  [i \in 1..WithoutPadding(t) |-> REVERSE_LOOKUP_TABLE(t[i])]

(* b is the first whole bytes of the bits of the digits d, the rest zero.  *)
Denotes(d, b) ==
  /\ Len(b) = (6 * Len(d)) \div 8
  /\ \A k \in 0..(8 * Len(b) - 1) : Bit(d, 6, k) = Bit(b, 8, k)
  /\ \A k \in (8 * Len(b))..(6 * Len(d) - 1) : Bit(d, 6, k) = 0

(* Text that encode could have made, apart from its padding.               *)
Canonical(t) ==
  LET d == Digits(t)
  IN  /\ \A i \in 1..Len(d) : d[i] # 64
      /\ Len(d) % 4 # 1
      /\ \A k \in (8 * ((6 * Len(d)) \div 8))..(6 * Len(d) - 1) :
           Bit(d, 6, k) = 0

-----------------------------------------------------------------------------
(* Properties.                                                             *)

(* Bytes stay bytes and the bits carried over stay below a table index, so *)
(* CHAR_TABLE and REVERSE_LOOKUP_TABLE are read within their bounds.       *)
CodecTypeOK ==
  /\ bytes \in Seq(Byte) /\ text \in Seq(Byte) /\ ret \in Seq(Byte)
  /\ add_padding \in BOOLEAN
  /\ next_c \in 0..63 /\ pos \in Nat
  /\ phase \in {"encode", "decode_own", "decode_foreign", "done_own",
             "done_foreign"}

(* The decoder reads characters of its argument only, even for text of     *)
(* nothing but padding, where last is n - 1 with n = 0 and wraps.          *)
ReadsInside == Decoding /\ text # <<>> => pos < Len(text)

(* assert(ret.size() == max_length) at the end of decodeWithoutPadding     *)
(* holds for every text that gets there.                                   *)
AssertHolds ==
  phase \in {"done_own", "done_foreign"} /\ ret # <<>> =>
    Len(ret) = MaxLength(WithoutPadding(text))

(* decodeWithoutPadding returns the bytes of canonical text and "" for     *)
(* everything else: no two spellings of a field mean the same.             *)
DecodeExact ==
  phase \in {"done_own", "done_foreign"} =>
    IF Canonical(text) THEN Denotes(Digits(text), ret) ELSE ret = <<>>

(* What one process encodes, with padding or without, the next one reads.  *)
(* With DecodeExact: encode writes the bits of its argument in order.      *)
RoundTrip == phase = "done_own" => ret = bytes

(* encode never emits the separator of the sw8 header.                     *)
NoSeparator ==
  phase \in {"decode_own", "done_own"} =>
    \A i \in 1..Len(text) : text[i] # HeaderSeparator
=============================================================================
