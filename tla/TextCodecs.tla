------------------------------ MODULE TextCodecs ------------------------------
(***************************************************************************)
(* libs/base64.lua, and the padding of libs/digest.lua: what the loops over *)
(* groups of bytes compute, next to the definitions of RFC 4648, RFC 1321   *)
(* and FIPS 180.  A character of base64 is its value, 0 to 63; Pad stands   *)
(* for '=' and for anything else that the table of values does not have.    *)
(***************************************************************************)
EXTENDS Naturals, SequencesExt

CONSTANTS
  Bytes,      \* the bytes of the messages that are tried
  Characters, \* the characters of the texts that are decoded
  MaxBytes,   \* bound: their length
  Lengths     \* the lengths of the messages that are padded; 32 bits hold their size

CodecAssumption == Bytes \subseteq 0..255 /\ Characters \subseteq 0..64 /\ MaxBytes \in Nat /\ Lengths \subseteq 0..2^27

VARIABLES
  done,  \* nothing, or the function that was called last
  input, \* what is given to it: a message, a text, or a length and an order of bytes
  output \* what it gives

vars == <<done, input, output>>

Pad == 64
Raise == <<256>>
Groups(n, size) == (n + size - 1) \div size
Bits(x, width) == [i \in 1..width |-> (x \div 2^(width - i)) % 2]
Number(bits) == FoldLeft(LAMBDA n, b : 2 * n + b, 0, bits)
Zeros(n) == [i \in 1..n |-> 0]

-----------------------------------------------------------------------------
(* base64.encode: shifts and masks of a group of up to three bytes. *)

SecondCharacter(a, b) == (a % 4) * 16 + b \div 16
ThirdCharacter(b, c) == (b % 16) * 4 + c \div 64

EncodeGroup(g) ==
  CASE Len(g) = 1 -> <<g[1] \div 4, SecondCharacter(g[1], 0), Pad, Pad>>
    [] Len(g) = 2 -> <<g[1] \div 4, SecondCharacter(g[1], g[2]), ThirdCharacter(g[2], 0), Pad>>
    [] OTHER -> <<g[1] \div 4, SecondCharacter(g[1], g[2]), ThirdCharacter(g[2], g[3]), g[3] % 64>>

Group(s, g, size) == SubSeq(s, size * (g - 1) + 1, IF size * g < Len(s) THEN size * g ELSE Len(s))

Encode(s) == FlattenSeq([g \in 1..Groups(Len(s), 3) |-> EncodeGroup(Group(s, g, 3))])

\* RFC 4648: the bits of the message in sixes, filled with zeros, and '=' up to
\* a multiple of four characters.
ReferenceEncode(s) ==
  LET bits == FlattenSeq([i \in 1..Len(s) |-> Bits(s[i], 8)])
      filled == bits \o Zeros(Groups(Len(bits), 6) * 6 - Len(bits))
      chars == [i \in 1..(Len(filled) \div 6) |-> Number(SubSeq(filled, 6 * i - 5, 6 * i))]
  IN chars \o [i \in 1..(Groups(Len(s), 3) * 4 - Len(chars)) |-> Pad]

-----------------------------------------------------------------------------
(* base64.decode: the first two characters of a group must have a value;    *)
(* the group ends at the first of the others that has none.                *)

Value(g, i) == IF i <= Len(g) THEN g[i] ELSE Pad

ThirdByte(c, d) == (c % 4) * 64 + d

DecodeGroup(g) ==
  LET a == Value(g, 1)  b == Value(g, 2)  c == Value(g, 3)  d == Value(g, 4) IN
  IF Pad \in {a, b} THEN Raise
  ELSE <<a * 4 + b \div 16>>
       \o IF c = Pad THEN <<>>
          ELSE <<(b % 16) * 16 + c \div 4>> \o IF d = Pad THEN <<>> ELSE <<ThirdByte(c, d)>>

DecodeGroups(s) == [g \in 1..Groups(Len(s), 4) |-> DecodeGroup(Group(s, g, 4))]

\* An error in one group is the error of the whole call.
Decode(s) ==
  LET groups == DecodeGroups(s) IN
  IF \E g \in DOMAIN groups : groups[g] = Raise THEN Raise ELSE FlattenSeq(groups)

Encode16(s) == FlattenSeq([i \in DOMAIN s |-> <<s[i] \div 16, s[i] % 16>>])

Decode16(s) == IF Len(s) % 2 = 1 THEN Raise ELSE [i \in 1..(Len(s) \div 2) |-> s[2 * i - 1] * 16 + s[2 * i]]

-----------------------------------------------------------------------------
(* padding(msglen, big_endian), and the blocks that get_digest processes.   *)
(* The bytes of the message are all 255 here, which padding never has.      *)

Digits256(n) == [i \in 1..8 |-> IF i <= 4 THEN (n \div 256^(i - 1)) % 256 ELSE 0]
SizeBytes(n, bigEndian) == IF bigEndian THEN Reverse(Digits256(8 * n)) ELSE Digits256(8 * n)

PadLength(left) == IF left < 56 THEN 56 - left ELSE 120 - left

Padding(n, bigEndian) == <<128>> \o Zeros(PadLength(n % 64) - 1) \o SizeBytes(n, bigEndian)

\* All whole blocks of the message, then its rest with the padding.
Blocks(n, bigEndian) ==
  LET whole == [b \in 1..(n \div 64) |-> [i \in 1..64 |-> 255]]
      final == [i \in 1..(n % 64) |-> 255] \o Padding(n, bigEndian)
  IN whole \o [b \in 1..Groups(Len(final), 64) |-> Group(final, b, 64)]

-----------------------------------------------------------------------------

Init == done = "nothing" /\ input = <<>> /\ output = <<>>

Call(function, given, result) == done = "nothing" /\ done' = function /\ input' = given /\ output' = result
CallBack(after, function, result) == done = after /\ done' = function /\ output' = result /\ UNCHANGED input

Encodes(m) == Call("encode", <<m, "message">>, Encode(m))
Decodes == CallBack("encode", "decode", Decode(output))
DecodesText(text) == Call("decode", <<text, "text">>, Decode(text))
Encodes16(m) == Call("encode16", <<m, "message">>, Encode16(m))
Decodes16 == CallBack("encode16", "decode16", Decode16(output))
Pads(n, order) == Call("digest", <<n, order>>, Blocks(n, order = "big"))

Next ==
  \/ \E m \in SeqOf(Bytes, MaxBytes) : Encodes(m) \/ Encodes16(m)
  \/ \E text \in SeqOf(Characters, 5) : DecodesText(text)
  \/ \E n \in Lengths, order \in {"big", "little"} : Pads(n, order)
  \/ Decodes \/ Decodes16

Spec == Init /\ [][Next]_vars

-----------------------------------------------------------------------------
(* Properties. *)

TypeOK ==
  /\ done \in {"nothing", "encode", "decode", "encode16", "decode16", "digest"}
  /\ (done \in {"decode", "decode16"} /\ output # Raise => output \in Seq(0..255))

(* base64.encode gives what RFC 4648 defines. *)
EncodesAsSpecified == done = "encode" => output = ReferenceEncode(input[1])

(* decode gives back what encode was given, for base64 and base16. *)
RoundTrip == done \in {"decode", "decode16"} /\ input[2] = "message" => output = input[1]

\* The bits of the characters of a group up to the first without a value, as
\* far as they make bytes.
ReferenceDecodeGroup(g) ==
  LET n == CHOOSE k \in 0..Len(g) : (\A i \in 1..k : g[i] # Pad) /\ (k < Len(g) => g[k + 1] = Pad)
      bits == FlattenSeq([i \in 1..n |-> Bits(g[i], 6)])
  IN [i \in 1..(Len(bits) \div 8) |-> Number(SubSeq(bits, 8 * i - 7, 8 * i))]

(* base64.decode of any text gives the bytes of its groups, each cut at a   *)
(* character that is not of base64; it fails only for a group of which     *)
(* not one byte is left.                                                   *)
DecodesTexts ==
  done = "decode" /\ input[2] = "text" =>
    LET groups == [g \in 1..Groups(Len(input[1]), 4) |-> ReferenceDecodeGroup(Group(input[1], g, 4))] IN
    output = IF \E g \in DOMAIN groups : groups[g] = <<>> THEN Raise ELSE FlattenSeq(groups)

(* The blocks of a digest are the message, a byte 128, the fewest zeros     *)
(* that fill blocks of 64 bytes, and the number of bits in eight bytes of   *)
(* the digest's order.                                                     *)
PaddedAsSpecified ==
  done = "digest" =>
    LET n == input[1]
        bytes == FlattenSeq(output)
        zeros == Len(bytes) - n - 9
        size == IF input[2] = "big" THEN SubSeq(bytes, Len(bytes) - 7, Len(bytes))
                ELSE Reverse(SubSeq(bytes, Len(bytes) - 7, Len(bytes)))
    IN /\ \A b \in DOMAIN output : Len(output[b]) = 64
       /\ zeros \in 0..63
       /\ SubSeq(bytes, 1, n + 1 + zeros) = [i \in 1..n |-> 255] \o <<128>> \o Zeros(zeros)
       /\ FoldLeft(LAMBDA x, b : 256 * x + b, 0, size) = 8 * n

(* What every state of the component keeps. *)
Safety == TypeOK /\ EncodesAsSpecified /\ RoundTrip /\ DecodesTexts /\ PaddedAsSpecified

=============================================================================
