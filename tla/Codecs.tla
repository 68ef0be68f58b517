-------------------------------- MODULE Codecs --------------------------------
(***************************************************************************)
(* Two conversions done by hand in the core: base64 (encoding.cc), which   *)
(* carries images and audio through JSON, and half-precision numbers to    *)
(* single-precision ones (session.cc), for embeddings.  Each loop          *)
(* iteration is a step, so that an input is followed from its beginning to *)
(* what it becomes.                                                        *)
(***************************************************************************)
EXTENDS Integers, Sequences, SequencesExt

CONSTANTS Bytes,     \* the bytes that payloads are made of
          MaxBytes,  \* bound of the model: the longest payload
          Halves     \* the half-precision numbers

ASSUME CodecAssumption ==
  /\ Bytes \subseteq Nat /\ (\A byte \in Bytes : byte < 256) /\ MaxBytes \in Nat
  /\ Halves \subseteq Nat /\ \A number \in Halves : number < 65536

VARIABLES payload,  \* what was encoded
          input, position,          \* characters to decode, the next one
          buffer, bits, out,        \* locals of Base64Decode
          half, mantissa, unbiased, \* locals of Float16ToFloat32
          single,                   \* its result, without the sign
          doing                     \* text, base64, refused, half, done

base64Vars == <<payload, input, position, buffer, bits, out>>
halfVars == <<half, mantissa, unbiased, single>>
codecVars == <<base64Vars, halfVars, doing>>

-----------------------------------------------------------------------------
(* Base64.  A character is its value in the table, which knows both        *)
(* alphabets; padding and white space are skipped, all others refused.     *)
(* The header of a data URL, up to its comma, is one item of the input.    *)

Skip == 64
Refused == 65
DataUrl == 66

\* Base64Encode: four characters for every three bytes, padded.
Base64Encode(data) ==
  LET byte(i) == IF i <= Len(data) THEN data[i] ELSE 0
      triple(g) == byte(3 * g + 1) * 65536 + byte(3 * g + 2) * 256 + byte(3 * g + 3)
  IN [k \in 1..(4 * ((Len(data) + 2) \div 3)) |->
        LET g == (k - 1) \div 4 IN LET c == (k - 1) % 4 IN
        IF 3 * g + c > Len(data) THEN Skip
        ELSE (triple(g) \div (64 ^ (3 - c))) % 64]

\* How many of them are not padding.
Characters(data) == Len(data) + ((Len(data) + 2) \div 3)

\* What web tooling makes of it: as it is, without padding, or with one character more.
Variants(data) ==
  LET text == Base64Encode(data) IN
  {text, SubSeq(text, 1, Characters(data))}
    \cup {InsertAt(text, i, c) : i \in 1..(Len(text) + 1), c \in {Skip, Refused}}

SubnormalExponent == -14

CodecInit ==
  /\ \/ /\ doing = "text" /\ payload \in BoundedSeq(Bytes, MaxBytes)
        /\ \E text \in Variants(payload) : input \in {text, <<DataUrl>> \o text}
        /\ half = 0
     \/ doing = "half" /\ payload = <<>> /\ input = <<>> /\ half \in Halves
  /\ position = 1 /\ buffer = 0 /\ bits = 0 /\ out = <<>>
  /\ mantissa = half % 1024 /\ unbiased = SubnormalExponent /\ single = 0

\* The header of a data URL is stripped before the loop.
StripHeader ==
  /\ doing = "text" /\ doing' = "base64"
  /\ input' = IF input # <<>> /\ Head(input) = DataUrl THEN Tail(input) ELSE input
  /\ UNCHANGED <<payload, position, buffer, bits, out, halfVars>>

\* Fault: the buffer is one byte wide.
Shifted_Byte(value) == (buffer * 64 + value) % 256

\* The code's buffer has 32 bits, of which at most the lower 14 are read: 24 are as good.
Shifted(value) == (buffer * 64 + value) % 16777216

\* An iteration of Base64Decode.
DecodeCharacter ==
  /\ doing = "base64" /\ position <= Len(input)
  /\ position' = position + 1
  /\ LET c == input[position] IN
     CASE c = Skip    -> UNCHANGED <<buffer, bits, out, doing>>
       [] c = Refused -> doing' = "refused" /\ UNCHANGED <<buffer, bits, out>>
       [] OTHER ->
            /\ buffer' = Shifted(c)
            /\ bits' = (bits + 6) % 8
            /\ out' = IF bits + 6 >= 8 THEN Append(out, (buffer' \div (2 ^ bits')) % 256) ELSE out
            /\ UNCHANGED doing
  /\ UNCHANGED <<payload, input, halfVars>>

DecodeEnds ==
  /\ doing = "base64" /\ position > Len(input)
  /\ doing' = "done"
  /\ UNCHANGED <<base64Vars, halfVars>>

-----------------------------------------------------------------------------
(* Half precision: 1 sign bit, 5 of exponent, 10 of mantissa.              *)

Exponent == (half \div 1024) % 32

\* Zero, infinity, NaN and normalized numbers need no loop.
ConvertDirectly ==
  /\ doing = "half" /\ (Exponent # 0 \/ mantissa = 0)
  /\ single' = IF Exponent = 0 THEN 0
               ELSE IF Exponent = 31 THEN 255 * 8388608 + mantissa * 8192
               ELSE (Exponent + 112) * 8388608 + mantissa * 8192
  /\ doing' = "done"
  /\ UNCHANGED <<base64Vars, half, mantissa, unbiased>>

\* An iteration of the loop that normalizes a subnormal number ...
Normalize ==
  /\ doing = "half" /\ Exponent = 0 /\ mantissa # 0 /\ mantissa < 1024
  /\ mantissa' = mantissa * 2 /\ unbiased' = unbiased - 1
  /\ UNCHANGED <<base64Vars, half, single, doing>>

\* ... and what follows it: the leading bit is implied.
ConvertNormalized ==
  /\ doing = "half" /\ Exponent = 0 /\ mantissa >= 1024
  /\ single' = (unbiased + 127) * 8388608 + (mantissa % 1024) * 8192
  /\ doing' = "done"
  /\ UNCHANGED <<base64Vars, half, mantissa, unbiased>>

CodecNext == \/ StripHeader \/ DecodeCharacter \/ DecodeEnds
             \/ ConvertDirectly \/ Normalize \/ ConvertNormalized

-----------------------------------------------------------------------------
\* The value of either format is significand * 2^power; these compare two of them exactly.
HalfPower == IF Exponent = 0 THEN -24 ELSE Exponent - 25
HalfSignificand == (half % 1024) + (IF Exponent = 0 THEN 0 ELSE 1024)
SinglePower == (single \div 8388608) - 150
SingleSignificand == (single % 8388608) + 8388608

\* What single is to be: infinity and NaN keep their mantissa, all others their value.
HalfExact ==
  IF Exponent = 31 THEN single = 255 * 8388608 + (half % 1024) * 8192
  ELSE IF HalfSignificand = 0 THEN single = 0
  ELSE /\ HalfPower >= SinglePower
       /\ SingleSignificand = HalfSignificand * 2 ^ (HalfPower - SinglePower)

\* Every payload survives its trip, whatever is put between its characters or left out at
\* its end, as a data URL too, and what has a foreign character in it is refused and never
\* half decoded.
\* Every half-precision number becomes the same number, and infinity and each NaN stay
\* what they are: a single number has room for all of them.
CodecsExact ==
  /\ doing = "done" /\ input # <<>> => out = payload
  /\ doing \in {"done", "refused"} /\ input # <<>> =>
       (doing = "refused") = (Refused \in {input[i] : i \in DOMAIN input})
  /\ doing = "done" /\ input = <<>> => HalfExact

-----------------------------------------------------------------------------
(* The inductive invariant of the two loops.                               *)

\* A byte of the payload, or of the zeros it is filled up with, and the four characters
\* that three bytes become, from number 0 on.
Byte(k) == IF k <= Len(payload) THEN payload[k] ELSE 0
Sextet(m) ==
  LET first == 3 * (m \div 4) + 1 IN
  CASE m % 4 = 0 -> Byte(first) \div 4
    [] m % 4 = 1 -> (Byte(first) % 4) * 16 + Byte(first + 1) \div 16
    [] m % 4 = 2 -> (Byte(first + 1) % 16) * 4 + Byte(first + 2) \div 64
    [] m % 4 = 3 -> Byte(first + 2) % 64

\* How many characters of the encoded payload come before the one at k, with padding or
\* without, when the character at i, or none, is foreign to it.
Before(k, i) == IF k <= i THEN k - 1 ELSE k - 2
Taken(k, i) == IF Before(k, i) < Characters(payload) THEN Before(k, i) ELSE Characters(payload)

\* A text is the encoded payload, with something foreign at i and padding at the end.
Foreign(text, i) ==
  /\ \A k \in 1..Len(text) : k # i =>
       text[k] = IF Before(k, i) < Characters(payload) THEN Sextet(Before(k, i)) ELSE Skip
  /\ i <= Len(text) => text[i] \in {Skip, Refused}
  /\ Before(Len(text) + 1, i) >= Characters(payload)

ForeignAt(i) == Foreign(input, i)

\* After m characters the bytes they complete are out, and the bits left over are in the
\* lower end of the buffer.
Decoded64(m) ==
  /\ bits = (6 * m) % 8 /\ out = SubSeq(payload, 1, (3 * m) \div 4)
  /\ m % 4 # 0 => buffer % (2 ^ bits) = Sextet(m - 1) % (2 ^ bits)

CodecTypeOK ==
  /\ payload \in Seq(Nat) /\ \A k \in DOMAIN payload : payload[k] < 256
  /\ input \in Seq(Nat) /\ position \in 1..(Len(input) + 1)
  /\ buffer \in Nat /\ bits \in {0, 2, 4, 6}
  /\ half \in Nat /\ half < 65536 /\ mantissa \in Nat /\ unbiased \in Int /\ single \in Nat
  /\ doing \in {"text", "base64", "refused", "half", "done"}

\* What was read of the input is decoded, and nothing was refused unless the loop says so.
InputRead ==
  /\ doing = "text" =>
       /\ position = 1 /\ bits = 0 /\ out = <<>>
       /\ \E text \in Variants(payload) : input \in {text, <<DataUrl>> \o text}
  /\ doing \notin {"text", "refused"} =>
       \E i \in 1..(Len(input) + 1), m \in 0..Characters(payload) :
         ForeignAt(i) /\ m = Taken(position, i) /\ Decoded64(m)
  /\ doing # "refused" => \A k \in 1..(position - 1) : input[k] # Refused
  /\ doing = "refused" => \E k \in 1..Len(input) : input[k] = Refused
  /\ doing = "done" => position = Len(input) + 1
  /\ doing \in {"text", "base64", "refused"} \/ input # <<>> => half = 0 /\ single = 0

\* The significand of a half grows with every step of its exponent.
HalfRead ==
  /\ doing = "half" => input = <<>> /\ single = 0 /\ unbiased \in -24..-14
  /\ doing = "half" => mantissa = (half % 1024) * 2 ^ (-14 - unbiased) /\ mantissa < 2048
  /\ doing = "half" /\ Exponent # 0 => unbiased = -14
  /\ doing = "done" /\ input = <<>> => HalfExact

CodecInv == CodecTypeOK /\ InputRead /\ HalfRead
=============================================================================
