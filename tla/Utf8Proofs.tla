----------------------------- MODULE Utf8Proofs -----------------------------
(* The UTF-8 codec, for every string of bytes.                                *)
EXTENDS Utf8, SequenceTheorems, TLAPS

LEMMA ByteTyping ==
    ASSUME input \in Inputs, i \in Nat, NEW j \in Nat, i + j < Len(input)
    PROVE  ByteAt(j) \in Byte
<1>1. input \in Seq(Byte) /\ i + j + 1 \in 1 .. Len(input)
    BY InputsAssumption
<1> QED
    BY <1>1 DEF ByteAt

LEMMA AsciiIsScalar ==
    ASSUME NEW c \in Byte, c < 128
    PROVE  c \in Nat /\ is_valid_unicode_scalar(c)
<1>1. c \in Nat
    BY SMT DEF Byte
<1>2. c <= 1114111 /\ ~(55296 <= c)
    BY SMT, <1>1
<1> QED
    BY SMT, <1>1, <1>2 DEF is_valid_unicode_scalar

\* The value a sequence of two, three or four bytes stands for, and its bounds.
LEMMA ValueTyping ==
    ASSUME input \in Inputs, i \in Nat, InSequence, Whole
    PROVE  /\ Extra(ByteAt(0)) \in 1 .. 3
           /\ Value(Extra(ByteAt(0))) \in Nat
<1>1. ByteAt(0) \in Byte
    BY ByteTyping, InputsAssumption DEF InSequence, More
<1>2. Extra(ByteAt(0)) \in 1 .. 3
    BY DEF Extra
<1>3. \A j \in 1 .. Extra(ByteAt(0)) : ByteAt(j) \in Byte
    BY <1>2, ByteTyping, InputsAssumption DEF Whole
<1>4. LeadBits(ByteAt(0)) \in Nat
    BY <1>1 DEF LeadBits, Byte
<1>5. \A j \in 1 .. Extra(ByteAt(0)) : Bits(j) \in Nat
    BY <1>3 DEF Bits, Byte
<1> QED
    BY <1>2, <1>4, <1>5 DEF Value

LEMMA TypeInit == Init => TypeOK
BY InputsAssumption DEF Init, TypeOK
LEMMA TypeStep == TypeOK /\ [Next]_vars => TypeOK'
<1> SUFFICES ASSUME TypeOK, [Next]_vars PROVE TypeOK'
    OBVIOUS
<1> USE InputsAssumption
<1>1. CASE Ascii
  <2>1. ByteAt(0) \in Nat /\ is_valid_unicode_scalar(ByteAt(0))
    <3>1. ByteAt(0) \in Byte
        BY <1>1, ByteTyping DEF TypeOK, Ascii, More
    <3>2. ByteAt(0) < 128
        BY <1>1 DEF Ascii
    <3> QED
        BY <3>1, <3>2, AsciiIsScalar
  <2> QED
      BY <1>1, <2>1 DEF TypeOK, Ascii, More, Push
<1>2. CASE BadLead
    BY <1>2 DEF TypeOK, BadLead, More, Throw
<1>3. CASE Truncated
    BY <1>3 DEF TypeOK, Truncated, InSequence, More, Throw
<1>4. CASE BadContinuation
    BY <1>4 DEF TypeOK, BadContinuation, InSequence, More, Throw
<1>5. CASE Multibyte
  <2> DEFINE extra == Extra(ByteAt(0))
             cp == Value(extra)
  <2>1. extra \in 1 .. 3 /\ cp \in Nat /\ i + extra < Len(input)
      BY <1>5, ValueTyping DEF TypeOK, Multibyte, Whole
  <2>2. CASE SequenceError(extra, cp) = "none"
    <3>1. is_valid_unicode_scalar(cp)
        BY <2>2 DEF SequenceError
    <3>2. Push(cp, extra + 1)
        BY <1>5, <2>2 DEF Multibyte
    <3> HIDE DEF extra, cp
    <3> QED
        BY <2>1, <3>1, <3>2 DEF TypeOK, Push
  <2>3. CASE SequenceError(extra, cp) # "none"
      BY <1>5, <2>3 DEF TypeOK, Multibyte, SequenceError, Throw
  <2> QED
      BY <2>2, <2>3
<1>6. CASE Return
    BY <1>6 DEF TypeOK, Return
<1>7. CASE UNCHANGED vars
    BY <1>7 DEF TypeOK, vars
<1> QED
    BY <1>1, <1>2, <1>3, <1>4, <1>5, <1>6, <1>7 DEF Next

\* utf8_to_codepoints stays within its input and gives only scalar values.
THEOREM TypeCorrect == Spec => []TypeOK
BY TypeInit, TypeStep, PTL DEF Spec

-----------------------------------------------------------------------------
\* One to four bytes of a string, as a tuple.
LEMMA Slice ==
    ASSUME NEW s \in Seq(Byte), NEW n \in Nat, NEW k \in Nat, n + k <= Len(s)
    PROVE  /\ SubSeq(s, n + 1, n + k) \in Seq(Byte)
           /\ Len(SubSeq(s, n + 1, n + k)) = k
           /\ \A j \in 1 .. k : SubSeq(s, n + 1, n + k)[j] = s[n + j]
<1>1. \A x \in n + 1 .. n + k : x \in 1 .. Len(s)
    OBVIOUS
<1>2. n + 1 \in Int /\ n + k \in Int
    OBVIOUS
<1>3. /\ SubSeq(s, n + 1, n + k) \in Seq(Byte)
      /\ Len(SubSeq(s, n + 1, n + k)) = IF n + 1 <= n + k THEN n + k - (n + 1) + 1 ELSE 0
      /\ \A j \in 1 .. n + k - (n + 1) + 1 : SubSeq(s, n + 1, n + k)[j] = s[n + 1 + j - 1]
    BY <1>1, <1>2, SubSeqProperties
<1> QED
    BY SMT, <1>3

LEMMA SliceOne ==
    ASSUME NEW s \in Seq(Byte), NEW n \in Nat, n + 1 <= Len(s)
    PROVE  SubSeq(s, n + 1, n + 1) = <<s[n + 1]>>
<1> DEFINE t == SubSeq(s, n + 1, n + 1)
<1>1. 1 \in Nat
    OBVIOUS
<1>2. t \in Seq(Byte) /\ Len(t) = 1 /\ \A j \in 1 .. 1 : t[j] = s[n + j]
    BY Zenon, <1>1, Slice
<1> HIDE DEF t
<1>3. t = <<s[n + 1]>>
    BY SMT, <1>2
<1> QED
    BY <1>3 DEF t

LEMMA SliceTwo ==
    ASSUME NEW s \in Seq(Byte), NEW n \in Nat, n + 2 <= Len(s)
    PROVE  SubSeq(s, n + 1, n + 2) = <<s[n + 1], s[n + 2]>>
<1> DEFINE t == SubSeq(s, n + 1, n + 2)
<1>1. 2 \in Nat
    OBVIOUS
<1>2. t \in Seq(Byte) /\ Len(t) = 2 /\ \A j \in 1 .. 2 : t[j] = s[n + j]
    BY Zenon, <1>1, Slice
<1> HIDE DEF t
<1>3. t = <<s[n + 1], s[n + 2]>>
    BY SMT, <1>2
<1> QED
    BY <1>3 DEF t

LEMMA SliceThree ==
    ASSUME NEW s \in Seq(Byte), NEW n \in Nat, n + 3 <= Len(s)
    PROVE  SubSeq(s, n + 1, n + 3) = <<s[n + 1], s[n + 2], s[n + 3]>>
<1> DEFINE t == SubSeq(s, n + 1, n + 3)
<1>1. 3 \in Nat
    OBVIOUS
<1>2. t \in Seq(Byte) /\ Len(t) = 3 /\ \A j \in 1 .. 3 : t[j] = s[n + j]
    BY Zenon, <1>1, Slice
<1> HIDE DEF t
<1>3. t = <<s[n + 1], s[n + 2], s[n + 3]>>
    BY SMT, <1>2
<1> QED
    BY <1>3 DEF t

LEMMA SliceFour ==
    ASSUME NEW s \in Seq(Byte), NEW n \in Nat, n + 4 <= Len(s)
    PROVE  SubSeq(s, n + 1, n + 4) = <<s[n + 1], s[n + 2], s[n + 3], s[n + 4]>>
<1> DEFINE t == SubSeq(s, n + 1, n + 4)
<1>1. 4 \in Nat
    OBVIOUS
<1>2. t \in Seq(Byte) /\ Len(t) = 4 /\ \A j \in 1 .. 4 : t[j] = s[n + j]
    BY Zenon, <1>1, Slice
<1> HIDE DEF t
<1>3. t = <<s[n + 1], s[n + 2], s[n + 3], s[n + 4]>>
    BY SMT, <1>2
<1> QED
    BY <1>3 DEF t

-----------------------------------------------------------------------------
\* A sequence the decoder accepts is what the encoder writes for its value.
LEMMA EncodeOne ==
    ASSUME NEW a \in Byte, a < 128
    PROVE  codepoint_to_utf8(a) = <<a>>
BY DEF codepoint_to_utf8, Byte

LEMMA EncodeTwo ==
    ASSUME NEW a \in 192 .. 223, NEW b \in 128 .. 191, 64 * (a % 32) + (b % 64) >= 128
    PROVE  codepoint_to_utf8(64 * (a % 32) + (b % 64)) = <<a, b>>
<1> DEFINE cp == 64 * (a % 32) + (b % 64)
<1>1. cp \in 128 .. 2047
    BY SMT
<1>2. cp \div 64 = a - 192 /\ cp % 64 = b - 128
    BY SMT
<1>3. (cp \div 64) % 32 = a - 192 /\ (cp \div 1) % 64 = b - 128
    BY SMT, <1>1, <1>2
<1> HIDE DEF cp
<1>4. codepoint_to_utf8(cp) = <<a, b>>
    BY SMT, <1>1, <1>3 DEF codepoint_to_utf8
<1> QED
    BY <1>4 DEF cp
LEMMA EncodeThree ==
    ASSUME NEW a \in 224 .. 239, NEW b \in 128 .. 191, NEW c \in 128 .. 191,
           NEW cp, cp = 64 * (64 * (a % 16) + (b % 64)) + (c % 64), cp >= Smallest(2)
    PROVE  codepoint_to_utf8(cp) = <<a, b, c>>
<1>0. cp = 4096 * (a - 224) + 64 * (b - 128) + (c - 128)
    BY SMT
<1>1. cp \in Nat /\ 2048 <= cp /\ cp <= 65535
    BY SMT, <1>0 DEF Smallest
<1>2. cp \div 4096 = a - 224 /\ (cp \div 64) % 64 = b - 128 /\ cp % 64 = c - 128
    BY SMT
<1>3. (cp \div 4096) % 16 = a - 224
    BY SMT, <1>2
<1>5. (cp \div 1) % 64 = c - 128
    BY SMT, <1>1, <1>2
<1> QED
    BY SMT, <1>1, <1>2, <1>3, <1>5 DEF codepoint_to_utf8

LEMMA EncodeFour ==
    ASSUME NEW a \in 240 .. 247, NEW b \in 128 .. 191, NEW c \in 128 .. 191,
           NEW d \in 128 .. 191,
           NEW cp, cp = 64 * (64 * (64 * (a % 8) + (b % 64)) + (c % 64)) + (d % 64),
           cp >= Smallest(3)
    PROVE  codepoint_to_utf8(cp) = <<a, b, c, d>>
<1>0. cp = 262144 * (a - 240) + 4096 * (b - 128) + 64 * (c - 128) + (d - 128)
    BY SMT
<1>1. cp \in Nat /\ cp > 65535
    BY SMT, <1>0 DEF Smallest
<1>2. /\ cp \div 262144 = a - 240 /\ (cp \div 4096) % 64 = b - 128
      /\ (cp \div 64) % 64 = c - 128 /\ cp % 64 = d - 128
  <2>1. cp \div 262144 = a - 240
      BY SMT, <1>0
  <2>2. cp \div 4096 = 64 * (a - 240) + (b - 128)
      BY SMT, <1>0
  <2>3. cp \div 64 = 64 * (64 * (a - 240) + (b - 128)) + (c - 128)
      BY SMT, <1>0
  <2>4. cp = 64 * (64 * (64 * (a - 240) + (b - 128)) + (c - 128)) + (d - 128)
      BY SMT, <1>0
  <2> QED
      BY SMT, <2>1, <2>2, <2>3, <2>4
<1>3. (cp \div 262144) % 8 = a - 240 /\ (cp \div 1) % 64 = d - 128
    BY SMT, <1>1, <1>2
<1> QED
    BY SMT, <1>1, <1>2, <1>3 DEF codepoint_to_utf8

\* The step that accepts a sequence gives the code point it is the encoding of.
LEMMA AcceptsEncoding ==
    ASSUME TypeOK, Multibyte, SequenceError(Extra(ByteAt(0)), Value(Extra(ByteAt(0)))) = "none"
    PROVE  SubSeq(input, i + 1, i + Extra(ByteAt(0)) + 1)
             = codepoint_to_utf8(Value(Extra(ByteAt(0))))
<1> DEFINE extra == Extra(ByteAt(0))
<1>1. /\ input \in Seq(Byte) /\ i \in Nat /\ extra \in 1 .. 3
      /\ i + extra < Len(input)
    BY InputsAssumption DEF TypeOK, Multibyte, Whole, Extra
<1>2. \A j \in 1 .. extra : ByteAt(j) \in 128 .. 191
  <2> SUFFICES ASSUME NEW j \in 1 .. extra PROVE ByteAt(j) \in 128 .. 191
      OBVIOUS
  <2>1. ByteAt(j) \in Byte
      BY <1>1, ByteTyping DEF TypeOK
  <2>2. IsContinuation(ByteAt(j))
      BY DEF Multibyte, Continues
  <2> QED
      BY <2>1, <2>2 DEF IsContinuation, Byte
<1>3. ByteAt(0) \in 192 .. 247
  <2>1. ByteAt(0) \in Byte
      BY <1>1, ByteTyping DEF TypeOK
  <2>2. IsLead(ByteAt(0))
      BY DEF Multibyte, InSequence
  <2> QED
      BY <2>1, <2>2 DEF IsLead, Byte
<1>4. Value(extra) >= Smallest(extra)
  <2>1. Value(extra) \in Nat /\ Smallest(extra) \in Nat
      BY SMT, ValueTyping DEF TypeOK, Multibyte, Smallest
  <2>2. ~Overlong(extra, Value(extra))
      BY DEF SequenceError
  <2> QED
      BY <2>1, <2>2 DEF Overlong
<1>6. CASE extra = 1
  <2> DEFINE a == ByteAt(0)
             b == ByteAt(1)
  <2>1. a \in 192 .. 223 /\ b \in 128 .. 191
      BY <1>2, <1>3, <1>6 DEF Extra
  <2>2. Value(extra) = 64 * (a % 32) + (b % 64)
      BY <1>6, <2>1 DEF Value, LeadBits, Bits
  <2>3. Value(extra) >= 128
      BY <1>4, <1>6 DEF Smallest
  <2>4. SubSeq(input, i + 1, i + extra + 1) = <<a, b>>
    <3>1. i + 2 <= Len(input) /\ i + extra + 1 = i + 2
        BY <1>1, <1>6
    <3>2. SubSeq(input, i + 1, i + 2) = <<input[i + 1], input[i + 2]>>
        BY <1>1, <3>1, SliceTwo
    <3>3. input[i + 1] = a /\ input[i + 2] = b
        BY <1>1 DEF ByteAt
    <3> QED
        BY <3>1, <3>2, <3>3
  <2> HIDE DEF a, b
  <2>5. codepoint_to_utf8(64 * (a % 32) + (b % 64)) = <<a, b>>
      BY <2>1, <2>2, <2>3, EncodeTwo
  <2> QED
      BY <2>2, <2>4, <2>5
<1>7. CASE extra = 2
  <2> DEFINE a == ByteAt(0)
             b == ByteAt(1)
             c == ByteAt(2)
  <2>1. a \in 224 .. 239 /\ b \in 128 .. 191 /\ c \in 128 .. 191
      BY <1>2, <1>3, <1>7 DEF Extra
  <2>2. Value(extra) = 64 * (64 * (a % 16) + (b % 64)) + (c % 64)
      BY <1>7, <2>1 DEF Value, LeadBits, Bits
  <2>3. Value(extra) >= Smallest(2)
      BY <1>4, <1>7
  <2>4. SubSeq(input, i + 1, i + extra + 1) = <<a, b, c>>
    <3>1. i + 3 <= Len(input) /\ i + extra + 1 = i + 3
        BY <1>1, <1>7
    <3>2. SubSeq(input, i + 1, i + 3) = <<input[i + 1], input[i + 2], input[i + 3]>>
        BY <1>1, <3>1, SliceThree
    <3>3. input[i + 1] = a /\ input[i + 2] = b /\ input[i + 3] = c
        BY <1>1 DEF ByteAt
    <3> QED
        BY <3>1, <3>2, <3>3
  <2> HIDE DEF a, b, c
  <2>5. codepoint_to_utf8(Value(extra)) = <<a, b, c>>
      BY Zenon, <2>1, <2>2, <2>3, EncodeThree
  <2> QED
      BY <2>2, <2>4, <2>5
<1>8. CASE extra = 3
  <2> DEFINE a == ByteAt(0)
             b == ByteAt(1)
             c == ByteAt(2)
             d == ByteAt(3)
  <2>1. a \in 240 .. 247 /\ b \in 128 .. 191 /\ c \in 128 .. 191 /\ d \in 128 .. 191
      BY <1>2, <1>3, <1>8 DEF Extra
  <2>2. Value(extra) = 64 * (64 * (64 * (a % 8) + (b % 64)) + (c % 64)) + (d % 64)
      BY <1>8, <2>1 DEF Value, LeadBits, Bits
  <2>3. Value(extra) >= Smallest(3)
      BY <1>4, <1>8
  <2>4. SubSeq(input, i + 1, i + extra + 1) = <<a, b, c, d>>
    <3>1. i + 4 <= Len(input) /\ i + extra + 1 = i + 4
        BY <1>1, <1>8
    <3>2. SubSeq(input, i + 1, i + 4) = <<input[i + 1], input[i + 2], input[i + 3], input[i + 4]>>
        BY <1>1, <3>1, SliceFour
    <3>3. input[i + 1] = a /\ input[i + 2] = b /\ input[i + 3] = c /\ input[i + 4] = d
        BY <1>1 DEF ByteAt
    <3> QED
        BY <3>1, <3>2, <3>3
  <2> HIDE DEF a, b, c, d
  <2>5. codepoint_to_utf8(Value(extra)) = <<a, b, c, d>>
    <3> DEFINE v == Value(extra)
    <3>1. v = 64 * (64 * (64 * (a % 8) + (b % 64)) + (c % 64)) + (d % 64) /\ v >= Smallest(3)
        BY <2>2, <2>3
    <3> HIDE DEF v
    <3>2. codepoint_to_utf8(v) = <<a, b, c, d>>
        BY ZenonT(60), <2>1, <3>1, EncodeFour
    <3> QED
        BY <3>2 DEF v
  <2> QED
      BY <2>2, <2>4, <2>5
<1> QED
    BY <1>1, <1>6, <1>7, <1>8

DecodesStep ==
    i' # i => /\ Len(codepoints') = Len(codepoints) + 1
              /\ SubSeq(input, i + 1, i') = codepoint_to_utf8(codepoints'[Len(codepoints')])

LEMMA StepDecodes == TypeOK /\ [Next]_vars => DecodesStep
<1> SUFFICES ASSUME TypeOK, [Next]_vars, i' # i PROVE DecodesStep
    BY DEF DecodesStep
<1> USE InputsAssumption
<1>1. CASE Ascii
  <2>1. ByteAt(0) \in Byte /\ ByteAt(0) < 128
      BY <1>1, ByteTyping DEF TypeOK, Ascii, More
  <2>2. codepoint_to_utf8(ByteAt(0)) = <<ByteAt(0)>>
      BY <2>1, EncodeOne
  <2>3. SubSeq(input, i + 1, i + 1) = <<ByteAt(0)>>
    <3>1. input \in Seq(Byte) /\ i \in Nat /\ i + 1 <= Len(input)
        BY <1>1 DEF TypeOK, Ascii, More
    <3>2. ByteAt(0) = input[i + 1]
        BY <3>1 DEF ByteAt
    <3> QED
        BY <3>1, <3>2, SliceOne
  <2>4. i' = i + 1 /\ codepoints' = Append(codepoints, ByteAt(0))
      BY <1>1 DEF Ascii, Push
  <2>5. /\ Len(codepoints') = Len(codepoints) + 1
        /\ codepoints'[Len(codepoints')] = ByteAt(0)
      BY <2>1, <2>4 DEF TypeOK, Byte
  <2> QED
      BY <2>2, <2>3, <2>4, <2>5 DEF DecodesStep
<1>2. CASE Multibyte
  <2> DEFINE extra == Extra(ByteAt(0))
             cp == Value(extra)
  <2>1. SequenceError(extra, cp) = "none"
      BY <1>2 DEF Multibyte, Throw
  <2>2. SubSeq(input, i + 1, i + extra + 1) = codepoint_to_utf8(cp)
      BY <1>2, <2>1, AcceptsEncoding
  <2>3. Push(cp, extra + 1) /\ extra \in 1 .. 3 /\ i \in Nat
      BY <1>2, <2>1 DEF TypeOK, Multibyte, Extra
  <2> HIDE DEF extra, cp
  <2> QED
      BY <2>2, <2>3 DEF TypeOK, Push, DecodesStep
<1>3. CASE BadLead \/ Truncated \/ BadContinuation \/ Return \/ UNCHANGED vars
    BY <1>3 DEF BadLead, Truncated, BadContinuation, Return, Throw, vars
<1> QED
    BY <1>1, <1>2, <1>3 DEF Next

\* For every string of bytes: what is decoded is what the encoder would write,
\* so no two strings of bytes have the same code points.
THEOREM Utf8RoundTrip == Spec => DecodesWhatIsEncoded
<1>1. TypeOK /\ [Next]_vars => [DecodesStep]_vars
    BY StepDecodes
<1> QED
    BY <1>1, TypeInit, TypeStep, PTL DEF Spec, DecodesWhatIsEncoded, DecodesStep

-----------------------------------------------------------------------------
(* The other way round: nothing well formed is refused.                       *)

\* The byte a sequence starts with.
LEMMA LeadTyping ==
    ASSUME TypeOK, More
    PROVE  /\ ByteAt(0) \in Byte
           /\ IsLead(ByteAt(0)) => ByteAt(0) >= 128
           /\ ByteAt(0) \in 194 .. 244 => IsLead(ByteAt(0))
<1>1. i \in Nat /\ i + 0 < Len(input) /\ 0 \in Nat /\ input \in Inputs
    BY InputsAssumption DEF TypeOK, More
<1>2. ByteAt(0) \in Byte
    BY <1>1, ByteTyping
<1> QED
    BY <1>2 DEF IsLead, Byte

LEMMA LeadWidth ==
    ASSUME NEW c \in 194 .. 244
    PROVE  /\ (IF c <= 127 THEN 1 ELSE IF c <= 223 THEN 2 ELSE IF c <= 239 THEN 3 ELSE 4) = Extra(c) + 1
           /\ Extra(c) \in 1 .. 3
BY SMT DEF Extra

\* Table 3-7 as the decoder reads it, byte by byte from i.
LEMMA WellFormedParts ==
    ASSUME TypeOK, More, WellFormedAt(i), ByteAt(0) >= 128
    PROVE  /\ ByteAt(0) \in 194 .. 244 /\ Whole
           /\ Extra(ByteAt(0)) \in 1 .. 3
           /\ ByteAt(1) \in SecondByte(ByteAt(0))
           /\ \A j \in 2 .. Extra(ByteAt(0)) : ByteAt(j) \in 128 .. 191
<1> DEFINE c == input[i + 1]
           Width == IF c <= 127 THEN 1 ELSE IF c <= 223 THEN 2 ELSE IF c <= 239 THEN 3 ELSE 4
<1>1. i \in Nat /\ Len(input) \in Nat
    BY InputsAssumption DEF TypeOK
<1>2. /\ c \in 0 .. 127 \cup 194 .. 244 /\ Width <= Len(input) - i
      /\ Width > 1 => input[i + 2] \in SecondByte(c)
      /\ \A k \in 3 .. Width : input[i + k] \in 128 .. 191
    BY DEF WellFormedAt
<1>3. ByteAt(0) = c /\ ByteAt(1) = input[i + 2] /\ \A j \in Nat : ByteAt(j) = input[i + (j + 1)]
    BY <1>1 DEF ByteAt
<1>4. c \in 194 .. 244
  <2>1. c >= 128
      BY <1>3
  <2> HIDE DEF c
  <2> QED
      BY <1>2, <2>1
<1>5. Width = Extra(c) + 1 /\ Extra(c) \in 1 .. 3
    BY <1>4, LeadWidth
<1> HIDE DEF c, Width
<1>6. ASSUME NEW j \in 2 .. Extra(c) PROVE ByteAt(j) \in 128 .. 191
  <2>1. j + 1 \in 3 .. Width /\ j \in Nat
      BY <1>5
  <2>2. input[i + (j + 1)] \in 128 .. 191
      BY <1>2, <2>1
  <2> QED
      BY <1>3, <2>1, <2>2
<1>7. i + Extra(c) < Len(input)
    BY <1>1, <1>2, <1>5
<1>8. ByteAt(1) \in SecondByte(c)
  <2>1. Width > 1
      BY <1>5
  <2> QED
      BY Zenon, <1>2, <1>3, <2>1
<1> QED
    BY <1>3, <1>4, <1>5, <1>6, <1>7, <1>8 DEF Whole

LEMMA SecondByteIsContinuation ==
    ASSUME NEW c
    PROVE  SecondByte(c) \subseteq 128 .. 191
BY SMT DEF SecondByte

LEMMA InRangeContinues == \A c \in 128 .. 191 : IsContinuation(c)
BY SMT DEF IsContinuation

\* The value of a well-formed sequence is one its length is needed for, and a
\* scalar value.
LEMMA WellFormedTwo ==
    ASSUME NEW a \in 194 .. 223, NEW b \in 128 .. 191, NEW cp, cp = 64 * (a % 32) + (b % 64)
    PROVE  SequenceError(1, cp) = "none"
<1>1. cp = 64 * (a - 192) + (b - 128)
    BY SMT
<1>2. 128 <= cp /\ cp <= 2047
    BY SMT, <1>1
<1> QED
    BY SMT, <1>1, <1>2 DEF SequenceError, Overlong, Smallest, is_valid_unicode_scalar

LEMMA WellFormedThree ==
    ASSUME NEW a \in 224 .. 239, NEW b \in SecondByte(a), NEW c \in 128 .. 191,
           NEW cp, cp = 64 * (64 * (a % 16) + (b % 64)) + (c % 64)
    PROVE  SequenceError(2, cp) = "none"
<1>1. b \in 128 .. 191 /\ (a = 224 => b >= 160) /\ (a = 237 => b <= 159)
    BY SMT DEF SecondByte
<1>2. cp = 4096 * (a - 224) + 64 * (b - 128) + (c - 128)
    BY SMT, <1>1
<1>3. 2048 <= cp /\ cp <= 65535
    BY SMT, <1>1, <1>2
<1>4. ~(55296 <= cp /\ cp <= 57343)
    BY SMT, <1>1, <1>2
<1> QED
    BY SMT, <1>1, <1>2, <1>3, <1>4 DEF SequenceError, Overlong, Smallest, is_valid_unicode_scalar

LEMMA WellFormedFour ==
    ASSUME NEW a \in 240 .. 244, NEW b \in SecondByte(a), NEW c \in 128 .. 191, NEW d \in 128 .. 191,
           NEW cp, cp = 64 * (64 * (64 * (a % 8) + (b % 64)) + (c % 64)) + (d % 64)
    PROVE  SequenceError(3, cp) = "none"
<1>1. b \in 128 .. 191 /\ (a = 240 => b >= 144) /\ (a = 244 => b <= 143)
    BY SMT DEF SecondByte
<1>2. cp = 262144 * (a - 240) + 4096 * (b - 128) + 64 * (c - 128) + (d - 128)
    BY SMT, <1>1
<1>3. 65536 <= cp /\ cp <= 1114111
    BY SMT, <1>1, <1>2
<1> QED
    BY SMT, <1>1, <1>2, <1>3 DEF SequenceError, Overlong, Smallest, is_valid_unicode_scalar

LEMMA WellFormedIsTaken ==
    ASSUME TypeOK, Multibyte, WellFormedAt(i)
    PROVE  SequenceError(Extra(ByteAt(0)), Value(Extra(ByteAt(0)))) = "none"
<1> DEFINE a == ByteAt(0)
           b == ByteAt(1)
           extra == Extra(a)
<1>1. /\ a \in 194 .. 244 /\ extra \in 1 .. 3 /\ b \in SecondByte(a)
      /\ \A j \in 2 .. extra : ByteAt(j) \in 128 .. 191
  <2>1. More /\ ByteAt(0) >= 128
    <3>1. More /\ IsLead(ByteAt(0))
        BY DEF Multibyte, InSequence
    <3> QED
        BY <3>1, LeadTyping
  <2> QED
      BY <2>1, WellFormedParts
<1>2. b \in 128 .. 191
    BY <1>1, SecondByteIsContinuation
<1>3. CASE extra = 1
  <2>1. a \in 194 .. 223 /\ Value(extra) = 64 * (a % 32) + (b % 64)
      BY <1>1, <1>3 DEF Extra, Value, LeadBits, Bits
  <2> HIDE DEF a, b, extra
  <2> QED
      BY <1>2, <1>3, <2>1, WellFormedTwo DEF a, b, extra
<1>4. CASE extra = 2
  <2>1. a \in 224 .. 239 /\ Value(extra) = 64 * (64 * (a % 16) + (b % 64)) + (ByteAt(2) % 64)
      BY <1>1, <1>4 DEF Extra, Value, LeadBits, Bits
  <2>2. ByteAt(2) \in 128 .. 191
      BY <1>1, <1>4
  <2> HIDE DEF a, b, extra
  <2>3. SequenceError(2, Value(extra)) = "none"
      BY <1>1, <2>1, <2>2, WellFormedThree, Zenon
  <2> QED
      BY <1>4, <2>3 DEF a, extra
<1>5. CASE extra = 3
  <2>1. a \in 240 .. 244
        /\ Value(extra) = 64 * (64 * (64 * (a % 8) + (b % 64)) + (ByteAt(2) % 64)) + (ByteAt(3) % 64)
      BY <1>1, <1>5 DEF Extra, Value, LeadBits, Bits
  <2>2. ByteAt(2) \in 128 .. 191 /\ ByteAt(3) \in 128 .. 191
      BY <1>1, <1>5
  <2> HIDE DEF a, b, extra
  <2> DEFINE v == Value(extra)
             c == ByteAt(2)
             d == ByteAt(3)
  <2>3. v = 64 * (64 * (64 * (a % 8) + (b % 64)) + (c % 64)) + (d % 64)
        /\ a \in 240 .. 244 /\ b \in SecondByte(a) /\ c \in 128 .. 191 /\ d \in 128 .. 191
      BY <1>1, <2>1, <2>2
  <2> HIDE DEF v, c, d
  <2>4. SequenceError(3, v) = "none"
      BY ZenonT(60), <2>3, WellFormedFour
  <2> QED
      BY <1>5, <2>4 DEF a, extra, v
<1> QED
    BY <1>1, <1>3, <1>4, <1>5

LEMMA StepRefuses == TypeOK /\ RefusesOnlyIllFormed /\ [Next]_vars => RefusesOnlyIllFormed'
<1> SUFFICES ASSUME TypeOK, RefusesOnlyIllFormed, [Next]_vars PROVE RefusesOnlyIllFormed'
    OBVIOUS
<1> USE InputsAssumption
<1>1. ASSUME NEW e, More, Throw(e), ~WellFormedAt(i) PROVE RefusesOnlyIllFormed'
    BY <1>1 DEF Throw, RefusesOnlyIllFormed, WellFormedAt
<1>2. CASE Ascii
    BY <1>2 DEF Ascii, More, Push, RefusesOnlyIllFormed
<1>3. CASE BadLead
  <2>1. ByteAt(0) >= 128 /\ ByteAt(0) \notin 194 .. 244 /\ More
      BY <1>3, LeadTyping DEF BadLead
  <2>2. ~WellFormedAt(i)
      BY <2>1, WellFormedParts
  <2> QED
      BY <1>1, <1>3, <2>1, <2>2 DEF BadLead
<1>4. ASSUME InSequence PROVE More /\ ByteAt(0) \in Byte /\ ByteAt(0) >= 128
  <2>1. More /\ IsLead(ByteAt(0))
      BY <1>4 DEF InSequence
  <2> QED
      BY <2>1, LeadTyping
<1>5. CASE Truncated
  <2>1. ~WellFormedAt(i)
      BY <1>4, <1>5, WellFormedParts DEF Truncated
  <2> QED
      BY <1>1, <1>4, <1>5, <2>1 DEF Truncated
<1>6. CASE BadContinuation
  <2>1. ASSUME WellFormedAt(i) PROVE Continues
    <3>1. /\ Extra(ByteAt(0)) \in 1 .. 3 /\ ByteAt(1) \in 128 .. 191
          /\ \A j \in 2 .. Extra(ByteAt(0)) : ByteAt(j) \in 128 .. 191
        BY <1>4, <1>6, <2>1, WellFormedParts, SecondByteIsContinuation DEF BadContinuation
    <3>2. ASSUME NEW j \in 1 .. Extra(ByteAt(0)) PROVE IsContinuation(ByteAt(j))
      <4>1. j = 1 \/ j \in 2 .. Extra(ByteAt(0))
          BY <3>1
      <4>2. ByteAt(j) \in 128 .. 191
          BY <3>1, <4>1
      <4> QED
          BY Zenon, <4>2, InRangeContinues
    <3> QED
        BY <3>2 DEF Continues
  <2> QED
      BY <1>1, <1>4, <1>6, <2>1 DEF BadContinuation
<1>7. CASE Multibyte
  <2> DEFINE error == SequenceError(Extra(ByteAt(0)), Value(Extra(ByteAt(0))))
  <2>1. CASE error = "none"
    <3>1. UNCHANGED outcome /\ outcome = "running"
        BY <1>7, <2>1 DEF Multibyte, Push, InSequence, More
    <3> QED
        BY <3>1 DEF RefusesOnlyIllFormed
  <2>2. CASE error # "none"
    <3>1. ~WellFormedAt(i) /\ Throw(error) /\ InSequence
        BY <1>7, <2>2, WellFormedIsTaken DEF Multibyte
    <3> QED
        BY <1>1, <1>4, <3>1
  <2> QED
      BY <2>1, <2>2
<1>8. CASE Return
    BY <1>8 DEF Return, RefusesOnlyIllFormed
<1>9. CASE UNCHANGED vars
    BY <1>9 DEF vars, RefusesOnlyIllFormed, WellFormedAt
<1> QED
    BY <1>2, <1>3, <1>5, <1>6, <1>7, <1>8, <1>9 DEF Next

\* For every string of bytes: no error of utf8_to_codepoints is thrown where the
\* input goes on with a well-formed sequence.
THEOREM Utf8RefusesOnlyIllFormed == Spec => []RefusesOnlyIllFormed
<1>1. Init => RefusesOnlyIllFormed
    BY DEF Init, RefusesOnlyIllFormed
<1> QED
    BY <1>1, TypeInit, TypeStep, StepRefuses, PTL DEF Spec
=============================================================================
