-------------------------------- MODULE Utf8 --------------------------------
(* The UTF-8 codec every other part reads and writes strings with             *)
(* (punycoder_utf8.cpp): utf8_to_codepoints one sequence at a step, and what  *)
(* codepoints_to_utf8 writes for a code point. Masks and shifts of bytes are  *)
(* ranges and arithmetic on 0 .. 255. What it is given here was decoded or is *)
(* a scalar value, so its throw for a code point above U+10FFFF is left out;  *)
(* only libidn2 can cause it, in LabelBackend.                                *)
EXTENDS Integers, Sequences

CONSTANT Inputs     \* the byte strings given

Byte == 0 .. 255
is_valid_unicode_scalar(cp) == cp <= 1114111 /\ ~(55296 <= cp /\ cp <= 57343)

ASSUME InputsAssumption == Inputs \subseteq Seq(Byte)

VARIABLES input, i, codepoints,
          outcome   \* "running", "done" or the ErrorCode thrown

vars == <<input, i, codepoints, outcome>>

Init ==
    /\ input \in Inputs
    /\ i = 0 /\ codepoints = <<>> /\ outcome = "running"

-----------------------------------------------------------------------------
IsLead(c) == 192 <= c /\ c <= 247
Extra(c) == IF c <= 223 THEN 1 ELSE IF c <= 239 THEN 2 ELSE 3
LeadBits(c) == IF c <= 223 THEN c % 32 ELSE IF c <= 239 THEN c % 16 ELSE c % 8

ByteAt(j) == input[i + j + 1]
IsContinuation(c) == 128 <= c /\ c <= 191
Bits(j) == ByteAt(j) % 64

\* The value of the sequence at i: the lead's bits and six of each byte after.
Value(extra) ==
    LET two == 64 * LeadBits(ByteAt(0)) + Bits(1)
    IN  IF extra = 1 THEN two
        ELSE IF extra = 2 THEN 64 * two + Bits(2)
        ELSE 64 * (64 * two + Bits(2)) + Bits(3)

Smallest(extra) == IF extra = 1 THEN 128 ELSE IF extra = 2 THEN 2048 ELSE 65536

OverlongNever(extra, cp) == FALSE
OverlongAtBound(extra, cp) == cp <= Smallest(extra)
Overlong(extra, cp) == cp < Smallest(extra)

SequenceErrorAnyValue(extra, cp) ==
    IF Overlong(extra, cp) THEN "overlong_utf8_sequence" ELSE "none"
SequenceError(extra, cp) ==
    IF Overlong(extra, cp) THEN "overlong_utf8_sequence"
    ELSE IF is_valid_unicode_scalar(cp) THEN "none" ELSE "invalid_utf8_code_point"

More == outcome = "running" /\ i < Len(input)

Throw(error) == outcome' = error /\ UNCHANGED <<input, i, codepoints>>

Push(cp, width) ==
    /\ codepoints' = Append(codepoints, cp)
    /\ i' = i + width
    /\ UNCHANGED <<input, outcome>>

Ascii == More /\ ByteAt(0) < 128 /\ Push(ByteAt(0), 1)

BadLead ==
    /\ More /\ ByteAt(0) >= 128 /\ ~IsLead(ByteAt(0))
    /\ Throw("invalid_utf8_sequence")

InSequence == More /\ IsLead(ByteAt(0))
Whole == i + Extra(ByteAt(0)) < Len(input)
Continues == \A j \in 1 .. Extra(ByteAt(0)) : IsContinuation(ByteAt(j))
Truncated == InSequence /\ ~Whole /\ Throw("truncated_utf8_sequence")

BadContinuation == InSequence /\ Whole /\ ~Continues /\ Throw("invalid_utf8_continuation")

Multibyte ==
    /\ InSequence /\ Whole /\ Continues
    /\ LET extra == Extra(ByteAt(0))
           error == SequenceError(extra, Value(extra))
       IN  IF error = "none" THEN Push(Value(extra), extra + 1) ELSE Throw(error)

Return ==
    /\ outcome = "running" /\ i >= Len(input)
    /\ outcome' = "done" /\ UNCHANGED <<input, i, codepoints>>

Next == Ascii \/ BadLead \/ Truncated \/ BadContinuation \/ Multibyte \/ Return

Spec == Init /\ [][Next]_vars

-----------------------------------------------------------------------------
\* What codepoints_to_utf8 appends for one code point.
codepoint_to_utf8(cp) ==
    LET Six(n) == 128 + ((cp \div n) % 64)
    IN  IF cp <= 127 THEN <<cp>>
        ELSE IF cp <= 2047 THEN <<192 + ((cp \div 64) % 32), Six(1)>>
        ELSE IF cp <= 65535 THEN <<224 + ((cp \div 4096) % 16), Six(64), Six(1)>>
        ELSE <<240 + ((cp \div 262144) % 8), Six(4096), Six(64), Six(1)>>

-----------------------------------------------------------------------------
\* The decoder stays within the input and gives code points that are scalar
\* values, one for every one to four bytes behind it.
TypeOK ==
    /\ input \in Inputs
    /\ i \in 0 .. Len(input)
    /\ codepoints \in Seq(Nat)
    /\ \A k \in DOMAIN codepoints : is_valid_unicode_scalar(codepoints[k])
    /\ Len(codepoints) <= i /\ i <= 4 * Len(codepoints)
    /\ outcome \in {"running", "done", "invalid_utf8_sequence", "truncated_utf8_sequence",
                    "invalid_utf8_continuation", "overlong_utf8_sequence", "invalid_utf8_code_point"}

\* The decoder undoes the encoder and accepts nothing else: the bytes a step
\* consumes are the bytes codepoints_to_utf8 writes for the code point it gives.
\* So a label that is decoded and encoded again is the same string of bytes.
DecodesWhatIsEncoded ==
    [][ i' # i => /\ Len(codepoints') = Len(codepoints) + 1
                  /\ SubSeq(input, i + 1, i') = codepoint_to_utf8(codepoints'[Len(codepoints')])
      ]_vars

\* Well-formed UTF-8 as Unicode defines it (table 3-7), by the second byte.
SecondByte(c) ==
    CASE c = 224 -> 160 .. 191 [] c = 237 -> 128 .. 159
      [] c = 240 -> 144 .. 191 [] c = 244 -> 128 .. 143 [] OTHER -> 128 .. 191

WellFormedAt(n) ==
    LET rest == Len(input) - n
        Width(c) == IF c <= 127 THEN 1 ELSE IF c <= 223 THEN 2 ELSE IF c <= 239 THEN 3 ELSE 4
        c == input[n + 1]
    IN  /\ c \in 0 .. 127 \cup 194 .. 244 /\ Width(c) <= rest
        /\ Width(c) > 1 => input[n + 2] \in SecondByte(c)
        /\ \A k \in 3 .. Width(c) : input[n + k] \in 128 .. 191

\* Only ill-formed input is refused: where the decoder stops there is no
\* well-formed sequence, whichever of its five errors it throws.
RefusesOnlyIllFormed ==
    outcome \notin {"running", "done"} => ~WellFormedAt(i)

=============================================================================
