----------------------------- MODULE Bootstring -----------------------------
(***************************************************************************)
(* What the in-tree Punycode encoder and decoder share: the parameters of  *)
(* RFC 3492, the two digit tables, the threshold of a digit position, the  *)
(* pieces of the bias adaptation loop and the checked 64-bit arithmetic    *)
(* (src/src/punycoder_algorithm.cpp, lines 10-84).                         *)
(*                                                                         *)
(* A byte of a label and a code point are numbers.  The widths of uint32_t *)
(* and uint64_t are constants, so that TLC, whose integers are 32 bits     *)
(* wide, can reach their limits.                                           *)
(***************************************************************************)
EXTENDS Integers, Sequences, FiniteSets

CONSTANTS
    Base, TMin, TMax, Skew, Damp, InitialBias,  \* kBase ... kInitialBias
    MaxU32,     \* std::numeric_limits<uint32_t>::max()
    MaxU64      \* std::numeric_limits<uint64_t>::max()

InitialN == 128         \* kInitialN, also the 0x80 that bounds a basic code point
Delimiter == 45         \* kDelimiter, the byte '-'
MaxScalar == 1114111    \* 0x10FFFF

(* The encoder writes 26 letters and 10 digits, so Base is at most 36; the *)
(* rest is what RFC 3492 section 4.1 asks of the parameters.  A base that  *)
(* exceeds TMin by two makes every division of the adaptation loop shrink. *)
ASSUME BootstringAssumption ==
    /\ Base \in 2..36
    /\ TMin \in 1..(Base - 2) /\ TMax \in TMin..(Base - 1)
    /\ Skew \in Nat \ {0} /\ Damp \in Nat \ {0} /\ InitialBias \in Nat

ASSUME WidthAssumption ==
    /\ MaxU32 \in Nat /\ MaxU64 \in Nat
    /\ MaxScalar < MaxU32 /\ MaxU32 <= MaxU64

-----------------------------------------------------------------------------
CodePoints == 0..MaxScalar

IsScalar(c) == c \in CodePoints /\ (c < 55296 \/ c > 57343)     \* no surrogate

(* Bug: the comparison includes the first code point that is not ASCII. *)
IsBasicInclusive(c) == c <= InitialN

IsBasic(c) == c < InitialN

IsLDH(c) == \/ c \in 97..122      \* 'a'..'z'
            \/ c \in 65..90       \* 'A'..'Z'
            \/ c \in 48..57       \* '0'..'9'
            \/ c = Delimiter

(* The value of a payload byte, or -1 when it is no digit.  Letters of     *)
(* either case stand for the same digit.                                   *)
DecodeDigit(c) == CASE c \in 48..57  -> c - 48 + 26
                    [] c \in 97..122 -> c - 97
                    [] c \in 65..90  -> c - 65
                    [] OTHER         -> -1

(* encode_digit throws for d >= 36. *)
HasDigit(d) == d < 36

EncodeDigit(d) == IF d < 26 THEN 97 + d ELSE 48 + (d - 26)

(* The threshold of the digit at position k under a bias. *)
Threshold(k, bias) == IF k <= bias THEN TMin
                      ELSE IF k >= bias + TMax THEN TMax
                      ELSE k - bias

-----------------------------------------------------------------------------
(* checked_add_u64 and checked_mul_u64: the test each makes before it      *)
(* computes, in the form the code makes it.                                *)
AddFits(a, b) == a <= MaxU64 - b

MulFits(a, b) == b = 0 \/ a <= MaxU64 \div b

Inc64(a) == (a + 1) % (MaxU64 + 1)      \* an unchecked ++ of a uint64_t
Inc32(a) == (a + 1) % (MaxU32 + 1)      \* an unchecked ++ of a uint32_t

-----------------------------------------------------------------------------
(* adapt(): the delta it starts from, the test of its loop, one division,  *)
(* and the bias it returns.  The loop itself is a step of its caller.      *)
AdaptStart(delta, numpoints, firstTime) ==
    LET d == delta \div (IF firstTime THEN Damp ELSE 2)
    IN  d + d \div numpoints

AdaptAgain(d) == d > ((Base - TMin) * TMax) \div 2

AdaptDivide(d) == d \div (Base - TMin)

AdaptResult(d, k) == k + ((Base - TMin + 1) * d) \div (d + Skew)
=============================================================================
