------------------------------ MODULE Decoder -------------------------------
(***************************************************************************)
(* punycode_decode_label_fallback (src/src/punycoder_algorithm.cpp, lines  *)
(* 193-294): the bytes that follow "xn--" become the code points of a      *)
(* label, or one of six errors.  A step is one iteration of a loop.        *)
(***************************************************************************)
EXTENDS DecoderInput, SequencesExt

VARIABLES
    label,          \* the bytes after the ACE prefix
    pc,             \* the loop the function is in
    index,          \* the next byte to read
    output,         \* the code points so far
    n, i, bias,     \* the decoder state of RFC 3492
    oldi, w, k,     \* locals of the digit loop; k is also adapt()'s own k
    d,              \* adapt()'s running delta
    err

vars == <<label, pc, index, output, n, i, bias, oldi, w, k, d, err>>
digitVars == <<oldi, w, k, d>>

(* The function is entered with label l. *)
Entry(l) == /\ label = l
            /\ pc = "start" /\ index = 1 /\ output = <<>>
            /\ n = InitialN /\ i = 0 /\ bias = InitialBias
            /\ oldi = 0 /\ w = 1 /\ k = 0 /\ d = 0 /\ err = "none"

Init == \E l \in Payloads : Entry(l)

Fail(e) == pc' = "failed" /\ err' = e

(* Lines 203-210: the two early rejections. *)
TooLong == /\ pc = "start" /\ Len(label) + 4 > MaxLabelLength
           /\ Fail("label_length_limit")
           /\ UNCHANGED <<label, index, output, n, i, bias, digitVars>>

NoPayload == /\ pc = "start" /\ label = <<>>
             /\ Fail("invalid_punycode_label")
             /\ UNCHANGED <<label, index, output, n, i, bias, digitVars>>

Start == /\ pc = "start" /\ Len(label) + 4 <= MaxLabelLength /\ label # <<>>
         /\ pc' = "literals"
         /\ UNCHANGED <<label, index, output, n, i, bias, digitVars, err>>

(* A byte is literal when a delimiter follows it: the label is cut at the  *)
(* last one (find_last_of).                                                *)
IsLiteral(p) == \E r \in DOMAIN label : p < r /\ label[r] = Delimiter

(* Lines 218-232 *)
CopyLiteral == /\ pc = "literals" /\ IsLiteral(index)
               /\ IF IsLDH(label[index])
                  THEN /\ output' = Append(output, label[index])
                       /\ index' = index + 1
                       /\ UNCHANGED <<pc, err>>
                  ELSE Fail("invalid_basic_code_point") /\ UNCHANGED <<output, index>>
               /\ UNCHANGED <<label, n, i, bias, digitVars>>

EndLiterals == /\ pc = "literals" /\ ~IsLiteral(index)
               /\ index' = IF label[index] = Delimiter THEN index + 1 ELSE index
               /\ pc' = "integers"
               /\ UNCHANGED <<label, output, n, i, bias, digitVars, err>>

-----------------------------------------------------------------------------
(* Lines 240-244: the next variable-length integer. *)
NextInteger == /\ pc = "integers" /\ index <= Len(label)
               /\ oldi' = i /\ w' = 1 /\ k' = Base
               /\ pc' = "digits"
               /\ UNCHANGED <<label, index, output, n, i, bias, d, err>>

Truncated == /\ pc = "digits" /\ index > Len(label)
             /\ Fail("truncated_punycode_input")
             /\ UNCHANGED <<label, index, output, n, i, bias, digitVars>>

AtByte == pc = "digits" /\ index <= Len(label)
Digit  == DecodeDigit(label[index])
T      == Threshold(k, bias)

NoDigit == /\ AtByte /\ Digit < 0
           /\ index' = index + 1
           /\ Fail("invalid_punycode_digit")
           /\ UNCHANGED <<label, output, n, i, bias, digitVars>>

SumFits == MulFits(Digit, w) /\ AddFits(i, Digit * w)

(* Line 256, or line 263 once the digit has been added. *)
Overflow == /\ AtByte /\ Digit >= 0
            /\ ~SumFits \/ (Digit >= T /\ ~MulFits(w, Base - T))
            /\ index' = index + 1
            /\ Fail("punycode_overflow")
            /\ UNCHANGED <<label, output, n, i, bias, digitVars>>

(* Lines 254-263: a digit that is not the last of its integer. *)
TakeDigit == /\ AtByte /\ Digit >= T /\ SumFits /\ MulFits(w, Base - T)
             /\ index' = index + 1
             /\ i' = i + Digit * w
             /\ w' = w * (Base - T) /\ k' = k + Base
             /\ UNCHANGED <<label, pc, output, n, bias, oldi, d, err>>

(* Bug: adapt() gets the length before the insertion. *)
TakeLastShortLength ==
    /\ AtByte /\ Digit >= 0 /\ Digit < T /\ SumFits
    /\ index' = index + 1
    /\ i' = i + Digit * w
    /\ d' = AdaptStart(i' - oldi, Len(output) + 2, oldi = 0)
    /\ k' = 0 /\ pc' = "adapt"
    /\ UNCHANGED <<label, output, n, bias, oldi, w, err>>

(* Lines 254-261 and 266-267: the last digit, then adapt() is entered. *)
TakeLast == /\ AtByte /\ Digit >= 0 /\ Digit < T /\ SumFits
            /\ index' = index + 1
            /\ i' = i + Digit * w
            /\ d' = AdaptStart(i' - oldi, Len(output) + 1, oldi = 0)
            /\ k' = 0 /\ pc' = "adapt"
            /\ UNCHANGED <<label, output, n, bias, oldi, w, err>>

AdaptLoop == /\ pc = "adapt" /\ AdaptAgain(d)
             /\ d' = AdaptDivide(d) /\ k' = k + Base
             /\ UNCHANGED <<label, pc, index, output, n, i, bias, oldi, w, err>>

EndAdapt == /\ pc = "adapt" /\ ~AdaptAgain(d)
            /\ bias' = AdaptResult(d, k)
            /\ pc' = "insert"
            /\ UNCHANGED <<label, index, output, n, i, digitVars, err>>

-----------------------------------------------------------------------------
OutLen == Len(output) + 1

(* Bug: the quotient replaces n. *)
NextNFromZero == i \div OutLen

NextN  == n + i \div OutLen

(* Lines 270-279: the two ways the integer leads nowhere. *)
NOverflow == /\ pc = "insert" /\ i \div OutLen > MaxU32 - n
             /\ Fail("punycode_overflow")
             /\ UNCHANGED <<label, index, output, n, i, bias, digitVars>>

NotScalar == /\ pc = "insert" /\ i \div OutLen <= MaxU32 - n /\ ~IsScalar(NextN)
             /\ Fail("decoded_code_point_out_of_range")
             /\ UNCHANGED <<label, index, output, n, i, bias, digitVars>>

(* Bug: i is left in front of the code point just inserted. *)
InsertSameI == /\ pc = "insert" /\ i \div OutLen <= MaxU32 - n /\ IsScalar(NextN)
               /\ output' = InsertAt(output, (i % OutLen) + 1, NextN)
               /\ n' = NextN /\ i' = i % OutLen
               /\ pc' = "integers"
               /\ UNCHANGED <<label, index, bias, digitVars, err>>

(* Bug: n is not carried to the next insertion. *)
InsertSameN == /\ pc = "insert" /\ i \div OutLen <= MaxU32 - n /\ IsScalar(NextN)
               /\ output' = InsertAt(output, (i % OutLen) + 1, NextN)
               /\ i' = (i % OutLen) + 1
               /\ pc' = "integers"
               /\ UNCHANGED <<label, index, n, bias, digitVars, err>>

(* Lines 274-282 *)
Insert == /\ pc = "insert" /\ i \div OutLen <= MaxU32 - n /\ IsScalar(NextN)
          /\ output' = InsertAt(output, (i % OutLen) + 1, NextN)
          /\ n' = NextN /\ i' = (i % OutLen) + 1
          /\ pc' = "integers"
          /\ UNCHANGED <<label, index, bias, digitVars, err>>

(* Lines 289-293 *)
Finish == /\ pc = "integers" /\ index > Len(label)
          /\ IF output = <<>> THEN Fail("invalid_punycode_label")
             ELSE pc' = "done" /\ UNCHANGED err
          /\ UNCHANGED <<label, index, output, n, i, bias, digitVars>>

Next == \/ TooLong \/ NoPayload \/ Start
        \/ CopyLiteral \/ EndLiterals
        \/ NextInteger \/ Truncated \/ NoDigit \/ Overflow
        \/ TakeDigit \/ TakeLast \/ AdaptLoop \/ EndAdapt
        \/ NOverflow \/ NotScalar \/ Insert \/ Finish

Spec == Init /\ [][Next]_vars

-----------------------------------------------------------------------------
Errors == {"none", "label_length_limit", "invalid_punycode_label",
           "invalid_basic_code_point", "truncated_punycode_input",
           "invalid_punycode_digit", "punycode_overflow",
           "decoded_code_point_out_of_range"}

(* Every variable stays in its C++ type and the reader inside its label. *)
TypeOK ==
    /\ label \in Seq(0..255)
    /\ pc \in {"start", "literals", "integers", "digits", "adapt", "insert", "done", "failed"}
    /\ index \in 1..(Len(label) + 1)
    /\ output \in Seq(CodePoints)
    /\ n \in 0..MaxU32 /\ i \in 0..MaxU64 /\ bias \in Nat
    /\ oldi \in 0..MaxU64 /\ w \in 0..MaxU64 /\ k \in Nat /\ d \in Nat
    /\ err \in Errors

Literals == {p \in DOMAIN label : IsLiteral(p)}

(* adapt() is told of the first integer by oldi = 0 (line 267) where the   *)
(* encoder compares two counters (line 180): the two agree because i is    *)
(* never 0 again once a code point has been inserted.                      *)
FirstTimeIsFirst ==
    pc \in {"digits", "adapt"} =>
        (oldi = 0 <=> \A p \in DOMAIN output : IsBasic(output[p]))

(* Insertions happen by increasing code point, equal code points from left *)
(* to right, after all literals: one label has one order of insertions.    *)
State(m, at) == IF pc \in {"digits", "adapt", "insert", "failed"}
                THEN <<m, oldi>> ELSE <<m, at>>

Abstract == INSTANCE Insertions WITH str <- output, at <- State(n, i)

InsertsInOrder == Abstract!Spec

=============================================================================
