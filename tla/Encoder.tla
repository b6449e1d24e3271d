------------------------------ MODULE Encoder -------------------------------
(***************************************************************************)
(* punycode_encode_label_fallback (src/src/punycoder_algorithm.cpp, lines  *)
(* 86-191): one label, given as its code points, becomes the bytes that    *)
(* follow "xn--".  A step is one iteration of one of its loops.            *)
(***************************************************************************)
EXTENDS Bootstring, SequencesExt

CONSTANT Inputs     \* the labels, sequences of code points

(* Labels are non-empty: the domain layer rejects an empty one before it   *)
(* reaches the encoder.  The 64-bit delta has room for the longest label:  *)
(* with the real width this is 1114112 * (length + 1) < 2^64.              *)
ASSUME InputAssumption ==
    \A s \in Inputs : /\ s \in Seq(CodePoints) /\ s # <<>>
                      /\ (MaxScalar + 2) * (Len(s) + 1) <= MaxU64

VARIABLES
    cps,            \* input.codepoints
    pc,             \* the loop the function is in
    j,              \* the position of the running range-for over cps
    out,            \* the bytes written after "xn--"
    basicCount, handled,
    n, delta, bias,
    q, k,           \* locals of the digit loop; k is also adapt()'s own k
    d,              \* adapt()'s running delta
    err             \* the ErrorCode thrown, "none" while there is none

vars == <<cps, pc, j, out, basicCount, handled, n, delta, bias, q, k, d, err>>
digitVars == <<q, k, d>>

HasNonAscii(s) == \E p \in DOMAIN s : ~IsBasic(s[p])

(* The function is entered with label s. *)
Entry(s) == /\ cps = s
            /\ pc = "prepare" /\ j = 1 /\ out = <<>> /\ basicCount = 0
            /\ handled = 0 /\ n = InitialN /\ delta = 0 /\ bias = InitialBias
            /\ q = 0 /\ k = 0 /\ d = 0 /\ err = "none"

Init == \E s \in Inputs : Entry(s)

(* prepare_encode_input: an all-ASCII label is returned as it came. *)
ReturnAscii == /\ pc = "prepare" /\ ~HasNonAscii(cps)
               /\ out' = cps /\ pc' = "done"
               /\ UNCHANGED <<cps, j, basicCount, handled, n, delta, bias, digitVars, err>>

Prepare == /\ pc = "prepare" /\ HasNonAscii(cps)
           /\ pc' = "copy"
           /\ UNCHANGED <<cps, j, out, basicCount, handled, n, delta, bias, digitVars, err>>

(* Lines 124-130: the basic code points are copied in order. *)
CopyBasic == /\ pc = "copy" /\ j <= Len(cps)
             /\ j' = j + 1
             /\ IF IsBasic(cps[j])
                THEN /\ out' = Append(out, cps[j])
                     /\ basicCount' = basicCount + 1 /\ handled' = handled + 1
                ELSE UNCHANGED <<out, basicCount, handled>>
             /\ UNCHANGED <<cps, pc, n, delta, bias, digitVars, err>>

EndCopy == /\ pc = "copy" /\ j > Len(cps)
           /\ out' = IF basicCount > 0 THEN Append(out, Delimiter) ELSE out
           /\ pc' = "minimum"
           /\ UNCHANGED <<cps, j, basicCount, handled, n, delta, bias, digitVars, err>>

-----------------------------------------------------------------------------
Fail(e) == pc' = "failed" /\ err' = e

Candidates == {c \in {cps[p] : p \in DOMAIN cps} : n <= c /\ c < MaxU32}

(* Bug: the comparison of line 143 is turned round. *)
MinimumLargest == CHOOSE c \in Candidates : \A e \in Candidates : c >= e

Minimum == CHOOSE c \in Candidates : \A e \in Candidates : c <= e

(* Lines 140-158: the smallest code point not yet handled, and the delta   *)
(* that takes the decoder's state there.                                   *)
NextMinimum ==
    /\ pc = "minimum" /\ handled < Len(cps)
    /\ IF \/ Candidates = {}
          \/ ~MulFits(Minimum - n, handled + 1)
          \/ ~AddFits(delta, (Minimum - n) * (handled + 1))
       THEN Fail("punycode_overflow") /\ UNCHANGED <<delta, n, j>>
       ELSE /\ delta' = delta + (Minimum - n) * (handled + 1)
            /\ n' = Minimum
            /\ j' = 1 /\ pc' = "scan" /\ UNCHANGED err
    /\ UNCHANGED <<cps, out, basicCount, handled, bias, digitVars>>

Finish == /\ pc = "minimum" /\ handled >= Len(cps)
          /\ pc' = "done"
          /\ UNCHANGED <<cps, j, out, basicCount, handled, n, delta, bias, digitVars, err>>

(* Lines 160-184: one code point of the scan. *)
ScanSmaller == /\ pc = "scan" /\ j <= Len(cps) /\ cps[j] < n
               /\ IF AddFits(delta, 1)
                  THEN delta' = delta + 1 /\ j' = j + 1 /\ UNCHANGED <<pc, err>>
                  ELSE Fail("punycode_overflow") /\ UNCHANGED <<delta, j>>
               /\ UNCHANGED <<cps, out, basicCount, handled, n, bias, digitVars>>

(* Bug: a code point that is passed over does not move the scan. *)
ScanLargerStuck ==
    /\ pc = "scan" /\ j <= Len(cps) /\ cps[j] > n
    /\ UNCHANGED vars

ScanLarger == /\ pc = "scan" /\ j <= Len(cps) /\ cps[j] > n
              /\ j' = j + 1
              /\ UNCHANGED <<cps, pc, out, basicCount, handled, n, delta, bias, digitVars, err>>

ScanEqual == /\ pc = "scan" /\ j <= Len(cps) /\ cps[j] = n
             /\ q' = delta /\ k' = Base /\ pc' = "digits"
             /\ UNCHANGED <<cps, j, out, basicCount, handled, n, delta, bias, d, err>>

(* Lines 186-187: both increments are unchecked. *)
EndScan == /\ pc = "scan" /\ j > Len(cps)
           /\ delta' = Inc64(delta) /\ n' = Inc32(n) /\ pc' = "minimum"
           /\ UNCHANGED <<cps, j, out, basicCount, handled, bias, digitVars, err>>

-----------------------------------------------------------------------------
T == Threshold(k, bias)

(* Bug: the remainder is taken modulo the base. *)
DigitModBase == T + ((q - T) % Base)

(* The digit written while q >= T. *)
Digit == T + ((q - T) % (Base - T))

(* Lines 167-177: one digit of the variable-length integer. *)
EmitDigit == /\ pc = "digits" /\ q >= T
             /\ IF HasDigit(Digit)
                THEN /\ out' = Append(out, EncodeDigit(Digit))
                     /\ q' = (q - T) \div (Base - T) /\ k' = k + Base
                     /\ UNCHANGED <<pc, err>>
                ELSE Fail("invalid_punycode_digit") /\ UNCHANGED <<out, q, k>>
             /\ UNCHANGED <<cps, j, basicCount, handled, n, delta, bias, d>>

(* Bug: the bias is damped for the first code point of the label only. *)
EmitLastNeverFirst ==
    /\ pc = "digits" /\ q < T
    /\ out' = Append(out, EncodeDigit(q))
    /\ d' = AdaptStart(delta, handled + 1, handled = 0)
    /\ k' = 0 /\ pc' = "adapt"
    /\ UNCHANGED <<cps, j, basicCount, handled, n, delta, bias, q, err>>

(* Lines 179-180: the last digit, then adapt() is entered. *)
EmitLast == /\ pc = "digits" /\ q < T
            /\ IF HasDigit(q)
               THEN /\ out' = Append(out, EncodeDigit(q))
                    /\ d' = AdaptStart(delta, handled + 1, handled = basicCount)
                    /\ k' = 0 /\ pc' = "adapt" /\ UNCHANGED err
               ELSE Fail("invalid_punycode_digit") /\ UNCHANGED <<out, k, d>>
            /\ UNCHANGED <<cps, j, basicCount, handled, n, delta, bias, q>>

AdaptLoop == /\ pc = "adapt" /\ AdaptAgain(d)
             /\ d' = AdaptDivide(d) /\ k' = k + Base
             /\ UNCHANGED <<cps, pc, j, out, basicCount, handled, n, delta, bias, q, err>>

(* adapt() returns; lines 181-182. *)
EndAdapt == /\ pc = "adapt" /\ ~AdaptAgain(d)
            /\ bias' = AdaptResult(d, k)
            /\ delta' = 0 /\ handled' = handled + 1
            /\ j' = j + 1 /\ pc' = "scan"
            /\ UNCHANGED <<cps, out, basicCount, n, digitVars, err>>

Next == \/ ReturnAscii \/ Prepare \/ CopyBasic \/ EndCopy
        \/ NextMinimum \/ Finish
        \/ ScanSmaller \/ ScanLarger \/ ScanEqual \/ EndScan
        \/ EmitDigit \/ EmitLast \/ AdaptLoop \/ EndAdapt

Spec == Init /\ [][Next]_vars

-----------------------------------------------------------------------------
(* The positions whose code point has been written. *)
HandledPositions ==
    IF ~HasNonAscii(cps) THEN {}
    ELSE IF pc \in {"prepare", "copy"} THEN {p \in DOMAIN cps : p < j /\ IsBasic(cps[p])}
    ELSE IF pc \in {"scan", "digits", "adapt"}
         THEN {p \in DOMAIN cps : cps[p] < n \/ (cps[p] = n /\ p < j)}
    ELSE {p \in DOMAIN cps : cps[p] < n}

(* Every variable stays in its C++ type: the three loops never leave the   *)
(* label, and no uint32_t or uint64_t holds a value its width cannot.      *)
TypeOK ==
    /\ cps \in Seq(CodePoints)
    /\ pc \in {"prepare", "copy", "minimum", "scan", "digits", "adapt", "done", "failed"}
    /\ j \in 1..(Len(cps) + 1)
    /\ out \in Seq(0..127)
    /\ basicCount \in 0..Len(cps) /\ handled \in 0..Len(cps)
    /\ n \in 0..MaxU32 /\ delta \in 0..MaxU64 /\ bias \in Nat
    /\ q \in Nat /\ k \in Nat /\ d \in Nat
    /\ err \in {"none", "punycode_overflow", "invalid_punycode_digit"}

(* None of the four throws the source marks "# nocov" can be reached: the  *)
(* sums fit 64 bits (line 21), every digit is below 36 (line 68), and      *)
(* while a code point is left the search for the next one finds it (149).  *)
NeverThrows == err = "none"

(* The counter `handled`, which scales delta and ends the outer loop, is   *)
(* the number of positions written: the two loops that increment it (lines *)
(* 124 and 160) neither skip a repeated code point nor count one twice.    *)
CountsHandled ==
    HasNonAscii(cps) => handled = Cardinality(HandledPositions)

(* What keeps delta in 64 bits: it is at most the number of places the     *)
(* decoder's state has to step over to reach the scan's position.          *)
DeltaBounded ==
    delta <= (n - InitialN) * (Len(cps) + 1)
             + (IF pc \in {"scan", "digits", "adapt"} THEN j - 1 ELSE 0)

(* Where control is, for the proofs. *)
Located ==
    /\ pc = "prepare" => j = 1 /\ handled = 0
    /\ pc \in {"prepare", "copy"} => n = InitialN /\ delta = 0
    /\ pc \notin {"prepare", "done"} => HasNonAscii(cps)
    /\ n \in InitialN..(MaxScalar + 1)
    /\ pc \in {"scan", "digits", "adapt"} => n <= MaxScalar
    /\ pc \in {"digits", "adapt"} => j <= Len(cps) /\ cps[j] = n
    /\ basicCount <= handled
    /\ (MaxScalar + 2) * (Len(cps) + 1) <= MaxU64

IInv == TypeOK /\ NeverThrows /\ CountsHandled /\ DeltaBounded /\ Located

(* Positions are written one at a time, basic ones first in label order,   *)
(* then by increasing code point, equal ones in label order.               *)
Order == INSTANCE InsertionOrder WITH written <- HandledPositions

WritesInOrder == Order!Spec
=============================================================================
