--------------------------- MODULE EncoderProofs ----------------------------
(***************************************************************************)
(* The encoder keeps its inductive invariant, so it never throws, its      *)
(* counter counts, and its delta stays in 64 bits, for every set of labels *)
(* and every parameter and width the assumptions allow.  And what it       *)
(* writes leaves a trace a decoder can follow.                             *)
(***************************************************************************)
EXTENDS Encoder, Trace, FiniteSetTheorems, SequenceTheorems, WellFoundedInduction, TLAPS

(* Facts about the operators of Bootstring, for the decoder's proofs too.  *)

(* The threshold of a digit is never 0 and at most kTmax.  It is at least  *)
(* kTmin too when kTmin is 1, as here: RFC 3492 clamps at bias + tmin, the *)
(* code at bias.                                                           *)
LEMMA ThresholdRange ==
    ASSUME NEW a \in Nat, NEW b \in Nat
    PROVE  Threshold(a, b) \in 1..TMax
  BY BootstringAssumption DEF Threshold

(* 0x10FFFF, and where the widths and the first code point stand to it.    *)
LEMMA MaxScalarRange ==
    /\ MaxScalar \in Nat /\ InitialN \in Nat /\ InitialN < MaxScalar
    /\ MaxScalar < MaxU32 /\ MaxU32 \in Nat /\ MaxU64 \in Nat /\ MaxU32 <= MaxU64
  BY WidthAssumption, SMT DEF MaxScalar, InitialN

(* A quotient is no larger than its dividend, and it and the remainder     *)
(* make the dividend up again.                                             *)
LEMMA Division ==
    ASSUME NEW a \in Nat, NEW b \in Nat \ {0}
    PROVE  /\ a \div b \in 0..a
           /\ a % b \in 0..(b - 1)
           /\ a = b * (a \div b) + (a % b)
<1>1. a % b \in 0..(b - 1) /\ a \div b \in Int /\ a = b * (a \div b) + (a % b)
  OBVIOUS
<1>2. a \div b >= 0
  <2> SUFFICES ASSUME a \div b <= -1 PROVE FALSE
    BY <1>1
  <2>1. b * (a \div b) <= b * (-1)
    BY <1>1
  <2> QED BY <1>1, <2>1
<1>3. b * (a \div b) >= a \div b
  BY <1>1, <1>2
<1> QED BY <1>1, <1>2, <1>3

(* A non-empty set of numbers has a least element.                         *)
LEMMA LeastElement ==
    ASSUME NEW S \in SUBSET Nat, S # {}
    PROVE  \E m \in S : \A e \in S : m <= e
<1> DEFINE R == {ss \in Nat \X Nat : ss[1] < ss[2]}
<1>1. IsWellFoundedOn(R, Nat)
  BY NatLessThanWellFounded DEF OpToRel
<1> HIDE DEF R
<1>2. PICK m \in S : \A e \in S : ~ (<<e, m>> \in R)
  BY <1>1, WFMin
<1>3. ASSUME NEW e \in S PROVE m <= e
  <2>1. <<e, m>> \in Nat \X Nat /\ ~(<<e, m>> \in R)
    BY <1>2
  <2>2. ~(e < m)
    BY <2>1 DEF R
  <2> QED BY <2>2
<1> QED BY <1>3

(* adapt() starts from a natural number and keeps to natural numbers.      *)
LEMMA AdaptType ==
    /\ \A x \in Nat, p \in Nat \ {0}, f \in BOOLEAN : AdaptStart(x, p, f) \in Nat
    /\ \A x \in Nat : AdaptDivide(x) \in Nat
    /\ \A x \in Nat, y \in Nat : AdaptResult(x, y) \in Nat
<1>1. ASSUME NEW x \in Nat, NEW p \in Nat \ {0}, NEW f \in BOOLEAN
      PROVE  AdaptStart(x, p, f) \in Nat
  <2> DEFINE y == x \div (IF f THEN Damp ELSE 2)
  <2>1. y \in Nat
    BY Division, BootstringAssumption
  <2>2. y \div p \in Nat
    BY <2>1, Division
  <2> QED BY <2>1, <2>2 DEF AdaptStart
<1>2. ASSUME NEW x \in Nat PROVE AdaptDivide(x) \in Nat
  BY Division, BootstringAssumption DEF AdaptDivide
<1>3. ASSUME NEW x \in Nat, NEW y \in Nat PROVE AdaptResult(x, y) \in Nat
  <2>1. (Base - TMin + 1) * x \in Nat /\ x + Skew \in Nat \ {0}
    BY BootstringAssumption
  <2>2. ((Base - TMin + 1) * x) \div (x + Skew) \in Nat
    BY <2>1, Division
  <2> QED BY <2>2 DEF AdaptResult
<1> QED BY <1>1, <1>2, <1>3

-----------------------------------------------------------------------------
(* The arithmetic the scan needs: a bound of at most 2^64 on delta.        *)
LEMMA Product ==
    ASSUME NEW a \in Nat, NEW b \in Nat, NEW c \in Nat, a <= b
    PROVE  a * c \in Nat /\ a * c <= b * c
<1>1. a * c \in Nat /\ (b - a) * c \in Nat
  OBVIOUS
<1>2. b * c = a * c + (b - a) * c
  OBVIOUS
<1> QED BY <1>1, <1>2

(* A set of positions of the label is finite and no larger than the label. *)
LEMMA Positions ==
    ASSUME TypeOK, NEW S \in SUBSET DOMAIN cps
    PROVE  /\ DOMAIN cps = 1..Len(cps) /\ Len(cps) \in Nat
           /\ IsFiniteSet(S) /\ Cardinality(S) \in 0..Len(cps)
           /\ Cardinality(DOMAIN cps) = Len(cps)
           /\ Cardinality(S) = Len(cps) => S = DOMAIN cps
<1>1. DOMAIN cps = 1..Len(cps) /\ Len(cps) \in Nat
  BY DEF TypeOK
<1>2. IsFiniteSet(DOMAIN cps) /\ Cardinality(DOMAIN cps) = Len(cps)
  BY <1>1, FS_Interval
<1>3. /\ IsFiniteSet(S) /\ Cardinality(S) <= Len(cps)
      /\ Cardinality(S) = Len(cps) => S = DOMAIN cps
  BY <1>2, FS_Subset
<1>4. Cardinality(S) \in Nat
  BY <1>3, FS_CardinalityType
<1> QED BY <1>1, <1>2, <1>3, <1>4

LEMMA BasicRange == \A x \in Nat : x < InitialN => x \in 0..127
  BY DEF InitialN

LEMMA CodePointOf ==
    ASSUME TypeOK, NEW p \in DOMAIN cps
    PROVE  cps[p] \in 0..MaxScalar /\ cps[p] \in Nat /\ p \in 1..Len(cps)
<1>1. cps \in Seq(0..MaxScalar) /\ p \in 1..Len(cps)
  BY DEF TypeOK, CodePoints
<1>2. cps[p] \in 0..MaxScalar
  BY <1>1, ElementOfSeq, Zenon
<1> QED BY <1>1, <1>2, MaxScalarRange

(* While a code point is left to write the search for the next one finds   *)
(* the least of those not yet passed.                                      *)
LEMMA MinimumFound ==
    ASSUME IInv, pc = "minimum", handled < Len(cps)
    PROVE  /\ Candidates # {}
           /\ Minimum \in n..MaxScalar
           /\ \A p \in DOMAIN cps : cps[p] >= n => cps[p] >= Minimum
           /\ \E p \in DOMAIN cps : cps[p] = Minimum
<1> DEFINE S == {p \in DOMAIN cps : cps[p] < n}
<1> USE DEF IInv
<1>1. HandledPositions = S /\ HasNonAscii(cps)
  BY DEF HandledPositions, Located
<1>2. Cardinality(S) = handled
  BY <1>1 DEF CountsHandled
<1> HIDE DEF S
<1>3. S # DOMAIN cps
  BY <1>2, Positions DEF TypeOK
<1> USE DEF S
<1>4. \A p \in DOMAIN cps : cps[p] \in 0..MaxScalar
  BY CodePointOf
<1>5. n \in Nat
  BY MaxScalarRange DEF TypeOK
<1>6. PICK p \in DOMAIN cps : cps[p] >= n
  <2> SUFFICES ASSUME \A p \in DOMAIN cps : ~(cps[p] >= n) PROVE FALSE
    OBVIOUS
  <2>1. \A p \in DOMAIN cps : cps[p] < n
    BY <1>4, <1>5, MaxScalarRange
  <2>2. S = DOMAIN cps
    BY <2>1
  <2> QED BY <2>2, <1>3
<1>7. cps[p] \in Candidates
  BY <1>4, <1>5, <1>6, MaxScalarRange DEF Candidates
<1>8. Candidates \in SUBSET Nat
  BY <1>4, MaxScalarRange DEF Candidates
<1>9. \E c \in Candidates : \A e \in Candidates : c <= e
  BY <1>7, <1>8, LeastElement
<1>10. Minimum \in Candidates /\ \A e \in Candidates : Minimum <= e
  BY <1>9 DEF Minimum
<1>11. \A r \in DOMAIN cps : cps[r] >= n => cps[r] \in Candidates
  BY <1>4, <1>5, MaxScalarRange DEF Candidates
<1>12. PICK r \in DOMAIN cps : Minimum = cps[r] /\ n <= cps[r]
  BY <1>10 DEF Candidates
<1> QED BY <1>7, <1>4, <1>5, <1>10, <1>11, <1>12

(* The room the length bound on labels leaves in a uint64_t.               *)
LEMMA Room ==
    ASSUME IInv, NEW a \in Nat, a <= MaxScalar + 1, NEW x \in Nat, x <= Len(cps) + 1
    PROVE  /\ Len(cps) \in Nat
           /\ a * (Len(cps) + 1) \in Nat
           /\ a * (Len(cps) + 1) + x <= MaxU64
<1> DEFINE L == Len(cps) + 1
<1>1. Len(cps) \in Nat /\ L \in Nat
  BY DEF IInv, TypeOK
<1>2. (MaxScalar + 2) * L <= MaxU64
  BY DEF IInv, Located
<1> HIDE DEF L
<1>3. (MaxScalar + 2) * L = (MaxScalar + 1) * L + L
  BY <1>1, MaxScalarRange
<1>4. a * L \in Nat /\ a * L <= (MaxScalar + 1) * L
  BY <1>1, MaxScalarRange, Product
<1>5. (MaxScalar + 1) * L \in Nat
  BY <1>1, MaxScalarRange
<1>6. a * L + x <= MaxU64
  BY <1>1, <1>2, <1>3, <1>4, <1>5, MaxScalarRange DEF L
<1> QED BY <1>1, <1>4, <1>6 DEF L

LEMMA MulFitsWhenProductDoes ==
    ASSUME NEW a \in Nat, NEW b \in Nat \ {0}, a * b <= MaxU64
    PROVE  MulFits(a, b)
<1> DEFINE Q == MaxU64 \div b
<1>1. Q \in Nat /\ MaxU64 % b < b /\ MaxU64 % b \in Nat /\ MaxU64 = b * Q + (MaxU64 % b)
  BY Division, MaxScalarRange
<1> SUFFICES ASSUME a >= Q + 1 PROVE FALSE
  BY <1>1 DEF MulFits
<1> HIDE DEF Q
<1>2. (Q + 1) * b <= a * b
  BY <1>1, Product
<1>3. (Q + 1) * b = b * Q + b
  BY <1>1
<1>4. b * Q \in Nat
  BY <1>1
<1> QED BY <1>1, <1>2, <1>3, <1>4, MaxScalarRange

-----------------------------------------------------------------------------
(* The function as it is entered, with a label that is not too long.       *)
Entered ==
    /\ Entry(cps) /\ cps \in Seq(CodePoints)
    /\ (MaxScalar + 2) * (Len(cps) + 1) <= MaxU64

LEMMA EntryInv == Entered => IInv /\ HandledPositions = {}
<1> SUFFICES ASSUME Entered PROVE IInv /\ HandledPositions = {}
  OBVIOUS
<1>1. Entry(cps) /\ cps \in Seq(CodePoints) /\ Len(cps) \in Nat
  BY DEF Entered
<1>2. (MaxScalar + 2) * (Len(cps) + 1) <= MaxU64
  BY DEF Entered
<1>3. TypeOK
  BY <1>1, BootstringAssumption, MaxScalarRange DEF Entry, TypeOK
<1>4. HandledPositions = {}
  <2>1. ~ \E p \in DOMAIN cps : p < 1
    BY <1>1
  <2> QED BY <1>1, <2>1 DEF Entry, HandledPositions
<1>5. CountsHandled
  BY <1>1, <1>4, FS_EmptySet DEF Entry, CountsHandled
<1>6. DeltaBounded
  BY <1>1, MaxScalarRange DEF Entry, DeltaBounded
<1>7. Located
  BY <1>1, <1>2, MaxScalarRange DEF Entry, Located
<1> QED BY <1>1, <1>3, <1>4, <1>5, <1>6, <1>7 DEF IInv, Entry, NeverThrows

LEMMA InitInv == Init => IInv /\ HandledPositions = {}
<1>1. Init => Entered
  BY InputAssumption DEF Init, Entry, Entered
<1> QED BY <1>1, EntryInv

-----------------------------------------------------------------------------
(* Before the outer loop. *)
LEMMA PrepareInv == ASSUME IInv, ReturnAscii \/ Prepare PROVE IInv' /\ UNCHANGED HandledPositions
<1> USE DEF IInv, ReturnAscii, Prepare, digitVars
<1>1. pc = "prepare" /\ UNCHANGED <<cps, j, basicCount, handled, n, delta, bias, q, k, d, err>>
      /\ pc' = (IF HasNonAscii(cps) THEN "copy" ELSE "done")
  OBVIOUS
<1>2. out' \in Seq(0..127)
  <2>1. CASE Prepare
    BY <2>1 DEF TypeOK
  <2>2. CASE ReturnAscii
    <3>1. cps \in [1..Len(cps) -> CodePoints] /\ Len(cps) \in Nat /\ DOMAIN cps = 1..Len(cps)
      BY LenProperties DEF TypeOK
    <3>2. ASSUME NEW p \in 1..Len(cps) PROVE cps[p] \in 0..127
      <4>1. cps[p] \in Nat
        BY <3>1, CodePointOf
      <4>2. cps[p] < InitialN
        BY <2>2, <3>1 DEF HasNonAscii, IsBasic
      <4> QED BY <4>1, <4>2, BasicRange
    <3>3. cps \in [1..Len(cps) -> 0..127]
      BY <3>1, <3>2
    <3>4. cps \in Seq(0..127)
      BY <3>1, <3>3, SeqDef
    <3> QED BY <2>2, <3>4
  <2> QED BY <2>1, <2>2
<1>3. TypeOK'
  BY <1>1, <1>2 DEF TypeOK
<1>4. HasNonAscii(cps)' = HasNonAscii(cps)
  BY <1>1 DEF HasNonAscii
<1>5. HandledPositions' = HandledPositions
  BY <1>1, <1>4 DEF HandledPositions
<1>6. CountsHandled'
  BY <1>1, <1>4, <1>5 DEF CountsHandled
<1>7. DeltaBounded'
  BY <1>1 DEF DeltaBounded
<1>8. Located'
  BY <1>1, <1>4 DEF Located
<1> QED BY <1>5, <1>1, <1>3, <1>6, <1>7, <1>8 DEF NeverThrows

LEMMA CopyInv == ASSUME IInv, CopyBasic PROVE IInv'
<1> USE DEF IInv, digitVars
<1>1. /\ pc = "copy" /\ pc' = "copy" /\ j \in 1..Len(cps) /\ j' = j + 1
      /\ UNCHANGED <<cps, n, delta, bias, q, k, d, err>>
      /\ Len(cps) \in Nat /\ DOMAIN cps = 1..Len(cps)
  BY DEF CopyBasic, TypeOK
<1>2. HasNonAscii(cps)' = HasNonAscii(cps) /\ HasNonAscii(cps)
  BY <1>1 DEF HasNonAscii, Located
<1>3. IsBasic(cps[j]) <=> cps[j] < InitialN
  BY DEF IsBasic
<1> DEFINE S == {p \in DOMAIN cps : p < j /\ IsBasic(cps[p])}
           S1 == {p \in DOMAIN cps : p < j + 1 /\ IsBasic(cps[p])}
<1>4. handled = Cardinality(S) /\ HandledPositions' = S1
  BY <1>1, <1>2 DEF CountsHandled, HandledPositions
<1>5. S1 = IF IsBasic(cps[j]) THEN S \cup {j} ELSE S
  BY <1>1
<1>6. j \notin S /\ IsFiniteSet(S)
  BY <1>1, Positions
<1>7. Cardinality(S1) = (IF IsBasic(cps[j]) THEN handled + 1 ELSE handled)
  <2> HIDE DEF S, S1
  <2> QED BY <1>4, <1>5, <1>6, FS_AddElement
<1>8. handled' = Cardinality(S1) /\ basicCount' <= handled'
      /\ basicCount' \in Nat /\ handled' \in Nat
  <2> HIDE DEF S, S1
  <2> QED BY <1>7 DEF CopyBasic, TypeOK, Located
<1>9. S1 \in SUBSET DOMAIN cps
  OBVIOUS
<1>10. handled' \in 0..Len(cps)
  <2> HIDE DEF S, S1
  <2> QED BY <1>8, <1>9, Positions
<1>11. out' \in Seq(0..127)
  <2>1. cps[j] \in Nat
    BY <1>1, CodePointOf
  <2>2. CASE IsBasic(cps[j])
    <3>1. cps[j] \in 0..127
      BY <2>1, <2>2, BasicRange DEF IsBasic
    <3>2. out \in Seq(0..127)
      BY DEF TypeOK
    <3>3. Append(out, cps[j]) \in Seq(0..127)
      BY <3>1, <3>2, AppendProperties
    <3>4. out' = Append(out, cps[j])
      BY <2>2 DEF CopyBasic
    <3> QED BY <3>3, <3>4
  <2>3. CASE ~IsBasic(cps[j])
    BY <2>3 DEF CopyBasic, TypeOK
  <2> QED BY <2>2, <2>3
<1>12. TypeOK'
  BY <1>1, <1>8, <1>10, <1>11 DEF TypeOK
<1>13. CountsHandled'
  BY <1>4, <1>8 DEF CountsHandled
<1>14. DeltaBounded'
  BY <1>1 DEF DeltaBounded
<1>15. Located'
  BY <1>1, <1>2, <1>8 DEF Located
<1> QED BY <1>1, <1>12, <1>13, <1>14, <1>15 DEF NeverThrows

LEMMA EndCopyInv == ASSUME IInv, EndCopy PROVE IInv' /\ UNCHANGED HandledPositions
<1> USE DEF IInv, digitVars
<1>1. /\ pc = "copy" /\ pc' = "minimum" /\ j > Len(cps) /\ n = InitialN
      /\ UNCHANGED <<cps, j, basicCount, handled, n, delta, bias, q, k, d, err>>
      /\ Len(cps) \in Nat /\ DOMAIN cps = 1..Len(cps) /\ j \in Nat
  BY DEF EndCopy, TypeOK, Located
<1>2. HasNonAscii(cps)' = HasNonAscii(cps) /\ HasNonAscii(cps)
  BY <1>1 DEF HasNonAscii, Located
<1>3. out' \in Seq(0..127)
  <2>1. out \in Seq(0..127) /\ Delimiter \in 0..127
    BY DEF TypeOK, Delimiter
  <2> QED BY <2>1, AppendProperties DEF EndCopy
<1>4. TypeOK'
  BY <1>1, <1>3 DEF TypeOK
<1>5. HandledPositions' = HandledPositions
  BY <1>1, <1>2 DEF HandledPositions, IsBasic
<1>6. CountsHandled'
  BY <1>1, <1>2, <1>5 DEF CountsHandled
<1>7. DeltaBounded'
  BY <1>1 DEF DeltaBounded
<1>8. Located'
  BY <1>1, <1>2 DEF Located
<1> QED BY <1>5, <1>1, <1>4, <1>6, <1>7, <1>8 DEF NeverThrows

-----------------------------------------------------------------------------
(* The outer loop: the next code point, and the scan. *)
LEMMA NextMinimumInv == ASSUME IInv, NextMinimum PROVE IInv' /\ UNCHANGED HandledPositions
<1> USE DEF IInv, digitVars
<1> DEFINE L == Len(cps) + 1
           gap == Minimum - n
<1>1. /\ pc = "minimum" /\ handled < Len(cps)
      /\ UNCHANGED <<cps, out, basicCount, handled, bias, q, k, d>>
      /\ Len(cps) \in Nat /\ DOMAIN cps = 1..Len(cps)
      /\ n \in Nat /\ delta \in Nat /\ handled \in Nat /\ InitialN <= n
  BY MaxScalarRange DEF NextMinimum, TypeOK, Located
<1>2. /\ Candidates # {} /\ Minimum \in n..MaxScalar
      /\ \A p \in DOMAIN cps : cps[p] >= n => cps[p] >= Minimum
  BY <1>1, MinimumFound
<1>3. gap \in Nat /\ Minimum \in Nat /\ Minimum - InitialN \in Nat
      /\ n - InitialN \in Nat /\ Minimum - InitialN <= MaxScalar + 1
  BY <1>1, <1>2, MaxScalarRange
<1> HIDE DEF gap, L
<1>4. L \in Nat /\ handled + 1 <= L
  BY <1>1 DEF L
<1>5. gap * (handled + 1) \in Nat /\ gap * (handled + 1) <= gap * L
  <2>1. gap * (handled + 1) = (handled + 1) * gap /\ gap * L = L * gap
    BY <1>1, <1>3, <1>4
  <2> QED BY <1>1, <1>3, <1>4, <2>1, Product
<1>6. delta <= (n - InitialN) * L
  <2>1. (n - InitialN) * L \in Nat
    BY <1>3, <1>4
  <2>2. delta <= (n - InitialN) * L + 0
    BY <1>1 DEF DeltaBounded, L
  <2> QED BY <1>1, <2>1, <2>2
<1>7. (n - InitialN) * L + gap * L = (Minimum - InitialN) * L
  <2>1. (n - InitialN) + gap = Minimum - InitialN
    BY <1>1, <1>2, <1>3, MaxScalarRange DEF gap
  <2> QED BY <1>3, <1>4, <2>1
<1>8. (n - InitialN) * L \in Nat /\ gap * L \in Nat /\ (Minimum - InitialN) * L \in Nat
  BY <1>3, <1>4
<1>9. delta + gap * (handled + 1) <= (Minimum - InitialN) * L
  BY <1>1, <1>5, <1>6, <1>7, <1>8
<1>10. (Minimum - InitialN) * L <= MaxU64
  <2>1. \A a \in Nat : a <= MaxScalar + 1 => a * (Len(cps) + 1) + 0 <= MaxU64
    <3> TAKE a \in Nat
    <3> HAVE a <= MaxScalar + 1
    <3>1. 0 \in Nat /\ 0 <= Len(cps) + 1
      BY <1>1
    <3> QED BY <3>1, Room
  <2>2. (Minimum - InitialN) * L + 0 <= MaxU64
    BY <1>3, <2>1 DEF L
  <2> QED BY <2>2, <1>8
<1>11. MulFits(gap, handled + 1)
  <2>1. gap * (handled + 1) <= MaxU64
    BY <1>1, <1>5, <1>8, <1>9, <1>10, MaxScalarRange
  <2> QED BY <2>1, <1>1, <1>3, MulFitsWhenProductDoes
<1>12. AddFits(delta, gap * (handled + 1))
  BY <1>1, <1>5, <1>8, <1>9, <1>10, MaxScalarRange DEF AddFits
<1>13. /\ delta' = delta + gap * (handled + 1) /\ n' = Minimum
       /\ j' = 1 /\ pc' = "scan" /\ err' = err
  BY <1>2, <1>11, <1>12 DEF NextMinimum, gap
<1>14. TypeOK'
  <2>1. delta' \in 0..MaxU64
    BY <1>1, <1>5, <1>8, <1>9, <1>10, <1>13, MaxScalarRange
  <2>2. n' \in 0..MaxU32
    BY <1>1, <1>2, <1>13, MaxScalarRange
  <2> QED BY <1>1, <1>13, <2>1, <2>2 DEF TypeOK
<1>15. HasNonAscii(cps)' = HasNonAscii(cps) /\ HasNonAscii(cps)
  BY <1>1 DEF HasNonAscii, Located
<1>16. HandledPositions' = HandledPositions
  <2>1. ASSUME NEW p \in DOMAIN cps
        PROVE  (cps[p] < Minimum \/ (cps[p] = Minimum /\ p < 1)) <=> cps[p] < n
    BY <1>1, <1>2, <1>3, CodePointOf
  <2> QED BY <1>1, <1>13, <1>15, <2>1 DEF HandledPositions
<1>17. CountsHandled'
  BY <1>1, <1>15, <1>16 DEF CountsHandled
<1>18. DeltaBounded'
  <2>1. delta' <= (Minimum - InitialN) * L + 0
    BY <1>8, <1>9, <1>13
  <2> QED BY <1>1, <1>13, <2>1 DEF DeltaBounded, L
<1>19. Located'
  BY <1>1, <1>2, <1>3, <1>13, <1>15, MaxScalarRange DEF Located
<1> QED BY <1>16, <1>13, <1>14, <1>17, <1>18, <1>19 DEF NeverThrows

(* The scan's delta, and one more, fit.                                    *)
LEMMA ScanRoom ==
    ASSUME IInv, pc = "scan"
    PROVE  /\ delta + 1 \in 0..MaxU64
           /\ delta <= (n - InitialN) * (Len(cps) + 1) + (j - 1)
           /\ (n - InitialN) * (Len(cps) + 1) \in Nat
           /\ j \in 1..(Len(cps) + 1) /\ n \in Nat /\ delta \in Nat
           /\ Len(cps) \in Nat /\ DOMAIN cps = 1..Len(cps)
           /\ n + 1 \in 0..MaxU32
<1>1. /\ j \in 1..(Len(cps) + 1) /\ delta \in Nat /\ Len(cps) \in Nat
      /\ DOMAIN cps = 1..Len(cps)
      /\ n \in Nat /\ n <= MaxScalar /\ InitialN <= n
  BY MaxScalarRange DEF IInv, TypeOK, Located
<1> DEFINE a == n - InitialN
<1>2. a \in Nat /\ a <= MaxScalar + 1
  BY <1>1, MaxScalarRange
<1> HIDE DEF a
<1>3. a * (Len(cps) + 1) + j <= MaxU64 /\ a * (Len(cps) + 1) \in Nat
  <2>1. j \in Nat /\ j <= Len(cps) + 1
    BY <1>1
  <2> QED BY <1>2, <2>1, Room
<1>4. delta <= a * (Len(cps) + 1) + (j - 1)
  BY <1>1 DEF IInv, DeltaBounded, a
<1>5. delta + 1 \in 0..MaxU64
  BY <1>1, <1>3, <1>4, MaxScalarRange
<1> QED BY <1>1, <1>3, <1>4, <1>5, MaxScalarRange DEF a

LEMMA ScanPassInv == ASSUME IInv, ScanSmaller \/ ScanLarger PROVE IInv' /\ UNCHANGED HandledPositions
<1> USE DEF IInv, digitVars
<1>1. /\ pc = "scan" /\ j <= Len(cps) /\ cps[j] # n
      /\ UNCHANGED <<cps, out, basicCount, handled, n, bias, q, k, d>>
  <2>1. j \in DOMAIN cps
    BY DEF ScanSmaller, ScanLarger, TypeOK
  <2>2. cps[j] \in Nat /\ n \in Nat
    BY <2>1, CodePointOf, MaxScalarRange DEF TypeOK
  <2> QED BY <2>2 DEF ScanSmaller, ScanLarger
<1>2. /\ delta + 1 \in 0..MaxU64
      /\ delta <= (n - InitialN) * (Len(cps) + 1) + (j - 1)
      /\ (n - InitialN) * (Len(cps) + 1) \in Nat
      /\ j \in 1..(Len(cps) + 1) /\ n \in Nat /\ delta \in Nat
      /\ Len(cps) \in Nat /\ DOMAIN cps = 1..Len(cps)
  BY <1>1, ScanRoom
<1>3. AddFits(delta, 1)
  BY <1>2, MaxScalarRange DEF AddFits
<1>4. /\ delta' \in {delta, delta + 1} /\ j' = j + 1
      /\ UNCHANGED <<pc, err>>
  BY <1>3 DEF ScanSmaller, ScanLarger
<1>5. TypeOK'
  BY <1>1, <1>2, <1>4, MaxScalarRange DEF TypeOK
<1>6. HasNonAscii(cps)' = HasNonAscii(cps) /\ HasNonAscii(cps)
  BY <1>1 DEF HasNonAscii, Located
<1>7. HandledPositions' = HandledPositions
  <2>1. ASSUME NEW p \in DOMAIN cps, cps[p] = n
        PROVE  p < j <=> p < j + 1
    BY <1>1, <1>2, <2>1
  <2> QED BY <1>1, <1>4, <1>6, <2>1 DEF HandledPositions
<1>8. CountsHandled'
  BY <1>1, <1>6, <1>7 DEF CountsHandled
<1>9. DeltaBounded'
  BY <1>1, <1>2, <1>4 DEF DeltaBounded
<1>10. Located'
  BY <1>1, <1>4, <1>6 DEF Located
<1> QED BY <1>7, <1>4, <1>5, <1>8, <1>9, <1>10 DEF NeverThrows

LEMMA ScanEqualInv == ASSUME IInv, ScanEqual PROVE IInv' /\ UNCHANGED HandledPositions
<1> USE DEF IInv, digitVars
<1>1. /\ pc = "scan" /\ pc' = "digits" /\ j <= Len(cps) /\ cps[j] = n
      /\ UNCHANGED <<cps, j, out, basicCount, handled, n, delta, bias, d, err>>
      /\ q' = delta /\ k' = Base
  BY DEF ScanEqual
<1>2. TypeOK'
  BY <1>1, BootstringAssumption, MaxScalarRange DEF TypeOK
<1>3. HasNonAscii(cps)' = HasNonAscii(cps) /\ HasNonAscii(cps)
  BY <1>1 DEF HasNonAscii, Located
<1>4. HandledPositions' = HandledPositions
  BY <1>1, <1>3 DEF HandledPositions
<1>5. CountsHandled'
  BY <1>1, <1>3, <1>4 DEF CountsHandled
<1>6. DeltaBounded'
  BY <1>1 DEF DeltaBounded
<1>7. Located'
  BY <1>1, <1>3 DEF Located
<1> QED BY <1>4, <1>1, <1>2, <1>5, <1>6, <1>7 DEF NeverThrows

LEMMA EndScanInv == ASSUME IInv, EndScan PROVE IInv' /\ UNCHANGED HandledPositions
<1> USE DEF IInv, digitVars
<1> DEFINE L == Len(cps) + 1
<1>1. /\ pc = "scan" /\ pc' = "minimum" /\ j > Len(cps)
      /\ UNCHANGED <<cps, j, out, basicCount, handled, bias, q, k, d, err>>
  BY DEF EndScan
<1>2. /\ delta + 1 \in 0..MaxU64
      /\ delta <= (n - InitialN) * L + (j - 1)
      /\ (n - InitialN) * L \in Nat
      /\ j \in 1..L /\ n \in Nat /\ delta \in Nat /\ L \in Nat
      /\ Len(cps) \in Nat /\ DOMAIN cps = 1..Len(cps)
      /\ n + 1 \in 0..MaxU32
  BY <1>1, ScanRoom
<1> HIDE DEF L
<1>3. delta' = delta + 1 /\ n' = n + 1
  BY <1>2, MaxScalarRange DEF EndScan, Inc64, Inc32
<1>4. TypeOK'
  BY <1>1, <1>2, <1>3 DEF TypeOK
<1>5. HasNonAscii(cps)' = HasNonAscii(cps) /\ HasNonAscii(cps)
  BY <1>1 DEF HasNonAscii, Located
<1>6. HandledPositions' = HandledPositions
  <2>1. ASSUME NEW p \in DOMAIN cps
        PROVE  (cps[p] < n \/ (cps[p] = n /\ p < j)) <=> cps[p] < n + 1
    BY <1>1, <1>2, CodePointOf
  <2> QED BY <1>1, <1>3, <1>5, <2>1 DEF HandledPositions
<1>7. CountsHandled'
  BY <1>1, <1>5, <1>6 DEF CountsHandled
<1>8. DeltaBounded'
  <2>1. ((n + 1) - InitialN) * L = (n - InitialN) * L + L
    BY <1>2, MaxScalarRange
  <2>2. delta' <= (n' - InitialN) * L + 0
    BY <1>1, <1>2, <1>3, <2>1 DEF L
  <2> QED BY <1>1, <2>2 DEF DeltaBounded, L
<1>9. Located'
  BY <1>1, <1>2, <1>3, <1>5, MaxScalarRange DEF Located
<1> QED BY <1>6, <1>1, <1>4, <1>7, <1>8, <1>9 DEF NeverThrows

-----------------------------------------------------------------------------
(* The digits of one code point. *)

(* Every digit is below the base, so it has a letter or a figure, and the  *)
(* quotient that is left is again a natural number.                        *)
LEMMA DigitRange ==
    ASSUME IInv
    PROVE  /\ T \in 1..(Base - 1)
           /\ q >= T => /\ Digit \in 0..35 /\ (q - T) \div (Base - T) \in Nat
           /\ q < T => q \in 0..35
<1>1. T \in 1..(Base - 1) /\ q \in Nat /\ Base \in 2..36
  <2>1. k \in Nat /\ bias \in Nat /\ q \in Nat
    BY DEF IInv, TypeOK
  <2>2. Threshold(k, bias) \in 1..TMax
    BY <2>1, ThresholdRange
  <2> QED BY <2>1, <2>2, BootstringAssumption DEF T
<1> DEFINE b == Base - T
<1>2. b \in Nat \ {0} /\ b + T = Base
  BY <1>1
<1>3. ASSUME q >= T
      PROVE  Digit \in 0..35 /\ (q - T) \div (Base - T) \in Nat
  <2>1. q - T \in Nat
    BY <1>1, <1>3
  <2> HIDE DEF b
  <2>2. (q - T) % b \in 0..(b - 1) /\ (q - T) \div b \in Nat
    BY <1>2, <2>1, Division
  <2>3. T + ((q - T) % b) \in 0..35
    BY <1>1, <1>2, <2>2
  <2> QED BY <2>2, <2>3 DEF Digit, b
<1> QED BY <1>1, <1>3

LEMMA DigitByte == \A x \in 0..35 : HasDigit(x) /\ EncodeDigit(x) \in 0..127
  BY DEF HasDigit, EncodeDigit

(* What a step inside "digits" and "adapt" leaves as it is. *)
LEMMA InsideInv ==
    ASSUME IInv, pc \in {"digits", "adapt"}, pc' \in {"digits", "adapt"},
           TypeOK', UNCHANGED <<cps, j, basicCount, handled, n, delta, err>>
    PROVE  IInv' /\ UNCHANGED HandledPositions
<1> USE DEF IInv
<1>1. HasNonAscii(cps)' = HasNonAscii(cps) /\ HasNonAscii(cps)
  BY DEF HasNonAscii, Located
<1>2. HandledPositions' = HandledPositions
  BY <1>1 DEF HandledPositions
<1>3. CountsHandled'
  BY <1>1, <1>2 DEF CountsHandled
<1>4. DeltaBounded'
  BY DEF DeltaBounded
<1>5. Located'
  BY <1>1 DEF Located
<1> QED BY <1>2, <1>3, <1>4, <1>5 DEF NeverThrows

LEMMA EmitDigitInv == ASSUME IInv, EmitDigit PROVE IInv' /\ UNCHANGED HandledPositions
<1>1. /\ pc = "digits" /\ q >= T
      /\ UNCHANGED <<cps, j, basicCount, handled, n, delta, bias, d>>
  BY DEF EmitDigit
<1>2. Digit \in 0..35 /\ (q - T) \div (Base - T) \in Nat
  BY <1>1, DigitRange
<1>3. HasDigit(Digit) /\ EncodeDigit(Digit) \in 0..127
  BY <1>2, DigitByte
<1>4. /\ out' = Append(out, EncodeDigit(Digit)) /\ q' = (q - T) \div (Base - T)
      /\ k' = k + Base /\ UNCHANGED <<pc, err>>
  BY <1>3 DEF EmitDigit
<1>5. out' \in Seq(0..127)
  <2>1. out \in Seq(0..127)
    BY DEF IInv, TypeOK
  <2> QED BY <1>3, <1>4, <2>1, AppendProperties
<1>6. q' \in Nat /\ k' \in Nat
  BY <1>2, <1>4, BootstringAssumption DEF IInv, TypeOK
<1>7. TypeOK'
  BY <1>1, <1>4, <1>5, <1>6 DEF IInv, TypeOK
<1> QED BY <1>1, <1>4, <1>7, InsideInv

LEMMA EmitLastInv == ASSUME IInv, EmitLast PROVE IInv' /\ UNCHANGED HandledPositions
<1>1. /\ pc = "digits" /\ q < T
      /\ UNCHANGED <<cps, j, basicCount, handled, n, delta, bias, q>>
  BY DEF EmitLast
<1>2. q \in 0..35
  BY <1>1, DigitRange
<1>3. HasDigit(q) /\ EncodeDigit(q) \in 0..127
  BY <1>2, DigitByte
<1>4. /\ out' = Append(out, EncodeDigit(q))
      /\ d' = AdaptStart(delta, handled + 1, handled = basicCount)
      /\ k' = 0 /\ pc' = "adapt" /\ err' = err
  BY <1>3 DEF EmitLast
<1>5. out' \in Seq(0..127)
  <2>1. out \in Seq(0..127)
    BY DEF IInv, TypeOK
  <2> QED BY <1>3, <1>4, <2>1, AppendProperties
<1>6. d' \in Nat
  <2>1. delta \in Nat /\ handled + 1 \in Nat \ {0} /\ (handled = basicCount) \in BOOLEAN
    BY MaxScalarRange DEF IInv, TypeOK
  <2> QED BY <1>4, <2>1, AdaptType
<1>7. TypeOK'
  BY <1>1, <1>4, <1>5, <1>6 DEF IInv, TypeOK
<1> QED BY <1>1, <1>4, <1>7, InsideInv

LEMMA AdaptLoopInv == ASSUME IInv, AdaptLoop PROVE IInv' /\ UNCHANGED HandledPositions
<1>1. /\ pc = "adapt" /\ d' = AdaptDivide(d) /\ k' = k + Base
      /\ UNCHANGED <<cps, pc, j, out, basicCount, handled, n, delta, bias, q, err>>
  BY DEF AdaptLoop
<1>2. d' \in Nat /\ k' \in Nat
  BY <1>1, AdaptType, BootstringAssumption DEF IInv, TypeOK
<1>3. TypeOK'
  BY <1>1, <1>2 DEF IInv, TypeOK
<1> QED BY <1>1, <1>3, InsideInv

(* The code point at j has been written: the counter and the set grow.     *)
LEMMA EndAdaptInv == ASSUME IInv, EndAdapt PROVE IInv'
<1> USE DEF IInv, digitVars
<1>1. /\ pc = "adapt" /\ pc' = "scan" /\ bias' = AdaptResult(d, k)
      /\ delta' = 0 /\ handled' = handled + 1 /\ j' = j + 1
      /\ UNCHANGED <<cps, out, basicCount, n, q, k, d, err>>
  BY DEF EndAdapt
<1>2. /\ j \in 1..Len(cps) /\ cps[j] = n /\ DOMAIN cps = 1..Len(cps)
      /\ Len(cps) \in Nat /\ n \in Nat /\ InitialN <= n
  BY <1>1, MaxScalarRange DEF TypeOK, Located
<1>3. HasNonAscii(cps)' = HasNonAscii(cps) /\ HasNonAscii(cps)
  BY <1>1 DEF HasNonAscii, Located
<1> DEFINE S == {p \in DOMAIN cps : cps[p] < n \/ (cps[p] = n /\ p < j)}
           S1 == {p \in DOMAIN cps : cps[p] < n \/ (cps[p] = n /\ p < j + 1)}
<1>4. handled = Cardinality(S) /\ HandledPositions' = S1
  BY <1>1, <1>3 DEF CountsHandled, HandledPositions
<1>5. S1 = S \cup {j}
  BY <1>1, <1>2
<1>6. j \notin S /\ IsFiniteSet(S)
  BY <1>2, Positions
<1>7. S1 \in SUBSET DOMAIN cps
  OBVIOUS
<1>8. Cardinality(S1) = handled + 1 /\ handled' \in 0..Len(cps)
  <2> HIDE DEF S, S1
  <2>1. Cardinality(S1) = handled + 1
    BY <1>4, <1>5, <1>6, FS_AddElement
  <2>2. Cardinality(S1) \in 0..Len(cps)
    BY <1>7, Positions
  <2> QED BY <1>1, <2>1, <2>2
<1>9. bias' \in Nat
  BY <1>1, AdaptType DEF TypeOK
<1>10. TypeOK'
  BY <1>1, <1>2, <1>8, <1>9, MaxScalarRange DEF TypeOK
<1>11. CountsHandled'
  BY <1>1, <1>4, <1>8 DEF CountsHandled
<1>12. DeltaBounded'
  <2>1. n - InitialN \in Nat /\ Len(cps) + 1 \in Nat
    BY <1>2, MaxScalarRange
  <2>2. (n - InitialN) * (Len(cps) + 1) \in Nat
    BY <2>1
  <2> QED BY <1>1, <1>2, <2>2 DEF DeltaBounded
<1>13. Located'
  BY <1>1, <1>3 DEF Located, TypeOK
<1> QED BY <1>1, <1>10, <1>11, <1>12, <1>13 DEF NeverThrows

LEMMA FinishInv == ASSUME IInv, Finish PROVE IInv' /\ UNCHANGED HandledPositions
<1> USE DEF IInv, digitVars
<1>1. /\ pc = "minimum" /\ pc' = "done"
      /\ UNCHANGED <<cps, j, out, basicCount, handled, n, delta, bias, q, k, d, err>>
  BY DEF Finish
<1>2. TypeOK'
  BY <1>1 DEF TypeOK
<1>3. HasNonAscii(cps)' = HasNonAscii(cps)
  BY <1>1 DEF HasNonAscii
<1>4. HandledPositions' = HandledPositions
  BY <1>1, <1>3 DEF HandledPositions
<1>5. CountsHandled' /\ DeltaBounded' /\ Located'
  BY <1>1, <1>3, <1>4 DEF CountsHandled, DeltaBounded, Located
<1> QED BY <1>4, <1>1, <1>2, <1>5 DEF NeverThrows

LEMMA StutterInv == ASSUME IInv, UNCHANGED vars PROVE IInv' /\ UNCHANGED HandledPositions
<1> USE DEF IInv, vars
<1>1. HasNonAscii(cps)' = HasNonAscii(cps)
  BY DEF HasNonAscii
<1>2. HandledPositions' = HandledPositions
  BY <1>1 DEF HandledPositions
<1>3. TypeOK' /\ NeverThrows' /\ DeltaBounded'
  BY DEF TypeOK, NeverThrows, DeltaBounded
<1>4. CountsHandled' /\ Located'
  BY <1>1, <1>2 DEF CountsHandled, Located
<1> QED BY <1>2, <1>3, <1>4

THEOREM NextInv == IInv /\ [Next]_vars => IInv'
<1> SUFFICES ASSUME IInv, [Next]_vars PROVE IInv'
  OBVIOUS
<1>1. CASE UNCHANGED vars
  BY <1>1, StutterInv
<1>2. CASE ReturnAscii \/ Prepare
  BY <1>2, PrepareInv
<1>3. CASE CopyBasic
  BY <1>3, CopyInv
<1>4. CASE EndCopy
  BY <1>4, EndCopyInv
<1>5. CASE NextMinimum
  BY <1>5, NextMinimumInv
<1>6. CASE Finish
  BY <1>6, FinishInv
<1>7. CASE ScanSmaller \/ ScanLarger
  BY <1>7, ScanPassInv
<1>8. CASE ScanEqual
  BY <1>8, ScanEqualInv
<1>9. CASE EndScan
  BY <1>9, EndScanInv
<1>10. CASE EmitDigit
  BY <1>10, EmitDigitInv
<1>11. CASE EmitLast
  BY <1>11, EmitLastInv
<1>12. CASE AdaptLoop
  BY <1>12, AdaptLoopInv
<1>13. CASE EndAdapt
  BY <1>13, EndAdaptInv
<1> QED
  BY <1>1, <1>2, <1>3, <1>4, <1>5, <1>6, <1>7, <1>8, <1>9, <1>10, <1>11, <1>12, <1>13
  DEF Next

-----------------------------------------------------------------------------
(* The inductive invariant of the encoder. *)
THEOREM Invariance == Spec => []IInv
BY InitInv, NextInv, PTL DEF Spec

(* No value of the encoder leaves its C++ type. *)
THEOREM TypeCorrect == Spec => []TypeOK
<1>1. IInv => TypeOK
  BY DEF IInv
<1> QED BY <1>1, Invariance, PTL

(* The four throws the source marks as never covered are unreachable.      *)
THEOREM EncoderNeverThrows == Spec => []NeverThrows
<1>1. IInv => NeverThrows
  BY DEF IInv
<1> QED BY <1>1, Invariance, PTL

(* The counter that ends the outer loop counts the positions written.      *)
THEOREM EncoderCounts == Spec => []CountsHandled
<1>1. IInv => CountsHandled
  BY DEF IInv
<1> QED BY <1>1, Invariance, PTL

(* delta is bounded by the distance the decoder has to cover.              *)
THEOREM DeltaStaysBounded == Spec => []DeltaBounded
<1>1. IInv => DeltaBounded
  BY DEF IInv
<1> QED BY <1>1, Invariance, PTL

-----------------------------------------------------------------------------
(* The two steps that write a code point write the least pending one.      *)
LEMMA CopyWrites ==
    ASSUME IInv, CopyBasic
    PROVE  [Order!Next]_<<cps, HandledPositions>>
<1>1. /\ pc = "copy" /\ pc' = "copy" /\ j \in 1..Len(cps) /\ j' = j + 1 /\ cps' = cps
      /\ DOMAIN cps = 1..Len(cps) /\ Len(cps) \in Nat
  BY DEF IInv, CopyBasic, TypeOK
<1>2. HasNonAscii(cps)' = HasNonAscii(cps) /\ HasNonAscii(cps)
  BY <1>1 DEF IInv, HasNonAscii, Located
<1>3. /\ HandledPositions = {p \in DOMAIN cps : p < j /\ IsBasic(cps[p])}
      /\ HandledPositions' = {p \in DOMAIN cps : p < j + 1 /\ IsBasic(cps[p])}
  BY <1>1, <1>2 DEF HandledPositions
<1>4. CASE IsBasic(cps[j])
  <2>1. HandledPositions' = HandledPositions \cup {j} /\ j \in Order!Pending
    BY <1>1, <1>3, <1>4 DEF Order!Pending
  <2>2. ASSUME NEW r \in Order!Pending \ {j} PROVE Order!Precedes(j, r)
    <3>1. r \in 1..Len(cps) /\ r # j /\ cps[r] \in Nat /\ cps[j] \in Nat
      BY <1>1, CodePointOf DEF Order!Pending, IInv
    <3>2. IsBasic(cps[r]) => r > j
      BY <1>1, <1>3, <3>1 DEF Order!Pending
    <3>3. Order!Rank(j) = 0 /\ (IsBasic(cps[r]) => Order!Rank(r) = 0)
          /\ (~IsBasic(cps[r]) => Order!Rank(r) > 0)
      BY <1>4, <3>1 DEF Order!Rank, IsBasic, InitialN
    <3> QED BY <3>2, <3>3 DEF Order!Precedes
  <2> QED BY <1>1, <2>1, <2>2 DEF Order!Next, Order!Write
<1>5. CASE ~IsBasic(cps[j])
  <2>1. HandledPositions' = HandledPositions
    BY <1>1, <1>3, <1>5
  <2> QED BY <1>1, <2>1
<1> QED BY <1>4, <1>5

LEMMA EndAdaptWrites ==
    ASSUME IInv, EndAdapt
    PROVE  Order!Next
<1>1. /\ pc = "adapt" /\ pc' = "scan" /\ j' = j + 1 /\ n' = n /\ cps' = cps
      /\ j \in 1..Len(cps) /\ cps[j] = n /\ n \in Nat /\ n >= InitialN
      /\ DOMAIN cps = 1..Len(cps) /\ Len(cps) \in Nat
  BY MaxScalarRange DEF IInv, EndAdapt, TypeOK, Located
<1>2. HasNonAscii(cps)' = HasNonAscii(cps) /\ HasNonAscii(cps)
  BY <1>1 DEF IInv, HasNonAscii, Located
<1>3. /\ HandledPositions = {p \in DOMAIN cps : cps[p] < n \/ (cps[p] = n /\ p < j)}
      /\ HandledPositions' = {p \in DOMAIN cps : cps[p] < n \/ (cps[p] = n /\ p < j + 1)}
  BY <1>1, <1>2 DEF HandledPositions
<1>4. HandledPositions' = HandledPositions \cup {j} /\ j \in Order!Pending
  BY <1>1, <1>3 DEF Order!Pending
<1>5. ASSUME NEW r \in Order!Pending \ {j} PROVE Order!Precedes(j, r)
  <2>1. r \in 1..Len(cps) /\ r # j /\ cps[r] \in Nat
    BY <1>1, CodePointOf DEF Order!Pending, IInv
  <2>2. cps[r] > n \/ (cps[r] = n /\ r > j)
    BY <1>1, <1>3, <2>1 DEF Order!Pending
  <2>3. Order!Rank(j) = n /\ Order!Rank(r) = cps[r]
    BY <1>1, <2>1, <2>2 DEF Order!Rank, InitialN
  <2> QED BY <2>2, <2>3 DEF Order!Precedes
<1> QED BY <1>1, <1>4, <1>5 DEF Order!Next, Order!Write

(* Every step of the encoder writes the least pending position or none.    *)
LEMMA StepOrder ==
    ASSUME IInv, [Next]_vars
    PROVE  [Order!Next]_<<cps, HandledPositions>>
<1>1. CASE CopyBasic
  BY <1>1, CopyWrites
<1>2. CASE EndAdapt
  BY <1>2, EndAdaptWrites
<1>3. CASE [Next]_vars /\ ~CopyBasic /\ ~EndAdapt
  <2>1. UNCHANGED HandledPositions
    BY <1>3, PrepareInv, EndCopyInv, NextMinimumInv, FinishInv, ScanPassInv,
       ScanEqualInv, EndScanInv, EmitDigitInv, EmitLastInv, AdaptLoopInv, StutterInv
    DEF Next
  <2>2. cps' = cps
    BY <1>3 DEF Next, vars, ReturnAscii, Prepare, EndCopy, NextMinimum, Finish,
       ScanSmaller, ScanLarger, ScanEqual, EndScan, EmitDigit, EmitLast, AdaptLoop
  <2> QED BY <2>1, <2>2
<1> QED BY <1>1, <1>2, <1>3

(* The encoder implements InsertionOrder.                                  *)
THEOREM EncoderWritesInOrder == Spec => WritesInOrder
<1>1. Init => Order!Init
  BY InitInv DEF Order!Init
<1>2. IInv /\ [Next]_vars => [Order!Next]_<<cps, HandledPositions>>
  BY StepOrder
<1> QED BY <1>1, <1>2, Invariance, PTL DEF Spec, WritesInOrder, Order!Spec

-----------------------------------------------------------------------------
(* The trace the encoder leaves: first where a position stands in a set of *)
(* positions.                                                              *)
LEMMA RankRange ==
    ASSUME NEW L \in Nat, NEW A \in SUBSET (1..L), NEW p \in Int
    PROVE  /\ IsFiniteSet(A) /\ Cardinality(A) \in Nat
           /\ RankIn(A, p) \in 0..Cardinality(A)
           /\ p \in A => RankIn(A, p) < Cardinality(A)
<1>1. IsFiniteSet(A)
  <2>1. IsFiniteSet(1..L)
    BY FS_Interval
  <2> QED BY <2>1, FS_Subset
<1>2. Cardinality(A) \in Nat
  BY <1>1, FS_CardinalityType
<1> DEFINE B == {u \in A : u < p}
<1>3. B \in SUBSET A
  OBVIOUS
<1>4. ASSUME p \in A PROVE B # A
  <2>1. ~(p < p)
    OBVIOUS
  <2> QED BY <1>4, <2>1
<1> HIDE DEF B
<1>5. IsFiniteSet(B) /\ Cardinality(B) <= Cardinality(A) /\ (Cardinality(A) = Cardinality(B) => B = A)
  BY <1>1, <1>3, FS_Subset
<1>6. Cardinality(B) \in Nat
  BY <1>5, FS_CardinalityType
<1>7. RankIn(A, p) = Cardinality(B)
  BY DEF RankIn, B
<1> QED BY <1>1, <1>2, <1>4, <1>5, <1>6, <1>7

LEMMA RankStep ==
    ASSUME NEW L \in Nat, NEW A \in SUBSET (1..L), NEW p \in Int
    PROVE  RankIn(A, p + 1) = IF p \in A THEN RankIn(A, p) + 1 ELSE RankIn(A, p)
<1> DEFINE B == {u \in A : u < p}
           C == {u \in A : u < p + 1}
<1>1. IsFiniteSet(A)
  BY RankRange
<1>2. IsFiniteSet(B)
  BY <1>1, FS_Subset
<1>3. CASE p \in A
  <2>1. C = B \cup {p} /\ p \notin B
    <3>1. \A u \in A : u < p + 1 <=> u < p \/ u = p
      OBVIOUS
    <3>2. ~(p < p)
      OBVIOUS
    <3> QED BY <1>3, <3>1, <3>2, Zenon
  <2> HIDE DEF B, C
  <2>2. Cardinality(C) = Cardinality(B) + 1
    BY <1>2, <2>1, FS_AddElement
  <2> QED BY <1>3, <2>2 DEF RankIn, B, C
<1>4. CASE p \notin A
  <2>1. C = B
    <3>1. \A u \in A : u < p + 1 <=> u < p \/ u = p
      OBVIOUS
    <3> QED BY <1>4, <3>1
  <2> QED BY <1>4, <2>1 DEF RankIn
<1> QED BY <1>3, <1>4

LEMMA RankEnds ==
    ASSUME NEW L \in Nat, NEW A \in SUBSET (1..L)
    PROVE  RankIn(A, 1) = 0 /\ RankIn(A, L + 1) = Cardinality(A)
<1>1. {u \in A : u < 1} = {} /\ {u \in A : u < L + 1} = A
  <2>1. \A u \in A : ~(u < 1) /\ u < L + 1
    OBVIOUS
  <2> QED BY <2>1
<1> QED BY <1>1, FS_EmptySet DEF RankIn

LEMMA RankGrows ==
    ASSUME NEW L \in Nat, NEW A \in SUBSET (1..L), NEW p \in Int, NEW u \in Int, p <= u
    PROVE  /\ RankIn(A, p) <= RankIn(A, u)
           /\ (p \in A /\ p < u) => RankIn(A, p) < RankIn(A, u)
<1> DEFINE B == {v \in A : v < p}
           C == {v \in A : v < u}
<1>1. B \in SUBSET C /\ C \in SUBSET A
  <2>1. \A v \in A : v < p => v < u
    OBVIOUS
  <2> QED BY <2>1
<1>2. ASSUME p \in A, p < u PROVE p \in C /\ p \notin B
  BY <1>2
<1> HIDE DEF B, C
<1>3. IsFiniteSet(C)
  BY <1>1, RankRange, FS_Subset
<1>4. /\ IsFiniteSet(B) /\ Cardinality(B) <= Cardinality(C)
      /\ Cardinality(B) = Cardinality(C) => B = C
  BY <1>1, <1>3, FS_Subset
<1>5. Cardinality(B) \in Nat /\ Cardinality(C) \in Nat
  BY <1>3, <1>4, FS_CardinalityType
<1>6. RankIn(A, p) = Cardinality(B) /\ RankIn(A, u) = Cardinality(C)
  BY DEF RankIn, B, C
<1> QED BY <1>2, <1>4, <1>5, <1>6

LEMMA RankAdd ==
    ASSUME NEW L \in Nat, NEW A \in SUBSET (1..L), NEW x \in 1..L, x \notin A, NEW p \in Int
    PROVE  /\ Cardinality(A \cup {x}) = Cardinality(A) + 1
           /\ RankIn(A \cup {x}, p) = IF x < p THEN RankIn(A, p) + 1 ELSE RankIn(A, p)
<1>1. IsFiniteSet(A)
  BY RankRange
<1>2. Cardinality(A \cup {x}) = Cardinality(A) + 1
  BY <1>1, FS_AddElement
<1> DEFINE B == {u \in A : u < p}
           C == {u \in A \cup {x} : u < p}
<1>3. IsFiniteSet(B)
  BY <1>1, FS_Subset
<1>4. CASE x < p
  <2>1. C = B \cup {x} /\ x \notin B
    BY <1>4
  <2> HIDE DEF B, C
  <2>2. Cardinality(C) = Cardinality(B) + 1
    BY <1>3, <2>1, FS_AddElement
  <2> QED BY <1>2, <1>4, <2>2 DEF RankIn, B, C
<1>5. CASE ~(x < p)
  <2>1. C = B
    BY <1>5
  <2> QED BY <1>2, <1>5, <2>1 DEF RankIn
<1> QED BY <1>4, <1>5

LEMMA RankAll ==
    ASSUME NEW L \in Nat, NEW p \in 1..L
    PROVE  RankIn(1..L, p) = p - 1
<1>1. {u \in 1..L : u < p} = 1..(p - 1) /\ p - 1 \in Nat
  OBVIOUS
<1>2. Cardinality(1..(p - 1)) = p - 1
  BY <1>1, FS_Interval
<1> QED BY <1>1, <1>2 DEF RankIn


LEMMA AdaptEnds ==
    ASSUME NEW x \in Nat, NEW y \in Nat, NEW b, ~AdaptAgain(x)
    PROVE  AdaptsTo(x, y, b) <=> b = AdaptResult(x, y)
<1>1. ASSUME b = AdaptResult(x, y) PROVE AdaptsTo(x, y, b)
  BY <1>1 DEF AdaptsTo, Closed
<1>2. ASSUME AdaptsTo(x, y, b), b # AdaptResult(x, y) PROVE FALSE
  <2> DEFINE S == (Nat \X Nat) \ {<<x, y>>}
  <2>1. Closed(S, b)
    BY <1>2 DEF Closed
  <2>2. S \in SUBSET (Nat \X Nat) /\ <<x, y>> \notin S
    OBVIOUS
  <2> QED BY <1>2, <2>1, <2>2 DEF AdaptsTo
<1> QED BY <1>1, <1>2

LEMMA AdaptGoesOn ==
    ASSUME NEW x \in Nat, NEW y \in Nat, NEW b, AdaptAgain(x)
    PROVE  AdaptsTo(x, y, b) <=> AdaptsTo(AdaptDivide(x), y + Base, b)
<1>1. ASSUME AdaptsTo(AdaptDivide(x), y + Base, b) PROVE AdaptsTo(x, y, b)
  BY <1>1 DEF AdaptsTo, Closed
<1>2. ASSUME AdaptsTo(x, y, b), NEW S \in SUBSET (Nat \X Nat), Closed(S, b),
             <<AdaptDivide(x), y + Base>> \notin S
      PROVE  FALSE
  <2> DEFINE R == S \ {<<x, y>>}
  <2>1. Closed(R, b)
    BY <1>2 DEF Closed
  <2>2. R \in SUBSET (Nat \X Nat) /\ <<x, y>> \notin R
    OBVIOUS
  <2> QED BY <1>2, <2>1, <2>2 DEF AdaptsTo
<1>3. ASSUME AdaptsTo(x, y, b) PROVE AdaptsTo(AdaptDivide(x), y + Base, b)
  BY <1>2, <1>3 DEF AdaptsTo
<1> QED BY <1>1, <1>3

LEMMA AdaptOnce ==
    ASSUME NEW x \in Nat, NEW y \in Nat, NEW b, NEW c, AdaptsTo(x, y, b), AdaptsTo(x, y, c)
    PROVE  b = c
<1> DEFINE S == {z \in Nat \X Nat : AdaptsTo(z[1], z[2], b) /\ (AdaptsTo(z[1], z[2], c) => b = c)}
<1>1. ASSUME NEW u \in Nat, NEW v \in Nat, ~AdaptAgain(u), AdaptResult(u, v) = b
      PROVE  <<u, v>> \in S
  <2>1. AdaptsTo(u, v, b) /\ (AdaptsTo(u, v, c) => b = c)
    BY <1>1, AdaptEnds
  <2> QED BY <2>1
<1>2. ASSUME NEW u \in Nat, NEW v \in Nat, AdaptAgain(u), <<AdaptDivide(u), v + Base>> \in S
      PROVE  <<u, v>> \in S
  <2>1. AdaptsTo(AdaptDivide(u), v + Base, b) /\ (AdaptsTo(AdaptDivide(u), v + Base, c) => b = c)
    BY <1>2
  <2>2. AdaptsTo(u, v, b) /\ (AdaptsTo(u, v, c) => b = c)
    BY <1>2, <2>1, AdaptGoesOn
  <2> QED BY <2>2
<1>3. S \in SUBSET (Nat \X Nat) /\ Closed(S, b)
  BY <1>1, <1>2 DEF Closed
<1> HIDE DEF S
<1>4. <<x, y>> \in S
  BY <1>3 DEF AdaptsTo
<1> QED BY <1>4 DEF S

-----------------------------------------------------------------------------
(* The places the scan has passed since n was set. *)
Passed == IF pc = "scan" THEN RankIn(HandledPositions, j) ELSE 0

(* Between two integers the encoder's delta is what the decoder's i lacks. *)
Paused(H) ==
    \E m, at \in Nat :
        /\ Between(cps, H, Len(out), HandledPositions, m, at, bias)
        /\ InitialN <= m /\ m <= n
        /\ at + delta = (n - m) * (handled + 1) + Passed

(* r is the record of the code point at j. *)
Present(r) == r.done = HandledPositions /\ r.pos = j /\ Gap(cps, r) = delta

Writing(H) ==
    LET r == H[Len(out) + 1]
    IN  Linked(cps, H, Len(out) + 1) /\ Present(r) /\ r.bias = bias /\ r.q = q /\ r.k = k

Adapting(H) ==
    LET r == H[Len(out)]
    IN  /\ LiteralBytes(cps) < Len(out) /\ Present(r) /\ r.q < Limit(r)
        /\ \A b : AdaptsTo(d, k, b) => Adapted(cps, r, b)

(* Before the digits: the literals so far. *)
Copying == /\ pc \in {"prepare", "copy"} => bias = InitialBias
           /\ pc = "prepare" => out = <<>> /\ basicCount = 0
           /\ pc = "copy" => basicCount = handled /\ Spread(cps, out, HandledPositions)

Told == /\ basicCount = Cardinality(BasicPositions(cps))
        /\ LiteralPart(cps, out)
        /\ \E H : /\ Traces(cps, H, out)
                  /\ pc \in {"minimum", "scan", "done"} => Paused(H)
                  /\ pc = "digits" => Writing(H)
                  /\ pc = "adapt" => Adapting(H)

LeavesTrace ==
    HasNonAscii(cps) =>
        Copying /\ (pc \in {"minimum", "scan", "digits", "adapt", "done"} => Told)

(* The outer loop ends when every position is handled. *)
EndsWell == (pc = "done" /\ HasNonAscii(cps)) => handled >= Len(cps)

(* The literals of a label are some of its positions. *)
LEMMA Layout ==
    ASSUME TypeOK
    PROVE  /\ BasicPositions(cps) \in SUBSET (1..Len(cps)) /\ Len(cps) \in Nat
           /\ DOMAIN cps = 1..Len(cps)
           /\ IsFiniteSet(BasicPositions(cps))
           /\ Cardinality(BasicPositions(cps)) \in Nat
           /\ LiteralBytes(cps) \in Nat
           /\ LiteralBytes(cps) = IF Cardinality(BasicPositions(cps)) = 0 THEN 0
                                  ELSE Cardinality(BasicPositions(cps)) + 1
           /\ out \in Seq(0..127) /\ Len(out) \in Nat
<1>1. BasicPositions(cps) \in SUBSET DOMAIN cps /\ DOMAIN cps = 1..Len(cps) /\ Len(cps) \in Nat
  BY Positions DEF BasicPositions
<1>2. IsFiniteSet(BasicPositions(cps)) /\ Cardinality(BasicPositions(cps)) \in Nat
  BY <1>1, Positions
<1>3. Cardinality(BasicPositions(cps)) = 0 <=> BasicPositions(cps) = {}
  BY <1>2, FS_EmptySet
<1>4. out \in Seq(0..127) /\ Len(out) \in Nat
  BY DEF TypeOK
<1> QED BY <1>1, <1>2, <1>3, <1>4 DEF LiteralBytes

(* A trace may be written on. *)
LEMMA Frame ==
    ASSUME NEW x, NEW H, NEW G, NEW s, LiteralBytes(x) \in Nat, Len(s) \in Nat,
           \A l \in 1..Len(s) : G[l] = H[l]
    PROVE  /\ Traces(x, H, s) => Traces(x, G, s)
           /\ \A A, m, at, b : (Len(s) >= LiteralBytes(x) /\ Between(x, H, Len(s), A, m, at, b))
                                => Between(x, G, Len(s), A, m, at, b)
<1>1. ASSUME NEW l \in LiteralBytes(x)..Len(s), NEW A, NEW m, NEW at, NEW b,
             Between(x, H, l, A, m, at, b)
      PROVE  Between(x, G, l, A, m, at, b)
  <2>1. CASE l = LiteralBytes(x)
    BY <1>1, <2>1 DEF Between
  <2>2. CASE l # LiteralBytes(x)
    <3>1. G[l] = H[l]
      BY <2>2
    <3> QED BY <1>1, <2>2, <3>1 DEF Between
  <2> QED BY <2>1, <2>2
<1>2. ASSUME Traces(x, H, s), NEW l \in (LiteralBytes(x) + 1)..Len(s)
      PROVE  Linked(x, G, l) /\ s[l] = EncodeDigit(Written(G[l]))
  <2>1. Linked(x, H, l) /\ s[l] = EncodeDigit(Written(H[l])) /\ G[l] = H[l]
    BY <1>2 DEF Traces
  <2>2. Sound(x, G[l])
    BY <2>1 DEF Linked
  <2>3. ASSUME Starts(x, H, l) PROVE Starts(x, G, l)
    <3>1. l - 1 \in LiteralBytes(x)..Len(s)
      OBVIOUS
    <3>2. Between(x, G, l - 1, H[l].done, H[l].n, H[l].i, H[l].bias)
      BY <1>1, <2>3, <3>1 DEF Starts
    <3> QED BY <2>1, <2>3, <3>2 DEF Starts
  <2>4. ASSUME Continues(x, H, l) PROVE Continues(x, G, l)
    <3>1. G[l - 1] = H[l - 1]
      BY <2>4 DEF Continues
    <3> QED BY <2>1, <2>4, <3>1 DEF Continues
  <2> QED BY <2>1, <2>2, <2>3, <2>4 DEF Linked
<1>3. ASSUME NEW A, NEW m, NEW at, NEW b, Len(s) >= LiteralBytes(x), Between(x, H, Len(s), A, m, at, b)
      PROVE  Between(x, G, Len(s), A, m, at, b)
  <2>1. Len(s) \in LiteralBytes(x)..Len(s)
    BY <1>3
  <2> QED BY <1>1, <1>3, <2>1
<1> QED BY <1>2, <1>3 DEF Traces

(* A byte may be written on that its record stands for. *)
LEMMA TracesOn ==
    ASSUME NEW x, NEW H, NEW S, NEW s \in Seq(S), NEW c \in S, LiteralBytes(x) \in Nat,
           IsFiniteSet(BasicPositions(x)), Traces(x, H, s), Linked(x, H, Len(s) + 1), c = EncodeDigit(Written(H[Len(s) + 1]))
    PROVE  /\ Traces(x, H, Append(s, c)) /\ Len(Append(s, c)) = Len(s) + 1
           /\ \A l \in 1..Len(s) : Append(s, c)[l] = s[l]
           /\ LiteralPart(x, s) => LiteralPart(x, Append(s, c))
<1>1. /\ Len(s) \in Nat /\ Len(Append(s, c)) = Len(s) + 1 /\ Append(s, c)[Len(s) + 1] = c
      /\ \A l \in 1..Len(s) : Append(s, c)[l] = s[l]
  BY AppendProperties
<1> DEFINE t == Append(s, c)
<1> HIDE DEF t
<1>2. ASSUME NEW l \in (LiteralBytes(x) + 1)..(Len(s) + 1)
      PROVE  Linked(x, H, l) /\ t[l] = EncodeDigit(Written(H[l]))
  <2>1. CASE l = Len(s) + 1
    BY <1>1, <2>1 DEF t
  <2>2. CASE l # Len(s) + 1
    <3>1. l \in (LiteralBytes(x) + 1)..Len(s) /\ l \in 1..Len(s)
      BY <1>1, <2>2
    <3> QED BY <1>1, <3>1 DEF Traces, t
  <2> QED BY <2>1, <2>2
<1>3. ASSUME LiteralPart(x, s) PROVE LiteralPart(x, t)
  <2>1. /\ LiteralBytes(x) <= Len(s)
        /\ Cardinality(BasicPositions(x)) \in Nat
        /\ Cardinality(BasicPositions(x)) <= LiteralBytes(x)
    BY <1>3, FS_CardinalityType, FS_EmptySet DEF LiteralPart, LiteralBytes
  <2> QED BY <1>1, <1>3, <2>1 DEF LiteralPart, t
<1> QED BY <1>1, <1>2, <1>3 DEF Traces, t

(* A position right of all in A adds its code point at the end.            *)
LEMMA SpreadAppend ==
    ASSUME NEW x, NEW L \in Nat, NEW A \in SUBSET (1..L), NEW p \in 1..L, \A u \in A : u < p,
           NEW S, NEW s \in Seq(S), x[p] \in S, Spread(x, s, A)
    PROVE  Spread(x, Append(s, x[p]), A \cup {p})
<1> DEFINE t == Append(s, x[p])
           B == A \cup {p}
<1>1. /\ Len(s) \in Nat /\ Len(t) = Len(s) + 1 /\ t[Len(s) + 1] = x[p]
      /\ \A l \in 1..Len(s) : t[l] = s[l]
  BY AppendProperties
<1>2. p \notin A /\ ~(p < p)
  OBVIOUS
<1>3. /\ Cardinality(B) = Cardinality(A) + 1
      /\ \A v \in 1..L : RankIn(B, v) = IF p < v THEN RankIn(A, v) + 1 ELSE RankIn(A, v)
  <2>1. Cardinality(A \cup {p}) = Cardinality(A) + 1
    BY <1>2, RankAdd
  <2>2. ASSUME NEW v \in 1..L
        PROVE  RankIn(A \cup {p}, v) = IF p < v THEN RankIn(A, v) + 1 ELSE RankIn(A, v)
    <3>1. v \in Int
      OBVIOUS
    <3> QED BY <1>2, <3>1, RankAdd
  <2> QED BY <2>1, <2>2
<1>4. RankIn(A, p) = Cardinality(A)
  <2>1. {u \in A : u < p} = A
    OBVIOUS
  <2> QED BY <2>1 DEF RankIn
<1> HIDE DEF t
<1>5. ASSUME NEW b \in 1..(Len(s) + 1)
      PROVE  \E u \in B : b = RankIn(B, u) + 1 /\ t[b] = x[u]
  <2>1. CASE b = Len(s) + 1
    <3>1. RankIn(B, p) = RankIn(A, p) /\ p \in B
      BY <1>2, <1>3
    <3> QED BY <1>1, <1>4, <2>1, <3>1 DEF Spread
  <2>2. CASE b # Len(s) + 1
    <3>1. b \in 1..Len(s)
      BY <1>1, <2>2
    <3>2. PICK u \in A : b = RankIn(A, u) + 1 /\ s[b] = x[u]
      BY <3>1 DEF Spread
    <3>3. RankIn(B, u) = RankIn(A, u) /\ u \in B
      <4>1. u \in 1..L /\ ~(p < u)
        OBVIOUS
      <4> QED BY <1>3, <4>1
    <3> QED BY <1>1, <3>1, <3>2, <3>3
  <2> QED BY <2>1, <2>2
<1>6. Len(t) = Cardinality(B)
  BY <1>1, <1>3 DEF Spread
<1> HIDE DEF B
<1> QED BY <1>1, <1>5, <1>6 DEF Spread, t, B

-----------------------------------------------------------------------------
(* The encoder leaves a trace, step by step. *)

LEMMA PrepareLeaves ==
    ASSUME IInv, LeavesTrace, Prepare PROVE LeavesTrace'
<1>1. /\ pc = "prepare" /\ pc' = "copy" /\ HasNonAscii(cps)
      /\ UNCHANGED <<cps, out, basicCount, handled, bias, j>>
  BY DEF Prepare
<1>2. out = <<>> /\ basicCount = 0 /\ handled = 0 /\ bias = InitialBias /\ j = 1
  BY <1>1 DEF LeavesTrace, Copying, IInv, Located
<1>3. HandledPositions' = {}
  <2>1. HandledPositions = {}
    <3>1. \A p \in DOMAIN cps : ~(p < 1)
      BY DEF IInv, TypeOK
    <3> QED BY <1>1, <1>2, <3>1 DEF HandledPositions
  <2> QED BY <1>1, <2>1, PrepareInv
<1>4. Spread(cps, <<>>, {})
  BY FS_EmptySet DEF Spread
<1> QED BY <1>1, <1>2, <1>3, <1>4 DEF LeavesTrace, Copying

LEMMA CopyLeaves ==
    ASSUME IInv, LeavesTrace, CopyBasic PROVE LeavesTrace'
<1>1. /\ pc = "copy" /\ pc' = "copy" /\ j \in 1..Len(cps) /\ j' = j + 1
      /\ UNCHANGED <<cps, bias>> /\ Len(cps) \in Nat /\ DOMAIN cps = 1..Len(cps)
  BY DEF CopyBasic, TypeOK, IInv
<1>2. HasNonAscii(cps) /\ HasNonAscii(cps)' = HasNonAscii(cps)
  BY <1>1 DEF HasNonAscii, Located, IInv
<1>3. bias = InitialBias /\ basicCount = handled /\ Spread(cps, out, HandledPositions)
  BY <1>1, <1>2 DEF LeavesTrace, Copying
<1> DEFINE A == {p \in DOMAIN cps : p < j /\ IsBasic(cps[p])}
<1>4. HandledPositions = A
  BY <1>1, <1>2 DEF HandledPositions
<1>5. HandledPositions' = IF IsBasic(cps[j]) THEN A \cup {j} ELSE A
  <2>1. \A p \in DOMAIN cps : p < j + 1 <=> p < j \/ p = j
    BY <1>1
  <2>2. HandledPositions' = {p \in DOMAIN cps : p < j + 1 /\ IsBasic(cps[p])}
    BY <1>1, <1>2 DEF HandledPositions
  <2> QED BY <1>1, <2>1, <2>2
<1>6. CASE IsBasic(cps[j])
  <2>1. basicCount' = handled' /\ out' = Append(out, cps[j])
    BY <1>3, <1>6 DEF CopyBasic
  <2>2. Spread(cps, Append(out, cps[j]), A \cup {j})
    <3>1. A \in SUBSET (1..Len(cps)) /\ \A u \in A : u < j
      BY <1>1
    <3>2. out \in Seq(0..127) /\ cps[j] \in 0..127
      BY <1>1, <1>6, CodePointOf, BasicRange DEF IInv, TypeOK, IsBasic
    <3> HIDE DEF A
    <3> QED BY <1>1, <1>3, <1>4, <3>1, <3>2, SpreadAppend
  <2> QED BY <1>1, <1>2, <1>3, <1>5, <1>6, <2>1, <2>2 DEF LeavesTrace, Copying
<1>7. CASE ~IsBasic(cps[j])
  <2>1. UNCHANGED <<basicCount, handled, out>>
    BY <1>7 DEF CopyBasic
  <2> QED BY <1>1, <1>2, <1>3, <1>4, <1>5, <1>7, <2>1 DEF LeavesTrace, Copying
<1> QED BY <1>6, <1>7

LEMMA EndCopyLeaves ==
    ASSUME IInv, LeavesTrace, EndCopy PROVE LeavesTrace'
<1>1. /\ pc = "copy" /\ pc' = "minimum" /\ j > Len(cps)
      /\ UNCHANGED <<cps, j, basicCount, handled, n, delta, bias>>
      /\ out' = IF basicCount > 0 THEN Append(out, Delimiter) ELSE out
  BY DEF EndCopy
<1>2. HasNonAscii(cps) /\ HasNonAscii(cps)' = HasNonAscii(cps)
  BY <1>1 DEF HasNonAscii, Located, IInv
<1>3. /\ bias = InitialBias /\ n = InitialN /\ delta = 0
      /\ basicCount = handled /\ Spread(cps, out, HandledPositions)
  BY <1>1, <1>2 DEF LeavesTrace, Copying, IInv, Located
<1> DEFINE B == BasicPositions(cps)
           LB == LiteralBytes(cps)
<1>4. /\ B \in SUBSET (1..Len(cps)) /\ Len(cps) \in Nat /\ DOMAIN cps = 1..Len(cps)
      /\ Cardinality(B) \in Nat /\ LB \in Nat
      /\ LB = IF Cardinality(B) = 0 THEN 0 ELSE Cardinality(B) + 1
      /\ out \in Seq(0..127) /\ Len(out) \in Nat /\ j \in Nat
  BY Layout DEF IInv, TypeOK
<1>5. HandledPositions = B /\ HandledPositions' = B
  <2>1. \A p \in DOMAIN cps : p < j
    BY <1>1, <1>4
  <2>2. HandledPositions = B
    BY <1>1, <1>2, <2>1 DEF HandledPositions, BasicPositions
  <2> QED BY <2>2, EndCopyInv
<1> HIDE DEF B, LB
<1>6. basicCount = Cardinality(B) /\ Len(out) = Cardinality(B) /\ basicCount \in Nat
  <2>1. handled = Cardinality(HandledPositions)
    BY <1>2 DEF IInv, CountsHandled
  <2> QED BY <1>3, <1>4, <1>5, <2>1 DEF Spread
<1>7. /\ Len(out') = LB
      /\ LB > 0 => out'[LB] = Delimiter
      /\ \A l \in 1..Cardinality(B) : out'[l] = out[l]
  <2>1. CASE basicCount > 0
    <3>1. Delimiter \in 0..127 /\ out' = Append(out, Delimiter)
      BY <1>1, <2>1 DEF Delimiter
    <3>2. /\ Len(out') = Len(out) + 1 /\ out'[Len(out) + 1] = Delimiter
          /\ \A l \in 1..Len(out) : out'[l] = out[l]
      BY <1>4, <3>1, AppendProperties
    <3> QED BY <1>4, <1>6, <2>1, <3>2
  <2>2. CASE ~(basicCount > 0)
    BY <1>1, <1>4, <1>6, <2>2
  <2> QED BY <2>1, <2>2
<1>8. LiteralPart(cps, out')
  <2>1. \A b \in 1..Cardinality(B) : \E p \in B : b = RankIn(B, p) + 1 /\ out[b] = cps[p]
    BY <1>3, <1>5, <1>6 DEF Spread
  <2>2. \A b \in 1..Cardinality(B) : \E p \in B : b = RankIn(B, p) + 1 /\ out'[b] = cps[p]
    BY <1>7, <2>1
  <2> QED BY <1>4, <1>7, <2>2 DEF LiteralPart, B, LB
<1>9. Traces(cps, <<>>, out')
  BY <1>4, <1>7 DEF Traces, LB
<1>10. Paused(<<>>)'
  <2>1. Between(cps', <<>>, Len(out'), HandledPositions', InitialN, 0, bias')
    BY <1>1, <1>3, <1>5, <1>7 DEF Between, B, LB
  <2>2. 0 + delta' = (n' - InitialN) * (handled' + 1) + 0
    <3>1. InitialN - InitialN = 0 /\ handled + 1 \in Nat
      BY <1>3, <1>6, MaxScalarRange
    <3> QED BY <1>1, <1>3, <3>1
  <2>3. InitialN \in Nat /\ InitialN <= n'
    BY <1>1, <1>3, MaxScalarRange
  <2>4. pc' # "scan"
    BY <1>1
  <2> QED BY <2>1, <2>2, <2>3, <2>4 DEF Paused, Passed
<1>11. Told'
  BY <1>1, <1>6, <1>8, <1>9, <1>10 DEF Told, B
<1> QED BY <1>1, <1>2, <1>11 DEF LeavesTrace, Copying

(* Between two integers n and delta move together.                         *)
LEMMA MoveOn ==
    ASSUME IInv, LeavesTrace, HasNonAscii(cps),
           pc \in {"minimum", "scan"}, pc' \in {"minimum", "scan", "done"},
           UNCHANGED <<cps, out, basicCount, handled, bias, HandledPositions>>,
           n' \in Nat, delta' \in Nat, n <= n', Passed \in Nat, Passed' \in Nat,
           delta' = delta + (n' - n) * (handled + 1) + (Passed' - Passed)
    PROVE  LeavesTrace'
<1>1. /\ basicCount = Cardinality(BasicPositions(cps)) /\ LiteralPart(cps, out)
      /\ \E H : Traces(cps, H, out) /\ Paused(H)
  BY DEF LeavesTrace, Told
<1>2. PICK H : Traces(cps, H, out) /\ Paused(H)
  BY <1>1
<1>3. PICK m \in Nat, at \in Nat :
        /\ Between(cps, H, Len(out), HandledPositions, m, at, bias)
        /\ InitialN <= m /\ m <= n
        /\ at + delta = (n - m) * (handled + 1) + Passed
  BY <1>2 DEF Paused
<1>4. n \in Nat /\ delta \in Nat /\ handled + 1 \in Nat
  BY MaxScalarRange DEF IInv, TypeOK
<1>5. at + delta' = (n' - m) * (handled' + 1) + Passed' /\ m <= n'
  <2> DEFINE h == handled + 1
             u == Passed
             v == Passed'
  <2>1. h \in Nat /\ u \in Nat /\ v \in Nat
    BY <1>4
  <2>2. at + delta = (n - m) * h + u /\ delta' = delta + (n' - n) * h + (v - u)
    BY <1>3
  <2> HIDE DEF h, u, v
  <2>3. (n' - m) * h = (n - m) * h + (n' - n) * h
    BY <1>4, <2>1
  <2>4. at + delta' = (n' - m) * h + v
    <3> DEFINE X == (n - m) * h
               Y == (n' - n) * h
               Z == (n' - m) * h
    <3>1. X \in Int /\ Y \in Int /\ Z \in Int
      BY <1>4, <2>1
    <3>2. Z = X + Y /\ at + delta = X + u /\ delta' = delta + Y + (v - u)
      BY <2>2, <2>3
    <3> HIDE DEF X, Y, Z
    <3>3. at + delta' = Z + v
      BY <1>4, <2>1, <3>1, <3>2
    <3> QED BY <3>3 DEF Z
  <2>5. m <= n'
    BY <1>3, <1>4
  <2> QED BY <2>4, <2>5 DEF h, v
<1>6. Paused(H)'
  BY <1>3, <1>5 DEF Paused
<1>7. Told'
  BY <1>1, <1>2, <1>6 DEF Told
<1> QED BY <1>7 DEF LeavesTrace, Copying

LEMMA PassedRange ==
    ASSUME IInv, HasNonAscii(cps), pc = "scan"
    PROVE  /\ HandledPositions \in SUBSET (1..Len(cps)) /\ Len(cps) \in Nat
           /\ Passed \in Nat /\ Passed = RankIn(HandledPositions, j)
           /\ j \in Int
           /\ HandledPositions = {p \in DOMAIN cps : cps[p] < n \/ (cps[p] = n /\ p < j)}
           /\ DOMAIN cps = 1..Len(cps)
<1>1. /\ HandledPositions = {p \in DOMAIN cps : cps[p] < n \/ (cps[p] = n /\ p < j)}
      /\ DOMAIN cps = 1..Len(cps) /\ Len(cps) \in Nat /\ j \in Int
  BY DEF HandledPositions, IInv, TypeOK
<1>2. HandledPositions \in SUBSET (1..Len(cps))
  BY <1>1
<1>3. RankIn(HandledPositions, j) \in 0..Cardinality(HandledPositions)
      /\ Cardinality(HandledPositions) \in Nat
  BY <1>1, <1>2, RankRange
<1> QED BY <1>1, <1>2, <1>3 DEF Passed

LEMMA NextMinimumLeaves ==
    ASSUME IInv, LeavesTrace, NextMinimum PROVE LeavesTrace'
<1>1. IInv' /\ UNCHANGED HandledPositions
  BY NextMinimumInv
<1>2. pc = "minimum" /\ HasNonAscii(cps) /\ UNCHANGED <<cps, out, basicCount, handled, bias>>
  BY DEF NextMinimum, IInv, Located
<1>3. /\ delta' = delta + (Minimum - n) * (handled + 1) /\ n' = Minimum
      /\ j' = 1 /\ pc' = "scan"
  <2>1. err' = "none"
    BY <1>1 DEF IInv, NeverThrows
  <2> QED BY <2>1 DEF NextMinimum, Fail
<1>4. n' \in Nat /\ delta' \in Nat /\ n \in Nat /\ delta \in Nat /\ n <= n'
  <2>1. Minimum \in n..MaxScalar
    BY <1>2, MinimumFound DEF NextMinimum
  <2>2. n' \in Nat /\ delta' \in Nat
    BY <1>1, MaxScalarRange DEF IInv, TypeOK
  <2>3. n \in Nat /\ delta \in Nat
    BY MaxScalarRange DEF IInv, TypeOK
  <2> QED BY <1>3, <2>1, <2>2, <2>3, MaxScalarRange
<1>5. Passed = 0 /\ Passed' = 0
  <2>1. HandledPositions \in SUBSET (1..Len(cps)) /\ Len(cps) \in Nat
    BY <1>2 DEF HandledPositions, IInv, TypeOK
  <2>2. RankIn(HandledPositions, 1) = 0
    BY <2>1, RankEnds
  <2> QED BY <1>1, <1>2, <1>3, <2>2 DEF Passed
<1>6. delta' = delta + (n' - n) * (handled + 1) + (Passed' - Passed)
  <2>1. handled + 1 \in Nat
    BY DEF IInv, TypeOK
  <2>2. (n' - n) * (handled + 1) \in Int
    BY <1>4, <2>1
  <2> QED BY <1>3, <1>4, <1>5, <2>2
<1>7. Passed \in Nat /\ Passed' \in Nat /\ pc \in {"minimum", "scan"} /\ pc' \in {"minimum", "scan", "done"}
  BY <1>2, <1>3, <1>5
<1> QED BY <1>1, <1>2, <1>4, <1>6, <1>7, MoveOn

LEMMA FinishLeaves ==
    ASSUME IInv, LeavesTrace, Finish PROVE LeavesTrace'
<1>1. /\ pc = "minimum" /\ pc' = "done" /\ HasNonAscii(cps)
      /\ UNCHANGED <<cps, out, basicCount, handled, bias, n, delta>>
  BY DEF Finish, IInv, Located
<1>2. UNCHANGED HandledPositions
  BY FinishInv
<1>3. Passed = 0 /\ Passed' = 0
  BY <1>1 DEF Passed
<1>4. n \in Nat /\ delta \in Nat /\ handled + 1 \in Nat
  BY MaxScalarRange DEF IInv, TypeOK
<1>5. delta' = delta + (n' - n) * (handled + 1) + (Passed' - Passed)
  BY <1>1, <1>3, <1>4
<1>6. Passed \in Nat /\ Passed' \in Nat /\ n' \in Nat /\ delta' \in Nat /\ n <= n'
      /\ pc \in {"minimum", "scan"} /\ pc' \in {"minimum", "scan", "done"}
  BY <1>1, <1>3, <1>4
<1> QED BY <1>1, <1>2, <1>5, <1>6, MoveOn

LEMMA ScanPassLeaves ==
    ASSUME IInv, LeavesTrace, ScanSmaller \/ ScanLarger PROVE LeavesTrace'
<1>1. IInv' /\ UNCHANGED HandledPositions
  BY ScanPassInv
<1>2. /\ pc = "scan" /\ HasNonAscii(cps) /\ j <= Len(cps)
      /\ UNCHANGED <<cps, out, basicCount, handled, bias, n>>
  BY DEF ScanSmaller, ScanLarger, IInv, Located
<1>3. /\ pc' = "scan" /\ j' = j + 1
      /\ delta' = IF cps[j] < n THEN delta + 1 ELSE delta
      /\ cps[j] # n
  <2>1. err' = "none"
    BY <1>1 DEF IInv, NeverThrows
  <2>2. cps[j] \in Nat /\ n \in Nat
    BY <1>2, CodePointOf, MaxScalarRange DEF IInv, TypeOK
  <2> QED BY <2>1, <2>2 DEF ScanSmaller, ScanLarger, Fail
<1>4. /\ HandledPositions \in SUBSET (1..Len(cps)) /\ Len(cps) \in Nat
      /\ Passed \in Nat /\ Passed = RankIn(HandledPositions, j) /\ j \in Int
      /\ HandledPositions = {p \in DOMAIN cps : cps[p] < n \/ (cps[p] = n /\ p < j)}
      /\ DOMAIN cps = 1..Len(cps)
  BY <1>2, PassedRange
<1>5. j \in HandledPositions <=> cps[j] < n
  <2>1. j \in DOMAIN cps
    BY <1>2, <1>4 DEF IInv, TypeOK
  <2> QED BY <1>3, <1>4, <2>1
<1>6. RankIn(HandledPositions, j + 1) = IF cps[j] < n THEN Passed + 1 ELSE Passed
  BY <1>4, <1>5, RankStep
<1>7. Passed' = IF cps[j] < n THEN Passed + 1 ELSE Passed
  BY <1>1, <1>3, <1>6 DEF Passed
<1>8. n \in Nat /\ delta \in Nat /\ handled + 1 \in Nat /\ n' = n
  BY <1>2, MaxScalarRange DEF IInv, TypeOK
<1>9. /\ Passed' \in Nat /\ delta' \in Nat
      /\ delta' = delta + (n' - n) * (handled + 1) + (Passed' - Passed)
  <2>1. (n' - n) * (handled + 1) = 0
    BY <1>8
  <2>2. CASE cps[j] < n
    <3>1. delta' = delta + 1 /\ Passed' = Passed + 1
      BY <1>3, <1>7, <2>2
    <3>2. Passed \in Nat /\ delta \in Nat
      BY <1>4, <1>8
    <3>3. Passed' - Passed = 1 /\ delta' = delta + 0 + 1 /\ Passed' \in Nat /\ delta' \in Nat
      BY <3>1, <3>2
    <3> QED BY <2>1, <3>3
  <2>3. CASE ~(cps[j] < n)
    <3>1. delta' = delta /\ Passed' = Passed
      BY <1>3, <1>7, <2>3
    <3>2. Passed \in Nat /\ delta \in Nat
      BY <1>4, <1>8
    <3>3. Passed' - Passed = 0 /\ delta' = delta + 0 + 0 /\ Passed' \in Nat /\ delta' \in Nat
      BY <3>1, <3>2
    <3> QED BY <2>1, <3>3
  <2> QED BY <2>2, <2>3
<1>10. n' \in Nat /\ n <= n'
      /\ pc \in {"minimum", "scan"} /\ pc' \in {"minimum", "scan", "done"}
  BY <1>2, <1>3, <1>8
<1> QED BY <1>1, <1>2, <1>4, <1>9, <1>10, MoveOn

LEMMA EndScanLeaves ==
    ASSUME IInv, LeavesTrace, EndScan PROVE LeavesTrace'
<1>1. IInv' /\ UNCHANGED HandledPositions
  BY EndScanInv
<1>2. /\ pc = "scan" /\ pc' = "minimum" /\ HasNonAscii(cps) /\ j > Len(cps)
      /\ UNCHANGED <<cps, out, basicCount, handled, bias>>
  BY DEF EndScan, IInv, Located
<1>3. /\ delta' = delta + 1 /\ n' = n + 1 /\ n \in Nat /\ delta \in Nat
  <2>1. /\ delta + 1 \in 0..MaxU64 /\ n + 1 \in 0..MaxU32 /\ n \in Nat /\ delta \in Nat
    BY <1>2, ScanRoom
  <2> QED BY <2>1, MaxScalarRange DEF EndScan, Inc64, Inc32
<1>4. /\ HandledPositions \in SUBSET (1..Len(cps)) /\ Len(cps) \in Nat
      /\ Passed \in Nat /\ Passed = RankIn(HandledPositions, j) /\ j \in Int
  BY <1>2, PassedRange
<1>5. Passed = handled
  <2>1. j = Len(cps) + 1
    BY <1>2, <1>4 DEF IInv, TypeOK
  <2>2. handled = Cardinality(HandledPositions)
    BY <1>2 DEF IInv, CountsHandled
  <2> QED BY <1>4, <2>1, <2>2, RankEnds
<1>6. Passed' = 0
  BY <1>2 DEF Passed
<1>7. delta' = delta + (n' - n) * (handled + 1) + (Passed' - Passed)
  <2>1. handled \in Nat
    BY DEF IInv, TypeOK
  <2>2. n' - n = 1 /\ 1 * (handled + 1) = handled + 1
    BY <1>3, <2>1
  <2> QED BY <1>3, <1>5, <1>6, <2>1, <2>2
<1>8. Passed' \in Nat /\ n' \in Nat /\ delta' \in Nat /\ n <= n'
      /\ pc \in {"minimum", "scan"} /\ pc' \in {"minimum", "scan", "done"}
  BY <1>2, <1>3, <1>6
<1> QED BY <1>1, <1>2, <1>4, <1>7, <1>8, MoveOn

(* The literals are done wherever an integer may start, and nothing else   *)
(* when i is 0.                                                            *)
LEMMA BetweenAt ==
    ASSUME TypeOK, NEW H, Traces(cps, H, out), LiteralPart(cps, out),
           NEW A, NEW m, NEW at, NEW b, Between(cps, H, Len(out), A, m, at, b)
    PROVE  /\ BasicPositions(cps) \subseteq A
           /\ at = 0 <=> A = BasicPositions(cps)
<1>1. LiteralBytes(cps) \in Nat /\ Len(out) \in Nat /\ DOMAIN cps = 1..Len(cps) /\ Len(cps) \in Nat
      /\ LiteralBytes(cps) <= Len(out)
  BY Layout DEF LiteralPart
<1>2. CASE Len(out) = LiteralBytes(cps)
  BY <1>2 DEF Between
<1>3. CASE Len(out) # LiteralBytes(cps)
  <2> DEFINE r == H[Len(out)]
  <2>1. Sound(cps, r)
    <3>1. Len(out) \in (LiteralBytes(cps) + 1)..Len(out)
      BY <1>1, <1>3
    <3> QED BY <3>1 DEF Traces, Linked
  <2>2. A = r.done \cup {r.pos} /\ at = Place(r) + 1
    BY <1>3 DEF Between
  <2> HIDE DEF r
  <2>3. /\ BasicPositions(cps) \subseteq r.done /\ r.pos \notin BasicPositions(cps)
        /\ r.done \in SUBSET (1..Len(cps)) /\ r.pos \in Int
    BY <1>1, <2>1 DEF Sound, Records, BasicPositions
  <2>4. Place(r) \in Nat
    <3>1. RankIn(r.done, r.pos) \in 0..Cardinality(r.done) /\ Cardinality(r.done) \in Nat
      BY <1>1, <2>3, RankRange
    <3> QED BY <3>1 DEF Place
  <2> QED BY <2>2, <2>3, <2>4
<1> QED BY <1>2, <1>3

LEMMA ScanEqualLeaves ==
    ASSUME IInv, LeavesTrace, ScanEqual PROVE LeavesTrace'
<1>1. IInv' /\ UNCHANGED HandledPositions
  BY ScanEqualInv
<1>2. /\ pc = "scan" /\ pc' = "digits" /\ HasNonAscii(cps) /\ j <= Len(cps) /\ cps[j] = n
      /\ UNCHANGED <<cps, j, out, basicCount, handled, n, delta, bias>>
      /\ q' = delta /\ k' = Base
  BY DEF ScanEqual, IInv, Located
<1>3. PICK H : Traces(cps, H, out) /\ Paused(H)
  BY <1>2 DEF LeavesTrace, Told
<1>4. basicCount = Cardinality(BasicPositions(cps)) /\ LiteralPart(cps, out)
  BY <1>2 DEF LeavesTrace, Told
<1>5. PICK m \in Nat, at \in Nat :
        /\ Between(cps, H, Len(out), HandledPositions, m, at, bias)
        /\ InitialN <= m /\ m <= n
        /\ at + delta = (n - m) * (handled + 1) + Passed
  BY <1>3 DEF Paused
<1>6. /\ HandledPositions \in SUBSET (1..Len(cps)) /\ Len(cps) \in Nat
      /\ Passed \in Nat /\ Passed = RankIn(HandledPositions, j) /\ j \in 1..Len(cps)
      /\ HandledPositions = {p \in DOMAIN cps : cps[p] < n \/ (cps[p] = n /\ p < j)}
      /\ DOMAIN cps = 1..Len(cps)
  BY <1>2, PassedRange DEF IInv, TypeOK
<1>7. /\ handled = Cardinality(HandledPositions) /\ handled \in Nat
      /\ n \in Nat /\ delta \in Nat /\ bias \in Nat /\ InitialN <= n /\ InitialN \in Nat
  BY <1>2, MaxScalarRange DEF IInv, CountsHandled, TypeOK, Located
<1>20. PICK r : r = [done |-> HandledPositions, pos |-> j, n |-> m, i |-> at,
                     bias |-> bias, q |-> delta, k |-> Base]
  OBVIOUS
<1>21. /\ r.done = HandledPositions /\ r.pos = j /\ r.n = m /\ r.i = at
       /\ r.bias = bias /\ r.q = delta /\ r.k = Base
  BY <1>20
<1>8. /\ LiteralBytes(cps) \in Nat /\ Len(out) \in Nat /\ LiteralBytes(cps) <= Len(out)
      /\ Len(out) + 1 - 1 = Len(out)
  BY <1>4, Layout DEF IInv, LiteralPart
<1>22. PICK G : G = [u \in Nat |-> IF u = Len(out) + 1 THEN r ELSE H[u]]
  OBVIOUS
<1>9. G[Len(out) + 1] = r /\ \A u \in 1..Len(out) : G[u] = H[u]
  BY <1>8, <1>22
<1>10. Gap(cps, r) = delta
  <2>1. (n - m) * (handled + 1) \in Int
    BY <1>7
  <2>2. Goal(cps, r) = (n - m) * (handled + 1) + Passed
    BY <1>2, <1>6, <1>7, <1>21 DEF Goal, Place
  <2>3. Gap(cps, r) = ((n - m) * (handled + 1) + Passed) - at
    BY <1>21, <2>2 DEF Gap
  <2>4. at + delta = (n - m) * (handled + 1) + Passed
    BY <1>5
  <2> DEFINE X == (n - m) * (handled + 1)
  <2>5. X \in Int /\ Gap(cps, r) = (X + Passed) - at /\ at + delta = X + Passed
    BY <2>1, <2>3, <2>4
  <2> HIDE DEF X
  <2>6. Passed \in Nat /\ delta \in Nat /\ at \in Nat
    BY <1>6, <1>7
  <2> QED BY <2>5, <2>6
<1>11. Sound(cps, r)
  <2>1. r \in Records(cps)
    <3>1. HandledPositions \in SUBSET DOMAIN cps /\ j \in DOMAIN cps /\ Base \in Nat
      BY <1>6, BootstringAssumption
    <3> QED BY <1>7, <1>20, <3>1 DEF Records
  <2>2. r.pos \notin r.done /\ ~IsBasic(cps[r.pos])
    BY <1>2, <1>6, <1>7, <1>21 DEF IsBasic
  <2>3. BasicPositions(cps) \subseteq r.done /\ (r.i = 0 <=> r.done = BasicPositions(cps))
    BY <1>3, <1>4, <1>5, <1>21, BetweenAt DEF IInv
  <2>4. InitialN <= r.n /\ r.n <= cps[r.pos] /\ Gap(cps, r) \in Nat
    BY <1>2, <1>5, <1>7, <1>10, <1>21
  <2> QED BY <2>1, <2>2, <2>3, <2>4 DEF Sound
<1>12. Traces(cps, G, out) /\ Between(cps, G, Len(out), HandledPositions, m, at, bias)
  BY <1>3, <1>5, <1>8, <1>9, Frame
<1>13. Starts(cps, G, Len(out) + 1)
  BY <1>8, <1>9, <1>10, <1>12, <1>21 DEF Starts
<1>14. Linked(cps, G, Len(out) + 1)
  BY <1>9, <1>11, <1>13 DEF Linked
<1>15. Writing(G)'
  BY <1>1, <1>2, <1>9, <1>10, <1>14, <1>21 DEF Writing, Present
<1>16. Told'
  BY <1>2, <1>4, <1>12, <1>15 DEF Told
<1> QED BY <1>2, <1>16 DEF LeavesTrace, Copying

(* The record whose bytes are being written. *)
LEMMA WritingAt ==
    ASSUME IInv, LeavesTrace, pc = "digits"
    PROVE  /\ HasNonAscii(cps) /\ basicCount = Cardinality(BasicPositions(cps))
           /\ LiteralPart(cps, out)
           /\ LiteralBytes(cps) \in Nat /\ Len(out) \in Nat /\ LiteralBytes(cps) <= Len(out)
           /\ IsFiniteSet(BasicPositions(cps)) /\ out \in Seq(0..127)
           /\ \E H : /\ Traces(cps, H, out) /\ Writing(H)
                     /\ Limit(H[Len(out) + 1]) = T
<1>1. HasNonAscii(cps)
  BY DEF IInv, Located
<1>2. PICK H : Traces(cps, H, out) /\ Writing(H)
  BY <1>1 DEF LeavesTrace, Told
<1>3. Limit(H[Len(out) + 1]) = T
  BY <1>2 DEF Writing, Limit, T
<1>4. basicCount = Cardinality(BasicPositions(cps)) /\ LiteralPart(cps, out)
  BY <1>1 DEF LeavesTrace, Told
<1> QED BY <1>1, <1>2, <1>3, <1>4, Layout DEF IInv, LiteralPart

LEMMA EmitDigitLeaves ==
    ASSUME IInv, LeavesTrace, EmitDigit PROVE LeavesTrace'
<1>1. IInv' /\ UNCHANGED HandledPositions
  BY EmitDigitInv
<1>2. /\ pc = "digits" /\ q >= T
      /\ UNCHANGED <<cps, j, basicCount, handled, n, delta, bias>>
  BY DEF EmitDigit
<1>3. /\ out' = Append(out, EncodeDigit(Digit)) /\ q' = (q - T) \div (Base - T)
      /\ k' = k + Base /\ pc' = "digits"
  <2>1. err' = "none"
    BY <1>1 DEF IInv, NeverThrows
  <2> QED BY <1>2, <2>1 DEF EmitDigit, Fail
<1>4. EncodeDigit(Digit) \in 0..127
  BY <1>2, DigitRange, DigitByte
<1> DEFINE L == Len(out)
<1>5. /\ HasNonAscii(cps) /\ basicCount = Cardinality(BasicPositions(cps)) /\ LiteralPart(cps, out)
      /\ LiteralBytes(cps) \in Nat /\ L \in Nat /\ LiteralBytes(cps) <= L
      /\ IsFiniteSet(BasicPositions(cps)) /\ out \in Seq(0..127)
  BY <1>2, WritingAt
<1>6. PICK H : Traces(cps, H, out) /\ Writing(H) /\ Limit(H[L + 1]) = T
  BY <1>2, WritingAt
<1> DEFINE r == H[L + 1]
<1> HIDE DEF L
<1>7. Linked(cps, H, L + 1) /\ Present(r) /\ r.bias = bias /\ r.q = q /\ r.k = k
  BY <1>6 DEF Writing, L
<1>8. Written(r) = Digit /\ Rest(r) = q'
  <2>1. ~(q < T)
    BY <1>2, DigitRange DEF IInv, TypeOK
  <2> QED BY <1>3, <1>6, <1>7, <2>1 DEF Written, Rest, Digit
<1>9. /\ Traces(cps, H, out') /\ Len(out') = L + 1 /\ LiteralPart(cps, out')
  <2> HIDE DEF r
  <2>1. EncodeDigit(Digit) = EncodeDigit(Written(H[Len(out) + 1]))
    BY <1>8 DEF r, L
  <2> QED BY <1>3, <1>4, <1>5, <1>6, <1>7, <2>1, TracesOn DEF L
<1>20. PICK t : t = [r EXCEPT !.q = Rest(r), !.k = r.k + Base]
  OBVIOUS
<1>21. PICK G : G = [u \in Nat |-> IF u = (L + 1) + 1 THEN t ELSE H[u]]
  OBVIOUS
<1>10. G[(L + 1) + 1] = t /\ \A u \in 1..(L + 1) : G[u] = H[u]
  <2>1. L \in Nat
    BY <1>5
  <2> QED BY <1>21, <2>1
<1>11. Sound(cps, r) /\ r \in Records(cps)
  BY <1>7 DEF Linked, Sound
<1>12. /\ t \in Records(cps) /\ t.done = r.done /\ t.pos = r.pos /\ t.n = r.n /\ t.i = r.i
       /\ t.bias = r.bias /\ t.q = q' /\ t.k = k'
  <2>1. q' \in Nat /\ k' \in Nat
    BY <1>1 DEF IInv, TypeOK
  <2>2. Rest(r) = q' /\ r.k + Base = k'
    BY <1>3, <1>7, <1>8
  <2> HIDE DEF r
  <2> QED BY <1>11, <1>20, <2>1, <2>2 DEF Records
<1> HIDE DEF r
<1>13. Sound(cps, t) /\ Gap(cps, t) = Gap(cps, r)
  <2>1. Gap(cps, t) = Gap(cps, r)
    BY <1>12 DEF Gap, Goal, Place
  <2> QED BY <1>11, <1>12, <2>1 DEF Sound
<1>14. Traces(cps, G, out')
  <2>1. L + 1 \in Nat
    BY <1>5
  <2> QED BY <1>5, <1>9, <1>10, <2>1, Frame
<1>15. Continues(cps, G, (L + 1) + 1)
  <2>1. ((L + 1) + 1) - 1 = L + 1 /\ L + 1 \in 1..(L + 1) /\ L + 1 > LiteralBytes(cps)
    BY <1>5
  <2>2. r.q >= Limit(r) /\ G[L + 1] = r
    BY <1>2, <1>6, <1>7, <1>10, <2>1 DEF r
  <2> QED BY <1>10, <1>20, <2>1, <2>2 DEF Continues
<1>16. Linked(cps, G, (L + 1) + 1)
  BY <1>10, <1>13, <1>15 DEF Linked
<1>17. Writing(G)'
  <2>1. /\ t.done = HandledPositions' /\ t.pos = j' /\ Gap(cps', t) = delta' /\ t.bias = bias'
    BY <1>1, <1>2, <1>7, <1>12, <1>13 DEF Present
  <2> QED BY <1>2, <1>9, <1>10, <1>12, <1>16, <2>1 DEF Writing, Present
<1>18. Told'
  BY <1>2, <1>3, <1>5, <1>9, <1>14, <1>17 DEF Told
<1> QED BY <1>2, <1>3, <1>5, <1>18 DEF LeavesTrace, Copying

LEMMA EmitLastLeaves ==
    ASSUME IInv, LeavesTrace, EmitLast PROVE LeavesTrace'
<1>1. IInv' /\ UNCHANGED HandledPositions
  BY EmitLastInv
<1>2. /\ pc = "digits" /\ q < T
      /\ UNCHANGED <<cps, j, basicCount, handled, n, delta, bias>>
  BY DEF EmitLast
<1>3. /\ out' = Append(out, EncodeDigit(q)) /\ k' = 0 /\ pc' = "adapt"
      /\ d' = AdaptStart(delta, handled + 1, handled = basicCount)
  <2>1. err' = "none"
    BY <1>1 DEF IInv, NeverThrows
  <2> QED BY <1>2, <2>1 DEF EmitLast, Fail
<1>4. EncodeDigit(q) \in 0..127
  BY <1>2, DigitRange, DigitByte
<1> DEFINE L == Len(out)
<1>5. /\ HasNonAscii(cps) /\ basicCount = Cardinality(BasicPositions(cps)) /\ LiteralPart(cps, out)
      /\ LiteralBytes(cps) \in Nat /\ L \in Nat /\ LiteralBytes(cps) <= L
      /\ IsFiniteSet(BasicPositions(cps)) /\ out \in Seq(0..127)
  BY <1>2, WritingAt
<1>6. PICK H : Traces(cps, H, out) /\ Writing(H) /\ Limit(H[L + 1]) = T
  BY <1>2, WritingAt
<1>7. PICK r : r = H[L + 1]
  OBVIOUS
<1> HIDE DEF L
<1>8. Linked(cps, H, L + 1) /\ Present(r) /\ r.q = q
  BY <1>6, <1>7 DEF Writing, L
<1>9. Written(r) = q
  BY <1>2, <1>6, <1>7, <1>8 DEF Written
<1>10. /\ Traces(cps, H, out') /\ Len(out') = L + 1 /\ LiteralPart(cps, out')
  <2>1. EncodeDigit(q) = EncodeDigit(Written(H[Len(out) + 1]))
    BY <1>7, <1>9 DEF L
  <2> QED BY <1>3, <1>4, <1>5, <1>6, <1>8, <2>1, TracesOn DEF L
<1>11. /\ r.done = HandledPositions /\ Gap(cps, r) = delta
       /\ BasicPositions(cps) \subseteq r.done /\ (r.i = 0 <=> r.done = BasicPositions(cps))
  BY <1>7, <1>8 DEF Present, Linked, Sound
<1>12. Cardinality(r.done) = handled /\ (r.i = 0 <=> handled = basicCount)
  <2>1. HandledPositions \in SUBSET DOMAIN cps
    BY <1>5, <1>2 DEF HandledPositions
  <2>2. IsFiniteSet(HandledPositions) /\ handled = Cardinality(HandledPositions)
    BY <1>5, <2>1, Positions DEF IInv, CountsHandled
  <2>3. Cardinality(BasicPositions(cps)) = Cardinality(HandledPositions)
          => BasicPositions(cps) = HandledPositions
    BY <1>11, <2>2, FS_Subset
  <2> QED BY <1>5, <1>11, <2>2, <2>3
<1>13. ASSUME NEW b, AdaptsTo(d', k', b) PROVE Adapted(cps, r, b)
  <2>1. (r.i = 0) = (handled = basicCount)
    BY <1>12
  <2>2. d' = AdaptStart(Gap(cps, r), Cardinality(r.done) + 1, r.i = 0)
    BY <1>3, <1>11, <1>12, <2>1 DEF AdaptStart
  <2> QED BY <1>3, <1>13, <2>2 DEF Adapted
<1>14. Adapting(H)'
  <2>1. H[Len(out')] = r /\ LiteralBytes(cps') < Len(out')
    BY <1>2, <1>5, <1>7, <1>10
  <2>2. r.q < Limit(r)
    BY <1>2, <1>6, <1>7, <1>8
  <2>3. /\ r.done = HandledPositions' /\ r.pos = j' /\ Gap(cps', r) = delta'
    BY <1>1, <1>2, <1>8 DEF Present
  <2>4. \A b : AdaptsTo(d', k', b) => Adapted(cps', r, b)
    BY <1>2, <1>13
  <2> QED BY <2>1, <2>2, <2>3, <2>4 DEF Adapting, Present
<1>15. Told'
  BY <1>2, <1>3, <1>5, <1>10, <1>14 DEF Told
<1> QED BY <1>2, <1>3, <1>5, <1>15 DEF LeavesTrace, Copying

LEMMA AdaptLoopLeaves ==
    ASSUME IInv, LeavesTrace, AdaptLoop PROVE LeavesTrace'
<1>1. UNCHANGED HandledPositions
  BY AdaptLoopInv
<1>2. /\ pc = "adapt" /\ pc' = "adapt" /\ AdaptAgain(d) /\ d' = AdaptDivide(d) /\ k' = k + Base
      /\ UNCHANGED <<cps, j, out, basicCount, handled, n, delta, bias, q, err>>
      /\ HasNonAscii(cps) /\ d \in Nat /\ k \in Nat
  BY DEF AdaptLoop, IInv, Located, TypeOK
<1>3. PICK H : Traces(cps, H, out) /\ Adapting(H)
  BY <1>2 DEF LeavesTrace, Told
<1>4. ASSUME NEW b, AdaptsTo(d', k', b) PROVE Adapted(cps, H[Len(out)], b)
  <2>1. AdaptsTo(d, k, b)
    BY <1>2, <1>4, AdaptGoesOn
  <2> QED BY <1>3, <2>1 DEF Adapting
<1>5. Adapting(H)'
  BY <1>1, <1>2, <1>3, <1>4 DEF Adapting, Present
<1>6. Told'
  BY <1>2, <1>3, <1>5 DEF LeavesTrace, Told
<1> QED BY <1>2, <1>6 DEF LeavesTrace, Copying

LEMMA EndAdaptLeaves ==
    ASSUME IInv, LeavesTrace, EndAdapt PROVE LeavesTrace'
<1>1. /\ pc = "adapt" /\ pc' = "scan" /\ ~AdaptAgain(d) /\ bias' = AdaptResult(d, k)
      /\ delta' = 0 /\ handled' = handled + 1 /\ j' = j + 1
      /\ UNCHANGED <<cps, out, basicCount, n>>
      /\ HasNonAscii(cps) /\ d \in Nat /\ k \in Nat
  BY DEF EndAdapt, IInv, Located, TypeOK
<1>2. IInv'
  BY EndAdaptInv
<1>3. PICK H : Traces(cps, H, out) /\ Adapting(H)
  BY <1>1 DEF LeavesTrace, Told
<1>4. PICK r : r = H[Len(out)]
  OBVIOUS
<1>5. /\ LiteralBytes(cps) < Len(out) /\ r.done = HandledPositions /\ r.pos = j
      /\ r.q < Limit(r) /\ \A b : AdaptsTo(d, k, b) => Adapted(cps, r, b)
  BY <1>3, <1>4 DEF Adapting, Present
<1>6. Adapted(cps, r, bias')
  BY <1>1, <1>5, AdaptEnds
<1>7. /\ j \in 1..Len(cps) /\ cps[j] = n /\ DOMAIN cps = 1..Len(cps) /\ Len(cps) \in Nat
      /\ n \in Nat /\ InitialN <= n /\ handled \in Nat
  BY <1>1, MaxScalarRange DEF IInv, TypeOK, Located
<1> DEFINE A == HandledPositions
<1>8. /\ A = {p \in DOMAIN cps : cps[p] < n \/ (cps[p] = n /\ p < j)}
      /\ HandledPositions' = {p \in DOMAIN cps : cps[p] < n \/ (cps[p] = n /\ p < j + 1)}
  <2>1. HasNonAscii(cps)'
    BY <1>1 DEF HasNonAscii
  <2> QED BY <1>1, <2>1 DEF HandledPositions
<1>9. A \in SUBSET (1..Len(cps)) /\ j \notin A /\ HandledPositions' = A \cup {j}
  <2>1. \A p \in DOMAIN cps : p < j + 1 <=> p < j \/ p = j
    BY <1>7
  <2>2. j \in DOMAIN cps /\ ~(n < n) /\ ~(j < j)
    BY <1>7
  <2> QED BY <1>7, <1>8, <2>1, <2>2
<1> HIDE DEF A
<1>10. RankIn(A, j) \in Nat /\ RankIn(A \cup {j}, j + 1) = RankIn(A, j) + 1
  <2>2. j \in Int /\ j + 1 \in Int /\ j < j + 1
    BY <1>7
  <2>1. RankIn(A, j) \in 0..Cardinality(A) /\ Cardinality(A) \in Nat
    BY <1>7, <1>9, <2>2, RankRange
  <2>3. RankIn(A, j + 1) = RankIn(A, j)
    BY <1>7, <1>9, <2>2, RankStep
  <2>4. RankIn(A \cup {j}, j + 1) = RankIn(A, j + 1) + 1
    BY <1>7, <1>9, <2>2, RankAdd
  <2> QED BY <2>1, <2>3, <2>4
<1>11. Between(cps, H, Len(out), HandledPositions', n, RankIn(A, j) + 1, bias')
  <2>1. Len(out) # LiteralBytes(cps)
    BY <1>5, Layout DEF IInv
  <2>2. HandledPositions' = r.done \cup {r.pos} /\ n = cps[r.pos] /\ RankIn(A, j) + 1 = Place(r) + 1
    BY <1>5, <1>7, <1>9 DEF Place, A
  <2> QED BY <1>4, <1>5, <1>6, <2>1, <2>2 DEF Between
<1>12. RankIn(A, j) + 1 + delta' = (n' - n) * (handled' + 1) + Passed'
  <2>1. Passed' = RankIn(A, j) + 1
    BY <1>1, <1>9, <1>10 DEF Passed
  <2>2. (n' - n) * (handled' + 1) = 0
    BY <1>1, <1>7
  <2> QED BY <1>1, <1>10, <2>1, <2>2
<1>13. Paused(H)'
  <2>1. RankIn(A, j) + 1 \in Nat /\ n <= n
    BY <1>7, <1>10
  <2> QED BY <1>1, <1>7, <1>11, <1>12, <2>1 DEF Paused
<1>14. Told'
  BY <1>1, <1>3, <1>13 DEF LeavesTrace, Told
<1> QED BY <1>1, <1>14 DEF LeavesTrace, Copying

LEMMA EntryLeaves == Entry(cps) => LeavesTrace
  BY DEF Entry, LeavesTrace, Copying

LEMMA NextLeaves == ASSUME IInv, LeavesTrace, [Next]_vars PROVE LeavesTrace'
<1>1. CASE UNCHANGED vars
  <2>1. UNCHANGED HandledPositions
    BY <1>1, StutterInv
  <2>2. UNCHANGED vars /\ HasNonAscii(cps)' = HasNonAscii(cps)
    BY <1>1 DEF vars, digitVars, HasNonAscii
  <2>3. /\ Copying' <=> Copying
        /\ Told' <=> Told
    BY <2>1, <2>2 DEF vars, digitVars, Copying, Told, Paused, Passed, Writing, Adapting, Present
  <2> QED BY <2>2, <2>3 DEF LeavesTrace, vars, digitVars
<1>2. CASE ReturnAscii
  <2>1. ~HasNonAscii(cps)'
    BY <1>2 DEF ReturnAscii, HasNonAscii
  <2> QED BY <2>1 DEF LeavesTrace
<1> QED
  BY <1>1, <1>2, PrepareLeaves, CopyLeaves, EndCopyLeaves, NextMinimumLeaves, FinishLeaves,
     ScanPassLeaves, ScanEqualLeaves, EndScanLeaves, EmitDigitLeaves, EmitLastLeaves,
     AdaptLoopLeaves, EndAdaptLeaves DEF Next

LEMMA NextEndsWell == ASSUME IInv, EndsWell, [Next]_vars PROVE EndsWell'
<1>1. CASE Finish
  BY <1>1 DEF Finish, EndsWell, HasNonAscii
<1>2. CASE ReturnAscii
  BY <1>2 DEF ReturnAscii, EndsWell, HasNonAscii
<1>3. CASE UNCHANGED vars
  BY <1>3 DEF vars, digitVars, EndsWell, HasNonAscii
<1>4. CASE Next /\ ~Finish /\ ~ReturnAscii
  <2>1. pc' # "done"
    BY <1>4 DEF Next, Prepare, CopyBasic, EndCopy, NextMinimum, ScanSmaller, ScanLarger, ScanEqual,
       EndScan, EmitDigit, EmitLast, AdaptLoop, EndAdapt, Fail
  <2> QED BY <2>1 DEF EndsWell
<1> QED BY <1>1, <1>2, <1>3, <1>4

(* What the encoder has written when it returns.                           *)
LEMMA EncodedTrace ==
    ASSUME IInv, LeavesTrace, EndsWell, pc = "done", HasNonAscii(cps)
    PROVE  /\ LiteralPart(cps, out)
           /\ \E H : /\ Traces(cps, H, out)
                     /\ \E m, at \in Nat : Between(cps, H, Len(out), DOMAIN cps, m, at, bias)
<1>1. Told /\ handled >= Len(cps)
  BY DEF LeavesTrace, EndsWell
<1>2. HandledPositions = DOMAIN cps
  <2>1. HandledPositions \in SUBSET DOMAIN cps
    BY DEF HandledPositions
  <2>2. handled = Cardinality(HandledPositions)
    BY DEF IInv, CountsHandled
  <2> QED BY <1>1, <2>1, <2>2, Positions DEF IInv
<1> QED BY <1>1, <1>2 DEF Told, Paused
=============================================================================
