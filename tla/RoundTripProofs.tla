-------------------------- MODULE RoundTripProofs ---------------------------
(***************************************************************************)
(* Both directions in a row: the decoder, whether its bytes are a caller's *)
(* or the encoder's, keeps to its types, tells adapt() right of the first  *)
(* integer, inserts in the order of RFC 3492 and takes its basic code      *)
(* points from the literals alone; the encoder throws nothing, whether its *)
(* code points are a caller's or the decoder's; and decoding what it wrote *)
(* gives the label back.  For every set of labels and every parameter and  *)
(* width the assumptions allow.                                            *)
(***************************************************************************)
EXTENDS RoundTrip, EncoderProofs, FunctionTheorems

AllBasic == \A p \in DOMAIN output : D!IsBasic(output[p])

(* Where the reader is: a code point costs a byte at least.                *)
Reading ==
    /\ dpc = "start" => index = 1
    /\ dpc \notin {"start", "failed"} => Len(label) + 4 <= MaxLabelLength
    /\ dpc = "literals" => index <= Len(label)
    /\ Len(output) < index
    /\ dpc \in {"adapt", "insert"} => Len(output) + 1 < index

(* Where the insertions are: i leaves 0 with the first of them, and stays  *)
(* away from it; between two of them i only grows, from oldi.              *)
Inserting ==
    /\ dn >= D!InitialN
    /\ dpc \in {"start", "literals"} => dn = D!InitialN /\ i = 0 /\ oldi = 0 /\ AllBasic
    /\ dpc = "integers" => (i = 0 <=> AllBasic) /\ (AllBasic => oldi = 0)
    /\ dpc \in {"digits", "adapt", "insert"} => (oldi = 0 <=> AllBasic) /\ oldi <= i

DInv == D!TypeOK /\ Reading /\ Inserting

-----------------------------------------------------------------------------
(* The operators of Bootstring, as the decoder sees them.                  *)
LEMMA DecoderScalarRange ==
    /\ D!MaxScalar \in Nat /\ D!InitialN \in Nat /\ D!InitialN < D!MaxScalar
    /\ D!MaxScalar < MaxU32 /\ MaxU32 \in Nat /\ MaxU64 \in Nat /\ MaxU32 <= MaxU64
  BY WidthAssumption, SMT DEF D!MaxScalar, MaxScalar, D!InitialN

LEMMA DecoderThreshold ==
    ASSUME NEW a \in Nat, NEW b \in Nat
    PROVE  D!Threshold(a, b) \in 1..TMax
<1>1. D!Threshold(a, b) = Threshold(a, b)
  BY DEF D!Threshold, Threshold
<1> QED BY <1>1, ThresholdRange

LEMMA DecoderAdaptType ==
    /\ \A a \in Nat, p \in Nat \ {0}, f \in BOOLEAN : D!AdaptStart(a, p, f) \in Nat
    /\ \A a \in Nat : D!AdaptDivide(a) \in Nat
    /\ \A a \in Nat, b \in Nat : D!AdaptResult(a, b) \in Nat
<1>1. \A a, p, f : D!AdaptStart(a, p, f) = AdaptStart(a, p, f)
  BY DEF D!AdaptStart, AdaptStart
<1>2. \A a, b : D!AdaptDivide(a) = AdaptDivide(a) /\ D!AdaptResult(a, b) = AdaptResult(a, b)
  BY DEF D!AdaptDivide, AdaptDivide, D!AdaptResult, AdaptResult
<1> QED BY <1>1, <1>2, AdaptType

(* The numbers: a digit is below the base, a product that fits stays in 64 *)
(* bits.                                                                   *)
LEMMA DecodedDigitRange == \A c \in 0..255 : D!DecodeDigit(c) \in -1..35
  BY SMT DEF D!DecodeDigit

LEMMA SameTests ==
    /\ \A c : IsBasic(c) <=> D!IsBasic(c)
    /\ \A c : IsScalar(c) <=> D!IsScalar(c)
    /\ D!CodePoints = CodePoints
<1>1. D!MaxScalar = MaxScalar /\ D!InitialN = InitialN
  BY SMT DEF D!MaxScalar, MaxScalar, D!InitialN, InitialN
<1>2. \A c : IsBasic(c) <=> D!IsBasic(c)
  BY <1>1, Zenon DEF IsBasic, D!IsBasic
<1>3. D!CodePoints = CodePoints
  BY <1>1, Zenon DEF CodePoints, D!CodePoints
<1>4. \A c : IsScalar(c) <=> D!IsScalar(c)
  BY <1>3 DEF IsScalar, D!IsScalar
<1> QED BY <1>2, <1>3, <1>4

LEMMA LDHIsBasic ==
    ASSUME NEW c \in 0..255, D!IsLDH(c)
    PROVE  c \in 0..127 /\ D!IsBasic(c) /\ c \in D!CodePoints /\ D!IsScalar(c)
<1>1. c \in 0..127
  BY SMT DEF D!IsLDH, D!Delimiter
<1>2. D!IsBasic(c)
  BY <1>1, SMT DEF D!IsBasic, D!InitialN
<1>3. c \in D!CodePoints
  BY <1>1, DecoderScalarRange DEF D!CodePoints, D!InitialN
<1>4. D!IsScalar(c)
  BY <1>1, <1>3, SMT DEF D!IsScalar
<1> QED BY <1>1, <1>2, <1>3, <1>4

LEMMA ScalarRange == \A c : D!IsScalar(c) => c \in D!CodePoints /\ c \in 0..MaxU32
<1>1. \A c \in 0..D!MaxScalar : c \in 0..MaxU32
  BY DecoderScalarRange
<1> QED BY <1>1 DEF D!IsScalar, D!CodePoints

LEMMA FitsMeansFits ==
    ASSUME NEW a \in Nat, NEW b \in Nat, D!MulFits(a, b)
    PROVE  a * b \in 0..MaxU64
<1>1. CASE b = 0
  <2>1. a * b = 0
    BY <1>1
  <2> QED BY <2>1, DecoderScalarRange
<1>2. CASE b # 0
  <2> DEFINE Q == MaxU64 \div b
  <2>1. Q \in Nat /\ MaxU64 % b \in Nat /\ MaxU64 = b * Q + (MaxU64 % b) /\ a <= Q
    BY <1>2, Division, DecoderScalarRange DEF D!MulFits
  <2> HIDE DEF Q
  <2>2. a * b \in Nat /\ (Q - a) * b \in Nat
    BY <2>1
  <2>3. b * Q = a * b + (Q - a) * b
    BY <2>1
  <2> QED BY <2>1, <2>2, <2>3, DecoderScalarRange
<1> QED BY <1>1, <1>2

(* Where a position goes when something is inserted at p.                  *)
Moved(p, u) == IF u < p THEN u ELSE u + 1

(* What InsertAt gives: the sequence, one longer, with e at its place.     *)
LEMMA InsertAtProperties ==
    ASSUME NEW S, NEW s \in Seq(S), NEW p \in 1..(Len(s) + 1), NEW e \in S
    PROVE  /\ D!InsertAt(s, p, e) \in Seq(S)
           /\ Len(D!InsertAt(s, p, e)) = Len(s) + 1
           /\ D!InsertAt(s, p, e)[p] = e
           /\ \A u \in 1..Len(s) : D!InsertAt(s, p, e)[Moved(p, u)] = s[u]
<1> DEFINE front == SubSeq(s, 1, p - 1)
           back  == SubSeq(s, p, Len(s))
<1>1. Len(s) \in Nat /\ p \in Nat /\ \A u \in 1..Len(s) : s[u] \in S
  BY ElementOfSeq
<1>2. /\ front \in Seq(S) /\ Len(front) = p - 1
      /\ \A u \in 1..(p - 1) : front[u] = s[u]
  BY <1>1, SubSeqProperties
<1>3. /\ back \in Seq(S) /\ Len(back) = Len(s) - p + 1
      /\ \A u \in 1..(Len(s) - p + 1) : back[u] = s[p + u - 1]
  BY <1>1, SubSeqProperties
<1> HIDE DEF front, back
<1>4. <<e>> \in Seq(S) /\ Len(<<e>>) = 1 /\ <<e>>[1] = e
  OBVIOUS
<1>5. /\ front \o <<e>> \in Seq(S) /\ Len(front \o <<e>>) = p
      /\ (front \o <<e>>)[p] = e
      /\ \A u \in 1..(p - 1) : (front \o <<e>>)[u] = front[u]
  BY <1>1, <1>2, <1>4, ConcatProperties
<1> DEFINE head == front \o <<e>>
<1> HIDE DEF head
<1>6. /\ head \in Seq(S) /\ Len(head) = p /\ head[p] = e
      /\ \A u \in 1..(p - 1) : head[u] = s[u]
  BY <1>2, <1>5 DEF head
<1>7. /\ head \o back \in Seq(S)
      /\ Len(head \o back) = Len(head) + Len(back)
      /\ \A u \in 1..Len(head) + Len(back) :
            (head \o back)[u] = IF u <= Len(head) THEN head[u] ELSE back[u - Len(head)]
  BY <1>3, <1>6, ConcatProperties
<1>8. Len(head \o back) = Len(s) + 1 /\ (head \o back)[p] = e
  BY <1>1, <1>3, <1>6, <1>7
<1>9. ASSUME NEW u \in 1..Len(s) PROVE (head \o back)[Moved(p, u)] = s[u]
  <2>1. CASE u < p
    <3>1. u \in 1..(p - 1) /\ u <= Len(head) /\ u \in 1..(Len(head) + Len(back))
      BY <1>1, <1>3, <1>6, <2>1
    <3> QED BY <1>6, <1>7, <2>1, <3>1 DEF Moved
  <2>2. CASE ~(u < p)
    <3>1. /\ u + 1 \in 1..(Len(head) + Len(back)) /\ ~(u + 1 <= Len(head))
          /\ u + 1 - p \in 1..(Len(s) - p + 1) /\ p + (u + 1 - p) - 1 = u
      BY <1>1, <1>3, <1>6, <2>2
    <3>2. (head \o back)[u + 1] = back[u + 1 - p]
      BY <1>6, <1>7, <3>1
    <3>3. back[u + 1 - p] = s[u]
      BY <1>3, <3>1
    <3> QED BY <2>2, <3>2, <3>3 DEF Moved
  <2> QED BY <2>1, <2>2
<1> QED BY <1>7, <1>8, <1>9 DEF D!InsertAt, head, front, back

(* The byte that is read, and what it is worth.                            *)
LEMMA ByteOf ==
    ASSUME D!TypeOK, index <= Len(label)
    PROVE  /\ Len(label) \in Nat /\ index \in Nat /\ index + 1 \in 1..(Len(label) + 1)
           /\ label[index] \in 0..255 /\ D!Digit \in -1..35
<1>1. label \in Seq(0..255) /\ index \in 1..Len(label) /\ Len(label) \in Nat
  BY DEF D!TypeOK
<1>2. label[index] \in 0..255
  BY <1>1, ElementOfSeq, Zenon
<1>3. D!Digit \in -1..35
  BY <1>2, DecodedDigitRange DEF D!Digit
<1>4. index \in Nat /\ index + 1 \in 1..(Len(label) + 1)
  BY <1>1
<1> QED BY <1>1, <1>2, <1>3, <1>4

LEMMA OutputOf ==
    ASSUME D!TypeOK
    PROVE  /\ Len(output) \in Nat /\ D!OutLen \in Nat \ {0} /\ D!OutLen = Len(output) + 1
           /\ DOMAIN output = 1..Len(output)
           /\ Len(label) \in Nat /\ index \in Nat /\ index <= Len(label) + 1
           /\ DOMAIN label = 1..Len(label)
  BY DEF D!TypeOK, D!OutLen

(* A code point that has been inserted is not basic.                       *)
LEMMA NotAllBasic ==
    ASSUME NEW s, NEW p \in DOMAIN s, NEW c \in Nat, s[p] = c, c >= D!InitialN
    PROVE  ~ \A u \in DOMAIN s : D!IsBasic(s[u])
  BY DecoderScalarRange DEF D!IsBasic

-----------------------------------------------------------------------------
(* What the cap on a payload leaves room for. *)
LEMMA CapRange ==
    /\ MaxLabelLength \in Nat /\ Base \in 2..36
    /\ (MaxScalar + 2) * MaxLabelLength \in Nat
    /\ (MaxScalar + 2) * MaxLabelLength <= MaxU64
<1> DEFINE c == (MaxScalar + 2) * MaxLabelLength
<1>1. MaxLabelLength \in Nat /\ Base \in 2..36 /\ MaxU64 \in Nat
  BY PayloadAssumption, BootstringAssumption, WidthAssumption
<1>2. c \in Nat
  BY <1>1, MaxScalarRange
<1>3. Base * c <= MaxU64
  BY CapAssumption
<1> HIDE DEF c
<1>4. c <= MaxU64
  <2>1. 1 * c <= Base * c
    BY <1>1, <1>2, Product
  <2>2. 1 * c = c /\ Base * c \in Nat
    BY <1>1, <1>2
  <2> QED BY <1>1, <1>2, <1>3, <2>1, <2>2
<1> QED BY <1>1, <1>2, <1>4 DEF c

(* The decoder as it is entered.                                           *)
DEntered == D!Entry(label) /\ label \in Seq(0..255)

LEMMA DEntryInv == DEntered => DInv
<1> SUFFICES ASSUME DEntered PROVE DInv
  OBVIOUS
<1>1. D!Entry(label) /\ label \in Seq(0..255) /\ Len(label) \in Nat
  BY DEF DEntered
<1>2. D!TypeOK
  BY <1>1, DecoderScalarRange, BootstringAssumption DEF D!Entry, D!TypeOK, D!Errors
<1>3. Reading /\ Inserting
  BY <1>1, DecoderScalarRange DEF D!Entry, Reading, Inserting, AllBasic
<1> QED BY <1>2, <1>3 DEF DInv

(* A refusal keeps everything but where the function is and what it read.  *)
LEMMA RefuseInv ==
    ASSUME DInv, dpc' = "failed", derr' \in D!Errors, index' \in {index, index + 1},
           index' \in 1..(Len(label) + 1),
           UNCHANGED <<label, output, dn, i, dbias, D!digitVars>>
    PROVE  DInv'
<1>1. Len(output) \in Nat /\ index \in Nat
  BY OutputOf DEF DInv
<1>2. D!TypeOK'
  BY DEF DInv, D!TypeOK, D!digitVars
<1>3. Reading' /\ Inserting'
  BY <1>1 DEF DInv, Reading, Inserting
<1> QED BY <1>2, <1>3 DEF DInv

LEMMA RefusalsInv ==
    ASSUME DInv, D!TooLong \/ D!NoPayload \/ D!Truncated \/ D!NoDigit \/ D!Overflow \/ D!NOverflow \/ D!NotScalar
    PROVE  DInv'
<1>1. index \in 1..(Len(label) + 1)
  BY DEF DInv, D!TypeOK
<1>2. CASE D!TooLong \/ D!NoPayload \/ D!Truncated \/ D!NOverflow \/ D!NotScalar
  <2>1. dpc' = "failed" /\ derr' \in D!Errors /\ UNCHANGED <<label, index, output, dn, i, dbias, D!digitVars>>
    BY <1>2 DEF D!TooLong, D!NoPayload, D!Truncated, D!NOverflow, D!NotScalar, D!Fail, D!Errors
  <2> QED BY <1>1, <2>1, RefuseInv
<1>3. CASE D!NoDigit \/ D!Overflow
  <2>1. /\ index <= Len(label) /\ index' = index + 1
        /\ dpc' = "failed" /\ derr' \in D!Errors /\ UNCHANGED <<label, output, dn, i, dbias, D!digitVars>>
    BY <1>3 DEF D!NoDigit, D!Overflow, D!AtByte, D!Fail, D!Errors
  <2>2. index' \in 1..(Len(label) + 1)
    BY <2>1, ByteOf DEF DInv
  <2> QED BY <2>1, <2>2, RefuseInv
<1> QED BY <1>2, <1>3

LEMMA StartInv == ASSUME DInv, D!Start PROVE DInv'
<1>1. /\ label \in Seq(0..255) /\ label # <<>> /\ index = 1
      /\ Len(label) + 4 <= MaxLabelLength
  BY DEF DInv, D!TypeOK, D!Start, Reading
<1>2. Len(label) \in Nat \ {0}
  BY <1>1, EmptySeq
<1>3. D!TypeOK'
  BY DEF DInv, D!TypeOK, D!Start, D!digitVars
<1>4. Reading' /\ Inserting'
  BY <1>1, <1>2 DEF DInv, Reading, Inserting, D!Start, D!digitVars, AllBasic
<1> QED BY <1>3, <1>4 DEF DInv

LEMMA CopyLiteralInv == ASSUME DInv, D!CopyLiteral PROVE DInv'
<1>1. /\ dpc = "literals" /\ index \in Nat /\ Len(label) \in Nat /\ DOMAIN label = 1..Len(label)
      /\ Len(output) \in Nat /\ DOMAIN output = 1..Len(output) /\ output \in Seq(D!CodePoints)
      /\ index <= Len(label) /\ UNCHANGED <<label, dn, i, dbias, D!digitVars>>
  BY OutputOf DEF DInv, D!TypeOK, Reading, D!CopyLiteral
<1>2. label[index] \in 0..255 /\ index + 1 \in 1..(Len(label) + 1)
  <2>1. D!TypeOK
    BY DEF DInv
  <2> QED BY <1>1, <2>1, ByteOf
<1>3. index + 1 <= Len(label)
  BY <1>1 DEF D!CopyLiteral, D!IsLiteral
<1>4. CASE D!IsLDH(label[index])
  <2> DEFINE c == label[index]
  <2>1. D!IsBasic(c) /\ c \in D!CodePoints
    BY <1>2, <1>4, LDHIsBasic, Zenon
  <2>2. /\ output' = Append(output, c) /\ index' = index + 1 /\ dpc' = "literals" /\ derr' = derr
    BY <1>1, <1>4 DEF D!CopyLiteral
  <2> HIDE DEF c
  <2>3. /\ output' \in Seq(D!CodePoints) /\ Len(output') = Len(output) + 1
        /\ \A p \in 1..Len(output) : output'[p] = output[p]
        /\ output'[Len(output) + 1] = c
    BY <1>1, <2>1, <2>2, AppendProperties
  <2>4. AllBasic'
    <3> SUFFICES ASSUME NEW p \in 1..(Len(output) + 1) PROVE D!IsBasic(output'[p])
      BY <2>3 DEF AllBasic
    <3>1. CASE p <= Len(output)
      BY <1>1, <2>3, <3>1 DEF DInv, Inserting, AllBasic
    <3>2. CASE p = Len(output) + 1
      BY <2>1, <2>3, <3>2
    <3> QED BY <1>1, <3>1, <3>2
  <2>5. D!TypeOK'
    BY <1>1, <1>2, <2>2, <2>3 DEF DInv, D!TypeOK, D!digitVars
  <2>6. Reading'
    BY <1>1, <1>3, <2>2, <2>3 DEF DInv, Reading
  <2>7. Inserting'
    BY <1>1, <2>2, <2>4 DEF DInv, Inserting, D!digitVars
  <2> QED BY <2>5, <2>6, <2>7 DEF DInv
<1>5. CASE ~D!IsLDH(label[index])
  <2>1. dpc' = "failed" /\ derr' \in D!Errors /\ UNCHANGED <<label, index, output, dn, i, dbias, D!digitVars>>
    BY <1>5 DEF D!CopyLiteral, D!Fail, D!Errors
  <2> QED BY <2>1, RefuseInv DEF DInv, D!TypeOK
<1> QED BY <1>4, <1>5

LEMMA EndLiteralsInv == ASSUME DInv, D!EndLiterals PROVE DInv'
<1>1. /\ dpc = "literals" /\ dpc' = "integers" /\ index \in Nat /\ Len(label) \in Nat
      /\ index \in 1..(Len(label) + 1) /\ index + 1 \in 1..(Len(label) + 1)
      /\ index' \in {index, index + 1} /\ UNCHANGED <<label, output, dn, i, dbias, D!digitVars, derr>>
      /\ Len(output) \in Nat
  BY ByteOf, OutputOf DEF DInv, D!TypeOK, Reading, D!EndLiterals
<1>2. D!TypeOK'
  BY <1>1 DEF DInv, D!TypeOK, D!digitVars
<1>3. Reading' /\ Inserting'
  BY <1>1 DEF DInv, Reading, Inserting, AllBasic, D!digitVars
<1> QED BY <1>2, <1>3 DEF DInv

LEMMA NextIntegerInv == ASSUME DInv, D!NextInteger PROVE DInv'
<1>1. 1 \in 0..MaxU64 /\ Base \in Nat
  BY DecoderScalarRange, BootstringAssumption
<1>2. D!TypeOK'
  BY <1>1 DEF DInv, D!TypeOK, D!NextInteger
<1>3. Reading' /\ Inserting'
  BY DEF DInv, D!TypeOK, Reading, Inserting, AllBasic, D!NextInteger
<1> QED BY <1>2, <1>3 DEF DInv

(* Every digit of an integer adds to i, or leaves it; none makes it less.  *)
LEMMA SumInv ==
    ASSUME DInv, dpc = "digits", index <= Len(label), D!Digit >= 0, D!SumFits
    PROVE  i + D!Digit * w \in 0..MaxU64 /\ oldi <= i + D!Digit * w
<1>1. i \in 0..MaxU64 /\ w \in 0..MaxU64 /\ oldi \in 0..MaxU64 /\ oldi <= i
  BY DEF DInv, D!TypeOK, Inserting
<1>2. D!Digit \in Nat /\ i \in Nat /\ w \in Nat /\ oldi \in Nat
  <2>1. D!Digit \in -1..35
    BY ByteOf DEF DInv
  <2> QED BY <1>1, <2>1
<1>3. D!Digit * w \in 0..MaxU64
  BY <1>2, FitsMeansFits DEF D!SumFits
<1>4. i <= MaxU64 - D!Digit * w
  BY DEF D!SumFits, D!AddFits
<1> HIDE DEF D!Digit
<1> QED BY <1>1, <1>2, <1>3, <1>4, DecoderScalarRange

LEMMA TakeDigitInv == ASSUME DInv, D!TakeDigit PROVE DInv'
<1>1. /\ dpc = "digits" /\ dpc' = dpc /\ index <= Len(label) /\ index' = index + 1
      /\ D!Digit >= D!T /\ D!SumFits /\ D!MulFits(w, Base - D!T)
      /\ i' = i + D!Digit * w /\ w' = w * (Base - D!T) /\ dk' = dk + Base
      /\ UNCHANGED <<label, output, dn, dbias, oldi, dd, derr>>
  BY DEF D!TakeDigit, D!AtByte
<1>2. D!T \in 1..TMax
  BY DecoderThreshold DEF DInv, D!TypeOK, D!T
<1>3. Base - D!T \in Nat /\ Base \in Nat /\ D!T > 0 /\ w \in Nat /\ dk \in Nat /\ dk + Base \in Nat
  BY <1>2, BootstringAssumption DEF DInv, D!TypeOK
<1>4. D!Digit >= 0
  <2>1. D!Digit \in -1..35
    BY <1>1, ByteOf DEF DInv
  <2>2. D!T \in Nat /\ D!T > 0
    BY <1>2, BootstringAssumption
  <2> QED BY <1>1, <2>1, <2>2
<1>5. w' \in 0..MaxU64
  BY <1>1, <1>3, FitsMeansFits
<1>6. i' \in 0..MaxU64 /\ oldi <= i'
  BY <1>1, <1>4, SumInv
<1>7. index' \in 1..(Len(label) + 1)
  BY <1>1, ByteOf DEF DInv
<1>8. D!TypeOK'
  BY <1>1, <1>3, <1>5, <1>6, <1>7 DEF DInv, D!TypeOK
<1>9. Reading'
  BY <1>1, OutputOf DEF DInv, Reading
<1>10. Inserting'
  BY <1>1, <1>6 DEF DInv, Inserting, AllBasic
<1> QED BY <1>8, <1>9, <1>10 DEF DInv

LEMMA TakeLastInv == ASSUME DInv, D!TakeLast PROVE DInv'
<1>1. /\ dpc = "digits" /\ dpc' = "adapt" /\ index <= Len(label) /\ index' = index + 1
      /\ D!Digit >= 0 /\ D!SumFits
      /\ i' = i + D!Digit * w /\ dk' = 0
      /\ dd' = D!AdaptStart(i' - oldi, Len(output) + 1, oldi = 0)
      /\ UNCHANGED <<label, output, dn, dbias, oldi, w, derr>>
  BY DEF D!TakeLast, D!AtByte
<1>2. i' \in 0..MaxU64 /\ oldi <= i' /\ i' - oldi \in Nat
  <2>1. i' \in 0..MaxU64 /\ oldi <= i'
    BY <1>1, SumInv
  <2>2. oldi \in 0..MaxU64
    BY DEF DInv, D!TypeOK
  <2>3. \A x, y \in 0..MaxU64 : y <= x => x - y \in Nat
    BY DecoderScalarRange
  <2> QED BY <2>1, <2>2, <2>3, Zenon
<1>3. dd' \in Nat
  <2>1. Len(output) + 1 \in Nat \ {0} /\ (oldi = 0) \in BOOLEAN
    BY OutputOf DEF DInv
  <2> QED BY <1>1, <1>2, <2>1, DecoderAdaptType
<1>4. index' \in 1..(Len(label) + 1)
  BY <1>1, ByteOf DEF DInv
<1>5. D!TypeOK'
  BY <1>1, <1>2, <1>3, <1>4 DEF DInv, D!TypeOK
<1>6. Reading'
  BY <1>1, OutputOf DEF DInv, Reading
<1>7. Inserting'
  BY <1>1, <1>2 DEF DInv, Inserting, AllBasic
<1> QED BY <1>5, <1>6, <1>7 DEF DInv

LEMMA AdaptInv == ASSUME DInv, D!AdaptLoop \/ D!EndAdapt PROVE DInv'
<1>1. dd \in Nat /\ dk \in Nat /\ Base \in Nat
  BY BootstringAssumption DEF DInv, D!TypeOK
<1>2. D!AdaptDivide(dd) \in Nat /\ D!AdaptResult(dd, dk) \in Nat /\ dk + Base \in Nat
  BY <1>1, DecoderAdaptType
<1>3. D!TypeOK'
  BY <1>2 DEF DInv, D!TypeOK, D!AdaptLoop, D!EndAdapt, D!digitVars
<1>4. Reading' /\ Inserting'
  BY DEF DInv, Reading, Inserting, AllBasic, D!AdaptLoop, D!EndAdapt, D!digitVars
<1> QED BY <1>3, <1>4 DEF DInv

(* The place of an insertion and its code point are where they should be.  *)
LEMMA PlaceOf ==
    ASSUME D!TypeOK, dn >= D!InitialN
    PROVE  /\ i % D!OutLen \in 0..Len(output) /\ (i % D!OutLen) + 1 \in 1..(Len(output) + 1)
           /\ i \div D!OutLen \in Nat /\ i = D!OutLen * (i \div D!OutLen) + (i % D!OutLen)
           /\ D!NextN \in Nat /\ D!NextN >= dn /\ D!NextN >= D!InitialN
           /\ D!NextN = dn => i = i % D!OutLen
<1>1. i \in Nat /\ dn \in Nat
  BY DecoderScalarRange DEF D!TypeOK
<1>2. /\ D!OutLen \in Nat \ {0} /\ D!OutLen = Len(output) + 1 /\ Len(output) \in Nat
  BY OutputOf
<1>3. /\ i \div D!OutLen \in 0..i /\ i % D!OutLen \in 0..(D!OutLen - 1)
      /\ i = D!OutLen * (i \div D!OutLen) + (i % D!OutLen)
  BY <1>1, <1>2, Division
<1> DEFINE u == i \div D!OutLen
           r == i % D!OutLen
<1>4. u \in Nat /\ r \in 0..Len(output) /\ r + 1 \in 1..(Len(output) + 1) /\ i = D!OutLen * u + r
      /\ D!NextN = dn + u
  BY <1>1, <1>2, <1>3 DEF D!NextN
<1> HIDE DEF u, r
<1>5. D!NextN \in Nat /\ D!NextN >= dn /\ D!NextN >= D!InitialN
  BY <1>1, <1>4, DecoderScalarRange
<1>6. D!NextN = dn => i = r
  BY <1>1, <1>2, <1>4
<1> QED BY <1>4, <1>5, <1>6 DEF u, r

LEMMA InsertInv == ASSUME DInv, D!Insert PROVE DInv'
<1> DEFINE p == (i % D!OutLen) + 1
<1>1. /\ dpc = "insert" /\ dpc' = "integers" /\ D!IsScalar(D!NextN)
      /\ output' = D!InsertAt(output, p, D!NextN) /\ dn' = D!NextN /\ i' = p
      /\ UNCHANGED <<label, index, dbias, D!digitVars, derr>>
  BY DEF D!Insert
<1>2. p \in 1..(Len(output) + 1) /\ D!NextN \in Nat /\ D!NextN >= D!InitialN
  BY PlaceOf DEF DInv, Inserting
<1> HIDE DEF p
<1>3. D!NextN \in D!CodePoints /\ D!NextN \in 0..MaxU32
  BY <1>1, ScalarRange
<1>4. output \in Seq(D!CodePoints)
  BY DEF DInv, D!TypeOK
<1>5. /\ output' \in Seq(D!CodePoints) /\ Len(output') = Len(output) + 1 /\ output'[p] = D!NextN
  BY <1>1, <1>2, <1>3, <1>4, InsertAtProperties
<1>6. ~ AllBasic'
  <2>1. DOMAIN output' = 1..(Len(output) + 1)
    BY <1>5
  <2> QED BY <1>2, <1>5, <2>1, NotAllBasic DEF AllBasic
<1>7. /\ Len(output) \in Nat /\ index \in Nat /\ Len(label) \in Nat /\ index <= Len(label) + 1
      /\ Len(output) + 1 < index /\ Len(label) + 4 <= MaxLabelLength
      /\ MaxLabelLength <= MaxU64 /\ MaxLabelLength \in Nat
  BY <1>1, OutputOf, PayloadAssumption, DecoderScalarRange DEF DInv, Reading
<1>8. p \in 0..MaxU64 /\ p # 0
  BY <1>2, <1>7, DecoderScalarRange
<1>9. D!TypeOK'
  BY <1>1, <1>3, <1>5, <1>8 DEF DInv, D!TypeOK, D!digitVars
<1>10. Reading'
  BY <1>1, <1>5, <1>7 DEF DInv, Reading
<1>11. Inserting'
  BY <1>1, <1>2, <1>6, <1>8 DEF DInv, Inserting
<1> QED BY <1>9, <1>10, <1>11 DEF DInv

LEMMA DFinishInv == ASSUME DInv, D!Finish PROVE DInv'
<1>1. D!TypeOK'
  BY DEF DInv, D!TypeOK, D!Finish, D!Fail, D!Errors, D!digitVars
<1>2. Reading' /\ Inserting'
  BY DEF DInv, Reading, Inserting, AllBasic, D!Finish, D!Fail, D!digitVars
<1> QED BY <1>1, <1>2 DEF DInv

LEMMA DNextInv == DInv /\ [D!Next]_D!vars => DInv'
<1> SUFFICES ASSUME DInv, [D!Next]_D!vars PROVE DInv'
  OBVIOUS
<1>1. CASE D!TooLong \/ D!NoPayload \/ D!Truncated \/ D!NoDigit \/ D!Overflow \/ D!NOverflow \/ D!NotScalar
  BY <1>1, RefusalsInv
<1>2. CASE D!Start
  BY <1>2, StartInv
<1>3. CASE D!CopyLiteral
  BY <1>3, CopyLiteralInv
<1>4. CASE D!EndLiterals
  BY <1>4, EndLiteralsInv
<1>5. CASE D!NextInteger
  BY <1>5, NextIntegerInv
<1>6. CASE D!TakeDigit
  BY <1>6, TakeDigitInv
<1>7. CASE D!TakeLast
  BY <1>7, TakeLastInv
<1>8. CASE D!AdaptLoop \/ D!EndAdapt
  BY <1>8, AdaptInv
<1>9. CASE D!Insert
  BY <1>9, InsertInv
<1>10. CASE D!Finish
  BY <1>10, DFinishInv
<1>11. CASE UNCHANGED D!vars
  BY <1>11 DEF D!vars, D!digitVars, DInv, D!TypeOK, Reading, Inserting, AllBasic
<1> QED BY <1>1, <1>2, <1>3, <1>4, <1>5, <1>6, <1>7, <1>8, <1>9, <1>10, <1>11 DEF D!Next

-----------------------------------------------------------------------------
(* One step of the decoder is one of Insertions or changes nothing of it.  *)
LEMMA StutterStep ==
    ASSUME UNCHANGED <<output, D!State(dn, i)>>
    PROVE  [D!Abstract!Next]_<<output, D!State(dn, i)>>
  OBVIOUS

LEMMA LiteralStep ==
    ASSUME DInv, D!CopyLiteral
    PROVE  [D!Abstract!Next]_<<output, D!State(dn, i)>>
<1>1. /\ dpc = "literals" /\ index <= Len(label) /\ dn = D!InitialN /\ i = 0 /\ oldi = 0
      /\ UNCHANGED <<dn, i, oldi>>
  BY DEF DInv, Reading, Inserting, D!CopyLiteral, D!digitVars
<1>2. D!State(dn, i) = <<128, 0>> /\ D!State(dn, i)' = D!State(dn, i)
  <2>1. dpc' \in {"literals", "failed"}
    BY <1>1 DEF D!CopyLiteral, D!Fail
  <2> QED BY <1>1, <2>1 DEF D!State, D!InitialN
<1>3. CASE D!IsLDH(label[index])
  <2>1. label[index] \in 0..127
    <3>1. label[index] \in 0..255
      BY <1>1, ByteOf DEF DInv
    <3> QED BY <1>3, <3>1, LDHIsBasic
  <2>2. output' = Append(output, label[index])
    BY <1>3 DEF D!CopyLiteral
  <2>3. D!Abstract!AddBasic
    BY <1>2, <2>1, <2>2 DEF D!Abstract!AddBasic
  <2> QED BY <2>3 DEF D!Abstract!Next
<1>4. CASE ~D!IsLDH(label[index])
  BY <1>2, <1>4 DEF D!CopyLiteral
<1> QED BY <1>3, <1>4

LEMMA InsertStep ==
    ASSUME DInv, D!Insert
    PROVE  D!Abstract!Next
<1> DEFINE p == i % D!OutLen
<1>1. /\ dpc = "insert" /\ dpc' = "integers" /\ D!IsScalar(D!NextN)
      /\ output' = D!InsertAt(output, p + 1, D!NextN) /\ dn' = D!NextN /\ i' = p + 1
  BY DEF D!Insert
<1>2. /\ p \in 0..Len(output) /\ p + 1 \in 1..(Len(output) + 1)
      /\ D!NextN \in Nat /\ D!NextN >= dn /\ (D!NextN = dn => i = p)
  BY PlaceOf DEF DInv, Inserting
<1> HIDE DEF p
<1>3. output \in Seq(D!CodePoints) /\ D!NextN \in D!CodePoints
  BY <1>1, ScalarRange DEF DInv, D!TypeOK
<1>4. Len(output') = Len(output) + 1 /\ output'[p + 1] = D!NextN
  BY <1>1, <1>2, <1>3, InsertAtProperties
<1>5. D!State(dn, i) = <<dn, oldi>> /\ D!State(dn, i)' = <<D!NextN, p + 1>>
  BY <1>1 DEF D!State
<1>6. dn \in Nat /\ oldi \in Nat /\ oldi <= i
  BY <1>1, DecoderScalarRange DEF DInv, D!TypeOK, Inserting
<1>7. D!NextN > dn \/ (D!NextN = dn /\ p >= oldi)
  BY <1>2, <1>6
<1>8. D!Abstract!Insert(D!NextN, p)
  BY <1>1, <1>5, <1>7 DEF D!Abstract!Insert, D!Abstract!InsertAt, D!InsertAt
<1> QED BY <1>2, <1>4, <1>8 DEF D!Abstract!Next

LEMMA OtherStep ==
    ASSUME DInv, D!Next, ~D!CopyLiteral, ~D!Insert
    PROVE  UNCHANGED <<output, D!State(dn, i)>>
<1>1. CASE D!TooLong \/ D!NoPayload
  BY <1>1 DEF D!TooLong, D!NoPayload, D!Fail, D!State, DInv, Inserting, D!digitVars
<1>2. CASE D!Start \/ D!EndLiterals
  BY <1>2 DEF D!Start, D!EndLiterals, D!State, D!digitVars
<1>3. CASE D!NextInteger
  BY <1>3 DEF D!NextInteger, D!State
<1>4. CASE D!Truncated \/ D!NoDigit \/ D!Overflow \/ D!NOverflow \/ D!NotScalar
  BY <1>4 DEF D!Truncated, D!NoDigit, D!Overflow, D!NOverflow, D!NotScalar, D!AtByte, D!Fail, D!State, D!digitVars
<1>5. CASE D!TakeDigit
  BY <1>5 DEF D!TakeDigit, D!AtByte, D!State
<1>6. CASE D!TakeLast
  BY <1>6 DEF D!TakeLast, D!AtByte, D!State
<1>7. CASE D!AdaptLoop \/ D!EndAdapt
  BY <1>7 DEF D!AdaptLoop, D!EndAdapt, D!State, D!digitVars
<1>8. CASE D!Finish
  <2>1. /\ dpc = "integers" /\ UNCHANGED <<output, dn, i, oldi>>
        /\ IF output = <<>> THEN dpc' = "failed" ELSE dpc' = "done"
    BY <1>8 DEF D!Finish, D!Fail, D!digitVars
  <2>2. ASSUME output = <<>> PROVE i = 0 /\ oldi = 0
    <3>1. DOMAIN output = {}
      BY <2>2
    <3>2. AllBasic
      BY <3>1 DEF AllBasic
    <3> QED BY <2>1, <3>2 DEF DInv, Inserting
  <2> QED BY <2>1, <2>2 DEF D!State
<1> QED BY <1>1, <1>2, <1>3, <1>4, <1>5, <1>6, <1>7, <1>8 DEF D!Next

LEMMA DStepOrder ==
    ASSUME DInv, [D!Next]_D!vars
    PROVE  [D!Abstract!Next]_<<output, D!State(dn, i)>>
<1>1. CASE D!CopyLiteral
  BY <1>1, LiteralStep
<1>2. CASE D!Insert
  BY <1>2, InsertStep
<1>3. CASE D!Next /\ ~D!CopyLiteral /\ ~D!Insert
  BY <1>3, OtherStep, StutterStep
<1>4. CASE UNCHANGED D!vars
  BY <1>4 DEF D!vars, D!digitVars, D!State
<1> QED BY <1>1, <1>2, <1>3, <1>4

-----------------------------------------------------------------------------
(* The literals: what is copied is a prefix of the label, and an insertion *)
(* moves basic code points without changing their order or number.         *)
Copied ==
    /\ dpc = "start" => output = <<>>
    /\ dpc = "literals" =>
         /\ Len(output) = index - 1
         /\ \A p \in DOMAIN output : D!IsLiteral(p) /\ output[p] = label[p]
    /\ BasicsAreLiterals

LEMMA MovedCardinality ==
    ASSUME NEW L \in Nat, NEW S \in SUBSET (1..L), NEW p \in 1..(L + 1)
    PROVE  Cardinality({Moved(p, u) : u \in S}) = Cardinality(S)
<1> DEFINE MS == {Moved(p, u) : u \in S}
           f == [u \in S |-> Moved(p, u)]
<1>1. IsFiniteSet(S)
  <2>1. IsFiniteSet(1..L)
    BY FS_Interval
  <2> QED BY <2>1, FS_Subset
<1>2. S \subseteq Nat /\ p \in Nat
  OBVIOUS
<1>3. \A u, v \in S : Moved(p, u) = Moved(p, v) => u = v
  BY <1>2 DEF Moved
<1>4. f \in Bijection(S, MS)
  BY <1>3, Fun_IsBij
<1> QED BY <1>1, <1>4, FS_Bijection DEF ExistsBijection

LEMMA InsertKeepsBasics ==
    ASSUME NEW s \in Seq(D!CodePoints), NEW p \in 1..(Len(s) + 1), NEW c \in D!CodePoints, ~IsBasic(c)
    PROVE  LET t == D!InsertAt(s, p, c)
           IN  /\ Cardinality(Basics(t)) = Cardinality(Basics(s))
               /\ \A b \in Basics(t) : \E a \in Basics(s) :
                     t[b] = s[a] /\ Rank(t, b) = Rank(s, a)
<1> DEFINE t == D!InsertAt(s, p, c)
           L == Len(s)
<1>1. /\ t \in Seq(D!CodePoints) /\ Len(t) = L + 1 /\ t[p] = c /\ L \in Nat /\ p \in 1..(L + 1)
      /\ \A u \in 1..L : t[Moved(p, u)] = s[u]
  <2> DEFINE C == D!CodePoints
  <2> HIDE DEF C
  <2>1. s \in Seq(C) /\ c \in C
    BY DEF C
  <2>2. /\ t \in Seq(C) /\ Len(t) = L + 1 /\ t[p] = c
        /\ \A u \in 1..L : t[Moved(p, u)] = s[u]
    BY <2>1, InsertAtProperties
  <2>3. L \in Nat /\ p \in 1..(L + 1)
    OBVIOUS
  <2> QED BY <2>2, <2>3 DEF C
<1>2. DOMAIN s = 1..L /\ DOMAIN t = 1..(L + 1)
  BY <1>1
<1> HIDE DEF t, L
<1>3. \A u \in 1..L : Moved(p, u) \in 1..(L + 1) /\ Moved(p, u) # p
  BY <1>1 DEF Moved
<1>4. \A b \in 1..(L + 1) : b # p => \E u \in 1..L : Moved(p, u) = b
  <2> SUFFICES ASSUME NEW b \in 1..(L + 1), b # p PROVE \E u \in 1..L : Moved(p, u) = b
    OBVIOUS
  <2>1. CASE b < p
    BY <1>1, <2>1 DEF Moved
  <2>2. CASE b > p
    <3>1. b - 1 \in 1..L /\ Moved(p, b - 1) = b
      BY <1>1, <2>2 DEF Moved
    <3> QED BY <3>1
  <2> QED BY <1>1, <2>1, <2>2
<1>5. \A u, v \in 1..L : u <= v <=> Moved(p, u) <= Moved(p, v)
  BY <1>1 DEF Moved
<1>6. Basics(t) = {Moved(p, u) : u \in Basics(s)}
  <2>1. \A u \in 1..L : IsBasic(t[Moved(p, u)]) <=> IsBasic(s[u])
    BY <1>1
  <2>2. Basics(s) = {u \in 1..L : IsBasic(s[u])} /\ Basics(t) = {b \in 1..(L + 1) : IsBasic(t[b])}
    BY <1>2 DEF Basics
  <2>3. ASSUME NEW b \in Basics(t) PROVE b \in {Moved(p, u) : u \in Basics(s)}
    <3>1. b \in 1..(L + 1) /\ b # p
      BY <1>1, <2>2
    <3>2. PICK u \in 1..L : Moved(p, u) = b
      BY <1>4, <3>1
    <3> QED BY <2>1, <2>2, <3>2
  <2>4. ASSUME NEW u \in Basics(s) PROVE Moved(p, u) \in Basics(t)
    BY <1>3, <2>1, <2>2
  <2> QED BY <2>3, <2>4
<1>7. Basics(s) \in SUBSET (1..L)
  BY <1>2 DEF Basics
<1>8. Cardinality(Basics(t)) = Cardinality(Basics(s))
  <2>1. L \in Nat /\ p \in 1..(L + 1)
    BY <1>1
  <2>2. Cardinality({Moved(p, u) : u \in Basics(s)}) = Cardinality(Basics(s))
    BY <1>7, <2>1, MovedCardinality, Zenon
  <2> QED BY <1>6, <2>2
<1>9. ASSUME NEW b \in Basics(t)
      PROVE  \E a \in Basics(s) : t[b] = s[a] /\ Rank(t, b) = Rank(s, a)
  <2>1. PICK a \in Basics(s) : b = Moved(p, a)
    BY <1>6
  <2> DEFINE Sa == {r \in Basics(s) : r <= a}
             Tb == {r \in Basics(t) : r <= b}
  <2>2. Tb = {Moved(p, u) : u \in Sa}
    BY <1>5, <1>6, <1>7, <2>1
  <2>3. Sa \in SUBSET (1..L)
    BY <1>7
  <2> HIDE DEF Sa, Tb
  <2>4. Cardinality(Tb) = Cardinality(Sa)
    <3>1. L \in Nat /\ p \in 1..(L + 1)
      BY <1>1
    <3>2. Cardinality({Moved(p, u) : u \in Sa}) = Cardinality(Sa)
      BY <2>3, <3>1, MovedCardinality, Zenon
    <3> QED BY <2>2, <3>2
  <2>5. Rank(t, b) = Rank(s, a)
    BY <2>4 DEF Rank, Sa, Tb
  <2>6. t[b] = s[a]
    BY <1>1, <1>7, <2>1
  <2> QED BY <2>5, <2>6
<1> QED BY <1>8, <1>9 DEF t

LEMMA DEntryCopied == DEntered => Copied
  BY DEF DEntered, D!Entry, Copied, BasicsAreLiterals

LEMMA CopyLiteralCopied == ASSUME DInv, Copied, D!CopyLiteral PROVE Copied'
<1>1. /\ dpc = "literals" /\ index \in Nat /\ Len(label) \in Nat /\ index <= Len(label)
      /\ Len(output) = index - 1 /\ UNCHANGED label
      /\ output \in Seq(D!CodePoints) /\ D!IsLiteral(index)
      /\ \A p \in DOMAIN output : D!IsLiteral(p) /\ output[p] = label[p] /\ IsScalar(output[p])
  BY OutputOf DEF DInv, D!TypeOK, Reading, Copied, BasicsAreLiterals, D!CopyLiteral
<1>2. CASE D!IsLDH(label[index])
  <2> DEFINE c == label[index]
  <2>1. /\ output' = Append(output, c) /\ index' = index + 1 /\ dpc' = "literals"
    BY <1>1, <1>2 DEF D!CopyLiteral
  <2>2. c \in 0..255
    <3>1. D!TypeOK
      BY DEF DInv
    <3> QED BY <1>1, <3>1, ByteOf
  <2>3. c \in D!CodePoints /\ IsScalar(c)
    BY <1>2, <2>2, LDHIsBasic, SameTests, Zenon
  <2> HIDE DEF c
  <2>4. /\ output' \in Seq(D!CodePoints) /\ Len(output') = Len(output) + 1
        /\ \A p \in 1..Len(output) : output'[p] = output[p]
        /\ output'[Len(output) + 1] = c
    BY <1>1, <2>1, <2>3, AppendProperties
  <2>5. ASSUME NEW p \in DOMAIN output'
        PROVE  D!IsLiteral(p) /\ output'[p] = label[p] /\ IsScalar(output'[p])
    <3>1. p \in 1..(Len(output) + 1) /\ DOMAIN output = 1..Len(output)
      BY <1>1, <2>4
    <3>2. CASE p \in 1..Len(output)
      BY <1>1, <2>4, <3>1, <3>2
    <3>3. CASE p = index
      BY <1>1, <2>3, <2>4, <3>3 DEF c
    <3> QED BY <1>1, <3>1, <3>2, <3>3
  <2>6. \A p : D!IsLiteral(p)' <=> D!IsLiteral(p)
    BY <1>1 DEF D!IsLiteral
  <2> QED BY <1>1, <2>1, <2>4, <2>5, <2>6 DEF Copied, BasicsAreLiterals
<1>3. CASE ~D!IsLDH(label[index])
  <2>1. dpc' = "failed" /\ UNCHANGED output
    BY <1>3 DEF D!CopyLiteral, D!Fail
  <2> QED BY <1>1, <2>1 DEF Copied, BasicsAreLiterals
<1> QED BY <1>2, <1>3

(* When the copying ends, every literal has been copied and nothing else.  *)
LEMMA EndLiteralsCopied == ASSUME DInv, Copied, D!EndLiterals PROVE Copied'
<1>1. /\ dpc = "literals" /\ dpc' = "integers" /\ UNCHANGED <<label, output>>
      /\ index \in Nat /\ Len(label) \in Nat /\ DOMAIN label = 1..Len(label)
      /\ Len(output) = index - 1 /\ DOMAIN output = 1..(index - 1) /\ index - 1 \in Nat
      /\ ~D!IsLiteral(index) /\ AllBasic
      /\ \A p \in DOMAIN output : D!IsLiteral(p) /\ output[p] = label[p] /\ IsScalar(output[p])
  BY OutputOf DEF DInv, D!TypeOK, Reading, Inserting, Copied, BasicsAreLiterals, D!EndLiterals
<1> DEFINE L == index - 1
<1>2. L \in Nat /\ L <= Len(label)
  BY <1>1 DEF DInv, Reading
<1>3. D!Literals = 1..L
  <2>1. ASSUME NEW p \in 1..L PROVE p \in D!Literals
    BY <1>1, <1>2 DEF D!Literals
  <2>2. ASSUME NEW p \in D!Literals PROVE p \in 1..L
    <3>1. p \in 1..Len(label) /\ D!IsLiteral(p)
      BY <1>1 DEF D!Literals
    <3>2. p < index
      BY <1>1, <3>1 DEF D!IsLiteral
    <3> QED BY <1>1, <3>1, <3>2
  <2> QED BY <2>1, <2>2
<1>4. Basics(output) = 1..L
  BY <1>1, SameTests DEF AllBasic, Basics
<1>5. ASSUME NEW p \in 1..L PROVE Rank(output, p) = p
  <2>1. {r \in Basics(output) : r <= p} = 1..p /\ p \in Nat
    BY <1>2, <1>4
  <2>2. Cardinality(1..p) = p
    BY <2>1, FS_Interval
  <2> QED BY <2>1, <2>2 DEF Rank
<1>6. BasicsAreLiterals
  <2> HIDE DEF L
  <2>1. \A p \in DOMAIN output : IsScalar(output[p])
    BY <1>1
  <2>2. Cardinality(Basics(output)) = Cardinality(D!Literals)
    BY <1>3, <1>4
  <2>3. \A p \in Basics(output) : output[p] = label[Rank(output, p)]
    BY <1>1, <1>4, <1>5 DEF L
  <2> QED BY <2>1, <2>2, <2>3 DEF BasicsAreLiterals
<1>7. \A p \in Basics(output) : output[p] = label[Rank(output, p)]
  BY <1>1, <1>4, <1>5
<1>8. Cardinality(Basics(output)) = Cardinality(D!Literals)
  BY <1>3, <1>4
<1>9. Basics(output)' = Basics(output) /\ D!Literals' = D!Literals
      /\ \A p : Rank(output, p)' = Rank(output, p)
  BY <1>1 DEF Basics, Rank, D!Literals, D!IsLiteral
<1> QED BY <1>1, <1>7, <1>8, <1>9 DEF Copied, BasicsAreLiterals

LEMMA InsertCopied == ASSUME DInv, Copied, D!Insert PROVE Copied'
<1> DEFINE p == (i % D!OutLen) + 1
<1>1. /\ dpc = "insert" /\ dpc' = "integers" /\ D!IsScalar(D!NextN) /\ UNCHANGED label
      /\ output' = D!InsertAt(output, p, D!NextN)
  BY DEF D!Insert
<1>2. p \in 1..(Len(output) + 1) /\ D!NextN \in Nat /\ D!NextN >= D!InitialN
  BY PlaceOf DEF DInv, Inserting
<1> HIDE DEF p
<1>3. D!NextN \in D!CodePoints /\ IsScalar(D!NextN) /\ ~IsBasic(D!NextN)
  <2>1. D!NextN \in D!CodePoints
    BY <1>1, ScalarRange
  <2>2. ~D!IsBasic(D!NextN)
    BY <1>2, DecoderScalarRange DEF D!IsBasic
  <2> QED BY <1>1, <2>1, <2>2, SameTests
<1>4. /\ output \in Seq(D!CodePoints) /\ Len(output) \in Nat /\ DOMAIN output = 1..Len(output)
      /\ \A u \in 1..Len(output) : IsScalar(output[u])
      /\ Cardinality(Basics(output)) = Cardinality(D!Literals)
      /\ \A u \in Basics(output) : output[u] = label[Rank(output, u)]
  BY <1>1, OutputOf DEF DInv, D!TypeOK, Copied, BasicsAreLiterals
<1> DEFINE t == output'
<1>5. /\ Cardinality(Basics(t)) = Cardinality(Basics(output))
      /\ \A b \in Basics(t) : \E a \in Basics(output) :
            t[b] = output[a] /\ Rank(t, b) = Rank(output, a)
  BY <1>1, <1>2, <1>3, <1>4, InsertKeepsBasics
<1>6. \A b \in DOMAIN t : IsScalar(t[b])
  <2>1. /\ t \in Seq(D!CodePoints) /\ Len(t) = Len(output) + 1 /\ t[p] = D!NextN
        /\ \A u \in 1..Len(output) : t[Moved(p, u)] = output[u]
    <3> DEFINE C == D!CodePoints
               e == D!NextN
               r == D!InsertAt(output, p, e)
    <3>1. output \in Seq(C) /\ e \in C /\ t = r
      BY <1>1, <1>3, <1>4
    <3> HIDE DEF C, e
    <3>2. /\ r \in Seq(C) /\ Len(r) = Len(output) + 1 /\ r[p] = e
          /\ \A u \in 1..Len(output) : r[Moved(p, u)] = output[u]
      <4>1. p \in 1..(Len(output) + 1)
        BY <1>2
      <4>2. r \in Seq(C) /\ Len(r) = Len(output) + 1 /\ r[p] = e
        BY <3>1, <4>1, InsertAtProperties
      <4>3. ASSUME NEW u \in 1..Len(output) PROVE r[Moved(p, u)] = output[u]
        BY <3>1, <4>1, InsertAtProperties
      <4> QED BY <4>2, <4>3
    <3> HIDE DEF r
    <3> QED BY <3>1, <3>2 DEF C, e
  <2> SUFFICES ASSUME NEW b \in 1..(Len(output) + 1) PROVE IsScalar(t[b])
    BY <2>1
  <2>2. CASE b = p
    BY <1>3, <2>1, <2>2
  <2>3. CASE b < p
    <3>1. b \in 1..Len(output) /\ Moved(p, b) = b
      BY <1>2, <1>4, <2>3 DEF Moved
    <3> QED BY <1>4, <2>1, <3>1
  <2>4. CASE b > p
    <3>1. b - 1 \in 1..Len(output) /\ Moved(p, b - 1) = b
      BY <1>2, <1>4, <2>4 DEF Moved
    <3> QED BY <1>4, <2>1, <3>1
  <2> QED BY <1>2, <1>4, <2>2, <2>3, <2>4
<1>7. D!Literals' = D!Literals
  BY <1>1 DEF D!Literals, D!IsLiteral
<1>8. \A b \in Basics(t) : t[b] = label[Rank(t, b)]
  BY <1>4, <1>5
<1> QED BY <1>1, <1>4, <1>5, <1>6, <1>7, <1>8 DEF Copied, BasicsAreLiterals

LEMMA DNextCopied == ASSUME DInv, Copied, [D!Next]_D!vars PROVE Copied'
<1>1. CASE D!CopyLiteral
  BY <1>1, CopyLiteralCopied
<1>2. CASE D!EndLiterals
  BY <1>2, EndLiteralsCopied
<1>3. CASE D!Insert
  BY <1>3, InsertCopied
<1>4. CASE UNCHANGED <<label, output>> /\ D!Next /\ ~D!CopyLiteral /\ ~D!EndLiterals
  <2>1. /\ dpc' = "failed" \/ (dpc = "start" /\ dpc' = "literals" /\ UNCHANGED index)
           \/ (dpc \in {"integers", "digits", "adapt", "insert"} /\ dpc' # "start" /\ dpc' # "literals")
    BY <1>4 DEF D!Next, D!TooLong, D!NoPayload, D!Start, D!NextInteger, D!Truncated, D!NoDigit,
       D!Overflow, D!TakeDigit, D!TakeLast, D!AdaptLoop, D!EndAdapt, D!NOverflow, D!NotScalar,
       D!Insert, D!Finish, D!Fail, D!AtByte
  <2>2. Basics(output)' = Basics(output) /\ D!Literals' = D!Literals
        /\ \A p : Rank(output, p)' = Rank(output, p)
    BY <1>4 DEF Basics, Rank, D!Literals, D!IsLiteral
  <2>3. CASE dpc' = "failed"
    BY <1>4, <2>3 DEF Copied, BasicsAreLiterals
  <2>4. CASE dpc = "start" /\ dpc' = "literals" /\ UNCHANGED index
    <3>1. output' = <<>> /\ Len(output') = index' - 1
      BY <1>4, <2>4 DEF Copied, DInv, Reading
    <3> QED BY <2>4, <3>1 DEF Copied, BasicsAreLiterals
  <2>5. CASE dpc \in {"integers", "digits", "adapt", "insert"} /\ dpc' # "start" /\ dpc' # "literals"
    BY <1>4, <2>2, <2>5 DEF Copied, BasicsAreLiterals
  <2> QED BY <2>1, <2>3, <2>4, <2>5
<1>5. CASE UNCHANGED D!vars
  BY <1>5 DEF D!vars, D!digitVars, Copied, BasicsAreLiterals, Basics, Rank, D!Literals, D!IsLiteral
<1>6. ASSUME D!Next, ~D!CopyLiteral, ~D!EndLiterals, ~D!Insert PROVE UNCHANGED <<label, output>>
  BY <1>6 DEF D!Next, D!TooLong, D!NoPayload, D!Start, D!NextInteger, D!Truncated, D!NoDigit,
     D!Overflow, D!TakeDigit, D!TakeLast, D!AdaptLoop, D!EndAdapt, D!NOverflow, D!NotScalar,
     D!Finish
<1> QED BY <1>1, <1>2, <1>3, <1>4, <1>5, <1>6

-----------------------------------------------------------------------------
(* The two in a row: while one runs, the other has not been entered or has *)
(* returned.                                                               *)
RInv ==
    /\ IInv /\ DInv /\ Copied
    /\ (first = "encode" /\ turn = "encode") => D!Entry(label)
    /\ (first = "decode" /\ turn = "decode") => Entry(cps)

LEMMA EntersWell == Entered' => IInv' /\ HandledPositions' = {}
<1>1. Entered => IInv /\ HandledPositions = {}
  BY EntryInv
<1>2. (Entered => IInv /\ HandledPositions = {})'
  BY <1>1, PTL
<1> QED BY <1>2

LEMMA DEntersWell == DEntered' => DInv' /\ Copied'
<1>1. DEntered => DInv /\ Copied
  BY DEntryInv, DEntryCopied
<1> QED BY <1>1, PTL

LEMMA RInitInv ==
    ASSUME InitForth \/ InitBack
    PROVE  RInv /\ HandledPositions = {} /\ D!Abstract!Init
<1>1. CASE InitForth
  <2>1. IInv /\ HandledPositions = {}
    BY <1>1, InitInv DEF InitForth
  <2>2. D!Entry(label) /\ label = <<>>
    BY <1>1 DEF InitForth, D!Entry
  <2>3. DEntered
    BY <2>2 DEF DEntered
  <2>4. DInv /\ Copied
    BY <2>3, DEntryInv, DEntryCopied
  <2>5. D!Abstract!Init
    BY <2>2 DEF D!Entry, D!Abstract!Init, D!State, D!InitialN
  <2> QED BY <1>1, <2>1, <2>2, <2>4, <2>5 DEF RInv, InitForth
<1>2. CASE InitBack
  <2>1. Entry(cps) /\ cps = <<>>
    BY <1>2 DEF InitBack, Entry
  <2>2. (MaxScalar + 2) * 1 <= MaxU64
    BY CapRange, PayloadAssumption, WidthAssumption DEF MaxScalar
  <2>3. Entered
    BY <2>1, <2>2 DEF Entered
  <2>4. IInv /\ HandledPositions = {}
    BY <2>3, EntryInv
  <2>5. D!Entry(label) /\ label \in Seq(0..255)
    BY <1>2, PayloadAssumption DEF InitBack, D!Init, D!Entry
  <2>6. DInv /\ Copied
    BY <2>5, DEntryInv, DEntryCopied DEF DEntered
  <2>7. D!Abstract!Init
    BY <2>5 DEF D!Entry, D!Abstract!Init, D!State, D!InitialN
  <2> QED BY <1>2, <2>1, <2>4, <2>6, <2>7 DEF RInv, InitBack
<1> QED BY <1>1, <1>2

(* What one of the two leaves alone. *)
LEMMA EncoderIdle ==
    ASSUME IInv, UNCHANGED vars
    PROVE  IInv' /\ UNCHANGED <<cps, HandledPositions>> /\ (Entry(cps)' <=> Entry(cps))
<1>1. UNCHANGED cps /\ (Entry(cps)' <=> Entry(cps))
  BY DEF vars, digitVars, Entry
<1> QED BY <1>1, StutterInv

LEMMA DecoderIdle ==
    ASSUME DInv, Copied, UNCHANGED decVars
    PROVE  /\ DInv' /\ Copied' /\ UNCHANGED <<output, D!State(dn, i)>>
           /\ D!Entry(label)' <=> D!Entry(label)
<1>1. UNCHANGED D!vars
  BY DEF decVars, D!vars, D!digitVars
<1>2. UNCHANGED <<output, D!State(dn, i)>> /\ (D!Entry(label)' <=> D!Entry(label))
  BY DEF decVars, D!State, D!Entry
<1> QED BY <1>1, <1>2, DNextInv, DNextCopied

(* The decoder is given what the encoder wrote. *)
LEMMA DecodeNextInv ==
    ASSUME RInv, DecodeNext
    PROVE  RInv' /\ UNCHANGED <<cps, HandledPositions>> /\ UNCHANGED <<output, D!State(dn, i)>>
<1>1. /\ turn' = "decode" /\ first' = "encode" /\ label' = out /\ D!Entry(label)
      /\ UNCHANGED <<dpc, index, output, dn, i, dbias, oldi, w, dk, dd, derr>>
      /\ UNCHANGED vars
  BY DEF DecodeNext, RInv
<1>2. label' \in Seq(0..255)
  <2>1. out \in Seq(0..127)
    BY DEF RInv, IInv, TypeOK
  <2>2. \A x \in 0..127 : x \in 0..255
    OBVIOUS
  <2> QED BY <1>1, <2>1, <2>2
<1>3. D!Entry(label)'
  BY <1>1 DEF D!Entry
<1>4. DInv' /\ Copied'
  BY <1>2, <1>3, DEntersWell DEF DEntered
<1>5. IInv' /\ UNCHANGED <<cps, HandledPositions>>
  BY <1>1, EncoderIdle DEF RInv
<1>6. UNCHANGED <<output, D!State(dn, i)>>
  BY <1>1 DEF D!State
<1> QED BY <1>1, <1>4, <1>5, <1>6 DEF RInv

(* The encoder is given what the decoder found, one code point a byte.     *)
LEMMA EncodeNextInv ==
    ASSUME RInv, EncodeNext
    PROVE  RInv' /\ Order!Next /\ UNCHANGED <<output, D!State(dn, i)>>
<1>1. /\ turn' = "encode" /\ first' = "decode" /\ cps' = output /\ Entry(cps) /\ dpc = "done"
      /\ UNCHANGED <<pc, j, out, basicCount, handled, n, delta, bias, q, k, d, err>>
      /\ UNCHANGED decVars
  BY DEF EncodeNext, RInv, digitVars
<1>2. Entry(cps)'
  BY <1>1 DEF Entry
<1>3. output \in Seq(D!CodePoints) /\ Len(output) \in Nat /\ Len(output) + 1 <= MaxLabelLength
      /\ MaxLabelLength \in Nat /\ MaxU64 \in Nat
  BY <1>1, OutputOf, PayloadAssumption, WidthAssumption DEF RInv, DInv, D!TypeOK, Reading
<1>4. cps' \in Seq(CodePoints)
  BY <1>1, <1>3, SameTests
<1>5. (MaxScalar + 2) * (Len(cps') + 1) <= MaxU64
  <2>1. \A x, y \in Nat : x <= y => (MaxScalar + 2) * x <= (MaxScalar + 2) * y
    BY DEF MaxScalar
  <2> QED BY <1>1, <1>3, <2>1, CapRange DEF MaxScalar
<1>6. IInv' /\ HandledPositions' = {}
  BY <1>2, <1>4, <1>5, EntersWell DEF Entered
<1>7. HandledPositions = {}
  BY <1>1 DEF Entry, HandledPositions, RInv, IInv, TypeOK
<1>8. DInv' /\ Copied' /\ UNCHANGED <<output, D!State(dn, i)>>
  BY <1>1, DecoderIdle DEF RInv
<1>9. Order!Next
  BY <1>6, <1>7 DEF Order!Next, Order!Given
<1> QED BY <1>1, <1>6, <1>8, <1>9 DEF RInv

LEMMA RNextInv ==
    ASSUME RInv, [RTNext]_rtVars
    PROVE  /\ RInv'
           /\ [Order!Next]_<<cps, HandledPositions>>
           /\ [D!Abstract!Next]_<<output, D!State(dn, i)>>
<1>1. CASE EncodeStep
  <2>1. /\ turn = "encode" /\ Next /\ UNCHANGED <<decVars, first, turn>>
    BY <1>1 DEF EncodeStep
  <2>2. IInv' /\ [Order!Next]_<<cps, HandledPositions>>
    BY <2>1, NextInv, StepOrder DEF RInv
  <2>3. /\ DInv' /\ Copied' /\ UNCHANGED <<output, D!State(dn, i)>>
        /\ D!Entry(label)' <=> D!Entry(label)
    BY <2>1, DecoderIdle DEF RInv
  <2> QED BY <2>1, <2>2, <2>3 DEF RInv
<1>2. CASE DecodeStep
  <2>1. turn = "decode" /\ D!Next /\ UNCHANGED <<vars, first, turn>>
    BY <1>2 DEF DecodeStep
  <2>2. DInv' /\ Copied' /\ [D!Abstract!Next]_<<output, D!State(dn, i)>>
    BY <2>1, DNextInv, DNextCopied, DStepOrder DEF RInv
  <2>3. IInv' /\ UNCHANGED <<cps, HandledPositions>> /\ (Entry(cps)' <=> Entry(cps))
    BY <2>1, EncoderIdle DEF RInv
  <2> QED BY <2>1, <2>2, <2>3 DEF RInv
<1>3. CASE DecodeNext
  BY <1>3, DecodeNextInv
<1>4. CASE EncodeNext
  BY <1>4, EncodeNextInv
<1>5. CASE UNCHANGED rtVars
  <2>1. UNCHANGED vars /\ UNCHANGED decVars /\ UNCHANGED <<first, turn>>
    BY <1>5 DEF rtVars
  <2>2. IInv' /\ UNCHANGED <<cps, HandledPositions>> /\ (Entry(cps)' <=> Entry(cps))
    BY <2>1, EncoderIdle DEF RInv
  <2>3. /\ DInv' /\ Copied' /\ UNCHANGED <<output, D!State(dn, i)>>
        /\ D!Entry(label)' <=> D!Entry(label)
    BY <2>1, DecoderIdle DEF RInv
  <2> QED BY <2>1, <2>2, <2>3 DEF RInv
<1> QED BY <1>1, <1>2, <1>3, <1>4, <1>5 DEF RTNext

LEMMA AlwaysRInv == RTSpec => []RInv
<1>1. InitForth \/ InitBack => RInv
  BY RInitInv
<1>2. RInv /\ [RTNext]_rtVars => RInv'
  BY RNextInv
<1> QED BY <1>1, <1>2, PTL DEF RTSpec

-----------------------------------------------------------------------------
(* No value of the encoder leaves its C++ type, whether it encodes a       *)
(* caller's label or checks the A-label the decoder has just read.         *)
THEOREM EncoderTypeCorrect == RTSpec => []TypeOK
<1>1. RInv => TypeOK
  BY DEF RInv, IInv
<1> QED BY <1>1, AlwaysRInv, PTL

(* None of the encoder's four throws is reached in either direction: the   *)
(* strict check of an A-label (punycoder_domain.cpp:108) never fails for   *)
(* the length of what the decoder found.                                   *)
THEOREM NeitherDirectionThrows == RTSpec => []NeverThrows
<1>1. RInv => NeverThrows
  BY DEF RInv, IInv
<1> QED BY <1>1, AlwaysRInv, PTL

(* Every variable of the decoder stays in its C++ type, and the basic code *)
(* points of what it gives are the literal bytes, in order: no digits of a *)
(* payload stand for an ASCII code point, a surrogate or a number past     *)
(* 0x10FFFF (punycoder_algorithm.cpp:277).                                 *)
THEOREM DecoderInRange == RTSpec => []DecoderStaysInRange
<1>1. RInv => DecoderStaysInRange
  BY DEF RInv, DInv, Copied, DecoderStaysInRange
<1> QED BY <1>1, AlwaysRInv, PTL

(* adapt() is told of the first integer exactly when it is the first: the  *)
(* test oldi == 0 of the decoder (line 267) means what handled == basic    *)
(* means in the encoder (line 180).                                        *)
THEOREM FirstTimeCorrect == RTSpec => []FirstTimeIsFirst
<1>1. RInv => FirstTimeIsFirst
  BY SameTests DEF RInv, DInv, Inserting, FirstTimeIsFirst, D!FirstTimeIsFirst, AllBasic
<1> QED BY <1>1, AlwaysRInv, PTL

(* The encoder implements InsertionOrder, label after label.               *)
THEOREM BothWriteInOrder == RTSpec => WritesInOrder
<1>1. InitForth \/ InitBack => Order!Init
  BY RInitInv DEF Order!Init
<1>2. RInv /\ [RTNext]_rtVars => [Order!Next]_<<cps, HandledPositions>>
  BY RNextInv
<1> QED BY <1>1, <1>2, AlwaysRInv, PTL DEF RTSpec, WritesInOrder, Order!Spec

(* The decoder implements the insertions of RFC 3492: basic code points    *)
(* first, then the others by increasing code point and position.           *)
THEOREM InsertionsCorrect == RTSpec => InsertsInOrder
<1>1. InitForth \/ InitBack => D!Abstract!Init
  BY RInitInv
<1>2. RInv /\ [RTNext]_rtVars => [D!Abstract!Next]_<<output, D!State(dn, i)>>
  BY RNextInv
<1> QED BY <1>1, <1>2, AlwaysRInv, PTL DEF RTSpec, InsertsInOrder, D!InsertsInOrder, D!Abstract!Spec

-----------------------------------------------------------------------------
(* Decoding what the encoder wrote: the decoder follows the trace.         *)
(* What Bootstring defines means the same on both sides.                   *)
LEMMA SameOperators ==
    /\ \A a, b : D!Threshold(a, b) = Threshold(a, b)
    /\ \A a, b, c : D!AdaptStart(a, b, c) = AdaptStart(a, b, c)
    /\ \A a : (D!AdaptAgain(a) <=> AdaptAgain(a)) /\ D!AdaptDivide(a) = AdaptDivide(a)
    /\ \A a, b : D!AdaptResult(a, b) = AdaptResult(a, b)
    /\ \A a, b : (D!MulFits(a, b) <=> MulFits(a, b)) /\ (D!AddFits(a, b) <=> AddFits(a, b))
    /\ \A c : D!DecodeDigit(c) = DecodeDigit(c)
    /\ \A c : D!IsLDH(c) <=> IsLDH(c)
    /\ D!Delimiter = Delimiter /\ D!InitialN = InitialN
<1>1. \A a, b : D!Threshold(a, b) = Threshold(a, b)
  BY DEF D!Threshold, Threshold
<1>2. \A a, b, c : D!AdaptStart(a, b, c) = AdaptStart(a, b, c)
  BY DEF D!AdaptStart, AdaptStart
<1>3. \A a : (D!AdaptAgain(a) <=> AdaptAgain(a)) /\ D!AdaptDivide(a) = AdaptDivide(a)
  BY DEF D!AdaptAgain, AdaptAgain, D!AdaptDivide, AdaptDivide
<1>4. \A a, b : D!AdaptResult(a, b) = AdaptResult(a, b)
  BY DEF D!AdaptResult, AdaptResult
<1>5. \A a, b : (D!MulFits(a, b) <=> MulFits(a, b)) /\ (D!AddFits(a, b) <=> AddFits(a, b))
  BY DEF D!MulFits, MulFits, D!AddFits, AddFits
<1>6. \A c : D!DecodeDigit(c) = DecodeDigit(c)
  BY DEF D!DecodeDigit, DecodeDigit
<1>7. D!Delimiter = Delimiter /\ D!InitialN = InitialN
  BY DEF D!Delimiter, Delimiter, D!InitialN, InitialN
<1>8. \A c : D!IsLDH(c) <=> IsLDH(c)
  BY <1>7, Zenon DEF D!IsLDH, IsLDH
<1> QED BY <1>1, <1>2, <1>3, <1>4, <1>5, <1>6, <1>7, <1>8

(* The decoder's digit table is the inverse of the encoder's.              *)
LEMMA DigitInverse ==
    ASSUME NEW c \in 0..35
    PROVE  DecodeDigit(EncodeDigit(c)) = c /\ EncodeDigit(c) # Delimiter
<1>1. CASE c < 26
  <2>1. EncodeDigit(c) = 97 + c /\ 97 + c \in 97..122 /\ 97 + c \notin 48..57
    BY <1>1 DEF EncodeDigit
  <2> QED BY <1>1, <2>1 DEF DecodeDigit, Delimiter
<1>2. CASE ~(c < 26)
  <2>1. EncodeDigit(c) = 48 + (c - 26) /\ 48 + (c - 26) \in 48..57
    BY <1>2 DEF EncodeDigit
  <2> QED BY <1>2, <2>1 DEF DecodeDigit, Delimiter
<1> QED BY <1>1, <1>2

(* A digit, the digit it leaves and the limit make the integer up again.   *)
LEMMA DigitOfRecord ==
    ASSUME NEW r, r.k \in Nat, r.bias \in Nat, r.q \in Nat
    PROVE  /\ Limit(r) \in 1..(Base - 1) /\ Written(r) \in 0..35
           /\ r.q < Limit(r) => Written(r) = r.q
           /\ r.q >= Limit(r) => /\ Written(r) >= Limit(r) /\ Rest(r) \in Nat
                                 /\ r.q = Written(r) + (Base - Limit(r)) * Rest(r)
<1>1. Limit(r) \in 1..(Base - 1) /\ Base \in 2..36
  <2>1. Threshold(r.k, r.bias) \in 1..TMax
    BY ThresholdRange
  <2> QED BY <2>1, BootstringAssumption DEF Limit
<1> DEFINE l == Limit(r)
           b == Base - l
<1>2. b \in Nat \ {0} /\ l \in Nat /\ l + b = Base
  BY <1>1
<1>3. CASE r.q < Limit(r)
  BY <1>1, <1>3 DEF Written
<1>4. CASE r.q >= Limit(r)
  <2> DEFINE a == r.q - l
             u == a % b
             v == a \div b
             e == b * v
  <2>1. a \in Nat /\ ~(r.q < l) /\ r.q = l + a
    BY <1>2, <1>4
  <2>2. Written(r) = l + u /\ Rest(r) = v
    BY <2>1 DEF Written, Rest
  <2> HIDE DEF l, b, a
  <2>3. u \in 0..(b - 1) /\ v \in Nat /\ a = e + u
    <3>1. a \in Nat /\ b \in Nat \ {0}
      BY <1>2, <2>1
    <3>2. a \div b \in 0..a /\ a % b \in 0..(b - 1) /\ a = b * (a \div b) + (a % b)
      BY <3>1, Division
    <3>3. a \div b \in Nat
      BY <3>1, <3>2
    <3> QED BY <3>2, <3>3
  <2>4. e \in Int
    BY <1>2, <2>3
  <2> HIDE DEF u, v, e
  <2>5. /\ Written(r) \in 0..35 /\ Written(r) >= l /\ Rest(r) \in Nat
        /\ r.q = Written(r) + e
    BY <1>1, <1>2, <2>1, <2>2, <2>3, <2>4
  <2>6. e = b * Rest(r)
    BY <2>2 DEF e
  <2> QED BY <1>1, <1>4, <2>1, <2>5, <2>6 DEF l, b
<1> QED BY <1>1, <1>3, <1>4

-----------------------------------------------------------------------------
(* The bytes the encoder wrote, as the decoder reads them. *)
Payload == /\ TypeOK /\ HasNonAscii(cps) /\ label = out
           /\ LiteralPart(cps, out)
           /\ \A p \in DOMAIN cps : IsScalar(cps[p])

LEMMA PayloadLayout ==
    ASSUME Payload
    PROVE  /\ BasicPositions(cps) \in SUBSET (1..Len(cps)) /\ Len(cps) \in Nat
           /\ DOMAIN cps = 1..Len(cps)
           /\ Cardinality(BasicPositions(cps)) \in Nat
           /\ LiteralBytes(cps) \in Nat
           /\ LiteralBytes(cps) = IF Cardinality(BasicPositions(cps)) = 0 THEN 0
                                  ELSE Cardinality(BasicPositions(cps)) + 1
           /\ Len(label) \in Nat /\ LiteralBytes(cps) <= Len(label) /\ DOMAIN label = 1..Len(label)
  BY Layout DEF Payload, LiteralPart

LEMMA DigitBytes ==
    ASSUME Payload, NEW H, Traces(cps, H, out), NEW l \in (LiteralBytes(cps) + 1)..Len(label)
    PROVE  /\ Linked(cps, H, l) /\ Sound(cps, H[l])
           /\ H[l] \in Records(cps)
           /\ Limit(H[l]) \in 1..(Base - 1) /\ Written(H[l]) \in 0..35
           /\ H[l].q < Limit(H[l]) => Written(H[l]) = H[l].q
           /\ H[l].q >= Limit(H[l]) =>
                 /\ Written(H[l]) >= Limit(H[l]) /\ Rest(H[l]) \in Nat
                 /\ H[l].q = Written(H[l]) + (Base - Limit(H[l])) * Rest(H[l])
           /\ D!DecodeDigit(label[l]) = Written(H[l])
           /\ label[l] # Delimiter
<1>1. Linked(cps, H, l) /\ label[l] = EncodeDigit(Written(H[l]))
  BY DEF Payload, Traces
<1>2. Sound(cps, H[l]) /\ H[l] \in Records(cps)
  BY <1>1 DEF Linked, Sound
<1>3. PICK r : r = H[l]
  OBVIOUS
<1>4. r.k \in Nat /\ r.bias \in Nat /\ r.q \in Nat
  BY <1>2, <1>3 DEF Records
<1>5. /\ Limit(r) \in 1..(Base - 1) /\ Written(r) \in 0..35
      /\ r.q < Limit(r) => Written(r) = r.q
      /\ r.q >= Limit(r) => /\ Written(r) >= Limit(r) /\ Rest(r) \in Nat
                            /\ r.q = Written(r) + (Base - Limit(r)) * Rest(r)
  BY <1>4, DigitOfRecord
<1>6. DecodeDigit(EncodeDigit(Written(r))) = Written(r) /\ EncodeDigit(Written(r)) # Delimiter
  BY <1>5, DigitInverse
<1>7. D!DecodeDigit(label[l]) = Written(r) /\ label[l] # Delimiter
  BY <1>1, <1>3, <1>6, SameOperators
<1> QED BY <1>1, <1>2, <1>3, <1>5, <1>7

(* The label is cut where the encoder put its delimiter: no digit is one.  *)
LEMMA LiteralCut ==
    ASSUME Payload, NEW H, Traces(cps, H, out), NEW p \in Nat
    PROVE  D!IsLiteral(p) <=> p <= Cardinality(BasicPositions(cps)) /\ BasicPositions(cps) # {}
<1> DEFINE LB == LiteralBytes(cps)
           C == Cardinality(BasicPositions(cps))
<1>1. /\ C \in Nat /\ LB \in Nat /\ LB = (IF C = 0 THEN 0 ELSE C + 1)
      /\ Len(label) \in Nat /\ LB <= Len(label) /\ DOMAIN label = 1..Len(label)
      /\ LB > 0 => label[LB] = Delimiter
      /\ LB = 0 <=> BasicPositions(cps) = {}
  <2>1. C \in Nat
    BY PayloadLayout
  <2>2. LB = 0 <=> BasicPositions(cps) = {}
    BY <2>1 DEF LiteralBytes
  <2> QED BY <2>2, PayloadLayout DEF Payload, LiteralPart
<1>2. \A l \in (LB + 1)..Len(label) : label[l] # Delimiter
  BY DigitBytes
<1> HIDE DEF LB, C
<1>3. ASSUME D!IsLiteral(p) PROVE p <= C /\ BasicPositions(cps) # {}
  <2>1. PICK l \in 1..Len(label) : p < l /\ label[l] = Delimiter
    BY <1>1, <1>3, SameOperators DEF D!IsLiteral
  <2>2. l <= LB
    BY <1>1, <1>2, <2>1
  <2> QED BY <1>1, <2>1, <2>2
<1>4. ASSUME p <= C, BasicPositions(cps) # {} PROVE D!IsLiteral(p)
  <2>1. LB \in 1..Len(label) /\ p < LB /\ label[LB] = Delimiter
    BY <1>1, <1>4
  <2> QED BY <1>1, <2>1, SameOperators DEF D!IsLiteral
<1> QED BY <1>3, <1>4 DEF C

-----------------------------------------------------------------------------
(* A quotient and a remainder are the only ones.                           *)
LEMMA DivisionOnce ==
    ASSUME NEW a \in Nat, NEW b \in Nat \ {0}, NEW u \in Nat, NEW v \in 0..(b - 1), a = u * b + v
    PROVE  a \div b = u /\ a % b = v
<1> DEFINE x == a \div b
           y == a % b
<1>1. x \in 0..a /\ y \in 0..(b - 1) /\ a = b * x + y
  BY Division
<1>2. x \in Nat /\ y \in Nat
  BY <1>1
<1> HIDE DEF x, y
<1>3. ASSUME x > u PROVE FALSE
  <2>1. (u + 1) * b <= x * b
    BY <1>2, <1>3, Product
  <2>2. (u + 1) * b = u * b + b /\ x * b = b * x /\ u * b \in Int /\ b * x \in Int
    BY <1>2
  <2> QED BY <1>1, <1>2, <2>1, <2>2
<1>4. ASSUME u > x PROVE FALSE
  <2>1. (x + 1) * b <= u * b
    BY <1>2, <1>4, Product
  <2>2. (x + 1) * b = x * b + b /\ x * b = b * x /\ u * b \in Int /\ b * x \in Int
    BY <1>2
  <2> QED BY <1>1, <1>2, <2>1, <2>2
<1>5. x = u
  BY <1>2, <1>3, <1>4
<1>6. y = v
  <2>1. u * b = b * u /\ b * u \in Int
    OBVIOUS
  <2> QED BY <1>1, <1>2, <1>5, <2>1
<1> QED BY <1>5, <1>6 DEF x, y

SoundAt(H, l) == l # LiteralBytes(cps) => Sound(cps, H[l])

(* The state between two integers is determined by the bytes before it.    *)
LEMMA BetweenOnce ==
    ASSUME TypeOK, NEW H, NEW l, SoundAt(H, l),
           NEW A, NEW m, NEW at, NEW b, Between(cps, H, l, A, m, at, b),
           NEW A1, NEW m1, NEW at1, NEW b1, Between(cps, H, l, A1, m1, at1, b1)
    PROVE  A = A1 /\ m = m1 /\ at = at1 /\ b = b1
<1> USE DEF SoundAt
<1>0. Len(cps) \in Nat /\ DOMAIN cps = 1..Len(cps)
  BY DEF TypeOK
<1>1. CASE l = LiteralBytes(cps)
  BY <1>1 DEF Between
<1>2. CASE l # LiteralBytes(cps)
  <2>1. PICK r : r = H[l]
    OBVIOUS
  <2>2. A = A1 /\ m = m1 /\ at = at1 /\ Adapted(cps, r, b) /\ Adapted(cps, r, b1) /\ Sound(cps, r)
    BY <1>2, <2>1 DEF Between
  <2>3. Cardinality(r.done) \in Nat /\ Gap(cps, r) \in Nat /\ (r.i = 0) \in BOOLEAN
    <3>1. r.done \in SUBSET (1..Len(cps))
      BY <1>0, <2>2 DEF Sound, Records
    <3>2. IsFiniteSet(r.done)
      <4>1. IsFiniteSet(1..Len(cps))
        BY <1>0, FS_Interval
      <4> QED BY <3>1, <4>1, FS_Subset
    <3>3. Cardinality(r.done) \in Nat
      BY <3>2, FS_CardinalityType
    <3> QED BY <2>2, <3>3 DEF Sound
  <2>4. AdaptStart(Gap(cps, r), Cardinality(r.done) + 1, r.i = 0) \in Nat
    <3>1. Cardinality(r.done) + 1 \in Nat \ {0}
      BY <2>3
    <3> QED BY <2>3, <3>1, AdaptType
  <2>5. b = b1
    BY <2>2, <2>4, AdaptOnce DEF Adapted
  <2> QED BY <2>2, <2>5
<1> QED BY <1>1, <1>2

(* Inserting a position adds its code point at the place it has among      *)
(* those that are there.                                                   *)
LEMMA SpreadInsert ==
    ASSUME NEW x, NEW L \in Nat, NEW A \in SUBSET (1..L), NEW p \in 1..L, p \notin A,
           NEW S, NEW s \in Seq(S), x[p] \in S, Spread(x, s, A)
    PROVE  Spread(x, D!InsertAt(s, RankIn(A, p) + 1, x[p]), A \cup {p})
<1> DEFINE P == RankIn(A, p) + 1
           t == D!InsertAt(s, P, x[p])
           B == A \cup {p}
<1>1. p \in Int /\ \A v \in A : v \in Int
  OBVIOUS
<1>2. /\ Cardinality(A) \in Nat /\ RankIn(A, p) \in 0..Cardinality(A) /\ Len(s) = Cardinality(A)
      /\ P \in 1..(Len(s) + 1)
  <2>1. Cardinality(A) \in Nat /\ RankIn(A, p) \in 0..Cardinality(A)
    BY <1>1, RankRange
  <2> QED BY <2>1 DEF Spread
<1> HIDE DEF P
<1>3. /\ Len(t) = Len(s) + 1 /\ t[P] = x[p]
      /\ \A u \in 1..Len(s) : t[Moved(P, u)] = s[u]
  BY <1>2, InsertAtProperties
<1>4. Cardinality(B) = Cardinality(A) + 1
  BY <1>1, RankAdd
<1>5. ASSUME NEW v \in Int PROVE RankIn(B, v) = IF p < v THEN RankIn(A, v) + 1 ELSE RankIn(A, v)
  BY RankAdd
<1> HIDE DEF t, B
<1>6. ASSUME NEW b \in 1..(Len(s) + 1)
      PROVE  \E u \in B : b = RankIn(B, u) + 1 /\ t[b] = x[u]
  <2>1. CASE b = P
    <3>1. RankIn(B, p) = RankIn(A, p) /\ p \in B
      <4>1. p \in Int /\ ~(p < p)
        BY <1>1
      <4> QED BY <1>5, <4>1 DEF B
    <3> QED BY <1>3, <2>1, <3>1 DEF P
  <2>2. CASE b < P
    <3>1. b \in 1..Len(s) /\ Moved(P, b) = b
      BY <1>2, <2>2 DEF Moved
    <3>2. PICK v \in A : b = RankIn(A, v) + 1 /\ s[b] = x[v]
      BY <3>1 DEF Spread
    <3>3. RankIn(A, v) \in Nat /\ RankIn(A, p) \in Nat /\ RankIn(A, v) < RankIn(A, p)
      <4>1. RankIn(A, v) \in 0..Cardinality(A)
        BY <1>1, RankRange
      <4> QED BY <1>2, <2>2, <3>2, <4>1 DEF P
    <3>4. v < p
      <4> SUFFICES ASSUME p <= v PROVE FALSE
        BY <1>1
      <4>1. RankIn(A, p) <= RankIn(A, v)
        BY <1>1, RankGrows
      <4> QED BY <3>3, <4>1
    <3>5. RankIn(B, v) = RankIn(A, v) /\ v \in B
      <4>1. v \in Int /\ ~(p < v)
        BY <1>1, <3>4
      <4> QED BY <1>5, <4>1 DEF B
    <3> QED BY <1>3, <3>1, <3>2, <3>5
  <2>3. CASE b > P
    <3>1. b - 1 \in 1..Len(s) /\ Moved(P, b - 1) = b
      BY <1>2, <2>3 DEF Moved
    <3>2. PICK v \in A : b - 1 = RankIn(A, v) + 1 /\ s[b - 1] = x[v]
      BY <3>1 DEF Spread
    <3>3. RankIn(A, v) \in Nat /\ RankIn(A, p) \in Nat /\ RankIn(A, v) >= RankIn(A, p)
      <4>1. RankIn(A, v) \in 0..Cardinality(A)
        BY <1>1, RankRange
      <4> QED BY <1>2, <2>3, <3>2, <4>1 DEF P
    <3>4. p < v
      <4> SUFFICES ASSUME v < p PROVE FALSE
        BY <1>1
      <4>1. RankIn(A, v) < RankIn(A, p)
        <5>1. v \in Int /\ p \in Int /\ v <= p
          BY <1>1
        <5> QED BY <5>1, RankGrows
      <4> QED BY <3>3, <4>1
    <3>5. RankIn(B, v) = RankIn(A, v) + 1 /\ v \in B
      BY <1>1, <1>5, <3>4 DEF B
    <3> QED BY <1>3, <3>1, <3>2, <3>5
  <2> QED BY <1>2, <2>1, <2>2, <2>3
<1>7. Len(t) = Cardinality(B)
  BY <1>2, <1>3, <1>4
<1>8. Spread(x, t, B)
  BY <1>3, <1>6, <1>7 DEF Spread
<1> QED BY <1>8 DEF t, B, P

(* A label spread over all its positions is there.                         *)
LEMMA SpreadAll ==
    ASSUME TypeOK, NEW S, NEW s \in Seq(S), Spread(cps, s, DOMAIN cps)
    PROVE  s = cps
<1>1. /\ cps \in Seq(CodePoints) /\ Len(cps) \in Nat /\ DOMAIN cps = 1..Len(cps)
      /\ Cardinality(DOMAIN cps) = Len(cps) /\ Len(s) = Len(cps) /\ DOMAIN s = 1..Len(cps)
  <2>1. Cardinality(DOMAIN cps) = Len(cps)
    BY Positions
  <2> QED BY <2>1 DEF TypeOK, Spread
<1>2. ASSUME NEW b \in 1..Len(cps) PROVE s[b] = cps[b]
  <2>1. PICK p \in 1..Len(cps) : b = RankIn(1..Len(cps), p) + 1 /\ s[b] = cps[p]
    BY <1>1 DEF Spread
  <2>2. RankIn(1..Len(cps), p) = p - 1
    BY <1>1, RankAll
  <2> QED BY <2>1, <2>2
<1> QED BY <1>1, <1>2, SeqEqual

-----------------------------------------------------------------------------
(* The decoder is where the record of its byte says.                       *)
Same(r) == Spread(cps, output, r.done) /\ dn = r.n /\ oldi = r.i

Summed(r) == Same(r) /\ i = Goal(cps, r) /\ r.q < Limit(r)

Refused ==
    \/ /\ derr = "invalid_basic_code_point"
       /\ \E p \in DOMAIN cps : IsBasic(cps[p]) /\ ~IsLDH(cps[p])
    \/ derr = "label_length_limit" /\ Len(out) + 4 > MaxLabelLength

Follows(H) ==
    /\ dpc \in {"start", "literals"} => dbias = InitialBias
    /\ dpc = "literals" => index <= Cardinality(BasicPositions(cps)) + 1
    /\ dpc = "integers" =>
         /\ LiteralBytes(cps) < index
         /\ \E A \in SUBSET DOMAIN cps :
               Spread(cps, output, A) /\ Between(cps, H, index - 1, A, dn, i, dbias)
    /\ dpc = "digits" =>
         /\ LiteralBytes(cps) < index /\ index <= Len(label)
         /\ Same(H[index]) /\ dbias = H[index].bias /\ dk = H[index].k
         /\ w >= 1 /\ i + H[index].q * w = Goal(cps, H[index])
    /\ dpc \in {"adapt", "insert"} => LiteralBytes(cps) < index - 1 /\ Summed(H[index - 1])
    /\ dpc = "adapt" => \A b : AdaptsTo(dd, dk, b) => Adapted(cps, H[index - 1], b)
    /\ dpc = "insert" => Adapted(cps, H[index - 1], dbias)
    /\ dpc = "done" => output = cps
    /\ dpc = "failed" => Refused

Complete(H) == \E m, at \in Nat : Between(cps, H, Len(out), DOMAIN cps, m, at, bias)

(* The decoder reads what the encoder wrote. *)
Reads(H) == Payload /\ DInv /\ Copied /\ Traces(cps, H, out) /\ Complete(H) /\ Follows(H)

LEMMA StartFollows ==
    ASSUME NEW H, Reads(H), D!TooLong \/ D!NoPayload \/ D!Start, UNCHANGED vars
    PROVE  Follows(H)'
<1>1. UNCHANGED <<cps, out, bias>> /\ label = out
  BY DEF vars, Reads, Payload
<1>2. CASE D!TooLong
  <2>1. dpc' = "failed" /\ derr' = "label_length_limit" /\ Len(out') + 4 > MaxLabelLength
    BY <1>1, <1>2 DEF D!TooLong, D!Fail
  <2> QED BY <2>1 DEF Follows, Refused
<1>3. CASE D!NoPayload
  <2>1. Len(out) = 0
    BY <1>1, <1>3 DEF D!NoPayload
  <2>2. LiteralBytes(cps) = 0
    BY <1>1, <2>1, PayloadLayout DEF Reads
  <2>3. DOMAIN cps = BasicPositions(cps)
    BY <2>1, <2>2 DEF Reads, Complete, Between
  <2>4. ~HasNonAscii(cps)
    BY <2>3 DEF HasNonAscii, BasicPositions
  <2> QED BY <2>4 DEF Reads, Payload
<1>4. CASE D!Start
  <2>1. dpc = "start" /\ dpc' = "literals" /\ UNCHANGED <<label, index, dbias>> /\ index = 1
    BY <1>4 DEF D!Start, Reads, DInv, Reading
  <2>2. Cardinality(BasicPositions(cps)) \in Nat
    BY PayloadLayout DEF Reads
  <2>3. dbias' = InitialBias /\ index' <= Cardinality(BasicPositions(cps')) + 1
    BY <1>1, <2>1, <2>2 DEF Reads, Follows
  <2> QED BY <2>1, <2>3 DEF Follows
<1> QED BY <1>2, <1>3, <1>4

LEMMA CopyLiteralFollows ==
    ASSUME NEW H, Reads(H), D!CopyLiteral, UNCHANGED vars
    PROVE  Follows(H)'
<1> DEFINE C == Cardinality(BasicPositions(cps))
<1>1. /\ UNCHANGED <<cps, out, bias>> /\ label = out /\ dpc = "literals" /\ D!IsLiteral(index)
      /\ index \in Nat \ {0} /\ C \in Nat
  BY PayloadLayout DEF vars, Reads, Payload, D!CopyLiteral, DInv, D!TypeOK
<1>2. index \in 1..C
  <2>1. index \in Nat /\ Payload /\ Traces(cps, H, out)
    BY <1>1 DEF Reads
  <2>2. index <= C
    BY <1>1, <2>1, LiteralCut
  <2> QED BY <1>1, <2>2
<1>3. CASE D!IsLDH(label[index])
  <2>1. dpc' = "literals" /\ index' = index + 1 /\ dbias' = dbias
    BY <1>1, <1>3 DEF D!CopyLiteral
  <2>2. index' <= C + 1
    <3>1. index \in Nat /\ C \in Nat /\ index <= C
      BY <1>1, <1>2
    <3> HIDE DEF C
    <3> QED BY <2>1, <3>1
  <2>3. dbias' = InitialBias
    BY <1>1, <2>1 DEF Reads, Follows
  <2>4. Cardinality(BasicPositions(cps')) = C
    BY <1>1
  <2> QED BY <2>1, <2>2, <2>3, <2>4 DEF Follows
<1>4. CASE ~D!IsLDH(label[index])
  <2>1. dpc' = "failed" /\ derr' = "invalid_basic_code_point"
    BY <1>4 DEF D!CopyLiteral, D!Fail
  <2>2. PICK p \in BasicPositions(cps) : out[index] = cps[p]
    BY <1>2 DEF Reads, Payload, LiteralPart
  <2>3. p \in DOMAIN cps' /\ IsBasic(cps'[p]) /\ ~IsLDH(cps'[p])
    BY <1>1, <1>4, <2>2, SameOperators DEF BasicPositions
  <2> QED BY <2>1, <2>3 DEF Follows, Refused
<1> QED BY <1>3, <1>4

LEMMA EndLiteralsFollows ==
    ASSUME NEW H, Reads(H), D!EndLiterals, UNCHANGED vars
    PROVE  Follows(H)'
<1> DEFINE B == BasicPositions(cps)
           C == Cardinality(B)
           LB == LiteralBytes(cps)
<1>1. /\ UNCHANGED <<cps, out, bias>> /\ label = out /\ dpc = "literals" /\ ~D!IsLiteral(index)
      /\ index \in Nat \ {0} /\ index <= Len(label) /\ dpc' = "integers"
      /\ index' = (IF label[index] = Delimiter THEN index + 1 ELSE index)
      /\ UNCHANGED <<label, output, dn, i, dbias>>
  BY SameOperators DEF vars, Reads, Payload, D!EndLiterals, DInv, D!TypeOK, Reading
<1>2. /\ C \in Nat /\ LB \in Nat /\ LB = (IF C = 0 THEN 0 ELSE C + 1) /\ Len(label) \in Nat
      /\ B \in SUBSET DOMAIN cps
      /\ LB > 0 => label[LB] = Delimiter
      /\ C = 0 <=> B = {}
  <2>1. /\ C \in Nat /\ LB \in Nat /\ LB = (IF C = 0 THEN 0 ELSE C + 1) /\ Len(label) \in Nat
        /\ B \in SUBSET DOMAIN cps
    BY PayloadLayout DEF Reads, BasicPositions
  <2>2. LB = 0 <=> B = {}
    BY <2>1 DEF LiteralBytes
  <2>3. LB > 0 => label[LB] = Delimiter
    BY DEF Reads, Payload, LiteralPart
  <2> HIDE DEF C, LB, B
  <2> QED BY <2>1, <2>2, <2>3
<1>3. index = C + 1
  <2>1. index <= C + 1
    BY <1>1 DEF Reads, Follows
  <2>2. ~(index <= C /\ B # {})
    BY <1>1, LiteralCut DEF Reads
  <2> HIDE DEF C, B
  <2> QED BY <1>1, <1>2, <2>1, <2>2
<1>4. index' = LB + 1
  <2>1. CASE C = 0
    <3>1. index \in (LB + 1)..Len(label) /\ index = LB + 1
      BY <1>1, <1>2, <1>3, <2>1
    <3>2. label[index] # Delimiter
      BY <3>1, DigitBytes DEF Reads
    <3> QED BY <1>1, <3>1, <3>2
  <2>2. CASE C # 0
    <3>1. LB = index /\ LB > 0
      BY <1>1, <1>2, <1>3, <2>2
    <3> QED BY <1>1, <1>2, <3>1
  <2> QED BY <2>1, <2>2
<1>5. /\ Len(output) = C
      /\ \A l \in 1..C : output[l] = label[l]
  <2>1. Len(output) \in Nat /\ DOMAIN output = 1..Len(output)
    BY OutputOf DEF Reads, DInv
  <2>2. Len(output) = index - 1 /\ \A l \in DOMAIN output : output[l] = label[l]
    BY <1>1 DEF Reads, Copied
  <2> QED BY <1>2, <1>3, <2>1, <2>2
<1>6. Spread(cps, output, B)
  <2>1. \A l \in 1..C : \E p \in B : l = RankIn(B, p) + 1 /\ label[l] = cps[p]
    BY <1>1 DEF Reads, Payload, LiteralPart
  <2> QED BY <1>5, <2>1 DEF Spread
<1>7. Between(cps, H, LB, B, dn, i, dbias)
  <2>1. dn = InitialN /\ i = 0 /\ dbias = InitialBias
    BY <1>1, SameOperators DEF Reads, Follows, DInv, Inserting
  <2> QED BY <2>1 DEF Between
<1>8. index' - 1 = LB /\ LB < index'
  BY <1>2, <1>4
<1>9. /\ LiteralBytes(cps') < index'
      /\ \E A \in SUBSET DOMAIN cps' :
               Spread(cps', output', A) /\ Between(cps', H, index' - 1, A, dn', i', dbias')
  BY <1>1, <1>2, <1>6, <1>7, <1>8
<1> QED BY <1>1, <1>9 DEF Follows

(* An integer starts where no integer is under way. *)
LEMMA NextIntegerFollows ==
    ASSUME NEW H, Reads(H), D!NextInteger, UNCHANGED vars
    PROVE  Follows(H)'
<1>1. /\ UNCHANGED <<cps, out, bias>> /\ label = out /\ dpc = "integers" /\ index <= Len(label)
      /\ dpc' = "digits" /\ oldi' = i /\ w' = 1 /\ dk' = Base
      /\ UNCHANGED <<label, index, output, dn, i, dbias>>
      /\ index \in Nat /\ i \in Nat
  BY DEF vars, Reads, Payload, D!NextInteger, DInv, D!TypeOK
<1>2. LiteralBytes(cps) < index
  BY <1>1 DEF Reads, Follows
<1>3. PICK A \in SUBSET DOMAIN cps :
        Spread(cps, output, A) /\ Between(cps, H, index - 1, A, dn, i, dbias)
  BY <1>1 DEF Reads, Follows
<1>4. /\ LiteralBytes(cps) \in Nat /\ Len(label) \in Nat /\ DOMAIN cps = 1..Len(cps) /\ Len(cps) \in Nat
      /\ index \in (LiteralBytes(cps) + 1)..Len(label)
  BY <1>1, <1>2, PayloadLayout DEF Reads
<1>5. PICK r : r = H[index]
  OBVIOUS
<1>6. Sound(cps, r) /\ Linked(cps, H, index)
  BY <1>4, <1>5, DigitBytes DEF Reads
<1>7. index - 1 # LiteralBytes(cps) =>
        /\ Sound(cps, H[index - 1]) /\ H[index - 1] \in Records(cps)
        /\ Limit(H[index - 1]) \in 1..(Base - 1)
  <2>1. ASSUME index - 1 # LiteralBytes(cps)
        PROVE  index - 1 \in (LiteralBytes(cps) + 1)..Len(label)
    BY <1>4, <2>1
  <2> QED BY <2>1, DigitBytes DEF Reads
<1>8. Starts(cps, H, index)
  <2> SUFFICES ASSUME Continues(cps, H, index) PROVE FALSE
    BY <1>6 DEF Linked
  <2>1. index - 1 # LiteralBytes(cps) /\ H[index - 1].q >= Limit(H[index - 1])
    BY <1>4 DEF Continues
  <2>2. H[index - 1].q < Limit(H[index - 1])
    BY <1>3, <2>1 DEF Between
  <2>3. H[index - 1].q \in Nat /\ Limit(H[index - 1]) \in Int
    BY <1>7, <2>1, BootstringAssumption DEF Records
  <2> QED BY <2>1, <2>2, <2>3
<1>9. Between(cps, H, index - 1, r.done, r.n, r.i, r.bias) /\ r.q = Gap(cps, r) /\ r.k = Base
  BY <1>5, <1>8 DEF Starts
<1>10. A = r.done /\ dn = r.n /\ i = r.i /\ dbias = r.bias
  <2>1. SoundAt(H, index - 1) /\ TypeOK
    BY <1>7 DEF SoundAt, Reads, Payload
  <2>2. Between(cps, H, index - 1, r.done, r.n, r.i, r.bias)
    BY <1>5, <1>8 DEF Starts
  <2>3. Between(cps, H, index - 1, A, dn, i, dbias)
    BY <1>3
  <2> QED BY <2>1, <2>2, <2>3, BetweenOnce
<1>11. i + r.q * 1 = Goal(cps, r)
  <2>1. Gap(cps, r) \in Nat /\ Gap(cps, r) = Goal(cps, r) - r.i
    BY <1>6 DEF Sound, Gap
  <2>2. Goal(cps, r) \in Int
    <3>1. r.done \in SUBSET (1..Len(cps)) /\ r.pos \in 1..Len(cps) /\ r.n \in Nat /\ r.pos \in Int
      BY <1>4, <1>6 DEF Sound, Records
    <3>2. RankIn(r.done, r.pos) \in Nat /\ Cardinality(r.done) \in Nat
      <4>1. RankIn(r.done, r.pos) \in 0..Cardinality(r.done) /\ Cardinality(r.done) \in Nat
        BY <1>4, <3>1, RankRange
      <4> QED BY <4>1
    <3>3. cps[r.pos] \in Nat
      BY <1>4, <3>1, CodePointOf DEF Reads, Payload
    <3>4. (cps[r.pos] - r.n) * (Cardinality(r.done) + 1) \in Int
      BY <3>1, <3>2, <3>3
    <3> QED BY <3>2, <3>4 DEF Goal, Place
  <2> QED BY <1>1, <1>9, <1>10, <2>1, <2>2
<1>12. Same(r)'
  BY <1>1, <1>3, <1>10 DEF Same
<1>13. /\ LiteralBytes(cps') < index' /\ index' <= Len(label')
       /\ Same(H[index])' /\ dbias' = H[index].bias /\ dk' = H[index].k
       /\ w' >= 1 /\ i' + H[index].q * w' = Goal(cps', H[index])
  BY <1>1, <1>2, <1>5, <1>9, <1>10, <1>11, <1>12
<1> QED BY <1>1, <1>13 DEF Follows, Same

(* The numbers of a record, and the i it goes to.                          *)
LEMMA RecordNumbers ==
    ASSUME TypeOK, NEW r, Sound(cps, r)
    PROVE  /\ r.done \in SUBSET (1..Len(cps)) /\ r.pos \in 1..Len(cps) /\ Len(cps) \in Nat
           /\ Cardinality(r.done) \in Nat /\ Place(r) \in 0..Cardinality(r.done)
           /\ r.n \in Nat /\ r.i \in Nat /\ r.bias \in Nat /\ r.q \in Nat /\ r.k \in Nat
           /\ cps[r.pos] \in 0..MaxScalar /\ cps[r.pos] - r.n \in 0..MaxScalar
           /\ Goal(cps, r) \in Nat /\ Gap(cps, r) \in Nat /\ Goal(cps, r) = r.i + Gap(cps, r)
<1>1. DOMAIN cps = 1..Len(cps) /\ Len(cps) \in Nat
  BY DEF TypeOK
<1>2. /\ r.done \in SUBSET (1..Len(cps)) /\ r.pos \in 1..Len(cps) /\ r.pos \in Int
      /\ r.n \in Nat /\ r.i \in Nat /\ r.bias \in Nat /\ r.q \in Nat /\ r.k \in Nat
  BY <1>1 DEF Sound, Records
<1>3. Cardinality(r.done) \in Nat /\ Place(r) \in 0..Cardinality(r.done)
  BY <1>1, <1>2, RankRange DEF Place
<1>4. cps[r.pos] \in 0..MaxScalar
  BY <1>1, <1>2, CodePointOf
<1>5. cps[r.pos] - r.n \in 0..MaxScalar
  BY <1>2, <1>4, MaxScalarRange DEF Sound
<1>6. Goal(cps, r) \in Nat
  <2>1. /\ Place(r) \in Nat /\ cps[r.pos] - r.n \in Nat
        /\ Cardinality(r.done) + 1 \in Nat
    BY <1>3, <1>5, MaxScalarRange
  <2>2. (cps[r.pos] - r.n) * (Cardinality(r.done) + 1) \in Nat
    BY <2>1
  <2> QED BY <2>1, <2>2 DEF Goal
<1>7. Gap(cps, r) \in Nat /\ Goal(cps, r) = r.i + Gap(cps, r)
  BY <1>2, <1>6 DEF Sound, Gap
<1> QED BY <1>1, <1>2, <1>3, <1>4, <1>5, <1>6, <1>7

(* It is so small that one more weight fits in 64 bits.                    *)
LEMMA GoalRoom ==
    ASSUME TypeOK, NEW r, Sound(cps, r), Cardinality(r.done) + 1 <= MaxLabelLength
    PROVE  Goal(cps, r) * Base \in 0..MaxU64 /\ Goal(cps, r) \in 0..MaxU64
<1> DEFINE a == cps[r.pos] - r.n
           c == Cardinality(r.done) + 1
           G == Goal(cps, r)
           M == (MaxScalar + 2) * MaxLabelLength
           N == (MaxScalar + 2) * c
<1>1. /\ a \in Nat /\ a + 1 <= MaxScalar + 2 /\ c \in Nat \ {0} /\ G \in Nat /\ G = a * c + Place(r)
      /\ Place(r) \in Nat /\ Place(r) <= c
  <2>1. /\ Cardinality(r.done) \in Nat /\ Place(r) \in 0..Cardinality(r.done)
        /\ cps[r.pos] - r.n \in 0..MaxScalar /\ Goal(cps, r) \in Nat
    BY RecordNumbers
  <2>2. a \in Nat /\ a + 1 <= MaxScalar + 2
    <3>1. MaxScalar \in Nat /\ a \in 0..MaxScalar
      BY <2>1, MaxScalarRange
    <3> HIDE DEF a
    <3> QED BY <3>1
  <2>3. c \in Nat \ {0} /\ Place(r) \in Nat /\ Place(r) <= c
    BY <2>1
  <2>4. G = a * c + Place(r)
    BY DEF Goal
  <2> QED BY <2>1, <2>2, <2>3, <2>4
<1>2. MaxLabelLength \in Nat /\ c <= MaxLabelLength /\ MaxScalar + 2 \in Nat /\ MaxU64 \in Nat /\ Base \in 2..36
  BY CapRange, MaxScalarRange
<1> HIDE DEF a, c
<1>3. G <= (a + 1) * c
  <2>1. (a + 1) * c = a * c + c /\ a * c \in Nat
    BY <1>1
  <2> QED BY <1>1, <2>1
<1>4. (a + 1) * c <= N /\ (a + 1) * c \in Nat
  <2>1. a + 1 \in Nat
    BY <1>1
  <2> QED BY <1>1, <1>2, <2>1, Product
<1>5. N <= M /\ N \in Nat /\ M \in Nat
  <2>1. c * (MaxScalar + 2) <= MaxLabelLength * (MaxScalar + 2)
    BY <1>1, <1>2, Product
  <2>2. c * (MaxScalar + 2) = N /\ MaxLabelLength * (MaxScalar + 2) = M
    BY <1>1, <1>2
  <2>3. N \in Nat /\ M \in Nat
    BY <1>1, <1>2
  <2> QED BY <2>1, <2>2, <2>3
<1>6. Base * M <= MaxU64
  BY CapAssumption
<1> HIDE DEF N, M, G
<1>7. G <= M
  BY <1>1, <1>3, <1>4, <1>5
<1>8. G * Base <= M * Base /\ G * Base \in Nat /\ M * Base = Base * M
  BY <1>1, <1>2, <1>5, <1>7, Product
<1>9. G <= G * Base
  <2>1. 1 * G <= Base * G /\ 1 * G = G /\ Base * G = G * Base
    BY <1>1, <1>2, Product
  <2> QED BY <2>1
<1> DEFINE GB == G * Base
           BM == Base * M
<1>10. GB \in Nat /\ BM \in Nat /\ GB <= BM /\ BM <= MaxU64 /\ G <= GB
  BY <1>2, <1>5, <1>6, <1>8, <1>9
<1> HIDE DEF GB, BM
<1>11. GB \in 0..MaxU64 /\ G \in 0..MaxU64
  BY <1>1, <1>2, <1>10
<1> QED BY <1>11 DEF G, GB

-----------------------------------------------------------------------------
(* What the decoder has at a digit byte.                                   *)
AtRecord(r) ==
    /\ index \in Nat /\ index \in (LiteralBytes(cps) + 1)..Len(label)
    /\ Sound(cps, r) /\ Same(r) /\ dbias = r.bias /\ dk = r.k
    /\ Limit(r) \in 1..(Base - 1) /\ Written(r) \in 0..35
    /\ r.q < Limit(r) => Written(r) = r.q
    /\ r.q >= Limit(r) => /\ Written(r) >= Limit(r) /\ Rest(r) \in Nat
                          /\ r.q = Written(r) + (Base - Limit(r)) * Rest(r)
    /\ i \in Nat /\ w \in Nat /\ w >= 1 /\ i + r.q * w = Goal(cps, r)
    /\ D!Digit = Written(r) /\ D!T = Limit(r)

LEMMA DigitRecord ==
    ASSUME NEW H, Reads(H), dpc = "digits", NEW r, r = H[index]
    PROVE  AtRecord(r)
<1>1. /\ LiteralBytes(cps) < index /\ index <= Len(label) /\ Same(r) /\ dbias = r.bias /\ dk = r.k
      /\ w >= 1 /\ i + r.q * w = Goal(cps, r)
  BY DEF Reads, Follows
<1>2. index \in Nat /\ i \in Nat /\ w \in Nat
  BY DecoderScalarRange DEF Reads, DInv, D!TypeOK
<1>3. LiteralBytes(cps) \in Nat /\ Len(label) \in Nat
  BY PayloadLayout DEF Reads
<1>4. index \in (LiteralBytes(cps) + 1)..Len(label)
  BY <1>1, <1>2, <1>3
<1>5. /\ Sound(cps, r) /\ Limit(r) \in 1..(Base - 1) /\ Written(r) \in 0..35
      /\ r.q < Limit(r) => Written(r) = r.q
      /\ r.q >= Limit(r) => /\ Written(r) >= Limit(r) /\ Rest(r) \in Nat
                            /\ r.q = Written(r) + (Base - Limit(r)) * Rest(r)
      /\ D!DecodeDigit(label[index]) = Written(r)
  <2>1. Payload /\ Traces(cps, H, out)
    BY DEF Reads
  <2> QED BY <1>4, <2>1, DigitBytes
<1>6. D!Digit = Written(r)
  BY <1>5 DEF D!Digit
<1>7. D!T = Limit(r)
  BY <1>1, SameOperators DEF D!T, Limit
<1> QED BY <1>1, <1>2, <1>4, <1>5, <1>6, <1>7 DEF AtRecord

(* The weighted digit fits, and so does the weight of the next one.        *)
LEMMA DigitRoom ==
    ASSUME NEW H, Reads(H), dpc = "digits", NEW r, AtRecord(r)
    PROVE  /\ D!SumFits /\ D!Digit >= 0
           /\ D!Digit >= D!T => D!MulFits(w, Base - D!T)
           /\ D!Digit >= D!T <=> r.q >= Limit(r)
<1> DEFINE G == Goal(cps, r)
           t == Written(r)
           l == Limit(r)
           u == r.q
           tw == t * w
           uw == u * w
<1>1. G * Base \in 0..MaxU64 /\ G \in 0..MaxU64
  <2>1. Cardinality(r.done) + 1 <= MaxLabelLength
    <3>1. Cardinality(r.done) = Len(output) /\ Len(output) \in Nat /\ Len(output) < index
      BY OutputOf DEF AtRecord, Same, Spread, Reads, DInv, Reading
    <3>2. Len(label) + 4 <= MaxLabelLength /\ index <= Len(label) /\ Len(label) \in Nat /\ index \in Nat
      BY OutputOf DEF AtRecord, Reads, DInv, Reading
    <3> QED BY <3>1, <3>2, CapRange
  <2> QED BY <2>1, GoalRoom DEF AtRecord, Reads, Payload
<1>2. /\ Base \in 2..36 /\ l \in Nat /\ l >= 1 /\ l < Base /\ Base - l \in Nat \ {0} /\ t \in Nat /\ u \in Nat
      /\ MaxU64 \in Nat /\ w \in Nat /\ w >= 1 /\ i \in Nat /\ G \in Nat
  <2>1. u \in Nat /\ G \in Nat
    BY RecordNumbers DEF AtRecord, Reads, Payload
  <2>2. l \in 1..(Base - 1) /\ t \in 0..35 /\ w \in Nat /\ w >= 1 /\ i \in Nat
    BY DEF AtRecord
  <2>3. Base \in 2..36 /\ MaxU64 \in Nat
    BY CapRange, MaxScalarRange
  <2> HIDE DEF G, t, l, u
  <2> QED BY <2>1, <2>2, <2>3
<1>3. D!Digit = t /\ D!T = l /\ i + uw = G
  BY DEF AtRecord
<1>4. t <= u /\ (t >= l <=> u >= l)
  <2>1. CASE u < l
    BY <1>2, <2>1 DEF AtRecord
  <2>2. CASE u >= l
    <3> DEFINE e == (Base - l) * Rest(r)
    <3>1. Rest(r) \in Nat /\ t >= l /\ u = t + e
      BY <2>2 DEF AtRecord
    <3>2. e \in Nat
      BY <1>2, <3>1
    <3> HIDE DEF e, t, u, l
    <3> QED BY <1>2, <2>2, <3>1, <3>2
  <2> QED BY <1>2, <2>1, <2>2
<1> HIDE DEF G, t, l, u
<1>5. tw \in Nat /\ uw \in Nat /\ tw <= uw
  BY <1>2, <1>4, Product
<1> HIDE DEF tw, uw
<1>6. tw <= MaxU64 /\ uw <= G /\ i <= MaxU64 - tw
  BY <1>1, <1>2, <1>3, <1>5
<1>7. D!SumFits
  <2>1. MulFits(t, w)
    <3>1. w \in Nat \ {0} /\ t * w <= MaxU64
      BY <1>2, <1>6 DEF tw
    <3> QED BY <1>2, <3>1, MulFitsWhenProductDoes
  <2>2. AddFits(i, t * w)
    BY <1>6 DEF AddFits, tw
  <2>3. D!MulFits(t, w) /\ D!AddFits(i, t * w)
    BY <2>1, <2>2, SameOperators
  <2> QED BY <1>3, <2>3 DEF D!SumFits
<1>8. ASSUME t >= l PROVE D!MulFits(w, Base - l)
  <2>1. u \in Nat /\ 1 <= u
    BY <1>2, <1>4, <1>8
  <2>2. 1 * w <= u * w /\ 1 * w = w
    BY <1>2, <2>1, Product
  <2>3. w <= G
    BY <1>2, <1>5, <1>6, <2>2 DEF uw
  <2> DEFINE b == Base - l
  <2>4. b \in Nat \ {0} /\ b <= Base /\ Base \in Nat
    BY <1>2
  <2> HIDE DEF b
  <2>5. w * b <= G * b /\ w * b \in Nat
    BY <1>2, <2>3, <2>4, Product
  <2>6. b * G <= Base * G /\ b * G = G * b /\ Base * G = G * Base
    BY <1>2, <2>4, Product
  <2> DEFINE wb == w * b
             Gb == G * b
             GB == G * Base
  <2>7. wb <= Gb /\ Gb <= GB /\ GB <= MaxU64 /\ wb \in Int /\ Gb \in Int /\ GB \in Int
    BY <1>1, <1>2, <2>4, <2>5, <2>6
  <2> HIDE DEF wb, Gb, GB
  <2>8. wb <= MaxU64
    BY <1>2, <2>7
  <2>9. MulFits(w, b)
    BY <1>2, <2>4, <2>8, MulFitsWhenProductDoes DEF wb
  <2> QED BY <2>9, SameOperators DEF b
<1>9. D!Digit >= 0
  BY <1>2, <1>3
<1> QED BY <1>3, <1>4, <1>7, <1>8, <1>9 DEF t, l, u

-----------------------------------------------------------------------------
(* No error is met at a digit byte. *)
LEMMA NoDigitError ==
    ASSUME NEW H, Reads(H), D!Truncated \/ D!NoDigit \/ D!Overflow
    PROVE  FALSE
<1>1. dpc = "digits"
  BY DEF D!Truncated, D!NoDigit, D!Overflow, D!AtByte
<1>2. PICK r : r = H[index]
  OBVIOUS
<1>3. AtRecord(r)
  BY <1>1, <1>2, DigitRecord
<1>4. index <= Len(label) /\ index \in Nat /\ Len(label) \in Nat
  BY <1>3, PayloadLayout DEF AtRecord, Reads
<1>5. /\ D!SumFits /\ D!Digit >= 0 /\ D!Digit \in Int
      /\ D!Digit >= D!T => D!MulFits(w, Base - D!T)
  <2>1. D!Digit \in Int
    BY <1>3 DEF AtRecord
  <2> QED BY <1>1, <1>3, <2>1, DigitRoom
<1>6. CASE D!Truncated
  BY <1>4, <1>6 DEF D!Truncated
<1>7. CASE D!NoDigit
  BY <1>5, <1>7 DEF D!NoDigit
<1>8. CASE D!Overflow
  BY <1>5, <1>8 DEF D!Overflow
<1> QED BY <1>6, <1>7, <1>8

(* A digit that is not the last is followed by the next of its integer.    *)
LEMMA TakeDigitFollows ==
    ASSUME NEW H, Reads(H), D!TakeDigit, UNCHANGED vars
    PROVE  Follows(H)'
<1>1. /\ UNCHANGED <<cps, out, bias>> /\ label = out /\ dpc = "digits" /\ dpc' = "digits"
      /\ D!Digit >= D!T /\ index' = index + 1 /\ i' = i + D!Digit * w
      /\ w' = w * (Base - D!T) /\ dk' = dk + Base
      /\ UNCHANGED <<label, output, dn, dbias, oldi>>
  BY DEF vars, Reads, Payload, D!TakeDigit, D!AtByte
<1>2. PICK r : r = H[index]
  OBVIOUS
<1>3. AtRecord(r)
  BY <1>1, <1>2, DigitRecord
<1>4. r.q >= Limit(r)
  BY <1>1, <1>3, DigitRoom
<1>5. /\ index \in Nat /\ Len(label) \in Nat /\ LiteralBytes(cps) \in Nat
      /\ LiteralBytes(cps) < index /\ index <= Len(label)
      /\ r.q \in Nat /\ Limit(r) \in Int /\ ~(r.q < Limit(r))
  <2>1. r.q \in Nat
    BY <1>3, RecordNumbers DEF AtRecord, Reads, Payload
  <2>2. Limit(r) \in Int
    BY <1>3, CapRange DEF AtRecord
  <2> QED BY <1>3, <1>4, <2>1, <2>2, PayloadLayout DEF AtRecord, Reads
<1>6. index < Len(label)
  <2> SUFFICES ASSUME index = Len(label) PROVE FALSE
    BY <1>5
  <2>1. PICK m, at \in Nat : Between(cps, H, index, DOMAIN cps, m, at, bias)
    BY <1>1 DEF Reads, Complete
  <2>2. r.q < Limit(r)
    BY <1>2, <1>5, <2>1 DEF Between
  <2> QED BY <1>5, <2>2
<1>7. index + 1 \in (LiteralBytes(cps) + 1)..Len(label) /\ index + 1 - 1 = index
  BY <1>5, <1>6
<1>8. Continues(cps, H, index + 1)
  <2>1. Linked(cps, H, index + 1)
    BY <1>7, DigitBytes DEF Reads
  <2> SUFFICES ASSUME Starts(cps, H, index + 1) PROVE FALSE
    BY <2>1 DEF Linked
  <2>2. Between(cps, H, index, H[index + 1].done, H[index + 1].n, H[index + 1].i, H[index + 1].bias)
    <3>1. PICK l : l = index + 1
      OBVIOUS
    <3>2. Between(cps, H, l - 1, H[l].done, H[l].n, H[l].i, H[l].bias)
      BY <3>1 DEF Starts
    <3>3. l - 1 = index
      BY <1>5, <3>1
    <3> QED BY <3>1, <3>2, <3>3
  <2>3. r.q < Limit(r)
    BY <1>2, <1>5, <2>2 DEF Between
  <2> QED BY <1>5, <2>3
<1>9. PICK s : s = H[index + 1]
  OBVIOUS
<1>10. s = [r EXCEPT !.q = Rest(r), !.k = r.k + Base]
  <2>1. PICK l : l = index + 1
    OBVIOUS
  <2>2. H[l] = [H[l - 1] EXCEPT !.q = Rest(H[l - 1]), !.k = H[l - 1].k + Base]
    BY <1>8, <2>1 DEF Continues
  <2>3. l - 1 = index
    BY <1>5, <2>1
  <2>4. H[l] = s /\ H[l - 1] = r
    BY <1>2, <1>9, <2>1, <2>3
  <2> QED BY <2>2, <2>4
<1>11. /\ s.done = r.done /\ s.pos = r.pos /\ s.n = r.n /\ s.i = r.i /\ s.bias = r.bias
       /\ s.q = Rest(r) /\ s.k = r.k + Base
  <2>1. r \in Records(cps)
    BY <1>3 DEF AtRecord, Sound
  <2> QED BY <1>10, <2>1 DEF Records
<1>12. Same(s) /\ Goal(cps, s) = Goal(cps, r)
  BY <1>3, <1>11 DEF AtRecord, Same, Goal, Place
<1>13. w' \in Nat /\ w' >= 1 /\ i' + s.q * w' = Goal(cps, s)
  <2> DEFINE l == Limit(r)
             t == Written(r)
             v == Rest(r)
             b == Base - l
             u == r.q
             g == Goal(cps, r)
  <2>1. /\ b \in Nat \ {0} /\ t \in Nat /\ v \in Nat /\ u = t + b * v /\ i \in Nat /\ w \in Nat /\ w >= 1
        /\ i + u * w = g /\ i' = i + t * w /\ w' = w * b
    <3>1. l \in 1..(Base - 1) /\ Base \in 2..36
      BY <1>3, CapRange DEF AtRecord
    <3>2. b \in Nat \ {0}
      BY <3>1
    <3>3. /\ t \in 0..35 /\ v \in Nat /\ u = t + b * v /\ i \in Nat /\ w \in Nat /\ w >= 1
          /\ i + u * w = g /\ D!Digit = t /\ D!T = l
      BY <1>3, <1>4 DEF AtRecord
    <3>4. i' = i + t * w /\ w' = w * b
      BY <1>1, <3>3
    <3> HIDE DEF l, t, v, b, u, g
    <3> QED BY <3>2, <3>3, <3>4
  <2> HIDE DEF l, t, v, b, u, g
  <2>2. w * b \in Nat /\ w * b >= 1
    <3>1. 1 * b <= w * b /\ 1 * b = b
      BY <2>1, Product
    <3> QED BY <2>1, <3>1
  <2>3. u * w = t * w + v * (w * b)
    <3>1. (t + b * v) * w = t * w + (b * v) * w
      BY <2>1
    <3>2. (b * v) * w = v * (w * b)
      BY <2>1
    <3> QED BY <2>1, <3>1, <3>2
  <2> DEFINE tw == t * w
             vwb == v * (w * b)
             uw == u * w
  <2>4. tw \in Nat /\ vwb \in Nat /\ uw = tw + vwb
    BY <2>1, <2>2, <2>3
  <2>5. i + uw = g /\ i' = i + tw
    BY <2>1
  <2> HIDE DEF tw, vwb, uw
  <2>6. i' + vwb = g
    BY <2>1, <2>4, <2>5
  <2>7. vwb = s.q * w' /\ g = Goal(cps, s)
    BY <1>11, <1>12, <2>1 DEF vwb, v, g
  <2> QED BY <2>1, <2>2, <2>6, <2>7
<1>14. index' \in Nat /\ H[index]' = s
  BY <1>1, <1>5, <1>9
<1>15. /\ LiteralBytes(cps') < index' /\ index' <= Len(label')
       /\ Same(H[index])' /\ dbias' = H[index]'.bias /\ dk' = H[index]'.k
       /\ w' >= 1 /\ i' + H[index]'.q * w' = Goal(cps', H[index]')
  <2>1. LiteralBytes(cps') < index' /\ index' <= Len(label')
    BY <1>1, <1>5, <1>6
  <2>2. Same(H[index])'
    BY <1>1, <1>12, <1>14 DEF Same
  <2>3. dbias' = s.bias /\ dk' = s.k
    BY <1>1, <1>3, <1>11 DEF AtRecord
  <2>4. Goal(cps', s) = Goal(cps, s)
    BY <1>1
  <2> QED BY <1>13, <1>14, <2>1, <2>2, <2>3, <2>4
<1> QED BY <1>1, <1>15 DEF Follows

(* The last digit: i is where the coming position is, and adapt() starts   *)
(* from the number the encoder starts from.                                *)
LEMMA TakeLastFollows ==
    ASSUME NEW H, Reads(H), D!TakeLast, UNCHANGED vars
    PROVE  Follows(H)'
<1>1. /\ UNCHANGED <<cps, out, bias>> /\ label = out /\ dpc = "digits" /\ dpc' = "adapt"
      /\ D!Digit < D!T /\ index' = index + 1 /\ i' = i + D!Digit * w
      /\ dd' = D!AdaptStart(i' - oldi, Len(output) + 1, oldi = 0) /\ dk' = 0
      /\ UNCHANGED <<label, output, dn, dbias, oldi>>
  BY DEF vars, Reads, Payload, D!TakeLast, D!AtByte
<1>2. PICK r : r = H[index]
  OBVIOUS
<1>3. AtRecord(r)
  BY <1>1, <1>2, DigitRecord
<1>4. /\ index \in Nat /\ LiteralBytes(cps) \in Nat /\ LiteralBytes(cps) < index
  BY <1>3, PayloadLayout DEF AtRecord, Reads
<1>5. r.q < Limit(r) /\ Written(r) = r.q
  <2>1. ~(r.q >= Limit(r))
    <3>1. D!Digit \in Int /\ D!T \in Int
      <4>1. Written(r) \in Int /\ Limit(r) \in Int
        BY <1>3, CapRange DEF AtRecord
      <4> QED BY <1>3, <4>1 DEF AtRecord
    <3>2. ~(D!Digit >= D!T)
      BY <1>1, <3>1
    <3> QED BY <1>1, <1>3, <3>2, DigitRoom
  <2>2. r.q \in Nat
    BY <1>3, RecordNumbers DEF AtRecord, Reads, Payload
  <2>3. Limit(r) \in Int
    BY <1>3, CapRange DEF AtRecord
  <2>4. r.q < Limit(r)
    BY <2>1, <2>2, <2>3
  <2> QED BY <1>3, <2>4 DEF AtRecord
<1>6. i' = Goal(cps, r)
  <2>1. i' = i + r.q * w
    BY <1>1, <1>3, <1>5 DEF AtRecord
  <2> QED BY <1>3, <2>1 DEF AtRecord
<1>7. dd' = AdaptStart(Gap(cps, r), Cardinality(r.done) + 1, r.i = 0)
  <2>1. oldi = r.i /\ Len(output) = Cardinality(r.done)
    BY <1>3 DEF AtRecord, Same, Spread
  <2>2. i' - oldi = Gap(cps, r)
    BY <1>6, <2>1 DEF Gap
  <2> QED BY <1>1, <2>1, <2>2, SameOperators
<1>8. index' - 1 = index
  BY <1>1, <1>4
<1>9. H[index - 1]' = r
  BY <1>2, <1>8
<1>10. LiteralBytes(cps') < index' - 1
  BY <1>1, <1>4, <1>8
<1>11. Summed(H[index - 1])'
  <2>1. Same(r) /\ Goal(cps', r) = Goal(cps, r)
    BY <1>1, <1>3 DEF AtRecord
  <2>2. Same(H[index - 1])'
    BY <1>1, <1>9, <2>1 DEF Same
  <2>3. i' = Goal(cps, H[index - 1])' /\ (H[index - 1].q < Limit(H[index - 1]))'
    BY <1>5, <1>6, <1>9, <2>1
  <2> QED BY <2>2, <2>3 DEF Summed
<1>12. \A b : AdaptsTo(dd', dk', b) => Adapted(cps', H[index - 1]', b)
  BY <1>1, <1>7, <1>9 DEF Adapted
<1> QED BY <1>1, <1>10, <1>11, <1>12 DEF Follows

LEMMA AdaptFollows ==
    ASSUME NEW H, Reads(H), D!AdaptLoop \/ D!EndAdapt, UNCHANGED vars
    PROVE  Follows(H)'
<1>1. /\ UNCHANGED <<cps, out, bias>> /\ label = out /\ dpc = "adapt"
      /\ UNCHANGED <<label, index, output, dn, i, oldi>>
      /\ dd \in Nat /\ dk \in Nat
  BY DEF vars, Reads, Payload, DInv, D!TypeOK, D!AdaptLoop, D!EndAdapt, D!digitVars
<1>2. PICK r : r = H[index - 1]
  OBVIOUS
<1>3. /\ LiteralBytes(cps) < index - 1 /\ Summed(r)
      /\ \A b : AdaptsTo(dd, dk, b) => Adapted(cps, r, b)
  BY <1>1, <1>2 DEF Reads, Follows
<1>4. H[index - 1]' = r
  BY <1>1, <1>2
<1>5. Summed(r)' /\ (LiteralBytes(cps) < index - 1)'
  BY <1>1, <1>3 DEF Summed, Same
<1>6. Summed(H[index - 1])'
  <2>1. PICK s : s = H[index - 1]'
    OBVIOUS
  <2>2. s = r
    BY <1>4, <2>1
  <2> QED BY <1>4, <1>5 DEF Summed, Same
<1>7. CASE D!AdaptLoop
  <2>1. dpc' = "adapt" /\ D!AdaptAgain(dd) /\ dd' = D!AdaptDivide(dd) /\ dk' = dk + Base
    BY <1>7 DEF D!AdaptLoop
  <2>2. AdaptAgain(dd) /\ dd' = AdaptDivide(dd)
    BY <2>1, SameOperators
  <2>3. ASSUME NEW b, AdaptsTo(dd', dk', b) PROVE Adapted(cps', H[index - 1]', b)
    <3>1. AdaptsTo(AdaptDivide(dd), dk + Base, b)
      BY <2>1, <2>2, <2>3
    <3>2. AdaptsTo(dd, dk, b)
      BY <1>1, <2>2, <3>1, AdaptGoesOn
    <3> QED BY <1>1, <1>3, <1>4, <3>2
  <2> QED BY <1>5, <1>6, <2>1, <2>3 DEF Follows
<1>8. CASE D!EndAdapt
  <2>1. dpc' = "insert" /\ ~D!AdaptAgain(dd) /\ dbias' = D!AdaptResult(dd, dk)
    BY <1>8 DEF D!EndAdapt
  <2>2. ~AdaptAgain(dd) /\ dbias' = AdaptResult(dd, dk)
    BY <2>1, SameOperators
  <2>3. AdaptsTo(dd, dk, dbias')
    BY <1>1, <2>2, AdaptEnds
  <2>4. Adapted(cps', H[index - 1]', dbias')
    BY <1>1, <1>3, <1>4, <2>3
  <2> QED BY <1>5, <1>6, <2>1, <2>4 DEF Follows
<1> QED BY <1>7, <1>8

-----------------------------------------------------------------------------
(* The integer stands for the place and the code point of the position     *)
(* that is coming.                                                         *)
LEMMA InsertPlace ==
    ASSUME NEW H, Reads(H), dpc = "insert", NEW r, r = H[index - 1]
    PROVE  /\ LiteralBytes(cps) < index - 1 /\ index - 1 \in (LiteralBytes(cps) + 1)..Len(label)
           /\ Sound(cps, r) /\ Same(r) /\ r.q < Limit(r) /\ Adapted(cps, r, dbias)
           /\ i \div D!OutLen = cps[r.pos] - dn /\ i % D!OutLen = Place(r)
           /\ D!NextN = cps[r.pos]
<1>1. /\ LiteralBytes(cps) < index - 1 /\ Summed(r) /\ Adapted(cps, r, dbias)
  BY DEF Reads, Follows
<1>2. index - 1 \in (LiteralBytes(cps) + 1)..Len(label)
  <2>1. index \in Nat /\ index <= Len(label) + 1 /\ Len(label) \in Nat /\ LiteralBytes(cps) \in Nat
    BY OutputOf, PayloadLayout DEF Reads, DInv
  <2> QED BY <1>1, <2>1
<1>3. Sound(cps, r)
  BY <1>2, DigitBytes DEF Reads
<1>4. /\ Cardinality(r.done) \in Nat /\ Place(r) \in 0..Cardinality(r.done)
      /\ cps[r.pos] - r.n \in Nat /\ r.n \in Nat /\ cps[r.pos] \in Nat
      /\ Goal(cps, r) = (cps[r.pos] - r.n) * (Cardinality(r.done) + 1) + Place(r)
      /\ Goal(cps, r) \in Nat
  <2>1. cps[r.pos] \in Nat /\ cps[r.pos] - r.n \in Nat
    BY <1>3, RecordNumbers, MaxScalarRange DEF Reads, Payload
  <2> QED BY <1>3, <2>1, RecordNumbers DEF Reads, Payload, Goal
<1>5. Same(r) /\ i = Goal(cps, r) /\ dn = r.n /\ D!OutLen = Cardinality(r.done) + 1
  <2>1. Same(r) /\ i = Goal(cps, r)
    BY <1>1 DEF Summed
  <2> QED BY <2>1 DEF Same, Spread, D!OutLen
<1>6. i \div D!OutLen = cps[r.pos] - r.n /\ i % D!OutLen = Place(r)
  <2> DEFINE b == Cardinality(r.done) + 1
             u == cps[r.pos] - r.n
             v == Place(r)
  <2>1. b \in Nat \ {0} /\ u \in Nat /\ v \in 0..(b - 1) /\ i \in Nat /\ i = u * b + v
    <3>1. b \in Nat \ {0} /\ v \in 0..(b - 1)
      BY <1>4
    <3> QED BY <1>4, <1>5, <3>1
  <2> HIDE DEF b, u, v
  <2>2. i \div b = u /\ i % b = v
    BY <2>1, DivisionOnce
  <2> QED BY <1>5, <2>2 DEF b, u, v
<1>7. D!NextN = cps[r.pos]
  <2>1. D!NextN = r.n + (cps[r.pos] - r.n)
    BY <1>5, <1>6 DEF D!NextN
  <2> QED BY <1>4, <2>1
<1> QED BY <1>1, <1>2, <1>3, <1>5, <1>6, <1>7 DEF Summed

LEMMA NoInsertError ==
    ASSUME NEW H, Reads(H), D!NOverflow \/ D!NotScalar
    PROVE  FALSE
<1>1. dpc = "insert"
  BY DEF D!NOverflow, D!NotScalar
<1>2. PICK r : r = H[index - 1]
  OBVIOUS
<1>3. /\ Sound(cps, r) /\ Same(r) /\ i \div D!OutLen = cps[r.pos] - dn /\ D!NextN = cps[r.pos]
  BY <1>1, <1>2, InsertPlace
<1>4. cps[r.pos] \in 0..MaxScalar /\ dn \in Nat /\ r.pos \in DOMAIN cps
  <2>1. cps[r.pos] \in 0..MaxScalar /\ r.n \in Nat /\ r.pos \in 1..Len(cps)
    BY <1>3, RecordNumbers DEF Reads, Payload
  <2> QED BY <1>3, <2>1, PayloadLayout DEF Same, Reads
<1>5. CASE D!NOverflow
  <2>1. cps[r.pos] - dn > MaxU32 - dn
    BY <1>3, <1>5 DEF D!NOverflow
  <2> QED BY <1>4, <2>1, MaxScalarRange
<1>6. CASE D!NotScalar
  <2>1. IsScalar(cps[r.pos])
    BY <1>4 DEF Reads, Payload
  <2>2. D!IsScalar(cps[r.pos])
    <3>1. MaxScalar = D!MaxScalar
      BY SMT DEF MaxScalar, D!MaxScalar
    <3> QED BY <2>1, <3>1, SMT DEF IsScalar, D!IsScalar, CodePoints, D!CodePoints
  <2> QED BY <1>3, <1>6, <2>2 DEF D!NotScalar
<1> QED BY <1>5, <1>6

LEMMA InsertFollows ==
    ASSUME NEW H, Reads(H), D!Insert, UNCHANGED vars
    PROVE  Follows(H)'
<1>1. /\ UNCHANGED <<cps, out, bias>> /\ label = out /\ dpc = "insert" /\ dpc' = "integers"
      /\ output' = D!InsertAt(output, (i % D!OutLen) + 1, D!NextN)
      /\ dn' = D!NextN /\ i' = (i % D!OutLen) + 1
      /\ UNCHANGED <<label, index, dbias>>
  BY DEF vars, Reads, Payload, D!Insert
<1>2. PICK r : r = H[index - 1]
  OBVIOUS
<1>3. /\ LiteralBytes(cps) < index - 1 /\ index - 1 \in (LiteralBytes(cps) + 1)..Len(label)
      /\ Sound(cps, r) /\ Same(r) /\ r.q < Limit(r) /\ Adapted(cps, r, dbias)
      /\ i % D!OutLen = Place(r) /\ D!NextN = cps[r.pos]
  BY <1>1, <1>2, InsertPlace
<1>4. r.done \in SUBSET (1..Len(cps)) /\ r.pos \in 1..Len(cps) /\ Len(cps) \in Nat /\ r.pos \notin r.done
      /\ DOMAIN cps = 1..Len(cps)
  BY <1>3, RecordNumbers, PayloadLayout DEF Reads, Payload, Sound
<1> DEFINE A == r.done \cup {r.pos}
<1>5. Spread(cps, output', A)
  <2>1. output \in Seq(D!CodePoints)
    BY DEF Reads, DInv, D!TypeOK
  <2>2. cps[r.pos] \in D!CodePoints
    <3>1. cps[r.pos] \in 0..MaxScalar
      BY <1>3, RecordNumbers DEF Reads, Payload
    <3>2. D!CodePoints = 0..MaxScalar
      <4>1. D!MaxScalar = MaxScalar
        BY SMT DEF D!MaxScalar, MaxScalar
      <4> QED BY <4>1 DEF D!CodePoints
    <3> QED BY <3>1, <3>2
  <2>3. output' = D!InsertAt(output, RankIn(r.done, r.pos) + 1, cps[r.pos])
    BY <1>1, <1>3 DEF Place
  <2>4. Spread(cps, output, r.done)
    BY <1>3 DEF Same
  <2> QED BY <1>4, <2>1, <2>2, <2>3, <2>4, SpreadInsert
<1>6. Between(cps, H, index - 1, A, dn', i', dbias)
  <2>1. dn' = cps[r.pos] /\ i' = Place(r) + 1
    BY <1>1, <1>3
  <2>2. index - 1 # LiteralBytes(cps)
    <3>1. LiteralBytes(cps) \in Nat
      BY PayloadLayout DEF Reads
    <3> QED BY <1>3, <3>1
  <2>3. H[index - 1].q < Limit(H[index - 1]) /\ Adapted(cps, H[index - 1], dbias)
    BY <1>2, <1>3
  <2> QED BY <1>2, <2>1, <2>2, <2>3 DEF Between
<1>7. LiteralBytes(cps) < index
  <2>1. LiteralBytes(cps) \in Nat /\ index \in Nat
    BY PayloadLayout, OutputOf DEF Reads, DInv
  <2> QED BY <1>3, <2>1
<1>8. A \in SUBSET DOMAIN cps
  BY <1>4
<1> HIDE DEF A
<1>9. /\ LiteralBytes(cps') < index'
      /\ \E B \in SUBSET DOMAIN cps' :
               Spread(cps', output', B) /\ Between(cps', H, index' - 1, B, dn', i', dbias')
  BY <1>1, <1>5, <1>6, <1>7, <1>8
<1> QED BY <1>1, <1>9 DEF Follows

(* At the end every position is done, which is the label.                  *)
LEMMA FinishFollows ==
    ASSUME NEW H, Reads(H), D!Finish, UNCHANGED vars
    PROVE  Follows(H)'
<1>1. /\ UNCHANGED <<cps, out, bias>> /\ label = out /\ dpc = "integers" /\ index > Len(label)
      /\ UNCHANGED output
      /\ output # <<>> => dpc' = "done"
      /\ output = <<>> => dpc' = "failed"
  BY DEF vars, Reads, Payload, D!Finish, D!Fail
<1>2. /\ LiteralBytes(cps) \in Nat /\ Len(label) \in Nat /\ DOMAIN cps = 1..Len(cps)
      /\ LiteralBytes(cps) <= Len(label) /\ index - 1 = Len(label)
  <2>1. index \in Nat /\ index <= Len(label) + 1 /\ Len(label) \in Nat
    BY OutputOf DEF Reads, DInv
  <2>2. index - 1 = Len(label)
    BY <1>1, <2>1
  <2> QED BY <2>2, PayloadLayout DEF Reads
<1>3. PICK A \in SUBSET DOMAIN cps :
        Spread(cps, output, A) /\ Between(cps, H, index - 1, A, dn, i, dbias)
  BY <1>1 DEF Reads, Follows
<1>4. PICK m, at \in Nat : Between(cps, H, Len(out), DOMAIN cps, m, at, bias)
  BY DEF Reads, Complete
<1>5. SoundAt(H, Len(label)) /\ TypeOK
  <2>1. ASSUME Len(label) # LiteralBytes(cps) PROVE Sound(cps, H[Len(label)])
    <3>1. Len(label) \in (LiteralBytes(cps) + 1)..Len(label)
      BY <1>2, <2>1
    <3> QED BY <3>1, DigitBytes DEF Reads
  <2> QED BY <2>1 DEF SoundAt, Reads, Payload
<1>6. A = DOMAIN cps
  <2>1. Between(cps, H, Len(label), A, dn, i, dbias)
    BY <1>2, <1>3
  <2>2. Between(cps, H, Len(label), DOMAIN cps, m, at, bias)
    BY <1>1, <1>4
  <2> QED BY <1>5, <2>1, <2>2, BetweenOnce
<1>7. output = cps
  <2>1. output \in Seq(D!CodePoints) /\ TypeOK /\ Spread(cps, output, DOMAIN cps)
    BY <1>3, <1>6 DEF Reads, DInv, D!TypeOK, Payload
  <2> QED BY <2>1, SpreadAll
<1>8. output # <<>>
  <2>1. PICK p \in DOMAIN cps : ~IsBasic(cps[p])
    BY DEF Reads, Payload, HasNonAscii
  <2>2. p \in DOMAIN output
    BY <1>7, <2>1
  <2> QED BY <2>2
<1>9. dpc' = "done" /\ output' = cps'
  BY <1>1, <1>7, <1>8
<1> QED BY <1>9 DEF Follows

LEMMA DNextFollows ==
    ASSUME NEW H, Reads(H), D!Next, UNCHANGED vars
    PROVE  Follows(H)'
<1>1. CASE D!TooLong \/ D!NoPayload \/ D!Start
  BY <1>1, StartFollows
<1>2. CASE D!CopyLiteral
  BY <1>2, CopyLiteralFollows
<1>3. CASE D!EndLiterals
  BY <1>3, EndLiteralsFollows
<1>4. CASE D!NextInteger
  BY <1>4, NextIntegerFollows
<1>5. CASE D!Truncated \/ D!NoDigit \/ D!Overflow
  BY <1>5, NoDigitError
<1>6. CASE D!TakeDigit
  BY <1>6, TakeDigitFollows
<1>7. CASE D!TakeLast
  BY <1>7, TakeLastFollows
<1>8. CASE D!AdaptLoop \/ D!EndAdapt
  BY <1>8, AdaptFollows
<1>9. CASE D!NOverflow \/ D!NotScalar
  BY <1>9, NoInsertError
<1>10. CASE D!Insert
  BY <1>10, InsertFollows
<1>11. CASE D!Finish
  BY <1>11, FinishFollows
<1> QED BY <1>1, <1>2, <1>3, <1>4, <1>5, <1>6, <1>7, <1>8, <1>9, <1>10, <1>11 DEF D!Next

-----------------------------------------------------------------------------
(* The label that is encoded leaves a trace, and the decoder follows it.   *)
InverseInv ==
    /\ LeavesTrace /\ EndsWell
    /\ first = "encode" => \A p \in DOMAIN cps : IsScalar(cps[p])
    /\ (first = "encode" /\ turn = "decode") => \E H : Reads(H)

(* While the encoder waits, what it has written stays. *)
LEMMA TraceIdle ==
    ASSUME IInv, LeavesTrace, EndsWell, UNCHANGED vars
    PROVE  LeavesTrace' /\ EndsWell' /\ UNCHANGED <<cps, out, bias>>
<1>1. [Next]_vars /\ UNCHANGED <<cps, out, bias>>
  BY DEF vars
<1> QED BY <1>1, NextLeaves, NextEndsWell

LEMMA InverseInit == ASSUME InitForth \/ InitBack PROVE InverseInv
<1>1. Entry(cps)
  BY DEF InitForth, InitBack, Init, Entry
<1>2. LeavesTrace /\ EndsWell
  <2>1. pc = "prepare"
    BY <1>1 DEF Entry
  <2> QED BY <1>1, <2>1, EntryLeaves DEF EndsWell
<1>3. CASE InitForth
  <2>1. cps \in Inputs /\ turn = "encode"
    BY <1>3 DEF InitForth, Init, Entry
  <2> QED BY <1>2, <2>1, ScalarAssumption DEF InverseInv
<1>4. CASE InitBack
  BY <1>2, <1>4 DEF InitBack, InverseInv
<1> QED BY <1>3, <1>4

(* The decoder enters at the start of what the encoder wrote.              *)
LEMMA HandOver ==
    ASSUME RInv, RInv', InverseInv, DecodeNext
    PROVE  \E H : Reads(H)'
<1>1. /\ pc = "done" /\ HasNonAscii(cps) /\ UNCHANGED <<cps, out, bias>> /\ label' = out
      /\ dpc' = "start" /\ dbias' = InitialBias
      /\ \A p \in DOMAIN cps : IsScalar(cps[p])
  BY SameOperators DEF DecodeNext, vars, RInv, D!Entry, InverseInv
<1>2. LiteralPart(cps, out)
  BY <1>1, EncodedTrace DEF RInv, InverseInv
<1>3. PICK H : /\ Traces(cps, H, out)
               /\ \E m, at \in Nat : Between(cps, H, Len(out), DOMAIN cps, m, at, bias)
  BY <1>1, EncodedTrace DEF RInv, InverseInv
<1>4. Payload'
  BY <1>1, <1>2 DEF Payload, RInv, IInv, HasNonAscii
<1>5. Traces(cps', H, out') /\ Complete(H)'
  BY <1>1, <1>3 DEF Complete
<1>6. Follows(H)'
  BY <1>1 DEF Follows
<1> QED BY <1>4, <1>5, <1>6 DEF Reads, RInv

LEMMA LabelStays == D!Next => UNCHANGED label
  BY DEF D!Next, D!TooLong, D!NoPayload, D!Start, D!CopyLiteral, D!EndLiterals, D!NextInteger,
     D!Truncated, D!NoDigit, D!Overflow, D!TakeDigit, D!TakeLast, D!AdaptLoop, D!EndAdapt,
     D!NOverflow, D!NotScalar, D!Insert, D!Finish

LEMMA ReadsOn ==
    ASSUME RInv', NEW H, Reads(H), D!Next, UNCHANGED vars
    PROVE  Reads(H)'
<1>1. UNCHANGED <<cps, out, bias, label>>
  BY LabelStays DEF vars
<1>2. Payload'
  BY <1>1 DEF Reads, Payload, RInv, IInv, HasNonAscii
<1>3. Traces(cps', H, out') /\ Complete(H)'
  BY <1>1 DEF Reads, Complete
<1> QED BY <1>2, <1>3, DNextFollows DEF Reads, RInv

LEMMA InverseNext ==
    ASSUME RInv, RInv', InverseInv, [RTNext]_rtVars
    PROVE  InverseInv'
<1>1. CASE EncodeStep
  <2>1. turn = "encode" /\ Next /\ UNCHANGED <<first, turn>>
    BY <1>1 DEF EncodeStep
  <2>2. LeavesTrace' /\ EndsWell'
    BY <2>1, NextLeaves, NextEndsWell DEF RInv, InverseInv
  <2>3. UNCHANGED cps
    BY <2>1 DEF Next, ReturnAscii, Prepare, CopyBasic, EndCopy, NextMinimum, Finish, ScanSmaller,
       ScanLarger, ScanEqual, EndScan, EmitDigit, EmitLast, AdaptLoop, EndAdapt
  <2> QED BY <2>1, <2>2, <2>3 DEF InverseInv
<1>2. CASE DecodeStep
  <2>1. turn = "decode" /\ D!Next /\ UNCHANGED vars /\ UNCHANGED <<first, turn>>
    BY <1>2 DEF DecodeStep
  <2>2. LeavesTrace' /\ EndsWell' /\ UNCHANGED <<cps, out, bias>>
    BY <2>1, TraceIdle DEF RInv, InverseInv
  <2>3. ASSUME first = "encode" PROVE \E H : Reads(H)'
    <3>1. PICK H : Reads(H)
      BY <2>1, <2>3 DEF InverseInv
    <3>2. Reads(H)'
      BY <2>1, <3>1, ReadsOn
    <3> QED BY <3>2
  <2> QED BY <2>1, <2>2, <2>3 DEF InverseInv
<1>3. CASE DecodeNext
  <2>1. UNCHANGED vars /\ UNCHANGED first
    BY <1>3 DEF DecodeNext
  <2>2. LeavesTrace' /\ EndsWell' /\ UNCHANGED <<cps, out, bias>>
    BY <2>1, TraceIdle DEF RInv, InverseInv
  <2>3. \E H : Reads(H)'
    BY <1>3, HandOver
  <2> QED BY <2>1, <2>2, <2>3 DEF InverseInv
<1>4. CASE EncodeNext
  <2>1. /\ turn' = "encode" /\ first' = "decode" /\ Entry(cps)
        /\ UNCHANGED <<pc, j, out, basicCount, handled, n, delta, bias, q, k, d, err>>
    BY <1>4 DEF EncodeNext, RInv, digitVars
  <2>2. Entry(cps)' /\ pc' = "prepare"
    BY <2>1 DEF Entry
  <2>3. LeavesTrace'
    <3>1. (Entry(cps) => LeavesTrace)'
      BY EntryLeaves, PTL
    <3> QED BY <2>2, <3>1
  <2>4. EndsWell'
    BY <2>2 DEF EndsWell
  <2> QED BY <2>1, <2>3, <2>4 DEF InverseInv
<1>5. CASE UNCHANGED rtVars
  <2>1. UNCHANGED vars /\ UNCHANGED decVars /\ UNCHANGED <<first, turn>>
    BY <1>5 DEF rtVars
  <2>2. LeavesTrace' /\ EndsWell' /\ UNCHANGED <<cps, out, bias>>
    BY <2>1, TraceIdle DEF RInv, InverseInv
  <2>3. ASSUME NEW H, Reads(H) PROVE Reads(H)'
    <3>1. Payload'
      BY <2>1, <2>2, <2>3 DEF Reads, Payload, RInv, IInv, HasNonAscii, decVars
    <3>2. Traces(cps', H, out') /\ Complete(H)'
      BY <2>2, <2>3 DEF Reads, Complete
    <3>3. Follows(H)'
      BY <2>1, <2>2, <2>3 DEF Reads, Follows, Refused, Summed, Same, decVars
    <3> QED BY <3>1, <3>2, <3>3 DEF Reads, RInv
  <2> QED BY <2>1, <2>2, <2>3 DEF InverseInv
<1> QED BY <1>1, <1>2, <1>3, <1>4, <1>5 DEF RTNext

(* Decoding what the encoder wrote gives the label back.  The encoder      *)
(* leaves a trace in which every digit byte has the state both functions   *)
(* are in; the decoder, which knows the bytes only, follows it to the end. *)
THEOREM DecodingGivesTheLabelBack == RTSpec => []DecodeInvertsEncode
<1>1. InverseInv => DecodeInvertsEncode
  BY DEF InverseInv, Reads, Follows, Refused, DecodeInvertsEncode
<1>2. InitForth \/ InitBack => InverseInv
  BY InverseInit
<1>3. RInv /\ RInv' /\ InverseInv /\ [RTNext]_rtVars => InverseInv'
  BY InverseNext
<1> QED BY <1>1, <1>2, <1>3, AlwaysRInv, PTL DEF RTSpec
=============================================================================
