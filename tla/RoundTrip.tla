----------------------------- MODULE RoundTrip ------------------------------
(***************************************************************************)
(* One label taken through both directions.  Forth: the encoder, then the  *)
(* decoder on what it wrote.  Back: the decoder, then the encoder on what  *)
(* it found, which is how plan_label_transform checks in strict mode that  *)
(* an A-label is the canonical one (src/src/punycoder_domain.cpp, 108-131).*)
(***************************************************************************)
EXTENDS Encoder, DecoderInput

(* What the decoder gives the encoder, which is shorter than what it read, *)
(* keeps delta in 64 bits, and so does the weight of one digit more:       *)
(* 36 * 1114113 * 1024 with the real base and cap.                         *)
ASSUME CapAssumption == Base * ((MaxScalar + 2) * MaxLabelLength) <= MaxU64

(* A caller's label comes from the UTF-8 decoder, which gives no surrogate. *)
ASSUME ScalarAssumption == \A s \in Inputs : \A p \in DOMAIN s : IsScalar(s[p])

VARIABLES label, dpc, index, output, dn, i, dbias, oldi, w, dk, dd, derr,
          first,    \* the direction that runs first
          turn      \* the one that runs now

D == INSTANCE Decoder WITH pc <- dpc, n <- dn, bias <- dbias,
                           k <- dk, d <- dd, err <- derr

decVars == <<label, dpc, index, output, dn, i, dbias, oldi, w, dk, dd, derr>>
rtVars == <<vars, decVars, first, turn>>

InitForth == /\ first = "encode" /\ turn = "encode"
             /\ Init /\ D!Entry(<<>>)

InitBack == /\ first = "decode" /\ turn = "decode"
            /\ Entry(<<>>) /\ D!Init

EncodeStep == turn = "encode" /\ Next /\ UNCHANGED <<decVars, first, turn>>

DecodeStep == turn = "decode" /\ D!Next /\ UNCHANGED <<vars, first, turn>>

(* Only a label that was given the prefix is decoded.  The callee waits   *)
(* in the state its call starts from, but for the argument.                *)
DecodeNext == /\ turn = "encode" /\ first = "encode"
              /\ pc = "done" /\ HasNonAscii(cps)
              /\ turn' = "decode" /\ label' = out
              /\ UNCHANGED <<vars, first, dpc, index, output, dn, i, dbias, oldi, w, dk, dd, derr>>

EncodeNext == /\ turn = "decode" /\ first = "decode"
              /\ dpc = "done"
              /\ turn' = "encode" /\ cps' = output
              /\ UNCHANGED <<decVars, first, pc, j, out, basicCount, handled, n, delta, bias, digitVars, err>>

RTNext == EncodeStep \/ DecodeStep \/ DecodeNext \/ EncodeNext

(* Each function runs to its end once it is called. *)
RTSpec == /\ InitForth \/ InitBack
          /\ [][RTNext]_rtVars
          /\ WF_rtVars(RTNext)

-----------------------------------------------------------------------------
(* Both functions return, whatever they are given: every scan of the       *)
(* encoder writes a code point (line 140), every integer of the decoder    *)
(* consumes a byte (line 245), every adapt() divides delta to the end.     *)
Terminates == <>(IF turn = "encode" THEN pc \in {"done", "failed"}
                                        /\ (first = "encode" => ~HasNonAscii(cps))
                                   ELSE /\ dpc \in {"done", "failed"}
                                        /\ (first = "decode" => dpc = "failed"))

(* Decoding what the encoder wrote gives the label back, code point by     *)
(* code point, and is refused for two reasons only: the label has a basic  *)
(* code point that is no letter, digit or hyphen, which the encoder copies *)
(* (line 126) and the decoder does not accept (line 229); or the payload   *)
(* is over the decoder's limit (line 203), which the encoder has not.      *)
DecodeInvertsEncode ==
    (first = "encode" /\ turn = "decode") =>
        /\ dpc = "done" => output = cps
        /\ dpc = "failed" =>
             \/ /\ derr = "invalid_basic_code_point"
                /\ \E p \in DOMAIN cps : IsBasic(cps[p]) /\ ~IsLDH(cps[p])
             \/ derr = "label_length_limit" /\ Len(out) + 4 > MaxLabelLength

Lower(c) == IF c \in 65..90 THEN c + 32 ELSE c

(* The payload with the letters of its integers in lower case, and without *)
(* a delimiter that nothing precedes.                                      *)
Canonical(l) ==
    LET cut     == SelectLastInSeq(l, LAMBDA c : c = Delimiter)
        lowered == [p \in DOMAIN l |-> IF p <= cut THEN l[p] ELSE Lower(l[p])]
    IN  IF cut = 1 THEN Tail(lowered) ELSE lowered

(* A payload that decodes to a label with a non-ASCII code point is the    *)
(* one the encoder writes for it, up to the case of its digits and to a    *)
(* delimiter in front of no literals ("xn---a" and "xn--a" are both U+0080)*)
(* A label has one encoding but for these, which is what the strict check  *)
(* of plan_label_transform refuses, along with encodings of ASCII labels.  *)
EncodeInvertsDecode ==
    (first = "decode" /\ turn = "encode" /\ pc = "done" /\ HasNonAscii(cps)) =>
        out = Canonical(label)

Basics(s) == {p \in DOMAIN s : IsBasic(s[p])}
Rank(s, p) == Cardinality({r \in Basics(s) : r <= p})

(* The basic code points of the output are the literal bytes, in order,    *)
(* and nothing else: no integer of the payload can stand for an ASCII code *)
(* point, a surrogate or a number past 0x10FFFF, whatever the digits are.  *)
BasicsAreLiterals ==
    /\ \A p \in DOMAIN output : IsScalar(output[p])
    /\ dpc \in {"integers", "digits", "adapt", "insert", "done"} =>
         /\ Cardinality(Basics(output)) = Cardinality(D!Literals)
         /\ \A p \in Basics(output) : output[p] = label[Rank(output, p)]

(* What Decoder says, of the bytes of a caller and of those of the encoder: *)
(* no variable leaves its C++ type, the literals are the basic code points *)
(* of the output and no digits stand for another one; adapt() is told      *)
(* right of the first integer; and insertions only move forward.           *)
DecoderStaysInRange == D!TypeOK /\ BasicsAreLiterals
FirstTimeIsFirst == D!FirstTimeIsFirst
InsertsInOrder == D!InsertsInOrder
=============================================================================
