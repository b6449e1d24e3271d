---------------------------- MODULE DecoderInput ----------------------------
(* What punycode_decode_label_fallback is given: bytes, and the cap on them. *)
EXTENDS Bootstring

CONSTANTS Payloads,         \* the labels, without their "xn--"
          MaxLabelLength    \* kMaxLabelLength, which counts the "xn--"

ASSUME PayloadAssumption ==
    /\ \A s \in Payloads : s \in Seq(0..255)
    /\ MaxLabelLength \in 4..MaxU64
=============================================================================
