----------------------------- MODULE Normalizer -----------------------------
(* Normalizer<T>::run (punycoder_normalize.cpp): one host through the stages  *)
(* of the UTS #46 profile, label by label where the code goes label by label. *)
(* The codec is the pair of tables Encoded and Decoded; Encoder and Decoder   *)
(* model how they are computed.                                               *)
EXTENDS Nfc

CONSTANTS Hosts,             \* the hosts given: code points, or IllFormed
          IllFormed,         \* a host that is not well-formed UTF-8
          Options,           \* the NormalizeOptions given
          Encoded, Decoded,  \* U-label -> A-label and back, where the codec does not throw
          MaxLabelLength,    \* octets of the longest A-label the decoder takes
          kMaxLabelOctets, kMaxHostOctets

kFullStop == 46
kHyphen == 45
kZwnj == 8204
kZwj == 8205
kVirama == 9

ASSUME OptionsAssumption ==
    Options \subseteq [check_hyphens : BOOLEAN, use_std3 : BOOLEAN, verify_dns_length : BOOLEAN]

VARIABLES host, opts, stage,
          cps,         \* what is left of the host to work on
          had_root,
          labels,      \* the LabelWork of each label resolved
          out_labels,  \* the A-label of each label finalized
          result

vars == <<host, opts, stage, cps, had_root, labels, out_labels, result>>
work == <<cps, had_root, labels, out_labels>>

Init ==
    /\ host \in Hosts /\ opts \in Options
    /\ stage = "utf8" /\ cps = <<>> /\ had_root = FALSE
    /\ labels = <<>> /\ out_labels = <<>>
    /\ result = [valid |-> FALSE, value |-> <<>>]

-----------------------------------------------------------------------------
Ascii(l) == \A k \in DOMAIN l : l[k] < 128
Prefix == <<120, 110, kHyphen, kHyphen>>   \* xn--
has_ace_prefix(l) == Len(l) >= 4 /\ SubSeq(l, 1, 4) = Prefix

\* The codec's answer for a label, or none where it throws.
Decode(l) == IF Len(l) <= MaxLabelLength /\ l \in DOMAIN Decoded THEN {Decoded[l]} ELSE {}
Encode(l) == IF Ascii(l) THEN {l} ELSE IF l \in DOMAIN Encoded THEN {Encoded[l]} ELSE {}

Disallowed(cp) ==
    \/ idna_lookup(cp).status = "disallowed"
    \/ opts.use_std3 /\ idna_lookup(cp).status \in {"disallowed_std3_valid", "disallowed_std3_mapped"}

Mapped(cp) ==
    LET entry == idna_lookup(cp)
    IN  IF entry.status \in {"mapped", "disallowed_std3_mapped"} THEN entry.map
        ELSE IF entry.status = "ignored" THEN <<>> ELSE <<cp>>

\* The nearest character on one side that is not transparent, if there is one.
JoinsLeft(l, i) ==
    LET j == Max({0} \cup {k \in 1 .. i - 1 : joining_type(l[k]) # "T"})
    IN  j > 0 /\ joining_type(l[j]) \in {"L", "D"}
JoinsRight(l, i) ==
    LET j == Min({Len(l) + 1} \cup {k \in i + 1 .. Len(l) : joining_type(l[k]) # "T"})
    IN  j <= Len(l) /\ joining_type(l[j]) \in {"R", "D"}

check_joiners(l) ==
    \A i \in DOMAIN l :
        LET virama_before == i > 1 /\ combining_class(l[i - 1]) = kVirama
        IN  /\ l[i] = kZwj => virama_before
            /\ l[i] = kZwnj => virama_before \/ (JoinsLeft(l, i) /\ JoinsRight(l, i))

check_bidi(l) ==
    LET class(i) == bidi_class(l[i])
        last_strong == Max({1} \cup {i \in DOMAIN l : class(i) # "NSM"})
        has(c) == \E i \in DOMAIN l : class(i) = c
        neutral == {"EN", "ES", "CS", "ET", "ON", "BN", "NSM"}
    IN  /\ l # <<>>
        /\ \/ /\ class(1) \in {"R", "AL"}
              /\ \A i \in DOMAIN l : class(i) \in {"R", "AL", "AN"} \cup neutral
              /\ ~(has("EN") /\ has("AN"))
              /\ class(last_strong) \in {"R", "AL", "EN", "AN"}
           \/ /\ class(1) = "L"
              /\ \A i \in DOMAIN l : class(i) \in {"L"} \cup neutral
              /\ class(last_strong) \in {"L", "EN"}

Ldh(cp) == cp \in 97 .. 122 \/ cp \in 48 .. 57 \/ cp = kHyphen

HyphensOk(l) ==
    /\ ~(Len(l) >= 4 /\ l[3] = kHyphen /\ l[4] = kHyphen)
    /\ Head(l) # kHyphen /\ Last(l) # kHyphen

validate_label(l, from_alabel) ==
    /\ l # <<>>
    /\ from_alabel => nfc(l) = l
    /\ ~is_combining_mark(Head(l))
    /\ opts.check_hyphens => HyphensOk(l)
    /\ \A i \in DOMAIN l :
        IF l[i] < 128 THEN opts.use_std3 => Ldh(l[i])
        ELSE from_alabel => idna_lookup(l[i]).status \in {"valid", "deviation"}
    /\ check_joiners(l)

-----------------------------------------------------------------------------
\* What the generator puts into the mapping: what a code point that is not refused
\* maps to has no capital left, and ASCII but for the capitals maps to itself.
ASSUME MappingAssumption ==
    /\ \A cp \in DOMAIN IDNA : IDNA[cp].status # "disallowed" => Mapped(cp) \in Seq(Settled)
    /\ \A cp \in 0 .. 127 \ 65 .. 90 :
        idna_lookup(cp).status \notin {"mapped", "disallowed_std3_mapped", "ignored"}
    /\ idna_lookup(kFullStop).status = "valid"

\* What the codec writes: ASCII, in which everything that is not a letter, a digit
\* or a hyphen is a literal of the label.
ASSUME CodecAssumption ==
    /\ \A h \in Hosts : h = IllFormed \/ h \in Seq(Nat)
    /\ \A a \in DOMAIN Decoded : Decoded[a] \in Seq(Nat)
    /\ \A u \in DOMAIN Encoded :
        /\ Encoded[u] \in Seq(0 .. 127)
        /\ \A k \in DOMAIN Encoded[u] :
            Ldh(Encoded[u][k]) \/ \E j \in DOMAIN u : u[j] = Encoded[u][k]
    /\ kMaxLabelOctets \in Nat /\ kMaxHostOctets \in Nat
-----------------------------------------------------------------------------
StrongRtl(l) == \E i \in DOMAIN l : bidi_class(l[i]) \in {"R", "AL", "AN"}

\* Bug: only the labels given as Unicode are looked at.
BidiDomainAsGiven(works) == \E k \in DOMAIN works : ~works[k].from_alabel /\ StrongRtl(works[k].cps)
BidiDomain(works) == \E k \in DOMAIN works : StrongRtl(works[k].cps)

\* Bug: an empty label is validated like any other.
PassesEmptyNever(w) == FALSE
PassesEmpty(w) == ~w.from_alabel /\ w.cps = <<>>

\* The canonical A-label of a label, or none.
finalize_label(w) ==
    IF PassesEmpty(w) THEN {<<>>}
    ELSE IF ~validate_label(w.cps, w.from_alabel) \/ (BidiDomain(labels) /\ ~check_bidi(w.cps)) THEN {}
    ELSE IF w.from_alabel THEN Encode(w.cps) \cap {w.alabel}
    ELSE Encode(w.cps)
-----------------------------------------------------------------------------
Stage(from, to) == stage = from /\ stage' = to /\ UNCHANGED <<host, opts, result>>

\* return invalid() from a stage.
Refuse(from) == stage = from /\ stage' = "done" /\ UNCHANGED <<host, opts, work, result>>

RefuseBytes == host = IllFormed /\ Refuse("utf8")
DecodeBytes == /\ host # IllFormed /\ Stage("utf8", "root")
               /\ cps' = host /\ UNCHANGED <<had_root, labels, out_labels>>

EndsInDot(s) == s # <<>> /\ Last(s) = kFullStop
Rest == IF EndsInDot(cps) THEN Front(cps) ELSE cps
RefuseRoot ==
    /\ opts.verify_dns_length
    /\ Rest = <<>> \/ (EndsInDot(cps) /\ EndsInDot(Rest))
    /\ Refuse("root")
CaptureRoot ==
    /\ opts.verify_dns_length
    /\ Rest # <<>> /\ ~(EndsInDot(cps) /\ EndsInDot(Rest))
    /\ Stage("root", "map")
    /\ had_root' = EndsInDot(cps) /\ cps' = Rest /\ UNCHANGED <<labels, out_labels>>
KeepRoot == ~opts.verify_dns_length /\ Stage("root", "map") /\ UNCHANGED work

RefuseMapping == (\E k \in DOMAIN cps : Disallowed(cps[k])) /\ Refuse("map")
map_codepoints ==
    /\ \A k \in DOMAIN cps : ~Disallowed(cps[k])
    /\ Stage("map", "nfc")
    /\ cps' = FoldLeft(LAMBDA out, cp : out \o Mapped(cp), <<>>, cps)
    /\ UNCHANGED <<had_root, labels, out_labels>>

\* Bug: the host is split as it was mapped.
NormalizedNot(s) == s
Normalized(s) == nfc(s)
Normalize == /\ Stage("nfc", "resolve") /\ cps' = Normalized(cps)
             /\ UNCHANGED <<had_root, labels, out_labels>>

\* The next label, and whether a separator follows it.
NextStop == Min({Len(cps) + 1} \cup {k \in DOMAIN cps : cps[k] = kFullStop})
Piece == SubSeq(cps, 1, NextStop - 1)
Resolved ==
    IF has_ace_prefix(Piece)
    THEN {[cps |-> u, from_alabel |-> TRUE, alabel |-> Piece] : u \in Decode(Piece)}
    ELSE {[cps |-> Piece, from_alabel |-> FALSE, alabel |-> <<>>]}

RefuseLabel == Resolved = {} /\ Refuse("resolve")
resolve_label ==
    /\ Stage("resolve", IF NextStop <= Len(cps) THEN "resolve" ELSE "finalize")
    /\ \E w \in Resolved : labels' = Append(labels, w)
    /\ cps' = SubSeq(cps, NextStop + 1, Len(cps))
    /\ UNCHANGED <<had_root, out_labels>>

Current == labels[Len(out_labels) + 1]
RefuseInvalid == stage = "finalize" /\ finalize_label(Current) = {} /\ Refuse("finalize")
Finalize ==
    /\ Stage("finalize", IF Len(out_labels) + 1 < Len(labels) THEN "finalize" ELSE "length")
    /\ \E a \in finalize_label(Current) : out_labels' = Append(out_labels, a)
    /\ UNCHANGED <<cps, had_root, labels>>

\* Bug: the separating dots are not counted.
TotalOfLabels(ls) == FoldLeft(LAMBDA n, l : n + Len(l), 0, ls)
Total(ls) == FoldLeft(LAMBDA n, l : n + Len(l), Len(ls) - 1, ls)
TooLong ==
    /\ opts.verify_dns_length
    /\ \/ \E k \in DOMAIN out_labels : Len(out_labels[k]) \notin 1 .. kMaxLabelOctets
       \/ Total(out_labels) > kMaxHostOctets
RefuseLength == TooLong /\ Refuse("length")

\* Bug: the root dot that was taken off is not put back.
JoinedBare(ls, root) == FoldLeft(LAMBDA s, l : s \o <<kFullStop>> \o l, Head(ls), Tail(ls))
Joined(ls, root) ==
    FoldLeft(LAMBDA s, l : s \o <<kFullStop>> \o l, Head(ls), Tail(ls))
        \o (IF root THEN <<kFullStop>> ELSE <<>>)
Reassemble ==
    /\ stage = "length" /\ ~TooLong /\ stage' = "done"
    /\ result' = [valid |-> TRUE, value |-> Joined(out_labels, had_root)]
    /\ UNCHANGED <<host, opts, work>>

Next ==
    \/ RefuseBytes \/ DecodeBytes \/ RefuseRoot \/ CaptureRoot \/ KeepRoot
    \/ RefuseMapping \/ map_codepoints \/ Normalize \/ RefuseLabel \/ resolve_label
    \/ RefuseInvalid \/ Finalize \/ RefuseLength \/ Reassemble

Spec == Init /\ [][Next]_vars
-----------------------------------------------------------------------------
\* Types, and what a caller may rely on without knowing the flags' history: the
\* answer is ASCII without capitals, under use_std3 letters, digits, hyphens and
\* dots, and under verify_dns_length within the limits of the DNS.
TypeOK ==
    /\ opts \in Options /\ had_root \in BOOLEAN
    /\ stage \in {"utf8", "root", "map", "nfc", "resolve", "finalize", "length", "done"}
    /\ Len(out_labels) <= Len(labels)
    /\ result.valid =>
        /\ \A k \in DOMAIN result.value :
            /\ result.value[k] < 128 /\ result.value[k] \notin 65 .. 90
            /\ opts.use_std3 => Ldh(result.value[k]) \/ result.value[k] = kFullStop
        /\ opts.verify_dns_length =>
            Len(result.value) \in 1 .. kMaxHostOctets + (IF had_root THEN 1 ELSE 0)

\* host_normalize_one implements the ToASCII operation of UTS #46 but for the
\* departures the project pins: whatever it skips, splits, decodes early or tests
\* in its own order, the answer is the one the standard's declarative criteria
\* give, for every flag, and a departure changes it only under the flags Uts46
\* names. Under the full profile the root dot is the only one.
U == INSTANCE Uts46 WITH answer <- IF stage = "done" THEN {result} ELSE {}
ImplementsUts46 == U!Spec

-----------------------------------------------------------------------------
(* A claim of the repository the code does not keep.                         *)

\* validate_label checks the "criteria V1-V6" (punycoder_normalize.cpp:231):
\* no label of a host that is accepted fails a criterion of the standard.
LabelsMeetCriteria ==
    stage = "done" /\ result.valid =>
        \A k \in DOMAIN labels : labels[k].cps = <<>> \/ U!Valid(labels[k].cps, opts, {})
=============================================================================
