------------------------------- MODULE Domain -------------------------------
(* One domain through PunycodeService and validate_domain                     *)
(* (punycoder_domain.cpp, punycoder_service.cpp). A domain is the sequence of *)
(* its labels, the empty string being <<Empty>> and a trailing dot a last     *)
(* Empty, so splitting and joining on dots is the identity. What a label is   *)
(* made of is a table; what the in-tree codec makes of it is what the modules *)
(* Encoder and Decoder compute. libidn2 is external: any function of the      *)
(* label, the same for every call, that may differ from the in-tree codec     *)
(* anywhere; a build without it is one whose libidn2 refuses every label.     *)
EXTENDS Integers, Sequences, SequencesExt, FiniteSetsExt

CONSTANTS Label, Empty,     \* labels, as UTF-8 byte strings
          Domains,          \* the domains given
          About,            \* what the code reads off a label, see AboutType
          CodecError,       \* errors of the codecs and of utf8_to_codepoints
          Libraries,        \* the behaviours of libidn2 considered, and what the two
          Idn2Encode,       \* adapters of punycoder_backend.cpp make of a label with
          Idn2Decode,       \* each: library -> label -> label or error
          MaxLabelLength,   \* kMaxLabelLength
          MaxDnsLabel,      \* 63
          MaxDnsDomain      \* 253

AboutType ==
    [size    : Nat,                \* bytes
     ascii   : BOOLEAN,            \* no byte of 0x80 or more
     ldh     : BOOLEAN,            \* its ASCII bytes are letters, digits and '-'
     hyphen  : BOOLEAN,            \* begins or ends with '-'
     xn      : BOOLEAN,            \* begins with xn-- in either case
     payload : STRING,             \* what follows xn--, in its case
     upper   : BOOLEAN,            \* there is a capital in it
     marker  : BOOLEAN,            \* holds one of / ? # @
     colon   : BOOLEAN,            \* holds a ':'
     scheme  : BOOLEAN,            \* letters, digits, '+' and '-' up to the first ':' or the end
     letter  : BOOLEAN,            \* begins with an ASCII letter
     wellFormed : BOOLEAN,         \* UTF-8
     enc : Label \cup CodecError,  \* punycode_encode_label_fallback
     dec : Label \cup CodecError]  \* punycode_decode_label_fallback

ASSUMPTION LabelAssumption ==
    /\ Empty \in Label /\ Label \cap CodecError = {}
    /\ CodecError \cap {"called", "running", "done"} = {}
    /\ About \in [Label -> AboutType]
    /\ Domains \subseteq Seq(Label) \ {<<>>}
    /\ MaxLabelLength \in Nat /\ MaxDnsLabel \in Nat /\ MaxDnsDomain \in Nat

\* All of it is read off the same bytes: / ? # @ and ':' are no letter, digit or
\* hyphen, xn-- is four bytes, and labels that begin with it and go on alike
\* differ in the case of the prefix alone.
ASSUMPTION BytesAssumption ==
    /\ About[Empty].size = 0 /\ About[Empty].ascii /\ About[Empty].ldh
    /\ \A l \in Label :
          /\ About[l].size = 0 => l = Empty
          /\ About[l].xn => About[l].size >= 4
          /\ About[l].ldh => ~About[l].marker /\ ~About[l].colon
    /\ \A k, l \in Label :
          About[k].xn /\ About[l].xn /\ About[k].payload = About[l].payload =>
             /\ About[k].size = About[l].size /\ About[k].ldh = About[l].ldh
             /\ About[k].dec = About[l].dec

\* What RoundTrip shows of the codec.
ASSUMPTION CodecAssumption ==
    \A l \in Label :
        LET a == About[l] IN
        /\ a.ascii => a.wellFormed /\ (l # Empty => a.enc = l)
        /\ ~a.wellFormed => a.enc \in CodecError
        /\ ~a.ascii /\ a.wellFormed =>
              /\ a.enc \in Label
              /\ About[a.enc].ascii /\ About[a.enc].xn
              /\ About[a.enc].ldh = a.ldh
              /\ About[a.enc].hyphen = FALSE
              /\ a.ldh /\ About[a.enc].size <= MaxLabelLength => About[a.enc].dec = l
        /\ a.xn /\ a.dec \in Label =>
              /\ a.dec # Empty
              /\ About[a.dec].wellFormed /\ About[a.dec].ldh
              /\ About[a.dec].ascii => a.hyphen    \* no digits follow the delimiter

\* What the adapters see to before and after libidn2: input that is not UTF-8
\* and an empty payload are refused, and an encoded label has the prefix put
\* before what libidn2 wrote. That this is ASCII is what is trusted of libidn2.
ASSUMPTION LibraryAssumption ==
    \A b \in Libraries :
        /\ Idn2Encode[b] \in [Label -> Label \cup CodecError]
        /\ Idn2Decode[b] \in [Label -> Label \cup CodecError]
        /\ \A l \in Label :
              LET e == Idn2Encode[b][l] IN
              /\ ~About[l].wellFormed => e \in CodecError
              /\ ~About[l].ascii /\ e \in Label => About[e].ascii /\ About[e].xn
              /\ About[l].xn /\ About[l].payload = "" => Idn2Decode[b][l] \in CodecError

VARIABLES transform,   \* "encode" (puny_encode), "decode" (puny_decode), "none" (validate_domain)
          strict,
          backend,     \* "automatic", or one of the two compare_backends_cpp compares
          library,     \* what libidn2 there is
          domain,
          out,         \* the labels of ParsedDomain, resolved
          outcome      \* "called", "running", "done", or the ErrorCode thrown

vars == <<transform, strict, backend, library, domain, out, outcome>>
args == <<transform, strict, backend, library, domain>>

\* Only validate_domain_cpp asks for DNS lengths.
VerifyDns == transform = "none"

HasTrailingDot(d) == Len(d) > 1 /\ Last(d) = Empty
Core(d) == IF HasTrailingDot(d) THEN Front(d) ELSE d
SizeOf(d) == Len(d) - 1 + FoldSeq(LAMBDA l, s : About[l].size + s, 0, d)

\* The first check that fails decides the error.
FirstError(checks) ==
    LET failed == {c \in DOMAIN checks : checks[c][1]}
    IN  IF failed = {} THEN "none" ELSE checks[Min(failed)][2]

EdgeHyphenUnseen(a) == FALSE
EdgeHyphen(a) == a.hyphen

ClassifyError(l) ==
    LET a == About[l] IN
    FirstError(<< <<a.size = 0, "domain_empty_label">>,
                  <<a.size > MaxLabelLength, "label_length_limit">>,
                  <<strict /\ EdgeHyphen(a), "domain_label_hyphen">>,
                  <<strict /\ ~a.ldh, "ascii_domain_characters">>,
                  <<strict /\ VerifyDns /\ a.ascii /\ a.size > MaxDnsLabel, "domain_label_too_long">> >>)

LooksLikeUrl(d) ==
    \/ \E k \in DOMAIN d : About[d[k]].marker
    \/ \E k \in DOMAIN d :
          /\ About[d[k]].colon /\ \A j \in 1..(k-1) : ~About[d[j]].colon
          /\ About[d[1]].letter /\ \A j \in 1..k : About[d[j]].scheme

DomainError ==
    FirstError(<< <<transform # "none" /\ backend = "automatic" /\ LooksLikeUrl(domain), "looks_like_url">>,
                  <<Core(domain) = <<Empty>>, "domain_empty">>,
                  <<strict /\ VerifyDns /\ SizeOf(Core(domain)) > MaxDnsDomain, "domain_too_long">> >>)

\* puny_encode_cpp and puny_decode_cpp, validate_domain_cpp, compare_backends_cpp.
Entries == ({"encode", "decode", "none"} \X {"automatic"}) \cup ({"encode", "decode"} \X {"fallback", "libidn2"})

Init ==
    /\ \E e \in Entries : transform = e[1] /\ backend = e[2]
    /\ strict \in BOOLEAN
    /\ library \in Libraries
    /\ domain \in Domains
    /\ out = <<>> /\ outcome = "called"

Fail(error) == outcome' = error /\ UNCHANGED <<args, out>>
Keep(l)     == out' = Append(out, l) /\ UNCHANGED <<args, outcome>>

Start ==
    /\ outcome = "called"
    /\ Fail(IF DomainError = "none" THEN "running" ELSE DomainError)

\* The label the loop of validate_and_parse_domain is at.
Now == Core(domain)[Len(out) + 1]
AtLabel == outcome = "running" /\ Len(out) < Len(Core(domain))

RefuseLabel == AtLabel /\ ClassifyError(Now) # "none" /\ Fail(ClassifyError(Now))

AtClassified == AtLabel /\ ClassifyError(Now) = "none"
NeedsDecodingIfAsked(l) == About[l].ascii /\ About[l].xn /\ transform # "none"
NeedsDecoding(l) == About[l].ascii /\ About[l].xn
NeedsEncoding(l) == ~About[l].ascii

PassAscii == AtClassified /\ ~NeedsDecoding(Now) /\ ~NeedsEncoding(Now) /\ Keep(Now)

\* What LabelBackend shows of a call that has memory: libidn2's answer if it has
\* one, and if it has none its error, or under "automatic" the in-tree answer.
Retried(b, answer, inTree) == IF answer \in CodecError /\ b = "automatic" THEN inTree ELSE answer

\* backend.encode and backend.decode.
Encode(b, l) ==
    IF b = "fallback" THEN About[l].enc
    ELSE IF About[l].ascii THEN l
    ELSE Retried(b, Idn2Encode[library][l], About[l].enc)
Decode(b, l) ==
    IF b = "fallback" \/ (b = "automatic" /\ About[l].upper) THEN About[l].dec
    ELSE Retried(b, Idn2Decode[library][l], About[l].dec)

Canonical(e, l) == About[e].xn /\ About[e].payload = About[l].payload
AcceptsAnyPayload(e, l) == e \notin CodecError
AcceptsOnError(e, l) == e \in CodecError \/ Canonical(e, l)
\* A strict A-label re-encodes to itself, but for the case of its prefix.
Accepts(e, l) == e \notin CodecError /\ Canonical(e, l)

DecodedAlways(l, d) == d
\* resolved_label takes an empty label for none.
Decoded(l, d) == IF transform = "decode" /\ d # Empty THEN d ELSE l

DecodeLabel ==
    /\ AtClassified /\ NeedsDecoding(Now)
    /\ LET d == Decode(backend, Now)
           e == Encode(backend, d)
       IN  IF d \in CodecError THEN Fail(d)
           ELSE IF ~strict THEN Keep(Decoded(Now, d))
           ELSE IF d = Empty THEN Fail("invalid_punycode_label")
           ELSE IF Accepts(e, Now) THEN Keep(Decoded(Now, d))
           ELSE Fail(IF e \in CodecError THEN e ELSE "invalid_punycode_label")

CheckOnlyLenient == ~strict
CheckOnly == transform # "encode" /\ ~strict

\* Nothing will be encoded: only the UTF-8 is checked.
CheckUtf8 ==
    /\ AtClassified /\ NeedsEncoding(Now) /\ CheckOnly
    /\ IF About[Now].wellFormed THEN Keep(Now) ELSE Fail("invalid_utf8")

EncodedTooLong(encoded) ==
    About[encoded].size - (IF About[encoded].xn THEN 4 ELSE 0) > MaxDnsLabel

EncodeLabel ==
    /\ AtClassified /\ NeedsEncoding(Now) /\ ~CheckOnly
    /\ LET e == Encode(backend, Now)
       IN  IF e \in CodecError THEN Fail(e)
           ELSE IF strict /\ VerifyDns /\ EncodedTooLong(e) THEN Fail("encoded_label_too_long")
           ELSE Keep(IF transform = "encode" THEN e ELSE Now)

FinishBeforeLast ==
    /\ outcome = "running" /\ Len(out) >= Len(Core(domain)) - 1
    /\ outcome' = "done" /\ UNCHANGED <<args, out>>
Finish ==
    /\ outcome = "running" /\ Len(out) = Len(Core(domain))
    /\ outcome' = "done" /\ UNCHANGED <<args, out>>

Next == Start \/ RefuseLabel \/ PassAscii \/ DecodeLabel \/ CheckUtf8 \/ EncodeLabel \/ Finish

ResultWithoutDot == out
\* materialize_domain: the labels joined, the trailing dot put back.
Result == IF HasTrailingDot(domain) THEN Append(out, Empty) ELSE out
=============================================================================
