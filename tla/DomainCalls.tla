----------------------------- MODULE DomainCalls ----------------------------
(* A caller of the codec who calls once and then again: with the same domain  *)
(* under another option, or with what came out of the first call. The         *)
(* properties relate the two answers.                                         *)
EXTENDS Domain

VARIABLE first   \* the calls already answered: none or one

allvars == <<vars, first>>

Answer == [transform |-> transform, strict |-> strict, backend |-> backend,
           domain |-> domain, outcome |-> outcome, result |-> Result]

CallInit == Init /\ first = {}

Run == Next /\ UNCHANGED first

Ended == outcome \notin {"called", "running"}

Again ==
    /\ Ended /\ first = {}
    /\ first' = {Answer}
    /\ \E e \in Entries : transform' = e[1] /\ backend' = e[2]
    /\ strict' \in BOOLEAN
    /\ domain' \in {domain} \cup IF outcome = "done" THEN {Result} ELSE {}
    /\ out' = <<>> /\ outcome' = "called"
    /\ UNCHANGED library

CallNext == Run \/ Again

CallSpec == CallInit /\ [][CallNext]_allvars

-----------------------------------------------------------------------------
Done == outcome = "done"
Labels(d) == {d[k] : k \in DOMAIN d}

\* Types, and a finished call has been through every label.
TypeOK ==
    /\ <<transform, backend>> \in Entries /\ strict \in BOOLEAN /\ library \in Libraries
    /\ out \in Seq(Label) /\ domain \in Seq(Label)
    /\ Done => Len(out) = Len(Core(domain))
    /\ outcome \in {"called", "running", "done", "looks_like_url", "domain_empty", "domain_too_long",
                    "domain_empty_label", "label_length_limit", "domain_label_hyphen",
                    "ascii_domain_characters", "domain_label_too_long",
                    "invalid_punycode_label", "invalid_utf8", "encoded_label_too_long"} \cup CodecError

\* What may be expected of a libidn2 that implements RFC 3492 (ADR-003). It may
\* refuse any label and accept labels the in-tree codec refuses.
\* Its encoder has no other answer than the in-tree one, ...
EncodesAlike ==
    \A l \in Label : LET e == Idn2Encode[library][l] IN
        ~About[l].ascii /\ e \in Label => e = About[l].enc
\* ... nor has its decoder where both have one, ...
DecodesAlike ==
    \A l \in Label : LET d == Idn2Decode[library][l] IN
        About[l].xn /\ {d, About[l].dec} \subseteq Label => d = About[l].dec
\* ... and what digits insert is not ASCII.
InsertsNonAscii ==
    \A l \in Label : LET d == Idn2Decode[library][l] IN
        About[l].xn /\ d \in Label /\ About[d].ascii => About[l].hyphen
Conforms == EncodesAlike /\ DecodesAlike /\ InsertsNonAscii

\* Nothing that is not ASCII leaves the encoder, and in strict mode nothing that
\* is not a letter, a digit or an inner hyphen, whatever branch a label took and
\* whatever libidn2 decodes.
EncodeGivesAscii ==
    transform = "encode" /\ Done =>
        \A l \in Labels(out) :
            /\ About[l].ascii
            /\ strict /\ EncodesAlike => About[l].ldh /\ ~About[l].hyphen

\* encode_label_libidn2 is "only dispatched for non-ASCII labels"
\* (punycoder_backend.cpp:26): true of the re-encoding of line 109 too, because
\* a payload that decodes to ASCII ends in the hyphen strict mode refused, and
\* this although libidn2 may accept what the in-tree codec does not.
ReencodesNonAscii ==
    AtClassified /\ NeedsDecoding(Now) /\ strict /\ InsertsNonAscii =>
        LET d == Decode(backend, Now) IN d \in Label => ~About[d].ascii

\* Two calls: t1 in strict mode on a domain, then t2 in either mode on what came
\* out, through whatever backends.
Then(p, t1, t2) ==
    /\ p.strict /\ p.transform = t1 /\ transform = t2
    /\ p.outcome = "done" /\ domain = p.result
    /\ Ended

\* kMaxLabelLength is the one check a label may fail after a round through the
\* codec: encoded and decoded forms have other lengths. Beyond that libidn2
\* alone may refuse what it likes.
DoneOrRefused(answer) ==
    \/ Done /\ answer
    \/ outcome = "label_length_limit"
    \/ backend = "libidn2" /\ outcome \in CodecError

\* Encoding what was encoded changes nothing, whatever libidn2 does, and is not
\* refused.
EncodeStable ==
    \A p \in first : Then(p, "encode", "encode") =>
        /\ Done => Result = domain
        /\ Conforms => DoneOrRefused(TRUE)

AsUnicode(l) == IF About[l].ascii /\ About[l].xn THEN About[l].dec ELSE l
AsAscii(l)   == IF About[l].ascii THEN l ELSE About[l].enc
Each(f(_), d) == [k \in DOMAIN d |-> f(d[k])]

\* puny_decode "is the inverse of puny_encode" (R/punycoder.R:46): the Unicode
\* form of the first domain comes back, when one codec encoded it and the other
\* decodes it too.
DecodeInvertsEncode ==
    \A p \in first : Then(p, "encode", "decode") /\ Conforms =>
        DoneOrRefused(Result = Each(AsUnicode, p.domain))

SameLabel(a, b) == a = b \/ (About[a].xn /\ About[b].xn /\ About[a].payload = About[b].payload)

\* An A-label strict mode decodes is the only spelling of its Unicode form, but
\* for the case of its prefix (punycoder_domain.cpp:103), whatever libidn2 makes
\* of it: it need not decode as the in-tree codec does. The form may be one
\* strict mode does not take: the hyphens of classify_label are looked for in
\* the A-label alone, so "xn----eha" is decoded to the U-label "-\u00fc".
EncodeInvertsDecode ==
    \A p \in first : Then(p, "decode", "encode") /\ EncodesAlike /\ InsertsNonAscii =>
        \/ DoneOrRefused(\A k \in DOMAIN domain : SameLabel(Result[k], AsAscii(p.domain[k])))
        \/ /\ outcome = "domain_label_hyphen" /\ strict
           /\ \E k \in DOMAIN domain : About[domain[k]].hyphen /\ About[p.domain[k]].xn

\* Two calls on one domain.
Both(p) == p.domain = domain /\ Ended /\ p.outcome = "done"

\* What the stricter call of the two answers the milder answers too, and alike.
\* Lenient mode is milder than strict mode of the same backend, whatever libidn2
\* does. And in strict mode the in-tree codec is milder than libidn2, retried or
\* alone: what libidn2 accepts beyond it, or decodes otherwise, is caught by the
\* re-encoding, as long as the encoders agree (tests/testthat/test-backends.R:3).
Milder(p) ==
    \/ p.strict /\ ~strict /\ p.backend = backend
    \/ p.strict /\ strict /\ backend = "fallback" /\ EncodesAlike /\ InsertsNonAscii
StricterOnlyRefuses ==
    \A p \in first :
        Both(p) /\ p.transform = transform /\ Milder(p) => Done /\ Result = p.result

\* A domain validate_domain accepts can be encoded and decoded, in either mode
\* and whatever libidn2 does.
ValidMeansUsable ==
    \A p \in first :
        Both(p) /\ p.transform = "none" /\ p.strict /\ backend = "automatic"
                /\ ~LooksLikeUrl(domain)
            => Done

-----------------------------------------------------------------------------
(* Claims of the repository the code does not keep.                          *)

\* "Encoded punycode label exceeds 63 characters" (punycoder_errors.cpp:66) is
\* the refusal of a label whose A-label is too long for the DNS.
EncodedLabelsFit ==
    transform = "none" /\ strict /\ Done =>
        \A l \in Labels(out) : About[AsAscii(l)].size <= MaxDnsLabel

\* "Domain name too long (max 253 characters)" (punycoder_errors.cpp:53): what
\* a caller encodes after validation is no longer than that.
EncodedDomainFits ==
    transform = "none" /\ strict /\ Done => SizeOf(Each(AsAscii, out)) <= MaxDnsDomain
=============================================================================
