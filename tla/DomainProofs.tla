---------------------------- MODULE DomainProofs ----------------------------
(* What every call of the pipeline keeps to, for every table of labels the    *)
(* in-tree codec allows, every libidn2, domains of any length and any         *)
(* sequence of two calls.                                                     *)
EXTENDS DomainCalls, SequenceTheorems, TLAPS

\* Either no check fails, or the error is that of one that does.
LEMMA FirstErrorCases ==
    ASSUME NEW checks, DOMAIN checks \subseteq 1..5
    PROVE  \/ FirstError(checks) = "none" /\ \A c \in DOMAIN checks : ~checks[c][1]
           \/ \E c \in DOMAIN checks : checks[c][1] /\ FirstError(checks) = checks[c][2]
<1> DEFINE failed == {c \in DOMAIN checks : checks[c][1]}
<1>1. CASE failed = {}
  BY <1>1 DEF FirstError
<1>2. CASE failed # {}
  <2>1. \E m \in failed : \A c \in failed : m <= c
    BY <1>2
  <2>2. Min(failed) \in failed
    BY <2>1 DEF Min
  <2> QED BY <1>2, <2>2 DEF FirstError
<1> QED BY <1>1, <1>2

LEMMA EdgeHyphenIsHyphen == \A a : EdgeHyphen(a) = a.hyphen
BY DEF EdgeHyphen

ClassifyCodes == {"domain_empty_label", "label_length_limit", "domain_label_hyphen",
                  "ascii_domain_characters", "domain_label_too_long"}

\* A classified label passed every check, in strict mode those of its characters too.
LEMMA Classified ==
    ASSUME NEW l
    PROVE  /\ ClassifyError(l) \in ClassifyCodes \cup {"none"}
           /\ ClassifyError(l) = "none" /\ strict => ~About[l].hyphen /\ About[l].ldh
<1> DEFINE a == About[l]
           checks == << <<a.size = 0, "domain_empty_label">>,
                        <<a.size > MaxLabelLength, "label_length_limit">>,
                        <<strict /\ EdgeHyphen(a), "domain_label_hyphen">>,
                        <<strict /\ ~a.ldh, "ascii_domain_characters">>,
                        <<strict /\ VerifyDns /\ a.ascii /\ a.size > MaxDnsLabel, "domain_label_too_long">> >>
<1>1. DOMAIN checks = 1..5
  OBVIOUS
<1>2. ClassifyError(l) = FirstError(checks)
  BY DEF ClassifyError
<1>3. \A c \in 1..5 : checks[c][2] \in ClassifyCodes
  BY DEF ClassifyCodes
<1>4. "none" \notin ClassifyCodes
  BY DEF ClassifyCodes
<1>5. /\ ~checks[3][1] => ~(strict /\ a.hyphen)
      /\ ~checks[4][1] => ~(strict /\ ~a.ldh)
  BY EdgeHyphenIsHyphen
<1> HIDE DEF checks
<1>6. ClassifyError(l) = "none" => ~checks[3][1] /\ ~checks[4][1]
  <2> SUFFICES ASSUME FirstError(checks) = "none" PROVE \A c \in 1..5 : ~checks[c][1]
    BY <1>1, <1>2
  <2> QED BY <1>1, <1>3, <1>4, FirstErrorCases
<1>7. ClassifyError(l) \in ClassifyCodes \cup {"none"}
  BY <1>1, <1>2, <1>3, FirstErrorCases
<1> QED BY <1>5, <1>6, <1>7 DEF checks

DomainCodes == {"looks_like_url", "domain_empty", "domain_too_long"}

LEMMA DomainErrorCodes == DomainError \in DomainCodes \cup {"none"}
<1> DEFINE checks ==
        << <<transform # "none" /\ backend = "automatic" /\ LooksLikeUrl(domain), "looks_like_url">>,
           <<Core(domain) = <<Empty>>, "domain_empty">>,
           <<strict /\ VerifyDns /\ SizeOf(Core(domain)) > MaxDnsDomain, "domain_too_long">> >>
<1>1. DOMAIN checks = 1..3 /\ \A c \in 1..3 : checks[c][2] \in DomainCodes
  BY DEF DomainCodes
<1>2. DomainError = FirstError(checks)
  BY DEF DomainError
<1> QED BY <1>1, <1>2, FirstErrorCases

\* Taking a trailing dot off leaves a domain, of labels the domain had.
LEMMA CoreType ==
    ASSUME NEW d \in Seq(Label), d # <<>>
    PROVE  /\ Core(d) \in Seq(Label) /\ Len(Core(d)) \in Nat \ {0}
           /\ Len(Core(d)) = IF HasTrailingDot(d) THEN Len(d) - 1 ELSE Len(d)
<1>1. Len(d) \in Nat \ {0}
  BY EmptySeq
<1>2. HasTrailingDot(d) => Front(d) \in Seq(Label) /\ Len(Front(d)) = Len(d) - 1
  BY <1>1, SubSeqProperties DEF Front, HasTrailingDot
<1> QED BY <1>1, <1>2 DEF Core, HasTrailingDot

Types ==
    /\ <<transform, backend>> \in Entries /\ strict \in BOOLEAN /\ library \in Libraries
    /\ domain \in Seq(Label) /\ domain # <<>>
    /\ out \in Seq(Label) /\ Len(out) <= Len(Core(domain))
    /\ outcome \in {"called", "running", "done", "looks_like_url", "domain_empty", "domain_too_long",
                    "domain_empty_label", "label_length_limit", "domain_label_hyphen",
                    "ascii_domain_characters", "domain_label_too_long",
                    "invalid_punycode_label", "invalid_utf8", "encoded_label_too_long"} \cup CodecError
    /\ Done => Len(out) = Len(Core(domain))

\* What an encoded label is.
Encoded(l) == About[l].ascii /\ (strict /\ EncodesAlike => About[l].ldh /\ ~About[l].hyphen)

IInv == Types /\ (transform = "encode" => \A p \in DOMAIN out : Encoded(out[p]))

-----------------------------------------------------------------------------
(* The backends, label by label.                                             *)

Backends == {"automatic", "fallback", "libidn2"}

LEMMA TableType == \A l \in Label : About[l] \in AboutType
BY LabelAssumption

LEMMA BackendType ==
    ASSUME library \in Libraries, NEW b \in Backends, NEW l \in Label
    PROVE  Encode(b, l) \in Label \cup CodecError /\ Decode(b, l) \in Label \cup CodecError
<1>1. /\ About[l].enc \in Label \cup CodecError /\ About[l].dec \in Label \cup CodecError
      /\ Idn2Encode[library][l] \in Label \cup CodecError
      /\ Idn2Decode[library][l] \in Label \cup CodecError
  BY TableType, LibraryAssumption DEF AboutType
<1> QED BY <1>1 DEF Encode, Decode, Retried, Backends

\* What is encoded is ASCII, and if the encoders agree it is the in-tree A-label.
LEMMA EncodedIsAscii ==
    ASSUME library \in Libraries, NEW b \in Backends, NEW l \in Label,
           ~About[l].ascii, Encode(b, l) \notin CodecError
    PROVE  /\ Encode(b, l) \in Label /\ About[Encode(b, l)].ascii /\ About[Encode(b, l)].xn
           /\ About[l].wellFormed
           /\ EncodesAlike => /\ Encode(b, l) = About[l].enc
                              /\ About[Encode(b, l)].ldh = About[l].ldh /\ ~About[Encode(b, l)].hyphen
<1> DEFINE e == Idn2Encode[library][l]
<1>1. /\ About[l].wellFormed => /\ About[l].enc \in Label /\ About[About[l].enc].ascii
                                /\ About[About[l].enc].xn /\ ~About[About[l].enc].hyphen
                                /\ About[About[l].enc].ldh = About[l].ldh
      /\ ~About[l].wellFormed => About[l].enc \in CodecError /\ e \in CodecError
      /\ e \in Label => About[e].ascii /\ About[e].xn
      /\ e \in Label \cup CodecError
  <2>1. /\ About[l].wellFormed => /\ About[l].enc \in Label /\ About[About[l].enc].ascii
                                  /\ About[About[l].enc].xn /\ ~About[About[l].enc].hyphen
                                  /\ About[About[l].enc].ldh = About[l].ldh
        /\ ~About[l].wellFormed => About[l].enc \in CodecError
    BY CodecAssumption
  <2>2. /\ Idn2Encode[library] \in [Label -> Label \cup CodecError]
        /\ ~About[l].wellFormed => e \in CodecError
        /\ e \in Label => About[e].ascii /\ About[e].xn
    BY LibraryAssumption
  <2> QED BY <2>1, <2>2
<1>2. Encode(b, l) = About[l].enc \/ Encode(b, l) = e
  BY DEF Encode, Retried, Backends
<1>3. EncodesAlike /\ e \in Label => e = About[l].enc
  BY DEF EncodesAlike
<1> HIDE DEF e
<1> QED BY <1>1, <1>2, <1>3

\* What is decoded from a label without hyphens at its edges is not ASCII.
LEMMA DecodedNonAscii ==
    ASSUME library \in Libraries, NEW b \in Backends, NEW l \in Label, About[l].xn, ~About[l].hyphen,
           InsertsNonAscii, Decode(b, l) \in Label
    PROVE  ~About[Decode(b, l)].ascii
<1>1. /\ About[l].dec \in Label => ~About[About[l].dec].ascii
      /\ Idn2Decode[library][l] \in Label => ~About[Idn2Decode[library][l]].ascii
  BY CodecAssumption DEF InsertsNonAscii
<1> QED BY <1>1 DEF Decode, Retried

LEMMA InitInv == CallInit => IInv
<1> SUFFICES ASSUME CallInit PROVE IInv
  OBVIOUS
<1>1. domain \in Seq(Label) /\ domain # <<>> /\ out = <<>> /\ outcome = "called"
  BY LabelAssumption DEF CallInit, Init
<1>2. <<transform, backend>> \in Entries /\ strict \in BOOLEAN /\ library \in Libraries
  BY DEF CallInit, Init, Entries
<1> QED BY <1>1, <1>2, CoreType, EmptySeq DEF IInv, Types, Done

\* One more label kept.
LEMMA KeepInv ==
    ASSUME IInv, AtLabel, NEW l \in Label, Keep(l), transform = "encode" => Encoded(l)
    PROVE  IInv'
<1>1. /\ UNCHANGED args /\ outcome' = "running" /\ out' = Append(out, l)
      /\ out \in Seq(Label) /\ Len(out) < Len(Core(domain)) /\ Core(domain)' = Core(domain)
      /\ Len(Core(domain)) \in Nat
  BY CoreType DEF Keep, IInv, Types, AtLabel, args, Core, HasTrailingDot, Front, Last
<1>2. /\ Append(out, l) \in Seq(Label) /\ Len(Append(out, l)) = Len(out) + 1
      /\ Append(out, l)[Len(out) + 1] = l
      /\ \A p \in 1..Len(out) : Append(out, l)[p] = out[p]
      /\ DOMAIN out = 1..Len(out) /\ Len(out) \in Nat
  BY <1>1, AppendProperties
<1>3. Types'
  BY <1>1, <1>2 DEF IInv, Types, args, Done
<1>4. ASSUME transform = "encode", NEW p \in 1..(Len(out) + 1) PROVE Encoded(Append(out, l)[p])
  <2>1. CASE p \in 1..Len(out) BY <1>2, <1>4, <2>1 DEF IInv
  <2>2. CASE p = Len(out) + 1 BY <1>2, <1>4, <2>2
  <2> QED BY <1>2, <2>1, <2>2
<1>5. DOMAIN (Append(out, l)) = 1..(Len(out) + 1)
  BY <1>2
<1>6. EncodesAlike' = EncodesAlike
  BY <1>1 DEF EncodesAlike, args
<1> QED BY <1>1, <1>3, <1>4, <1>5, <1>6 DEF IInv, Encoded, args

\* A call that ends or starts its loop leaves its labels alone.
LEMMA OutcomeInv ==
    ASSUME IInv, UNCHANGED <<args, out>>, Types'
    PROVE  IInv'
<1>1. EncodesAlike' = EncodesAlike
  BY DEF EncodesAlike, args
<1> QED BY <1>1 DEF IInv, Encoded, args

\* The label the loop is at.
LEMMA NowType ==
    ASSUME IInv, AtLabel
    PROVE  /\ Now \in Label /\ About[Now] \in AboutType
           /\ AtClassified /\ strict => About[Now].ldh /\ ~About[Now].hyphen
<1>1. Core(domain) \in Seq(Label) /\ Len(out) + 1 \in 1..Len(Core(domain))
  BY CoreType DEF IInv, Types, AtLabel
<1>2. Now \in Label
  BY <1>1 DEF Now
<1> QED BY <1>2, Classified, LabelAssumption DEF AtClassified

LEMMA FailInv ==
    ASSUME IInv, outcome \in {"called", "running"}, NEW e, Fail(e),
           e \in CodecError \cup ClassifyCodes \cup DomainCodes
                 \cup {"running", "invalid_punycode_label", "invalid_utf8", "encoded_label_too_long"},
           e # "done"
    PROVE  IInv'
<1>1. UNCHANGED <<args, out>> /\ outcome' = e /\ Core(domain)' = Core(domain)
  BY DEF Fail, args, Core, HasTrailingDot, Front, Last
<1>2. Types'
  BY <1>1 DEF IInv, Types, Done, args, ClassifyCodes, DomainCodes
<1> QED BY <1>1, <1>2, OutcomeInv

LEMMA StepInv == ASSUME IInv, Next PROVE IInv'
<1>0. "done" \notin CodecError /\ library \in Libraries /\ backend \in Backends
  BY LabelAssumption DEF IInv, Types, Entries, Backends
<1>1. CASE Start
  BY <1>1, DomainErrorCodes, FailInv DEF Start, DomainCodes
<1>2. CASE RefuseLabel
  BY <1>2, Classified, FailInv DEF RefuseLabel, AtLabel, ClassifyCodes
<1>3. CASE PassAscii
  BY <1>3, NowType, KeepInv DEF PassAscii, AtClassified, NeedsEncoding, Encoded
<1>4. CASE DecodeLabel
  <2> DEFINE d == Decode(backend, Now)
  <2>1. AtLabel /\ AtClassified /\ Now \in Label /\ About[Now].ascii /\ outcome = "running"
        /\ d \in Label \cup CodecError /\ (strict => About[Now].ldh /\ ~About[Now].hyphen)
    BY <1>4, <1>0, NowType, BackendType DEF DecodeLabel, AtClassified, AtLabel, NeedsDecoding
  <2>2. \/ d \in CodecError /\ Fail(d)
        \/ d \notin CodecError /\ Keep(Decoded(Now, d))
        \/ \E e \in CodecError : Fail(e)
        \/ Fail("invalid_punycode_label")
    BY <1>4 DEF DecodeLabel
  <2> HIDE DEF d
  <2>3. CASE d \notin CodecError /\ Keep(Decoded(Now, d))
    <3>1. d \in Label BY <2>1, <2>3
    <3> QED BY <2>1, <2>3, <3>1, KeepInv DEF Decoded, Encoded
  <2> QED BY <1>0, <2>1, <2>2, <2>3, FailInv
<1>5. CASE CheckUtf8
  BY <1>5, NowType, KeepInv, FailInv DEF CheckUtf8, CheckOnly, AtClassified, AtLabel
<1>6. CASE EncodeLabel
  <2> DEFINE e == Encode(backend, Now)
  <2>1. AtLabel /\ AtClassified /\ Now \in Label /\ ~About[Now].ascii /\ outcome = "running"
        /\ (strict => About[Now].ldh)
    BY <1>6, NowType DEF EncodeLabel, AtClassified, AtLabel, NeedsEncoding
  <2>2. \/ e \in CodecError /\ Fail(e)
        \/ Fail("encoded_label_too_long")
        \/ e \notin CodecError /\ Keep(IF transform = "encode" THEN e ELSE Now)
    BY <1>6 DEF EncodeLabel
  <2>3. CASE e \notin CodecError /\ Keep(IF transform = "encode" THEN e ELSE Now)
    <3>1. e \in Label /\ About[e].ascii
          /\ (EncodesAlike => About[e].ldh = About[Now].ldh /\ ~About[e].hyphen)
      BY <1>0, <2>1, <2>3, EncodedIsAscii
    <3> HIDE DEF e
    <3> QED BY <2>1, <2>3, <3>1, KeepInv DEF Encoded
  <2> HIDE DEF e
  <2> QED BY <1>0, <2>1, <2>2, <2>3, FailInv
<1>7. CASE Finish
  <2>1. UNCHANGED <<args, out>> /\ outcome' = "done" /\ Core(domain)' = Core(domain)
        /\ Len(out) = Len(Core(domain))
    BY <1>7 DEF Finish, args, Core, HasTrailingDot, Front, Last
  <2>2. Types'
    BY <2>1 DEF IInv, Types, Done, args
  <2> QED BY <2>1, <2>2, OutcomeInv
<1> QED BY <1>1, <1>2, <1>3, <1>4, <1>5, <1>6, <1>7 DEF Next

\* What one call answers is a domain the next may be given.
LEMMA ResultType ==
    ASSUME IInv, Done
    PROVE  Result \in Seq(Label) /\ Result # <<>>
<1>1. out \in Seq(Label) /\ Len(out) \in Nat \ {0}
  BY CoreType DEF IInv, Types
<1>2. Append(out, Empty) \in Seq(Label) /\ Append(out, Empty) # <<>>
  BY <1>1, LabelAssumption, AppendProperties, EmptySeq
<1> QED BY <1>1, <1>2, EmptySeq DEF Result

LEMMA NextInv == ASSUME IInv, [CallNext]_allvars PROVE IInv'
<1>1. CASE Run
  BY <1>1, StepInv DEF Run
<1>2. CASE Again
  <2>1. domain' \in Seq(Label) /\ domain' # <<>> /\ out' = <<>> /\ outcome' = "called"
    BY <1>2, ResultType DEF Again, IInv, Types, Done
  <2>2. <<transform, backend>>' \in Entries /\ strict' \in BOOLEAN /\ library' \in Libraries
    BY <1>2 DEF Again, Entries, IInv, Types
  <2>3. Core(domain') = Core(domain)'
    BY DEF Core, HasTrailingDot, Front, Last
  <2> QED BY <2>1, <2>2, <2>3, CoreType, EmptySeq DEF IInv, Types, Done
<1>3. CASE UNCHANGED allvars
  <2>1. UNCHANGED <<args, out, outcome>> /\ Core(domain)' = Core(domain)
    BY <1>3 DEF allvars, vars, args, Core, HasTrailingDot, Front, Last
  <2>2. Types'
    BY <2>1 DEF IInv, Types, Done, args
  <2> QED BY <2>1, <2>2, OutcomeInv
<1> QED BY <1>1, <1>2, <1>3 DEF CallNext

LEMMA Invariance == CallSpec => []IInv
BY InitInv, NextInv, PTL DEF CallSpec

\* The variables keep their types and a finished call went through every label.
THEOREM CallsTypeCorrect == CallSpec => []TypeOK
BY Invariance, PTL DEF IInv, Types, TypeOK

\* Whatever branch its labels took and whatever libidn2 did, an encoded domain is
\* ASCII, and in strict mode, if libidn2 encodes as the in-tree codec does,
\* letters, digits and inner hyphens.
THEOREM EncodedDomainsAreAscii == CallSpec => []EncodeGivesAscii
<1>1. IInv => EncodeGivesAscii
  BY DEF IInv, EncodeGivesAscii, Encoded, Labels
<1> QED BY <1>1, Invariance, PTL

\* The strict re-encoding of a decoded label never meets an ASCII label, which
\* is what makes the early return of encode_label_libidn2 unreachable, for every
\* libidn2 that inserts no ASCII.
THEOREM ReencodingMeetsNonAscii == CallSpec => []ReencodesNonAscii
<1>1. IInv => ReencodesNonAscii
  <2> SUFFICES ASSUME IInv, AtClassified, NeedsDecoding(Now), strict, InsertsNonAscii,
                      Decode(backend, Now) \in Label
               PROVE  ~About[Decode(backend, Now)].ascii
    BY DEF ReencodesNonAscii
  <2>1. library \in Libraries /\ backend \in Backends
    BY DEF IInv, Types, Entries, Backends
  <2>2. Now \in Label /\ About[Now].xn /\ ~About[Now].hyphen
    BY NowType DEF AtClassified, NeedsDecoding
  <2> QED BY <2>1, <2>2, DecodedNonAscii
<1> QED BY <1>1, Invariance, PTL

-----------------------------------------------------------------------------
(* Two calls. A call is told by its arguments, label by label: what it keeps  *)
(* of each label, and which it refuses. Each relation between two calls is    *)
(* then one between what they make of one label.                              *)

\* The error of classify_label, of any call.
Refusal(t, s, l) ==
    LET a == About[l] IN
    IF a.size = 0 THEN "domain_empty_label"
    ELSE IF a.size > MaxLabelLength THEN "label_length_limit"
    ELSE IF s /\ a.hyphen THEN "domain_label_hyphen"
    ELSE IF s /\ ~a.ldh THEN "ascii_domain_characters"
    ELSE IF s /\ t = "none" /\ a.ascii /\ a.size > MaxDnsLabel THEN "domain_label_too_long"
    ELSE "none"

\* What a call makes of a label it does not refuse, and which it refuses none of.
Kept(t, b, l) == IF About[l].ascii
                 THEN IF About[l].xn /\ t = "decode" /\ Decode(b, l) # Empty THEN Decode(b, l) ELSE l
                 ELSE IF t = "encode" THEN Encode(b, l) ELSE l

Fits(t, s, b, l) ==
    /\ Refusal(t, s, l) = "none"
    /\ About[l].ascii /\ About[l].xn =>
          /\ Decode(b, l) \notin CodecError
          /\ s => Decode(b, l) # Empty /\ Accepts(Encode(b, Decode(b, l)), l)
    /\ ~About[l].ascii /\ t # "encode" /\ ~s => About[l].wellFormed
    /\ ~About[l].ascii /\ (t = "encode" \/ s) =>
          /\ Encode(b, l) \notin CodecError
          /\ s /\ t = "none" => ~EncodedTooLong(Encode(b, l))

\* The codec, not the pipeline, refuses the label.
CodecRefuses(t, s, b, l) ==
    \/ /\ About[l].ascii /\ About[l].xn
       /\ \/ Decode(b, l) \in CodecError
          \/ s /\ Decode(b, l) # Empty /\ Encode(b, Decode(b, l)) \in CodecError
    \/ ~About[l].ascii /\ (t = "encode" \/ s) /\ Encode(b, l) \in CodecError

DomainRefused(t, s, b, d) ==
    \/ t # "none" /\ b = "automatic" /\ LooksLikeUrl(d)
    \/ Core(d) = <<Empty>>
    \/ s /\ t = "none" /\ SizeOf(Core(d)) > MaxDnsDomain

\* A call that ends with an error ends at the first label that has one.
Failing(t, s, b, l, e) ==
    /\ ~Fits(t, s, b, l)
    /\ Refusal(t, s, l) # "none" => e = Refusal(t, s, l)
    /\ Refusal(t, s, l) = "none" /\ CodecRefuses(t, s, b, l) => e \in CodecError

\* What one call has done so far.
Progress ==
    /\ outcome \in {"running", "done"} => ~DomainRefused(transform, strict, backend, domain)
    /\ \A k \in 1..Len(out) : /\ Fits(transform, strict, backend, Core(domain)[k])
                              /\ out[k] = Kept(transform, backend, Core(domain)[k])
    /\ Ended /\ ~Done =>
          \/ DomainRefused(transform, strict, backend, domain)
          \/ /\ Len(out) < Len(Core(domain))
             /\ Failing(transform, strict, backend, Core(domain)[Len(out) + 1], outcome)

\* What is remembered of the call before.
Finished(p) ==
    p.outcome = "done" =>
        /\ p.strict \in BOOLEAN /\ p.backend \in Backends /\ p.domain \in Seq(Label) /\ p.domain # <<>>
        /\ <<p.transform, p.backend>> \in Entries
        /\ ~DomainRefused(p.transform, p.strict, p.backend, p.domain)
        /\ \A k \in 1..Len(Core(p.domain)) : Fits(p.transform, p.strict, p.backend, Core(p.domain)[k])
        /\ p.result = [k \in DOMAIN p.domain |-> Kept(p.transform, p.backend, p.domain[k])]

HInv == Progress /\ \A p \in first : Finished(p)

\* All of this depends on the state through what libidn2 there is, which stays.
LEMMA LibraryStays ==
    ASSUME library' = library
    PROVE  /\ \A b, l : Encode(b, l)' = Encode(b, l) /\ Decode(b, l)' = Decode(b, l)
           /\ \A t, b, l : Kept(t, b, l)' = Kept(t, b, l)
           /\ \A t, s, b, l : Fits(t, s, b, l)' = Fits(t, s, b, l)
           /\ \A t, s, b, l, e : Failing(t, s, b, l, e)' = Failing(t, s, b, l, e)
           /\ \A p : Finished(p)' = Finished(p)
<1>1. \A b, l : Encode(b, l)' = Encode(b, l) /\ Decode(b, l)' = Decode(b, l)
  BY DEF Encode, Decode, Retried
<1>2. \A t, b, l : Kept(t, b, l)' = Kept(t, b, l)
  BY <1>1 DEF Kept
<1>3. \A t, s, b, l : Fits(t, s, b, l)' = Fits(t, s, b, l)
  BY <1>1 DEF Fits
<1>4. \A t, s, b, l : CodecRefuses(t, s, b, l)' = CodecRefuses(t, s, b, l)
  BY <1>1 DEF CodecRefuses
<1>5. \A t, s, b, l, e : Failing(t, s, b, l, e)' = Failing(t, s, b, l, e)
  BY <1>3, <1>4 DEF Failing
<1>6. \A p : Finished(p)' = Finished(p)
  BY <1>2, <1>3 DEF Finished
<1> QED BY <1>1, <1>2, <1>3, <1>5, <1>6

LEMMA FirstErrorIsFirst ==
    ASSUME NEW checks, DOMAIN checks \subseteq 1..5,
           NEW m \in DOMAIN checks, checks[m][1], \A c \in DOMAIN checks : c < m => ~checks[c][1]
    PROVE  FirstError(checks) = checks[m][2]
<1> DEFINE failed == {c \in DOMAIN checks : checks[c][1]}
<1>1. m \in failed /\ \A c \in failed : m <= c
  OBVIOUS
<1>2. Min(failed) \in failed /\ \A c \in failed : Min(failed) <= c
  BY <1>1 DEF Min
<1>3. Min(failed) = m
  BY <1>1, <1>2
<1> QED BY <1>1, <1>3 DEF FirstError

LEMMA ClassifyIsRefusal == \A l : ClassifyError(l) = Refusal(transform, strict, l)
<1> SUFFICES ASSUME NEW l PROVE ClassifyError(l) = Refusal(transform, strict, l)
  OBVIOUS
<1> DEFINE a == About[l]
           checks == << <<a.size = 0, "domain_empty_label">>,
                        <<a.size > MaxLabelLength, "label_length_limit">>,
                        <<strict /\ EdgeHyphen(a), "domain_label_hyphen">>,
                        <<strict /\ ~a.ldh, "ascii_domain_characters">>,
                        <<strict /\ VerifyDns /\ a.ascii /\ a.size > MaxDnsLabel, "domain_label_too_long">> >>
<1>1. DOMAIN checks = 1..5 /\ ClassifyError(l) = FirstError(checks)
  BY DEF ClassifyError
<1>2. /\ (checks[1][1] <=> a.size = 0) /\ (checks[2][1] <=> a.size > MaxLabelLength)
      /\ (checks[3][1] <=> strict /\ a.hyphen) /\ (checks[4][1] <=> strict /\ ~a.ldh)
      /\ (checks[5][1] <=> strict /\ transform = "none" /\ a.ascii /\ a.size > MaxDnsLabel)
  BY EdgeHyphenIsHyphen DEF VerifyDns
<1>3. /\ checks[1][2] = "domain_empty_label" /\ checks[2][2] = "label_length_limit"
      /\ checks[3][2] = "domain_label_hyphen" /\ checks[4][2] = "ascii_domain_characters"
      /\ checks[5][2] = "domain_label_too_long"
  OBVIOUS
<1> HIDE DEF checks
<1>4. CASE checks[1][1]
  <2>1. FirstError(checks) = checks[1][2]
    BY <1>1, <1>4, FirstErrorIsFirst
  <2> QED BY <1>1, <1>2, <1>3, <1>4, <2>1 DEF Refusal
<1>5. CASE ~checks[1][1] /\ checks[2][1]
  <2>1. FirstError(checks) = checks[2][2]
    BY <1>1, <1>5, FirstErrorIsFirst
  <2> QED BY <1>1, <1>2, <1>3, <1>5, <2>1 DEF Refusal
<1>6. CASE ~checks[1][1] /\ ~checks[2][1] /\ checks[3][1]
  <2>1. FirstError(checks) = checks[3][2]
    BY <1>1, <1>6, FirstErrorIsFirst
  <2> QED BY <1>1, <1>2, <1>3, <1>6, <2>1 DEF Refusal
<1>7. CASE ~checks[1][1] /\ ~checks[2][1] /\ ~checks[3][1] /\ checks[4][1]
  <2>1. FirstError(checks) = checks[4][2]
    BY <1>1, <1>7, FirstErrorIsFirst
  <2> QED BY <1>1, <1>2, <1>3, <1>7, <2>1 DEF Refusal
<1>8. CASE ~checks[1][1] /\ ~checks[2][1] /\ ~checks[3][1] /\ ~checks[4][1] /\ checks[5][1]
  <2>1. FirstError(checks) = checks[5][2]
    BY <1>1, <1>8, FirstErrorIsFirst
  <2> QED BY <1>1, <1>2, <1>3, <1>8, <2>1 DEF Refusal
<1>9. CASE \A c \in 1..5 : ~checks[c][1]
  <2>1. FirstError(checks) = "none"
    BY <1>1, <1>9, FirstErrorCases
  <2> QED BY <1>1, <1>2, <1>9, <2>1 DEF Refusal
<1> QED BY <1>4, <1>5, <1>6, <1>7, <1>8, <1>9

LEMMA DomainErrorIsRefusal ==
    DomainError = "none" <=> ~DomainRefused(transform, strict, backend, domain)
<1> DEFINE checks ==
        << <<transform # "none" /\ backend = "automatic" /\ LooksLikeUrl(domain), "looks_like_url">>,
           <<Core(domain) = <<Empty>>, "domain_empty">>,
           <<strict /\ VerifyDns /\ SizeOf(Core(domain)) > MaxDnsDomain, "domain_too_long">> >>
<1>1. DOMAIN checks = 1..3 /\ \A c \in 1..3 : checks[c][2] # "none"
  OBVIOUS
<1>2. DomainError = FirstError(checks)
  BY DEF DomainError
<1>3. DomainRefused(transform, strict, backend, domain) <=> \E c \in 1..3 : checks[c][1]
  <2>1. /\ checks[1][1] <=> (transform # "none" /\ backend = "automatic" /\ LooksLikeUrl(domain))
        /\ checks[2][1] <=> (Core(domain) = <<Empty>>)
        /\ checks[3][1] <=> (strict /\ VerifyDns /\ SizeOf(Core(domain)) > MaxDnsDomain)
    OBVIOUS
  <2> HIDE DEF checks
  <2>2. (\E c \in 1..3 : checks[c][1]) <=> checks[1][1] \/ checks[2][1] \/ checks[3][1]
    BY SMT
  <2> QED BY <2>1, <2>2, Zenon DEF DomainRefused, VerifyDns
<1> HIDE DEF checks
<1> QED BY <1>1, <1>2, <1>3, FirstErrorCases

LEMMA CoreLabels ==
    ASSUME NEW d \in Seq(Label), d # <<>>
    PROVE  /\ DOMAIN d = 1..Len(d) /\ Len(d) \in Nat \ {0}
           /\ \A k \in 1..Len(Core(d)) : Core(d)[k] = d[k] /\ d[k] \in Label
           /\ HasTrailingDot(d) => Len(d) = Len(Core(d)) + 1 /\ d[Len(d)] = Empty
           /\ ~HasTrailingDot(d) => Core(d) = d
<1>1. Len(d) \in Nat \ {0} /\ DOMAIN d = 1..Len(d) /\ \A k \in 1..Len(d) : d[k] \in Label
  BY EmptySeq
<1>2. HasTrailingDot(d) => \A k \in 1..(Len(d) - 1) : Front(d)[k] = d[k]
  BY <1>1, SubSeqProperties DEF Front, HasTrailingDot
<1>3. HasTrailingDot(d) => d[Len(d)] = Empty
  BY DEF HasTrailingDot, Last
<1>4. Len(Core(d)) = IF HasTrailingDot(d) THEN Len(d) - 1 ELSE Len(d)
  BY CoreType
<1>5. ASSUME HasTrailingDot(d), NEW k \in 1..Len(Core(d)) PROVE Core(d)[k] = d[k] /\ k \in 1..Len(d)
  BY <1>1, <1>2, <1>4, <1>5 DEF Core
<1>6. ~HasTrailingDot(d) => Core(d) = d
  BY DEF Core
<1>7. \A k \in 1..Len(Core(d)) : Core(d)[k] = d[k] /\ d[k] \in Label
  <2>1. CASE HasTrailingDot(d)
    BY <1>1, <1>5, <2>1
  <2>2. CASE ~HasTrailingDot(d)
    BY <1>1, <1>6, <2>2
  <2> QED BY <2>1, <2>2
<1>8. HasTrailingDot(d) => Len(d) = Len(Core(d)) + 1
  BY <1>1, <1>4
<1> QED BY <1>1, <1>3, <1>6, <1>7, <1>8

\* A place of a domain is a place of its core or its trailing dot.
LEMMA CorePlaces ==
    ASSUME NEW d \in Seq(Label), d # <<>>, NEW k \in DOMAIN d
    PROVE  k \in 1..Len(Core(d)) \/ (HasTrailingDot(d) /\ k = Len(d) /\ d[k] = Empty)
<1>1. k \in 1..Len(d) /\ Len(d) \in Nat
  BY CoreLabels
<1>2. CASE HasTrailingDot(d)
  <2>1. d[Len(d)] = Empty /\ Len(Core(d)) = Len(d) - 1
    BY <1>2, CoreLabels, CoreType
  <2>2. k \in 1..(Len(d) - 1) \/ k = Len(d)
    BY <1>1
  <2> QED BY <1>2, <2>1, <2>2
<1>3. CASE ~HasTrailingDot(d)
  <2>1. Len(Core(d)) = Len(d)
    BY <1>3, CoreType
  <2> QED BY <1>1, <2>1
<1> QED BY <1>2, <1>3

LEMMA EmptyIsKept == \A t, b : Kept(t, b, Empty) = Empty
<1>1. ~About[Empty].xn
  BY BytesAssumption, LabelAssumption
<1> QED BY <1>1, BytesAssumption DEF Kept

\* A label that fits is not empty, and no more is what is kept of it.
LEMMA KeptType ==
    ASSUME library \in Libraries, NEW t, NEW s \in BOOLEAN, NEW b \in Backends, NEW l \in Label,
           Fits(t, s, b, l)
    PROVE  /\ l # Empty /\ Kept(t, b, l) \in Label /\ Kept(t, b, l) # Empty
           /\ s => About[l].ldh /\ ~About[l].hyphen
<1>1. l # Empty /\ (s => About[l].ldh /\ ~About[l].hyphen)
  BY BytesAssumption DEF Fits, Refusal
<1>2. CASE About[l].ascii /\ About[l].xn /\ t = "decode" /\ Decode(b, l) # Empty
  <2>1. Decode(b, l) \in Label
    BY <1>2, BackendType DEF Fits
  <2> QED BY <1>1, <1>2, <2>1 DEF Kept
<1>3. CASE ~About[l].ascii /\ t = "encode"
  <2>1. Encode(b, l) \in Label /\ About[Encode(b, l)].xn
    BY <1>3, EncodedIsAscii DEF Fits
  <2>2. Encode(b, l) # Empty
    BY <2>1, BytesAssumption, TableType DEF AboutType
  <2> QED BY <1>1, <1>3, <2>1, <2>2 DEF Kept
<1> QED BY <1>1, <1>2, <1>3 DEF Kept

\* The re-encoding of strict mode tells whatever libidn2 may decode from what the
\* in-tree codec decodes: an A-label that is taken is canonical for both.
LEMMA StrictDecodeIsInTree ==
    ASSUME library \in Libraries, EncodesAlike, InsertsNonAscii,
           NEW t, NEW b \in Backends, NEW l \in Label, About[l].ascii, About[l].xn, Fits(t, TRUE, b, l)
    PROVE  /\ Decode(b, l) = About[l].dec /\ About[l].dec \in Label /\ About[l].dec # Empty
           /\ ~About[About[l].dec].ascii /\ About[About[l].dec].wellFormed /\ About[About[l].dec].ldh
           /\ Accepts(About[About[l].dec].enc, l)
<1> DEFINE d == Decode(b, l)
           e == Encode(b, d)
<1>1. /\ ~About[l].hyphen /\ About[l].ldh /\ About[l].size <= MaxLabelLength
      /\ d \in Label /\ d # Empty /\ e \notin CodecError /\ About[e].xn
      /\ About[e].payload = About[l].payload
  <2>1. About[l].size \in Nat /\ MaxLabelLength \in Nat
    BY TableType, LabelAssumption DEF AboutType
  <2> QED BY <2>1, BackendType DEF Fits, Refusal, Accepts, Canonical
<1>2. ~About[d].ascii
  BY <1>1, DecodedNonAscii
<1> HIDE DEF d
<1>3. e \in Label /\ e = About[d].enc /\ About[d].wellFormed /\ About[e].ldh = About[d].ldh
  BY <1>1, <1>2, EncodedIsAscii
<1> HIDE DEF e
<1>4. About[e].size = About[l].size /\ About[e].ldh = About[l].ldh /\ About[e].dec = About[l].dec
  BY <1>1, <1>3, BytesAssumption
<1>5. About[d].ldh
  BY <1>1, <1>3, <1>4
<1>6. About[e].dec = d
  BY <1>1, <1>2, <1>3, <1>4, <1>5, CodecAssumption
<1>7. d = About[l].dec /\ Accepts(About[d].enc, l)
  BY <1>1, <1>3, <1>4, <1>6 DEF Accepts, Canonical
<1> QED BY <1>1, <1>2, <1>3, <1>5, <1>7 DEF d

\* So what strict mode takes and keeps it takes and keeps with the in-tree codec.
LEMMA StrictIsInTree ==
    ASSUME library \in Libraries, EncodesAlike, InsertsNonAscii,
           NEW t, NEW b \in Backends, NEW l \in Label, Fits(t, TRUE, b, l)
    PROVE  /\ Fits(t, TRUE, "fallback", l) /\ Kept(t, "fallback", l) = Kept(t, b, l)
           /\ About[Kept(t, b, l)].ldh
<1>1. /\ Encode("fallback", l) = About[l].enc /\ Decode("fallback", l) = About[l].dec
      /\ Encode("fallback", About[l].dec) = About[About[l].dec].enc
      /\ Refusal(t, TRUE, l) = "none" /\ About[l].ldh
  BY KeptType DEF Encode, Decode, Fits
<1>2. CASE About[l].ascii /\ ~About[l].xn
  BY <1>1, <1>2 DEF Fits, Kept
<1>3. CASE About[l].ascii /\ About[l].xn
  <2>1. /\ Decode(b, l) = About[l].dec /\ About[l].dec \in Label /\ About[l].dec # Empty
        /\ About[About[l].dec].ldh /\ Accepts(About[About[l].dec].enc, l)
    BY <1>3, StrictDecodeIsInTree
  <2>2. About[l].dec \notin CodecError
    BY <2>1, LabelAssumption
  <2> QED BY <1>1, <1>3, <2>1, <2>2 DEF Fits, Kept
<1>4. CASE ~About[l].ascii
  <2>1. Encode(b, l) = About[l].enc /\ About[About[l].enc].ldh = About[l].ldh
        /\ About[l].enc \notin CodecError
        /\ (t = "none" => ~EncodedTooLong(About[l].enc))
    BY <1>4, EncodedIsAscii DEF Fits
  <2> QED BY <1>1, <1>4, <2>1 DEF Fits, Kept
<1> QED BY <1>2, <1>3, <1>4

\* One more label kept, and one that ends the call.
LEMMA KeepProgress ==
    ASSUME IInv, Progress, AtLabel, Fits(transform, strict, backend, Now),
           NEW l, l = Kept(transform, backend, Now), Keep(l)
    PROVE  Progress'
<1>1. Now \in Label /\ strict \in BOOLEAN /\ out \in Seq(Label)
      /\ library \in Libraries /\ backend \in Backends
  BY NowType DEF IInv, Types, Entries, Backends
<1>2. l \in Label
  BY <1>1, KeptType
<1>3. /\ Append(out, l) \in Seq(Label) /\ Len(Append(out, l)) = Len(out) + 1
      /\ Append(out, l)[Len(out) + 1] = l
      /\ \A p \in 1..Len(out) : Append(out, l)[p] = out[p]
      /\ Len(out) \in Nat
  BY <1>1, <1>2, AppendProperties
<1>4. UNCHANGED args /\ outcome = "running" /\ outcome' = "running" /\ out' = Append(out, l)
      /\ library' = library
  BY DEF Keep, AtLabel, args
<1>5. ASSUME NEW k \in 1..(Len(out) + 1)
      PROVE  /\ Fits(transform, strict, backend, Core(domain)[k])
             /\ Append(out, l)[k] = Kept(transform, backend, Core(domain)[k])
  <2>1. CASE k \in 1..Len(out)
    BY <1>3, <2>1 DEF Progress
  <2>2. CASE k = Len(out) + 1
    BY <1>3, <2>2 DEF Now
  <2> QED BY <1>3, <2>1, <2>2
<1>6. \A k \in 1..(Len(out) + 1) : /\ Fits(transform, strict, backend, Core(domain)[k])'
                                  /\ Append(out, l)[k] = Kept(transform, backend, Core(domain)[k])'
  BY <1>4, <1>5, LibraryStays DEF args
<1> QED BY <1>3, <1>4, <1>6 DEF Progress, args, Ended

LEMMA FailProgress ==
    ASSUME Progress, AtLabel, NEW e, Fail(e), e \notin {"running", "done"},
           Failing(transform, strict, backend, Now, e)
    PROVE  Progress'
<1>1. UNCHANGED <<args, out>> /\ outcome' = e /\ library' = library
  BY DEF Fail, args
<1>2. Failing(transform, strict, backend, Now, e)'
  BY <1>1, LibraryStays DEF args, Now
<1>3. /\ \A k \in 1..Len(out) : /\ Fits(transform, strict, backend, Core(domain)[k])'
                               /\ out[k] = Kept(transform, backend, Core(domain)[k])'
  BY <1>1, LibraryStays DEF Progress, args
<1> QED BY <1>1, <1>2, <1>3 DEF Progress, AtLabel, Now, args, Done

\* A call that goes on, or that has found no more labels, has done what it had done.
LEMMA SameProgress ==
    ASSUME Progress, UNCHANGED <<args, out>>,
           outcome' \in {"running", "done"} => ~DomainRefused(transform, strict, backend, domain),
           outcome' \in {"called", "running", "done"} \/ DomainRefused(transform, strict, backend, domain)
    PROVE  Progress'
<1>1. library' = library
  BY DEF args
<1>2. /\ \A k \in 1..Len(out) : /\ Fits(transform, strict, backend, Core(domain)[k])'
                               /\ out[k] = Kept(transform, backend, Core(domain)[k])'
  BY <1>1, LibraryStays DEF Progress, args
<1> QED BY <1>2 DEF Progress, args, Ended, Done

LEMMA StepProgress == ASSUME IInv, Progress, Next PROVE Progress'
<1> USE LabelAssumption
<1>0. {"running", "done"} \cap CodecError = {} /\ backend \in Backends /\ library \in Libraries
      /\ transform \in {"encode", "decode", "none"} /\ strict \in BOOLEAN
  BY DEF IInv, Types, Entries, Backends
<1>1. CASE Start
  <2>1. UNCHANGED <<args, out>> /\ outcome = "called"
        /\ outcome' = IF DomainError = "none" THEN "running" ELSE DomainError
    BY <1>1 DEF Start, Fail
  <2>2. DomainError \notin {"running", "done", "called"}
    BY DomainErrorCodes DEF DomainCodes
  <2> QED BY <2>1, <2>2, DomainErrorIsRefusal, SameProgress
<1>2. CASE RefuseLabel
  <2>1. ClassifyError(Now) \notin {"running", "done"} /\ ClassifyError(Now) = Refusal(transform, strict, Now)
        /\ ClassifyError(Now) # "none"
    BY <1>2, Classified, ClassifyIsRefusal DEF RefuseLabel, ClassifyCodes
  <2>2. Failing(transform, strict, backend, Now, ClassifyError(Now))
    BY <2>1 DEF Failing, Fits
  <2> QED BY <1>2, <2>1, <2>2, FailProgress DEF RefuseLabel
<1> DEFINE fits == Fits(transform, strict, backend, Now)
           kept == Kept(transform, backend, Now)
           codec == CodecRefuses(transform, strict, backend, Now)
<1>3. ASSUME AtClassified
      PROVE  /\ AtLabel /\ Now \in Label
             /\ Refusal(transform, strict, Now) = "none"
             /\ \A e : ~fits /\ (codec => e \in CodecError) => Failing(transform, strict, backend, Now, e)
  BY <1>3, NowType, ClassifyIsRefusal DEF AtClassified, Failing
<1>4. CASE PassAscii
  <2>1. AtClassified /\ About[Now].ascii /\ ~About[Now].xn /\ Keep(Now)
    BY <1>4 DEF PassAscii, NeedsDecoding, NeedsEncoding
  <2>2. fits /\ kept = Now
    BY <1>3, <2>1 DEF Fits, Kept
  <2> QED BY <1>3, <2>1, <2>2, KeepProgress
<1>5. CASE DecodeLabel
  <2> DEFINE d == Decode(backend, Now)
             e == Encode(backend, d)
  <2>1. AtClassified /\ About[Now].ascii /\ About[Now].xn
    BY <1>5 DEF DecodeLabel, NeedsDecoding
  <2>2. IF d \in CodecError THEN Fail(d)
        ELSE IF ~strict THEN Keep(Decoded(Now, d))
        ELSE IF d = Empty THEN Fail("invalid_punycode_label")
        ELSE IF Accepts(e, Now) THEN Keep(Decoded(Now, d))
        ELSE Fail(IF e \in CodecError THEN e ELSE "invalid_punycode_label")
    BY <1>5 DEF DecodeLabel
  <2>3. /\ fits <=> d \notin CodecError /\ (strict => d # Empty /\ Accepts(e, Now))
        /\ codec <=> d \in CodecError \/ (strict /\ d # Empty /\ e \in CodecError)
        /\ kept = Decoded(Now, d)
    BY <1>3, <2>1 DEF Fits, CodecRefuses, Kept, Decoded
  <2> HIDE DEF fits, codec, kept, d, e
  <2>4. CASE d \in CodecError
    <3>1. Failing(transform, strict, backend, Now, d) /\ d \notin {"running", "done"}
      BY <1>0, <1>3, <2>1, <2>3, <2>4
    <3> QED BY <1>3, <2>1, <2>2, <2>4, <3>1, FailProgress
  <2>5. CASE d \notin CodecError /\ fits
    <3>1. fits /\ Keep(kept)
      BY <2>2, <2>3, <2>5
    <3> QED BY <1>3, <2>1, <3>1, KeepProgress DEF fits, kept
  <2>6. CASE d \notin CodecError /\ ~fits
    <3>1. PICK error : /\ Fail(error) /\ error \in CodecError \cup {"invalid_punycode_label"}
                       /\ d # Empty /\ e \in CodecError => error \in CodecError
      BY <2>2, <2>3, <2>6
    <3>2. Failing(transform, strict, backend, Now, error) /\ error \notin {"running", "done"}
      BY <1>0, <1>3, <2>1, <2>3, <2>6, <3>1
    <3> QED BY <1>3, <2>1, <3>1, <3>2, FailProgress
  <2> QED BY <2>4, <2>5, <2>6
<1>6. CASE CheckUtf8
  <2>1. AtClassified /\ ~About[Now].ascii /\ transform # "encode" /\ ~strict
        /\ IF About[Now].wellFormed THEN Keep(Now) ELSE Fail("invalid_utf8")
    BY <1>6 DEF CheckUtf8, NeedsEncoding, CheckOnly
  <2>2. (fits <=> About[Now].wellFormed) /\ kept = Now /\ ~codec
    BY <1>3, <2>1 DEF Fits, Kept, CodecRefuses
  <2>3. CASE About[Now].wellFormed
    BY <1>3, <2>1, <2>2, <2>3, KeepProgress
  <2>4. CASE ~About[Now].wellFormed
    BY <1>3, <2>1, <2>2, <2>4, FailProgress
  <2> QED BY <2>3, <2>4
<1>7. CASE EncodeLabel
  <2> DEFINE e == Encode(backend, Now)
  <2>1. AtClassified /\ ~About[Now].ascii /\ (transform = "encode" \/ strict)
    BY <1>7 DEF EncodeLabel, NeedsEncoding, CheckOnly
  <2>2. IF e \in CodecError THEN Fail(e)
        ELSE IF strict /\ VerifyDns /\ EncodedTooLong(e) THEN Fail("encoded_label_too_long")
        ELSE Keep(IF transform = "encode" THEN e ELSE Now)
    BY <1>7 DEF EncodeLabel
  <2>3. /\ fits <=> e \notin CodecError /\ ~(strict /\ VerifyDns /\ EncodedTooLong(e))
        /\ codec <=> e \in CodecError
        /\ kept = IF transform = "encode" THEN e ELSE Now
    BY <1>3, <2>1 DEF Fits, CodecRefuses, Kept, VerifyDns
  <2> HIDE DEF fits, codec, kept, e
  <2>4. CASE e \in CodecError
    <3>1. Failing(transform, strict, backend, Now, e) /\ e \notin {"running", "done"}
      BY <1>0, <1>3, <2>1, <2>3, <2>4
    <3> QED BY <1>3, <2>1, <2>2, <2>4, <3>1, FailProgress
  <2>5. CASE e \notin CodecError /\ strict /\ VerifyDns /\ EncodedTooLong(e)
    <3>1. Fail("encoded_label_too_long") /\ Failing(transform, strict, backend, Now, "encoded_label_too_long")
      BY <1>3, <2>1, <2>2, <2>3, <2>5
    <3> QED BY <1>3, <2>1, <3>1, FailProgress
  <2>6. CASE fits
    <3>1. Keep(kept)
      BY <2>2, <2>3, <2>6
    <3> QED BY <1>3, <2>1, <2>6, <3>1, KeepProgress DEF fits, kept
  <2> QED BY <2>3, <2>4, <2>5, <2>6
<1>8. CASE Finish
  <2>1. UNCHANGED <<args, out>> /\ outcome = "running" /\ outcome' = "done"
    BY <1>8 DEF Finish
  <2> QED BY <2>1, SameProgress DEF Progress
<1> QED BY <1>1, <1>2, <1>4, <1>5, <1>6, <1>7, <1>8 DEF Next

\* What a call that is done answers, and why one that is not is not.
LEMMA AnswerFinished == ASSUME IInv, Progress PROVE Finished(Answer)
<1> SUFFICES ASSUME Done PROVE Finished(Answer)
  BY DEF Finished, Answer, Done
<1>1. domain \in Seq(Label) /\ domain # <<>> /\ out \in Seq(Label) /\ strict \in BOOLEAN
      /\ backend \in Backends /\ Len(out) = Len(Core(domain)) /\ Len(out) \in Nat
  BY DEF IInv, Types, Entries, Backends
<1>2. ~DomainRefused(transform, strict, backend, domain)
      /\ \A k \in 1..Len(Core(domain)) :
            /\ Fits(transform, strict, backend, Core(domain)[k])
            /\ out[k] = Kept(transform, backend, Core(domain)[k])
  BY <1>1 DEF Progress, Done
<1> DEFINE kept == [k \in DOMAIN domain |-> Kept(transform, backend, domain[k])]
<1>3. DOMAIN Result = DOMAIN domain
      /\ \A k \in DOMAIN domain : Result[k] = Kept(transform, backend, domain[k])
  <2>1. CASE HasTrailingDot(domain)
    <3>1. /\ DOMAIN Append(out, Empty) = 1..Len(domain) /\ Len(domain) = Len(out) + 1
          /\ Append(out, Empty)[Len(domain)] = Empty
          /\ \A k \in 1..Len(out) : Append(out, Empty)[k] = out[k]
      BY <1>1, <2>1, CoreLabels, AppendProperties, LabelAssumption
    <3>2. /\ domain[Len(domain)] = Empty /\ DOMAIN domain = 1..Len(domain)
          /\ \A k \in 1..Len(out) : Core(domain)[k] = domain[k]
      BY <1>1, <2>1, CoreLabels
    <3>3. ASSUME NEW k \in 1..Len(domain) PROVE Append(out, Empty)[k] = Kept(transform, backend, domain[k])
      <4>1. CASE k \in 1..Len(out)
        BY <1>1, <1>2, <3>1, <3>2, <4>1
      <4>2. CASE k = Len(domain)
        BY <3>1, <3>2, <4>2, EmptyIsKept
      <4> QED BY <1>1, <3>1, <4>1, <4>2
    <3> QED BY <2>1, <3>1, <3>2, <3>3 DEF Result
  <2>2. CASE ~HasTrailingDot(domain)
    <3>1. Core(domain) = domain /\ DOMAIN domain = 1..Len(domain) /\ DOMAIN out = 1..Len(domain)
      BY <1>1, <2>2, CoreLabels
    <3> QED BY <1>1, <1>2, <2>2, <3>1 DEF Result
  <2> QED BY <2>1, <2>2
<1>4. Result \in Seq(Label)
  BY ResultType
<1>5. Result = kept
  <2>1. Result = [k \in DOMAIN domain |-> Result[k]]
    BY <1>3, <1>4
  <2> QED BY <1>3, <2>1
<1>6. <<transform, backend>> \in Entries
  BY DEF IInv, Types
<1> QED BY <1>1, <1>2, <1>5, <1>6 DEF Finished, Answer

LEMMA Answered ==
    ASSUME IInv, Progress, Ended, ~DomainRefused(transform, strict, backend, domain)
    PROVE  \/ Done /\ Result = [k \in DOMAIN domain |-> Kept(transform, backend, domain[k])]
           \/ \E k \in 1..Len(Core(domain)) : Failing(transform, strict, backend, Core(domain)[k], outcome)
<1>1. CASE Done
  BY <1>1, AnswerFinished DEF Finished, Answer, Done
<1>2. CASE ~Done
  <2>1. Len(out) + 1 \in 1..Len(Core(domain))
    BY <1>2, CoreType DEF Progress, IInv, Types
  <2> QED BY <1>2, <2>1 DEF Progress
<1> QED BY <1>1, <1>2

LEMMA CallInvariance == CallSpec => [](IInv /\ HInv)
<1>1. CallInit => HInv
  <2> SUFFICES ASSUME CallInit PROVE HInv
    OBVIOUS
  <2>1. out = <<>> /\ outcome = "called" /\ first = {}
    BY DEF CallInit, Init
  <2> QED BY <2>1, EmptySeq DEF HInv, Progress, Ended
<1>2. IInv /\ HInv /\ [CallNext]_allvars => HInv'
  <2> SUFFICES ASSUME IInv, HInv, [CallNext]_allvars PROVE HInv'
    OBVIOUS
  <2>1. CASE Run
    <3>1. Progress' /\ first' = first /\ library' = library
      BY <2>1, StepProgress DEF Run, HInv, Next, Start, RefuseLabel, PassAscii, DecodeLabel, CheckUtf8,
         EncodeLabel, Finish, Fail, Keep, args
    <3> QED BY <3>1, LibraryStays DEF HInv
  <2>2. CASE Again
    <3>1. out' = <<>> /\ outcome' = "called" /\ first' = {Answer} /\ library' = library
      BY <2>2 DEF Again
    <3>2. Progress'
      BY <3>1, EmptySeq DEF Progress, Ended
    <3>3. Finished(Answer)
      BY AnswerFinished DEF HInv
    <3>4. ASSUME NEW p \in first' PROVE Finished(p)'
      <4>1. p = Answer
        BY <3>1
      <4>2. Finished(p)
        BY <3>3, <4>1
      <4> QED BY <3>1, <4>2, LibraryStays
    <3> QED BY <3>2, <3>4 DEF HInv
  <2>3. CASE UNCHANGED allvars
    <3>1. UNCHANGED <<args, out, outcome>> /\ library' = library /\ first' = first
      BY <2>3 DEF allvars, vars, args
    <3>2. Progress'
      <4>1. /\ \A k \in 1..Len(out) : /\ Fits(transform, strict, backend, Core(domain)[k])'
                                     /\ out[k] = Kept(transform, backend, Core(domain)[k])'
        BY <3>1, LibraryStays DEF HInv, Progress, args
      <4>2. Failing(transform, strict, backend, Core(domain)[Len(out) + 1], outcome)'
              = Failing(transform, strict, backend, Core(domain)[Len(out) + 1], outcome)
        BY <3>1, LibraryStays DEF args
      <4> QED BY <3>1, <4>1, <4>2 DEF HInv, Progress, Ended, Done, args
    <3> QED BY <3>1, <3>2, LibraryStays DEF HInv
  <2> QED BY <2>1, <2>2, <2>3 DEF CallNext
<1> QED BY <1>1, <1>2, InitInv, NextInv, PTL DEF CallSpec

\* Where a domain goes, its labels go: what came out of a call that was done.
LEMMA ResultShape ==
    ASSUME library \in Libraries, NEW p, Finished(p), p.outcome = "done"
    PROVE  /\ p.result \in Seq(Label) /\ p.result # <<>> /\ DOMAIN p.result = DOMAIN p.domain
           /\ \A k \in DOMAIN p.domain : p.domain[k] = Empty \/ Fits(p.transform, p.strict, p.backend, p.domain[k])
           /\ \A k \in DOMAIN p.domain : p.result[k] = Kept(p.transform, p.backend, p.domain[k])
           /\ \A k \in 1..Len(Core(p.result)) :
                 /\ k \in DOMAIN p.domain /\ p.domain[k] \in Label
                 /\ Fits(p.transform, p.strict, p.backend, p.domain[k])
                 /\ Core(p.result)[k] = Kept(p.transform, p.backend, p.domain[k])
           /\ Core(p.result) # <<Empty>>
<1> DEFINE d == p.domain
           r == p.result
           n == Len(Core(d))
<1>1. /\ p.strict \in BOOLEAN /\ p.backend \in Backends /\ d \in Seq(Label) /\ d # <<>>
      /\ \A k \in 1..n : Fits(p.transform, p.strict, p.backend, Core(d)[k])
      /\ r = [k \in DOMAIN d |-> Kept(p.transform, p.backend, d[k])]
  BY DEF Finished
<1>2. /\ DOMAIN d = 1..Len(d) /\ Len(d) \in Nat \ {0} /\ n \in Nat \ {0}
      /\ \A k \in 1..n : Core(d)[k] = d[k] /\ d[k] \in Label
      /\ HasTrailingDot(d) => Len(d) = n + 1 /\ d[Len(d)] = Empty
      /\ ~HasTrailingDot(d) => Len(d) = n
      /\ HasTrailingDot(d) => Len(d) > 1
      /\ n <= Len(d)
  <2>1. /\ DOMAIN d = 1..Len(d) /\ Len(d) \in Nat \ {0}
        /\ \A k \in 1..n : Core(d)[k] = d[k] /\ d[k] \in Label
        /\ HasTrailingDot(d) => Len(d) = n + 1 /\ d[Len(d)] = Empty
        /\ ~HasTrailingDot(d) => Core(d) = d
    BY <1>1, CoreLabels, Zenon
  <2>2. n \in Nat \ {0} /\ (~HasTrailingDot(d) => Len(d) = n)
    BY <1>1, <2>1, CoreType
  <2>3. HasTrailingDot(d) => Len(d) > 1
    BY DEF HasTrailingDot
  <2> DEFINE m == Len(d)
  <2>4. m \in Nat /\ n \in Nat /\ (HasTrailingDot(d) => m = n + 1) /\ (~HasTrailingDot(d) => m = n)
    BY <2>1, <2>2
  <2> HIDE DEF m, n
  <2>5. n <= m
    BY <2>4
  <2> USE DEF m
  <2> QED BY <2>1, <2>2, <2>3, <2>5, Zenon
<1> HIDE DEF d, r, n
<1>3. ASSUME NEW k \in DOMAIN d
      PROVE  /\ k \in 1..n \/ (HasTrailingDot(d) /\ k = Len(d) /\ d[k] = Empty)
             /\ k \in 1..n => Fits(p.transform, p.strict, p.backend, d[k])
             /\ r[k] = Kept(p.transform, p.backend, d[k]) /\ r[k] \in Label
             /\ k \in 1..n => r[k] # Empty
  <2>1. k \in 1..n \/ (HasTrailingDot(d) /\ k = Len(d) /\ d[k] = Empty)
    BY <1>1, CorePlaces DEF n
  <2>2. r[k] = Kept(p.transform, p.backend, d[k])
    BY <1>1
  <2>3. CASE k \in 1..n
    <3>1. Fits(p.transform, p.strict, p.backend, d[k]) /\ d[k] \in Label
      BY <1>1, <1>2, <2>3 DEF d, n
    <3> QED BY <1>1, <2>1, <2>2, <3>1, KeptType
  <2>4. CASE d[k] = Empty /\ k \notin 1..n
    BY <2>1, <2>2, <2>4, EmptyIsKept, LabelAssumption
  <2> QED BY <2>1, <2>2, <2>3, <2>4
<1>4. r \in Seq(Label) /\ DOMAIN r = DOMAIN d /\ Len(r) = Len(d) /\ r # <<>>
  <2>1. DOMAIN r = 1..Len(d) /\ r = [k \in 1..Len(d) |-> r[k]]
    BY <1>1, <1>2
  <2>2. \A k \in 1..Len(d) : r[k] \in Label
    BY <1>2, <1>3
  <2>3. r \in [1..Len(d) -> Label]
    BY <2>1, <2>2
  <2>4. r \in Seq(Label)
    <3>1. r \in UNION {[1..m -> Label] : m \in Nat}
      <4>1. Len(d) \in Nat
        BY <1>2
      <4> QED BY <2>3, <4>1
    <3> QED BY <3>1, SeqDef, Zenon
  <2>5. Len(r) = Len(d)
    BY <1>2, <2>1, <2>4, LenProperties
  <2> QED BY <1>2, <2>1, <2>4, <2>5
<1>5. HasTrailingDot(r) <=> HasTrailingDot(d)
  <2>1. CASE HasTrailingDot(d)
    <3>1. r[Len(d)] = Kept(p.transform, p.backend, Empty) /\ Len(d) > 1
      BY <1>2, <1>3, <2>1
    <3> QED BY <1>4, <2>1, <3>1, EmptyIsKept DEF HasTrailingDot, Last
  <2>2. CASE ~HasTrailingDot(d)
    <3>1. Len(d) \in DOMAIN d /\ Len(d) \in 1..n
      BY <1>2, <2>2
    <3>2. r[Len(d)] # Empty
      BY <1>3, <3>1
    <3> QED BY <1>4, <2>2, <3>2 DEF HasTrailingDot, Last
  <2> QED BY <2>1, <2>2
<1>6. Len(Core(r)) = n /\ \A k \in 1..n : Core(r)[k] = r[k] /\ k \in DOMAIN d
  <2>1. Len(Core(r)) = IF HasTrailingDot(r) THEN Len(r) - 1 ELSE Len(r)
    BY <1>4, CoreType
  <2>2. n = IF HasTrailingDot(d) THEN Len(d) - 1 ELSE Len(d)
    BY <1>1, CoreType DEF n
  <2>3. Len(Core(r)) = n
    BY <1>4, <1>5, <2>1, <2>2
  <2>4. \A k \in 1..Len(Core(r)) : Core(r)[k] = r[k]
    BY <1>4, CoreLabels
  <2>5. \A k \in 1..n : k \in DOMAIN d
    <3>1. DOMAIN d = 1..Len(d) /\ n \in Nat /\ Len(d) \in Nat /\ n <= Len(d)
      BY <1>2
    <3> QED BY <3>1
  <2> QED BY <2>3, <2>4, <2>5
<1>7. Core(r) # <<Empty>>
  <2>1. 1 \in 1..n /\ 1 \in DOMAIN d
    <3>1. n \in Nat \ {0}
      BY <1>2
    <3> QED BY <1>6, <3>1
  <2>2. Core(r)[1] # Empty
    BY <1>3, <1>6, <2>1
  <2> QED BY <2>2
<1> QED BY <1>2, <1>3, <1>4, <1>6, <1>7 DEF d, r, n

\* A result of strict mode is given to the next call without a complaint of the
\* whole domain: it has no mark of a URL.
LEMMA ResultAccepted ==
    ASSUME library \in Libraries, EncodesAlike, InsertsNonAscii,
           NEW p, Finished(p), p.outcome = "done", p.strict, domain = p.result, transform # "none"
    PROVE  ~DomainRefused(transform, strict, backend, domain)
<1>1. /\ DOMAIN domain = DOMAIN p.domain /\ Core(domain) # <<Empty>>
      /\ \A k \in DOMAIN domain : /\ domain[k] = Kept(p.transform, p.backend, p.domain[k])
                                  /\ \/ p.domain[k] = Empty
                                     \/ Fits(p.transform, p.strict, p.backend, p.domain[k])
  BY ResultShape
<1>2. p.domain \in Seq(Label) /\ p.strict = TRUE /\ p.backend \in Backends
  BY DEF Finished
<1>3. ASSUME NEW k \in DOMAIN domain PROVE ~About[domain[k]].marker /\ ~About[domain[k]].colon
  <2>1. p.domain[k] \in Label /\ domain[k] = Kept(p.transform, p.backend, p.domain[k])
    BY <1>1, <1>2, LenProperties
  <2>2. domain[k] \in Label /\ About[domain[k]].ldh
    <3>1. CASE p.domain[k] = Empty
      BY <2>1, <3>1, EmptyIsKept, BytesAssumption, LabelAssumption
    <3>2. CASE Fits(p.transform, TRUE, p.backend, p.domain[k])
      <4>1. Kept(p.transform, p.backend, p.domain[k]) \in Label
        BY <1>2, <2>1, <3>2, KeptType
      <4>2. About[Kept(p.transform, p.backend, p.domain[k])].ldh
        BY <1>2, <2>1, <3>2, StrictIsInTree
      <4> QED BY <2>1, <4>1, <4>2
    <3> QED BY <1>1, <1>2, <3>1, <3>2
  <2> QED BY <2>2, BytesAssumption
<1> QED BY <1>1, <1>3 DEF DomainRefused, LooksLikeUrl

\* Whatever in-tree answer there is, a conforming libidn2 has it too or none; the
\* automatic backend has it in either case.
LEMMA AnsweredAlike ==
    ASSUME library \in Libraries, EncodesAlike, NEW b \in Backends, NEW l \in Label
    PROVE  /\ ~About[l].ascii => \/ Encode(b, l) = About[l].enc
                                 \/ b = "libidn2" /\ Encode(b, l) \in CodecError
           /\ DecodesAlike /\ About[l].xn /\ About[l].dec \in Label =>
                 \/ Decode(b, l) = About[l].dec
                 \/ b = "libidn2" /\ Decode(b, l) \in CodecError
<1> DEFINE e == Idn2Encode[library][l]
           d == Idn2Decode[library][l]
<1>1. e \in Label \cup CodecError /\ d \in Label \cup CodecError
  BY LibraryAssumption
<1>2. ~About[l].ascii => e \in CodecError \/ e = About[l].enc
  BY <1>1 DEF EncodesAlike
<1>3. DecodesAlike /\ About[l].xn /\ About[l].dec \in Label => d \in CodecError \/ d = About[l].dec
  BY <1>1 DEF DecodesAlike
<1>4. About[l].dec \in Label => About[l].dec \notin CodecError
  BY LabelAssumption
<1> QED BY <1>2, <1>3, <1>4 DEF Encode, Decode, Retried, Backends

\* So a call with libidn2 that conforms takes what the in-tree codec takes and keeps
\* the same, unless it is libidn2 alone and its codec refuses.
LEMMA FitsAlike ==
    ASSUME library \in Libraries, Conforms, NEW t, NEW s \in BOOLEAN, NEW b \in Backends, NEW l \in Label,
           Fits(t, s, "fallback", l)
    PROVE  \/ Fits(t, s, b, l) /\ Kept(t, b, l) = Kept(t, "fallback", l)
           \/ b = "libidn2" /\ CodecRefuses(t, s, b, l)
<1> DEFINE d == About[l].dec
<1>1. /\ Encode("fallback", l) = About[l].enc /\ Decode("fallback", l) = d
      /\ Encode("fallback", d) = About[d].enc
      /\ Refusal(t, s, l) = "none" /\ EncodesAlike /\ DecodesAlike
  BY DEF Encode, Decode, Fits, Conforms
<1>2. CASE About[l].ascii /\ ~About[l].xn
  BY <1>1, <1>2 DEF Fits, Kept
<1>3. CASE About[l].ascii /\ About[l].xn
  <2>1. d \in Label /\ d # Empty /\ d \notin CodecError
    BY <1>1, <1>3, CodecAssumption, TableType DEF Fits, AboutType
  <2>2. Decode(b, l) = d \/ (b = "libidn2" /\ Decode(b, l) \in CodecError)
    BY <1>1, <1>3, <2>1, AnsweredAlike
  <2>3. Encode(b, d) = About[d].enc \/ (b = "libidn2" /\ Encode(b, d) \in CodecError)
    <3>1. CASE About[d].ascii
      BY <2>1, <3>1, CodecAssumption DEF Encode
    <3>2. CASE ~About[d].ascii
      BY <1>1, <2>1, <3>2, AnsweredAlike
    <3> QED BY <3>1, <3>2
  <2>4. s => Accepts(About[d].enc, l)
    BY <1>1, <1>3 DEF Fits
  <2> HIDE DEF d
  <2> QED BY <1>1, <1>3, <2>1, <2>2, <2>3, <2>4 DEF Fits, Kept, CodecRefuses
<1>4. CASE ~About[l].ascii
  <2>1. Encode(b, l) = About[l].enc \/ (b = "libidn2" /\ Encode(b, l) \in CodecError)
    BY <1>1, <1>4, AnsweredAlike
  <2>2. CASE t = "encode" \/ s
    BY <1>1, <1>4, <2>1, <2>2 DEF Fits, Kept, CodecRefuses
  <2>3. CASE ~(t = "encode" \/ s)
    BY <1>1, <1>4, <2>3 DEF Fits, Kept
  <2> QED BY <2>2, <2>3
<1> QED BY <1>2, <1>3, <1>4

\* What a second call makes of one label: of what strict mode encoded, ...
LEMMA EncodedAgain ==
    ASSUME library \in Libraries, EncodesAlike, InsertsNonAscii, NEW b \in Backends, NEW l \in Label,
           Fits("encode", TRUE, b, l), NEW t \in {"encode", "decode"}, NEW s \in BOOLEAN,
           Refusal(t, s, Kept("encode", b, l)) # "label_length_limit"
    PROVE  LET o == Kept("encode", b, l) IN
           /\ o \in Label /\ Fits(t, s, "fallback", o)
           /\ Kept("decode", "fallback", o) = AsUnicode(l)
<1> DEFINE o == Kept("encode", b, l)
<1>0. Fits("encode", TRUE, "fallback", l) /\ o = Kept("encode", "fallback", l) /\ o \in Label
  BY StrictIsInTree, KeptType
<1>1. CASE About[l].ascii
  <2>1. o = l
    BY <1>1 DEF Kept
  <2>2. About[l].xn => About[l].dec # Empty /\ Decode("fallback", l) = About[l].dec
    BY <1>0, <1>1, StrictDecodeIsInTree DEF Decode
  <2>3. Fits(t, s, "fallback", l)
    BY <1>0, <1>1 DEF Fits, Refusal
  <2> QED BY <1>0, <1>1, <2>1, <2>2, <2>3 DEF Kept, AsUnicode
<1>2. CASE ~About[l].ascii
  <2>1. o = About[l].enc /\ About[l].enc \notin CodecError /\ About[l].ldh /\ ~About[l].hyphen
    BY <1>0, <1>2, KeptType DEF Fits, Kept, Encode
  <2>2. About[l].wellFormed
    BY <2>1, CodecAssumption
  <2>3. /\ o \in Label /\ About[o].ascii /\ About[o].xn /\ About[o].ldh /\ ~About[o].hyphen
        /\ About[o].size <= MaxLabelLength => About[o].dec = l
    BY <1>2, <2>1, <2>2, CodecAssumption
  <2> HIDE DEF o
  <2>4. About[o].size \in Nat /\ About[o].size >= 4 /\ MaxLabelLength \in Nat
    BY <2>3, TableType, BytesAssumption, LabelAssumption DEF AboutType
  <2>5. About[o].size <= MaxLabelLength /\ Refusal(t, s, o) = "none"
    <3>1. Refusal(t, s, o) # "label_length_limit"
      BY DEF o
    <3> QED BY <2>3, <2>4, <3>1 DEF Refusal
  <2>6. /\ Decode("fallback", o) = l /\ Encode("fallback", l) = o /\ l \notin CodecError /\ l # Empty
        /\ Accepts(o, o)
    BY <1>2, <2>1, <2>3, <2>5, LabelAssumption, BytesAssumption DEF Accepts, Canonical, Decode, Encode
  <2>7. Fits(t, s, "fallback", o)
    BY <2>3, <2>5, <2>6 DEF Fits
  <2>8. Kept("decode", "fallback", o) = l /\ AsUnicode(l) = l
    BY <1>2, <2>3, <2>6 DEF Kept, AsUnicode
  <2> QED BY <2>3, <2>7, <2>8 DEF o
<1> QED BY <1>1, <1>2

\* ... of what it decoded, ...
LEMMA DecodedAgain ==
    ASSUME library \in Libraries, EncodesAlike, InsertsNonAscii,
           NEW b \in Backends, NEW c \in Backends, NEW s \in BOOLEAN, NEW l \in Label,
           Fits("decode", TRUE, b, l)
    PROVE  LET o == Kept("decode", b, l) IN
           /\ Fits("encode", s, c, o) => SameLabel(Kept("encode", c, o), AsAscii(l))
           /\ \/ Fits("encode", s, c, o)
              \/ Refusal("encode", s, o) = "label_length_limit"
              \/ Refusal("encode", s, o) = "none" /\ c = "libidn2" /\ CodecRefuses("encode", s, c, o)
              \/ /\ Refusal("encode", s, o) = "domain_label_hyphen" /\ s
                 /\ About[o].hyphen /\ About[l].xn
<1> DEFINE o == Kept("decode", b, l)
<1>1. About[l].ldh /\ ~About[l].hyphen /\ o \in Label /\ o # Empty /\ About[o].ldh
  BY KeptType, StrictIsInTree
<1>2. CASE About[l].ascii /\ About[l].xn
  <2>1. /\ o = About[l].dec /\ ~About[o].ascii
        /\ SameLabel(About[o].enc, l) /\ About[o].enc \notin CodecError
    BY <1>2, StrictDecodeIsInTree DEF Kept, Accepts, Canonical, SameLabel
  <2>2. AsAscii(l) = l
    BY <1>2 DEF AsAscii
  <2> HIDE DEF o
  <2>3. Encode(c, o) = About[o].enc \/ (c = "libidn2" /\ Encode(c, o) \in CodecError)
    BY <1>1, <2>1, AnsweredAlike
  <2>4. Refusal("encode", s, o) \in {"none", "label_length_limit", "domain_label_hyphen"}
        /\ (Refusal("encode", s, o) = "domain_label_hyphen" => s /\ About[o].hyphen)
    BY <1>1, BytesAssumption DEF Refusal
  <2>5. CASE Encode(c, o) = About[o].enc
    <3>1. Refusal("encode", s, o) = "none" => Fits("encode", s, c, o)
      BY <2>1, <2>5 DEF Fits
    <3>2. Kept("encode", c, o) = About[o].enc
      BY <2>1, <2>5 DEF Kept
    <3> QED BY <1>2, <2>1, <2>2, <2>4, <3>1, <3>2 DEF o
  <2>6. CASE c = "libidn2" /\ Encode(c, o) \in CodecError
    <3>1. ~Fits("encode", s, c, o) /\ CodecRefuses("encode", s, c, o)
      BY <2>1, <2>6 DEF Fits, CodecRefuses
    <3> QED BY <1>2, <2>4, <2>6, <3>1 DEF o
  <2> QED BY <2>3, <2>5, <2>6
<1>3. CASE About[l].ascii /\ ~About[l].xn
  <2>1. o = l /\ Fits("encode", s, c, l) /\ Kept("encode", c, l) = l /\ AsAscii(l) = l
    BY <1>3 DEF Kept, Fits, Refusal, AsAscii
  <2> QED BY <2>1 DEF SameLabel
<1>4. CASE ~About[l].ascii
  <2>1. o = l /\ Encode(b, l) \notin CodecError /\ Refusal("encode", s, l) = "none"
    BY <1>4 DEF Kept, Fits, Refusal
  <2>2. About[l].enc \notin CodecError /\ AsAscii(l) = About[l].enc
    BY <1>4, <2>1, EncodedIsAscii DEF AsAscii
  <2>3. Encode(c, l) = About[l].enc \/ (c = "libidn2" /\ Encode(c, l) \in CodecError)
    BY <1>4, AnsweredAlike
  <2>4. CASE Encode(c, l) = About[l].enc
    <3>1. Fits("encode", s, c, l) /\ Kept("encode", c, l) = About[l].enc
      BY <1>4, <2>1, <2>2, <2>4 DEF Fits, Kept
    <3> QED BY <2>1, <2>2, <3>1 DEF SameLabel
  <2>5. CASE c = "libidn2" /\ Encode(c, l) \in CodecError
    <3>1. ~Fits("encode", s, c, l) /\ CodecRefuses("encode", s, c, l)
      BY <1>4, <2>5 DEF Fits, CodecRefuses
    <3> QED BY <2>1, <2>5, <3>1
  <2> QED BY <2>3, <2>4, <2>5
<1> QED BY <1>2, <1>3, <1>4

\* ... and of a label a stricter call, or one that transforms nothing, has taken.
LEMMA FitsMildly ==
    ASSUME library \in Libraries, NEW b \in Backends, NEW l \in Label, NEW t, Fits(t, TRUE, b, l)
    PROVE  Fits(t, FALSE, b, l) /\ (t = "none" => \A u : \A s \in BOOLEAN : Fits(u, s, b, l))
<1>1. ~About[l].ascii => About[l].wellFormed
  BY EncodedIsAscii DEF Fits
<1> QED BY <1>1 DEF Fits, Refusal

\* So the second of two calls answers label by label, or stops at a label it
\* does not take.
Passed(p, t1, k) ==
    /\ p.domain[k] \in Label /\ Fits(t1, TRUE, p.backend, p.domain[k])
    /\ domain[k] = Kept(t1, p.backend, p.domain[k])

LEMMA SecondGiven ==
    ASSUME IInv, HInv, NEW p \in first, NEW t1, NEW t2 \in {"encode", "decode"}, Then(p, t1, t2)
    PROVE  /\ Progress /\ Ended /\ transform = t2 /\ Finished(p) /\ p.outcome = "done"
           /\ p.strict = TRUE /\ domain = p.result
           /\ strict \in BOOLEAN /\ backend \in Backends /\ p.backend \in Backends /\ library \in Libraries
           /\ DOMAIN domain = DOMAIN p.domain
           /\ \A k \in DOMAIN domain : (p.domain[k] = Empty /\ domain[k] = Empty) \/ Passed(p, t1, k)
           /\ \A k \in 1..Len(Core(domain)) : /\ k \in DOMAIN domain /\ Passed(p, t1, k)
                                              /\ Core(domain)[k] = domain[k]
<1>1. Finished(p) /\ Progress /\ Ended
  BY DEF HInv, Then
<1>2. /\ p.strict = TRUE /\ p.transform = t1
      /\ transform = t2 /\ domain = p.result /\ p.outcome = "done" /\ p.domain \in Seq(Label)
      /\ strict \in BOOLEAN /\ backend \in Backends /\ p.backend \in Backends /\ library \in Libraries
  BY <1>1 DEF Then, IInv, Types, Finished, Entries, Backends
<1>4. /\ DOMAIN domain = DOMAIN p.domain
      /\ \A k \in DOMAIN p.domain :
            /\ p.domain[k] \in Label /\ domain[k] = Kept(t1, p.backend, p.domain[k])
            /\ p.domain[k] = Empty \/ Fits(t1, TRUE, p.backend, p.domain[k])
  BY <1>1, <1>2, ResultShape, LenProperties
<1>5. \A k \in 1..Len(Core(domain)) :
         /\ k \in DOMAIN domain /\ Fits(t1, TRUE, p.backend, p.domain[k]) /\ p.domain[k] \in Label
         /\ Core(domain)[k] = Kept(t1, p.backend, p.domain[k])
  BY <1>1, <1>2, <1>4, ResultShape
<1>6. \A k \in DOMAIN domain : (p.domain[k] = Empty /\ domain[k] = Empty) \/ Passed(p, t1, k)
  BY <1>4, EmptyIsKept DEF Passed
<1>7. \A k \in 1..Len(Core(domain)) : /\ k \in DOMAIN domain /\ Passed(p, t1, k)
                                        /\ Core(domain)[k] = domain[k]
  BY <1>4, <1>5 DEF Passed
<1> QED BY <1>1, <1>2, <1>4, <1>6, <1>7

LEMMA SecondDone ==
    ASSUME IInv, HInv, NEW p \in first, NEW t1, NEW t2 \in {"encode", "decode"}, Then(p, t1, t2), Done
    PROVE  /\ Result \in Seq(Label) /\ DOMAIN Result = DOMAIN domain /\ DOMAIN domain = DOMAIN p.domain
           /\ \A k \in DOMAIN domain :
                 \/ p.domain[k] = Empty /\ domain[k] = Empty /\ Result[k] = Empty
                 \/ /\ Passed(p, t1, k) /\ Fits(t2, strict, backend, domain[k])
                    /\ Result[k] = Kept(t2, backend, domain[k])
<1>1. /\ Progress /\ transform = t2 /\ DOMAIN domain = DOMAIN p.domain
      /\ library \in Libraries /\ p.backend \in Backends
      /\ \A k \in DOMAIN domain : (p.domain[k] = Empty /\ domain[k] = Empty) \/ Passed(p, t1, k)
  BY SecondGiven
<1>2. Finished(Answer) /\ Answer.outcome = "done" /\ Answer.strict = strict /\ Answer.transform = t2
      /\ Answer.result = Result /\ Answer.domain = domain /\ Answer.backend = backend
  BY <1>1, AnswerFinished DEF Answer, Done
<1>3. /\ Result \in Seq(Label) /\ DOMAIN Result = DOMAIN domain
      /\ \A k \in DOMAIN domain : /\ domain[k] = Empty \/ Fits(t2, strict, backend, domain[k])
                                  /\ Result[k] = Kept(t2, backend, domain[k])
  BY <1>1, <1>2, ResultShape
<1>4. ASSUME NEW k \in DOMAIN domain, Passed(p, t1, k) PROVE Fits(t2, strict, backend, domain[k])
  <2>1. domain[k] # Empty
    BY <1>1, <1>4, KeptType DEF Passed
  <2> QED BY <1>3, <2>1
<1> QED BY <1>1, <1>3, <1>4, EmptyIsKept

LEMMA SecondRefused ==
    ASSUME IInv, HInv, EncodesAlike, InsertsNonAscii,
           NEW p \in first, NEW t1, NEW t2 \in {"encode", "decode"}, Then(p, t1, t2), ~Done
    PROVE  \E k \in DOMAIN domain :
              Passed(p, t1, k) /\ Failing(t2, strict, backend, domain[k], outcome)
<1>1. /\ Progress /\ Ended /\ transform = t2 /\ Finished(p) /\ p.outcome = "done" /\ library \in Libraries
      /\ p.strict = TRUE /\ domain = p.result
      /\ \A k \in 1..Len(Core(domain)) : /\ k \in DOMAIN domain /\ Passed(p, t1, k)
                                         /\ Core(domain)[k] = domain[k]
  BY SecondGiven
<1>2. ~DomainRefused(transform, strict, backend, domain)
  BY <1>1, ResultAccepted
<1>3. PICK k \in 1..Len(Core(domain)) : Failing(transform, strict, backend, Core(domain)[k], outcome)
  BY <1>1, <1>2, Answered
<1> QED BY <1>1, <1>3

\* A conforming libidn2 or not, what strict mode encoded is refused by its length
\* alone, or by libidn2 alone.
LEMMA EncodedRefused ==
    ASSUME IInv, HInv, Conforms, NEW p \in first, NEW t2 \in {"encode", "decode"},
           Then(p, "encode", t2), ~Done
    PROVE  DoneOrRefused(FALSE)
<1>1. EncodesAlike /\ InsertsNonAscii
  BY DEF Conforms
<1>2. PICK k \in DOMAIN domain :
         Passed(p, "encode", k) /\ Failing(t2, strict, backend, domain[k], outcome)
  BY <1>1, SecondRefused
<1>3. strict \in BOOLEAN /\ backend \in Backends /\ p.backend \in Backends /\ library \in Libraries
  BY SecondGiven
<1>4. CASE Refusal(t2, strict, domain[k]) = "label_length_limit"
  BY <1>2, <1>4 DEF Failing, DoneOrRefused
<1>5. CASE Refusal(t2, strict, domain[k]) # "label_length_limit"
  <2>1. domain[k] \in Label /\ Fits(t2, strict, "fallback", domain[k])
    BY <1>1, <1>2, <1>3, <1>5, EncodedAgain DEF Passed
  <2>2. backend = "libidn2" /\ CodecRefuses(t2, strict, backend, domain[k])
    BY <1>2, <1>3, <2>1, FitsAlike DEF Failing
  <2>3. Refusal(t2, strict, domain[k]) = "none"
    BY <2>1 DEF Fits
  <2> QED BY <1>2, <2>2, <2>3 DEF Failing, DoneOrRefused
<1> QED BY <1>4, <1>5

\* Encoding what strict mode encoded gives it back whatever libidn2 does, and with
\* one that conforms it is refused at kMaxLabelLength or by libidn2 alone.
THEOREM EncodedStaysEncoded == CallSpec => []EncodeStable
<1>1. ASSUME IInv, HInv, NEW p \in first, Then(p, "encode", "encode")
      PROVE  /\ Done => Result = domain
             /\ Conforms => DoneOrRefused(TRUE)
  <2>1. ASSUME Done PROVE Result = domain
    <3>1. /\ Result \in Seq(Label) /\ DOMAIN Result = DOMAIN domain
          /\ \A k \in DOMAIN domain :
                 \/ domain[k] = Empty /\ Result[k] = Empty
                 \/ Passed(p, "encode", k) /\ Result[k] = Kept("encode", backend, domain[k])
      BY <1>1, <2>1, SecondDone
    <3>2. p.backend \in Backends /\ library \in Libraries
      BY <1>1, SecondGiven
    <3>3. ASSUME NEW k \in DOMAIN domain, Passed(p, "encode", k) PROVE About[domain[k]].ascii
      BY <3>2, <3>3, EncodedIsAscii DEF Passed, Kept, Fits
    <3>4. ASSUME NEW k \in DOMAIN domain PROVE Result[k] = domain[k]
      BY <3>1, <3>3 DEF Kept
    <3>5. domain \in Seq(Label)
      BY <1>1 DEF IInv, Types
    <3> QED BY <3>1, <3>4, <3>5, LenProperties, SeqEqual
  <2>2. ASSUME Conforms PROVE DoneOrRefused(TRUE)
    BY <1>1, <2>2, EncodedRefused DEF DoneOrRefused
  <2> QED BY <2>1, <2>2
<1>2. IInv /\ HInv => EncodeStable
  BY <1>1 DEF EncodeStable
<1> QED BY <1>2, CallInvariance, PTL

\* Decoding what strict mode encoded gives the Unicode form of the domain, label
\* by label, through whatever backends, or stops at kMaxLabelLength or at a
\* refusal of libidn2 alone; for every libidn2 that conforms.
THEOREM DecodingInvertsEncoding == CallSpec => []DecodeInvertsEncode
<1>1. ASSUME IInv, HInv, Conforms, NEW p \in first, Then(p, "encode", "decode")
      PROVE  DoneOrRefused(Result = Each(AsUnicode, p.domain))
  <2>0. EncodesAlike /\ InsertsNonAscii
    BY <1>1 DEF Conforms
  <2>1. CASE Done
    <3>1. /\ Result \in Seq(Label) /\ DOMAIN Result = DOMAIN p.domain /\ DOMAIN domain = DOMAIN p.domain
          /\ \A k \in DOMAIN domain :
                 \/ p.domain[k] = Empty /\ Result[k] = Empty
                 \/ /\ Passed(p, "encode", k) /\ Fits("decode", strict, backend, domain[k])
                    /\ Result[k] = Kept("decode", backend, domain[k])
      BY <1>1, <2>1, SecondDone
    <3>2. AsUnicode(Empty) = Empty
      BY BytesAssumption, LabelAssumption DEF AsUnicode
    <3>3. strict \in BOOLEAN /\ backend \in Backends /\ p.backend \in Backends /\ library \in Libraries
      BY <1>1, SecondGiven
    <3>4. ASSUME NEW k \in DOMAIN domain, Passed(p, "encode", k), Fits("decode", strict, backend, domain[k])
          PROVE  Kept("decode", backend, domain[k]) = AsUnicode(p.domain[k])
      <4>1. Refusal("decode", strict, domain[k]) # "label_length_limit"
        BY <3>4 DEF Fits
      <4>2. /\ domain[k] \in Label /\ Fits("decode", strict, "fallback", domain[k])
            /\ Kept("decode", "fallback", domain[k]) = AsUnicode(p.domain[k])
        BY <2>0, <3>3, <3>4, <4>1, EncodedAgain DEF Passed
      <4>3. ~CodecRefuses("decode", strict, backend, domain[k])
        BY <3>4, LabelAssumption DEF Fits, CodecRefuses, Accepts
      <4> QED BY <1>1, <3>3, <4>2, <4>3, FitsAlike
    <3>5. Result = [k \in DOMAIN p.domain |-> AsUnicode(p.domain[k])]
      <4>1. Result = [k \in DOMAIN p.domain |-> Result[k]]
        BY <3>1
      <4>2. \A k \in DOMAIN p.domain : Result[k] = AsUnicode(p.domain[k])
        BY <3>1, <3>2, <3>4
      <4> QED BY <4>1, <4>2
    <3> QED BY <2>1, <3>5 DEF DoneOrRefused, Each
  <2>2. CASE ~Done
    BY <1>1, <2>2, EncodedRefused DEF DoneOrRefused
  <2> QED BY <2>1, <2>2
<1>2. IInv /\ HInv => DecodeInvertsEncode
  BY <1>1 DEF DecodeInvertsEncode
<1> QED BY <1>2, CallInvariance, PTL

\* Encoding what strict mode decoded gives the A-labels back, but for the case
\* of their prefixes, or stops at kMaxLabelLength, at a hyphen the A-label hid or
\* at a refusal of libidn2 alone; through whatever backends and whatever libidn2
\* decodes, as long as it encodes as the in-tree codec does and inserts no ASCII.
THEOREM EncodingInvertsDecoding == CallSpec => []EncodeInvertsDecode
<1>1. ASSUME IInv, HInv, EncodesAlike, InsertsNonAscii, NEW p \in first, Then(p, "decode", "encode")
      PROVE  \/ DoneOrRefused(\A k \in DOMAIN domain : SameLabel(Result[k], AsAscii(p.domain[k])))
             \/ /\ outcome = "domain_label_hyphen" /\ strict
                /\ \E k \in DOMAIN domain : About[domain[k]].hyphen /\ About[p.domain[k]].xn
  <2>0. strict \in BOOLEAN /\ backend \in Backends /\ p.backend \in Backends /\ library \in Libraries
    BY <1>1, SecondGiven
  <2>1. CASE Done
    <3>1. \A k \in DOMAIN domain :
                 \/ p.domain[k] = Empty /\ Result[k] = Empty
                 \/ /\ Passed(p, "decode", k) /\ Fits("encode", strict, backend, domain[k])
                    /\ Result[k] = Kept("encode", backend, domain[k])
      BY <1>1, <2>1, SecondDone
    <3>2. SameLabel(Empty, AsAscii(Empty))
      BY BytesAssumption, LabelAssumption DEF AsAscii, SameLabel
    <3>3. ASSUME NEW k \in DOMAIN domain PROVE SameLabel(Result[k], AsAscii(p.domain[k]))
      <4>1. CASE p.domain[k] = Empty /\ Result[k] = Empty
        BY <3>2, <4>1
      <4>2. CASE /\ Passed(p, "decode", k) /\ Fits("encode", strict, backend, domain[k])
                 /\ Result[k] = Kept("encode", backend, domain[k])
        <5>1. p.domain[k] \in Label /\ Fits("decode", TRUE, p.backend, p.domain[k])
              /\ domain[k] = Kept("decode", p.backend, p.domain[k])
          BY <4>2 DEF Passed
        <5>2. Fits("encode", strict, backend, Kept("decode", p.backend, p.domain[k]))
          BY <4>2, <5>1
        <5>3. SameLabel(Kept("encode", backend, Kept("decode", p.backend, p.domain[k])), AsAscii(p.domain[k]))
          BY <1>1, <2>0, <5>1, <5>2, DecodedAgain
        <5> QED BY <4>2, <5>1, <5>3
      <4> QED BY <3>1, <4>1, <4>2
    <3> QED BY <2>1, <3>3 DEF DoneOrRefused
  <2>2. CASE ~Done
    <3>1. PICK k \in DOMAIN domain :
              Passed(p, "decode", k) /\ Failing("encode", strict, backend, domain[k], outcome)
      BY <1>1, <2>2, SecondRefused
    <3>2. \/ Refusal("encode", strict, domain[k]) = "label_length_limit"
          \/ /\ Refusal("encode", strict, domain[k]) = "none" /\ backend = "libidn2"
             /\ CodecRefuses("encode", strict, backend, domain[k])
          \/ /\ Refusal("encode", strict, domain[k]) = "domain_label_hyphen" /\ strict
             /\ About[domain[k]].hyphen /\ About[p.domain[k]].xn
      <4>1. p.domain[k] \in Label /\ Fits("decode", TRUE, p.backend, p.domain[k])
            /\ domain[k] = Kept("decode", p.backend, p.domain[k])
            /\ ~Fits("encode", strict, backend, domain[k])
        BY <3>1 DEF Passed, Failing
      <4>2. LET o == Kept("decode", p.backend, p.domain[k]) IN
               \/ Fits("encode", strict, backend, o)
               \/ Refusal("encode", strict, o) = "label_length_limit"
               \/ Refusal("encode", strict, o) = "none" /\ backend = "libidn2"
                  /\ CodecRefuses("encode", strict, backend, o)
               \/ Refusal("encode", strict, o) = "domain_label_hyphen" /\ strict
                  /\ About[o].hyphen /\ About[p.domain[k]].xn
        BY <1>1, <2>0, <4>1, DecodedAgain
      <4> QED BY <4>1, <4>2
    <3> QED BY <3>1, <3>2 DEF Failing, DoneOrRefused
  <2> QED BY <2>1, <2>2
<1>2. IInv /\ HInv => EncodeInvertsDecode
  BY <1>1 DEF EncodeInvertsDecode
<1> QED BY <1>2, CallInvariance, PTL

\* What strict mode answers lenient mode of the same backend answers too, and
\* alike, whatever libidn2 does; and so in strict mode the in-tree codec what
\* libidn2 answers, retried or alone and whatever it decodes.
THEOREM LenientAnswersAlike == CallSpec => []StricterOnlyRefuses
<1>1. ASSUME IInv, HInv, NEW p \in first, Both(p), p.transform = transform, Milder(p)
      PROVE  Done /\ Result = p.result
  <2>1. /\ Finished(p) /\ Progress /\ Ended /\ p.outcome = "done" /\ p.domain = domain
        /\ p.strict = TRUE /\ p.backend \in Backends /\ library \in Libraries /\ strict \in BOOLEAN
        /\ domain \in Seq(Label) /\ domain # <<>>
    BY <1>1 DEF HInv, Both, Milder, Finished, IInv, Types
  <2>2. backend = p.backend \/ backend = "fallback"
    BY <1>1 DEF Milder
  <2>3. ~DomainRefused(transform, strict, backend, domain)
    BY <1>1, <2>1, <2>2 DEF Finished, DomainRefused
  <2>4. ASSUME NEW l \in Label, Fits(transform, TRUE, p.backend, l)
        PROVE  Fits(transform, strict, backend, l) /\ Kept(transform, backend, l) = Kept(transform, p.backend, l)
    <3>1. CASE ~strict /\ p.backend = backend
      BY <2>1, <2>4, <3>1, FitsMildly
    <3>2. CASE strict /\ backend = "fallback" /\ EncodesAlike /\ InsertsNonAscii
      BY <2>1, <2>4, <3>2, StrictIsInTree
    <3> QED BY <1>1, <2>1, <3>1, <3>2 DEF Milder
  <2>5. \A k \in 1..Len(Core(domain)) :
           Core(domain)[k] \in Label /\ Fits(transform, TRUE, p.backend, Core(domain)[k])
    BY <1>1, <2>1, CoreLabels DEF Finished
  <2>6. \A k \in 1..Len(Core(domain)) : ~Failing(transform, strict, backend, Core(domain)[k], outcome)
    BY <2>4, <2>5 DEF Failing
  <2>7. Done /\ Result = [k \in DOMAIN domain |-> Kept(transform, backend, domain[k])]
    BY <1>1, <2>1, <2>3, <2>6, Answered
  <2>8. ASSUME NEW k \in DOMAIN domain
        PROVE  Kept(transform, backend, domain[k]) = Kept(transform, p.backend, domain[k])
    <3>1. CASE k \in 1..Len(Core(domain))
      BY <2>1, <2>4, <2>5, <3>1, CoreLabels
    <3>2. CASE domain[k] = Empty
      BY <3>2, EmptyIsKept
    <3> QED BY <2>1, <3>1, <3>2, CorePlaces
  <2>9. p.result = [k \in DOMAIN domain |-> Kept(transform, p.backend, domain[k])]
    BY <1>1, <2>1 DEF Finished
  <2> QED BY <2>7, <2>8, <2>9
<1>2. IInv /\ HInv => StricterOnlyRefuses
  BY <1>1 DEF StricterOnlyRefuses
<1> QED BY <1>2, CallInvariance, PTL

\* A domain validate_domain accepts in strict mode puny_encode and puny_decode
\* accept too, in either mode and whatever libidn2 does, unless it looks like a URL.
THEOREM ValidDomainsAreUsable == CallSpec => []ValidMeansUsable
<1>1. ASSUME IInv, HInv, NEW p \in first, Both(p), p.transform = "none", p.strict,
             backend = "automatic", ~LooksLikeUrl(domain)
      PROVE  Done
  <2>1. /\ Finished(p) /\ Progress /\ Ended /\ p.outcome = "done" /\ p.domain = domain
        /\ p.strict = TRUE /\ strict \in BOOLEAN /\ library \in Libraries
        /\ p.backend = "automatic"
    BY <1>1 DEF HInv, Both, Finished, IInv, Types, Entries
  <2>2. ~DomainRefused(transform, strict, backend, domain)
    BY <1>1, <2>1 DEF Finished, DomainRefused
  <2>3. \A k \in 1..Len(Core(domain)) : Fits(transform, strict, backend, Core(domain)[k])
    <3>1. \A k \in 1..Len(Core(domain)) : Core(domain)[k] \in Label
                                         /\ Fits("none", TRUE, "automatic", Core(domain)[k])
      BY <1>1, <2>1, CoreLabels DEF Finished
    <3> QED BY <1>1, <2>1, <3>1, FitsMildly DEF Backends
  <2> QED BY <1>1, <2>1, <2>2, <2>3, Answered DEF Failing
<1>2. IInv /\ HInv => ValidMeansUsable
  BY <1>1 DEF ValidMeansUsable
<1> QED BY <1>2, CallInvariance, PTL
=============================================================================
