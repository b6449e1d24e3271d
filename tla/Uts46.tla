-------------------------------- MODULE Uts46 --------------------------------
(* The ToASCII operation of UTS #46 under the flags of a call, stated by its  *)
(* criteria and without an order of steps: ToASCII(h, o, {}). The profile of  *)
(* host_normalize() departs from it where Departures says, and nowhere else.  *)
EXTENDS Nfc

CONSTANTS Hosts, IllFormed, Options, Encoded, Decoded, MaxLabelLength,
          kMaxLabelOctets, kMaxHostOctets

VARIABLES host, opts,
          answer    \* none, or the answer of the call

\* Where the profile departs from the standard, and under which flags.
\*   root dot      one final dot is kept although VerifyDnsLength refuses an empty
\*                 root label (ADR-010 in DECISIONS.md)
\*   long label    an A-label past kMaxLabelLength is not decoded
\*                 (punycoder_algorithm.cpp:203); VerifyDnsLength refuses it anyway
\*   prefixed label  with CheckHyphens off a decoded label may begin with xn--
\*                 (test-idna-conformance.R:71)
\*   literals      with UseSTD3ASCIIRules off a payload with ASCII in it that is no
\*                 letter, digit or hyphen is not decoded (test-idna-conformance.R:176)
Departures(o) ==
    {IF o.verify_dns_length THEN "root dot" ELSE "long label"}
        \cup (IF o.check_hyphens THEN {} ELSE {"prefixed label"})
        \cup (IF o.use_std3 THEN {} ELSE {"literals"})

Dot == 46
Minus == 45
IsAscii(l) == \A k \in DOMAIN l : l[k] < 128
Status(cp) == idna_lookup(cp).status

\* Under use_std3 the two conditional statuses are refused, else they are not.
ValidStatus(o) == {"valid", "deviation"} \cup IF o.use_std3 THEN {} ELSE {"disallowed_std3_valid"}
MappedStatus(o) == {"mapped"} \cup IF o.use_std3 THEN {} ELSE {"disallowed_std3_mapped"}
MapsUnder(h, o) ==
    \A k \in DOMAIN h : Status(h[k]) \in ValidStatus(o) \cup MappedStatus(o) \cup {"ignored"}
MapOf(h, o) ==
    FlattenSeq([k \in DOMAIN h |->
        IF Status(h[k]) \in ValidStatus(o) THEN <<h[k]>>
        ELSE IF Status(h[k]) = "ignored" THEN <<>> ELSE idna_lookup(h[k]).map])

\* The labels of a text: what lies between two neighbouring stops.
LabelsOf(t) ==
    LET stops == SetToSortSeq({0, Len(t) + 1} \cup {k \in DOMAIN t : t[k] = Dot}, <)
    IN  [k \in 1 .. Len(stops) - 1 |-> SubSeq(t, stops[k] + 1, stops[k + 1] - 1)]

IsALabel(l) == Len(l) >= 4 /\ SubSeq(l, 1, 4) = <<120, 110, Minus, Minus>>
\* The label a payload decodes to, if it does. Decoded is what the decoder of the
\* profile takes; RFC 3492 also decodes whatever it encodes.
Payload(l, d) ==
    IF "long label" \in d /\ Len(l) > MaxLabelLength THEN {}
    ELSE {Decoded[a] : a \in DOMAIN Decoded \cap {l}}
            \cup {u \in DOMAIN Encoded : "literals" \notin d /\ Encoded[u] = l}
Decodes(l, d) == IsALabel(l) => Payload(l, d) # {}
ULabel(l, d) == IF IsALabel(l) THEN CHOOSE u \in Payload(l, d) : TRUE ELSE l
ALabel(u) == IF IsAscii(u) THEN u ELSE Encoded[u]

\* ContextJ of RFC 5892, appendix A.
Joiners(u) ==
    \A i \in DOMAIN u :
        LET Virama == i > 1 /\ combining_class(u[i - 1]) = 9
            Transparent(a, b) == \A k \in a + 1 .. b - 1 : joining_type(u[k]) = "T"
        IN  /\ u[i] = 8205 => Virama
            /\ u[i] = 8204 =>
                \/ Virama
                \/ \E a \in 1 .. i - 1, b \in i + 1 .. Len(u) :
                    /\ joining_type(u[a]) \in {"L", "D"} /\ Transparent(a, i)
                    /\ joining_type(u[b]) \in {"R", "D"} /\ Transparent(i, b)

\* The Bidi rule of RFC 5893, section 2: its six conditions.
Classes(u) == {bidi_class(u[k]) : k \in DOMAIN u}
EndsIn(u, classes) ==
    \E k \in DOMAIN u : /\ bidi_class(u[k]) \in classes
                        /\ \A j \in k + 1 .. Len(u) : bidi_class(u[j]) = "NSM"
BidiRule(u) ==
    LET first == bidi_class(u[1])
    IN  /\ first \in {"L", "R", "AL"}
        /\ first # "L" =>
            /\ Classes(u) \subseteq {"R", "AL", "AN", "EN", "ES", "CS", "ET", "ON", "BN", "NSM"}
            /\ EndsIn(u, {"R", "AL", "EN", "AN"})
            /\ ~({"EN", "AN"} \subseteq Classes(u))
        /\ first = "L" =>
            /\ Classes(u) \subseteq {"L", "EN", "ES", "CS", "ET", "ON", "BN", "NSM"}
            /\ EndsIn(u, {"L", "EN"})

\* The validity criteria of UTS #46, section 4.1, for a label that is not empty.
Valid(u, o, d) ==
    /\ nfc(u) = u
    /\ o.check_hyphens => /\ u[1] # Minus /\ u[Len(u)] # Minus
                          /\ ~(Len(u) >= 4 /\ u[3] = Minus /\ u[4] = Minus)
    /\ ~o.check_hyphens => ~IsALabel(u) \/ "prefixed label" \in d
    /\ \A k \in DOMAIN u : u[k] # Dot /\ Status(u[k]) \in ValidStatus(o)
    /\ o.use_std3 => \A k \in DOMAIN u :
            u[k] < 128 => u[k] \in {Minus} \cup 48 .. 57 \cup 97 .. 122
    /\ ~is_combining_mark(u[1])
    /\ Joiners(u)

\* What is normalized: where the root dot is kept it is no separator.
HasRoot(h, d) == "root dot" \in d /\ h # <<>> /\ h[Len(h)] = Dot
Body(h, d) == IF HasRoot(h, d) THEN SubSeq(h, 1, Len(h) - 1) ELSE h
Joins(ls) == Tail(FlattenSeq([k \in DOMAIN ls |-> <<Dot>> \o ls[k]]))

\* The labels of a host are accepted together: whether the Bidi rule applies to
\* one of them depends on all.
LabelsAccepted(given, o, d) ==
    LET u == [k \in DOMAIN given |-> ULabel(given[k], d)]
        bidi == \E k \in DOMAIN u : Classes(u[k]) \cap {"R", "AL", "AN"} # {}
    IN  \A k \in DOMAIN given :
            \/ given[k] = <<>>
            \/ /\ u[k] # <<>> /\ Valid(u[k], o, d)
               /\ bidi => BidiRule(u[k])
               /\ IsALabel(given[k]) => ALabel(u[k]) = given[k]

FitsDns(alabels) ==
    /\ \A k \in DOMAIN alabels : Len(alabels[k]) \in 1 .. kMaxLabelOctets
    /\ Len(Joins(alabels)) <= kMaxHostOctets

Refused == [valid |-> FALSE, value |-> <<>>]

Convert(given, o, d, root) ==
    LET alabels == [k \in DOMAIN given |-> ALabel(ULabel(given[k], d))]
    IN  IF /\ \A k \in DOMAIN given : Decodes(given[k], d)
           /\ LabelsAccepted(given, o, d)
           /\ o.verify_dns_length => FitsDns(alabels)
        THEN [valid |-> TRUE, value |-> Joins(alabels) \o IF root THEN <<Dot>> ELSE <<>>]
        ELSE Refused

\* The answer, as a singleton. So are mapped and given: TLC evaluates what a
\* variable is bound to once.
ToASCII(h, o, d) ==
    IF h = IllFormed \/ ~MapsUnder(Body(h, d), o) THEN {Refused}
    ELSE {Convert(given, o, d, HasRoot(h, d)) :
             given \in {LabelsOf(text) : text \in {nfc(mapped) : mapped \in {MapOf(Body(h, d), o)}}}}

\* A host is given, and answered once and with what the profile's ToASCII says;
\* then another.
Init == host \in Hosts /\ opts \in Options /\ answer = {}
Answer ==
    /\ answer = {} /\ answer' # {}
    /\ answer' = ToASCII(host, opts, Departures(opts)) /\ UNCHANGED <<host, opts>>
Ask == answer # {} /\ answer' = {} /\ opts' \in Options
Spec == Init /\ [][Answer \/ Ask]_<<host, opts, answer>>
=============================================================================
