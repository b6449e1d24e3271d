---------------------------- MODULE MCDomainCalls ---------------------------
(* Domains of one and two labels over 23 real labels, and some longer         *)
(* ones. With limits of 7, 11 and 12 bytes for a DNS label, a label and a     *)
(* domain, every check fails for some of them and passes for others.          *)
EXTENDS DomainCalls

Ascii(label, bytes) ==
    [size |-> bytes, ascii |-> TRUE, ldh |-> TRUE, hyphen |-> FALSE, xn |-> FALSE, payload |-> "",
     upper |-> FALSE, marker |-> FALSE, colon |-> FALSE, scheme |-> TRUE, letter |-> TRUE, wellFormed |-> TRUE,
     enc |-> label, dec |-> label]
ALabel(label, bytes, rest, unicode) ==
    [Ascii(label, bytes) EXCEPT !.xn = TRUE, !.payload = rest, !.dec = unicode]
ULabel(bytes, encoded) ==
    [Ascii(encoded, bytes) EXCEPT !.ascii = FALSE, !.scheme = FALSE, !.letter = FALSE, !.dec = "no prefix"]

Table ==
    ""             :> [Ascii("", 0) EXCEPT !.enc = "empty_domain_label", !.letter = FALSE] @@
    "a"            :> Ascii("a", 1) @@
    "-a"           :> [Ascii("-a", 2) EXCEPT !.hyphen = TRUE, !.letter = FALSE] @@
    "a_"           :> [Ascii("a_", 2) EXCEPT !.ldh = FALSE, !.scheme = FALSE] @@
    "a:"           :> [Ascii("a:", 2) EXCEPT !.ldh = FALSE, !.colon = TRUE] @@
    "u"            :> ULabel(2, "xn--tda") @@
    "uu"           :> ULabel(4, "xn--tdaa") @@
    "xn--u"        :> [ULabel(6, "xn--xn---3ra") EXCEPT !.xn = TRUE, !.letter = TRUE, !.payload = "u"] @@
    "a_u"          :> [ULabel(4, "xn--a_-yka") EXCEPT !.ldh = FALSE, !.letter = TRUE] @@
    "u:"           :> [ULabel(3, "xn--:-dha") EXCEPT !.ldh = FALSE, !.colon = TRUE] @@
    "-u"           :> [ULabel(3, "xn----eha") EXCEPT !.hyphen = TRUE] @@
    "xn----eha"    :> ALabel("xn----eha", 9, "--eha", "-u") @@
    "ff"           :> [ULabel(1, "invalid_utf8") EXCEPT !.wellFormed = FALSE] @@
    "xn--tda"      :> ALabel("xn--tda", 7, "tda", "u") @@
    "XN--tda"      :> ALabel("XN--tda", 7, "tda", "u") @@
    "xn--TDA"      :> [ALabel("xn--TDA", 7, "TDA", "u") EXCEPT !.upper = TRUE] @@
    "xn--tdaa"     :> ALabel("xn--tdaa", 8, "tdaa", "uu") @@
    "xn--xn---3ra" :> ALabel("xn--xn---3ra", 12, "xn---3ra", "xn--u") @@
    "xn--a-"       :> [ALabel("xn--a-", 6, "a-", "a") EXCEPT !.hyphen = TRUE] @@
    "xn--"         :> [ALabel("xn--", 4, "", "invalid_punycode_label") EXCEPT !.hyphen = TRUE] @@
    "xn--z"        :> ALabel("xn--z", 5, "z", "truncated_punycode_input") @@
    "xn--a_-yka"   :> [ALabel("xn--a_-yka", 10, "a_-yka", "invalid_basic_code_point")
                          EXCEPT !.ldh = FALSE, !.scheme = FALSE] @@
    "xn--:-dha"    :> [ALabel("xn--:-dha", 9, ":-dha", "invalid_basic_code_point")
                          EXCEPT !.ldh = FALSE, !.colon = TRUE]

TableLabels == DOMAIN Table

(* TLC evaluates Table and TableLabels once. *)
MCAbout == Table
MCLabel == TableLabels
MCCodecError == {"empty_domain_label", "no prefix", "invalid_utf8", "truncated_punycode_input",
                 "invalid_basic_code_point", "invalid_punycode_label", "backend_failure"}

(* libidn2 missing, or refusing all there is of one kind; agreeing with the   *)
(* in-tree codec but accepting more; and three that conform to nothing.       *)
RefusesAll == [l \in TableLabels |-> "backend_failure"]
EncodesRight == [l \in TableLabels |-> IF Table[l].ascii THEN "backend_failure" ELSE Table[l].enc]
DecodesRight == [l \in TableLabels |-> Table[l].dec]
AcceptsMore == [DecodesRight EXCEPT !["xn--a_-yka"] = "a_u", !["xn--z"] = "ff"]

MCIdn2Encode == [none |-> RefusesAll, decodes |-> RefusesAll, encodes |-> EncodesRight,
                 libidn2 |-> EncodesRight, strays |-> EncodesRight, echoes |-> EncodesRight,
                 swaps |-> [EncodesRight EXCEPT !["u"] = "xn--tdaa", !["uu"] = "xn--tda"]]
MCIdn2Decode == [none |-> RefusesAll, decodes |-> DecodesRight, encodes |-> RefusesAll,
                 libidn2 |-> AcceptsMore,
                 strays |-> [AcceptsMore EXCEPT !["xn--tda"] = "uu", !["xn--tdaa"] = "u",
                                                !["xn----eha"] = "u", !["xn--TDA"] = "uu"],
                 echoes |-> [AcceptsMore EXCEPT !["xn--z"] = "xn--z", !["xn--tda"] = ""],
                 swaps |-> AcceptsMore]
MCLibraries == DOMAIN MCIdn2Encode

Mixed == {"", "a", "a_", "a:", "u", "uu", "u:", "ff", "xn--tda", "xn--TDA"}

MCDomains == {<<l>> : l \in MCLabel} \cup (Mixed \X Mixed)
             \cup {<<"u", "a", "">>, <<"a", "", "">>, <<"u", "u", "u">>, <<"xn--tda", "a", "u", "">>}
=============================================================================
