---------------------------- MODULE MCNormalizer ----------------------------
(* Hosts of one and two labels over fifty-six labels that meet every check:   *)
(* cases and widths that map, marks to compose and to reorder, hyphens,       *)
(* underscores, joiners in and out of context, both directions, A-labels      *)
(* canonical, not canonical and not decodable, and labels over the limits.    *)
(* The tables are those of the 17.0.0 unit, and the A-labels the ones the     *)
(* codec writes. Limits of 13 and 22 octets for 63 and 253, and of 15 for the *)
(* 1024 the decoder takes.                                                    *)
EXTENDS HostCalls, TLC

Ace(s) == Prefix \o s

EncodedTable ==
    <<45, 252>> :> Ace(<<45, 45, 101, 104, 97>>) @@
    <<49, 1488>> :> Ace(<<49, 45, 48, 104, 99>>) @@
    <<61, 824>> :> Ace(<<61, 45, 50, 101, 98>>) @@
    <<97, 95, 252>> :> Ace(<<97, 95, 45, 121, 107, 97>>) @@
    <<97, 8205>> :> Ace(<<97, 45, 117, 103, 110>>) @@
    <<117, 776>> :> Ace(<<117, 45, 99, 99, 98>>) @@
    <<120, 110, 45, 45, 252>> :> Ace(<<120, 110, 45, 45, 45, 51, 114, 97>>) @@
    <<173>> :> Ace(<<107, 98, 97>>) @@
    <<220>> :> Ace(<<119, 99, 97>>) @@
    <<223>> :> Ace(<<122, 99, 97>>) @@
    <<252>> :> Ace(<<116, 100, 97>>) @@
    <<252, 252, 97, 45, 252, 45, 97>> :> Ace(<<97, 45, 45, 97, 45, 122, 114, 97, 97, 99>>) @@
    <<776, 97>> :> Ace(<<97, 45, 98, 99, 98>>) @@
    <<1488>> :> Ace(<<52, 100, 98>>) @@
    <<1488, 49>> :> Ace(<<49, 45, 122, 104, 99>>) @@
    <<1488, 49, 1632>> :> Ace(<<49, 45, 122, 104, 99, 55, 52, 98>>) @@
    <<1488, 97>> :> Ace(<<97, 45, 122, 104, 99>>) @@
    <<1488, 1456>> :> Ace(<<55, 99, 98, 55, 100>>) @@
    <<1575, 8204, 1576>> :> Ace(<<109, 103, 98, 99, 55, 57, 57, 113>>) @@
    <<1576, 1611, 8204, 1611, 1576>> :> Ace(<<110, 103, 98, 97, 56, 104, 97, 56, 55, 48, 52, 97>>) @@
    <<1576, 8204, 97>> :> Ace(<<97, 45, 48, 109, 99, 56, 57, 57, 113>>) @@
    <<1576, 8204, 1575>> :> Ace(<<109, 103, 98, 98, 56, 57, 57, 113>>) @@
    <<1576, 8204, 1576>> :> Ace(<<110, 103, 98, 97, 55, 57, 57, 113>>) @@
    <<1632>> :> Ace(<<56, 104, 98>>) @@
    <<2325, 2381, 8205>> :> Ace(<<49, 49, 98, 54, 105, 121, 49, 52, 101>>) @@
    <<8204, 1576>> :> Ace(<<110, 103, 98, 57, 54, 51, 107>>) @@
    <<8800>> :> Ace(<<49, 99, 104>>)

\* The decoder also takes xn--a-, but refuses a payload with "_" or "=" in it.
DecodedTable ==
    LET back == {EncodedTable[u] : u \in {u \in DOMAIN EncodedTable : \A k \in DOMAIN u : u[k] \notin {61, 95}}}
    IN  [a \in back |-> CHOOSE u \in DOMAIN EncodedTable : EncodedTable[u] = a] @@ Ace(<<97, 45>>) :> <<97>>

Common == {
      <<97>>, <<65>>, <<49>>, <<252>>, <<117, 776>>, <<173>>, <<97, 12290>>, <<1488>>,
      <<1488, 49>>, <<2325, 2381, 8205>>, <<1576, 8204, 1576>>, Ace(<<116, 100, 97>>), Ace(<<>>),
      Ace(<<52, 100, 98>>), <<>>, <<97, 97, 97, 97, 97, 97, 97, 97, 97, 97, 97, 97, 97, 97>> }

Rare == {
      <<45, 97>>, <<97, 98, 45, 45, 99>>, <<97, 95>>, <<220>>, <<776, 97>>, <<223>>,
      <<97, 12290, 98>>, <<13199>>, <<65368, 110, 45, 45, 116, 100, 97>>, <<128>>, <<49, 1488>>,
      <<1488, 97>>, <<1632>>, <<1488, 1456>>, <<1488, 49, 1632>>, <<97, 8205>>,
      <<1576, 1611, 8204, 1611, 1576>>, <<1575, 8204, 1576>>, <<1576, 8204, 1575>>,
      <<1576, 8204, 97>>, <<8204, 1576>>, <<88, 78, 45, 45, 84, 68, 65>>, Ace(<<97, 45>>),
      Ace(<<252>>), Ace(<<120, 110, 45, 45, 45, 51, 114, 97>>), Ace(<<117, 45, 99, 99, 98>>),
      Ace(<<119, 99, 97>>), Ace(<<107, 98, 97>>), Ace(<<49, 45, 48, 104, 99>>),
      Ace(<<97, 45, 117, 103, 110>>), Ace(<<97, 45, 98, 99, 98>>), Ace(<<45, 45, 101, 104, 97>>),
      Ace(<<97, 95, 45, 121, 107, 97>>), <<97, 95, 252>>, <<45, 252>>, Ace(<<33>>), <<61, 824>>,
      <<95>>, <<252, 252, 97, 45, 252, 45, 97>>,
      Ace(<<110, 103, 98, 97, 56, 104, 97, 56, 55, 48, 52, 97>>) }

Small == Common \ {<<65>>, <<1488, 49>>, <<1576, 8204, 1576>>, Ace(<<>>)}

OneLabel == Common \cup Rare
WithDot(hosts) == {h \o <<46>> : h \in hosts}
Pairs(xs, ys) == {x \o <<46>> \o y : x \in xs, y \in ys}
HostTable == {IllFormed} \cup OneLabel \cup WithDot(OneLabel) \cup WithDot(WithDot(Small))
               \cup Pairs(Small, OneLabel) \cup Pairs(OneLabel, Small) \cup WithDot(Pairs(Small, Small))

Flags == [check_hyphens : BOOLEAN, use_std3 : BOOLEAN, verify_dns_length : BOOLEAN]

Unit == INSTANCE Unit17_0_0
IDNATable == Unit!StatusOf
CCCTable == Unit!ClassOf
DecompTable == Unit!DecompositionOf
CompTable == Unit!CompositeOf
QCTable == Unit!QuickCheckOf
MarkTable == Unit!Marks
BidiTable == Unit!DirectionOf
JoiningTable == Unit!JoiningOf

MCEncoded == EncodedTable
MCDecoded == DecodedTable
MCHosts == HostTable
MCFlags == Flags
MCIDNA == IDNATable
MCCCC == CCCTable
MCDECOMP == DecompTable
MCCOMP == CompTable
MCQC == QCTable
MCMARK == MarkTable
MCBIDI == BidiTable
MCJOINING == JoiningTable
=============================================================================
