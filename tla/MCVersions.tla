----------------------------- MODULE MCVersions -----------------------------
(* The two earlier profile revisions and this build, hosts that 17.0.0 newly  *)
(* assigns a character of, that relax one check each, that the decoder of the *)
(* first takes and the others do not, or that nothing treats apart, and the   *)
(* answers of the profile over the tables of each unit, with either decoder.  *)
EXTENDS Versions, TLC

Unit16 == INSTANCE Unit16_0_0
Unit17 == INSTANCE Unit17_0_0

Ace(s) == <<120, 110, 45, 45>> \o s
ALabels == <<252>> :> Ace(<<116, 100, 97>>) @@ <<1488>> :> Ace(<<52, 100, 98>>)
             @@ <<42959>> :> Ace(<<48, 55, 56, 97>>) @@ <<97, 6863>> :> Ace(<<97, 45, 53, 56, 107>>)
             @@ <<97, 95, 252>> :> Ace(<<97, 95, 45, 121, 107, 97>>)
\* What the decoder takes that refuses a "_" in a payload.
ULabels == [a \in {ALabels[u] : u \in {u \in DOMAIN ALabels : \A k \in DOMAIN u : u[k] # 95}} |->
               CHOOSE u \in DOMAIN ALabels : ALabels[u] = a]

HostTable == {<<97>>, <<220>>, <<1488>>, <<42958>>, <<97, 6863>>, <<42993>>, Ace(<<48, 55, 56, 97>>),
              <<97, 46, 46, 97>>, <<97, 95>>, <<45, 97>>, Ace(<<97, 95, 45, 121, 107, 97>>)}
EmptyTable == {<<97, 46, 46, 97>>}
Strict == [check_hyphens |-> TRUE, use_std3 |-> TRUE, verify_dns_length |-> TRUE]
FlagTable == {Strict} \cup {[Strict EXCEPT ![f] = FALSE] : f \in DOMAIN Strict}

U16 == INSTANCE Uts46 WITH
    CCC <- Unit16!ClassOf, DECOMP <- Unit16!DecompositionOf, COMP <- Unit16!CompositeOf, NFC_QC <- Unit16!QuickCheckOf,
    IDNA <- Unit16!StatusOf, MARK <- Unit16!Marks, BIDI <- Unit16!DirectionOf, JOINING <- Unit16!JoiningOf,
    SECOND_FIRST <- Unit16!COMP_B_FIRST, SECOND_LAST <- Unit16!COMP_B_LAST,
    INERT_BELOW <- Unit16!NFC_FIRST, kShortRun <- 32, IllFormed <- Null,
    Encoded <- ALabels, Decoded <- ULabels, MaxLabelLength <- 1024,
    kMaxLabelOctets <- 63, kMaxHostOctets <- 253, host <- <<>>, opts <- Strict, answer <- {}
U17 == INSTANCE Uts46 WITH
    CCC <- Unit17!ClassOf, DECOMP <- Unit17!DecompositionOf, COMP <- Unit17!CompositeOf, NFC_QC <- Unit17!QuickCheckOf,
    IDNA <- Unit17!StatusOf, MARK <- Unit17!Marks, BIDI <- Unit17!DirectionOf, JOINING <- Unit17!JoiningOf,
    SECOND_FIRST <- Unit17!COMP_B_FIRST, SECOND_LAST <- Unit17!COMP_B_LAST,
    INERT_BELOW <- Unit17!NFC_FIRST, kShortRun <- 32, IllFormed <- Null,
    Encoded <- ALabels, Decoded <- ULabels, MaxLabelLength <- 1024,
    kMaxLabelOctets <- 63, kMaxHostOctets <- 253, host <- <<>>, opts <- Strict, answer <- {}

The(answers) == CHOOSE a \in answers : TRUE
\* The decoder of RFC 3492 takes any payload, as the standard has it.
DeparturesWith(decoder, o) == U17!Departures(o) \ IF decoder = "any" THEN {"literals"} ELSE {}
Questions(facade) == {"any", "ldh"} \X {facade} \X FlagTable \X HostTable
AnswerTable ==
    [q \in Questions("u16") |-> The(U16!ToASCII(q[4], q[3], DeparturesWith(q[1], q[3])))] @@
    [q \in Questions("u17") |-> The(U17!ToASCII(q[4], q[3], DeparturesWith(q[1], q[3])))]

\* Releases before 1.3.0, and 1.3.0 (contract, section 3; NEWS.md:45).
Earlier == <<
    [rows |-> [v16_0_0 |-> [str |-> "16.0.0", facade |-> "u16"]], pin |-> "v16_0_0",
     base |-> "uts46-nontransitional-std3-v1", keeps_empty |-> FALSE, decoder |-> "any"],
    [rows |-> [v16_0_0 |-> [str |-> "16.0.0", facade |-> "u16"],
               v17_0_0 |-> [str |-> "17.0.0", facade |-> "u17"]], pin |-> "v17_0_0",
     base |-> "uts46-nontransitional-std3-v2", keeps_empty |-> FALSE, decoder |-> "ldh"] >>

MCEarlier == Earlier
MCReported == "u16" :> Unit16!UNICODE_VERSION @@ "u17" :> Unit17!UNICODE_VERSION
MCAnswers == AnswerTable
MCHosts == HostTable
MCEmpties == EmptyTable
MCOptions == FlagTable
MCInvalid == U17!Refused
=============================================================================
