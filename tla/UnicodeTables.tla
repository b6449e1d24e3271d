--------------------------- MODULE UnicodeTables ---------------------------
(***************************************************************************)
(* The accessors of one generated Unicode table unit (unicode_tables_*.cpp *)
(* and its facade type Tables).  A table is a function on the code points  *)
(* it lists; an accessor answers its default for every other code point.   *)
(* The tries and ranges that store the tables are abstracted to these      *)
(* functions.  The pipeline is templated on the unit, so every module that *)
(* extends this one is about one unit, whichever it is.                    *)
(***************************************************************************)
EXTENDS Integers, Sequences

CONSTANTS CCC,      \* code point -> canonical combining class, where not 0
          DECOMP,   \* code point -> full canonical decomposition
          COMP,     \* <<starter, combiner>> -> primary composite
          NFC_QC,   \* code point -> "no" or "maybe"
          IDNA,     \* code point -> [status, map]
          MARK,     \* the code points of general category Mn, Mc or Me
          BIDI,     \* code point -> Bidi_Class, where not "L"
          JOINING,  \* code point -> Joining_Type, where not "U"
          SECOND_FIRST, SECOND_LAST,  \* bounds of the second elements of COMP
          INERT_BELOW                 \* the first code point CCC or NFC_QC lists

IdnaStatuses == {"valid", "ignored", "mapped", "deviation", "disallowed",
                 "disallowed_std3_valid", "disallowed_std3_mapped"}

Lookup(table, cp, default) == IF cp \in DOMAIN table THEN table[cp] ELSE default

combining_class(cp)         == Lookup(CCC, cp, 0)
canonical_decomposition(cp) == Lookup(DECOMP, cp, <<cp>>)
canonical_compose(a, b)     == Lookup(COMP, <<a, b>>, 0)
composes_as_second(b)       == SECOND_FIRST <= b /\ b <= SECOND_LAST
nfc_quick_check(cp)         == Lookup(NFC_QC, cp, "yes")
nfc_inert(cp)               == cp < INERT_BELOW
idna_lookup(cp)             == Lookup(IDNA, cp, [status |-> "disallowed", map |-> <<>>])
is_combining_mark(cp)       == cp \in MARK
bidi_class(cp)              == Lookup(BIDI, cp, "L")
joining_type(cp)            == Lookup(JOINING, cp, "U")

(***************************************************************************)
(* What the generator derives: the bounds cover the tables they guard, and *)
(* a code point is in NFC_QC if it is excluded from composition or can be  *)
(* the second of a pair.                                                   *)
(***************************************************************************)
ASSUME TablesAssumption ==
    /\ \A cp \in DOMAIN CCC \cup DOMAIN NFC_QC : cp >= INERT_BELOW
    /\ \A p \in DOMAIN COMP : p \in Nat \X Nat /\ composes_as_second(p[2]) /\ p[2] \in DOMAIN NFC_QC
    /\ \A cp \in DOMAIN NFC_QC : NFC_QC[cp] \in {"no", "maybe"}
    /\ \A cp \in DOMAIN IDNA : IDNA[cp].status \in IdnaStatuses

\* ASCII is inert: no class, no decomposition, never composed with what is before
\* it and never what comes out.
ASSUME AsciiAssumption ==
    /\ INERT_BELOW \in Nat /\ INERT_BELOW >= 128
    /\ SECOND_FIRST \in Nat /\ SECOND_FIRST >= 128
    /\ \A cp \in DOMAIN CCC : CCC[cp] \in Nat
    /\ \A cp \in DOMAIN DECOMP : cp >= 128 /\ DECOMP[cp] \in Seq(Nat)
    /\ \A p \in DOMAIN COMP : COMP[p] \in Nat /\ COMP[p] >= 128

\* Decompositions are full, and those of primary composites go one composition back.
ASSUME DecompositionsAssumption ==
    /\ \A cp \in DOMAIN DECOMP : \A k \in DOMAIN DECOMP[cp] : DECOMP[cp][k] \notin DOMAIN DECOMP
    /\ \A p \in DOMAIN COMP :
         canonical_decomposition(COMP[p]) = canonical_decomposition(p[1]) \o <<p[2]>>
    /\ \A p \in DOMAIN COMP : p[1] \in DOMAIN DECOMP => \E q \in DOMAIN COMP : COMP[q] = p[1]

\* The quick check passes no code point that decomposes but primary composites, and
\* of those only the ones whose first code point it passes too.
ASSUME QuickCheckAssumption ==
    \A cp \in DOMAIN DECOMP \ DOMAIN NFC_QC :
        (\E p \in DOMAIN COMP : COMP[p] = cp) /\ DECOMP[cp][1] \notin DOMAIN NFC_QC

\* A primary composite and the first of its pair are starters; it is the second of no
\* pair, and takes no mark of a class below that of the mark it was made with.
ASSUME CompositesAssumption ==
    /\ \A p \in DOMAIN COMP : p[1] \notin DOMAIN CCC /\ COMP[p] \notin DOMAIN CCC
    /\ \A p, q \in DOMAIN COMP : q[2] # COMP[p]
    /\ \A p, q \in DOMAIN COMP :
         q[1] = COMP[p] /\ combining_class(q[2]) > 0 => combining_class(p[2]) <= combining_class(q[2])

\* No capital, and nothing that decomposes to one: what the mapping leaves.
Lower == Nat \ 65 .. 90
Settled == {c \in Lower : canonical_decomposition(c) \in Seq(Lower)}
=============================================================================
