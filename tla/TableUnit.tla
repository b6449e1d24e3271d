----------------------------- MODULE TableUnit -----------------------------
(***************************************************************************)
(* How one generated unit (unicode_tables_*.cpp) stores its tables and     *)
(* reads them: two-stage tries, sorted ranges, and pools of variable-      *)
(* length entries reached by offset and length.  The arrays are the        *)
(* parameters.  An array is a function on the indices it is read at, so a  *)
(* read at any other index, past the end included, is an error of TLC.     *)
(* The tables at the end are what UnicodeTables takes: the unit seen       *)
(* through its accessors, over the code points of Alphabet.                *)
(***************************************************************************)
EXTENDS Integers, Sequences

CONSTANTS
    CCC_TRIE1, CCC_TRIE2, CCC_TRIE_SHIFT, CCC_TRIE_FIRST, CCC_TRIE_LAST,
    MARK_RANGES, MARK_FIRST, MARK_LAST,
    DECOMP_INDEX, DECOMP_DATA,              \* <<offset, length>>, code points
    DECOMP_TRIE1, DECOMP_TRIE2, DECOMP_TRIE_SHIFT, DECOMP_TRIE_FIRST, DECOMP_TRIE_LAST,
    COMP_INDEX, COMP_DATA,                  \* <<offset, length>>, <<second, composite>>
    COMP_TRIE1, COMP_TRIE2, COMP_TRIE_SHIFT, COMP_TRIE_FIRST, COMP_TRIE_LAST,
    COMP_B_FIRST, COMP_B_LAST,
    IDNA_VALUES, IDNA_MAP_DATA,             \* <<offset, status, length>>, code points
    IDNA_TRIE1, IDNA_TRIE2, IDNA_TRIE_SHIFT, IDNA_TRIE_LAST, IDNA_UNLISTED,
    NFC_QC_TRIE1, NFC_QC_TRIE2, NFC_QC_TRIE_SHIFT, NFC_QC_TRIE_FIRST, NFC_QC_TRIE_LAST,
    BIDI_TRIE1, BIDI_TRIE2, BIDI_TRIE_SHIFT, BIDI_TRIE_LAST,
    JOINING_RANGES, JOINING_FIRST, JOINING_LAST,
    Alphabet,  \* the code points the unit is asked about
    Starters   \* those asked about as the first of a pair to compose

\* The enumerations, in the order of their values from 0.
IdnaStatus    == <<"valid", "ignored", "mapped", "deviation", "disallowed",
                   "disallowed_std3_valid", "disallowed_std3_mapped">>
NfcQuickCheck == <<"yes", "no", "maybe">>
BidiClass     == <<"L", "R", "AL", "AN", "EN", "ES", "ET", "CS", "NSM", "BN", "B", "S", "WS", "ON",
                   "LRE", "LRO", "RLE", "RLO", "PDF", "LRI", "RLI", "FSI", "PDI">>
JoiningType   == <<"U", "C", "D", "L", "R", "T">>

trie_lookup(values, index, shift, cp) ==
    LET block == index[cp \div 2^shift]
    IN  values[block * 2^shift + (cp % 2^shift)]

\* What RangeSearch finds: the positions of the range that holds cp, one at most.
range_lookup(ranges, cp) == {k \in DOMAIN ranges : ranges[k][1] <= cp /\ cp <= ranges[k][2]}

Slice(pool, offset, length) == [k \in 1 .. length |-> pool[offset + k - 1]]
Within(cp, lowest, highest) == lowest <= cp /\ cp <= highest

combining_class(cp) ==
    IF Within(cp, CCC_TRIE_FIRST, CCC_TRIE_LAST)
    THEN trie_lookup(CCC_TRIE2, CCC_TRIE1, CCC_TRIE_SHIFT, cp) ELSE 0

is_combining_mark(cp) ==
    /\ Within(cp, MARK_FIRST, MARK_LAST)
    /\ range_lookup(MARK_RANGES, cp) # {}

\* <<>> where the code returns nullptr: no decomposition is empty.
canonical_decomposition(cp) ==
    LET i == IF Within(cp, DECOMP_TRIE_FIRST, DECOMP_TRIE_LAST)
             THEN trie_lookup(DECOMP_TRIE2, DECOMP_TRIE1, DECOMP_TRIE_SHIFT, cp) ELSE 0
    IN  IF i = 0 THEN <<>> ELSE Slice(DECOMP_DATA, DECOMP_INDEX[i - 1][1], DECOMP_INDEX[i - 1][2])

\* The scan of a starter's run goes no further than the first second that is not below b.
ScanRun(run, b) ==
    LET hits == {j \in DOMAIN run : run[j][1] = b /\ \A k \in 1 .. j - 1 : run[k][1] < b}
    IN  IF hits = {} THEN 0 ELSE run[CHOOSE j \in hits : TRUE][2]

canonical_compose(a, b) ==
    IF ~Within(b, COMP_B_FIRST, COMP_B_LAST) \/ ~Within(a, COMP_TRIE_FIRST, COMP_TRIE_LAST) THEN 0
    ELSE LET i == trie_lookup(COMP_TRIE2, COMP_TRIE1, COMP_TRIE_SHIFT, a)
         IN  IF i = 0 THEN 0
             ELSE ScanRun(Slice(COMP_DATA, COMP_INDEX[i - 1][1], COMP_INDEX[i - 1][2]), b)

idna_lookup(cp) ==
    LET id == IF cp <= IDNA_TRIE_LAST
              THEN trie_lookup(IDNA_TRIE2, IDNA_TRIE1, IDNA_TRIE_SHIFT, cp) ELSE IDNA_UNLISTED
        v == IDNA_VALUES[id]
    IN  [status |-> IdnaStatus[v[2] + 1], map |-> Slice(IDNA_MAP_DATA, v[1], v[3])]

nfc_quick_check(cp) ==
    IF Within(cp, NFC_QC_TRIE_FIRST, NFC_QC_TRIE_LAST)
    THEN NfcQuickCheck[trie_lookup(NFC_QC_TRIE2, NFC_QC_TRIE1, NFC_QC_TRIE_SHIFT, cp) + 1] ELSE "yes"

bidi_class(cp) ==
    IF cp > BIDI_TRIE_LAST THEN "L"
    ELSE BidiClass[trie_lookup(BIDI_TRIE2, BIDI_TRIE1, BIDI_TRIE_SHIFT, cp) + 1]

joining_type(cp) ==
    IF ~Within(cp, JOINING_FIRST, JOINING_LAST) \/ range_lookup(JOINING_RANGES, cp) = {} THEN "U"
    ELSE JoiningType[JOINING_RANGES[CHOOSE k \in range_lookup(JOINING_RANGES, cp) : TRUE][3] + 1]

-----------------------------------------------------------------------------
Listed(value, default) == [cp \in {cp \in Alphabet : value[cp] # default} |-> value[cp]]

ClassOf         == Listed([cp \in Alphabet |-> combining_class(cp)], 0)
DecompositionOf == Listed([cp \in Alphabet |-> canonical_decomposition(cp)], <<>>)
\* The pairs whose composite is in the extract too.
CompositeOf     == LET pairs == {p \in Starters \X Alphabet : canonical_compose(p[1], p[2]) \in Alphabet}
                   IN  [p \in pairs |-> canonical_compose(p[1], p[2])]
QuickCheckOf    == Listed([cp \in Alphabet |-> nfc_quick_check(cp)], "yes")
StatusOf        == [cp \in Alphabet |-> idna_lookup(cp)]
Marks           == {cp \in Alphabet : is_combining_mark(cp)}
DirectionOf     == Listed([cp \in Alphabet |-> bidi_class(cp)], "L")
JoiningOf       == Listed([cp \in Alphabet |-> joining_type(cp)], "U")
=============================================================================
