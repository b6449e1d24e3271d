------------------------------- MODULE NfcText -------------------------------
(***************************************************************************)
(* A text that grows by one code point at a time, and its NFC.  What the   *)
(* passes must give is stated without them: by the definitions of UAX #15. *)
(***************************************************************************)
EXTENDS Nfc

CONSTANTS CodePoints,   \* the code points texts are made of
          MaxLength     \* bound on the length of a text

ASSUME CodePointsAssumption == CodePoints \subseteq Nat

\* The second and third jamo of a syllable may have to be composed.
ASSUME JamoAssumption == (VJamo \cup TJamo) \cap CodePoints \subseteq DOMAIN NFC_QC

FullStop == 46

\* A full stop composes with nothing after it.
ASSUME StopAssumption == \A p \in DOMAIN COMP : p[1] # FullStop

VARIABLES text, form
textVars == <<text, form>>

TextInit == text = <<>> /\ form = <<>>

Extend(cp) ==
    /\ Len(text) < MaxLength
    /\ text' = Append(text, cp)
    /\ form' = nfc(text')

TextNext == \E cp \in CodePoints : Extend(cp)
TextSpec == TextInit /\ [][TextNext]_textVars

-----------------------------------------------------------------------------
\* The starters of a text and its marks of one class, in their order.
ClassOrStarter(cc, v) ==
    FoldLeft(LAMBDA w, cp : IF combining_class(cp) \in {0, cc} THEN Append(w, cp) ELSE w, <<>>, v)

(* Canonical ordering is a stable sort of each run of marks: no adjacent    *)
(* pair is left to exchange (UAX #15 D108), starters keep their place, and  *)
(* the marks of a class keep their order, in the short sort as in the long. *)
OrderIsStable ==
    LET d == Decompose(text)
        o == canonical_order(d)
    IN /\ \A i \in 2 .. Len(o) :
            ~ (combining_class(o[i - 1]) > combining_class(o[i]) /\ combining_class(o[i]) > 0)
       /\ \A cp \in Range(d) :
            ClassOrStarter(combining_class(cp), o) = ClassOrStarter(combining_class(cp), d)

(* NFC neither loses nor invents: a text and its normalized form have the   *)
(* same canonical decomposition, so equivalent hosts stay equivalent.       *)
Equivalent ==
    canonical_order(Decompose(form)) = canonical_order(Decompose(text))

(* Composition is complete: no mark is left that could still combine with   *)
(* the last starter before it without another character in the way.         *)
Blocked(v, i, j) ==
    \E k \in i + 1 .. j - 1 :
        combining_class(v[k]) = 0 \/ combining_class(v[k]) >= combining_class(v[j])

Complete ==
    \A j \in DOMAIN form : \A i \in 1 .. j - 1 :
        (combining_class(form[i]) = 0 /\ ~ Blocked(form, i, j))
            => compose_pair(form[i], form[j]) = 0

(* "NFC is idempotent, so a sequence that is already in NFC is its own      *)
(* answer": the quick check may only pass what the three passes would leave *)
(* as it is, and they leave their own answer as it is.                      *)
QuickCheckSound == (is_nfc(text) => Pipeline(text) = text) /\ Pipeline(form) = form

(* Normalizing the whole host before splitting normalizes every label, so   *)
(* validate_label need not look again: a full stop is a safe break.         *)
LabelsNormalizeApart ==
    \A i \in DOMAIN text : text[i] = FullStop =>
        form = nfc(SubSeq(text, 1, i - 1)) \o <<FullStop>> \o nfc(SubSeq(text, i + 1, Len(text)))

=============================================================================
