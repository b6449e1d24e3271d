-------------------------------- MODULE Nfc --------------------------------
(***************************************************************************)
(* Normalization to NFC (punycoder_nfc.cpp): the quick check, and the full *)
(* pipeline of decomposition, canonical ordering and composition.          *)
(***************************************************************************)
EXTENDS UnicodeTables, FiniteSets, SequencesExt, FiniteSetsExt

CONSTANT kShortRun   \* the longest run of marks that insertion_sort gets
ASSUME ShortRunAssumption == kShortRun \in Nat

SBase == 44032
LBase == 4352
VBase == 4449
TBase == 4519
LCount == 19
VCount == 21
TCount == 28
NCount == VCount * TCount
SCount == LCount * NCount

is_hangul_syllable(cp) == SBase <= cp /\ cp < SBase + SCount

LJamo == LBase .. LBase + LCount - 1
VJamo == VBase .. VBase + VCount - 1
TJamo == TBase + 1 .. TBase + TCount - 1

\* Hangul goes by arithmetic alone: no table has a class, a decomposition or a
\* composition for a syllable or a jamo.
ASSUME HangulAssumption ==
    /\ \A cp \in DOMAIN DECOMP :
         /\ ~ is_hangul_syllable(cp) /\ cp \notin LJamo \cup VJamo \cup TJamo
         /\ \A k \in DOMAIN DECOMP[cp] : ~ is_hangul_syllable(DECOMP[cp][k])
    /\ \A cp \in DOMAIN CCC : ~ is_hangul_syllable(cp) /\ cp \notin LJamo \cup VJamo \cup TJamo
    /\ \A p \in DOMAIN COMP : \A cp \in {p[1], p[2], COMP[p]} :
         ~ is_hangul_syllable(cp) /\ cp \notin LJamo \cup VJamo \cup TJamo

hangul_compose(a, b) ==
    IF a \in LJamo /\ b \in VJamo
    THEN SBase + ((a - LBase) * VCount + (b - VBase)) * TCount
    ELSE IF /\ is_hangul_syllable(a)
            /\ (a - SBase) % TCount = 0
            /\ b \in TJamo
         THEN a + (b - TBase)
         ELSE 0

decompose_into(cp) ==
    LET s == cp - SBase
        t == s % TCount
    IN IF is_hangul_syllable(cp)
       THEN <<LBase + s \div NCount, VBase + (s % NCount) \div TCount>>
              \o (IF t = 0 THEN <<>> ELSE <<TBase + t>>)
       ELSE canonical_decomposition(cp)

Decompose(s) == FoldLeft(LAMBDA d, cp : d \o decompose_into(cp), <<>>, s)

-----------------------------------------------------------------------------
(* Canonical ordering: a stable sort of every maximal run of marks.         *)

(* A run with its classes; the buffer ccs holds the first kShortRun of them *)
(* and is unset beyond.                                                     *)
Classed(run) == [k \in DOMAIN run |->
                   [cp |-> run[k],
                    cc |-> IF k <= kShortRun THEN combining_class(run[k]) ELSE 0]]

(* Bug: an unstable insertion sort. *)
PlaceUnstable(sorted, cc) == Max({0} \cup {j \in DOMAIN sorted : sorted[j].cc < cc})

(* The place of a mark among the sorted ones: after the last not above it.  *)
Place(sorted, cc) == Max({0} \cup {j \in DOMAIN sorted : sorted[j].cc <= cc})

insertion_sort(run) ==
    LET Insert(sorted, m) == InsertAt(sorted, Place(sorted, m.cc) + 1, m)
        sorted == FoldLeft(Insert, <<>>, Classed(run))
    IN [k \in DOMAIN sorted |-> sorted[k].cp]

(* The slot of mark k: after every lower class and the earlier ones of its. *)
Slot(run, k) ==
    Cardinality({j \in DOMAIN run : combining_class(run[j]) < combining_class(run[k])})
      + Cardinality({j \in 1 .. k : combining_class(run[j]) = combining_class(run[k])})

counting_sort(run) ==
    [p \in DOMAIN run |-> run[CHOOSE k \in DOMAIN run : Slot(run, k) = p]]

InOrder(run) ==
    \A k \in 2 .. Len(run) : combining_class(run[k - 1]) <= combining_class(run[k])

SortRun(run) ==
    IF InOrder(run) THEN run
    ELSE IF Len(run) <= kShortRun THEN insertion_sort(run) ELSE counting_sort(run)

canonical_order(v) ==
    LET Scan(st, cp) ==
            IF combining_class(cp) = 0
            THEN [done |-> Append(st.done \o SortRun(st.run), cp), run |-> <<>>]
            ELSE [st EXCEPT !.run = Append(@, cp)]
        end == FoldLeft(Scan, [done |-> <<>>, run |-> <<>>], v)
    IN end.done \o SortRun(end.run)

-----------------------------------------------------------------------------
(* Canonical composition.                                                   *)

compose_pair(a, b) ==
    IF hangul_compose(a, b) # 0 THEN hangul_compose(a, b)
    ELSE IF composes_as_second(b) THEN canonical_compose(a, b) ELSE 0

(* Bugs: a mark past one of its class; no pair of adjacent starters.     *)
ReachesPastMarks(st, cc) == st.starter # 0
ReachesMarksOnly(st, cc) == st.starter # 0 /\ st.last_cc < cc

(* A mark reaches the last starter unless one at or above its class, or a   *)
(* starter, is between; starter = 0 is SIZE_MAX, no starter yet.            *)
Reaches(st, cc) == st.starter # 0 /\ (st.last_cc = 0 \/ st.last_cc < cc)

(* Bug: the first starter is kept. *)
NewStarterFirstOnly(st, cc) == IF st.starter = 0 /\ cc = 0 THEN Len(st.out) + 1 ELSE st.starter

NewStarter(st, cc) == IF cc = 0 THEN Len(st.out) + 1 ELSE st.starter

ComposeStep(st, cp) ==
    LET cc == combining_class(cp)
        composed == IF Reaches(st, cc) THEN compose_pair(st.out[st.starter], cp) ELSE 0
    IN IF composed # 0
       THEN [st EXCEPT !.out[st.starter] = composed]
       ELSE [out |-> Append(st.out, cp), starter |-> NewStarter(st, cc), last_cc |-> cc]

Compose(d) == FoldLeft(ComposeStep, [out |-> <<>>, starter |-> 0, last_cc |-> 0], d).out

-----------------------------------------------------------------------------
LastClass(v, i) ==
    IF i = 1 \/ nfc_inert(v[i - 1]) THEN 0 ELSE combining_class(v[i - 1])

(* Bug: "maybe" folded into "yes". *)
QuickYesOrMaybe(cp) == nfc_quick_check(cp) # "no"

QuickYes(cp) == nfc_quick_check(cp) = "yes"

is_nfc(v) ==
    \A i \in DOMAIN v :
        \/ nfc_inert(v[i])
        \/ /\ combining_class(v[i]) = 0 \/ combining_class(v[i]) >= LastClass(v, i)
           /\ QuickYes(v[i])

Pipeline(v) == Compose(canonical_order(Decompose(v)))

nfc(v) == IF is_nfc(v) THEN v ELSE Pipeline(v)
=============================================================================
