------------------------------ MODULE HostProofs ------------------------------
(* Two calls of host_normalize(), for hosts of any length, any labels and any   *)
(* flags. The answer of a call is a function of the host and the flags,         *)
(* Answered; the invariant says at each stage how far it has been computed, and *)
(* the relations between two calls are then relations between answers.          *)
EXTENDS NfcProofs, HostCalls

-----------------------------------------------------------------------------
(* The folds of the normalizer.                                             *)

\* The host mapped, the labels joined and their octets summed, from b on.
MapText(s) == FoldLeft(LAMBDA out, cp : out \o Mapped(cp), <<>>, s)
JoinFrom(b, ls) == FoldLeft(LAMBDA s, l : s \o <<kFullStop>> \o l, b, ls)
SumFrom(b, ls) == FoldLeft(LAMBDA n, l : n + Len(l), b, ls)

\* map_codepoints as a fold.
LEMMA MapTextFold ==
    ASSUME NEW V, NEW X, <<>> \in V, \A a \in V, x \in X : a \o Mapped(x) \in V,
           NEW s \in Seq(X)
    PROVE  /\ MapText(<<>>) = <<>>
           /\ MapText(s) \in V
           /\ \A x \in X : MapText(Append(s, x)) = MapText(s) \o Mapped(x)
<1> DEFINE F == [p \in V \X X |-> p[1] \o Mapped(p[2])]
<1>1. F \in [V \X X -> V] /\ \A a \in V, x \in X : F[<<a, x>>] = a \o Mapped(x)
  OBVIOUS
<1> HIDE DEF F
<1>2. ASSUME NEW r \in Seq(X) PROVE MapText(r) = Folded(F, <<>>, r)
  <2> DEFINE g == CHOOSE f : f = [t \in SUBSET DOMAIN r |->
                                    IF t = {} THEN <<>> ELSE f[t \ {Max(t)}] \o Mapped(r[Max(t)])]
  <2>1. MapText(r) = g[DOMAIN r]
    BY DEF MapText, FoldLeft, MapThenFoldSet
  <2>2. DOMAIN r = 1 .. Len(r) /\ Len(r) \in Nat /\ \A k \in 1 .. Len(r) : r[k] \in X
    OBVIOUS
  <2>3. g = [t \in SUBSET DOMAIN r |-> IF t = {} THEN <<>> ELSE g[t \ {Max(t)}] \o Mapped(r[Max(t)])]
    <3>1. PICK f \in [SUBSET (1 .. Len(r)) -> V] : Table(F, <<>>, r, Len(r), f)
      BY <1>1, TableExists
    <3>2. \A t \in SUBSET (1 .. Len(r)) :
            t # {} => Max(t) \in 1 .. Len(r) /\ t \ {Max(t)} \in SUBSET (1 .. Len(r))
      BY <2>2, LastOf
    <3>3. f = [t \in SUBSET DOMAIN r |-> IF t = {} THEN <<>> ELSE f[t \ {Max(t)}] \o Mapped(r[Max(t)])]
      BY <1>1, <2>2, <3>1, <3>2 DEF Table
    <3> QED BY <3>3
  <2> HIDE DEF g
  <2>4. Steps(V, F, <<>>, r, g)
    <3>1. g[1 .. 0] = <<>>
      <4>1. 1 .. 0 = {} /\ {} \in SUBSET DOMAIN r
        OBVIOUS
      <4> QED BY <2>3, <4>1
    <3>2. ASSUME NEW k \in 1 .. Len(r)
          PROVE  g[1 .. k] = g[1 .. (k - 1)] \o Mapped(r[k])
      <4>1. /\ 1 .. k \in SUBSET DOMAIN r /\ 1 .. k # {} /\ Max(1 .. k) = k
            /\ (1 .. k) \ {k} = 1 .. (k - 1)
        BY <2>2, UpTo
      <4> QED BY <2>3, <4>1
    <3> QED BY <1>1, <2>2, <3>1, <3>2 DEF Steps
  <2>5. Foldable(V, X, F, <<>>, r)
    BY <1>1 DEF Foldable
  <2> QED BY <2>1, <2>2, <2>4, <2>5, FoldIs
<1>3. Foldable(V, X, F, <<>>, s) /\ <<>> \in Seq(X) /\ \A x \in X : Append(s, x) \in Seq(X)
  BY <1>1 DEF Foldable
<1>4. /\ Folded(F, <<>>, <<>>) = <<>> /\ Folded(F, <<>>, s) \in V
      /\ \A x \in X : Folded(F, <<>>, Append(s, x)) = F[<<Folded(F, <<>>, s), x>>]
  BY <1>3, FoldedRuns
<1> QED BY <1>1, <1>2, <1>3, <1>4

\* The labels joined as a fold.
JoinFoldArgs(V, X, b, s) == b \in V /\ (\A a \in V, x \in X : (a \o <<kFullStop>> \o x) \in V) /\ s \in Seq(X)
LEMMA JoinFold ==
    ASSUME NEW V, NEW X, NEW b, NEW s, JoinFoldArgs(V, X, b, s)
    PROVE  /\ JoinFrom(b, <<>>) = b
           /\ JoinFrom(b, s) \in V
           /\ \A x \in X : JoinFrom(b, Append(s, x)) = (JoinFrom(b, s) \o <<kFullStop>> \o x)
<1>0. b \in V /\ (\A a \in V, x \in X : (a \o <<kFullStop>> \o x) \in V) /\ s \in Seq(X)
  BY DEF JoinFoldArgs
<1> DEFINE F == [p \in V \X X |-> (p[1] \o <<kFullStop>> \o p[2])]
<1>1. F \in [V \X X -> V] /\ \A a \in V, x \in X : F[<<a, x>>] = (a \o <<kFullStop>> \o x)
  BY <1>0
<1> HIDE DEF F
<1>2. ASSUME NEW r \in Seq(X) PROVE JoinFrom(b, r) = Folded(F, b, r)
  <2> DEFINE g == CHOOSE f : f = [t \in SUBSET DOMAIN r |->
                                    IF t = {} THEN b ELSE (f[t \ {Max(t)}] \o <<kFullStop>> \o r[Max(t)])]
  <2>1. JoinFrom(b, r) = g[DOMAIN r]
    BY DEF JoinFrom, FoldLeft, MapThenFoldSet
  <2>2. DOMAIN r = 1 .. Len(r) /\ Len(r) \in Nat /\ \A k \in 1 .. Len(r) : r[k] \in X
    OBVIOUS
  <2>3. g = [t \in SUBSET DOMAIN r |-> IF t = {} THEN b ELSE (g[t \ {Max(t)}] \o <<kFullStop>> \o r[Max(t)])]
    <3>1. PICK f \in [SUBSET (1 .. Len(r)) -> V] : Table(F, b, r, Len(r), f)
      BY <1>0, <1>1, TableExists
    <3>2. \A t \in SUBSET (1 .. Len(r)) :
            t # {} => Max(t) \in 1 .. Len(r) /\ t \ {Max(t)} \in SUBSET (1 .. Len(r))
      BY <2>2, LastOf
    <3>3. f = [t \in SUBSET DOMAIN r |-> IF t = {} THEN b ELSE (f[t \ {Max(t)}] \o <<kFullStop>> \o r[Max(t)])]
      BY <1>0, <1>1, <2>2, <3>1, <3>2 DEF Table
    <3> QED BY <3>3
  <2> HIDE DEF g
  <2>4. Steps(V, F, b, r, g)
    <3>1. g[1 .. 0] = b
      <4>1. 1 .. 0 = {} /\ {} \in SUBSET DOMAIN r
        OBVIOUS
      <4> QED BY <2>3, <4>1
    <3>2. ASSUME NEW k \in 1 .. Len(r)
          PROVE  g[1 .. k] = (g[1 .. (k - 1)] \o <<kFullStop>> \o r[k])
      <4>1. /\ 1 .. k \in SUBSET DOMAIN r /\ 1 .. k # {} /\ Max(1 .. k) = k
            /\ (1 .. k) \ {k} = 1 .. (k - 1)
        BY <2>2, UpTo
      <4> QED BY <2>3, <4>1
    <3> QED BY <1>1, <2>2, <3>1, <3>2 DEF Steps
  <2>5. Foldable(V, X, F, b, r)
    BY <1>0, <1>1 DEF Foldable
  <2> QED BY <2>1, <2>2, <2>4, <2>5, FoldIs
<1>3. Foldable(V, X, F, b, s) /\ <<>> \in Seq(X) /\ \A x \in X : Append(s, x) \in Seq(X)
  BY <1>0, <1>1 DEF Foldable
<1>4. /\ Folded(F, b, <<>>) = b /\ Folded(F, b, s) \in V
      /\ \A x \in X : Folded(F, b, Append(s, x)) = F[<<Folded(F, b, s), x>>]
  BY <1>3, FoldedRuns
<1> QED BY <1>0, <1>1, <1>2, <1>3, <1>4

\* Their octets as a fold.
SumFoldArgs(V, X, b, s) == b \in V /\ (\A a \in V, x \in X : (a + Len(x)) \in V) /\ s \in Seq(X)
LEMMA SumFold ==
    ASSUME NEW V, NEW X, NEW b, NEW s, SumFoldArgs(V, X, b, s)
    PROVE  /\ SumFrom(b, <<>>) = b
           /\ SumFrom(b, s) \in V
           /\ \A x \in X : SumFrom(b, Append(s, x)) = (SumFrom(b, s) + Len(x))
<1>0. b \in V /\ (\A a \in V, x \in X : (a + Len(x)) \in V) /\ s \in Seq(X)
  BY DEF SumFoldArgs
<1> DEFINE F == [p \in V \X X |-> (p[1] + Len(p[2]))]
<1>1. F \in [V \X X -> V] /\ \A a \in V, x \in X : F[<<a, x>>] = (a + Len(x))
  BY <1>0
<1> HIDE DEF F
<1>2. ASSUME NEW r \in Seq(X) PROVE SumFrom(b, r) = Folded(F, b, r)
  <2> DEFINE g == CHOOSE f : f = [t \in SUBSET DOMAIN r |->
                                    IF t = {} THEN b ELSE (f[t \ {Max(t)}] + Len(r[Max(t)]))]
  <2>1. SumFrom(b, r) = g[DOMAIN r]
    BY DEF SumFrom, FoldLeft, MapThenFoldSet
  <2>2. DOMAIN r = 1 .. Len(r) /\ Len(r) \in Nat /\ \A k \in 1 .. Len(r) : r[k] \in X
    OBVIOUS
  <2>3. g = [t \in SUBSET DOMAIN r |-> IF t = {} THEN b ELSE (g[t \ {Max(t)}] + Len(r[Max(t)]))]
    <3>1. PICK f \in [SUBSET (1 .. Len(r)) -> V] : Table(F, b, r, Len(r), f)
      BY <1>0, <1>1, TableExists
    <3>2. \A t \in SUBSET (1 .. Len(r)) :
            t # {} => Max(t) \in 1 .. Len(r) /\ t \ {Max(t)} \in SUBSET (1 .. Len(r))
      BY <2>2, LastOf
    <3>3. f = [t \in SUBSET DOMAIN r |-> IF t = {} THEN b ELSE (f[t \ {Max(t)}] + Len(r[Max(t)]))]
      BY <1>0, <1>1, <2>2, <3>1, <3>2 DEF Table
    <3> QED BY <3>3
  <2> HIDE DEF g
  <2>4. Steps(V, F, b, r, g)
    <3>1. g[1 .. 0] = b
      <4>1. 1 .. 0 = {} /\ {} \in SUBSET DOMAIN r
        OBVIOUS
      <4> QED BY <2>3, <4>1
    <3>2. ASSUME NEW k \in 1 .. Len(r)
          PROVE  g[1 .. k] = (g[1 .. (k - 1)] + Len(r[k]))
      <4>1. /\ 1 .. k \in SUBSET DOMAIN r /\ 1 .. k # {} /\ Max(1 .. k) = k
            /\ (1 .. k) \ {k} = 1 .. (k - 1)
        BY <2>2, UpTo
      <4> QED BY <2>3, <4>1
    <3> QED BY <1>1, <2>2, <3>1, <3>2 DEF Steps
  <2>5. Foldable(V, X, F, b, r)
    BY <1>0, <1>1 DEF Foldable
  <2> QED BY <2>1, <2>2, <2>4, <2>5, FoldIs
<1>3. Foldable(V, X, F, b, s) /\ <<>> \in Seq(X) /\ \A x \in X : Append(s, x) \in Seq(X)
  BY <1>0, <1>1 DEF Foldable
<1>4. /\ Folded(F, b, <<>>) = b /\ Folded(F, b, s) \in V
      /\ \A x \in X : Folded(F, b, Append(s, x)) = F[<<Folded(F, b, s), x>>]
  BY <1>3, FoldedRuns
<1> QED BY <1>0, <1>1, <1>2, <1>3, <1>4


-----------------------------------------------------------------------------
(* The mapping, and the split at full stops.                                *)

\* The mapping, and what is refused of it, under the flags o.
DisallowedBy(o, cp) ==
    \/ idna_lookup(cp).status = "disallowed"
    \/ o.use_std3 /\ idna_lookup(cp).status \in {"disallowed_std3_valid", "disallowed_std3_mapped"}
Mappable == {cp \in Nat : idna_lookup(cp).status # "disallowed"}

LEMMA SeqLower == Seq(Lower) \subseteq Seq(Nat) /\ Seq(Settled) \subseteq Seq(Lower) /\ Seq(Mappable) \subseteq Seq(Nat)
<1>1. Lower \subseteq Nat /\ Settled \subseteq Lower /\ Mappable \subseteq Nat
  BY DEF Lower, Settled, Mappable
<1> QED BY <1>1, SeqMonotonic

LEMMA MappedType ==
    ASSUME NEW cp \in Mappable
    PROVE  Mapped(cp) \in Seq(Settled)
<1>1. cp \in DOMAIN IDNA
  BY DEF Mappable, idna_lookup, Lookup
<1>2. IDNA[cp].status # "disallowed"
  BY <1>1 DEF Mappable, idna_lookup, Lookup
<1> QED BY <1>1, <1>2, MappingAssumption

LEMMA MapTextRuns ==
    ASSUME NEW s \in Seq(Mappable)
    PROVE  /\ MapText(<<>>) = <<>> /\ MapText(s) \in Seq(Settled)
           /\ \A cp \in Mappable : MapText(Append(s, cp)) = MapText(s) \o Mapped(cp)
<1> DEFINE V == Seq(Settled)
<1>1. <<>> \in V /\ \A a \in V, x \in Mappable : a \o Mapped(x) \in V
  BY MappedType
<1>2. /\ MapText(<<>>) = <<>> /\ MapText(s) \in V
      /\ \A cp \in Mappable : MapText(Append(s, cp)) = MapText(s) \o Mapped(cp)
  <2> HIDE DEF V
  <2> QED BY <1>1, MapTextFold
<1> QED BY <1>2

LEMMA StopMaps == kFullStop \in Mappable /\ Mapped(kFullStop) = <<kFullStop>> /\ \A o : ~ DisallowedBy(o, kFullStop)
<1>1. idna_lookup(kFullStop).status = "valid"
  BY MappingAssumption
<1>2. kFullStop \in Nat
  BY DEF kFullStop
<1> QED BY <1>1, <1>2 DEF Mappable, Mapped, DisallowedBy

LEMMA MapStop ==
    ASSUME NEW s \in Seq(Mappable)
    PROVE  MapText(Append(s, kFullStop)) = Append(MapText(s), kFullStop)
<1>1. MapText(Append(s, kFullStop)) = MapText(s) \o <<kFullStop>>
  BY StopMaps, MapTextRuns
<1>2. MapText(s) \in Seq(Nat) /\ kFullStop \in Nat
  BY MapTextRuns, SeqLower DEF kFullStop
<1> HIDE DEF kFullStop
<1> QED BY <1>1, <1>2

LEMMA PrefixStep ==
    ASSUME NEW V, NEW s \in Seq(V), NEW k \in Nat, k + 1 <= Len(s)
    PROVE  /\ k + 1 \in 1 .. Len(s) /\ s[k + 1] \in V
           /\ SubSeq(s, 1, k) \in Seq(V)
           /\ SubSeq(s, 1, k + 1) = Append(SubSeq(s, 1, k), s[k + 1])
<1>1. Len(s) \in Nat /\ 1 \in 1 .. Len(s) /\ k + 1 \in 1 .. Len(s) /\ (k + 1) - 1 = k
  OBVIOUS
<1>2. \A i \in 1 .. Len(s) : s[i] \in V
  OBVIOUS
<1>3. SubSeq(s, 1, k) \in Seq(V)
  BY <1>1, <1>2, SubSeqProperties
<1>4. SubSeq(s, 1, k + 1) = SubSeq(s, 1, (k + 1) - 1) \o << s[k + 1] >>
  BY <1>1, SubSeqRecursiveSecond
<1>5. s[k + 1] \in V
  BY <1>1, <1>2
<1>6. Append(SubSeq(s, 1, k), s[k + 1]) = SubSeq(s, 1, k) \o << s[k + 1] >>
  BY <1>3, <1>5, AppendIsConcat
<1> QED BY <1>1, <1>3, <1>4, <1>5, <1>6

\* A host of ASCII without capitals is mapped to itself.
Form == 0 .. 127 \ 65 .. 90

LEMMA MapForm ==
    ASSUME NEW s \in Seq(Form), \A k \in DOMAIN s : s[k] \in Mappable
    PROVE  MapText(s) = s
<1> DEFINE P(k) == MapText(SubSeq(s, 1, k)) = SubSeq(s, 1, k)
           T == {k \in Nat : k <= Len(s) => P(k)}
<1>0. Len(s) \in Nat /\ DOMAIN s = 1 .. Len(s) /\ \A k \in 1 .. Len(s) : s[k] \in Form /\ s[k] \in Mappable
  <2> HIDE DEF Form
  <2> QED OBVIOUS
<1>1. 0 \in T
  <2>1. SubSeq(s, 1, 0) = <<>>
    BY SubSeqEmpty
  <2>2. <<>> \in Seq(Mappable)
    OBVIOUS
  <2> QED BY <2>1, <2>2, MapTextRuns
<1>2. ASSUME NEW k \in T PROVE k + 1 \in T
  <2> SUFFICES ASSUME k + 1 <= Len(s) PROVE P(k + 1)
    <3>1. k + 1 \in Nat
      OBVIOUS
    <3> HIDE DEF P
    <3> QED BY <3>1
  <2>1. k \in Nat /\ P(k) /\ k + 1 \in 1 .. Len(s)
    BY <1>0
  <2> DEFINE r == SubSeq(s, 1, k)
             x == s[k + 1]
  <2>2. SubSeq(s, 1, k + 1) = Append(r, x) /\ r \in Seq(Mappable) /\ x \in Mappable /\ x \in Form
    <3>1. s \in Seq(Mappable)
      BY <1>0
    <3>2. x \in Mappable /\ x \in Form
      BY <1>0, <2>1
    <3> QED BY <2>1, <3>1, <3>2, PrefixStep
  <2>3. Mapped(x) = <<x>>
    <3>1. x \in 0 .. 127 \ 65 .. 90
      BY <2>2 DEF Form
    <3>2. idna_lookup(x).status \notin {"mapped", "disallowed_std3_mapped", "ignored"}
      <4> HIDE DEF x
      <4> QED BY <3>1, MappingAssumption
    <3> QED BY <3>2 DEF Mapped
  <2>4. MapText(Append(r, x)) = MapText(r) \o Mapped(x)
    BY <2>2, MapTextRuns
  <2> HIDE DEF x, r
  <2>5. MapText(Append(r, x)) = Append(r, x)
    BY <2>1, <2>2, <2>3, <2>4, AppendIsConcat DEF r
  <2> QED BY <2>2, <2>5
<1>3. Len(s) \in T
  <2> HIDE DEF P
  <2>1. T \in SUBSET Nat
    OBVIOUS
  <2> HIDE DEF T
  <2> QED BY <1>0, <1>1, <1>2, <2>1, Induction
<1>4. P(Len(s))
  <2> HIDE DEF P
  <2> QED BY <1>0, <1>3
<1>5. SubSeq(s, 1, Len(s)) = s
  <2> HIDE DEF Form
  <2> QED BY SubSeqFull
<1> QED BY <1>4, <1>5

-----------------------------------------------------------------------------
(* The labels of a text, one stop after the other.                          *)

\* A full stop at the end stays where it is when the text is normalized.
LEMMA StopNormalized ==
    ASSUME NEW s \in Seq(Nat)
    PROVE  nfc(Append(s, kFullStop)) = Append(nfc(s), kFullStop)
BY NfcStop DEF kFullStop, FullStop

StopIn(c) == Min({Len(c) + 1} \cup {k \in DOMAIN c : c[k] = kFullStop})
PieceOf(c) == SubSeq(c, 1, StopIn(c) - 1)
AfterStop(c) == SubSeq(c, StopIn(c) + 1, Len(c))

IsStop(c, p) ==
    /\ p \in 1 .. Len(c) + 1
    /\ \A j \in 1 .. p - 1 : c[j] # kFullStop
    /\ p <= Len(c) => c[p] = kFullStop

LEMMA StopIs ==
    ASSUME NEW c \in Seq(Nat)
    PROVE  IsStop(c, StopIn(c)) /\ \A p : IsStop(c, p) => p = StopIn(c)
<1> DEFINE W == {Len(c) + 1} \cup {k \in DOMAIN c : c[k] = kFullStop}
<1>0. Len(c) \in Nat /\ DOMAIN c = 1 .. Len(c)
  OBVIOUS
<1>1. W \in SUBSET Nat /\ W # {} /\ W \subseteq 1 .. Len(c) + 1
  BY <1>0
<1>2. PICK m \in W : \A k \in W : m <= k
  <2> HIDE DEF W
  <2> QED BY <1>1, Least
<1>3. Min(W) \in W /\ \A k \in W : Min(W) <= k
  <2> HIDE DEF W
  <2> QED BY <1>2 DEF Min
<1>4. StopIn(c) = Min(W)
  BY DEF StopIn
<1> DEFINE q == Min(W)
<1> HIDE DEF q
<1>5. q \in W /\ (\A k \in W : q <= k) /\ q \in 1 .. Len(c) + 1
  <2> HIDE DEF W
  <2> QED BY <1>1, <1>3 DEF q
<1>6. IsStop(c, q)
  <2>1. \A j \in 1 .. q - 1 : c[j] # kFullStop
    <3> SUFFICES ASSUME NEW j \in 1 .. q - 1, c[j] = kFullStop PROVE FALSE
      OBVIOUS
    <3>1. j \in DOMAIN c /\ j < q
      BY <1>0, <1>5
    <3>2. j \in W
      BY <3>1
    <3> HIDE DEF W
    <3> QED BY <1>5, <3>1, <3>2
  <2>2. q <= Len(c) => c[q] = kFullStop
    BY <1>0, <1>5
  <2> QED BY <1>5, <2>1, <2>2 DEF IsStop
<1>7. ASSUME NEW p, IsStop(c, p) PROVE p = q
  <2>1. p \in 1 .. Len(c) + 1 /\ (p <= Len(c) => c[p] = kFullStop) /\ \A j \in 1 .. p - 1 : c[j] # kFullStop
    BY <1>7 DEF IsStop
  <2>2. /\ q \in 1 .. Len(c) + 1
        /\ q <= Len(c) => c[q] = kFullStop
        /\ \A j \in 1 .. q - 1 : c[j] # kFullStop
    BY <1>6 DEF IsStop
  <2> QED BY <1>0, <2>1, <2>2
<1> QED BY <1>4, <1>6, <1>7 DEF q

LEMMA PieceType ==
    ASSUME NEW S \in SUBSET Nat, NEW c \in Seq(S)
    PROVE  PieceOf(c) \in Seq(S) /\ AfterStop(c) \in Seq(S)
<1>0. Seq(S) \subseteq Seq(Nat)
  BY SeqMonotonic
<1>1. StopIn(c) \in 1 .. Len(c) + 1 /\ Len(c) \in Nat
  BY <1>0, StopIs DEF IsStop
<1>2. \A i \in 1 .. StopIn(c) - 1 : c[i] \in S
  BY <1>1
<1>3. \A i \in StopIn(c) + 1 .. Len(c) : c[i] \in S
  BY <1>1
<1>4. PieceOf(c) \in Seq(S)
  BY <1>1, <1>2, SubSeqProperties DEF PieceOf
<1>5. AfterStop(c) \in Seq(S)
  BY <1>1, <1>3, SubSeqProperties DEF AfterStop
<1> QED BY <1>4, <1>5

LEMMA PieceJoin ==
    ASSUME NEW c \in Seq(Nat)
    PROVE  /\ StopIn(c) <= Len(c) => c = (PieceOf(c) \o <<kFullStop>>) \o AfterStop(c)
           /\ ~ (StopIn(c) <= Len(c)) => c = PieceOf(c) /\ AfterStop(c) = <<>>
<1>1. StopIn(c) \in 1 .. Len(c) + 1 /\ Len(c) \in Nat /\ (StopIn(c) <= Len(c) => c[StopIn(c)] = kFullStop)
  BY StopIs DEF IsStop
<1> DEFINE p == StopIn(c)
<1>2. ASSUME p <= Len(c) PROVE c = (PieceOf(c) \o <<kFullStop>>) \o AfterStop(c)
  <2>1. SubSeq(c, 1, p) = SubSeq(c, 1, p - 1) \o << c[p] >>
    <3>1. 1 \in 1 .. Len(c) /\ p \in 1 .. Len(c)
      BY <1>1, <1>2
    <3> HIDE DEF p
    <3> QED BY <3>1, SubSeqRecursiveSecond
  <2>2. SubSeq(c, 1, p) \o SubSeq(c, p + 1, Len(c)) = SubSeq(c, 1, Len(c))
    <3>1. 1 \in 1 .. Len(c) + 1 /\ p \in 1 - 1 .. Len(c) /\ Len(c) \in p .. Len(c)
      BY <1>1, <1>2
    <3> HIDE DEF p
    <3> QED BY <3>1, ConcatAdjacentSubSeq
  <2>3. SubSeq(c, 1, Len(c)) = c
    BY SubSeqFull
  <2> QED BY <1>1, <1>2, <2>1, <2>2, <2>3 DEF PieceOf, AfterStop
<1>3. ASSUME ~ (p <= Len(c)) PROVE c = PieceOf(c) /\ AfterStop(c) = <<>>
  <2>1. p = Len(c) + 1 /\ p - 1 = Len(c)
    BY <1>1, <1>3
  <2>2. SubSeq(c, p + 1, Len(c)) = <<>>
    <3>1. p + 1 \in Int /\ Len(c) \in Int /\ Len(c) < p + 1
      BY <1>1, <2>1
    <3> HIDE DEF p
    <3> QED BY <3>1, SubSeqEmpty
  <2> QED BY <2>1, <2>2, SubSeqFull DEF PieceOf, AfterStop
<1> QED BY <1>2, <1>3

\* A stop at the end ends the last label and begins one that is empty.
LEMMA StopAtEnd ==
    ASSUME NEW c \in Seq(Nat)
    PROVE  LET r == Append(c, kFullStop)
           IN  /\ StopIn(r) = StopIn(c) /\ StopIn(r) <= Len(r) /\ PieceOf(r) = PieceOf(c)
               /\ StopIn(c) <= Len(c) => AfterStop(r) = Append(AfterStop(c), kFullStop)
               /\ ~ (StopIn(c) <= Len(c)) => AfterStop(r) = <<>>
<1> DEFINE r == Append(c, kFullStop)
           p == StopIn(c)
           n == Len(c)
<1>0. kFullStop \in Nat
  BY DEF kFullStop
<1>1. /\ p \in 1 .. n + 1 /\ n \in Nat /\ (\A j \in 1 .. p - 1 : c[j] # kFullStop)
      /\ p <= n => c[p] = kFullStop
  BY StopIs DEF IsStop
<1>2. r \in Seq(Nat) /\ Len(r) = n + 1 /\ r[n + 1] = kFullStop /\ \A j \in 1 .. n : r[j] = c[j]
  <2> HIDE DEF kFullStop
  <2> QED BY <1>0
<1> HIDE DEF r, p, n
<1>3. IsStop(r, p)
  <2>1. \A j \in 1 .. p - 1 : r[j] # kFullStop
    BY <1>1, <1>2
  <2>2. r[p] = kFullStop
    BY <1>1, <1>2
  <2> QED BY <1>1, <1>2, <2>1, <2>2 DEF IsStop
<1>4. StopIn(r) = p /\ p <= Len(r)
  BY <1>1, <1>2, <1>3, StopIs
<1>5. PieceOf(r) = PieceOf(c)
  <2>1. PieceOf(r) = SubSeq(r, 1, p - 1) /\ PieceOf(c) = SubSeq(c, 1, p - 1)
    BY <1>4 DEF PieceOf, p
  <2>2. \A j \in 1 .. p - 1 : r[j] = c[j] /\ r[j] \in Nat /\ c[j] \in Nat
    <3>1. \A j \in 1 .. n : c[j] \in Nat
      BY DEF n
    <3> QED BY <1>1, <1>2, <3>1
  <2> DEFINE a == SubSeq(r, 1, p - 1)
             b == SubSeq(c, 1, p - 1)
  <2>3. /\ a \in Seq(Nat) /\ Len(a) = p - 1 /\ \A i \in 1 .. p - 1 : a[i] = r[i]
        /\ b \in Seq(Nat) /\ Len(b) = p - 1 /\ \A i \in 1 .. p - 1 : b[i] = c[i]
    <3>1. p - 1 \in Nat
      BY <1>1
    <3> QED BY <2>2, <3>1
  <2>4. a = b
    <3> HIDE DEF a, b
    <3> QED BY <2>2, <2>3, SeqEqual
  <2> QED BY <2>1, <2>4
<1>6. ASSUME p <= n PROVE AfterStop(r) = Append(AfterStop(c), kFullStop)
  <2>1. AfterStop(r) = SubSeq(r, p + 1, n + 1) /\ AfterStop(c) = SubSeq(c, p + 1, n)
    BY <1>2, <1>4 DEF AfterStop, p, n
  <2> DEFINE a == SubSeq(r, p + 1, n + 1)
             b == SubSeq(c, p + 1, n)
             d == Append(b, kFullStop)
  <2>2. /\ a \in Seq(Nat) /\ Len(a) = n + 1 - p /\ \A i \in 1 .. n + 1 - p : a[i] = r[p + i]
    <3>1. p + 1 \in Int /\ n + 1 \in Int /\ (n + 1) - (p + 1) + 1 = n + 1 - p /\ p + 1 <= n + 1
      BY <1>1, <1>6
    <3>2. \A i \in p + 1 .. n + 1 : r[i] \in Nat
      BY <1>1, <1>2, <1>6
    <3>3. /\ a \in Seq(Nat) /\ Len(a) = (IF p + 1 <= n + 1 THEN (n + 1) - (p + 1) + 1 ELSE 0)
          /\ \A i \in 1 .. (n + 1) - (p + 1) + 1 : a[i] = r[(p + 1) + i - 1]
      BY <3>1, <3>2, SubSeqProperties
    <3>4. \A i \in 1 .. n + 1 - p : (p + 1) + i - 1 = p + i
      BY <1>1
    <3> HIDE DEF a
    <3> QED BY <3>1, <3>3, <3>4
  <2>3. /\ b \in Seq(Nat) /\ Len(b) = n - p /\ \A i \in 1 .. n - p : b[i] = c[p + i]
    <3>1. \A i \in p + 1 .. n : c[i] \in Nat
      BY <1>1 DEF n
    <3>2. p + 1 \in Int /\ n \in Int /\ n - (p + 1) + 1 = n - p
      BY <1>1
    <3>3. /\ b \in Seq(Nat) /\ Len(b) = (IF p + 1 <= n THEN n - (p + 1) + 1 ELSE 0)
          /\ \A i \in 1 .. n - (p + 1) + 1 : b[i] = c[(p + 1) + i - 1]
      BY <3>1, <3>2, SubSeqProperties
    <3>4. \A i \in 1 .. n - p : (p + 1) + i - 1 = p + i
      BY <1>1
    <3> HIDE DEF b
    <3>5. Len(b) = n - p
      BY <1>1, <1>6, <3>3
    <3>6. ASSUME NEW i \in 1 .. n - p PROVE b[i] = c[p + i]
      <4>1. i \in 1 .. n - (p + 1) + 1
        BY <3>2
      <4>2. (p + 1) + i - 1 = p + i
        BY <3>4
      <4> QED BY <3>3, <4>1, <4>2
    <3> QED BY <3>3, <3>5, <3>6
  <2>4. /\ d \in Seq(Nat) /\ Len(d) = n + 1 - p /\ d[n + 1 - p] = kFullStop
        /\ \A i \in 1 .. n - p : d[i] = b[i]
    <3>1. Len(b) + 1 = n + 1 - p /\ DOMAIN b = 1 .. n - p
      BY <1>1, <1>6, <2>3
    <3> HIDE DEF b
    <3>2. /\ d \in Seq(Nat) /\ Len(d) = Len(b) + 1 /\ d[Len(b) + 1] = kFullStop
          /\ \A i \in 1 .. Len(b) : d[i] = b[i]
      BY <1>0, <2>3, AppendProperties
    <3> HIDE DEF d
    <3> QED BY <2>3, <3>1, <3>2
  <2>5. \A i \in 1 .. n + 1 - p : a[i] = d[i]
    <3> SUFFICES ASSUME NEW i \in 1 .. n + 1 - p PROVE a[i] = d[i]
      OBVIOUS
    <3>1. i = n + 1 - p \/ (i \in 1 .. n - p /\ p + i \in 1 .. n)
      BY <1>1, <1>6
    <3> HIDE DEF a, b, d
    <3>2. CASE i = n + 1 - p
      <4>1. p + i = n + 1
        BY <1>1, <1>6, <3>2
      <4> QED BY <1>2, <2>2, <2>4, <3>2, <4>1
    <3>3. CASE i \in 1 .. n - p /\ p + i \in 1 .. n
      BY <1>2, <2>2, <2>3, <2>4, <3>3
    <3> QED BY <3>1, <3>2, <3>3
  <2>6. a = d
    <3> HIDE DEF a, d
    <3> QED BY <2>2, <2>4, <2>5, SeqEqual
  <2> QED BY <2>1, <2>6
<1>7. ASSUME ~ (p <= n) PROVE AfterStop(r) = <<>>
  <2>1. AfterStop(r) = SubSeq(r, p + 1, n + 1) /\ p + 1 \in Int /\ n + 1 \in Int /\ n + 1 < p + 1
    BY <1>1, <1>2, <1>4, <1>7 DEF AfterStop
  <2> QED BY <2>1, SubSeqEmpty
<1> QED BY <1>4, <1>5, <1>6, <1>7 DEF r, p, n

LEMMA StopOfEmpty == StopIn(<<>>) = 1 /\ ~ (StopIn(<<>>) <= Len(<<>>)) /\ PieceOf(<<>>) = <<>> /\ AfterStop(<<>>) = <<>>
<1>1. <<>> \in Seq(Nat) /\ Len(<<>>) = 0
  OBVIOUS
<1>2. \A c \in Seq(Nat) : Len(c) = 0 => StopIn(c) = 1 /\ c = PieceOf(c) /\ AfterStop(c) = <<>>
  <2> SUFFICES ASSUME NEW c \in Seq(Nat), Len(c) = 0
               PROVE  StopIn(c) = 1 /\ c = PieceOf(c) /\ AfterStop(c) = <<>>
    OBVIOUS
  <2>1. StopIn(c) = 1
    <3>1. StopIn(c) \in 1 .. Len(c) + 1
      BY StopIs DEF IsStop
    <3> QED BY <3>1
  <2>2. ~ (StopIn(c) <= Len(c))
    BY <2>1
  <2> QED BY <2>1, <2>2, PieceJoin
<1>3. StopIn(<<>>) = 1 /\ <<>> = PieceOf(<<>>) /\ AfterStop(<<>>) = <<>>
  BY <1>1, <1>2
<1> QED BY <1>1, <1>3

-----------------------------------------------------------------------------
(* The labels of a text.                                                    *)

\* What a piece of the text resolves to: one label, or none.
Resolving(p) ==
    IF has_ace_prefix(p)
    THEN {[cps |-> u, from_alabel |-> TRUE, alabel |-> p] : u \in Decode(p)}
    ELSE {[cps |-> p, from_alabel |-> FALSE, alabel |-> <<>>]}

Works == [cps : Seq(Nat), from_alabel : BOOLEAN, alabel : Seq(Lower)]

LEMMA ResolvingFacts ==
    ASSUME NEW p \in Seq(Lower), NEW w \in Resolving(p)
    PROVE  /\ w \in Works
           /\ w.from_alabel => w.alabel = p
           /\ ~ w.from_alabel => w.cps = p
           /\ \A v \in Resolving(p) : v = w
<1>1. p \in Seq(Nat) /\ <<>> \in Seq(Lower)
  BY SeqLower
<1>2. CASE has_ace_prefix(p)
  <2>1. \A u \in Decode(p) : u \in Seq(Nat) /\ u = Decoded[p]
    BY CodecAssumption DEF Decode
  <2>2. \A v \in Resolving(p) : \E u \in Decode(p) : v = [cps |-> u, from_alabel |-> TRUE, alabel |-> p]
    BY <1>2 DEF Resolving
  <2>3. \A v \in Resolving(p) : v = [cps |-> Decoded[p], from_alabel |-> TRUE, alabel |-> p] /\ Decoded[p] \in Seq(Nat)
    BY <2>1, <2>2
  <2>4. w = [cps |-> Decoded[p], from_alabel |-> TRUE, alabel |-> p] /\ Decoded[p] \in Seq(Nat)
    BY <2>3
  <2>5. w \in Works /\ w.from_alabel /\ w.alabel = p
    BY <2>4 DEF Works
  <2>6. \A v \in Resolving(p) : v = w
    BY <2>3, <2>4
  <2> QED BY <2>5, <2>6
<1>3. CASE ~ has_ace_prefix(p)
  <2>1. \A v \in Resolving(p) : v = [cps |-> p, from_alabel |-> FALSE, alabel |-> <<>>]
    BY <1>3 DEF Resolving
  <2>2. w = [cps |-> p, from_alabel |-> FALSE, alabel |-> <<>>]
    BY <2>1
  <2>3. w \in Works /\ ~ w.from_alabel /\ w.cps = p
    BY <1>1, <2>2 DEF Works
  <2>4. \A v \in Resolving(p) : v = w
    BY <2>1, <2>2
  <2> QED BY <2>3, <2>4
<1> QED BY <1>2, <1>3

\* The labels ls of the text t so far, and what was left of it before each, rs.
Chain(t, rs, ls) ==
    /\ ls \in Seq(Works) /\ rs \in Seq(Seq(Lower)) /\ Len(rs) = Len(ls) + 1 /\ rs[1] = t
    /\ \A k \in 1 .. Len(ls) : rs[k + 1] = AfterStop(rs[k]) /\ ls[k] \in Resolving(PieceOf(rs[k]))
Open(rs, n) == \A k \in 1 .. n : StopIn(rs[k]) <= Len(rs[k])

\* All the labels of t.
Labelling(t, rs, ls) ==
    /\ Chain(t, rs, ls) /\ Len(ls) >= 1 /\ Open(rs, Len(ls) - 1)
    /\ ~ (StopIn(rs[Len(ls)]) <= Len(rs[Len(ls)]))
Labelled(t, ls) == \E rs : Labelling(t, rs, ls)

LEMMA ChainType ==
    ASSUME NEW t, NEW rs, NEW ls, Chain(t, rs, ls)
    PROVE  /\ ls \in Seq(Works) /\ Len(ls) \in Nat /\ Len(rs) = Len(ls) + 1 /\ rs[1] = t
           /\ \A k \in 1 .. Len(ls) + 1 : rs[k] \in Seq(Lower) /\ rs[k] \in Seq(Nat)
           /\ \A k \in 1 .. Len(ls) :
                /\ k + 1 \in 1 .. Len(ls) + 1 /\ k \in 1 .. Len(ls) + 1
                /\ PieceOf(rs[k]) \in Seq(Lower) /\ PieceOf(rs[k]) \in Seq(Nat)
                /\ AfterStop(rs[k]) \in Seq(Lower)
                /\ rs[k + 1] = AfterStop(rs[k]) /\ ls[k] \in Resolving(PieceOf(rs[k])) /\ ls[k] \in Works
<1>1. ls \in Seq(Works) /\ Len(ls) \in Nat /\ Len(rs) = Len(ls) + 1 /\ rs[1] = t /\ rs \in Seq(Seq(Lower))
  BY DEF Chain
<1>2. \A k \in 1 .. Len(ls) + 1 : rs[k] \in Seq(Lower) /\ rs[k] \in Seq(Nat)
  <2> SUFFICES ASSUME NEW k \in 1 .. Len(ls) + 1 PROVE rs[k] \in Seq(Lower)
    BY SeqLower
  <2> DEFINE S == Seq(Lower)
  <2>1. rs \in Seq(S) /\ k \in 1 .. Len(rs)
    BY <1>1
  <2>2. rs[k] \in S
    <3> HIDE DEF S
    <3> QED BY <2>1, ElementOfSeq
  <2> QED BY <2>2
<1>3. ASSUME NEW k \in 1 .. Len(ls)
      PROVE  /\ k + 1 \in 1 .. Len(ls) + 1 /\ k \in 1 .. Len(ls) + 1
             /\ PieceOf(rs[k]) \in Seq(Lower) /\ PieceOf(rs[k]) \in Seq(Nat)
             /\ AfterStop(rs[k]) \in Seq(Lower)
             /\ rs[k + 1] = AfterStop(rs[k]) /\ ls[k] \in Resolving(PieceOf(rs[k])) /\ ls[k] \in Works
  <2>1. k + 1 \in 1 .. Len(ls) + 1 /\ k \in 1 .. Len(ls) + 1
    BY <1>1
  <2>2. rs[k] \in Seq(Lower) /\ Lower \in SUBSET Nat
    BY <1>2, <2>1 DEF Lower
  <2>3. PieceOf(rs[k]) \in Seq(Lower) /\ AfterStop(rs[k]) \in Seq(Lower)
    BY <2>2, PieceType
  <2>4. rs[k + 1] = AfterStop(rs[k]) /\ ls[k] \in Resolving(PieceOf(rs[k]))
    BY DEF Chain
  <2>5. ls[k] \in Works
    BY <1>1, ElementOfSeq
  <2> QED BY <2>1, <2>3, <2>4, <2>5, SeqLower
<1> QED BY <1>1, <1>2, <1>3

\* Two chains of one text agree on the labels both have.
LEMMA ChainsAgree ==
    ASSUME NEW t, NEW rs, NEW ls, Chain(t, rs, ls), NEW qs, NEW ms, Chain(t, qs, ms),
           NEW n \in Nat, n <= Len(ls), n <= Len(ms)
    PROVE  /\ \A k \in 1 .. n + 1 : rs[k] = qs[k]
           /\ \A k \in 1 .. n : ls[k] = ms[k]
<1> DEFINE P(k) == rs[k + 1] = qs[k + 1]
           T == {k \in Nat : k <= n => P(k)}
<1>0. Len(ls) \in Nat /\ Len(ms) \in Nat
  BY ChainType
<1>1. 0 \in T
  BY ChainType
<1>2. ASSUME NEW k \in T PROVE k + 1 \in T
  <2> SUFFICES ASSUME k + 1 <= n PROVE P(k + 1)
    <3>1. k + 1 \in Nat
      OBVIOUS
    <3> HIDE DEF P
    <3> QED BY <3>1
  <2>1. k \in Nat /\ rs[k + 1] = qs[k + 1] /\ k + 1 \in 1 .. Len(ls) /\ k + 1 \in 1 .. Len(ms)
    BY <1>0
  <2>2. rs[(k + 1) + 1] = AfterStop(rs[k + 1]) /\ qs[(k + 1) + 1] = AfterStop(qs[k + 1])
    BY <2>1 DEF Chain
  <2> QED BY <2>1, <2>2
<1>3. T = Nat
  <2> HIDE DEF P
  <2>1. T \in SUBSET Nat
    OBVIOUS
  <2> HIDE DEF T
  <2> QED BY <1>1, <1>2, <2>1, Induction
<1>4. \A k \in Nat : k <= n => P(k)
  BY <1>3
<1>5. \A k \in 1 .. n + 1 : rs[k] = qs[k]
  <2> SUFFICES ASSUME NEW k \in 1 .. n + 1 PROVE rs[k] = qs[k]
    OBVIOUS
  <2>1. k - 1 \in Nat /\ k - 1 <= n /\ (k - 1) + 1 = k
    OBVIOUS
  <2>2. P(k - 1)
    BY <1>4, <2>1
  <2> QED BY <2>1, <2>2
<1>6. ASSUME NEW k \in 1 .. n PROVE ls[k] = ms[k]
  <2>1. k \in 1 .. n + 1 /\ k \in 1 .. Len(ls) /\ k \in 1 .. Len(ms)
    BY <1>0
  <2>2. rs[k] = qs[k]
    BY <1>5, <2>1
  <2>3. ls[k] \in Resolving(PieceOf(rs[k])) /\ ms[k] \in Resolving(PieceOf(qs[k])) /\ PieceOf(rs[k]) \in Seq(Lower)
    BY <2>1, ChainType
  <2> QED BY <2>2, <2>3, ResolvingFacts
<1> QED BY <1>5, <1>6

LEMMA LabellingOne ==
    ASSUME NEW t, NEW rs, NEW ls, Labelling(t, rs, ls), NEW qs, NEW ms, Labelling(t, qs, ms)
    PROVE  ls = ms
<1>1. /\ Chain(t, rs, ls) /\ Chain(t, qs, ms) /\ Len(ls) \in Nat /\ Len(ms) \in Nat
      /\ Len(ls) >= 1 /\ Len(ms) >= 1 /\ ls \in Seq(Works) /\ ms \in Seq(Works)
  BY ChainType DEF Labelling
<1>2. ~ (Len(ls) < Len(ms))
  <2> SUFFICES ASSUME Len(ls) < Len(ms) PROVE FALSE
    OBVIOUS
  <2>1. Len(ls) <= Len(ms) /\ Len(ls) <= Len(ls) /\ Len(ls) \in 1 .. Len(ls) + 1 /\ Len(ls) \in 1 .. Len(ms) - 1
    BY <1>1
  <2>2. rs[Len(ls)] = qs[Len(ls)]
    BY <1>1, <2>1, ChainsAgree
  <2> QED BY <2>1, <2>2 DEF Labelling, Open
<1>3. ~ (Len(ms) < Len(ls))
  <2> SUFFICES ASSUME Len(ms) < Len(ls) PROVE FALSE
    OBVIOUS
  <2>1. Len(ms) <= Len(ls) /\ Len(ms) <= Len(ms) /\ Len(ms) \in 1 .. Len(ms) + 1 /\ Len(ms) \in 1 .. Len(ls) - 1
    BY <1>1
  <2>2. rs[Len(ms)] = qs[Len(ms)]
    BY <1>1, <2>1, ChainsAgree
  <2> QED BY <2>1, <2>2 DEF Labelling, Open
<1>4. Len(ls) = Len(ms)
  BY <1>1, <1>2, <1>3
<1>5. \A k \in 1 .. Len(ls) : ls[k] = ms[k]
  <2>1. Len(ls) <= Len(ls) /\ Len(ls) <= Len(ms)
    BY <1>1, <1>4
  <2> QED BY <1>1, <2>1, ChainsAgree
<1> QED BY <1>1, <1>4, <1>5, SeqEqual

EmptyWork == [cps |-> <<>>, from_alabel |-> FALSE, alabel |-> <<>>]

LEMMA EmptyResolves == EmptyWork \in Resolving(<<>>) /\ EmptyWork \in Works
<1>1. ~ has_ace_prefix(<<>>)
  <2>1. ~ (Len(<<>>) >= 4)
    OBVIOUS
  <2> QED BY <2>1 DEF has_ace_prefix
<1> QED BY <1>1 DEF Resolving, EmptyWork, Works

\* A text that ends in a stop has one label more, which is empty.
LEMMA LabellingStop ==
    ASSUME NEW t \in Seq(Lower), NEW ls, Labelled(t, ls)
    PROVE  Labelled(Append(t, kFullStop), Append(ls, EmptyWork))
<1>0. kFullStop \in Lower
  BY DEF kFullStop, Lower
<1>1. PICK rs : Labelling(t, rs, ls)
  BY DEF Labelled
<1> DEFINE n == Len(ls)
           ms == Append(ls, EmptyWork)
           r == Append(t, kFullStop)
           qs == [k \in 1 .. n + 2 |-> IF k <= n THEN Append(rs[k], kFullStop) ELSE <<>>]
<1>2. /\ Chain(t, rs, ls) /\ n \in Nat /\ n >= 1 /\ Open(rs, n - 1) /\ ls \in Seq(Works)
      /\ ~ (StopIn(rs[n]) <= Len(rs[n])) /\ rs[1] = t
  BY <1>1, ChainType DEF Labelling
<1>3. /\ ms \in Seq(Works) /\ Len(ms) = n + 1 /\ ms[n + 1] = EmptyWork /\ \A k \in 1 .. n : ms[k] = ls[k]
  BY <1>2, EmptyResolves
<1>4. ASSUME NEW k \in 1 .. n + 1 PROVE rs[k] \in Seq(Lower) /\ rs[k] \in Seq(Nat) /\ Append(rs[k], kFullStop) \in Seq(Lower)
  BY <1>0, <1>2, ChainType
<1>5. /\ qs \in Seq(Seq(Lower)) /\ Len(qs) = n + 2 /\ qs[n + 1] = <<>> /\ qs[n + 2] = <<>>
      /\ \A k \in 1 .. n : qs[k] = Append(rs[k], kFullStop)
  <2> DEFINE S == Seq(Lower)
  <2>1. ASSUME NEW k \in 1 .. n + 2 PROVE (IF k <= n THEN Append(rs[k], kFullStop) ELSE <<>>) \in S
    <3>1. <<>> \in S
      OBVIOUS
    <3>2. k <= n => k \in 1 .. n + 1
      BY <1>2
    <3> QED BY <1>4, <3>1, <3>2
  <2>2. qs \in [1 .. n + 2 -> S] /\ n + 2 \in Nat
    BY <1>2, <2>1
  <2>3. qs \in Seq(S) /\ Len(qs) = n + 2
    <3> HIDE DEF qs, S
    <3> QED BY <2>2
  <2>4. /\ n + 1 \in 1 .. n + 2 /\ n + 2 \in 1 .. n + 2 /\ ~ (n + 1 <= n) /\ ~ (n + 2 <= n)
        /\ \A k \in 1 .. n : k \in 1 .. n + 2 /\ k <= n
    BY <1>2
  <2> QED BY <2>3, <2>4
<1> HIDE DEF qs, ms
<1>6. ASSUME NEW k \in 1 .. n + 1
      PROVE  qs[k + 1] = AfterStop(qs[k]) /\ ms[k] \in Resolving(PieceOf(qs[k]))
  <2>1. CASE k \in 1 .. n
    <3>1. k \in 1 .. n + 1 /\ rs[k] \in Seq(Nat) /\ rs[k + 1] = AfterStop(rs[k]) /\ ls[k] \in Resolving(PieceOf(rs[k]))
      <4>1. \A i \in 1 .. n + 1 : rs[i] \in Seq(Nat)
        BY <1>2, ChainType
      <4>2. rs[k + 1] = AfterStop(rs[k]) /\ ls[k] \in Resolving(PieceOf(rs[k])) /\ k \in 1 .. n + 1
        BY <1>2, <2>1, ChainType
      <4> QED BY <4>1, <4>2
    <3>2. PieceOf(qs[k]) = PieceOf(rs[k])
      BY <1>5, <2>1, <3>1, StopAtEnd
    <3>3. CASE k = n
      <4>1. AfterStop(qs[k]) = <<>>
        BY <1>2, <1>5, <2>1, <3>1, <3>3, StopAtEnd
      <4> QED BY <1>3, <1>5, <2>1, <3>1, <3>2, <3>3, <4>1
    <3>4. CASE k # n
      <4>1. k \in 1 .. n - 1 /\ k + 1 \in 1 .. n
        BY <1>2, <2>1, <3>4
      <4>2. StopIn(rs[k]) <= Len(rs[k])
        BY <1>2, <4>1 DEF Open
      <4>3. AfterStop(qs[k]) = Append(AfterStop(rs[k]), kFullStop)
        BY <1>5, <2>1, <3>1, <4>2, StopAtEnd
      <4>4. qs[k + 1] = Append(rs[k + 1], kFullStop)
        BY <1>5, <4>1
      <4> QED BY <1>3, <2>1, <3>1, <3>2, <4>3, <4>4
    <3> QED BY <3>3, <3>4
  <2>2. CASE k = n + 1
    <3>1. qs[k] = <<>> /\ qs[k + 1] = <<>>
      BY <1>2, <1>5, <2>2
    <3> QED BY <1>3, <2>2, <3>1, StopOfEmpty, EmptyResolves
  <2> QED BY <1>2, <2>1, <2>2
<1>7. qs[1] = r
  <2>1. 1 \in 1 .. n
    BY <1>2
  <2> QED BY <1>2, <1>5, <2>1
<1>8. Chain(r, qs, ms)
  BY <1>2, <1>3, <1>5, <1>6, <1>7 DEF Chain
<1>9. Open(qs, n)
  <2> SUFFICES ASSUME NEW k \in 1 .. n PROVE StopIn(qs[k]) <= Len(qs[k])
    BY DEF Open
  <2>1. rs[k] \in Seq(Nat)
    BY <1>2, <1>4
  <2> QED BY <1>5, <2>1, StopAtEnd
<1>10. ~ (StopIn(qs[n + 1]) <= Len(qs[n + 1]))
  BY <1>5, StopOfEmpty
<1>11. Labelling(r, qs, ms)
  BY <1>2, <1>3, <1>8, <1>9, <1>10 DEF Labelling
<1> QED BY <1>11 DEF Labelled, ms

-----------------------------------------------------------------------------
(* The forms of the labels, and how they are joined.                        *)

ValidUnder(o, l, from_alabel) ==
    /\ l # <<>>
    /\ from_alabel => nfc(l) = l
    /\ ~is_combining_mark(Head(l))
    /\ o.check_hyphens => HyphensOk(l)
    /\ \A i \in DOMAIN l :
        IF l[i] < 128 THEN o.use_std3 => Ldh(l[i])
        ELSE from_alabel => idna_lookup(l[i]).status \in {"valid", "deviation"}
    /\ check_joiners(l)

\* Whether finalize_label takes w among the labels ls, and the form it gives it.
Accepts(o, ls, w) ==
    \/ PassesEmpty(w)
    \/ ValidUnder(o, w.cps, w.from_alabel) /\ (BidiDomain(ls) => check_bidi(w.cps))
FormOf(w) ==
    IF PassesEmpty(w) THEN {<<>>}
    ELSE IF w.from_alabel THEN Encode(w.cps) \cap {w.alabel} ELSE Encode(w.cps)

LEMMA FinalizeIs ==
    ASSUME NEW w
    PROVE  finalize_label(w) = IF Accepts(opts, labels, w) THEN FormOf(w) ELSE {}
<1>1. validate_label(w.cps, w.from_alabel) <=> ValidUnder(opts, w.cps, w.from_alabel)
  BY DEF validate_label, ValidUnder
<1> QED BY <1>1 DEF finalize_label, Accepts, FormOf

LEMMA FormFacts ==
    ASSUME NEW p \in Seq(Lower), NEW w \in Resolving(p), NEW x \in FormOf(w)
    PROVE  /\ x \in Seq(Form)
           /\ \A y \in FormOf(w) : y = x
           /\ Ascii(p) => x = p
           /\ \A o, ls : Accepts(o, ls, w) /\ o.use_std3 => \A k \in DOMAIN x : Ldh(x[k])
<1> DEFINE u == w.cps
<1>1. /\ u \in Seq(Nat) /\ w.from_alabel \in BOOLEAN
      /\ w.from_alabel => w.alabel = p
      /\ ~ w.from_alabel => u = p
      /\ p \in Seq(Nat) /\ \A k \in DOMAIN p : p[k] \in Nat /\ p[k] \notin 65 .. 90
  <2>1. p \in Seq(Nat)
    BY SeqLower
  <2>2. \A k \in DOMAIN p : p[k] \in Lower
    OBVIOUS
  <2> QED BY <2>1, <2>2, ResolvingFacts DEF Works, Lower
<1>2. CASE PassesEmpty(w)
  <2>1. x = <<>> /\ p = <<>> /\ \A y \in FormOf(w) : y = x
    BY <1>1, <1>2 DEF PassesEmpty, FormOf
  <2>2. x \in Seq(Form) /\ DOMAIN x = {}
    BY <2>1
  <2> QED BY <2>1, <2>2
<1>3. CASE ~ PassesEmpty(w)
  <2>1. x \in Encode(u) /\ (w.from_alabel => x = p) /\ \A y \in FormOf(w) : y \in Encode(u)
    BY <1>1, <1>3 DEF FormOf
  <2>2. CASE Ascii(u)
    <3>1. Encode(u) = {u}
      BY <2>2 DEF Encode
    <3>2. x = u /\ x = p /\ \A y \in FormOf(w) : y = x
      BY <1>1, <2>1, <3>1
    <3>3. \A k \in DOMAIN x : x[k] \in Form /\ x[k] < 128
      <4>1. \A k \in DOMAIN x : x[k] \in Nat /\ x[k] \notin 65 .. 90 /\ x[k] < 128
        BY <1>1, <2>2, <3>2 DEF Ascii
      <4>2. \A c \in Nat : c \notin 65 .. 90 /\ c < 128 => c \in Form
        BY DEF Form
      <4> HIDE DEF Form
      <4> QED BY <4>1, <4>2
    <3>4. x \in Seq(Form)
      <4>1. x \in [1 .. Len(x) -> Form] /\ Len(x) \in Nat
        <5>1. x \in Seq(Nat)
          BY <1>1, <3>2
        <5>2. x \in [1 .. Len(x) -> Nat] /\ Len(x) \in Nat /\ DOMAIN x = 1 .. Len(x)
          BY <5>1, LenProperties
        <5> HIDE DEF Form
        <5> QED BY <3>3, <5>2
      <4> HIDE DEF Form
      <4> QED BY <4>1
    <3>5. ASSUME NEW o, NEW ls, Accepts(o, ls, w), o.use_std3, NEW k \in DOMAIN x PROVE Ldh(x[k])
      <4>1. ValidUnder(o, u, w.from_alabel)
        BY <1>3, <3>5 DEF Accepts
      <4> QED BY <3>2, <3>3, <3>5, <4>1 DEF ValidUnder
    <3> QED BY <3>2, <3>4, <3>5
  <2>3. CASE ~ Ascii(u)
    <3>1. u \in DOMAIN Encoded /\ x = Encoded[u] /\ \A y \in FormOf(w) : y = x
      BY <2>1, <2>3 DEF Encode
    <3>2. /\ x \in Seq(0 .. 127)
          /\ \A k \in DOMAIN x : Ldh(x[k]) \/ \E j \in DOMAIN u : u[j] = x[k]
      BY <3>1, CodecAssumption
    <3>3. /\ x \in [1 .. Len(x) -> 0 .. 127] /\ Len(x) \in Nat /\ DOMAIN x = 1 .. Len(x)
          /\ \A k \in DOMAIN x : x[k] \in 0 .. 127
      <4> DEFINE A == 0 .. 127
      <4>1. x \in Seq(A)
        BY <3>2
      <4>2. x \in [1 .. Len(x) -> A] /\ Len(x) \in Nat /\ DOMAIN x = 1 .. Len(x)
        <5> HIDE DEF A
        <5> QED BY <4>1, LenProperties
      <4> QED BY <4>2
    <3>4. ASSUME NEW k \in DOMAIN x PROVE x[k] \in Form
      <4>1. x[k] \in 0 .. 127
        BY <3>3
      <4>2. CASE w.from_alabel
        BY <1>1, <2>1, <4>1, <4>2 DEF Form
      <4>3. CASE ~ w.from_alabel
        <5>0. \A c \in 0 .. 127 : Ldh(c) => c \notin 65 .. 90
          BY SMT DEF Ldh, kHyphen
        <5>1. Ldh(x[k]) => x[k] \notin 65 .. 90
          BY <4>1, <5>0
        <5>2. (\E j \in DOMAIN u : u[j] = x[k]) => x[k] \notin 65 .. 90
          BY <1>1, <4>3
        <5> QED BY <3>2, <4>1, <5>1, <5>2 DEF Form
      <4> QED BY <1>1, <4>2, <4>3
    <3>5. x \in Seq(Form)
      <4> HIDE DEF Form
      <4>1. x \in [1 .. Len(x) -> Form]
        BY <3>3, <3>4
      <4> QED BY <3>3, <4>1
    <3>6. ASSUME NEW o, NEW ls, Accepts(o, ls, w), o.use_std3, NEW k \in DOMAIN x PROVE Ldh(x[k])
      <4>1. ValidUnder(o, u, w.from_alabel)
        BY <1>3, <3>6 DEF Accepts
      <4>2. \A j \in DOMAIN u : u[j] < 128 => Ldh(u[j])
        BY <3>6, <4>1 DEF ValidUnder
      <4>3. x[k] < 128
        <5>1. x[k] \in 0 .. 127
          BY <3>3, <3>6
        <5>2. \A c \in 0 .. 127 : c < 128
          OBVIOUS
        <5> QED BY <5>1, <5>2
      <4> QED BY <3>2, <3>6, <4>2, <4>3
    <3>7. ASSUME Ascii(p) PROVE x = p
      BY <1>1, <2>1, <2>3, <3>7
    <3> QED BY <3>1, <3>5, <3>6, <3>7
  <2> QED BY <2>2, <2>3
<1> QED BY <1>2, <1>3

-----------------------------------------------------------------------------
(* The host put together.                                                   *)

Joinable(S, b, r) == kFullStop \in S /\ b \in Seq(S) /\ r \in Seq(Seq(S))

LEMMA JoinRuns ==
    ASSUME NEW S, NEW b, NEW r, Joinable(S, b, r)
    PROVE  /\ JoinFrom(b, <<>>) = b
           /\ JoinFrom(b, r) \in Seq(S)
           /\ \A l \in Seq(S) : JoinFrom(b, Append(r, l)) = (JoinFrom(b, r) \o <<kFullStop>>) \o l
<1> DEFINE V == Seq(S)
<1>1. b \in V /\ r \in Seq(V) /\ \A a \in V, x \in V : ((a \o <<kFullStop>>) \o x) \in V
  <2>1. <<kFullStop>> \in Seq(S)
    BY DEF Joinable
  <2> QED BY <2>1 DEF Joinable
<1>2. /\ JoinFrom(b, <<>>) = b
      /\ JoinFrom(b, r) \in V
      /\ \A l \in V : JoinFrom(b, Append(r, l)) = (JoinFrom(b, r) \o <<kFullStop>>) \o l
  <2> HIDE DEF V
  <2>1. JoinFoldArgs(V, V, b, r)
    BY <1>1 DEF JoinFoldArgs
  <2> QED BY <2>1, JoinFold
<1> QED BY <1>2

Separator(root) == IF root THEN <<kFullStop>> ELSE <<>>

LEMMA JoinedIs ==
    ASSUME NEW ls, NEW root
    PROVE  Joined(ls, root) = JoinFrom(Head(ls), Tail(ls)) \o Separator(root)
BY DEF Joined, JoinFrom, Separator

LEMMA JoinType ==
    ASSUME NEW S, kFullStop \in S, NEW ls \in Seq(Seq(S)), ls # <<>>, NEW root
    PROVE  /\ Head(ls) \in Seq(S) /\ Tail(ls) \in Seq(Seq(S)) /\ Len(Tail(ls)) = Len(ls) - 1
           /\ JoinFrom(Head(ls), Tail(ls)) \in Seq(S) /\ Separator(root) \in Seq(S)
           /\ Joined(ls, root) \in Seq(S)
<1>1. Head(ls) \in Seq(S) /\ Tail(ls) \in Seq(Seq(S)) /\ Len(Tail(ls)) = Len(ls) - 1
  BY HeadTailProperties
<1>2. JoinFrom(Head(ls), Tail(ls)) \in Seq(S)
  <2>1. Joinable(S, Head(ls), Tail(ls))
    BY <1>1 DEF Joinable
  <2> QED BY <2>1, JoinRuns
<1>3. Separator(root) \in Seq(S)
  BY DEF Separator
<1>4. JoinFrom(Head(ls), Tail(ls)) \o Separator(root) \in Seq(S)
  BY <1>2, <1>3
<1>5. Joined(ls, root) \in Seq(S)
  BY <1>4, JoinedIs
<1> QED BY <1>1, <1>2, <1>3, <1>5

\* An empty label at the end is written as the root's dot is.
LEMMA JoinStop ==
    ASSUME NEW S, kFullStop \in S, NEW ls \in Seq(Seq(S)), ls # <<>>
    PROVE  Joined(Append(ls, <<>>), FALSE) = Joined(ls, TRUE)
<1> DEFINE V == Seq(S)
           r == Append(ls, <<>>)
           j == JoinFrom(Head(ls), Tail(ls))
<1>1. Head(ls) \in Seq(S) /\ Tail(ls) \in Seq(Seq(S)) /\ j \in Seq(S)
  BY JoinType
<1>2. Head(r) = Head(ls) /\ Tail(r) = Append(Tail(ls), <<>>)
  <2>1. ls \in Seq(V)
    OBVIOUS
  <2> HIDE DEF V
  <2> QED BY <2>1, HeadTailAppend
<1>3. JoinFrom(Head(ls), Append(Tail(ls), <<>>)) = (j \o <<kFullStop>>) \o <<>>
  <2>1. \A l \in Seq(S) : JoinFrom(Head(ls), Append(Tail(ls), l)) = (JoinFrom(Head(ls), Tail(ls)) \o <<kFullStop>>) \o l
    <3>1. Joinable(S, Head(ls), Tail(ls))
      BY <1>1 DEF Joinable
    <3> QED BY <3>1, JoinRuns
  <2>2. <<>> \in Seq(S)
    OBVIOUS
  <2> QED BY <2>1, <2>2
<1> HIDE DEF j
<1>4. j \o <<kFullStop>> \in Seq(S) /\ (j \o <<kFullStop>>) \o <<>> = j \o <<kFullStop>>
  BY <1>1
<1>5. Joined(r, FALSE) = (j \o <<kFullStop>>) \o <<>>
  <2>1. Joined(r, FALSE) = JoinFrom(Head(r), Tail(r)) \o <<>>
    BY JoinedIs DEF Separator
  <2> HIDE DEF r
  <2> QED BY <1>2, <1>3, <1>4, <2>1
<1>6. Joined(ls, TRUE) = j \o <<kFullStop>>
  BY JoinedIs DEF Separator, j
<1> QED BY <1>4, <1>5, <1>6

Summable(S, b, r) == b \in Nat /\ r \in Seq(Seq(S))

LEMMA SumRuns ==
    ASSUME NEW S, NEW b, NEW r, Summable(S, b, r)
    PROVE  /\ SumFrom(b, <<>>) = b
           /\ SumFrom(b, r) \in Nat
           /\ \A l \in Seq(S) : SumFrom(b, Append(r, l)) = SumFrom(b, r) + Len(l)
<1> DEFINE X == Seq(S)
<1>1. b \in Nat /\ r \in Seq(X) /\ \A a \in Nat, x \in X : (a + Len(x)) \in Nat
  BY DEF Summable
<1>2. /\ SumFrom(b, <<>>) = b
      /\ SumFrom(b, r) \in Nat
      /\ \A l \in X : SumFrom(b, Append(r, l)) = (SumFrom(b, r) + Len(l))
  <2> HIDE DEF X
  <2>1. SumFoldArgs(Nat, X, b, r)
    BY <1>1 DEF SumFoldArgs
  <2> QED BY <2>1, SumFold
<1> QED BY <1>2

\* What verify_dns_length adds up is the length of what is put together.
LEMMA JoinLength ==
    ASSUME NEW S, kFullStop \in S, NEW ls \in Seq(Seq(S)), ls # <<>>, NEW root
    PROVE  Len(Joined(ls, root)) = Total(ls) + Len(Separator(root))
<1> DEFINE V == Seq(S)
           n == Len(ls)
           b == Head(ls)
           r == Tail(ls)
           J(k) == JoinFrom(b, SubSeq(r, 1, k))
           N(k) == SumFrom(n - 1, SubSeq(ls, 1, k + 1))
           P(k) == Len(J(k)) = N(k) - (n - 1) + k
           T == {k \in Nat : k <= n - 1 => P(k)}
<1>0. /\ n \in Nat /\ n >= 1 /\ n - 1 \in Nat /\ b \in Seq(S) /\ r \in Seq(Seq(S)) /\ Len(r) = n - 1
      /\ b = ls[1] /\ \A k \in 1 .. n - 1 : r[k] = ls[k + 1]
      /\ \A k \in 1 .. n : ls[k] \in Seq(S)
  <2>1. ls \in Seq(V) /\ Len(ls) # 0
    OBVIOUS
  <2>2. /\ b \in V /\ r \in Seq(V) /\ n \in Nat /\ Len(r) = n - 1 /\ b = ls[1]
        /\ \A k \in 1 .. n - 1 : r[k] = ls[k + 1]
        /\ \A k \in 1 .. n : ls[k] \in V
    <3> HIDE DEF V
    <3> QED BY <2>1
  <2> QED BY <2>1, <2>2
<1>1. 0 \in T
  <2>1. SubSeq(r, 1, 0) = <<>>
    BY SubSeqEmpty
  <2>2. SubSeq(ls, 1, 0 + 1) = Append(<<>>, b)
    <3>1. ls \in Seq(V) /\ 1 \in 1 .. n
      BY <1>0
    <3>2. SubSeq(ls, 1, 1) = SubSeq(ls, 1, 1 - 1) \o << ls[1] >>
      <4> HIDE DEF V
      <4> QED BY <3>1, SubSeqRecursiveSecond
    <3>3. SubSeq(ls, 1, 1 - 1) = <<>>
      BY SubSeqEmpty
    <3>4. 0 + 1 = 1 /\ <<>> \o << ls[1] >> = Append(<<>>, ls[1])
      OBVIOUS
    <3> HIDE DEF b
    <3> QED BY <1>0, <3>2, <3>3, <3>4
  <2>3. J(0) = b
    <3>1. Joinable(S, b, <<>>)
      BY <1>0 DEF Joinable
    <3> HIDE DEF b, r
    <3> QED BY <2>1, <3>1, JoinRuns
  <2>4. N(0) = (n - 1) + Len(b)
    <3> DEFINE e == <<>>
    <3>1. Summable(S, n - 1, e)
      BY <1>0 DEF Summable
    <3>2. /\ SumFrom(n - 1, <<>>) = n - 1
          /\ \A l \in Seq(S) : SumFrom(n - 1, Append(e, l)) = SumFrom(n - 1, e) + Len(l)
      <4> HIDE DEF n, e
      <4> QED BY <3>1, SumRuns
    <3> HIDE DEF n, b
    <3> QED BY <1>0, <2>2, <3>2
  <2>5. Len(b) \in Nat
    BY <1>0
  <2> QED BY <1>0, <2>3, <2>4, <2>5
<1>2. ASSUME NEW k \in T PROVE k + 1 \in T
  <2> SUFFICES ASSUME k + 1 <= n - 1 PROVE P(k + 1)
    <3>1. k + 1 \in Nat
      OBVIOUS
    <3> HIDE DEF P
    <3> QED BY <3>1
  <2> DEFINE x == ls[k + 2]
             rk == SubSeq(r, 1, k)
             lk == SubSeq(ls, 1, k + 1)
  <2>1. k \in Nat /\ P(k) /\ k + 1 \in 1 .. n - 1 /\ k + 2 \in 1 .. n /\ x \in Seq(S) /\ r[k + 1] = x
    <3>1. k \in Nat /\ k + 1 \in 1 .. n - 1 /\ k + 2 \in 1 .. n /\ k <= n - 1 /\ (k + 1) + 1 = k + 2
      BY <1>0
    <3>2. P(k)
      <4> HIDE DEF P
      <4> QED BY <3>1
    <3> QED BY <1>0, <3>1, <3>2
  <2>2. SubSeq(r, 1, k + 1) = Append(rk, x) /\ rk \in Seq(V)
    <3>1. r \in Seq(V) /\ k + 1 <= Len(r)
      BY <1>0
    <3> HIDE DEF r, V
    <3> QED BY <2>1, <3>1, PrefixStep
  <2>3. SubSeq(ls, 1, (k + 1) + 1) = Append(lk, x) /\ lk \in Seq(V)
    <3>1. ls \in Seq(V) /\ k + 1 \in Nat /\ (k + 1) + 1 <= Len(ls) /\ (k + 1) + 1 = k + 2
      BY <1>0, <2>1
    <3> HIDE DEF V
    <3> QED BY <3>1, PrefixStep
  <2> HIDE DEF rk, lk, x, n, b, r
  <2>4. J(k + 1) = (JoinFrom(b, rk) \o <<kFullStop>>) \o x /\ JoinFrom(b, rk) \in Seq(S)
    <3>1. Joinable(S, b, rk)
      BY <1>0, <2>2 DEF Joinable
    <3>2. JoinFrom(b, rk) \in Seq(S)
      BY <3>1, JoinRuns
    <3>3. \A l \in Seq(S) : JoinFrom(b, Append(rk, l)) = (JoinFrom(b, rk) \o <<kFullStop>>) \o l
      BY ONLY <3>1, JoinRuns
    <3> QED BY <2>1, <2>2, <3>2, <3>3
  <2>5. N(k + 1) = SumFrom(n - 1, lk) + Len(x) /\ SumFrom(n - 1, lk) \in Nat
    <3>1. Summable(S, n - 1, lk)
      BY <1>0, <2>3 DEF Summable
    <3>2. SumFrom(n - 1, lk) \in Nat /\ SumFrom(n - 1, Append(lk, x)) = SumFrom(n - 1, lk) + Len(x)
      BY <2>1, <3>1, SumRuns
    <3> QED BY <2>3, <3>2
  <2>6. Len(J(k + 1)) = Len(JoinFrom(b, rk)) + 1 + Len(x) /\ Len(x) \in Nat /\ Len(JoinFrom(b, rk)) \in Nat
    <3>1. \A s, l \in Seq(S) : /\ Len((s \o <<kFullStop>>) \o l) = Len(s) + 1 + Len(l)
                               /\ Len(s) \in Nat /\ Len(l) \in Nat
      OBVIOUS
    <3> QED BY <2>1, <2>4, <3>1
  <2>7. Len(JoinFrom(b, rk)) = SumFrom(n - 1, lk) - (n - 1) + k
    BY <2>1 DEF rk, lk
  <2>8. Len(J(k + 1)) = N(k + 1) - (n - 1) + (k + 1)
    <3>1. n - 1 \in Nat /\ k \in Nat
      BY <1>0, <2>1
    <3>2. \A a, c, d, e, m, i \in Int : e = a + 1 + d /\ a = c - m + i => e = (c + d) - m + (i + 1)
      OBVIOUS
    <3> DEFINE a == Len(JoinFrom(b, rk))
               c == SumFrom(n - 1, lk)
               d == Len(x)
               e == Len(J(k + 1))
               m == n - 1
    <3>3. a \in Int /\ c \in Int /\ d \in Int /\ e \in Int /\ m \in Int /\ k \in Int
          /\ e = a + 1 + d /\ a = c - m + k
      BY <2>5, <2>6, <2>7, <3>1
    <3>4. N(k + 1) = c + d
      BY <2>5
    <3> HIDE DEF a, c, d, e, m
    <3>5. e = (c + d) - m + (k + 1)
      BY <3>2, <3>3
    <3> QED BY <3>4, <3>5 DEF e, m
  <2> QED BY <2>8
<1>3. n - 1 \in T
  <2> HIDE DEF P
  <2>1. T \in SUBSET Nat
    OBVIOUS
  <2> HIDE DEF T, n
  <2> QED BY <1>0, <1>1, <1>2, <2>1, Induction
<1>4. P(n - 1)
  <2> HIDE DEF P, n
  <2> QED BY <1>0, <1>3
<1>5. SubSeq(r, 1, n - 1) = r /\ SubSeq(ls, 1, (n - 1) + 1) = ls
  <2>1. r \in Seq(V) /\ ls \in Seq(V) /\ Len(r) = n - 1 /\ Len(ls) = (n - 1) + 1
    BY <1>0
  <2>2. SubSeq(r, 1, Len(r)) = r /\ SubSeq(ls, 1, Len(ls)) = ls
    <3> HIDE DEF V, r
    <3> QED BY <2>1, SubSeqFull
  <2> QED BY <2>1, <2>2
<1>6. Len(JoinFrom(b, r)) = Total(ls)
  <2>1. Total(ls) = SumFrom(n - 1, ls)
    BY DEF Total, SumFrom
  <2>2. SumFrom(n - 1, ls) \in Nat
    <3>1. Summable(S, n - 1, ls)
      BY <1>0 DEF Summable
    <3> QED BY <3>1, SumRuns
  <2>3. Len(JoinFrom(b, r)) = SumFrom(n - 1, ls) - (n - 1) + (n - 1)
    BY <1>4, <1>5
  <2> HIDE DEF n, b, r
  <2> QED BY <1>0, <2>1, <2>2, <2>3
<1>7. Joined(ls, root) = JoinFrom(b, r) \o Separator(root) /\ JoinFrom(b, r) \in Seq(S) /\ Separator(root) \in Seq(S)
  BY JoinedIs, JoinType
<1> HIDE DEF b, r
<1>8. \A a, c \in Seq(S) : Len(a \o c) = Len(a) + Len(c)
  OBVIOUS
<1> QED BY <1>6, <1>7, <1>8

-----------------------------------------------------------------------------
(* The answer to a call.                                                    *)

\* The stages of a call, from the host h and the flags o alone.
Rooted(h, o) == o.verify_dns_length /\ EndsInDot(h)
BodyOf(h, o) == IF Rooted(h, o) THEN Front(h) ELSE h
RootOk(h, o) ==
    o.verify_dns_length => BodyOf(h, o) # <<>> /\ ~(EndsInDot(h) /\ EndsInDot(BodyOf(h, o)))
Passes(h, o) ==
    /\ h # IllFormed /\ h \in Seq(Nat) /\ RootOk(h, o)
    /\ \A k \in DOMAIN BodyOf(h, o) : ~DisallowedBy(o, BodyOf(h, o)[k])
TextOf(h, o) == nfc(MapText(BodyOf(h, o)))

Forms(o, ls, outs) ==
    /\ outs \in Seq(Seq(Form)) /\ Len(outs) <= Len(ls)
    /\ \A k \in 1 .. Len(outs) : Accepts(o, ls, ls[k]) /\ outs[k] \in FormOf(ls[k])
TooLongBy(o, outs) ==
    /\ o.verify_dns_length
    /\ \/ \E k \in DOMAIN outs : Len(outs[k]) \notin 1 .. kMaxLabelOctets
       \/ Total(outs) > kMaxHostOctets
Finished(h, o, ls, outs) ==
    /\ Passes(h, o) /\ Labelled(TextOf(h, o), ls)
    /\ Forms(o, ls, outs) /\ Len(outs) = Len(ls) /\ ~TooLongBy(o, outs)

\* The call with h under o is accepted and gives r.
Answered(h, o, r) ==
    \E ls, outs : Finished(h, o, ls, outs) /\ r = [valid |-> TRUE, value |-> Joined(outs, Rooted(h, o))]

LEMMA EndsInDotIs ==
    ASSUME NEW h \in Seq(Nat), EndsInDot(h)
    PROVE  Front(h) \in Seq(Nat) /\ h = Append(Front(h), kFullStop) /\ Len(h) \in Nat /\ Len(h) >= 1
<1>1. Len(h) \in Nat /\ Len(h) >= 1 /\ h[Len(h)] = kFullStop
  BY DEF EndsInDot, Last
<1>2. /\ (Len(h) - 1) + 1 <= Len(h) /\ Len(h) - 1 \in Nat /\ (Len(h) - 1) + 1 = Len(h)
  BY <1>1
<1>3. SubSeq(h, 1, (Len(h) - 1) + 1) = Append(SubSeq(h, 1, Len(h) - 1), h[(Len(h) - 1) + 1]) /\ SubSeq(h, 1, Len(h) - 1) \in Seq(Nat)
  BY <1>2, PrefixStep
<1>4. SubSeq(h, 1, Len(h)) = h
  BY SubSeqFull
<1> QED BY <1>1, <1>2, <1>3, <1>4 DEF Front

LEMMA BodyIs ==
    ASSUME NEW h \in Seq(Nat), NEW o
    PROVE  BodyOf(h, o) \in Seq(Nat) /\ h = BodyOf(h, o) \o Separator(Rooted(h, o))
<1>1. CASE Rooted(h, o)
  <2>1. Front(h) \in Seq(Nat) /\ h = Append(Front(h), kFullStop)
    BY <1>1, EndsInDotIs DEF Rooted
  <2>2. kFullStop \in Nat
    BY DEF kFullStop
  <2> QED BY <1>1, <2>1, <2>2, AppendIsConcat DEF BodyOf, Separator
<1>2. CASE ~ Rooted(h, o)
  BY <1>2 DEF BodyOf, Separator
<1> QED BY <1>1, <1>2

LEMMA TextType ==
    ASSUME NEW h, NEW o, Passes(h, o)
    PROVE  /\ BodyOf(h, o) \in Seq(Mappable) /\ MapText(BodyOf(h, o)) \in Seq(Settled)
           /\ TextOf(h, o) \in Seq(Lower) /\ TextOf(h, o) \in Seq(Nat)
<1> DEFINE b == BodyOf(h, o)
<1>1. b \in Seq(Nat) /\ \A k \in DOMAIN b : ~DisallowedBy(o, b[k])
  BY BodyIs DEF Passes
<1> HIDE DEF b
<1>2. \A k \in DOMAIN b : b[k] \in Mappable
  BY <1>1 DEF DisallowedBy, Mappable
<1>3. b \in Seq(Mappable)
  BY <1>1, <1>2
<1>4. MapText(b) \in Seq(Settled)
  BY <1>3, MapTextRuns
<1>5. nfc(MapText(b)) \in Seq(Lower)
  BY <1>4, NfcType
<1> QED BY <1>3, <1>4, <1>5, SeqLower DEF TextOf, b

-----------------------------------------------------------------------------
LEMMA AcceptsRelaxed ==
    ASSUME NEW a, NEW b, Relaxes(a, b), NEW ls, NEW w, Accepts(a, ls, w)
    PROVE  Accepts(b, ls, w)
BY DEF Relaxes, Accepts, ValidUnder

LEMMA AcceptsMore ==
    ASSUME NEW o, NEW ls \in Seq(Works), NEW w, Accepts(o, ls, w)
    PROVE  Accepts(o, Append(ls, EmptyWork), w)
<1> DEFINE ms == Append(ls, EmptyWork)
<1>1. /\ DOMAIN ls = 1 .. Len(ls) /\ Len(ls) \in Nat /\ DOMAIN ms = 1 .. Len(ls) + 1
      /\ ms[Len(ls) + 1] = EmptyWork /\ \A k \in 1 .. Len(ls) : ms[k] = ls[k]
  OBVIOUS
<1>2. ~ StrongRtl(EmptyWork.cps)
  BY DEF StrongRtl, EmptyWork
<1> HIDE DEF ms
<1>3. BidiDomain(ms) => BidiDomain(ls)
  <2> SUFFICES ASSUME NEW k \in DOMAIN ms, StrongRtl(ms[k].cps) PROVE BidiDomain(ls)
    BY DEF BidiDomain
  <2>1. k \in 1 .. Len(ls) \/ k = Len(ls) + 1
    BY <1>1
  <2>2. k \in DOMAIN ls /\ StrongRtl(ls[k].cps)
    BY <1>1, <1>2, <2>1
  <2> QED BY <2>2 DEF BidiDomain
<1> QED BY <1>3 DEF Accepts, ms

\* What one call accepts, a call of weaker flags accepts, with the same answer.
LEMMA RelaxedAnswer ==
    ASSUME NEW h, NEW a, NEW b, NEW r, Answered(h, a, r), Relaxes(a, b)
    PROVE  Answered(h, b, r)
<1>1. PICK ls, outs : Finished(h, a, ls, outs) /\ r = [valid |-> TRUE, value |-> Joined(outs, Rooted(h, a))]
  BY DEF Answered
<1>2. /\ Passes(h, a) /\ Labelled(TextOf(h, a), ls) /\ Forms(a, ls, outs) /\ Len(outs) = Len(ls)
      /\ ~TooLongBy(a, outs) /\ h \in Seq(Nat) /\ h # IllFormed
  BY <1>1 DEF Finished, Passes
<1>3. \A cp : ~DisallowedBy(a, cp) => ~DisallowedBy(b, cp)
  BY DEF DisallowedBy, Relaxes
<1>4. CASE Rooted(h, b) = Rooted(h, a)
  <2>1. BodyOf(h, b) = BodyOf(h, a) /\ TextOf(h, b) = TextOf(h, a)
    BY <1>4 DEF BodyOf, TextOf
  <2>2. RootOk(h, b)
    BY <1>2, <2>1 DEF RootOk, Relaxes, Passes
  <2>3. Passes(h, b)
    BY <1>2, <1>3, <2>1, <2>2 DEF Passes
  <2>4. Forms(b, ls, outs)
    BY <1>2, AcceptsRelaxed DEF Forms
  <2>5. ~TooLongBy(b, outs)
    BY <1>2 DEF TooLongBy, Relaxes
  <2>6. Finished(h, b, ls, outs)
    BY <1>2, <2>1, <2>3, <2>4, <2>5 DEF Finished
  <2> QED BY <1>1, <1>4, <2>6 DEF Answered
<1>5. CASE Rooted(h, b) # Rooted(h, a)
  <2>1. ~ b.verify_dns_length /\ a.verify_dns_length /\ EndsInDot(h) /\ Rooted(h, a) = TRUE /\ Rooted(h, b) = FALSE
    BY <1>5 DEF Rooted, Relaxes
  <2> DEFINE d == Front(h)
             t == TextOf(h, a)
             ms == Append(ls, EmptyWork)
             ons == Append(outs, <<>>)
  <2>2. BodyOf(h, a) = d /\ BodyOf(h, b) = h /\ h = Append(d, kFullStop) /\ d \in Seq(Nat)
    BY <1>2, <2>1, EndsInDotIs DEF BodyOf
  <2>3. d \in Seq(Mappable) /\ MapText(d) \in Seq(Settled) /\ t \in Seq(Lower) /\ t = nfc(MapText(d))
    BY <1>2, <2>2, TextType DEF TextOf
  <2> HIDE DEF d
  <2>4. TextOf(h, b) = Append(t, kFullStop)
    <3>1. MapText(h) = Append(MapText(d), kFullStop)
      BY <2>2, <2>3, MapStop
    <3>2. MapText(d) \in Seq(Nat)
      BY <2>3, SeqLower
    <3>3. nfc(Append(MapText(d), kFullStop)) = Append(nfc(MapText(d)), kFullStop)
      BY <3>2, StopNormalized
    <3> HIDE DEF t
    <3> QED BY <2>2, <2>3, <3>1, <3>3 DEF TextOf
  <2>5. Passes(h, b)
    <3>1. \A k \in DOMAIN h : ~DisallowedBy(b, h[k])
      <4> SUFFICES ASSUME NEW k \in DOMAIN h PROVE ~DisallowedBy(b, h[k])
        OBVIOUS
      <4>1. (k \in DOMAIN d /\ h[k] = d[k]) \/ h[k] = kFullStop
        BY <2>2
      <4>2. \A j \in DOMAIN d : ~DisallowedBy(a, d[j])
        BY <1>2, <2>2 DEF Passes
      <4> QED BY <1>3, <4>1, <4>2, StopMaps
    <3> QED BY <1>2, <2>1, <2>2, <3>1 DEF Passes, RootOk
  <2>6. Labelled(Append(t, kFullStop), ms)
    <3> HIDE DEF t
    <3> QED BY <1>2, <2>3, LabellingStop DEF t
  <2>7. ls \in Seq(Works) /\ Len(ls) \in Nat /\ Len(ls) >= 1
    BY <1>2, ChainType DEF Labelled, Labelling
  <2>8. /\ Len(ms) = Len(ls) + 1 /\ ms[Len(ls) + 1] = EmptyWork /\ \A k \in 1 .. Len(ls) : ms[k] = ls[k]
    BY <2>7
  <2>9. /\ outs \in Seq(Seq(Form)) /\ ons \in Seq(Seq(Form)) /\ Len(ons) = Len(ls) + 1
        /\ ons[Len(ls) + 1] = <<>> /\ \A k \in 1 .. Len(ls) : ons[k] = outs[k]
    <3> DEFINE S == Seq(Form)
    <3>1. outs \in Seq(S) /\ <<>> \in S
      BY <1>2 DEF Forms
    <3>2. /\ ons \in Seq(S) /\ Len(ons) = Len(outs) + 1 /\ ons[Len(outs) + 1] = <<>>
          /\ \A k \in 1 .. Len(outs) : ons[k] = outs[k]
      <4> HIDE DEF S
      <4> QED BY <3>1
    <3> QED BY <1>2, <3>1, <3>2
  <2>10. Forms(b, ms, ons)
    <3>1. ASSUME NEW k \in 1 .. Len(ons) PROVE Accepts(b, ms, ms[k]) /\ ons[k] \in FormOf(ms[k])
      <4>1. k \in 1 .. Len(ls) \/ k = Len(ls) + 1
        BY <2>7, <2>9
      <4>2. CASE k \in 1 .. Len(ls)
        <5>1. Accepts(a, ls, ls[k]) /\ outs[k] \in FormOf(ls[k])
          BY <1>2, <4>2 DEF Forms
        <5>2. Accepts(b, ls, ls[k])
          BY <5>1, AcceptsRelaxed
        <5>3. Accepts(b, ms, ls[k])
          BY <2>7, <5>2, AcceptsMore
        <5> HIDE DEF ms, ons
        <5> QED BY <2>8, <2>9, <4>2, <5>1, <5>3
      <4>3. CASE k = Len(ls) + 1
        <5>1. PassesEmpty(EmptyWork)
          BY DEF PassesEmpty, EmptyWork
        <5> HIDE DEF ms, ons
        <5> QED BY <2>8, <2>9, <4>3, <5>1 DEF Accepts, FormOf
      <4> QED BY <4>1, <4>2, <4>3
    <3> HIDE DEF ms, ons
    <3>2. Len(ons) <= Len(ms)
      BY <2>7, <2>8, <2>9
    <3> QED BY <2>9, <3>1, <3>2 DEF Forms
  <2>11. ~TooLongBy(b, ons)
    BY <2>1 DEF TooLongBy
  <2>12. Joined(ons, FALSE) = Joined(outs, TRUE)
    <3>1. kFullStop \in Form
      BY DEF kFullStop, Form
    <3>2. outs # <<>>
      BY <1>2, <2>7
    <3> HIDE DEF Form
    <3> QED BY <2>9, <3>1, <3>2, JoinStop
  <2>13. Finished(h, b, ms, ons)
    <3> HIDE DEF ms, ons, t
    <3> QED BY <2>4, <2>5, <2>6, <2>8, <2>9, <2>10, <2>11 DEF Finished
  <2>14. r = [valid |-> TRUE, value |-> Joined(ons, Rooted(h, b))]
    <3> HIDE DEF ons
    <3> QED BY <1>1, <2>1, <2>12
  <2> QED BY <2>13, <2>14 DEF Answered
<1> QED BY <1>4, <1>5

\* The labels of a text have one form each, whatever flags take them.
LEMMA SameForms ==
    ASSUME NEW t, NEW ls, Labelled(t, ls), NEW o, NEW outs, Forms(o, ls, outs), Len(outs) = Len(ls),
           NEW p, NEW ons, Forms(p, ls, ons), Len(ons) = Len(ls)
    PROVE  outs = ons
<1>1. PICK rs : Chain(t, rs, ls)
  BY DEF Labelled, Labelling
<1>2. \A k \in 1 .. Len(ls) : outs[k] = ons[k]
  <2> SUFFICES ASSUME NEW k \in 1 .. Len(ls) PROVE outs[k] = ons[k]
    OBVIOUS
  <2>1. outs[k] \in FormOf(ls[k]) /\ ons[k] \in FormOf(ls[k])
    BY DEF Forms
  <2>2. ls[k] \in Resolving(PieceOf(rs[k])) /\ PieceOf(rs[k]) \in Seq(Lower)
    BY <1>1, ChainType
  <2> QED BY <2>1, <2>2, FormFacts
<1>3. outs \in Seq(Seq(Form)) /\ ons \in Seq(Seq(Form))
  BY DEF Forms
<1> DEFINE S == Seq(Form)
<1>4. outs \in Seq(S) /\ ons \in Seq(S)
  BY <1>3
<1> HIDE DEF S
<1> QED BY <1>2, <1>4, SeqEqual

LEMMA SameAnswer ==
    ASSUME NEW h, NEW o, NEW ls, NEW outs, Finished(h, o, ls, outs), NEW ms, NEW ons, Finished(h, o, ms, ons)
    PROVE  ls = ms /\ outs = ons
<1>1. ls = ms
  BY LabellingOne DEF Finished, Labelled
<1> QED BY <1>1, SameForms DEF Finished

\* A host has one form, whatever flags accept it.
LEMMA AnswerOne ==
    ASSUME NEW h, NEW a, NEW r, Answered(h, a, r), NEW b, NEW q, Answered(h, b, q)
    PROVE  r = q
<1> DEFINE o == [check_hyphens |-> FALSE, use_std3 |-> FALSE, verify_dns_length |-> FALSE]
<1>1. Relaxes(a, o) /\ Relaxes(b, o)
  BY DEF Relaxes
<1> HIDE DEF o
<1>2. Answered(h, o, r) /\ Answered(h, o, q)
  BY <1>1, RelaxedAnswer
<1>3. PICK ls, outs : Finished(h, o, ls, outs) /\ r = [valid |-> TRUE, value |-> Joined(outs, Rooted(h, o))]
  BY <1>2 DEF Answered
<1>4. PICK ms, ons : Finished(h, o, ms, ons) /\ q = [valid |-> TRUE, value |-> Joined(ons, Rooted(h, o))]
  BY <1>2 DEF Answered
<1> QED BY <1>3, <1>4, SameAnswer

LEMMA ChainForm ==
    ASSUME NEW S \in SUBSET Nat, NEW t \in Seq(S), NEW rs, NEW ls, Chain(t, rs, ls)
    PROVE  \A k \in 1 .. Len(ls) + 1 : rs[k] \in Seq(S)
<1> DEFINE P(k) == rs[k + 1] \in Seq(S)
           n == Len(ls)
           T == {k \in Nat : k <= n => P(k)}
<1>0. n \in Nat /\ rs[1] = t /\ \A k \in 1 .. n : rs[k + 1] = AfterStop(rs[k])
  BY ChainType
<1> HIDE DEF n
<1>1. 0 \in T
  BY <1>0
<1>2. ASSUME NEW k \in T PROVE k + 1 \in T
  <2> SUFFICES ASSUME k + 1 <= n PROVE P(k + 1)
    <3>1. k + 1 \in Nat
      OBVIOUS
    <3> HIDE DEF P
    <3> QED BY <3>1
  <2>1. k \in Nat /\ rs[k + 1] \in Seq(S) /\ k + 1 \in 1 .. n
    BY <1>0
  <2>2. rs[(k + 1) + 1] = AfterStop(rs[k + 1])
    BY <1>0, <2>1
  <2> QED BY <2>1, <2>2, PieceType
<1>3. T = Nat
  <2> HIDE DEF P
  <2>1. T \in SUBSET Nat
    OBVIOUS
  <2> HIDE DEF T
  <2> QED BY <1>1, <1>2, <2>1, Induction
<1>4. \A k \in Nat : k <= n => P(k)
  BY <1>3
<1>5. ASSUME NEW k \in 1 .. n + 1 PROVE rs[k] \in Seq(S)
  <2>1. k - 1 \in Nat /\ k - 1 <= n /\ (k - 1) + 1 = k
    BY <1>0
  <2>2. P(k - 1)
    BY <1>4, <2>1
  <2> QED BY <2>1, <2>2
<1> QED BY <1>5 DEF n

\* The pieces of a text, put together again.
Pieces(rs, outs) == \A k \in 1 .. Len(outs) : outs[k] = PieceOf(rs[k])

LEMMA JoinText ==
    ASSUME NEW t, NEW rs, NEW ls, Labelling(t, rs, ls),
           NEW outs, outs \in Seq(Seq(Nat)), Len(outs) = Len(ls), Pieces(rs, outs)
    PROVE  JoinFrom(Head(outs), Tail(outs)) = t
<1> DEFINE V == Seq(Nat)
           dot == <<kFullStop>>
           n == Len(ls)
           b == Head(outs)
           r == Tail(outs)
           J(k) == JoinFrom(b, SubSeq(r, 1, k))
           P(k) == \E pre \in Seq(Nat) : t = pre \o rs[k + 1] /\ J(k) = pre \o PieceOf(rs[k + 1])
           T == {k \in Nat : k <= n - 1 => P(k)}
<1>0. /\ n \in Nat /\ n >= 1 /\ n - 1 \in Nat /\ b \in Seq(Nat) /\ r \in Seq(Seq(Nat)) /\ Len(r) = n - 1
      /\ b = outs[1] /\ \A k \in 1 .. n - 1 : r[k] = outs[k + 1]
      /\ \A k \in 1 .. n : outs[k] \in Seq(Nat) /\ outs[k] = PieceOf(rs[k])
  <2>1. outs \in Seq(V) /\ Len(outs) = n /\ n \in Nat /\ n >= 1
    BY ChainType DEF Labelling
  <2>2. /\ b \in V /\ r \in Seq(V) /\ n \in Nat /\ Len(r) = n - 1 /\ b = outs[1]
        /\ \A k \in 1 .. n - 1 : r[k] = outs[k + 1]
        /\ \A k \in 1 .. n : outs[k] \in V
    <3> HIDE DEF V, n
    <3> QED BY <2>1
  <2>3. \A k \in 1 .. n : outs[k] = PieceOf(rs[k])
    BY <2>1 DEF Pieces
  <2> QED BY <2>1, <2>2, <2>3
<1>a. /\ rs[1] = t /\ Chain(t, rs, ls)
      /\ \A k \in 1 .. n : rs[k] \in Seq(Nat) /\ rs[k + 1] = AfterStop(rs[k]) /\ rs[k + 1] \in Seq(Nat)
                           /\ PieceOf(rs[k]) \in Seq(Nat)
      /\ \A k \in 1 .. n - 1 : StopIn(rs[k]) <= Len(rs[k])
      /\ ~ (StopIn(rs[n]) <= Len(rs[n]))
  <2>1. Chain(t, rs, ls) /\ Open(rs, n - 1) /\ ~ (StopIn(rs[n]) <= Len(rs[n]))
    BY DEF Labelling
  <2>2. rs[1] = t
    BY <2>1, ChainType
  <2>3. \A k \in 1 .. n : k + 1 \in 1 .. n + 1 /\ k \in 1 .. n + 1
    BY <2>1, ChainType
  <2>4. \A k \in 1 .. n + 1 : rs[k] \in Seq(Nat)
    BY <2>1, ChainType
  <2>5. \A k \in 1 .. n : rs[k + 1] = AfterStop(rs[k]) /\ PieceOf(rs[k]) \in Seq(Nat)
    BY <2>1, ChainType
  <2> HIDE DEF n
  <2> QED BY <2>1, <2>2, <2>3, <2>4, <2>5 DEF Open
<1>b. dot \in Seq(Nat) /\ kFullStop \in Nat
  BY DEF kFullStop
<1> HIDE DEF n, b, r
<1>1. 0 \in T
  <2>1. SubSeq(r, 1, 0) = <<>>
    BY SubSeqEmpty
  <2>2. Joinable(Nat, b, <<>>)
    BY <1>0, <1>b DEF Joinable
  <2>3. J(0) = b
    BY <2>1, <2>2, JoinRuns
  <2>4. 1 \in 1 .. n
    BY <1>0
  <2>5. b = PieceOf(rs[1]) /\ b \in Seq(Nat) /\ rs[1] \in Seq(Nat)
    BY <1>0, <1>a, <2>4
  <2>6. t = <<>> \o rs[0 + 1] /\ b = <<>> \o PieceOf(rs[0 + 1]) /\ <<>> \in Seq(Nat)
    BY <1>a, <2>5
  <2>7. P(0)
    BY <2>3, <2>6
  <2> QED BY <2>7
<1>2. ASSUME NEW k \in T PROVE k + 1 \in T
  <2> SUFFICES ASSUME k + 1 <= n - 1 PROVE P(k + 1)
    <3>1. k + 1 \in Nat
      OBVIOUS
    <3> HIDE DEF P
    <3> QED BY <3>1
  <2> DEFINE x == outs[k + 2]
             rk == SubSeq(r, 1, k)
             y == PieceOf(rs[k + 1])
             z == rs[k + 2]
  <2>1. k \in Nat /\ P(k) /\ k + 1 \in 1 .. n - 1 /\ k + 1 \in 1 .. n /\ k + 2 \in 1 .. n /\ x \in Seq(Nat) /\ r[k + 1] = x
        /\ (k + 1) + 1 = k + 2
    <3>1. k \in Nat /\ k + 1 \in 1 .. n - 1 /\ k + 1 \in 1 .. n /\ k + 2 \in 1 .. n /\ k <= n - 1 /\ (k + 1) + 1 = k + 2
      BY <1>0
    <3>2. P(k)
      <4> HIDE DEF P
      <4> QED BY <3>1
    <3> QED BY <1>0, <3>1, <3>2
  <2>2. SubSeq(r, 1, k + 1) = Append(rk, x) /\ rk \in Seq(V)
    <3>1. r \in Seq(V) /\ k + 1 <= Len(r)
      BY <1>0
    <3> HIDE DEF r, V
    <3> QED BY <2>1, <3>1, PrefixStep
  <2>3. x = PieceOf(z) /\ z \in Seq(Nat) /\ y \in Seq(Nat) /\ rs[k + 1] \in Seq(Nat)
        /\ rs[k + 1] = (y \o dot) \o z
    <3>1. x = PieceOf(rs[k + 2]) /\ rs[k + 2] \in Seq(Nat) /\ rs[k + 1] \in Seq(Nat)
          /\ PieceOf(rs[k + 1]) \in Seq(Nat) /\ rs[(k + 1) + 1] = AfterStop(rs[k + 1])
      BY <1>0, <1>a, <2>1
    <3>2. StopIn(rs[k + 1]) <= Len(rs[k + 1])
      BY <1>a, <2>1
    <3>3. rs[k + 1] = (PieceOf(rs[k + 1]) \o <<kFullStop>>) \o AfterStop(rs[k + 1])
      BY <3>1, <3>2, PieceJoin
    <3> QED BY <2>1, <3>1, <3>3
  <2>4. PICK pre \in Seq(Nat) : t = pre \o rs[k + 1] /\ J(k) = pre \o y
    BY <2>1
  <2>5. J(k + 1) = (J(k) \o dot) \o x
    <3>1. Joinable(Nat, b, rk)
      BY <1>0, <1>b, <2>2 DEF Joinable
    <3> HIDE DEF rk, x
    <3>2. \A l \in Seq(Nat) : JoinFrom(b, Append(rk, l)) = (JoinFrom(b, rk) \o <<kFullStop>>) \o l
      BY <3>1, JoinRuns
    <3>3. JoinFrom(b, Append(rk, x)) = (JoinFrom(b, rk) \o <<kFullStop>>) \o x
      BY <2>1, <3>2
    <3>4. SubSeq(r, 1, k + 1) = Append(rk, x)
      BY <2>2
    <3> QED BY <3>3, <3>4 DEF rk
  <2> DEFINE q == (pre \o y) \o dot
  <2> HIDE DEF x, y, z, dot, J
  <2>6. q \in Seq(Nat)
    BY <1>b, <2>3, <2>4
  <2>7. t = q \o z
    <3>0. \A u \in Seq(Nat), v \in Seq(Nat), w \in Seq(Nat) : u \o (v \o w) = (u \o v) \o w /\ u \o v \in Seq(Nat)
      BY ONLY ConcatRegroups
    <3>1. pre \o ((y \o dot) \o z) = (pre \o (y \o dot)) \o z
      <4> DEFINE g == y \o dot
      <4>1. g \in Seq(Nat)
        BY <1>b, <2>3, <3>0
      <4> HIDE DEF g
      <4>2. pre \in Seq(Nat) /\ z \in Seq(Nat)
        BY <2>3, <2>4
      <4>3. pre \o (g \o z) = (pre \o g) \o z
        <5>1. Regroups(pre, g, z)
          BY <4>1, <4>2, Regrouped
        <5> QED BY <5>1 DEF Regroups
      <4> QED BY <4>3 DEF g
    <3>2. pre \o (y \o dot) = (pre \o y) \o dot
      BY <1>b, <2>3, <2>4, <3>0
    <3> QED BY <2>3, <2>4, <3>1, <3>2
  <2>8. J(k + 1) = q \o PieceOf(z)
    BY <2>3, <2>4, <2>5
  <2> HIDE DEF q
  <2>9. t = q \o rs[(k + 1) + 1] /\ J(k + 1) = q \o PieceOf(rs[(k + 1) + 1])
    BY <2>1, <2>7, <2>8 DEF z
  <2> QED BY <2>6, <2>9
<1>3. n - 1 \in T
  <2> HIDE DEF P
  <2>1. T \in SUBSET Nat
    OBVIOUS
  <2> HIDE DEF T
  <2> QED BY <1>0, <1>1, <1>2, <2>1, Induction
<1>4. P(n - 1)
  <2> HIDE DEF P
  <2> QED BY <1>0, <1>3
<1>5. SubSeq(r, 1, n - 1) = r
  <2>1. r \in Seq(V) /\ Len(r) = n - 1
    BY <1>0
  <2>2. SubSeq(r, 1, Len(r)) = r
    <3> HIDE DEF V
    <3> QED BY <2>1, SubSeqFull
  <2> QED BY <2>1, <2>2
<1>6. rs[(n - 1) + 1] = PieceOf(rs[(n - 1) + 1])
  <2>1. (n - 1) + 1 = n /\ n \in 1 .. n
    BY <1>0
  <2>2. rs[n] \in Seq(Nat) /\ ~ (StopIn(rs[n]) <= Len(rs[n]))
    BY <1>a, <2>1
  <2>3. rs[n] = PieceOf(rs[n])
    BY <2>2, PieceJoin
  <2> QED BY <2>1, <2>3
<1>7. JoinFrom(b, r) = t
  <2>1. PICK pre \in Seq(Nat) : t = pre \o rs[(n - 1) + 1] /\ J(n - 1) = pre \o PieceOf(rs[(n - 1) + 1])
    BY <1>4
  <2> QED BY <1>5, <1>6, <2>1
<1> QED BY <1>7 DEF b, r

-----------------------------------------------------------------------------
\* A host that is a form already is its own.
LEMMA FormStays ==
    ASSUME NEW h \in Seq(Form), NEW o, NEW r, Answered(h, o, r)
    PROVE  r.value = h
<1> DEFINE b == BodyOf(h, o)
<1>0. Form \in SUBSET Nat /\ Form \in SUBSET (0 .. 127)
  BY DEF Form
<1>1. PICK ls, outs : Finished(h, o, ls, outs) /\ r = [valid |-> TRUE, value |-> Joined(outs, Rooted(h, o))]
  BY DEF Answered
<1>2. PICK rs : Labelling(TextOf(h, o), rs, ls)
  BY <1>1 DEF Finished, Labelled
<1>3. b \in Seq(Form) /\ h = b \o Separator(Rooted(h, o)) /\ \A k \in DOMAIN b : b[k] \in Mappable
  <2>1. h \in Seq(Nat)
    BY <1>0, SeqMonotonic
  <2>2. b \in Seq(Nat) /\ h = b \o Separator(Rooted(h, o)) /\ Separator(Rooted(h, o)) \in Seq(Nat)
    BY <2>1, BodyIs DEF Separator, kFullStop
  <2>3. b \in Seq(Mappable)
    BY <1>1, TextType DEF Finished
  <2> HIDE DEF b, Form
  <2>4. \A k \in DOMAIN b : k \in DOMAIN h /\ h[k] = b[k]
    <3> DEFINE s == Separator(Rooted(h, o))
    <3>1. s \in Seq(Nat) /\ h = b \o s
      BY <2>2
    <3> HIDE DEF s
    <3> QED BY <2>2, <3>1
  <2>5. \A k \in DOMAIN b : b[k] \in Form
    BY <2>4
  <2>6. b \in Seq(Form)
    <3>1. b \in [1 .. Len(b) -> Nat] /\ Len(b) \in Nat /\ DOMAIN b = 1 .. Len(b)
      BY <2>2, LenProperties
    <3>2. b \in [1 .. Len(b) -> Form]
      BY <2>5, <3>1
    <3> QED BY <3>1, <3>2
  <2> QED BY <2>2, <2>3, <2>6
<1>4. TextOf(h, o) = b
  <2>1. MapText(b) = b
    <3> HIDE DEF b, Form
    <3> QED BY <1>3, MapForm
  <2>2. b \in Seq(0 .. 127)
    <3> HIDE DEF b, Form
    <3>1. Form \subseteq 0 .. 127 /\ b \in Seq(Form)
      BY <1>0, <1>3
    <3> QED BY <3>1, SeqMonotonic
  <2>3. nfc(b) = b
    BY <2>2, NfcAscii
  <2> QED BY <2>1, <2>3 DEF TextOf
<1> HIDE DEF b
<1>5. /\ Labelling(b, rs, ls) /\ Chain(b, rs, ls) /\ Forms(o, ls, outs) /\ Len(outs) = Len(ls) /\ Len(ls) \in Nat
  BY <1>1, <1>2, <1>4, ChainType DEF Labelling, Finished
<1>6. ASSUME NEW k \in 1 .. Len(outs) PROVE outs[k] = PieceOf(rs[k])
  <2>1. k \in 1 .. Len(ls) /\ k \in 1 .. Len(ls) + 1
    BY <1>5
  <2>2. rs[k] \in Seq(Form)
    <3> HIDE DEF Form
    <3> QED BY <1>0, <1>3, <1>5, <2>1, ChainForm
  <2>3. PieceOf(rs[k]) \in Seq(Form)
    <3> HIDE DEF Form
    <3> QED BY <1>0, <2>2, PieceType
  <2>4. Ascii(PieceOf(rs[k]))
    <3>1. \A j \in DOMAIN PieceOf(rs[k]) : PieceOf(rs[k])[j] \in Form
      <4> HIDE DEF Form
      <4> QED BY <2>3
    <3>2. \A c \in Form : c < 128
      BY DEF Form
    <3> QED BY <3>1, <3>2 DEF Ascii
  <2>5. outs[k] \in FormOf(ls[k])
    BY <1>5 DEF Forms
  <2>6. PieceOf(rs[k]) \in Seq(Lower) /\ ls[k] \in Resolving(PieceOf(rs[k]))
    BY <1>5, <2>1, ChainType
  <2> QED BY <2>4, <2>5, <2>6, FormFacts
<1>7. JoinFrom(Head(outs), Tail(outs)) = b
  <2>1. outs \in Seq(Seq(Nat))
    <3>1. outs \in Seq(Seq(Form))
      BY <1>5 DEF Forms
    <3>2. Seq(Form) \subseteq Seq(Nat)
      BY <1>0, SeqMonotonic
    <3> DEFINE V == Seq(Form)
               W == Seq(Nat)
    <3>3. outs \in Seq(V) /\ V \subseteq W
      BY <3>1, <3>2
    <3>4. outs \in Seq(W)
      <4> HIDE DEF V, W
      <4> QED BY <3>3, SeqMonotonic
    <3> QED BY <3>4
  <2>2. Pieces(rs, outs)
    BY <1>6 DEF Pieces
  <2> QED BY <1>5, <2>1, <2>2, JoinText
<1>8. Joined(outs, Rooted(h, o)) = h
  BY <1>3, <1>7, JoinedIs
<1> QED BY <1>1, <1>8

Written == {c \in Form : Ldh(c) \/ c = kFullStop}

\* What comes out: ASCII without capitals, under use_std3 written with letters,
\* digits, hyphens and stops, under verify_dns_length within the limits.
LEMMA AnswerShape ==
    ASSUME NEW h, NEW o, NEW r, Answered(h, o, r)
    PROVE  /\ r.valid /\ r.value \in Seq(Form)
           /\ o.use_std3 => r.value \in Seq(Written)
           /\ o.verify_dns_length =>
                Len(r.value) \in 1 .. kMaxHostOctets + (IF Rooted(h, o) THEN 1 ELSE 0)
<1>1. PICK ls, outs : Finished(h, o, ls, outs) /\ r = [valid |-> TRUE, value |-> Joined(outs, Rooted(h, o))]
  BY DEF Answered
<1>2. PICK rs : Labelling(TextOf(h, o), rs, ls)
  BY <1>1 DEF Finished, Labelled
<1>3. /\ Chain(TextOf(h, o), rs, ls) /\ Forms(o, ls, outs) /\ Len(outs) = Len(ls)
      /\ Len(ls) \in Nat /\ Len(ls) >= 1 /\ outs \in Seq(Seq(Form)) /\ ~TooLongBy(o, outs)
  BY <1>1, <1>2, ChainType DEF Labelling, Finished, Forms
<1>4. outs # <<>> /\ kFullStop \in Form /\ kFullStop \in Written /\ Form \in SUBSET Nat
  <2>1. outs # <<>>
    BY <1>3
  <2>2. kFullStop \in Form /\ Form \in SUBSET Nat
    BY DEF kFullStop, Form
  <2> HIDE DEF Form
  <2> QED BY <2>1, <2>2 DEF Written
<1>5. Joined(outs, Rooted(h, o)) \in Seq(Form)
  <2> HIDE DEF Form
  <2> QED BY <1>3, <1>4, JoinType
<1>6. ASSUME o.use_std3 PROVE Joined(outs, Rooted(h, o)) \in Seq(Written)
  <2>1. ASSUME NEW k \in 1 .. Len(outs) PROVE outs[k] \in Seq(Written)
    <3>1. k \in 1 .. Len(ls) /\ outs[k] \in FormOf(ls[k]) /\ Accepts(o, ls, ls[k])
      BY <1>3 DEF Forms
    <3>2. PieceOf(rs[k]) \in Seq(Lower) /\ ls[k] \in Resolving(PieceOf(rs[k]))
      BY <1>3, <3>1, ChainType
    <3>3. \A j \in DOMAIN outs[k] : Ldh(outs[k][j])
      BY <1>6, <3>1, <3>2, FormFacts
    <3>4. outs[k] \in Seq(Form)
      BY <3>1, <3>2, FormFacts
    <3> DEFINE x == outs[k]
    <3>5. x \in [1 .. Len(x) -> Form] /\ Len(x) \in Nat /\ DOMAIN x = 1 .. Len(x)
      <4> HIDE DEF Form, x
      <4>1. x \in Seq(Form)
        BY <3>4 DEF x
      <4> QED BY <4>1, LenProperties
    <3>6. \A j \in DOMAIN x : x[j] \in Written
      <4> HIDE DEF Form
      <4> QED BY <3>3, <3>5 DEF Written
    <3>7. x \in Seq(Written)
      <4> HIDE DEF x, Written, Form
      <4>1. x \in [1 .. Len(x) -> Written]
        BY <3>5, <3>6
      <4> QED BY <3>5, <4>1
    <3> QED BY <3>7
  <2>2. outs \in Seq(Seq(Written))
    <3> DEFINE V == Seq(Form)
               W == Seq(Written)
    <3>1. outs \in Seq(V) /\ \A k \in 1 .. Len(outs) : outs[k] \in W
      BY <1>3, <2>1
    <3>2. outs \in Seq(W)
      <4> HIDE DEF V, W
      <4>1. outs \in [1 .. Len(outs) -> V] /\ Len(outs) \in Nat
        BY <3>1, LenProperties
      <4>2. outs \in [1 .. Len(outs) -> W]
        BY <3>1, <4>1
      <4> QED BY <4>1, <4>2
    <3> QED BY <3>2
  <2> HIDE DEF Written
  <2> QED BY <1>4, <2>2, JoinType
<1>7. ASSUME o.verify_dns_length
      PROVE  Len(Joined(outs, Rooted(h, o))) \in 1 .. kMaxHostOctets + (IF Rooted(h, o) THEN 1 ELSE 0)
  <2>1. Len(Joined(outs, Rooted(h, o))) = Total(outs) + Len(Separator(Rooted(h, o)))
    <3> HIDE DEF Form
    <3> QED BY <1>3, <1>4, JoinLength
  <2>2. ~ (Total(outs) > kMaxHostOctets) /\ \A k \in 1 .. Len(outs) : Len(outs[k]) \in 1 .. kMaxLabelOctets
    <3>1. DOMAIN outs = 1 .. Len(outs)
      BY <1>3
    <3> QED BY <1>3, <1>7, <3>1 DEF TooLongBy
  <2>3. Len(Separator(Rooted(h, o))) = IF Rooted(h, o) THEN 1 ELSE 0
    BY DEF Separator
  <2>4. Total(outs) \in Nat /\ Total(outs) >= 1
    <3> DEFINE n == Len(outs)
               X == {s \in Seq(Form) : Len(s) >= 1}
               N == {i \in Nat : i >= 1}
    <3>1. Total(outs) = SumFrom(n - 1, outs)
      BY DEF Total, SumFrom
    <3>2. n - 1 \in Nat /\ outs \in Seq(Seq(Form)) /\ n >= 1 /\ n \in Nat
      BY <1>3
    <3>3. SubSeq(outs, 1, (n - 1) + 1) = Append(SubSeq(outs, 1, n - 1), outs[(n - 1) + 1]) /\ SubSeq(outs, 1, n - 1) \in Seq(Seq(Form))
      <4> DEFINE V == Seq(Form)
      <4>1. outs \in Seq(V) /\ (n - 1) + 1 <= Len(outs)
        BY <3>2
      <4> HIDE DEF V
      <4>2. SubSeq(outs, 1, (n - 1) + 1) = Append(SubSeq(outs, 1, n - 1), outs[(n - 1) + 1]) /\ SubSeq(outs, 1, n - 1) \in Seq(V)
        BY <3>2, <4>1, PrefixStep
      <4> QED BY <4>2 DEF V
    <3>4. SubSeq(outs, 1, Len(outs)) = outs
      BY <1>3, SubSeqFull
    <3> DEFINE u == SubSeq(outs, 1, n - 1)
    <3>5. outs = Append(u, outs[n]) /\ u \in Seq(Seq(Form)) /\ (n - 1) + 1 = n
      BY <3>2, <3>3, <3>4
    <3>6. outs[n] \in Seq(Form) /\ Len(outs[n]) \in Nat /\ Len(outs[n]) >= 1
      <4>1. n \in 1 .. n
        BY <3>2
      <4> QED BY <2>2, <4>1, <1>3
    <3> HIDE DEF u, n, Form
    <3>7. SumFrom(n - 1, u) \in Nat
      <4>1. Summable(Form, n - 1, u)
        BY <3>2, <3>5 DEF Summable
      <4> QED BY <4>1, SumRuns
    <3>8. SumFrom(n - 1, Append(u, outs[n])) = SumFrom(n - 1, u) + Len(outs[n])
      <4>1. Summable(Form, n - 1, u)
        BY <3>2, <3>5 DEF Summable
      <4>2. \A l \in Seq(Form) : SumFrom(n - 1, Append(u, l)) = SumFrom(n - 1, u) + Len(l)
        BY <4>1, SumRuns
      <4> QED BY <3>6, <4>2
    <3>9. SumFrom(n - 1, outs) = SumFrom(n - 1, u) + Len(outs[n])
      BY <3>5, <3>8
    <3> QED BY <3>1, <3>6, <3>7, <3>9
  <2>5. kMaxHostOctets \in Nat
    BY CodecAssumption
  <2> QED BY <2>1, <2>2, <2>3, <2>4, <2>5
<1> QED BY <1>1, <1>5, <1>6, <1>7

-----------------------------------------------------------------------------
(* The calls.                                                               *)

Refused == [valid |-> FALSE, value |-> <<>>]
Stages == {"utf8", "root", "map", "nfc", "resolve", "finalize", "length", "done"}

Accepted(h, o) == \E r : Answered(h, o, r)

\* What is settled of the call at each stage, as a function of the host and the flags.
HostText == host # IllFormed /\ host \in Seq(Nat)
Kept ==
    /\ host = IllFormed \/ host \in Seq(Nat)
    /\ opts \in Options /\ had_root \in BOOLEAN /\ stage \in Stages
    /\ labels \in Seq(Works) /\ out_labels \in Seq(Seq(Form)) /\ Len(out_labels) <= Len(labels)
    /\ stage \in {"utf8", "root", "map", "nfc"} => labels = <<>>
    /\ stage \in {"utf8", "root", "map", "nfc", "resolve"} => out_labels = <<>>
    /\ stage \in {"utf8", "root"} => had_root = FALSE
    /\ stage # "done" => result = Refused
AtRoot == stage = "root" => HostText /\ cps = host
AtMap ==
    stage = "map" =>
        /\ HostText /\ RootOk(host, opts) /\ had_root = Rooted(host, opts)
        /\ cps = BodyOf(host, opts)
AtNfc ==
    stage = "nfc" =>
        /\ Passes(host, opts) /\ had_root = Rooted(host, opts)
        /\ cps = MapText(BodyOf(host, opts))
AtResolve ==
    stage = "resolve" =>
        /\ Passes(host, opts) /\ had_root = Rooted(host, opts)
        /\ \E rs : /\ Chain(TextOf(host, opts), rs, labels) /\ Open(rs, Len(labels))
                   /\ cps = rs[Len(labels) + 1]
AtFinalize ==
    stage \in {"finalize", "length"} =>
        /\ Passes(host, opts) /\ had_root = Rooted(host, opts)
        /\ Labelled(TextOf(host, opts), labels) /\ Forms(opts, labels, out_labels)
        /\ stage = "finalize" => Len(out_labels) < Len(labels)
        /\ stage = "length" => Len(out_labels) = Len(labels)
AtDone ==
    stage = "done" =>
        \/ result = Refused /\ ~Accepted(host, opts)
        \/ Answered(host, opts, result) /\ had_root = Rooted(host, opts)
HostInv == Kept /\ AtRoot /\ AtMap /\ AtNfc /\ AtResolve /\ AtFinalize /\ AtDone

LEMMA EmptyTyped == <<>> \in Seq(Works) /\ <<>> \in Seq(Seq(Form)) /\ Len(<<>>) <= Len(<<>>)
OBVIOUS

LEMMA HostInit == Init => HostInv
<1> SUFFICES ASSUME Init PROVE HostInv
  OBVIOUS
<1>1. host = IllFormed \/ host \in Seq(Nat)
  BY CodecAssumption DEF Init
<1>2. opts \in Options /\ stage = "utf8" /\ had_root = FALSE /\ labels = <<>> /\ out_labels = <<>> /\ result = Refused
  BY DEF Init, Refused
<1>3. Kept
  BY <1>1, <1>2, EmptyTyped DEF Kept, Stages
<1> QED BY <1>2, <1>3 DEF HostInv, AtRoot, AtMap, AtNfc, AtResolve, AtFinalize, AtDone

-----------------------------------------------------------------------------
(* No step refuses a host the flags accept.                                 *)

LEMMA BytesRefused ==
    ASSUME HostInv, RefuseBytes
    PROVE  ~Accepted(host, opts)
BY DEF RefuseBytes, Accepted, Answered, Finished, Passes

LEMMA RootIs ==
    ASSUME HostInv, stage = "root", opts.verify_dns_length
    PROVE  /\ HostText /\ cps = host
           /\ Rest = BodyOf(host, opts) /\ EndsInDot(cps) = Rooted(host, opts)
           /\ RootOk(host, opts) <=> Rest # <<>> /\ ~(EndsInDot(cps) /\ EndsInDot(Rest))
<1>1. HostText /\ cps = host
  BY DEF HostInv, AtRoot
<1>2. EndsInDot(cps) = Rooted(host, opts)
  BY <1>1 DEF Rooted, EndsInDot
<1>3. Rest = BodyOf(host, opts)
  BY <1>1, <1>2 DEF Rest, BodyOf
<1> QED BY <1>1, <1>2, <1>3 DEF RootOk

LEMMA RootRefused ==
    ASSUME HostInv, RefuseRoot
    PROVE  ~Accepted(host, opts)
<1>1. ~ RootOk(host, opts)
  BY RootIs DEF RefuseRoot, Refuse
<1> QED BY <1>1 DEF Accepted, Answered, Finished, Passes

LEMMA MappingRefused ==
    ASSUME HostInv, RefuseMapping
    PROVE  ~Accepted(host, opts)
<1>1. cps = BodyOf(host, opts) /\ \E k \in DOMAIN cps : DisallowedBy(opts, cps[k])
  BY DEF RefuseMapping, Refuse, HostInv, AtMap, Disallowed, DisallowedBy
<1> QED BY <1>1 DEF Accepted, Answered, Finished, Passes

LEMMA ResolvedIs == Resolved = Resolving(PieceOf(cps)) /\ NextStop = StopIn(cps)
                    /\ SubSeq(cps, NextStop + 1, Len(cps)) = AfterStop(cps)
BY DEF Resolved, Resolving, Piece, PieceOf, NextStop, StopIn, AfterStop

LEMMA LabelRefused ==
    ASSUME HostInv, RefuseLabel
    PROVE  ~Accepted(host, opts)
<1> DEFINE t == TextOf(host, opts)
           n == Len(labels)
<1>1. PICK rs : Chain(t, rs, labels) /\ Open(rs, n) /\ cps = rs[n + 1]
  BY DEF RefuseLabel, Refuse, HostInv, AtResolve
<1>2. Resolving(PieceOf(rs[n + 1])) = {} /\ n \in Nat
  BY <1>1, ResolvedIs, ChainType DEF RefuseLabel
<1> SUFFICES ASSUME NEW qs, NEW ms, Labelling(t, qs, ms) PROVE FALSE
  BY DEF Accepted, Answered, Finished, Labelled
<1> HIDE DEF t, n
<1>3. Chain(t, qs, ms) /\ Len(ms) \in Nat /\ Len(ms) >= 1 /\ ~ (StopIn(qs[Len(ms)]) <= Len(qs[Len(ms)]))
  BY ChainType DEF Labelling
<1>4. CASE n < Len(ms)
  <2>1. n + 1 \in 1 .. n + 1 /\ n <= Len(ms) /\ n <= n /\ n + 1 \in 1 .. Len(ms)
    BY <1>2, <1>3, <1>4
  <2>2. rs[n + 1] = qs[n + 1]
    BY <1>1, <1>2, <1>3, <2>1, ChainsAgree DEF n
  <2>3. ms[n + 1] \in Resolving(PieceOf(qs[n + 1]))
    BY <1>3, <2>1, ChainType
  <2> QED BY <1>2, <2>2, <2>3
<1>5. CASE ~ (n < Len(ms))
  <2>1. Len(ms) \in 1 .. Len(ms) + 1 /\ Len(ms) <= n /\ Len(ms) <= Len(ms) /\ Len(ms) \in 1 .. n
    BY <1>2, <1>3, <1>5
  <2>2. rs[Len(ms)] = qs[Len(ms)]
    BY <1>1, <1>2, <1>3, <2>1, ChainsAgree DEF n
  <2>3. StopIn(rs[Len(ms)]) <= Len(rs[Len(ms)])
    BY <1>1, <2>1 DEF Open
  <2> QED BY <1>3, <2>2, <2>3
<1> QED BY <1>4, <1>5

LEMMA InvalidRefused ==
    ASSUME HostInv, RefuseInvalid
    PROVE  ~Accepted(host, opts)
<1> DEFINE k == Len(out_labels) + 1
<1>1. /\ Labelled(TextOf(host, opts), labels) /\ Len(out_labels) < Len(labels)
      /\ out_labels \in Seq(Seq(Form)) /\ labels \in Seq(Works)
  BY DEF RefuseInvalid, Refuse, HostInv, AtFinalize, Kept
<1>2. k \in 1 .. Len(labels)
  <2> DEFINE S == Seq(Form)
  <2>1. Len(out_labels) \in Nat
    <3>1. out_labels \in Seq(S)
      BY <1>1
    <3> HIDE DEF S
    <3> QED BY <3>1
  <2>2. Len(labels) \in Nat
    BY <1>1
  <2> QED BY <1>1, <2>1, <2>2
<1> SUFFICES ASSUME NEW ms, NEW ons, Finished(host, opts, ms, ons) PROVE FALSE
  BY DEF Accepted, Answered
<1>3. ms = labels
  BY <1>1, LabellingOne DEF Finished, Labelled
<1>4. Accepts(opts, labels, labels[k]) /\ ons[k] \in FormOf(labels[k])
  BY <1>2, <1>3 DEF Finished, Forms
<1>5. ons[k] \in finalize_label(labels[k])
  BY <1>4, FinalizeIs
<1> QED BY <1>5 DEF RefuseInvalid, Current

LEMMA LengthRefused ==
    ASSUME HostInv, RefuseLength
    PROVE  ~Accepted(host, opts)
<1>1. /\ Labelled(TextOf(host, opts), labels) /\ Forms(opts, labels, out_labels)
      /\ Len(out_labels) = Len(labels) /\ TooLongBy(opts, out_labels)
  BY DEF RefuseLength, Refuse, HostInv, AtFinalize, TooLong, TooLongBy
<1> SUFFICES ASSUME NEW ms, NEW ons, Finished(host, opts, ms, ons) PROVE FALSE
  BY DEF Accepted, Answered
<1>2. ms = labels
  BY <1>1, LabellingOne DEF Finished, Labelled
<1>3. ons = out_labels
  BY <1>1, <1>2, SameForms DEF Finished
<1> QED BY <1>1, <1>3 DEF Finished

LEMMA RefusingKeeps ==
    ASSUME HostInv, NEW from \in Stages \ {"done"}, Refuse(from), ~Accepted(host, opts)
    PROVE  HostInv'
<1>1. /\ stage' = "done" /\ UNCHANGED <<host, opts, cps, had_root, labels, out_labels, result>>
      /\ result = Refused
  BY DEF Refuse, work, HostInv, Kept
<1>2. Kept'
  BY <1>1 DEF HostInv, Kept, Stages
<1>3. (~Accepted(host, opts))'
  BY <1>1 DEF Accepted, Answered, Finished, Passes, TextOf, Labelled, Labelling, Chain, Open, Forms, TooLongBy
<1> QED BY <1>1, <1>2, <1>3 DEF HostInv, AtRoot, AtMap, AtNfc, AtResolve, AtFinalize, AtDone

-----------------------------------------------------------------------------
(* Every other step settles the next stage.                                 *)

LEMMA DecodeKeeps ==
    ASSUME HostInv, DecodeBytes
    PROVE  HostInv'
<1>1. /\ stage = "utf8" /\ stage' = "root" /\ host # IllFormed /\ cps' = host
      /\ UNCHANGED <<host, opts, result, had_root, labels, out_labels>>
  BY DEF DecodeBytes, Stage
<1>2. Kept' /\ HostText'
  BY <1>1 DEF HostInv, Kept, Stages, HostText
<1> QED BY <1>1, <1>2 DEF HostInv, AtRoot, AtMap, AtNfc, AtResolve, AtFinalize, AtDone

LEMMA RootKeeps ==
    ASSUME HostInv, CaptureRoot \/ KeepRoot
    PROVE  HostInv'
<1>1. /\ stage = "root" /\ stage' = "map" /\ UNCHANGED <<host, opts, result, labels, out_labels>>
  BY DEF CaptureRoot, KeepRoot, Stage, work
<1>2. HostText /\ cps = host /\ had_root = FALSE
  BY <1>1 DEF HostInv, AtRoot, Kept
<1>3. RootOk(host, opts) /\ had_root' = Rooted(host, opts) /\ cps' = BodyOf(host, opts)
  <2>1. CASE CaptureRoot
    BY <1>1, <2>1, RootIs DEF CaptureRoot
  <2>2. CASE KeepRoot
    BY <1>2, <2>2 DEF KeepRoot, work, RootOk, Rooted, BodyOf
  <2> QED BY <2>1, <2>2
<1>4. Kept'
  BY <1>1, <1>3 DEF HostInv, Kept, Stages, Rooted, EndsInDot
<1>5. AtMap'
  BY <1>1, <1>2, <1>3 DEF AtMap, HostText, RootOk, Rooted, BodyOf
<1> QED BY <1>1, <1>4, <1>5 DEF HostInv, AtRoot, AtNfc, AtResolve, AtFinalize, AtDone

LEMMA MapKeeps ==
    ASSUME HostInv, map_codepoints
    PROVE  HostInv'
<1>1. /\ stage = "map" /\ stage' = "nfc" /\ UNCHANGED <<host, opts, result, had_root, labels, out_labels>>
      /\ cps' = MapText(cps) /\ \A k \in DOMAIN cps : ~DisallowedBy(opts, cps[k])
  BY DEF map_codepoints, Stage, MapText, Disallowed, DisallowedBy
<1>2. /\ HostText /\ RootOk(host, opts) /\ had_root = Rooted(host, opts) /\ cps = BodyOf(host, opts)
  BY <1>1 DEF HostInv, AtMap
<1>3. Passes(host, opts)
  BY <1>1, <1>2 DEF Passes, HostText
<1>4. Kept'
  BY <1>1 DEF HostInv, Kept, Stages
<1>5. (Passes(host, opts) /\ had_root = Rooted(host, opts) /\ cps = MapText(BodyOf(host, opts)))'
  BY <1>1, <1>2, <1>3 DEF Passes, RootOk, BodyOf, Rooted
<1> QED BY <1>1, <1>4, <1>5 DEF HostInv, AtRoot, AtMap, AtNfc, AtResolve, AtFinalize, AtDone

LEMMA Primed ==
    ASSUME UNCHANGED <<host, opts>>
    PROVE  /\ Passes(host, opts) => Passes(host, opts)'
           /\ Rooted(host, opts)' = Rooted(host, opts)
           /\ TextOf(host, opts)' = TextOf(host, opts)
BY DEF Passes, RootOk, BodyOf, Rooted, TextOf

LEMMA NormalizeKeeps ==
    ASSUME HostInv, Normalize
    PROVE  HostInv'
<1> DEFINE t == TextOf(host, opts)
<1>1. /\ stage = "nfc" /\ stage' = "resolve" /\ UNCHANGED <<host, opts, result, had_root, labels, out_labels>>
      /\ cps' = nfc(cps)
  BY DEF Normalize, Stage, Normalized
<1>2. Passes(host, opts) /\ had_root = Rooted(host, opts) /\ cps' = t /\ labels = <<>>
  BY <1>1 DEF HostInv, AtNfc, TextOf, Kept
<1>3. t \in Seq(Lower)
  BY <1>2, TextType
<1> HIDE DEF t
<1>4. Chain(t, <<t>>, <<>>) /\ Open(<<t>>, Len(<<>>)) /\ t = <<t>>[Len(<<>>) + 1]
  <2> DEFINE S == Seq(Lower)
  <2>1. t \in S
    BY <1>3
  <2>2. <<t>> \in Seq(S) /\ Len(<<t>>) = 1 /\ <<t>>[1] = t
    <3> HIDE DEF S
    <3> QED BY <2>1
  <2>3. <<>> \in Seq(Works) /\ Len(<<>>) = 0
    OBVIOUS
  <2> QED BY <2>2, <2>3 DEF Chain, Open
<1>5. Kept'
  BY <1>1 DEF HostInv, Kept, Stages
<1>6. AtResolve'
  <2>1. Chain(t, <<t>>, labels') /\ Open(<<t>>, Len(labels')) /\ cps' = <<t>>[Len(labels') + 1]
    BY <1>1, <1>2, <1>4
  <2>2. \E rs : Chain(t, rs, labels') /\ Open(rs, Len(labels')) /\ cps' = rs[Len(labels') + 1]
    BY <2>1
  <2>3. TextOf(host, opts)' = t
    BY <1>1, Primed DEF t
  <2>4. Passes(host, opts)' /\ (had_root = Rooted(host, opts))'
    BY <1>1, <1>2, Primed
  <2> QED BY <2>2, <2>3, <2>4 DEF AtResolve
<1> QED BY <1>1, <1>5, <1>6 DEF HostInv, AtRoot, AtMap, AtNfc, AtFinalize, AtDone

LEMMA ChainStep ==
    ASSUME NEW t, NEW rs, NEW ls, Chain(t, rs, ls), Open(rs, Len(ls)),
           NEW w \in Resolving(PieceOf(rs[Len(ls) + 1]))
    PROVE  LET n == Len(ls)
               c == rs[n + 1]
               qs == Append(rs, AfterStop(c))
               ms == Append(ls, w)
           IN  /\ Chain(t, qs, ms) /\ Len(ms) = n + 1 /\ n \in Nat /\ qs[n + 2] = AfterStop(c) /\ ms \in Seq(Works)
               /\ StopIn(c) <= Len(c) => Open(qs, n + 1)
               /\ ~ (StopIn(c) <= Len(c)) => Labelling(t, qs, ms)
<1> DEFINE n == Len(ls)
           c == rs[n + 1]
           a == AfterStop(c)
           qs == Append(rs, a)
           ms == Append(ls, w)
           S == Seq(Lower)
<1>1. /\ ls \in Seq(Works) /\ n \in Nat /\ Len(rs) = n + 1 /\ rs[1] = t /\ rs \in Seq(S)
      /\ \A k \in 1 .. n : rs[k + 1] = AfterStop(rs[k]) /\ ls[k] \in Resolving(PieceOf(rs[k]))
  BY ChainType DEF Chain
<1>2. c \in Seq(Lower)
  <2>1. n + 1 \in 1 .. n + 1
    BY <1>1
  <2> QED BY <2>1, ChainType
<1>3. PieceOf(c) \in Seq(Lower) /\ a \in S
  <2>1. Lower \in SUBSET Nat
    BY DEF Lower
  <2> QED BY <1>2, <2>1, PieceType
<1>4. w \in Works /\ w \in Resolving(PieceOf(c))
  BY <1>3, ResolvingFacts
<1> HIDE DEF S, a
<1>5. /\ qs \in Seq(S) /\ Len(qs) = n + 2 /\ qs[n + 2] = a /\ \A k \in 1 .. n + 1 : qs[k] = rs[k]
  BY <1>1, <1>3
<1>6. /\ ms \in Seq(Works) /\ Len(ms) = n + 1 /\ ms[n + 1] = w /\ \A k \in 1 .. n : ms[k] = ls[k]
  BY <1>1, <1>4
<1> HIDE DEF qs, ms, n
<1>7. ASSUME NEW k \in 1 .. n + 1
      PROVE  qs[k + 1] = AfterStop(qs[k]) /\ ms[k] \in Resolving(PieceOf(qs[k]))
  <2>1. CASE k \in 1 .. n
    <3>1. k + 1 \in 1 .. n + 1 /\ k \in 1 .. n + 1
      BY <1>1, <2>1
    <3> QED BY <1>1, <1>5, <1>6, <2>1, <3>1
  <2>2. CASE k = n + 1
    <3>1. k \in 1 .. n + 1 /\ k + 1 = n + 2
      BY <1>1, <2>2
    <3>2. qs[k] = c /\ qs[k + 1] = a /\ ms[k] = w
      BY <1>5, <1>6, <2>2, <3>1
    <3> QED BY <1>4, <3>2 DEF a
  <2> QED BY <1>1, <2>1, <2>2
<1>8. qs[1] = t
  <2>1. 1 \in 1 .. n + 1
    BY <1>1
  <2> QED BY <1>1, <1>5, <2>1
<1>9. Chain(t, qs, ms)
  <2>1. Len(qs) = Len(ms) + 1
    BY <1>1, <1>5, <1>6
  <2> QED BY <1>5, <1>6, <1>7, <1>8, <2>1 DEF Chain, S
<1>10. \A k \in 1 .. n : StopIn(qs[k]) <= Len(qs[k])
  <2> SUFFICES ASSUME NEW k \in 1 .. n PROVE StopIn(qs[k]) <= Len(qs[k])
    OBVIOUS
  <2>1. k \in 1 .. n + 1 /\ StopIn(rs[k]) <= Len(rs[k])
    BY <1>1 DEF Open, n
  <2> QED BY <1>5, <2>1
<1>11. n + 1 \in 1 .. n + 1 /\ qs[n + 1] = c
  BY <1>1, <1>5
<1>12. StopIn(c) <= Len(c) => Open(qs, n + 1)
  <2> SUFFICES ASSUME StopIn(c) <= Len(c), NEW k \in 1 .. n + 1 PROVE StopIn(qs[k]) <= Len(qs[k])
    BY DEF Open
  <2>1. k \in 1 .. n \/ k = n + 1
    BY <1>1
  <2> QED BY <1>10, <1>11, <2>1
<1>13. ~ (StopIn(c) <= Len(c)) => Labelling(t, qs, ms)
  <2>1. (n + 1) - 1 = n /\ n + 1 >= 1
    BY <1>1
  <2> QED BY <1>6, <1>9, <1>10, <1>11, <2>1 DEF Labelling, Open
<1> QED BY <1>1, <1>5, <1>6, <1>9, <1>12, <1>13 DEF a, qs, ms, n

LEMMA ResolveKeeps ==
    ASSUME HostInv, resolve_label
    PROVE  HostInv'
<1> DEFINE t == TextOf(host, opts)
           n == Len(labels)
<1>1. /\ stage = "resolve" /\ stage' = IF StopIn(cps) <= Len(cps) THEN "resolve" ELSE "finalize"
      /\ UNCHANGED <<host, opts, result, had_root, out_labels>> /\ cps' = AfterStop(cps)
      /\ \E w \in Resolving(PieceOf(cps)) : labels' = Append(labels, w)
  BY ResolvedIs DEF resolve_label, Stage
<1>2. Passes(host, opts) /\ had_root = Rooted(host, opts) /\ out_labels = <<>>
  BY <1>1 DEF HostInv, AtResolve, Kept
<1>3. PICK rs : Chain(t, rs, labels) /\ Open(rs, n) /\ cps = rs[n + 1]
  BY <1>1 DEF HostInv, AtResolve
<1>4. PICK w \in Resolving(PieceOf(cps)) : labels' = Append(labels, w)
  BY <1>1
<1> DEFINE qs == Append(rs, AfterStop(cps))
<1> HIDE DEF t, qs
<1>5. /\ Chain(t, qs, labels') /\ Len(labels') = n + 1 /\ n \in Nat /\ qs[n + 2] = AfterStop(cps)
      /\ labels' \in Seq(Works)
      /\ StopIn(cps) <= Len(cps) => Open(qs, n + 1)
      /\ ~ (StopIn(cps) <= Len(cps)) => Labelling(t, qs, labels')
  <2>1. w \in Resolving(PieceOf(rs[Len(labels) + 1]))
    BY <1>3, <1>4 DEF n
  <2>2. LET m == Len(labels)
            c == rs[m + 1]
            q == Append(rs, AfterStop(c))
            ms == Append(labels, w)
        IN  /\ Chain(t, q, ms) /\ Len(ms) = m + 1 /\ m \in Nat /\ q[m + 2] = AfterStop(c) /\ ms \in Seq(Works)
            /\ StopIn(c) <= Len(c) => Open(q, m + 1)
            /\ ~ (StopIn(c) <= Len(c)) => Labelling(t, q, ms)
    BY <1>3, <2>1, ChainStep
  <2> QED BY <1>3, <1>4, <2>2 DEF qs
<1>6. t' = t /\ Passes(host, opts)' /\ (had_root = Rooted(host, opts))'
  BY <1>1, <1>2, Primed DEF t
<1>7. Kept'
  <2>1. Len(out_labels') = 0 /\ Len(out_labels') <= Len(labels')
    BY <1>1, <1>2, <1>5
  <2>2. stage' \in {"resolve", "finalize"}
    BY <1>1
  <2> QED BY <1>1, <1>5, <2>1, <2>2 DEF HostInv, Kept, Stages
<1>8. CASE StopIn(cps) <= Len(cps)
  <2>1. stage' = "resolve" /\ Chain(t, qs, labels') /\ Open(qs, Len(labels')) /\ cps' = qs[Len(labels') + 1]
    <3>1. (n + 1) + 1 = n + 2
      BY <1>5
    <3> QED BY <1>1, <1>5, <1>8, <3>1
  <2>2. AtResolve'
    BY <1>6, <2>1 DEF AtResolve, t
  <2> QED BY <1>7, <2>1, <2>2 DEF HostInv, AtRoot, AtMap, AtNfc, AtFinalize, AtDone
<1>9. CASE ~ (StopIn(cps) <= Len(cps))
  <2>1. stage' = "finalize" /\ Labelled(t, labels')
    BY <1>1, <1>5, <1>9 DEF Labelled
  <2>2. Forms(opts', labels', out_labels') /\ Len(out_labels') < Len(labels')
    <3>1. out_labels' = <<>> /\ <<>> \in Seq(Seq(Form)) /\ Len(<<>>) = 0 /\ Len(labels') \in Nat /\ Len(labels') > 0
      BY <1>1, <1>2, <1>5
    <3> QED BY <3>1 DEF Forms
  <2>3. AtFinalize'
    BY <1>6, <2>1, <2>2 DEF AtFinalize, t
  <2> QED BY <1>7, <2>1, <2>3 DEF HostInv, AtRoot, AtMap, AtNfc, AtResolve, AtDone
<1> QED BY <1>8, <1>9

LEMMA FinalizeKeeps ==
    ASSUME HostInv, Finalize
    PROVE  HostInv'
<1> DEFINE t == TextOf(host, opts)
           n == Len(out_labels)
           S == Seq(Form)
<1>1. /\ stage = "finalize" /\ stage' = IF n + 1 < Len(labels) THEN "finalize" ELSE "length"
      /\ UNCHANGED <<host, opts, result, cps, had_root, labels>>
      /\ \E a \in finalize_label(labels[n + 1]) : out_labels' = Append(out_labels, a)
  BY DEF Finalize, Stage, Current
<1>2. /\ Passes(host, opts) /\ had_root = Rooted(host, opts) /\ Labelled(t, labels)
      /\ Forms(opts, labels, out_labels) /\ n < Len(labels) /\ out_labels \in Seq(S)
  BY <1>1 DEF HostInv, AtFinalize, Kept
<1>3. PICK a \in finalize_label(labels[n + 1]) : out_labels' = Append(out_labels, a)
  BY <1>1
<1>4. PICK rs : Chain(t, rs, labels)
  BY <1>2 DEF Labelled, Labelling
<1>5. Len(labels) \in Nat /\ n \in Nat /\ n + 1 \in 1 .. Len(labels)
  <2>1. n \in Nat
    <3> HIDE DEF S
    <3> QED BY <1>2
  <2>2. Len(labels) \in Nat
    BY <1>4, ChainType
  <2> HIDE DEF n
  <2> QED BY <1>2, <2>1, <2>2
<1>6. Accepts(opts, labels, labels[n + 1]) /\ a \in FormOf(labels[n + 1])
  BY <1>3, FinalizeIs
<1>7. a \in S
  <2>1. PieceOf(rs[n + 1]) \in Seq(Lower) /\ labels[n + 1] \in Resolving(PieceOf(rs[n + 1]))
    BY <1>4, <1>5, ChainType
  <2> HIDE DEF n
  <2> QED BY <1>6, <2>1, FormFacts
<1>8. /\ out_labels' \in Seq(S) /\ Len(out_labels') = n + 1 /\ out_labels'[n + 1] = a
      /\ \A k \in 1 .. n : out_labels'[k] = out_labels[k]
  <2> HIDE DEF S
  <2> QED BY <1>2, <1>3, <1>7
<1>9. Forms(opts', labels', out_labels')
  <2> SUFFICES ASSUME NEW k \in 1 .. n + 1
               PROVE  Accepts(opts, labels, labels[k]) /\ out_labels'[k] \in FormOf(labels[k])
    BY <1>1, <1>5, <1>8 DEF Forms
  <2>1. k \in 1 .. n \/ k = n + 1
    BY <1>5
  <2>2. CASE k \in 1 .. n
    BY <1>2, <1>8, <2>2 DEF Forms
  <2>3. CASE k = n + 1
    BY <1>6, <1>8, <2>3
  <2> QED BY <2>1, <2>2, <2>3
<1>10. Len(out_labels') <= Len(labels') /\ (stage' = "finalize" => Len(out_labels') < Len(labels'))
       /\ (stage' = "length" => Len(out_labels') = Len(labels')) /\ stage' \in {"finalize", "length"}
  <2>1. labels' = labels
    BY <1>1
  <2> HIDE DEF n
  <2> QED BY <1>1, <1>5, <1>8, <2>1
<1>11. Kept'
  BY <1>1, <1>8, <1>10 DEF HostInv, Kept, Stages
<1>12. AtFinalize'
  <2>1. Passes(host, opts)' /\ (had_root = Rooted(host, opts))'
    BY <1>1, <1>2, Primed
  <2>2. Labelled(TextOf(host, opts)', labels')
    BY <1>1, <1>2, Primed
  <2> QED BY <1>9, <1>10, <2>1, <2>2 DEF AtFinalize
<1> QED BY <1>10, <1>11, <1>12 DEF HostInv, AtRoot, AtMap, AtNfc, AtResolve, AtDone

LEMMA ReassembleKeeps ==
    ASSUME HostInv, Reassemble
    PROVE  HostInv'
<1>1. /\ stage = "length" /\ stage' = "done" /\ UNCHANGED <<host, opts, cps, had_root, labels, out_labels>>
      /\ ~ TooLongBy(opts, out_labels)
      /\ result' = [valid |-> TRUE, value |-> Joined(out_labels, had_root)]
  BY DEF Reassemble, work, TooLong, TooLongBy
<1>2. Finished(host, opts, labels, out_labels) /\ had_root = Rooted(host, opts)
  BY <1>1 DEF HostInv, AtFinalize, Finished
<1>3. Answered(host, opts, result')
  BY <1>1, <1>2 DEF Answered
<1>4. Answered(host', opts', result') /\ (had_root = Rooted(host, opts))'
  BY <1>1, <1>2, <1>3, Primed
<1>5. Kept'
  BY <1>1 DEF HostInv, Kept, Stages
<1> QED BY <1>1, <1>4, <1>5 DEF HostInv, AtRoot, AtMap, AtNfc, AtResolve, AtFinalize, AtDone

LEMMA HostNext == HostInv /\ Next => HostInv'
<1> SUFFICES ASSUME HostInv, Next PROVE HostInv'
  OBVIOUS
<1>1. CASE RefuseBytes
  BY <1>1, BytesRefused, RefusingKeeps DEF RefuseBytes, Stages
<1>2. CASE RefuseRoot
  BY <1>2, RootRefused, RefusingKeeps DEF RefuseRoot, Stages
<1>3. CASE RefuseMapping
  BY <1>3, MappingRefused, RefusingKeeps DEF RefuseMapping, Stages
<1>4. CASE RefuseLabel
  BY <1>4, LabelRefused, RefusingKeeps DEF RefuseLabel, Stages
<1>5. CASE RefuseInvalid
  BY <1>5, InvalidRefused, RefusingKeeps DEF RefuseInvalid, Stages
<1>6. CASE RefuseLength
  BY <1>6, LengthRefused, RefusingKeeps DEF RefuseLength, Stages
<1>7. CASE DecodeBytes
  BY <1>7, DecodeKeeps
<1>8. CASE CaptureRoot \/ KeepRoot
  BY <1>8, RootKeeps
<1>9. CASE map_codepoints
  BY <1>9, MapKeeps
<1>10. CASE Normalize
  BY <1>10, NormalizeKeeps
<1>11. CASE resolve_label
  BY <1>11, ResolveKeeps
<1>12. CASE Finalize
  BY <1>12, FinalizeKeeps
<1>13. CASE Reassemble
  BY <1>13, ReassembleKeeps
<1> QED BY <1>1, <1>2, <1>3, <1>4, <1>5, <1>6, <1>7, <1>8, <1>9, <1>10, <1>11, <1>12, <1>13 DEF Next

-----------------------------------------------------------------------------
LEMMA AnswerInLimits ==
    ASSUME HostInv
    PROVE  TypeOK
<1>1. /\ opts \in Options /\ had_root \in BOOLEAN /\ stage \in Stages
      /\ Len(out_labels) <= Len(labels)
  BY DEF HostInv, Kept
<1>2. ASSUME result.valid
      PROVE  /\ \A k \in DOMAIN result.value :
                  /\ result.value[k] < 128 /\ result.value[k] \notin 65 .. 90
                  /\ opts.use_std3 => Ldh(result.value[k]) \/ result.value[k] = kFullStop
             /\ opts.verify_dns_length =>
                  Len(result.value) \in 1 .. kMaxHostOctets + (IF had_root THEN 1 ELSE 0)
  <2>1. Answered(host, opts, result) /\ had_root = Rooted(host, opts)
    BY <1>2 DEF HostInv, Kept, AtDone, Refused
  <2>2. /\ result.value \in Seq(Form)
        /\ opts.use_std3 => result.value \in Seq(Written)
        /\ opts.verify_dns_length =>
             Len(result.value) \in 1 .. kMaxHostOctets + (IF Rooted(host, opts) THEN 1 ELSE 0)
    BY <2>1, AnswerShape
  <2>3. \A k \in DOMAIN result.value : result.value[k] \in Form /\ (opts.use_std3 => result.value[k] \in Written)
    <3> HIDE DEF Form, Written
    <3> QED BY <2>2
  <2>4. \A c \in Form : c < 128 /\ c \notin 65 .. 90
    BY DEF Form
  <2>5. \A c \in Written : Ldh(c) \/ c = kFullStop
    BY DEF Written
  <2> HIDE DEF Form, Written
  <2> QED BY <2>1, <2>2, <2>3, <2>4, <2>5
<1> QED BY <1>1, <1>2 DEF TypeOK, Stages

\* The call before and the host of this one.
Remembered(f) ==
    f.result.valid =>
        /\ Answered(f.host, f.opts, f.result) /\ f.result.value \in Seq(Form)
        /\ host \in {f.host, f.result.value}
CallInv == HostInv /\ \A f \in first : Remembered(f)

LEMMA CallStarts == CallInit => CallInv
BY HostInit DEF CallInit, CallInv

LEMMA AgainKeeps ==
    ASSUME CallInv, Again
    PROVE  CallInv'
<1> DEFINE g == [host |-> host, opts |-> opts, result |-> result]
<1>1. /\ stage = "done" /\ first' = {g}
      /\ host' \in {host} \cup IF result.valid THEN {result.value} ELSE {}
      /\ opts' \in Options
      /\ stage' = "utf8" /\ cps' = <<>> /\ had_root' = FALSE
      /\ labels' = <<>> /\ out_labels' = <<>> /\ result' = Refused
  BY DEF Again, Refused
<1>2. result.valid => Answered(host, opts, result) /\ result.value \in Seq(Form) /\ result.value \in Seq(Nat)
  <2> SUFFICES ASSUME result.valid PROVE Answered(host, opts, result) /\ result.value \in Seq(Form) /\ result.value \in Seq(Nat)
    OBVIOUS
  <2>1. Answered(host, opts, result)
    BY <1>1 DEF CallInv, HostInv, AtDone, Refused
  <2>2. result.value \in Seq(Form)
    BY <2>1, AnswerShape
  <2>3. Form \subseteq Nat
    BY DEF Form
  <2> HIDE DEF Form
  <2> QED BY <2>1, <2>2, <2>3, SeqMonotonic
<1>3. host' = IllFormed \/ host' \in Seq(Nat)
  BY <1>1, <1>2 DEF CallInv, HostInv, Kept
<1>4. Kept'
  BY <1>1, <1>3, EmptyTyped DEF Kept, Stages
<1>5. HostInv'
  BY <1>1, <1>4 DEF HostInv, AtRoot, AtMap, AtNfc, AtResolve, AtFinalize, AtDone
<1>6. ASSUME NEW f \in first', f.result.valid
      PROVE  /\ Answered(f.host, f.opts, f.result) /\ f.result.value \in Seq(Form)
             /\ host' \in {f.host, f.result.value}
  BY <1>1, <1>2, <1>6
<1>7. (\A f \in first : Remembered(f))'
  <2> SUFFICES ASSUME NEW f \in first' PROVE Remembered(f)'
    OBVIOUS
  <2> QED BY <1>6 DEF Remembered
<1> QED BY <1>5, <1>7 DEF CallInv

LEMMA CallNext == CallInv /\ [Run \/ Again]_allvars => CallInv'
<1> SUFFICES ASSUME CallInv, [Run \/ Again]_allvars PROVE CallInv'
  OBVIOUS
<1>1. CASE Run
  <2>1. HostInv' /\ UNCHANGED first
    BY <1>1, HostNext DEF Run, CallInv
  <2>2. UNCHANGED host
    BY <1>1 DEF Run, Next, RefuseBytes, DecodeBytes, RefuseRoot, CaptureRoot, KeepRoot, RefuseMapping,
      map_codepoints, Normalize, RefuseLabel, resolve_label, RefuseInvalid, Finalize, RefuseLength,
      Reassemble, Refuse, Stage
  <2>3. (\A f \in first : Remembered(f))'
    BY <2>1, <2>2 DEF CallInv, Remembered
  <2> QED BY <2>1, <2>3 DEF CallInv
<1>2. CASE Again
  BY <1>2, AgainKeeps
<1>3. CASE UNCHANGED allvars
  <2>1. UNCHANGED <<host, opts, stage, cps, had_root, labels, out_labels, result, first>>
    BY <1>3 DEF allvars, vars
  <2>2. (\A f \in first : Remembered(f))'
    BY <2>1 DEF CallInv, Remembered
  <2>3. Passes(host, opts) => Passes(host, opts)'
    BY <2>1, Primed
  <2>4. Rooted(host, opts)' = Rooted(host, opts) /\ TextOf(host, opts)' = TextOf(host, opts)
    BY <2>1, Primed
  <2>5. RootOk(host, opts)' = RootOk(host, opts) /\ BodyOf(host, opts)' = BodyOf(host, opts)
    BY <2>1 DEF RootOk, BodyOf, Rooted
  <2>6. HostText' = HostText /\ Accepted(host, opts)' = Accepted(host, opts)
    BY <2>1 DEF HostText
  <2>7. Kept' /\ AtRoot' /\ AtMap'
    BY <2>1, <2>4, <2>5, <2>6 DEF CallInv, HostInv, Kept, AtRoot, AtMap
  <2>8. AtNfc' /\ AtResolve'
    BY <2>1, <2>3, <2>4, <2>5 DEF CallInv, HostInv, AtNfc, AtResolve
  <2>9. AtFinalize' /\ AtDone'
    BY <2>1, <2>3, <2>4, <2>6 DEF CallInv, HostInv, AtFinalize, AtDone
  <2> QED BY <2>2, <2>7, <2>8, <2>9 DEF CallInv, HostInv
<1> QED BY <1>1, <1>2, <1>3

THEOREM CallAlways == CallSpec => []CallInv
<1> QED BY CallStarts, CallNext, PTL DEF CallSpec

THEOREM HostTypeCorrect == CallSpec => []TypeOK
<1>1. CallInv => TypeOK
  BY AnswerInLimits DEF CallInv
<1> QED BY <1>1, CallAlways, PTL

THEOREM RelaxingOnlyAcceptsHolds == CallSpec => []RelaxingOnlyAccepts
<1>1. ASSUME CallInv PROVE RelaxingOnlyAccepts
  <2> SUFFICES ASSUME NEW f \in first, host = f.host, Relaxes(f.opts, opts), f.result.valid, stage = "done"
               PROVE  result.valid
    BY DEF RelaxingOnlyAccepts
  <2>1. Answered(f.host, f.opts, f.result)
    BY <1>1 DEF CallInv, Remembered
  <2>2. Answered(host, opts, f.result)
    BY <2>1, RelaxedAnswer
  <2>3. Answered(host, opts, result)
    BY <1>1, <2>2 DEF CallInv, HostInv, AtDone, Accepted
  <2> QED BY <2>3, AnswerShape
<1> QED BY <1>1, CallAlways, PTL

THEOREM OneFormHolds == CallSpec => []OneForm
<1>1. ASSUME CallInv PROVE OneForm
  <2> SUFFICES ASSUME NEW f \in first, f.result.valid, stage = "done", result.valid
               PROVE  result = f.result
    BY DEF OneForm
  <2>1. /\ Answered(f.host, f.opts, f.result) /\ f.result.value \in Seq(Form)
        /\ host \in {f.host, f.result.value}
    BY <1>1 DEF CallInv, Remembered
  <2>2. Answered(host, opts, result)
    BY <1>1 DEF CallInv, HostInv, AtDone, Refused
  <2>3. CASE host = f.host
    BY <2>1, <2>2, <2>3, AnswerOne
  <2>4. CASE host = f.result.value
    <3>1. result.value = f.result.value
      BY <2>1, <2>2, <2>4, FormStays
    <3>2. (\E v : result = [valid |-> TRUE, value |-> v]) /\ \E v : f.result = [valid |-> TRUE, value |-> v]
      BY <2>1, <2>2 DEF Answered
    <3> QED BY <3>1, <3>2
  <2> QED BY <2>1, <2>3, <2>4
<1> QED BY <1>1, CallAlways, PTL
=============================================================================
