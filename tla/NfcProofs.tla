------------------------------- MODULE NfcProofs ------------------------------
(***************************************************************************)
(* What the three passes of punycoder_nfc.cpp do to texts of any length.   *)
(* The passes are folds; a fold is met through its table, which gives its  *)
(* value on every prefix, and an induction over the prefixes takes the     *)
(* shape of a least counterexample, the property being a set of numbers.   *)
(***************************************************************************)
EXTENDS NfcText, WellFoundedInduction, SequenceTheorems, FiniteSetTheorems, TLAPS

-----------------------------------------------------------------------------
(* Induction, with the property as a set.                                   *)

LEMMA Least ==
    ASSUME NEW T \in SUBSET Nat, T # {}
    PROVE  \E m \in T : \A k \in T : m <= k
<1> DEFINE R == OpToRel(<, Nat)
<1>1. IsWellFoundedOn(R, Nat)
  BY NatLessThanWellFounded
<1>2. T \subseteq Nat
  OBVIOUS
<1>3. \A a, b \in Nat : (<<a, b>> \in R) <=> a < b
  BY DEF OpToRel
<1> HIDE DEF R
<1>4. PICK m \in T : \A k \in T : ~ (<<k, m>> \in R)
  BY <1>1, <1>2, WFMin
<1>5. \A k \in T : m <= k
  <2> SUFFICES ASSUME NEW k \in T PROVE m <= k
    OBVIOUS
  <2>1. m \in Nat /\ k \in Nat /\ ~ (k < m)
    BY <1>2, <1>3, <1>4
  <2> QED BY <2>1
<1> QED BY <1>5

LEMMA Induction ==
    ASSUME NEW T \in SUBSET Nat, 0 \in T, \A k \in T : k + 1 \in T
    PROVE  T = Nat
<1> SUFFICES ASSUME Nat \ T # {} PROVE FALSE
  OBVIOUS
<1>1. PICK m \in Nat \ T : \A k \in Nat \ T : m <= k
  <2>1. Nat \ T \in SUBSET Nat
    OBVIOUS
  <2> QED BY <2>1, Least
<1>2. m # 0 /\ m - 1 \in Nat
  BY <1>1
<1>3. m - 1 \in T
  BY <1>1, <1>2
<1> QED BY <1>1, <1>2, <1>3

-----------------------------------------------------------------------------
(* Sequences: regrouping, and induction over the last element.              *)

\* Concatenation may be regrouped.
LEMMA ConcatRegroups ==
    \A S : \A u, v, w \in Seq(S) : u \o (v \o w) = (u \o v) \o w /\ u \o v \in Seq(S)
OBVIOUS

\* (a \o b) \o c = a \o (b \o c), for the three as one.
Regroups(a, b, c) == (a \o b) \o c = a \o (b \o c)

LEMMA Regrouped == \A a, b, c \in Seq(Nat) : Regroups(a, b, c)
<1> SUFFICES ASSUME NEW a \in Seq(Nat), NEW b \in Seq(Nat), NEW c \in Seq(Nat) PROVE Regroups(a, b, c)
  OBVIOUS
<1> QED BY DEF Regroups

LEMMA AppendRuns ==
    ASSUME NEW S, NEW s \in Seq(S), s # <<>>
    PROVE  \E r \in Seq(S), x \in S : s = Append(r, x) /\ Len(r) = Len(s) - 1
<1> DEFINE n == Len(s)
           r == SubSeq(s, 1, n - 1)
<1>1. n \in Nat /\ n >= 1 /\ s[n] \in S
  BY EmptySeq
<1>2. r \in Seq(S) /\ Len(r) = n - 1 /\ \A i \in 1 .. n - 1 : r[i] = s[i]
  <2>1. \A m \in Nat : m <= n => /\ SubSeq(s, 1, m) \in Seq(S) /\ Len(SubSeq(s, 1, m)) = m
                                /\ \A i \in 1 .. m : SubSeq(s, 1, m)[i] = s[i]
    BY <1>1
  <2>2. n - 1 \in Nat /\ n - 1 <= n
    BY <1>1
  <2> QED BY <2>1, <2>2
<1>3. s = Append(r, s[n])
  <2> DEFINE q == Append(r, s[n])
  <2>1. q \in Seq(S) /\ Len(q) = n /\ q[n] = s[n] /\ \A i \in 1 .. n - 1 : q[i] = r[i]
    <3> HIDE DEF r
    <3> QED BY <1>1, <1>2
  <2>2. \A i \in 1 .. n : i = n \/ i \in 1 .. n - 1
    BY <1>1
  <2>3. \A i \in 1 .. n : q[i] = s[i]
    <3> HIDE DEF q, r, n
    <3> QED BY <1>2, <2>1, <2>2
  <2>4. s = q
    <3> HIDE DEF q
    <3> QED BY <2>1, <2>3, SeqEqual
  <2> QED BY <2>4
<1> QED BY <1>1, <1>2, <1>3

LEMMA AppendOver ==
    \A u, s \in Seq(Nat), m \in Nat : u \o s \in Seq(Nat) /\ u \o Append(s, m) = Append(u \o s, m)
<1> SUFFICES ASSUME NEW u \in Seq(Nat), NEW s \in Seq(Nat), NEW m \in Nat
             PROVE  u \o s \in Seq(Nat) /\ u \o Append(s, m) = Append(u \o s, m)
  OBVIOUS
<1> QED OBVIOUS

LEMMA SeqWithin ==
    ASSUME NEW S, NEW s \in Seq(Nat), \A i \in 1 .. Len(s) : s[i] \in S
    PROVE  s \in Seq(S)
OBVIOUS

\* What holds of the empty sequence and of a sequence with one more element.
LEMMA SeqInduction ==
    ASSUME NEW S, NEW T \in SUBSET Seq(S), <<>> \in T, \A s \in T, x \in S : Append(s, x) \in T
    PROVE  T = Seq(S)
<1> DEFINE L == {n \in Nat : \A s \in Seq(S) : Len(s) = n => s \in T}
<1>1. 0 \in L
  <2>1. \A s \in Seq(S) : Len(s) = 0 => s = <<>>
    OBVIOUS
  <2> QED BY <2>1
<1>2. ASSUME NEW n \in L PROVE n + 1 \in L
  <2> SUFFICES ASSUME NEW s \in Seq(S), Len(s) = n + 1 PROVE s \in T
    OBVIOUS
  <2>1. s # <<>>
    OBVIOUS
  <2>2. PICK r \in Seq(S), x \in S : s = Append(r, x) /\ Len(r) = Len(s) - 1
    BY <2>1, AppendRuns
  <2>3. Len(r) = n
    BY <2>2
  <2> QED BY <2>2, <2>3
<1>3. L = Nat
  <2>1. L \in SUBSET Nat
    OBVIOUS
  <2> HIDE DEF L
  <2> QED BY <1>1, <1>2, <2>1, Induction
<1>4. \A s \in Seq(S) : Len(s) \in L => s \in T
  OBVIOUS
<1>5. \A s \in Seq(S) : Len(s) \in Nat
  OBVIOUS
<1> HIDE DEF L
<1> QED BY <1>3, <1>4, <1>5

-----------------------------------------------------------------------------
(* FoldLeft, the operation being a function F on pairs.                     *)

\* A set of positions that is not empty has a last one.
LEMMA LastOf ==
    ASSUME NEW n \in Nat, NEW t \in SUBSET (1 .. n), t # {}
    PROVE  Max(t) \in t /\ \A k \in t : k <= Max(t)
<1> DEFINE T == {n - k : k \in t}
<1>1. T \in SUBSET Nat /\ T # {}
  <2>1. \A k \in t : n - k \in Nat
    OBVIOUS
  <2> QED BY <2>1
<1>2. PICK m \in T : \A k \in T : m <= k
  BY <1>1, Least
<1>3. PICK x \in t : m = n - x
  BY <1>2
<1>4. \A k \in t : x >= k
  <2> SUFFICES ASSUME NEW k \in t PROVE x >= k
    OBVIOUS
  <2>1. n - k \in T
    OBVIOUS
  <2>2. n - x <= n - k
    BY <1>2, <1>3, <2>1
  <2> QED BY <2>2
<1>5. \E a \in t : \A k \in t : a >= k
  BY <1>4
<1>6. Max(t) \in t /\ \A k \in t : Max(t) >= k
  BY <1>5 DEF Max
<1> QED BY <1>6

LEMMA UpTo ==
    ASSUME NEW n \in Nat, NEW k \in 1 .. n
    PROVE  /\ 1 .. k \in SUBSET (1 .. n) /\ 1 .. k # {} /\ Max(1 .. k) = k
           /\ (1 .. k) \ {k} = 1 .. (k - 1)
<1>1. k \in Nat /\ 1 .. k \in SUBSET (1 .. k) /\ k \in 1 .. k /\ 1 .. k # {}
  OBVIOUS
<1>2. Max(1 .. k) \in 1 .. k /\ k <= Max(1 .. k)
  BY <1>1, LastOf
<1>3. Max(1 .. k) = k
  BY <1>2
<1>4. (1 .. k) \ {k} = 1 .. (k - 1)
  OBVIOUS
<1> QED BY <1>1, <1>3, <1>4

\* What the fold gives on each set of positions of s.
Table(F, base, s, n, g) ==
    /\ g = [t \in SUBSET (1 .. n) |->
              IF t = {} THEN base ELSE F[<<g[t \ {Max(t)}], s[Max(t)]>>]]

LEMMA TableExists ==
    ASSUME NEW V, NEW X, NEW F \in [V \X X -> V], NEW base \in V, NEW s \in Seq(X)
    PROVE  \E g \in [SUBSET (1 .. Len(s)) -> V] : Table(F, base, s, Len(s), g)
<1> DEFINE Has(k) == \E g \in [SUBSET (1 .. k) -> V] : Table(F, base, s, k, g)
<1> DEFINE T == {k \in Nat : k <= Len(s) => Has(k)}
<1>0. Len(s) \in Nat /\ \A k \in 1 .. Len(s) : s[k] \in X
  OBVIOUS
<1>1. 0 \in T
  <2> DEFINE g == [t \in SUBSET (1 .. 0) |-> base]
  <2>1. g \in [SUBSET (1 .. 0) -> V]
    OBVIOUS
  <2>2. \A t \in SUBSET (1 .. 0) : t = {}
    OBVIOUS
  <2>3. Table(F, base, s, 0, g)
    BY <2>2 DEF Table
  <2> QED BY <2>1, <2>3
<1>2. ASSUME NEW k \in T PROVE k + 1 \in T
  <2> SUFFICES ASSUME k + 1 <= Len(s) PROVE Has(k + 1)
    <3>1. k + 1 \in Nat
      OBVIOUS
    <3> HIDE DEF Has
    <3> QED BY <3>1
  <2>1. k \in Nat /\ k <= Len(s)
    BY <1>0
  <2>2. PICK h \in [SUBSET (1 .. k) -> V] : Table(F, base, s, k, h)
    BY <2>1
  <2> DEFINE m == k + 1
             P == SUBSET (1 .. m)
             g == [t \in P |-> IF m \in t THEN F[<<h[t \ {m}], s[m]>>] ELSE h[t]]
  <2>3. \A t \in P : (m \in t => t \ {m} \in SUBSET (1 .. k)) /\ (m \notin t => t \in SUBSET (1 .. k))
    BY <2>1
  <2>4. \A t \in P : m \in t => Max(t) = m
    <3> SUFFICES ASSUME NEW t \in P, m \in t PROVE Max(t) = m
      OBVIOUS
    <3>1. m \in Nat /\ t \in SUBSET (1 .. m) /\ t # {}
      BY <2>1
    <3>2. Max(t) \in t /\ m <= Max(t)
      <4> HIDE DEF m
      <4> QED BY <3>1, LastOf
    <3>3. Max(t) \in 1 .. m
      <4> HIDE DEF m
      <4> QED BY <3>1, <3>2
    <3> HIDE DEF m
    <3> QED BY <3>1, <3>2, <3>3
  <2>5. m \in 1 .. Len(s) /\ s[m] \in X
    BY <1>0, <2>1
  <2>6. g \in [P -> V]
    <3>1. ASSUME NEW t \in P PROVE (IF m \in t THEN F[<<h[t \ {m}], s[m]>>] ELSE h[t]) \in V
      BY <2>2, <2>3, <2>5
    <3> QED BY <3>1
  <2>7. ASSUME NEW t \in P
        PROVE  g[t] = IF t = {} THEN base ELSE F[<<g[t \ {Max(t)}], s[Max(t)]>>]
    <3>1. CASE m \in t
      <4>1. Max(t) = m /\ t \ {m} \in P /\ m \notin t \ {m}
        BY <2>3, <2>4, <3>1
      <4>2. g[t \ {m}] = h[t \ {m}]
        BY <4>1
      <4> QED BY <3>1, <4>1, <4>2
    <3>2. CASE m \notin t /\ t # {}
      <4>1. t \in SUBSET (1 .. k)
        BY <2>3, <3>2
      <4>2. Max(t) \in t
        BY <2>1, <3>2, <4>1, LastOf
      <4>3. t \ {Max(t)} \in SUBSET (1 .. k) /\ t \ {Max(t)} \in P /\ m \notin t \ {Max(t)}
        BY <3>2, <4>1
      <4>4. g[t \ {Max(t)}] = h[t \ {Max(t)}]
        BY <4>3
      <4>5. h[t] = F[<<h[t \ {Max(t)}], s[Max(t)]>>]
        BY <2>2, <3>2, <4>1 DEF Table
      <4> QED BY <3>2, <4>4, <4>5
    <3>3. CASE t = {}
      <4>1. h[t] = base /\ m \notin t
        BY <2>2, <3>3 DEF Table
      <4> QED BY <3>3, <4>1
    <3> QED BY <3>1, <3>2, <3>3
  <2>8. Table(F, base, s, m, g)
    BY <2>7 DEF Table
  <2> HIDE DEF g
  <2> QED BY <2>6, <2>8
<1>3. T = Nat
  <2> HIDE DEF Has
  <2>1. T \in SUBSET Nat
    OBVIOUS
  <2> HIDE DEF T
  <2> QED BY <1>1, <1>2, <2>1, Induction
<1>4. Len(s) \in T
  <2> HIDE DEF T
  <2> QED BY <1>0, <1>3
<1>5. Has(Len(s))
  <2> HIDE DEF Has
  <2> QED BY <1>0, <1>4
<1> QED BY <1>5

\* The fold of s: what its table gives on all positions.
Folded(F, base, s) == FoldLeft(LAMBDA a, x : F[<<a, x>>], base, s)

\* g goes from one prefix of the positions to the next as F does.
Steps(V, F, base, s, g) ==
    /\ g[1 .. 0] = base
    /\ \A k \in 1 .. Len(s) : g[1 .. (k - 1)] \in V => g[1 .. k] = F[<<g[1 .. (k - 1)], s[k]>>]

LEMMA TableSteps ==
    ASSUME NEW V, NEW F, NEW base, NEW n \in Nat, NEW s, Len(s) = n, NEW g, Table(F, base, s, n, g)
    PROVE  Steps(V, F, base, s, g)
<1>1. \A t \in SUBSET (1 .. n) : g[t] = IF t = {} THEN base ELSE F[<<g[t \ {Max(t)}], s[Max(t)]>>]
  BY DEF Table
<1>2. g[1 .. 0] = base
  <2>1. 1 .. 0 = {} /\ 1 .. 0 \in SUBSET (1 .. n)
    OBVIOUS
  <2> QED BY <1>1, <2>1
<1>3. ASSUME NEW k \in 1 .. n PROVE g[1 .. k] = F[<<g[1 .. (k - 1)], s[k]>>]
  <2>1. 1 .. k \in SUBSET (1 .. n) /\ 1 .. k # {} /\ (1 .. k) \ {k} = 1 .. (k - 1)
    OBVIOUS
  <2>2. Max(1 .. k) = k
    <3>1. Max(1 .. k) \in 1 .. k /\ k <= Max(1 .. k)
      <4>1. k \in Nat /\ 1 .. k \in SUBSET (1 .. k) /\ k \in 1 .. k
        OBVIOUS
      <4> QED BY <2>1, <4>1, LastOf
    <3> QED BY <3>1
  <2> QED BY <1>1, <2>1, <2>2
<1> QED BY <1>2, <1>3 DEF Steps

\* An operation on V, and two sequences with the same first n elements, in X.
Acts(V, X, F, base) == F \in [V \X X -> V] /\ base \in V
Alike(X, n, s, r) ==
    /\ n \in Nat /\ Len(s) \in Nat /\ Len(r) \in Nat /\ n <= Len(s) /\ n <= Len(r)
    /\ \A k \in 1 .. n : s[k] \in X /\ s[k] = r[k]

\* The arguments of a fold: values in V, elements in X.
Foldable(V, X, F, base, s) == F \in [V \X X -> V] /\ base \in V /\ s \in Seq(X)

\* Tables of two such sequences agree on those elements, in V.
LEMMA StepsAgree ==
    ASSUME NEW V, NEW X, NEW F, NEW base, Acts(V, X, F, base),
           NEW n, NEW s, NEW r, Alike(X, n, s, r),
           NEW g, Steps(V, F, base, s, g), NEW h, Steps(V, F, base, r, h)
    PROVE  g[1 .. n] \in V /\ g[1 .. n] = h[1 .. n]
<1>0. /\ F \in [V \X X -> V] /\ base \in V
      /\ n \in Nat /\ Len(s) \in Nat /\ Len(r) \in Nat /\ n <= Len(s) /\ n <= Len(r)
      /\ \A k \in 1 .. n : s[k] \in X /\ s[k] = r[k]
  BY DEF Acts, Alike
<1> DEFINE Agree(k) == g[1 .. k] \in V /\ g[1 .. k] = h[1 .. k]
           T == {k \in Nat : k <= n => Agree(k)}
<1>1. 0 \in T
  BY <1>0 DEF Steps
<1>2. ASSUME NEW k \in T PROVE k + 1 \in T
  <2> SUFFICES ASSUME k + 1 <= n PROVE Agree(k + 1)
    <3>1. k + 1 \in Nat
      OBVIOUS
    <3> HIDE DEF Agree
    <3> QED BY <3>1
  <2>1. k \in Nat /\ k <= n /\ Agree(k)
    <3>1. k \in Nat /\ k <= n
      BY <1>0
    <3> HIDE DEF Agree
    <3> QED BY <3>1
  <2>2. k + 1 \in 1 .. n /\ k + 1 \in 1 .. Len(s) /\ k + 1 \in 1 .. Len(r) /\ (k + 1) - 1 = k
    BY <1>0, <2>1
  <2>3. g[1 .. (k + 1)] = F[<<g[1 .. k], s[k + 1]>>] /\ h[1 .. (k + 1)] = F[<<h[1 .. k], r[k + 1]>>]
    BY <2>1, <2>2 DEF Steps
  <2>4. s[k + 1] \in X /\ s[k + 1] = r[k + 1]
    BY <1>0, <2>2
  <2> QED BY <1>0, <2>1, <2>3, <2>4
<1>3. n \in T
  <2> HIDE DEF Agree
  <2>1. T \in SUBSET Nat
    OBVIOUS
  <2> HIDE DEF T
  <2> QED BY <1>0, <1>1, <1>2, <2>1, Induction
<1> QED BY <1>0, <1>3

LEMMA FoldedTable ==
    ASSUME NEW V, NEW X, NEW F, NEW base, NEW s, Foldable(V, X, F, base, s)
    PROVE  \E g : Steps(V, F, base, s, g) /\ Folded(F, base, s) = g[1 .. Len(s)]
<1> DEFINE g == CHOOSE f : f = [t \in SUBSET DOMAIN s |->
                                  IF t = {} THEN base ELSE F[<<f[t \ {Max(t)}], s[Max(t)]>>]]
<1>1. Folded(F, base, s) = g[DOMAIN s]
  BY DEF Folded, FoldLeft, MapThenFoldSet
<1>2. /\ DOMAIN s = 1 .. Len(s) /\ Len(s) \in Nat
      /\ F \in [V \X X -> V] /\ base \in V /\ s \in Seq(X)
  BY DEF Foldable
<1>3. g = [t \in SUBSET DOMAIN s |-> IF t = {} THEN base ELSE F[<<g[t \ {Max(t)}], s[Max(t)]>>]]
  <2>1. \E f : f = [t \in SUBSET DOMAIN s |-> IF t = {} THEN base ELSE F[<<f[t \ {Max(t)}], s[Max(t)]>>]]
    <3>1. PICK f \in [SUBSET (1 .. Len(s)) -> V] : Table(F, base, s, Len(s), f)
      BY <1>2, TableExists
    <3> QED BY <1>2, <3>1 DEF Table
  <2> QED BY <2>1
<1> HIDE DEF g
<1>4. Table(F, base, s, Len(s), g)
  BY <1>2, <1>3 DEF Table
<1>5. Steps(V, F, base, s, g)
  BY <1>2, <1>4, TableSteps
<1> QED BY <1>1, <1>2, <1>5

\* Whatever steps as F does gives the fold.
LEMMA FoldIs ==
    ASSUME NEW V, NEW X, NEW F, NEW base, NEW s, Foldable(V, X, F, base, s),
           NEW g, Steps(V, F, base, s, g)
    PROVE  Folded(F, base, s) = g[1 .. Len(s)] /\ Folded(F, base, s) \in V
<1>1. PICK h : Steps(V, F, base, s, h) /\ Folded(F, base, s) = h[1 .. Len(s)]
  BY FoldedTable
<1>2. /\ Len(s) \in Nat /\ \A k \in 1 .. Len(s) : s[k] \in X
  BY DEF Foldable
<1>3. Acts(V, X, F, base) /\ Alike(X, Len(s), s, s)
  BY <1>2 DEF Foldable, Acts, Alike
<1>4. g[1 .. Len(s)] \in V /\ g[1 .. Len(s)] = h[1 .. Len(s)]
  BY <1>1, <1>3, StepsAgree
<1> QED BY <1>1, <1>4

LEMMA FoldedRuns ==
    ASSUME NEW V, NEW X, NEW F, NEW base, NEW s, Foldable(V, X, F, base, s)
    PROVE  /\ Folded(F, base, <<>>) = base
           /\ Folded(F, base, s) \in V
           /\ \A x \in X : Folded(F, base, Append(s, x)) = F[<<Folded(F, base, s), x>>]
<1>1. Folded(F, base, s) \in V
  BY FoldedTable, FoldIs
<1>2. Folded(F, base, <<>>) = base
  <2>1. Foldable(V, X, F, base, <<>>) /\ Len(<<>>) = 0
    BY DEF Foldable
  <2>2. PICK g : Steps(V, F, base, <<>>, g) /\ Folded(F, base, <<>>) = g[1 .. 0]
    BY <2>1, FoldedTable
  <2> QED BY <2>2 DEF Steps
<1>3. ASSUME NEW x \in X PROVE Folded(F, base, Append(s, x)) = F[<<Folded(F, base, s), x>>]
  <2> DEFINE r == Append(s, x)
             n == Len(s)
  <2>1. /\ r \in Seq(X) /\ Len(r) = n + 1 /\ n \in Nat
        /\ r[n + 1] = x /\ \A k \in 1 .. n : s[k] \in X /\ s[k] = r[k]
        /\ Foldable(V, X, F, base, r) /\ Acts(V, X, F, base)
    BY DEF Foldable, Acts
  <2> HIDE DEF r, n
  <2>2. PICK g : Steps(V, F, base, s, g) /\ Folded(F, base, s) = g[1 .. n]
    BY FoldedTable DEF n
  <2>3. PICK h : Steps(V, F, base, r, h) /\ Folded(F, base, r) = h[1 .. (n + 1)]
    BY <2>1, FoldedTable
  <2>4. Alike(X, n, s, r)
    BY <2>1 DEF n, Alike
  <2>5. g[1 .. n] \in V /\ g[1 .. n] = h[1 .. n]
    BY <2>1, <2>2, <2>3, <2>4, StepsAgree
  <2>6. n + 1 \in 1 .. Len(r) /\ (n + 1) - 1 = n
    BY <2>1
  <2>7. h[1 .. (n + 1)] = F[<<h[1 .. n], r[n + 1]>>]
    BY <2>3, <2>5, <2>6 DEF Steps
  <2> QED BY <2>1, <2>2, <2>3, <2>5, <2>7 DEF r
<1> QED BY <1>1, <1>2, <1>3

-----------------------------------------------------------------------------
(* The passes as folds.                                                     *)

\* Decompose as a fold.
LEMMA DecomposeFold ==
    ASSUME NEW V, NEW X, <<>> \in V, \A a \in V, x \in X : (a \o decompose_into(x)) \in V,
           NEW s \in Seq(X)
    PROVE  /\ Decompose(<<>>) = <<>>
           /\ Decompose(s) \in V
           /\ \A x \in X : Decompose(Append(s, x)) = (Decompose(s) \o decompose_into(x))
<1> DEFINE F == [p \in V \X X |-> (p[1] \o decompose_into(p[2]))]
<1>1. F \in [V \X X -> V] /\ \A a \in V, x \in X : F[<<a, x>>] = (a \o decompose_into(x))
  OBVIOUS
<1> HIDE DEF F
<1>2. ASSUME NEW r \in Seq(X) PROVE Decompose(r) = Folded(F, <<>>, r)
  <2> DEFINE g == CHOOSE f : f = [t \in SUBSET DOMAIN r |->
                                    IF t = {} THEN <<>> ELSE (f[t \ {Max(t)}] \o decompose_into(r[Max(t)]))]
  <2>1. Decompose(r) = g[DOMAIN r]
    BY DEF Decompose, FoldLeft, MapThenFoldSet
  <2>2. DOMAIN r = 1 .. Len(r) /\ Len(r) \in Nat /\ \A k \in 1 .. Len(r) : r[k] \in X
    OBVIOUS
  <2>3. g = [t \in SUBSET DOMAIN r |-> IF t = {} THEN <<>> ELSE (g[t \ {Max(t)}] \o decompose_into(r[Max(t)]))]
    <3>1. PICK f \in [SUBSET (1 .. Len(r)) -> V] : Table(F, <<>>, r, Len(r), f)
      BY <1>1, TableExists
    <3>2. \A t \in SUBSET (1 .. Len(r)) :
            t # {} => Max(t) \in 1 .. Len(r) /\ t \ {Max(t)} \in SUBSET (1 .. Len(r))
      BY <2>2, LastOf
    <3>3. f = [t \in SUBSET DOMAIN r |-> IF t = {} THEN <<>> ELSE (f[t \ {Max(t)}] \o decompose_into(r[Max(t)]))]
      BY <1>1, <2>2, <3>1, <3>2 DEF Table
    <3> QED BY <3>3
  <2> HIDE DEF g
  <2>4. Steps(V, F, <<>>, r, g)
    <3>1. g[1 .. 0] = <<>>
      <4>1. 1 .. 0 = {} /\ {} \in SUBSET DOMAIN r
        OBVIOUS
      <4> QED BY <2>3, <4>1
    <3>2. ASSUME NEW k \in 1 .. Len(r)
          PROVE  g[1 .. k] = (g[1 .. (k - 1)] \o decompose_into(r[k]))
      <4>1. /\ 1 .. k \in SUBSET DOMAIN r /\ 1 .. k # {} /\ Max(1 .. k) = k
            /\ (1 .. k) \ {k} = 1 .. (k - 1)
        BY <2>2, UpTo
      <4> QED BY <2>3, <4>1
    <3> QED BY <1>1, <2>2, <3>1, <3>2 DEF Steps
  <2>5. Foldable(V, X, F, <<>>, r)
    BY <1>1 DEF Foldable
  <2> QED BY <2>1, <2>2, <2>4, <2>5, FoldIs
<1>3. Foldable(V, X, F, <<>>, s) /\ <<>> \in Seq(X) /\ \A x \in X : Append(s, x) \in Seq(X)
  BY <1>1 DEF Foldable
<1>4. /\ Folded(F, <<>>, <<>>) = <<>> /\ Folded(F, <<>>, s) \in V
      /\ \A x \in X : Folded(F, <<>>, Append(s, x)) = F[<<Folded(F, <<>>, s), x>>]
  BY <1>3, FoldedRuns
<1> QED BY <1>1, <1>2, <1>3, <1>4

\* One mark or starter met by canonical_order, and what it has done.
ScanStep(st, cp) ==
    IF combining_class(cp) = 0
    THEN [done |-> Append(st.done \o SortRun(st.run), cp), run |-> <<>>]
    ELSE [st EXCEPT !.run = Append(@, cp)]
Unscanned == [done |-> <<>>, run |-> <<>>]
Scanned(v) == FoldLeft(ScanStep, Unscanned, v)

LEMMA CanonicalOrderIs ==
    ASSUME NEW v
    PROVE  canonical_order(v) = Scanned(v).done \o SortRun(Scanned(v).run)
<1>1. Scanned(v) = FoldLeft(LAMBDA st, cp : IF combining_class(cp) = 0
            THEN [done |-> Append(st.done \o SortRun(st.run), cp), run |-> <<>>]
            ELSE [st EXCEPT !.run = Append(@, cp)], [done |-> <<>>, run |-> <<>>], v)
  BY DEF Scanned, Unscanned, ScanStep
<1> QED BY <1>1 DEF canonical_order

\* canonical_order as a fold.
LEMMA ScanFold ==
    ASSUME NEW V, NEW X, Unscanned \in V, \A a \in V, x \in X : ScanStep(a, x) \in V,
           NEW s \in Seq(X)
    PROVE  /\ Scanned(<<>>) = Unscanned
           /\ Scanned(s) \in V
           /\ \A x \in X : Scanned(Append(s, x)) = ScanStep(Scanned(s), x)
<1> DEFINE F == [p \in V \X X |-> ScanStep(p[1], p[2])]
<1>1. F \in [V \X X -> V] /\ \A a \in V, x \in X : F[<<a, x>>] = ScanStep(a, x)
  OBVIOUS
<1> HIDE DEF F
<1>2. ASSUME NEW r \in Seq(X) PROVE Scanned(r) = Folded(F, Unscanned, r)
  <2> DEFINE g == CHOOSE f : f = [t \in SUBSET DOMAIN r |->
                                    IF t = {} THEN Unscanned ELSE ScanStep(f[t \ {Max(t)}], r[Max(t)])]
  <2>1. Scanned(r) = g[DOMAIN r]
    BY DEF Scanned, FoldLeft, MapThenFoldSet
  <2>2. DOMAIN r = 1 .. Len(r) /\ Len(r) \in Nat /\ \A k \in 1 .. Len(r) : r[k] \in X
    OBVIOUS
  <2>3. g = [t \in SUBSET DOMAIN r |-> IF t = {} THEN Unscanned ELSE ScanStep(g[t \ {Max(t)}], r[Max(t)])]
    <3>1. PICK f \in [SUBSET (1 .. Len(r)) -> V] : Table(F, Unscanned, r, Len(r), f)
      BY <1>1, TableExists
    <3>2. \A t \in SUBSET (1 .. Len(r)) :
            t # {} => Max(t) \in 1 .. Len(r) /\ t \ {Max(t)} \in SUBSET (1 .. Len(r))
      BY <2>2, LastOf
    <3>3. f = [t \in SUBSET DOMAIN r |-> IF t = {} THEN Unscanned ELSE ScanStep(f[t \ {Max(t)}], r[Max(t)])]
      BY <1>1, <2>2, <3>1, <3>2 DEF Table
    <3> QED BY <3>3
  <2> HIDE DEF g
  <2>4. Steps(V, F, Unscanned, r, g)
    <3>1. g[1 .. 0] = Unscanned
      <4>1. 1 .. 0 = {} /\ {} \in SUBSET DOMAIN r
        OBVIOUS
      <4> QED BY <2>3, <4>1
    <3>2. ASSUME NEW k \in 1 .. Len(r)
          PROVE  g[1 .. k] = ScanStep(g[1 .. (k - 1)], r[k])
      <4>1. /\ 1 .. k \in SUBSET DOMAIN r /\ 1 .. k # {} /\ Max(1 .. k) = k
            /\ (1 .. k) \ {k} = 1 .. (k - 1)
        BY <2>2, UpTo
      <4> QED BY <2>3, <4>1
    <3> QED BY <1>1, <2>2, <3>1, <3>2 DEF Steps
  <2>5. Foldable(V, X, F, Unscanned, r)
    BY <1>1 DEF Foldable
  <2> QED BY <2>1, <2>2, <2>4, <2>5, FoldIs
<1>3. Foldable(V, X, F, Unscanned, s) /\ <<>> \in Seq(X) /\ \A x \in X : Append(s, x) \in Seq(X)
  BY <1>1 DEF Foldable
<1>4. /\ Folded(F, Unscanned, <<>>) = Unscanned /\ Folded(F, Unscanned, s) \in V
      /\ \A x \in X : Folded(F, Unscanned, Append(s, x)) = F[<<Folded(F, Unscanned, s), x>>]
  BY <1>3, FoldedRuns
<1> QED BY <1>1, <1>2, <1>3, <1>4

\* The state of compose over a prefix.
Uncomposed == [out |-> <<>>, starter |-> 0, last_cc |-> 0]
Composing(d) == FoldLeft(ComposeStep, Uncomposed, d)

\* compose as a fold.
LEMMA ComposeFold ==
    ASSUME NEW V, NEW X, Uncomposed \in V, \A a \in V, x \in X : ComposeStep(a, x) \in V,
           NEW s \in Seq(X)
    PROVE  /\ Composing(<<>>) = Uncomposed
           /\ Composing(s) \in V
           /\ \A x \in X : Composing(Append(s, x)) = ComposeStep(Composing(s), x)
<1> DEFINE F == [p \in V \X X |-> ComposeStep(p[1], p[2])]
<1>1. F \in [V \X X -> V] /\ \A a \in V, x \in X : F[<<a, x>>] = ComposeStep(a, x)
  OBVIOUS
<1> HIDE DEF F
<1>2. ASSUME NEW r \in Seq(X) PROVE Composing(r) = Folded(F, Uncomposed, r)
  <2> DEFINE g == CHOOSE f : f = [t \in SUBSET DOMAIN r |->
                                    IF t = {} THEN Uncomposed ELSE ComposeStep(f[t \ {Max(t)}], r[Max(t)])]
  <2>1. Composing(r) = g[DOMAIN r]
    BY DEF Composing, FoldLeft, MapThenFoldSet
  <2>2. DOMAIN r = 1 .. Len(r) /\ Len(r) \in Nat /\ \A k \in 1 .. Len(r) : r[k] \in X
    OBVIOUS
  <2>3. g = [t \in SUBSET DOMAIN r |-> IF t = {} THEN Uncomposed ELSE ComposeStep(g[t \ {Max(t)}], r[Max(t)])]
    <3>1. PICK f \in [SUBSET (1 .. Len(r)) -> V] : Table(F, Uncomposed, r, Len(r), f)
      BY <1>1, TableExists
    <3>2. \A t \in SUBSET (1 .. Len(r)) :
            t # {} => Max(t) \in 1 .. Len(r) /\ t \ {Max(t)} \in SUBSET (1 .. Len(r))
      BY <2>2, LastOf
    <3>3. f = [t \in SUBSET DOMAIN r |-> IF t = {} THEN Uncomposed ELSE ComposeStep(f[t \ {Max(t)}], r[Max(t)])]
      BY <1>1, <2>2, <3>1, <3>2 DEF Table
    <3> QED BY <3>3
  <2> HIDE DEF g
  <2>4. Steps(V, F, Uncomposed, r, g)
    <3>1. g[1 .. 0] = Uncomposed
      <4>1. 1 .. 0 = {} /\ {} \in SUBSET DOMAIN r
        OBVIOUS
      <4> QED BY <2>3, <4>1
    <3>2. ASSUME NEW k \in 1 .. Len(r)
          PROVE  g[1 .. k] = ComposeStep(g[1 .. (k - 1)], r[k])
      <4>1. /\ 1 .. k \in SUBSET DOMAIN r /\ 1 .. k # {} /\ Max(1 .. k) = k
            /\ (1 .. k) \ {k} = 1 .. (k - 1)
        BY <2>2, UpTo
      <4> QED BY <2>3, <4>1
    <3> QED BY <1>1, <2>2, <3>1, <3>2 DEF Steps
  <2>5. Foldable(V, X, F, Uncomposed, r)
    BY <1>1 DEF Foldable
  <2> QED BY <2>1, <2>2, <2>4, <2>5, FoldIs
<1>3. Foldable(V, X, F, Uncomposed, s) /\ <<>> \in Seq(X) /\ \A x \in X : Append(s, x) \in Seq(X)
  BY <1>1 DEF Foldable
<1>4. /\ Folded(F, Uncomposed, <<>>) = Uncomposed /\ Folded(F, Uncomposed, s) \in V
      /\ \A x \in X : Folded(F, Uncomposed, Append(s, x)) = F[<<Folded(F, Uncomposed, s), x>>]
  BY <1>3, FoldedRuns
<1> QED BY <1>1, <1>2, <1>3, <1>4

\* insertion_sort over the marks already placed.
InsertMark(sorted, m) == InsertAt(sorted, Place(sorted, m.cc) + 1, m)
Inserted(ms) == FoldLeft(InsertMark, <<>>, ms)

\* insertion_sort as a fold.
LEMMA InsertFold ==
    ASSUME NEW V, NEW X, <<>> \in V, \A a \in V, x \in X : InsertMark(a, x) \in V,
           NEW s \in Seq(X)
    PROVE  /\ Inserted(<<>>) = <<>>
           /\ Inserted(s) \in V
           /\ \A x \in X : Inserted(Append(s, x)) = InsertMark(Inserted(s), x)
<1> DEFINE F == [p \in V \X X |-> InsertMark(p[1], p[2])]
<1>1. F \in [V \X X -> V] /\ \A a \in V, x \in X : F[<<a, x>>] = InsertMark(a, x)
  OBVIOUS
<1> HIDE DEF F
<1>2. ASSUME NEW r \in Seq(X) PROVE Inserted(r) = Folded(F, <<>>, r)
  <2> DEFINE g == CHOOSE f : f = [t \in SUBSET DOMAIN r |->
                                    IF t = {} THEN <<>> ELSE InsertMark(f[t \ {Max(t)}], r[Max(t)])]
  <2>1. Inserted(r) = g[DOMAIN r]
    BY DEF Inserted, FoldLeft, MapThenFoldSet
  <2>2. DOMAIN r = 1 .. Len(r) /\ Len(r) \in Nat /\ \A k \in 1 .. Len(r) : r[k] \in X
    OBVIOUS
  <2>3. g = [t \in SUBSET DOMAIN r |-> IF t = {} THEN <<>> ELSE InsertMark(g[t \ {Max(t)}], r[Max(t)])]
    <3>1. PICK f \in [SUBSET (1 .. Len(r)) -> V] : Table(F, <<>>, r, Len(r), f)
      BY <1>1, TableExists
    <3>2. \A t \in SUBSET (1 .. Len(r)) :
            t # {} => Max(t) \in 1 .. Len(r) /\ t \ {Max(t)} \in SUBSET (1 .. Len(r))
      BY <2>2, LastOf
    <3>3. f = [t \in SUBSET DOMAIN r |-> IF t = {} THEN <<>> ELSE InsertMark(f[t \ {Max(t)}], r[Max(t)])]
      BY <1>1, <2>2, <3>1, <3>2 DEF Table
    <3> QED BY <3>3
  <2> HIDE DEF g
  <2>4. Steps(V, F, <<>>, r, g)
    <3>1. g[1 .. 0] = <<>>
      <4>1. 1 .. 0 = {} /\ {} \in SUBSET DOMAIN r
        OBVIOUS
      <4> QED BY <2>3, <4>1
    <3>2. ASSUME NEW k \in 1 .. Len(r)
          PROVE  g[1 .. k] = InsertMark(g[1 .. (k - 1)], r[k])
      <4>1. /\ 1 .. k \in SUBSET DOMAIN r /\ 1 .. k # {} /\ Max(1 .. k) = k
            /\ (1 .. k) \ {k} = 1 .. (k - 1)
        BY <2>2, UpTo
      <4> QED BY <2>3, <4>1
    <3> QED BY <1>1, <2>2, <3>1, <3>2 DEF Steps
  <2>5. Foldable(V, X, F, <<>>, r)
    BY <1>1 DEF Foldable
  <2> QED BY <2>1, <2>2, <2>4, <2>5, FoldIs
<1>3. Foldable(V, X, F, <<>>, s) /\ <<>> \in Seq(X) /\ \A x \in X : Append(s, x) \in Seq(X)
  BY <1>1 DEF Foldable
<1>4. /\ Folded(F, <<>>, <<>>) = <<>> /\ Folded(F, <<>>, s) \in V
      /\ \A x \in X : Folded(F, <<>>, Append(s, x)) = F[<<Folded(F, <<>>, s), x>>]
  BY <1>3, FoldedRuns
<1> QED BY <1>1, <1>2, <1>3, <1>4

-----------------------------------------------------------------------------
(* The two sorts of a run of marks.                                         *)

\* The greatest of a set of positions, 0 if there is none.
LEMMA LastOrZero ==
    ASSUME NEW n \in Nat, NEW t \in SUBSET (1 .. n)
    PROVE  /\ Max({0} \cup t) \in 0 .. n
           /\ Max({0} \cup t) # 0 => Max({0} \cup t) \in t
           /\ \A k \in t : k <= Max({0} \cup t)
<1>1. CASE t = {}
  <2>1. {0} \cup t = {0} /\ 0 \in Nat
    BY <1>1
  <2>2. Max({0}) = 0
    BY DEF Max
  <2> QED BY <1>1, <2>1, <2>2
<1>2. CASE t # {}
  <2>1. Max(t) \in t /\ \A k \in t : k <= Max(t)
    BY <1>2, LastOf
  <2> DEFINE m == Max(t)
             W == {0} \cup t
  <2>2. m \in W /\ \A k \in W : m >= k
    <3>1. m \in t
      BY <2>1
    <3>2. m \in Nat
      <4> HIDE DEF m
      <4> QED BY <3>1
    <3> QED BY <2>1, <3>2
  <2>3. Max(W) \in W /\ \A k \in W : Max(W) >= k
    <3> HIDE DEF W, m
    <3> QED BY <2>2 DEF Max
  <2>4. W \subseteq 0 .. n /\ \A k \in W : k = 0 \/ k \in t
    OBVIOUS
  <2>5. /\ Max(W) \in 0 .. n
        /\ Max(W) # 0 => Max(W) \in t
        /\ \A k \in t : k <= Max(W)
    <3>1. \A k \in t : k \in W /\ k \in Nat
      OBVIOUS
    <3> HIDE DEF W
    <3> QED BY <2>3, <2>4, <3>1
  <2> QED BY <2>5
<1> QED BY <1>1, <1>2

LEMMA ClassType ==
    ASSUME NEW cp
    PROVE  combining_class(cp) \in Nat
BY AsciiAssumption DEF combining_class, Lookup

LEMMA InsertionType ==
    ASSUME NEW S, NEW run \in Seq(S), S # {}
    PROVE  insertion_sort(run) \in Seq(S)
<1> DEFINE X == [cp : S, cc : Nat]
<1>1. Classed(run) \in Seq(X)
  <2>1. \A k \in DOMAIN run : run[k] \in S /\ combining_class(run[k]) \in Nat
    BY ClassType
  <2>2. DOMAIN run = 1 .. Len(run) /\ Len(run) \in Nat
    OBVIOUS
  <2>3. Classed(run) \in [1 .. Len(run) -> X]
    <3>1. ASSUME NEW k \in DOMAIN run
          PROVE  [cp |-> run[k], cc |-> IF k <= kShortRun THEN combining_class(run[k]) ELSE 0] \in X
      BY <2>1
    <3> QED BY <2>2, <3>1 DEF Classed
  <2> HIDE DEF X
  <2> QED BY <2>2, <2>3
<1>2. ASSUME NEW a \in Seq(X), NEW x \in X PROVE InsertMark(a, x) \in Seq(X)
  <2> DEFINE t == {j \in DOMAIN a : a[j].cc <= x.cc}
             p == Max({0} \cup t)
  <2>1. p \in 0 .. Len(a)
    <3>1. t \in SUBSET (1 .. Len(a)) /\ Len(a) \in Nat
      OBVIOUS
    <3> HIDE DEF t
    <3> QED BY <3>1, LastOrZero
  <2>2. Place(a, x.cc) = p
    BY DEF Place
  <2> HIDE DEF p
  <2>3. SubSeq(a, 1, p) \in Seq(X) /\ SubSeq(a, p + 1, Len(a)) \in Seq(X)
    <3>1. a \in Seq(X) /\ p \in Nat /\ p <= Len(a) /\ Len(a) \in Nat
      BY <2>1
    <3> HIDE DEF X
    <3> QED BY <3>1
  <2>4. (p + 1) - 1 = p
    BY <2>1
  <2> QED BY <2>2, <2>3, <2>4 DEF InsertMark, InsertAt
<1>3. Inserted(Classed(run)) \in Seq(X)
  <2>1. <<>> \in Seq(X)
    OBVIOUS
  <2> HIDE DEF X
  <2> QED BY <1>1, <1>2, <2>1, InsertFold
<1>4. insertion_sort(run) = [k \in DOMAIN Inserted(Classed(run)) |-> Inserted(Classed(run))[k].cp]
  BY DEF insertion_sort, Inserted, InsertMark
<1>5. \A w \in Seq(X) : [k \in DOMAIN w |-> w[k].cp] \in Seq(S)
  <2> SUFFICES ASSUME NEW w \in Seq(X) PROVE [k \in DOMAIN w |-> w[k].cp] \in Seq(S)
    OBVIOUS
  <2>1. DOMAIN w = 1 .. Len(w) /\ Len(w) \in Nat /\ \A k \in 1 .. Len(w) : w[k] \in X
    <3> HIDE DEF X
    <3> QED OBVIOUS
  <2>2. \A k \in 1 .. Len(w) : w[k].cp \in S
    BY <2>1
  <2> QED BY <2>1, <2>2
<1> QED BY <1>3, <1>4, <1>5

\* The slots come in the order of the classes, and of the positions in a class.
Before(run, k, j) ==
    \/ combining_class(run[k]) < combining_class(run[j])
    \/ combining_class(run[k]) = combining_class(run[j]) /\ k < j

LEMMA SlotOrder ==
    ASSUME NEW run, NEW n \in Nat, DOMAIN run = 1 .. n, NEW k \in 1 .. n
    PROVE  /\ Slot(run, k) \in 1 .. n
           /\ \A j \in 1 .. n : Before(run, k, j) => Slot(run, k) < Slot(run, j)
<1> DEFINE cc(i) == combining_class(run[i])
           L(i) == {j \in 1 .. n : cc(j) < cc(i)}
           E(i) == {j \in 1 .. i : cc(j) = cc(i)}
<1>0. \A i \in 1 .. n : cc(i) \in Nat
  BY ClassType
<1>1. IsFiniteSet(1 .. n) /\ Cardinality(1 .. n) = n
  BY FS_Interval
<1>2. ASSUME NEW i \in 1 .. n
      PROVE  /\ IsFiniteSet(L(i)) /\ IsFiniteSet(E(i)) /\ IsFiniteSet(L(i) \cup E(i))
             /\ L(i) \cup E(i) \in SUBSET (1 .. n) /\ i \in E(i)
             /\ Slot(run, i) = Cardinality(L(i) \cup E(i))
             /\ Slot(run, i) \in Nat
  <2>1. L(i) \in SUBSET (1 .. n) /\ E(i) \in SUBSET (1 .. n) /\ L(i) \cup E(i) \in SUBSET (1 .. n)
    OBVIOUS
  <2>2. i \in E(i)
    BY <1>0
  <2>3. L(i) \cap E(i) = {}
    BY <1>0, <2>1
  <2>4. Slot(run, i) = Cardinality(L(i)) + Cardinality(E(i))
    BY DEF Slot
  <2> HIDE DEF L, E
  <2>5. IsFiniteSet(L(i)) /\ IsFiniteSet(E(i))
    BY <1>1, <2>1, FS_Subset
  <2>6. /\ Cardinality(L(i)) \in Nat /\ Cardinality(E(i)) \in Nat
        /\ Cardinality(L(i) \cap E(i)) = 0
    BY <2>3, <2>5, FS_CardinalityType, FS_EmptySet
  <2>7. /\ IsFiniteSet(L(i) \cup E(i))
        /\ Cardinality(L(i) \cup E(i)) = Cardinality(L(i)) + Cardinality(E(i)) - Cardinality(L(i) \cap E(i))
    BY <2>5, FS_Union
  <2> QED BY <2>1, <2>2, <2>4, <2>5, <2>6, <2>7
<1>3. Slot(run, k) \in 1 .. n
  <2> HIDE DEF L, E
  <2>1. Slot(run, k) <= n /\ Slot(run, k) \in Nat
    <3> DEFINE W == L(k) \cup E(k)
    <3>1. W \in SUBSET (1 .. n) /\ Slot(run, k) = Cardinality(W)
      BY <1>2
    <3> HIDE DEF W
    <3>2. IsFiniteSet(W) /\ Cardinality(W) <= Cardinality(1 .. n)
      BY <1>1, <3>1, FS_Subset
    <3>3. Cardinality(W) \in Nat
      BY <3>2, FS_CardinalityType
    <3> QED BY <1>1, <3>1, <3>2, <3>3
  <2>2. Slot(run, k) # 0
    <3>1. L(k) \cup E(k) # {}
      BY <1>2
    <3> QED BY <1>2, <3>1, FS_EmptySet
  <2> QED BY <2>1, <2>2
<1>4. ASSUME NEW j \in 1 .. n, Before(run, k, j) PROVE Slot(run, k) < Slot(run, j)
  <2>1. L(k) \cup E(k) \in SUBSET (L(j) \cup E(j))
    BY <1>0, <1>4 DEF Before
  <2>2. j \in L(j) \cup E(j) /\ j \notin L(k) \cup E(k)
    BY <1>0, <1>4 DEF Before
  <2> HIDE DEF L, E
  <2>3. Cardinality(L(k) \cup E(k)) <= Cardinality(L(j) \cup E(j))
        /\ Cardinality(L(k) \cup E(k)) # Cardinality(L(j) \cup E(j))
    BY <1>2, <2>1, <2>2, FS_Subset
  <2>4. Slot(run, k) = Cardinality(L(k) \cup E(k)) /\ Slot(run, k) \in Nat
    BY <1>2
  <2>5. Slot(run, j) = Cardinality(L(j) \cup E(j)) /\ Slot(run, j) \in Nat
    BY <1>2
  <2> QED BY <2>3, <2>4, <2>5
<1> QED BY <1>3, <1>4

\* Every position of the answer is the slot of one mark.
LEMMA SlotTaken ==
    ASSUME NEW run, NEW n \in Nat, DOMAIN run = 1 .. n, NEW p \in 1 .. n
    PROVE  \E k \in 1 .. n : Slot(run, k) = p
<1> SUFFICES ASSUME \A k \in 1 .. n : Slot(run, k) # p PROVE FALSE
  OBVIOUS
<1> DEFINE f == [k \in 1 .. n |-> Slot(run, k)]
<1>1. f \in [1 .. n -> (1 .. n) \ {p}]
  BY SlotOrder
<1>2. /\ IsFiniteSet(1 .. n) /\ Cardinality(1 .. n) = n
      /\ IsFiniteSet((1 .. n) \ {p}) /\ Cardinality((1 .. n) \ {p}) = n - 1
  <2>1. IsFiniteSet(1 .. n) /\ Cardinality(1 .. n) = n
    BY FS_Interval
  <2> QED BY <2>1, FS_RemoveElement
<1>3. PICK x, y \in 1 .. n : x # y /\ f[x] = f[y]
  <2>1. Cardinality((1 .. n) \ {p}) < Cardinality(1 .. n)
    BY <1>2
  <2> HIDE DEF f
  <2> QED BY <1>1, <1>2, <2>1, FS_PigeonHole
<1>4. combining_class(run[x]) \in Nat /\ combining_class(run[y]) \in Nat
  BY ClassType
<1>5. Before(run, x, y) \/ Before(run, y, x)
  BY <1>3, <1>4 DEF Before
<1>6. Slot(run, x) \in 1 .. n /\ Slot(run, y) \in 1 .. n
  BY SlotOrder
<1>7. CASE Before(run, x, y)
  <2>1. Slot(run, x) < Slot(run, y)
    BY <1>7, SlotOrder
  <2> QED BY <1>3, <1>6, <2>1
<1>8. CASE Before(run, y, x)
  <2>1. Slot(run, y) < Slot(run, x)
    BY <1>8, SlotOrder
  <2> QED BY <1>3, <1>6, <2>1
<1> QED BY <1>5, <1>7, <1>8

LEMMA CountingType ==
    ASSUME NEW S, NEW run \in Seq(S)
    PROVE  counting_sort(run) \in Seq(S)
<1>1. DOMAIN run = 1 .. Len(run) /\ Len(run) \in Nat /\ \A k \in 1 .. Len(run) : run[k] \in S
  OBVIOUS
<1>2. ASSUME NEW p \in 1 .. Len(run)
      PROVE  run[CHOOSE k \in DOMAIN run : Slot(run, k) = p] \in S
  <2>1. \E k \in DOMAIN run : Slot(run, k) = p
    <3>1. \A n \in Nat : DOMAIN run = 1 .. n => \A q \in 1 .. n : \E k \in 1 .. n : Slot(run, k) = q
      BY SlotTaken
    <3> QED BY <1>1, <3>1
  <2> QED BY <1>1, <2>1
<1>3. counting_sort(run) \in [1 .. Len(run) -> S]
  <2>1. counting_sort(run) = [p \in 1 .. Len(run) |-> run[CHOOSE k \in DOMAIN run : Slot(run, k) = p]]
    BY <1>1 DEF counting_sort
  <2> QED BY <1>2, <2>1
<1> QED BY <1>1, <1>3

LEMMA SortType ==
    ASSUME NEW S, S # {}, NEW run \in Seq(S)
    PROVE  SortRun(run) \in Seq(S)
BY InsertionType, CountingType DEF SortRun

LEMMA SortEmpty == SortRun(<<>>) = <<>>
<1>1. 2 .. Len(<<>>) = {}
  OBVIOUS
<1> QED BY <1>1 DEF SortRun, InOrder

-----------------------------------------------------------------------------
(* What the passes leave a text made of, and the full stop.                  *)

LEMMA DecomposeIntoType ==
    /\ \A c \in Nat : decompose_into(c) \in Seq(Nat)
    /\ \A c \in Settled : decompose_into(c) \in Seq(Lower)
<1>1. ASSUME NEW c \in Nat, is_hangul_syllable(c) PROVE decompose_into(c) \in Seq(Lower) /\ decompose_into(c) \in Seq(Nat)
  <2> DEFINE s == c - SBase
             a == LBase + s \div NCount
             b == VBase + (s % NCount) \div TCount
             t == s % TCount
  <2>1. s \in Nat /\ NCount = 588 /\ TCount = 28
    BY <1>1, SMT DEF is_hangul_syllable, NCount, TCount, VCount, SBase
  <2>2. a \in Nat /\ a >= 4352 /\ b \in Nat /\ b >= 4449 /\ t \in Nat /\ TBase + t \in Nat /\ TBase + t >= 4519
    <3> HIDE DEF s
    <3>1. s \div NCount \in Nat /\ s % NCount \in Nat /\ s % TCount \in Nat
      BY <2>1, SMT
    <3>2. (s % NCount) \div TCount \in Nat
      BY <2>1, <3>1, SMT
    <3> QED BY <3>1, <3>2, SMT DEF LBase, VBase, TBase
  <2>3. decompose_into(c) = <<a, b>> \o (IF t = 0 THEN <<>> ELSE <<TBase + t>>)
    BY <1>1 DEF decompose_into
  <2> HIDE DEF a, b, t
  <2>4. a \in Lower /\ b \in Lower /\ TBase + t \in Lower
    BY <2>2, SMT DEF Lower
  <2>5. <<a, b>> \in Seq(Lower) /\ <<TBase + t>> \in Seq(Lower) /\ <<>> \in Seq(Lower)
    BY <2>4
  <2>6. decompose_into(c) \in Seq(Lower)
    BY <2>3, <2>5
  <2>7. Lower \subseteq Nat
    BY DEF Lower
  <2>8. Seq(Lower) \subseteq Seq(Nat)
    <3> SUFFICES ASSUME NEW w \in Seq(Lower) PROVE w \in Seq(Nat)
      OBVIOUS
    <3>1. w \in [1 .. Len(w) -> Lower] /\ Len(w) \in Nat
      OBVIOUS
    <3>2. w \in [1 .. Len(w) -> Nat]
      BY <2>7, <3>1
    <3> QED BY <3>1, <3>2
  <2> QED BY <2>6, <2>8
<1>2. ASSUME NEW c \in Nat, ~ is_hangul_syllable(c) PROVE decompose_into(c) = canonical_decomposition(c)
  BY <1>2 DEF decompose_into
<1>3. \A c \in Nat : canonical_decomposition(c) \in Seq(Nat)
  BY AsciiAssumption DEF canonical_decomposition, Lookup
<1>4. \A c \in Settled : c \in Nat /\ canonical_decomposition(c) \in Seq(Lower)
  BY DEF Settled, Lower
<1> QED BY <1>1, <1>2, <1>3, <1>4

LEMMA DecomposeType ==
    /\ \A s \in Seq(Nat) : Decompose(s) \in Seq(Nat)
    /\ \A s \in Seq(Settled) : Decompose(s) \in Seq(Lower)
<1>1. ASSUME NEW s \in Seq(Nat) PROVE Decompose(s) \in Seq(Nat)
  <2>1. <<>> \in Seq(Nat) /\ \A a \in Seq(Nat), x \in Nat : a \o decompose_into(x) \in Seq(Nat)
    BY DecomposeIntoType
  <2> QED BY <2>1, DecomposeFold
<1>2. ASSUME NEW s \in Seq(Settled) PROVE Decompose(s) \in Seq(Lower)
  <2>1. <<>> \in Seq(Lower) /\ \A a \in Seq(Lower), x \in Settled : a \o decompose_into(x) \in Seq(Lower)
    BY DecomposeIntoType
  <2> QED BY <2>1, DecomposeFold
<1> QED BY <1>1, <1>2

Scans(S) == [done : Seq(S), run : Seq(S)]

LEMMA ScanStepType ==
    ASSUME NEW S, S # {}
    PROVE  Unscanned \in Scans(S) /\ \A st \in Scans(S), x \in S : ScanStep(st, x) \in Scans(S)
<1>1. Unscanned \in Scans(S)
  BY DEF Unscanned, Scans
<1>2. ASSUME NEW st \in Scans(S), NEW x \in S PROVE ScanStep(st, x) \in Scans(S)
  <2>1. st.done \in Seq(S) /\ st.run \in Seq(S)
    BY DEF Scans
  <2>2. SortRun(st.run) \in Seq(S)
    BY <2>1, SortType
  <2>3. Append(st.done \o SortRun(st.run), x) \in Seq(S) /\ Append(st.run, x) \in Seq(S)
    BY <2>1, <2>2
  <2>4. ScanStep(st, x) \in {[done |-> Append(st.done \o SortRun(st.run), x), run |-> <<>>],
                            [done |-> st.done, run |-> Append(st.run, x)]}
    BY DEF ScanStep, Scans
  <2>5. <<>> \in Seq(S)
    OBVIOUS
  <2>6. \A p, q \in Seq(S) : [done |-> p, run |-> q] \in Scans(S)
    BY DEF Scans
  <2> HIDE DEF Scans
  <2> QED BY <2>1, <2>3, <2>4, <2>5, <2>6
<1> QED BY <1>1, <1>2

LEMMA CanonicalOrderType ==
    ASSUME NEW S, S # {}, NEW s \in Seq(S)
    PROVE  canonical_order(s) \in Seq(S) /\ Scanned(s) \in Scans(S)
<1>1. Scanned(s) \in Scans(S)
  BY ScanStepType, ScanFold
<1>2. Scanned(s).done \in Seq(S) /\ Scanned(s).run \in Seq(S)
  BY <1>1 DEF Scans
<1>3. SortRun(Scanned(s).run) \in Seq(S)
  BY <1>2, SortType
<1>4. canonical_order(s) = Scanned(s).done \o SortRun(Scanned(s).run)
  BY CanonicalOrderIs
<1> QED BY <1>1, <1>2, <1>3, <1>4

\* The state of compose: what is out, and where its last starter is.
Composings(S) == {st \in [out : Seq(S), starter : Nat, last_cc : Nat] : st.starter <= Len(st.out)}

LEMMA ComposePairType ==
    ASSUME NEW a \in Nat, NEW b \in Nat, compose_pair(a, b) # 0
    PROVE  compose_pair(a, b) \in Lower
<1>1. compose_pair(a, b) \in {hangul_compose(a, b), canonical_compose(a, b)}
  BY DEF compose_pair
<1>2. hangul_compose(a, b) # 0 => hangul_compose(a, b) \in Nat /\ hangul_compose(a, b) >= 44032
  <2>1. CASE a \in LJamo /\ b \in VJamo
    BY <2>1, SMT DEF hangul_compose, LJamo, VJamo, LBase, LCount, VBase, VCount, SBase, TCount
  <2>2. CASE ~ (a \in LJamo /\ b \in VJamo)
    BY <2>2, SMT DEF hangul_compose, is_hangul_syllable, TJamo, TBase, TCount, SBase
  <2> QED BY <2>1, <2>2
<1>3. canonical_compose(a, b) # 0 => canonical_compose(a, b) \in Nat /\ canonical_compose(a, b) >= 128
  BY AsciiAssumption DEF canonical_compose, Lookup
<1> QED BY <1>1, <1>2, <1>3 DEF Lower

LEMMA ComposeStepType ==
    ASSUME NEW S \in {Nat, Lower}
    PROVE  Uncomposed \in Composings(S) /\ \A st \in Composings(S), x \in S : ComposeStep(st, x) \in Composings(S)
<1>0. Lower \subseteq S /\ S \subseteq Nat
  BY DEF Lower
<1>1. Uncomposed \in Composings(S)
  <2>1. <<>> \in Seq(S) /\ Len(<<>>) = 0
    OBVIOUS
  <2> QED BY <2>1 DEF Uncomposed, Composings
<1>2. ASSUME NEW st \in Composings(S), NEW x \in S PROVE ComposeStep(st, x) \in Composings(S)
  <2> DEFINE cc == combining_class(x)
             composed == IF Reaches(st, cc) THEN compose_pair(st.out[st.starter], x) ELSE 0
  <2>1. /\ st \in [out : Seq(S), starter : Nat, last_cc : Nat]
        /\ st.out \in Seq(S) /\ st.starter \in Nat /\ st.starter <= Len(st.out) /\ cc \in Nat
    BY ClassType DEF Composings
  <2>2. CASE composed # 0
    <3>1. st.starter \in 1 .. Len(st.out)
      BY <2>1, <2>2 DEF Reaches
    <3>2. composed \in S
      <4>1. st.out[st.starter] \in Nat /\ x \in Nat
        <5>1. st.out[st.starter] \in S
          <6>1. \A i \in 1 .. Len(st.out) : st.out[i] \in S
            BY <2>1
          <6> QED BY <3>1, <6>1
        <5> QED BY <1>0, <5>1
      <4> QED BY <1>0, <2>2, <4>1, ComposePairType
    <3>3. ComposeStep(st, x) = [st EXCEPT !.out[st.starter] = composed]
      BY <2>2 DEF ComposeStep
    <3> HIDE DEF composed
    <3>4. [st.out EXCEPT ![st.starter] = composed] \in Seq(S)
          /\ Len([st.out EXCEPT ![st.starter] = composed]) = Len(st.out)
      BY <2>1, <3>1, <3>2
    <3> QED BY <2>1, <3>3, <3>4 DEF Composings
  <2>3. CASE composed = 0
    <3>1. ComposeStep(st, x) = [out |-> Append(st.out, x), starter |-> NewStarter(st, cc), last_cc |-> cc]
      BY <2>3 DEF ComposeStep
    <3>2. Append(st.out, x) \in Seq(S) /\ Len(Append(st.out, x)) = Len(st.out) + 1 /\ Len(st.out) \in Nat
      BY <2>1
    <3>3. NewStarter(st, cc) \in Nat /\ NewStarter(st, cc) <= Len(st.out) + 1
      BY <2>1, <3>2 DEF NewStarter
    <3> HIDE DEF cc
    <3> QED BY <2>1, <3>1, <3>2, <3>3 DEF Composings
  <2> QED BY <2>2, <2>3
<1> QED BY <1>1, <1>2

LEMMA ComposeType ==
    ASSUME NEW S \in {Nat, Lower}, NEW s \in Seq(S)
    PROVE  Compose(s) = Composing(s).out /\ Compose(s) \in Seq(S) /\ Composing(s) \in Composings(S)
<1>1. Composing(s) \in Composings(S)
  BY ComposeStepType, ComposeFold
<1>2. Compose(s) = Composing(s).out
  BY DEF Compose, Composing, Uncomposed
<1> QED BY <1>1, <1>2 DEF Composings

\* Normalizing gives code points, and no capital where none decomposes into one.
LEMMA NfcType ==
    /\ \A s \in Seq(Nat) : nfc(s) \in Seq(Nat)
    /\ \A s \in Seq(Settled) : nfc(s) \in Seq(Lower)
<1>1. ASSUME NEW s \in Seq(Nat) PROVE nfc(s) \in Seq(Nat)
  <2>1. Pipeline(s) \in Seq(Nat)
    BY DecomposeType, CanonicalOrderType, ComposeType DEF Pipeline
  <2> QED BY <2>1 DEF nfc
<1>2. ASSUME NEW s \in Seq(Settled) PROVE nfc(s) \in Seq(Lower)
  <2>1. s \in Seq(Lower) /\ 0 \in Lower
    <3>1. Settled \subseteq Lower /\ 0 \in Lower
      BY DEF Settled, Lower
    <3> QED BY <3>1, SeqMonotonic
  <2>2. Pipeline(s) \in Seq(Lower)
    BY <2>1, DecomposeType, CanonicalOrderType, ComposeType DEF Pipeline
  <2> QED BY <2>1, <2>2 DEF nfc
<1> QED BY <1>1, <1>2

LEMMA NfcAscii ==
    ASSUME NEW s \in Seq(0 .. 127)
    PROVE  nfc(s) = s
<1>0. \A c \in 0 .. 127 : nfc_inert(c)
  BY AsciiAssumption DEF nfc_inert
<1>1. \A i \in DOMAIN s : nfc_inert(s[i])
  <2> SUFFICES ASSUME NEW i \in DOMAIN s PROVE nfc_inert(s[i])
    OBVIOUS
  <2>1. s[i] \in 0 .. 127
    <3> DEFINE A == 0 .. 127
    <3>1. s \in Seq(A)
      OBVIOUS
    <3>2. s[i] \in A
      <4> HIDE DEF A
      <4> QED BY <3>1
    <3> QED BY <3>2
  <2> QED BY <1>0, <2>1
<1> QED BY <1>1 DEF nfc, is_nfc

-----------------------------------------------------------------------------
LEMMA StopTables ==
    /\ nfc_inert(FullStop) /\ combining_class(FullStop) = 0
    /\ decompose_into(FullStop) = <<FullStop>>
    /\ \A a \in Nat : compose_pair(a, FullStop) = 0
<1>1. nfc_inert(FullStop)
  BY AsciiAssumption DEF nfc_inert, FullStop
<1>2. combining_class(FullStop) = 0
  BY AsciiAssumption, TablesAssumption DEF combining_class, Lookup, FullStop
<1>3. decompose_into(FullStop) = <<FullStop>>
  <2>1. ~ is_hangul_syllable(FullStop)
    BY DEF is_hangul_syllable, FullStop, SBase
  <2>2. FullStop \notin DOMAIN DECOMP
    BY AsciiAssumption DEF FullStop
  <2> QED BY <2>1, <2>2 DEF decompose_into, canonical_decomposition, Lookup
<1>4. ASSUME NEW a \in Nat PROVE compose_pair(a, FullStop) = 0
  <2>1. hangul_compose(a, FullStop) = 0
    BY SMT DEF hangul_compose, FullStop, VJamo, TJamo, VBase, TBase, VCount, TCount
  <2>2. ~ composes_as_second(FullStop)
    BY AsciiAssumption DEF composes_as_second, FullStop
  <2> QED BY <2>1, <2>2 DEF compose_pair
<1> QED BY <1>1, <1>2, <1>3, <1>4

LEMMA QuickCheckStop ==
    ASSUME NEW s \in Seq(Nat)
    PROVE  is_nfc(Append(s, FullStop)) <=> is_nfc(s)
<1> DEFINE r == Append(s, FullStop)
           n == Len(s)
           Ok(v, i) == \/ nfc_inert(v[i])
                       \/ /\ combining_class(v[i]) = 0 \/ combining_class(v[i]) >= LastClass(v, i)
                          /\ QuickYes(v[i])
<1>1. /\ n \in Nat /\ DOMAIN s = 1 .. n /\ DOMAIN r = 1 .. n + 1 /\ r[n + 1] = FullStop
      /\ \A i \in 1 .. n : r[i] = s[i]
  OBVIOUS
<1>2. ASSUME NEW i \in 1 .. n PROVE Ok(r, i) <=> Ok(s, i)
  <2>1. r[i] = s[i] /\ (i # 1 => r[i - 1] = s[i - 1])
    <3>1. i # 1 => i - 1 \in 1 .. n
      OBVIOUS
    <3> HIDE DEF r, n
    <3> QED BY <1>1, <3>1
  <2>2. LastClass(r, i) = LastClass(s, i)
    <3> HIDE DEF r
    <3> QED BY <2>1 DEF LastClass
  <2> HIDE DEF r
  <2> QED BY <2>1, <2>2
<1>3. Ok(r, n + 1)
  <2> HIDE DEF r, n
  <2> QED BY <1>1, StopTables
<1>4. (is_nfc(r) <=> \A i \in 1 .. n + 1 : Ok(r, i)) /\ (is_nfc(s) <=> \A i \in 1 .. n : Ok(s, i))
  <2> HIDE DEF r, n
  <2> QED BY <1>1 DEF is_nfc
<1>5. \A i \in 1 .. n + 1 : i = n + 1 \/ i \in 1 .. n
  BY <1>1
<1>6. \A i \in 1 .. n : i \in 1 .. n + 1
  BY <1>1
<1> HIDE DEF Ok, r, n
<1>7. is_nfc(r) <=> is_nfc(s)
  BY <1>2, <1>3, <1>4, <1>5, <1>6
<1> QED BY <1>7 DEF r

\* A full stop at the end stays apart from what is before it.
LEMMA PipelineStop ==
    ASSUME NEW s \in Seq(Nat)
    PROVE  Pipeline(Append(s, FullStop)) = Append(Pipeline(s), FullStop)
<1> DEFINE d == Decompose(s)
           o == canonical_order(d)
<1>0. FullStop \in Nat
  BY DEF FullStop
<1>1. Decompose(Append(s, FullStop)) = Append(d, FullStop) /\ d \in Seq(Nat)
  <2>1. <<>> \in Seq(Nat) /\ \A a \in Seq(Nat), x \in Nat : a \o decompose_into(x) \in Seq(Nat)
    BY DecomposeIntoType
  <2>2. Decompose(Append(s, FullStop)) = d \o decompose_into(FullStop)
    <3>1. \A x \in Nat : Decompose(Append(s, x)) = Decompose(s) \o decompose_into(x)
      <4> DEFINE V == Seq(Nat)
      <4>1. <<>> \in V /\ \A a \in V, x \in Nat : a \o decompose_into(x) \in V
        BY <2>1
      <4> HIDE DEF V
      <4>2. Decompose(s) \in V /\ \A x \in Nat : Decompose(Append(s, x)) = Decompose(s) \o decompose_into(x)
        BY <4>1, DecomposeFold
      <4> QED BY <4>2
    <3> QED BY <1>0, <3>1
  <2>3. d \in Seq(Nat)
    BY DecomposeType
  <2> HIDE DEF d
  <2> QED BY <1>0, <2>2, <2>3, StopTables
<1> HIDE DEF d
<1>2. canonical_order(Append(d, FullStop)) = Append(o, FullStop) /\ o \in Seq(Nat)
  <2>1. Scanned(Append(d, FullStop)) = ScanStep(Scanned(d), FullStop)
    <3>1. Unscanned \in Scans(Nat) /\ \A st \in Scans(Nat), x \in Nat : ScanStep(st, x) \in Scans(Nat)
      BY ScanStepType
    <3>2. \A x \in Nat : Scanned(Append(d, x)) = ScanStep(Scanned(d), x)
      <4> DEFINE V == Scans(Nat)
      <4>1. Unscanned \in V /\ \A st \in V, x \in Nat : ScanStep(st, x) \in V
        BY <3>1
      <4> HIDE DEF V
      <4>2. Scanned(d) \in V /\ \A x \in Nat : Scanned(Append(d, x)) = ScanStep(Scanned(d), x)
        BY <1>1, <4>1, ScanFold
      <4> QED BY <4>2
    <3> QED BY <1>0, <3>2
  <2>2. ScanStep(Scanned(d), FullStop) = [done |-> Append(o, FullStop), run |-> <<>>]
    BY StopTables, CanonicalOrderIs DEF ScanStep
  <2>3. canonical_order(Append(d, FullStop)) = Append(o, FullStop) \o SortRun(<<>>)
    <3> HIDE DEF o
    <3>1. Scanned(Append(d, FullStop)) = [done |-> Append(o, FullStop), run |-> <<>>]
      BY <2>1, <2>2
    <3>2. canonical_order(Append(d, FullStop))
            = Scanned(Append(d, FullStop)).done \o SortRun(Scanned(Append(d, FullStop)).run)
      BY CanonicalOrderIs
    <3> QED BY <3>1, <3>2
  <2>4. o \in Seq(Nat)
    BY <1>1, CanonicalOrderType
  <2> HIDE DEF o
  <2> QED BY <1>0, <2>3, <2>4, SortEmpty
<1> HIDE DEF o
<1>3. Compose(Append(o, FullStop)) = Append(Compose(o), FullStop)
  <2> DEFINE st == Composing(o)
  <2>1. Composing(Append(o, FullStop)) = ComposeStep(st, FullStop) /\ st \in Composings(Nat)
    <3>1. Uncomposed \in Composings(Nat) /\ \A c \in Composings(Nat), x \in Nat : ComposeStep(c, x) \in Composings(Nat)
      BY ComposeStepType
    <3>2. /\ Composing(o) \in Composings(Nat)
          /\ \A x \in Nat : Composing(Append(o, x)) = ComposeStep(Composing(o), x)
      BY <1>2, <3>1, ComposeFold
    <3> QED BY <1>0, <3>2
  <2>2. Compose(o) = st.out /\ Append(o, FullStop) \in Seq(Nat)
    BY <1>0, <1>2, ComposeType
  <2>3. Compose(Append(o, FullStop)) = ComposeStep(st, FullStop).out
    BY <2>1, <2>2, ComposeType
  <2> HIDE DEF st
  <2>4. Reaches(st, 0) => compose_pair(st.out[st.starter], FullStop) = 0
    <3> SUFFICES ASSUME Reaches(st, 0) PROVE st.out[st.starter] \in Nat
      BY StopTables
    <3> QED BY <2>1 DEF Reaches, Composings
  <2>5. ComposeStep(st, FullStop).out = Append(st.out, FullStop)
    BY <2>4, StopTables DEF ComposeStep
  <2> QED BY <2>2, <2>3, <2>5
<1> QED BY <1>1, <1>2, <1>3 DEF Pipeline, o, d

LEMMA NfcStop ==
    ASSUME NEW s \in Seq(Nat)
    PROVE  nfc(Append(s, FullStop)) = Append(nfc(s), FullStop)
BY QuickCheckStop, PipelineStop DEF nfc

\* A sequence cut in two, and put together again.
LEMMA TakeDrop ==
    ASSUME NEW S, NEW w \in Seq(S), NEW p \in 0 .. Len(w)
    PROVE  /\ SubSeq(w, 1, p) \in Seq(S) /\ Len(SubSeq(w, 1, p)) = p
           /\ \A i \in 1 .. p : SubSeq(w, 1, p)[i] = w[i]
           /\ SubSeq(w, p + 1, Len(w)) \in Seq(S) /\ Len(SubSeq(w, p + 1, Len(w))) = Len(w) - p
           /\ \A i \in 1 .. Len(w) - p : SubSeq(w, p + 1, Len(w))[i] = w[p + i]
           /\ w = SubSeq(w, 1, p) \o SubSeq(w, p + 1, Len(w))
<1> DEFINE u == SubSeq(w, 1, p)
           v == SubSeq(w, p + 1, Len(w))
<1>1. Len(w) \in Nat /\ p \in Nat /\ p <= Len(w)
  OBVIOUS
<1>2. u \in Seq(S) /\ Len(u) = p /\ \A i \in 1 .. p : u[i] = w[i]
  BY <1>1
<1>3. v \in Seq(S) /\ Len(v) = Len(w) - p /\ \A i \in 1 .. Len(w) - p : v[i] = w[p + i]
  BY <1>1
<1> HIDE DEF u, v
<1>4. w = u \o v
  <2>1. u \o v \in Seq(S) /\ Len(u \o v) = Len(u) + Len(v)
    <3>1. u \in Seq(S) /\ v \in Seq(S)
      BY <1>2, <1>3
    <3> QED BY ONLY <3>1
  <2>2. Len(u \o v) = Len(w)
    BY <1>1, <1>2, <1>3, <2>1
  <2>3. ASSUME NEW i \in 1 .. Len(w) PROVE w[i] = (u \o v)[i]
    <3>1. CASE i <= p
      BY <1>1, <1>2, <1>3, <3>1
    <3>2. CASE i > p
      <4>1. i - p \in 1 .. Len(w) - p /\ p + (i - p) = i
        BY <1>1, <3>2
      <4>2. (u \o v)[i] = v[i - p]
        BY <1>1, <1>2, <1>3, <3>2
      <4> QED BY <1>3, <4>1, <4>2
    <3>3. i <= p \/ i > p
      BY <1>1
    <3> QED BY <3>1, <3>2, <3>3
  <2> QED BY <2>1, <2>2, <2>3, SeqEqual
<1> QED BY <1>2, <1>3, <1>4 DEF u, v

\* A sequence with one element put in.
LEMMA Spliced ==
    ASSUME NEW S, NEW u \in Seq(S), NEW v \in Seq(S), NEW x \in S
    PROVE  /\ (u \o <<x>>) \o v \in Seq(S) /\ Len((u \o <<x>>) \o v) = (Len(u) + 1) + Len(v)
           /\ \A i \in 1 .. Len(u) : ((u \o <<x>>) \o v)[i] = u[i]
           /\ ((u \o <<x>>) \o v)[Len(u) + 1] = x
           /\ \A i \in 1 .. Len(v) : ((u \o <<x>>) \o v)[(Len(u) + 1) + i] = v[i]
<1> DEFINE a == u \o <<x>>
<1>1. /\ a \in Seq(S) /\ Len(a) = Len(u) + 1 /\ a[Len(u) + 1] = x /\ Len(u) \in Nat
      /\ \A i \in 1 .. Len(u) : a[i] = u[i]
  OBVIOUS
<1> HIDE DEF a
<1>2. v \in Seq(S) /\ Len(v) \in Nat
  OBVIOUS
<1>3. a \o v \in Seq(S) /\ Len(a \o v) = Len(a) + Len(v)
      /\ \A i \in 1 .. Len(a) + Len(v) : (a \o v)[i] = IF i <= Len(a) THEN a[i] ELSE v[i - Len(a)]
  <2>1. a \in Seq(S)
    BY <1>1
  <2> QED BY ONLY <1>2, <2>1, ConcatProperties
<1>4. ASSUME NEW i \in 1 .. Len(u) + 1 PROVE (a \o v)[i] = a[i]
  BY <1>1, <1>2, <1>3
<1>5. ASSUME NEW i \in 1 .. Len(v) PROVE (a \o v)[(Len(u) + 1) + i] = v[i]
  <2>1. (Len(u) + 1) + i \in 1 .. Len(a) + Len(v) /\ ~ ((Len(u) + 1) + i <= Len(a))
        /\ ((Len(u) + 1) + i) - Len(a) = i
    BY <1>1, <1>2
  <2> QED BY <1>3, <2>1
<1>6. Len(u) + 1 \in 1 .. Len(u) + 1 /\ \A i \in 1 .. Len(u) : i \in 1 .. Len(u) + 1
  BY <1>1
<1> QED BY <1>1, <1>3, <1>4, <1>5, <1>6 DEF a

LEMMA CutAt ==
    ASSUME NEW S, NEW u \in Seq(S), NEW v \in Seq(S)
    PROVE  SubSeq(u \o v, 1, Len(u)) = u /\ SubSeq(u \o v, Len(u) + 1, Len(u \o v)) = v
<1> DEFINE w == u \o v
           a == SubSeq(w, 1, Len(u))
           b == SubSeq(w, Len(u) + 1, Len(w))
<1>1. /\ w \in Seq(S) /\ Len(w) = Len(u) + Len(v) /\ Len(u) \in Nat /\ Len(v) \in Nat
      /\ \A i \in 1 .. Len(u) : w[i] = u[i]
      /\ \A i \in 1 .. Len(v) : w[Len(u) + i] = v[i]
  OBVIOUS
<1> HIDE DEF w
<1>2. Len(u) \in 0 .. Len(w)
  BY <1>1
<1>3. /\ a \in Seq(S) /\ Len(a) = Len(u) /\ \A i \in 1 .. Len(u) : a[i] = w[i]
      /\ b \in Seq(S) /\ Len(b) = Len(w) - Len(u) /\ \A i \in 1 .. Len(w) - Len(u) : b[i] = w[Len(u) + i]
  BY <1>1, <1>2, TakeDrop
<1> HIDE DEF a, b
<1>4. Len(w) - Len(u) = Len(v)
  BY <1>1
<1>5. a = u
  <2>1. \A i \in 1 .. Len(a) : a[i] = u[i]
    BY <1>1, <1>3
  <2> QED BY <1>3, <2>1, SeqEqual
<1>6. b = v
  <2>1. \A i \in 1 .. Len(b) : b[i] = v[i]
    BY <1>1, <1>3, <1>4
  <2> QED BY <1>3, <1>4, <2>1, SeqEqual
<1> QED BY <1>5, <1>6 DEF a, b, w

-----------------------------------------------------------------------------
(* Canonical ordering puts one code point at a time where it belongs.        *)

\* A fold of one sequence after another.
LEMMA FoldedConcat ==
    ASSUME NEW V, NEW X, NEW F, NEW base, NEW a, Foldable(V, X, F, base, a), NEW b \in Seq(X)
    PROVE  Folded(F, base, a \o b) = Folded(F, Folded(F, base, a), b)
<1>0. F \in [V \X X -> V] /\ base \in V /\ a \in Seq(X)
  BY DEF Foldable
<1> DEFINE T == {s \in Seq(X) : Folded(F, base, a \o s) = Folded(F, Folded(F, base, a), s)}
<1>1. ASSUME NEW u \in V, NEW s \in Seq(X)
      PROVE  /\ Folded(F, u, <<>>) = u /\ Folded(F, u, s) \in V
             /\ \A x \in X : Folded(F, u, Append(s, x)) = F[<<Folded(F, u, s), x>>]
  <2>1. Foldable(V, X, F, u, s)
    BY <1>0 DEF Foldable
  <2> QED BY <2>1, FoldedRuns
<1>2. <<>> \in T
  <2>1. a \o <<>> = a
    BY <1>0
  <2> QED BY <1>0, <1>1, <2>1
<1>3. ASSUME NEW s \in T, NEW x \in X PROVE Append(s, x) \in T
  <2>1. s \in Seq(X) /\ Append(s, x) \in Seq(X) /\ a \o s \in Seq(X)
    BY <1>0
  <2>2. a \o Append(s, x) = Append(a \o s, x)
    BY <1>0, <2>1
  <2>3. Folded(F, base, Append(a \o s, x)) = F[<<Folded(F, base, a \o s), x>>]
    BY <1>0, <1>1, <2>1
  <2>4. Folded(F, Folded(F, base, a), Append(s, x)) = F[<<Folded(F, Folded(F, base, a), s), x>>]
    BY <1>0, <1>1, <2>1
  <2>5. Folded(F, base, a \o s) = Folded(F, Folded(F, base, a), s)
    OBVIOUS
  <2> QED BY <2>1, <2>2, <2>3, <2>4, <2>5
<1>4. T = Seq(X)
  <2>1. T \in SUBSET Seq(X)
    OBVIOUS
  <2> HIDE DEF T
  <2> QED BY <1>2, <1>3, <2>1, SeqInduction
<1>5. b \in T
  BY <1>4
<1> QED BY <1>5

\* The place of a code point of class c in an ordered text: at the end if it is a
\* starter, else after the last that is not above it.
After(w, c) == IF c = 0 THEN Len(w) ELSE Max({0} \cup {j \in 1 .. Len(w) : combining_class(w[j]) <= c})
Put(w, x) == (SubSeq(w, 1, After(w, combining_class(x))) \o <<x>>)
               \o SubSeq(w, After(w, combining_class(x)) + 1, Len(w))

\* x belongs between u and v.
Around(u, v, x) ==
    /\ combining_class(x) = 0 => Len(v) = 0
    /\ combining_class(x) > 0 /\ Len(u) > 0 => combining_class(u[Len(u)]) <= combining_class(x)
    /\ \A j \in 1 .. Len(v) : combining_class(v[j]) > combining_class(x)

LEMMA AfterType ==
    ASSUME NEW w \in Seq(Nat), NEW c \in Nat
    PROVE  /\ After(w, c) \in 0 .. Len(w)
           /\ c = 0 => After(w, c) = Len(w)
           /\ c > 0 /\ After(w, c) > 0 => combining_class(w[After(w, c)]) <= c
           /\ c > 0 => \A j \in 1 .. Len(w) : j > After(w, c) => combining_class(w[j]) > c
<1> DEFINE n == Len(w)
           K == {j \in 1 .. n : combining_class(w[j]) <= c}
           m == Max({0} \cup K)
<1>1. n \in Nat
  OBVIOUS
<1>2. K \in SUBSET (1 .. n)
  OBVIOUS
<1>3. m \in 0 .. n /\ (m # 0 => m \in K) /\ \A k \in K : k <= m
  <2> HIDE DEF K, n
  <2> QED BY <1>1, <1>2, LastOrZero
<1>4. After(w, c) = IF c = 0 THEN n ELSE m
  BY DEF After
<1>5. \A j \in 1 .. n : combining_class(w[j]) \in Nat
  BY ClassType
<1>6. ASSUME NEW j \in 1 .. n, j > m PROVE combining_class(w[j]) > c
  <2>1. j \notin K
    <3> HIDE DEF K
    <3>1. m \in Nat /\ j \in Nat
      BY <1>1, <1>3
    <3>2. ~ (j <= m)
      <4> HIDE DEF m
      <4> QED BY <1>6, <3>1
    <3> HIDE DEF m
    <3> QED BY <1>3, <3>2
  <2> QED BY <1>5, <2>1
<1>7. m # 0 => combining_class(w[m]) <= c
  <2> HIDE DEF m
  <2> QED BY <1>3
<1> HIDE DEF m, K
<1> QED BY <1>1, <1>3, <1>4, <1>6, <1>7

LEMMA PutSplits ==
    ASSUME NEW w \in Seq(Nat), NEW x \in Nat
    PROVE  \E u, v \in Seq(Nat) : w = u \o v /\ Put(w, x) = (u \o <<x>>) \o v /\ Around(u, v, x)
<1> DEFINE c == combining_class(x)
           p == After(w, c)
           u == SubSeq(w, 1, p)
           v == SubSeq(w, p + 1, Len(w))
<1>1. c \in Nat /\ Len(w) \in Nat
  BY ClassType
<1>2. /\ p \in 0 .. Len(w)
      /\ c = 0 => p = Len(w)
      /\ c > 0 /\ p > 0 => combining_class(w[p]) <= c
      /\ c > 0 => \A j \in 1 .. Len(w) : j > p => combining_class(w[j]) > c
  <2> HIDE DEF c
  <2> QED BY <1>1, AfterType
<1>3. Put(w, x) = (u \o <<x>>) \o v
  BY DEF Put
<1> HIDE DEF p, c
<1>4. p \in Nat /\ p <= Len(w)
  BY <1>1, <1>2
<1>5. /\ u \in Seq(Nat) /\ Len(u) = p /\ \A i \in 1 .. p : u[i] = w[i]
      /\ v \in Seq(Nat) /\ Len(v) = Len(w) - p /\ \A i \in 1 .. Len(w) - p : v[i] = w[p + i]
      /\ w = u \o v
  BY <1>2, TakeDrop
<1> HIDE DEF u, v
<1>8. Around(u, v, x)
  <2>1. c = 0 => Len(v) = 0
    BY <1>1, <1>2, <1>5
  <2>2. c > 0 /\ Len(u) > 0 => combining_class(u[Len(u)]) <= c
    <3> SUFFICES ASSUME c > 0, Len(u) > 0 PROVE combining_class(u[Len(u)]) <= c
      OBVIOUS
    <3>1. p \in 1 .. p
      BY <1>4, <1>5
    <3>2. u[p] = w[p]
      BY <1>5, <3>1
    <3> QED BY <1>2, <1>5, <3>2
  <2>3. ASSUME NEW j \in 1 .. Len(v) PROVE combining_class(v[j]) > c
    <3>1. p + j \in 1 .. Len(w) /\ p + j > p /\ v[j] = w[p + j]
      BY <1>1, <1>4, <1>5
    <3>2. c > 0
      BY <1>1, <2>1
    <3> QED BY <1>2, <3>1, <3>2
  <2> QED BY <2>1, <2>2, <2>3 DEF Around, c
<1> QED BY <1>3, <1>5, <1>8

LEMMA PutAt ==
    ASSUME NEW u \in Seq(Nat), NEW v \in Seq(Nat), NEW x \in Nat, Around(u, v, x)
    PROVE  Put(u \o v, x) = (u \o <<x>>) \o v
<1> DEFINE c == combining_class(x)
           w == u \o v
           p == After(w, c)
<1>1. /\ c \in Nat /\ w \in Seq(Nat) /\ Len(w) = Len(u) + Len(v) /\ Len(u) \in Nat /\ Len(v) \in Nat
      /\ \A i \in 1 .. Len(u) : w[i] = u[i]
      /\ \A i \in 1 .. Len(v) : w[Len(u) + i] = v[i]
  BY ClassType
<1>2. Put(w, x) = (SubSeq(w, 1, p) \o <<x>>) \o SubSeq(w, p + 1, Len(w))
  BY DEF Put
<1>3. /\ p \in 0 .. Len(w)
      /\ c = 0 => p = Len(w)
      /\ c > 0 /\ p > 0 => combining_class(w[p]) <= c
      /\ c > 0 => \A j \in 1 .. Len(w) : j > p => combining_class(w[j]) > c
  <2> HIDE DEF c, w
  <2> QED BY <1>1, AfterType
<1>4. \A i \in Nat : combining_class(i) \in Nat
  BY ClassType
<1> HIDE DEF p, w
<1>5. p = Len(u)
  <2>1. CASE c = 0
    BY <1>1, <1>3, <2>1 DEF Around
  <2>2. CASE c > 0
    <3>1. ~ (p > Len(u))
      <4> SUFFICES ASSUME p > Len(u) PROVE FALSE
        OBVIOUS
      <4>1. p - Len(u) \in 1 .. Len(v) /\ Len(u) + (p - Len(u)) = p /\ p > 0
        BY <1>1, <1>3
      <4>2. w[p] = v[p - Len(u)]
        BY <1>1, <4>1
      <4>3. combining_class(v[p - Len(u)]) > c
        BY <4>1 DEF Around
      <4>4. combining_class(w[p]) <= c
        BY <1>3, <2>2, <4>1
      <4>5. combining_class(w[p]) \in Nat
        BY ClassType
      <4> HIDE DEF c
      <4> QED BY <1>1, <4>2, <4>3, <4>4, <4>5
    <3>2. ~ (p < Len(u))
      <4> SUFFICES ASSUME p < Len(u) PROVE FALSE
        OBVIOUS
      <4>1. Len(u) \in 1 .. Len(w) /\ Len(u) \in 1 .. Len(u) /\ Len(u) > 0
        BY <1>1, <1>3
      <4>2. w[Len(u)] = u[Len(u)]
        BY <1>1, <4>1
      <4>3. combining_class(u[Len(u)]) <= c
        BY <2>2, <4>1 DEF Around
      <4>4. combining_class(w[Len(u)]) > c
        BY <1>3, <2>2, <4>1
      <4>5. combining_class(w[Len(u)]) \in Nat
        BY ClassType
      <4> HIDE DEF c
      <4> QED BY <1>1, <4>2, <4>3, <4>4, <4>5
    <3> QED BY <1>1, <1>3, <3>1, <3>2
  <2> QED BY <1>1, <2>1, <2>2
<1>6. SubSeq(w, 1, p) = u /\ SubSeq(w, p + 1, Len(w)) = v
  BY <1>5, CutAt DEF w
<1> QED BY <1>2, <1>6 DEF w

LEMMA PutType ==
    ASSUME NEW w \in Seq(Nat), NEW x \in Nat
    PROVE  Put(w, x) \in Seq(Nat) /\ Len(Put(w, x)) = Len(w) + 1
<1>1. PICK u \in Seq(Nat), v \in Seq(Nat) : w = u \o v /\ Put(w, x) = (u \o <<x>>) \o v
  BY PutSplits
<1>2. (u \o <<x>>) \o v \in Seq(Nat) /\ Len((u \o <<x>>) \o v) = (Len(u) + 1) + Len(v)
  OBVIOUS
<1>3. Len(u \o v) = Len(u) + Len(v) /\ Len(u) \in Nat /\ Len(v) \in Nat
  OBVIOUS
<1> QED BY <1>1, <1>2, <1>3

\* The marks of s put, one after the other, into w.
PutFn == [p \in Seq(Nat) \X Nat |-> Put(p[1], p[2])]
PutAll(w, s) == Folded(PutFn, w, s)

LEMMA PutAllRuns ==
    ASSUME NEW w \in Seq(Nat), NEW s \in Seq(Nat)
    PROVE  /\ PutAll(w, <<>>) = w /\ PutAll(w, s) \in Seq(Nat)
           /\ \A x \in Nat : PutAll(w, Append(s, x)) = Put(PutAll(w, s), x)
           /\ \A b \in Seq(Nat) : PutAll(w, s \o b) = PutAll(PutAll(w, s), b)
<1> DEFINE V == Seq(Nat)
<1>1. \A p \in V \X Nat : Put(p[1], p[2]) \in V
  <2>1. \A u \in V, x \in Nat : Put(u, x) \in V
    BY PutType
  <2> HIDE DEF V
  <2> QED BY <2>1
<1>2. PutFn \in [V \X Nat -> V]
  BY <1>1 DEF PutFn
<1>3. \A u \in V, x \in Nat : PutFn[<<u, x>>] = Put(u, x)
  BY DEF PutFn
<1>4. Foldable(V, Nat, PutFn, w, s)
  BY <1>2 DEF Foldable
<1>5. w \in V /\ s \in Seq(Nat)
  OBVIOUS
<1> HIDE DEF V
<1>6. /\ Folded(PutFn, w, <<>>) = w /\ Folded(PutFn, w, s) \in V
      /\ \A x \in Nat : Folded(PutFn, w, Append(s, x)) = PutFn[<<Folded(PutFn, w, s), x>>]
  BY <1>4, FoldedRuns
<1>7. ASSUME NEW b \in Seq(Nat) PROVE Folded(PutFn, w, s \o b) = Folded(PutFn, Folded(PutFn, w, s), b)
  BY <1>4, FoldedConcat
<1> QED BY <1>3, <1>6, <1>7 DEF PutAll, V

LEMMA PutAllEach ==
    /\ \A w \in Seq(Nat) : PutAll(w, <<>>) = w
    /\ \A w, s \in Seq(Nat) : PutAll(w, s) \in Seq(Nat)
    /\ \A w, s \in Seq(Nat), x \in Nat : PutAll(w, Append(s, x)) = Put(PutAll(w, s), x)
    /\ \A w, a, b \in Seq(Nat) : PutAll(w, a \o b) = PutAll(PutAll(w, a), b)
<1> <<>> \in Seq(Nat)
  OBVIOUS
<1> QED BY PutAllRuns

-----------------------------------------------------------------------------
(* The three ways to sort a run of marks are one: each mark is put after the *)
(* last of those before it that is not above it.                             *)

Marks == {c \in Nat : combining_class(c) > 0}

\* A run already in order.
LEMMA InOrderIs ==
    ASSUME NEW r \in Seq(Marks)
    PROVE  InOrder(r) => PutAll(<<>>, r) = r
<1> DEFINE T == {s \in Seq(Marks) : InOrder(s) => PutAll(<<>>, s) = s}
<1>0. Marks \subseteq Nat /\ Seq(Marks) \subseteq Seq(Nat) /\ <<>> \in Seq(Nat)
  <2>1. Marks \subseteq Nat
    BY DEF Marks
  <2>2. ASSUME NEW s \in Seq(Marks) PROVE s \in Seq(Nat)
    BY <2>1, SeqMonotonic
  <2> QED BY <2>1, <2>2
<1>1. <<>> \in T
  <2>1. <<>> \in Seq(Marks)
    OBVIOUS
  <2>2. PutAll(<<>>, <<>>) = <<>>
    BY <1>0, PutAllEach
  <2> QED BY <2>1, <2>2
<1>2. ASSUME NEW s \in T, NEW x \in Marks PROVE Append(s, x) \in T
  <2> DEFINE q == Append(s, x)
  <2>1. s \in Seq(Marks) /\ s \in Seq(Nat) /\ x \in Nat /\ combining_class(x) > 0 /\ q \in Seq(Marks)
    BY <1>0 DEF Marks
  <2>2. Len(q) = Len(s) + 1 /\ q[Len(s) + 1] = x /\ Len(s) \in Nat /\ \A i \in 1 .. Len(s) : q[i] = s[i]
    BY <2>1
  <2> HIDE DEF q
  <2> SUFFICES ASSUME InOrder(q) PROVE PutAll(<<>>, q) = q
    BY <2>1 DEF q
  <2>3. InOrder(s)
    <3>1. \A k \in 2 .. Len(s) : k \in 2 .. Len(q) /\ k \in 1 .. Len(s) /\ k - 1 \in 1 .. Len(s)
      BY <2>2
    <3>2. \A k \in 2 .. Len(s) : q[k] = s[k] /\ q[k - 1] = s[k - 1]
      BY <2>2, <3>1
    <3> QED BY <3>1, <3>2 DEF InOrder
  <2>4. PutAll(<<>>, q) = Put(s, x)
    <3>1. PutAll(<<>>, s) = s
      BY <2>3
    <3>2. PutAll(<<>>, Append(s, x)) = Put(PutAll(<<>>, s), x)
      <4>1. <<>> \in Seq(Nat) /\ s \in Seq(Nat) /\ x \in Nat
        BY <2>1
      <4> QED BY <4>1, PutAllEach, Zenon
    <3> QED BY <3>1, <3>2 DEF q
  <2>5. Around(s, <<>>, x)
    <3>1. ASSUME Len(s) > 0 PROVE combining_class(s[Len(s)]) <= combining_class(x)
      <4>1. Len(s) + 1 \in 2 .. Len(q) /\ (Len(s) + 1) - 1 = Len(s) /\ Len(s) \in 1 .. Len(s)
        BY <2>2, <3>1
      <4>2. combining_class(q[Len(s)]) <= combining_class(q[Len(s) + 1])
        BY <4>1 DEF InOrder
      <4> QED BY <2>2, <4>1, <4>2
    <3> QED BY <3>1 DEF Around
  <2>6. Put(s \o <<>>, x) = (s \o <<x>>) \o <<>>
    BY <1>0, <2>1, <2>5, PutAt
  <2>7. s \o <<>> = s /\ (s \o <<x>>) \o <<>> = Append(s, x)
    BY <2>1
  <2> QED BY <2>4, <2>6, <2>7 DEF q
<1>3. T = Seq(Marks)
  <2>1. T \in SUBSET Seq(Marks)
    OBVIOUS
  <2> HIDE DEF T
  <2> QED BY <1>1, <1>2, <2>1, SeqInduction
<1>4. r \in T
  BY <1>3
<1> QED BY <1>4

\* The marks of w with their classes, as insertion_sort keeps them.
WithClass(w) == [k \in 1 .. Len(w) |-> [cp |-> w[k], cc |-> combining_class(w[k])]]
Classeds == [cp : Nat, cc : Nat]
ClassedOne(x) == [cp |-> x, cc |-> combining_class(x)]

LEMMA WithClassRuns ==
    ASSUME NEW u \in Seq(Nat)
    PROVE  /\ WithClass(u) \in Seq(Classeds) /\ Len(WithClass(u)) = Len(u)
           /\ \A k \in 1 .. Len(u) : WithClass(u)[k] = ClassedOne(u[k])
           /\ \A v \in Seq(Nat) : WithClass(u \o v) = WithClass(u) \o WithClass(v)
           /\ \A x \in Nat : WithClass(<<x>>) = <<ClassedOne(x)>> /\ ClassedOne(x) \in Classeds
<1>1. ASSUME NEW w \in Seq(Nat)
      PROVE  /\ WithClass(w) \in Seq(Classeds) /\ Len(WithClass(w)) = Len(w)
             /\ \A k \in 1 .. Len(w) : WithClass(w)[k] = ClassedOne(w[k])
  <2>1. \A k \in 1 .. Len(w) : w[k] \in Nat /\ ClassedOne(w[k]) \in Classeds
    BY ClassType DEF ClassedOne, Classeds
  <2>2. WithClass(w) = [k \in 1 .. Len(w) |-> ClassedOne(w[k])]
    BY DEF WithClass, ClassedOne
  <2>3. Len(w) \in Nat
    OBVIOUS
  <2> QED BY <2>1, <2>2, <2>3
<1>2. ASSUME NEW v \in Seq(Nat) PROVE WithClass(u \o v) = WithClass(u) \o WithClass(v)
  <2> DEFINE w == u \o v
             a == WithClass(u)
             b == WithClass(v)
  <2>1. /\ w \in Seq(Nat) /\ Len(w) = Len(u) + Len(v) /\ Len(u) \in Nat /\ Len(v) \in Nat
        /\ \A i \in 1 .. Len(w) : w[i] = IF i <= Len(u) THEN u[i] ELSE v[i - Len(u)]
    OBVIOUS
  <2>2. /\ a \in Seq(Classeds) /\ Len(a) = Len(u) /\ \A k \in 1 .. Len(u) : a[k] = ClassedOne(u[k])
        /\ b \in Seq(Classeds) /\ Len(b) = Len(v) /\ \A k \in 1 .. Len(v) : b[k] = ClassedOne(v[k])
        /\ WithClass(w) \in Seq(Classeds) /\ Len(WithClass(w)) = Len(w)
        /\ \A k \in 1 .. Len(w) : WithClass(w)[k] = ClassedOne(w[k])
    BY <1>1, <2>1
  <2> HIDE DEF w, a, b
  <2>3. /\ a \o b \in Seq(Classeds) /\ Len(a \o b) = Len(a) + Len(b)
        /\ \A i \in 1 .. Len(a) + Len(b) : (a \o b)[i] = IF i <= Len(a) THEN a[i] ELSE b[i - Len(a)]
    <3>1. a \in Seq(Classeds) /\ b \in Seq(Classeds)
      BY <2>2
    <3> QED BY ONLY <3>1, ConcatProperties
  <2>4. ASSUME NEW i \in 1 .. Len(w) PROVE WithClass(w)[i] = (a \o b)[i]
    <3>1. CASE i <= Len(u)
      BY <2>1, <2>2, <2>3, <3>1
    <3>2. CASE i > Len(u)
      <4>1. i - Len(u) \in 1 .. Len(v)
        BY <2>1, <3>2
      <4>2. w[i] = v[i - Len(u)]
        BY <2>1, <3>2
      <4>3. i \in 1 .. Len(a) + Len(b) /\ ~ (i <= Len(a)) /\ i - Len(a) = i - Len(u)
        BY <2>1, <2>2, <3>2
      <4>4. (a \o b)[i] = b[i - Len(u)]
        BY <2>3, <4>3
      <4> QED BY <2>2, <4>1, <4>2, <4>4
    <3>3. i <= Len(u) \/ i > Len(u)
      BY <2>1
    <3> QED BY <3>1, <3>2, <3>3
  <2>5. Len(WithClass(w)) = Len(a \o b)
    BY <2>1, <2>2, <2>3
  <2>6. WithClass(w) = a \o b
    BY <2>2, <2>3, <2>4, <2>5, SeqEqual
  <2> QED BY <2>6 DEF w, a, b
<1>3. ASSUME NEW x \in Nat PROVE WithClass(<<x>>) = <<ClassedOne(x)>> /\ ClassedOne(x) \in Classeds
  <2>1. ClassedOne(x) \in Classeds
    BY ClassType DEF ClassedOne, Classeds
  <2>2. <<x>> \in Seq(Nat) /\ Len(<<x>>) = 1 /\ <<x>>[1] = x
    OBVIOUS
  <2>3. WithClass(<<x>>) = [k \in 1 .. 1 |-> ClassedOne(x)]
    BY <2>2 DEF WithClass, ClassedOne
  <2>4. [k \in 1 .. 1 |-> ClassedOne(x)] = <<ClassedOne(x)>>
    OBVIOUS
  <2> QED BY <2>1, <2>3, <2>4
<1> QED BY <1>1, <1>2, <1>3

LEMMA InsertMarkIs ==
    ASSUME NEW w \in Seq(Nat), NEW x \in Marks
    PROVE  InsertMark(WithClass(w), ClassedOne(x)) = WithClass(Put(w, x))
<1> DEFINE c == combining_class(x)
           p == After(w, c)
           u == SubSeq(w, 1, p)
           v == SubSeq(w, p + 1, Len(w))
           a == WithClass(w)
<1>0. x \in Nat /\ c > 0 /\ c \in Nat
  BY ClassType DEF Marks
<1>1. a \in Seq(Classeds) /\ Len(a) = Len(w) /\ \A k \in 1 .. Len(w) : a[k] = ClassedOne(w[k])
  BY WithClassRuns
<1>2. Place(a, c) = p
  <2>1. DOMAIN a = 1 .. Len(w)
    BY <1>1
  <2> HIDE DEF a
  <2>2. {j \in DOMAIN a : a[j].cc <= c} = {j \in 1 .. Len(w) : combining_class(w[j]) <= c}
    BY <1>1, <2>1 DEF ClassedOne
  <2>3. c # 0
    BY <1>0
  <2> HIDE DEF c
  <2>4. After(w, c) = Max({0} \cup {j \in 1 .. Len(w) : combining_class(w[j]) <= c})
    BY <2>3 DEF After
  <2>5. Place(a, c) = Max({0} \cup {j \in DOMAIN a : a[j].cc <= c})
    BY DEF Place
  <2> QED BY <2>2, <2>4, <2>5
<1>3. p \in 0 .. Len(w)
  BY <1>0, AfterType
<1>4. Put(w, x) = (u \o <<x>>) \o v
  BY DEF Put
<1> HIDE DEF p
<1>5. u \in Seq(Nat) /\ v \in Seq(Nat) /\ Len(u) = p /\ w = u \o v
  <2>1. u \in Seq(Nat) /\ Len(u) = p
    BY <1>3, TakeDrop
  <2>2. v \in Seq(Nat)
    BY <1>3, TakeDrop
  <2>3. w = u \o v
    BY <1>3, TakeDrop
  <2> QED BY <2>1, <2>2, <2>3
<1> HIDE DEF u, v
<1>6. a = WithClass(u) \o WithClass(v) /\ Len(WithClass(u)) = p
      /\ WithClass(u) \in Seq(Classeds) /\ WithClass(v) \in Seq(Classeds)
  BY <1>5, WithClassRuns
<1>7. SubSeq(a, 1, p) = WithClass(u) /\ SubSeq(a, p + 1, Len(a)) = WithClass(v)
  <2> HIDE DEF a
  <2> QED BY <1>6, CutAt
<1>8. WithClass((u \o <<x>>) \o v) = (WithClass(u) \o <<ClassedOne(x)>>) \o WithClass(v)
  <2>1. u \o <<x>> \in Seq(Nat) /\ <<x>> \in Seq(Nat)
    BY <1>0, <1>5
  <2>2. WithClass(u \o <<x>>) = WithClass(u) \o <<ClassedOne(x)>>
    <3>1. WithClass(<<x>>) = <<ClassedOne(x)>>
      BY <1>0, <1>5, WithClassRuns
    <3>2. WithClass(u \o <<x>>) = WithClass(u) \o WithClass(<<x>>)
      BY <1>5, <2>1, WithClassRuns
    <3> QED BY <3>1, <3>2, Zenon
  <2> QED BY <1>5, <2>1, <2>2, WithClassRuns
<1>9. (p + 1) - 1 = p
  BY <1>3
<1>10. ClassedOne(x).cc = c
  BY DEF ClassedOne
<1> HIDE DEF a, c
<1> QED BY <1>2, <1>4, <1>7, <1>8, <1>9, <1>10 DEF InsertMark, InsertAt, a

LEMMA MarksAreNat == Marks \subseteq Nat /\ Seq(Marks) \subseteq Seq(Nat) /\ <<>> \in Seq(Nat) /\ <<>> \in Seq(Marks)
<1>1. Marks \subseteq Nat
  BY DEF Marks
<1>2. ASSUME NEW s \in Seq(Marks) PROVE s \in Seq(Nat)
  BY <1>1, SeqMonotonic
<1> QED BY <1>1, <1>2

LEMMA InsertionIs ==
    ASSUME NEW r \in Seq(Marks), Len(r) <= kShortRun
    PROVE  insertion_sort(r) = PutAll(<<>>, r)
<1> DEFINE V == Seq(Classeds)
           T == {s \in Seq(Marks) : Len(s) <= kShortRun
                                      => Inserted(Classed(s)) = WithClass(PutAll(<<>>, s)) /\ Classed(s) \in V}
<1>1. ASSUME NEW a \in V, NEW m \in Classeds PROVE InsertMark(a, m) \in V
  <2> DEFINE p == Place(a, m.cc)
  <2>1. p \in 0 .. Len(a)
    <3> DEFINE t == {j \in DOMAIN a : a[j].cc <= m.cc}
    <3>1. t \in SUBSET (1 .. Len(a)) /\ Len(a) \in Nat
      OBVIOUS
    <3>2. p = Max({0} \cup t)
      BY DEF Place
    <3> HIDE DEF t, p
    <3> QED BY <3>1, <3>2, LastOrZero
  <2> HIDE DEF p
  <2>2. SubSeq(a, 1, p) \in V /\ SubSeq(a, p + 1, Len(a)) \in V
    BY <2>1, TakeDrop
  <2>3. (SubSeq(a, 1, p) \o <<m>>) \o SubSeq(a, p + 1, Len(a)) \in V
    <3> DEFINE u == SubSeq(a, 1, p)
               v == SubSeq(a, p + 1, Len(a))
    <3> HIDE DEF u, v
    <3>1. (u \o <<m>>) \o v \in V
      <4>1. u \in Seq(Classeds) /\ v \in Seq(Classeds) /\ <<m>> \in Seq(Classeds)
        BY <2>2 DEF u, v
      <4>2. u \o <<m>> \in Seq(Classeds)
        BY ONLY <4>1, ConcatProperties
      <4> QED BY ONLY <4>1, <4>2, ConcatProperties
    <3> QED BY <3>1 DEF u, v
  <2>4. (p + 1) - 1 = p
    BY <2>1
  <2> QED BY <2>3, <2>4 DEF InsertMark, InsertAt, p
<1>2. ASSUME NEW s \in V
      PROVE  /\ Inserted(<<>>) = <<>>
             /\ Inserted(s) \in V
             /\ \A m \in Classeds : Inserted(Append(s, m)) = InsertMark(Inserted(s), m)
  <2>1. <<>> \in V
    OBVIOUS
  <2>2. s \in Seq(Classeds)
    OBVIOUS
  <2> HIDE DEF V
  <2> QED BY <1>1, <2>1, <2>2, InsertFold
<1>3. <<>> \in T
  <2>1. Classed(<<>>) = <<>>
    BY DEF Classed
  <2>2. PutAll(<<>>, <<>>) = <<>>
    BY MarksAreNat, PutAllEach
  <2>3. WithClass(<<>>) = <<>>
    <3>1. WithClass(<<>>) \in Seq(Classeds) /\ Len(WithClass(<<>>)) = Len(<<>>)
      BY MarksAreNat, WithClassRuns
    <3> QED BY <3>1, EmptySeq
  <2>4. <<>> \in V
    OBVIOUS
  <2> HIDE DEF V
  <2> QED BY <1>2, <2>1, <2>2, <2>3, <2>4, MarksAreNat
<1>4. ASSUME NEW s \in T, NEW x \in Marks PROVE Append(s, x) \in T
  <2> DEFINE q == Append(s, x)
  <2>1. /\ s \in Seq(Marks) /\ s \in Seq(Nat) /\ x \in Nat /\ q \in Seq(Marks)
        /\ Len(q) = Len(s) + 1 /\ Len(s) \in Nat /\ q[Len(s) + 1] = x
        /\ \A i \in 1 .. Len(s) : q[i] = s[i]
    BY MarksAreNat
  <2> SUFFICES ASSUME Len(q) <= kShortRun
               PROVE  Inserted(Classed(q)) = WithClass(PutAll(<<>>, q)) /\ Classed(q) \in V
    BY <2>1
  <2>2. Len(s) + 1 <= kShortRun /\ kShortRun \in Nat
    BY <2>1, ShortRunAssumption
  <2>3. Inserted(Classed(s)) = WithClass(PutAll(<<>>, s)) /\ Classed(s) \in V
    BY <2>1, <2>2
  <2>4. ClassedOne(x) \in Classeds
    BY <2>1, WithClassRuns
  <2>5. Classed(q) = Append(Classed(s), ClassedOne(x))
    <3> DEFINE a == Classed(s)
               b == Append(a, ClassedOne(x))
    <3>1. DOMAIN s = 1 .. Len(s) /\ DOMAIN q = 1 .. Len(s) + 1
      BY <2>1
    <3>2. \A i \in 1 .. Len(s) : i <= kShortRun /\ q[i] = s[i]
      BY <2>1, <2>2
    <3>3. a = [i \in 1 .. Len(s) |-> ClassedOne(s[i])]
      BY <3>1, <3>2 DEF Classed, ClassedOne
    <3>4. \A i \in 1 .. Len(s) + 1 : i <= kShortRun /\ q[i] = IF i <= Len(s) THEN s[i] ELSE x
      BY <2>1, <2>2
    <3>5. Classed(q) = [i \in 1 .. Len(s) + 1 |-> ClassedOne(q[i])]
      <4> HIDE DEF q
      <4> QED BY <3>1, <3>4 DEF Classed, ClassedOne
    <3>6. Len(a) = Len(s) /\ a \in Seq(Classeds)
      <4>1. a \in Seq(Classeds)
        BY <2>3
      <4> HIDE DEF a
      <4> QED BY <2>1, <3>3, <4>1
    <3>7. b \in Seq(Classeds) /\ Len(b) = Len(s) + 1
          /\ \A i \in 1 .. Len(s) + 1 : b[i] = IF i <= Len(s) THEN a[i] ELSE ClassedOne(x)
      <4> HIDE DEF a
      <4> QED BY <2>1, <2>4, <3>6
    <3>8. b = [i \in 1 .. Len(s) + 1 |-> b[i]]
      <4> HIDE DEF b
      <4> QED BY <3>7
    <3>9. ASSUME NEW i \in 1 .. Len(s) + 1 PROVE b[i] = ClassedOne(q[i])
      <4> HIDE DEF a, b, q
      <4>1. CASE i <= Len(s)
        <5>1. i \in 1 .. Len(s)
          BY <2>1, <4>1
        <5>2. a[i] = ClassedOne(s[i])
          BY <3>3, <5>1
        <5> QED BY <3>4, <3>7, <4>1, <5>2
      <4>2. CASE ~ (i <= Len(s))
        BY <3>4, <3>7, <4>2
      <4> QED BY <4>1, <4>2
    <3> HIDE DEF a, b, q
    <3>10. Classed(q) = b
      BY <3>5, <3>8, <3>9
    <3> QED BY <3>10 DEF b, a
  <2>6. Inserted(Classed(q)) = InsertMark(Inserted(Classed(s)), ClassedOne(x))
    BY <1>2, <2>3, <2>4, <2>5
  <2>7. InsertMark(WithClass(PutAll(<<>>, s)), ClassedOne(x)) = WithClass(Put(PutAll(<<>>, s), x))
    <3>1. PutAll(<<>>, s) \in Seq(Nat)
      BY <2>1, MarksAreNat, PutAllEach
    <3> QED BY <3>1, InsertMarkIs
  <2>8. PutAll(<<>>, q) = Put(PutAll(<<>>, s), x)
    <3>1. s \in Seq(Nat) /\ x \in Nat /\ <<>> \in Seq(Nat)
      BY <2>1, MarksAreNat
    <3> QED BY <3>1, PutAllEach, Zenon
  <2>9. Classed(q) \in V
    <3>1. \A a \in Seq(Classeds), m \in Classeds : Append(a, m) \in Seq(Classeds)
      OBVIOUS
    <3> QED BY <2>3, <2>4, <2>5, <3>1
  <2> HIDE DEF q
  <2> QED BY <2>3, <2>6, <2>7, <2>8, <2>9
<1>5. T = Seq(Marks)
  <2>1. T \in SUBSET Seq(Marks)
    OBVIOUS
  <2> HIDE DEF T
  <2> QED BY <1>3, <1>4, <2>1, SeqInduction
<1>6. Inserted(Classed(r)) = WithClass(PutAll(<<>>, r))
  <2>1. r \in T
    BY <1>5
  <2> QED BY <2>1
<1>7. insertion_sort(r) = [k \in DOMAIN Inserted(Classed(r)) |-> Inserted(Classed(r))[k].cp]
  BY DEF insertion_sort, Inserted, InsertMark
<1>8. ASSUME NEW w \in Seq(Nat) PROVE [k \in DOMAIN WithClass(w) |-> WithClass(w)[k].cp] = w
  <2>1. DOMAIN WithClass(w) = 1 .. Len(w)
    BY DEF WithClass
  <2>2. \A k \in 1 .. Len(w) : WithClass(w)[k].cp = w[k]
    BY DEF WithClass
  <2>3. w = [k \in 1 .. Len(w) |-> w[k]]
    OBVIOUS
  <2> QED BY <2>1, <2>2, <2>3
<1>9. PutAll(<<>>, r) \in Seq(Nat)
  BY MarksAreNat, PutAllEach
<1> QED BY <1>6, <1>7, <1>8, <1>9

\* Each mark is found at its slot.
LEMMA CountingAt ==
    ASSUME NEW r \in Seq(Nat)
    PROVE  /\ counting_sort(r) \in Seq(Nat) /\ Len(counting_sort(r)) = Len(r)
           /\ \A k \in 1 .. Len(r) : Slot(r, k) \in 1 .. Len(r) /\ counting_sort(r)[Slot(r, k)] = r[k]
<1> DEFINE n == Len(r)
<1>1. DOMAIN r = 1 .. n /\ n \in Nat
  OBVIOUS
<1>2. counting_sort(r) \in Seq(Nat)
  BY CountingType
<1>3. DOMAIN counting_sort(r) = 1 .. n
  BY <1>1 DEF counting_sort
<1>4. Len(counting_sort(r)) = n
  BY <1>1, <1>2, <1>3
<1>5. \A k \in 1 .. n : Slot(r, k) \in 1 .. n
  BY <1>1, SlotOrder
<1>6. ASSUME NEW k \in 1 .. n, NEW j \in 1 .. n, Slot(r, j) = Slot(r, k) PROVE j = k
  <2> SUFFICES ASSUME j # k PROVE FALSE
    OBVIOUS
  <2>1. combining_class(r[j]) \in Nat /\ combining_class(r[k]) \in Nat
    BY ClassType
  <2>2. Before(r, j, k) \/ Before(r, k, j)
    BY <2>1 DEF Before
  <2>3. Slot(r, j) < Slot(r, k) \/ Slot(r, k) < Slot(r, j)
    <3>1. CASE Before(r, j, k)
      BY <1>1, <3>1, SlotOrder
    <3>2. CASE Before(r, k, j)
      BY <1>1, <3>2, SlotOrder
    <3> QED BY <2>2, <3>1, <3>2
  <2>4. Slot(r, j) \in Nat /\ Slot(r, k) \in Nat
    <3>1. Slot(r, j) \in 1 .. n /\ Slot(r, k) \in 1 .. n
      BY <1>5, Zenon
    <3> HIDE DEF n
    <3> QED BY ONLY <3>1
  <2> QED BY <1>6, <2>3, <2>4
<1>7. ASSUME NEW k \in 1 .. n PROVE counting_sort(r)[Slot(r, k)] = r[k]
  <2>1. Slot(r, k) \in 1 .. n
    BY <1>5
  <2>2. (CHOOSE j \in DOMAIN r : Slot(r, j) = Slot(r, k)) = k
    BY <1>1, <1>6
  <2> QED BY <1>1, <2>1, <2>2 DEF counting_sort
<1> QED BY <1>2, <1>4, <1>5, <1>7

\* What one more mark does to the slots of those before it.
LEMMA SlotShifts ==
    ASSUME NEW r \in Seq(Nat), NEW x \in Nat, NEW k \in 1 .. Len(r)
    PROVE  Slot(Append(r, x), k) = Slot(r, k) + (IF combining_class(x) < combining_class(r[k]) THEN 1 ELSE 0)
<1> DEFINE n == Len(r)
           q == Append(r, x)
           cc(i) == combining_class(r[i])
           L == {j \in 1 .. n : cc(j) < cc(k)}
           E == {j \in 1 .. k : cc(j) = cc(k)}
           M == {j \in 1 .. n + 1 : combining_class(q[j]) < cc(k)}
<1>1. /\ n \in Nat /\ DOMAIN r = 1 .. n /\ DOMAIN q = 1 .. n + 1 /\ q[n + 1] = x
      /\ \A i \in 1 .. n : q[i] = r[i]
  OBVIOUS
<1>2. \A i \in 1 .. k : i \in 1 .. n
  BY <1>1
<1>3. {j \in 1 .. k : combining_class(q[j]) = combining_class(q[k])} = E
  <2> HIDE DEF q
  <2> QED BY <1>1, <1>2
<1>4. Slot(r, k) = Cardinality(L) + Cardinality(E)
  BY <1>1 DEF Slot
<1>5. Slot(q, k) = Cardinality(M) + Cardinality(E)
  <2>1. q[k] = r[k]
    BY <1>1
  <2> HIDE DEF q, L, E
  <2>2. {j \in DOMAIN q : combining_class(q[j]) < combining_class(q[k])} = M
    BY <1>1, <2>1
  <2> HIDE DEF M
  <2> QED BY <1>1, <1>3, <2>2 DEF Slot
<1>6. /\ IsFiniteSet(L) /\ Cardinality(L) \in Nat /\ Cardinality(E) \in Nat
      /\ n + 1 \notin L
  <2>1. L \in SUBSET (1 .. n) /\ E \in SUBSET (1 .. n) /\ n + 1 \notin 1 .. n
    BY <1>1, <1>2
  <2>0. IsFiniteSet(1 .. n)
    BY <1>1, FS_Interval
  <2> HIDE DEF L, E
  <2>2. IsFiniteSet(L) /\ IsFiniteSet(E)
    BY <2>0, <2>1, FS_Subset
  <2> QED BY <2>1, <2>2, FS_CardinalityType
<1>7. \A j \in 1 .. n + 1 : j = n + 1 \/ j \in 1 .. n
  BY <1>1
<1>8. CASE combining_class(x) < cc(k)
  <2>1. M = L \cup {n + 1}
    <3> HIDE DEF q
    <3> QED BY <1>1, <1>7, <1>8
  <2>2. Cardinality(M) = Cardinality(L) + 1
    <3> HIDE DEF L, M
    <3> QED BY <1>6, <2>1, FS_AddElement
  <2> HIDE DEF L, M, E, q
  <2> QED BY <1>4, <1>5, <1>6, <1>8, <2>2 DEF q
<1>9. CASE ~ (combining_class(x) < cc(k))
  <2>1. M = L
    <3> HIDE DEF q
    <3> QED BY <1>1, <1>7, <1>9
  <2> HIDE DEF L, M, E, q
  <2> QED BY <1>4, <1>5, <1>6, <1>9, <2>1 DEF q
<1> QED BY <1>8, <1>9

LEMMA NotLast == \A n \in Nat : \A k \in 1 .. n + 1 : k # n + 1 => k \in 1 .. n
OBVIOUS

LEMMA CountingAppend ==
    ASSUME NEW r \in Seq(Marks), NEW x \in Marks
    PROVE  counting_sort(Append(r, x)) = Put(counting_sort(r), x)
<1> DEFINE n == Len(r)
           q == Append(r, x)
           w == counting_sort(r)
           z == counting_sort(q)
           c == combining_class(x)
           m == Slot(q, n + 1) - 1
           u == SubSeq(w, 1, m)
           v == SubSeq(w, m + 1, Len(w))
<1>0. r \in Seq(Nat) /\ x \in Nat /\ c > 0 /\ c \in Nat
  BY MarksAreNat, ClassType DEF Marks
<1>1. /\ n \in Nat /\ q \in Seq(Nat) /\ Len(q) = n + 1 /\ q[n + 1] = x
      /\ DOMAIN q = 1 .. n + 1 /\ n + 1 \in 1 .. n + 1
      /\ \A i \in 1 .. n : q[i] = r[i] /\ i \in 1 .. n + 1
  BY <1>0
<1>2. /\ w \in Seq(Nat) /\ Len(w) = n
      /\ \A k \in 1 .. n : Slot(r, k) \in 1 .. n /\ w[Slot(r, k)] = r[k]
  BY <1>0, CountingAt
<1>3. /\ z \in Seq(Nat) /\ Len(z) = n + 1
      /\ \A k \in 1 .. n + 1 : Slot(q, k) \in 1 .. n + 1 /\ z[Slot(q, k)] = q[k]
  <2> HIDE DEF q
  <2> QED BY <1>1, CountingAt
<1>4. \A k \in 1 .. n : Slot(q, k) = Slot(r, k) + (IF c < combining_class(r[k]) THEN 1 ELSE 0)
  BY <1>0, SlotShifts
<1>5. \A k, j \in 1 .. n + 1 : Before(q, k, j) => Slot(q, k) < Slot(q, j)
  <2> HIDE DEF q
  <2> QED BY <1>1, SlotOrder
<1> HIDE DEF z, w, q
<1>6. \A k \in 1 .. n : combining_class(r[k]) \in Nat
  BY ClassType
<1>7. ASSUME NEW k \in 1 .. n
      PROVE  /\ combining_class(r[k]) <= c => Slot(q, k) < m + 1 /\ Slot(q, k) = Slot(r, k)
             /\ combining_class(r[k]) > c => Slot(q, k) > m + 1 /\ Slot(q, k) = Slot(r, k) + 1
  <2>1. q[k] = r[k] /\ q[n + 1] = x /\ k \in 1 .. n + 1 /\ k < n + 1
    BY <1>1
  <2>2. Slot(q, k) \in Nat /\ Slot(q, n + 1) \in Nat /\ Slot(r, k) \in Nat
    <3>1. Slot(q, k) \in 1 .. n + 1 /\ Slot(q, n + 1) \in 1 .. n + 1 /\ Slot(r, k) \in 1 .. n
      BY <1>1, <1>2, <1>3, <2>1
    <3> QED BY <3>1
  <2>3. m + 1 = Slot(q, n + 1)
    BY <2>2
  <2> HIDE DEF m
  <2>4. CASE combining_class(r[k]) <= c
    <3>1. Before(q, k, n + 1)
      <4> HIDE DEF c
      <4> QED BY <1>0, <1>6, <2>1, <2>4 DEF Before, c
    <3>2. Slot(q, k) = Slot(r, k)
      BY <1>0, <1>4, <1>6, <2>2, <2>4
    <3> QED BY <1>0, <1>1, <1>5, <1>6, <2>1, <2>3, <2>4, <3>1, <3>2
  <2>5. CASE combining_class(r[k]) > c
    <3>1. Before(q, n + 1, k)
      <4> HIDE DEF c
      <4> QED BY <1>0, <1>6, <2>1, <2>5 DEF Before, c
    <3>2. Slot(q, k) = Slot(r, k) + 1
      BY <1>0, <1>4, <1>6, <2>2, <2>5
    <3>3. Slot(q, n + 1) < Slot(q, k)
      BY <1>1, <1>5, <2>1, <3>1
    <3> QED BY <1>0, <1>6, <2>2, <2>3, <2>5, <3>2, <3>3
  <2> QED BY <1>0, <1>6, <2>4, <2>5
<1>8. m \in 0 .. n /\ m + 1 = Slot(q, n + 1)
  <2>1. Slot(q, n + 1) \in 1 .. n + 1
    BY <1>1, <1>3
  <2> QED BY <1>1, <2>1
<1>9. \A p \in 1 .. n + 1 : \E k \in 1 .. n + 1 : Slot(q, k) = p
  <2>1. n + 1 \in Nat
    BY <1>1
  <2> QED BY <1>1, <2>1, SlotTaken
<1>10. z[m + 1] = x
  <2> HIDE DEF m
  <2>1. z[Slot(q, n + 1)] = q[n + 1]
    BY ONLY <1>1, <1>3
  <2>2. z[m + 1] = z[Slot(q, n + 1)]
    BY ONLY <1>8
  <2>3. q[n + 1] = x
    BY ONLY <1>1
  <2> QED BY ONLY <2>1, <2>2, <2>3
<1> HIDE DEF m
<1>11. ASSUME NEW p \in 1 .. n, p <= m PROVE z[p] = w[p] /\ combining_class(w[p]) <= c
  <2>1. PICK k \in 1 .. n + 1 : Slot(q, k) = p
    BY <1>1, <1>9
  <2>2. k # n + 1
    <3>1. k = n + 1 => p = m + 1
      BY <1>8, <2>1, Zenon
    <3>2. p # m + 1
      <4>1. p \in Int /\ m \in Int
        BY <1>8
      <4> HIDE DEF m
      <4> QED BY ONLY <1>11, <4>1
    <3> QED BY <3>1, <3>2, Zenon
  <2>3. k \in 1 .. n
    <3>1. n \in Nat
      BY <1>1
    <3> HIDE DEF n
    <3> QED BY <2>2, <3>1, NotLast, Zenon
  <2>4. ~ (combining_class(r[k]) > c)
    BY <1>7, <1>8, <1>11, <2>1, <2>3
  <2>5. combining_class(r[k]) <= c
    BY <1>0, <1>6, <2>3, <2>4
  <2>6. Slot(r, k) = p
    BY <1>7, <2>1, <2>3, <2>5
  <2>7. z[p] = q[k] /\ q[k] = r[k] /\ w[p] = r[k]
    BY <1>1, <1>2, <1>3, <2>1, <2>3, <2>6
  <2> QED BY <2>5, <2>7
<1>12. ASSUME NEW p \in 1 .. n, p > m PROVE z[p + 1] = w[p] /\ combining_class(w[p]) > c
  <2>0. p + 1 \in 1 .. n + 1
    BY <1>1
  <2>1. PICK k \in 1 .. n + 1 : Slot(q, k) = p + 1
    BY <1>9, <2>0
  <2>2. k # n + 1
    <3>1. k = n + 1 => p + 1 = m + 1
      BY <1>8, <2>1, Zenon
    <3>2. p + 1 # m + 1
      <4>1. p \in Int /\ m \in Int
        BY <1>8
      <4> HIDE DEF m
      <4> QED BY ONLY <1>12, <4>1
    <3> QED BY <3>1, <3>2, Zenon
  <2>3. k \in 1 .. n
    <3>1. n \in Nat
      BY <1>1
    <3> HIDE DEF n
    <3> QED BY <2>2, <3>1, NotLast, Zenon
  <2>4. ~ (combining_class(r[k]) <= c)
    BY <1>7, <1>8, <1>12, <2>1, <2>3
  <2>5. combining_class(r[k]) > c
    BY <1>0, <1>6, <2>3, <2>4
  <2>6. Slot(r, k) = p
    BY <1>2, <1>7, <2>1, <2>3, <2>5
  <2>7. z[p + 1] = q[k] /\ q[k] = r[k] /\ w[p] = r[k]
    BY <1>1, <1>2, <1>3, <2>1, <2>3, <2>6
  <2> QED BY <2>5, <2>7
<1>13. /\ u \in Seq(Nat) /\ Len(u) = m /\ \A i \in 1 .. m : u[i] = w[i]
       /\ v \in Seq(Nat) /\ Len(v) = n - m /\ \A i \in 1 .. n - m : v[i] = w[m + i]
       /\ w = u \o v
  <2>1. Len(w) = n /\ m \in 0 .. Len(w) /\ w \in Seq(Nat)
    BY ONLY <1>2, <1>8
  <2>2. /\ u \in Seq(Nat) /\ Len(u) = m /\ \A i \in 1 .. m : u[i] = w[i]
        /\ v \in Seq(Nat) /\ Len(v) = Len(w) - m /\ \A i \in 1 .. Len(w) - m : v[i] = w[m + i]
        /\ w = u \o v
    BY ONLY <2>1, TakeDrop DEF u, v
  <2> HIDE DEF u, v
  <2> QED BY ONLY <2>1, <2>2
<1> HIDE DEF u, v
<1>14. Around(u, v, x)
  <2>1. Len(u) > 0 => combining_class(u[Len(u)]) <= c
    BY <1>8, <1>11, <1>13
  <2>2. ASSUME NEW j \in 1 .. Len(v) PROVE combining_class(v[j]) > c
    <3>0. j \in 1 .. n - m
      BY <1>13
    <3>1. v[j] = w[m + j]
      BY ONLY <1>13, <3>0
    <3>2. n \in Nat /\ m \in 0 .. n
      BY ONLY <1>1, <1>8
    <3>3. m + j \in 1 .. n /\ m + j > m
      BY ONLY <3>0, <3>2
    <3>4. combining_class(w[m + j]) > c
      BY ONLY <1>12, <3>3
    <3> QED BY ONLY <3>1, <3>4
  <2> QED BY <1>0, <2>1, <2>2 DEF Around
<1>15. Put(w, x) = (u \o <<x>>) \o v
  BY <1>0, <1>13, <1>14, PutAt
<1>16. z = (u \o <<x>>) \o v
  <2> DEFINE y == (u \o <<x>>) \o v
  <2>1. /\ y \in Seq(Nat) /\ Len(y) = (m + 1) + (n - m)
        /\ \A i \in 1 .. m : y[i] = u[i]
        /\ y[m + 1] = x
        /\ \A i \in 1 .. n - m : y[(m + 1) + i] = v[i]
    <3>1. u \in Seq(Nat) /\ v \in Seq(Nat) /\ Len(u) = m /\ Len(v) = n - m
      BY <1>13
    <3>2. x \in Nat
      BY <1>0
    <3>3. /\ y \in Seq(Nat) /\ Len(y) = (Len(u) + 1) + Len(v)
          /\ \A i \in 1 .. Len(u) : y[i] = u[i]
          /\ y[Len(u) + 1] = x
          /\ \A i \in 1 .. Len(v) : y[(Len(u) + 1) + i] = v[i]
      <4>1. \A a, b \in Seq(Nat), e \in Nat :
              /\ (a \o <<e>>) \o b \in Seq(Nat) /\ Len((a \o <<e>>) \o b) = (Len(a) + 1) + Len(b)
              /\ \A i \in 1 .. Len(a) : ((a \o <<e>>) \o b)[i] = a[i]
              /\ ((a \o <<e>>) \o b)[Len(a) + 1] = e
              /\ \A i \in 1 .. Len(b) : ((a \o <<e>>) \o b)[(Len(a) + 1) + i] = b[i]
        BY ONLY Spliced
      <4>2. u \in Seq(Nat) /\ v \in Seq(Nat)
        BY ONLY <3>1
      <4> QED BY ONLY <3>2, <4>1, <4>2, Zenon DEF y
    <3> HIDE DEF y
    <3> QED BY ONLY <3>1, <3>3
  <2> HIDE DEF y
  <2>2. Len(y) = Len(z)
    BY <1>1, <1>3, <1>8, <2>1
  <2>3. ASSUME NEW i \in 1 .. n + 1 PROVE z[i] = y[i]
    <3>1. CASE i <= m
      <4>1. i \in 1 .. n /\ i \in 1 .. m
        BY <1>1, <1>8, <3>1
      <4> QED BY <1>11, <1>13, <2>1, <3>1, <4>1
    <3>2. CASE i = m + 1
      BY <1>10, <2>1, <3>2
    <3>3. CASE i > m + 1
      <4>1. i - 1 \in 1 .. n /\ i - 1 > m /\ (i - 1) + 1 = i
        BY <1>1, <1>8, <3>3
      <4>2. z[i] = w[i - 1]
        BY <1>12, <4>1
      <4>3. i - (m + 1) \in 1 .. n - m /\ (m + 1) + (i - (m + 1)) = i /\ m + (i - (m + 1)) = i - 1
        BY <1>1, <1>8, <3>3
      <4>4. y[i] = v[i - (m + 1)] /\ v[i - (m + 1)] = w[i - 1]
        <5> DEFINE j == i - (m + 1)
        <5>1. j \in 1 .. n - m /\ (m + 1) + j = i /\ m + j = i - 1
          BY <4>3
        <5> HIDE DEF j
        <5>2. y[(m + 1) + j] = v[j]
          BY <2>1, <5>1
        <5>3. v[j] = w[m + j]
          BY <1>13, <5>1
        <5> QED BY <5>1, <5>2, <5>3, Zenon DEF j
      <4> QED BY <4>2, <4>4
    <3>4. i <= m \/ i = m + 1 \/ i > m + 1
      BY <1>1, <1>8
    <3> QED BY <3>1, <3>2, <3>3, <3>4
  <2>4. z = y
    BY <1>3, <2>1, <2>2, <2>3, SeqEqual
  <2> QED BY <2>4 DEF y
<1> QED BY <1>15, <1>16 DEF z, w, q

LEMMA RegroupAround ==
    ASSUME NEW d \in Seq(Nat), NEW u \in Seq(Nat), NEW v \in Seq(Nat), NEW x \in Nat
    PROVE  ((d \o u) \o <<x>>) \o v = d \o ((u \o <<x>>) \o v)
<1> DEFINE m == <<x>>
<1>1. m \in Seq(Nat)
  OBVIOUS
<1> HIDE DEF m
<1>2. (d \o u) \o m = d \o (u \o m)
  <2>1. Regroups(d, u, m)
    BY <1>1, Regrouped
  <2> QED BY <2>1 DEF Regroups
<1> DEFINE um == u \o m
<1>3. um \in Seq(Nat)
  BY <1>1
<1> HIDE DEF um
<1>4. d \o (um \o v) = (d \o um) \o v
  <2>1. Regroups(d, um, v)
    BY <1>3, Regrouped
  <2> QED BY <2>1 DEF Regroups
<1> QED BY <1>2, <1>4 DEF um, m

LEMMA PutAtEach ==
    \A u, v \in Seq(Nat), x \in Nat : Around(u, v, x) => Put(u \o v, x) = (u \o <<x>>) \o v
BY PutAt

LEMMA CountingIs ==
    ASSUME NEW r \in Seq(Marks)
    PROVE  counting_sort(r) = PutAll(<<>>, r)
<1> DEFINE T == {s \in Seq(Marks) : counting_sort(s) = PutAll(<<>>, s)}
<1>1. <<>> \in T
  <2>1. <<>> \in Seq(Nat) /\ <<>> \in Seq(Marks) /\ Len(<<>>) = 0
    BY MarksAreNat
  <2>2. counting_sort(<<>>) \in Seq(Nat) /\ Len(counting_sort(<<>>)) = 0
    BY <2>1, CountingAt
  <2>3. counting_sort(<<>>) = <<>>
    BY <2>2
  <2>4. PutAll(<<>>, <<>>) = <<>>
    BY <2>1, PutAllEach
  <2> QED BY <2>1, <2>3, <2>4
<1>2. ASSUME NEW s \in T, NEW x \in Marks PROVE Append(s, x) \in T
  <2>1. s \in Seq(Marks) /\ s \in Seq(Nat) /\ x \in Nat /\ Append(s, x) \in Seq(Marks) /\ <<>> \in Seq(Nat)
    BY MarksAreNat
  <2>2. counting_sort(s) = PutAll(<<>>, s)
    OBVIOUS
  <2>3. counting_sort(Append(s, x)) = Put(counting_sort(s), x)
    BY <2>1, CountingAppend
  <2>4. PutAll(<<>>, Append(s, x)) = Put(PutAll(<<>>, s), x)
    BY <2>1, PutAllEach
  <2> QED BY <2>1, <2>2, <2>3, <2>4
<1>3. T = Seq(Marks)
  <2>1. T \in SUBSET Seq(Marks)
    OBVIOUS
  <2> HIDE DEF T
  <2> QED BY <1>1, <1>2, <2>1, SeqInduction
<1>4. r \in T
  BY <1>3
<1> QED BY <1>4

LEMMA SortIs == \A r \in Seq(Marks) : SortRun(r) = PutAll(<<>>, r)
<1> SUFFICES ASSUME NEW r \in Seq(Marks) PROVE SortRun(r) = PutAll(<<>>, r)
  OBVIOUS
<1>1. CASE InOrder(r)
  BY <1>1, InOrderIs DEF SortRun
<1>2. CASE ~ InOrder(r) /\ Len(r) <= kShortRun
  BY <1>2, InsertionIs DEF SortRun
<1>3. CASE ~ InOrder(r) /\ ~ (Len(r) <= kShortRun)
  BY <1>3, CountingIs DEF SortRun
<1> QED BY <1>1, <1>2, <1>3

\* What is scanned: done up to the last starter, and the marks since.
Halfway == {st \in [done : Seq(Nat), run : Seq(Marks)] :
              Len(st.done) > 0 => combining_class(st.done[Len(st.done)]) = 0}

\* A run of marks goes on after what ends with a starter.
LEMMA PutAfter ==
    ASSUME NEW d \in Seq(Nat), NEW w \in Seq(Nat), NEW x \in Marks,
           Len(d) > 0 => combining_class(d[Len(d)]) = 0
    PROVE  Put(d \o w, x) = d \o Put(w, x)
<1>0. x \in Nat /\ combining_class(x) > 0 /\ combining_class(x) \in Nat
  BY MarksAreNat, ClassType DEF Marks
<1>1. PICK u \in Seq(Nat), v \in Seq(Nat) : w = u \o v /\ Put(w, x) = (u \o <<x>>) \o v /\ Around(u, v, x)
  BY <1>0, PutSplits
<1>2. d \o u \in Seq(Nat) /\ Len(d \o u) = Len(d) + Len(u) /\ Len(d) \in Nat /\ Len(u) \in Nat
      /\ (Len(u) > 0 => (d \o u)[Len(d) + Len(u)] = u[Len(u)])
      /\ (Len(u) = 0 => d \o u = d)
  OBVIOUS
<1>3. Around(d \o u, v, x)
  <2>1. Len(d \o u) > 0 => combining_class((d \o u)[Len(d \o u)]) <= combining_class(x)
    <3>1. CASE Len(u) > 0
      BY <1>0, <1>1, <1>2, <3>1 DEF Around
    <3>2. CASE Len(u) = 0
      <4>1. d \o u = d
        BY <1>2, <3>2
      <4> QED BY <1>0, <4>1
    <3> QED BY <1>2, <3>1, <3>2
  <2> QED BY <1>0, <1>1, <2>1 DEF Around
<1>4. Put((d \o u) \o v, x) = ((d \o u) \o <<x>>) \o v
  BY <1>0, <1>2, <1>3, PutAt
<1>5. <<x>> \in Seq(Nat)
  BY <1>0
<1>6. (d \o u) \o v = d \o (u \o v)
  OBVIOUS
<1>7. ((d \o u) \o <<x>>) \o v = d \o ((u \o <<x>>) \o v)
  <2> DEFINE Same(a, b, c, y) == ((a \o b) \o <<y>>) \o c = a \o ((b \o <<y>>) \o c)
  <2>1. \A a, b, c \in Seq(Nat), y \in Nat : Same(a, b, c, y)
    BY RegroupAround
  <2> HIDE DEF Same
  <2>2. Same(d, u, v, x)
    BY <1>0, <2>1
  <2> QED BY ONLY <2>2 DEF Same
<1> QED BY <1>1, <1>4, <1>6, <1>7

\* A starter goes at the end.
LEMMA PutStarter ==
    ASSUME NEW w \in Seq(Nat), NEW x \in Nat, combining_class(x) = 0
    PROVE  Put(w, x) = Append(w, x)
<1>1. Around(w, <<>>, x)
  BY DEF Around
<1>2. Put(w \o <<>>, x) = (w \o <<x>>) \o <<>>
  <2>1. <<>> \in Seq(Nat)
    OBVIOUS
  <2> QED BY <1>1, <2>1, PutAtEach
<1>3. w \o <<>> = w /\ (w \o <<x>>) \o <<>> = Append(w, x)
  OBVIOUS
<1> QED BY <1>2, <1>3

LEMMA ScanStepOrders ==
    ASSUME NEW st \in Halfway, NEW x \in Nat
    PROVE  /\ ScanStep(st, x) \in Halfway
           /\ st.done \o SortRun(st.run) \in Seq(Nat)
           /\ ScanStep(st, x).done \o SortRun(ScanStep(st, x).run) = Put(st.done \o SortRun(st.run), x)
<1> DEFINE d == st.done
           r == st.run
           q == ScanStep(st, x)
<1>1. /\ d \in Seq(Nat) /\ r \in Seq(Marks) /\ r \in Seq(Nat) /\ (Len(d) > 0 => combining_class(d[Len(d)]) = 0)
      /\ <<>> \in Seq(Nat) /\ <<>> \in Seq(Marks)
  BY MarksAreNat DEF Halfway
<1>2. SortRun(r) = PutAll(<<>>, r) /\ SortRun(r) \in Seq(Nat)
  BY <1>1, SortIs, PutAllEach
<1>3. d \o SortRun(r) \in Seq(Nat)
  BY <1>1, <1>2
<1>4. CASE combining_class(x) = 0
  <2> DEFINE e == Append(d \o SortRun(r), x)
  <2>1. q = [done |-> e, run |-> <<>>]
    BY <1>4 DEF ScanStep
  <2>2. e \in Seq(Nat) /\ e[Len(e)] = x
    <3>1. \A t \in Seq(Nat) : Append(t, x) \in Seq(Nat) /\ Append(t, x)[Len(Append(t, x))] = x
      OBVIOUS
    <3> QED BY <1>3, <3>1, Zenon
  <2>3. q.done = e /\ q.run = <<>>
    <3> HIDE DEF e, q
    <3> QED BY <2>1
  <2> HIDE DEF e, q
  <2>4. q \in Halfway
    <3>1. q \in [done : Seq(Nat), run : Seq(Marks)]
      BY <1>1, <2>1, <2>2
    <3> QED BY <1>4, <2>2, <2>3, <3>1 DEF Halfway
  <2>5. q.done \o SortRun(q.run) = e
    BY <2>2, <2>3, SortEmpty
  <2> QED BY <1>3, <1>4, <2>4, <2>5, PutStarter DEF e, q
<1>5. CASE combining_class(x) # 0
  <2>0. x \in Marks
    BY <1>5, ClassType DEF Marks
  <2>1. q = [st EXCEPT !.run = Append(@, x)]
    BY <1>5 DEF ScanStep
  <2>2. q.done = d /\ q.run = Append(r, x) /\ q \in [done : Seq(Nat), run : Seq(Marks)]
    <3>1. Append(r, x) \in Seq(Marks)
      BY <1>1, <2>0
    <3>2. st \in [done : Seq(Nat), run : Seq(Marks)]
      BY DEF Halfway
    <3> HIDE DEF Halfway, q
    <3> QED BY <2>1, <3>1, <3>2
  <2> HIDE DEF q
  <2>3. q \in Halfway
    BY <1>1, <2>2 DEF Halfway
  <2>4. SortRun(Append(r, x)) = Put(SortRun(r), x)
    <3>1. Append(r, x) \in Seq(Marks)
      BY <1>1, <2>0
    <3>2. SortRun(Append(r, x)) = PutAll(<<>>, Append(r, x))
      BY <3>1, SortIs
    <3>3. PutAll(<<>>, Append(r, x)) = Put(PutAll(<<>>, r), x)
      BY <1>1, PutAllEach
    <3> QED BY <1>2, <3>2, <3>3
  <2>5. Put(d \o SortRun(r), x) = d \o Put(SortRun(r), x)
    BY <1>1, <1>2, <2>0, PutAfter
  <2> QED BY <1>3, <2>2, <2>3, <2>4, <2>5 DEF q
<1> QED BY <1>4, <1>5

\* Canonical ordering puts one code point at a time where it belongs.
LEMMA CanonicalOrderRuns ==
    /\ canonical_order(<<>>) = <<>>
    /\ \A v \in Seq(Nat) : canonical_order(v) \in Seq(Nat)
    /\ \A v \in Seq(Nat), x \in Nat : canonical_order(Append(v, x)) = Put(canonical_order(v), x)
<1>1. Unscanned \in Halfway
  BY MarksAreNat DEF Unscanned, Halfway
<1>2. \A st \in Halfway, x \in Nat : ScanStep(st, x) \in Halfway
  BY ScanStepOrders
<1>3. ASSUME NEW v \in Seq(Nat)
      PROVE  /\ Scanned(<<>>) = Unscanned /\ Scanned(v) \in Halfway
             /\ \A x \in Nat : Scanned(Append(v, x)) = ScanStep(Scanned(v), x)
  BY <1>1, <1>2, ScanFold
<1>4. canonical_order(<<>>) = <<>>
  <2>1. <<>> \in Seq(Nat)
    OBVIOUS
  <2>2. Scanned(<<>>) = Unscanned
    BY <1>3, <2>1
  <2>3. Scanned(<<>>).done = <<>> /\ Scanned(<<>>).run = <<>>
    BY <2>2 DEF Unscanned
  <2>4. canonical_order(<<>>) = Scanned(<<>>).done \o SortRun(Scanned(<<>>).run)
    BY CanonicalOrderIs
  <2>5. canonical_order(<<>>) = <<>> \o <<>>
    BY <2>3, <2>4, SortEmpty
  <2> QED BY <2>5
<1>5. ASSUME NEW v \in Seq(Nat), NEW x \in Nat
      PROVE  canonical_order(v) \in Seq(Nat) /\ canonical_order(Append(v, x)) = Put(canonical_order(v), x)
  <2>1. Scanned(v) \in Halfway /\ Scanned(Append(v, x)) = ScanStep(Scanned(v), x)
    BY <1>3
  <2>2. /\ Scanned(v).done \o SortRun(Scanned(v).run) \in Seq(Nat)
        /\ ScanStep(Scanned(v), x).done \o SortRun(ScanStep(Scanned(v), x).run)
             = Put(Scanned(v).done \o SortRun(Scanned(v).run), x)
    BY <2>1, ScanStepOrders
  <2> QED BY <2>1, <2>2, CanonicalOrderIs
<1> QED BY <1>4, <1>5

LEMMA CanonicalOrderAll ==
    ASSUME NEW v \in Seq(Nat)
    PROVE  canonical_order(v) = PutAll(<<>>, v)
<1> DEFINE T == {s \in Seq(Nat) : canonical_order(s) = PutAll(<<>>, s)}
<1>1. <<>> \in T
  <2>1. <<>> \in Seq(Nat)
    OBVIOUS
  <2>2. PutAll(<<>>, <<>>) = <<>>
    BY <2>1, PutAllEach
  <2>3. canonical_order(<<>>) = <<>>
    BY CanonicalOrderRuns
  <2> QED BY <2>1, <2>2, <2>3
<1>2. ASSUME NEW s \in T, NEW x \in Nat PROVE Append(s, x) \in T
  <2>1. s \in Seq(Nat) /\ Append(s, x) \in Seq(Nat) /\ <<>> \in Seq(Nat)
    OBVIOUS
  <2>2. canonical_order(s) = PutAll(<<>>, s)
    OBVIOUS
  <2>3. PutAll(<<>>, Append(s, x)) = Put(PutAll(<<>>, s), x)
    BY <2>1, PutAllEach
  <2>4. canonical_order(Append(s, x)) = Put(canonical_order(s), x)
    BY <2>1, CanonicalOrderRuns
  <2> QED BY <2>1, <2>2, <2>3, <2>4
<1>3. T = Seq(Nat)
  <2>1. T \in SUBSET Seq(Nat)
    OBVIOUS
  <2> HIDE DEF T
  <2> QED BY <1>1, <1>2, <2>1, SeqInduction
<1>4. v \in T
  BY <1>3
<1> QED BY <1>4

-----------------------------------------------------------------------------
(* Ordered, and stable.                                                      *)

Ordered(w) ==
    \A i \in 2 .. Len(w) : ~ (combining_class(w[i - 1]) > combining_class(w[i]) /\ combining_class(w[i]) > 0)

LEMMA PutOrdered ==
    ASSUME NEW w \in Seq(Nat), NEW x \in Nat, Ordered(w)
    PROVE  Ordered(Put(w, x))
<1>1. PICK u \in Seq(Nat), v \in Seq(Nat) : w = u \o v /\ Put(w, x) = (u \o <<x>>) \o v /\ Around(u, v, x)
  BY PutSplits
<1> DEFINE z == (u \o <<x>>) \o v
           cc(y) == combining_class(y)
<1>2. /\ z \in Seq(Nat) /\ Len(z) = (Len(u) + 1) + Len(v)
      /\ \A i \in 1 .. Len(u) : z[i] = u[i]
      /\ z[Len(u) + 1] = x
      /\ \A i \in 1 .. Len(v) : z[(Len(u) + 1) + i] = v[i]
  BY Spliced
<1>3. /\ Len(u) \in Nat /\ Len(v) \in Nat /\ Len(w) = Len(u) + Len(v)
      /\ \A i \in 1 .. Len(u) : w[i] = u[i]
      /\ \A i \in 1 .. Len(v) : w[Len(u) + i] = v[i]
  BY <1>1
<1> HIDE DEF z
<1>4. \A y \in Nat : cc(y) \in Nat
  BY ClassType
<1>5. cc(x) \in Nat
  BY ClassType
<1>6. ASSUME NEW i \in 2 .. Len(z) PROVE ~ (cc(z[i - 1]) > cc(z[i]) /\ cc(z[i]) > 0)
  <2>1. CASE i <= Len(u)
    <3>1. i \in 1 .. Len(u) /\ i - 1 \in 1 .. Len(u) /\ i \in 2 .. Len(w)
      BY <1>3, <2>1
    <3>2. z[i] = w[i] /\ z[i - 1] = w[i - 1]
      BY <1>2, <1>3, <3>1
    <3> QED BY <3>1, <3>2 DEF Ordered
  <2>2. CASE i = Len(u) + 1
    <3>1. i - 1 = Len(u) /\ Len(u) > 0 /\ Len(u) \in 1 .. Len(u)
      BY <1>3, <2>2
    <3>2. z[i] = x /\ z[i - 1] = u[Len(u)]
      BY <1>2, <2>2, <3>1
    <3>3. cc(x) > 0 => cc(u[Len(u)]) <= cc(x)
      BY <1>1, <3>1 DEF Around
    <3>4. cc(u[Len(u)]) \in Nat
      BY ClassType
    <3> QED BY <1>5, <3>2, <3>3, <3>4
  <2>3. CASE i = Len(u) + 2
    <3>1. i - 1 = Len(u) + 1 /\ 1 \in 1 .. Len(v) /\ (Len(u) + 1) + 1 = i
      BY <1>2, <1>3, <2>3
    <3>2. z[i] = v[1] /\ z[i - 1] = x
      BY <1>2, <3>1
    <3>3. cc(v[1]) > cc(x)
      BY <1>1, <3>1 DEF Around
    <3>4. cc(v[1]) \in Nat
      BY ClassType
    <3> QED BY <1>5, <3>2, <3>3, <3>4
  <2>4. CASE i > Len(u) + 2
    <3> DEFINE j == i - (Len(u) + 1)
    <3>0. i \in Int /\ i <= Len(z)
      <4>1. Len(z) \in Nat
        BY <1>2
      <4> QED BY <4>1
    <3>a. j \in Int /\ j = i - (Len(u) + 1)
      BY <1>3, <3>0
    <3> HIDE DEF j
    <3>b. j >= 2 /\ j <= Len(v)
      BY <1>2, <1>3, <2>4, <3>0, <3>a
    <3>c. (Len(u) + 1) + j = i /\ (Len(u) + 1) + (j - 1) = i - 1
          /\ Len(u) + j = i - 1 /\ Len(u) + (j - 1) = (i - 1) - 1
      BY <1>3, <3>0, <3>a
    <3>d. j \in 1 .. Len(v) /\ j - 1 \in 1 .. Len(v)
      BY <1>3, <3>a, <3>b
    <3>e. i - 1 \in 2 .. Len(w)
      <4>1. i - 1 = Len(u) + j /\ Len(w) = Len(u) + Len(v) /\ Len(u) \in Nat /\ Len(v) \in Nat
        BY <1>3, <3>c
      <4> QED BY ONLY <3>a, <3>b, <4>1
    <3>1. j \in 1 .. Len(v) /\ j - 1 \in 1 .. Len(v) /\ (Len(u) + 1) + j = i /\ (Len(u) + 1) + (j - 1) = i - 1
          /\ Len(u) + j = i - 1 /\ Len(u) + (j - 1) = (i - 1) - 1 /\ i - 1 \in 2 .. Len(w)
      BY <3>c, <3>d, <3>e
    <3>2. z[i] = v[j] /\ z[i - 1] = v[j - 1]
      BY <1>2, <3>1
    <3>3. w[i - 1] = v[j] /\ w[(i - 1) - 1] = v[j - 1]
      BY <1>3, <3>1
    <3> QED BY <3>1, <3>2, <3>3 DEF Ordered
  <2>5. i <= Len(u) \/ i = Len(u) + 1 \/ i = Len(u) + 2 \/ i > Len(u) + 2
    BY <1>3
  <2> QED BY <2>1, <2>2, <2>3, <2>4, <2>5
<1> QED BY <1>1, <1>6 DEF Ordered, z

LEMMA CanonicalOrdered ==
    ASSUME NEW v \in Seq(Nat)
    PROVE  Ordered(canonical_order(v))
<1> DEFINE T == {s \in Seq(Nat) : Ordered(canonical_order(s))}
<1>1. <<>> \in T
  <2>1. <<>> \in Seq(Nat) /\ Len(<<>>) = 0
    OBVIOUS
  <2>2. Ordered(<<>>)
    BY <2>1 DEF Ordered
  <2> QED BY <2>1, <2>2, CanonicalOrderRuns
<1>2. ASSUME NEW s \in T, NEW x \in Nat PROVE Append(s, x) \in T
  <2>1. s \in Seq(Nat) /\ Append(s, x) \in Seq(Nat) /\ canonical_order(s) \in Seq(Nat)
    BY CanonicalOrderRuns
  <2>2. Ordered(canonical_order(s))
    OBVIOUS
  <2>3. canonical_order(Append(s, x)) = Put(canonical_order(s), x)
    BY <2>1, CanonicalOrderRuns
  <2> QED BY <2>1, <2>2, <2>3, PutOrdered
<1>3. T = Seq(Nat)
  <2>1. T \in SUBSET Seq(Nat)
    OBVIOUS
  <2> HIDE DEF T
  <2> QED BY <1>1, <1>2, <2>1, SeqInduction
<1>4. v \in T
  BY <1>3
<1> QED BY <1>4

\* The starters of a text, and its marks of class c.
Chosen(c, x) == combining_class(x) \in {0, c}
Chose(c, w, x) == IF Chosen(c, x) THEN Append(w, x) ELSE w
ChosenFn(c) == [p \in Seq(Nat) \X Nat |-> Chose(c, p[1], p[2])]
Selected(c, v) == Folded(ChosenFn(c), <<>>, v)

LEMMA ChosenFold ==
    ASSUME NEW c
    PROVE  /\ ChosenFn(c) \in [Seq(Nat) \X Nat -> Seq(Nat)]
           /\ \A w \in Seq(Nat), x \in Nat : ChosenFn(c)[<<w, x>>] = Chose(c, w, x)
           /\ \A w, s \in Seq(Nat) : Foldable(Seq(Nat), Nat, ChosenFn(c), w, s)
<1> DEFINE V == Seq(Nat)
<1>1. \A w \in V, x \in Nat : Chose(c, w, x) \in V
  BY DEF Chose
<1>2. ChosenFn(c) = [p \in V \X Nat |-> Chose(c, p[1], p[2])]
  BY DEF ChosenFn
<1>3. \A w \in V, x \in Nat : <<w, x>> \in V \X Nat /\ <<w, x>>[1] = w /\ <<w, x>>[2] = x
  OBVIOUS
<1> HIDE DEF V
<1>4. ChosenFn(c) \in [V \X Nat -> V]
  BY <1>1, <1>2
<1>5. \A w \in V, x \in Nat : ChosenFn(c)[<<w, x>>] = Chose(c, w, x)
  <2> SUFFICES ASSUME NEW w \in V, NEW x \in Nat PROVE ChosenFn(c)[<<w, x>>] = Chose(c, w, x)
    OBVIOUS
  <2> DEFINE p == <<w, x>>
  <2>1. p \in V \X Nat /\ p[1] = w /\ p[2] = x
    BY <1>3
  <2> HIDE DEF p
  <2>2. ChosenFn(c)[p] = Chose(c, p[1], p[2])
    BY <1>2, <2>1
  <2> QED BY <2>1, <2>2, Zenon DEF p
<1>6. \A w \in V, s \in Seq(Nat) : Foldable(V, Nat, ChosenFn(c), w, s)
  BY <1>4 DEF Foldable
<1> QED BY <1>4, <1>5, <1>6 DEF V

LEMMA SelectedRuns ==
    ASSUME NEW c
    PROVE  /\ Selected(c, <<>>) = <<>>
           /\ \A w \in Seq(Nat) : Selected(c, w) \in Seq(Nat)
           /\ \A w \in Seq(Nat), x \in Nat :
                Selected(c, Append(w, x)) = Chose(c, Selected(c, w), x)
           /\ \A u, v \in Seq(Nat) : Selected(c, u \o v) = Folded(ChosenFn(c), Selected(c, u), v)
           /\ \A w, v \in Seq(Nat) : (\A j \in 1 .. Len(v) : ~ Chosen(c, v[j]))
                                        => Folded(ChosenFn(c), w, v) = w
<1> DEFINE V == Seq(Nat)
           F == ChosenFn(c)
<1>1. <<>> \in V
  OBVIOUS
<1>2. /\ \A w \in V, x \in Nat : F[<<w, x>>] = Chose(c, w, x)
      /\ \A w \in V, s \in Seq(Nat) : Foldable(V, Nat, F, w, s)
  BY ChosenFold
<1> HIDE DEF V, F
<1>3. ASSUME NEW w \in V, NEW s \in Seq(Nat)
      PROVE  /\ Folded(F, w, <<>>) = w /\ Folded(F, w, s) \in V
             /\ \A x \in Nat : Folded(F, w, Append(s, x)) = F[<<Folded(F, w, s), x>>]
             /\ \A b \in Seq(Nat) : Folded(F, w, s \o b) = Folded(F, Folded(F, w, s), b)
  <2>1. Foldable(V, Nat, F, w, s)
    BY <1>2
  <2>2. /\ Folded(F, w, <<>>) = w /\ Folded(F, w, s) \in V
        /\ \A x \in Nat : Folded(F, w, Append(s, x)) = F[<<Folded(F, w, s), x>>]
    BY <2>1, FoldedRuns
  <2>3. ASSUME NEW b \in Seq(Nat) PROVE Folded(F, w, s \o b) = Folded(F, Folded(F, w, s), b)
    BY <2>1, FoldedConcat
  <2> QED BY <2>2, <2>3
<1>4. ASSUME NEW w \in V, NEW v \in Seq(Nat), \A j \in 1 .. Len(v) : ~ Chosen(c, v[j])
      PROVE  Folded(F, w, v) = w
  <2> DEFINE T == {s \in Seq(Nat) : (\A j \in 1 .. Len(s) : ~ Chosen(c, s[j])) => Folded(F, w, s) = w}
  <2>1. <<>> \in T
    <3>1. <<>> \in Seq(Nat)
      OBVIOUS
    <3> QED BY <1>3, <3>1
  <2>2. ASSUME NEW s \in T, NEW x \in Nat PROVE Append(s, x) \in T
    <3> DEFINE q == Append(s, x)
    <3>1. s \in Seq(Nat) /\ q \in Seq(Nat) /\ Len(q) = Len(s) + 1 /\ Len(s) \in Nat /\ q[Len(s) + 1] = x
          /\ \A j \in 1 .. Len(s) : q[j] = s[j]
      OBVIOUS
    <3>2. Folded(F, w, q) = Chose(c, Folded(F, w, s), x)
      <4>1. Folded(F, w, q) = F[<<Folded(F, w, s), x>>] /\ Folded(F, w, s) \in V
        BY <1>3, <3>1
      <4> HIDE DEF q
      <4> QED BY <1>2, <4>1
    <3> HIDE DEF q
    <3>3. SUFFICES ASSUME \A j \in 1 .. Len(q) : ~ Chosen(c, q[j]) PROVE Folded(F, w, q) = w
      BY <3>1 DEF q
    <3>4. \A j \in 1 .. Len(s) : j \in 1 .. Len(q)
      BY <3>1
    <3>5. \A j \in 1 .. Len(s) : ~ Chosen(c, s[j])
      BY <3>1, <3>3, <3>4
    <3>6. ~ Chosen(c, x)
      <4>1. Len(s) + 1 \in 1 .. Len(q)
        BY <3>1
      <4> QED BY <3>1, <3>3, <4>1
    <3>7. Folded(F, w, s) = w
      BY <3>5
    <3> QED BY <3>2, <3>6, <3>7 DEF Chose
  <2>3. T = Seq(Nat)
    <3>1. T \in SUBSET Seq(Nat)
      OBVIOUS
    <3> HIDE DEF T
    <3> QED BY <2>1, <2>2, <3>1, SeqInduction
  <2>4. v \in T
    BY <2>3
  <2> QED BY <1>4, <2>4
<1>5. ASSUME NEW w \in Seq(Nat), NEW x \in Nat
      PROVE  Selected(c, Append(w, x)) = Chose(c, Selected(c, w), x)
  <2>1. Selected(c, w) \in V
    BY <1>1, <1>3 DEF Selected, F
  <2>2. Selected(c, Append(w, x)) = F[<<Selected(c, w), x>>]
    BY <1>1, <1>3, Zenon DEF Selected, F
  <2>3. F[<<Selected(c, w), x>>] = Chose(c, Selected(c, w), x)
    BY <1>2, <2>1
  <2> QED BY ONLY <2>2, <2>3, Zenon
<1>6. /\ Selected(c, <<>>) = <<>> /\ \A w \in Seq(Nat) : Selected(c, w) \in V
      /\ \A u, v \in Seq(Nat) : Selected(c, u \o v) = Folded(ChosenFn(c), Selected(c, u), v)
  <2>1. <<>> \in Seq(Nat)
    OBVIOUS
  <2> QED BY <1>1, <1>3, <2>1 DEF Selected, F
<1>7. \A w \in V, v \in Seq(Nat) : (\A j \in 1 .. Len(v) : ~ Chosen(c, v[j])) => Folded(F, w, v) = w
  BY <1>4
<1> QED BY <1>5, <1>6, <1>7 DEF V, F

LEMMA SelectPut ==
    ASSUME NEW c, NEW w \in Seq(Nat), NEW x \in Nat
    PROVE  Selected(c, Put(w, x)) = Chose(c, Selected(c, w), x)
<1> DEFINE F == ChosenFn(c)
<1>1. PICK u \in Seq(Nat), v \in Seq(Nat) : w = u \o v /\ Put(w, x) = (u \o <<x>>) \o v /\ Around(u, v, x)
  BY PutSplits
<1>2. u \o <<x>> = Append(u, x) /\ Append(u, x) \in Seq(Nat)
  OBVIOUS
<1>3. /\ Selected(c, w) = Folded(F, Selected(c, u), v)
      /\ Selected(c, Append(u, x) \o v) = Folded(F, Selected(c, Append(u, x)), v)
  <2>1. \A a, b \in Seq(Nat) : Selected(c, a \o b) = Folded(F, Selected(c, a), b)
    BY SelectedRuns
  <2>2. Selected(c, u \o v) = Folded(F, Selected(c, u), v)
    BY <2>1, Zenon
  <2>3. Selected(c, Append(u, x) \o v) = Folded(F, Selected(c, Append(u, x)), v)
    BY <1>2, <2>1, Zenon
  <2> QED BY <1>1, <2>2, <2>3, Zenon
<1>4. Selected(c, Append(u, x)) = Chose(c, Selected(c, u), x)
  BY SelectedRuns
<1>5. CASE Chosen(c, x)
  <2>1. \A j \in 1 .. Len(v) : ~ Chosen(c, v[j])
    <3> SUFFICES ASSUME NEW j \in 1 .. Len(v) PROVE ~ Chosen(c, v[j])
      OBVIOUS
    <3>1. combining_class(v[j]) > combining_class(x) /\ (combining_class(x) = 0 => Len(v) = 0)
      BY <1>1 DEF Around
    <3>2. combining_class(v[j]) \in Nat /\ combining_class(x) \in Nat
      BY ClassType
    <3> QED BY <1>5, <3>1, <3>2 DEF Chosen
  <2>2. Folded(F, Selected(c, u), v) = Selected(c, u)
        /\ Folded(F, Selected(c, Append(u, x)), v) = Selected(c, Append(u, x))
    BY <1>2, <2>1, SelectedRuns
  <2> QED BY <1>1, <1>2, <1>3, <1>4, <1>5, <2>2 DEF Chose
<1>6. CASE ~ Chosen(c, x)
  BY <1>1, <1>2, <1>3, <1>4, <1>6 DEF Chose
<1> QED BY <1>5, <1>6

LEMMA SelectOrdered ==
    ASSUME NEW c, NEW v \in Seq(Nat)
    PROVE  Selected(c, canonical_order(v)) = Selected(c, v)
<1> DEFINE T == {s \in Seq(Nat) : Selected(c, canonical_order(s)) = Selected(c, s)}
<1>1. <<>> \in T
  <2>1. <<>> \in Seq(Nat)
    OBVIOUS
  <2> QED BY <2>1, CanonicalOrderRuns
<1>2. ASSUME NEW s \in T, NEW x \in Nat PROVE Append(s, x) \in T
  <2>1. s \in Seq(Nat) /\ Append(s, x) \in Seq(Nat)
    OBVIOUS
  <2>2. canonical_order(s) \in Seq(Nat) /\ canonical_order(Append(s, x)) = Put(canonical_order(s), x)
    BY <2>1, CanonicalOrderRuns
  <2>3. Selected(c, canonical_order(s)) = Selected(c, s)
    OBVIOUS
  <2>4. Selected(c, Put(canonical_order(s), x))
          = Chose(c, Selected(c, canonical_order(s)), x)
    BY <2>2, SelectPut
  <2>5. Selected(c, Append(s, x)) = Chose(c, Selected(c, s), x)
    BY <2>1, SelectedRuns
  <2> QED BY <2>1, <2>2, <2>3, <2>4, <2>5
<1>3. T = Seq(Nat)
  <2>1. T \in SUBSET Seq(Nat)
    OBVIOUS
  <2> HIDE DEF T
  <2> QED BY <1>1, <1>2, <2>1, SeqInduction
<1>4. v \in T
  BY <1>3
<1> QED BY <1>4

\* ClassOrStarter as that fold.
LEMMA SelectIs ==
    ASSUME NEW c, NEW r \in Seq(Nat)
    PROVE  ClassOrStarter(c, r) = Selected(c, r)
<1> DEFINE V == Seq(Nat)
           F == ChosenFn(c)
           g == CHOOSE f : f = [t \in SUBSET DOMAIN r |->
                                  IF t = {} THEN <<>> ELSE Chose(c, f[t \ {Max(t)}], r[Max(t)])]
<1>1. ClassOrStarter(c, r) = g[DOMAIN r]
  BY DEF ClassOrStarter, FoldLeft, MapThenFoldSet, Chose, Chosen
<1>2. DOMAIN r = 1 .. Len(r) /\ Len(r) \in Nat /\ \A k \in 1 .. Len(r) : r[k] \in Nat
  OBVIOUS
<1>3. /\ F \in [V \X Nat -> V] /\ <<>> \in V
      /\ \A w \in V, x \in Nat : F[<<w, x>>] = Chose(c, w, x)
      /\ Foldable(V, Nat, F, <<>>, r)
  <2>1. /\ F \in [V \X Nat -> V]
        /\ \A w \in V, x \in Nat : F[<<w, x>>] = Chose(c, w, x)
        /\ \A w, s \in V : Foldable(V, Nat, F, w, s)
    BY ChosenFold
  <2>2. <<>> \in V /\ r \in V
    OBVIOUS
  <2> HIDE DEF F, V
  <2> QED BY <2>1, <2>2
<1> HIDE DEF F, V
<1>4. g = [t \in SUBSET DOMAIN r |-> IF t = {} THEN <<>> ELSE Chose(c, g[t \ {Max(t)}], r[Max(t)])]
  <2>1. PICK f \in [SUBSET (1 .. Len(r)) -> V] : Table(F, <<>>, r, Len(r), f)
    BY <1>2, <1>3, TableExists
  <2>2. \A t \in SUBSET (1 .. Len(r)) :
          t # {} => Max(t) \in 1 .. Len(r) /\ t \ {Max(t)} \in SUBSET (1 .. Len(r))
    BY <1>2, LastOf
  <2>3. f = [t \in SUBSET DOMAIN r |-> IF t = {} THEN <<>> ELSE Chose(c, f[t \ {Max(t)}], r[Max(t)])]
    BY <1>2, <1>3, <2>1, <2>2 DEF Table
  <2> QED BY <2>3
<1> HIDE DEF g
<1>5. Steps(V, F, <<>>, r, g)
  <2>1. g[1 .. 0] = <<>>
    <3>1. 1 .. 0 = {} /\ {} \in SUBSET DOMAIN r
      OBVIOUS
    <3> QED BY <1>4, <3>1
  <2>2. ASSUME NEW k \in 1 .. Len(r)
        PROVE  g[1 .. k] = Chose(c, g[1 .. (k - 1)], r[k])
    <3>1. /\ 1 .. k \in SUBSET DOMAIN r /\ 1 .. k # {} /\ Max(1 .. k) = k
          /\ (1 .. k) \ {k} = 1 .. (k - 1)
      BY <1>2, UpTo
    <3> QED BY <1>4, <3>1
  <2> QED BY <1>2, <1>3, <2>1, <2>2 DEF Steps
<1>6. Folded(F, <<>>, r) = g[DOMAIN r]
  BY <1>2, <1>3, <1>5, FoldIs
<1> QED BY <1>1, <1>6 DEF Selected, F

-----------------------------------------------------------------------------
(* The theorems.  What grows is a text, and its form is the text normalized. *)

TextInv == text \in Seq(CodePoints) /\ form = nfc(text)

LEMMA TextsAreNat == TextInv => text \in Seq(Nat)
BY CodePointsAssumption, SeqMonotonic DEF TextInv

LEMMA TextHolds == TextSpec => []TextInv
<1>1. TextInit => TextInv
  <2> SUFFICES ASSUME TextInit PROVE TextInv
    OBVIOUS
  <2>1. text = <<>> /\ form = <<>>
    BY DEF TextInit
  <2>2. <<>> \in Seq(CodePoints) /\ DOMAIN <<>> = {}
    OBVIOUS
  <2>3. nfc(<<>>) = <<>>
    BY <2>2 DEF nfc, is_nfc
  <2> QED BY <2>1, <2>2, <2>3 DEF TextInv
<1>2. TextInv /\ [TextNext]_textVars => TextInv'
  <2> SUFFICES ASSUME TextInv, [TextNext]_textVars PROVE TextInv'
    OBVIOUS
  <2>1. ASSUME NEW cp \in CodePoints, Extend(cp) PROVE TextInv'
    <3>2. text' = Append(text, cp) /\ form' = nfc(text')
      BY <2>1 DEF Extend
    <3>3. text' \in Seq(CodePoints)
      BY <3>2 DEF TextInv
    <3> QED BY <3>2, <3>3 DEF TextInv
  <2>2. CASE UNCHANGED textVars
    BY <2>2 DEF textVars, TextInv
  <2> QED BY <2>1, <2>2 DEF TextNext
<1> QED BY <1>1, <1>2, PTL DEF TextSpec

\* canonical_order is a stable sort of each run of marks, whether the run was in
\* order, short enough for the insertion sort or not.
THEOREM OrderIsStableHolds == TextSpec => []OrderIsStable
<1>1. TextInv => OrderIsStable
  <2> SUFFICES ASSUME TextInv PROVE OrderIsStable
    OBVIOUS
  <2> DEFINE d == Decompose(text)
             o == canonical_order(d)
  <2>1. d \in Seq(Nat)
    BY DecomposeType, TextsAreNat
  <2> HIDE DEF d
  <2>2. o \in Seq(Nat) /\ Ordered(o)
    BY <2>1, CanonicalOrderRuns, CanonicalOrdered
  <2>3. \A c : ClassOrStarter(c, o) = ClassOrStarter(c, d)
    <3>1. ASSUME NEW c PROVE ClassOrStarter(c, o) = ClassOrStarter(c, d)
      <4>1. ClassOrStarter(c, o) = Selected(c, o) /\ ClassOrStarter(c, d) = Selected(c, d)
        <5> HIDE DEF o
        <5> QED BY <2>1, <2>2, SelectIs
      <4>2. Selected(c, o) = Selected(c, d)
        BY <2>1, SelectOrdered
      <4> QED BY <4>1, <4>2
    <3> QED BY <3>1
  <2> HIDE DEF o
  <2> QED BY <2>2, <2>3 DEF OrderIsStable, Ordered, d, o
<1> QED BY <1>1, TextHolds, PTL

-----------------------------------------------------------------------------
(* Composition is complete.                                                  *)

\* What a pair composes to: a syllable, or what COMP has for it.
LEMMA PairComposes ==
    ASSUME NEW a \in Nat, NEW b \in Nat, compose_pair(a, b) # 0
    PROVE  \/ /\ is_hangul_syllable(compose_pair(a, b)) /\ b \in VJamo \cup TJamo
              /\ a \in LJamo \/ is_hangul_syllable(a)
              /\ compose_pair(a, b) = hangul_compose(a, b)
           \/ <<a, b>> \in DOMAIN COMP /\ compose_pair(a, b) = COMP[<<a, b>>]
<1>1. CASE hangul_compose(a, b) # 0
  <2>1. compose_pair(a, b) = hangul_compose(a, b)
    BY <1>1 DEF compose_pair
  <2>2. is_hangul_syllable(hangul_compose(a, b)) /\ b \in VJamo \cup TJamo /\ (a \in LJamo \/ is_hangul_syllable(a))
    <3>1. CASE a \in LJamo /\ b \in VJamo
      <4>1. is_hangul_syllable(hangul_compose(a, b))
        BY <3>1, SMT DEF hangul_compose, is_hangul_syllable, LJamo, VJamo, LBase, LCount, VBase, VCount, SBase,
                         TCount, SCount, NCount
      <4> QED BY <3>1, <4>1
    <3>2. CASE ~ (a \in LJamo /\ b \in VJamo)
      <4>1. is_hangul_syllable(a) /\ (a - SBase) % TCount = 0 /\ b \in TJamo /\ hangul_compose(a, b) = a + (b - TBase)
        BY <1>1, <3>2 DEF hangul_compose
      <4>2. is_hangul_syllable(a + (b - TBase))
        BY <4>1, SMT DEF is_hangul_syllable, TJamo, TBase, TCount, VCount, LCount, SBase, SCount, NCount
      <4> QED BY <4>1, <4>2
    <3> QED BY <3>1, <3>2
  <2> QED BY <2>1, <2>2
<1>2. CASE hangul_compose(a, b) = 0
  <2>1. compose_pair(a, b) = canonical_compose(a, b)
    BY <1>2 DEF compose_pair
  <2> QED BY <2>1 DEF canonical_compose, Lookup
<1> QED BY <1>1, <1>2

Composite(q) == is_hangul_syllable(q) \/ \E p \in DOMAIN COMP : COMP[p] = q

\* A composite is a starter, and composes with nothing before it.
LEMMA CompositeStarts ==
    ASSUME NEW q \in Nat, Composite(q)
    PROVE  combining_class(q) = 0 /\ \A a \in Nat : compose_pair(a, q) = 0
<1>1. q \notin DOMAIN CCC
  BY CompositesAssumption, HangulAssumption DEF Composite
<1>2. q \notin VJamo \cup TJamo
  <2>1. CASE is_hangul_syllable(q)
    BY <2>1, SMT DEF is_hangul_syllable, SBase, VJamo, TJamo, VBase, TBase, VCount, TCount
  <2>2. CASE \E p \in DOMAIN COMP : COMP[p] = q
    BY <2>2, HangulAssumption
  <2> QED BY <2>1, <2>2 DEF Composite
<1>3. \A p \in DOMAIN COMP : p[2] # q
  <2>1. CASE is_hangul_syllable(q)
    BY <2>1, HangulAssumption
  <2>2. CASE \E p \in DOMAIN COMP : COMP[p] = q
    BY <2>2, CompositesAssumption
  <2> QED BY <2>1, <2>2 DEF Composite
<1>4. ASSUME NEW a \in Nat, compose_pair(a, q) # 0 PROVE FALSE
  <2>1. q \in VJamo \cup TJamo \/ <<a, q>> \in DOMAIN COMP
    BY <1>4, PairComposes
  <2>2. <<a, q>>[2] = q
    OBVIOUS
  <2> QED BY <1>2, <1>3, <2>1, <2>2
<1> QED BY <1>1, <1>4 DEF combining_class, Lookup

\* What a pair composes to takes no mark of a lower class than it took.
LEMMA CompositeTakes ==
    ASSUME NEW a \in Nat, NEW x \in Nat, NEW m \in Nat, compose_pair(a, x) # 0,
           0 < combining_class(m), combining_class(m) < combining_class(x)
    PROVE  compose_pair(compose_pair(a, x), m) = 0
<1> DEFINE q == compose_pair(a, x)
<1>0. q \in Nat
  BY ComposePairType DEF Lower
<1>1. ASSUME NEW y \in VJamo \cup TJamo PROVE combining_class(y) = 0
  BY HangulAssumption DEF combining_class, Lookup
<1>2. combining_class(x) \in Nat /\ combining_class(m) \in Nat
  BY ClassType
<1>3. x \notin VJamo \cup TJamo /\ m \notin VJamo \cup TJamo
  BY <1>1, <1>2
<1>4. <<a, x>> \in DOMAIN COMP /\ q = COMP[<<a, x>>]
  BY <1>3, PairComposes
<1>5. SUFFICES ASSUME compose_pair(q, m) # 0 PROVE FALSE
  OBVIOUS
<1> HIDE DEF q
<1>6. <<q, m>> \in DOMAIN COMP
  BY <1>0, <1>3, <1>5, PairComposes
<1>7. <<q, m>>[1] = q /\ <<q, m>>[2] = m /\ <<a, x>>[2] = x
  OBVIOUS
<1>8. combining_class(<<a, x>>[2]) <= combining_class(<<q, m>>[2])
  <2>1. \A p, r \in DOMAIN COMP :
           r[1] = COMP[p] /\ combining_class(r[2]) > 0 => combining_class(p[2]) <= combining_class(r[2])
    BY CompositesAssumption
  <2>2. <<q, m>>[1] = COMP[<<a, x>>] /\ combining_class(<<q, m>>[2]) > 0
    BY <1>2, <1>4, <1>7
  <2> QED BY <1>4, <1>6, <2>1, <2>2
<1> QED BY <1>2, <1>7, <1>8

\* compose after a prefix whose last class is c: the marks after the last starter are
\* in order, below or at the last class, and nothing is left to compose.
Unstarted(st) == \A i \in 1 .. Len(st.out) : i > st.starter =>
                    0 < combining_class(st.out[i]) /\ combining_class(st.out[i]) <= st.last_cc
Composed(v) == \A j \in 1 .. Len(v) : \A i \in 1 .. j - 1 :
                  combining_class(v[i]) = 0 /\ ~ Blocked(v, i, j) => compose_pair(v[i], v[j]) = 0
Good(st, c) ==
    /\ st \in Composings(Nat)
    /\ st.starter > 0 => combining_class(st.out[st.starter]) = 0
    /\ st.starter = Len(st.out) => st.last_cc = 0
    /\ st.starter < Len(st.out) => st.last_cc = combining_class(st.out[Len(st.out)])
    /\ Unstarted(st)
    /\ st.last_cc <= c
    /\ Composed(st.out)

\* Putting a composite in the place of the last starter.
LEMMA GoodComposes ==
    ASSUME NEW st, NEW c \in Nat, Good(st, c), NEW x \in Nat, Reaches(st, combining_class(x)),
           combining_class(x) = 0 \/ c <= combining_class(x),
           compose_pair(st.out[st.starter], x) # 0
    PROVE  Good(ComposeStep(st, x), combining_class(x))
<1> DEFINE cc(y) == combining_class(y)
           o == st.out
           s == st.starter
           n == Len(o)
           q == compose_pair(o[s], x)
           z == [o EXCEPT ![s] = q]
           new == ComposeStep(st, x)
<1>1. /\ st \in [out : Seq(Nat), starter : Nat, last_cc : Nat] /\ o \in Seq(Nat) /\ n \in Nat
      /\ s \in 1 .. n /\ st.last_cc \in Nat
  BY DEF Good, Composings, Reaches
<1>2. o[s] \in Nat
  BY <1>1
<1>3. q \in Nat /\ Composite(q)
  <2> HIDE DEF o, s
  <2> QED BY <1>2, ComposePairType, PairComposes DEF Lower, Composite, o, s
<1>4. new = [st EXCEPT !.out[st.starter] = q]
  BY DEF ComposeStep
<1>5. \A y \in Nat : cc(y) \in Nat
  BY ClassType
<1>6. cc(x) \in Nat /\ cc(q) = 0 /\ \A a \in Nat : compose_pair(a, q) = 0
  BY <1>3, <1>5, CompositeStarts
<1>7. /\ new \in Composings(Nat)
      /\ new.out = z /\ new.starter = s /\ new.last_cc = st.last_cc
  <2>1. new \in Composings(Nat)
    BY ComposeStepType DEF Good
  <2> HIDE DEF q, new
  <2> QED BY <1>1, <1>4, <2>1
<1>8. z \in Seq(Nat) /\ Len(z) = n /\ z[s] = q /\ \A i \in 1 .. n : i # s => z[i] = o[i]
  <2> HIDE DEF q
  <2> QED BY <1>1, <1>3
<1>9. \A i \in 1 .. n : o[i] \in Nat
  BY <1>1
<1>10. /\ cc(o[s]) = 0
       /\ s = n => st.last_cc = 0
       /\ s < n => st.last_cc = cc(o[n])
       /\ \A i \in 1 .. n : i > s => 0 < cc(o[i]) /\ cc(o[i]) <= st.last_cc
       /\ st.last_cc <= c
       /\ Composed(o)
  BY <1>1 DEF Good, Unstarted
<1>11. compose_pair(o[s], x) = q /\ q # 0 /\ (st.last_cc = 0 \/ st.last_cc < cc(x))
  BY DEF Reaches
<1> HIDE DEF z, q, o, s, new, n
<1>12. \A i \in 1 .. n : cc(z[i]) = cc(o[i])
  BY <1>6, <1>8, <1>10
<1>13. Composed(z)
  <2> SUFFICES ASSUME NEW j \in 1 .. n, NEW i \in 1 .. j - 1, cc(z[i]) = 0, ~ Blocked(z, i, j)
               PROVE  compose_pair(z[i], z[j]) = 0
    BY <1>8 DEF Composed
  <2>1. i \in 1 .. n /\ i < j
    BY <1>1
  <2>2. CASE j = s
    BY <1>6, <1>8, <1>9, <2>1, <2>2
  <2>3. CASE i = s
    <3>1. z[j] = o[j] /\ z[i] = q /\ j > s
      BY <1>1, <1>8, <2>1, <2>3
    <3>2. 0 < cc(o[j]) /\ cc(o[j]) <= st.last_cc /\ o[j] \in Nat /\ cc(o[j]) \in Nat
      BY <1>5, <1>9, <1>10, <3>1
    <3>3. cc(o[j]) < cc(x)
      <4>1. /\ cc(o[j]) \in Nat /\ st.last_cc \in Nat /\ cc(x) \in Nat
            /\ 0 < cc(o[j]) /\ cc(o[j]) <= st.last_cc /\ (st.last_cc = 0 \/ st.last_cc < cc(x))
        BY <1>1, <1>6, <1>11, <3>2
      <4> HIDE DEF cc
      <4> QED BY ONLY <4>1
    <3> QED BY <1>2, <1>11, <3>1, <3>2, <3>3, CompositeTakes DEF q
  <2>4. CASE i # s /\ j # s
    <3>1. z[i] = o[i] /\ z[j] = o[j]
      BY <1>8, <2>1, <2>4
    <3>2. ~ Blocked(o, i, j)
      <4>1. \A k \in i + 1 .. j - 1 : k \in 1 .. n
        BY <1>1, <2>1
      <4> QED BY <1>12, <2>1, <4>1 DEF Blocked
    <3> QED BY <1>10, <3>1, <3>2 DEF Composed, n
  <2> QED BY <2>2, <2>3, <2>4
<1>14. Unstarted(new)
  <2> SUFFICES ASSUME NEW i \in 1 .. n, i > s PROVE 0 < cc(z[i]) /\ cc(z[i]) <= st.last_cc
    BY <1>7, <1>8 DEF Unstarted
  <2> QED BY <1>10, <1>12
<1>15. st.last_cc <= cc(x)
  BY <1>1, <1>6, <1>11
<1>16. /\ new.starter > 0 => cc(new.out[new.starter]) = 0
       /\ new.starter = Len(new.out) => new.last_cc = 0
       /\ new.starter < Len(new.out) => new.last_cc = cc(new.out[Len(new.out)])
  <2>1. s < n => n \in 1 .. n /\ n # s
    BY <1>1
  <2> QED BY <1>1, <1>6, <1>7, <1>8, <1>10, <2>1
<1> QED BY <1>7, <1>13, <1>14, <1>15, <1>16 DEF Good, new

\* Keeping what does not compose.
LEMMA GoodAppends ==
    ASSUME NEW st, NEW c \in Nat, Good(st, c), NEW x \in Nat,
           combining_class(x) = 0 \/ c <= combining_class(x),
           Reaches(st, combining_class(x)) => compose_pair(st.out[st.starter], x) = 0
    PROVE  Good(ComposeStep(st, x), combining_class(x))
<1> DEFINE cc(y) == combining_class(y)
           o == st.out
           s == st.starter
           n == Len(o)
           z == Append(o, x)
           new == ComposeStep(st, x)
<1>1. /\ st \in [out : Seq(Nat), starter : Nat, last_cc : Nat] /\ o \in Seq(Nat) /\ n \in Nat
      /\ s \in Nat /\ s <= n /\ st.last_cc \in Nat
  BY DEF Good, Composings
<1>2. new = [out |-> z, starter |-> NewStarter(st, cc(x)), last_cc |-> cc(x)]
  BY DEF ComposeStep
<1>3. \A y \in Nat : cc(y) \in Nat
  BY ClassType
<1>4. /\ new \in Composings(Nat)
      /\ new.out = z /\ new.starter = (IF cc(x) = 0 THEN n + 1 ELSE s) /\ new.last_cc = cc(x)
  <2>1. new \in Composings(Nat)
    BY ComposeStepType DEF Good
  <2> HIDE DEF new
  <2> QED BY <1>2, <2>1 DEF NewStarter
<1>5. z \in Seq(Nat) /\ Len(z) = n + 1 /\ z[n + 1] = x /\ \A i \in 1 .. n : z[i] = o[i]
  BY <1>1
<1>6. \A i \in 1 .. n : o[i] \in Nat
  BY <1>1
<1>7. /\ s > 0 => cc(o[s]) = 0
      /\ s = n => st.last_cc = 0
      /\ s < n => st.last_cc = cc(o[n])
      /\ \A i \in 1 .. n : i > s => 0 < cc(o[i]) /\ cc(o[i]) <= st.last_cc
      /\ st.last_cc <= c
      /\ Composed(o)
  BY DEF Good, Unstarted
<1>8. s > 0 /\ (st.last_cc = 0 \/ st.last_cc < cc(x)) => compose_pair(o[s], x) = 0
  BY <1>1 DEF Reaches
<1> HIDE DEF z, o, s, new, n
<1>9. cc(x) \in Nat
  BY <1>3
<1>10. Composed(z)
  <2> SUFFICES ASSUME NEW j \in 1 .. n + 1, NEW i \in 1 .. j - 1, cc(z[i]) = 0, ~ Blocked(z, i, j)
               PROVE  compose_pair(z[i], z[j]) = 0
    BY <1>5 DEF Composed
  <2>1. i \in 1 .. n /\ i < j /\ z[i] = o[i]
    BY <1>1, <1>5
  <2>2. CASE j <= n
    <3>1. j \in 1 .. n /\ z[j] = o[j]
      BY <1>1, <1>5, <2>2
    <3>2. ~ Blocked(o, i, j)
      <4>1. \A k \in i + 1 .. j - 1 : k \in 1 .. n
        BY <1>1, <2>1, <3>1
      <4> QED BY <1>5, <3>1, <4>1 DEF Blocked
    <3> QED BY <1>7, <2>1, <3>1, <3>2 DEF Composed, n
  <2>3. CASE j = n + 1
    <3>1. z[j] = x /\ j - 1 = n
      BY <1>1, <1>5, <2>3
    <3>2. ~ (i > s)
      BY <1>7, <2>1
    <3>3. ~ (i < s)
      <4> SUFFICES ASSUME i < s PROVE FALSE
        OBVIOUS
      <4>1. s \in i + 1 .. j - 1 /\ s \in 1 .. n /\ s > 0
        BY <1>1, <2>1, <3>1
      <4>2. cc(z[s]) = 0
        BY <1>5, <1>7, <4>1
      <4> QED BY <4>1, <4>2 DEF Blocked
    <3>4. i = s /\ s > 0
      BY <1>1, <2>1, <3>2, <3>3
    <3>5. st.last_cc = 0 \/ st.last_cc < cc(x)
      <4>1. CASE s = n
        BY <1>7, <4>1
      <4>2. CASE s < n
        <5>1. n \in i + 1 .. j - 1 /\ n \in 1 .. n
          BY <1>1, <3>1, <3>4, <4>2
        <5>2. ~ (cc(z[n]) >= cc(z[j])) /\ z[n] = o[n]
          BY <1>5, <5>1 DEF Blocked
        <5>3. cc(o[n]) \in Nat
          BY <1>3, <1>6, <5>1
        <5> QED BY <1>7, <1>9, <3>1, <4>2, <5>2, <5>3
      <4> QED BY <1>1, <4>1, <4>2
    <3> QED BY <1>8, <2>1, <3>1, <3>4, <3>5
  <2> QED BY <1>1, <2>2, <2>3
<1>11. Unstarted(new)
  <2> SUFFICES ASSUME NEW i \in 1 .. n + 1, i > new.starter PROVE 0 < cc(z[i]) /\ cc(z[i]) <= cc(x)
    BY <1>4, <1>5 DEF Unstarted
  <2>1. cc(x) # 0
    BY <1>1, <1>4
  <2>2. i > s /\ st.last_cc <= cc(x)
    BY <1>1, <1>4, <1>7, <1>9, <2>1
  <2>3. CASE i = n + 1
    BY <1>5, <1>9, <2>1, <2>3
  <2>4. CASE i \in 1 .. n
    <3>1. 0 < cc(o[i]) /\ cc(o[i]) <= st.last_cc /\ cc(o[i]) \in Nat /\ z[i] = o[i]
      BY <1>3, <1>5, <1>6, <1>7, <2>2, <2>4
    <3> QED BY <1>1, <1>9, <2>2, <3>1
  <2> QED BY <1>1, <2>3, <2>4
<1>12. new.last_cc <= cc(x)
  BY <1>4, <1>9
<1>13. /\ new.starter > 0 => cc(new.out[new.starter]) = 0
       /\ new.starter = Len(new.out) => new.last_cc = 0
       /\ new.starter < Len(new.out) => new.last_cc = cc(new.out[Len(new.out)])
  <2>1. CASE cc(x) = 0
    BY <1>1, <1>4, <1>5, <2>1
  <2>2. CASE cc(x) # 0
    <3>1. s > 0 => s \in 1 .. n
      BY <1>1
    <3>2. new.starter = s /\ new.out = z /\ s # n + 1
      BY <1>1, <1>4, <2>2
    <3> QED BY <1>4, <1>5, <1>7, <3>1, <3>2
  <2> QED BY <2>1, <2>2
<1> QED BY <1>4, <1>10, <1>11, <1>12, <1>13 DEF Good, new

ClassAtEnd(w) == IF Len(w) = 0 THEN 0 ELSE combining_class(w[Len(w)])

LEMMA ClassAtEndRuns ==
    ASSUME NEW w \in Seq(Nat), NEW x \in Nat
    PROVE  /\ ClassAtEnd(w) \in Nat /\ ClassAtEnd(Append(w, x)) = combining_class(x)
           /\ Ordered(Append(w, x)) => Ordered(w) /\ (combining_class(x) = 0 \/ ClassAtEnd(w) <= combining_class(x))
<1> DEFINE q == Append(w, x)
           n == Len(w)
<1>1. Len(q) = n + 1 /\ n \in Nat /\ q[n + 1] = x /\ \A i \in 1 .. n : q[i] = w[i]
  OBVIOUS
<1>2. \A y : combining_class(y) \in Nat
  BY ClassType
<1> HIDE DEF q, n
<1>3. ClassAtEnd(w) \in Nat /\ ClassAtEnd(q) = combining_class(x)
  BY <1>1, <1>2 DEF ClassAtEnd, n
<1>4. ASSUME Ordered(q) PROVE Ordered(w)
  <2> SUFFICES ASSUME NEW i \in 2 .. n
               PROVE  ~ (combining_class(w[i - 1]) > combining_class(w[i]) /\ combining_class(w[i]) > 0)
    BY DEF Ordered, n
  <2>1. i \in 2 .. Len(q) /\ i \in 1 .. n /\ i - 1 \in 1 .. n
    BY <1>1
  <2>2. q[i] = w[i] /\ q[i - 1] = w[i - 1]
    BY <1>1, <2>1
  <2> QED BY <1>4, <2>1, <2>2 DEF Ordered
<1>5. ASSUME Ordered(q) PROVE combining_class(x) = 0 \/ ClassAtEnd(w) <= combining_class(x)
  <2>1. CASE n = 0
    BY <1>2, <2>1 DEF ClassAtEnd, n
  <2>2. CASE n # 0
    <3>1. n + 1 \in 2 .. Len(q) /\ (n + 1) - 1 = n /\ n \in 1 .. n
      BY <1>1, <2>2
    <3>2. ~ (combining_class(q[n]) > combining_class(q[n + 1]) /\ combining_class(q[n + 1]) > 0)
      BY <1>5, <3>1 DEF Ordered
    <3>3. ClassAtEnd(w) = combining_class(w[n])
      BY <2>2 DEF ClassAtEnd, n
    <3> QED BY <1>1, <1>2, <3>1, <3>2, <3>3
  <2> QED BY <2>1, <2>2
<1> QED BY <1>3, <1>4, <1>5 DEF q

LEMMA ComposeRuns ==
    /\ Composing(<<>>) = Uncomposed
    /\ \A e \in Seq(Nat) : Composing(e) \in Composings(Nat) /\ Compose(e) = Composing(e).out
    /\ \A e \in Seq(Nat), x \in Nat : Composing(Append(e, x)) = ComposeStep(Composing(e), x)
<1>1. Uncomposed \in Composings(Nat) /\ \A st \in Composings(Nat), x \in Nat : ComposeStep(st, x) \in Composings(Nat)
  BY ComposeStepType
<1>2. ASSUME NEW e \in Seq(Nat)
      PROVE  /\ Composing(<<>>) = Uncomposed /\ Composing(e) \in Composings(Nat)
             /\ \A x \in Nat : Composing(Append(e, x)) = ComposeStep(Composing(e), x)
  BY <1>1, ComposeFold
<1>3. <<>> \in Seq(Nat)
  OBVIOUS
<1>4. \A e \in Seq(Nat) : Compose(e) = Composing(e).out
  BY ComposeType
<1> QED BY <1>2, <1>3, <1>4

\* compose leaves nothing to compose in a text that is in order.
LEMMA ComposedWhole ==
    ASSUME NEW e \in Seq(Nat), Ordered(e)
    PROVE  Good(Composing(e), ClassAtEnd(e))
<1> DEFINE T == {s \in Seq(Nat) : Ordered(s) => Good(Composing(s), ClassAtEnd(s))}
<1>1. <<>> \in T
  <2>1. <<>> \in Seq(Nat) /\ Len(<<>>) = 0
    OBVIOUS
  <2>2. Uncomposed \in Composings(Nat)
    BY ComposeStepType
  <2>3. Uncomposed.out = <<>> /\ Uncomposed.starter = 0 /\ Uncomposed.last_cc = 0
    BY DEF Uncomposed
  <2>4. Good(Uncomposed, 0)
    BY <2>1, <2>2, <2>3 DEF Good, Unstarted, Composed
  <2>5. ClassAtEnd(<<>>) = 0
    BY <2>1 DEF ClassAtEnd
  <2> QED BY <2>1, <2>4, <2>5, ComposeRuns
<1>2. ASSUME NEW s \in T, NEW x \in Nat PROVE Append(s, x) \in T
  <2>1. s \in Seq(Nat) /\ Append(s, x) \in Seq(Nat)
    OBVIOUS
  <2> SUFFICES ASSUME Ordered(Append(s, x)) PROVE Good(Composing(Append(s, x)), ClassAtEnd(Append(s, x)))
    BY <2>1
  <2>2. /\ ClassAtEnd(s) \in Nat /\ ClassAtEnd(Append(s, x)) = combining_class(x)
        /\ Ordered(s) /\ (combining_class(x) = 0 \/ ClassAtEnd(s) <= combining_class(x))
    BY <2>1, ClassAtEndRuns
  <2>3. Good(Composing(s), ClassAtEnd(s))
    BY <2>2
  <2>4. Composing(Append(s, x)) = ComposeStep(Composing(s), x)
    BY <2>1, ComposeRuns
  <2> DEFINE st == Composing(s)
  <2> HIDE DEF st
  <2>5. Good(ComposeStep(st, x), combining_class(x))
    <3>1. Good(st, ClassAtEnd(s))
      BY <2>3 DEF st
    <3>2. CASE Reaches(st, combining_class(x)) /\ compose_pair(st.out[st.starter], x) # 0
      BY <2>2, <3>1, <3>2, GoodComposes
    <3>3. CASE ~ (Reaches(st, combining_class(x)) /\ compose_pair(st.out[st.starter], x) # 0)
      BY <2>2, <3>1, <3>3, GoodAppends
    <3> QED BY <3>2, <3>3
  <2> QED BY <2>2, <2>4, <2>5 DEF st
<1>3. T = Seq(Nat)
  <2>1. T \in SUBSET Seq(Nat)
    OBVIOUS
  <2> HIDE DEF T
  <2> QED BY <1>1, <1>2, <2>1, SeqInduction
<1>4. e \in T
  BY <1>3
<1> QED BY <1>4

\* What passes the quick check has no second of a pair.
LEMMA QuickYesComposes ==
    ASSUME NEW b \in CodePoints, nfc_inert(b) \/ QuickYes(b), NEW a \in Nat
    PROVE  compose_pair(a, b) = 0
<1>1. b \notin DOMAIN NFC_QC /\ b \in Nat
  BY TablesAssumption, AsciiAssumption, CodePointsAssumption DEF QuickYes, nfc_quick_check, nfc_inert, Lookup
<1>2. b \notin VJamo \cup TJamo
  BY <1>1, JamoAssumption
<1>3. \A p \in DOMAIN COMP : p[2] # b
  BY <1>1, TablesAssumption
<1>4. <<a, b>>[2] = b
  OBVIOUS
<1> QED BY <1>1, <1>2, <1>3, <1>4, PairComposes

\* Composition leaves no pair that still composes, whatever the order of the marks
\* and whether the quick check or compose gave the form.
THEOREM CompleteHolds == TextSpec => []Complete
<1>1. TextInv => Complete
  <2> SUFFICES ASSUME TextInv PROVE Composed(form) /\ DOMAIN form = 1 .. Len(form)
    BY DEF Complete, Composed
  <2>0. text \in Seq(Nat) /\ text \in Seq(CodePoints) /\ form = nfc(text)
    BY TextsAreNat DEF TextInv
  <2>1. DOMAIN form = 1 .. Len(form)
    <3>1. form \in Seq(Nat)
      BY <2>0, NfcType
    <3> QED BY <3>1
  <2>2. CASE is_nfc(text)
    <3>1. form = text
      BY <2>0, <2>2 DEF nfc
    <3>2. ASSUME NEW j \in 1 .. Len(text), NEW i \in 1 .. j - 1 PROVE compose_pair(text[i], text[j]) = 0
      <4>1. i \in 1 .. Len(text) /\ text[i] \in Nat /\ text[j] \in CodePoints
        BY <2>0
      <4>2. nfc_inert(text[j]) \/ QuickYes(text[j])
        BY <2>0, <2>1, <2>2, <3>1 DEF is_nfc
      <4> QED BY <4>1, <4>2, QuickYesComposes
    <3> QED BY <2>1, <3>1, <3>2 DEF Composed
  <2>3. CASE ~ is_nfc(text)
    <3> DEFINE d == Decompose(text)
               e == canonical_order(d)
    <3>1. d \in Seq(Nat)
      BY <2>0, DecomposeType
    <3>2. form = Compose(e)
      BY <2>0, <2>3 DEF nfc, Pipeline
    <3> HIDE DEF d
    <3>3. e \in Seq(Nat) /\ Ordered(e)
      BY <3>1, CanonicalOrderRuns, CanonicalOrdered
    <3> HIDE DEF e
    <3>4. Good(Composing(e), ClassAtEnd(e))
      BY <3>3, ComposedWhole
    <3>5. Compose(e) = Composing(e).out
      BY <3>3, ComposeRuns
    <3> QED BY <2>1, <3>2, <3>4, <3>5 DEF Good
  <2> QED BY <2>2, <2>3
<1> QED BY <1>1, TextHolds, PTL

-----------------------------------------------------------------------------
(* Decomposing what composition gives.                                       *)

LEMMA Twos ==
    \A s \in Seq(Nat) : \A x, y \in Nat : Len(s) = 2 /\ s[1] = x /\ s[2] = y => s = <<x, y>>
<1> SUFFICES ASSUME NEW s \in Seq(Nat), NEW x \in Nat, NEW y \in Nat, Len(s) = 2, s[1] = x, s[2] = y
             PROVE  s = <<x, y>>
  OBVIOUS
<1> DEFINE p == <<x, y>>
<1>1. p \in Seq(Nat) /\ Len(p) = 2 /\ p[1] = x /\ p[2] = y
  OBVIOUS
<1> HIDE DEF p
<1>2. \A k \in 1 .. 2 : k = 1 \/ k = 2
  OBVIOUS
<1>3. \A k \in 1 .. Len(s) : s[k] = p[k]
  BY <1>1, <1>2
<1>4. s = p
  BY <1>1, <1>3, SeqEqual
<1> QED BY <1>4 DEF p

LEMMA Threes ==
    \A s \in Seq(Nat) : \A x, y, z \in Nat :
        Len(s) = 3 /\ s[1] = x /\ s[2] = y /\ s[3] = z => s = <<x, y, z>>
<1> SUFFICES ASSUME NEW s \in Seq(Nat), NEW x \in Nat, NEW y \in Nat, NEW z \in Nat,
                    Len(s) = 3, s[1] = x, s[2] = y, s[3] = z
             PROVE  s = <<x, y, z>>
  OBVIOUS
<1> DEFINE p == <<x, y, z>>
<1>1. p \in Seq(Nat) /\ Len(p) = 3 /\ p[1] = x /\ p[2] = y /\ p[3] = z
  OBVIOUS
<1> HIDE DEF p
<1>2. \A k \in 1 .. 3 : k = 1 \/ k = 2 \/ k = 3
  OBVIOUS
<1>3. \A k \in 1 .. Len(s) : s[k] = p[k]
  BY <1>1, <1>2
<1>4. s = p
  BY <1>1, <1>3, SeqEqual
<1> QED BY <1>4 DEF p

LEMMA FromOnes ==
    \A x, y, z \in Nat : /\ <<x>> \o <<y>> = <<x, y>>
                         /\ <<x, y>> \o <<>> = <<x, y>>
                         /\ <<x, y>> \o <<z>> = <<x, y, z>>
<1> SUFFICES ASSUME NEW x \in Nat, NEW y \in Nat, NEW z \in Nat
             PROVE  /\ <<x>> \o <<y>> = <<x, y>>
                    /\ <<x, y>> \o <<>> = <<x, y>>
                    /\ <<x, y>> \o <<z>> = <<x, y, z>>
  OBVIOUS
<1> DEFINE s == <<x>> \o <<y>>
           t == <<x, y>> \o <<z>>
<1>1. s \in Seq(Nat) /\ Len(s) = 2 /\ s[1] = x /\ s[2] = y
  OBVIOUS
<1>2. t \in Seq(Nat) /\ Len(t) = 3 /\ t[1] = x /\ t[2] = y /\ t[3] = z
  OBVIOUS
<1>3. <<x, y>> \in Seq(Nat) /\ <<x, y>> \o <<>> = <<x, y>>
  OBVIOUS
<1> HIDE DEF s, t
<1>4. s = <<x, y>>
  BY <1>1, Twos
<1>5. t = <<x, y, z>>
  BY <1>2, Threes
<1> QED BY <1>3, <1>4, <1>5, Zenon DEF s, t

LEMMA DecomposeRuns ==
    /\ Decompose(<<>>) = <<>>
    /\ \A s \in Seq(Nat) : Decompose(s) \in Seq(Nat)
    /\ \A s \in Seq(Nat), x \in Nat : Decompose(Append(s, x)) = Decompose(s) \o decompose_into(x)
    /\ \A x \in Nat : decompose_into(x) \in Seq(Nat)
<1> DEFINE V == Seq(Nat)
<1>1. <<>> \in V /\ \A a \in V, x \in Nat : a \o decompose_into(x) \in V
  BY DecomposeIntoType
<1> HIDE DEF V
<1>2. ASSUME NEW s \in Seq(Nat)
      PROVE  /\ Decompose(<<>>) = <<>>
             /\ \A x \in Nat : Decompose(Append(s, x)) = Decompose(s) \o decompose_into(x)
  BY <1>1, DecomposeFold
<1>3. <<>> \in Seq(Nat)
  OBVIOUS
<1>4. \A x \in Nat : decompose_into(x) \in Seq(Nat)
  BY DecomposeIntoType
<1> QED BY <1>2, <1>3, <1>4, DecomposeType

LEMMA DecomposeConcat ==
    ASSUME NEW a \in Seq(Nat), NEW b \in Seq(Nat)
    PROVE  Decompose(a \o b) = Decompose(a) \o Decompose(b)
<1> DEFINE T == {s \in Seq(Nat) : Decompose(a \o s) = Decompose(a) \o Decompose(s)}
<1>0. Decompose(a) \in Seq(Nat)
  BY DecomposeRuns
<1>1. <<>> \in T
  <2>1. <<>> \in Seq(Nat) /\ a \o <<>> = a
    OBVIOUS
  <2>2. Decompose(a) \o <<>> = Decompose(a)
    BY <1>0
  <2> QED BY <2>1, <2>2, DecomposeRuns
<1>2. ASSUME NEW s \in T, NEW x \in Nat PROVE Append(s, x) \in T
  <2> DEFINE u == Decompose(a)
             v == Decompose(s)
             w == decompose_into(x)
  <2>0. s \in Seq(Nat) /\ Append(s, x) \in Seq(Nat)
    OBVIOUS
  <2>1. s \in Seq(Nat) /\ Append(s, x) \in Seq(Nat) /\ a \o s \in Seq(Nat) /\ a \o Append(s, x) = Append(a \o s, x)
    BY <2>0, AppendOver, Zenon
  <2>2. Decompose(a \o s) = u \o v
    OBVIOUS
  <2>3. Decompose(Append(a \o s, x)) = Decompose(a \o s) \o w /\ Decompose(Append(s, x)) = v \o w
    BY <2>1, DecomposeRuns
  <2>4. u \in Seq(Nat) /\ v \in Seq(Nat) /\ w \in Seq(Nat)
    BY <2>1, DecomposeRuns
  <2> HIDE DEF u, v, w
  <2>5. Regroups(u, v, w)
    BY ONLY <2>4, Regrouped
  <2>6. Decompose(a \o Append(s, x)) = u \o Decompose(Append(s, x))
    BY <2>1, <2>2, <2>3, <2>5, Zenon DEF Regroups
  <2> QED BY <2>1, <2>6 DEF u
<1>3. T = Seq(Nat)
  <2>1. T \in SUBSET Seq(Nat)
    OBVIOUS
  <2> HIDE DEF T
  <2> QED BY <1>1, <1>2, <2>1, SeqInduction
<1>4. b \in T
  BY <1>3
<1> QED BY <1>4

\* The code points that decompose no further.
Fixed == {c \in Nat : decompose_into(c) = <<c>>}

LEMMA FixedStays ==
    /\ Fixed \subseteq Nat /\ Seq(Fixed) \subseteq Seq(Nat) /\ Fixed # {}
    /\ \A s \in Seq(Fixed) : Decompose(s) = s
<1>1. Fixed \subseteq Nat
  BY DEF Fixed
<1>2. \A s \in Seq(Fixed) : s \in Seq(Nat)
  BY <1>1, SeqMonotonic
<1>3. Fixed # {}
  BY StopTables DEF Fixed, FullStop
<1> DEFINE T == {s \in Seq(Fixed) : Decompose(s) = s}
<1>4. <<>> \in T
  <2>1. <<>> \in Seq(Fixed)
    OBVIOUS
  <2> QED BY <2>1, DecomposeRuns
<1>5. ASSUME NEW s \in T, NEW x \in Fixed PROVE Append(s, x) \in T
  <2>1. s \in Seq(Fixed) /\ s \in Seq(Nat) /\ x \in Nat /\ Append(s, x) \in Seq(Fixed)
    BY <1>1, <1>2
  <2>2. Decompose(Append(s, x)) = Decompose(s) \o decompose_into(x)
    BY <2>1, DecomposeRuns
  <2>3. decompose_into(x) = <<x>> /\ Decompose(s) = s
    BY DEF Fixed
  <2>4. s \o <<x>> = Append(s, x)
    BY <2>1
  <2> QED BY <2>1, <2>2, <2>3, <2>4
<1>6. T = Seq(Fixed)
  <2>1. T \in SUBSET Seq(Fixed)
    OBVIOUS
  <2> HIDE DEF T
  <2> QED BY <1>4, <1>5, <2>1, SeqInduction
<1> QED BY <1>1, <1>2, <1>3, <1>6

\* What is no syllable and has no entry in DECOMP.
LEMMA FixedIs ==
    ASSUME NEW c \in Nat
    PROVE  (~ is_hangul_syllable(c) /\ c \notin DOMAIN DECOMP) => c \in Fixed
BY DEF Fixed, decompose_into, canonical_decomposition, Lookup

LEMMA JamoFixed == LJamo \cup VJamo \cup TJamo \subseteq Fixed
<1> SUFFICES ASSUME NEW c \in LJamo \cup VJamo \cup TJamo PROVE c \in Fixed
  OBVIOUS
<1>1. c \in Nat /\ ~ is_hangul_syllable(c)
  BY SMT DEF LJamo, VJamo, TJamo, LBase, VBase, TBase, LCount, VCount, TCount, is_hangul_syllable, SBase
<1>2. c \notin DOMAIN DECOMP
  BY HangulAssumption
<1> QED BY <1>1, <1>2, FixedIs

\* A syllable by its jamo.
LEMMA SyllableIs ==
    ASSUME NEW c \in Nat, is_hangul_syllable(c)
    PROVE  LET s == c - SBase
               l == LBase + s \div NCount
               v == VBase + (s % NCount) \div TCount
               t == s % TCount
           IN /\ l \in LJamo /\ v \in VJamo /\ (t # 0 => TBase + t \in TJamo)
              /\ decompose_into(c) = IF t = 0 THEN <<l, v>> ELSE <<l, v, TBase + t>>
<1> DEFINE s == c - SBase
           l == LBase + s \div NCount
           v == VBase + (s % NCount) \div TCount
           t == s % TCount
<1>1. l \in LJamo /\ v \in VJamo /\ (t # 0 => TBase + t \in TJamo)
  BY SMT DEF is_hangul_syllable, LJamo, VJamo, TJamo, LBase, VBase, TBase, LCount, VCount, TCount, NCount, SCount, SBase
<1>2. decompose_into(c) = <<l, v>> \o (IF t = 0 THEN <<>> ELSE <<TBase + t>>)
  BY DEF decompose_into
<1> HIDE DEF l, v, t
<1>3. <<l, v>> \o <<>> = <<l, v>> /\ (t # 0 => <<l, v>> \o <<TBase + t>> = <<l, v, TBase + t>>)
  <2>1. l \in Nat /\ v \in Nat /\ (t # 0 => TBase + t \in Nat)
    BY <1>1, JamoFixed DEF Fixed
  <2> QED BY ONLY <2>1, FromOnes
<1>4. decompose_into(c) = IF t = 0 THEN <<l, v>> ELSE <<l, v, TBase + t>>
  BY <1>2, <1>3
<1> QED BY <1>1, <1>4 DEF l, v, t, s

LEMMA DecomposeIntoFixed == \A c \in Nat : decompose_into(c) \in Seq(Fixed)
<1> SUFFICES ASSUME NEW c \in Nat PROVE decompose_into(c) \in Seq(Fixed)
  OBVIOUS
<1>1. CASE is_hangul_syllable(c)
  <2> DEFINE s == c - SBase
             l == LBase + s \div NCount
             v == VBase + (s % NCount) \div TCount
             t == s % TCount
  <2>1. /\ l \in LJamo /\ v \in VJamo /\ (t # 0 => TBase + t \in TJamo)
        /\ decompose_into(c) = IF t = 0 THEN <<l, v>> ELSE <<l, v, TBase + t>>
    BY <1>1, SyllableIs
  <2> HIDE DEF l, v, t
  <2>2. l \in Fixed /\ v \in Fixed /\ (t # 0 => TBase + t \in Fixed)
    BY <2>1, JamoFixed
  <2> QED BY <2>1, <2>2
<1>2. CASE ~ is_hangul_syllable(c) /\ c \in DOMAIN DECOMP
  <2>1. decompose_into(c) = DECOMP[c] /\ DECOMP[c] \in Seq(Nat)
    BY <1>2, AsciiAssumption DEF decompose_into, canonical_decomposition, Lookup
  <2>2. \A k \in DOMAIN DECOMP[c] : ~ is_hangul_syllable(DECOMP[c][k]) /\ DECOMP[c][k] \notin DOMAIN DECOMP
    BY <1>2, HangulAssumption, DecompositionsAssumption
  <2> DEFINE d == DECOMP[c]
  <2> HIDE DEF d
  <2>3. d \in Seq(Nat) /\ \A k \in DOMAIN d : ~ is_hangul_syllable(d[k]) /\ d[k] \notin DOMAIN DECOMP
    BY <2>1, <2>2 DEF d
  <2>4. \A k \in 1 .. Len(d) : d[k] \in Fixed
    <3> SUFFICES ASSUME NEW k \in 1 .. Len(d) PROVE d[k] \in Fixed
      OBVIOUS
    <3>1. d[k] \in Nat /\ k \in DOMAIN d
      BY <2>3
    <3> QED BY <2>3, <3>1, FixedIs
  <2>5. d \in Seq(Fixed)
    BY <2>3, <2>4
  <2> QED BY <2>1, <2>5 DEF d
<1>3. CASE ~ is_hangul_syllable(c) /\ c \notin DOMAIN DECOMP
  <2>1. c \in Fixed
    BY <1>3, FixedIs
  <2>2. decompose_into(c) = <<c>>
    BY <2>1 DEF Fixed
  <2> QED BY <2>1, <2>2
<1> QED BY <1>1, <1>2, <1>3

LEMMA DecomposeFixed == \A s \in Seq(Nat) : Decompose(s) \in Seq(Fixed)
<1> DEFINE V == Seq(Fixed)
<1>1. <<>> \in V /\ \A a \in V, x \in Nat : a \o decompose_into(x) \in V
  <2>1. \A x \in Nat : decompose_into(x) \in Seq(Fixed)
    BY DecomposeIntoFixed
  <2>2. ASSUME NEW a \in V, NEW x \in Nat PROVE a \o decompose_into(x) \in V
    <3>1. decompose_into(x) \in Seq(Fixed)
      BY <2>1
    <3> QED BY <3>1
  <2> QED BY <2>2
<1> HIDE DEF V
<1>2. \A s \in Seq(Nat) : Decompose(s) \in V
  BY <1>1, DecomposeFold
<1> QED BY <1>2 DEF V

\* The composite of a pair decomposes into what its first does, and its second.
LEMMA PairDecomposes ==
    ASSUME NEW a \in Nat, NEW b \in Nat, compose_pair(a, b) # 0
    PROVE  decompose_into(compose_pair(a, b)) = decompose_into(a) \o <<b>>
<1> DEFINE q == compose_pair(a, b)
<1>0. q \in Nat
  BY ComposePairType DEF Lower
<1>1. CASE <<a, b>> \in DOMAIN COMP /\ q = COMP[<<a, b>>]
  <2>1. <<a, b>>[1] = a /\ <<a, b>>[2] = b
    OBVIOUS
  <2>2. ~ is_hangul_syllable(a) /\ ~ is_hangul_syllable(q)
    BY <1>1, <2>1, HangulAssumption
  <2>3. canonical_decomposition(q) = canonical_decomposition(a) \o <<b>>
    <3>1. \A p \in DOMAIN COMP : canonical_decomposition(COMP[p]) = canonical_decomposition(p[1]) \o <<p[2]>>
      BY DecompositionsAssumption
    <3> HIDE DEF q
    <3>2. canonical_decomposition(COMP[<<a, b>>]) = canonical_decomposition(<<a, b>>[1]) \o <<<<a, b>>[2]>>
      BY <1>1, <3>1, Zenon
    <3> QED BY <1>1, <2>1, <3>2, Zenon
  <2>4. decompose_into(q) = canonical_decomposition(q) /\ decompose_into(a) = canonical_decomposition(a)
    BY <2>2 DEF decompose_into
  <2> QED BY <2>3, <2>4
<1>2. CASE /\ is_hangul_syllable(q) /\ b \in VJamo \cup TJamo
           /\ a \in LJamo \/ is_hangul_syllable(a)
           /\ q = hangul_compose(a, b)
  <2>1. q # 0
    OBVIOUS
  <2> HIDE DEF q
  <2> DEFINE l(c) == LBase + (c - SBase) \div NCount
             v(c) == VBase + ((c - SBase) % NCount) \div TCount
             t(c) == (c - SBase) % TCount
  <2>2. ASSUME NEW c \in Nat, is_hangul_syllable(c)
        PROVE  decompose_into(c) = IF t(c) = 0 THEN <<l(c), v(c)>> ELSE <<l(c), v(c), TBase + t(c)>>
    BY <2>2, SyllableIs
  <2>3. CASE a \in LJamo /\ b \in VJamo
    <3>1. q = SBase + ((a - LBase) * VCount + (b - VBase)) * TCount
      BY <1>2, <2>3 DEF hangul_compose
    <3>2. l(q) = a /\ v(q) = b /\ t(q) = 0
      BY <2>3, <3>1, SMT DEF LJamo, VJamo, LBase, VBase, LCount, VCount, TCount, NCount, SBase
    <3>3. decompose_into(a) = <<a>>
      BY <2>3, JamoFixed DEF Fixed
    <3>4. decompose_into(q) = <<a, b>>
      <4> HIDE DEF l, v, t
      <4> QED BY <1>0, <1>2, <2>2, <3>2
    <3>5. <<a>> \o <<b>> = <<a, b>>
      BY ONLY a \in Nat, b \in Nat, FromOnes
    <3> QED BY <3>3, <3>4, <3>5 DEF q
  <2>4. CASE ~ (a \in LJamo /\ b \in VJamo)
    <3>1. is_hangul_syllable(a) /\ (a - SBase) % TCount = 0 /\ b \in TJamo /\ q = a + (b - TBase)
      BY <1>2, <2>1, <2>4 DEF hangul_compose
    <3>2. l(q) = l(a) /\ v(q) = v(a) /\ t(q) = b - TBase /\ t(q) # 0 /\ TBase + t(q) = b /\ t(a) = 0
      BY <3>1, SMT DEF is_hangul_syllable, TJamo, TBase, LBase, VBase, LCount, VCount, TCount, NCount, SCount, SBase
    <3>3. decompose_into(a) = <<l(a), v(a)>> /\ decompose_into(q) = <<l(a), v(a), b>>
      <4> HIDE DEF l, v, t
      <4> QED BY <1>0, <1>2, <2>2, <3>1, <3>2
    <3>4. <<l(a), v(a)>> \o <<b>> = <<l(a), v(a), b>>
      <4>1. l(a) \in Nat /\ v(a) \in Nat
        BY <3>1, SyllableIs, JamoFixed DEF Fixed
      <4> HIDE DEF l, v
      <4> QED BY ONLY <4>1, b \in Nat, FromOnes
    <3> QED BY <3>3, <3>4 DEF q
  <2> QED BY <2>3, <2>4
<1> QED BY <1>1, <1>2, PairComposes

\* ((d \o u) \o <<x>>) \o v = d \o ((u \o <<x>>) \o v), for the four as one.
RegroupsIn(d, u, x, v) == ((d \o u) \o <<x>>) \o v = d \o ((u \o <<x>>) \o v)

LEMMA RegroupedIn == \A d, u, v \in Seq(Nat), x \in Nat : RegroupsIn(d, u, x, v)
<1> SUFFICES ASSUME NEW d \in Seq(Nat), NEW u \in Seq(Nat), NEW v \in Seq(Nat), NEW x \in Nat
             PROVE  RegroupsIn(d, u, x, v)
  OBVIOUS
<1> QED BY RegroupAround, Zenon DEF RegroupsIn

LEMMA PastOne ==
    \A j, n, k \in Int : j > n /\ j # n + 1 /\ j <= (n + 1) + k
                           => j - (n + 1) \in 1 .. k /\ j = (n + 1) + (j - (n + 1))
OBVIOUS

\* Two marks may be put in either order, the one of the lower class first or last.
LEMMA PutSwaps ==
    \A w \in Seq(Nat), m, x \in Nat :
        0 < combining_class(m) /\ combining_class(m) < combining_class(x)
            => Put(Put(w, x), m) = Put(Put(w, m), x)
<1> SUFFICES ASSUME NEW w \in Seq(Nat), NEW m \in Nat, NEW x \in Nat,
                    0 < combining_class(m), combining_class(m) < combining_class(x)
             PROVE  Put(Put(w, x), m) = Put(Put(w, m), x)
  OBVIOUS
<1>1. PICK u, v \in Seq(Nat) : w = u \o v /\ Put(w, x) = (u \o <<x>>) \o v /\ Around(u, v, x)
  BY PutSplits
<1>2. PICK a, b \in Seq(Nat) : u = a \o b /\ Put(u, m) = (a \o <<m>>) \o b /\ Around(a, b, m)
  BY PutSplits
<1> DEFINE bv == b \o v
           bxv == (b \o <<x>>) \o v
           am == a \o <<m>>
           amb == am \o b
<1>3. /\ bv \in Seq(Nat) /\ Len(bv) = Len(b) + Len(v)
      /\ \A j \in 1 .. Len(b) : bv[j] = b[j]
      /\ \A j \in 1 .. Len(bv) : j > Len(b) => j - Len(b) \in 1 .. Len(v) /\ bv[j] = v[j - Len(b)]
  OBVIOUS
<1>4. /\ bxv \in Seq(Nat) /\ Len(bxv) = (Len(b) + 1) + Len(v)
      /\ \A i \in 1 .. Len(b) : bxv[i] = b[i]
      /\ bxv[Len(b) + 1] = x
      /\ \A i \in 1 .. Len(v) : bxv[(Len(b) + 1) + i] = v[i]
  BY Spliced
<1>5. /\ amb \in Seq(Nat) /\ am \in Seq(Nat) /\ Len(amb) = (Len(a) + 1) + Len(b)
      /\ amb[Len(a) + 1] = m
      /\ \A i \in 1 .. Len(b) : amb[(Len(a) + 1) + i] = b[i]
  <2>1. am \in Seq(Nat)
    OBVIOUS
  <2>2. amb \in Seq(Nat) /\ Len(amb) = (Len(a) + 1) + Len(b)
    BY Spliced
  <2>3. amb[Len(a) + 1] = m
    BY Spliced
  <2>4. \A i \in 1 .. Len(b) : amb[(Len(a) + 1) + i] = b[i]
    BY Spliced
  <2> QED BY <2>1, <2>2, <2>3, <2>4
<1>6. w = a \o bv /\ Put(w, x) = a \o bxv
  <2>1. w = (a \o b) \o v /\ Put(w, x) = ((a \o b) \o <<x>>) \o v
    BY <1>1, <1>2
  <2>4. Regroups(a, b, v) /\ RegroupsIn(a, b, x, v)
    BY ONLY a \in Seq(Nat), b \in Seq(Nat), v \in Seq(Nat), x \in Nat, Regrouped, RegroupedIn
  <2>2. (a \o b) \o v = a \o (b \o v)
    BY <2>4, Zenon DEF Regroups
  <2>3. ((a \o b) \o <<x>>) \o v = a \o ((b \o <<x>>) \o v)
    BY <2>4, Zenon DEF RegroupsIn
  <2> QED BY <2>1, <2>2, <2>3, Zenon
<1>7. am \o bv = amb \o v /\ am \o bxv = (amb \o <<x>>) \o v
  <2> HIDE DEF am
  <2>3. Regroups(am, b, v) /\ RegroupsIn(am, b, x, v)
    BY <1>5, Regrouped, RegroupedIn
  <2>1. am \o (b \o v) = (am \o b) \o v
    BY <2>3, Zenon DEF Regroups
  <2>2. ((am \o b) \o <<x>>) \o v = am \o ((b \o <<x>>) \o v)
    BY <2>3, Zenon DEF RegroupsIn
  <2> QED BY <2>1, <2>2, Zenon
<1> HIDE DEF bv, bxv, amb
<1>8. Around(a, bv, m) /\ Around(a, bxv, m)
  <2>1. /\ combining_class(m) # 0
        /\ Len(a) > 0 => combining_class(a[Len(a)]) <= combining_class(m)
        /\ \A j \in 1 .. Len(b) : combining_class(b[j]) > combining_class(m)
    BY <1>2, ClassType DEF Around
  <2>2. \A j \in 1 .. Len(v) : combining_class(v[j]) > combining_class(m)
    BY <1>1, ClassType DEF Around
  <2>3. \A j \in 1 .. Len(bv) : combining_class(bv[j]) > combining_class(m)
    <3> SUFFICES ASSUME NEW j \in 1 .. Len(bv) PROVE combining_class(bv[j]) > combining_class(m)
      OBVIOUS
    <3>1. CASE j <= Len(b)
      BY <1>3, <2>1, <3>1
    <3>2. CASE j > Len(b)
      BY <1>3, <2>2, <3>2
    <3> QED BY <1>3, <3>1, <3>2
  <2>4. \A j \in 1 .. Len(bxv) : combining_class(bxv[j]) > combining_class(m)
    <3> SUFFICES ASSUME NEW j \in 1 .. Len(bxv) PROVE combining_class(bxv[j]) > combining_class(m)
      OBVIOUS
    <3>1. CASE j <= Len(b)
      BY <1>4, <2>1, <3>1
    <3>2. CASE j = Len(b) + 1
      BY <1>4, <3>2
    <3>3. CASE j > Len(b) /\ j # Len(b) + 1
      <4> DEFINE i == j - (Len(b) + 1)
      <4>1. i \in 1 .. Len(v) /\ j = (Len(b) + 1) + i
        <5>1. j \in Int /\ Len(b) \in Int /\ Len(v) \in Int /\ j <= (Len(b) + 1) + Len(v)
          BY <1>4
        <5> QED BY ONLY <3>3, <5>1, PastOne, Zenon
      <4> HIDE DEF i
      <4>2. bxv[j] = v[i]
        BY <1>4, <4>1
      <4> QED BY <2>2, <4>1, <4>2
    <3>4. j <= Len(b) \/ j > Len(b)
      <4>1. j \in Int /\ Len(b) \in Int
        OBVIOUS
      <4> QED BY ONLY <4>1
    <3> QED BY <3>1, <3>2, <3>3, <3>4
  <2> QED BY <2>1, <2>3, <2>4 DEF Around
<1>9. Around(amb, v, x)
  <2>1. combining_class(x) # 0 /\ (\A j \in 1 .. Len(v) : combining_class(v[j]) > combining_class(x))
        /\ (Len(u) > 0 => combining_class(u[Len(u)]) <= combining_class(x))
    BY <1>1, ClassType DEF Around
  <2>2. CASE Len(b) = 0
    <3>1. amb[Len(amb)] = m
      BY <1>5, <2>2
    <3> QED BY <2>1, <3>1, ClassType DEF Around
  <2>3. CASE Len(b) > 0
    <3>1. amb[Len(amb)] = b[Len(b)]
      <4>1. Len(b) \in 1 .. Len(b)
        BY <2>3
      <4> QED BY <1>5, <4>1
    <3>2. Len(u) > 0 /\ u[Len(u)] = b[Len(b)]
      BY <1>2, <2>3
    <3> QED BY <2>1, <3>1, <3>2 DEF Around
  <2>4. Len(b) \in Nat
    OBVIOUS
  <2> QED BY <2>2, <2>3, <2>4
<1>10. Put(a \o bv, m) = am \o bv /\ Put(a \o bxv, m) = am \o bxv /\ Put(amb \o v, x) = (amb \o <<x>>) \o v
  BY <1>3, <1>4, <1>5, <1>8, <1>9, PutAtEach DEF am
<1> HIDE DEF am
<1>11. Put(w, m) = amb \o v
  BY <1>6, <1>7, <1>10, Zenon
<1>12. Put(Put(w, x), m) = am \o bxv
  BY <1>6, <1>10, Zenon
<1> QED BY <1>7, <1>10, <1>11, <1>12, Zenon

\* A mark may be put before all those of lower classes that come after it.
LEMMA PutAllSwaps ==
    ASSUME NEW w \in Seq(Nat), NEW x \in Nat,
           NEW ms \in Seq({m \in Nat : 0 < combining_class(m) /\ combining_class(m) < combining_class(x)})
    PROVE  PutAll(Put(w, x), ms) = Put(PutAll(w, ms), x)
<1> DEFINE M == {m \in Nat : 0 < combining_class(m) /\ combining_class(m) < combining_class(x)}
           T == {s \in Seq(M) : PutAll(Put(w, x), s) = Put(PutAll(w, s), x)}
<1>0. \A s \in Seq(M) : s \in Seq(Nat)
  <2>1. M \subseteq Nat
    OBVIOUS
  <2> HIDE DEF M
  <2> QED BY <2>1, SeqMonotonic
<1>1. Put(w, x) \in Seq(Nat)
  BY PutType
<1>2. <<>> \in T
  <2>1. <<>> \in Seq(M)
    OBVIOUS
  <2>2. PutAll(Put(w, x), <<>>) = Put(w, x) /\ PutAll(w, <<>>) = w
    BY <1>1, PutAllEach
  <2> QED BY <2>1, <2>2
<1>3. ASSUME NEW s \in T, NEW m \in M PROVE Append(s, m) \in T
  <2> DEFINE z == PutAll(w, s)
             y == Put(w, x)
  <2>1. s \in Seq(M) /\ Append(s, m) \in Seq(M) /\ s \in Seq(Nat) /\ m \in Nat
    <3>1. s \in Seq(M) /\ Append(s, m) \in Seq(M) /\ m \in Nat
      OBVIOUS
    <3> QED BY <1>0, <3>1
  <2>2. PutAll(y, s) = Put(z, x)
    OBVIOUS
  <2>3. z \in Seq(Nat)
    BY <2>1, PutAllEach
  <2>4. Put(Put(z, x), m) = Put(Put(z, m), x)
    <3>1. 0 < combining_class(m) /\ combining_class(m) < combining_class(x)
      OBVIOUS
    <3> HIDE DEF z
    <3> QED BY ONLY <2>1, <2>3, <3>1, x \in Nat, PutSwaps
  <2> HIDE DEF y
  <2>5. PutAll(y, Append(s, m)) = Put(PutAll(y, s), m) /\ PutAll(w, Append(s, m)) = Put(z, m)
    BY <1>1, <2>1, PutAllEach DEF y
  <2> HIDE DEF z, M
  <2>6. PutAll(y, Append(s, m)) = Put(PutAll(w, Append(s, m)), x)
    BY <2>2, <2>4, <2>5, Zenon
  <2> QED BY <2>1, <2>6 DEF y
<1>4. T = Seq(M)
  <2>1. T \in SUBSET Seq(M)
    OBVIOUS
  <2> HIDE DEF T, M
  <2> QED BY <1>2, <1>3, <2>1, SeqInduction
<1> QED BY <1>4

\* y is u, x and v.
Splices(u, x, v, y) ==
    /\ y \in Seq(Nat) /\ Len(y) = (Len(u) + 1) + Len(v)
    /\ \A i \in 1 .. Len(u) : y[i] = u[i]
    /\ y[Len(u) + 1] = x
    /\ \A i \in 1 .. Len(v) : y[(Len(u) + 1) + i] = v[i]

LEMMA SpliceIs == \A u, v \in Seq(Nat), x \in Nat : Splices(u, x, v, (u \o <<x>>) \o v)
<1> SUFFICES ASSUME NEW u \in Seq(Nat), NEW v \in Seq(Nat), NEW x \in Nat
             PROVE  Splices(u, x, v, (u \o <<x>>) \o v)
  OBVIOUS
<1> QED BY Spliced DEF Splices

LEMMA PutAllEmpty ==
    /\ \A d, ms \in Seq(Nat) : PutAll(<<>>, d \o ms) = PutAll(PutAll(<<>>, d), ms)
    /\ \A d \in Seq(Nat), x \in Nat : PutAll(<<>>, Append(d, x)) = Put(PutAll(<<>>, d), x)
<1> DEFINE e == <<>>
<1>1. e \in Seq(Nat)
  OBVIOUS
<1> HIDE DEF e
<1>2. \A d, ms \in Seq(Nat) : PutAll(e, d \o ms) = PutAll(PutAll(e, d), ms)
  BY <1>1, PutAllEach, Zenon
<1>3. \A d \in Seq(Nat), x \in Nat : PutAll(e, Append(d, x)) = Put(PutAll(e, d), x)
  BY <1>1, PutAllEach, Zenon
<1> QED BY <1>2, <1>3, Zenon DEF e

\* e \o (f \o <<x>>) = Append(e \o f, x), for the three as one.
Lengthens(e, f, x) == e \o (f \o <<x>>) = Append(e \o f, x)

LEMMA LengthenedBy == \A e, f \in Seq(Nat), x \in Nat : Lengthens(e, f, x)
<1> SUFFICES ASSUME NEW e \in Seq(Nat), NEW f \in Seq(Nat), NEW x \in Nat PROVE Lengthens(e, f, x)
  OBVIOUS
<1> QED BY DEF Lengthens

\* A sequence cut around one of its elements, and with another in its place.
Cut(o, k, a, b) ==
    /\ Len(a) = k - 1 /\ Len(b) = Len(o) - k
    /\ o = (a \o <<o[k]>>) \o b
    /\ \A i \in 1 .. Len(b) : b[i] = o[k + i]

LEMMA CutAround ==
    \A o \in Seq(Nat) : \A k \in 1 .. Len(o) : \E a, b \in Seq(Nat) :
        Cut(o, k, a, b) /\ \A q \in Nat : [o EXCEPT ![k] = q] = (a \o <<q>>) \o b
<1> SUFFICES ASSUME NEW o \in Seq(Nat), NEW k \in 1 .. Len(o)
             PROVE  \E a, b \in Seq(Nat) :
                      Cut(o, k, a, b) /\ \A q \in Nat : [o EXCEPT ![k] = q] = (a \o <<q>>) \o b
  OBVIOUS
<1> DEFINE a == SubSeq(o, 1, k - 1)
           b == SubSeq(o, k + 1, Len(o))
           n == Len(o)
<1>1. k - 1 \in 0 .. n /\ n \in Nat /\ k \in 1 .. n /\ k \in 0 .. n
  OBVIOUS
<1>2. a \in Seq(Nat) /\ Len(a) = k - 1 /\ \A i \in 1 .. k - 1 : a[i] = o[i]
  BY <1>1, TakeDrop
<1>3. b \in Seq(Nat) /\ Len(b) = n - k /\ \A i \in 1 .. n - k : b[i] = o[k + i]
  BY <1>1, TakeDrop
<1> HIDE DEF a, b
<1>4. ASSUME NEW q \in Nat, NEW z \in Seq(Nat), Len(z) = n, z[k] = q, \A i \in 1 .. n : i # k => z[i] = o[i]
      PROVE  z = (a \o <<q>>) \o b
  <2> DEFINE y == (a \o <<q>>) \o b
  <2>1. /\ y \in Seq(Nat) /\ Len(y) = (Len(a) + 1) + Len(b)
        /\ \A i \in 1 .. Len(a) : y[i] = a[i]
        /\ y[Len(a) + 1] = q
        /\ \A i \in 1 .. Len(b) : y[(Len(a) + 1) + i] = b[i]
    <3>1. Splices(a, q, b, y)
      BY ONLY <1>2, <1>3, q \in Nat, SpliceIs
    <3> QED BY <3>1 DEF Splices
  <2> HIDE DEF y, n
  <2>2. Len(y) = n /\ y[k] = q
    BY <1>1, <1>2, <1>3, <2>1
  <2>3. \A i \in 1 .. n : y[i] = z[i]
    <3> SUFFICES ASSUME NEW i \in 1 .. n PROVE y[i] = z[i]
      OBVIOUS
    <3>1. CASE i < k
      <4>1. i \in 1 .. Len(a) /\ i \in 1 .. k - 1
        BY <1>1, <1>2, <3>1
      <4>2. y[i] = a[i] /\ a[i] = o[i]
        BY <1>2, <2>1, <4>1
      <4> QED BY <1>4, <3>1, <4>2
    <3>2. CASE i = k
      BY <1>4, <2>2, <3>2
    <3>3. CASE i > k
      <4>1. i - k \in 1 .. Len(b) /\ i - k \in 1 .. n - k /\ (Len(a) + 1) + (i - k) = i /\ k + (i - k) = i
        BY <1>1, <1>2, <1>3, <3>3
      <4>2. y[i] = b[i - k] /\ b[i - k] = o[i]
        BY <1>3, <2>1, <4>1
      <4> QED BY <1>4, <3>3, <4>2
    <3> QED BY <1>1, <3>1, <3>2, <3>3
  <2>4. z = y
    BY <1>4, <2>1, <2>2, <2>3, SeqEqual
  <2> QED BY <2>4 DEF y
<1>5. o[k] \in Nat
  OBVIOUS
<1>6. o = (a \o <<o[k]>>) \o b
  <2> DEFINE c == o[k]
  <2>1. o \in Seq(Nat) /\ Len(o) = n /\ o[k] = c /\ c \in Nat /\ \A i \in 1 .. n : i # k => o[i] = o[i]
    BY <1>5
  <2> HIDE DEF c, n
  <2>2. o = (a \o <<c>>) \o b
    BY ONLY <1>4, <2>1
  <2> QED BY <2>2 DEF c
<1>7. ASSUME NEW q \in Nat PROVE [o EXCEPT ![k] = q] = (a \o <<q>>) \o b
  <2> DEFINE z == [o EXCEPT ![k] = q]
  <2>1. z \in Seq(Nat) /\ Len(z) = n /\ z[k] = q /\ \A i \in 1 .. n : i # k => z[i] = o[i]
    OBVIOUS
  <2> HIDE DEF z, n
  <2>2. z = (a \o <<q>>) \o b
    BY ONLY q \in Nat, <1>4, <2>1
  <2> QED BY <2>2 DEF z
<1>8. Cut(o, k, a, b)
  BY <1>2, <1>3, <1>6 DEF Cut
<1> QED BY <1>2, <1>3, <1>7, <1>8

\* Where the end decomposes no further.
LEMMA DecomposeEnds ==
    \A a \in Seq(Nat), c \in Nat, ms \in Seq(Fixed) :
        /\ Decompose(a) \o decompose_into(c) \in Seq(Nat)
        /\ PutAll(<<>>, Decompose((a \o <<c>>) \o ms))
             = PutAll(PutAll(<<>>, Decompose(a) \o decompose_into(c)), ms)
<1> SUFFICES ASSUME NEW a \in Seq(Nat), NEW c \in Nat, NEW ms \in Seq(Fixed)
             PROVE  /\ Decompose(a) \o decompose_into(c) \in Seq(Nat)
                    /\ PutAll(<<>>, Decompose((a \o <<c>>) \o ms))
                         = PutAll(PutAll(<<>>, Decompose(a) \o decompose_into(c)), ms)
  OBVIOUS
<1> DEFINE ac == a \o <<c>>
           d == Decompose(a) \o decompose_into(c)
<1>1. ac \in Seq(Nat) /\ ac = Append(a, c) /\ <<>> \in Seq(Nat)
  OBVIOUS
<1>2. d \in Seq(Nat) /\ Decompose(Append(a, c)) = d
  <2>1. Decompose(a) \in Seq(Nat) /\ decompose_into(c) \in Seq(Nat)
    BY DecomposeRuns
  <2>2. d \in Seq(Nat)
    BY <2>1
  <2> QED BY <2>2, DecomposeRuns
<1>3. ms \in Seq(Nat) /\ Decompose(ms) = ms
  BY FixedStays
<1> HIDE DEF ac, d
<1>4. Decompose(ac \o ms) = d \o ms
  <2>1. Decompose(ac \o ms) = Decompose(ac) \o Decompose(ms)
    BY <1>1, <1>3, DecomposeConcat
  <2>2. Decompose(ac) = d
    BY <1>1, <1>2, Zenon
  <2> QED BY <1>3, <2>1, <2>2, Zenon
<1>5. PutAll(<<>>, d \o ms) = PutAll(PutAll(<<>>, d), ms)
  BY <1>2, <1>3, PutAllEmpty, Zenon
<1>6. PutAll(<<>>, Decompose(ac \o ms)) = PutAll(PutAll(<<>>, d), ms)
  BY <1>4, <1>5, Zenon
<1> QED BY <1>2, <1>6 DEF ac, d

\* What is out of compose still stands for the text s it was given.
Recovers(st, s) ==
    /\ st \in Composings(Nat)
    /\ \A i \in 1 .. Len(st.out) : i > st.starter => st.out[i] \in Fixed
    /\ PutAll(<<>>, Decompose(st.out)) = s

LEMMA RecoversAppends ==
    ASSUME NEW st, NEW s \in Seq(Nat), NEW x \in Fixed, Recovers(st, s),
           Reaches(st, combining_class(x)) => compose_pair(st.out[st.starter], x) = 0
    PROVE  Recovers(ComposeStep(st, x), Put(s, x))
<1> DEFINE o == st.out
           new == ComposeStep(st, x)
           y == Append(o, x)
           n == Len(o)
<1>1. o \in Seq(Nat) /\ st.starter \in Nat /\ n \in Nat /\ x \in Nat
  BY FixedStays DEF Recovers, Composings
<1>2. new \in Composings(Nat)
  BY <1>1, ComposeStepType DEF Recovers
<1>3. new = [out |-> y, starter |-> NewStarter(st, combining_class(x)), last_cc |-> combining_class(x)]
  BY DEF ComposeStep
<1>4. new.out = y /\ new.starter = NewStarter(st, combining_class(x))
  BY <1>3
<1>5. y \in Seq(Nat) /\ Len(y) = n + 1 /\ y[n + 1] = x /\ \A i \in 1 .. n : y[i] = o[i]
  BY <1>1
<1>6. \A i \in 1 .. n : i > st.starter => o[i] \in Fixed
  BY DEF Recovers
<1>7. PutAll(<<>>, Decompose(o)) = s
  BY DEF Recovers
<1>8. Decompose(y) = Append(Decompose(o), x) /\ Decompose(o) \in Seq(Nat)
  <2> HIDE DEF o
  <2>1. Decompose(y) = Decompose(o) \o decompose_into(x) /\ Decompose(o) \in Seq(Nat)
    BY <1>1, DecomposeRuns
  <2>2. decompose_into(x) = <<x>>
    BY DEF Fixed
  <2> DEFINE d == Decompose(o)
  <2> HIDE DEF d
  <2>3. d \in Seq(Nat)
    BY <2>1 DEF d
  <2>4. d \o <<x>> = Append(d, x)
    BY <1>1, <2>3
  <2>5. Decompose(y) = Append(d, x)
    BY <2>1, <2>2, <2>4, Zenon DEF d
  <2> QED BY <2>1, <2>5 DEF d
<1>9. PutAll(<<>>, Decompose(y)) = Put(s, x)
  <2> DEFINE d == Decompose(o)
  <2>1. <<>> \in Seq(Nat)
    OBVIOUS
  <2>2. d \in Seq(Nat) /\ Decompose(y) = Append(d, x) /\ PutAll(<<>>, d) = s
    BY <1>7, <1>8
  <2> HIDE DEF d, y
  <2>3. PutAll(<<>>, Append(d, x)) = Put(PutAll(<<>>, d), x)
    BY <1>1, <2>2, PutAllEmpty, Zenon
  <2> QED BY <2>2, <2>3, Zenon
<1> HIDE DEF o, new, y, n
<1>10. ASSUME NEW i \in 1 .. Len(y), i > new.starter PROVE y[i] \in Fixed
  <2>1. CASE combining_class(x) = 0
    <3>1. new.starter = n + 1
      BY <1>4, <2>1 DEF NewStarter, n, o
    <3> QED BY <1>1, <1>5, <1>10, <3>1
  <2>2. CASE combining_class(x) # 0
    <3>1. new.starter = st.starter
      BY <1>4, <2>2 DEF NewStarter
    <3>2. CASE i = n + 1
      BY <1>5, <3>2
    <3>3. CASE i # n + 1
      <4>1. i \in 1 .. n
        BY <1>1, <1>5, <3>3
      <4> QED BY <1>5, <1>6, <1>10, <3>1, <4>1
    <3> QED BY <3>2, <3>3
  <2> QED BY <2>1, <2>2
<1> QED BY <1>2, <1>4, <1>9, <1>10 DEF Recovers, new

LEMMA RecoversComposes ==
    ASSUME NEW st, NEW s \in Seq(Nat), NEW x \in Fixed, Recovers(st, s),
           NEW c, Good(st, c), Reaches(st, combining_class(x)), compose_pair(st.out[st.starter], x) # 0
    PROVE  Recovers(ComposeStep(st, x), Put(s, x))
<1> DEFINE o == st.out
           k == st.starter
           q == compose_pair(o[k], x)
           new == ComposeStep(st, x)
           z == [o EXCEPT ![k] = q]
           M == {m \in Nat : 0 < combining_class(m) /\ combining_class(m) < combining_class(x)}
<1>1. /\ st \in [out : Seq(Nat), starter : Nat, last_cc : Nat] /\ o \in Seq(Nat) /\ x \in Nat
      /\ k \in 1 .. Len(o) /\ o[k] \in Nat /\ st.last_cc \in Nat
  BY FixedStays DEF Good, Composings, Reaches
<1>2. new \in Composings(Nat)
  BY <1>1, ComposeStepType DEF Recovers
<1>3. new = [st EXCEPT !.out[st.starter] = q]
  BY DEF ComposeStep
<1>4. q \in Nat /\ decompose_into(q) = decompose_into(o[k]) \o <<x>>
  <2> HIDE DEF o, k
  <2>1. q # 0
    BY DEF o, k
  <2> QED BY <1>1, <2>1, ComposePairType, PairDecomposes DEF Lower
<1> HIDE DEF q, new
<1>5. new.out = z /\ new.starter = k
  BY <1>1, <1>3
<1>6. \A i \in 1 .. Len(o) : i > k => /\ o[i] \in Fixed
                                       /\ 0 < combining_class(o[i]) /\ combining_class(o[i]) <= st.last_cc
  BY <1>1 DEF Recovers, Good, Unstarted
<1>7. st.last_cc = 0 \/ st.last_cc < combining_class(x)
  BY DEF Reaches
<1>8. PutAll(<<>>, Decompose(o)) = s
  BY DEF Recovers
<1> HIDE DEF o, k
<1>9. PICK a, b \in Seq(Nat) : Cut(o, k, a, b) /\ \A y \in Nat : [o EXCEPT ![k] = y] = (a \o <<y>>) \o b
  BY <1>1, CutAround
<1>10. \A i \in 1 .. Len(b) : b[i] \in Fixed /\ b[i] \in M
  <2> SUFFICES ASSUME NEW i \in 1 .. Len(b) PROVE b[i] \in Fixed /\ b[i] \in M
    OBVIOUS
  <2>1. k + i \in 1 .. Len(o) /\ k + i > k /\ b[i] = o[k + i]
    BY <1>1, <1>9 DEF Cut
  <2>2. b[i] \in Fixed /\ 0 < combining_class(b[i]) /\ combining_class(b[i]) <= st.last_cc
    BY <1>6, <2>1
  <2>3. b[i] \in Nat
    OBVIOUS
  <2>4. combining_class(b[i]) \in Nat /\ combining_class(x) \in Nat /\ st.last_cc \in Nat
    BY <1>1, ClassType
  <2>5. combining_class(b[i]) < combining_class(x)
    BY <1>7, <2>2, <2>4
  <2> QED BY <2>2, <2>3, <2>5
<1>11. b \in Seq(Fixed) /\ b \in Seq(M)
  <2> HIDE DEF M
  <2>1. b \in Seq(Nat) /\ (\A i \in 1 .. Len(b) : b[i] \in Fixed) /\ (\A i \in 1 .. Len(b) : b[i] \in M)
    BY <1>10
  <2>2. b \in Seq(Fixed)
    BY <2>1, SeqWithin
  <2>3. b \in Seq(M)
    BY <2>1, SeqWithin
  <2> QED BY <2>2, <2>3
<1> DEFINE d == Decompose(a) \o decompose_into(o[k])
           w == PutAll(<<>>, d)
<1>12. d \in Seq(Nat) /\ s = PutAll(w, b)
  <2>1. o = (a \o <<o[k]>>) \o b
    BY <1>9 DEF Cut
  <2>2. PutAll(<<>>, Decompose((a \o <<o[k]>>) \o b)) = PutAll(w, b) /\ d \in Seq(Nat)
    BY <1>1, <1>11, DecomposeEnds
  <2> QED BY <1>8, <2>1, <2>2, Zenon
<1>13. w \in Seq(Nat)
  <2>1. <<>> \in Seq(Nat)
    OBVIOUS
  <2> HIDE DEF d
  <2> QED BY <1>12, <2>1, PutAllEach
<1>14. PutAll(<<>>, Decompose(z)) = PutAll(Put(w, x), b)
  <2>1. z = (a \o <<q>>) \o b
    BY <1>4, <1>9
  <2>2. PutAll(<<>>, Decompose((a \o <<q>>) \o b)) = PutAll(PutAll(<<>>, Decompose(a) \o decompose_into(q)), b)
    BY <1>4, <1>11, DecomposeEnds
  <2>3. Decompose(a) \o decompose_into(q) = Append(d, x)
    <3> DEFINE e == Decompose(a)
               f == decompose_into(o[k])
    <3>1. e \in Seq(Nat) /\ f \in Seq(Nat)
      BY <1>1, DecomposeRuns
    <3>2. decompose_into(q) = f \o <<x>>
      BY <1>4
    <3>3. d = e \o f
      OBVIOUS
    <3> HIDE DEF e, f, d
    <3>4. Lengthens(e, f, x)
      BY <1>1, <3>1, LengthenedBy
    <3>5. e \o decompose_into(q) = Append(d, x)
      BY <3>2, <3>3, <3>4, Zenon DEF Lengthens
    <3> QED BY <3>5 DEF e
  <2>4. PutAll(<<>>, Append(d, x)) = Put(w, x)
    <3>1. <<>> \in Seq(Nat) /\ d \in Seq(Nat) /\ x \in Nat
      BY <1>1, <1>12
    <3> HIDE DEF d
    <3> QED BY <3>1, PutAllEmpty, Zenon
  <2> HIDE DEF d, z
  <2> QED BY <2>1, <2>2, <2>3, <2>4, Zenon
<1>15. PutAll(Put(w, x), b) = Put(PutAll(w, b), x)
  <2> HIDE DEF w
  <2> QED BY <1>1, <1>11, <1>13, PutAllSwaps
<1>16. PutAll(<<>>, Decompose(z)) = Put(s, x)
  <2> HIDE DEF w, z
  <2> QED BY <1>12, <1>14, <1>15, Zenon
<1>17. ASSUME NEW i \in 1 .. Len(z), i > k PROVE z[i] \in Fixed
  <2>1. i \in 1 .. Len(o) /\ z[i] = o[i]
    <3>1. Len(z) = Len(o)
      BY <1>1, <1>4
    <3> QED BY <1>1, <1>4, <1>17, <3>1
  <2> QED BY <1>6, <1>17, <2>1
<1> HIDE DEF z
<1> QED BY <1>2, <1>5, <1>16, <1>17 DEF Recovers, new

\* What is not below the last class goes at the end.
LEMMA PutLast ==
    \A w \in Seq(Nat), x \in Nat : ClassAtEnd(w) <= combining_class(x) => Put(w, x) = Append(w, x)
<1> SUFFICES ASSUME NEW w \in Seq(Nat), NEW x \in Nat, ClassAtEnd(w) <= combining_class(x)
             PROVE  Put(w, x) = Append(w, x)
  OBVIOUS
<1>1. <<>> \in Seq(Nat) /\ Len(<<>>) = 0 /\ w \o <<>> = w
  OBVIOUS
<1>2. Around(w, <<>>, x)
  BY <1>1 DEF Around, ClassAtEnd
<1>3. Put(w \o <<>>, x) = (w \o <<x>>) \o <<>>
  BY <1>1, <1>2, PutAt
<1>4. (w \o <<x>>) \o <<>> = Append(w, x)
  OBVIOUS
<1> QED BY <1>1, <1>3, <1>4, Zenon

\* Composing a text that is in order and decomposes no further.
LEMMA ComposedRecovers ==
    \A s \in Seq(Fixed) : Ordered(s) => Recovers(Composing(s), s)
<1> DEFINE T == {s \in Seq(Fixed) : Ordered(s) => Recovers(Composing(s), s)}
<1>1. <<>> \in T
  <2>1. <<>> \in Seq(Fixed) /\ <<>> \in Seq(Nat) /\ Len(<<>>) = 0
    OBVIOUS
  <2>2. Uncomposed \in Composings(Nat) /\ Uncomposed.out = <<>>
    BY ComposeStepType DEF Uncomposed
  <2>3. PutAll(<<>>, Decompose(<<>>)) = <<>>
    BY <2>1, DecomposeRuns, PutAllEach
  <2>4. Recovers(Uncomposed, <<>>)
    BY <2>1, <2>2, <2>3 DEF Recovers
  <2> QED BY <2>1, <2>4, ComposeRuns
<1>2. ASSUME NEW s \in T, NEW x \in Fixed PROVE Append(s, x) \in T
  <2>1. s \in Seq(Fixed) /\ Append(s, x) \in Seq(Fixed) /\ s \in Seq(Nat) /\ x \in Nat
    BY FixedStays
  <2> SUFFICES ASSUME Ordered(Append(s, x)) PROVE Recovers(Composing(Append(s, x)), Append(s, x))
    BY <2>1
  <2>2. Ordered(s) /\ (combining_class(x) = 0 \/ ClassAtEnd(s) <= combining_class(x))
    BY <2>1, ClassAtEndRuns
  <2>3. Recovers(Composing(s), s) /\ Good(Composing(s), ClassAtEnd(s))
    BY <2>1, <2>2, ComposedWhole
  <2>4. Composing(Append(s, x)) = ComposeStep(Composing(s), x)
    BY <2>1, ComposeRuns
  <2>5. Put(s, x) = Append(s, x)
    <3>1. CASE combining_class(x) = 0
      BY <2>1, <3>1, PutStarter
    <3>2. CASE combining_class(x) # 0
      BY <2>1, <2>2, <3>2, PutLast
    <3> QED BY <3>1, <3>2
  <2> DEFINE st == Composing(s)
  <2>6. Recovers(st, s) /\ Good(st, ClassAtEnd(s))
    BY <2>3
  <2> HIDE DEF st
  <2>7. Recovers(ComposeStep(st, x), Put(s, x))
    <3>1. CASE Reaches(st, combining_class(x)) /\ compose_pair(st.out[st.starter], x) # 0
      BY <2>1, <2>6, <3>1, RecoversComposes
    <3>2. CASE ~ (Reaches(st, combining_class(x)) /\ compose_pair(st.out[st.starter], x) # 0)
      BY <2>1, <2>6, <3>2, RecoversAppends
    <3> QED BY <3>1, <3>2
  <2> QED BY <2>4, <2>5, <2>7 DEF st
<1>3. T = Seq(Fixed)
  <2>1. T \in SUBSET Seq(Fixed)
    OBVIOUS
  <2> HIDE DEF T
  <2> QED BY <1>1, <1>2, <2>1, SeqInduction
<1> QED BY <1>3

\* Decomposing and ordering what the three passes gave is what they composed.
LEMMA PipelineRecovers ==
    ASSUME NEW v \in Seq(Nat)
    PROVE  canonical_order(Decompose(Pipeline(v))) = canonical_order(Decompose(v))
<1> DEFINE d == Decompose(v)
           e == canonical_order(d)
<1>1. d \in Seq(Nat) /\ d \in Seq(Fixed)
  BY DecomposeRuns, DecomposeFixed
<1>2. Pipeline(v) = Compose(e)
  BY DEF Pipeline
<1> HIDE DEF d
<1>3. e \in Seq(Nat) /\ Ordered(e) /\ e \in Seq(Fixed)
  BY <1>1, FixedStays, CanonicalOrderRuns, CanonicalOrdered, CanonicalOrderType
<1> HIDE DEF e
<1>4. Recovers(Composing(e), e) /\ Compose(e) = Composing(e).out
  BY <1>3, ComposedRecovers, ComposeRuns
<1>5. PutAll(<<>>, Decompose(Compose(e))) = e /\ Compose(e) \in Seq(Nat)
  BY <1>4 DEF Recovers, Composings
<1>6. canonical_order(Decompose(Compose(e))) = e
  <2>1. Decompose(Compose(e)) \in Seq(Nat)
    BY <1>5, DecomposeRuns
  <2>2. canonical_order(Decompose(Compose(e))) = PutAll(<<>>, Decompose(Compose(e)))
    BY <2>1, CanonicalOrderAll
  <2> QED BY <1>5, <2>2, Zenon
<1> QED BY <1>2, <1>6 DEF e, d

\* A text and its NFC have one canonical decomposition: composing takes back nothing
\* that decomposing and ordering would not give again.
THEOREM EquivalentHolds == TextSpec => []Equivalent
<1>1. TextInv => Equivalent
  <2> SUFFICES ASSUME TextInv PROVE Equivalent
    OBVIOUS
  <2>1. text \in Seq(Nat) /\ (form = text \/ form = Pipeline(text))
    BY TextsAreNat DEF TextInv, nfc
  <2> QED BY <2>1, PipelineRecovers DEF Equivalent
<1> QED BY <1>1, TextHolds, PTL

-----------------------------------------------------------------------------
(* The quick check.                                                          *)

LEMMA AloneComposes ==
    \A a, c \in Nat : c \notin DOMAIN NFC_QC /\ c \notin VJamo \cup TJamo => compose_pair(a, c) = 0
<1> SUFFICES ASSUME NEW a \in Nat, NEW c \in Nat, c \notin DOMAIN NFC_QC, c \notin VJamo \cup TJamo
             PROVE  compose_pair(a, c) = 0
  OBVIOUS
<1>1. \A p \in DOMAIN COMP : p[2] # c
  BY TablesAssumption
<1>2. <<a, c>>[2] = c
  OBVIOUS
<1> QED BY <1>1, <1>2, PairComposes

\* compose after a starter that nothing before it took.
Started(st, c) == [out |-> Append(st.out, c), starter |-> Len(st.out) + 1, last_cc |-> 0]

\* Wherever c comes, ordering leaves its decomposition in place and composition puts
\* it together again.
Enters(c) ==
    \A e \in Seq(Nat) :
        /\ PutAll(e, decompose_into(c)) = e \o decompose_into(c)
        /\ Composing(e \o decompose_into(c)) = Started(Composing(e), c)

LEMMA PutAllOne ==
    \A e \in Seq(Nat), c \in Nat : PutAll(e, <<c>>) = Put(e, c) /\ e \o <<c>> = Append(e, c)
<1> SUFFICES ASSUME NEW e \in Seq(Nat), NEW c \in Nat
             PROVE  PutAll(e, <<c>>) = Put(e, c) /\ e \o <<c>> = Append(e, c)
  OBVIOUS
<1> DEFINE o == <<>>
           s == Append(o, c)
<1>1. o \in Seq(Nat) /\ s = <<c>>
  OBVIOUS
<1>2. PutAll(e, o) = e
  BY PutAllEach
<1> HIDE DEF o
<1>3. PutAll(e, Append(o, c)) = Put(PutAll(e, o), c)
  BY <1>1, PutAllEach, Zenon
<1>4. e \o <<c>> = Append(e, c)
  OBVIOUS
<1> QED BY <1>1, <1>2, <1>3, <1>4, Zenon

LEMMA EntersAlone ==
    \A c \in Fixed : combining_class(c) = 0 /\ (\A a \in Nat : compose_pair(a, c) = 0) => Enters(c)
<1> SUFFICES ASSUME NEW c \in Fixed, combining_class(c) = 0, \A a \in Nat : compose_pair(a, c) = 0,
                    NEW e \in Seq(Nat)
             PROVE  /\ PutAll(e, <<c>>) = e \o <<c>>
                    /\ Composing(e \o <<c>>) = Started(Composing(e), c)
  BY DEF Enters, Fixed
<1>1. c \in Nat
  BY FixedStays
<1>2. PutAll(e, <<c>>) = Put(e, c) /\ e \o <<c>> = Append(e, c) /\ Put(e, c) = Append(e, c)
  BY <1>1, PutAllOne, PutStarter
<1> DEFINE st == Composing(e)
<1>3. st \in Composings(Nat) /\ Composing(Append(e, c)) = ComposeStep(st, c)
  BY <1>1, ComposeRuns
<1> HIDE DEF st
<1>4. ComposeStep(st, c) = Started(st, c)
  <2>1. Reaches(st, 0) => st.out[st.starter] \in Nat
    BY <1>3 DEF Reaches, Composings
  <2>2. Reaches(st, 0) => compose_pair(st.out[st.starter], c) = 0
    BY <2>1
  <2> QED BY <2>2 DEF ComposeStep, NewStarter, Started
<1> QED BY <1>2, <1>3, <1>4, Zenon DEF st

\* Where the last class of d leaves room for b.
LEMMA EntersComposed ==
    ASSUME NEW a \in Nat, NEW b \in Nat, Enters(a), compose_pair(a, b) # 0,
           combining_class(b) = 0 \/ (Len(decompose_into(a)) > 0
                                        /\ ClassAtEnd(decompose_into(a)) <= combining_class(b))
    PROVE  Enters(compose_pair(a, b))
<1> DEFINE q == compose_pair(a, b)
           d == decompose_into(a)
<1>1. decompose_into(q) = d \o <<b>> /\ d \in Seq(Nat) /\ q # 0
  BY PairDecomposes, DecomposeRuns
<1>0. combining_class(b) = 0 \/ (Len(d) > 0 /\ ClassAtEnd(d) <= combining_class(b))
  OBVIOUS
<1>2. \A e \in Seq(Nat) : PutAll(e, d) = e \o d /\ Composing(e \o d) = Started(Composing(e), a)
  BY DEF Enters
<1>3. compose_pair(a, b) = q
  OBVIOUS
<1> HIDE DEF q, d
<1> SUFFICES ASSUME NEW e \in Seq(Nat)
             PROVE  /\ PutAll(e, decompose_into(q)) = e \o decompose_into(q)
                    /\ Composing(e \o decompose_into(q)) = Started(Composing(e), q)
  BY DEF Enters, q
<1> DEFINE ed == e \o d
<1>4. ed \in Seq(Nat) /\ (Len(d) > 0 => ClassAtEnd(ed) = ClassAtEnd(d))
  <2>1. ed \in Seq(Nat) /\ Len(ed) = Len(e) + Len(d) /\ (Len(d) > 0 => Len(ed) > 0 /\ ed[Len(ed)] = d[Len(d)])
    BY <1>1
  <2>2. Len(d) > 0 => Len(d) # 0 /\ Len(ed) # 0
    BY <2>1
  <2> HIDE DEF ed
  <2> QED BY <2>1, <2>2 DEF ClassAtEnd
<1>5. e \o decompose_into(q) = Append(ed, b)
  <2>1. Lengthens(e, d, b)
    BY <1>1, LengthenedBy
  <2> QED BY <1>1, <2>1, Zenon DEF Lengthens
<1>6. PutAll(e, decompose_into(q)) = Put(ed, b)
  <2> DEFINE m == <<b>>
  <2>1. m \in Seq(Nat)
    OBVIOUS
  <2> HIDE DEF m, ed
  <2>2. PutAll(e, d \o m) = PutAll(PutAll(e, d), m)
    BY <1>1, <2>1, PutAllEach, Zenon
  <2>3. PutAll(e, d) = ed
    BY <1>2, Zenon DEF ed
  <2>4. PutAll(ed, m) = Put(ed, b)
    BY <1>4, PutAllOne, Zenon DEF m
  <2> QED BY <1>1, <2>2, <2>3, <2>4, Zenon DEF m
<1>7. Composing(ed) = Started(Composing(e), a)
  BY <1>2
<1> HIDE DEF ed
<1>8. Put(ed, b) = Append(ed, b)
  <2>1. CASE combining_class(b) = 0
    BY <1>4, <2>1, PutStarter
  <2>2. CASE combining_class(b) # 0
    <3>1. ClassAtEnd(ed) <= combining_class(b)
      BY <1>0, <1>4, <2>2
    <3> QED BY <1>4, <3>1, PutLast
  <2> QED BY <2>1, <2>2
<1>9. Composing(Append(ed, b)) = ComposeStep(Started(Composing(e), a), b)
  BY <1>4, <1>7, ComposeRuns
<1> DEFINE st == Composing(e)
<1>10. st \in Composings(Nat)
  BY ComposeRuns
<1> HIDE DEF st
<1>11. ComposeStep(Started(st, a), b) = Started(st, q)
  <2> DEFINE o == st.out
             n == Len(o) + 1
             y == Append(o, a)
             sa == Started(st, a)
  <2>1. o \in Seq(Nat) /\ Len(o) \in Nat /\ n # 0
    BY <1>10 DEF Composings
  <2>2. sa = [out |-> y, starter |-> n, last_cc |-> 0]
    BY DEF Started
  <2>3. y[n] = a /\ [y EXCEPT ![n] = q] = Append(o, q)
    <3>1. q \in Nat
      BY <1>1, ComposePairType DEF q, Lower
    <3> HIDE DEF o
    <3>2. y \in Seq(Nat) /\ Len(y) = n /\ y[n] = a /\ \A i \in 1 .. Len(o) : y[i] = o[i]
      BY <2>1
    <3> DEFINE z == [y EXCEPT ![n] = q]
               w == Append(o, q)
    <3>3. w \in Seq(Nat) /\ Len(w) = n /\ w[n] = q /\ \A i \in 1 .. Len(o) : w[i] = o[i]
      BY <2>1, <3>1
    <3> HIDE DEF y
    <3>4. z \in Seq(Nat) /\ Len(z) = n /\ z[n] = q /\ \A i \in 1 .. Len(o) : z[i] = y[i]
      BY <2>1, <3>1, <3>2
    <3> HIDE DEF z, w
    <3>5. \A i \in 1 .. n : z[i] = w[i]
      <4> SUFFICES ASSUME NEW i \in 1 .. n PROVE z[i] = w[i]
        OBVIOUS
      <4>1. i = n \/ i \in 1 .. Len(o)
        BY <2>1
      <4>2. CASE i = n
        BY <3>3, <3>4, <4>2
      <4>3. CASE i \in 1 .. Len(o)
        BY <3>2, <3>3, <3>4, <4>3
      <4> QED BY <4>1, <4>2, <4>3
    <3>6. z = w
      BY <3>3, <3>4, <3>5, SeqEqual
    <3> QED BY <3>2, <3>6 DEF z, w
  <2> HIDE DEF y, n, o, sa
  <2>4. sa.out = y /\ sa.starter = n /\ sa.last_cc = 0 /\ Reaches(sa, combining_class(b))
    BY <2>1, <2>2 DEF Reaches
  <2>5. ComposeStep(sa, b) = [sa EXCEPT !.out[sa.starter] = q]
    BY <1>1, <1>3, <2>3, <2>4 DEF ComposeStep
  <2> DEFINE z == [y EXCEPT ![n] = q]
  <2>8. [sa EXCEPT !.out[sa.starter] = q] = [sa EXCEPT !.out = z]
    BY <2>4
  <2> HIDE DEF z
  <2>9. [sa EXCEPT !.out = z] = [out |-> z, starter |-> n, last_cc |-> 0]
    BY <2>2
  <2>6. [sa EXCEPT !.out[sa.starter] = q] = [out |-> [y EXCEPT ![n] = q], starter |-> n, last_cc |-> 0]
    BY <2>8, <2>9, Zenon DEF z
  <2>7. ComposeStep(sa, b) = [out |-> Append(o, q), starter |-> n, last_cc |-> 0]
    BY <2>3, <2>5, <2>6, Zenon
  <2> QED BY <2>7, Zenon DEF sa, Started, o, n
<1> QED BY <1>5, <1>6, <1>8, <1>9, <1>11, Zenon DEF st

\* A syllable enters by its jamo.
LEMMA SyllableEnters ==
    \A c \in Nat : is_hangul_syllable(c) => Enters(c)
<1> SUFFICES ASSUME NEW c \in Nat, is_hangul_syllable(c) PROVE Enters(c)
  OBVIOUS
<1> DEFINE s == c - SBase
           l == LBase + s \div NCount
           v == VBase + (s % NCount) \div TCount
           t == s % TCount
           lv == compose_pair(l, v)
<1>1. l \in LJamo /\ v \in VJamo /\ (t # 0 => TBase + t \in TJamo)
  BY SyllableIs
<1>2. hangul_compose(l, v) = SBase + ((l - LBase) * VCount + (v - VBase)) * TCount
  <2> HIDE DEF l, v
  <2> QED BY <1>1 DEF hangul_compose
<1>3. SBase + ((l - LBase) * VCount + (v - VBase)) * TCount = c - t
  BY SMT DEF is_hangul_syllable, LBase, VBase, LCount, VCount, TCount, NCount, SCount, SBase
<1>4. is_hangul_syllable(c - t) /\ (c - t - SBase) % TCount = 0 /\ c - t \in Nat /\ c - t # 0
  BY SMT DEF is_hangul_syllable, LCount, VCount, TCount, NCount, SCount, SBase
<1>5. lv = c - t
  BY <1>2, <1>3, <1>4 DEF compose_pair
<1>6. \A j \in LJamo \cup VJamo \cup TJamo : combining_class(j) = 0
  BY HangulAssumption DEF combining_class, Lookup
<1>7. \A j \in VJamo \cup TJamo : j \in Nat
  BY JamoFixed, FixedStays
<1>8. l \in Fixed /\ v \in Nat
  <2> HIDE DEF l, v
  <2> QED BY <1>1, <1>7, JamoFixed
<1>9. t \in Nat
  BY SMT DEF is_hangul_syllable, LCount, VCount, TCount, NCount, SCount, SBase
<1> HIDE DEF l, v, t
<1>10. \A a \in Nat : compose_pair(a, l) = 0
  <2> SUFFICES ASSUME NEW a \in Nat PROVE compose_pair(a, l) = 0
    OBVIOUS
  <2>1. l \notin VJamo \cup TJamo /\ l \in Nat
    BY <1>1, SMT DEF LJamo, VJamo, TJamo, LBase, VBase, TBase, LCount, VCount, TCount
  <2>2. <<a, l>> \notin DOMAIN COMP
    <3>1. \A p \in DOMAIN COMP : p[2] # l
      BY <1>1, HangulAssumption
    <3>2. <<a, l>>[2] = l
      OBVIOUS
    <3> QED BY <3>1, <3>2
  <2> QED BY <2>1, <2>2, PairComposes
<1>11. Enters(l)
  BY <1>1, <1>6, <1>8, <1>10, EntersAlone
<1>12. Enters(lv)
  <2>1. compose_pair(l, v) # 0 /\ combining_class(v) = 0 /\ l \in Nat /\ v \in Nat
    BY <1>1, <1>4, <1>5, <1>6, <1>8, FixedStays
  <2> QED BY <1>11, <2>1, EntersComposed
<1>13. CASE t = 0
  <2>1. lv = c
    BY <1>5, <1>13
  <2> QED BY <1>12, <2>1
<1>14. CASE t # 0
  <2> DEFINE a == c - t
             b == TBase + t
  <2>1. a \in Nat /\ b \in Nat /\ b \in TJamo /\ combining_class(b) = 0 /\ Enters(a)
    <3>1. b \in TJamo
      BY <1>1, <1>14
    <3> HIDE DEF b
    <3> QED BY <1>4, <1>5, <1>6, <1>7, <1>12, <3>1
  <2>2. hangul_compose(a, b) = a + (b - TBase)
    <3>1. a \notin LJamo
      BY <1>4, SMT DEF is_hangul_syllable, LJamo, LBase, LCount, SBase
    <3> HIDE DEF a, b
    <3>2. is_hangul_syllable(a) /\ (a - SBase) % TCount = 0
      BY <1>4 DEF a
    <3> QED BY <2>1, <3>1, <3>2 DEF hangul_compose
  <2>3. a + (b - TBase) = c
    BY <1>9 DEF TBase
  <2>4. c # 0
    BY DEF is_hangul_syllable, SBase
  <2> HIDE DEF a, b
  <2>5. compose_pair(a, b) = c
    BY <2>2, <2>3, <2>4 DEF compose_pair
  <2> QED BY <2>1, <2>4, <2>5, EntersComposed
<1> QED BY <1>13, <1>14

\* A starter that no pair composes to, or that a chain of pairs does, the first of
\* which starts with a code point the quick check passes.
Primary(c) ==
    /\ c \in Nat /\ combining_class(c) = 0 /\ ~ is_hangul_syllable(c) /\ c \notin VJamo \cup TJamo
    /\ canonical_decomposition(c)[1] \notin DOMAIN NFC_QC
    /\ c \in DOMAIN DECOMP => \E p \in DOMAIN COMP : COMP[p] = c

\* The pair that composes to it.
PairOf(c, a, b) ==
    /\ <<a, b>> \in DOMAIN COMP /\ COMP[<<a, b>>] = c /\ compose_pair(a, b) = c /\ c # 0
    /\ ~ is_hangul_syllable(a) /\ a \notin VJamo \cup TJamo /\ combining_class(a) = 0
    /\ decompose_into(c) = decompose_into(a) \o <<b>>

LEMMA PrimaryPair ==
    ASSUME NEW c \in Nat, Primary(c), c \in DOMAIN DECOMP
    PROVE  \E a, b \in Nat : PairOf(c, a, b)
<1>1. PICK p \in DOMAIN COMP : COMP[p] = c
  BY DEF Primary
<1>2. p \in Nat \X Nat /\ composes_as_second(p[2])
  BY TablesAssumption
<1>3. PICK a, b \in Nat : p = <<a, b>>
  BY <1>2
<1>4. p[1] = a /\ p[2] = b
  BY <1>3
<1>5. <<a, b>> \in DOMAIN COMP /\ COMP[<<a, b>>] = c /\ c # 0
  BY <1>1, <1>3, AsciiAssumption
<1>6. ~ is_hangul_syllable(a) /\ a \notin LJamo \cup VJamo \cup TJamo
  BY <1>4, HangulAssumption
<1>7. combining_class(a) = 0
  BY <1>4, CompositesAssumption DEF combining_class, Lookup
<1>8. compose_pair(a, b) = c
  <2>1. hangul_compose(a, b) = 0
    BY <1>6 DEF hangul_compose
  <2> QED BY <1>2, <1>4, <1>5, <2>1 DEF compose_pair, canonical_compose, Lookup
<1>9. decompose_into(c) = decompose_into(a) \o <<b>>
  <2>1. compose_pair(a, b) # 0
    BY <1>5, <1>8
  <2>2. decompose_into(compose_pair(a, b)) = decompose_into(a) \o <<b>>
    BY <2>1, PairDecomposes
  <2> QED BY <1>8, <2>2, Zenon
<1> QED BY <1>5, <1>6, <1>7, <1>8, <1>9 DEF PairOf

\* What a primary composite decomposes into: its length, its last class and its first.
LEMMA PairEnds ==
    ASSUME NEW a \in Nat, NEW b \in Nat, NEW d, d = decompose_into(a) \o <<b>>
    PROVE  /\ d \in Seq(Nat) /\ Len(d) = Len(decompose_into(a)) + 1 /\ Len(d) > 0
           /\ ClassAtEnd(d) = combining_class(b)
           /\ Len(decompose_into(a)) > 0 => d[1] = decompose_into(a)[1]
<1> DEFINE e == decompose_into(a)
<1>1. e \in Seq(Nat)
  BY DecomposeRuns
<1> HIDE DEF e
<1>2. e \o <<b>> \in Seq(Nat) /\ Len(e \o <<b>>) = Len(e) + 1 /\ (e \o <<b>>)[Len(e) + 1] = b
      /\ (Len(e) > 0 => (e \o <<b>>)[1] = e[1]) /\ Len(e) \in Nat
  BY <1>1
<1>3. d = e \o <<b>>
  BY Zenon DEF e
<1>4. d \in Seq(Nat) /\ Len(d) = Len(e) + 1 /\ d[Len(e) + 1] = b /\ (Len(e) > 0 => d[1] = e[1]) /\ Len(e) \in Nat
  BY <1>2, <1>3, Zenon
<1>5. Len(d) > 0 /\ Len(d) # 0
  BY <1>4
<1> QED BY <1>4, <1>5 DEF ClassAtEnd, e

LEMMA PrimaryEnters ==
    \A c \in Nat : Primary(c) => Enters(c)
<1> DEFINE Small(n, c) == Primary(c) /\ Len(decompose_into(c)) <= n
           T == {n \in Nat : \A c \in Nat : Small(n, c) => Enters(c)}
\* One that decomposes no further.
<1>1. ASSUME NEW c \in Nat, Primary(c), c \notin DOMAIN DECOMP PROVE Enters(c) /\ decompose_into(c) = <<c>>
  <2>1. c \in Fixed
    BY <1>1, FixedIs DEF Primary
  <2>2. c \notin DOMAIN NFC_QC
    <3>1. canonical_decomposition(c) = <<c>> /\ <<c>>[1] = c
      BY <1>1 DEF canonical_decomposition, Lookup
    <3> QED BY <1>1, <3>1 DEF Primary
  <2>3. \A a \in Nat : compose_pair(a, c) = 0
    BY <1>1, <2>2, AloneComposes DEF Primary
  <2>4. combining_class(c) = 0
    BY <1>1 DEF Primary
  <2>5. decompose_into(c) = <<c>>
    BY <2>1 DEF Fixed
  <2> QED BY <2>1, <2>3, <2>4, <2>5, EntersAlone
<1>2. ASSUME NEW c \in Nat, Primary(c) PROVE Len(decompose_into(c)) \in Nat /\ Len(decompose_into(c)) > 0
  <2>1. CASE c \notin DOMAIN DECOMP
    <3>1. decompose_into(c) = <<c>>
      BY <1>1, <1>2, <2>1
    <3> QED BY <3>1
  <2>2. CASE c \in DOMAIN DECOMP
    <3>1. PICK a, b \in Nat : PairOf(c, a, b)
      BY <1>2, <2>2, PrimaryPair
    <3> DEFINE d == decompose_into(c)
    <3>2. d = decompose_into(a) \o <<b>>
      BY <3>1 DEF PairOf
    <3> HIDE DEF d
    <3>3. d \in Seq(Nat) /\ Len(d) > 0
      BY <3>2, PairEnds
    <3>4. Len(d) \in Nat
      BY <3>3
    <3> QED BY <3>3, <3>4 DEF d
  <2> QED BY <2>1, <2>2
<1>3. 0 \in T
  <2>1. \A c \in Nat : ~ Small(0, c)
    <3> SUFFICES ASSUME NEW c \in Nat, Primary(c), Len(decompose_into(c)) <= 0 PROVE FALSE
      OBVIOUS
    <3>1. Len(decompose_into(c)) \in Nat /\ Len(decompose_into(c)) > 0
      BY <1>2
    <3> QED BY <3>1
  <2> QED BY <2>1
<1>4. ASSUME NEW k \in T PROVE k + 1 \in T
  <2> SUFFICES ASSUME NEW c \in Nat, Small(k + 1, c) PROVE Enters(c)
    OBVIOUS
  <2>0. Primary(c) /\ Len(decompose_into(c)) <= k + 1 /\ k \in Nat
    OBVIOUS
  <2>1. CASE c \notin DOMAIN DECOMP
    BY <1>1, <2>0, <2>1
  <2>2. CASE c \in DOMAIN DECOMP
    <3>0. PICK a, b \in Nat : PairOf(c, a, b)
      BY <2>0, <2>2, PrimaryPair
    <3>1. /\ <<a, b>> \in DOMAIN COMP /\ COMP[<<a, b>>] = c /\ compose_pair(a, b) = c /\ c # 0
          /\ ~ is_hangul_syllable(a) /\ a \notin VJamo \cup TJamo /\ combining_class(a) = 0
          /\ decompose_into(c) = decompose_into(a) \o <<b>>
      BY <3>0 DEF PairOf
    <3> DEFINE d == decompose_into(c)
               e == decompose_into(a)
    <3>2. d = e \o <<b>> /\ e \in Seq(Nat)
      BY <3>1, DecomposeRuns
    <3>3. <<a, b>>[1] = a /\ <<a, b>>[2] = b
      OBVIOUS
    <3>4. ~ is_hangul_syllable(c)
      BY <2>0 DEF Primary
    <3>5. d = canonical_decomposition(c) /\ e = canonical_decomposition(a)
      BY <3>1, <3>4 DEF decompose_into
    <3> HIDE DEF d, e
    <3>6. Len(d) = Len(e) + 1 /\ (Len(e) > 0 => d[1] = e[1])
      BY <3>2, PairEnds DEF e
    <3>7. a \in DOMAIN DECOMP => \E p \in DOMAIN COMP : COMP[p] = a
      BY <3>1, <3>3, DecompositionsAssumption
    <3>8. Len(e) > 0
      <4>1. CASE a \in DOMAIN DECOMP
        <5>1. PICK p \in DOMAIN COMP : COMP[p] = a
          BY <3>7, <4>1
        <5>2. p \in Nat \X Nat
          BY TablesAssumption
        <5>3. PICK a2, b2 \in Nat : p = <<a2, b2>>
          BY <5>2
        <5>4. canonical_decomposition(a) = canonical_decomposition(p[1]) \o <<p[2]>>
          BY <5>1, DecompositionsAssumption
        <5>5. p[1] = a2 /\ p[2] = b2
          BY <5>3
        <5>6. ~ is_hangul_syllable(a2)
          BY <5>5, HangulAssumption
        <5>7. canonical_decomposition(a2) = decompose_into(a2)
          BY <5>6 DEF decompose_into
        <5>8. e = decompose_into(a2) \o <<b2>>
          BY <3>5, <5>4, <5>5, <5>7, Zenon
        <5> QED BY <5>8, PairEnds
      <4>2. CASE a \notin DOMAIN DECOMP
        <5>1. e = <<a>>
          BY <3>5, <4>2 DEF canonical_decomposition, Lookup
        <5> QED BY <5>1
      <4> QED BY <4>1, <4>2
    <3>9. Primary(a) /\ Len(e) <= k
      <4>1. canonical_decomposition(a)[1] \notin DOMAIN NFC_QC
        <5>1. d[1] = e[1]
          BY <3>6, <3>8
        <5> QED BY <2>0, <3>5, <5>1 DEF Primary
      <4>2. Primary(a)
        BY <3>1, <3>7, <4>1 DEF Primary
      <4>3. Len(d) <= k + 1 /\ Len(e) \in Nat
        BY <2>0, <3>2 DEF d
      <4> QED BY <2>0, <3>6, <4>2, <4>3
    <3>10. Enters(a)
      BY <3>9 DEF e
    <3>11. combining_class(b) = 0 \/ ClassAtEnd(e) <= combining_class(b)
      <4>1. CASE a \in DOMAIN DECOMP
        <5>0. PICK a2, b2 \in Nat : PairOf(a, a2, b2)
          BY <3>9, <4>1, PrimaryPair
        <5>1. /\ <<a2, b2>> \in DOMAIN COMP /\ COMP[<<a2, b2>>] = a
              /\ decompose_into(a) = decompose_into(a2) \o <<b2>>
          BY <5>0 DEF PairOf
        <5>2. e = decompose_into(a2) \o <<b2>>
          BY <5>1 DEF e
        <5>3. ClassAtEnd(e) = combining_class(b2)
          BY <5>2, PairEnds
        <5>4. <<a2, b2>>[2] = b2
          OBVIOUS
        <5>5. combining_class(b) > 0 => combining_class(b2) <= combining_class(b)
          <6> DEFINE p == <<a2, b2>>
                     q == <<a, b>>
          <6>1. p \in DOMAIN COMP /\ q \in DOMAIN COMP /\ q[1] = COMP[p] /\ p[2] = b2 /\ q[2] = b
            BY <3>1, <3>3, <5>1, <5>4
          <6> HIDE DEF p, q
          <6> QED BY <6>1, CompositesAssumption
        <5>6. combining_class(b) \in Nat
          BY ClassType
        <5> QED BY <5>3, <5>5, <5>6
      <4>2. CASE a \notin DOMAIN DECOMP
        <5>1. e = <<a>>
          BY <3>5, <4>2 DEF canonical_decomposition, Lookup
        <5>2. Len(e) = 1 /\ e[1] = a
          BY <5>1
        <5>3. ClassAtEnd(e) = 0 /\ combining_class(b) \in Nat
          BY <3>1, <5>2, ClassType DEF ClassAtEnd
        <5> QED BY <5>3
      <4> QED BY <4>1, <4>2
    <3>12. compose_pair(a, b) # 0
      BY <3>1
    <3>13. Enters(compose_pair(a, b))
      BY <3>8, <3>10, <3>11, <3>12, EntersComposed DEF e
    <3> QED BY <3>1, <3>13
  <2> QED BY <2>1, <2>2
<1>5. T = Nat
  <2>1. T \in SUBSET Nat
    OBVIOUS
  <2> HIDE DEF T
  <2> QED BY <1>3, <1>4, <2>1, Induction
<1> SUFFICES ASSUME NEW c \in Nat, Primary(c) PROVE Enters(c)
  OBVIOUS
<1>6. Len(decompose_into(c)) \in Nat
  BY <1>2
<1> DEFINE n == Len(decompose_into(c))
<1>7. n \in T /\ n <= n
  BY <1>5, <1>6
<1> QED BY <1>7

\* A starter the quick check passes.
LEMMA StarterEnters ==
    ASSUME NEW y \in CodePoints, y \notin DOMAIN NFC_QC, combining_class(y) = 0
    PROVE  Enters(y)
<1>1. y \in Nat
  BY CodePointsAssumption
<1>2. CASE is_hangul_syllable(y)
  BY <1>1, <1>2, SyllableEnters
<1>3. CASE ~ is_hangul_syllable(y)
  <2>1. y \notin VJamo \cup TJamo
    BY JamoAssumption
  <2>2. y \in DOMAIN DECOMP => (\E p \in DOMAIN COMP : COMP[p] = y) /\ DECOMP[y][1] \notin DOMAIN NFC_QC
    BY QuickCheckAssumption
  <2>3. canonical_decomposition(y)[1] \notin DOMAIN NFC_QC
    <3>1. CASE y \in DOMAIN DECOMP
      BY <2>2, <3>1 DEF canonical_decomposition, Lookup
    <3>2. CASE y \notin DOMAIN DECOMP
      <4>1. canonical_decomposition(y) = <<y>> /\ <<y>>[1] = y
        BY <3>2 DEF canonical_decomposition, Lookup
      <4> QED BY <4>1
    <3> QED BY <3>1, <3>2
  <2> QED BY <1>1, <1>3, <2>1, <2>2, <2>3, PrimaryEnters DEF Primary
<1> QED BY <1>2, <1>3

\* compose with one more mark y in its way, and without it.
Slips(a, b, y) ==
    /\ a \in Composings(Nat) /\ a.last_cc <= combining_class(y)
    /\ b = [out |-> Append(a.out, y), starter |-> a.starter, last_cc |-> combining_class(y)]

LEMMA StaysAbove ==
    ASSUME NEW a \in Composings(Nat), NEW k \in Nat, a.last_cc > k, NEW m \in Nat, combining_class(m) > k
    PROVE  ComposeStep(a, m).last_cc > k
<1>1. a \in [out : Seq(Nat), starter : Nat, last_cc : Nat]
  BY DEF Composings
<1>2. CASE Reaches(a, combining_class(m)) /\ compose_pair(a.out[a.starter], m) # 0
  <2> DEFINE z == [a.out EXCEPT ![a.starter] = compose_pair(a.out[a.starter], m)]
  <2>1. ComposeStep(a, m) = [a EXCEPT !.out = z]
    BY <1>2 DEF ComposeStep
  <2> HIDE DEF z
  <2>2. ComposeStep(a, m).last_cc = a.last_cc
    BY <1>1, <2>1
  <2> QED BY <2>2
<1>3. CASE ~ (Reaches(a, combining_class(m)) /\ compose_pair(a.out[a.starter], m) # 0)
  <2>1. ComposeStep(a, m).last_cc = combining_class(m)
    BY <1>3 DEF ComposeStep
  <2> QED BY <2>1
<1> QED BY <1>2, <1>3

\* A mark above y that still reaches the starter without y reaches it past y.
LEMMA SlipSteps ==
    ASSUME NEW a, NEW b, NEW y \in Nat, Slips(a, b, y),
           NEW m \in Nat, combining_class(m) > combining_class(y)
    PROVE  \/ ComposeStep(a, m).last_cc > combining_class(y)
           \/ Slips(ComposeStep(a, m), ComposeStep(b, m), y)
<1> DEFINE cm == combining_class(m)
           cy == combining_class(y)
           o == a.out
           k == a.starter
           oy == Append(o, y)
<1>0. cm \in Nat /\ cy \in Nat /\ cm > cy
  BY ClassType
<1>1. /\ a \in Composings(Nat) /\ a \in [out : Seq(Nat), starter : Nat, last_cc : Nat]
      /\ o \in Seq(Nat) /\ k \in 0 .. Len(o) /\ a.last_cc \in Nat /\ a.last_cc <= cy
  BY DEF Slips, Composings
<1>2. b = [out |-> oy, starter |-> k, last_cc |-> cy]
  BY DEF Slips
<1> HIDE DEF cm, cy, oy
<1>3. b.out = oy /\ b.starter = k /\ b.last_cc = cy
  BY <1>2
<1>4. (Reaches(a, cm) <=> k # 0) /\ (Reaches(b, cm) <=> k # 0)
  <2>1. a.last_cc < cm
    BY <1>0, <1>1
  <2> QED BY <1>0, <1>3, <2>1 DEF Reaches
<1>5. CASE k # 0 /\ compose_pair(o[k], m) # 0
  <2> DEFINE q == compose_pair(o[k], m)
             z == [o EXCEPT ![k] = q]
             zy == [oy EXCEPT ![k] = q]
  <2>1. k \in 1 .. Len(o) /\ o[k] \in Nat
    BY <1>1, <1>5
  <2>2. q \in Nat
    <3> HIDE DEF o, k
    <3> QED BY <1>5, <2>1, ComposePairType DEF Lower
  <2>3. oy[k] = o[k]
    BY <2>1 DEF oy
  <2>4. ComposeStep(a, m) = [a EXCEPT !.out = z]
    BY <1>4, <1>5 DEF ComposeStep, cm
  <2>5. ComposeStep(b, m) = [b EXCEPT !.out = zy]
    <3> HIDE DEF o, k
    <3> QED BY <1>3, <1>4, <1>5, <2>3 DEF ComposeStep, cm
  <2>6. zy = Append(z, y)
    <3> HIDE DEF o, k
    <3> DEFINE n == Len(o)
               w == Append(z, y)
    <3>1. z \in Seq(Nat) /\ Len(z) = n /\ z[k] = q /\ \A i \in 1 .. n : i # k => z[i] = o[i]
      <4> HIDE DEF q
      <4> QED BY <1>1, <2>1, <2>2
    <3>2. oy \in Seq(Nat) /\ Len(oy) = n + 1 /\ oy[n + 1] = y /\ \A i \in 1 .. n : oy[i] = o[i]
      BY <1>1 DEF oy
    <3> HIDE DEF z, q
    <3>3. w \in Seq(Nat) /\ Len(w) = n + 1 /\ w[n + 1] = y /\ \A i \in 1 .. n : w[i] = z[i]
      BY <3>1
    <3>4. zy \in Seq(Nat) /\ Len(zy) = n + 1 /\ zy[k] = q /\ \A i \in 1 .. n + 1 : i # k => zy[i] = oy[i]
      BY <2>1, <2>2, <3>2
    <3>5. n \in Nat /\ k \in 1 .. n
      BY <1>1, <2>1
    <3> HIDE DEF w, zy, n
    <3>6. \A i \in 1 .. n + 1 : zy[i] = w[i]
      <4> SUFFICES ASSUME NEW i \in 1 .. n + 1 PROVE zy[i] = w[i]
        OBVIOUS
      <4>1. CASE i = k
        BY <3>1, <3>3, <3>4, <3>5, <4>1
      <4>2. CASE i = n + 1
        BY <3>2, <3>3, <3>4, <3>5, <4>2
      <4>3. CASE i # k /\ i # n + 1
        <5>1. i \in 1 .. n
          BY <3>5, <4>3
        <5> QED BY <3>1, <3>2, <3>3, <3>4, <4>3, <5>1
      <4> QED BY <4>1, <4>2, <4>3
    <3>7. zy = w
      BY <3>3, <3>4, <3>6, SeqEqual
    <3> QED BY <3>7 DEF w
  <2>7. ComposeStep(a, m) \in Composings(Nat)
    BY <1>1, ComposeStepType
  <2> HIDE DEF z, zy, q
  <2>8. ComposeStep(a, m).out = z /\ ComposeStep(a, m).starter = k /\ ComposeStep(a, m).last_cc = a.last_cc
    BY <1>1, <2>4
  <2>9. ComposeStep(b, m) = [out |-> zy, starter |-> k, last_cc |-> cy]
    BY <1>2, <2>5
  <2>10. ComposeStep(b, m) = [out |-> Append(z, y), starter |-> k, last_cc |-> cy]
    BY <2>6, <2>9, Zenon
  <2> DEFINE a2 == ComposeStep(a, m)
             b2 == ComposeStep(b, m)
  <2>11. a2 \in Composings(Nat) /\ a2.last_cc <= cy /\ a2.out = z /\ a2.starter = k
         /\ b2 = [out |-> Append(z, y), starter |-> k, last_cc |-> cy]
    BY <1>1, <2>7, <2>8, <2>10
  <2> HIDE DEF a2, b2, o, k
  <2>12. b2 = [out |-> Append(a2.out, y), starter |-> a2.starter, last_cc |-> combining_class(y)]
    BY <2>11, Zenon DEF cy
  <2>13. Slips(a2, b2, y)
    BY <2>11, <2>12 DEF Slips, cy
  <2> QED BY <2>13 DEF a2, b2
<1>6. CASE ~ (k # 0 /\ compose_pair(o[k], m) # 0)
  <2>1. ComposeStep(a, m).last_cc = cm
    BY <1>4, <1>6 DEF ComposeStep, cm
  <2> QED BY <1>0, <2>1 DEF cy
<1> QED BY <1>5, <1>6

\* Marks t above y, put after u: without y one of them is left over, or all of them
\* are composed whether y is there or not.
LEMMA MarkSlips ==
    ASSUME NEW y \in Nat, combining_class(y) > 0, \A a \in Nat : compose_pair(a, y) = 0,
           NEW u \in Seq(Nat), Ordered(u), ClassAtEnd(u) <= combining_class(y),
           NEW t \in Seq({m \in Nat : combining_class(m) > combining_class(y)})
    PROVE  \/ Composing(u \o t).last_cc > combining_class(y)
           \/ Slips(Composing(u \o t), Composing((u \o <<y>>) \o t), y)
<1> DEFINE M == {m \in Nat : combining_class(m) > combining_class(y)}
           uy == u \o <<y>>
           T == {s \in Seq(M) : \/ Composing(u \o s).last_cc > combining_class(y)
                                \/ Slips(Composing(u \o s), Composing(uy \o s), y)}
<1>0. combining_class(y) \in Nat
  BY ClassType
<1>1. \A s \in Seq(M) : s \in Seq(Nat)
  <2>1. M \subseteq Nat
    OBVIOUS
  <2> HIDE DEF M
  <2> QED BY <2>1, SeqMonotonic
<1>2. uy \in Seq(Nat) /\ uy = Append(u, y)
  OBVIOUS
<1>3. <<>> \in T
  <2> DEFINE st == Composing(u)
  <2>1. <<>> \in Seq(M) /\ u \o <<>> = u /\ uy \o <<>> = uy
    OBVIOUS
  <2>2. Good(st, ClassAtEnd(u))
    BY ComposedWhole
  <2>3. Composing(uy) = ComposeStep(st, y)
    BY <1>2, ComposeRuns
  <2>4. ClassAtEnd(u) \in Nat
    BY ClassType DEF ClassAtEnd
  <2> HIDE DEF st
  <2>5. st \in Composings(Nat) /\ st.last_cc <= combining_class(y)
    <3>1. st \in Composings(Nat) /\ st.last_cc <= ClassAtEnd(u) /\ st.last_cc \in Nat
      BY <2>2 DEF Good, Composings
    <3> QED BY <1>0, <2>4, <3>1
  <2>6. Reaches(st, combining_class(y)) => compose_pair(st.out[st.starter], y) = 0
    <3> SUFFICES ASSUME Reaches(st, combining_class(y)) PROVE st.out[st.starter] \in Nat
      OBVIOUS
    <3> QED BY <2>5 DEF Reaches, Composings
  <2>7. ComposeStep(st, y) = [out |-> Append(st.out, y), starter |-> st.starter, last_cc |-> combining_class(y)]
    <3>1. NewStarter(st, combining_class(y)) = st.starter
      BY <1>0 DEF NewStarter
    <3>2. ComposeStep(st, y)
            = [out |-> Append(st.out, y), starter |-> NewStarter(st, combining_class(y)), last_cc |-> combining_class(y)]
      BY <2>6 DEF ComposeStep
    <3> QED BY <3>1, <3>2, Zenon
  <2>8. Slips(st, ComposeStep(st, y), y)
    BY <2>5, <2>7 DEF Slips
  <2>9. Composing(u \o <<>>) = st /\ Composing(uy \o <<>>) = ComposeStep(st, y)
    <3> HIDE DEF uy
    <3> QED BY <2>1, <2>3, Zenon DEF st
  <2>10. Slips(Composing(u \o <<>>), Composing(uy \o <<>>), y)
    BY <2>8, <2>9, Zenon
  <2> QED BY <2>1, <2>10
<1>4. ASSUME NEW s \in T, NEW m \in M PROVE Append(s, m) \in T
  <2> DEFINE a == Composing(u \o s)
             b == Composing(uy \o s)
  <2>1. /\ s \in Seq(M) /\ Append(s, m) \in Seq(M) /\ m \in Nat /\ combining_class(m) > combining_class(y)
    OBVIOUS
  <2>2. s \in Seq(Nat)
    BY <1>1, <2>1
  <2>3. u \o s \in Seq(Nat) /\ u \o Append(s, m) = Append(u \o s, m)
    BY <2>1, <2>2, AppendOver, Zenon
  <2>4. uy \o s \in Seq(Nat) /\ uy \o Append(s, m) = Append(uy \o s, m)
    <3> HIDE DEF uy
    <3> QED BY <1>2, <2>1, <2>2, AppendOver, Zenon
  <2>5. a.last_cc > combining_class(y) \/ Slips(a, b, y)
    OBVIOUS
  <2>6. a \in Composings(Nat)
    BY <2>3, ComposeRuns
  <2>7. Composing(u \o Append(s, m)) = ComposeStep(a, m)
    <3>1. Composing(Append(u \o s, m)) = ComposeStep(a, m)
      BY <2>1, <2>3, ComposeRuns
    <3> QED BY <2>3, <3>1, Zenon
  <2>8. Composing(uy \o Append(s, m)) = ComposeStep(b, m)
    <3> HIDE DEF uy
    <3>1. Composing(Append(uy \o s, m)) = ComposeStep(b, m)
      BY <2>1, <2>4, ComposeRuns
    <3> QED BY <2>4, <3>1, Zenon
  <2> HIDE DEF a, b, uy
  <2>9. ComposeStep(a, m).last_cc > combining_class(y) \/ Slips(ComposeStep(a, m), ComposeStep(b, m), y)
    <3>1. CASE a.last_cc > combining_class(y)
      BY <1>0, <2>1, <2>6, <3>1, StaysAbove
    <3>2. CASE Slips(a, b, y)
      BY <2>1, <3>2, SlipSteps
    <3> QED BY <2>5, <3>1, <3>2
  <2>10. \/ Composing(u \o Append(s, m)).last_cc > combining_class(y)
         \/ Slips(Composing(u \o Append(s, m)), Composing(uy \o Append(s, m)), y)
    BY <2>7, <2>8, <2>9, Zenon
  <2> QED BY <2>1, <2>10
<1>5. T = Seq(M)
  <2>1. T \in SUBSET Seq(M)
    OBVIOUS
  <2> HIDE DEF T, M
  <2> QED BY <1>3, <1>4, <2>1, SeqInduction
<1>6. t \in T
  BY <1>5
<1> QED BY <1>6

\* What ordering and composing gives of the decomposition of v is v.
Rebuilds(v) == Composing(canonical_order(Decompose(v))).out = v

LEMMA OrderedStart ==
    ASSUME NEW u \in Seq(Nat), NEW t \in Seq(Nat), Ordered(u \o t)
    PROVE  Ordered(u)
<1> DEFINE w == u \o t
<1>1. Len(w) = Len(u) + Len(t) /\ Len(u) \in Nat /\ Len(t) \in Nat /\ \A i \in 1 .. Len(u) : w[i] = u[i]
  OBVIOUS
<1> HIDE DEF w
<1> SUFFICES ASSUME NEW i \in 2 .. Len(u)
             PROVE  ~ (combining_class(u[i - 1]) > combining_class(u[i]) /\ combining_class(u[i]) > 0)
  BY DEF Ordered
<1>2. i \in 2 .. Len(w) /\ i \in 1 .. Len(u) /\ i - 1 \in 1 .. Len(u)
  BY <1>1
<1>3. w[i] = u[i] /\ w[i - 1] = u[i - 1]
  BY <1>1, <1>2
<1>4. Ordered(w)
  BY DEF w
<1> QED BY <1>2, <1>3, <1>4 DEF Ordered

\* One more mark that ends a text in order, and composes with nothing.
LEMMA MarkRebuilds ==
    ASSUME NEW v \in Seq(Nat), Rebuilds(v), NEW y \in Fixed, combining_class(y) > 0,
           \A a \in Nat : compose_pair(a, y) = 0, ClassAtEnd(v) <= combining_class(y)
    PROVE  Rebuilds(Append(v, y))
<1> DEFINE d == Decompose(v)
           e == canonical_order(d)
           st == Composing(e)
           cy == combining_class(y)
<1>0. y \in Nat /\ cy \in Nat /\ ClassAtEnd(v) \in Nat
  BY FixedStays, ClassType DEF ClassAtEnd
<1>1. d \in Seq(Nat) /\ Decompose(Append(v, y)) = Append(d, y)
  <2>1. d \in Seq(Nat) /\ Decompose(Append(v, y)) = d \o decompose_into(y)
    BY <1>0, DecomposeRuns
  <2>2. decompose_into(y) = <<y>>
    BY DEF Fixed
  <2> HIDE DEF d
  <2>3. d \o <<y>> = Append(d, y)
    BY <1>0, <2>1
  <2> QED BY <2>1, <2>2, <2>3, Zenon
<1>2. st.out = v
  BY DEF Rebuilds
<1> HIDE DEF d
<1>3. e \in Seq(Nat) /\ Ordered(e) /\ canonical_order(Append(d, y)) = Put(e, y)
  BY <1>0, <1>1, CanonicalOrderRuns, CanonicalOrdered
<1> HIDE DEF e
<1>4. Good(st, ClassAtEnd(e))
  BY <1>3, ComposedWhole
<1>5. st.last_cc <= cy /\ st.last_cc \in Nat
  <2>1. /\ st.starter \in Nat /\ st.starter <= Len(v) /\ Len(v) \in Nat /\ st.last_cc \in Nat
        /\ st.starter = Len(v) => st.last_cc = 0
        /\ st.starter < Len(v) => st.last_cc = combining_class(v[Len(v)])
    BY <1>2, <1>4 DEF Good, Composings
  <2>2. st.starter < Len(v) => ClassAtEnd(v) = combining_class(v[Len(v)])
    BY <2>1 DEF ClassAtEnd
  <2> HIDE DEF st, cy
  <2> QED BY <1>0, <2>1, <2>2 DEF cy
<1>6. PICK u, t \in Seq(Nat) : e = u \o t /\ Put(e, y) = (u \o <<y>>) \o t /\ Around(u, t, y)
  BY <1>0, <1>3, PutSplits
<1>7. Ordered(u)
  BY <1>3, <1>6, OrderedStart
<1>8. ClassAtEnd(u) <= cy
  <2>1. Len(u) > 0 => combining_class(u[Len(u)]) <= cy
    BY <1>6 DEF Around
  <2>2. Len(u) # 0 => Len(u) > 0
    OBVIOUS
  <2> QED BY <1>0, <2>1, <2>2 DEF ClassAtEnd
<1> DEFINE M == {m \in Nat : combining_class(m) > combining_class(y)}
<1>9. t \in Seq(M)
  <2>0. \A i \in 1 .. Len(t) : combining_class(t[i]) > combining_class(y)
    BY <1>6, Zenon DEF Around
  <2>3. \A i \in 1 .. Len(t) : t[i] \in Nat
    OBVIOUS
  <2>1. \A i \in 1 .. Len(t) : t[i] \in Nat /\ combining_class(t[i]) > combining_class(y)
    BY <2>0, <2>3
  <2>2. \A i \in 1 .. Len(t) : t[i] \in M
    BY <2>1
  <2> HIDE DEF M
  <2> QED BY <1>6, <2>2, SeqWithin
<1>10. Composing(u \o t).last_cc > cy \/ Slips(Composing(u \o t), Composing((u \o <<y>>) \o t), y)
  BY <1>0, <1>7, <1>8, <1>9, MarkSlips
<1> DEFINE b == Composing(Put(e, y))
<1>11. st.last_cc > cy \/ Slips(st, b, y)
  BY <1>6, <1>10, Zenon
<1>12. Slips(st, b, y)
  <2> HIDE DEF st, b, cy
  <2> QED BY <1>0, <1>5, <1>11
<1> HIDE DEF b, st
<1>13. b.out = Append(v, y)
  BY <1>2, <1>12 DEF Slips
<1>14. canonical_order(Decompose(Append(v, y))) = Put(e, y)
  BY <1>1, <1>3, Zenon
<1>15. Composing(canonical_order(Decompose(Append(v, y)))).out = Append(v, y)
  BY <1>13, <1>14, Zenon DEF b
<1> QED BY <1>15 DEF Rebuilds

\* One more starter.
LEMMA StarterRebuilds ==
    ASSUME NEW v \in Seq(Nat), Rebuilds(v), NEW y \in Nat, Enters(y)
    PROVE  Rebuilds(Append(v, y))
<1> DEFINE d == Decompose(v)
           c == decompose_into(y)
           e == canonical_order(d)
<1>1. d \in Seq(Nat) /\ c \in Seq(Nat) /\ Decompose(Append(v, y)) = d \o c
  BY DecomposeRuns
<1>2. Composing(e).out = v
  BY DEF Rebuilds
<1>3. \A w \in Seq(Nat) : PutAll(w, c) = w \o c /\ Composing(w \o c) = Started(Composing(w), y)
  BY DEF Enters
<1> HIDE DEF d, c
<1>4. e \in Seq(Nat) /\ e = PutAll(<<>>, d)
  BY <1>1, CanonicalOrderRuns, CanonicalOrderAll
<1>5. canonical_order(d \o c) = PutAll(<<>>, d \o c)
  <2> DEFINE dc == d \o c
  <2>1. dc \in Seq(Nat)
    BY <1>1
  <2> HIDE DEF dc
  <2>2. canonical_order(dc) = PutAll(<<>>, dc)
    BY <2>1, CanonicalOrderAll
  <2> QED BY <2>2 DEF dc
<1>6. PutAll(<<>>, d \o c) = PutAll(PutAll(<<>>, d), c)
  BY <1>1, PutAllEmpty, Zenon
<1> HIDE DEF e
<1>7. canonical_order(d \o c) = e \o c
  <2>1. PutAll(e, c) = e \o c
    BY <1>3, <1>4, Zenon
  <2> QED BY <1>4, <1>5, <1>6, <2>1, Zenon
<1>8. Composing(e \o c) = Started(Composing(e), y)
  BY <1>3, <1>4
<1>9. Started(Composing(e), y).out = Append(v, y)
  BY <1>2 DEF Started
<1>10. Composing(canonical_order(Decompose(Append(v, y)))).out = Append(v, y)
  BY <1>1, <1>7, <1>8, <1>9, Zenon
<1> QED BY <1>10 DEF Rebuilds

\* A text the quick check passes, and its last code point.
LEMMA QuickCheckLast ==
    ASSUME NEW v \in Seq(CodePoints), NEW y \in CodePoints, is_nfc(Append(v, y))
    PROVE  /\ is_nfc(v) /\ y \notin DOMAIN NFC_QC
           /\ combining_class(y) = 0 \/ ClassAtEnd(v) <= combining_class(y)
<1> DEFINE r == Append(v, y)
           n == Len(v)
           Ok(w, i) == \/ nfc_inert(w[i])
                       \/ /\ combining_class(w[i]) = 0 \/ combining_class(w[i]) >= LastClass(w, i)
                          /\ QuickYes(w[i])
<1>0. y \in Nat /\ v \in Seq(Nat)
  BY CodePointsAssumption, SeqMonotonic
<1>1. /\ n \in Nat /\ DOMAIN v = 1 .. n /\ DOMAIN r = 1 .. n + 1 /\ r[n + 1] = y
      /\ \A i \in 1 .. n : r[i] = v[i]
  OBVIOUS
<1>2. \A i \in 1 .. n + 1 : Ok(r, i)
  <2> HIDE DEF n
  <2> QED BY <1>1 DEF is_nfc
<1>3. is_nfc(v)
  <2>1. ASSUME NEW i \in 1 .. n PROVE Ok(v, i)
    <3>1. r[i] = v[i] /\ (i # 1 => r[i - 1] = v[i - 1])
      <4>1. i # 1 => i - 1 \in 1 .. n
        OBVIOUS
      <4> HIDE DEF r, n
      <4> QED BY <1>1, <4>1
    <3>2. LastClass(r, i) = LastClass(v, i)
      <4> HIDE DEF r
      <4> QED BY <3>1 DEF LastClass
    <3>3. Ok(r, i)
      <4>1. i \in 1 .. n + 1
        BY <1>1
      <4> HIDE DEF Ok, n
      <4> QED BY <1>2, <4>1
    <3> HIDE DEF r
    <3> QED BY <3>1, <3>2, <3>3
  <2> HIDE DEF n
  <2> QED BY <1>1, <2>1 DEF is_nfc
<1>4. \A c \in Nat : nfc_inert(c) => c \notin DOMAIN CCC /\ c \notin DOMAIN NFC_QC
  BY TablesAssumption, AsciiAssumption DEF nfc_inert
<1>5. \A c \in Nat : nfc_inert(c) => combining_class(c) = 0
  BY <1>4 DEF combining_class, Lookup
<1>6. \A c : QuickYes(c) => c \notin DOMAIN NFC_QC
  BY TablesAssumption DEF QuickYes, nfc_quick_check, Lookup
<1>7. Ok(r, n + 1)
  <2>1. n + 1 \in 1 .. n + 1
    BY <1>1
  <2> HIDE DEF Ok
  <2> QED BY <1>2, <2>1
<1>8. y \notin DOMAIN NFC_QC
  <2> HIDE DEF r, n
  <2> QED BY <1>0, <1>1, <1>4, <1>6, <1>7
<1>9. LastClass(r, n + 1) = ClassAtEnd(v)
  <2>1. CASE n = 0
    BY <2>1 DEF LastClass, ClassAtEnd
  <2>2. CASE n # 0
    <3>1. n \in 1 .. n /\ n + 1 # 1 /\ (n + 1) - 1 = n
      BY <1>1, <2>2
    <3>2. r[n] = v[n] /\ v[n] \in Nat
      BY <1>0, <1>1, <3>1
    <3>3. ClassAtEnd(v) = combining_class(v[n])
      BY <2>2 DEF ClassAtEnd
    <3> HIDE DEF r, n
    <3>4. LastClass(r, n + 1) = IF nfc_inert(v[n]) THEN 0 ELSE combining_class(v[n])
      BY <3>1, <3>2 DEF LastClass
    <3> QED BY <1>5, <3>2, <3>3, <3>4
  <2> QED BY <2>1, <2>2
<1>10. combining_class(y) = 0 \/ ClassAtEnd(v) <= combining_class(y)
  <2>1. combining_class(y) \in Nat /\ ClassAtEnd(v) \in Nat
    BY ClassType DEF ClassAtEnd
  <2>2. nfc_inert(y) \/ combining_class(y) = 0 \/ combining_class(y) >= ClassAtEnd(v)
    <3> HIDE DEF r, n
    <3> QED BY <1>1, <1>7, <1>9
  <2> QED BY <1>0, <1>5, <2>1, <2>2
<1> QED BY <1>3, <1>8, <1>10

\* The three passes leave what the quick check passes.
LEMMA QuickCheckRebuilds ==
    \A v \in Seq(CodePoints) : is_nfc(v) => Rebuilds(v)
<1> DEFINE T == {v \in Seq(CodePoints) : is_nfc(v) => Rebuilds(v)}
<1>1. <<>> \in T
  <2>1. <<>> \in Seq(CodePoints)
    OBVIOUS
  <2>2. Uncomposed.out = <<>>
    BY DEF Uncomposed
  <2>3. Rebuilds(<<>>)
    BY <2>2, DecomposeRuns, CanonicalOrderRuns, ComposeRuns DEF Rebuilds
  <2> QED BY <2>1, <2>3
<1>2. ASSUME NEW v \in T, NEW y \in CodePoints PROVE Append(v, y) \in T
  <2>1. v \in Seq(CodePoints) /\ Append(v, y) \in Seq(CodePoints)
    OBVIOUS
  <2> SUFFICES ASSUME is_nfc(Append(v, y)) PROVE Rebuilds(Append(v, y))
    BY <2>1
  <2>2. is_nfc(v) => Rebuilds(v)
    OBVIOUS
  <2> HIDE DEF T
  <2>3. v \in Seq(Nat) /\ y \in Nat
    BY <2>1, CodePointsAssumption, SeqMonotonic
  <2>4. /\ is_nfc(v) /\ y \notin DOMAIN NFC_QC
        /\ combining_class(y) = 0 \/ ClassAtEnd(v) <= combining_class(y)
    BY <2>1, QuickCheckLast
  <2>5. Rebuilds(v)
    BY <2>2, <2>4
  <2>6. CASE combining_class(y) = 0
    <3>1. Enters(y)
      BY <2>4, <2>6, StarterEnters
    <3> QED BY <2>3, <2>5, <3>1, StarterRebuilds
  <2>7. CASE combining_class(y) # 0
    <3>1. y \in DOMAIN CCC
      BY <2>7 DEF combining_class, Lookup
    <3>2. ~ is_hangul_syllable(y)
      BY <3>1, HangulAssumption
    <3>3. y \notin DOMAIN DECOMP
      <4> SUFFICES ASSUME y \in DOMAIN DECOMP PROVE FALSE
        OBVIOUS
      <4>1. \E p \in DOMAIN COMP : COMP[p] = y
        BY <2>4, QuickCheckAssumption
      <4> QED BY <3>1, <4>1, CompositesAssumption
    <3>4. y \in Fixed
      BY <2>3, <3>2, <3>3, FixedIs
    <3>5. y \notin VJamo \cup TJamo
      BY <2>4, JamoAssumption
    <3>6. \A a \in Nat : compose_pair(a, y) = 0
      BY <2>3, <2>4, <3>5, AloneComposes
    <3>7. combining_class(y) > 0 /\ ClassAtEnd(v) <= combining_class(y)
      <4>1. combining_class(y) \in Nat
        BY ClassType
      <4> QED BY <2>4, <2>7, <4>1
    <3> QED BY <2>3, <2>5, <3>4, <3>6, <3>7, MarkRebuilds
  <2> QED BY <2>6, <2>7
<1>3. T = Seq(CodePoints)
  <2>1. T \in SUBSET Seq(CodePoints)
    OBVIOUS
  <2> HIDE DEF T
  <2> QED BY <1>1, <1>2, <2>1, SeqInduction
<1> QED BY <1>3

LEMMA QuickCheckIs ==
    ASSUME NEW v \in Seq(CodePoints), is_nfc(v)
    PROVE  Pipeline(v) = v
<1>1. v \in Seq(Nat)
  BY CodePointsAssumption, SeqMonotonic
<1>2. Rebuilds(v)
  BY QuickCheckRebuilds
<1> DEFINE d == Decompose(v)
           e == canonical_order(d)
<1>3. d \in Seq(Nat)
  BY <1>1, DecomposeRuns
<1>4. Pipeline(v) = Compose(e) /\ Composing(e).out = v
  BY <1>2 DEF Rebuilds, Pipeline
<1> HIDE DEF d
<1>5. e \in Seq(Nat)
  BY <1>3, CanonicalOrderRuns
<1> HIDE DEF e
<1>6. Compose(e) = Composing(e).out
  BY <1>5, ComposeRuns
<1> QED BY <1>4, <1>6, Zenon

\* The quick check passes only what the three passes would give back, and they give
\* back their own answer: which of the two ways gave the form makes no difference.
THEOREM QuickCheckSoundHolds == TextSpec => []QuickCheckSound
<1>1. TextInv => QuickCheckSound
  <2> SUFFICES ASSUME TextInv PROVE QuickCheckSound
    OBVIOUS
  <2>1. text \in Seq(CodePoints) /\ text \in Seq(Nat) /\ form = nfc(text)
    BY TextsAreNat DEF TextInv
  <2>2. is_nfc(text) => Pipeline(text) = text
    BY <2>1, QuickCheckIs
  <2>3. form = Pipeline(text)
    BY <2>1, <2>2 DEF nfc
  <2>4. Pipeline(Pipeline(text)) = Pipeline(text)
    <3>1. canonical_order(Decompose(Pipeline(text))) = canonical_order(Decompose(text))
      BY <2>1, PipelineRecovers
    <3>2. \A v : Pipeline(v) = Compose(canonical_order(Decompose(v)))
      BY DEF Pipeline
    <3> QED BY <3>1, <3>2, Zenon
  <2>5. Pipeline(form) = form
    BY <2>3, <2>4, Zenon
  <2> QED BY <2>2, <2>5 DEF QuickCheckSound
<1> QED BY <1>1, TextHolds, PTL

-----------------------------------------------------------------------------
(* A full stop is a safe break.                                              *)

LEMMA StopComposes == \A x \in Nat : compose_pair(FullStop, x) = 0
<1> SUFFICES ASSUME NEW x \in Nat, compose_pair(FullStop, x) # 0 PROVE FALSE
  OBVIOUS
<1>1. FullStop \in Nat /\ FullStop \notin LJamo /\ ~ is_hangul_syllable(FullStop)
  BY DEF FullStop, LJamo, LBase, LCount, is_hangul_syllable, SBase
<1>2. <<FullStop, x>> \notin DOMAIN COMP
  <2>1. <<FullStop, x>>[1] = FullStop
    OBVIOUS
  <2> QED BY <2>1, StopAssumption
<1> QED BY <1>1, <1>2, PairComposes

\* What comes after a starter at the end of w is ordered as it would be alone.
LEMMA PutAllAfter ==
    ASSUME NEW w \in Seq(Nat), Len(w) > 0, combining_class(w[Len(w)]) = 0, NEW s \in Seq(Nat)
    PROVE  PutAll(w, s) = w \o PutAll(<<>>, s)
<1> DEFINE T == {r \in Seq(Nat) : PutAll(w, r) = w \o PutAll(<<>>, r)}
<1>1. <<>> \in T
  <2>1. <<>> \in Seq(Nat) /\ w \o <<>> = w
    OBVIOUS
  <2> QED BY <2>1, PutAllEach
<1>2. ASSUME NEW r \in T, NEW x \in Nat PROVE Append(r, x) \in T
  <2> DEFINE z == PutAll(<<>>, r)
  <2>1. r \in Seq(Nat) /\ Append(r, x) \in Seq(Nat) /\ PutAll(w, r) = w \o z
    OBVIOUS
  <2>2. z \in Seq(Nat)
    <3>1. <<>> \in Seq(Nat)
      OBVIOUS
    <3> QED BY <2>1, <3>1, PutAllEach
  <2>3. PutAll(w, Append(r, x)) = Put(PutAll(w, r), x)
    BY <2>1, PutAllEach, Zenon
  <2>4. PutAll(<<>>, Append(r, x)) = Put(z, x)
    BY <2>1, PutAllEmpty
  <2> HIDE DEF z
  <2>5. Put(w \o z, x) = w \o Put(z, x)
    <3>1. CASE combining_class(x) = 0
      <4>1. Put(z, x) = Append(z, x)
        BY <2>2, <3>1, PutStarter
      <4>2. w \o z \in Seq(Nat) /\ w \o Append(z, x) = Append(w \o z, x)
        BY <2>2, AppendOver, Zenon
      <4>3. Put(w \o z, x) = Append(w \o z, x)
        <5> DEFINE y == w \o z
        <5>1. y \in Seq(Nat)
          BY <4>2
        <5> HIDE DEF y
        <5>2. Put(y, x) = Append(y, x)
          BY <3>1, <5>1, PutStarter
        <5> QED BY <5>2 DEF y
      <4> QED BY <4>1, <4>2, <4>3, Zenon
    <3>2. CASE combining_class(x) # 0
      <4>1. x \in Marks
        BY <3>2, ClassType DEF Marks
      <4> QED BY <2>2, <4>1, PutAfter
    <3> QED BY <3>1, <3>2
  <2>6. PutAll(w, Append(r, x)) = w \o PutAll(<<>>, Append(r, x))
    BY <2>1, <2>3, <2>4, <2>5, Zenon
  <2> QED BY <2>1, <2>6
<1>3. T = Seq(Nat)
  <2>1. T \in SUBSET Seq(Nat)
    OBVIOUS
  <2> HIDE DEF T
  <2> QED BY <1>1, <1>2, <2>1, SeqInduction
<1>4. s \in T
  BY <1>3
<1> QED BY <1>4

\* compose after P, which ends with a full stop, and compose from nothing.
Apart(P, c, b) ==
    /\ c \in Composings(Nat) /\ b \in Composings(Nat)
    /\ b.out = P \o c.out
    /\ b.starter = Len(P) + c.starter
    /\ b.last_cc = c.last_cc

\* Two sequences side by side.
Beside(u, v, w) ==
    /\ w \in Seq(Nat) /\ Len(w) = Len(u) + Len(v)
    /\ \A i \in 1 .. Len(u) : w[i] = u[i]
    /\ \A i \in 1 .. Len(v) : w[Len(u) + i] = v[i]

LEMMA BesideIs == \A u, v \in Seq(Nat) : Beside(u, v, u \o v)
<1> SUFFICES ASSUME NEW u \in Seq(Nat), NEW v \in Seq(Nat) PROVE Beside(u, v, u \o v)
  OBVIOUS
<1> QED BY DEF Beside

\* One element put in the place of another in the second part of a sequence.
PutsInSecond(P, o, q, k) ==
    /\ (P \o o)[Len(P) + k] = o[k]
    /\ [P \o o EXCEPT ![Len(P) + k] = q] = P \o [o EXCEPT ![k] = q]

LEMMA PutInSecond ==
    \A P, o \in Seq(Nat), q \in Nat : \A k \in 1 .. Len(o) : PutsInSecond(P, o, q, k)
<1> SUFFICES ASSUME NEW P \in Seq(Nat), NEW o \in Seq(Nat), NEW q \in Nat, NEW k \in 1 .. Len(o)
             PROVE  PutsInSecond(P, o, q, k)
  OBVIOUS
<1> DEFINE po == P \o o
           oq == [o EXCEPT ![k] = q]
           l == Len(P)
           n == Len(o)
           z == [po EXCEPT ![l + k] = q]
           w == P \o oq
<1>1. l \in Nat /\ n \in Nat /\ k \in 1 .. n
  OBVIOUS
<1>2. /\ po \in Seq(Nat) /\ Len(po) = l + n /\ (\A i \in 1 .. l : po[i] = P[i])
      /\ \A i \in 1 .. n : po[l + i] = o[i]
  OBVIOUS
<1>3. oq \in Seq(Nat) /\ Len(oq) = n /\ oq[k] = q /\ \A i \in 1 .. n : i # k => oq[i] = o[i]
  OBVIOUS
<1> HIDE DEF po, oq
<1>4. /\ w \in Seq(Nat) /\ Len(w) = l + n /\ (\A i \in 1 .. l : w[i] = P[i])
      /\ \A i \in 1 .. n : w[l + i] = oq[i]
  <2>1. Beside(P, oq, w)
    BY <1>3, BesideIs, Zenon
  <2> HIDE DEF w
  <2> QED BY <1>3, <2>1 DEF Beside
<1>5. l + k \in 1 .. Len(po)
  BY <1>1, <1>2
<1>6. z \in Seq(Nat) /\ Len(z) = l + n /\ z[l + k] = q /\ \A i \in 1 .. l + n : i # l + k => z[i] = po[i]
  BY <1>2, <1>5
<1> HIDE DEF w, z, l, n
<1>7. \A i \in 1 .. l + n : z[i] = w[i]
  <2> SUFFICES ASSUME NEW i \in 1 .. l + n PROVE z[i] = w[i]
    OBVIOUS
  <2>1. CASE i <= l
    <3>1. i \in 1 .. l /\ i # l + k
      BY <1>1, <2>1
    <3> QED BY <1>2, <1>4, <1>6, <3>1
  <2>2. CASE i > l
    <3>1. i - l \in 1 .. n /\ i = l + (i - l)
      BY <1>1, <2>2
    <3> DEFINE j == i - l
    <3>2. j \in 1 .. n /\ i = l + j
      BY <3>1
    <3> HIDE DEF j
    <3>3. w[i] = oq[j] /\ po[i] = o[j]
      BY <1>2, <1>4, <3>2
    <3>4. CASE j = k
      BY <1>3, <1>6, <3>2, <3>3, <3>4
    <3>5. CASE j # k
      <4>1. i # l + k
        BY <1>1, <3>2, <3>5
      <4> QED BY <1>3, <1>6, <3>2, <3>3, <3>5, <4>1
    <3> QED BY <3>4, <3>5
  <2> QED BY <1>1, <2>1, <2>2
<1>8. z = w
  BY <1>4, <1>6, <1>7, SeqEqual
<1>9. po[l + k] = o[k]
  BY <1>1, <1>2
<1> QED BY <1>8, <1>9, Zenon DEF PutsInSecond, po, z, w, oq, l

LEMMA ApartSteps ==
    ASSUME NEW P \in Seq(Nat), Len(P) > 0, P[Len(P)] = FullStop, NEW c, NEW b, Apart(P, c, b), NEW x \in Nat
    PROVE  Apart(P, ComposeStep(c, x), ComposeStep(b, x))
<1> DEFINE cx == combining_class(x)
           o == c.out
           k == c.starter
           l == Len(P)
           po == P \o o
           c2 == ComposeStep(c, x)
           b2 == ComposeStep(b, x)
<1>0. c2 \in Composings(Nat) /\ b2 \in Composings(Nat)
  BY ComposeStepType DEF Apart
<1>1. /\ c \in [out : Seq(Nat), starter : Nat, last_cc : Nat] /\ o \in Seq(Nat) /\ k \in 0 .. Len(o)
      /\ c.last_cc \in Nat /\ l \in Nat /\ l > 0 /\ l # 0
  BY DEF Apart, Composings
<1>2. /\ b \in [out : Seq(Nat), starter : Nat, last_cc : Nat]
      /\ b.out = po /\ b.starter = l + k /\ b.last_cc = c.last_cc
  BY DEF Apart, Composings
<1>3. po \in Seq(Nat) /\ Len(po) = l + Len(o) /\ po[l] = FullStop
  BY <1>1
<1>4. k # 0 => po[l + k] = o[k] /\ \A q \in Nat : [po EXCEPT ![l + k] = q] = P \o [o EXCEPT ![k] = q]
  <2> SUFFICES ASSUME k # 0
               PROVE  po[l + k] = o[k] /\ \A q \in Nat : [po EXCEPT ![l + k] = q] = P \o [o EXCEPT ![k] = q]
    OBVIOUS
  <2>1. k \in 1 .. Len(o)
    BY <1>1
  <2> HIDE DEF o, k
  <2>2. 0 \in Nat
    OBVIOUS
  <2>3. \A q \in Nat : PutsInSecond(P, o, q, k)
    BY <1>1, <2>1, PutInSecond
  <2>4. PutsInSecond(P, o, 0, k)
    BY <2>2, <2>3
  <2> QED BY <2>3, <2>4, Zenon DEF PutsInSecond
<1>5. P \o Append(o, x) = Append(po, x)
  <2> HIDE DEF o
  <2> QED BY <1>1, AppendOver, Zenon
<1> HIDE DEF po, l, o, k, cx, c2, b2
<1>7. CASE k # 0 /\ Reaches(c, cx) /\ compose_pair(o[k], x) # 0
  <2> DEFINE q == compose_pair(o[k], x)
             z == [o EXCEPT ![k] = q]
             zp == [po EXCEPT ![l + k] = q]
  <2>1. q \in Nat
    <3>1. o[k] \in Nat
      <4>1. k \in 1 .. Len(o)
        <5>1. Len(o) \in Nat /\ k \in 0 .. Len(o) /\ k # 0
          BY <1>1, <1>7
        <5> QED BY ONLY <5>1
      <4>2. o \in Seq(Nat)
        BY <1>1
      <4> QED BY ONLY <4>1, <4>2
    <3> QED BY <1>7, <3>1, ComposePairType DEF Lower
  <2>2. zp = P \o z
    BY <1>4, <1>7, <2>1
  <2>3. Reaches(b, cx) /\ compose_pair(b.out[b.starter], x) = q
    BY <1>1, <1>2, <1>4, <1>7 DEF Reaches, k
  <2>4. c2 = [c EXCEPT !.out = z]
    BY <1>7 DEF ComposeStep, cx, c2, o, k
  <2>5. b2 = [b EXCEPT !.out = zp]
    <3>1. b2 = [b EXCEPT !.out[b.starter] = q]
      BY <1>7, <2>3 DEF ComposeStep, cx, b2
    <3> QED BY <1>2, <3>1
  <2> HIDE DEF q, z, zp
  <2>6. c2.out = z /\ c2.starter = k /\ c2.last_cc = c.last_cc
    BY <1>1, <2>4 DEF k
  <2>7. b2.out = zp /\ b2.starter = l + k /\ b2.last_cc = c.last_cc
    BY <1>2, <2>5
  <2>8. b2.out = P \o c2.out
    BY <2>2, <2>6, <2>7, Zenon
  <2>9. b2.starter = Len(P) + c2.starter /\ b2.last_cc = c2.last_cc
    BY <2>6, <2>7 DEF l
  <2> QED BY <1>0, <2>8, <2>9 DEF Apart, c2, b2
<1>8. CASE ~ (k # 0 /\ Reaches(c, cx) /\ compose_pair(o[k], x) # 0)
  <2>1. Reaches(c, cx) => k # 0
    BY DEF Reaches, k
  <2>2. c2 = [out |-> Append(o, x), starter |-> NewStarter(c, cx), last_cc |-> cx]
    <3>1. Reaches(c, cx) => compose_pair(c.out[c.starter], x) = 0
      BY <1>8, <2>1 DEF o, k
    <3> QED BY <3>1 DEF ComposeStep, cx, c2, o
  <2>3. Reaches(b, cx) => compose_pair(b.out[b.starter], x) = 0
    <3> SUFFICES ASSUME Reaches(b, cx) PROVE compose_pair(po[l + k], x) = 0
      BY <1>2
    <3>1. CASE k = 0
      <4>1. po[l + k] = FullStop
        BY <1>1, <1>3, <3>1
      <4> QED BY <4>1, StopComposes
    <3>2. CASE k # 0
      <4>1. Reaches(c, cx)
        BY <1>2, <3>2 DEF Reaches, k
      <4> QED BY <1>4, <1>8, <3>2, <4>1
    <3> QED BY <3>1, <3>2
  <2>4. b2 = [out |-> Append(po, x), starter |-> NewStarter(b, cx), last_cc |-> cx]
    BY <1>2, <2>3 DEF ComposeStep, cx, b2
  <2>5. NewStarter(b, cx) = l + NewStarter(c, cx)
    <3>1. CASE cx = 0
      <4>1. NewStarter(b, cx) = Len(po) + 1 /\ NewStarter(c, cx) = Len(o) + 1
        BY <1>2, <3>1 DEF NewStarter, o
      <4>2. Len(o) \in Nat
        BY <1>1
      <4> QED BY <1>1, <1>3, <4>1, <4>2
    <3>2. CASE cx # 0
      BY <1>2, <3>2 DEF NewStarter, k
    <3> QED BY <3>1, <3>2
  <2>6. c2.out = Append(o, x) /\ c2.starter = NewStarter(c, cx) /\ c2.last_cc = cx
    BY <2>2
  <2>7. b2.out = Append(po, x) /\ b2.starter = NewStarter(b, cx) /\ b2.last_cc = cx
    BY <2>4
  <2>8. b2.out = P \o c2.out
    BY <1>5, <2>6, <2>7, Zenon
  <2>9. b2.starter = Len(P) + c2.starter /\ b2.last_cc = c2.last_cc
    BY <2>5, <2>6, <2>7, Zenon DEF l
  <2> QED BY <1>0, <2>8, <2>9 DEF Apart, c2, b2
<1> QED BY <1>7, <1>8

\* compose goes on after a full stop as from nothing.
LEMMA ApartRuns ==
    ASSUME NEW P \in Seq(Nat), Len(P) > 0, P[Len(P)] = FullStop,
           NEW w \in Seq(Nat), Composing(w) = [out |-> P, starter |-> Len(P), last_cc |-> 0]
    PROVE  \A s \in Seq(Nat) : Apart(P, Composing(s), Composing(w \o s))
<1> DEFINE T == {s \in Seq(Nat) : Apart(P, Composing(s), Composing(w \o s))}
<1>1. <<>> \in T
  <2>1. <<>> \in Seq(Nat) /\ w \o <<>> = w /\ P \o <<>> = P /\ Len(P) \in Nat /\ Len(P) + 0 = Len(P)
    OBVIOUS
  <2>2. Uncomposed \in Composings(Nat) /\ Uncomposed.out = <<>> /\ Uncomposed.starter = 0 /\ Uncomposed.last_cc = 0
    BY ComposeStepType DEF Uncomposed
  <2>3. Composing(w) \in Composings(Nat)
    BY ComposeRuns
  <2>4. Composing(w).out = P /\ Composing(w).starter = Len(P) /\ Composing(w).last_cc = 0
    OBVIOUS
  <2>5. Apart(P, Uncomposed, Composing(w))
    BY <2>1, <2>2, <2>3, <2>4, Zenon DEF Apart
  <2>6. Composing(<<>>) = Uncomposed
    BY ComposeRuns
  <2> QED BY <2>1, <2>5, <2>6
<1>2. ASSUME NEW s \in T, NEW x \in Nat PROVE Append(s, x) \in T
  <2>1. s \in Seq(Nat) /\ Append(s, x) \in Seq(Nat) /\ Apart(P, Composing(s), Composing(w \o s))
    OBVIOUS
  <2>2. w \o s \in Seq(Nat) /\ w \o Append(s, x) = Append(w \o s, x)
    BY <2>1, AppendOver, Zenon
  <2> DEFINE ws == w \o s
  <2>3. ws \in Seq(Nat)
    BY <2>2
  <2>4. Apart(P, Composing(s), Composing(ws))
    BY <2>1
  <2> HIDE DEF ws
  <2>5. Composing(Append(s, x)) = ComposeStep(Composing(s), x)
    BY <2>1, ComposeRuns
  <2>6. Composing(Append(ws, x)) = ComposeStep(Composing(ws), x)
    BY <2>3, ComposeRuns
  <2>7. Apart(P, ComposeStep(Composing(s), x), ComposeStep(Composing(ws), x))
    BY <2>4, ApartSteps
  <2>8. Apart(P, Composing(Append(s, x)), Composing(w \o Append(s, x)))
    BY <2>2, <2>5, <2>6, <2>7, Zenon DEF ws
  <2> QED BY <2>1, <2>8
<1>3. T = Seq(Nat)
  <2>1. T \in SUBSET Seq(Nat)
    OBVIOUS
  <2> HIDE DEF T
  <2> QED BY <1>1, <1>2, <2>1, SeqInduction
<1> QED BY <1>3

\* A full stop stays where it comes.
LEMMA StopEnters == FullStop \in Nat /\ FullStop \in Fixed /\ Enters(FullStop)
<1>1. FullStop \in Nat
  BY DEF FullStop
<1>2. FullStop \in Fixed
  BY <1>1, StopTables DEF Fixed
<1> QED BY <1>1, <1>2, StopTables, EntersAlone

\* Each of the three passes, and all three, on a text cut at a full stop.
LEMMA OrderedApart ==
    ASSUME NEW a \in Seq(Nat), NEW b \in Seq(Nat)
    PROVE  PutAll(<<>>, Append(a, FullStop) \o b) = Append(PutAll(<<>>, a), FullStop) \o PutAll(<<>>, b)
<1> DEFINE o == PutAll(<<>>, a)
           w == Append(o, FullStop)
           r == Append(a, FullStop)
<1>1. FullStop \in Nat /\ o \in Seq(Nat)
  <2>1. <<>> \in Seq(Nat)
    OBVIOUS
  <2> QED BY <2>1, StopEnters, PutAllEach
<1>2. r \in Seq(Nat)
  BY <1>1
<1>3. PutAll(<<>>, r) = Put(o, FullStop)
  BY <1>1, PutAllEmpty
<1> HIDE DEF o, r
<1>4. Put(o, FullStop) = w
  BY <1>1, StopTables, PutStarter
<1>5. w \in Seq(Nat) /\ Len(w) > 0 /\ w[Len(w)] = FullStop
  BY <1>1
<1> HIDE DEF w
<1>6. combining_class(w[Len(w)]) = 0
  BY <1>5, StopTables
<1>7. PutAll(w, b) = w \o PutAll(<<>>, b)
  BY <1>5, <1>6, PutAllAfter
<1>8. PutAll(<<>>, r \o b) = PutAll(PutAll(<<>>, r), b)
  BY <1>2, PutAllEmpty
<1>9. PutAll(<<>>, r \o b) = w \o PutAll(<<>>, b)
  BY <1>3, <1>4, <1>7, <1>8, Zenon
<1> QED BY <1>9 DEF w, r, o

LEMMA ComposedApart ==
    ASSUME NEW a \in Seq(Nat), NEW b \in Seq(Nat)
    PROVE  Compose(Append(a, FullStop) \o b) = Append(Compose(a), FullStop) \o Compose(b)
<1> DEFINE w == Append(a, FullStop)
           st == Composing(a)
           P == Append(st.out, FullStop)
<1>1. FullStop \in Nat /\ w \in Seq(Nat)
  BY StopEnters
<1>2. st \in Composings(Nat) /\ Compose(a) = st.out /\ Compose(b) = Composing(b).out
  BY ComposeRuns
<1>3. Composing(w) = Started(st, FullStop)
  <2>1. a \o <<FullStop>> = w /\ decompose_into(FullStop) = <<FullStop>>
    BY StopEnters DEF Fixed
  <2>2. Composing(a \o decompose_into(FullStop)) = Started(Composing(a), FullStop)
    BY StopEnters DEF Enters
  <2> QED BY <2>1, <2>2
<1> HIDE DEF w, st
<1>4. st.out \in Seq(Nat)
  BY <1>2 DEF Composings
<1>5. P \in Seq(Nat) /\ Len(P) > 0 /\ P[Len(P)] = FullStop /\ Len(P) = Len(st.out) + 1
  BY <1>1, <1>4
<1>6. Composing(w) = [out |-> P, starter |-> Len(P), last_cc |-> 0]
  BY <1>3, <1>5 DEF Started
<1> HIDE DEF P
<1>7. Apart(P, Composing(b), Composing(w \o b))
  BY <1>1, <1>5, <1>6, ApartRuns
<1> DEFINE wb == w \o b
<1>8. wb \in Seq(Nat)
  BY <1>1
<1>9. Composing(wb).out = P \o Composing(b).out
  BY <1>7 DEF Apart
<1> HIDE DEF wb
<1>10. Compose(wb) = Composing(wb).out
  BY <1>8, ComposeRuns
<1>11. Compose(wb) = P \o Compose(b)
  BY <1>2, <1>9, <1>10, Zenon
<1> QED BY <1>2, <1>11, Zenon DEF P, wb, w

LEMMA PipelineApart ==
    ASSUME NEW a \in Seq(Nat), NEW b \in Seq(Nat)
    PROVE  Pipeline(Append(a, FullStop) \o b) = Append(Pipeline(a), FullStop) \o Pipeline(b)
<1> DEFINE w == Append(a, FullStop)
           da == Decompose(a)
           db == Decompose(b)
           wb == w \o b
<1>1. FullStop \in Nat /\ da \in Seq(Nat) /\ db \in Seq(Nat)
  BY StopEnters, DecomposeRuns
<1>2. w \in Seq(Nat)
  BY <1>1
<1>3. Decompose(w) = Append(da, FullStop)
  <2>1. Decompose(w) = da \o decompose_into(FullStop)
    BY <1>1, DecomposeRuns
  <2>2. decompose_into(FullStop) = <<FullStop>>
    BY StopEnters DEF Fixed
  <2> HIDE DEF da
  <2>3. da \o <<FullStop>> = Append(da, FullStop)
    BY <1>1
  <2> QED BY <2>1, <2>2, <2>3
<1> HIDE DEF w
<1>4. Decompose(wb) = Append(da, FullStop) \o db /\ wb \in Seq(Nat)
  <2>1. Decompose(wb) = Decompose(w) \o db
    BY <1>2, DecomposeConcat
  <2>2. wb \in Seq(Nat)
    BY <1>2
  <2> QED BY <1>3, <2>1, <2>2, Zenon
<1> HIDE DEF wb, da, db
<1> DEFINE dw == Append(da, FullStop) \o db
           oa == canonical_order(da)
           ob == canonical_order(db)
<1>5. dw \in Seq(Nat)
  BY <1>1
<1>6. oa \in Seq(Nat) /\ ob \in Seq(Nat) /\ oa = PutAll(<<>>, da) /\ ob = PutAll(<<>>, db)
  BY <1>1, CanonicalOrderRuns, CanonicalOrderAll
<1>7. PutAll(<<>>, dw) = Append(oa, FullStop) \o ob
  <2>1. PutAll(<<>>, dw) = Append(PutAll(<<>>, da), FullStop) \o PutAll(<<>>, db)
    BY <1>1, OrderedApart
  <2> HIDE DEF dw, oa, ob
  <2> QED BY <1>6, <2>1, Zenon
<1> HIDE DEF dw, oa, ob
<1>8. canonical_order(dw) = Append(oa, FullStop) \o ob
  <2>1. canonical_order(dw) = PutAll(<<>>, dw)
    BY <1>5, CanonicalOrderAll
  <2> QED BY <1>7, <2>1
<1>9. Compose(Append(oa, FullStop) \o ob) = Append(Compose(oa), FullStop) \o Compose(ob)
  BY <1>6, ComposedApart
<1>10. Pipeline(wb) = Compose(canonical_order(dw)) /\ Pipeline(a) = Compose(oa) /\ Pipeline(b) = Compose(ob)
  BY <1>4 DEF Pipeline, dw, oa, ob, da, db
<1>11. Pipeline(wb) = Append(Pipeline(a), FullStop) \o Pipeline(b)
  BY <1>8, <1>9, <1>10, Zenon
<1> QED BY <1>11 DEF wb, w

\* Where a full stop cuts a text.
CutAtStop(v, i) ==
    LET a == SubSeq(v, 1, i - 1)
        b == SubSeq(v, i + 1, Len(v))
    IN a \in Seq(CodePoints) /\ b \in Seq(CodePoints) /\ v = Append(a, v[i]) \o b

LEMMA CutStop ==
    ASSUME NEW v \in Seq(CodePoints), NEW i \in 1 .. Len(v)
    PROVE  CutAtStop(v, i)
<1> DEFINE n == Len(v)
           a == SubSeq(v, 1, i - 1)
           b == SubSeq(v, i + 1, n)
           r == Append(a, v[i])
           w == r \o b
<1>1. n \in Nat /\ i \in 1 .. n /\ v[i] \in CodePoints /\ v \in Seq(Nat) /\ CodePoints \subseteq Nat
  <2>1. v \in Seq(Nat)
    BY CodePointsAssumption, SeqMonotonic
  <2> QED BY <2>1, CodePointsAssumption
<1>2. a \in Seq(CodePoints) /\ Len(a) = i - 1 /\ \A j \in 1 .. i - 1 : a[j] = v[j]
  <2>1. \A j \in 1 .. i - 1 : v[j] \in CodePoints
    BY <1>1
  <2> QED BY <1>1, <2>1, SubSeqProperties
<1>3. b \in Seq(CodePoints) /\ Len(b) = n - i /\ \A j \in 1 .. n - i : b[j] = v[i + j]
  <2>1. \A j \in i + 1 .. n : v[j] \in CodePoints
    BY <1>1
  <2>2. /\ b \in Seq(CodePoints)
        /\ Len(b) = IF i + 1 <= n THEN n - (i + 1) + 1 ELSE 0
        /\ \A j \in 1 .. n - (i + 1) + 1 : b[j] = v[i + 1 + j - 1]
    BY <1>1, <2>1, SubSeqProperties
  <2>3. \A j \in 1 .. n - i : j \in 1 .. n - (i + 1) + 1 /\ i + 1 + j - 1 = i + j
    BY <1>1
  <2>4. Len(b) = n - i
    BY <1>1, <2>2
  <2> QED BY <2>2, <2>3, <2>4
<1> HIDE DEF a, b, n
<1>4. r \in Seq(Nat) /\ Len(r) = i /\ r[i] = v[i] /\ \A j \in 1 .. i - 1 : r[j] = a[j]
  <2>1. a \in Seq(Nat) /\ v[i] \in Nat
    BY <1>1, <1>2, SeqMonotonic
  <2> QED BY <1>1, <1>2, <2>1
<1> HIDE DEF r
<1>5. Beside(r, b, w)
  <2>1. b \in Seq(Nat)
    BY <1>1, <1>3, SeqMonotonic
  <2> QED BY <1>4, <2>1, BesideIs
<1> HIDE DEF w
<1>6. w \in Seq(Nat) /\ Len(w) = n
  BY <1>1, <1>3, <1>4, <1>5 DEF Beside
<1>7. \A j \in 1 .. n : v[j] = w[j]
  <2> SUFFICES ASSUME NEW j \in 1 .. n PROVE v[j] = w[j]
    OBVIOUS
  <2>1. CASE j <= i
    <3>1. j \in 1 .. i /\ (j = i \/ j \in 1 .. i - 1)
      BY <1>1, <2>1
    <3> QED BY <1>2, <1>4, <1>5, <3>1 DEF Beside
  <2>2. CASE j > i
    <3> DEFINE k == j - i
    <3>1. k \in 1 .. n - i /\ j = i + k
      BY <1>1, <2>2
    <3> HIDE DEF k
    <3>2. w[i + k] = b[k]
      BY <1>3, <1>4, <1>5, <3>1 DEF Beside
    <3> QED BY <1>3, <3>1, <3>2
  <2> QED BY <1>1, <2>1, <2>2
<1>8. v = w
  BY <1>1, <1>6, <1>7, SeqEqual DEF n
<1> QED BY <1>2, <1>3, <1>8 DEF CutAtStop, w, r, a, b, n

\* Nothing is ordered past a full stop or composed across one: the labels of a host may
\* be normalized with it, all at once.
THEOREM LabelsNormalizeApartHolds == TextSpec => []LabelsNormalizeApart
<1>1. TextInv => LabelsNormalizeApart
  <2> SUFFICES ASSUME TextInv PROVE LabelsNormalizeApart
    OBVIOUS
  <2>1. text \in Seq(CodePoints) /\ form = nfc(text) /\ DOMAIN text = 1 .. Len(text)
    BY DEF TextInv
  <2>2. \A v \in Seq(CodePoints) : nfc(v) = Pipeline(v)
    BY QuickCheckIs DEF nfc
  <2> SUFFICES ASSUME NEW i \in DOMAIN text, text[i] = FullStop
               PROVE  form = nfc(SubSeq(text, 1, i - 1)) \o <<FullStop>> \o nfc(SubSeq(text, i + 1, Len(text)))
    BY DEF LabelsNormalizeApart
  <2> DEFINE a == SubSeq(text, 1, i - 1)
             b == SubSeq(text, i + 1, Len(text))
  <2>3. a \in Seq(CodePoints) /\ b \in Seq(CodePoints) /\ text = Append(a, FullStop) \o b
    BY <2>1, CutStop DEF CutAtStop
  <2> HIDE DEF a, b
  <2>4. a \in Seq(Nat) /\ b \in Seq(Nat)
    BY <2>3, CodePointsAssumption, SeqMonotonic
  <2>5. Pipeline(text) = Append(Pipeline(a), FullStop) \o Pipeline(b)
    BY <2>3, <2>4, PipelineApart
  <2>6. form = Append(nfc(a), FullStop) \o nfc(b)
    BY <2>1, <2>2, <2>3, <2>5
  <2>7. Append(nfc(a), FullStop) = nfc(a) \o <<FullStop>>
    BY <2>4, NfcType, StopEnters, PutAllOne
  <2>8. form = nfc(a) \o <<FullStop>> \o nfc(b)
    BY <2>6, <2>7, Zenon
  <2> QED BY <2>8 DEF a, b
<1> QED BY <1>1, TextHolds, PTL

=============================================================================
