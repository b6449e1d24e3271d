------------------------------- MODULE Trace --------------------------------
(***************************************************************************)
(* What the bytes of an encoded label stand for.  The encoder and the      *)
(* decoder pass through the same states: a trace gives, for every digit    *)
(* byte, the state both are in when it is written or read.  The proof that *)
(* decoding inverts encoding says that the encoder leaves such a trace and *)
(* that the decoder follows it.                                            *)
(***************************************************************************)
EXTENDS Bootstring

BasicPositions(x) == {p \in DOMAIN x : IsBasic(x[p])}

(* The bytes of the literals and their delimiter.                          *)
LiteralBytes(x) == IF BasicPositions(x) = {} THEN 0
                   ELSE Cardinality(BasicPositions(x)) + 1

(* How many of the positions A are left of p.                              *)
RankIn(A, p) == Cardinality({u \in A : u < p})

(* The sequence s is x without the positions that are not in A.            *)
Spread(x, s, A) ==
    /\ Len(s) = Cardinality(A)
    /\ \A b \in 1..Len(s) : \E p \in A : b = RankIn(A, p) + 1 /\ s[b] = x[p]

(* The loop of adapt(): from delta c and counter y it returns b.           *)
Closed(S, b) ==
    /\ \A c, y \in Nat : (~AdaptAgain(c) /\ AdaptResult(c, y) = b) => <<c, y>> \in S
    /\ \A c, y \in Nat : (AdaptAgain(c) /\ <<AdaptDivide(c), y + Base>> \in S) => <<c, y>> \in S

AdaptsTo(c, y, b) == \A S \in SUBSET (Nat \X Nat) : Closed(S, b) => <<c, y>> \in S

-----------------------------------------------------------------------------
(* The state at a digit byte: the positions done, the one that is coming,  *)
(* the decoder's n, i and bias before the integer, the value q that is     *)
(* left of the integer and the position k of the digit.                    *)
Records(x) == [done : SUBSET DOMAIN x, pos : DOMAIN x,
               n : Nat, i : Nat, bias : Nat, q : Nat, k : Nat]

Place(r) == RankIn(r.done, r.pos)

(* The i that stands for the position that is coming, and how far it is.   *)
Goal(x, r) == (x[r.pos] - r.n) * (Cardinality(r.done) + 1) + Place(r)
Gap(x, r)  == Goal(x, r) - r.i

Limit(r)   == Threshold(r.k, r.bias)
Rest(r)    == (r.q - Limit(r)) \div (Base - Limit(r))
Written(r) == IF r.q < Limit(r) THEN r.q
              ELSE Limit(r) + ((r.q - Limit(r)) % (Base - Limit(r)))

(* adapt() returns b after the integer of r. *)
Adapted(x, r, b) == AdaptsTo(AdaptStart(Gap(x, r), Cardinality(r.done) + 1, r.i = 0), 0, b)

Sound(x, r) ==
    /\ r \in Records(x)
    /\ r.pos \notin r.done /\ ~IsBasic(x[r.pos])
    /\ BasicPositions(x) \subseteq r.done
    /\ r.i = 0 <=> r.done = BasicPositions(x)
    /\ InitialN <= r.n /\ r.n <= x[r.pos]
    /\ Gap(x, r) \in Nat

(* After l bytes no integer is under way: A is done, and n, i and bias are *)
(* as given.                                                               *)
Between(x, H, l, A, n, i, b) ==
    IF l = LiteralBytes(x)
    THEN A = BasicPositions(x) /\ n = InitialN /\ i = 0 /\ b = InitialBias
    ELSE /\ H[l].q < Limit(H[l])
         /\ A = H[l].done \cup {H[l].pos}
         /\ n = x[H[l].pos] /\ i = Place(H[l]) + 1
         /\ Adapted(x, H[l], b)

Starts(x, H, l) ==
    /\ Between(x, H, l - 1, H[l].done, H[l].n, H[l].i, H[l].bias)
    /\ H[l].q = Gap(x, H[l]) /\ H[l].k = Base

Continues(x, H, l) ==
    /\ l - 1 > LiteralBytes(x)
    /\ H[l - 1].q >= Limit(H[l - 1])
    /\ H[l] = [H[l - 1] EXCEPT !.q = Rest(H[l - 1]), !.k = H[l - 1].k + Base]

Linked(x, H, l) == Sound(x, H[l]) /\ (Starts(x, H, l) \/ Continues(x, H, l))

(* The literals of s are the basic code points of x.                       *)
LiteralPart(x, s) ==
    /\ Len(s) >= LiteralBytes(x)
    /\ LiteralBytes(x) > 0 => s[LiteralBytes(x)] = Delimiter
    /\ \A b \in 1..Cardinality(BasicPositions(x)) :
          \E p \in BasicPositions(x) :
             b = RankIn(BasicPositions(x), p) + 1 /\ s[b] = x[p]

(* H is a trace of the digits of s.                                        *)
Traces(x, H, s) ==
    \A l \in (LiteralBytes(x) + 1)..Len(s) :
        Linked(x, H, l) /\ s[l] = EncodeDigit(Written(H[l]))
=============================================================================
