--------------------------- MODULE InsertionOrder ---------------------------
(***************************************************************************)
(* What the encoder promises about order, and what RFC 3492 section 6.3    *)
(* makes of it: the positions of a label are written one at a time, always *)
(* the least pending one, where basic code points come first, in label     *)
(* order, and the others follow by code point and then by position.        *)
(***************************************************************************)
EXTENDS Integers, Sequences

VARIABLES cps,      \* the label
          written   \* the positions written so far

Rank(p) == IF cps[p] < 128 THEN 0 ELSE cps[p]

Precedes(p, r) == \/ Rank(p) < Rank(r)
                  \/ Rank(p) = Rank(r) /\ p < r

Pending == DOMAIN cps \ written

Init == written = {}

Write(p) == /\ \A r \in Pending \ {p} : Precedes(p, r)
            /\ written' = written \cup {p}
            /\ UNCHANGED cps

(* A label is given, while nothing has been written of the one before.     *)
Given == written = {} /\ written' = {}

Next == Given \/ \E p \in Pending : Write(p)

Spec == Init /\ [][Next]_<<cps, written>>
=============================================================================
