----------------------------- MODULE Insertions -----------------------------
(***************************************************************************)
(* What RFC 3492 section 6.2 promises of a decoder: a string that first    *)
(* takes basic code points at its end and then has others inserted, where  *)
(* <code point, position> only ever increases.                             *)
(***************************************************************************)
EXTENDS Integers, Sequences, SequencesExt

VARIABLES str,      \* the string
          at        \* the least <code point, position> the next one may have

Init == str = <<>> /\ at = <<128, 0>>

AddBasic == /\ at = <<128, 0>>
            /\ \E c \in 0..127 : str' = Append(str, c)
            /\ UNCHANGED at

(* The code point c goes in front of position p, which counts from 0. *)
Insert(c, p) == /\ c > at[1] \/ (c = at[1] /\ p >= at[2])
                /\ str' = InsertAt(str, p + 1, c)
                /\ at' = <<c, p + 1>>

Next == \/ AddBasic
        \/ /\ Len(str') = Len(str) + 1
           /\ \E p \in 0..Len(str) : Insert(str'[p + 1], p)

Spec == Init /\ [][Next]_<<str, at>>
=============================================================================
