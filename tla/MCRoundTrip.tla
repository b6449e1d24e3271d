---------------------------- MODULE MCRoundTrip -----------------------------
EXTENDS RoundTrip

CONSTANTS MaxLen, MaxBytes

(* 128 is the least code point that is not basic, 1114111 the greatest of  *)
(* all; 45 is the delimiter, 40 is not a letter, digit or hyphen.  The     *)
(* payload of the last label is over the decoder's limit.                  *)
MCInputs == UNION {[1..l -> {45, 40, 97, 128, 252, 253, 9731, 1114111}] : l \in 1..MaxLen}
              \cup {[p \in 1..20 |-> IF p = 7 THEN 252 ELSE 97]}

(* 'a', 'b', 'K', '9', 'z' and '-'; a literal that is not LDH; "ib9b", which *)
(* stands for the surrogate U+D800; an integer past 64 bits; and a payload   *)
(* over the limit.                                                           *)
MCPayloads == UNION {[1..l -> {97, 98, 75, 57, 122, 45}] : l \in 0..MaxBytes}
                \cup {<<97, 40, 45, 97>>, <<97, 40>>, <<105, 98, 57, 98>>, [p \in 1..8 |-> 57], [p \in 1..27 |-> 97]}
=============================================================================
