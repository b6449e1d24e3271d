---------------------------- MODULE MCRangeSearch ----------------------------
(* Every table of up to four ranges over the code points 0 to 6, looked up at *)
(* each of them and past both ends, and the range arrays of the two units at  *)
(* the edges of their ranges.                                                 *)
EXTENDS RangeSearch

U16 == INSTANCE Unit16_0_0
U17 == INSTANCE Unit17_0_0

Small(n) == {t \in [1 .. n -> {r \in (0 .. 6) \X (0 .. 6) : r[1] <= r[2]}] :
                \A i \in 1 .. n - 1 : t[i][2] < t[i + 1][1]}
Shipped == {U16!MARK_RANGES, U17!MARK_RANGES, U16!JOINING_RANGES, U17!JOINING_RANGES}
Edges(t) == UNION {{t[i][1] - 1, t[i][1], t[i][2], t[i][2] + 1} : i \in DOMAIN t}

AllTables == UNION {Small(n) : n \in 0 .. 4} \cup Shipped
LookedUp  == 0 .. 7 \cup UNION {Edges(t) : t \in Shipped}
MCTables == AllTables
MCCodePoints == LookedUp
=============================================================================
