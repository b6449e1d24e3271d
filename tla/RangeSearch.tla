----------------------------- MODULE RangeSearch -----------------------------
(****************************************************************************)
(* range_lookup() of a generated table unit: the binary search over a table *)
(* of code point ranges that is_combining_mark() and joining_type() share,  *)
(* one turn of its loop at a step.  Indices count from 0 as in the code; a  *)
(* range is a sequence <<lo, hi, ...>>.                                     *)
(****************************************************************************)
EXTENDS Integers, Sequences

CONSTANTS Tables,      \* the range tables searched
          CodePoints   \* what is looked up

Lo(ranges, i) == ranges[i + 1][1]
Hi(ranges, i) == ranges[i + 1][2]

\* What the generator promises of a table: ranges in order, none empty, no two overlapping.
SortedRanges(ranges) ==
    /\ \A i \in 0 .. Len(ranges) - 1 :
        /\ Lo(ranges, i) \in Nat /\ Hi(ranges, i) \in Nat
        /\ Lo(ranges, i) <= Hi(ranges, i)
    /\ \A i, j \in 0 .. Len(ranges) - 1 : i < j => Hi(ranges, i) < Lo(ranges, j)

ASSUME TablesAssumption == \A ranges \in Tables : Len(ranges) \in Nat /\ SortedRanges(ranges)
ASSUME CodePointsAssumption == CodePoints \subseteq Nat

VARIABLES ranges, cp,  \* the arguments
          lo, hi,      \* the half-open interval of positions left
          found        \* none, or the position returned
searchVars == <<ranges, cp, lo, hi, found>>

mid == (lo + hi) \div 2
Searching == lo < hi /\ found = {}

SearchInit ==
    /\ ranges \in Tables /\ cp \in CodePoints
    /\ lo = 0 /\ hi = Len(ranges)
    /\ found = {}

\* Bug: the interval may stay as long as it is.
BelowKeepsMid ==
    /\ Searching /\ cp < Lo(ranges, mid)
    /\ hi' = mid + 1
    /\ UNCHANGED <<ranges, cp, lo, found>>
Below ==
    /\ Searching /\ cp < Lo(ranges, mid)
    /\ hi' = mid
    /\ UNCHANGED <<ranges, cp, lo, found>>

\* Bug: the range after mid is left out.
AboveSkips ==
    /\ Searching /\ cp >= Lo(ranges, mid) /\ cp > Hi(ranges, mid)
    /\ lo' = mid + 2
    /\ UNCHANGED <<ranges, cp, hi, found>>
Above ==
    /\ Searching /\ cp >= Lo(ranges, mid) /\ cp > Hi(ranges, mid)
    /\ lo' = mid + 1
    /\ UNCHANGED <<ranges, cp, hi, found>>

Match ==
    /\ Searching /\ cp >= Lo(ranges, mid) /\ cp <= Hi(ranges, mid)
    /\ found' = {mid}
    /\ UNCHANGED <<ranges, cp, lo, hi>>

Turn == Below \/ Above \/ Match
SearchSpec == SearchInit /\ [][Turn]_searchVars /\ WF_searchVars(Turn)

-----------------------------------------------------------------------------
\* The positions left are positions of the table: no turn reads ranges[n].
SearchTypeOK ==
    /\ ranges \in Tables /\ cp \in CodePoints
    /\ lo \in 0 .. Len(ranges) /\ hi \in 0 .. Len(ranges) /\ lo <= hi
    /\ found \subseteq 0 .. Len(ranges) - 1

Holding == {i \in 0 .. Len(ranges) - 1 : Lo(ranges, i) <= cp /\ cp <= Hi(ranges, i)}

\* When the loop is over the search returns the range that holds cp if the table
\* has one, wherever it lies, the first and the last included, and nullptr if not:
\* what TableUnit takes range_lookup() for.
FindsRange == ~Searching => found = Holding

\* Every turn leaves a shorter interval, so the loop ends for every table.
SearchEnds == <>~Searching

=============================================================================
