------------------------------ MODULE LoopProofs ------------------------------
(****************************************************************************)
(* The three small loops of the program, each for every size of what it     *)
(* runs over: the binary search of a table unit (RangeSearch), libidn2      *)
(* behind its growing buffer (LabelBackend), and the vectorised entry       *)
(* points of exports.cpp, which implement VectorMap (Batch).                *)
(****************************************************************************)
EXTENDS RangeSearch, LabelBackend, Batch, SequenceTheorems, TLAPS

-----------------------------------------------------------------------------
(* range_lookup().  The invariant is the one of a binary search: whatever   *)
(* lies outside lo .. hi - 1 has been ruled out, and what was found holds   *)
(* cp.                                                                      *)

RuledOut ==
    /\ \A i \in 0 .. Len(ranges) - 1 : i < lo => Hi(ranges, i) < cp
    /\ \A i \in 0 .. Len(ranges) - 1 : hi <= i => cp < Lo(ranges, i)

Found == found # {} => \E m \in Holding : found = {m}

SearchInv == SearchTypeOK /\ RuledOut /\ Found

\* Halving an interval that is not empty gives a position in it.
LEMMA MidWithin ==
    ASSUME NEW a \in Nat, NEW b \in Nat, a < b
    PROVE  (a + b) \div 2 \in Nat /\ a <= (a + b) \div 2 /\ (a + b) \div 2 < b
  BY SMT

\* No two ranges of a sorted table hold the same code point.
LEMMA HoldersAreOne ==
    ASSUME SearchTypeOK, NEW i \in Holding, NEW j \in Holding
    PROVE  i = j
  <1>1. /\ i \in 0 .. Len(ranges) - 1 /\ j \in 0 .. Len(ranges) - 1
        /\ Len(ranges) \in Nat /\ SortedRanges(ranges) /\ cp \in Nat
    BY TablesAssumption, CodePointsAssumption DEF SearchTypeOK, Holding
  <1>2. /\ Lo(ranges, i) \in Nat /\ Hi(ranges, i) \in Nat
        /\ Lo(ranges, j) \in Nat /\ Hi(ranges, j) \in Nat
    BY <1>1 DEF SortedRanges
  <1>3. /\ Lo(ranges, i) <= cp /\ cp <= Hi(ranges, i)
        /\ Lo(ranges, j) <= cp /\ cp <= Hi(ranges, j)
    BY DEF Holding
  <1>4. CASE i < j
    <2>1. Hi(ranges, i) < Lo(ranges, j)
      BY <1>1, <1>4 DEF SortedRanges
    <2> QED BY <2>1, <1>1, <1>2, <1>3
  <1>5. CASE j < i
    <2>1. Hi(ranges, j) < Lo(ranges, i)
      BY <1>1, <1>5 DEF SortedRanges
    <2> QED BY <2>1, <1>1, <1>2, <1>3
  <1> QED BY <1>1, <1>4, <1>5

\* A search that has ended has found the range, or shown that there is none.
LEMMA EndMeansFound == SearchInv => FindsRange
  <1> SUFFICES ASSUME SearchInv, ~Searching PROVE found = Holding
    BY DEF FindsRange
  <1>1. CASE found # {}
    <2>1. PICK m \in Holding : found = {m}
      BY <1>1 DEF SearchInv, Found
    <2>2. \A i \in Holding : i = m
      BY HoldersAreOne DEF SearchInv
    <2> QED BY <2>1, <2>2
  <1>2. CASE found = {}
    <2>1. /\ lo \in Nat /\ hi \in Nat /\ hi <= lo
          /\ Len(ranges) \in Nat /\ SortedRanges(ranges) /\ cp \in Nat
      BY <1>2, TablesAssumption, CodePointsAssumption DEF SearchInv, SearchTypeOK, Searching
    <2>2. ASSUME NEW i \in Holding PROVE FALSE
      <3>1. /\ i \in 0 .. Len(ranges) - 1
            /\ Lo(ranges, i) <= cp /\ cp <= Hi(ranges, i)
            /\ Lo(ranges, i) \in Nat /\ Hi(ranges, i) \in Nat
        BY <2>1 DEF Holding, SortedRanges
      <3>2. CASE i < lo
        BY <2>1, <3>1, <3>2 DEF SearchInv, RuledOut
      <3>3. CASE hi <= i
        BY <2>1, <3>1, <3>3 DEF SearchInv, RuledOut
      <3> QED BY <2>1, <3>1, <3>2, <3>3
    <2> QED BY <1>2, <2>2
  <1> QED BY <1>1, <1>2

LEMMA SearchStarts == SearchInit => SearchInv
  <1> SUFFICES ASSUME SearchInit PROVE SearchInv
    OBVIOUS
  <1>1. Len(ranges) \in Nat /\ lo = 0 /\ hi = Len(ranges) /\ found = {}
    BY TablesAssumption DEF SearchInit
  <1>2. SearchTypeOK
    BY <1>1 DEF SearchInit, SearchTypeOK
  <1>3. RuledOut
    BY <1>1 DEF RuledOut
  <1> QED BY <1>1, <1>2, <1>3 DEF SearchInv, Found

LEMMA TurnKeeps == SearchInv /\ [Turn]_searchVars => SearchInv'
  <1> SUFFICES ASSUME SearchInv, [Turn]_searchVars PROVE SearchInv'
    OBVIOUS
  <1>0. /\ SearchTypeOK /\ lo \in Nat /\ hi \in Nat /\ cp \in Nat
        /\ Len(ranges) \in Nat /\ SortedRanges(ranges)
    BY TablesAssumption, CodePointsAssumption DEF SearchInv, SearchTypeOK
  <1>t. \A i \in 0 .. Len(ranges) - 1 : Lo(ranges, i) \in Nat /\ Hi(ranges, i) \in Nat
                                        /\ Lo(ranges, i) <= Hi(ranges, i)
    BY <1>0 DEF SortedRanges
  <1>m. Searching => /\ mid \in 0 .. Len(ranges) - 1 /\ lo <= mid /\ mid < hi
                     /\ Lo(ranges, mid) \in Nat /\ Hi(ranges, mid) \in Nat
    <2> SUFFICES ASSUME Searching
                 PROVE  /\ mid \in 0 .. Len(ranges) - 1 /\ lo <= mid /\ mid < hi
                        /\ Lo(ranges, mid) \in Nat /\ Hi(ranges, mid) \in Nat
      OBVIOUS
    <2>1. mid \in Nat /\ lo <= mid /\ mid < hi
      BY <1>0, MidWithin DEF Searching, mid
    <2>2. mid \in 0 .. Len(ranges) - 1
      BY <1>0, <2>1 DEF SearchTypeOK
    <2> QED BY <2>1, <2>2, <1>t
  <1>1. CASE Below
    <2> USE <1>1 DEF Below
    <2>1. SearchTypeOK'
      BY <1>0, <1>m DEF SearchTypeOK
    <2>2. ASSUME NEW i \in 0 .. Len(ranges) - 1, mid <= i PROVE cp < Lo(ranges, i)
      <3>1. CASE i = mid
        BY <3>1
      <3>2. CASE mid < i
        <4>1. Hi(ranges, mid) < Lo(ranges, i)
          BY <1>0, <1>m, <3>2 DEF SortedRanges
        <4> QED BY <4>1, <1>0, <1>t, <1>m
      <3> QED BY <1>m, <2>2, <3>1, <3>2
    <2>3. RuledOut'
      BY <2>2 DEF SearchInv, RuledOut
    <2>4. Found'
      BY DEF Found, Searching
    <2> QED BY <2>1, <2>3, <2>4 DEF SearchInv
  <1>2. CASE Above
    <2> USE <1>2 DEF Above
    <2>1. SearchTypeOK'
      BY <1>0, <1>m DEF SearchTypeOK
    <2>2. ASSUME NEW i \in 0 .. Len(ranges) - 1, i < mid + 1 PROVE Hi(ranges, i) < cp
      <3>1. CASE i = mid
        BY <3>1, <1>m, <1>0
      <3>2. CASE i < mid
        <4>1. Hi(ranges, i) < Lo(ranges, mid)
          BY <1>0, <1>m, <3>2 DEF SortedRanges
        <4> QED BY <4>1, <1>0, <1>t, <1>m
      <3> QED BY <1>m, <2>2, <3>1, <3>2
    <2>3. RuledOut'
      BY <2>2 DEF SearchInv, RuledOut
    <2>4. Found'
      BY DEF Found, Searching
    <2> QED BY <2>1, <2>3, <2>4 DEF SearchInv
  <1>3. CASE Match
    <2> USE <1>3 DEF Match
    <2>1. SearchTypeOK'
      BY <1>0, <1>m DEF SearchTypeOK
    <2>2. mid \in Holding'
      BY <1>0, <1>m DEF Holding
    <2>3. RuledOut'
      BY DEF SearchInv, RuledOut
    <2> QED BY <2>1, <2>2, <2>3 DEF SearchInv, Found
  <1>4. CASE UNCHANGED searchVars
    BY <1>4 DEF searchVars, SearchInv, SearchTypeOK, RuledOut, Found, Holding
  <1> QED BY <1>1, <1>2, <1>3, <1>4 DEF Turn

LEMMA SearchAlways == SearchSpec => []SearchInv
  <1> QED BY SearchStarts, TurnKeeps, PTL DEF SearchSpec

\* range_lookup() stays within its table, whatever the table's length: every
\* position it reads is one of the table's.
THEOREM StaysWithin == SearchSpec => []SearchTypeOK
  <1>1. SearchInv => SearchTypeOK
    BY DEF SearchInv
  <1> QED BY <1>1, SearchAlways, PTL

\* range_lookup() returns the one range that holds the code point, or nullptr when
\* none does, for every sorted table and every code point.
THEOREM SearchFindsRange == SearchSpec => []FindsRange
  BY EndMeansFound, SearchAlways, PTL

-----------------------------------------------------------------------------
(* The backends.  Whatever libidn2 answers, refuses or asks for, what a      *)
(* backend answers is the answer of the one codec whose turn it was; each   *)
(* turn of the loop around libidn2 has a larger buffer than the one before. *)

(* libidn2 is called only where the in-tree codec has not been chosen, and *)
(* only for a label that is neither plain nor ill-formed.                  *)
CalledRightly ==
    pc = "call" => /\ ~UsesInTree /\ ~label.plain /\ ~label.illFormed
                   /\ buffer \in 1..SizeMax

(* Until a call is done libidn2 has given no answer.                       *)
BackendInv ==
    /\ op \in {"encode", "decode"} /\ preference \in Preferences /\ label \in Labels
    /\ pc \in {"start", "call", "done"} /\ buffer \in 0..SizeMax
    /\ CalledRightly
    /\ pc # "done" => idn2 = {}
    /\ OneCodecDecides

(* What a call may leave with: r, when libidn2 has answered what is in a.  *)
Allowed(r, a) ==
    /\ preference = "automatic" => r \in IF a = {} THEN {label.inTree, "bad_alloc"} ELSE a
    /\ preference = "libidn2" =>
          r \in a \cup {"error", "bad_alloc"} \cup IF label.plain THEN {label.inTree} ELSE {}
    /\ preference = "fallback" => r = label.inTree
    /\ UsesInTree => a = {}

LEMMA BackendStarts == BackendInit => BackendInv
  BY SizeAssumption DEF BackendInit, BackendInv, CalledRightly, OneCodecDecides

(* A return keeps the invariant when what is returned is allowed.          *)
LEMMA LeaveKeeps ==
    ASSUME BackendInv, NEW r, Leave(r), Allowed(r, idn2')
    PROVE  BackendInv'
<1>1. /\ pc' = "done" /\ result' = r /\ UNCHANGED <<op, preference, label, need, buffer>>
      /\ UsesInTree' = UsesInTree
  BY DEF Leave, call, UsesInTree
<1>2. OneCodecDecides'
  BY <1>1 DEF Allowed, OneCodecDecides
<1> QED BY <1>1, <1>2 DEF BackendInv, CalledRightly

(* A throw of libidn2's half is retried in the tree by the automatic       *)
(* backend alone, and the fallback never gets there.                       *)
LEMMA ThrowKeeps ==
    ASSUME BackendInv, pc # "done", ~UsesInTree, Throw
    PROVE  BackendInv'
<1> DEFINE r == IF preference = "automatic" THEN label.inTree ELSE "error"
<1>1. Leave(r) /\ idn2 = {} /\ idn2' = {} /\ preference # "fallback"
  BY DEF Throw, NoAnswer, BackendInv, UsesInTree
<1>2. Allowed(r, idn2')
  BY <1>1 DEF Allowed
<1> HIDE DEF r
<1> QED BY <1>1, <1>2, LeaveKeeps

LEMMA GrowKeeps ==
    ASSUME BackendInv, NEW len \in 0..SizeMax, Grow(len)
    PROVE  BackendInv' /\ buffer' > buffer /\ buffer' \in 0..SizeMax
<1>1. /\ pc = "call" /\ pc' = "call" /\ buffer' = NextSize(len) /\ NextSize(len) > buffer
      /\ UNCHANGED <<op, preference, label, need, result, idn2>>
  BY DEF Grow, Grows, call
<1>2. NextSize(len) \in 0..SizeMax
  <2>1. buffer \in Nat /\ SizeMax \in Nat /\ SizeMax + 1 > 0 /\ len \in Nat
    BY SizeAssumption DEF BackendInv
  <2>2. \A x \in Nat : x % (SizeMax + 1) \in 0..SizeMax
    BY <2>1
  <2>3. (buffer * 2) % (SizeMax + 1) \in 0..SizeMax /\ (len + 1) % (SizeMax + 1) \in 0..SizeMax
    BY <2>1, <2>2
  <2> QED BY <2>3 DEF NextSize
<1>3. buffer' \in 1..SizeMax
  BY <1>1, <1>2 DEF BackendInv
<1> QED BY <1>1, <1>2, <1>3 DEF BackendInv, CalledRightly, OneCodecDecides, UsesInTree

LEMMA BackendKeeps == ASSUME BackendInv, [BackendNext]_backendVars PROVE BackendInv'
<1>1. pc = "call" => ~UsesInTree /\ ~label.plain
  BY DEF BackendInv, CalledRightly
<1>2. /\ pc # "done" => idn2 = {}
      /\ preference \in {"automatic", "libidn2", "fallback"}
      /\ preference = "fallback" => UsesInTree
      /\ preference = "libidn2" => ~UsesInTree
  BY DEF BackendInv, Preferences, UsesInTree
<1>3. CASE InTree
  <2>1. Leave(label.inTree) /\ UsesInTree /\ idn2' = {}
    BY <1>2, <1>3 DEF InTree, NoAnswer
  <2> QED BY <1>2, <2>1, LeaveKeeps DEF Allowed
<1>4. CASE AsItIs
  <2>1. Leave(label.inTree) /\ ~UsesInTree /\ label.plain /\ idn2' = {}
    BY <1>2, <1>4 DEF AsItIs, NoAnswer
  <2> QED BY <1>2, <2>1, LeaveKeeps DEF Allowed
<1>5. CASE RefuseEarly
  BY <1>5, ThrowKeeps DEF RefuseEarly
<1>6. CASE Prepare
  <2>1. buffer' \in 1..SizeMax
    BY <1>6, SizeAssumption DEF Prepare
  <2> QED BY <1>6, <2>1 DEF Prepare, call, BackendInv, CalledRightly, OneCodecDecides, UsesInTree
<1>7. CASE OutOfMemory
  <2>1. Leave("bad_alloc") /\ ~UsesInTree /\ idn2' = {}
    BY <1>1, <1>2, <1>7 DEF OutOfMemory, NoAnswer
  <2> QED BY <1>2, <2>1, LeaveKeeps DEF Allowed
<1>8. CASE Answer
  <2>1. PICK answer \in Outputs : Leave(answer) /\ idn2' = {answer}
    BY <1>8 DEF Answer
  <2>2. ~UsesInTree /\ preference # "fallback"
    BY <1>1, <1>2, <1>8 DEF Answer
  <2> QED BY <2>1, <2>2, LeaveKeeps DEF Allowed
<1>9. CASE Refuse
  BY <1>1, <1>9, ThrowKeeps DEF Refuse
<1>10. CASE AnswerBeyondUnicode
  BY <1>1, <1>10, ThrowKeeps DEF AnswerBeyondUnicode
<1>11. ASSUME NEW len \in 0..SizeMax, Grow(len) \/ Overflow(len) PROVE BackendInv'
  <2>1. CASE Grow(len)
    BY <2>1, GrowKeeps
  <2>2. CASE Overflow(len)
    BY <1>1, <2>2, ThrowKeeps DEF Overflow
  <2> QED BY <1>11, <2>1, <2>2
<1>12. CASE UNCHANGED backendVars
  BY <1>12 DEF backendVars, BackendInv, CalledRightly, OneCodecDecides, UsesInTree
<1> QED BY <1>3, <1>4, <1>5, <1>6, <1>7, <1>8, <1>9, <1>10, <1>11, <1>12 DEF BackendNext

LEMMA BackendAlways == BackendSpec => []BackendInv
<1>1. BackendInv /\ [BackendNext]_backendVars => BackendInv'
  BY BackendKeeps
<1> QED BY BackendStarts, <1>1, PTL DEF BackendSpec

(* The automatic backend gives libidn2's answer where there is one and the *)
(* in-tree codec's wherever libidn2 gave none, unless memory ran out, and  *)
(* libidn2 alone is never helped out, whatever libidn2 returns and however *)
(* often it is called (default_encode_label, default_decode_label).        *)
THEOREM BackendsDecideAlone == BackendSpec => []OneCodecDecides
<1>1. BackendInv => OneCodecDecides
  BY DEF BackendInv
<1> QED BY <1>1, BackendAlways, PTL

(* A call of libidn2 that follows another has a larger buffer, and one     *)
(* that size_t can hold: doubling that wraps ends the loop instead         *)
(* (punycoder_backend.cpp).  With the fairness of BackendSpec this is why the     *)
(* loop ends.                                                              *)
THEOREM BufferOnlyGrows ==
    BackendSpec => [][pc = "call" /\ pc' = "call" => buffer' > buffer /\ buffer' <= SizeMax]_backendVars
<1>1. BackendInv /\ [BackendNext]_backendVars =>
        [pc = "call" /\ pc' = "call" => buffer' > buffer /\ buffer' <= SizeMax]_backendVars
  <2> SUFFICES ASSUME BackendInv, BackendNext, pc = "call", pc' = "call"
               PROVE  buffer' > buffer /\ buffer' <= SizeMax
    OBVIOUS
  <2>1. PICK len \in 0..SizeMax : Grow(len)
    BY DEF BackendNext, InTree, AsItIs, RefuseEarly, Prepare, OutOfMemory, Answer,
           AnswerBeyondUnicode, Refuse, Overflow, Throw, Leave
  <2>2. buffer' > buffer /\ buffer' \in 0..SizeMax
    BY <2>1, GrowKeeps
  <2> QED BY <2>2, SizeAssumption
<1> QED BY <1>1, BackendAlways, PTL DEF BackendSpec

-----------------------------------------------------------------------------
(* The vectorised loops.  What has been written is what was promised, and   *)
(* nothing before failed.                                                   *)

USE BatchAssumption

\* The part of the output written so far keeps every promise.
Prefix ==
    \A p \in 1..Len(output) :
        output[p] = Promised(input[p]).cell /\ ~Promised(input[p]).fails

BatchInv ==
    /\ TypeOK
    /\ Prefix
    /\ ~Resolved => output = <<>> /\ status \in {"running", "stopped"}
    /\ Resolved /\ status = "stopped" => Len(output) < Len(input) /\ Promised(input[I]).fails
    /\ status = "returned" => Len(output) = Len(input)

CellSet == IF entry = "compare" THEN Cells \X Cells ELSE Cells

LEMMA BatchStarts == Init => BatchInv
BY DEF Init, BatchInv, TypeOK, Prefix, I, Resolved

\* One more element answered as promised.
LEMMA PutKeeps ==
    ASSUME BatchInv, AtElement, NEW cell \in CellSet, Put(cell),
           cell = Promised(input[I]).cell, ~Promised(input[I]).fails
    PROVE  BatchInv'
<1> DEFINE o == Append(output, cell)
<1>1. /\ output' = o /\ output \in Seq(CellSet) /\ UNCHANGED <<args, status>>
      /\ status = "running" /\ I \in 1..Len(input) /\ CellSet' = CellSet
      /\ Resolved /\ Resolved'
  BY DEF Put, BatchInv, TypeOK, AtElement, args, I, CellSet, Cells, Resolved
<1>2. /\ o \in Seq(CellSet) /\ Len(o) = Len(output) + 1 /\ o[Len(output) + 1] = cell
      /\ \A p \in 1..Len(output) : o[p] = output[p]
  BY <1>1, AppendProperties
<1>3. TypeOK'
  BY <1>1, <1>2 DEF BatchInv, TypeOK, args, CellSet, Cells, I
<1>4. \A x : Promised(x)' = Promised(x)
  BY <1>1 DEF Promised, args
<1>5. Prefix'
  <2> SUFFICES ASSUME NEW p \in 1..Len(o)
               PROVE o[p] = Promised(input[p]).cell /\ ~Promised(input[p]).fails
    BY <1>1, <1>4 DEF Prefix, args
  <2>1. CASE p \in 1..Len(output) BY <2>1, <1>2 DEF BatchInv, Prefix
  <2>2. CASE p = I BY <2>2, <1>2 DEF I
  <2> QED BY <1>2, <2>1, <2>2 DEF BatchInv, TypeOK, I
<1> QED BY <1>1, <1>3, <1>5 DEF BatchInv

\* Every branch of the loop body answers as promised.
LEMMA ServiceType ==
    ASSUME TypeOK, NEW b \in {"automatic", "fallback", "libidn2", "host"}, NEW x \in Element
    PROVE  Service(b, x) \in Element \cup Error /\ Service(b, x) = Outcome[<<strict, b, x>>]
BY DEF TypeOK, Service

LEMMA BatchKeeps == ASSUME BatchInv, [Next]_vars PROVE BatchInv'
<1>0. AtElement => input[I] \in Element \cup {NA}
  BY DEF BatchInv, TypeOK, AtElement, I
<1>1. CASE Missing
  <2> DEFINE cell == Promised(NA).cell
  <2>1. AtElement /\ Put(cell) /\ cell \in CellSet
    BY <1>1 DEF Missing, Promised, CellSet, Cells, BatchInv, TypeOK
  <2>2. cell = Promised(input[I]).cell /\ ~Promised(input[I]).fails
    BY <1>1 DEF Missing, Promised
  <2> QED BY <2>1, <2>2, PutKeeps
<1>2. CASE TransformElement
  <2> DEFINE cell == Service("automatic", input[I])
  <2>1. AtElement /\ Put(cell) /\ cell \in Element /\ input[I] \in Element /\ entry = "transform"
        /\ cell = Outcome[<<strict, "automatic", input[I]>>] /\ cell \notin Error
    BY <1>0, <1>2, ServiceType DEF TransformElement, BatchInv
  <2>2. cell \in CellSet BY <2>1 DEF CellSet, Cells
  <2>3. cell = Promised(input[I]).cell /\ ~Promised(input[I]).fails
    BY <2>1 DEF Promised
  <2> QED BY <2>1, <2>2, <2>3, PutKeeps
<1>3. CASE TransformFails /\ ~Stops
  <2>1. AtElement /\ Put(NA) /\ input[I] \in Element /\ entry = "transform" /\ ~strict
        /\ Outcome[<<strict, "automatic", input[I]>>] \in Error
    BY <1>0, <1>3, ServiceType DEF TransformFails, BatchInv, Stops
  <2>2. NA \in CellSet BY <2>1 DEF CellSet, Cells
  <2>3. NA = Promised(input[I]).cell /\ ~Promised(input[I]).fails
    BY <2>1 DEF Promised
  <2> QED BY <2>1, <2>2, <2>3, PutKeeps
<1>4. CASE TransformFails /\ Stops
  <2>1. /\ status = "running" /\ status' = "stopped" /\ UNCHANGED <<args, output>>
        /\ I <= Len(input) /\ input[I] \in Element /\ entry = "transform" /\ strict /\ Resolved
        /\ Outcome[<<strict, "automatic", input[I]>>] \in Error
    BY <1>0, <1>4, ServiceType DEF TransformFails, BatchInv, Stops, AtElement
  <2>2. Promised(input[I]).fails
    BY <2>1 DEF Promised
  <2>3. \A x : Promised(x)' = Promised(x)
    BY <2>1 DEF Promised, args
  <2>4. TypeOK' /\ Prefix'
    BY <2>1, <2>3 DEF BatchInv, TypeOK, Prefix, args, Cells
  <2> QED BY <2>1, <2>2, <2>3, <2>4 DEF BatchInv, TypeOK, I, args, Resolved
<1>5. CASE ValidateElement
  <2> DEFINE r == Outcome[<<strict, "automatic", input[I]>>]
             cell == IF r \in Error THEN r ELSE "valid"
  <2>1. AtElement /\ Put(cell) /\ input[I] \in Element /\ entry = "validate"
    BY <1>0, <1>5, ServiceType DEF ValidateElement, BatchInv
  <2>2. cell \in CellSet BY <2>1 DEF CellSet, Cells
  <2>3. cell = Promised(input[I]).cell /\ ~Promised(input[I]).fails
    BY <2>1 DEF Promised
  <2> QED BY <2>1, <2>2, <2>3, PutKeeps
<1>6. CASE CompareElement
  <2> DEFINE one == Outcome[<<strict, "fallback", input[I]>>]
             two == IF hasLibidn2 THEN Outcome[<<strict, "libidn2", input[I]>>] ELSE NA
  <2>1. AtElement /\ Put(<<one, two>>) /\ input[I] \in Element /\ entry = "compare"
        /\ one \in Element \cup Error /\ two \in Element \cup Error \cup {NA}
    BY <1>0, <1>6, ServiceType DEF CompareElement, BatchInv
  <2>2. <<one, two>> \in CellSet BY <2>1 DEF CellSet, Cells
  <2>3. <<one, two>> = Promised(input[I]).cell /\ ~Promised(input[I]).fails
    BY <2>1 DEF Promised
  <2> QED BY <2>1, <2>2, <2>3, PutKeeps
<1>7. CASE NormalizeElement
  <2> DEFINE r == Outcome[<<strict, "host", input[I]>>]
             cell == IF r \in Error THEN NA ELSE r
  <2>1. AtElement /\ Put(cell) /\ input[I] \in Element /\ entry = "normalize" /\ r \in Element \cup Error
    BY <1>0, <1>7, ServiceType DEF NormalizeElement, BatchInv
  <2>2. cell \in CellSet BY <2>1 DEF CellSet, Cells
  <2>3. cell = Promised(input[I]).cell /\ ~Promised(input[I]).fails
    BY <2>1 DEF Promised
  <2> QED BY <2>1, <2>2, <2>3, PutKeeps
<1>8. CASE UnsupportedVersion \/ Return \/ UNCHANGED vars
  <2>1. /\ UNCHANGED <<args, output>>
        /\ \/ status' = status
           \/ status = "running" /\ status' = "returned" /\ I > Len(input) /\ Resolved
           \/ status = "running" /\ status' = "stopped" /\ ~Resolved
    BY <1>8 DEF UnsupportedVersion, Return, vars, args
  <2>2. \A x : Promised(x)' = Promised(x)
    BY <2>1 DEF Promised, args
  <2>3. TypeOK' /\ Prefix'
    BY <2>1, <2>2 DEF BatchInv, TypeOK, Prefix, args, Cells
  <2> QED BY <2>1, <2>2, <2>3 DEF BatchInv, TypeOK, I, args, Resolved
<1> QED BY <1>1, <1>2, <1>3, <1>4, <1>5, <1>6, <1>7, <1>8 DEF Next

LEMMA BatchAlways == Spec => []BatchInv
BY BatchStarts, BatchKeeps, PTL DEF Spec

\* The variables keep their types, whatever the vector.
THEOREM BatchTypeCorrect == Spec => []TypeOK
BY BatchAlways, PTL DEF BatchInv

\* A step of the loop is a step of VectorMap or a stutter.
LEMMA StepMaps ==
    ASSUME BatchInv, BatchInv', [Next]_vars
    PROVE  [Map!Next]_<<input, ~Resolved, Promise, status, StoppedAt, Returned>>
<1>1. UNCHANGED args
  BY DEF Next, vars, args, Put, UnsupportedVersion, Missing, TransformElement, TransformFails,
         ValidateElement, CompareElement, NormalizeElement, Return
<1>2. Promise' = Promise /\ input' = input /\ Resolved' = Resolved
  BY <1>1 DEF Promise, Promised, args, Resolved
<1>3. DOMAIN input = 1..Len(input) /\ Len(input) \in Nat /\ Len(output) \in Nat
  BY DEF BatchInv, TypeOK
<1>4. \A i \in DOMAIN input : Promise[input[i]] = Promised(input[i])
  BY DEF Promise, BatchInv, TypeOK
<1>5. CASE status' = status
  <2>1. status = "running" \/ UNCHANGED vars
    BY <1>5 DEF Next, vars, Put, UnsupportedVersion, Missing, AtElement, TransformElement,
                TransformFails, ValidateElement, CompareElement, NormalizeElement, Return
  <2> QED BY <1>2, <1>5, <2>1 DEF StoppedAt, Returned, vars, I
<1>6. CASE status' # status /\ TransformFails
  <2>1. status = "running" /\ status' = "stopped" /\ output' = output /\ Resolved
    BY <1>6 DEF TransformFails, Put, AtElement
  <2>2. Returned' = Returned /\ StoppedAt' = I
    BY <1>2, <2>1 DEF Returned, StoppedAt, I
  <2>3. Promised(input[I])' = Promised(input[I]) /\ I' = I
    BY <1>1, <2>1 DEF Promised, args, I
  <2>4. Promised(input[I]).fails /\ Len(output) < Len(input)
    BY <1>2, <2>1, <2>3 DEF BatchInv, Resolved
  <2>5. I \in Map!Failing /\ \A i \in Map!Failing : I <= i
    BY <1>3, <1>4, <2>4 DEF BatchInv, Prefix, I, Map!Failing
  <2> QED BY <1>2, <2>1, <2>2, <2>5 DEF Map!Next, Map!Stop
<1>7. CASE status' # status /\ Return
  <2>1. /\ status = "running" /\ status' = "returned" /\ output' = output
        /\ Len(output) = Len(input) /\ Resolved
    BY <1>7 DEF Return, BatchInv, TypeOK, I
  <2>2. StoppedAt' = StoppedAt /\ Returned' = output
    BY <2>1 DEF Returned, StoppedAt
  <2>3. Map!Failing = {}
    BY <1>3, <1>4, <2>1 DEF BatchInv, Prefix, Map!Failing
  <2>4. output \in Seq(CellSet)
    BY DEF BatchInv, TypeOK, CellSet
  <2>5. output = [i \in DOMAIN input |-> Promise[input[i]].cell]
    BY <1>3, <1>4, <2>1, <2>4 DEF BatchInv, Prefix
  <2> QED BY <1>2, <2>1, <2>2, <2>3, <2>5 DEF Map!Next, Map!Return
<1>8. CASE UnsupportedVersion
  <2>1. /\ ~Resolved /\ ~Resolved' /\ status = "running" /\ status' = "stopped" /\ output' = output
    BY <1>2, <1>8 DEF UnsupportedVersion
  <2>2. StoppedAt' = StoppedAt /\ Returned' = Returned
    BY <2>1 DEF StoppedAt, Returned
  <2> QED BY <1>2, <2>1, <2>2 DEF Map!Next, Map!Refuse
<1>9. status' = status \/ TransformFails \/ Return \/ UnsupportedVersion
  BY DEF Next, vars, Put, Missing, TransformElement, ValidateElement, CompareElement, NormalizeElement
<1> QED BY <1>5, <1>6, <1>7, <1>8, <1>9

\* Every vectorised entry point is the element-wise map VectorMap promises,
\* stopped at the first failing element where strict mode says so.
THEOREM BatchMapsElements == Spec => MapsElements
<1>1. Init => Map!Init
  BY DEF Init, Map!Init, StoppedAt, Returned
<1>2. BatchInv /\ BatchInv' /\ [Next]_vars => [Map!Next]_<<input, ~Resolved, Promise, status, StoppedAt, Returned>>
  BY StepMaps
<1> QED BY <1>1, <1>2, BatchAlways, PTL DEF Spec, MapsElements, Map!Spec
=============================================================================
