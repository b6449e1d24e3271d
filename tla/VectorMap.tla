------------------------------ MODULE VectorMap -----------------------------
(* What a vectorised entry point promises an R caller: one answer per         *)
(* element, each a function of that element alone; or, where a failure is an  *)
(* error, the error at the first element that fails and no vector.  A call    *)
(* refused for its own arguments answers no element at all.                   *)
EXTENDS Integers, Sequences

VARIABLES input,
          refused,   \* the arguments beside the vector are not acceptable
          promise,   \* element -> [fails |-> BOOLEAN, cell |-> its answer]
          state,     \* "running", "stopped" or "returned"
          at,        \* the element that stopped the call, 0 if none did
          vector     \* what was returned

Init == state = "running" /\ at = 0 /\ vector = <<>>

Failing == {i \in DOMAIN input : promise[input[i]].fails}

Refuse == refused /\ state' = "stopped" /\ at' = at /\ vector' = vector

Stop ==
    /\ ~refused /\ state' = "stopped" /\ at' \in Failing /\ vector' = vector
    /\ \A i \in Failing : at' <= i

Return ==
    /\ ~refused /\ Failing = {} /\ state' = "returned" /\ at' = at
    /\ vector' = [i \in DOMAIN input |-> promise[input[i]].cell]

Next == state = "running" /\ (Refuse \/ Stop \/ Return) /\ UNCHANGED <<input, refused, promise>>

Spec == Init /\ [][Next]_<<input, refused, promise, state, at, vector>>
=============================================================================
