-------------------------------- MODULE Batch -------------------------------
(* The vectorised entry points of exports.cpp: one loop over an R character   *)
(* vector, with R's NA and the two ways of reporting a failure. What becomes  *)
(* of one string is the table Outcome; Domain computes it.                    *)
EXTENDS Integers, Sequences

CONSTANTS Element, NA, Error,
          Outcome,     \* <<strict, backend, element>> -> the answer, or the error; the
                       \* backend "host" is the normalizer, which has no strict mode
          Inputs       \* the vectors given

\* Answers are domains too.
ASSUMPTION BatchAssumption ==
    /\ NA \notin Element /\ NA \notin Error
    /\ Inputs \subseteq Seq(Element \cup {NA})
    /\ Outcome \in [BOOLEAN \X {"automatic", "fallback", "libidn2", "host"} \X Element -> Element \cup Error]

VARIABLES entry,        \* "transform", "validate", "compare" or "normalize"
          strict, hasLibidn2,
          shipped,      \* the Unicode version asked for is one of the registry's
          input, output,
          status        \* "running", "returned", or "stopped" by Rcpp::stop

vars == <<entry, strict, hasLibidn2, shipped, input, output, status>>
args == <<entry, strict, hasLibidn2, shipped, input>>

Init ==
    /\ entry \in {"transform", "validate", "compare", "normalize"}
    /\ strict \in BOOLEAN /\ hasLibidn2 \in BOOLEAN /\ shipped \in BOOLEAN
    /\ input \in Inputs
    /\ output = <<>> /\ status = "running"

I == Len(output) + 1

\* host_normalize_cpp looks the version up before it looks at any element.
Resolved == entry = "normalize" => shipped
UnsupportedVersion == status = "running" /\ ~Resolved /\ status' = "stopped" /\ UNCHANGED <<args, output>>

AtElement == status = "running" /\ Resolved /\ I <= Len(input)
Put(cell) == output' = Append(output, cell) /\ UNCHANGED <<args, status>>

MissingOneColumn ==
    /\ AtElement /\ input[I] = NA
    /\ Put(IF entry = "validate" THEN "domain_na" ELSE NA)
\* is_na is tested before anything is converted.
Missing ==
    /\ AtElement /\ input[I] = NA
    /\ Put(CASE entry = "transform" -> NA
             [] entry = "normalize" -> NA
             [] entry = "validate"  -> "domain_na"
             [] entry = "compare"   -> <<NA, NA>>)

Service(backend, x) == Outcome[<<strict, backend, x>>]

TransformElement ==
    /\ AtElement /\ input[I] # NA /\ entry = "transform"
    /\ Service("automatic", input[I]) \notin Error
    /\ Put(Service("automatic", input[I]))

StopsIfFirst == strict /\ output = <<>>
Stops == strict

TransformFails ==
    /\ AtElement /\ input[I] # NA /\ entry = "transform"
    /\ Service("automatic", input[I]) \in Error
    /\ \/ ~Stops /\ Put(NA)
       \/ Stops /\ status' = "stopped" /\ UNCHANGED <<args, output>>

\* The error code is the answer, whatever strict is.
ValidateElement ==
    /\ AtElement /\ input[I] # NA /\ entry = "validate"
    /\ LET r == Service("automatic", input[I]) IN Put(IF r \in Error THEN r ELSE "valid")

\* safe_backend_mode catches for each backend by itself.
CompareElement ==
    /\ AtElement /\ input[I] # NA /\ entry = "compare"
    /\ Put(<<Service("fallback", input[I]),
             IF hasLibidn2 THEN Service("libidn2", input[I]) ELSE NA>>)

\* What is no host is NA, whatever was wrong with it: no element stops the loop.
NormalizeElement ==
    /\ AtElement /\ input[I] # NA /\ entry = "normalize"
    /\ LET r == Service("host", input[I]) IN Put(IF r \in Error THEN NA ELSE r)

Return == status = "running" /\ Resolved /\ I > Len(input) /\ status' = "returned" /\ UNCHANGED <<args, output>>

Next == \/ UnsupportedVersion \/ Missing \/ TransformElement \/ TransformFails
        \/ ValidateElement \/ CompareElement \/ NormalizeElement \/ Return

Spec == Init /\ [][Next]_vars

-----------------------------------------------------------------------------
Cells == Element \cup Error \cup {NA, "valid", "domain_na"}

\* No cell is written past the end, and a compared element has its two columns.
TypeOK ==
    /\ entry \in {"transform", "validate", "compare", "normalize"}
    /\ strict \in BOOLEAN /\ hasLibidn2 \in BOOLEAN /\ shipped \in BOOLEAN
    /\ input \in Seq(Element \cup {NA})
    /\ output \in Seq(IF entry = "compare" THEN Cells \X Cells ELSE Cells)
    /\ Len(output) <= Len(input)
    /\ status \in {"running", "returned", "stopped"}

\* The answer promised for one element, by itself.
Promised(x) ==
    LET auto == Outcome[<<strict, IF entry = "normalize" THEN "host" ELSE "automatic", x>>] IN
    [fails |-> entry = "transform" /\ strict /\ x # NA /\ auto \in Error,
     cell  |-> IF x = NA THEN (IF entry = "compare" THEN <<NA, NA>> ELSE IF entry = "validate" THEN "domain_na" ELSE NA)
               ELSE IF entry = "compare"
                    THEN <<Outcome[<<strict, "fallback", x>>],
                           IF hasLibidn2 THEN Outcome[<<strict, "libidn2", x>>] ELSE NA>>
               ELSE IF auto \in Error THEN (IF entry = "validate" THEN auto ELSE NA)
               ELSE IF entry = "validate" THEN "valid" ELSE auto]

Promise == [x \in Element \cup {NA} |-> Promised(x)]
StoppedAt == IF status = "stopped" /\ Resolved THEN I ELSE 0
Returned  == IF status = "returned" THEN output ELSE <<>>

Map == INSTANCE VectorMap
         WITH refused <- ~Resolved, promise <- Promise, state <- status, at <- StoppedAt, vector <- Returned

\* Element by element, NA by NA, the vector is the one VectorMap promises: no
\* element's failure reaches a neighbour, and strict puny_encode and puny_decode
\* stop at the first failure and at nothing else. host_normalize answers every
\* element, or none when the version asked for is not shipped.
MapsElements == Map!Spec

=============================================================================
