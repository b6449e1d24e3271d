------------------------------- MODULE MCBatch ------------------------------
(* Vectors of up to four of: a domain every mode answers, one strict mode     *)
(* refuses, one that libidn2 and the normalizer refuse, one that always       *)
(* fails, and NA.                                                             *)
EXTENDS Batch

MCElement == {"plain", "lenient", "fussy", "broken"}
MCError == {"error", "backend_failure"}

MCOutcome ==
    [k \in BOOLEAN \X {"automatic", "fallback", "libidn2", "host"} \X MCElement |->
        IF k[3] = "broken" \/ (k[3] = "lenient" /\ k[1] /\ k[2] # "host") THEN "error"
        ELSE IF k[3] = "fussy" /\ k[2] \in {"libidn2", "host"} THEN "backend_failure"
        ELSE k[3]]

MCInputs == UNION {[1..n -> MCElement \cup {"NA"}] : n \in 0..4}
=============================================================================
