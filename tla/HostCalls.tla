------------------------------ MODULE HostCalls ------------------------------
(* A caller of host_normalize() who calls once and then again: with the same  *)
(* host, or with the form that came out, under the same flags or others. The  *)
(* properties relate the two answers.                                         *)
EXTENDS Normalizer

VARIABLE first   \* the call already answered, if any

allvars == <<vars, first>>

Run == Next /\ UNCHANGED first
Again ==
    /\ stage = "done" /\ first = {}
    /\ first' = {[host |-> host, opts |-> opts, result |-> result]}
    /\ host' \in {host} \cup IF result.valid THEN {result.value} ELSE {}
    /\ opts' \in Options
    /\ stage' = "utf8" /\ cps' = <<>> /\ had_root' = FALSE
    /\ labels' = <<>> /\ out_labels' = <<>>
    /\ result' = [valid |-> FALSE, value |-> <<>>]

CallInit == Init /\ first = {}
CallSpec == CallInit /\ [][Run \/ Again]_allvars

-----------------------------------------------------------------------------
\* Every check the flags of one call make, those of another make too.
Relaxes(a, b) ==
    /\ b.check_hyphens => a.check_hyphens
    /\ b.use_std3 => a.use_std3
    /\ b.verify_dns_length => a.verify_dns_length

\* The form is canonical: a host has one, whatever flags accept it, and a host
\* that is a form already is its own. The flags decide whether, never into what.
OneForm ==
    \A f \in first : f.result.valid /\ stage = "done" /\ result.valid => result = f.result

\* "Relaxing any of them must never change a result the full profile already
\* accepts, only ever turn rejections into acceptances" (the contract, section 8),
\* here from any flags to any weaker ones.
RelaxingOnlyAccepts ==
    \A f \in first :
        host = f.host /\ Relaxes(f.opts, opts) /\ f.result.valid /\ stage = "done" => result.valid

\* What came out is accepted again by the call that gave it, so forms can be
\* stored and normalized once more: with STD3 rules (without them "a_" and a letter
\* that is not ASCII make a label the decoder refuses, as RoundTrip says),
\* and while every label is one the decoder takes. The second limit is one the
\* reader does not expect: without verify_dns_length "over-long labels and hosts
\* convert" (R/normalize.R:57), but an A-label past kMaxLabelLength that one call
\* has written the next one refuses.
Reread(f) == host = f.result.value /\ opts = f.opts /\ f.result.valid /\ stage = "done"
DecoderTakes(f) ==
    LET ls == U!LabelsOf(f.result.value) IN \A k \in DOMAIN ls : Len(ls[k]) <= MaxLabelLength
OutputAccepted ==
    \A f \in first : Reread(f) /\ f.opts.use_std3 /\ DecoderTakes(f) => result.valid
=============================================================================
