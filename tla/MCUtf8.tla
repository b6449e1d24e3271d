------------------------------- MODULE MCUtf8 -------------------------------
(* Strings of up to four bytes drawn from the edges of every range the decoder *)
(* tests, and the encodings of code points at the edges of every width.        *)
EXTENDS Utf8, SequencesExt

Edges == { \h00, \h7f, \h80, \h8f, \h90, \h9f, \ha0, \hbf, \hc0, \hc1, \hc2, \hdf,
           \he0, \hed, \hef, \hf0, \hf4, \hf7, \hf8, \hff }
Few   == { \h41, \h80, \h8f, \h90, \hbf, \he0, \hf0, \hf4, \hf7 }

CodePoints == { \h0, \h7f, \h80, \h7ff, \h800, \hd7ff, \he000, \hffff, \h10000, \h10ffff }

Strings == UNION { [1 .. n -> Edges] : n \in 0 .. 3 }
             \cup [1 .. 4 -> Few]
             \cup { codepoint_to_utf8(a) \o codepoint_to_utf8(b) : a, b \in CodePoints }
MCInputs == Strings
=============================================================================
