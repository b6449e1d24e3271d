---------------------------- MODULE LabelBackend ----------------------------
(* One call of a LabelBackend (punycoder_backend.cpp): libidn2 behind its     *)
(* growing buffer, the in-tree codec, and the automatic choice between them.  *)
(* libidn2 is external and held to nothing: it answers any output, also where *)
(* the in-tree codec has another or refuses, or it refuses, or it asks for a  *)
(* larger buffer.                                                             *)
EXTENDS Naturals

CONSTANTS SizeMax,          \* the largest size_t
          InitialBuffers,   \* sizes a first buffer may have (at least 32 in the code)
          Needs,            \* output lengths libidn2 may need; one above SizeMax never fits
          Outputs           \* what a codec may make of a label

ASSUMPTION SizeAssumption ==
    /\ SizeMax \in Nat
    /\ InitialBuffers \subseteq 1..SizeMax
    /\ Needs \subseteq Nat
    /\ Outputs \cap {"error", "bad_alloc"} = {}

\* What a call depends on in a label.
\*   plain   : returned as it is by either codec (no non-ASCII byte to encode, no
\*             prefix to decode)
\*   illFormed: refused before libidn2 is called (bad UTF-8, empty payload)
\*   upper   : decode only, the payload has an upper-case letter
\*   inTree  : what the in-tree codec makes of it
Labels == {l \in [plain : BOOLEAN, illFormed : BOOLEAN, upper : BOOLEAN, inTree : Outputs \cup {"error"}] :
             /\ l.plain => (~l.illFormed /\ l.inTree # "error")
             /\ l.illFormed => l.inTree = "error"}

Preferences == {"automatic", "libidn2", "fallback"}

VARIABLES op, preference, label, need, buffer, pc, result,
          idn2   \* history: the output of the call that returned IDN2_OK, if one did

backendVars == <<op, preference, label, need, buffer, pc, result, idn2>>
call == <<op, preference, label, need>>

BackendInit ==
    /\ op \in {"encode", "decode"}
    /\ preference \in Preferences
    /\ label \in Labels
    /\ op = "encode" => (label.inTree = "error" => label.illFormed)   \* EncoderNeverThrows
    /\ need \in Needs
    /\ buffer = 0 /\ pc = "start" /\ result = "none" /\ idn2 = {}

Leave(r) == /\ pc' = "done" /\ result' = r /\ UNCHANGED <<call, buffer>>
NoAnswer == UNCHANGED idn2

ThrowOutright == Leave("error") /\ NoAnswer
\* A PunycoderError leaves encode_label_libidn2 or decode_label_libidn2.
Throw == Leave(IF preference = "automatic" THEN label.inTree ELSE "error") /\ NoAnswer

UsesInTree == preference = "fallback" \/ (preference = "automatic" /\ op = "decode" /\ label.upper)

InTree == pc = "start" /\ UsesInTree /\ Leave(label.inTree) /\ NoAnswer

AsItIs == pc = "start" /\ ~UsesInTree /\ label.plain /\ Leave(label.inTree) /\ NoAnswer

RefuseEarly == pc = "start" /\ ~UsesInTree /\ label.illFormed /\ Throw

Prepare ==
    /\ pc = "start" /\ ~UsesInTree /\ ~label.plain /\ ~label.illFormed
    /\ buffer' \in InitialBuffers
    /\ pc' = "call"
    /\ UNCHANGED <<call, result, idn2>>

\* The vector cannot be allocated: std::bad_alloc is no PunycoderError and is
\* not retried.
OutOfMemory == pc = "call" /\ Leave("bad_alloc") /\ NoAnswer

\* IDN2_OK, with any output: neither surrogates nor literals that are no
\* letter, digit or hyphen are looked for here.
Answer ==
    /\ pc = "call" /\ need <= buffer
    /\ \E answer \in Outputs : Leave(answer) /\ idn2' = {answer}

\* IDN2_OK, but a code point decoded is beyond U+10FFFF: the one thing
\* codepoints_to_utf8 refuses.
AnswerBeyondUnicode == pc = "call" /\ op = "decode" /\ need <= buffer /\ Throw

\* Any other return code, for reasons of libidn2's own.
Refuse == pc = "call" /\ Throw

\* std::max(buffer_size * 2, output_length + 1), both modulo 2^w; output_length
\* is whatever libidn2 left in it.
NextSize(len) ==
    LET double == (buffer * 2) % (SizeMax + 1)
        more   == (len + 1) % (SizeMax + 1)
    IN  IF double >= more THEN double ELSE more

GrowsUnchecked(len) == TRUE
Grows(len) == NextSize(len) > buffer

Grow(len) ==
    /\ pc = "call" /\ need > buffer /\ Grows(len)
    /\ buffer' = NextSize(len)
    /\ UNCHANGED <<call, pc, result, idn2>>

Overflow(len) == pc = "call" /\ need > buffer /\ ~Grows(len) /\ Throw

BackendNext ==
    \/ InTree \/ AsItIs \/ RefuseEarly \/ Prepare
    \/ OutOfMemory \/ Answer \/ AnswerBeyondUnicode \/ Refuse
    \/ \E len \in 0..SizeMax : Grow(len) \/ Overflow(len)

BackendSpec == BackendInit /\ [][BackendNext]_backendVars /\ WF_backendVars(BackendNext)

-----------------------------------------------------------------------------
\* One codec decides, and which one is told by what libidn2 returned and by
\* nothing else: the automatic backend gives the in-tree answer after every way
\* libidn2 has of giving none (a refusal, a buffer that cannot grow, ill-formed
\* input, code points out of range), never for memory that ran out, and never
\* in place of an answer; libidn2 alone never has a refusal papered over, which
\* is what compare_backends compares; and a payload with a capital never reaches
\* libidn2 under the automatic backend.
OneCodecDecides ==
    pc = "done" =>
        /\ preference = "automatic" =>
              result \in IF idn2 = {} THEN {label.inTree, "bad_alloc"} ELSE idn2
        /\ preference = "libidn2" =>
              result \in idn2 \cup {"error", "bad_alloc"} \cup IF label.plain THEN {label.inTree} ELSE {}
        /\ preference = "fallback" => result = label.inTree
        /\ UsesInTree => idn2 = {}

\* The loop around libidn2 ends, even when no buffer would ever be enough.
CallEnds == <>(pc = "done")
=============================================================================
