# punycoder in TLA+

A verification development kept beside the R package `punycoder`, which converts
domain names between Unicode and Punycode (RFC 3492), validates them, and
normalizes hosts after UTS #46. Every definition is translated from the C++ under
`src/src` (and, where it matters, the R under `src/R`); `PROJECT.json` maps each
one to its lines.

Contents: [the system](#the-system) · [modules](#the-modules) ·
[runs](#what-the-runs-show) · [bounds](#bounds) · [fairness](#fairness) ·
[proofs](#what-is-proved) · [findings](#findings) ·
[not modelled](#not-modelled) · [plan](#plan)

## The system

The program is sequential. Each exported function is a computation over a
character vector, with no shared state, no threads and nothing persisted. What
is hard is of another kind:

- **state carried through loops**: Bootstring keeps `n`, `delta`/`i` and `bias`
  in step between an encoder and a decoder that compute them differently;
- **integer limits**: 64-bit sums, a `size_t` that doubles, DNS lengths measured
  at four places in three units;
- **long pipelines**, where one step relies on what an earlier one refused
  (validation skips NFC because the host was normalized before it was split);
- **whole-domain conditions** decided from labels that are decoded one by one;
- **two backends**, one of them a library nobody here controls, of which strict
  mode must not tell the difference;
- **vectors**, in which one element's failure must not disturb its neighbours;
- **repeated calls**: a form that came out is stored and comes back, under the
  same options or others, or after an upgrade of the package.

| Component | Source | State it keeps | Operations | What makes it correct |
|---|---|---|---|---|
| Punycode codec | `punycoder_algorithm.cpp` | encoder: `n, delta, bias, handled, out`; decoder: `n, i, bias, index, output` | `punycode_encode_label_fallback`, `punycode_decode_label_fallback`, `adapt` | no throw on a valid label; each direction inverts the other; one label has one encoding; nothing overflows |
| UTF-8 | `punycoder_utf8.cpp` | position, code points | decode, encode | accepts exactly what the encoder writes; only scalar values come out |
| Label backends | `punycoder_backend.cpp` | the buffer given to libidn2 | `default_`, `libidn2_`, `fallback_` `encode_label`/`decode_label` | which codec answered follows from what libidn2 returned and from nothing else; the buffer loop ends |
| Domain pipeline, service | `punycoder_domain.cpp`, `punycoder_service.cpp` | labels resolved so far | `encode_domain`, `decode_domain`, `validate_domain`, per label: classify, plan, transform | encode gives ASCII; the calls invert each other; strict mode only refuses; what validates can be used |
| Boundary | `exports.cpp` | output vector so far | `puny_encode_cpp`, `puny_decode_cpp`, `validate_domain_cpp`, `compare_backends_cpp`, `host_normalize_cpp` | an element-wise map, NA by NA; strict mode stops at the first failure; a version that is not shipped stops before the first element |
| NFC | `punycoder_nfc.cpp` | the text between three passes | quick check, decompose, canonical order (two sorts), compose | UAX #15: same decomposition, nothing left to compose, idempotent; never reaches across a full stop |
| Unicode tables | `unicode_tables_*.cpp/.h` | constants: two-stage tries, sorted ranges, pools of entries | `trie_lookup`, `range_lookup`, eight accessors | read inside their arrays; return what the data says, or their default |
| Host normalizer | `punycoder_normalize.cpp` | code points, labels resolved, A-labels so far, root dot | `host_normalize_one` | the answer is UTS #46's; flags decide whether, never into what; a form is accepted again |
| Version registry | `punycoder_unicode_version.*` | constants: the list of versions, the pin | lookup by name, dispatch | a name selects the tables of that name, never a fallback |
| R interface | `R/*.R` | memoized version info, per session | version resolution, profile token, argument checks | a token stored with an answer names no other answer |

A call goes R wrapper → `exports.cpp` → service or normalizer. The service goes
label by label: classify, then the backend, then the codec and UTF-8. The
normalizer calls UTF-8, the tables, NFC, and the in-tree codec directly, without
backends. Errors are exceptions of one class, caught at the boundary (codec) or
in the normalizer (which answers "invalid").

## The modules

| Module | Models | Notes |
|---|---|---|
| `Bootstring` | constants and arithmetic of the codec | `MaxU32`, `MaxU64` and the parameters of RFC 3492 are constants; every checked operation has its `...Fits` guard |
| `Encoder`, `Decoder` | the two directions, one action per loop iteration, every throw an outcome | `pc` names the loop control is in; `DecoderInput` has the decoder's parameters |
| `RoundTrip` | one direction and then the other on its result | composes `Encoder` (EXTENDS) and `Decoder` (INSTANCE) |
| `Trace` | *for proofs*: what each digit byte of an encoded label stands for | the state both directions are in at that byte |
| `InsertionOrder`, `Insertions` | *abstract*: in what order a label is written, and read | RFC 3492 §6.3 and §6.2 |
| `LabelBackend` | one call of a `LabelBackend`, libidn2 behind its buffer | libidn2 is external and held to nothing: any answer, a refusal, or more room |
| `Domain` | one call of the service, label by label | a label is a row of the table `About`: what the code reads off it; libidn2 is a function of the label, `Idn2Encode` and `Idn2Decode`, one for each of `Libraries` |
| `DomainCalls` | two calls in a row, the second on the same domain or on the answer | the caller is external |
| `Batch` | the four loops of `exports.cpp` behind its five vectorised entry points | `shipped`: whether the version asked for is in the registry |
| `VectorMap` | *abstract*: what a vectorised call promises | |
| `Utf8` | decoder and encoder | one sequence per step; the encoder's throw above U+10FFFF cannot be reached with what the decoder gives, and is in `LabelBackend`, where libidn2 gives more |
| `TableUnit` | one generated unit: tries, ranges, pools and the accessors that read them | the arrays are its parameters |
| `Unit16_0_0`, `Unit17_0_0` | the arrays of the two units, at the indices that matter | extracts with the file's own indices, offsets and values |
| `RangeSearch` | `range_lookup()`, one turn of its loop at a step | |
| `UnicodeTables` | the same accessors over tables as functions | what NFC and normalizer see of a unit |
| `Nfc`, `NfcText` | the passes as operators; a text that grows | |
| `Normalizer` | `Normalizer<T>::run`, one action per stage or per label, each way to return | the codec is the pair of tables `Encoded`/`Decoded` |
| `Uts46` | *abstract*: ToASCII of UTS #46 by its criteria, without an order of steps | the profile's four departures are a parameter, the standard is `{}`; Bidi rule and ContextJ written from RFC 5893 and RFC 5892 |
| `HostCalls` | two calls of the normalizer in a row | the caller is external |
| `Versions` | registry, `host_normalize_cpp`, the R resolution with its memo, the profile identity, over sessions and releases | the caller and the earlier releases are external |
| `EncoderProofs`, `RoundTripProofs`, `DomainProofs`, `Utf8Proofs`, `VersionsProofs`, `NfcProofs`, `HostProofs` | theorems and proofs about the module of that name (`HostProofs`: `Normalizer` and `HostCalls`) | see below |
| `LoopProofs` | theorems and proofs about `RangeSearch`, `LabelBackend` and `Batch` | |
| `MC*` | values for the model checker | |

How state and actions correspond to the code. A module's variables are the
locals of the function that live across a loop iteration; `pc`, `stage` or
`outcome` says where control is. An action is one iteration of a loop, or one
stage up to the next branch, with all its assignments. A `throw` or
`return invalid()` is an action or a branch of its own, with the error it
reports. Components are composed through tables: `Domain` takes what the codec
makes of a label from `About`, under the assumption `CodecAssumption`, which is
what `RoundTrip` checks; `Batch` takes what the service makes of an element from
`Outcome`; `Normalizer` takes the codec from `Encoded` and `Decoded`.
`Domain!Encode` and `Decode` are what `LabelBackend` shows: libidn2's answer if it has
one; else its refusal, or under the automatic backend the in-tree answer.

Of libidn2 nothing is assumed but `LibraryAssumption`: it is a function of its
input, and an encoded label is ASCII after the prefix the adapter puts before it. That
"both backends agree on every input" (NEWS, 1.3.0) is a statement about a library
outside the repository, so it is no assumption: three conditions on libidn2 are
named, and a property has those it needs, each of which it fails without.
`EncodesAlike`: where its encoder answers, it answers as the in-tree one.
`DecodesAlike`: so does its decoder where the in-tree one answers.
`InsertsNonAscii`: its decoder inserts no ASCII. Strict mode relies on libidn2's encoder
and on the last, because it encodes again what was decoded
(`punycoder_domain.cpp:109`); lenient mode gives what libidn2 gives.

Representations that carry meaning:

- *Departures* are where `host_normalize()` differs from UTS #46, each under the flags
  that show it: the root dot is kept under `verify_dns_length` (ADR-010); an A-label
  over the decoder's cap is refused without it; without `check_hyphens` a U-label may
  begin with `xn--`; without `use_std3` a payload with ASCII that is no letter, digit
  or hyphen is refused (both pinned in `test-idna-conformance.R`). `ImplementsUts46`
  says that these are all: under the full profile, the root dot alone.
- *Decoder* starts after the prefix `xn--`, so its positions are four less than
  the code's.
- *Domain* is a sequence of labels, the empty string being `<<Empty>>`, a
  trailing dot a last `Empty`: splitting and joining are then the identity.
- *Normalizer* works on code points, so that mapping to a dot, NFC next to a dot
  and prefixes made by mapping are all there.
- *Table units* keep of each array the elements that the code points of
  `Alphabet` (letters, digits and signs of ASCII, marks, Hangul, right-to-left
  and joining letters, mapped, ignored and unassigned code points) lead to. A read
  at any other index is an error of the model checker, so a lookup cannot stray
  unseen. `Starters` leaves out letters no text puts a mark after. Range arrays
  keep their first and last ranges and those that hold one of these code points.
- *NFC and normalizer tables* are the 17.0.0 unit seen through its accessors
  (`Unit!ClassOf`, `Unit!StatusOf`, ...), not tables written for the runs.
  `CompositeOf` has the pairs whose composite is in `Alphabet` too, so that the
  extract, like the unit, decomposes whatever it composes.
- *Releases* in `Versions` are what their sources fix: rows, pin, revision of the
  profile, whether an empty label is kept, and which payloads the in-tree decoder
  takes. `ThisBuild` is translated; the two before it (16.0.0 alone under `-v1`, any
  literals; both units under `-v2`, LDH literals only; empty labels refused by both)
  are taken from the normalization contract, section 3, and NEWS (1.3.0 has the
  stricter decoder, which `host_normalize()` meets with `use_std3 = FALSE`).

Definitions marked `Bug:` or set beside the one they vary (`StopsIfFirst`,
`PlaceUnstable`, `BidiDomainAsGiven`, ...) are deliberate faults. No action uses
them. Each is put in place of its neighbour to see that a property notices.

## What the runs show

| Run | Question | Result |
|---|---|---|
| `round_trip` | does the encoder stay in its types, throw nothing, write every position once and in order; can a payload smuggle in an ASCII code point, a surrogate or an overflow, does the decoder's test for "first" agree with the encoder's, does it insert in order; do both functions return; is each the inverse of the other? | yes, but for labels with non-LDH ASCII (refused, by design) and two spellings of one payload (case of digits, a delimiter after no literals) which strict mode refuses. All outcomes of the decoder occur |
| `label_backend` | whatever libidn2 does, is the in-tree codec used where it gives no answer and never in place of one; does the buffer loop end? | yes, but for running out of memory; yes |
| `domain_calls` | what does one call promise of another: inverses, stability, strict against lenient, backend against backend, validation against use, whatever libidn2 does or under the conditions named | holds, up to `kMaxLabelLength` for results of another length and refusals of libidn2 alone |
| `batch` | is a vectorised call the element-wise map? | yes: refinement of `VectorMap` |
| `utf8` | does the decoder accept exactly what the encoder writes, and refuse only what is ill-formed? | yes |
| `nfc_text` | is `nfc()` the normal form of UAX #15, is the quick check sound, may labels be normalized together? | yes; the last is what lets `validate_label` skip V1 |
| `range_search` | does the search end, with the range that holds the code point, at both ends of a table too? | yes, over small tables and the shipped ones |
| `normalizer` | is the answer that of UTS #46 but for the four departures; is there one form per host; do weaker flags only accept more; is a form accepted again? | yes; the last with STD3 rules and labels within the decoder's cap |
| `versions` | do the tables that were named answer; can a stored token name two answers, over releases, flags and versions; does the newer unit only accept more? | yes; no; yes within a build, and across builds with STD3 rules |
| `encoded_label_limit`, `encoded_domain_limit`, `relaxed_hyphens` | statements of the repository the code does not keep | violated, see [findings](#findings) |

`normalizer` is the refinement with most in it: `Uts46` states the validity
criteria declaratively (the Bidi rule as six conditions, ContextJ as the
existence of neighbours, the labels as what lies between stops, acceptance of all
labels at once) and `Normalizer` runs the code's stages, its early decoding,
its skipped checks and its order of refusals; the answers are equal. The criteria are
the standard's, those the code does not have included; where it differs is written
apart, as `Departures`, so that each is visible and none hides another. All 14,784
answers of single calls over an earlier, slightly larger set of hosts were also
compared with those of the compiled C++: they differ only where a limit is scaled.

## Bounds

| Run | Bound | Why it is enough |
|---|---|---|
| `round_trip` | labels of 1–3 code points of eight and one of twenty, payloads of 0–5 bytes of six and five more; `MaxU32` = 1,200,000, `MaxU64` = 2^30-1, cap of 24 bytes | all transitions of the loops need two non-ASCII and one ASCII code point; U+0080 and U+10FFFF are the ends, U+00FC and U+00FD neighbours; five bytes hold two integers. 2^30-1 holds the greatest delta of a label within the cap times the base (`CapAssumption`, which 2^64 and 1024 satisfy too), so a throw of the encoder, or an overflow of the decoder on its bytes, would be a fault, and is below what eight digits reach; the narrow `uint32_t` makes the overflow of `n` reachable in five. The five more payloads stand for a literal that is not LDH, a surrogate, the overflow and the cap; the label of twenty has a payload over the cap |
| `label_backend` | `size_t` of five bits, first buffers of 4 and 7, needs 3, 9 and 40, two outputs | fits at once, after growing, never; doubling wraps; libidn2 answers as the in-tree codec, otherwise, or where that refuses |
| `domain_calls` | 23 labels, seven libraries, domains of one and two labels and four longer ones, limits of 7, 12 and 11 bytes for a DNS label, a domain and the cap on a label (63, 253, 1024) | every check fails for a label and passes for another; two labels show the order of checks. A libidn2 that is missing, only encodes, only decodes, accepts more than the in-tree codec, decodes otherwise, inserts ASCII, or encodes otherwise: each condition is met by some and broken by others |
| `batch` | vectors of up to four of five elements | first, last, repeated and adjacent failures |
| `utf8` | three bytes of 20, four bytes of 9, pairs of encoded code points | every lead, every range edge, two sequences in a row |
| `nfc_text` | texts of up to four of 17 code points, `kShortRun` = 3 | both sorts run; marks of five classes, ties, blocking, exclusions, Hangul L V T and LV+T |
| `range_search` | all tables of up to four ranges over seven code points, asked at 0 to 7; the shipped range arrays at the edges of their ranges | four ranges need three halvings; empty and single tables, adjacent and distant ranges |
| `normalizer` | 56 labels, about 1,500 hosts of one and two labels, eight sets of flags, two calls; limits of 13, 22 and 15 octets for 63, 253 and the decoder's 1024 | every check fails alone; two labels show the whole-domain Bidi condition, the total length and the root dot |
| `versions` | eleven hosts, the full profile and one flag relaxed at a time, three version strings and NULL, three releases, two stored answers | a host newly assigned in 17.0.0 as a letter, a mark and a mapping, one empty label, an A-label that only the first release's decoder takes, one host per flag; a relation between answers needs two of them, a stale memo two sessions; a string neither release ships |

The limits are scaled, not their tests: a DNS label is the shortest, and two labels
can pass each limit for themselves and fail the one for the whole. In
`versions` they are the real ones. The tables hold the properties of the real
code points.

## Fairness

Three runs check that something ends. `RTSpec`, `LabelBackend!BackendSpec`
and `RangeSearch!SearchSpec` have weak fairness of the whole next-state relation: a function that was called runs
until it returns, as sequential code does. No fairness separates one branch from
another. In `LabelBackend`, libidn2 may ask for more room for ever; the loop ends
because the size stops growing. The search ends because every turn leaves a
shorter interval. All other properties are safety properties and
their specifications have no fairness.

## What is proved

Checked by TLAPS for every value of the constants under the named assumptions.

| Theorem | Says | Assumes |
|---|---|---|
| `EncoderProofs!TypeCorrect`, `EncoderNeverThrows`, `DeltaStaysBounded`, `EncoderCounts`, `EncoderWritesInOrder` | no 32- or 64-bit value overflows, the throws marked `# nocov` are unreachable, `delta` is bounded, `handled` counts; the encoder implements `InsertionOrder` | `BootstringAssumption`, `WidthAssumption`, and `InputAssumption`: `0x110001 * (length + 1)` fits 64 bits, true of any label in memory |
| `RoundTripProofs!EncoderTypeCorrect`, `NeitherDirectionThrows`, `BothWriteInOrder` | the same when the label is what the decoder has just read | these, `PayloadAssumption` (labels are bytes, their cap fits 64 bits), and `CapAssumption`: `36 * 0x110001 * cap` fits 64 bits |
| `RoundTripProofs!DecoderInRange` | no 32- or 64-bit value of the decoder wraps, nothing outside the label is read, whether a caller or the encoder wrote it; the output has only scalar values, and its basic code points are the literal bytes, in order | the same |
| `RoundTripProofs!FirstTimeCorrect`, `InsertionsCorrect` | `oldi == 0` holds for the first integer alone; the decoder implements `Insertions` | the same |
| `RoundTripProofs!DecodingGivesTheLabelBack` | decoding what the encoder wrote gives the label back, and is refused for two reasons only: a basic code point that is not LDH, or the cap on a payload | the same and `ScalarAssumption`: a caller's label has no surrogate, since it comes from the UTF-8 decoder |
| `LoopProofs!BackendsDecideAlone`, `BufferOnlyGrows` | the automatic backend gives libidn2's answer if there is one, after every other way out the in-tree one, or runs out of memory; libidn2 alone never has a refusal papered over; a retry of libidn2 always has a larger buffer | `SizeAssumption` (types); any `size_t`, any behaviour of libidn2 |
| `Utf8Proofs!TypeCorrect`, `Utf8RoundTrip`, `Utf8RefusesOnlyIllFormed` | the decoder stays in its input, gives scalar values, every byte sequence it accepts is what the encoder writes for the code point, and every error it throws is thrown where no well-formed sequence begins | inputs are sequences of bytes |
| `LoopProofs!BatchTypeCorrect`, `BatchMapsElements` | every vectorised loop is the element-wise map of `VectorMap`, or answers nothing where the version is not shipped | `BatchAssumption` (types) |
| `LoopProofs!StaysWithin`, `SearchFindsRange` | the search reads inside its table and finds the range that holds the code point | `TablesAssumption` of `RangeSearch` (ranges in order, as generated), `CodePointsAssumption` |
| `NfcProofs!OrderIsStableHolds`, `CompleteHolds`, `EquivalentHolds`, `QuickCheckSoundHolds`, `LabelsNormalizeApartHolds` | `nfc()` is the normal form of UAX #15 for texts of any length: the two sorts are one stable sort; nothing is left to compose; the canonical decomposition is kept; the quick check passes only what the three passes would give back, and they give back their own answer; labels may be normalized together | the table assumptions below, `ShortRunAssumption`, `CodePointsAssumption` (types); the run's bound on the length of a text does not matter |
| `HostProofs!HostTypeCorrect` | the answer is ASCII without capitals, under `use_std3` letters, digits, hyphens and dots, and within the limits where they are verified | `AsciiAssumption`, `TablesAssumption`, `MappingAssumption`, `CodecAssumption` |
| `HostProofs!RelaxingOnlyAcceptsHolds` | weaker flags accept whatever stronger ones do, root dot and empty labels included | the same |
| `HostProofs!OneFormHolds` | a host has one form, whatever flags accept it, and a form is its own | the same |
| `DomainProofs!CallsTypeCorrect`, `EncodedDomainsAreAscii`, `ReencodingMeetsNonAscii` | a finished call went through every label; encoded domains are ASCII, whatever libidn2 does, and in strict mode LDH if it `EncodesAlike`; the comment "only dispatched for non-ASCII labels" is true of re-encoding too if it `InsertsNonAscii` | `LabelAssumption`, `BytesAssumption`, `CodecAssumption` (what `RoundTrip` checks of the codec), `LibraryAssumption` |
| `DomainProofs!EncodedStaysEncoded`, `DecodingInvertsEncoding`, `EncodingInvertsDecoding`, `LenientAnswersAlike`, `ValidDomainsAreUsable` | the five relations between two calls of `domain_calls`, for every table of labels, every limit, every libidn2 and every pair of backends: the first call is strict, the second of either mode. Without a condition: encoding what was encoded changes nothing, lenient mode answers what strict mode does, valid domains are usable. Under `EncodesAlike` and `InsertsNonAscii`: `EncodingInvertsDecoding`, and that strict mode of libidn2 answers as the in-tree codec. Under all three: `DecodingInvertsEncoding`, and that the second encoding is not refused | these (`BytesAssumption`: what is read off a label is read off the same bytes) |
| `VersionsProofs!VersionsTypeCorrect`, `CallsAnsweredAsNamed`, `TokensNameOneAnswer` | the tables that were named answer; a stored identity never names two answers, over any sequence of calls, sessions and upgrades | `VersionsAssumption`, `RegistryAssumption` (a row names what its facade reports: the repository's wiring test), `RevisionAssumption` (releases with one revision of the profile have one pin, one decoder and treat empty labels alike: the contract's section 3 and NEWS) |

What the tables and the codec must keep for these is stated beside them:
`AsciiAssumption` (ASCII has no class, decomposes and composes with nothing before
it), `TablesAssumption` (the bounds `COMP_B_FIRST`, `COMP_B_LAST`, `NFC_FIRST` cover what
they guard; a second of a pair is in the quick check), `DecompositionsAssumption`
(decompositions are full, and those of a composite are its pair's),
`CompositesAssumption` (a composite is a starter, second of no pair, and takes no
mark of a class below its own mark's), `QuickCheckAssumption` (what it passes
decomposes only if it is a composite, whose first code point it passes too),
`HangulAssumption`, `JamoAssumption` and `StopAssumption` (no table has syllables or
jamo; vowel and trailing jamo are in the quick check; a full stop composes with
nothing), `MappingAssumption` (what is mapped has no capital left; ASCII but the
capitals maps to itself) and `CodecAssumption` (an A-label's other characters are
literals of its label). They are facts about generated data, so no proof can
give them: the model checker evaluates them on the extracts in `nfc_text` and
`normalizer`, and they were compared with the complete tables of both units.

The arguments:

- *Encoder.* `IInv` adds to the properties `Located` (where control is: `n` does
  not pass the last scalar value, the scan stands on a code point equal to `n`
  while digits are written) and `CountsHandled` (`handled` is the number of
  positions whose code point is below `n`, or equal and already passed). None is
  inductive alone: `delta` is bounded only because `handled + 1` is at most the
  length plus one, which needs the count, which needs to know that the scan
  visits each position once.
- *Both directions.* `RInv` is the encoder's `IInv`, the decoder's `DInv` and
  `Copied`, and says that the function whose turn has not come waits in its entry
  state. `DInv` has `Reading` (each code point of the output has cost a byte
  at least, so the output is shorter than the label and the unchecked `++i` after an
  insertion, which leaves `i` at most the output's length, stays in 64 bits) and
  `Inserting` (`i` leaves 0 with the first insertion; during an integer it only
  grows from `oldi`). Both theorems about order need the second: an insertion at
  the same `n` is not left of the one before because `i >= oldi`. `Reading` is
  also what the encoder needs after the decoder: the label it is given is
  shorter than the cap, so its delta has room. `Copied` says that the output is a
  prefix of the literals while they are copied; after that an insertion moves the
  basic code points without changing their number or their rank, because what is
  inserted is never basic.
- *Decoding inverts encoding.* The two functions pass through the same states, but
  the one knows the positions and the other the bytes. `Trace` joins them: a trace
  gives for each digit byte a record, with the positions done, the one that is coming, the
  decoder's `n`, `i` and `bias` before the integer, what is left of the integer and
  the digit's position. Records are linked by what the formats say (a byte continues
  the integer of the byte before, or starts the one of the next position), never by
  recursion; that `adapt()` returns a bias is the least relation closed under its loop
  (`AdaptsTo`), so the loop needs no induction either. `EncoderProofs` shows that
  the encoder leaves a trace (`LeavesTrace`): between two integers `delta` is what the
  decoder's `i` lacks of the `Goal` of the position the scan stands at (`Paused`), and
  during one it is the whole integer. `RoundTripProofs` shows that the decoder follows
  it (`Follows`): in the middle of an integer `i + q * w` is the `Goal`, for what is left of
  it `q` and the weight `w`; a quotient and a remainder are unique, so `Goal` gives
  back the code point and the place; and the label is cut at the encoder's
  delimiter, because no digit is one. That none of the decoder's errors is met on
  the way is part of it: a `Goal`, times the base, fits 64 bits.
- *Label backend.* libidn2 is called only when the in-tree codec has not been
  chosen and the label is neither plain nor ill-formed (`CalledRightly`), and until
  the call is done it has given no answer (`idn2 = {}`), so every throw of that half
  meets a preference that retries or reports.
- *UTF-8.* For each width, the value assembled by shifts is split again by
  division, byte by byte; the bounds on overlong forms and surrogates are what
  makes the widths disjoint. `Utf8RoundTrip` is a property of the one action
  that pushes a code point; `Utf8RefusesOnlyIllFormed` goes the other way: a
  well-formed sequence passes each test before the one that throws.
- *Batch.* `IInv` says that the output is a prefix of the promised vector and no
  element before it fails; each loop body then adds the promised cell.
- *Range search.* `RuledOut`: every range below `lo` ends before the code point,
  every range from `hi` on begins after it. When nothing is left and nothing was
  found, no range holds it; that a table is sorted makes the one found the only one.
- *Domain.* `IInv` says that each label kept while encoding is ASCII, and what
  the strict checks made of it; one lemma per branch. The relations between two
  calls need more, since the first is known only by what is remembered of it:
  `HInv` says of each remembered call that its domain passed the checks, that each
  label fitted, and that its result is the domain label by label (`Kept`), and
  of the running one that it has got exactly so far (`Progress`) and why it
  failed, if it did (`Failing`). Each relation is then one about a label.
- *NFC.* The passes are folds, which have no definition a prover can unfold. A
  fold is met through its table, the function that gives its value on every prefix
  (`Table`, `TableSteps`), and then by what it does to one more element
  (`DecomposeRuns`, `CanonicalOrderRuns`, `ComposeRuns`). Induction takes the shape of a
  least counterexample: the property is a set, and `Least` and `SeqInduction` speak of
  sets. The rest is five ideas. (1) `Put` puts one code point where it belongs, after
  the last that is not above it, and all three ways to sort a run are putting its marks one after
  the other (`InOrderIs`, `InsertionIs`, `CountingIs`): so is `canonical_order`. (2) `Good` is the
  invariant of `compose`: marks after the last starter are in order and at or below
  `last_cc`, and no pair of the output still composes; that replacing the starter
  makes no pair compose needs `CompositesAssumption`. (3) `Recovers`: what is out,
  decomposed and put in order, is what went in. The mark that composed is then
  put before lower ones instead of after them, which is the same (`PutSwaps`). (4) For the
  quick check, a starter it passes `Enters`: wherever it comes, its decomposition stays
  in place and is composed again, by induction over the chain of pairs that made it;
  a mark it passes `Slips` in: composing with it in the way gives what composing
  without it gives, and then the mark. (5) `Apart`: after a full stop `compose` goes on as
  from nothing.
- *Normalizer.* `HostInv` says, for each stage, what has been computed as a function of
  host and flags: `AtRoot`, `AtMap`, `AtNfc` the text so far; `AtResolve` the labels
  that have been cut off it, each with one of the ways it resolves (`Chain`); `AtFinalize` the
  forms of the first of them. `AtDone` says that the answer is the one relation `Answered`
  allows, and that a refusal means there is none. A type invariant alone is not
  inductive: that the answer has no capitals goes back to the mapping. `Answered`
  makes the relations between two calls statements about two sets of flags:
  `Remembered` keeps it for the call before. `OneForm` needs most: a form given back is
  ASCII, the mapping and `nfc()` leave it, cutting it at its dots gives the A-labels
  back, and an A-label decoded and encoded is itself or refused. `HostInv` quantifies
  over sequences, so no run can evaluate it; the properties it implies are checked.
- *Versions.* `IInv` says that the memo, once filled, is that of the installed
  build, and that each stored identity comes with the unit and the build
  that answered (`Kept`). Without the first a session that upgrades could store an
  answer under the old pin; without the second two equal tokens need not mean one
  unit. Equal tokens have equal base, flags and version, so by the assumptions on
  releases the same unit, the same decoder and the same treatment of empty labels.

Proving them corrected the model. `EncodeInvertsDecode` of `DomainCalls` was false
as stated: see the third limit below. `DecodeInvertsEncode` of `RoundTrip` was too: the
run's labels were too short to show that the decoder's cap refuses a long payload the
encoder has just written; it is named now, and a label of the run meets it. `BasicsAreLiterals` had named the literals by
`SelectSeq`, a recursive definition the provers cannot unfold; it counts
positions now.

Checked by the model checker only: liveness; `NewerOnlyGains`, a fact about the
tables of the two units; `EncodeInvertsDecode` of `RoundTrip`,
for which the decoder has to leave the trace and the encoder to follow it;
`ImplementsUts46`, whose criteria for a whole host would have to be met one by one
from the stages (Bidi, ContextJ, lengths); `OutputAccepted`, which needs that one
and the round trip of the codec; the lookups of the table units, which are facts
about data. `ENABLED` is out of the prover's reach.
`Answered` in `HostProofs` is the half of `ImplementsUts46` that says what the answer
is when there is one.

## Findings

1. `encoded_label_limit` (bug): `validate_encoded_label_length` subtracts the four
   bytes of `xn--` before comparing with 63, so `validate_domain()` accepts labels
   whose A-label has 64 to 67 octets.
2. `encoded_domain_limit` (bug): the 253 limit is applied to the UTF-8 given, so
   `validate_domain()` accepts domains far longer than 253 octets once encoded.
3. `relaxed_hyphens` (documentation): UTS #46 has a criterion for the case that
   hyphens are *not* checked, that a label must not begin with `xn--`. With
   `check_hyphens = FALSE` `validate_label()` drops the whole check, so `xn--xn---3ra`,
   whose U-label is `xn--ü`, is accepted, although it says "criteria V1-V6" and the
   manual calls the flags "standard UTS #46 parameters". The conformance test lists
   two such rows as an exception.

Three limits that are no findings. Lenient `puny_encode()` writes A-labels with ASCII
that is no letter, digit or hyphen, which `puny_decode()` has refused by design since
1.3.0: "is the inverse" (`R/punycoder.R:46`) holds from a strict call on, which is what
the relations of `DomainCalls` begin with. The normalizer has the same gap: with `use_std3 = FALSE`, `a_ü` becomes
`xn--a_-yka`, which the same call then refuses; `OutputAccepted` is stated with STD3
rules for that reason. With `verify_dns_length = FALSE` "over-long labels and
hosts convert", but an A-label over the decoder's 1024 octets, which another such
call may just have written, does not. `OutputAccepted` says where it stops.
And strict `puny_decode()` of `xn----eha` gives `-ü`, which strict `puny_encode()`
refuses for its leading hyphen (`punycoder_domain.cpp:63`): the check looks at the
label given, and the A-label does not begin with the hyphen it hides.
`EncodeInvertsDecode` names that outcome.

## Not modelled

- The **R interface of the codec**: type checks of arguments, transcoding, names,
  the predicates `is_punycode()` and `is_idn()` (two regular expressions),
  printing and summaries. Nothing there is kept or ordered. Of the normalizing
  half, the type checks and names are left out.
- **Error messages**: a table. **Glue** (`RcppExports`, `init.c`): generated.
- **Tables**: the elements no modelled code point leads to.
- **libidn2**: external, as above; in lenient mode the package answers what it answers. **Memory exhaustion** appears only where the
  code asks for an amount it did not choose (the libidn2 buffer).
- **Build, data generation, release tooling**: not part of the running program.

Every hazard listed in `PROJECT.json` has a property.

## Plan

Modules in the order of importance; those done are marked.

1. *(done)* `Bootstring`, `Encoder`, `Decoder`, `RoundTrip`; `EncoderProofs`.
2. *(done)* `LabelBackend`, `Domain`, `DomainCalls`; `DomainProofs`.
3. *(done)* `Batch` against `VectorMap`; `LoopProofs`, with those of 6 and 9.
4. *(done)* `Utf8`, `Utf8Proofs`, `UnicodeTables`, `Nfc`, `NfcText`.
5. *(done)* `Normalizer` against `Uts46`, `HostCalls`.
6. *(done)* `TableUnit` with the extracts of both units; `RangeSearch` and its
   proofs; `Versions`; `host_normalize_cpp` as the fifth entry of `Batch`.
7. *(done)* `RoundTripProofs`: types, `DecoderStaysInRange`, `FirstTimeIsFirst`, both
   orders and `DecodeInvertsEncode`, over `RTSpec`. Left: `EncodeInvertsDecode`. The same
   traces would serve: the decoder leaves one, with the digits' case and a
   leading delimiter put aside, and the encoder, which picks the next position by
   itself, is shown to pick the one of the record (`InsertsInOrder` says why).
8. *(done)* `HostProofs`: types, `RelaxingOnlyAccepts`, `OneForm`. Left: `OutputAccepted`,
   from the decoder's round trip as an assumption on `Encoded` and `Decoded`, and
   `ImplementsUts46`, criterion by criterion, from `Answered`.
9. *(done)* `LabelBackend` in `LoopProofs`.
10. *(done)* `NfcProofs`: the five properties of `NfcText`.
11. *(done)* `VersionsProofs`; the relations of `DomainCalls` in `DomainProofs`;
    `RefusesOnlyIllFormed` in `Utf8Proofs`.
