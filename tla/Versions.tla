------------------------------ MODULE Versions ------------------------------
(***************************************************************************)
(* Which Unicode tables answer a call, and what a caller may conclude from *)
(* the profile identity recorded with the answer.  A caller normalizes a   *)
(* host, asks for the identity under the same arguments, stores both, and  *)
(* goes on doing so as the package is upgraded.                            *)
(*                                                                         *)
(* A build is what its sources fix: the list of versions, the pin, the     *)
(* revision of the profile, and the two rules that NEWS.md says the        *)
(* earlier builds had otherwise: whether an empty label is kept under      *)
(* verify_dns_length = FALSE, and which payloads the decoder takes, "any"  *)
(* or, since 1.3.0, those whose literals are letters, digits and hyphens.  *)
(***************************************************************************)
EXTENDS Integers, Sequences, FiniteSets

CONSTANTS EarlierBuilds,   \* a sequence, oldest first
          Reported,        \* facade -> the version its table unit reports
          Answers,         \* <<decoder, facade, opts, host>> -> what Normalizer<facade>::run answers
          Hosts, Empties,  \* the hosts given, and those of them with an empty label
          Options,         \* the flags given
          Null, Strings,   \* the unicode_version arguments
          Invalid,         \* what an invalid host is answered
          MaxKeys          \* how many answers the caller stores

ASSUME VersionsAssumption ==
    /\ Empties \subseteq Hosts /\ Null \notin Strings /\ MaxKeys \in Nat
    /\ \A b \in DOMAIN EarlierBuilds : EarlierBuilds[b].pin \in DOMAIN EarlierBuilds[b].rows

\* Each table unit says which version it is of, no two the same, and the rows of
\* the earlier builds are told apart by what their facades say.
ASSUME RegistryAssumption ==
    /\ {"u16", "u17"} \subseteq DOMAIN Reported
    /\ Reported["u16"] = "16.0.0" /\ Reported["u17"] = "17.0.0"
    /\ \A f, g \in DOMAIN Reported : Reported[f] = Reported[g] => f = g
    /\ EarlierBuilds \in Seq({EarlierBuilds[b] : b \in DOMAIN EarlierBuilds})
    /\ \A b \in DOMAIN EarlierBuilds : \A v \in DOMAIN EarlierBuilds[b].rows :
          LET row == EarlierBuilds[b].rows[v]
          IN  row.facade \in DOMAIN Reported /\ Reported[row.facade] = row.str

\* The revisions of the profile so far: a revision has one pin, one rule for
\* empty labels and one decoder, and the third is not of an earlier build.
ASSUME RevisionAssumption ==
    /\ Options \subseteq [check_hyphens : BOOLEAN, use_std3 : BOOLEAN, verify_dns_length : BOOLEAN]
    /\ \A b \in DOMAIN EarlierBuilds : EarlierBuilds[b].base # "uts46-nontransitional-std3-v3"
    /\ \A b, c \in DOMAIN EarlierBuilds :
          EarlierBuilds[b].base = EarlierBuilds[c].base =>
             /\ EarlierBuilds[b].rows[EarlierBuilds[b].pin].str = EarlierBuilds[c].rows[EarlierBuilds[c].pin].str
             /\ EarlierBuilds[b].keeps_empty = EarlierBuilds[c].keeps_empty
             /\ EarlierBuilds[b].decoder = EarlierBuilds[c].decoder

VARIABLES installed,  \* the build of the session
          memo,       \* .unicode_version_cache$info, if filled
          call,       \* the arguments of the call that runs
          pc,
          resolved,   \* the version string the call goes on with
          got,        \* what it was answered
          keys        \* the identities stored, each with its host and answer

vars == <<installed, memo, call, pc, resolved, got, keys>>

-----------------------------------------------------------------------------
\* Bug: the facades of the two rows are crossed; it compiles.
RowsCrossed == [v16_0_0 |-> [str |-> "16.0.0", facade |-> "u17"],
                v17_0_0 |-> [str |-> "17.0.0", facade |-> "u16"]]
PUNYCODER_UNICODE_VERSIONS ==
    [v16_0_0 |-> [str |-> "16.0.0", facade |-> "u16"],
     v17_0_0 |-> [str |-> "17.0.0", facade |-> "u17"]]

kDefaultUnicodeVersion == "v17_0_0"

\* Bug: the accept/reject change goes out under the revision before it.
BaseNotBumped == "uts46-nontransitional-std3-v2"
Base == "uts46-nontransitional-std3-v3"

ThisBuild == [rows |-> PUNYCODER_UNICODE_VERSIONS, pin |-> kDefaultUnicodeVersion,
              base |-> Base, keeps_empty |-> TRUE, decoder |-> "ldh"]
Builds == Append(EarlierBuilds, ThisBuild)
Build == Builds[installed]
Rows == Build.rows

unicode_version_string(v) == Rows[v].str

unicode_version_from_string(s) == {v \in DOMAIN Rows : Rows[v].str = s}

\* Read through the facade, not from the list.
table_reported_version(v) == Reported[Rows[v].facade]

normalization_unicode_version_cpp == unicode_version_string(Build.pin)
unicode_versions_cpp == [version  |-> {unicode_version_string(v) : v \in DOMAIN Rows},
                         reported |-> {table_reported_version(v) : v \in DOMAIN Rows},
                         default  |-> normalization_unicode_version_cpp]

\* Normalizer<facade>::run of this build and the earlier ones, each with the
\* in-tree decoder it was built with.
Answered(facade, opts, h) ==
    IF h \in Empties /\ ~Build.keeps_empty THEN Invalid
    ELSE Answers[<<Build.decoder, facade, opts, h>>]
host_normalize_one(h, opts, v) == Answered(Rows[v].facade, opts, h)

\* The deviations from the profile, in their order; a version other than the pin is one.
normalization_profile_token(opts, version) ==
    <<Build.base>> \o (IF opts.check_hyphens THEN <<>> ELSE <<"no-check-hyphens">>)
                   \o (IF opts.use_std3 THEN <<>> ELSE <<"no-std3">>)
                   \o (IF opts.verify_dns_length THEN <<>> ELSE <<"no-verify-dns-length">>)
                   \o (IF version = normalization_unicode_version_cpp THEN <<>>
                       ELSE <<"unicode", version>>)

-----------------------------------------------------------------------------
Init ==
    /\ installed \in DOMAIN Builds /\ memo = {} /\ pc = "idle"
    /\ call = {} /\ resolved = {} /\ got = {} /\ keys = {}

\* host_normalize(), or host_normalize_cpp() from inside the package, which is
\* always given a string and resolves nothing.
Call(entry, h, opts, uv) ==
    /\ pc = "idle" /\ Cardinality(keys) < MaxKeys
    /\ call' = {[host |-> h, opts |-> opts, uv |-> uv]}
    /\ IF entry = "host_normalize" THEN pc' = "resolve" /\ resolved' = {}
                                   ELSE pc' = "normalize" /\ resolved' = {uv}
    /\ UNCHANGED <<installed, memo, got, keys>>

End == pc' = "idle" /\ call' = {} /\ resolved' = {} /\ got' = {}

\* .resolve_unicode_version: the memo is filled by the first call that reads it.
Info == IF memo = {} THEN unicode_versions_cpp ELSE CHOOSE info \in memo : TRUE
Resolve(uv) == IF uv = Null THEN {Info.default} ELSE Info.version \cap {uv}

ResolveVersion ==
    \E c \in call :
        /\ pc = "resolve" /\ memo' = {Info}
        /\ resolved' = Resolve(c.uv) /\ resolved' # {} /\ pc' = "normalize"
        /\ UNCHANGED <<installed, call, got, keys>>
StopUnsupported ==
    \E c \in call :
        /\ pc \in {"resolve", "describe"} /\ Resolve(c.uv) = {}
        /\ memo' = {Info} /\ End /\ UNCHANGED <<installed, keys>>

host_normalize_cpp ==
    \E c \in call, s \in resolved :
        /\ pc = "normalize" /\ pc' = "describe"
        /\ \E v \in unicode_version_from_string(s) : got' = {host_normalize_one(c.host, c.opts, v)}
        /\ UNCHANGED <<installed, memo, call, resolved, keys>>
StopBackstop ==
    \E s \in resolved :
        /\ pc = "normalize" /\ unicode_version_from_string(s) = {} /\ End
        /\ UNCHANGED <<installed, memo, keys>>

\* normalization_profile_info() with the arguments of the call: it resolves again.
normalization_profile_info ==
    \E c \in call, answer \in got :
        /\ pc = "describe" /\ memo' = {Info}
        /\ \E version \in Resolve(c.uv) :
            keys' = keys \cup {[profile |-> normalization_profile_token(c.opts, version),
                                unicode_version |-> version, opts |-> c.opts,
                                host |-> c.host, answer |-> answer, by |-> installed]}
        /\ End /\ UNCHANGED installed

\* A new session, of the same build or a newer one.
\* Bug: the memo is saved with the session and comes back.
MemoRestored == memo
MemoAtLoad == {}
NewSession ==
    /\ pc = "idle" /\ installed' \in {b \in DOMAIN Builds : b >= installed}
    /\ memo' = MemoAtLoad /\ UNCHANGED <<call, pc, resolved, got, keys>>

Next ==
    \/ \E h \in Hosts, opts \in Options, uv \in Strings \cup {Null} : Call("host_normalize", h, opts, uv)
    \/ \E h \in Hosts, opts \in Options, uv \in Strings : Call("host_normalize_cpp", h, opts, uv)
    \/ ResolveVersion \/ StopUnsupported \/ host_normalize_cpp \/ StopBackstop
    \/ normalization_profile_info \/ NewSession

Spec == Init /\ [][Next]_vars

-----------------------------------------------------------------------------
\* Types, and that the memo of helpers.R:173 is never that of another build.
TypeOK ==
    /\ installed \in DOMAIN Builds /\ pc \in {"idle", "resolve", "normalize", "describe"}
    /\ memo \subseteq {unicode_versions_cpp}
    /\ Cardinality(call) = (IF pc = "idle" THEN 0 ELSE 1)
    /\ Cardinality(got) = (IF pc = "describe" THEN 1 ELSE 0)
    /\ \A s \in resolved : s \in Strings \cup Info.version
    /\ Cardinality(keys) <= MaxKeys

\* A call is answered by the table unit that says of itself it is of the version
\* asked for, NULL being the pin, and by no other where that one is not shipped:
\* "silently falling back to the default would make a reproducibility key describe
\* a normalization that never happened" (exports.cpp:224).
AnsweredAsNamed ==
    \A c \in call, answer \in got :
        \E v \in DOMAIN Rows :
            /\ table_reported_version(v) = IF c.uv = Null THEN normalization_unicode_version_cpp ELSE c.uv
            /\ answer = Answered(Rows[v].facade, c.opts, c.host)

\* "two normalizations that genuinely differ would mint identical() tokens, which is
\* the one thing the token promises cannot happen" (normalize.R:138): of two answers
\* for one host stored under one token, by whatever builds, flags and versions, neither
\* is stale.
TokenNamesOneAnswer ==
    \A k, l \in keys : k.profile = l.profile /\ k.host = l.host => k.answer = l.answer

\* "a newer table set only ever accepts more, never differently"
\* (test-unicode-versions.R:150): what a build answers under 16.0.0 it answers alike
\* under 17.0.0, and with STD3 rules so does every later build. Without them the
\* decoder of 1.3.0 refuses A-labels the earlier one took.
NewerOnlyGains ==
    \A k, l \in keys :
        /\ k.host = l.host /\ k.opts = l.opts
        /\ k.by = l.by \/ (k.by < l.by /\ k.opts.use_std3)
        /\ k.unicode_version = "16.0.0" /\ l.unicode_version = "17.0.0"
        /\ k.answer # Invalid
        => l.answer = k.answer
=============================================================================
