---------------------------- MODULE VersionsProofs ----------------------------
(* Which tables answer a call and what the stored identity is good for, for   *)
(* any earlier builds, tables, hosts and flags, and any sequence of calls,    *)
(* sessions and upgrades.                                                     *)
EXTENDS Versions, SequenceTheorems, FiniteSetTheorems, TLAPS

PinOf(b) == Builds[b].rows[Builds[b].pin].str

InfoOf(b) == [version  |-> {Builds[b].rows[v].str : v \in DOMAIN Builds[b].rows},
              reported |-> {Reported[Builds[b].rows[v].facade] : v \in DOMAIN Builds[b].rows},
              default  |-> PinOf(b)]

AnsweredBy(b, facade, opts, h) ==
    IF h \in Empties /\ ~Builds[b].keeps_empty THEN Invalid
    ELSE Answers[<<Builds[b].decoder, facade, opts, h>>]

TokenOf(b, opts, version) ==
    <<Builds[b].base>> \o (IF opts.check_hyphens THEN <<>> ELSE <<"no-check-hyphens">>)
                       \o (IF opts.use_std3 THEN <<>> ELSE <<"no-std3">>)
                       \o (IF opts.verify_dns_length THEN <<>> ELSE <<"no-verify-dns-length">>)
                       \o (IF version = PinOf(b) THEN <<>> ELSE <<"unicode", version>>)

\* The definitions of Versions are those of the build that is installed.
LEMMA OfInstalled ==
    /\ unicode_versions_cpp = InfoOf(installed)
    /\ normalization_unicode_version_cpp = PinOf(installed)
    /\ \A f, o, h : Answered(f, o, h) = AnsweredBy(installed, f, o, h)
    /\ \A o, w : normalization_profile_token(o, w) = TokenOf(installed, o, w)
BY DEF unicode_versions_cpp, normalization_unicode_version_cpp, unicode_version_string, Rows, Build,
       table_reported_version, InfoOf, PinOf, Answered, AnsweredBy, normalization_profile_token, TokenOf

\* A build is this one or an earlier one.
LEMMA BuildOrigin ==
    ASSUME NEW b \in DOMAIN Builds
    PROVE  Builds[b] = ThisBuild \/ (b \in DOMAIN EarlierBuilds /\ Builds[b] = EarlierBuilds[b])
<1> DEFINE S == {EarlierBuilds[c] : c \in DOMAIN EarlierBuilds} \cup {ThisBuild}
<1>1. EarlierBuilds \in Seq(S) /\ ThisBuild \in S
  BY RegistryAssumption, SeqMonotonic
<1> HIDE DEF S
<1>2. /\ DOMAIN EarlierBuilds = 1..Len(EarlierBuilds) /\ Len(EarlierBuilds) \in Nat
      /\ DOMAIN Builds = 1..(Len(EarlierBuilds) + 1)
      /\ \A c \in 1..Len(EarlierBuilds) : Builds[c] = EarlierBuilds[c]
      /\ Builds[Len(EarlierBuilds) + 1] = ThisBuild
  BY <1>1, AppendProperties, LenProperties DEF Builds
<1> QED BY <1>2

\* What is known of a build: its pin is one of its rows, and a row names the
\* version its facade reports.
LEMMA BuildRows ==
    ASSUME NEW b \in DOMAIN Builds
    PROVE  /\ Builds[b].pin \in DOMAIN Builds[b].rows
           /\ \A v \in DOMAIN Builds[b].rows :
                 /\ Builds[b].rows[v].facade \in DOMAIN Reported
                 /\ Reported[Builds[b].rows[v].facade] = Builds[b].rows[v].str
<1>1. Builds[b] = ThisBuild \/ (b \in DOMAIN EarlierBuilds /\ Builds[b] = EarlierBuilds[b])
  BY BuildOrigin
<1>2. CASE Builds[b] = ThisBuild
  <2>1. ThisBuild.rows = PUNYCODER_UNICODE_VERSIONS /\ ThisBuild.pin = "v17_0_0"
    BY DEF ThisBuild, kDefaultUnicodeVersion
  <2>2. /\ DOMAIN PUNYCODER_UNICODE_VERSIONS = {"v16_0_0", "v17_0_0"}
        /\ PUNYCODER_UNICODE_VERSIONS["v16_0_0"] = [str |-> "16.0.0", facade |-> "u16"]
        /\ PUNYCODER_UNICODE_VERSIONS["v17_0_0"] = [str |-> "17.0.0", facade |-> "u17"]
    BY DEF PUNYCODER_UNICODE_VERSIONS
  <2> QED BY <1>2, <2>1, <2>2, RegistryAssumption
<1>3. CASE b \in DOMAIN EarlierBuilds /\ Builds[b] = EarlierBuilds[b]
  BY <1>3, RegistryAssumption, VersionsAssumption
<1> QED BY <1>1, <1>2, <1>3

\* What the caller asked for.
Asked(c) == IF c.uv = Null THEN PinOf(installed) ELSE c.uv

Given(c) == c.host \in Hosts /\ c.opts \in Options /\ c.uv \in Strings \cup {Null}

\* An identity stored says what was answered, by which table unit and under
\* which build.
Kept(k) ==
    /\ k.by \in DOMAIN Builds /\ k.opts \in Options /\ k.host \in Hosts
    /\ k.profile = TokenOf(k.by, k.opts, k.unicode_version)
    /\ \E v \in DOMAIN Builds[k.by].rows :
          /\ Builds[k.by].rows[v].str = k.unicode_version
          /\ k.answer = AnsweredBy(k.by, Builds[k.by].rows[v].facade, k.opts, k.host)

InCall ==
    /\ pc = "idle" => call = {} /\ resolved = {}
    /\ pc # "idle" => \E c \in call : call = {c}
    /\ \A c \in call : Given(c)
    /\ pc = "describe" => \E a \in got : got = {a}
    /\ pc # "describe" => got = {}
    /\ pc = "resolve" => resolved = {}
    /\ \A c \in call, s \in resolved : s = Asked(c)
    /\ \A s \in resolved : s \in Strings \cup InfoOf(installed).version

AnsweredRight ==
    \A c \in call, answer \in got :
        \E v \in DOMAIN Builds[installed].rows :
            /\ Builds[installed].rows[v].str = Asked(c)
            /\ answer = AnsweredBy(installed, Builds[installed].rows[v].facade, c.opts, c.host)

Stored ==
    /\ IsFiniteSet(keys) /\ Cardinality(keys) <= MaxKeys
    /\ pc # "idle" => Cardinality(keys) < MaxKeys
    /\ \A k \in keys : Kept(k)

IInv ==
    /\ installed \in DOMAIN Builds /\ pc \in {"idle", "resolve", "normalize", "describe"}
    /\ memo \subseteq {InfoOf(installed)}
    /\ InCall /\ AnsweredRight /\ Stored

\* The memo, filled or not, is that of the build.
LEMMA InfoIsCurrent ==
    ASSUME IInv
    PROVE  /\ Info = InfoOf(installed)
           /\ \A uv : Resolve(uv) = IF uv = Null THEN {PinOf(installed)} ELSE InfoOf(installed).version \cap {uv}
           /\ PinOf(installed) \in InfoOf(installed).version
<1>1. Info = InfoOf(installed)
  BY OfInstalled DEF IInv, Info
<1>2. InfoOf(installed).default = PinOf(installed)
  BY DEF InfoOf
<1>3. PinOf(installed) \in InfoOf(installed).version
  BY BuildRows DEF IInv, InfoOf, PinOf
<1> QED BY <1>1, <1>2, <1>3 DEF Resolve

LEMMA InitInv == Init => IInv
<1> SUFFICES ASSUME Init PROVE IInv
  OBVIOUS
<1>1. Stored
  BY FS_EmptySet, VersionsAssumption DEF Init, Stored
<1> QED BY <1>1 DEF Init, IInv, InCall, AnsweredRight

LEMMA EndInv ==
    ASSUME IInv, End, installed' = installed, keys' = keys, memo' \subseteq {InfoOf(installed)}
    PROVE  IInv'
BY DEF IInv, End, InCall, AnsweredRight, Stored

LEMMA StepInv == IInv /\ [Next]_vars => IInv'
<1> SUFFICES ASSUME IInv, [Next]_vars PROVE IInv'
  OBVIOUS
<1>0. {Info} \subseteq {InfoOf(installed)}
  BY InfoIsCurrent
<1>1. ASSUME NEW entry, NEW h \in Hosts, NEW opts \in Options, NEW uv \in Strings \cup {Null},
             entry = "host_normalize" \/ uv \in Strings, Call(entry, h, opts, uv)
      PROVE  IInv'
  <2> DEFINE c == [host |-> h, opts |-> opts, uv |-> uv]
  <2>1. /\ pc = "idle" /\ Cardinality(keys) < MaxKeys /\ call' = {c}
        /\ UNCHANGED <<installed, memo, got, keys>> /\ got = {}
        /\ \/ pc' = "resolve" /\ resolved' = {}
           \/ pc' = "normalize" /\ resolved' = {uv} /\ uv \in Strings
    BY <1>1 DEF Call, IInv, InCall
  <2>2. Given(c) /\ (uv # Null => c.uv = uv)
    BY <1>1 DEF Given
  <2>3. uv \in Strings => uv # Null
    BY VersionsAssumption
  <2> HIDE DEF c
  <2>4. InCall'
    BY <2>1, <2>2, <2>3 DEF InCall, Asked
  <2> QED BY <2>1, <2>4 DEF IInv, AnsweredRight, Stored
<1>2. CASE ResolveVersion
  <2>1. PICK c \in call : pc = "resolve" /\ memo' = {Info} /\ resolved' = Resolve(c.uv) /\ resolved' # {}
                          /\ pc' = "normalize" /\ UNCHANGED <<installed, call, got, keys>>
    BY <1>2 DEF ResolveVersion
  <2>2. call = {c} /\ Given(c) /\ got = {}
    BY <2>1 DEF IInv, InCall
  <2>3. \A s \in resolved' : s = Asked(c) /\ s \in InfoOf(installed).version
    BY <2>1, InfoIsCurrent DEF Asked
  <2>4. InCall'
    BY <2>1, <2>2, <2>3 DEF InCall, Asked
  <2> QED BY <1>0, <2>1, <2>2, <2>4 DEF IInv, AnsweredRight, Stored
<1>3. CASE StopUnsupported
  BY <1>0, <1>3, EndInv DEF StopUnsupported
<1>4. CASE host_normalize_cpp
  <2>0. PICK c \in call, s \in resolved :
          /\ pc = "normalize" /\ pc' = "describe"
          /\ \E v \in unicode_version_from_string(s) : got' = {host_normalize_one(c.host, c.opts, v)}
          /\ UNCHANGED <<installed, memo, call, resolved, keys>>
    BY <1>4 DEF host_normalize_cpp
  <2>1. PICK v \in unicode_version_from_string(s) :
          /\ pc = "normalize" /\ pc' = "describe" /\ got' = {host_normalize_one(c.host, c.opts, v)}
          /\ UNCHANGED <<installed, memo, call, resolved, keys>>
    BY <2>0
  <2>2. call = {c} /\ s = Asked(c)
    BY <2>1 DEF IInv, InCall
  <2>3. v \in DOMAIN Builds[installed].rows /\ Builds[installed].rows[v].str = s
    BY DEF unicode_version_from_string, Rows, Build
  <2>4. host_normalize_one(c.host, c.opts, v)
          = AnsweredBy(installed, Builds[installed].rows[v].facade, c.opts, c.host)
    BY OfInstalled DEF host_normalize_one, Rows, Build
  <2>5. InCall'
    BY <2>1 DEF IInv, InCall, Asked
  <2>6. AnsweredRight'
    BY <2>1, <2>2, <2>3, <2>4 DEF AnsweredRight, Asked
  <2> QED BY <2>1, <2>5, <2>6 DEF IInv, Stored
<1>5. CASE StopBackstop
  BY <1>5, EndInv DEF StopBackstop, IInv
<1>6. CASE normalization_profile_info
  <2>0. PICK c \in call, answer \in got :
          /\ pc = "describe" /\ memo' = {Info} /\ End /\ UNCHANGED installed
          /\ \E version \in Resolve(c.uv) :
                keys' = keys \cup {[profile |-> normalization_profile_token(c.opts, version),
                                    unicode_version |-> version, opts |-> c.opts,
                                    host |-> c.host, answer |-> answer, by |-> installed]}
    BY <1>6 DEF normalization_profile_info
  <2>1. PICK version \in Resolve(c.uv) :
          /\ pc = "describe" /\ memo' = {Info} /\ End /\ UNCHANGED installed
          /\ keys' = keys \cup {[profile |-> normalization_profile_token(c.opts, version),
                                 unicode_version |-> version, opts |-> c.opts,
                                 host |-> c.host, answer |-> answer, by |-> installed]}
    BY <2>0
  <2> DEFINE k == [profile |-> normalization_profile_token(c.opts, version),
                   unicode_version |-> version, opts |-> c.opts,
                   host |-> c.host, answer |-> answer, by |-> installed]
  <2>2. /\ k.by = installed /\ k.opts = c.opts /\ k.unicode_version = version /\ k.host = c.host
        /\ k.answer = answer /\ k.profile = TokenOf(installed, c.opts, version)
    BY OfInstalled
  <2> HIDE DEF k
  <2>3. version = Asked(c)
    BY InfoIsCurrent DEF Asked
  <2>4. Given(c) /\ installed \in DOMAIN Builds
    BY DEF IInv, InCall
  <2>5. Kept(k)
    BY <2>2, <2>3, <2>4 DEF Kept, Given, IInv, AnsweredRight
  <2>6. IsFiniteSet(keys) /\ Cardinality(keys) < MaxKeys /\ \A x \in keys : Kept(x)
    BY <2>1 DEF IInv, Stored
  <2>7. IsFiniteSet(keys') /\ Cardinality(keys') <= MaxKeys /\ \A x \in keys' : Kept(x)
    <3>1. keys' = keys \cup {k}
      BY <2>1 DEF k
    <3>2. Cardinality(keys) \in Nat /\ MaxKeys \in Nat
      BY <2>6, FS_CardinalityType, VersionsAssumption
    <3>3. /\ IsFiniteSet(keys')
          /\ Cardinality(keys') = IF k \in keys THEN Cardinality(keys) ELSE Cardinality(keys) + 1
      BY <2>6, <3>1, FS_AddElement, Zenon
    <3>4. Cardinality(keys') <= MaxKeys
      BY <2>6, <3>2, <3>3
    <3> QED BY <2>5, <2>6, <3>1, <3>3, <3>4
  <2>8. /\ pc' = "idle" /\ call' = {} /\ resolved' = {} /\ got' = {} /\ installed' = installed
        /\ memo' \subseteq {InfoOf(installed)}
    BY <1>0, <2>1 DEF End
  <2>9. InCall' /\ AnsweredRight'
    BY <2>8 DEF InCall, AnsweredRight
  <2>10. Stored'
    BY <2>7, <2>8 DEF Stored
  <2> QED BY <2>4, <2>8, <2>9, <2>10 DEF IInv
<1>7. CASE NewSession
  <2>1. pc = "idle" /\ installed' \in DOMAIN Builds /\ memo' = {} /\ UNCHANGED <<call, pc, resolved, got, keys>>
    BY <1>7 DEF NewSession, MemoAtLoad
  <2>2. call = {} /\ resolved = {} /\ got = {}
    BY <2>1 DEF IInv, InCall
  <2>3. InCall' /\ AnsweredRight'
    BY <2>1, <2>2 DEF InCall, AnsweredRight
  <2>4. Stored'
    BY <2>1 DEF IInv, Stored
  <2> QED BY <2>1, <2>3, <2>4 DEF IInv
<1>8. CASE UNCHANGED vars
  <2>1. InCall'
    BY <1>8 DEF vars, IInv, InCall, Asked
  <2>2. AnsweredRight'
    BY <1>8 DEF vars, IInv, AnsweredRight, Asked
  <2>3. Stored'
    BY <1>8 DEF vars, IInv, Stored
  <2> QED BY <1>8, <2>1, <2>2, <2>3 DEF vars, IInv
<1> QED BY <1>1, <1>2, <1>3, <1>4, <1>5, <1>6, <1>7, <1>8 DEF Next

LEMMA Invariance == Spec => []IInv
BY InitInv, StepInv, PTL DEF Spec

\* The variables keep their types, and the memo of helpers.R:173 is never that of
\* another build.
THEOREM VersionsTypeCorrect == Spec => []TypeOK
<1>1. IInv => TypeOK
  <2> SUFFICES ASSUME IInv PROVE TypeOK
    OBVIOUS
  <2>1. Cardinality(call) = IF pc = "idle" THEN 0 ELSE 1
    BY FS_EmptySet, FS_Singleton DEF IInv, InCall
  <2>2. Cardinality(got) = IF pc = "describe" THEN 1 ELSE 0
    BY FS_EmptySet, FS_Singleton DEF IInv, InCall
  <2>3. \A s \in resolved : s \in Strings \cup Info.version
    BY InfoIsCurrent DEF IInv, InCall
  <2> QED BY <2>1, <2>2, <2>3, OfInstalled DEF TypeOK, IInv, Stored
<1> QED BY <1>1, Invariance, PTL

\* Whatever the build and the session, a call is answered by the table unit that
\* reports the version asked for.
THEOREM CallsAnsweredAsNamed == Spec => []AnsweredAsNamed
<1>1. IInv => AnsweredAsNamed
  <2> SUFFICES ASSUME IInv, NEW c \in call, NEW answer \in got
               PROVE  \E v \in DOMAIN Rows :
                        /\ table_reported_version(v) = IF c.uv = Null THEN normalization_unicode_version_cpp ELSE c.uv
                        /\ answer = Answered(Rows[v].facade, c.opts, c.host)
    BY DEF AnsweredAsNamed
  <2>1. PICK v \in DOMAIN Builds[installed].rows :
            /\ Builds[installed].rows[v].str = Asked(c)
            /\ answer = AnsweredBy(installed, Builds[installed].rows[v].facade, c.opts, c.host)
    BY DEF IInv, AnsweredRight
  <2>2. Reported[Builds[installed].rows[v].facade] = Asked(c)
    BY <2>1, BuildRows DEF IInv
  <2> QED BY <2>1, <2>2, OfInstalled DEF table_reported_version, Rows, Build, Asked
<1> QED BY <1>1, Invariance, PTL

-----------------------------------------------------------------------------
\* A revision of the profile has one pin, one rule for empty labels and one decoder.
LEMMA OneRevision ==
    ASSUME NEW b \in DOMAIN Builds, NEW c \in DOMAIN Builds, Builds[b].base = Builds[c].base
    PROVE  /\ PinOf(b) = PinOf(c) /\ Builds[b].keeps_empty = Builds[c].keeps_empty
           /\ Builds[b].decoder = Builds[c].decoder
<1>1. ThisBuild.base = "uts46-nontransitional-std3-v3"
  BY DEF ThisBuild, Base
<1>2. ASSUME NEW x \in DOMAIN Builds
      PROVE  \/ Builds[x] = ThisBuild
             \/ /\ x \in DOMAIN EarlierBuilds /\ Builds[x] = EarlierBuilds[x]
                /\ Builds[x].base # "uts46-nontransitional-std3-v3"
  BY BuildOrigin, RevisionAssumption
<1>3. CASE Builds[b] = ThisBuild
  <2>1. Builds[c] = ThisBuild
    BY <1>1, <1>2, <1>3
  <2> QED BY <1>3, <2>1 DEF PinOf
<1>4. CASE Builds[b] # ThisBuild
  <2>1. /\ b \in DOMAIN EarlierBuilds /\ Builds[b] = EarlierBuilds[b]
        /\ c \in DOMAIN EarlierBuilds /\ Builds[c] = EarlierBuilds[c]
    BY <1>1, <1>2, <1>4
  <2> QED BY <2>1, RevisionAssumption DEF PinOf
<1> QED BY <1>3, <1>4

LEMMA Tagged ==
    ASSUME NEW S, NEW s \in Seq(S), NEW ok \in BOOLEAN, NEW x \in S
    PROVE  LET t == s \o (IF ok THEN <<>> ELSE <<x>>)
           IN  /\ t \in Seq(S) /\ Len(t) = Len(s) + (IF ok THEN 0 ELSE 1)
               /\ \A i \in 1..Len(s) : t[i] = s[i]
               /\ ~ok => t[Len(s) + 1] = x
<1> DEFINE tag == IF ok THEN <<>> ELSE <<x>>
<1>1. tag \in Seq(S) /\ Len(tag) = (IF ok THEN 0 ELSE 1) /\ (~ok => tag[1] = x)
  OBVIOUS
<1> HIDE DEF tag
<1>2. Len(s) \in Nat /\ Len(tag) \in Nat
  BY <1>1
<1>3. /\ s \o tag \in Seq(S) /\ Len(s \o tag) = Len(s) + Len(tag)
      /\ \A i \in 1..(Len(s) + Len(tag)) : (s \o tag)[i] = IF i <= Len(s) THEN s[i] ELSE tag[i - Len(s)]
  BY <1>1, ConcatProperties
<1>4. \A i \in 1..Len(s) : (s \o tag)[i] = s[i]
  BY <1>2, <1>3
<1>5. ~ok => (s \o tag)[Len(s) + 1] = x
  BY <1>1, <1>2, <1>3
<1> QED BY <1>1, <1>3, <1>4, <1>5 DEF tag

LEMMA FirstTagged ==
    ASSUME NEW S, NEW base \in S, NEW ok \in BOOLEAN, NEW x \in S
    PROVE  LET t == <<base>> \o (IF ok THEN <<>> ELSE <<x>>)
           IN  /\ t \in Seq(S) /\ Len(t) = 1 + (IF ok THEN 0 ELSE 1)
               /\ t[1] = base /\ (~ok => t[2] = x)
<1>1. /\ <<base>> \in Seq(S) /\ Len(<<base>>) = 1 /\ <<base>>[1] = base
      /\ <<x>> \in Seq(S) /\ Len(<<x>>) = 1 /\ <<x>>[1] = x
  OBVIOUS
<1>2. CASE ok
  <2>1. <<base>> \o <<>> = <<base>>
    BY <1>1, ConcatEmptySeq
  <2> QED BY <1>1, <1>2, <2>1
<1>3. CASE ~ok
  <2>1. /\ <<base>> \o <<x>> \in Seq(S) /\ Len(<<base>> \o <<x>>) = 2
        /\ (<<base>> \o <<x>>)[1] = base /\ (<<base>> \o <<x>>)[2] = x
    BY <1>1
  <2> QED BY <1>3, <2>1
<1> QED BY <1>2, <1>3

Flags == [check_hyphens : BOOLEAN, use_std3 : BOOLEAN, verify_dns_length : BOOLEAN]

\* How many elements of a token come before each tag.
First(o)  == 1 + IF o.check_hyphens THEN 0 ELSE 1
Second(o) == First(o) + IF o.use_std3 THEN 0 ELSE 1
Third(o)  == Second(o) + IF o.verify_dns_length THEN 0 ELSE 1

\* A token is read from its first element on: each tag is where it must be or
\* another is.
Reads(T, b, o, w) ==
    /\ T[1] = Builds[b].base
    /\ ~o.check_hyphens <=> Len(T) > 1 /\ T[2] = "no-check-hyphens"
    /\ ~o.use_std3 <=> Len(T) > First(o) /\ T[First(o) + 1] = "no-std3"
    /\ ~o.verify_dns_length <=> Len(T) > Second(o) /\ T[Second(o) + 1] = "no-verify-dns-length"
    /\ w # PinOf(b) <=> Len(T) > Third(o)
    /\ w # PinOf(b) => T[Third(o) + 2] = w

LEMMA TokenReads ==
    ASSUME NEW b, NEW o \in Flags, NEW w
    PROVE  Reads(TokenOf(b, o, w), b, o, w)
<1> DEFINE S == {Builds[b].base, w, "unicode", "no-check-hyphens", "no-std3", "no-verify-dns-length"}
           t0 == <<Builds[b].base>>
           t1 == t0 \o (IF o.check_hyphens THEN <<>> ELSE <<"no-check-hyphens">>)
           t2 == t1 \o (IF o.use_std3 THEN <<>> ELSE <<"no-std3">>)
           t3 == t2 \o (IF o.verify_dns_length THEN <<>> ELSE <<"no-verify-dns-length">>)
           last == IF w = PinOf(b) THEN <<>> ELSE <<"unicode", w>>
           t4 == t3 \o last
<1>0. o.check_hyphens \in BOOLEAN /\ o.use_std3 \in BOOLEAN /\ o.verify_dns_length \in BOOLEAN
  BY DEF Flags
<1>2. /\ "unicode" \in S /\ "no-check-hyphens" \in S /\ "no-std3" \in S /\ "no-verify-dns-length" \in S
      /\ w \in S /\ Builds[b].base \in S
  OBVIOUS
<1>3. /\ last \in Seq(S) /\ Len(last) = (IF w = PinOf(b) THEN 0 ELSE 2)
      /\ w # PinOf(b) => last[1] = "unicode" /\ last[2] = w
  <2>1. CASE w = PinOf(b)
    BY <2>1, EmptySeq
  <2>2. CASE w # PinOf(b)
    <3> HIDE DEF S
    <3> QED BY <1>2, <2>2
  <2> QED BY <2>1, <2>2
<1> HIDE DEF S, last, t0
<1>4. /\ t1 \in Seq(S) /\ Len(t1) = First(o) /\ t1[1] = Builds[b].base
      /\ ~o.check_hyphens => t1[2] = "no-check-hyphens"
  BY <1>0, <1>2, FirstTagged DEF First, t0
<1> HIDE DEF t1
<1>5. /\ t2 \in Seq(S) /\ Len(t2) = Second(o) /\ \A i \in 1..First(o) : t2[i] = t1[i]
      /\ ~o.use_std3 => t2[First(o) + 1] = "no-std3"
  BY <1>0, <1>2, <1>4, Tagged DEF Second
<1> HIDE DEF t2
<1>6. /\ t3 \in Seq(S) /\ Len(t3) = Third(o) /\ \A i \in 1..Second(o) : t3[i] = t2[i]
      /\ ~o.verify_dns_length => t3[Second(o) + 1] = "no-verify-dns-length"
  BY <1>0, <1>2, <1>5, Tagged DEF Third
<1> HIDE DEF t3
<1>7. /\ First(o) \in 1..2 /\ Second(o) \in 1..3 /\ Third(o) \in 1..4
      /\ Second(o) = First(o) + (IF o.use_std3 THEN 0 ELSE 1)
      /\ Third(o) = Second(o) + (IF o.verify_dns_length THEN 0 ELSE 1)
      /\ First(o) = IF o.check_hyphens THEN 1 ELSE 2
  BY <1>0 DEF First, Second, Third
<1>8. /\ Len(t4) = Third(o) + (IF w = PinOf(b) THEN 0 ELSE 2)
      /\ \A i \in 1..Third(o) : t4[i] = t3[i]
      /\ w # PinOf(b) => t4[Third(o) + 1] = "unicode" /\ t4[Third(o) + 2] = w
  <2>1. /\ Len(t4) = Len(t3) + Len(last)
        /\ \A i \in 1..(Len(t3) + Len(last)) : t4[i] = IF i <= Len(t3) THEN t3[i] ELSE last[i - Len(t3)]
    BY <1>3, <1>6, ConcatProperties
  <2>2. \A i \in 1..Third(o) : t4[i] = t3[i]
    BY <1>3, <1>6, <1>7, <2>1
  <2>3. w # PinOf(b) => t4[Third(o) + 1] = last[1] /\ t4[Third(o) + 2] = last[2]
    BY <1>3, <1>6, <1>7, <2>1
  <2> QED BY <1>3, <1>6, <2>1, <2>2, <2>3
<1>9. TokenOf(b, o, w) = t4
  BY DEF TokenOf, t0, t1, t2, t3, last
<1> HIDE DEF t4
<1>10. t4[1] = Builds[b].base /\ (~o.check_hyphens => t4[2] = "no-check-hyphens")
       /\ (~o.use_std3 => t4[First(o) + 1] = "no-std3")
       /\ (~o.verify_dns_length => t4[Second(o) + 1] = "no-verify-dns-length")
  BY <1>4, <1>5, <1>6, <1>7, <1>8
<1>11. ~o.check_hyphens <=> Len(t4) > 1 /\ t4[2] = "no-check-hyphens"
  BY <1>0, <1>7, <1>8, <1>10
<1>12. ~o.use_std3 <=> Len(t4) > First(o) /\ t4[First(o) + 1] = "no-std3"
  BY <1>0, <1>7, <1>8, <1>10
<1>13. ~o.verify_dns_length <=> Len(t4) > Second(o) /\ t4[Second(o) + 1] = "no-verify-dns-length"
  BY <1>0, <1>7, <1>8, <1>10
<1> QED BY <1>7, <1>8, <1>9, <1>10, <1>11, <1>12, <1>13 DEF Reads

LEMMA TokenInjective ==
    ASSUME NEW b \in DOMAIN Builds, NEW c \in DOMAIN Builds, NEW o \in Flags, NEW p \in Flags,
           NEW w, NEW x, TokenOf(b, o, w) = TokenOf(c, p, x)
    PROVE  Builds[b].base = Builds[c].base /\ o = p /\ w = x
<1> DEFINE T == TokenOf(b, o, w)
<1>1. Reads(T, b, o, w)
  BY TokenReads
<1>2. Reads(T, c, p, x)
  BY TokenReads
<1> HIDE DEF T
<1>3. Builds[b].base = Builds[c].base /\ PinOf(b) = PinOf(c)
  BY <1>1, <1>2, OneRevision DEF Reads
<1>4. (o.check_hyphens <=> p.check_hyphens) /\ First(o) = First(p)
  BY <1>1, <1>2 DEF Reads, First
<1>5. (o.use_std3 <=> p.use_std3) /\ Second(o) = Second(p)
  BY <1>1, <1>2, <1>4 DEF Reads, Second
<1>6. (o.verify_dns_length <=> p.verify_dns_length) /\ Third(o) = Third(p)
  BY <1>1, <1>2, <1>5 DEF Reads, Third
<1>7. w = x
  BY <1>1, <1>2, <1>3, <1>6 DEF Reads
<1>8. o = p
  BY <1>4, <1>5, <1>6 DEF Flags
<1> QED BY <1>3, <1>7, <1>8

\* Two rows that name one version have one facade.
LEMMA OneFacade ==
    ASSUME NEW b \in DOMAIN Builds, NEW c \in DOMAIN Builds,
           NEW v \in DOMAIN Builds[b].rows, NEW w \in DOMAIN Builds[c].rows,
           Builds[b].rows[v].str = Builds[c].rows[w].str
    PROVE  Builds[b].rows[v].facade = Builds[c].rows[w].facade
BY BuildRows, RegistryAssumption

\* Of two answers for one host stored under one token, by whatever builds, flags
\* and versions, neither is stale.
THEOREM TokensNameOneAnswer == Spec => []TokenNamesOneAnswer
<1>1. ASSUME IInv, NEW k \in keys, NEW l \in keys, k.profile = l.profile, k.host = l.host
      PROVE  k.answer = l.answer
  <2>1. Kept(k) /\ Kept(l)
    BY <1>1 DEF IInv, Stored
  <2>2. k.by \in DOMAIN Builds /\ l.by \in DOMAIN Builds /\ k.opts \in Flags /\ l.opts \in Flags
    BY <2>1, RevisionAssumption DEF Kept, Flags
  <2>3. /\ Builds[k.by].base = Builds[l.by].base /\ k.opts = l.opts
        /\ k.unicode_version = l.unicode_version
    <3>1. TokenOf(k.by, k.opts, k.unicode_version) = TokenOf(l.by, l.opts, l.unicode_version)
      BY <1>1, <2>1 DEF Kept
    <3> QED BY <2>2, <3>1, TokenInjective
  <2>4. Builds[k.by].keeps_empty = Builds[l.by].keeps_empty /\ Builds[k.by].decoder = Builds[l.by].decoder
    BY <2>2, <2>3, OneRevision
  <2>5. PICK v \in DOMAIN Builds[k.by].rows :
            /\ Builds[k.by].rows[v].str = k.unicode_version
            /\ k.answer = AnsweredBy(k.by, Builds[k.by].rows[v].facade, k.opts, k.host)
    BY <2>1 DEF Kept
  <2>6. PICK w \in DOMAIN Builds[l.by].rows :
            /\ Builds[l.by].rows[w].str = l.unicode_version
            /\ l.answer = AnsweredBy(l.by, Builds[l.by].rows[w].facade, l.opts, l.host)
    BY <2>1 DEF Kept
  <2>7. Builds[k.by].rows[v].facade = Builds[l.by].rows[w].facade
    BY <2>2, <2>3, <2>5, <2>6, OneFacade
  <2> QED BY <1>1, <2>3, <2>4, <2>5, <2>6, <2>7 DEF AnsweredBy
<1>2. IInv => TokenNamesOneAnswer
  BY <1>1 DEF TokenNamesOneAnswer
<1> QED BY <1>2, Invariance, PTL
===============================================================================
