----------------------------- MODULE Unit17_0_0 -----------------------------
(***************************************************************************)
(* The table unit of Unicode 17.0.0 (namespace u17): an extract of its     *)
(* generated arrays, each at the indices that the code points of Alphabet  *)
(* lead to, with the indices, blocks, offsets and values of the file.      *)
(* Range arrays keep their first and last ranges and those that hold a     *)
(* code point of Alphabet.                                                 *)
(***************************************************************************)
EXTENDS Integers, Sequences, TLC

UNICODE_VERSION == "17.0.0"
NFC_FIRST == 768  \* the bound of nfc_inert()

\* What the models ask about: ASCII letters, digits and a few signs, then marks, Hangul,
\* right-to-left and joining letters, mapped, ignored and unassigned code points.
Alphabet ==
    48 .. 57 \cup 65 .. 90 \cup 97 .. 122 \cup {33, 45, 46, 61, 95, 128, 173, 220, 223, 228, 252,
      257, 479, 772, 776, 790, 803, 820, 824, 1456, 1488, 1575, 1576, 1611, 1632, 2191, 2325,
      2364, 2381, 2392, 2494, 2503, 2507, 4352, 4449, 4519, 4520, 6863, 7841, 8204, 8205, 8800,
      12290, 13199, 42958, 42959, 42993, 44032, 44033, 65368}
\* The other letters have runs of their own in COMP_DATA; no model puts a mark after one.
Starters == Alphabet \ (65 .. 84 \cup 86 .. 90 \cup 98 .. 116 \cup 118 .. 122)

\* Canonical combining class
CCC_TRIE1 ==
    24 :> 1 @@ 25 :> 2 @@ 45 :> 7 @@ 46 :> 8 @@
      [i \in {49, 72, 136, 139, 141, 245, 256, 275, 384, 412, 1342, 1343, 1376, 2042} |-> 0] @@
      50 :> 10 @@ 51 :> 11 @@ 68 :> 21 @@ [i \in {73, 77} |-> 24] @@ 74 :> 25 @@ 78 :> 26 @@
      214 :> 51
CCC_TRIE2 ==
    [i \in 0 .. 2 \cup 12 .. 15 \cup {7, 8, 17, 21, 24, 272, 352, 687, 798, 824, 839,
      843} |-> 0] @@ [i \in {36, 40, 1647} |-> 230] @@ [i \in {54, 67} |-> 220] @@
      [i \in {84, 88} |-> 1] @@ 240 :> 10 @@ 331 :> 27 @@ 796 :> 7 @@ 813 :> 9
CCC_TRIE_SHIFT == 5
CCC_TRIE_FIRST == 768
CCC_TRIE_LAST == 125279

\* General category Mn, Mc or Me
MARK_RANGES ==
    <<<<768, 879>>, <<1425, 1469>>, <<1611, 1631>>, <<2362, 2364>>, <<2366, 2383>>,
      <<2494, 2500>>, <<2503, 2504>>, <<2507, 2509>>, <<6832, 6877>>, <<917760, 917999>>>>
MARK_FIRST == 768
MARK_LAST == 917999

\* Full canonical decomposition
DECOMP_INDEX ==
    24 :> <<48, 2>> @@ 30 :> <<60, 2>> @@ 50 :> <<100, 2>> @@ 54 :> <<108, 2>> @@
      182 :> <<373, 3>> @@ 345 :> <<708, 2>> @@ 353 :> <<724, 2>> @@ 571 :> <<1194, 2>> @@
      909 :> <<2095, 2>>
DECOMP_DATA ==
    48 :> 85 @@ [i \in {49, 61, 101, 374} |-> 776] @@ [i \in {60, 108, 373, 1194} |-> 97] @@
      100 :> 117 @@ [i \in {109, 375} |-> 772] @@ 708 :> 2325 @@ 709 :> 2364 @@ 724 :> 2503 @@
      725 :> 2494 @@ 1195 :> 803 @@ 2095 :> 61 @@ 2096 :> 824
DECOMP_TRIE1 ==
    3 :> 1 @@ 4 :> 2 @@ 7 :> 5 @@
      [i \in 68 .. 70 \cup {12, 22, 23, 25, 34, 38, 107, 192, 206, 671, 688, 1021} |-> 0] @@
      24 :> 13 @@ 36 :> 15 @@ 37 :> 16 @@ 39 :> 17 @@ 122 :> 34 @@ 128 :> 40 @@ 137 :> 45
DECOMP_TRIE2 ==
    [i \in 0 .. 2 \cup 14 .. 16 \cup {4, 8, 11, 22, 24, 32, 33, 35, 39, 40, 48, 49, 52, 56, 62,
      95, 871, 872, 981, 1020, 1037, 1095, 2572, 2573} |-> 0] @@ 92 :> 25 @@ 100 :> 31 @@
      124 :> 51 @@ 129 :> 55 @@ 351 :> 183 @@ 1048 :> 346 @@ 1099 :> 354 @@ 2209 :> 572 @@
      2912 :> 910
DECOMP_TRIE_SHIFT == 6
DECOMP_TRIE_FIRST == 192
DECOMP_TRIE_LAST == 195135

\* Primary canonical composition
COMP_INDEX ==
    1 :> <<1, 1>> @@ 22 :> <<144, 19>> @@ 28 :> <<188, 16>> @@ 47 :> <<331, 19>> @@
      65 :> <<403, 4>> @@ 67 :> <<411, 1>> @@ 77 :> <<430, 4>> @@ 161 :> <<637, 3>> @@
      170 :> <<648, 2>> @@ 202 :> <<690, 2>>
COMP_DATA ==
    1 :> <<824, 8800>> @@ 144 :> <<768, 217>> @@ 145 :> <<769, 218>> @@ 146 :> <<770, 219>> @@
      147 :> <<771, 360>> @@ 148 :> <<772, 362>> @@ 149 :> <<774, 364>> @@ 150 :> <<776, 220>> @@
      151 :> <<777, 7910>> @@ 152 :> <<778, 366>> @@ 153 :> <<779, 368>> @@ 154 :> <<780, 467>> @@
      155 :> <<783, 532>> @@ 156 :> <<785, 534>> @@ 157 :> <<795, 431>> @@ 158 :> <<803, 7908>> @@
      159 :> <<804, 7794>> @@ 160 :> <<808, 370>> @@ 161 :> <<813, 7798>> @@
      162 :> <<816, 7796>> @@ 188 :> <<768, 224>> @@ 189 :> <<769, 225>> @@ 190 :> <<770, 226>> @@
      191 :> <<771, 227>> @@ 192 :> <<772, 257>> @@ 193 :> <<774, 259>> @@ 194 :> <<775, 551>> @@
      195 :> <<776, 228>> @@ 196 :> <<777, 7843>> @@ 197 :> <<778, 229>> @@ 198 :> <<780, 462>> @@
      199 :> <<783, 513>> @@ 200 :> <<785, 515>> @@ 201 :> <<803, 7841>> @@
      202 :> <<805, 7681>> @@ 203 :> <<808, 261>> @@ 331 :> <<768, 249>> @@ 332 :> <<769, 250>> @@
      333 :> <<770, 251>> @@ 334 :> <<771, 361>> @@ 335 :> <<772, 363>> @@ 336 :> <<774, 365>> @@
      337 :> <<776, 252>> @@ 338 :> <<777, 7911>> @@ 339 :> <<778, 367>> @@ 340 :> <<779, 369>> @@
      341 :> <<780, 468>> @@ 342 :> <<783, 533>> @@ 343 :> <<785, 535>> @@ 344 :> <<795, 432>> @@
      345 :> <<803, 7909>> @@ 346 :> <<804, 7795>> @@ 347 :> <<808, 371>> @@
      348 :> <<813, 7799>> @@ 349 :> <<816, 7797>> @@ 403 :> <<768, 475>> @@
      404 :> <<769, 471>> @@ 405 :> <<772, 469>> @@ 406 :> <<780, 473>> @@ 411 :> <<772, 479>> @@
      430 :> <<768, 476>> @@ 431 :> <<769, 472>> @@ 432 :> <<772, 470>> @@ 433 :> <<780, 474>> @@
      637 :> <<1619, 1570>> @@ 638 :> <<1620, 1571>> @@ 639 :> <<1621, 1573>> @@
      648 :> <<2494, 2507>> @@ 649 :> <<2519, 2508>> @@ 690 :> <<770, 7853>> @@
      691 :> <<774, 7863>>
COMP_TRIE1 ==
    [i \in 5 .. 8 |-> i - 1] @@ 1 :> 1 @@ 2 :> 2 @@ 3 :> 3 @@ [i \in {4, 14, 24, 25, 45, 46, 51,
      68, 72, 74, 77, 136, 139, 141, 214, 256, 384, 412, 1342, 1343, 1376, 2042} |-> 0] @@
      49 :> 23 @@ 50 :> 24 @@ 73 :> 26 @@ 78 :> 27 @@ 245 :> 43 @@ 275 :> 57
COMP_TRIE2 ==
    [i \in 0 .. 4 \cup 12 .. 17 \cup 20 .. 22 \cup {7, 8, 24, 30, 31, 95, 141, 191, 225, 744, 779,
      860, 875, 1824} |-> 0] @@ 61 :> 2 @@ 85 :> 23 @@ 97 :> 29 @@ 117 :> 48 @@ 188 :> 66 @@
      196 :> 68 @@ 220 :> 78 @@ 743 :> 162 @@ 871 :> 171 @@ 1377 :> 203
COMP_TRIE_SHIFT == 5
COMP_TRIE_FIRST == 60
COMP_TRIE_LAST == 93567
COMP_B_FIRST == 768
COMP_B_LAST == 93543

\* UTS-46 status and mapping
IDNA_VALUES ==
    0 :> <<0, 0, 0>> @@ 1 :> <<0, 2, 1>> @@ 2 :> <<1, 2, 1>> @@ 3 :> <<2, 2, 1>> @@
      4 :> <<3, 2, 1>> @@ 5 :> <<4, 2, 1>> @@ 6 :> <<5, 2, 1>> @@ 7 :> <<6, 2, 1>> @@
      8 :> <<7, 2, 1>> @@ 9 :> <<8, 2, 1>> @@ 10 :> <<9, 2, 1>> @@ 11 :> <<10, 2, 1>> @@
      12 :> <<11, 2, 1>> @@ 13 :> <<12, 2, 1>> @@ 14 :> <<13, 2, 1>> @@ 15 :> <<14, 2, 1>> @@
      16 :> <<15, 2, 1>> @@ 17 :> <<16, 2, 1>> @@ 18 :> <<17, 2, 1>> @@ 19 :> <<18, 2, 1>> @@
      20 :> <<19, 2, 1>> @@ 21 :> <<20, 2, 1>> @@ 22 :> <<21, 2, 1>> @@ 23 :> <<22, 2, 1>> @@
      24 :> <<23, 2, 1>> @@ 25 :> <<24, 2, 1>> @@ 26 :> <<25, 2, 1>> @@ 27 :> <<0, 4, 0>> @@
      31 :> <<0, 1, 0>> @@ 70 :> <<77, 2, 1>> @@ 73 :> <<80, 3, 2>> @@ 533 :> <<565, 2, 2>> @@
      1060 :> <<0, 3, 0>> @@ 1681 :> <<2067, 2, 1>> @@ 2186 :> <<3061, 2, 2>> @@
      2420 :> <<3460, 2, 1>> @@ 2428 :> <<3468, 2, 1>> @@ 3711 :> <<5411, 2, 1>>
IDNA_MAP_DATA ==
    [i \in 0 .. 25 |-> i + 97] @@ 77 :> 252 @@ [i \in {80, 81, 3468} |-> 115] @@ 565 :> 2325 @@
      566 :> 2364 @@ 2067 :> 46 @@ 3061 :> 107 @@ 3062 :> 103 @@ 3460 :> 42959 @@ 5411 :> 120
IDNA_TRIE1 ==
    [i \in 0 .. 3 |-> i] @@ 6 :> 6 @@ 11 :> 11 @@ 12 :> 12 @@ 17 :> 17 @@ 18 :> 18 @@ 19 :> 19 @@
      34 :> 34 @@ [i \in {35, 344} |-> 32] @@ 53 :> 47 @@ 61 :> 55 @@ 64 :> 58 @@ 68 :> 62 @@
      96 :> 77 @@ 103 :> 84 @@ 335 :> 89 @@ 510 :> 112
IDNA_TRIE2 ==
    [i \in 65 .. 90 |-> i - 64] @@ [i \in 48 .. 57 \cup 97 .. 122 \cup {33, 45, 46, 61, 95, 228,
      252, 257, 479, 772, 776, 790, 803, 820, 824, 1456, 1488, 1575, 1576, 1611, 1632, 2191, 2325,
      2364, 2381, 2494, 2503, 2507, 4096, 4097, 4135, 4136, 4352, 4449, 6095, 7073, 8032,
      11471} |-> 0] @@ 128 :> 27 @@ 173 :> 31 @@ 220 :> 70 @@ 223 :> 73 @@ 2392 :> 533 @@
      [i \in {7436, 7437} |-> 1060] @@ 9858 :> 1681 @@ 10767 :> 2186 @@ 11470 :> 2420 @@
      11505 :> 2428 @@ 14424 :> 3711
IDNA_TRIE_SHIFT == 7
\* Bug: the bound is kept in sixteen bits.
LowHalfOfLast == 511
IDNA_TRIE_LAST == 918015
IDNA_UNLISTED == 27

\* NFC_Quick_Check
NFC_QC_TRIE1 ==
    [i \in 36 .. 39 |-> i - 31] @@ 12 :> 1 @@
      [i \in 22 .. 24 \cup {34, 68, 107, 122, 137, 192, 206, 671, 688, 1021} |-> 0] @@ 25 :> 4 @@
      69 :> 19 @@ 70 :> 20 @@ 128 :> 26
NFC_QC_TRIE2 ==
    [i \in 0 .. 2 \cup 14 .. 16 \cup {24, 32, 33, 39, 40, 48, 49, 86, 116, 267, 288, 341, 397,
      519, 523, 1319, 1676, 1677} |-> 0] @@
      [i \in {68, 72, 99, 120, 380, 510, 1249, 1320} |-> 2] @@ 408 :> 1
NFC_QC_TRIE_SHIFT == 6
NFC_QC_TRIE_FIRST == 768
NFC_QC_TRIE_LAST == 195135

\* Bidi_Class
BIDI_TRIE1 ==
    0 :> 0 @@ 1 :> 1 @@ [i \in {2, 3, 34, 35, 61, 344} |-> 2] @@ 6 :> 4 @@ 11 :> 7 @@ 12 :> 8 @@
      17 :> 13 @@ 18 :> 14 @@ 19 :> 15 @@ 53 :> 41 @@ 64 :> 48 @@ 68 :> 52 @@ 96 :> 66 @@
      103 :> 72 @@ 335 :> 78 @@ 510 :> 94
BIDI_TRIE2 ==
    [i \in {33, 61, 95, 6752, 8450} |-> 13] @@ 45 :> 5 @@ 46 :> 7 @@ [i \in 48 .. 57 |-> 4] @@
      [i \in 65 .. 90 \cup 97 .. 122 \cup {220, 223, 228, 252, 256, 257, 289, 295, 296, 351, 353,
      1813, 1880, 1982, 1991, 1995, 9231, 10062, 10063, 10097, 12120} |-> 0] @@
      [i \in {128, 173, 6156, 6157} |-> 9] @@
      [i \in {516, 520, 534, 547, 564, 568, 944, 1099, 1852, 1869, 5327} |-> 8] @@ 976 :> 1 @@
      [i \in {1063, 1064, 1679} |-> 2] @@ 1120 :> 3
BIDI_TRIE_SHIFT == 7
BIDI_TRIE_LAST == 1114111

\* Joining_Type
JOINING_RANGES ==
    <<<<173, 173, 5>>, <<768, 879, 5>>, <<1425, 1469, 5>>, <<1575, 1575, 4>>, <<1576, 1576, 2>>,
      <<1611, 1631, 5>>, <<2191, 2191, 2>>, <<2364, 2364, 5>>, <<2381, 2381, 5>>,
      <<6832, 6877, 5>>, <<8205, 8205, 1>>, <<917760, 917999, 5>>>>
JOINING_FIRST == 173
JOINING_LAST == 917999

INSTANCE TableUnit
=============================================================================
