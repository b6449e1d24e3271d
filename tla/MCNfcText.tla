------------------------------ MODULE MCNfcText ------------------------------
(* Texts over marks of five classes and ties, composites, an excluded       *)
(* composite, a pair of starters that composes, and Hangul; the tables are   *)
(* those of the 17.0.0 unit.                                                *)
EXTENDS NfcText, TLC

MCCodePoints ==
    { \h61, \he4, FullStop, \h334, \h316, \h323, \h308, \h304,  \* marks of a
      \h958, \h93c, \h9c7, \h9be,                             \* Indic
      \h1100, \h1161, \h11a7, \h11a8, \hac00 }               \* Hangul

Unit == INSTANCE Unit17_0_0
CCCTable == Unit!ClassOf
DecompTable == Unit!DecompositionOf
CompTable == Unit!CompositeOf
QCTable == Unit!QuickCheckOf
MCCCC == CCCTable
MCDECOMP == DecompTable
MCCOMP == CompTable
MCQC == QCTable
MCEmpty == <<>>
=============================================================================
