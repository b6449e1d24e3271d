--------------------------- MODULE MCLabelBackend ---------------------------
(* size_t of five bits; outputs that fit at once, after growing, and never;  *)
(* two outputs, so that libidn2 may have another than the in-tree codec.     *)
EXTENDS LabelBackend

MCInitialBuffers == {4, 7}
MCNeeds == {3, 9, 40}
=============================================================================
