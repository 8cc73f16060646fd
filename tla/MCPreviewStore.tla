--------------------------- MODULE MCPreviewStore ---------------------------
(***************************************************************************)
(* Bounds for PreviewStore: four ids against a table of two, so that a     *)
(* store evicts, and a clock that outlives two expiries.                   *)
(***************************************************************************)
EXTENDS PreviewStore

=============================================================================
