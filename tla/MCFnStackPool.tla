--------------------------- MODULE MCFnStackPool ----------------------------
(* Bounds for FnStackPool: chunks of seven cells hold two entries each, so a *)
(* depth of six fills three chunks, and crosses both boundaries in both      *)
(* directions with chunks that are new and chunks that are used again.       *)
EXTENDS FnStackPool

=============================================================================
