----------------------------- MODULE MCFnStack ------------------------------
(* Bounds for FnStack: two functions with two states each and versions up   *)
(* to MaxVersion, so up to MaxVersion - 1 nested levels, or levels opened    *)
(* and popped one after the other at the same depth.                         *)
EXTENDS FnStack

=============================================================================
