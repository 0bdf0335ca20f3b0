--------------------------- MODULE MCLemmaBrancher --------------------------
(* Inputs for LemmaBrancher over four variables: clauses, parities with few *)
(* models, an AND gate without any, and one where a choice is beside the     *)
(* conflict and is jumped over.  OfFour is small enough for liveness.        *)
EXTENDS LemmaBrancher

Pos(v) == {m \in Assignment : m[v] = BOOL_TRUE}
Neg(v) == Assignment \ Pos(v)
Xor(F, G) == (F \ G) \cup (G \ F)

Clauses == << Pos(1) \cup Pos(2) \cup Pos(4), Pos(1) \cup Neg(2), Neg(1) \cup Pos(3) >>
Parities == << Xor(Xor(Pos(1), Pos(2)), Pos(3)), Xor(Pos(2), Xor(Pos(3), Pos(4))),
               Pos(1) \cup Pos(4) >>
Gates == << Xor(Pos(4), Pos(1) \cap Pos(2)), Xor(Pos(2), Pos(3)), Neg(4) \cup Neg(3) >>
Beside == << Neg(1) \cup Xor(Pos(2), Pos(3)), Neg(1) \cup Xor(Pos(2), Neg(3)),
             Pos(1) \cup Pos(4) >>
Chain == << Xor(Pos(1), Pos(2)), Neg(2) \cup Pos(3), Xor(Pos(3), Pos(4)) >>

AsProblem(seq) == [f \in Fn |-> seq[f + 1]]

OfAll  == {AsProblem(p) : p \in {Clauses, Parities, Gates, Beside}}
OfFour == {AsProblem(p) : p \in {Gates, Chain}}
=============================================================================
