------------------------------ MODULE LifoStack -----------------------------
(***************************************************************************)
(* A stack, as the solver sees it: FnStack uses it through Append and      *)
(* SubSeq, FnStackPool implements it in memory.                            *)
(***************************************************************************)
EXTENDS Integers, Sequences

CONSTANTS Item, LEVEL_START

VARIABLES stack,
          last    \* the last operation, with the item pushed or popped

vars == <<stack, last>>

Init == stack = <<>> /\ last = [op |-> "none", item |-> LEVEL_START]

Push ==
  \E x \in Item :
    /\ stack' = Append(stack, x)
    /\ last' = [op |-> "push", item |-> x]

Pop ==
  /\ stack # <<>>
  /\ last' = [op |-> "pop", item |-> stack[Len(stack)]]
  /\ stack' = SubSeq(stack, 1, Len(stack) - 1)

Next == Push \/ Pop

Spec == Init /\ [][Next]_vars
=============================================================================
