---------------------------- MODULE ModelSearch -----------------------------
(***************************************************************************)
(* What the solver promises: given a set of models (the satisfying         *)
(* assignments of the conjunction of all functions) it reports sets of     *)
(* them, none twice, and ends with a verdict that is right.  The SMURF     *)
(* brancher implements this (Brancher).                                    *)
(***************************************************************************)
CONSTANTS Assignment,    \* all assignments
          Enough,        \* TRUE if the search may end before all are found
          Interruptible  \* TRUE if a limit may end the search

VARIABLES models,   \* the models of the input
          found,    \* the models reported so far
          verdict   \* SOLV_UNKNOWN while the search goes on or was cut short

vars == <<models, found, verdict>>

SOLV_SAT     == 7
SOLV_UNSAT   == 8
SOLV_UNKNOWN == 9

Init ==
  /\ models \subseteq Assignment
  /\ found = {}
  /\ verdict = SOLV_UNKNOWN

(* Report more models, all of them new. *)
Report ==
  /\ verdict = SOLV_UNKNOWN
  /\ found' \in SUBSET models
  /\ found \subseteq found'
  /\ found' # found
  /\ UNCHANGED models

(* The search is over: all models are found, or as many as were asked for, *)
(* or a limit was hit. *)
Finish ==
  /\ verdict = SOLV_UNKNOWN
  /\ \/ found = models
     \/ Enough /\ found # {}
     \/ Interruptible /\ found # {}
  /\ verdict' = IF found = {} THEN SOLV_UNSAT ELSE SOLV_SAT
  /\ UNCHANGED <<models, found>>

Next == Report \/ Finish

Spec == Init /\ [][Next]_vars
=============================================================================
