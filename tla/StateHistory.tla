---------------------------- MODULE StateHistory ----------------------------
(***************************************************************************)
(* What the function stack of the solver promises.  Each constraint        *)
(* ("function") has a current state.  Opening a decision level remembers   *)
(* the states all functions have at that moment; closing the newest level  *)
(* brings every function back to exactly those states.  Levels are named   *)
(* by naturals, newer levels by larger ones.                               *)
(*                                                                         *)
(* FnStack implements this with one stack that holds only the functions    *)
(* that change (src/src/solv_smurf/fn_stack.cc).                           *)
(***************************************************************************)
EXTENDS Naturals

CONSTANTS Fn,    \* function (constraint) numbers
          State  \* states a function can be in

VARIABLES current,   \* current[f]: the state function f is in
          snapshot   \* snapshot[l][f]: the state f had when level l was opened

vars == <<current, snapshot>>

Levels == DOMAIN snapshot

Init ==
  /\ current \in [Fn -> State]
  /\ Levels = {}

(* Solving changes the state of one function of the newest level. *)
Modify ==
  \E f \in Fn, s \in State :
    /\ current' = [current EXCEPT ![f] = s]
    /\ UNCHANGED snapshot

(* Open remembers the current states under a name newer than all others. *)
Open ==
  \E l \in DOMAIN snapshot' :
    /\ \A k \in Levels : k < l
    /\ snapshot' = [k \in Levels \cup {l} |-> IF k = l THEN current
                                                       ELSE snapshot[k]]
    /\ UNCHANGED current

(* Close forgets the newest level and brings its states back. *)
Close ==
  \E l \in Levels :
    /\ \A k \in Levels : k <= l
    /\ current' = snapshot[l]
    /\ snapshot' = [k \in Levels \ {l} |-> snapshot[k]]

Next == Modify \/ Open \/ Close

Spec == Init /\ [][Next]_vars
=============================================================================
