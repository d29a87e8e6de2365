--------------------------- MODULE DurableStorage ---------------------------
(***************************************************************************)
(* What a stored file promises to the tasks that load, store and delete    *)
(* it, when the device may restart at any moment.  The storage holds a set *)
(* of values, one of which the next load answers with: a store that ends   *)
(* leaves its value alone, one that is cut short may leave the old values  *)
(* and its own, and only a delete leaves none.                             *)
(***************************************************************************)
CONSTANTS
  Values,    \* what is stored
  Nothing    \* the answer of a load that finds no value

VARIABLES
  candidates,   \* the values a load may answer with
  doing,        \* the operation under way
  answer        \* what the last load answered

vars == <<candidates, doing, answer>>

Idle == [kind |-> "idle", value |-> Nothing]
Operations ==
  {[kind |-> k, value |-> Nothing] : k \in {"load", "delete"}}
    \cup {[kind |-> "store", value |-> v] : v \in Values}

Init ==
  /\ candidates = {}
  /\ doing = Idle
  /\ answer = Nothing

Begin ==
  /\ doing = Idle
  /\ doing' \in Operations
  /\ UNCHANGED <<candidates, answer>>

\* A store never leaves nothing where there was something.
Work ==
  /\ \/ /\ doing.kind = "store"
        /\ candidates' \subseteq candidates \cup {doing.value}
        /\ candidates # {} => candidates' # {}
     \/ /\ doing.kind = "delete"
        /\ candidates' \subseteq candidates
  /\ UNCHANGED <<doing, answer>>

End ==
  /\ \/ /\ doing.kind = "store"
        /\ candidates' = {doing.value}
        /\ UNCHANGED answer
     \/ /\ doing.kind = "delete"
        /\ candidates' = {}
        /\ UNCHANGED answer
     \/ /\ doing.kind = "load"
        /\ IF candidates = {} THEN answer' = Nothing ELSE answer' \in candidates
        /\ UNCHANGED candidates
  /\ doing' = Idle

Restart ==
  /\ doing' = Idle
  /\ answer' = Nothing
  /\ UNCHANGED candidates

Next == Begin \/ Work \/ End \/ Restart

Spec == Init /\ [][Next]_vars
=============================================================================
