----------------------------- MODULE AlarmClock -----------------------------
(***************************************************************************)
(* What the wakeup requests promise to the elements, the inputs and the    *)
(* tasks that ask for a wakeup: each of them has at most one alarm, it     *)
(* rings when its time comes and not before, and an alarm that does not    *)
(* matter to the millisecond may be put off to one that is set already.    *)
(***************************************************************************)
EXTENDS Integers, Functions

CONSTANTS
  Ids,        \* who may ask for a wakeup
  Delays,     \* the delays asked for
  DeadBand,   \* an idle alarm is put off by less than this
  Early       \* an alarm may ring this long before its time

VARIABLES
  due,   \* the time left to each alarm that is set
  last   \* the last call: what was asked for

vars == <<due, last>>

Init == due = [id \in {} |-> 0] /\ last = <<>>

\* An alarm that is set is not set again.
Set(id, delay, priority) ==
  /\ id \notin DOMAIN due
  /\ last' = <<id, delay, priority>>
  /\ \E time \in {delay} \cup {t \in Range(due) : priority = "idle"
                                                  /\ delay <= t /\ t < delay + DeadBand} :
       due' = [i \in DOMAIN due \cup {id} |-> IF i = id THEN time ELSE due[i]]

Cancel(id) ==
  /\ last' = <<id>>
  /\ due' = Restrict(due, DOMAIN due \ {id})

Pass(time) ==
  /\ last' = <<>>
  /\ due' = [id \in DOMAIN due |-> due[id] - time]

\* Every alarm whose time has come rings, and no other.
Ring ==
  /\ last' = <<>>
  /\ due' = Restrict(due, {id \in DOMAIN due : due[id] > Early})

Next ==
  \/ \E id \in Ids, delay \in Delays, priority \in {"idle", "critical"} :
       Set(id, delay, priority)
  \/ \E id \in Ids : Cancel(id)
  \/ Pass(1)
  \/ Ring

Spec == Init /\ [][Next]_vars
=============================================================================
