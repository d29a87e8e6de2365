----------------------------- MODULE EventGroup -----------------------------
(***************************************************************************)
(* A FreeRTOS event group with one waiting task, as the WiFi task uses it  *)
(* (WiFi/WiFiService.cpp, WaitEvent): the wait asks for any bit and clears *)
(* every bit on exit.  The library is not under src/; its behaviour is     *)
(* taken from how the code uses xEventGroupWaitBits and                    *)
(* xEventGroupSetBits.                                                     *)
(*                                                                         *)
(* A bit set while the waiter is blocked is handed to it at once and never *)
(* stays in the group.  A bit set while the waiter runs stays in the group *)
(* until somebody reads it: the waiter's next wait, or another task that   *)
(* reads and clears the group without blocking.                            *)
(***************************************************************************)
VARIABLES
  events,    \* the bits of the group
  wait,      \* what the waiting task is doing: see WaitStates
  notified   \* the bits its last wait returned; none means a timeout

groupVars == <<events, wait, notified>>

WaitStates == {"running", "blocked", "returned"}

GroupInit ==
  /\ events = {}
  /\ wait = "running"
  /\ notified = {}

\* xEventGroupSetBits, called by any task or event handler.
SetBits(bits) ==
  \/ /\ wait = "blocked"
     /\ events' = {}
     /\ wait' = "returned"
     /\ notified' = events \cup bits
  \/ /\ wait # "blocked"
     /\ events' = events \cup bits
     /\ UNCHANGED <<wait, notified>>

\* xEventGroupWaitBits with a delay, called by the waiting task.
BeginWait ==
  /\ wait = "running"
  /\ \/ /\ events # {}
        /\ wait' = "returned"
        /\ notified' = events
        /\ events' = {}
     \/ /\ events = {}
        /\ wait' = "blocked"
        /\ UNCHANGED <<events, notified>>

\* The delay of the blocked wait runs out.
WaitTimeout ==
  /\ wait = "blocked"
  /\ wait' = "returned"
  /\ notified' = {}
  /\ UNCHANGED events

\* xEventGroupWaitBits with a zero delay, called by a task that is not the
\* waiting one: it takes every bit the group holds.
TakeBits ==
  /\ events' = {}
  /\ UNCHANGED <<wait, notified>>

\* The waiting task goes on from a wait that has returned.  It has looked at
\* what the wait returned, which is not used again.
EndWait ==
  /\ wait = "returned"
  /\ wait' = "running"
  /\ notified' = {}
  /\ UNCHANGED events
=============================================================================
