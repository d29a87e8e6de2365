----------------------- MODULE MCProcessWakeupService -----------------------
(* Three callers; a unit of the clock is half a millisecond.               *)
EXTENDS ProcessWakeupService

MCAddressOf == [id \in Ids |-> id]
=============================================================================
