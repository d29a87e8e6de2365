------------------------- MODULE MCRedundantStorage -------------------------
(* Three contents: one stored, one half stored, one whose store is cut short. *)
EXTENDS RedundantStorage
CONSTANTS v1, v2, v3
Contents == {v1, v2, v3}
=============================================================================
