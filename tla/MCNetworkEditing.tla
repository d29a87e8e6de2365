--------------------------- MODULE MCNetworkEditing ---------------------------
(* Two inputs and an output stand for all of them. *)
EXTENDS NetworkEditing
MCInputs == <<"InputNC", "InputNO">>
MCOutputs == <<"DirectOutput">>
=============================================================================
