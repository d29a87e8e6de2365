----------------------------- MODULE MCBindings ------------------------------
(* A small program. *)
EXTENDS Bindings

CONSTANTS s1, s2

Element(kind, variable, input) ==
  [kind |-> kind, variable |-> variable, input |-> input, item |-> StationRequest]
Binding(variable, input, item) ==
  [kind |-> "binding", variable |-> variable, input |-> input, item |-> item]

\* Two bindings of one variable, a contact that reads it at times and an
\* output that writes it.
SharedVariable ==
  << Binding("V1", "I1", ScanRequest(s1)), Binding("V1", "I2", AccessPointRequest(s2, TRUE)),
     Element("contact", "V1", "I1"), Element("output", "V1", "I2") >>
SharedVariableRequests ==
  {ScanRequest(s1), AccessPointRequest(s2, TRUE), AccessPointRequest(s1, FALSE)}

\* V2 is what an element may be readdressed to.
MCVariables == <<"V1", "V2">>
MCEdits == {<<"delete", "Run">>, <<"readdress", "Stop">>}
=============================================================================
