-------------------------- MODULE MCControllerCycle --------------------------
(* Small programs.  A unit of the clock is half a tick: 5 milliseconds.     *)
EXTENDS ControllerCycle

TimerOf(delay) == [kind |-> "Timer", delay |-> delay]
GeneratorOf(pause, pulse) == [kind |-> "Generator", pause |-> pause, pulse |-> pulse]
IndicatorOf(port) == [kind |-> "Indicator", port |-> port]
Direct(port) == [kind |-> "Direct", port |-> port]
Set(port) == [kind |-> "Set", port |-> port]
Reset(port) == [kind |-> "Reset", port |-> port]
Inc(port) == [kind |-> "Inc", port |-> port]
Dec(port) == [kind |-> "Dec", port |-> port]
In == [kind |-> "ContinuationIn"]
Out == [kind |-> "ContinuationOut"]

\* A delayed switch, and a generator that counts up what the switch counts down.
TimersProgram ==
  << <<InputNO("DI"), TimerOf(5), Direct("O1")>>,
     <<GeneratorOf(2, 3), Inc("V1")>>,
     <<InputNO("O1"), Dec("V1")>> >>

\* A chain over two networks that latches O1 and is broken by what O1 causes;
\* the designer enables and disables the last network.
FlowProgram ==
  << <<InputNO("DI"), InputNC("V1"), In>>,
     <<Out, ComparatorLs("V1", 2), Set("O1")>>,
     <<InputNO("O1"), ComparatorGE("AI", 2), Direct("V1")>>,
     <<ComparatorLs("AI", 2), Reset("O1")>> >>

\* A network that never settles and shows it, and a delayed switch.
UnsettledProgram ==
  << <<InputNC("V1"), IndicatorOf("V1"), Direct("V1")>>,
     <<InputNO("DI"), TimerOf(10), Direct("O1")>> >>

MCIds == Elements \cup {ProcessTask, AI}
MCAddressOf == [id \in MCIds |-> 10 * id[1] + id[2]]
=============================================================================
