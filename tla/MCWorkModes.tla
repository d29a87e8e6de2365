----------------------------- MODULE MCWorkModes -----------------------------
EXTENDS WorkModes

CONSTANT a

MCLogics == {a}
MCNetwork(state) == [content |-> a, state |-> state]
MCUploads ==
  {[mode |-> "Run", networks |-> <<MCNetwork("Active"), MCNetwork("Passive")>>]}

\* The modes are commanded while the program has one network, or none.
FewNetworks == commands = 0 \/ (Len(networks) <= 1 /\ Len(file.networks) <= 1)
=============================================================================
