----------------------------- MODULE MCGateway -----------------------------
\* Constants for model checking GatewayController.
EXTENDS GatewayController, TLC

MCSelected == [v \in Owners |-> {"app"}]   \* every selector asks for label app

Symmetry == Permutations(Owners) \cup Permutations(Workers)
=============================================================================
