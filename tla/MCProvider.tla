----------------------------- MODULE MCProvider -----------------------------
\* Constants for model checking Provider.
EXTENDS Provider, TLC

MCKeys == [p \in Pods |-> p]                 \* every pod has a name of its own
MCNever == [p \in Pods |-> "Never"]
MCOnFailure == [p \in Pods |-> "OnFailure"]
MCMixed == [p \in Pods |-> IF p = CHOOSE q \in Pods : TRUE THEN "Never" ELSE "OnFailure"]

Symmetry == Permutations(Pods) \cup Permutations(Machines) \cup Permutations(Workers)
MachineSymmetry == Permutations(Machines)
=============================================================================
