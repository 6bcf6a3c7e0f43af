------------------------------ MODULE MCRunPod ------------------------------
EXTENDS RunPod

\* All pods on the node "gpu".
MCOneNode == [p \in Pods |-> "gpu"]
\* All pods on the node "gpu-2", next to "gpu".
MCSecondNode == [p \in Pods |-> "gpu-2"]
MCPrefixed == {<<"gpu", "gpu-2">>}
MCNone == {}
=============================================================================
