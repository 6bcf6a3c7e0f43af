---------------------------- MODULE BackendPorts ----------------------------
(***************************************************************************)
(* How traffic for a pod finds its container.  Two programs derive the ports *)
(* of the tunnel from the same pod object: the gateway computes the port its *)
(* backends connect to (extractContainerPorts, calculateBackendPort), the    *)
(* provider writes the tunnels of the pod's wireproxy                        *)
(* (generateWireproxyConfig).  Nothing but the agreement of the two sends a  *)
(* connection to the right container port.                                   *)
(*                                                                           *)
(* The state is the pod being put together: its slot and its container's     *)
(* list of ports, in the order and with the repetitions of the pod's spec    *)
(* (a port may appear once for TCP and once for UDP).                        *)
(***************************************************************************)
EXTENDS Naturals, Sequences, SequencesExt

CONSTANTS
    ContainerPorts,   \* ports a container may declare
    Slots,            \* gateway slots
    MaxPorts,         \* bound: ports of a container
    Repeats           \* TRUE when a port may be declared twice

ASSUME BackendPortsAssumption ==
    ContainerPorts \subseteq Nat /\ Slots \subseteq Nat /\ MaxPorts \in Nat /\ Repeats \in BOOLEAN

VARIABLES slot, ports

vars == <<slot, ports>>

Init == slot \in Slots /\ ports = <<>>

DeclarePort(p) ==
    /\ Len(ports) < MaxPorts
    /\ Repeats \/ p \notin ToSet(ports)
    /\ ports' = Append(ports, p)
    /\ UNCHANGED slot

Next == \E p \in ContainerPorts : DeclarePort(p)

Spec == Init /\ [][Next]_vars

-----------------------------------------------------------------------------
\* gateway-init gives each slot a block of 100 ports; the agent answers on the first.
GatewayPortOffset(s) == 10000 + s * 100

\* What sort.Ints and sort.Slice leave: the entries of s in ascending order.
SortInts(s) ==
    LET order == CHOOSE p \in Bijection(DOMAIN s, DOMAIN s) :
                     \A i, j \in DOMAIN s : i < j => s[p[i]] <= s[p[j]]
    IN  [i \in DOMAIN s |-> s[order[i]]]

\* The gateway: the distinct ports, sorted; the position of the target among them.
extractContainerPorts(declared) == SortInts(SetToSeq(ToSet(declared)))

NotFound == 0

PositionOf(x, seq) == CHOOSE i \in DOMAIN seq : seq[i] = x /\ \A j \in 1 .. i - 1 : seq[j] # x

\* A computation that leaves room for the agent's port twice.
portPastAgentTwice(s, sorted, target) ==
    IF target \in ToSet(sorted) THEN 10000 + s * 100 + PositionOf(target, sorted) + 1 ELSE NotFound

calculateBackendPort(s, sorted, target) ==
    IF target \in ToSet(sorted) THEN 10000 + s * 100 + PositionOf(target, sorted) ELSE NotFound

\* The provider: a tunnel for the agent and one for every declared port, sorted.
generateWireproxyConfig(s, declared) ==
    LET sorted == SortInts(declared)
        offset == GatewayPortOffset(s)
    IN  [l \in offset .. offset + Len(sorted) |-> IF l = offset THEN "agent" ELSE sorted[l - offset]]

-----------------------------------------------------------------------------
\* Properties.

BackendPort(target) == calculateBackendPort(slot, extractContainerPorts(ports), target)

\* For every port the container declares, the backend the gateway configures
\* (calculateBackendPort) is the listening end of a tunnel whose other end
\* (generateWireproxyConfig) is that very port.
RoutesToTarget ==
    LET tunnels == generateWireproxyConfig(slot, ports) IN
    \A t \in ToSet(ports) : /\ BackendPort(t) \in DOMAIN tunnels
                            /\ tunnels[BackendPort(t)] = t
=============================================================================
