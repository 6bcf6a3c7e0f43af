--------------------------- MODULE PortAllocator ---------------------------
(***************************************************************************)
(* internal/gateway/portalloc/allocator.go.  The Allocator keeps two maps:  *)
(* port -> owner and owner -> ports.  Every method runs under one mutex, so  *)
(* each is one action.  A map entry that is absent is Free in `allocated`    *)
(* and the empty set in `ownerPorts`; the order of an owner's port list is   *)
(* not modelled, nothing in the program depends on it.                       *)
(***************************************************************************)
EXTENDS Naturals

CONSTANTS
    Owners,       \* VirtualService keys, "namespace/name"
    RangeStart,   \* first port of the range handed to NewAllocator
    RangeEnd,     \* last port of the range
    Free          \* no owner: the port has no entry in the map

ASSUME RangeAssumption == RangeStart \in Nat /\ RangeEnd \in Nat
ASSUME FreeAssumption == Free \notin Owners

VARIABLES
    allocated,    \* Allocator.allocated:  port -> owner
    ownerPorts    \* Allocator.ownerPorts: owner -> ports

allocVars == <<allocated, ownerPorts>>

Ports == RangeStart .. RangeEnd

NewAllocator ==
    /\ allocated = [p \in Ports |-> Free]
    /\ ownerPorts = [o \in Owners |-> {}]

\* A scan of the range that does not look at the map.
AvailableUnchecked(p) == p \in Ports

Available(p) == p \in Ports /\ allocated[p] = Free

\* The loop of Allocate walks the range upwards and stops at the first port
\* with no entry.
FirstAvailable(p) ==
    /\ Available(p)
    /\ \A q \in Ports : q < p => ~Available(q)

Exhausted == \A p \in Ports : ~Available(p)

\* An Allocate whose list entry is off by one.
AllocateOffByOne(o, p) ==
    /\ FirstAvailable(p)
    /\ allocated' = [allocated EXCEPT ![p] = o]
    /\ ownerPorts' = [ownerPorts EXCEPT ![o] = ownerPorts[o] \cup {p + 1}]

\* Allocate(o) returning port p.
Allocate(o, p) ==
    /\ FirstAvailable(p)
    /\ allocated' = [allocated EXCEPT ![p] = o]
    /\ ownerPorts' = [ownerPorts EXCEPT ![o] = ownerPorts[o] \cup {p}]

\* Release is silent when the port is not the caller's.
Owns(o, p) == p \in Ports /\ allocated[p] = o

Release(o, p) ==
    IF Owns(o, p)
      THEN /\ allocated' = [allocated EXCEPT ![p] = Free]
           /\ ownerPorts' = [ownerPorts EXCEPT ![o] = ownerPorts[o] \ {p}]
      ELSE UNCHANGED allocVars

\* A ReleaseAll that does not look at the owner.
ReleaseAllOwners(o) ==
    /\ allocated' = [p \in Ports |-> Free]
    /\ ownerPorts' = [x \in Owners |-> {}]

\* A ReleaseAll that drops the owner's list and leaves the ports assigned.
ReleaseAllListOnly(o) ==
    /\ ownerPorts' = [ownerPorts EXCEPT ![o] = {}]
    /\ UNCHANGED allocated

ReleaseAll(o) ==
    /\ allocated' = [p \in Ports |-> IF p \in ownerPorts[o] THEN Free ELSE allocated[p]]
    /\ ownerPorts' = [ownerPorts EXCEPT ![o] = {}]

AllocNext ==
    \E o \in Owners :
        \/ \E p \in Ports : Allocate(o, p)
        \/ \E p \in Ports : Release(o, p)
        \/ ReleaseAll(o)

AllocSpec == NewAllocator /\ [][AllocNext]_allocVars

-----------------------------------------------------------------------------
\* Type correctness: the maps of the Allocator hold ports of the range only.
AllocTypeOK ==
    /\ allocated \in [Ports -> Owners \cup {Free}]
    /\ ownerPorts \in [Owners -> SUBSET Ports]

\* The two maps tell the same story: a port is in an owner's list exactly when
\* the port map names that owner.  Release and ReleaseAll each walk one map and
\* edit the other; a disagreement would leak the port or free somebody else's.
MapsAgree == \A o \in Owners, p \in Ports : p \in ownerPorts[o] <=> allocated[p] = o

AllocIInv == AllocTypeOK /\ MapsAgree

\* The allocator is a port pool: seen through the owners' lists, Allocate takes
\* an unheld port and Release/ReleaseAll give back ports of one owner.
Pool == INSTANCE PortPool WITH held <- ownerPorts
PoolSpec == Pool!Spec
=============================================================================
