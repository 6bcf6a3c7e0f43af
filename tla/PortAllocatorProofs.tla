------------------------ MODULE PortAllocatorProofs ------------------------
(***************************************************************************)
(* The allocator for every set of owners and every port range: its two maps *)
(* always agree, no port has two owners, and it implements PortPool.         *)
(***************************************************************************)
EXTENDS PortAllocator, TLAPS

\* A fresh allocator (NewAllocator) has no entry in either map.
LEMMA NewAllocatorIInv == NewAllocator => AllocIInv
BY FreeAssumption DEF NewAllocator, AllocIInv, AllocTypeOK, MapsAgree

\* Allocate adds the pair (port, owner) to both maps; the port was in no list
\* because it had no owner.
LEMMA AllocateIInv ==
    ASSUME AllocIInv, NEW o \in Owners, NEW p \in Ports, Allocate(o, p)
    PROVE  AllocIInv'
BY FreeAssumption
   DEF AllocIInv, AllocTypeOK, MapsAgree, Allocate, FirstAvailable, Available

\* Release removes the pair from both maps, or does nothing.
LEMMA ReleaseIInv ==
    ASSUME AllocIInv, NEW o \in Owners, NEW p \in Ports, Release(o, p)
    PROVE  AllocIInv'
<1>1. CASE Owns(o, p)
  BY <1>1, FreeAssumption DEF AllocIInv, AllocTypeOK, MapsAgree, Release, Owns
<1>2. CASE ~Owns(o, p)
  BY <1>2 DEF AllocIInv, AllocTypeOK, MapsAgree, Release, allocVars
<1> QED BY <1>1, <1>2

\* ReleaseAll frees the ports the list names; the maps agree, so these are
\* exactly the owner's ports.
LEMMA ReleaseAllIInv ==
    ASSUME AllocIInv, NEW o \in Owners, ReleaseAll(o)
    PROVE  AllocIInv'
BY FreeAssumption DEF AllocIInv, AllocTypeOK, MapsAgree, ReleaseAll

\* Every step of the allocator, or a stutter, keeps the maps in agreement.
LEMMA StepIInv == AllocIInv /\ [AllocNext]_allocVars => AllocIInv'
<1> SUFFICES ASSUME AllocIInv, [AllocNext]_allocVars PROVE AllocIInv'
  OBVIOUS
<1>1. CASE UNCHANGED allocVars
  BY <1>1 DEF AllocIInv, AllocTypeOK, MapsAgree, allocVars
<1>2. CASE AllocNext
  BY <1>2, AllocateIInv, ReleaseIInv, ReleaseAllIInv DEF AllocNext
<1> QED BY <1>1, <1>2

\* The allocator keeps both maps well typed, whatever the range and however many owners
\* share it (NewPortAllocator, Allocate, Release, ReleaseAll).
THEOREM AllocatorTypeCorrect == AllocSpec => []AllocTypeOK
<1>1. AllocIInv => AllocTypeOK
  BY DEF AllocIInv
<1> QED BY <1>1, NewAllocatorIInv, StepIInv, PTL DEF AllocSpec

\* The port map and the owners' lists agree in every state the allocator can
\* reach, whatever the range and however many owners share it.
THEOREM AllocatorMapsAgree == AllocSpec => []MapsAgree
<1>1. AllocIInv => MapsAgree
  BY DEF AllocIInv
<1> QED BY <1>1, NewAllocatorIInv, StepIInv, PTL DEF AllocSpec

-----------------------------------------------------------------------------
\* Every step of the allocator is a step of the pool, or changes no list.
LEMMA StepPool == AllocIInv /\ [AllocNext]_allocVars => [Pool!Next]_ownerPorts
<1> SUFFICES ASSUME AllocIInv, [AllocNext]_allocVars PROVE [Pool!Next]_ownerPorts
  OBVIOUS
<1>1. CASE UNCHANGED allocVars
  BY <1>1 DEF allocVars
<1>2. ASSUME NEW o \in Owners, NEW p \in Ports, Allocate(o, p)
      PROVE  Pool!Next
  <2>1. \A x \in Owners : p \notin ownerPorts[x]
    BY <1>2, FreeAssumption DEF AllocIInv, MapsAgree, Allocate, FirstAvailable, Available
  <2>2. p \in Pool!Unheld
    BY <2>1 DEF Pool!Unheld
  <2>3. Pool!Acquire(o, p)
    BY <1>2, <2>2 DEF Allocate, Pool!Acquire
  <2> QED BY <2>3 DEF Pool!Next
<1>3. ASSUME NEW o \in Owners, NEW p \in Ports, Release(o, p)
      PROVE  [Pool!Next]_ownerPorts
  <2>1. CASE Owns(o, p)
    <3>1. {p} \subseteq ownerPorts[o]
      BY <2>1 DEF Owns, AllocIInv, MapsAgree
    <3>2. Pool!GiveBack(o, {p})
      BY <1>3, <2>1, <3>1 DEF Release, Pool!GiveBack
    <3>3. {p} \in SUBSET Ports
      OBVIOUS
    <3> QED BY <3>2, <3>3 DEF Pool!Next
  <2>2. CASE ~Owns(o, p)
    BY <1>3, <2>2 DEF Release, allocVars
  <2> QED BY <2>1, <2>2
<1>4. ASSUME NEW o \in Owners, ReleaseAll(o)
      PROVE  Pool!Next
  <2>1. ownerPorts[o] \in SUBSET Ports
    BY DEF AllocIInv, AllocTypeOK
  <2>2. ownerPorts[o] \ ownerPorts[o] = {}
    OBVIOUS
  <2>3. Pool!GiveBack(o, ownerPorts[o])
    BY <1>4, <2>2 DEF ReleaseAll, Pool!GiveBack
  <2> QED BY <2>1, <2>3 DEF Pool!Next
<1> QED BY <1>1, <1>2, <1>3, <1>4 DEF AllocNext

\* The allocator implements the port pool: the refinement the run checks on
\* four ports, here for any range.
THEOREM AllocatorImplementsPool == AllocSpec => PoolSpec
<1>1. NewAllocator => AllocIInv /\ Pool!Init
  BY NewAllocatorIInv DEF NewAllocator, Pool!Init
<1>2. AllocIInv /\ [AllocNext]_allocVars => AllocIInv' /\ [Pool!Next]_ownerPorts
  BY StepIInv, StepPool
<1> QED BY <1>1, <1>2, PTL DEF AllocSpec, PoolSpec, Pool!Spec

\* Hence no gateway port is ever held by two VirtualServices at once, as long
\* as every port in use was obtained from this allocator.
THEOREM AllocatorExclusive == AllocSpec => []Pool!Exclusive
<1>1. AllocIInv => Pool!Exclusive
  BY DEF AllocIInv, AllocTypeOK, MapsAgree, Pool!Exclusive
<1>2. NewAllocator => AllocIInv
  BY NewAllocatorIInv
<1>3. AllocIInv /\ [AllocNext]_allocVars => AllocIInv'
  BY StepIInv
<1> QED BY <1>1, <1>2, <1>3, PTL DEF AllocSpec
=============================================================================
