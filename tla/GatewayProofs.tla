--------------------------- MODULE GatewayProofs ---------------------------
(***************************************************************************)
(* The gateway controller for every number of VirtualServices, workers,     *)
(* ports and pods: its state is well typed, a port is lost only to its own   *)
(* key's reconcile, and, between restarts and without edits of a spec, the   *)
(* ports that live VirtualServices record, and those HAProxy binds, are      *)
(* exclusive.                                                                *)
(***************************************************************************)
EXTENDS GatewayController, TLAPS

-----------------------------------------------------------------------------
\* Types.

ProxyMaps == UNION {[S -> [port : Ports, servers : SUBSET Pods]] : S \in SUBSET SvcPorts}

Normal == {"ports", "allocate", "service", "slice", "proxy", "status"}
Finalizing == {"remove", "release", "unfinalize"}

Busy == [pc : {"read", "finalizer"} \cup Normal \cup Finalizing, key : Owners,
         obj : VirtualServices \cup {Absent}, base : VirtualServices \cup {Absent},
         got : PortMaps, pods : SUBSET Pods, cond : Conditions]

\* Past the read a worker has a copy of an object, and while it allocates ports some are
\* left to allocate.
WorkerOK(r) ==
    \/ r = Idle
    \/ /\ r \in Busy
       /\ r.pc # "read" => r.obj \in VirtualServices /\ r.base \in VirtualServices
       /\ r.pc \in {"read", "finalizer", "ports"} => r.got = NoEntries
       /\ r.pc = "allocate" => DOMAIN r.got \subseteq r.obj.spec /\ DOMAIN r.got # r.obj.spec

WorkersOK == wk \in [Workers -> Busy \cup {Idle}] /\ \A w \in Workers : WorkerOK(wk[w])

\* A pod's undelivered events end in what the API server holds, and the deletion of a pod
\* follows a version of it.
History(now, seen, events) ==
    /\ now = IF Len(events) = 0 THEN seen ELSE events[Len(events)]
    /\ \A i \in 1 .. Len(events) :
         events[i] = Absent => (IF i = 1 THEN seen ELSE events[i - 1]) # Absent

PodsOK ==
    /\ podCache \in [Pods -> Labels \cup {Absent}] /\ notifying \in Labels \cup {Absent}
    /\ podApi \in [Pods -> PodObjects \cup {Absent}]
    /\ podSeen \in [Pods -> PodObjects \cup {Absent}]
    /\ podEvents \in [Pods -> Seq(PodObjects \cup {Absent})]
    /\ \A p \in Pods : History(podApi[p], podSeen[p], podEvents[p])

BoundsOK ==
    userOps \in 0 .. MaxUserOps /\ podOps \in 0 .. MaxPodOps /\ restarts \in 0 .. MaxRestarts

ProxyOK == listeners \in [Owners -> PortMaps] /\ proxy \in [Owners -> ProxyMaps]

ObjectsOK ==
    /\ api \in [Owners -> VirtualServices \cup {Absent}]
    /\ lister \in [Owners -> VirtualServices \cup {Absent}]
    /\ svc \in [Owners -> Services \cup {Absent}]
    /\ svcLister \in [Owners -> Services \cup {Absent}]
    /\ slice \in [Owners -> EndpointSlices \cup {Absent}]

QueueOK == vsCache \subseteq Owners /\ dirty \subseteq Owners

TypeIInv ==
    AllocTypeOK /\ ProxyOK /\ ObjectsOK /\ PodsOK /\ QueueOK /\ WorkersOK /\ BoundsOK

\* What the entries of a status (AllocatedPorts) and of the manager's memory map from and to.
LEMMA MapsAre ==
    /\ \A f \in PortMaps : DOMAIN f \subseteq SvcPorts /\ f \in [DOMAIN f -> Ports]
    /\ \A S \in SUBSET SvcPorts : \A f \in [S -> Ports] : f \in PortMaps
    /\ \A f \in ProxyMaps : /\ DOMAIN f \subseteq SvcPorts
                            /\ f \in [DOMAIN f -> [port : Ports, servers : SUBSET Pods]]
    /\ \A S \in SUBSET SvcPorts :
         \A f \in [S -> [port : Ports, servers : SUBSET Pods]] : f \in ProxyMaps
BY DEF PortMaps, ProxyMaps

\* A VirtualService asks for some of the service ports, and for at least one.
LEMMA SpecsAre == \A x \in VirtualServices : x.spec \subseteq SvcPorts /\ x.spec # {}
<1>1. \A x \in VirtualServices : x.spec \in Specs
  BY DEF VirtualServices
<1> QED BY <1>1 DEF Specs

\* The empty map of a new status or a new manager is such a map, of no port.
LEMMA NoEntriesIs ==
    /\ NoEntries \in PortMaps /\ NoEntries \in ProxyMaps
    /\ DOMAIN NoEntries = {} /\ RangeOf(NoEntries) = {}
<1>1. DOMAIN NoEntries = {} /\ NoEntries \in [{} -> Ports]
      /\ NoEntries \in [{} -> [port : Ports, servers : SUBSET Pods]]
  BY DEF NoEntries
<1> QED BY <1>1, MapsAre DEF RangeOf

\* Everything the controller keeps is empty and well typed when it starts (newController).
LEMMA InitTypes == Init => TypeIInv
<1> SUFFICES ASSUME Init PROVE TypeIInv
  OBVIOUS
<1> USE GatewayAssumption DEF Init
<1>1. AllocTypeOK
  BY DEF NewAllocator, AllocTypeOK
<1>2. ProxyOK
  BY NoEntriesIs DEF NewManager, ProxyOK
<1>3. ObjectsOK /\ QueueOK
  BY DEF ObjectsOK, QueueOK
<1>4. WorkersOK
  BY DEF WorkersOK, WorkerOK
<1>5. PodsOK
  BY DEF PodsOK, History
<1>6. BoundsOK
  BY DEF BoundsOK
<1> QED BY <1>1, <1>2, <1>3, <1>4, <1>5, <1>6 DEF TypeIInv

\* The parts imply the controller's type invariant.
LEMMA PartsAreTypes == TypeIInv => TypeOK
<1> SUFFICES ASSUME TypeIInv PROVE TypeOK
  OBVIOUS
<1>1. \A v \in Owners : /\ DOMAIN proxy[v] \subseteq SvcPorts
                        /\ \A s \in DOMAIN proxy[v] : proxy[v][s] \in [port : Ports, servers : SUBSET Pods]
  BY MapsAre DEF TypeIInv, ProxyOK
<1> QED BY <1>1 DEF TypeIInv, TypeOK, ProxyOK, ObjectsOK, PodsOK, QueueOK

\* A part whose variables a step leaves alone stays true.
LEMMA Untouched ==
    ASSUME TypeIInv
    PROVE  /\ UNCHANGED allocVars => AllocTypeOK'
           /\ UNCHANGED haproxyVars => ProxyOK'
           /\ UNCHANGED objVars => ObjectsOK'
           /\ UNCHANGED podVars => PodsOK'
           /\ UNCHANGED <<vsCache, dirty>> => QueueOK'
           /\ UNCHANGED wk => WorkersOK'
           /\ UNCHANGED boundVars => BoundsOK'
<1> USE DEF TypeIInv
<1>1. UNCHANGED allocVars => AllocTypeOK'
  BY DEF allocVars, AllocTypeOK
<1>2. UNCHANGED haproxyVars => ProxyOK'
  BY DEF haproxyVars, ProxyOK
<1>3. UNCHANGED objVars => ObjectsOK'
  BY DEF objVars, ObjectsOK
<1>4. UNCHANGED podVars => PodsOK'
  BY DEF podVars, PodsOK
<1>5. UNCHANGED <<vsCache, dirty>> => QueueOK'
  BY DEF QueueOK
<1>6. UNCHANGED wk => WorkersOK'
  BY DEF WorkersOK
<1>7. UNCHANGED boundVars => BoundsOK'
  BY DEF boundVars, BoundsOK
<1> QED BY <1>1, <1>2, <1>3, <1>4, <1>5, <1>6, <1>7

\* Users create, edit and delete VirtualServices and put Services and EndpointSlices of
\* their own in the way; the garbage collector deletes orphans.
LEMMA UserTypes ==
    ASSUME TypeIInv, NEW v \in Owners,
           \/ CreateVirtualService(v) \/ EditVirtualService(v) \/ DeleteVirtualService(v)
           \/ ReplaceService(v) \/ CreateEndpointSlice(v) \/ CollectService(v)
    PROVE  TypeIInv'
<1> USE GatewayAssumption
<1>1. UNCHANGED userUnchanged
  BY DEF CreateVirtualService, EditVirtualService, DeleteVirtualService, ReplaceService,
         CreateEndpointSlice, CollectService
<1>2. AllocTypeOK' /\ ProxyOK' /\ PodsOK' /\ QueueOK' /\ WorkersOK'
  BY <1>1, Untouched DEF userUnchanged
<1>3. BoundsOK'
  <2>1. userOps' = userOps \/ (userOps < MaxUserOps /\ userOps' = userOps + 1)
    BY DEF CreateVirtualService, EditVirtualService, DeleteVirtualService, ReplaceService,
           CreateEndpointSlice, CollectService, UserStep
  <2> QED BY <1>1, <2>1 DEF userUnchanged, BoundsOK, TypeIInv
<1>4. ObjectsOK'
  <2> USE DEF TypeIInv, ObjectsOK, userUnchanged
  <2>1. CASE CreateVirtualService(v)
    <3>1. userOps' \in 1 .. MaxUserOps
      BY <2>1 DEF CreateVirtualService, UserStep, BoundsOK
    <3>2. PICK spec \in Specs : api' = [api EXCEPT ![v] = NewVirtualService(spec, userOps')]
      BY <2>1 DEF CreateVirtualService
    <3>3. NewVirtualService(spec, userOps') \in VirtualServices
      BY <3>1, NoEntriesIs DEF NewVirtualService, VirtualServices, Conditions
    <3> QED BY <1>1, <2>1, <3>2, <3>3 DEF CreateVirtualService
  <2>2. CASE EditVirtualService(v)
    <3>1. UserStep /\ api[v] \in VirtualServices
      BY <2>2 DEF EditVirtualService
    <3>2. userOps' \in 1 .. MaxUserOps
      BY <3>1 DEF UserStep, BoundsOK
    <3>3. PICK spec \in Specs : api' = [api EXCEPT ![v] = [@ EXCEPT !.spec = spec, !.gen = userOps']]
      BY <2>2, <3>1 DEF EditVirtualService, VirtualServices
    <3>4. [api[v] EXCEPT !.spec = spec, !.gen = userOps'] \in VirtualServices
      BY <3>1, <3>2 DEF VirtualServices
    <3> QED BY <1>1, <2>2, <3>3, <3>4 DEF EditVirtualService
  <2>3. CASE DeleteVirtualService(v)
    <3>1. api[v] \in VirtualServices
      BY <2>3 DEF DeleteVirtualService
    <3> QED BY <1>1, <2>3, <3>1 DEF DeleteVirtualService, VirtualServices
  <2>4. CASE ReplaceService(v)
    <3>1. [owner |-> Foreign, ports |-> NoEntries, rv |-> 0] \in Services
      BY NoEntriesIs DEF Services, Foreign
    <3> QED BY <1>1, <2>4, <3>1 DEF ReplaceService
  <2>5. CASE CreateEndpointSlice(v)
    <3>1. [owner |-> Foreign, ports |-> NoEntries] \in EndpointSlices
      BY NoEntriesIs DEF EndpointSlices, Foreign
    <3> QED BY <1>1, <2>5, <3>1 DEF CreateEndpointSlice
  <2>6. CASE CollectService(v)
    BY <1>1, <2>6 DEF CollectService
  <2> QED BY <2>1, <2>2, <2>3, <2>4, <2>5, <2>6
<1> QED BY <1>2, <1>3, <1>4 DEF TypeIInv

\* A change of a pod is the next event, and delivering takes the first.
LEMMA HistoryGoesOn ==
    ASSUME NEW now, NEW seen, NEW S, NEW events \in Seq(S), History(now, seen, events)
    PROVE  /\ \A new \in S : (new = Absent => now # Absent) => History(new, seen, Append(events, new))
           /\ events # <<>> => /\ History(now, Head(events), Tail(events))
                               /\ Head(events) = Absent => seen # Absent
<1>1. ASSUME NEW new \in S, new = Absent => now # Absent
      PROVE  History(new, seen, Append(events, new))
  <2>1. Append(events, new) \in Seq(S) /\ Len(Append(events, new)) = Len(events) + 1 /\ Len(events) \in Nat
    OBVIOUS
  <2>2. \A i \in 1 .. Len(events) + 1 : Append(events, new)[i] = IF i = Len(events) + 1 THEN new ELSE events[i]
    OBVIOUS
  <2> QED BY <1>1, <2>1, <2>2 DEF History
<1>2. ASSUME events # <<>>
      PROVE  History(now, Head(events), Tail(events)) /\ (Head(events) = Absent => seen # Absent)
  <2>1. Len(events) \in Nat \ {0} /\ Tail(events) \in Seq(S) /\ Len(Tail(events)) = Len(events) - 1
    BY <1>2
  <2>2. \A i \in 1 .. Len(Tail(events)) : Tail(events)[i] = events[i + 1]
    BY <1>2, <2>1
  <2>3. Head(events) = events[1]
    BY <1>2
  <2> QED BY <2>1, <2>2, <2>3 DEF History
<1> QED BY <1>1, <1>2

\* Pods come, change and go, and their informer and handler follow.
LEMMA PodTypes ==
    ASSUME TypeIInv, NEW p \in Pods, PodStep(p) \/ handlePodEvent(p) \/ handleTombstone(p)
    PROVE  TypeIInv'
<1> USE GatewayAssumption, AbsentAssumption
<1>1. UNCHANGED <<allocVars, haproxyVars, objVars, vsCache, dirty, wk>>
  BY DEF PodStep, handlePodEvent, handleTombstone
<1>2. BoundsOK'
  BY DEF PodStep, handlePodEvent, handleTombstone, boundVars, BoundsOK, TypeIInv
<1>3. PodsOK'
  <2> USE DEF TypeIInv, PodsOK
  <2>1. CASE PodStep(p)
    <3>1. /\ podEvents' = [podEvents EXCEPT ![p] = Append(@, podApi'[p])]
          /\ UNCHANGED <<podSeen, podCache, notifying>>
      BY <2>1 DEF PodStep
    <3>2. /\ podApi' = [podApi EXCEPT ![p] = podApi'[p]]
          /\ podApi'[p] \in PodObjects \cup {Absent}
          /\ podApi'[p] = Absent => podApi[p] # Absent
      <4>1. CASE podApi[p] = Absent /\ \E l \in Labels : podApi' = [podApi EXCEPT ![p] = [label |-> l, deleting |-> FALSE]]
        <5>1. PICK l \in Labels : podApi' = [podApi EXCEPT ![p] = [label |-> l, deleting |-> FALSE]]
          BY <4>1
        <5>2. [label |-> l, deleting |-> FALSE] \in PodObjects
          BY DEF PodObjects
        <5> QED BY <5>1, <5>2
      <4>2. CASE podApi[p] # Absent /\ \E l \in Labels \ {podApi[p].label} : podApi' = [podApi EXCEPT ![p].label = l]
        BY <4>2 DEF PodObjects
      <4>3. CASE podApi[p] # Absent /\ podApi' = [podApi EXCEPT ![p] = IF @.deleting THEN Absent ELSE [@ EXCEPT !.deleting = TRUE]]
        BY <4>3 DEF PodObjects
      <4> QED BY <2>1, <4>1, <4>2, <4>3 DEF PodStep
    <3>3. History(podApi'[p], podSeen[p], Append(podEvents[p], podApi'[p]))
      BY <3>2, HistoryGoesOn
    <3>4. podApi' \in [Pods -> PodObjects \cup {Absent}] /\ \A q \in Pods : q # p => podApi'[q] = podApi[q]
      BY <3>2
    <3>5. /\ podEvents' \in [Pods -> Seq(PodObjects \cup {Absent})]
          /\ \A q \in Pods : podEvents'[q] = IF q = p THEN Append(podEvents[p], podApi'[p]) ELSE podEvents[q]
      BY <3>1, <3>2
    <3> QED BY <3>1, <3>3, <3>4, <3>5
  <2>2. CASE handlePodEvent(p)
    <3> DEFINE new == Head(podEvents[p])
               pod == IF new = Absent THEN podSeen[p] ELSE new
    <3>1. podEvents[p] # <<>> /\ UNCHANGED podApi
      BY <2>2 DEF handlePodEvent
    <3>2. new \in PodObjects \cup {Absent} /\ Tail(podEvents[p]) \in Seq(PodObjects \cup {Absent})
      BY <3>1
    <3>3. History(podApi[p], new, Tail(podEvents[p])) /\ (new = Absent => podSeen[p] # Absent)
      BY <3>1, HistoryGoesOn
    <3>4. pod \in PodObjects
      BY <3>2, <3>3
    <3>5. pod.label \in Labels /\ (IF pod.deleting THEN Absent ELSE pod.label) \in Labels \cup {Absent}
      BY <3>4 DEF PodObjects
    <3>6. /\ podSeen' = [podSeen EXCEPT ![p] = new]
          /\ podEvents' = [podEvents EXCEPT ![p] = Tail(@)]
          /\ podCache' = [podCache EXCEPT ![p] = IF pod.deleting THEN Absent ELSE pod.label]
          /\ notifying' = pod.label
      BY <2>2 DEF handlePodEvent
    <3> HIDE DEF new, pod
    <3> QED BY <3>1, <3>2, <3>3, <3>5, <3>6
  <2>3. CASE handleTombstone(p)
    BY <2>3 DEF handleTombstone, History
  <2> QED BY <2>1, <2>2, <2>3
<1> QED BY <1>1, <1>2, <1>3, Untouched DEF TypeIInv

\* What else is delivered.
LEMMA DeliverTypes ==
    ASSUME TypeIInv,
           \/ \E v \in Owners : enqueueVirtualService(v) \/ ServiceInformer(v)
           \/ enqueueVirtualServicesForPod
    PROVE  TypeIInv'
<1>1. UNCHANGED <<allocVars, haproxyVars, wk, boundVars>>
  BY DEF enqueueVirtualService, ServiceInformer, enqueueVirtualServicesForPod
<1>2. PodsOK'
  BY DEF enqueueVirtualService, ServiceInformer, enqueueVirtualServicesForPod, TypeIInv, PodsOK, podVars
<1>3. ObjectsOK' /\ QueueOK'
  BY DEF enqueueVirtualService, ServiceInformer, enqueueVirtualServicesForPod, TypeIInv, ObjectsOK,
         QueueOK, objVars
<1> QED BY <1>1, <1>2, <1>3, Untouched DEF TypeIInv

\* The controller starts again.
LEMMA RestartTypes == ASSUME TypeIInv, Restart PROVE TypeIInv'
<1> USE GatewayAssumption DEF TypeIInv, Restart
<1>1. AllocTypeOK'
  BY DEF AllocTypeOK
<1>2. ProxyOK'
  BY NoEntriesIs DEF ProxyOK, RestartManager
<1>3. ObjectsOK' /\ QueueOK'
  BY DEF ObjectsOK, QueueOK
<1>4. PodsOK'
  <2>1. \A p \in Pods : podEvents'[p] = IF podApi[p] = Absent THEN <<>> ELSE <<podApi[p]>>
    OBVIOUS
  <2>2. \A p \in Pods : History(podApi'[p], podSeen'[p], podEvents'[p])
    <3> SUFFICES ASSUME NEW p \in Pods PROVE History(podApi'[p], podSeen'[p], podEvents'[p])
      OBVIOUS
    <3>1. podSeen'[p] = Absent /\ podApi'[p] = podApi[p]
      OBVIOUS
    <3>2. CASE podApi[p] = Absent
      BY <2>1, <3>1, <3>2 DEF History
    <3>3. CASE podApi[p] # Absent
      <4>1. podEvents'[p] = <<podApi[p]>> /\ Len(podEvents'[p]) = 1 /\ podEvents'[p][1] = podApi[p]
        BY <2>1, <3>3
      <4> QED BY <3>1, <3>3, <4>1 DEF History
    <3> QED BY <3>2, <3>3
  <2>3. podEvents' \in [Pods -> Seq(PodObjects \cup {Absent})]
    <3> DEFINE first(p) == IF podApi[p] = Absent THEN <<>> ELSE <<podApi[p]>>
    <3>1. \A p \in Pods : podApi[p] \in PodObjects \cup {Absent}
      BY DEF PodsOK
    <3>2. /\ <<>> \in Seq(PodObjects \cup {Absent})
          /\ \A x \in PodObjects \cup {Absent} : <<x>> \in Seq(PodObjects \cup {Absent})
      OBVIOUS
    <3>3. \A p \in Pods : first(p) \in Seq(PodObjects \cup {Absent})
      BY <3>1, <3>2, Zenon
    <3>4. podEvents' = [p \in Pods |-> first(p)]
      OBVIOUS
    <3> HIDE DEF first
    <3> QED BY <3>3, <3>4
  <2> QED BY <2>2, <2>3 DEF PodsOK
<1>5. WorkersOK'
  BY DEF WorkersOK, WorkerOK
<1>6. BoundsOK'
  BY DEF BoundsOK
<1> QED BY <1>1, <1>2, <1>3, <1>4, <1>5, <1>6

\* A worker that is not idle is busy with a key, and past the read with a copy.
LEMMA BusyIs ==
    ASSUME WorkersOK, NEW w \in Workers
    PROVE  /\ wk[w].pc = "idle" <=> wk[w] = Idle
           /\ wk[w].pc # "idle" => wk[w] \in Busy
           /\ wk[w].pc \notin {"idle", "read"} => wk[w].obj \in VirtualServices /\ wk[w].base \in VirtualServices
<1>1. Idle.pc = "idle" /\ \A r \in Busy : r.pc # "idle"
  BY DEF Idle, Busy, Normal, Finalizing
<1> QED BY <1>1 DEF WorkersOK, WorkerOK

\* One worker's record is replaced.
LEMMA WorkerSet ==
    ASSUME WorkersOK, NEW w \in Workers, NEW r, WorkerOK(r), wk' = [wk EXCEPT ![w] = r]
    PROVE  WorkersOK' /\ wk'[w] = r /\ \A x \in Workers : x # w => wk'[x] = wk[x]
BY DEF WorkersOK, WorkerOK

\* Finishing is idle again, with or without the key put back.
LEMMA FinishTypes ==
    ASSUME TypeIInv, NEW w \in Workers, wk[w].pc # "idle", NEW err, Finish(w, err)
    PROVE  WorkersOK' /\ dirty' \subseteq Owners
<1>1. WorkersOK'
  BY WorkerSet DEF Finish, WorkerOK, TypeIInv
<1>2. wk[w].key \in Owners
  BY BusyIs DEF TypeIInv, Busy
<1> QED BY <1>1, <1>2 DEF Finish, TypeIInv, QueueOK

\* ReleaseEach keeps the types of the maps.
LEMMA ReleaseEachTypes ==
    ASSUME AllocTypeOK, NEW o \in Owners, NEW ps, ReleaseEach(o, ps)
    PROVE  AllocTypeOK'
BY DEF AllocTypeOK, ReleaseEach, Owns

\* A worker takes a key, reads the lister's copy, and adds the finalizer.
LEMMA ReadTypes ==
    ASSUME TypeIInv, NEW w \in Workers, processNextWorkItem(w) \/ reconcile(w) \/ addFinalizer(w)
    PROVE  TypeIInv'
<1> USE DEF workerUnchanged
<1>1. CASE processNextWorkItem(w)
  <2>1. PICK v \in dirty \ Processing :
          /\ dirty' = dirty \ {v}
          /\ wk' = [wk EXCEPT ![w] = [pc |-> "read", key |-> v, obj |-> Absent, base |-> Absent,
                                      got |-> NoEntries, pods |-> {}, cond |-> "None"]]
    BY <1>1 DEF processNextWorkItem
  <2>2. WorkerOK([pc |-> "read", key |-> v, obj |-> Absent, base |-> Absent,
                  got |-> NoEntries, pods |-> {}, cond |-> "None"])
    BY NoEntriesIs DEF WorkerOK, Busy, Conditions, TypeIInv, QueueOK
  <2>3. WorkersOK'
    BY <2>1, <2>2, WorkerSet DEF TypeIInv
  <2>4. QueueOK'
    BY <1>1, <2>1 DEF processNextWorkItem, QueueOK, TypeIInv
  <2> QED BY <1>1, <2>3, <2>4, Untouched DEF processNextWorkItem, TypeIInv
<1>2. CASE reconcile(w)
  <2> DEFINE v == wk[w].key
  <2>1. wk[w] \in Busy /\ v \in Owners /\ wk[w].pc = "read" /\ wk[w].got = NoEntries
    BY <1>2, BusyIs DEF reconcile, At, TypeIInv, Busy, WorkersOK, WorkerOK
  <2>2. vsCache' \subseteq Owners
    BY <1>2, <2>1 DEF reconcile, TypeIInv, QueueOK
  <2>3. CASE Finish(w, FALSE)
    <3>1. WorkersOK' /\ dirty' \subseteq Owners
      BY <2>1, <2>3, FinishTypes
    <3> QED BY <1>2, <2>2, <3>1, Untouched DEF reconcile, TypeIInv, QueueOK
  <2>4. CASE ~Finish(w, FALSE)
    <3> DEFINE r == [wk[w] EXCEPT !.obj = lister[v], !.base = lister[v],
                                  !.pc = IF lister[v].deleting THEN "remove"
                                         ELSE IF lister[v].fin THEN "ports" ELSE "finalizer"]
    <3>1. lister[v] # Absent /\ wk' = [wk EXCEPT ![w] = r] /\ UNCHANGED dirty
      BY <1>2, <2>4 DEF reconcile
    <3>2. lister[v] \in VirtualServices
      BY <2>1, <3>1 DEF TypeIInv, ObjectsOK
    <3>3. WorkerOK(r)
      BY <2>1, <3>2 DEF WorkerOK, Busy, Normal, Finalizing
    <3>4. WorkersOK'
      BY <3>1, <3>3, WorkerSet DEF TypeIInv
    <3> QED BY <1>2, <2>2, <3>1, <3>4, Untouched DEF reconcile, TypeIInv, QueueOK
  <2> QED BY <2>3, <2>4
<1>3. CASE addFinalizer(w)
  <2> DEFINE v == wk[w].key
  <2>1. /\ wk[w] \in Busy /\ v \in Owners /\ wk[w].pc = "finalizer" /\ wk[w].got = NoEntries
        /\ wk[w].obj \in VirtualServices /\ wk[w].base \in VirtualServices
    BY <1>3, BusyIs DEF addFinalizer, At, TypeIInv, Busy, WorkersOK, WorkerOK
  <2>2. CASE Finish(w, TRUE) /\ UNCHANGED api
    <3>1. WorkersOK' /\ dirty' \subseteq Owners
      BY <2>1, <2>2, FinishTypes
    <3>2. ObjectsOK' /\ QueueOK'
      BY <1>3, <2>2, <3>1 DEF addFinalizer, ObjectsOK, QueueOK, TypeIInv
    <3> QED BY <1>3, <3>1, <3>2, Untouched DEF addFinalizer, TypeIInv
  <2>3. CASE ~(Finish(w, TRUE) /\ UNCHANGED api)
    <3> DEFINE r == [wk[w] EXCEPT !.pc = "ports", !.obj.fin = TRUE]
    <3>1. /\ Fresh(w) /\ api' = [api EXCEPT ![v].fin = TRUE]
          /\ wk' = [wk EXCEPT ![w] = r] /\ UNCHANGED dirty
      BY <1>3, <2>3 DEF addFinalizer
    <3>2. api[v] \in VirtualServices
      BY <2>1, <3>1 DEF Fresh
    <3>3. WorkerOK(r)
      BY <2>1 DEF WorkerOK, Busy, Normal, VirtualServices
    <3>4. WorkersOK'
      BY <3>1, <3>3, WorkerSet DEF TypeIInv
    <3>5. api' \in [Owners -> VirtualServices \cup {Absent}]
      BY <2>1, <3>1, <3>2 DEF VirtualServices, TypeIInv, ObjectsOK
    <3>6. ObjectsOK' /\ QueueOK'
      BY <1>3, <3>1, <3>5 DEF addFinalizer, ObjectsOK, QueueOK, TypeIInv
    <3> QED BY <1>3, <3>4, <3>6, Untouched DEF addFinalizer, TypeIInv
  <2> QED BY <2>2, <2>3
<1> QED BY <1>1, <1>2, <1>3

\* A worker checks the recorded ports and allocates.
LEMMA PortsTypes ==
    ASSUME TypeIInv, NEW w \in Workers, validateAndCheckPorts(w) \/ allocatePort(w)
    PROVE  TypeIInv'
<1> USE DEF workerUnchanged
<1> DEFINE v == wk[w].key
           obj == wk[w].obj
<1>1. /\ wk[w] \in Busy /\ v \in Owners /\ obj \in VirtualServices
      /\ wk[w].base \in VirtualServices /\ WorkerOK(wk[w])
  BY BusyIs DEF validateAndCheckPorts, allocatePort, At, TypeIInv, Busy, WorkersOK
<1>2. UNCHANGED <<haproxyVars, objVars, vsCache, dirty, podVars, boundVars>>
  BY DEF validateAndCheckPorts, allocatePort
<1>3. SUFFICES AllocTypeOK' /\ WorkersOK'
  BY <1>2, Untouched DEF TypeIInv
<1>4. CASE validateAndCheckPorts(w)
  <2>1. AllocTypeOK'
    BY <1>1, <1>4, Untouched, ReleaseEachTypes DEF validateAndCheckPorts, TypeIInv
  <2>2. wk[w].pc = "ports" /\ wk[w].got = NoEntries
    BY <1>1, <1>4 DEF validateAndCheckPorts, At, WorkerOK, Idle
  <2>3. obj.spec # {}
    BY <1>1, SpecsAre
  <2>4. WorkerOK([wk[w] EXCEPT !.pc = "service"]) /\ WorkerOK([wk[w] EXCEPT !.pc = "allocate"])
    BY <1>1, <2>2, <2>3, NoEntriesIs DEF WorkerOK, Busy, Normal
  <2>5. WorkerOK([wk[w] EXCEPT !.pc = "status", !.obj = obj, !.cond = "UnsupportedSpec"])
    BY <1>1 DEF WorkerOK, Busy, Normal, Conditions
  <2>6. \/ wk' = [wk EXCEPT ![w] = [wk[w] EXCEPT !.pc = "status", !.obj = obj, !.cond = "UnsupportedSpec"]]
        \/ wk' = [wk EXCEPT ![w] = [wk[w] EXCEPT !.pc = "service"]]
        \/ wk' = [wk EXCEPT ![w] = [wk[w] EXCEPT !.pc = "allocate"]]
    BY <1>4 DEF validateAndCheckPorts, Report, Goto
  <2> QED BY <2>1, <2>4, <2>5, <2>6, WorkerSet DEF TypeIInv
<1>5. CASE allocatePort(w)
  <2> DEFINE left == obj.spec \ DOMAIN wk[w].got
  <2>1. CASE Report(w, obj, "PortAllocationError") /\ ReleaseEach(v, RangeOf(wk[w].got))
    <3>1. WorkerOK([wk[w] EXCEPT !.pc = "status", !.obj = obj, !.cond = "PortAllocationError"])
      BY <1>1 DEF WorkerOK, Busy, Normal, Conditions
    <3> QED BY <1>1, <2>1, <3>1, WorkerSet, ReleaseEachTypes DEF Report, TypeIInv
  <2>2. CASE ~(Report(w, obj, "PortAllocationError") /\ ReleaseEach(v, RangeOf(wk[w].got)))
    <3> DEFINE got(p, s) == [x \in DOMAIN wk[w].got \cup {s} |-> IF x = s THEN p ELSE wk[w].got[x]]
    <3>1. PICK p \in Ports, s \in left :
            /\ Allocate(v, p)
            /\ wk' = [wk EXCEPT ![w] =
                        IF left = {s} THEN [@ EXCEPT !.pc = "service", !.obj.ports = got(p, s), !.got = NoEntries]
                                      ELSE [@ EXCEPT !.got = got(p, s)]]
      BY <1>5, <2>2 DEF allocatePort
    <3>2. AllocTypeOK'
      BY <1>1, <3>1 DEF Allocate, AllocTypeOK, TypeIInv
    <3>3. /\ DOMAIN wk[w].got \subseteq obj.spec /\ wk[w].pc = "allocate" /\ wk[w].got \in PortMaps
          /\ obj.spec \subseteq SvcPorts
      <4>1. wk[w].pc = "allocate"
        BY <1>5, Zenon DEF allocatePort, At
      <4>2. DOMAIN wk[w].got \subseteq obj.spec
        BY <1>1, <4>1 DEF WorkerOK, Idle
      <4>3. wk[w].got \in PortMaps
        BY <1>1 DEF Busy
      <4> QED BY <1>1, <4>1, <4>2, <4>3, SpecsAre
    <3>4. wk[w].got \in [DOMAIN wk[w].got -> Ports]
      BY <3>3, MapsAre
    <3>5. got(p, s) \in [DOMAIN wk[w].got \cup {s} -> Ports]
      BY <3>4
    <3>6. got(p, s) \in PortMaps /\ DOMAIN got(p, s) = DOMAIN wk[w].got \cup {s}
      BY <3>3, <3>5, MapsAre
    <3> HIDE DEF got
    <3>7. CASE left = {s}
      <4>1. [obj EXCEPT !.ports = got(p, s)] \in VirtualServices
        BY <1>1, <3>6 DEF VirtualServices
      <4>2. WorkerOK([wk[w] EXCEPT !.pc = "service", !.obj = [obj EXCEPT !.ports = got(p, s)], !.got = NoEntries])
        BY <1>1, <4>1, NoEntriesIs DEF WorkerOK, Busy, Normal
      <4>3. wk' = [wk EXCEPT ![w] = [wk[w] EXCEPT !.pc = "service", !.obj = [obj EXCEPT !.ports = got(p, s)], !.got = NoEntries]]
        BY <3>1, <3>7
      <4> QED BY <3>2, <4>2, <4>3, WorkerSet DEF TypeIInv
    <3>8. CASE left # {s}
      <4>1. DOMAIN got(p, s) \subseteq obj.spec /\ DOMAIN got(p, s) # obj.spec
        BY <3>3, <3>6, <3>8
      <4>2. WorkerOK([wk[w] EXCEPT !.got = got(p, s)])
        BY <1>1, <3>3, <3>6, <4>1 DEF WorkerOK, Busy
      <4>3. wk' = [wk EXCEPT ![w] = [wk[w] EXCEPT !.got = got(p, s)]]
        BY <3>1, <3>8
      <4> QED BY <3>2, <4>2, <4>3, WorkerSet DEF TypeIInv
    <3> QED BY <3>7, <3>8
  <2> QED BY <2>1, <2>2
<1> QED BY <1>4, <1>5

\* Goto and Report past the allocation keep what the worker holds.
LEMMA MoveTypes ==
    ASSUME TypeIInv, NEW w \in Workers, wk[w].pc \notin {"idle", "read"},
           \/ \E pc \in {"service", "slice", "proxy", "release", "unfinalize"} : Goto(w, pc)
           \/ \E c \in Conditions : Report(w, wk[w].obj, c)
           \/ \E ps \in SUBSET Pods : wk' = [wk EXCEPT ![w] = [@ EXCEPT !.pc = "slice", !.pods = ps]]
    PROVE  WorkersOK'
<1>1. /\ wk[w] \in Busy /\ wk[w].obj \in VirtualServices /\ wk[w].base \in VirtualServices
      /\ WorkerOK(wk[w])
  BY BusyIs DEF TypeIInv, WorkersOK
<1>2. ASSUME NEW pc \in {"service", "slice", "proxy", "release", "unfinalize"}
      PROVE  WorkerOK([wk[w] EXCEPT !.pc = pc])
  BY <1>1 DEF WorkerOK, Busy, Normal, Finalizing
<1>3. ASSUME NEW c \in Conditions
      PROVE  WorkerOK([wk[w] EXCEPT !.pc = "status", !.obj = wk[w].obj, !.cond = c])
  BY <1>1 DEF WorkerOK, Busy, Normal
<1>4. ASSUME NEW ps \in SUBSET Pods
      PROVE  WorkerOK([wk[w] EXCEPT !.pc = "slice", !.pods = ps])
  BY <1>1 DEF WorkerOK, Busy, Normal
<1> QED BY <1>2, <1>3, <1>4, WorkerSet DEF Goto, Report, TypeIInv

\* A worker writes the Service and the EndpointSlice.
LEMMA ServiceTypes ==
    ASSUME TypeIInv, NEW w \in Workers, ensureGeneratedService(w) \/ ensureEndpointSlice(w)
    PROVE  TypeIInv'
<1> USE DEF workerUnchanged
<1> DEFINE v == wk[w].key
           obj == wk[w].obj
<1>1. /\ wk[w] \in Busy /\ v \in Owners /\ obj \in VirtualServices /\ wk[w].pc \notin {"idle", "read"}
  BY BusyIs DEF ensureGeneratedService, ensureEndpointSlice, At, TypeIInv, Busy
<1>2. obj.uid \in 1 .. MaxUserOps /\ obj.ports \in PortMaps
  BY <1>1 DEF VirtualServices
<1>3. /\ UNCHANGED <<allocVars, haproxyVars, vsCache, dirty, podVars, boundVars>>
      /\ UNCHANGED <<api, lister>>
  BY DEF ensureGeneratedService, ensureEndpointSlice
<1>4. WorkersOK'
  <2>1. getMatchingPods(v) \in SUBSET Pods
    BY DEF getMatchingPods
  <2>2. {"ServiceConflict", "ReconcileError"} \subseteq Conditions
    BY DEF Conditions
  <2>3. \/ \E pc \in {"service", "slice", "proxy", "release", "unfinalize"} : Goto(w, pc)
        \/ \E c \in Conditions : Report(w, wk[w].obj, c)
        \/ \E ps \in SUBSET Pods : wk' = [wk EXCEPT ![w] = [@ EXCEPT !.pc = "slice", !.pods = ps]]
    BY <2>1, <2>2 DEF ensureGeneratedService, ensureEndpointSlice
  <2> QED BY <1>1, <2>3, MoveTypes
<1>5. ObjectsOK'
  <2> USE DEF TypeIInv, ObjectsOK
  <2>1. CASE ensureEndpointSlice(w)
    <3>1. [owner |-> obj.uid, ports |-> obj.ports] \in EndpointSlices
      BY <1>2 DEF EndpointSlices
    <3> QED BY <1>1, <1>3, <2>1, <3>1 DEF ensureEndpointSlice
  <2>2. CASE ensureGeneratedService(w)
    <3>1. UNCHANGED slice
      BY <2>2 DEF ensureGeneratedService
    <3>2. [owner |-> obj.uid, ports |-> obj.ports, rv |-> 0] \in Services
      BY <1>2 DEF Services
    <3>3. ASSUME NEW x \in Services
          PROVE  /\ [x EXCEPT !.ports = obj.ports] \in Services
                 /\ [x EXCEPT !.ports = obj.ports, !.rv = x.rv] \in Services
                 /\ [x EXCEPT !.ports = obj.ports, !.rv = 1 - x.rv] \in Services
      <4>1. x.rv \in 0 .. 1 /\ 1 - x.rv \in 0 .. 1
        BY DEF Services
      <4> QED BY <1>2, <4>1 DEF Services
    <3>4. \/ UNCHANGED svc
          \/ svc' = [svc EXCEPT ![v] = [owner |-> obj.uid, ports |-> obj.ports, rv |-> 0]]
          \/ svc[v] # Absent /\ svc' = [svc EXCEPT ![v] = [svc[v] EXCEPT !.ports = obj.ports, !.rv = svc[v].rv]]
          \/ svc[v] # Absent /\ svc' = [svc EXCEPT ![v] = [svc[v] EXCEPT !.ports = obj.ports, !.rv = 1 - svc[v].rv]]
      BY <2>2 DEF ensureGeneratedService
    <3>5. \A x \in Services \cup {Absent} : [svc EXCEPT ![v] = x] \in [Owners -> Services \cup {Absent}]
      BY <1>1
    <3>6. svc' \in [Owners -> Services \cup {Absent}]
      <4>1. svc[v] # Absent => svc[v] \in Services
        BY <1>1
      <4>2. CASE UNCHANGED svc
        BY <4>2
      <4>3. CASE svc' = [svc EXCEPT ![v] = [owner |-> obj.uid, ports |-> obj.ports, rv |-> 0]]
        BY <3>2, <3>5, <4>3
      <4>4. CASE svc[v] # Absent /\ svc' = [svc EXCEPT ![v] = [svc[v] EXCEPT !.ports = obj.ports, !.rv = svc[v].rv]]
        BY <3>3, <3>5, <4>1, <4>4
      <4>5. CASE svc[v] # Absent /\ svc' = [svc EXCEPT ![v] = [svc[v] EXCEPT !.ports = obj.ports, !.rv = 1 - svc[v].rv]]
        BY <3>3, <3>5, <4>1, <4>5
      <4> QED BY <3>4, <4>2, <4>3, <4>4, <4>5
    <3>7. \/ UNCHANGED svcLister
          \/ svcLister[v] # Absent /\ svcLister' = [svcLister EXCEPT ![v] = [svcLister[v] EXCEPT !.ports = obj.ports]]
      BY <2>2 DEF ensureGeneratedService
    <3>8. svcLister' \in [Owners -> Services \cup {Absent}]
      <4>1. svcLister[v] # Absent => [svcLister[v] EXCEPT !.ports = obj.ports] \in Services
        BY <1>1, <3>3
      <4>2. \A x \in Services : [svcLister EXCEPT ![v] = x] \in [Owners -> Services \cup {Absent}]
        BY <1>1
      <4> QED BY <3>7, <4>1, <4>2
    <3> QED BY <1>3, <3>1, <3>6, <3>8
  <2> QED BY <2>1, <2>2
<1> QED BY <1>3, <1>4, <1>5, Untouched DEF TypeIInv

\* The manager's maps stay maps, whatever transactions take effect.
LEMMA ManagerTypes ==
    ASSUME ProxyOK, NEW o \in Owners, NEW servers \in SUBSET Pods, NEW ok \in BOOLEAN
    PROVE  /\ \A ports \in PortMaps : \A applied \in SUBSET DOMAIN ports :
                Configure(o, ports, servers, applied, ok) => ProxyOK'
           /\ \A removed : Remove(o, removed, ok) => ProxyOK'
<1>1. /\ DOMAIN proxy[o] \subseteq SvcPorts
      /\ proxy[o] \in [DOMAIN proxy[o] -> [port : Ports, servers : SUBSET Pods]]
  BY MapsAre DEF ProxyOK
<1>2. ASSUME NEW ports \in PortMaps, NEW applied \in SUBSET DOMAIN ports,
             Configure(o, ports, servers, applied, ok)
      PROVE  ProxyOK'
  <2>1. DOMAIN ports \subseteq SvcPorts /\ \A s \in DOMAIN ports : ports[s] \in Ports
    BY <1>2, MapsAre
  <2>2. PICK ss \in [applied -> SUBSET UNION ({servers} \cup {ServersOf(o, s) : s \in applied})] :
          proxy' = [proxy EXCEPT ![o] = [s \in DOMAIN proxy[o] \cup applied |->
                      IF s \in applied THEN Frontend(ports[s], ss[s]) ELSE proxy[o][s]]]
    BY <1>2 DEF Configure, applyConfiguration
  <2>3. \A s \in applied : ss[s] \subseteq Pods
    <3>1. \A s \in applied : ServersOf(o, s) \subseteq Pods
      BY <1>1 DEF ServersOf
    <3>2. UNION ({servers} \cup {ServersOf(o, s) : s \in applied}) \subseteq Pods
      BY <3>1
    <3> QED BY <3>2
  <2> DEFINE new == [s \in DOMAIN proxy[o] \cup applied |->
                       IF s \in applied THEN Frontend(ports[s], ss[s]) ELSE proxy[o][s]]
  <2>4. new \in [DOMAIN proxy[o] \cup applied -> [port : Ports, servers : SUBSET Pods]]
    <3>1. \A s \in applied : Frontend(ports[s], ss[s]) \in [port : Ports, servers : SUBSET Pods]
      BY <2>1, <2>3 DEF Frontend
    <3>2. \A s \in DOMAIN proxy[o] : proxy[o][s] \in [port : Ports, servers : SUBSET Pods]
      BY <1>1
    <3> QED BY <3>1, <3>2, Zenon
  <2>5. new \in ProxyMaps
    BY <1>1, <2>1, <2>4, MapsAre
  <2> HIDE DEF new
  <2>6. proxy' \in [Owners -> ProxyMaps]
    BY <2>2, <2>5 DEF ProxyOK, new
  <2> QED BY <1>2, <2>6 DEF Configure, ProxyOK
<1>3. ASSUME NEW removed, Remove(o, removed, ok) PROVE ProxyOK'
  <2>1. [s \in DOMAIN proxy[o] \ removed |-> proxy[o][s]] \in ProxyMaps
    <3>1. [s \in DOMAIN proxy[o] \ removed |-> proxy[o][s]]
            \in [DOMAIN proxy[o] \ removed -> [port : Ports, servers : SUBSET Pods]]
      BY <1>1
    <3>2. DOMAIN proxy[o] \ removed \in SUBSET SvcPorts
      BY <1>1
    <3> QED BY <3>1, <3>2, MapsAre
  <2>2. proxy' = [proxy EXCEPT ![o] = [s \in DOMAIN proxy[o] \ removed |-> proxy[o][s]]]
    BY <1>3 DEF Remove, removeConfiguration
  <2>3. proxy' \in [Owners -> ProxyMaps]
    BY <2>1, <2>2 DEF ProxyOK
  <2>4. listeners' \in [Owners -> PortMaps]
    BY <1>3, NoEntriesIs DEF Remove, ProxyOK
  <2> QED BY <2>3, <2>4 DEF ProxyOK
<1> QED BY <1>2, <1>3

\* A worker configures HAProxy, or takes a marked object's listeners down.
LEMMA ProxyTypes ==
    ASSUME TypeIInv, NEW w \in Workers, configureHAProxy(w) \/ removeHAProxy(w)
    PROVE  TypeIInv'
<1> USE DEF workerUnchanged
<1>1. /\ wk[w] \in Busy /\ wk[w].key \in Owners /\ wk[w].obj \in VirtualServices
      /\ wk[w].pc \notin {"idle", "read"} /\ wk[w].pods \in SUBSET Pods
  BY BusyIs DEF configureHAProxy, removeHAProxy, At, TypeIInv, Busy
<1>2. wk[w].obj.ports \in PortMaps
  BY <1>1 DEF VirtualServices
<1>3. UNCHANGED <<allocVars, objVars, vsCache, dirty, podVars, boundVars>>
  BY DEF configureHAProxy, removeHAProxy
<1>4. WorkersOK'
  <2>1. "Ready" \in Conditions /\ "ReconcileError" \in Conditions
    BY DEF Conditions
  <2>2. Goto(w, "release") \/ \E c \in Conditions : Report(w, wk[w].obj, c)
    BY <2>1 DEF configureHAProxy, removeHAProxy
  <2> QED BY <1>1, <2>2, MoveTypes
<1>5. ProxyOK'
  <2>1. CASE configureHAProxy(w)
    BY <1>1, <1>2, <2>1, ManagerTypes DEF configureHAProxy, TypeIInv
  <2>2. CASE removeHAProxy(w)
    BY <1>1, <2>2, ManagerTypes DEF removeHAProxy, TypeIInv
  <2> QED BY <2>1, <2>2
<1> QED BY <1>3, <1>4, <1>5, Untouched DEF TypeIInv

\* A worker writes the status, or deletes what a marked object had and then its finalizer.
LEMMA EndTypes ==
    ASSUME TypeIInv, NEW w \in Workers,
           setConditionAndUpdate(w) \/ releaseAndDeleteObjects(w) \/ removeFinalizer(w)
    PROVE  TypeIInv'
<1> USE DEF workerUnchanged
<1> DEFINE v == wk[w].key
           obj == wk[w].obj
<1>1. /\ wk[w] \in Busy /\ v \in Owners /\ obj \in VirtualServices /\ wk[w].base \in VirtualServices
      /\ wk[w].pc \notin {"idle", "read"} /\ wk[w].cond \in Conditions
  BY BusyIs DEF setConditionAndUpdate, releaseAndDeleteObjects, removeFinalizer, At, TypeIInv, Busy
<1>2. CASE releaseAndDeleteObjects(w)
  <2>1. Goto(w, "unfinalize") /\ ReleaseEach(v, RangeOf(obj.ports))
    BY <1>2 DEF releaseAndDeleteObjects
  <2>2. WorkersOK' /\ AllocTypeOK'
    BY <1>1, <2>1, MoveTypes, ReleaseEachTypes DEF TypeIInv
  <2>3. ObjectsOK'
    BY <1>1, <1>2 DEF releaseAndDeleteObjects, ObjectsOK, TypeIInv
  <2> QED BY <1>2, <2>2, <2>3, Untouched DEF releaseAndDeleteObjects, TypeIInv
<1>3. CASE setConditionAndUpdate(w) \/ removeFinalizer(w)
  <2>1. Finish(w, FALSE) \/ Finish(w, TRUE)
    BY <1>3 DEF setConditionAndUpdate, removeFinalizer
  <2>2. WorkersOK' /\ dirty' \subseteq Owners
    BY <1>1, <2>1, FinishTypes
  <2>3. UNCHANGED <<allocVars, haproxyVars, lister, svc, svcLister, slice, vsCache, podVars, boundVars>>
    BY <1>3 DEF setConditionAndUpdate, removeFinalizer
  <2>4. \/ UNCHANGED api \/ api' = [api EXCEPT ![v] = Absent]
        \/ api[v] = wk[w].base /\ api' = [api EXCEPT ![v] = [api[v] EXCEPT !.ports = obj.ports, !.cond = wk[w].cond, !.obs = obj.gen]]
    BY <1>3 DEF setConditionAndUpdate, removeFinalizer, Fresh
  <2>5. ASSUME NEW x \in VirtualServices
        PROVE  [x EXCEPT !.ports = obj.ports, !.cond = wk[w].cond, !.obs = obj.gen] \in VirtualServices
    <3>1. obj.ports \in PortMaps /\ obj.gen \in 1 .. MaxUserOps
      BY <1>1 DEF VirtualServices
    <3>2. obj.gen \in 0 .. MaxUserOps
      BY <3>1
    <3> QED BY <1>1, <3>1, <3>2 DEF VirtualServices
  <2>6. api' \in [Owners -> VirtualServices \cup {Absent}]
    <3>1. \A x \in VirtualServices \cup {Absent} : [api EXCEPT ![v] = x] \in [Owners -> VirtualServices \cup {Absent}]
      BY <1>1 DEF TypeIInv, ObjectsOK
    <3>2. CASE UNCHANGED api
      BY <3>2 DEF TypeIInv, ObjectsOK
    <3>3. CASE api' = [api EXCEPT ![v] = Absent]
      BY <3>1, <3>3
    <3>4. CASE api[v] = wk[w].base /\ api' = [api EXCEPT ![v] = [api[v] EXCEPT !.ports = obj.ports, !.cond = wk[w].cond, !.obs = obj.gen]]
      BY <1>1, <2>5, <3>1, <3>4
    <3> QED BY <2>4, <3>2, <3>3, <3>4
  <2>7. ObjectsOK' /\ QueueOK'
    BY <2>2, <2>3, <2>6 DEF ObjectsOK, QueueOK, TypeIInv
  <2> QED BY <2>2, <2>3, <2>7, Untouched DEF TypeIInv
<1> QED BY <1>2, <1>3

\* Every step keeps the types.
LEMMA NextTypes == TypeIInv /\ [Next]_vars => TypeIInv'
<1> SUFFICES ASSUME TypeIInv, [Next]_vars PROVE TypeIInv'
  OBVIOUS
<1>1. CASE UNCHANGED vars
  BY <1>1, Untouched DEF vars, TypeIInv
<1>2. CASE Users
  BY <1>2, UserTypes, PodTypes DEF Users
<1>3. CASE Deliver
  BY <1>3, UserTypes, PodTypes, DeliverTypes DEF Deliver
<1>4. ASSUME NEW w \in Workers, Work(w) PROVE TypeIInv'
  BY <1>4, ReadTypes, PortsTypes, ServiceTypes, ProxyTypes, EndTypes DEF Work
<1> QED BY <1>1, <1>2, <1>3, <1>4, RestartTypes DEF Next

\* The controller's state is well typed, whatever users and pods do and wherever it is
\* restarted: no reconcile takes a port or a spec from an object that is not there.
THEOREM GatewayTypeCorrect == Spec => []TypeOK
<1>1. TypeIInv => TypeOK
  BY PartsAreTypes
<1> QED BY <1>1, InitTypes, NextTypes, PTL DEF Spec

-----------------------------------------------------------------------------
\* Who loses ports.

\* Only a worker changes the allocator, and only its own key's ports.
LEMMA OwnPorts ==
    ASSUME TypeIInv, NEW w \in Workers, Work(w)
    PROVE  \/ UNCHANGED allocVars
           \/ /\ wk[w] # Idle /\ wk[w].key \in Owners
              /\ \A o \in Owners : o # wk[w].key => ownerPorts'[o] = ownerPorts[o]
<1>1. CASE validateAndCheckPorts(w) \/ allocatePort(w) \/ releaseAndDeleteObjects(w)
  <2>1. wk[w] # Idle /\ wk[w].key \in Owners
    BY <1>1, BusyIs DEF validateAndCheckPorts, allocatePort, releaseAndDeleteObjects, At, TypeIInv, Busy
  <2>2. ASSUME NEW ps, ReleaseEach(wk[w].key, ps)
        PROVE  \A o \in Owners : o # wk[w].key => ownerPorts'[o] = ownerPorts[o]
    BY <2>1, <2>2 DEF ReleaseEach, TypeIInv, AllocTypeOK
  <2>3. ASSUME NEW p \in Ports, Allocate(wk[w].key, p)
        PROVE  \A o \in Owners : o # wk[w].key => ownerPorts'[o] = ownerPorts[o]
    BY <2>1, <2>3 DEF Allocate, TypeIInv, AllocTypeOK
  <2>4. \/ UNCHANGED allocVars \/ \E ps : ReleaseEach(wk[w].key, ps)
        \/ \E p \in Ports : Allocate(wk[w].key, p)
    BY <1>1, Zenon DEF validateAndCheckPorts, allocatePort, releaseAndDeleteObjects
  <2> QED BY <2>1, <2>2, <2>3, <2>4
<1>2. CASE ~(validateAndCheckPorts(w) \/ allocatePort(w) \/ releaseAndDeleteObjects(w))
  BY <1>2 DEF Work, processNextWorkItem, reconcile, addFinalizer, ensureGeneratedService,
         ensureEndpointSlice, configureHAProxy, setConditionAndUpdate, removeHAProxy, removeFinalizer
<1> QED BY <1>1, <1>2

\* A port leaves a VirtualService's list only while its own key is being reconciled, or at
\* a restart, for any number of workers, and whatever a stale status lists.
THEOREM PortsLostOnlyToOwner == Spec => PortsLostToOwnerOnly
<1> DEFINE A == \A o \in Owners : ~(ownerPorts[o] \subseteq ownerPorts'[o]) => o \in Processing \/ restarts' # restarts
<1>1. TypeIInv /\ [Next]_vars => [A]_vars
  <2> SUFFICES ASSUME TypeIInv, Next, NEW o \in Owners, ~(ownerPorts[o] \subseteq ownerPorts'[o])
               PROVE  o \in Processing \/ restarts' # restarts
    OBVIOUS
  <2>1. ~UNCHANGED allocVars
    BY DEF allocVars
  <2>2. CASE Restart
    BY <2>2 DEF Restart, TypeIInv, BoundsOK
  <2>3. ASSUME NEW w \in Workers, Work(w) PROVE o \in Processing
    BY <2>1, <2>3, OwnPorts DEF Processing
  <2>4. ~Users /\ ~Deliver
    BY <2>1 DEF Users, Deliver, CreateVirtualService, EditVirtualService, DeleteVirtualService,
           ReplaceService, CreateEndpointSlice, CollectService, PodStep, enqueueVirtualService,
           ServiceInformer, handlePodEvent, handleTombstone, enqueueVirtualServicesForPod, userUnchanged
  <2> QED BY <2>2, <2>3, <2>4 DEF Next
<1> QED BY <1>1, InitTypes, NextTypes, PTL DEF Spec, PortsLostToOwnerOnly

-----------------------------------------------------------------------------
\* What is recorded.

Working(w) == wk[w].pc \notin {"idle", "read"}

\* c is a copy of a's incarnation, or of an earlier one; then a is new: no worker that
\* has seen c has given it its finalizer or ports.
Older(c, a) ==
    /\ c.uid <= a.uid
    /\ c.uid = a.uid => c.spec = a.spec /\ (c.deleting => a.deleting) /\ (c.fin => a.fin)
    /\ c.uid # a.uid => ~a.fin /\ RangeOf(a.ports) = {}

\* An object that was seen with its finalizer and unmarked is there still: only the
\* finalization of its key lets it go.
StillThere(c, v) == c.fin /\ ~c.deleting => api[v] # Absent /\ api[v].uid = c.uid /\ api[v].fin

\* Ports are recorded for all of a spec or for none of it.
AllOrNone(c) == DOMAIN c.ports = c.spec \/ DOMAIN c.ports = {}

\* The ports a live object, or the informer's copy of one, records.
Recorded(v) ==
    (IF Live(v) THEN RangeOf(api[v].ports) ELSE {})
    \cup (IF lister[v] # Absent /\ ~lister[v].deleting THEN RangeOf(lister[v].ports) ELSE {})

\* The informer lags behind the API server, and the key owns what both record.
KeyKnows(v) ==
    /\ api[v] # Absent => api[v].uid <= userOps /\ AllOrNone(api[v])
    /\ lister[v] # Absent =>
         lister[v].uid <= userOps /\ AllOrNone(lister[v]) /\ StillThere(lister[v], v)
    /\ lister[v] # Absent /\ api[v] # Absent => Older(lister[v], api[v])
    /\ Recorded(v) \subseteq ownerPorts[v]

\* A worker's copy lags behind both; the key owns the ports of an unmarked copy, and those
\* it is allocating are not recorded.
WorkerKnows(w) ==
    LET me == wk[w]
        v == me.key
    IN
    /\ me.obj.uid = me.base.uid /\ me.obj.spec = me.base.spec /\ me.obj.deleting = me.base.deleting
    /\ me.base.uid <= userOps
    /\ api[v] # Absent => Older(me.base, api[v])
    /\ lister[v] # Absent => Older(me.base, lister[v])
    /\ StillThere(me.obj, v) /\ AllOrNone(me.obj)
    /\ me.pc \in Finalizing <=> me.obj.deleting
    /\ me.pc \in Normal => me.obj.fin
    /\ ~me.obj.deleting => RangeOf(me.obj.ports) \subseteq ownerPorts[v]
    /\ me.pc = "allocate" =>
         RangeOf(me.obj.ports) = {} /\ RangeOf(me.got) \subseteq ownerPorts[v] \ Recorded(v)

\* No key has two workers.
OneWorkerPerKey ==
    \A w, x \in Workers : wk[w] # Idle /\ wk[x] # Idle /\ wk[w].key = wk[x].key => w = x

RecordIInv ==
    /\ TypeIInv /\ MapsAgree /\ OneWorkerPerKey
    /\ \A v \in Owners : KeyKnows(v)
    /\ \A w \in Workers : Working(w) => WorkerKnows(w)

\* ReleaseEach takes the owner's ports among those named, out of both maps.
LEMMA ReleaseEachIs ==
    ASSUME AllocTypeOK, MapsAgree, NEW o \in Owners, NEW ps, ReleaseEach(o, ps)
    PROVE  /\ MapsAgree' /\ ownerPorts'[o] = ownerPorts[o] \ ps
           /\ \A u \in Owners : u # o => ownerPorts'[u] = ownerPorts[u]
<1> DEFINE mine == {p \in ps : Owns(o, p)}
<1>1. mine = ps \cap ownerPorts[o] /\ mine \subseteq Ports
  BY DEF Owns, AllocTypeOK, MapsAgree
<1>2. /\ allocated' = [p \in Ports |-> IF p \in mine THEN Free ELSE allocated[p]]
      /\ ownerPorts' = [ownerPorts EXCEPT ![o] = @ \ mine]
  BY DEF ReleaseEach
<1> HIDE DEF mine
<1>3. ownerPorts'[o] = ownerPorts[o] \ mine /\ \A u \in Owners : u # o => ownerPorts'[u] = ownerPorts[u]
  BY <1>2 DEF AllocTypeOK
<1>4. \A p \in Ports : allocated'[p] = IF p \in mine THEN Free ELSE allocated[p]
  BY <1>2
<1>5. MapsAgree'
  BY <1>1, <1>3, <1>4, FreeAssumption DEF MapsAgree
<1> QED BY <1>1, <1>3, <1>5

\* Allocate adds one port that the owner did not have.
LEMMA AllocateIs ==
    ASSUME AllocTypeOK, MapsAgree, NEW o \in Owners, NEW p \in Ports, Allocate(o, p)
    PROVE  /\ MapsAgree' /\ p \notin ownerPorts[o] /\ ownerPorts'[o] = ownerPorts[o] \cup {p}
           /\ \A u \in Owners : u # o => ownerPorts'[u] = ownerPorts[u]
BY FreeAssumption DEF AllocTypeOK, MapsAgree, Allocate, FirstAvailable, Available

\* A step that is about one key: it is enough to look at that key and its worker.
LEMMA OneKey ==
    ASSUME RecordIInv, TypeIInv', MapsAgree', NEW v \in Owners, userOps <= userOps',
           \A u \in Owners : u # v => /\ api'[u] = api[u] /\ lister'[u] = lister[u]
                                      /\ ownerPorts'[u] = ownerPorts[u],
           KeyKnows(v)',
           \A w \in Workers : \/ wk'[w] = wk[w] \/ wk'[w] = Idle
                              \/ wk[w] # Idle /\ wk[w].key = v /\ wk'[w].key = v,
           \A w \in Workers : Working(w)' /\ wk'[w].key = v => WorkerKnows(w)'
    PROVE  RecordIInv'
<1> USE DEF RecordIInv
<1>1. userOps \in Nat /\ userOps' \in Nat
  BY DEF TypeIInv, BoundsOK
<1>2. ASSUME NEW u \in Owners, u # v PROVE KeyKnows(u)'
  <2>1. /\ api[u] \in VirtualServices \cup {Absent} /\ lister[u] \in VirtualServices \cup {Absent}
    BY DEF TypeIInv, ObjectsOK
  <2>2. api[u] # Absent => api[u].uid \in Nat
    BY <2>1 DEF VirtualServices
  <2>3. lister[u] # Absent => lister[u].uid \in Nat
    BY <2>1 DEF VirtualServices
  <2> QED BY <1>1, <1>2, <2>2, <2>3 DEF KeyKnows, StillThere, Recorded, Live
<1>3. ASSUME NEW w \in Workers, Working(w)', wk'[w].key # v PROVE WorkerKnows(w)'
  <2>1. wk'[w] = wk[w] /\ Working(w)
    BY <1>3 DEF Working, Idle
  <2>2. wk[w].key \in Owners /\ wk[w].base.uid \in Nat
    <3>1. wk[w] \in Busy /\ wk[w].base \in VirtualServices
      BY <2>1, BusyIs DEF Working, TypeIInv
    <3> QED BY <3>1 DEF Busy, VirtualServices
  <2>3. WorkerKnows(w)
    BY <2>1
  <2>4. /\ api'[wk[w].key] = api[wk[w].key] /\ lister'[wk[w].key] = lister[wk[w].key]
        /\ ownerPorts'[wk[w].key] = ownerPorts[wk[w].key]
    BY <1>3, <2>1, <2>2
  <2>5. wk[w].base.uid <= userOps => wk[w].base.uid <= userOps'
    BY <1>1, <2>2
  <2>6. PICK u \in Owners, me \in Busy : u = wk[w].key /\ me = wk[w] /\ me = wk'[w]
    BY <2>1, <2>2, BusyIs DEF Working, TypeIInv
  <2>7. /\ api'[u] = api[u] /\ lister'[u] = lister[u] /\ ownerPorts'[u] = ownerPorts[u]
    BY <2>4, <2>6
  <2>8. StillThere(me.obj, u)' = StillThere(me.obj, u) /\ Recorded(u)' = Recorded(u)
    BY ONLY <2>7 DEF StillThere, Recorded, Live
  <2> QED BY ONLY <2>3, <2>5, <2>6, <2>7, <2>8 DEF WorkerKnows
<1>4. OneWorkerPerKey'
  BY DEF OneWorkerPerKey
<1> QED BY <1>2, <1>3, <1>4

\* A step that touches none of what the invariant is about.
LEMMA Elsewhere ==
    ASSUME RecordIInv, TypeIInv', UNCHANGED <<allocVars, api, lister, wk>>, userOps <= userOps'
    PROVE  RecordIInv'
<1>1. userOps \in Nat /\ userOps' \in Nat
  BY DEF RecordIInv, TypeIInv, BoundsOK
<1>2. \A v \in Owners : (api[v] # Absent => api[v].uid \in Nat) /\ (lister[v] # Absent => lister[v].uid \in Nat)
  BY DEF RecordIInv, TypeIInv, ObjectsOK, VirtualServices
<1>3. \A w \in Workers : Working(w) => wk[w].base.uid \in Nat
  <2>1. \A w \in Workers : Working(w) => wk[w].base \in VirtualServices
    BY BusyIs DEF Working, RecordIInv, TypeIInv
  <2> QED BY <2>1 DEF VirtualServices
<1>4. \A v \in Owners : KeyKnows(v)'
  BY <1>1, <1>2 DEF RecordIInv, KeyKnows, StillThere, Recorded, Live, allocVars
<1>5. \A w \in Workers : Working(w)' => WorkerKnows(w)'
  <2> SUFFICES ASSUME NEW w \in Workers, Working(w) PROVE WorkerKnows(w)'
    BY DEF Working
  <2>1. WorkerKnows(w)
    BY DEF RecordIInv
  <2> QED BY <1>1, <1>3, <2>1 DEF WorkerKnows, StillThere, Recorded, Live, allocVars
<1> QED BY <1>4, <1>5 DEF RecordIInv, MapsAgree, OneWorkerPerKey, allocVars

\* A VirtualService is created: nobody can have a copy of its incarnation.
LEMMA CreateRecord ==
    ASSUME RecordIInv, NEW v \in Owners, CreateVirtualService(v)
    PROVE  RecordIInv'
<1>1. TypeIInv' /\ TypeIInv /\ KeyKnows(v)
  BY UserTypes DEF RecordIInv
<1>2. /\ api[v] = Absent /\ userOps' = userOps + 1 /\ userOps \in Nat
      /\ UNCHANGED <<allocVars, lister, wk>>
  BY <1>1 DEF CreateVirtualService, UserStep, userUnchanged, TypeIInv, BoundsOK
<1>3. PICK spec \in Specs : api' = [api EXCEPT ![v] = NewVirtualService(spec, userOps')]
  BY DEF CreateVirtualService
<1>4. api'[v] = NewVirtualService(spec, userOps') /\ \A u \in Owners : u # v => api'[u] = api[u]
  BY <1>1, <1>3 DEF TypeIInv, ObjectsOK
<1>5. /\ api'[v].uid = userOps' /\ ~api'[v].fin /\ DOMAIN api'[v].ports = {}
      /\ RangeOf(api'[v].ports) = {} /\ ~api'[v].deleting
  BY <1>4, NoEntriesIs DEF NewVirtualService
<1>6. ASSUME NEW c \in VirtualServices, c.uid <= userOps PROVE Older(c, api[v])'
  <2>1. c.uid \in Nat
    BY DEF VirtualServices
  <2> QED BY <1>2, <1>5, <1>6, <2>1 DEF Older, RangeOf
<1>7. KeyKnows(v)'
  <2>1. lister[v] # Absent => lister[v] \in VirtualServices /\ lister[v].uid \in Nat
    BY <1>1 DEF TypeIInv, ObjectsOK, VirtualServices
  <2>2. lister[v] # Absent => lister[v].uid <= userOps /\ ~(lister[v].fin /\ ~lister[v].deleting)
                              /\ AllOrNone(lister[v])
    BY <1>1, <1>2 DEF KeyKnows, StillThere
  <2>3. lister[v] # Absent => Older(lister[v], api[v])'
    BY <1>2, <1>6, <2>1, <2>2
  <2>4. Recorded(v)' \subseteq Recorded(v)
    BY <1>2, <1>5 DEF Recorded, Live
  <2>5. Recorded(v)' \subseteq ownerPorts'[v]
    BY <1>1, <1>2, <2>4 DEF KeyKnows, allocVars
  <2>6. api'[v].uid <= userOps'
    BY <1>2, <1>5
  <2>7. lister[v] # Absent => lister[v].uid <= userOps'
    BY <1>2, <2>1, <2>2
  <2> QED BY <1>2, <1>5, <2>2, <2>3, <2>5, <2>6, <2>7 DEF KeyKnows, StillThere, AllOrNone
<1>8. ASSUME NEW w \in Workers, Working(w), wk[w].key = v PROVE WorkerKnows(w)'
  <2>1. WorkerKnows(w) /\ wk[w].base \in VirtualServices /\ wk[w] \in Busy
    BY <1>1, <1>8, BusyIs DEF RecordIInv, Working, TypeIInv
  <2>2. Older(wk[w].base, api[v])'
    BY <1>2, <1>6, <1>8, <2>1 DEF WorkerKnows
  <2>3. ~(wk[w].obj.fin /\ ~wk[w].obj.deleting)
    BY <1>2, <1>8, <2>1 DEF WorkerKnows, StillThere
  <2>4. wk[w].pc \notin Normal
    BY <2>1, <2>3 DEF WorkerKnows, Normal, Finalizing
  <2>5. wk[w].base.uid \in Nat
    BY <2>1 DEF VirtualServices
  <2>6. wk[w].pc # "allocate"
    BY <2>4 DEF Normal
  <2>7. wk[w].base.uid <= userOps'
    BY <1>2, <2>1, <2>5 DEF WorkerKnows
  <2> QED BY <1>2, <1>8, <2>1, <2>2, <2>3, <2>6, <2>7 DEF WorkerKnows, StillThere, allocVars
<1>9. MapsAgree'
  BY <1>2 DEF RecordIInv, MapsAgree, allocVars
<1> QED BY <1>1, <1>2, <1>4, <1>7, <1>8, <1>9, OneKey DEF Working, allocVars

\* A VirtualService is deleted, or marked when it has the finalizer.
LEMMA DeleteRecord ==
    ASSUME RecordIInv, NEW v \in Owners, DeleteVirtualService(v)
    PROVE  RecordIInv'
<1>1. TypeIInv' /\ TypeIInv /\ KeyKnows(v)
  BY UserTypes DEF RecordIInv
<1>2. /\ api[v] # Absent /\ userOps' = userOps + 1 /\ userOps \in Nat
      /\ UNCHANGED <<allocVars, lister, wk>>
  BY <1>1 DEF DeleteVirtualService, UserStep, userUnchanged, TypeIInv, BoundsOK
<1>3. api[v] \in VirtualServices /\ api[v].uid \in Nat
  BY <1>1, <1>2 DEF TypeIInv, ObjectsOK, VirtualServices
<1>4. /\ api'[v] = IF api[v].fin THEN [api[v] EXCEPT !.deleting = TRUE] ELSE Absent
      /\ \A u \in Owners : u # v => api'[u] = api[u]
  BY <1>1 DEF DeleteVirtualService, TypeIInv, ObjectsOK
<1>5. api[v].fin => /\ api'[v] # Absent /\ api'[v].uid = api[v].uid /\ api'[v].spec = api[v].spec
                    /\ api'[v].fin /\ api'[v].deleting /\ api'[v].ports = api[v].ports
  <2>1. api[v].fin => [api[v] EXCEPT !.deleting = TRUE] \in VirtualServices
    BY <1>3 DEF VirtualServices
  <2> QED BY <1>3, <1>4, <2>1, AbsentAssumption DEF VirtualServices
<1>6. ~Live(v)'
  BY <1>4, <1>5 DEF Live
<1>7. Recorded(v)' \subseteq Recorded(v)
  BY <1>2, <1>6 DEF Recorded
<1>8. ASSUME NEW c, Older(c, api[v]), StillThere(c, v)
      PROVE  (api'[v] # Absent => Older(c, api'[v])) /\ StillThere(c, v)'
  BY <1>2, <1>3, <1>4, <1>5, <1>8 DEF Older, StillThere
<1>9. KeyKnows(v)'
  <2>1. lister[v] # Absent => lister[v].uid \in Nat
    BY <1>1 DEF TypeIInv, ObjectsOK, VirtualServices
  <2>2. api'[v] # Absent => api'[v].uid <= userOps' /\ AllOrNone(api'[v])
    BY <1>1, <1>2, <1>3, <1>4, <1>5 DEF KeyKnows, AllOrNone
  <2>3. lister[v] # Absent => (api'[v] # Absent => Older(lister[v], api'[v])) /\ StillThere(lister[v], v)'
    BY <1>1, <1>2, <1>8 DEF KeyKnows
  <2>4. lister[v] # Absent => lister[v].uid <= userOps' /\ AllOrNone(lister[v])
    BY <1>1, <1>2, <2>1 DEF KeyKnows
  <2>5. Recorded(v)' \subseteq ownerPorts'[v]
    BY <1>1, <1>2, <1>7 DEF KeyKnows, allocVars
  <2> QED BY <1>2, <2>2, <2>3, <2>4, <2>5 DEF KeyKnows, StillThere
<1>10. ASSUME NEW w \in Workers, Working(w), wk[w].key = v PROVE WorkerKnows(w)'
  <2>1. WorkerKnows(w) /\ wk[w].base \in VirtualServices
    BY <1>1, <1>10, BusyIs DEF RecordIInv, Working, TypeIInv
  <2>2. wk[w].base.uid \in Nat
    BY <2>1 DEF VirtualServices
  <2>3. wk[w].base.uid <= userOps'
    BY <1>2, <2>1, <2>2 DEF WorkerKnows
  <2>4. api'[v] # Absent => Older(wk[w].base, api'[v])
    BY <1>2, <1>3, <1>4, <1>5, <1>10, <2>1 DEF Older, WorkerKnows
  <2>5. StillThere(wk[w].obj, v)'
    BY <1>2, <1>4, <1>5, <1>10, <2>1 DEF WorkerKnows, StillThere
  <2> QED BY <1>2, <1>7, <1>10, <2>1, <2>3, <2>4, <2>5 DEF WorkerKnows, StillThere, allocVars
<1>11. MapsAgree'
  BY <1>2 DEF RecordIInv, MapsAgree, allocVars
<1> QED BY <1>1, <1>2, <1>4, <1>9, <1>10, <1>11, OneKey DEF Working, allocVars

\* The informer delivers what the API server holds.
LEMMA InformerRecord ==
    ASSUME RecordIInv, NEW v \in Owners, enqueueVirtualService(v)
    PROVE  RecordIInv'
<1>1. TypeIInv' /\ TypeIInv /\ KeyKnows(v)
  BY DeliverTypes DEF RecordIInv
<1>2. UNCHANGED <<allocVars, api, wk, userOps>> /\ userOps \in Nat
  BY <1>1 DEF enqueueVirtualService, boundVars, TypeIInv, BoundsOK
<1>3. lister'[v] = api[v] /\ \A u \in Owners : u # v => lister'[u] = lister[u]
  BY <1>1 DEF enqueueVirtualService, TypeIInv, ObjectsOK
<1>4. api[v] # Absent => Older(api[v], api[v])
  BY <1>1 DEF Older, TypeIInv, ObjectsOK, VirtualServices
<1>5. Recorded(v)' \subseteq Recorded(v)
  BY <1>2, <1>3 DEF Recorded, Live
<1>6. KeyKnows(v)'
  <2>1. Recorded(v)' \subseteq ownerPorts'[v]
    BY <1>1, <1>2, <1>5 DEF KeyKnows, allocVars
  <2> QED BY <1>1, <1>2, <1>3, <1>4, <2>1 DEF KeyKnows, StillThere
<1>7. ASSUME NEW w \in Workers, Working(w), wk[w].key = v PROVE WorkerKnows(w)'
  <2>1. WorkerKnows(w)
    BY <1>7 DEF RecordIInv
  <2> QED BY <1>2, <1>3, <1>5, <1>7, <2>1 DEF WorkerKnows, StillThere, allocVars
<1>8. MapsAgree'
  BY <1>2 DEF RecordIInv, MapsAgree, allocVars
<1> QED BY <1>1, <1>2, <1>3, <1>6, <1>7, <1>8, OneKey DEF Working, allocVars

\* A step of the worker of a key: it is enough to look at the key and at that worker.
LEMMA OneWorker ==
    ASSUME RecordIInv, TypeIInv', MapsAgree', NEW w \in Workers, NEW v \in Owners,
           wk[w] # Idle, wk[w].key = v, UNCHANGED <<lister, userOps>>,
           \A u \in Owners : u # v => api'[u] = api[u] /\ ownerPorts'[u] = ownerPorts[u],
           \A x \in Workers : x # w => wk'[x] = wk[x],
           wk'[w] = Idle \/ wk'[w].key = v,
           KeyKnows(v)', Working(w)' => WorkerKnows(w)'
    PROVE  RecordIInv'
<1>1. ASSUME NEW x \in Workers, x # w, Working(x)', wk'[x].key = v PROVE FALSE
  <2>1. wk[x] # Idle /\ wk[x].key = v
    BY <1>1 DEF Working, Idle
  <2> QED BY <1>1, <2>1 DEF RecordIInv, OneWorkerPerKey
<1>2. \A x \in Workers : \/ wk'[x] = wk[x] \/ wk'[x] = Idle
                         \/ wk[x] # Idle /\ wk[x].key = v /\ wk'[x].key = v
  OBVIOUS
<1>3. userOps <= userOps'
  BY DEF RecordIInv, TypeIInv, BoundsOK
<1> QED BY <1>1, <1>2, <1>3, OneKey

\* A worker goes on with what it holds, or is done, and nothing is recorded or released.
LEMMA MoveRecord ==
    ASSUME RecordIInv, TypeIInv', NEW w \in Workers, wk[w] # Idle,
           UNCHANGED <<allocVars, api, lister, userOps>>,
           \A x \in Workers : x # w => wk'[x] = wk[x],
           \/ wk'[w] = Idle
           \/ /\ Working(w)
              /\ wk'[w].key = wk[w].key /\ wk'[w].obj = wk[w].obj /\ wk'[w].base = wk[w].base
              /\ \/ wk[w].pc \in Normal /\ wk'[w].pc \in Normal \ {"allocate"}
                 \/ wk[w].pc \in Finalizing /\ wk'[w].pc \in Finalizing
    PROVE  RecordIInv'
<1>1. TypeIInv /\ userOps \in Nat /\ \E v \in Owners : v = wk[w].key
  BY BusyIs DEF RecordIInv, TypeIInv, BoundsOK, Busy
<1> PICK v \in Owners : v = wk[w].key
  BY <1>1
<1>2. KeyKnows(v)'
  <2>1. KeyKnows(v)
    BY DEF RecordIInv
  <2> QED BY <2>1 DEF KeyKnows, StillThere, Recorded, Live, allocVars
<1>3. ASSUME Working(w)' PROVE WorkerKnows(w)'
  <2>1. wk'[w] # Idle
    BY <1>3 DEF Working, Idle
  <2>2. WorkerKnows(w)
    BY <2>1 DEF RecordIInv
  <2>3. wk'[w].pc # "allocate" /\ (wk'[w].pc \in Finalizing <=> wk[w].pc \in Finalizing)
        /\ (wk'[w].pc \in Normal => wk[w].pc \in Normal)
    BY <2>1 DEF Normal, Finalizing
  <2> QED BY <2>1, <2>2, <2>3 DEF WorkerKnows, StillThere, Recorded, Live, allocVars
<1>4. MapsAgree'
  BY DEF RecordIInv, MapsAgree, allocVars
<1> QED BY <1>1, <1>2, <1>3, <1>4, OneWorker DEF allocVars

\* A worker takes a key that nobody works on, and reads the lister.
LEMMA ReadRecord ==
    ASSUME RecordIInv, NEW w \in Workers, processNextWorkItem(w) \/ reconcile(w)
    PROVE  RecordIInv'
<1>1. TypeIInv' /\ TypeIInv
  BY ReadTypes DEF RecordIInv
<1>2. UNCHANGED <<allocVars, api, lister, userOps>> /\ userOps \in Nat
  <2>1. UNCHANGED <<allocVars, objVars, workerUnchanged>>
    BY DEF processNextWorkItem, reconcile
  <2>2. userOps \in Nat
    BY <1>1 DEF TypeIInv, BoundsOK
  <2> QED BY <2>1, <2>2 DEF objVars, workerUnchanged, boundVars
<1>3. MapsAgree'
  BY <1>2 DEF RecordIInv, MapsAgree, allocVars
<1>4. CASE processNextWorkItem(w)
  <2>1. PICK v \in dirty \ Processing :
          wk' = [wk EXCEPT ![w] = [pc |-> "read", key |-> v, obj |-> Absent, base |-> Absent,
                                   got |-> NoEntries, pods |-> {}, cond |-> "None"]]
    BY <1>4 DEF processNextWorkItem
  <2>2. /\ \A x \in Workers : x # w => wk'[x] = wk[x]
        /\ wk'[w].pc = "read" /\ wk'[w].key = v
    BY <1>1, <2>1 DEF TypeIInv, WorkersOK
  <2>3. \A x \in Workers : wk[x] # Idle => wk[x].key # v
    BY DEF Processing
  <2>4. OneWorkerPerKey'
    BY <2>2, <2>3 DEF OneWorkerPerKey, RecordIInv
  <2>5. \A v_1 \in Owners : KeyKnows(v_1)'
    BY <1>2 DEF RecordIInv, KeyKnows, StillThere, Recorded, Live, allocVars
  <2>6. ASSUME NEW x \in Workers, Working(x)' PROVE WorkerKnows(x)'
    <3>1. x # w /\ wk'[x] = wk[x] /\ Working(x)
      BY <2>2, <2>6 DEF Working
    <3>2. WorkerKnows(x)
      BY <3>1 DEF RecordIInv
    <3> QED BY <1>2, <3>1, <3>2 DEF WorkerKnows, StillThere, Recorded, Live, allocVars
  <2> QED BY <1>1, <1>3, <2>4, <2>5, <2>6 DEF RecordIInv
<1>5. CASE reconcile(w)
  <2>0. wk[w] \in Busy /\ wk[w] # Idle /\ \E v \in Owners : v = wk[w].key
    BY <1>1, <1>5, BusyIs DEF reconcile, At, TypeIInv, Busy
  <2> PICK v \in Owners : v = wk[w].key
    BY <2>0
  <2>1. wk[w] \in Busy /\ v \in Owners /\ wk[w] # Idle
    BY <2>0
  <2>2. CASE Finish(w, FALSE)
    <3>1. wk'[w] = Idle /\ \A x \in Workers : x # w => wk'[x] = wk[x]
      BY <1>1, <2>2 DEF Finish, TypeIInv, WorkersOK
    <3> QED BY <1>1, <1>2, <2>1, <3>1, MoveRecord
  <2>3. CASE ~Finish(w, FALSE)
    <3> DEFINE r == [wk[w] EXCEPT !.obj = lister[v], !.base = lister[v],
                                  !.pc = IF lister[v].deleting THEN "remove"
                                         ELSE IF lister[v].fin THEN "ports" ELSE "finalizer"]
    <3>1. lister[v] # Absent /\ wk' = [wk EXCEPT ![w] = r]
      BY <1>5, <2>3 DEF reconcile
    <3>2. wk'[w] = r /\ \A x \in Workers : x # w => wk'[x] = wk[x]
      BY <1>1, <3>1 DEF TypeIInv, WorkersOK
    <3>3. /\ wk'[w].key = v /\ wk'[w].obj = lister[v] /\ wk'[w].base = lister[v]
          /\ wk'[w].pc = IF lister[v].deleting THEN "remove"
                         ELSE IF lister[v].fin THEN "ports" ELSE "finalizer"
      BY <2>1, <3>2 DEF Busy
    <3> HIDE DEF r
    <3>4. KeyKnows(v) /\ lister[v] \in VirtualServices /\ lister[v].uid \in Nat
      BY <1>1, <2>1, <3>1 DEF RecordIInv, TypeIInv, ObjectsOK, VirtualServices
    <3>5. Older(lister[v], lister[v])
      BY <3>4 DEF Older
    <3>6. lister[v].deleting \in BOOLEAN
      BY <3>4 DEF VirtualServices
    <3>7. WorkerKnows(w)'
      <4>1. ~lister[v].deleting => RangeOf(lister[v].ports) \subseteq ownerPorts[v]
        BY <3>1, <3>4 DEF KeyKnows, Recorded
      <4>2. /\ wk'[w].pc \in Finalizing <=> lister[v].deleting
            /\ wk'[w].pc \in Normal => lister[v].fin
            /\ wk'[w].pc # "allocate"
        BY <3>3, <3>6 DEF Normal, Finalizing
      <4> QED BY <1>2, <3>1, <3>3, <3>4, <3>5, <4>1, <4>2 DEF WorkerKnows, KeyKnows, StillThere, allocVars
    <3>8. KeyKnows(v)'
      BY <1>2, <3>4 DEF KeyKnows, StillThere, Recorded, Live, allocVars
    <3> QED BY <1>1, <1>2, <1>3, <2>1, <3>2, <3>3, <3>7, <3>8, OneWorker DEF allocVars
  <2> QED BY <2>2, <2>3
<1> QED BY <1>4, <1>5

\* A worker whose base is what the API server holds: the informer has that incarnation too,
\* if any.
LEMMA FreshIs ==
    ASSUME RecordIInv, NEW w \in Workers, Working(w), NEW v \in Owners, wk[w].key = v, Fresh(w)
    PROVE  /\ api[v] = wk[w].base /\ api[v] # Absent /\ api[v] \in VirtualServices
           /\ lister[v] # Absent => /\ lister[v].uid = api[v].uid /\ lister[v].spec = api[v].spec
                                    /\ api[v].deleting => lister[v].deleting
<1>1. wk[w].base \in VirtualServices /\ WorkerKnows(w) /\ KeyKnows(v)
  BY BusyIs DEF RecordIInv, TypeIInv, Working
<1>2. api[v] = wk[w].base /\ api[v] # Absent
  BY <1>1, AbsentAssumption DEF Fresh
<1>3. lister[v] # Absent => lister[v] \in VirtualServices
  BY DEF RecordIInv, TypeIInv, ObjectsOK
<1>4. api[v].uid \in Nat /\ (lister[v] # Absent => lister[v].uid \in Nat)
  BY <1>1, <1>2, <1>3 DEF VirtualServices
<1>5. lister[v] # Absent => Older(api[v], lister[v]) /\ Older(lister[v], api[v])
  BY <1>1, <1>2 DEF WorkerKnows, KeyKnows
<1> QED BY <1>1, <1>2, <1>4, <1>5 DEF Older

\* The finalizer is added, to the incarnation the worker has seen.
LEMMA FinalizerRecord ==
    ASSUME RecordIInv, NEW w \in Workers, addFinalizer(w)
    PROVE  RecordIInv'
<1>1. TypeIInv' /\ TypeIInv /\ At(w, "finalizer")
  BY ReadTypes DEF RecordIInv, addFinalizer
<1>2. /\ wk[w] \in Busy /\ wk[w] # Idle /\ \E v \in Owners : v = wk[w].key
      /\ Working(w) /\ wk[w].obj \in VirtualServices /\ wk[w].pc = "finalizer"
  BY <1>1, BusyIs DEF At, TypeIInv, Busy, Working
<1> PICK v \in Owners : v = wk[w].key
  BY <1>2
<1>3. UNCHANGED <<allocVars, lister, userOps>>
  BY DEF addFinalizer, workerUnchanged, boundVars
<1>4. MapsAgree'
  BY <1>3 DEF RecordIInv, MapsAgree, allocVars
<1>5. CASE Finish(w, TRUE) /\ UNCHANGED api
  <2>1. wk'[w] = Idle /\ \A x \in Workers : x # w => wk'[x] = wk[x]
    BY <1>1, <1>5 DEF Finish, TypeIInv, WorkersOK
  <2> QED BY <1>1, <1>2, <1>3, <1>5, <2>1, MoveRecord
<1>6. CASE ~(Finish(w, TRUE) /\ UNCHANGED api)
  <2>1. /\ Fresh(w) /\ api' = [api EXCEPT ![v].fin = TRUE]
        /\ wk' = [wk EXCEPT ![w] = [@ EXCEPT !.pc = "ports", !.obj.fin = TRUE]]
    BY <1>6 DEF addFinalizer
  <2>2. /\ api[v] = wk[w].base /\ api[v] \in VirtualServices /\ api[v] # Absent
        /\ lister[v] # Absent => lister[v].uid = api[v].uid /\ lister[v].spec = api[v].spec
    BY <1>2, <2>1, FreshIs
  <2>3. api'[v] = [api[v] EXCEPT !.fin = TRUE] /\ \A u \in Owners : u # v => api'[u] = api[u]
    BY <1>1, <2>1 DEF TypeIInv, ObjectsOK
  <2>4. /\ api'[v] # Absent /\ api'[v].uid = api[v].uid /\ api'[v].spec = api[v].spec
        /\ api'[v].fin /\ api'[v].deleting = api[v].deleting /\ api'[v].ports = api[v].ports
    <3>1. [api[v] EXCEPT !.fin = TRUE] \in VirtualServices
      BY <2>2 DEF VirtualServices
    <3> QED BY <2>2, <2>3, <3>1, AbsentAssumption DEF VirtualServices
  <2>5. /\ wk'[w] = [wk[w] EXCEPT !.pc = "ports", !.obj = [wk[w].obj EXCEPT !.fin = TRUE]]
        /\ \A x \in Workers : x # w => wk'[x] = wk[x]
    BY <1>1, <2>1 DEF TypeIInv, WorkersOK
  <2>6. /\ wk'[w].key = v /\ wk'[w].base = wk[w].base /\ wk'[w].pc = "ports"
        /\ wk'[w].obj = [wk[w].obj EXCEPT !.fin = TRUE]
    BY <1>2, <2>5 DEF Busy
  <2>7. /\ wk'[w].obj.uid = wk[w].obj.uid /\ wk'[w].obj.spec = wk[w].obj.spec
        /\ wk'[w].obj.deleting = wk[w].obj.deleting /\ wk'[w].obj.ports = wk[w].obj.ports
        /\ wk'[w].obj.fin
    BY <1>2, <2>6 DEF VirtualServices
  <2>8. KeyKnows(v) /\ WorkerKnows(w)
    BY <1>2 DEF RecordIInv
  <2>9. Recorded(v)' = Recorded(v)
    BY <1>3, <2>2, <2>4 DEF Recorded, Live
  <2>10. lister[v] # Absent => Older(lister[v], api'[v])
    BY <2>2, <2>4, <2>8 DEF KeyKnows, Older
  <2>11. KeyKnows(v)'
    BY <1>3, <2>2, <2>4, <2>8, <2>9, <2>10 DEF KeyKnows, AllOrNone, StillThere, allocVars
  <2>12. Older(wk[w].base, api'[v])
    BY <2>2, <2>4, <2>8 DEF WorkerKnows, Older
  <2>13. WorkerKnows(w)'
    <3>1. ~wk[w].obj.deleting /\ wk'[w].pc \notin Finalizing /\ wk'[w].pc # "allocate"
      BY <1>2, <2>6, <2>8 DEF WorkerKnows, Finalizing
    <3> QED BY <1>3, <2>2, <2>4, <2>6, <2>7, <2>8, <2>12, <3>1 DEF WorkerKnows, AllOrNone, StillThere, allocVars
  <2> QED BY <1>1, <1>2, <1>3, <1>4, <2>3, <2>5, <2>6, <2>11, <2>13, OneWorker, ZenonT(60) DEF allocVars
<1> QED BY <1>5, <1>6

\* The status is written, to the incarnation whose ports it records; the last finalizer of
\* a marked object is removed.
LEMMA WriteRecord ==
    ASSUME RecordIInv, NEW w \in Workers, setConditionAndUpdate(w) \/ removeFinalizer(w)
    PROVE  RecordIInv'
<1>1. TypeIInv' /\ TypeIInv /\ (At(w, "status") \/ At(w, "unfinalize"))
  BY EndTypes DEF RecordIInv, setConditionAndUpdate, removeFinalizer
<1>2. /\ wk[w] \in Busy /\ wk[w] # Idle /\ \E v \in Owners : v = wk[w].key
      /\ Working(w) /\ wk[w].obj \in VirtualServices
  BY <1>1, BusyIs DEF At, TypeIInv, Busy, Working
<1> PICK v \in Owners : v = wk[w].key
  BY <1>2
<1>3. UNCHANGED <<allocVars, lister, userOps>> /\ (Finish(w, FALSE) \/ Finish(w, TRUE))
  BY DEF setConditionAndUpdate, removeFinalizer, workerUnchanged, boundVars
<1>4. MapsAgree'
  BY <1>3 DEF RecordIInv, MapsAgree, allocVars
<1>5. wk'[w] = Idle /\ \A x \in Workers : x # w => wk'[x] = wk[x]
  BY <1>1, <1>3 DEF Finish, TypeIInv, WorkersOK
<1>6. ~Working(w)'
  BY <1>5 DEF Working, Idle
<1>7. KeyKnows(v) /\ WorkerKnows(w)
  BY <1>2 DEF RecordIInv
<1>8. CASE UNCHANGED api
  BY <1>1, <1>2, <1>3, <1>5, <1>8, MoveRecord
<1>9. CASE ~UNCHANGED api /\ setConditionAndUpdate(w)
  <2>1. /\ Fresh(w) /\ wk[w].pc = "status"
        /\ api' = [api EXCEPT ![v] = [@ EXCEPT !.ports = wk[w].obj.ports, !.cond = wk[w].cond, !.obs = wk[w].obj.gen]]
    BY <1>9 DEF setConditionAndUpdate, At
  <2>2. /\ api[v] = wk[w].base /\ api[v] \in VirtualServices /\ api[v] # Absent
        /\ lister[v] # Absent => lister[v].uid = api[v].uid /\ lister[v].spec = api[v].spec
    BY <1>2, <2>1, FreshIs
  <2>3. /\ api'[v] = [api[v] EXCEPT !.ports = wk[w].obj.ports, !.cond = wk[w].cond, !.obs = wk[w].obj.gen]
        /\ \A u \in Owners : u # v => api'[u] = api[u]
    BY <1>1, <2>1 DEF TypeIInv, ObjectsOK
  <2>4. /\ api'[v].uid = api[v].uid /\ api'[v].spec = api[v].spec
        /\ api'[v].fin = api[v].fin /\ api'[v].deleting = api[v].deleting
        /\ api'[v].ports = wk[w].obj.ports
    BY <2>2, <2>3 DEF VirtualServices
  <2>5. api'[v] # Absent
    <3>2. wk[w].obj.ports \in PortMaps /\ wk[w].cond \in Conditions /\ wk[w].obj.gen \in 1 .. MaxUserOps
      BY <1>2 DEF VirtualServices, Busy
    <3>3. wk[w].obj.gen \in 0 .. MaxUserOps
      BY <3>2
    <3>4. api'[v] \in VirtualServices
      BY <2>2, <2>3, <3>2, <3>3 DEF VirtualServices
    <3> QED BY <3>4, AbsentAssumption
  <2>6. ~wk[w].obj.deleting /\ RangeOf(wk[w].obj.ports) \subseteq ownerPorts[v]
    BY <1>7, <2>1 DEF WorkerKnows, Finalizing
  <2>7. Recorded(v)' \subseteq ownerPorts'[v]
    <3>1. ownerPorts' = ownerPorts /\ lister' = lister
      BY <1>3 DEF allocVars
    <3>2. RangeOf(api'[v].ports) \subseteq ownerPorts[v]
      BY <2>4, <2>6
    <3>3. lister[v] # Absent /\ ~lister[v].deleting => RangeOf(lister[v].ports) \subseteq ownerPorts[v]
      BY <1>7 DEF KeyKnows, Recorded
    <3> QED BY ONLY <3>1, <3>2, <3>3 DEF Recorded, Live
  <2>8. lister[v] # Absent => Older(lister[v], api'[v])
    BY <1>7, <2>2, <2>4 DEF KeyKnows, Older
  <2>9. AllOrNone(api'[v])
    BY <1>7, <2>2, <2>4 DEF WorkerKnows, AllOrNone
  <2>10. KeyKnows(v)'
    BY <1>3, <1>7, <2>2, <2>4, <2>5, <2>7, <2>8, <2>9 DEF KeyKnows, StillThere
  <2> QED BY <1>1, <1>2, <1>3, <1>4, <1>5, <1>6, <2>3, <2>10, OneWorker DEF allocVars
<1>10. CASE ~UNCHANGED api /\ removeFinalizer(w)
  <2>1. Fresh(w) /\ wk[w].pc = "unfinalize" /\ api' = [api EXCEPT ![v] = Absent]
    BY <1>10 DEF removeFinalizer, At
  <2>2. /\ api[v] = wk[w].base /\ api[v] \in VirtualServices
        /\ lister[v] # Absent => (api[v].deleting => lister[v].deleting)
    BY <1>2, <2>1, FreshIs
  <2>3. api'[v] = Absent /\ \A u \in Owners : u # v => api'[u] = api[u]
    BY <1>1, <2>1 DEF TypeIInv, ObjectsOK
  <2>4. api[v].deleting
    BY <1>7, <2>1, <2>2 DEF WorkerKnows, Finalizing
  <2>5. lister[v] # Absent => lister[v].deleting
    BY <2>2, <2>4
  <2>6. Recorded(v)' \subseteq ownerPorts'[v]
    BY <1>3, <2>3, <2>5 DEF Recorded, Live
  <2>7. KeyKnows(v)'
    BY <1>3, <1>7, <2>3, <2>5, <2>6 DEF KeyKnows, StillThere
  <2> QED BY <1>1, <1>2, <1>3, <1>4, <1>5, <1>6, <2>3, <2>7, OneWorker DEF allocVars
<1> QED BY <1>8, <1>9, <1>10

\* The places where a worker only goes on: Service, EndpointSlice and HAProxy.
LEMMA ConfigureRecord ==
    ASSUME RecordIInv, NEW w \in Workers,
           \/ ensureGeneratedService(w) \/ ensureEndpointSlice(w)
           \/ configureHAProxy(w) \/ removeHAProxy(w)
    PROVE  RecordIInv'
<1>1. TypeIInv' /\ TypeIInv
  BY ServiceTypes, ProxyTypes DEF RecordIInv
<1>2. UNCHANGED <<allocVars, api, lister, userOps>>
  BY DEF ensureGeneratedService, ensureEndpointSlice, configureHAProxy, removeHAProxy,
         workerUnchanged, boundVars, objVars
<1>3. wk[w].pc \in {"service", "slice", "proxy"} \/ (wk[w].pc = "remove" /\ Goto(w, "release"))
  BY DEF ensureGeneratedService, ensureEndpointSlice, configureHAProxy, removeHAProxy, At
<1>4. wk[w] \in Busy /\ Working(w) /\ wk[w] # Idle
  BY <1>1, <1>3, BusyIs DEF Working, TypeIInv
<1>5. /\ \A x \in Workers : x # w => wk'[x] = wk[x]
      /\ wk'[w].key = wk[w].key /\ wk'[w].obj = wk[w].obj /\ wk'[w].base = wk[w].base
      /\ \/ wk[w].pc \in Normal /\ wk'[w].pc \in Normal \ {"allocate"}
         \/ wk[w].pc \in Finalizing /\ wk'[w].pc \in Finalizing
  <2> USE <1>1, <1>4 DEF TypeIInv, WorkersOK, Busy, Normal, Finalizing
  <2>1. CASE wk[w].pc \in {"service", "slice", "proxy"} /\ \E c : Report(w, wk[w].obj, c)
    BY <2>1 DEF Report
  <2>2. CASE Goto(w, "proxy") /\ wk[w].pc = "slice"
    BY <2>2 DEF Goto
  <2>3. CASE Goto(w, "release") /\ wk[w].pc = "remove"
    BY <2>3 DEF Goto
  <2>4. CASE wk[w].pc = "service" /\ wk' = [wk EXCEPT ![w] = [@ EXCEPT !.pc = "slice", !.pods = getMatchingPods(wk[w].key)]]
    BY <2>4
  <2> HIDE <1>1, <1>4 DEF TypeIInv, WorkersOK, Busy, Normal, Finalizing
  <2>5. CASE removeHAProxy(w)
    BY <2>3, <2>5 DEF removeHAProxy, At
  <2>6. CASE configureHAProxy(w)
    BY <2>1, <2>6 DEF configureHAProxy, At
  <2>7. CASE ensureEndpointSlice(w)
    BY <2>1, <2>2, <2>7 DEF ensureEndpointSlice, At
  <2>8. CASE ensureGeneratedService(w)
    BY <2>1, <2>4, <2>8 DEF ensureGeneratedService, At
  <2> QED BY <2>5, <2>6, <2>7, <2>8
<1> QED BY <1>1, <1>2, <1>4, <1>5, MoveRecord

\* Ports are allocated for an object that records none, and given back when they are not
\* enough: neither takes a port that is recorded.
LEMMA AllocationRecord ==
    ASSUME RecordIInv, NEW w \in Workers, validateAndCheckPorts(w) \/ allocatePort(w)
    PROVE  RecordIInv'
<1>1. TypeIInv' /\ TypeIInv /\ AllocTypeOK
  BY PortsTypes DEF RecordIInv, TypeIInv
<1>2. (At(w, "ports") \/ At(w, "allocate")) /\ UNCHANGED <<haproxyVars, objVars, vsCache, dirty, workerUnchanged>>
  BY Zenon DEF validateAndCheckPorts, allocatePort
<1>3. UNCHANGED <<api, lister, userOps>>
  BY <1>2 DEF workerUnchanged, boundVars, objVars
<1>4. /\ wk[w] \in Busy /\ Working(w) /\ wk[w] # Idle /\ wk[w].obj \in VirtualServices
      /\ \E v \in Owners : v = wk[w].key
  BY <1>1, <1>2, BusyIs DEF Working, TypeIInv, At, Busy
<1> PICK v \in Owners : v = wk[w].key
  BY <1>4
<1>5. KeyKnows(v) /\ WorkerKnows(w) /\ MapsAgree
  BY <1>4 DEF RecordIInv
<1>6. CASE validateAndCheckPorts(w)
  <2>1. wk[w].pc = "ports"
    BY <1>6 DEF validateAndCheckPorts, At
  <2>2. CASE UNCHANGED allocVars /\ (Goto(w, "service") \/ \E c : Report(w, wk[w].obj, c))
    <3>1. /\ \A x \in Workers : x # w => wk'[x] = wk[x]
          /\ wk'[w].key = wk[w].key /\ wk'[w].obj = wk[w].obj /\ wk'[w].base = wk[w].base
          /\ wk[w].pc \in Normal /\ wk'[w].pc \in Normal \ {"allocate"}
      <4> USE <1>1, <1>4, <2>1 DEF TypeIInv, WorkersOK, Busy, Normal
      <4>1. CASE Goto(w, "service")
        BY <4>1 DEF Goto
      <4>2. ASSUME NEW c, Report(w, wk[w].obj, c)
            PROVE  /\ \A x \in Workers : x # w => wk'[x] = wk[x]
                   /\ wk'[w].key = wk[w].key /\ wk'[w].obj = wk[w].obj /\ wk'[w].base = wk[w].base
                   /\ wk'[w].pc = "status"
        BY <4>2 DEF Report
      <4> QED BY <2>2, <4>1, <4>2
    <3> QED BY <1>1, <1>3, <1>4, <2>2, <3>1, MoveRecord
  <2>3. CASE /\ wk[w].obj.spec # DOMAIN wk[w].obj.ports
             /\ ReleaseEach(v, RangeOf(wk[w].obj.ports)) /\ Goto(w, "allocate")
    <3>1. RangeOf(wk[w].obj.ports) = {}
      <4>1. AllOrNone(wk[w].obj)
        BY <1>5 DEF WorkerKnows
      <4>2. DOMAIN wk[w].obj.ports = {}
        BY <2>3, <4>1 DEF AllOrNone
      <4> QED BY <4>2 DEF RangeOf
    <3>2. MapsAgree' /\ \A u \in Owners : ownerPorts'[u] = ownerPorts[u]
      <4>1. PICK ps : ps = RangeOf(wk[w].obj.ports)
        OBVIOUS
      <4>2. /\ MapsAgree' /\ ownerPorts'[v] = ownerPorts[v] \ ps
            /\ \A u \in Owners : u # v => ownerPorts'[u] = ownerPorts[u]
        BY <1>1, <1>5, <2>3, <4>1, ReleaseEachIs
      <4> QED BY <3>1, <4>1, <4>2
    <3>3. /\ \A x \in Workers : x # w => wk'[x] = wk[x]
          /\ wk'[w].key = v /\ wk'[w].obj = wk[w].obj /\ wk'[w].base = wk[w].base
          /\ wk'[w].got = wk[w].got /\ wk'[w].pc = "allocate"
      BY <1>1, <1>4, <2>3 DEF Goto, TypeIInv, WorkersOK, Busy
    <3>4. RangeOf(wk[w].got) = {}
      BY <1>1, <1>4, <2>1, NoEntriesIs DEF TypeIInv, WorkersOK, WorkerOK
    <3>5. KeyKnows(v)'
      BY <1>3, <1>5, <3>2 DEF KeyKnows, StillThere, Recorded, Live
    <3>6. WorkerKnows(w)'
      <4>1. RangeOf(wk'[w].got) = {} /\ RangeOf(wk'[w].obj.ports) = {}
        BY <3>1, <3>3, <3>4
      <4>2. wk[w].pc \in Normal /\ wk[w].pc \notin Finalizing /\ wk'[w].pc \in Normal /\ wk'[w].pc \notin Finalizing
        BY <2>1, <3>3 DEF Normal, Finalizing
      <4> QED BY <1>3, <1>5, <3>2, <3>3, <4>1, <4>2 DEF WorkerKnows, StillThere
    <3> QED BY <1>1, <1>3, <1>4, <3>2, <3>3, <3>5, <3>6, OneWorker
  <2> QED BY <1>6, <2>2, <2>3, Zenon DEF validateAndCheckPorts
<1>7. CASE allocatePort(w)
  <2>1. wk[w].pc = "allocate"
    BY <1>7, Zenon DEF allocatePort, At
  <2>2. /\ DOMAIN wk[w].got \subseteq wk[w].obj.spec /\ wk[w].got \in PortMaps
        /\ ~wk[w].obj.deleting /\ wk[w].obj.fin
        /\ RangeOf(wk[w].obj.ports) = {} /\ RangeOf(wk[w].got) \subseteq ownerPorts[v] \ Recorded(v)
    <3>1. DOMAIN wk[w].got \subseteq wk[w].obj.spec
      BY <1>1, <1>4, <2>1 DEF TypeIInv, WorkersOK, WorkerOK
    <3> QED BY <1>4, <1>5, <2>1, <3>1 DEF WorkerKnows, Normal, Finalizing, Busy
  <2>3. CASE Report(w, wk[w].obj, "PortAllocationError") /\ ReleaseEach(v, RangeOf(wk[w].got))
    <3>1. MapsAgree' /\ ownerPorts'[v] = ownerPorts[v] \ RangeOf(wk[w].got)
          /\ \A u \in Owners : u # v => ownerPorts'[u] = ownerPorts[u]
      BY <1>1, <1>5, <2>3, ReleaseEachIs
    <3>2. /\ \A x \in Workers : x # w => wk'[x] = wk[x]
          /\ wk'[w].key = v /\ wk'[w].obj = wk[w].obj /\ wk'[w].base = wk[w].base
          /\ wk'[w].pc = "status"
      BY <1>1, <1>4, <2>3 DEF Report, TypeIInv, WorkersOK, Busy
    <3>3. Recorded(v)' = Recorded(v)
      BY <1>3 DEF Recorded, Live
    <3>4. Recorded(v)' \subseteq ownerPorts'[v]
      BY <1>5, <2>2, <3>1, <3>3 DEF KeyKnows
    <3>5. KeyKnows(v)'
      BY <1>3, <1>5, <3>4 DEF KeyKnows, StillThere
    <3>6. WorkerKnows(w)'
      <4>1. wk'[w].pc \in Normal /\ wk'[w].pc \notin Finalizing /\ wk'[w].pc # "allocate"
            /\ RangeOf(wk'[w].obj.ports) = {}
        BY <2>2, <3>2 DEF Normal, Finalizing
      <4> QED BY <1>3, <1>5, <2>2, <3>2, <4>1 DEF WorkerKnows, StillThere
    <3> QED BY <1>1, <1>3, <1>4, <3>1, <3>2, <3>5, <3>6, OneWorker
  <2>4. CASE ~(Report(w, wk[w].obj, "PortAllocationError") /\ ReleaseEach(v, RangeOf(wk[w].got)))
    <3> DEFINE left == wk[w].obj.spec \ DOMAIN wk[w].got
               got(p, s) == [x \in DOMAIN wk[w].got \cup {s} |-> IF x = s THEN p ELSE wk[w].got[x]]
    <3>1. PICK p \in Ports, s \in left :
            /\ Allocate(v, p)
            /\ wk' = [wk EXCEPT ![w] =
                        IF left = {s} THEN [@ EXCEPT !.pc = "service", !.obj.ports = got(p, s), !.got = NoEntries]
                                      ELSE [@ EXCEPT !.got = got(p, s)]]
      BY <1>7, <2>4 DEF allocatePort
    <3>2. /\ MapsAgree' /\ p \notin ownerPorts[v] /\ ownerPorts'[v] = ownerPorts[v] \cup {p}
          /\ \A u \in Owners : u # v => ownerPorts'[u] = ownerPorts[u]
      BY <1>1, <1>5, <3>1, AllocateIs
    <3>3. DOMAIN got(p, s) = DOMAIN wk[w].got \cup {s} /\ RangeOf(got(p, s)) \subseteq RangeOf(wk[w].got) \cup {p}
      BY DEF RangeOf
    <3>4. PICK g : g = got(p, s)
      OBVIOUS
    <3> HIDE DEF got
    <3>5. Recorded(v)' = Recorded(v) /\ Recorded(v) \subseteq ownerPorts[v]
      BY <1>3, <1>5 DEF Recorded, Live, KeyKnows
    <3>6. KeyKnows(v)'
      BY <1>3, <1>5, <3>2, <3>5 DEF KeyKnows, StillThere
    <3>7. \A x \in Workers : x # w => wk'[x] = wk[x]
      BY <1>1, <3>1 DEF TypeIInv, WorkersOK
    <3>8. RangeOf(g) \subseteq ownerPorts'[v] \ Recorded(v)'
      BY <2>2, <3>2, <3>3, <3>4, <3>5
    <3>9. CASE left = {s}
      <4>1. /\ wk'[w].key = v /\ wk'[w].base = wk[w].base /\ wk'[w].pc = "service"
            /\ wk'[w].obj = [wk[w].obj EXCEPT !.ports = g]
        BY <1>1, <1>4, <3>1, <3>4, <3>9 DEF TypeIInv, WorkersOK, Busy
      <4>2. /\ wk'[w].obj.uid = wk[w].obj.uid /\ wk'[w].obj.spec = wk[w].obj.spec
            /\ wk'[w].obj.deleting = wk[w].obj.deleting /\ wk'[w].obj.fin = wk[w].obj.fin
            /\ wk'[w].obj.ports = g
        BY <1>4, <4>1 DEF VirtualServices
      <4>3. AllOrNone(wk[w].obj)'
        BY <2>2, <3>3, <3>4, <3>9, <4>2 DEF AllOrNone
      <4>4. WorkerKnows(w)'
        <5>1. wk'[w].pc \in Normal /\ wk'[w].pc \notin Finalizing /\ wk'[w].pc # "allocate"
          BY <4>1 DEF Normal, Finalizing
        <5>2. StillThere(wk[w].obj, v)'
          BY <1>3, <1>5, <4>2 DEF WorkerKnows, StillThere
        <5> QED BY <1>3, <1>5, <2>2, <3>8, <4>1, <4>2, <4>3, <5>1, <5>2 DEF WorkerKnows
      <4> QED BY <1>1, <1>3, <1>4, <3>2, <3>6, <3>7, <4>1, <4>4, OneWorker
    <3>10. CASE left # {s}
      <4>1. /\ wk'[w].key = v /\ wk'[w].base = wk[w].base /\ wk'[w].pc = "allocate"
            /\ wk'[w].obj = wk[w].obj /\ wk'[w].got = g
        BY <1>1, <1>4, <2>1, <3>1, <3>4, <3>10 DEF TypeIInv, WorkersOK, Busy
      <4>2. WorkerKnows(w)'
        BY <1>3, <1>5, <2>1, <2>2, <3>8, <4>1 DEF WorkerKnows, StillThere
      <4> QED BY <1>1, <1>3, <1>4, <3>2, <3>6, <3>7, <4>1, <4>2, OneWorker
    <3> QED BY <3>9, <3>10
  <2> QED BY <2>3, <2>4
<1> QED BY <1>6, <1>7

\* Finalization releases ports that no live object records: the copy is marked, so whatever
\* the key holds now is marked too, or new and without ports.
LEMMA ReleaseRecord ==
    ASSUME RecordIInv, NEW w \in Workers, releaseAndDeleteObjects(w)
    PROVE  RecordIInv'
<1>1. TypeIInv' /\ TypeIInv /\ AllocTypeOK
  BY EndTypes DEF RecordIInv, TypeIInv
<1>2. wk[w].pc = "release" /\ UNCHANGED <<api, lister, userOps>>
  BY DEF releaseAndDeleteObjects, At, workerUnchanged, boundVars
<1>3. /\ wk[w] \in Busy /\ Working(w) /\ wk[w] # Idle /\ \E v \in Owners : v = wk[w].key
  BY <1>1, <1>2, BusyIs DEF Working, TypeIInv, Busy
<1> PICK v \in Owners : v = wk[w].key
  BY <1>3
<1>4. KeyKnows(v) /\ WorkerKnows(w) /\ MapsAgree
  BY <1>3 DEF RecordIInv
<1>5. wk[w].base.deleting /\ wk[w].obj.deleting
  BY <1>2, <1>4 DEF WorkerKnows, Finalizing
<1>6. Recorded(v) = {}
  <2>1. api[v] # Absent => api[v].deleting \/ RangeOf(api[v].ports) = {}
    BY <1>4, <1>5 DEF WorkerKnows, Older
  <2>2. lister[v] # Absent => lister[v].deleting \/ RangeOf(lister[v].ports) = {}
    BY <1>4, <1>5 DEF WorkerKnows, Older
  <2> QED BY <2>1, <2>2 DEF Recorded, Live
<1>7. MapsAgree' /\ \A u \in Owners : u # v => ownerPorts'[u] = ownerPorts[u]
  BY <1>1, <1>4, ReleaseEachIs DEF releaseAndDeleteObjects
<1>8. /\ \A x \in Workers : x # w => wk'[x] = wk[x]
      /\ wk'[w].key = v /\ wk'[w].obj = wk[w].obj /\ wk'[w].base = wk[w].base
      /\ wk'[w].pc = "unfinalize"
  BY <1>1, <1>3 DEF releaseAndDeleteObjects, Goto, TypeIInv, WorkersOK, Busy
<1>9. KeyKnows(v)'
  <2>1. Recorded(v)' = {}
    BY <1>2, <1>6 DEF Recorded, Live
  <2> QED BY <1>2, <1>4, <2>1 DEF KeyKnows, StillThere
<1>10. WorkerKnows(w)'
  <2>1. wk'[w].pc \in Finalizing /\ wk'[w].pc \notin Normal /\ wk'[w].pc # "allocate"
    BY <1>8 DEF Finalizing, Normal
  <2> QED BY <1>2, <1>4, <1>5, <1>8, <2>1 DEF WorkerKnows, StillThere
<1> QED BY <1>1, <1>2, <1>3, <1>7, <1>8, <1>9, <1>10, OneWorker

\* At the start there is nothing to know.
LEMMA InitRecord == Init => RecordIInv
<1> SUFFICES ASSUME Init PROVE RecordIInv
  OBVIOUS
<1>1. TypeIInv
  BY InitTypes
<1>2. MapsAgree
  BY FreeAssumption DEF Init, NewAllocator, MapsAgree
<1>3. OneWorkerPerKey /\ \A w \in Workers : ~Working(w)
  BY DEF Init, OneWorkerPerKey, Working, Idle
<1>4. \A v \in Owners : KeyKnows(v)
  BY DEF Init, KeyKnows, Recorded, Live
<1> QED BY <1>1, <1>2, <1>3, <1>4 DEF RecordIInv

\* Without edits and restarts every step keeps what the exclusiveness of recorded ports
\* rests on, whoever takes it: a worker, an informer, a user or the allocator.
LEMMA NextRecord ==
    ASSUME "edit" \notin UserOps, MaxRestarts = 0, RecordIInv, [Next]_vars
    PROVE  RecordIInv'
<1>1. TypeIInv' /\ TypeIInv /\ userOps \in Nat
  BY NextTypes DEF RecordIInv, TypeIInv, BoundsOK
<1>2. CASE UNCHANGED vars
  BY <1>1, <1>2, Elsewhere DEF vars, objVars, boundVars
<1>3. ASSUME NEW w \in Workers, Work(w) PROVE RecordIInv'
  BY <1>3, ReadRecord, FinalizerRecord, AllocationRecord, ConfigureRecord, WriteRecord,
     ReleaseRecord DEF Work
<1>4. CASE Users
  <2>1. ASSUME NEW v \in Owners, ReplaceService(v) \/ CreateEndpointSlice(v) PROVE RecordIInv'
    <3>1. UNCHANGED <<allocVars, api, lister, wk>> /\ userOps <= userOps'
      BY <1>1, <2>1 DEF ReplaceService, CreateEndpointSlice, UserStep, userUnchanged
    <3> QED BY <1>1, <3>1, Elsewhere
  <2>2. ASSUME NEW p \in Pods, PodStep(p) PROVE RecordIInv'
    <3>1. UNCHANGED <<allocVars, api, lister, wk>> /\ userOps <= userOps'
      BY <1>1, <2>2 DEF PodStep, objVars
    <3> QED BY <1>1, <3>1, Elsewhere
  <2> QED BY <1>4, <2>1, <2>2, CreateRecord, DeleteRecord DEF Users, EditVirtualService
<1>5. CASE Deliver
  <2>1. CASE \E v \in Owners : enqueueVirtualService(v)
    BY <2>1, InformerRecord
  <2>2. CASE \/ \E v \in Owners : ServiceInformer(v) \/ CollectService(v)
             \/ \E p \in Pods : handlePodEvent(p) \/ handleTombstone(p)
             \/ enqueueVirtualServicesForPod
    <3>1. UNCHANGED <<allocVars, api, lister, wk>> /\ userOps <= userOps'
      BY <1>1, <2>2 DEF ServiceInformer, CollectService, userUnchanged, handlePodEvent,
             handleTombstone, enqueueVirtualServicesForPod, objVars, boundVars
    <3> QED BY <1>1, <3>1, Elsewhere
  <2> QED BY <1>5, <2>1, <2>2 DEF Deliver
<1>6. ~Restart
  BY <1>1 DEF Restart, TypeIInv, BoundsOK
<1> QED BY <1>2, <1>3, <1>4, <1>5, <1>6 DEF Next

\* What the keys own is exclusive, so what they record is.
LEMMA RecordsExclusive == RecordIInv => RecordedPortsExclusive
<1> SUFFICES ASSUME RecordIInv, NEW v \in Owners, NEW u \in Owners, v # u, Live(v), Live(u),
                    NEW p \in RangeOf(api[v].ports), p \in RangeOf(api[u].ports)
             PROVE  FALSE
  BY DEF RecordedPortsExclusive
<1>1. p \in ownerPorts[v] /\ p \in ownerPorts[u]
  BY DEF RecordIInv, KeyKnows, Recorded
<1>2. p \in Ports
  BY <1>1 DEF RecordIInv, TypeIInv, AllocTypeOK
<1> QED BY <1>1, <1>2 DEF RecordIInv, MapsAgree

\* Two live VirtualServices never record the same gateway port, for every number of keys,
\* workers and ports, as long as no spec is edited and the controller is not restarted.
THEOREM RecordedPortsAreExclusive ==
    ASSUME "edit" \notin UserOps, MaxRestarts = 0
    PROVE  Spec => []RecordedPortsExclusive
<1>1. RecordIInv /\ [Next]_vars => RecordIInv'
  BY NextRecord
<1> QED BY <1>1, InitRecord, RecordsExclusive, PTL DEF Spec

-----------------------------------------------------------------------------
\* What HAProxy binds.

\* A key's frontends bind ports the key owns, one for each port of its spec, and are gone
\* before the object is.
KeyBinds(v) ==
    /\ DOMAIN listeners[v] = DOMAIN proxy[v]
    /\ BoundPorts(v) \subseteq ownerPorts[v]
    /\ DOMAIN proxy[v] # {} => api[v] # Absent /\ api[v].fin /\ DOMAIN proxy[v] = api[v].spec

\* What a worker is about to release, it has taken down or never bound.
WorkerBinds(w) ==
    /\ wk[w].pc \in {"release", "unfinalize"} => DOMAIN proxy[wk[w].key] = {}
    /\ wk[w].pc \in {"service", "slice", "proxy"} => DOMAIN wk[w].obj.ports = wk[w].obj.spec
    /\ wk[w].pc = "allocate" => RangeOf(wk[w].got) \cap BoundPorts(wk[w].key) = {}

FrontendIInv == (\A v \in Owners : KeyBinds(v)) /\ (\A w \in Workers : WorkerBinds(w))

\* A step that leaves HAProxy and the ports alone, and lets no object with frontends go.
LEMMA BindsKept ==
    ASSUME FrontendIInv, TypeIInv, UNCHANGED haproxyVars,
           \A v \in Owners : ownerPorts'[v] = ownerPorts[v],
           \A v \in Owners : \/ api'[v] = api[v] \/ DOMAIN proxy[v] = {}
                             \/ api'[v] # Absent /\ api'[v].fin /\ api'[v].spec = api[v].spec,
           \A w \in Workers : wk'[w] = wk[w] \/ WorkerBinds(w)'
    PROVE  FrontendIInv'
<1>1. listeners' = listeners /\ proxy' = proxy
  BY DEF haproxyVars
<1>2. \A v \in Owners : KeyBinds(v)'
  BY <1>1 DEF FrontendIInv, KeyBinds, BoundPorts
<1>3. \A w \in Workers : WorkerBinds(w)'
  BY <1>1 DEF FrontendIInv, WorkerBinds, BoundPorts
<1> QED BY <1>2, <1>3 DEF FrontendIInv

\* A step of the worker of a key: it is enough to look at the key and at that worker.
LEMMA BindsOfKey ==
    ASSUME FrontendIInv, RecordIInv, NEW w \in Workers, NEW v \in Owners,
           wk[w] # Idle, wk[w].key = v,
           \A u \in Owners : u # v => /\ proxy'[u] = proxy[u] /\ listeners'[u] = listeners[u]
                                      /\ api'[u] = api[u] /\ ownerPorts'[u] = ownerPorts[u],
           \A x \in Workers : x # w => wk'[x] = wk[x],
           KeyBinds(v)', WorkerBinds(w)'
    PROVE  FrontendIInv'
<1>1. \A u \in Owners : KeyBinds(u)'
  BY DEF FrontendIInv, KeyBinds, BoundPorts
<1>2. ASSUME NEW x \in Workers, x # w PROVE WorkerBinds(x)'
  <2>1. wk'[x] = wk[x] /\ WorkerBinds(x)
    BY <1>2 DEF FrontendIInv
  <2>2. CASE wk[x] = Idle
    BY <2>1, <2>2 DEF WorkerBinds, Idle
  <2>3. CASE wk[x] # Idle
    <3>1. wk[x].key \in Owners
      BY <2>3, BusyIs DEF RecordIInv, TypeIInv, Busy
    <3>2. wk[x].key # v
      BY <1>2, <2>3 DEF RecordIInv, OneWorkerPerKey
    <3>3. PICK u \in Owners : u = wk[x].key /\ u # v
      BY <3>1, <3>2
    <3>4. proxy'[u] = proxy[u]
      BY <3>3
    <3> QED BY <2>1, <3>3, <3>4 DEF WorkerBinds, BoundPorts
  <2> QED BY <2>2, <2>3
<1> QED BY <1>1, <1>2 DEF FrontendIInv

\* A key whose ports stay, or lose only what no frontend binds.
LEMMA KeyBindsKept ==
    ASSUME FrontendIInv, NEW v \in Owners, UNCHANGED <<haproxyVars, api>>,
           BoundPorts(v) \subseteq ownerPorts'[v]
    PROVE  KeyBinds(v)'
BY DEF FrontendIInv, KeyBinds, BoundPorts, haproxyVars

\* Users and informers: only an object without its finalizer, so without frontends, goes.
LEMMA UserBinds ==
    ASSUME "edit" \notin UserOps, FrontendIInv, RecordIInv, Users \/ Deliver
    PROVE  FrontendIInv'
<1>1. TypeIInv
  BY DEF RecordIInv
<1>2. UNCHANGED <<haproxyVars, allocVars, wk>>
  BY DEF Users, Deliver, CreateVirtualService, EditVirtualService, DeleteVirtualService,
         ReplaceService, CreateEndpointSlice, CollectService, PodStep, enqueueVirtualService,
         ServiceInformer, handlePodEvent, handleTombstone, enqueueVirtualServicesForPod, userUnchanged
<1>3. \A v \in Owners : \/ api'[v] = api[v] \/ DOMAIN proxy[v] = {}
                        \/ api'[v] # Absent /\ api'[v].fin /\ api'[v].spec = api[v].spec
  <2>1. ASSUME NEW v \in Owners, CreateVirtualService(v)
        PROVE  DOMAIN proxy[v] = {} /\ \A u \in Owners : u # v => api'[u] = api[u]
    BY <1>1, <2>1 DEF CreateVirtualService, FrontendIInv, KeyBinds, TypeIInv, ObjectsOK
  <2>2. ASSUME NEW v \in Owners, DeleteVirtualService(v)
        PROVE  /\ \/ DOMAIN proxy[v] = {}
                  \/ api'[v] # Absent /\ api'[v].fin /\ api'[v].spec = api[v].spec
               /\ \A u \in Owners : u # v => api'[u] = api[u]
    <3>1. api[v] \in VirtualServices
      BY <1>1, <2>2 DEF DeleteVirtualService, TypeIInv, ObjectsOK
    <3>2. /\ api'[v] = IF api[v].fin THEN [api[v] EXCEPT !.deleting = TRUE] ELSE Absent
          /\ \A u \in Owners : u # v => api'[u] = api[u]
      BY <1>1, <2>2 DEF DeleteVirtualService, TypeIInv, ObjectsOK
    <3>3. CASE api[v].fin
      <4>1. [api[v] EXCEPT !.deleting = TRUE] \in VirtualServices
        BY <3>1 DEF VirtualServices
      <4>2. api'[v].fin /\ api'[v].spec = api[v].spec
        BY <3>1, <3>2, <3>3 DEF VirtualServices
      <4> QED BY <3>2, <3>3, <4>1, <4>2, AbsentAssumption
    <3>4. CASE ~api[v].fin
      BY <3>2, <3>4 DEF FrontendIInv, KeyBinds
    <3> QED BY <3>3, <3>4
  <2>3. CASE UNCHANGED api
    BY <2>3
  <2>4. ~UNCHANGED api => \E v \in Owners : CreateVirtualService(v) \/ DeleteVirtualService(v)
    BY DEF Users, Deliver, EditVirtualService, ReplaceService, CreateEndpointSlice, CollectService,
           PodStep, enqueueVirtualService, ServiceInformer, handlePodEvent, handleTombstone,
           enqueueVirtualServicesForPod, objVars
  <2> QED BY <2>1, <2>2, <2>3, <2>4
<1>4. \A v \in Owners : ownerPorts'[v] = ownerPorts[v]
  BY <1>2 DEF allocVars
<1> QED BY <1>1, <1>2, <1>3, <1>4, BindsKept

\* A worker reads, adds the finalizer, or writes the status.
LEMMA ReadBinds ==
    ASSUME FrontendIInv, RecordIInv, NEW w \in Workers,
           \/ processNextWorkItem(w) \/ reconcile(w) \/ addFinalizer(w)
           \/ setConditionAndUpdate(w)
    PROVE  FrontendIInv'
<1>1. TypeIInv
  BY DEF RecordIInv
<1>2. UNCHANGED <<haproxyVars, allocVars>>
  BY DEF processNextWorkItem, reconcile, addFinalizer, setConditionAndUpdate
<1>3. \A x \in Workers : wk'[x] = wk[x] \/ WorkerBinds(x)'
  <2>1. \A x \in Workers : x # w => wk'[x] = wk[x]
    BY <1>1 DEF processNextWorkItem, reconcile, addFinalizer, setConditionAndUpdate, Finish,
           TypeIInv, WorkersOK
  <2>2. wk'[w].pc \in {"idle", "read", "remove", "ports", "finalizer"}
    <3>1. CASE \E err : Finish(w, err)
      BY <1>1, <3>1 DEF Finish, Idle, TypeIInv, WorkersOK
    <3>2. CASE processNextWorkItem(w)
      BY <1>1, <3>2 DEF processNextWorkItem, TypeIInv, WorkersOK
    <3>3. CASE reconcile(w) /\ ~\E err : Finish(w, err)
      <4>1. wk[w] \in Busy
        BY <1>1, <3>3, BusyIs DEF reconcile, At, TypeIInv
      <4>2. \E pc \in {"remove", "ports", "finalizer"} : \E c :
              wk' = [wk EXCEPT ![w] = [@ EXCEPT !.obj = c, !.base = c, !.pc = pc]]
        BY <3>3 DEF reconcile
      <4> QED BY <1>1, <4>1, <4>2 DEF Busy, TypeIInv, WorkersOK
    <3>4. CASE addFinalizer(w) /\ ~\E err : Finish(w, err)
      <4>1. wk[w] \in Busy
        BY <1>1, <3>4, BusyIs DEF addFinalizer, At, TypeIInv
      <4>2. wk' = [wk EXCEPT ![w] = [@ EXCEPT !.pc = "ports", !.obj.fin = TRUE]]
        BY <3>4 DEF addFinalizer
      <4>3. wk'[w] = [wk[w] EXCEPT !.pc = "ports", !.obj = [wk[w].obj EXCEPT !.fin = TRUE]]
        BY <1>1, <4>2 DEF TypeIInv, WorkersOK
      <4> QED BY <4>1, <4>3 DEF Busy
    <3>5. setConditionAndUpdate(w) => \E err : Finish(w, err)
      BY DEF setConditionAndUpdate
    <3> QED BY <3>1, <3>2, <3>3, <3>4, <3>5
  <2>3. WorkerBinds(w)'
    BY <2>2 DEF WorkerBinds
  <2> QED BY <2>1, <2>3
<1>4. \A v \in Owners : api'[v] = api[v] \/ (api'[v] # Absent /\ (api[v].fin => api'[v].fin) /\ api'[v].spec = api[v].spec)
  <2>1. CASE UNCHANGED api
    BY <2>1
  <2>2. CASE ~UNCHANGED api
    <3>1. /\ wk[w].pc \in {"finalizer", "status"} /\ Fresh(w)
          /\ \/ api' = [api EXCEPT ![wk[w].key].fin = TRUE]
             \/ api' = [api EXCEPT ![wk[w].key] = [@ EXCEPT !.ports = wk[w].obj.ports,
                                                    !.cond = wk[w].cond, !.obs = wk[w].obj.gen]]
      BY <2>2 DEF processNextWorkItem, reconcile, addFinalizer, setConditionAndUpdate, At, objVars
    <3>2. wk[w] \in Busy /\ Working(w) /\ wk[w].key \in Owners
      BY <1>1, <3>1, BusyIs DEF TypeIInv, Working, Busy
    <3>3. PICK v \in Owners : v = wk[w].key
      BY <3>2
    <3>4. api[v] \in VirtualServices
      BY <3>1, <3>2, <3>3, FreshIs
    <3>5. wk[w].obj.ports \in PortMaps /\ wk[w].cond \in Conditions /\ wk[w].obj.gen \in 0 .. MaxUserOps
      <4>1. wk[w].obj \in VirtualServices
        BY <1>1, <3>1, BusyIs DEF TypeIInv
      <4>2. wk[w].obj.gen \in 1 .. MaxUserOps
        BY <4>1 DEF VirtualServices
      <4>3. wk[w].obj.gen \in 0 .. MaxUserOps
        BY <4>2
      <4> QED BY <3>2, <4>1, <4>3 DEF VirtualServices, Busy
    <3>6. \A u \in Owners : u # v => api'[u] = api[u]
      BY <1>1, <3>1, <3>3 DEF TypeIInv, ObjectsOK
    <3>7. (api[v].fin => api'[v].fin) /\ api'[v].spec = api[v].spec
      <4>1. \/ api'[v] = [api[v] EXCEPT !.fin = TRUE]
            \/ api'[v] = [api[v] EXCEPT !.ports = wk[w].obj.ports, !.cond = wk[w].cond, !.obs = wk[w].obj.gen]
        BY <1>1, <3>1, <3>3 DEF TypeIInv, ObjectsOK
      <4> QED BY ONLY <3>4, <4>1 DEF VirtualServices
    <3>8. api'[v] # Absent
      <4>1. \/ api'[v] = [api[v] EXCEPT !.fin = TRUE]
            \/ api'[v] = [api[v] EXCEPT !.ports = wk[w].obj.ports, !.cond = wk[w].cond, !.obs = wk[w].obj.gen]
        BY <1>1, <3>1, <3>3 DEF TypeIInv, ObjectsOK
      <4>2. api'[v] \in VirtualServices
        BY <3>4, <3>5, <4>1 DEF VirtualServices
      <4> QED BY <4>2, AbsentAssumption
    <3> QED BY <3>6, <3>7, <3>8
  <2> QED BY <2>1, <2>2
<1>5. \A v \in Owners : \/ api'[v] = api[v] \/ DOMAIN proxy[v] = {}
                        \/ api'[v] # Absent /\ api'[v].fin /\ api'[v].spec = api[v].spec
  BY <1>4 DEF FrontendIInv, KeyBinds
<1>6. \A v \in Owners : ownerPorts'[v] = ownerPorts[v]
  BY <1>2 DEF allocVars
<1> QED BY <1>1, <1>2, <1>3, <1>5, <1>6, BindsKept

\* The places where a worker goes on towards HAProxy.
LEMMA ServiceBinds ==
    ASSUME FrontendIInv, RecordIInv, NEW w \in Workers,
           ensureGeneratedService(w) \/ ensureEndpointSlice(w)
    PROVE  FrontendIInv'
<1>1. TypeIInv
  BY DEF RecordIInv
<1>2. UNCHANGED <<haproxyVars, allocVars, api>>
  BY DEF ensureGeneratedService, ensureEndpointSlice
<1>3. /\ wk[w].pc \in {"service", "slice"}
      /\ \/ \E c : Report(w, wk[w].obj, c)
         \/ Goto(w, "proxy")
         \/ wk' = [wk EXCEPT ![w] = [@ EXCEPT !.pc = "slice", !.pods = getMatchingPods(wk[w].key)]]
  BY DEF ensureGeneratedService, ensureEndpointSlice, At
<1>4. wk[w] \in Busy
  BY <1>1, <1>3, BusyIs DEF TypeIInv
<1>5. /\ \A x \in Workers : x # w => wk'[x] = wk[x]
      /\ wk'[w].pc \in {"slice", "proxy", "status"} /\ wk'[w].obj = wk[w].obj
  <2> USE <1>1, <1>4 DEF TypeIInv, WorkersOK, Busy
  <2>1. CASE Goto(w, "proxy")
    BY <2>1 DEF Goto
  <2>2. ASSUME NEW c, Report(w, wk[w].obj, c)
        PROVE  /\ \A x \in Workers : x # w => wk'[x] = wk[x]
               /\ wk'[w].pc = "status" /\ wk'[w].obj = wk[w].obj
    BY <2>2 DEF Report
  <2>3. CASE wk' = [wk EXCEPT ![w] = [@ EXCEPT !.pc = "slice", !.pods = getMatchingPods(wk[w].key)]]
    BY <2>3
  <2> QED BY <1>3, <2>1, <2>2, <2>3
<1>6. WorkerBinds(w)'
  BY <1>3, <1>5 DEF FrontendIInv, WorkerBinds
<1>7. \A v \in Owners : ownerPorts'[v] = ownerPorts[v] /\ api'[v] = api[v]
  BY <1>2 DEF allocVars
<1> QED BY <1>1, <1>2, <1>5, <1>6, <1>7, BindsKept

\* Ports are allocated beside those HAProxy binds; what is given back was not bound yet.
LEMMA AllocationBinds ==
    ASSUME FrontendIInv, RecordIInv, NEW w \in Workers, validateAndCheckPorts(w) \/ allocatePort(w)
    PROVE  FrontendIInv'
<1>1. TypeIInv /\ AllocTypeOK /\ MapsAgree
  BY DEF RecordIInv, TypeIInv
<1>2. (At(w, "ports") \/ At(w, "allocate")) /\ UNCHANGED <<haproxyVars, objVars>>
  BY Zenon DEF validateAndCheckPorts, allocatePort
<1>3. UNCHANGED <<haproxyVars, api, listeners, proxy>>
  BY <1>2 DEF objVars, haproxyVars
<1>4. /\ wk[w] \in Busy /\ Working(w) /\ wk[w] # Idle /\ wk[w].obj \in VirtualServices
      /\ \E v \in Owners : v = wk[w].key
  BY <1>1, <1>2, BusyIs DEF Working, TypeIInv, At, Busy
<1> PICK v \in Owners : v = wk[w].key
  BY <1>4
<1>5. WorkerKnows(w) /\ KeyBinds(v) /\ WorkerBinds(w) /\ BoundPorts(v)' = BoundPorts(v)
  BY <1>3, <1>4 DEF RecordIInv, FrontendIInv, BoundPorts
<1>6. CASE validateAndCheckPorts(w)
  <2>1. wk[w].pc = "ports"
    BY <1>6 DEF validateAndCheckPorts, At
  <2>2. CASE UNCHANGED allocVars /\ \E c : Report(w, wk[w].obj, c)
    <3>1. (\A x \in Workers : x # w => wk'[x] = wk[x]) /\ wk'[w].pc = "status"
      BY <1>1, <1>4, <2>2 DEF Report, TypeIInv, WorkersOK, Busy
    <3>2. WorkerBinds(w)'
      BY <3>1 DEF WorkerBinds
    <3>3. \A u \in Owners : ownerPorts'[u] = ownerPorts[u] /\ api'[u] = api[u]
      BY <1>3, <2>2 DEF allocVars
    <3> QED BY <1>1, <1>3, <3>1, <3>2, <3>3, BindsKept
  <2>3. CASE UNCHANGED allocVars /\ Goto(w, "service") /\ wk[w].obj.spec = DOMAIN wk[w].obj.ports
    <3>1. /\ \A x \in Workers : x # w => wk'[x] = wk[x]
          /\ wk'[w].pc = "service" /\ wk'[w].obj = wk[w].obj
      BY <1>1, <1>4, <2>3 DEF Goto, TypeIInv, WorkersOK, Busy
    <3>2. WorkerBinds(w)'
      BY <2>3, <3>1 DEF WorkerBinds
    <3>3. \A u \in Owners : ownerPorts'[u] = ownerPorts[u] /\ api'[u] = api[u]
      BY <1>3, <2>3 DEF allocVars
    <3> QED BY <1>1, <1>3, <3>1, <3>2, <3>3, BindsKept
  <2>4. CASE /\ wk[w].obj.spec # DOMAIN wk[w].obj.ports
             /\ ReleaseEach(v, RangeOf(wk[w].obj.ports)) /\ Goto(w, "allocate")
    <3>1. AllOrNone(wk[w].obj)
      BY <1>5 DEF WorkerKnows
    <3>2. PICK ps : ps = RangeOf(wk[w].obj.ports)
      OBVIOUS
    <3>3. ps = {}
      BY <2>4, <3>1, <3>2 DEF AllOrNone, RangeOf
    <3>4. /\ ownerPorts'[v] = ownerPorts[v] \ ps
          /\ \A u \in Owners : u # v => ownerPorts'[u] = ownerPorts[u]
      BY <1>1, <2>4, <3>2, ReleaseEachIs
    <3>5. \A u \in Owners : ownerPorts'[u] = ownerPorts[u] /\ api'[u] = api[u]
      BY <1>3, <3>3, <3>4
    <3>6. /\ \A x \in Workers : x # w => wk'[x] = wk[x]
          /\ wk'[w].pc = "allocate" /\ wk'[w].got = wk[w].got
      BY <1>1, <1>4, <2>4 DEF Goto, TypeIInv, WorkersOK, Busy
    <3>7. RangeOf(wk[w].got) = {}
      BY <1>1, <1>4, <2>1, NoEntriesIs DEF TypeIInv, WorkersOK, WorkerOK
    <3>8. WorkerBinds(w)'
      BY <3>6, <3>7 DEF WorkerBinds
    <3> QED BY <1>1, <1>3, <3>5, <3>6, <3>8, BindsKept
  <2> QED BY <1>6, <2>2, <2>3, <2>4, Zenon DEF validateAndCheckPorts
<1>7. CASE allocatePort(w)
  <2>1. wk[w].pc = "allocate"
    BY <1>7, Zenon DEF allocatePort, At
  <2>2. RangeOf(wk[w].got) \cap BoundPorts(v) = {} /\ BoundPorts(v) \subseteq ownerPorts[v]
        /\ DOMAIN wk[w].got \subseteq wk[w].obj.spec
    <3>1. DOMAIN wk[w].got \subseteq wk[w].obj.spec
      BY <1>1, <1>4, <2>1 DEF TypeIInv, WorkersOK, WorkerOK
    <3> QED BY <1>5, <2>1, <3>1 DEF WorkerBinds, KeyBinds
  <2>3. CASE Report(w, wk[w].obj, "PortAllocationError") /\ ReleaseEach(v, RangeOf(wk[w].got))
    <3>1. PICK ps : ps = RangeOf(wk[w].got)
      OBVIOUS
    <3>2. /\ ownerPorts'[v] = ownerPorts[v] \ ps
          /\ \A u \in Owners : u # v => ownerPorts'[u] = ownerPorts[u]
      BY <1>1, <2>3, <3>1, ReleaseEachIs
    <3>3. KeyBinds(v)'
      BY <1>3, <2>2, <3>1, <3>2, KeyBindsKept
    <3>4. (\A x \in Workers : x # w => wk'[x] = wk[x]) /\ wk'[w].pc = "status"
      BY <1>1, <1>4, <2>3 DEF Report, TypeIInv, WorkersOK, Busy
    <3>5. WorkerBinds(w)'
      BY <3>4 DEF WorkerBinds
    <3> QED BY <1>3, <1>4, <3>2, <3>3, <3>4, <3>5, BindsOfKey
  <2>4. CASE ~(Report(w, wk[w].obj, "PortAllocationError") /\ ReleaseEach(v, RangeOf(wk[w].got)))
    <3> DEFINE left == wk[w].obj.spec \ DOMAIN wk[w].got
               got(p, s) == [x \in DOMAIN wk[w].got \cup {s} |-> IF x = s THEN p ELSE wk[w].got[x]]
    <3>1. PICK p \in Ports, s \in left :
            /\ Allocate(v, p)
            /\ wk' = [wk EXCEPT ![w] =
                        IF left = {s} THEN [@ EXCEPT !.pc = "service", !.obj.ports = got(p, s), !.got = NoEntries]
                                      ELSE [@ EXCEPT !.got = got(p, s)]]
      BY <1>7, <2>4 DEF allocatePort
    <3>2. /\ p \notin ownerPorts[v] /\ ownerPorts'[v] = ownerPorts[v] \cup {p}
          /\ \A u \in Owners : u # v => ownerPorts'[u] = ownerPorts[u]
      BY <1>1, <3>1, AllocateIs
    <3>3. KeyBinds(v)'
      BY <1>3, <2>2, <3>2, KeyBindsKept
    <3>4. DOMAIN got(p, s) = DOMAIN wk[w].got \cup {s} /\ RangeOf(got(p, s)) \subseteq RangeOf(wk[w].got) \cup {p}
      BY DEF RangeOf
    <3>5. PICK g : g = got(p, s)
      OBVIOUS
    <3> HIDE DEF got
    <3>6. \A x \in Workers : x # w => wk'[x] = wk[x]
      BY <1>1, <3>1 DEF TypeIInv, WorkersOK
    <3>7. RangeOf(g) \cap BoundPorts(v)' = {}
      BY <1>5, <2>2, <3>2, <3>4, <3>5
    <3>8. WorkerBinds(w)'
      <4>1. CASE left = {s}
        <5>1. wk'[w].pc = "service" /\ wk'[w].obj = [wk[w].obj EXCEPT !.ports = g]
          BY <1>1, <1>4, <3>1, <3>5, <4>1 DEF TypeIInv, WorkersOK, Busy
        <5>2. wk'[w].obj.ports = g /\ wk'[w].obj.spec = wk[w].obj.spec
          BY <1>4, <5>1 DEF VirtualServices
        <5>3. DOMAIN g = wk[w].obj.spec
          BY <2>2, <3>4, <3>5, <4>1
        <5> QED BY <5>1, <5>2, <5>3 DEF WorkerBinds
      <4>2. CASE left # {s}
        <5>1. wk'[w].key = v /\ wk'[w].pc = "allocate" /\ wk'[w].got = g
          BY <1>1, <1>4, <2>1, <3>1, <3>5, <4>2 DEF TypeIInv, WorkersOK, Busy
        <5> QED BY <3>7, <5>1 DEF WorkerBinds
      <4> QED BY <4>1, <4>2
    <3> QED BY <1>3, <1>4, <3>2, <3>3, <3>6, <3>8, BindsOfKey
  <2> QED BY <2>3, <2>4
<1> QED BY <1>6, <1>7

\* Configure binds the ports of the copy, which are the key's, on the frontends of its spec.
LEMMA ConfigureBinds ==
    ASSUME ProxyFaults = FALSE, FrontendIInv, RecordIInv, NEW w \in Workers, configureHAProxy(w)
    PROVE  FrontendIInv'
<1>1. TypeIInv
  BY DEF RecordIInv
<1>2. wk[w].pc = "proxy" /\ UNCHANGED <<allocVars, objVars>>
  BY DEF configureHAProxy, At
<1>3. /\ wk[w] \in Busy /\ Working(w) /\ wk[w] # Idle /\ wk[w].obj \in VirtualServices
      /\ \E v \in Owners : v = wk[w].key
  BY <1>1, <1>2, BusyIs DEF Working, TypeIInv, Busy
<1> PICK v \in Owners : v = wk[w].key
  BY <1>3
<1>4. UNCHANGED <<api, ownerPorts>>
  BY <1>2 DEF objVars, allocVars
<1>5. WorkerKnows(w) /\ KeyBinds(v) /\ WorkerBinds(w)
  BY <1>3 DEF RecordIInv, FrontendIInv
<1>6. PICK ports : ports = wk[w].obj.ports
  OBVIOUS
<1>7. DOMAIN ports = wk[w].obj.spec /\ RangeOf(ports) \subseteq ownerPorts[v]
  BY <1>2, <1>5, <1>6 DEF WorkerBinds, WorkerKnows, Finalizing
<1>8. api[v] # Absent /\ api[v].fin /\ DOMAIN ports = api[v].spec
  <2>1. wk[w].obj.fin /\ ~wk[w].obj.deleting
    BY <1>2, <1>5 DEF WorkerKnows, Normal, Finalizing
  <2>2. api[v] # Absent /\ api[v].uid = wk[w].obj.uid /\ api[v].fin
    BY <1>5, <2>1 DEF WorkerKnows, StillThere
  <2>3. api[v].spec = wk[w].obj.spec
    BY <1>5, <2>2 DEF WorkerKnows, Older
  <2> QED BY <1>7, <2>2, <2>3
<1>9. PICK applied \in SUBSET DOMAIN ports, ok \in BOOLEAN :
        Configure(v, ports, wk[w].pods, applied, ok) /\ \E c : Report(w, wk[w].obj, c)
  BY <1>6 DEF configureHAProxy
<1>10. applied = DOMAIN ports
  BY <1>9 DEF Configure, applyConfiguration, Transactions
<1>11. PICK ss : proxy' = [proxy EXCEPT ![v] = [s \in DOMAIN proxy[v] \cup applied |->
                      IF s \in applied THEN Frontend(ports[s], ss[s]) ELSE proxy[v][s]]]
  BY <1>9 DEF Configure, applyConfiguration
<1>12. DOMAIN proxy[v] \cup applied = DOMAIN ports
  BY <1>5, <1>8, <1>10 DEF KeyBinds
<1>13. /\ DOMAIN proxy'[v] = DOMAIN ports /\ \A s \in DOMAIN ports : proxy'[v][s].port = ports[s]
       /\ \A u \in Owners : u # v => proxy'[u] = proxy[u]
  <2>1. \A u \in Owners : u # v => proxy'[u] = proxy[u]
    BY <1>1, <1>11 DEF TypeIInv, ProxyOK
  <2>2. proxy'[v] = [s \in DOMAIN ports |-> Frontend(ports[s], ss[s])]
    BY <1>1, <1>10, <1>11, <1>12 DEF TypeIInv, ProxyOK
  <2> QED BY <2>1, <2>2 DEF Frontend
<1>14. listeners'[v] = ports /\ \A u \in Owners : u # v => listeners'[u] = listeners[u]
  BY <1>1, <1>9 DEF Configure, TypeIInv, ProxyOK
<1>15. KeyBinds(v)'
  <2>1. BoundPorts(v)' \subseteq RangeOf(ports)
    BY <1>13 DEF BoundPorts, RangeOf
  <2> QED BY <1>4, <1>7, <1>8, <1>13, <1>14, <2>1 DEF KeyBinds
<1>16. (\A x \in Workers : x # w => wk'[x] = wk[x]) /\ wk'[w].pc = "status"
  BY <1>1, <1>3, <1>9 DEF Report, TypeIInv, WorkersOK, Busy
<1>17. WorkerBinds(w)'
  BY <1>16 DEF WorkerBinds
<1> QED BY <1>3, <1>4, <1>13, <1>14, <1>15, <1>16, <1>17, BindsOfKey

\* Remove takes down all of a key's frontends: those the manager remembers are those there.
LEMMA RemoveBinds ==
    ASSUME ProxyFaults = FALSE, FrontendIInv, RecordIInv, NEW w \in Workers, removeHAProxy(w)
    PROVE  FrontendIInv'
<1>1. TypeIInv
  BY DEF RecordIInv
<1>2. wk[w].pc = "remove" /\ UNCHANGED <<allocVars, objVars>> /\ Goto(w, "release")
  BY DEF removeHAProxy, At
<1>3. wk[w] \in Busy /\ wk[w] # Idle /\ \E v \in Owners : v = wk[w].key
  BY <1>1, <1>2, BusyIs DEF TypeIInv, Busy
<1> PICK v \in Owners : v = wk[w].key
  BY <1>3
<1>4. UNCHANGED <<api, ownerPorts>>
  BY <1>2 DEF objVars, allocVars
<1>5. PICK removed \in SUBSET DOMAIN listeners[v], ok \in BOOLEAN : Remove(v, removed, ok)
  BY DEF removeHAProxy
<1>6. removed = DOMAIN proxy[v] /\ ok
  BY <1>5 DEF Remove, removeConfiguration, Transactions, FrontendIInv, KeyBinds
<1>7. /\ proxy' = [proxy EXCEPT ![v] = [s \in DOMAIN proxy[v] \ removed |-> proxy[v][s]]]
      /\ listeners' = [listeners EXCEPT ![v] = NoEntries]
  BY <1>5, <1>6 DEF Remove, removeConfiguration
<1>8. DOMAIN proxy'[v] = {} /\ \A u \in Owners : u # v => proxy'[u] = proxy[u]
  BY <1>1, <1>6, <1>7 DEF TypeIInv, ProxyOK
<1>9. DOMAIN listeners'[v] = {} /\ \A u \in Owners : u # v => listeners'[u] = listeners[u]
  BY <1>1, <1>7, NoEntriesIs DEF TypeIInv, ProxyOK
<1>10. KeyBinds(v)'
  BY <1>8, <1>9 DEF KeyBinds, BoundPorts
<1>11. /\ \A x \in Workers : x # w => wk'[x] = wk[x]
       /\ wk'[w].pc = "release" /\ wk'[w].key = v
  BY <1>1, <1>2, <1>3 DEF Goto, TypeIInv, WorkersOK, Busy
<1>12. WorkerBinds(w)'
  BY <1>8, <1>11 DEF WorkerBinds
<1> QED BY <1>3, <1>4, <1>8, <1>9, <1>10, <1>11, <1>12, BindsOfKey

\* Ports are released, and the object let go, when no frontend is left.
LEMMA FinalizationBinds ==
    ASSUME FrontendIInv, RecordIInv, NEW w \in Workers, releaseAndDeleteObjects(w) \/ removeFinalizer(w)
    PROVE  FrontendIInv'
<1>1. TypeIInv /\ AllocTypeOK /\ MapsAgree
  BY DEF RecordIInv, TypeIInv
<1>2. wk[w].pc \in {"release", "unfinalize"} /\ UNCHANGED <<haproxyVars, listeners, proxy>>
  BY DEF releaseAndDeleteObjects, removeFinalizer, At, haproxyVars
<1>3. wk[w] \in Busy /\ wk[w] # Idle /\ \E v \in Owners : v = wk[w].key
  BY <1>1, <1>2, BusyIs DEF TypeIInv, Busy
<1> PICK v \in Owners : v = wk[w].key
  BY <1>3
<1>4. DOMAIN proxy[v] = {} /\ DOMAIN listeners[v] = {}
  BY <1>2 DEF FrontendIInv, WorkerBinds, KeyBinds
<1>5. KeyBinds(v)'
  BY <1>2, <1>4 DEF KeyBinds, BoundPorts
<1>6. /\ \A x \in Workers : x # w => wk'[x] = wk[x]
      /\ wk'[w] = Idle \/ (wk'[w].key = v /\ wk'[w].pc = "unfinalize")
  <2>1. CASE releaseAndDeleteObjects(w)
    BY <1>1, <1>3, <2>1 DEF releaseAndDeleteObjects, Goto, TypeIInv, WorkersOK, Busy
  <2>2. CASE removeFinalizer(w)
    <3>1. wk' = [wk EXCEPT ![w] = Idle]
      BY <2>2 DEF removeFinalizer, Finish
    <3> QED BY <1>1, <3>1 DEF TypeIInv, WorkersOK
  <2> QED BY <2>1, <2>2
<1>7. WorkerBinds(w)'
  <2>1. CASE wk'[w] = Idle
    BY <2>1 DEF WorkerBinds, Idle
  <2>2. CASE wk'[w].key = v /\ wk'[w].pc = "unfinalize"
    BY <1>2, <1>4, <2>2 DEF WorkerBinds
  <2> QED BY <1>6, <2>1, <2>2
<1>8. \A u \in Owners : u # v => api'[u] = api[u] /\ ownerPorts'[u] = ownerPorts[u]
  <2>1. CASE releaseAndDeleteObjects(w)
    BY <1>1, <2>1, ReleaseEachIs DEF releaseAndDeleteObjects
  <2>2. CASE removeFinalizer(w)
    BY <1>1, <2>2 DEF removeFinalizer, allocVars, TypeIInv, ObjectsOK
  <2> QED BY <2>1, <2>2
<1> QED BY <1>2, <1>3, <1>5, <1>6, <1>7, <1>8, BindsOfKey

\* Every step keeps what the keys bind.
LEMMA NextBinds ==
    ASSUME "edit" \notin UserOps, MaxRestarts = 0, ProxyFaults = FALSE,
           RecordIInv, FrontendIInv, [Next]_vars
    PROVE  FrontendIInv'
<1>1. CASE UNCHANGED vars
  BY <1>1 DEF vars, haproxyVars, allocVars, objVars, FrontendIInv, KeyBinds, WorkerBinds, BoundPorts
<1>2. ASSUME NEW w \in Workers, Work(w) PROVE FrontendIInv'
  BY <1>2, ReadBinds, ServiceBinds, AllocationBinds, ConfigureBinds, RemoveBinds,
     FinalizationBinds DEF Work
<1>3. ~Restart
  BY DEF Restart, RecordIInv, TypeIInv, BoundsOK
<1> QED BY <1>1, <1>2, <1>3, UserBinds DEF Next

LEMMA InitBinds == Init => FrontendIInv
<1> SUFFICES ASSUME Init PROVE FrontendIInv
  OBVIOUS
<1>1. \A v \in Owners : DOMAIN proxy[v] = {} /\ DOMAIN listeners[v] = {}
  BY NoEntriesIs DEF Init, NewManager
<1>2. \A v \in Owners : KeyBinds(v)
  BY <1>1 DEF KeyBinds, BoundPorts
<1>3. \A w \in Workers : wk[w].pc = "idle"
  BY DEF Init, Idle
<1> QED BY <1>2, <1>3 DEF FrontendIInv, WorkerBinds

\* HAProxy never has two frontends bound to one port, for every number of keys, workers and
\* ports, as long as no spec is edited, the controller is not restarted and the Data Plane
\* API answers.
THEOREM FrontendsAreExclusive ==
    ASSUME "edit" \notin UserOps, MaxRestarts = 0, ProxyFaults = FALSE
    PROVE  Spec => []FrontendsExclusive
<1> DEFINE IInv == RecordIInv /\ FrontendIInv
<1>1. Init => IInv
  BY InitRecord, InitBinds
<1>2. IInv /\ [Next]_vars => IInv'
  BY NextRecord, NextBinds
<1>3. IInv => FrontendsExclusive
  <2> SUFFICES ASSUME IInv, NEW v \in Owners, NEW u \in Owners, v # u,
                      NEW p \in BoundPorts(v), p \in BoundPorts(u)
               PROVE  FALSE
    BY DEF FrontendsExclusive
  <2>1. p \in ownerPorts[v] /\ p \in ownerPorts[u]
    BY DEF FrontendIInv, KeyBinds
  <2>2. p \in Ports
    BY <2>1 DEF RecordIInv, TypeIInv, AllocTypeOK
  <2> QED BY <2>1, <2>2 DEF RecordIInv, MapsAgree
<1> QED BY <1>1, <1>2, <1>3, PTL DEF Spec
-----------------------------------------------------------------------------
\* What each step of a worker does to its record and its key, for the proofs of what
\* holds at rest.

\* A worker past the read has a key and two copies.
LEMMA WorkerAt ==
    ASSUME TypeIInv, NEW w \in Workers, wk[w].pc # "idle"
    PROVE  /\ wk[w] \in Busy /\ wk[w] # Idle /\ wk[w].key \in Owners
           /\ wk[w].pc # "read" => /\ Working(w) /\ wk[w].obj \in VirtualServices
                                   /\ wk[w].base \in VirtualServices
<1>1. wk[w] \in Busy /\ wk[w] # Idle
  BY BusyIs DEF TypeIInv
<1>2. wk[w].pc # "read" => Working(w) /\ wk[w].obj \in VirtualServices /\ wk[w].base \in VirtualServices
  BY BusyIs DEF TypeIInv, Working
<1> QED BY <1>1, <1>2 DEF Busy

LEMMA RecordSet ==
    ASSUME TypeIInv, NEW w \in Workers, NEW r, wk' = [wk EXCEPT ![w] = r]
    PROVE  wk'[w] = r /\ \A x \in Workers : x # w => wk'[x] = wk[x]
BY DEF TypeIInv, WorkersOK

LEMMA FinishIs ==
    ASSUME TypeIInv, NEW w \in Workers, NEW err, Finish(w, err)
    PROVE  /\ wk'[w] = Idle /\ \A x \in Workers : x # w => wk'[x] = wk[x]
           /\ dirty' = IF err THEN dirty \cup {wk[w].key} ELSE dirty
BY RecordSet DEF Finish

\* setConditionAndUpdate is entered.
LEMMA ReportIs ==
    ASSUME TypeIInv, NEW w \in Workers, wk[w].pc # "idle", NEW c, Report(w, wk[w].obj, c)
    PROVE  /\ wk'[w].pc = "status" /\ wk'[w].cond = c /\ wk'[w].key = wk[w].key
           /\ wk'[w].obj = wk[w].obj /\ wk'[w].base = wk[w].base
           /\ \A x \in Workers : x # w => wk'[x] = wk[x]
<1>1. wk[w] \in Busy
  BY WorkerAt
<1> DEFINE r == [wk[w] EXCEPT !.pc = "status", !.obj = wk[w].obj, !.cond = c]
<1>2. wk' = [wk EXCEPT ![w] = r]
  BY DEF Report
<1>3. wk'[w] = r /\ \A x \in Workers : x # w => wk'[x] = wk[x]
  BY <1>2, RecordSet
<1> QED BY <1>1, <1>3 DEF Busy

LEMMA GotoIs ==
    ASSUME TypeIInv, NEW w \in Workers, wk[w].pc # "idle", NEW pc, Goto(w, pc)
    PROVE  /\ wk'[w].pc = pc /\ wk'[w].key = wk[w].key /\ wk'[w].pods = wk[w].pods
           /\ wk'[w].obj = wk[w].obj /\ wk'[w].base = wk[w].base
           /\ \A x \in Workers : x # w => wk'[x] = wk[x]
<1>1. wk[w] \in Busy
  BY WorkerAt
<1>2. wk' = [wk EXCEPT ![w] = [wk[w] EXCEPT !.pc = pc]]
  BY DEF Goto
<1>3. wk'[w] = [wk[w] EXCEPT !.pc = pc] /\ \A x \in Workers : x # w => wk'[x] = wk[x]
  BY <1>2, RecordSet
<1> QED BY <1>1, <1>3 DEF Busy

\* reconcile, read: it ends, with the key out of the cache when the object is gone, or goes
\* on with the lister's copy.
LEMMA ReconcileIs ==
    ASSUME TypeIInv, NEW w \in Workers, reconcile(w), NEW v \in Owners, wk[w].key = v
    PROVE  /\ wk[w].pc = "read" /\ dirty' = dirty
           /\ \A x \in Workers : x # w => wk'[x] = wk[x]
           /\ UNCHANGED <<haproxyVars, objVars, podVars, boundVars>>
           /\ \/ wk'[w] = Idle /\ lister[v] = Absent /\ vsCache' = vsCache \ {v}
              \/ /\ wk'[w] = Idle /\ vsCache' = vsCache \cup {v}
                 /\ lister[v] # Absent /\ lister[v].deleting
              \/ /\ vsCache' = vsCache \cup {v} /\ lister[v] \in VirtualServices
                 /\ wk'[w].pc \in {"remove", "ports", "finalizer"} /\ wk'[w].key = v
                 /\ wk'[w].obj = lister[v] /\ wk'[w].base = lister[v]
                 /\ wk'[w].pc = "remove" <=> lister[v].deleting
                 /\ wk'[w].pc = "ports" => lister[v].fin
<1>1. wk[w].pc = "read" /\ UNCHANGED <<haproxyVars, objVars, podVars, boundVars>>
  BY DEF reconcile, At, workerUnchanged
<1>2. wk[w] \in Busy
  BY <1>1, WorkerAt
<1>3. CASE lister[v] = Absent
  <2>1. vsCache' = vsCache \ {v} /\ Finish(w, FALSE)
    BY <1>3 DEF reconcile
  <2> QED BY <1>1, <1>3, <2>1, FinishIs
<1>4. CASE lister[v] # Absent
  <2>1. vsCache' = vsCache \cup {v}
    BY <1>4 DEF reconcile
  <2>2. CASE lister[v].deleting /\ Finish(w, FALSE)
    BY <1>1, <1>4, <2>1, <2>2, FinishIs
  <2>3. CASE ~(lister[v].deleting /\ Finish(w, FALSE))
    <3> DEFINE r == [wk[w] EXCEPT !.obj = lister[v], !.base = lister[v],
                                  !.pc = IF lister[v].deleting THEN "remove"
                                         ELSE IF lister[v].fin THEN "ports" ELSE "finalizer"]
    <3>1. wk' = [wk EXCEPT ![w] = r] /\ dirty' = dirty
      BY <1>4, <2>3 DEF reconcile
    <3>2. wk'[w] = r /\ \A x \in Workers : x # w => wk'[x] = wk[x]
      BY <3>1, RecordSet
    <3>3. /\ wk'[w].obj = lister[v] /\ wk'[w].base = lister[v] /\ wk'[w].key = v
          /\ wk'[w].pc = IF lister[v].deleting THEN "remove"
                         ELSE IF lister[v].fin THEN "ports" ELSE "finalizer"
      BY <1>2, <3>2 DEF Busy
    <3>4. lister[v] \in VirtualServices
      BY <1>4 DEF TypeIInv, ObjectsOK
    <3> QED BY <1>1, <2>1, <3>1, <3>2, <3>3, <3>4
  <2> QED BY <2>2, <2>3
<1> QED BY <1>3, <1>4

\* The API server's copy of one key is replaced.
LEMMA ApiSet ==
    ASSUME TypeIInv, NEW v \in Owners, NEW c, api' = [api EXCEPT ![v] = c]
    PROVE  api'[v] = c /\ \A u \in Owners : u # v => api'[u] = api[u]
BY DEF TypeIInv, ObjectsOK

\* addFinalizer: refused and put back, or the copy held is stale from now on.
LEMMA FinalizerIs ==
    ASSUME TypeIInv, NEW w \in Workers, addFinalizer(w), NEW v \in Owners, wk[w].key = v
    PROVE  /\ wk[w].pc = "finalizer" /\ dirty \subseteq dirty' /\ dirty' \subseteq dirty \cup {v}
           /\ \A x \in Workers : x # w => wk'[x] = wk[x]
           /\ \A u \in Owners : u # v => api'[u] = api[u]
           /\ UNCHANGED <<haproxyVars, lister, svc, svcLister, slice, vsCache, podVars, boundVars>>
           /\ \/ wk'[w] = Idle /\ v \in dirty' /\ api' = api
              \/ /\ api[v] = wk[w].base /\ api[v] \in VirtualServices
                 /\ api'[v] = [api[v] EXCEPT !.fin = TRUE]
                 /\ wk'[w].pc = "ports" /\ wk'[w].key = v /\ wk'[w].base = wk[w].base
                 /\ wk'[w].obj = [wk[w].obj EXCEPT !.fin = TRUE]
<1>1. /\ wk[w].pc = "finalizer"
      /\ UNCHANGED <<haproxyVars, lister, svc, svcLister, slice, vsCache, podVars, boundVars>>
  BY DEF addFinalizer, At, workerUnchanged
<1>2. wk[w] \in Busy /\ wk[w].base \in VirtualServices
  BY <1>1, WorkerAt
<1>3. CASE Finish(w, TRUE) /\ UNCHANGED api
  BY <1>1, <1>3, FinishIs
<1>4. CASE ~(Finish(w, TRUE) /\ UNCHANGED api)
  <2> DEFINE r == [wk[w] EXCEPT !.pc = "ports", !.obj.fin = TRUE]
             c == [api[v] EXCEPT !.fin = TRUE]
  <2>1. Fresh(w) /\ api' = [api EXCEPT ![v] = c] /\ wk' = [wk EXCEPT ![w] = r] /\ dirty' = dirty
    BY <1>4 DEF addFinalizer
  <2>2. wk'[w] = r /\ \A x \in Workers : x # w => wk'[x] = wk[x]
    BY <2>1, RecordSet
  <2>3. api'[v] = c /\ \A u \in Owners : u # v => api'[u] = api[u]
    BY <2>1, ApiSet
  <2>4. /\ wk'[w].pc = "ports" /\ wk'[w].key = v /\ wk'[w].base = wk[w].base
        /\ wk'[w].obj = [wk[w].obj EXCEPT !.fin = TRUE]
    BY <1>2, <2>2 DEF Busy
  <2> QED BY <1>1, <1>2, <2>1, <2>2, <2>3, <2>4 DEF Fresh
<1> QED BY <1>3, <1>4

\* Both steps of ensurePortAllocations: on to the Service when there is a port for each port
\* of the spec, to the status, or to the next port.
LEMMA AllocationIs ==
    ASSUME TypeIInv, NEW w \in Workers, validateAndCheckPorts(w) \/ allocatePort(w),
           NEW v \in Owners, wk[w].key = v
    PROVE  /\ wk[w].pc \in {"ports", "allocate"}
           /\ UNCHANGED <<haproxyVars, objVars, vsCache, dirty, podVars, boundVars>>
           /\ \A x \in Workers : x # w => wk'[x] = wk[x]
           /\ wk'[w].key = v /\ wk'[w].base = wk[w].base
           /\ \/ /\ wk'[w].pc = "service" /\ wk'[w].obj = wk[w].obj /\ wk[w].pc = "ports"
                 /\ DOMAIN wk[w].obj.ports = wk[w].obj.spec
              \/ /\ wk'[w].pc = "service" /\ wk[w].pc = "allocate"
                 /\ \E got \in PortMaps : /\ wk'[w].obj = [wk[w].obj EXCEPT !.ports = got]
                                          /\ DOMAIN got = wk[w].obj.spec
              \/ /\ wk'[w].pc = "allocate" /\ wk'[w].obj = wk[w].obj
                 /\ wk[w].pc = "allocate" \/ DOMAIN wk[w].obj.ports # wk[w].obj.spec
              \/ wk'[w].pc = "status" /\ wk'[w].cond # "Ready" /\ wk'[w].obj = wk[w].obj
<1> DEFINE obj == wk[w].obj
<1>1. /\ wk[w].pc \in {"ports", "allocate"}
      /\ UNCHANGED <<haproxyVars, objVars, vsCache, dirty, podVars, boundVars>>
  BY DEF validateAndCheckPorts, allocatePort, At, workerUnchanged
<1>2. wk[w] \in Busy /\ obj \in VirtualServices /\ wk[w].pc # "idle" /\ WorkerOK(wk[w])
  BY <1>1, WorkerAt DEF TypeIInv, WorkersOK
<1>3. CASE validateAndCheckPorts(w)
  <2>0. wk[w].pc = "ports"
    BY <1>3 DEF validateAndCheckPorts, At
  <2>1. CASE Report(w, obj, "UnsupportedSpec")
    BY <1>1, <1>2, <2>1, ReportIs, ZenonT(60)
  <2>2. CASE obj.spec = DOMAIN obj.ports /\ Goto(w, "service")
    BY <1>1, <1>2, <2>0, <2>2, GotoIs
  <2>3. CASE obj.spec # DOMAIN obj.ports /\ Goto(w, "allocate")
    BY <1>1, <1>2, <2>3, GotoIs
  <2> QED BY <1>3, <2>1, <2>2, <2>3 DEF validateAndCheckPorts
<1>4. CASE allocatePort(w)
  <2> DEFINE left == obj.spec \ DOMAIN wk[w].got
             G(p, s) == [x \in DOMAIN wk[w].got \cup {s} |-> IF x = s THEN p ELSE wk[w].got[x]]
  <2>0. wk[w].pc = "allocate"
    BY <1>4 DEF allocatePort, At
  <2>1. CASE Report(w, obj, "PortAllocationError")
    BY <1>1, <1>2, <2>1, ReportIs, ZenonT(60)
  <2>2. CASE ~Report(w, obj, "PortAllocationError")
    <3>1. PICK p \in Ports, s \in left :
            wk' = [wk EXCEPT ![w] =
                     IF left = {s} THEN [@ EXCEPT !.pc = "service", !.obj.ports = G(p, s), !.got = NoEntries]
                                   ELSE [@ EXCEPT !.got = G(p, s)]]
      BY <1>4, <2>2 DEF allocatePort
    <3>2. DOMAIN wk[w].got \subseteq obj.spec
      BY <1>2, <2>0 DEF WorkerOK, Idle
    <3>3. CASE left = {s}
      <4> DEFINE r == [wk[w] EXCEPT !.pc = "service", !.obj.ports = G(p, s), !.got = NoEntries]
      <4>1. wk' = [wk EXCEPT ![w] = r]
        BY <3>1, <3>3
      <4>2. wk'[w] = r /\ \A x \in Workers : x # w => wk'[x] = wk[x]
        BY <4>1, RecordSet
      <4>3. DOMAIN G(p, s) = obj.spec
        BY <3>2, <3>3
      <4>4. G(p, s) \in PortMaps
        <5>1. DOMAIN G(p, s) \subseteq SvcPorts
          BY <1>2, <4>3, SpecsAre
        <5>2. wk[w].got \in PortMaps
          BY <1>2 DEF Busy
        <5>3. \A x \in DOMAIN wk[w].got : wk[w].got[x] \in Ports
          BY <5>2, MapsAre
        <5>4. G(p, s) \in [DOMAIN G(p, s) -> Ports]
          BY <5>3
        <5> HIDE DEF G
        <5> QED BY <5>1, <5>4, MapsAre
      <4> HIDE DEF G
      <4>5. /\ wk'[w].pc = "service" /\ wk'[w].key = v /\ wk'[w].base = wk[w].base
            /\ wk'[w].obj = [wk[w].obj EXCEPT !.ports = G(p, s)]
        BY <1>2, <4>2 DEF Busy
      <4> QED BY <1>1, <2>0, <4>2, <4>3, <4>4, <4>5
    <3>4. CASE left # {s}
      <4> DEFINE r == [wk[w] EXCEPT !.got = G(p, s)]
      <4>1. wk' = [wk EXCEPT ![w] = r]
        BY <3>1, <3>4
      <4>2. wk'[w] = r /\ \A x \in Workers : x # w => wk'[x] = wk[x]
        BY <4>1, RecordSet
      <4> HIDE DEF G
      <4>3. /\ wk'[w].pc = "allocate" /\ wk'[w].key = v /\ wk'[w].base = wk[w].base
            /\ wk'[w].obj = wk[w].obj
        BY <1>2, <2>0, <4>2 DEF Busy
      <4> QED BY <1>1, <2>0, <4>2, <4>3
    <3> QED BY <3>3, <3>4
  <2> QED BY <2>1, <2>2
<1> QED BY <1>3, <1>4

\* ensureGeneratedService: the Service carries the copy's ports, unless it was taken for up
\* to date; or the status is next.
LEMMA ServiceIs ==
    ASSUME TypeIInv, NEW w \in Workers, ensureGeneratedService(w), NEW v \in Owners, wk[w].key = v
    PROVE  /\ wk[w].pc = "service"
           /\ UNCHANGED <<haproxyVars, api, lister, slice, vsCache, dirty, podVars, boundVars>>
           /\ \A x \in Workers : x # w => wk'[x] = wk[x]
           /\ \A u \in Owners : u # v => svc'[u] = svc[u]
           /\ wk'[w].key = v /\ wk'[w].base = wk[w].base /\ wk'[w].obj = wk[w].obj
           /\ \/ /\ wk'[w].pc = "slice" /\ wk'[w].pods = getMatchingPods(v)
                 /\ ~NodePorts => /\ svc'[v] # Absent /\ svc'[v].owner = wk[w].obj.uid
                                  /\ svc'[v].ports = wk[w].obj.ports
              \/ wk'[w].pc = "status" /\ wk'[w].cond # "Ready"
<1> DEFINE obj == wk[w].obj
<1>1. /\ wk[w].pc = "service"
      /\ UNCHANGED <<haproxyVars, api, lister, slice, vsCache, dirty, podVars, boundVars>>
  BY DEF ensureGeneratedService, At, workerUnchanged
<1>2. wk[w] \in Busy /\ obj \in VirtualServices /\ wk[w].pc # "idle"
  BY <1>1, WorkerAt
<1>3. svc \in [Owners -> Services \cup {Absent}] /\ svcLister \in [Owners -> Services \cup {Absent}]
  BY DEF TypeIInv, ObjectsOK
<1>4. \A u \in Owners : u # v => svc'[u] = svc[u]
  BY <1>3 DEF ensureGeneratedService
<1>5. CASE \E c \in {"ServiceConflict", "ReconcileError"} : Report(w, obj, c)
  BY <1>1, <1>2, <1>4, <1>5, ReportIs
<1>6. CASE ~\E c \in {"ServiceConflict", "ReconcileError"} : Report(w, obj, c)
  <2> DEFINE r == [wk[w] EXCEPT !.pc = "slice", !.pods = getMatchingPods(v)]
  <2>1. wk' = [wk EXCEPT ![w] = r]
    BY <1>6 DEF ensureGeneratedService
  <2>2. wk'[w] = r /\ \A x \in Workers : x # w => wk'[x] = wk[x]
    BY <2>1, RecordSet
  <2>3. /\ wk'[w].pc = "slice" /\ wk'[w].pods = getMatchingPods(v) /\ wk'[w].key = v
        /\ wk'[w].base = wk[w].base /\ wk'[w].obj = wk[w].obj
    BY <1>2, <2>2 DEF Busy
  <2>4. ASSUME ~NodePorts
        PROVE  svc'[v] # Absent /\ svc'[v].owner = obj.uid /\ svc'[v].ports = obj.ports
    <3>2. CASE svc' = [svc EXCEPT ![v] = [owner |-> obj.uid, ports |-> obj.ports, rv |-> 0]]
      <4>1. svc'[v] = [owner |-> obj.uid, ports |-> obj.ports, rv |-> 0]
        BY <1>3, <3>2
      <4>2. svc'[v] \in Services
        <5>1. obj.uid \in 0 .. MaxUserOps /\ obj.ports \in PortMaps
          BY <1>2 DEF VirtualServices
        <5> QED BY <4>1, <5>1 DEF Services
      <4> QED BY <4>1, <4>2, NoServiceAssumption
    <3>3. CASE ~(svc' = [svc EXCEPT ![v] = [owner |-> obj.uid, ports |-> obj.ports, rv |-> 0]])
      <4>1. /\ svcLister[v] # Absent /\ svcLister[v].owner = obj.uid
            /\ svc[v] # Absent /\ svc[v].owner = svcLister[v].owner
            /\ svc' = [svc EXCEPT ![v].ports = obj.ports,
                                  ![v].rv = IF svc[v].ports = obj.ports THEN @ ELSE 1 - @]
        BY <1>6, <2>4, <3>3 DEF ensureGeneratedService
      <4>2. svc[v] \in Services
        BY <1>3, <4>1
      <4>3. svc'[v] = [svc[v] EXCEPT !.ports = obj.ports,
                                     !.rv = IF svc[v].ports = obj.ports THEN svc[v].rv ELSE 1 - svc[v].rv]
        BY <1>3, <4>1
      <4>4. svc'[v].owner = obj.uid /\ svc'[v].ports = obj.ports
        <5>1. PICK n : svc'[v] = [svc[v] EXCEPT !.ports = obj.ports, !.rv = n]
          BY <4>3
        <5> QED BY <4>1, <4>2, <5>1, ZenonT(60) DEF Services
      <4>5. svc'[v] \in Services
        <5>1. obj.ports \in PortMaps /\ svc[v].rv \in 0 .. 1
          BY <1>2, <4>2 DEF VirtualServices, Services
        <5>2. 1 - svc[v].rv \in 0 .. 1
          BY <5>1
        <5> QED BY <4>2, <4>3, <5>1, <5>2 DEF Services
      <4> QED BY <4>4, <4>5, NoServiceAssumption
    <3> QED BY <3>2, <3>3
  <2> QED BY <1>1, <1>4, <2>2, <2>3, <2>4
<1> QED BY <1>5, <1>6

\* ensureEndpointSlice: the EndpointSlice carries the copy's ports, or is somebody else's.
LEMMA SliceIs ==
    ASSUME TypeIInv, NEW w \in Workers, ensureEndpointSlice(w), NEW v \in Owners, wk[w].key = v
    PROVE  /\ wk[w].pc = "slice"
           /\ UNCHANGED <<haproxyVars, api, lister, svc, vsCache, dirty, podVars, boundVars>>
           /\ \A x \in Workers : x # w => wk'[x] = wk[x]
           /\ \A u \in Owners : u # v => slice'[u] = slice[u]
           /\ wk'[w].key = v /\ wk'[w].base = wk[w].base /\ wk'[w].obj = wk[w].obj
           /\ \/ /\ wk'[w].pc = "proxy" /\ wk'[w].pods = wk[w].pods
                 /\ slice'[v] # Absent /\ slice'[v].owner = wk[w].obj.uid
                 /\ slice'[v].ports = wk[w].obj.ports
              \/ wk'[w].pc = "status" /\ wk'[w].cond # "Ready" /\ slice'[v] = slice[v]
<1> DEFINE obj == wk[w].obj
<1>1. /\ wk[w].pc = "slice"
      /\ UNCHANGED <<haproxyVars, api, lister, svc, vsCache, dirty, podVars, boundVars>>
  BY DEF ensureEndpointSlice, At, workerUnchanged
<1>2. wk[w] \in Busy /\ obj \in VirtualServices /\ wk[w].pc # "idle"
  BY <1>1, WorkerAt
<1>3. slice \in [Owners -> EndpointSlices \cup {Absent}]
  BY DEF TypeIInv, ObjectsOK
<1>4. CASE Report(w, obj, "ServiceConflict") /\ UNCHANGED slice
  BY <1>1, <1>2, <1>4, ReportIs
<1>5. CASE ~(Report(w, obj, "ServiceConflict") /\ UNCHANGED slice)
  <2>1. slice' = [slice EXCEPT ![v] = [owner |-> obj.uid, ports |-> obj.ports]] /\ Goto(w, "proxy")
    BY <1>5 DEF ensureEndpointSlice
  <2>2. /\ slice'[v] = [owner |-> obj.uid, ports |-> obj.ports]
        /\ \A u \in Owners : u # v => slice'[u] = slice[u]
    BY <1>3, <2>1
  <2>3. slice'[v] \in EndpointSlices
    <3>1. obj.uid \in 0 .. MaxUserOps /\ obj.ports \in PortMaps
      BY <1>2 DEF VirtualServices
    <3> QED BY <2>2, <3>1 DEF EndpointSlices
  <2>4. slice'[v] # Absent /\ slice'[v].owner = obj.uid /\ slice'[v].ports = obj.ports
    BY <2>2, <2>3, NoServiceAssumption
  <2> QED BY <1>1, <1>2, <2>1, <2>2, <2>4, GotoIs
<1> QED BY <1>4, <1>5

\* configureHAProxy, when every transaction succeeds: a frontend for each of the copy's
\* ports, with the pods that matched.
LEMMA ConfigureIs ==
    ASSUME ProxyFaults = FALSE, TypeIInv, NEW w \in Workers, configureHAProxy(w),
           NEW v \in Owners, wk[w].key = v
    PROVE  /\ wk[w].pc = "proxy"
           /\ UNCHANGED <<objVars, vsCache, dirty, podVars, boundVars>>
           /\ \A x \in Workers : x # w => wk'[x] = wk[x]
           /\ \A u \in Owners : u # v => proxy'[u] = proxy[u]
           /\ wk'[w].key = v /\ wk'[w].base = wk[w].base /\ wk'[w].obj = wk[w].obj
           /\ wk'[w].pc = "status"
           /\ \A s \in DOMAIN wk[w].obj.ports :
                /\ s \in DOMAIN proxy'[v] /\ proxy'[v][s].port = wk[w].obj.ports[s]
                /\ proxy'[v][s].servers = wk[w].pods
<1>1. wk[w].pc = "proxy" /\ UNCHANGED <<objVars, vsCache, dirty, podVars, boundVars>>
  BY DEF configureHAProxy, At, workerUnchanged
<1>2. wk[w] \in Busy /\ wk[w].pc # "idle"
  BY <1>1, WorkerAt
<1>3. PICK ports, pods : ports = wk[w].obj.ports /\ pods = wk[w].pods
  OBVIOUS
<1>4. PICK applied \in SUBSET DOMAIN ports, ok \in BOOLEAN :
        /\ Configure(v, ports, pods, applied, ok)
        /\ \E c : Report(w, wk[w].obj, c)
  BY <1>3 DEF configureHAProxy
<1>5. applied = DOMAIN ports
  BY <1>4 DEF Configure, applyConfiguration, Transactions
<1>6. PICK ss : /\ \A s \in applied : ss[s] \in ServersAfter(ServersOf(v, s), pods)
                /\ proxy' = [proxy EXCEPT ![v] = [s \in DOMAIN proxy[v] \cup applied |->
                      IF s \in applied THEN Frontend(ports[s], ss[s]) ELSE proxy[v][s]]]
  BY <1>4 DEF Configure, applyConfiguration
<1>7. \A s \in applied : ss[s] = pods
  BY <1>6 DEF ServersAfter
<1>8. /\ proxy'[v] = [s \in DOMAIN proxy[v] \cup applied |->
                        IF s \in applied THEN Frontend(ports[s], ss[s]) ELSE proxy[v][s]]
      /\ \A u \in Owners : u # v => proxy'[u] = proxy[u]
  BY <1>6 DEF TypeIInv, ProxyOK
<1>9. \A s \in DOMAIN ports : /\ s \in DOMAIN proxy'[v] /\ proxy'[v][s].port = ports[s]
                              /\ proxy'[v][s].servers = pods
  BY <1>5, <1>7, <1>8 DEF Frontend
<1> QED BY <1>1, <1>2, <1>3, <1>4, <1>8, <1>9, ReportIs

\* setConditionAndUpdate: nothing to write, or written, or refused and put back.
LEMMA StatusIs ==
    ASSUME TypeIInv, NEW w \in Workers, setConditionAndUpdate(w), NEW v \in Owners, wk[w].key = v
    PROVE  /\ wk[w].pc = "status" /\ wk'[w] = Idle
           /\ dirty \subseteq dirty' /\ dirty' \subseteq dirty \cup {v}
           /\ \A x \in Workers : x # w => wk'[x] = wk[x]
           /\ \A u \in Owners : u # v => api'[u] = api[u]
           /\ UNCHANGED <<haproxyVars, lister, svc, svcLister, slice, vsCache, podVars, boundVars>>
           /\ \/ wk[w].obj.cond = wk[w].cond /\ wk[w].obj.obs = wk[w].obj.gen /\ api' = api
              \/ v \in dirty' /\ api' = api
              \/ /\ api[v] = wk[w].base /\ api[v] \in VirtualServices /\ api'[v] \in VirtualServices
                 /\ api'[v] = [api[v] EXCEPT !.ports = wk[w].obj.ports, !.cond = wk[w].cond,
                                             !.obs = wk[w].obj.gen]
<1>1. /\ wk[w].pc = "status"
      /\ UNCHANGED <<haproxyVars, lister, svc, svcLister, slice, vsCache, podVars, boundVars>>
  BY DEF setConditionAndUpdate, At, workerUnchanged
<1>2. /\ wk[w] \in Busy /\ wk[w].base \in VirtualServices /\ wk[w].obj \in VirtualServices
      /\ wk[w].pc # "idle"
  BY <1>1, WorkerAt
<1> DEFINE Same == wk[w].obj.cond = wk[w].cond /\ wk[w].obj.obs = wk[w].obj.gen
<1>3. CASE Finish(w, FALSE) /\ UNCHANGED api /\ Same
  BY <1>1, <1>3, FinishIs
<1>4. CASE Finish(w, TRUE) /\ UNCHANGED api
  BY <1>1, <1>4, FinishIs
<1>5. CASE ~(Finish(w, FALSE) /\ UNCHANGED api /\ Same) /\ ~(Finish(w, TRUE) /\ UNCHANGED api)
  <2> DEFINE c == [api[v] EXCEPT !.ports = wk[w].obj.ports, !.cond = wk[w].cond, !.obs = wk[w].obj.gen]
  <2>1. Fresh(w) /\ Finish(w, FALSE) /\ api' = [api EXCEPT ![v] = c]
    BY <1>5 DEF setConditionAndUpdate
  <2>2. api[v] = wk[w].base
    BY <2>1 DEF Fresh
  <2>3. c \in VirtualServices
    <3>1. wk[w].obj.ports \in PortMaps /\ wk[w].obj.gen \in 0 .. MaxUserOps /\ wk[w].cond \in Conditions
      BY <1>2 DEF VirtualServices, Busy
    <3> QED BY <1>2, <2>2, <3>1 DEF VirtualServices
  <2>4. api'[v] = c /\ \A u \in Owners : u # v => api'[u] = api[u]
    BY <2>1, ApiSet
  <2> HIDE DEF c
  <2>5. api'[v] \in VirtualServices
    BY <2>3, <2>4
  <2> QED BY <1>1, <1>2, <2>1, <2>2, <2>4, <2>5, FinishIs DEF c
<1> QED BY <1>3, <1>4, <1>5 DEF setConditionAndUpdate

\* The first two steps of a finalization leave the worker where it was, one step on.
LEMMA FinalizationIs ==
    ASSUME TypeIInv, NEW w \in Workers, removeHAProxy(w) \/ releaseAndDeleteObjects(w),
           NEW v \in Owners, wk[w].key = v
    PROVE  /\ wk[w].pc \in {"remove", "release"}
           /\ wk'[w].pc = IF wk[w].pc = "remove" THEN "release" ELSE "unfinalize"
           /\ wk'[w].key = v /\ wk'[w].base = wk[w].base /\ wk'[w].obj = wk[w].obj
           /\ \A x \in Workers : x # w => wk'[x] = wk[x]
           /\ \A u \in Owners : u # v => /\ proxy'[u] = proxy[u] /\ svc'[u] = svc[u]
                                         /\ slice'[u] = slice[u]
           /\ slice'[v] = slice[v] \/ slice'[v] = Absent
           /\ wk[w].pc = "release" /\ slice'[v] # Absent => slice'[v].owner # wk[w].obj.uid
           /\ UNCHANGED <<api, lister, vsCache, dirty, podVars, boundVars>>
<1>1. wk[w].pc \in {"remove", "release"} /\ UNCHANGED <<api, lister, vsCache, dirty, podVars, boundVars>>
  BY DEF removeHAProxy, releaseAndDeleteObjects, At, objVars, workerUnchanged
<1>2. wk[w].pc # "idle"
  BY <1>1
<1>3. CASE removeHAProxy(w)
  <2>1. PICK removed, ok : Remove(v, removed, ok)
    BY <1>3 DEF removeHAProxy
  <2>2. \A u \in Owners : u # v => proxy'[u] = proxy[u]
    BY <2>1 DEF Remove, removeConfiguration, TypeIInv, ProxyOK
  <2>3. wk[w].pc = "remove" /\ Goto(w, "release") /\ UNCHANGED <<svc, slice>>
    BY <1>3 DEF removeHAProxy, At, objVars
  <2> QED BY <1>1, <1>2, <2>2, <2>3, GotoIs
<1>4. CASE releaseAndDeleteObjects(w)
  <2>1. wk[w].pc = "release" /\ Goto(w, "unfinalize") /\ UNCHANGED proxy
    BY <1>4 DEF releaseAndDeleteObjects, At, haproxyVars
  <2>2. /\ svc' = svc \/ svc' = [svc EXCEPT ![v] = Absent]
        /\ slice' = IF slice[v] # Absent /\ slice[v].owner = wk[w].obj.uid
                      THEN [slice EXCEPT ![v] = Absent] ELSE slice
    BY <1>4 DEF releaseAndDeleteObjects
  <2>3. /\ \A u \in Owners : u # v => svc'[u] = svc[u] /\ slice'[u] = slice[u]
        /\ slice'[v] = slice[v] \/ slice'[v] = Absent
        /\ slice'[v] # Absent => slice'[v].owner # wk[w].obj.uid
    BY <2>2 DEF TypeIInv, ObjectsOK
  <2> QED BY <1>1, <1>2, <2>1, <2>3, GotoIs
<1> QED BY <1>3, <1>4

\* The last one ends the finalization: the object goes, or the key is put back.
LEMMA UnfinalizeIs ==
    ASSUME TypeIInv, NEW w \in Workers, removeFinalizer(w), NEW v \in Owners, wk[w].key = v
    PROVE  /\ wk[w].pc = "unfinalize" /\ wk'[w] = Idle
           /\ dirty \subseteq dirty' /\ dirty' \subseteq dirty \cup {v}
           /\ \A x \in Workers : x # w => wk'[x] = wk[x]
           /\ \A u \in Owners : u # v => api'[u] = api[u]
           /\ UNCHANGED <<haproxyVars, lister, svc, svcLister, slice, vsCache, podVars, boundVars>>
           /\ \/ v \in dirty' /\ api' = api
              \/ api[v] = wk[w].base /\ api'[v] = Absent
<1>1. /\ wk[w].pc = "unfinalize"
      /\ UNCHANGED <<haproxyVars, lister, svc, svcLister, slice, vsCache, podVars, boundVars>>
  BY DEF removeFinalizer, At, workerUnchanged
<1>2. CASE Finish(w, TRUE) /\ UNCHANGED api
  BY <1>1, <1>2, FinishIs
<1>3. CASE ~(Finish(w, TRUE) /\ UNCHANGED api)
  <2>1. Fresh(w) /\ Finish(w, FALSE) /\ api' = [api EXCEPT ![v] = Absent]
    BY <1>3 DEF removeFinalizer
  <2> QED BY <1>1, <2>1, ApiSet, FinishIs DEF Fresh
<1> QED BY <1>2, <1>3

-----------------------------------------------------------------------------
\* Copies and the queue, with edits, restarts and faults.

\* A worker's copy agrees with the object it read except for the finalizer and the ports;
\* that object is still the informer's, or the key is queued again; and on its way to the
\* listeners the copy has a port for each port of its spec.
WorkerCopies(w) ==
    LET me == wk[w] IN
    /\ me.obj.uid = me.base.uid /\ me.obj.gen = me.base.gen /\ me.obj.spec = me.base.spec
    /\ me.obj.cond = me.base.cond /\ me.obj.obs = me.base.obs
    /\ me.base = lister[me.key] \/ me.key \in dirty
    /\ me.key \in vsCache
    /\ me.pc \in {"service", "slice", "proxy"} \/ (me.pc = "status" /\ me.cond = "Ready")
         => DOMAIN me.obj.ports = me.obj.spec

\* A cached key whose object the informer has not is going to be looked at.
CacheKnows(v) ==
    v \in vsCache /\ lister[v] = Absent =>
        v \in dirty \/ \E w \in Workers : wk[w].pc = "read" /\ wk[w].key = v

CopyIInv ==
    /\ TypeIInv /\ OneWorkerPerKey
    /\ \A v \in Owners : CacheKnows(v)
    /\ \A w \in Workers : Working(w) => WorkerCopies(w)

\* Users, pods and informers: what the informer takes in is queued.
LEMMA CopiesKept ==
    ASSUME CopyIInv, TypeIInv', UNCHANGED <<wk, vsCache>>, dirty \subseteq dirty',
           \A v \in Owners : lister'[v] = lister[v] \/ v \in dirty'
    PROVE  CopyIInv'
<1>1. OneWorkerPerKey'
  BY DEF CopyIInv, OneWorkerPerKey
<1>2. \A v \in Owners : CacheKnows(v)'
  BY DEF CopyIInv, CacheKnows
<1>3. ASSUME NEW w \in Workers, Working(w)' PROVE WorkerCopies(w)'
  <2>1. Working(w) /\ WorkerCopies(w)
    BY <1>3 DEF CopyIInv, Working
  <2>2. wk[w].key \in Owners
    BY <2>1, WorkerAt DEF Working, CopyIInv
  <2> QED BY <2>1, <2>2 DEF WorkerCopies
<1> QED BY <1>1, <1>2, <1>3 DEF CopyIInv

\* A worker's step: it is enough to look at its key and at its own record.
LEMMA CopiesOfKey ==
    ASSUME CopyIInv, TypeIInv', NEW w \in Workers, NEW v \in Owners, wk[w] # Idle, wk[w].key = v,
           \A x \in Workers : x # w => wk'[x] = wk[x],
           lister' = lister, dirty \subseteq dirty',
           \A u \in Owners : u # v => (u \in vsCache' <=> u \in vsCache),
           wk'[w] = Idle \/ wk'[w].key = v,
           CacheKnows(v)', Working(w)' => WorkerCopies(w)'
    PROVE  CopyIInv'
<1>1. OneWorkerPerKey'
  BY DEF CopyIInv, OneWorkerPerKey
<1>2. ASSUME NEW u \in Owners, u # v PROVE CacheKnows(u)'
  BY <1>2 DEF CopyIInv, CacheKnows
<1>3. ASSUME NEW x \in Workers, x # w, Working(x)' PROVE WorkerCopies(x)'
  <2>1. wk'[x] = wk[x] /\ Working(x) /\ WorkerCopies(x) /\ wk[x] # Idle
    BY <1>3 DEF CopyIInv, Working, Idle
  <2>2. wk[x].key \in Owners
    BY <2>1, WorkerAt DEF Working, CopyIInv
  <2>3. wk[x].key # v
    BY <1>3, <2>1 DEF CopyIInv, OneWorkerPerKey
  <2>4. wk[x].key \in vsCache'
    BY <2>1, <2>2, <2>3 DEF WorkerCopies
  <2> QED BY <2>1, <2>4 DEF WorkerCopies
<1> QED BY <1>1, <1>2, <1>3 DEF CopyIInv

\* processNextWorkItem takes a key nobody works on.
LEMMA TakeIs ==
    ASSUME TypeIInv, NEW w \in Workers, processNextWorkItem(w)
    PROVE  /\ wk[w] = Idle /\ \A x \in Workers : x # w => wk'[x] = wk[x]
           /\ UNCHANGED <<haproxyVars, objVars, vsCache, podVars, boundVars>>
           /\ \E v \in Owners : /\ v \in dirty /\ dirty' = dirty \ {v}
                                /\ wk'[w].pc = "read" /\ wk'[w].key = v /\ wk'[w] # Idle
                                /\ \A x \in Workers : wk[x] # Idle => wk[x].key # v
<1>1. wk[w] = Idle /\ UNCHANGED <<haproxyVars, objVars, vsCache, podVars, boundVars>>
  BY BusyIs DEF processNextWorkItem, At, workerUnchanged, TypeIInv
<1>2. PICK v \in dirty \ Processing :
        /\ dirty' = dirty \ {v}
        /\ wk' = [wk EXCEPT ![w] = [pc |-> "read", key |-> v, obj |-> Absent, base |-> Absent,
                                    got |-> NoEntries, pods |-> {}, cond |-> "None"]]
  BY DEF processNextWorkItem
<1>3. /\ wk'[w] = [pc |-> "read", key |-> v, obj |-> Absent, base |-> Absent,
                   got |-> NoEntries, pods |-> {}, cond |-> "None"]
      /\ \A x \in Workers : x # w => wk'[x] = wk[x]
  BY <1>2, RecordSet
<1>4. v \in Owners /\ \A x \in Workers : wk[x] # Idle => wk[x].key # v
  BY <1>2 DEF Processing, TypeIInv, QueueOK
<1>5. wk'[w].pc = "read" /\ wk'[w].key = v /\ wk'[w] # Idle
  BY <1>3 DEF Idle
<1> QED BY <1>1, <1>2, <1>3, <1>4, <1>5

LEMMA TakeCopies ==
    ASSUME CopyIInv, TypeIInv', NEW w \in Workers, processNextWorkItem(w)
    PROVE  CopyIInv'
<1>1. TypeIInv
  BY DEF CopyIInv
<1>2. /\ wk[w] = Idle /\ lister' = lister /\ vsCache' = vsCache
      /\ \A x \in Workers : x # w => wk'[x] = wk[x]
  BY <1>1, TakeIs DEF objVars
<1>3. PICK v \in Owners : /\ v \in dirty /\ dirty' = dirty \ {v}
                          /\ wk'[w].pc = "read" /\ wk'[w].key = v
                          /\ \A x \in Workers : wk[x] # Idle => wk[x].key # v
  BY <1>1, TakeIs
<1>4. OneWorkerPerKey'
  BY <1>2, <1>3 DEF CopyIInv, OneWorkerPerKey
<1>5. ASSUME NEW u \in Owners PROVE CacheKnows(u)'
  <2>1. CASE u = v
    BY <1>3, <2>1 DEF CacheKnows
  <2>2. CASE u # v
    <3>1. \A x \in Workers : wk[x].pc = "read" => x # w
      BY <1>2 DEF Idle
    <3> QED BY <1>2, <1>3, <2>2, <3>1 DEF CopyIInv, CacheKnows
  <2> QED BY <2>1, <2>2
<1>6. ASSUME NEW x \in Workers, Working(x)' PROVE WorkerCopies(x)'
  <2>1. x # w
    BY <1>3, <1>6 DEF Working
  <2>2. wk'[x] = wk[x] /\ Working(x) /\ WorkerCopies(x) /\ wk[x] # Idle
    BY <1>2, <1>6, <2>1 DEF CopyIInv, Working, Idle
  <2>3. wk[x].key # v
    BY <1>3, <2>2
  <2> QED BY <1>2, <1>3, <2>2, <2>3 DEF WorkerCopies
<1> QED BY <1>4, <1>5, <1>6 DEF CopyIInv

\* A worker reads the lister's copy.
LEMMA ReadCopies ==
    ASSUME CopyIInv, TypeIInv', NEW w \in Workers, reconcile(w)
    PROVE  CopyIInv'
<1>1. TypeIInv /\ wk[w].pc # "idle"
  BY DEF CopyIInv, reconcile, At
<1>2. wk[w] # Idle /\ \E v \in Owners : v = wk[w].key
  BY <1>1, WorkerAt
<1> PICK v \in Owners : v = wk[w].key
  BY <1>2
<1>3. lister' = lister /\ dirty' = dirty /\ \A x \in Workers : x # w => wk'[x] = wk[x]
  BY <1>1, ReconcileIs DEF objVars
<1>4. \A u \in Owners : u # v => (u \in vsCache' <=> u \in vsCache)
  BY <1>1, ReconcileIs
<1>5. wk'[w] = Idle \/ wk'[w].key = v
  BY <1>1, ReconcileIs
<1>6. CacheKnows(v)'
  <2>1. lister[v] = Absent => v \notin vsCache'
    BY <1>1, ReconcileIs, AbsentAssumption
  <2> QED BY <1>3, <2>1 DEF CacheKnows
<1>7. ASSUME Working(w)' PROVE WorkerCopies(w)'
  <2>1. wk'[w] # Idle
    BY <1>7 DEF Working, Idle
  <2>2. /\ v \in vsCache' /\ wk'[w].pc \in {"remove", "ports", "finalizer"} /\ wk'[w].key = v
        /\ wk'[w].obj = lister[v] /\ wk'[w].base = lister[v]
    BY <1>1, <2>1, ReconcileIs
  <2> QED BY <1>3, <2>2 DEF WorkerCopies
<1> QED BY <1>2, <1>3, <1>4, <1>5, <1>6, <1>7, CopiesOfKey

\* A worker past the read goes on with the same object, or is done.
LEMMA GoOnCopies ==
    ASSUME CopyIInv, TypeIInv', NEW w \in Workers, Working(w), wk[w].key \in Owners,
           \A x \in Workers : x # w => wk'[x] = wk[x],
           UNCHANGED <<lister, vsCache>>, dirty \subseteq dirty',
           \/ wk'[w] = Idle
           \/ /\ wk'[w].key = wk[w].key /\ wk'[w].base = wk[w].base
              /\ wk'[w].obj.uid = wk[w].obj.uid /\ wk'[w].obj.spec = wk[w].obj.spec
              /\ wk'[w].obj.cond = wk[w].obj.cond /\ wk'[w].obj.gen = wk[w].obj.gen
              /\ wk'[w].obj.obs = wk[w].obj.obs
              /\ wk'[w].pc \in {"service", "slice", "proxy"} \/ (wk'[w].pc = "status" /\ wk'[w].cond = "Ready")
                   => DOMAIN wk'[w].obj.ports = wk'[w].obj.spec
    PROVE  CopyIInv'
<1> PICK v \in Owners : v = wk[w].key
  OBVIOUS
<1>1. wk[w] # Idle /\ wk[w].pc # "read" /\ WorkerCopies(w)
  BY DEF Working, Idle, CopyIInv
<1>2. CacheKnows(v)'
  BY <1>1 DEF CopyIInv, CacheKnows
<1>3. ASSUME Working(w)' PROVE WorkerCopies(w)'
  <2>1. wk'[w] # Idle
    BY <1>3 DEF Working, Idle
  <2> QED BY <1>1, <2>1 DEF WorkerCopies
<1> QED BY <1>1, <1>2, <1>3, CopiesOfKey

LEMMA WorkCopies ==
    ASSUME CopyIInv, TypeIInv', NEW w \in Workers, Work(w),
           ~processNextWorkItem(w), ~reconcile(w)
    PROVE  CopyIInv'
<1>1. TypeIInv /\ wk[w].pc \notin {"idle", "read"}
  BY DEF CopyIInv, Work, addFinalizer, validateAndCheckPorts, allocatePort, ensureGeneratedService,
         ensureEndpointSlice, configureHAProxy, setConditionAndUpdate, removeHAProxy,
         releaseAndDeleteObjects, removeFinalizer, At
<1>2. Working(w) /\ wk[w].key \in Owners /\ wk[w].obj \in VirtualServices /\ wk[w].pc # "idle"
  BY <1>1, WorkerAt
<1> PICK v \in Owners : v = wk[w].key
  BY <1>2
<1>3. WorkerCopies(w)
  BY <1>2 DEF CopyIInv
<1>4. CASE addFinalizer(w)
  <2>1. /\ UNCHANGED <<lister, vsCache>> /\ dirty \subseteq dirty'
        /\ \A x \in Workers : x # w => wk'[x] = wk[x]
    BY <1>1, <1>4, FinalizerIs
  <2>2. \/ wk'[w] = Idle
        \/ /\ wk'[w].pc = "ports" /\ wk'[w].key = v /\ wk'[w].base = wk[w].base
           /\ wk'[w].obj = [wk[w].obj EXCEPT !.fin = TRUE]
    BY <1>1, <1>4, FinalizerIs
  <2>3. CASE wk'[w] = Idle
    BY <1>2, <2>1, <2>3, GoOnCopies
  <2>4. CASE wk'[w] # Idle
    <3>1. /\ wk'[w].obj.uid = wk[w].obj.uid /\ wk'[w].obj.spec = wk[w].obj.spec
          /\ wk'[w].obj.cond = wk[w].obj.cond /\ wk'[w].obj.gen = wk[w].obj.gen
          /\ wk'[w].obj.obs = wk[w].obj.obs
      BY <1>2, <2>2, <2>4 DEF VirtualServices
    <3> QED BY <1>2, <2>1, <2>2, <2>4, <3>1, GoOnCopies
  <2> QED BY <2>3, <2>4
<1>5. CASE validateAndCheckPorts(w) \/ allocatePort(w)
  <2>1. /\ UNCHANGED <<lister, vsCache, dirty>> /\ \A x \in Workers : x # w => wk'[x] = wk[x]
        /\ wk'[w].key = v /\ wk'[w].base = wk[w].base
    BY <1>1, <1>5, AllocationIs DEF objVars
  <2>2. \/ wk'[w].pc = "service" /\ wk'[w].obj = wk[w].obj /\ DOMAIN wk[w].obj.ports = wk[w].obj.spec
        \/ /\ wk'[w].pc = "service"
           /\ \E got \in PortMaps : /\ wk'[w].obj = [wk[w].obj EXCEPT !.ports = got]
                                    /\ DOMAIN got = wk[w].obj.spec
        \/ wk'[w].pc = "allocate" /\ wk'[w].obj = wk[w].obj
        \/ wk'[w].pc = "status" /\ wk'[w].cond # "Ready" /\ wk'[w].obj = wk[w].obj
    BY <1>1, <1>5, AllocationIs
  <2>3. /\ wk'[w].obj.uid = wk[w].obj.uid /\ wk'[w].obj.spec = wk[w].obj.spec
        /\ wk'[w].obj.cond = wk[w].obj.cond /\ wk'[w].obj.gen = wk[w].obj.gen
        /\ wk'[w].obj.obs = wk[w].obj.obs
        /\ wk'[w].pc = "service" => DOMAIN wk'[w].obj.ports = wk'[w].obj.spec
        /\ wk'[w].pc \in {"service", "allocate", "status"}
        /\ wk'[w].pc = "status" => wk'[w].cond # "Ready"
    BY <1>2, <2>2 DEF VirtualServices
  <2> QED BY <1>2, <2>1, <2>3, GoOnCopies
<1>6. CASE ensureGeneratedService(w) \/ ensureEndpointSlice(w)
  <2>1. /\ UNCHANGED <<lister, vsCache, dirty>> /\ \A x \in Workers : x # w => wk'[x] = wk[x]
        /\ wk'[w].key = v /\ wk'[w].base = wk[w].base /\ wk'[w].obj = wk[w].obj
        /\ wk[w].pc \in {"service", "slice"}
    BY <1>1, <1>6, ServiceIs, SliceIs
  <2> QED BY <1>2, <1>3, <2>1, GoOnCopies DEF WorkerCopies
<1>7. CASE configureHAProxy(w)
  <2>1. wk[w].pc = "proxy" /\ UNCHANGED <<objVars, vsCache, dirty>> /\ \E c : Report(w, wk[w].obj, c)
    BY <1>7 DEF configureHAProxy, At
  <2>2. /\ UNCHANGED <<lister, vsCache, dirty>> /\ \A x \in Workers : x # w => wk'[x] = wk[x]
        /\ wk'[w].key = v /\ wk'[w].base = wk[w].base /\ wk'[w].obj = wk[w].obj
    BY <1>1, <1>2, <2>1, ReportIs DEF objVars
  <2> QED BY <1>2, <1>3, <2>1, <2>2, GoOnCopies DEF WorkerCopies
<1>8. CASE setConditionAndUpdate(w) \/ removeFinalizer(w)
  <2>1. /\ UNCHANGED <<lister, vsCache>> /\ \A x \in Workers : x # w => wk'[x] = wk[x]
        /\ dirty \subseteq dirty' /\ wk'[w] = Idle
    BY <1>1, <1>8, StatusIs, UnfinalizeIs
  <2> QED BY <1>2, <2>1, GoOnCopies
<1>9. CASE removeHAProxy(w) \/ releaseAndDeleteObjects(w)
  <2>1. /\ UNCHANGED <<lister, vsCache, dirty>> /\ \A x \in Workers : x # w => wk'[x] = wk[x]
        /\ wk'[w].key = v /\ wk'[w].base = wk[w].base /\ wk'[w].obj = wk[w].obj
        /\ wk'[w].pc \in {"release", "unfinalize"}
    BY <1>1, <1>9, FinalizationIs
  <2> QED BY <1>2, <2>1, GoOnCopies
<1> QED BY <1>4, <1>5, <1>6, <1>7, <1>8, <1>9 DEF Work

LEMMA NextCopies == CopyIInv /\ [Next]_vars => CopyIInv'
<1> SUFFICES ASSUME CopyIInv, [Next]_vars PROVE CopyIInv'
  OBVIOUS
<1>1. TypeIInv' /\ TypeIInv
  BY NextTypes DEF CopyIInv
<1>2. CASE UNCHANGED vars
  BY <1>1, <1>2, CopiesKept DEF vars, objVars
<1>3. CASE Users
  <2>1. UNCHANGED <<wk, vsCache, lister, dirty>>
    BY <1>3 DEF Users, CreateVirtualService, EditVirtualService, DeleteVirtualService, ReplaceService,
           CreateEndpointSlice, PodStep, userUnchanged, objVars
  <2> QED BY <1>1, <2>1, CopiesKept
<1>4. CASE Deliver
  <2>1. UNCHANGED <<wk, vsCache>> /\ dirty \subseteq dirty'
    BY <1>4 DEF Deliver, enqueueVirtualService, ServiceInformer, CollectService, handlePodEvent,
           handleTombstone, enqueueVirtualServicesForPod, userUnchanged
  <2>2. ASSUME NEW v \in Owners, enqueueVirtualService(v)
        PROVE  \A u \in Owners : lister'[u] = lister[u] \/ u \in dirty'
    BY <1>1, <2>2 DEF enqueueVirtualService, TypeIInv, ObjectsOK
  <2>3. (\A v \in Owners : ~enqueueVirtualService(v)) => lister' = lister
    BY <1>4 DEF Deliver, ServiceInformer, CollectService, handlePodEvent,
           handleTombstone, enqueueVirtualServicesForPod, userUnchanged, objVars
  <2> QED BY <1>1, <2>1, <2>2, <2>3, CopiesKept
<1>5. ASSUME NEW w \in Workers, Work(w) PROVE CopyIInv'
  BY <1>1, <1>5, TakeCopies, ReadCopies, WorkCopies
<1>6. CASE Restart
  <2>1. vsCache' = {} /\ \A w \in Workers : wk'[w] = Idle
    BY <1>6 DEF Restart
  <2>2. OneWorkerPerKey' /\ \A v \in Owners : CacheKnows(v)'
    BY <2>1 DEF OneWorkerPerKey, CacheKnows
  <2>3. \A w \in Workers : ~Working(w)'
    BY <2>1 DEF Working, Idle
  <2> QED BY <1>1, <2>2, <2>3 DEF CopyIInv
<1> QED BY <1>2, <1>3, <1>4, <1>5, <1>6 DEF Next

LEMMA InitCopies == Init => CopyIInv
<1> SUFFICES ASSUME Init PROVE CopyIInv
  OBVIOUS
<1>1. vsCache = {} /\ \A w \in Workers : wk[w] = Idle
  BY DEF Init
<1>2. OneWorkerPerKey /\ \A v \in Owners : CacheKnows(v)
  BY <1>1 DEF OneWorkerPerKey, CacheKnows
<1>3. \A w \in Workers : ~Working(w)
  BY <1>1 DEF Working, Idle
<1> QED BY <1>2, <1>3, InitTypes DEF CopyIInv

-----------------------------------------------------------------------------
\* The servers of a Ready VirtualService, with edits, restarts and users' Services.

\* A generation was given by a user operation that has happened.
StampsKnown ==
    \A v \in Owners : /\ api[v] # Absent => api[v].gen <= userOps
                      /\ lister[v] # Absent => lister[v].gen <= userOps

\* y is a version of a pod after x, when labels do not change and nothing is relisted.
Follows(x, y) ==
    IF x = Absent THEN y # Absent
    ELSE IF y = Absent THEN x.deleting ELSE y.label = x.label

\* The cache holds what the last event delivered says, and versions come in order.
PodKnown(p) ==
    /\ podCache[p] = IF podSeen[p] = Absent \/ podSeen[p].deleting THEN Absent ELSE podSeen[p].label
    /\ podEvents[p] # <<>> => Follows(podSeen[p], podEvents[p][1])
    /\ \A i \in 1 .. Len(podEvents[p]) - 1 : Follows(podEvents[p][i], podEvents[p][i + 1])

\* The set of servers is the cached pods that match, or somebody will see to it.
Expects(v, ss) == ss = getMatchingPods(v) \/ v \in dirty \/ notifying \in Selected[v]

Serving(v, spec) == \A s \in spec : s \in DOMAIN proxy[v] /\ Expects(v, proxy[v][s].servers)

WorkerServes(w) ==
    /\ wk[w].pc \in {"slice", "proxy"} => Expects(wk[w].key, wk[w].pods)
    /\ wk[w].pc = "status" /\ wk[w].cond = "Ready" => Serving(wk[w].key, wk[w].obj.spec)

\* The key will be reconciled, or is.
Pending(v) ==
    \/ v \in dirty \/ lister[v] # api[v]
    \/ \E w \in Workers : wk[w] # Idle /\ wk[w].key = v

ReadyNow(v) == Live(v) /\ api[v].cond = "Ready"

KeyServes(v) == ReadyNow(v) => Pending(v) \/ (v \in vsCache /\ Serving(v, api[v].spec))

BackendIInv ==
    /\ \A p \in Pods : PodKnown(p)
    /\ \A v \in Owners : KeyServes(v)
    /\ \A w \in Workers : WorkerServes(w)

LEMMA NextStamps ==
    ASSUME TypeIInv, TypeIInv', StampsKnown, [Next]_vars
    PROVE  StampsKnown'
<1>1. userOps \in Nat /\ userOps' \in Nat
  BY DEF TypeIInv, BoundsOK
<1>2. \A v \in Owners : /\ api[v] \in VirtualServices \cup {Absent}
                        /\ lister[v] \in VirtualServices \cup {Absent}
  BY DEF TypeIInv, ObjectsOK
<1>3. \A c \in VirtualServices : c.gen \in Nat
  BY DEF VirtualServices
<1> DEFINE GenKept == /\ userOps <= userOps'
                      /\ \A v \in Owners : \/ api'[v] = api[v] \/ api'[v] = Absent
                                           \/ api'[v].gen = userOps'
                                           \/ api[v] # Absent /\ api'[v].gen = api[v].gen
             ListerKept == \A v \in Owners : lister'[v] = lister[v] \/ lister'[v] = api[v]
<1>4. GenKept
  <2>1. CASE UNCHANGED <<api, userOps>>
    BY <1>1, <2>1
  <2>2. CASE UNCHANGED api /\ UserStep
    BY <1>1, <2>2 DEF UserStep
  <2>3. ASSUME NEW v \in Owners, CreateVirtualService(v) PROVE GenKept
    <3>1. PICK spec \in Specs : api' = [api EXCEPT ![v] = NewVirtualService(spec, userOps')]
      BY <2>3 DEF CreateVirtualService
    <3>2. api'[v] = NewVirtualService(spec, userOps') /\ \A u \in Owners : u # v => api'[u] = api[u]
      BY <3>1, ApiSet
    <3>3. api'[v].gen = userOps'
      BY <3>2 DEF NewVirtualService
    <3> QED BY <1>1, <2>3, <3>2, <3>3 DEF CreateVirtualService, UserStep
  <2>4. ASSUME NEW v \in Owners, EditVirtualService(v) PROVE GenKept
    <3>1. PICK spec \in Specs : api' = [api EXCEPT ![v] = [api[v] EXCEPT !.spec = spec, !.gen = userOps']]
      BY <2>4 DEF EditVirtualService
    <3>2. /\ api'[v] = [api[v] EXCEPT !.spec = spec, !.gen = userOps']
          /\ \A u \in Owners : u # v => api'[u] = api[u]
      BY <3>1, ApiSet
    <3>3. api[v] \in VirtualServices
      BY <1>2, <2>4 DEF EditVirtualService
    <3>4. api'[v].gen = userOps'
      BY <3>2, <3>3 DEF VirtualServices
    <3>5. userOps' = userOps + 1
      BY <2>4 DEF EditVirtualService, UserStep
    <3>6. \A u \in Owners : u # v => api'[u] = api[u]
      BY <3>2
    <3> QED BY <1>1, <3>4, <3>5, <3>6
  <2>5. ASSUME NEW v \in Owners, DeleteVirtualService(v) PROVE GenKept
    <3>1. api[v] # Absent /\ api[v] \in VirtualServices
      BY <1>2, <2>5 DEF DeleteVirtualService
    <3>2. \/ api' = [api EXCEPT ![v] = Absent]
          \/ api' = [api EXCEPT ![v] = [api[v] EXCEPT !.deleting = TRUE]]
      BY <2>5 DEF DeleteVirtualService
    <3>3. /\ api'[v] = Absent \/ api'[v] = [api[v] EXCEPT !.deleting = TRUE]
          /\ \A u \in Owners : u # v => api'[u] = api[u]
      BY <3>2, ApiSet
    <3>4. api'[v] = Absent \/ api'[v].gen = api[v].gen
      BY <3>1, <3>3 DEF VirtualServices
    <3> QED BY <1>1, <2>5, <3>1, <3>3, <3>4 DEF DeleteVirtualService, UserStep
  <2>6. ASSUME NEW w \in Workers, addFinalizer(w) \/ setConditionAndUpdate(w) \/ removeFinalizer(w)
        PROVE  GenKept
    <3>1. wk[w].pc # "idle" /\ UNCHANGED boundVars
      BY <2>6 DEF addFinalizer, setConditionAndUpdate, removeFinalizer, At, workerUnchanged
    <3>2. \E v \in Owners : v = wk[w].key
      BY <3>1, WorkerAt
    <3> PICK v \in Owners : v = wk[w].key
      BY <3>2
    <3> DEFINE Kept == /\ \A u \in Owners : u # v => api'[u] = api[u]
                       /\ \/ api' = api \/ api'[v] = Absent
                          \/ api[v] \in VirtualServices /\ api'[v] = [api[v] EXCEPT !.fin = TRUE]
                          \/ /\ api[v] \in VirtualServices
                             /\ api'[v] = [api[v] EXCEPT !.ports = wk[w].obj.ports, !.cond = wk[w].cond,
                                                         !.obs = wk[w].obj.gen]
    <3>3. addFinalizer(w) => Kept
      BY FinalizerIs
    <3>4. setConditionAndUpdate(w) => Kept
      BY StatusIs, ZenonT(60)
    <3>5. removeFinalizer(w) => Kept
      BY UnfinalizeIs
    <3>6. Kept
      BY <2>6, <3>3, <3>4, <3>5
    <3>7. api' = api \/ api'[v] = Absent \/ (api[v] # Absent /\ api'[v].gen = api[v].gen)
      BY <3>6, AbsentAssumption DEF VirtualServices
    <3> QED BY <1>1, <3>1, <3>6, <3>7 DEF boundVars
  <2>7. CASE Users
    <3>1. ASSUME NEW v \in Owners, ReplaceService(v) \/ CreateEndpointSlice(v) PROVE GenKept
      BY <2>2, <3>1 DEF ReplaceService, CreateEndpointSlice
    <3>2. ASSUME NEW p \in Pods, PodStep(p) PROVE GenKept
      BY <2>1, <3>2 DEF PodStep, objVars
    <3> QED BY <2>3, <2>4, <2>5, <2>7, <3>1, <3>2 DEF Users
  <2>8. CASE Deliver
    <3>1. UNCHANGED <<api, userOps>>
      BY <2>8 DEF Deliver, enqueueVirtualService, ServiceInformer, CollectService, handlePodEvent,
                  handleTombstone, enqueueVirtualServicesForPod, objVars, boundVars
    <3> QED BY <2>1, <3>1
  <2>9. ASSUME NEW w \in Workers, Work(w) PROVE GenKept
    <3>1. \/ addFinalizer(w) \/ setConditionAndUpdate(w) \/ removeFinalizer(w) \/ UNCHANGED <<api, userOps>>
      BY <2>9 DEF Work, processNextWorkItem, reconcile, validateAndCheckPorts, allocatePort,
                  ensureGeneratedService, ensureEndpointSlice, configureHAProxy, removeHAProxy,
                  releaseAndDeleteObjects, workerUnchanged, objVars, boundVars
    <3> QED BY <2>1, <2>6, <3>1
  <2>10. CASE Restart
    BY <2>1, <2>10 DEF Restart
  <2>11. CASE UNCHANGED vars
    BY <2>1, <2>11 DEF vars, objVars, boundVars
  <2> QED BY <2>7, <2>8, <2>9, <2>10, <2>11 DEF Next
<1>5. ListerKept
  <2>1. ASSUME NEW v \in Owners, enqueueVirtualService(v) PROVE ListerKept
    BY <2>1 DEF enqueueVirtualService, TypeIInv, ObjectsOK
  <2>2. CASE Users \/ UNCHANGED vars \/ Restart
    <3>1. lister' = lister \/ lister' = api
      BY <2>2 DEF Users, vars, Restart, ReplaceService, CreateEndpointSlice, PodStep, CreateVirtualService,
                  EditVirtualService, DeleteVirtualService, userUnchanged, objVars
    <3> QED BY <3>1
  <2>3. CASE Deliver
    <3>1. lister' = lister \/ \E v \in Owners : enqueueVirtualService(v)
      BY <2>3 DEF Deliver, ServiceInformer, CollectService, handlePodEvent,
                  handleTombstone, enqueueVirtualServicesForPod, userUnchanged, objVars
    <3> QED BY <2>1, <3>1
  <2>4. ASSUME NEW w \in Workers, Work(w) PROVE ListerKept
    <3>1. lister' = lister
      BY <2>4 DEF Work, processNextWorkItem, reconcile, addFinalizer, validateAndCheckPorts, allocatePort,
                  ensureGeneratedService, ensureEndpointSlice, configureHAProxy, setConditionAndUpdate,
                  removeHAProxy, releaseAndDeleteObjects, removeFinalizer, objVars
    <3> QED BY <3>1
  <2> QED BY <2>2, <2>3, <2>4 DEF Next
<1>6. ASSUME NEW v \in Owners PROVE /\ api'[v] # Absent => api'[v].gen <= userOps'
                                    /\ lister'[v] # Absent => lister'[v].gen <= userOps'
  <2>1. api[v] # Absent => api[v].gen \in Nat /\ api[v].gen <= userOps'
    BY <1>1, <1>2, <1>3, <1>4 DEF StampsKnown
  <2>2. lister[v] # Absent => lister[v].gen \in Nat /\ lister[v].gen <= userOps'
    BY <1>1, <1>2, <1>3, <1>4 DEF StampsKnown
  <2>3. userOps' <= userOps'
    BY <1>1
  <2>4. /\ api'[v] = api[v] \/ api'[v] = Absent \/ api'[v].gen = userOps'
           \/ (api[v] # Absent /\ api'[v].gen = api[v].gen)
        /\ lister'[v] = lister[v] \/ lister'[v] = api[v]
    BY <1>4, <1>5
  <2> QED BY <2>1, <2>2, <2>3, <2>4
<1> QED BY <1>6 DEF StampsKnown

\* Without relabelling, a pod's next version follows the one before.
LEMMA PodStepFollows ==
    ASSUME "relabel" \notin PodOps, TypeIInv, NEW p \in Pods, PodStep(p)
    PROVE  /\ Follows(podApi[p], podApi'[p]) /\ podApi'[p] \in PodObjects \cup {Absent}
           /\ podEvents' = [podEvents EXCEPT ![p] = Append(@, podApi'[p])]
           /\ UNCHANGED <<haproxyVars, objVars, podSeen, podCache, notifying, vsCache, dirty, wk>>
<1>1. /\ podEvents' = [podEvents EXCEPT ![p] = Append(@, podApi'[p])]
      /\ UNCHANGED <<haproxyVars, objVars, podSeen, podCache, notifying, vsCache, dirty, wk>>
  BY DEF PodStep
<1>2. podApi \in [Pods -> PodObjects \cup {Absent}]
  BY DEF TypeIInv, PodsOK
<1>3. CASE podApi[p] = Absent /\ \E l \in Labels : podApi' = [podApi EXCEPT ![p] = [label |-> l, deleting |-> FALSE]]
  <2>1. PICK l \in Labels : podApi' = [podApi EXCEPT ![p] = [label |-> l, deleting |-> FALSE]]
    BY <1>3
  <2>2. podApi'[p] = [label |-> l, deleting |-> FALSE] /\ podApi'[p] \in PodObjects
    BY <1>2, <2>1 DEF PodObjects
  <2> QED BY <1>1, <1>3, <2>2, AbsentAssumption DEF Follows
<1>4. CASE podApi[p] # Absent /\ podApi' = [podApi EXCEPT ![p] = IF @.deleting THEN Absent ELSE [@ EXCEPT !.deleting = TRUE]]
  <2>1. podApi[p] \in PodObjects
    BY <1>2, <1>4
  <2>2. podApi'[p] = IF podApi[p].deleting THEN Absent ELSE [podApi[p] EXCEPT !.deleting = TRUE]
    BY <1>2, <1>4
  <2>3. CASE podApi[p].deleting
    BY <1>1, <1>4, <2>2, <2>3 DEF Follows
  <2>4. CASE ~podApi[p].deleting
    <3>1. podApi'[p] \in PodObjects /\ podApi'[p].label = podApi[p].label
      BY <2>1, <2>2, <2>4 DEF PodObjects
    <3> QED BY <1>1, <1>4, <3>1, AbsentAssumption DEF Follows
  <2> QED BY <2>3, <2>4
<1> QED BY <1>3, <1>4 DEF PodStep

\* An event leaves the matching pods of a VirtualService alone unless its labels match, and
\* then the handler still has to enqueue it.
LEMMA HandlePodIs ==
    ASSUME TypeIInv, NEW p \in Pods, PodKnown(p), handlePodEvent(p)
    PROVE  /\ PodKnown(p)'
           /\ \A q \in Pods : q # p => /\ podCache'[q] = podCache[q] /\ podSeen'[q] = podSeen[q]
                                       /\ podEvents'[q] = podEvents[q]
           /\ notifying = Absent
           /\ \A v \in Owners : notifying' \in Selected[v] \/ getMatchingPods(v)' = getMatchingPods(v)
<1> USE GatewayAssumption, AbsentAssumption
<1> DEFINE new == Head(podEvents[p])
           pod == IF new = Absent THEN podSeen[p] ELSE new
<1>1. /\ notifying = Absent /\ podEvents[p] # <<>>
      /\ podSeen' = [podSeen EXCEPT ![p] = new]
      /\ podEvents' = [podEvents EXCEPT ![p] = Tail(@)]
      /\ podCache' = [podCache EXCEPT ![p] = IF pod.deleting THEN Absent ELSE pod.label]
      /\ notifying' = pod.label
  BY DEF handlePodEvent
<1>2. /\ podEvents[p] \in Seq(PodObjects \cup {Absent}) /\ podSeen[p] \in PodObjects \cup {Absent}
      /\ podCache \in [Pods -> Labels \cup {Absent}] /\ podSeen \in [Pods -> PodObjects \cup {Absent}]
      /\ podEvents \in [Pods -> Seq(PodObjects \cup {Absent})]
  BY DEF TypeIInv, PodsOK
<1>3. /\ new = podEvents[p][1] /\ new \in PodObjects \cup {Absent} /\ Len(podEvents[p]) \in Nat \ {0}
      /\ Tail(podEvents[p]) \in Seq(PodObjects \cup {Absent})
      /\ Len(Tail(podEvents[p])) = Len(podEvents[p]) - 1
      /\ \A i \in 1 .. Len(podEvents[p]) - 1 : Tail(podEvents[p])[i] = podEvents[p][i + 1]
  BY <1>1, <1>2
<1>4. /\ podSeen'[p] = new /\ podEvents'[p] = Tail(podEvents[p])
      /\ podCache'[p] = IF pod.deleting THEN Absent ELSE pod.label
      /\ \A q \in Pods : q # p => /\ podCache'[q] = podCache[q] /\ podSeen'[q] = podSeen[q]
                                  /\ podEvents'[q] = podEvents[q]
  BY <1>1, <1>2
<1>5. Follows(podSeen[p], new)
  BY <1>1, <1>3 DEF PodKnown
<1>6. podSeen[p] # Absent => pod.label = podSeen[p].label
  BY <1>5 DEF Follows
<1>7. pod \in PodObjects /\ (new = Absent => pod.deleting)
  BY <1>2, <1>3, <1>5 DEF Follows
<1> HIDE DEF pod, new
<1>8. podCache'[p] = IF podSeen'[p] = Absent \/ podSeen'[p].deleting THEN Absent ELSE podSeen'[p].label
  <2>1. CASE new = Absent
    BY <1>4, <1>7, <2>1
  <2>2. CASE new # Absent
    BY <1>4, <2>2 DEF pod
  <2> QED BY <2>1, <2>2
<1>9. /\ podEvents'[p] # <<>> => Follows(podSeen'[p], podEvents'[p][1])
      /\ \A i \in 1 .. Len(podEvents'[p]) - 1 : Follows(podEvents'[p][i], podEvents'[p][i + 1])
  <2>1. \A i \in 1 .. Len(podEvents[p]) - 1 : Follows(podEvents[p][i], podEvents[p][i + 1])
    BY DEF PodKnown
  <2>2. ASSUME Tail(podEvents[p]) # <<>> PROVE Len(Tail(podEvents[p])) \in Nat \ {0}
    <3>1. \A t \in Seq(PodObjects \cup {Absent}) : t # <<>> => Len(t) \in Nat \ {0}
      OBVIOUS
    <3> QED BY <1>3, <2>2, <3>1
  <2>3. ASSUME Tail(podEvents[p]) # <<>> PROVE Follows(new, Tail(podEvents[p])[1])
    <3>1. 1 \in 1 .. Len(podEvents[p]) - 1
      BY <1>3, <2>2, <2>3
    <3> QED BY <1>3, <2>1, <3>1
  <2>4. ASSUME NEW i \in 1 .. Len(Tail(podEvents[p])) - 1
        PROVE  Follows(Tail(podEvents[p])[i], Tail(podEvents[p])[i + 1])
    <3>1. i \in 1 .. Len(podEvents[p]) - 1 /\ i + 1 \in 1 .. Len(podEvents[p]) - 1
      BY <1>3
    <3>2. Tail(podEvents[p])[i] = podEvents[p][i + 1] /\ Tail(podEvents[p])[i + 1] = podEvents[p][(i + 1) + 1]
      BY <1>3, <3>1
    <3> QED BY <2>1, <3>1, <3>2
  <2> QED BY <1>4, <2>3, <2>4
<1>10. ASSUME NEW v \in Owners, notifying' \notin Selected[v] PROVE getMatchingPods(v)' = getMatchingPods(v)
  <2>1. Absent \notin Selected[v]
    OBVIOUS
  <2>2. podCache[p] \notin Selected[v]
    BY <1>1, <1>6, <1>10, <2>1 DEF PodKnown
  <2>3. podCache'[p] \notin Selected[v]
    BY <1>1, <1>4, <1>10, <2>1
  <2> QED BY <1>4, <2>2, <2>3 DEF getMatchingPods
<1> QED BY <1>1, <1>4, <1>8, <1>9, <1>10 DEF PodKnown

LEMMA NextPods ==
    ASSUME "relabel" \notin PodOps, "relist" \notin PodOps,
           TypeIInv, \A p \in Pods : PodKnown(p), [Next]_vars
    PROVE  \A p \in Pods : PodKnown(p)'
<1> DEFINE Known == \A p \in Pods : PodKnown(p)'
<1>1. CASE UNCHANGED podVars
  BY <1>1 DEF podVars, PodKnown
<1>2. ASSUME NEW p \in Pods, PodStep(p) PROVE Known
  <2>1. /\ Follows(podApi[p], podApi'[p]) /\ podApi'[p] \in PodObjects \cup {Absent}
        /\ podEvents' = [podEvents EXCEPT ![p] = Append(@, podApi'[p])]
        /\ UNCHANGED <<podSeen, podCache>>
    BY <1>2, PodStepFollows
  <2>2. /\ podEvents \in [Pods -> Seq(PodObjects \cup {Absent})]
        /\ History(podApi[p], podSeen[p], podEvents[p])
    BY DEF TypeIInv, PodsOK
  <2>3. /\ podEvents'[p] = Append(podEvents[p], podApi'[p])
        /\ \A q \in Pods : q # p => podEvents'[q] = podEvents[q]
    BY <2>1, <2>2
  <2>4. PICK n \in Nat : n = Len(podEvents[p])
    BY <2>2
  <2>5. /\ Len(podEvents'[p]) = n + 1 /\ podEvents'[p][n + 1] = podApi'[p]
        /\ \A i \in 1 .. n : podEvents'[p][i] = podEvents[p][i]
    BY <2>1, <2>2, <2>3, <2>4
  <2>6. podApi[p] = IF n = 0 THEN podSeen[p] ELSE podEvents[p][n]
    BY <2>2, <2>4 DEF History
  <2>7. n # 0 => podEvents[p] # <<>>
    BY <2>4
  <2>8. Follows(podSeen'[p], podEvents'[p][1])
    <3>1. CASE n = 0
      BY <2>1, <2>5, <2>6, <3>1
    <3>2. CASE n # 0
      BY <2>1, <2>4, <2>5, <2>7, <3>2 DEF PodKnown
    <3> QED BY <3>1, <3>2
  <2>9. ASSUME NEW i \in 1 .. Len(podEvents'[p]) - 1 PROVE Follows(podEvents'[p][i], podEvents'[p][i + 1])
    <3>1. i \in 1 .. n /\ n # 0
      BY <2>4, <2>5
    <3>2. CASE i = n
      BY <2>1, <2>5, <2>6, <3>1, <3>2
    <3>3. CASE i # n
      <4>1. i \in 1 .. Len(podEvents[p]) - 1 /\ i + 1 \in 1 .. n
        BY <2>4, <3>1, <3>3
      <4> QED BY <2>5, <3>1, <4>1 DEF PodKnown
    <3> QED BY <3>2, <3>3
  <2>10. PodKnown(p)'
    BY <2>1, <2>8, <2>9 DEF PodKnown
  <2>11. \A q \in Pods : q # p => PodKnown(q)'
    BY <2>1, <2>3 DEF PodKnown
  <2> QED BY <2>10, <2>11
<1>3. ASSUME NEW p \in Pods, handlePodEvent(p) PROVE Known
  <2>1. PodKnown(p)' /\ \A q \in Pods : q # p => /\ podCache'[q] = podCache[q] /\ podSeen'[q] = podSeen[q]
                                                 /\ podEvents'[q] = podEvents[q]
    BY <1>3, HandlePodIs
  <2>2. \A q \in Pods : q # p => PodKnown(q)'
    BY <2>1 DEF PodKnown
  <2> QED BY <2>1, <2>2
<1>4. CASE enqueueVirtualServicesForPod
  BY <1>4 DEF enqueueVirtualServicesForPod, PodKnown
<1>5. CASE Restart
  <2>1. /\ podSeen' = [p \in Pods |-> Absent] /\ podCache' = podSeen'
        /\ podEvents' = [p \in Pods |-> IF podApi[p] = Absent THEN <<>> ELSE <<podApi[p]>>]
    BY <1>5 DEF Restart
  <2>2. ASSUME NEW p \in Pods PROVE PodKnown(p)'
    <3>1. podSeen'[p] = Absent /\ podCache'[p] = Absent
      BY <2>1
    <3>2. podEvents'[p] = IF podApi[p] = Absent THEN <<>> ELSE <<podApi[p]>>
      BY <2>1
    <3>3. Len(podEvents'[p]) \in {0, 1} /\ (podEvents'[p] # <<>> => podEvents'[p][1] # Absent)
      BY <3>2
    <3> QED BY <3>1, <3>3 DEF PodKnown, Follows
  <2> QED BY <2>2
<1>6. CASE Users
  <2>1. (\E p \in Pods : PodStep(p)) \/ UNCHANGED podVars
    BY <1>6 DEF Users, CreateVirtualService, EditVirtualService, DeleteVirtualService, ReplaceService,
                CreateEndpointSlice, userUnchanged
  <2> QED BY <1>1, <1>2, <2>1
<1>7. CASE Deliver
  <2>1. \/ \E p \in Pods : handlePodEvent(p) \/ handleTombstone(p)
        \/ enqueueVirtualServicesForPod \/ UNCHANGED podVars
    BY <1>7 DEF Deliver, enqueueVirtualService, ServiceInformer, CollectService, userUnchanged
  <2>2. \A p \in Pods : ~handleTombstone(p)
    BY DEF handleTombstone
  <2> QED BY <1>1, <1>3, <1>4, <2>1, <2>2
<1>8. ASSUME NEW w \in Workers, Work(w) PROVE Known
  <2>1. UNCHANGED podVars
    BY <1>8 DEF Work, processNextWorkItem, reconcile, addFinalizer, validateAndCheckPorts, allocatePort,
                ensureGeneratedService, ensureEndpointSlice, configureHAProxy, setConditionAndUpdate,
                removeHAProxy, releaseAndDeleteObjects, removeFinalizer, workerUnchanged
  <2> QED BY <1>1, <2>1
<1>9. UNCHANGED vars => UNCHANGED podVars
  BY DEF vars
<1> QED BY <1>1, <1>5, <1>6, <1>7, <1>8, <1>9 DEF Next

\* What the servers should be is still so, or still to be seen to, after any step but the
\* start of the key's own reconcile and a restart.
LEMMA ExpectsKept ==
    ASSUME "relabel" \notin PodOps, "relist" \notin PodOps, TypeIInv, \A p \in Pods : PodKnown(p),
           Users \/ Deliver, NEW v \in vsCache, NEW ss, Expects(v, ss)
    PROVE  Expects(v, ss)'
<1>0. v \in Owners /\ Absent \notin Selected[v]
  BY GatewayAssumption DEF TypeIInv, QueueOK
<1>1. CASE UNCHANGED <<podCache, notifying>> /\ dirty \subseteq dirty'
  BY <1>1 DEF Expects, getMatchingPods
<1>2. CASE \E p \in Pods : handlePodEvent(p)
  <2>1. /\ notifying = Absent /\ dirty' = dirty
        /\ notifying' \in Selected[v] \/ getMatchingPods(v)' = getMatchingPods(v)
    BY <1>0, <1>2, HandlePodIs DEF handlePodEvent
  <2> QED BY <1>0, <2>1 DEF Expects
<1>3. CASE enqueueVirtualServicesForPod
  BY <1>3 DEF enqueueVirtualServicesForPod, Expects, getMatchingPods
<1>4. CASE Users
  BY <1>1, <1>4 DEF Users, CreateVirtualService, EditVirtualService, DeleteVirtualService, ReplaceService,
                    CreateEndpointSlice, PodStep, userUnchanged, podVars
<1>5. CASE Deliver
  <2>1. \A p \in Pods : ~handleTombstone(p)
    BY DEF handleTombstone
  <2>2. CASE \E u \in Owners : enqueueVirtualService(u) \/ ServiceInformer(u) \/ CollectService(u)
    BY <1>1, <2>2 DEF enqueueVirtualService, ServiceInformer, CollectService, userUnchanged, podVars
  <2> QED BY <1>2, <1>3, <1>5, <2>1, <2>2 DEF Deliver
<1> QED BY <1>4, <1>5

\* Steps that no worker takes.
LEMMA BackendsKept ==
    ASSUME CopyIInv, BackendIInv, UNCHANGED <<wk, proxy, vsCache>>, dirty \subseteq dirty',
           \A v \in vsCache : \A ss : Expects(v, ss) => Expects(v, ss)',
           \A v \in Owners : \/ api'[v] = api[v] /\ (lister'[v] = lister[v] \/ v \in dirty')
                             \/ lister'[v] # api'[v] \/ ~ReadyNow(v)'
    PROVE  (\A v \in Owners : KeyServes(v)') /\ (\A w \in Workers : WorkerServes(w)')
<1>1. ASSUME NEW v \in vsCache, NEW spec, Serving(v, spec) PROVE Serving(v, spec)'
  BY <1>1 DEF Serving
<1>2. ASSUME NEW v \in Owners PROVE KeyServes(v)'
  <2>1. CASE lister'[v] # api'[v] \/ ~ReadyNow(v)' \/ v \in dirty'
    BY <2>1 DEF KeyServes, Pending
  <2>2. CASE api'[v] = api[v] /\ lister'[v] = lister[v] /\ v \notin dirty'
    <3>1. KeyServes(v) /\ (ReadyNow(v)' <=> ReadyNow(v)) /\ (Pending(v) => Pending(v)')
      BY <2>2 DEF BackendIInv, ReadyNow, Live, Pending
    <3> QED BY <1>1, <2>2, <3>1 DEF KeyServes
  <2> QED BY <2>1, <2>2
<1>3. ASSUME NEW w \in Workers PROVE WorkerServes(w)'
  <2>1. WorkerServes(w)
    BY DEF BackendIInv
  <2>2. wk[w].pc \in {"slice", "proxy", "status"} => wk[w].key \in vsCache
    BY DEF CopyIInv, WorkerCopies, Working
  <2> QED BY <1>1, <2>1, <2>2 DEF WorkerServes
<1> QED BY <1>2, <1>3

\* A worker's step: it is enough to look at its own record, and at its key once it is done.
LEMMA BackendsOfKey ==
    ASSUME CopyIInv, BackendIInv, NEW w \in Workers, NEW v \in Owners,
           \A x \in Workers : x # w => wk'[x] = wk[x] /\ (wk[x] # Idle => wk[x].key # v),
           wk[w] = Idle \/ wk[w].key = v, wk'[w] = Idle \/ wk'[w].key = v,
           \A u \in Owners : u # v => /\ api'[u] = api[u] /\ proxy'[u] = proxy[u]
                                      /\ u \in vsCache' <=> u \in vsCache
                                      /\ u \in dirty => u \in dirty',
           UNCHANGED <<lister, podVars>>,
           WorkerServes(w)', wk'[w] = Idle => KeyServes(v)'
    PROVE  (\A u \in Owners : KeyServes(u)') /\ (\A x \in Workers : WorkerServes(x)')
<1>1. ASSUME NEW u \in Owners, u # v, NEW ss, Expects(u, ss) PROVE Expects(u, ss)'
  BY <1>1 DEF Expects, getMatchingPods, podVars
<1>2. ASSUME NEW u \in Owners, u # v, NEW spec, Serving(u, spec) PROVE Serving(u, spec)'
  BY <1>1, <1>2 DEF Serving
<1>3. ASSUME NEW u \in Owners, u # v PROVE KeyServes(u)'
  <2>1. KeyServes(u) /\ (ReadyNow(u)' <=> ReadyNow(u))
    BY <1>3 DEF BackendIInv, ReadyNow, Live
  <2>2. Pending(u) => Pending(u)'
    <3>1. \A x \in Workers : wk[x] # Idle /\ wk[x].key = u => x # w /\ wk'[x] = wk[x]
      BY <1>3
    <3> QED BY <1>3, <3>1 DEF Pending
  <2>3. api'[u] = api[u] /\ (u \in vsCache => u \in vsCache')
    BY <1>3
  <2> QED BY <1>2, <1>3, <2>1, <2>2, <2>3 DEF KeyServes
<1>4. KeyServes(v)'
  BY DEF KeyServes, Pending
<1>5. ASSUME NEW x \in Workers, x # w PROVE WorkerServes(x)'
  <2>1. WorkerServes(x) /\ wk'[x] = wk[x]
    BY <1>5 DEF BackendIInv
  <2>2. wk[x].pc \in {"slice", "proxy", "status"} => wk[x].key \in Owners /\ wk[x].key # v
    <3>1. wk[x].pc \in {"slice", "proxy", "status"} => wk[x].pc # "idle"
      OBVIOUS
    <3> QED BY <1>5, <3>1, WorkerAt DEF CopyIInv
  <2> QED BY <1>1, <1>2, <2>1, <2>2 DEF WorkerServes
<1> QED BY <1>3, <1>4, <1>5

\* A user's change of a VirtualService is a change the informer has not taken in, or makes
\* it no longer Ready.
LEMMA UserBackends ==
    ASSUME TypeIInv, StampsKnown, Users, NEW v \in Owners
    PROVE  api'[v] = api[v] \/ lister'[v] # api'[v] \/ ~ReadyNow(v)'
<1>1. lister' = lister
  BY DEF Users, CreateVirtualService, EditVirtualService, DeleteVirtualService, ReplaceService,
         CreateEndpointSlice, PodStep, userUnchanged, objVars
<1>2. userOps \in Nat /\ \A c \in VirtualServices : c.gen \in Nat
  BY DEF TypeIInv, BoundsOK, VirtualServices
<1>3. lister[v] \in VirtualServices \cup {Absent} /\ api \in [Owners -> VirtualServices \cup {Absent}]
  BY DEF TypeIInv, ObjectsOK
<1>4. ASSUME NEW u \in Owners, CreateVirtualService(u)
      PROVE  api'[v] = api[v] \/ ~ReadyNow(v)'
  <2>1. PICK spec \in Specs : api' = [api EXCEPT ![u] = NewVirtualService(spec, userOps')]
    BY <1>4 DEF CreateVirtualService
  <2>2. api'[u] = NewVirtualService(spec, userOps') /\ (u # v => api'[v] = api[v])
    BY <2>1, ApiSet
  <2>3. api'[u].cond = "None"
    BY <2>2 DEF NewVirtualService
  <2> QED BY <2>2, <2>3 DEF ReadyNow
<1>5. ASSUME NEW u \in Owners, EditVirtualService(u)
      PROVE  api'[v] = api[v] \/ lister[v] # api'[v]
  <2>1. PICK spec \in Specs : api' = [api EXCEPT ![u] = [api[u] EXCEPT !.spec = spec, !.gen = userOps']]
    BY <1>5 DEF EditVirtualService
  <2>2. api'[u] = [api[u] EXCEPT !.spec = spec, !.gen = userOps'] /\ (u # v => api'[v] = api[v])
    BY <2>1, ApiSet
  <2>3. api[u] \in VirtualServices /\ userOps' = userOps + 1
    BY <1>3, <1>5 DEF EditVirtualService, UserStep
  <2>4. api'[u].gen = userOps + 1
    BY <2>2, <2>3 DEF VirtualServices
  <2>5. api'[u] # Absent
    <3>1. userOps' \in 1 .. MaxUserOps
      BY <1>2, <1>5, GatewayAssumption DEF EditVirtualService, UserStep
    <3>2. api'[u] \in VirtualServices
      BY <2>2, <2>3, <3>1 DEF VirtualServices
    <3> QED BY <3>2, AbsentAssumption
  <2>6. lister[v] # Absent => lister[v].gen \in Nat /\ lister[v].gen <= userOps
    BY <1>2, <1>3 DEF StampsKnown
  <2>7. u = v => lister[v] # api'[v]
    BY <1>2, <2>4, <2>5, <2>6
  <2>8. u # v => api'[v] = api[v]
    BY <2>2
  <2> QED BY <2>7, <2>8
<1>6. ASSUME NEW u \in Owners, DeleteVirtualService(u)
      PROVE  api'[v] = api[v] \/ ~ReadyNow(v)'
  <2>1. api[u] \in VirtualServices
    BY <1>3, <1>6 DEF DeleteVirtualService
  <2>2. \/ api' = [api EXCEPT ![u] = Absent]
        \/ api' = [api EXCEPT ![u] = [api[u] EXCEPT !.deleting = TRUE]]
    BY <1>6 DEF DeleteVirtualService
  <2>3. /\ api'[u] = Absent \/ api'[u] = [api[u] EXCEPT !.deleting = TRUE]
        /\ u # v => api'[v] = api[v]
    BY <2>2, ApiSet
  <2>4. api'[u] = Absent \/ api'[u].deleting
    BY <2>1, <2>3 DEF VirtualServices
  <2>5. u # v => api'[v] = api[v]
    BY <2>3
  <2> QED BY <2>4, <2>5 DEF ReadyNow, Live
<1>7. (\A u \in Owners : ~CreateVirtualService(u) /\ ~EditVirtualService(u) /\ ~DeleteVirtualService(u))
        => api' = api
  BY DEF Users, ReplaceService, CreateEndpointSlice, PodStep, objVars
<1> QED BY <1>1, <1>4, <1>5, <1>6, <1>7

\* A worker past the read.
LEMMA WorkBackends ==
    ASSUME ProxyFaults = FALSE, CopyIInv, BackendIInv, NEW w \in Workers, Work(w),
           ~processNextWorkItem(w), ~reconcile(w)
    PROVE  (\A u \in Owners : KeyServes(u)') /\ (\A x \in Workers : WorkerServes(x)')
<1>1. TypeIInv /\ wk[w].pc \notin {"idle", "read"}
  BY DEF CopyIInv, Work, addFinalizer, validateAndCheckPorts, allocatePort, ensureGeneratedService,
         ensureEndpointSlice, configureHAProxy, setConditionAndUpdate, removeHAProxy,
         releaseAndDeleteObjects, removeFinalizer, At
<1>2. Working(w) /\ wk[w].key \in Owners /\ wk[w].obj \in VirtualServices /\ wk[w] # Idle
  BY <1>1, WorkerAt
<1> PICK v \in Owners : v = wk[w].key
  BY <1>2
<1>3. WorkerCopies(w) /\ WorkerServes(w)
  BY <1>2 DEF CopyIInv, BackendIInv
<1>4. \A x \in Workers : x # w => (wk[x] # Idle => wk[x].key # v)
  BY <1>2 DEF CopyIInv, OneWorkerPerKey
<1> DEFINE Others == /\ \A x \in Workers : x # w => wk'[x] = wk[x]
                     /\ \A u \in Owners : u # v => /\ api'[u] = api[u] /\ proxy'[u] = proxy[u]
                                                   /\ u \in vsCache' <=> u \in vsCache
                                                   /\ u \in dirty => u \in dirty'
                     /\ UNCHANGED <<lister, podVars>>
           Done == (\A u \in Owners : KeyServes(u)') /\ (\A x \in Workers : WorkerServes(x)')
<1>5. ASSUME Others, wk'[w] # Idle, wk'[w].key = v, WorkerServes(w)' PROVE Done
  BY <1>4, <1>5, BackendsOfKey
<1>6. ASSUME Others, wk'[w] = Idle, KeyServes(v)' PROVE Done
  <2>1. WorkerServes(w)'
    BY <1>6 DEF WorkerServes, Idle
  <2> QED BY <1>4, <1>6, <2>1, BackendsOfKey
<1>7. Idle.pc = "idle"
  BY DEF Idle
<1> HIDE DEF Others
<1>8. CASE addFinalizer(w)
  <2>1. Others
    BY <1>1, <1>8, FinalizerIs DEF Others, haproxyVars
  <2>2. (wk'[w] = Idle /\ v \in dirty') \/ (wk'[w].pc = "ports" /\ wk'[w].key = v)
    BY <1>1, <1>8, FinalizerIs
  <2>3. CASE wk'[w] = Idle /\ v \in dirty'
    BY <1>6, <2>1, <2>3 DEF KeyServes, Pending
  <2>4. CASE wk'[w].pc = "ports" /\ wk'[w].key = v
    BY <1>5, <1>7, <2>1, <2>4 DEF WorkerServes
  <2> QED BY <2>2, <2>3, <2>4
<1>9. CASE validateAndCheckPorts(w) \/ allocatePort(w)
  <2>1. Others
    BY <1>1, <1>9, AllocationIs DEF Others, haproxyVars, objVars
  <2>2. /\ wk'[w].key = v /\ wk'[w].pc \in {"service", "allocate", "status"}
        /\ wk'[w].pc = "status" => wk'[w].cond # "Ready"
    BY <1>1, <1>9, AllocationIs
  <2> QED BY <1>5, <1>7, <2>1, <2>2 DEF WorkerServes
<1>10. CASE ensureGeneratedService(w)
  <2>1. Others /\ UNCHANGED <<podVars, dirty>>
    BY <1>1, <1>10, ServiceIs DEF Others, haproxyVars
  <2>2. /\ wk'[w].key = v
        /\ \/ wk'[w].pc = "slice" /\ wk'[w].pods = getMatchingPods(v)
           \/ wk'[w].pc = "status" /\ wk'[w].cond # "Ready"
    BY <1>1, <1>10, ServiceIs
  <2>3. getMatchingPods(v)' = getMatchingPods(v)
    BY <2>1 DEF getMatchingPods, podVars
  <2>4. WorkerServes(w)'
    BY <2>2, <2>3 DEF WorkerServes, Expects
  <2> QED BY <1>5, <1>7, <2>1, <2>2, <2>4
<1>11. CASE ensureEndpointSlice(w)
  <2>1. Others /\ UNCHANGED <<podVars, dirty>> /\ wk[w].pc = "slice"
    BY <1>1, <1>11, SliceIs DEF Others, haproxyVars
  <2>2. /\ wk'[w].key = v
        /\ \/ wk'[w].pc = "proxy" /\ wk'[w].pods = wk[w].pods
           \/ wk'[w].pc = "status" /\ wk'[w].cond # "Ready"
    BY <1>1, <1>11, SliceIs
  <2>3. PICK ss : ss = wk[w].pods
    OBVIOUS
  <2>4. Expects(v, ss)'
    <3>1. Expects(v, ss)
      BY <1>3, <2>1, <2>3 DEF WorkerServes
    <3> QED BY <2>1, <3>1 DEF Expects, getMatchingPods, podVars
  <2>5. WorkerServes(w)'
    BY <2>2, <2>3, <2>4 DEF WorkerServes
  <2> QED BY <1>5, <1>7, <2>1, <2>2, <2>5
<1>12. CASE configureHAProxy(w)
  <2>1. Others /\ UNCHANGED <<podVars, dirty>> /\ wk[w].pc = "proxy"
    BY <1>1, <1>12, ConfigureIs, ZenonT(60) DEF Others, objVars
  <2>2. /\ wk'[w].key = v /\ wk'[w].pc = "status" /\ wk'[w].obj = wk[w].obj
    BY <1>1, <1>12, ConfigureIs
  <2>3. PICK ss, spec : ss = wk[w].pods /\ spec = wk[w].obj.spec
    OBVIOUS
  <2>4. \A s \in DOMAIN wk[w].obj.ports : s \in DOMAIN proxy'[v] /\ proxy'[v][s].servers = ss
    <3>1. \A s \in DOMAIN wk[w].obj.ports : /\ s \in DOMAIN proxy'[v] /\ proxy'[v][s].port = wk[w].obj.ports[s]
                                            /\ proxy'[v][s].servers = wk[w].pods
      BY <1>1, <1>12, ConfigureIs
    <3> QED BY <2>3, <3>1
  <2>5. Expects(v, ss)'
    <3>1. Expects(v, ss)
      BY <1>3, <2>1, <2>3 DEF WorkerServes
    <3> QED BY <2>1, <3>1 DEF Expects, getMatchingPods, podVars
  <2>6. DOMAIN wk[w].obj.ports = spec
    BY <1>3, <2>1, <2>3 DEF WorkerCopies
  <2>7. Serving(v, spec)'
    BY <2>4, <2>5, <2>6 DEF Serving
  <2>8. WorkerServes(w)'
    BY <2>2, <2>3, <2>7 DEF WorkerServes
  <2> QED BY <1>5, <1>7, <2>1, <2>2, <2>8
<1>13. CASE setConditionAndUpdate(w)
  <2>1. /\ Others /\ wk'[w] = Idle /\ wk[w].pc = "status" /\ dirty \subseteq dirty'
        /\ UNCHANGED <<proxy, vsCache, podVars>>
    BY <1>1, <1>13, StatusIs, ZenonT(60) DEF Others, haproxyVars
  <2>2. PICK spec : spec = wk[w].obj.spec
    OBVIOUS
  <2>3. ASSUME wk[w].cond = "Ready" PROVE Serving(v, spec)' /\ v \in vsCache'
    <3>1. Serving(v, spec) /\ v \in vsCache
      BY <1>3, <2>1, <2>2, <2>3 DEF WorkerServes, WorkerCopies
    <3>2. ASSUME NEW ss, Expects(v, ss) PROVE Expects(v, ss)'
      BY <2>1, <3>2 DEF Expects, getMatchingPods, podVars
    <3> QED BY <2>1, <3>1, <3>2 DEF Serving
  <2>4. wk[w].obj.spec = wk[w].base.spec /\ wk[w].obj.cond = wk[w].base.cond
    BY <1>3 DEF WorkerCopies
  <2>5. CASE v \in dirty'
    BY <1>6, <2>1, <2>5 DEF KeyServes, Pending
  <2>6. CASE v \notin dirty' /\ wk[w].obj.cond = wk[w].cond /\ api' = api
    <3>1. wk[w].base = lister[v]
      BY <1>3, <2>1, <2>6 DEF WorkerCopies
    <3>2. CASE lister'[v] # api'[v]
      BY <1>6, <2>1, <3>2 DEF KeyServes, Pending
    <3>3. CASE lister'[v] = api'[v]
      <4>1. api'[v] = wk[w].base
        BY <2>1, <3>1, <3>3 DEF Others
      <4>2. ReadyNow(v)' => wk[w].cond = "Ready" /\ api'[v].spec = spec
        BY <2>2, <2>4, <2>6, <4>1 DEF ReadyNow
      <4> QED BY <1>6, <2>1, <2>3, <4>2 DEF KeyServes
    <3> QED BY <3>2, <3>3
  <2>7. CASE v \notin dirty' /\ ~(wk[w].obj.cond = wk[w].cond /\ api' = api)
    <3>1. /\ api[v] = wk[w].base /\ api[v] \in VirtualServices
          /\ api'[v] = [api[v] EXCEPT !.ports = wk[w].obj.ports, !.cond = wk[w].cond,
                                      !.obs = wk[w].obj.gen]
      BY <1>1, <1>13, <2>7, StatusIs
    <3>2. api'[v].cond = wk[w].cond /\ api'[v].spec = spec
      BY <2>2, <2>4, <3>1 DEF VirtualServices
    <3> QED BY <1>6, <2>1, <2>3, <3>2 DEF KeyServes, ReadyNow
  <2> QED BY <2>5, <2>6, <2>7
<1>14. CASE removeFinalizer(w)
  <2>1. Others /\ wk'[w] = Idle
    BY <1>1, <1>14, UnfinalizeIs DEF Others, haproxyVars
  <2>2. v \in dirty' \/ api'[v] = Absent
    BY <1>1, <1>14, UnfinalizeIs
  <2> QED BY <1>6, <2>1, <2>2 DEF KeyServes, Pending, ReadyNow, Live
<1>15. CASE removeHAProxy(w) \/ releaseAndDeleteObjects(w)
  <2>1. Others
    BY <1>1, <1>15, FinalizationIs DEF Others
  <2>2. wk'[w].key = v /\ wk'[w].pc \in {"release", "unfinalize"}
    BY <1>1, <1>15, FinalizationIs
  <2> QED BY <1>5, <1>7, <2>1, <2>2 DEF WorkerServes
<1> QED BY <1>8, <1>9, <1>10, <1>11, <1>12, <1>13, <1>14, <1>15 DEF Work

\* A worker starts: it takes a key, and finds the object gone or reads it.
LEMMA StartBackends ==
    ASSUME CopyIInv, BackendIInv, NEW w \in Workers, processNextWorkItem(w) \/ reconcile(w)
    PROVE  (\A u \in Owners : KeyServes(u)') /\ (\A x \in Workers : WorkerServes(x)')
<1>1. TypeIInv
  BY DEF CopyIInv
<1>2. CASE processNextWorkItem(w)
  <2>1. /\ wk[w] = Idle /\ \A x \in Workers : x # w => wk'[x] = wk[x]
        /\ UNCHANGED <<haproxyVars, objVars, vsCache, podVars>>
    BY <1>1, <1>2, TakeIs
  <2>2. PICK v \in Owners : /\ dirty' = dirty \ {v}
                            /\ wk'[w].pc = "read" /\ wk'[w].key = v /\ wk'[w] # Idle
                            /\ \A x \in Workers : wk[x] # Idle => wk[x].key # v
    BY <1>1, <1>2, TakeIs
  <2>3. WorkerServes(w)'
    BY <2>2 DEF WorkerServes
  <2>4. UNCHANGED <<api, lister, proxy, vsCache, podVars>>
    BY <2>1 DEF haproxyVars, objVars
  <2> QED BY <2>1, <2>2, <2>3, <2>4, BackendsOfKey
<1>3. CASE reconcile(w)
  <2>1. wk[w].pc # "idle"
    BY <1>3 DEF reconcile, At
  <2>2. wk[w] # Idle /\ \E v \in Owners : v = wk[w].key
    BY <1>1, <2>1, WorkerAt
  <2> PICK v \in Owners : v = wk[w].key
    BY <2>2
  <2>3. /\ dirty' = dirty /\ \A x \in Workers : x # w => wk'[x] = wk[x]
        /\ UNCHANGED <<haproxyVars, objVars, podVars>>
    BY <1>1, <1>3, ReconcileIs
  <2>4. UNCHANGED <<api, lister, proxy, podVars>>
    BY <2>3 DEF haproxyVars, objVars
  <2>5. \A u \in Owners : u # v => (u \in vsCache' <=> u \in vsCache)
    BY <1>1, <1>3, ReconcileIs
  <2>6. \/ wk'[w] = Idle /\ (lister[v] = Absent \/ (lister[v] # Absent /\ lister[v].deleting))
        \/ wk'[w].key = v /\ wk'[w].pc \in {"remove", "ports", "finalizer"}
    BY <1>1, <1>3, ReconcileIs
  <2>7. \A x \in Workers : x # w => (wk[x] # Idle => wk[x].key # v)
    BY <2>2 DEF CopyIInv, OneWorkerPerKey
  <2>8. WorkerServes(w)'
    BY <2>6 DEF WorkerServes, Idle
  <2>9. wk'[w] = Idle => KeyServes(v)'
    <3>1. wk'[w] = Idle => lister[v] = Absent \/ lister[v].deleting
      BY <2>6 DEF Idle
    <3> QED BY <2>4, <3>1 DEF KeyServes, Pending, ReadyNow, Live
  <2> QED BY <2>2, <2>3, <2>4, <2>5, <2>6, <2>7, <2>8, <2>9, BackendsOfKey
<1> QED BY <1>2, <1>3

\* Every step keeps the servers right or somebody about to put them right.
LEMMA NextBackends ==
    ASSUME ProxyFaults = FALSE, "relabel" \notin PodOps, "relist" \notin PodOps,
           CopyIInv, StampsKnown, BackendIInv, [Next]_vars
    PROVE  BackendIInv'
<1> DEFINE Served == (\A u \in Owners : KeyServes(u)') /\ (\A x \in Workers : WorkerServes(x)')
<1>1. TypeIInv /\ \A p \in Pods : PodKnown(p)
  BY DEF CopyIInv, BackendIInv
<1>2. \A p \in Pods : PodKnown(p)'
  BY <1>1, NextPods
<1>3. CASE UNCHANGED vars
  <2>1. /\ UNCHANGED <<wk, proxy, vsCache>> /\ dirty \subseteq dirty' /\ UNCHANGED <<api, lister>>
        /\ \A v \in vsCache : \A ss : Expects(v, ss) => Expects(v, ss)'
    BY <1>3 DEF vars, haproxyVars, objVars, podVars, Expects, getMatchingPods
  <2>2. Served
    BY <2>1, BackendsKept
  <2> QED BY <1>2, <2>2 DEF BackendIInv
<1>4. CASE Users \/ Deliver
  <2>1. \A v \in vsCache : \A ss : Expects(v, ss) => Expects(v, ss)'
    BY <1>1, <1>4, ExpectsKept
  <2>2. UNCHANGED <<wk, proxy, vsCache>> /\ dirty \subseteq dirty'
    BY <1>4 DEF Users, CreateVirtualService, EditVirtualService, DeleteVirtualService, ReplaceService,
                CreateEndpointSlice, PodStep, Deliver, enqueueVirtualService, ServiceInformer,
                CollectService, handlePodEvent, handleTombstone, enqueueVirtualServicesForPod,
                userUnchanged, haproxyVars
  <2>3. ASSUME NEW v \in Owners
        PROVE  \/ api'[v] = api[v] /\ (lister'[v] = lister[v] \/ v \in dirty')
               \/ lister'[v] # api'[v] \/ ~ReadyNow(v)'
    <3>1. CASE Users
      <4>1. lister' = lister
        BY <3>1 DEF Users, CreateVirtualService, EditVirtualService, DeleteVirtualService, ReplaceService,
                    CreateEndpointSlice, PodStep, userUnchanged, objVars
      <4> QED BY <1>1, <3>1, <4>1, UserBackends
    <3>2. CASE Deliver
      <4>1. api' = api
        BY <3>2 DEF Deliver, enqueueVirtualService, ServiceInformer, CollectService, handlePodEvent,
                    handleTombstone, enqueueVirtualServicesForPod, objVars
      <4>2. lister' = lister \/ \E u \in Owners : enqueueVirtualService(u)
        BY <3>2 DEF Deliver, ServiceInformer, CollectService, handlePodEvent,
                    handleTombstone, enqueueVirtualServicesForPod, userUnchanged, objVars
      <4>3. ASSUME NEW u \in Owners, enqueueVirtualService(u) PROVE lister'[v] = lister[v] \/ v \in dirty'
        BY <1>1, <4>3 DEF enqueueVirtualService, TypeIInv, ObjectsOK
      <4> QED BY <4>1, <4>2, <4>3
    <3> QED BY <1>4, <3>1, <3>2
  <2>4. Served
    BY <2>1, <2>2, <2>3, BackendsKept
  <2> QED BY <1>2, <2>4 DEF BackendIInv
<1>5. ASSUME NEW w \in Workers, Work(w) PROVE BackendIInv'
  <2>1. Served
    BY <1>5, StartBackends, WorkBackends
  <2> QED BY <1>2, <2>1 DEF BackendIInv
<1>6. CASE Restart
  <2>1. /\ dirty' = {v \in Owners : api[v] # Absent} /\ api' = api
        /\ \A w \in Workers : wk'[w] = Idle
    BY <1>6 DEF Restart
  <2>2. \A v \in Owners : KeyServes(v)'
    BY <2>1 DEF KeyServes, Pending, ReadyNow, Live
  <2>3. \A w \in Workers : WorkerServes(w)'
    BY <2>1 DEF WorkerServes, Idle
  <2> QED BY <1>2, <2>2, <2>3 DEF BackendIInv
<1> QED BY <1>3, <1>4, <1>5, <1>6 DEF Next

LEMMA InitBackends == Init => StampsKnown /\ BackendIInv
<1> SUFFICES ASSUME Init PROVE StampsKnown /\ BackendIInv
  OBVIOUS
<1>1. \A v \in Owners : api[v] = Absent /\ lister[v] = Absent
  BY DEF Init
<1>2. \A p \in Pods : podSeen[p] = Absent /\ podCache[p] = Absent /\ podEvents[p] = <<>>
  BY DEF Init
<1>3. \A w \in Workers : wk[w] = Idle
  BY DEF Init
<1>4. ASSUME NEW p \in Pods PROVE PodKnown(p)
  <2>1. Len(podEvents[p]) = 0
    BY <1>2
  <2> QED BY <1>2, <2>1 DEF PodKnown
<1> QED BY <1>1, <1>3, <1>4 DEF StampsKnown, BackendIInv, KeyServes, ReadyNow, Live, WorkerServes, Idle

LEMMA RestConverges == TypeIInv /\ BackendIInv => BackendsConverge
<1> SUFFICES ASSUME TypeIInv, BackendIInv, Quiescent, NEW v \in Owners, Live(v), api[v].cond = "Ready",
                    NEW s \in api[v].spec
             PROVE  ServersOf(v, s) = Matching(v)
  BY DEF BackendsConverge
<1> USE GatewayAssumption
<1>1. dirty = {} /\ notifying = Absent /\ lister = api /\ \A w \in Workers : wk[w] = Idle
  BY DEF Quiescent
<1>2. Serving(v, api[v].spec)
  BY <1>1 DEF BackendIInv, KeyServes, Pending, ReadyNow
<1>3. s \in DOMAIN proxy[v] /\ proxy[v][s].servers = getMatchingPods(v)
  BY <1>1, <1>2 DEF Serving, Expects
<1>4. ASSUME NEW p \in Pods
      PROVE  podCache[p] \in Selected[v] <=>
                podApi[p] # Absent /\ ~podApi[p].deleting /\ podApi[p].label \in Selected[v]
  <2>1. podEvents[p] = <<>> /\ Len(podEvents[p]) = 0
    BY DEF Quiescent
  <2>2. podApi[p] = podSeen[p]
    BY <2>1 DEF TypeIInv, PodsOK, History
  <2>3. podCache[p] = IF podApi[p] = Absent \/ podApi[p].deleting THEN Absent ELSE podApi[p].label
    BY <2>2 DEF BackendIInv, PodKnown
  <2>4. Absent \notin Selected[v]
    OBVIOUS
  <2> QED BY <2>3, <2>4
<1> QED BY <1>3, <1>4 DEF ServersOf, getMatchingPods, Matching

\* Whatever users edit or delete, whatever Services they put in the way, and however often
\* the controller restarts: at rest the servers behind a Ready VirtualService are the live
\* pods its selector matches (updateVirtualPodCache before enqueueVirtualServicesForPod,
\* reconcile storing the object before getMatchingPods reads the cache), when the calls to
\* HAProxy succeed, pods keep their labels and the watch does not break.
THEOREM BackendsAlwaysConverge ==
    ASSUME ProxyFaults = FALSE, "relabel" \notin PodOps, "relist" \notin PodOps
    PROVE  Spec => []BackendsConverge
<1>1. Init => CopyIInv /\ StampsKnown /\ BackendIInv
  BY InitCopies, InitBackends
<1>2. CopyIInv /\ StampsKnown /\ BackendIInv /\ [Next]_vars => (CopyIInv /\ StampsKnown /\ BackendIInv)'
  <2> SUFFICES ASSUME CopyIInv, StampsKnown, BackendIInv, [Next]_vars
               PROVE  CopyIInv' /\ StampsKnown' /\ BackendIInv'
    OBVIOUS
  <2>1. CopyIInv'
    BY NextCopies
  <2>2. StampsKnown'
    BY <2>1, NextStamps DEF CopyIInv
  <2>3. BackendIInv'
    BY NextBackends
  <2> QED BY <2>1, <2>2, <2>3
<1>3. CopyIInv /\ BackendIInv => BackendsConverge
  BY RestConverges DEF CopyIInv
<1> QED BY <1>1, <1>2, <1>3, PTL DEF Spec

-----------------------------------------------------------------------------
\* What is left of a VirtualService that is gone.

\* A generated EndpointSlice belongs to an object that is there, held by its finalizer.
SliceKnown(v) ==
    slice[v] # Absent /\ slice[v].owner # Foreign =>
        api[v] # Absent /\ api[v].fin /\ slice[v].owner = api[v].uid

\* A finalization that is about to let the object go has deleted its EndpointSlice.
WorkerLeft(w) ==
    wk[w].pc = "unfinalize" /\ slice[wk[w].key] # Absent => slice[wk[w].key].owner # wk[w].obj.uid

LeftIInv == (\A v \in Owners : SliceKnown(v)) /\ (\A w \in Workers : WorkerLeft(w))

\* Users and informers: an object with its finalizer stays, and a Slice they make is theirs.
LEMMA LeftKept ==
    ASSUME RecordIInv, LeftIInv, UNCHANGED wk,
           \A v \in Owners : slice'[v] = slice[v] \/ (slice'[v] # Absent /\ slice'[v].owner = Foreign),
           \A v \in Owners : \/ api'[v] = api[v] \/ api[v] = Absent \/ ~api[v].fin
                             \/ api'[v] # Absent /\ api'[v].fin /\ api'[v].uid = api[v].uid
    PROVE  LeftIInv'
<1>1. \A v \in Owners : SliceKnown(v)'
  BY DEF LeftIInv, SliceKnown
<1>2. ASSUME NEW w \in Workers PROVE WorkerLeft(w)'
  <2>1. CASE wk[w].pc # "unfinalize"
    BY <2>1 DEF WorkerLeft
  <2>2. CASE wk[w].pc = "unfinalize"
    <3>1. wk[w].key \in Owners /\ wk[w].obj \in VirtualServices
      BY <2>2, WorkerAt DEF RecordIInv
    <3>2. wk[w].obj.uid # Foreign
      BY <3>1 DEF VirtualServices, Foreign
    <3> QED BY <3>1, <3>2 DEF LeftIInv, WorkerLeft
  <2> QED BY <2>1, <2>2
<1> QED BY <1>1, <1>2 DEF LeftIInv

\* A worker's step: it is enough to look at its key and its own record.
LEMMA LeftOfKey ==
    ASSUME RecordIInv, LeftIInv, NEW w \in Workers, NEW v \in Owners,
           \A x \in Workers : x # w => wk'[x] = wk[x] /\ (wk[x] # Idle => wk[x].key # v),
           \A u \in Owners : u # v => api'[u] = api[u] /\ slice'[u] = slice[u],
           SliceKnown(v)', WorkerLeft(w)'
    PROVE  LeftIInv'
<1>1. ASSUME NEW u \in Owners PROVE SliceKnown(u)'
  BY DEF LeftIInv, SliceKnown
<1>2. ASSUME NEW x \in Workers, x # w PROVE WorkerLeft(x)'
  <2>1. WorkerLeft(x) /\ wk'[x] = wk[x]
    BY <1>2 DEF LeftIInv
  <2>2. CASE wk[x].pc # "unfinalize"
    BY <2>1, <2>2 DEF WorkerLeft
  <2>3. CASE wk[x].pc = "unfinalize"
    <3>1. wk[x].key \in Owners /\ wk[x].key # v
      BY <1>2, <2>3, WorkerAt DEF RecordIInv
    <3> QED BY <2>1, <3>1 DEF WorkerLeft
  <2> QED BY <2>2, <2>3
<1> QED BY <1>1, <1>2 DEF LeftIInv

LEMMA WorkLeft ==
    ASSUME ProxyFaults = FALSE, RecordIInv, LeftIInv, NEW w \in Workers, Work(w),
           ~processNextWorkItem(w)
    PROVE  LeftIInv'
<1>1. TypeIInv /\ wk[w].pc # "idle"
  BY DEF RecordIInv, Work, reconcile, addFinalizer, validateAndCheckPorts, allocatePort,
         ensureGeneratedService, ensureEndpointSlice, configureHAProxy, setConditionAndUpdate,
         removeHAProxy, releaseAndDeleteObjects, removeFinalizer, At
<1>2. wk[w] # Idle /\ wk[w].key \in Owners
  BY <1>1, WorkerAt
<1> PICK v \in Owners : v = wk[w].key
  BY <1>2
<1>3. \A x \in Workers : x # w => (wk[x] # Idle => wk[x].key # v)
  BY <1>2 DEF RecordIInv, OneWorkerPerKey
<1>4. wk[w].pc # "read" => /\ wk[w].obj \in VirtualServices /\ WorkerKnows(w)
                           /\ wk[w].base \in VirtualServices
  BY <1>1, WorkerAt DEF RecordIInv
<1>5. SliceKnown(v) /\ WorkerLeft(w)
  BY DEF LeftIInv
<1> DEFINE Others == /\ \A x \in Workers : x # w => wk'[x] = wk[x]
                     /\ \A u \in Owners : u # v => api'[u] = api[u] /\ slice'[u] = slice[u]
<1>6. ASSUME Others, SliceKnown(v)', WorkerLeft(w)' PROVE LeftIInv'
  BY <1>3, <1>6, LeftOfKey
<1>7. ASSUME wk'[w] = Idle \/ wk'[w].pc # "unfinalize" PROVE WorkerLeft(w)'
  BY <1>7 DEF WorkerLeft, Idle
<1>8. ASSUME api'[v] = api[v], slice'[v] = slice[v] PROVE SliceKnown(v)'
  BY <1>5, <1>8 DEF SliceKnown
<1> HIDE DEF Others
<1>9. CASE reconcile(w)
  <2>1. Others /\ UNCHANGED <<api, slice>>
    BY <1>1, <1>9, ReconcileIs DEF Others, objVars
  <2>2. wk'[w] = Idle \/ wk'[w].pc # "unfinalize"
    BY <1>1, <1>9, ReconcileIs
  <2> QED BY <1>6, <1>7, <1>8, <2>1, <2>2
<1>10. CASE addFinalizer(w)
  <2>1. Others /\ UNCHANGED slice
    BY <1>1, <1>10, FinalizerIs DEF Others
  <2>2. wk'[w] = Idle \/ wk'[w].pc # "unfinalize"
    BY <1>1, <1>10, FinalizerIs
  <2>3. api' = api \/ (api[v] \in VirtualServices /\ api'[v] = [api[v] EXCEPT !.fin = TRUE])
    BY <1>1, <1>10, FinalizerIs
  <2>4. api'[v] = api[v] \/ (api'[v] \in VirtualServices /\ api'[v].fin /\ api'[v].uid = api[v].uid)
    BY <2>3 DEF VirtualServices
  <2>5. SliceKnown(v)'
    BY <1>5, <2>1, <2>4, AbsentAssumption DEF SliceKnown
  <2> QED BY <1>6, <1>7, <2>1, <2>2, <2>5
<1>11. CASE validateAndCheckPorts(w) \/ allocatePort(w)
  <2>1. Others /\ UNCHANGED <<api, slice>>
    BY <1>1, <1>11, AllocationIs DEF Others, objVars
  <2>2. wk'[w].pc # "unfinalize"
    BY <1>1, <1>11, AllocationIs
  <2> QED BY <1>6, <1>7, <1>8, <2>1, <2>2
<1>12. CASE ensureGeneratedService(w)
  <2>1. Others /\ UNCHANGED <<api, slice>>
    BY <1>1, <1>12, ServiceIs DEF Others
  <2>2. wk'[w].pc # "unfinalize"
    BY <1>1, <1>12, ServiceIs
  <2> QED BY <1>6, <1>7, <1>8, <2>1, <2>2
<1>13. CASE ensureEndpointSlice(w)
  <2>1. Others /\ UNCHANGED api /\ wk[w].pc = "slice"
    BY <1>1, <1>13, SliceIs DEF Others
  <2>2. wk'[w].pc # "unfinalize"
    BY <1>1, <1>13, SliceIs
  <2>3. slice'[v] = slice[v] \/ (slice'[v] # Absent /\ slice'[v].owner = wk[w].obj.uid)
    BY <1>1, <1>13, SliceIs
  <2>4. api[v] # Absent /\ api[v].uid = wk[w].obj.uid /\ api[v].fin
    BY <1>4, <2>1 DEF WorkerKnows, StillThere, Normal, Finalizing
  <2>5. SliceKnown(v)'
    BY <1>5, <2>1, <2>3, <2>4 DEF SliceKnown
  <2> QED BY <1>6, <1>7, <2>1, <2>2, <2>5
<1>14. CASE configureHAProxy(w)
  <2>1. Others /\ UNCHANGED <<api, slice>>
    BY <1>1, <1>14, ConfigureIs DEF Others, objVars
  <2>2. wk'[w].pc # "unfinalize"
    BY <1>1, <1>14, ConfigureIs
  <2> QED BY <1>6, <1>7, <1>8, <2>1, <2>2
<1>15. CASE setConditionAndUpdate(w)
  <2>1. Others /\ UNCHANGED slice /\ wk'[w] = Idle
    BY <1>1, <1>15, StatusIs, ZenonT(60) DEF Others
  <2>2. \/ api' = api
        \/ /\ api[v] \in VirtualServices /\ api'[v] \in VirtualServices
           /\ api'[v] = [api[v] EXCEPT !.ports = wk[w].obj.ports, !.cond = wk[w].cond,
                                      !.obs = wk[w].obj.gen]
    BY <1>1, <1>15, StatusIs
  <2>3. \/ api'[v] = api[v]
        \/ api'[v] \in VirtualServices /\ api'[v].fin = api[v].fin /\ api'[v].uid = api[v].uid
    BY <2>2 DEF VirtualServices
  <2>4. SliceKnown(v)'
    BY <1>5, <2>1, <2>3, AbsentAssumption DEF SliceKnown
  <2> QED BY <1>6, <1>7, <2>1, <2>4
<1>16. CASE removeHAProxy(w) \/ releaseAndDeleteObjects(w)
  <2>1. Others /\ UNCHANGED api
    BY <1>1, <1>16, FinalizationIs DEF Others
  <2>2. /\ wk'[w].pc = IF wk[w].pc = "remove" THEN "release" ELSE "unfinalize"
        /\ wk[w].pc \in {"remove", "release"}
        /\ wk'[w].key = v /\ wk'[w].obj = wk[w].obj
        /\ slice'[v] = slice[v] \/ slice'[v] = Absent
        /\ wk[w].pc = "release" /\ slice'[v] # Absent => slice'[v].owner # wk[w].obj.uid
    BY <1>1, <1>16, FinalizationIs
  <2>3. SliceKnown(v)'
    BY <1>5, <2>1, <2>2 DEF SliceKnown
  <2>4. WorkerLeft(w)'
    BY <2>2 DEF WorkerLeft
  <2> QED BY <1>6, <2>1, <2>3, <2>4
<1>17. CASE removeFinalizer(w)
  <2>1. Others /\ UNCHANGED slice /\ wk'[w] = Idle /\ wk[w].pc = "unfinalize"
    BY <1>1, <1>17, UnfinalizeIs DEF Others
  <2>2. api' = api \/ api[v] = wk[w].base
    BY <1>1, <1>17, UnfinalizeIs
  <2>3. wk[w].obj.uid = wk[w].base.uid
    BY <1>4, <2>1 DEF WorkerKnows
  <2>4. SliceKnown(v)'
    <3>1. CASE api' = api
      BY <1>8, <2>1, <3>1
    <3>2. CASE api[v] = wk[w].base
      BY <1>5, <2>1, <2>3, <3>2 DEF SliceKnown, WorkerLeft
    <3> QED BY <2>2, <3>1, <3>2
  <2> QED BY <1>6, <1>7, <2>1, <2>4
<1> QED BY <1>9, <1>10, <1>11, <1>12, <1>13, <1>14, <1>15, <1>16, <1>17 DEF Work

LEMMA NextLeft ==
    ASSUME "edit" \notin UserOps, MaxRestarts = 0, ProxyFaults = FALSE,
           RecordIInv, LeftIInv, [Next]_vars
    PROVE  LeftIInv'
<1>1. TypeIInv /\ api \in [Owners -> VirtualServices \cup {Absent}]
             /\ slice \in [Owners -> EndpointSlices \cup {Absent}]
  BY DEF RecordIInv, TypeIInv, ObjectsOK
<1>2. CASE UNCHANGED <<api, slice, wk>>
  BY <1>2, LeftKept
<1>3. CASE Users
  <2>1. ASSUME NEW v \in Owners, CreateVirtualService(v) PROVE LeftIInv'
    <3>1. UNCHANGED <<wk, slice>> /\ api[v] = Absent /\ \A u \in Owners : u # v => api'[u] = api[u]
      BY <1>1, <2>1 DEF CreateVirtualService, userUnchanged
    <3> QED BY <3>1, LeftKept
  <2>2. ASSUME NEW v \in Owners, DeleteVirtualService(v) PROVE LeftIInv'
    <3>1. UNCHANGED <<wk, slice>> /\ api[v] \in VirtualServices
      BY <1>1, <2>2 DEF DeleteVirtualService, userUnchanged
    <3>2. /\ api'[v] = IF api[v].fin THEN [api[v] EXCEPT !.deleting = TRUE] ELSE Absent
          /\ \A u \in Owners : u # v => api'[u] = api[u]
      BY <1>1, <2>2 DEF DeleteVirtualService
    <3>3. api[v].fin => api'[v] \in VirtualServices /\ api'[v].fin /\ api'[v].uid = api[v].uid
      BY <3>1, <3>2 DEF VirtualServices
    <3>4. \A u \in Owners : \/ api'[u] = api[u] \/ ~api[u].fin
                            \/ api'[u] # Absent /\ api'[u].fin /\ api'[u].uid = api[u].uid
      BY <3>2, <3>3, AbsentAssumption
    <3> QED BY <3>1, <3>4, LeftKept
  <2>3. ASSUME NEW v \in Owners, CreateEndpointSlice(v) PROVE LeftIInv'
    <3>1. /\ UNCHANGED <<wk, api>>
          /\ slice' = [slice EXCEPT ![v] = [owner |-> Foreign, ports |-> NoEntries]]
      BY <2>3 DEF CreateEndpointSlice, userUnchanged
    <3>2. /\ slice'[v] = [owner |-> Foreign, ports |-> NoEntries]
          /\ \A u \in Owners : u # v => slice'[u] = slice[u]
      BY <1>1, <3>1
    <3>3. slice'[v] \in EndpointSlices
      BY <3>2, NoEntriesIs, GatewayAssumption DEF EndpointSlices, Foreign
    <3>4. slice'[v] # Absent /\ slice'[v].owner = Foreign
      BY <3>2, <3>3, NoServiceAssumption
    <3> QED BY <3>1, <3>2, <3>4, LeftKept
  <2>4. ASSUME NEW v \in Owners, ReplaceService(v) PROVE LeftIInv'
    BY <1>2, <2>4 DEF ReplaceService, userUnchanged
  <2>5. ASSUME NEW p \in Pods, PodStep(p) PROVE LeftIInv'
    BY <1>2, <2>5 DEF PodStep, objVars
  <2> QED BY <1>3, <2>1, <2>2, <2>3, <2>4, <2>5 DEF Users, EditVirtualService
<1>4. CASE Deliver
  BY <1>2, <1>4 DEF Deliver, enqueueVirtualService, ServiceInformer, CollectService, handlePodEvent,
                    handleTombstone, enqueueVirtualServicesForPod, userUnchanged, objVars
<1>5. ASSUME NEW w \in Workers, Work(w) PROVE LeftIInv'
  <2>1. CASE processNextWorkItem(w)
    <3>1. /\ \A x \in Workers : x # w => wk'[x] = wk[x]
          /\ UNCHANGED <<api, slice>>
      BY <1>1, <2>1, TakeIs DEF objVars
    <3>2. PICK v \in Owners : /\ wk'[w].pc = "read"
                              /\ \A x \in Workers : wk[x] # Idle => wk[x].key # v
      BY <1>1, <2>1, TakeIs
    <3>3. SliceKnown(v)' /\ WorkerLeft(w)'
      BY <3>1, <3>2 DEF LeftIInv, SliceKnown, WorkerLeft
    <3> QED BY <3>1, <3>2, <3>3, LeftOfKey
  <2> QED BY <1>5, <2>1, WorkLeft
<1>6. ~Restart
  BY DEF Restart, RecordIInv, TypeIInv, BoundsOK
<1>7. UNCHANGED vars => UNCHANGED <<api, slice, wk>>
  BY DEF vars, objVars
<1> QED BY <1>2, <1>3, <1>4, <1>5, <1>6, <1>7 DEF Next

LEMMA InitLeft == Init => LeftIInv
<1> SUFFICES ASSUME Init PROVE LeftIInv
  OBVIOUS
<1>1. (\A v \in Owners : slice[v] = Absent) /\ \A w \in Workers : wk[w] = Idle
  BY DEF Init
<1> QED BY <1>1 DEF LeftIInv, SliceKnown, WorkerLeft, Idle

LEMMA RestLeavesNothing ==
    CopyIInv /\ FrontendIInv /\ LeftIInv => NothingLeftBehind
<1> SUFFICES ASSUME CopyIInv, FrontendIInv, LeftIInv, Quiescent, NEW v \in Owners, api[v] = Absent
             PROVE  /\ proxy[v] = NoEntries
                    /\ svc[v] = Absent \/ svc[v].owner = Foreign
                    /\ slice[v] = Absent \/ slice[v].owner = Foreign
                    /\ v \notin vsCache
  BY DEF NothingLeftBehind
<1>1. dirty = {} /\ lister = api /\ \A w \in Workers : wk[w] = Idle
  BY DEF Quiescent
<1>2. proxy[v] = NoEntries
  <2>1. DOMAIN proxy[v] = {}
    BY DEF FrontendIInv, KeyBinds
  <2>2. proxy[v] \in ProxyMaps
    BY DEF CopyIInv, TypeIInv, ProxyOK
  <2>3. proxy[v] \in [{} -> [port : Ports, servers : SUBSET Pods]]
    BY <2>1, <2>2, MapsAre
  <2>4. proxy[v] = [s \in {} |-> proxy[v][s]]
    BY <2>3
  <2> QED BY <2>4 DEF NoEntries
<1>3. svc[v] = Absent \/ svc[v].owner = Foreign
  BY DEF Quiescent, Orphaned
<1>4. slice[v] = Absent \/ slice[v].owner = Foreign
  BY DEF LeftIInv, SliceKnown
<1>5. v \notin vsCache
  BY <1>1 DEF CopyIInv, CacheKnows, Idle
<1> QED BY <1>2, <1>3, <1>4, <1>5

\* At rest nothing of a VirtualService that is gone is left: its frontends are down, its
\* Service and EndpointSlice deleted and its key out of the cache
\* (handleVirtualServiceFinalization), also where users keep Services or EndpointSlices of
\* that name, as long as no spec is edited, the controller is not restarted and the Data
\* Plane API answers.
THEOREM NothingIsLeftBehind ==
    ASSUME "edit" \notin UserOps, MaxRestarts = 0, ProxyFaults = FALSE
    PROVE  Spec => []NothingLeftBehind
<1> DEFINE IInv == CopyIInv /\ RecordIInv /\ FrontendIInv /\ LeftIInv
<1>1. Init => IInv
  BY InitCopies, InitRecord, InitBinds, InitLeft
<1>2. IInv /\ [Next]_vars => IInv'
  BY NextCopies, NextRecord, NextBinds, NextLeft
<1>3. IInv => NothingLeftBehind
  BY RestLeavesNothing
<1> QED BY <1>1, <1>2, <1>3, PTL DEF Spec

-----------------------------------------------------------------------------
\* Copies that are held, by the informer or by a worker, with edits and restarts.

\* a is the object c was copied from, later, or one created after it.
After(c, a) == c.uid <= a.uid /\ (c.uid = a.uid /\ c.deleting => a.deleting)

\* The API server's object comes after the copy; and it is the copy's own, with its
\* finalizer, as long as the copy has the finalizer and no deletion mark.
Held(c, v) ==
    /\ c.uid <= userOps
    /\ api[v] # Absent => After(c, api[v])
    /\ StillThere(c, v)

KeyHeld(v) ==
    /\ api[v] # Absent => api[v].uid <= userOps
    /\ lister[v] # Absent => Held(lister[v], v)

\* A worker finalizes a marked copy and only such a one, and sets up one with a finalizer.
WorkerHeld(w) ==
    LET me == wk[w]
        v == me.key
    IN
    /\ Held(me.obj, v)
    /\ lister[v] # Absent => After(me.obj, lister[v])
    /\ me.obj.deleting = me.base.deleting
    /\ me.pc \in Finalizing <=> me.obj.deleting
    /\ me.pc \in Normal => me.obj.fin

HeldIInv ==
    /\ \A v \in Owners : KeyHeld(v)
    /\ \A w \in Workers : Working(w) => WorkerHeld(w)

\* What a step may do to the API server's object of a key.
ApiStep(v) ==
    \/ api'[v] = api[v]
    \/ /\ api[v] # Absent /\ api'[v] # Absent /\ api'[v].uid = api[v].uid
       /\ (api[v].deleting => api'[v].deleting) /\ (api[v].fin => api'[v].fin)
    \/ api'[v] = Absent
    \/ api[v] = Absent /\ api'[v].uid = userOps' /\ userOps < userOps'

LEMMA HeldStep ==
    ASSUME TypeIInv, TypeIInv', userOps <= userOps', NEW v \in Owners, ApiStep(v),
           NEW c, c.uid \in Nat, Held(c, v),
           api'[v] = Absent => api[v] = Absent \/ ~c.fin \/ c.deleting
    PROVE  Held(c, v)'
<1>1. userOps \in Nat /\ userOps' \in Nat
  BY DEF TypeIInv, BoundsOK
<1>2. api[v] # Absent => api[v].uid \in Nat /\ api[v].deleting \in BOOLEAN /\ api[v].fin \in BOOLEAN
  BY DEF TypeIInv, ObjectsOK, VirtualServices
<1>3. PICK a, b : a = api[v] /\ b = api'[v]
  OBVIOUS
<1>4. c.uid <= userOps'
  BY <1>1 DEF Held
<1>5. b # Absent => After(c, b)
  <2>1. CASE b = a
    BY <1>3, <2>1 DEF Held
  <2>2. CASE a # Absent /\ b # Absent /\ b.uid = a.uid /\ (a.deleting => b.deleting)
    BY <1>3, <2>2 DEF Held, After
  <2>3. CASE b.uid = userOps' /\ userOps < userOps'
    BY <1>1, <2>3 DEF Held, After
  <2> QED BY <1>3, <2>1, <2>2, <2>3 DEF ApiStep
<1>6. c.fin /\ ~c.deleting => b # Absent /\ b.uid = c.uid /\ b.fin
  <2> SUFFICES ASSUME c.fin, ~c.deleting PROVE b # Absent /\ b.uid = c.uid /\ b.fin
    OBVIOUS
  <2>1. a # Absent /\ a.uid = c.uid /\ a.fin
    BY <1>3 DEF Held, StillThere
  <2> QED BY <1>3, <2>1 DEF ApiStep
<1> QED BY <1>3, <1>4, <1>5, <1>6 DEF Held, StillThere

\* The API server's own object, taken in by the informer.
LEMMA HeldOwn ==
    ASSUME TypeIInv, NEW v \in Owners, KeyHeld(v), api[v] # Absent
    PROVE  Held(api[v], v)
<1>1. api[v].uid \in Nat
  BY DEF TypeIInv, ObjectsOK, VirtualServices
<1> QED BY <1>1 DEF Held, After, StillThere, KeyHeld

\* Users and informers: an object without a finalizer goes at once.
LEMMA HeldKept ==
    ASSUME TypeIInv, TypeIInv', HeldIInv, wk' = wk, userOps <= userOps',
           \A v \in Owners : /\ ApiStep(v)
                             /\ api'[v] = Absent => api[v] = Absent \/ ~api[v].fin
                             /\ lister'[v] = lister[v] \/ (lister'[v] = api[v] /\ api'[v] = api[v])
    PROVE  HeldIInv'
<1>1. userOps \in Nat /\ userOps' \in Nat
  BY DEF TypeIInv, BoundsOK
<1>2. ASSUME NEW v \in Owners, NEW c \in VirtualServices, Held(c, v) PROVE Held(c, v)'
  <2>1. c.uid \in Nat
    BY DEF VirtualServices
  <2>2. api'[v] = Absent => api[v] = Absent \/ ~c.fin \/ c.deleting
    BY <1>2 DEF Held, StillThere
  <2> QED BY <1>2, <2>1, <2>2, HeldStep
<1>3. ASSUME NEW v \in Owners PROVE KeyHeld(v)'
  <2>1. KeyHeld(v) /\ lister[v] \in VirtualServices \cup {Absent} /\ api[v] \in VirtualServices \cup {Absent}
    BY DEF HeldIInv, TypeIInv, ObjectsOK
  <2>2. api'[v] # Absent => api'[v].uid <= userOps'
    <3>1. api[v] # Absent => api[v].uid \in Nat
      BY <2>1 DEF VirtualServices
    <3>2. PICK a, b : a = api[v] /\ b = api'[v]
      OBVIOUS
    <3> QED BY <1>1, <2>1, <3>1, <3>2 DEF KeyHeld, ApiStep
  <2>3. PICK l : l = lister'[v]
    OBVIOUS
  <2>4. l # Absent => l \in VirtualServices /\ Held(l, v)
    BY <2>1, <2>3, HeldOwn DEF KeyHeld
  <2>5. l # Absent => Held(l, v)'
    BY <1>2, <2>4
  <2> QED BY <2>2, <2>3, <2>5 DEF KeyHeld
<1>4. ASSUME NEW w \in Workers, Working(w)' PROVE WorkerHeld(w)'
  <2>1. Working(w) /\ WorkerHeld(w)
    BY <1>4 DEF HeldIInv, Working
  <2>2. wk[w].key \in Owners /\ wk[w].obj \in VirtualServices
    BY <2>1, WorkerAt DEF Working
  <2>3. PICK v \in Owners, c \in VirtualServices : v = wk[w].key /\ c = wk[w].obj
    BY <2>2
  <2>4. Held(c, v)'
    BY <1>2, <2>1, <2>3 DEF WorkerHeld
  <2>5. lister'[v] # Absent => After(c, lister'[v])
    <3>1. lister'[v] = lister[v] \/ lister'[v] = api[v]
      OBVIOUS
    <3> QED BY <2>1, <2>3, <3>1 DEF WorkerHeld, Held
  <2> QED BY <2>1, <2>3, <2>4, <2>5 DEF WorkerHeld
<1> QED BY <1>3, <1>4 DEF HeldIInv

\* A worker's step: its key and its own record.
LEMMA HeldOfKey ==
    ASSUME TypeIInv, TypeIInv', HeldIInv, NEW w \in Workers, NEW v \in Owners,
           UNCHANGED <<userOps, lister>>,
           \A x \in Workers : x # w => wk'[x] = wk[x] /\ (wk[x] # Idle => wk[x].key # v),
           \A u \in Owners : u # v => api'[u] = api[u],
           ApiStep(v), api'[v] = Absent /\ api[v] # Absent /\ lister[v] # Absent => lister[v].deleting,
           Working(w)' => WorkerHeld(w)'
    PROVE  HeldIInv'
<1>1. userOps \in Nat
  BY DEF TypeIInv, BoundsOK
<1>2. ASSUME NEW u \in Owners, u # v, NEW c, Held(c, u) PROVE Held(c, u)'
  BY <1>2 DEF Held, StillThere
<1>3. ASSUME NEW u \in Owners PROVE KeyHeld(u)'
  <2>1. KeyHeld(u)
    BY DEF HeldIInv
  <2>2. PICK l : l = lister[u]
    OBVIOUS
  <2>3. CASE u # v
    BY <1>2, <2>1, <2>2, <2>3 DEF KeyHeld
  <2>4. CASE u = v
    <3>1. api'[v] # Absent => api'[v].uid <= userOps'
      BY <1>1, <2>1, <2>4 DEF KeyHeld, ApiStep
    <3>2. l # Absent => l \in VirtualServices
      BY <1>1, <2>2 DEF TypeIInv, ObjectsOK
    <3>3. l # Absent => l.uid \in Nat
      BY <3>2 DEF VirtualServices
    <3>4. l # Absent => Held(l, v)'
      BY <1>1, <2>1, <2>2, <2>4, <3>3, HeldStep DEF KeyHeld
    <3> QED BY <2>2, <2>4, <3>1, <3>4 DEF KeyHeld
  <2> QED BY <2>3, <2>4
<1>4. ASSUME NEW x \in Workers, x # w, Working(x)' PROVE WorkerHeld(x)'
  <2>1. wk'[x] = wk[x] /\ Working(x) /\ WorkerHeld(x) /\ wk[x] # Idle
    BY <1>4 DEF HeldIInv, Working, Idle
  <2>2. wk[x].key \in Owners /\ wk[x].key # v
    BY <1>4, <2>1, WorkerAt DEF Working
  <2>3. PICK u, c : u \in Owners /\ u = wk[x].key /\ c = wk[x].obj /\ u # v
    BY <2>2
  <2>4. Held(c, u)'
    BY <1>2, <2>1, <2>3 DEF WorkerHeld
  <2> QED BY <2>1, <2>3, <2>4 DEF WorkerHeld
<1> QED BY <1>3, <1>4 DEF HeldIInv

\* A worker takes a key, and finds the object gone or reads the informer's copy.
LEMMA StartHeld ==
    ASSUME CopyIInv, TypeIInv', HeldIInv, NEW w \in Workers, processNextWorkItem(w) \/ reconcile(w)
    PROVE  HeldIInv'
<1>1. TypeIInv
  BY DEF CopyIInv
<1>2. CASE processNextWorkItem(w)
  <2>1. /\ wk[w] = Idle /\ \A x \in Workers : x # w => wk'[x] = wk[x]
        /\ UNCHANGED <<objVars, boundVars>>
    BY <1>1, <1>2, TakeIs
  <2>2. PICK v \in Owners : wk'[w].pc = "read" /\ \A x \in Workers : wk[x] # Idle => wk[x].key # v
    BY <1>1, <1>2, TakeIs
  <2>3. ~Working(w)'
    BY <2>2 DEF Working
  <2>4. UNCHANGED <<api, lister, userOps>> /\ ApiStep(v)
    BY <2>1 DEF objVars, boundVars, ApiStep
  <2> QED BY <1>1, <2>1, <2>2, <2>3, <2>4, HeldOfKey
<1>3. CASE reconcile(w)
  <2>1. wk[w].pc # "idle"
    BY <1>3 DEF reconcile, At
  <2>2. wk[w] # Idle /\ \E v \in Owners : v = wk[w].key
    BY <1>1, <2>1, WorkerAt
  <2> PICK v \in Owners : v = wk[w].key
    BY <2>2
  <2>3. \A x \in Workers : x # w => wk'[x] = wk[x] /\ (wk[x] # Idle => wk[x].key # v)
    BY <1>1, <1>3, <2>2, ReconcileIs DEF CopyIInv, OneWorkerPerKey
  <2>4. UNCHANGED <<api, lister, userOps>> /\ ApiStep(v)
    BY <1>1, <1>3, ReconcileIs DEF objVars, boundVars, ApiStep
  <2>5. ASSUME Working(w)' PROVE WorkerHeld(w)'
    <3>1. wk'[w] # Idle
      BY <2>5 DEF Working, Idle
    <3>2. /\ lister[v] \in VirtualServices /\ wk'[w].key = v
          /\ wk'[w].pc \in {"remove", "ports", "finalizer"}
          /\ wk'[w].obj = lister[v] /\ wk'[w].base = lister[v]
          /\ wk'[w].pc = "remove" <=> lister[v].deleting
          /\ wk'[w].pc = "ports" => lister[v].fin
      BY <1>1, <1>3, <3>1, ReconcileIs
    <3>3. PICK l \in VirtualServices : l = lister[v]
      BY <3>1, <3>2
    <3>4. l # Absent /\ l.uid \in Nat
      BY AbsentAssumption DEF VirtualServices
    <3>5. Held(l, v)
      BY <3>3, <3>4 DEF HeldIInv, KeyHeld
    <3>6. Held(l, v)'
      BY <2>4, <3>5 DEF Held, StillThere
    <3>7. After(l, l)
      BY <3>4 DEF After
    <3> QED BY <2>4, <3>1, <3>2, <3>3, <3>6, <3>7 DEF WorkerHeld, Finalizing, Normal
  <2> QED BY <1>1, <2>3, <2>4, <2>5, HeldOfKey
<1> QED BY <1>2, <1>3

\* A worker past the read.
LEMMA WorkHeld ==
    ASSUME CopyIInv, TypeIInv', HeldIInv, NEW w \in Workers, Work(w),
           ~processNextWorkItem(w), ~reconcile(w)
    PROVE  HeldIInv'
<1>1. TypeIInv /\ wk[w].pc \notin {"idle", "read"}
  BY DEF CopyIInv, Work, addFinalizer, validateAndCheckPorts, allocatePort, ensureGeneratedService,
         ensureEndpointSlice, configureHAProxy, setConditionAndUpdate, removeHAProxy,
         releaseAndDeleteObjects, removeFinalizer, At
<1>2. /\ Working(w) /\ wk[w].key \in Owners /\ wk[w].obj \in VirtualServices
      /\ wk[w].base \in VirtualServices /\ wk[w] # Idle
  BY <1>1, WorkerAt
<1> PICK v \in Owners, obj \in VirtualServices, base \in VirtualServices :
       v = wk[w].key /\ obj = wk[w].obj /\ base = wk[w].base
  BY <1>2
<1>3. obj.uid = base.uid /\ obj.uid \in Nat /\ obj # Absent /\ base # Absent
  BY <1>2, AbsentAssumption DEF CopyIInv, WorkerCopies, VirtualServices
<1>4. /\ Held(obj, v) /\ (lister[v] # Absent => After(obj, lister[v]))
      /\ obj.deleting = base.deleting
      /\ wk[w].pc \in Finalizing <=> obj.deleting
      /\ wk[w].pc \in Normal => obj.fin
  BY <1>2 DEF HeldIInv, WorkerHeld
<1>5. \A x \in Workers : x # w => (wk[x] # Idle => wk[x].key # v)
  BY <1>2 DEF CopyIInv, OneWorkerPerKey
<1> DEFINE Others == /\ \A x \in Workers : x # w => wk'[x] = wk[x]
                     /\ \A u \in Owners : u # v => api'[u] = api[u]
                     /\ UNCHANGED <<userOps, lister>>
           GoesOn == /\ UNCHANGED api /\ wk'[w].key = v /\ wk'[w].base = base
                     /\ wk'[w].obj.uid = obj.uid /\ wk'[w].obj.deleting = obj.deleting
                     /\ wk'[w].obj.fin = obj.fin
                     /\ \/ wk'[w].pc \in Normal /\ wk[w].pc \in Normal
                        \/ wk'[w].pc \in Finalizing /\ wk[w].pc \in Finalizing
<1>6. ASSUME Others, GoesOn PROVE HeldIInv'
  <2>1. PICK c : c = wk'[w].obj
    OBVIOUS
  <2>2. Held(c, v)'
    BY <1>4, <1>6, <2>1 DEF Held, After, StillThere
  <2>3. lister'[v] # Absent => After(c, lister'[v])
    BY <1>4, <1>6, <2>1 DEF After
  <2>4. WorkerHeld(w)'
    BY <1>4, <1>6, <2>1, <2>2, <2>3 DEF WorkerHeld, Normal, Finalizing
  <2>5. ApiStep(v)
    BY <1>6 DEF ApiStep
  <2> QED BY <1>1, <1>5, <1>6, <2>4, <2>5, HeldOfKey
<1>7. ASSUME Others, wk'[w] = Idle, ApiStep(v), 
             api'[v] = Absent /\ api[v] # Absent /\ lister[v] # Absent => lister[v].deleting
      PROVE  HeldIInv'
  <2>1. ~Working(w)'
    BY <1>7 DEF Working, Idle
  <2> QED BY <1>1, <1>5, <1>7, <2>1, HeldOfKey
<1> HIDE DEF Others, GoesOn
<1>10. CASE addFinalizer(w)
  <2>1. Others /\ wk[w].pc = "finalizer"
    BY <1>1, <1>10, FinalizerIs DEF Others, boundVars
  <2>2. CASE wk'[w] = Idle /\ api' = api
    BY <1>7, <2>1, <2>2 DEF ApiStep
  <2>3. CASE ~(wk'[w] = Idle /\ api' = api)
    <3>1. /\ api[v] = base /\ api'[v] = [api[v] EXCEPT !.fin = TRUE]
          /\ wk'[w].pc = "ports" /\ wk'[w].key = v /\ wk'[w].base = base
          /\ wk'[w].obj = [obj EXCEPT !.fin = TRUE]
      BY <1>1, <1>10, <2>3, FinalizerIs
    <3>2. /\ wk'[w].obj.uid = obj.uid /\ wk'[w].obj.deleting = obj.deleting /\ wk'[w].obj.fin
          /\ api'[v].uid = base.uid /\ api'[v].deleting = base.deleting /\ api'[v].fin
          /\ api'[v] \in VirtualServices
      <4>1. \A c, d : c \in VirtualServices /\ d = [c EXCEPT !.fin = TRUE]
                => d.uid = c.uid /\ d.deleting = c.deleting /\ d.fin /\ d \in VirtualServices
        BY DEF VirtualServices
      <4>2. wk'[w].obj = [obj EXCEPT !.fin = TRUE] /\ api'[v] = [base EXCEPT !.fin = TRUE]
        BY <3>1
      <4> QED BY <4>1, <4>2
    <3>3. PICK c, a : c = wk'[w].obj /\ a = api'[v]
      OBVIOUS
    <3>4. Held(c, v)'
      BY <1>3, <1>4, <2>1, <3>2, <3>3, AbsentAssumption DEF Held, After, StillThere, Others
    <3>5. lister'[v] # Absent => After(c, lister'[v])
      BY <1>4, <2>1, <3>2, <3>3 DEF After, Others
    <3>6. WorkerHeld(w)'
      BY <1>4, <2>1, <3>1, <3>2, <3>3, <3>4, <3>5 DEF WorkerHeld, Normal, Finalizing
    <3>7. ApiStep(v) /\ api'[v] # Absent
      BY <1>3, <3>1, <3>2, AbsentAssumption DEF ApiStep
    <3> QED BY <1>1, <1>5, <2>1, <3>6, <3>7, HeldOfKey DEF Others
  <2> QED BY <2>2, <2>3
<1>11. CASE validateAndCheckPorts(w) \/ allocatePort(w)
  <2>1. Others /\ UNCHANGED api /\ wk'[w].key = v /\ wk'[w].base = base
    BY <1>1, <1>11, AllocationIs DEF Others, objVars, boundVars
  <2>2. wk[w].pc \in {"ports", "allocate"} /\ wk'[w].pc \in {"service", "allocate", "status"}
    BY <1>1, <1>11, AllocationIs
  <2>3. wk'[w].obj = obj \/ \E got \in PortMaps : wk'[w].obj = [obj EXCEPT !.ports = got]
    BY <1>1, <1>11, AllocationIs
  <2>4. /\ wk'[w].obj.uid = obj.uid /\ wk'[w].obj.deleting = obj.deleting
        /\ wk'[w].obj.fin = obj.fin
    BY <2>3 DEF VirtualServices
  <2> QED BY <1>6, <2>1, <2>2, <2>4 DEF GoesOn, Normal
<1>12. CASE ensureGeneratedService(w) \/ ensureEndpointSlice(w)
  <2>1. /\ Others /\ UNCHANGED api /\ wk'[w].key = v /\ wk'[w].base = base /\ wk'[w].obj = obj
        /\ wk[w].pc \in {"service", "slice"} /\ wk'[w].pc \in {"slice", "proxy", "status"}
    BY <1>1, <1>12, ServiceIs, SliceIs DEF Others, boundVars
  <2> QED BY <1>6, <2>1 DEF GoesOn, Normal
<1>13. CASE configureHAProxy(w)
  <2>1. /\ wk[w].pc = "proxy" /\ UNCHANGED <<objVars, boundVars>> /\ \E c : Report(w, wk[w].obj, c)
    BY <1>13 DEF configureHAProxy, At, workerUnchanged
  <2>2. /\ \A x \in Workers : x # w => wk'[x] = wk[x]
        /\ wk'[w].pc = "status" /\ wk'[w].key = v /\ wk'[w].base = base /\ wk'[w].obj = obj
    BY <1>1, <1>2, <2>1, ReportIs
  <2>3. Others /\ UNCHANGED api
    BY <2>1, <2>2 DEF Others, objVars, boundVars
  <2> QED BY <1>6, <2>1, <2>2, <2>3 DEF GoesOn, Normal
<1>14. CASE setConditionAndUpdate(w)
  <2>1. Others /\ wk'[w] = Idle
    BY <1>1, <1>14, StatusIs DEF Others, boundVars
  <2>2. CASE api' = api
    BY <1>7, <2>1, <2>2 DEF ApiStep
  <2>3. CASE api' # api
    <3>1. /\ api[v] = base
          /\ api'[v] = [api[v] EXCEPT !.ports = wk[w].obj.ports, !.cond = wk[w].cond,
                                      !.obs = wk[w].obj.gen]
          /\ api'[v] \in VirtualServices
      BY <1>1, <1>14, <2>3, StatusIs
    <3>2. /\ api'[v].uid = api[v].uid /\ api'[v].deleting = api[v].deleting /\ api'[v].fin = api[v].fin
          /\ api[v] # Absent /\ api'[v] # Absent
      BY <1>3, <3>1, AbsentAssumption DEF VirtualServices
    <3>3. ApiStep(v)
      BY <3>2 DEF ApiStep
    <3> QED BY <1>7, <2>1, <3>2, <3>3
  <2> QED BY <2>2, <2>3
<1>15. CASE removeHAProxy(w) \/ releaseAndDeleteObjects(w)
  <2>1. /\ Others /\ UNCHANGED api /\ wk'[w].key = v /\ wk'[w].base = base /\ wk'[w].obj = obj
        /\ wk[w].pc \in {"remove", "release"} /\ wk'[w].pc \in {"release", "unfinalize"}
    BY <1>1, <1>15, FinalizationIs DEF Others, boundVars
  <2> QED BY <1>6, <2>1 DEF GoesOn, Finalizing
<1>16. CASE removeFinalizer(w)
  <2>1. Others /\ wk'[w] = Idle /\ wk[w].pc = "unfinalize"
    BY <1>1, <1>16, UnfinalizeIs DEF Others, boundVars
  <2>2. CASE api' = api
    BY <1>7, <2>1, <2>2 DEF ApiStep
  <2>3. CASE api' # api
    <3>1. api[v] = base /\ api'[v] = Absent
      BY <1>1, <1>16, <2>3, UnfinalizeIs
    <3>2. obj.deleting
      BY <1>4, <2>1 DEF Finalizing
    <3>3. ASSUME lister[v] # Absent PROVE lister[v].deleting
      <4>1. After(obj, lister[v]) /\ After(lister[v], base)
        BY <1>3, <1>4, <3>1, <3>3 DEF HeldIInv, KeyHeld, Held
      <4>2. lister[v].uid \in Nat
        BY <1>1, <3>3 DEF TypeIInv, ObjectsOK, VirtualServices
      <4> QED BY <1>3, <3>2, <4>1, <4>2 DEF After
    <3>4. ApiStep(v)
      BY <3>1 DEF ApiStep
    <3> QED BY <1>7, <2>1, <3>3, <3>4
  <2> QED BY <2>2, <2>3
<1> QED BY <1>10, <1>11, <1>12, <1>13, <1>14, <1>15, <1>16 DEF Work

LEMMA NextHeld ==
    ASSUME CopyIInv, TypeIInv', HeldIInv, [Next]_vars
    PROVE  HeldIInv'
<1>1. TypeIInv /\ api \in [Owners -> VirtualServices \cup {Absent}] /\ userOps \in Nat /\ userOps' \in Nat
  BY DEF CopyIInv, TypeIInv, ObjectsOK, BoundsOK
<1>2. CASE UNCHANGED <<api, lister, wk>> /\ userOps <= userOps'
  <2>1. \A v \in Owners : api'[v] = api[v] /\ lister'[v] = lister[v] /\ ApiStep(v)
    BY <1>2 DEF ApiStep
  <2> QED BY <1>1, <1>2, <2>1, HeldKept
<1>3. ASSUME UNCHANGED <<lister, wk>>, userOps' = userOps + 1, NEW v \in Owners,
             \A u \in Owners : u # v => api'[u] = api[u],
             ApiStep(v), api'[v] = Absent => api[v] = Absent \/ ~api[v].fin
      PROVE  HeldIInv'
  <2>1. \A u \in Owners : /\ ApiStep(u) /\ lister'[u] = lister[u]
                          /\ api'[u] = Absent => api[u] = Absent \/ ~api[u].fin
    BY <1>3 DEF ApiStep
  <2> QED BY <1>1, <1>3, <2>1, HeldKept
<1>4. CASE Users
  <2>1. ASSUME NEW v \in Owners, CreateVirtualService(v) PROVE HeldIInv'
    <3>1. PICK spec \in Specs : api' = [api EXCEPT ![v] = NewVirtualService(spec, userOps')]
      BY <2>1 DEF CreateVirtualService
    <3>2. api'[v].uid = userOps' /\ \A u \in Owners : u # v => api'[u] = api[u]
      BY <1>1, <3>1, ApiSet DEF NewVirtualService
    <3>3. UNCHANGED <<lister, wk>> /\ userOps' = userOps + 1 /\ api[v] = Absent
      BY <2>1 DEF CreateVirtualService, UserStep, userUnchanged
    <3>4. ApiStep(v)
      BY <1>1, <3>2, <3>3 DEF ApiStep
    <3> QED BY <1>3, <3>2, <3>3, <3>4
  <2>2. ASSUME NEW v \in Owners, EditVirtualService(v) PROVE HeldIInv'
    <3>1. api[v] \in VirtualServices /\ api[v] # Absent
      BY <1>1, <2>2 DEF EditVirtualService
    <3>2. PICK spec \in Specs : api' = [api EXCEPT ![v] = [api[v] EXCEPT !.spec = spec, !.gen = userOps']]
      BY <2>2 DEF EditVirtualService
    <3>3. /\ api'[v] = [api[v] EXCEPT !.spec = spec, !.gen = userOps']
          /\ \A u \in Owners : u # v => api'[u] = api[u]
      BY <1>1, <3>2, ApiSet
    <3>4. api'[v].uid = api[v].uid /\ api'[v].deleting = api[v].deleting /\ api'[v].fin = api[v].fin
      BY <3>1, <3>3 DEF VirtualServices
    <3>5. UNCHANGED <<lister, wk>> /\ userOps' = userOps + 1
      BY <2>2 DEF EditVirtualService, UserStep, userUnchanged
    <3>6. api'[v] # Absent
      <4>1. api'[v] \in VirtualServices \cup {Absent}
        BY DEF TypeIInv, ObjectsOK
      <4>2. userOps' \in 1 .. MaxUserOps
        BY <1>1, <3>5 DEF TypeIInv, BoundsOK
      <4>3. api'[v] \in VirtualServices
        BY <3>1, <3>3, <4>2 DEF VirtualServices
      <4> QED BY <4>3, AbsentAssumption
    <3>7. ApiStep(v)
      BY <3>1, <3>4, <3>6 DEF ApiStep
    <3> QED BY <1>3, <3>3, <3>5, <3>6, <3>7
  <2>3. ASSUME NEW v \in Owners, DeleteVirtualService(v) PROVE HeldIInv'
    <3>1. api[v] \in VirtualServices /\ api[v] # Absent
      BY <1>1, <2>3 DEF DeleteVirtualService
    <3>2. /\ api'[v] = IF api[v].fin THEN [api[v] EXCEPT !.deleting = TRUE] ELSE Absent
          /\ \A u \in Owners : u # v => api'[u] = api[u]
      BY <1>1, <2>3 DEF DeleteVirtualService
    <3>3. UNCHANGED <<lister, wk>> /\ userOps' = userOps + 1
      BY <2>3 DEF DeleteVirtualService, UserStep, userUnchanged
    <3>4. \/ api'[v] = Absent /\ ~api[v].fin
          \/ /\ api'[v] \in VirtualServices /\ api'[v].uid = api[v].uid /\ api'[v].deleting
             /\ api'[v].fin = api[v].fin
      BY <3>1, <3>2 DEF VirtualServices
    <3>5. ApiStep(v) /\ (api'[v] = Absent => ~api[v].fin)
      BY <3>1, <3>4, AbsentAssumption DEF ApiStep
    <3>6. \A u \in Owners : u # v => api'[u] = api[u]
      BY <3>2
    <3> QED BY <1>3, <3>3, <3>5, <3>6
  <2>4. ASSUME NEW v \in Owners, ReplaceService(v) \/ CreateEndpointSlice(v) PROVE HeldIInv'
    BY <1>1, <1>2, <2>4 DEF ReplaceService, CreateEndpointSlice, UserStep, userUnchanged
  <2>5. ASSUME NEW p \in Pods, PodStep(p) PROVE HeldIInv'
    BY <1>1, <1>2, <2>5 DEF PodStep, objVars
  <2> QED BY <1>4, <2>1, <2>2, <2>3, <2>4, <2>5 DEF Users
<1>5. CASE Deliver
  <2>1. UNCHANGED <<api, wk, userOps>>
    BY <1>5 DEF Deliver, enqueueVirtualService, ServiceInformer, CollectService, handlePodEvent,
                handleTombstone, enqueueVirtualServicesForPod, userUnchanged, objVars, boundVars
  <2>2. \A v \in Owners : lister'[v] = lister[v] \/ lister'[v] = api[v]
    <3>1. lister' = lister \/ \E u \in Owners : enqueueVirtualService(u)
      BY <1>5 DEF Deliver, ServiceInformer, CollectService, handlePodEvent,
                  handleTombstone, enqueueVirtualServicesForPod, userUnchanged, objVars
    <3>2. ASSUME NEW u \in Owners, enqueueVirtualService(u)
          PROVE  \A v \in Owners : lister'[v] = lister[v] \/ lister'[v] = api[v]
      BY <1>1, <3>2 DEF enqueueVirtualService, TypeIInv, ObjectsOK
    <3> QED BY <3>1, <3>2
  <2>3. \A v \in Owners : /\ ApiStep(v) /\ (api'[v] = Absent => api[v] = Absent \/ ~api[v].fin)
                          /\ lister'[v] = lister[v] \/ (lister'[v] = api[v] /\ api'[v] = api[v])
    BY <2>1, <2>2 DEF ApiStep
  <2> QED BY <1>1, <2>1, <2>3, HeldKept
<1>6. ASSUME NEW w \in Workers, Work(w) PROVE HeldIInv'
  BY <1>6, StartHeld, WorkHeld
<1>7. CASE Restart
  <2>1. UNCHANGED <<api, userOps>> /\ lister' = api /\ \A w \in Workers : wk'[w] = Idle
    BY <1>7 DEF Restart
  <2>2. ASSUME NEW v \in Owners PROVE KeyHeld(v)'
    <3>1. PICK a : a = api[v]
      OBVIOUS
    <3>2. KeyHeld(v) /\ (a # Absent => Held(a, v))
      BY <1>1, <3>1, HeldOwn DEF HeldIInv
    <3>3. a # Absent => Held(a, v)'
      BY <2>1, <3>2 DEF Held, StillThere
    <3> QED BY <2>1, <3>1, <3>2, <3>3 DEF KeyHeld
  <2>3. \A w \in Workers : ~Working(w)'
    BY <2>1 DEF Working, Idle
  <2> QED BY <2>2, <2>3 DEF HeldIInv
<1>8. CASE UNCHANGED vars
  BY <1>1, <1>2, <1>8 DEF vars, objVars, boundVars
<1> QED BY <1>4, <1>5, <1>6, <1>7, <1>8 DEF Next

LEMMA InitHeld == Init => HeldIInv
<1> SUFFICES ASSUME Init PROVE HeldIInv
  OBVIOUS
<1>1. /\ \A v \in Owners : api[v] = Absent /\ lister[v] = Absent
      /\ \A w \in Workers : ~Working(w)
  BY DEF Init, Working, Idle
<1> QED BY <1>1 DEF HeldIInv, KeyHeld

-----------------------------------------------------------------------------
\* What a Ready VirtualService is made of.

ServiceCarries(v, c) == svc[v] # Absent /\ svc[v].owner = c.uid /\ svc[v].ports = c.ports
SliceCarries(v, c) == slice[v] # Absent /\ slice[v].owner = c.uid /\ slice[v].ports = c.ports
FrontendsCarry(v, c) == \A s \in c.spec : s \in DOMAIN proxy[v] /\ proxy[v][s].port = c.ports[s]

\* Everything generated for c carries the ports c records.
Carried(v, c) ==
    DOMAIN c.ports = c.spec /\ ServiceCarries(v, c) /\ SliceCarries(v, c) /\ FrontendsCarry(v, c)

\* The condition is about the current spec: an edit leaves it behind.
Reported(c) == c.cond = "Ready" /\ c.obs = c.gen

\* A copy that is Ready, for its spec, records a port for each port of it.
Complete(c) == c # Absent => c.obs <= c.gen /\ (Reported(c) => DOMAIN c.ports = c.spec)

\* A worker has set up what it passed, and never gives a Ready copy other ports.
WorkerCarries(w) ==
    LET me == wk[w] IN
    /\ Complete(me.base)
    /\ Reported(me.base) => me.obj.ports = me.base.ports /\ me.pc # "allocate"
    /\ me.pc \in {"slice", "proxy"} => ServiceCarries(me.key, me.obj)
    /\ me.pc = "proxy" => SliceCarries(me.key, me.obj)
    /\ me.pc = "status" /\ me.cond = "Ready" => Carried(me.key, me.obj)

Settled(v) == ReadyNow(v) => Pending(v) \/ Carried(v, api[v])

ReadyIInv ==
    /\ \A v \in Owners : Complete(api[v]) /\ Complete(lister[v]) /\ Settled(v)
    /\ \A w \in Workers : Working(w) => WorkerCarries(w)

\* Users, informers and the garbage collector, which takes no Service of an object that is
\* there.
LEMMA CarriesKept ==
    ASSUME TypeIInv, HeldIInv, ReadyIInv, UNCHANGED <<wk, slice, proxy>>, dirty \subseteq dirty',
           \A v \in Owners : svc'[v] = svc[v] \/ Orphaned(v),
           \A v \in Owners : Complete(api'[v]) /\ Complete(lister'[v]),
           \A v \in Owners : \/ api'[v] = api[v] /\ (lister'[v] = lister[v] \/ v \in dirty')
                             \/ lister'[v] # api'[v] \/ ~ReadyNow(v)'
    PROVE  ReadyIInv'
<1>1. ASSUME NEW v \in Owners, NEW c, api[v] # Absent, api[v].uid = c.uid, c.uid # Foreign, ServiceCarries(v, c)
      PROVE  ServiceCarries(v, c)'
  BY <1>1 DEF ServiceCarries, Orphaned
<1>2. ASSUME NEW v \in Owners PROVE Settled(v)'
  <2>1. CASE lister'[v] # api'[v] \/ ~ReadyNow(v)' \/ v \in dirty'
    BY <2>1 DEF Settled, Pending
  <2>2. CASE api'[v] = api[v] /\ lister'[v] = lister[v] /\ v \notin dirty'
    <3>1. Settled(v) /\ (ReadyNow(v)' <=> ReadyNow(v)) /\ (Pending(v) => Pending(v)')
      BY <2>2 DEF ReadyIInv, ReadyNow, Live, Pending
    <3>2. PICK c : c = api[v]
      OBVIOUS
    <3>3. ReadyNow(v) => c \in VirtualServices /\ c # Absent
      BY <3>2 DEF ReadyNow, Live, TypeIInv, ObjectsOK
    <3>4. ReadyNow(v) => c.uid # Foreign
      BY <3>3 DEF VirtualServices, Foreign
    <3>5. ReadyNow(v) /\ Carried(v, c) => Carried(v, c)'
      BY <1>1, <3>2, <3>3, <3>4 DEF Carried, SliceCarries, FrontendsCarry
    <3> QED BY <2>2, <3>1, <3>2, <3>5 DEF Settled
  <2> QED BY <2>1, <2>2
<1>3. ASSUME NEW w \in Workers, Working(w) PROVE WorkerCarries(w)'
  <2>1. WorkerCarries(w) /\ WorkerHeld(w)
    BY <1>3 DEF ReadyIInv, HeldIInv
  <2>2. wk[w].key \in Owners /\ wk[w].obj \in VirtualServices
    BY <1>3, WorkerAt DEF Working
  <2>3. PICK v \in Owners, c \in VirtualServices : v = wk[w].key /\ c = wk[w].obj
    BY <2>2
  <2>4. c.uid # Foreign
    BY <2>3 DEF VirtualServices, Foreign
  <2>5. wk[w].pc \in Normal => api[v] # Absent /\ api[v].uid = c.uid
    BY <2>1, <2>3 DEF WorkerHeld, Held, StillThere, Normal, Finalizing
  <2>6. wk[w].pc \in Normal /\ ServiceCarries(v, c) => ServiceCarries(v, c)'
    BY <1>1, <2>4, <2>5
  <2>7. SliceCarries(v, c)' = SliceCarries(v, c) /\ FrontendsCarry(v, c)' = FrontendsCarry(v, c)
    BY DEF SliceCarries, FrontendsCarry
  <2> QED BY <2>1, <2>3, <2>6, <2>7 DEF WorkerCarries, Carried, Normal, Complete
<1>4. \A w \in Workers : Working(w)' => Working(w)
  BY DEF Working
<1> QED BY <1>2, <1>3, <1>4 DEF ReadyIInv

\* A worker's step: it is enough to look at its own record, and at its key once it is done.
LEMMA CarriesOfKey ==
    ASSUME TypeIInv, ReadyIInv, NEW w \in Workers, NEW v \in Owners,
           \A x \in Workers : x # w => wk'[x] = wk[x] /\ (wk[x] # Idle => wk[x].key # v),
           wk[w] = Idle \/ wk[w].key = v, wk'[w] = Idle \/ wk'[w].key = v,
           \A u \in Owners : u # v => /\ api'[u] = api[u] /\ svc'[u] = svc[u]
                                      /\ slice'[u] = slice[u] /\ proxy'[u] = proxy[u]
                                      /\ u \in dirty => u \in dirty',
           UNCHANGED lister, Complete(api'[v]),
           Working(w)' => WorkerCarries(w)', wk'[w] = Idle => Settled(v)'
    PROVE  ReadyIInv'
<1>1. ASSUME NEW u \in Owners, u # v, NEW c
      PROVE  /\ ServiceCarries(u, c)' = ServiceCarries(u, c) /\ SliceCarries(u, c)' = SliceCarries(u, c)
             /\ FrontendsCarry(u, c)' = FrontendsCarry(u, c)
  BY <1>1 DEF ServiceCarries, SliceCarries, FrontendsCarry
<1>2. ASSUME NEW u \in Owners, u # v PROVE Settled(u)'
  <2>1. Settled(u) /\ (ReadyNow(u)' <=> ReadyNow(u)) /\ api'[u] = api[u]
    BY <1>2 DEF ReadyIInv, ReadyNow, Live
  <2>2. Pending(u) => Pending(u)'
    <3>1. \A x \in Workers : wk[x] # Idle /\ wk[x].key = u => x # w /\ wk'[x] = wk[x]
      BY <1>2
    <3> QED BY <1>2, <3>1 DEF Pending
  <2>3. PICK c : c = api[u]
    OBVIOUS
  <2>4. Carried(u, c) => Carried(u, c)'
    BY <1>1, <1>2 DEF Carried
  <2> QED BY <2>1, <2>2, <2>3, <2>4 DEF Settled
<1>3. Settled(v)'
  BY DEF Settled, Pending
<1>4. \A u \in Owners : Complete(api'[u]) /\ Complete(lister'[u])
  BY DEF ReadyIInv
<1>5. ASSUME NEW x \in Workers, x # w, Working(x)' PROVE WorkerCarries(x)'
  <2>1. wk'[x] = wk[x] /\ Working(x) /\ WorkerCarries(x)
    BY <1>5 DEF ReadyIInv, Working
  <2>2. wk[x].key \in Owners /\ wk[x].key # v
    BY <1>5, <2>1, WorkerAt DEF Working
  <2>3. PICK u, c : u \in Owners /\ u = wk[x].key /\ c = wk[x].obj /\ u # v
    BY <2>2
  <2>4. /\ ServiceCarries(u, c)' = ServiceCarries(u, c) /\ SliceCarries(u, c)' = SliceCarries(u, c)
        /\ FrontendsCarry(u, c)' = FrontendsCarry(u, c)
    BY <1>1, <2>3
  <2> QED BY <2>1, <2>3, <2>4 DEF WorkerCarries, Carried, Complete
<1> QED BY <1>2, <1>3, <1>4, <1>5 DEF ReadyIInv

\* A worker starts: it takes a key, and finds the object gone or reads it.
LEMMA StartCarries ==
    ASSUME CopyIInv, ReadyIInv, NEW w \in Workers, processNextWorkItem(w) \/ reconcile(w)
    PROVE  ReadyIInv'
<1>1. TypeIInv
  BY DEF CopyIInv
<1>2. CASE processNextWorkItem(w)
  <2>1. /\ wk[w] = Idle /\ \A x \in Workers : x # w => wk'[x] = wk[x]
        /\ UNCHANGED <<haproxyVars, objVars>>
    BY <1>1, <1>2, TakeIs
  <2>2. PICK v \in Owners : /\ dirty' = dirty \ {v}
                            /\ wk'[w].pc = "read" /\ wk'[w].key = v /\ wk'[w] # Idle
                            /\ \A x \in Workers : wk[x] # Idle => wk[x].key # v
    BY <1>1, <1>2, TakeIs
  <2>3. ~Working(w)'
    BY <2>2 DEF Working
  <2>4. UNCHANGED <<api, lister, svc, slice, proxy>>
    BY <2>1 DEF haproxyVars, objVars
  <2>5. Complete(api'[v])
    BY <2>4 DEF ReadyIInv
  <2> QED BY <1>1, <2>1, <2>2, <2>3, <2>4, <2>5, CarriesOfKey
<1>3. CASE reconcile(w)
  <2>1. wk[w].pc # "idle"
    BY <1>3 DEF reconcile, At
  <2>2. wk[w] # Idle /\ \E v \in Owners : v = wk[w].key
    BY <1>1, <2>1, WorkerAt
  <2> PICK v \in Owners : v = wk[w].key
    BY <2>2
  <2>3. /\ dirty' = dirty /\ \A x \in Workers : x # w => wk'[x] = wk[x]
        /\ UNCHANGED <<haproxyVars, objVars>>
    BY <1>1, <1>3, ReconcileIs
  <2>4. UNCHANGED <<api, lister, svc, slice, proxy>>
    BY <2>3 DEF haproxyVars, objVars
  <2>5. \/ wk'[w] = Idle /\ (lister[v] = Absent \/ (lister[v] # Absent /\ lister[v].deleting))
        \/ /\ wk'[w].key = v /\ wk'[w].pc \in {"remove", "ports", "finalizer"}
           /\ wk'[w].obj = lister[v] /\ wk'[w].base = lister[v]
    BY <1>1, <1>3, ReconcileIs
  <2>6. \A x \in Workers : x # w => (wk[x] # Idle => wk[x].key # v)
    BY <2>2 DEF CopyIInv, OneWorkerPerKey
  <2>7. Complete(api'[v]) /\ Complete(lister[v])
    BY <2>4 DEF ReadyIInv
  <2>8. Working(w)' => WorkerCarries(w)'
    BY <2>5, <2>7 DEF WorkerCarries, Working, Idle
  <2>9. wk'[w] = Idle => Settled(v)'
    <3>1. wk'[w] = Idle => lister[v] = Absent \/ lister[v].deleting
      BY <2>5 DEF Idle
    <3> QED BY <2>4, <3>1 DEF Settled, Pending, ReadyNow, Live
  <2> QED BY <1>1, <2>2, <2>3, <2>4, <2>5, <2>6, <2>7, <2>8, <2>9, CarriesOfKey
<1> QED BY <1>2, <1>3

\* A worker past the read.
LEMMA WorkCarries ==
    ASSUME ProxyFaults = FALSE, NodePorts = FALSE, CopyIInv, ReadyIInv,
           NEW w \in Workers, Work(w), ~processNextWorkItem(w), ~reconcile(w)
    PROVE  ReadyIInv'
<1>1. TypeIInv /\ wk[w].pc \notin {"idle", "read"}
  BY DEF CopyIInv, Work, addFinalizer, validateAndCheckPorts, allocatePort, ensureGeneratedService,
         ensureEndpointSlice, configureHAProxy, setConditionAndUpdate, removeHAProxy,
         releaseAndDeleteObjects, removeFinalizer, At
<1>2. /\ Working(w) /\ wk[w].key \in Owners /\ wk[w].obj \in VirtualServices
      /\ wk[w].base \in VirtualServices /\ wk[w] # Idle
  BY <1>1, WorkerAt
<1> PICK v \in Owners, obj \in VirtualServices, base \in VirtualServices :
       v = wk[w].key /\ obj = wk[w].obj /\ base = wk[w].base
  BY <1>2
<1>3. /\ obj.uid = base.uid /\ obj.spec = base.spec /\ obj.cond = base.cond
      /\ obj.gen = base.gen /\ obj.obs = base.obs
      /\ base = lister[v] \/ v \in dirty
      /\ wk[w].pc \in {"service", "slice", "proxy"} \/ (wk[w].pc = "status" /\ wk[w].cond = "Ready")
           => DOMAIN obj.ports = obj.spec
  BY <1>2 DEF CopyIInv, WorkerCopies
<1>4. /\ Complete(base) /\ (Reported(base) => obj.ports = base.ports /\ wk[w].pc # "allocate")
      /\ wk[w].pc \in {"slice", "proxy"} => ServiceCarries(v, obj)
      /\ wk[w].pc = "proxy" => SliceCarries(v, obj)
      /\ wk[w].pc = "status" /\ wk[w].cond = "Ready" => Carried(v, obj)
  BY <1>2 DEF ReadyIInv, WorkerCarries
<1>5. \A x \in Workers : x # w => (wk[x] # Idle => wk[x].key # v)
  BY <1>2 DEF CopyIInv, OneWorkerPerKey
<1> DEFINE Others == /\ \A x \in Workers : x # w => wk'[x] = wk[x]
                     /\ \A u \in Owners : u # v => /\ api'[u] = api[u] /\ svc'[u] = svc[u]
                                                   /\ slice'[u] = slice[u] /\ proxy'[u] = proxy[u]
                                                   /\ u \in dirty => u \in dirty'
                     /\ UNCHANGED lister
<1>6. Complete(api[v])
  BY DEF ReadyIInv
<1>7. ASSUME Others, Complete(api'[v]), wk'[w].key = v, wk'[w] # Idle, WorkerCarries(w)' PROVE ReadyIInv'
  BY <1>1, <1>5, <1>7, <1>2, CarriesOfKey
<1>8. ASSUME Others, Complete(api'[v]), wk'[w] = Idle, Settled(v)' PROVE ReadyIInv'
  <2>1. ~Working(w)'
    BY <1>8 DEF Working, Idle
  <2> QED BY <1>1, <1>5, <1>8, <1>2, <2>1, CarriesOfKey
<1>9. Idle.pc = "idle"
  BY DEF Idle
<1> HIDE DEF Others
<1>10. CASE addFinalizer(w)
  <2>1. Others
    BY <1>1, <1>10, FinalizerIs DEF Others, haproxyVars
  <2>2. CASE wk'[w] = Idle /\ v \in dirty' /\ api' = api
    <3>1. Settled(v)'
      BY <2>2 DEF Settled, Pending
    <3> QED BY <1>6, <1>8, <2>1, <2>2, <3>1
  <2>3. CASE ~(wk'[w] = Idle /\ v \in dirty' /\ api' = api)
    <3>1. /\ api[v] \in VirtualServices /\ api'[v] = [api[v] EXCEPT !.fin = TRUE]
          /\ wk'[w].pc = "ports" /\ wk'[w].key = v /\ wk'[w].base = base
          /\ wk'[w].obj = [obj EXCEPT !.fin = TRUE]
      BY <1>1, <1>10, <2>3, FinalizerIs
    <3>2. /\ api'[v].cond = api[v].cond /\ api'[v].ports = api[v].ports /\ api'[v].spec = api[v].spec
          /\ api'[v].gen = api[v].gen /\ api'[v].obs = api[v].obs /\ wk'[w].obj.ports = obj.ports
      BY <3>1 DEF VirtualServices
    <3>3. Complete(api'[v])
      BY <1>6, <3>1, <3>2, AbsentAssumption DEF Complete, Reported
    <3>4. WorkerCarries(w)'
      BY <1>4, <3>1, <3>2 DEF WorkerCarries
    <3> QED BY <1>7, <1>9, <2>1, <3>1, <3>3, <3>4
  <2> QED BY <2>2, <2>3
<1>11. CASE validateAndCheckPorts(w) \/ allocatePort(w)
  <2>1. Others /\ UNCHANGED api
    BY <1>1, <1>11, AllocationIs DEF Others, haproxyVars, objVars
  <2>2. wk'[w].key = v /\ wk'[w].base = base
    BY <1>1, <1>11, AllocationIs
  <2>3. \/ wk'[w].pc = "service" /\ wk'[w].obj = obj
        \/ wk'[w].pc = "service" /\ wk[w].pc = "allocate"
        \/ wk'[w].pc = "allocate" /\ wk'[w].obj = obj /\ (wk[w].pc = "allocate" \/ DOMAIN obj.ports # obj.spec)
        \/ wk'[w].pc = "status" /\ wk'[w].cond # "Ready" /\ wk'[w].obj = obj
    BY <1>1, <1>11, AllocationIs
  <2>4. Reported(base) => DOMAIN obj.ports = obj.spec
    BY <1>3, <1>4, AbsentAssumption DEF Complete
  <2>5. WorkerCarries(w)'
    BY <1>4, <2>2, <2>3, <2>4 DEF WorkerCarries
  <2>6. wk'[w] # Idle /\ Complete(api'[v])
    BY <1>6, <1>9, <2>1, <2>3
  <2> QED BY <1>7, <2>1, <2>2, <2>5, <2>6
<1>12. CASE ensureGeneratedService(w)
  <2>1. Others /\ UNCHANGED api
    BY <1>1, <1>12, ServiceIs DEF Others, haproxyVars
  <2>2. /\ wk'[w].key = v /\ wk'[w].base = base /\ wk'[w].obj = obj
        /\ \/ /\ wk'[w].pc = "slice" /\ svc'[v] # Absent /\ svc'[v].owner = obj.uid
              /\ svc'[v].ports = obj.ports
           \/ wk'[w].pc = "status" /\ wk'[w].cond # "Ready"
    BY <1>1, <1>12, ServiceIs
  <2>3. WorkerCarries(w)'
    BY <1>4, <2>2 DEF WorkerCarries, ServiceCarries
  <2>4. wk'[w] # Idle /\ Complete(api'[v])
    BY <1>6, <1>9, <2>1, <2>2
  <2> QED BY <1>7, <2>1, <2>2, <2>3, <2>4
<1>13. CASE ensureEndpointSlice(w)
  <2>1. Others /\ UNCHANGED <<api, svc>> /\ wk[w].pc = "slice"
    BY <1>1, <1>13, SliceIs DEF Others, haproxyVars
  <2>2. /\ wk'[w].key = v /\ wk'[w].base = base /\ wk'[w].obj = obj
        /\ \/ /\ wk'[w].pc = "proxy" /\ slice'[v] # Absent /\ slice'[v].owner = obj.uid
              /\ slice'[v].ports = obj.ports
           \/ wk'[w].pc = "status" /\ wk'[w].cond # "Ready"
    BY <1>1, <1>13, SliceIs
  <2>3. ServiceCarries(v, obj)'
    BY <1>4, <2>1 DEF ServiceCarries
  <2>4. WorkerCarries(w)'
    BY <1>4, <2>2, <2>3 DEF WorkerCarries, SliceCarries
  <2>5. wk'[w] # Idle /\ Complete(api'[v])
    BY <1>6, <1>9, <2>1, <2>2
  <2> QED BY <1>7, <2>1, <2>2, <2>4, <2>5
<1>14. CASE configureHAProxy(w)
  <2>1. Others /\ UNCHANGED <<api, svc, slice>> /\ wk[w].pc = "proxy"
    BY <1>1, <1>14, ConfigureIs DEF Others, objVars
  <2>2. /\ wk'[w].key = v /\ wk'[w].base = base /\ wk'[w].obj = obj /\ wk'[w].pc = "status"
    BY <1>1, <1>14, ConfigureIs
  <2>3. \A s \in DOMAIN wk[w].obj.ports : /\ s \in DOMAIN proxy'[v] /\ proxy'[v][s].port = wk[w].obj.ports[s]
                                          /\ proxy'[v][s].servers = wk[w].pods
    BY <1>1, <1>14, ConfigureIs
  <2>4. Carried(v, obj)'
    BY <1>3, <1>4, <2>1, <2>3 DEF Carried, ServiceCarries, SliceCarries, FrontendsCarry
  <2>5. WorkerCarries(w)'
    BY <1>4, <2>2, <2>4 DEF WorkerCarries
  <2>6. wk'[w] # Idle /\ Complete(api'[v])
    BY <1>6, <1>9, <2>1, <2>2
  <2> QED BY <1>7, <2>1, <2>2, <2>5, <2>6
<1>15. CASE setConditionAndUpdate(w)
  <2>1. /\ Others /\ wk'[w] = Idle /\ wk[w].pc = "status" /\ dirty \subseteq dirty'
        /\ UNCHANGED <<lister, svc, slice, proxy>>
    BY <1>1, <1>15, StatusIs, ZenonT(60) DEF Others, haproxyVars
  <2>2. \A c : Carried(v, c)' = Carried(v, c)
    BY <2>1 DEF Carried, ServiceCarries, SliceCarries, FrontendsCarry
  <2>3. CASE v \in dirty' /\ api' = api
    <3>1. Settled(v)'
      BY <2>3 DEF Settled, Pending
    <3> QED BY <1>6, <1>8, <2>1, <2>3, <3>1
  <2>4. CASE v \notin dirty' /\ obj.cond = wk[w].cond /\ obj.obs = obj.gen /\ api' = api
    <3>1. base = lister[v]
      BY <1>3, <2>1, <2>4
    <3>2. CASE lister'[v] # api'[v]
      <4>1. Settled(v)'
        BY <3>2 DEF Settled, Pending
      <4> QED BY <1>6, <1>8, <2>1, <2>4, <4>1
    <3>3. CASE lister'[v] = api'[v]
      <4>1. api'[v] = base
        BY <2>1, <3>1, <3>3
      <4>2. base.cond = "Ready" => Carried(v, base)
        BY <1>3, <1>4, <2>1, <2>4, ZenonT(60) DEF Reported, Carried, ServiceCarries, SliceCarries, FrontendsCarry
      <4>3. Settled(v)'
        BY <2>2, <4>1, <4>2 DEF Settled, ReadyNow
      <4> QED BY <1>6, <1>8, <2>1, <2>4, <4>3
    <3> QED BY <3>2, <3>3
  <2>5. CASE ~(v \in dirty' /\ api' = api) /\ ~(obj.cond = wk[w].cond /\ obj.obs = obj.gen /\ api' = api)
    <3>1. /\ api[v] = base
          /\ api'[v] = [api[v] EXCEPT !.ports = wk[w].obj.ports, !.cond = wk[w].cond,
                                      !.obs = wk[w].obj.gen]
      BY <1>1, <1>15, <2>5, StatusIs
    <3>2. PICK c : c = api'[v]
      OBVIOUS
    <3>3. /\ c.cond = wk[w].cond /\ c.spec = obj.spec /\ c.uid = obj.uid /\ c.ports = obj.ports
          /\ c.obs = obj.gen /\ c.gen = obj.gen
      BY <1>3, <3>1, <3>2 DEF VirtualServices
    <3>4. Complete(api'[v])
      <4>1. obj.gen \in Nat
        BY DEF VirtualServices
      <4> QED BY <1>3, <2>1, <3>2, <3>3, <4>1 DEF Complete, Reported
    <3>5. wk[w].cond = "Ready" => Carried(v, c)
      BY <1>4, <2>1, <3>3 DEF Carried, ServiceCarries, SliceCarries, FrontendsCarry
    <3>6. Settled(v)'
      BY <2>2, <3>2, <3>3, <3>5 DEF Settled, ReadyNow
    <3> QED BY <1>8, <2>1, <3>4, <3>6
  <2> QED BY <2>3, <2>4, <2>5
<1>16. CASE removeHAProxy(w) \/ releaseAndDeleteObjects(w)
  <2>1. Others /\ UNCHANGED api
    BY <1>1, <1>16, FinalizationIs DEF Others
  <2>2. /\ wk'[w].key = v /\ wk'[w].base = base /\ wk'[w].obj = obj
        /\ wk'[w].pc \in {"release", "unfinalize"}
    BY <1>1, <1>16, FinalizationIs
  <2>3. WorkerCarries(w)'
    BY <1>4, <2>2 DEF WorkerCarries
  <2>4. wk'[w] # Idle /\ Complete(api'[v])
    BY <1>6, <1>9, <2>1, <2>2
  <2> QED BY <1>7, <2>1, <2>2, <2>3, <2>4
<1>17. CASE removeFinalizer(w)
  <2>1. Others /\ wk'[w] = Idle
    BY <1>1, <1>17, UnfinalizeIs DEF Others, haproxyVars
  <2>2. (v \in dirty' /\ api' = api) \/ api'[v] = Absent
    BY <1>1, <1>17, UnfinalizeIs
  <2>3. Complete(api'[v]) /\ Settled(v)'
    BY <1>6, <2>2 DEF Complete, Settled, Pending, ReadyNow, Live
  <2> QED BY <1>8, <2>1, <2>3
<1> QED BY <1>10, <1>11, <1>12, <1>13, <1>14, <1>15, <1>16, <1>17 DEF Work

\* Every step keeps what Ready VirtualServices are made of.
LEMMA NextCarries ==
    ASSUME "service" \notin UserOps, NodePorts = FALSE, ProxyFaults = FALSE,
           CopyIInv, StampsKnown, HeldIInv, ReadyIInv, [Next]_vars
    PROVE  ReadyIInv'
<1>1. TypeIInv /\ api \in [Owners -> VirtualServices \cup {Absent}]
      /\ svc \in [Owners -> Services \cup {Absent}]
  BY DEF CopyIInv, TypeIInv, ObjectsOK
<1>0. userOps \in Nat
  BY <1>1 DEF TypeIInv, BoundsOK
<1>2. CASE UNCHANGED vars
  <2>1. UNCHANGED <<wk, slice, proxy, dirty, svc, api, lister>>
    BY <1>2 DEF vars, haproxyVars, objVars
  <2>2. \A v \in Owners : Complete(api'[v]) /\ Complete(lister'[v])
    BY <2>1 DEF ReadyIInv
  <2> QED BY <1>1, <2>1, <2>2, CarriesKept
<1>3. CASE Users
  <2>1. UNCHANGED <<wk, proxy, dirty, lister>>
    BY <1>3 DEF Users, CreateVirtualService, EditVirtualService, DeleteVirtualService, ReplaceService,
                CreateEndpointSlice, PodStep, userUnchanged, haproxyVars, objVars
  <2>2. UNCHANGED <<svc, slice>>
    BY <1>3 DEF Users, CreateVirtualService, EditVirtualService, DeleteVirtualService, ReplaceService,
                CreateEndpointSlice, PodStep, objVars
  <2>3. ASSUME NEW v \in Owners PROVE api'[v] = api[v] \/ lister'[v] # api'[v] \/ ~ReadyNow(v)'
    BY <1>1, <1>3, UserBackends
  <2>4. ASSUME NEW u \in Owners PROVE Complete(api'[u])
    <3>1. ASSUME NEW v \in Owners, CreateVirtualService(v) PROVE Complete(api'[u])
      <4>1. PICK spec \in Specs : api' = [api EXCEPT ![v] = NewVirtualService(spec, userOps')]
        BY <3>1 DEF CreateVirtualService
      <4>2. api'[v] = NewVirtualService(spec, userOps') /\ (u # v => api'[u] = api[u])
        BY <1>1, <4>1, ApiSet
      <4>3. api'[v].cond = "None" /\ api'[v].obs = 0 /\ api'[v].gen = userOps + 1
        BY <3>1, <4>2 DEF NewVirtualService, CreateVirtualService, UserStep
      <4>4. u # v => api'[u] = api[u]
        BY <4>2
      <4> QED BY <1>0, <4>3, <4>4 DEF Complete, Reported, ReadyIInv
    <3>2. ASSUME NEW v \in Owners, DeleteVirtualService(v) PROVE Complete(api'[u])
      <4>1. api[v] \in VirtualServices
        BY <1>1, <3>2 DEF DeleteVirtualService
      <4>2. /\ api'[v] = IF api[v].fin THEN [api[v] EXCEPT !.deleting = TRUE] ELSE Absent
            /\ u # v => api'[u] = api[u]
        BY <1>1, <3>2 DEF DeleteVirtualService
      <4>3. \/ api'[v] = Absent
            \/ /\ api'[v].cond = api[v].cond /\ api'[v].spec = api[v].spec
               /\ api'[v].ports = api[v].ports /\ api'[v].gen = api[v].gen /\ api'[v].obs = api[v].obs
        BY <4>1, <4>2 DEF VirtualServices
      <4>4. u # v => api'[u] = api[u]
        BY <4>2
      <4> QED BY <4>1, <4>3, <4>4, AbsentAssumption DEF Complete, Reported, ReadyIInv
    <3>4. ASSUME NEW v \in Owners, EditVirtualService(v) PROVE Complete(api'[u])
      <4>1. api[v] \in VirtualServices /\ userOps' = userOps + 1
        BY <1>1, <3>4 DEF EditVirtualService, UserStep
      <4>2. PICK spec \in Specs : api' = [api EXCEPT ![v] = [api[v] EXCEPT !.spec = spec, !.gen = userOps']]
        BY <3>4 DEF EditVirtualService
      <4>3. /\ api'[v] = [api[v] EXCEPT !.spec = spec, !.gen = userOps']
            /\ u # v => api'[u] = api[u]
        BY <1>1, <4>2, ApiSet
      <4>4. api'[v].gen = userOps + 1 /\ api'[v].obs = api[v].obs
        BY <4>1, <4>3 DEF VirtualServices
      <4>5. /\ api[v].obs \in Nat /\ api[v].gen \in Nat
            /\ api[v].obs <= api[v].gen /\ api[v].gen <= userOps
        BY <4>1, AbsentAssumption DEF VirtualServices, ReadyIInv, Complete, StampsKnown
      <4>6. api'[v].obs <= api'[v].gen /\ api'[v].obs # api'[v].gen
        BY <1>0, <4>4, <4>5
      <4>7. u # v => api'[u] = api[u]
        BY <4>3
      <4> QED BY <4>6, <4>7 DEF Complete, Reported, ReadyIInv
    <3>3. \/ \E v \in Owners : CreateVirtualService(v) \/ EditVirtualService(v) \/ DeleteVirtualService(v)
          \/ api' = api
      BY <1>3 DEF Users, ReplaceService, CreateEndpointSlice, PodStep, objVars
    <3> QED BY <3>1, <3>2, <3>3, <3>4 DEF ReadyIInv
  <2>5. \A v \in Owners : Complete(api'[v]) /\ Complete(lister'[v])
    BY <2>1, <2>4 DEF ReadyIInv
  <2> QED BY <1>1, <2>1, <2>2, <2>3, <2>5, CarriesKept
<1>4. CASE Deliver
  <2>1. UNCHANGED <<wk, slice, proxy, api>> /\ dirty \subseteq dirty'
    BY <1>4 DEF Deliver, enqueueVirtualService, ServiceInformer, CollectService, handlePodEvent,
                handleTombstone, enqueueVirtualServicesForPod, userUnchanged, haproxyVars, objVars
  <2>2. \A v \in Owners : svc'[v] = svc[v] \/ Orphaned(v)
    <3>1. svc' = svc \/ \E u \in Owners : CollectService(u)
      BY <1>4 DEF Deliver, enqueueVirtualService, ServiceInformer, handlePodEvent,
                  handleTombstone, enqueueVirtualServicesForPod, objVars
    <3>2. ASSUME NEW u \in Owners, CollectService(u) PROVE \A v \in Owners : svc'[v] = svc[v] \/ Orphaned(v)
      BY <1>1, <3>2 DEF CollectService
    <3> QED BY <3>1, <3>2
  <2>3. \A v \in Owners : lister'[v] = lister[v] \/ (lister'[v] = api[v] /\ v \in dirty')
    <3>1. lister' = lister \/ \E u \in Owners : enqueueVirtualService(u)
      BY <1>4 DEF Deliver, ServiceInformer, CollectService, handlePodEvent,
                  handleTombstone, enqueueVirtualServicesForPod, userUnchanged, objVars
    <3>2. ASSUME NEW u \in Owners, enqueueVirtualService(u)
          PROVE  \A v \in Owners : lister'[v] = lister[v] \/ (lister'[v] = api[v] /\ v \in dirty')
      BY <1>1, <3>2 DEF enqueueVirtualService, TypeIInv, ObjectsOK
    <3> QED BY <3>1, <3>2
  <2>4. \A v \in Owners : Complete(api'[v]) /\ Complete(lister'[v])
    BY <2>1, <2>3 DEF ReadyIInv
  <2> QED BY <1>1, <2>1, <2>2, <2>3, <2>4, CarriesKept
<1>5. ASSUME NEW w \in Workers, Work(w) PROVE ReadyIInv'
  BY <1>5, StartCarries, WorkCarries
<1>6. CASE Restart
  <2>1. /\ api' = api /\ lister' = api /\ dirty' = {v \in Owners : api[v] # Absent}
        /\ \A w \in Workers : wk'[w] = Idle
    BY <1>6 DEF Restart
  <2>2. \A v \in Owners : Complete(api'[v]) /\ Complete(lister'[v])
    BY <2>1 DEF ReadyIInv
  <2>3. \A v \in Owners : Settled(v)'
    BY <2>1 DEF Settled, ReadyNow, Live, Pending
  <2>4. \A w \in Workers : ~Working(w)'
    BY <2>1 DEF Working, Idle
  <2> QED BY <2>2, <2>3, <2>4 DEF ReadyIInv
<1> QED BY <1>2, <1>3, <1>4, <1>5, <1>6 DEF Next

LEMMA InitCarries == Init => ReadyIInv
<1> SUFFICES ASSUME Init PROVE ReadyIInv
  OBVIOUS
<1>1. /\ \A v \in Owners : api[v] = Absent /\ lister[v] = Absent
      /\ \A w \in Workers : ~Working(w)
  BY DEF Init, Working, Idle
<1> QED BY <1>1 DEF ReadyIInv, Complete, Settled, ReadyNow, Live

LEMMA RestIsConfigured == ReadyIInv => ReadyIsConfigured
<1> SUFFICES ASSUME ReadyIInv, Quiescent, NEW v \in Owners, Live(v), api[v].cond = "Ready"
             PROVE  /\ DOMAIN api[v].ports = api[v].spec
                    /\ svc[v] # Absent /\ svc[v].ports = api[v].ports
                    /\ slice[v] # Absent /\ slice[v].ports = api[v].ports
                    /\ \A s \in api[v].spec : s \in DOMAIN proxy[v] /\ proxy[v][s].port = api[v].ports[s]
  BY DEF ReadyIsConfigured
<1>1. dirty = {} /\ lister = api /\ \A w \in Workers : wk[w] = Idle
  BY DEF Quiescent
<1>2. Carried(v, api[v])
  BY <1>1 DEF ReadyIInv, Settled, Pending, ReadyNow
<1> QED BY <1>2 DEF Carried, ServiceCarries, SliceCarries, FrontendsCarry

\* At rest a Ready VirtualService is what its status says: Service, EndpointSlice and HAProxy
\* carry exactly the recorded ports of its spec (reconcile and setConditionAndUpdate), through
\* edits, deletions and restarts, when Services are ClusterIP ones, no user puts a Service or
\* an EndpointSlice in the way, and the Data Plane API answers.
THEOREM ReadyIsAlwaysConfigured ==
    ASSUME "service" \notin UserOps, NodePorts = FALSE, ProxyFaults = FALSE
    PROVE  Spec => []ReadyIsConfigured
<1> DEFINE IInv == CopyIInv /\ StampsKnown /\ HeldIInv /\ ReadyIInv
<1>1. Init => IInv
  BY InitCopies, InitBackends, InitHeld, InitCarries
<1>2. IInv /\ [Next]_vars => IInv'
  <2> SUFFICES ASSUME IInv, [Next]_vars PROVE IInv'
    OBVIOUS
  <2>1. CopyIInv'
    BY NextCopies
  <2>2. StampsKnown' /\ HeldIInv'
    BY <2>1, NextStamps, NextHeld DEF CopyIInv
  <2>3. ReadyIInv'
    BY NextCarries
  <2> QED BY <2>1, <2>2, <2>3
<1>3. IInv => ReadyIsConfigured
  BY RestIsConfigured
<1> QED BY <1>1, <1>2, <1>3, PTL DEF Spec
=============================================================================
