------------------------- MODULE GatewayController -------------------------
(***************************************************************************)
(* internal/gateway/controller.go and reconcile.go: the controller that      *)
(* turns VirtualService objects into gateway ports, generated Services and   *)
(* HAProxy listeners.  Workers take keys from a rate-limited work queue and  *)
(* run reconcile step by step; between two steps the user edits objects, the *)
(* informers deliver (or delay) what the API server holds, pods come and go, *)
(* other workers reconcile other keys, and the controller may be restarted.  *)
(*                                                                           *)
(* External, modelled from how the code uses it: the Kubernetes API server   *)
(* (optimistic concurrency: an update carrying an old copy is refused), the  *)
(* shared informers, and the client-go work queue (a key is never given to   *)
(* two workers; a key added while it is being worked on is queued again).    *)
(***************************************************************************)
EXTENDS Naturals, Sequences, FiniteSets, HAProxyManager

CONSTANTS
    Workers,       \* reconcile goroutines (Run's `workers`)
    InvalidPorts,  \* spec ports that validateVirtualService refuses
    Pods,          \* virtual pods
    Labels,        \* label sets pods can carry
    Selected,      \* Selected[v]: the labels VirtualService v's selector matches
    Absent,        \* no such object
    NodePorts,     \* whether specs ask for type NodePort and give every nodePort
    MaxUserOps,    \* bound: operations on VirtualServices and Services by users
    MaxPodOps,     \* bound: changes of pods
    MaxRestarts,   \* bound: restarts of the controller
    UserOps,       \* which operations users perform: subset of AllUserOps
    PodOps         \* which changes pods undergo: subset of AllPodOps

AllUserOps == {"edit", "delete", "service"}
AllPodOps == {"relabel", "delete", "relist"}

ASSUME GatewayAssumption ==
    /\ InvalidPorts \subseteq SvcPorts /\ SvcPorts \subseteq Nat
    /\ UserOps \subseteq AllUserOps /\ PodOps \subseteq AllPodOps
    /\ Selected \in [Owners -> SUBSET Labels]
    /\ Absent \notin Labels /\ NodePorts \in BOOLEAN /\ ProxyFaults \in BOOLEAN
    /\ MaxUserOps \in Nat /\ MaxPodOps \in Nat /\ MaxRestarts \in Nat

VARIABLES
    api,           \* VirtualService objects in the API server
    lister,        \* what vsLister returns for each key
    svc,           \* generated (or user's) Service of the same name
    svcLister,     \* what serviceLister returns
    slice,         \* EndpointSlice of the same name, always read from the API server
    podApi,        \* pods in the API server: [label, deleting] or Absent
    podEvents,     \* versions of a pod its watch has not delivered yet
    podSeen,       \* what the pod informer has delivered
    podCache,      \* Controller.virtualPods: the label of each cached pod
    vsCache,       \* keys of Controller.virtualServices
    notifying,     \* the label handlePodEvent still has to enqueue for, or Absent
    dirty,         \* work queue: keys waiting to be processed
    wk,            \* the workers
    userOps, podOps, restarts   \* what the bounds count

objVars == <<api, lister, svc, svcLister, slice>>
podVars == <<podApi, podEvents, podSeen, podCache, notifying>>
boundVars == <<userOps, podOps, restarts>>
vars == <<allocVars, haproxyVars, objVars, podVars, vsCache, dirty, wk, boundVars>>

Foreign == 0      \* owner of a Service that no VirtualService owns

-----------------------------------------------------------------------------
\* A VirtualService: uid and gen are stamps of the user operation that created
\* the object and that last changed its spec.
NewVirtualService(spec, stamp) ==
    [uid |-> stamp, gen |-> stamp, spec |-> spec, deleting |-> FALSE, fin |-> FALSE,
     ports |-> NoEntries, cond |-> "None", obs |-> 0]

Specs == (SUBSET SvcPorts) \ {{}}

PortMaps == UNION {[S -> Ports] : S \in SUBSET SvcPorts}

Conditions == {"None", "Ready", "UnsupportedSpec", "PortAllocationError",
               "ServiceConflict", "ReconcileError"}

VirtualServices ==
    [uid : 1 .. MaxUserOps, gen : 1 .. MaxUserOps, spec : Specs, deleting : BOOLEAN,
     fin : BOOLEAN, ports : PortMaps, cond : Conditions, obs : 0 .. MaxUserOps]

\* rv, the resourceVersion, flips at every update: a lister is at most one behind.
Services == [owner : 0 .. MaxUserOps, ports : PortMaps, rv : 0 .. 1]

EndpointSlices == [owner : 0 .. MaxUserOps, ports : PortMaps]

PodObjects == [label : Labels, deleting : BOOLEAN]

ASSUME AbsentAssumption == Absent \notin VirtualServices \cup PodObjects

ASSUME NoServiceAssumption == Absent \notin Services \cup EndpointSlices

RangeOf(f) == {f[x] : x \in DOMAIN f}

Idle == [pc |-> "idle"]

Processing == {wk[w].key : w \in {x \in Workers : wk[x] # Idle}}

Init ==
    /\ NewAllocator
    /\ NewManager
    /\ api = [v \in Owners |-> Absent] /\ lister = api
    /\ svc = [v \in Owners |-> Absent] /\ svcLister = svc /\ slice = svc
    /\ podApi = [p \in Pods |-> Absent] /\ podSeen = podApi /\ podCache = podApi
    /\ podEvents = [p \in Pods |-> <<>>]
    /\ vsCache = {} /\ dirty = {} /\ notifying = Absent
    /\ wk = [w \in Workers |-> Idle]
    /\ userOps = 0 /\ podOps = 0 /\ restarts = 0

-----------------------------------------------------------------------------
\* The users and the cluster.

UserStep == userOps < MaxUserOps /\ userOps' = userOps + 1

userUnchanged == <<allocVars, haproxyVars, lister, svcLister, podVars, vsCache, dirty, wk,
                   podOps, restarts>>

CreateVirtualService(v) ==
    /\ UserStep /\ api[v] = Absent
    /\ \E spec \in Specs : api' = [api EXCEPT ![v] = NewVirtualService(spec, userOps')]
    /\ UNCHANGED <<svc, slice, userUnchanged>>

EditVirtualService(v) ==
    /\ "edit" \in UserOps /\ UserStep
    /\ api[v] # Absent /\ ~api[v].deleting
    /\ \E spec \in Specs \ {api[v].spec} :
         api' = [api EXCEPT ![v].spec = spec, ![v].gen = userOps']
    /\ UNCHANGED <<svc, slice, userUnchanged>>

\* A finalizer keeps the object, marked, until the controller removes it.
DeleteVirtualService(v) ==
    /\ "delete" \in UserOps /\ UserStep
    /\ api[v] # Absent /\ ~api[v].deleting
    /\ api' = [api EXCEPT ![v] = IF @.fin THEN [@ EXCEPT !.deleting = TRUE] ELSE Absent]
    /\ UNCHANGED <<svc, slice, userUnchanged>>

\* A user puts a Service of their own in the place of no Service, or replaces the
\* generated one.
ReplaceService(v) ==
    /\ "service" \in UserOps /\ UserStep
    /\ ~(svc[v] # Absent /\ svc[v].owner = Foreign)
    /\ svc' = [svc EXCEPT ![v] = [owner |-> Foreign, ports |-> NoEntries, rv |-> 0]]
    /\ UNCHANGED <<api, slice, userUnchanged>>

\* A user creates an EndpointSlice of that name.
CreateEndpointSlice(v) ==
    /\ "service" \in UserOps /\ UserStep
    /\ slice[v] = Absent
    /\ slice' = [slice EXCEPT ![v] = [owner |-> Foreign, ports |-> NoEntries]]
    /\ UNCHANGED <<api, svc, userUnchanged>>

\* The Kubernetes garbage collector deletes a Service whose owner is gone.  (An
\* EndpointSlice never is left over: finalization reads it from the API server.)
Orphaned(v) == /\ svc[v] # Absent /\ svc[v].owner # Foreign
               /\ ~(api[v] # Absent /\ api[v].uid = svc[v].owner)

CollectService(v) ==
    /\ Orphaned(v)
    /\ svc' = [svc EXCEPT ![v] = Absent]
    /\ UNCHANGED <<api, slice, userUnchanged, userOps>>

\* A pod is created, changes its labels, is marked for deletion, and goes.
PodStep(p) ==
    /\ podOps < MaxPodOps /\ podOps' = podOps + 1
    /\ \/ /\ podApi[p] = Absent
          /\ \E l \in Labels : podApi' = [podApi EXCEPT ![p] = [label |-> l, deleting |-> FALSE]]
       \/ /\ "relabel" \in PodOps /\ podApi[p] # Absent
          /\ \E l \in Labels \ {podApi[p].label} : podApi' = [podApi EXCEPT ![p].label = l]
       \/ /\ "delete" \in PodOps /\ podApi[p] # Absent
          /\ podApi' = [podApi EXCEPT ![p] = IF @.deleting THEN Absent ELSE [@ EXCEPT !.deleting = TRUE]]
    /\ podEvents' = [podEvents EXCEPT ![p] = Append(@, podApi'[p])]
    /\ UNCHANGED <<allocVars, haproxyVars, objVars, podSeen, podCache, notifying, vsCache,
                   dirty, wk, userOps, restarts>>

-----------------------------------------------------------------------------
\* Informers.  Every delivery of a VirtualService enqueues its key; Services have
\* no handler.

\* A handler registered for additions only.
enqueueAddedVirtualService(v) ==
    /\ lister[v] # api[v]
    /\ lister' = [lister EXCEPT ![v] = api[v]]
    /\ dirty' = IF lister[v] = Absent THEN dirty \cup {v} ELSE dirty
    /\ UNCHANGED <<allocVars, haproxyVars, api, svc, svcLister, slice, podVars, vsCache, wk, boundVars>>

enqueueVirtualService(v) ==
    /\ lister[v] # api[v]
    /\ lister' = [lister EXCEPT ![v] = api[v]]
    /\ dirty' = dirty \cup {v}
    /\ UNCHANGED <<allocVars, haproxyVars, api, svc, svcLister, slice, podVars, vsCache, wk, boundVars>>

ServiceInformer(v) ==
    /\ svcLister[v] # svc[v]
    /\ svcLister' = [svcLister EXCEPT ![v] = svc[v]]
    /\ UNCHANGED <<allocVars, haproxyVars, api, lister, svc, slice, podVars, vsCache, dirty, wk, boundVars>>

\* handlePodEvent, first half: updateVirtualPodCache.  The event of a pod that is
\* gone carries its last state.
handlePodEvent(p) ==
    /\ notifying = Absent /\ podEvents[p] # <<>>
    /\ LET new == Head(podEvents[p])
           pod == IF new = Absent THEN podSeen[p] ELSE new
       IN /\ podSeen' = [podSeen EXCEPT ![p] = new]
          /\ podEvents' = [podEvents EXCEPT ![p] = Tail(@)]
          /\ podCache' = [podCache EXCEPT ![p] = IF pod.deleting THEN Absent ELSE pod.label]
          /\ notifying' = pod.label
    /\ UNCHANGED <<allocVars, haproxyVars, objVars, podApi, vsCache, dirty, wk, boundVars>>

\* The watch broke and the informer listed the pods anew: a pod it knew is gone and
\* the handler gets a tombstone, which is not a *Pod, so it returns at once.
handleTombstone(p) ==
    /\ "relist" \in PodOps
    /\ podSeen[p] # Absent /\ podApi[p] = Absent /\ podEvents[p] # <<>>
    /\ podSeen' = [podSeen EXCEPT ![p] = Absent]
    /\ podEvents' = [podEvents EXCEPT ![p] = <<>>]
    /\ UNCHANGED <<allocVars, haproxyVars, objVars, podApi, podCache, notifying, vsCache, dirty, wk, boundVars>>

\* An enqueue that skips the keys being worked on, as if they were up to date.
enqueueIdleVirtualServicesForPod ==
    /\ notifying # Absent
    /\ dirty' = dirty \cup {v \in vsCache \ Processing : notifying \in Selected[v]}
    /\ notifying' = Absent
    /\ UNCHANGED <<allocVars, haproxyVars, objVars, podApi, podEvents, podSeen, podCache, vsCache, wk, boundVars>>

\* handlePodEvent, second half: every cached VirtualService whose selector matches
\* the labels in the event.
enqueueVirtualServicesForPod ==
    /\ notifying # Absent
    /\ dirty' = dirty \cup {v \in vsCache : notifying \in Selected[v]}
    /\ notifying' = Absent
    /\ UNCHANGED <<allocVars, haproxyVars, objVars, podApi, podEvents, podSeen, podCache, vsCache, wk, boundVars>>

-----------------------------------------------------------------------------
\* A worker.  wk[w] holds its program counter, its key, the copy of the object it
\* works on (obj) and that copy as it was read (base): an update succeeds only
\* while the API server still holds base.

At(w, pc) == wk[w].pc = pc
Goto(w, pc) == wk' = [wk EXCEPT ![w].pc = pc]
Fresh(w) == api[wk[w].key] = wk[w].base

\* processNextWorkItem: an error puts the key back (AddRateLimited).
Finish(w, err) ==
    /\ wk' = [wk EXCEPT ![w] = Idle]
    /\ dirty' = IF err THEN dirty \cup {wk[w].key} ELSE dirty

\* setConditionAndUpdate is entered with condition c.
Report(w, obj, c) == wk' = [wk EXCEPT ![w] = [@ EXCEPT !.pc = "status", !.obj = obj, !.cond = c]]

workerUnchanged == <<podVars, boundVars>>

processNextWorkItem(w) ==
    /\ At(w, "idle")
    /\ \E v \in dirty \ Processing :
         /\ dirty' = dirty \ {v}
         /\ wk' = [wk EXCEPT ![w] = [pc |-> "read", key |-> v, obj |-> Absent, base |-> Absent,
                                     got |-> NoEntries, pods |-> {}, cond |-> "None"]]
    /\ UNCHANGED <<allocVars, haproxyVars, objVars, vsCache, workerUnchanged>>

\* reconcile up to the finalizer.
reconcile(w) ==
    /\ At(w, "read")
    /\ LET v == wk[w].key IN
         \/ /\ lister[v] = Absent
            /\ vsCache' = vsCache \ {v}
            /\ Finish(w, FALSE)
         \/ /\ lister[v] # Absent
            /\ vsCache' = vsCache \cup {v}
            /\ \/ lister[v].deleting /\ ~lister[v].fin /\ Finish(w, FALSE)
               \/ /\ ~lister[v].deleting \/ lister[v].fin
                  /\ wk' = [wk EXCEPT ![w] =
                              [@ EXCEPT !.obj = lister[v], !.base = lister[v],
                                        !.pc = IF lister[v].deleting THEN "remove"
                                               ELSE IF lister[v].fin THEN "ports" ELSE "finalizer"]]
                  /\ UNCHANGED dirty
    /\ UNCHANGED <<allocVars, haproxyVars, objVars, workerUnchanged>>

\* The finalizer is added with an Update whose result is discarded: the worker goes
\* on with a copy the API server has already replaced.
addFinalizer(w) ==
    /\ At(w, "finalizer")
    /\ \/ /\ Fresh(w)
          /\ api' = [api EXCEPT ![wk[w].key].fin = TRUE]
          /\ wk' = [wk EXCEPT ![w] = [@ EXCEPT !.pc = "ports", !.obj.fin = TRUE]]
          /\ UNCHANGED dirty
       \/ /\ ~Fresh(w)
          /\ Finish(w, TRUE)
          /\ UNCHANGED api
    /\ UNCHANGED <<allocVars, haproxyVars, lister, svc, svcLister, slice, vsCache, workerUnchanged>>

\* A reallocation that trusts the status more than the allocator: it releases the
\* ports without asking whose they are.
ReleaseEachUnchecked(o, ps) ==
    /\ allocated' = [p \in Ports |-> IF p \in ps THEN Free ELSE allocated[p]]
    /\ ownerPorts' = [x \in Owners |-> ownerPorts[x] \ ps]

\* Release called for each port of a list.
ReleaseEach(o, ps) ==
    LET mine == {p \in ps : Owns(o, p)} IN
    /\ allocated' = [p \in Ports |-> IF p \in mine THEN Free ELSE allocated[p]]
    /\ ownerPorts' = [ownerPorts EXCEPT ![o] = @ \ mine]

\* validateVirtualService, then ensurePortAllocations up to the first Allocate: the
\* recorded ports are reused, unregistered, when they are those of the spec.
validateAndCheckPorts(w) ==
    /\ At(w, "ports")
    /\ LET obj == wk[w].obj IN
         \/ /\ obj.spec \cap InvalidPorts # {}
            /\ Report(w, obj, "UnsupportedSpec")
            /\ UNCHANGED allocVars
         \/ /\ obj.spec \cap InvalidPorts = {}
            /\ obj.spec = DOMAIN obj.ports
            /\ Goto(w, "service")
            /\ UNCHANGED allocVars
         \/ /\ obj.spec \cap InvalidPorts = {}
            /\ obj.spec # DOMAIN obj.ports
            /\ ReleaseEach(wk[w].key, RangeOf(obj.ports))
            /\ Goto(w, "allocate")
    /\ UNCHANGED <<haproxyVars, objVars, vsCache, dirty, workerUnchanged>>

\* The allocation loop: one port at a time, in the order of the spec; all or none.
allocatePort(w) ==
    /\ At(w, "allocate")
    /\ LET o == wk[w].key
           obj == wk[w].obj
           left == obj.spec \ DOMAIN wk[w].got
       IN \/ \E p \in Ports, s \in left :
               LET got == [x \in DOMAIN wk[w].got \cup {s} |-> IF x = s THEN p ELSE wk[w].got[x]] IN
               /\ \A y \in left : s <= y
               /\ Allocate(o, p)
               /\ wk' = [wk EXCEPT ![w] =
                           IF left = {s} THEN [@ EXCEPT !.pc = "service", !.obj.ports = got, !.got = NoEntries]
                                         ELSE [@ EXCEPT !.got = got]]
          \/ /\ Exhausted
             /\ ReleaseEach(o, RangeOf(wk[w].got))
             /\ Report(w, obj, "PortAllocationError")
    /\ UNCHANGED <<haproxyVars, objVars, vsCache, dirty, workerUnchanged>>

getMatchingPods(v) == {p \in Pods : podCache[p] \in Selected[v]}

\* getMatchingPods, then ensureGeneratedService, which decides on the lister's copy
\* of the Service.  An owned copy is up to date when it is a NodePort Service with
\* the wanted ports (a ClusterIP Service never is: it has an address, and the code
\* asks for "None"); otherwise the lister's own object is overwritten and sent with
\* the version it had.
ensureGeneratedService(w) ==
    /\ At(w, "service")
    /\ LET v == wk[w].key
           obj == wk[w].obj
           cached == svcLister[v]
           owned == cached # Absent /\ cached.owner = obj.uid
           upToDate == NodePorts /\ cached.ports = obj.ports
           current == svc[v] # Absent /\ svc[v].owner = cached.owner /\ svc[v].rv = cached.rv
           Proceed == wk' = [wk EXCEPT ![w] = [@ EXCEPT !.pc = "slice", !.pods = getMatchingPods(v)]]
       IN \/ /\ cached = Absent /\ svc[v] = Absent
             /\ svc' = [svc EXCEPT ![v] = [owner |-> obj.uid, ports |-> obj.ports, rv |-> 0]]
             /\ Proceed /\ UNCHANGED svcLister
          \/ /\ ~owned /\ ~(cached = Absent /\ svc[v] = Absent)
             /\ Report(w, obj, "ServiceConflict")
             /\ UNCHANGED <<svc, svcLister>>
          \/ /\ owned /\ upToDate
             /\ Proceed /\ UNCHANGED <<svc, svcLister>>
          \/ /\ owned /\ ~upToDate
             /\ svcLister' = [svcLister EXCEPT ![v].ports = obj.ports]
             /\ \/ /\ current
                   /\ svc' = [svc EXCEPT ![v].ports = obj.ports,
                                         ![v].rv = IF svc[v].ports = obj.ports THEN @ ELSE 1 - @]
                   /\ Proceed
                \/ /\ ~current
                   /\ Report(w, obj, "ReconcileError")
                   /\ UNCHANGED svc
    /\ UNCHANGED <<allocVars, haproxyVars, api, lister, slice, vsCache, dirty, workerUnchanged>>

ensureEndpointSlice(w) ==
    /\ At(w, "slice")
    /\ LET v == wk[w].key
           obj == wk[w].obj
           foreign == slice[v] # Absent /\ slice[v].owner # obj.uid
       IN \/ /\ ~foreign
             /\ slice' = [slice EXCEPT ![v] = [owner |-> obj.uid, ports |-> obj.ports]]
             /\ Goto(w, "proxy")
          \/ /\ foreign
             /\ Report(w, obj, "ServiceConflict")
             /\ UNCHANGED slice
    /\ UNCHANGED <<allocVars, haproxyVars, api, lister, svc, svcLister, vsCache, dirty, workerUnchanged>>

configureHAProxy(w) ==
    /\ At(w, "proxy")
    /\ LET obj == wk[w].obj IN
         \E applied \in SUBSET DOMAIN obj.ports, ok \in BOOLEAN :
           /\ Configure(wk[w].key, obj.ports, wk[w].pods, applied, ok)
           /\ Report(w, obj, IF ok THEN "Ready" ELSE "ReconcileError")
    /\ UNCHANGED <<allocVars, objVars, vsCache, dirty, workerUnchanged>>

\* A status update that writes the condition and forgets the ports.
setConditionOnly(w) ==
    /\ At(w, "status")
    /\ LET v == wk[w].key
           obj == wk[w].obj
       IN \/ /\ obj.cond = wk[w].cond /\ obj.obs = obj.gen
             /\ Finish(w, FALSE)
             /\ UNCHANGED api
          \/ /\ obj.cond # wk[w].cond \/ obj.obs # obj.gen
             /\ Fresh(w)
             /\ api' = [api EXCEPT ![v] = [@ EXCEPT !.cond = wk[w].cond, !.obs = obj.gen]]
             /\ Finish(w, FALSE)
          \/ /\ obj.cond # wk[w].cond \/ obj.obs # obj.gen
             /\ ~Fresh(w)
             /\ Finish(w, TRUE)
             /\ UNCHANGED api
    /\ UNCHANGED <<allocVars, haproxyVars, lister, svc, svcLister, slice, vsCache, workerUnchanged>>

\* setConditionAndUpdate: nothing is written when condition and generation are the
\* recorded ones (the copy it compares with already holds the new ports).
setConditionAndUpdate(w) ==
    /\ At(w, "status")
    /\ LET v == wk[w].key
           obj == wk[w].obj
       IN \/ /\ obj.cond = wk[w].cond /\ obj.obs = obj.gen
             /\ Finish(w, FALSE)
             /\ UNCHANGED api
          \/ /\ obj.cond # wk[w].cond \/ obj.obs # obj.gen
             /\ Fresh(w)
             /\ api' = [api EXCEPT ![v] = [@ EXCEPT !.ports = obj.ports, !.cond = wk[w].cond,
                                                    !.obs = obj.gen]]
             /\ Finish(w, FALSE)
          \/ /\ obj.cond # wk[w].cond \/ obj.obs # obj.gen
             /\ ~Fresh(w)
             /\ Finish(w, TRUE)
             /\ UNCHANGED api
    /\ UNCHANGED <<allocVars, haproxyVars, lister, svc, svcLister, slice, vsCache, workerUnchanged>>

-----------------------------------------------------------------------------
\* handleVirtualServiceFinalization.  A failed Remove is only logged.

\* A finalization that leaves the listeners alone.
skipHAProxy(w) ==
    /\ At(w, "remove")
    /\ Goto(w, "release")
    /\ UNCHANGED <<allocVars, haproxyVars, objVars, vsCache, dirty, workerUnchanged>>

removeHAProxy(w) ==
    /\ At(w, "remove")
    /\ \E removed \in SUBSET DOMAIN listeners[wk[w].key], ok \in BOOLEAN :
         Remove(wk[w].key, removed, ok)
    /\ Goto(w, "release")
    /\ UNCHANGED <<allocVars, objVars, vsCache, dirty, workerUnchanged>>

\* Only the ports the status records are released.  The Service is deleted by name,
\* when the lister's copy says that it is owned; the EndpointSlice when it is owned.
releaseAndDeleteObjects(w) ==
    /\ At(w, "release")
    /\ ReleaseEach(wk[w].key, RangeOf(wk[w].obj.ports))
    /\ LET v == wk[w].key IN
         svc' = IF svcLister[v] # Absent /\ svcLister[v].owner = wk[w].obj.uid
                  THEN [svc EXCEPT ![v] = Absent] ELSE svc
    /\ LET v == wk[w].key IN
         slice' = IF slice[v] # Absent /\ slice[v].owner = wk[w].obj.uid
                    THEN [slice EXCEPT ![v] = Absent] ELSE slice
    /\ Goto(w, "unfinalize")
    /\ UNCHANGED <<haproxyVars, api, lister, svcLister, vsCache, dirty, workerUnchanged>>

\* Removing the last finalizer of a marked object makes the API server drop it.
removeFinalizer(w) ==
    /\ At(w, "unfinalize")
    /\ \/ /\ Fresh(w)
          /\ api' = [api EXCEPT ![wk[w].key] = Absent]
          /\ Finish(w, FALSE)
       \/ /\ ~Fresh(w)
          /\ Finish(w, TRUE)
          /\ UNCHANGED api
    /\ UNCHANGED <<allocVars, haproxyVars, lister, svc, svcLister, slice, vsCache, workerUnchanged>>

\* The controller's process dies and starts again with synced informers, empty
\* caches and a new allocator.
Restart ==
    /\ restarts < MaxRestarts /\ restarts' = restarts + 1
    /\ allocated' = [p \in Ports |-> Free]
    /\ ownerPorts' = [o \in Owners |-> {}]
    /\ RestartManager
    /\ lister' = api /\ svcLister' = svc
    /\ podSeen' = [p \in Pods |-> Absent] /\ podCache' = podSeen' /\ notifying' = Absent
    /\ podEvents' = [p \in Pods |-> IF podApi[p] = Absent THEN <<>> ELSE <<podApi[p]>>]
    /\ vsCache' = {}
    /\ dirty' = {v \in Owners : api[v] # Absent}
    /\ wk' = [w \in Workers |-> Idle]
    /\ UNCHANGED <<api, svc, slice, podApi, userOps, podOps>>

-----------------------------------------------------------------------------
Work(w) ==
    \/ processNextWorkItem(w) \/ reconcile(w) \/ addFinalizer(w) \/ validateAndCheckPorts(w)
    \/ allocatePort(w) \/ ensureGeneratedService(w) \/ ensureEndpointSlice(w) \/ configureHAProxy(w)
    \/ setConditionAndUpdate(w) \/ removeHAProxy(w) \/ releaseAndDeleteObjects(w)
    \/ removeFinalizer(w)

Deliver ==
    \/ \E v \in Owners : enqueueVirtualService(v) \/ ServiceInformer(v) \/ CollectService(v)
    \/ \E p \in Pods : handlePodEvent(p) \/ handleTombstone(p)
    \/ enqueueVirtualServicesForPod

Users ==
    \/ \E v \in Owners : \/ CreateVirtualService(v) \/ EditVirtualService(v)
                         \/ DeleteVirtualService(v) \/ ReplaceService(v)
                         \/ CreateEndpointSlice(v)
    \/ \E p \in Pods : PodStep(p)

Next == Users \/ Deliver \/ (\E w \in Workers : Work(w)) \/ Restart

Spec == Init /\ [][Next]_vars

\* Goroutines that can run do run, and informers deliver in the end.
Fairness ==
    /\ \A w \in Workers : WF_vars(Work(w))
    /\ \A v \in Owners : /\ WF_vars(enqueueVirtualService(v))
                          /\ WF_vars(ServiceInformer(v))
                          /\ WF_vars(CollectService(v))

FairSpec == Spec /\ Fairness

-----------------------------------------------------------------------------
\* Type correctness of the controller's state.
TypeOK ==
    /\ AllocTypeOK
    /\ listeners \in [Owners -> PortMaps]
    /\ \A v \in Owners : /\ DOMAIN proxy[v] \subseteq SvcPorts
                          /\ \A s \in DOMAIN proxy[v] : proxy[v][s] \in [port : Ports, servers : SUBSET Pods]
    /\ api \in [Owners -> VirtualServices \cup {Absent}]
    /\ lister \in [Owners -> VirtualServices \cup {Absent}]
    /\ svc \in [Owners -> Services \cup {Absent}]
    /\ svcLister \in [Owners -> Services \cup {Absent}]
    /\ slice \in [Owners -> EndpointSlices \cup {Absent}]
    /\ podCache \in [Pods -> Labels \cup {Absent}]
    /\ notifying \in Labels \cup {Absent}
    /\ vsCache \subseteq Owners /\ dirty \subseteq Owners

\* Nothing is in flight: no key queued or being processed, all events delivered.
Quiescent ==
    /\ dirty = {} /\ \A w \in Workers : wk[w] = Idle
    /\ notifying = Absent
    /\ lister = api /\ svcLister = svc /\ \A p \in Pods : podEvents[p] = <<>>
    /\ \A v \in Owners : ~Orphaned(v)

Live(v) == api[v] # Absent /\ ~api[v].deleting

\* Two live VirtualServices never record the same gateway port: their Services would send
\* traffic to each other's pods.  Ports come from one allocator, but they are
\* recorded, reused and released through a status that is read from a lagging
\* informer and written with optimistic concurrency (ensurePortAllocations).
RecordedPortsExclusive ==
    \A v, u \in Owners :
        v # u /\ Live(v) /\ Live(u)
          => RangeOf(api[v].ports) \cap RangeOf(api[u].ports) = {}

\* HAProxy never has two frontends bound to one port: reload would fail or the
\* kernel would spread connections over both (finalization must take the frontend
\* down before it releases the port).
BoundPorts(v) == {proxy[v][s].port : s \in DOMAIN proxy[v]}
FrontendsExclusive ==
    \A v, u \in Owners : v # u => BoundPorts(v) \cap BoundPorts(u) = {}

\* At rest a VirtualService that is gone holds no port of the allocator, whose range
\* is all the gateway will ever hand out (handleVirtualServiceFinalization).
PortsReleasedOnDeletion ==
    Quiescent => \A v \in Owners : api[v] = Absent => ownerPorts[v] = {}

\* At rest nothing of a VirtualService that is gone is left: no frontend, no
\* generated Service or EndpointSlice, no entry in the controller's cache.
NothingLeftBehind ==
    Quiescent => \A v \in Owners : api[v] = Absent =>
        /\ proxy[v] = NoEntries
        /\ svc[v] = Absent \/ svc[v].owner = Foreign
        /\ slice[v] = Absent \/ slice[v].owner = Foreign
        /\ v \notin vsCache

\* At rest a Ready VirtualService is what its status says: its Service, EndpointSlice
\* and HAProxy carry exactly the recorded ports of the current spec.
ReadyIsConfigured ==
    Quiescent => \A v \in Owners : Live(v) /\ api[v].cond = "Ready" =>
        /\ DOMAIN api[v].ports = api[v].spec
        /\ svc[v] # Absent /\ svc[v].ports = api[v].ports
        /\ slice[v] # Absent /\ slice[v].ports = api[v].ports
        /\ \A s \in api[v].spec : s \in DOMAIN proxy[v] /\ proxy[v][s].port = api[v].ports[s]

\* At rest the servers behind a Ready VirtualService are the live pods its selector
\* matches: no pod event is lost between the handler, which updates the cache and
\* then enqueues, and a reconcile that stores the object and then reads the cache.
Matching(v) == {p \in Pods : podApi[p] # Absent /\ ~podApi[p].deleting /\ podApi[p].label \in Selected[v]}
BackendsConverge ==
    Quiescent => \A v \in Owners : Live(v) /\ api[v].cond = "Ready" =>
        \A s \in api[v].spec : ServersOf(v, s) = Matching(v)

\* At rest a VirtualService reports ServiceConflict only when the Service or the
\* EndpointSlice of its name really is somebody else's.
ConflictIsReal ==
    Quiescent => \A v \in Owners : Live(v) /\ api[v].cond = "ServiceConflict" =>
        \/ svc[v] # Absent /\ svc[v].owner = Foreign
        \/ slice[v] # Absent /\ slice[v].owner = Foreign

\* No step of the controller changes or deletes a Service a user owns.
UserServiceUntouched ==
    [][\A v \in Owners : svc[v] # Absent /\ svc[v].owner = Foreign => svc'[v] = svc[v]]_vars

\* A VirtualService loses a port only while its own key is being reconciled, or to a
\* restart: a status that still lists a port which has meanwhile gone to somebody
\* else (after a restart, or a write that was refused) never frees it under them.
PortsLostToOwnerOnly ==
    [][\A o \in Owners : ~(ownerPorts[o] \subseteq ownerPorts'[o]) => o \in Processing \/ restarts' # restarts]_vars

\* Every VirtualService eventually gets a verdict on its current spec, or is deleted:
\* a refused write is retried, and every change reaches the queue.
EventuallyReported ==
    \A v \in Owners : Live(v) ~> (~Live(v) \/ api[v].obs = api[v].gen)
=============================================================================
