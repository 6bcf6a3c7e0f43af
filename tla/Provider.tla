------------------------------ MODULE Provider ------------------------------
(***************************************************************************)
(* The virtual-kubelet provider: internal/provider/anex/provider.go,         *)
(* provisioning.go and virtualpod/virtualpod.go.                             *)
(*                                                                           *)
(* Sync workers of the virtual kubelet call CreatePod and DeletePod.  A pod  *)
(* gets a gateway slot and a goroutine (initializeVirtualPod) that rents a   *)
(* machine, waits for it and starts the container; that goroutine starts the *)
(* pod's lifecycle loop (reconcilePodLifecycle), which polls the agent and   *)
(* restarts or finalizes the pod, a restart being a new initialization.  A   *)
(* collector destroys machines whose pod is gone.  An action is a stretch    *)
(* of one goroutine between two accesses to what others read or write.       *)
(*                                                                           *)
(* Generation g of a pod is its g-th initializeVirtualPod goroutine, the     *)
(* context it runs under, and the lifecycle loop it starts: ProvisionCancel  *)
(* and LifecycleCancel name the generation they cancel.                      *)
(*                                                                           *)
(* External, modelled from how the code uses it: the virtual kubelet's pod   *)
(* controller (per-key serialization, retry after an error), the API server, *)
(* the cloud and the machines.  A machine's agent answers on the address of  *)
(* the slot it was configured with (GetAgentAddress).                        *)
(***************************************************************************)
EXTENDS Naturals

CONSTANTS
    Pods,        \* pod objects (UIDs)
    KeyOf,       \* KeyOf[p]: buildKey, namespace and name
    Policy,      \* Policy[p]: restartPolicy
    Slots,       \* gateway slots 0 .. n-1, at least one
    Machines,    \* bound: machines that can ever be rented
    Workers,     \* pod sync workers
    MaxGen,      \* bound: restarts of a pod
    MaxRetries,  \* config.Provisioning.MaxRetries
    Faults,      \* what may go wrong, a subset of AllFaults
    Deletes,     \* TRUE when pods may be deleted
    MaxRestarts, \* bound: restarts of the virtual kubelet
    Nil

AllFaults == {"destroy",   \* a DestroyMachine call fails
              "rent",      \* the answer to a rental is lost
              "machine",   \* a machine does not come up
              "agent",     \* the runtime cannot be initialized
              "report",    \* the agent stops reporting
              "mapping",   \* the machines cannot be listed at start-up
              "vanish",    \* the cloud takes a machine away
              "update"}    \* a pod object is edited

ASSUME ProviderAssumption ==
    /\ Policy \in [Pods -> {"Always", "OnFailure", "Never"}]
    /\ Slots \subseteq Nat /\ 0 \in Slots
    /\ MaxGen \in Nat /\ MaxRetries \in Nat /\ MaxRestarts \in Nat
    /\ Faults \subseteq AllFaults /\ Deletes \in BOOLEAN
    /\ Nil \notin Pods \cup Machines \cup Workers /\ Nil \notin 0 .. MaxGen
    /\ Nil # "loop" /\ "loop" \notin Workers

VARIABLES
    pod,           \* API server: "absent", "live", "deleting", "gone"
    api,           \* API server: the status and slot annotation last sent (notifyPodUpdate)
    assigned,      \* clientProxySettings[s].Assigned
    virtualPods,   \* Provider.virtualPods: key -> pod
    vp,            \* the VirtualPod of each pod
    lock,          \* who holds vp.SyncUpdateDelete
    prov,          \* initializeVirtualPod goroutines, per pod and generation
    loop,          \* reconcilePodLifecycle goroutines, per pod and generation
    gens,          \* generations started
    provCancelled, lifeCancelled,   \* cancelled contexts <<pod, generation>>
    wk,            \* sync workers
    cloud,         \* machines at the cloud provider
    gc,            \* machineGarbageCollector: pods listed, or Nil
    panicked,      \* the process died on a nil dereference
    restarts       \* restarts of the virtual kubelet so far

podVars == <<pod, api>>
regVars == <<assigned, virtualPods>>
goVars == <<prov, loop, gens, provCancelled, lifeCancelled>>
procVars == <<panicked, restarts>>
vars == <<podVars, regVars, vp, lock, goVars, wk, cloud, gc, procVars>>

Gens == 0 .. MaxGen
Keys == {KeyOf[p] : p \in Pods}
Terminal == {"Succeeded", "Failed"}

\* What a pod object carries of its VirtualPod: its status and the slot annotation.
PodObjects == [slot : Slots, phase : {"Pending", "Running"} \cup Terminal,
               cont : {"Waiting", "Running", "Terminated"}]

\* virtualpod.VirtualPod: where the pod is, what it reports and the cancel functions of its
\* initialization and of its loop.
VirtualPods ==
    [slot : Slots, phase : {"Pending", "Running"} \cup Terminal,
     cont : {"Waiting", "Running", "Terminated"}, machine : Machines \cup {Nil},
     completed : BOOLEAN, finalized : BOOLEAN, files : BOOLEAN,
     provCancel : Gens \cup {Nil}, lifeCancel : Gens \cup {Nil}]

ASSUME NilAssumption == Nil \notin VirtualPods \cup PodObjects

NewPod(slot) == [slot |-> slot, phase |-> "Pending", cont |-> "Waiting"]

\* `files`: whether the mounted config maps are at hand to be pushed.
NewVirtualPod(o, files) ==
    [slot |-> o.slot, phase |-> o.phase, cont |-> o.cont, machine |-> Nil, files |-> files,
     completed |-> FALSE, finalized |-> FALSE, provCancel |-> Nil, lifeCancel |-> Nil]

NotStarted == [pc |-> "off", next |-> "off", restartOnly |-> FALSE, tries |-> 0]
Started(restartOnly) == [NotStarted EXCEPT !.pc = IF restartOnly THEN "op" ELSE "leftover",
                                           !.restartOnly = restartOnly]
IdleWorker == [pc |-> "idle", pod |-> Nil, target |-> Nil, slot |-> 0, copy |-> Nil]

Init ==
    /\ pod = [p \in Pods |-> "absent"] /\ api = [p \in Pods |-> NewPod(0)]
    /\ assigned = [s \in Slots |-> FALSE]
    /\ virtualPods = [k \in Keys |-> Nil]
    /\ vp = [p \in Pods |-> Nil] /\ lock = [p \in Pods |-> Nil]
    /\ prov = [p \in Pods |-> [g \in Gens |-> NotStarted]]
    /\ loop = [p \in Pods |-> [g \in Gens |-> "off"]]
    /\ gens = [p \in Pods |-> 0]
    /\ provCancelled = {} /\ lifeCancelled = {}
    /\ wk = [w \in Workers |-> IdleWorker]
    /\ cloud = [m \in Machines |-> Nil]
    /\ gc = Nil /\ panicked = FALSE /\ restarts = 0

-----------------------------------------------------------------------------
\* The cloud: a machine is Nil until rented, then a record; state "gone" once
\* destroyed.  `agent` is the container state its agent reports.

Alive(m) == m # Nil /\ cloud[m] # Nil /\ cloud[m].state # "gone"
Running(m) == Alive(m) /\ cloud[m].state = "running"
AgentAt(slot) == {m \in Machines : Running(m) /\ cloud[m].slot = slot}

\* DestroyMachine(m) with its outcome; an empty ID is refused.
DestroyMachine(m, ok) ==
    /\ ok \/ m = Nil \/ "destroy" \in Faults
    /\ ok => m # Nil
    /\ cloud' = IF ok /\ Alive(m) THEN [cloud EXCEPT ![m].state = "gone"] ELSE cloud

cloudOnly == <<podVars, regVars, vp, lock, goVars, wk, gc, procVars>>

MachineStarts(m) ==
    /\ Alive(m) /\ cloud[m].state = "starting"
    /\ \E s \in {"running"} \cup (IF "machine" \in Faults THEN {"failed"} ELSE {}) :
         cloud' = [cloud EXCEPT ![m].state = s]
    /\ UNCHANGED cloudOnly

MachineVanishes(m) ==
    /\ "vanish" \in Faults /\ Alive(m)
    /\ cloud' = [cloud EXCEPT ![m].state = "gone"]
    /\ UNCHANGED cloudOnly

\* The container's process ends; its exit code is all that matters.
ContainerExits(m) ==
    /\ Running(m) /\ cloud[m].agent = "Running"
    /\ \E a \in {"ExitZero", "ExitError"} : cloud' = [cloud EXCEPT ![m].agent = a]
    /\ UNCHANGED cloudOnly

-----------------------------------------------------------------------------
\* Pods in the API server.

SchedulePod(p) ==
    /\ pod[p] = "absent"
    /\ \A q \in Pods \ {p} : KeyOf[q] = KeyOf[p] => pod[q] \in {"absent", "gone"}
    /\ pod' = [pod EXCEPT ![p] = "live"]
    /\ UNCHANGED <<api, regVars, vp, lock, goVars, wk, cloud, gc, procVars>>

RequestDelete(p) ==
    /\ Deletes /\ pod[p] = "live"
    /\ pod' = [pod EXCEPT ![p] = "deleting"]
    /\ UNCHANGED <<api, regVars, vp, lock, goVars, wk, cloud, gc, procVars>>

\* The pod controller never works on one key with two workers.
WorkerAt(w, pc) == ~panicked /\ wk[w].pc = pc
Busy(k) == \E w \in Workers : wk[w].pc # "idle" /\ KeyOf[wk[w].pod] = k

-----------------------------------------------------------------------------
\* CreatePod.  reserveGatewaySlot looks for a free slot and then takes it, without
\* a lock; with none free the call fails and is retried.

FirstFree(s) == ~assigned[s] /\ \A t \in Slots : t < s => assigned[t]

reserveGatewaySlot(w, p) ==
    /\ WorkerAt(w, "idle") /\ pod[p] = "live" /\ ~Busy(KeyOf[p])
    /\ virtualPods[KeyOf[p]] = Nil /\ api[p].phase \notin Terminal
    /\ \E s \in Slots :
         /\ FirstFree(s)
         /\ wk' = [wk EXCEPT ![w] = [IdleWorker EXCEPT !.pc = "create", !.pod = p, !.slot = s]]
    /\ UNCHANGED <<podVars, regVars, vp, lock, goVars, cloud, gc, procVars>>

CreatePod(w) ==
    /\ WorkerAt(w, "create")
    /\ LET p == wk[w].pod IN
         /\ assigned' = [assigned EXCEPT ![wk[w].slot] = TRUE]
         /\ api' = [api EXCEPT ![p] = NewPod(wk[w].slot)]
         /\ vp' = [vp EXCEPT ![p] = [NewVirtualPod(NewPod(wk[w].slot), TRUE)
                                     EXCEPT !.provCancel = 0]]
         /\ virtualPods' = [virtualPods EXCEPT ![KeyOf[p]] = p]
         /\ prov' = [prov EXCEPT ![p][0] = Started(FALSE)]
    /\ wk' = [wk EXCEPT ![w] = IdleWorker]
    /\ UNCHANGED <<pod, lock, loop, gens, provCancelled, lifeCancelled, cloud, gc, procVars>>

-----------------------------------------------------------------------------
\* UpdatePod: the virtual kubelet takes a copy of an edited pod, status included, which
\* then replaces what the VirtualPod has and is sent back.  SyncUpdateDelete is not taken.

TakeCopy(w, p) ==
    /\ "update" \in Faults /\ WorkerAt(w, "idle") /\ pod[p] = "live" /\ ~Busy(KeyOf[p])
    /\ virtualPods[KeyOf[p]] # Nil /\ api[p].phase \notin Terminal
    /\ wk' = [wk EXCEPT ![w] = [IdleWorker EXCEPT !.pc = "update", !.pod = p, !.copy = api[p]]]
    /\ UNCHANGED <<podVars, regVars, vp, lock, goVars, cloud, gc, procVars>>

UpdatePod(w) ==
    /\ WorkerAt(w, "update")
    /\ LET c == wk[w].copy
           q == virtualPods[KeyOf[wk[w].pod]]
       IN  /\ vp' = [vp EXCEPT ![q].phase = c.phase, ![q].cont = c.cont]
           /\ api' = [api EXCEPT ![wk[w].pod] = c]
    /\ wk' = [wk EXCEPT ![w] = IdleWorker]
    /\ UNCHANGED <<pod, regVars, lock, goVars, cloud, gc, procVars>>

-----------------------------------------------------------------------------
\* DeletePod.

\* The map lookup.  An unknown pod is reported as not found, which lets the virtual
\* kubelet remove the object.
DeletePod(w, p) ==
    /\ WorkerAt(w, "idle") /\ pod[p] = "deleting" /\ ~Busy(KeyOf[p])
    /\ LET q == virtualPods[KeyOf[p]] IN
         \/ /\ q = Nil
            /\ pod' = [pod EXCEPT ![p] = "gone"]
            /\ UNCHANGED wk
         \/ /\ q # Nil
            /\ wk' = [wk EXCEPT ![w] = [IdleWorker EXCEPT !.pc = "lock", !.pod = p, !.target = q]]
            /\ UNCHANGED pod
    /\ UNCHANGED <<api, regVars, vp, lock, goVars, cloud, gc, procVars>>

TerminatePod(q) == [vp EXCEPT ![q].phase = "Succeeded", ![q].cont = "Terminated"]

Deleted(w) ==
    /\ pod' = [pod EXCEPT ![wk[w].pod] = "gone"]
    /\ LET v == vp'[wk[w].target] IN
         api' = [api EXCEPT ![wk[w].pod].phase = v.phase, ![wk[w].pod].cont = v.cont]
    /\ wk' = [wk EXCEPT ![w] = IdleWorker]

\* Provisioned and not finalized: stop the loop, then destroy the machine.
DeleteCompleted(w) ==
    /\ WorkerAt(w, "lock") /\ lock[wk[w].target] = Nil
    /\ LET q == wk[w].target IN
         /\ vp[q].completed /\ ~vp[q].finalized
         /\ lock' = [lock EXCEPT ![q] = w]
         /\ lifeCancelled' = lifeCancelled \cup {<<q, vp[q].lifeCancel>>}
         /\ vp' = TerminatePod(q)
    /\ wk' = [wk EXCEPT ![w].pc = "destroy"]
    /\ UNCHANGED <<podVars, regVars, prov, loop, gens, provCancelled, cloud, gc, procVars>>


\* The slot is free again only once the machine is gone.  A failed destroy ends the
\* call; the virtual kubelet tries again.
DeleteDestroys(w) ==
    /\ WorkerAt(w, "destroy")
    /\ LET q == wk[w].target IN
         /\ lock' = [lock EXCEPT ![q] = Nil]
         /\ \/ /\ DestroyMachine(vp[q].machine, TRUE)
               /\ assigned' = [assigned EXCEPT ![vp[q].slot] = FALSE]
               /\ vp' = [vp EXCEPT ![q].finalized = TRUE]
               /\ virtualPods' = [virtualPods EXCEPT ![KeyOf[q]] = Nil]
               /\ Deleted(w)
            \/ /\ DestroyMachine(vp[q].machine, FALSE)
               /\ wk' = [wk EXCEPT ![w] = IdleWorker]
               /\ UNCHANGED <<podVars, regVars, vp>>
    /\ UNCHANGED <<goVars, gc, procVars>>

DeleteFinalized(w) ==
    /\ WorkerAt(w, "lock") /\ lock[wk[w].target] = Nil
    /\ LET q == wk[w].target IN
         /\ vp[q].completed /\ vp[q].finalized
         /\ virtualPods' = [virtualPods EXCEPT ![KeyOf[q]] = Nil]
    /\ UNCHANGED vp
    /\ Deleted(w)
    /\ UNCHANGED <<assigned, lock, goVars, cloud, gc, procVars>>

\* A deletion that does not free the slot.
DeleteProvisioningKeepsSlot(w) ==
    /\ WorkerAt(w, "lock") /\ lock[wk[w].target] = Nil
    /\ LET q == wk[w].target IN
         /\ ~vp[q].completed
         /\ provCancelled' = provCancelled \cup {<<q, vp[q].provCancel>>}
         /\ virtualPods' = [virtualPods EXCEPT ![KeyOf[q]] = Nil]
         /\ vp' = TerminatePod(q)
    /\ Deleted(w)
    /\ UNCHANGED <<assigned, lock, prov, loop, gens, lifeCancelled, cloud, gc, procVars>>

\* Still provisioning: cancel it and forget the pod.  The machine is left to the
\* provisioning goroutine, the slot is free at once.
DeleteProvisioning(w) ==
    /\ WorkerAt(w, "lock") /\ lock[wk[w].target] = Nil
    /\ LET q == wk[w].target IN
         /\ ~vp[q].completed
         /\ provCancelled' = provCancelled \cup {<<q, vp[q].provCancel>>}
         /\ assigned' = [assigned EXCEPT ![vp[q].slot] = FALSE]
         /\ virtualPods' = [virtualPods EXCEPT ![KeyOf[q]] = Nil]
         /\ vp' = TerminatePod(q)
    /\ Deleted(w)
    /\ UNCHANGED <<lock, prov, loop, gens, lifeCancelled, cloud, gc, procVars>>

-----------------------------------------------------------------------------
\* initializeVirtualPod, generation g.  backoff.Retry repeats op until it succeeds,
\* the retries are used up or the context is cancelled; a deferred machineCleanup
\* runs last.

provOnly == <<podVars, regVars, lock, loop, gens, provCancelled, lifeCancelled, wk, gc, procVars>>

At(p, g, pc) == ~panicked /\ prov[p][g].pc = pc
Goto(p, g, pc) == prov' = [prov EXCEPT ![p][g].pc = pc]
Cancelled(p, g) == <<p, g>> \in provCancelled

\* A retry limit that is off by one.
RetryOnceMore(p, g) ==
    /\ At(p, g, "fail")
    /\ LET r == prov[p][g]
           stop == Cancelled(p, g) \/ r.tries > MaxRetries
       IN  prov' = [prov EXCEPT ![p][g] =
                     IF stop THEN [r EXCEPT !.pc = "exit"]
                     ELSE [r EXCEPT !.pc = IF r.restartOnly THEN "op" ELSE "leftover",
                                    !.tries = @ + 1]]
    /\ UNCHANGED <<vp, cloud, provOnly>>

Retry(p, g) ==
    /\ At(p, g, "fail")
    /\ LET r == prov[p][g]
           stop == Cancelled(p, g) \/ r.tries = MaxRetries
       IN  prov' = [prov EXCEPT ![p][g] =
                     IF stop THEN [r EXCEPT !.pc = "exit"]
                     ELSE [r EXCEPT !.pc = IF r.restartOnly THEN "op" ELSE "leftover",
                                    !.tries = @ + 1]]
    /\ UNCHANGED <<vp, cloud, provOnly>>

\* machineCleanup: nothing to do for a provisioned pod or without a machine; else
\* destroy it, whatever comes of that, and forget it.  It runs before a new machine is
\* rented, after a machine did not come up, and when the goroutine ends.
AfterCleanup == [leftover |-> "select", cleanup |-> "fail", exit |-> "done"]

machineCleanup(p, g) ==
    /\ ~panicked /\ prov[p][g].pc \in DOMAIN AfterCleanup
    /\ LET next == AfterCleanup[prov[p][g].pc] IN
         \/ /\ vp[p].completed \/ vp[p].machine = Nil
            /\ Goto(p, g, next)
            /\ UNCHANGED cloud
         \/ /\ ~vp[p].completed /\ vp[p].machine # Nil
            /\ \E ok \in BOOLEAN : DestroyMachine(vp[p].machine, ok)
            /\ prov' = [prov EXCEPT ![p][g].pc = "remove", ![p][g].next = next]
    /\ UNCHANGED <<vp, provOnly>>

RemoveMachine(p, g) ==
    /\ At(p, g, "remove")
    /\ vp' = [vp EXCEPT ![p].machine = Nil]
    /\ prov' = [prov EXCEPT ![p][g].pc = prov[p][g].next, ![p][g].next = "off"]
    /\ UNCHANGED <<cloud, provOnly>>

\* A restart reboots the machine the pod has: its agent starts afresh.
restartOp(p, g) ==
    /\ At(p, g, "op")
    /\ vp' = [vp EXCEPT ![p].completed = FALSE]
    /\ Goto(p, g, "restart")
    /\ UNCHANGED <<cloud, provOnly>>

restartPod(p, g) ==
    /\ At(p, g, "restart")
    /\ LET m == vp[p].machine IN
         \/ /\ Alive(m) /\ ~Cancelled(p, g)
            /\ cloud' = [cloud EXCEPT ![m].state = "starting", ![m].agent = "Waiting"]
            /\ Goto(p, g, "ready")
         \/ /\ ~Alive(m) \/ Cancelled(p, g) \/ "machine" \in Faults
            /\ prov' = [prov EXCEPT ![p][g].pc = "fail", ![p][g].restartOnly = FALSE]
            /\ UNCHANGED cloud
    /\ UNCHANGED <<vp, provOnly>>

\* The machine a pod asks for: labelled with the pod's UID, its tunnel set up for the
\* pod's slot.
ProvisionMachine(p) == [pod |-> p, slot |-> vp[p].slot, state |-> "starting", agent |-> "Waiting",
                        files |-> FALSE]

\* Rent a machine for this pod and slot and record its ID (SetMachine).  A rental whose
\* answer is lost is a machine nobody knows about; the client goes on to the next offer.
selectAndProvisionMachine(p, g) ==
    /\ At(p, g, "select")
    /\ \/ \E m \in Machines :
            /\ ~Cancelled(p, g) /\ cloud[m] = Nil
            /\ cloud' = [cloud EXCEPT ![m] = ProvisionMachine(p)]
            /\ \/ vp' = [vp EXCEPT ![p].machine = m] /\ Goto(p, g, "ready")
               \/ "rent" \in Faults /\ UNCHANGED <<vp, prov>>
       \/ Cancelled(p, g) /\ Goto(p, g, "fail") /\ UNCHANGED <<vp, cloud>>
    /\ UNCHANGED provOnly

\* A machine that failed, vanished or timed out is given up and replaced; a cancelled
\* wait cleans up too.
waitForMachineReady(p, g) ==
    /\ At(p, g, "ready")
    /\ LET m == vp[p].machine
           broken == ~Alive(m) \/ (~Running(m) /\ "machine" \in Faults)
       IN  \/ Running(m) /\ ~Cancelled(p, g) /\ Goto(p, g, "agent")
           \/ /\ broken \/ Cancelled(p, g)
              /\ prov' = [prov EXCEPT ![p][g].pc = "cleanup",
                                      ![p][g].restartOnly = @ /\ Cancelled(p, g)]
    /\ UNCHANGED <<vp, cloud, provOnly>>

\* Push the mounted config maps, configure the agent and start the command (/run), at
\* the address of the slot.  The
\* agent refuses a second command; a run whose answer is lost is retried and refused.
RunCommand(p, g) ==
    /\ At(p, g, "agent")
    /\ LET agents == AgentAt(vp[p].slot)
           free == {m \in agents : cloud[m].agent # "Running"}
           run(m) == [cloud EXCEPT ![m].agent = "Running", ![m].files = @ \/ vp[p].files]
       IN  \/ /\ ~Cancelled(p, g)
              /\ \E m \in free : cloud' = run(m)
              /\ Goto(p, g, "startLoop")
           \/ /\ agents \ free # {} \/ agents = {} \/ Cancelled(p, g) \/ "agent" \in Faults
              /\ \/ UNCHANGED cloud
                 \/ "agent" \in Faults /\ \E m \in free : cloud' = run(m)
              /\ Goto(p, g, "fail")
    /\ UNCHANGED <<vp, provOnly>>

\* A loop whose cancel function is not stored.
startLifecycleUnset(p, g) ==
    /\ At(p, g, "startLoop")
    /\ loop' = [loop EXCEPT ![p][g] = "tick"]
    /\ Goto(p, g, "complete")
    /\ UNCHANGED <<podVars, regVars, vp, lock, gens, provCancelled, lifeCancelled, wk, cloud, gc, procVars>>

\* Start the lifecycle loop; only then, back in the caller, is the pod marked
\* provisioned.
startLifecycle(p, g) ==
    /\ At(p, g, "startLoop")
    /\ vp' = [vp EXCEPT ![p].lifeCancel = g]
    /\ loop' = [loop EXCEPT ![p][g] = "tick"]
    /\ Goto(p, g, "complete")
    /\ UNCHANGED <<podVars, regVars, lock, gens, provCancelled, lifeCancelled, wk, cloud, gc, procVars>>

provisioningDone(p, g) ==
    /\ At(p, g, "complete")
    /\ vp' = [vp EXCEPT ![p].completed = TRUE]
    /\ Goto(p, g, "exit")
    /\ UNCHANGED <<cloud, provOnly>>

initializeVirtualPod(p, g) ==
    \/ Retry(p, g) \/ machineCleanup(p, g) \/ RemoveMachine(p, g)
    \/ restartOp(p, g) \/ restartPod(p, g)
    \/ selectAndProvisionMachine(p, g) \/ waitForMachineReady(p, g) \/ RunCommand(p, g)
    \/ startLifecycle(p, g) \/ provisioningDone(p, g)

-----------------------------------------------------------------------------
\* reconcilePodLifecycle, generation g.  One round runs under SyncUpdateDelete and does
\* nothing once the context is cancelled.  Rounds that change nothing are left out.

loopOnly == <<pod, virtualPods, wk, gc>>

LoopAt(p, g, pc) == ~panicked /\ loop[p][g] = pc
Polls(p, g) == LoopAt(p, g, "tick") /\ lock[p] = Nil /\ <<p, g>> \notin lifeCancelled

LoopGoto(p, g, pc) == loop' = [loop EXCEPT ![p][g] = pc]
Hold(p) == lock' = [lock EXCEPT ![p] = "loop"]
Unlock(p) == lock' = [lock EXCEPT ![p] = Nil]
Notify(p) ==
    LET v == vp'[p] IN
      api' = [api EXCEPT ![p] = [slot |-> v.slot, phase |-> v.phase, cont |-> v.cont]]

podShouldRestart(p, exit) ==
    \/ Policy[p] = "Always"
    \/ Policy[p] = "OnFailure" /\ exit = "ExitError"

\* The agent reports a running container the pod does not know of yet.
StatusRunning(p, g) ==
    /\ Polls(p, g) /\ vp[p].cont # "Running"
    /\ \E m \in AgentAt(vp[p].slot) : cloud[m].agent = "Running"
    /\ vp' = [vp EXCEPT ![p].cont = "Running", ![p].phase = "Running"]
    /\ Notify(p)
    /\ UNCHANGED <<loopOnly, assigned, lock, goVars, cloud, procVars>>

\* The agent reports an exit code.  A second failure in a row backs off first.
StatusRestarts(p, g, exit) ==
    /\ podShouldRestart(p, exit) /\ gens[p] < MaxGen
    /\ vp' = [vp EXCEPT ![p].completed = FALSE, ![p].cont = "Waiting", ![p].phase = "Running"]
    /\ \/ LoopGoto(p, g, "restart")
       \/ exit = "ExitError" /\ g > 0 /\ LoopGoto(p, g, "backoff")

StatusTerminates(p, g, exit) ==
    /\ ~podShouldRestart(p, exit)
    /\ vp' = [vp EXCEPT ![p].cont = "Terminated",
                        ![p].phase = IF exit = "ExitZero" THEN "Succeeded" ELSE "Failed"]
    /\ LoopGoto(p, g, "finalize")

StatusExited(p, g) ==
    /\ Polls(p, g) /\ vp[p].cont # "Terminated"
    /\ \E m \in AgentAt(vp[p].slot) :
         /\ cloud[m].agent \in {"ExitZero", "ExitError"}
         /\ StatusRestarts(p, g, cloud[m].agent) \/ StatusTerminates(p, g, cloud[m].agent)
    /\ Hold(p) /\ Notify(p)
    /\ UNCHANGED <<loopOnly, assigned, prov, gens, provCancelled, lifeCancelled, cloud, procVars>>

\* No usable report for statusReportTimeout.  FailContainer sets the container's state
\* and leaves the phase.
Silent(p) ==
    \/ "report" \in Faults \/ AgentAt(vp[p].slot) = {}
    \/ \E m \in AgentAt(vp[p].slot) : cloud[m].agent = "Waiting" /\ vp[p].cont # "Waiting"

StatusReportTimeout(p, g) ==
    /\ Polls(p, g) /\ Silent(p)
    /\ \/ /\ Policy[p] # "Never" /\ gens[p] < MaxGen
          /\ LoopGoto(p, g, "restart") /\ UNCHANGED vp
       \/ /\ Policy[p] = "Never"
          /\ vp' = [vp EXCEPT ![p].cont = "Terminated"]
          /\ LoopGoto(p, g, "finalize")
    /\ Hold(p) /\ Notify(p)
    /\ UNCHANGED <<loopOnly, assigned, prov, gens, provCancelled, lifeCancelled, cloud, procVars>>

\* The wait keeps the lock.
restartBackoff(p, g) ==
    /\ LoopAt(p, g, "backoff")
    /\ \/ <<p, g>> \in lifeCancelled /\ LoopGoto(p, g, "tick") /\ Unlock(p)
       \/ <<p, g>> \notin lifeCancelled /\ LoopGoto(p, g, "restart") /\ UNCHANGED lock
    /\ UNCHANGED <<loopOnly, api, assigned, vp, prov, gens, provCancelled, lifeCancelled,
                   cloud, procVars>>

\* A restart that leaves the old loop running.
LoopRestartKeepsLoop(p, g) ==
    /\ LoopAt(p, g, "restart")
    /\ LET n == gens[p] + 1 IN
         /\ gens' = [gens EXCEPT ![p] = n]
         /\ vp' = [vp EXCEPT ![p].provCancel = n]
         /\ prov' = [prov EXCEPT ![p][n] = Started(TRUE)]
    /\ LoopGoto(p, g, "tick") /\ Unlock(p)
    /\ UNCHANGED <<loopOnly, api, assigned, provCancelled, lifeCancelled, cloud, procVars>>

LoopRestart(p, g) ==
    /\ LoopAt(p, g, "restart")
    /\ LET n == gens[p] + 1 IN
         /\ gens' = [gens EXCEPT ![p] = n]
         /\ vp' = [vp EXCEPT ![p].provCancel = n]
         /\ lifeCancelled' = lifeCancelled \cup {<<p, vp[p].lifeCancel>>}
         /\ prov' = [prov EXCEPT ![p][n] = Started(TRUE)]
    /\ LoopGoto(p, g, "tick") /\ Unlock(p)
    /\ UNCHANGED <<loopOnly, api, assigned, provCancelled, cloud, procVars>>

\* The loop cancels the lifecycle of whichever pod the map holds under its key.
LoopFinalize(p, g) ==
    /\ LoopAt(p, g, "finalize")
    /\ LET q == virtualPods[KeyOf[p]]
           dead == q = Nil \/ (q # Nil /\ vp[q].lifeCancel = Nil)
       IN  \/ dead /\ panicked' = TRUE
              /\ UNCHANGED <<lifeCancelled, assigned, vp, loop>>
           \/ /\ ~dead
              /\ lifeCancelled' = lifeCancelled \cup {<<q, vp[q].lifeCancel>>}
              /\ assigned' = [assigned EXCEPT ![vp[p].slot] = FALSE]
              /\ vp' = [vp EXCEPT ![p].finalized = TRUE]
              /\ LoopGoto(p, g, "destroy")
              /\ UNCHANGED panicked
    /\ UNCHANGED <<loopOnly, api, lock, prov, gens, provCancelled, cloud, restarts>>

\* The result of DestroyMachine is ignored.
LoopDestroy(p, g) ==
    /\ LoopAt(p, g, "destroy")
    /\ \E ok \in BOOLEAN : DestroyMachine(vp[p].machine, ok)
    /\ LoopGoto(p, g, "tick") /\ Unlock(p)
    /\ UNCHANGED <<loopOnly, api, assigned, vp, prov, gens, provCancelled, lifeCancelled, procVars>>

LoopStop(p, g) ==
    /\ LoopAt(p, g, "tick") /\ <<p, g>> \in lifeCancelled
    /\ LoopGoto(p, g, "ended")
    /\ UNCHANGED <<loopOnly, api, assigned, vp, lock, prov, gens, provCancelled,
                   lifeCancelled, cloud, procVars>>

reconcilePodLifecycle(p, g) ==
    \/ StatusRunning(p, g) \/ StatusExited(p, g) \/ StatusReportTimeout(p, g)
    \/ restartBackoff(p, g) \/ LoopRestart(p, g)
    \/ LoopFinalize(p, g) \/ LoopDestroy(p, g) \/ LoopStop(p, g)

-----------------------------------------------------------------------------
\* machineGarbageCollector: list the node's pods that are not finished, then destroy
\* every machine labelled with another pod.

\* A list of all the pods of the node, finished ones too.
ListedAll == {p \in Pods : pod[p] \in {"live", "deleting"}}

Listed == {p \in Pods : pod[p] \in {"live", "deleting"} /\ api[p].phase \notin Terminal}

GcList ==
    /\ ~panicked /\ gc = Nil
    /\ gc' = [pods |-> Listed]
    /\ UNCHANGED <<podVars, regVars, vp, lock, goVars, wk, cloud, procVars>>

Dangling == {m \in Machines : Alive(m) /\ cloud[m].pod \notin gc.pods}

PruneDanglingMachines ==
    /\ ~panicked /\ gc # Nil
    /\ \E kept \in SUBSET Dangling :
         /\ kept # {} => "destroy" \in Faults
         /\ cloud' = [m \in Machines |-> IF m \in Dangling \ kept
                                         THEN [cloud[m] EXCEPT !.state = "gone"] ELSE cloud[m]]
    /\ gc' = Nil
    /\ UNCHANGED <<podVars, regVars, vp, lock, goVars, wk, procVars>>

-----------------------------------------------------------------------------
\* The virtual kubelet dies, whatever its goroutines were doing, and starts again
\* (NewGlamiProvider, ConfigureNode): memory is rebuilt from the API server and the cloud.

\* Finished pods are recovered too.
RecoverableFinished == {p \in Pods : pod[p] \in {"live", "deleting"} /\ api[p].phase # "Pending"}

Recoverable == {p \in Listed : api[p].phase = "Running"}

\* Every pod takes its slot, taken or not.
SlotTakersAll == {Recoverable}

\* The pods come in no order; one whose slot another already has is skipped.
SlotTakers ==
    {R \in SUBSET Recoverable :
        \A p \in Recoverable : \E q \in R :
            \A r \in R : (api[r].slot = api[p].slot) <=> r = q}

\* One machine labelled with the pod's UID, in whatever state; none when listing fails.
Labelled(p) == {m \in Machines : Alive(m) /\ cloud[m].pod = p}

MapRunningMachines ==
    {f \in [Recoverable -> Machines \cup {Nil}] :
        \/ \A p \in Recoverable : f[p] \in IF Labelled(p) = {} THEN {Nil} ELSE Labelled(p)
        \/ "mapping" \in Faults /\ \A p \in Recoverable : f[p] = Nil}

\* A recovered loop without a cancel function.
RestoredUncancellable(p, m) ==
    [NewVirtualPod(api[p], FALSE) EXCEPT !.machine = m, !.completed = m # Nil,
                                         !.provCancel = IF m = Nil THEN 0 ELSE Nil]

\* A recovered pod goes on with its machine, or is provisioned anew; the config maps are
\* not read again.
Restored(p, m) ==
    [NewVirtualPod(api[p], FALSE) EXCEPT !.machine = m, !.completed = m # Nil,
                                         !.provCancel = IF m = Nil THEN 0 ELSE Nil,
                                         !.lifeCancel = IF m = Nil THEN Nil ELSE 0]

\* A pod that has lost its machine and may not restart is failed, if the notification
\* finds the notifier set already; its slot stays assigned.
Restart ==
    /\ restarts < MaxRestarts
    /\ \E R \in SlotTakers, machine \in MapRunningMachines :
         LET lost == {p \in R : machine[p] = Nil /\ Policy[p] = "Never"}
             back == R \ lost
         IN  /\ assigned' = [s \in Slots |-> \E p \in R : api[p].slot = s]
             /\ vp' = [p \in Pods |-> IF p \in back THEN Restored(p, machine[p]) ELSE Nil]
             /\ virtualPods' = [k \in Keys |-> IF \E p \in back : KeyOf[p] = k
                                              THEN CHOOSE p \in back : KeyOf[p] = k ELSE Nil]
             /\ loop' = [p \in Pods |-> [g \in Gens |->
                            IF p \in back /\ machine[p] # Nil /\ g = 0 THEN "tick" ELSE "off"]]
             /\ prov' = [p \in Pods |-> [g \in Gens |->
                            IF p \in back /\ machine[p] = Nil /\ g = 0 THEN Started(FALSE)
                                                                   ELSE NotStarted]]
             /\ \E told \in SUBSET lost :
                  api' = [p \in Pods |-> IF p \in told THEN [api[p] EXCEPT !.phase = "Failed",
                                                                       !.cont = "Terminated"]
                                                      ELSE api[p]]
    /\ gens' = [p \in Pods |-> 0] /\ provCancelled' = {} /\ lifeCancelled' = {}
    /\ lock' = [p \in Pods |-> Nil] /\ wk' = [w \in Workers |-> IdleWorker]
    /\ gc' = Nil /\ panicked' = FALSE /\ restarts' = restarts + 1
    /\ UNCHANGED <<pod, cloud>>

-----------------------------------------------------------------------------
DeleteStep(w) ==
    \/ DeleteCompleted(w) \/ DeleteDestroys(w) \/ DeleteFinalized(w) \/ DeleteProvisioning(w)

Next ==
    \/ \E m \in Machines : MachineStarts(m) \/ ContainerExits(m) \/ MachineVanishes(m)
    \/ \E p \in Pods : SchedulePod(p) \/ RequestDelete(p)
    \/ \E w \in Workers : CreatePod(w) \/ UpdatePod(w) \/ DeleteStep(w)
    \/ \E w \in Workers, p \in Pods :
         reserveGatewaySlot(w, p) \/ TakeCopy(w, p) \/ DeletePod(w, p)
    \/ \E p \in Pods, g \in Gens : initializeVirtualPod(p, g) \/ reconcilePodLifecycle(p, g)
    \/ GcList \/ PruneDanglingMachines \/ Restart

Spec == Init /\ [][Next]_vars

\* Goroutines run, machines boot, the collector's ticker fires, the virtual kubelet
\* retries what is left to do, and a destroy that is tried again and again succeeds.
\* Nothing obliges a pod to be created or deleted, or a container to exit.
Fairness ==
    /\ \A m \in Machines : WF_vars(MachineStarts(m))
    /\ \A w \in Workers : /\ WF_vars(CreatePod(w)) /\ WF_vars(UpdatePod(w))
                          /\ WF_vars(DeleteStep(w))
                          /\ SF_vars(DeleteDestroys(w) /\ virtualPods' # virtualPods)
                          /\ \A p \in Pods : SF_vars(DeletePod(w, p))
    /\ \A p \in Pods, g \in Gens : /\ WF_vars(initializeVirtualPod(p, g))
                                   /\ WF_vars(reconcilePodLifecycle(p, g))
    /\ WF_vars(GcList) /\ WF_vars(PruneDanglingMachines)
    /\ \A m \in Machines : SF_vars(PruneDanglingMachines /\ ~Alive(m)')

FairSpec == Spec /\ Fairness

-----------------------------------------------------------------------------
\* Properties.

ProvSteps == {"off", "op", "restart", "leftover", "select", "ready", "agent", "startLoop",
              "complete", "cleanup", "fail", "exit", "remove", "done"}

\* Type correctness of the provider's state.
TypeOK ==
    /\ pod \in [Pods -> {"absent", "live", "deleting", "gone"}]
    /\ api \in [Pods -> PodObjects]
    /\ assigned \in [Slots -> BOOLEAN]
    /\ virtualPods \in [Keys -> Pods \cup {Nil}]
    /\ vp \in [Pods -> VirtualPods \cup {Nil}]
    /\ lock \in [Pods -> Workers \cup {"loop", Nil}]
    /\ prov \in [Pods -> [Gens -> [pc : ProvSteps, next : ProvSteps, restartOnly : BOOLEAN,
                                  tries : 0 .. MaxRetries]]]
    /\ loop \in [Pods -> [Gens -> {"off", "tick", "backoff", "restart", "finalize", "destroy",
                                  "ended"}]]
    /\ gens \in [Pods -> Gens]
    /\ provCancelled \subseteq Pods \X Gens /\ lifeCancelled \subseteq Pods \X Gens
    /\ wk \in [Workers -> [pc : {"idle", "create", "update", "lock", "destroy"}, pod : Pods \cup {Nil},
                           target : Pods \cup {Nil}, slot : Slots,
                           copy : PodObjects \cup {Nil}]]
    /\ cloud \in [Machines ->
                    [pod : Pods, slot : Slots, state : {"starting", "running", "failed", "gone"},
                     agent : {"Waiting", "Running", "ExitZero", "ExitError"},
                     files : BOOLEAN] \cup {Nil}]
    /\ gc \in [pods : SUBSET Pods] \cup {Nil}
    /\ panicked \in BOOLEAN /\ restarts \in 0 .. MaxRestarts

\* A pod the provider has registered and not finalized holds its gateway slot alone: the
\* slot is marked assigned and no other such pod has it.
Holds(p) == vp[p] # Nil /\ virtualPods[KeyOf[p]] = p /\ ~vp[p].finalized

SlotsExclusive ==
    \A p \in Pods : Holds(p) =>
        /\ assigned[vp[p].slot]
        /\ \A q \in Pods \ {p} : Holds(q) => vp[q].slot # vp[p].slot

\* No slot is lost: whenever no worker is creating a pod, a slot marked assigned is held by
\* a registered pod that is not finalized, so the slots of finished, deleted and forgotten
\* pods can be used again, after a restart of the virtual kubelet too.
SlotsNotLost ==
    \A s \in Slots : assigned[s] => \E p \in Pods : Holds(p) /\ vp[p].slot = s

\* Whichever branch DeletePod takes, once it has the lock, the cancel function it calls is
\* set: a provisioned pod has a loop to stop, any other an initialization to cancel.
CancelsSet ==
    \A p \in Pods : (vp[p] # Nil /\ virtualPods[KeyOf[p]] = p /\ lock[p] = Nil) =>
        IF vp[p].completed THEN vp[p].lifeCancel # Nil ELSE vp[p].provCancel # Nil

\* Every running pod goes on with the machine it has: after a restart of the virtual
\* kubelet a pod that runs, with a machine labelled with it, is registered with one.
RecoveryMapsMachines ==
    [][restarts' # restarts =>
         \A p \in Recoverable : Labelled(p) # {} =>
             vp'[p] # Nil /\ vp'[p].machine \in Labelled(p)]_vars

\* The command of a pod that never restarts is started at most once.
NeverRunsTwice ==
    \A m, n \in Machines :
        /\ cloud[m] # Nil /\ cloud[m].agent # "Waiting"
        /\ cloud[n] # Nil /\ cloud[n].agent # "Waiting"
        /\ cloud[m].pod = cloud[n].pod /\ Policy[cloud[m].pod] = "Never"
        => m = n

\* A command runs with the config maps its pod mounts.
RunsWithFiles == \A m \in Machines : (Running(m) /\ cloud[m].agent # "Waiting") => cloud[m].files

\* Of two machines rented for one pod, one is given back in the end.
SparesCollected ==
    \A m, n \in Machines :
        (m # n /\ Alive(m) /\ Alive(n) /\ cloud[m].pod = cloud[n].pod)
            ~> (~Alive(m) \/ ~Alive(n) \/ panicked)

\* At most one lifecycle loop acts for a pod: a restart cancels the loop before the next
\* initialization can start another one, whatever the initialization, a deletion or a
\* cancelled back-off is doing meanwhile.
Active(p, g) == loop[p][g] \notin {"off", "ended"} /\ <<p, g>> \notin lifeCancelled

OneLoop == \A p \in Pods : \A g, h \in Gens : (Active(p, g) /\ Active(p, h)) => g = h

\* The status a lifecycle loop applies to a pod is that of the pod's own container: an
\* agent the loop can reach at the slot's address runs on a machine rented for the pod.
ReportsOwnContainer ==
    \A p \in Pods, g \in Gens : Polls(p, g) =>
        \A m \in AgentAt(vp[p].slot) : cloud[m].pod = p

\* A finished phase, once sent to the API server, is never taken back.
PhaseSticks ==
    [][\A p \in Pods : api[p].phase \in Terminal => api'[p].phase = api[p].phase]_vars

\* A pod whose lifecycle is finalized has a finished phase.
FinalizedIsTerminal == \A p \in Pods : (vp[p] # Nil /\ vp[p].finalized) => vp[p].phase \in Terminal

\* The collector only destroys machines of pods that are finished or gone.
Finished(p) == pod[p] = "gone" \/ api[p].phase \in Terminal

CollectsOnlyDangling ==
    [][PruneDanglingMachines =>
         \A m \in Machines : (Alive(m) /\ ~Alive(m)') => Finished(cloud[m].pod)]_vars

\* No machine of a finished or deleted pod stays rented for ever.
MachinesCollected ==
    \A m \in Machines : (Alive(m) /\ Finished(cloud[m].pod)) ~> (~Alive(m) \/ panicked)


\* No lifecycle loop dereferences a missing map entry or cancel function.
NoPanic == ~panicked
=============================================================================
