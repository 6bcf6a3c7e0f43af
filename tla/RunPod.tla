------------------------------- MODULE RunPod -------------------------------
(***************************************************************************)
(* The RunPod client (cloudprovider/runpod/client.go, registryauth.go) and *)
(* the RunPod account that several virtual nodes share.                    *)
(*                                                                         *)
(* RunPod takes registry credentials only as account-wide objects with     *)
(* unique names.  The provisioning of a pod replaces the auth of its name  *)
(* by a fresh one and rents a machine that refers to it; the machine comes *)
(* up only if the auth is still there when the image is pulled.  Once an   *)
(* interval each node's collector deletes the machines, and then the       *)
(* auths, whose pod is not in the list it took first.                      *)
(*                                                                         *)
(* IDs of auths and machines are fresh: one is used again only when nobody *)
(* remembers it, and a machine needs its auth's no more when it is up or   *)
(* left behind by its pod.  External: the account and the machines.        *)
(***************************************************************************)
EXTENDS Naturals, FiniteSets

CONSTANTS
    Pods,         \* pods (UIDs) with an image from a private registry
    Nodes,        \* virtual nodes with the same RunPod account, of one cluster
    NodeOf,       \* NodeOf[p]: the pod's node
    Prefixed,     \* <<a, b>> when the name of node b is that of node a, "-" and more
    Auths,        \* IDs of registry auths, natural numbers
    Machines,     \* IDs of machines; bound: how many exist at a time
    MaxRetries,   \* config.Provisioning.MaxRetries
    MaxRestarts,  \* bound: restarts of virtual kubelets
    Nil

ASSUME RunPodAssumption ==
    /\ NodeOf \in [Pods -> Nodes]
    /\ Prefixed \subseteq Nodes \X Nodes /\ \A n \in Nodes : <<n, n>> \notin Prefixed
    /\ Auths \subseteq Nat /\ Machines \subseteq Nat
    /\ IsFiniteSet(Pods) /\ IsFiniteSet(Machines)
    /\ Nil \notin Pods \cup Auths \cup Machines
    /\ MaxRetries \in Nat /\ MaxRestarts \in Nat

VARIABLES
    pod,       \* API server: "absent", "live", or "over" (finished or deleted)
    job,       \* per pod: its provisioning, the auths it found, its auth and machine
    auth,      \* auth[a]: the pod the auth is named after, or Nil
    cloud,     \* cloud[m]: the pod it is named after, its auth and state, or Nil
    gc,        \* per node: the collector's round: pods listed, what is left to delete
    taken,     \* history: auths that collectors deleted, per live pod (0, 1, more)
    restarts   \* restarts of virtual kubelets so far

account == <<auth, cloud>>
history == <<taken, restarts>>
vars == <<pod, job, account, gc, history>>

Idle == [pc |-> "idle", seen |-> {}, auth |-> Nil, machine |-> Nil, tries |-> 0]
Start == [Idle EXCEPT !.pc = "list"]
Waiting == [pc |-> "idle", pods |-> {}, todo |-> {}]

Init ==
    /\ pod = [p \in Pods |-> "absent"] /\ job = [p \in Pods |-> Idle]
    /\ auth = [a \in Auths |-> Nil] /\ cloud = [m \in Machines |-> Nil]
    /\ gc = [n \in Nodes |-> Waiting]
    /\ taken = [p \in Pods |-> 0] /\ restarts = 0

\* IDs nobody remembers.
UnusedAuths ==
    {a \in Auths : /\ auth[a] = Nil
                   /\ \A p \in Pods : a # job[p].auth /\ a \notin job[p].seen
                   /\ \A m \in Machines : cloud[m] # Nil => cloud[m].auth # a
                   /\ \A n \in Nodes : gc[n].pc = "delete" => a \notin gc[n].todo}
UnusedMachines ==
    {m \in Machines : /\ cloud[m] = Nil
                      /\ \A p \in Pods : job[p].machine # m
                      /\ \A n \in Nodes : gc[n].pc = "destroy" => m \notin gc[n].todo}

First(S) == {x \in S : \A y \in S : x <= y}

\* A call goes wrong and leaves a machine behind; the bound on machines keeps one for every
\* pod and for every machine a restart forgets.
MayLeave(m) ==
    Cardinality(UnusedMachines \ {m}) >= Cardinality(Pods) * (1 + MaxRestarts - restarts)

-----------------------------------------------------------------------------
\* Pods.

CreatePod(p) ==
    /\ pod[p] = "absent"
    /\ pod' = [pod EXCEPT ![p] = "live"]
    /\ job' = [job EXCEPT ![p] = Start]
    /\ UNCHANGED <<account, gc, history>>

PodEnds(p) ==
    /\ pod[p] = "live"
    /\ pod' = [pod EXCEPT ![p] = "over"]
    /\ UNCHANGED <<job, account, gc, history>>

LeftOf(p) == [pod |-> p, auth |-> Nil, state |-> "left"]

\* DestroyMachine, which may fail; cloud' is what is left.
DestroyMachine(m) ==
    \/ cloud' = IF m = Nil THEN cloud ELSE [cloud EXCEPT ![m] = Nil]
    \/ /\ m # Nil /\ cloud[m] # Nil /\ MayLeave(m)
       /\ cloud' = [cloud EXCEPT ![m] = LeftOf(cloud[m].pod)]

\* The provisioning notices that the pod is over, whatever call it was making.
Stops(p) ==
    /\ pod[p] = "over" /\ job[p].pc # "idle"
    /\ DestroyMachine(job[p].machine)
    /\ job' = [job EXCEPT ![p] = Idle]
    /\ UNCHANGED <<pod, auth, gc, history>>

-----------------------------------------------------------------------------
\* SelectAndProvisionMachine; an error has it called again a minute later.

Goto(p, pc) == job' = [job EXCEPT ![p].pc = pc]
Again(p) == job' = [job EXCEPT ![p] = [Start EXCEPT !.tries = job[p].tries]]
Named(p) == {a \in Auths : auth[a] = p}

\* A list that cannot be had is taken for an empty one.
listRegistryAuths(p) ==
    /\ job[p].pc = "list"
    /\ \E seen \in {Named(p), {}} :
         job' = [job EXCEPT ![p].pc = "delete", ![p].seen = seen]
    /\ UNCHANGED <<pod, account, gc, history>>

\* ensureRegistryAuth that leaves the auth it found.
keepRegistryAuth(p) ==
    /\ job[p].pc = "delete"
    /\ job' = [job EXCEPT ![p].pc = "create", ![p].seen = {}]
    /\ UNCHANGED <<pod, account, gc, history>>

\* A failed delete is only logged.
deleteRegistryAuth(p) ==
    /\ job[p].pc = "delete"
    /\ \E kept \in {{}, job[p].seen} :
         auth' = [a \in Auths |-> IF a \in job[p].seen \ kept THEN Nil ELSE auth[a]]
    /\ job' = [job EXCEPT ![p].pc = "create", ![p].seen = {}]
    /\ UNCHANGED <<pod, cloud, gc, history>>

\* A name that exists is refused.  The request is sent again when its answer is lost, and
\* then finds the name taken.
createRegistryAuth(p) ==
    /\ job[p].pc = "create"
    /\ \/ /\ Named(p) = {}
          /\ \E a \in First(UnusedAuths) :
               /\ auth' = [auth EXCEPT ![a] = p]
               /\ \/ job' = [job EXCEPT ![p].pc = "rent", ![p].auth = a]
                  \/ Again(p)
       \/ Again(p) /\ UNCHANGED auth
    /\ UNCHANGED <<pod, cloud, gc, history>>

\* POST /pods.  When the answer is lost the machine is there and nobody knows it; the
\* request is sent again, or given up.
createPod(p) ==
    /\ job[p].pc = "rent"
    /\ \/ \E m \in First(UnusedMachines) :
            \/ /\ cloud' = [cloud EXCEPT ![m] = [pod |-> p, auth |-> job[p].auth,
                                                 state |-> "starting"]]
               /\ job' = [job EXCEPT ![p].pc = "wait", ![p].machine = m, ![p].auth = Nil]
            \/ /\ MayLeave(m)
               /\ cloud' = [cloud EXCEPT ![m] = LeftOf(p)]
               /\ Again(p) \/ UNCHANGED job
       \/ Again(p) /\ UNCHANGED cloud
    /\ UNCHANGED <<pod, auth, gc, history>>

SelectAndProvisionMachine(p) ==
    \/ listRegistryAuths(p) \/ deleteRegistryAuth(p) \/ createRegistryAuth(p) \/ createPod(p)

-----------------------------------------------------------------------------
\* The machine.

\* The image is pulled with the auth the machine refers to.
PullImage(m) ==
    /\ cloud[m] # Nil /\ cloud[m].state = "starting" /\ auth[cloud[m].auth] # Nil
    /\ cloud' = [cloud EXCEPT ![m].state = "running", ![m].auth = Nil]
    /\ UNCHANGED <<pod, job, auth, gc, history>>

\* GetMachine: desired status RUNNING and the agent healthy.
waitForMachineReady(p) ==
    /\ job[p].pc = "wait"
    /\ cloud[job[p].machine] # Nil /\ cloud[job[p].machine].state = "running"
    /\ Goto(p, "ready")
    /\ UNCHANGED <<pod, account, gc, history>>

\* A retry limit that is off by one.
startupTimeoutOnceMore(p) ==
    /\ job[p].pc = "wait"
    /\ DestroyMachine(job[p].machine)
    /\ job' = [job EXCEPT ![p] = IF job[p].tries <= MaxRetries
                                 THEN [Start EXCEPT !.tries = job[p].tries + 1] ELSE Idle]
    /\ UNCHANGED <<pod, auth, gc, history>>

\* The start-up timeout is over: the machine is destroyed and, unless all retries are
\* used up, the next attempt made.
startupTimeout(p) ==
    /\ job[p].pc = "wait"
    /\ DestroyMachine(job[p].machine)
    /\ job' = [job EXCEPT ![p] = IF job[p].tries < MaxRetries
                                 THEN [Start EXCEPT !.tries = job[p].tries + 1] ELSE Idle]
    /\ UNCHANGED <<pod, auth, gc, history>>

-----------------------------------------------------------------------------
\* The collector of a node.

machineGarbageCollector(n) ==
    /\ gc[n].pc = "idle"
    /\ gc' = [gc EXCEPT ![n] = [pc |-> "machines", todo |-> {},
                                pods |-> {p \in Pods : NodeOf[p] = n /\ pod[p] = "live"}]]
    /\ UNCHANGED <<pod, job, account, history>>

\* A list that cannot be had ends the round.
listPodsInternal(n) ==
    /\ gc[n].pc = "machines"
    /\ \/ gc' = [gc EXCEPT ![n].pc = "destroy",
                           ![n].todo = {m \in Machines :
                                          /\ cloud[m] # Nil /\ NodeOf[cloud[m].pod] = n
                                          /\ cloud[m].pod \notin gc[n].pods}]
       \/ gc' = [gc EXCEPT ![n] = Waiting]
    /\ UNCHANGED <<pod, job, account, history>>

PruneDanglingMachines(n) ==
    /\ gc[n].pc = "destroy"
    /\ \/ \E m \in First(gc[n].todo) :
            /\ DestroyMachine(m)
            /\ gc' = [gc EXCEPT ![n].todo = @ \ {m}]
       \/ gc[n].todo = {} /\ gc' = [gc EXCEPT ![n].pc = "auths"] /\ UNCHANGED cloud
    /\ UNCHANGED <<pod, job, auth, history>>

\* The whole rest of a name taken for the pod: of no pod is it the name that was given.
DanglingUnparsed(n) == {a \in Auths : auth[a] # Nil /\ NodeOf[auth[a]] = n}

\* What is left of a name without the node's prefix is looked up among the pods listed.
\* Of another node's auth whose name the prefix matches it is no pod's UID.
Dangling(n) ==
    {a \in Auths : /\ auth[a] # Nil
                   /\ \/ NodeOf[auth[a]] = n /\ auth[a] \notin gc[n].pods
                      \/ <<n, NodeOf[auth[a]]>> \in Prefixed}

\* A round that ends with the machines.
skipRegistryAuths(n) ==
    /\ gc[n].pc = "auths"
    /\ gc' = [gc EXCEPT ![n] = Waiting]
    /\ UNCHANGED <<pod, job, account, history>>

pruneRegistryAuths(n) ==
    /\ gc[n].pc = "auths"
    /\ \/ gc' = [gc EXCEPT ![n].pc = "delete", ![n].todo = Dangling(n)]
       \/ gc' = [gc EXCEPT ![n] = Waiting]
    /\ UNCHANGED <<pod, job, account, history>>

deleteDangling(n) ==
    /\ gc[n].pc = "delete"
    /\ \/ \E a \in First(gc[n].todo) :
            /\ gc' = [gc EXCEPT ![n].todo = @ \ {a}]
            /\ \/ /\ auth' = [auth EXCEPT ![a] = Nil]
                  /\ taken' = IF auth[a] # Nil /\ pod[auth[a]] = "live" /\ taken[auth[a]] < 2
                              THEN [taken EXCEPT ![auth[a]] = @ + 1] ELSE taken
               \/ UNCHANGED <<auth, taken>>
       \/ gc[n].todo = {} /\ gc' = [gc EXCEPT ![n] = Waiting] /\ UNCHANGED <<auth, taken>>
    /\ UNCHANGED <<pod, job, cloud, restarts>>

Collect(n) ==
    \/ machineGarbageCollector(n) \/ listPodsInternal(n) \/ PruneDanglingMachines(n)
    \/ pruneRegistryAuths(n) \/ deleteDangling(n)

-----------------------------------------------------------------------------
\* The virtual kubelet of a node starts again: a pod that runs goes on with a machine of
\* its name; one that does not, or whose machine is gone, is provisioned from the start
\* (pods that may restart).

MapRunningMachines(p) == {m \in Machines : cloud[m] # Nil /\ cloud[m].pod = p}

Restored(p) ==
    CASE pod[p] # "live" -> {Idle}
      [] pod[p] = "live" /\ job[p].pc = "ready" /\ MapRunningMachines(p) # {} ->
            {[Idle EXCEPT !.pc = "ready", !.machine = m] : m \in MapRunningMachines(p)}
      [] OTHER -> {Start}

Restart(n) ==
    /\ restarts < MaxRestarts
    /\ \E f \in [Pods -> UNION {Restored(p) : p \in Pods} \cup {job[p] : p \in Pods}] :
         /\ \A p \in Pods : IF NodeOf[p] = n THEN f[p] \in Restored(p) ELSE f[p] = job[p]
         /\ job' = f
    /\ cloud' = [m \in Machines |-> IF \E p \in Pods : /\ NodeOf[p] = n /\ job[p].machine = m
                                                       /\ job'[p].machine # m /\ cloud[m] # Nil
                                    THEN LeftOf(cloud[m].pod) ELSE cloud[m]]
    /\ gc' = [gc EXCEPT ![n] = Waiting]
    /\ restarts' = restarts + 1
    /\ UNCHANGED <<pod, auth, taken>>

PodStep(p) ==
    \/ SelectAndProvisionMachine(p) \/ waitForMachineReady(p) \/ startupTimeout(p) \/ Stops(p)

Next ==
    \/ \E p \in Pods : CreatePod(p) \/ PodEnds(p) \/ PodStep(p)
    \/ \E m \in Machines : PullImage(m)
    \/ \E n \in Nodes : Collect(n) \/ Restart(n)

Spec == Init /\ [][Next]_vars

\* Goroutines and tickers run, and a call that is made again and again succeeds once.
FairSpec ==
    /\ Spec
    /\ \A p \in Pods : /\ WF_vars(PodStep(p))
                       /\ SF_vars(listRegistryAuths(p) /\ job'[p].seen = Named(p))
                       /\ SF_vars(deleteRegistryAuth(p) /\ Named(p)' = {})
                       /\ SF_vars(createRegistryAuth(p) /\ job'[p].pc = "rent")
                       /\ SF_vars(createPod(p) /\ job'[p].pc = "wait")
    /\ \A n \in Nodes : /\ WF_vars(Collect(n))
                        /\ SF_vars(listPodsInternal(n) /\ gc'[n].pc = "destroy")
                        /\ SF_vars(pruneRegistryAuths(n) /\ gc'[n].pc = "delete")
    /\ \A n \in Nodes, a \in Auths : SF_vars(deleteDangling(n) /\ auth[a] # Nil /\ auth'[a] = Nil)

-----------------------------------------------------------------------------
\* Properties.

Jobs == [pc : {"idle", "list", "delete", "create", "rent", "wait", "ready"},
         seen : SUBSET Auths, auth : Auths \cup {Nil}, machine : Machines \cup {Nil},
         tries : 0 .. MaxRetries]

\* Type correctness of the clients, the collectors and the account.
TypeOK ==
    /\ pod \in [Pods -> {"absent", "live", "over"}]
    /\ job \in [Pods -> Jobs]
    /\ auth \in [Auths -> Pods \cup {Nil}]
    /\ cloud \in [Machines -> [pod : Pods, auth : Auths \cup {Nil},
                               state : {"starting", "running", "left"}] \cup {Nil}]
    /\ gc \in [Nodes -> [pc : {"idle", "machines", "destroy", "auths", "delete"},
                         pods : SUBSET Pods, todo : SUBSET (Auths \cup Machines)]]
    /\ taken \in [Pods -> 0 .. 2] /\ restarts \in 0 .. MaxRestarts

\* Collectors take at most one auth from a live pod: the round whose list is older than
\* the pod is the only one that can, and it knows one ID.  So the start-up timeout of one
\* attempt is all that a collector costs, whatever is replaced, lost or restarted.
AuthTakenOnce == \A p \in Pods : taken[p] <= 1

\* A pod's provisioning gets a machine in the end, however many auths of its name earlier
\* attempts, lost answers and failed deletes have left, unless the pod ends.
RentsInTheEnd ==
    \A p \in Pods :
        (job[p].pc \in {"list", "delete", "create", "rent"}) ~> (job[p].pc \in {"wait", "idle"})

\* No auth of a pod that is over is kept for ever, one made after the end included.
AuthsCollected ==
    \A a \in Auths, p \in Pods : (auth[a] = p /\ pod[p] = "over") ~> (auth[a] # p)
=============================================================================
