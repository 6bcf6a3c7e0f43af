---------------------------- MODULE RunPodProofs ----------------------------
(***************************************************************************)
(* Registry auths on RunPod, for any number of pods, nodes, IDs, retries   *)
(* and restarts: the account and its clients are well typed, and as long   *)
(* as no node's name is a prefix of another's the collectors take at most  *)
(* one auth from a live pod.                                               *)
(***************************************************************************)
EXTENDS RunPod, TLAPS

-----------------------------------------------------------------------------
\* Type correctness.

CloudRecords == [pod : Pods, auth : Auths \cup {Nil}, state : {"starting", "running", "left"}]
Rounds == [pc : {"idle", "machines", "destroy", "auths", "delete"},
           pods : SUBSET Pods, todo : SUBSET (Auths \cup Machines)]

\* The records that attempts and rounds start with.
LEMMA StartsAre ==
    /\ Idle \in Jobs /\ Start \in Jobs /\ Waiting \in Rounds
    /\ \A t \in 0 .. MaxRetries : [Start EXCEPT !.tries = t] \in Jobs
    /\ \A p \in Pods : LeftOf(p) \in CloudRecords
<1>1. 0 \in 0 .. MaxRetries
  BY RunPodAssumption
<1> QED BY <1>1 DEF Idle, Start, Waiting, Jobs, Rounds, LeftOf, CloudRecords

\* A job that goes on to another step is a job.
LEMMA JobMoves ==
    ASSUME NEW j \in Jobs
    PROVE  /\ \A c \in {"delete", "create"}, S \in SUBSET Auths :
                [j EXCEPT !.pc = c, !.seen = S] \in Jobs
           /\ \A a \in Auths : [j EXCEPT !.pc = "rent", !.auth = a] \in Jobs
           /\ \A m \in Machines : [j EXCEPT !.pc = "wait", !.machine = m, !.auth = Nil] \in Jobs
           /\ [j EXCEPT !.pc = "ready"] \in Jobs
BY DEF Jobs

\* Nothing is rented and no collector runs at first.
LEMMA InitType == Init => TypeOK
<1> SUFFICES ASSUME Init PROVE TypeOK
  OBVIOUS
<1>1. 0 \in 0 .. 2 /\ 0 \in 0 .. MaxRestarts
  BY RunPodAssumption
<1> QED BY <1>1, StartsAre DEF Init, TypeOK, Rounds

\* Whatever comes of DestroyMachine, the account holds machines of pods.
LEMMA DestroyMachineType ==
    ASSUME TypeOK, NEW m, DestroyMachine(m)
    PROVE  cloud' \in [Machines -> CloudRecords \cup {Nil}]
<1> USE DEF TypeOK, CloudRecords
<1>1. CASE m = Nil
  BY <1>1 DEF DestroyMachine
<1>2. CASE m # Nil /\ cloud' = [cloud EXCEPT ![m] = Nil]
  BY <1>2
<1>3. CASE m # Nil /\ cloud[m] # Nil /\ cloud' = [cloud EXCEPT ![m] = LeftOf(cloud[m].pod)]
  <2>1. CASE m \in Machines
    BY <1>3, <2>1 DEF LeftOf
  <2>2. CASE m \notin Machines
    BY <1>3, <2>2
  <2> QED BY <2>1, <2>2
<1> QED BY <1>1, <1>2, <1>3 DEF DestroyMachine

\* A step of a pod's provisioning keeps the types.
LEMMA PodStepType ==
    ASSUME TypeOK, NEW p \in Pods, CreatePod(p) \/ PodEnds(p) \/ PodStep(p)
    PROVE  TypeOK'
<1> USE StartsAre DEF TypeOK, account, history, CloudRecords
<1>1. CASE CreatePod(p)
  BY <1>1 DEF CreatePod
<1>2. CASE PodEnds(p)
  BY <1>2 DEF PodEnds
<1>3. CASE listRegistryAuths(p)
  <2>1. PICK seen \in {Named(p), {}} : job' = [job EXCEPT ![p].pc = "delete", ![p].seen = seen]
    BY <1>3 DEF listRegistryAuths
  <2>2. [job[p] EXCEPT !.pc = "delete", !.seen = seen] \in Jobs
    BY JobMoves DEF Named
  <2>3. job' \in [Pods -> Jobs]
    BY <2>1, <2>2
  <2> QED BY <1>3, <2>3 DEF listRegistryAuths
<1>4. CASE deleteRegistryAuth(p)
  <2>1. job' \in [Pods -> Jobs]
    <3>1. [job[p] EXCEPT !.pc = "create", !.seen = {}] \in Jobs
      BY JobMoves
    <3> QED BY <1>4, <3>1 DEF deleteRegistryAuth
  <2>2. auth' \in [Auths -> Pods \cup {Nil}]
    BY <1>4 DEF deleteRegistryAuth
  <2> QED BY <1>4, <2>1, <2>2 DEF deleteRegistryAuth
<1>5. ASSUME Again(p) PROVE job' \in [Pods -> Jobs]
  <2>1. job[p].tries \in 0 .. MaxRetries
    BY DEF Jobs
  <2> QED BY <1>5, <2>1 DEF Again
<1>6. CASE createRegistryAuth(p)
  <2>1. \A a \in First(UnusedAuths) : a \in Auths
    BY DEF First, UnusedAuths
  <2>2. job' \in [Pods -> Jobs]
    <3>1. ASSUME NEW a \in Auths, job' = [job EXCEPT ![p].pc = "rent", ![p].auth = a]
          PROVE  job' \in [Pods -> Jobs]
      <4>1. [job[p] EXCEPT !.pc = "rent", !.auth = a] \in Jobs
        BY JobMoves
      <4> QED BY <3>1, <4>1
    <3> QED BY <1>5, <1>6, <2>1, <3>1 DEF createRegistryAuth
  <2>3. auth' \in [Auths -> Pods \cup {Nil}]
    BY <1>6, <2>1 DEF createRegistryAuth
  <2> QED BY <1>6, <2>2, <2>3 DEF createRegistryAuth
<1>7. CASE createPod(p)
  <2>1. \A m \in First(UnusedMachines) : m \in Machines
    BY DEF First, UnusedMachines
  <2>2. job' \in [Pods -> Jobs]
    <3>1. ASSUME NEW m \in Machines,
                 job' = [job EXCEPT ![p].pc = "wait", ![p].machine = m, ![p].auth = Nil]
          PROVE  job' \in [Pods -> Jobs]
      <4>1. [job[p] EXCEPT !.pc = "wait", !.machine = m, !.auth = Nil] \in Jobs
        BY JobMoves
      <4> QED BY <3>1, <4>1
    <3> QED BY <1>5, <1>7, <2>1, <3>1 DEF createPod
  <2>3. [pod |-> p, auth |-> job[p].auth, state |-> "starting"] \in CloudRecords
    BY DEF Jobs
  <2>4. cloud' \in [Machines -> CloudRecords \cup {Nil}]
    BY <1>7, <2>1, <2>3 DEF createPod
  <2> QED BY <1>7, <2>2, <2>4 DEF createPod
<1>8. CASE waitForMachineReady(p)
  <2>1. job' \in [Pods -> Jobs]
    <3>1. [job[p] EXCEPT !.pc = "ready"] \in Jobs
      BY JobMoves
    <3> QED BY <1>8, <3>1 DEF waitForMachineReady, Goto
  <2> QED BY <1>8, <2>1 DEF waitForMachineReady
<1>9. CASE startupTimeout(p)
  <2>1. job[p].tries < MaxRetries => job[p].tries + 1 \in 0 .. MaxRetries
    BY RunPodAssumption DEF Jobs
  <2>2. job' \in [Pods -> Jobs]
    BY <1>9, <2>1 DEF startupTimeout
  <2> QED BY <1>9, <2>2, DestroyMachineType DEF startupTimeout
<1>10. CASE Stops(p)
  BY <1>10, DestroyMachineType DEF Stops
<1> QED BY <1>1, <1>2, <1>3, <1>4, <1>6, <1>7, <1>8, <1>9, <1>10
        DEF PodStep, SelectAndProvisionMachine

\* A step of a collector keeps the types.
LEMMA CollectType ==
    ASSUME TypeOK, NEW n \in Nodes, Collect(n)
    PROVE  TypeOK'
<1> USE StartsAre DEF TypeOK, account, history
<1>1. ASSUME NEW r \in Rounds, gc' = [gc EXCEPT ![n] = r] PROVE gc' \in [Nodes -> Rounds]
  BY <1>1 DEF Rounds
<1>2. CASE machineGarbageCollector(n)
  <2>1. gc' \in [Nodes -> Rounds]
    BY <1>2 DEF machineGarbageCollector, Rounds
  <2> QED BY <1>2, <2>1 DEF machineGarbageCollector, Rounds
<1>3. CASE listPodsInternal(n)
  <2>1. gc' \in [Nodes -> Rounds]
    BY <1>1, <1>3 DEF listPodsInternal, Rounds
  <2> QED BY <1>3, <2>1 DEF listPodsInternal, Rounds
<1>4. CASE PruneDanglingMachines(n)
  <2>1. gc' \in [Nodes -> Rounds]
    BY <1>4 DEF PruneDanglingMachines, Rounds
  <2>2. cloud' \in [Machines -> CloudRecords \cup {Nil}]
    BY <1>4, DestroyMachineType DEF PruneDanglingMachines, CloudRecords
  <2> QED BY <1>4, <2>1, <2>2 DEF PruneDanglingMachines, Rounds, CloudRecords
<1>5. CASE pruneRegistryAuths(n)
  <2>1. gc' \in [Nodes -> Rounds]
    BY <1>1, <1>5 DEF pruneRegistryAuths, Dangling, Rounds
  <2> QED BY <1>5, <2>1 DEF pruneRegistryAuths, Rounds
<1>6. CASE deleteDangling(n)
  <2>1. gc' \in [Nodes -> Rounds]
    BY <1>1, <1>6 DEF deleteDangling, Rounds
  <2>2. auth' \in [Auths -> Pods \cup {Nil}]
    BY <1>6 DEF deleteDangling
  <2>3. \A q \in Pods : taken[q] < 2 => taken[q] + 1 \in 0 .. 2
    OBVIOUS
  <2>4. taken' \in [Pods -> 0 .. 2]
    BY <1>6, <2>3 DEF deleteDangling
  <2> QED BY <1>6, <2>1, <2>2, <2>4 DEF deleteDangling, Rounds
<1> QED BY <1>2, <1>3, <1>4, <1>5, <1>6 DEF Collect

\* An image that is pulled, and a virtual kubelet that starts again, keep the types.
LEMMA RestType ==
    ASSUME TypeOK, (\E m \in Machines : PullImage(m)) \/ (\E n \in Nodes : Restart(n))
    PROVE  TypeOK'
<1> USE StartsAre DEF TypeOK, account, history
<1>1. ASSUME NEW m \in Machines, PullImage(m) PROVE TypeOK'
  BY <1>1 DEF PullImage
<1>2. ASSUME NEW n \in Nodes, Restart(n) PROVE TypeOK'
  <2>1. \A p \in Pods : Restored(p) \subseteq Jobs
    <3> SUFFICES ASSUME NEW p \in Pods, NEW j \in Restored(p) PROVE j \in Jobs
      OBVIOUS
    <3>1. CASE pod[p] # "live"
      BY <3>1 DEF Restored
    <3>2. CASE pod[p] = "live" /\ job[p].pc = "ready" /\ MapRunningMachines(p) # {}
      <4>1. PICK m \in MapRunningMachines(p) : j = [Idle EXCEPT !.pc = "ready", !.machine = m]
        BY <3>2 DEF Restored
      <4>2. m \in Machines
        BY DEF MapRunningMachines
      <4> QED BY <4>1, <4>2 DEF Jobs
    <3>3. CASE pod[p] = "live" /\ ~(job[p].pc = "ready" /\ MapRunningMachines(p) # {})
      BY <3>3 DEF Restored
    <3> QED BY <3>1, <3>2, <3>3
  <2>2. job' \in [Pods -> Jobs]
    BY <1>2, <2>1 DEF Restart
  <2>3. cloud' \in [Machines -> CloudRecords \cup {Nil}]
    <3>1. \A m \in Machines : cloud[m] # Nil => LeftOf(cloud[m].pod) \in CloudRecords
      OBVIOUS
    <3> QED BY <1>2, <3>1 DEF Restart, CloudRecords
  <2>4. gc' \in [Nodes -> Rounds]
    BY <1>2 DEF Restart, Rounds
  <2>5. restarts' \in 0 .. MaxRestarts
    BY <1>2, RunPodAssumption DEF Restart
  <2> QED BY <1>2, <2>2, <2>3, <2>4, <2>5 DEF Restart, CloudRecords, Rounds
<1> QED BY <1>1, <1>2

\* Every step keeps the types.
LEMMA NextType == TypeOK /\ [Next]_vars => TypeOK'
<1> SUFFICES ASSUME TypeOK, [Next]_vars PROVE TypeOK'
  OBVIOUS
<1>1. CASE UNCHANGED vars
  BY <1>1 DEF vars, account, history, TypeOK
<1>2. CASE Next
  BY <1>2, PodStepType, CollectType, RestType DEF Next
<1> QED BY <1>1, <1>2

\* The clients, the collectors and the account are well typed, whatever calls fail, lose
\* their answers or are repeated.
THEOREM RunPodTypeCorrect == Spec => []TypeOK
BY InitType, NextType, PTL DEF Spec

-----------------------------------------------------------------------------
\* At most one auth is taken from a live pod.

\* An auth's name is its own (createRegistryAuth refuses a name that exists).
NamesUnique == \A a, b \in Auths : (auth[a] = auth[b] /\ auth[a] # Nil) => a = b

\* What a collector has left to delete is gone already, or named after a pod of its node
\* that was not listed: IDs that somebody remembers are not given out again.
TodoUnlisted ==
    \A n \in Nodes : gc[n].pc = "delete" =>
        \A a \in gc[n].todo :
            a \in Auths /\ (auth[a] = Nil \/ (NodeOf[auth[a]] = n /\ auth[a] \notin gc[n].pods))

\* A pod a collector has taken an auth from is safe from the collector of its node: no
\* round is on, the round has listed the pod, or what it has left to delete is not the
\* pod's.
SafeFrom(n, p) ==
    \/ gc[n].pc = "idle" \/ p \in gc[n].pods
    \/ gc[n].pc = "delete" /\ \A a \in gc[n].todo : auth[a] # p

TakenSafe ==
    \A p \in Pods : /\ pod[p] = "absent" => taken[p] = 0
                    /\ (pod[p] = "live" /\ taken[p] # 0) => SafeFrom(NodeOf[p], p)

TakenIInv == TypeOK /\ NamesUnique /\ TodoUnlisted /\ TakenSafe /\ AuthTakenOnce

\* A step that gives no auth a new name and leaves the rounds, the pods and the history
\* alone keeps the invariant.
LEMMA AuthsOnlyGo ==
    ASSUME TakenIInv, TypeOK', UNCHANGED <<gc, taken>>,
           \A p \in Pods : pod'[p] = pod[p] \/ (pod[p] = "absent" /\ pod'[p] = "live")
                           \/ (pod[p] = "live" /\ pod'[p] = "over"),
           \A a \in Auths : auth'[a] = auth[a] \/ auth'[a] = Nil
    PROVE  TakenIInv'
<1> USE DEF TakenIInv
<1>1. NamesUnique'
  BY DEF NamesUnique
<1>2. TodoUnlisted'
  BY DEF TodoUnlisted
<1>3. TakenSafe'
  <2> SUFFICES ASSUME NEW p \in Pods
               PROVE  /\ pod'[p] = "absent" => taken[p] = 0
                      /\ (pod'[p] = "live" /\ taken[p] # 0) => SafeFrom(NodeOf[p], p)'
    BY DEF TakenSafe
  <2>1. pod'[p] = "absent" => taken[p] = 0
    BY DEF TakenSafe
  <2>2. ASSUME pod'[p] = "live", taken[p] # 0 PROVE SafeFrom(NodeOf[p], p)'
    <3>1. SafeFrom(NodeOf[p], p) /\ NodeOf[p] \in Nodes
      BY <2>2, RunPodAssumption DEF TakenSafe
    <3>2. \A a \in gc[NodeOf[p]].todo : gc[NodeOf[p]].pc = "delete" => a \in Auths
      BY <3>1 DEF TodoUnlisted
    <3>3. p # Nil
      BY RunPodAssumption
    <3> QED BY <3>1, <3>2, <3>3 DEF SafeFrom
  <2> QED BY <2>1, <2>2
<1>4. AuthTakenOnce'
  BY DEF AuthTakenOnce
<1> QED BY <1>1, <1>2, <1>3, <1>4

\* The provisioning of a pod makes the only auth of its name, with an ID that no collector
\* has in hand.
LEMMA PodStepTaken ==
    ASSUME TakenIInv, NEW p \in Pods, CreatePod(p) \/ PodEnds(p) \/ PodStep(p)
    PROVE  TakenIInv'
<1>1. TypeOK /\ TypeOK'
  BY PodStepType DEF TakenIInv
<1>2. UNCHANGED <<gc, taken>>
  BY DEF CreatePod, PodEnds, PodStep, SelectAndProvisionMachine, listRegistryAuths,
         deleteRegistryAuth, createRegistryAuth, createPod, waitForMachineReady,
         startupTimeout, Stops, history
<1>3. CASE createRegistryAuth(p) /\ auth' # auth
  <2>1. UNCHANGED pod /\ Named(p) = {}
    BY <1>3 DEF createRegistryAuth
  <2>2. PICK a \in First(UnusedAuths) : auth' = [auth EXCEPT ![a] = p]
    BY <1>3 DEF createRegistryAuth
  <2>3. a \in UnusedAuths /\ a \in Auths /\ auth[a] = Nil
    BY DEF First, UnusedAuths
  <2>4. \A n \in Nodes : gc[n].pc = "delete" => a \notin gc[n].todo
    BY <2>3 DEF UnusedAuths
  <2>5. \A b \in Auths : auth'[b] = IF b = a THEN p ELSE auth[b]
    BY <1>1, <2>2, <2>3 DEF TypeOK
  <2>6. NamesUnique'
    BY <2>1, <2>5 DEF NamesUnique, Named, TakenIInv
  <2>7. TodoUnlisted'
    BY <1>2, <2>4, <2>5 DEF TodoUnlisted, TakenIInv
  <2>8. TakenSafe'
    <3> SUFFICES ASSUME NEW q \in Pods, pod[q] = "live", taken[q] # 0
                 PROVE  SafeFrom(NodeOf[q], q)'
      BY <1>2, <2>1 DEF TakenSafe, TakenIInv
    <3>1. SafeFrom(NodeOf[q], q) /\ NodeOf[q] \in Nodes
      BY RunPodAssumption DEF TakenSafe, TakenIInv
    <3>2. gc[NodeOf[q]].pc = "delete" => \A b \in gc[NodeOf[q]].todo : b \in Auths
      BY <3>1 DEF TodoUnlisted, TakenIInv
    <3> QED BY <1>2, <2>4, <2>5, <3>1, <3>2 DEF SafeFrom
  <2> QED BY <1>1, <1>2, <2>6, <2>7, <2>8 DEF TakenIInv, AuthTakenOnce
<1>4. CASE ~(createRegistryAuth(p) /\ auth' # auth)
  <2>1. \A a \in Auths : auth'[a] = auth[a] \/ auth'[a] = Nil
    BY <1>4 DEF CreatePod, PodEnds, PodStep, SelectAndProvisionMachine, listRegistryAuths,
         deleteRegistryAuth, createPod, waitForMachineReady, startupTimeout, Stops, account
  <2>2. \A q \in Pods : pod'[q] = pod[q] \/ (pod[q] = "absent" /\ pod'[q] = "live")
                        \/ (pod[q] = "live" /\ pod'[q] = "over")
    BY <1>1 DEF TypeOK, CreatePod, PodEnds, PodStep, SelectAndProvisionMachine,
         listRegistryAuths, deleteRegistryAuth, createRegistryAuth, createPod,
         waitForMachineReady, startupTimeout, Stops
  <2> QED BY <1>1, <1>2, <2>1, <2>2, AuthsOnlyGo DEF TakenIInv
<1> QED BY <1>3, <1>4

\* The collector of a node whose name is the prefix of no other's: it lists the live pods
\* of its node first, so that a pod it takes an auth from is younger than its list, and no
\* later round takes another.
LEMMA CollectTaken ==
    ASSUME TakenIInv, Prefixed = {}, NEW n \in Nodes, Collect(n)
    PROVE  TakenIInv'
<1>1. TypeOK /\ TypeOK'
  BY CollectType DEF TakenIInv
<1>2. UNCHANGED pod
  BY DEF Collect, machineGarbageCollector, listPodsInternal, PruneDanglingMachines,
         pruneRegistryAuths, deleteDangling
<1>3. \A k \in Nodes : k # n => gc'[k] = gc[k]
  BY <1>1 DEF TypeOK, Collect, machineGarbageCollector, listPodsInternal,
         PruneDanglingMachines, pruneRegistryAuths, deleteDangling
<1>4. CASE UNCHANGED <<auth, taken>>
  <2>1. ASSUME NEW p \in Pods, pod[p] = "live", taken[p] # 0, NodeOf[p] = n
        PROVE  SafeFrom(n, p)'
    <3>1. SafeFrom(n, p)
      BY <2>1 DEF TakenSafe, TakenIInv
    <3>2. CASE machineGarbageCollector(n)
      BY <1>1, <2>1, <3>2 DEF TypeOK, machineGarbageCollector, SafeFrom
    <3>3. CASE listPodsInternal(n)
      BY <1>1, <3>1, <3>3 DEF TypeOK, listPodsInternal, SafeFrom, Waiting
    <3>4. CASE PruneDanglingMachines(n)
      BY <1>1, <3>1, <3>4 DEF TypeOK, PruneDanglingMachines, SafeFrom
    <3>5. CASE pruneRegistryAuths(n)
      BY <1>1, <3>1, <3>5 DEF TypeOK, pruneRegistryAuths, SafeFrom, Waiting
    <3>6. CASE deleteDangling(n)
      BY <1>1, <1>4, <3>1, <3>6 DEF TypeOK, deleteDangling, SafeFrom, Waiting
    <3> QED BY <3>2, <3>3, <3>4, <3>5, <3>6 DEF Collect
  <2>2. TakenSafe'
    BY <1>2, <1>3, <1>4, <2>1, RunPodAssumption DEF TakenSafe, TakenIInv, SafeFrom
  <2>3. ASSUME gc'[n].pc = "delete"
        PROVE  \A a \in gc'[n].todo : a \in Auths /\ (auth[a] = Nil
                 \/ (NodeOf[auth[a]] = n /\ auth[a] \notin gc'[n].pods))
    <3>1. CASE pruneRegistryAuths(n)
      BY <1>1, <2>3, <3>1 DEF TypeOK, pruneRegistryAuths, Dangling, Waiting
    <3>2. CASE deleteDangling(n)
      BY <1>1, <2>3, <3>2 DEF TypeOK, deleteDangling, Waiting, TodoUnlisted, TakenIInv
    <3>3. CASE machineGarbageCollector(n) \/ listPodsInternal(n) \/ PruneDanglingMachines(n)
      BY <1>1, <2>3, <3>3 DEF TypeOK, machineGarbageCollector, listPodsInternal,
             PruneDanglingMachines, Waiting
    <3> QED BY <3>1, <3>2, <3>3 DEF Collect
  <2>4. TodoUnlisted'
    BY <1>3, <1>4, <2>3 DEF TodoUnlisted, TakenIInv
  <2> QED BY <1>1, <1>4, <2>2, <2>4 DEF TakenIInv, NamesUnique, AuthTakenOnce
<1>5. CASE ~UNCHANGED <<auth, taken>>
  <2>1. gc[n].pc = "delete"
    BY <1>5 DEF Collect, machineGarbageCollector, listPodsInternal, PruneDanglingMachines,
           pruneRegistryAuths, deleteDangling, account, history
  <2>2. PICK a \in gc[n].todo :
          /\ gc' = [gc EXCEPT ![n].todo = @ \ {a}]
          /\ auth' = [auth EXCEPT ![a] = Nil]
          /\ taken' = IF auth[a] # Nil /\ pod[auth[a]] = "live" /\ taken[auth[a]] < 2
                      THEN [taken EXCEPT ![auth[a]] = @ + 1] ELSE taken
    BY <1>5 DEF Collect, machineGarbageCollector, listPodsInternal, PruneDanglingMachines,
           pruneRegistryAuths, deleteDangling, account, history, First
  <2>3. /\ a \in Auths
        /\ auth[a] = Nil \/ (NodeOf[auth[a]] = n /\ auth[a] \notin gc[n].pods)
    BY <2>1 DEF TodoUnlisted, TakenIInv
  <2>4. /\ gc'[n].pc = "delete" /\ gc'[n].pods = gc[n].pods
        /\ gc'[n].todo = gc[n].todo \ {a}
    BY <1>1, <2>1, <2>2 DEF TypeOK
  <2>5. \A b \in Auths : auth'[b] = IF b = a THEN Nil ELSE auth[b]
    BY <1>1, <2>2 DEF TypeOK
  <2>6. NamesUnique'
    BY <2>5 DEF NamesUnique, TakenIInv
  <2>7. TodoUnlisted'
    BY <1>3, <2>1, <2>4, <2>5 DEF TodoUnlisted, TakenIInv
  <2>8. \* Its first auth: none that is left to delete is the pod's.
        ASSUME NEW p \in Pods, auth[a] = p, pod[p] = "live"
        PROVE  taken[p] = 0 /\ \A b \in gc'[n].todo : auth'[b] # p
    <3>1. p # Nil /\ NodeOf[p] = n
      BY <2>3, <2>8, RunPodAssumption
    <3>2. taken[p] = 0
      BY <2>1, <2>3, <2>8, <3>1 DEF TakenSafe, SafeFrom, TakenIInv
    <3>3. \A b \in gc'[n].todo : b \in Auths /\ b # a
      BY <2>1, <2>4 DEF TodoUnlisted, TakenIInv
    <3>4. \A b \in Auths : b # a => auth[b] # p
      BY <2>3, <2>8, <3>1 DEF NamesUnique, TakenIInv
    <3> QED BY <2>5, <3>2, <3>3, <3>4
  <2>9. \A p \in Pods : taken'[p] = taken[p] \/ (auth[a] = p /\ pod[p] = "live" /\ taken'[p] = taken[p] + 1)
    BY <1>1, <2>2 DEF TypeOK
  <2>10. TakenSafe'
    <3> SUFFICES ASSUME NEW p \in Pods
                 PROVE  /\ pod[p] = "absent" => taken'[p] = 0
                        /\ (pod[p] = "live" /\ taken'[p] # 0) => SafeFrom(NodeOf[p], p)'
      BY <1>2 DEF TakenSafe
    <3>1. pod[p] = "absent" => taken'[p] = 0
      BY <2>9 DEF TakenSafe, TakenIInv
    <3>2. ASSUME pod[p] = "live", taken'[p] # 0 PROVE SafeFrom(NodeOf[p], p)'
      <4>1. CASE auth[a] = p
        <5>1. NodeOf[p] = n
          BY <2>3, <4>1, RunPodAssumption
        <5> QED BY <2>4, <2>8, <3>2, <4>1, <5>1 DEF SafeFrom
      <4>2. CASE auth[a] # p
        <5>1. SafeFrom(NodeOf[p], p) /\ NodeOf[p] \in Nodes /\ p # Nil
          BY <2>9, <3>2, <4>2, RunPodAssumption DEF TakenSafe, TakenIInv
        <5>2. \A b \in gc[NodeOf[p]].todo : gc[NodeOf[p]].pc = "delete" => b \in Auths
          BY <5>1 DEF TodoUnlisted, TakenIInv
        <5> QED BY <1>3, <2>1, <2>4, <2>5, <5>1, <5>2 DEF SafeFrom
      <4> QED BY <4>1, <4>2
    <3> QED BY <3>1, <3>2
  <2>11. AuthTakenOnce'
    <3> SUFFICES ASSUME NEW p \in Pods PROVE taken'[p] <= 1
      BY DEF AuthTakenOnce
    <3>1. CASE taken'[p] = taken[p]
      BY <3>1 DEF AuthTakenOnce, TakenIInv
    <3>2. CASE auth[a] = p /\ pod[p] = "live" /\ taken'[p] = taken[p] + 1
      BY <2>8, <3>2
    <3> QED BY <2>9, <3>1, <3>2
  <2> QED BY <1>1, <2>6, <2>7, <2>10, <2>11 DEF TakenIInv
<1> QED BY <1>4, <1>5

\* A machine that pulls its image touches none of it; a virtual kubelet that starts again
\* has no round on.
LEMMA RestTaken ==
    ASSUME TakenIInv, (\E m \in Machines : PullImage(m)) \/ (\E n \in Nodes : Restart(n))
    PROVE  TakenIInv'
<1>1. TypeOK /\ TypeOK'
  BY RestType DEF TakenIInv
<1>2. ASSUME NEW m \in Machines, PullImage(m) PROVE TakenIInv'
  BY <1>1, <1>2, AuthsOnlyGo DEF PullImage, history, TakenIInv
<1>3. ASSUME NEW n \in Nodes, Restart(n) PROVE TakenIInv'
  <2>1. UNCHANGED <<pod, auth, taken>> /\ \A k \in Nodes : gc'[k] = gc[k] \/ gc'[k] = Waiting
    BY <1>1, <1>3 DEF Restart, TypeOK
  <2>2. TodoUnlisted'
    BY <2>1 DEF TodoUnlisted, Waiting, TakenIInv
  <2>3. TakenSafe'
    BY <2>1, RunPodAssumption DEF TakenSafe, SafeFrom, Waiting, TakenIInv
  <2> QED BY <1>1, <2>1, <2>2, <2>3 DEF TakenIInv, NamesUnique, AuthTakenOnce
<1> QED BY <1>2, <1>3

\* With no node's name the prefix of another's, collectors take at most one auth from a
\* pod while it lives, for any pods, nodes and failures: the round whose list is older than
\* the pod, once.  (RunPodPrefix.cfg shows that the assumption is needed.)
THEOREM AuthTakenAtMostOnce ==
    ASSUME Prefixed = {}
    PROVE  Spec => []AuthTakenOnce
<1>1. Init => TakenIInv
  BY InitType DEF Init, TakenIInv, NamesUnique, TodoUnlisted, TakenSafe, AuthTakenOnce, Waiting
<1>2. TakenIInv /\ [Next]_vars => TakenIInv'
  <2> SUFFICES ASSUME TakenIInv, [Next]_vars PROVE TakenIInv'
    OBVIOUS
  <2>1. CASE UNCHANGED vars
    BY <2>1, NextType, AuthsOnlyGo DEF vars, account, history, TakenIInv
  <2>2. CASE Next
    BY <2>2, PodStepTaken, CollectTaken, RestTaken DEF Next
  <2> QED BY <2>1, <2>2
<1>3. TakenIInv => AuthTakenOnce
  BY DEF TakenIInv
<1> QED BY <1>1, <1>2, <1>3, PTL DEF Spec
=============================================================================
