--------------------------- MODULE ProviderProofs ---------------------------
(***************************************************************************)
(* The virtual-kubelet provider, for any pods, keys, slots, machines,        *)
(* workers, faults and numbers of restarts.  Without further assumptions:    *)
(* the state is well typed, at most one lifecycle loop acts for a pod, and   *)
(* DeletePod finds the cancel function it calls.  Under the assumptions each *)
(* theorem names: no loop dereferences what is gone, a slot belongs to one   *)
(* pod, no slot is lost, and a finished phase stays.                         *)
(***************************************************************************)
EXTENDS Provider, TLAPS

-----------------------------------------------------------------------------
\* The inductive invariant.  Everything about one pod is in PodInv, which speaks of the
\* pod's own goroutines, lock and VirtualPod only.

\* Where a round of a lifecycle loop holds SyncUpdateDelete.
InRound == {"backoff", "restart", "finalize", "destroy"}

\* A round in progress holds the lock, alone.
RoundsLocked(p) ==
    /\ \A g \in Gens : loop[p][g] \in InRound => lock[p] = "loop"
    /\ \A g, h \in Gens : (loop[p][g] \in InRound /\ loop[p][h] \in InRound) => g = h
    /\ \A g \in Gens : loop[p][g] \in {"backoff", "restart"} => gens[p] < MaxGen
    /\ \A g \in Gens : loop[p][g] = "backoff" => g > 0

\* Goroutines work on a VirtualPod that is there, with the cancel functions set.
GoroutinesKnow(p) ==
    /\ \A g \in Gens : prov[p][g].pc # "off" => vp[p] # Nil /\ vp[p].provCancel # Nil
    /\ \A g \in Gens : prov[p][g].pc = "complete" => vp[p].lifeCancel # Nil
    /\ \A g \in Gens : prov[p][g].pc = "remove" => prov[p][g].next \in {"select", "fail", "done"}
    /\ \A g \in Gens : loop[p][g] # "off" =>
         vp[p] # Nil /\ vp[p].lifeCancel # Nil /\ (g > 0 => vp[p].provCancel # Nil)

\* A provisioned pod has a loop to cancel, any other an initialization, but for the round
\* that is about to start one.
CancelKnown(p) ==
    IF vp[p] = Nil THEN gens[p] = 0
    ELSE IF vp[p].completed THEN vp[p].lifeCancel # Nil
    ELSE vp[p].provCancel = Nil => \E g \in Gens : loop[p][g] = "restart"

\* An initialization that has not started its loop yet and still may.
BeforeLoop(p, g) ==
    \/ prov[p][g].pc \in {"op", "restart", "leftover", "select", "ready", "agent", "startLoop",
                          "cleanup", "fail"}
    \/ prov[p][g].pc = "remove" /\ prov[p][g].next # "done"

\* Only the last generation has an initialization before its loop or a loop that acts, and
\* not both; lifeCancel is that loop's.
LastGeneration(p) ==
    /\ \A g \in Gens : g > gens[p] => prov[p][g].pc = "off" /\ loop[p][g] = "off"
    /\ \A g \in Gens : BeforeLoop(p, g) => g = gens[p] /\ loop[p][g] = "off"
    /\ \A g \in Gens : loop[p][g] \in InRound => g = gens[p]
    /\ \A g \in Gens : Active(p, g) => g = gens[p] /\ vp[p].lifeCancel = g

PodInv(p) == RoundsLocked(p) /\ GoroutinesKnow(p) /\ CancelKnown(p) /\ LastGeneration(p)

\* The map of pods: an entry is a VirtualPod of that key and of a pod that exists; a
\* VirtualPod that has no entry belongs to a pod that is gone.
There(p) == pod[p] \in {"live", "deleting"}

Registered ==
    /\ \A p, q \in Pods : (There(p) /\ There(q) /\ KeyOf[p] = KeyOf[q]) => p = q
    /\ \A p, q \in Pods : virtualPods[KeyOf[p]] = q =>
         KeyOf[q] = KeyOf[p] /\ vp[q] # Nil /\ There(q)
    /\ \A p \in Pods : vp[p] # Nil => virtualPods[KeyOf[p]] = p \/ pod[p] = "gone"

\* What a worker in the middle of CreatePod, UpdatePod or DeletePod relies on.
WorkerKnows(w) ==
    /\ wk[w].pc # "idle" => wk[w].pod \in Pods
    /\ wk[w].pc = "create" => There(wk[w].pod) /\ virtualPods[KeyOf[wk[w].pod]] = Nil
    /\ wk[w].pc = "update" => wk[w].copy # Nil /\ virtualPods[KeyOf[wk[w].pod]] # Nil
    /\ wk[w].pc \in {"lock", "destroy"} =>
         wk[w].target = wk[w].pod /\ virtualPods[KeyOf[wk[w].pod]] = wk[w].pod
    /\ wk[w].pc = "destroy" => lock[wk[w].pod] = w

OneWorkerPerKey ==
    \A w, u \in Workers :
        (wk[w].pc # "idle" /\ wk[u].pc # "idle" /\ KeyOf[wk[w].pod] = KeyOf[wk[u].pod]) => w = u

ProviderIInv ==
    /\ TypeOK /\ Registered /\ OneWorkerPerKey
    /\ \A w \in Workers : WorkerKnows(w)
    /\ \A p \in Pods : PodInv(p)

\* The type invariant in the parts the actions change.
ProvRecords == [pc : ProvSteps, next : ProvSteps, restartOnly : BOOLEAN, tries : 0 .. MaxRetries]
LoopSteps == {"off", "tick", "backoff", "restart", "finalize", "destroy", "ended"}
WorkerRecords ==
    [pc : {"idle", "create", "update", "lock", "destroy"}, pod : Pods \cup {Nil},
     target : Pods \cup {Nil}, slot : Slots, copy : PodObjects \cup {Nil}]
MachineRecords ==
    [pod : Pods, slot : Slots, state : {"starting", "running", "failed", "gone"},
     agent : {"Waiting", "Running", "ExitZero", "ExitError"}, files : BOOLEAN]

PodsOK == pod \in [Pods -> {"absent", "live", "deleting", "gone"}] /\ api \in [Pods -> PodObjects]
MapsOK == assigned \in [Slots -> BOOLEAN] /\ virtualPods \in [Keys -> Pods \cup {Nil}]
VpOK == vp \in [Pods -> VirtualPods \cup {Nil}]
LockOK == lock \in [Pods -> Workers \cup {"loop", Nil}]
ProvOK == prov \in [Pods -> [Gens -> ProvRecords]]
LoopOK == loop \in [Pods -> [Gens -> LoopSteps]] /\ gens \in [Pods -> Gens]
CancelledOK == provCancelled \subseteq Pods \X Gens /\ lifeCancelled \subseteq Pods \X Gens
WorkersOK == wk \in [Workers -> WorkerRecords]
CloudOK == cloud \in [Machines -> MachineRecords \cup {Nil}]
ProcessOK ==
    gc \in [pods : SUBSET Pods] \cup {Nil} /\ panicked \in BOOLEAN /\ restarts \in 0 .. MaxRestarts

\* The parts are the whole.
LEMMA TypeParts ==
    TypeOK <=> /\ PodsOK /\ MapsOK /\ VpOK /\ LockOK /\ ProvOK /\ LoopOK /\ CancelledOK
               /\ WorkersOK /\ CloudOK /\ ProcessOK
BY DEF TypeOK, PodsOK, MapsOK, VpOK, LockOK, ProvOK, LoopOK, CancelledOK, WorkersOK, CloudOK,
       ProcessOK, ProvRecords, LoopSteps, WorkerRecords, MachineRecords

\* The same after a step.
LEMMA TypePartsNext ==
    TypeOK' <=> /\ PodsOK' /\ MapsOK' /\ VpOK' /\ LockOK' /\ ProvOK' /\ LoopOK' /\ CancelledOK'
                /\ WorkersOK' /\ CloudOK' /\ ProcessOK'
BY DEF TypeOK, PodsOK, MapsOK, VpOK, LockOK, ProvOK, LoopOK, CancelledOK, WorkersOK, CloudOK,
       ProcessOK, ProvRecords, LoopSteps, WorkerRecords, MachineRecords

-----------------------------------------------------------------------------
\* Frames.

\* Nothing about a pod changes in a step that leaves its goroutines, its lock and its
\* VirtualPod alone.
LEMMA OtherPod ==
    ASSUME NEW q \in Pods, PodInv(q),
           vp'[q] = vp[q], prov'[q] = prov[q], loop'[q] = loop[q], gens'[q] = gens[q],
           lock'[q] = lock[q] \/ lock[q] # "loop",
           \A g \in Gens : <<q, g>> \in lifeCancelled => <<q, g>> \in lifeCancelled'
    PROVE  PodInv(q)'
<1>1. RoundsLocked(q)'
  BY DEF PodInv, RoundsLocked
<1>2. GoroutinesKnow(q)' /\ CancelKnown(q)'
  BY DEF PodInv, GoroutinesKnow, CancelKnown
<1>3. LastGeneration(q)'
  BY DEF PodInv, LastGeneration, BeforeLoop, Active
<1> QED BY <1>1, <1>2, <1>3 DEF PodInv

\* Workers and the map of pods are untouched by a step of a pod's goroutines.
LEMMA WorkersKeep ==
    ASSUME ProviderIInv, UNCHANGED <<pod, virtualPods, wk>>,
           \A q \in Pods : vp[q] = Nil <=> vp'[q] = Nil,
           \A q \in Pods : lock'[q] = lock[q] \/ lock[q] \notin Workers
    PROVE  Registered' /\ OneWorkerPerKey' /\ \A w \in Workers : WorkerKnows(w)'
<1>1. Registered' /\ OneWorkerPerKey'
  BY DEF ProviderIInv, Registered, OneWorkerPerKey, There
<1>2. ASSUME NEW w \in Workers PROVE WorkerKnows(w)'
  <2>1. WorkerKnows(w)
    BY DEF ProviderIInv
  <2> QED BY <2>1 DEF WorkerKnows, There
<1> QED BY <1>1, <1>2

-----------------------------------------------------------------------------
\* initializeVirtualPod.

\* What every step of an initialization but the start of its loop does to its pod: it goes on,
\* changes no cancel function, and marks the pod provisioned only after the loop was started.
LEMMA InitKeeps ==
    ASSUME NEW p \in Pods, NEW g \in Gens, ProvOK, LoopOK, PodInv(p),
           prov[p][g].pc # "off",
           \A h \in Gens \ {g} : prov'[p][h] = prov[p][h],
           prov'[p][g].pc # "complete",
           prov'[p][g].pc = "remove" => prov'[p][g].next \in {"select", "fail", "done"},
           BeforeLoop(p, g)' => BeforeLoop(p, g),
           vp'[p] # Nil, vp'[p].provCancel = vp[p].provCancel, vp'[p].lifeCancel = vp[p].lifeCancel,
           vp'[p].completed => vp[p].completed \/ prov[p][g].pc = "complete",
           UNCHANGED <<loop, lock, gens, lifeCancelled>>
    PROVE  PodInv(p)'
<1>1. RoundsLocked(p)'
  BY DEF PodInv, RoundsLocked
<1>2. GoroutinesKnow(p)'
  BY DEF PodInv, GoroutinesKnow
<1>3. CancelKnown(p)'
  BY DEF PodInv, CancelKnown, GoroutinesKnow
<1>4. LastGeneration(p)'
  <2>1. \A h \in Gens : h > gens[p] => h # g
    BY DEF PodInv, LastGeneration
  <2>2. \A h \in Gens : BeforeLoop(p, h)' => BeforeLoop(p, h)
    BY DEF BeforeLoop
  <2>3. \A h \in Gens : Active(p, h)' => Active(p, h)
    BY DEF Active
  <2> QED BY <2>1, <2>2, <2>3 DEF PodInv, LastGeneration
<1> QED BY <1>1, <1>2, <1>3, <1>4 DEF PodInv

\* An initialization's record is replaced, and nobody else's.
LEMMA ProvMoves ==
    ASSUME NEW p \in Pods, NEW g \in Gens, ProvOK, NEW r \in ProvRecords,
           prov' = [prov EXCEPT ![p][g] = r]
    PROVE  /\ ProvOK' /\ prov'[p][g] = r
           /\ \A h \in Gens \ {g} : prov'[p][h] = prov[p][h]
           /\ \A q \in Pods \ {p} : prov'[q] = prov[q]
BY DEF ProvOK

\* A goroutine starts with its first step.
LEMMA StartedIs ==
    /\ \A b \in BOOLEAN : Started(b) \in ProvRecords
    /\ Started(TRUE).pc = "op" /\ Started(FALSE).pc = "leftover"
<1>1. 0 \in 0 .. MaxRetries
  BY ProviderAssumption
<1>2. NotStarted \in ProvRecords
  BY <1>1 DEF NotStarted, ProvRecords, ProvSteps
<1>3. ASSUME NEW b \in BOOLEAN
      PROVE  /\ Started(b) \in ProvRecords
             /\ Started(b).pc = IF b THEN "op" ELSE "leftover"
  BY <1>2 DEF Started, ProvRecords, ProvSteps
<1> QED BY <1>3

\* A VirtualPod is replaced, and nobody else's.
LEMMA VpMoves ==
    ASSUME NEW p \in Pods, VpOK, NEW v \in VirtualPods, vp' = [vp EXCEPT ![p] = v]
    PROVE  VpOK' /\ vp'[p] = v /\ vp'[p] # Nil /\ \A q \in Pods \ {p} : vp'[q] = vp[q]
BY NilAssumption DEF VpOK

\* A step of an initialization keeps the invariant when it goes on to r and leaves the
\* VirtualPod as v, with the cancel functions it had.
LEMMA InitStep ==
    ASSUME ProviderIInv, NEW p \in Pods, NEW g \in Gens,
           NEW r \in ProvRecords, prov' = [prov EXCEPT ![p][g] = r],
           prov[p][g].pc # "off", r.pc # "complete",
           r.pc = "remove" => r.next \in {"select", "fail", "done"},
           BeforeLoop(p, g)' => BeforeLoop(p, g),
           NEW v \in VirtualPods, vp' = [vp EXCEPT ![p] = v],
           v.provCancel = vp[p].provCancel, v.lifeCancel = vp[p].lifeCancel,
           v.completed => vp[p].completed \/ prov[p][g].pc = "complete",
           CloudOK', UNCHANGED provOnly
    PROVE  ProviderIInv'
<1> USE DEF provOnly, podVars, regVars, procVars
<1>1. TypeOK /\ PodInv(p) /\ vp[p] # Nil
  BY DEF ProviderIInv, PodInv, GoroutinesKnow
<1>2. /\ PodsOK /\ MapsOK /\ VpOK /\ LockOK /\ ProvOK /\ LoopOK /\ CancelledOK /\ WorkersOK
      /\ CloudOK /\ ProcessOK
  BY <1>1, TypeParts
<1>3. /\ ProvOK' /\ prov'[p][g] = r /\ \A h \in Gens \ {g} : prov'[p][h] = prov[p][h]
      /\ \A q \in Pods \ {p} : prov'[q] = prov[q]
  BY <1>2, ProvMoves, ZenonT(60)
<1>4. VpOK' /\ vp'[p] = v /\ vp'[p] # Nil /\ \A q \in Pods \ {p} : vp'[q] = vp[q]
  BY <1>2, VpMoves
<1>5. TypeOK'
  BY <1>2, <1>3, <1>4, TypePartsNext
     DEF PodsOK, MapsOK, LockOK, LoopOK, CancelledOK, WorkersOK, ProcessOK
<1>6. PodInv(p)'
  BY <1>1, <1>2, <1>3, <1>4, InitKeeps
<1>7. ASSUME NEW q \in Pods \ {p} PROVE PodInv(q)'
  BY <1>3, <1>4, OtherPod DEF ProviderIInv
<1>8. Registered' /\ OneWorkerPerKey' /\ \A w \in Workers : WorkerKnows(w)'
  BY <1>1, <1>4, WorkersKeep
<1> QED BY <1>5, <1>6, <1>7, <1>8 DEF ProviderIInv

\* A machine that is there is set to another state; DestroyMachine, restartPod and RunCommand
\* do no more than that.
LEMMA CloudMoves ==
    ASSUME CloudOK, NEW m \in Machines, NEW c \in MachineRecords, cloud' = [cloud EXCEPT ![m] = c]
    PROVE  CloudOK'
BY DEF CloudOK

\* A machine that answers is one of the cloud's records.
LEMMA AliveIs ==
    ASSUME CloudOK, NEW m \in Machines \cup {Nil}, Alive(m)
    PROVE  m \in Machines /\ cloud[m] \in MachineRecords
BY DEF Alive, CloudOK

\* DestroyMachine leaves the cloud well typed, whatever its outcome.
LEMMA DestroyKeeps ==
    ASSUME CloudOK, NEW m \in Machines \cup {Nil}, NEW ok \in BOOLEAN, DestroyMachine(m, ok)
    PROVE  CloudOK'
<1>1. CASE ok /\ Alive(m)
  <2>1. m \in Machines /\ cloud[m] \in MachineRecords
    BY <1>1, AliveIs
  <2>2. [cloud[m] EXCEPT !.state = "gone"] \in MachineRecords
    BY <2>1 DEF MachineRecords
  <2>3. cloud' = [cloud EXCEPT ![m] = [cloud[m] EXCEPT !.state = "gone"]]
    BY <1>1 DEF DestroyMachine
  <2> QED BY <2>1, <2>2, <2>3, CloudMoves
<1>2. CASE ~(ok /\ Alive(m))
  BY <1>2 DEF DestroyMachine, CloudOK
<1> QED BY <1>1, <1>2

\* Every step of initializeVirtualPod before and after the start of its loop keeps the
\* invariant.
LEMMA InitializeKeeps ==
    ASSUME ProviderIInv, NEW p \in Pods, NEW g \in Gens,
           initializeVirtualPod(p, g), ~startLifecycle(p, g)
    PROVE  ProviderIInv'
<1> DEFINE r == prov[p][g]
           v == vp[p]
<1>1. /\ ProvOK /\ VpOK /\ CloudOK /\ r \in ProvRecords /\ PodInv(p)
  BY TypeParts DEF ProviderIInv, ProvOK
<1>a. ASSUME NEW x \in ProvSteps, Goto(p, g, x)
      PROVE  \E n \in ProvRecords : prov' = [prov EXCEPT ![p][g] = n] /\ n.pc = x
  <2>1. [r EXCEPT !.pc = x] \in ProvRecords /\ [r EXCEPT !.pc = x].pc = x
    BY <1>1 DEF ProvRecords
  <2>2. prov' = [prov EXCEPT ![p][g] = [r EXCEPT !.pc = x]]
    BY <1>a DEF Goto
  <2> QED BY <2>1, <2>2
<1>b. ASSUME NEW x \in ProvSteps, NEW y \in ProvSteps,
             prov' = [prov EXCEPT ![p][g].pc = x, ![p][g].next = y]
      PROVE  \E n \in ProvRecords : prov' = [prov EXCEPT ![p][g] = n] /\ n.pc = x /\ n.next = y
  <2>1. /\ [r EXCEPT !.pc = x, !.next = y] \in ProvRecords
        /\ [r EXCEPT !.pc = x, !.next = y].pc = x /\ [r EXCEPT !.pc = x, !.next = y].next = y
    BY <1>1 DEF ProvRecords
  <2>2. prov' = [prov EXCEPT ![p][g] = [r EXCEPT !.pc = x, !.next = y]]
    BY <1>1, <1>b DEF ProvOK
  <2> QED BY <2>1, <2>2
<1>c. ASSUME NEW x \in ProvSteps, NEW b \in BOOLEAN,
             prov' = [prov EXCEPT ![p][g].pc = x, ![p][g].restartOnly = b]
      PROVE  \E n \in ProvRecords : prov' = [prov EXCEPT ![p][g] = n] /\ n.pc = x
  <2>1. /\ [r EXCEPT !.pc = x, !.restartOnly = b] \in ProvRecords
        /\ [r EXCEPT !.pc = x, !.restartOnly = b].pc = x
    BY <1>1 DEF ProvRecords
  <2>2. prov' = [prov EXCEPT ![p][g] = [r EXCEPT !.pc = x, !.restartOnly = b]]
    BY <1>1, <1>c DEF ProvOK
  <2> QED BY <2>1, <2>2
<1>s. \A x \in {"exit", "op", "leftover", "select", "fail", "done", "remove", "off", "restart",
                "ready", "agent", "cleanup", "startLoop"} : x \in ProvSteps
  BY DEF ProvSteps
<1>2. r.pc # "off" => v # Nil /\ v \in VirtualPods
  BY <1>1 DEF PodInv, GoroutinesKnow, VpOK
<1>3. ASSUME r.pc # "off" PROVE vp = [vp EXCEPT ![p] = v]
  BY <1>1 DEF VpOK
<1>4. CASE Retry(p, g)
  <2>1. PICK n \in ProvRecords :
          /\ prov' = [prov EXCEPT ![p][g] = n] /\ n.pc \in {"exit", "op", "leftover"}
    <3>1. r.tries \in 0 .. MaxRetries
      BY <1>1 DEF ProvRecords
    <3>2. CASE Cancelled(p, g) \/ r.tries = MaxRetries
      <4>1. Goto(p, g, "exit")
        BY <1>4, <3>2 DEF Retry, Goto
      <4> QED BY <1>a, <1>s, <4>1
    <3>3. CASE ~(Cancelled(p, g) \/ r.tries = MaxRetries)
      <4>1. r.tries + 1 \in 0 .. MaxRetries
        BY <3>1, <3>3, ProviderAssumption
      <4>2. PICK x \in {"op", "leftover"} : x = IF r.restartOnly THEN "op" ELSE "leftover"
        OBVIOUS
      <4>3. x \in ProvSteps
        BY DEF ProvSteps
      <4>4. prov' = [prov EXCEPT ![p][g] = [r EXCEPT !.pc = x, !.tries = r.tries + 1]]
        BY <1>4, <3>3, <4>2 DEF Retry
      <4>5. [r EXCEPT !.pc = x, !.tries = r.tries + 1] \in ProvRecords
            /\ [r EXCEPT !.pc = x, !.tries = r.tries + 1].pc = x
        BY <1>1, <4>1, <4>3 DEF ProvRecords
      <4> QED BY <4>4, <4>5
    <3> QED BY <3>2, <3>3
  <2>2. r.pc = "fail"
    BY <1>4 DEF Retry, At
  <2>3. BeforeLoop(p, g)
    BY <2>2 DEF BeforeLoop
  <2>4. vp' = [vp EXCEPT ![p] = v] /\ CloudOK'
    BY <1>1, <1>3, <1>4, <2>2 DEF Retry, CloudOK
  <2> QED BY <1>2, <1>4, <2>1, <2>2, <2>3, <2>4, InitStep DEF Retry
<1>5. CASE machineCleanup(p, g)
  <2>1. /\ r.pc \in {"leftover", "cleanup", "exit"}
        /\ AfterCleanup[r.pc] \in {"select", "fail", "done"} /\ AfterCleanup[r.pc] \in ProvSteps
        /\ AfterCleanup[r.pc] # "done" => BeforeLoop(p, g)
    BY <1>5 DEF machineCleanup, AfterCleanup, BeforeLoop, ProvSteps
  <2>2. vp' = [vp EXCEPT ![p] = v]
    BY <1>3, <1>5, <2>1 DEF machineCleanup
  <2>3. UNCHANGED provOnly
    BY <1>5 DEF machineCleanup
  <2>4. CASE Goto(p, g, AfterCleanup[r.pc]) /\ UNCHANGED cloud
    <3>1. PICK n \in ProvRecords : prov' = [prov EXCEPT ![p][g] = n] /\ n.pc = AfterCleanup[r.pc]
      BY <1>a, <2>1, <2>4
    <3>3. BeforeLoop(p, g)' => BeforeLoop(p, g)
      BY <1>1, <2>1, <3>1, ProvMoves DEF BeforeLoop
    <3>4. CloudOK'
      BY <1>1, <2>4 DEF CloudOK
    <3> QED BY <1>2, <2>1, <2>2, <2>3, <3>1, <3>3, <3>4, InitStep
  <2>5. CASE /\ \E ok \in BOOLEAN : DestroyMachine(v.machine, ok)
             /\ prov' = [prov EXCEPT ![p][g].pc = "remove", ![p][g].next = AfterCleanup[r.pc]]
    <3>1. PICK n \in ProvRecords :
            prov' = [prov EXCEPT ![p][g] = n] /\ n.pc = "remove" /\ n.next = AfterCleanup[r.pc]
      <4>1. PICK y \in ProvSteps : y = AfterCleanup[r.pc]
        BY <2>1
      <4>2. prov' = [prov EXCEPT ![p][g].pc = "remove", ![p][g].next = y]
        BY <2>5, <4>1
      <4>3. "remove" \in ProvSteps
        BY <1>s
      <4>4. \E n \in ProvRecords : prov' = [prov EXCEPT ![p][g] = n] /\ n.pc = "remove" /\ n.next = y
        BY <1>b, <4>2, <4>3
      <4> QED BY <4>1, <4>4
    <3>3. BeforeLoop(p, g)' => BeforeLoop(p, g)
      BY <1>1, <2>1, <3>1, ProvMoves DEF BeforeLoop
    <3>4. v.machine \in Machines \cup {Nil}
      BY <1>2, <2>1 DEF VirtualPods
    <3>5. CloudOK'
      BY <1>1, <2>5, <3>4, DestroyKeeps
    <3> QED BY <1>2, <2>1, <2>2, <2>3, <3>1, <3>3, <3>5, InitStep
  <2> QED BY <1>5, <2>4, <2>5 DEF machineCleanup
<1>6. CASE RemoveMachine(p, g)
  <2>1. r.pc = "remove" /\ r.next \in {"select", "fail", "done"}
    BY <1>1, <1>6 DEF RemoveMachine, At, PodInv, GoroutinesKnow
  <2>2. /\ v \in VirtualPods /\ [v EXCEPT !.machine = Nil] \in VirtualPods
        /\ [v EXCEPT !.machine = Nil].provCancel = v.provCancel
        /\ [v EXCEPT !.machine = Nil].lifeCancel = v.lifeCancel
        /\ [v EXCEPT !.machine = Nil].completed = v.completed
    BY <1>2, <2>1 DEF VirtualPods
  <2>3. vp' = [vp EXCEPT ![p] = [v EXCEPT !.machine = Nil]]
    BY <1>6 DEF RemoveMachine
  <2>4. PICK n \in ProvRecords : prov' = [prov EXCEPT ![p][g] = n] /\ n.pc = r.next
    <3>1. PICK x \in ProvSteps : x = r.next
      BY <1>s, <2>1
    <3>2. prov' = [prov EXCEPT ![p][g].pc = x, ![p][g].next = "off"]
      BY <1>6, <3>1 DEF RemoveMachine
    <3>3. "off" \in ProvSteps
      BY <1>s
    <3>4. \E n \in ProvRecords : prov' = [prov EXCEPT ![p][g] = n] /\ n.pc = x /\ n.next = "off"
      BY <1>b, <3>2, <3>3
    <3> QED BY <3>1, <3>4
  <2>7. BeforeLoop(p, g)' => BeforeLoop(p, g)
    BY <1>1, <2>1, <2>4, ProvMoves DEF BeforeLoop
  <2>8. CloudOK' /\ UNCHANGED provOnly
    BY <1>1, <1>6 DEF RemoveMachine, CloudOK
  <2> QED BY <2>1, <2>2, <2>3, <2>4, <2>7, <2>8, InitStep
<1>7. CASE restartOp(p, g)
  <2>1. r.pc = "op" /\ BeforeLoop(p, g)
    BY <1>7 DEF restartOp, At, BeforeLoop
  <2>2. /\ v \in VirtualPods /\ [v EXCEPT !.completed = FALSE] \in VirtualPods
        /\ [v EXCEPT !.completed = FALSE].provCancel = v.provCancel
        /\ [v EXCEPT !.completed = FALSE].lifeCancel = v.lifeCancel
        /\ [v EXCEPT !.completed = FALSE].completed = FALSE
    BY <1>2, <2>1 DEF VirtualPods
  <2>3. vp' = [vp EXCEPT ![p] = [v EXCEPT !.completed = FALSE]]
    BY <1>7 DEF restartOp
  <2>4. PICK n \in ProvRecords : prov' = [prov EXCEPT ![p][g] = n] /\ n.pc = "restart"
    BY <1>a, <1>s, <1>7 DEF restartOp
  <2>5. CloudOK' /\ UNCHANGED provOnly
    BY <1>1, <1>7 DEF restartOp, CloudOK
  <2> QED BY <2>1, <2>2, <2>3, <2>4, <2>5, InitStep
<1>8. CASE restartPod(p, g)
  <2>1. r.pc = "restart" /\ BeforeLoop(p, g)
    BY <1>8 DEF restartPod, At, BeforeLoop
  <2>2. PICK n \in ProvRecords : prov' = [prov EXCEPT ![p][g] = n] /\ n.pc \in {"ready", "fail"}
    <3>2. CASE Goto(p, g, "ready")
      BY <1>a, <1>s, <3>2
    <3>3. CASE prov' = [prov EXCEPT ![p][g].pc = "fail", ![p][g].restartOnly = FALSE]
      BY <1>c, <1>s, <3>3
    <3> QED BY <1>8, <3>2, <3>3 DEF restartPod
  <2>3. CloudOK'
    <3>1. v.machine \in Machines \cup {Nil}
      BY <1>2, <2>1 DEF VirtualPods
    <3>2. CASE /\ Alive(v.machine)
               /\ cloud' = [cloud EXCEPT ![v.machine].state = "starting", ![v.machine].agent = "Waiting"]
      <4>1. v.machine \in Machines /\ cloud[v.machine] \in MachineRecords
        BY <1>1, <3>1, <3>2, AliveIs
      <4>2. [cloud[v.machine] EXCEPT !.state = "starting", !.agent = "Waiting"] \in MachineRecords
        BY <4>1 DEF MachineRecords
      <4>3. cloud' = [cloud EXCEPT ![v.machine] =
                        [cloud[v.machine] EXCEPT !.state = "starting", !.agent = "Waiting"]]
        BY <1>1, <3>2, <4>1 DEF CloudOK
      <4> QED BY <1>1, <4>1, <4>2, <4>3, CloudMoves
    <3>3. CASE UNCHANGED cloud
      BY <1>1, <3>3 DEF CloudOK
    <3> QED BY <1>8, <3>2, <3>3 DEF restartPod
  <2>4. vp' = [vp EXCEPT ![p] = v] /\ UNCHANGED provOnly
    BY <1>3, <1>8, <2>1 DEF restartPod
  <2> QED BY <1>2, <2>1, <2>2, <2>3, <2>4, InitStep
<1>9. CASE selectAndProvisionMachine(p, g)
  <2>1. r.pc = "select" /\ BeforeLoop(p, g) /\ UNCHANGED provOnly
    BY <1>9 DEF selectAndProvisionMachine, At, BeforeLoop
  <2>3. prov = [prov EXCEPT ![p][g] = r]
    BY <1>1 DEF ProvOK
  <2>4. ASSUME NEW m \in Machines, cloud' = [cloud EXCEPT ![m] = ProvisionMachine(p)]
        PROVE  CloudOK'
    <3>1. ProvisionMachine(p) \in MachineRecords
      BY <1>2, <2>1 DEF ProvisionMachine, MachineRecords, VirtualPods
    <3> QED BY <1>1, <2>4, <3>1, CloudMoves
  <2>5. ASSUME NEW m \in Machines, cloud' = [cloud EXCEPT ![m] = ProvisionMachine(p)],
               vp' = [vp EXCEPT ![p].machine = m], Goto(p, g, "ready")
        PROVE  ProviderIInv'
    <3>1. /\ [v EXCEPT !.machine = m] \in VirtualPods
          /\ [v EXCEPT !.machine = m].provCancel = v.provCancel
          /\ [v EXCEPT !.machine = m].lifeCancel = v.lifeCancel
          /\ [v EXCEPT !.machine = m].completed = v.completed
      BY <1>2, <2>1 DEF VirtualPods
    <3>2. vp' = [vp EXCEPT ![p] = [v EXCEPT !.machine = m]]
      BY <2>5
    <3>3. PICK n \in ProvRecords : prov' = [prov EXCEPT ![p][g] = n] /\ n.pc = "ready"
      BY <1>a, <1>s, <2>5
    <3> QED BY <2>1, <2>4, <2>5, <3>1, <3>2, <3>3, InitStep
  <2>6. ASSUME NEW m \in Machines, cloud' = [cloud EXCEPT ![m] = ProvisionMachine(p)],
               UNCHANGED <<vp, prov>>
        PROVE  ProviderIInv'
    <3>1. vp' = [vp EXCEPT ![p] = v] /\ prov' = [prov EXCEPT ![p][g] = r]
      BY <1>3, <2>1, <2>3, <2>6
    <3> QED BY <1>1, <1>2, <2>1, <2>4, <2>6, <3>1, InitStep
  <2>7. CASE Goto(p, g, "fail") /\ UNCHANGED <<vp, cloud>>
    <3>1. PICK n \in ProvRecords : prov' = [prov EXCEPT ![p][g] = n] /\ n.pc = "fail"
      BY <1>a, <1>s, <2>7
    <3>2. CloudOK' /\ vp' = [vp EXCEPT ![p] = v]
      BY <1>1, <1>3, <2>1, <2>7 DEF CloudOK
    <3> QED BY <1>2, <2>1, <3>1, <3>2, InitStep
  <2> QED BY <1>9, <2>5, <2>6, <2>7 DEF selectAndProvisionMachine
<1>10. CASE waitForMachineReady(p, g)
  <2>1. r.pc = "ready" /\ BeforeLoop(p, g) /\ UNCHANGED provOnly
    BY <1>10 DEF waitForMachineReady, At, BeforeLoop
  <2>2. PICK n \in ProvRecords : prov' = [prov EXCEPT ![p][g] = n] /\ n.pc \in {"agent", "cleanup"}
    <3>2. CASE Goto(p, g, "agent")
      BY <1>a, <1>s, <3>2
    <3>3. CASE prov' = [prov EXCEPT ![p][g].pc = "cleanup",
                                    ![p][g].restartOnly = @ /\ Cancelled(p, g)]
      <4>1. PICK b \in BOOLEAN : b = (r.restartOnly /\ Cancelled(p, g))
        OBVIOUS
      <4>2. prov' = [prov EXCEPT ![p][g].pc = "cleanup", ![p][g].restartOnly = b]
        BY <1>1, <3>3, <4>1 DEF ProvOK
      <4> QED BY <1>c, <1>s, <4>2
    <3> QED BY <1>10, <3>2, <3>3 DEF waitForMachineReady
  <2>3. CloudOK' /\ vp' = [vp EXCEPT ![p] = v]
    BY <1>1, <1>3, <1>10, <2>1 DEF waitForMachineReady, CloudOK
  <2> QED BY <1>2, <2>1, <2>2, <2>3, InitStep
<1>11. CASE RunCommand(p, g)
  <2>1. r.pc = "agent" /\ BeforeLoop(p, g) /\ UNCHANGED provOnly /\ vp' = [vp EXCEPT ![p] = v]
    BY <1>3, <1>11 DEF RunCommand, At, BeforeLoop
  <2>2. PICK n \in ProvRecords : prov' = [prov EXCEPT ![p][g] = n] /\ n.pc \in {"startLoop", "fail"}
    <3>2. Goto(p, g, "startLoop") \/ Goto(p, g, "fail")
      BY <1>11 DEF RunCommand
    <3> QED BY <1>a, <1>s, <3>2
  <2>3. CloudOK'
    <3>1. CASE UNCHANGED cloud
      BY <1>1, <3>1 DEF CloudOK
    <3>2. ASSUME NEW m \in AgentAt(v.slot),
                 cloud' = [cloud EXCEPT ![m].agent = "Running", ![m].files = @ \/ v.files]
          PROVE  CloudOK'
      <4>1. m \in Machines /\ cloud[m] \in MachineRecords
        BY <1>1, <3>2, AliveIs DEF AgentAt, Running
      <4>2. PICK b \in BOOLEAN : b = (cloud[m].files \/ v.files)
        OBVIOUS
      <4>3. cloud' = [cloud EXCEPT ![m] = [cloud[m] EXCEPT !.agent = "Running", !.files = b]]
        BY <1>1, <3>2, <4>1, <4>2 DEF CloudOK
      <4>4. [cloud[m] EXCEPT !.agent = "Running", !.files = b] \in MachineRecords
        BY <4>1 DEF MachineRecords
      <4> QED BY <1>1, <4>1, <4>3, <4>4, CloudMoves
    <3> QED BY <1>11, <3>1, <3>2 DEF RunCommand
  <2> QED BY <1>2, <2>1, <2>2, <2>3, InitStep
<1>12. CASE provisioningDone(p, g)
  <2>1. r.pc = "complete" /\ UNCHANGED provOnly
    BY <1>12 DEF provisioningDone, At
  <2>2. /\ v \in VirtualPods /\ [v EXCEPT !.completed = TRUE] \in VirtualPods
        /\ [v EXCEPT !.completed = TRUE].provCancel = v.provCancel
        /\ [v EXCEPT !.completed = TRUE].lifeCancel = v.lifeCancel
    BY <1>2, <2>1 DEF VirtualPods
  <2>3. vp' = [vp EXCEPT ![p] = [v EXCEPT !.completed = TRUE]]
    BY <1>12 DEF provisioningDone
  <2>4. PICK n \in ProvRecords : prov' = [prov EXCEPT ![p][g] = n] /\ n.pc = "exit"
    BY <1>a, <1>s, <1>12 DEF provisioningDone
  <2>5. CloudOK'
    BY <1>1, <1>12 DEF provisioningDone, CloudOK
  <2>6. BeforeLoop(p, g)' => BeforeLoop(p, g)
    BY <1>1, <2>4, ProvMoves DEF BeforeLoop
  <2> QED BY <2>1, <2>2, <2>3, <2>4, <2>5, <2>6, InitStep
<1> QED BY <1>4, <1>5, <1>6, <1>7, <1>8, <1>9, <1>10, <1>11, <1>12 DEF initializeVirtualPod

\* The start of a lifecycle loop keeps the invariant: the initialization that starts it is the
\* last, and no loop acts meanwhile.
LEMMA StartLoopKeeps ==
    ASSUME ProviderIInv, NEW p \in Pods, NEW g \in Gens, startLifecycle(p, g)
    PROVE  ProviderIInv'
<1> USE DEF startLifecycle, podVars, regVars, procVars
<1>1. /\ PodsOK /\ MapsOK /\ VpOK /\ LockOK /\ ProvOK /\ LoopOK /\ CancelledOK /\ WorkersOK
      /\ CloudOK /\ ProcessOK /\ PodInv(p)
  BY TypeParts DEF ProviderIInv
<1>2. /\ prov[p][g].pc = "startLoop" /\ BeforeLoop(p, g)
      /\ prov[p][g] \in ProvRecords
  BY <1>1 DEF At, BeforeLoop, ProvOK
<1>3. vp[p] # Nil /\ vp[p] \in VirtualPods /\ vp[p].provCancel # Nil
  BY <1>1, <1>2 DEF PodInv, GoroutinesKnow, VpOK
<1>4. PICK r \in ProvRecords : prov' = [prov EXCEPT ![p][g] = r] /\ r.pc = "complete"
  <2>1. [prov[p][g] EXCEPT !.pc = "complete"] \in ProvRecords
        /\ [prov[p][g] EXCEPT !.pc = "complete"].pc = "complete"
    BY <1>2 DEF ProvRecords, ProvSteps
  <2>2. prov' = [prov EXCEPT ![p][g] = [prov[p][g] EXCEPT !.pc = "complete"]]
    BY DEF Goto
  <2> QED BY <2>1, <2>2
<1>5. /\ ProvOK' /\ prov'[p][g] = r /\ \A h \in Gens \ {g} : prov'[p][h] = prov[p][h]
      /\ \A q \in Pods \ {p} : prov'[q] = prov[q]
  BY <1>1, <1>4, ProvMoves, ZenonT(60)
<1>6. PICK v \in VirtualPods : /\ vp' = [vp EXCEPT ![p] = v] /\ v.lifeCancel = g
                               /\ v.provCancel = vp[p].provCancel /\ v.completed = vp[p].completed
  <2> DEFINE n == [vp[p] EXCEPT !.lifeCancel = g]
  <2>1. /\ n \in VirtualPods /\ n.lifeCancel = g /\ n.provCancel = vp[p].provCancel
        /\ n.completed = vp[p].completed
    BY <1>3 DEF VirtualPods
  <2>2. vp' = [vp EXCEPT ![p] = n]
    OBVIOUS
  <2> HIDE DEF n
  <2> QED BY <2>1, <2>2
<1>7. VpOK' /\ vp'[p] = v /\ vp'[p] # Nil /\ \A q \in Pods \ {p} : vp'[q] = vp[q]
  BY <1>1, <1>6, VpMoves
<1>8. /\ LoopOK' /\ loop'[p][g] = "tick" /\ \A h \in Gens \ {g} : loop'[p][h] = loop[p][h]
      /\ \A q \in Pods \ {p} : loop'[q] = loop[q]
  BY <1>1 DEF LoopOK, LoopSteps
<1>9. g = gens[p] /\ loop[p][g] = "off" /\ g # Nil
  BY <1>1, <1>2, ProviderAssumption DEF PodInv, LastGeneration, Gens
<1>10. TypeOK'
  BY <1>1, <1>5, <1>7, <1>8, TypePartsNext
     DEF PodsOK, MapsOK, LockOK, CancelledOK, WorkersOK, CloudOK, ProcessOK
<1>11. PodInv(p)'
  <2>1. RoundsLocked(p)'
    BY <1>1, <1>8 DEF PodInv, RoundsLocked, InRound
  <2>2. GoroutinesKnow(p)'
    BY <1>1, <1>3, <1>4, <1>5, <1>6, <1>7, <1>8, <1>9 DEF PodInv, GoroutinesKnow
  <2>3. CancelKnown(p)'
    BY <1>3, <1>6, <1>7, <1>9 DEF CancelKnown
  <2>4. LastGeneration(p)'
    <3>1. \A h \in Gens : BeforeLoop(p, h)' => BeforeLoop(p, h) /\ h # g
      BY <1>4, <1>5 DEF BeforeLoop
    <3>2. \A h \in Gens : Active(p, h)' => h = g \/ Active(p, h)
      BY <1>8 DEF Active
    <3>3. \A h \in Gens : h > gens[p] => h # g
      BY <1>9 DEF Gens
    <3>4. \A h \in Gens : h > gens'[p] => prov'[p][h].pc = "off" /\ loop'[p][h] = "off"
      BY <1>1, <1>5, <1>8, <3>3 DEF PodInv, LastGeneration
    <3>5. \A h \in Gens : BeforeLoop(p, h)' => h = gens'[p] /\ loop'[p][h] = "off"
      BY <1>1, <1>8, <3>1 DEF PodInv, LastGeneration
    <3>6. \A h \in Gens : loop'[p][h] \in InRound => h = gens'[p]
      BY <1>1, <1>8, <1>9 DEF PodInv, LastGeneration
    <3>7. \A h \in Gens : Active(p, h)' => h = gens'[p] /\ vp'[p].lifeCancel = h
      BY <1>1, <1>6, <1>7, <1>9, <3>2 DEF PodInv, LastGeneration
    <3> QED BY <3>4, <3>5, <3>6, <3>7 DEF LastGeneration
  <2> QED BY <2>1, <2>2, <2>3, <2>4 DEF PodInv
<1>12. ASSUME NEW q \in Pods \ {p} PROVE PodInv(q)'
  BY <1>5, <1>7, <1>8, OtherPod DEF ProviderIInv
<1>13. Registered' /\ OneWorkerPerKey' /\ \A w \in Workers : WorkerKnows(w)'
  BY <1>3, <1>7, WorkersKeep
<1> QED BY <1>10, <1>11, <1>12, <1>13 DEF ProviderIInv

-----------------------------------------------------------------------------
\* reconcilePodLifecycle.

\* A step of a lifecycle loop other than a restart keeps the invariant when it goes on to x
\* with the lock at l and the VirtualPod at v: it takes the lock when it is free, gives up
\* only its own, and leaves the cancel functions as they are.
LEMMA LoopStep ==
    ASSUME ProviderIInv, NEW p \in Pods, NEW g \in Gens,
           NEW x \in LoopSteps, loop' = [loop EXCEPT ![p][g] = x],
           loop[p][g] \notin {"off", "ended"}, x # "off",
           NEW l \in Workers \cup {"loop", Nil}, lock' = [lock EXCEPT ![p] = l],
           l = lock[p] \/ lock[p] \notin Workers,
           x \in InRound => /\ l = "loop"
                            /\ (lock[p] = Nil /\ Active(p, g)) \/ loop[p][g] \in InRound,
           x \notin InRound => l = lock[p] \/ loop[p][g] \in InRound,
           x \in {"backoff", "restart"} => gens[p] < MaxGen,
           x = "backoff" => g > 0,
           NEW v \in VirtualPods, vp' = [vp EXCEPT ![p] = v],
           v.provCancel = vp[p].provCancel, v.lifeCancel = vp[p].lifeCancel,
           \/ v.completed = vp[p].completed /\ loop[p][g] # "restart"
           \/ ~v.completed /\ (x = "restart" \/ g > 0),
           UNCHANGED <<loopOnly, prov, gens, provCancelled>>, lifeCancelled \subseteq lifeCancelled',
           PodsOK', MapsOK', CancelledOK', CloudOK', ProcessOK'
    PROVE  ProviderIInv'
<1> USE DEF loopOnly
<1>1. VpOK /\ LockOK /\ ProvOK /\ LoopOK /\ WorkersOK /\ PodInv(p)
  BY TypeParts DEF ProviderIInv
<1>2. vp[p] # Nil /\ vp[p].lifeCancel # Nil /\ (g > 0 => vp[p].provCancel # Nil)
  BY <1>1 DEF PodInv, GoroutinesKnow
<1>3. VpOK' /\ vp'[p] = v /\ vp'[p] # Nil /\ \A q \in Pods \ {p} : vp'[q] = vp[q]
  BY <1>1, VpMoves
<1>4. /\ LoopOK' /\ loop'[p][g] = x /\ \A h \in Gens \ {g} : loop'[p][h] = loop[p][h]
      /\ \A q \in Pods \ {p} : loop'[q] = loop[q]
  BY <1>1 DEF LoopOK
<1>5. LockOK' /\ lock'[p] = l /\ \A q \in Pods \ {p} : lock'[q] = lock[q]
  BY <1>1 DEF LockOK
<1>6. TypeOK'
  BY <1>1, <1>3, <1>4, <1>5, TypePartsNext DEF ProvOK, WorkersOK
<1>7. PodInv(p)'
  <2>1. RoundsLocked(p)'
    <3>1. \A h \in Gens \ {g} : loop'[p][h] \in InRound =>
            loop[p][h] \in InRound /\ lock[p] = "loop" /\ loop[p][g] \notin InRound
      BY <1>1, <1>4 DEF PodInv, RoundsLocked
    <3>2. \A h \in Gens \ {g} : loop'[p][h] \in InRound => x \notin InRound /\ lock'[p] = "loop"
      BY <1>5, <3>1, ProviderAssumption
    <3>3. x \in InRound => lock'[p] = "loop"
      BY <1>5
    <3>4. \A h \in Gens \ {g} : loop'[p][h] = loop[p][h]
      BY <1>4
    <3>5. \A h, k \in Gens : (loop'[p][h] \in InRound /\ loop'[p][k] \in InRound) => h = k
      BY <1>1, <1>4, <3>2 DEF PodInv, RoundsLocked
    <3>6. \A h \in Gens : loop'[p][h] \in InRound => lock'[p] = "loop"
      BY <1>4, <3>2, <3>3
    <3> QED BY <1>1, <1>4, <3>5, <3>6 DEF PodInv, RoundsLocked
  <2>2. GoroutinesKnow(p)'
    BY <1>1, <1>2, <1>3, <1>4 DEF PodInv, GoroutinesKnow
  <2>3. CancelKnown(p)'
    <3>1. CASE v.completed
      BY <1>2, <1>3, <3>1 DEF CancelKnown
    <3>2. CASE ~v.completed /\ (x = "restart" \/ g > 0)
      BY <1>2, <1>3, <1>4, <3>2 DEF CancelKnown
    <3>3. CASE ~v.completed /\ v.completed = vp[p].completed /\ loop[p][g] # "restart"
      BY <1>1, <1>2, <1>3, <1>4, <3>3 DEF PodInv, CancelKnown
    <3> QED BY <3>1, <3>2, <3>3
  <2>4. LastGeneration(p)'
    <3>1. \A h \in Gens : BeforeLoop(p, h)' => BeforeLoop(p, h) /\ h # g
      BY <1>1 DEF BeforeLoop, PodInv, LastGeneration
    <3>2. \A h \in Gens : Active(p, h)' => Active(p, h)
      BY <1>4 DEF Active
    <3>3. x \in InRound => g = gens[p]
      BY <1>1 DEF PodInv, LastGeneration
    <3>4. g <= gens[p]
      BY <1>1 DEF PodInv, LastGeneration, LoopOK, Gens
    <3> QED BY <1>1, <1>3, <1>4, <3>1, <3>2, <3>3, <3>4 DEF PodInv, LastGeneration
  <2> QED BY <2>1, <2>2, <2>3, <2>4 DEF PodInv
<1>8. ASSUME NEW q \in Pods \ {p} PROVE PodInv(q)'
  BY <1>3, <1>4, <1>5, OtherPod DEF ProviderIInv
<1>9. Registered' /\ OneWorkerPerKey' /\ \A w \in Workers : WorkerKnows(w)'
  BY <1>2, <1>3, <1>5, WorkersKeep
<1> QED BY <1>6, <1>7, <1>8, <1>9 DEF ProviderIInv

\* What a loop reports of a VirtualPod is a pod object.
LEMMA NotifyKeeps ==
    ASSUME PodsOK, NEW p \in Pods, vp'[p] \in VirtualPods, Notify(p), UNCHANGED pod
    PROVE  PodsOK'
<1>1. [slot |-> vp'[p].slot, phase |-> vp'[p].phase, cont |-> vp'[p].cont] \in PodObjects
  BY DEF VirtualPods, PodObjects
<1> QED BY <1>1 DEF Notify, PodsOK

\* A round that begins, with a report or without one, keeps the invariant.
LEMMA RoundBegins ==
    ASSUME ProviderIInv, NEW p \in Pods, NEW g \in Gens,
           StatusRunning(p, g) \/ StatusExited(p, g) \/ StatusReportTimeout(p, g)
    PROVE  ProviderIInv'
<1> USE DEF procVars
<1>1. /\ PodsOK /\ MapsOK /\ VpOK /\ LockOK /\ ProvOK /\ LoopOK /\ CancelledOK /\ WorkersOK
      /\ CloudOK /\ ProcessOK /\ PodInv(p)
  BY TypeParts DEF ProviderIInv
<1>2. Polls(p, g) /\ Notify(p) /\ UNCHANGED <<loopOnly, prov, gens, provCancelled, lifeCancelled>>
  BY DEF StatusRunning, StatusExited, StatusReportTimeout, goVars
<1>3. /\ MapsOK' /\ CancelledOK' /\ CloudOK' /\ ProcessOK'
  <2>1. UNCHANGED <<assigned, virtualPods, provCancelled, lifeCancelled, cloud, gc, panicked, restarts>>
    BY DEF StatusRunning, StatusExited, StatusReportTimeout, goVars, loopOnly
  <2> QED BY <1>1, <2>1 DEF MapsOK, CancelledOK, CloudOK, ProcessOK
<1>4. /\ loop[p][g] = "tick" /\ lock[p] = Nil /\ Active(p, g)
      /\ Nil \notin Workers /\ "loop" \in Workers \cup {"loop", Nil} /\ Nil \in Workers \cup {"loop", Nil}
  BY <1>2, ProviderAssumption DEF Polls, LoopAt, Active
<1>5. vp[p] \in VirtualPods
  BY <1>1, <1>4 DEF PodInv, GoroutinesKnow, VpOK
<1>6. vp = [vp EXCEPT ![p] = vp[p]]
  BY <1>1 DEF VpOK
<1>7. ASSUME NEW v \in VirtualPods, vp' = [vp EXCEPT ![p] = v] PROVE PodsOK'
  BY <1>1, <1>2, <1>7, VpMoves, NotifyKeeps DEF loopOnly
<1>8. /\ "tick" \in LoopSteps \ InRound /\ "restart" \in LoopSteps \cap InRound
      /\ "backoff" \in LoopSteps \cap InRound /\ "finalize" \in LoopSteps \cap InRound
  BY DEF LoopSteps, InRound
<1>9. CASE StatusRunning(p, g)
  <2>1. PICK v \in VirtualPods : /\ vp' = [vp EXCEPT ![p] = v] /\ v.provCancel = vp[p].provCancel
                                 /\ v.lifeCancel = vp[p].lifeCancel /\ v.completed = vp[p].completed
    <3> DEFINE n == [vp[p] EXCEPT !.cont = "Running", !.phase = "Running"]
    <3>5. /\ n \in VirtualPods /\ n.provCancel = vp[p].provCancel /\ n.lifeCancel = vp[p].lifeCancel
        /\ n.completed = vp[p].completed
      BY <1>5 DEF VirtualPods, Terminal
    <3>6. vp' = [vp EXCEPT ![p] = n]
      BY <1>1, <1>9 DEF StatusRunning, VpOK
    <3> HIDE DEF n
    <3> QED BY <3>5, <3>6
  <2>2. loop' = [loop EXCEPT ![p][g] = "tick"] /\ lock' = [lock EXCEPT ![p] = Nil]
    BY <1>1, <1>4, <1>9 DEF StatusRunning, goVars, LoopOK, LockOK
  <2>3. PodsOK'
    BY <1>7, <2>1
  <2> QED BY <1>2, <1>3, <1>4, <1>8, <2>1, <2>2, <2>3, LoopStep
<1>10. ASSUME NEW v \in VirtualPods, vp' = [vp EXCEPT ![p] = v], v.provCancel = vp[p].provCancel,
              v.lifeCancel = vp[p].lifeCancel,
              NEW x \in {"backoff", "restart", "finalize"}, LoopGoto(p, g, x), Hold(p),
              x \in {"backoff", "restart"} => gens[p] < MaxGen, x = "backoff" => g > 0,
              v.completed = vp[p].completed \/ (~v.completed /\ (x = "restart" \/ g > 0))
       PROVE  ProviderIInv'
  <2>1. PodsOK'
    BY <1>7, <1>10
  <2>2. x \in LoopSteps /\ x \in InRound /\ x # "off"
    BY <1>8
  <2>3. loop' = [loop EXCEPT ![p][g] = x] /\ lock' = [lock EXCEPT ![p] = "loop"]
    BY <1>10 DEF LoopGoto, Hold
  <2> QED BY <1>2, <1>3, <1>4, <1>10, <2>1, <2>2, <2>3, LoopStep
<1>11. CASE StatusExited(p, g)
  <2>1. PICK m \in AgentAt(vp[p].slot) :
          \/ StatusRestarts(p, g, cloud[m].agent)
          \/ StatusTerminates(p, g, cloud[m].agent)
    BY <1>11 DEF StatusExited
  <2>2. CASE StatusRestarts(p, g, cloud[m].agent)
    <3>1. PICK v \in VirtualPods : /\ vp' = [vp EXCEPT ![p] = v] /\ v.provCancel = vp[p].provCancel
                                   /\ v.lifeCancel = vp[p].lifeCancel /\ ~v.completed
      <4> DEFINE n == [vp[p] EXCEPT !.completed = FALSE, !.cont = "Waiting", !.phase = "Running"]
      <4>5. /\ n \in VirtualPods /\ n.provCancel = vp[p].provCancel /\ n.lifeCancel = vp[p].lifeCancel
          /\ ~n.completed
        BY <1>5 DEF VirtualPods, Terminal
      <4>6. vp' = [vp EXCEPT ![p] = n]
        BY <1>1, <2>2 DEF StatusRestarts, VpOK
      <4> HIDE DEF n
      <4> QED BY <4>5, <4>6
    <3>2. PICK x \in {"backoff", "restart"} : LoopGoto(p, g, x) /\ (x = "backoff" => g > 0)
      BY <2>2 DEF StatusRestarts
    <3>3. gens[p] < MaxGen /\ Hold(p)
      BY <1>11, <2>2 DEF StatusRestarts, StatusExited
    <3> QED BY <1>10, <3>1, <3>2, <3>3
  <2>3. CASE StatusTerminates(p, g, cloud[m].agent)
    <3>1. PICK v \in VirtualPods : /\ vp' = [vp EXCEPT ![p] = v] /\ v.provCancel = vp[p].provCancel
                                   /\ v.lifeCancel = vp[p].lifeCancel /\ v.completed = vp[p].completed
      <4>1. PICK ph \in Terminal : ph = IF cloud[m].agent = "ExitZero" THEN "Succeeded" ELSE "Failed"
        BY DEF Terminal
      <4> DEFINE n == [vp[p] EXCEPT !.cont = "Terminated", !.phase = ph]
      <4>5. /\ n \in VirtualPods /\ n.provCancel = vp[p].provCancel /\ n.lifeCancel = vp[p].lifeCancel
          /\ n.completed = vp[p].completed
        BY <1>5 DEF VirtualPods, Terminal
      <4>6. vp' = [vp EXCEPT ![p] = n]
        BY <1>1, <2>3, <4>1 DEF StatusTerminates, VpOK
      <4> HIDE DEF n
      <4> QED BY <4>5, <4>6
    <3>2. LoopGoto(p, g, "finalize") /\ Hold(p)
      BY <1>11, <2>3 DEF StatusTerminates, StatusExited
    <3> QED BY <1>10, <3>1, <3>2
  <2> QED BY <2>1, <2>2, <2>3
<1>12. CASE StatusReportTimeout(p, g)
  <2>1. CASE gens[p] < MaxGen /\ LoopGoto(p, g, "restart") /\ UNCHANGED vp
    <3>1. vp' = [vp EXCEPT ![p] = vp[p]] /\ Hold(p)
      BY <1>6, <1>12, <2>1 DEF StatusReportTimeout
    <3> QED BY <1>5, <1>10, <2>1, <3>1
  <2>2. CASE vp' = [vp EXCEPT ![p].cont = "Terminated"] /\ LoopGoto(p, g, "finalize")
    <3>1. PICK v \in VirtualPods : /\ vp' = [vp EXCEPT ![p] = v] /\ v.provCancel = vp[p].provCancel
                                   /\ v.lifeCancel = vp[p].lifeCancel /\ v.completed = vp[p].completed
      <4> DEFINE n == [vp[p] EXCEPT !.cont = "Terminated"]
      <4>5. /\ n \in VirtualPods /\ n.provCancel = vp[p].provCancel /\ n.lifeCancel = vp[p].lifeCancel
          /\ n.completed = vp[p].completed
        BY <1>5 DEF VirtualPods, Terminal
      <4>6. vp' = [vp EXCEPT ![p] = n]
        BY <2>2
      <4> HIDE DEF n
      <4> QED BY <4>5, <4>6
    <3>2. Hold(p)
      BY <1>12 DEF StatusReportTimeout
    <3> QED BY <1>10, <2>2, <3>1, <3>2
  <2> QED BY <1>12, <2>1, <2>2 DEF StatusReportTimeout
<1> QED BY <1>9, <1>11, <1>12

\* A round that goes on or ends without a restart keeps the invariant.
LEMMA RoundGoesOn ==
    ASSUME ProviderIInv, NEW p \in Pods, NEW g \in Gens,
           restartBackoff(p, g) \/ LoopFinalize(p, g) \/ LoopDestroy(p, g) \/ LoopStop(p, g)
    PROVE  ProviderIInv'
<1> USE DEF procVars
<1>1. /\ PodsOK /\ MapsOK /\ VpOK /\ LockOK /\ ProvOK /\ LoopOK /\ CancelledOK /\ WorkersOK
      /\ CloudOK /\ ProcessOK /\ PodInv(p)
  BY TypeParts DEF ProviderIInv
<1>2. /\ UNCHANGED <<loopOnly, prov, gens, provCancelled, api, restarts>>
      /\ loop[p][g] \in {"tick", "backoff", "finalize", "destroy"}
  BY DEF restartBackoff, LoopFinalize, LoopDestroy, LoopStop, LoopAt
<1>3. loop[p][g] # "off" /\ vp[p] \in VirtualPods
  BY <1>1, <1>2 DEF PodInv, GoroutinesKnow, VpOK
<1>4. vp = [vp EXCEPT ![p] = vp[p]] /\ lock = [lock EXCEPT ![p] = lock[p]]
      /\ loop = [loop EXCEPT ![p][g] = loop[p][g]] /\ lock[p] \in Workers \cup {"loop", Nil}
  BY <1>1 DEF VpOK, LockOK, LoopOK
<1>5. PodsOK'
  BY <1>1, <1>2 DEF PodsOK, loopOnly
<1>6. /\ "tick" \in LoopSteps \ InRound /\ "restart" \in LoopSteps \cap InRound
      /\ "ended" \in LoopSteps \ InRound /\ "destroy" \in LoopSteps \cap InRound
      /\ "finalize" \in LoopSteps \cap InRound /\ "backoff" \in InRound /\ Nil \in Workers \cup {"loop", Nil}
      /\ "loop" \notin Workers
  BY ProviderAssumption DEF LoopSteps, InRound
<1>7. loop[p][g] \in InRound => lock[p] = "loop"
  BY <1>1 DEF PodInv, RoundsLocked
<1>8. CASE restartBackoff(p, g)
  <2>1. loop[p][g] = "backoff" /\ gens[p] < MaxGen /\ lock[p] = "loop"
    BY <1>1, <1>6, <1>7, <1>8 DEF restartBackoff, LoopAt, PodInv, RoundsLocked
  <2>2. MapsOK' /\ CancelledOK' /\ CloudOK' /\ ProcessOK' /\ vp' = [vp EXCEPT ![p] = vp[p]]
        /\ UNCHANGED lifeCancelled
    BY <1>1, <1>4, <1>8 DEF restartBackoff, loopOnly, MapsOK, CancelledOK, CloudOK, ProcessOK
  <2>3. CASE LoopGoto(p, g, "tick") /\ Unlock(p)
    <3>1. loop' = [loop EXCEPT ![p][g] = "tick"] /\ lock' = [lock EXCEPT ![p] = Nil]
      BY <2>3 DEF LoopGoto, Unlock
    <3> QED BY <1>2, <1>3, <1>5, <1>6, <2>1, <2>2, <3>1, LoopStep
  <2>4. CASE LoopGoto(p, g, "restart") /\ UNCHANGED lock
    <3>1. loop' = [loop EXCEPT ![p][g] = "restart"] /\ lock' = [lock EXCEPT ![p] = lock[p]]
      BY <1>4, <2>4 DEF LoopGoto
    <3> QED BY <1>2, <1>3, <1>4, <1>5, <1>6, <2>1, <2>2, <3>1, LoopStep, ZenonT(60)
  <2> QED BY <1>8, <2>3, <2>4 DEF restartBackoff
<1>9. CASE LoopFinalize(p, g)
  <2>1. loop[p][g] = "finalize" /\ lock[p] = "loop"
    BY <1>6, <1>7, <1>9 DEF LoopFinalize, LoopAt
  <2>2. lock' = [lock EXCEPT ![p] = lock[p]] /\ CloudOK'
    BY <1>1, <1>4, <1>9 DEF LoopFinalize, CloudOK
  <2>3. CASE panicked' = TRUE /\ UNCHANGED <<lifeCancelled, assigned, vp, loop>>
    <3>1. vp' = [vp EXCEPT ![p] = vp[p]] /\ loop' = [loop EXCEPT ![p][g] = "finalize"]
      BY <1>4, <2>1, <2>3
    <3>2. MapsOK' /\ CancelledOK' /\ ProcessOK'
      BY <1>1, <1>2, <2>3 DEF loopOnly, MapsOK, CancelledOK, ProcessOK
    <3>3. /\ lifeCancelled \subseteq lifeCancelled' /\ "finalize" # "off" /\ "finalize" # "backoff"
          /\ "finalize" # "restart" /\ "finalize" # "ended"
      BY <2>3
    <3>4. UNCHANGED <<loopOnly, prov, gens, provCancelled>>
      BY <1>2
    <3>5. PICK v \in VirtualPods : v = vp[p]
      BY <1>3
    <3>6. PICK l \in Workers \cup {"loop", Nil} : l = lock[p]
      BY <1>4
    <3> QED BY <1>5, <1>6, <2>1, <2>2, <3>1, <3>2, <3>3, <3>4, <3>5, <3>6, LoopStep
  <2>4. ASSUME NEW q, q = virtualPods[KeyOf[p]], ~(q = Nil \/ (q # Nil /\ vp[q].lifeCancel = Nil)),
               lifeCancelled' = lifeCancelled \cup {<<q, vp[q].lifeCancel>>},
               assigned' = [assigned EXCEPT ![vp[p].slot] = FALSE],
               vp' = [vp EXCEPT ![p].finalized = TRUE], LoopGoto(p, g, "destroy"), UNCHANGED panicked
        PROVE  ProviderIInv'
    <3>1. KeyOf[p] \in Keys
      BY DEF Keys
    <3>2. q \in Pods /\ vp[q] # Nil
      BY <1>1, <2>4, <3>1 DEF MapsOK, ProviderIInv, Registered
    <3>3. vp[q] \in VirtualPods
      BY <1>1, <3>2 DEF VpOK
    <3>4. vp[q].lifeCancel \in Gens
      BY <2>4, <3>3 DEF VirtualPods
    <3>5. CancelledOK'
      BY <1>1, <1>2, <2>4, <3>2, <3>4 DEF CancelledOK
    <3>6. MapsOK' /\ ProcessOK'
      BY <1>1, <1>2, <2>4 DEF MapsOK, ProcessOK, loopOnly
    <3>7. PICK v \in VirtualPods : /\ vp' = [vp EXCEPT ![p] = v] /\ v.provCancel = vp[p].provCancel
                                   /\ v.lifeCancel = vp[p].lifeCancel /\ v.completed = vp[p].completed
      <4> DEFINE n == [vp[p] EXCEPT !.finalized = TRUE]
      <4>1. /\ n \in VirtualPods /\ n.provCancel = vp[p].provCancel /\ n.lifeCancel = vp[p].lifeCancel
            /\ n.completed = vp[p].completed
        BY <1>3 DEF VirtualPods
      <4>2. vp' = [vp EXCEPT ![p] = n]
        BY <2>4
      <4> HIDE DEF n
      <4> QED BY <4>1, <4>2
    <3>8. loop' = [loop EXCEPT ![p][g] = "destroy"]
      BY <2>4 DEF LoopGoto
    <3>9. lifeCancelled \subseteq lifeCancelled'
      BY <2>4
    <3> QED BY <1>2, <1>3, <1>4, <1>5, <1>6, <2>1, <2>2, <3>5, <3>6, <3>7, <3>8, <3>9, LoopStep,
               ZenonT(60)
  <2> QED BY <1>9, <2>3, <2>4 DEF LoopFinalize
<1>10. CASE LoopDestroy(p, g)
  <2>1. loop[p][g] = "destroy" /\ lock[p] = "loop"
    BY <1>6, <1>7, <1>10 DEF LoopDestroy, LoopAt
  <2>2. MapsOK' /\ CancelledOK' /\ ProcessOK' /\ vp' = [vp EXCEPT ![p] = vp[p]]
        /\ UNCHANGED lifeCancelled
    BY <1>1, <1>4, <1>10 DEF LoopDestroy, loopOnly, MapsOK, CancelledOK, ProcessOK
  <2>3. CloudOK'
    <3>1. vp[p].machine \in Machines \cup {Nil}
      BY <1>3 DEF VirtualPods
    <3> QED BY <1>1, <1>10, <3>1, DestroyKeeps DEF LoopDestroy
  <2>4. loop' = [loop EXCEPT ![p][g] = "tick"] /\ lock' = [lock EXCEPT ![p] = Nil]
    BY <1>10 DEF LoopDestroy, LoopGoto, Unlock
  <2> QED BY <1>2, <1>3, <1>5, <1>6, <2>1, <2>2, <2>3, <2>4, LoopStep
<1>11. CASE LoopStop(p, g)
  <2>1. loop[p][g] = "tick"
    BY <1>11 DEF LoopStop, LoopAt
  <2>2. /\ MapsOK' /\ CancelledOK' /\ CloudOK' /\ ProcessOK' /\ UNCHANGED lifeCancelled
        /\ vp' = [vp EXCEPT ![p] = vp[p]] /\ lock' = [lock EXCEPT ![p] = lock[p]]
    BY <1>1, <1>4, <1>11 DEF LoopStop, loopOnly, MapsOK, CancelledOK, CloudOK, ProcessOK
  <2>3. loop' = [loop EXCEPT ![p][g] = "ended"]
    BY <1>11 DEF LoopStop, LoopGoto
  <2> QED BY <1>2, <1>3, <1>4, <1>5, <1>6, <2>1, <2>2, <2>3, LoopStep
<1> QED BY <1>8, <1>9, <1>10, <1>11

\* A restart keeps the invariant: it cancels the one loop that acts, its own, before the next
\* generation's initialization exists.
LEMMA RestartKeeps ==
    ASSUME ProviderIInv, NEW p \in Pods, NEW g \in Gens, LoopRestart(p, g)
    PROVE  ProviderIInv'
<1> USE DEF procVars
<1>1. /\ PodsOK /\ MapsOK /\ VpOK /\ LockOK /\ ProvOK /\ LoopOK /\ CancelledOK /\ WorkersOK
      /\ CloudOK /\ ProcessOK /\ PodInv(p)
  BY TypeParts DEF ProviderIInv
<1>2. loop[p][g] = "restart" /\ loop[p][g] \in InRound
  BY DEF LoopRestart, LoopAt, InRound
<1>3. g = gens[p] /\ gens[p] < MaxGen /\ lock[p] = "loop" /\ "loop" \notin Workers
  BY <1>1, <1>2, ProviderAssumption DEF PodInv, RoundsLocked, LastGeneration
<1>4. PICK n \in Gens : n = gens[p] + 1 /\ n > g /\ n # g /\ n # Nil
  BY <1>3, ProviderAssumption DEF Gens
<1>5. vp[p] # Nil /\ vp[p] \in VirtualPods /\ vp[p].lifeCancel # Nil
  BY <1>1, <1>2 DEF PodInv, GoroutinesKnow, VpOK
<1>6. PICK v \in VirtualPods : /\ vp' = [vp EXCEPT ![p] = v] /\ v.provCancel = n
                               /\ v.lifeCancel = vp[p].lifeCancel
  <2> DEFINE x == [vp[p] EXCEPT !.provCancel = n]
  <2>1. x \in VirtualPods /\ x.provCancel = n /\ x.lifeCancel = vp[p].lifeCancel
    BY <1>5 DEF VirtualPods
  <2>2. vp' = [vp EXCEPT ![p] = x]
    BY <1>4 DEF LoopRestart
  <2> HIDE DEF x
  <2> QED BY <2>1, <2>2
<1>7. VpOK' /\ vp'[p] = v /\ vp'[p] # Nil /\ \A q \in Pods \ {p} : vp'[q] = vp[q]
  BY <1>1, <1>6, VpMoves
<1>8. /\ ProvOK' /\ prov'[p][n].pc = "op" /\ \A h \in Gens \ {n} : prov'[p][h] = prov[p][h]
      /\ \A q \in Pods \ {p} : prov'[q] = prov[q]
  <2>1. Started(TRUE) \in ProvRecords /\ Started(TRUE).pc = "op"
    BY StartedIs
  <2>2. prov' = [prov EXCEPT ![p][n] = Started(TRUE)]
    BY <1>4 DEF LoopRestart
  <2>3. PICK r \in ProvRecords : r = Started(TRUE)
    BY <2>1
  <2> QED BY <1>1, <2>1, <2>2, <2>3, ProvMoves, ZenonT(60)
<1>9. /\ LoopOK' /\ loop'[p][g] = "tick" /\ \A h \in Gens \ {g} : loop'[p][h] = loop[p][h]
      /\ gens'[p] = n /\ \A q \in Pods \ {p} : loop'[q] = loop[q] /\ gens'[q] = gens[q]
  BY <1>1, <1>4 DEF LoopOK, LoopRestart, LoopGoto, LoopSteps
<1>10. LockOK' /\ \A q \in Pods \ {p} : lock'[q] = lock[q]
  BY <1>1 DEF LockOK, LoopRestart, Unlock
<1>11. /\ CancelledOK' /\ lifeCancelled \subseteq lifeCancelled'
       /\ <<p, vp[p].lifeCancel>> \in lifeCancelled'
  <2>1. vp[p].lifeCancel \in Gens
    BY <1>5 DEF VirtualPods
  <2> QED BY <1>1, <2>1 DEF LoopRestart, CancelledOK
<1>12. TypeOK'
  <2>1. PodsOK' /\ MapsOK' /\ WorkersOK' /\ CloudOK' /\ ProcessOK'
    BY <1>1 DEF LoopRestart, loopOnly, PodsOK, MapsOK, WorkersOK, CloudOK, ProcessOK
  <2> QED BY <1>7, <1>8, <1>9, <1>10, <1>11, <2>1, TypePartsNext
<1>13. PodInv(p)'
  <2>1. \A h \in Gens : loop'[p][h] \notin InRound
    BY <1>1, <1>2, <1>9 DEF PodInv, RoundsLocked, InRound
  <2>2. RoundsLocked(p)'
    BY <2>1 DEF RoundsLocked, InRound
  <2>3. GoroutinesKnow(p)'
    BY <1>1, <1>4, <1>5, <1>6, <1>7, <1>8, <1>9 DEF PodInv, GoroutinesKnow
  <2>4. CancelKnown(p)'
    BY <1>4, <1>5, <1>6, <1>7 DEF CancelKnown
  <2>5. \A h \in Gens : ~Active(p, h)'
    <3>1. ASSUME NEW h \in Gens, Active(p, h)' PROVE FALSE
      <4>1. Active(p, h)
        BY <1>2, <1>9, <1>11, <3>1 DEF Active
      <4>2. h = vp[p].lifeCancel
        BY <1>1, <4>1 DEF PodInv, LastGeneration
      <4> QED BY <1>11, <3>1, <4>2 DEF Active
    <3> QED BY <3>1
  <2>6. \A h \in Gens : BeforeLoop(p, h)' => h = n
    <3>1. \A h \in Gens \ {n} : BeforeLoop(p, h)' => BeforeLoop(p, h)
      BY <1>8 DEF BeforeLoop
    <3>2. \A h \in Gens : ~BeforeLoop(p, h)
      BY <1>1, <1>2, <1>3 DEF PodInv, LastGeneration
    <3> QED BY <3>1, <3>2
  <2>7. loop'[p][n] = "off"
    BY <1>1, <1>3, <1>4, <1>9 DEF PodInv, LastGeneration
  <2>8. \A h \in Gens : h > n => prov'[p][h].pc = "off" /\ loop'[p][h] = "off"
    <3>1. \A h \in Gens : h > n => h > gens[p] /\ h # n /\ h # g
      BY <1>3, <1>4 DEF Gens
    <3> QED BY <1>1, <1>8, <1>9, <3>1 DEF PodInv, LastGeneration
  <2>9. LastGeneration(p)'
    BY <1>9, <2>1, <2>5, <2>6, <2>7, <2>8 DEF LastGeneration
  <2> QED BY <2>2, <2>3, <2>4, <2>9 DEF PodInv
<1>14. ASSUME NEW q \in Pods \ {p} PROVE PodInv(q)'
  BY <1>7, <1>8, <1>9, <1>10, <1>11, OtherPod DEF ProviderIInv
<1>15. Registered' /\ OneWorkerPerKey' /\ \A w \in Workers : WorkerKnows(w)'
  BY <1>3, <1>5, <1>7, <1>10, WorkersKeep DEF LoopRestart, loopOnly
<1> QED BY <1>12, <1>13, <1>14, <1>15 DEF ProviderIInv

-----------------------------------------------------------------------------
\* CreatePod, UpdatePod, DeletePod, and everything outside the provider.

\* A pod keeps its invariant in a step that changes no more of it than what its VirtualPod
\* reports and whether it is finalized.
LEMMA SameGoroutines ==
    ASSUME NEW q \in Pods, PodInv(q), vp[q] # Nil, vp'[q] # Nil,
           vp'[q].provCancel = vp[q].provCancel, vp'[q].lifeCancel = vp[q].lifeCancel,
           vp'[q].completed = vp[q].completed,
           UNCHANGED <<prov, loop, gens>>, lock'[q] = lock[q] \/ lock[q] # "loop",
           lifeCancelled \subseteq lifeCancelled'
    PROVE  PodInv(q)'
<1>1. RoundsLocked(q)'
  BY DEF PodInv, RoundsLocked
<1>2. GoroutinesKnow(q)' /\ CancelKnown(q)'
  BY DEF PodInv, GoroutinesKnow, CancelKnown
<1>3. LastGeneration(q)'
  BY DEF PodInv, LastGeneration, BeforeLoop, Active
<1> QED BY <1>1, <1>2, <1>3 DEF PodInv

\* A worker without work.
LEMMA IdleIs == IdleWorker \in WorkerRecords /\ IdleWorker.pc = "idle"
<1>1. IdleWorker \in WorkerRecords
  BY ProviderAssumption DEF IdleWorker, WorkerRecords
<1>2. IdleWorker.pc = "idle"
  BY DEF IdleWorker
<1> QED BY <1>1, <1>2

\* Workers at other keys notice nothing of a worker at the key of p, new there or not.
LEMMA OtherWorkers ==
    ASSUME ProviderIInv, NEW w \in Workers, NEW p \in Pods,
           (wk[w].pc # "idle" /\ wk[w].pod = p) \/ ~Busy(KeyOf[p]),
           NEW r \in WorkerRecords, wk' = [wk EXCEPT ![w] = r], r.pc # "idle" => r.pod = p,
           \A k \in Keys \ {KeyOf[p]} : virtualPods'[k] = virtualPods[k],
           \A q \in Pods : KeyOf[q] # KeyOf[p] => pod'[q] = pod[q] /\ lock'[q] = lock[q]
    PROVE  /\ WorkersOK' /\ OneWorkerPerKey' /\ wk'[w] = r
           /\ \A u \in Workers \ {w} : WorkerKnows(u)'
<1>1. WorkersOK
  BY TypeParts DEF ProviderIInv
<1>2. WorkersOK' /\ wk'[w] = r /\ \A u \in Workers \ {w} : wk'[u] = wk[u]
  BY <1>1 DEF WorkersOK
<1>3. \A u \in Workers \ {w} : wk[u].pc # "idle" => wk[u].pod \in Pods /\ KeyOf[wk[u].pod] # KeyOf[p]
  BY DEF ProviderIInv, OneWorkerPerKey, Busy, WorkerKnows
<1>4. OneWorkerPerKey'
  BY <1>2, <1>3 DEF ProviderIInv, OneWorkerPerKey
<1>5. ASSUME NEW u \in Workers \ {w} PROVE WorkerKnows(u)'
  <2>1. WorkerKnows(u)
    BY DEF ProviderIInv
  <2>2. CASE wk[u].pc = "idle"
    BY <1>2, <2>2 DEF WorkerKnows
  <2>3. CASE wk[u].pc # "idle"
    <3>1. /\ wk[u].pod \in Pods /\ KeyOf[wk[u].pod] \in Keys /\ wk'[u] = wk[u]
          /\ KeyOf[wk[u].pod] # KeyOf[p]
      BY <1>2, <1>3, <2>3 DEF Keys
    <3>2. /\ virtualPods'[KeyOf[wk[u].pod]] = virtualPods[KeyOf[wk[u].pod]]
          /\ pod'[wk[u].pod] = pod[wk[u].pod] /\ lock'[wk[u].pod] = lock[wk[u].pod]
      BY <3>1
    <3> QED BY <2>1, <3>1, <3>2 DEF WorkerKnows, There
  <2> QED BY <2>2, <2>3
<1> QED BY <1>2, <1>4, <1>5

\* Pods and their goroutines, as long as nobody touches them.
LEMMA PodsKeep ==
    ASSUME ProviderIInv, UNCHANGED <<vp, lock, prov, loop, gens>>, lifeCancelled \subseteq lifeCancelled'
    PROVE  \A q \in Pods : PodInv(q)'
BY OtherPod DEF ProviderIInv

\* Steps of the cloud and of the collector.
LEMMA ElsewhereKeeps ==
    ASSUME ProviderIInv, UNCHANGED <<podVars, regVars, vp, lock, goVars, wk, procVars>>,
           gc' \in [pods : SUBSET Pods] \cup {Nil}, CloudOK'
    PROVE  ProviderIInv'
<1> USE DEF podVars, regVars, goVars, procVars
<1>1. /\ PodsOK /\ MapsOK /\ VpOK /\ LockOK /\ ProvOK /\ LoopOK /\ CancelledOK /\ WorkersOK
      /\ ProcessOK
  BY TypeParts DEF ProviderIInv
<1>2. TypeOK'
  BY <1>1, TypePartsNext
     DEF PodsOK, MapsOK, VpOK, LockOK, ProvOK, LoopOK, CancelledOK, WorkersOK, ProcessOK
<1>3. \A q \in Pods : PodInv(q)'
  BY PodsKeep
<1>4. Registered' /\ OneWorkerPerKey' /\ \A w \in Workers : WorkerKnows(w)'
  BY WorkersKeep
<1> QED BY <1>2, <1>3, <1>4 DEF ProviderIInv

\* A machine boots, stops, is taken away or destroyed, or the collector looks around.
LEMMA CloudKeeps ==
    ASSUME ProviderIInv,
           \/ \E m \in Machines : MachineStarts(m) \/ ContainerExits(m) \/ MachineVanishes(m)
           \/ GcList \/ PruneDanglingMachines
    PROVE  ProviderIInv'
<1>1. CloudOK /\ ProcessOK
  BY TypeParts DEF ProviderIInv
<1>2. ASSUME NEW m \in Machines, Alive(m), UNCHANGED cloudOnly,
             NEW s \in {"starting", "running", "failed", "gone"},
             NEW a \in {"Waiting", "Running", "ExitZero", "ExitError"},
             cloud' = [cloud EXCEPT ![m] = [cloud[m] EXCEPT !.state = s, !.agent = a]]
      PROVE  ProviderIInv'
  <2>1. cloud[m] \in MachineRecords
    BY <1>1, <1>2, AliveIs
  <2>2. [cloud[m] EXCEPT !.state = s, !.agent = a] \in MachineRecords
    BY <2>1 DEF MachineRecords
  <2>3. CloudOK'
    BY <1>1, <1>2, <2>2, CloudMoves
  <2> QED BY <1>1, <1>2, <2>3, ElsewhereKeeps DEF cloudOnly, ProcessOK
<1>3. ASSUME NEW m \in Machines, Alive(m)
      PROVE  /\ cloud[m] \in MachineRecords
             /\ cloud[m].agent \in {"Waiting", "Running", "ExitZero", "ExitError"}
             /\ cloud[m].state \in {"starting", "running", "failed", "gone"}
             /\ \A s : [cloud[m] EXCEPT !.state = s] =
                         [cloud[m] EXCEPT !.state = s, !.agent = cloud[m].agent]
             /\ \A a : [cloud[m] EXCEPT !.agent = a] =
                         [cloud[m] EXCEPT !.state = cloud[m].state, !.agent = a]
  <2>1. cloud[m] \in MachineRecords
    BY <1>1, <1>3, AliveIs
  <2> QED BY <2>1 DEF MachineRecords
<1>4. ASSUME NEW m \in Machines, MachineStarts(m) PROVE ProviderIInv'
  <2>1. PICK s \in {"running", "failed"} : cloud' = [cloud EXCEPT ![m] = [cloud[m] EXCEPT !.state = s]]
    BY <1>4 DEF MachineStarts
  <2>2. Alive(m) /\ UNCHANGED cloudOnly
    BY <1>4 DEF MachineStarts
  <2>3. cloud' = [cloud EXCEPT ![m] = [cloud[m] EXCEPT !.state = s, !.agent = cloud[m].agent]]
    BY <1>3, <2>1, <2>2
  <2> QED BY <1>2, <1>3, <2>2, <2>3
<1>5. ASSUME NEW m \in Machines, MachineVanishes(m) PROVE ProviderIInv'
  <2>1. /\ cloud' = [cloud EXCEPT ![m] = [cloud[m] EXCEPT !.state = "gone"]]
        /\ Alive(m) /\ UNCHANGED cloudOnly
    BY <1>5 DEF MachineVanishes
  <2>2. cloud' = [cloud EXCEPT ![m] = [cloud[m] EXCEPT !.state = "gone", !.agent = cloud[m].agent]]
    BY <1>3, <2>1
  <2> QED BY <1>2, <1>3, <2>1, <2>2
<1>6. ASSUME NEW m \in Machines, ContainerExits(m) PROVE ProviderIInv'
  <2>1. PICK a \in {"ExitZero", "ExitError"} : cloud' = [cloud EXCEPT ![m] = [cloud[m] EXCEPT !.agent = a]]
    BY <1>6 DEF ContainerExits
  <2>2. Alive(m) /\ UNCHANGED cloudOnly
    BY <1>6 DEF ContainerExits, Running
  <2>3. cloud' = [cloud EXCEPT ![m] = [cloud[m] EXCEPT !.state = cloud[m].state, !.agent = a]]
    BY <1>3, <2>1, <2>2
  <2> QED BY <1>2, <1>3, <2>2, <2>3
<1>7. CASE GcList
  <2>1. gc' \in [pods : SUBSET Pods]
    BY <1>7 DEF GcList, Listed
  <2> QED BY <1>1, <1>7, <2>1, ElsewhereKeeps DEF GcList, CloudOK
<1>8. CASE PruneDanglingMachines
  <2>1. PICK kept \in SUBSET Dangling :
          cloud' = [m \in Machines |-> IF m \in Dangling \ kept
                                       THEN [cloud[m] EXCEPT !.state = "gone"] ELSE cloud[m]]
    BY <1>8 DEF PruneDanglingMachines
  <2>2. \A m \in Dangling : cloud[m] \in MachineRecords
    BY <1>1, AliveIs DEF Dangling
  <2>3. \A m \in Dangling : [cloud[m] EXCEPT !.state = "gone"] \in MachineRecords
    BY <2>2 DEF MachineRecords
  <2>4. CloudOK'
    BY <1>1, <2>1, <2>3 DEF CloudOK
  <2> QED BY <1>8, <2>4, ElsewhereKeeps DEF PruneDanglingMachines
<1> QED BY <1>4, <1>5, <1>6, <1>7, <1>8

\* A pod is scheduled or marked for deletion.
LEMMA ApiKeeps ==
    ASSUME ProviderIInv, NEW p \in Pods, SchedulePod(p) \/ RequestDelete(p)
    PROVE  ProviderIInv'
<1>1. /\ PodsOK /\ MapsOK /\ VpOK /\ LockOK /\ ProvOK /\ LoopOK /\ CancelledOK /\ WorkersOK
      /\ CloudOK /\ ProcessOK
  BY TypeParts DEF ProviderIInv
<1>2. UNCHANGED <<api, assigned, virtualPods, vp, lock, prov, loop, gens, provCancelled,
                  lifeCancelled, wk, cloud, gc, panicked, restarts>>
  BY DEF SchedulePod, RequestDelete, regVars, goVars, procVars
<1>3. /\ PodsOK' /\ There(p)' /\ \A q \in Pods \ {p} : pod'[q] = pod[q]
      /\ pod[p] # "gone"
  BY <1>1, <1>2 DEF SchedulePod, RequestDelete, PodsOK, There
<1>4. TypeOK'
  BY <1>1, <1>2, <1>3, TypePartsNext
     DEF MapsOK, VpOK, LockOK, ProvOK, LoopOK, CancelledOK, WorkersOK, CloudOK, ProcessOK
<1>5. \A q \in Pods : PodInv(q)'
  BY <1>2, PodsKeep
<1>6. \A q \in Pods \ {p} : KeyOf[q] = KeyOf[p] => ~There(q)
  <2>1. CASE SchedulePod(p)
    BY <2>1 DEF SchedulePod, There
  <2>2. CASE RequestDelete(p)
    BY <2>2 DEF RequestDelete, There, ProviderIInv, Registered
  <2> QED BY <2>1, <2>2
<1>7. Registered'
  <2>1. \A q, r \in Pods : (There(q)' /\ There(r)' /\ KeyOf[q] = KeyOf[r]) => q = r
    BY <1>3, <1>6 DEF There, ProviderIInv, Registered
  <2>2. \A q, r \in Pods : virtualPods'[KeyOf[q]] = r => KeyOf[r] = KeyOf[q] /\ vp'[r] # Nil /\ There(r)'
    BY <1>2, <1>3 DEF There, ProviderIInv, Registered
  <2>3. \A q \in Pods : vp'[q] # Nil => virtualPods'[KeyOf[q]] = q \/ pod'[q] = "gone"
    BY <1>2, <1>3 DEF ProviderIInv, Registered
  <2> QED BY <2>1, <2>2, <2>3 DEF Registered
<1>8. OneWorkerPerKey'
  BY <1>2 DEF ProviderIInv, OneWorkerPerKey
<1>9. ASSUME NEW w \in Workers PROVE WorkerKnows(w)'
  <2>1. WorkerKnows(w)
    BY DEF ProviderIInv
  <2> QED BY <1>2, <1>3, <2>1 DEF WorkerKnows, There
<1> QED BY <1>4, <1>5, <1>7, <1>8, <1>9 DEF ProviderIInv

\* A worker takes up a pod with r.
LEMMA WorkerBegins ==
    ASSUME ProviderIInv, NEW w \in Workers, NEW p \in Pods, ~Busy(KeyOf[p]),
           NEW r \in WorkerRecords, wk' = [wk EXCEPT ![w] = r], r.pod = p,
           \/ r.pc = "create" /\ There(p) /\ virtualPods[KeyOf[p]] = Nil
           \/ r.pc = "update" /\ r.copy # Nil /\ virtualPods[KeyOf[p]] # Nil
           \/ r.pc = "lock" /\ r.target = p /\ virtualPods[KeyOf[p]] = p,
           UNCHANGED <<podVars, regVars, vp, lock, goVars, cloud, gc, procVars>>
    PROVE  ProviderIInv'
<1> USE DEF podVars, regVars, goVars, procVars
<1>1. /\ PodsOK /\ MapsOK /\ VpOK /\ LockOK /\ ProvOK /\ LoopOK /\ CancelledOK /\ WorkersOK
      /\ CloudOK /\ ProcessOK
  BY TypeParts DEF ProviderIInv
<1>2. WorkersOK' /\ OneWorkerPerKey' /\ wk'[w] = r /\ \A u \in Workers \ {w} : WorkerKnows(u)'
  BY OtherWorkers
<1>3. TypeOK'
  BY <1>1, <1>2, TypePartsNext
     DEF PodsOK, MapsOK, VpOK, LockOK, ProvOK, LoopOK, CancelledOK, CloudOK, ProcessOK
<1>4. \A q \in Pods : PodInv(q)'
  BY PodsKeep
<1>5. Registered'
  BY DEF ProviderIInv, Registered, There
<1>6. WorkerKnows(w)'
  BY <1>2 DEF WorkerKnows, There
<1> QED BY <1>2, <1>3, <1>4, <1>5, <1>6 DEF ProviderIInv

\* The first step of CreatePod, UpdatePod and DeletePod.
LEMMA WorkerBeginsKeeps ==
    ASSUME ProviderIInv, NEW w \in Workers, NEW p \in Pods,
           reserveGatewaySlot(w, p) \/ TakeCopy(w, p) \/ DeletePod(w, p)
    PROVE  ProviderIInv'
<1>1. /\ PodsOK /\ MapsOK /\ VpOK /\ LockOK /\ ProvOK /\ LoopOK /\ CancelledOK /\ WorkersOK
      /\ CloudOK /\ ProcessOK /\ Registered
  BY TypeParts DEF ProviderIInv
<1>2. IdleWorker \in WorkerRecords
  BY ProviderAssumption DEF IdleWorker, WorkerRecords
<1>3. ~Busy(KeyOf[p]) /\ There(p) /\ KeyOf[p] \in Keys
  BY DEF reserveGatewaySlot, TakeCopy, DeletePod, There, Keys
<1>4. CASE reserveGatewaySlot(w, p)
  <2>1. PICK s \in Slots :
          wk' = [wk EXCEPT ![w] = [IdleWorker EXCEPT !.pc = "create", !.pod = p, !.slot = s]]
    BY <1>4 DEF reserveGatewaySlot
  <2>2. PICK r \in WorkerRecords : wk' = [wk EXCEPT ![w] = r] /\ r.pod = p /\ r.pc = "create"
    <3> DEFINE n == [IdleWorker EXCEPT !.pc = "create", !.pod = p, !.slot = s]
    <3>1. n \in WorkerRecords /\ n.pod = p /\ n.pc = "create"
      BY <1>2 DEF WorkerRecords
    <3> HIDE DEF n
    <3> QED BY <2>1, <3>1 DEF n
  <2> QED BY <1>3, <1>4, <2>2, WorkerBegins DEF reserveGatewaySlot
<1>5. CASE TakeCopy(w, p)
  <2>1. PICK r \in WorkerRecords :
          wk' = [wk EXCEPT ![w] = r] /\ r.pod = p /\ r.pc = "update" /\ r.copy # Nil
    <3> DEFINE n == [IdleWorker EXCEPT !.pc = "update", !.pod = p, !.copy = api[p]]
    <3>1. api[p] \in PodObjects /\ api[p] # Nil
      BY <1>1, NilAssumption DEF PodsOK
    <3>2. n \in WorkerRecords /\ n.pod = p /\ n.pc = "update" /\ n.copy # Nil
      BY <1>2, <3>1 DEF WorkerRecords
    <3>3. wk' = [wk EXCEPT ![w] = n]
      BY <1>5 DEF TakeCopy
    <3> HIDE DEF n
    <3> QED BY <3>2, <3>3
  <2> QED BY <1>3, <1>5, <2>1, WorkerBegins DEF TakeCopy
<1>6. CASE DeletePod(w, p) /\ virtualPods[KeyOf[p]] # Nil
  <2>1. virtualPods[KeyOf[p]] = p
    BY <1>1, <1>3, <1>6 DEF MapsOK, Registered
  <2>2. PICK r \in WorkerRecords :
          wk' = [wk EXCEPT ![w] = r] /\ r.pod = p /\ r.pc = "lock" /\ r.target = p
    <3> DEFINE n == [IdleWorker EXCEPT !.pc = "lock", !.pod = p, !.target = p]
    <3>1. n \in WorkerRecords /\ n.pod = p /\ n.pc = "lock" /\ n.target = p
      BY <1>2 DEF WorkerRecords
    <3>2. wk' = [wk EXCEPT ![w] = n]
      BY <1>6, <2>1 DEF DeletePod
    <3> HIDE DEF n
    <3> QED BY <3>1, <3>2
  <2>3. UNCHANGED <<podVars, regVars, vp, lock, goVars, cloud, gc, procVars>>
    BY <1>6 DEF DeletePod, podVars
  <2> QED BY <1>3, <2>1, <2>2, <2>3, WorkerBegins
<1>7. CASE DeletePod(w, p) /\ virtualPods[KeyOf[p]] = Nil
  <2> USE DEF regVars, goVars, procVars
  <2>1. /\ pod' = [pod EXCEPT ![p] = "gone"]
        /\ UNCHANGED <<wk, api, regVars, vp, lock, goVars, cloud, gc, procVars>>
    BY <1>7 DEF DeletePod
  <2>2. PodsOK' /\ pod'[p] = "gone" /\ \A q \in Pods \ {p} : pod'[q] = pod[q]
    BY <1>1, <2>1 DEF PodsOK
  <2>3. TypeOK'
    BY <1>1, <2>1, <2>2, TypePartsNext
       DEF MapsOK, VpOK, LockOK, ProvOK, LoopOK, CancelledOK, WorkersOK, CloudOK, ProcessOK
  <2>4. \A q \in Pods : PodInv(q)'
    BY <2>1, PodsKeep
  <2>5. p # Nil /\ \A q \in Pods : KeyOf[q] = KeyOf[p] => virtualPods[KeyOf[q]] # p
    BY <1>7, ProviderAssumption
  <2>6. Registered'
    <3>1. \A q, r \in Pods : (There(q)' /\ There(r)' /\ KeyOf[q] = KeyOf[r]) => q = r
      BY <1>1, <2>2 DEF There, Registered
    <3>2. \A q, r \in Pods : virtualPods'[KeyOf[q]] = r =>
            KeyOf[r] = KeyOf[q] /\ vp'[r] # Nil /\ There(r)'
      BY <1>1, <2>1, <2>2, <2>5 DEF There, Registered
    <3>3. \A q \in Pods : vp'[q] # Nil => virtualPods'[KeyOf[q]] = q \/ pod'[q] = "gone"
      BY <1>1, <2>1, <2>2 DEF Registered
    <3> QED BY <3>1, <3>2, <3>3 DEF Registered
  <2>7. OneWorkerPerKey'
    BY <2>1 DEF ProviderIInv, OneWorkerPerKey
  <2>8. ASSUME NEW u \in Workers PROVE WorkerKnows(u)'
    <3>1. WorkerKnows(u) /\ (wk[u].pc # "idle" => wk[u].pod # p)
      BY <1>3 DEF ProviderIInv, Busy
    <3> QED BY <2>1, <2>2, <3>1 DEF WorkerKnows, There
  <2> QED BY <2>3, <2>4, <2>6, <2>7, <2>8 DEF ProviderIInv
<1> QED BY <1>4, <1>5, <1>6, <1>7

\* CreatePod registers a pod that had no VirtualPod and no goroutine.
LEMMA CreateKeeps ==
    ASSUME ProviderIInv, NEW w \in Workers, CreatePod(w)
    PROVE  ProviderIInv'
<1> USE DEF procVars
<1>1. /\ PodsOK /\ MapsOK /\ VpOK /\ LockOK /\ ProvOK /\ LoopOK /\ CancelledOK /\ WorkersOK
      /\ CloudOK /\ ProcessOK /\ Registered /\ WorkerKnows(w)
  BY TypeParts DEF ProviderIInv
<1>2. wk[w].pc = "create"
  BY DEF CreatePod, WorkerAt
<1>3. PICK p \in Pods : p = wk[w].pod /\ There(p) /\ virtualPods[KeyOf[p]] = Nil /\ p # Nil
  BY <1>1, <1>2, ProviderAssumption DEF WorkerKnows
<1>4. PICK s \in Slots : s = wk[w].slot
  BY <1>1 DEF WorkersOK, WorkerRecords
<1>5. PICK k \in Keys : k = KeyOf[p]
  BY DEF Keys
<1>6. vp[p] = Nil /\ PodInv(p)
  BY <1>1, <1>3 DEF Registered, There, ProviderIInv
<1>7. gens[p] = 0 /\ \A g \in Gens : prov[p][g].pc = "off" /\ loop[p][g] = "off"
  BY <1>6 DEF PodInv, CancelKnown, GoroutinesKnow
<1>8. 0 \in Gens /\ 0 # Nil
  BY ProviderAssumption DEF Gens
<1>9. PICK o \in PodObjects : o = NewPod(s) /\ api' = [api EXCEPT ![p] = o]
  <2>1. NewPod(s) \in PodObjects
    BY DEF NewPod, PodObjects
  <2> QED BY <1>3, <1>4, <2>1 DEF CreatePod
<1>10. PICK v \in VirtualPods : /\ vp' = [vp EXCEPT ![p] = v] /\ v.provCancel = 0 /\ v.lifeCancel = Nil
                                /\ ~v.completed
  <2>1. PICK b \in VirtualPods : b = NewVirtualPod(NewPod(s), TRUE) /\ b.lifeCancel = Nil /\ ~b.completed
    <3>1. /\ NewVirtualPod(o, TRUE) \in VirtualPods /\ NewVirtualPod(o, TRUE).lifeCancel = Nil
          /\ ~NewVirtualPod(o, TRUE).completed
      BY DEF NewVirtualPod, VirtualPods, PodObjects
    <3> QED BY <1>9, <3>1
  <2> DEFINE n == [b EXCEPT !.provCancel = 0]
  <2>2. n \in VirtualPods /\ n.provCancel = 0 /\ n.lifeCancel = Nil /\ ~n.completed
    BY <1>8, <2>1 DEF VirtualPods
  <2>3. vp' = [vp EXCEPT ![p] = n]
    BY <1>3, <1>4, <2>1 DEF CreatePod
  <2> HIDE DEF n
  <2> QED BY <2>2, <2>3
<1>11. VpOK' /\ vp'[p] = v /\ vp'[p] # Nil /\ \A q \in Pods \ {p} : vp'[q] = vp[q]
  BY <1>1, <1>10, VpMoves
<1>12. /\ ProvOK' /\ prov'[p][0].pc = "leftover" /\ \A h \in Gens \ {0} : prov'[p][h] = prov[p][h]
       /\ \A q \in Pods \ {p} : prov'[q] = prov[q]
  <2>1. PICK r \in ProvRecords : r = Started(FALSE) /\ r.pc = "leftover"
    BY StartedIs
  <2>2. PICK g \in Gens : g = 0
    BY <1>8
  <2>3. prov' = [prov EXCEPT ![p][g] = r]
    BY <1>3, <2>1, <2>2 DEF CreatePod
  <2>4. /\ ProvOK' /\ prov'[p][g] = r /\ \A h \in Gens \ {g} : prov'[p][h] = prov[p][h]
        /\ \A q \in Pods \ {p} : prov'[q] = prov[q]
    <3>1. ProvOK
      BY <1>1
    <3> QED BY <2>3, <3>1 DEF ProvOK
  <2> QED BY <2>1, <2>2, <2>4
<1>13. /\ UNCHANGED <<pod, lock, loop, gens, provCancelled, lifeCancelled, cloud, gc, panicked, restarts>>
       /\ PodsOK'
  BY <1>1, <1>9 DEF CreatePod, PodsOK
<1>14. MapsOK' /\ virtualPods'[k] = p /\ \A j \in Keys \ {k} : virtualPods'[j] = virtualPods[j]
  BY <1>1, <1>3, <1>4, <1>5 DEF MapsOK, CreatePod
<1>15. WorkersOK' /\ OneWorkerPerKey' /\ wk'[w] = IdleWorker /\ \A u \in Workers \ {w} : WorkerKnows(u)'
  <2>1. PICK r \in WorkerRecords : r = IdleWorker /\ r.pc = "idle"
    BY IdleIs
  <2>2. wk' = [wk EXCEPT ![w] = r]
    BY <2>1 DEF CreatePod
  <2>3. \A j \in Keys \ {KeyOf[p]} : virtualPods'[j] = virtualPods[j]
    BY <1>5, <1>14
  <2> QED BY <1>2, <1>3, <1>13, <2>1, <2>2, <2>3, OtherWorkers
<1>16. TypeOK'
  BY <1>1, <1>11, <1>12, <1>13, <1>14, <1>15, TypePartsNext
     DEF LockOK, LoopOK, CancelledOK, CloudOK, ProcessOK
<1>17. PodInv(p)'
  <2>1. RoundsLocked(p)'
    BY <1>7, <1>13 DEF RoundsLocked, InRound
  <2>2. GoroutinesKnow(p)'
    BY <1>7, <1>8, <1>10, <1>11, <1>12, <1>13 DEF GoroutinesKnow
  <2>3. CancelKnown(p)'
    BY <1>8, <1>10, <1>11 DEF CancelKnown
  <2>4. LastGeneration(p)'
    <3>1. \A h \in Gens : BeforeLoop(p, h)' => h = 0
      BY <1>7, <1>12 DEF BeforeLoop
    <3>2. \A h \in Gens : ~Active(p, h)'
      BY <1>7, <1>13 DEF Active
    <3>3. \A h \in Gens : h > 0 => prov'[p][h].pc = "off"
      BY <1>7, <1>12
    <3> QED BY <1>7, <1>13, <3>1, <3>2, <3>3 DEF LastGeneration, InRound
  <2> QED BY <2>1, <2>2, <2>3, <2>4 DEF PodInv
<1>18. ASSUME NEW q \in Pods \ {p} PROVE PodInv(q)'
  BY <1>11, <1>12, <1>13, OtherPod DEF ProviderIInv
<1>19. Registered'
  <2>1. \A q, r \in Pods : (There(q)' /\ There(r)' /\ KeyOf[q] = KeyOf[r]) => q = r
    BY <1>1, <1>13 DEF There, Registered
  <2>2. ASSUME NEW q \in Pods, NEW r \in Pods, virtualPods'[KeyOf[q]] = r
        PROVE  KeyOf[r] = KeyOf[q] /\ vp'[r] # Nil /\ There(r)'
    <3>1. CASE KeyOf[q] = k
      BY <1>3, <1>5, <1>11, <1>13, <1>14, <2>2, <3>1 DEF There
    <3>2. CASE KeyOf[q] # k
      <4>1. virtualPods[KeyOf[q]] = r
        BY <1>14, <2>2, <3>2 DEF Keys
      <4> QED BY <1>1, <1>11, <1>13, <4>1 DEF There, Registered
    <3> QED BY <3>1, <3>2
  <2>3. ASSUME NEW q \in Pods, vp'[q] # Nil PROVE virtualPods'[KeyOf[q]] = q \/ pod'[q] = "gone"
    <3>1. CASE q = p
      BY <1>5, <1>14, <3>1
    <3>2. CASE q # p
      <4>1. virtualPods[KeyOf[q]] = q \/ pod[q] = "gone"
        BY <1>1, <1>11, <2>3, <3>2 DEF Registered
      <4>2. virtualPods[KeyOf[q]] = q => KeyOf[q] # k
        BY <1>3, <1>5, ProviderAssumption
      <4> QED BY <1>13, <1>14, <4>1, <4>2 DEF Keys
    <3> QED BY <3>1, <3>2
  <2> QED BY <2>1, <2>2, <2>3 DEF Registered
<1>20. WorkerKnows(w)'
  BY <1>15 DEF WorkerKnows, IdleWorker
<1> QED BY <1>15, <1>16, <1>17, <1>18, <1>19, <1>20 DEF ProviderIInv

\* What the last step of a worker with pod p leaves: the pod it deleted is gone and has no
\* entry, every pod has the goroutines and cancel functions it had.
LEMMA WorkerEnds ==
    ASSUME ProviderIInv, NEW w \in Workers, NEW p \in Pods, wk[w].pc # "idle", wk[w].pod = p,
           NEW r \in WorkerRecords, wk' = [wk EXCEPT ![w] = r], r.pc # "idle" => r.pod = p,
           WorkerKnows(w)', UNCHANGED <<prov, loop, gens, gc, procVars>>,
           PodsOK', MapsOK', VpOK', LockOK', CancelledOK', CloudOK',
           lifeCancelled \subseteq lifeCancelled',
           \A q \in Pods \ {p} : pod'[q] = pod[q] /\ lock'[q] = lock[q],
           lock'[p] = lock[p] \/ lock[p] # "loop",
           \A q \in Pods : vp'[q] = vp[q] \/ /\ vp[q] # Nil /\ vp'[q] # Nil
                                              /\ vp'[q].provCancel = vp[q].provCancel
                                              /\ vp'[q].lifeCancel = vp[q].lifeCancel
                                              /\ vp'[q].completed = vp[q].completed,
           \A k \in Keys \ {KeyOf[p]} : virtualPods'[k] = virtualPods[k],
           \/ UNCHANGED <<pod, virtualPods>>
           \/ pod'[p] = "gone" /\ virtualPods[KeyOf[p]] = p /\ virtualPods'[KeyOf[p]] = Nil
    PROVE  ProviderIInv'
<1> USE DEF procVars
<1>1. ProvOK /\ LoopOK /\ ProcessOK /\ Registered
  BY TypeParts DEF ProviderIInv
<1>2. WorkersOK' /\ OneWorkerPerKey' /\ \A u \in Workers \ {w} : WorkerKnows(u)'
  <2>1. \A q \in Pods : KeyOf[q] # KeyOf[p] => pod'[q] = pod[q] /\ lock'[q] = lock[q]
    OBVIOUS
  <2> QED BY <2>1, OtherWorkers, ZenonT(60)
<1>3. TypeOK'
  BY <1>1, <1>2, TypePartsNext DEF ProvOK, LoopOK, ProcessOK
<1>4. ASSUME NEW q \in Pods PROVE PodInv(q)'
  <2>1. PodInv(q)
    BY DEF ProviderIInv
  <2>2. CASE vp'[q] = vp[q]
    BY <2>1, <2>2, OtherPod
  <2>3. CASE vp'[q] # vp[q]
    BY <2>1, <2>3, SameGoroutines
  <2> QED BY <2>2, <2>3
<1>5. \A q \in Pods : vp'[q] = Nil <=> vp[q] = Nil
  OBVIOUS
<1>6. CASE UNCHANGED <<pod, virtualPods>>
  <2>1. Registered'
    BY <1>1, <1>5, <1>6 DEF Registered, There
  <2> QED BY <1>2, <1>3, <1>4, <2>1 DEF ProviderIInv
<1>7. CASE pod'[p] = "gone" /\ virtualPods[KeyOf[p]] = p /\ virtualPods'[KeyOf[p]] = Nil
  <2>1. \A q, s \in Pods : (There(q)' /\ There(s)' /\ KeyOf[q] = KeyOf[s]) => q = s
    BY <1>1, <1>7 DEF There, Registered
  <2>2. ASSUME NEW q \in Pods, NEW s \in Pods, virtualPods'[KeyOf[q]] = s
        PROVE  KeyOf[s] = KeyOf[q] /\ vp'[s] # Nil /\ There(s)'
    <3>1. KeyOf[q] # KeyOf[p]
      BY <1>7, <2>2, ProviderAssumption
    <3>2. virtualPods[KeyOf[q]] = s
      BY <2>2, <3>1 DEF Keys
    <3>3. s # p
      BY <1>1, <3>1, <3>2 DEF Registered
    <3> QED BY <1>1, <1>5, <3>2, <3>3 DEF There, Registered
  <2>3. ASSUME NEW q \in Pods, vp'[q] # Nil PROVE virtualPods'[KeyOf[q]] = q \/ pod'[q] = "gone"
    <3>1. CASE q = p
      BY <1>7, <3>1
    <3>2. CASE q # p
      <4>1. virtualPods[KeyOf[q]] = q \/ pod[q] = "gone"
        BY <1>1, <1>5, <2>3 DEF Registered
      <4>2. virtualPods[KeyOf[q]] = q => KeyOf[q] # KeyOf[p]
        BY <1>7, <3>2
      <4> QED BY <3>2, <4>1, <4>2 DEF Keys
    <3> QED BY <3>1, <3>2
  <2>4. Registered'
    BY <2>1, <2>2, <2>3 DEF Registered
  <2> QED BY <1>2, <1>3, <1>4, <2>4 DEF ProviderIInv
<1> QED BY <1>6, <1>7

\* UpdatePod replaces what a VirtualPod reports, and nothing else of it.
LEMMA UpdateKeeps ==
    ASSUME ProviderIInv, NEW w \in Workers, UpdatePod(w)
    PROVE  ProviderIInv'
<1> USE DEF regVars, goVars
<1>1. /\ PodsOK /\ MapsOK /\ VpOK /\ LockOK /\ CancelledOK /\ WorkersOK /\ CloudOK
      /\ Registered /\ WorkerKnows(w)
  BY TypeParts DEF ProviderIInv
<1>2. wk[w].pc = "update"
  BY DEF UpdatePod, WorkerAt
<1>3. PICK p \in Pods : p = wk[w].pod /\ virtualPods[KeyOf[p]] # Nil
  BY <1>1, <1>2 DEF WorkerKnows
<1>4. PICK c \in PodObjects : c = wk[w].copy
  BY <1>1, <1>2 DEF WorkersOK, WorkerRecords, WorkerKnows
<1>5. PICK q \in Pods : q = virtualPods[KeyOf[p]] /\ vp[q] # Nil
  <2>1. KeyOf[p] \in Keys
    BY DEF Keys
  <2>2. PICK q \in Pods : q = virtualPods[KeyOf[p]]
    BY <1>1, <1>3, <2>1 DEF MapsOK
  <2> QED BY <1>1, <2>2 DEF Registered
<1>6. vp[q] \in VirtualPods
  BY <1>1, <1>5 DEF VpOK
<1>7. PICK v \in VirtualPods : /\ vp' = [vp EXCEPT ![q] = v] /\ v.provCancel = vp[q].provCancel
                               /\ v.lifeCancel = vp[q].lifeCancel /\ v.completed = vp[q].completed
  <2>1. c.phase \in {"Pending", "Running"} \cup Terminal /\ c.cont \in {"Waiting", "Running", "Terminated"}
    BY DEF PodObjects
  <2> DEFINE n == [vp[q] EXCEPT !.phase = c.phase, !.cont = c.cont]
  <2>2. /\ n \in VirtualPods /\ n.provCancel = vp[q].provCancel /\ n.lifeCancel = vp[q].lifeCancel
        /\ n.completed = vp[q].completed
    BY <1>6, <2>1 DEF VirtualPods
  <2>3. vp' = [vp EXCEPT ![q] = n]
    BY <1>1, <1>3, <1>4, <1>5 DEF UpdatePod, VpOK
  <2> HIDE DEF n
  <2> QED BY <2>2, <2>3
<1>8. VpOK' /\ vp'[q] = v /\ vp'[q] # Nil /\ \A s \in Pods \ {q} : vp'[s] = vp[s]
  BY <1>1, <1>7, VpMoves
<1>9. /\ UNCHANGED <<pod, virtualPods, lock, prov, loop, gens, lifeCancelled, gc, procVars>>
      /\ PodsOK' /\ MapsOK' /\ LockOK' /\ CancelledOK' /\ CloudOK'
  <2>1. /\ UNCHANGED <<pod, assigned, virtualPods, lock, prov, loop, gens, provCancelled,
                       lifeCancelled, cloud, gc, procVars>>
        /\ api' = [api EXCEPT ![p] = c]
    BY <1>3, <1>4 DEF UpdatePod
  <2>2. PodsOK'
    BY <1>1, <2>1 DEF PodsOK
  <2> QED BY <1>1, <2>1, <2>2 DEF MapsOK, LockOK, CancelledOK, CloudOK
<1>10. PICK r \in WorkerRecords : r = IdleWorker /\ r.pc = "idle"
  BY IdleIs
<1>11. wk' = [wk EXCEPT ![w] = r]
  BY <1>10 DEF UpdatePod
<1>12. WorkerKnows(w)'
  BY <1>1, <1>10, <1>11 DEF WorkerKnows, WorkersOK
<1>13. \A s \in Pods : vp'[s] = vp[s] \/ /\ vp[s] # Nil /\ vp'[s] # Nil
                                          /\ vp'[s].provCancel = vp[s].provCancel
                                          /\ vp'[s].lifeCancel = vp[s].lifeCancel
                                          /\ vp'[s].completed = vp[s].completed
  BY <1>5, <1>7, <1>8
<1>14. wk[w].pc # "idle" /\ lifeCancelled \subseteq lifeCancelled'
  BY <1>2, <1>9
<1> HIDE DEF regVars, goVars
<1> QED BY <1>3, <1>8, <1>9, <1>10, <1>11, <1>12, <1>13, <1>14, WorkerEnds

\* Where a worker is in the middle of DeletePod, its pod is registered.
LEMMA DeletingIs ==
    ASSUME ProviderIInv, NEW w \in Workers, wk[w].pc \in {"lock", "destroy"}
    PROVE  \E p \in Pods : /\ wk[w].pod = p /\ wk[w].target = p /\ KeyOf[p] \in Keys
                           /\ virtualPods[KeyOf[p]] = p /\ vp[p] # Nil /\ vp[p] \in VirtualPods
                           /\ (wk[w].pc = "destroy" => lock[p] = w)
<1>1. VpOK /\ Registered /\ WorkerKnows(w)
  BY TypeParts DEF ProviderIInv
<1>2. PICK p \in Pods : wk[w].pod = p
  BY <1>1 DEF WorkerKnows
<1>3. virtualPods[KeyOf[p]] = p /\ wk[w].target = p /\ (wk[w].pc = "destroy" => lock[p] = w)
  BY <1>1, <1>2 DEF WorkerKnows
<1>4. vp[p] # Nil /\ vp[p] \in VirtualPods /\ KeyOf[p] \in Keys
  BY <1>1, <1>3 DEF Registered, VpOK, Keys
<1> QED BY <1>2, <1>3, <1>4

\* The end of DeletePod: the last status is reported and the object goes.
LEMMA DeletedIs ==
    ASSUME PodsOK, NEW w \in Workers, NEW p \in Pods, wk[w].pod = p, wk[w].target = p,
           vp'[p] \in VirtualPods, Deleted(w)
    PROVE  /\ PodsOK' /\ pod'[p] = "gone" /\ \A q \in Pods \ {p} : pod'[q] = pod[q]
           /\ wk' = [wk EXCEPT ![w] = IdleWorker]
<1>1. api[p] \in PodObjects
  BY DEF PodsOK
<1>2. PICK o \in PodObjects : o = [api[p] EXCEPT !.phase = vp'[p].phase, !.cont = vp'[p].cont]
  <2>1. vp'[p].phase \in {"Pending", "Running"} \cup Terminal
        /\ vp'[p].cont \in {"Waiting", "Running", "Terminated"}
    BY DEF VirtualPods
  <2>2. [api[p] EXCEPT !.phase = vp'[p].phase, !.cont = vp'[p].cont] \in PodObjects
    BY <1>1, <2>1 DEF PodObjects
  <2> QED BY <2>2
<1>3. api' = [api EXCEPT ![p] = o]
  BY <1>2 DEF Deleted, PodsOK
<1>4. pod' = [pod EXCEPT ![p] = "gone"] /\ wk' = [wk EXCEPT ![w] = IdleWorker]
  BY DEF Deleted
<1> QED BY <1>3, <1>4 DEF PodsOK

\* DeletePod, whichever branch it takes.
LEMMA DeleteKeeps ==
    ASSUME ProviderIInv, NEW w \in Workers, DeleteStep(w)
    PROVE  ProviderIInv'
<1>1. /\ PodsOK /\ MapsOK /\ VpOK /\ LockOK /\ CancelledOK /\ WorkersOK /\ CloudOK
      /\ wk[w] \in WorkerRecords
  BY TypeParts DEF ProviderIInv, WorkersOK
<1>2. wk[w].pc \in {"lock", "destroy"}
  BY DEF DeleteStep, DeleteCompleted, DeleteDestroys, DeleteFinalized, DeleteProvisioning, WorkerAt
<1>3. PICK p \in Pods : /\ wk[w].pod = p /\ wk[w].target = p /\ KeyOf[p] \in Keys
                        /\ virtualPods[KeyOf[p]] = p /\ vp[p] # Nil /\ vp[p] \in VirtualPods
                        /\ (wk[w].pc = "destroy" => lock[p] = w)
  BY <1>2, DeletingIs
<1>4. PodInv(p) /\ CancelKnown(p) /\ RoundsLocked(p) /\ wk[w].pc # "idle"
  BY <1>2 DEF ProviderIInv, PodInv
<1>5. PICK i \in WorkerRecords : i = IdleWorker /\ i.pc = "idle"
  BY IdleIs
<1>6. ASSUME wk' = [wk EXCEPT ![w] = IdleWorker]
      PROVE  wk' = [wk EXCEPT ![w] = i] /\ WorkerKnows(w)'
  BY <1>1, <1>5, <1>6 DEF WorkerKnows, WorkersOK
<1>7. ASSUME NEW v \in VirtualPods, vp' = [vp EXCEPT ![p] = v],
             v.provCancel = vp[p].provCancel, v.lifeCancel = vp[p].lifeCancel,
             v.completed = vp[p].completed
      PROVE  /\ VpOK' /\ vp'[p] \in VirtualPods
             /\ \A s \in Pods : vp'[s] = vp[s] \/ /\ vp[s] # Nil /\ vp'[s] # Nil
                                                   /\ vp'[s].provCancel = vp[s].provCancel
                                                   /\ vp'[s].lifeCancel = vp[s].lifeCancel
                                                   /\ vp'[s].completed = vp[s].completed
  <2>1. VpOK' /\ vp'[p] = v /\ vp'[p] # Nil /\ \A q \in Pods \ {p} : vp'[q] = vp[q]
    BY <1>1, <1>7, VpMoves
  <2> QED BY <1>3, <1>7, <2>1
<1>8. ASSUME vp' = TerminatePod(p)
      PROVE  \E v \in VirtualPods : /\ vp' = [vp EXCEPT ![p] = v] /\ v.provCancel = vp[p].provCancel
                                    /\ v.lifeCancel = vp[p].lifeCancel /\ v.completed = vp[p].completed
  <2> DEFINE n == [vp[p] EXCEPT !.phase = "Succeeded", !.cont = "Terminated"]
  <2>1. /\ n \in VirtualPods /\ n.provCancel = vp[p].provCancel /\ n.lifeCancel = vp[p].lifeCancel
        /\ n.completed = vp[p].completed
    BY <1>3 DEF VirtualPods, Terminal
  <2>2. vp' = [vp EXCEPT ![p] = n]
    BY <1>1, <1>8 DEF TerminatePod, VpOK
  <2> HIDE DEF n
  <2> QED BY <2>1, <2>2
<1>9. ASSUME virtualPods' = [virtualPods EXCEPT ![KeyOf[p]] = Nil], assigned' \in [Slots -> BOOLEAN]
      PROVE  /\ MapsOK' /\ virtualPods'[KeyOf[p]] = Nil
             /\ \A k \in Keys \ {KeyOf[p]} : virtualPods'[k] = virtualPods[k]
  BY <1>1, <1>3, <1>9 DEF MapsOK
<1>10. CASE DeleteCompleted(w)
  <2>1. /\ wk[w].pc = "lock" /\ lock[p] = Nil /\ vp[p].completed
        /\ lock' = [lock EXCEPT ![p] = w] /\ vp' = TerminatePod(p)
        /\ lifeCancelled' = lifeCancelled \cup {<<p, vp[p].lifeCancel>>}
        /\ wk' = [wk EXCEPT ![w].pc = "destroy"]
        /\ UNCHANGED <<podVars, regVars, prov, loop, gens, provCancelled, cloud, gc, procVars>>
    BY <1>3, <1>10 DEF DeleteCompleted, WorkerAt
  <2>2. vp[p].lifeCancel \in Gens
    BY <1>3, <1>4, <2>1 DEF CancelKnown, VirtualPods
  <2>3. CancelledOK' /\ lifeCancelled \subseteq lifeCancelled'
    BY <1>1, <2>1, <2>2 DEF CancelledOK
  <2>4. LockOK' /\ lock'[p] = w /\ lock[p] # "loop" /\ \A q \in Pods \ {p} : lock'[q] = lock[q]
    BY <1>1, <2>1, ProviderAssumption DEF LockOK
  <2>5. PICK r \in WorkerRecords : /\ wk' = [wk EXCEPT ![w] = r] /\ r.pod = p /\ r.target = p
                                   /\ r.pc = "destroy"
    <3> DEFINE n == [wk[w] EXCEPT !.pc = "destroy"]
    <3>1. n \in WorkerRecords /\ n.pod = p /\ n.target = p /\ n.pc = "destroy"
      BY <1>1, <1>3 DEF WorkerRecords
    <3>2. wk' = [wk EXCEPT ![w] = n]
      BY <2>1
    <3> HIDE DEF n
    <3> QED BY <3>1, <3>2
  <2>6. /\ PodsOK' /\ MapsOK' /\ CloudOK' /\ UNCHANGED <<pod, virtualPods>>
        /\ UNCHANGED <<prov, loop, gens, gc, procVars>>
    BY <1>1, <2>1 DEF podVars, regVars, PodsOK, MapsOK, CloudOK
  <2>7. WorkerKnows(w)'
    <3>1. wk'[w] = r
      BY <1>1, <2>5 DEF WorkersOK
    <3> QED BY <1>3, <2>4, <2>5, <2>6, <3>1 DEF WorkerKnows
  <2>8. /\ VpOK'
        /\ \A s \in Pods : vp'[s] = vp[s] \/ /\ vp[s] # Nil /\ vp'[s] # Nil
                                              /\ vp'[s].provCancel = vp[s].provCancel
                                              /\ vp'[s].lifeCancel = vp[s].lifeCancel
                                              /\ vp'[s].completed = vp[s].completed
    BY <1>7, <1>8, <2>1
  <2> QED BY <1>3, <1>4, <2>3, <2>4, <2>5, <2>6, <2>7, <2>8, WorkerEnds, ZenonT(180)
<1>11. CASE DeleteDestroys(w)
  <2>1. /\ wk[w].pc = "destroy" /\ lock[p] = w /\ lock' = [lock EXCEPT ![p] = Nil]
        /\ UNCHANGED <<prov, loop, gens, provCancelled, lifeCancelled, gc, procVars>>
    BY <1>3, <1>11 DEF DeleteDestroys, WorkerAt, goVars
  <2>2. LockOK' /\ lock[p] # "loop" /\ \A q \in Pods \ {p} : lock'[q] = lock[q]
    BY <1>1, <2>1, ProviderAssumption DEF LockOK
  <2>3. CancelledOK' /\ lifeCancelled \subseteq lifeCancelled'
    BY <1>1, <2>1 DEF CancelledOK
  <2>4. CloudOK'
    <3>1. PICK m \in Machines \cup {Nil} : m = vp[p].machine
      BY <1>3 DEF VirtualPods
    <3>2. PICK ok \in BOOLEAN : DestroyMachine(m, ok)
      BY <1>3, <1>11, <3>1 DEF DeleteDestroys
    <3> QED BY <1>1, <3>2, DestroyKeeps
  <2>5. CASE /\ assigned' = [assigned EXCEPT ![vp[p].slot] = FALSE]
             /\ vp' = [vp EXCEPT ![p].finalized = TRUE]
             /\ virtualPods' = [virtualPods EXCEPT ![KeyOf[p]] = Nil] /\ Deleted(w)
    <3>1. PICK v \in VirtualPods : /\ vp' = [vp EXCEPT ![p] = v] /\ v.provCancel = vp[p].provCancel
                                   /\ v.lifeCancel = vp[p].lifeCancel /\ v.completed = vp[p].completed
      <4> DEFINE n == [vp[p] EXCEPT !.finalized = TRUE]
      <4>1. /\ n \in VirtualPods /\ n.provCancel = vp[p].provCancel /\ n.lifeCancel = vp[p].lifeCancel
            /\ n.completed = vp[p].completed
        BY <1>3 DEF VirtualPods
      <4>2. vp' = [vp EXCEPT ![p] = n]
        BY <2>5
      <4> HIDE DEF n
      <4> QED BY <4>1, <4>2
    <3>2. /\ VpOK' /\ vp'[p] \in VirtualPods
          /\ \A s \in Pods : vp'[s] = vp[s] \/ /\ vp[s] # Nil /\ vp'[s] # Nil
                                                /\ vp'[s].provCancel = vp[s].provCancel
                                                /\ vp'[s].lifeCancel = vp[s].lifeCancel
                                                /\ vp'[s].completed = vp[s].completed
      BY <1>7, <3>1
    <3>3. assigned' \in [Slots -> BOOLEAN]
      BY <1>1, <2>5 DEF MapsOK
    <3>4. /\ MapsOK' /\ virtualPods'[KeyOf[p]] = Nil
          /\ \A k \in Keys \ {KeyOf[p]} : virtualPods'[k] = virtualPods[k]
      BY <1>9, <2>5, <3>3
    <3>5. /\ PodsOK' /\ pod'[p] = "gone" /\ \A q \in Pods \ {p} : pod'[q] = pod[q]
          /\ wk' = [wk EXCEPT ![w] = IdleWorker]
      BY <1>1, <1>3, <2>5, <3>2, DeletedIs
    <3>6. wk' = [wk EXCEPT ![w] = i] /\ WorkerKnows(w)'
      BY <1>6, <3>5
    <3>7. \A q \in Pods \ {p} : pod'[q] = pod[q] /\ lock'[q] = lock[q]
      BY <2>2, <3>5
    <3>8. UNCHANGED <<prov, loop, gens, gc, procVars>>
      BY <2>1
    <3> QED BY <1>3, <1>4, <1>5, <2>2, <2>3, <2>4, <3>2, <3>4, <3>5, <3>6, <3>7, <3>8,
               WorkerEnds, ZenonT(180)
  <2>6. CASE wk' = [wk EXCEPT ![w] = IdleWorker] /\ UNCHANGED <<podVars, regVars, vp>>
    <3>1. PodsOK' /\ MapsOK' /\ VpOK' /\ UNCHANGED <<pod, virtualPods, vp>>
      BY <1>1, <2>6 DEF podVars, regVars, PodsOK, MapsOK, VpOK
    <3> QED BY <1>3, <1>4, <1>5, <1>6, <2>1, <2>2, <2>3, <2>4, <2>6, <3>1, WorkerEnds
  <2> QED BY <1>3, <1>11, <2>5, <2>6 DEF DeleteDestroys
<1>12. CASE DeleteFinalized(w)
  <2>1. /\ virtualPods' = [virtualPods EXCEPT ![KeyOf[p]] = Nil] /\ Deleted(w)
        /\ UNCHANGED <<vp, assigned, lock, goVars, cloud, gc, procVars>>
    BY <1>3, <1>12 DEF DeleteFinalized
  <2>2. /\ MapsOK' /\ virtualPods'[KeyOf[p]] = Nil
        /\ \A k \in Keys \ {KeyOf[p]} : virtualPods'[k] = virtualPods[k]
    BY <1>1, <1>9, <2>1 DEF MapsOK
  <2>3. /\ PodsOK' /\ pod'[p] = "gone" /\ \A q \in Pods \ {p} : pod'[q] = pod[q]
        /\ wk' = [wk EXCEPT ![w] = IdleWorker]
    BY <1>1, <1>3, <2>1, DeletedIs
  <2>4. /\ VpOK' /\ LockOK' /\ CancelledOK' /\ CloudOK' /\ lifeCancelled \subseteq lifeCancelled'
        /\ UNCHANGED <<vp, lock, prov, loop, gens, gc, procVars>>
    BY <1>1, <2>1 DEF goVars, VpOK, LockOK, CancelledOK, CloudOK
  <2> QED BY <1>3, <1>4, <1>5, <1>6, <2>2, <2>3, <2>4, WorkerEnds
<1>13. CASE DeleteProvisioning(w)
  <2>1. /\ wk[w].pc = "lock" /\ lock[p] = Nil /\ ~vp[p].completed /\ vp' = TerminatePod(p)
        /\ provCancelled' = provCancelled \cup {<<p, vp[p].provCancel>>}
        /\ assigned' = [assigned EXCEPT ![vp[p].slot] = FALSE]
        /\ virtualPods' = [virtualPods EXCEPT ![KeyOf[p]] = Nil] /\ Deleted(w)
        /\ UNCHANGED <<lock, prov, loop, gens, lifeCancelled, cloud, gc, procVars>>
    BY <1>3, <1>13 DEF DeleteProvisioning, WorkerAt
  <2>2. vp[p].provCancel \in Gens
    <3>1. \A g \in Gens : loop[p][g] # "restart"
      BY <1>4, <2>1, ProviderAssumption DEF RoundsLocked, InRound
    <3>2. vp[p].provCancel # Nil
      BY <1>3, <1>4, <2>1, <3>1 DEF CancelKnown
    <3> QED BY <1>3, <3>2 DEF VirtualPods
  <2>3. CancelledOK' /\ lifeCancelled \subseteq lifeCancelled' /\ LockOK' /\ CloudOK'
    BY <1>1, <2>1, <2>2 DEF CancelledOK, LockOK, CloudOK
  <2>4. /\ VpOK' /\ vp'[p] \in VirtualPods
        /\ \A s \in Pods : vp'[s] = vp[s] \/ /\ vp[s] # Nil /\ vp'[s] # Nil
                                              /\ vp'[s].provCancel = vp[s].provCancel
                                              /\ vp'[s].lifeCancel = vp[s].lifeCancel
                                              /\ vp'[s].completed = vp[s].completed
    BY <1>7, <1>8, <2>1
  <2>5. assigned' \in [Slots -> BOOLEAN]
    BY <1>1, <2>1 DEF MapsOK
  <2>6. /\ MapsOK' /\ virtualPods'[KeyOf[p]] = Nil
        /\ \A k \in Keys \ {KeyOf[p]} : virtualPods'[k] = virtualPods[k]
    BY <1>9, <2>1, <2>5
  <2>7. /\ PodsOK' /\ pod'[p] = "gone" /\ \A q \in Pods \ {p} : pod'[q] = pod[q]
        /\ wk' = [wk EXCEPT ![w] = IdleWorker]
    BY <1>1, <1>3, <2>1, <2>4, DeletedIs
  <2> QED BY <1>3, <1>4, <1>5, <1>6, <2>1, <2>3, <2>4, <2>6, <2>7, WorkerEnds
<1> QED BY <1>10, <1>11, <1>12, <1>13 DEF DeleteStep

-----------------------------------------------------------------------------
\* The virtual kubelet starts again.

\* A recovered pod has a loop if it has a machine, an initialization if not, and the cancel
\* function of the one it has.
LEMMA RestoredIs ==
    ASSUME PodsOK, NEW p \in Pods, NEW m \in Machines \cup {Nil}
    PROVE  /\ Restored(p, m) \in VirtualPods /\ Restored(p, m) # Nil
           /\ Restored(p, m).completed <=> m # Nil
           /\ m # Nil => Restored(p, m).lifeCancel = 0
           /\ m = Nil => Restored(p, m).provCancel = 0
           /\ Restored(p, m).slot = api[p].slot /\ ~Restored(p, m).finalized
           /\ Restored(p, m).phase = api[p].phase
<1>1. api[p] \in PodObjects
  BY DEF PodsOK
<1>2. 0 \in Gens
  BY ProviderAssumption DEF Gens
<1>3. PICK b \in VirtualPods : /\ b = NewVirtualPod(api[p], FALSE) /\ b.slot = api[p].slot
                               /\ ~b.finalized /\ b.phase = api[p].phase
  <2>1. /\ NewVirtualPod(api[p], FALSE) \in VirtualPods
        /\ NewVirtualPod(api[p], FALSE).slot = api[p].slot
        /\ ~NewVirtualPod(api[p], FALSE).finalized
        /\ NewVirtualPod(api[p], FALSE).phase = api[p].phase
    BY <1>1 DEF NewVirtualPod, VirtualPods, PodObjects
  <2> QED BY <2>1
<1>4. PICK d \in BOOLEAN : d <=> m # Nil
  OBVIOUS
<1>5. PICK x \in Gens \cup {Nil} : x = IF m = Nil THEN 0 ELSE Nil
  BY <1>2
<1>6. PICK y \in Gens \cup {Nil} : y = IF m = Nil THEN Nil ELSE 0
  BY <1>2
<1> DEFINE n == [b EXCEPT !.machine = m, !.completed = d, !.provCancel = x, !.lifeCancel = y]
<1>7. /\ n \in VirtualPods /\ n.completed = d /\ n.provCancel = x /\ n.lifeCancel = y
      /\ n.slot = b.slot /\ n.finalized = b.finalized /\ n.phase = b.phase
  BY DEF VirtualPods
<1>8. Restored(p, m) = n
  BY <1>3, <1>4, <1>5, <1>6 DEF Restored
<1> HIDE DEF n
<1> QED BY <1>3, <1>4, <1>5, <1>6, <1>7, <1>8, NilAssumption

\* A restart of the virtual kubelet establishes the invariant for the pods it recovers, and
\* leaves nothing of the others.
LEMMA KubeletRestartKeeps ==
    ASSUME ProviderIInv, Restart
    PROVE  ProviderIInv'
<1>1. PodsOK /\ CloudOK /\ ProcessOK /\ Registered
  BY TypeParts DEF ProviderIInv
<1>2. PICK R \in SlotTakers, machine \in MapRunningMachines :
        LET lost == {p \in R : machine[p] = Nil /\ Policy[p] = "Never"}
            back == R \ lost
        IN  /\ assigned' = [s \in Slots |-> \E p \in R : api[p].slot = s]
            /\ vp' = [p \in Pods |-> IF p \in back THEN Restored(p, machine[p]) ELSE Nil]
            /\ virtualPods' = [k \in Keys |-> IF \E p \in back : KeyOf[p] = k
                                             THEN CHOOSE p \in back : KeyOf[p] = k ELSE Nil]
            /\ loop' = [p \in Pods |-> [g \in Gens |->
                           IF p \in back /\ machine[p] # Nil /\ g = 0 THEN "tick" ELSE "off"]]
            /\ prov' = [p \in Pods |-> [g \in Gens |->
                           IF p \in back /\ machine[p] = Nil /\ g = 0 THEN Started(FALSE)
                                                                  ELSE NotStarted]]
            /\ \E told \in SUBSET lost :
                 api' = [p \in Pods |-> IF p \in told THEN [api[p] EXCEPT !.phase = "Failed",
                                                                      !.cont = "Terminated"]
                                                     ELSE api[p]]
  BY DEF Restart
<1> DEFINE lost == {p \in R : machine[p] = Nil /\ Policy[p] = "Never"}
<1>3. PICK back \in SUBSET R : back = R \ lost
  OBVIOUS
<1>4. /\ assigned' = [s \in Slots |-> \E p \in R : api[p].slot = s]
      /\ vp' = [p \in Pods |-> IF p \in back THEN Restored(p, machine[p]) ELSE Nil]
      /\ virtualPods' = [k \in Keys |-> IF \E p \in back : KeyOf[p] = k
                                        THEN CHOOSE p \in back : KeyOf[p] = k ELSE Nil]
      /\ loop' = [p \in Pods |-> [g \in Gens |->
                     IF p \in back /\ machine[p] # Nil /\ g = 0 THEN "tick" ELSE "off"]]
      /\ prov' = [p \in Pods |-> [g \in Gens |->
                     IF p \in back /\ machine[p] = Nil /\ g = 0 THEN Started(FALSE) ELSE NotStarted]]
  BY <1>2, <1>3
<1>5. PICK told \in SUBSET lost :
        api' = [p \in Pods |-> IF p \in told THEN [api[p] EXCEPT !.phase = "Failed", !.cont = "Terminated"]
                                            ELSE api[p]]
  BY <1>2
<1>6. /\ gens' = [p \in Pods |-> 0] /\ provCancelled' = {} /\ lifeCancelled' = {}
      /\ lock' = [p \in Pods |-> Nil] /\ wk' = [w \in Workers |-> IdleWorker]
      /\ gc' = Nil /\ panicked' = FALSE /\ restarts' = restarts + 1 /\ restarts < MaxRestarts
      /\ UNCHANGED <<pod, cloud>>
  BY DEF Restart
<1>7. /\ R \subseteq Pods /\ back \subseteq Pods /\ \A p \in back : There(p)
      /\ \A p \in back : machine[p] \in Machines \cup {Nil}
  BY <1>3 DEF SlotTakers, MapRunningMachines, Recoverable, Listed, There
<1>8. 0 \in Gens /\ 0 # Nil
  BY ProviderAssumption DEF Gens
<1>9. \A p \in back : /\ vp'[p] = Restored(p, machine[p]) /\ vp'[p] \in VirtualPods /\ vp'[p] # Nil
                      /\ vp'[p].completed <=> machine[p] # Nil
                      /\ machine[p] # Nil => vp'[p].lifeCancel = 0
                      /\ machine[p] = Nil => vp'[p].provCancel = 0
  <2>1. ASSUME NEW p \in back
        PROVE  vp'[p] = Restored(p, machine[p]) /\ p \in Pods /\ machine[p] \in Machines \cup {Nil}
    BY <1>4, <1>7
  <2> QED BY <1>1, <2>1, RestoredIs
<1>10. \A p \in Pods \ back : vp'[p] = Nil
  BY <1>4
<1>11. ASSUME NEW p \in Pods, NEW g \in Gens
       PROVE  /\ loop'[p][g] \in {"tick", "off"}
              /\ loop'[p][g] # "off" => p \in back /\ machine[p] # Nil /\ g = 0
              /\ prov'[p][g].pc \in {"leftover", "off"}
              /\ prov'[p][g].pc # "off" => p \in back /\ machine[p] = Nil /\ g = 0
              /\ prov'[p][g] \in ProvRecords
              /\ gens'[p] = 0 /\ lock'[p] = Nil
  <2>1. NotStarted \in ProvRecords /\ NotStarted.pc = "off"
    <3>1. 0 \in 0 .. MaxRetries
      BY ProviderAssumption
    <3> QED BY <3>1 DEF NotStarted, ProvRecords, ProvSteps
  <2>2. Started(FALSE) \in ProvRecords /\ Started(FALSE).pc = "leftover"
    BY StartedIs
  <2>3. loop'[p][g] = IF p \in back /\ machine[p] # Nil /\ g = 0 THEN "tick" ELSE "off"
    BY <1>4
  <2>4. prov'[p][g] = IF p \in back /\ machine[p] = Nil /\ g = 0 THEN Started(FALSE) ELSE NotStarted
    BY <1>4
  <2>5. gens'[p] = 0 /\ lock'[p] = Nil
    BY <1>6
  <2> QED BY <2>1, <2>2, <2>3, <2>4, <2>5
<1>12. TypeOK'
  <2>1. PodsOK'
    <3>1. \A p \in Pods : [api[p] EXCEPT !.phase = "Failed", !.cont = "Terminated"] \in PodObjects
      BY <1>1 DEF PodsOK, PodObjects, Terminal
    <3> QED BY <1>1, <1>5, <1>6, <3>1 DEF PodsOK
  <2>2. MapsOK'
    <3>1. assigned' \in [Slots -> BOOLEAN]
      BY <1>4
    <3>2. \A k \in Keys : virtualPods'[k] \in Pods \cup {Nil}
      BY <1>4, <1>7
    <3> QED BY <1>4, <3>1, <3>2 DEF MapsOK
  <2>3. VpOK'
    BY <1>4, <1>9, <1>10 DEF VpOK
  <2>4. LockOK' /\ CancelledOK'
    BY <1>6 DEF LockOK, CancelledOK
  <2>5. ProvOK'
    BY <1>4, <1>11 DEF ProvOK
  <2>6. LoopOK'
    <3>1. loop' \in [Pods -> [Gens -> LoopSteps]]
      BY <1>4 DEF LoopSteps
    <3> QED BY <1>6, <1>8, <3>1 DEF LoopOK
  <2>7. WorkersOK' /\ CloudOK'
    BY <1>1, <1>6, IdleIs DEF WorkersOK, CloudOK
  <2>8. ProcessOK'
    <3>1. restarts \in 0 .. MaxRestarts /\ MaxRestarts \in Nat
      BY <1>1, ProviderAssumption DEF ProcessOK
    <3>2. restarts' \in 0 .. MaxRestarts
      BY <1>6, <3>1
    <3> QED BY <1>6, <3>2 DEF ProcessOK
  <2> QED BY <2>1, <2>2, <2>3, <2>4, <2>5, <2>6, <2>7, <2>8, TypePartsNext
<1>13. ASSUME NEW p \in Pods PROVE PodInv(p)'
  <2>1. RoundsLocked(p)'
    BY <1>11 DEF RoundsLocked, InRound
  <2>2. GoroutinesKnow(p)'
    BY <1>8, <1>9, <1>11 DEF GoroutinesKnow
  <2>3. CancelKnown(p)'
    <3>1. gens'[p] = 0
      BY <1>6
    <3> QED BY <1>8, <1>9, <1>10, <3>1 DEF CancelKnown
  <2>4. LastGeneration(p)'
    <3>1. \A g \in Gens : BeforeLoop(p, g)' => g = 0 /\ loop'[p][g] = "off"
      BY <1>11 DEF BeforeLoop
    <3>2. \A g \in Gens : Active(p, g)' => g = 0 /\ vp'[p].lifeCancel = 0
      BY <1>9, <1>11 DEF Active
    <3>3. gens'[p] = 0
      BY <1>6
    <3>4. \A g \in Gens : g > gens'[p] => prov'[p][g].pc = "off" /\ loop'[p][g] = "off"
      BY <1>11, <3>3
    <3>5. \A g \in Gens : loop'[p][g] \notin InRound
      BY <1>11 DEF InRound
    <3> QED BY <3>1, <3>2, <3>3, <3>4, <3>5 DEF LastGeneration
  <2> QED BY <2>1, <2>2, <2>3, <2>4 DEF PodInv
<1>14. Registered'
  <2>1. \A q, r \in Pods : (There(q)' /\ There(r)' /\ KeyOf[q] = KeyOf[r]) => q = r
    BY <1>1, <1>6 DEF There, Registered
  <2>2. ASSUME NEW q \in Pods, NEW r \in Pods, virtualPods'[KeyOf[q]] = r
        PROVE  KeyOf[r] = KeyOf[q] /\ vp'[r] # Nil /\ There(r)'
    <3>1. KeyOf[q] \in Keys /\ r # Nil
      BY ProviderAssumption DEF Keys
    <3>2. (\E p \in back : KeyOf[p] = KeyOf[q]) /\ r = CHOOSE p \in back : KeyOf[p] = KeyOf[q]
      BY <1>4, <2>2, <3>1
    <3>3. r \in back /\ KeyOf[r] = KeyOf[q]
      BY <3>2
    <3> QED BY <1>6, <1>7, <1>9, <3>3 DEF There
  <2>3. ASSUME NEW q \in Pods, vp'[q] # Nil PROVE virtualPods'[KeyOf[q]] = q
    <3>1. q \in back /\ KeyOf[q] \in Keys
      BY <1>10, <2>3 DEF Keys
    <3>2. virtualPods'[KeyOf[q]] = CHOOSE p \in back : KeyOf[p] = KeyOf[q]
      BY <1>4, <3>1
    <3>3. \A p \in back : KeyOf[p] = KeyOf[q] => p = q
      BY <1>1, <1>7, <3>1 DEF Registered
    <3> QED BY <3>1, <3>2, <3>3
  <2> QED BY <2>1, <2>2, <2>3 DEF Registered
<1>15. \A w \in Workers : wk'[w].pc = "idle"
  BY <1>6, IdleIs
<1>16. OneWorkerPerKey' /\ \A w \in Workers : WorkerKnows(w)'
  BY <1>15 DEF OneWorkerPerKey, WorkerKnows
<1> QED BY <1>12, <1>13, <1>14, <1>16 DEF ProviderIInv

-----------------------------------------------------------------------------
\* The invariant, and what follows from it.

\* Nothing is there at first.
LEMMA InitHolds == Init => ProviderIInv
<1> SUFFICES ASSUME Init PROVE ProviderIInv
  OBVIOUS
<1>1. 0 \in Gens /\ 0 \in Slots /\ 0 \in 0 .. MaxRetries /\ 0 \in 0 .. MaxRestarts
  BY ProviderAssumption DEF Gens
<1>2. NotStarted \in ProvRecords /\ NotStarted.pc = "off"
  BY <1>1 DEF NotStarted, ProvRecords, ProvSteps
<1>3. NewPod(0) \in PodObjects
  BY <1>1 DEF NewPod, PodObjects
<1>4. TypeOK
  <2>1. PodsOK /\ MapsOK /\ VpOK /\ LockOK
    BY <1>3 DEF Init, PodsOK, MapsOK, VpOK, LockOK
  <2>2. ProvOK /\ LoopOK /\ CancelledOK
    BY <1>1, <1>2 DEF Init, ProvOK, LoopOK, LoopSteps, CancelledOK
  <2>3. WorkersOK /\ CloudOK /\ ProcessOK
    BY <1>1, IdleIs DEF Init, WorkersOK, CloudOK, ProcessOK
  <2> QED BY <2>1, <2>2, <2>3, TypeParts
<1>5. /\ \A p \in Pods : vp[p] = Nil /\ gens[p] = 0 /\ ~There(p) /\ virtualPods[KeyOf[p]] = Nil
      /\ \A p \in Pods, g \in Gens : prov[p][g].pc = "off" /\ loop[p][g] = "off"
      /\ \A w \in Workers : wk[w].pc = "idle"
  <2>1. \A p \in Pods : vp[p] = Nil /\ gens[p] = 0
    BY DEF Init
  <2>2. \A p \in Pods : ~There(p)
    BY DEF Init, There
  <2>3. \A p \in Pods : virtualPods[KeyOf[p]] = Nil
    BY DEF Init, Keys
  <2>4. \A p \in Pods, g \in Gens : prov[p][g].pc = "off" /\ loop[p][g] = "off"
    BY <1>2 DEF Init
  <2>5. \A w \in Workers : wk[w].pc = "idle"
    <3>1. IdleWorker.pc = "idle"
      BY IdleIs
    <3>2. \A w \in Workers : wk[w] = IdleWorker
      BY DEF Init
    <3> QED BY <3>1, <3>2
  <2> QED BY <2>1, <2>2, <2>3, <2>4, <2>5
<1>6. \A p \in Pods : PodInv(p)
  <2>1. TAKE p \in Pods
  <2>2. RoundsLocked(p)
    BY <1>5 DEF RoundsLocked, InRound
  <2>3. GoroutinesKnow(p) /\ CancelKnown(p)
    BY <1>5 DEF GoroutinesKnow, CancelKnown
  <2>4. LastGeneration(p)
    BY <1>5 DEF LastGeneration, BeforeLoop, Active, InRound
  <2> QED BY <2>2, <2>3, <2>4 DEF PodInv
<1>7. Registered
  BY <1>5, ProviderAssumption DEF Registered
<1>8. OneWorkerPerKey /\ \A w \in Workers : WorkerKnows(w)
  BY <1>5 DEF OneWorkerPerKey, WorkerKnows
<1> QED BY <1>4, <1>6, <1>7, <1>8 DEF ProviderIInv

\* Every step keeps the invariant.
LEMMA NextKeeps == ProviderIInv /\ [Next]_vars => ProviderIInv'
<1> SUFFICES ASSUME ProviderIInv, [Next]_vars PROVE ProviderIInv'
  OBVIOUS
<1>1. CASE UNCHANGED vars
  <2>1. CloudOK' /\ gc' \in [pods : SUBSET Pods] \cup {Nil}
    BY <1>1, TypeParts DEF vars, ProviderIInv, CloudOK, ProcessOK
  <2> QED BY <1>1, <2>1, ElsewhereKeeps DEF vars
<1>2. ASSUME NEW p \in Pods, NEW g \in Gens, initializeVirtualPod(p, g) PROVE ProviderIInv'
  BY <1>2, InitializeKeeps, StartLoopKeeps
<1>3. ASSUME NEW p \in Pods, NEW g \in Gens, reconcilePodLifecycle(p, g) PROVE ProviderIInv'
  BY <1>3, RoundBegins, RoundGoesOn, RestartKeeps DEF reconcilePodLifecycle
<1>4. CASE Next
  BY <1>2, <1>3, <1>4, CloudKeeps, ApiKeeps, CreateKeeps, UpdateKeeps, DeleteKeeps,
     WorkerBeginsKeeps, KubeletRestartKeeps DEF Next
<1> QED BY <1>1, <1>4

\* ProviderIInv holds in every reachable state.
THEOREM ProviderInvariant == Spec => []ProviderIInv
<1>1. Init => ProviderIInv
  BY InitHolds
<1>2. ProviderIInv /\ [Next]_vars => ProviderIInv'
  BY NextKeeps
<1> QED BY <1>1, <1>2, PTL DEF Spec

\* The provider's state keeps its types, whatever the order of calls, polls, failures and
\* restarts.
THEOREM ProviderTypeCorrect == Spec => []TypeOK
<1>1. ProviderIInv => TypeOK
  BY DEF ProviderIInv
<1> QED BY <1>1, ProviderInvariant, PTL

\* At most one lifecycle loop acts for a pod.
THEOREM OneLoopAtATime == Spec => []OneLoop
<1>1. ProviderIInv => OneLoop
  BY DEF ProviderIInv, PodInv, LastGeneration, OneLoop
<1> QED BY <1>1, ProviderInvariant, PTL

\* DeletePod, once it has the lock, finds the cancel function it calls.
THEOREM CancelsAlwaysSet == Spec => []CancelsSet
<1>1. ASSUME ProviderIInv, NEW p \in Pods, vp[p] # Nil, lock[p] = Nil
      PROVE  IF vp[p].completed THEN vp[p].lifeCancel # Nil ELSE vp[p].provCancel # Nil
  <2>1. CancelKnown(p) /\ RoundsLocked(p)
    BY <1>1 DEF ProviderIInv, PodInv
  <2>2. \A g \in Gens : loop[p][g] # "restart"
    BY <1>1, <2>1, ProviderAssumption DEF RoundsLocked, InRound
  <2> QED BY <1>1, <2>1, <2>2 DEF CancelKnown
<1>2. ProviderIInv => CancelsSet
  BY <1>1 DEF CancelsSet
<1> QED BY <1>2, ProviderInvariant, PTL

-----------------------------------------------------------------------------
\* What a step leaves of the slots, whoever takes it.

\* A step of one of a pod's goroutines.
GoroutineStep(p, g) == initializeVirtualPod(p, g) \/ reconcilePodLifecycle(p, g)

\* The step in which a loop frees the slot of its pod.
Finalizes(p, g) ==
    /\ LoopFinalize(p, g)
    /\ assigned' = [assigned EXCEPT ![vp[p].slot] = FALSE]
    /\ lifeCancelled' = lifeCancelled \cup {<<virtualPods[KeyOf[p]], vp[virtualPods[KeyOf[p]]].lifeCancel>>}
    /\ vp' = [vp EXCEPT ![p].finalized = TRUE] /\ LoopGoto(p, g, "destroy")

\* Every other step of a goroutine keeps its pod's slot and does not finalize it.
KeepsSlot(p) ==
    /\ UNCHANGED assigned
    /\ vp'[p] \in VirtualPods /\ vp'[p].slot = vp[p].slot /\ vp'[p].finalized = vp[p].finalized

\* No change of a VirtualPod but one of these two fields touches them.
LEMMA VpEdits ==
    ASSUME VpOK, NEW p \in Pods, vp[p] # Nil,
           \/ UNCHANGED vp
           \/ \E m \in Machines \cup {Nil} : vp' = [vp EXCEPT ![p].machine = m]
           \/ \E b \in BOOLEAN : vp' = [vp EXCEPT ![p].completed = b]
           \/ \E h \in Gens : vp' = [vp EXCEPT ![p].lifeCancel = h]
           \/ \E h \in Gens : vp' = [vp EXCEPT ![p].provCancel = h]
           \/ vp' = [vp EXCEPT ![p].cont = "Running", ![p].phase = "Running"]
           \/ vp' = [vp EXCEPT ![p].completed = FALSE, ![p].cont = "Waiting", ![p].phase = "Running"]
           \/ \E ph \in Terminal : vp' = [vp EXCEPT ![p].cont = "Terminated", ![p].phase = ph]
           \/ vp' = [vp EXCEPT ![p].cont = "Terminated"]
    PROVE  /\ vp'[p] \in VirtualPods /\ vp'[p].slot = vp[p].slot /\ vp'[p].finalized = vp[p].finalized
           /\ \A q \in Pods \ {p} : vp'[q] = vp[q]
<1>1. vp[p] \in VirtualPods
  BY DEF VpOK
<1>2. \A q \in Pods \ {p} : vp'[q] = vp[q]
  BY DEF VpOK
<1>3. \/ vp'[p] = vp[p]
      \/ \E m \in Machines \cup {Nil} : vp'[p] = [vp[p] EXCEPT !.machine = m]
      \/ \E b \in BOOLEAN : vp'[p] = [vp[p] EXCEPT !.completed = b]
      \/ \E h \in Gens : vp'[p] = [vp[p] EXCEPT !.lifeCancel = h]
      \/ \E h \in Gens : vp'[p] = [vp[p] EXCEPT !.provCancel = h]
      \/ vp'[p] = [vp[p] EXCEPT !.cont = "Running", !.phase = "Running"]
      \/ vp'[p] = [vp[p] EXCEPT !.completed = FALSE, !.cont = "Waiting", !.phase = "Running"]
      \/ \E ph \in Terminal : vp'[p] = [vp[p] EXCEPT !.cont = "Terminated", !.phase = ph]
      \/ vp'[p] = [vp[p] EXCEPT !.cont = "Terminated"]
  BY DEF VpOK
<1>4. vp'[p] \in VirtualPods /\ vp'[p].slot = vp[p].slot /\ vp'[p].finalized = vp[p].finalized
  <2>1. CASE vp'[p] = vp[p]
    BY <1>1, <2>1
  <2>2. CASE \E m \in Machines \cup {Nil} : vp'[p] = [vp[p] EXCEPT !.machine = m]
    BY ONLY <1>1, <2>2 DEF VirtualPods
  <2>3. CASE \E b \in BOOLEAN : vp'[p] = [vp[p] EXCEPT !.completed = b]
    BY ONLY <1>1, <2>3 DEF VirtualPods
  <2>4. CASE \E h \in Gens : vp'[p] = [vp[p] EXCEPT !.lifeCancel = h]
    BY ONLY <1>1, <2>4 DEF VirtualPods
  <2>5. CASE \E h \in Gens : vp'[p] = [vp[p] EXCEPT !.provCancel = h]
    BY ONLY <1>1, <2>5 DEF VirtualPods
  <2>6. CASE vp'[p] = [vp[p] EXCEPT !.cont = "Running", !.phase = "Running"]
    BY ONLY <1>1, <2>6 DEF VirtualPods
  <2>7. CASE vp'[p] = [vp[p] EXCEPT !.completed = FALSE, !.cont = "Waiting", !.phase = "Running"]
    BY ONLY <1>1, <2>7 DEF VirtualPods
  <2>8. CASE \E ph \in Terminal : vp'[p] = [vp[p] EXCEPT !.cont = "Terminated", !.phase = ph]
    BY ONLY <1>1, <2>8 DEF VirtualPods, Terminal
  <2>9. CASE vp'[p] = [vp[p] EXCEPT !.cont = "Terminated"]
    BY ONLY <1>1, <2>9 DEF VirtualPods
  <2> QED BY ONLY <1>3, <2>1, <2>2, <2>3, <2>4, <2>5, <2>6, <2>7, <2>8, <2>9
<1> QED BY <1>2, <1>4

\* What an initialization writes of a VirtualPod is not its phase.
LEMMA PhaseUntouched ==
    ASSUME VpOK, NEW p \in Pods, vp[p] # Nil,
           \/ UNCHANGED vp
           \/ \E m \in Machines \cup {Nil} : vp' = [vp EXCEPT ![p].machine = m]
           \/ \E b \in BOOLEAN : vp' = [vp EXCEPT ![p].completed = b]
           \/ \E h \in Gens : vp' = [vp EXCEPT ![p].lifeCancel = h]
    PROVE  vp'[p].phase = vp[p].phase
<1>1. vp[p] \in VirtualPods
  BY DEF VpOK
<1>2. \/ vp'[p] = vp[p]
      \/ \E m \in Machines \cup {Nil} : vp'[p] = [vp[p] EXCEPT !.machine = m]
      \/ \E b \in BOOLEAN : vp'[p] = [vp[p] EXCEPT !.completed = b]
      \/ \E h \in Gens : vp'[p] = [vp[p] EXCEPT !.lifeCancel = h]
  BY DEF VpOK
<1> QED BY ONLY <1>1, <1>2 DEF VirtualPods

\* No step of a goroutine touches another pod, the map of pods or a worker; an initialization
\* has nothing to do with slots.
LEMMA InitializeFrame ==
    ASSUME ProviderIInv, NEW p \in Pods, NEW g \in Gens, initializeVirtualPod(p, g)
    PROVE  /\ UNCHANGED <<pod, api, assigned, virtualPods, wk, lifeCancelled, panicked>>
           /\ \A q \in Pods \ {p} : vp'[q] = vp[q] /\ prov'[q] = prov[q] /\ loop'[q] = loop[q]
           /\ vp[p] # Nil /\ KeepsSlot(p) /\ vp'[p].phase = vp[p].phase
<1> USE DEF initializeVirtualPod, Retry, machineCleanup, RemoveMachine, restartOp, restartPod,
            selectAndProvisionMachine, waitForMachineReady, RunCommand, startLifecycle,
            provisioningDone, At, Goto
<1>1. VpOK /\ ProvOK /\ LoopOK /\ PodInv(p)
  BY TypeParts DEF ProviderIInv
<1>2. UNCHANGED <<pod, api, assigned, virtualPods, wk, lifeCancelled, panicked>>
  BY DEF provOnly, podVars, regVars, procVars
<1>3. vp[p] # Nil /\ vp[p] \in VirtualPods
  BY <1>1 DEF PodInv, GoroutinesKnow, AfterCleanup, VpOK
<1>4. \A q \in Pods \ {p} : loop'[q] = loop[q]
  BY <1>1 DEF provOnly, LoopOK
<1>5. \A q \in Pods \ {p} : prov'[q] = prov[q]
  BY <1>1 DEF ProvOK
<1>6. \/ UNCHANGED vp
      \/ \E m \in Machines \cup {Nil} : vp' = [vp EXCEPT ![p].machine = m]
      \/ \E b \in BOOLEAN : vp' = [vp EXCEPT ![p].completed = b]
      \/ \E h \in Gens : vp' = [vp EXCEPT ![p].lifeCancel = h]
  OBVIOUS
<1>7. /\ vp'[p] \in VirtualPods /\ vp'[p].slot = vp[p].slot /\ vp'[p].finalized = vp[p].finalized
      /\ \A q \in Pods \ {p} : vp'[q] = vp[q]
  BY <1>1, <1>3, <1>6, VpEdits
<1>8. vp'[p].phase = vp[p].phase
  BY ONLY <1>1, <1>3, <1>6, PhaseUntouched
<1> QED BY <1>2, <1>3, <1>4, <1>5, <1>7, <1>8 DEF KeepsSlot

\* A lifecycle loop frees its pod's slot when it finalizes the pod, or panics trying, and in no
\* other step.
LEMMA LifecycleFrame ==
    ASSUME ProviderIInv, NEW p \in Pods, NEW g \in Gens, reconcilePodLifecycle(p, g)
    PROVE  /\ UNCHANGED <<pod, virtualPods, wk>> /\ lifeCancelled \subseteq lifeCancelled'
           /\ \A q \in Pods \ {p} : /\ vp'[q] = vp[q] /\ prov'[q] = prov[q] /\ loop'[q] = loop[q]
                                    /\ api'[q] = api[q]
           /\ vp[p] # Nil
           /\ \/ Finalizes(p, g) /\ UNCHANGED <<api, panicked>>
              \/ KeepsSlot(p) /\ (LoopFinalize(p, g) \/ UNCHANGED panicked)
<1> USE DEF reconcilePodLifecycle, StatusRunning, StatusExited, StatusReportTimeout, restartBackoff,
            LoopRestart, LoopFinalize, LoopDestroy, LoopStop, StatusRestarts, StatusTerminates
<1>1. PodsOK /\ VpOK /\ ProvOK /\ LoopOK /\ PodInv(p)
  BY TypeParts DEF ProviderIInv
<1>2. UNCHANGED <<pod, virtualPods, wk>>
  BY DEF loopOnly
<1>3. lifeCancelled \subseteq lifeCancelled'
  BY DEF goVars
<1>4. loop[p][g] # "off" /\ vp[p] # Nil /\ vp[p] \in VirtualPods
  BY <1>1 DEF Polls, LoopAt, PodInv, GoroutinesKnow, VpOK
<1>5. \A q \in Pods \ {p} : loop'[q] = loop[q]
  BY <1>1 DEF LoopOK, LoopGoto, goVars
<1>6. \A q \in Pods \ {p} : prov'[q] = prov[q]
  BY <1>1 DEF ProvOK, goVars
<1>7. \A q \in Pods \ {p} : api'[q] = api[q]
  BY <1>1 DEF PodsOK, Notify
<1>8. CASE LoopFinalize(p, g)
  <2>1. \A q \in Pods \ {p} : vp'[q] = vp[q]
    BY <1>1, <1>8 DEF VpOK
  <2>2. \/ Finalizes(p, g) /\ UNCHANGED <<api, panicked>>
        \/ UNCHANGED <<assigned, vp>>
    BY <1>8 DEF Finalizes
  <2> QED BY <1>2, <1>3, <1>4, <1>5, <1>6, <1>7, <1>8, <2>1, <2>2 DEF KeepsSlot
<1>9. CASE ~LoopFinalize(p, g)
  <2>1. UNCHANGED <<assigned, panicked>>
    BY <1>9 DEF procVars
  <2>2. PICK h \in Gens : LoopRestart(p, g) => h = gens[p] + 1
    <3>1. LoopRestart(p, g) => gens[p] < MaxGen
      BY <1>1 DEF LoopAt, PodInv, RoundsLocked
    <3>2. gens[p] \in 0 .. MaxGen /\ MaxGen \in Nat
      BY <1>1, ProviderAssumption DEF LoopOK, Gens
    <3>3. gens[p] < MaxGen => gens[p] + 1 \in Gens
      BY <3>2 DEF Gens
    <3> HIDE DEF LoopRestart
    <3> QED BY <3>1, <3>3
  <2>3. \/ UNCHANGED vp
        \/ \E k \in Gens : vp' = [vp EXCEPT ![p].provCancel = k]
        \/ vp' = [vp EXCEPT ![p].cont = "Running", ![p].phase = "Running"]
        \/ vp' = [vp EXCEPT ![p].completed = FALSE, ![p].cont = "Waiting", ![p].phase = "Running"]
        \/ \E ph \in Terminal : vp' = [vp EXCEPT ![p].cont = "Terminated", ![p].phase = ph]
        \/ vp' = [vp EXCEPT ![p].cont = "Terminated"]
    <3>1. CASE StatusExited(p, g)
      <4>1. PICK m \in AgentAt(vp[p].slot) :
              StatusRestarts(p, g, cloud[m].agent) \/ StatusTerminates(p, g, cloud[m].agent)
        BY <3>1
      <4> QED BY <4>1 DEF Terminal
    <3>2. CASE ~StatusExited(p, g)
      BY <1>9, <2>2, <3>2
    <3> QED BY <3>1, <3>2
  <2>4. KeepsSlot(p) /\ \A q \in Pods \ {p} : vp'[q] = vp[q]
    BY <1>1, <1>4, <2>1, <2>3, VpEdits DEF KeepsSlot
  <2> QED BY <1>2, <1>3, <1>4, <1>5, <1>6, <1>7, <2>1, <2>4
<1> QED BY <1>8, <1>9

\* Nothing else touches a VirtualPod, the map of pods, a slot or a goroutine but CreatePod,
\* UpdatePod, the later steps of DeletePod and a restart of the virtual kubelet.
LEMMA OutsideFrame ==
    ASSUME [Next]_vars, ~Restart,
           \A p \in Pods, g \in Gens : ~initializeVirtualPod(p, g) /\ ~reconcilePodLifecycle(p, g),
           \A w \in Workers : ~CreatePod(w) /\ ~UpdatePod(w) /\ ~DeleteStep(w)
    PROVE  UNCHANGED <<api, assigned, virtualPods, vp, prov, loop, lifeCancelled, panicked>>
<1>1. CASE UNCHANGED vars
  BY <1>1 DEF vars, podVars, regVars, goVars, procVars
<1>2. CASE \E m \in Machines : MachineStarts(m) \/ ContainerExits(m) \/ MachineVanishes(m)
  BY <1>2 DEF MachineStarts, ContainerExits, MachineVanishes, cloudOnly, podVars, regVars,
     goVars, procVars
<1>3. CASE GcList \/ PruneDanglingMachines
  BY <1>3 DEF GcList, PruneDanglingMachines, podVars, regVars, goVars, procVars
<1>4. CASE \E p \in Pods : SchedulePod(p) \/ RequestDelete(p)
  BY <1>4 DEF SchedulePod, RequestDelete, regVars, goVars, procVars
<1>5. CASE \E w \in Workers, p \in Pods :
             reserveGatewaySlot(w, p) \/ TakeCopy(w, p) \/ DeletePod(w, p)
  BY <1>5 DEF reserveGatewaySlot, TakeCopy, DeletePod, podVars, regVars, goVars, procVars
<1> QED BY <1>1, <1>2, <1>3, <1>4, <1>5 DEF Next

\* What CreatePod does.
LEMMA CreateFrame ==
    ASSUME ProviderIInv, NEW w \in Workers, CreatePod(w)
    PROVE  \E p \in Pods :
             /\ p = wk[w].pod /\ vp[p] = Nil /\ virtualPods[KeyOf[p]] = Nil /\ wk[w].slot \in Slots
             /\ wk[w].pc = "create"
             /\ assigned' = [assigned EXCEPT ![wk[w].slot] = TRUE]
             /\ virtualPods' = [virtualPods EXCEPT ![KeyOf[p]] = p]
             /\ vp'[p] \in VirtualPods /\ vp'[p].slot = wk[w].slot /\ ~vp'[p].finalized
             /\ vp'[p].phase = "Pending" /\ api'[p].phase = "Pending"
             /\ \A q \in Pods \ {p} : vp'[q] = vp[q] /\ api'[q] = api[q] /\ prov'[q] = prov[q]
             /\ wk' = [wk EXCEPT ![w] = IdleWorker]
             /\ UNCHANGED <<pod, loop, lifeCancelled, panicked>>
<1>1. /\ PodsOK /\ VpOK /\ ProvOK /\ WorkersOK /\ Registered /\ WorkerKnows(w)
  BY TypeParts DEF ProviderIInv
<1>2. wk[w].pc = "create"
  BY DEF CreatePod, WorkerAt
<1>3. PICK p \in Pods : p = wk[w].pod /\ There(p) /\ virtualPods[KeyOf[p]] = Nil /\ p # Nil
  BY <1>1, <1>2, ProviderAssumption DEF WorkerKnows
<1>4. PICK s \in Slots : s = wk[w].slot
  BY <1>1 DEF WorkersOK, WorkerRecords
<1>5. vp[p] = Nil
  BY <1>1, <1>3 DEF Registered, There
<1>6. PICK o \in PodObjects : o = NewPod(s) /\ o.phase = "Pending" /\ o.slot = s
  <2>1. NewPod(s) \in PodObjects /\ NewPod(s).phase = "Pending" /\ NewPod(s).slot = s
    BY DEF NewPod, PodObjects
  <2> QED BY <2>1
<1>7. PICK b \in VirtualPods : /\ b = NewVirtualPod(o, TRUE) /\ b.slot = s /\ ~b.finalized
                               /\ b.phase = "Pending"
  <2>1. /\ NewVirtualPod(o, TRUE) \in VirtualPods /\ NewVirtualPod(o, TRUE).slot = o.slot
        /\ ~NewVirtualPod(o, TRUE).finalized /\ NewVirtualPod(o, TRUE).phase = o.phase
    BY DEF NewVirtualPod, VirtualPods, PodObjects
  <2> QED BY <1>6, <2>1
<1>8. PICK v \in VirtualPods : /\ v = [b EXCEPT !.provCancel = 0] /\ v.slot = s /\ ~v.finalized
                               /\ v.phase = "Pending"
  <2>1. 0 \in Gens
    BY ProviderAssumption DEF Gens
  <2>2. /\ [b EXCEPT !.provCancel = 0] \in VirtualPods /\ [b EXCEPT !.provCancel = 0].slot = s
        /\ ~[b EXCEPT !.provCancel = 0].finalized /\ [b EXCEPT !.provCancel = 0].phase = "Pending"
    BY <1>7, <2>1 DEF VirtualPods
  <2> QED BY <2>2
<1>9. api' = [api EXCEPT ![p] = o] /\ vp' = [vp EXCEPT ![p] = v]
  BY <1>3, <1>4, <1>6, <1>7, <1>8 DEF CreatePod
<1>10. /\ api'[p].phase = "Pending" /\ vp'[p] = v
       /\ \A q \in Pods \ {p} : vp'[q] = vp[q] /\ api'[q] = api[q]
  BY <1>1, <1>6, <1>9 DEF PodsOK, VpOK
<1>11. \A q \in Pods \ {p} : prov'[q] = prov[q]
  BY <1>1, <1>3 DEF CreatePod, ProvOK
<1>12. /\ assigned' = [assigned EXCEPT ![s] = TRUE]
       /\ virtualPods' = [virtualPods EXCEPT ![KeyOf[p]] = p]
       /\ wk' = [wk EXCEPT ![w] = IdleWorker] /\ UNCHANGED <<pod, loop, lifeCancelled, panicked>>
  BY <1>3, <1>4 DEF CreatePod, procVars
<1> QED BY <1>2, <1>3, <1>4, <1>5, <1>8, <1>10, <1>11, <1>12

\* What UpdatePod does.
LEMMA UpdateFrame ==
    ASSUME ProviderIInv, NEW w \in Workers, UpdatePod(w)
    PROVE  /\ UNCHANGED <<pod, assigned, virtualPods, prov, loop, lifeCancelled, panicked>>
           /\ "update" = wk[w].pc /\ wk' = [wk EXCEPT ![w] = IdleWorker]
           /\ \A q \in Pods : vp[q] # Nil => /\ vp'[q] \in VirtualPods /\ vp'[q].slot = vp[q].slot
                                             /\ vp'[q].finalized = vp[q].finalized
           /\ \A q \in Pods : vp[q] = Nil => vp'[q] = Nil
<1>1. /\ MapsOK /\ VpOK /\ WorkersOK /\ Registered /\ WorkerKnows(w)
  BY TypeParts DEF ProviderIInv
<1>2. /\ UNCHANGED <<pod, assigned, virtualPods, prov, loop, lifeCancelled, panicked>>
      /\ "update" = wk[w].pc /\ wk' = [wk EXCEPT ![w] = IdleWorker]
  BY DEF UpdatePod, WorkerAt, regVars, goVars, procVars
<1>3. PICK p \in Pods : p = wk[w].pod /\ virtualPods[KeyOf[p]] # Nil
  BY <1>1, <1>2 DEF WorkerKnows
<1>4. PICK c \in PodObjects : c = wk[w].copy
  BY <1>1, <1>2 DEF WorkersOK, WorkerRecords, WorkerKnows
<1>5. PICK s \in Pods : s = virtualPods[KeyOf[p]]
  <2>1. KeyOf[p] \in Keys
    BY DEF Keys
  <2> QED BY <1>1, <1>3, <2>1 DEF MapsOK
<1>6. vp[s] # Nil /\ vp[s] \in VirtualPods
  BY <1>1, <1>5 DEF Registered, VpOK
<1>7. /\ vp'[s] = [vp[s] EXCEPT !.phase = c.phase, !.cont = c.cont]
      /\ \A q \in Pods \ {s} : vp'[q] = vp[q]
  BY <1>1, <1>3, <1>4, <1>5 DEF UpdatePod, VpOK
<1>8. c.phase \in {"Pending", "Running"} \cup Terminal /\ c.cont \in {"Waiting", "Running", "Terminated"}
  BY DEF PodObjects
<1>9. vp'[s] \in VirtualPods /\ vp'[s].slot = vp[s].slot /\ vp'[s].finalized = vp[s].finalized
  BY <1>6, <1>7, <1>8 DEF VirtualPods
<1> QED BY <1>1, <1>2, <1>6, <1>7, <1>9 DEF VpOK

\* What the later steps of DeletePod do: the pod keeps its slot or gives it up and its
\* entry with it.
LEMMA DeleteFrame ==
    ASSUME ProviderIInv, NEW w \in Workers, DeleteStep(w)
    PROVE  \E p \in Pods :
             /\ wk[w].pc \in {"lock", "destroy"} /\ virtualPods[KeyOf[p]] = p /\ vp[p] # Nil
             /\ \A q \in Pods \ {p} : vp'[q] = vp[q]
             /\ \/ UNCHANGED <<assigned, virtualPods>> /\ KeepsSlot(p)
                \/ /\ UNCHANGED <<assigned, vp>> /\ vp[p].finalized
                   /\ virtualPods' = [virtualPods EXCEPT ![KeyOf[p]] = Nil]
                \/ /\ assigned' = [assigned EXCEPT ![vp[p].slot] = FALSE]
                   /\ virtualPods' = [virtualPods EXCEPT ![KeyOf[p]] = Nil]
<1>1. VpOK
  BY TypeParts DEF ProviderIInv
<1>2. wk[w].pc \in {"lock", "destroy"}
  BY DEF DeleteStep, DeleteCompleted, DeleteDestroys, DeleteFinalized, DeleteProvisioning, WorkerAt
<1>3. PICK p \in Pods : /\ wk[w].target = p /\ virtualPods[KeyOf[p]] = p /\ vp[p] # Nil
                        /\ vp[p] \in VirtualPods
  BY <1>2, DeletingIs
<1>4. \A q \in Pods \ {p} : vp'[q] = vp[q]
  BY <1>1, <1>3 DEF DeleteStep, DeleteCompleted, DeleteDestroys, DeleteFinalized,
     DeleteProvisioning,
                    TerminatePod, VpOK
<1>5. CASE DeleteCompleted(w)
  <2>1. UNCHANGED <<assigned, virtualPods>> /\ vp' = TerminatePod(p)
    BY <1>3, <1>5 DEF DeleteCompleted, regVars
  <2>2. vp'[p] = [vp[p] EXCEPT !.phase = "Succeeded", !.cont = "Terminated"]
    BY <1>1, <2>1 DEF TerminatePod, VpOK
  <2>3. vp'[p] \in VirtualPods /\ vp'[p].slot = vp[p].slot /\ vp'[p].finalized = vp[p].finalized
    BY <1>3, <2>2 DEF VirtualPods, Terminal
  <2> QED BY <1>2, <1>3, <1>4, <2>1, <2>3 DEF KeepsSlot
<1>6. CASE DeleteDestroys(w)
  BY <1>2, <1>3, <1>4, <1>6 DEF DeleteDestroys, KeepsSlot, regVars
<1>7. CASE DeleteFinalized(w) \/ DeleteProvisioning(w)
  BY <1>2, <1>3, <1>4, <1>7 DEF DeleteFinalized, DeleteProvisioning
<1> QED BY <1>5, <1>6, <1>7 DEF DeleteStep

\* What a restart of the virtual kubelet does: of the running pods, R take their slots, no two
\* the same, and those of them in back are registered again.
RestartsWith(R, back) ==
    /\ back \subseteq R /\ \A p \in R \ back : Policy[p] = "Never"
    /\ \A p, q \in R : api[p].slot = api[q].slot => p = q
    /\ assigned' = [s \in Slots |-> \E p \in R : api[p].slot = s]
    /\ \A p \in back : /\ vp'[p] \in VirtualPods /\ vp'[p].slot = api[p].slot
                       /\ ~vp'[p].finalized /\ vp'[p].phase = "Running"
                       /\ api'[p].phase = "Running" /\ virtualPods'[KeyOf[p]] = p
    /\ \A p \in Pods \ back : vp'[p] = Nil
    /\ \A p \in Pods : api'[p].phase = api[p].phase \/ api[p].phase = "Running"
    /\ \A w \in Workers : wk'[w].pc = "idle"
    /\ UNCHANGED pod /\ restarts < MaxRestarts /\ ~panicked'

\* A restart does that for some of the pods.
LEMMA RestartFrame ==
    ASSUME ProviderIInv, Restart
    PROVE  \E R \in SUBSET Pods, back \in SUBSET Pods : RestartsWith(R, back)
<1>1. PodsOK /\ ProviderIInv'
  BY TypeParts, KubeletRestartKeeps DEF ProviderIInv
<1>2. PICK R \in SlotTakers, machine \in MapRunningMachines :
        LET lost == {p \in R : machine[p] = Nil /\ Policy[p] = "Never"}
            back == R \ lost
        IN  /\ assigned' = [s \in Slots |-> \E p \in R : api[p].slot = s]
            /\ vp' = [p \in Pods |-> IF p \in back THEN Restored(p, machine[p]) ELSE Nil]
            /\ \E told \in SUBSET lost :
                 api' = [p \in Pods |-> IF p \in told THEN [api[p] EXCEPT !.phase = "Failed",
                                                                      !.cont = "Terminated"]
                                                     ELSE api[p]]
  BY DEF Restart
<1> DEFINE lost == {p \in R : machine[p] = Nil /\ Policy[p] = "Never"}
           back == R \ lost
<1>3. /\ R \in SUBSET Pods /\ back \in SUBSET Pods
      /\ \A p \in R : pod[p] # "gone" /\ api[p].phase = "Running"
      /\ \A p \in R : machine[p] \in Machines \cup {Nil}
  BY DEF SlotTakers, MapRunningMachines, Recoverable, Listed
<1>4. \A p, q \in R : api[p].slot = api[q].slot => p = q
  BY DEF SlotTakers
<1>5. ASSUME NEW p \in back
      PROVE  /\ vp'[p] \in VirtualPods /\ vp'[p].slot = api[p].slot /\ ~vp'[p].finalized
             /\ vp'[p].phase = "Running"
  <2>1. vp'[p] = Restored(p, machine[p]) /\ p \in Pods /\ machine[p] \in Machines \cup {Nil}
    BY <1>2, <1>3
  <2>2. /\ Restored(p, machine[p]) \in VirtualPods /\ Restored(p, machine[p]).slot = api[p].slot
        /\ ~Restored(p, machine[p]).finalized /\ Restored(p, machine[p]).phase = api[p].phase
    BY <1>1, <2>1, RestoredIs
  <2> QED BY <1>3, <2>1, <2>2
<1>6. \A p \in Pods \ back : vp'[p] = Nil
  BY <1>2
<1>7. PICK told \in SUBSET lost :
        api' = [p \in Pods |-> IF p \in told THEN [api[p] EXCEPT !.phase = "Failed", !.cont = "Terminated"]
                                            ELSE api[p]]
  BY <1>2
<1>8. \A p \in Pods : p \notin told => api'[p] = api[p]
  BY <1>7
<1>9. UNCHANGED pod /\ restarts < MaxRestarts /\ ~panicked' /\ \A w \in Workers : wk'[w].pc = "idle"
  BY IdleIs DEF Restart
<1>10. \A p \in back : virtualPods'[KeyOf[p]] = p
  BY <1>1, <1>3, <1>5, <1>9, NilAssumption DEF ProviderIInv, Registered
<1>11. assigned' = [s \in Slots |-> \E p \in R : api[p].slot = s]
  BY <1>2
<1>12. \A p \in R \ back : Policy[p] = "Never"
  OBVIOUS
<1>13. /\ \A p \in back : api'[p].phase = "Running"
       /\ \A p \in Pods : api'[p].phase = api[p].phase \/ api[p].phase = "Running"
  BY <1>3, <1>8
<1>14. back \subseteq R
  OBVIOUS
<1> HIDE DEF back
<1>15. /\ \A p \in back : /\ vp'[p] \in VirtualPods /\ vp'[p].slot = api[p].slot
                          /\ ~vp'[p].finalized /\ vp'[p].phase = "Running"
                          /\ api'[p].phase = "Running" /\ virtualPods'[KeyOf[p]] = p
  BY <1>5, <1>10, <1>13
<1> USE <1>3
<1> WITNESS R \in SUBSET Pods, back \in SUBSET Pods
<1> QED BY <1>4, <1>6, <1>9, <1>11, <1>12, <1>13, <1>14, <1>15 DEF RestartsWith, back

\* Where a step keeps the VirtualPods' slots, the map and the slots, holders stay holders.
LEMMA HoldersStay ==
    ASSUME NEW q \in Pods, virtualPods'[KeyOf[q]] = virtualPods[KeyOf[q]], VpOK,
           vp'[q] = vp[q] \/ (vp'[q] \in VirtualPods /\ vp[q] # Nil /\ vp'[q].slot = vp[q].slot
                              /\ vp'[q].finalized = vp[q].finalized)
    PROVE  (Holds(q)' <=> Holds(q)) /\ (Holds(q) => vp'[q].slot = vp[q].slot)
BY NilAssumption DEF Holds

\* No step loses a slot.
LEMMA SlotsNotLostKeeps ==
    ASSUME MaxRestarts = 0 \/ \A p \in Pods : Policy[p] # "Never",
           ProviderIInv, SlotsNotLost, [Next]_vars
    PROVE  SlotsNotLost'
<1>1. MapsOK /\ VpOK /\ \A p \in Pods : KeyOf[p] \in Keys
  BY TypeParts DEF ProviderIInv, Keys
<1>2. ASSUME UNCHANGED <<assigned, virtualPods>>,
             \A q \in Pods : vp'[q] = vp[q] \/ (vp'[q] \in VirtualPods /\ vp[q] # Nil
                                                /\ vp'[q].slot = vp[q].slot
                                                /\ vp'[q].finalized = vp[q].finalized)
      PROVE  SlotsNotLost'
  <2>1. \A q \in Pods : (Holds(q)' <=> Holds(q)) /\ (Holds(q) => vp'[q].slot = vp[q].slot)
    BY <1>1, <1>2, HoldersStay
  <2> QED BY <1>2, <2>1 DEF SlotsNotLost
<1>3. ASSUME NEW p \in Pods, assigned' = [assigned EXCEPT ![vp[p].slot] = FALSE],
             \A q \in Pods \ {p} : vp'[q] = vp[q],
             \A q \in Pods \ {p} : Holds(q) => virtualPods'[KeyOf[q]] = virtualPods[KeyOf[q]]
      PROVE  SlotsNotLost'
  <2>1. \A q \in Pods \ {p} : Holds(q) => Holds(q)' /\ vp'[q].slot = vp[q].slot
    BY <1>3 DEF Holds
  <2>2. ASSUME NEW s \in Slots, assigned'[s] PROVE assigned[s] /\ s # vp[p].slot
    BY <1>1, <1>3, <2>2 DEF MapsOK
  <2> QED BY <2>1, <2>2 DEF SlotsNotLost
<1>4. ASSUME NEW p \in Pods, NEW g \in Gens, initializeVirtualPod(p, g) PROVE SlotsNotLost'
  BY <1>2, <1>4, InitializeFrame DEF KeepsSlot
<1>5. ASSUME NEW p \in Pods, NEW g \in Gens, reconcilePodLifecycle(p, g) PROVE SlotsNotLost'
  <2>1. /\ UNCHANGED virtualPods /\ \A q \in Pods \ {p} : vp'[q] = vp[q]
        /\ vp[p] # Nil
        /\ assigned' = [assigned EXCEPT ![vp[p].slot] = FALSE] \/ KeepsSlot(p)
    BY <1>5, LifecycleFrame DEF Finalizes
  <2>2. CASE KeepsSlot(p)
    BY <1>2, <2>1, <2>2 DEF KeepsSlot
  <2>3. CASE assigned' = [assigned EXCEPT ![vp[p].slot] = FALSE]
    BY <1>3, <2>1, <2>3
  <2> QED BY <2>1, <2>2, <2>3
<1>6. ASSUME NEW w \in Workers, CreatePod(w) PROVE SlotsNotLost'
  <2>1. PICK p \in Pods :
             /\ p = wk[w].pod /\ vp[p] = Nil /\ virtualPods[KeyOf[p]] = Nil /\ wk[w].slot \in Slots
             /\ assigned' = [assigned EXCEPT ![wk[w].slot] = TRUE]
             /\ virtualPods' = [virtualPods EXCEPT ![KeyOf[p]] = p]
             /\ vp'[p] \in VirtualPods /\ vp'[p].slot = wk[w].slot /\ ~vp'[p].finalized
             /\ \A q \in Pods \ {p} : vp'[q] = vp[q]
    BY <1>6, CreateFrame
  <2>2. \A q \in Pods : Holds(q) => q # p /\ KeyOf[q] # KeyOf[p]
    BY <2>1, ProviderAssumption DEF Holds
  <2>3. \A q \in Pods : Holds(q) => Holds(q)' /\ vp'[q].slot = vp[q].slot
    BY <1>1, <2>1, <2>2 DEF Holds, MapsOK
  <2>4. Holds(p)'
    BY <1>1, <2>1, NilAssumption DEF Holds, MapsOK
  <2>5. \A s \in Slots : assigned'[s] => assigned[s] \/ s = wk[w].slot
    BY <1>1, <2>1 DEF MapsOK
  <2> QED BY <2>1, <2>3, <2>4, <2>5 DEF SlotsNotLost
<1>7. ASSUME NEW w \in Workers, UpdatePod(w) PROVE SlotsNotLost'
  BY <1>2, <1>7, UpdateFrame
<1>8. ASSUME NEW w \in Workers, DeleteStep(w) PROVE SlotsNotLost'
  <2>1. PICK p \in Pods :
             /\ virtualPods[KeyOf[p]] = p /\ vp[p] # Nil
             /\ \A q \in Pods \ {p} : vp'[q] = vp[q]
             /\ \/ UNCHANGED <<assigned, virtualPods>> /\ KeepsSlot(p)
                \/ /\ UNCHANGED <<assigned, vp>> /\ vp[p].finalized
                   /\ virtualPods' = [virtualPods EXCEPT ![KeyOf[p]] = Nil]
                \/ /\ assigned' = [assigned EXCEPT ![vp[p].slot] = FALSE]
                   /\ virtualPods' = [virtualPods EXCEPT ![KeyOf[p]] = Nil]
    BY <1>8, DeleteFrame
  <2>2. CASE UNCHANGED <<assigned, virtualPods>> /\ KeepsSlot(p)
    BY <1>2, <2>1, <2>2 DEF KeepsSlot
  <2>3. ASSUME virtualPods' = [virtualPods EXCEPT ![KeyOf[p]] = Nil]
        PROVE  \A q \in Pods \ {p} : Holds(q) => virtualPods'[KeyOf[q]] = virtualPods[KeyOf[q]]
    BY <1>1, <2>1, <2>3 DEF Holds, MapsOK
  <2>4. CASE /\ UNCHANGED <<assigned, vp>> /\ vp[p].finalized
             /\ virtualPods' = [virtualPods EXCEPT ![KeyOf[p]] = Nil]
    <3>1. \A q \in Pods : Holds(q) => Holds(q)' /\ vp'[q].slot = vp[q].slot
      BY <2>3, <2>4 DEF Holds
    <3> QED BY <2>4, <3>1 DEF SlotsNotLost
  <2>5. CASE /\ assigned' = [assigned EXCEPT ![vp[p].slot] = FALSE]
             /\ virtualPods' = [virtualPods EXCEPT ![KeyOf[p]] = Nil]
    BY <1>3, <2>1, <2>3, <2>5
  <2> QED BY <2>1, <2>2, <2>4, <2>5
<1>9. CASE Restart
  <2>1. PICK R \in SUBSET Pods, back \in SUBSET Pods : RestartsWith(R, back)
    BY <1>9, RestartFrame
  <2>2. MaxRestarts # 0
    <3>1. ProcessOK
      BY TypeParts DEF ProviderIInv
    <3>2. restarts \in 0 .. MaxRestarts /\ MaxRestarts \in Nat
      BY <3>1, ProviderAssumption DEF ProcessOK
    <3> QED BY <2>1, <3>2 DEF RestartsWith
  <2>3. R = back
    BY <2>1, <2>2 DEF RestartsWith
  <2>4. \A p \in back : Holds(p)' /\ vp'[p].slot = api[p].slot
    BY <2>1, NilAssumption DEF Holds, RestartsWith
  <2>5. \A s \in Slots : assigned'[s] => \E p \in R : api[p].slot = s
    BY <2>1 DEF RestartsWith
  <2> QED BY <2>3, <2>4, <2>5 DEF SlotsNotLost
<1>10. CASE /\ ~Restart
            /\ \A p \in Pods, g \in Gens : ~initializeVirtualPod(p, g) /\ ~reconcilePodLifecycle(p, g)
            /\ \A w \in Workers : ~CreatePod(w) /\ ~UpdatePod(w) /\ ~DeleteStep(w)
  BY <1>2, <1>10, OutsideFrame
<1> QED BY <1>4, <1>5, <1>6, <1>7, <1>8, <1>9, <1>10

\* Without restarts of the virtual kubelet, or without pods that never restart, every slot
\* marked assigned is held by a pod: a slot that is given up can be used again.
THEOREM SlotsAreNotLost ==
    ASSUME MaxRestarts = 0 \/ \A p \in Pods : Policy[p] # "Never"
    PROVE  Spec => []SlotsNotLost
<1>1. Init => SlotsNotLost
  BY DEF Init, SlotsNotLost
<1>2. ProviderIInv /\ SlotsNotLost /\ [Next]_vars => SlotsNotLost'
  BY SlotsNotLostKeeps
<1> QED BY <1>1, <1>2, ProviderInvariant, PTL DEF Spec

-----------------------------------------------------------------------------
\* The provider as long as no pod is deleted.

\* Pods stay, and no worker is in the middle of DeletePod.
NoDeletions ==
    /\ \A p \in Pods : pod[p] \in {"absent", "live"}
    /\ \A w \in Workers : wk[w].pc \notin {"lock", "destroy"}

\* No goroutine of a pod will poll, restart or finalize again.
Over(p) ==
    \A g \in Gens : /\ ~Active(p, g) /\ ~BeforeLoop(p, g)
                    /\ loop[p][g] \notin {"backoff", "restart", "finalize"}

\* A pod is finalized once, by the last thing its goroutines do.
FinalizedIsOver == \A p \in Pods : (vp[p] # Nil /\ vp[p].finalized) => Over(p)

UndeletedIInv == NoDeletions /\ FinalizedIsOver /\ ~panicked

\* With one worker, the slot it is about to take is still free.
FoundIsFree == \A w \in Workers : wk[w].pc = "create" => ~assigned[wk[w].slot]

\* A pod whose phase is finished is not there, finalized or about to be.
Ending(p) == vp[p] = Nil \/ vp[p].finalized \/ \E g \in Gens : loop[p][g] = "finalize"

PhasesEnd ==
    /\ \A p \in Pods : /\ api[p].phase \in Terminal => Ending(p)
                       /\ (vp[p] # Nil /\ vp[p].phase \in Terminal) => Ending(p)
    /\ \A w \in Workers : wk[w].pc = "create" => api[wk[w].pod].phase \notin Terminal
    /\ \A w \in Workers : wk[w].pc # "update"

\* Where no deletion can be requested, no pod goes.
LEMMA NoDeletionsKeeps ==
    ASSUME Deletes = FALSE, ProviderIInv, NoDeletions, [Next]_vars
    PROVE  NoDeletions'
<1>1. PodsOK /\ WorkersOK
  BY TypeParts DEF ProviderIInv
<1>2. ASSUME UNCHANGED <<pod, wk>> PROVE NoDeletions'
  BY <1>2 DEF NoDeletions
<1>3. ASSUME NEW w \in Workers, UNCHANGED pod, wk' = [wk EXCEPT ![w] = IdleWorker] PROVE NoDeletions'
  BY <1>1, <1>3, IdleIs DEF NoDeletions, WorkersOK
<1>4. ASSUME NEW p \in Pods, NEW g \in Gens, GoroutineStep(p, g) PROVE NoDeletions'
  BY <1>2, <1>4, InitializeFrame, LifecycleFrame DEF GoroutineStep
<1>5. ASSUME NEW w \in Workers, CreatePod(w) \/ UpdatePod(w) PROVE NoDeletions'
  BY <1>3, <1>5 DEF CreatePod, UpdatePod
<1>6. ASSUME NEW w \in Workers, DeleteStep(w) PROVE FALSE
  BY <1>6, DeleteFrame DEF NoDeletions
<1>7. CASE Restart
  BY <1>7, RestartFrame DEF RestartsWith, NoDeletions
<1>8. CASE \E m \in Machines : MachineStarts(m) \/ ContainerExits(m) \/ MachineVanishes(m)
  BY <1>2, <1>8 DEF MachineStarts, ContainerExits, MachineVanishes, cloudOnly, podVars
<1>9. CASE GcList \/ PruneDanglingMachines \/ UNCHANGED vars
  BY <1>2, <1>9 DEF GcList, PruneDanglingMachines, podVars, vars
<1>10. ASSUME NEW p \in Pods, SchedulePod(p) \/ RequestDelete(p) PROVE NoDeletions'
  BY <1>1, <1>10 DEF SchedulePod, RequestDelete, NoDeletions, PodsOK
<1>11. ASSUME NEW w \in Workers, NEW p \in Pods,
              reserveGatewaySlot(w, p) \/ TakeCopy(w, p) \/ DeletePod(w, p)
       PROVE  NoDeletions'
  <2>1. ~DeletePod(w, p)
    BY DEF DeletePod, NoDeletions
  <2>2. PICK r \in WorkerRecords : wk' = [wk EXCEPT ![w] = r] /\ r.pc \in {"create", "update"}
    <3>1. CASE reserveGatewaySlot(w, p)
      <4>1. PICK s \in Slots :
              wk' = [wk EXCEPT ![w] = [IdleWorker EXCEPT !.pc = "create", !.pod = p, !.slot = s]]
        BY <3>1 DEF reserveGatewaySlot
      <4>2. PICK n \in WorkerRecords : n = [IdleWorker EXCEPT !.pc = "create", !.pod = p, !.slot = s]
                                       /\ n.pc = "create"
        <5>1. /\ [IdleWorker EXCEPT !.pc = "create", !.pod = p, !.slot = s] \in WorkerRecords
              /\ [IdleWorker EXCEPT !.pc = "create", !.pod = p, !.slot = s].pc = "create"
          BY IdleIs DEF WorkerRecords
        <5> QED BY <5>1
      <4> QED BY <4>1, <4>2
    <3>2. CASE TakeCopy(w, p)
      <4>1. PICK n \in WorkerRecords : n = [IdleWorker EXCEPT !.pc = "update", !.pod = p, !.copy = api[p]]
                                       /\ n.pc = "update"
        <5>1. /\ [IdleWorker EXCEPT !.pc = "update", !.pod = p, !.copy = api[p]] \in WorkerRecords
              /\ [IdleWorker EXCEPT !.pc = "update", !.pod = p, !.copy = api[p]].pc = "update"
          BY <1>1, IdleIs DEF WorkerRecords, PodsOK
        <5> QED BY <5>1
      <4> QED BY <3>2, <4>1 DEF TakeCopy
    <3> QED BY <1>11, <2>1, <3>1, <3>2
  <2>3. UNCHANGED pod
    BY <1>11, <2>1 DEF reserveGatewaySlot, TakeCopy, podVars
  <2> QED BY <1>1, <2>2, <2>3 DEF NoDeletions, WorkersOK
<1> QED BY <1>4, <1>5, <1>6, <1>7, <1>8, <1>9, <1>10, <1>11 DEF Next, GoroutineStep

\* A finished pod stays finished: what is left of its goroutines cleans up and ends.
LEMMA OverStays ==
    ASSUME ProviderIInv, NEW p \in Pods, NEW g \in Gens, GoroutineStep(p, g), Over(p)
    PROVE  Over(p)' /\ UNCHANGED <<api, assigned>> /\ vp'[p].phase = vp[p].phase
<1>1. VpOK /\ ProvOK /\ LoopOK /\ PodInv(p) /\ prov[p][g] \in ProvRecords
  BY TypeParts DEF ProviderIInv, ProvOK
<1>2. CASE initializeVirtualPod(p, g)
  <2>1. UNCHANGED <<api, assigned, lifeCancelled>> /\ vp'[p].phase = vp[p].phase
    BY <1>2, InitializeFrame
  <2>2. ~BeforeLoop(p, g) /\ prov[p][g].pc \in {"complete", "exit", "remove"}
        /\ (prov[p][g].pc = "remove" => prov[p][g].next = "done")
    BY <1>2 DEF Over, BeforeLoop, initializeVirtualPod, Retry, machineCleanup, RemoveMachine,
       restartOp,
                restartPod, selectAndProvisionMachine, waitForMachineReady, RunCommand, startLifecycle,
                provisioningDone, At, AfterCleanup
  <2>3. /\ provisioningDone(p, g) \/ machineCleanup(p, g) \/ RemoveMachine(p, g)
        /\ UNCHANGED loop
    BY <1>2, <2>2 DEF initializeVirtualPod, Retry, machineCleanup, RemoveMachine, restartOp,
                restartPod, selectAndProvisionMachine, waitForMachineReady, RunCommand, startLifecycle,
                provisioningDone, At, provOnly
  <2>4. /\ \A h \in Gens \ {g} : prov'[p][h] = prov[p][h]
        /\ prov'[p][g].pc \in {"exit", "done"} \/ (prov'[p][g].pc = "remove" /\ prov'[p][g].next = "done")
    <3>1. CASE provisioningDone(p, g)
      BY <1>1, <3>1 DEF provisioningDone, Goto, ProvOK, ProvRecords
    <3>2. CASE machineCleanup(p, g)
      <4>1. prov[p][g].pc = "exit"
        BY <2>2, <3>2 DEF machineCleanup, AfterCleanup
      <4>2. \/ prov' = [prov EXCEPT ![p][g].pc = "done"]
            \/ prov' = [prov EXCEPT ![p][g].pc = "remove", ![p][g].next = "done"]
        BY <3>2, <4>1 DEF machineCleanup, AfterCleanup, Goto
      <4> QED BY <1>1, <4>2 DEF ProvOK, ProvRecords
    <3>3. CASE RemoveMachine(p, g)
      <4>1. prov' = [prov EXCEPT ![p][g].pc = "done", ![p][g].next = "off"]
        BY <2>2, <3>3 DEF RemoveMachine, At
      <4> QED BY <1>1, <4>1 DEF ProvOK, ProvRecords
    <3> QED BY <2>3, <3>1, <3>2, <3>3
  <2>5. \A h \in Gens : ~BeforeLoop(p, h)'
    BY <2>4 DEF Over, BeforeLoop
  <2>6. \A h \in Gens : ~Active(p, h)' /\ loop'[p][h] = loop[p][h]
    BY <2>1, <2>3 DEF Over, Active
  <2> QED BY <2>1, <2>5, <2>6 DEF Over
<1>3. CASE reconcilePodLifecycle(p, g)
  <2>1. LoopDestroy(p, g) \/ LoopStop(p, g)
    BY <1>3 DEF Over, Active, reconcilePodLifecycle, StatusRunning, StatusExited,
       StatusReportTimeout,
                restartBackoff, LoopRestart, LoopFinalize, Polls, LoopAt
  <2>2. /\ UNCHANGED <<api, assigned, vp, prov, lifeCancelled>> /\ loop[p][g] \in {"destroy", "tick"}
        /\ \/ loop' = [loop EXCEPT ![p][g] = "tick"] \/ loop' = [loop EXCEPT ![p][g] = "ended"]
    BY <2>1 DEF LoopDestroy, LoopStop, LoopGoto, LoopAt
  <2>3. loop'[p][g] \in {"tick", "ended"} /\ \A h \in Gens \ {g} : loop'[p][h] = loop[p][h]
    BY <1>1, <2>2 DEF LoopOK
  <2>4. <<p, g>> \in lifeCancelled
    BY <2>2 DEF Over, Active
  <2>5. \A h \in Gens : ~Active(p, h)' /\ loop'[p][h] \notin {"backoff", "restart", "finalize"}
    BY <2>2, <2>3, <2>4 DEF Over, Active
  <2>6. \A h \in Gens : ~BeforeLoop(p, h)'
    BY <2>2 DEF Over, BeforeLoop
  <2> QED BY <2>2, <2>5, <2>6 DEF Over
<1> QED BY <1>2, <1>3 DEF GoroutineStep

\* A pod is registered as long as it is not deleted, so a loop that finalizes it finds it in
\* the map, with the cancel function of the one loop that acts, itself.
LEMMA FinalizeFindsPod ==
    ASSUME ProviderIInv, NoDeletions, NEW p \in Pods, NEW g \in Gens, LoopFinalize(p, g)
    PROVE  /\ Finalizes(p, g) /\ UNCHANGED panicked /\ virtualPods[KeyOf[p]] = p
           /\ <<p, vp[p].lifeCancel>> \in lifeCancelled' /\ loop[p][g] = "finalize"
<1>1. loop[p][g] = "finalize" /\ PodInv(p)
  BY DEF LoopFinalize, LoopAt, ProviderIInv
<1>2. vp[p] # Nil /\ vp[p].lifeCancel # Nil
  BY <1>1 DEF PodInv, GoroutinesKnow
<1>3. virtualPods[KeyOf[p]] = p /\ p # Nil
  BY <1>2, ProviderAssumption DEF ProviderIInv, Registered, NoDeletions
<1>4. Finalizes(p, g) /\ UNCHANGED panicked
  BY <1>2, <1>3 DEF LoopFinalize, Finalizes
<1> QED BY <1>1, <1>3, <1>4 DEF Finalizes

\* Then the pod is over.
LEMMA FinalizeIsLast ==
    ASSUME ProviderIInv, NoDeletions, NEW p \in Pods, NEW g \in Gens, LoopFinalize(p, g)
    PROVE  Over(p)'
<1>1. /\ Finalizes(p, g) /\ <<p, vp[p].lifeCancel>> \in lifeCancelled' /\ loop[p][g] = "finalize"
      /\ UNCHANGED prov
  BY FinalizeFindsPod DEF LoopFinalize
<1>2. LoopOK /\ PodInv(p)
  BY TypeParts DEF ProviderIInv
<1>3. loop'[p][g] = "destroy" /\ \A h \in Gens \ {g} : loop'[p][h] = loop[p][h]
  BY <1>1, <1>2 DEF Finalizes, LoopGoto, LoopOK
<1>4. g = gens[p] /\ \A h \in Gens \ {g} : loop[p][h] \notin InRound
  BY <1>1, <1>2 DEF PodInv, LastGeneration, RoundsLocked, InRound
<1>5. \A h \in Gens : ~BeforeLoop(p, h)'
  <2>1. \A h \in Gens : ~BeforeLoop(p, h)
    BY <1>1, <1>2, <1>4 DEF PodInv, LastGeneration
  <2> QED BY <1>1, <2>1 DEF BeforeLoop
<1>6. ASSUME NEW h \in Gens PROVE ~Active(p, h)'
  <2>1. Active(p, h)' => Active(p, h)
    BY <1>1, <1>3 DEF Active, Finalizes
  <2>2. Active(p, h) => h = vp[p].lifeCancel
    BY <1>2 DEF PodInv, LastGeneration
  <2> QED BY <1>1, <2>1, <2>2 DEF Active
<1>7. \A h \in Gens : loop'[p][h] \notin {"backoff", "restart", "finalize"}
  BY <1>3, <1>4 DEF InRound
<1> QED BY <1>5, <1>6, <1>7 DEF Over

\* A pod that is over stays so while its goroutines rest.
LEMMA OverRests ==
    ASSUME NEW q \in Pods, Over(q), prov'[q] = prov[q], loop'[q] = loop[q],
           lifeCancelled \subseteq lifeCancelled'
    PROVE  Over(q)'
BY DEF Over, Active, BeforeLoop

\* Every step keeps UndeletedIInv.
LEMMA UndeletedKeeps ==
    ASSUME Deletes = FALSE, ProviderIInv, UndeletedIInv, [Next]_vars
    PROVE  UndeletedIInv'
<1>1. NoDeletions' /\ NoDeletions /\ VpOK /\ \A p \in Pods : vp[p] # Nil => vp[p] \in VirtualPods
  BY NoDeletionsKeeps, TypeParts DEF UndeletedIInv, ProviderIInv, VpOK
<1>2. ASSUME UNCHANGED <<prov, loop>>, lifeCancelled \subseteq lifeCancelled',
             \A q \in Pods : (vp'[q] # Nil /\ vp'[q].finalized) => vp[q] # Nil /\ vp[q].finalized
      PROVE  FinalizedIsOver'
  BY <1>2, OverRests DEF FinalizedIsOver, UndeletedIInv
<1>3. ASSUME NEW p \in Pods, NEW g \in Gens, GoroutineStep(p, g) PROVE FinalizedIsOver' /\ ~panicked'
  <2>1. /\ lifeCancelled \subseteq lifeCancelled' /\ vp[p] # Nil
        /\ \A q \in Pods \ {p} : vp'[q] = vp[q] /\ prov'[q] = prov[q] /\ loop'[q] = loop[q]
        /\ LoopFinalize(p, g) \/ (KeepsSlot(p) /\ UNCHANGED panicked)
    BY <1>3, InitializeFrame, LifecycleFrame DEF GoroutineStep, Finalizes
  <2>2. ~panicked'
    BY <1>1, <2>1, FinalizeFindsPod DEF UndeletedIInv
  <2>3. ASSUME NEW q \in Pods \ {p}, vp'[q] # Nil /\ vp'[q].finalized PROVE Over(q)'
    BY <2>1, <2>3, OverRests DEF UndeletedIInv, FinalizedIsOver
  <2>4. ASSUME vp'[p].finalized PROVE Over(p)'
    <3>1. CASE LoopFinalize(p, g)
      BY <1>1, <3>1, FinalizeIsLast
    <3>2. CASE KeepsSlot(p)
      <4>1. Over(p)
        BY <2>1, <2>4, <3>2 DEF KeepsSlot, UndeletedIInv, FinalizedIsOver
      <4> QED BY <1>3, <4>1, OverStays
    <3> QED BY <2>1, <3>1, <3>2
  <2> QED BY <2>2, <2>3, <2>4 DEF FinalizedIsOver
<1>4. ASSUME NEW w \in Workers, CreatePod(w) PROVE FinalizedIsOver' /\ ~panicked'
  <2>1. PICK p \in Pods :
          /\ ~vp'[p].finalized /\ \A q \in Pods \ {p} : vp'[q] = vp[q] /\ prov'[q] = prov[q]
          /\ UNCHANGED <<loop, lifeCancelled, panicked>>
    BY <1>4, CreateFrame
  <2>2. ASSUME NEW q \in Pods, vp'[q] # Nil /\ vp'[q].finalized PROVE Over(q)'
    BY <2>1, <2>2, OverRests DEF UndeletedIInv, FinalizedIsOver
  <2> QED BY <2>1, <2>2 DEF FinalizedIsOver, UndeletedIInv
<1>5. ASSUME NEW w \in Workers, UpdatePod(w) PROVE FinalizedIsOver' /\ ~panicked'
  <2>1. /\ UNCHANGED <<prov, loop, lifeCancelled, panicked>>
        /\ \A q \in Pods : (vp'[q] # Nil /\ vp'[q].finalized) => vp[q] # Nil /\ vp[q].finalized
    BY <1>5, UpdateFrame
  <2> QED BY <1>2, <2>1 DEF UndeletedIInv
<1>6. ASSUME NEW w \in Workers, DeleteStep(w) PROVE FALSE
  BY <1>1, <1>6, DeleteFrame DEF NoDeletions
<1>7. ASSUME Restart PROVE FinalizedIsOver' /\ ~panicked'
  <2>1. PICK R \in SUBSET Pods, back \in SUBSET Pods : RestartsWith(R, back)
    BY <1>7, RestartFrame
  <2>2. \A q \in Pods : vp'[q] = Nil \/ ~vp'[q].finalized
    BY <2>1 DEF RestartsWith
  <2> QED BY <2>1, <2>2 DEF RestartsWith, FinalizedIsOver
<1>8. ASSUME ~Restart,
             \A p \in Pods, g \in Gens : ~initializeVirtualPod(p, g) /\ ~reconcilePodLifecycle(p, g),
             \A w \in Workers : ~CreatePod(w) /\ ~UpdatePod(w) /\ ~DeleteStep(w)
      PROVE  FinalizedIsOver' /\ ~panicked'
  <2>1. UNCHANGED <<vp, prov, loop, lifeCancelled, panicked>>
    BY <1>8, OutsideFrame
  <2> QED BY <1>2, <2>1 DEF UndeletedIInv
<1>9. FinalizedIsOver' /\ ~panicked'
  BY <1>3, <1>4, <1>5, <1>6, <1>7, <1>8 DEF GoroutineStep
<1> QED BY <1>1, <1>9 DEF UndeletedIInv

\* As long as no pod is deleted, no loop dereferences a missing map entry or cancel function.
THEOREM NoPanicWithoutDeletes ==
    ASSUME Deletes = FALSE
    PROVE  Spec => []NoPanic
<1>1. Init => UndeletedIInv
  BY IdleIs DEF Init, UndeletedIInv, NoDeletions, FinalizedIsOver
<1>2. ProviderIInv /\ UndeletedIInv /\ [Next]_vars => UndeletedIInv'
  BY UndeletedKeeps
<1>3. UndeletedIInv => NoPanic
  BY DEF UndeletedIInv, NoPanic
<1> QED BY <1>1, <1>2, <1>3, ProviderInvariant, PTL DEF Spec

\* A worker takes up the creation of a pod that is not finished with a slot that is free, and
\* an update only where pods are edited.
LEMMA OutsideWorkers ==
    ASSUME ProviderIInv, [Next]_vars, ~Restart,
           \A p \in Pods, g \in Gens : ~initializeVirtualPod(p, g) /\ ~reconcilePodLifecycle(p, g),
           \A w \in Workers : ~CreatePod(w) /\ ~UpdatePod(w) /\ ~DeleteStep(w),
           NEW u \in Workers
    PROVE  \/ wk'[u] = wk[u]
           \/ wk'[u].pc = "create" /\ ~assigned[wk'[u].slot] /\ api[wk'[u].pod].phase \notin Terminal
           \/ wk'[u].pc = "update" /\ "update" \in Faults
           \/ wk'[u].pc = "lock"
<1>1. PodsOK /\ WorkersOK
  BY TypeParts DEF ProviderIInv
<1>2. CASE UNCHANGED wk
  BY <1>2
<1>3. ASSUME NEW w \in Workers, NEW p \in Pods, reserveGatewaySlot(w, p)
      PROVE  \A v \in Workers : \/ wk'[v] = wk[v]
                                \/ /\ wk'[v].pc = "create" /\ ~assigned[wk'[v].slot]
                                   /\ api[wk'[v].pod].phase \notin Terminal
  <2>1. PICK s \in Slots :
          /\ ~assigned[s]
          /\ wk' = [wk EXCEPT ![w] = [IdleWorker EXCEPT !.pc = "create", !.pod = p, !.slot = s]]
    BY <1>3 DEF reserveGatewaySlot, FirstFree
  <2>2. PICK n \in WorkerRecords : n = [IdleWorker EXCEPT !.pc = "create", !.pod = p, !.slot = s]
                                   /\ n.pc = "create" /\ n.slot = s /\ n.pod = p
    <3>1. /\ [IdleWorker EXCEPT !.pc = "create", !.pod = p, !.slot = s] \in WorkerRecords
          /\ [IdleWorker EXCEPT !.pc = "create", !.pod = p, !.slot = s].pc = "create"
          /\ [IdleWorker EXCEPT !.pc = "create", !.pod = p, !.slot = s].slot = s
          /\ [IdleWorker EXCEPT !.pc = "create", !.pod = p, !.slot = s].pod = p
      BY IdleIs DEF WorkerRecords
    <3> QED BY <3>1
  <2>3. wk'[w] = n /\ \A v \in Workers \ {w} : wk'[v] = wk[v]
    BY <1>1, <2>1, <2>2 DEF WorkersOK
  <2> QED BY <1>3, <2>1, <2>2, <2>3, ZenonT(60) DEF reserveGatewaySlot
<1>4. ASSUME NEW w \in Workers, NEW p \in Pods, TakeCopy(w, p)
      PROVE  \A v \in Workers : wk'[v] = wk[v] \/ (wk'[v].pc = "update" /\ "update" \in Faults)
  <2>1. PICK n \in WorkerRecords : n = [IdleWorker EXCEPT !.pc = "update", !.pod = p, !.copy = api[p]]
                                   /\ n.pc = "update"
    <3>1. /\ [IdleWorker EXCEPT !.pc = "update", !.pod = p, !.copy = api[p]] \in WorkerRecords
          /\ [IdleWorker EXCEPT !.pc = "update", !.pod = p, !.copy = api[p]].pc = "update"
      BY <1>1, IdleIs DEF WorkerRecords, PodsOK
    <3> QED BY <3>1
  <2>2. wk'[w] = n /\ \A v \in Workers \ {w} : wk'[v] = wk[v]
    BY <1>1, <1>4, <2>1 DEF WorkersOK, TakeCopy
  <2> QED BY <1>4, <2>1, <2>2 DEF TakeCopy
<1>5. ASSUME NEW w \in Workers, NEW p \in Pods, DeletePod(w, p)
      PROVE  \A v \in Workers : wk'[v] = wk[v] \/ wk'[v].pc = "lock"
  <2>1. CASE UNCHANGED wk
    BY <2>1
  <2>2. ASSUME NEW q \in Pods \cup {Nil},
               wk' = [wk EXCEPT ![w] = [IdleWorker EXCEPT !.pc = "lock", !.pod = p, !.target = q]]
        PROVE  \A v \in Workers : wk'[v] = wk[v] \/ wk'[v].pc = "lock"
    <3>1. PICK n \in WorkerRecords : n = [IdleWorker EXCEPT !.pc = "lock", !.pod = p, !.target = q]
                                     /\ n.pc = "lock"
      <4>1. /\ [IdleWorker EXCEPT !.pc = "lock", !.pod = p, !.target = q] \in WorkerRecords
            /\ [IdleWorker EXCEPT !.pc = "lock", !.pod = p, !.target = q].pc = "lock"
        BY IdleIs DEF WorkerRecords
      <4> QED BY <4>1
    <3> QED BY <1>1, <2>2, <3>1 DEF WorkersOK
  <2>3. virtualPods[KeyOf[p]] \in Pods \cup {Nil}
    <3>1. KeyOf[p] \in Keys /\ MapsOK
      BY TypeParts DEF Keys, ProviderIInv
    <3> QED BY <3>1 DEF MapsOK
  <2> QED BY <1>5, <2>1, <2>2, <2>3 DEF DeletePod
<1>6. CASE \E m \in Machines : MachineStarts(m) \/ ContainerExits(m) \/ MachineVanishes(m)
  BY <1>2, <1>6 DEF MachineStarts, ContainerExits, MachineVanishes, cloudOnly
<1>7. CASE GcList \/ PruneDanglingMachines \/ UNCHANGED vars
  BY <1>2, <1>7 DEF GcList, PruneDanglingMachines, vars
<1>8. CASE \E p \in Pods : SchedulePod(p) \/ RequestDelete(p)
  BY <1>2, <1>8 DEF SchedulePod, RequestDelete
<1> QED BY <1>3, <1>4, <1>5, <1>6, <1>7, <1>8 DEF Next

\* Every step keeps the slots exclusive.
LEMMA SlotsExclusiveKeeps ==
    ASSUME Deletes = FALSE, \A w, u \in Workers : w = u,
           ProviderIInv, UndeletedIInv, FoundIsFree, SlotsExclusive, [Next]_vars
    PROVE  FoundIsFree' /\ SlotsExclusive'
<1>1. MapsOK /\ VpOK /\ NoDeletions /\ \A p \in Pods : KeyOf[p] \in Keys
  BY TypeParts DEF ProviderIInv, UndeletedIInv, Keys
<1>2. ASSUME UNCHANGED <<assigned, virtualPods>>,
             \A q \in Pods : vp'[q] = vp[q] \/ (vp'[q] \in VirtualPods /\ vp[q] # Nil
                                                /\ vp'[q].slot = vp[q].slot
                                                /\ vp'[q].finalized = vp[q].finalized)
      PROVE  SlotsExclusive'
  <2>1. \A q \in Pods : (Holds(q)' <=> Holds(q)) /\ (Holds(q) => vp'[q].slot = vp[q].slot)
    BY <1>1, <1>2, HoldersStay
  <2> QED BY <1>2, <2>1 DEF SlotsExclusive
<1>3. ASSUME NEW p \in Pods, NEW g \in Gens, initializeVirtualPod(p, g)
      PROVE  FoundIsFree' /\ SlotsExclusive'
  <2>1. UNCHANGED <<assigned, wk>> /\ SlotsExclusive'
    BY <1>2, <1>3, InitializeFrame DEF KeepsSlot
  <2> QED BY <2>1 DEF FoundIsFree
<1>4. ASSUME NEW p \in Pods, NEW g \in Gens, reconcilePodLifecycle(p, g)
      PROVE  FoundIsFree' /\ SlotsExclusive'
  <2>1. /\ UNCHANGED <<virtualPods, wk>> /\ \A q \in Pods \ {p} : vp'[q] = vp[q]
        /\ vp[p] # Nil /\ (Finalizes(p, g) \/ KeepsSlot(p))
    BY <1>4, LifecycleFrame
  <2>2. CASE KeepsSlot(p)
    <3>1. UNCHANGED assigned /\ SlotsExclusive'
      BY <1>2, <2>1, <2>2 DEF KeepsSlot
    <3> QED BY <2>1, <3>1 DEF FoundIsFree
  <2>3. CASE Finalizes(p, g)
    <3>1. virtualPods[KeyOf[p]] = p /\ loop[p][g] = "finalize"
      BY <1>1, <2>3, FinalizeFindsPod DEF Finalizes
    <3>2. ~vp[p].finalized
      BY <2>1, <3>1 DEF UndeletedIInv, FinalizedIsOver, Over
    <3>3. Holds(p)
      BY <2>1, <3>1, <3>2 DEF Holds
    <3>4. vp[p] \in VirtualPods
      BY <1>1, <2>1 DEF VpOK
    <3>5. vp'[p].finalized
      BY <1>1, <2>3, <3>4 DEF Finalizes, VpOK, VirtualPods
    <3>6. \A q \in Pods : Holds(q)' => q # p /\ Holds(q) /\ vp'[q].slot = vp[q].slot
      BY <2>1, <3>5 DEF Holds
    <3>7. \A s \in Slots : assigned'[s] <=> assigned[s] /\ s # vp[p].slot
      BY <1>1, <2>3 DEF MapsOK, Finalizes
    <3>8. \A q \in Pods : Holds(q) => vp[q].slot \in Slots
      BY <1>1 DEF Holds, VpOK, VirtualPods
    <3>9. SlotsExclusive'
      BY <3>3, <3>6, <3>7, <3>8 DEF SlotsExclusive
    <3>10. FoundIsFree'
      <4>1. \A w \in Workers : wk[w].slot \in Slots
        <5>1. WorkersOK
          BY TypeParts DEF ProviderIInv
        <5> QED BY <5>1 DEF WorkersOK, WorkerRecords
      <4> QED BY <2>1, <3>7, <4>1 DEF FoundIsFree
    <3> QED BY <3>9, <3>10
  <2> QED BY <2>1, <2>2, <2>3
<1>5. ASSUME NEW w \in Workers, wk' = [wk EXCEPT ![w] = IdleWorker] PROVE FoundIsFree'
  <2>1. WorkersOK
    BY TypeParts DEF ProviderIInv
  <2>2. \A u \in Workers : wk'[u].pc = "idle"
    BY <1>5, <2>1, IdleIs DEF WorkersOK
  <2> QED BY <2>2 DEF FoundIsFree
<1>6. ASSUME NEW w \in Workers, CreatePod(w) PROVE FoundIsFree' /\ SlotsExclusive'
  <2>1. PICK p \in Pods :
             /\ p = wk[w].pod /\ vp[p] = Nil /\ virtualPods[KeyOf[p]] = Nil /\ wk[w].slot \in Slots
             /\ wk[w].pc = "create"
             /\ assigned' = [assigned EXCEPT ![wk[w].slot] = TRUE]
             /\ virtualPods' = [virtualPods EXCEPT ![KeyOf[p]] = p]
             /\ vp'[p] \in VirtualPods /\ vp'[p].slot = wk[w].slot /\ ~vp'[p].finalized
             /\ \A q \in Pods \ {p} : vp'[q] = vp[q]
             /\ wk' = [wk EXCEPT ![w] = IdleWorker]
    BY <1>6, CreateFrame
  <2>2. ~assigned[wk[w].slot]
    BY <2>1 DEF FoundIsFree
  <2>3. \A q \in Pods \ {p} : Holds(q)' => Holds(q) /\ vp'[q].slot = vp[q].slot
    BY <1>1, <2>1, ProviderAssumption DEF Holds, MapsOK
  <2>4. \A q \in Pods : Holds(q) => vp[q].slot # wk[w].slot /\ assigned[vp[q].slot]
    BY <2>2 DEF SlotsExclusive
  <2>5. \A s \in Slots : assigned'[s] <=> assigned[s] \/ s = wk[w].slot
    BY <1>1, <2>1 DEF MapsOK
  <2>6. \A q \in Pods : Holds(q) => vp[q].slot \in Slots
    BY <1>1 DEF Holds, VpOK, VirtualPods
  <2>7. SlotsExclusive'
    BY <2>1, <2>3, <2>4, <2>5, <2>6 DEF SlotsExclusive
  <2> QED BY <1>5, <2>1, <2>7
<1>7. ASSUME NEW w \in Workers, UpdatePod(w) PROVE FoundIsFree' /\ SlotsExclusive'
  <2>1. SlotsExclusive' /\ wk' = [wk EXCEPT ![w] = IdleWorker]
    BY <1>2, <1>7, UpdateFrame
  <2> QED BY <1>5, <2>1
<1>8. ASSUME NEW w \in Workers, DeleteStep(w) PROVE FALSE
  BY <1>1, <1>8, DeleteFrame DEF NoDeletions
<1>9. ASSUME Restart PROVE FoundIsFree' /\ SlotsExclusive'
  <2>1. PICK R \in SUBSET Pods, back \in SUBSET Pods : RestartsWith(R, back)
    BY <1>9, RestartFrame
  <2>2. \A p \in Pods : Holds(p)' => p \in back /\ p \in R /\ vp'[p].slot = api[p].slot
    BY <2>1 DEF RestartsWith, Holds
  <2>3. \A p \in R : assigned'[api[p].slot]
    <3>1. PodsOK
      BY TypeParts DEF ProviderIInv
    <3>2. \A p \in R : api[p].slot \in Slots
      BY <3>1 DEF PodsOK, PodObjects
    <3> QED BY <2>1, <3>2 DEF RestartsWith
  <2>4. SlotsExclusive'
    BY <2>1, <2>2, <2>3 DEF SlotsExclusive, RestartsWith
  <2> QED BY <2>1, <2>4 DEF FoundIsFree, RestartsWith
<1>10. ASSUME ~Restart,
              \A p \in Pods, g \in Gens : ~initializeVirtualPod(p, g) /\ ~reconcilePodLifecycle(p, g),
              \A w \in Workers : ~CreatePod(w) /\ ~UpdatePod(w) /\ ~DeleteStep(w)
       PROVE  FoundIsFree' /\ SlotsExclusive'
  <2>1. UNCHANGED <<assigned, virtualPods, vp>>
    BY <1>10, OutsideFrame
  <2>2. \A u \in Workers : wk'[u] = wk[u] \/ (wk'[u].pc = "create" => ~assigned[wk'[u].slot])
    BY <1>10, OutsideWorkers
  <2>3. FoundIsFree'
    BY <2>1, <2>2 DEF FoundIsFree
  <2> QED BY <1>2, <2>1, <2>3
<1> QED BY <1>3, <1>4, <1>6, <1>7, <1>8, <1>9, <1>10

\* With one sync worker, and as long as no pod is deleted, every registered pod that is not
\* finalized holds its slot alone, through restarts of pods and of the virtual kubelet.
THEOREM SlotsAreExclusive ==
    ASSUME Deletes = FALSE, \A w, u \in Workers : w = u
    PROVE  Spec => []SlotsExclusive
<1>1. Init => UndeletedIInv /\ FoundIsFree /\ SlotsExclusive
  BY IdleIs DEF Init, UndeletedIInv, NoDeletions, FinalizedIsOver, FoundIsFree, SlotsExclusive,
     Holds
<1>2. ProviderIInv /\ UndeletedIInv /\ [Next]_vars => UndeletedIInv'
  BY UndeletedKeeps
<1>3. ProviderIInv /\ UndeletedIInv /\ FoundIsFree /\ SlotsExclusive /\ [Next]_vars
        => FoundIsFree' /\ SlotsExclusive'
  BY SlotsExclusiveKeeps
<1> QED BY <1>1, <1>2, <1>3, ProviderInvariant, PTL DEF Spec

\* A lifecycle loop at work on a pod that is not ending reports no finished phase, unless it
\* goes on to finalize the pod.
LEMMA ReportsBeforeEnd ==
    ASSUME ProviderIInv, NEW p \in Pods, NEW g \in Gens, reconcilePodLifecycle(p, g),
           ~Ending(p), api[p].phase \notin Terminal, vp[p].phase \notin Terminal
    PROVE  \/ \E h \in Gens : loop'[p][h] = "finalize"
           \/ api'[p].phase \notin Terminal /\ vp'[p].phase \notin Terminal
<1>1. PodsOK /\ VpOK /\ LoopOK /\ vp[p] # Nil /\ vp[p] \in VirtualPods
  BY TypeParts, LifecycleFrame DEF ProviderIInv, VpOK
<1>2. ASSUME LoopGoto(p, g, "finalize") PROVE loop'[p][g] = "finalize"
  BY <1>1, <1>2 DEF LoopGoto, LoopOK
<1>3. ASSUME Notify(p), vp'[p].phase \notin Terminal PROVE api'[p].phase \notin Terminal
  BY <1>1, <1>3 DEF Notify, PodsOK
<1>4. "Running" \notin Terminal
  BY DEF Terminal
<1>5. CASE StatusRunning(p, g)
  <2>1. vp'[p] = [vp[p] EXCEPT !.cont = "Running", !.phase = "Running"] /\ Notify(p)
    BY <1>1, <1>5 DEF StatusRunning, VpOK
  <2>2. vp'[p].phase = "Running"
    BY <1>1, <2>1 DEF VirtualPods
  <2> QED BY <1>3, <1>4, <2>1, <2>2
<1>6. CASE StatusExited(p, g)
  <2>1. PICK m \in AgentAt(vp[p].slot) :
          StatusRestarts(p, g, cloud[m].agent) \/ StatusTerminates(p, g, cloud[m].agent)
    BY <1>6 DEF StatusExited
  <2>2. CASE StatusTerminates(p, g, cloud[m].agent)
    BY <1>2, <2>2 DEF StatusTerminates
  <2>3. CASE StatusRestarts(p, g, cloud[m].agent)
    <3>1. vp'[p] = [vp[p] EXCEPT !.completed = FALSE, !.cont = "Waiting", !.phase = "Running"]
      BY <1>1, <2>3 DEF StatusRestarts, VpOK
    <3>2. vp'[p].phase = "Running" /\ Notify(p)
      BY <1>1, <1>6, <3>1 DEF VirtualPods, StatusExited
    <3> QED BY <1>3, <1>4, <3>2
  <2> QED BY <2>1, <2>2, <2>3
<1>7. CASE StatusReportTimeout(p, g)
  <2>1. CASE LoopGoto(p, g, "finalize")
    BY <1>2, <2>1
  <2>2. CASE UNCHANGED vp
    BY <1>3, <1>7, <2>2 DEF StatusReportTimeout
  <2> QED BY <1>7, <2>1, <2>2 DEF StatusReportTimeout
<1>8. ~LoopFinalize(p, g)
  BY DEF Ending, LoopFinalize, LoopAt
<1>9. CASE LoopRestart(p, g)
  <2>1. UNCHANGED api /\ \E n : vp' = [vp EXCEPT ![p].provCancel = n]
    BY <1>9 DEF LoopRestart
  <2>2. vp'[p].phase = vp[p].phase
    BY <1>1, <2>1 DEF VpOK, VirtualPods
  <2> QED BY <2>1, <2>2
<1>10. CASE restartBackoff(p, g) \/ LoopDestroy(p, g) \/ LoopStop(p, g)
  BY <1>10 DEF restartBackoff, LoopDestroy, LoopStop
<1> QED BY <1>5, <1>6, <1>7, <1>8, <1>9, <1>10 DEF reconcilePodLifecycle

\* A lifecycle loop at work on a pod that is ending reports nothing, and the pod goes on to end.
LEMMA EndingEnds ==
    ASSUME ProviderIInv, UndeletedIInv, NEW p \in Pods, NEW g \in Gens, reconcilePodLifecycle(p, g),
           Ending(p)
    PROVE  Ending(p)' /\ api'[p] = api[p]
<1>1. VpOK /\ LoopOK /\ PodInv(p) /\ vp[p] # Nil /\ NoDeletions
  BY TypeParts, LifecycleFrame DEF ProviderIInv, UndeletedIInv
<1>2. CASE vp[p].finalized
  <2>1. Over(p)
    BY <1>1, <1>2 DEF UndeletedIInv, FinalizedIsOver
  <2>2. UNCHANGED api /\ ~LoopFinalize(p, g)
    BY <2>1, OverStays DEF GoroutineStep, Over, LoopFinalize, LoopAt
  <2>3. vp'[p].finalized
    BY <1>2, <2>2, LifecycleFrame DEF KeepsSlot, Finalizes
  <2> QED BY <2>2, <2>3 DEF Ending
<1>3. ASSUME NEW h \in Gens, loop[p][h] = "finalize" PROVE Ending(p)' /\ api'[p] = api[p]
  <2>1. lock[p] # Nil
    BY <1>1, <1>3, ProviderAssumption DEF PodInv, RoundsLocked, InRound
  <2>2. \A k \in Gens \ {h} : loop[p][k] \notin InRound
    BY <1>1, <1>3 DEF PodInv, RoundsLocked, InRound
  <2>3. CASE LoopFinalize(p, g)
    <3>1. UNCHANGED api /\ vp' = [vp EXCEPT ![p].finalized = TRUE]
      BY <1>1, <2>3, FinalizeFindsPod DEF Finalizes, LoopFinalize
    <3>2. vp[p] \in VirtualPods
      BY <1>1 DEF VpOK
    <3>3. vp'[p].finalized
      BY <1>1, <3>1, <3>2 DEF VpOK, VirtualPods
    <3> QED BY <3>1, <3>3 DEF Ending
  <2>4. CASE ~LoopFinalize(p, g)
    <3>1. LoopStop(p, g)
      BY <1>3, <2>1, <2>2, <2>4 DEF reconcilePodLifecycle, StatusRunning, StatusExited,
         StatusReportTimeout,
                              restartBackoff, LoopRestart, LoopDestroy, Polls, LoopAt, InRound
    <3>2. UNCHANGED api /\ g # h /\ loop' = [loop EXCEPT ![p][g] = "ended"]
      BY <1>3, <3>1 DEF LoopStop, LoopAt, LoopGoto
    <3>3. loop'[p][h] = "finalize"
      BY <1>1, <1>3, <3>2 DEF LoopOK
    <3> QED BY <3>2, <3>3 DEF Ending
  <2> QED BY <2>3, <2>4
<1> QED BY <1>1, <1>2, <1>3 DEF Ending

\* Every step keeps PhasesEnd and the finished phases.
LEMMA PhasesEndKeeps ==
    ASSUME Deletes = FALSE, "update" \notin Faults, ProviderIInv, UndeletedIInv, PhasesEnd, [Next]_vars
    PROVE  /\ PhasesEnd'
           /\ \A p \in Pods : api[p].phase \in Terminal => api'[p].phase = api[p].phase
<1> DEFINE Sticks == \A p \in Pods : api[p].phase \in Terminal => api'[p].phase = api[p].phase
           Ends == \A p \in Pods : /\ api'[p].phase \in Terminal => Ending(p)'
                                   /\ (vp'[p] # Nil /\ vp'[p].phase \in Terminal) => Ending(p)'
           Creates == \A w \in Workers : /\ wk'[w].pc = "create" => api'[wk'[w].pod].phase \notin Terminal
                                         /\ wk'[w].pc # "update"
<1>1. /\ PodsOK /\ VpOK /\ LoopOK /\ WorkersOK /\ NoDeletions
      /\ \A w \in Workers : wk[w].pc # "idle" => wk[w].pod \in Pods
  BY TypeParts DEF ProviderIInv, UndeletedIInv, WorkerKnows
<1>2. \A w \in Workers : wk[w].pc = "create" => vp[wk[w].pod] = Nil
  <2>1. ASSUME NEW w \in Workers, wk[w].pc = "create" PROVE vp[wk[w].pod] = Nil
    <3>1. WorkerKnows(w) /\ Registered
      BY DEF ProviderIInv
    <3>2. wk[w].pod \in Pods /\ There(wk[w].pod) /\ virtualPods[KeyOf[wk[w].pod]] = Nil
      BY <2>1, <3>1 DEF WorkerKnows
    <3> QED BY <3>1, <3>2, ProviderAssumption DEF Registered, There
  <2> QED BY <2>1
<1>3. ASSUME NEW p \in Pods, NEW g \in Gens, initializeVirtualPod(p, g) PROVE Sticks /\ Ends /\ Creates
  <2>1. /\ UNCHANGED <<api, wk>> /\ vp[p] # Nil /\ vp'[p].finalized = vp[p].finalized
        /\ vp'[p].phase = vp[p].phase
        /\ \A q \in Pods \ {p} : vp'[q] = vp[q] /\ loop'[q] = loop[q]
    BY <1>3, InitializeFrame DEF KeepsSlot
  <2>2. \A h \in Gens : loop[p][h] = "finalize" => loop'[p][h] = "finalize"
    <3>1. CASE startLifecycle(p, g)
      <4>1. loop[p][g] = "off"
        BY <3>1 DEF startLifecycle, At, ProviderIInv, PodInv, LastGeneration, BeforeLoop
      <4> QED BY <1>1, <3>1, <4>1 DEF startLifecycle, LoopOK
    <3>2. CASE ~startLifecycle(p, g)
      <4>1. UNCHANGED loop
        BY <1>3, <3>2 DEF initializeVirtualPod, Retry, machineCleanup, RemoveMachine, restartOp,
           restartPod,
                          selectAndProvisionMachine, waitForMachineReady, RunCommand, provisioningDone,
                          provOnly
      <4> QED BY <4>1
    <3> QED BY <3>1, <3>2
  <2>3. \A q \in Pods : (vp[q] # Nil /\ Ending(q)) => Ending(q)'
    BY <2>1, <2>2 DEF Ending
  <2>4. \A q \in Pods : vp[q] = Nil => vp'[q] = Nil
    BY <2>1
  <2>5. Ends
    BY <2>1, <2>3, <2>4 DEF PhasesEnd, Ending
  <2> QED BY <2>1, <2>5 DEF PhasesEnd
<1>4. ASSUME NEW p \in Pods, NEW g \in Gens, reconcilePodLifecycle(p, g) PROVE Sticks /\ Ends /\ Creates
  <2>1. /\ UNCHANGED wk /\ vp[p] # Nil
        /\ \A q \in Pods \ {p} : vp'[q] = vp[q] /\ loop'[q] = loop[q] /\ api'[q] = api[q]
    BY <1>4, LifecycleFrame
  <2>2. CASE Ending(p)
    <3>1. Ending(p)' /\ api'[p] = api[p]
      BY <1>4, <2>2, EndingEnds
    <3>2. Sticks /\ Ends
      BY <2>1, <3>1 DEF PhasesEnd, Ending
    <3> QED BY <1>1, <2>1, <3>1, <3>2 DEF PhasesEnd
  <2>3. CASE ~Ending(p)
    <3>1. api[p].phase \notin Terminal /\ vp[p].phase \notin Terminal
      BY <2>1, <2>3 DEF PhasesEnd
    <3>2. \/ \E h \in Gens : loop'[p][h] = "finalize"
          \/ api'[p].phase \notin Terminal /\ vp'[p].phase \notin Terminal
      BY <1>4, <2>3, <3>1, ReportsBeforeEnd
    <3>3. Sticks /\ Ends
      BY <2>1, <3>1, <3>2 DEF PhasesEnd, Ending
    <3>4. Creates
      BY <1>1, <1>2, <2>1 DEF PhasesEnd
    <3> QED BY <3>3, <3>4
  <2> QED BY <2>2, <2>3
<1>5. ASSUME NEW w \in Workers, CreatePod(w) PROVE Sticks /\ Ends /\ Creates
  <2>1. PICK p \in Pods :
          /\ p = wk[w].pod /\ wk[w].pc = "create"
          /\ vp'[p].phase = "Pending" /\ api'[p].phase = "Pending"
          /\ \A q \in Pods \ {p} : vp'[q] = vp[q] /\ api'[q] = api[q]
          /\ wk' = [wk EXCEPT ![w] = IdleWorker] /\ UNCHANGED loop
    BY <1>5, CreateFrame
  <2>2. "Pending" \notin Terminal
    BY DEF Terminal
  <2>3. api[p].phase \notin Terminal
    BY <2>1 DEF PhasesEnd
  <2>4. Sticks /\ Ends
    BY <2>1, <2>2, <2>3 DEF PhasesEnd, Ending
  <2>5. wk'[w].pc = "idle" /\ \A u \in Workers \ {w} : wk'[u] = wk[u]
    BY <1>1, <2>1, IdleIs DEF WorkersOK
  <2>6. Creates
    BY <1>1, <2>1, <2>2, <2>5 DEF PhasesEnd
  <2> QED BY <2>4, <2>6
<1>6. ASSUME NEW w \in Workers, UpdatePod(w) PROVE FALSE
  BY <1>6 DEF UpdatePod, WorkerAt, PhasesEnd
<1>7. ASSUME NEW w \in Workers, DeleteStep(w) PROVE FALSE
  BY <1>1, <1>7, DeleteFrame DEF NoDeletions
<1>8. ASSUME Restart PROVE Sticks /\ Ends /\ Creates
  <2>1. PICK R \in SUBSET Pods, back \in SUBSET Pods : RestartsWith(R, back)
    BY <1>8, RestartFrame
  <2>2. "Running" \notin Terminal
    BY DEF Terminal
  <2>3. Sticks /\ Creates
    BY <2>1, <2>2 DEF RestartsWith
  <2>4. \A p \in Pods : p \in back => api'[p].phase = "Running" /\ vp'[p].phase = "Running"
    BY <2>1 DEF RestartsWith
  <2>5. \A p \in Pods : p \notin back => vp'[p] = Nil
    BY <2>1 DEF RestartsWith
  <2> QED BY <2>2, <2>3, <2>4, <2>5 DEF Ending
<1>9. ASSUME ~Restart,
             \A p \in Pods, g \in Gens : ~initializeVirtualPod(p, g) /\ ~reconcilePodLifecycle(p, g),
             \A w \in Workers : ~CreatePod(w) /\ ~UpdatePod(w) /\ ~DeleteStep(w)
       PROVE  Sticks /\ Ends /\ Creates
  <2>1. UNCHANGED <<api, vp, loop>>
    BY <1>9, OutsideFrame
  <2>2. \A u \in Workers : \/ wk'[u] = wk[u]
                           \/ wk'[u].pc = "create" /\ api[wk'[u].pod].phase \notin Terminal
                           \/ wk'[u].pc = "lock"
    BY <1>9, OutsideWorkers
  <2>3. Creates
    BY <2>1, <2>2 DEF PhasesEnd
  <2> QED BY <2>1, <2>3 DEF PhasesEnd, Ending
<1>10. Sticks /\ Ends /\ Creates
  BY <1>3, <1>4, <1>5, <1>6, <1>7, <1>8, <1>9
<1> QED BY <1>10 DEF PhasesEnd

\* As long as no pod is deleted or edited, a finished phase, once sent to the API server, is
\* never taken back.
THEOREM PhasesStick ==
    ASSUME Deletes = FALSE, "update" \notin Faults
    PROVE  Spec => PhaseSticks
<1>1. Init => UndeletedIInv /\ PhasesEnd
  <2>1. ASSUME Init PROVE PhasesEnd
    <3>1. \A p \in Pods : vp[p] = Nil
      BY <2>1 DEF Init
    <3>2. \A w \in Workers : wk[w].pc = "idle"
      BY <2>1, IdleIs DEF Init
    <3> QED BY <3>1, <3>2 DEF PhasesEnd, Ending
  <2>2. Init => UndeletedIInv
    BY IdleIs DEF Init, UndeletedIInv, NoDeletions, FinalizedIsOver
  <2> QED BY <2>1, <2>2
<1>2. ProviderIInv /\ UndeletedIInv /\ [Next]_vars => UndeletedIInv'
  BY UndeletedKeeps
<1>3. ProviderIInv /\ UndeletedIInv /\ PhasesEnd /\ [Next]_vars =>
        /\ PhasesEnd'
        /\ \A p \in Pods : api[p].phase \in Terminal => api'[p].phase = api[p].phase
  BY PhasesEndKeeps
<1>4. ProviderIInv /\ UndeletedIInv /\ PhasesEnd /\ [Next]_vars =>
        [\A p \in Pods : api[p].phase \in Terminal => api'[p].phase = api[p].phase]_vars
  BY <1>3
<1> QED BY <1>1, <1>2, <1>3, <1>4, ProviderInvariant, PTL DEF Spec, PhaseSticks
=============================================================================
