----------------------------- MODULE BansProofs -----------------------------
(***************************************************************************)
(* Machine bans, for any market, any number of pods, any ban duration and  *)
(* any number of restarts: a saved ban is never lost before it expires,    *)
(* and no pod rents again from a host it has banned.                       *)
(***************************************************************************)
EXTENDS MachineBans, TLAPS

-----------------------------------------------------------------------------
\* Ages.

\* The ban duration and the ages it lets a map have.
LEMMA AgesAre ==
    /\ GetMachineBanDuration \in Nat /\ Oldest \in Nat
    /\ GetMachineBanDuration < Oldest
    /\ 0 \in Ages /\ Unset \in Ages
    /\ \A a \in Ages : a # Unset => a \in Nat /\ a <= Oldest
    /\ Torn \notin BanMaps
<1>1. GetMachineBanDuration \in Nat
  BY BansAssumption DEF GetMachineBanDuration
<1>2. Oldest \in Nat /\ GetMachineBanDuration < Oldest
  BY <1>1 DEF Oldest
<1>3. /\ 0 \in Ages /\ Unset \in Ages
      /\ \A a \in Ages : a # Unset => a \in Nat /\ a <= Oldest
  BY <1>2 DEF Ages
<1>4. \A m \in BanMaps : m \in [Hosts -> Nat \cup {Unset}]
  BY <1>2 DEF BanMaps, Ages
<1> QED BY <1>1, <1>2, <1>3, <1>4, BansAssumption

\* NoBans, Older and InForce make maps of ages.
LEMMA MapsAre ==
    /\ NoBans \in BanMaps /\ JustNow \in BanMaps
    /\ \A m \in BanMaps : Older(m) \in BanMaps /\ InForce(m) \in BanMaps
<1>1. NoBans \in BanMaps /\ JustNow \in BanMaps
  BY AgesAre DEF NoBans, JustNow, BanMaps
<1>2. ASSUME NEW m \in BanMaps PROVE Older(m) \in BanMaps
  <2>1. \A h \in Hosts : m[h] \in Ages
    BY DEF BanMaps
  <2>2. \A h \in Hosts : (IF m[h] = Unset THEN Unset
                          ELSE IF m[h] < Oldest THEN m[h] + 1 ELSE Oldest) \in Ages
    BY <2>1, AgesAre DEF Ages
  <2> QED BY <2>2 DEF Older, BanMaps
<1>3. ASSUME NEW m \in BanMaps PROVE InForce(m) \in BanMaps
  <2>1. \A h \in Hosts : (IF Banned(m[h]) THEN m[h] ELSE Unset) \in Ages
    BY AgesAre DEF BanMaps
  <2> QED BY <2>1 DEF InForce, BanMaps
<1> QED BY <1>1, <1>2, <1>3

-----------------------------------------------------------------------------
\* One map is backed by another when every ban in force in it is in the other, and is no
\* older there.

Backed(m, by) ==
    \A h \in Hosts : Banned(m[h]) => by[h] # Unset /\ by[h] <= m[h]

\* A ban in force in the first map is in force in the map that backs it.
LEMMA BackedBan ==
    ASSUME NEW m \in BanMaps, NEW by \in BanMaps, NEW h \in Hosts,
           Backed(m, by), Banned(m[h])
    PROVE  Banned(by[h])
<1>1. m[h] \in Ages /\ by[h] \in Ages
  BY DEF BanMaps
<1> QED BY <1>1, AgesAre DEF Backed, Banned

\* Time ages both maps alike.
LEMMA BackedOlder ==
    ASSUME NEW m \in BanMaps, NEW by \in BanMaps, Backed(m, by)
    PROVE  Backed(InForce(Older(m)), Older(by))
<1> SUFFICES ASSUME NEW h \in Hosts, Banned(InForce(Older(m))[h])
             PROVE  Older(by)[h] # Unset /\ Older(by)[h] <= InForce(Older(m))[h]
  BY DEF Backed
<1>1. m[h] \in Ages /\ by[h] \in Ages
  BY DEF BanMaps
<1>2. InForce(Older(m))[h] = Older(m)[h] /\ Banned(Older(m)[h])
  BY DEF InForce, Banned
<1>3. m[h] # Unset /\ Banned(m[h])
  BY <1>1, <1>2, AgesAre DEF Older, Banned, Oldest
<1>4. by[h] # Unset /\ by[h] <= m[h]
  BY <1>3 DEF Backed
<1>5. /\ Older(m)[h] = IF m[h] < Oldest THEN m[h] + 1 ELSE Oldest
      /\ Older(by)[h] = IF by[h] < Oldest THEN by[h] + 1 ELSE Oldest
  BY <1>3, <1>4 DEF Older
<1>6. m[h] \in Nat /\ by[h] \in Nat /\ Oldest \in Nat
  BY <1>1, <1>3, <1>4, AgesAre
<1>7. Older(by)[h] \in Nat /\ Older(by)[h] <= Older(m)[h]
  BY <1>4, <1>5, <1>6
<1> QED BY <1>2, <1>7, BansAssumption

-----------------------------------------------------------------------------
\* Type correctness.

\* A record of a pod's provisioning.
Jobs == [pc : {"idle", "search", "rent", "wait", "running", "ban"} \cup Saving,
         cands : SUBSET Offers, offer : Offers \cup {0}, seen : BOOLEAN]

\* Setting the ban of a pod in a map of ages makes a map of ages.
LEMMA WithBanType ==
    ASSUME NEW m \in BanMaps, NEW times \in BanMaps, NEW p
    PROVE  WithBan(m, p, times) \in BanMaps
BY DEF WithBan, BanMaps

\* Nobody saves bans when the provider starts, and the map is empty.
LEMMA InitType == Init => TypeOK
<1> SUFFICES ASSUME Init PROVE TypeOK
  OBVIOUS
<1>1. Idle \in Jobs /\ Idle.pc \notin Saving
  BY DEF Idle, Jobs, Saving
<1>2. job \in [Pods -> Jobs] /\ \A p \in Pods : job[p].pc \notin Saving /\ mu # p
  BY <1>1, BansAssumption DEF Init
<1> QED BY <1>2, MapsAre, BansAssumption DEF Init, TypeOK, Jobs

\* A pod that moves on, and neither starts nor ends saving, keeps the types.
LEMMA JobStep ==
    ASSUME TypeOK, NEW p \in Pods, NEW j \in Jobs,
           job' = [job EXCEPT ![p] = j], j.pc \in Saving <=> job[p].pc \in Saving,
           UNCHANGED <<banVars, crashes, kept, failed>>
    PROVE  TypeOK'
BY DEF TypeOK, Jobs, banVars

\* A step of one pod keeps the types, and with them the rule that the map is saved
\* only by the holder of bansMu (persistMachineBansToFile).
LEMMA PodStepType ==
    ASSUME TypeOK, NEW p \in Pods, PodStep(p)
    PROVE  TypeOK'
<1> USE DEF TypeOK
<1>1. CASE CreatePod(p)
  BY <1>1, MapsAre DEF CreatePod, Idle, Saving, banVars
<1>2. CASE SelectAndProvisionMachine(p)
  BY <1>2 DEF SelectAndProvisionMachine, Filtered, GetRentalCandidates, Idle, Saving, banVars
<1>3. CASE ProvisionMachine(p)
  <2>1. PICK o \in Cheapest(job[p].cands) :
            job' = [job EXCEPT ![p] = [@ EXCEPT !.pc = "wait", !.offer = o, !.cands = {}]]
    BY <1>3 DEF ProvisionMachine
  <2>2. o \in Offers
    BY DEF Cheapest
  <2> DEFINE j == [job[p] EXCEPT !.pc = "wait", !.offer = o, !.cands = {}]
  <2>3. j \in Jobs /\ j.pc = "wait"
    BY <2>2 DEF Jobs
  <2>4. job' = [job EXCEPT ![p] = j]
    BY <2>1
  <2>5. job[p].pc = "rent" /\ UNCHANGED <<banVars, crashes, kept, failed>>
    BY <1>3 DEF ProvisionMachine
  <2> HIDE DEF j
  <2> QED BY <2>3, <2>4, <2>5, JobStep DEF Saving
<1>4. CASE OfferRefused(p)
  <2> DEFINE rest == job[p].cands \ Cheapest(job[p].cands)
             j == [job[p] EXCEPT !.cands = rest, !.pc = IF rest = {} THEN "search" ELSE "rent"]
  <2>1. j \in Jobs /\ j.pc \notin Saving
    BY DEF Jobs, Saving
  <2>2. job' = [job EXCEPT ![p] = j] /\ job[p].pc \notin Saving
    BY <1>4 DEF OfferRefused, Saving
  <2> QED BY <1>4, <2>1, <2>2, JobStep DEF OfferRefused
<1>5. CASE MachineSeen(p)
  <2>1. [job[p] EXCEPT !.seen = TRUE] \in Jobs
    BY DEF Jobs
  <2> QED BY <1>5, <2>1, JobStep DEF MachineSeen
<1>6. CASE StartupFails(p) \/ PodStarts(p)
  <2>1. \A pc \in {"ban", "running"} : [job[p] EXCEPT !.pc = pc] \in Jobs
    BY DEF Jobs
  <2> QED BY <1>6, <2>1, JobStep DEF StartupFails, PodStarts, Saving
<1>7. CASE AgentFails(p) \/ PodEnds(p) \/ PodRestarts(p)
  <2>1. Idle \in Jobs /\ [Idle EXCEPT !.pc = "search"] \in Jobs
    BY DEF Jobs, Idle
  <2>2. [job[p] EXCEPT !.pc = "wait"] \in Jobs
    BY DEF Jobs
  <2>3. PICK j \in Jobs : job' = [job EXCEPT ![p] = j] /\ j.pc \notin Saving
    BY <1>7, <2>1, <2>2 DEF AgentFails, PodEnds, PodRestarts, Idle, Saving
  <2>4. job[p].pc \notin Saving /\ UNCHANGED <<banVars, crashes, kept, failed>>
    BY <1>7 DEF AgentFails, PodEnds, PodRestarts, Saving
  <2> QED BY <2>3, <2>4, JobStep
<1>8. CASE BanMachine(p)
  <2>1. bans' \in BanMaps
    BY <1>8, WithBanType, MapsAre DEF BanMachine
  <2> QED BY <1>8, <2>1, BansAssumption DEF BanMachine, Saving
<1>9. CASE WriteTmp(p)
  BY <1>9 DEF WriteTmp, Saving, banVars
<1>10. ASSUME BanReturns(p), job[p].pc \in Saving
       PROVE  /\ job' \in [Pods -> Jobs] /\ mu' \in Pods \cup {NoPod}
              /\ \A q \in Pods : mu' = q <=> job'[q].pc \in Saving
              /\ failed' \in [Pods -> BanMaps]
  <2>1. InForce(WithBan(failed[p], p, bans)) \in BanMaps
    BY WithBanType, MapsAre
  <2>2. failed' \in [Pods -> BanMaps]
    BY <1>10, <2>1 DEF BanReturns
  <2> QED BY <1>10, <2>2, BansAssumption DEF BanReturns, Idle, Saving, Jobs
<1>11. CASE RenameTmp(p)
  <2>1. kept' \in BanMaps
    BY <1>11, WithBanType, MapsAre DEF RenameTmp
  <2> QED BY <1>10, <1>11, <2>1 DEF RenameTmp, Saving, Jobs
<1>12. CASE PersistReturnsEarly(p)
  BY <1>10, <1>12 DEF PersistReturnsEarly, Saving, Jobs
<1> QED BY <1>1, <1>2, <1>3, <1>4, <1>5, <1>6, <1>7, <1>8, <1>9, <1>11, <1>12 DEF PodStep

\* Time and restarts keep the types.
LEMMA StepType == TypeOK /\ [Next]_vars => TypeOK'
<1> SUFFICES ASSUME TypeOK, [Next]_vars PROVE TypeOK'
  OBVIOUS
<1>1. ASSUME NEW p \in Pods, PodStep(p) PROVE TypeOK'
  BY <1>1, PodStepType
<1>2. CASE Tick
  <2>1. bans' \in BanMaps /\ kept' \in BanMaps /\ file' \in BanMaps \cup {Torn}
    BY <1>2, MapsAre DEF Tick, TypeOK
  <2>2. failed' \in [Pods -> BanMaps]
    BY <1>2, MapsAre DEF Tick, TypeOK
  <2> QED BY <1>2, <2>1, <2>2 DEF Tick, TypeOK
<1>3. CASE Restart
  <2>1. bans' \in BanMaps
    BY <1>3, MapsAre DEF Restart, LoadMachineBansFromFile, TypeOK
  <2>2. Idle \in Jobs /\ Idle.pc \notin Saving
    BY DEF Idle, Jobs, Saving
  <2>3. job' \in [Pods -> Jobs] /\ \A p \in Pods : job'[p].pc \notin Saving /\ mu' # p
    BY <1>3, <2>2, BansAssumption DEF Restart
  <2> QED BY <1>3, <2>1, <2>3, MapsAre, BansAssumption DEF Restart, TypeOK, Jobs
<1>4. CASE UNCHANGED vars
  BY <1>4 DEF vars, TypeOK
<1> QED BY <1>1, <1>2, <1>3, <1>4 DEF Next

\* The provider's bans are well typed, and saved only under bansMu.
THEOREM BansTypeCorrect == Spec => []TypeOK
<1>1. Init => TypeOK
  BY InitType
<1>2. TypeOK /\ [Next]_vars => TypeOK'
  BY StepType
<1> QED BY <1>1, <1>2, PTL DEF Spec

-----------------------------------------------------------------------------
\* Saved bans, and a pod's own.

\* The file is never torn, and without one nothing counts as saved.
FileInv ==
    /\ file # Torn
    /\ ~FileEnabled => kept = NoBans
    /\ \A p \in Pods : job[p].pc = "rename" => FileEnabled

\* What was saved is in the file and in memory; what a pod has banned is in memory,
\* and no candidate of the pod is an offer of such a host.
BanInv ==
    /\ Backed(kept, file) /\ Backed(kept, bans)
    /\ \A p \in Pods : Backed(failed[p], bans)
    /\ \A p \in Pods : \A o \in job[p].cands : ~Banned(failed[p][HostOf[o]])

IInv == TypeOK /\ FileInv /\ BanInv

\* Nothing is banned in the empty map.
LEMMA NothingBanned ==
    /\ \A h \in Hosts : ~Banned(NoBans[h])
    /\ \A m \in BanMaps : Backed(NoBans, m)
BY DEF NoBans, Banned, Backed

\* No bans at the start.
LEMMA InitBans == Init => IInv
BY InitType, NothingBanned, MapsAre, AgesAre DEF Init, IInv, FileInv, BanInv, Idle

\* A step that leaves the bans alone, and drops candidates, keeps the invariant.
LEMMA BansUntouched ==
    ASSUME IInv, TypeOK', UNCHANGED <<banVars, kept, failed>>,
           NEW p \in Pods, NEW j \in Jobs, job' = [job EXCEPT ![p] = j],
           j.cands \subseteq job[p].cands,
           j.pc = "rename" => FileEnabled
    PROVE  FileInv' /\ BanInv'
<1>1. FileInv'
  BY DEF IInv, TypeOK, FileInv, banVars
<1>2. \A q \in Pods : job'[q].cands \subseteq job[q].cands
  BY DEF IInv, TypeOK
<1>3. BanInv'
  BY <1>2 DEF IInv, BanInv, Backed, banVars
<1> QED BY <1>1, <1>3

\* BanMachine returns to a pod without candidates, which has now banned the host.
LEMMA ReturnedBans ==
    ASSUME IInv, TypeOK', NEW p \in Pods, BanReturns(p), UNCHANGED bans
    PROVE  /\ \A q \in Pods : Backed(failed'[q], bans')
           /\ \A q \in Pods : \A o \in job'[q].cands : ~Banned(failed'[q][HostOf[o]])
           /\ \A q \in Pods : job'[q].pc = "rename" => FileEnabled
<1> USE DEF IInv
<1>1. failed'[p] = InForce(WithBan(failed[p], p, bans)) /\ job'[p].cands = {} /\ job'[p].pc = "search"
  BY DEF BanReturns, TypeOK, Idle
<1>2. \A q \in Pods \ {p} : failed'[q] = failed[q] /\ job'[q] = job[q]
  BY DEF BanReturns, TypeOK
<1>3. Backed(InForce(WithBan(failed[p], p, bans)), bans)
  <2> SUFFICES ASSUME NEW h \in Hosts, Banned(InForce(WithBan(failed[p], p, bans))[h])
               PROVE  bans[h] # Unset /\ bans[h] <= InForce(WithBan(failed[p], p, bans))[h]
    BY DEF Backed
  <2>1. /\ InForce(WithBan(failed[p], p, bans))[h] = WithBan(failed[p], p, bans)[h]
        /\ Banned(WithBan(failed[p], p, bans)[h])
    BY DEF InForce, Banned
  <2>2. CASE h \in MachineStableID(p)
    <3>1. WithBan(failed[p], p, bans)[h] = bans[h]
      BY <2>2 DEF WithBan
    <3>2. bans[h] \in Ages /\ bans[h] # Unset
      BY <2>1, <3>1 DEF TypeOK, BanMaps, Banned
    <3> QED BY <2>1, <3>1, <3>2, AgesAre
  <2>3. CASE h \notin MachineStableID(p)
    BY <2>1, <2>3 DEF WithBan, BanInv, Backed
  <2> QED BY <2>2, <2>3
<1>4. \A q \in Pods : Backed(failed'[q], bans')
  BY <1>1, <1>2, <1>3 DEF BanInv
<1> QED BY <1>1, <1>2, <1>4 DEF BanInv, FileInv

\* A step of one pod keeps the invariant.
LEMMA PodStepBans ==
    ASSUME IInv, TypeOK', NEW p \in Pods, PodStep(p)
    PROVE  FileInv' /\ BanInv'
<1> USE DEF IInv
<1>1. CASE CreatePod(p)
  <2>1. failed'[p] = NoBans /\ job'[p].cands = {} /\ job'[p].pc = "search"
    BY <1>1 DEF CreatePod, TypeOK, Idle
  <2>2. \A q \in Pods \ {p} : failed'[q] = failed[q] /\ job'[q] = job[q]
    BY <1>1 DEF CreatePod, TypeOK
  <2>3. FileInv'
    BY <1>1, <2>1, <2>2 DEF CreatePod, FileInv, banVars
  <2>4. \A q \in Pods : Backed(failed'[q], bans)
    BY <2>1, <2>2, NothingBanned DEF BanInv, TypeOK
  <2>5. bans' = bans /\ file' = file /\ kept' = kept
    BY <1>1 DEF CreatePod, banVars
  <2>6. \A q \in Pods : \A o \in job'[q].cands : ~Banned(failed'[q][HostOf[o]])
    BY <2>1, <2>2 DEF BanInv
  <2> QED BY <2>3, <2>4, <2>5, <2>6 DEF BanInv
<1>2. CASE SelectAndProvisionMachine(p)
  <2>1. job'[p].cands = Filtered(GetRentalCandidates) /\ job'[p].pc = "rent"
    BY <1>2 DEF SelectAndProvisionMachine, TypeOK, Idle
  <2>2. \A q \in Pods \ {p} : job'[q] = job[q]
    BY <1>2 DEF SelectAndProvisionMachine, TypeOK
  <2>3. bans' = bans /\ file' = file /\ kept' = kept /\ failed' = failed
    BY <1>2 DEF SelectAndProvisionMachine, banVars
  <2>4. ASSUME NEW o \in job'[p].cands PROVE ~Banned(failed[p][HostOf[o]])
    <3>1. o \in Offers /\ ~Banned(bans[HostOf[o]])
      BY <2>1, <2>4 DEF Filtered, GetRentalCandidates
    <3>2. HostOf[o] \in Hosts
      BY <3>1, BansAssumption
    <3>3. bans \in BanMaps /\ failed[p] \in BanMaps /\ Backed(failed[p], bans)
      BY DEF TypeOK, BanInv
    <3> QED BY <3>1, <3>2, <3>3, BackedBan
  <2>5. FileInv'
    BY <2>1, <2>2, <2>3 DEF FileInv
  <2> QED BY <2>2, <2>3, <2>4, <2>5 DEF BanInv
<1>3. CASE ProvisionMachine(p) \/ OfferRefused(p)
  <2>1. job' \in [Pods -> Jobs] /\ job \in [Pods -> Jobs]
    BY DEF TypeOK, Jobs
  <2>2. job' = [job EXCEPT ![p] = job'[p]]
    BY <1>3, <2>1 DEF ProvisionMachine, OfferRefused
  <2>3. job'[p].cands \subseteq job[p].cands /\ job'[p].pc # "rename"
    <3>1. CASE ProvisionMachine(p)
      BY <2>1, <3>1 DEF ProvisionMachine, Jobs
    <3>2. CASE OfferRefused(p)
      BY <2>1, <3>2 DEF OfferRefused, Jobs
    <3> QED BY <1>3, <3>1, <3>2
  <2>4. UNCHANGED <<banVars, kept, failed>>
    BY <1>3 DEF ProvisionMachine, OfferRefused
  <2> QED BY <2>1, <2>2, <2>3, <2>4, BansUntouched
<1>4. CASE \/ MachineSeen(p) \/ StartupFails(p) \/ PodStarts(p)
           \/ AgentFails(p) \/ PodEnds(p) \/ PodRestarts(p)
  <2>1. job' \in [Pods -> Jobs] /\ job \in [Pods -> Jobs]
    BY DEF TypeOK, Jobs
  <2>2. job' = [job EXCEPT ![p] = job'[p]]
    BY <1>4, <2>1 DEF MachineSeen, StartupFails, PodStarts, AgentFails, PodEnds, PodRestarts
  <2>3. job'[p].cands \subseteq job[p].cands /\ job'[p].pc # "rename"
    BY <1>4, <2>1 DEF MachineSeen, StartupFails, PodStarts, AgentFails, PodEnds, PodRestarts, Idle, Jobs
  <2>4. UNCHANGED <<banVars, kept, failed>>
    BY <1>4 DEF MachineSeen, StartupFails, PodStarts, AgentFails, PodEnds, PodRestarts
  <2> QED BY <2>1, <2>2, <2>3, <2>4, BansUntouched
<1>5. CASE BanMachine(p)
  <2>1. ASSUME NEW m \in BanMaps, Backed(m, bans) PROVE Backed(m, bans')
    <3> SUFFICES ASSUME NEW h \in Hosts, Banned(m[h])
                 PROVE  bans'[h] # Unset /\ bans'[h] <= m[h]
      BY DEF Backed
    <3>1. m[h] \in Nat /\ bans[h] # Unset /\ bans[h] <= m[h]
      BY <2>1, AgesAre DEF Backed, Banned, BanMaps
    <3>2. bans'[h] = 0 \/ bans'[h] = bans[h]
      BY <1>5 DEF BanMachine, WithBan, JustNow
    <3> QED BY <3>1, <3>2, BansAssumption
  <2>2. file' = file /\ kept' = kept /\ failed' = failed
    BY <1>5 DEF BanMachine
  <2>3. \A q \in Pods : job'[q].cands = job[q].cands /\ (job'[q].pc = "rename" => job[q].pc = "rename")
    BY <1>5 DEF BanMachine, TypeOK
  <2>4. Backed(kept, bans') /\ \A q \in Pods : Backed(failed[q], bans')
    BY <2>1 DEF TypeOK, BanInv
  <2>5. FileInv'
    BY <2>2, <2>3 DEF FileInv
  <2> QED BY <2>2, <2>3, <2>4, <2>5 DEF BanInv
<1>6. CASE WriteTmp(p)
  <2>1. job' \in [Pods -> Jobs] /\ job \in [Pods -> Jobs]
    BY DEF TypeOK, Jobs
  <2>2. job' = [job EXCEPT ![p] = job'[p]] /\ job'[p].cands = job[p].cands
    BY <1>6, <2>1 DEF WriteTmp, Jobs
  <2> QED BY <1>6, <2>1, <2>2, BansUntouched DEF WriteTmp
<1>7. CASE RenameTmp(p)
  <2>1. bans' = bans /\ file' = bans /\ FileEnabled
    BY <1>7 DEF RenameTmp, FileInv
  <2>2. kept' = InForce(WithBan(kept, p, bans))
    BY <1>7 DEF RenameTmp
  <2>3. Backed(kept', bans)
    <3> SUFFICES ASSUME NEW h \in Hosts, Banned(kept'[h])
                 PROVE  bans[h] # Unset /\ bans[h] <= kept'[h]
      BY DEF Backed
    <3>1. kept'[h] = WithBan(kept, p, bans)[h]
      BY <2>2 DEF InForce, Banned
    <3>2. CASE h \in MachineStableID(p)
      <4>1. kept'[h] = bans[h] /\ bans[h] \in Ages /\ bans[h] # Unset
        BY <3>1, <3>2 DEF WithBan, TypeOK, BanMaps, Banned
      <4> QED BY <4>1, AgesAre
    <3>3. CASE h \notin MachineStableID(p)
      BY <3>1, <3>3 DEF WithBan, BanInv, Backed
    <3> QED BY <3>2, <3>3
  <2>4. BanReturns(p)
    BY <1>7 DEF RenameTmp
  <2>5. bans # Torn
    BY AgesAre DEF TypeOK
  <2>6. /\ \A q \in Pods : Backed(failed'[q], bans')
        /\ \A q \in Pods : \A o \in job'[q].cands : ~Banned(failed'[q][HostOf[o]])
        /\ \A q \in Pods : job'[q].pc = "rename" => FileEnabled
    BY <2>1, <2>4, ReturnedBans
  <2> QED BY <2>1, <2>3, <2>5, <2>6 DEF FileInv, BanInv
<1>8. CASE PersistReturnsEarly(p)
  <2>1. bans' = bans /\ file' = file /\ kept' = kept /\ BanReturns(p)
    BY <1>8 DEF PersistReturnsEarly
  <2>2. /\ \A q \in Pods : Backed(failed'[q], bans')
        /\ \A q \in Pods : \A o \in job'[q].cands : ~Banned(failed'[q][HostOf[o]])
        /\ \A q \in Pods : job'[q].pc = "rename" => FileEnabled
    BY <2>1, ReturnedBans
  <2> QED BY <2>1, <2>2 DEF FileInv, BanInv
<1> QED BY <1>1, <1>2, <1>3, <1>4, <1>5, <1>6, <1>7, <1>8 DEF PodStep

\* Time ages the map, the file and what they back alike; a restart brings the map back
\* from a file that is whole.
LEMMA StepBans == IInv /\ [Next]_vars => IInv'
<1> SUFFICES ASSUME IInv, [Next]_vars PROVE IInv'
  OBVIOUS
<1> USE DEF IInv
<1>1. TypeOK'
  BY StepType
<1>2. ASSUME NEW p \in Pods, PodStep(p) PROVE FileInv' /\ BanInv'
  BY <1>1, <1>2, PodStepBans
<1>3. CASE Tick
  <2>1. file' = Older(file) /\ bans' = Older(bans) /\ kept' = InForce(Older(kept)) /\ job' = job
    BY <1>3 DEF Tick, FileInv
  <2>2. \A p \in Pods : failed'[p] = InForce(Older(failed[p]))
    BY <1>3 DEF Tick
  <2>3. file \in BanMaps /\ bans \in BanMaps /\ kept \in BanMaps /\ \A p \in Pods : failed[p] \in BanMaps
    BY DEF TypeOK, FileInv
  <2>4. FileInv'
    <3>1. file' # Torn
      BY <2>1, <2>3, MapsAre, AgesAre
    <3>2. InForce(Older(NoBans)) = NoBans
      BY DEF InForce, Older, NoBans, Banned
    <3> QED BY <2>1, <3>1, <3>2 DEF FileInv
  <2>5. Backed(kept', file') /\ Backed(kept', bans') /\ \A p \in Pods : Backed(failed'[p], bans')
    BY <2>1, <2>2, <2>3, BackedOlder DEF BanInv
  <2>6. ASSUME NEW p \in Pods, NEW h \in Hosts, Banned(failed'[p][h]) PROVE Banned(failed[p][h])
    <3>1. failed[p][h] \in Ages
      BY <2>3 DEF BanMaps
    <3>2. Banned(Older(failed[p])[h])
      BY <2>2, <2>6, ZenonT(60) DEF InForce, Banned
    <3> QED BY <3>1, <3>2, AgesAre DEF Older, Banned
  <2>7. \A p \in Pods : \A o \in job[p].cands : HostOf[o] \in Hosts
    BY BansAssumption DEF TypeOK
  <2>8. \A p \in Pods : \A o \in job'[p].cands : ~Banned(failed'[p][HostOf[o]])
    BY <2>1, <2>6, <2>7 DEF BanInv
  <2> QED BY <1>1, <2>4, <2>5, <2>8 DEF BanInv
<1>4. CASE Restart
  <2>1. file' = file /\ kept' = kept /\ \A p \in Pods : failed'[p] = NoBans /\ job'[p] = Idle
    BY <1>4 DEF Restart
  <2>2. FileInv'
    BY <2>1 DEF FileInv, Idle
  <2>3. Backed(kept, bans')
    <3>1. CASE FileEnabled
      BY <1>4, <3>1 DEF Restart, LoadMachineBansFromFile, FileInv, BanInv
    <3>2. CASE ~FileEnabled
      BY <1>1, <3>2, NothingBanned DEF FileInv, TypeOK
    <3> QED BY <3>1, <3>2
  <2>4. \A p \in Pods : Backed(failed'[p], bans')
    BY <1>1, <2>1, NothingBanned DEF TypeOK
  <2>5. \A p \in Pods : job'[p].cands = {}
    BY <2>1 DEF Idle
  <2>6. BanInv'
    BY <2>1, <2>3, <2>4, <2>5 DEF BanInv
  <2> QED BY <1>1, <2>2, <2>6
<1>5. CASE UNCHANGED vars
  BY <1>1, <1>5 DEF vars, FileInv, BanInv, Backed
<1> QED BY <1>1, <1>2, <1>3, <1>4, <1>5 DEF Next

\* A saved ban survives restarts, later saves that fail and other pods' bans until it
\* expires (BanMachine, LoadMachineBansFromFile).
THEOREM SavedBansKept == Spec => []BanKept
<1>1. Init => IInv
  BY InitBans
<1>2. IInv /\ [Next]_vars => IInv'
  BY StepBans
<1>3. IInv => BanKept
  BY DEF IInv, BanInv, Backed, BanKept
<1> QED BY <1>1, <1>2, <1>3, PTL DEF Spec

\* A pod that has banned a host does not rent from it again while the ban is in force,
\* whatever offer the host makes (SelectAndProvisionMachine).
THEOREM PodsRetryElsewhere == Spec => RetriesElsewhere
<1>1. Init => IInv
  BY InitBans
<1>2. IInv /\ [Next]_vars => IInv'
  BY StepBans
<1>3. IInv /\ [Next]_vars =>
        [\A p \in Pods : ProvisionMachine(p) => ~Banned(failed[p][HostOf[job'[p].offer]])]_vars
  <2> SUFFICES ASSUME IInv, NEW p \in Pods, ProvisionMachine(p)
               PROVE  ~Banned(failed[p][HostOf[job'[p].offer]])
    OBVIOUS
  <2>1. PICK o \in Cheapest(job[p].cands) :
            job' = [job EXCEPT ![p] = [@ EXCEPT !.pc = "wait", !.offer = o, !.cands = {}]]
    BY DEF ProvisionMachine
  <2>2. job'[p].offer = o /\ o \in job[p].cands
    BY <2>1 DEF IInv, TypeOK, Cheapest
  <2> QED BY <2>2 DEF IInv, BanInv
<1> QED BY <1>1, <1>2, <1>3, PTL DEF Spec, RetriesElsewhere
=============================================================================
