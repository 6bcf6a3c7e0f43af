---------------------------- MODULE MachineBans ----------------------------
(***************************************************************************)
(* The machine bans of the vast.ai client (cloudprovider/vastai/bans.go    *)
(* and client.go) as the provisioning loop of internal/provider/anex uses  *)
(* them.  Several pods are provisioned at once; each searches the market,  *)
(* drops the offers of banned hosts, rents the cheapest one left and waits *)
(* for it.  A host whose machine does not start is banned, by its stable   *)
(* ID, in a map under bansMu, and the map is saved to a file that the next *)
(* start of the virtual kubelet loads.                                     *)
(*                                                                         *)
(* A ban time is kept as an age: Tick makes every age one older, up to one *)
(* past the duration, after which older and oldest are the same.           *)
(***************************************************************************)
EXTENDS Naturals, FiniteSets

CONSTANTS Pods,        \* the pods that are provisioned concurrently
          Hosts,       \* stable IDs of the hosts on the market
          Offers,      \* offer IDs, 1..n, cheapest first (sortCandidates)
          HostOf,      \* [Offers -> Hosts]: a host may have several offers
          FileEnabled, \* machineBansStore.localFile.enable
          Timeout,     \* machineBansStore.localFile.timeout, in ticks
          MaxCrashes,  \* bound: restarts of the virtual kubelet
          NoPod,       \* nobody holds bansMu
          Unset,       \* a host the map has no entry for
          Torn         \* a file cut off in the middle of a write

ASSUME BansAssumption ==
    /\ Offers \subseteq Nat /\ IsFiniteSet(Offers)
    /\ HostOf \in [Offers -> Hosts]
    /\ 0 \notin Offers
    /\ NoPod \notin Pods
    /\ Unset \notin Nat /\ Torn \notin [Hosts -> Nat \cup {Unset}]
    /\ FileEnabled \in BOOLEAN
    /\ Timeout \in Nat /\ MaxCrashes \in Nat

VARIABLES job,      \* per pod: where its provisioning is, and what it holds
          bans,     \* Client.machineBans
          mu,       \* who holds Client.bansMu
          file,     \* the bans file: a map, or Torn
          crashes,  \* restarts so far
          kept,     \* history: bans that were saved, and BanMachine returned
          failed    \* history: per pod, the hosts it has banned

banVars == <<bans, mu, file>>
vars == <<job, bans, mu, file, crashes, kept, failed>>

\* Seconds in the code; 0 when the file is disabled, whatever the timeout.
GetMachineBanDuration == IF FileEnabled THEN Timeout ELSE 0

Oldest == GetMachineBanDuration + 1
Ages == (0..Oldest) \cup {Unset}
NoBans == [h \in Hosts |-> Unset]

Older(m) == [h \in Hosts |-> IF m[h] = Unset THEN Unset
                                ELSE IF m[h] < Oldest THEN m[h] + 1 ELSE Oldest]

\* A duration of 0 never lets a ban expire.
Banned(age) == /\ age # Unset
               /\ GetMachineBanDuration = 0 \/ age <= GetMachineBanDuration

\* The histories forget a ban that has expired.
InForce(m) == [h \in Hosts |-> IF Banned(m[h]) THEN m[h] ELSE Unset]

-----------------------------------------------------------------------------
(* The search and the filter: SelectAndProvisionMachine.                   *)

Idle == [pc |-> "idle", cands |-> {}, offer |-> 0, seen |-> FALSE]

\* Offers someone else rented are no longer on the market.
Rented == {job[p].offer : p \in Pods} \ {0}
GetRentalCandidates == Offers \ Rented

\* mutants: the comparison the wrong way round; bans that never expire
FilteredEarly(offers) ==
    {o \in offers : \/ bans[HostOf[o]] = Unset
                    \/ GetMachineBanDuration > 0 /\ bans[HostOf[o]] < GetMachineBanDuration}
FilteredForever(offers) == {o \in offers : bans[HostOf[o]] = Unset}

Filtered(offers) == {o \in offers : ~Banned(bans[HostOf[o]])}

CreatePod(p) ==
    /\ job[p].pc = "idle"
    /\ job' = [job EXCEPT ![p] = [Idle EXCEPT !.pc = "search"]]
    /\ failed' = [failed EXCEPT ![p] = NoBans]
    /\ UNCHANGED <<banVars, crashes, kept>>

\* An empty list is an error, and the search is repeated every minute.
SelectAndProvisionMachine(p) ==
    /\ job[p].pc = "search"
    /\ mu = NoPod
    /\ Filtered(GetRentalCandidates) # {}
    /\ job' = [job EXCEPT ![p] = [Idle EXCEPT !.pc = "rent",
                                              !.cands = Filtered(GetRentalCandidates)]]
    /\ UNCHANGED <<banVars, crashes, kept, failed>>

Cheapest(cands) == {o \in cands : \A x \in cands : o <= x}

ProvisionMachine(p) ==
    /\ job[p].pc = "rent"
    /\ \E o \in Cheapest(job[p].cands) \ Rented :
           job' = [job EXCEPT ![p].pc = "wait", ![p].offer = o, ![p].cands = {}]
    /\ UNCHANGED <<banVars, crashes, kept, failed>>

\* Status 400, an error or success = false: the next candidate, or, with none
\* left, an error that starts a new search.
OfferRefused(p) ==
    LET rest == job[p].cands \ Cheapest(job[p].cands) IN
    /\ job[p].pc = "rent"
    /\ job' = [job EXCEPT ![p].cands = rest,
                          ![p].pc = IF rest = {} THEN "search" ELSE "rent"]
    /\ UNCHANGED <<banVars, crashes, kept, failed>>

-----------------------------------------------------------------------------
(* The wait for the machine, and what comes of it.                         *)

\* GetMachine answers, and SetMachine records the stable ID of the host.
MachineSeen(p) ==
    /\ job[p].pc = "wait" /\ ~job[p].seen
    /\ job' = [job EXCEPT ![p].seen = TRUE]
    /\ UNCHANGED <<banVars, crashes, kept, failed>>

\* The state is Failed, or the start-up timeout is over: the host is banned.
StartupFails(p) ==
    /\ job[p].pc = "wait"
    /\ job' = [job EXCEPT ![p].pc = "ban"]
    /\ UNCHANGED <<banVars, crashes, kept, failed>>

\* The agent does not answer in time, or refuses a push or the command:
\* ErrMachineFailed, without a ban.  The next attempt destroys the machine.
AgentFails(p) ==
    /\ job[p].pc = "wait" /\ job[p].seen
    /\ job' = [job EXCEPT ![p] = [Idle EXCEPT !.pc = "search"]]
    /\ UNCHANGED <<banVars, crashes, kept, failed>>

PodStarts(p) ==
    /\ job[p].pc = "wait" /\ job[p].seen
    /\ job' = [job EXCEPT ![p].pc = "running"]
    /\ UNCHANGED <<banVars, crashes, kept, failed>>

\* The container is restarted on the machine it has (restartOnly): the same
\* wait again; when the cloud refuses the restart, a new machine is searched.
PodRestarts(p) ==
    /\ job[p].pc = "running"
    /\ \E next \in {[job[p] EXCEPT !.pc = "wait"], [Idle EXCEPT !.pc = "search"]} :
           job' = [job EXCEPT ![p] = next]
    /\ UNCHANGED <<banVars, crashes, kept, failed>>

\* The pod ends, is deleted, or its context is cancelled: no ban either.
PodEnds(p) ==
    /\ job[p].pc \in {"search", "rent", "wait", "running"}
    /\ job' = [job EXCEPT ![p] = Idle]
    /\ UNCHANGED <<banVars, crashes, kept, failed>>

-----------------------------------------------------------------------------
(* BanMachine and persistMachineBansToFile, under bansMu.                  *)

\* The hosts that MachineStableID names: none when GetMachine never answered,
\* for the ban of the empty ID matches no offer.
MachineStableID(p) == IF job[p].seen THEN {HostOf[job[p].offer]} ELSE {}

JustNow == [h \in Hosts |-> 0]
\* m, with the pod's ban as old as times says
WithBan(m, p, times) == [h \in Hosts |-> IF h \in MachineStableID(p) THEN times[h] ELSE m[h]]

\* BanMachine returns; the machine is destroyed and the loop tries again.
BanReturns(p) ==
    /\ mu' = NoPod
    /\ failed' = [failed EXCEPT ![p] = InForce(WithBan(@, p, bans))]
    /\ job' = [job EXCEPT ![p] = [Idle EXCEPT !.pc = "search"]]

\* mutant: the map is changed and saved without bansMu
BanMachineUnlocked(p) ==
    /\ job[p].pc = "ban"
    /\ bans' = WithBan(bans, p, JustNow)
    /\ job' = [job EXCEPT ![p].pc = "write"]
    /\ UNCHANGED <<mu, file, crashes, kept, failed>>

BanMachine(p) ==
    /\ job[p].pc = "ban"
    /\ mu = NoPod
    /\ bans' = WithBan(bans, p, JustNow)
    /\ mu' = p
    /\ job' = [job EXCEPT ![p].pc = "write"]
    /\ UNCHANGED <<file, crashes, kept, failed>>

\* mutant: the bans file itself is overwritten
WriteFile(p) ==
    /\ FileEnabled
    /\ job[p].pc = "write"
    /\ file' = Torn
    /\ job' = [job EXCEPT ![p].pc = "rename"]
    /\ UNCHANGED <<bans, mu, crashes, kept, failed>>

\* The map goes to path + ".tmp", which nobody reads.
WriteTmp(p) ==
    /\ FileEnabled
    /\ job[p].pc = "write"
    /\ job' = [job EXCEPT ![p].pc = "rename"]
    /\ UNCHANGED <<banVars, crashes, kept, failed>>

RenameTmp(p) ==
    /\ job[p].pc = "rename"
    /\ file' = bans
    /\ kept' = InForce(WithBan(kept, p, bans))
    /\ BanReturns(p)
    /\ UNCHANGED <<bans, crashes>>

\* Saving is disabled, or a step of it fails; BanMachine drops the error and
\* the ban is in memory only.
PersistReturnsEarly(p) ==
    /\ job[p].pc \in {"write", "rename"}
    /\ BanReturns(p)
    /\ UNCHANGED <<bans, file, crashes, kept>>

-----------------------------------------------------------------------------
(* Time, and restarts of the virtual kubelet.                              *)

Tick ==
    /\ bans' = Older(bans)
    /\ file' = IF file = Torn THEN file ELSE Older(file)
    /\ kept' = InForce(Older(kept))
    /\ failed' = [p \in Pods |-> InForce(Older(failed[p]))]
    /\ UNCHANGED <<job, mu, crashes>>

\* A file that is no JSON is an error that is only logged.
LoadMachineBansFromFile ==
    IF FileEnabled /\ file # Torn THEN file ELSE NoBans

Restart ==
    /\ crashes < MaxCrashes
    /\ crashes' = crashes + 1
    /\ bans' = LoadMachineBansFromFile
    /\ job' = [p \in Pods |-> Idle]
    /\ mu' = NoPod
    /\ failed' = [p \in Pods |-> NoBans]
    /\ UNCHANGED <<file, kept>>

Init ==
    /\ job = [p \in Pods |-> Idle]
    /\ bans = NoBans /\ mu = NoPod
    /\ file = NoBans
    /\ crashes = 0
    /\ kept = NoBans /\ failed = [p \in Pods |-> NoBans]

PodStep(p) ==
    \/ CreatePod(p) \/ SelectAndProvisionMachine(p)
    \/ ProvisionMachine(p) \/ OfferRefused(p)
    \/ MachineSeen(p) \/ StartupFails(p) \/ AgentFails(p)
    \/ PodStarts(p) \/ PodRestarts(p) \/ PodEnds(p)
    \/ BanMachine(p)
    \/ WriteTmp(p) \/ RenameTmp(p) \/ PersistReturnsEarly(p)

Next == (\E p \in Pods : PodStep(p)) \/ Tick \/ Restart

Spec == Init /\ [][Next]_vars

\* Time passes; nothing else is assumed to happen.
FairSpec == Spec /\ WF_vars(Tick)

-----------------------------------------------------------------------------
(* Properties.                                                             *)

BanMaps == [Hosts -> Ages]
Saving == {"write", "rename"}

(* Types; and the map is saved, as persistMachineBansToFile asks of its    *)
(* caller, with bansMu held, by one pod at a time.                         *)
TypeOK ==
    /\ job \in [Pods -> [pc : {"idle", "search", "rent", "wait", "running", "ban"} \cup Saving,
                         cands : SUBSET Offers, offer : Offers \cup {0}, seen : BOOLEAN]]
    /\ bans \in BanMaps /\ file \in BanMaps \cup {Torn}
    /\ mu \in Pods \cup {NoPod}
    /\ \A p \in Pods : mu = p <=> job[p].pc \in Saving
    /\ kept \in BanMaps /\ failed \in [Pods -> BanMaps]
    /\ crashes \in 0..MaxCrashes

(* A ban that was saved counts until it expires: a restart of the virtual  *)
(* kubelet at any point of a later save, a save that fails half-way, and   *)
(* the bans of other pods do not lose it or make it older.                 *)
BanKept ==
    \A h \in Hosts : Banned(kept[h]) => bans[h] # Unset /\ bans[h] <= kept[h]

(* "Machine failed to start, will retry with different machine"            *)
(* (provisioning.go:352): until the ban expires, a pod does not rent any   *)
(* offer of a host it has banned, saved or not.                            *)
RetriesElsewhere ==
    [][\A p \in Pods : ProvisionMachine(p) => ~Banned(failed[p][HostOf[job'[p].offer]])]_vars

(* "temporarily banned" (docs, running-workloads): whatever the pods still *)
(* do with it, a host that is filtered out is one day let through again.   *)
BansExpire == \A o \in Offers : o \notin Filtered(Offers) ~> o \in Filtered(Offers)

(* "should a machine fail during provisioning [...] it is banned"          *)
(* (docs, configuration): the attempt on a machine that did not come up    *)
(* ends with its host banned.                                              *)
FailureBans ==
    [][\A p \in Pods : job[p].offer # 0 /\ job[p].pc # "running" /\ job'[p].pc = "search"
                        => Banned(bans'[HostOf[job[p].offer]])]_vars

(* No host is rented while its ban is in force.                            *)
NoBannedRent ==
    [][\A p \in Pods : ProvisionMachine(p) => ~Banned(bans[HostOf[job'[p].offer]])]_vars
=============================================================================
