--------------------------- MODULE HAProxyManager ---------------------------
(***************************************************************************)
(* internal/gateway/haproxy/manager.go.  The Manager remembers the listeners *)
(* of every owner and writes them to HAProxy through the Data Plane API, one *)
(* transaction per listener.  Its mutex is held for the whole of Configure   *)
(* and Remove and nobody else writes to HAProxy, so each is one action whose *)
(* parameters say which transactions took effect.                            *)
(*                                                                           *)
(* A listener is named after its owner and service port; it binds a gateway  *)
(* port and forwards to a set of servers.                                    *)
(***************************************************************************)
EXTENDS Naturals, PortAllocator

CONSTANTS
    SvcPorts,      \* the ports a VirtualService spec can list
    ProxyFaults    \* TRUE when Data Plane API calls may fail

VARIABLES
    listeners,     \* Manager.listeners: owner -> (service port -> gateway port)
    proxy          \* HAProxy itself: owner -> (service port -> [port, servers])

haproxyVars == <<listeners, proxy>>

NoEntries == [s \in {} |-> 0]   \* the empty map

NewManager ==
    /\ listeners = [o \in Owners |-> NoEntries]
    /\ proxy = [o \in Owners |-> NoEntries]

\* Errors of the calls that create, update and delete servers are logged and the
\* transaction goes on: an old server may survive, a new one may be missing.
ServersAfter(old, new) ==
    IF ProxyFaults THEN {ss \in SUBSET (old \cup new) : old \cap new \subseteq ss}
                   ELSE {new}

ServersOf(o, s) == IF s \in DOMAIN proxy[o] THEN proxy[o][s].servers ELSE {}

\* One transaction per listener: those of `done` were committed.  A transaction that
\* cannot be started, or fails before its commit, is abandoned and the next listener
\* is tried (the `continue`s): only a failed commit makes the call fail.
Transactions(all, done, ok) ==
    /\ done \subseteq all
    /\ ProxyFaults \/ (ok /\ done = all)
    /\ ~ok => done # all

\* The frontend, its bind and its backend, created or updated in one transaction.
Frontend(port, servers) == [port |-> port, servers |-> servers]

\* Frontends of service ports the owner no longer lists are not looked at.
applyConfiguration(o, ports, servers, applied, ok) ==
    /\ Transactions(DOMAIN ports, applied, ok)
    /\ \E ss \in [applied -> SUBSET UNION ({servers} \cup {ServersOf(o, s) : s \in applied})] :
         /\ \A s \in applied : ss[s] \in ServersAfter(ServersOf(o, s), servers)
         /\ proxy' = [proxy EXCEPT ![o] =
                        [s \in DOMAIN proxy[o] \cup applied |->
                           IF s \in applied THEN Frontend(ports[s], ss[s]) ELSE proxy[o][s]]]

\* A Configure that does not record what it applied.
ConfigureUnrecorded(o, ports, servers, applied, ok) ==
    /\ UNCHANGED listeners
    /\ applyConfiguration(o, ports, servers, applied, ok)

Configure(o, ports, servers, applied, ok) ==
    /\ listeners' = [listeners EXCEPT ![o] = ports]
    /\ applyConfiguration(o, ports, servers, applied, ok)

\* The frontends of the remembered listeners are deleted, with their backends.
removeConfiguration(o, removed, ok) ==
    /\ Transactions(DOMAIN listeners[o], removed, ok)
    /\ proxy' = [proxy EXCEPT ![o] = [s \in DOMAIN @ \ removed |-> @[s]]]

\* An unknown owner has no listeners, and a failed commit leaves the owner in the map.
Remove(o, removed, ok) ==
    /\ removeConfiguration(o, removed, ok)
    /\ listeners' = IF ok THEN [listeners EXCEPT ![o] = NoEntries] ELSE listeners

\* The controller's process starts again: its memory is empty.  HAProxy runs in a
\* container of its own and may have kept its configuration or restarted too.
RestartManager ==
    /\ listeners' = [o \in Owners |-> NoEntries]
    /\ proxy' \in {proxy, [o \in Owners |-> NoEntries]}
=============================================================================
