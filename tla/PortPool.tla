------------------------------ MODULE PortPool ------------------------------
(***************************************************************************)
(* What the gateway expects of its port allocator, with no data structure  *)
(* in sight: every owner holds a set of ports, a port handed out is taken   *)
(* from the ports nobody holds, and only its holder gives it back.          *)
(***************************************************************************)
CONSTANTS Owners, Ports

VARIABLE held   \* held[o] is the set of ports owner o holds

Unheld == Ports \ UNION {held[o] : o \in Owners}

Init == held = [o \in Owners |-> {}]

Acquire(o, p) ==
    /\ p \in Unheld
    /\ held' = [held EXCEPT ![o] = held[o] \cup {p}]

GiveBack(o, ps) ==
    /\ ps \subseteq held[o]
    /\ held' = [held EXCEPT ![o] = held[o] \ ps]

Next == \E o \in Owners :
          \/ \E p \in Ports : Acquire(o, p)
          \/ \E ps \in SUBSET Ports : GiveBack(o, ps)

Spec == Init /\ [][Next]_held

TypeOK == held \in [Owners -> SUBSET Ports]

\* No two owners ever hold the same port: the promise a VirtualService's
\* gateway port rests on (allocator.go, Allocate).
Exclusive == \A o1, o2 \in Owners : o1 # o2 => held[o1] \cap held[o2] = {}
=============================================================================
