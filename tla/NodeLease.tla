------------------------------- MODULE NodeLease ------------------------------
(***************************************************************************)
(* What the cluster-wide lock promises (cmd/kucero/lock.go), without the   *)
(* annotation, the process and the work: a lease that a node is granted    *)
(* when nobody has a running one, under which it goes inside, and which    *)
(* ends when the node gives it back, being outside, or when its time is    *)
(* up, wherever the node is. RotationLoop implements it.                   *)
(***************************************************************************)
CONSTANTS Nodes, NoNode

VARIABLES
    holder,     \* the node with a running lease, or NoNode
    inside,     \* the nodes that cordon, drain, update and rotate
    overdue     \* nodes whose time was up before they gave the lease back

vars == <<holder, inside, overdue>>

Init == holder = NoNode /\ inside = {} /\ overdue = {}

\* The node may not learn of it, and stay outside.
Grant(n) ==
    /\ holder = NoNode
    /\ holder' = n
    /\ inside' \in {inside, inside \cup {n}}
    /\ overdue' = overdue \ {n}

\* A node that has the lease already.
Enter(n) ==
    /\ holder = n
    /\ inside' = inside \cup {n}
    /\ UNCHANGED <<holder, overdue>>

\* The work is over, or the process dies; the lease goes on.
Leave(n) ==
    /\ inside' = inside \ {n}
    /\ UNCHANGED <<holder, overdue>>

GiveBack(n) ==
    /\ holder = n /\ n \notin inside
    /\ holder' = NoNode
    /\ overdue' = overdue \ {n}
    /\ UNCHANGED inside

\* Too late: the lease may be another node's by now.
GiveBackLate(n) ==
    /\ n \in overdue \ inside
    /\ overdue' = overdue \ {n}
    /\ UNCHANGED <<holder, inside>>

Lapse(n) ==
    /\ holder = n
    /\ holder' = NoNode
    /\ overdue' = overdue \cup {n}
    /\ UNCHANGED inside

Next ==
    \E n \in Nodes :
        Grant(n) \/ Enter(n) \/ Leave(n) \/ GiveBack(n) \/ GiveBackLate(n) \/ Lapse(n)

Spec == Init /\ [][Next]_vars
===============================================================================
