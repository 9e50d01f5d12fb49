------------------------------ MODULE PortLease ------------------------------
(***************************************************************************)
(* What the hotspot proxy promises the systems behind it.  Every port of the  *)
(* server is a system of its own that has room for one hotspot.  The proxy    *)
(* leases a port to a hotspot, at most one port to each, and a system only    *)
(* ever admits the hotspot that holds its port; a port may well be leased to   *)
(* a hotspot while the system behind it still serves the one before.          *)
(***************************************************************************)
CONSTANTS Clients, Ports, Free

VARIABLES holder, serving

Init == holder = [p \in Ports |-> Free] /\ serving = [p \in Ports |-> Free]

Grant(p, c) ==
    /\ holder[p] = Free
    /\ \A q \in Ports : holder[q] # c
    /\ holder' = [holder EXCEPT ![p] = c]
    /\ UNCHANGED serving

Admit(p, c) ==
    /\ holder[p] = c /\ serving[p] = Free
    /\ serving' = [serving EXCEPT ![p] = c]
    /\ UNCHANGED holder

(* Ports are given back and sessions end, one or all of them.                  *)
Revoke ==
    /\ \E P \in SUBSET Ports : holder' = [p \in Ports |-> IF p \in P THEN Free ELSE holder[p]]
    /\ UNCHANGED serving

End ==
    /\ \E P \in SUBSET Ports : serving' = [p \in Ports |-> IF p \in P THEN Free ELSE serving[p]]
    /\ UNCHANGED holder

Next == Revoke \/ End \/ \E p \in Ports, c \in Clients : Grant(p, c) \/ Admit(p, c)

Spec == Init /\ [][Next]_<<holder, serving>>
=============================================================================
