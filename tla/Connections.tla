----------------------------- MODULE Connections -----------------------------
(***************************************************************************)
(* The connections of a server over a network it cannot trust: the sessions   *)
(* of hotspots behind the proxy (HotspotLogin) and the links to other servers  *)
(* (ObpLink).  They share no state; the reactor runs them side by side.       *)
(***************************************************************************)
EXTENDS HotspotLogin, ObpLink

(* As they share no state it is enough to look at one at a time.               *)
ConnectionsInit == Init /\ LinkInit /\ (scene.clients = {} \/ ~pair.enhanced)

ConnectionsNext ==
    \/ Next /\ UNCHANGED linkVars
    \/ LinkNext /\ UNCHANGED vars

(* Loops are rescheduled and packets that are not lost arrive.                 *)
ConnectionsSpec ==
    /\ ConnectionsInit /\ [][ConnectionsNext]_<<vars, linkVars>>
    /\ WF_vars(System) /\ WF_linkVars(LinkSystem)
=============================================================================
