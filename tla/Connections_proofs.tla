-------------------------- MODULE Connections_proofs --------------------------
(***************************************************************************)
(* What is proved of the sessions and of the links holds of a server that has  *)
(* both.                                                                   *)
(***************************************************************************)
EXTENDS Connections, HotspotLogin_proofs, ObpLink_proofs

(* A step of the server is one of either part and leaves the other alone.          *)
LEMMA ServerHasBoth == ConnectionsSpec => Spec /\ LinkSpec
<1>1. ConnectionsInit => Init /\ LinkInit
  BY DEF ConnectionsInit
<1>2. [ConnectionsNext]_<<vars, linkVars>> => [Next]_vars /\ [LinkNext]_linkVars
  BY DEF ConnectionsNext
<1> QED BY <1>1, <1>2, PTL DEF ConnectionsSpec, Spec, LinkSpec

(* Everything safe that the connections run checks: the tables of both parts keep   *)
(* their shape, no end of a link is downgraded, leases are those PortLease allows    *)
(* and the two books of the proxy agree, only refused streams are quenched, and a    *)
(* link that is up rides out lost and repeated packets.                         *)
THEOREM ConnectionsSafe ==
  ConnectionsSpec => /\ [](TypeOK /\ LinkTypeOK /\ LeasesTracked /\ QuenchHonest)
                     /\ LeaseSpec
                     /\ LinkRidesOut
  BY ServerHasBoth, LoginTypes, LinkTypes, BooksAgree, QuenchesHonest, LoginImplementsLease,
     LinkRides, PTL

(* A hotspot of that server stays in service over a lost or repeated packet, if       *)
(* clients and proxy allow three silent periods.                                *)
THEOREM ConnectionsRide ==
  ASSUME MaxMissed >= 3, Timeout >= 3
  PROVE  ConnectionsSpec => RidesOut
<1>1. Spec => RidesOut
  BY SessionRides
<1> QED BY <1>1, ServerHasBoth, PTL
=============================================================================
