------------------------------- MODULE UnitData -------------------------------
(***************************************************************************)
(* Unit data (text messages, positions) and the subscriber map, composed      *)
(* with the voice streams of LoopControl on the same stream tables and slots. *)
(*                                                                         *)
(* A data packet is for one radio.  It goes to every other OpenBridge link,   *)
(* and to the system on which that radio was last heard (SUB_MAP), or else to  *)
(* each system where a hotspot of the same owner is logged in.  Which copy of  *)
(* a data stream goes on is decided by a rule of its own: the link with the    *)
(* earliest stamp, for as long as it keeps its record.                       *)
(***************************************************************************)
EXTENDS LoopControl

(* The other streams carry unit data.                                        *)
DataStreams == Streams \ VoiceStreams

CONSTANTS
    Dst,           \* DataStreams -> the radio they are for
    Peers,         \* hotspots
    PeerOf,        \* Streams -> the hotspot they come from, where they come from one
    OwnHotspot,    \* radios -> hotspots whose id starts with that of the radio
    NoPeer,
    DayTO          \* 24 h: an entry of SUB_MAP is forgotten

ASSUME DataAssumption ==
    /\ DataStreams \subseteq Streams
    /\ DOMAIN Dst = DataStreams
    /\ PeerOf \in [Streams -> Peers] /\ NoPeer \notin Peers
    /\ DOMAIN OwnHotspot = {Dst[d] : d \in DataStreams}
    /\ \A r \in DOMAIN OwnHotspot : OwnHotspot[r] \subseteq Peers
    /\ \A n \in Networks : n.moves \subseteq Peers
    /\ DayTO \in Nat

VARIABLES
    sub,           \* SUB_MAP, for the radios that data is for
    on,            \* pairs <<system, hotspot>>: PEERS entries in state YES
    joining        \* those still in their login exchange

allVars == <<vars, sub, on, joining>>

Called    == {Dst[d] : d \in DataStreams}
DayCap    == DayTO + 1
NoEntry   == [at |-> NoStream, peer |-> NoPeer, age |-> 0]

DataInit ==
    /\ Init
    /\ sub = [r \in Called |-> NoEntry]
    /\ on = {<<e[1], PeerOf[e[2]]>> : e \in {x \in net.hears : x[1] \in HBPs}}
    /\ joining = {}

-----------------------------------------------------------------------------
(* Every packet from a hotspot, whether or not it goes on, enters its radio.    *)
Heard(h, s) ==
    sub' = IF Src[s] \in Called
           THEN [sub EXCEPT ![Src[s]] = [at |-> h, peer |-> PeerOf[s], age |-> 0]] ELSE sub

(* Mutant: the departure of a hotspot clears no entries.                      *)
ForgottenNever(h, q) == sub

(* Entries of the system and of the hotspot, wherever it was heard.            *)
Forgotten(h, q) ==
    [r \in Called |-> IF sub[r].at = h \/ sub[r].peer = q THEN NoEntry ELSE sub[r]]

(* A hotspot that may move between systems asks a system for a login, from which  *)
(* moment it is in PEERS.                                                     *)
PeerAsks(h, q) ==
    /\ q \in net.moves /\ <<h, q>> \notin on \cup joining
    /\ joining' = joining \cup {<<h, q>>}
    /\ UNCHANGED <<vars, sub, on>>

(* Its configuration completes the login ...                                  *)
PeerLogin(h, q) ==
    /\ <<h, q>> \in joining
    /\ on' = on \cup {<<h, q>>}
    /\ joining' = joining \ {<<h, q>>}
    /\ sub' = Forgotten(h, q)
    /\ UNCHANGED vars

(* ... or the exchange fails: a wrong password leaves the map as it is, a wrong   *)
(* callsign or silence does not.                                               *)
PeerRefused(h, q) ==
    /\ <<h, q>> \in joining
    /\ joining' = joining \ {<<h, q>>}
    /\ sub' \in {sub, Forgotten(h, q)}
    /\ UNCHANGED <<vars, on>>

(* It leaves: by closing its session, or by a session that is no longer pinged.   *)
PeerLeaves(h, q) ==
    /\ q \in net.moves /\ <<h, q>> \in on
    /\ sub' = Forgotten(h, q)
    /\ on' = on \ {<<h, q>>}
    /\ UNCHANGED <<vars, joining>>

SubMapTrimmer ==
    /\ sub' = [r \in Called |-> IF sub[r].age > DayTO THEN NoEntry ELSE sub[r]]
    /\ UNCHANGED <<vars, on, joining>>

-----------------------------------------------------------------------------
(* Where a data packet goes.                                                *)

(* An enhanced link that has gone silent is left out; one that was never heard   *)
(* is not, and a refusal does not count.                                     *)
DataLinks(i) ==
    {o \in OBPs \ {i} : ~(o \in net.enhanced /\ bcka[o] # Never /\ bcka[o] > QuietTO)}

DataStubs(R, i, d) ==
    [o \in OBPs |->
        IF o \notin DataLinks(i) THEN R[o]
        ELSE [R[o] EXCEPT ![d] = IF @ = NoRec THEN [NoRec EXCEPT !.by = i]
                                 ELSE [@ EXCEPT !.last = 0]]]

Idle(h) == IsVterm(slot[h].rxType) /\ IsVterm(slot[h].txType) /\ slot[h].txAge > Hang

(* Systems that are sent a packet for radio r now; half a login will do for a      *)
(* hotspot of the same owner.                                                 *)
DataLegs(r) ==
    {h \in HBPs :
        /\ Idle(h)
        /\ IF sub[r] # NoEntry THEN h = sub[r].at
           ELSE \E q \in OwnHotspot[r] : <<h, q>> \in on \cup joining}

-----------------------------------------------------------------------------
(* A data packet from an OpenBridge link.                                    *)

DataRec(o, d) ==
    IF rec[o][d] = NoRec THEN NewRec(o, 0) ELSE [rec[o][d] EXCEPT !.first = TRUE, !.last = 0]

(* Mutant: the link that heard the stream last goes first.                     *)
DataFirstNewest(o, d) ==
    LET ord == HardenedOrder(o, d)
    IN  CHOOSE f \in Stamped(Hardened(o, d), d) : \A x \in Stamped(Hardened(o, d), d) : <<f, x>> \notin ord

(* The earliest stamp, finished or silent or not.                             *)
DataFirst(o, d) ==
    LET ord == HardenedOrder(o, d)
        S   == Stamped(Hardened(o, d), d)
    IN  CHOOSE f \in S : \A x \in S : <<x, f>> \notin ord

DataYields(o, d) == DataFirst(o, d) # o \/ \E h \in HBPs : slot[h].rx = d

ObpData(o, d) ==
    LET R == [rec EXCEPT ![o][d] = DataRec(o, d)] IN
    /\ Arrives(o, d)
    /\ bcka' = [bcka EXCEPT ![o] = 0]
    /\ order' = [order EXCEPT ![d] = HardenedOrder(o, d)]
    /\ \/ /\ DataYields(o, d)
          /\ rec' = R
          /\ UNCHANGED spoke
       \/ /\ ~DataYields(o, d)
          /\ rec' = DataStubs(R, o, d)
          /\ Spoken(o, d)
    /\ UNCHANGED <<slot, claim, tomb, sub, on, joining>>

(* A data packet from a hotspot: nothing holds it back, and the slot keeps no    *)
(* trace of it.                                                              *)
HbpData(h, d) ==
    /\ Arrives(h, d) /\ <<h, PeerOf[d]>> \in on
    /\ rec' = DataStubs(rec, h, d)
    /\ Heard(h, d)
    /\ Spoken(h, d)
    /\ UNCHANGED <<order, slot, claim, tomb, bcka, on, joining>>

-----------------------------------------------------------------------------
HbpVoice(h, s, p) ==
    /\ <<h, PeerOf[s]>> \in on
    /\ HbpReceived(h, s, p)
    /\ Heard(h, s)
    /\ UNCHANGED <<on, joining>>

ObpVoice(o, s, p) == ObpReceived(o, s, p) /\ UNCHANGED <<sub, on, joining>>

Elsewhere ==
    /\ \/ \E o \in OBPs : KeepAlive(o) \/ \E s \in VoiceStreams : SourceQuench(o, s)
       \/ Trim
    /\ UNCHANGED <<sub, on, joining>>

(* Time passes for the subscriber map too.                                   *)
DataTick ==
    /\ Tick
    /\ sub' = [r \in Called |-> IF sub[r] # NoEntry /\ sub[r].age < DayCap
                                THEN [sub[r] EXCEPT !.age = @ + 1] ELSE sub[r]]
    /\ UNCHANGED <<on, joining>>

DataNext ==
    \/ \E o \in OBPs, s \in VoiceStreams, p \in Positions : ObpVoice(o, s, p)
    \/ \E h \in HBPs, s \in VoiceStreams, p \in Positions : HbpVoice(h, s, p)
    \/ \E o \in OBPs, d \in DataStreams : ObpData(o, d)
    \/ \E h \in HBPs, d \in DataStreams : HbpData(h, d)
    \/ \E h \in HBPs, q \in Peers :
          PeerAsks(h, q) \/ PeerLogin(h, q) \/ PeerRefused(h, q) \/ PeerLeaves(h, q)
    \/ Elsewhere
    \/ SubMapTrimmer
    \/ DataTick

DataSpec == DataInit /\ [][DataNext]_allVars
-----------------------------------------------------------------------------
(* The tables of the voice streams, the map and the sessions keep their shape.  *)
DataTypeOK ==
    /\ TypeOK
    /\ sub \in [Called -> {NoEntry} \cup [at : HBPs, peer : Peers, age : 0 .. DayCap]]
    /\ on \subseteq HBPs \X Peers
    /\ joining \subseteq (HBPs \X Peers) \ on

(* Of the OpenBridge links that bring the same data stream only one passes it on, *)
(* until it has been silent so long that its record is trimmed (and if it comes   *)
(* back it stands behind the others): bridge_master.py 2474, "We always use only  *)
(* the earliest packet".                                                     *)
DataFromFirst ==
    [][\A d \in DataStreams, o \in OBPs :
         /\ spoke'[d].by = o
         /\ spoke[d].by \in OBPs \ {o}
         => ~rec[spoke[d].by][d].first \/ <<o, spoke[d].by>> \in order[d]]_allVars

(* Data only goes where the radio was heard while the session it was heard on       *)
(* lasts, although hotspots come, go and change systems: an entry of SUB_MAP does    *)
(* not outlive its session (bridge_master.py 2923, 2938).  Radios nobody heard are    *)
(* looked for at their own hotspots.                                            *)
DataReachesHotspot ==
    \A d \in DataStreams : LET r == Dst[d] IN
        \A h \in DataLegs(r) :
            IF sub[r] # NoEntry THEN <<h, sub[r].peer>> \in on
            ELSE \E q \in OwnHotspot[r] : <<h, q>> \in on \cup joining
=============================================================================
