--------------------------- MODULE UnitData_proofs ---------------------------
(***************************************************************************)
(* Voice streams, unit data and the subscriber map together: proofs for any    *)
(* number of systems, streams, hotspots and radios.                           *)
(*                                                                         *)
(* The invariant ties the subscriber map to the sessions: an entry names a      *)
(* system and a hotspot that is logged in there.  Every packet of a hotspot     *)
(* makes such an entry, and whoever ends a session takes its entries along.      *)
(***************************************************************************)
EXTENDS UnitData, LoopControl_proofs

SubType == [Called -> {NoEntry} \cup [at : HBPs, peer : Peers, age : 0 .. DayCap]]

EntryHonest == \A r \in Called : sub[r] # NoEntry => <<sub[r].at, sub[r].peer>> \in on

MapInv ==
    /\ sub \in SubType
    /\ on \subseteq HBPs \X Peers
    /\ joining \subseteq (HBPs \X Peers) \ on
    /\ EntryHonest

DataInv == TypeOK /\ ClaimHonest /\ MapInv

LEMMA VoiceAreStreams == VoiceStreams \subseteq Streams /\ DataStreams \subseteq Streams
  BY StreamsAssumption DEF DataStreams

LEMMA DayZero == 0 \in 0 .. DayCap /\ DayCap \in Nat
  BY DataAssumption DEF DayCap

LEMMA MapKept ==
  ASSUME MapInv, UNCHANGED <<sub, on, joining>>
  PROVE  MapInv'
  BY DEF MapInv, EntryHonest

LEMMA VoiceKept ==
  ASSUME TypeOK, ClaimHonest, UNCHANGED vars
  PROVE  TypeOK' /\ ClaimHonest'
  BY DEF TypeOK, ClaimHonest, vars

(* Entries are made by hotspots that are logged in.                             *)
LEMMA HeardKeeps ==
  ASSUME MapInv, NEW h \in HBPs, NEW s \in Streams, <<h, PeerOf[s]>> \in on, Heard(h, s),
         UNCHANGED <<on, joining>>
  PROVE  MapInv'
<1>1. PeerOf[s] \in Peers
  BY DataAssumption
<1>2. [at |-> h, peer |-> PeerOf[s], age |-> 0] \in [at : HBPs, peer : Peers, age : 0 .. DayCap]
  BY <1>1, DayZero
<1> QED BY <1>2 DEF Heard, MapInv, EntryHonest, SubType

LEMMA ForgottenKeeps ==
  ASSUME MapInv, NEW h \in HBPs, NEW q \in Peers, sub' = Forgotten(h, q),
         on' \in {on, on \cup {<<h, q>>}, on \ {<<h, q>>}},
         joining' \in {joining, joining \ {<<h, q>>}}, joining' \cap on' = {}
  PROVE  MapInv'
<1>1. sub' \in SubType
  BY DEF Forgotten, MapInv, SubType
<1>2. on' \subseteq HBPs \X Peers /\ joining' \subseteq (HBPs \X Peers) \ on'
  BY DEF MapInv
<1>3. ASSUME NEW r \in Called, sub'[r] # NoEntry PROVE <<sub'[r].at, sub'[r].peer>> \in on'
  <2>1. sub'[r] = sub[r] /\ sub[r].at # h /\ sub[r].peer # q
    BY <1>3 DEF Forgotten
  <2>2. <<sub[r].at, sub[r].peer>> \in on
    BY <1>3, <2>1 DEF MapInv, EntryHonest
  <2> QED BY <2>1, <2>2
<1> QED BY <1>1, <1>2, <1>3 DEF MapInv, EntryHonest

(* A hotspot asks for a login, completes it, fails, or leaves.                     *)
LEMMA SessionsKeep ==
  ASSUME MapInv, NEW h \in HBPs, NEW q \in Peers,
         PeerAsks(h, q) \/ PeerLogin(h, q) \/ PeerRefused(h, q) \/ PeerLeaves(h, q)
  PROVE  MapInv'
<1>0. joining \cap on = {} /\ joining \subseteq HBPs \X Peers
  BY DEF MapInv
<1>1. CASE PeerAsks(h, q)
  BY <1>1 DEF PeerAsks, MapInv, EntryHonest
<1>2. CASE PeerLogin(h, q)
  BY <1>0, <1>2, ForgottenKeeps DEF PeerLogin
<1>3. CASE PeerRefused(h, q)
  <2>1. CASE sub' = sub
    BY <1>3, <2>1 DEF PeerRefused, MapInv, EntryHonest
  <2>2. CASE sub' = Forgotten(h, q)
    BY <1>0, <1>3, <2>2, ForgottenKeeps DEF PeerRefused
  <2> QED BY <1>3, <2>1, <2>2 DEF PeerRefused
<1>4. CASE PeerLeaves(h, q)
  BY <1>0, <1>4, ForgottenKeeps DEF PeerLeaves
<1> QED BY <1>1, <1>2, <1>3, <1>4

(* Entries grow old and are dropped.                                           *)
LEMMA AgeingKeeps ==
  ASSUME MapInv, UNCHANGED <<on, joining>>,
         \/ SubMapTrimmer
         \/ DataTick
  PROVE  MapInv'
<1>1. ASSUME NEW r \in Called
      PROVE  /\ sub'[r] \in {NoEntry} \cup [at : HBPs, peer : Peers, age : 0 .. DayCap]
             /\ sub'[r] # NoEntry => /\ sub[r] # NoEntry
                                     /\ sub'[r].at = sub[r].at /\ sub'[r].peer = sub[r].peer
  <2>0. sub[r] \in {NoEntry} \cup [at : HBPs, peer : Peers, age : 0 .. DayCap]
    BY DEF MapInv, SubType
  <2>1. CASE SubMapTrimmer
    BY <2>0, <2>1 DEF SubMapTrimmer
  <2>2. CASE sub'[r] = sub[r]
    BY <2>0, <2>2
  <2>3. CASE /\ sub[r] # NoEntry /\ sub[r].age < DayCap
             /\ sub'[r] = [sub[r] EXCEPT !.age = @ + 1]
    BY <2>0, <2>3, DayZero
  <2> QED BY <2>1, <2>2, <2>3 DEF DataTick
<1>2. sub' = [r \in Called |-> sub'[r]]
  BY DEF SubMapTrimmer, DataTick
<1>3. sub' \in SubType
  BY <1>1, <1>2 DEF SubType
<1> QED BY <1>1, <1>3 DEF MapInv, EntryHonest

-----------------------------------------------------------------------------
(* Data packets touch the stream tables, but no slot and no claim.               *)

LEMMA DataStubsType ==
  ASSUME NEW R \in RecTables, NEW i \in Systems, NEW d \in Streams
  PROVE  DataStubs(R, i, d) \in RecTables
<1>1. ASSUME NEW o \in OBPs
      PROVE  [R[o] EXCEPT ![d] = IF @ = NoRec THEN [NoRec EXCEPT !.by = i]
                                 ELSE [@ EXCEPT !.last = 0]] \in [Streams -> Records]
  <2>1. R[o] \in [Streams -> Records] /\ R[o][d] \in Records
    BY DEF RecTables
  <2>2. [NoRec EXCEPT !.by = i] \in Records
    BY NoRecType DEF Records
  <2>3. [R[o][d] EXCEPT !.last = 0] \in Records
    BY <2>1, AgeZero DEF Records
  <2> QED BY <2>1, <2>2, <2>3
<1> QED BY <1>1 DEF DataStubs, RecTables

LEMMA DataRecType ==
  ASSUME RecOK, NEW o \in OBPs, NEW d \in Streams
  PROVE  DataRec(o, d) \in Records
<1>1. rec[o][d] \in Records
  BY DEF RecOK, RecTables
<1>2. [rec[o][d] EXCEPT !.first = TRUE, !.last = 0] \in Records
  BY <1>1, AgeZero DEF Records
<1> QED BY <1>2, NewRecType DEF DataRec

LEMMA ObpDataKeeps ==
  ASSUME TypeOK, ClaimHonest, NEW o \in OBPs, NEW d \in DataStreams, ObpData(o, d)
  PROVE  TypeOK' /\ ClaimHonest'
<1> USE TypeParts
<1>0. o \in Systems /\ d \in Streams
  BY VoiceAreStreams DEF Systems
<1>1. UNCHANGED <<net, quench, slot, claim, tomb>> /\ bcka' = [bcka EXCEPT ![o] = 0]
  BY DEF ObpData, Arrives
<1>2. DataRec(o, d) \in Records
  BY <1>0, DataRecType
<1>3. [rec EXCEPT ![o][d] = DataRec(o, d)] \in RecTables
  BY <1>0, <1>2, SetRecord
<1>4. rec' \in RecTables
  BY <1>0, <1>3, DataStubsType DEF ObpData
<1>5. order' \in OrderType
  BY <1>0, HardenedType, SetOrder DEF ObpData
<1>6. SpokeOK'
  BY <1>0, SpokenKeeps, PartsKept DEF ObpData
<1> QED BY <1>1, <1>4, <1>5, <1>6, HeardLink, PartsKept, HonestKept, TypePartsNext DEF RecOK

LEMMA HbpDataKeeps ==
  ASSUME TypeOK, ClaimHonest, NEW h \in HBPs, NEW d \in DataStreams, HbpData(h, d)
  PROVE  TypeOK' /\ ClaimHonest'
<1> USE TypeParts
<1>0. h \in Systems /\ d \in Streams
  BY VoiceAreStreams DEF Systems
<1>1. UNCHANGED <<net, quench, order, slot, claim, tomb, bcka>>
  BY DEF HbpData, Arrives
<1>2. rec' \in RecTables
  BY <1>0, DataStubsType DEF HbpData, RecOK
<1>3. SpokeOK'
  BY <1>0, SpokenKeeps DEF HbpData
<1> QED BY <1>1, <1>2, <1>3, PartsKept, HonestKept, TypePartsNext DEF RecOK

-----------------------------------------------------------------------------
LEMMA DataStart ==
  ASSUME DataInit
  PROVE  DataInv
<1>1. TypeOK /\ ClaimHonest
  BY LoopInit DEF DataInit
<1>2. net \in Networks /\ net.hears \subseteq (OBPs \cup HBPs) \X Streams
  BY StreamsAssumption DEF DataInit, Init
<1>3. on \subseteq HBPs \X Peers
  BY <1>2, DataAssumption DEF DataInit
<1>4. sub \in SubType /\ EntryHonest
  BY DEF DataInit, SubType, EntryHonest
<1>5. joining \subseteq (HBPs \X Peers) \ on
  BY DEF DataInit
<1> QED BY <1>1, <1>3, <1>4, <1>5 DEF DataInv, MapInv

LEMMA DataStep ==
  ASSUME DataInv, [DataNext]_allVars
  PROVE  DataInv'
<1> USE DEF DataInv
<1>1. ASSUME NEW o \in OBPs, NEW s \in VoiceStreams, NEW p \in Positions, ObpVoice(o, s, p)
      PROVE  DataInv'
  BY <1>1, ObpReceivedKeeps, MapKept, VoiceAreStreams DEF ObpVoice
<1>2. ASSUME NEW h \in HBPs, NEW s \in VoiceStreams, NEW p \in Positions, HbpVoice(h, s, p)
      PROVE  DataInv'
  BY <1>2, HbpReceivedKeeps, HeardKeeps, VoiceAreStreams DEF HbpVoice
<1>3. ASSUME NEW o \in OBPs, NEW d \in DataStreams, ObpData(o, d) PROVE DataInv'
  BY <1>3, ObpDataKeeps, MapKept DEF ObpData
<1>4. ASSUME NEW h \in HBPs, NEW d \in DataStreams, HbpData(h, d) PROVE DataInv'
  BY <1>4, HbpDataKeeps, HeardKeeps, VoiceAreStreams DEF HbpData
<1>5. ASSUME NEW h \in HBPs, NEW q \in Peers,
             PeerAsks(h, q) \/ PeerLogin(h, q) \/ PeerRefused(h, q) \/ PeerLeaves(h, q)
      PROVE  DataInv'
  BY <1>5, SessionsKeep, VoiceKept DEF PeerAsks, PeerLogin, PeerRefused, PeerLeaves
<1>6. CASE Elsewhere
  BY <1>6, ControlKeeps, TrimKeeps, MapKept DEF Elsewhere
<1>7. CASE SubMapTrimmer
  BY <1>7, AgeingKeeps, VoiceKept DEF SubMapTrimmer
<1>8. CASE DataTick
  BY <1>8, AgeingKeeps, TickKeeps DEF DataTick
<1>9. CASE UNCHANGED allVars
  BY <1>9, VoiceKept, MapKept DEF allVars
<1> QED BY <1>1, <1>2, <1>3, <1>4, <1>5, <1>6, <1>7, <1>8, <1>9 DEF DataNext

THEOREM DataInvariant == DataSpec => []DataInv
<1>1. DataInit => DataInv
  BY DataStart
<1>2. DataInv /\ [DataNext]_allVars => DataInv'
  BY DataStep
<1> QED BY <1>1, <1>2, PTL DEF DataSpec

(* Every table keeps its type, and no claim or tombstone outlives its time.       *)
THEOREM DataTypes == DataSpec => []DataTypeOK
<1>1. DataInv => DataTypeOK
  BY DEF DataInv, MapInv, SubType, DataTypeOK
<1> QED BY <1>1, DataInvariant, PTL

(* A claim is only held by a hotspot that speaks.                               *)
THEOREM ClaimsHonest == DataSpec => []ClaimHonest
<1>1. DataInv => ClaimHonest
  BY DEF DataInv
<1> QED BY <1>1, DataInvariant, PTL

(* Mirrored links never silence each other.                                    *)
THEOREM NoTwoYield == DataSpec => []NoMutualYield
<1>1. DataInv => NoMutualYield
  BY NobodyYieldsToEachOther DEF DataInv
<1> QED BY <1>1, DataInvariant, PTL

(* Data is sent to systems with a hotspot for it.                               *)
THEOREM DataFindsHotspot == DataSpec => []DataReachesHotspot
<1>1. ASSUME DataInv PROVE DataReachesHotspot
  <2> SUFFICES ASSUME NEW d \in DataStreams, NEW h \in DataLegs(Dst[d])
               PROVE  IF sub[Dst[d]] # NoEntry THEN <<h, sub[Dst[d]].peer>> \in on
                      ELSE \E q \in OwnHotspot[Dst[d]] : <<h, q>> \in on \cup joining
    BY DEF DataReachesHotspot
  <2>1. Dst[d] \in Called
    BY DEF Called
  <2>2. CASE sub[Dst[d]] # NoEntry
    BY <1>1, <2>1, <2>2 DEF DataLegs, DataInv, MapInv, EntryHonest
  <2>3. CASE sub[Dst[d]] = NoEntry
    BY <2>3 DEF DataLegs
  <2> QED BY <2>2, <2>3
<1> QED BY <1>1, DataInvariant, PTL

-----------------------------------------------------------------------------
(* How a call on a hotspot's slot ends, and how it goes on.                      *)

EndsByItself(h) ==
    slot[h].rxType = "voice" /\ slot'[h].rxType = "term"
        => slot[h].rxAge > KeepTO \/ tomb'[h][slot[h].rx] = 0

LEMMA TerminatorEnds ==
  ASSUME TypeOK, NEW g \in HBPs, NEW s \in Streams, NEW p, HbpContinues(g, s, p), NEW h \in HBPs
  PROVE  EndsByItself(h)
<1> USE TypeParts
<1> DEFINE l == HbpStatus(g, s, p)
           own == [l EXCEPT !.rx = s, !.rxType = Type(p), !.rxAge = 0,
                            !.seq = IF p = Final THEN None ELSE SeqOf(p)]
<1>1. slot' = [Sent(slot, g, s, p) EXCEPT ![g] = own]
  BY DEF HbpContinues
<1>2. l \in Slots
  BY StatusType
<1> HIDE DEF l
<1>3. own.rxType = Type(p)
  BY <1>2 DEF Slots
<1> HIDE DEF own
<1>4. CASE h # g
  BY <1>1, <1>4, SentType DEF EndsByItself
<1>5. CASE h = g
  <2>1. slot'[h].rxType = Type(p)
    BY <1>1, <1>3, <1>5, SentType
  <2>2. CASE p = Final
    <3>1. slot[h].rx = s
      BY <1>5, <2>2 DEF HbpContinues, Admitted, StaleTerm, Lineage
    <3>2. tomb'[h][s] = 0
      BY <1>5, <2>2 DEF HbpContinues, Buried, TombOK, Systems
    <3> QED BY <3>1, <3>2 DEF EndsByItself
  <2>3. CASE p # Final
    BY <2>1, <2>3 DEF Type, EndsByItself
  <2> QED BY <2>2, <2>3
<1> QED BY <1>4, <1>5

LEMMA CallsEnd ==
  ASSUME DataInv, [DataNext]_allVars, NEW h \in HBPs
  PROVE  EndsByItself(h)
<1> USE TypeParts DEF DataInv
<1>0. CASE slot'[h].rxType = slot[h].rxType
  BY <1>0 DEF EndsByItself
<1>1. CASE slot' = slot
  BY <1>0, <1>1
<1>2. ASSUME NEW o \in OBPs, NEW s \in VoiceStreams, NEW p \in Positions, ObpVoice(o, s, p)
      PROVE  EndsByItself(h)
  <2>1. slot' = slot \/ slot' = Sent(slot, o, s, p)
    BY <1>2 DEF ObpVoice, ObpReceived, ObpDrops, ObpYields, ObpOutOfSequence, ObpOpens,
                ObpContinues, Ignored
  <2> QED BY <1>0, <2>1, SentType, VoiceAreStreams
<1>3. ASSUME NEW g \in HBPs, NEW s \in VoiceStreams, NEW p \in Positions, HbpVoice(g, s, p)
      PROVE  EndsByItself(h)
  <2>1. CASE HbpContinues(g, s, p)
    BY <2>1, TerminatorEnds, VoiceAreStreams
  <2>2. CASE HbpDrops(g, s, p)
    BY <1>1, <2>2 DEF HbpDrops
  <2>3. CASE HbpYields(g, s, p)
    BY <1>0, <2>3, StatusType DEF HbpYields, SlotOK
  <2> QED BY <1>3, <2>1, <2>2, <2>3 DEF HbpVoice, HbpReceived
<1>4. CASE Trim
  <2>1. slot[h] \in Slots
    BY DEF SlotOK
  <2>2. slot'[h].rxType = (IF slot[h].rxAge > KeepTO THEN "term" ELSE slot[h].rxType)
    BY <1>4, <2>1 DEF Trim, TrimmedSlot, Slots
  <2> QED BY <2>2 DEF EndsByItself
<1>5. CASE Tick
  <2>1. slot[h] \in Slots
    BY DEF SlotOK
  <2>2. slot'[h].rxType = slot[h].rxType
    BY <1>5, <2>1 DEF Tick, Slots
  <2> QED BY <1>0, <2>2
<1>6. CASE UNCHANGED vars
  BY <1>1, <1>6 DEF vars
<1> QED BY <1>1, <1>2, <1>3, <1>4, <1>5, <1>6
        DEF DataNext, allVars, ObpData, HbpData, PeerAsks, PeerLogin, PeerRefused, PeerLeaves, Elsewhere, KeepAlive,
            SourceQuench, SubMapTrimmer, DataTick

(* A call is ended by its own terminator or by silence, never by the terminator    *)
(* of another stream or a repeated one.                                        *)
THEOREM CallsEndByThemselves == DataSpec => OnlyOwnTermEnds
<1>1. DataInv /\ [DataNext]_allVars
        => [\A h \in HBPs : slot[h].rxType = "voice" /\ slot'[h].rxType = "term"
              => slot[h].rxAge > KeepTO \/ tomb'[h][slot[h].rx] = 0]_vars
  BY CallsEnd DEF EndsByItself
<1> QED BY <1>1, DataInvariant, PTL DEF DataSpec, OnlyOwnTermEnds

(* No drop and no yield applies to the next packet of a call that is under way.    *)
LEMMA LineageGoesOn ==
  ASSUME TypeOK, NEW h \in HBPs, NEW s \in VoiceStreams, NEW p \in Positions \ {0, Final},
         slot[h].rx = s, slot[h].rxType = "voice", ~HbpClaimed(h, s), slot[h].start <= CallTO,
         InSequence(p, slot[h].seq, slot[h].rxAge), HbpReceived(h, s, p)
  PROVE  spoke'[s] = [by |-> h, age |-> 0]
<1> USE TypeParts
<1>1. Lineage(h, s)
  BY DEF Lineage, IsVterm
<1>2. Admitted(h, s, p)
  BY DEF Admitted, StaleTerm, Collides
<1>3. slot[h] \in Slots
  BY DEF SlotOK
<1> DEFINE l == HbpStatus(h, s, p)
<1>4. l.start <= CallTO /\ InSequence(p, l.seq, l.rxAge)
  <2>1. CASE HbpNew(h, s, p)
    <3>1. l.start = 0 /\ l.seq = None /\ l.rxAge = slot[h].rxAge
      BY <1>3, <2>1 DEF HbpStatus, Slots
    <3>2. InSequence(p, None, slot[h].rxAge)
      BY DEF InSequence, Delta, Late, None
    <3> QED BY <3>1, <3>2, TimeAssumption
  <2>2. CASE ~HbpNew(h, s, p)
    BY <2>2 DEF HbpStatus
  <2> QED BY <2>1, <2>2
<1>a. l.start \in Int /\ CallTO \in Int
  BY StatusType, TimeAssumption DEF Slots, Ages, Cap
<1>5. ~HbpYields(h, s, p)
  BY <1>1, <1>4, <1>a DEF HbpYields, ObpFirst
<1>6. HbpContinues(h, s, p)
  BY <1>2, <1>5 DEF HbpReceived, HbpDrops
<1>7. s \in Streams
  BY VoiceAreStreams
<1> QED BY <1>6, <1>7 DEF HbpContinues, Spoken, SpokeOK

(* The call on a slot goes on although its claim has lapsed.                      *)
THEOREM LineageGoverns == DataSpec => LineageKept
<1>1. DataInv /\ [DataNext]_allVars
        => [\A h \in HBPs, s \in VoiceStreams, p \in Positions \ {0, Final} :
             /\ slot[h].rx = s /\ slot[h].rxType = "voice" /\ ~HbpClaimed(h, s)
             /\ slot[h].start <= CallTO
             /\ InSequence(p, slot[h].seq, slot[h].rxAge)
             /\ HbpReceived(h, s, p)
             => spoke'[s] = [by |-> h, age |-> 0]]_vars
  BY LineageGoesOn DEF DataInv
<1> QED BY <1>1, DataInvariant, PTL DEF DataSpec, LineageKept
-----------------------------------------------------------------------------
(* A pause: nothing holds back the next packet of the only live copy.             *)

(* An election with one possible claimant is not won by another link.             *)
LEMMA LoneOwner ==
  ASSUME TypeOK, NEW o \in OBPs, NEW s \in Streams, Claimants(rec, s) \subseteq {o}
  PROVE  Owner(o, s) \in {o, NoStream}
<1> USE TypeParts
<1>1. ASSUME NEW b \in Claimants(Hardened(o, s), s) PROVE b = o
  <2>1. CASE b # o
    <3>1. b \in OBPs /\ Hardened(o, s)[b] = rec[b]
      BY <2>1 DEF Hardened, RecOK, RecTables, Claimants, Stamped
    <3>2. b \in Claimants(rec, s)
      BY <3>1 DEF Claimants, Stamped
    <3> QED BY <3>2
  <2> QED BY <2>1
<1>2. Owner(o, s) \in Claimants(Hardened(o, s), s) \cup {NoStream}
  BY DEF Owner, EarliestObpOwner
<1> QED BY <1>1, <1>2

LEMMA GapEnds ==
  ASSUME TypeOK, NEW o \in OBPs, NEW s \in VoiceStreams, NEW p \in Positions \ {Final},
         rec[o][s].last >= ClaimTO, Alone(o, s),
         p \in BurstC => ~rec[o][s].fin /\ ~TooLong(o, s) /\ Delta(p, rec[o][s].seq) # 0,
         ObpReceived(o, s, p)
  PROVE  spoke'[s] = [by |-> o, age |-> 0]
<1> USE TypeParts
<1>0. s \in Streams /\ p # Final
  BY VoiceAreStreams
<1>1. rec[o][s].last \in Int /\ rec[o][s].last >= StreamTO
  BY <1>0, TimeAssumption DEF RecOK, RecTables, Records, Ages, Cap
<1>2. ObpKnown(o, s, p) => p \in BurstC
  BY <1>0, <1>1 DEF ObpKnown, ObpNew, IsVterm, Type
<1>3. ~ObpDrops(o, s, p)
  <2>1. ~Tombstoned(o, s, p, rec[o][s].seq)
    BY <1>0 DEF Tombstoned
  <2>2. ObpKnown(o, s, p) => ~rec[o][s].fin /\ ~TooLong(o, s) /\ claim[s] = NoClaim
    BY <1>2 DEF Alone
  <2> QED BY <2>1, <2>2 DEF ObpDrops
<1>4. ~ObpYields(o, s, p)
  BY <1>0, LoneOwner DEF ObpYields, Alone
<1>5. ~ObpOutOfSequence(o, s, p)
  <2>1. ~(rec[o][s].last < ClaimTO)
    BY <1>1, TimeAssumption
  <2>2. ObpKnown(o, s, p) => InSequence(p, rec[o][s].seq, rec[o][s].last)
    BY <1>2, <2>1 DEF InSequence
  <2> QED BY <2>2 DEF ObpOutOfSequence, ObpOwns
<1>6. Spoken(o, s)
  BY <1>3, <1>4, <1>5 DEF ObpReceived, ObpOpens, ObpContinues
<1> QED BY <1>0, <1>6 DEF Spoken, SpokeOK

(* The only live copy of a stream is heard again after a second of silence,        *)
(* whatever its sequence number.                                               *)
THEOREM GapsEnd == DataSpec => GapRecovers
<1>1. DataInv /\ [DataNext]_allVars
        => [\A o \in OBPs, s \in VoiceStreams :
             /\ rec[o][s].last >= ClaimTO /\ Alone(o, s)
             /\ spoke'[s] # [by |-> o, age |-> 0]
             => ~\E p \in Positions \ {Final} :
                   /\ p \in BurstC =>
                         ~rec[o][s].fin /\ ~TooLong(o, s) /\ Delta(p, rec[o][s].seq) # 0
                   /\ ObpReceived(o, s, p)]_vars
  BY GapEnds DEF DataInv
<1> QED BY <1>1, DataInvariant, PTL DEF DataSpec, GapRecovers

-----------------------------------------------------------------------------
(* Whoever spoke last on a stream has left a mark that holds hotspots back: a       *)
(* hotspot its claim, a link its live record, and either the tombstone of a         *)
(* terminator.  Each of the three lives longer than the silence after which        *)
(* another may speak, and only the next speaker can take it away.                *)

HoldsClaim(x, s, a)  == x \in HBPs /\ claim[s] # NoClaim /\ claim[s].by = x /\ claim[s].age = a
HoldsStream(x, s, a) == x \in OBPs /\ rec[x][s].first /\ ~rec[x][s].fin /\ rec[x][s].last <= a
HasEnded(x, s, a)    == tomb[x][s] # NoTomb /\ tomb[x][s] <= a

Marked(s) ==
    LET x == spoke[s].by
        a == spoke[s].age
    IN  x # NoStream /\ a < StreamTO
            => HoldsClaim(x, s, a) \/ HoldsStream(x, s, a) \/ HasEnded(x, s, a)

SpeakersMarked == \A s \in VoiceStreams : Marked(s)

LEMMA MarkKept ==
  ASSUME SpokeOK, NEW s \in Streams, Marked(s), spoke'[s] = spoke[s], claim'[s] = claim[s],
         \A x \in Systems : tomb'[x][s] = tomb[x][s],
         \A x \in OBPs : rec[x][s].first /\ ~rec[x][s].fin
                        => /\ rec'[x][s].first /\ ~rec'[x][s].fin
                           /\ rec'[x][s].last \in {0, rec[x][s].last}
  PROVE  Marked(s)'
<1>1. spoke[s].by \in Systems \cup {NoStream} /\ spoke[s].age \in Nat
  BY TimeAssumption DEF SpokeOK
<1> QED BY <1>1 DEF Marked, HoldsClaim, HoldsStream, HasEnded

(* The packet of a speaker makes its mark.                                      *)
LEMMA LinkMarks ==
  ASSUME TypeOK, NEW o \in OBPs, NEW s \in Streams, NEW p \in Positions,
         ObpOpens(o, s, p) \/ ObpContinues(o, s, p)
  PROVE  Marked(s)'
<1> USE TypeParts
<1>1. spoke'[s] = [by |-> o, age |-> 0]
  BY DEF ObpOpens, ObpContinues, Spoken, SpokeOK
<1>2. CASE p = Final
  <2>1. Buried(o, s, p)
    BY DEF ObpOpens, ObpContinues
  <2>2. tomb'[o][s] = 0
    BY <1>2, <2>1 DEF Buried, TombOK, Systems
  <2> QED BY <1>1, <2>2 DEF Marked, HasEnded, NoTomb
<1>3. CASE p # Final
  <2>1. rec[o][s] \in Records /\ rec[o] \in [Streams -> Records]
    BY DEF RecOK, RecTables
  <2>2. PICK R \in RecTables, gen \in BOOLEAN :
           /\ rec' = Stubs(R, o, s, gen)
           /\ R[o][s].first /\ ~R[o][s].fin /\ R[o][s].last = 0
    <3>1. CASE ObpOpens(o, s, p)
      <4> DEFINE R == [rec EXCEPT ![o][s] = NewRec(o, p)]
      <4>1. R \in RecTables /\ R[o][s] = NewRec(o, p)
        BY NewRecType, SetRecord DEF RecOK, RecTables
      <4>2. NewRec(o, p).first /\ ~NewRec(o, p).fin /\ NewRec(o, p).last = 0
        BY <1>3 DEF NewRec, NoRec
      <4>3. rec' = Stubs(R, o, s, TRUE)
        BY <3>1 DEF ObpOpens
      <4> HIDE DEF R
      <4> QED BY <4>1, <4>2, <4>3
    <3>2. CASE ObpContinues(o, s, p)
      <4> DEFINE r == [rec[o][s] EXCEPT !.last = 0, !.first = TRUE, !.fin = (p = Final),
                                        !.seq = IF p = Final THEN None ELSE SeqOf(p)]
                 R == [rec EXCEPT ![o][s] = r]
      <4>1. r \in Records /\ r.first /\ ~r.fin /\ r.last = 0
        BY <1>3, <2>1, AgeZero, SeqType DEF Records
      <4>2. rec' = Stubs(R, o, s, FALSE)
        BY <3>2 DEF ObpContinues
      <4> HIDE DEF r
      <4>3. R \in RecTables /\ R[o][s] = r
        BY <4>1, SetRecord DEF RecOK, RecTables
      <4> HIDE DEF R
      <4> QED BY <4>1, <4>2, <4>3
    <3> QED BY <3>1, <3>2
  <2>3. rec'[o] = R[o]
    BY <2>2 DEF Stubs, ObpTargets
  <2> QED BY <1>1, <2>2, <2>3 DEF Marked, HoldsStream
<1> QED BY <1>2, <1>3

LEMMA HotspotMarks ==
  ASSUME TypeOK, NEW h \in HBPs, NEW s \in Streams, NEW p \in Positions, HbpContinues(h, s, p)
  PROVE  Marked(s)'
<1> USE TypeParts
<1>1. spoke'[s] = [by |-> h, age |-> 0]
  BY DEF HbpContinues, Spoken, SpokeOK
<1>2. CASE p = Final
  <2>1. tomb'[h][s] = 0
    BY <1>2 DEF HbpContinues, Buried, TombOK, Systems
  <2> QED BY <1>1, <2>1 DEF Marked, HasEnded, NoTomb
<1>3. CASE p # Final
  <2>1. claim'[s] = [by |-> h, age |-> 0]
    BY <1>3 DEF HbpContinues, ClaimAfter, ClaimOK
  <2>2. claim'[s] # NoClaim
    BY <2>1, SystemsAssumption DEF NoClaim
  <2> QED BY <1>1, <2>1, <2>2 DEF Marked, HoldsClaim
<1> QED BY <1>2, <1>3

(* A packet of another stream leaves the mark alone.                              *)
LEMMA OtherStream ==
  ASSUME TypeOK, NEW i \in Systems, NEW t \in Streams, NEW p \in Positions,
         (ObpReceived(i, t, p) /\ i \in OBPs) \/ (HbpReceived(i, t, p) /\ i \in HBPs),
         NEW s \in Streams, s # t
  PROVE  /\ spoke'[s] = spoke[s] /\ claim'[s] = claim[s]
         /\ \A x \in Systems : tomb'[x][s] = tomb[x][s]
         /\ \A x \in OBPs : rec'[x][s] = rec[x][s]
<1> USE TypeParts
<1>1. ASSUME NEW R, \A x \in OBPs : R[x] \in [Streams -> Records] /\ R[x][s] = rec[x][s], NEW gen
      PROVE  \A x \in OBPs : Stubs(R, i, t, gen)[x][s] = rec[x][s]
  BY <1>1 DEF Stubs
<1>2. ASSUME NEW o \in OBPs, NEW r \in Records
      PROVE  \A x \in OBPs : /\ [rec EXCEPT ![o][t] = r][x] \in [Streams -> Records]
                             /\ [rec EXCEPT ![o][t] = r][x][s] = rec[x][s]
  BY <1>2 DEF RecOK, RecTables
<1>3. \A x \in OBPs : rec[x] \in [Streams -> Records] /\ rec[x][t] \in Records
  BY DEF RecOK, RecTables
<1>4. Buried(i, t, p) => \A x \in Systems : tomb'[x][s] = tomb[x][s]
  BY DEF Buried, TombOK
<1>5. Spoken(i, t) => spoke'[s] = spoke[s]
  BY DEF Spoken, SpokeOK
<1>6. CASE UNCHANGED <<rec, claim, tomb, spoke>>
  BY <1>6
<1>7. ASSUME NEW r \in Records, i \in OBPs, Ignored(i, t, r), claim' = claim
      PROVE  /\ spoke'[s] = spoke[s] /\ claim'[s] = claim[s]
             /\ \A x \in Systems : tomb'[x][s] = tomb[x][s]
             /\ \A x \in OBPs : rec'[x][s] = rec[x][s]
  <2>1. [r EXCEPT !.first = TRUE] \in Records
    BY DEF Records
  <2> QED BY <1>2, <1>7, <2>1 DEF Ignored
<1>8. CASE i \in OBPs /\ (ObpDrops(i, t, p) \/ ObpYields(i, t, p) \/ ObpOutOfSequence(i, t, p))
  <2>1. rec[i][t] \in Records /\ [rec[i][t] EXCEPT !.last = 0] \in Records
    BY <1>3, <1>8, AgeZero DEF Records
  <2> QED BY <1>6, <1>7, <1>8, <2>1 DEF ObpDrops, ObpYields, ObpOutOfSequence, Ignored
<1>9. CASE i \in OBPs /\ ObpOpens(i, t, p)
  <2> DEFINE R == [rec EXCEPT ![i][t] = NewRec(i, p)]
  <2>1. \A x \in OBPs : R[x] \in [Streams -> Records] /\ R[x][s] = rec[x][s]
    BY <1>2, <1>9, NewRecType
  <2>2. rec' = Stubs(R, i, t, TRUE)
    BY <1>9 DEF ObpOpens
  <2> HIDE DEF R
  <2>3. \A x \in OBPs : rec'[x][s] = rec[x][s]
    BY <1>1, <2>1, <2>2
  <2>4. Buried(i, t, p) /\ Spoken(i, t) /\ claim' = claim
    BY <1>9 DEF ObpOpens
  <2> QED BY <1>4, <1>5, <2>3, <2>4
<1>10. CASE i \in OBPs /\ ObpContinues(i, t, p)
  <2> DEFINE r == [rec[i][t] EXCEPT !.last = 0, !.first = TRUE, !.fin = (p = Final),
                                    !.seq = IF p = Final THEN None ELSE SeqOf(p)]
             R == [rec EXCEPT ![i][t] = r]
  <2>1. r \in Records
    BY <1>3, <1>10, AgeZero, SeqType DEF Records
  <2>2. rec' = Stubs(R, i, t, FALSE)
    BY <1>10 DEF ObpContinues
  <2> HIDE DEF r
  <2>3. \A x \in OBPs : R[x] \in [Streams -> Records] /\ R[x][s] = rec[x][s]
    BY <1>2, <1>10, <2>1
  <2> HIDE DEF R
  <2>4. \A x \in OBPs : rec'[x][s] = rec[x][s]
    BY <1>1, <2>2, <2>3
  <2>5. Buried(i, t, p) /\ Spoken(i, t) /\ claim' = claim
    BY <1>10 DEF ObpContinues
  <2> QED BY <1>4, <1>5, <2>4, <2>5
<1>11. CASE i \in HBPs /\ HbpContinues(i, t, p)
  <2>1. claim'[s] = claim[s]
    BY <1>11 DEF HbpContinues, ClaimOK
  <2> QED BY <1>1, <1>3, <1>4, <1>5, <1>11, <2>1 DEF HbpContinues
<1> QED BY <1>6, <1>8, <1>9, <1>10, <1>11
        DEF ObpReceived, HbpReceived, HbpDrops, HbpYields

(* A packet that goes no further leaves the mark of its stream alone: at most it     *)
(* refreshes the record of its own link.                                        *)
LEMMA StoppedKeepsMark ==
  ASSUME TypeOK, NEW o \in OBPs, NEW s \in Streams, NEW p,
         ObpDrops(o, s, p) \/ ObpYields(o, s, p) \/ ObpOutOfSequence(o, s, p), Marked(s)
  PROVE  Marked(s)'
<1> USE TypeParts
<1>1. UNCHANGED <<slot, claim, tomb, spoke>>
  BY ObpStopsKeeps DEF ObpDrops, ObpYields, ObpOutOfSequence, Ignored
<1>2. rec[o][s] \in Records /\ rec[o] \in [Streams -> Records] /\ rec \in RecTables
  BY DEF RecOK, RecTables
<1>3. ASSUME NEW r \in Records, r.fin = rec[o][s].fin, r.last \in {0, rec[o][s].last},
             Ignored(o, s, r)
      PROVE  Marked(s)'
  <2> DEFINE q == [r EXCEPT !.first = TRUE]
  <2>1. q \in Records /\ q.first /\ q.fin = r.fin /\ q.last = r.last
    BY DEF Records
  <2>2. rec' = [rec EXCEPT ![o][s] = q]
    BY <1>3 DEF Ignored
  <2> HIDE DEF q
  <2>3. rec'[o][s] = q /\ \A x \in OBPs \ {o} : rec'[x] = rec[x]
    BY <1>2, <2>2 DEF RecTables
  <2> QED BY <1>1, <1>3, <2>1, <2>3, MarkKept
<1>4. CASE rec' = rec
  BY <1>1, <1>4, MarkKept
<1>5. /\ [rec[o][s] EXCEPT !.last = 0] \in Records
      /\ [rec[o][s] EXCEPT !.last = 0].fin = rec[o][s].fin
      /\ [rec[o][s] EXCEPT !.last = 0].last = 0
  BY <1>2, AgeZero DEF Records
<1> QED BY <1>2, <1>3, <1>4, <1>5 DEF ObpDrops, ObpYields, ObpOutOfSequence

LEMMA VoiceKeepsMarks ==
  ASSUME TypeOK, SpeakersMarked, NEW t \in VoiceStreams, NEW p \in Positions,
         \/ \E o \in OBPs : ObpReceived(o, t, p)
         \/ \E h \in HBPs : HbpReceived(h, t, p)
  PROVE  SpeakersMarked'
<1> USE TypeParts
<1> SUFFICES ASSUME NEW s \in VoiceStreams PROVE Marked(s)'
  BY DEF SpeakersMarked
<1>0. s \in Streams /\ t \in Streams /\ Marked(s)
  BY VoiceAreStreams DEF SpeakersMarked
<1>1. CASE s # t
  <2>1. ASSUME NEW i \in Systems,
               (ObpReceived(i, t, p) /\ i \in OBPs) \/ (HbpReceived(i, t, p) /\ i \in HBPs)
        PROVE  Marked(s)'
    <3>1. /\ spoke'[s] = spoke[s] /\ claim'[s] = claim[s]
          /\ \A x \in Systems : tomb'[x][s] = tomb[x][s]
          /\ \A x \in OBPs : rec'[x][s] = rec[x][s]
      BY <1>0, <1>1, <2>1, OtherStream
    <3> QED BY <1>0, <3>1, MarkKept
  <2>2. OBPs \subseteq Systems /\ HBPs \subseteq Systems
    BY DEF Systems
  <2>3. ASSUME NEW o \in OBPs, ObpReceived(o, t, p) PROVE Marked(s)'
    <3>1. o \in Systems
      BY <2>2
    <3> QED BY <2>1, <2>3, <3>1
  <2>4. ASSUME NEW h \in HBPs, HbpReceived(h, t, p) PROVE Marked(s)'
    <3>1. h \in Systems
      BY <2>2
    <3> QED BY <2>1, <2>4, <3>1
  <2> QED BY <2>3, <2>4
<1>2. ASSUME NEW o \in OBPs, ObpReceived(o, s, p) PROVE Marked(s)'
  BY <1>0, <1>2, LinkMarks, StoppedKeepsMark DEF ObpReceived
<1>3. ASSUME NEW h \in HBPs, HbpReceived(h, s, p) PROVE Marked(s)'
  <2>1. CASE HbpContinues(h, s, p)
    BY <1>0, <2>1, HotspotMarks
  <2>2. CASE UNCHANGED <<rec, claim, tomb, spoke>>
    BY <1>0, <2>2, MarkKept
  <2> QED BY <1>3, <2>1, <2>2 DEF HbpReceived, HbpDrops, HbpYields
<1> QED BY <1>1, <1>2, <1>3

LEMMA DataKeepsMarks ==
  ASSUME TypeOK, SpeakersMarked, NEW d \in DataStreams,
         \/ \E o \in OBPs : ObpData(o, d)
         \/ \E h \in HBPs : HbpData(h, d)
  PROVE  SpeakersMarked'
<1> USE TypeParts
<1> SUFFICES ASSUME NEW s \in VoiceStreams PROVE Marked(s)'
  BY DEF SpeakersMarked
<1>0. s \in Streams /\ d \in Streams /\ Marked(s) /\ s # d
  BY VoiceAreStreams DEF SpeakersMarked, DataStreams
<1>1. UNCHANGED <<claim, tomb>>
  BY DEF ObpData, HbpData
<1>2. spoke'[s] = spoke[s]
  BY <1>0 DEF ObpData, HbpData, Spoken, SpokeOK
<1>3. ASSUME NEW R, \A x \in OBPs : R[x] \in [Streams -> Records] /\ R[x][s] = rec[x][s], NEW i
      PROVE  \A x \in OBPs : DataStubs(R, i, d)[x][s] = rec[x][s]
  BY <1>0, <1>3 DEF DataStubs
<1>4. \A x \in OBPs : rec'[x][s] = rec[x][s]
  <2>1. ASSUME NEW h \in HBPs, HbpData(h, d) PROVE \A x \in OBPs : rec'[x][s] = rec[x][s]
    <3>1. \A x \in OBPs : rec[x] \in [Streams -> Records] /\ rec[x][s] = rec[x][s]
      BY DEF RecOK, RecTables
    <3> QED BY <1>3, <2>1, <3>1 DEF HbpData
  <2>2. ASSUME NEW o \in OBPs, ObpData(o, d) PROVE \A x \in OBPs : rec'[x][s] = rec[x][s]
    <3> DEFINE R == [rec EXCEPT ![o][d] = DataRec(o, d)]
    <3>0. DataRec(o, d) \in Records
      BY <1>0, DataRecType
    <3>1. \A x \in OBPs : R[x] \in [Streams -> Records] /\ R[x][s] = rec[x][s]
      BY <1>0, <3>0 DEF RecOK, RecTables
    <3>2. rec' = R \/ rec' = DataStubs(R, o, d)
      BY <2>2 DEF ObpData
    <3> HIDE DEF R
    <3> QED BY <1>3, <3>1, <3>2
  <2> QED BY <2>1, <2>2
<1> QED BY <1>0, <1>1, <1>2, <1>4, MarkKept

LEMMA TrimKeepsMarks ==
  ASSUME TypeOK, SpeakersMarked, Trim
  PROVE  SpeakersMarked'
<1> USE TypeParts
<1> SUFFICES ASSUME NEW s \in VoiceStreams PROVE Marked(s)'
  BY DEF SpeakersMarked
<1>0. s \in Streams /\ Marked(s)
  BY VoiceAreStreams DEF SpeakersMarked
<1>1. UNCHANGED <<claim, tomb, spoke>>
  BY DEF Trim
<1>2. ASSUME NEW x \in OBPs, NEW a \in Int, a < StreamTO, HoldsStream(x, s, a)
      PROVE  rec'[x][s] = rec[x][s]
  <2>1. rec[x][s].last \in Int
    BY <1>0 DEF RecOK, RecTables, Records, Ages
  <2>2. ~Expired(x, s)
    BY <1>2, <2>1, TimeAssumption DEF HoldsStream, Expired
  <2> QED BY <1>0, <2>2 DEF Trim
<1>3. spoke[s].age \in Int /\ spoke[s].by \in Systems \cup {NoStream}
  BY <1>0 DEF SpokeOK
<1> QED BY <1>0, <1>1, <1>2, <1>3 DEF Marked, HoldsClaim, HoldsStream, HasEnded

(* Marks grow old with the silence they stand for.                               *)
LEMMA TickKeepsMarks ==
  ASSUME TypeOK, SpeakersMarked, Tick
  PROVE  SpeakersMarked'
<1> USE TypeParts
<1> SUFFICES ASSUME NEW s \in VoiceStreams PROVE Marked(s)'
  BY DEF SpeakersMarked
<1>0. s \in Streams /\ Marked(s)
  BY VoiceAreStreams DEF SpeakersMarked
<1> DEFINE x == spoke[s].by
           a == spoke[s].age
<1>1. spoke[s] \in [by : Systems \cup {NoStream}, age : 0 .. StreamTO]
  BY <1>0 DEF SpokeOK
<1>2. spoke'[s] = IF a < StreamTO THEN [spoke[s] EXCEPT !.age = @ + 1] ELSE spoke[s]
  BY <1>0 DEF Tick
<1>3. spoke'[s].by = x
  BY <1>1, <1>2
<1>4. CASE x = NoStream \/ ~(a + 1 < StreamTO)
  <2>1. x = NoStream \/ ~(spoke'[s].age < StreamTO)
    BY <1>1, <1>2, <1>4, TimeAssumption
  <2> QED BY <1>3, <2>1 DEF Marked
<1>5. CASE x # NoStream /\ a + 1 < StreamTO
  <2>1. a < StreamTO /\ a \in Nat /\ x \in Systems /\ spoke'[s].age = a + 1
    BY <1>1, <1>2, <1>5, TimeAssumption
  <2>2. HoldsClaim(x, s, a) \/ HoldsStream(x, s, a) \/ HasEnded(x, s, a)
    BY <1>0, <1>5, <2>1 DEF Marked
  <2>3. CASE HoldsClaim(x, s, a)
    <3>1. claim[s] \in [by : HBPs, age : 0 .. ClaimTO - 1]
      BY <1>0, <2>3 DEF HoldsClaim, ClaimOK, ClaimType
    <3>9. claim[s].age + 1 < ClaimTO
      BY <1>5, <2>1, <2>3, <3>1, TimeAssumption DEF HoldsClaim
    <3>2. claim'[s] = [claim[s] EXCEPT !.age = @ + 1]
      <4>1. ~(claim[s].age + 1 >= ClaimTO)
        BY <3>1, <3>9, TimeAssumption
      <4>2. claim'[s] = AgedClaim(claim[s])
        BY <1>0 DEF Tick
      <4> QED BY <2>3, <4>1, <4>2 DEF HoldsClaim, AgedClaim
    <3>3. claim'[s].by = x /\ claim'[s].age = a + 1
      BY <2>3, <3>1, <3>2 DEF HoldsClaim
    <3>4. claim'[s] # NoClaim
      BY <2>3, <3>1, <3>3, SystemsAssumption DEF HoldsClaim, NoClaim
    <3> QED BY <1>3, <2>1, <2>3, <3>3, <3>4 DEF Marked, HoldsClaim
  <2>4. CASE HoldsStream(x, s, a)
    <3> DEFINE r == rec[x][s]
    <3>1. r \in Records
      BY <1>0, <2>4 DEF HoldsStream, RecOK, RecTables
    <3>2. r # NoRec
      BY <2>4 DEF HoldsStream, NoRec
    <3>3. rec'[x][s] = [r EXCEPT !.start = Older(@), !.last = Older(@)]
      BY <1>0, <2>4, <3>2 DEF Tick, HoldsStream
    <3>4. rec'[x][s].first = r.first /\ rec'[x][s].fin = r.fin /\ rec'[x][s].last = Older(r.last)
      BY <3>1, <3>3 DEF Records
    <3>5. Older(r.last) <= a + 1
      BY <2>1, <2>4, <3>1, TimeAssumption DEF HoldsStream, Records, Ages, Older, Cap
    <3> HIDE DEF r
    <3> QED BY <1>3, <2>1, <2>4, <3>4, <3>5 DEF Marked, HoldsStream, r
  <2>5. CASE HasEnded(x, s, a)
    <3>1. tomb[x][s] \in 0 .. KeepTO
      BY <1>0, <2>1, <2>5 DEF HasEnded, TombOK
    <3>2. ~(tomb[x][s] >= KeepTO)
      BY <1>5, <2>1, <2>5, <3>1, TimeAssumption DEF HasEnded
    <3>3. tomb'[x][s] = tomb[x][s] + 1
      BY <1>0, <2>1, <2>5, <3>2 DEF Tick, HasEnded
    <3>4. tomb'[x][s] # NoTomb /\ tomb'[x][s] <= a + 1
      BY <2>1, <2>5, <3>1, <3>3 DEF HasEnded, NoTomb
    <3> QED BY <1>3, <2>1, <3>4 DEF Marked, HasEnded
  <2> QED BY <2>2, <2>3, <2>4, <2>5
<1> QED BY <1>4, <1>5
LEMMA MarksStep ==
  ASSUME DataInv, SpeakersMarked, [DataNext]_allVars
  PROVE  SpeakersMarked'
<1> USE DEF DataInv
<1>1. ASSUME NEW o \in OBPs, NEW s \in VoiceStreams, NEW p \in Positions, ObpVoice(o, s, p)
      PROVE  SpeakersMarked'
  BY <1>1, VoiceKeepsMarks DEF ObpVoice
<1>2. ASSUME NEW h \in HBPs, NEW s \in VoiceStreams, NEW p \in Positions, HbpVoice(h, s, p)
      PROVE  SpeakersMarked'
  BY <1>2, VoiceKeepsMarks DEF HbpVoice
<1>3. ASSUME NEW d \in DataStreams,
             (\E o \in OBPs : ObpData(o, d)) \/ (\E h \in HBPs : HbpData(h, d))
      PROVE  SpeakersMarked'
  BY <1>3, DataKeepsMarks
<1>4. CASE UNCHANGED <<rec, claim, tomb, spoke>>
  BY <1>4 DEF SpeakersMarked, Marked, HoldsClaim, HoldsStream, HasEnded
<1>5. CASE Trim
  BY <1>5, TrimKeepsMarks
<1>6. CASE Tick
  BY <1>6, TickKeepsMarks
<1> QED BY <1>1, <1>2, <1>3, <1>4, <1>5, <1>6
        DEF DataNext, allVars, vars, PeerAsks, PeerLogin, PeerRefused, PeerLeaves, Elsewhere, KeepAlive, SourceQuench,
            SubMapTrimmer, DataTick

THEOREM MarksInvariance == DataSpec => []SpeakersMarked
<1>1. DataInit => SpeakersMarked
  BY VoiceAreStreams DEF DataInit, Init, Silent, SpeakersMarked, Marked
<1>2. DataInv /\ SpeakersMarked /\ [DataNext]_allVars => SpeakersMarked'
  BY MarksStep
<1> QED BY <1>1, <1>2, DataInvariant, PTL DEF DataSpec

LEMMA CutsInLawfully ==
  ASSUME TypeOK, SpeakersMarked, NEW h \in HBPs, NEW s \in VoiceStreams, NEW p,
         HbpContinues(h, s, p), spoke[s].by \notin {h, NoStream}, spoke[s].age < StreamTO
  PROVE  Ended(s) \/ Lineage(h, s) \/ claim[s].by = h
<1> USE TypeParts
<1> DEFINE x == spoke[s].by
           a == spoke[s].age
<1>0. x \in Systems /\ a \in 0 .. StreamTO
  BY VoiceAreStreams DEF SpokeOK
<1>1. HoldsClaim(x, s, a) \/ HoldsStream(x, s, a) \/ HasEnded(x, s, a)
  BY DEF SpeakersMarked, Marked
<1>2. ~HbpClaimed(h, s) /\ ~ObpFirst(h, s)
  BY DEF HbpContinues
<1>3. CASE HoldsClaim(x, s, a)
  BY <1>2, <1>3 DEF HoldsClaim, HbpClaimed
<1>4. CASE HoldsStream(x, s, a)
  <2>1. rec[x][s].last \in Int
    BY <1>4, VoiceAreStreams DEF HoldsStream, RecOK, RecTables, Records, Ages
  <2>2. rec[x][s].last < StreamTO
    BY <1>0, <1>4, <2>1, TimeAssumption DEF HoldsStream
  <2>3. x \in Claimants(rec, s)
    BY <1>4, <2>2 DEF HoldsStream, Claimants, Stamped
  <2> QED BY <1>2, <2>3 DEF ObpFirst
<1>5. CASE HasEnded(x, s, a)
  BY <1>0, <1>5 DEF HasEnded, Ended
<1> QED BY <1>1, <1>3, <1>4, <1>5

(* Which step makes a hotspot the speaker of a voice stream.                      *)
LEMMA NewSpeaker ==
  ASSUME TypeOK, [DataNext]_allVars, NEW h \in HBPs, NEW s \in VoiceStreams,
         spoke'[s].by = h, spoke[s].by # h
  PROVE  \E p \in Positions : HbpContinues(h, s, p)
<1> USE TypeParts
<1>0. s \in Streams /\ s \notin DataStreams /\ h \notin OBPs
  BY VoiceAreStreams, SystemsAssumption DEF DataStreams
<1>1. ~UNCHANGED spoke
  OBVIOUS
<1>2. ASSUME NEW i, NEW t \in Streams, Spoken(i, t) PROVE i = h /\ t = s
  BY <1>0, <1>2 DEF Spoken, SpokeOK
<1>3. ASSUME NEW o \in OBPs, NEW t \in VoiceStreams, NEW p \in Positions, ObpVoice(o, t, p)
      PROVE  FALSE
  <2>1. Spoken(o, t)
    BY <1>1, <1>3 DEF ObpVoice, ObpReceived, ObpDrops, ObpYields, ObpOutOfSequence, ObpOpens,
                      ObpContinues, Ignored
  <2> QED BY <1>0, <1>2, <2>1, VoiceAreStreams
<1>4. ASSUME NEW g \in HBPs, NEW t \in VoiceStreams, NEW p \in Positions, HbpVoice(g, t, p)
      PROVE  HbpContinues(h, s, p)
  <2>1. HbpContinues(g, t, p)
    BY <1>1, <1>4 DEF HbpVoice, HbpReceived, HbpDrops, HbpYields
  <2>2. Spoken(g, t)
    BY <2>1 DEF HbpContinues
  <2> QED BY <1>2, <2>1, <2>2, VoiceAreStreams
<1>5. ASSUME NEW d \in DataStreams, NEW i, ObpData(i, d) \/ HbpData(i, d)
      PROVE  FALSE
  <2>1. Spoken(i, d)
    BY <1>1, <1>5 DEF ObpData, HbpData
  <2> QED BY <1>0, <1>2, <2>1, VoiceAreStreams
<1>6. ~Tick
  <2>1. spoke[s] \in [by : Systems \cup {NoStream}, age : 0 .. StreamTO]
    BY <1>0 DEF SpokeOK
  <2>2. [spoke[s] EXCEPT !.age = @ + 1].by = spoke[s].by
    BY <2>1
  <2>3. Tick => spoke'[s] \in {spoke[s], [spoke[s] EXCEPT !.age = @ + 1]}
    BY <1>0 DEF Tick
  <2> QED BY <2>2, <2>3
<1> QED BY <1>1, <1>3, <1>4, <1>5, <1>6
        DEF DataNext, allVars, vars, PeerAsks, PeerLogin, PeerRefused, PeerLeaves, Elsewhere, KeepAlive, SourceQuench,
            Trim, SubMapTrimmer, DataTick

(* A hotspot only speaks on a stream that another system has just spoken on when    *)
(* that call has ended or its own is under way.                                 *)
THEOREM HotspotsWait == DataSpec => HotspotWaits
<1>1. ASSUME DataInv, SpeakersMarked, [DataNext]_allVars, NEW h \in HBPs, NEW s \in VoiceStreams,
             spoke'[s].by = h, spoke[s].by \notin {h, NoStream}, spoke[s].age < StreamTO
      PROVE  Ended(s) \/ Lineage(h, s) \/ claim[s].by = h
  <2>1. PICK p \in Positions : HbpContinues(h, s, p)
    BY <1>1, NewSpeaker DEF DataInv
  <2> QED BY <1>1, <2>1, CutsInLawfully DEF DataInv
<1>2. DataInv /\ SpeakersMarked /\ [DataNext]_allVars
        => [\A h \in HBPs, s \in VoiceStreams :
             /\ spoke'[s].by = h
             /\ spoke[s].by \notin {h, NoStream} /\ spoke[s].age < StreamTO
             => Ended(s) \/ Lineage(h, s) \/ claim[s].by = h]_vars
  BY <1>1
<1> QED BY <1>2, DataInvariant, MarksInvariance, PTL DEF DataSpec, HotspotWaits

-----------------------------------------------------------------------------
(* The stamps of a data stream: any two are in some order, and among any set of     *)
(* them one is the earliest.  The second part is what makes DataFirst well          *)
(* defined; it is inductive as it stands, because a new stamp is put last.          *)

Ordered(R, ord, d) ==
    /\ \A a, b \in Stamped(R, d) : a # b => <<a, b>> \in ord \/ <<b, a>> \in ord
    /\ \A T \in SUBSET Stamped(R, d) : T # {} => \E f \in T : \A x \in T : <<x, f>> \notin ord

StampsOrdered == \A d \in DataStreams : Ordered(rec, order[d], d)

(* Taking stamps away, with their places.                                        *)
LEMMA OrderedSubset ==
  ASSUME NEW R, NEW Q, NEW ord, NEW ord2, NEW d, Ordered(R, ord, d),
         Stamped(Q, d) \subseteq Stamped(R, d),
         \A a, b \in Stamped(Q, d) : <<a, b>> \in ord2 <=> <<a, b>> \in ord
  PROVE  Ordered(Q, ord2, d)
<1>1. \A a, b \in Stamped(Q, d) : a # b => <<a, b>> \in ord2 \/ <<b, a>> \in ord2
  BY DEF Ordered
<1>2. ASSUME NEW T \in SUBSET Stamped(Q, d), T # {}
      PROVE  \E f \in T : \A x \in T : <<x, f>> \notin ord2
  <2>1. T \in SUBSET Stamped(R, d)
    OBVIOUS
  <2>2. PICK f \in T : \A x \in T : <<x, f>> \notin ord
    BY <1>2, <2>1 DEF Ordered
  <2> QED BY <2>2
<1> QED BY <1>1, <1>2 DEF Ordered

LEMMA HardenedStamped ==
  ASSUME RecOK, NEW o \in OBPs, NEW d \in Streams
  PROVE  Stamped(Hardened(o, d), d) = Stamped(rec, d) \cup {o}
<1>1. rec[o][d] \in Records
  BY DEF RecOK, RecTables
<1>2. [rec[o][d] EXCEPT !.first = TRUE].first = TRUE
  BY <1>1 DEF Records
<1>3. Hardened(o, d)[o][d].first = TRUE /\ \A x \in OBPs \ {o} : Hardened(o, d)[x] = rec[x]
  BY <1>2 DEF Hardened, RecOK, RecTables
<1> QED BY <1>3 DEF Stamped

(* A link that had no stamp gets the last place.                                  *)
LEMMA OrderedHardened ==
  ASSUME RecOK, NEW o \in OBPs, NEW d \in Streams, Ordered(rec, order[d], d)
  PROVE  Ordered(Hardened(o, d), HardenedOrder(o, d), d)
<1> DEFINE S   == Stamped(rec, d)
           ord == HardenedOrder(o, d)
<1>0. Stamped(Hardened(o, d), d) = S \cup {o}
  BY HardenedStamped
<1>1. CASE rec[o][d].first
  <2>1. o \in S /\ ord = order[d]
    BY <1>1 DEF Stamped, HardenedOrder
  <2> QED BY <1>0, <2>1 DEF Ordered
<1>2. CASE ~rec[o][d].first
  <2>0. o \notin S
    BY <1>2 DEF Stamped
  <2>1. /\ \A a, b \in S : <<a, b>> \in ord <=> <<a, b>> \in order[d]
        /\ \A a \in S : <<a, o>> \in ord /\ <<o, a>> \notin ord
        /\ <<o, o>> \notin ord
    <3>1. ord = {e \in order[d] : e[1] \notin {o} /\ e[2] \notin {o}} \cup {<<x, o>> : x \in S \ {o}}
      BY <1>2 DEF HardenedOrder, Newest, Drop
    <3> HIDE DEF ord
    <3> QED BY <2>0, <3>1
  <2> HIDE DEF ord
  <2>2. \A a, b \in S : a # b => <<a, b>> \in order[d] \/ <<b, a>> \in order[d]
    BY DEF Ordered
  <2>3. ASSUME NEW T \in SUBSET (S \cup {o}), T # {}
        PROVE  \E f \in T : \A x \in T : <<x, f>> \notin ord
    <3>1. CASE T = {o}
      BY <2>1, <3>1
    <3>2. CASE T # {o}
      <4>1. T \ {o} \in SUBSET S /\ T \ {o} # {}
        BY <2>3, <3>2
      <4>2. PICK f \in T \ {o} : \A x \in T \ {o} : <<x, f>> \notin order[d]
        BY <4>1 DEF Ordered
      <4>3. ASSUME NEW x \in T PROVE <<x, f>> \notin ord
        BY <2>1, <4>1, <4>2
      <4> QED BY <4>2, <4>3
    <3> QED BY <3>1, <3>2
  <2>4. \A a, b \in S \cup {o} : a # b => <<a, b>> \in ord \/ <<b, a>> \in ord
    BY <2>1, <2>2
  <2> QED BY <1>0, <2>3, <2>4 DEF Ordered, ord
<1> QED BY <1>1, <1>2

(* Forwarding data gives and takes no stamp.                                     *)
LEMMA StubsUnstamped ==
  ASSUME NEW R \in RecTables, NEW i, NEW d \in Streams, NEW t \in Streams
  PROVE  Stamped(DataStubs(R, i, d), t) = Stamped(R, t)
<1>1. ASSUME NEW o \in OBPs PROVE DataStubs(R, i, d)[o][t].first = R[o][t].first
  <2>1. R[o] \in [Streams -> Records] /\ R[o][d] \in Records
    BY DEF RecTables
  <2> DEFINE r == IF R[o][d] = NoRec THEN [NoRec EXCEPT !.by = i]
                  ELSE [R[o][d] EXCEPT !.last = 0]
  <2>2. r.first = R[o][d].first
    BY <2>1 DEF NoRec, Records
  <2>3. DataStubs(R, i, d)[o] = R[o] \/ DataStubs(R, i, d)[o] = [R[o] EXCEPT ![d] = r]
    BY DEF DataStubs
  <2> HIDE DEF r
  <2>4. [R[o] EXCEPT ![d] = r][t] = IF t = d THEN r ELSE R[o][t]
    BY <2>1
  <2>5. CASE t = d
    BY <2>2, <2>3, <2>4, <2>5
  <2>6. CASE t # d
    BY <2>3, <2>4, <2>6
  <2> QED BY <2>5, <2>6
<1> QED BY <1>1 DEF Stamped

LEMMA DataRecStamped ==
  ASSUME RecOK, NEW o \in OBPs, NEW d \in Streams, NEW t \in Streams
  PROVE  Stamped([rec EXCEPT ![o][d] = DataRec(o, d)], t)
           = IF t = d THEN Stamped(Hardened(o, d), d) ELSE Stamped(rec, t)
<1>1. rec[o][d] \in Records /\ rec \in RecTables
  BY DEF RecOK, RecTables
<1>2. DataRec(o, d).first = TRUE
  BY <1>1 DEF DataRec, NewRec, NoRec, Records
<1>3. \A x \in OBPs : [rec EXCEPT ![o][d] = DataRec(o, d)][x][t].first
                        = IF x = o /\ t = d THEN TRUE ELSE rec[x][t].first
  BY <1>1, <1>2 DEF RecTables
<1>4. CASE t = d
  <2>1. Stamped([rec EXCEPT ![o][d] = DataRec(o, d)], t) = Stamped(rec, d) \cup {o}
    BY <1>3, <1>4 DEF Stamped
  <2> QED BY <1>4, <2>1, HardenedStamped
<1>5. CASE t # d
  BY <1>3, <1>5 DEF Stamped
<1> QED BY <1>4, <1>5

(* The link whose packet goes on has the earliest stamp of all that have one.       *)
LEMMA FirstIsEarliest ==
  ASSUME RecOK, NEW o \in OBPs, NEW d \in Streams, Ordered(rec, order[d], d),
         DataFirst(o, d) = o, NEW x \in Stamped(rec, d), x # o
  PROVE  <<o, x>> \in order[d]
<1> DEFINE S   == Stamped(Hardened(o, d), d)
           ord == HardenedOrder(o, d)
<1>1. Ordered(Hardened(o, d), ord, d)
  BY OrderedHardened
<1>2. S = Stamped(rec, d) \cup {o}
  BY HardenedStamped
<1>3. \E f \in S : \A y \in S : <<y, f>> \notin ord
  BY <1>1, <1>2 DEF Ordered
<1>4. \A y \in S : <<y, o>> \notin ord
  BY <1>3 DEF DataFirst
<1>5. <<o, x>> \in ord
  BY <1>1, <1>2, <1>4 DEF Ordered
<1>6. <<x, o>> \notin ord
  BY <1>2, <1>4
<1>7. CASE rec[o][d].first
  BY <1>5, <1>7 DEF HardenedOrder
<1>8. CASE ~rec[o][d].first
  BY <1>6, <1>8 DEF HardenedOrder, Newest
<1> QED BY <1>7, <1>8

LEMMA OrderStep ==
  ASSUME DataInv, StampsOrdered, [DataNext]_allVars
  PROVE  StampsOrdered'
<1> USE TypeParts DEF DataInv
<1> SUFFICES ASSUME NEW t \in DataStreams PROVE Ordered(rec', order'[t], t)
  BY DEF StampsOrdered
<1>0. t \in Streams /\ t \notin VoiceStreams /\ Ordered(rec, order[t], t)
      /\ rec \in RecTables /\ order \in OrderType
  BY VoiceAreStreams DEF StampsOrdered, DataStreams, RecOK
<1>1. CASE Stamped(rec', t) = Stamped(rec, t) /\ order'[t] = order[t]
  BY <1>0, <1>1, OrderedSubset
<1>2. CASE UNCHANGED <<rec, order>>
  BY <1>0, <1>2
<1>3. ASSUME NEW o \in OBPs, NEW s \in VoiceStreams, NEW p \in Positions, ObpVoice(o, s, p)
      PROVE  Ordered(rec', order'[t], t)
  <2>1. s \in Streams /\ s # t /\ ObpReceived(o, s, p) /\ o \in Systems
    BY <1>0, <1>3, VoiceAreStreams DEF ObpVoice, Systems
  <2>2. \A x \in OBPs : rec'[x][t] = rec[x][t]
    BY <1>0, <2>1, OtherStream
  <2>3. order'[t] = order[t]
    BY <1>0, <2>1 DEF OrderType, ObpReceived, ObpDrops, ObpYields, ObpOutOfSequence, ObpOpens,
                      ObpContinues, Ignored
  <2> QED BY <1>1, <2>2, <2>3 DEF Stamped
<1>4. ASSUME NEW h \in HBPs, NEW s \in VoiceStreams, NEW p \in Positions, HbpVoice(h, s, p)
      PROVE  Ordered(rec', order'[t], t)
  <2>1. s \in Streams /\ s # t /\ HbpReceived(h, s, p) /\ h \in Systems
    BY <1>0, <1>4, VoiceAreStreams DEF HbpVoice, Systems
  <2>2. \A x \in OBPs : rec'[x][t] = rec[x][t]
    BY <1>0, <2>1, OtherStream
  <2>3. order'[t] = order[t]
    BY <1>0, <2>1 DEF OrderType, HbpReceived, HbpDrops, HbpYields, HbpContinues
  <2> QED BY <1>1, <2>2, <2>3 DEF Stamped
<1>5. ASSUME NEW o \in OBPs, NEW d \in DataStreams, ObpData(o, d)
      PROVE  Ordered(rec', order'[t], t)
  <2> DEFINE R == [rec EXCEPT ![o][d] = DataRec(o, d)]
  <2>0. d \in Streams
    BY VoiceAreStreams
  <2>1. R \in RecTables
    BY <2>0, DataRecType, SetRecord
  <2>2. rec' = R \/ rec' = DataStubs(R, o, d)
    BY <1>5 DEF ObpData
  <2>3. Stamped(R, t) = IF t = d THEN Stamped(Hardened(o, d), d) ELSE Stamped(rec, t)
    BY <1>0, <2>0, DataRecStamped
  <2> HIDE DEF R
  <2>4. Stamped(rec', t) = Stamped(R, t)
    BY <1>0, <2>0, <2>1, <2>2, StubsUnstamped
  <2>5. order'[t] = IF t = d THEN HardenedOrder(o, d) ELSE order[t]
    BY <1>0, <1>5 DEF ObpData, OrderType
  <2>6. CASE t # d
    BY <1>1, <2>3, <2>4, <2>5, <2>6
  <2>7. CASE t = d
    <3>1. Ordered(Hardened(o, d), HardenedOrder(o, d), d)
      BY <1>0, <2>7, OrderedHardened
    <3> QED BY <2>3, <2>4, <2>5, <2>7, <3>1 DEF Ordered
  <2> QED BY <2>6, <2>7
<1>6. ASSUME NEW h \in HBPs, NEW d \in DataStreams, HbpData(h, d)
      PROVE  Ordered(rec', order'[t], t)
  BY <1>0, <1>1, <1>6, StubsUnstamped, VoiceAreStreams DEF HbpData
<1>7. CASE Trim
  <2>1. \A x \in OBPs : rec'[x][t] = IF Expired(x, t) THEN NoRec ELSE rec[x][t]
    BY <1>0, <1>7 DEF Trim
  <2>2. Stamped(rec', t) = Stamped(rec, t) \ {x \in OBPs : Expired(x, t)}
    BY <2>1 DEF Stamped, NoRec
  <2>3. order'[t] = Drop(order[t], {x \in OBPs : Expired(x, t)})
    BY <1>0, <1>7 DEF Trim
  <2>4. \A a, b \in Stamped(rec', t) : <<a, b>> \in order'[t] <=> <<a, b>> \in order[t]
    BY <2>2, <2>3 DEF Drop
  <2> QED BY <1>0, <2>2, <2>4, OrderedSubset
<1>8. CASE Tick
  <2>1. ASSUME NEW x \in OBPs PROVE rec'[x][t].first = rec[x][t].first
    <3>1. rec[x][t] \in Records
      BY <1>0 DEF RecTables
    <3>2. [rec[x][t] EXCEPT !.start = Older(@), !.last = Older(@)].first = rec[x][t].first
      BY <3>1 DEF Records
    <3> QED BY <1>0, <1>8, <3>2 DEF Tick
  <2> QED BY <1>1, <1>8, <2>1 DEF Tick, Stamped
<1> QED BY <1>2, <1>3, <1>4, <1>5, <1>6, <1>7, <1>8
        DEF DataNext, allVars, vars, PeerAsks, PeerLogin, PeerRefused, PeerLeaves, Elsewhere, KeepAlive, SourceQuench,
            SubMapTrimmer, DataTick

THEOREM OrderInvariance == DataSpec => []StampsOrdered
<1>1. DataInit => StampsOrdered
  BY VoiceAreStreams DEF DataInit, Init, StampsOrdered, Ordered, Stamped, NoRec
<1>2. DataInv /\ StampsOrdered /\ [DataNext]_allVars => StampsOrdered'
  BY OrderStep
<1> QED BY <1>1, <1>2, DataInvariant, PTL DEF DataSpec

(* Which step makes a link the speaker of a data stream.                          *)
LEMMA NewDataSpeaker ==
  ASSUME TypeOK, [DataNext]_allVars, NEW o \in OBPs, NEW d \in DataStreams,
         spoke'[d].by = o, spoke[d].by # o
  PROVE  DataFirst(o, d) = o
<1> USE TypeParts
<1>0. d \in Streams /\ d \notin VoiceStreams /\ o \notin HBPs
  BY VoiceAreStreams, SystemsAssumption DEF DataStreams
<1>1. ~UNCHANGED spoke
  OBVIOUS
<1>2. ASSUME NEW i, NEW t \in Streams, Spoken(i, t) PROVE i = o /\ t = d
  BY <1>0, <1>2 DEF Spoken, SpokeOK
<1>3. ASSUME NEW i, NEW t \in VoiceStreams, Spoken(i, t) PROVE FALSE
  BY <1>0, <1>2, <1>3, VoiceAreStreams
<1>4. ASSUME NEW i \in OBPs, NEW t \in VoiceStreams, NEW p \in Positions, ObpVoice(i, t, p)
      PROVE  FALSE
  BY <1>1, <1>3, <1>4 DEF ObpVoice, ObpReceived, ObpDrops, ObpYields, ObpOutOfSequence, ObpOpens,
                          ObpContinues, Ignored
<1>5. ASSUME NEW h \in HBPs, NEW t \in VoiceStreams, NEW p \in Positions, HbpVoice(h, t, p)
      PROVE  FALSE
  BY <1>1, <1>3, <1>5 DEF HbpVoice, HbpReceived, HbpDrops, HbpYields, HbpContinues
<1>6. ASSUME NEW h \in HBPs, NEW t \in DataStreams, HbpData(h, t) PROVE FALSE
  BY <1>0, <1>2, <1>6, VoiceAreStreams DEF HbpData
<1>7. ASSUME NEW i \in OBPs, NEW t \in DataStreams, ObpData(i, t) PROVE DataFirst(o, d) = o
  <2>1. Spoken(i, t) /\ ~DataYields(i, t)
    BY <1>1, <1>7 DEF ObpData
  <2>2. i = o /\ t = d
    BY <1>2, <2>1, VoiceAreStreams
  <2> QED BY <2>1, <2>2 DEF DataYields
<1>8. ~Tick
  <2>1. spoke[d] \in [by : Systems \cup {NoStream}, age : 0 .. StreamTO]
    BY <1>0 DEF SpokeOK
  <2>2. [spoke[d] EXCEPT !.age = @ + 1].by = spoke[d].by
    BY <2>1
  <2>3. Tick => spoke'[d] \in {spoke[d], [spoke[d] EXCEPT !.age = @ + 1]}
    BY <1>0 DEF Tick
  <2> QED BY <2>2, <2>3
<1> QED BY <1>1, <1>4, <1>5, <1>6, <1>7, <1>8
        DEF DataNext, allVars, vars, PeerAsks, PeerLogin, PeerRefused, PeerLeaves, Elsewhere, KeepAlive, SourceQuench,
            Trim, SubMapTrimmer, DataTick

(* A data stream changes from one link to another only when the first has lost its   *)
(* stamp or stands behind.                                                      *)
THEOREM DataComesFromFirst == DataSpec => DataFromFirst
<1>1. ASSUME DataInv, StampsOrdered, [DataNext]_allVars, NEW d \in DataStreams, NEW o \in OBPs,
             spoke'[d].by = o, spoke[d].by \in OBPs \ {o}, rec[spoke[d].by][d].first
      PROVE  <<o, spoke[d].by>> \in order[d]
  <2>1. DataFirst(o, d) = o
    BY <1>1, NewDataSpeaker DEF DataInv
  <2>2. spoke[d].by \in Stamped(rec, d)
    BY <1>1 DEF Stamped
  <2>3. RecOK /\ d \in Streams /\ Ordered(rec, order[d], d)
    BY <1>1, TypeParts, VoiceAreStreams DEF DataInv, StampsOrdered
  <2> QED BY <1>1, <2>1, <2>2, <2>3, FirstIsEarliest
<1>2. DataInv /\ StampsOrdered /\ [DataNext]_allVars
        => [\A d \in DataStreams, o \in OBPs :
             /\ spoke'[d].by = o
             /\ spoke[d].by \in OBPs \ {o}
             => ~rec[spoke[d].by][d].first \/ <<o, spoke[d].by>> \in order[d]]_allVars
  BY <1>1
<1> QED BY <1>2, DataInvariant, OrderInvariance, PTL DEF DataSpec, DataFromFirst
=============================================================================
