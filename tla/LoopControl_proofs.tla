-------------------------- MODULE LoopControl_proofs --------------------------
(***************************************************************************)
(* What each handler of LoopControl does to the stream tables, for any number  *)
(* of systems and streams: types, and who may hold a claim.  UnitData_proofs    *)
(* puts the handlers together.                                               *)
(***************************************************************************)
EXTENDS LoopControl, TLAPS

RecTables == [OBPs -> [Streams -> Records]]
OrderType == [Streams -> SUBSET (OBPs \X OBPs)]
ClaimType == {NoClaim} \cup [by : HBPs, age : 0 .. ClaimTO - 1]

(* TypeOK, by table.                                                         *)
RecOK   == rec \in RecTables /\ order \in OrderType
SlotOK  == slot \in [HBPs -> Slots]
ClaimOK == claim \in [Streams -> ClaimType]
TombOK  == tomb \in [Systems -> [Streams -> {NoTomb} \cup 0 .. KeepTO]]
LinkOK  == /\ quench \in [OBPs -> [TGs -> Streams \cup {NoStream}]]
           /\ bcka \in [OBPs -> {Never} \cup Ages]
SpokeOK == spoke \in [Streams -> [by : Systems \cup {NoStream}, age : 0 .. StreamTO]]

LEMMA TypeParts ==
  TypeOK <=> net \in Networks /\ RecOK /\ SlotOK /\ ClaimOK /\ TombOK /\ LinkOK /\ SpokeOK
  BY DEF TypeOK, RecOK, RecTables, OrderType, SlotOK, ClaimOK, ClaimType, TombOK, LinkOK, SpokeOK

LEMMA TypePartsNext ==
  ASSUME net' \in Networks, RecOK', SlotOK', ClaimOK', TombOK', LinkOK', SpokeOK'
  PROVE  TypeOK'
  BY DEF TypeOK, RecOK, RecTables, OrderType, SlotOK, ClaimOK, ClaimType, TombOK, LinkOK, SpokeOK

LEMMA PartsKept ==
  /\ RecOK /\ UNCHANGED <<rec, order>> => RecOK'
  /\ SlotOK /\ UNCHANGED slot => SlotOK'
  /\ ClaimOK /\ UNCHANGED claim => ClaimOK'
  /\ TombOK /\ UNCHANGED tomb => TombOK'
  /\ LinkOK /\ UNCHANGED <<quench, bcka>> => LinkOK'
  /\ SpokeOK /\ UNCHANGED spoke => SpokeOK'
  BY DEF RecOK, SlotOK, ClaimOK, TombOK, LinkOK, SpokeOK

-----------------------------------------------------------------------------
(* Records, stamps and stubs.                                                *)

LEMMA AgeZero == 0 \in Ages /\ Cap \in Ages /\ \A a \in Ages : Older(a) \in Ages
  BY TimeAssumption DEF Ages, Cap, Older

LEMMA NoRecType == NoRec \in Records
  BY AgeZero DEF NoRec, Records, None

LEMMA SeqType == \A p \in Positions : SeqOf(p) \in 0 .. SeqMod - 1
  BY PacketAssumption DEF Positions, SeqOf

LEMMA NewRecType ==
  ASSUME NEW o \in OBPs, NEW p
  PROVE  NewRec(o, p) \in Records
<1>1. o \in Systems \cup {NoStream} /\ (p = Final) \in BOOLEAN
  BY DEF Systems
<1> QED BY <1>1, NoRecType DEF NewRec, Records

LEMMA StubType ==
  ASSUME NEW R \in RecTables, NEW i \in Systems, NEW s \in Streams, NEW o \in OBPs, NEW gen
  PROVE  StubRec(R, i, s, o, gen) \in Records
<1>1. R[o][s] \in Records
  BY DEF RecTables
<1>2. [NoRec EXCEPT !.by = i] \in Records
  BY NoRecType DEF Records
<1>3. [R[o][s] EXCEPT !.last = 0] \in Records
  BY <1>1, AgeZero DEF Records
<1> QED BY <1>2, <1>3 DEF StubRec

LEMMA StubsType ==
  ASSUME NEW R \in RecTables, NEW i \in Systems, NEW s \in Streams, NEW gen
  PROVE  Stubs(R, i, s, gen) \in RecTables
<1>1. ASSUME NEW o \in OBPs
      PROVE  (IF o \in ObpTargets(i, s) THEN [R[o] EXCEPT ![s] = StubRec(R, i, s, o, gen)]
              ELSE R[o]) \in [Streams -> Records]
  BY StubType DEF RecTables
<1> QED BY <1>1 DEF Stubs, RecTables

LEMMA SetRecord ==
  ASSUME RecOK, NEW o \in OBPs, NEW s \in Streams, NEW r \in Records
  PROVE  [rec EXCEPT ![o][s] = r] \in RecTables
  BY DEF RecOK, RecTables

LEMMA DropType ==
  ASSUME NEW ord \in SUBSET (OBPs \X OBPs), NEW X
  PROVE  Drop(ord, X) \in SUBSET (OBPs \X OBPs)
  BY DEF Drop

LEMMA NewestType ==
  ASSUME NEW R, NEW ord \in SUBSET (OBPs \X OBPs), NEW s, NEW o \in OBPs
  PROVE  Newest(R, ord, s, o) \in SUBSET (OBPs \X OBPs)
  BY DropType DEF Newest, Stamped

LEMMA HardenedType ==
  ASSUME RecOK, NEW o \in OBPs, NEW s \in Streams
  PROVE  HardenedOrder(o, s) \in SUBSET (OBPs \X OBPs)
  BY NewestType DEF HardenedOrder, RecOK, OrderType

LEMMA SetOrder ==
  ASSUME RecOK, NEW s \in Streams, NEW ord \in SUBSET (OBPs \X OBPs)
  PROVE  [order EXCEPT ![s] = ord] \in OrderType
  BY DEF RecOK, OrderType

LEMMA IgnoredKeeps ==
  ASSUME RecOK, NEW o \in OBPs, NEW s \in Streams, NEW r \in Records, Ignored(o, s, r)
  PROVE  RecOK'
<1>1. [r EXCEPT !.first = TRUE] \in Records
  BY DEF Records
<1>2. rec' \in RecTables /\ order' \in OrderType
  BY <1>1, SetRecord, SetOrder, HardenedType DEF Ignored
<1> QED BY <1>2 DEF RecOK

-----------------------------------------------------------------------------
(* Slots, tombstones and the history.                                         *)

LEMMA TypeOfFrame == \A p : Type(p) \in SlotTypes
  BY DEF Type, SlotTypes

LEMMA SentType ==
  ASSUME SlotOK, NEW i, NEW s \in Streams, NEW p
  PROVE  /\ Sent(slot, i, s, p) \in [HBPs -> Slots]
         /\ \A h \in HBPs : /\ Sent(slot, i, s, p)[h].rx = slot[h].rx
                            /\ Sent(slot, i, s, p)[h].rxType = slot[h].rxType
                            /\ Sent(slot, i, s, p)[h].rxAge = slot[h].rxAge
<1>1. \A h \in HBPs : slot[h] \in Slots
  BY DEF SlotOK
<1>2. ASSUME NEW h \in HBPs
      PROVE  [slot[h] EXCEPT !.tx = s, !.txType = Type(p), !.txAge = 0] \in Slots
  BY <1>1, TypeOfFrame, AgeZero DEF Slots
<1>3. ASSUME NEW h \in HBPs
      PROVE  LET l == [slot[h] EXCEPT !.tx = s, !.txType = Type(p), !.txAge = 0]
             IN  l.rx = slot[h].rx /\ l.rxType = slot[h].rxType /\ l.rxAge = slot[h].rxAge
  BY <1>1 DEF Slots
<1> QED BY <1>1, <1>2, <1>3 DEF Sent

LEMMA BuriedKeeps ==
  ASSUME TombOK, NEW i \in Systems, NEW s \in Streams, NEW p, Buried(i, s, p)
  PROVE  TombOK'
<1>1. 0 \in 0 .. KeepTO
  BY TimeAssumption
<1> QED BY <1>1 DEF Buried, TombOK

LEMMA SpokenKeeps ==
  ASSUME SpokeOK, NEW i \in Systems, NEW s \in Streams, Spoken(i, s)
  PROVE  SpokeOK'
<1>1. 0 \in 0 .. StreamTO
  BY TimeAssumption
<1> QED BY <1>1 DEF Spoken, SpokeOK

LEMMA HeardLink ==
  ASSUME LinkOK, NEW o \in OBPs, bcka' = [bcka EXCEPT ![o] = 0], quench' = quench
  PROVE  LinkOK'
  BY AgeZero DEF LinkOK

(* Claims stay honest when slots only change what they transmit.               *)
LEMMA HonestKept ==
  ASSUME ClaimHonest, claim' = claim, ClaimOK,
         \A h \in HBPs : /\ slot'[h].rx = slot[h].rx
                         /\ slot'[h].rxType = slot[h].rxType
                         /\ slot'[h].rxAge = slot[h].rxAge
  PROVE  ClaimHonest'
  BY DEF ClaimHonest, ClaimOK, ClaimType

-----------------------------------------------------------------------------
(* The handlers.                                                             *)

LEMMA ObpOpensKeeps ==
  ASSUME TypeOK, ClaimHonest, NEW o \in OBPs, NEW s \in Streams, NEW p, ObpOpens(o, s, p)
  PROVE  RecOK' /\ SlotOK' /\ ClaimOK' /\ TombOK' /\ SpokeOK' /\ ClaimHonest'
<1> USE TypeParts
<1>0. o \in Systems
  BY DEF Systems
<1> DEFINE R == [rec EXCEPT ![o][s] = NewRec(o, p)]
<1>1. R \in RecTables
  BY NewRecType, SetRecord
<1>2. rec' \in RecTables
  BY <1>0, <1>1, StubsType DEF ObpOpens
<1>3. Newest(rec, order[s], s, o) \in SUBSET (OBPs \X OBPs)
  BY NewestType DEF RecOK, OrderType
<1>4. order' \in OrderType
  BY <1>3, DropType, SetOrder DEF ObpOpens, Unstamped
<1>5. claim' = claim /\ slot' = Sent(slot, o, s, p) /\ Buried(o, s, p) /\ Spoken(o, s)
  BY DEF ObpOpens
<1> QED BY <1>0, <1>2, <1>4, <1>5, SentType, BuriedKeeps, SpokenKeeps, HonestKept, PartsKept
        DEF RecOK, SlotOK

LEMMA ObpContinuesKeeps ==
  ASSUME TypeOK, ClaimHonest, NEW o \in OBPs, NEW s \in Streams, NEW p \in Positions,
         ObpContinues(o, s, p)
  PROVE  RecOK' /\ SlotOK' /\ ClaimOK' /\ TombOK' /\ SpokeOK' /\ ClaimHonest'
<1> USE TypeParts
<1>0. o \in Systems
  BY DEF Systems
<1> DEFINE r == [rec[o][s] EXCEPT !.last = 0, !.first = TRUE, !.fin = (p = Final),
                                  !.seq = IF p = Final THEN None ELSE SeqOf(p)]
           R == [rec EXCEPT ![o][s] = r]
<1>1. rec[o][s] \in Records
  BY DEF RecOK, RecTables
<1>2. r \in Records
  BY <1>1, AgeZero, SeqType DEF Records
<1>3. R \in RecTables
  BY <1>2, SetRecord
<1>4. rec' \in RecTables
  BY <1>0, <1>3, StubsType DEF ObpContinues
<1>5. order' \in OrderType
  BY HardenedType, DropType, SetOrder DEF ObpContinues, Unstamped
<1>6. claim' = claim /\ slot' = Sent(slot, o, s, p) /\ Buried(o, s, p) /\ Spoken(o, s)
  BY DEF ObpContinues
<1> QED BY <1>0, <1>4, <1>5, <1>6, SentType, BuriedKeeps, SpokenKeeps, HonestKept, PartsKept
        DEF RecOK, SlotOK

(* A packet that goes no further leaves everything but its own record alone.       *)
LEMMA ObpStopsKeeps ==
  ASSUME TypeOK, ClaimHonest, NEW o \in OBPs, NEW s \in Streams, NEW p,
         ObpDrops(o, s, p) \/ ObpYields(o, s, p) \/ ObpOutOfSequence(o, s, p)
  PROVE  RecOK' /\ UNCHANGED <<slot, claim, tomb, spoke>>
<1> USE TypeParts
<1>0. rec[o][s] \in Records
  BY DEF RecOK, RecTables
<1>1. [rec[o][s] EXCEPT !.last = 0] \in Records
  BY <1>0, AgeZero DEF Records
<1>2. CASE \E r \in Records : Ignored(o, s, r)
  BY <1>2, IgnoredKeeps DEF Ignored
<1>3. CASE UNCHANGED <<rec, order, slot, claim, tomb, spoke>>
  BY <1>3, PartsKept
<1> QED BY <1>0, <1>1, <1>2, <1>3 DEF ObpDrops, ObpYields, ObpOutOfSequence

LEMMA ObpReceivedKeeps ==
  ASSUME TypeOK, ClaimHonest, NEW o \in OBPs, NEW s \in Streams, NEW p \in Positions,
         ObpReceived(o, s, p)
  PROVE  TypeOK' /\ ClaimHonest'
<1> USE TypeParts
<1>1. net' \in Networks /\ LinkOK'
  BY HeardLink DEF ObpReceived, Arrives
<1>2. CASE ObpOpens(o, s, p)
  BY <1>1, <1>2, ObpOpensKeeps, TypePartsNext
<1>3. CASE ObpContinues(o, s, p)
  BY <1>1, <1>3, ObpContinuesKeeps, TypePartsNext
<1>4. CASE ObpDrops(o, s, p) \/ ObpYields(o, s, p) \/ ObpOutOfSequence(o, s, p)
  BY <1>1, <1>4, ObpStopsKeeps, PartsKept, HonestKept, TypePartsNext
<1> QED BY <1>2, <1>3, <1>4 DEF ObpReceived

LEMMA StatusType ==
  ASSUME SlotOK, NEW h \in HBPs, NEW s, NEW p
  PROVE  /\ HbpStatus(h, s, p) \in Slots
         /\ HbpStatus(h, s, p).rx = slot[h].rx
         /\ HbpStatus(h, s, p).rxType = slot[h].rxType
         /\ HbpStatus(h, s, p).rxAge = slot[h].rxAge
<1>1. slot[h] \in Slots
  BY DEF SlotOK
<1> DEFINE l == [slot[h] EXCEPT !.start = 0, !.seq = None]
<1>2. l \in Slots /\ l.rx = slot[h].rx /\ l.rxType = slot[h].rxType /\ l.rxAge = slot[h].rxAge
  BY <1>1, AgeZero DEF Slots
<1> QED BY <1>1, <1>2 DEF HbpStatus

LEMMA HbpYieldsKeeps ==
  ASSUME TypeOK, ClaimHonest, NEW h \in HBPs, NEW s \in Streams, NEW p, HbpYields(h, s, p)
  PROVE  SlotOK' /\ ClaimHonest' /\ UNCHANGED <<rec, order, claim, tomb, spoke>>
<1> USE TypeParts
<1>1. slot' = [slot EXCEPT ![h] = HbpStatus(h, s, p)] /\ UNCHANGED <<rec, order, claim, tomb, spoke>>
  BY DEF HbpYields
<1>2. SlotOK'
  BY <1>1, StatusType DEF SlotOK
<1>3. \A g \in HBPs : /\ slot'[g].rx = slot[g].rx
                      /\ slot'[g].rxType = slot[g].rxType
                      /\ slot'[g].rxAge = slot[g].rxAge
  BY <1>1, StatusType DEF SlotOK
<1> QED BY <1>1, <1>2, <1>3, HonestKept

(* The speaker's own slot, and the claim it leaves.                             *)
LEMMA HbpContinuesKeeps ==
  ASSUME TypeOK, ClaimHonest, NEW h \in HBPs, NEW s \in Streams, NEW p \in Positions,
         HbpContinues(h, s, p)
  PROVE  RecOK' /\ SlotOK' /\ ClaimOK' /\ TombOK' /\ SpokeOK' /\ ClaimHonest'
<1> USE TypeParts
<1>0. h \in Systems
  BY DEF Systems
<1> DEFINE l == HbpStatus(h, s, p)
           own == [l EXCEPT !.rx = s, !.rxType = Type(p), !.rxAge = 0,
                            !.seq = IF p = Final THEN None ELSE SeqOf(p)]
<1>1. RecOK'
  <2>1. rec' \in RecTables
    BY <1>0, StubsType DEF HbpContinues, RecOK
  <2>2. order' \in OrderType
    BY DropType, SetOrder DEF HbpContinues, Unstamped, RecOK, OrderType
  <2> QED BY <2>1, <2>2 DEF RecOK
<1>2. own \in Slots /\ own.rx = s /\ own.rxType = Type(p) /\ own.rxAge = 0
  <2>1. l \in Slots
    BY StatusType
  <2> HIDE DEF l
  <2> QED BY <2>1, TypeOfFrame, AgeZero, SeqType DEF Slots
<1>3. slot' = [Sent(slot, h, s, p) EXCEPT ![h] = own]
  BY DEF HbpContinues
<1> HIDE DEF own
<1>4. SlotOK'
  BY <1>2, <1>3, SentType DEF SlotOK
<1>5. claim' = [claim EXCEPT ![s] = ClaimAfter(h, s, p)]
  BY DEF HbpContinues
<1>6. ClaimAfter(h, s, p) \in ClaimType
  <2>1. 0 \in 0 .. ClaimTO - 1
    BY TimeAssumption
  <2> QED BY <2>1 DEF ClaimAfter, ClaimOK, ClaimType
<1>7. ClaimOK'
  BY <1>5, <1>6 DEF ClaimOK
<1>8. ClaimHonest'
  <2>1. ASSUME NEW t \in Streams, claim'[t] # NoClaim
        PROVE  LET g == claim'[t].by IN
               slot'[g].rx # t \/ (slot'[g].rxType # "term" /\ slot'[g].rxAge = claim'[t].age)
    <3>1. CASE t # s
      <4>1. claim'[t] = claim[t]
        BY <1>5, <3>1 DEF ClaimOK
      <4>2. claim[t].by \in HBPs
        BY <2>1, <4>1 DEF ClaimOK, ClaimType
      <4>3. CASE claim[t].by = h
        BY <1>2, <1>3, <3>1, <4>1, <4>3, SentType
      <4>4. CASE claim[t].by # h
        BY <1>3, <2>1, <4>1, <4>2, <4>4, SentType DEF ClaimHonest
      <4> QED BY <4>3, <4>4
    <3>2. CASE t = s /\ p # Final
      <4>1. claim'[t] = [by |-> h, age |-> 0]
        BY <1>5, <3>2 DEF ClaimAfter, ClaimOK
      <4>2. slot'[h] = own /\ Type(p) # "term"
        BY <1>3, <3>2, SentType DEF Type
      <4> QED BY <1>2, <4>1, <4>2
    <3>3. CASE t = s /\ p = Final
      <4>1. claim[s] = NoClaim \/ claim[s].by = h
        BY DEF HbpContinues, HbpClaimed
      <4>2. claim'[t] = NoClaim
        BY <1>5, <3>3, <4>1 DEF ClaimAfter, ClaimOK
      <4> QED BY <2>1, <4>2
    <3> QED BY <3>1, <3>2, <3>3
  <2> QED BY <2>1 DEF ClaimHonest
<1> QED BY <1>0, <1>1, <1>4, <1>7, <1>8, BuriedKeeps, SpokenKeeps DEF HbpContinues

LEMMA HbpReceivedKeeps ==
  ASSUME TypeOK, ClaimHonest, NEW h \in HBPs, NEW s \in Streams, NEW p \in Positions,
         HbpReceived(h, s, p)
  PROVE  TypeOK' /\ ClaimHonest'
<1> USE TypeParts
<1>1. net' \in Networks /\ LinkOK'
  BY PartsKept DEF HbpReceived, Arrives
<1>2. CASE HbpDrops(h, s, p)
  BY <1>1, <1>2, PartsKept, HonestKept, TypePartsNext DEF HbpDrops
<1>3. CASE HbpYields(h, s, p)
  BY <1>1, <1>3, HbpYieldsKeeps, PartsKept, TypePartsNext
<1>4. CASE HbpContinues(h, s, p)
  BY <1>1, <1>4, HbpContinuesKeeps, TypePartsNext
<1> QED BY <1>2, <1>3, <1>4 DEF HbpReceived

-----------------------------------------------------------------------------
(* Control packets, the trimmer and time.                                     *)

LEMMA ControlKeeps ==
  ASSUME TypeOK, ClaimHonest,
         NEW o \in OBPs, KeepAlive(o) \/ \E s \in VoiceStreams : SourceQuench(o, s)
  PROVE  TypeOK' /\ ClaimHonest'
<1> USE TypeParts
<1>1. UNCHANGED <<net, rec, order, slot, claim, tomb, spoke>>
  BY DEF KeepAlive, SourceQuench
<1>2. LinkOK'
  <2>1. CASE KeepAlive(o)
    BY <2>1, AgeZero DEF KeepAlive, LinkOK
  <2>2. ASSUME NEW s \in VoiceStreams, SourceQuench(o, s) PROVE LinkOK'
    <3>1. s \in Streams
      BY StreamsAssumption
    <3>2. quench' = [quench EXCEPT ![o][TG[s]] = s] /\ bcka' = bcka
      BY <2>2 DEF SourceQuench
    <3> QED BY <3>1, <3>2 DEF LinkOK
  <2> QED BY <2>1, <2>2
<1> QED BY <1>1, <1>2, PartsKept, HonestKept, TypePartsNext

LEMMA TrimKeeps ==
  ASSUME TypeOK, ClaimHonest, Trim
  PROVE  TypeOK' /\ ClaimHonest'
<1> USE TypeParts
<1>1. UNCHANGED <<net, claim, tomb, bcka, spoke>>
  BY DEF Trim
<1>2. RecOK'
  <2>1. rec' \in RecTables
    BY NoRecType DEF Trim, RecOK, RecTables
  <2>2. order' \in OrderType
    BY DropType DEF Trim, RecOK, OrderType
  <2> QED BY <2>1, <2>2 DEF RecOK
<1>3. ASSUME NEW h \in HBPs
      PROVE  /\ TrimmedSlot(slot[h]) \in Slots
             /\ TrimmedSlot(slot[h]).rx \in {slot[h].rx, NoStream}
             /\ slot[h].rxAge <= KeepTO => TrimmedSlot(slot[h]).rxType = slot[h].rxType
             /\ TrimmedSlot(slot[h]).rxAge = slot[h].rxAge
  <2>1. slot[h] \in Slots
    BY DEF SlotOK
  <2>2. slot[h].rxAge \in Int /\ KeepTO \in Int
    BY <2>1, TimeAssumption DEF Slots, Ages, Cap
  <2> DEFINE type == IF slot[h].rxAge > KeepTO THEN "term" ELSE slot[h].rxType
             rx == IF slot[h].rxAge > QuietTO THEN NoStream ELSE slot[h].rx
             tx == IF slot[h].txAge > KeepTO THEN "term" ELSE slot[h].txType
             l == [slot[h] EXCEPT !.rxType = type, !.rx = rx, !.txType = tx]
  <2>3. type \in SlotTypes /\ rx \in Streams \cup {NoStream} /\ tx \in SlotTypes
    BY <2>1 DEF Slots, SlotTypes
  <2>4. rx \in {slot[h].rx, NoStream} /\ (slot[h].rxAge <= KeepTO => type = slot[h].rxType)
    BY <2>2
  <2>5. TrimmedSlot(slot[h]) = l
    BY DEF TrimmedSlot
  <2> HIDE DEF type, rx, tx
  <2>6. l \in Slots /\ l.rx = rx /\ l.rxType = type /\ l.rxAge = slot[h].rxAge
    BY <2>1, <2>3 DEF Slots
  <2> HIDE DEF l
  <2> QED BY <2>4, <2>5, <2>6
<1>4. slot' = [h \in HBPs |-> TrimmedSlot(slot[h])]
  BY DEF Trim
<1>5. SlotOK'
  BY <1>3, <1>4 DEF SlotOK
<1>6. LinkOK'
  BY DEF Trim, LinkOK
<1>7. ClaimHonest'
  <2>1. ASSUME NEW s \in Streams, claim[s] # NoClaim
        PROVE  LET h == claim[s].by IN
               slot'[h].rx # s \/ (slot'[h].rxType # "term" /\ slot'[h].rxAge = claim[s].age)
    <3> DEFINE h == claim[s].by
    <3>1. h \in HBPs /\ claim[s].age \in 0 .. ClaimTO - 1
      BY <2>1 DEF ClaimOK, ClaimType
    <3>2. CASE slot[h].rx # s
      BY <1>3, <1>4, <3>1, <3>2, StreamsAssumption
    <3>3. CASE slot[h].rxType # "term" /\ slot[h].rxAge = claim[s].age
      <4>1. slot[h].rxAge <= KeepTO
        BY <3>1, <3>3, TimeAssumption
      <4> QED BY <1>3, <1>4, <3>1, <3>3, <4>1
    <3> QED BY <2>1, <3>2, <3>3 DEF ClaimHonest
  <2> QED BY <1>1, <2>1 DEF ClaimHonest
<1> QED BY <1>1, <1>2, <1>5, <1>6, <1>7, PartsKept, TypePartsNext

LEMMA TickKeeps ==
  ASSUME TypeOK, ClaimHonest, Tick
  PROVE  TypeOK' /\ ClaimHonest'
<1> USE TypeParts
<1>1. UNCHANGED <<net, order, quench>>
  BY DEF Tick
<1>2. RecOK'
  <2>1. ASSUME NEW o \in OBPs, NEW s \in Streams
        PROVE  [rec[o][s] EXCEPT !.start = Older(@), !.last = Older(@)] \in Records
    <3>1. rec[o][s] \in Records
      BY DEF RecOK, RecTables
    <3>2. Older(rec[o][s].start) \in Ages /\ Older(rec[o][s].last) \in Ages
      BY <3>1, AgeZero DEF Records
    <3> QED BY <3>1, <3>2 DEF Records
  <2>2. rec' \in RecTables
    BY <2>1, NoRecType DEF Tick, RecTables
  <2> QED BY <1>1, <2>2 DEF RecOK
<1>3. ASSUME NEW h \in HBPs
      PROVE  /\ slot'[h] \in Slots
             /\ slot'[h].rx = slot[h].rx /\ slot'[h].rxType = slot[h].rxType
             /\ slot'[h].rxAge = Older(slot[h].rxAge)
  <2>1. slot[h] \in Slots
    BY DEF SlotOK
  <2>2. Older(slot[h].start) \in Ages /\ Older(slot[h].rxAge) \in Ages /\ Older(slot[h].txAge) \in Ages
    BY <2>1, AgeZero DEF Slots
  <2> DEFINE l == [slot[h] EXCEPT !.start = Older(@), !.rxAge = Older(@), !.txAge = Older(@)]
  <2>3. slot'[h] = l
    BY DEF Tick
  <2>4. l \in Slots /\ l.rx = slot[h].rx /\ l.rxType = slot[h].rxType /\ l.rxAge = Older(slot[h].rxAge)
    BY <2>1, <2>2 DEF Slots
  <2> QED BY <2>3, <2>4
<1>4. SlotOK'
  BY <1>3 DEF Tick, SlotOK
<1>5. ASSUME NEW s \in Streams
      PROVE  /\ AgedClaim(claim[s]) \in ClaimType
             /\ AgedClaim(claim[s]) # NoClaim =>
                   /\ claim[s] # NoClaim /\ AgedClaim(claim[s]).by = claim[s].by
                   /\ claim[s].age \in 0 .. ClaimTO - 1
                   /\ AgedClaim(claim[s]).age = claim[s].age + 1
  <2>1. CASE claim[s] = NoClaim
    BY <2>1 DEF AgedClaim, ClaimType
  <2>2. CASE claim[s] # NoClaim
    <3>1. claim[s] \in [by : HBPs, age : 0 .. ClaimTO - 1]
      BY <2>2 DEF ClaimOK, ClaimType
    <3> QED BY <2>2, <3>1, TimeAssumption DEF AgedClaim, ClaimType
  <2> QED BY <2>1, <2>2
<1>6. claim' = [s \in Streams |-> AgedClaim(claim[s])]
  BY DEF Tick
<1>7. ClaimOK'
  BY <1>5, <1>6 DEF ClaimOK
<1>8. ClaimHonest'
  <2>1. ASSUME NEW s \in Streams, claim'[s] # NoClaim
        PROVE  LET h == claim'[s].by IN
               slot'[h].rx # s \/ (slot'[h].rxType # "term" /\ slot'[h].rxAge = claim'[s].age)
    <3>1. claim[s] # NoClaim /\ claim'[s].by = claim[s].by /\ claim'[s].age = claim[s].age + 1
          /\ claim[s].age \in 0 .. ClaimTO - 1
      BY <1>5, <1>6, <2>1
    <3>2. claim[s].by \in HBPs
      BY <3>1 DEF ClaimOK, ClaimType
    <3>3. Older(claim[s].age) = claim[s].age + 1
      BY <3>1, TimeAssumption DEF Older, Cap
    <3> QED BY <1>3, <3>1, <3>2, <3>3 DEF ClaimHonest
  <2> QED BY <2>1 DEF ClaimHonest
<1>9. TombOK'
  <2>1. ASSUME NEW i \in Systems, NEW s \in Streams, tomb[i][s] # NoTomb, ~(tomb[i][s] >= KeepTO)
        PROVE  tomb[i][s] + 1 \in 0 .. KeepTO
    BY <2>1, TimeAssumption DEF TombOK
  <2> QED BY <2>1 DEF Tick, TombOK
<1>10. LinkOK'
  BY <1>1, AgeZero DEF Tick, LinkOK
<1>11. SpokeOK'
  <2>1. ASSUME NEW s \in Streams, spoke[s].age < StreamTO
        PROVE  [spoke[s] EXCEPT !.age = @ + 1] \in [by : Systems \cup {NoStream}, age : 0 .. StreamTO]
    BY <2>1, TimeAssumption DEF SpokeOK
  <2> QED BY <2>1 DEF Tick, SpokeOK
<1> QED BY <1>1, <1>2, <1>4, <1>7, <1>8, <1>9, <1>10, <1>11, TypePartsNext

-----------------------------------------------------------------------------
LEMMA LoopInit ==
  ASSUME Init
  PROVE  TypeOK /\ ClaimHonest
<1> USE TypeParts
<1>1. RecOK
  BY NoRecType DEF Init, RecOK, RecTables, OrderType
<1>2. IdleSlot \in Slots
  BY AgeZero DEF IdleSlot, Slots, SlotTypes
<1>3. SlotOK
  BY <1>2 DEF Init, SlotOK
<1>4. ClaimOK /\ ClaimHonest
  BY DEF Init, ClaimOK, ClaimType, ClaimHonest
<1>5. TombOK /\ LinkOK
  BY DEF Init, TombOK, LinkOK
<1>6. SpokeOK
  BY TimeAssumption DEF Init, SpokeOK, Silent
<1> QED BY <1>1, <1>3, <1>4, <1>5, <1>6 DEF Init

(* Two links that select each other would both be claimants, so that neither        *)
(* election depends on who holds it, and both would have the same outcome.         *)
LEMMA ElectsClaimant ==
  ASSUME NEW R, NEW ord, NEW s, NEW b \in OBPs, EarliestObpOwner(R, ord, s) = b
  PROVE  b \in Claimants(R, s)
<1>1. b # NoStream
  BY SystemsAssumption
<1> QED BY <1>1 DEF EarliestObpOwner

LEMMA ClaimantKnown ==
  ASSUME RecOK, NEW s \in Streams, NEW a \in OBPs, NEW b \in OBPs, a # b,
         b \in Claimants(Hardened(a, s), s)
  PROVE  rec[b][s].first
<1>1. Hardened(a, s)[b] = rec[b]
  BY DEF Hardened, RecOK, RecTables
<1> QED BY <1>1 DEF Claimants, Stamped

LEMMA StampedIsHard ==
  ASSUME RecOK, NEW s \in Streams, NEW a \in OBPs, rec[a][s].first
  PROVE  Hardened(a, s) = rec /\ HardenedOrder(a, s) = order[s]
<1>1. rec[a][s] \in Records /\ rec[a][s].first = TRUE
  BY DEF RecOK, RecTables, Records
<1>2. [rec[a][s] EXCEPT !.first = TRUE] = rec[a][s]
  BY <1>1 DEF Records
<1>3. Hardened(a, s) = rec
  BY <1>2 DEF Hardened, RecOK, RecTables
<1> QED BY <1>3 DEF HardenedOrder

LEMMA NobodyYieldsToEachOther ==
  ASSUME TypeOK
  PROVE  NoMutualYield
<1> USE TypeParts
<1> SUFFICES ASSUME NEW s \in Streams, NEW a \in OBPs, NEW b \in OBPs, a # b,
                    Owner(a, s) = b, Owner(b, s) = a
             PROVE  FALSE
  BY DEF NoMutualYield
<1>1. b \in Claimants(Hardened(a, s), s) /\ a \in Claimants(Hardened(b, s), s)
  BY ElectsClaimant DEF Owner
<1>2. rec[a][s].first /\ rec[b][s].first
  BY <1>1, ClaimantKnown
<1>3. Owner(a, s) = Owner(b, s)
  BY <1>2, StampedIsHard DEF Owner
<1> QED BY <1>3
=============================================================================
