----------------------------- MODULE LoopControl -----------------------------
(***************************************************************************)
(* Who may speak: every voice stream can reach this server through several  *)
(* systems at once (hotspots, and OpenBridge links that mirror each other),  *)
(* and only one copy may go on.  The module models the group-voice path of   *)
(* both routers, from the first test on a packet to the marks it leaves, the *)
(* forwarding to the other systems of the bridge, the loop that trims the    *)
(* stream tables, and the OpenBridge control packets that path reads.        *)
(*                                                                         *)
(* Time is counted in ticks: a state holds the AGE of each time stamp, and a *)
(* limit of the code is a number of ticks.  Packets carry their position in  *)
(* the call, 0 (voice header) to Final (terminator); the network may lose,   *)
(* repeat, delay and reorder them at will.                                   *)
(***************************************************************************)
EXTENDS Integers

CONSTANTS
    OBPs,          \* OpenBridge systems
    HBPs,          \* HBP systems, one slot each
    Streams,       \* stream ids
    VoiceStreams,  \* those of group calls
    NoStream,      \* RX_STREAM_ID and TX_STREAM_ID of an idle slot
    Src,           \* Streams -> the radio that speaks
    TG,            \* Streams -> the talkgroup it speaks on
    Networks,      \* the networks considered
    Final,         \* position of the terminator
    BurstC,        \* positions of voice bursts C, whose vseq is 2
    SeqMod,        \* sequence numbers are one byte; here they wrap at SeqMod
    StreamTO,      \* STREAM_TO, .36 s
    ClaimTO,       \* _HBP_CLAIM_TIMEOUT_S, 1 s
    KeepTO,        \* _TERM_TOMBSTONE_TTL_S and the trimmer's 5 s
    Hang,          \* GROUP_HANGTIME
    QuietTO,       \* 60 s: a slot's stream is forgotten, a keepalive is stale
    CallTO         \* 180 s: a call is cut off, an OpenBridge stream forgotten

ASSUME SystemsAssumption == OBPs \cap HBPs = {} /\ NoStream \notin OBPs \cup HBPs
ASSUME StreamsAssumption ==
    /\ NoStream \notin Streams /\ VoiceStreams \subseteq Streams
    /\ DOMAIN Src = Streams /\ DOMAIN TG = Streams
    /\ \A n \in Networks : n.hears \subseteq (OBPs \cup HBPs) \X Streams /\ n.enhanced \subseteq OBPs
ASSUME PacketAssumption ==
    /\ Final \in Nat \ {0} /\ SeqMod \in Nat \ {0}
    /\ BurstC \subseteq 1 .. Final - 1
ASSUME TimeAssumption ==
    /\ StreamTO \in Nat \ {0} /\ ClaimTO \in Nat /\ KeepTO \in Nat
    /\ Hang \in Nat /\ QuietTO \in Nat /\ CallTO \in Nat
    /\ StreamTO < ClaimTO /\ ClaimTO <= KeepTO /\ KeepTO < QuietTO /\ Hang <= QuietTO
    /\ QuietTO <= CallTO

VARIABLES
    net,           \* hears: pairs <<system, stream>>; enhanced: ENHANCED_OBP links; moves: hotspots
                   \* that log in and out
    rec,           \* OpenBridge STATUS: system, stream -> record or NoRec
    order,         \* per stream: pairs <<a, b>> of OpenBridge systems, the 1ST of a before that of b
    slot,          \* STATUS of the HBP slots
    claim,         \* _HBP_STREAM_CLAIMS
    tomb,          \* _TERM_TOMBSTONES: system, stream -> age or NoTomb
    quench,        \* _bcsq: system, talkgroup -> stream the far end refuses
    bcka,          \* age of _bcka, or Never
    spoke          \* history: the system that last spoke on a stream, and when

vars == <<net, rec, order, slot, claim, tomb, quench, bcka, spoke>>

Systems   == OBPs \cup HBPs
Positions == 0 .. Final
TGs       == {TG[s] : s \in Streams}
Cap       == CallTO + 1            \* ages are told apart up to here
Ages      == 0 .. Cap
Older(a)  == IF a < Cap THEN a + 1 ELSE a

None    == -1                      \* lastSeq False
Never   == -1                      \* no _bcka yet
NoTomb  == -1
NoRec   == [by |-> NoStream, start |-> 0, last |-> 0, first |-> FALSE, fin |-> FALSE, seq |-> None]
NoClaim == [by |-> NoStream, age |-> 0]
Silent  == [by |-> NoStream, age |-> StreamTO]
(* A slot on which nothing has happened since long after start-up, whose first     *)
(* time stamps are those of the start.                                       *)
IdleSlot == [rx |-> NoStream, rxType |-> "term", rxAge |-> Cap, start |-> Cap, seq |-> None,
             tx |-> NoStream, txType |-> "term", txAge |-> Cap]

(* What RX_TYPE and TX_TYPE hold is the data type of the last frame; a voice   *)
(* burst C has the number of the terminator there.                           *)
Type(p) == IF p = Final THEN "term" ELSE IF p \in BurstC THEN "burstC" ELSE "voice"
IsVterm(type) == type \in {"term", "burstC"}

SeqOf(p) == p % SeqMod
Delta(p, seq) == IF seq = None THEN None ELSE (SeqOf(p) - seq) % SeqMod
Late(d) == d # None /\ d > (SeqMod - 1) \div 2

(* Mutant: a late packet is dropped however long the silence was.             *)
InSequenceStrict(p, seq, idle) == LET d == Delta(p, seq) IN d # 0 /\ ~Late(d)

(* The test on the sequence number both routers make, given the age of the     *)
(* last packet: a repeated or late packet is dropped, but a late one after a    *)
(* second of silence is taken as a new start.                                *)
InSequence(p, seq, idle) ==
    LET d == Delta(p, seq) IN d # 0 /\ ~(Late(d) /\ idle < ClaimTO)

Tombstoned(i, s, p, seq) == p = Final /\ tomb[i][s] # NoTomb /\ Delta(p, seq) # 1

Init ==
    /\ net \in Networks
    /\ rec = [o \in OBPs |-> [s \in Streams |-> NoRec]]
    /\ order = [s \in Streams |-> {}]
    /\ slot = [h \in HBPs |-> IdleSlot]
    /\ claim = [s \in Streams |-> NoClaim]
    /\ tomb = [i \in Systems |-> [s \in Streams |-> NoTomb]]
    /\ quench = [o \in OBPs |-> [t \in TGs |-> NoStream]]
    /\ bcka = [o \in OBPs |-> Never]
    /\ spoke = [s \in Streams |-> Silent]

-----------------------------------------------------------------------------
(* The 1ST stamps of a stream: who has one, and in which order they were set.    *)

Stamped(R, s)  == {o \in OBPs : R[o][s].first}
Drop(ord, X)   == {e \in ord : e[1] \notin X /\ e[2] \notin X}
Newest(R, ord, s, o) == Drop(ord, {o}) \cup {<<x, o>> : x \in Stamped(R, s) \ {o}}

(* The records that count in an election: inbound, not finished, not idle.     *)
Claimants(R, s) == {o \in Stamped(R, s) : ~R[o][s].fin /\ R[o][s].last < StreamTO}

(* The earliest of them owns the stream; NoStream when there is none.          *)
EarliestObpOwner(R, ord, s) ==
    LET first(o) == \A x \in Claimants(R, s) : <<x, o>> \notin ord
    IN  IF \E o \in Claimants(R, s) : first(o) THEN CHOOSE o \in Claimants(R, s) : first(o)
        ELSE NoStream

-----------------------------------------------------------------------------
(* Forwarding a packet of stream s that came in on system i to every other     *)
(* leg of its bridge; gen says that it opens a new generation of the stream.    *)

KeepaliveStale(i, o) ==
    /\ o \in net.enhanced
    /\ IF bcka[o] = Never THEN i \in OBPs ELSE bcka[o] > QuietTO

ObpTargets(i, s) ==
    {o \in OBPs \ {i} : quench[o][TG[s]] # s /\ ~KeepaliveStale(i, o)}

NewStub(R, i, s, o, gen) == R[o][s] = NoRec \/ gen \/ R[o][s].by # i

StubRec(R, i, s, o, gen) ==
    IF NewStub(R, i, s, o, gen) THEN [NoRec EXCEPT !.by = i] ELSE [R[o][s] EXCEPT !.last = 0]

(* Stubs of the targets of a packet; a new stub has no stamp.                  *)
Stubs(R, i, s, gen) ==
    [o \in OBPs |-> IF o \in ObpTargets(i, s)
                    THEN [R[o] EXCEPT ![s] = StubRec(R, i, s, o, gen)] ELSE R[o]]

Unstamped(R, ord, i, s, gen) ==
    Drop(ord, {o \in ObpTargets(i, s) : NewStub(R, i, s, o, gen)})

(* A hotspot slot takes no packet while it is busy with another talkgroup, or   *)
(* with another call of the same one.                                        *)
Busy(h, s) ==
    LET l == slot[h] IN
    \/ l.rx # NoStream /\ TG[l.rx] # TG[s] /\ l.rxAge < Hang
    \/ l.tx # NoStream /\ TG[l.tx] # TG[s] /\ l.txAge < Hang
    \/ l.rx # NoStream /\ TG[l.rx] = TG[s] /\ ~IsVterm(l.rxType) /\ l.rxAge < StreamTO
    \/ l.tx # NoStream /\ TG[l.tx] = TG[s] /\ ~IsVterm(l.txType) /\ Src[l.tx] # Src[s]
       /\ l.txAge < StreamTO

Sent(L, i, s, p) ==
    [h \in HBPs |-> IF h # i /\ ~Busy(h, s)
                    THEN [L[h] EXCEPT !.tx = s, !.txType = Type(p), !.txAge = 0] ELSE L[h]]

Spoken(i, s) == spoke' = [spoke EXCEPT ![s] = [by |-> i, age |-> 0]]

-----------------------------------------------------------------------------
(* A packet from an OpenBridge system.                                       *)

ObpNew(o, s, p) ==
    LET r == rec[o][s] IN
    \/ r = NoRec
    \/ p = 0 /\ (r.fin \/ r.last >= StreamTO)
    \/ r.last >= StreamTO /\ ~IsVterm(Type(p))

Buried(i, s, p) == tomb' = IF p = Final THEN [tomb EXCEPT ![i][s] = 0] ELSE tomb

(* The record of a new call; its sequence number is not kept.                  *)
NewRec(o, p) == [NoRec EXCEPT !.by = o, !.first = TRUE, !.fin = (p = Final)]

ObpOpens(o, s, p) ==
    /\ ~Tombstoned(o, s, p, rec[o][s].seq)
    /\ ObpNew(o, s, p)
    /\ LET R == [rec EXCEPT ![o][s] = NewRec(o, p)]
       IN  /\ rec' = Stubs(R, o, s, TRUE)
           /\ order' = [order EXCEPT ![s] = Unstamped(R, Newest(rec, @, s, o), o, s, TRUE)]
    /\ slot' = Sent(slot, o, s, p)
    /\ Buried(o, s, p)
    /\ Spoken(o, s)
    /\ UNCHANGED claim

(* A packet of a stream the system knows gets a stamp if the record has none    *)
(* yet.  A stream that has finished, has lasted too long, or has another owner   *)
(* goes no further; only in the first case is the record not kept alive.        *)
ObpKnown(o, s, p) == ~Tombstoned(o, s, p, rec[o][s].seq) /\ ~ObpNew(o, s, p)

Hardened(o, s)      == [rec EXCEPT ![o][s].first = TRUE]
HardenedOrder(o, s) == IF rec[o][s].first THEN order[s] ELSE Newest(rec, order[s], s, o)

(* Mutant: the link the packet came from does not stand in the election.       *)
OwnerOthers(o, s) ==
    LET R == [Hardened(o, s) EXCEPT ![o][s].first = FALSE]
    IN  EarliestObpOwner(R, HardenedOrder(o, s), s)

Owner(o, s)   == EarliestObpOwner(Hardened(o, s), HardenedOrder(o, s), s)
TooLong(o, s) == rec[o][s].start > CallTO

Ignored(o, s, r) ==
    /\ rec' = [rec EXCEPT ![o][s] = [r EXCEPT !.first = TRUE]]
    /\ order' = [order EXCEPT ![s] = HardenedOrder(o, s)]
    /\ UNCHANGED <<slot, claim, tomb, spoke>>

ObpDrops(o, s, p) ==
    LET r == rec[o][s] IN
    \/ /\ Tombstoned(o, s, p, r.seq)
       /\ UNCHANGED <<rec, order, slot, claim, tomb, spoke>>
    \/ /\ ObpKnown(o, s, p)
       /\ r.fin
       /\ Ignored(o, s, r)
    \/ /\ ObpKnown(o, s, p)
       /\ ~r.fin /\ (TooLong(o, s) \/ claim[s] # NoClaim)
       /\ Ignored(o, s, [r EXCEPT !.last = 0])

(* Another OpenBridge system owns the stream; this one stays silent.           *)
ObpYields(o, s, p) ==
    LET r == rec[o][s] IN
    /\ ObpKnown(o, s, p)
    /\ ~r.fin /\ ~TooLong(o, s) /\ claim[s] = NoClaim
    /\ Owner(o, s) \notin {o, NoStream}
    /\ Ignored(o, s, [r EXCEPT !.last = 0])

ObpOwns(o, s, p) ==
    /\ ObpKnown(o, s, p)
    /\ ~rec[o][s].fin /\ ~TooLong(o, s) /\ claim[s] = NoClaim
    /\ Owner(o, s) \in {o, NoStream}

ObpOutOfSequence(o, s, p) ==
    /\ ObpOwns(o, s, p)
    /\ ~InSequence(p, rec[o][s].seq, rec[o][s].last)
    /\ Ignored(o, s, rec[o][s])

ObpContinues(o, s, p) ==
    /\ ObpOwns(o, s, p)
    /\ InSequence(p, rec[o][s].seq, rec[o][s].last)
    /\ LET r == [rec[o][s] EXCEPT !.last = 0, !.first = TRUE, !.fin = (p = Final),
                                  !.seq = IF p = Final THEN None ELSE SeqOf(p)]
           R == [rec EXCEPT ![o][s] = r]
       IN  /\ rec' = Stubs(R, o, s, FALSE)
           /\ order' = [order EXCEPT ![s] = Unstamped(R, HardenedOrder(o, s), o, s, FALSE)]
    /\ slot' = Sent(slot, o, s, p)
    /\ Buried(o, s, p)
    /\ Spoken(o, s)
    /\ UNCHANGED claim

Arrives(i, s) == <<i, s>> \in net.hears /\ UNCHANGED <<net, quench>>

(* Any packet of an OpenBridge link counts as a keepalive.                     *)
ObpReceived(o, s, p) ==
    /\ Arrives(o, s)
    /\ bcka' = [bcka EXCEPT ![o] = 0]
    /\ \/ ObpDrops(o, s, p) \/ ObpYields(o, s, p) \/ ObpOutOfSequence(o, s, p)
       \/ ObpOpens(o, s, p) \/ ObpContinues(o, s, p)

-----------------------------------------------------------------------------
(* A packet from a hotspot.                                                  *)

Lineage(h, s) == slot[h].rx = s /\ ~IsVterm(slot[h].rxType)

(* A short gap within a call does not make a new one.                          *)
ShortGap(h, s, p) ==
    Lineage(h, s) /\ p # 0 /\ StreamTO <= slot[h].rxAge /\ slot[h].rxAge < ClaimTO

HbpNew(h, s, p) ==
    \/ slot[h].rx # s
    \/ slot[h].rxAge >= StreamTO /\ ~ShortGap(h, s, p)
    \/ p = 0 /\ IsVterm(slot[h].rxType)

(* Mutant: any terminator that is not a repeated one ends the call.            *)
StaleTermRepeated(h, s, p) == p = Final /\ Tombstoned(h, s, p, slot[h].seq)

(* A terminator counts only for the call that is under way on the slot.         *)
StaleTerm(h, s, p) ==
    /\ p = Final
    /\ Tombstoned(h, s, p, slot[h].seq) \/ ~Lineage(h, s)

Collides(h, s, p) ==
    /\ HbpNew(h, s, p)
    /\ slot[h].rx # NoStream /\ Src[slot[h].rx] # Src[s]
    /\ ~IsVterm(slot[h].rxType) /\ slot[h].rxAge < StreamTO

(* A new call starts the slot's counters over, even if its packet goes no       *)
(* further: the slot then still names the old call.                          *)
HbpStatus(h, s, p) ==
    IF HbpNew(h, s, p) THEN [slot[h] EXCEPT !.start = 0, !.seq = None] ELSE slot[h]

HbpClaimed(h, s) == claim[s] # NoClaim /\ claim[s].by # h

(* Mutant: a slot that names another call does not look for OpenBridge copies.  *)
ObpFirstSameSlot(h, s) ==
    /\ slot[h].rx = s /\ claim[s].by # h /\ ~Lineage(h, s)
    /\ Claimants(rec, s) # {}

(* Mutant: a call whose claim has lapsed counts as a new one.                  *)
ObpFirstNoLineage(h, s) == claim[s].by # h /\ Claimants(rec, s) # {}

(* With neither a claim nor a call under way on the slot, any OpenBridge copy   *)
(* that is live goes first.                                                  *)
ObpFirst(h, s) ==
    /\ claim[s].by # h /\ ~Lineage(h, s)
    /\ Claimants(rec, s) # {}

Admitted(h, s, p) == ~StaleTerm(h, s, p) /\ ~Collides(h, s, p)

HbpDrops(h, s, p) ==
    /\ ~Admitted(h, s, p)
    /\ UNCHANGED <<rec, order, slot, claim, tomb, spoke>>

HbpYields(h, s, p) ==
    LET l == HbpStatus(h, s, p) IN
    /\ Admitted(h, s, p)
    /\ \/ l.start > CallTO
       \/ HbpClaimed(h, s)
       \/ ObpFirst(h, s)
       \/ ~InSequence(p, l.seq, l.rxAge)
    /\ slot' = [slot EXCEPT ![h] = l]
    /\ UNCHANGED <<rec, order, claim, tomb, spoke>>

(* Mutant: the terminator leaves the claim.                                  *)
ClaimAfterKept(h, s, p) == [by |-> h, age |-> 0]

(* A voice packet that goes on takes or renews the claim; the terminator of the  *)
(* claimant gives it up.                                                     *)
ClaimAfter(h, s, p) ==
    IF p # Final THEN [by |-> h, age |-> 0]
    ELSE IF claim[s].by = h THEN NoClaim ELSE claim[s]

HbpContinues(h, s, p) ==
    LET l   == HbpStatus(h, s, p)
        gen == HbpNew(h, s, p)
    IN
    /\ Admitted(h, s, p)
    /\ l.start <= CallTO
    /\ ~HbpClaimed(h, s) /\ ~ObpFirst(h, s)
    /\ InSequence(p, l.seq, l.rxAge)
    /\ rec' = Stubs(rec, h, s, gen)
    /\ order' = [order EXCEPT ![s] = Unstamped(rec, @, h, s, gen)]
    /\ slot' = [Sent(slot, h, s, p) EXCEPT ![h] =
                   [l EXCEPT !.rx = s, !.rxType = Type(p), !.rxAge = 0,
                             !.seq = IF p = Final THEN None ELSE SeqOf(p)]]
    /\ claim' = [claim EXCEPT ![s] = ClaimAfter(h, s, p)]
    /\ Buried(h, s, p)
    /\ Spoken(h, s)

HbpReceived(h, s, p) ==
    /\ Arrives(h, s)
    /\ HbpDrops(h, s, p) \/ HbpYields(h, s, p) \/ HbpContinues(h, s, p)
    /\ UNCHANGED bcka

-----------------------------------------------------------------------------
(* The far end of an enhanced link asks not to be sent a stream, or says that   *)
(* it is alive.                                                              *)

SourceQuench(o, s) ==
    /\ o \in net.enhanced
    /\ \E i \in Systems : <<i, s>> \in net.hears
    /\ quench[o][TG[s]] # s
    /\ quench' = [quench EXCEPT ![o][TG[s]] = s]
    /\ UNCHANGED <<net, rec, order, slot, claim, tomb, bcka, spoke>>

KeepAlive(o) ==
    /\ o \in net.enhanced
    /\ bcka[o] # 0
    /\ bcka' = [bcka EXCEPT ![o] = 0]
    /\ UNCHANGED <<net, rec, order, slot, claim, tomb, quench, spoke>>

-----------------------------------------------------------------------------
(* The trimmer, every 5 s.  An OpenBridge stream that was lost takes the        *)
(* refusals of it with it; one that finished leaves them.                      *)

TrimmedSlot(l) ==
    [l EXCEPT !.rxType = IF l.rxAge > KeepTO THEN "term" ELSE @,
              !.rx     = IF l.rxAge > QuietTO THEN NoStream ELSE @,
              !.txType = IF l.txAge > KeepTO THEN "term" ELSE @]

Expired(o, s) == rec[o][s] # NoRec /\ rec[o][s].last > CallTO
Lost(o, s)    == s # NoStream /\ Expired(o, s) /\ ~rec[o][s].fin

Trim ==
    /\ slot' = [h \in HBPs |-> TrimmedSlot(slot[h])]
    /\ rec' = [o \in OBPs |-> [s \in Streams |-> IF Expired(o, s) THEN NoRec ELSE rec[o][s]]]
    /\ order' = [s \in Streams |-> Drop(order[s], {o \in OBPs : Expired(o, s)})]
    /\ quench' = [o \in OBPs |-> [t \in TGs |->
                    IF quench[o][t] # NoStream /\ Lost(o, quench[o][t]) THEN NoStream
                    ELSE quench[o][t]]]
    /\ UNCHANGED <<net, claim, tomb, bcka, spoke>>

(* Mutant: a claim lapses one tick late.                                     *)
AgedClaimLate(c) ==
    IF c = NoClaim \/ c.age >= ClaimTO THEN NoClaim ELSE [c EXCEPT !.age = @ + 1]

AgedClaim(c) ==
    IF c = NoClaim \/ c.age + 1 >= ClaimTO THEN NoClaim ELSE [c EXCEPT !.age = @ + 1]

(* Time passes.  A claim or a tombstone that is too old counts for nothing,      *)
(* whether or not the trimmer has taken it away.                             *)
Tick ==
    /\ rec' = [o \in OBPs |-> [s \in Streams |->
                 IF rec[o][s] = NoRec THEN NoRec
                 ELSE [rec[o][s] EXCEPT !.start = Older(@), !.last = Older(@)]]]
    /\ slot' = [h \in HBPs |-> [slot[h] EXCEPT !.start = Older(@), !.rxAge = Older(@),
                                               !.txAge = Older(@)]]
    /\ claim' = [s \in Streams |-> AgedClaim(claim[s])]
    /\ tomb' = [i \in Systems |-> [s \in Streams |->
                  IF tomb[i][s] = NoTomb \/ tomb[i][s] >= KeepTO THEN NoTomb
                  ELSE tomb[i][s] + 1]]
    /\ bcka' = [o \in OBPs |-> IF bcka[o] = Never THEN Never ELSE Older(bcka[o])]
    /\ spoke' = [s \in Streams |->
                   IF spoke[s].age < StreamTO THEN [spoke[s] EXCEPT !.age = @ + 1] ELSE spoke[s]]
    /\ UNCHANGED <<net, order, quench>>

-----------------------------------------------------------------------------
Records == [by : Systems \cup {NoStream}, start : Ages, last : Ages, first : BOOLEAN,
            fin : BOOLEAN, seq : {None} \cup 0 .. SeqMod - 1]
SlotTypes == {"voice", "burstC", "term"}
Slots == [rx : Streams \cup {NoStream}, rxType : SlotTypes, rxAge : Ages, start : Ages,
          seq : {None} \cup 0 .. SeqMod - 1,
          tx : Streams \cup {NoStream}, txType : SlotTypes, txAge : Ages]

(* Every table keeps its shape, and no claim or tombstone outlives its time     *)
(* (_active_hbp_stream_claim, _is_tombstoned_term).                           *)
TypeOK ==
    /\ net \in Networks
    /\ rec \in [OBPs -> [Streams -> Records]]
    /\ order \in [Streams -> SUBSET (OBPs \X OBPs)]
    /\ slot \in [HBPs -> Slots]
    /\ claim \in [Streams -> {NoClaim} \cup [by : HBPs, age : 0 .. ClaimTO - 1]]
    /\ tomb \in [Systems -> [Streams -> {NoTomb} \cup 0 .. KeepTO]]
    /\ quench \in [OBPs -> [TGs -> Streams \cup {NoStream}]]
    /\ bcka \in [OBPs -> {Never} \cup Ages]
    /\ spoke \in [Streams -> [by : Systems \cup {NoStream}, age : 0 .. StreamTO]]

(* Two OpenBridge links that mirror each other never stand aside for one        *)
(* another, so that nobody is heard: bridge_master.py 2715, "Excluding it lets   *)
(* two mirrored OBP links each select the other and suppress both".             *)
NoMutualYield ==
    \A s \in Streams, a, b \in OBPs : a # b => ~(Owner(a, s) = b /\ Owner(b, s) = a)

(* A hotspot that holds the claim on a stream really speaks on it: its slot has   *)
(* gone on to another stream, or the last packet it sent renewed the claim and   *)
(* was no terminator.  Every other system drops the stream on the strength of a   *)
(* claim, so a claim left behind by a finished call silences the next one.       *)
ClaimHonest ==
    \A s \in Streams : LET h == claim[s].by IN
        claim[s] # NoClaim =>
            \/ slot[h].rx # s
            \/ slot[h].rxType # "term" /\ slot[h].rxAge = claim[s].age

Ended(s) == \E i \in Systems : tomb[i][s] # NoTomb

(* A hotspot does not cut into a stream that another system speaks on, unless    *)
(* the stream has just ended or the hotspot goes on with a call of its own.      *)
HotspotWaits ==
    [][\A h \in HBPs, s \in VoiceStreams :
         /\ spoke'[s].by = h
         /\ spoke[s].by \notin {h, NoStream} /\ spoke[s].age < StreamTO
         => Ended(s) \/ Lineage(h, s) \/ claim[s].by = h]_vars

(* A call on a hotspot's slot ends by its own terminator or by five seconds of    *)
(* silence; a repeated terminator, or that of another stream, ends nothing.      *)
OnlyOwnTermEnds ==
    [][\A h \in HBPs : slot[h].rxType = "voice" /\ slot'[h].rxType = "term"
         => slot[h].rxAge > KeepTO \/ tomb'[h][slot[h].rx] = 0]_vars

(* A link that is the only live copy of a stream is heard again after a pause of   *)
(* a second, whatever the sequence number of the packet: bridge_master.py 2749,   *)
(* "After a real idle gap the old 8-bit baseline is ambiguous; accept this        *)
(* packet".  (A burst C does not open a finished or overlong call, and one with    *)
(* the very number of the last packet is a repetition.)                        *)
Alone(o, s) == claim[s] = NoClaim /\ Claimants(rec, s) \subseteq {o}
GapRecovers ==
    [][\A o \in OBPs, s \in VoiceStreams :
         /\ rec[o][s].last >= ClaimTO /\ Alone(o, s)
         /\ spoke'[s] # [by |-> o, age |-> 0]
         => ~\E p \in Positions \ {Final} :
               /\ p \in BurstC =>
                     ~rec[o][s].fin /\ ~TooLong(o, s) /\ Delta(p, rec[o][s].seq) # 0
               /\ ObpReceived(o, s, p)]_vars

(* The call under way on a hotspot's slot goes on although its claim has lapsed   *)
(* and an OpenBridge copy is live: bridge_master.py 3849, "The physical HBP       *)
(* lineage remains authoritative while its slot still identifies this call,      *)
(* even if its cache claim just expired".                                    *)
LineageKept ==
    [][\A h \in HBPs, s \in VoiceStreams, p \in Positions \ {0, Final} :
         /\ slot[h].rx = s /\ slot[h].rxType = "voice" /\ ~HbpClaimed(h, s)
         /\ slot[h].start <= CallTO
         /\ InSequence(p, slot[h].seq, slot[h].rxAge)
         /\ HbpReceived(h, s, p)
         => spoke'[s] = [by |-> h, age |-> 0]]_vars
=============================================================================
