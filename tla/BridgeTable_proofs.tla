-------------------------- MODULE BridgeTable_proofs --------------------------
(***************************************************************************)
(* The routing index always agrees with the bridge table: proofs for every  *)
(* set of systems, talkgroups, options and timers.                          *)
(*                                                                          *)
(* The inductive invariant is that BRIDGES holds legs, and that BRIDGE_IDX   *)
(* is the index of BRIDGES (Good).  Every operator of BridgeOps that rewrites *)
(* a table preserves Good, because it does one of three things: it changes   *)
(* legs in fields the index does not hold, it rebuilds the index, or it adds  *)
(* and removes the keys of the one bridge whose legs it adds or replaces.     *)
(***************************************************************************)
EXTENDS BridgeTable, TLAPS

Tables  == [legs : SUBSET Legs, idx : SUBSET Keys]
Good(T) == T \in Tables /\ T.idx = IndexOf(T.legs)

(* m stands where l stood, and routes the same.                              *)
SameKey(l, m) == m \in Legs /\ Key(m) = Key(l)

(* The legs of every bridge but b.                                           *)
Others(L, b) == {l \in L : l.bridge # b}

(* A leg that bridge b may have.                                             *)
LegsFor(b) == {l \in Legs : l.bridge = b}

Owners == Callers \cup {NoOwner}

-----------------------------------------------------------------------------
(* Legs, keys and tables.                                                    *)

LEMMA KeyType == ASSUME NEW l \in Legs PROVE Key(l) \in Keys
  BY DEF Legs, Keys, Key

LEMMA SameRefl == ASSUME NEW l \in Legs PROVE SameKey(l, l)
  BY DEF SameKey

LEMMA SameTrans ==
  ASSUME NEW l, NEW m, NEW n, SameKey(l, m), SameKey(m, n)
  PROVE  SameKey(l, n)
  BY DEF SameKey

LEMMA IndexType == ASSUME NEW L \in SUBSET Legs PROVE IndexOf(L) \in SUBSET Keys
  BY KeyType DEF IndexOf

(* Changing what the index does not hold, leg by leg, leaves the index as is. *)
LEMMA Mapped ==
  ASSUME NEW L \in SUBSET Legs, NEW M,
         \A l \in L : \E m \in M : SameKey(l, m),
         \A m \in M : \E l \in L : SameKey(l, m)
  PROVE  M \in SUBSET Legs /\ IndexOf(M) = IndexOf(L)
  BY DEF SameKey, IndexOf

LEMMA GoodWithLegs ==
  ASSUME NEW T, Good(T), NEW M \in SUBSET Legs, IndexOf(M) = IndexOf(T.legs)
  PROVE  Good(WithLegs(T, M))
  BY DEF Good, Tables, WithLegs

LEMMA GoodMapped ==
  ASSUME NEW T, Good(T), NEW M,
         \A l \in T.legs : \E m \in M : SameKey(l, m),
         \A m \in M : \E l \in T.legs : SameKey(l, m)
  PROVE  Good(WithLegs(T, M))
<1>1. T.legs \in SUBSET Legs
  BY DEF Good, Tables
<1> QED BY <1>1, Mapped, GoodWithLegs

LEMMA GoodRebuild ==
  ASSUME NEW T \in Tables
  PROVE  Good(Rebuild(T)) /\ Rebuild(T).legs = T.legs
  BY IndexType DEF Good, Tables, Rebuild

LEMMA TablesWithLegs ==
  ASSUME NEW T \in Tables, NEW M \in SUBSET Legs
  PROVE  WithLegs(T, M) \in Tables /\ WithLegs(T, M).legs = M /\ WithLegs(T, M).idx = T.idx
  BY DEF Tables, WithLegs

LEMMA GoodRefreshed ==
  ASSUME NEW T, Good(T), NEW M \in SUBSET Legs
  PROVE  Good(Refreshed(T, M))
  BY TablesWithLegs, GoodRebuild DEF Good, Refreshed

(* Adding legs of b and then the keys of b.                                  *)
LEMMA GoodAdd ==
  ASSUME NEW T, Good(T), NEW b, NEW L \in SUBSET Legs,
         IndexOf(T.legs) \subseteq IndexOf(L),
         \A k \in IndexOf(L) : k \in IndexOf(T.legs) \/ k.bridge = b
  PROVE  Good(IdxAdd(WithLegs(T, L), b))
<1>1. T \in Tables /\ T.idx = IndexOf(T.legs)
  BY DEF Good
<1>2. WithLegs(T, L) \in Tables /\ WithLegs(T, L).legs = L /\ WithLegs(T, L).idx = T.idx
  BY <1>1, TablesWithLegs
<1>3. T.idx \cup IndexOf(LegsOf(L, b)) = IndexOf(L)
  BY <1>1 DEF IndexOf, LegsOf, Key
<1>4. IndexOf(L) \in SUBSET Keys
  BY IndexType
<1>5. IdxAdd(WithLegs(T, L), b) = [WithLegs(T, L) EXCEPT !.idx = IndexOf(L)]
  BY <1>2, <1>3 DEF IdxAdd, Tables
<1> QED BY <1>2, <1>4, <1>5 DEF Good, Tables

LEMMA GoodAddLegs ==
  ASSUME NEW T, Good(T), NEW b, NEW A \in SUBSET Legs, \A l \in A : l.bridge = b
  PROVE  Good(IdxAdd(WithLegs(T, T.legs \cup A), b))
<1>1. T.legs \cup A \in SUBSET Legs
  BY DEF Good, Tables
<1>2. /\ IndexOf(T.legs) \subseteq IndexOf(T.legs \cup A)
      /\ \A k \in IndexOf(T.legs \cup A) : k \in IndexOf(T.legs) \/ k.bridge = b
  BY DEF IndexOf, Key
<1> QED BY <1>1, <1>2, GoodAdd

(* Replacing the legs of b, and then the keys of b.                          *)
LEMMA GoodReplace ==
  ASSUME NEW T, Good(T), NEW b, NEW L \in SUBSET Legs,
         Others(L, b) = Others(T.legs, b)
  PROVE  Good(IdxReplace(WithLegs(T, L), b))
<1>1. T \in Tables /\ T.idx = IndexOf(T.legs)
  BY DEF Good
<1>2. WithLegs(T, L) \in Tables /\ WithLegs(T, L).legs = L /\ WithLegs(T, L).idx = T.idx
  BY <1>1, TablesWithLegs
<1> DEFINE I == {k \in T.idx : k.bridge \notin {b}} \cup IndexOf(LegsOf(L, b))
<1>3. I = IndexOf(L)
  BY <1>1 DEF IndexOf, LegsOf, Key, Others
<1>4. I \in SUBSET Keys
  BY <1>3, IndexType
<1> HIDE DEF I
<1>5. IdxReplace(WithLegs(T, L), b) = [WithLegs(T, L) EXCEPT !.idx = I]
  BY <1>2 DEF IdxReplace, IdxAdd, IdxRemove, Tables, I
<1> QED BY <1>2, <1>3, <1>4, <1>5 DEF Good, Tables


(* Removing the bridges B and their keys.                                    *)
LEMMA GoodRemove ==
  ASSUME NEW T, Good(T), NEW B, NEW L \in SUBSET Legs,
         IndexOf(L) = {k \in IndexOf(T.legs) : k.bridge \notin B}
  PROVE  Good(IdxRemove(WithLegs(T, L), B))
<1>1. T \in Tables /\ T.idx = IndexOf(T.legs)
  BY DEF Good
<1>2. WithLegs(T, L) \in Tables /\ WithLegs(T, L).legs = L /\ WithLegs(T, L).idx = T.idx
  BY <1>1, TablesWithLegs
<1>3. IndexOf(L) \in SUBSET Keys
  BY IndexType
<1>4. IdxRemove(WithLegs(T, L), B) = [WithLegs(T, L) EXCEPT !.idx = IndexOf(L)]
  BY <1>1, <1>2 DEF IdxRemove
<1> QED BY <1>2, <1>3, <1>4 DEF Good, Tables

-----------------------------------------------------------------------------
(* What the code does to one leg never changes its key.                      *)

LEMMA LegTypes ==
  ASSUME NEW l \in Legs
  PROVE  l.timer \in Int /\ l.timeout \in Int /\ l.active \in BOOLEAN /\ l.owner \in Owners
  BY DEF Legs, Owners

LEMMA DroppedLeg == ASSUME NEW l \in Legs PROVE SameKey(l, Dropped(l))
<1> DEFINE t == 0
<1>1. t \in Int
  OBVIOUS
<1> HIDE DEF t
<1>2. SameKey(l, [l EXCEPT !.active = FALSE, !.timer = t, !.owner = NoOwner])
  BY <1>1 DEF Legs, SameKey, Key
<1> QED BY <1>2 DEF Dropped, t

LEMMA SwitchedOffLeg == ASSUME NEW l \in Legs PROVE SameKey(l, SwitchedOff(l))
<1> DEFINE t == 0
<1>1. t \in Int
  OBVIOUS
<1> HIDE DEF t
<1>2. SameKey(l, [l EXCEPT !.active = FALSE, !.timer = t])
  BY <1>1 DEF Legs, SameKey, Key
<1> QED BY <1>2 DEF SwitchedOff, t

LEMMA RuleLegLeg == ASSUME NEW l \in Legs PROVE SameKey(l, RuleLeg(l))
  BY DEF RuleLeg, Legs, SameKey, Key

LEMMA AgedLeg == ASSUME NEW l \in Legs PROVE SameKey(l, Aged(l))
  BY DEF Aged, Legs, SameKey, Key

LEMMA RestartedLeg ==
  ASSUME NEW l \in Legs, NEW g, NEW slot, NEW c
  PROVE  SameKey(l, Restarted(l, g, slot, c))
  BY DEF Restarted, Legs, SameKey, Key

LEMMA SwitchedOnLeg == ASSUME NEW l \in Legs PROVE SameKey(l, SwitchedOn(l))
<1> DEFINE t == IF l.type = "OFF" THEN 0 ELSE l.timeout
<1>1. t \in Int
  BY DEF Legs
<1> HIDE DEF t
<1>2. SameKey(l, [l EXCEPT !.active = TRUE, !.timer = t])
  BY <1>1 DEF Legs, SameKey, Key
<1> QED BY <1>2 DEF SwitchedOn, t

LEMMA SwitchedAwayLeg == ASSUME NEW l \in Legs PROVE SameKey(l, SwitchedAway(l))
<1> DEFINE o == IF l.active /\ l.bridge.ref THEN NoOwner ELSE l.owner
           t == IF l.type = "ON" THEN 0 ELSE l.timer
           u == l.timeout
<1>1. o \in Owners /\ t \in Int /\ u \in Int
  BY DEF Legs, Owners
<1>2. SwitchedAway(l) =
        CASE l.type = "OFF" -> [l EXCEPT !.active = FALSE, !.timer = u, !.owner = o]
          [] l.type # "OFF" /\ l.active -> [l EXCEPT !.active = FALSE, !.owner = o, !.timer = t]
          [] OTHER -> l
  BY DEF SwitchedAway
<1> HIDE DEF o, t, u
<1>3. SameKey(l, [l EXCEPT !.active = FALSE, !.timer = u, !.owner = o])
  BY <1>1 DEF Legs, SameKey, Key, Owners
<1>4. SameKey(l, [l EXCEPT !.active = FALSE, !.owner = o, !.timer = t])
  BY <1>1 DEF Legs, SameKey, Key, Owners
<1> QED BY <1>2, <1>3, <1>4, SameRefl

LEMMA ClaimedLeg ==
  ASSUME NEW l \in Legs, NEW c \in Callers
  PROVE  SameKey(l, Claimed(l, c))
  BY DEF Claimed, Legs, SameKey, Key

(* Key-preserving changes that several operators make in place.              *)
LEMMA TimerLeg == ASSUME NEW l \in Legs, NEW t \in Int PROVE SameKey(l, [l EXCEPT !.timer = t])
  BY DEF Legs, SameKey, Key

LEMMA WokenLeg ==
  ASSUME NEW l \in Legs, NEW t \in Int
  PROVE  SameKey(l, [l EXCEPT !.active = TRUE, !.timer = t])
  BY DEF Legs, SameKey, Key

LEMMA OwnerLeg ==
  ASSUME NEW l \in Legs, NEW c \in Callers
  PROVE  SameKey(l, [l EXCEPT !.owner = c])
  BY DEF Legs, SameKey, Key

LEMMA PrivateLegLeg ==
  ASSUME NEW l \in Legs, NEW slot, NEW n, NEW c \in Callers
  PROVE  SameKey(l, PrivateLeg(l, slot, n, c))
<1> DEFINE target == n = l.bridge.tg
           B == Restarted(l, n, slot, c)
           W == [SwitchedOn(B) EXCEPT !.owner = c]
           C == IF target /\ slot = l.ts /\ ~B.active THEN W ELSE B
           E == IF target /\ C.active /\ C.type = "ON" THEN [C EXCEPT !.timer = C.timeout] ELSE C
<1>1. SameKey(l, B)
  BY RestartedLeg
<1>2. SameKey(l, SwitchedOn(B))
  BY <1>1, SwitchedOnLeg, SameTrans DEF SameKey
<1>3. SameKey(l, W)
  BY <1>2, OwnerLeg, SameTrans DEF SameKey
<1>4. SameKey(l, C)
  BY <1>1, <1>3
<1> HIDE DEF C
<1>5. SameKey(l, [C EXCEPT !.timer = C.timeout])
  <2>1. C \in Legs /\ C.timeout \in Int
    BY <1>4, LegTypes DEF SameKey
  <2>2. SameKey(C, [C EXCEPT !.timer = C.timeout])
    BY <2>1, TimerLeg
  <2> QED BY <1>4, <2>2, SameTrans
<1>6. SameKey(l, E)
  BY <1>4, <1>5
<1> HIDE DEF E
<1>7. SameKey(l, SwitchedAway(E))
  BY <1>6, SwitchedAwayLeg, SameTrans DEF SameKey
<1>8. PrivateLeg(l, slot, n, c) = IF ~target /\ slot = l.ts THEN SwitchedAway(E) ELSE E
  BY DEF PrivateLeg, E, C
<1> QED BY <1>6, <1>7, <1>8

LEMMA GroupLegLeg ==
  ASSUME NEW l \in Legs, NEW s, NEW slot, NEW g, NEW c
  PROVE  SameKey(l, GroupLeg(l, s, slot, g, c))
<1> DEFINE B == Restarted(l, g, slot, c)
           Called == ~l.bridge.ref /\ g = l.tg /\ slot = l.ts
           A == CASE Called /\ ~B.active -> SwitchedOn(B)
                  [] Called /\ B.active /\ B.type = "ON" -> [B EXCEPT !.timer = B.timeout]
                  [] OTHER -> B
<1>1. SameKey(l, B)
  BY RestartedLeg
<1> HIDE DEF B
<1>2. SameKey(l, SwitchedOn(B))
  BY <1>1, SwitchedOnLeg, SameTrans DEF SameKey
<1>3. SameKey(l, [B EXCEPT !.timer = B.timeout])
  <2>1. B \in Legs /\ B.timeout \in Int
    BY <1>1, LegTypes DEF SameKey
  <2>2. SameKey(B, [B EXCEPT !.timer = B.timeout])
    BY <2>1, TimerLeg
  <2> QED BY <1>1, <2>2, SameTrans
<1>4. SameKey(l, A)
  BY <1>1, <1>2, <1>3
<1> HIDE DEF A
<1>5. SameKey(l, SwitchedAway(A))
  BY <1>4, SwitchedAwayLeg, SameTrans DEF SameKey
<1>6. GroupLeg(l, s, slot, g, c) =
        IF s \in SingleMode /\ l.type # "NONE" /\ slot = l.ts /\ WrongTG(l, g)
        THEN SwitchedAway(A) ELSE A
  BY DEF GroupLeg, A, B
<1> QED BY <1>4, <1>5, <1>6

-----------------------------------------------------------------------------
(* Functions that switch legs off, and rebuild the index.                    *)

LEMMA GoodLegs == ASSUME NEW T, Good(T) PROVE T \in Tables /\ T.legs \in SUBSET Legs
  BY DEF Good, Tables

LEMMA ClearSessionGood ==
  ASSUME NEW T, Good(T), NEW s
  PROVE  Good(ClearSession(T, s))
<1>1. ASSUME NEW U, Good(U) PROVE Good(ClearDefaultReflectors(U, s))
  BY <1>1, GoodLegs, GoodRefreshed, SwitchedOffLeg DEF ClearDefaultReflectors, SameKey
<1>2. ASSUME NEW U, Good(U) PROVE Good(ResetDynamicReflectors(U, s))
  BY <1>2, GoodLegs, GoodRefreshed, DroppedLeg DEF ResetDynamicReflectors, SameKey
<1> QED BY <1>1, <1>2 DEF ClearSession

LEMMA DisconnectDialReflectorsGood ==
  ASSUME NEW T, Good(T), NEW s
  PROVE  Good(DisconnectDialReflectors(T, s))
  BY GoodLegs, GoodRefreshed, DroppedLeg DEF DisconnectDialReflectors, SameKey

LEMMA DeactivateLinkedGood ==
  ASSUME NEW T, Good(T), NEW s
  PROVE  Good(DeactivateLinked(T, s))
<1> DEFINE Drives(b) == \E l \in LegsOf(T.legs, b) :
                          l.sys = s /\ l.active /\ (l.type = "ON" \/ b.ref)
           F(l) == IF Drives(l.bridge) /\ l.sys \in LinkedTo(s) /\ l.active
                   THEN [l EXCEPT !.active = FALSE, !.timer = 0,
                                  !.owner = IF l.bridge.ref THEN NoOwner ELSE @]
                   ELSE l
<1>1. \A l \in T.legs : F(l) \in Legs
  <2> SUFFICES ASSUME NEW l \in T.legs PROVE F(l) \in Legs
    OBVIOUS
  <2> DEFINE t == 0
             o == IF l.bridge.ref THEN NoOwner ELSE l.owner
  <2>1. l \in Legs /\ t \in Int /\ o \in Owners
    BY GoodLegs DEF Legs, Owners
  <2>2. F(l) = IF Drives(l.bridge) /\ l.sys \in LinkedTo(s) /\ l.active
               THEN [l EXCEPT !.active = FALSE, !.timer = t, !.owner = o] ELSE l
    OBVIOUS
  <2> HIDE DEF t, o, F
  <2>3. [l EXCEPT !.active = FALSE, !.timer = t, !.owner = o] \in Legs
    BY <2>1 DEF Legs, Owners
  <2> QED BY <2>1, <2>2, <2>3
<1> HIDE DEF F
<1>2. Good(Refreshed(T, {F(l) : l \in T.legs}))
  BY <1>1, GoodRefreshed
<1> QED BY <1>2 DEF DeactivateLinked, F

LEMMA SelfcareDisconnectGood ==
  ASSUME NEW T, Good(T), NEW s
  PROVE  Good(SelfcareDisconnect(T, s))
<1>1. ASSUME NEW U, Good(U) PROVE Good(DeactivateUserActivated(U, s))
  BY <1>1, GoodLegs, GoodRefreshed, SwitchedOffLeg DEF DeactivateUserActivated, SameKey
<1> QED
  BY <1>1, DisconnectDialReflectorsGood, DeactivateLinkedGood DEF SelfcareDisconnect

LEMMA DeactivateOtherDynamicGood ==
  ASSUME NEW T, Good(T), NEW s, NEW keep, NEW slot
  PROVE  Good(DeactivateOtherDynamic(T, s, keep, slot))
  BY GoodLegs, GoodRefreshed, SwitchedOffLeg DEF DeactivateOtherDynamic, SameKey

-----------------------------------------------------------------------------
(* Functions that rewrite legs in place and leave the index alone.           *)

LEMMA ActivateLinkedGood ==
  ASSUME NEW T, Good(T), NEW b, NEW s, NEW slot, NEW t \in Int
  PROVE  Good(ActivateLinked(T, b, s, slot, t))
<1> DEFINE F(l) == IF l.bridge = b /\ l.sys \in LinkedTo(s) /\ l.ts = slot /\ l.type # "NONE"
                   THEN [l EXCEPT !.active = TRUE, !.timer = t] ELSE l
<1>1. ASSUME NEW l \in T.legs PROVE SameKey(l, F(l))
  <2>1. l \in Legs
    BY GoodLegs
  <2>2. SameKey(l, [l EXCEPT !.active = TRUE, !.timer = t])
    BY <2>1, WokenLeg
  <2> QED BY <2>1, <2>2, SameRefl
<1> HIDE DEF F
<1>2. Good(WithLegs(T, {F(l) : l \in T.legs}))
  BY <1>1, GoodMapped
<1> QED BY <1>2 DEF ActivateLinked, F

LEMMA TouchStatGood ==
  ASSUME NEW T, Good(T), NEW n
  PROVE  Good(TouchStat(T, n))
<1> DEFINE t == 0
           F(l) == IF l.bridge = Conf(n) /\ l.type = "STAT" THEN [l EXCEPT !.timer = t] ELSE l
<1>1. t \in Int /\ TouchStat(T, n) = WithLegs(T, {F(l) : l \in T.legs})
  BY DEF TouchStat
<1> HIDE DEF t
<1>2. ASSUME NEW l \in T.legs PROVE SameKey(l, F(l))
  <2>1. l \in Legs
    BY GoodLegs
  <2>2. SameKey(l, [l EXCEPT !.timer = t])
    BY <1>1, <2>1, TimerLeg
  <2> QED BY <2>1, <2>2, SameRefl
<1> HIDE DEF F
<1> QED BY <1>1, <1>2, GoodMapped

LEMMA AgeGood == ASSUME NEW T, Good(T) PROVE Good(Age(T))
  BY AgedLeg, GoodLegs, GoodMapped DEF Age

LEMMA ExtendDialTimersGood ==
  ASSUME NEW T, Good(T), NEW s, NEW slot, NEW g, NEW c \in Callers, NEW group
  PROVE  Good(ExtendDialTimers(T, s, slot, g, c, group))
<1> DEFINE Counts(b) == b.ref /\ g # Unlink
                        /\ (g = b.tg \/ (group /\ g = Dial) \/ (~group /\ g = Status))
           Mine(l)   == Counts(l.bridge) /\ l.sys = s /\ l.ts = slot /\ l.active
                        /\ l.type = "ON" /\ l.timeout # 0
           Extended(l) == LET o == Claimed(l, c)
                          IN  IF MayExtend(o, c) THEN [o EXCEPT !.timer = l.timeout] ELSE o
           F(l) == IF Mine(l) THEN Extended(l) ELSE l
<1>1. ASSUME NEW l \in T.legs PROVE SameKey(l, F(l))
  <2> DEFINE o == Claimed(l, c)
             u == l.timeout
  <2>1. l \in Legs /\ u \in Int
    BY GoodLegs, LegTypes
  <2>2. SameKey(l, o)
    BY <2>1, ClaimedLeg
  <2>3. Extended(l) = IF MayExtend(o, c) THEN [o EXCEPT !.timer = u] ELSE o
    OBVIOUS
  <2> HIDE DEF o, u, Extended
  <2>4. SameKey(l, [o EXCEPT !.timer = u])
    <3>1. o \in Legs
      BY <2>2 DEF SameKey
    <3>2. SameKey(o, [o EXCEPT !.timer = u])
      BY <2>1, <3>1, TimerLeg
    <3> QED BY <2>2, <3>2, SameTrans
  <2> QED BY <2>1, <2>2, <2>3, <2>4, SameRefl
<1> HIDE DEF F
<1>2. Good(WithLegs(T, {F(l) : l \in T.legs}))
  BY <1>1, GoodMapped
<1> QED BY <1>2 DEF ExtendDialTimers, F

LEMMA GroupEndGood ==
  ASSUME NEW T, Good(T), NEW s, NEW slot, NEW g, NEW c \in Callers
  PROVE  Good(GroupEnd(T, s, slot, g, c))
<1> DEFINE X == ExtendDialTimers(T, s, slot, g, c, TRUE)
<1>1. Good(X)
  BY ExtendDialTimersGood
<1> HIDE DEF X
<1> DEFINE F(l) == IF l.sys = s /\ (l.bridge.ref => g \in {Dial, l.bridge.tg})
                   THEN GroupLeg(l, s, slot, g, c) ELSE l
<1>2. ASSUME NEW l \in X.legs PROVE SameKey(l, F(l))
  BY <1>1, GoodLegs, GroupLegLeg, SameRefl
<1> HIDE DEF F
<1>3. Good(WithLegs(X, {F(l) : l \in X.legs}))
  BY <1>1, <1>2, GoodMapped
<1> QED BY <1>3 DEF GroupEnd, F, X

-----------------------------------------------------------------------------
(* Functions that create bridges and legs.                                   *)

LEMMA Bridges ==
  ASSUME NEW n \in TGs
  PROVE  Conf(n) \in BridgeNames /\ Ref(n) \in BridgeNames
  BY DEF Conf, Ref, BridgeNames

LEMMA MasterLegType ==
  ASSUME NEW b \in BridgeNames, NEW s \in Masters, NEW ts \in Slots, NEW type \in ToTypes,
         NEW active \in BOOLEAN, NEW timeout \in Nat, NEW timer \in Int
  PROVE  /\ MasterLeg(b, s, ts, type, active, timeout, timer) \in Legs
         /\ MasterLeg(b, s, ts, type, active, timeout, timer).bridge = b
  BY DEF MasterLeg, Legs, BridgeNames, Systems

(* The two legs of OPTIONS and start-up: user-activated and off, static and on. *)
LEMMA IdleLegType ==
  ASSUME NEW b \in BridgeNames, NEW s \in Masters, NEW ts \in Slots,
         NEW timeout \in Nat, NEW timer \in Int
  PROVE  /\ MasterLeg(b, s, ts, "ON", FALSE, timeout, timer) \in Legs
         /\ MasterLeg(b, s, ts, "ON", FALSE, timeout, timer).bridge = b
<1> DEFINE type == "ON"
           active == FALSE
<1>1. type \in ToTypes /\ active \in BOOLEAN
  BY DEF ToTypes
<1> HIDE DEF type, active
<1>2. /\ MasterLeg(b, s, ts, type, active, timeout, timer) \in Legs
      /\ MasterLeg(b, s, ts, type, active, timeout, timer).bridge = b
  BY <1>1, MasterLegType
<1> QED BY <1>2 DEF type, active

LEMMA StaticLegType ==
  ASSUME NEW b \in BridgeNames, NEW s \in Masters, NEW ts \in Slots, NEW tmout \in Nat
  PROVE  /\ MasterLeg(b, s, ts, "OFF", TRUE, tmout, tmout) \in Legs
         /\ MasterLeg(b, s, ts, "OFF", TRUE, tmout, tmout).bridge = b
<1> DEFINE type == "OFF"
           active == TRUE
<1>1. type \in ToTypes /\ active \in BOOLEAN /\ tmout \in Int
  BY DEF ToTypes
<1> HIDE DEF type, active
<1>2. /\ MasterLeg(b, s, ts, type, active, tmout, tmout) \in Legs
      /\ MasterLeg(b, s, ts, type, active, tmout, tmout).bridge = b
  BY <1>1, MasterLegType
<1> QED BY <1>2 DEF type, active

LEMMA ObpLegType ==
  ASSUME NEW b \in BridgeNames, NEW o \in OBPs, NEW type \in ToTypes
  PROVE  ObpLeg(b, o, type) \in Legs /\ ObpLeg(b, o, type).bridge = b
  BY DEF ObpLeg, Legs, BridgeNames, Systems, Slots

LEMMA MakeSingleBridgeGood ==
  ASSUME NEW T, Good(T), NEW n \in TGs, NEW s, NEW slot, NEW tmout \in Nat
  PROVE  Good(MakeSingleBridge(T, n, s, slot, tmout))
<1> DEFINE b == Conf(n)
           Caller(m, ts) == m = s /\ ts = slot
           Leg(m, ts) == MasterLeg(b, m, ts, "ON", Caller(m, ts), tmout,
                                   IF Caller(m, ts) THEN tmout ELSE 0)
           masters == {Leg(m, ts) : m \in Masters, ts \in Slots}
           obps == IF NetTG(n) THEN {ObpLeg(b, o, "NONE") : o \in OBPs} ELSE {}
           A == masters \cup obps
           L == T.legs \cup masters \cup obps
           F(l) == IF l.bridge = b /\ l.sys \in LinkedTo(s) /\ l.ts = slot /\ l.type # "NONE"
                   THEN [l EXCEPT !.active = TRUE, !.timer = tmout] ELSE l
           M == {F(l) : l \in L}
<1>1. b \in BridgeNames
  BY Bridges
<1> HIDE DEF b
<1>2. ASSUME NEW m \in Masters, NEW ts \in Slots
      PROVE  Leg(m, ts) \in Legs /\ Leg(m, ts).bridge = b
  <2>1. "ON" \in ToTypes /\ Caller(m, ts) \in BOOLEAN
        /\ (IF Caller(m, ts) THEN tmout ELSE 0) \in Int
    BY DEF ToTypes
  <2> HIDE DEF Caller
  <2> QED BY <1>1, <2>1, MasterLegType
<1>3. ASSUME NEW o \in OBPs
      PROVE  ObpLeg(b, o, "NONE") \in Legs /\ ObpLeg(b, o, "NONE").bridge = b
  <2>1. "NONE" \in ToTypes
    BY DEF ToTypes
  <2> QED BY <1>1, <2>1, ObpLegType
<1> HIDE DEF Leg
<1>4. masters \in SUBSET Legs /\ \A l \in masters : l.bridge = b
  BY <1>2
<1>5. obps \in SUBSET Legs /\ \A l \in obps : l.bridge = b
  BY <1>3
<1> HIDE DEF masters, obps
<1>6. T \in Tables /\ L \in SUBSET Legs
  BY <1>4, <1>5, GoodLegs
<1>7. ASSUME NEW l \in L PROVE SameKey(l, F(l))
  <2>1. l \in Legs /\ tmout \in Int
    BY <1>6
  <2>2. SameKey(l, [l EXCEPT !.active = TRUE, !.timer = tmout])
    BY <2>1, WokenLeg
  <2> QED BY <2>1, <2>2, SameRefl
<1>8. IndexOf(T.legs) \subseteq IndexOf(L)
      /\ \A k \in IndexOf(L) : k \in IndexOf(T.legs) \/ k.bridge = b
  BY <1>4, <1>5 DEF IndexOf, Key
<1>9. MakeSingleBridge(T, n, s, slot, tmout) = IdxAdd(WithLegs(WithLegs(T, L), M), b)
  <2>1. WithLegs(T, L).legs = L
    BY <1>6, TablesWithLegs
  <2>2. ActivateLinked(WithLegs(T, L), b, s, slot, tmout) = WithLegs(WithLegs(T, L), M)
    BY <2>1, Zenon DEF ActivateLinked
  <2>3. MakeSingleBridge(T, n, s, slot, tmout)
          = IdxAdd(ActivateLinked(WithLegs(T, L), b, s, slot, tmout), b)
    BY DEF MakeSingleBridge, b, Leg, masters, obps
  <2> QED BY <2>2, <2>3
<1> HIDE DEF L, F
<1>10. M \in SUBSET Legs /\ IndexOf(M) = IndexOf(L)
  <2>1. \A l \in L : \E m \in M : SameKey(l, m)
    BY <1>7
  <2>2. \A m \in M : \E l \in L : SameKey(l, m)
    BY <1>7
  <2> HIDE DEF M
  <2> QED BY <1>6, <2>1, <2>2, Mapped
<1> HIDE DEF M
<1>11. Good(IdxAdd(WithLegs(T, M), b))
  BY <1>8, <1>10, GoodAdd
<1>12. WithLegs(WithLegs(T, L), M) = WithLegs(T, M)
  BY <1>6 DEF WithLegs, Tables
<1> QED BY <1>9, <1>11, <1>12

LEMMA MakeStatBridgeGood ==
  ASSUME NEW T, Good(T), NEW n \in TGs
  PROVE  Good(MakeStatBridge(T, n))
<1> DEFINE A == {ObpLeg(Conf(n), o, "STAT") : o \in OBPs}
<1>1. ASSUME NEW o \in OBPs
      PROVE  ObpLeg(Conf(n), o, "STAT") \in Legs /\ ObpLeg(Conf(n), o, "STAT").bridge = Conf(n)
  <2>1. "STAT" \in ToTypes
    BY DEF ToTypes
  <2> QED BY <2>1, Bridges, ObpLegType
<1>2. A \in SUBSET Legs /\ \A l \in A : l.bridge = Conf(n)
  BY <1>1
<1> HIDE DEF A
<1>3. Good(IdxAdd(WithLegs(T, T.legs \cup A), Conf(n)))
  BY <1>2, GoodAddLegs
<1> QED BY <1>3 DEF MakeStatBridge, A

LEMMA MakeSingleReflectorGood ==
  ASSUME NEW T, Good(T), NEW n \in TGs, NEW s, NEW tmout \in Nat,
         NEW tmouts \in [Masters -> Nat]
  PROVE  Good(MakeSingleReflector(T, n, s, tmout, tmouts))
<1> DEFINE b == Ref(n)
           Leg(m) == MasterLeg(b, m, 2, "ON", m = s, IF m = s THEN tmout ELSE tmouts[m],
                               IF m = s THEN tmout ELSE 0)
           masters == {Leg(m) : m \in Masters}
           obps == IF NetTG(n) THEN {ObpLeg(b, o, "NONE") : o \in OBPs} ELSE {}
           A == masters \cup obps
<1>1. b \in BridgeNames
  BY Bridges
<1>2. MakeSingleReflector(T, n, s, tmout, tmouts)
        = IdxAdd(WithLegs(T, T.legs \cup masters \cup obps), b)
  BY DEF MakeSingleReflector
<1> HIDE DEF b
<1>3. ASSUME NEW m \in Masters PROVE Leg(m) \in Legs /\ Leg(m).bridge = b
  <2> DEFINE a == m = s
             t == IF m = s THEN tmout ELSE tmouts[m]
             u == IF m = s THEN tmout ELSE 0
  <2>1. "ON" \in ToTypes /\ 2 \in Slots /\ a \in BOOLEAN /\ t \in Nat /\ u \in Int
    BY DEF ToTypes, Slots
  <2>2. Leg(m) = MasterLeg(b, m, 2, "ON", a, t, u)
    OBVIOUS
  <2> HIDE DEF a, t, u, Leg
  <2> QED BY <1>1, <2>1, <2>2, MasterLegType
<1>4. ASSUME NEW o \in OBPs
      PROVE  ObpLeg(b, o, "NONE") \in Legs /\ ObpLeg(b, o, "NONE").bridge = b
  <2>1. "NONE" \in ToTypes
    BY DEF ToTypes
  <2> QED BY <1>1, <2>1, ObpLegType
<1> HIDE DEF Leg
<1>5. A \in SUBSET Legs /\ \A l \in A : l.bridge = b
  BY <1>3, <1>4
<1>6. T.legs \cup masters \cup obps = T.legs \cup A
  OBVIOUS
<1> HIDE DEF A, masters, obps
<1> QED BY <1>2, <1>5, <1>6, GoodAddLegs

LEMMA EnsureMasterOnLegsGood ==
  ASSUME NEW T, Good(T), NEW b \in BridgeNames, NEW s \in Masters, NEW tmout \in Nat
  PROVE  Good(EnsureMasterOnLegs(T, b, s, tmout))
<1> DEFINE missing == {ts \in Slots :
                         ~\E l \in LegsOf(T.legs, b) : l.sys = s /\ l.ts = ts /\ l.type = "ON"}
           added == {MasterLeg(b, s, ts, "ON", FALSE, tmout, 0) : ts \in missing}
<1>1. EnsureMasterOnLegs(T, b, s, tmout)
        = IF missing = {} THEN T ELSE IdxReplace(WithLegs(T, T.legs \cup added), b)
  BY DEF EnsureMasterOnLegs
<1>2. ASSUME NEW ts \in Slots
      PROVE  /\ MasterLeg(b, s, ts, "ON", FALSE, tmout, 0) \in Legs
             /\ MasterLeg(b, s, ts, "ON", FALSE, tmout, 0).bridge = b
  <2> DEFINE t == 0
  <2>1. t \in Int
    OBVIOUS
  <2> HIDE DEF t
  <2>2. /\ MasterLeg(b, s, ts, "ON", FALSE, tmout, t) \in Legs
        /\ MasterLeg(b, s, ts, "ON", FALSE, tmout, t).bridge = b
    BY <2>1, IdleLegType
  <2> QED BY <2>2 DEF t
<1>3. missing \in SUBSET Slots
  OBVIOUS
<1> HIDE DEF missing
<1>4. added \in SUBSET Legs /\ \A l \in added : l.bridge = b
  BY <1>2, <1>3
<1> HIDE DEF added
<1>5. T.legs \cup added \in SUBSET Legs
      /\ Others(T.legs \cup added, b) = Others(T.legs, b)
  BY <1>4, GoodLegs DEF Others
<1> QED BY <1>1, <1>5, GoodReplace

LEMMA ActivateUaBridgeSourceGood ==
  ASSUME NEW T, Good(T), NEW n \in TGs, NEW s \in Masters, NEW slot, NEW tmout \in Nat
  PROVE  Good(ActivateUaBridgeSource(T, n, s, slot, tmout))
<1> DEFINE b == Conf(n)
           E == EnsureMasterOnLegs(T, b, s, tmout)
           F(l) == IF l.bridge = b /\ l.sys = s /\ l.ts = slot /\ l.type # "NONE"
                   THEN [l EXCEPT !.active = TRUE, !.timer = tmout] ELSE l
           A == WithLegs(E, {F(l) : l \in E.legs})
<1>1. ActivateUaBridgeSource(T, n, s, slot, tmout) = ActivateLinked(A, b, s, slot, tmout)
  BY DEF ActivateUaBridgeSource
<1>2. Good(E)
  BY Bridges, EnsureMasterOnLegsGood
<1> HIDE DEF E, b
<1>3. ASSUME NEW l \in E.legs PROVE SameKey(l, F(l))
  <2>1. l \in Legs /\ tmout \in Int
    BY <1>2, GoodLegs
  <2>2. SameKey(l, [l EXCEPT !.active = TRUE, !.timer = tmout])
    BY <2>1, WokenLeg
  <2> QED BY <2>1, <2>2, SameRefl
<1> HIDE DEF F
<1>4. Good(A)
  BY <1>2, <1>3, GoodMapped
<1> HIDE DEF A
<1>5. tmout \in Int
  OBVIOUS
<1> QED BY <1>1, <1>4, <1>5, ActivateLinkedGood

-----------------------------------------------------------------------------
(* Functions that replace the legs of one system.                            *)

(* One leg of b put in the place of others of b: what is left of b is legs,   *)
(* and the other bridges are untouched.                                      *)
LEMMA ReplaceLegLegs ==
  ASSUME NEW T, Good(T), NEW b, NEW s, NEW ts, NEW leg \in LegsFor(b)
  PROVE  \E L \in SUBSET Legs : /\ ReplaceLeg(T, b, s, ts, leg) = WithLegs(T, L)
                                /\ Others(L, b) = Others(T.legs, b)
<1> DEFINE L == {IF l.bridge = b /\ l.sys = s /\ l.ts = ts THEN leg ELSE l : l \in T.legs}
<1>1. L \in SUBSET Legs /\ Others(L, b) = Others(T.legs, b)
  BY GoodLegs DEF Others, LegsFor
<1>2. ReplaceLeg(T, b, s, ts, leg) = WithLegs(T, L)
  BY DEF ReplaceLeg
<1> HIDE DEF L
<1> QED BY <1>1, <1>2

LEMMA ReplaceLegGood ==
  ASSUME NEW T, Good(T), NEW b, NEW s, NEW ts, NEW leg \in LegsFor(b)
  PROVE  Good(IdxReplace(ReplaceLeg(T, b, s, ts, leg), b))
<1>1. PICK L \in SUBSET Legs : /\ ReplaceLeg(T, b, s, ts, leg) = WithLegs(T, L)
                               /\ Others(L, b) = Others(T.legs, b)
  BY ReplaceLegLegs
<1>2. Good(IdxReplace(WithLegs(T, L), b))
  BY <1>1, GoodReplace
<1> QED BY <1>1, <1>2

LEMMA ReplaceReplaced ==
  ASSUME NEW T \in Tables, NEW L \in SUBSET Legs, NEW M
  PROVE  WithLegs(WithLegs(T, L), M) = WithLegs(T, M)
  BY DEF WithLegs, Tables

LEMMA MakeStaticTGGood ==
  ASSUME NEW T, Good(T), NEW n \in TGs, NEW ts \in Slots, NEW tmout \in Nat, NEW s \in Masters
  PROVE  Good(MakeStaticTG(T, n, ts, tmout, s))
<1> DEFINE b   == Conf(n)
           leg == MasterLeg(b, s, ts, "OFF", TRUE, tmout, tmout)
           M   == IF b \in Names(T.legs) THEN T ELSE MakeSingleBridge(T, n, s, ts, tmout)
<1>1. MakeStaticTG(T, n, ts, tmout, s)
        = IdxReplace(WithLegs(ReplaceLeg(M, b, s, ts, leg),
                              ReplaceLeg(M, b, s, ts, leg).legs \cup {leg}), b)
  BY DEF MakeStaticTG
<1>2. Good(M)
  BY MakeSingleBridgeGood
<1>3. leg \in LegsFor(b)
  BY Bridges, StaticLegType DEF LegsFor
<1> HIDE DEF b, leg, M
<1>4. PICK L \in SUBSET Legs : /\ ReplaceLeg(M, b, s, ts, leg) = WithLegs(M, L)
                               /\ Others(L, b) = Others(M.legs, b)
  BY <1>2, <1>3, ReplaceLegLegs
<1> DEFINE K == L \cup {leg}
<1>5. K \in SUBSET Legs /\ Others(K, b) = Others(M.legs, b)
  <2>1. Others(K, b) = Others(L, b)
    BY <1>3 DEF Others, LegsFor
  <2>2. leg \in Legs
    BY <1>3 DEF LegsFor
  <2> QED BY <1>4, <2>1, <2>2
<1>6. WithLegs(M, L).legs \cup {leg} = K
  BY <1>2, GoodLegs, TablesWithLegs
<1> HIDE DEF K
<1>7. WithLegs(WithLegs(M, L), K) = WithLegs(M, K)
  BY <1>2, GoodLegs, ReplaceReplaced
<1>8. Good(IdxReplace(WithLegs(M, K), b))
  BY <1>2, <1>5, GoodReplace
<1> QED BY <1>1, <1>4, <1>6, <1>7, <1>8

LEMMA ResetStaticTGGood ==
  ASSUME NEW T, Good(T), NEW n \in TGs, NEW ts \in Slots, NEW tmout \in Nat, NEW s \in Masters
  PROVE  Good(ResetStaticTG(T, n, ts, tmout, s))
<1> DEFINE b   == Conf(n)
           leg == MasterLeg(b, s, ts, "ON", FALSE, tmout, tmout)
<1>1. ResetStaticTG(T, n, ts, tmout, s)
        = IF b \notin Names(T.legs) THEN T ELSE IdxReplace(ReplaceLeg(T, b, s, ts, leg), b)
  BY DEF ResetStaticTG
<1>2. b \in BridgeNames /\ tmout \in Int
  BY Bridges
<1> HIDE DEF b
<1>3. leg \in LegsFor(b)
  BY <1>2, IdleLegType DEF LegsFor
<1> HIDE DEF leg
<1> QED BY <1>1, <1>3, ReplaceLegGood

LEMMA MakeDefaultReflectorGood ==
  ASSUME NEW T, Good(T), NEW n \in TGs, NEW tmout \in Nat, NEW s \in Masters,
         NEW tmouts \in [Masters -> Nat]
  PROVE  Good(MakeDefaultReflector(T, n, tmout, s, tmouts))
<1> DEFINE b   == Ref(n)
           two == 2
           leg == MasterLeg(b, s, two, "OFF", TRUE, tmout, tmout)
           M   == IF b \in Names(T.legs) THEN T ELSE MakeSingleReflector(T, n, s, tmout, tmouts)
<1>1. MakeDefaultReflector(T, n, tmout, s, tmouts) = IdxReplace(ReplaceLeg(M, b, s, two, leg), b)
  BY DEF MakeDefaultReflector
<1>2. Good(M)
  BY MakeSingleReflectorGood
<1>3. b \in BridgeNames /\ two \in Slots
  BY Bridges DEF Slots
<1> HIDE DEF b, two, M
<1>4. leg \in LegsFor(b)
  BY <1>3, StaticLegType DEF LegsFor
<1> HIDE DEF leg
<1> QED BY <1>1, <1>2, <1>4, ReplaceLegGood

LEMMA ResetDefaultReflectorGood ==
  ASSUME NEW T, Good(T), NEW n \in TGs, NEW tmout \in Nat, NEW s \in Masters,
         NEW tmouts \in [Masters -> Nat]
  PROVE  Good(ResetDefaultReflector(T, n, tmout, s, tmouts))
<1> DEFINE b   == Ref(n)
           two == 2
           leg == MasterLeg(b, s, two, "ON", FALSE, tmout, tmout)
           M   == IF b \in Names(T.legs) THEN T ELSE MakeSingleReflector(T, n, s, tmout, tmouts)
<1>1. ResetDefaultReflector(T, n, tmout, s, tmouts) = IdxReplace(ReplaceLeg(M, b, s, two, leg), b)
  BY DEF ResetDefaultReflector
<1>2. Good(M)
  BY MakeSingleReflectorGood
<1>3. b \in BridgeNames /\ two \in Slots /\ tmout \in Int
  BY Bridges DEF Slots
<1> HIDE DEF b, two, M
<1>4. leg \in LegsFor(b)
  BY <1>3, IdleLegType DEF LegsFor
<1> HIDE DEF leg
<1> QED BY <1>1, <1>2, <1>4, ReplaceLegGood

LEMMA RemoveBridgeSystemGood ==
  ASSUME NEW T, Good(T), NEW s
  PROVE  Good(RemoveBridgeSystem(T, s))
<1> DEFINE F(l) == IF l.sys = s
                   THEN [l EXCEPT !.active = FALSE, !.timer = l.timeout, !.owner = NoOwner]
                   ELSE l
           L == {F(l) : l \in T.legs}
<1>1. ASSUME NEW l \in T.legs PROVE F(l) \in Legs
  <2> DEFINE t == l.timeout
  <2>1. l \in Legs /\ t \in Int
    BY GoodLegs, LegTypes
  <2>2. [l EXCEPT !.active = FALSE, !.timer = t, !.owner = NoOwner] \in Legs
    <3> HIDE DEF t
    <3> QED BY <2>1 DEF Legs
  <2> QED BY <2>1, <2>2
<1>2. RemoveBridgeSystem(T, s) = Rebuild(WithLegs(T, L))
  BY DEF RemoveBridgeSystem
<1> HIDE DEF F
<1>3. L \in SUBSET Legs
  BY <1>1
<1> HIDE DEF L
<1> QED BY <1>2, <1>3, GoodLegs, TablesWithLegs, GoodRebuild

LEMMA RetimeSystemGood ==
  ASSUME NEW T, Good(T), NEW s \in Masters, NEW tmout \in Nat
  PROVE  Good(RetimeSystem(T, s, tmout))
<1> DEFINE R == RemoveBridgeSystem(T, s)
           Lacks(b, ts) == ~\E l \in LegsOf(R.legs, b) : l.sys = s /\ l.ts = ts
           slots == {bt \in Names(R.legs) \X Slots :
                       Lacks(bt[1], bt[2]) /\ (bt[1].ref => bt[2] = 2)}
           new == {MasterLeg(bt[1], s, bt[2], "ON", FALSE, tmout, 0) : bt \in slots}
           L == R.legs \cup new
<1>1. RetimeSystem(T, s, tmout) = Rebuild(WithLegs(R, L))
  BY DEF RetimeSystem
<1>2. Good(R)
  BY RemoveBridgeSystemGood
<1> HIDE DEF R
<1>3. slots \in SUBSET (BridgeNames \X Slots)
  <2>1. Names(R.legs) \in SUBSET BridgeNames
    BY <1>2, GoodLegs DEF Names, Legs
  <2> QED BY <2>1
<1> HIDE DEF slots
<1>4. ASSUME NEW bt \in slots PROVE MasterLeg(bt[1], s, bt[2], "ON", FALSE, tmout, 0) \in Legs
  <2> DEFINE b == bt[1]
             ts == bt[2]
             t == 0
  <2>1. b \in BridgeNames /\ ts \in Slots /\ t \in Int
    BY <1>3
  <2> HIDE DEF b, ts, t
  <2>2. MasterLeg(b, s, ts, "ON", FALSE, tmout, t) \in Legs
    BY <2>1, IdleLegType
  <2> QED BY <2>2 DEF b, ts, t
<1>5. new \in SUBSET Legs
  BY <1>4
<1> HIDE DEF new
<1>6. R \in Tables /\ L \in SUBSET Legs
  BY <1>2, <1>5, GoodLegs
<1> HIDE DEF L
<1> QED BY <1>1, <1>6, TablesWithLegs, GoodRebuild

-----------------------------------------------------------------------------
(* The periodic loops.                                                       *)

LEMMA IndexWithout ==
  ASSUME NEW L, NEW B
  PROVE  IndexOf({l \in L : l.bridge \notin B}) = {k \in IndexOf(L) : k.bridge \notin B}
  BY DEF IndexOf, Key

LEMMA RuleTimerLoopGood ==
  ASSUME NEW T, Good(T)
  PROVE  Good(RuleTimerLoop(T))
<1> DEFINE unused == {b \in Names(T.legs) : \A l \in LegsOf(T.legs, b) : ~RuleKeeps(l)}
           kept == {l \in T.legs : l.bridge \notin unused}
           L == {RuleLeg(l) : l \in kept}
<1>1. RuleTimerLoop(T) = IdxRemove(WithLegs(T, L), unused)
  BY DEF RuleTimerLoop
<1> HIDE DEF unused
<1>2. kept \in SUBSET Legs
  BY GoodLegs
<1>3. IndexOf(kept) = {k \in IndexOf(T.legs) : k.bridge \notin unused}
  BY IndexWithout
<1> HIDE DEF kept
<1>4. L \in SUBSET Legs /\ IndexOf(L) = IndexOf(kept)
  <2>1. \A l \in kept : \E m \in L : SameKey(l, m)
    BY <1>2, RuleLegLeg
  <2>2. \A m \in L : \E l \in kept : SameKey(l, m)
    BY <1>2, RuleLegLeg
  <2> HIDE DEF L
  <2> QED BY <1>2, <2>1, <2>2, Mapped
<1> HIDE DEF L
<1> QED BY <1>1, <1>3, <1>4, GoodRemove

LEMMA StatTrimmerGood ==
  ASSUME NEW T, Good(T)
  PROVE  Good(StatTrimmer(T))
<1> DEFINE Idle(l) == HasStatLegs(T.legs, l.bridge) /\ StatLegIdle(l)
           pruned  == {l.bridge : l \in {l \in T.legs : Idle(l)}}
           kept    == {l \in T.legs : ~Idle(l)}
           idx     == {k \in T.idx : k.bridge \notin pruned}
                        \cup {Key(l) : l \in {l \in kept : l.bridge \in pruned}}
           P       == [legs |-> kept, idx |-> idx]
           removed == {b \in Names(kept) : StatShouldRemove(kept, b)}
           L       == {l \in P.legs : l.bridge \notin removed}
<1>1. StatTrimmer(T) = IdxRemove(WithLegs(P, L), removed)
  BY DEF StatTrimmer
<1>2. idx = IndexOf(kept)
  <2>1. T.idx = IndexOf(T.legs)
    BY DEF Good
  <2>2. \A l \in T.legs : l.bridge \notin pruned => l \in kept
    OBVIOUS
  <2>3. kept \subseteq T.legs
    OBVIOUS
  <2> HIDE DEF pruned, kept
  <2> QED BY <2>1, <2>2, <2>3 DEF IndexOf, Key
<1>3. kept \in SUBSET Legs
  BY GoodLegs
<1> HIDE DEF kept, idx
<1>4. idx \in SUBSET Keys
  BY <1>2, <1>3, IndexType
<1>5. Good(P)
  BY <1>2, <1>3, <1>4 DEF Good, Tables
<1> HIDE DEF P, removed
<1>6. L \in SUBSET Legs
  BY <1>5, GoodLegs
<1>7. IndexOf(L) = {k \in IndexOf(P.legs) : k.bridge \notin removed}
  BY IndexWithout
<1> HIDE DEF L
<1> QED BY <1>1, <1>5, <1>6, <1>7, GoodRemove

-----------------------------------------------------------------------------
(* Calls.                                                                    *)

LEMMA AfterLookupGood ==
  ASSUME NEW T, Good(T), NEW s, NEW ts, NEW g, NEW U \in AfterLookup(T, s, ts, g)
  PROVE  Good(U)
  BY GoodLegs, GoodRebuild DEF AfterLookup

LEMMA LinkReflectorGood ==
  ASSUME NEW T, Good(T), NEW s \in Masters, NEW slot, NEW n \in TGs, NEW c \in Callers,
         NEW tmouts \in [Masters -> Nat]
  PROVE  Good(LinkReflector(T, s, slot, n, c, tmouts))
<1> DEFINE t == tmouts[s]
           M == IF Ref(n) \notin Names(T.legs) /\ Creatable(n)
                THEN MakeSingleReflector(T, n, s, t, tmouts) ELSE T
           F(l) == IF l.bridge.ref /\ l.sys = s THEN PrivateLeg(l, slot, n, c) ELSE l
           P == WithLegs(M, {F(l) : l \in M.legs})
<1>1. LinkReflector(T, s, slot, n, c, tmouts) =
        IF Named(n) THEN DeactivateOtherDynamic(P, s, Ref(n), slot) ELSE P
  BY DEF LinkReflector
<1>2. t \in Nat
  OBVIOUS
<1> HIDE DEF t
<1>3. Good(M)
  BY <1>2, MakeSingleReflectorGood
<1> HIDE DEF M
<1>4. ASSUME NEW l \in M.legs PROVE SameKey(l, F(l))
  <2>1. l \in Legs
    BY <1>3, GoodLegs
  <2>2. SameKey(l, PrivateLeg(l, slot, n, c)) /\ SameKey(l, l)
    BY <2>1, PrivateLegLeg, SameRefl
  <2> QED BY <2>2
<1> HIDE DEF F
<1>5. Good(P)
  BY <1>3, <1>4, GoodMapped
<1> HIDE DEF P
<1> QED BY <1>1, <1>5, DeactivateOtherDynamicGood

LEMMA PrivateStartGood ==
  ASSUME NEW T, Good(T), NEW s \in Masters, NEW slot, NEW d \in TGs \cup {Unlink, Status},
         NEW c \in Callers, NEW tmouts \in [Masters -> Nat]
  PROVE  Good(PrivateStart(T, s, slot, d, c, tmouts))
<1>1. CASE d \in TGs
  BY <1>1, LinkReflectorGood, DisconnectDialReflectorsGood DEF PrivateStart
<1>2. CASE d \in {Unlink, Status}
  BY <1>2, DisconnectDialReflectorsGood DEF PrivateStart, Unlink, Status
<1> QED BY <1>1, <1>2

LEMMA GroupStartGood ==
  ASSUME NEW T, Good(T), NEW s \in Masters, NEW slot, NEW g \in TGs \cup {Dial},
         NEW tmouts \in [Masters -> Nat]
  PROVE  Good(GroupStart(T, s, slot, g, tmouts))
<1> DEFINE t == tmouts[s]
<1>1. t \in Nat
  OBVIOUS
<1>2. GroupStart(T, s, slot, g, tmouts) =
        CASE g = Dial -> T
          [] g # Dial /\ Conf(g) \notin Names(T.legs) -> MakeSingleBridge(T, g, s, slot, t)
          [] OTHER -> ActivateUaBridgeSource(T, g, s, slot, t)
  BY DEF GroupStart
<1> HIDE DEF t
<1>3. CASE g = Dial
  BY <1>2, <1>3
<1>4. CASE g # Dial
  <2>1. g \in TGs
    BY <1>4
  <2>2. Good(MakeSingleBridge(T, g, s, slot, t)) /\ Good(ActivateUaBridgeSource(T, g, s, slot, t))
    BY <1>1, <2>1, MakeSingleBridgeGood, ActivateUaBridgeSourceGood
  <2> QED BY <1>2, <1>4, <2>2
<1> QED BY <1>3, <1>4

-----------------------------------------------------------------------------
(* Options, start-up and OpenBridge traffic.                                 *)

LEMMA OptionTypes ==
  ASSUME NEW o \in Options
  PROVE  /\ o.timer \in Nat
         /\ o.ts1 # None => o.ts1 \in TGs
         /\ o.ts2 # None => o.ts2 \in TGs
         /\ o.dial # None => o.dial \in TGs
  BY DEF Options

LEMMA TimersType ==
  ASSUME CONFIG \in [Masters -> Options]
  PROVE  UATimers \in [Masters -> Nat]
  BY OptionTypes DEF UATimers

LEMMA RestaticGood ==
  ASSUME NEW T, Good(T), NEW ts \in Slots, NEW old, NEW new, NEW tmout \in Nat,
         NEW s \in Masters, old # None => old \in TGs, new # None => new \in TGs
  PROVE  Good(Restatic(T, ts, old, new, tmout, s))
<1> DEFINE R == IF old = None THEN T ELSE ResetStaticTG(T, old, ts, tmout, s)
<1>1. Good(R)
  BY ResetStaticTGGood
<1>2. Restatic(T, ts, old, new, tmout, s) =
        CASE old = new -> T
          [] old # new /\ new = None -> R
          [] OTHER -> MakeStaticTG(R, new, ts, tmout, s)
  BY DEF Restatic
<1> HIDE DEF R
<1>3. new # None => Good(MakeStaticTG(R, new, ts, tmout, s))
  BY <1>1, MakeStaticTGGood
<1> QED BY <1>1, <1>2, <1>3

LEMMA RedialGood ==
  ASSUME NEW T, Good(T), NEW old, NEW new, NEW tmout \in Nat, NEW s \in Masters,
         old # None => old \in TGs, new # None => new \in TGs,
         CONFIG \in [Masters -> Options]
  PROVE  Good(Redial(T, old, new, tmout, s))
<1> DEFINE R == IF old = None THEN T ELSE ResetDefaultReflector(T, old, tmout, s, UATimers)
<1>1. UATimers \in [Masters -> Nat]
  BY TimersType
<1>2. Good(R)
  BY <1>1, ResetDefaultReflectorGood
<1>3. Redial(T, old, new, tmout, s) =
        CASE old = new -> T
          [] old # new /\ new = None -> R
          [] OTHER -> MakeDefaultReflector(R, new, tmout, s, UATimers)
  BY DEF Redial
<1> HIDE DEF R
<1>4. new # None => Good(MakeDefaultReflector(R, new, tmout, s, UATimers))
  BY <1>1, <1>2, MakeDefaultReflectorGood
<1> QED BY <1>2, <1>3, <1>4

LEMMA AppliedGood ==
  ASSUME NEW T, Good(T), NEW s \in Masters, NEW o \in Options, CONFIG \in [Masters -> Options]
  PROVE  Good(Applied(T, s, o))
<1> DEFINE cur == CONFIG[s]
           t == o.timer
           R == IF t = cur.timer THEN T ELSE RetimeSystem(T, s, t)
           D == Redial(R, cur.dial, o.dial, t, s)
           S == Restatic(D, 1, cur.ts1, o.ts1, t, s)
<1>1. Applied(T, s, o) = Restatic(S, 2, cur.ts2, o.ts2, t, s)
  BY DEF Applied
<1>2. /\ cur.ts1 # None => cur.ts1 \in TGs
      /\ cur.ts2 # None => cur.ts2 \in TGs
      /\ cur.dial # None => cur.dial \in TGs
  <2>1. cur \in Options
    OBVIOUS
  <2> HIDE DEF cur
  <2> QED BY <2>1, OptionTypes
<1>3. /\ t \in Nat /\ 1 \in Slots /\ 2 \in Slots
      /\ o.ts1 # None => o.ts1 \in TGs
      /\ o.ts2 # None => o.ts2 \in TGs
      /\ o.dial # None => o.dial \in TGs
  BY OptionTypes DEF Slots
<1> HIDE DEF cur, t
<1>4. Good(R)
  BY <1>3, RetimeSystemGood
<1> HIDE DEF R
<1>5. Good(D)
  BY <1>2, <1>3, <1>4, RedialGood
<1> HIDE DEF D
<1>6. Good(S)
  BY <1>2, <1>3, <1>5, RestaticGood
<1> HIDE DEF S
<1> QED BY <1>1, <1>2, <1>3, <1>6, RestaticGood

LEMMA BootTableGood ==
  ASSUME NEW T, Good(T), NEW m \in Masters, CONFIG \in [Masters -> Options]
  PROVE  Good(BootTable(T, m))
<1> DEFINE o == CONFIG[m]
           t == o.timer
           D == IF o.dial = None THEN T ELSE MakeDefaultReflector(T, o.dial, t, m, UATimers)
           S == IF o.ts1 = None THEN D ELSE MakeStaticTG(D, o.ts1, 1, t, m)
<1>1. BootTable(T, m) = IF o.ts2 = None THEN S ELSE MakeStaticTG(S, o.ts2, 2, t, m)
  BY DEF BootTable
<1>2. /\ t \in Nat /\ 1 \in Slots /\ 2 \in Slots
      /\ o.ts1 # None => o.ts1 \in TGs
      /\ o.ts2 # None => o.ts2 \in TGs
      /\ o.dial # None => o.dial \in TGs
  <2>1. o \in Options
    OBVIOUS
  <2> HIDE DEF o
  <2> QED BY <2>1, OptionTypes DEF Slots
<1> HIDE DEF o, t
<1>3. Good(D)
  BY <1>2, TimersType, MakeDefaultReflectorGood
<1> HIDE DEF D
<1>4. Good(S)
  BY <1>2, <1>3, MakeStaticTGGood
<1> HIDE DEF S
<1> QED BY <1>1, <1>2, <1>4, MakeStaticTGGood

LEMMA ObpTableGood ==
  ASSUME Good(Table), NEW o, NEW g \in TGs, NEW new
  PROVE  Good(ObpTable(o, g, new))
<1> DEFINE T == IF GenStat /\ Conf(g) \notin Names(BRIDGES) THEN MakeStatBridge(Table, g)
                ELSE Table
<1>1. ObpTable(o, g, new) = IF new /\ Conf(g) \in Names(T.legs) THEN TouchStat(T, g) ELSE T
  BY DEF ObpTable
<1>2. Good(T)
  BY MakeStatBridgeGood
<1> HIDE DEF T
<1> QED BY <1>1, <1>2, TouchStatGood

-----------------------------------------------------------------------------
(* The invariant.                                                            *)

Inv ==
    /\ Good(Table)
    /\ CONFIG \in [Masters -> Options]
    /\ call \in [Masters -> [Slots -> Streams \cup {NoCall}]]
    /\ booting \subseteq Masters

LEMMA InvMeaning == Inv => TypeOK /\ IndexConsistent
  BY DEF Inv, TypeOK, IndexConsistent, Good, Table, Tables

LEMMA BecomesGood ==
  ASSUME NEW T, Good(T), Becomes(T)
  PROVE  Good(Table)'
  BY DEF Good, Becomes, Table, Tables

LEMMA InitInv == Init => Inv
<1> SUFFICES ASSUME Init PROVE Inv
  OBVIOUS
<1>1. IndexOf({}) = {}
  BY DEF IndexOf
<1>2. [m \in Masters |-> [ts \in Slots |-> NoCall]] \in [Masters -> [Slots -> Streams \cup {NoCall}]]
  OBVIOUS
<1> QED BY <1>1, <1>2, NoneAssumption DEF Init, Inv, Good, Table, Tables

LEMMA CallType ==
  ASSUME call \in [Masters -> [Slots -> Streams \cup {NoCall}]],
         NEW s \in Masters, NEW ts \in Slots, NEW x \in Streams \cup {NoCall},
         call' = [call EXCEPT ![s][ts] = x]
  PROVE  call' \in [Masters -> [Slots -> Streams \cup {NoCall}]]
  OBVIOUS

LEMMA KeyupInv ==
  ASSUME Inv, NEW s \in Masters, Keyup(s)
  PROVE  Inv'
<1> USE TrafficAssumption DEF Inv
<1>1. UATimers \in [Masters -> Nat]
  BY TimersType
<1>2. ASSUME NEW ts \in GroupSlots, NEW g \in GroupTGs, NEW c \in Callers,
             GroupCallStart(s, ts, g, c)
      PROVE  Inv'
  <2>1. Good(GroupStart(Table, s, ts, g, UATimers))
    BY <1>1, GroupStartGood
  <2>2. PICK T \in AfterLookup(GroupStart(Table, s, ts, g, UATimers), s, ts, g) : Becomes(T)
    BY <1>2 DEF GroupCallStart
  <2>3. Good(Table)'
    BY <2>1, <2>2, AfterLookupGood, BecomesGood
  <2>4. [kind |-> "group", dst |-> g, caller |-> c] \in Streams \cup {NoCall}
    BY DEF Streams, StreamKinds
  <2>5. call' \in [Masters -> [Slots -> Streams \cup {NoCall}]]
    BY <1>2, <2>4, CallType DEF GroupCallStart
  <2> QED BY <1>2, <2>3, <2>5 DEF GroupCallStart
<1>3. ASSUME NEW ts \in GroupSlots, GroupCallEnd(s, ts)
      PROVE  Inv'
  <2> DEFINE x == call[s][ts]
  <2>1. x.caller \in Callers
    BY <1>3 DEF GroupCallEnd, NoCall, Streams
  <2> HIDE DEF x
  <2>2. PICK T \in AfterLookup(Table, s, ts, x.dst) : Becomes(GroupEnd(T, s, ts, x.dst, x.caller))
    BY <1>3 DEF GroupCallEnd, x
  <2>3. Good(GroupEnd(T, s, ts, x.dst, x.caller))
    BY <2>1, <2>2, AfterLookupGood, GroupEndGood
  <2>4. call' \in [Masters -> [Slots -> Streams \cup {NoCall}]]
    BY <1>3, CallType DEF GroupCallEnd
  <2> QED BY <1>3, <2>2, <2>3, <2>4, BecomesGood DEF GroupCallEnd
<1>4. ASSUME NEW ts \in PrivateSlots, NEW d \in PrivateDsts, NEW c \in Callers,
             PrivateCallStart(s, ts, d, c)
      PROVE  Inv'
  <2>1. Good(PrivateStart(Table, s, ts, d, c, UATimers))
    BY <1>1, PrivateStartGood
  <2>2. Good(Table)'
    BY <1>4, <2>1, BecomesGood DEF PrivateCallStart
  <2>3. [kind |-> "private", dst |-> d, caller |-> c] \in Streams \cup {NoCall}
    BY DEF Streams, StreamKinds
  <2>4. CASE Named(d)
    <3>1. call' \in [Masters -> [Slots -> Streams \cup {NoCall}]]
      BY <1>4, <2>3, <2>4, CallType DEF PrivateCallStart
    <3> QED BY <1>4, <2>2, <3>1 DEF PrivateCallStart
  <2>5. CASE ~Named(d)
    BY <1>4, <2>2, <2>5 DEF PrivateCallStart
  <2> QED BY <2>4, <2>5
<1>5. ASSUME NEW ts \in PrivateSlots, PrivateCallEnd(s, ts)
      PROVE  Inv'
  <2> DEFINE x == call[s][ts]
  <2>1. x.caller \in Callers
    BY <1>5 DEF PrivateCallEnd, NoCall, Streams
  <2> HIDE DEF x
  <2>2. Becomes(ExtendDialTimers(Table, s, ts, x.dst, x.caller, FALSE))
    BY <1>5 DEF PrivateCallEnd, x
  <2>3. Good(ExtendDialTimers(Table, s, ts, x.dst, x.caller, FALSE))
    BY <2>1, ExtendDialTimersGood
  <2>4. call' \in [Masters -> [Slots -> Streams \cup {NoCall}]]
    BY <1>5, CallType DEF PrivateCallEnd
  <2> QED BY <1>5, <2>2, <2>3, <2>4, BecomesGood DEF PrivateCallEnd
<1> QED BY <1>2, <1>3, <1>4, <1>5 DEF Keyup

LEMMA StepInv ==
  ASSUME Inv, [Next]_vars
  PROVE  Inv'
<1> USE TrafficAssumption DEF Inv
<1>1. ASSUME NEW m \in Masters, Boot(m) PROVE Inv'
  BY <1>1, BootTableGood, BecomesGood DEF Boot
<1>2. ASSUME NEW s \in Masters, Keyup(s) PROVE Inv'
  BY <1>2, KeyupInv
<1>3. ASSUME NEW o \in OBPs, NEW g \in ObpTGs, NEW new \in BOOLEAN, ObpPacket(o, g, new)
      PROVE  Inv'
  <2>1. Good(ObpTable(o, g, new))
    BY ObpTableGood
  <2>2. PICK T \in AfterLookup(ObpTable(o, g, new), o, 1, g) : Becomes(T)
    BY <1>3 DEF ObpPacket
  <2>3. Good(Table)'
    BY <2>1, <2>2, AfterLookupGood, BecomesGood
  <2> QED BY <1>3, <2>3 DEF ObpPacket
<1>4. ASSUME NEW s \in Masters, SessionChange(s) PROVE Inv'
  BY <1>4, ClearSessionGood, BecomesGood DEF SessionChange
<1>5. ASSUME NEW s \in Masters, SelfcareDISC(s) PROVE Inv'
  BY <1>5, SelfcareDisconnectGood, BecomesGood DEF SelfcareDISC
<1>6. ASSUME NEW s \in Masters, ResetSlot(s) PROVE Inv'
  BY <1>6, RemoveBridgeSystemGood, BecomesGood DEF ResetSlot
<1>7. ASSUME NEW s \in Masters, NEW o \in OptionSets, Reconfigure(s, o) PROVE Inv'
  <2>1. Good(Applied(Table, s, o))
    BY AppliedGood
  <2>2. Good(Table)'
    BY <1>7, <2>1, BecomesGood DEF Reconfigure
  <2>3. CONFIG' \in [Masters -> Options]
    BY <1>7 DEF Reconfigure
  <2> QED BY <1>7, <2>2, <2>3 DEF Reconfigure
<1>8. CASE RuleTimer
  BY <1>8, RuleTimerLoopGood, BecomesGood DEF RuleTimer
<1>9. CASE StatTrim
  BY <1>9, StatTrimmerGood, BecomesGood DEF StatTrim
<1>10. CASE Tick
  BY <1>10, AgeGood, BecomesGood DEF Tick
<1>11. CASE UNCHANGED vars
  BY <1>11 DEF vars, Good, Table
<1> QED
  BY <1>1, <1>2, <1>3, <1>4, <1>5, <1>6, <1>7, <1>8, <1>9, <1>10, <1>11
  DEF Next, Traffic, Sessions, Reoptions, Housekeeping

LEMMA Invariance == Spec => []Inv
<1>1. Init => Inv
  BY InitInv
<1>2. Inv /\ [Next]_vars => Inv'
  BY StepInv
<1> QED BY <1>1, <1>2, PTL DEF Spec

-----------------------------------------------------------------------------
(* The results.                                                              *)

(* Every variable always has its type.                                       *)
THEOREM TypeCorrect == Spec => []TypeOK
<1>1. Inv => TypeOK
  BY InvMeaning
<1> QED BY <1>1, Invariance, PTL

(* Whatever calls, logins, options and loops interleave, the index holds      *)
(* between two handlers exactly the keys of the bridge table.                *)
THEOREM IndexCorrect == Spec => []IndexConsistent
<1>1. Inv => IndexConsistent
  BY InvMeaning
<1> QED BY <1>1, Invariance, PTL

(* The index finds exactly the bridges that a scan of the table finds.       *)
LEMMA RouteLemma ==
  ASSUME IndexConsistent, NEW s, NEW ts, NEW g
  PROVE  RouteByIndex(Table, s, ts, g) = RouteByScan(BRIDGES, s, ts, g)
<1> DEFINE C == Candidates(Table, s, ts, g)
           K == {l \in BRIDGES : l.bridge \in C}
<1>1. \A l \in BRIDGES : l.sys = s /\ l.ts = ts /\ l.tg = g => l.bridge \in C
  <2> SUFFICES ASSUME NEW l \in BRIDGES, l.sys = s, l.ts = ts, l.tg = g
               PROVE  l.bridge \in C
    OBVIOUS
  <2> DEFINE k == Key(l)
  <2>1. k.bridge = l.bridge /\ k.sys = s /\ k.ts = ts /\ k.tg = g
    BY DEF Key
  <2>2. k \in Table.idx
    BY DEF IndexConsistent, IndexOf, Table
  <2> HIDE DEF k
  <2> QED BY <2>1, <2>2 DEF Candidates
<1>2. Sources(K, s, ts, g) = Sources(BRIDGES, s, ts, g)
  BY <1>1 DEF Sources
<1>3. RouteByIndex(Table, s, ts, g)
        = IF C = {} THEN RouteByScan(BRIDGES, s, ts, g)
          ELSE WithPairs(BRIDGES, Sources(K, s, ts, g), g)
  BY DEF RouteByIndex, Table
<1> QED BY <1>2, <1>3 DEF RouteByScan

(* So routing through the index loses no listener and reaches no other.      *)
THEOREM RoutingCorrect == Spec => []RoutingComplete
<1>1. IndexConsistent => RoutingComplete
  BY RouteLemma DEF RoutingComplete
<1> QED BY <1>1, IndexCorrect, PTL

=============================================================================
