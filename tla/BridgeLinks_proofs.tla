-------------------------- MODULE BridgeLinks_proofs --------------------------
(***************************************************************************)
(* What calls, timers, sessions and options may do to links and static      *)
(* talkgroups: proofs for every set of systems, talkgroups and options.     *)
(*                                                                          *)
(* The invariant of BridgeTable_proofs says nothing of the fields the index  *)
(* does not hold.  Here it is joined by Linked: the legs of a master have    *)
(* the shape the code gives them, a master has one leg on a reflector, LINKER *)
(* goes with the link, and (while reflectors are dialled on slot 2, where     *)
(* their legs are) a master has one link.  Every operator of BridgeOps maps  *)
(* legs one to one without starting a link, takes legs away, or adds legs    *)
(* that are off, save the one that links a reflector.                       *)
(***************************************************************************)
EXTENDS BridgeTable_proofs

(* A user-activated link to a reflector.                                     *)
Link(l) == l.bridge.ref /\ l.type = "ON" /\ l.active

(* STAT legs are those of OpenBridge traffic, and masters have none.          *)
Shaped(l) ==
    /\ l.tg = (IF l.bridge.ref /\ l.sys \in Masters THEN Dial ELSE l.bridge.tg)
    /\ l.type = "STAT" => GenStat /\ ~l.bridge.ref /\ l.bridge.tg \in ObpTGs
    /\ l.sys \in Masters => l.type \in {"ON", "OFF"} /\ (l.bridge.ref => l.ts = 2)

OwnerOK(l) == l.bridge.ref /\ l.type = "ON" /\ l.owner # NoOwner => l.active

Single(L) == \A l, m \in L : l.bridge.ref /\ Key(l) = Key(m) => l = m

OneLink(L) ==
    \A l, m \in L : l.sys \in Masters /\ l.sys = m.sys /\ Link(l) /\ Link(m)
                    => l.bridge = m.bridge

Linked(L) ==
    /\ L \in SUBSET Legs
    /\ \A l \in L : Shaped(l) /\ OwnerOK(l)
    /\ Single(L)
    /\ PrivateSlots \subseteq {2} => OneLink(L)

(* Where a master has a static talkgroup.                                    *)
Spot(l) == [bridge |-> l.bridge, sys |-> l.sys, ts |-> l.ts]

StaticSpots(L) == {Spot(l) : l \in {l \in L : l.type = "OFF" /\ ~l.bridge.ref}}

Follows(L, M) == Linked(M) /\ StaticSpots(L) \subseteq StaticSpots(M)

(* What most of the code does to a leg: its place and type stay, LINKER goes  *)
(* with the link, and no link is started.                                    *)
Calm(l, m) ==
    /\ SameKey(l, m) /\ m.type = l.type
    /\ OwnerOK(l) => OwnerOK(m)
    /\ Link(m) => Link(l)

(* What most of the code adds.                                               *)
Fresh(a) == a \in Legs /\ Shaped(a) /\ a.owner = NoOwner /\ ~Link(a)

-----------------------------------------------------------------------------
(* Sets of legs.                                                             *)

LEMMA KeyFields ==
  ASSUME NEW l, NEW m, Key(l) = Key(m)
  PROVE  l.bridge = m.bridge /\ l.sys = m.sys /\ l.ts = m.ts /\ l.tg = m.tg
  BY DEF Key

LEMMA SpotFields ==
  ASSUME NEW l, NEW m
  PROVE  Spot(l) = Spot(m) <=> l.bridge = m.bridge /\ l.sys = m.sys /\ l.ts = m.ts
  BY DEF Spot

LEMMA CalmRefl == ASSUME NEW l \in Legs PROVE Calm(l, l)
  BY DEF Calm, SameKey

LEMMA CalmTrans ==
  ASSUME NEW l, NEW m, NEW n, Calm(l, m), Calm(m, n)
  PROVE  Calm(l, n)
  BY DEF Calm, SameKey

LEMMA CalmSpot ==
  ASSUME NEW l, NEW m, Calm(l, m)
  PROVE  Spot(m) = Spot(l)
  BY KeyFields, SpotFields DEF Calm, SameKey

LEMMA CalmShape ==
  ASSUME NEW l, NEW m, Calm(l, m), Shaped(l)
  PROVE  Shaped(m)
  BY KeyFields DEF Calm, SameKey, Shaped

(* Legs mapped one to one.                                                   *)
LEMMA FollowsMap ==
  ASSUME NEW L, Linked(L), NEW F \in [L -> Legs], \A l \in L : Calm(l, F[l])
  PROVE  Follows(L, {F[l] : l \in L})
<1> DEFINE M == {F[l] : l \in L}
<1>1. M \in SUBSET Legs
  BY DEF Calm, SameKey
<1>2. \A m \in M : Shaped(m) /\ OwnerOK(m)
  BY CalmShape DEF Linked, Calm
<1>3. Single(M)
  <2> SUFFICES ASSUME NEW l \in L, NEW m \in L, F[l].bridge.ref, Key(F[l]) = Key(F[m])
               PROVE  F[l] = F[m]
    BY DEF Single
  <2>1. Key(l) = Key(m)
    BY DEF Calm, SameKey
  <2>2. l.bridge.ref
    BY KeyFields DEF Calm, SameKey
  <2> QED BY <2>1, <2>2 DEF Linked, Single
<1>4. OneLink(L) => OneLink(M)
  <2> SUFFICES ASSUME OneLink(L), NEW l \in L, NEW m \in L, F[l].sys \in Masters,
                      F[l].sys = F[m].sys, Link(F[l]), Link(F[m])
               PROVE  F[l].bridge = F[m].bridge
    BY DEF OneLink
  <2>1. /\ l.sys = F[l].sys /\ l.bridge = F[l].bridge
        /\ m.sys = F[m].sys /\ m.bridge = F[m].bridge
    BY KeyFields DEF Calm, SameKey
  <2>2. Link(l) /\ Link(m)
    BY DEF Calm
  <2> QED BY <2>1, <2>2 DEF OneLink
<1>5. StaticSpots(L) \subseteq StaticSpots(M)
  <2> SUFFICES ASSUME NEW l \in L, l.type = "OFF", ~l.bridge.ref
               PROVE  Spot(l) \in StaticSpots(M)
    BY DEF StaticSpots
  <2>1. F[l] \in M /\ F[l].type = "OFF" /\ F[l].bridge = l.bridge /\ Spot(F[l]) = Spot(l)
    BY CalmSpot, KeyFields DEF Calm, SameKey
  <2> QED BY <2>1 DEF StaticSpots
<1> QED BY <1>1, <1>2, <1>3, <1>4, <1>5 DEF Follows, Linked

(* Legs taken away.                                                          *)
LEMMA LinkedSubset ==
  ASSUME NEW L, Linked(L), NEW K \in SUBSET L
  PROVE  Linked(K)
  BY DEF Linked, Single, OneLink

(* Legs added.                                                               *)
LEMMA FollowsAdd ==
  ASSUME NEW L, Linked(L), NEW A, \A a \in A : Fresh(a), Single(A),
         \A a \in A, l \in L : a.bridge.ref => Key(l) # Key(a)
  PROVE  Follows(L, L \cup A)
<1>1. L \cup A \in SUBSET Legs /\ \A l \in L \cup A : Shaped(l) /\ OwnerOK(l)
  BY DEF Linked, Fresh, OwnerOK
<1>2. Single(L \cup A)
  <2> SUFFICES ASSUME NEW l \in L \cup A, NEW m \in L \cup A, l.bridge.ref, Key(l) = Key(m)
               PROVE  l = m
    BY DEF Single
  <2>1. m.bridge.ref
    BY KeyFields
  <2> QED BY <2>1 DEF Linked, Single
<1>3. OneLink(L) => OneLink(L \cup A)
  BY DEF OneLink, Fresh
<1>4. StaticSpots(L) \subseteq StaticSpots(L \cup A)
  BY DEF StaticSpots
<1> QED BY <1>1, <1>2, <1>3, <1>4 DEF Follows, Linked

LEMMA FollowsRefl == ASSUME NEW L, Linked(L) PROVE Follows(L, L)
  BY DEF Follows

LEMMA FollowsTrans ==
  ASSUME NEW L, NEW M, NEW N, Follows(L, M), Follows(M, N)
  PROVE  Follows(L, N)
  BY DEF Follows

LEMMA LegsAfter ==
  ASSUME NEW T \in Tables, NEW M \in SUBSET Legs, NEW b, NEW B
  PROVE  /\ WithLegs(T, M).legs = M
         /\ IdxAdd(WithLegs(T, M), b).legs = M
         /\ IdxReplace(WithLegs(T, M), b).legs = M
         /\ IdxRemove(WithLegs(T, M), B).legs = M
         /\ Rebuild(WithLegs(T, M)).legs = M
         /\ Refreshed(T, M).legs = M
  BY DEF Tables, WithLegs, IdxAdd, IdxReplace, IdxRemove, Rebuild, Refreshed

-----------------------------------------------------------------------------
(* What the code does to one leg.                                            *)

LEMMA DroppedCalm == ASSUME NEW l \in Legs PROVE Calm(l, Dropped(l)) /\ ~Dropped(l).active
<1>1. Dropped(l) = [l EXCEPT !.active = FALSE, !.timer = 0, !.owner = NoOwner]
  BY DEF Dropped
<1>2. /\ Dropped(l).type = l.type /\ Dropped(l).owner = NoOwner /\ ~Dropped(l).active
  BY <1>1 DEF Legs
<1> QED BY <1>2, DroppedLeg DEF Calm, OwnerOK, Link

(* LINKER survives only where it is not that of a user-activated link.       *)
LEMMA SwitchedOffCalm ==
  ASSUME NEW l \in Legs, l.bridge.ref => l.type # "ON"
  PROVE  Calm(l, SwitchedOff(l))
<1>1. SwitchedOff(l) = [l EXCEPT !.active = FALSE, !.timer = 0]
  BY DEF SwitchedOff
<1>2. SwitchedOff(l).type = l.type /\ ~SwitchedOff(l).active
  BY <1>1 DEF Legs
<1>3. SwitchedOff(l).bridge = l.bridge
  BY SwitchedOffLeg, KeyFields DEF SameKey
<1> QED BY <1>2, <1>3, SwitchedOffLeg DEF Calm, OwnerOK, Link

LEMMA RuleLegCalm == ASSUME NEW l \in Legs PROVE Calm(l, RuleLeg(l))
  BY RuleLegLeg DEF Calm, OwnerOK, Link, RuleLeg, Legs

LEMMA AgedCalm == ASSUME NEW l \in Legs PROVE Calm(l, Aged(l))
  BY AgedLeg DEF Calm, OwnerOK, Link, Aged, Legs

LEMMA TimerCalm ==
  ASSUME NEW l \in Legs, NEW t \in Int
  PROVE  Calm(l, [l EXCEPT !.timer = t])
  BY TimerLeg DEF Calm, OwnerOK, Link, Legs

LEMMA RestartedCalm ==
  ASSUME NEW l \in Legs, NEW g, NEW slot, NEW c
  PROVE  Calm(l, Restarted(l, g, slot, c)) /\ Restarted(l, g, slot, c).active = l.active
  BY RestartedLeg DEF Calm, OwnerOK, Link, Restarted, Legs

LEMMA WokenCalm ==
  ASSUME NEW l \in Legs, NEW t \in Int, ~l.bridge.ref
  PROVE  Calm(l, [l EXCEPT !.active = TRUE, !.timer = t])
  BY WokenLeg DEF Calm, OwnerOK, Link, Legs

LEMMA ClaimedCalm ==
  ASSUME NEW l \in Legs, NEW c \in Callers, l.active
  PROVE  Calm(l, Claimed(l, c))
  BY ClaimedLeg DEF Calm, OwnerOK, Link, Claimed, Legs

LEMMA SwitchedAwayCalm ==
  ASSUME NEW l \in Legs
  PROVE  Calm(l, SwitchedAway(l)) /\ ~SwitchedAway(l).active
<1>1. /\ SwitchedAway(l).type = l.type /\ SwitchedAway(l).bridge = l.bridge
      /\ ~SwitchedAway(l).active
      /\ l.active /\ l.bridge.ref => SwitchedAway(l).owner = NoOwner
      /\ ~l.active => SwitchedAway(l).owner = l.owner
  BY DEF SwitchedAway, Legs
<1> QED BY <1>1, SwitchedAwayLeg DEF Calm, OwnerOK, Link

LEMMA SwitchedOnKind ==
  ASSUME NEW l \in Legs
  PROVE  SwitchedOn(l).type = l.type /\ SwitchedOn(l).active
  BY DEF SwitchedOn, Legs

(* A group call wakes or switches legs of talkgroups, and of reflectors none. *)
LEMMA GroupLegCalm ==
  ASSUME NEW l \in Legs, NEW s, NEW slot, NEW g, NEW c
  PROVE  Calm(l, GroupLeg(l, s, slot, g, c))
<1> DEFINE B == Restarted(l, g, slot, c)
           Called == ~l.bridge.ref /\ g = l.tg /\ slot = l.ts
           A == CASE Called /\ ~B.active -> SwitchedOn(B)
                  [] Called /\ B.active /\ B.type = "ON" -> [B EXCEPT !.timer = B.timeout]
                  [] OTHER -> B
<1>1. Calm(l, B)
  BY RestartedCalm
<1> HIDE DEF B
<1>2. B \in Legs /\ B.bridge = l.bridge
  BY <1>1, KeyFields DEF Calm, SameKey
<1>3. ASSUME ~l.bridge.ref PROVE Calm(l, SwitchedOn(B))
  <2>1. SameKey(B, SwitchedOn(B)) /\ SwitchedOn(B).type = B.type
    BY <1>2, SwitchedOnLeg, SwitchedOnKind
  <2>2. SwitchedOn(B).bridge = B.bridge
    BY <2>1, KeyFields DEF SameKey
  <2>3. Calm(B, SwitchedOn(B))
    BY <1>2, <1>3, <2>1, <2>2 DEF Calm, OwnerOK, Link
  <2> QED BY <1>1, <2>3, CalmTrans
<1>4. Calm(l, [B EXCEPT !.timer = B.timeout])
  <2> DEFINE t == B.timeout
  <2>1. t \in Int
    BY <1>2, LegTypes
  <2> HIDE DEF t
  <2>2. Calm(B, [B EXCEPT !.timer = t])
    BY <1>2, <2>1, TimerCalm
  <2>3. Calm(l, [B EXCEPT !.timer = t])
    BY <1>1, <2>2, CalmTrans
  <2> QED BY <2>3 DEF t
<1>5. Calm(l, A)
  BY <1>1, <1>3, <1>4
<1> HIDE DEF A
<1>6. Calm(l, SwitchedAway(A))
  BY <1>5, SwitchedAwayCalm, CalmTrans DEF Calm, SameKey
<1>7. GroupLeg(l, s, slot, g, c) =
        IF s \in SingleMode /\ l.type # "NONE" /\ slot = l.ts /\ WrongTG(l, g)
        THEN SwitchedAway(A) ELSE A
  BY DEF GroupLeg, A, B
<1> QED BY <1>5, <1>6, <1>7

-----------------------------------------------------------------------------
(* Functions that switch legs off or change them in place.                   *)

LEMMA FollowsInPlace ==
  ASSUME NEW T \in Tables, Linked(T.legs), NEW F \in [T.legs -> Legs],
         \A l \in T.legs : Calm(l, F[l]),
         NEW M, M = {F[l] : l \in T.legs}
  PROVE  /\ Follows(T.legs, WithLegs(T, M).legs)
         /\ Follows(T.legs, Refreshed(T, M).legs)
         /\ Follows(T.legs, Rebuild(WithLegs(T, M)).legs)
         /\ WithLegs(T, M) \in Tables
<1>1. Follows(T.legs, M)
  BY FollowsMap
<1>2. M \in SUBSET Legs
  BY <1>1 DEF Follows, Linked
<1>3. WithLegs(T, M).legs = M /\ Refreshed(T, M).legs = M /\ Rebuild(WithLegs(T, M)).legs = M
  BY <1>2, LegsAfter
<1> QED BY <1>1, <1>2, <1>3, TablesWithLegs

LEMMA ClearDefaultReflectorsFollows ==
  ASSUME NEW T, Good(T), Linked(T.legs), NEW s
  PROVE  Follows(T.legs, ClearDefaultReflectors(T, s).legs)
<1> DEFINE F == [l \in T.legs |-> IF l.bridge.ref /\ l.sys = s /\ l.type = "OFF" /\ l.active
                                  THEN SwitchedOff(l) ELSE l]
<1>1. \A l \in T.legs : Calm(l, F[l])
  BY GoodLegs, SwitchedOffCalm, CalmRefl
<1>2. ClearDefaultReflectors(T, s) = Refreshed(T, {F[l] : l \in T.legs})
  BY DEF ClearDefaultReflectors
<1>3. F \in [T.legs -> Legs]
  BY <1>1 DEF Calm, SameKey
<1> HIDE DEF F
<1> QED BY <1>1, <1>2, <1>3, GoodLegs, FollowsInPlace

LEMMA ResetDynamicReflectorsFollows ==
  ASSUME NEW T, Good(T), Linked(T.legs), NEW s
  PROVE  Follows(T.legs, ResetDynamicReflectors(T, s).legs)
<1> DEFINE F == [l \in T.legs |-> IF l.bridge.ref /\ l.sys = s /\ l.type = "ON" /\ l.active
                                  THEN Dropped(l) ELSE l]
<1>1. \A l \in T.legs : Calm(l, F[l])
  BY GoodLegs, DroppedCalm, CalmRefl
<1>2. ResetDynamicReflectors(T, s) = Refreshed(T, {F[l] : l \in T.legs})
  BY DEF ResetDynamicReflectors
<1>3. F \in [T.legs -> Legs]
  BY <1>1 DEF Calm, SameKey
<1> HIDE DEF F
<1> QED BY <1>1, <1>2, <1>3, GoodLegs, FollowsInPlace

LEMMA ClearSessionFollows ==
  ASSUME NEW T, Good(T), Linked(T.legs), NEW s
  PROVE  Follows(T.legs, ClearSession(T, s).legs)
<1> DEFINE C == ClearDefaultReflectors(T, s)
<1>1. Good(C)
  BY GoodLegs, GoodRefreshed, SwitchedOffLeg DEF ClearDefaultReflectors, SameKey
<1>2. Follows(T.legs, C.legs)
  BY ClearDefaultReflectorsFollows
<1> HIDE DEF C
<1>3. Follows(C.legs, ResetDynamicReflectors(C, s).legs)
  BY <1>1, <1>2, ResetDynamicReflectorsFollows DEF Follows
<1> QED BY <1>2, <1>3, FollowsTrans DEF ClearSession, C

LEMMA DisconnectDialReflectorsFollows ==
  ASSUME NEW T, Good(T), Linked(T.legs), NEW s
  PROVE  Follows(T.legs, DisconnectDialReflectors(T, s).legs)
<1> DEFINE F == [l \in T.legs |-> IF l.bridge.ref /\ l.sys = s /\ l.active
                                  THEN Dropped(l) ELSE l]
<1>1. \A l \in T.legs : Calm(l, F[l])
  BY GoodLegs, DroppedCalm, CalmRefl
<1>2. DisconnectDialReflectors(T, s) = Refreshed(T, {F[l] : l \in T.legs})
  BY DEF DisconnectDialReflectors
<1>3. F \in [T.legs -> Legs]
  BY <1>1 DEF Calm, SameKey
<1> HIDE DEF F
<1> QED BY <1>1, <1>2, <1>3, GoodLegs, FollowsInPlace

LEMMA DeactivateUserActivatedFollows ==
  ASSUME NEW T, Good(T), Linked(T.legs), NEW s
  PROVE  /\ Good(DeactivateUserActivated(T, s))
         /\ Follows(T.legs, DeactivateUserActivated(T, s).legs)
<1> DEFINE F == [l \in T.legs |-> IF ~l.bridge.ref /\ l.sys = s /\ l.type = "ON" /\ l.active
                                  THEN SwitchedOff(l) ELSE l]
<1>1. \A l \in T.legs : Calm(l, F[l])
  BY GoodLegs, SwitchedOffCalm, CalmRefl
<1>2. DeactivateUserActivated(T, s) = Refreshed(T, {F[l] : l \in T.legs})
  BY DEF DeactivateUserActivated
<1>3. F \in [T.legs -> Legs]
  BY <1>1 DEF Calm, SameKey
<1> HIDE DEF F
<1>4. {F[l] : l \in T.legs} \in SUBSET Legs
  BY <1>3
<1> QED BY <1>1, <1>2, <1>3, <1>4, GoodLegs, FollowsInPlace, GoodRefreshed

LEMMA DeactivateLinkedFollows ==
  ASSUME NEW T, Good(T), Linked(T.legs), NEW s
  PROVE  Follows(T.legs, DeactivateLinked(T, s).legs)
<1> DEFINE Drives(b) == \E l \in LegsOf(T.legs, b) :
                          l.sys = s /\ l.active /\ (l.type = "ON" \/ b.ref)
           Off(l) == [l EXCEPT !.active = FALSE, !.timer = 0,
                               !.owner = IF l.bridge.ref THEN NoOwner ELSE @]
           F == [l \in T.legs |-> IF Drives(l.bridge) /\ l.sys \in LinkedTo(s) /\ l.active
                                  THEN Off(l) ELSE l]
<1>1. ASSUME NEW l \in Legs PROVE Calm(l, Off(l))
  <2>1. Off(l) = IF l.bridge.ref THEN Dropped(l) ELSE SwitchedOff(l)
    BY DEF Dropped, SwitchedOff, Legs
  <2> HIDE DEF Off
  <2> QED BY <2>1, DroppedCalm, SwitchedOffCalm
<1>2. DeactivateLinked(T, s) = Refreshed(T, {F[l] : l \in T.legs})
  BY DEF DeactivateLinked
<1> HIDE DEF Drives, Off
<1>3. \A l \in T.legs : Calm(l, F[l])
  BY <1>1, GoodLegs, CalmRefl
<1>4. F \in [T.legs -> Legs]
  BY <1>3 DEF Calm, SameKey
<1> HIDE DEF F
<1> QED BY <1>2, <1>3, <1>4, GoodLegs, FollowsInPlace

LEMMA SelfcareDisconnectFollows ==
  ASSUME NEW T, Good(T), Linked(T.legs), NEW s
  PROVE  Follows(T.legs, SelfcareDisconnect(T, s).legs)
<1> DEFINE D == DisconnectDialReflectors(T, s)
           U == DeactivateUserActivated(D, s)
<1>1. Good(D) /\ Follows(T.legs, D.legs)
  BY DisconnectDialReflectorsGood, DisconnectDialReflectorsFollows
<1> HIDE DEF D
<1>2. Good(U) /\ Follows(D.legs, U.legs)
  BY <1>1, DeactivateUserActivatedFollows DEF Follows
<1> HIDE DEF U
<1>3. Follows(U.legs, DeactivateLinked(U, s).legs)
  BY <1>2, DeactivateLinkedFollows DEF Follows
<1>4. SelfcareDisconnect(T, s) = DeactivateLinked(U, s)
  BY DEF SelfcareDisconnect, U, D
<1> QED BY <1>1, <1>2, <1>3, <1>4, FollowsTrans

LEMMA ActivateLinkedFollows ==
  ASSUME NEW T \in Tables, Linked(T.legs), NEW b, ~b.ref, NEW s, NEW slot, NEW t \in Int
  PROVE  /\ Follows(T.legs, ActivateLinked(T, b, s, slot, t).legs)
         /\ ActivateLinked(T, b, s, slot, t) \in Tables
<1> DEFINE F == [l \in T.legs |->
                   IF l.bridge = b /\ l.sys \in LinkedTo(s) /\ l.ts = slot /\ l.type # "NONE"
                   THEN [l EXCEPT !.active = TRUE, !.timer = t] ELSE l]
<1>1. \A l \in T.legs : Calm(l, F[l])
  <2> SUFFICES ASSUME NEW l \in T.legs PROVE Calm(l, F[l])
    OBVIOUS
  <2>1. l \in Legs
    BY DEF Tables
  <2>2. l.bridge = b => Calm(l, [l EXCEPT !.active = TRUE, !.timer = t])
    BY <2>1, WokenCalm
  <2> QED BY <2>1, <2>2, CalmRefl
<1>2. ActivateLinked(T, b, s, slot, t) = WithLegs(T, {F[l] : l \in T.legs})
  BY DEF ActivateLinked
<1>3. F \in [T.legs -> Legs]
  BY <1>1 DEF Calm, SameKey
<1> HIDE DEF F
<1> QED BY <1>1, <1>2, <1>3, FollowsInPlace

LEMMA TouchStatFollows ==
  ASSUME NEW T, Good(T), Linked(T.legs), NEW n
  PROVE  Follows(T.legs, TouchStat(T, n).legs)
<1> DEFINE t == 0
           Touched(l) == IF l.bridge = Conf(n) /\ l.type = "STAT"
                         THEN [l EXCEPT !.timer = t] ELSE l
           F == [l \in T.legs |-> Touched(l)]
<1>1. TouchStat(T, n) = WithLegs(T, {F[l] : l \in T.legs})
  <2>1. TouchStat(T, n) = WithLegs(T, {Touched(l) : l \in T.legs})
    BY DEF TouchStat
  <2> HIDE DEF Touched
  <2>2. {Touched(l) : l \in T.legs} = {F[l] : l \in T.legs}
    OBVIOUS
  <2> QED BY <2>1, <2>2
<1>2. \A l \in T.legs : Calm(l, F[l])
  <2> SUFFICES ASSUME NEW l \in T.legs PROVE Calm(l, Touched(l))
    BY DEF F
  <2>1. t \in Int /\ l \in Legs
    BY GoodLegs
  <2> HIDE DEF t
  <2>2. Calm(l, [l EXCEPT !.timer = t]) /\ Calm(l, l)
    BY <2>1, TimerCalm, CalmRefl
  <2> QED BY <2>2
<1>3. F \in [T.legs -> Legs]
  BY <1>2 DEF Calm, SameKey
<1> HIDE DEF F
<1> QED BY <1>1, <1>2, <1>3, GoodLegs, FollowsInPlace

LEMMA AgeFollows ==
  ASSUME NEW T, Good(T), Linked(T.legs)
  PROVE  Follows(T.legs, Age(T).legs)
<1> DEFINE F == [l \in T.legs |-> Aged(l)]
<1>1. \A l \in T.legs : Calm(l, F[l])
  BY GoodLegs, AgedCalm
<1>2. Age(T) = WithLegs(T, {F[l] : l \in T.legs})
  BY DEF Age
<1>3. F \in [T.legs -> Legs]
  BY <1>1 DEF Calm, SameKey
<1> HIDE DEF F
<1> QED BY <1>1, <1>2, <1>3, GoodLegs, FollowsInPlace

LEMMA ExtendDialTimersFollows ==
  ASSUME NEW T, Good(T), Linked(T.legs), NEW s, NEW slot, NEW g, NEW c \in Callers, NEW group
  PROVE  Follows(T.legs, ExtendDialTimers(T, s, slot, g, c, group).legs)
<1> DEFINE Counts(b) == b.ref /\ g # Unlink
                        /\ (g = b.tg \/ (group /\ g = Dial) \/ (~group /\ g = Status))
           Mine(l)   == Counts(l.bridge) /\ l.sys = s /\ l.ts = slot /\ l.active
                        /\ l.type = "ON" /\ l.timeout # 0
           Extended(l) == LET o == Claimed(l, c)
                          IN  IF MayExtend(o, c) THEN [o EXCEPT !.timer = l.timeout] ELSE o
           F == [l \in T.legs |-> IF Mine(l) THEN Extended(l) ELSE l]
<1>1. ASSUME NEW l \in Legs, l.active PROVE Calm(l, Extended(l))
  <2> DEFINE o == Claimed(l, c)
             u == l.timeout
  <2>1. u \in Int /\ Calm(l, o)
    BY <1>1, LegTypes, ClaimedCalm
  <2>2. Extended(l) = IF MayExtend(o, c) THEN [o EXCEPT !.timer = u] ELSE o
    OBVIOUS
  <2> HIDE DEF o, u
  <2>3. Calm(o, [o EXCEPT !.timer = u])
    BY <2>1, TimerCalm DEF Calm, SameKey
  <2> QED BY <2>1, <2>2, <2>3, CalmTrans
<1>2. ExtendDialTimers(T, s, slot, g, c, group) = WithLegs(T, {F[l] : l \in T.legs})
  BY DEF ExtendDialTimers
<1>3. \A l \in T.legs : Mine(l) => l.active
  OBVIOUS
<1> HIDE DEF Extended, Mine
<1>4. \A l \in T.legs : Calm(l, F[l])
  BY <1>1, <1>3, GoodLegs, CalmRefl
<1>5. F \in [T.legs -> Legs]
  BY <1>4 DEF Calm, SameKey
<1> HIDE DEF F
<1> QED BY <1>2, <1>4, <1>5, GoodLegs, FollowsInPlace

LEMMA GroupEndFollows ==
  ASSUME NEW T, Good(T), Linked(T.legs), NEW s, NEW slot, NEW g, NEW c \in Callers
  PROVE  Follows(T.legs, GroupEnd(T, s, slot, g, c).legs)
<1> DEFINE X == ExtendDialTimers(T, s, slot, g, c, TRUE)
<1>1. Good(X) /\ Follows(T.legs, X.legs)
  BY ExtendDialTimersGood, ExtendDialTimersFollows
<1> HIDE DEF X
<1> DEFINE F == [l \in X.legs |-> IF l.sys = s /\ (l.bridge.ref => g \in {Dial, l.bridge.tg})
                                  THEN GroupLeg(l, s, slot, g, c) ELSE l]
<1>2. \A l \in X.legs : Calm(l, F[l])
  BY <1>1, GoodLegs, GroupLegCalm, CalmRefl
<1>3. GroupEnd(T, s, slot, g, c) = WithLegs(X, {F[l] : l \in X.legs})
  BY DEF GroupEnd, X
<1>4. F \in [X.legs -> Legs]
  BY <1>2 DEF Calm, SameKey
<1> HIDE DEF F
<1>5. Follows(X.legs, GroupEnd(T, s, slot, g, c).legs)
  <2>1. X \in Tables /\ Linked(X.legs)
    BY <1>1, GoodLegs DEF Follows
  <2> QED BY <1>2, <1>3, <1>4, <2>1, FollowsInPlace
<1> QED BY <1>1, <1>5, FollowsTrans

-----------------------------------------------------------------------------
(* A call is the business of one master.                                     *)

(* What keying up on s may do to the legs of the other masters.              *)
Local(s, L, M) ==
    \A l \in L :
       l.sys # s => \/ l \in M
                    \/ /\ l.sys \in LinkedTo(s) /\ ~l.bridge.ref
                       /\ \E m \in M : Key(m) = Key(l) /\ m.active

LEMMA LocalTrans ==
  ASSUME NEW s, NEW L, NEW M, NEW N, Local(s, L, M), Local(s, M, N)
  PROVE  Local(s, L, N)
<1> SUFFICES ASSUME NEW l \in L, l.sys # s, l \notin N
             PROVE  /\ l.sys \in LinkedTo(s) /\ ~l.bridge.ref
                    /\ \E n \in N : Key(n) = Key(l) /\ n.active
  BY DEF Local
<1>1. CASE l \in M
  BY <1>1 DEF Local
<1>2. CASE l \notin M
  <2>1. /\ l.sys \in LinkedTo(s) /\ ~l.bridge.ref
        /\ \E m \in M : Key(m) = Key(l) /\ m.active
    BY <1>2 DEF Local
  <2>2. PICK m \in M : Key(m) = Key(l) /\ m.active
    BY <2>1
  <2>3. m.sys # s
    BY <2>2, KeyFields
  <2> QED BY <2>1, <2>2, <2>3 DEF Local
<1> QED BY <1>1, <1>2

LEMMA LocalSubset ==
  ASSUME NEW s, NEW L, NEW M, \A l \in L : l.sys # s => l \in M
  PROVE  Local(s, L, M)
  BY DEF Local

LEMMA ActivateLinkedLocal ==
  ASSUME NEW T \in Tables, NEW b, ~b.ref, NEW s, NEW slot, NEW t \in Int
  PROVE  Local(s, T.legs, ActivateLinked(T, b, s, slot, t).legs)
<1> DEFINE F(l) == IF l.bridge = b /\ l.sys \in LinkedTo(s) /\ l.ts = slot /\ l.type # "NONE"
                   THEN [l EXCEPT !.active = TRUE, !.timer = t] ELSE l
           N == {F(l) : l \in T.legs}
<1>1. ActivateLinked(T, b, s, slot, t) = WithLegs(T, N)
  BY DEF ActivateLinked
<1>2. \A l \in T.legs : /\ SameKey(l, F(l))
                        /\ F(l) = l \/ (l.bridge = b /\ l.sys \in LinkedTo(s) /\ F(l).active)
  <2> SUFFICES ASSUME NEW l \in T.legs
               PROVE  /\ SameKey(l, F(l))
                      /\ F(l) = l \/ (l.bridge = b /\ l.sys \in LinkedTo(s) /\ F(l).active)
    OBVIOUS
  <2>1. l \in Legs
    BY DEF Tables
  <2>2. SameKey(l, [l EXCEPT !.active = TRUE, !.timer = t]) /\ SameKey(l, l)
    BY <2>1, WokenLeg, SameRefl
  <2>3. [l EXCEPT !.active = TRUE, !.timer = t].active
    BY <2>1 DEF Legs
  <2> QED BY <2>2, <2>3
<1> HIDE DEF F
<1>3. Local(s, T.legs, N)
  BY <1>2 DEF Local, SameKey
<1>4. N \in SUBSET Legs
  BY <1>2 DEF SameKey
<1> HIDE DEF N
<1>5. WithLegs(T, N).legs = N
  BY <1>4, TablesWithLegs
<1> QED BY <1>1, <1>3, <1>5

LEMMA DisconnectDialReflectorsLocal ==
  ASSUME NEW T, Good(T), NEW s
  PROVE  Local(s, T.legs, DisconnectDialReflectors(T, s).legs)
<1> DEFINE F(l) == IF l.bridge.ref /\ l.sys = s /\ l.active THEN Dropped(l) ELSE l
           N == {F(l) : l \in T.legs}
<1>1. DisconnectDialReflectors(T, s) = Refreshed(T, N)
  BY DEF DisconnectDialReflectors
<1>2. \A l \in T.legs : F(l) \in Legs /\ (l.sys # s => F(l) = l)
  BY GoodLegs, DroppedLeg DEF SameKey
<1> HIDE DEF F
<1>3. N \in SUBSET Legs /\ \A l \in T.legs : l.sys # s => l \in N
  BY <1>2
<1> HIDE DEF N
<1> QED BY <1>1, <1>3, GoodLegs, LegsAfter, LocalSubset

-----------------------------------------------------------------------------
(* Functions that create bridges and legs.                                   *)

LEMMA MasterLegShape ==
  ASSUME NEW b \in BridgeNames, NEW s \in Masters, NEW ts \in Slots, NEW type \in {"ON", "OFF"},
         NEW active \in BOOLEAN, NEW timeout \in Nat, NEW timer \in Int, b.ref => ts = 2
  PROVE  LET l == MasterLeg(b, s, ts, type, active, timeout, timer)
         IN  /\ l \in Legs /\ Shaped(l) /\ l.owner = NoOwner
             /\ l.bridge = b /\ l.sys = s /\ l.ts = ts /\ l.type = type /\ l.active = active
<1>1. type \in ToTypes
  BY DEF ToTypes
<1> QED BY <1>1, MasterLegType DEF MasterLeg, Shaped

(* Such a leg is no link if it is off, or static.                            *)
LEMMA MasterLegFresh ==
  ASSUME NEW b \in BridgeNames, NEW s \in Masters, NEW ts \in Slots, NEW type \in {"ON", "OFF"},
         NEW active \in BOOLEAN, NEW timeout \in Nat, NEW timer \in Int, b.ref => ts = 2,
         b.ref => type = "OFF" \/ ~active
  PROVE  Fresh(MasterLeg(b, s, ts, type, active, timeout, timer))
  BY MasterLegShape DEF Fresh, Link

LEMMA ObpLegFresh ==
  ASSUME NEW b \in BridgeNames, NEW o \in OBPs, NEW type \in {"NONE", "STAT"},
         type = "STAT" => GenStat /\ ~b.ref /\ b.tg \in ObpTGs
  PROVE  Fresh(ObpLeg(b, o, type)) /\ ObpLeg(b, o, type).bridge = b
                                   /\ ObpLeg(b, o, type).sys = o
<1>1. type \in ToTypes
  BY DEF ToTypes
<1>2. o \notin Masters
  BY SystemsAssumption
<1>3. ObpLeg(b, o, type) \in Legs
  BY <1>1, ObpLegType
<1> QED BY <1>2, <1>3 DEF ObpLeg, Fresh, Shaped, Link

LEMMA IdxLegs ==
  ASSUME NEW T \in Tables, NEW b
  PROVE  IdxAdd(T, b).legs = T.legs /\ IdxReplace(T, b).legs = T.legs
  BY DEF Tables, IdxAdd, IdxReplace, IdxRemove

(* New legs of a talkgroup's bridge.                                         *)
LEMMA FollowsConf ==
  ASSUME NEW L, Linked(L), NEW b, ~b.ref, NEW A, \A a \in A : Fresh(a) /\ a.bridge = b
  PROVE  Follows(L, L \cup A)
<1>1. Single(A) /\ \A a \in A, l \in L : a.bridge.ref => Key(l) # Key(a)
  BY DEF Single
<1> QED BY <1>1, FollowsAdd

LEMMA ConfIsNoRef == ASSUME NEW n PROVE ~Conf(n).ref /\ Conf(n).tg = n
  BY DEF Conf

LEMMA RefIsRef == ASSUME NEW n PROVE Ref(n).ref /\ Ref(n).tg = n
  BY DEF Ref

LEMMA MakeSingleBridgeFollows ==
  ASSUME NEW T, Good(T), Linked(T.legs), NEW n \in TGs, NEW s, NEW slot, NEW tmout \in Nat
  PROVE  /\ Follows(T.legs, MakeSingleBridge(T, n, s, slot, tmout).legs)
         /\ Local(s, T.legs, MakeSingleBridge(T, n, s, slot, tmout).legs)
<1> DEFINE b == Conf(n)
           Caller(m, ts) == m = s /\ ts = slot
           Leg(m, ts) == MasterLeg(b, m, ts, "ON", Caller(m, ts), tmout,
                                   IF Caller(m, ts) THEN tmout ELSE 0)
           masters == {Leg(m, ts) : m \in Masters, ts \in Slots}
           obps == IF NetTG(n) THEN {ObpLeg(b, o, "NONE") : o \in OBPs} ELSE {}
           L == T.legs \cup masters \cup obps
           U == WithLegs(T, L)
<1>1. MakeSingleBridge(T, n, s, slot, tmout) = IdxAdd(ActivateLinked(U, b, s, slot, tmout), b)
  BY DEF MakeSingleBridge
<1>2. b \in BridgeNames /\ ~b.ref
  BY Bridges, ConfIsNoRef
<1> HIDE DEF b
<1>3. ASSUME NEW m \in Masters, NEW ts \in Slots
      PROVE  Fresh(Leg(m, ts)) /\ Leg(m, ts).bridge = b
  <2> DEFINE a == Caller(m, ts)
             t == IF Caller(m, ts) THEN tmout ELSE 0
             type == "ON"
  <2>1. Leg(m, ts) = MasterLeg(b, m, ts, type, a, tmout, t)
    OBVIOUS
  <2>2. a \in BOOLEAN /\ t \in Int /\ type \in {"ON", "OFF"}
    OBVIOUS
  <2> HIDE DEF Leg, a, t, type
  <2> QED BY <1>2, <2>1, <2>2, MasterLegFresh, MasterLegShape
<1>4. ASSUME NEW o \in OBPs
      PROVE  Fresh(ObpLeg(b, o, "NONE")) /\ ObpLeg(b, o, "NONE").bridge = b
  BY <1>2, ObpLegFresh
<1> HIDE DEF Leg
<1>5. /\ \A a \in masters : Fresh(a) /\ a.bridge = b
      /\ \A a \in obps : Fresh(a) /\ a.bridge = b
  BY <1>3, <1>4
<1> HIDE DEF masters, obps
<1>6. Follows(T.legs, L) /\ T.legs \subseteq L
  <2>1. Follows(T.legs, T.legs \cup (masters \cup obps))
    BY <1>2, <1>5, FollowsConf
  <2>2. T.legs \cup (masters \cup obps) = L
    OBVIOUS
  <2> QED BY <2>1, <2>2
<1> HIDE DEF L
<1>7. U \in Tables /\ U.legs = L
  BY <1>6, GoodLegs, TablesWithLegs DEF Follows, Linked
<1> HIDE DEF U
<1>8. /\ Follows(U.legs, ActivateLinked(U, b, s, slot, tmout).legs)
      /\ Local(s, U.legs, ActivateLinked(U, b, s, slot, tmout).legs)
      /\ ActivateLinked(U, b, s, slot, tmout) \in Tables
  <2>1. tmout \in Int
    OBVIOUS
  <2> QED BY <1>2, <1>6, <1>7, <2>1, ActivateLinkedFollows, ActivateLinkedLocal DEF Follows
<1>9. Local(s, T.legs, U.legs)
  BY <1>6, <1>7, LocalSubset
<1> QED BY <1>1, <1>6, <1>7, <1>8, <1>9, IdxLegs, FollowsTrans, LocalTrans

LEMMA MakeStatBridgeFollows ==
  ASSUME NEW T, Good(T), Linked(T.legs), NEW n \in TGs, n \in ObpTGs, GenStat
  PROVE  Follows(T.legs, MakeStatBridge(T, n).legs)
<1> DEFINE b == Conf(n)
           A == {ObpLeg(b, o, "STAT") : o \in OBPs}
<1>1. MakeStatBridge(T, n) = IdxAdd(WithLegs(T, T.legs \cup A), b)
  BY DEF MakeStatBridge
<1>2. b \in BridgeNames /\ ~b.ref /\ b.tg \in ObpTGs
  BY Bridges, ConfIsNoRef
<1> HIDE DEF b
<1>3. \A a \in A : Fresh(a) /\ a.bridge = b
  BY <1>2, ObpLegFresh
<1> HIDE DEF A
<1>4. Follows(T.legs, T.legs \cup A)
  BY <1>2, <1>3, FollowsConf
<1>5. T.legs \cup A \in SUBSET Legs
  BY <1>4 DEF Follows, Linked
<1> QED BY <1>1, <1>4, <1>5, GoodLegs, LegsAfter

LEMMA EnsureMasterOnLegsFollows ==
  ASSUME NEW T, Good(T), Linked(T.legs), NEW b \in BridgeNames, ~b.ref, NEW s \in Masters,
         NEW tmout \in Nat
  PROVE  /\ Follows(T.legs, EnsureMasterOnLegs(T, b, s, tmout).legs)
         /\ T.legs \subseteq EnsureMasterOnLegs(T, b, s, tmout).legs
<1> DEFINE missing == {ts \in Slots :
                         ~\E l \in LegsOf(T.legs, b) : l.sys = s /\ l.ts = ts /\ l.type = "ON"}
           added == {MasterLeg(b, s, ts, "ON", FALSE, tmout, 0) : ts \in missing}
<1>1. EnsureMasterOnLegs(T, b, s, tmout)
        = IF missing = {} THEN T ELSE IdxReplace(WithLegs(T, T.legs \cup added), b)
  BY DEF EnsureMasterOnLegs
<1>2. missing \in SUBSET Slots
  OBVIOUS
<1> HIDE DEF missing
<1>3. ASSUME NEW ts \in Slots
      PROVE  /\ Fresh(MasterLeg(b, s, ts, "ON", FALSE, tmout, 0))
             /\ MasterLeg(b, s, ts, "ON", FALSE, tmout, 0).bridge = b
  <2> DEFINE t == 0
             a == FALSE
             type == "ON"
  <2>1. t \in Int /\ a \in BOOLEAN /\ type \in {"ON", "OFF"}
    OBVIOUS
  <2> HIDE DEF t, a, type
  <2>2. /\ Fresh(MasterLeg(b, s, ts, type, a, tmout, t))
        /\ MasterLeg(b, s, ts, type, a, tmout, t).bridge = b
    BY <2>1, MasterLegFresh, MasterLegShape
  <2> QED BY <2>2 DEF t, a, type
<1>4. \A a \in added : Fresh(a) /\ a.bridge = b
  BY <1>2, <1>3
<1> HIDE DEF added
<1>5. Follows(T.legs, T.legs \cup added)
  BY <1>4, FollowsConf
<1>6. T.legs \cup added \in SUBSET Legs
  BY <1>5 DEF Follows, Linked
<1>7. IdxReplace(WithLegs(T, T.legs \cup added), b).legs = T.legs \cup added
  BY <1>6, GoodLegs, LegsAfter
<1>8. T.legs \subseteq EnsureMasterOnLegs(T, b, s, tmout).legs
  BY <1>1, <1>7
<1> QED BY <1>1, <1>5, <1>7, <1>8, FollowsRefl

LEMMA ActivateUaBridgeSourceFollows ==
  ASSUME NEW T, Good(T), Linked(T.legs), NEW n \in TGs, NEW s \in Masters, NEW slot,
         NEW tmout \in Nat
  PROVE  /\ Follows(T.legs, ActivateUaBridgeSource(T, n, s, slot, tmout).legs)
         /\ Local(s, T.legs, ActivateUaBridgeSource(T, n, s, slot, tmout).legs)
<1> DEFINE b == Conf(n)
           E == EnsureMasterOnLegs(T, b, s, tmout)
           F == [l \in E.legs |-> IF l.bridge = b /\ l.sys = s /\ l.ts = slot /\ l.type # "NONE"
                                  THEN [l EXCEPT !.active = TRUE, !.timer = tmout] ELSE l]
           A == WithLegs(E, {F[l] : l \in E.legs})
<1>1. ActivateUaBridgeSource(T, n, s, slot, tmout) = ActivateLinked(A, b, s, slot, tmout)
  BY DEF ActivateUaBridgeSource
<1>2. b \in BridgeNames /\ ~b.ref
  BY Bridges, ConfIsNoRef
<1>3. Good(E) /\ Follows(T.legs, E.legs) /\ T.legs \subseteq E.legs
  BY <1>2, EnsureMasterOnLegsGood, EnsureMasterOnLegsFollows
<1> HIDE DEF E, b
<1>4. \A l \in E.legs : Calm(l, F[l])
  <2> SUFFICES ASSUME NEW l \in E.legs PROVE Calm(l, F[l])
    OBVIOUS
  <2>1. l \in Legs /\ tmout \in Int
    BY <1>3, GoodLegs
  <2>2. l.bridge = b => Calm(l, [l EXCEPT !.active = TRUE, !.timer = tmout])
    BY <1>2, <2>1, WokenCalm
  <2> QED BY <2>1, <2>2, CalmRefl
<1>5. F \in [E.legs -> Legs] /\ \A l \in E.legs : l.sys # s => F[l] = l
  BY <1>4 DEF Calm, SameKey
<1> HIDE DEF F
<1>6. Follows(E.legs, A.legs) /\ A \in Tables
  BY <1>3, <1>4, <1>5, GoodLegs, FollowsInPlace DEF Follows
<1>7. Local(s, T.legs, A.legs)
  <2> DEFINE N == {F[l] : l \in E.legs}
  <2>1. N \in SUBSET Legs /\ \A l \in T.legs : l.sys # s => l \in N
    BY <1>3, <1>5
  <2> HIDE DEF N
  <2>2. WithLegs(E, N).legs = N
    BY <1>3, <2>1, GoodLegs, TablesWithLegs
  <2> QED BY <2>1, <2>2, LocalSubset DEF N
<1> HIDE DEF A
<1>8. /\ Follows(A.legs, ActivateLinked(A, b, s, slot, tmout).legs)
      /\ Local(s, A.legs, ActivateLinked(A, b, s, slot, tmout).legs)
  <2>1. tmout \in Int
    OBVIOUS
  <2> QED BY <1>2, <1>6, <2>1, ActivateLinkedFollows, ActivateLinkedLocal DEF Follows
<1> QED BY <1>1, <1>3, <1>6, <1>7, <1>8, FollowsTrans, LocalTrans

-----------------------------------------------------------------------------
(* Functions that replace the legs of one system.                            *)

At(l, b, s, ts) == l.bridge = b /\ l.sys = s /\ l.ts = ts

Replaced(L, b, s, ts, leg) ==
    {IF l.bridge = b /\ l.sys = s /\ l.ts = ts THEN leg ELSE l : l \in L}

(* The static talkgroups that are not slot ts of s.                          *)
Elsewhere(L, s, ts) == {k \in StaticSpots(L) : ~(k.sys = s /\ k.ts = ts)}

(* A fresh leg in the place of those at one spot: whatever stood there, what   *)
(* stands elsewhere is untouched.                                            *)
LEMMA LinkedReplace ==
  ASSUME NEW b, NEW s, NEW ts, NEW L, Linked({l \in L : ~At(l, b, s, ts)}),
         NEW leg, Fresh(leg), At(leg, b, s, ts)
  PROVE  LET N == Replaced(L, b, s, ts, leg)
         IN  /\ Linked(N) /\ Linked(N \cup {leg})
             /\ Elsewhere(L, s, ts) \subseteq StaticSpots(N)
             /\ leg.type = "OFF" => StaticSpots(L) \subseteq StaticSpots(N \cup {leg})
             /\ b.ref => StaticSpots(L) \subseteq StaticSpots(N)
<1> DEFINE N == Replaced(L, b, s, ts, leg)
           K == {l \in L : ~At(l, b, s, ts)}
<1>1. Linked(K \cup {leg})
  <2>1. Single({leg}) /\ \A l \in K : Key(l) # Key(leg)
    BY KeyFields DEF Single, At
  <2>2. Follows(K, K \cup {leg})
    BY <2>1, FollowsAdd
  <2> QED BY <2>2 DEF Follows
<1>2. N = K \/ N = K \cup {leg}
  BY DEF At, Replaced
<1> HIDE DEF N
<1>3. N \cup {leg} = K \cup {leg}
  BY <1>2
<1>4. StaticSpots(K) \subseteq StaticSpots(N)
  BY <1>2 DEF StaticSpots
<1>5. ASSUME NEW l \in L, l.type = "OFF", ~l.bridge.ref, ~At(l, b, s, ts)
      PROVE  Spot(l) \in StaticSpots(N)
  BY <1>4, <1>5 DEF StaticSpots
<1>6. Elsewhere(L, s, ts) \subseteq StaticSpots(N)
  <2> SUFFICES ASSUME NEW l \in L, l.type = "OFF", ~l.bridge.ref,
                      ~(Spot(l).sys = s /\ Spot(l).ts = ts)
               PROVE  Spot(l) \in StaticSpots(N)
    BY DEF Elsewhere, StaticSpots
  <2>1. ~At(l, b, s, ts)
    BY DEF At, Spot
  <2> QED BY <1>5, <2>1
<1>7. ASSUME leg.type = "OFF" PROVE StaticSpots(L) \subseteq StaticSpots(N \cup {leg})
  <2> SUFFICES ASSUME NEW l \in L, l.type = "OFF", ~l.bridge.ref
               PROVE  Spot(l) \in StaticSpots(N \cup {leg})
    BY DEF StaticSpots
  <2>1. CASE At(l, b, s, ts)
    <3>1. Spot(leg) = Spot(l) /\ ~leg.bridge.ref
      BY <2>1, SpotFields DEF At
    <3> QED BY <1>7, <3>1 DEF StaticSpots
  <2>2. CASE ~At(l, b, s, ts)
    BY <1>5, <2>2 DEF StaticSpots
  <2> QED BY <2>1, <2>2
<1>8. ASSUME b.ref PROVE StaticSpots(L) \subseteq StaticSpots(N)
  <2> SUFFICES ASSUME NEW l \in L, l.type = "OFF", ~l.bridge.ref
               PROVE  Spot(l) \in StaticSpots(N)
    BY DEF StaticSpots
  <2> QED BY <1>5, <1>8 DEF At
<1>9. Linked(N)
  BY <1>1, <1>2
<1>10. Linked(N \cup {leg})
  BY <1>1, <1>3
<1> QED BY <1>6, <1>7, <1>8, <1>9, <1>10 DEF N

LEMMA ReplaceLegUnfold ==
  ASSUME NEW T \in Tables, NEW b, NEW s, NEW ts, NEW leg \in Legs
  PROVE  /\ ReplaceLeg(T, b, s, ts, leg) = WithLegs(T, Replaced(T.legs, b, s, ts, leg))
         /\ ReplaceLeg(T, b, s, ts, leg).legs = Replaced(T.legs, b, s, ts, leg)
         /\ IdxReplace(ReplaceLeg(T, b, s, ts, leg), b).legs = Replaced(T.legs, b, s, ts, leg)
         /\ Replaced(T.legs, b, s, ts, leg) \in SUBSET Legs
<1> DEFINE N == Replaced(T.legs, b, s, ts, leg)
<1>1. ReplaceLeg(T, b, s, ts, leg) = WithLegs(T, N)
  BY DEF ReplaceLeg, Replaced
<1>2. N \in SUBSET Legs
  BY DEF Tables, Replaced
<1> HIDE DEF N
<1>3. WithLegs(T, N).legs = N /\ IdxReplace(WithLegs(T, N), b).legs = N
  BY <1>2, LegsAfter
<1> QED BY <1>1, <1>2, <1>3 DEF N

LEMMA IdleFresh ==
  ASSUME NEW b \in BridgeNames, NEW s \in Masters, NEW ts \in Slots, NEW tmout \in Nat,
         NEW timer \in Int, b.ref => ts = 2
  PROVE  LET l == MasterLeg(b, s, ts, "ON", FALSE, tmout, timer)
         IN  Fresh(l) /\ At(l, b, s, ts)
<1> DEFINE type == "ON"
           a == FALSE
<1>1. type \in {"ON", "OFF"} /\ a \in BOOLEAN
  OBVIOUS
<1>2. ~a
  OBVIOUS
<1> HIDE DEF type, a
<1>3. /\ Fresh(MasterLeg(b, s, ts, type, a, tmout, timer))
      /\ At(MasterLeg(b, s, ts, type, a, tmout, timer), b, s, ts)
  BY <1>1, <1>2, MasterLegFresh, MasterLegShape DEF At
<1> QED BY <1>3 DEF type, a

LEMMA StaticFresh ==
  ASSUME NEW b \in BridgeNames, NEW s \in Masters, NEW ts \in Slots, NEW tmout \in Nat,
         b.ref => ts = 2
  PROVE  LET l == MasterLeg(b, s, ts, "OFF", TRUE, tmout, tmout)
         IN  Fresh(l) /\ At(l, b, s, ts) /\ l.type = "OFF"
<1> DEFINE type == "OFF"
           a == TRUE
<1>1. type \in {"ON", "OFF"} /\ a \in BOOLEAN /\ tmout \in Int
  OBVIOUS
<1>2. type = "OFF"
  OBVIOUS
<1> HIDE DEF type, a
<1>3. /\ Fresh(MasterLeg(b, s, ts, type, a, tmout, tmout))
      /\ At(MasterLeg(b, s, ts, type, a, tmout, tmout), b, s, ts)
      /\ MasterLeg(b, s, ts, type, a, tmout, tmout).type = type
  BY <1>1, <1>2, MasterLegFresh, MasterLegShape DEF At
<1> QED BY <1>2, <1>3 DEF type, a

(* Where the static talkgroup n of slot ts of s stands.                       *)
StaticSpot(s, ts, n) == [bridge |-> Conf(n), sys |-> s, ts |-> ts]

LEMMA MakeStaticTGFollows ==
  ASSUME NEW T, Good(T), Linked(T.legs), NEW n \in TGs, NEW ts \in Slots, NEW tmout \in Nat,
         NEW s \in Masters
  PROVE  /\ Follows(T.legs, MakeStaticTG(T, n, ts, tmout, s).legs)
         /\ StaticSpot(s, ts, n) \in StaticSpots(MakeStaticTG(T, n, ts, tmout, s).legs)
<1> DEFINE b   == Conf(n)
           leg == MasterLeg(b, s, ts, "OFF", TRUE, tmout, tmout)
           M   == IF b \in Names(T.legs) THEN T ELSE MakeSingleBridge(T, n, s, ts, tmout)
           N   == Replaced(M.legs, b, s, ts, leg)
           R   == ReplaceLeg(M, b, s, ts, leg)
<1>1. MakeStaticTG(T, n, ts, tmout, s) = IdxReplace(WithLegs(R, R.legs \cup {leg}), b)
  BY DEF MakeStaticTG
<1>2. Good(M) /\ Follows(T.legs, M.legs)
  BY MakeSingleBridgeGood, MakeSingleBridgeFollows, FollowsRefl
<1> HIDE DEF M
<1>3. /\ Fresh(leg) /\ At(leg, b, s, ts) /\ leg.type = "OFF" /\ ~leg.bridge.ref
      /\ Spot(leg) = StaticSpot(s, ts, n)
  <2>1. b \in BridgeNames /\ ~b.ref
    BY Bridges, ConfIsNoRef
  <2>2. Fresh(leg) /\ At(leg, b, s, ts) /\ leg.type = "OFF"
    BY <2>1, StaticFresh
  <2> HIDE DEF leg
  <2> QED BY <2>1, <2>2 DEF At, Spot, StaticSpot
<1> HIDE DEF leg, b
<1>4. Linked(M.legs) /\ Linked({l \in M.legs : ~At(l, b, s, ts)})
  BY <1>2, LinkedSubset DEF Follows
<1>5. Linked(N \cup {leg}) /\ StaticSpots(M.legs) \subseteq StaticSpots(N \cup {leg})
  BY <1>3, <1>4, LinkedReplace
<1>6. M \in Tables /\ leg \in Legs
  BY <1>2, <1>3, GoodLegs DEF Fresh
<1>7. R = WithLegs(M, N) /\ R.legs = N /\ N \in SUBSET Legs
  <2> HIDE DEF N, R
  <2>1. ReplaceLeg(M, b, s, ts, leg) = WithLegs(M, Replaced(M.legs, b, s, ts, leg))
    BY <1>6, ReplaceLegUnfold
  <2>2. ReplaceLeg(M, b, s, ts, leg).legs = Replaced(M.legs, b, s, ts, leg)
    BY <1>6, ReplaceLegUnfold
  <2>3. Replaced(M.legs, b, s, ts, leg) \in SUBSET Legs
    BY <1>6, ReplaceLegUnfold
  <2> QED BY <2>1, <2>2, <2>3 DEF N, R
<1> HIDE DEF N, R
<1>8. MakeStaticTG(T, n, ts, tmout, s).legs = N \cup {leg}
  <2>1. R \in Tables /\ N \cup {leg} \in SUBSET Legs
    BY <1>6, <1>7, TablesWithLegs
  <2> QED BY <1>1, <1>7, <2>1, LegsAfter
<1>9. Follows(M.legs, N \cup {leg})
  BY <1>5 DEF Follows
<1>10. StaticSpot(s, ts, n) \in StaticSpots(N \cup {leg})
  BY <1>3 DEF StaticSpots
<1> QED BY <1>2, <1>8, <1>9, <1>10, FollowsTrans

LEMMA ResetStaticTGLinked ==
  ASSUME NEW T, Good(T), Linked(T.legs), NEW n \in TGs, NEW ts \in Slots, NEW tmout \in Nat,
         NEW s \in Masters
  PROVE  /\ Linked(ResetStaticTG(T, n, ts, tmout, s).legs)
         /\ Elsewhere(T.legs, s, ts) \subseteq StaticSpots(ResetStaticTG(T, n, ts, tmout, s).legs)
<1> DEFINE b   == Conf(n)
           leg == MasterLeg(b, s, ts, "ON", FALSE, tmout, tmout)
           N   == Replaced(T.legs, b, s, ts, leg)
<1>1. ResetStaticTG(T, n, ts, tmout, s)
        = IF b \notin Names(T.legs) THEN T ELSE IdxReplace(ReplaceLeg(T, b, s, ts, leg), b)
  BY DEF ResetStaticTG
<1>2. Fresh(leg) /\ At(leg, b, s, ts)
  <2>1. b \in BridgeNames /\ ~b.ref /\ tmout \in Int
    BY Bridges, ConfIsNoRef
  <2> QED BY <2>1, IdleFresh
<1> HIDE DEF leg, b
<1>3. Linked({l \in T.legs : ~At(l, b, s, ts)})
  BY LinkedSubset
<1>4. Linked(N) /\ Elsewhere(T.legs, s, ts) \subseteq StaticSpots(N)
  BY <1>2, <1>3, LinkedReplace
<1>5. T \in Tables /\ leg \in Legs
  BY <1>2, GoodLegs DEF Fresh
<1>6. IdxReplace(ReplaceLeg(T, b, s, ts, leg), b).legs = N
  BY <1>5, ReplaceLegUnfold
<1>7. Elsewhere(T.legs, s, ts) \subseteq StaticSpots(T.legs)
  BY DEF Elsewhere
<1> QED BY <1>1, <1>4, <1>6, <1>7

-----------------------------------------------------------------------------
(* Reflectors.                                                               *)

(* A new reflector: every leg is off save that of the master it is made for.  *)
LEMMA NewReflector ==
  ASSUME NEW T, Good(T), NEW n \in TGs, NEW s \in Masters, NEW tmout \in Nat,
         NEW tmouts \in [Masters -> Nat]
  PROVE  \E A \in SUBSET Legs :
            /\ MakeSingleReflector(T, n, s, tmout, tmouts).legs = T.legs \cup A
            /\ \A a \in A : a.bridge = Ref(n) /\ Shaped(a) /\ a.owner = NoOwner
            /\ \A a \in A : a.sys = s => a.ts = 2
            /\ \A a \in A : a.sys # s => Fresh(a)
            /\ Single(A)
<1> DEFINE b == Ref(n)
           two == 2
           Leg(m) == MasterLeg(b, m, two, "ON", m = s, IF m = s THEN tmout ELSE tmouts[m],
                               IF m = s THEN tmout ELSE 0)
           Obp(o) == ObpLeg(b, o, "NONE")
           masters == {Leg(m) : m \in Masters}
           obps == IF NetTG(n) THEN {Obp(o) : o \in OBPs} ELSE {}
           A == masters \cup obps
<1>1. MakeSingleReflector(T, n, s, tmout, tmouts)
        = IdxAdd(WithLegs(T, T.legs \cup masters \cup obps), b)
  BY DEF MakeSingleReflector
<1>2. b \in BridgeNames /\ two \in Slots /\ two = 2
  BY Bridges DEF Slots
<1> HIDE DEF two
<1>3. ASSUME NEW m \in Masters
      PROVE  /\ Leg(m) \in Legs /\ Shaped(Leg(m)) /\ Leg(m).owner = NoOwner
             /\ Leg(m).bridge = b /\ Leg(m).sys = m /\ Leg(m).ts = two
             /\ Leg(m).active = (m = s)
  <2> DEFINE a == m = s
             t == IF m = s THEN tmout ELSE tmouts[m]
             u == IF m = s THEN tmout ELSE 0
             type == "ON"
  <2>1. type \in {"ON", "OFF"} /\ a \in BOOLEAN /\ t \in Nat /\ u \in Int
    OBVIOUS
  <2>2. Leg(m) = MasterLeg(b, m, two, type, a, t, u)
    OBVIOUS
  <2> HIDE DEF Leg, b, t, u, type, a
  <2>3. LET l == MasterLeg(b, m, two, type, a, t, u)
        IN  /\ l \in Legs /\ Shaped(l) /\ l.owner = NoOwner
            /\ l.bridge = b /\ l.sys = m /\ l.ts = two /\ l.active = a
    BY <1>2, <2>1, MasterLegShape
  <2> QED BY <2>2, <2>3 DEF a
<1>4. ASSUME NEW o \in OBPs
      PROVE  /\ Fresh(Obp(o)) /\ Obp(o).bridge = b /\ Obp(o).sys = o
  BY <1>2, ObpLegFresh
<1> HIDE DEF Leg, Obp, b
<1>5. \A a \in masters : /\ a \in Legs /\ Shaped(a) /\ a.owner = NoOwner /\ a.bridge = b
                         /\ a.ts = two /\ a.sys \in Masters /\ a = Leg(a.sys)
                         /\ a.sys # s => ~a.active
  <2> SUFFICES ASSUME NEW m \in Masters
               PROVE  /\ Leg(m) \in Legs /\ Shaped(Leg(m)) /\ Leg(m).owner = NoOwner
                      /\ Leg(m).bridge = b /\ Leg(m).ts = two /\ Leg(m).sys = m
                      /\ Leg(m).sys # s => ~Leg(m).active
    OBVIOUS
  <2> QED BY <1>3
<1>6. \A a \in obps : Fresh(a) /\ a.bridge = b /\ a.sys \in OBPs /\ a = Obp(a.sys)
  BY <1>4
<1> HIDE DEF masters, obps
<1>7. A \in SUBSET Legs /\ \A a \in A : a.bridge = b /\ Shaped(a) /\ a.owner = NoOwner
  BY <1>5, <1>6 DEF Fresh
<1>8. \A a \in A : a.sys = s => a.ts = 2
  BY <1>2, <1>5, <1>6, SystemsAssumption
<1>9. \A a \in A : a.sys # s => Fresh(a)
  BY <1>5, <1>6 DEF Fresh, Link
<1>10. Single(A)
  <2> SUFFICES ASSUME NEW l \in A, NEW m \in A, Key(l) = Key(m) PROVE l = m
    BY DEF Single
  <2>1. l.sys = m.sys
    BY KeyFields
  <2> QED BY <1>5, <1>6, <2>1, SystemsAssumption
<1>11. MakeSingleReflector(T, n, s, tmout, tmouts).legs = T.legs \cup A
  <2>1. T.legs \cup masters \cup obps = T.legs \cup A
    OBVIOUS
  <2>2. T.legs \cup A \in SUBSET Legs
    BY <1>7, GoodLegs
  <2> HIDE DEF A
  <2> QED BY <1>1, <2>1, <2>2, GoodLegs, LegsAfter
<1> QED BY <1>7, <1>8, <1>9, <1>10, <1>11 DEF b

(* The table when the reflector a call or OPTIONS name has been made if need be: *)
(* links of other masters than s are those there were.                       *)
Dialled(T, M, n, s, tmout, tmouts) ==
    \/ M = T
    \/ Ref(n) \notin Names(T.legs) /\ M = MakeSingleReflector(T, n, s, tmout, tmouts)

LEMMA DialTarget ==
  ASSUME NEW T, Good(T), Linked(T.legs), NEW n \in TGs, NEW s \in Masters, NEW tmout \in Nat,
         NEW tmouts \in [Masters -> Nat], NEW M,
         Dialled(T, M, n, s, tmout, tmouts)
  PROVE  /\ M.legs \in SUBSET Legs /\ T.legs \subseteq M.legs
         /\ \A l \in M.legs : Shaped(l) /\ OwnerOK(l)
         /\ \A l \in M.legs : Link(l) /\ l.sys # s => l \in T.legs
         /\ Single(M.legs)
         /\ StaticSpots(T.legs) \subseteq StaticSpots(M.legs)
         /\ Linked({l \in M.legs : ~At(l, Ref(n), s, 2)})
<1>1. CASE M = T
  BY <1>1, LinkedSubset DEF Linked
<1>2. CASE Ref(n) \notin Names(T.legs) /\ M = MakeSingleReflector(T, n, s, tmout, tmouts)
  <2>1. PICK A \in SUBSET Legs :
            /\ M.legs = T.legs \cup A
            /\ \A a \in A : a.bridge = Ref(n) /\ Shaped(a) /\ a.owner = NoOwner
            /\ \A a \in A : a.sys = s => a.ts = 2
            /\ \A a \in A : a.sys # s => Fresh(a)
            /\ Single(A)
    BY <1>2, NewReflector
  <2>2. \A l \in T.legs : l.bridge # Ref(n)
    BY <1>2 DEF Names
  <2>3. M.legs \in SUBSET Legs /\ T.legs \subseteq M.legs
    BY <2>1 DEF Linked
  <2>4. \A l \in M.legs : Shaped(l) /\ OwnerOK(l)
    BY <2>1 DEF Linked, OwnerOK
  <2>5. \A l \in M.legs : Link(l) /\ l.sys # s => l \in T.legs
    BY <2>1 DEF Fresh
  <2>6. \A l \in T.legs, a \in A : Key(l) # Key(a)
    BY <2>1, <2>2, KeyFields
  <2>7. Single(M.legs)
    BY <2>1, <2>6 DEF Linked, Single
  <2>8. StaticSpots(T.legs) \subseteq StaticSpots(M.legs)
    BY <2>1 DEF StaticSpots
  <2>9. Linked({l \in M.legs : ~At(l, Ref(n), s, 2)})
    <3> DEFINE K == {l \in T.legs : ~At(l, Ref(n), s, 2)}
               B == {a \in A : ~At(a, Ref(n), s, 2)}
    <3>1. {l \in M.legs : ~At(l, Ref(n), s, 2)} = K \cup B
      BY <2>1
    <3>2. Linked(K)
      BY LinkedSubset
    <3>3. \A a \in B : Fresh(a)
      BY <2>1 DEF At
    <3>4. Single(B)
      BY <2>1 DEF Single
    <3>5. \A a \in B, l \in K : Key(l) # Key(a)
      BY <2>6
    <3> HIDE DEF K, B
    <3>6. Follows(K, K \cup B)
      BY <3>2, <3>3, <3>4, <3>5, FollowsAdd
    <3> QED BY <3>1, <3>6 DEF Follows
  <2> QED BY <2>3, <2>4, <2>5, <2>7, <2>8, <2>9
<1> QED BY <1>1, <1>2 DEF Dialled

LEMMA DialledTables ==
  ASSUME NEW T, Good(T), NEW n \in TGs, NEW s \in Masters, NEW tmout \in Nat,
         NEW tmouts \in [Masters -> Nat], NEW M, Dialled(T, M, n, s, tmout, tmouts)
  PROVE  Good(M) /\ M \in Tables
  BY MakeSingleReflectorGood, GoodLegs DEF Dialled

(* The leg of s on the target replaced by one that is off, or static.        *)
LEMMA TargetReplaced ==
  ASSUME NEW T, Good(T), Linked(T.legs), NEW n \in TGs, NEW s \in Masters, NEW tmout \in Nat,
         NEW tmouts \in [Masters -> Nat], NEW leg, Fresh(leg), At(leg, Ref(n), s, 2), NEW M,
         Good(M),
         Dialled(T, M, n, s, tmout, tmouts)
  PROVE  Follows(T.legs, IdxReplace(ReplaceLeg(M, Ref(n), s, 2, leg), Ref(n)).legs)
<1> DEFINE b == Ref(n)
           N == Replaced(M.legs, b, s, 2, leg)
<1>1. Linked({l \in M.legs : ~At(l, b, s, 2)}) /\ StaticSpots(T.legs) \subseteq StaticSpots(M.legs)
  BY DialTarget
<1>2. Fresh(leg) /\ At(leg, b, s, 2) /\ b.ref
  BY RefIsRef
<1> HIDE DEF b
<1>3. Linked(N) /\ StaticSpots(M.legs) \subseteq StaticSpots(N)
  BY <1>1, <1>2, LinkedReplace
<1>4. leg \in Legs /\ M \in Tables
  BY <1>2, GoodLegs DEF Fresh
<1> HIDE DEF N
<1>5. IdxReplace(ReplaceLeg(M, b, s, 2, leg), b).legs = N
  BY <1>4, ReplaceLegUnfold DEF N
<1> QED BY <1>1, <1>3, <1>5 DEF Follows, b

LEMMA MakeDefaultReflectorFollows ==
  ASSUME NEW T, Good(T), Linked(T.legs), NEW n \in TGs, NEW tmout \in Nat, NEW s \in Masters,
         NEW tmouts \in [Masters -> Nat]
  PROVE  Follows(T.legs, MakeDefaultReflector(T, n, tmout, s, tmouts).legs)
<1> DEFINE b == Ref(n)
           two == 2
           leg == MasterLeg(b, s, two, "OFF", TRUE, tmout, tmout)
           M == IF b \in Names(T.legs) THEN T ELSE MakeSingleReflector(T, n, s, tmout, tmouts)
<1>1. MakeDefaultReflector(T, n, tmout, s, tmouts) = IdxReplace(ReplaceLeg(M, b, s, two, leg), b)
  BY DEF MakeDefaultReflector
<1>2. Fresh(leg) /\ At(leg, b, s, two)
  <2>1. b \in BridgeNames /\ two \in Slots /\ two = 2
    BY Bridges DEF Slots
  <2> HIDE DEF b, two
  <2> QED BY <2>1, StaticFresh
<1>3. Good(M)
  BY MakeSingleReflectorGood
<1>4. Dialled(T, M, n, s, tmout, tmouts)
  BY DEF Dialled
<1> HIDE DEF leg, M
<1>5. Fresh(leg) /\ At(leg, Ref(n), s, 2)
  BY <1>2
<1>6. Follows(T.legs, IdxReplace(ReplaceLeg(M, Ref(n), s, 2, leg), Ref(n)).legs)
  BY <1>3, <1>4, <1>5, TargetReplaced
<1> QED BY <1>1, <1>6

LEMMA ResetDefaultReflectorFollows ==
  ASSUME NEW T, Good(T), Linked(T.legs), NEW n \in TGs, NEW tmout \in Nat, NEW s \in Masters,
         NEW tmouts \in [Masters -> Nat]
  PROVE  Follows(T.legs, ResetDefaultReflector(T, n, tmout, s, tmouts).legs)
<1> DEFINE b == Ref(n)
           two == 2
           leg == MasterLeg(b, s, two, "ON", FALSE, tmout, tmout)
           M == IF b \in Names(T.legs) THEN T ELSE MakeSingleReflector(T, n, s, tmout, tmouts)
<1>1. ResetDefaultReflector(T, n, tmout, s, tmouts) = IdxReplace(ReplaceLeg(M, b, s, two, leg), b)
  BY DEF ResetDefaultReflector
<1>2. Fresh(leg) /\ At(leg, b, s, two)
  <2>1. b \in BridgeNames /\ two \in Slots /\ two = 2 /\ tmout \in Int
    BY Bridges DEF Slots
  <2> HIDE DEF b, two
  <2> QED BY <2>1, IdleFresh
<1>3. Good(M)
  BY MakeSingleReflectorGood
<1>4. Dialled(T, M, n, s, tmout, tmouts)
  BY DEF Dialled
<1> HIDE DEF leg, M
<1>5. Fresh(leg) /\ At(leg, Ref(n), s, 2)
  BY <1>2
<1>6. Follows(T.legs, IdxReplace(ReplaceLeg(M, Ref(n), s, 2, leg), Ref(n)).legs)
  BY <1>3, <1>4, <1>5, TargetReplaced
<1> QED BY <1>1, <1>6

(* A private call to reflector n on a leg of the caller's system: it may link *)
(* the leg of n, and every other reflector of the slot is off.               *)
LEMMA PrivateLegMoves ==
  ASSUME NEW l \in Legs, NEW slot, NEW n, NEW c \in Callers
  PROVE  LET P == PrivateLeg(l, slot, n, c)
         IN  /\ SameKey(l, P) /\ P.type = l.type
             /\ OwnerOK(l) => OwnerOK(P)
             /\ slot = l.ts /\ P.active => n = l.bridge.tg
<1> DEFINE target == n = l.bridge.tg
           B == Restarted(l, n, slot, c)
           O == SwitchedOn(B)
           W == [O EXCEPT !.owner = c]
           C == IF target /\ slot = l.ts /\ ~B.active THEN W ELSE B
           u == C.timeout
           E == IF target /\ C.active /\ C.type = "ON" THEN [C EXCEPT !.timer = u] ELSE C
           P == IF ~target /\ slot = l.ts THEN SwitchedAway(E) ELSE E
<1>1. PrivateLeg(l, slot, n, c) = P
  BY DEF PrivateLeg
<1>2. Calm(l, B)
  BY RestartedCalm
<1> HIDE DEF B
<1>3. SameKey(B, O) /\ O.active /\ O.type = B.type
  BY <1>2, SwitchedOnLeg, SwitchedOnKind DEF Calm, SameKey
<1> HIDE DEF O
<1>4. SameKey(B, W) /\ W.type = B.type /\ OwnerOK(W)
  <2>1. SameKey(O, W)
    BY <1>3, OwnerLeg DEF SameKey
  <2>2. W.active = O.active /\ W.type = O.type
    BY <1>3 DEF SameKey, Legs
  <2> HIDE DEF W
  <2> QED BY <1>3, <2>1, <2>2, SameTrans DEF OwnerOK
<1> HIDE DEF W
<1>5. SameKey(l, C) /\ C.type = l.type /\ (OwnerOK(l) => OwnerOK(C))
  BY <1>2, <1>4, SameTrans DEF Calm
<1> HIDE DEF C
<1>6. SameKey(l, E) /\ E.type = l.type /\ (OwnerOK(l) => OwnerOK(E))
  <2>1. C \in Legs /\ u \in Int
    BY <1>5, LegTypes DEF SameKey
  <2> HIDE DEF u
  <2>2. Calm(C, [C EXCEPT !.timer = u])
    BY <2>1, TimerCalm
  <2> QED BY <1>5, <2>2, SameTrans DEF Calm
<1> HIDE DEF E
<1>7. Calm(E, SwitchedAway(E)) /\ ~SwitchedAway(E).active
  BY <1>6, SwitchedAwayCalm DEF SameKey
<1>8. SameKey(l, P) /\ P.type = l.type
  BY <1>6, <1>7, SameTrans DEF Calm
<1>9. OwnerOK(l) => OwnerOK(P)
  BY <1>6, <1>7 DEF Calm
<1>10. slot = l.ts /\ P.active => n = l.bridge.tg
  BY <1>7
<1> QED BY <1>1, <1>8, <1>9, <1>10

LEMMA BridgeOfRef ==
  ASSUME NEW b \in BridgeNames, b.ref
  PROVE  b = Ref(b.tg)
  BY DEF BridgeNames, Ref

(* A private call links one reflector and unlinks the others of its slot.    *)
LEMMA LinkReflectorFollows ==
  ASSUME NEW T, Good(T), Linked(T.legs), NEW s \in Masters, NEW slot \in PrivateSlots,
         NEW n \in TGs, NEW c \in Callers, NEW tmouts \in [Masters -> Nat]
  PROVE  /\ Follows(T.legs, LinkReflector(T, s, slot, n, c, tmouts).legs)
         /\ Local(s, T.legs, LinkReflector(T, s, slot, n, c, tmouts).legs)
<1> DEFINE t == tmouts[s]
           M == IF Ref(n) \notin Names(T.legs) /\ Creatable(n)
                THEN MakeSingleReflector(T, n, s, t, tmouts) ELSE T
           F == [l \in M.legs |-> IF l.bridge.ref /\ l.sys = s THEN PrivateLeg(l, slot, n, c) ELSE l]
           N == {F[l] : l \in M.legs}
           P == WithLegs(M, N)
<1>1. LinkReflector(T, s, slot, n, c, tmouts) =
        IF Named(n) THEN DeactivateOtherDynamic(P, s, Ref(n), slot) ELSE P
  BY DEF LinkReflector
<1>2. Dialled(T, M, n, s, t, tmouts)
  BY DEF Dialled
<1>3. t \in Nat
  OBVIOUS
<1> HIDE DEF M, t
<1>4. /\ M.legs \in SUBSET Legs /\ T.legs \subseteq M.legs
      /\ \A l \in M.legs : Shaped(l) /\ OwnerOK(l)
      /\ \A l \in M.legs : Link(l) /\ l.sys # s => l \in T.legs
      /\ Single(M.legs)
      /\ StaticSpots(T.legs) \subseteq StaticSpots(M.legs)
  BY <1>2, <1>3, DialTarget
<1>5. \A l \in M.legs : /\ SameKey(l, F[l]) /\ F[l].type = l.type /\ OwnerOK(F[l])
                        /\ l.bridge.ref /\ l.sys = s /\ slot = l.ts /\ F[l].active
                           => n = l.bridge.tg
                        /\ ~(l.bridge.ref /\ l.sys = s) => F[l] = l
  BY <1>4, PrivateLegMoves, SameRefl
<1> HIDE DEF F
<1>6. \A l \in M.legs : F[l] \in Legs /\ Key(F[l]) = Key(l) /\ F[l].bridge = l.bridge
                        /\ F[l].sys = l.sys /\ F[l].ts = l.ts /\ F[l].tg = l.tg
  BY <1>5, KeyFields DEF SameKey
<1>7. N \in SUBSET Legs
  BY <1>6
<1>8. \A m \in N : Shaped(m) /\ OwnerOK(m)
  BY <1>4, <1>5, <1>6 DEF Shaped
<1>9. Single(N)
  <2> SUFFICES ASSUME NEW l \in M.legs, NEW m \in M.legs, F[l].bridge.ref, Key(F[l]) = Key(F[m])
               PROVE  F[l] = F[m]
    BY DEF Single
  <2> QED BY <1>4, <1>6 DEF Single
<1>10. PrivateSlots \subseteq {2} => OneLink(N)
  <2> SUFFICES ASSUME PrivateSlots \subseteq {2}, NEW l \in M.legs, NEW m \in M.legs,
                      F[l].sys \in Masters, F[l].sys = F[m].sys, Link(F[l]), Link(F[m])
               PROVE  F[l].bridge = F[m].bridge
    BY DEF OneLink
  <2>1. CASE l.sys = s
    <3>1. l.ts = 2 /\ m.ts = 2 /\ slot = 2
      BY <1>4, <1>6, <2>1 DEF Shaped, Link
    <3>2. l.bridge.tg = n /\ m.bridge.tg = n
      BY <1>5, <1>6, <2>1, <3>1 DEF Link
    <3>3. l.bridge \in BridgeNames /\ m.bridge \in BridgeNames /\ l.bridge.ref /\ m.bridge.ref
      BY <1>4, <1>6 DEF Legs, Link
    <3> QED BY <1>6, <3>2, <3>3, BridgeOfRef
  <2>2. CASE l.sys # s
    <3>1. F[l] = l /\ F[m] = m
      BY <1>5, <1>6, <2>2
    <3>2. l \in T.legs /\ m \in T.legs
      BY <1>4, <1>6, <2>2, <3>1
    <3> QED BY <3>1, <3>2 DEF Linked, OneLink
  <2> QED BY <2>1, <2>2
<1>11. StaticSpots(M.legs) \subseteq StaticSpots(N)
  <2> SUFFICES ASSUME NEW l \in M.legs, l.type = "OFF", ~l.bridge.ref
               PROVE  Spot(l) \in StaticSpots(N)
    BY DEF StaticSpots
  <2>1. F[l] \in N /\ F[l] = l
    BY <1>5
  <2> QED BY <2>1 DEF StaticSpots
<1>12. \A l \in N : ~(/\ l.bridge.ref /\ l.bridge # Ref(n) /\ l.sys = s /\ l.ts = slot
                      /\ l.type = "ON" /\ l.active)
  <2> SUFFICES ASSUME NEW l \in M.legs, F[l].bridge.ref, F[l].sys = s, F[l].ts = slot, F[l].active
               PROVE  F[l].bridge = Ref(n)
    OBVIOUS
  <2>1. l.bridge.ref /\ l.bridge \in BridgeNames /\ l.bridge.tg = n
    BY <1>4, <1>5, <1>6 DEF Legs
  <2> QED BY <1>6, <2>1, BridgeOfRef
<1>13. Local(s, T.legs, N)
  <2>1. \A l \in T.legs : l.sys # s => l \in N
    BY <1>4, <1>5
  <2> QED BY <2>1, LocalSubset
<1>14. P \in Tables /\ P.legs = N
  BY <1>2, <1>3, <1>7, DialledTables, TablesWithLegs
<1> HIDE DEF N, P
<1>15. DeactivateOtherDynamic(P, s, Ref(n), slot) = P
  BY <1>12, <1>14 DEF DeactivateOtherDynamic, Refreshed
<1> QED BY <1>1, <1>4, <1>7, <1>8, <1>9, <1>10, <1>11, <1>14, <1>15, <1>13
        DEF Follows, Linked

LEMMA PrivateStartFollows ==
  ASSUME NEW T, Good(T), Linked(T.legs), NEW s \in Masters, NEW slot \in PrivateSlots,
         NEW d \in TGs \cup {Unlink, Status}, NEW c \in Callers, NEW tmouts \in [Masters -> Nat]
  PROVE  /\ Follows(T.legs, PrivateStart(T, s, slot, d, c, tmouts).legs)
         /\ Local(s, T.legs, PrivateStart(T, s, slot, d, c, tmouts).legs)
<1>1. CASE d = Unlink
  BY <1>1, DisconnectDialReflectorsFollows, DisconnectDialReflectorsLocal
     DEF PrivateStart, Unlink, Status
<1>2. CASE d = Status
  BY <1>2, FollowsRefl, LocalSubset DEF PrivateStart, Unlink, Status
<1>3. CASE d # Unlink /\ d # Status
  <2>1. PrivateStart(T, s, slot, d, c, tmouts) = LinkReflector(T, s, slot, d, c, tmouts)
    BY <1>3 DEF PrivateStart
  <2> QED BY <1>3, <2>1, LinkReflectorFollows
<1> QED BY <1>1, <1>2, <1>3

LEMMA GroupStartFollows ==
  ASSUME NEW T, Good(T), Linked(T.legs), NEW s \in Masters, NEW slot, NEW g \in TGs \cup {Dial},
         NEW tmouts \in [Masters -> Nat]
  PROVE  /\ Follows(T.legs, GroupStart(T, s, slot, g, tmouts).legs)
         /\ Local(s, T.legs, GroupStart(T, s, slot, g, tmouts).legs)
<1> DEFINE t == tmouts[s]
<1>1. t \in Nat
  OBVIOUS
<1>2. GroupStart(T, s, slot, g, tmouts) =
        CASE g = Dial -> T
          [] g # Dial /\ Conf(g) \notin Names(T.legs) -> MakeSingleBridge(T, g, s, slot, t)
          [] OTHER -> ActivateUaBridgeSource(T, g, s, slot, t)
  BY DEF GroupStart
<1> HIDE DEF t
<1>3. CASE g = Dial
  BY <1>2, <1>3, FollowsRefl, LocalSubset
<1>4. CASE g # Dial
  BY <1>1, <1>2, <1>4, MakeSingleBridgeFollows, ActivateUaBridgeSourceFollows
<1> QED BY <1>3, <1>4

-----------------------------------------------------------------------------
(* Functions that rewrite every leg of a system, and the periodic loops.     *)

LEMMA RemoveBridgeSystemFollows ==
  ASSUME NEW T, Good(T), Linked(T.legs), NEW s
  PROVE  Follows(T.legs, RemoveBridgeSystem(T, s).legs)
<1> DEFINE Off(l) == [l EXCEPT !.active = FALSE, !.timer = l.timeout, !.owner = NoOwner]
           F == [l \in T.legs |-> IF l.sys = s THEN Off(l) ELSE l]
<1>1. ASSUME NEW l \in Legs PROVE Calm(l, Off(l))
  <2> DEFINE u == l.timeout
             m == [l EXCEPT !.active = FALSE, !.timer = u, !.owner = NoOwner]
  <2>1. u \in Int
    BY LegTypes
  <2> HIDE DEF u
  <2>2. m \in Legs /\ Key(m) = Key(l) /\ m.type = l.type /\ m.owner = NoOwner /\ ~m.active
    BY <2>1 DEF Legs, Key
  <2> HIDE DEF m
  <2>3. Calm(l, m)
    BY <2>2 DEF Calm, SameKey, OwnerOK, Link
  <2> QED BY <2>3 DEF m, u
<1>2. RemoveBridgeSystem(T, s) = Rebuild(WithLegs(T, {F[l] : l \in T.legs}))
  BY DEF RemoveBridgeSystem
<1> HIDE DEF Off
<1>3. \A l \in T.legs : Calm(l, F[l])
  BY <1>1, GoodLegs, CalmRefl
<1>4. F \in [T.legs -> Legs]
  BY <1>3 DEF Calm, SameKey
<1> HIDE DEF F
<1> QED BY <1>2, <1>3, <1>4, GoodLegs, FollowsInPlace

(* The legs a new DEFAULT_UA_TIMER adds are off, and go where s had none.     *)
LEMMA RetimeSystemFollows ==
  ASSUME NEW T, Good(T), Linked(T.legs), NEW s \in Masters, NEW tmout \in Nat
  PROVE  Follows(T.legs, RetimeSystem(T, s, tmout).legs)
<1> DEFINE R == RemoveBridgeSystem(T, s)
           Lacks(b, ts) == ~\E l \in LegsOf(R.legs, b) : l.sys = s /\ l.ts = ts
           slots == {bt \in Names(R.legs) \X Slots :
                       Lacks(bt[1], bt[2]) /\ (bt[1].ref => bt[2] = 2)}
           Leg(b, ts) == MasterLeg(b, s, ts, "ON", FALSE, tmout, 0)
           new == {Leg(bt[1], bt[2]) : bt \in slots}
<1>1. RetimeSystem(T, s, tmout) = Rebuild(WithLegs(R, R.legs \cup new))
  BY DEF RetimeSystem
<1>2. Good(R) /\ Follows(T.legs, R.legs)
  BY RemoveBridgeSystemGood, RemoveBridgeSystemFollows
<1> HIDE DEF R
<1>3. R.legs \in SUBSET Legs /\ R \in Tables
  BY <1>2, GoodLegs
<1>4. ASSUME NEW b \in BridgeNames, NEW ts \in Slots, b.ref => ts = 2
      PROVE  Fresh(Leg(b, ts)) /\ At(Leg(b, ts), b, s, ts)
  <2> DEFINE t == 0
  <2>1. t \in Int
    OBVIOUS
  <2> HIDE DEF t
  <2>2. LET l == MasterLeg(b, s, ts, "ON", FALSE, tmout, t)
        IN  Fresh(l) /\ At(l, b, s, ts)
    BY <1>4, <2>1, IdleFresh
  <2> QED BY <2>2 DEF t
<1> HIDE DEF Leg
<1>5. \A bt \in slots : /\ bt[1] \in BridgeNames /\ bt[2] \in Slots /\ (bt[1].ref => bt[2] = 2)
                        /\ ~\E l \in R.legs : At(l, bt[1], s, bt[2])
  BY <1>3 DEF Names, Legs, LegsOf, At
<1> HIDE DEF slots
<1>6. \A a \in new : /\ Fresh(a) /\ a = Leg(a.bridge, a.ts)
                     /\ ~\E l \in R.legs : At(l, a.bridge, a.sys, a.ts)
  BY <1>4, <1>5 DEF At
<1> HIDE DEF new
<1>7. Single(new)
  <2> SUFFICES ASSUME NEW l \in new, NEW m \in new, Key(l) = Key(m) PROVE l = m
    BY DEF Single
  <2> QED BY <1>6, KeyFields
<1>8. \A a \in new, l \in R.legs : Key(l) # Key(a)
  BY <1>6, KeyFields DEF At
<1>9. Follows(R.legs, R.legs \cup new)
  BY <1>2, <1>6, <1>7, <1>8, FollowsAdd DEF Follows
<1>10. R.legs \cup new \in SUBSET Legs
  BY <1>9 DEF Follows, Linked
<1> QED BY <1>1, <1>2, <1>3, <1>9, <1>10, LegsAfter, FollowsTrans

(* A bridge with a static talkgroup outlives the pass.                       *)
LEMMA RuleTimerLoopFollows ==
  ASSUME NEW T, Good(T), Linked(T.legs)
  PROVE  Follows(T.legs, RuleTimerLoop(T).legs)
<1> DEFINE unused == {b \in Names(T.legs) : \A l \in LegsOf(T.legs, b) : ~RuleKeeps(l)}
           kept == {l \in T.legs : l.bridge \notin unused}
           F == [l \in kept |-> RuleLeg(l)]
           L == {F[l] : l \in kept}
<1>1. RuleTimerLoop(T) = IdxRemove(WithLegs(T, L), unused)
  BY DEF RuleTimerLoop
<1>2. \A l \in T.legs : l.type = "OFF" => l \in kept
  BY DEF RuleKeeps, LegsOf
<1>3. kept \in SUBSET T.legs
  OBVIOUS
<1> HIDE DEF kept
<1>4. \A l \in kept : Calm(l, F[l])
  BY <1>3, GoodLegs, RuleLegCalm
<1>5. F \in [kept -> Legs]
  BY <1>4 DEF Calm, SameKey
<1>6. Linked(kept)
  BY <1>3, LinkedSubset
<1> HIDE DEF F
<1>7. Follows(kept, L)
  BY <1>4, <1>5, <1>6, FollowsMap
<1>8. StaticSpots(T.legs) \subseteq StaticSpots(kept)
  BY <1>2 DEF StaticSpots
<1> HIDE DEF L, unused
<1>9. RuleTimerLoop(T).legs = L
  <2>1. L \in SUBSET Legs /\ T \in Tables
    BY <1>7, GoodLegs DEF Follows, Linked
  <2> QED BY <1>1, <2>1, LegsAfter
<1> QED BY <1>7, <1>8, <1>9 DEF Follows

(* The trimmer takes legs away: none that carries a link, and of the static   *)
(* ones only those on a bridge with STAT legs.                               *)
LEMMA StatTrimmerLegs ==
  ASSUME NEW T, Good(T), Linked(T.legs)
  PROVE  /\ StatTrimmer(T).legs \in SUBSET T.legs
         /\ \A l \in T.legs : l.type = "ON" /\ l.active => l \in StatTrimmer(T).legs
         /\ \A l \in T.legs : l.type = "OFF" /\ ~HasStatLegs(T.legs, l.bridge)
                              => l \in StatTrimmer(T).legs
<1> DEFINE Idle(l) == HasStatLegs(T.legs, l.bridge) /\ StatLegIdle(l)
           pruned  == {l.bridge : l \in {l \in T.legs : Idle(l)}}
           kept    == {l \in T.legs : ~Idle(l)}
           idx     == {k \in T.idx : k.bridge \notin pruned}
                        \cup {Key(l) : l \in {l \in kept : l.bridge \in pruned}}
           P       == [legs |-> kept, idx |-> idx]
           removed == {b \in Names(kept) : StatShouldRemove(kept, b)}
           L       == {l \in P.legs : l.bridge \notin removed}
<1>1. StatTrimmer(T) = IdxRemove(WithLegs(P, L), removed)
  BY DEF StatTrimmer
<1>2. P.legs = kept
  OBVIOUS
<1>3. StatTrimmer(T).legs = L
  <2> HIDE DEF L, removed, kept, idx
  <2>1. WithLegs(P, L) = [legs |-> L, idx |-> idx]
    BY DEF WithLegs
  <2> QED BY <1>1, <2>1 DEF IdxRemove
<1>4. \A l \in T.legs : l.type = "ON" /\ l.active => l \in L
  <2> SUFFICES ASSUME NEW l \in T.legs, l.type = "ON", l.active PROVE l \in L
    OBVIOUS
  <2>1. l \in kept
    BY DEF StatLegIdle
  <2>2. StatInActiveUse(kept, l.bridge)
    BY <2>1 DEF StatInActiveUse, LegsOf
  <2> QED BY <1>2, <2>1, <2>2 DEF StatShouldRemove
<1>5. \A l \in T.legs : l.type = "OFF" /\ ~HasStatLegs(T.legs, l.bridge) => l \in L
  <2> SUFFICES ASSUME NEW l \in T.legs, l.type = "OFF", ~HasStatLegs(T.legs, l.bridge)
               PROVE  l \in L
    OBVIOUS
  <2>1. l \in kept
    BY DEF StatLegIdle
  <2>2. ~HasStatLegs(kept, l.bridge)
    BY DEF HasStatLegs, LegsOf
  <2> QED BY <1>2, <2>1, <2>2 DEF StatShouldRemove
<1> QED BY <1>2, <1>3, <1>4, <1>5

LEMMA AfterLookupLegs ==
  ASSUME NEW T, Good(T), NEW s, NEW ts, NEW g, NEW U \in AfterLookup(T, s, ts, g)
  PROVE  U.legs = T.legs
  BY GoodLegs, GoodRebuild DEF AfterLookup

LEMMA ObpTableFollows ==
  ASSUME Good(Table), Linked(BRIDGES), NEW o, NEW g \in TGs, g \in ObpTGs, NEW new
  PROVE  Follows(BRIDGES, ObpTable(o, g, new).legs)
<1> DEFINE T == IF GenStat /\ Conf(g) \notin Names(BRIDGES) THEN MakeStatBridge(Table, g) ELSE Table
<1>1. Table.legs = BRIDGES
  BY DEF Table
<1>2. Good(T) /\ Follows(BRIDGES, T.legs)
  BY <1>1, MakeStatBridgeGood, MakeStatBridgeFollows, FollowsRefl
<1>3. ObpTable(o, g, new) = IF new /\ Conf(g) \in Names(T.legs) THEN TouchStat(T, g) ELSE T
  BY DEF ObpTable
<1> HIDE DEF T
<1>4. Follows(T.legs, TouchStat(T, g).legs)
  BY <1>2, TouchStatFollows DEF Follows
<1> QED BY <1>2, <1>3, <1>4, FollowsTrans

-----------------------------------------------------------------------------
(* Options and start-up.                                                     *)

(* Options in force: the static talkgroups they name have their legs.        *)
Kept(L, s, o) ==
    /\ o.ts1 # None => StaticSpot(s, 1, o.ts1) \in StaticSpots(L)
    /\ o.ts2 # None => StaticSpot(s, 2, o.ts2) \in StaticSpots(L)

LEMMA SpotNotElsewhere ==
  ASSUME NEW L, NEW s, NEW ts, NEW k \in StaticSpots(L), ~(k.sys = s /\ k.ts = ts)
  PROVE  k \in Elsewhere(L, s, ts)
  BY DEF Elsewhere

LEMMA StaticSpotFields ==
  ASSUME NEW s, NEW ts, NEW n
  PROVE  StaticSpot(s, ts, n).sys = s /\ StaticSpot(s, ts, n).ts = ts
  BY DEF StaticSpot

LEMMA KeptFollows ==
  ASSUME NEW L, NEW M, StaticSpots(L) \subseteq StaticSpots(M), NEW s, NEW o, Kept(L, s, o)
  PROVE  Kept(M, s, o)
  BY DEF Kept

(* The static talkgroup of one slot is exchanged, and the others stay.       *)
LEMMA RestaticKeeps ==
  ASSUME NEW T, Good(T), Linked(T.legs), NEW ts \in Slots, NEW old, NEW new, NEW tmout \in Nat,
         NEW s \in Masters, old # None => old \in TGs, new # None => new \in TGs
  PROVE  /\ Linked(Restatic(T, ts, old, new, tmout, s).legs)
         /\ Elsewhere(T.legs, s, ts) \subseteq StaticSpots(Restatic(T, ts, old, new, tmout, s).legs)
         /\ (old # None => StaticSpot(s, ts, old) \in StaticSpots(T.legs)) /\ new # None
            => StaticSpot(s, ts, new) \in StaticSpots(Restatic(T, ts, old, new, tmout, s).legs)
<1> DEFINE R == IF old = None THEN T ELSE ResetStaticTG(T, old, ts, tmout, s)
<1>1. Good(R)
  BY ResetStaticTGGood
<1>2. Elsewhere(T.legs, s, ts) \subseteq StaticSpots(T.legs)
  BY DEF Elsewhere
<1>3. Linked(R.legs) /\ Elsewhere(T.legs, s, ts) \subseteq StaticSpots(R.legs)
  BY <1>2, ResetStaticTGLinked
<1>4. Restatic(T, ts, old, new, tmout, s) =
        CASE old = new -> T
          [] old # new /\ new = None -> R
          [] OTHER -> MakeStaticTG(R, new, ts, tmout, s)
  BY DEF Restatic
<1> HIDE DEF R
<1>5. CASE old = new
  BY <1>2, <1>4, <1>5
<1>6. CASE old # new /\ new = None
  BY <1>3, <1>4, <1>6
<1>7. CASE old # new /\ new # None
  <2>1. /\ Follows(R.legs, MakeStaticTG(R, new, ts, tmout, s).legs)
        /\ StaticSpot(s, ts, new) \in StaticSpots(MakeStaticTG(R, new, ts, tmout, s).legs)
    BY <1>1, <1>3, <1>7, MakeStaticTGFollows
  <2>2. Restatic(T, ts, old, new, tmout, s) = MakeStaticTG(R, new, ts, tmout, s)
    BY <1>4, <1>7
  <2> QED BY <1>3, <2>1, <2>2 DEF Follows
<1> QED BY <1>5, <1>6, <1>7

LEMMA RedialFollows ==
  ASSUME NEW T, Good(T), Linked(T.legs), NEW old, NEW new, NEW tmout \in Nat, NEW s \in Masters,
         old # None => old \in TGs, new # None => new \in TGs, CONFIG \in [Masters -> Options]
  PROVE  Follows(T.legs, Redial(T, old, new, tmout, s).legs)
<1> DEFINE R == IF old = None THEN T ELSE ResetDefaultReflector(T, old, tmout, s, UATimers)
<1>1. UATimers \in [Masters -> Nat]
  BY TimersType
<1>2. Good(R) /\ Follows(T.legs, R.legs)
  BY <1>1, ResetDefaultReflectorGood, ResetDefaultReflectorFollows, FollowsRefl
<1>3. Redial(T, old, new, tmout, s) =
        CASE old = new -> T
          [] old # new /\ new = None -> R
          [] OTHER -> MakeDefaultReflector(R, new, tmout, s, UATimers)
  BY DEF Redial
<1> HIDE DEF R
<1>4. new # None => Follows(R.legs, MakeDefaultReflector(R, new, tmout, s, UATimers).legs)
  BY <1>1, <1>2, MakeDefaultReflectorFollows DEF Follows
<1> QED BY <1>2, <1>3, <1>4, FollowsRefl, FollowsTrans

(* New options: the static talkgroups they name stand, and those of the other *)
(* masters still do.                                                         *)
LEMMA AppliedKeeps ==
  ASSUME NEW T, Good(T), Linked(T.legs), NEW s \in Masters, NEW o \in Options,
         CONFIG \in [Masters -> Options]
  PROVE  /\ Linked(Applied(T, s, o).legs)
         /\ \A k \in StaticSpots(T.legs) : k.sys # s => k \in StaticSpots(Applied(T, s, o).legs)
         /\ Kept(T.legs, s, CONFIG[s]) => Kept(Applied(T, s, o).legs, s, o)
<1> DEFINE cur == CONFIG[s]
           t == o.timer
           R == IF t = cur.timer THEN T ELSE RetimeSystem(T, s, t)
           D == Redial(R, cur.dial, o.dial, t, s)
           one == 1
           two == 2
           S == Restatic(D, one, cur.ts1, o.ts1, t, s)
           A == Restatic(S, two, cur.ts2, o.ts2, t, s)
<1>1. Applied(T, s, o) = A
  BY DEF Applied
<1>2. /\ cur.ts1 # None => cur.ts1 \in TGs
      /\ cur.ts2 # None => cur.ts2 \in TGs
      /\ cur.dial # None => cur.dial \in TGs
  <2>1. cur \in Options
    OBVIOUS
  <2> HIDE DEF cur
  <2> QED BY <2>1, OptionTypes
<1>3. /\ t \in Nat /\ one \in Slots /\ two \in Slots /\ one # two
      /\ o.ts1 # None => o.ts1 \in TGs
      /\ o.ts2 # None => o.ts2 \in TGs
      /\ o.dial # None => o.dial \in TGs
  BY OptionTypes DEF Slots
<1>4. \A L, u : Kept(L, s, u) <=> /\ u.ts1 # None => StaticSpot(s, one, u.ts1) \in StaticSpots(L)
                                  /\ u.ts2 # None => StaticSpot(s, two, u.ts2) \in StaticSpots(L)
  BY DEF Kept
<1> HIDE DEF cur, t, one, two
<1>5. Good(R) /\ Follows(T.legs, R.legs)
  BY <1>3, RetimeSystemGood, RetimeSystemFollows, FollowsRefl
<1> HIDE DEF R
<1>6. Good(D) /\ Follows(R.legs, D.legs)
  BY <1>2, <1>3, <1>5, RedialGood, RedialFollows DEF Follows
<1> HIDE DEF D
<1>7. Follows(T.legs, D.legs) /\ Linked(D.legs)
  BY <1>5, <1>6, FollowsTrans DEF Follows
<1>8. /\ Good(S) /\ Linked(S.legs)
      /\ Elsewhere(D.legs, s, one) \subseteq StaticSpots(S.legs)
      /\ (cur.ts1 # None => StaticSpot(s, one, cur.ts1) \in StaticSpots(D.legs)) /\ o.ts1 # None
         => StaticSpot(s, one, o.ts1) \in StaticSpots(S.legs)
  BY <1>2, <1>3, <1>6, <1>7, RestaticGood, RestaticKeeps
<1> HIDE DEF S
<1>9. /\ Linked(A.legs)
      /\ Elsewhere(S.legs, s, two) \subseteq StaticSpots(A.legs)
      /\ (cur.ts2 # None => StaticSpot(s, two, cur.ts2) \in StaticSpots(S.legs)) /\ o.ts2 # None
         => StaticSpot(s, two, o.ts2) \in StaticSpots(A.legs)
  BY <1>2, <1>3, <1>8, RestaticKeeps
<1> HIDE DEF A
<1>10. ASSUME NEW k \in StaticSpots(T.legs), k.sys # s
       PROVE  k \in StaticSpots(A.legs)
  <2>1. k \in Elsewhere(D.legs, s, one)
    BY <1>7, <1>10, SpotNotElsewhere DEF Follows
  <2>2. k \in Elsewhere(S.legs, s, two)
    BY <1>8, <1>10, <2>1, SpotNotElsewhere
  <2> QED BY <1>9, <2>2
<1>11. ASSUME Kept(T.legs, s, cur)
       PROVE  Kept(A.legs, s, o)
  <2>1. cur.ts1 # None => StaticSpot(s, one, cur.ts1) \in StaticSpots(D.legs)
    BY <1>4, <1>7, <1>11 DEF Follows
  <2>2. o.ts1 # None => StaticSpot(s, one, o.ts1) \in StaticSpots(A.legs)
    <3>1. o.ts1 # None => StaticSpot(s, one, o.ts1) \in StaticSpots(S.legs)
      BY <1>8, <2>1
    <3> QED BY <1>3, <1>9, <3>1, SpotNotElsewhere, StaticSpotFields
  <2>3. cur.ts2 # None => StaticSpot(s, two, cur.ts2) \in StaticSpots(S.legs)
    <3>1. cur.ts2 # None => StaticSpot(s, two, cur.ts2) \in StaticSpots(D.legs)
      BY <1>4, <1>7, <1>11 DEF Follows
    <3> QED BY <1>3, <1>8, <3>1, SpotNotElsewhere, StaticSpotFields
  <2>4. o.ts2 # None => StaticSpot(s, two, o.ts2) \in StaticSpots(A.legs)
    BY <1>9, <2>3
  <2> QED BY <1>4, <2>2, <2>4
<1> QED BY <1>1, <1>9, <1>10, <1>11 DEF cur

LEMMA BootTableKeeps ==
  ASSUME NEW T, Good(T), Linked(T.legs), NEW m \in Masters, CONFIG \in [Masters -> Options]
  PROVE  Follows(T.legs, BootTable(T, m).legs) /\ Kept(BootTable(T, m).legs, m, CONFIG[m])
<1> DEFINE o == CONFIG[m]
           t == o.timer
           one == 1
           two == 2
           D == IF o.dial = None THEN T ELSE MakeDefaultReflector(T, o.dial, t, m, UATimers)
           S == IF o.ts1 = None THEN D ELSE MakeStaticTG(D, o.ts1, one, t, m)
           B == IF o.ts2 = None THEN S ELSE MakeStaticTG(S, o.ts2, two, t, m)
<1>1. BootTable(T, m) = B
  BY DEF BootTable
<1>2. /\ t \in Nat /\ one \in Slots /\ two \in Slots
      /\ o.ts1 # None => o.ts1 \in TGs
      /\ o.ts2 # None => o.ts2 \in TGs
      /\ o.dial # None => o.dial \in TGs
  <2>1. o \in Options
    OBVIOUS
  <2> HIDE DEF o
  <2> QED BY <2>1, OptionTypes DEF Slots
<1>3. \A L : Kept(L, m, o) <=> /\ o.ts1 # None => StaticSpot(m, one, o.ts1) \in StaticSpots(L)
                               /\ o.ts2 # None => StaticSpot(m, two, o.ts2) \in StaticSpots(L)
  BY DEF Kept
<1> HIDE DEF o, t, one, two
<1>4. Good(D) /\ Follows(T.legs, D.legs)
  BY <1>2, TimersType, MakeDefaultReflectorGood, MakeDefaultReflectorFollows, FollowsRefl
<1> HIDE DEF D
<1>5. /\ Good(S) /\ Follows(D.legs, S.legs)
      /\ o.ts1 # None => StaticSpot(m, one, o.ts1) \in StaticSpots(S.legs)
  <2>1. Linked(D.legs)
    BY <1>4 DEF Follows
  <2> QED BY <1>2, <1>4, <2>1, MakeStaticTGGood, MakeStaticTGFollows, FollowsRefl
<1> HIDE DEF S
<1>6. /\ Follows(S.legs, B.legs)
      /\ o.ts2 # None => StaticSpot(m, two, o.ts2) \in StaticSpots(B.legs)
  <2>1. Linked(S.legs)
    BY <1>5 DEF Follows
  <2> QED BY <1>2, <1>5, <2>1, MakeStaticTGFollows, FollowsRefl
<1> HIDE DEF B
<1>7. Follows(T.legs, B.legs)
  BY <1>4, <1>5, <1>6, FollowsTrans
<1>8. Kept(B.legs, m, o)
  BY <1>3, <1>5, <1>6 DEF Follows
<1> QED BY <1>1, <1>7, <1>8 DEF o

-----------------------------------------------------------------------------
(* The invariant.                                                            *)

LinkInv == Inv /\ Linked(BRIDGES)

LEMMA TableLegs == Table.legs = BRIDGES /\ \A T : Becomes(T) => BRIDGES' = T.legs
  BY DEF Table, Becomes

LEMMA KeyupFollows ==
  ASSUME LinkInv, NEW s \in Masters, Keyup(s)
  PROVE  Follows(BRIDGES, BRIDGES')
<1> USE TrafficAssumption DEF LinkInv, Inv
<1>1. UATimers \in [Masters -> Nat]
  BY TimersType
<1>2. ASSUME NEW ts \in GroupSlots, NEW g \in GroupTGs, NEW c \in Callers,
             GroupCallStart(s, ts, g, c)
      PROVE  Follows(BRIDGES, BRIDGES')
  <2> DEFINE G == GroupStart(Table, s, ts, g, UATimers)
  <2>1. Good(G) /\ Follows(BRIDGES, G.legs)
    BY <1>1, TableLegs, GroupStartGood, GroupStartFollows
  <2>2. PICK T \in AfterLookup(G, s, ts, g) : Becomes(T)
    BY <1>2 DEF GroupCallStart
  <2> HIDE DEF G
  <2> QED BY <2>1, <2>2, AfterLookupLegs, TableLegs
<1>3. ASSUME NEW ts \in GroupSlots, GroupCallEnd(s, ts)
      PROVE  Follows(BRIDGES, BRIDGES')
  <2> DEFINE x == call[s][ts]
  <2>1. x.caller \in Callers
    BY <1>3 DEF GroupCallEnd, NoCall, Streams
  <2> HIDE DEF x
  <2>2. PICK T \in AfterLookup(Table, s, ts, x.dst) : Becomes(GroupEnd(T, s, ts, x.dst, x.caller))
    BY <1>3 DEF GroupCallEnd, x
  <2>3. Good(T) /\ T.legs = BRIDGES
    BY <2>2, AfterLookupGood, AfterLookupLegs, TableLegs
  <2>4. Follows(T.legs, GroupEnd(T, s, ts, x.dst, x.caller).legs)
    BY <2>1, <2>3, GroupEndFollows
  <2> QED BY <2>2, <2>3, <2>4, TableLegs
<1>4. ASSUME NEW ts \in PrivateSlots, NEW d \in PrivateDsts, NEW c \in Callers,
             PrivateCallStart(s, ts, d, c)
      PROVE  Follows(BRIDGES, BRIDGES')
  <2>1. Follows(BRIDGES, PrivateStart(Table, s, ts, d, c, UATimers).legs)
    BY <1>1, TableLegs, PrivateStartFollows
  <2> QED BY <1>4, <2>1, TableLegs DEF PrivateCallStart
<1>5. ASSUME NEW ts \in PrivateSlots, PrivateCallEnd(s, ts)
      PROVE  Follows(BRIDGES, BRIDGES')
  <2> DEFINE x == call[s][ts]
  <2>1. x.caller \in Callers
    BY <1>5 DEF PrivateCallEnd, NoCall, Streams
  <2> HIDE DEF x
  <2>2. Becomes(ExtendDialTimers(Table, s, ts, x.dst, x.caller, FALSE))
    BY <1>5 DEF PrivateCallEnd, x
  <2>3. Follows(BRIDGES, ExtendDialTimers(Table, s, ts, x.dst, x.caller, FALSE).legs)
    BY <2>1, TableLegs, ExtendDialTimersFollows
  <2> QED BY <2>2, <2>3, TableLegs
<1> QED BY <1>2, <1>3, <1>4, <1>5 DEF Keyup

LEMMA TrafficFollows ==
  ASSUME LinkInv, Traffic \/ Sessions \/ (\E s \in Masters : ResetSlot(s)) \/ RuleTimer \/ Tick
  PROVE  Follows(BRIDGES, BRIDGES')
<1> USE TrafficAssumption DEF LinkInv, Inv
<1>1. ASSUME NEW s \in Masters, Keyup(s) PROVE Follows(BRIDGES, BRIDGES')
  BY <1>1, KeyupFollows
<1>2. ASSUME NEW o \in OBPs, NEW g \in ObpTGs, NEW new \in BOOLEAN, ObpPacket(o, g, new)
      PROVE  Follows(BRIDGES, BRIDGES')
  <2>1. Good(ObpTable(o, g, new)) /\ Follows(BRIDGES, ObpTable(o, g, new).legs)
    BY ObpTableGood, ObpTableFollows
  <2>2. PICK T \in AfterLookup(ObpTable(o, g, new), o, 1, g) : Becomes(T)
    BY <1>2 DEF ObpPacket
  <2> QED BY <2>1, <2>2, AfterLookupLegs, TableLegs
<1>3. ASSUME NEW s \in Masters, SessionChange(s) PROVE Follows(BRIDGES, BRIDGES')
  BY <1>3, TableLegs, ClearSessionFollows DEF SessionChange
<1>4. ASSUME NEW s \in Masters, SelfcareDISC(s) PROVE Follows(BRIDGES, BRIDGES')
  BY <1>4, TableLegs, SelfcareDisconnectFollows DEF SelfcareDISC
<1>5. ASSUME NEW s \in Masters, ResetSlot(s) PROVE Follows(BRIDGES, BRIDGES')
  BY <1>5, TableLegs, RemoveBridgeSystemFollows DEF ResetSlot
<1>6. CASE RuleTimer
  BY <1>6, TableLegs, RuleTimerLoopFollows DEF RuleTimer
<1>7. CASE Tick
  BY <1>7, TableLegs, AgeFollows DEF Tick
<1> QED BY <1>1, <1>2, <1>3, <1>4, <1>5, <1>6, <1>7 DEF Traffic, Sessions

LEMMA StatTrimLegs ==
  ASSUME LinkInv, StatTrim
  PROVE  /\ BRIDGES' \in SUBSET BRIDGES
         /\ \A l \in BRIDGES : l.type = "ON" /\ l.active => l \in BRIDGES'
         /\ \A l \in BRIDGES : l.type = "OFF" /\ ~HasStatLegs(BRIDGES, l.bridge)
                               => l \in BRIDGES'
<1> DEFINE T == Table
           N == StatTrimmer(T).legs
<1>1. Good(T) /\ Linked(T.legs) /\ T.legs = BRIDGES /\ N = BRIDGES'
  BY TableLegs DEF LinkInv, Inv, StatTrim
<1> HIDE DEF T
<1>2. /\ N \in SUBSET T.legs
      /\ \A l \in T.legs : l.type = "ON" /\ l.active => l \in N
      /\ \A l \in T.legs : l.type = "OFF" /\ ~HasStatLegs(T.legs, l.bridge) => l \in N
  BY <1>1, StatTrimmerLegs
<1> HIDE DEF N
<1> QED BY <1>1, <1>2

LEMMA StepLinked ==
  ASSUME LinkInv, [Next]_vars
  PROVE  LinkInv'
<1> USE DEF LinkInv, Inv
<1>1. Inv'
  BY StepInv
<1>2. ASSUME NEW m \in Masters, Boot(m) PROVE Linked(BRIDGES)'
  BY <1>2, TableLegs, BootTableKeeps DEF Boot, Follows
<1>3. CASE Traffic \/ Sessions \/ (\E s \in Masters : ResetSlot(s)) \/ RuleTimer \/ Tick
  BY <1>1, <1>3, TrafficFollows DEF Follows
<1>4. ASSUME NEW s \in Masters, NEW o \in OptionSets, Reconfigure(s, o) PROVE Linked(BRIDGES)'
  BY <1>4, TrafficAssumption, TableLegs, AppliedKeeps DEF Reconfigure
<1>5. CASE StatTrim
  BY <1>1, <1>5, StatTrimLegs, LinkedSubset
<1>6. CASE UNCHANGED vars
  BY <1>1, <1>6 DEF vars
<1>7. Linked(BRIDGES)'
  BY <1>2, <1>3, <1>4, <1>5, <1>6 DEF Next, Reoptions, Housekeeping
<1> QED BY <1>1, <1>7

LEMMA InitLinked == Init => LinkInv
  BY InitInv DEF Init, LinkInv, Linked, Single, OneLink

LEMMA LinkInvariance == Spec => []LinkInv
<1>1. LinkInv /\ [Next]_vars => LinkInv'
  BY StepLinked
<1> QED BY <1>1, InitLinked, PTL DEF Spec

-----------------------------------------------------------------------------
(* The results: links.                                                       *)

(* A user-activated reflector leg that is off has no owner left over: every    *)
(* function of the source that switches such a leg off clears LINKER too, or  *)
(* works on legs of another kind.                                            *)
THEOREM OwnersLeave == Spec => []OwnerOnlyWhileLinked
<1>1. LinkInv => OwnerOnlyWhileLinked
  BY DEF LinkInv, Linked, OwnerOK, OwnerOnlyWhileLinked
<1> QED BY <1>1, LinkInvariance, PTL

(* While reflectors are dialled on slot 2, where their legs are, a master has  *)
(* at most one user-activated reflector.  The run two_links shows that the     *)
(* condition is needed.                                                      *)
THEOREM LinksAlone ==
  ASSUME PrivateSlots \subseteq {2}
  PROVE  Spec => []OneDynamicReflector
<1>1. LinkInv => OneDynamicReflector
  BY DEF LinkInv, Linked, OneLink, Link, OneDynamicReflector, ActiveLinks
<1> QED BY <1>1, LinkInvariance, PTL

(* The STAT trimmer takes no leg that carries a link, nor its bridge.        *)
THEOREM TrimSpares == Spec => TrimSparesActiveLinks
<1>1. ASSUME LinkInv, StatTrim
      PROVE  \A l \in BRIDGES : l.type = "ON" /\ l.active => l \in BRIDGES'
  BY <1>1, StatTrimLegs
<1>2. LinkInv /\ [Next]_vars
        => [StatTrim => \A l \in BRIDGES : l.type = "ON" /\ l.active => l \in BRIDGES']_vars
  BY <1>1
<1> QED BY <1>2, LinkInvariance, PTL DEF Spec, TrimSparesActiveLinks

-----------------------------------------------------------------------------
(* The results: static talkgroups.                                           *)

(* Options a master may have.                                                *)
Given == OptionSets \cup {Configured[m] : m \in Masters}

(* No static talkgroup is one that OpenBridge traffic makes a STAT bridge for. *)
StaticsApart ==
    GenStat => \A o \in Given : o.ts1 \notin ObpTGs /\ o.ts2 \notin ObpTGs

StaticInv ==
    /\ LinkInv
    /\ \A m \in Masters : CONFIG[m] \in Given
    /\ \A m \in Masters \ booting : Kept(BRIDGES, m, CONFIG[m])

LEMMA StatTrimKeeps ==
  ASSUME StaticsApart, StaticInv, StatTrim, NEW m \in Masters, Kept(BRIDGES, m, CONFIG[m])
  PROVE  Kept(BRIDGES', m, CONFIG[m])
<1> USE DEF StaticInv, LinkInv, Inv
<1>1. \A l \in BRIDGES : l.type = "OFF" /\ ~HasStatLegs(BRIDGES, l.bridge) => l \in BRIDGES'
  BY StatTrimLegs
<1>2. CONFIG[m].ts1 \notin ObpTGs /\ CONFIG[m].ts2 \notin ObpTGs
  BY DEF StatTrim, StaticsApart
<1>3. ASSUME NEW ts, NEW n, n \notin ObpTGs, StaticSpot(m, ts, n) \in StaticSpots(BRIDGES)
      PROVE  StaticSpot(m, ts, n) \in StaticSpots(BRIDGES')
  <2>1. PICK l \in BRIDGES : l.type = "OFF" /\ ~l.bridge.ref /\ Spot(l) = StaticSpot(m, ts, n)
    BY <1>3 DEF StaticSpots
  <2>2. l.bridge = Conf(n)
    BY <2>1 DEF Spot, StaticSpot
  <2>3. ~HasStatLegs(BRIDGES, l.bridge)
    BY <1>3, <2>2, ConfIsNoRef DEF HasStatLegs, LegsOf, Linked, Shaped
  <2> QED BY <1>1, <2>1, <2>3 DEF StaticSpots
<1> QED BY <1>2, <1>3 DEF Kept

LEMMA StepConfig ==
  ASSUME Inv, \A m \in Masters : CONFIG[m] \in Given, [Next]_vars
  PROVE  \A m \in Masters : CONFIG'[m] \in Given
<1>1. CASE UNCHANGED CONFIG
  BY <1>1
<1>2. ASSUME NEW s \in Masters, NEW o \in OptionSets, Reconfigure(s, o)
      PROVE  \A m \in Masters : CONFIG'[m] \in Given
  BY <1>2 DEF Reconfigure, Inv, Given
<1> QED
  BY <1>1, <1>2 DEF Next, Boot, Traffic, Keyup, GroupCallStart, GroupCallEnd, PrivateCallStart,
     PrivateCallEnd, ObpPacket, Sessions, SessionChange, SelfcareDISC, Reoptions, ResetSlot,
     Housekeeping, RuleTimer, StatTrim, Tick, vars

LEMMA StepKept ==
  ASSUME StaticsApart, StaticInv, Next, NEW k \in Masters, k \notin booting'
  PROVE  Kept(BRIDGES', k, CONFIG'[k])
<1> DEFINE Goal == Kept(BRIDGES', k, CONFIG'[k])
<1>1. /\ LinkInv /\ Good(Table) /\ Linked(BRIDGES) /\ Table.legs = BRIDGES
      /\ CONFIG \in [Masters -> Options] /\ booting \subseteq Masters
  BY TableLegs DEF StaticInv, LinkInv, Inv
<1>2. k \notin booting => Kept(BRIDGES, k, CONFIG[k])
  BY DEF StaticInv
<1>3. ASSUME NEW m \in Masters, Boot(m)
      PROVE  Goal
  <2>1. Follows(BRIDGES, BRIDGES') /\ Kept(BRIDGES', m, CONFIG[m])
    BY <1>1, <1>3, TableLegs, BootTableKeeps DEF Boot
  <2>2. CONFIG' = CONFIG /\ (k \notin booting \/ k = m)
    BY <1>3 DEF Boot
  <2> QED BY <1>2, <2>1, <2>2, KeptFollows DEF Follows
<1>4. ASSUME Traffic \/ Sessions \/ (\E s \in Masters : ResetSlot(s)) \/ RuleTimer \/ Tick
      PROVE  Goal
  <2>1. Follows(BRIDGES, BRIDGES')
    BY <1>1, <1>4, TrafficFollows
  <2>2. CONFIG' = CONFIG /\ booting' = booting
    BY <1>4 DEF Traffic, Keyup, GroupCallStart, GroupCallEnd, PrivateCallStart,
       PrivateCallEnd, ObpPacket, Sessions, SessionChange, SelfcareDISC, ResetSlot, RuleTimer, Tick
  <2> QED BY <1>2, <2>1, <2>2, KeptFollows DEF Follows
<1>5. ASSUME NEW s \in Masters, NEW o \in OptionSets, Reconfigure(s, o)
      PROVE  Goal
  <2> DEFINE A == Applied(Table, s, o)
  <2>1. o \in Options
    BY TrafficAssumption
  <2>2. /\ \A n \in StaticSpots(BRIDGES) : n.sys # s => n \in StaticSpots(A.legs)
        /\ Kept(BRIDGES, s, CONFIG[s]) => Kept(A.legs, s, o)
    BY <1>1, <2>1, AppliedKeeps
  <2>3. BRIDGES' = A.legs /\ CONFIG' = [CONFIG EXCEPT ![s] = o] /\ booting = {}
    BY <1>5, TableLegs DEF Reconfigure, Running
  <2> HIDE DEF A
  <2>4. CASE k = s
    <3>1. CONFIG'[k] = o
      BY <1>1, <2>3, <2>4
    <3> QED BY <1>2, <2>2, <2>3, <2>4, <3>1
  <2>5. CASE k # s
    <3>1. CONFIG'[k] = CONFIG[k]
      BY <1>1, <2>3, <2>5
    <3>2. \A ts, n : StaticSpot(k, ts, n) \in StaticSpots(BRIDGES)
                     => StaticSpot(k, ts, n) \in StaticSpots(BRIDGES')
      BY <2>2, <2>3, <2>5, StaticSpotFields
    <3>3. Kept(BRIDGES, k, CONFIG[k])
      BY <1>2, <2>3
    <3> QED BY <3>1, <3>2, <3>3 DEF Kept
  <2> QED BY <2>4, <2>5
<1>6. ASSUME StatTrim
      PROVE  Goal
  <2>1. CONFIG' = CONFIG /\ booting' = booting
    BY <1>6 DEF StatTrim
  <2> QED BY <1>2, <1>6, <2>1, StatTrimKeeps
<1> QED BY <1>3, <1>4, <1>5, <1>6 DEF Next, Reoptions, Housekeeping

LEMMA StepStatic ==
  ASSUME StaticsApart, StaticInv, [Next]_vars
  PROVE  StaticInv'
<1>1. LinkInv'
  BY StepLinked DEF StaticInv
<1>2. \A m \in Masters : CONFIG'[m] \in Given
  BY StepConfig DEF StaticInv, LinkInv
<1>3. ASSUME NEW m \in Masters \ booting' PROVE Kept(BRIDGES', m, CONFIG'[m])
  <2>1. CASE Next
    BY <2>1, StepKept
  <2>2. CASE UNCHANGED vars
    BY <2>2 DEF vars, StaticInv
  <2> QED BY <2>1, <2>2
<1> QED BY <1>1, <1>2, <1>3 DEF StaticInv

LEMMA StaticMeaning ==
  ASSUME StaticInv
  PROVE  StaticLegKept
<1>1. ASSUME NEW s, NEW ts, NEW n, StaticSpot(s, ts, n) \in StaticSpots(BRIDGES)
      PROVE  HasStatic(s, ts, n)
  BY <1>1 DEF StaticSpots, Spot, StaticSpot, HasStatic
<1> QED BY <1>1 DEF StaticInv, Kept, StaticLegKept

(* A master keeps the TO_TYPE OFF leg of every static talkgroup its options    *)
(* name, from start-up on, whatever calls, logins, timeouts and other options *)
(* do, if no STAT bridge is made for that talkgroup.  The run trim_static     *)
(* shows that the condition is needed.                                       *)
THEOREM StaticsStay ==
  ASSUME StaticsApart
  PROVE  Spec => []StaticLegKept
<1>1. Init => StaticInv
  BY InitLinked DEF Init, StaticInv, Given
<1>2. StaticInv /\ [Next]_vars => StaticInv'
  BY StepStatic
<1>3. StaticInv => StaticLegKept
  BY StaticMeaning
<1> QED BY <1>1, <1>2, <1>3, PTL DEF Spec

-----------------------------------------------------------------------------
(* The results: what the terminator of a group call does.                    *)

OwnedByOther(l, c) == l.bridge.ref /\ l.owner # NoOwner /\ l.owner # c

(* From l to m when caller c keys on master s: legs of other masters and links *)
(* of other subscribers stay as they are.                                    *)
Spared(l, m, s, c) ==
    /\ SameKey(l, m) /\ m.type = l.type
    /\ l.sys # s \/ OwnedByOther(l, c) => m = l

LEMMA ExtendDialTimersLegs ==
  ASSUME NEW T, Good(T), NEW s, NEW slot, NEW g, NEW c \in Callers, NEW group
  PROVE  LET N == ExtendDialTimers(T, s, slot, g, c, group).legs
         IN  /\ \A m \in N : \E l \in T.legs : Spared(l, m, s, c)
             /\ \A l \in T.legs : l.sys # s => l \in N
<1> DEFINE Counts(b) == b.ref /\ g # Unlink
                        /\ (g = b.tg \/ (group /\ g = Dial) \/ (~group /\ g = Status))
           Mine(l)   == Counts(l.bridge) /\ l.sys = s /\ l.ts = slot /\ l.active
                        /\ l.type = "ON" /\ l.timeout # 0
           Extended(l) == LET o == Claimed(l, c)
                          IN  IF MayExtend(o, c) THEN [o EXCEPT !.timer = l.timeout] ELSE o
           F == [l \in T.legs |-> IF Mine(l) THEN Extended(l) ELSE l]
           N == {F[l] : l \in T.legs}
<1>1. ASSUME NEW l \in Legs, l.active PROVE Calm(l, Extended(l))
  <2> DEFINE o == Claimed(l, c)
             u == l.timeout
  <2>1. u \in Int /\ Calm(l, o)
    BY <1>1, LegTypes, ClaimedCalm
  <2>2. Extended(l) = IF MayExtend(o, c) THEN [o EXCEPT !.timer = u] ELSE o
    OBVIOUS
  <2> HIDE DEF o, u
  <2>3. Calm(o, [o EXCEPT !.timer = u])
    BY <2>1, TimerCalm DEF Calm, SameKey
  <2> QED BY <2>1, <2>2, <2>3, CalmTrans
<1>2. \A l \in T.legs : OwnedByOther(l, c) => Extended(l) = l
  BY DEF OwnedByOther, Claimed, MayExtend
<1>3. ExtendDialTimers(T, s, slot, g, c, group) = WithLegs(T, N)
  BY DEF ExtendDialTimers
<1>4. \A l \in T.legs : Mine(l) => l.sys = s /\ l.active
  OBVIOUS
<1> HIDE DEF Extended, Mine
<1>5. \A l \in T.legs : Spared(l, F[l], s, c)
  BY <1>1, <1>2, <1>4, GoodLegs, CalmRefl DEF Calm, Spared
<1> HIDE DEF F
<1>6. N \in SUBSET Legs
  BY <1>5 DEF Spared, SameKey
<1>7. WithLegs(T, N).legs = N
  BY <1>6, GoodLegs, TablesWithLegs
<1>8. /\ \A m \in N : \E l \in T.legs : Spared(l, m, s, c)
      /\ \A l \in T.legs : l.sys # s => l \in N
  BY <1>5 DEF Spared
<1> HIDE DEF N
<1> QED BY <1>3, <1>7, <1>8

(* A link somebody else owns: neither its timer nor single mode touches it.    *)
LEMMA GroupLegSpares ==
  ASSUME NEW l \in Legs, NEW s \in Masters, NEW slot, NEW g, NEW c, Shaped(l), l.sys = s,
         OwnedByOther(l, c), g \in {Dial, l.bridge.tg}
  PROVE  GroupLeg(l, s, slot, g, c) = l
<1>1. Restarted(l, g, slot, c) = l
  BY DEF Restarted, MayExtend, OwnedByOther
<1>2. l.bridge.tg # Dial
  BY TGAssumption DEF Legs, BridgeNames, ServiceCode
<1>3. ~WrongTG(l, g)
  BY <1>2 DEF WrongTG, Shaped, OwnedByOther
<1>4. l.bridge.ref
  BY DEF OwnedByOther
<1> QED BY <1>1, <1>3, <1>4 DEF GroupLeg

(* In single mode a leg of another talkgroup is off afterwards.              *)
LEMMA GroupLegAlone ==
  ASSUME NEW l \in Legs, NEW s \in SingleMode, NEW slot, NEW g, NEW c, Shaped(l), l.sys = s,
         ~l.bridge.ref, slot = l.ts, GroupLeg(l, s, slot, g, c).active
  PROVE  l.bridge = Conf(g)
<1> DEFINE B == Restarted(l, g, slot, c)
           Called == ~l.bridge.ref /\ g = l.tg /\ slot = l.ts
           A == CASE Called /\ ~B.active -> SwitchedOn(B)
                  [] Called /\ B.active /\ B.type = "ON" -> [B EXCEPT !.timer = B.timeout]
                  [] OTHER -> B
<1>1. GroupLeg(l, s, slot, g, c) =
        IF s \in SingleMode /\ l.type # "NONE" /\ slot = l.ts /\ WrongTG(l, g)
        THEN SwitchedAway(A) ELSE A
  BY DEF GroupLeg, A, B
<1>2. l.tg = l.bridge.tg /\ l.type # "NONE"
  BY SystemsAssumption DEF Shaped
<1> SUFFICES ASSUME g # l.bridge.tg PROVE FALSE
  BY DEF Legs, BridgeNames, Conf
<1>3. A = B /\ B \in Legs
  BY <1>2, RestartedLeg DEF SameKey
<1> HIDE DEF A, B
<1>4. ~SwitchedAway(A).active
  BY <1>3, SwitchedAwayCalm
<1>5. WrongTG(l, g)
  BY <1>2 DEF WrongTG
<1> QED BY <1>1, <1>2, <1>4, <1>5

LEMMA GroupEndLegs ==
  ASSUME NEW T, Good(T), \A l \in T.legs : Shaped(l), NEW s \in Masters, NEW slot, NEW g,
         NEW c \in Callers
  PROVE  LET N == GroupEnd(T, s, slot, g, c).legs
         IN  /\ \A m \in N : \E l \in T.legs :
                   /\ Spared(l, m, s, c)
                   /\ s \in SingleMode /\ l.sys = s /\ l.ts = slot /\ ~l.bridge.ref /\ m.active
                      => l.bridge = Conf(g)
             /\ \A l \in T.legs : l.sys # s => l \in N
<1> DEFINE X == ExtendDialTimers(T, s, slot, g, c, TRUE)
           Concerned(l) == l.sys = s /\ (l.bridge.ref => g \in {Dial, l.bridge.tg})
           G(l) == IF Concerned(l) THEN GroupLeg(l, s, slot, g, c) ELSE l
           N == {G(l) : l \in X.legs}
           Alone(l, m) == s \in SingleMode /\ l.sys = s /\ l.ts = slot /\ ~l.bridge.ref /\ m.active
                          => l.bridge = Conf(g)
<1>1. /\ \A m \in X.legs : \E l \in T.legs : Spared(l, m, s, c)
      /\ \A l \in T.legs : l.sys # s => l \in X.legs
  BY ExtendDialTimersLegs
<1>2. Good(X)
  BY ExtendDialTimersGood
<1>3. GroupEnd(T, s, slot, g, c) = WithLegs(X, N)
  BY DEF GroupEnd
<1> HIDE DEF X
<1>4. ASSUME NEW x \in X.legs
      PROVE  \E l \in T.legs : Spared(l, G(x), s, c) /\ Alone(l, G(x))
  <2>1. PICK l \in T.legs : Spared(l, x, s, c)
    BY <1>1
  <2>2. /\ l \in Legs /\ x \in Legs /\ x.bridge = l.bridge /\ x.sys = l.sys
        /\ x.ts = l.ts /\ x.tg = l.tg /\ x.type = l.type /\ Shaped(l)
    BY <2>1, GoodLegs, KeyFields DEF Spared, SameKey
  <2>3. Shaped(x)
    BY <2>2 DEF Shaped
  <2>4. SameKey(l, G(x)) /\ G(x).type = l.type
    <3>1. Calm(x, G(x))
      BY <2>2, GroupLegCalm, CalmRefl
    <3> QED BY <2>1, <2>2, <3>1, SameTrans DEF Calm, Spared
  <2>5. CASE Concerned(x)
    <3>1. G(x) = GroupLeg(x, s, slot, g, c) /\ x.sys = s
      BY <2>5
    <3>2. OwnedByOther(l, c) => G(x) = l
      <4> SUFFICES ASSUME OwnedByOther(l, c) PROVE G(x) = l
        OBVIOUS
      <4>1. x = l
        BY <2>1 DEF Spared
      <4>2. g \in {Dial, x.bridge.tg}
        BY <2>5, <4>1 DEF OwnedByOther
      <4>3. GroupLeg(x, s, slot, g, c) = x
        BY <2>2, <2>3, <3>1, <4>1, <4>2, GroupLegSpares
      <4> QED BY <3>1, <4>1, <4>3
    <3>3. Alone(l, G(x))
      BY <2>2, <2>3, <3>1, GroupLegAlone
    <3> QED BY <2>2, <2>4, <3>1, <3>2, <3>3 DEF Spared
  <2>6. CASE ~Concerned(x)
    <3>1. G(x) = x /\ (x.sys = s => l.bridge.ref)
      BY <2>2, <2>6
    <3> HIDE DEF G
    <3>2. Spared(l, G(x), s, c) /\ Alone(l, G(x))
      BY <2>1, <2>2, <3>1
    <3> QED BY <3>2
  <2> QED BY <2>5, <2>6
<1>5. \A l \in T.legs : l.sys # s => l \in N
  BY <1>1
<1> HIDE DEF G
<1>6. \A m \in N : \E l \in T.legs : Spared(l, m, s, c) /\ Alone(l, m)
  BY <1>4
<1> HIDE DEF N
<1>7. N \in SUBSET Legs
  BY <1>6 DEF Spared, SameKey
<1>8. WithLegs(X, N).legs = N
  BY <1>2, <1>7, GoodLegs, TablesWithLegs
<1> QED BY <1>3, <1>5, <1>6, <1>8

LEMMA GroupCallEndLegs ==
  ASSUME LinkInv, NEW s \in Masters, NEW ts \in Slots, GroupCallEnd(s, ts)
  PROVE  /\ \A m \in BRIDGES' : \E l \in BRIDGES :
               /\ Spared(l, m, s, call[s][ts].caller)
               /\ s \in SingleMode /\ l.sys = s /\ l.ts = ts /\ ~l.bridge.ref /\ m.active
                  => l.bridge = Conf(call[s][ts].dst)
         /\ \A l \in BRIDGES : l.sys # s => l \in BRIDGES'
<1> DEFINE x == call[s][ts]
<1>1. x.caller \in Callers
  BY DEF GroupCallEnd, LinkInv, Inv, NoCall, Streams
<1> HIDE DEF x
<1>2. PICK T \in AfterLookup(Table, s, ts, x.dst) : Becomes(GroupEnd(T, s, ts, x.dst, x.caller))
  BY DEF GroupCallEnd, x
<1>3. Good(T) /\ T.legs = BRIDGES /\ \A l \in T.legs : Shaped(l)
  BY <1>2, AfterLookupGood, AfterLookupLegs, TableLegs DEF LinkInv, Inv, Linked
<1> DEFINE N == GroupEnd(T, s, ts, x.dst, x.caller).legs
<1>4. /\ \A m \in N : \E l \in T.legs :
            /\ Spared(l, m, s, x.caller)
            /\ s \in SingleMode /\ l.sys = s /\ l.ts = ts /\ ~l.bridge.ref /\ m.active
               => l.bridge = Conf(x.dst)
      /\ \A l \in T.legs : l.sys # s => l \in N
  BY <1>1, <1>3, GroupEndLegs
<1>5. BRIDGES' = N
  BY <1>2, TableLegs
<1> HIDE DEF N
<1> QED BY <1>3, <1>4, <1>5 DEF x

(* The terminator of a group call on a reflector restarts no timer of a link   *)
(* that another subscriber owns: LINKER decides, and a master has one leg on a *)
(* reflector.                                                                *)
THEOREM OthersTimerSpared == Spec => GroupCallSparesOthersTimer
<1>1. ASSUME LinkInv, NEW s \in Masters, NEW ts \in Slots, GroupCallEnd(s, ts),
             NEW l \in BRIDGES, NEW m \in BRIDGES',
             l.bridge = m.bridge, l.bridge.ref, l.sys = m.sys, l.ts = m.ts,
             l.owner \notin {NoOwner, call[s][ts].caller}
      PROVE  m.timer <= l.timer
  <2>1. PICK k \in BRIDGES : Spared(k, m, s, call[s][ts].caller)
    BY <1>1, GroupCallEndLegs
  <2>2. /\ k.bridge = l.bridge /\ k.sys = l.sys /\ k.ts = l.ts
        /\ l \in Legs /\ Shaped(l) /\ Shaped(k) /\ Single(BRIDGES)
    BY <1>1, <2>1, KeyFields DEF Spared, SameKey, LinkInv, Linked
  <2>3. k = l
    BY <1>1, <2>2 DEF Shaped, Single, Key
  <2>4. m = l
    BY <1>1, <2>1, <2>3 DEF Spared, OwnedByOther
  <2> QED BY <2>2, <2>4, LegTypes
<1>2. LinkInv /\ [Next]_vars
        => [\A s \in Masters, ts \in Slots :
              GroupCallEnd(s, ts) =>
                \A l \in BRIDGES, m \in BRIDGES' :
                    (/\ l.bridge = m.bridge /\ l.bridge.ref /\ l.sys = m.sys /\ l.ts = m.ts
                     /\ l.type = "ON" /\ l.active /\ l.owner \notin {NoOwner, call[s][ts].caller})
                    => m.timer <= l.timer]_vars
  BY <1>1
<1> QED BY <1>2, LinkInvariance, PTL DEF Spec, GroupCallSparesOthersTimer

(* In single mode the terminator of a group call switches every other          *)
(* talkgroup of its slot off, statics included.                              *)
THEOREM SingleModeSound == Spec => SingleModeLeavesOne
<1>1. ASSUME LinkInv, NEW s \in SingleMode, NEW ts \in Slots, GroupCallEnd(s, ts),
             NEW m \in BRIDGES', m.sys = s, m.ts = ts, m.active, ~m.bridge.ref
      PROVE  m.bridge = Conf(call[s][ts].dst)
  <2>1. s \in Masters
    BY SystemsAssumption
  <2>2. PICK l \in BRIDGES :
               /\ Spared(l, m, s, call[s][ts].caller)
               /\ s \in SingleMode /\ l.sys = s /\ l.ts = ts /\ ~l.bridge.ref /\ m.active
                  => l.bridge = Conf(call[s][ts].dst)
    BY <1>1, <2>1, GroupCallEndLegs
  <2>3. l.bridge = m.bridge /\ l.sys = m.sys /\ l.ts = m.ts
    BY <2>2, KeyFields DEF Spared, SameKey
  <2> QED BY <1>1, <2>2, <2>3
<1>2. LinkInv /\ [Next]_vars
        => [\A s \in SingleMode, ts \in Slots :
              GroupCallEnd(s, ts) =>
                \A l \in BRIDGES' :
                    (l.sys = s /\ l.ts = ts /\ l.active /\ ~l.bridge.ref)
                    => l.bridge = Conf(call[s][ts].dst)]_vars
  BY <1>1
<1> QED BY <1>2, LinkInvariance, PTL DEF Spec, SingleModeLeavesOne

-----------------------------------------------------------------------------
(* The results: a call is the business of one master.                        *)

LEMMA KeyupLocal ==
  ASSUME LinkInv, NEW s \in Masters, Keyup(s)
  PROVE  Local(s, BRIDGES, BRIDGES')
<1> USE TrafficAssumption DEF LinkInv, Inv
<1>1. UATimers \in [Masters -> Nat]
  BY TimersType
<1>2. ASSUME NEW ts \in GroupSlots, NEW g \in GroupTGs, NEW c \in Callers,
             GroupCallStart(s, ts, g, c)
      PROVE  Local(s, BRIDGES, BRIDGES')
  <2> DEFINE G == GroupStart(Table, s, ts, g, UATimers)
  <2>1. Good(G) /\ Local(s, BRIDGES, G.legs)
    BY <1>1, TableLegs, GroupStartGood, GroupStartFollows
  <2>2. PICK T \in AfterLookup(G, s, ts, g) : Becomes(T)
    BY <1>2 DEF GroupCallStart
  <2> HIDE DEF G
  <2> QED BY <2>1, <2>2, AfterLookupLegs, TableLegs
<1>3. ASSUME NEW ts \in GroupSlots, GroupCallEnd(s, ts)
      PROVE  Local(s, BRIDGES, BRIDGES')
  BY <1>3, GroupCallEndLegs, LocalSubset
<1>4. ASSUME NEW ts \in PrivateSlots, NEW d \in PrivateDsts, NEW c \in Callers,
             PrivateCallStart(s, ts, d, c)
      PROVE  Local(s, BRIDGES, BRIDGES')
  <2>1. Local(s, BRIDGES, PrivateStart(Table, s, ts, d, c, UATimers).legs)
    BY <1>1, TableLegs, PrivateStartFollows
  <2> QED BY <1>4, <2>1, TableLegs DEF PrivateCallStart
<1>5. ASSUME NEW ts \in PrivateSlots, PrivateCallEnd(s, ts)
      PROVE  Local(s, BRIDGES, BRIDGES')
  <2> DEFINE x == call[s][ts]
             N == ExtendDialTimers(Table, s, ts, x.dst, x.caller, FALSE).legs
  <2>1. x.caller \in Callers
    BY <1>5 DEF PrivateCallEnd, NoCall, Streams
  <2>2. BRIDGES' = N
    BY <1>5, TableLegs DEF PrivateCallEnd
  <2> HIDE DEF x
  <2>3. \A l \in Table.legs : l.sys # s => l \in N
    BY <2>1, ExtendDialTimersLegs
  <2> QED BY <2>2, <2>3, TableLegs, LocalSubset
<1> QED BY <1>2, <1>3, <1>4, <1>5 DEF Keyup

(* A call, from its first packet to its terminator, leaves the legs of every    *)
(* other master alone, save the linked IPSC legs that it wakes.              *)
THEOREM KeyupLocalToMaster == Spec => KeyupIsLocal
<1>1. ASSUME LinkInv, NEW s \in Masters, Keyup(s), NEW l \in BRIDGES, l.sys # s
      PROVE  \/ l \in BRIDGES'
             \/ /\ l.sys \in LinkedTo(s) /\ ~l.bridge.ref
                /\ \E m \in BRIDGES' : Key(m) = Key(l) /\ m.active
  BY <1>1, KeyupLocal DEF Local
<1>2. LinkInv /\ [Next]_vars
        => [\A s \in Masters :
              Keyup(s) =>
                \A l \in BRIDGES :
                   l.sys # s => \/ l \in BRIDGES'
                                \/ /\ l.sys \in LinkedTo(s) /\ ~l.bridge.ref
                                   /\ \E m \in BRIDGES' : Key(m) = Key(l) /\ m.active]_vars
  BY <1>1
<1> QED BY <1>2, LinkInvariance, PTL DEF Spec, KeyupIsLocal

=============================================================================
