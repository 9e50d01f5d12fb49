------------------------------ MODULE BridgeOps ------------------------------
(***************************************************************************)
(* The BRIDGES table of bridge_master.py, its routing index BRIDGE_IDX, and *)
(* one operator per function that rewrites them.                            *)
(*                                                                          *)
(* A table T is [legs, idx].  T.legs holds the entries of every bridge, each *)
(* with the name of its bridge: a bridge exists while it has a leg.  T.idx   *)
(* holds one key per (system, slot, talkgroup, bridge) the index knows.      *)
(* TIMER is kept as "TIMER minus now", in ticks: TIMER < now is timer < 0.   *)
(***************************************************************************)
EXTENDS Integers

CONSTANTS
    Hotspots,    \* systems in MODE MASTER
    IPSCs,       \* systems in MODE IPSC
    OBPs,        \* systems in MODE OPENBRIDGE
    TGs,         \* talkgroups that can be called or linked
    Callers,     \* (rf_src, peer_id) pairs that key up
    NoOwner,     \* LINKER absent
    LinkOf,      \* Hotspots -> SUBSET IPSCs: linked_ipsc_slots()
    SingleMode,  \* masters with SINGLE_MODE
    LegIdle,     \* STAT_ON_LEG_IDLE_TTL_S in ticks; also the floor of every timer
    BridgeIdle   \* STAT_BRIDGE_IDLE_TTL_S in ticks

Masters == Hotspots \cup IPSCs
Systems == Masters \cup OBPs
Slots   == {1, 2}
Dial    == 9          \* the dial-a-tg talkgroup
Unlink  == 4000       \* private call: disconnect
Status  == 5000       \* private call: status announcement

ServiceCode(n) == n \in {Dial, Unlink, Status}

ASSUME SystemsAssumption ==
    /\ Hotspots \cap IPSCs = {}
    /\ Masters \cap OBPs = {}
    /\ LinkOf \in [Hotspots -> SUBSET IPSCs]
    /\ SingleMode \subseteq Masters

(* 9990 is the parrot and 9991..9999 are on-demand files: handled elsewhere. *)
ASSUME TGAssumption ==
    \A n \in TGs : n \in Nat /\ n > 5 /\ ~ServiceCode(n) /\ n \notin 9990 .. 9999

ASSUME CallerAssumption == NoOwner \notin Callers
ASSUME IdleAssumption == LegIdle \in Nat /\ BridgeIdle \in 1 .. LegIdle

-----------------------------------------------------------------------------
(* Bridges are named "<n>" (conference) or "#<n>" (dial-a-tg reflector).     *)

Conf(n)     == [ref |-> FALSE, tg |-> n]
Ref(n)      == [ref |-> TRUE, tg |-> n]
BridgeNames == [ref : BOOLEAN, tg : TGs]
ToTypes     == {"ON", "OFF", "STAT", "NONE"}

(* Talkgroups that are carried over OpenBridge legs. *)
NetTG(n) == n >= 59 /\ (n < 9990 \/ n > 9999)

MasterLeg(b, s, ts, type, active, timeout, timer) ==
    [bridge |-> b, sys |-> s, ts |-> ts, tg |-> IF b.ref THEN Dial ELSE b.tg,
     type |-> type, active |-> active, timeout |-> timeout, timer |-> timer,
     owner |-> NoOwner]

ObpLeg(b, o, type) ==
    [bridge |-> b, sys |-> o, ts |-> 1, tg |-> b.tg, type |-> type,
     active |-> TRUE, timeout |-> 0, timer |-> 0, owner |-> NoOwner]

LegsOf(L, b) == {l \in L : l.bridge = b}
Names(L)     == {l.bridge : l \in L}

-----------------------------------------------------------------------------
(* The index.                                                                *)

Key(l)     == [bridge |-> l.bridge, sys |-> l.sys, ts |-> l.ts, tg |-> l.tg]
IndexOf(L) == {Key(l) : l \in L}

IdxAdd(T, b)     == [T EXCEPT !.idx = @ \cup IndexOf(LegsOf(T.legs, b))]
IdxRemove(T, B)  == [T EXCEPT !.idx = {k \in @ : k.bridge \notin B}]
IdxReplace(T, b) == IdxAdd(IdxRemove(T, {b}), b)
Rebuild(T)       == [T EXCEPT !.idx = IndexOf(T.legs)]

WithLegs(T, L) == [T EXCEPT !.legs = L]

(* What one inbound group packet does to the index before it is routed: a    *)
(* miss rebuilds it, unless a rebuild ran within the last second.            *)
Candidates(T, s, ts, g) ==
    {k.bridge : k \in {k \in T.idx : k.sys = s /\ k.ts = ts /\ k.tg = g}}

AfterLookup(T, s, ts, g) ==
    IF Candidates(T, s, ts, g) = {} \/ ~(Candidates(T, s, ts, g) \subseteq Names(T.legs))
    THEN {T, Rebuild(T)} ELSE {T}

(* The bridges a packet is sent to, found by scanning every bridge ...       *)
Sources(L, s, ts, g) ==
    {l.bridge : l \in {l \in L : l.sys = s /\ l.ts = ts /\ l.tg = g /\ l.active}}

WithPairs(L, B, g) ==
    B \cup (IF g = Dial
            THEN {b \in Names(L) : [b EXCEPT !.ref = ~@] \in B}
            ELSE {})

RouteByScan(L, s, ts, g) == WithPairs(L, Sources(L, s, ts, g), g)

(* ... and as the code finds them, through the index, with the scan only as  *)
(* the fallback for a key the index does not have at all.                    *)
RouteByIndex(T, s, ts, g) ==
    LET C == Candidates(T, s, ts, g)
    IN  IF C = {} THEN RouteByScan(T.legs, s, ts, g)
        ELSE WithPairs(T.legs, Sources({l \in T.legs : l.bridge \in C}, s, ts, g), g)

-----------------------------------------------------------------------------
(* Linked IPSC legs: a hotspot that keys a conference bridge wakes the legs   *)
(* of the repeaters it is linked to.                                         *)

LinkedTo(s) == IF s \in Hotspots THEN LinkOf[s] ELSE {}

(* Mutant: every IPSC is taken for linked.                                    *)
ActivateLinkedAll(T, b, s, slot, timeout) ==
    WithLegs(T, {IF l.bridge = b /\ s \in Hotspots /\ l.sys \in IPSCs /\ l.ts = slot /\ l.type # "NONE"
                 THEN [l EXCEPT !.active = TRUE, !.timer = timeout]
                 ELSE l : l \in T.legs})

ActivateLinked(T, b, s, slot, timeout) ==
    WithLegs(T, {IF l.bridge = b /\ l.sys \in LinkedTo(s) /\ l.ts = slot /\ l.type # "NONE"
                 THEN [l EXCEPT !.active = TRUE, !.timer = timeout]
                 ELSE l : l \in T.legs})

-----------------------------------------------------------------------------
(* Functions that create bridges and legs.                                   *)

MakeSingleBridge(T, n, s, slot, tmout) ==
    LET b       == Conf(n)
        Caller(m, ts) == m = s /\ ts = slot
        masters == {MasterLeg(b, m, ts, "ON", Caller(m, ts), tmout,
                              IF Caller(m, ts) THEN tmout ELSE 0) : m \in Masters, ts \in Slots}
        obps    == IF NetTG(n) THEN {ObpLeg(b, o, "NONE") : o \in OBPs} ELSE {}
    IN  IdxAdd(ActivateLinked(WithLegs(T, T.legs \cup masters \cup obps), b, s, slot, tmout), b)

MakeStatBridge(T, n) ==
    IdxAdd(WithLegs(T, T.legs \cup {ObpLeg(Conf(n), o, "STAT") : o \in OBPs}), Conf(n))

(* Mutant: the new bridge is not indexed.                                    *)
MakeSingleReflectorUnindexed(T, n, s, tmout, tmouts) ==
    WithLegs(T, T.legs \cup {MasterLeg(Ref(n), m, 2, "ON", m = s,
                                       IF m = s THEN tmout ELSE tmouts[m],
                                       IF m = s THEN tmout ELSE 0) : m \in Masters})

(* tmouts[m] is DEFAULT_UA_TIMER of master m.                                *)
MakeSingleReflector(T, n, s, tmout, tmouts) ==
    LET b       == Ref(n)
        masters == {MasterLeg(b, m, 2, "ON", m = s, IF m = s THEN tmout ELSE tmouts[m],
                              IF m = s THEN tmout ELSE 0) : m \in Masters}
        obps    == IF NetTG(n) THEN {ObpLeg(b, o, "NONE") : o \in OBPs} ELSE {}
    IN  IdxAdd(WithLegs(T, T.legs \cup masters \cup obps), b)

(* ON legs are added to a bridge that lacks them, a STAT bridge in practice. *)
EnsureMasterOnLegs(T, b, s, tmout) ==
    LET missing == {ts \in Slots :
                      ~\E l \in LegsOf(T.legs, b) : l.sys = s /\ l.ts = ts /\ l.type = "ON"}
        added   == {MasterLeg(b, s, ts, "ON", FALSE, tmout, 0) : ts \in missing}
    IN  IF missing = {} THEN T ELSE IdxReplace(WithLegs(T, T.legs \cup added), b)

ActivateUaBridgeSource(T, n, s, slot, tmout) ==
    LET b == Conf(n)
        E == EnsureMasterOnLegs(T, b, s, tmout)
        A == WithLegs(E, {IF l.bridge = b /\ l.sys = s /\ l.ts = slot /\ l.type # "NONE"
                          THEN [l EXCEPT !.active = TRUE, !.timer = tmout]
                          ELSE l : l \in E.legs})
    IN  ActivateLinked(A, b, s, slot, tmout)

(* The same call with an OPENBRIDGE source, then touch_stat_bridge_activity: *)
(* an OBP is no routing master and has only STAT or NONE legs.               *)
TouchStat(T, n) ==
    WithLegs(T, {IF l.bridge = Conf(n) /\ l.type = "STAT" THEN [l EXCEPT !.timer = 0] ELSE l
                 : l \in T.legs})

-----------------------------------------------------------------------------
(* Functions that replace the legs of one system: OPTIONS and start-up.      *)

ReplaceLeg(T, b, s, ts, leg) ==
    WithLegs(T, {IF l.bridge = b /\ l.sys = s /\ l.ts = ts THEN leg ELSE l : l \in T.legs})

MakeStaticTG(T, n, ts, tmout, s) ==
    LET b   == Conf(n)
        leg == MasterLeg(b, s, ts, "OFF", TRUE, tmout, tmout)
        M   == IF b \in Names(T.legs) THEN T ELSE MakeSingleBridge(T, n, s, ts, tmout)
        R   == ReplaceLeg(M, b, s, ts, leg)
    IN  IdxReplace(WithLegs(R, R.legs \cup {leg}), b)

ResetStaticTG(T, n, ts, tmout, s) ==
    LET b == Conf(n)
    IN  IF b \notin Names(T.legs) THEN T
        ELSE IdxReplace(ReplaceLeg(T, b, s, ts,
                                   MasterLeg(b, s, ts, "ON", FALSE, tmout, tmout)), b)

MakeDefaultReflector(T, n, tmout, s, tmouts) ==
    LET b == Ref(n)
        M == IF b \in Names(T.legs) THEN T ELSE MakeSingleReflector(T, n, s, tmout, tmouts)
    IN  IdxReplace(ReplaceLeg(M, b, s, 2, MasterLeg(b, s, 2, "OFF", TRUE, tmout, tmout)), b)

ResetDefaultReflector(T, n, tmout, s, tmouts) ==
    LET b == Ref(n)
        M == IF b \in Names(T.legs) THEN T ELSE MakeSingleReflector(T, n, s, tmout, tmouts)
    IN  IdxReplace(ReplaceLeg(M, b, s, 2, MasterLeg(b, s, 2, "ON", FALSE, tmout, tmout)), b)

(* Mutant: static legs of the system become user-activated ones.             *)
RemoveBridgeSystemStatics(T, s) ==
    Rebuild(WithLegs(T, {IF l.sys = s
                         THEN [l EXCEPT !.active = FALSE, !.timer = l.timeout, !.owner = NoOwner,
                                        !.type = IF @ = "OFF" THEN "ON" ELSE @]
                         ELSE l : l \in T.legs}))

RemoveBridgeSystem(T, s) ==
    Rebuild(WithLegs(T, {IF l.sys = s
                         THEN [l EXCEPT !.active = FALSE, !.timer = l.timeout, !.owner = NoOwner]
                         ELSE l : l \in T.legs}))

(* DEFAULT_UA_TIMER changed: every leg of s off, and the slots it lacks added. *)
(* The appends bypass the index helpers, so the index is rebuilt.            *)
RetimeSystem(T, s, tmout) ==
    LET R    == RemoveBridgeSystem(T, s)
        Lacks(b, ts) == ~\E l \in LegsOf(R.legs, b) : l.sys = s /\ l.ts = ts
        new  == {MasterLeg(bt[1], s, bt[2], "ON", FALSE, tmout, 0) :
                   bt \in {bt \in Names(R.legs) \X Slots :
                             Lacks(bt[1], bt[2]) /\ (bt[1].ref => bt[2] = 2)}}
    IN  Rebuild(WithLegs(R, R.legs \cup new))

-----------------------------------------------------------------------------
(* Functions that switch legs of one system off.                             *)

Dropped(l) == [l EXCEPT !.active = FALSE, !.timer = 0, !.owner = NoOwner]
SwitchedOff(l) == [l EXCEPT !.active = FALSE, !.timer = 0]

(* Every function below rebuilds the index if it changed any leg.            *)
Refreshed(T, L) == IF L = T.legs THEN T ELSE Rebuild(WithLegs(T, L))

(* Logout, login and ping timeout.  Default (OFF) reflectors keep LINKER.    *)
ClearDefaultReflectors(T, s) ==
    Refreshed(T, {IF l.bridge.ref /\ l.sys = s /\ l.type = "OFF" /\ l.active
                  THEN SwitchedOff(l) ELSE l : l \in T.legs})

ResetDynamicReflectors(T, s) ==
    Refreshed(T, {IF l.bridge.ref /\ l.sys = s /\ l.type = "ON" /\ l.active
                  THEN Dropped(l) ELSE l : l \in T.legs})

ClearSession(T, s) == ResetDynamicReflectors(ClearDefaultReflectors(T, s), s)

(* Private call to 4000, and the first part of a selfcare disconnect.        *)
DisconnectDialReflectors(T, s) ==
    Refreshed(T, {IF l.bridge.ref /\ l.sys = s /\ l.active THEN Dropped(l) ELSE l
                  : l \in T.legs})

DeactivateUserActivated(T, s) ==
    Refreshed(T, {IF ~l.bridge.ref /\ l.sys = s /\ l.type = "ON" /\ l.active
                  THEN SwitchedOff(l) ELSE l : l \in T.legs})

DeactivateLinked(T, s) ==
    LET Drives(b) == \E l \in LegsOf(T.legs, b) :
                        l.sys = s /\ l.active /\ (l.type = "ON" \/ b.ref)
    IN  Refreshed(T, {IF Drives(l.bridge) /\ l.sys \in LinkedTo(s) /\ l.active
                      THEN [l EXCEPT !.active = FALSE, !.timer = 0,
                                     !.owner = IF l.bridge.ref THEN NoOwner ELSE @]
                      ELSE l : l \in T.legs})

(* DISC=1 in the OPTIONS string.                                             *)
SelfcareDisconnect(T, s) ==
    DeactivateLinked(DeactivateUserActivated(DisconnectDialReflectors(T, s), s), s)

(* "Single dial-a-tg mode": other ON reflectors of the slot are switched off. *)
DeactivateOtherDynamic(T, s, keep, slot) ==
    Refreshed(T, {IF l.bridge.ref /\ l.bridge # keep /\ l.sys = s /\ l.ts = slot
                     /\ l.type = "ON" /\ l.active
                  THEN SwitchedOff(l) ELSE l : l \in T.legs})

-----------------------------------------------------------------------------
(* Timers.                                                                   *)

(* rule_timer_loop: user-activated (ON) legs time out, OFF legs come back.   *)
(* Mutant: LINKER outlives the link.                                         *)
RuleLegKeepsLinker(l) ==
    CASE l.type = "ON" /\ l.active /\ l.timer < 0 -> [l EXCEPT !.active = FALSE]
      [] l.type = "OFF" /\ ~l.active /\ l.timer < 0 -> [l EXCEPT !.active = TRUE]
      [] OTHER -> l

(* Mutant: OFF legs do not come back.                                        *)
RuleLegOnOnly(l) ==
    IF l.type = "ON" /\ l.active /\ l.timer < 0
    THEN [l EXCEPT !.active = FALSE, !.owner = IF l.bridge.ref THEN NoOwner ELSE @] ELSE l

RuleLeg(l) ==
    CASE l.type = "ON" /\ l.active /\ l.timer < 0 ->
            [l EXCEPT !.active = FALSE, !.owner = IF l.bridge.ref THEN NoOwner ELSE @]
      [] l.type = "OFF" /\ ~l.active /\ l.timer < 0 -> [l EXCEPT !.active = TRUE]
      [] OTHER -> l

(* Mutant: the OpenBridge legs of an on-demand bridge keep it.               *)
RuleKeepsObp(l) == l.type = "ON" => l.active

(* Mutant: static legs do not keep a bridge.                                 *)
RuleKeepsOnOnly(l) == (l.type = "ON" /\ l.active) \/ l.type = "STAT"

(* A bridge survives the pass if a leg of it was in use when the pass met it. *)
RuleKeeps(l) ==
    \/ l.type = "ON" /\ l.active
    \/ l.type = "OFF"
    \/ l.type = "STAT"
    \/ l.type = "NONE" /\ l.sys \notin OBPs

(* Mutant: the keys of a removed bridge stay in the index.                   *)
RuleTimerLoopDangling(T) ==
    LET unused == {b \in Names(T.legs) : \A l \in LegsOf(T.legs, b) : ~RuleKeeps(l)}
    IN  WithLegs(T, {RuleLeg(l) : l \in {l \in T.legs : l.bridge \notin unused}})

RuleTimerLoop(T) ==
    LET unused == {b \in Names(T.legs) : \A l \in LegsOf(T.legs, b) : ~RuleKeeps(l)}
    IN  IdxRemove(WithLegs(T, {RuleLeg(l) : l \in {l \in T.legs : l.bridge \notin unused}}),
                  unused)

(* statTrimmer: idle ON legs of STAT bridges go, then whole idle STAT bridges. *)
HasStatLegs(L, b) == \E l \in LegsOf(L, b) : l.type = "STAT"

(* Mutant: an active leg whose timer ran out counts as idle.                 *)
StatLegIdleActive(l) == l.type = "ON" /\ l.timer <= -LegIdle

StatLegIdle(l) == l.type = "ON" /\ ~l.active /\ l.timer <= -LegIdle

StatInActiveUse(L, b) ==
    \E l \in LegsOf(L, b) : (l.type = "ON" /\ l.active) \/ (l.type = "OFF" /\ ~l.active)

StatShouldRemove(L, b) ==
    /\ HasStatLegs(L, b)
    /\ ~StatInActiveUse(L, b)
    /\ \A l \in LegsOf(L, b) : l.type = "STAT" => l.timer <= -BridgeIdle

(* Mutant: the keys of pruned legs stay in the index.                        *)
StatTrimmerDangling(T) ==
    LET kept    == {l \in T.legs : ~(HasStatLegs(T.legs, l.bridge) /\ StatLegIdle(l))}
        removed == {b \in Names(kept) : StatShouldRemove(kept, b)}
    IN  IdxRemove(WithLegs(T, {l \in kept : l.bridge \notin removed}), removed)

StatTrimmer(T) ==
    LET Idle(l) == HasStatLegs(T.legs, l.bridge) /\ StatLegIdle(l)
        pruned  == {l.bridge : l \in {l \in T.legs : Idle(l)}}
        kept    == {l \in T.legs : ~Idle(l)}
        P       == [legs |-> kept,
                    idx  |-> {k \in T.idx : k.bridge \notin pruned}
                             \cup {Key(l) : l \in {l \in kept : l.bridge \in pruned}}]
        removed == {b \in Names(kept) : StatShouldRemove(kept, b)}
    IN  IdxRemove(WithLegs(P, {l \in P.legs : l.bridge \notin removed}), removed)

(* One tick of the clock, for the timers that are running: an active OFF leg  *)
(* and a NONE leg have a TIMER nobody reads.                                 *)
Aged(l) ==
    IF l.type = "NONE" \/ (l.type = "OFF" /\ l.active) \/ l.timer <= -LegIdle
    THEN l ELSE [l EXCEPT !.timer = @ - 1]

Age(T) == WithLegs(T, {Aged(l) : l \in T.legs})

-----------------------------------------------------------------------------
(* In-band signalling: what calls do to the legs of the calling system s.    *)

(* Mutant: anyone may restart the timer of a link.                           *)
MayExtendAnyone(l, c) == TRUE

(* reflector_timer_reset_allowed                                             *)
MayExtend(l, c) == l.bridge.ref => l.owner = c

(* bridge_transmission_matches_rule                                          *)
MatchesRule(l, g, slot) ==
    slot = l.ts /\ (g = l.tg \/ (l.bridge.ref /\ g # Dial /\ g = l.bridge.tg))

TimerCounts(l) == (l.type = "ON" /\ l.active) \/ (l.type = "OFF" /\ ~l.active)

(* Mutant: LINKER holds the talkgroup, not the subscriber.                   *)
ClaimedByTG(l, c) == IF l.owner = NoOwner THEN [l EXCEPT !.owner = l.tg] ELSE l

(* reset_dial_reflector_timers_on_user_activity: who keys first owns the link. *)
Claimed(l, c) == IF l.owner = NoOwner THEN [l EXCEPT !.owner = c] ELSE l

ExtendDialTimers(T, s, slot, g, c, group) ==
    LET Counts(b) == b.ref /\ g # Unlink
                     /\ (g = b.tg \/ (group /\ g = Dial) \/ (~group /\ g = Status))
        Mine(l)   == Counts(l.bridge) /\ l.sys = s /\ l.ts = slot /\ l.active
                     /\ l.type = "ON" /\ l.timeout # 0
        Extended(l) == LET o == Claimed(l, c)
                       IN  IF MayExtend(o, c) THEN [o EXCEPT !.timer = l.timeout] ELSE o
    IN  WithLegs(T, {IF Mine(l) THEN Extended(l) ELSE l : l \in T.legs})

(* [B] and [1]: a matching transmission restarts a running timer.            *)
Restarted(l, g, slot, c) ==
    IF MatchesRule(l, g, slot) /\ MayExtend(l, c) /\ TimerCounts(l)
    THEN [l EXCEPT !.timer = l.timeout] ELSE l

SwitchedOn(l) ==
    [l EXCEPT !.active = TRUE, !.timer = IF l.type = "OFF" THEN 0 ELSE l.timeout]

(* [F]-[H] and [5]-[7]: the caller went elsewhere on this slot.              *)
(* Mutant: static legs stay on.                                              *)
SwitchedAwayOnOnly(l) ==
    IF l.type # "OFF" /\ l.active
    THEN [l EXCEPT !.active = FALSE, !.owner = IF l.bridge.ref THEN NoOwner ELSE @,
                   !.timer = IF l.type = "ON" THEN 0 ELSE @]
    ELSE l

SwitchedAway(l) ==
    LET owner == IF l.active /\ l.bridge.ref THEN NoOwner ELSE l.owner
    IN  CASE l.type = "OFF" -> [l EXCEPT !.active = FALSE, !.timer = l.timeout, !.owner = owner]
          [] l.type # "OFF" /\ l.active ->
                [l EXCEPT !.active = FALSE, !.owner = owner,
                          !.timer = IF l.type = "ON" THEN 0 ELSE @]
          [] OTHER -> l

(* A private call to reflector n: [B], [C]/[D], [E], [F]-[H] on a leg of s.  *)
PrivateLeg(l, slot, n, c) ==
    LET target == n = l.bridge.tg
        B == Restarted(l, n, slot, c)
        C == IF target /\ slot = l.ts /\ ~B.active THEN [SwitchedOn(B) EXCEPT !.owner = c] ELSE B
        E == IF target /\ C.active /\ C.type = "ON" THEN [C EXCEPT !.timer = C.timeout] ELSE C
    IN  IF ~target /\ slot = l.ts THEN SwitchedAway(E) ELSE E

(* Destinations that are talkgroups: 8 is not, and longer numbers are radios. *)
Named(n) == n <= 999999 /\ n # 8

Creatable(n) == Named(n) /\ n \notin Unlink .. Status

(* For a destination without a name the handler raises once the legs are done. *)
LinkReflector(T, s, slot, n, c, tmouts) ==
    LET M == IF Ref(n) \notin Names(T.legs) /\ Creatable(n)
             THEN MakeSingleReflector(T, n, s, tmouts[s], tmouts) ELSE T
        P == WithLegs(M, {IF l.bridge.ref /\ l.sys = s THEN PrivateLeg(l, slot, n, c) ELSE l
                          : l \in M.legs})
    IN  IF Named(n) THEN DeactivateOtherDynamic(P, s, Ref(n), slot) ELSE P

(* First packet of a private call to d, a reflector or a service code.       *)
PrivateStart(T, s, slot, d, c, tmouts) ==
    CASE d = Unlink -> DisconnectDialReflectors(T, s)
      [] d = Status -> T
      [] OTHER      -> LinkReflector(T, s, slot, d, c, tmouts)

(* First packet of a group call: the bridge is made, or this leg of it woken. *)
GroupStart(T, s, slot, g, tmouts) ==
    CASE g = Dial -> T
      [] g # Dial /\ Conf(g) \notin Names(T.legs) -> MakeSingleBridge(T, g, s, slot, tmouts[s])
      [] OTHER -> ActivateUaBridgeSource(T, g, s, slot, tmouts[s])

(* reflector_single_mode_wrong_tg                                            *)
WrongTG(l, g) == g # l.tg /\ ~(l.bridge.ref /\ g # Dial /\ g = l.bridge.tg)

(* Mutant: a call on the dial-a-tg talkgroup switches reflectors on.         *)
GroupLegDials(l, s, slot, g, c) ==
    LET B == Restarted(l, g, slot, c)
    IN  IF g = l.tg /\ slot = l.ts /\ ~B.active THEN SwitchedOn(B) ELSE B

(* Terminator of a group call: [1], [2]-[4], then single mode [5]-[7].       *)
GroupLeg(l, s, slot, g, c) ==
    LET B == Restarted(l, g, slot, c)
        Called == ~l.bridge.ref /\ g = l.tg /\ slot = l.ts
        A == CASE Called /\ ~B.active -> SwitchedOn(B)
               [] Called /\ B.active /\ B.type = "ON" -> [B EXCEPT !.timer = B.timeout]
               [] OTHER -> B
    IN  IF s \in SingleMode /\ l.type # "NONE" /\ slot = l.ts /\ WrongTG(l, g)
        THEN SwitchedAway(A) ELSE A

(* Mutant: the terminator reaches the legs of every system.                  *)
GroupEndEverywhere(T, s, slot, g, c) ==
    LET X == ExtendDialTimers(T, s, slot, g, c, TRUE)
        Concerned(l) == l.bridge.ref => g \in {Dial, l.bridge.tg}
    IN  WithLegs(X, {IF Concerned(l) THEN GroupLeg(l, s, slot, g, c) ELSE l : l \in X.legs})

GroupEnd(T, s, slot, g, c) ==
    LET X == ExtendDialTimers(T, s, slot, g, c, TRUE)
        Concerned(l) == l.sys = s /\ (l.bridge.ref => g \in {Dial, l.bridge.tg})
    IN  WithLegs(X, {IF Concerned(l) THEN GroupLeg(l, s, slot, g, c) ELSE l : l \in X.legs})

=============================================================================
