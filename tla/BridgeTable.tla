----------------------------- MODULE BridgeTable -----------------------------
(***************************************************************************)
(* The server's routing state and everything that rewrites it while the     *)
(* reactor runs: group and private calls on the routing masters, traffic    *)
(* from OpenBridge peers, logins and logouts, selfcare disconnects, changed  *)
(* options, and the periodic loops.  Every handler runs to completion on the *)
(* one reactor thread, so each is one action.  When options change is left   *)
(* open here; SlotOptions says when.                                        *)
(***************************************************************************)
EXTENDS BridgeOps

CONSTANTS
    Configured,    \* Masters -> options of the configuration file
    GenStat,       \* GLOBAL GEN_STAT_BRIDGES
    GroupTGs,      \* destinations of group calls, Dial among them
    GroupSlots,    \* slots on which group calls are made
    PrivateDsts,   \* destinations of private calls
    PrivateSlots,  \* slots on which private calls are made
    ObpTGs,        \* talkgroups heard from OpenBridge peers
    OptionSets     \* options a master may be given while it runs

VARIABLES
    BRIDGES,       \* the legs of every bridge
    BRIDGE_IDX,    \* the keys of the routing index
    CONFIG,        \* per master: the options last applied
    call,          \* per master and slot: the stream on STATUS[slot]
    booting        \* masters whose start-up bridges are still to be made

vars == <<BRIDGES, BRIDGE_IDX, CONFIG, call, booting>>

None == 0          \* no static talkgroup, no default reflector

Options == [timer : Nat, ts1 : TGs \cup {None}, ts2 : TGs \cup {None}, dial : TGs \cup {None}]

ASSUME NoneAssumption == Configured \in [Masters -> Options]
ASSUME TrafficAssumption ==
    /\ GenStat \in BOOLEAN
    /\ GroupTGs \subseteq TGs \cup {Dial}
    /\ PrivateDsts \subseteq TGs \cup {Unlink, Status}
    /\ GroupSlots \subseteq Slots /\ PrivateSlots \subseteq Slots
    /\ ObpTGs \subseteq TGs
    /\ OptionSets \subseteq Options

StreamKinds == {"group", "private"}
NoCall      == [kind |-> "none", dst |-> None, caller |-> NoOwner]
Streams     == [kind : StreamKinds, dst : TGs \cup {Dial, Unlink, Status}, caller : Callers]

Table    == [legs |-> BRIDGES, idx |-> BRIDGE_IDX]
Becomes(T) == BRIDGES' = T.legs /\ BRIDGE_IDX' = T.idx
UATimers == [m \in Masters |-> CONFIG[m].timer]

Init ==
    /\ BRIDGES = {}
    /\ BRIDGE_IDX = {}
    /\ CONFIG = Configured
    /\ call = [m \in Masters |-> [ts \in Slots |-> NoCall]]
    /\ booting = Masters

-----------------------------------------------------------------------------
(* Start-up: the default reflector and the static talkgroups of one master.  *)

BootTable(T, m) ==
    LET o == CONFIG[m]
        D == IF o.dial = None THEN T ELSE MakeDefaultReflector(T, o.dial, o.timer, m, UATimers)
        S == IF o.ts1 = None THEN D ELSE MakeStaticTG(D, o.ts1, 1, o.timer, m)
    IN  IF o.ts2 = None THEN S ELSE MakeStaticTG(S, o.ts2, 2, o.timer, m)

Boot(m) ==
    /\ m \in booting
    /\ Becomes(BootTable(Table, m))
    /\ booting' = booting \ {m}
    /\ UNCHANGED <<CONFIG, call>>

Running == booting = {}

-----------------------------------------------------------------------------
(* Calls.  A new stream takes over the slot, whether or not the terminator of *)
(* the previous one was seen.                                                *)

GroupCallStart(s, ts, g, c) ==
    /\ Running
    /\ \E T \in AfterLookup(GroupStart(Table, s, ts, g, UATimers), s, ts, g) : Becomes(T)
    /\ call' = [call EXCEPT ![s][ts] = [kind |-> "group", dst |-> g, caller |-> c]]
    /\ UNCHANGED <<CONFIG, booting>>

GroupCallEnd(s, ts) ==
    LET x == call[s][ts]
    IN  /\ Running
        /\ x.kind = "group"
        /\ \E T \in AfterLookup(Table, s, ts, x.dst) : Becomes(GroupEnd(T, s, ts, x.dst, x.caller))
        /\ call' = [call EXCEPT ![s][ts] = NoCall]
        /\ UNCHANGED <<CONFIG, booting>>

(* The exception for an unnamed destination leaves STATUS as it was: each      *)
(* packet of such a call is a first one, and its terminator ends nothing.     *)
PrivateCallStart(s, ts, d, c) ==
    /\ Running
    /\ Becomes(PrivateStart(Table, s, ts, d, c, UATimers))
    /\ call' = IF Named(d)
               THEN [call EXCEPT ![s][ts] = [kind |-> "private", dst |-> d, caller |-> c]]
               ELSE call
    /\ UNCHANGED <<CONFIG, booting>>

PrivateCallEnd(s, ts) ==
    LET x == call[s][ts]
    IN  /\ Running
        /\ x.kind = "private"
        /\ Becomes(ExtendDialTimers(Table, s, ts, x.dst, x.caller, FALSE))
        /\ call' = [call EXCEPT ![s][ts] = NoCall]
        /\ UNCHANGED <<CONFIG, booting>>

(* A group packet from an OpenBridge peer; new is TRUE for the first of a     *)
(* stream.  The STAT bridge is made for any packet, touched for the first.   *)
ObpTable(o, g, new) ==
    LET T == IF GenStat /\ Conf(g) \notin Names(BRIDGES) THEN MakeStatBridge(Table, g) ELSE Table
    IN  IF new /\ Conf(g) \in Names(T.legs) THEN TouchStat(T, g) ELSE T

ObpPacket(o, g, new) ==
    /\ Running
    /\ \E T \in AfterLookup(ObpTable(o, g, new), o, 1, g) : Becomes(T)
    /\ UNCHANGED <<CONFIG, call, booting>>

-----------------------------------------------------------------------------
(* Sessions and selfcare.                                                    *)

SessionChange(s) ==
    /\ Running
    /\ Becomes(ClearSession(Table, s))
    /\ UNCHANGED <<CONFIG, call, booting>>

SelfcareDISC(s) ==
    /\ Running
    /\ Becomes(SelfcareDisconnect(Table, s))
    /\ UNCHANGED <<CONFIG, call, booting>>

-----------------------------------------------------------------------------
(* Options: the body of options_config for one master.                       *)

(* Options are at most one static talkgroup per slot (lists act on disjoint    *)
(* bridges), the default reflector and DEFAULT_UA_TIMER.                      *)
Restatic(T, ts, old, new, tmout, s) ==
    LET R == IF old = None THEN T ELSE ResetStaticTG(T, old, ts, tmout, s)
    IN  CASE old = new  -> T
          [] old # new /\ new = None -> R
          [] OTHER -> MakeStaticTG(R, new, ts, tmout, s)

Redial(T, old, new, tmout, s) ==
    LET R == IF old = None THEN T ELSE ResetDefaultReflector(T, old, tmout, s, UATimers)
    IN  CASE old = new -> T
          [] old # new /\ new = None -> R
          [] OTHER -> MakeDefaultReflector(R, new, tmout, s, UATimers)

Applied(T, s, o) ==
    LET cur == CONFIG[s]
        R   == IF o.timer = cur.timer THEN T ELSE RetimeSystem(T, s, o.timer)
        D   == Redial(R, cur.dial, o.dial, o.timer, s)
        S   == Restatic(D, 1, cur.ts1, o.ts1, o.timer, s)
    IN  Restatic(S, 2, cur.ts2, o.ts2, o.timer, s)

Reconfigure(s, o) ==
    /\ Running
    /\ Becomes(Applied(Table, s, o))
    /\ CONFIG' = [CONFIG EXCEPT ![s] = o]
    /\ UNCHANGED <<call, booting>>

(* The _reset branch: the last peer of the slot left.                        *)
ResetSlot(s) ==
    /\ Running
    /\ Becomes(RemoveBridgeSystem(Table, s))
    /\ UNCHANGED <<CONFIG, call, booting>>

-----------------------------------------------------------------------------
(* The periodic loops and the clock they read.                               *)

RuleTimer ==
    /\ Running
    /\ Becomes(RuleTimerLoop(Table))
    /\ UNCHANGED <<CONFIG, call, booting>>

StatTrim ==
    /\ Running
    /\ GenStat
    /\ Becomes(StatTrimmer(Table))
    /\ UNCHANGED <<CONFIG, call, booting>>

Tick ==
    /\ Running
    /\ Becomes(Age(Table))
    /\ UNCHANGED <<CONFIG, call, booting>>

-----------------------------------------------------------------------------
Keyup(s) ==
    \/ \E ts \in GroupSlots :
          \/ \E g \in GroupTGs, c \in Callers : GroupCallStart(s, ts, g, c)
          \/ GroupCallEnd(s, ts)
    \/ \E ts \in PrivateSlots :
          \/ \E d \in PrivateDsts, c \in Callers : PrivateCallStart(s, ts, d, c)
          \/ PrivateCallEnd(s, ts)

Traffic ==
    \/ \E s \in Masters : Keyup(s)
    \/ \E o \in OBPs, g \in ObpTGs, new \in BOOLEAN : ObpPacket(o, g, new)

Sessions == \E s \in Masters : SessionChange(s) \/ SelfcareDISC(s)

Reoptions == \E s \in Masters : ResetSlot(s) \/ \E o \in OptionSets : Reconfigure(s, o)

Housekeeping == RuleTimer \/ StatTrim \/ Tick

Next == (\E m \in Masters : Boot(m)) \/ Traffic \/ Sessions \/ Reoptions \/ Housekeeping

(* The reactor never stops and its LoopingCalls are rescheduled for ever.    *)
Fairness ==
    /\ \A m \in Masters : WF_vars(Boot(m))
    /\ WF_vars(RuleTimer) /\ WF_vars(StatTrim) /\ WF_vars(Tick)

Spec     == Init /\ [][Next]_vars
LiveSpec == Spec /\ Fairness

-----------------------------------------------------------------------------
(* Correctness.                                                              *)

Legs ==
    [bridge : BridgeNames, sys : Systems, ts : Slots, tg : TGs \cup {Dial}, type : ToTypes,
     active : BOOLEAN, timeout : Nat, timer : Int, owner : Callers \cup {NoOwner}]

Keys == [bridge : BridgeNames, sys : Systems, ts : Slots, tg : TGs \cup {Dial}]

(* Every variable holds a value of its type. *)
TypeOK ==
    /\ BRIDGES \subseteq Legs
    /\ BRIDGE_IDX \subseteq Keys
    /\ CONFIG \in [Masters -> Options]
    /\ call \in [Masters -> [Slots -> Streams \cup {NoCall}]]
    /\ booting \subseteq Masters

(* "Every function that adds/removes entries in BRIDGES MUST update the index": *)
(* between two handlers the index has exactly the keys of the table.          *)
IndexConsistent == BRIDGE_IDX = IndexOf(BRIDGES)

(* The O(1) lookup of the packet path finds the bridges a full scan of BRIDGES *)
(* finds, the dial-a-tg pairs included: no caller is lost to the index.       *)
RoutingComplete ==
    \A s \in Systems, ts \in Slots, g \in TGs \cup {Dial} :
        RouteByIndex(Table, s, ts, g) = RouteByScan(BRIDGES, s, ts, g)

(* deactivate_other_dynamic_reflectors: a master has at most one active       *)
(* user-activated reflector, whatever calls, logins and timeouts interleave.  *)
(* MCDial checks it for private calls on slot 2, the slot of every reflector  *)
(* leg; MCTwoLinks shows what private calls on slot 1 do to it.              *)
ActiveLinks(s) ==
    {l.bridge : l \in {l \in BRIDGES : l.bridge.ref /\ l.sys = s /\ l.type = "ON" /\ l.active}}

OneDynamicReflector == \A s \in Masters : \A a, b \in ActiveLinks(s) : a = b

(* LINKER goes with the link: a user-activated reflector leg that is off has  *)
(* no owner left over, so that the next link cannot answer to the last one's. *)
OwnerOnlyWhileLinked ==
    \A l \in BRIDGES : l.bridge.ref /\ l.type = "ON" /\ l.owner # NoOwner => l.active

(* A static talkgroup keeps its TO_TYPE OFF leg until OPTIONS take it away:    *)
(* no call, timeout, trim or disconnect turns it into a user-activated leg.   *)
HasStatic(s, ts, n) ==
    \E l \in BRIDGES : l.bridge = Conf(n) /\ l.sys = s /\ l.ts = ts /\ l.type = "OFF"

StaticLegKept ==
    \A s \in Masters \ booting :
        /\ CONFIG[s].ts1 # None => HasStatic(s, 1, CONFIG[s].ts1)
        /\ CONFIG[s].ts2 # None => HasStatic(s, 2, CONFIG[s].ts2)

(* Keying up is a master's own business: a call changes no leg of another      *)
(* master, except to wake an IPSC leg the hotspot is linked to.              *)
KeyupIsLocal ==
    [][\A s \in Masters :
          Keyup(s) =>
              \A l \in BRIDGES :
                  l.sys # s => \/ l \in BRIDGES'
                               \/ /\ l.sys \in LinkedTo(s) /\ ~l.bridge.ref
                                  /\ \E m \in BRIDGES' : Key(m) = Key(l) /\ m.active]_vars

(* A group call on a reflector never postpones the timeout of a link that     *)
(* another subscriber owns.                                                  *)
GroupCallSparesOthersTimer ==
    [][\A s \in Masters, ts \in Slots :
          GroupCallEnd(s, ts) =>
              \A l \in BRIDGES, m \in BRIDGES' :
                  (/\ l.bridge = m.bridge /\ l.bridge.ref /\ l.sys = m.sys /\ l.ts = m.ts
                   /\ l.type = "ON" /\ l.active /\ l.owner \notin {NoOwner, call[s][ts].caller})
                  => m.timer <= l.timer]_vars

(* In single mode the terminator of a group call on a talkgroup leaves that   *)
(* talkgroup alone on the slot, statics included.                            *)
SingleModeLeavesOne ==
    [][\A s \in SingleMode, ts \in Slots :
          GroupCallEnd(s, ts) =>
              \A l \in BRIDGES' :
                  (l.sys = s /\ l.ts = ts /\ l.active /\ ~l.bridge.ref)
                  => l.bridge = Conf(call[s][ts].dst)]_vars

(* The STAT trimmer never takes a leg that is carrying a user-activated link,  *)
(* nor the bridge under it.                                                  *)
TrimSparesActiveLinks ==
    [][StatTrim => \A l \in BRIDGES : l.type = "ON" /\ l.active => l \in BRIDGES']_vars

(* deactivate_linked_ipsc_bridge_legs: a selfcare disconnect takes the linked  *)
(* IPSC legs off every bridge the hotspot was driving when it asked.         *)
SelfcareDropsLinked ==
    [][\A s \in Hotspots :
          SelfcareDISC(s) =>
              \A l \in BRIDGES, m \in BRIDGES' :
                  (/\ l.sys = s /\ l.active /\ (l.type = "ON" \/ l.bridge.ref)
                   /\ m.bridge = l.bridge /\ m.sys \in LinkedTo(s))
                  => ~m.active]_vars

(* Once nobody keys up, logs in or out any more ...                           *)
Quiet == <>[][Housekeeping]_vars

(* ... every user-activated link times out and every bridge made on demand is  *)
(* removed, so that the table cannot grow for ever ...                        *)
Permanent(b) == \E l \in LegsOf(BRIDGES, b) : l.type \in {"OFF", "STAT"}

LinksEnd ==
    Quiet => <>[](/\ \A l \in BRIDGES : l.type = "ON" => ~l.active
                  /\ \A b \in Names(BRIDGES) : Permanent(b))

(* ... and every static talkgroup that single mode or a link pushed aside is   *)
(* active again.                                                             *)
StaticsReturn == Quiet => <>[](\A l \in BRIDGES : l.type = "OFF" => l.active)

=============================================================================
