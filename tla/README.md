# RYSEN in TLA+

RYSEN is a DMR bridge server: hotspots, Motorola IPSC repeaters and other
servers (OpenBridge) connect over UDP, and voice is passed between them by
talkgroup. This directory holds a formal model of its routing core, the TLC
configurations that check it and TLAPS proofs about it: the bridge table and
what changes it, the rules that decide which copy of a stream goes on, and the
connections to hotspots and to other servers. It says what the code does, read
from the source; the documents and docstrings of the repository are used only
where a check compares the code with them.

## 1. The system

One process, one Twisted reactor thread. A UDP packet, a `LoopingCall`, a
database callback and a delayed call are handlers that run to completion; the
only true threads read aliases and play announcements.

| Component | Code | State it keeps | Operations | What is hard | What makes it correct |
|---|---|---|---|---|---|
| Bridge table and index | `bridge_master.py`, `bridge_helpers.py` | `BRIDGES` (per bridge, a list of legs: SYSTEM, TS, TGID, TO_TYPE, ACTIVE, TIMEOUT, TIMER, LINKER), `BRIDGE_IDX` | `make_*`, `reset_*`, `remove_bridge_system`, `activate_ua_bridge_source`, `disconnect_*`, `deactivate_*`, `_idx_*` | two copies of one relation, two dozen writers | the index has exactly the keys of the table; a lookup finds what a scan finds |
| In-band signalling | `routerHBP.dmrd_received`, `routerOBP.dmrd_received` | `STATUS[slot]` (current stream) | first packet and terminator of group and private calls | several callers on one master, links of different owners, single mode | one link per master; a link belongs to who made it; a call touches its own master only; single mode leaves one talkgroup |
| Periodic loops | `rule_timer_loop` (52 s), `statTrimmer` (120 s) | timers in the legs | expire, reactivate, remove | they race with calls and options | links end, statics return, nothing in use is trimmed |
| Options | `options_config` (26 s), `hblink.py`, `ipsc_master.py`, the two selfcare polls | `OPTIONS`, `_reset`, `_OPTIONS_DIRTY`, the settings last applied | RPTO, poll, end of session, pass | four writers of the same fields between two passes | no options are forgotten; the last ones win |
| HBP sessions | `HBSYSTEM` in `hblink.py` | `_peers` with CONNECTION, SALT, LAST_PING | RPTL, RPTK, RPTC, RPTO, RPTP, RPTCL, timeout | lost and repeated packets, restarts | a repeated packet never ends a session; a hotspot that keeps trying gets in |
| IPSC sessions | `ipsc_master.py`, `routerIPSC` | `_ipsc_peers`, `_peers` | registration, keepalive, PRCL, de-registration, watchdog | two peer tables | they agree; loss of the last repeater restores the slot |
| Loop control | `routerHBP`, `routerOBP`, `stream_trimmer_loop` | `STATUS`, 1ST stamps, HBP claims, tombstones | claim, elect, drop duplicate, trim | the same stream on several paths, in any order | one copy goes on, and one does; a call is cut neither by another copy nor by an old packet |
| Unit data, subscriber map | `dmrd_received`, `sendDataToHBP`, `sendDataToOBP`, `SUB_MAP` | where each radio was last heard | update, clear, trim, deliver | hotspots that change systems while their entries live on | data goes out once, and only where a hotspot of the radio is |
| OpenBridge link | `OPENBRIDGE` in `hblink.py` | VER, TARGET_SOCK, `_bcka`, `_bcsq` | DMRD, DMRF, DMRE, BCKA, BCSQ, BCVE | two servers with different versions, either of which may restart or move | versions only rise; only refused streams are quenched; the link comes back |
| Selfcare | `selfcare_db.py`, polls in `bridge_master.py` | rows with a `modified` flag | select, apply, clear | database waits between rows | a row is applied before its flag is cleared |
| Hotspot proxy | `hotspot_proxy_v2_sc.py` | `peerTrack`, `connTrack`, a timer per peer | lease, forward, reap | reuse of a port by another peer, three timers of the same length | one peer per port, one port per peer |
| HBP client | `HBSYSTEM` in PEER mode | `_stats` | log in, ping, give up | an ACK says nothing of what it acknowledges | it notices by silence that it is not served |
| Voice, parrot, playback | `ipsc_voice.py`, `playback*.py`, `voice_lib.py`, announcement code | jitter buffers, recorded streams | translate, record, replay | threads | - |
| IPSC proxy, configuration, reports, aliases, older bridges | the rest | - | - | - | - |

How they meet: packets of a session reach `dmrd_received` of its router; that
handler reads `BRIDGE_IDX`, changes `BRIDGES` and calls `to_target` of the
routers the legs name. Sessions and polls never touch `BRIDGES` for options:
they write `OPTIONS`, `_reset` and the dirty mark, and `options_config`
brings the table into line at its next pass. Logins and logouts do clear
reflectors at once, before the session code runs. The loops work on the same
table with no lock, which is safe because handlers do not interleave; what
does interleave is their order.

Before a packet reaches the table it has to pass loop control, which keeps
records of its own and reads the table only to forward; and it comes over a
session or a link that has to be there. These three layers are modelled apart.

## 2. The modules

```
BridgeOps          the table as a value, one operator per function that rewrites it
  BridgeTable      the state machine: calls, sessions, options, loops, clock
    SlotOptions    when options change: OPTIONS, _reset, the dirty mark, sessions, polls
    MCBridgeTable, MCSlotOptions                constant values for TLC
    BridgeTable_proofs                          proofs: types, the index
      BridgeLinks_proofs                        proofs: links, owners, statics, calls
        SlotOptions_proofs                      proofs: the options layer

LoopControl        which copy of a voice stream goes on: records, stamps, claims, tombstones
  UnitData         composed with unit data, SUB_MAP and the sessions they follow
    MCUnitData                                  constant values for TLC
    LoopControl_proofs, UnitData_proofs         proofs

PortLease          what the proxy promises: one port to a hotspot, one hotspot to a port
HotspotLogin       client, proxy, server and network; refines PortLease
ObpLink            the two ends of an OpenBridge link and the network between
  Connections      both side by side, as in one server
    MCConnections                               constant values for TLC
    HotspotLogin_proofs, ObpLink_proofs, Connections_proofs
```

### BridgeOps

A table is a record `[legs, idx]`. A leg is an entry of `BRIDGES[b]` together
with its bridge: `Conf(n)` is the bridge `"n"`, `Ref(n)` the reflector `"#n"`.
`owner` is LINKER with LINKER_PEER. The trigger lists of an entry are not
carried: for bridges the server makes, ON is the bridge's own talkgroup for
master legs and OFF and RESET are empty. `TIMER` is stored as the time left, in
ticks, and floored at `-LegIdle`; a leg whose timer nobody reads is not aged.
`AfterLookup` is what a packet does to the index before it is routed:
`_maybe_rebuild_bridge_index_on_miss` rebuilds unless it did within a second,
and the model leaves open whether it did. `RouteByIndex` and `RouteByScan`
are the two ways `dmrd_received` finds the bridges of a packet.

### BridgeTable

| Action | Code |
|---|---|
| `Boot(m)` | the start-up loops that make default reflectors and static talkgroups, for one master |
| `GroupCallStart` | first packet of a group stream: make the bridge or wake the leg, then look it up |
| `GroupCallEnd` | the terminator: `[G9]`, `[1]`-`[4]`, single mode `[5]`-`[8]` |
| `PrivateCallStart` | first packet of a private call: 4000, `[A]`-`[I]`, `deactivate_other_dynamic_reflectors`; for 8 and for the number of a radio (`~Named`) the handler raises before the last step |
| `PrivateCallEnd` | its terminator: `[P]` |
| `ObpPacket` | group packet of an OpenBridge peer: STAT bridge, `activate_ua_bridge_source`, `touch_stat_bridge_activity` |
| `SessionChange` | what RPTC, RPTCL, ping timeout and the loss of a repeater do to the table |
| `SelfcareDISC` | `apply_selfcare_options` with `DISC=1` |
| `Reconfigure`, `ResetSlot` | the body of `options_config` for one master |
| `RuleTimer`, `StatTrim` | the loops |
| `Tick` | the clock |

Here anybody may reconfigure a master at any time, with any options of
`OptionSets`. That makes the module the abstract specification of
SlotOptions, and its theorems hold whatever triggers a change.

### SlotOptions

Adds `OPTIONS`, `reset`, `dirty`, `conn` and `todo`. `options_config` is one
handler; it is split here into one step per master (`Parse`), and while `todo`
is not empty no other handler runs (`Reactor`). Every step of SlotOptions is a
step of BridgeTable or leaves its variables alone: `OptionsRefineTable` proves
it (`OptionsSpec => Spec`), with the identity as refinement mapping. This
is how every theorem of the table carries over.

A database wait splits the DISC branch of a poll: `Polled` writes the
options and disconnects, and the `options_config` call after the wait is a later
`OptionsConfig`.

### LoopControl

A packet is a position in its call, 0 (header) to `Final` (terminator), and the
network may lose, repeat, delay and reorder it: any stream a system `hears` may
bring any position at any time. Time stamps are ages in ticks, and a limit of
the code is a number of ticks.

| State | Code |
|---|---|
| `rec[o][s]` | `STATUS[stream]` of an OpenBridge system: who made it (inbound, or the stub of a forwarded stream), START, LAST, whether it has 1ST and `_fin`, lastSeq |
| `order[s]` | the order of the 1ST stamps, which is all an election reads of them |
| `slot[h]` | `STATUS[slot]` of a hotspot: RX and TX stream, type, time |
| `claim`, `tomb` | `_HBP_STREAM_CLAIMS`, `_TERM_TOMBSTONES` |
| `quench`, `bcka` | `_bcsq`, `_bcka` |
| `spoke` | history: who was forwarded last on a stream |

| Action | Code |
|---|---|
| `ObpReceived` | the group-voice part of `routerOBP.dmrd_received`: `ObpOpens` (new call), `ObpDrops` (finished, too long, claimed by a hotspot), `ObpYields` (another link owns it), `ObpOutOfSequence`, `ObpContinues` |
| `HbpReceived` | the same of `routerHBP`: `HbpDrops`, `HbpYields`, `HbpContinues` |
| `Stubs`, `Unstamped`, `Sent` | `to_target` of both routers: records of links, contention on slots |
| `SourceQuench`, `KeepAlive` | BCSQ and BCKA as this layer sees them |
| `Trim` | `stream_trimmer_loop` |
| `Tick` | the clock |

### UnitData

EXTENDS LoopControl, whose tables the data path shares: unit data elects over the
same records by another rule, and looks at the same slots. `ObpData` and `HbpData`
are the data branches of the two handlers; `DataLinks`, `DataStubs` are
`sendDataToOBP`, `DataLegs` the choice of the system by `SUB_MAP` or by owner.
`on` are the sessions that are logged in and `joining` the entries of `PEERS` that are
not yet (`PeerAsks`): `DataLegs` looks for an owner's hotspot among both, and only
the first may speak. `PeerLogin`, `PeerRefused` and `PeerLeaves` end a login or a
session, with or without clearing the map; `SubMapTrimmer` is the loop. `HbpVoice` adds to `HbpReceived` that the hotspot is
logged in and that its radio enters the map.

### PortLease and HotspotLogin

`PortLease` has two variables, who holds a port and whom the system behind it
serves, and is the contract between proxy and server: a port goes to a hotspot
that has none, and a system admits only the holder of its port. It deliberately
allows a port to be leased to a hotspot while its system still serves the
hotspot before, which the code does allow after a restart.

`HotspotLogin` is the protocol. `client` is `_stats`, `track` and `lease` are
`peerTrack` and `connTrack`, `session` is the one entry of `_peers`.

| Action | Code |
|---|---|
| `ClientLoop` | `peer_maintenance_loop` |
| `Deliver` to a client | `peer_datagramReceived` (`ClientReceives`) |
| `Deliver` to the proxy | `Proxy.datagramReceived`, packets of clients (`ProxyReceives`) |
| `ProxyFromMaster` | the same, packets of the server |
| `ProxyTimeout` | the timer, `reaper` |
| `MasterReceives` | `master_datagramReceived`, one operator per command |
| `MasterLoop` | `master_maintenance_loop` |
| `ClientRestart`, `ProxyRestart`, `MasterRestart` | closing or killing a program; `peer_dereg`, `master_dereg` |
| `Lose`, `Repeat`, `DeliverLate` | UDP |

Every step of it is a step of PortLease or a stutter, under
`holder <- lease, serving <- Serving`.

### ObpLink

Two ends run the same code. `Timer` is BCKA and BCVE, `Talk` a packet of a stream
through `send_system`, `Arrives` is `datagramReceived`, `RestartEnd` and `Move` are
what may happen to an end. What a packet of version v means to an end of version w
is `Understood`. The two ends are configured by `pair`: their versions,
whether each knows the other's address, what they say and refuse. A refused stream is
answered by one quench (`warned`), but one that has come over more than ten links (`Far`)
by a quench for every packet.

### Connections

A server has both; neither reads the other's state, so a step of one leaves the
other alone. The module exists so that one specification states the fairness of
all loops, and so that what holds of each is stated and proved of the server.
The initial states leave out those in which both are busy, since they would
only multiply.


## 3. The runs

All counts are exact enumerations; deadlock is checked in every run.

| Run | Question | Bounds |
|---|---|---|
| `dial` | links, owners, timers and the index on a single-mode hotspot | one hotspot, one OpenBridge, two talkgroups, two callers, private calls to both, 4000, 5000 and a radio, group calls on 9 and 91, three option sets (other timer, default reflector), slot 2 |
| `table` | statics, single mode, STAT bridges and the trimmer | one hotspot, one OpenBridge, a static on one talkgroup, OpenBridge traffic on the other, trimmer thresholds 1 and 2 ticks |
| `live` | links end, on-demand bridges go, statics return | one single-mode hotspot with a static talkgroup, another talkgroup on demand, links to both, 4000, calls to a radio; nothing bounds the number of calls |
| `linked` | calls are local among three masters; linked legs end | a hotspot linked to a single-mode repeater, a second repeater it is not linked to, one OpenBridge; group calls of all three on 9 and on an on-demand talkgroup |
| `options` | sessions, polls, resets and the pass | a generated hotspot slot and an IPSC slot, two option strings, one without TIMER |
| `streams` | which copy goes on, and where data goes | two OpenBridge systems, two hotspot slots, three voice and two data streams, spread over eleven networks; calls of four packets with one burst C, sequence numbers modulo 6, a hotspot that changes systems |
| `connections` | sessions and links over a bad network | two hotspots and two ports, or two hotspots and one port, with two faults; five configurations of a link, with one or two mishaps |

Why the bounds suffice. The handlers treat slots, systems and talkgroups alike
and only compare them for equality, so the hazards need a talkgroup and another
one, a caller and another one, a master, a linked one and one that is neither. Group and private
calls are kept to slot 2, because reflector legs are on slot 2 and conference legs
of the two slots never meet. The exception, private calls on slot 1, is the run
`two_links`. Timers need only "running", "just run out" and "long run out":
one-tick timeouts, with `LegIdle` as the floor. The one case with two timeouts
(`RetimeSystem`) is in `dial`.

`streams` looks at one or two streams at a time: a network says which system hears
which stream, and the eleven networks are the ways in which two copies, or two
calls on one slot or leg, can meet (link and link, link and hotspot, hotspot and
hotspot, two calls on each, a link that only is a target, data with data, data
with voice). Ages are capped above the longest limit, the limits keep their order
(1, 2, 2, 2, 3, 3 and 4 ticks), and a call of four packets has a header, a burst
C, a plain burst and a terminator, the kinds the handlers tell apart. Six
sequence numbers leave room for a repeated, a late and a skipped packet. A stream on
three paths at once is not in the run; for what is proved (section 4) there is no such bound.

`connections` has two faults: one loss or copy is what the code is written for, and
two, or a restart, is what breaks a session, after which only recovery is asked. `MaxMissed` and the proxy's timer have their real length of three
periods, because the hazard is that they are equal. One scene has a port to
spare, so that a client may come back on another one; one has a port too few. The
link's minute of silence is two periods, and so is its BCVE interval.

What the two runs show: the rules of election never silence a stream altogether
(`NoMutualYield`, `GapRecovers`, `LineageKept`), a hotspot does not cut in on another
copy (`HotspotWaits`), a call ends by its own terminator or by silence
(`OnlyOwnTermEnds`, `ClaimHonest`), data goes out on one link and only to where its hotspot is (`DataFromFirst`, `DataReachesHotspot`); one lost,
repeated or late packet interrupts neither a session nor a link (`RidesOut`,
`LinkRidesOut`), and after any faults both come back (`ServiceReturns`, `LinkReturns`).
Several of these are narrower than one would write first. `HotspotWaits`
exempts a stream that has just ended and a call that the hotspot already has;
`GapRecovers` exempts bursts C; `LinkRidesOut` asks that both ends speak the newest
version; `LinkReturns` needs the end that moves to know the other. Without them
they would not hold of the code; section 6 says what it does.

Runs that expect a violation. Each compares the code with what the repository
says of it:

- `two_links`: reflector legs are on TS 2 but the private call compares their TS
  with its own slot, so calls on slot 1 pile up active reflectors, against "only one
  user-activated reflector per MASTER". In `dial`, where private calls come on
  slot 2, the same property holds.
- `trim_static`: the trimmer takes a STAT bridge with an active static leg on it,
  because an OFF leg counts as in use only while inactive. In `table`, where the
  static talkgroup and the OpenBridge traffic do not meet, the property holds.
- `selfcare_linked`: `selfcare_disconnect` switches the hotspot's legs off first,
  and so `deactivate_linked_ipsc_bridge_legs` finds nothing to do on conference
  bridges.
- `gate`: `CONFIG.pop('_OPTIONS_DIRTY', True)` is true when the mark is absent, so
  unchanged ticks are never skipped. This also hides any writer that forgot the
  mark, which is why `NoLostOptions` and not `OptionsApplied` is the property that
  watches the mark.
- `ipsc_statics`: an IPSC slot starts with `OPTIONS ''`, and the first pass takes
  its configured static talkgroups away.

Each property of a passing run has a mutant: a definition changed the way a bug
would change the code (a dropped guard, a missing index update, the wrong
TO_TYPE), on which TLC finds the property violated. The mutants stand before
the operators they replace and are marked `Mutant:`.

### Liveness and fairness

`LiveSpec` assumes that start-up finishes, that time passes and that
`rule_timer_loop` and `statTrimmer` run again and again: Twisted reschedules a
`LoopingCall` as long as it returns. It does not if the function raises once
(`loopingErrHandle` only logs), so the liveness results are about a server whose
loops have not raised. No fairness is put on calls, sessions or options. The
liveness properties speak of the time after the last of them (`Quiet`), because a
caller who keys for ever can hold a link for ever. `OptionsLiveSpec` assumes the same
of `options_config` and of the maintenance loop of an empty slot, and of no peer.

`ConnectionsSpec` assumes weak fairness of `System` and of `LinkSystem`: the
client's, the proxy's and the server's loops run once a period, a packet that the
network neither loses nor delays arrives within the period, and time passes. One
weak fairness condition for all of them is enough, because each of these steps
uses up what enables it (a loop that is due, a packet on its way) and `Tick`
waits for the others. Nothing is assumed of faults, which a budget ends, of late
copies, which may stay away for ever, nor of streams.

## 4. The proofs

Proved by TLAPS for every choice of systems, talkgroups, callers, streams, hotspots,
networks, limits and numbers of faults that meets the assumptions the modules name
(`SystemsAssumption`, `TGAssumption`, `ParsedAssumption`, `TimeAssumption`,
`PairsAssumption` and so on) and, where the table says so, the hypothesis of the theorem:

| Theorem | Statement |
|---|---|
| `TypeCorrect` | `Spec => []TypeOK` |
| `IndexCorrect` | `Spec => []IndexConsistent` |
| `RoutingCorrect` | `Spec => []RoutingComplete` |
| `OwnersLeave` | `Spec => []OwnerOnlyWhileLinked` |
| `LinksAlone` | `Spec => []OneDynamicReflector`, if `PrivateSlots \subseteq {2}` |
| `StaticsStay` | `Spec => []StaticLegKept`, if `StaticsApart` |
| `TrimSpares` | `Spec => TrimSparesActiveLinks` |
| `OthersTimerSpared` | `Spec => GroupCallSparesOthersTimer` |
| `SingleModeSound` | `Spec => SingleModeLeavesOne` |
| `KeyupLocalToMaster` | `Spec => KeyupIsLocal` |
| `OptionsRefineTable` | `OptionsSpec => Spec` |
| `OptionsIndexCorrect` | `OptionsSpec => []IndexConsistent` |
| `OptionsTypeCorrect` | `OptionsSpec => []OptionsTypeOK` |
| `NoOptionsLost` | `OptionsSpec => []NoLostOptions` |
| `OptionsKeepStatics` | `OptionsSpec => []StaticLegKept`, if `StaticsApart` |
| `OptionsKeepLinks` | `OptionsSpec => [](OneDynamicReflector /\ OwnerOnlyWhileLinked)`, if `PrivateSlots \subseteq {2}` |
| `DataTypes` | `DataSpec => []DataTypeOK` |
| `ClaimsHonest` | `DataSpec => []ClaimHonest` |
| `NoTwoYield` | `DataSpec => []NoMutualYield` |
| `DataFindsHotspot` | `DataSpec => []DataReachesHotspot` |
| `CallsEndByThemselves` | `DataSpec => OnlyOwnTermEnds` |
| `LineageGoverns` | `DataSpec => LineageKept` |
| `GapsEnd` | `DataSpec => GapRecovers` |
| `HotspotsWait` | `DataSpec => HotspotWaits` |
| `DataComesFromFirst` | `DataSpec => DataFromFirst` |
| `LoginTypes` | `Spec => []TypeOK` |
| `BooksAgree` | `Spec => []LeasesTracked` |
| `LoginImplementsLease` | `Spec => LeaseSpec` |
| `SessionRides` | `Spec => RidesOut`, if `MaxMissed >= 3` and `Timeout >= 3` |
| `LinkTypes` | `LinkSpec => []LinkTypeOK` |
| `QuenchesHonest` | `LinkSpec => []QuenchHonest` |
| `LinkRides` | `LinkSpec => LinkRidesOut` |
| `ConnectionsSafe` | `ConnectionsSpec => [](TypeOK /\ LinkTypeOK /\ LeasesTracked /\ QuenchHonest) /\ LeaseSpec /\ LinkRidesOut` |
| `ConnectionsRide` | `ConnectionsSpec => RidesOut`, if `MaxMissed >= 3` and `Timeout >= 3` |

The assumptions are the shape of a configuration: master and OpenBridge
systems are disjoint, talkgroups are numbers above 5 that are neither service codes nor
parrot or on-demand numbers, thresholds are not negative, and the limits of loop
control stand in the order they have in the code
(`STREAM_TO < _HBP_CLAIM_TIMEOUT_S <= _TERM_TOMBSTONE_TTL_S < 60 s <= 180 s`), and
an unknown address is not one of the addresses of an end.

The argument for the table. `IndexConsistent` is not inductive alone: an
operator that renames keys needs to know the legs are well formed. The invariant
is `Inv`: the table is `Good` (well-formed legs, and `idx = IndexOf(legs)`) and
the other variables have their types. Three lemmas do most of the work.
`GoodMapped`: changing legs without touching their keys (ACTIVE, TIMER, LINKER)
keeps the table good with no index update. `GoodAddLegs`: adding the legs of a
bridge and `_idx_add_bridge` keeps it good. `GoodReplace`: rewriting the legs of
one bridge and `_idx_replace_bridge` keeps it good. Then there is one lemma per
operator of BridgeOps, one per action, and the temporal step. `RoutingCorrect`
follows because with an exact index the candidate bridges of a key are the bridges
that have a leg with that key.

The argument for the links. What the index does not hold (TYPE, ACTIVE, TIMER, LINKER) needs
an invariant of its own, `Linked`: the legs of a master have the shape the code gives
them (`Shaped`: on a reflector they are on TS 2 with talkgroup 9, and none is STAT), an owner
stands on active links only (`OwnerOK`), a master has one leg on a reflector (`Single`),
and one active link (`OneLink`). All four are needed together: a private call finds "its"
leg and switches off the links of the others, and only because the leg on a
reflector is single is there no second one left on. Every operator of BridgeOps
but one either maps legs one to one without starting a link (`Calm`, `FollowsMap`), takes
legs away (`LinkedSubset`) or adds legs that are off and new (`Fresh`, `FollowsAdd`); the
exception is the one that links a reflector, and it has a proof of its own.
`OneLink` holds under `PrivateSlots \subseteq {2}`: `two_links` is the counterexample without it.
`StaticLegKept` needs one thing more, that no mapping and no removal touches the place of
a static talkgroup (`StaticSpots`) unless the options change with it; the trimmer does so for
a talkgroup on which OpenBridge traffic comes in, so the hypothesis `StaticsApart` keeps the
two sets of talkgroups apart (or STAT bridges are off), and `trim_static` is the
counterexample without it. The action properties follow from one lemma per handler that
names what becomes of each leg: `GroupCallEndLegs` for `OthersTimerSpared` and
`SingleModeSound`, `KeyupLocal` for `KeyupLocalToMaster`, `StatTrimLegs` for
`TrimSpares`. They use `Single` and `Shaped` to know that a leg after the call is the same leg.

For the options layer `OptionsInv` joins the types, `ConfigOK` (the options in
force can be parsed again) and `NoLostOptions`. The last needs `ConfigOK` for the step of a
pass: what a pass has applied must parse to itself while the string does not
change. What is proved of the links and statics holds there by the refinement.

The argument for the streams. `DataInv` joins `DataTypeOK`, `ClaimHonest` and
`MapInv` (an entry of the map names a system and a hotspot logged in there: that
makes `DataReachesHotspot` inductive, since entries are cleared when a session ends; a login
that fails may clear nothing, since nobody can have spoken on it).
`ClaimHonest` needs, for the handler that renews a claim, that the slot and the claim
are stamped by the same packet. `NoMutualYield` needs no history at all: if each of
two links elected the other, both would be claimants with a stamp, so the two
elections would be over the same records and have the same winner. 
`OnlyOwnTermEnds`, `LineageKept` and `GapRecovers` split on the handlers and follow from
types. `HotspotWaits` reads the record, claim or tombstone of who spoke last, so it needs
`SpeakersMarked`: the last speaker of a stream has left a mark (a live claim, a record with its
1ST stamp, or a tombstone), and who comes after finds it. `DataFromFirst` is about
an election over stamps that many handlers set and the trimmer removes: `StampsOrdered` says
that any two stamps are comparable and that every set of them has a first, so an
election has one winner, and a stub, which has no stamp, never wins.
LoopControl_proofs says what each handler does, UnitData_proofs puts them together.

The argument for the login. `LoginInv` has three parts beyond types. `LeaseInv`: the
proxy's two tables are changed in one step and agree. `WireInv`: what comes from a
client names that client. `Conveyed`: there is at most one packet between proxy and
server, and unless it closes a session it comes from the hotspot that holds the
port. The last is why a system admits only the holder of its port, and with it
every step maps to a step of PortLease. `SessionInv` says that a session that is
too old is about to be looked at, which bounds its age.

`RidesOut` needs more: why the fault of a packet long gone cannot end a session. `Riding`
holds until the second fault and has three parts. `Sound`: every packet on its
way, a late copy too, tells the truth about the session it belongs to, so a
system refuses nothing, and nobody is told to log in again; leases and sessions only
grow meanwhile (`Grows`). `Timely`: a client, a tracked client or a session that was
silent for n periods has lost n packets, but for one that is due or on its way; with
`MaxMissed >= 3` and `Timeout >= 3` no loop gives anybody up. Pings are answered
only by an established session, so `Timely` rests on the third part: a
client has one packet on its way at a time, in step with its state (`Solo`), or else a
packet of its own was repeated and none was lost, and its configuration is ahead of
its pings (`Sure`). Losing a packet keeps `Solo`, repeating one keeps `Sure`, and neither
alone is kept by both. A step is that of one client (`Keeps`); the rest are `Apart`.
The hypothesis is what `MAX_MISSED` (3) and the proxy's timeout (30 s, three periods)
are by default; below it one lost ping can be enough.

The argument for the link. `LinkInv` follows the packets: one on its way to an end
comes from the other, has a version that end may speak, and if it is a quench its
sender refuses the stream. Refusal depends on the configuration alone, so an
old or repeated quench is as honest as a new one. `LinkRidesOut` is about what does
not happen in a row of losses, and `Steady` counts them: as long as fewer than `Silent`
packets were lost and nobody restarted or moved, every address is known
or still to be learned and never wrong (`PlacesSteady`), and an end that has not been heard of
for n periods has lost n keepalives, less one that is due or on its way
(`KeptAlive`). Streams refresh the link too, but nothing needs them.

Only model-checked: liveness (`LinksEnd`, `StaticsReturn`, `OptionsApplied`,
`ServiceReturns`, `LinkReturns`), which is out of the prover's reach.

## 5. What is abstracted or left out

- A bridge is a set of legs: two equal entries collapse. `_ensure_master_on_legs`
  can put an ON leg beside a static OFF leg of the same slot, which the model has.
- `LinkOf` and `SingleMode` are constants; OPTIONS can change both while running.
- One static talkgroup per slot; lists act on disjoint bridges.
- Sticky TG, the parrot 9990, on-demand files and bridges from a rules file.
- Packets between the first and the last of a call change no leg; packet control
  and duplicate suppression decide only whether a packet is handled.
- A slot has one peer (`MAX_PEERS: 1` behind the proxies).
- An exception inside `options_config`, which leaves the mark and goes on with the
  next system.
- Announcements and the threads that play them.
- LoopControl: one slot per system, one talkgroup per stream, the private-voice
  path, CRCs of repeated frames, rewriting of link control, and the first seconds after
  start-up, when a slot's time stamps are fresh though nothing was said.
- BridgeTable: `augment_bridges_for_masters`, which adds legs to bridges of a rules file
  and of generated slots at start-up.
- SlotOptions: addresses. A login packet from the session's own address changes nothing and
  one from another address starts the session over, so `Login` is possible in any state.
- UnitData: the gateways for data and D-APRS, the filters of links by talkgroup
  and version, the contents of data; the pickle of `SUB_MAP` (the map is empty at first);
  a hotspot that logs in to the same system again from another address, which keeps its
  entries while it is not logged in; the instant between the two readings of the clock
  in the maintenance loops of `routerHBP` and `HBSYSTEM`.
- HotspotLogin: access lists and the blacklist, hotspots that change their address
  without a proxy, voice that counts as a ping, the self-service timers of the
  proxy, XLX. The three copies of MSTCL are one packet.
- ObpLink: STUN, a wrong NETWORK_ID, RELAX_CHECKS, the length of `_laststrid`, links with
  ENHANCED_OBP at one end only, what the hashes are. `Refuses` stands for every
  reason for which `hblink.py` drops a stream; the quench of `routerOBP`, which is
  sent when another link owns the stream, is in LoopControl's world.

## 6. Observations

Found while reading, not the subject of a run:

- A default reflector that a logout or 4000 switches off keeps TO_TYPE OFF and a
  spent timer, so the next `rule_timer_loop` brings it back with nobody logged in.
- While a generated slot is empty its maintenance loop asks for a reset on every
  run, so every pass resets it, and the reset can still be pending when the next
  peer logs in: links it made before the pass are lost ("no peers", says the log).
- A ping timeout on a slot without default options deletes OPTIONS but, unlike
  RPTCL, asks for no reset.
- `remove_bridge_system` switches static legs off with a full timer, and a pass that
  finds the same options does not switch them on: after a reset the slot is without
  statics until DEFAULT_UA_TIMER has passed.
- A link made by `[A]` has no owner until its first terminator, and whoever
  sends that becomes it. `[E]` restarts the timer of a link that another
  subscriber owns.
- A private call to 8, or to any number above 999999, which is every radio's, raises
  `UnboundLocalError` at `bridge_master.py:3753`: `_bridgename` is only set for the others. It
  does so on each packet, after `[B]`-`[H]` have switched the links of the slot off and before
  `STATUS` is marked, so the terminator's `[P]` and the forwarding of private voice are not
  reached.
- `deactivate_other_dynamic_reflectors` has nothing left to do when it is called
  there: the branches above have switched the same links off.
- A UA timer shorter than a call ends the link during the call.
- Single mode does not switch off the linked IPSC leg of the talkgroup it leaves.
- LINK_IPSC is set from OPTIONS and never removed.
- PRCL or a de-registration for a peer id nobody knows clears the reflectors of the
  session that is there.

Of the streams:

- RX_TYPE and TX_TYPE hold the number of the last frame, and burst C has the number
  of the terminator. After each burst C a slot looks finished: another call may cut in,
  and a header of the same stream counts as a new call.
- The first packet of a stream on a link skips the election, and its sequence number
  is not kept.
- Forwarding refreshes LAST of a record that has a 1ST stamp, so a link that has
  stopped hearing a stream can own it as long as another forwards to it; the
  forwarder then yields to it.
- A mirrored copy of the terminator replaces the finished record of the first link
  by a stub, and `_fin` is gone.
- A late packet after a terminator opens a hotspot's call again, and its own terminator
  may be taken for a repeated one: the slot stays busy until the trimmer.
- A hotspot whose copy loses to an OpenBridge one still takes over the `SUB_MAP` entry of
  the radio.

Of unit data:

- A data packet never sets RX_STREAM_ID, so the test that lets a hotspot's own
  copy of a data stream go first never succeeds.
- The link that was first keeps a data stream for 180 s after its last packet, even
  if it is dead.
- The end of an old session, on the system the hotspot has left, clears the
  entry its new session has made.
- After a restart the saved `SUB_MAP` names systems on which nobody is logged in yet. An
  entry goes when its hotspot or another one on its system logs in; until then, or for a
  day, data for the radio is sent to an empty system and not to its owner's hotspot.
- A `SUB_MAP` pickle that names a system no longer configured makes the data path
  raise.

Of sessions:

- Client, proxy and server all wait three pings. With two of them lost the proxy's
  timer races the third.
- The proxy drops a peer on MSTCL from any port, and so the timeout of a session
  left behind at another port ends a healthy one.
- RPTCL during a login is ignored, and the port stays taken until the timeout.
- A second challenge ACK makes a client that has answered the first start over.
- A self-service timer of a peer that is gone still fires and sends the options
  stored for it.

Of links:

- When one end of a version 1 or 2 link raises its version by BCVE, streams from
  the other are not understood until it has raised its own.
- Two ends that move at the same time never find each other again.
- One quench is sent per stream, except for too many hops: when it is lost the stream keeps coming. A stale
  first packet of a refused stream has the same effect. A quench is lifted only by the
  trimmer, for streams that were lost, not for those that finished.
- BCST is checked against a hash of the wrong bytes and sets `_STUN` where `STUN` is
  read: it has no effect.
- A late keepalive from the old address sends streams there until the next.

Of the selfcare database: options a user saves between the poll's select and
`clear_modified` are lost.

## 7. Plan

Done: the table with its signalling, loops and options; loop control with unit data;
sessions behind the proxy; OpenBridge links. Next:

1. Selfcare polls row by row, with the database as an actor.
2. Sticky TG in `rule_timer_loop`, on the map of UnitData.

Not modelled, and why: announcements (threads whose only effect is packets sent),
parrot and playback (one stream recorded and replayed), IPSC voice translation
(numeric code over one stream, with unit tests of its own), the IPSC proxy (the hotspot
proxy over again, with another handshake), reports, configuration and aliases (nothing
that routing waits for), `bridge.py`, `bridge_all*.py` and `hotspot_proxy_v2.py` (older forms
of the modelled programs).
