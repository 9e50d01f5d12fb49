------------------------------- MODULE ObpLink -------------------------------
(***************************************************************************)
(* The two ends of an OpenBridge link.  With ENHANCED_OBP, at both ends, they  *)
(* find each other's address, agree on a version of the protocol, keep the    *)
(* link alive, and refuse streams; without it there are only streams.         *)
(*                                                                         *)
(*   BCKA  keepalive, every 10 s; teaches the other end where to send         *)
(*   BCVE  the newest version this end has, every 60 s                       *)
(*   BCSQ  "source quench": do not send this stream                         *)
(*   DMR   a packet of a stream, in the layout of the sender's version        *)
(*                                                                         *)
(* Packets are lost, repeated, delayed and reordered, an end may restart, and   *)
(* an end on a dynamic address may move, within a budget of mishaps.  Time is   *)
(* counted in periods of the keepalive timer.                               *)
(***************************************************************************)
EXTENDS Integers

CONSTANTS
    Ends,          \* two servers, the same program
    Streams,
    Nowhere,       \* TARGET_IP False: the address is not known
    Pairs,         \* how the two ends are configured, what they say and what befalls them
    Newest,        \* VER of const.py, 5
    Silent,        \* periods without a keepalive before nothing is sent, 6
    VerPeriods,    \* periods between two BCVE, 6
    MaxPacketAge   \* MAX_PACKET_AGE in periods, 1.5

ASSUME EndsAssumption ==
    /\ \E a, b \in Ends : a # b /\ Ends = {a, b}
    /\ \A e \in Ends : Nowhere \notin {<<e, 0>>, <<e, 1>>}
ASSUME PairsAssumption ==
    \A c \in Pairs :
        /\ c.enhanced \in BOOLEAN
        /\ c.ver \in [Ends -> 1 .. Newest]
        /\ c.knows \subseteq Ends /\ c.moves \subseteq Ends
        /\ c.says \subseteq Ends \X Streams /\ c.refuses \subseteq Ends \X Streams
        /\ c.far \subseteq c.refuses
        /\ c.mishaps \in Nat
ASSUME PeriodsAssumption ==
    Newest \in Nat \ {0} /\ Silent \in Nat \ {0} /\ VerPeriods \in Nat \ {0} /\ MaxPacketAge \in Nat

VARIABLES
    pair,          \* the configuration
    ver,           \* VER: the version an end speaks
    target,        \* TARGET_SOCK: where it sends, and from where it takes streams
    at,            \* its own address
    heard,         \* age of _bcka, or Unheard
    quenched,      \* _bcsq: streams the other end does not want (each on its talkgroup)
    warned,        \* _laststrid: streams whose refusal was logged
    air,           \* packets on their way
    chores,        \* pairs <<end, type>>: timers that have yet to run in this period
    talk,          \* pairs <<end, stream>>: who may still say a packet in this period
    since,         \* periods since the last BCVE
    mishaps,       \* how many more there will be
    wear           \* history: network faults met, at most Silent

linkVars == <<pair, ver, target, at, heard, quenched, warned, air, chores, talk, since,
              mishaps, wear>>

Unheard  == -1
Home(e)  == <<e, 0>>
Other(e) == CHOOSE f \in Ends : f # e
Addresses(e) == {<<e, 0>>, <<e, 1>>}

ConfiguredTarget(e) == IF e \in pair.knows THEN Home(Other(e)) ELSE Nowhere
Timers == {"BCKA", "BCVE"}
Running(types, E) == IF pair.enhanced THEN E \X types ELSE {}

(* startProtocol starts both timers at once.                                  *)
LinkInit ==
    /\ pair \in Pairs
    /\ ver = pair.ver
    /\ target = [e \in Ends |-> ConfiguredTarget(e)]
    /\ at = [e \in Ends |-> Home(e)]
    /\ heard = [e \in Ends |-> Unheard]
    /\ quenched = [e \in Ends |-> {}]
    /\ warned = [e \in Ends |-> {}]
    /\ air = {}
    /\ chores = Running(Timers, Ends)
    /\ talk = pair.says
    /\ since = [e \in Ends |-> 0]
    /\ mishaps = pair.mishaps
    /\ wear = 0

-----------------------------------------------------------------------------
(* Sending.  Nothing is sent to an unknown address, and no control packet        *)
(* without ENHANCED_OBP.                                                     *)

Sending(e, type, v, s) ==
    IF target[e] = Nowhere THEN {}
    ELSE {[type |-> type, ver |-> v, stream |-> s, src |-> at[e], dst |-> target[e],
           age |-> 0, late |-> FALSE]}

Control(e, type) == IF pair.enhanced THEN Sending(e, type, Newest, Nowhere) ELSE {}
Quench(e, s)     == Sending(e, "BCSQ", Newest, s)

Timer(e, type) ==
    /\ <<e, type>> \in chores
    /\ chores' = chores \ {<<e, type>>}
    /\ air' = air \cup Control(e, type)
    /\ UNCHANGED <<pair, ver, target, at, heard, quenched, warned, talk, since, mishaps, wear>>

(* Mutant: the last period in which the link counts as alive is cut off.        *)
AliveShort(e) == pair.enhanced => heard[e] < Silent

(* A link from which nothing was heard for a minute is not sent anything.  One   *)
(* that was never heard is sent what comes from hotspots.                      *)
Alive(e) == pair.enhanced => heard[e] <= Silent

Talk(e, s) ==
    /\ <<e, s>> \in talk
    /\ talk' = talk \ {<<e, s>>}
    /\ Alive(e) /\ s \notin quenched[e]
    /\ air' = air \cup Sending(e, "DMR", ver[e], s)
    /\ UNCHANGED <<pair, ver, target, at, heard, quenched, warned, chores, since, mishaps, wear>>

-----------------------------------------------------------------------------
(* Receiving.                                                               *)

(* Mutant: the version last received counts.                                 *)
RaisedAlways(e, v) == [ver EXCEPT ![e] = v]

(* Downgrades are not allowed.                                               *)
Raised(e, v) == [ver EXCEPT ![e] = IF v > @ THEN v ELSE @]

(* Mutant: a keepalive from elsewhere does not change the address.             *)
LearnedNever(e, m) == target

Learned(e, m) == [target EXCEPT ![e] = m.src]

(* Which layouts an end of version w takes from one of version v: 1 is DMRD, 2    *)
(* and 3 are DMRF, whose hash they compute over different parts, 4 and 5 DMRE.   *)
Understood(v, w) ==
    \/ v = 1 /\ w = 1
    \/ v = 2 /\ w = 2
    \/ v = 3 /\ w > 2
    \/ v \in 4 .. Newest

Genuine(e, m) == Understood(m.ver, ver[e]) /\ m.src = target[e]

(* Streams refused by access lists, talkgroup filter, source server or hops.     *)
Refuses(e, s) == <<e, s>> \in pair.refuses

(* One whose packets have come over too many links: DMRD does not count them.     *)
Far(e, s) == <<e, s>> \in pair.far

Refused(e, m) == Refuses(e, m.stream) /\ (Far(e, m.stream) => m.ver > 1)

(* DMRD carries no time stamp.                                               *)
Stale(m) == m.ver > 1 /\ m.age > MaxPacketAge

(* Mutant: a stale packet is answered by a quench.                            *)
AnswerStale(e, m) ==
    IF /\ Stale(m) \/ Refused(e, m)
       /\ m.stream \notin warned[e] \/ Far(e, m.stream)
    THEN Quench(e, m.stream) ELSE {}

(* The first packet of a refused stream is answered by a quench, and each one of a *)
(* stream that has come too far.                                               *)
Answer(e, m) ==
    IF /\ ~Stale(m) /\ Refused(e, m)
       /\ m.stream \notin warned[e] \/ Far(e, m.stream)
    THEN Quench(e, m.stream) ELSE {}

(* Which of the packets that are dropped are remembered.                         *)
Remembered(e, m) == IF Stale(m) THEN m.ver > 3 ELSE ~Far(e, m.stream)

Warned(e, m) == warned' = [warned EXCEPT ![e] = @ \cup {m.stream}]

(* A packet the end can make something of: stale ones and refused streams are    *)
(* dropped, the others go to the router.                                       *)
Taken(e, m, rest) ==
    /\ ver' = IF m.ver > 3 THEN Raised(e, m.ver) ELSE ver
    /\ air' = rest \cup Answer(e, m)
    /\ \/ /\ Stale(m) \/ Refused(e, m)
          /\ IF Remembered(e, m) THEN Warned(e, m) ELSE UNCHANGED warned
          /\ UNCHANGED heard
       \/ /\ ~Stale(m) /\ ~Refused(e, m)
          /\ heard' = [heard EXCEPT ![e] = 0]
          /\ UNCHANGED warned

(* A packet of a stream; rest is what else is on its way.                      *)
StreamPacket(e, m, rest) ==
    \/ /\ m.ver = 1 /\ ver[e] > 1              \* prohibited: say what we speak
       /\ air' = rest \cup Control(e, "BCVE")
       /\ Warned(e, m)
       /\ UNCHANGED <<ver, heard>>
    \/ /\ ~(m.ver = 1 /\ ver[e] > 1) /\ ~Genuine(e, m)
       /\ air' = rest
       /\ UNCHANGED <<ver, heard, warned>>
    \/ Genuine(e, m) /\ Taken(e, m, rest)

ControlPacket(e, m, rest) ==
    /\ air' = rest
    /\ UNCHANGED warned
    /\ \/ /\ m.type = "BCKA"
          /\ heard' = [heard EXCEPT ![e] = 0]
          /\ target' = Learned(e, m)
          /\ UNCHANGED <<ver, quenched>>
       \/ /\ m.type = "BCVE"
          /\ ver' = Raised(e, m.ver)
          /\ UNCHANGED <<heard, target, quenched>>
       \/ /\ m.type = "BCSQ"
          /\ quenched' = [quenched EXCEPT ![e] = @ \cup {m.stream}]
          /\ UNCHANGED <<heard, target, ver>>

(* A packet to an address where the end no longer is goes nowhere.              *)
Arrives(m) ==
    /\ m \in air
    /\ \E e \in Ends :
          /\ m.dst \in Addresses(e)
          /\ \/ at[e] # m.dst /\ air' = air \ {m}
                /\ UNCHANGED <<ver, target, heard, quenched, warned>>
             \/ at[e] = m.dst /\ m.type = "DMR" /\ StreamPacket(e, m, air \ {m})
                /\ UNCHANGED <<target, quenched>>
             \/ at[e] = m.dst /\ m.type # "DMR" /\ ControlPacket(e, m, air \ {m})
    /\ UNCHANGED <<pair, at, chores, talk, since, mishaps, wear>>

-----------------------------------------------------------------------------
Mishap == mishaps > 0 /\ mishaps' = mishaps - 1

NetworkMishap ==
    /\ Mishap
    /\ wear' = IF wear < Silent THEN wear + 1 ELSE wear
    /\ UNCHANGED <<pair, ver, target, at, heard, quenched, warned, chores, talk, since>>

LosePacket(m) == m \in air /\ ~m.late /\ NetworkMishap /\ air' = air \ {m}

(* A second copy, which may take any time.                                    *)
RepeatPacket(m) ==
    m \in air /\ ~m.late /\ NetworkMishap /\ air' = air \cup {[m EXCEPT !.late = TRUE]}

(* What an end has learned is lost when it restarts.                           *)
RestartEnd(e) ==
    /\ Mishap /\ wear' = Silent
    /\ ver' = [ver EXCEPT ![e] = pair.ver[e]]
    /\ target' = [target EXCEPT ![e] = ConfiguredTarget(e)]
    /\ heard' = [heard EXCEPT ![e] = Unheard]
    /\ quenched' = [quenched EXCEPT ![e] = {}]
    /\ warned' = [warned EXCEPT ![e] = {}]
    /\ chores' = chores \cup Running(Timers, {e})
    /\ since' = [since EXCEPT ![e] = 0]
    /\ UNCHANGED <<pair, at, air, talk>>

Move(e) ==
    /\ e \in pair.moves
    /\ Mishap /\ wear' = Silent
    /\ \E a \in Addresses(e) \ {at[e]} : at' = [at EXCEPT ![e] = a]
    /\ UNCHANGED <<pair, ver, target, heard, quenched, warned, air, chores, talk, since>>

LinkTick ==
    /\ chores = {} /\ \A m \in air : m.late
    /\ heard' = [e \in Ends |-> IF heard[e] = Unheard THEN Unheard
                                ELSE IF heard[e] > Silent THEN heard[e] ELSE heard[e] + 1]
    /\ air' = {[m EXCEPT !.age = IF @ > MaxPacketAge THEN @ ELSE @ + 1] : m \in air}
    /\ since' = [e \in Ends |-> IF pair.enhanced THEN (since[e] + 1) % VerPeriods ELSE 0]
    /\ chores' = Running({"BCKA"}, Ends) \cup Running({"BCVE"}, {e \in Ends : since'[e] = 0})
    /\ talk' = pair.says
    /\ UNCHANGED <<pair, ver, target, at, quenched, warned, mishaps, wear>>

LinkSystem ==
    \/ \E e \in Ends, type \in Timers : Timer(e, type)
    \/ \E m \in air : ~m.late /\ Arrives(m)
    \/ LinkTick

LinkOthers ==
    \/ \E e \in Ends, s \in Streams : Talk(e, s)
    \/ \E m \in air : (m.late /\ Arrives(m)) \/ LosePacket(m) \/ RepeatPacket(m)
    \/ \E e \in Ends : RestartEnd(e) \/ Move(e)

LinkNext == LinkSystem \/ LinkOthers

LinkSpec == LinkInit /\ [][LinkNext]_linkVars
-----------------------------------------------------------------------------
PacketType == [type : Timers \cup {"BCSQ", "DMR"}, ver : 1 .. Newest,
               stream : Streams \cup {Nowhere},
               src : UNION {Addresses(e) : e \in Ends}, dst : UNION {Addresses(e) : e \in Ends},
               age : 0 .. MaxPacketAge + 1, late : BOOLEAN]

(* The tables keep their shape, and no end ever speaks an older version than the  *)
(* one it is configured with ("downgrade not allowed", hblink.py 809).          *)
LinkTypeOK ==
    /\ pair \in Pairs
    /\ \A e \in Ends :
          /\ ver[e] \in pair.ver[e] .. Newest
          /\ target[e] \in Addresses(Other(e)) \cup {Nowhere}
          /\ at[e] \in Addresses(e)
          /\ heard[e] \in {Unheard} \cup 0 .. Silent + 1
    /\ quenched \in [Ends -> SUBSET Streams]
    /\ warned \in [Ends -> SUBSET Streams]
    /\ air \subseteq PacketType
    /\ chores \subseteq Ends \X Timers
    /\ since \in [Ends -> 0 .. VerPeriods - 1]
    /\ wear \in 0 .. Silent

(* Only a stream the other end refuses is ever quenched, however late or often    *)
(* its packets come: hblink.py 536, "Discard genuinely stale packets without      *)
(* quenching an otherwise healthy stream for one delayed datagram".             *)
QuenchHonest == \A e \in Ends : \A s \in quenched[e] : Refuses(Other(e), s)

(* The link is up: each end sends, to where the other is, what the other takes.    *)
Passes(e) ==
    LET f == Other(e) IN
    /\ target[e] = at[f] /\ target[f] = at[e]
    /\ Understood(ver[e], ver[f])
    /\ heard[e] # Unheard /\ Alive(e)
Up == \A e \in Ends : Passes(e)

(* A link that is up and speaks the newest version stays up while fewer packets    *)
(* than Silent are lost or repeated: no single keepalive, version or address is   *)
(* indispensable.                                                           *)
LinkRidesOut ==
    [][Up /\ (\A e \in Ends : ver[e] = Newest) /\ wear' < Silent => Up']_linkVars

(* When the mishaps are over an enhanced link comes up and stays up, whatever     *)
(* versions the ends are configured with, and although one of them restarted or   *)
(* moved, as long as that one knows where the other is.                         *)
LinkReturns == pair.enhanced => <>[]Up
=============================================================================
