---------------------------- MODULE ObpLink_proofs ----------------------------
(***************************************************************************)
(* No end of a link speaks an older version than the one it is configured     *)
(* with, and none quenches a stream the other end would take: proofs for       *)
(* every configuration of the ends, any number of streams and of mishaps.      *)
(*                                                                         *)
(* The invariant follows the packets: one that is on its way to an end comes   *)
(* from the other, and a quench was sent by an end that refuses the stream.     *)
(***************************************************************************)
EXTENDS ObpLink, TLAPS

PacketOK(m) ==
    /\ m \in PacketType
    /\ \E e \in Ends :
          /\ m.src \in Addresses(e) /\ m.dst \in Addresses(Other(e))
          /\ m.type = "DMR" => m.stream \in Streams
          /\ m.type = "BCSQ" => m.stream \in Streams /\ Refuses(e, m.stream)

VersionInv == ver \in [Ends -> 1 .. Newest] /\ \A e \in Ends : ver[e] >= pair.ver[e]

PlacesInv ==
    /\ target = [e \in Ends |-> target[e]]
    /\ \A e \in Ends : target[e] \in Addresses(Other(e)) \cup {Nowhere}
    /\ at = [e \in Ends |-> at[e]]
    /\ \A e \in Ends : at[e] \in Addresses(e)

HeardInv == heard \in [Ends -> {Unheard} \cup 0 .. Silent + 1]

StreamsInv ==
    /\ quenched \in [Ends -> SUBSET Streams] /\ QuenchHonest
    /\ warned \in [Ends -> SUBSET Streams]

AirInv == \A m \in air : PacketOK(m)

TimersInv == chores \subseteq Ends \X Timers /\ since \in [Ends -> 0 .. VerPeriods - 1]

LinkInv ==
    /\ pair \in Pairs
    /\ VersionInv /\ PlacesInv /\ HeardInv /\ StreamsInv /\ AirInv /\ TimersInv
    /\ wear \in 0 .. Silent

-----------------------------------------------------------------------------
LEMMA OtherEnd ==
  ASSUME NEW e \in Ends
  PROVE  /\ Other(e) \in Ends /\ Other(e) # e /\ Other(Other(e)) = e
         /\ \A f \in Ends : f = e \/ f = Other(e)
<1>1. PICK a \in Ends, b \in Ends : a # b /\ Ends = {a, b}
  BY EndsAssumption
<1>2. \A f \in Ends : \E g \in Ends : g # f
  BY <1>1
<1>3. \A f \in Ends : Other(f) \in Ends /\ Other(f) # f
  BY <1>2 DEF Other
<1> QED BY <1>1, <1>3

LEMMA OneAddress ==
  ASSUME NEW e \in Ends, NEW f \in Ends, NEW a \in Addresses(e), a \in Addresses(f)
  PROVE  e = f
  BY DEF Addresses

LEMMA VersionsOfPair ==
  ASSUME LinkInv
  PROVE  pair.ver \in [Ends -> 1 .. Newest]
  BY PairsAssumption DEF LinkInv

(* What an end sends is in order.                                              *)
LEMMA SendingOK ==
  ASSUME PlacesInv, NEW e \in Ends, NEW type \in Timers \cup {"BCSQ", "DMR"},
         NEW v \in 1 .. Newest, NEW s \in Streams \cup {Nowhere},
         type = "DMR" => s \in Streams,
         type = "BCSQ" => s \in Streams /\ Refuses(e, s),
         NEW m \in Sending(e, type, v, s)
  PROVE  PacketOK(m)
<1>1. /\ m = [type |-> type, ver |-> v, stream |-> s, src |-> at[e], dst |-> target[e],
              age |-> 0, late |-> FALSE]
      /\ target[e] # Nowhere
  BY DEF Sending
<1>2. m.src \in Addresses(e) /\ m.dst \in Addresses(Other(e))
  BY <1>1 DEF PlacesInv
<1>3. 0 \in 0 .. MaxPacketAge + 1
  BY PeriodsAssumption
<1>4. m \in PacketType
  BY <1>1, <1>2, <1>3, OtherEnd DEF PacketType
<1> QED BY <1>1, <1>2, <1>4 DEF PacketOK

LEMMA ControlOK ==
  ASSUME PlacesInv, NEW e \in Ends, NEW type \in Timers, NEW m \in Control(e, type)
  PROVE  PacketOK(m)
<1>1. m \in Sending(e, type, Newest, Nowhere) /\ Newest \in 1 .. Newest
  BY PeriodsAssumption DEF Control
<1>2. type # "DMR" /\ type # "BCSQ"
  BY DEF Timers
<1> QED BY <1>1, <1>2, SendingOK

LEMMA AnswerOK ==
  ASSUME PlacesInv, NEW e \in Ends, NEW a, a.stream \in Streams, NEW m \in Answer(e, a)
  PROVE  PacketOK(m)
<1>1. m \in Sending(e, "BCSQ", Newest, a.stream) /\ Refuses(e, a.stream) /\ Newest \in 1 .. Newest
  BY PeriodsAssumption DEF Answer, Refused, Quench
<1> QED BY <1>1, SendingOK

(* A refusal depends on the configuration alone.                                *)
LEMMA PacketKept ==
  ASSUME pair' = pair, NEW m, PacketOK(m)
  PROVE  PacketOK(m)'
  BY DEF PacketOK, Refuses

LEMMA AirKept ==
  ASSUME AirInv, pair' = pair, \A m \in air' : m \in air \/ PacketOK(m)
  PROVE  AirInv'
<1>1. ASSUME NEW m \in air' PROVE PacketOK(m)'
  BY <1>1, PacketKept DEF AirInv
<1> QED BY <1>1 DEF AirInv

LEMMA PlacesKept ==
  ASSUME PlacesInv, UNCHANGED <<target, at>>
  PROVE  PlacesInv'
  BY DEF PlacesInv

LEMMA StreamsKept ==
  ASSUME StreamsInv, UNCHANGED <<pair, quenched, warned>>
  PROVE  StreamsInv'
  BY DEF StreamsInv, QuenchHonest, Refuses

LEMMA RestKept ==
  ASSUME VersionInv, HeardInv, TimersInv
  PROVE  /\ UNCHANGED <<pair, ver>> => VersionInv'
         /\ UNCHANGED heard => HeardInv'
         /\ UNCHANGED <<chores, since>> => TimersInv'
  BY DEF VersionInv, HeardInv, TimersInv

(* Versions are only raised.                                                   *)
LEMMA RaisedOK ==
  ASSUME VersionInv, NEW e \in Ends, NEW v \in 1 .. Newest, pair' = pair, ver' = Raised(e, v),
         pair.ver \in [Ends -> 1 .. Newest]
  PROVE  VersionInv'
  BY DEF VersionInv, Raised

LEMMA WarnedOK ==
  ASSUME StreamsInv, NEW e \in Ends, NEW m, m.stream \in Streams, Warned(e, m) \/ UNCHANGED warned,
         UNCHANGED <<pair, quenched>>
  PROVE  StreamsInv'
  BY DEF StreamsInv, QuenchHonest, Refuses, Warned

-----------------------------------------------------------------------------
LEMMA StreamPacketKeeps ==
  ASSUME LinkInv, NEW e \in Ends, NEW m \in air, m.type = "DMR",
         StreamPacket(e, m, air \ {m}), UNCHANGED <<pair, target, at, quenched>>
  PROVE  VersionInv' /\ HeardInv' /\ StreamsInv' /\ AirInv'
<1> USE DEF LinkInv
<1>1. m.stream \in Streams /\ m.ver \in 1 .. Newest
  BY DEF AirInv, PacketOK, PacketType
<1>2. VersionInv'
  <2>1. UNCHANGED ver \/ ver' = Raised(e, m.ver)
    BY DEF StreamPacket, Taken
  <2> QED BY <1>1, <2>1, RaisedOK, RestKept, VersionsOfPair
<1>3. HeardInv'
  <2>1. UNCHANGED heard \/ heard' = [heard EXCEPT ![e] = 0]
    BY DEF StreamPacket, Taken
  <2> QED BY <2>1, PeriodsAssumption DEF HeardInv
<1>4. StreamsInv'
  <2>1. Warned(e, m) \/ UNCHANGED warned
    BY DEF StreamPacket, Taken
  <2> QED BY <1>1, <2>1, WarnedOK
<1>5. AirInv'
  <2>1. \A a \in air' : a \in air \/ a \in Control(e, "BCVE") \/ a \in Answer(e, m)
    BY DEF StreamPacket, Taken
  <2>2. "BCVE" \in Timers
    BY DEF Timers
  <2> QED BY <1>1, <2>1, <2>2, ControlOK, AnswerOK, AirKept
<1> QED BY <1>2, <1>3, <1>4, <1>5

(* A keepalive comes from the other end, and so does a quench.                    *)
LEMMA ControlPacketKeeps ==
  ASSUME LinkInv, NEW e \in Ends, NEW m \in air, m.dst \in Addresses(e),
         ControlPacket(e, m, air \ {m}), UNCHANGED <<pair, at>>
  PROVE  VersionInv' /\ PlacesInv' /\ HeardInv' /\ StreamsInv' /\ AirInv'
<1> USE DEF LinkInv
<1>1. PICK f \in Ends : /\ m.src \in Addresses(f) /\ m.dst \in Addresses(Other(f))
                        /\ m.type = "BCSQ" => m.stream \in Streams /\ Refuses(f, m.stream)
  BY DEF AirInv, PacketOK
<1>2. f = Other(e)
  BY <1>1, OtherEnd, OneAddress
<1>3. m.ver \in 1 .. Newest
  BY DEF AirInv, PacketOK, PacketType
<1>4. VersionInv'
  <2>1. UNCHANGED ver \/ ver' = Raised(e, m.ver)
    BY DEF ControlPacket
  <2> QED BY <1>3, <2>1, RaisedOK, RestKept, VersionsOfPair
<1>5. PlacesInv'
  <2>1. UNCHANGED target \/ target' = [target EXCEPT ![e] = m.src]
    BY DEF ControlPacket, Learned
  <2> QED BY <1>1, <1>2, <2>1 DEF PlacesInv
<1>6. HeardInv'
  <2>1. UNCHANGED heard \/ heard' = [heard EXCEPT ![e] = 0]
    BY DEF ControlPacket
  <2> QED BY <2>1, PeriodsAssumption DEF HeardInv
<1>7. StreamsInv'
  <2>1. CASE m.type = "BCSQ" /\ quenched' = [quenched EXCEPT ![e] = @ \cup {m.stream}]
    BY <1>1, <1>2, <2>1 DEF ControlPacket, StreamsInv, QuenchHonest, Refuses
  <2>2. CASE UNCHANGED quenched
    BY <2>2, StreamsKept DEF ControlPacket
  <2> QED BY <2>1, <2>2 DEF ControlPacket
<1>8. AirInv'
  BY AirKept DEF ControlPacket
<1> QED BY <1>4, <1>5, <1>6, <1>7, <1>8

LEMMA ArrivesKeeps ==
  ASSUME LinkInv, NEW m \in air, Arrives(m)
  PROVE  LinkInv'
<1> USE DEF LinkInv
<1>0. UNCHANGED <<pair, at, chores, since, wear>>
  BY DEF Arrives
<1>1. PICK e \in Ends :
          /\ m.dst \in Addresses(e)
          /\ \/ air' = air \ {m} /\ UNCHANGED <<ver, target, heard, quenched, warned>>
             \/ /\ m.type = "DMR" /\ StreamPacket(e, m, air \ {m})
                /\ UNCHANGED <<target, quenched>>
             \/ ControlPacket(e, m, air \ {m})
  BY DEF Arrives
<1>2. CASE air' = air \ {m} /\ UNCHANGED <<ver, target, heard, quenched, warned>>
  BY <1>0, <1>2, PlacesKept, StreamsKept, RestKept, AirKept
<1>3. CASE /\ m.type = "DMR" /\ StreamPacket(e, m, air \ {m})
           /\ UNCHANGED <<target, quenched>>
  BY <1>0, <1>3, StreamPacketKeeps, PlacesKept, RestKept
<1>4. CASE ControlPacket(e, m, air \ {m})
  BY <1>0, <1>1, <1>4, ControlPacketKeeps, RestKept
<1> QED BY <1>1, <1>2, <1>3, <1>4

LEMMA TimerKeeps ==
  ASSUME LinkInv, NEW e \in Ends, NEW type \in Timers, Timer(e, type)
  PROVE  LinkInv'
<1> USE DEF LinkInv
<1>1. AirInv'
  BY ControlOK, AirKept DEF Timer
<1>2. TimersInv'
  BY DEF Timer, TimersInv
<1> QED BY <1>1, <1>2, PlacesKept, StreamsKept, RestKept DEF Timer

LEMMA TalkKeeps ==
  ASSUME LinkInv, NEW e \in Ends, NEW s \in Streams, Talk(e, s)
  PROVE  LinkInv'
<1> USE DEF LinkInv
<1>1. ver[e] \in 1 .. Newest
  BY DEF VersionInv
<1>2. \A m \in air' : m \in air \/ m \in Sending(e, "DMR", ver[e], s)
  BY DEF Talk
<1>3. AirInv'
  BY <1>1, <1>2, SendingOK, AirKept DEF Talk
<1> QED BY <1>3, PlacesKept, StreamsKept, RestKept DEF Talk

LEMMA NetworkKeeps ==
  ASSUME LinkInv, NEW m \in air, LosePacket(m) \/ RepeatPacket(m)
  PROVE  LinkInv'
<1> USE DEF LinkInv
<1>1. UNCHANGED <<pair, ver, target, at, heard, quenched, warned, chores, since>>
  BY DEF LosePacket, RepeatPacket, NetworkMishap
<1>2. wear' \in 0 .. Silent
  BY PeriodsAssumption DEF LosePacket, RepeatPacket, NetworkMishap
<1>3. PacketOK([m EXCEPT !.late = TRUE])
  BY DEF AirInv, PacketOK, PacketType
<1>4. AirInv'
  BY <1>1, <1>3, AirKept DEF LosePacket, RepeatPacket
<1> QED BY <1>1, <1>2, <1>4, PlacesKept, StreamsKept, RestKept

LEMMA RestartKeeps ==
  ASSUME LinkInv, NEW e \in Ends, RestartEnd(e)
  PROVE  LinkInv'
<1> USE DEF LinkInv
<1>0. UNCHANGED <<pair, at, air>>
  BY DEF RestartEnd
<1>1. VersionInv'
  BY VersionsOfPair DEF RestartEnd, VersionInv
<1>2. ConfiguredTarget(e) \in Addresses(Other(e)) \cup {Nowhere}
  BY DEF ConfiguredTarget, Home, Addresses
<1>3. PlacesInv'
  BY <1>2 DEF RestartEnd, PlacesInv
<1>4. HeardInv'
  BY DEF RestartEnd, HeardInv
<1>5. StreamsInv'
  BY DEF RestartEnd, StreamsInv, QuenchHonest, Refuses
<1>6. TimersInv'
  <2>1. chores' \subseteq Ends \X Timers
    BY DEF RestartEnd, TimersInv, Running
  <2>2. since' \in [Ends -> 0 .. VerPeriods - 1]
    BY PeriodsAssumption DEF RestartEnd, TimersInv
  <2> QED BY <2>1, <2>2 DEF TimersInv
<1>7. wear' \in 0 .. Silent
  BY PeriodsAssumption DEF RestartEnd
<1> QED BY <1>0, <1>1, <1>3, <1>4, <1>5, <1>6, <1>7, AirKept

LEMMA MoveKeeps ==
  ASSUME LinkInv, NEW e \in Ends, Move(e)
  PROVE  LinkInv'
<1> USE DEF LinkInv
<1>1. UNCHANGED <<pair, ver, target, heard, quenched, warned, air, chores, since>>
  BY DEF Move
<1>2. PlacesInv'
  BY DEF Move, PlacesInv
<1>3. wear' \in 0 .. Silent
  BY PeriodsAssumption DEF Move
<1> QED BY <1>1, <1>2, <1>3, StreamsKept, RestKept, AirKept

LEMMA LinkTickKeeps ==
  ASSUME LinkInv, LinkTick
  PROVE  LinkInv'
<1> USE DEF LinkInv
<1>0. UNCHANGED <<pair, ver, target, at, quenched, warned, wear>>
  BY DEF LinkTick
<1>1. HeardInv'
  BY PeriodsAssumption DEF LinkTick, HeardInv, Unheard
<1>2. AirInv'
  <2>1. ASSUME NEW m \in air
        PROVE  PacketOK([m EXCEPT !.age = IF @ > MaxPacketAge THEN @ ELSE @ + 1])
    <3> DEFINE a == IF m.age > MaxPacketAge THEN m.age ELSE m.age + 1
    <3>1. m \in PacketType
      BY DEF AirInv, PacketOK
    <3>2. a \in 0 .. MaxPacketAge + 1
      BY <3>1, PeriodsAssumption DEF PacketType
    <3> HIDE DEF a
    <3>3. PacketOK([m EXCEPT !.age = a])
      BY <3>1, <3>2 DEF AirInv, PacketOK, PacketType
    <3> QED BY <3>3 DEF a
  <2> QED BY <1>0, <2>1, AirKept DEF LinkTick
<1>3. TimersInv'
  <2>1. chores' \subseteq Ends \X Timers
    BY DEF LinkTick, Running, Timers
  <2>2. since' \in [Ends -> 0 .. VerPeriods - 1]
    BY PeriodsAssumption DEF LinkTick, TimersInv
  <2> QED BY <2>1, <2>2 DEF TimersInv
<1> QED BY <1>0, <1>1, <1>2, <1>3, PlacesKept, StreamsKept, RestKept

-----------------------------------------------------------------------------
LEMMA LinkStarts ==
  ASSUME LinkInit
  PROVE  LinkInv
<1>1. pair \in Pairs /\ pair.ver \in [Ends -> 1 .. Newest] /\ ver = pair.ver
  BY PairsAssumption DEF LinkInit
<1>2. VersionInv
  BY <1>1 DEF VersionInv
<1>3. PlacesInv
  BY OtherEnd DEF LinkInit, PlacesInv, ConfiguredTarget, Home, Addresses
<1>4. HeardInv
  BY DEF LinkInit, HeardInv
<1>5. StreamsInv
  BY DEF LinkInit, StreamsInv, QuenchHonest
<1>6. AirInv
  BY DEF LinkInit, AirInv
<1>7. TimersInv
  BY PeriodsAssumption DEF LinkInit, TimersInv, Running
<1>8. wear \in 0 .. Silent
  BY PeriodsAssumption DEF LinkInit
<1> QED BY <1>1, <1>2, <1>3, <1>4, <1>5, <1>6, <1>7, <1>8 DEF LinkInv

LEMMA LinkStep ==
  ASSUME LinkInv, [LinkNext]_linkVars
  PROVE  LinkInv'
<1>1. CASE UNCHANGED linkVars
  BY <1>1, PlacesKept, StreamsKept, RestKept, AirKept DEF LinkInv, linkVars
<1> QED BY <1>1, ArrivesKeeps, TimerKeeps, TalkKeeps, NetworkKeeps, RestartKeeps, MoveKeeps,
           LinkTickKeeps
        DEF LinkNext, LinkSystem, LinkOthers

THEOREM LinkInvariant == LinkSpec => []LinkInv
<1>1. LinkInit => LinkInv
  BY LinkStarts
<1>2. LinkInv /\ [LinkNext]_linkVars => LinkInv'
  BY LinkStep
<1> QED BY <1>1, <1>2, PTL DEF LinkSpec

(* Downgrades never happen, whatever control packets come late or twice and        *)
(* whichever end restarts; the tables keep their shape.                          *)
THEOREM LinkTypes == LinkSpec => []LinkTypeOK
<1>1. LinkInv => LinkTypeOK
  BY DEF LinkInv, VersionInv, PlacesInv, HeardInv, StreamsInv, AirInv, PacketOK, TimersInv,
         LinkTypeOK
<1> QED BY <1>1, LinkInvariant, PTL

(* Only refused streams are quenched.                                          *)
THEOREM QuenchesHonest == LinkSpec => []QuenchHonest
<1>1. LinkInv => QuenchHonest
  BY DEF LinkInv, StreamsInv
<1> QED BY <1>1, LinkInvariant, PTL
-----------------------------------------------------------------------------
(* Until an end restarts or moves (and wear reaches Silent at once) both are where   *)
(* they were configured, whoever was heard knows where to send, and a link that has *)
(* not been heard for n periods has lost n keepalives: one fewer while the keepalive *)
(* of this period is still to come.                                             *)

OnItsWay(e) == \E m \in air : ~m.late /\ m.type = "BCKA" /\ m.dst = Home(e)
Expected(e) == <<Other(e), "BCKA">> \in chores \/ OnItsWay(e)

HomeToHome(m) == \E e \in Ends : m.src = Home(e) /\ m.dst = Home(Other(e)) /\ target[e] # Nowhere

PlacesSteady ==
    /\ \A e \in Ends : at[e] = Home(e) /\ target[e] \in {Home(Other(e)), Nowhere}
    /\ \A e \in Ends : heard[e] # Unheard => target[Other(e)] # Nowhere
    /\ \A m \in air : HomeToHome(m)

Misses(e) == IF Expected(e) THEN wear + 1 ELSE wear
KeptAlive == pair.enhanced => \A e \in Ends : heard[e] <= Misses(e)

Steady == wear < Silent => PlacesSteady /\ KeptAlive

LEMMA HomeIsPlace == \A e, f \in Ends : Home(e) # Nowhere /\ (Home(e) = Home(f) => e = f)
  BY EndsAssumption DEF Home

LEMMA HeardIsInt ==
  ASSUME LinkInv, NEW e \in Ends
  PROVE  heard[e] \in Int /\ wear \in Int /\ Silent \in Int
  BY PeriodsAssumption DEF LinkInv, HeardInv, Unheard

LEMMA AliveKept ==
  ASSUME LinkInv, KeptAlive, pair' = pair, wear' \in {wear, wear + 1},
         \A e \in Ends : heard'[e] \in {heard[e], 0},
         \A e \in Ends : Expected(e) => \/ Expected(e)' \/ heard'[e] \in {0, Unheard}
                                        \/ wear' = wear + 1
  PROVE  KeptAlive'
<1>1. ASSUME NEW e \in Ends, pair.enhanced PROVE heard'[e] <= Misses(e)'
  <2>1. heard[e] \in Int /\ wear \in 0 .. Silent /\ Silent \in Int
    BY HeardIsInt DEF LinkInv
  <2>2. heard[e] <= IF Expected(e) THEN wear + 1 ELSE wear
    BY <1>1 DEF KeptAlive, Misses
  <2>3. CASE heard'[e] \in {0, Unheard}
    BY <2>1, <2>3 DEF Misses, Unheard
  <2>4. CASE heard'[e] = heard[e] /\ heard'[e] \notin {0, Unheard}
    BY <2>1, <2>2, <2>4 DEF Misses
  <2> QED BY <2>3, <2>4
<1> QED BY <1>1 DEF KeptAlive

(* What an end sends while nothing has moved goes to the other.                    *)
LEMMA SentHome ==
  ASSUME LinkInv, PlacesSteady, NEW e \in Ends, NEW type, NEW v, NEW s,
         NEW m \in Sending(e, type, v, s)
  PROVE  HomeToHome(m)
<1>1. m.src = at[e] /\ m.dst = target[e] /\ target[e] # Nowhere
  BY DEF Sending
<1> QED BY <1>1 DEF PlacesSteady, HomeToHome

LEMMA TimerSteady ==
  ASSUME LinkInv, PlacesSteady, KeptAlive, NEW e \in Ends, NEW type \in Timers, Timer(e, type)
  PROVE  PlacesSteady' /\ KeptAlive'
<1>0. /\ UNCHANGED <<pair, target, at, heard, wear>> /\ air' = air \cup Control(e, type)
      /\ chores' = chores \ {<<e, type>>}
  BY DEF Timer
<1>1. \A m \in air' : HomeToHome(m)
  BY <1>0, SentHome DEF Control, PlacesSteady
<1>2. PlacesSteady'
  BY <1>0, <1>1 DEF PlacesSteady, HomeToHome
<1>3. ASSUME NEW f \in Ends, Expected(f), pair.enhanced
      PROVE  Expected(f)' \/ heard'[f] = Unheard
  <2>1. CASE OnItsWay(f) \/ <<Other(f), "BCKA">> # <<e, type>>
    BY <1>0, <1>3, <2>1 DEF Expected, OnItsWay
  <2>2. CASE Other(f) = e /\ type = "BCKA" /\ heard[f] # Unheard
    <3>1. target[e] = Home(f)
      BY <2>2, OtherEnd DEF PlacesSteady
    <3>2. target[e] # Nowhere
      BY <2>2 DEF PlacesSteady
    <3> DEFINE m == [type |-> type, ver |-> Newest, stream |-> Nowhere, src |-> at[e],
                     dst |-> target[e], age |-> 0, late |-> FALSE]
    <3>3. m \in air'
      BY <1>0, <1>3, <3>2 DEF Control, Sending
    <3>4. ~m.late /\ m.type = "BCKA" /\ m.dst = Home(f)
      BY <2>2, <3>1
    <3> HIDE DEF m
    <3> QED BY <3>3, <3>4 DEF Expected, OnItsWay
  <2> QED BY <1>0, <2>1, <2>2
<1>4. KeptAlive'
  <2>1. CASE pair.enhanced
    BY <1>0, <1>3, <2>1, AliveKept
  <2>2. CASE ~pair.enhanced
    BY <1>0, <2>2 DEF KeptAlive
  <2> QED BY <2>1, <2>2
<1> QED BY <1>2, <1>4

LEMMA TalkSteady ==
  ASSUME LinkInv, PlacesSteady, KeptAlive, NEW e \in Ends, NEW s \in Streams, Talk(e, s)
  PROVE  PlacesSteady' /\ KeptAlive'
<1>0. UNCHANGED <<pair, target, at, heard, wear, chores>> /\ air' = air \cup Sending(e, "DMR", ver[e], s)
  BY DEF Talk
<1>1. \A m \in air' : HomeToHome(m)
  BY <1>0, SentHome DEF PlacesSteady
<1>2. PlacesSteady'
  BY <1>0, <1>1 DEF PlacesSteady, HomeToHome
<1>3. KeptAlive'
  BY <1>0, AliveKept DEF Expected, OnItsWay
<1> QED BY <1>2, <1>3

(* A lost keepalive is one more that may be missed.                               *)
LEMMA NetworkSteady ==
  ASSUME LinkInv, PlacesSteady, KeptAlive, NEW m \in air, LosePacket(m) \/ RepeatPacket(m),
         wear' < Silent
  PROVE  PlacesSteady' /\ KeptAlive'
<1>0. /\ UNCHANGED <<pair, target, at, heard, chores>>
      /\ wear' = IF wear < Silent THEN wear + 1 ELSE wear
      /\ air' = air \ {m} \/ air' = air \cup {[m EXCEPT !.late = TRUE]}
  BY DEF LosePacket, RepeatPacket, NetworkMishap
<1>1. wear' = wear + 1
  BY <1>0, PeriodsAssumption DEF LinkInv
<1>2. m \in PacketType
  BY DEF LinkInv, AirInv, PacketOK
<1>3. [m EXCEPT !.late = TRUE].src = m.src /\ [m EXCEPT !.late = TRUE].dst = m.dst
  BY <1>2 DEF PacketType
<1>4. \A a \in air' : HomeToHome(a)
  BY <1>0, <1>3 DEF PlacesSteady, HomeToHome
<1>5. PlacesSteady'
  BY <1>0, <1>4 DEF PlacesSteady, HomeToHome
<1> QED BY <1>0, <1>1, <1>5, AliveKept

(* Only the arrival of a keepalive makes it no longer expected.                    *)
LEMMA ArrivesSteady ==
  ASSUME LinkInv, PlacesSteady, KeptAlive, NEW m \in air, Arrives(m)
  PROVE  PlacesSteady' /\ KeptAlive'
<1>0. UNCHANGED <<pair, at, chores, wear>>
  BY DEF Arrives
<1>1. PICK f \in Ends : m.src = Home(f) /\ m.dst = Home(Other(f)) /\ target[f] # Nowhere
  BY DEF PlacesSteady, HomeToHome
<1> DEFINE e == Other(f)
<1>2. e \in Ends /\ Other(e) = f /\ at[e] = m.dst
  BY <1>1, OtherEnd DEF PlacesSteady
<1>3. \A x \in Ends : m.dst \in Addresses(x) => x = e
  BY <1>1, <1>2, OneAddress DEF Home, Addresses
<1> HIDE DEF e
<1>4. \/ m.type = "DMR" /\ StreamPacket(e, m, air \ {m}) /\ UNCHANGED <<target, quenched>>
      \/ m.type # "DMR" /\ ControlPacket(e, m, air \ {m})
  BY <1>2, <1>3 DEF Arrives
<1>5. target' = target \/ (target' = [target EXCEPT ![e] = Home(f)])
  BY <1>1, <1>4 DEF ControlPacket, Learned
<1>6. heard' = heard \/ heard' = [heard EXCEPT ![e] = 0]
  BY <1>4 DEF StreamPacket, Taken, ControlPacket
<1>7. \A a \in air' : a \in air \/ a \in Control(e, "BCVE") \/ a \in Answer(e, m)
  BY <1>4 DEF StreamPacket, Taken, ControlPacket
<1>8. \A a \in air' : HomeToHome(a)
  BY <1>2, <1>7, SentHome DEF PlacesSteady, Control, Answer, Quench
<1>9. PlacesSteady'
  <2>1. \A x \in Ends : /\ target'[x] \in {Home(Other(x)), Nowhere}
                        /\ target[x] # Nowhere => target'[x] # Nowhere
    BY <1>2, <1>5, HomeIsPlace DEF PlacesSteady, LinkInv, PlacesInv
  <2>2. ASSUME NEW x \in Ends, heard'[x] # Unheard PROVE target'[Other(x)] # Nowhere
    <3>1. Other(x) \in Ends
      BY OtherEnd
    <3>2. CASE heard[x] # Unheard
      BY <2>1, <3>1, <3>2 DEF PlacesSteady
    <3>3. CASE x = e
      BY <1>1, <1>2, <2>1, <3>3
    <3> QED BY <1>2, <1>6, <2>2, <3>2, <3>3 DEF LinkInv, HeardInv
  <2>3. \A a \in air' : HomeToHome(a)'
    BY <1>8, <2>1 DEF HomeToHome
  <2> QED BY <1>0, <2>1, <2>2, <2>3 DEF PlacesSteady
<1>10. ASSUME NEW x \in Ends, Expected(x) PROVE Expected(x)' \/ heard'[x] = 0
  <2>1. CASE <<Other(x), "BCKA">> \in chores
    BY <1>0, <2>1 DEF Expected
  <2>2. ASSUME NEW a \in air, ~a.late, a.type = "BCKA", a.dst = Home(x)
        PROVE  Expected(x)' \/ heard'[x] = 0
    <3>1. CASE a \in air'
      BY <2>2, <3>1 DEF Expected, OnItsWay
    <3>2. CASE a \notin air'
      <4>1. a = m
        BY <1>4, <3>2 DEF StreamPacket, Taken, ControlPacket
      <4>2. x = e
        BY <1>1, <1>2, <2>2, <4>1, HomeIsPlace DEF e
      <4>3. heard' = [heard EXCEPT ![e] = 0]
        BY <1>4, <2>2, <4>1 DEF ControlPacket
      <4> QED BY <1>2, <4>2, <4>3 DEF LinkInv, HeardInv
    <3> QED BY <3>1, <3>2
  <2> QED BY <1>10, <2>1, <2>2 DEF Expected, OnItsWay
<1>11. \A x \in Ends : heard'[x] \in {heard[x], 0}
  BY <1>2, <1>6 DEF LinkInv, HeardInv
<1>12. KeptAlive'
  BY <1>0, <1>10, <1>11, AliveKept
<1> QED BY <1>9, <1>12

(* A period only begins when every keepalive has come or is lost.                  *)
LEMMA LinkTickSteady ==
  ASSUME LinkInv, PlacesSteady, KeptAlive, LinkTick
  PROVE  PlacesSteady' /\ KeptAlive'
<1>0. UNCHANGED <<pair, ver, target, at, quenched, warned, wear>>
  BY DEF LinkTick
<1>1. ASSUME NEW e \in Ends
      PROVE  /\ heard'[e] = Unheard <=> heard[e] = Unheard
             /\ heard'[e] <= heard[e] + 1
  <2>1. heard[e] \in {Unheard} \cup 0 .. Silent + 1
    BY DEF LinkInv, HeardInv
  <2> QED BY <2>1, PeriodsAssumption DEF LinkTick, Unheard
<1>2. \A m \in air' : \E a \in air : m.src = a.src /\ m.dst = a.dst
  <2>1. ASSUME NEW a \in air
        PROVE  LET m == [a EXCEPT !.age = IF @ > MaxPacketAge THEN @ ELSE @ + 1]
               IN  m.src = a.src /\ m.dst = a.dst
    BY DEF LinkInv, AirInv, PacketOK, PacketType
  <2> QED BY <2>1 DEF LinkTick
<1>3. PlacesSteady'
  BY <1>0, <1>1, <1>2 DEF PlacesSteady, HomeToHome
<1>4. KeptAlive'
  <2>1. ASSUME NEW e \in Ends, pair.enhanced PROVE heard'[e] <= Misses(e)'
    <3>1. ~Expected(e)
      BY DEF LinkTick, Expected, OnItsWay
    <3>2. heard[e] <= wear
      BY <2>1, <3>1 DEF KeptAlive, Misses
    <3>3. <<Other(e), "BCKA">> \in chores'
      BY <2>1, OtherEnd DEF LinkTick, Running
    <3>4. Misses(e)' = wear + 1
      BY <1>0, <3>3 DEF Misses, Expected
    <3>5. heard'[e] \in Int
      BY LinkTickKeeps, HeardIsInt, PeriodsAssumption DEF LinkInv, HeardInv, Unheard
    <3> QED BY <1>1, <3>2, <3>4, <3>5, HeardIsInt
  <2> QED BY <1>0, <2>1 DEF KeptAlive
<1> QED BY <1>3, <1>4

LEMMA SteadyStep ==
  ASSUME LinkInv, Steady, [LinkNext]_linkVars
  PROVE  Steady'
<1>0. wear \in 0 .. Silent /\ Silent \in Nat \ {0}
  BY PeriodsAssumption DEF LinkInv
<1> SUFFICES ASSUME wear' < Silent PROVE PlacesSteady' /\ KeptAlive'
  BY DEF Steady
<1>1. CASE UNCHANGED linkVars
  <2>1. PlacesSteady /\ KeptAlive
    BY <1>1 DEF Steady, linkVars
  <2> QED BY <1>1, <2>1
          DEF linkVars, PlacesSteady, KeptAlive, HomeToHome, Misses, Expected, OnItsWay
<1>2. CASE LinkNext
  <2>1. \A e \in Ends : ~RestartEnd(e) /\ ~Move(e)
    BY <1>0 DEF RestartEnd, Move
  <2>2. wear < Silent
    BY <1>0, <1>2, <2>1 DEF LinkNext, LinkSystem, LinkOthers, Timer, Arrives, LinkTick, Talk,
                            LosePacket, RepeatPacket, NetworkMishap
  <2>3. PlacesSteady /\ KeptAlive
    BY <2>2 DEF Steady
  <2> QED BY <1>2, <2>1, <2>3, TimerSteady, TalkSteady, NetworkSteady, ArrivesSteady,
             LinkTickSteady
          DEF LinkNext, LinkSystem, LinkOthers
<1> QED BY <1>1, <1>2

THEOREM SteadyInvariance == LinkSpec => []Steady
<1>1. ASSUME LinkInit PROVE Steady
  <2>1. PlacesSteady
    BY <1>1, OtherEnd DEF LinkInit, PlacesSteady, ConfiguredTarget
  <2>2. KeptAlive
    <3>1. heard = [e \in Ends |-> Unheard] /\ wear = 0
      BY <1>1 DEF LinkInit
    <3>2. ASSUME NEW e \in Ends PROVE heard[e] <= Misses(e)
      <4>1. heard[e] = -1
        BY <3>1 DEF Unheard
      <4>2. Misses(e) = 0 \/ Misses(e) = 1
        BY <3>1 DEF Misses
      <4> QED BY <4>1, <4>2
    <3> QED BY <3>2 DEF KeptAlive
  <2> QED BY <2>1, <2>2 DEF Steady
<1>2. LinkInv /\ Steady /\ [LinkNext]_linkVars => Steady'
  BY SteadyStep
<1> QED BY <1>1, <1>2, LinkInvariant, PTL DEF LinkSpec

(* What a packet does to the version and to the age of the last keepalive.        *)
LEMMA ArrivalLearns ==
  ASSUME NEW m \in air, Arrives(m)
  PROVE  /\ ver' = ver \/ \E f \in Ends : ver' = Raised(f, m.ver)
         /\ heard' = heard \/ \E f \in Ends : heard' = [heard EXCEPT ![f] = 0]
<1>1. PICK e \in Ends :
        \/ UNCHANGED <<ver, heard>>
        \/ StreamPacket(e, m, air \ {m})
        \/ ControlPacket(e, m, air \ {m})
  BY DEF Arrives
<1>2. CASE StreamPacket(e, m, air \ {m})
  BY <1>2 DEF StreamPacket, Taken
<1>3. CASE ControlPacket(e, m, air \ {m})
  BY <1>3 DEF ControlPacket
<1> QED BY <1>1, <1>2, <1>3

(* While nothing restarts, all else leaves the version alone, and but for the clock *)
(* the age.                                                                  *)
LEMMA OthersLearnNothing ==
  ASSUME [LinkNext]_linkVars, wear' # Silent, \A m \in air : ~Arrives(m)
  PROVE  ver' = ver /\ (heard' = heard \/ LinkTick)
<1>1. CASE \E e \in Ends, type \in Timers : Timer(e, type)
  BY <1>1 DEF Timer
<1>2. CASE LinkTick
  BY <1>2 DEF LinkTick
<1>3. CASE \E e \in Ends, s \in Streams : Talk(e, s)
  BY <1>3 DEF Talk
<1>4. CASE \E m \in air : LosePacket(m) \/ RepeatPacket(m)
  BY <1>4 DEF LosePacket, RepeatPacket, NetworkMishap
<1>5. CASE \E e \in Ends : RestartEnd(e) \/ Move(e)
  BY <1>5 DEF RestartEnd, Move
<1>6. CASE UNCHANGED linkVars
  BY <1>6 DEF linkVars
<1> QED BY <1>1, <1>2, <1>3, <1>4, <1>5, <1>6 DEF LinkNext, LinkSystem, LinkOthers

LEMMA RaisedToNewest ==
  ASSUME LinkInv, LinkInv', [LinkNext]_linkVars, wear' < Silent, NEW e \in Ends, ver[e] = Newest
  PROVE  ver'[e] = Newest
<1>1. ver \in [Ends -> 1 .. Newest] /\ Newest \in Int /\ wear' # Silent
  BY PeriodsAssumption DEF LinkInv, VersionInv
<1>2. \A m \in air : m.ver \in 1 .. Newest
  BY DEF LinkInv, AirInv, PacketOK, PacketType
<1>3. ver' = ver \/ \E f \in Ends, m \in air : ver' = Raised(f, m.ver)
  BY <1>1, ArrivalLearns, OthersLearnNothing
<1> QED BY <1>1, <1>2, <1>3 DEF Raised

(* Only a restart makes an end forget that it heard of the other.                *)
LEMMA StaysHeard ==
  ASSUME LinkInv, [LinkNext]_linkVars, wear' < Silent, NEW e \in Ends, heard[e] # Unheard
  PROVE  heard'[e] # Unheard
<1>1. wear' # Silent
  BY PeriodsAssumption
<1>2. CASE LinkTick
  <2>1. heard[e] \in 0 .. Silent + 1
    BY DEF LinkInv, HeardInv
  <2>2. heard'[e] = heard[e] \/ heard'[e] = heard[e] + 1
    BY <1>2 DEF LinkTick
  <2> QED BY <2>1, <2>2, PeriodsAssumption DEF Unheard
<1>3. CASE ~LinkTick
  <2>1. heard' = heard \/ \E f \in Ends : heard' = [heard EXCEPT ![f] = 0]
    BY <1>1, <1>3, ArrivalLearns, OthersLearnNothing
  <2> QED BY <2>1 DEF LinkInv, HeardInv, Unheard
<1> QED BY <1>2, <1>3

LEMMA StaysUp ==
  ASSUME LinkInv, LinkInv', Steady', [LinkNext]_linkVars, Up, NEW e \in Ends,
         \A x \in Ends : ver[x] = Newest, wear' < Silent
  PROVE  Passes(e)'
<1> DEFINE f == Other(e)
<1>0. f \in Ends /\ Other(f) = e
  BY OtherEnd
<1>1. PlacesSteady' /\ KeptAlive'
  BY DEF Steady
<1>2. ver'[e] = Newest /\ ver'[f] = Newest
  BY <1>0, RaisedToNewest
<1>3. Understood(Newest, Newest)
  BY PeriodsAssumption DEF Understood
<1>4. \A x \in Ends : heard'[x] # Unheard
  BY StaysHeard DEF Up, Passes
<1>5. target'[e] = at'[f] /\ target'[f] = at'[e]
  BY <1>0, <1>1, <1>4 DEF PlacesSteady
<1>6. Alive(e)'
  <2>1. ASSUME pair'.enhanced PROVE heard'[e] <= Silent
    <3>1. heard'[e] <= Misses(e)'
      BY <1>1, <2>1 DEF KeptAlive
    <3>2. Misses(e)' \in {wear', wear' + 1}
      BY DEF Misses
    <3>3. heard'[e] \in {-1} \cup 0 .. Silent + 1 /\ wear' \in 0 .. Silent
      BY DEF LinkInv, HeardInv, Unheard
    <3> QED BY <3>1, <3>2, <3>3, PeriodsAssumption
  <2> QED BY <2>1 DEF Alive
<1> QED BY <1>0, <1>2, <1>3, <1>4, <1>5, <1>6 DEF Passes

(* A link that is up at the newest version stays up while fewer than Silent packets  *)
(* are lost or repeated and no end restarts or moves: LinkRidesOut.               *)
THEOREM LinkRides == LinkSpec => LinkRidesOut
<1>1. LinkInv /\ LinkInv' /\ Steady' /\ [LinkNext]_linkVars
        => [Up /\ (\A e \in Ends : ver[e] = Newest) /\ wear' < Silent => Up']_linkVars
  <2> SUFFICES ASSUME LinkInv, LinkInv', Steady', [LinkNext]_linkVars,
                      Up, \A e \in Ends : ver[e] = Newest, wear' < Silent
               PROVE  Up'
    OBVIOUS
  <2>1. \A e \in Ends : Passes(e)'
    BY StaysUp
  <2> QED BY <2>1 DEF Up
<1> QED BY <1>1, LinkInvariant, SteadyInvariance, PTL DEF LinkSpec, LinkRidesOut

=============================================================================
