------------------------- MODULE HotspotLogin_proofs -------------------------
(***************************************************************************)
(* The proxy keeps its books, HotspotLogin implements PortLease, and a hotspot   *)
(* in service rides out a fault of the network: proofs for every set of          *)
(* hotspots and ports and any number of faults.                                *)
(*                                                                         *)
(* Two facts carry the argument.  peerTrack and connTrack are changed in one   *)
(* breath (LeaseInv), and a packet between the proxy and the server is always  *)
(* the only one (Conveyed): whatever is handled at a port, but a close, comes  *)
(* from the hotspot that still holds it.  The last part (Riding) adds what the   *)
(* packets on their way say of the session they belong to.                    *)
(***************************************************************************)
EXTENDS HotspotLogin, SequenceTheorems, TLAPS

TrackType   == [port : Ports, conn : ProxyStates, age : 0 .. Timeout]
SessionType == [id : Clients, conn : {"CHALLENGE_SENT", "WAITING_CONFIG", "YES"},
                salt : 0 .. Salts - 1, age : 0 .. MaxMissed + 1]

LeaseInv ==
    /\ track \in [Clients -> {NoTrack} \cup TrackType]
    /\ lease \in [Ports -> Clients \cup {Free}]
    /\ LeasesTracked

(* A session that is too old is about to be looked at.                         *)
SessionInv ==
    /\ session \in [Ports -> {NoSession} \cup SessionType]
    /\ salt \in 0 .. Salts - 1
    /\ \A p \in Ports : session[p].age <= MaxMissed \/ p \in due

ClientType == [conn : Connections, outstanding : BOOLEAN, missed : 0 .. MaxMissed - 1]

ClientInv == client \in [Clients -> ClientType]

(* What clients send names them.                                              *)
Addressed(s, c) == s \in Seq(Range(s)) /\ \A m \in Range(s) : m.id = c

WireInv ==
    /\ up = [c \in Clients |-> up[c]]
    /\ \A c \in Clients : Addressed(up[c], c)
    /\ \A d \in late : d.to \in Clients /\ (d.up => d.msg.id \in Clients)

(* A packet on its way to a port comes from its holder, unless it is a close.    *)
FromHolder(q) ==
    q.port \in Ports /\ q.msg.id \in Clients /\ (q.msg.type # "RPTCL" => lease[q.port] = q.msg.id)

Conveyed == toMaster = <<>> \/ (toMaster = <<Head(toMaster)>> /\ FromHolder(Head(toMaster)))

SceneInv == scene \in [clients : SUBSET Clients, ports : SUBSET Ports]

LoginInv ==
    /\ SceneInv /\ ClientInv /\ WireInv /\ LeaseInv /\ Conveyed /\ SessionInv
    /\ strain \in 0 .. Broken

-----------------------------------------------------------------------------
(* The proxy's books.                                                        *)

LEMMA Requests ==
  ASSUME NEW conn \in ProxyStates, NEW type
  PROVE  AfterRequest(conn, type) \in ProxyStates /\ AtFirst(type) \in ProxyStates
         /\ AfterAck(conn) \in ProxyStates
  BY DEF AfterRequest, AtFirst, AfterAck, ProxyStates

LEMMA Tracked ==
  ASSUME LeaseInv, NEW c \in Clients, Known(c)
  PROVE  track[c] \in TrackType
  BY DEF LeaseInv, Known

LEMMA TrackedIsKnown ==
  ASSUME NEW t \in TrackType
  PROVE  t # NoTrack
  BY DEF TrackType, NoTrack, ProxyStates

(* A client's tracking changes but not its port.                               *)
LEMMA SamePort ==
  ASSUME LeaseInv, NEW c \in Clients, Known(c), NEW t \in TrackType, t.port = track[c].port,
         track' = [track EXCEPT ![c] = t], lease' = lease
  PROVE  LeaseInv'
  BY TrackedIsKnown DEF LeaseInv, LeasesTracked, Known

LEMMA Granted ==
  ASSUME LeaseInv, NEW c \in Clients, ~Known(c), NEW t \in TrackType, lease[t.port] = Free,
         track' = [track EXCEPT ![c] = t], lease' = [lease EXCEPT ![t.port] = c]
  PROVE  LeaseInv'
  BY TrackedIsKnown, ClientsAssumption DEF LeaseInv, LeasesTracked, Known, TrackType

LEMMA ReapedKeeps ==
  ASSUME LeaseInv, NEW c \in Clients, Known(c), Reaped(c)
  PROVE  LeaseInv'
  BY ClientsAssumption DEF LeaseInv, LeasesTracked, Known, TrackType, Reaped

LEMMA ServingKept ==
  ASSUME session' = session
  PROVE  Serving' = Serving
  BY DEF Serving

(* A lease is granted to a hotspot that has none.                              *)
LEMMA GrantIsLeased ==
  ASSUME LeaseInv, session' = session, NEW c \in Clients, ~Known(c), NEW p \in Ports,
         lease[p] = Free, lease' = [lease EXCEPT ![p] = c]
  PROVE  Leases!Grant(p, c)
<1>1. \A q \in Ports : lease[q] # c
  BY ClientsAssumption DEF LeaseInv, LeasesTracked
<1> QED BY <1>1, ServingKept DEF Leases!Grant

LEMMA ReapIsRevoke ==
  ASSUME LeaseInv, session' = session, NEW c \in Clients, Known(c), Reaped(c)
  PROVE  Leases!Revoke
<1>1. lease' = [p \in Ports |-> IF p \in {track[c].port} THEN Free ELSE lease[p]]
  BY DEF LeaseInv, Reaped
<1>2. {track[c].port} \in SUBSET Ports
  BY Tracked DEF TrackType
<1> QED BY <1>1, <1>2, ServingKept DEF Leases!Revoke

LEMMA ReapConveys ==
  ASSUME LeaseInv, toMaster = <<>>, NEW c \in Clients, Known(c), Reaped(c)
  PROVE  Conveyed'
<1>1. toMaster' = <<[port |-> track[c].port, msg |-> Packet("RPTCL", c)]>>
  BY DEF Reaped, ToMaster
<1>2. track[c].port \in Ports
  BY Tracked DEF TrackType
<1> QED BY <1>1, <1>2 DEF Conveyed, FromHolder, Packet

(* What a step of the proxy does: the books stay right, a packet for the server   *)
(* is the holder's, and leases are granted or taken back.                       *)
LeaseStep == Leases!Next \/ UNCHANGED <<lease, Serving>>

LEMMA ProxyReceivesKeeps ==
  ASSUME LeaseInv, SceneInv, toMaster = <<>>, NEW c \in Clients, NEW m, m.id = c,
         ProxyReceives(c, m)
  PROVE  LeaseInv' /\ Conveyed' /\ LeaseStep
<1>0. session' = session /\ Serving' = Serving
  BY ServingKept DEF ProxyReceives, masterVars
<1>1. CASE /\ Known(c)
           /\ track' = [track EXCEPT ![c].conn = AfterRequest(@, m.type), ![c].age = 0]
           /\ ToMaster(track[c].port, m)
           /\ UNCHANGED lease
  <2> DEFINE conn == AfterRequest(track[c].conn, m.type)
             t == [track[c] EXCEPT !.conn = conn, !.age = 0]
  <2>1. track[c] \in TrackType
    BY <1>1, Tracked
  <2>a. conn \in ProxyStates
    BY <2>1, Requests DEF TrackType
  <2> HIDE DEF conn
  <2>b. 0 \in 0 .. Timeout
    BY LimitsAssumption
  <2>2. t \in TrackType
    BY <2>1, <2>a, <2>b DEF TrackType
  <2>c. t.port = track[c].port
    BY <2>1 DEF TrackType
  <2>3. track' = [track EXCEPT ![c] = t]
    BY <1>1 DEF conn
  <2> HIDE DEF t
  <2>4. LeaseInv'
    BY <1>1, <2>2, <2>3, <2>c, SamePort
  <2>5. lease[track[c].port] = c /\ track[c].port \in Ports
    BY <1>1, <2>1 DEF LeaseInv, LeasesTracked, TrackType
  <2>6. toMaster' = <<[port |-> track[c].port, msg |-> m]>>
    BY <1>1 DEF ToMaster
  <2>7. Conveyed'
    BY <1>1, <2>5, <2>6 DEF Conveyed, FromHolder
  <2> QED BY <1>0, <1>1, <2>4, <2>7 DEF LeaseStep
<1>2. ASSUME ~Known(c), NEW p \in FreePorts,
             track' = [track EXCEPT ![c] = [port |-> p, conn |-> AtFirst(m.type), age |-> 0]],
             lease' = [lease EXCEPT ![p] = c],
             ToMaster(p, m)
      PROVE  LeaseInv' /\ Conveyed' /\ LeaseStep
  <2> DEFINE t == [port |-> p, conn |-> AtFirst(m.type), age |-> 0]
  <2>1. p \in Ports /\ lease[p] = Free
    BY DEF FreePorts, SceneInv
  <2>2. AtFirst(m.type) \in ProxyStates
    BY Requests DEF ProxyStates
  <2>3. t \in TrackType /\ t.port = p
    BY <2>1, <2>2, LimitsAssumption DEF TrackType
  <2> HIDE DEF t
  <2>4. LeaseInv'
    BY <1>2, <2>1, <2>3, Granted DEF t
  <2>5. toMaster' = <<[port |-> p, msg |-> m]>>
    BY <1>2 DEF ToMaster
  <2>6. lease'[p] = c
    BY <1>2, <2>1 DEF LeaseInv
  <2>7. Conveyed'
    BY <2>1, <2>5, <2>6 DEF Conveyed, FromHolder
  <2>8. Leases!Grant(p, c)
    BY <1>0, <1>2, <2>1, GrantIsLeased
  <2> QED BY <2>1, <2>4, <2>7, <2>8 DEF LeaseStep, Leases!Next
<1>3. CASE UNCHANGED <<track, lease, toMaster>>
  BY <1>0, <1>3 DEF LeaseInv, LeasesTracked, Known, Conveyed, LeaseStep
<1> QED BY <1>1, <1>2, <1>3 DEF ProxyReceives

LEMMA ProxyFromMasterKeeps ==
  ASSUME LeaseInv, ProxyFromMaster
  PROVE  LeaseInv' /\ Conveyed' /\ LeaseStep
<1> DEFINE p == Head(toProxy).port
           m == Head(toProxy).msg
           c == Addressee(p, m)
<1>0. session' = session /\ Serving' = Serving /\ toMaster = <<>>
  BY ServingKept DEF ProxyFromMaster, masterVars
<1>1. CASE UNCHANGED <<track, lease, toMaster>>
  BY <1>0, <1>1 DEF LeaseInv, LeasesTracked, Known, Conveyed, LeaseStep
<1>2. CASE Known(c) /\ m.type = "RPTACK" /\ track' = [track EXCEPT ![c].conn = AfterAck(@)]
           /\ UNCHANGED <<lease, toMaster>>
  <2> DEFINE t == [track[c] EXCEPT !.conn = AfterAck(@)]
  <2>0. c \in Clients
    BY <1>2 DEF Known
  <2>1. track[c] \in TrackType
    BY <1>2, <2>0, Tracked
  <2>2. t \in TrackType /\ t.port = track[c].port
    BY <2>1, Requests DEF TrackType
  <2>3. track' = [track EXCEPT ![c] = t]
    BY <1>2
  <2> HIDE DEF t, c
  <2>4. LeaseInv'
    BY <1>2, <2>0, <2>2, <2>3, SamePort
  <2> QED BY <1>0, <1>2, <2>4 DEF Conveyed, LeaseStep
<1>3. CASE Known(c) /\ Reaped(c)
  <2>0. c \in Clients
    BY <1>3 DEF Known
  <2> HIDE DEF c
  <2> QED BY <1>0, <1>3, <2>0, ReapedKeeps, ReapConveys, ReapIsRevoke DEF LeaseStep, Leases!Next
<1> QED BY <1>1, <1>2, <1>3 DEF ProxyFromMaster

LEMMA ProxyTimeoutKeeps ==
  ASSUME LeaseInv, NEW c \in Clients, ProxyTimeout(c)
  PROVE  LeaseInv' /\ Conveyed' /\ LeaseStep
<1>1. session' = session /\ toMaster = <<>> /\ Known(c) /\ Reaped(c)
  BY DEF ProxyTimeout, Quiet, masterVars
<1> QED BY <1>1, ReapedKeeps, ReapConveys, ReapIsRevoke DEF LeaseStep, Leases!Next

LEMMA ProxyRestartKeeps ==
  ASSUME LeaseInv, ProxyRestart
  PROVE  LeaseInv' /\ Conveyed' /\ LeaseStep
<1>1. LeaseInv'
  BY DEF ProxyRestart, LeaseInv, LeasesTracked, Known
<1>2. toMaster' = <<>>
  BY DEF ProxyRestart, Restart, Fault, Quiet
<1>3. lease' = [p \in Ports |-> IF p \in Ports THEN Free ELSE lease[p]]
  BY DEF ProxyRestart
<1>4. Leases!Revoke
  BY <1>3, ServingKept DEF Leases!Revoke, ProxyRestart, masterVars
<1> QED BY <1>1, <1>2, <1>4 DEF Conveyed, LeaseStep, Leases!Next

(* Who leaves the proxy alone leaves its books alone.                          *)
LEMMA LeaseUntouched ==
  ASSUME LeaseInv, UNCHANGED <<track, lease>>
  PROVE  LeaseInv'
  BY DEF LeaseInv, LeasesTracked, Known

LEMMA ConveyedUntouched ==
  ASSUME Conveyed, UNCHANGED <<lease, toMaster>>
  PROVE  Conveyed'
  BY DEF Conveyed, FromHolder

-----------------------------------------------------------------------------
(* The sessions.                                                             *)

LEMMA FreshSession ==
  ASSUME SessionInv, NEW p \in Ports, NEW s \in {NoSession} \cup SessionType, s.age = 0,
         session' = [session EXCEPT ![p] = s], salt' \in 0 .. Salts - 1, due' = due
  PROVE  SessionInv'
  BY LimitsAssumption DEF SessionInv

LEMMA SessionUntouched ==
  ASSUME SessionInv, UNCHANGED <<session, salt>>, due \cap Ports \subseteq due'
  PROVE  SessionInv'
  BY DEF SessionInv

(* A session ends, or stays short of established: serving only shrinks.          *)
LEMMA NotServing ==
  ASSUME SessionInv, NEW p \in Ports, NEW s, s.conn # "YES" \/ s.id = Free,
         session' = [session EXCEPT ![p] = s], lease' = lease
  PROVE  LeaseStep
<1>1. Serving' = [q \in Ports |-> IF q \in {p} THEN Free ELSE Serving[q]]
  BY DEF Serving, SessionInv
<1>2. Leases!End
  BY <1>1 DEF Leases!End
<1> QED BY <1>2 DEF LeaseStep, Leases!Next

(* A session goes on as it was, but for its age.                               *)
LEMMA StillServing ==
  ASSUME SessionInv, NEW p \in Ports, NEW s, s.id = session[p].id, s.conn = session[p].conn,
         session' = [session EXCEPT ![p] = s], lease' = lease
  PROVE  LeaseStep
<1>1. Serving' = Serving
  BY DEF Serving, SessionInv
<1> QED BY <1>1 DEF LeaseStep

(* The session becomes established: that of the holder of the port.              *)
LEMMA Admitted ==
  ASSUME SessionInv, NEW p \in Ports, NEW s, session[p].conn = "WAITING_CONFIG", s.conn = "YES",
         s.id \in Clients, lease[p] = s.id,
         session' = [session EXCEPT ![p] = s], lease' = lease
  PROVE  LeaseStep
<1>1. Serving[p] = Free /\ Serving' = [Serving EXCEPT ![p] = s.id]
  BY DEF Serving, SessionInv
<1>2. Leases!Admit(p, s.id)
  BY <1>1 DEF Leases!Admit
<1> QED BY <1>2 DEF LeaseStep, Leases!Next

LEMMA HasSession ==
  ASSUME SessionInv, NEW p \in Ports, session[p].id \in Clients
  PROVE  session[p] \in SessionType
  BY ClientsAssumption DEF SessionInv, NoSession

LEMMA RefreshKeeps ==
  ASSUME SessionInv, NEW p \in Ports, session[p].id \in Clients, Refresh(p),
         salt' = salt, due' = due, lease' = lease
  PROVE  SessionInv' /\ LeaseStep
<1> DEFINE s == [session[p] EXCEPT !.age = 0]
<1>1. session[p] \in SessionType
  BY HasSession
<1>2. s \in SessionType /\ s.age = 0 /\ s.id = session[p].id /\ s.conn = session[p].conn
  BY <1>1, LimitsAssumption DEF SessionType
<1>3. session' = [session EXCEPT ![p] = s]
  BY DEF Refresh
<1>4. salt' \in 0 .. Salts - 1
  BY DEF SessionInv
<1> HIDE DEF s
<1> QED BY <1>2, <1>3, <1>4, FreshSession, StillServing

LEMMA DiscardKeeps ==
  ASSUME SessionInv, NEW p \in Ports, Discard(p), salt' = salt, due' = due, lease' = lease
  PROVE  SessionInv' /\ LeaseStep
<1>1. session' = [session EXCEPT ![p] = NoSession]
  BY DEF Discard
<1>2. NoSession.age = 0 /\ NoSession.id = Free
  BY DEF NoSession
<1>3. salt' \in 0 .. Salts - 1
  BY DEF SessionInv
<1> QED BY <1>1, <1>2, <1>3, FreshSession, NotServing

(* The login moves on; when it is complete the client is the port's holder.       *)
LEMMA StepKeeps ==
  ASSUME SessionInv, NEW p \in Ports, NEW conn \in {"WAITING_CONFIG", "YES"},
         session[p].id \in Clients, Step(p, conn),
         conn = "YES" => /\ lease[p] = session[p].id
                         /\ session[p].conn \in {"WAITING_CONFIG", "YES"},
         salt' = salt, due' = due, lease' = lease
  PROVE  SessionInv' /\ LeaseStep
<1> DEFINE s == [session[p] EXCEPT !.conn = conn, !.age = 0]
<1>1. session[p] \in SessionType
  BY HasSession
<1>a. 0 \in 0 .. MaxMissed + 1 /\ conn \in {"CHALLENGE_SENT", "WAITING_CONFIG", "YES"}
  BY LimitsAssumption
<1>2. s \in SessionType
  BY <1>1, <1>a DEF SessionType
<1>3. s.age = 0 /\ s.id = session[p].id /\ s.conn = conn
  BY <1>1 DEF SessionType
<1>4. session' = [session EXCEPT ![p] = s]
  BY DEF Step
<1>5. salt' \in 0 .. Salts - 1
  BY DEF SessionInv
<1> HIDE DEF s
<1>6. SessionInv'
  BY <1>2, <1>3, <1>4, <1>5, FreshSession
<1>7. CASE conn = "WAITING_CONFIG"
  BY <1>3, <1>4, <1>6, <1>7, NotServing
<1>8. CASE conn = "YES" /\ session[p].conn = "WAITING_CONFIG"
  BY <1>3, <1>4, <1>6, <1>8, Admitted
<1>9. CASE conn = "YES" /\ session[p].conn = "YES"
  BY <1>3, <1>4, <1>6, <1>9, StillServing
<1> QED BY <1>7, <1>8, <1>9

LEMMA RPTLKeeps ==
  ASSUME SessionInv, NEW p \in Ports, NEW c \in Clients, MasterRPTL(p, c),
         due' = due, lease' = lease
  PROVE  SessionInv' /\ LeaseStep
<1>1. CASE RepeatedRPTL(p, c) /\ Refresh(p) /\ UNCHANGED salt
  BY <1>1, RefreshKeeps DEF RepeatedRPTL
<1>2. CASE /\ session' = [session EXCEPT ![p] =
                            [id |-> c, conn |-> "CHALLENGE_SENT", salt |-> salt, age |-> 0]]
           /\ salt' = (salt + 1) % Salts
  <2> DEFINE s == [id |-> c, conn |-> "CHALLENGE_SENT", salt |-> salt, age |-> 0]
  <2>1. s \in SessionType /\ s.age = 0 /\ s.conn # "YES"
    BY LimitsAssumption DEF SessionType, SessionInv
  <2>2. salt' \in 0 .. Salts - 1
    BY <1>2, LimitsAssumption DEF SessionInv
  <2> HIDE DEF s
  <2> QED BY <1>2, <2>1, <2>2, FreshSession, NotServing DEF s
<1>3. CASE UNCHANGED masterVars
  BY <1>3, SessionUntouched, ServingKept DEF LeaseStep, masterVars
<1> QED BY <1>1, <1>2, <1>3 DEF MasterRPTL

LEMMA SessionStutter ==
  ASSUME SessionInv, UNCHANGED <<session, salt, due, lease>>
  PROVE  SessionInv' /\ LeaseStep
  BY SessionUntouched, ServingKept DEF LeaseStep

LEMMA MasterReceivesKeeps ==
  ASSUME SessionInv, Conveyed, MasterReceives
  PROVE  SessionInv' /\ Conveyed' /\ LeaseStep
<1> DEFINE p == Head(toMaster).port
           m == Head(toMaster).msg
<1>0. toMaster = <<Head(toMaster)>> /\ FromHolder(Head(toMaster))
  BY DEF MasterReceives, Conveyed
<1> DEFINE q == Head(toMaster)
<1>a. Tail(<<q>>) = <<>>
  OBVIOUS
<1>1. /\ p \in Ports /\ m.id \in Clients
      /\ m.type # "RPTCL" => lease[p] = m.id
      /\ due' = due /\ lease' = lease /\ toMaster' = <<>>
  BY <1>0, <1>a DEF MasterReceives, FromHolder, proxyVars
<1>2. CASE m.type = "RPTL" /\ MasterRPTL(p, m.id)
  BY <1>1, <1>2, RPTLKeeps DEF Conveyed
<1>3. CASE m.type = "RPTK" /\ MasterRPTK(p, m.id, m.val) /\ UNCHANGED salt
  <2>1. \/ session' = session \/ Discard(p)
        \/ session[p].id = m.id /\ (Refresh(p) \/ Step(p, "WAITING_CONFIG"))
    BY <1>3 DEF MasterRPTK
  <2> QED BY <1>1, <1>3, <2>1, SessionStutter, DiscardKeeps, RefreshKeeps, StepKeeps DEF Conveyed
<1>4. CASE m.type = "RPTC" /\ MasterRPTC(p, m.id) /\ UNCHANGED salt
  <2>1. \/ session' = session
        \/ /\ session[p].id = m.id /\ session[p].conn \in {"WAITING_CONFIG", "YES"}
           /\ Step(p, "YES")
    BY <1>4 DEF MasterRPTC
  <2> QED BY <1>1, <1>4, <2>1, SessionStutter, StepKeeps DEF Conveyed
<1>5. CASE m.type = "RPTCL" /\ MasterRPTCL(p, m.id) /\ UNCHANGED salt
  BY <1>1, <1>5, SessionStutter, DiscardKeeps DEF Conveyed, MasterRPTCL
<1>6. CASE m.type = "RPTO" /\ MasterRPTO(p, m.id) /\ UNCHANGED salt
  BY <1>1, <1>6, SessionStutter DEF Conveyed, MasterRPTO
<1>7. CASE m.type = "RPTP" /\ MasterRPTP(p, m.id) /\ UNCHANGED salt
  BY <1>1, <1>7, SessionStutter, RefreshKeeps DEF Conveyed, MasterRPTP, Established
<1> QED BY <1>2, <1>3, <1>4, <1>5, <1>6, <1>7 DEF MasterReceives

LEMMA MasterLoopKeeps ==
  ASSUME SessionInv, NEW p \in Ports, MasterLoop(p)
  PROVE  SessionInv' /\ LeaseStep
<1>1. due' = due \ {p} /\ lease' = lease /\ salt' = salt
  BY DEF MasterLoop, proxyVars
<1>2. CASE session[p].age <= MaxMissed /\ session' = session
  BY <1>1, <1>2, ServingKept DEF SessionInv, LeaseStep
<1>3. CASE Discard(p)
  <2>1. session' = [session EXCEPT ![p] = NoSession] /\ NoSession.id = Free /\ NoSession.age = 0
    BY <1>3 DEF Discard, NoSession
  <2>2. SessionInv'
    BY <1>1, <2>1, LimitsAssumption DEF SessionInv
  <2> QED BY <1>1, <2>1, <2>2, NotServing
<1> QED BY <1>2, <1>3 DEF MasterLoop

LEMMA MasterRestartKeeps ==
  ASSUME SessionInv, MasterRestart
  PROVE  SessionInv' /\ LeaseStep
<1>1. session' = [p \in Ports |-> NoSession] /\ lease' = lease /\ salt' = salt /\ due' = due
  BY DEF MasterRestart, proxyVars
<1>2. SessionInv'
  BY <1>1, LimitsAssumption DEF SessionInv, NoSession
<1>3. Serving' = [p \in Ports |-> IF p \in Ports THEN Free ELSE Serving[p]]
  BY <1>1 DEF Serving, NoSession
<1>4. Leases!End
  BY <1>1, <1>3 DEF Leases!End
<1> QED BY <1>2, <1>4 DEF LeaseStep, Leases!Next

-----------------------------------------------------------------------------
(* The clients, and the packets they send.                                    *)

LEMMA AddressedAppend ==
  ASSUME NEW c, NEW s, Addressed(s, c), NEW m, m.id = c
  PROVE  Addressed(Append(s, m), c)
<1> DEFINE S == Range(s) \cup {m}
           t == Append(s, m)
<1>1. s \in Seq(S) /\ t \in Seq(S)
  BY DEF Addressed
<1>2. \A i \in DOMAIN t : t[i] = m \/ t[i] \in Range(s)
  BY <1>1 DEF Range
<1>3. t \in Seq(Range(t))
  BY <1>1, SeqOfRange
<1> QED BY <1>2, <1>3 DEF Addressed, Range

LEMMA AddressedTail ==
  ASSUME NEW c, NEW s, Addressed(s, c), s # <<>>
  PROVE  Addressed(Tail(s), c) /\ Head(s).id = c
<1> DEFINE S == Range(s)
           t == Tail(s)
<1>1. s \in Seq(S) /\ t \in Seq(S) /\ Head(s) \in S
  BY DEF Addressed
<1>2. \A i \in DOMAIN t : t[i] \in S
  BY <1>1
<1>3. t \in Seq(Range(t))
  BY <1>1, SeqOfRange
<1> QED BY <1>1, <1>2, <1>3 DEF Addressed, Range

LEMMA SendKeeps ==
  ASSUME WireInv, NEW c \in Clients, NEW m, m.id = c, Send(c, m), late' = late
  PROVE  WireInv'
<1>1. \A d \in Clients : up'[d] = IF d = c THEN Append(up[c], m) ELSE up[d]
  BY DEF Send, WireInv
<1>2. up' = [d \in Clients |-> up'[d]]
  BY DEF Send, WireInv
<1>3. \A d \in Clients : Addressed(up'[d], d)
  BY <1>1, AddressedAppend DEF WireInv
<1> QED BY <1>2, <1>3 DEF WireInv

(* A packet is taken off the wire.                                             *)
LEMMA TakeKeeps ==
  ASSUME WireInv, NEW c \in Clients, up[c] # <<>>, up' = [up EXCEPT ![c] = Tail(@)], late' = late
  PROVE  WireInv' /\ Head(up[c]).id = c
<1>1. \A d \in Clients : up'[d] = IF d = c THEN Tail(up[c]) ELSE up[d]
  BY DEF WireInv
<1>2. up' = [d \in Clients |-> up'[d]]
  BY DEF WireInv
<1>3. \A d \in Clients : Addressed(up'[d], d)
  BY <1>1, AddressedTail DEF WireInv
<1> QED BY <1>2, <1>3, AddressedTail DEF WireInv

LEMMA WireUntouched ==
  ASSUME WireInv, up' = up, late' \subseteq late
  PROVE  WireInv'
  BY DEF WireInv

LEMMA OfflineType == Offline \in ClientType
<1>1. 0 \in 0 .. MaxMissed - 1
  BY LimitsAssumption
<1> QED BY <1>1 DEF Offline, ClientType, Connections

LEMMA ClientSet ==
  ASSUME ClientInv, NEW c \in Clients, NEW t \in ClientType, client' = [client EXCEPT ![c] = t]
  PROVE  ClientInv'
  BY DEF ClientInv

LEMMA ClientLoopKeeps ==
  ASSUME ClientInv, WireInv, NEW c \in Clients, ClientLoop(c)
  PROVE  ClientInv' /\ WireInv' /\ due \cap Ports \subseteq due'
<1> DEFINE n == client[c].missed + (IF client[c].outstanding THEN 1 ELSE 0)
<1>0. late' = late /\ due \cap Ports \subseteq due'
  BY ClientsAssumption DEF ClientLoop
<1>1. CASE /\ client' = [client EXCEPT ![c] = [Offline EXCEPT !.conn = "RPTL_SENT"]]
           /\ Send(c, Packet("RPTL", c))
  <2>1. [Offline EXCEPT !.conn = "RPTL_SENT"] \in ClientType
    BY OfflineType DEF ClientType, Connections
  <2>2. ClientInv'
    BY <1>1, <2>1, ClientSet
  <2> QED BY <1>0, <1>1, <2>2, SendKeeps DEF Packet
<1>2. CASE /\ ~GivesUp(c, n)
           /\ client' = [client EXCEPT ![c].missed = n, ![c].outstanding = TRUE]
           /\ Send(c, Packet("RPTP", c))
  <2>0. n \in Nat
    BY LimitsAssumption DEF ClientInv, ClientType
  <2>1. n \in 0 .. MaxMissed - 1
    BY <1>2, <2>0, LimitsAssumption DEF GivesUp
  <2> DEFINE t == [client[c] EXCEPT !.missed = n, !.outstanding = TRUE]
  <2> HIDE DEF n
  <2>3. client[c] \in ClientType
    BY DEF ClientInv
  <2>4. t \in ClientType
    BY <2>1, <2>3 DEF ClientType
  <2>5. client' = [client EXCEPT ![c] = t]
    BY <1>2
  <2> HIDE DEF t
  <2>2. ClientInv'
    BY <2>4, <2>5, ClientSet
  <2> QED BY <1>0, <1>2, <2>2, SendKeeps DEF Packet
<1> QED BY <1>0, <1>1, <1>2 DEF ClientLoop

LEMMA BecomesKeeps ==
  ASSUME ClientInv, NEW c \in Clients, NEW conn \in Connections, Becomes(c, conn)
  PROVE  ClientInv'
  BY DEF ClientInv, ClientType, Becomes

LEMMA ClientReceivesKeeps ==
  ASSUME ClientInv, WireInv, NEW c \in Clients, NEW m, ClientReceives(c, m), late' \subseteq late
  PROVE  ClientInv'
         /\ \/ up' = up
            \/ \E a : a.id = c /\ Send(c, a)
<1>1. CASE m.type = "RPTACK" /\ ClientAcked(c, m)
  BY <1>1, BecomesKeeps DEF ClientAcked, Connections, Packet, Salted, ClientInv
<1>2. CASE m.type \in {"MSTNAK", "MSTCL"} /\ Becomes(c, "NO") /\ UNCHANGED up
  BY <1>2, BecomesKeeps DEF Connections
<1>3. CASE /\ client' = [client EXCEPT ![c].outstanding = FALSE, ![c].missed = 0]
           /\ UNCHANGED up
  <2> DEFINE t == [client[c] EXCEPT !.outstanding = FALSE, !.missed = 0]
  <2>1. client[c] \in ClientType /\ 0 \in 0 .. MaxMissed - 1
    BY LimitsAssumption DEF ClientInv
  <2>2. t \in ClientType
    BY <2>1 DEF ClientType
  <2>3. client' = [client EXCEPT ![c] = t]
    BY <1>3
  <2> HIDE DEF t
  <2> QED BY <1>3, <2>2, <2>3, ClientSet
<1> QED BY <1>1, <1>2, <1>3 DEF ClientReceives

-----------------------------------------------------------------------------
(* Every step.                                                               *)

LEMMA LeaseStutter ==
  ASSUME UNCHANGED <<session, lease>>
  PROVE  LeaseStep
  BY ServingKept DEF LeaseStep

LEMMA DeliverKeeps ==
  ASSUME LoginInv, NEW c \in Clients, Deliver(c)
  PROVE  LoginInv' /\ LeaseStep
<1> USE DEF LoginInv
<1>0. toMaster = <<>> /\ late' = late
  BY DEF Deliver, Quiet
<1>1. CASE /\ up[c] # <<>> /\ up' = [up EXCEPT ![c] = Tail(@)]
           /\ ProxyReceives(c, Head(up[c]))
  <2>1. WireInv' /\ Head(up[c]).id = c
    BY <1>0, <1>1, TakeKeeps
  <2>2. LeaseInv' /\ Conveyed' /\ LeaseStep
    BY <1>0, <1>1, <2>1, ProxyReceivesKeeps
  <2>3. UNCHANGED <<scene, client, session, salt, due, strain>>
    BY <1>1 DEF ProxyReceives, masterVars
  <2> QED BY <2>1, <2>2, <2>3, SessionUntouched DEF SceneInv, ClientInv
<1>2. CASE ClientReceives(c, Head(down[c]))
  <2>1. ClientInv' /\ (up' = up \/ \E a : a.id = c /\ Send(c, a))
    BY <1>0, <1>2, ClientReceivesKeeps
  <2>2. WireInv'
    BY <1>0, <2>1, SendKeeps, WireUntouched
  <2>3. UNCHANGED <<scene, track, lease, toMaster, session, salt, due, strain>>
    BY <1>2 DEF ClientReceives, proxyVars, masterVars
  <2> QED BY <2>1, <2>2, <2>3, SessionUntouched, LeaseUntouched, ConveyedUntouched, LeaseStutter
          DEF SceneInv
<1> QED BY <1>1, <1>2 DEF Deliver

LEMMA DeliverLateKeeps ==
  ASSUME LoginInv, NEW d \in late, DeliverLate(d)
  PROVE  LoginInv' /\ LeaseStep
<1> USE DEF LoginInv
<1>0. toMaster = <<>> /\ late' \subseteq late
  BY DEF DeliverLate, Quiet
<1>1. CASE d.up
  <2>1. d.msg.id \in Clients /\ ProxyReceives(d.msg.id, d.msg) /\ up' = up
    BY <1>1 DEF DeliverLate, WireInv
  <2>2. LeaseInv' /\ Conveyed' /\ LeaseStep
    BY <1>0, <2>1, ProxyReceivesKeeps
  <2>3. UNCHANGED <<scene, client, session, salt, due, strain>>
    BY <2>1 DEF ProxyReceives, masterVars
  <2> QED BY <1>0, <2>1, <2>2, <2>3, SessionUntouched, WireUntouched DEF SceneInv, ClientInv
<1>2. CASE ~d.up
  <2>0. ClientReceives(d.to, d.msg) /\ d.to \in Clients
    BY <1>2 DEF DeliverLate, WireInv
  <2>1. ClientInv' /\ (up' = up \/ \E a : a.id = d.to /\ Send(d.to, a))
    BY <1>0, <2>0, ClientReceivesKeeps
  <2>2. WireInv'
    <3>1. CASE up' = up
      BY <1>0, <3>1, WireUntouched
    <3>2. ASSUME NEW a, a.id = d.to, Send(d.to, a) PROVE WireInv'
      <4>1. \A e \in Clients : up'[e] = IF e = d.to THEN Append(up[e], a) ELSE up[e]
        BY <3>2 DEF Send, WireInv
      <4>2. \A e \in Clients : Addressed(up'[e], e)
        BY <3>2, <4>1, AddressedAppend DEF WireInv
      <4>3. up' = [e \in Clients |-> up'[e]]
        BY <3>2 DEF Send, WireInv
      <4> QED BY <1>0, <4>2, <4>3 DEF WireInv
    <3> QED BY <2>1, <3>1, <3>2
  <2>3. UNCHANGED <<scene, track, lease, toMaster, session, salt, due, strain>>
    BY <2>0 DEF ClientReceives, proxyVars, masterVars
  <2> QED BY <2>1, <2>2, <2>3, SessionUntouched, LeaseUntouched, ConveyedUntouched, LeaseStutter
          DEF SceneInv
<1> QED BY <1>1, <1>2

LEMMA TickKeeps ==
  ASSUME LoginInv, Tick
  PROVE  LoginInv' /\ LeaseStep
<1> USE DEF LoginInv
<1>1. LeaseInv'
  <2>1. ASSUME NEW c \in Clients
        PROVE  /\ track'[c] \in {NoTrack} \cup TrackType
               /\ Known(c)' <=> Known(c)
               /\ Known(c) => track'[c].port = track[c].port
    <3>1. CASE Known(c)
      <4> DEFINE t == [track[c] EXCEPT !.age = @ + 1]
      <4>1. track[c] \in TrackType /\ track[c].age < Timeout /\ track'[c] = t
        BY <3>1, Tracked DEF Tick
      <4>2. t \in TrackType /\ t.port = track[c].port
        BY <4>1, LimitsAssumption DEF TrackType
      <4> HIDE DEF t
      <4> QED BY <3>1, <4>1, <4>2, TrackedIsKnown DEF Known
    <3>2. CASE ~Known(c)
      BY <3>2 DEF Tick, Known
    <3> QED BY <3>1, <3>2
  <2>2. lease' = lease /\ track' = [c \in Clients |-> track'[c]]
    BY DEF Tick
  <2>3. track' \in [Clients -> {NoTrack} \cup TrackType]
    BY <2>1, <2>2
  <2>4. LeasesTracked'
    BY <2>1, <2>2, ClientsAssumption DEF LeaseInv, LeasesTracked, Known
  <2> QED BY <2>2, <2>3, <2>4 DEF LeaseInv
<1>2. ASSUME NEW p \in Ports
      PROVE  /\ session'[p] \in {NoSession} \cup SessionType
             /\ session'[p].age <= MaxMissed \/ p \in due'
             /\ session'[p].id = session[p].id /\ session'[p].conn = session[p].conn
  <2>1. CASE session[p] = NoSession
    BY <2>1, LimitsAssumption DEF Tick, NoSession
  <2>2. CASE session[p] # NoSession
    <3> DEFINE s == [session[p] EXCEPT !.age = @ + 1]
    <3>1. session[p] \in SessionType /\ session[p].age <= MaxMissed /\ session'[p] = s /\ p \in due'
      BY <2>2 DEF Tick, SessionInv
    <3>2. s \in SessionType /\ s.id = session[p].id /\ s.conn = session[p].conn
      BY <3>1, LimitsAssumption DEF SessionType
    <3> HIDE DEF s
    <3> QED BY <3>1, <3>2
  <2> QED BY <2>1, <2>2
<1>3. session' = [p \in Ports |-> session'[p]] /\ salt' = salt /\ lease' = lease /\ toMaster' = toMaster
  BY DEF Tick
<1>4. SessionInv'
  <2>1. session' \in [Ports -> {NoSession} \cup SessionType]
    BY <1>2, <1>3
  <2> QED BY <1>2, <1>3, <2>1 DEF SessionInv
<1>5. Serving' = Serving
  BY <1>2 DEF Serving
<1>6. UNCHANGED <<scene, client, up, late, strain>>
  BY DEF Tick, wires
<1> QED BY <1>1, <1>3, <1>4, <1>5, <1>6, WireUntouched, ConveyedUntouched
        DEF LeaseStep, SceneInv, ClientInv

(* The client's own restart, and faults of the network.                         *)
LEMMA FaultsKeep ==
  ASSUME LoginInv, NEW c \in Clients, Lose(c) \/ Repeat(c) \/ ClientRestart(c)
  PROVE  LoginInv' /\ LeaseStep
<1> USE DEF LoginInv
<1>1. /\ UNCHANGED <<scene, track, lease, toMaster, session, salt>>
      /\ due \cap Ports \subseteq due' /\ strain' \in 0 .. Broken
  BY DEF Lose, Repeat, ClientRestart, NetworkFault, Restart, Broken, proxyVars, masterVars
<1>3. ClientInv' /\ WireInv'
  <2>1. CASE Lose(c)
    BY <2>1, TakeKeeps, WireUntouched DEF Lose, ClientInv
  <2>2. CASE Repeat(c)
    <3>1. client' = client /\ up' = up
      BY <2>2 DEF Repeat
    <3>2. ASSUME NEW d \in late' PROVE d.to \in Clients /\ (d.up => d.msg.id \in Clients)
      <4>1. CASE d \in late
        BY <4>1 DEF WireInv
      <4>2. CASE up[c] # <<>> /\ d = [up |-> TRUE, to |-> c, msg |-> Head(up[c])]
        BY <4>2, AddressedTail DEF WireInv
      <4>3. CASE d = [up |-> FALSE, to |-> c, msg |-> Head(down[c])]
        BY <4>3
      <4> QED BY <2>2, <4>1, <4>2, <4>3 DEF Repeat
    <3> QED BY <3>1, <3>2 DEF ClientInv, WireInv
  <2>3. CASE ClientRestart(c)
    <3>1. ClientInv'
      BY <2>3, OfflineType, ClientSet DEF ClientRestart
    <3>2. WireInv'
      BY <2>3, SendKeeps, WireUntouched DEF ClientRestart, Packet
    <3> QED BY <3>1, <3>2
  <2> QED BY <2>1, <2>2, <2>3
<1> QED BY <1>1, <1>3, SessionUntouched, LeaseUntouched, ConveyedUntouched, LeaseStutter
        DEF SceneInv

LEMMA LoginInit ==
  ASSUME Init
  PROVE  LoginInv /\ Leases!Init
<1>1. SceneInv
  BY ScenesAssumption DEF Init, SceneInv
<1>2. ClientInv
  BY OfflineType DEF Init, ClientInv
<1>3. WireInv
  <2>1. \A c \in Clients : up[c] = <<>>
    BY DEF Init
  <2> QED BY <2>1 DEF Init, WireInv, Addressed, Range
<1>4. LeaseInv
  BY DEF Init, LeaseInv, LeasesTracked, Known
<1>5. SessionInv
  BY LimitsAssumption DEF Init, SessionInv, NoSession
<1>6. Leases!Init
  BY DEF Init, Leases!Init, Serving, NoSession
<1> QED BY <1>1, <1>2, <1>3, <1>4, <1>5, <1>6 DEF Init, LoginInv, Conveyed, Broken

LEMMA LoginStep ==
  ASSUME LoginInv, [Next]_vars
  PROVE  LoginInv' /\ LeaseStep
<1>0. LoginInv = (/\ SceneInv /\ ClientInv /\ WireInv /\ LeaseInv /\ Conveyed /\ SessionInv
                 /\ strain \in 0 .. Broken)
  BY DEF LoginInv
<1>1. ASSUME NEW c \in Clients, ClientLoop(c) PROVE LoginInv' /\ LeaseStep
  <2>1. ClientInv' /\ WireInv' /\ due \cap Ports \subseteq due'
    BY <1>0, <1>1, ClientLoopKeeps
  <2>2. UNCHANGED <<scene, track, lease, toMaster, session, salt, strain>>
    BY <1>1 DEF ClientLoop, proxyVars, masterVars
  <2> QED BY <1>0, <2>1, <2>2, SessionUntouched, LeaseUntouched, ConveyedUntouched, LeaseStutter
          DEF LoginInv, SceneInv
<1>2. ASSUME NEW c \in Clients, ProxyTimeout(c) PROVE LoginInv' /\ LeaseStep
  <2>1. UNCHANGED <<scene, client, up, late, session, salt, due, strain>>
    BY <1>2 DEF ProxyTimeout, masterVars
  <2> QED BY <1>0, <1>2, <2>1, ProxyTimeoutKeeps, WireUntouched, SessionUntouched
          DEF LoginInv, SceneInv, ClientInv
<1>3. ASSUME ProxyFromMaster PROVE LoginInv' /\ LeaseStep
  <2>1. UNCHANGED <<scene, client, up, late, session, salt, due, strain>>
    BY <1>3 DEF ProxyFromMaster, masterVars
  <2> QED BY <1>0, <1>3, <2>1, ProxyFromMasterKeeps, WireUntouched, SessionUntouched
          DEF LoginInv, SceneInv, ClientInv
<1>4. ASSUME ProxyRestart PROVE LoginInv' /\ LeaseStep
  <2>1. UNCHANGED <<scene, client, up, late, session, salt, due>> /\ strain' \in 0 .. Broken
    BY <1>4 DEF ProxyRestart, Restart, Broken, wires, masterVars
  <2> QED BY <1>0, <1>4, <2>1, ProxyRestartKeeps, WireUntouched, SessionUntouched
          DEF LoginInv, SceneInv, ClientInv
<1>5. ASSUME MasterReceives PROVE LoginInv' /\ LeaseStep
  <2>1. UNCHANGED <<scene, client, up, late, track, lease, strain>>
    BY <1>5 DEF MasterReceives, wires, proxyVars
  <2> QED BY <1>0, <1>5, <2>1, MasterReceivesKeeps, WireUntouched, LeaseUntouched
          DEF LoginInv, SceneInv, ClientInv
<1>6. ASSUME NEW p \in Ports, MasterLoop(p) PROVE LoginInv' /\ LeaseStep
  <2>1. UNCHANGED <<scene, client, up, late, track, lease, toMaster, strain>>
    BY <1>6 DEF MasterLoop, wires, proxyVars
  <2> QED BY <1>0, <1>6, <2>1, MasterLoopKeeps, WireUntouched, LeaseUntouched, ConveyedUntouched
          DEF LoginInv, SceneInv, ClientInv
<1>7. ASSUME MasterRestart PROVE LoginInv' /\ LeaseStep
  <2>1. /\ UNCHANGED <<scene, client, up, late, track, lease, toMaster>>
        /\ strain' \in 0 .. Broken
    BY <1>7 DEF MasterRestart, Restart, Broken, wires, proxyVars
  <2> QED BY <1>0, <1>7, <2>1, MasterRestartKeeps, WireUntouched, LeaseUntouched,
             ConveyedUntouched
          DEF LoginInv, SceneInv, ClientInv
<1>8. CASE UNCHANGED vars
  <2>1. UNCHANGED <<scene, client, up, late, track, lease, toMaster, session, salt, due, strain>>
    BY <1>8 DEF vars
  <2> QED BY <1>0, <2>1, WireUntouched, SessionUntouched, LeaseUntouched, ConveyedUntouched,
             LeaseStutter
          DEF LoginInv, SceneInv, ClientInv
<1> QED BY <1>1, <1>2, <1>3, <1>4, <1>5, <1>6, <1>7, <1>8, DeliverKeeps, DeliverLateKeeps,
           TickKeeps, FaultsKeep
        DEF Next, System, Faults

-----------------------------------------------------------------------------
THEOREM LoginInvariant == Spec => []LoginInv
<1>1. Init => LoginInv
  BY LoginInit
<1>2. LoginInv /\ [Next]_vars => LoginInv'
  BY LoginStep
<1> QED BY <1>1, <1>2, PTL DEF Spec

(* Types, and with them the deadline: no session and no tracked client gets older *)
(* than the loops allow, however many packets are lost or programs restarted.    *)
THEOREM LoginTypes == Spec => []TypeOK
<1>1. LoginInv => TypeOK
  BY DEF LoginInv, ClientInv, ClientType, LeaseInv, TrackType, SessionInv, SessionType, TypeOK
<1> QED BY <1>1, LoginInvariant, PTL

(* peerTrack and connTrack always tell the same story.                          *)
THEOREM BooksAgree == Spec => []LeasesTracked
<1>1. LoginInv => LeasesTracked
  BY DEF LoginInv, LeaseInv
<1> QED BY <1>1, LoginInvariant, PTL

(* The proxy and the systems behind it implement PortLease: one port to a hotspot, *)
(* and a system admits nobody but the hotspot that holds its port.               *)
THEOREM LoginImplementsLease == Spec => LeaseSpec
<1>1. Init => Leases!Init
  BY LoginInit
<1>2. LoginInv /\ [Next]_vars => [Leases!Next]_<<lease, Serving>>
  BY LoginStep DEF LeaseStep
<1> QED BY <1>1, <1>2, LoginInvariant, PTL DEF Spec, LeaseSpec, Leases!Spec
-----------------------------------------------------------------------------
(* A hotspot in service rides out a fault of the network.                        *)
(*                                                                         *)
(* Until the second fault every packet on its way tells the truth about the       *)
(* session it belongs to (Sound), so none is refused; what has not been heard of   *)
(* for n periods has lost n packets, but one that is due or on its way (Timely);   *)
(* and a client that pings is established when the ping arrives (Sure, Solo).      *)

At(c)      == session[track[c].port]
Joined(c)  == Known(c) /\ At(c).id = c
Proven(c)  == Joined(c) /\ At(c).conn \in {"WAITING_CONFIG", "YES"}
Settled(c) == Joined(c) /\ At(c).conn = "YES"

SoundRequest(c, m) ==
    /\ c \in scene.clients /\ m.id = c
    /\ m.type \in {"RPTL", "RPTK", "RPTC", "RPTO", "RPTP"}
    /\ m.type = "RPTK" => Joined(c) /\ (Proven(c) \/ m.val = At(c).salt)
    /\ m.type \in {"RPTC", "RPTO", "RPTP"} => Proven(c)

(* A plain ACK is only sent when the password has been accepted.                 *)
SoundAnswer(c, m) ==
    /\ c \in scene.clients /\ m.id = c /\ m.type \in {"RPTACK", "MSTPONG"}
    /\ m.type = "RPTACK" => /\ m = Salted("RPTACK", c, m.val) /\ Joined(c)
                            /\ IF m.val = Own THEN Proven(c) ELSE m.val = At(c).salt

SoundClient(c) ==
    /\ client[c].conn = "AUTHENTICATED" => Joined(c)
    /\ client[c].conn \in {"CONFIG-SENT", "OPTIONS-SENT", "YES"} => Proven(c)

(* Sessions belong to who holds the port, and ports to who takes part.            *)
SoundPorts ==
    /\ \A p \in Ports : session[p] # NoSession => session[p].id = lease[p]
    /\ \A p \in Ports : lease[p] # Free => lease[p] \in scene.clients
    /\ due \subseteq scene.clients \cup Ports

SoundUp   == \A c \in Clients : \A m \in Range(up[c]) : SoundRequest(c, m)
SoundDown ==
    /\ down = [c \in Clients |-> down[c]]
    /\ \A c \in Clients : Addressed(down[c], c) /\ \A m \in Range(down[c]) : SoundAnswer(c, m)
SoundToMaster ==
    toMaster # <<>> => SoundRequest(Head(toMaster).msg.id, Head(toMaster).msg)
SoundToProxy ==
    toProxy # <<>> =>
        LET q == Head(toProxy) IN
        /\ toMaster = <<>> /\ toProxy = <<q>>
        /\ q.port \in Ports /\ q.msg.id \in Clients /\ lease[q.port] = q.msg.id
        /\ SoundAnswer(q.msg.id, q.msg)
SoundLate ==
    \A d \in late : IF d.up THEN SoundRequest(d.msg.id, d.msg) ELSE SoundAnswer(d.to, d.msg)

Sound ==
    /\ SoundPorts /\ SoundUp /\ SoundDown /\ SoundToMaster /\ SoundToProxy /\ SoundLate
    /\ \A c \in Clients : SoundClient(c)

Asking(c)  == toMaster # <<>> /\ Head(toMaster).msg.id = c
Telling(c) == toProxy # <<>> /\ Head(toProxy).msg.id = c

Sends(c, types) == \E m \in Range(up[c]) : m.type \in types
Asks(c, types)  == Asking(c) /\ Head(toMaster).msg.type \in types

Ponged(c) ==
    \/ Telling(c) /\ Head(toProxy).msg.type = "MSTPONG"
    \/ \E m \in Range(down[c]) : m.type = "MSTPONG"

Unanswered(c) == client[c].missed + (IF client[c].outstanding THEN 1 ELSE 0)

TrackTimely(c) ==
    \/ track[c].age <= strain
    \/ track[c].age <= strain + 1 /\ (c \in due \/ Sends(c, {"RPTL", "RPTP"}))

SessionTimely(c) ==
    Joined(c) =>
      \/ At(c).age <= strain
      \/ /\ At(c).age <= strain + 1
         /\ c \in due \/ Sends(c, {"RPTL", "RPTP"}) \/ Asks(c, {"RPTL", "RPTP"})

PingTimely(c) ==
    \/ Unanswered(c) <= strain
    \/ /\ Unanswered(c) <= strain + 1 /\ c \notin due
       /\ Sends(c, {"RPTP"}) \/ Asks(c, {"RPTP"}) \/ Ponged(c)

Timely(c) == TrackTimely(c) /\ SessionTimely(c) /\ PingTimely(c)

(* When nothing of a login is lost, whatever is repeated, the configuration of a    *)
(* client that counts itself in is ahead of its pings.                          *)
Ahead(s) == \A i \in DOMAIN s : s[i].type = "RPTP" => \E j \in 1 .. i - 1 : s[j].type = "RPTC"

Sure(c) ==
    /\ \/ Settled(c) \/ Asks(c, {"RPTC"})
       \/ /\ client[c].conn \in {"CONFIG-SENT", "OPTIONS-SENT", "YES"} => Sends(c, {"RPTC"})
          /\ Ahead(up[c])
    /\ \/ Settled(c)
       \/ ~Asks(c, {"RPTP"}) /\ \A d \in late : ~(d.up /\ d.msg.id = c /\ d.msg.type = "RPTP")

(* When nothing is repeated there is one packet at a time, the answer to the one    *)
(* before.                                                                  *)
FitsRequest(c, m) ==
    <<client[c].conn, m.type>> \in {<<"RPTL_SENT", "RPTL">>, <<"AUTHENTICATED", "RPTK">>,
        <<"CONFIG-SENT", "RPTC">>, <<"OPTIONS-SENT", "RPTO">>, <<"YES", "RPTP">>}

FitsAnswer(c, m) ==
    \/ client[c].conn = "RPTL_SENT" /\ m.type = "RPTACK"
    \/ client[c].conn \in {"AUTHENTICATED", "OPTIONS-SENT"} /\ m = Packet("RPTACK", c)
    \/ client[c].conn = "CONFIG-SENT" /\ m = Packet("RPTACK", c) /\ Settled(c)
    \/ client[c].conn = "YES" /\ m.type = "MSTPONG"

Solo(c) ==
    /\ \A d \in late : IF d.up THEN d.msg.id # c ELSE d.to # c
    /\ client[c].conn \in {"OPTIONS-SENT", "YES"} => Settled(c)
    /\ up[c] = <<>> \/ (up[c] = <<Head(up[c])>> /\ FitsRequest(c, Head(up[c])))
    /\ down[c] = <<>> \/ (down[c] = <<Head(down[c])>> /\ FitsAnswer(c, Head(down[c])))
    /\ Asking(c) => FitsRequest(c, Head(toMaster).msg)
    /\ Telling(c) => FitsAnswer(c, Head(toProxy).msg)
    /\ up[c] # <<>> => down[c] = <<>> /\ ~Asking(c) /\ ~Telling(c)
    /\ down[c] # <<>> => ~Asking(c) /\ ~Telling(c)
    /\ up[c] # <<>> \/ down[c] # <<>> \/ Asking(c) \/ Telling(c) => c \notin due

Riding ==
    strain < Broken =>
       /\ Sound
       /\ \A c \in Clients : Timely(c)
       /\ \A c \in Clients : Solo(c) \/ (strain = 1 /\ Sure(c))
       /\ strain = 0 => \A c \in Clients : Sure(c)

-----------------------------------------------------------------------------
(* What only grows: leases and sessions, until the second fault.                  *)

Grown(s, t) ==
    s.id \in Clients => /\ t.id = s.id /\ t.salt = s.salt
                        /\ s.conn \in {"WAITING_CONFIG", "YES"} => t.conn \in {"WAITING_CONFIG", "YES"}
                        /\ s.conn = "YES" => t.conn = "YES"

Grows ==
    /\ scene' = scene
    /\ \A p \in Ports : Grown(session[p], session'[p])
    /\ \A c \in Clients : Known(c) => Known(c)' /\ track'[c].port = track[c].port

LEMMA PortOfKnown ==
  ASSUME LeaseInv, NEW c \in Clients, Known(c)
  PROVE  track[c].port \in Ports /\ lease[track[c].port] = c
  BY Tracked DEF LeaseInv, LeasesTracked, TrackType

LEMMA GrowsMeans ==
  ASSUME LeaseInv, Grows, NEW c \in Clients
  PROVE  /\ Known(c) => Known(c)' /\ track'[c].port = track[c].port
         /\ Joined(c) => Joined(c)' /\ At(c)'.salt = At(c).salt
         /\ Proven(c) => Proven(c)'
         /\ Settled(c) => Settled(c)'
<1>1. Known(c) => Known(c)' /\ track'[c].port = track[c].port /\ Grown(At(c), At(c)')
  BY PortOfKnown DEF Grows, At
<1>2. Joined(c) => Joined(c)' /\ At(c)'.salt = At(c).salt
  BY <1>1 DEF Joined, Grown
<1>3. Proven(c) => Proven(c)'
  BY <1>1 DEF Joined, Proven, Grown
<1>4. Settled(c) => Settled(c)'
  BY <1>1 DEF Joined, Settled, Grown
<1> QED BY <1>1, <1>2, <1>3, <1>4

LEMMA RequestStays ==
  ASSUME LeaseInv, Grows, NEW c \in Clients, NEW m, SoundRequest(c, m)
  PROVE  SoundRequest(c, m)'
  BY GrowsMeans DEF SoundRequest, Grows

LEMMA AnswerStays ==
  ASSUME LeaseInv, Grows, NEW c \in Clients, NEW m, SoundAnswer(c, m)
  PROVE  SoundAnswer(c, m)'
  BY GrowsMeans DEF SoundAnswer, Grows

(* Sequences of packets.                                                      *)
LEMMA AppendRange ==
  ASSUME NEW s, s \in Seq(Range(s)), NEW m
  PROVE  /\ Range(Append(s, m)) = Range(s) \cup {m}
         /\ Append(s, m) # <<>>
         /\ s = <<>> => Append(s, m) = <<m>> /\ Head(Append(s, m)) = m
<1> DEFINE S == Range(s) \cup {m}
           t == Append(s, m)
<1>1. s \in Seq(S) /\ t \in Seq(S)
  OBVIOUS
<1>2. Len(t) = Len(s) + 1 /\ t[Len(s) + 1] = m /\ \A i \in 1 .. Len(s) : t[i] = s[i]
  BY <1>1
<1>3. DOMAIN s = 1 .. Len(s) /\ DOMAIN t = 1 .. Len(s) + 1 /\ Len(s) \in Nat
  BY <1>1, <1>2
<1>4. Range(t) \subseteq S
  BY <1>2, <1>3 DEF Range
<1>5. S \subseteq Range(t)
  BY <1>2, <1>3 DEF Range
<1>6. s = <<>> => t = <<m>>
  BY <1>1
<1> QED BY <1>2, <1>3, <1>4, <1>5, <1>6

LEMMA TailRange ==
  ASSUME NEW s, s \in Seq(Range(s)), s # <<>>
  PROVE  /\ Range(s) = Range(Tail(s)) \cup {Head(s)}
         /\ s = <<Head(s)>> => Tail(s) = <<>>
<1> DEFINE S == Range(s)
           t == Tail(s)
<1>1. s \in Seq(S) /\ t \in Seq(S) /\ Len(s) \in Nat \ {0}
  OBVIOUS
<1>2. Len(t) = Len(s) - 1 /\ Head(s) = s[1] /\ \A i \in 1 .. Len(s) - 1 : t[i] = s[i + 1]
  BY <1>1
<1>3. DOMAIN s = 1 .. Len(s) /\ DOMAIN t = 1 .. Len(s) - 1
  BY <1>1, <1>2
<1>4. Range(t) \cup {Head(s)} \subseteq S
  BY <1>1, <1>2, <1>3 DEF Range
<1>5. ASSUME NEW x \in S PROVE x \in Range(t) \cup {Head(s)}
  <2>1. PICK i \in 1 .. Len(s) : x = s[i]
    BY <1>3 DEF Range
  <2>2. i = 1 \/ (i - 1 \in 1 .. Len(s) - 1 /\ i = (i - 1) + 1)
    BY <1>1, <2>1
  <2> QED BY <1>2, <1>3, <2>1, <2>2 DEF Range
<1>6. s = <<Head(s)>> => t = <<>>
  <2>1. Tail(<<Head(s)>>) = <<>>
    OBVIOUS
  <2> QED BY <2>1
<1> QED BY <1>4, <1>5, <1>6

-----------------------------------------------------------------------------
(* Sound packets stay sound.                                                   *)

LEMMA NoGrowth ==
  ASSUME UNCHANGED <<scene, track, session>>
  PROVE  Grows
  BY DEF Grows, Grown, Known

LEMMA UpStays ==
  ASSUME LeaseInv, Grows, SoundUp,
         \A c \in Clients : \A m \in Range(up'[c]) : m \in Range(up[c]) \/ SoundRequest(c, m)'
  PROVE  SoundUp'
  BY RequestStays DEF SoundUp

LEMMA DownStays ==
  ASSUME LeaseInv, Grows, SoundDown, down' = down
  PROVE  SoundDown'
  BY AnswerStays DEF SoundDown

LEMMA LateStays ==
  ASSUME LeaseInv, WireInv, Grows, SoundLate, late' \subseteq late
  PROVE  SoundLate'
<1>1. ASSUME NEW d \in late, d.up PROVE SoundRequest(d.msg.id, d.msg)'
  BY <1>1, RequestStays DEF WireInv, SoundLate
<1>2. ASSUME NEW d \in late, ~d.up PROVE SoundAnswer(d.to, d.msg)'
  BY <1>2, AnswerStays DEF WireInv, SoundLate
<1> QED BY <1>1, <1>2 DEF SoundLate

LEMMA ToMasterStays ==
  ASSUME LoginInv, Grows, SoundToMaster, toMaster' = toMaster
  PROVE  SoundToMaster'
<1>1. toMaster # <<>> => Head(toMaster).msg.id \in Clients
  BY DEF LoginInv, Conveyed, FromHolder
<1> QED BY <1>1, RequestStays DEF LoginInv, SoundToMaster

LEMMA ToProxyStays ==
  ASSUME LeaseInv, Grows, SoundToProxy, UNCHANGED <<toMaster, toProxy, lease>>
  PROVE  SoundToProxy'
<1>1. toProxy # <<>> =>
        Head(toProxy).msg.id \in Clients /\ SoundAnswer(Head(toProxy).msg.id, Head(toProxy).msg)
  BY DEF SoundToProxy
<1> QED BY <1>1, AnswerStays DEF SoundToProxy

LEMMA ClientStays ==
  ASSUME LeaseInv, Grows, NEW c \in Clients, SoundClient(c), client'[c].conn = client[c].conn
  PROVE  SoundClient(c)'
  BY GrowsMeans DEF SoundClient

LEMMA PortsStay ==
  ASSUME SoundPorts, UNCHANGED <<session, lease, scene>>, due' \subseteq due
  PROVE  SoundPorts'
  BY DEF SoundPorts

(* The clients.                                                               *)

LEMMA UpAppended ==
  ASSUME WireInv, NEW c \in Clients, NEW m, Send(c, m)
  PROVE  /\ Range(up'[c]) = Range(up[c]) \cup {m}
         /\ \A e \in Clients : e # c => up'[e] = up[e]
<1>1. up'[c] = Append(up[c], m) /\ \A e \in Clients : e # c => up'[e] = up[e]
  BY DEF WireInv, Send
<1>2. up[c] \in Seq(Range(up[c]))
  BY DEF WireInv, Addressed
<1> QED BY <1>1, <1>2, AppendRange

LEMMA ClientLoopDoes ==
  ASSUME ClientInv, NEW c \in Clients, ClientLoop(c)
  PROVE  /\ Quiet /\ c \in due /\ due' = due \ {c}
         /\ UNCHANGED <<scene, down, late, track, lease, toMaster, toProxy, session, strain>>
         /\ \A e \in Clients : e # c => client'[e] = client[e]
         /\ \/ /\ client[c].conn # "YES" \/ Unanswered(c) >= MaxMissed
               /\ client'[c].conn = "RPTL_SENT" /\ Unanswered(c)' = 0
               /\ Send(c, Packet("RPTL", c))
            \/ /\ client[c].conn = "YES" /\ client'[c].conn = "YES"
               /\ Unanswered(c)' = Unanswered(c) + 1
               /\ Send(c, Packet("RPTP", c))
<1> DEFINE n == client[c].missed + (IF client[c].outstanding THEN 1 ELSE 0)
<1>0. /\ Quiet /\ c \in due /\ due' = due \ {c}
      /\ UNCHANGED <<scene, down, late, track, lease, toMaster, toProxy, session, strain>>
  BY DEF ClientLoop, proxyVars, masterVars
<1>1. CASE /\ GivesUp(c, n)
           /\ client' = [client EXCEPT ![c] = [Offline EXCEPT !.conn = "RPTL_SENT"]]
           /\ Send(c, Packet("RPTL", c))
  <2>1. client'[c] = [conn |-> "RPTL_SENT", outstanding |-> FALSE, missed |-> 0]
    BY <1>1 DEF ClientInv, Offline
  <2>2. \A e \in Clients : e # c => client'[e] = client[e]
    BY <1>1 DEF ClientInv
  <2>3. client[c].conn # "YES" \/ Unanswered(c) >= MaxMissed
    BY <1>1 DEF GivesUp, Unanswered
  <2> QED BY <1>0, <1>1, <2>1, <2>2, <2>3 DEF Unanswered
<1>2. CASE /\ ~GivesUp(c, n)
           /\ client' = [client EXCEPT ![c].missed = n, ![c].outstanding = TRUE]
           /\ Send(c, Packet("RPTP", c))
  <2>1. client[c] \in ClientType
    BY DEF ClientInv
  <2>2. client'[c] = [client[c] EXCEPT !.missed = n, !.outstanding = TRUE]
    BY <1>2 DEF ClientInv
  <2>3. client'[c].conn = client[c].conn /\ client'[c].missed = n /\ client'[c].outstanding = TRUE
    BY <2>1, <2>2 DEF ClientType
  <2>4. \A e \in Clients : e # c => client'[e] = client[e]
    BY <1>2 DEF ClientInv
  <2>5. client[c].conn = "YES"
    BY <1>2 DEF GivesUp
  <2> QED BY <1>0, <1>2, <2>3, <2>4, <2>5 DEF Unanswered
<1> QED BY <1>1, <1>2 DEF ClientLoop

LEMMA ClientLoopSound ==
  ASSUME LoginInv, Sound, NEW c \in Clients, ClientLoop(c)
  PROVE  Sound' /\ Grows
<1>0. LeaseInv /\ WireInv /\ ClientInv
  BY DEF LoginInv
<1>1. Grows
  BY <1>0, ClientLoopDoes, NoGrowth
<1>a. c \in scene'.clients
  BY <1>0, ClientLoopDoes, ClientsAssumption DEF Sound, SoundPorts
<1>2. SoundUp'
  <2>1. client[c].conn = "YES" => SoundRequest(c, Packet("RPTP", c))'
    BY <1>0, <1>1, <1>a, GrowsMeans DEF Sound, SoundClient, SoundRequest, Packet
  <2>2. SoundRequest(c, Packet("RPTL", c))'
    BY <1>a DEF SoundRequest, Packet
  <2>3. \A e \in Clients : \A m \in Range(up'[e]) : m \in Range(up[e]) \/ SoundRequest(e, m)'
    BY <1>0, <2>1, <2>2, ClientLoopDoes, UpAppended
  <2> QED BY <1>0, <1>1, <2>3, UpStays DEF Sound
<1>3. \A e \in Clients : SoundClient(e)'
  <2>1. ASSUME NEW e \in Clients, e # c \/ client'[c].conn = client[c].conn PROVE SoundClient(e)'
    BY <1>0, <1>1, <2>1, ClientStays, ClientLoopDoes DEF Sound
  <2>2. client'[c].conn = "RPTL_SENT" => SoundClient(c)'
    BY DEF SoundClient
  <2> QED BY <1>0, <2>1, <2>2, ClientLoopDoes
<1>4. UNCHANGED <<scene, down, late, lease, toMaster, toProxy, session>> /\ due' \subseteq due
  BY <1>0, ClientLoopDoes
<1> QED BY <1>0, <1>1, <1>2, <1>3, <1>4, PortsStay, DownStays, ToMasterStays, ToProxyStays, LateStays
        DEF Sound

(* What a client makes of a sound answer.                                       *)
Turn(c, m) ==
    LET before == client[c].conn
        after == client'[c].conn
    IN
    \/ before = "RPTL_SENT" /\ after = "AUTHENTICATED" /\ Send(c, Salted("RPTK", c, m.val))
    \/ /\ before = "AUTHENTICATED" /\ m = Packet("RPTACK", c) /\ after = "CONFIG-SENT"
       /\ Send(c, Packet("RPTC", c))
    \/ /\ before = "CONFIG-SENT" /\ m = Packet("RPTACK", c) /\ after = "OPTIONS-SENT"
       /\ Send(c, Packet("RPTO", c))
    \/ /\ before \in {"CONFIG-SENT", "OPTIONS-SENT"} /\ m = Packet("RPTACK", c) /\ after = "YES"
       /\ up' = up
    \/ /\ before \in {"AUTHENTICATED", "CONFIG-SENT", "OPTIONS-SENT"} /\ m # Packet("RPTACK", c)
       /\ after = "NO" /\ up' = up
    \/ before \in {"NO", "YES"} /\ after = before /\ up' = up

LEMMA ClientReceivesDoes ==
  ASSUME ClientInv, NEW c \in Clients, NEW m, SoundAnswer(c, m), ClientReceives(c, m)
  PROVE  /\ UNCHANGED <<scene, track, lease, toMaster, toProxy, session, due, strain>>
         /\ \A e \in Clients : e # c => client'[e] = client[e]
         /\ \/ m.type = "RPTACK" /\ Turn(c, m) /\ Unanswered(c)' = Unanswered(c)
            \/ /\ m.type = "MSTPONG" /\ client'[c].conn = client[c].conn /\ up' = up
               /\ Unanswered(c)' = 0
<1>0. /\ UNCHANGED <<scene, track, lease, toMaster, toProxy, session, due, strain>>
      /\ client[c] \in ClientType
  BY DEF ClientReceives, proxyVars, masterVars, ClientInv
<1>1. CASE m.type = "RPTACK" /\ ClientAcked(c, m)
  <2>1. \A conn : Becomes(c, conn) =>
           /\ client'[c].conn = conn /\ Unanswered(c)' = Unanswered(c)
           /\ \A e \in Clients : e # c => client'[e] = client[e]
    BY <1>0 DEF Becomes, ClientInv, ClientType, Unanswered
  <2>2. Turn(c, m) /\ Unanswered(c)' = Unanswered(c)
        /\ \A e \in Clients : e # c => client'[e] = client[e]
    BY <1>0, <1>1, <2>1 DEF ClientAcked, Turn, Unanswered
  <2> QED BY <1>0, <1>1, <2>2
<1>2. CASE /\ m.type = "MSTPONG" /\ UNCHANGED up
           /\ client' = [client EXCEPT ![c].outstanding = FALSE, ![c].missed = 0]
  <2>1. client'[c] = [client[c] EXCEPT !.outstanding = FALSE, !.missed = 0]
        /\ \A e \in Clients : e # c => client'[e] = client[e]
    BY <1>2 DEF ClientInv
  <2>2. client'[c].conn = client[c].conn /\ client'[c].outstanding = FALSE /\ client'[c].missed = 0
    BY <1>0, <2>1 DEF ClientType
  <2>3. Unanswered(c)' = 0
    BY <2>2 DEF Unanswered
  <2> QED BY <1>0, <1>2, <2>1, <2>2, <2>3
<1> QED BY <1>1, <1>2 DEF ClientReceives, SoundAnswer

LEMMA TurnSends ==
  ASSUME NEW c \in Clients, NEW m, SoundClient(c), SoundAnswer(c, m), m.type = "RPTACK", Turn(c, m),
         UNCHANGED <<scene, track, session>>
  PROVE  /\ up' = up \/ \E a : SoundRequest(c, a)' /\ Send(c, a)
         /\ SoundClient(c)'
<1>1. UNCHANGED <<Joined(c), Proven(c), At(c)>>
  BY DEF Joined, Proven, At, Known
<1>2. c \in scene'.clients /\ Joined(c) /\ (m = Packet("RPTACK", c) => Proven(c))
  BY DEF SoundAnswer, Packet
<1>3. Proven(c) \/ m.val = At(c).salt
  BY DEF SoundAnswer
<1>4. SoundClient(c)'
  BY <1>1, <1>2 DEF Turn, SoundClient
<1>5. SoundRequest(c, Salted("RPTK", c, m.val))'
  BY <1>1, <1>2, <1>3 DEF SoundRequest, Salted
<1>6. m = Packet("RPTACK", c) =>
        SoundRequest(c, Packet("RPTC", c))' /\ SoundRequest(c, Packet("RPTO", c))'
  BY <1>1, <1>2 DEF SoundRequest, Packet
<1> QED BY <1>4, <1>5, <1>6 DEF Turn

LEMMA ClientReceivesSound ==
  ASSUME LoginInv, Sound, NEW c \in Clients, NEW m, SoundAnswer(c, m), ClientReceives(c, m),
         late' \subseteq late, SoundDown'
  PROVE  Sound' /\ Grows
<1>0. LeaseInv /\ WireInv /\ ClientInv
  BY DEF LoginInv
<1>1. UNCHANGED <<scene, track, lease, toMaster, toProxy, session, due>>
  BY <1>0, ClientReceivesDoes
<1>2. Grows
  BY <1>1, NoGrowth
<1>3. (up' = up \/ \E a : SoundRequest(c, a)' /\ Send(c, a)) /\ SoundClient(c)'
  <2>1. CASE m.type = "RPTACK" /\ Turn(c, m)
    BY <1>1, <2>1, TurnSends DEF Sound
  <2>2. CASE up' = up /\ client'[c].conn = client[c].conn
    BY <1>0, <1>2, <2>2, ClientStays DEF Sound
  <2> QED BY <1>0, <2>1, <2>2, ClientReceivesDoes
<1>4. SoundUp'
  <2>1. \A e \in Clients : \A a \in Range(up'[e]) : a \in Range(up[e]) \/ SoundRequest(e, a)'
    BY <1>0, <1>3, UpAppended
  <2> QED BY <1>0, <1>2, <2>1, UpStays DEF Sound
<1>5. \A e \in Clients : SoundClient(e)'
  <2>1. ASSUME NEW e \in Clients, e # c PROVE SoundClient(e)'
    BY <1>0, <1>2, <2>1, ClientStays, ClientReceivesDoes DEF Sound
  <2> QED BY <1>3, <2>1
<1> QED BY <1>0, <1>1, <1>2, <1>4, <1>5, PortsStay, ToMasterStays, ToProxyStays, LateStays DEF Sound

(* The proxy.                                                                 *)

LEMMA ProxyReceivesDoes ==
  ASSUME LoginInv, Sound, Quiet, NEW c \in Clients, NEW m, SoundRequest(c, m), ProxyReceives(c, m)
  PROVE  /\ UNCHANGED <<scene, client, toProxy, session, due, strain>>
         /\ \A e \in Clients : e # c => track'[e] = track[e]
         /\ track'[c].age = 0
         /\ \/ /\ Known(c) /\ Known(c)' /\ track'[c].port = track[c].port /\ lease' = lease
               /\ toMaster' = <<[port |-> track[c].port, msg |-> m]>>
            \/ /\ ~Known(c) /\ m.type = "RPTL" /\ ~Joined(c)'
               /\ \E p \in scene.ports :
                     /\ lease[p] = Free /\ lease' = [lease EXCEPT ![p] = c]
                     /\ toMaster' = <<[port |-> p, msg |-> m]>>
            \/ /\ ~Known(c) /\ m.type = "RPTL" /\ UNCHANGED <<track, lease, toMaster>>
<1>0. /\ LeaseInv /\ SceneInv /\ SessionInv /\ toMaster = <<>>
      /\ UNCHANGED <<scene, client, toProxy, session, due, strain>>
  BY DEF LoginInv, Quiet, ProxyReceives, masterVars
<1>1. ~Known(c) => m.type = "RPTL" /\ track[c] = NoTrack
  BY DEF SoundRequest, Proven, Joined, Known
<1>2. CASE /\ Known(c)
           /\ track' = [track EXCEPT ![c].conn = AfterRequest(@, m.type), ![c].age = 0]
           /\ ToMaster(track[c].port, m)
           /\ UNCHANGED lease
  <2> DEFINE conn == AfterRequest(track[c].conn, m.type)
             t == [track[c] EXCEPT !.conn = conn, !.age = 0]
  <2>1. track[c] \in TrackType
    BY <1>0, <1>2, Tracked
  <2>2. conn \in ProxyStates
    BY <2>1, Requests DEF TrackType
  <2> HIDE DEF conn
  <2>z. 0 \in 0 .. Timeout
    BY LimitsAssumption
  <2>3. t \in TrackType /\ t.age = 0 /\ t.port = track[c].port
    BY <2>1, <2>2, <2>z DEF TrackType
  <2>4. track' = [track EXCEPT ![c] = t]
    BY <1>2 DEF conn
  <2> HIDE DEF t
  <2>5. track'[c] = t /\ \A e \in Clients : e # c => track'[e] = track[e]
    BY <1>0, <2>4 DEF LeaseInv
  <2>6. Known(c)'
    BY <2>3, <2>5, TrackedIsKnown DEF Known
  <2>7. toMaster' = <<[port |-> track[c].port, msg |-> m]>>
    BY <1>0, <1>2 DEF ToMaster
  <2> QED BY <1>0, <1>2, <2>3, <2>5, <2>6, <2>7
<1>3. ASSUME ~Known(c), NEW p \in FreePorts,
             track' = [track EXCEPT ![c] = [port |-> p, conn |-> AtFirst(m.type), age |-> 0]],
             lease' = [lease EXCEPT ![p] = c],
             ToMaster(p, m)
      PROVE  /\ \A e \in Clients : e # c => track'[e] = track[e]
             /\ track'[c].age = 0 /\ ~Joined(c)'
             /\ p \in scene.ports /\ lease[p] = Free
             /\ toMaster' = <<[port |-> p, msg |-> m]>>
  <2>1. track'[c] = [port |-> p, conn |-> AtFirst(m.type), age |-> 0]
        /\ \A e \in Clients : e # c => track'[e] = track[e]
    BY <1>0, <1>3 DEF LeaseInv
  <2>2. p \in scene.ports /\ p \in Ports /\ lease[p] = Free
    BY <1>0 DEF FreePorts, SceneInv
  <2>3. session[p] = NoSession
    BY <1>0, <2>2, ClientsAssumption DEF Sound, SoundPorts, SessionInv, SessionType
  <2>4. ~Joined(c)'
    BY <1>0, <2>1, <2>3, ClientsAssumption DEF Joined, At, NoSession
  <2>5. toMaster' = <<[port |-> p, msg |-> m]>>
    BY <1>0, <1>3 DEF ToMaster
  <2> QED BY <2>1, <2>2, <2>4, <2>5
<1>4. CASE ~Known(c) /\ UNCHANGED <<track, lease, toMaster>>
  BY <1>0, <1>1, <1>4 DEF NoTrack
<1> QED BY <1>0, <1>1, <1>2, <1>3, <1>4 DEF ProxyReceives

LEMMA ProxyReceivesSound ==
  ASSUME LoginInv, Sound, Quiet, NEW c \in Clients, NEW m, SoundRequest(c, m), ProxyReceives(c, m),
         late' \subseteq late, down' = down, \A e \in Clients : Range(up'[e]) \subseteq Range(up[e])
  PROVE  Sound' /\ Grows
<1>0. /\ LeaseInv /\ WireInv /\ SceneInv /\ SessionInv /\ toProxy = <<>> /\ toMaster = <<>>
      /\ UNCHANGED <<scene, client, toProxy, session, due>>
  BY DEF LoginInv, Quiet, ProxyReceives, masterVars
<1>1. Grows
  <2>1. \A e \in Clients : Known(e) => Known(e)' /\ track'[e].port = track[e].port
    BY ProxyReceivesDoes DEF Known
  <2> QED BY <1>0, <2>1 DEF Grows, Grown
<1>2. SoundPorts'
  <2>1. lease' = lease \/ \E p \in scene.ports : lease[p] = Free /\ lease' = [lease EXCEPT ![p] = c]
    BY ProxyReceivesDoes
  <2>2. ASSUME NEW p \in scene.ports, lease[p] = Free, lease' = [lease EXCEPT ![p] = c]
        PROVE  SoundPorts'
    <3>1. session[p] = NoSession /\ p \in Ports
      BY <1>0, <2>2, ClientsAssumption DEF SceneInv, Sound, SoundPorts, SessionInv, SessionType
    <3>2. \A r \in Ports : lease'[r] = IF r = p THEN c ELSE lease[r]
      BY <1>0, <2>2 DEF LeaseInv
    <3>3. c \in scene'.clients
      BY <1>0 DEF SoundRequest
    <3> QED BY <1>0, <3>1, <3>2, <3>3 DEF Sound, SoundPorts
  <2> QED BY <1>0, <2>1, <2>2 DEF Sound, SoundPorts
<1>3. SoundUp'
  BY <1>0, <1>1, UpStays DEF Sound
<1>4. SoundToMaster'
  <2>1. toMaster' = <<>> \/ \E p : toMaster' = <<[port |-> p, msg |-> m]>>
    BY <1>0, ProxyReceivesDoes
  <2>2. m.id = c /\ SoundRequest(c, m)'
    BY <1>0, <1>1, RequestStays DEF SoundRequest
  <2> QED BY <2>1, <2>2 DEF SoundToMaster
<1>5. SoundToProxy'
  BY <1>0 DEF SoundToProxy
<1>6. \A e \in Clients : SoundClient(e)'
  BY <1>0, <1>1, ClientStays DEF Sound
<1> QED BY <1>0, <1>1, <1>2, <1>3, <1>4, <1>5, <1>6, DownStays, LateStays DEF Sound

(* A sound answer goes on to the client it names.                               *)
LEMMA ProxyFromMasterDoes ==
  ASSUME LoginInv, Sound, ProxyFromMaster,
         NEW c, c = Head(toProxy).msg.id, NEW m, m = Head(toProxy).msg
  PROVE  /\ c \in Clients /\ Telling(c) /\ SoundAnswer(c, m) /\ Known(c) /\ Known(c)'
         /\ toMaster = <<>> /\ toMaster' = <<>> /\ toProxy' = <<>> /\ lease' = lease
         /\ UNCHANGED <<scene, client, up, session, due, late, strain>>
         /\ Forward(c, m)
         /\ track'[c].port = track[c].port /\ track'[c].age = track[c].age
         /\ \A e \in Clients : e # c => track'[e] = track[e]
<1> DEFINE q == Head(toProxy)
           p == q.port
<1>1. /\ toMaster = <<>> /\ toProxy = <<q>> /\ p \in Ports /\ c \in Clients /\ lease[p] = c
      /\ SoundAnswer(c, m) /\ LeaseInv
      /\ UNCHANGED <<scene, client, up, session, due, late, strain>>
  BY DEF ProxyFromMaster, Sound, SoundToProxy, LoginInv, masterVars
<1>2. Known(c) /\ Telling(c)
  BY <1>1, ClientsAssumption DEF LeaseInv, LeasesTracked, Telling
<1>3. Addressee(p, m) = c
  BY <1>1, <1>2 DEF Addressee, SoundAnswer
<1>4. toProxy' = <<>>
  <2>1. Tail(<<q>>) = <<>>
    OBVIOUS
  <2> QED BY <1>1, <2>1 DEF ProxyFromMaster
<1>5. \/ /\ track' = [track EXCEPT ![c].conn = AfterAck(@)]
         /\ Forward(c, m) /\ UNCHANGED <<lease, toMaster>>
      \/ Forward(c, m) /\ UNCHANGED <<track, lease, toMaster>>
  BY <1>1, <1>2, <1>3 DEF ProxyFromMaster, SoundAnswer
<1>6. CASE track' = [track EXCEPT ![c].conn = AfterAck(@)]
  <2> DEFINE t == [track[c] EXCEPT !.conn = AfterAck(@)]
  <2>1. track[c] \in TrackType
    BY <1>1, <1>2, Tracked
  <2>2. t \in TrackType /\ t.port = track[c].port /\ t.age = track[c].age
    BY <2>1, Requests DEF TrackType
  <2>3. track' = [track EXCEPT ![c] = t]
    BY <1>6
  <2> HIDE DEF t
  <2>4. track'[c] = t /\ \A e \in Clients : e # c => track'[e] = track[e]
    BY <1>1, <2>3 DEF LeaseInv
  <2>5. Known(c)'
    BY <1>1, <2>2, <2>4, TrackedIsKnown DEF Known
  <2> QED BY <1>1, <1>2, <1>4, <1>5, <2>2, <2>4, <2>5
<1>7. CASE track' = track
  BY <1>1, <1>2, <1>4, <1>5, <1>7 DEF Known
<1> QED BY <1>5, <1>6, <1>7

LEMMA DownForwarded ==
  ASSUME SoundDown, NEW c \in Clients, NEW m, Forward(c, m)
  PROVE  /\ down' = [e \in Clients |-> down'[e]]
         /\ down'[c] = Append(down[c], m)
         /\ Range(down'[c]) = Range(down[c]) \cup {m}
         /\ \A e \in Clients : e # c => down'[e] = down[e]
<1>1. /\ down'[c] = Append(down[c], m) /\ \A e \in Clients : e # c => down'[e] = down[e]
      /\ down' = [e \in Clients |-> down'[e]]
  BY DEF SoundDown, Forward
<1>2. down[c] \in Seq(Range(down[c]))
  BY DEF SoundDown, Addressed
<1> QED BY <1>1, <1>2, AppendRange

LEMMA ProxyFromMasterSound ==
  ASSUME LoginInv, Sound, ProxyFromMaster
  PROVE  Sound' /\ Grows
<1>a. PICK c, m : c = Head(toProxy).msg.id /\ m = Head(toProxy).msg
  OBVIOUS
<1>0. /\ c \in Clients /\ SoundAnswer(c, m) /\ Known(c) /\ Known(c)'
      /\ toMaster = <<>> /\ toMaster' = <<>> /\ toProxy' = <<>> /\ lease' = lease
      /\ UNCHANGED <<scene, client, up, session, due, late, strain>>
      /\ Forward(c, m) /\ LeaseInv /\ WireInv
      /\ track'[c].port = track[c].port
      /\ \A e \in Clients : e # c => track'[e] = track[e]
  BY <1>a, ProxyFromMasterDoes DEF LoginInv
<1>1. Grows
  <2>1. \A e \in Clients : Known(e) => Known(e)' /\ track'[e].port = track[e].port
    BY <1>0 DEF Known
  <2> QED BY <1>0, <2>1 DEF Grows, Grown
<1>2. SoundDown'
  <2>1. \A e \in Clients : \A a \in Range(down'[e]) : SoundAnswer(e, a)'
    BY <1>0, <1>1, AnswerStays, DownForwarded DEF Sound, SoundDown
  <2>2. m.id = c
    BY <1>0 DEF SoundAnswer
  <2>3. SoundDown /\ Addressed(down[c], c) /\ \A e \in Clients : Addressed(down[e], e)
    BY <1>0 DEF Sound, SoundDown
  <2>4. Addressed(Append(down[c], m), c)
    BY <2>2, <2>3, AddressedAppend
  <2>5. /\ down' = [e \in Clients |-> down'[e]] /\ down'[c] = Append(down[c], m)
        /\ \A e \in Clients : e # c => down'[e] = down[e]
    BY <1>0, <2>3, DownForwarded
  <2>6. \A e \in Clients : Addressed(down'[e], e)
    BY <2>3, <2>4, <2>5
  <2> QED BY <2>1, <2>5, <2>6 DEF SoundDown
<1>3. SoundUp' /\ SoundLate'
  BY <1>0, <1>1, UpStays, LateStays DEF Sound
<1>4. SoundToMaster' /\ SoundToProxy'
  BY <1>0 DEF SoundToMaster, SoundToProxy
<1>5. \A e \in Clients : SoundClient(e)'
  BY <1>0, <1>1, ClientStays DEF Sound
<1> QED BY <1>0, <1>1, <1>2, <1>3, <1>4, <1>5, PortsStay DEF Sound

(* The system behind a port: a sound request is never refused.                     *)

Replies(c, r) == toProxy' = <<[port |-> track[c].port, msg |-> r]>>

(* What becomes of the session.                                               *)
GoesOn(c, conn) == At(c)'.id = c /\ At(c)'.conn = conn /\ At(c)'.salt = At(c).salt /\ At(c)'.age = 0

LEMMA SessionStep ==
  ASSUME LoginInv, NEW c \in Clients, Joined(c), track' = track
  PROVE  /\ At(c) \in SessionType
         /\ Refresh(track[c].port) => GoesOn(c, At(c).conn)
         /\ \A conn : Step(track[c].port, conn) => GoesOn(c, conn)
<1> DEFINE p == track[c].port
<1>1. p \in Ports /\ LeaseInv /\ SessionInv
  BY PortOfKnown DEF LoginInv, Joined
<1>2. At(c) \in SessionType
  BY <1>1, HasSession DEF Joined, At
<1>3. \A conn : [At(c) EXCEPT !.conn = conn, !.age = 0].id = At(c).id
  BY <1>2 DEF SessionType
<1>4. Refresh(p) => GoesOn(c, At(c).conn)
  <2> SUFFICES ASSUME Refresh(p) PROVE GoesOn(c, At(c).conn)
    OBVIOUS
  <2>1. At(c)' = [At(c) EXCEPT !.age = 0]
    BY <1>1 DEF Refresh, At, SessionInv
  <2> QED BY <1>2, <2>1 DEF SessionType, GoesOn, Joined
<1>5. ASSUME NEW conn, Step(p, conn) PROVE GoesOn(c, conn)
  <2>1. At(c)' = [At(c) EXCEPT !.conn = conn, !.age = 0]
    BY <1>1, <1>5 DEF Step, At, SessionInv
  <2> QED BY <1>2, <2>1 DEF SessionType, GoesOn, Joined
<1> QED BY <1>2, <1>4, <1>5

LEMMA MasterFrame ==
  ASSUME LoginInv, Sound, MasterReceives,
         NEW c, c = Head(toMaster).msg.id, NEW m, m = Head(toMaster).msg
  PROVE  /\ c \in Clients /\ Asking(c) /\ SoundRequest(c, m) /\ Known(c)
         /\ Head(toMaster).port = track[c].port
         /\ toProxy = <<>> /\ toMaster' = <<>> /\ toMaster # <<>>
         /\ UNCHANGED <<scene, client, up, down, late, track, lease, due, strain>>
<1> DEFINE q == Head(toMaster)
<1>1. toMaster # <<>> /\ toMaster = <<q>> /\ FromHolder(q) /\ LeaseInv
  BY DEF LoginInv, MasterReceives, Conveyed
<1>2. SoundRequest(c, m) /\ toProxy = <<>> /\ c \in Clients
  BY <1>1 DEF Sound, SoundToMaster, SoundToProxy, FromHolder
<1>3. m.type # "RPTCL"
  BY <1>2 DEF SoundRequest
<1>4. lease[q.port] = c /\ q.port \in Ports
  BY <1>1, <1>3 DEF FromHolder
<1>5. Known(c) /\ track[c].port = q.port
  BY <1>1, <1>2, <1>4, ClientsAssumption DEF LeaseInv, LeasesTracked
<1>6. Tail(<<q>>) = <<>>
  OBVIOUS
<1> QED BY <1>1, <1>2, <1>5, <1>6 DEF MasterReceives, Asking, wires, proxyVars

Outcome(c, m) ==
    \/ /\ m.type \in {"RPTL", "RPTK", "RPTC", "RPTO"}
       /\ \E r : Replies(c, r) /\ SoundAnswer(c, r)' /\ r.type = "RPTACK"
                 /\ (m.type # "RPTL" => r = Packet("RPTACK", c))
       /\ m.type # "RPTO" => At(c)'.age = 0
       /\ m.type = "RPTO" => session' = session
       /\ m.type = "RPTC" => Settled(c)'
    \/ m.type = "RPTP" /\ Settled(c) /\ Replies(c, Packet("MSTPONG", c)) /\ At(c)'.age = 0
    \/ m.type = "RPTP" /\ ~Settled(c) /\ UNCHANGED <<session, toProxy>>

LEMMA MasterReceivesDoes ==
  ASSUME LoginInv, Sound, MasterReceives,
         NEW c, c = Head(toMaster).msg.id, NEW m, m = Head(toMaster).msg
  PROVE  /\ Outcome(c, m)
         /\ Grown(At(c), At(c)') /\ (session' = session \/ At(c)'.id = c)
         /\ \A r \in Ports : r # track[c].port => session'[r] = session[r]
<1> DEFINE p == track[c].port
<1>0. /\ c \in Clients /\ SoundRequest(c, m) /\ Known(c) /\ p \in Ports /\ lease[p] = c
      /\ Head(toMaster).port = p /\ toProxy = <<>> /\ UNCHANGED <<scene, track, lease>>
      /\ SessionInv
  BY MasterFrame, PortOfKnown DEF LoginInv
<1>1. c \in scene'.clients
  BY <1>0 DEF SoundRequest
<1>2. \A r : Reply(p, r) => Replies(c, r)
  BY <1>0 DEF Reply, Replies
<1>3. At(c).id = c \/ At(c) = NoSession
  BY <1>0 DEF Sound, SoundPorts, At
<1>4. session' = session => Grown(At(c), At(c)')
  BY <1>0 DEF Grown, At
<1>5. \A r \in Ports : r # p => session'[r] = session[r]
  BY <1>0 DEF SessionInv, MasterReceives, MasterRPTL, MasterRPTK, MasterRPTC, MasterRPTCL, MasterRPTO,
              MasterRPTP, Refresh, Step, Discard, masterVars
<1>6. Joined(c) => /\ At(c) \in SessionType
                   /\ Refresh(p) => GoesOn(c, At(c).conn)
                   /\ \A conn : Step(p, conn) => GoesOn(c, conn)
  BY <1>0, SessionStep
<1>a. \A conn : GoesOn(c, conn) => Joined(c)' /\ At(c)'.id = c /\ At(c)'.age = 0
  BY <1>0 DEF GoesOn, Joined, At, Known
<1>b. SoundAnswer(c, Packet("RPTACK", c))' <=> Proven(c)'
  BY <1>1 DEF SoundAnswer, Packet, Salted, Proven
<1>c. Joined(c) <=> At(c).id = c
  BY <1>0 DEF Joined
<1>7. CASE m.type = "RPTL" /\ MasterRPTL(p, c)
  <2>1. CASE Joined(c) /\ Refresh(p)
             /\ Reply(p, IF At(c).conn = "CHALLENGE_SENT" THEN Salted("RPTACK", c, At(c).salt)
                         ELSE Packet("RPTACK", c))
    <3>1. GoesOn(c, At(c).conn) /\ At(c) \in SessionType
      BY <1>6, <2>1
    <3>2. Grown(At(c), At(c)')
      BY <2>1, <3>1 DEF GoesOn, Grown, Joined
    <3>3. CASE At(c).conn = "CHALLENGE_SENT"
      <4>1. PICK v : v = At(c).salt
        OBVIOUS
      <4>2. v # Own /\ v = At(c)'.salt
        BY <3>1, <4>1, LimitsAssumption DEF GoesOn, SessionType, Own
      <4>3. SoundAnswer(c, Salted("RPTACK", c, v))'
        BY <1>1, <1>a, <3>1, <4>2 DEF SoundAnswer, Salted
      <4> QED BY <1>2, <1>5, <1>7, <1>a, <2>1, <3>1, <3>2, <3>3, <4>1, <4>3 DEF Outcome, Salted
    <3>4. CASE At(c).conn # "CHALLENGE_SENT"
      <4>1. Proven(c)'
        BY <1>a, <3>1, <3>4 DEF Proven, GoesOn, SessionType
      <4> QED BY <1>2, <1>5, <1>7, <1>a, <1>b, <2>1, <3>1, <3>2, <3>4, <4>1 DEF Outcome, Packet
    <3> QED BY <3>3, <3>4
  <2>2. CASE /\ At(c) = NoSession
             /\ session' = [session EXCEPT ![p] =
                              [id |-> c, conn |-> "CHALLENGE_SENT", salt |-> salt, age |-> 0]]
             /\ Reply(p, Salted("RPTACK", c, salt))
    <3>1. At(c)' = [id |-> c, conn |-> "CHALLENGE_SENT", salt |-> salt, age |-> 0]
      BY <1>0, <2>2 DEF At, SessionInv
    <3>2. Joined(c)' /\ Grown(At(c), At(c)')
      BY <1>0, <2>2, <3>1, ClientsAssumption DEF Joined, Known, Grown, NoSession
    <3>3. PICK v : v = salt
      OBVIOUS
    <3>4. v # Own /\ v = At(c)'.salt
      BY <1>0, <3>1, <3>3, LimitsAssumption DEF SessionInv, Own
    <3>5. SoundAnswer(c, Salted("RPTACK", c, v))'
      BY <1>1, <3>2, <3>4 DEF SoundAnswer, Salted
    <3>6. Replies(c, Salted("RPTACK", c, v)) /\ Salted("RPTACK", c, v).type = "RPTACK"
      BY <1>2, <2>2, <3>3 DEF Salted
    <3>7. At(c)'.age = 0 /\ At(c)'.id = c
      BY <3>1
    <3>8. Outcome(c, m)
      BY <1>7, <3>5, <3>6, <3>7 DEF Outcome
    <3> QED BY <1>5, <3>2, <3>7, <3>8
  <2>3. session[p].id \in {Free, c}
    BY <1>3 DEF At, NoSession
  <2> QED BY <1>3, <1>7, <1>c, <2>1, <2>2, <2>3 DEF MasterRPTL, RepeatedRPTL, At
<1>8. CASE m.type = "RPTK" /\ MasterRPTK(p, c, m.val)
  <2>1. Joined(c) /\ (Proven(c) \/ m.val = At(c).salt)
    BY <1>0, <1>8 DEF SoundRequest
  <2>2. /\ Reply(p, Packet("RPTACK", c))
        /\ \/ Proven(c) /\ Refresh(p)
           \/ ~Proven(c) /\ Step(p, "WAITING_CONFIG")
    BY <1>8, <2>1 DEF MasterRPTK, Joined, Proven, At
  <2>3. \/ Proven(c) /\ GoesOn(c, At(c).conn)
        \/ ~Proven(c) /\ GoesOn(c, "WAITING_CONFIG")
    BY <1>6, <2>1, <2>2
  <2>4. Proven(c)' /\ Grown(At(c), At(c)')
    BY <1>a, <2>1, <2>3 DEF Proven, GoesOn, Grown, Joined
  <2> QED BY <1>2, <1>5, <1>8, <1>a, <1>b, <2>2, <2>3, <2>4 DEF Outcome, Packet
<1>9. CASE m.type = "RPTC" /\ MasterRPTC(p, c)
  <2>1. Proven(c) /\ Joined(c)
    BY <1>0, <1>9 DEF SoundRequest, Proven
  <2>2. Step(p, "YES") /\ Reply(p, Packet("RPTACK", c))
    BY <1>9, <2>1 DEF MasterRPTC, Proven, Joined, At
  <2>3. GoesOn(c, "YES")
    BY <1>6, <2>1, <2>2
  <2>4. Proven(c)' /\ Settled(c)' /\ Grown(At(c), At(c)')
    BY <1>a, <2>1, <2>3 DEF Proven, Settled, GoesOn, Grown, Joined
  <2> QED BY <1>2, <1>5, <1>9, <1>a, <1>b, <2>2, <2>3, <2>4 DEF Outcome, Packet
<1>10. CASE m.type = "RPTO" /\ MasterRPTO(p, c)
  <2>1. Proven(c) /\ session[p].id = c
    BY <1>0, <1>10 DEF SoundRequest, Proven, Joined, At
  <2>2. session' = session /\ Reply(p, Packet("RPTACK", c))
    BY <1>10, <2>1 DEF MasterRPTO
  <2>3. Proven(c)'
    BY <1>0, <2>1, <2>2 DEF Proven, Joined, At, Known
  <2> QED BY <1>2, <1>4, <1>5, <1>10, <1>b, <2>2, <2>3 DEF Outcome, Packet
<1>11. CASE m.type = "RPTP" /\ MasterRPTP(p, c)
  <2>1. Settled(c) <=> Established(p, c)
    BY <1>c DEF Settled, Joined, Established, At
  <2>2. CASE Settled(c)
    <3>1. Joined(c) /\ Refresh(p) /\ Reply(p, Packet("MSTPONG", c))
      BY <1>11, <2>1, <2>2 DEF MasterRPTP, Settled
    <3>2. GoesOn(c, At(c).conn)
      BY <1>6, <3>1
    <3>3. Grown(At(c), At(c)')
      BY <3>1, <3>2 DEF GoesOn, Grown, Joined
    <3> QED BY <1>2, <1>5, <1>11, <1>a, <2>2, <3>1, <3>2, <3>3 DEF Outcome
  <2>3. CASE ~Settled(c)
    BY <1>4, <1>5, <1>11, <2>1, <2>3 DEF MasterRPTP, Outcome
  <2> QED BY <2>2, <2>3
<1> QED BY <1>0, <1>7, <1>8, <1>9, <1>10, <1>11 DEF MasterReceives, SoundRequest

LEMMA MasterReceivesSound ==
  ASSUME LoginInv, Sound, MasterReceives
  PROVE  Sound' /\ Grows
<1>a. PICK c, m : c = Head(toMaster).msg.id /\ m = Head(toMaster).msg
  OBVIOUS
<1> DEFINE p == track[c].port
<1>0. /\ c \in Clients /\ SoundRequest(c, m) /\ Known(c) /\ toProxy = <<>> /\ toMaster' = <<>>
      /\ UNCHANGED <<scene, client, up, down, late, track, lease, due>>
      /\ p \in Ports /\ lease[p] = c /\ LeaseInv /\ WireInv
  BY <1>a, MasterFrame, PortOfKnown DEF LoginInv
<1>1. /\ Outcome(c, m) /\ Grown(At(c), At(c)') /\ (session' = session \/ At(c)'.id = c)
      /\ \A r \in Ports : r # p => session'[r] = session[r]
  BY <1>a, MasterReceivesDoes
<1>2. At(c) = session[p] /\ At(c)' = session'[p]
  BY <1>0 DEF At
<1>3. Grows
  BY <1>0, <1>1, <1>2 DEF Grows, Grown, Known
<1>4. SoundPorts'
  BY <1>0, <1>1, <1>2 DEF Sound, SoundPorts
<1>5. SoundToProxy'
  <2>1. CASE toProxy' = <<>>
    BY <2>1 DEF SoundToProxy
  <2>2. ASSUME NEW r, Replies(c, r), SoundAnswer(c, r)' PROVE SoundToProxy'
    <3>1. toProxy' = <<[port |-> p, msg |-> r]>> /\ r.id = c
      BY <2>2 DEF Replies, SoundAnswer
    <3> QED BY <1>0, <2>2, <3>1 DEF SoundToProxy
  <2>3. SoundAnswer(c, Packet("MSTPONG", c))'
    BY <1>0 DEF SoundAnswer, SoundRequest, Packet
  <2> QED BY <1>0, <1>1, <2>1, <2>2, <2>3 DEF Outcome
<1>6. SoundUp' /\ SoundDown' /\ SoundLate'
  BY <1>0, <1>3, UpStays, DownStays, LateStays DEF Sound
<1>7. SoundToMaster'
  BY <1>0 DEF SoundToMaster
<1>8. \A e \in Clients : SoundClient(e)'
  BY <1>0, <1>3, ClientStays DEF Sound
<1> QED BY <1>3, <1>4, <1>5, <1>6, <1>7, <1>8 DEF Sound

(* Nobody is given up while everybody is heard of in time.                       *)
LEMMA LoopSpares ==
  ASSUME LoginInv, Sound, strain < Broken, \A c \in Clients : Timely(c), MaxMissed >= 3,
         NEW p \in Ports, MasterLoop(p)
  PROVE  /\ UNCHANGED <<scene, client, up, down, late, track, lease, toMaster, toProxy, session, strain>>
         /\ due' = due \ {p}
<1>0. /\ UNCHANGED <<scene, client, up, down, late, track, lease, toMaster, strain>>
      /\ due' = due \ {p} /\ LeaseInv /\ SessionInv /\ strain \in {0, 1} /\ MaxMissed \in Nat
  BY LimitsAssumption DEF MasterLoop, wires, proxyVars, LoginInv, Broken
<1>1. session[p].age < MaxMissed
  <2>1. CASE session[p] = NoSession
    BY <1>0, <2>1, LimitsAssumption DEF NoSession
  <2>2. CASE session[p] # NoSession
    <3> DEFINE c == session[p].id
    <3>1. session[p] \in SessionType /\ c \in Clients /\ lease[p] = c
      BY <1>0, <2>2 DEF SessionInv, SessionType, Sound, SoundPorts
    <3>2. Known(c) /\ track[c].port = p
      BY <1>0, <3>1, ClientsAssumption DEF LeaseInv, LeasesTracked
    <3>3. Joined(c) /\ At(c) = session[p]
      BY <3>2 DEF Joined, At
    <3>4. At(c).age <= strain \/ At(c).age <= strain + 1
      BY <3>1, <3>3 DEF Timely, SessionTimely
    <3>5. session[p].age \in Int
      BY <3>1, <1>0 DEF SessionType
    <3> QED BY <1>0, <3>3, <3>4, <3>5
  <2> QED BY <2>1, <2>2
<1>2. session[p].age \in Int
  BY <1>0, LimitsAssumption DEF SessionInv, SessionType, NoSession
<1> QED BY <1>0, <1>1, <1>2 DEF MasterLoop

LEMMA TimeoutSpares ==
  ASSUME LoginInv, strain < Broken, Timeout >= 3, NEW c \in Clients, Timely(c)
  PROVE  ~ProxyTimeout(c)
<1>1. strain \in {0, 1} /\ track[c].age \in Int /\ Timeout \in Nat
  BY LimitsAssumption DEF LoginInv, LeaseInv, TrackType, NoTrack, Broken
<1>2. track[c].age <= strain \/ track[c].age <= strain + 1
  BY DEF Timely, TrackTimely
<1> QED BY <1>1, <1>2 DEF ProxyTimeout

LEMMA LoopSound ==
  ASSUME LoginInv, Sound, due' \subseteq due,
         UNCHANGED <<scene, client, up, down, late, track, lease, toMaster, toProxy, session>>
  PROVE  Sound' /\ Grows
<1>0. LeaseInv /\ WireInv /\ Grows
  BY NoGrowth DEF LoginInv
<1>1. SoundUp'
  BY <1>0, UpStays DEF Sound
<1>2. \A e \in Clients : SoundClient(e)'
  BY <1>0, ClientStays DEF Sound
<1> QED BY <1>0, <1>1, <1>2, PortsStay, DownStays, ToMasterStays, ToProxyStays, LateStays DEF Sound

(* A period passes.                                                           *)
LEMMA TickAges ==
  ASSUME LoginInv, Sound, Tick, NEW p \in Ports
  PROVE  /\ session'[p].id = session[p].id /\ session'[p].conn = session[p].conn
         /\ session'[p].salt = session[p].salt
         /\ session[p] # NoSession => session'[p].age = session[p].age + 1
         /\ session[p] = NoSession => session'[p] = NoSession
<1>1. session' = [q \in Ports |-> IF session[q] # NoSession
                                   THEN [session[q] EXCEPT !.age = @ + 1] ELSE NoSession]
  BY DEF Tick
<1>2. session[p] # NoSession => session[p] \in SessionType
  BY DEF LoginInv, SessionInv
<1>3. session[p] # NoSession => session'[p] = [session[p] EXCEPT !.age = @ + 1]
  BY <1>1
<1> QED BY <1>1, <1>2, <1>3 DEF SessionType

LEMMA TickTracks ==
  ASSUME LoginInv, Sound, Tick, NEW c \in Clients
  PROVE  /\ Known(c)' <=> Known(c)
         /\ track'[c].port = track[c].port
         /\ track'[c].age = IF Known(c) THEN track[c].age + 1 ELSE 0
<1>1. CASE Known(c)
  <2> DEFINE t == [track[c] EXCEPT !.age = @ + 1]
  <2>1. track[c] \in TrackType /\ track[c].age < Timeout /\ track'[c] = t
    BY <1>1, Tracked DEF Tick, LoginInv
  <2>2. t \in TrackType /\ t.port = track[c].port /\ t.age = track[c].age + 1
    BY <2>1, LimitsAssumption DEF TrackType
  <2> HIDE DEF t
  <2> QED BY <1>1, <2>1, <2>2, TrackedIsKnown DEF Known
<1>2. CASE ~Known(c)
  BY <1>2 DEF Tick, Known, NoTrack
<1> QED BY <1>1, <1>2

LEMMA TickSound ==
  ASSUME LoginInv, Sound, Tick
  PROVE  Sound' /\ Grows
<1>0. /\ UNCHANGED <<scene, client, up, down, late, lease, toMaster, toProxy>>
      /\ LeaseInv /\ WireInv
  BY DEF Tick, wires, LoginInv
<1>1. Grows
  BY <1>0, TickAges, TickTracks DEF Grows, Grown
<1>2. SoundPorts'
  <2>1. \A p \in Ports : session'[p] # NoSession => session'[p].id = lease'[p]
    BY <1>0, TickAges DEF Sound, SoundPorts
  <2>2. due' \subseteq scene.clients \cup Ports
    BY DEF Tick
  <2> QED BY <1>0, <2>1, <2>2 DEF Sound, SoundPorts
<1>3. SoundUp'
  BY <1>0, <1>1, UpStays DEF Sound
<1>4. \A e \in Clients : SoundClient(e)'
  BY <1>0, <1>1, ClientStays DEF Sound
<1> QED BY <1>0, <1>1, <1>2, <1>3, <1>4, DownStays, ToMasterStays, ToProxyStays, LateStays DEF Sound

(* The first fault of the network.                                             *)
LEMMA DownTaken ==
  ASSUME SoundDown, NEW c \in Clients, down[c] # <<>>, down' = [down EXCEPT ![c] = Tail(@)],
         UNCHANGED <<scene, track, session>>, LeaseInv
  PROVE  SoundDown' /\ SoundAnswer(c, Head(down[c]))
<1>1. /\ down' = [e \in Clients |-> down'[e]]
      /\ \A e \in Clients : down'[e] = IF e = c THEN Tail(down[c]) ELSE down[e]
  BY DEF SoundDown
<1>2. Addressed(Tail(down[c]), c) /\ down[c] \in Seq(Range(down[c]))
  BY AddressedTail DEF SoundDown, Addressed
<1>3. Range(down[c]) = Range(Tail(down[c])) \cup {Head(down[c])}
  BY <1>2, TailRange
<1>4. \A e \in Clients : Range(down'[e]) \subseteq Range(down[e]) /\ Addressed(down'[e], e)
  BY <1>1, <1>2, <1>3 DEF SoundDown
<1>5. \A e \in Clients : \A m \in Range(down'[e]) : SoundAnswer(e, m)'
  BY <1>4, NoGrowth, AnswerStays DEF SoundDown
<1> QED BY <1>1, <1>3, <1>4, <1>5 DEF SoundDown

LEMMA UpTaken ==
  ASSUME WireInv, SoundUp, NEW c \in Clients, up[c] # <<>>, up' = [up EXCEPT ![c] = Tail(@)]
  PROVE  /\ Range(up[c]) = Range(up'[c]) \cup {Head(up[c])} /\ up'[c] = Tail(up[c])
         /\ \A e \in Clients : e # c => up'[e] = up[e]
         /\ \A e \in Clients : Range(up'[e]) \subseteq Range(up[e])
         /\ SoundRequest(c, Head(up[c]))
<1>1. \A e \in Clients : up'[e] = IF e = c THEN Tail(up[c]) ELSE up[e]
  BY DEF WireInv
<1>2. up[c] \in Seq(Range(up[c]))
  BY DEF WireInv, Addressed
<1>3. Range(up[c]) = Range(Tail(up[c])) \cup {Head(up[c])}
  BY <1>2, TailRange
<1> QED BY <1>1, <1>3 DEF SoundUp

LEMMA LoseSound ==
  ASSUME LoginInv, Sound, NEW c \in Clients, Lose(c)
  PROVE  Sound' /\ Grows
<1>0. /\ UNCHANGED <<scene, client, late, track, lease, toMaster, toProxy, session, due>>
      /\ LeaseInv /\ WireInv /\ Grows
  BY NoGrowth DEF Lose, LoginInv, proxyVars, masterVars
<1>1. SoundUp' /\ SoundDown'
  <2>1. CASE up[c] # <<>> /\ up' = [up EXCEPT ![c] = Tail(@)] /\ down' = down
    <3>1. \A e \in Clients : Range(up'[e]) \subseteq Range(up[e])
      BY <1>0, <2>1, UpTaken DEF Sound
    <3> QED BY <1>0, <2>1, <3>1, UpStays, DownStays DEF Sound
  <2>2. CASE down[c] # <<>> /\ down' = [down EXCEPT ![c] = Tail(@)] /\ up' = up
    BY <1>0, <2>2, UpStays, DownTaken DEF Sound
  <2> QED BY <2>1, <2>2 DEF Lose
<1>2. \A e \in Clients : SoundClient(e)'
  BY <1>0, ClientStays DEF Sound
<1> QED BY <1>0, <1>1, <1>2, PortsStay, ToMasterStays, ToProxyStays, LateStays DEF Sound

LEMMA RepeatSound ==
  ASSUME LoginInv, Sound, NEW c \in Clients, Repeat(c)
  PROVE  Sound' /\ Grows
<1>0. /\ UNCHANGED <<scene, client, up, down, track, lease, toMaster, toProxy, session, due>>
      /\ LeaseInv /\ WireInv /\ Grows
  BY NoGrowth DEF Repeat, LoginInv, proxyVars, masterVars
<1>a. scene.clients \subseteq Clients
  BY DEF LoginInv, SceneInv
<1>1. SoundLate'
  <2>1. ASSUME NEW d \in late', d \notin late
        PROVE  IF d.up THEN SoundRequest(d.msg.id, d.msg) ELSE SoundAnswer(d.to, d.msg)
    <3>1. CASE up[c] # <<>> /\ d = [up |-> TRUE, to |-> c, msg |-> Head(up[c])]
      <4>1. SoundRequest(c, Head(up[c]))
        <5>1. up[c] \in Seq(Range(up[c]))
          BY <1>0 DEF WireInv, Addressed
        <5>2. Head(up[c]) \in Range(up[c])
          BY <3>1, <5>1, TailRange
        <5> QED BY <5>2 DEF Sound, SoundUp
      <4> QED BY <3>1, <4>1 DEF SoundRequest
    <3>2. CASE down[c] # <<>> /\ d = [up |-> FALSE, to |-> c, msg |-> Head(down[c])]
      <4>1. SoundAnswer(c, Head(down[c]))
        <5>1. down[c] \in Seq(Range(down[c]))
          BY DEF Sound, SoundDown, Addressed
        <5>2. Head(down[c]) \in Range(down[c])
          BY <3>2, <5>1, TailRange
        <5> QED BY <5>2 DEF Sound, SoundDown
      <4> QED BY <3>2, <4>1
    <3> QED BY <2>1, <3>1, <3>2 DEF Repeat
  <2>2. ASSUME NEW d \in late', d.up PROVE SoundRequest(d.msg.id, d.msg)'
    <3>1. SoundRequest(d.msg.id, d.msg)
      BY <2>1, <2>2 DEF Sound, SoundLate
    <3>2. d.msg.id \in Clients
      BY <1>a, <3>1 DEF SoundRequest
    <3> QED BY <1>0, <3>1, <3>2, RequestStays
  <2>3. ASSUME NEW d \in late', ~d.up PROVE SoundAnswer(d.to, d.msg)'
    <3>1. SoundAnswer(d.to, d.msg)
      BY <2>1, <2>3 DEF Sound, SoundLate
    <3>2. d.to \in Clients
      BY <1>a, <3>1 DEF SoundAnswer
    <3> QED BY <1>0, <3>1, <3>2, AnswerStays
  <2> QED BY <2>2, <2>3 DEF SoundLate
<1>2. SoundUp'
  BY <1>0, UpStays DEF Sound
<1>3. \A e \in Clients : SoundClient(e)'
  BY <1>0, ClientStays DEF Sound
<1> QED BY <1>0, <1>1, <1>2, <1>3, PortsStay, DownStays, ToMasterStays, ToProxyStays DEF Sound

LEMMA DeliverSound ==
  ASSUME LoginInv, Sound, NEW c \in Clients, Deliver(c)
  PROVE  Sound' /\ Grows
<1>0. LeaseInv /\ WireInv /\ Quiet /\ late' = late
  BY DEF LoginInv, Deliver
<1>1. CASE /\ up[c] # <<>> /\ up' = [up EXCEPT ![c] = Tail(@)]
           /\ ProxyReceives(c, Head(up[c])) /\ UNCHANGED down
  <2>1. PICK m : m = Head(up[c])
    OBVIOUS
  <2>2. SoundRequest(c, m) /\ ProxyReceives(c, m)
        /\ \A e \in Clients : Range(up'[e]) \subseteq Range(up[e])
    BY <1>0, <1>1, <2>1, UpTaken DEF Sound
  <2> QED BY <1>0, <1>1, <2>2, ProxyReceivesSound
<1>2. CASE /\ down[c] # <<>> /\ down' = [down EXCEPT ![c] = Tail(@)]
           /\ ClientReceives(c, Head(down[c]))
  <2>1. PICK m : m = Head(down[c])
    OBVIOUS
  <2>2. UNCHANGED <<scene, track, session>>
    BY <1>2 DEF ClientReceives, proxyVars, masterVars
  <2>3. SoundDown' /\ SoundAnswer(c, m) /\ ClientReceives(c, m)
    BY <1>0, <1>2, <2>1, <2>2, DownTaken DEF Sound
  <2> QED BY <1>0, <2>3, ClientReceivesSound
<1> QED BY <1>1, <1>2 DEF Deliver

LEMMA DeliverLateSound ==
  ASSUME LoginInv, Sound, NEW d \in late, DeliverLate(d)
  PROVE  Sound' /\ Grows
<1>0. /\ LeaseInv /\ WireInv /\ Quiet /\ down' = down /\ late' \subseteq late
      /\ scene.clients \subseteq Clients
  BY DEF LoginInv, SceneInv, DeliverLate
<1>1. CASE d.up
  <2>1. PICK c, m : m = d.msg /\ c = m.id
    OBVIOUS
  <2>2. SoundRequest(c, m) /\ ProxyReceives(c, m) /\ up' = up
    BY <1>1, <2>1 DEF Sound, SoundLate, DeliverLate
  <2>3. c \in Clients
    BY <1>0, <2>2 DEF SoundRequest
  <2> QED BY <1>0, <2>2, <2>3, ProxyReceivesSound
<1>2. CASE ~d.up
  <2>1. PICK c, m : m = d.msg /\ c = d.to
    OBVIOUS
  <2>2. SoundAnswer(c, m) /\ ClientReceives(c, m)
    BY <1>2, <2>1 DEF Sound, SoundLate, DeliverLate
  <2>3. c \in Clients /\ UNCHANGED <<scene, track, session>>
    BY <1>0, <2>2 DEF SoundAnswer, ClientReceives, proxyVars, masterVars
  <2>4. SoundDown'
    BY <1>0, <2>3, NoGrowth, DownStays DEF Sound
  <2> QED BY <1>0, <2>2, <2>3, <2>4, ClientReceivesSound
<1> QED BY <1>1, <1>2

-----------------------------------------------------------------------------
(* A step of one client leaves the others as they are.                           *)

Mine(c, d) == IF d.up THEN d.msg.id = c ELSE d.to = c

Apart(c) ==
    /\ track'[c] = track[c] /\ (Known(c) => At(c)' = At(c))
    /\ client'[c] = client[c] /\ up'[c] = up[c] /\ down'[c] = down[c]
    /\ c \in due' <=> c \in due
    /\ toMaster' = toMaster \/ (~Asking(c) /\ ~Asking(c)')
    /\ toProxy' = toProxy \/ (~Telling(c) /\ ~Telling(c)')
    /\ \A d \in late' : Mine(c, d) => d \in late

LEMMA ApartMeans ==
  ASSUME NEW c \in Clients, Apart(c)
  PROVE  /\ UNCHANGED <<Known(c), Joined(c), Settled(c), Unanswered(c)>>
         /\ UNCHANGED <<client[c], track[c], up[c], down[c]>>
         /\ Joined(c) => At(c)' = At(c)
         /\ c \in due' <=> c \in due
         /\ Asking(c)' <=> Asking(c)
         /\ Asking(c) => toMaster' = toMaster
         /\ Telling(c)' <=> Telling(c)
         /\ Telling(c) => toProxy' = toProxy
         /\ \A types : (Sends(c, types)' <=> Sends(c, types)) /\ (Asks(c, types)' <=> Asks(c, types))
         /\ Ponged(c)' <=> Ponged(c)
<1>1. /\ UNCHANGED <<track[c], client[c], up[c], down[c], Known(c)>>
      /\ Known(c) => At(c)' = At(c)
      /\ c \in due' <=> c \in due
  BY DEF Apart, Known
<1>2. UNCHANGED <<Joined(c), Settled(c), Unanswered(c)>>
  BY <1>1 DEF Joined, Settled, Unanswered
<1>3. /\ Asking(c)' <=> Asking(c)
      /\ Asking(c) => toMaster' = toMaster
  BY DEF Apart, Asking
<1>4. /\ Telling(c)' <=> Telling(c)
      /\ Telling(c) => toProxy' = toProxy
  BY DEF Apart, Telling
<1>5. \A types : (Sends(c, types)' <=> Sends(c, types)) /\ (Asks(c, types)' <=> Asks(c, types))
  BY <1>1, <1>3 DEF Sends, Asks
<1>6. Ponged(c)' <=> Ponged(c)
  BY <1>1, <1>4 DEF Ponged
<1> QED BY <1>1, <1>2, <1>3, <1>4, <1>5, <1>6 DEF Joined

LEMMA ApartTimely ==
  ASSUME NEW c \in Clients, Apart(c), strain' = strain, Timely(c)
  PROVE  Timely(c)'
<1>1. TrackTimely(c)'
  BY ApartMeans DEF Timely, TrackTimely
<1>2. SessionTimely(c)'
  BY ApartMeans DEF Timely, SessionTimely
<1>3. PingTimely(c)'
  BY ApartMeans DEF Timely, PingTimely
<1> QED BY <1>1, <1>2, <1>3 DEF Timely

LEMMA ApartSure ==
  ASSUME NEW c \in Clients, Apart(c), Sure(c)
  PROVE  Sure(c)'
<1>1. \A d \in late' : d.up /\ d.msg.id = c => d \in late
  BY DEF Apart, Mine
<1> QED BY <1>1, ApartMeans DEF Sure

LEMMA ApartSolo ==
  ASSUME NEW c \in Clients, Apart(c), Solo(c)
  PROVE  Solo(c)'
<1>1. \A d \in late' : IF d.up THEN d.msg.id # c ELSE d.to # c
  BY DEF Apart, Mine, Solo
<1>2. \A m : (FitsRequest(c, m)' <=> FitsRequest(c, m)) /\ (FitsAnswer(c, m)' <=> FitsAnswer(c, m))
  BY ApartMeans DEF FitsRequest, FitsAnswer
<1>3. Asking(c) => FitsRequest(c, Head(toMaster').msg)
  BY ApartMeans DEF Solo
<1>4. Telling(c) => FitsAnswer(c, Head(toProxy').msg)
  BY ApartMeans DEF Solo
<1>5. /\ client'[c].conn \in {"OPTIONS-SENT", "YES"} => Settled(c)'
      /\ up'[c] = <<>> \/ (up'[c] = <<Head(up'[c])>> /\ FitsRequest(c, Head(up'[c])))
      /\ down'[c] = <<>> \/ (down'[c] = <<Head(down'[c])>> /\ FitsAnswer(c, Head(down'[c])))
      /\ up'[c] # <<>> => down'[c] = <<>> /\ ~Asking(c) /\ ~Telling(c)
      /\ down'[c] # <<>> => ~Asking(c) /\ ~Telling(c)
      /\ up'[c] # <<>> \/ down'[c] # <<>> \/ Asking(c) \/ Telling(c) => c \notin due'
  BY ApartMeans DEF Solo
<1> QED BY <1>1, <1>2, <1>3, <1>4, <1>5, ApartMeans DEF Solo

-----------------------------------------------------------------------------
(* What a step does to the client it is about.                                  *)

Keeps(c) ==
    /\ \A e \in Clients : e # c => Apart(e)
    /\ Timely(c) /\ (Solo(c) \/ Sure(c)) => Timely(c)'
    /\ Solo(c) => Solo(c)'
    /\ Sure(c) => Sure(c)'

LEMMA OtherPort ==
  ASSUME LeaseInv, NEW c \in Clients, NEW e \in Clients, e # c, Known(c), Known(e)
  PROVE  track[e].port # track[c].port /\ track[e].port \in Ports
  BY PortOfKnown

LEMMA AheadAppend ==
  ASSUME NEW s, s \in Seq(Range(s)), NEW m, Ahead(s),
         m.type = "RPTP" => \E x \in Range(s) : x.type = "RPTC"
  PROVE  Ahead(Append(s, m))
<1> DEFINE S == Range(s) \cup {m}
           t == Append(s, m)
<1>1. s \in Seq(S) /\ Len(s) \in Nat /\ DOMAIN s = 1 .. Len(s)
  OBVIOUS
<1>2. DOMAIN t = 1 .. Len(s) + 1 /\ t[Len(s) + 1] = m /\ \A i \in 1 .. Len(s) : t[i] = s[i]
  BY <1>1
<1> SUFFICES ASSUME NEW i \in 1 .. Len(s) + 1, t[i].type = "RPTP"
             PROVE  \E j \in 1 .. i - 1 : t[j].type = "RPTC"
  BY <1>2 DEF Ahead
<1> HIDE DEF t
<1>3. CASE i = Len(s) + 1
  <2>1. PICK j \in 1 .. Len(s) : s[j].type = "RPTC"
    BY <1>1, <1>2, <1>3 DEF Range
  <2>2. t[j].type = "RPTC" /\ j \in 1 .. i - 1
    BY <1>1, <1>2, <1>3, <2>1
  <2> QED BY <2>2
<1>4. CASE i \in 1 .. Len(s)
  <2>1. s[i].type = "RPTP" /\ i \in DOMAIN s
    BY <1>1, <1>2, <1>4
  <2>2. PICK j \in 1 .. i - 1 : s[j].type = "RPTC"
    BY <2>1 DEF Ahead
  <2>3. j \in 1 .. Len(s)
    BY <1>1, <1>4, <2>2
  <2> QED BY <1>2, <2>2, <2>3
<1> QED BY <1>1, <1>3, <1>4

LEMMA AheadTail ==
  ASSUME NEW s, s \in Seq(Range(s)), s # <<>>, Ahead(s)
  PROVE  Head(s).type # "RPTP" /\ (Head(s).type # "RPTC" => Ahead(Tail(s)))
<1> DEFINE S == Range(s)
           t == Tail(s)
<1>1. s \in Seq(S) /\ Len(s) \in Nat \ {0} /\ DOMAIN s = 1 .. Len(s)
  OBVIOUS
<1>2. DOMAIN t = 1 .. Len(s) - 1 /\ Head(s) = s[1] /\ \A i \in 1 .. Len(s) - 1 : t[i] = s[i + 1]
  BY <1>1
<1>3. s[1].type # "RPTP"
  <2>1. 1 \in DOMAIN s /\ 1 .. 1 - 1 = {}
    BY <1>1
  <2> QED BY <2>1 DEF Ahead
<1>4. ASSUME s[1].type # "RPTC", NEW i \in 1 .. Len(s) - 1, t[i].type = "RPTP"
      PROVE  \E j \in 1 .. i - 1 : t[j].type = "RPTC"
  <2>1. i + 1 \in DOMAIN s /\ s[i + 1].type = "RPTP"
    BY <1>1, <1>2, <1>4
  <2>2. PICK k \in 1 .. (i + 1) - 1 : s[k].type = "RPTC"
    BY <2>1 DEF Ahead
  <2>3. k # 1 /\ k \in 1 .. i
    BY <1>4, <2>2
  <2>4. k - 1 \in 1 .. i - 1 /\ k - 1 \in 1 .. Len(s) - 1 /\ (k - 1) + 1 = k
    BY <1>1, <2>3
  <2> QED BY <1>2, <2>2, <2>4
<1> HIDE DEF t
<1>5. s[1].type # "RPTC" => Ahead(t)
  BY <1>2, <1>4 DEF Ahead
<1> QED BY <1>2, <1>3, <1>5 DEF t

LEMMA SendApart ==
  ASSUME WireInv, NEW c \in Clients, NEW m, Send(c, m)
  PROVE  /\ up'[c] = Append(up[c], m) /\ up[c] \in Seq(Range(up[c]))
         /\ Range(up'[c]) = Range(up[c]) \cup {m}
         /\ up[c] = <<>> => up'[c] = <<m>> /\ up'[c] = <<Head(up'[c])>> /\ Head(up'[c]) = m
         /\ \A types : Sends(c, types) \/ m.type \in types <=> Sends(c, types)'
         /\ Ahead(up[c]) /\ (m.type = "RPTP" => Sends(c, {"RPTC"})) => Ahead(up'[c])
<1>1. up'[c] = Append(up[c], m) /\ up[c] \in Seq(Range(up[c]))
  BY DEF WireInv, Send, Addressed
<1>2. Range(up'[c]) = Range(up[c]) \cup {m}
  BY <1>1, AppendRange
<1>3. up[c] = <<>> => up'[c] = <<m>> /\ Head(up'[c]) = m
  BY <1>1, AppendRange
<1>4. \A types : Sends(c, types) \/ m.type \in types <=> Sends(c, types)'
  BY <1>2 DEF Sends
<1>5. Ahead(up[c]) /\ (m.type = "RPTP" => Sends(c, {"RPTC"})) => Ahead(up'[c])
  BY <1>1, AheadAppend DEF Sends
<1> QED BY <1>1, <1>2, <1>3, <1>4, <1>5

LEMMA ClientLoopRides ==
  ASSUME LoginInv, Sound, NEW c \in Clients, ClientLoop(c)
  PROVE  Keeps(c)
<1>0. /\ LeaseInv /\ WireInv /\ ClientInv /\ Quiet /\ c \in due /\ due' = due \ {c}
      /\ UNCHANGED <<scene, down, late, track, lease, toMaster, toProxy, session, strain>>
      /\ \A e \in Clients : e # c => client'[e] = client[e]
      /\ strain \in Nat
  BY ClientLoopDoes DEF LoginInv, Broken
<1>1. /\ UNCHANGED <<Known(c), Joined(c), Settled(c), At(c)>>
      /\ ~Asking(c) /\ ~Telling(c) /\ ~Asking(c)' /\ ~Telling(c)' /\ c \notin due'
  BY <1>0 DEF Known, Joined, Settled, At, Asking, Telling, Quiet
<1>2. PICK m : /\ Send(c, m)
               /\ \/ m = Packet("RPTL", c) /\ client'[c].conn = "RPTL_SENT" /\ Unanswered(c)' = 0
                  \/ /\ m = Packet("RPTP", c) /\ client[c].conn = "YES" /\ client'[c].conn = "YES"
                     /\ Unanswered(c)' = Unanswered(c) + 1
  BY <1>0, ClientLoopDoes
<1>3. m.type \in {"RPTL", "RPTP"} /\ Sends(c, {"RPTL", "RPTP"})'
      /\ \A types : Sends(c, types) => Sends(c, types)'
  BY <1>0, <1>2, SendApart DEF Packet
<1>4. \A e \in Clients : e # c => Apart(e)
  BY <1>0, <1>2, UpAppended DEF Apart, At
<1>5. Timely(c) => Timely(c)'
  <2>1. TrackTimely(c) => TrackTimely(c)'
    BY <1>0, <1>3 DEF TrackTimely
  <2>2. SessionTimely(c) => SessionTimely(c)'
    BY <1>0, <1>1, <1>3 DEF SessionTimely
  <2>3. Unanswered(c) \in Int
    BY <1>0, LimitsAssumption DEF Unanswered, ClientInv, ClientType
  <2>4. CASE Unanswered(c)' = 0
    BY <1>0, <2>1, <2>2, <2>4 DEF Timely, PingTimely
  <2>5. CASE m = Packet("RPTP", c) /\ Unanswered(c)' = Unanswered(c) + 1
    <3>1. Sends(c, {"RPTP"})'
      BY <1>0, <1>2, <2>5, SendApart DEF Packet
    <3>2. PingTimely(c) => Unanswered(c) <= strain
      BY <1>0 DEF PingTimely
    <3>3. PingTimely(c) => PingTimely(c)'
      BY <1>0, <1>1, <2>3, <2>5, <3>1, <3>2 DEF PingTimely
    <3> QED BY <2>1, <2>2, <3>3 DEF Timely
  <2> QED BY <1>2, <2>4, <2>5
<1>6. Solo(c) => Solo(c)'
  <2> SUFFICES ASSUME Solo(c) PROVE Solo(c)'
    OBVIOUS
  <2>1. up[c] = <<>> /\ down[c] = <<>>
    BY <1>0 DEF Solo
  <2>2. up'[c] = <<Head(up'[c])>> /\ Head(up'[c]) = m /\ down'[c] = <<>>
    BY <1>0, <1>2, <2>1, SendApart
  <2>3. FitsRequest(c, m)'
    BY <1>2 DEF FitsRequest, Packet
  <2>4. client'[c].conn \in {"OPTIONS-SENT", "YES"} => Settled(c)'
    BY <1>1, <1>2 DEF Solo
  <2> QED BY <1>0, <1>1, <2>2, <2>3, <2>4 DEF Solo
<1>7. Sure(c) => Sure(c)'
  <2> SUFFICES ASSUME Sure(c), ~Settled(c) PROVE Sure(c)'
    BY <1>1 DEF Sure
  <2>1. ~Asks(c, {"RPTC"}) /\ ~Asks(c, {"RPTP"})'
    BY <1>1 DEF Asks
  <2>2. /\ client[c].conn \in {"CONFIG-SENT", "OPTIONS-SENT", "YES"} => Sends(c, {"RPTC"})
        /\ Ahead(up[c])
    BY <2>1 DEF Sure
  <2>3. Ahead(up'[c])
    BY <1>0, <1>2, <2>2, SendApart DEF Packet
  <2>4. client'[c].conn \in {"CONFIG-SENT", "OPTIONS-SENT", "YES"} => Sends(c, {"RPTC"})'
    BY <1>2, <1>3, <2>2
  <2> QED BY <1>0, <2>1, <2>3, <2>4 DEF Sure
<1> QED BY <1>4, <1>5, <1>6, <1>7 DEF Keeps

(* The answer that a client gets is gone from the wire, or was a late copy.        *)
LEMMA ClientReceivesRides ==
  ASSUME LoginInv, Sound, Quiet, NEW c \in Clients, NEW m, SoundAnswer(c, m), ClientReceives(c, m),
         \A e \in Clients : e # c => down'[e] = down[e],
         \/ /\ late' = late /\ down[c] # <<>> /\ m = Head(down[c]) /\ down'[c] = Tail(down[c])
         \/ late' \subseteq late /\ down' = down /\ ~Solo(c)
  PROVE  Keeps(c)
<1>0. /\ LeaseInv /\ WireInv /\ ClientInv
      /\ UNCHANGED <<scene, track, lease, toMaster, toProxy, session, due, strain>>
      /\ \A e \in Clients : e # c => client'[e] = client[e]
      /\ strain \in Nat /\ late' \subseteq late
  BY ClientReceivesDoes DEF LoginInv, Broken
<1>1. /\ UNCHANGED <<Known(c), Joined(c), Settled(c), At(c)>>
      /\ ~Asking(c) /\ ~Telling(c) /\ ~Asking(c)' /\ ~Telling(c)'
  BY <1>0 DEF Known, Joined, Settled, At, Asking, Telling, Quiet
<1>2. up' = up \/ \E a : Send(c, a)
  BY <1>0, ClientReceivesDoes DEF Turn
<1>3. \A types : Sends(c, types) => Sends(c, types)'
  <2>1. CASE up' = up
    BY <2>1 DEF Sends
  <2>2. ASSUME NEW a, Send(c, a) PROVE \A types : Sends(c, types) => Sends(c, types)'
    BY <1>0, <2>2, SendApart
  <2> QED BY <1>2, <2>1, <2>2
<1>4. \A e \in Clients : e # c => Apart(e)
  <2>1. \A e \in Clients : e # c => up'[e] = up[e]
    BY <1>0, <1>2, UpAppended
  <2> QED BY <1>0, <2>1 DEF Apart, At
<1>5. Timely(c) => Timely(c)'
  <2>1. TrackTimely(c) => TrackTimely(c)'
    BY <1>0, <1>3 DEF TrackTimely
  <2>2. SessionTimely(c) => SessionTimely(c)'
    BY <1>0, <1>1, <1>3 DEF SessionTimely, Asks
  <2>3. CASE Unanswered(c)' = 0
    BY <1>0, <2>1, <2>2, <2>3 DEF Timely, PingTimely
  <2>4. CASE m.type = "RPTACK" /\ Unanswered(c)' = Unanswered(c)
    <3>1. \A x \in Range(down[c]) : x.type = "MSTPONG" => x \in Range(down'[c])
      <4>1. CASE down[c] # <<>> /\ m = Head(down[c]) /\ down'[c] = Tail(down[c])
        <5>1. down[c] \in Seq(Range(down[c]))
          BY DEF Sound, SoundDown, Addressed
        <5> QED BY <2>4, <4>1, <5>1, TailRange
      <4> QED BY <4>1
    <3>2. Ponged(c) => Ponged(c)'
      BY <1>1, <3>1 DEF Ponged
    <3>3. PingTimely(c) => PingTimely(c)'
      BY <1>0, <1>1, <1>3, <2>4, <3>2 DEF PingTimely, Asks
    <3> QED BY <2>1, <2>2, <3>3 DEF Timely
  <2> QED BY <1>0, <2>3, <2>4, ClientReceivesDoes
<1>6. Solo(c) => Solo(c)'
  <2> SUFFICES ASSUME Solo(c) PROVE Solo(c)'
    OBVIOUS
  <2>1. /\ late' = late /\ down[c] # <<>> /\ m = Head(down[c]) /\ down[c] = <<m>>
        /\ down'[c] = Tail(down[c]) /\ up[c] = <<>> /\ FitsAnswer(c, m) /\ c \notin due'
    BY <1>0 DEF Solo
  <2>2. down'[c] = <<>>
    <3>1. Tail(<<m>>) = <<>>
      OBVIOUS
    <3> QED BY <2>1, <3>1
  <2>3. \/ up' = up
        \/ \E a : Send(c, a) /\ FitsRequest(c, a)'
    <3>1. /\ client'[c].conn = "AUTHENTICATED" => FitsRequest(c, Salted("RPTK", c, m.val))'
          /\ client'[c].conn = "CONFIG-SENT" => FitsRequest(c, Packet("RPTC", c))'
          /\ client'[c].conn = "OPTIONS-SENT" => FitsRequest(c, Packet("RPTO", c))'
      BY DEF FitsRequest, Packet, Salted
    <3> QED BY <1>0, <3>1, ClientReceivesDoes DEF Turn
  <2>4. \/ up'[c] = <<>>
        \/ \E a : up'[c] = <<a>> /\ FitsRequest(c, a)'
    <3>1. \A a : Send(c, a) => up'[c] = <<a>>
      BY <1>0, <2>1, SendApart
    <3> QED BY <2>1, <2>3, <3>1
  <2>5. ASSUME NEW a, up'[c] = <<a>>, FitsRequest(c, a)'
        PROVE  up'[c] = <<Head(up'[c])>> /\ FitsRequest(c, Head(up[c]))'
    BY <2>5
  <2>6. client'[c].conn \in {"OPTIONS-SENT", "YES"} => Settled(c)'
    <3>1. client[c].conn \in {"OPTIONS-SENT", "YES"} => Settled(c)
      BY DEF Solo
    <3>2. client[c].conn = "CONFIG-SENT" => Settled(c)
      BY <2>1 DEF FitsAnswer
    <3>3. client'[c].conn \in {"OPTIONS-SENT", "YES"} =>
            client[c].conn \in {"CONFIG-SENT", "OPTIONS-SENT", "YES"}
      BY <1>0, ClientReceivesDoes DEF Turn
    <3> QED BY <1>1, <3>1, <3>2, <3>3
  <2> QED BY <1>1, <2>1, <2>2, <2>4, <2>5, <2>6 DEF Solo
<1>7. Sure(c) => Sure(c)'
  <2> SUFFICES ASSUME Sure(c), ~Settled(c) PROVE Sure(c)'
    <3>1. Settled(c) => Sure(c)'
      BY <1>1 DEF Sure
    <3> QED BY <3>1
  <2>1. ~Asks(c, {"RPTC"}) /\ ~Asks(c, {"RPTP"})'
    BY <1>1 DEF Asks
  <2>2. /\ client[c].conn \in {"CONFIG-SENT", "OPTIONS-SENT", "YES"} => Sends(c, {"RPTC"})
        /\ Ahead(up[c])
    BY <2>1 DEF Sure
  <2>3. up' = up \/ \E a : Send(c, a) /\ a.type # "RPTP"
    <3>1. /\ Salted("RPTK", c, m.val).type # "RPTP"
          /\ Packet("RPTC", c).type # "RPTP" /\ Packet("RPTO", c).type # "RPTP"
      BY DEF Packet, Salted
    <3> QED BY <1>0, <3>1, ClientReceivesDoes DEF Turn
  <2>4. Ahead(up'[c])
    BY <1>0, <2>2, <2>3, SendApart
  <2>5. client'[c].conn \in {"CONFIG-SENT", "OPTIONS-SENT", "YES"} => Sends(c, {"RPTC"})'
    <3>1. Send(c, Packet("RPTC", c)) => Sends(c, {"RPTC"})'
      BY <1>0, SendApart DEF Packet
    <3>2. client'[c].conn \in {"CONFIG-SENT", "OPTIONS-SENT", "YES"} =>
            \/ client[c].conn \in {"CONFIG-SENT", "OPTIONS-SENT", "YES"}
            \/ Send(c, Packet("RPTC", c))
      BY <1>0, ClientReceivesDoes DEF Turn
    <3> QED BY <1>3, <2>2, <3>1, <3>2
  <2> QED BY <1>0, <2>1, <2>4, <2>5 DEF Sure
<1> QED BY <1>4, <1>5, <1>6, <1>7 DEF Keeps

(* The request that the proxy gets is gone from the wire, or was a late copy.       *)
LEMMA ProxyReceivesRides ==
  ASSUME LoginInv, Sound, Quiet, NEW c \in Clients, NEW m, SoundRequest(c, m), ProxyReceives(c, m),
         UNCHANGED down, \A e \in Clients : e # c => up'[e] = up[e],
         \/ /\ late' = late /\ up[c] # <<>> /\ m = Head(up[c]) /\ up'[c] = Tail(up[c])
         \/ /\ late' \subseteq late /\ up' = up /\ ~Solo(c)
            /\ Sure(c) /\ m.type = "RPTP" => Settled(c)
  PROVE  Keeps(c)
<1>0. /\ LeaseInv /\ WireInv /\ ClientInv
      /\ UNCHANGED <<scene, client, toProxy, session, due, strain>>
      /\ \A e \in Clients : e # c => track'[e] = track[e]
      /\ track'[c].age = 0 /\ strain \in Nat /\ late' \subseteq late
      /\ toMaster = <<>> /\ toProxy = <<>>
  BY ProxyReceivesDoes DEF LoginInv, Quiet, Broken
<1>1. m.id = c /\ (toMaster' = <<>> \/ \E p : toMaster' = <<[port |-> p, msg |-> m]>>)
  BY <1>0, ProxyReceivesDoes DEF SoundRequest
<1>2. /\ ~Asking(c) /\ ~Telling(c) /\ ~Telling(c)'
      /\ Asking(c)' => Head(toMaster').msg = m
  BY <1>0, <1>1 DEF Asking, Telling
<1>3. Known(c) => /\ Known(c)' /\ track'[c].port = track[c].port
                  /\ toMaster' = <<[port |-> track[c].port, msg |-> m]>> /\ Asking(c)'
                  /\ \A types : m.type \in types => Asks(c, types)'
  BY <1>0, <1>1, ProxyReceivesDoes DEF Asking, Asks
<1>4. ~Known(c) => m.type = "RPTL" /\ ~Joined(c)'
  <2>1. ~Known(c) /\ track' = track => ~Joined(c)'
    BY DEF Joined, Known
  <2> QED BY <2>1, ProxyReceivesDoes
<1>5. /\ Known(c) => (Joined(c)' <=> Joined(c)) /\ (Settled(c)' <=> Settled(c)) /\ At(c)' = At(c)
      /\ ~Known(c) => ~Joined(c) /\ ~Settled(c)
  BY <1>0, <1>3 DEF Joined, Settled, At
<1>6. \A e \in Clients : e # c => Apart(e)
  BY <1>0, <1>1 DEF Apart, At, Asking
<1>7. \A x \in Range(up[c]) : x \in Range(up'[c]) \/ x = m
  <2>1. CASE up[c] # <<>> /\ m = Head(up[c]) /\ up'[c] = Tail(up[c])
    <3>1. up[c] \in Seq(Range(up[c]))
      BY <1>0 DEF WireInv, Addressed
    <3> QED BY <2>1, <3>1, TailRange
  <2> QED BY <2>1
<1>8. \A types : Sends(c, types) => Sends(c, types)' \/ m.type \in types
  BY <1>7 DEF Sends
<1>9. Timely(c) => Timely(c)'
  <2>1. TrackTimely(c)'
    BY <1>0 DEF TrackTimely
  <2>2. SessionTimely(c) => SessionTimely(c)'
    <3>1. Sends(c, {"RPTL", "RPTP"}) => Sends(c, {"RPTL", "RPTP"})' \/ m.type \in {"RPTL", "RPTP"}
      BY <1>8
    <3>2. Known(c) /\ m.type \in {"RPTL", "RPTP"} => Asks(c, {"RPTL", "RPTP"})'
      BY <1>3
    <3>3. ~Asks(c, {"RPTL", "RPTP"})
      BY <1>2 DEF Asks
    <3>4. CASE Known(c)
      BY <1>0, <1>5, <3>1, <3>2, <3>3, <3>4 DEF SessionTimely
    <3>5. CASE ~Known(c)
      BY <1>4, <3>5 DEF SessionTimely
    <3> QED BY <3>4, <3>5
  <2>3. PingTimely(c) => PingTimely(c)'
    <3>1. Sends(c, {"RPTP"}) => Sends(c, {"RPTP"})' \/ m.type \in {"RPTP"}
      BY <1>8
    <3>2. m.type \in {"RPTP"} => Asks(c, {"RPTP"})'
      BY <1>3, <1>4
    <3>3. ~Asks(c, {"RPTP"}) /\ (Ponged(c) => Ponged(c)')
      BY <1>2 DEF Asks, Ponged
    <3>4. UNCHANGED Unanswered(c)
      BY <1>0 DEF Unanswered
    <3> QED BY <1>0, <3>1, <3>2, <3>3, <3>4 DEF PingTimely
  <2> QED BY <2>1, <2>2, <2>3 DEF Timely
<1>10. Solo(c) => Solo(c)'
  <2> SUFFICES ASSUME Solo(c) PROVE Solo(c)'
    OBVIOUS
  <2>1. /\ late' = late /\ up[c] = <<m>> /\ up'[c] = Tail(up[c]) /\ FitsRequest(c, m)
        /\ down[c] = <<>> /\ c \notin due
    BY DEF Solo
  <2>2. up'[c] = <<>>
    <3>1. Tail(<<m>>) = <<>>
      OBVIOUS
    <3> QED BY <2>1, <3>1
  <2>3. FitsRequest(c, m)'
    BY <1>0, <2>1 DEF FitsRequest
  <2>4. Asking(c)' => FitsRequest(c, Head(toMaster).msg)'
    BY <1>2, <2>3 DEF FitsRequest
  <2>5. client'[c].conn \in {"OPTIONS-SENT", "YES"} => Settled(c)'
    BY <1>0, <1>5 DEF Solo
  <2> QED BY <1>0, <1>2, <2>1, <2>2, <2>4, <2>5 DEF Solo
<1>11. Sure(c) => Sure(c)'
  <2> SUFFICES ASSUME Sure(c) PROVE Sure(c)'
    OBVIOUS
  <2>1. CASE Settled(c)
    BY <1>5, <2>1 DEF Sure
  <2>2. CASE ~Settled(c)
    <3>1. ~Asks(c, {"RPTC"})
      BY <1>2 DEF Asks
    <3>2. /\ client[c].conn \in {"CONFIG-SENT", "OPTIONS-SENT", "YES"} => Sends(c, {"RPTC"})
          /\ Ahead(up[c])
          /\ \A d \in late : ~(d.up /\ d.msg.id = c /\ d.msg.type = "RPTP")
      BY <2>2, <3>1 DEF Sure
    <3>3. /\ up'[c] = up[c] \/ (m = Head(up[c]) /\ up'[c] = Tail(up[c]) /\ up[c] # <<>>)
          /\ up[c] \in Seq(Range(up[c]))
      BY <1>0 DEF WireInv, Addressed
    <3>4. m.type # "RPTP" /\ (m.type # "RPTC" => Ahead(up'[c]))
      BY <2>2, <3>2, <3>3, AheadTail
    <3>5. m.type = "RPTC" => Asks(c, {"RPTC"})'
      BY <1>3, <1>4
    <3>6. Sends(c, {"RPTC"}) => Sends(c, {"RPTC"})' \/ m.type \in {"RPTC"}
      BY <1>8
    <3>7. ~Asks(c, {"RPTP"})'
      BY <1>2, <3>4 DEF Asks
    <3> QED BY <1>0, <3>2, <3>4, <3>5, <3>6, <3>7 DEF Sure
  <2> QED BY <2>1, <2>2
<1> QED BY <1>6, <1>9, <1>10, <1>11 DEF Keeps

LEMMA MasterReceivesRides ==
  ASSUME LoginInv, Sound, MasterReceives
  PROVE  \E c \in Clients : Keeps(c)
<1>a. PICK c, m : c = Head(toMaster).msg.id /\ m = Head(toMaster).msg
  OBVIOUS
<1> DEFINE p == track[c].port
<1>0. /\ c \in Clients /\ SoundRequest(c, m) /\ Asking(c) /\ Known(c)
      /\ toProxy = <<>> /\ toMaster # <<>> /\ toMaster' = <<>>
      /\ UNCHANGED <<scene, client, up, down, late, track, lease, due, strain>>
      /\ LeaseInv /\ strain \in Nat
  BY <1>a, MasterFrame DEF LoginInv, Broken
<1>1. /\ Outcome(c, m) /\ Grown(At(c), At(c)') /\ (session' = session \/ At(c)'.id = c)
      /\ \A r \in Ports : r # p => session'[r] = session[r]
  BY <1>a, MasterReceivesDoes
<1>2. Grows /\ (Settled(c) => Settled(c)')
  BY <1>0, MasterReceivesSound, GrowsMeans
<1>3. /\ ~Asking(c)' /\ ~Telling(c)
      /\ toProxy' = toProxy \/ \E r : toProxy' = <<[port |-> p, msg |-> r]>> /\ r.id = c
  BY <1>0, <1>1 DEF Outcome, Replies, SoundAnswer, Packet, Asking, Telling
<1>4. /\ \A types : Asks(c, types) <=> m.type \in types
      /\ \A types : Sends(c, types)' <=> Sends(c, types)
      /\ \A types : ~Asks(c, types)'
  BY <1>a, <1>0, <1>3 DEF Asks, Sends
<1>5. \A e \in Clients : e # c => Apart(e)
  <2> SUFFICES ASSUME NEW e \in Clients, e # c PROVE Apart(e)
    OBVIOUS
  <2>1. ~Asking(e) /\ ~Asking(e)' /\ ~Telling(e) /\ (toProxy' = toProxy \/ ~Telling(e)')
    BY <1>a, <1>0, <1>3 DEF Asking, Telling
  <2>2. Known(e) => At(e)' = At(e)
    BY <1>0, <1>1, OtherPort DEF At
  <2> QED BY <1>0, <2>1, <2>2 DEF Apart
<1>6. (Solo(c) \/ Sure(c)) /\ m.type = "RPTP" => Settled(c)
  <2>1. Solo(c) /\ m.type = "RPTP" => Settled(c)
    <3>1. Solo(c) => FitsRequest(c, m)
      BY <1>a, <1>0 DEF Solo
    <3> QED BY <3>1 DEF Solo, FitsRequest
  <2>2. Sure(c) /\ m.type = "RPTP" => Settled(c)
    <3>1. m.type = "RPTP" => Asks(c, {"RPTP"})
      BY <1>4
    <3> QED BY <3>1 DEF Sure
  <2> QED BY <2>1, <2>2
<1>7. Timely(c) /\ (Solo(c) \/ Sure(c)) => Timely(c)'
  <2> SUFFICES ASSUME Timely(c), m.type = "RPTP" => Settled(c) PROVE Timely(c)'
    BY <1>6
  <2>1. Sends(c, {"RPTL", "RPTP"})' <=> Sends(c, {"RPTL", "RPTP"})
    BY <1>4
  <2>2. TrackTimely(c)'
    BY <1>0, <2>1 DEF Timely, TrackTimely
  <2>3. SessionTimely(c)'
    <3>1. CASE At(c)'.age = 0
      BY <1>0, <3>1 DEF SessionTimely
    <3>2. CASE m.type = "RPTO" /\ session' = session
      <4>1. At(c)' = At(c) /\ (Joined(c)' <=> Joined(c)) /\ ~Asks(c, {"RPTL", "RPTP"})
        BY <1>0, <1>4, <3>2 DEF At, Joined, Known
      <4> QED BY <1>0, <2>1, <4>1 DEF Timely, SessionTimely
    <3> QED BY <1>1, <2>2, <3>1, <3>2 DEF Outcome
  <2>4. PingTimely(c)'
    <3>1. UNCHANGED Unanswered(c) /\ (Sends(c, {"RPTP"})' <=> Sends(c, {"RPTP"}))
      BY <1>0, <1>4 DEF Unanswered
    <3>2. CASE m.type = "RPTP"
      <4>1. Replies(c, Packet("MSTPONG", c))
        BY <1>1, <3>2 DEF Outcome
      <4>2. Ponged(c)'
        BY <1>0, <4>1 DEF Replies, Packet, Ponged, Telling
      <4> QED BY <1>0, <3>1, <4>2 DEF Timely, PingTimely
    <3>3. CASE m.type # "RPTP"
      <4>1. ~Asks(c, {"RPTP"}) /\ (Ponged(c) => Ponged(c)')
        BY <1>0, <1>3, <1>4, <3>3 DEF Ponged
      <4> QED BY <1>0, <3>1, <4>1 DEF Timely, PingTimely
    <3> QED BY <3>2, <3>3
  <2> QED BY <2>2, <2>3, <2>4 DEF Timely
<1>8. Solo(c) => Solo(c)'
  <2> SUFFICES ASSUME Solo(c) PROVE Solo(c)'
    OBVIOUS
  <2>1. FitsRequest(c, m) /\ up[c] = <<>> /\ down[c] = <<>> /\ c \notin due
    BY <1>a, <1>0 DEF Solo
  <2>2. Telling(c)' => FitsAnswer(c, Head(toProxy).msg)'
    <3>1. CASE toProxy' = toProxy
      BY <1>0, <3>1 DEF Telling
    <3>2. ASSUME NEW r, Replies(c, r), FitsAnswer(c, r)' PROVE FitsAnswer(c, Head(toProxy).msg)'
      <4>1. Head(toProxy').msg = r
        BY <3>2 DEF Replies
      <4> QED BY <3>2, <4>1 DEF FitsAnswer
    <3>3. \A r : r.type = "RPTACK" /\ client[c].conn = "RPTL_SENT" => FitsAnswer(c, r)'
      BY <1>0 DEF FitsAnswer
    <3>4. client[c].conn \in {"AUTHENTICATED", "OPTIONS-SENT"} => FitsAnswer(c, Packet("RPTACK", c))'
      BY <1>0 DEF FitsAnswer
    <3>5. client[c].conn = "CONFIG-SENT" /\ Settled(c)' => FitsAnswer(c, Packet("RPTACK", c))'
      BY <1>0 DEF FitsAnswer
    <3>6. client[c].conn = "YES" => FitsAnswer(c, Packet("MSTPONG", c))'
      BY <1>0 DEF FitsAnswer, Packet
    <3>7. \/ toProxy' = toProxy
          \/ \E r : Replies(c, r) /\ FitsAnswer(c, r)'
      BY <1>1, <2>1, <3>3, <3>4, <3>5, <3>6 DEF Outcome, FitsRequest
    <3> QED BY <3>1, <3>2, <3>7
  <2>3. client'[c].conn \in {"OPTIONS-SENT", "YES"} => Settled(c)'
    BY <1>0, <1>2 DEF Solo
  <2> QED BY <1>0, <1>3, <2>1, <2>2, <2>3 DEF Solo
<1>9. Sure(c) => Sure(c)'
  <2> SUFFICES ASSUME Sure(c), ~Settled(c), ~Settled(c)' PROVE Sure(c)'
    BY <1>2 DEF Sure
  <2>1. m.type # "RPTC"
    BY <1>1 DEF Outcome
  <2>2. ~Asks(c, {"RPTC"}) /\ ~Asks(c, {"RPTP"})' /\ (Sends(c, {"RPTC"})' <=> Sends(c, {"RPTC"}))
    BY <1>4, <2>1
  <2> QED BY <1>0, <2>2 DEF Sure
<1> QED BY <1>0, <1>5, <1>7, <1>8, <1>9 DEF Keeps

LEMMA ProxyFromMasterRides ==
  ASSUME LoginInv, Sound, ProxyFromMaster
  PROVE  \E c \in Clients : Keeps(c)
<1>a. PICK c, m : c = Head(toProxy).msg.id /\ m = Head(toProxy).msg
  OBVIOUS
<1>0. /\ c \in Clients /\ Telling(c) /\ SoundAnswer(c, m) /\ Known(c) /\ Known(c)'
      /\ toMaster = <<>> /\ toMaster' = <<>> /\ toProxy' = <<>>
      /\ UNCHANGED <<scene, client, up, session, due, late, strain>>
      /\ Forward(c, m)
      /\ track'[c].port = track[c].port /\ track'[c].age = track[c].age
      /\ \A e \in Clients : e # c => track'[e] = track[e]
  BY <1>a, ProxyFromMasterDoes
<1>1. /\ down'[c] = Append(down[c], m)
      /\ Range(down'[c]) = Range(down[c]) \cup {m}
      /\ \A e \in Clients : e # c => down'[e] = down[e]
  BY <1>0, DownForwarded DEF Sound
<1>2. /\ At(c)' = At(c) /\ (Joined(c)' <=> Joined(c)) /\ (Settled(c)' <=> Settled(c))
      /\ ~Asking(c) /\ ~Asking(c)' /\ ~Telling(c)'
  BY <1>0 DEF At, Joined, Settled, Asking, Telling
<1>3. \A types : (Sends(c, types)' <=> Sends(c, types)) /\ ~Asks(c, types) /\ ~Asks(c, types)'
  BY <1>0, <1>2 DEF Sends, Asks
<1>4. \A e \in Clients : e # c => Apart(e)
  <2>1. \A e \in Clients : e # c => ~Telling(e) /\ ~Telling(e)'
    BY <1>a, <1>0 DEF Telling
  <2> QED BY <1>0, <1>1, <2>1 DEF Apart, At
<1>5. Timely(c) => Timely(c)'
  <2>1. /\ Sends(c, {"RPTL", "RPTP"})' <=> Sends(c, {"RPTL", "RPTP"})
        /\ Sends(c, {"RPTP"})' <=> Sends(c, {"RPTP"})
        /\ ~Asks(c, {"RPTL", "RPTP"}) /\ ~Asks(c, {"RPTP"})
    BY <1>3
  <2>2. Ponged(c) => Ponged(c)'
    BY <1>a, <1>1 DEF Ponged
  <2>3. UNCHANGED Unanswered(c)
    BY <1>0 DEF Unanswered
  <2>4. TrackTimely(c) => TrackTimely(c)'
    BY <1>0, <2>1 DEF TrackTimely
  <2>5. SessionTimely(c) => SessionTimely(c)'
    BY <1>0, <1>2, <2>1 DEF SessionTimely
  <2>6. PingTimely(c) => PingTimely(c)'
    BY <1>0, <2>1, <2>2, <2>3 DEF PingTimely
  <2> QED BY <2>4, <2>5, <2>6 DEF Timely
<1>6. Solo(c) => Solo(c)'
  <2> SUFFICES ASSUME Solo(c) PROVE Solo(c)'
    OBVIOUS
  <2>1. FitsAnswer(c, m) /\ up[c] = <<>> /\ down[c] = <<>> /\ c \notin due
    BY <1>a, <1>0 DEF Solo
  <2>2. down'[c] = <<m>> /\ FitsAnswer(c, m)'
    BY <1>0, <1>1, <1>2, <2>1 DEF FitsAnswer
  <2>3. down'[c] = <<Head(down'[c])>> /\ FitsAnswer(c, Head(down[c]))'
    BY <2>2 DEF FitsAnswer
  <2>4. client'[c].conn \in {"OPTIONS-SENT", "YES"} => Settled(c)'
    BY <1>0, <1>2 DEF Solo
  <2> QED BY <1>0, <1>2, <2>1, <2>3, <2>4 DEF Solo
<1>7. Sure(c) => Sure(c)'
  <2>1. /\ Sends(c, {"RPTC"})' <=> Sends(c, {"RPTC"})
        /\ ~Asks(c, {"RPTC"}) /\ ~Asks(c, {"RPTP"})'
    BY <1>3
  <2> QED BY <1>0, <1>2, <2>1 DEF Sure
<1> QED BY <1>0, <1>4, <1>5, <1>6, <1>7 DEF Keeps

-----------------------------------------------------------------------------
(* Every step until the second fault.                                           *)

(* Mostly it is one client's, and the others are kept by Apart.                   *)
LEMMA KeepsRiding ==
  ASSUME Riding, strain < Broken, strain' = strain, Sound', NEW c \in Clients, Keeps(c)
  PROVE  Riding'
<1>1. ASSUME NEW e \in Clients
      PROVE  /\ Timely(e)' /\ (Solo(e) => Solo(e)') /\ (Sure(e) => Sure(e)')
  <2>1. Timely(e) /\ (Solo(e) \/ Sure(e))
    BY DEF Riding
  <2>2. CASE e = c
    BY <2>1, <2>2 DEF Keeps
  <2>3. CASE e # c
    BY <2>1, <2>3, ApartTimely, ApartSolo, ApartSure DEF Keeps
  <2> QED BY <2>2, <2>3
<1> QED BY <1>1 DEF Riding

LEMMA DeliverRides ==
  ASSUME LoginInv, Sound, NEW c \in Clients, Deliver(c)
  PROVE  Keeps(c)
<1>0. LeaseInv /\ WireInv /\ Quiet /\ late' = late
  BY DEF LoginInv, Deliver
<1>1. CASE /\ up[c] # <<>> /\ up' = [up EXCEPT ![c] = Tail(@)]
           /\ ProxyReceives(c, Head(up[c])) /\ UNCHANGED down
  <2>1. PICK m : m = Head(up[c])
    OBVIOUS
  <2>2. /\ SoundRequest(c, m) /\ ProxyReceives(c, m) /\ up'[c] = Tail(up[c])
        /\ \A e \in Clients : e # c => up'[e] = up[e]
    BY <1>0, <1>1, <2>1, UpTaken DEF Sound
  <2> QED BY <1>0, <1>1, <2>1, <2>2, ProxyReceivesRides
<1>2. CASE /\ down[c] # <<>> /\ down' = [down EXCEPT ![c] = Tail(@)]
           /\ ClientReceives(c, Head(down[c]))
  <2>1. PICK m : m = Head(down[c])
    OBVIOUS
  <2>2. UNCHANGED <<scene, track, session>>
    BY <1>2 DEF ClientReceives, proxyVars, masterVars
  <2>3. SoundAnswer(c, m) /\ ClientReceives(c, m)
    BY <1>0, <1>2, <2>1, <2>2, DownTaken DEF Sound
  <2>4. down'[c] = Tail(down[c]) /\ \A e \in Clients : e # c => down'[e] = down[e]
    BY <1>2 DEF Sound, SoundDown
  <2> QED BY <1>0, <1>2, <2>1, <2>3, <2>4, ClientReceivesRides
<1> QED BY <1>1, <1>2 DEF Deliver

LEMMA DeliverLateRides ==
  ASSUME LoginInv, Sound, NEW d \in late, DeliverLate(d)
  PROVE  \E c \in Clients : Keeps(c)
<1>0. /\ LeaseInv /\ WireInv /\ Quiet /\ down' = down /\ late' \subseteq late
      /\ scene.clients \subseteq Clients
  BY DEF LoginInv, SceneInv, DeliverLate
<1>1. CASE d.up
  <2>1. PICK c, m : m = d.msg /\ c = m.id
    OBVIOUS
  <2>2. SoundRequest(c, m) /\ ProxyReceives(c, m) /\ up' = up
    BY <1>1, <2>1 DEF Sound, SoundLate, DeliverLate
  <2>3. c \in Clients /\ ~Solo(c) /\ (Sure(c) /\ m.type = "RPTP" => Settled(c))
    BY <1>0, <1>1, <2>1, <2>2 DEF SoundRequest, Solo, Sure
  <2> QED BY <1>0, <2>2, <2>3, ProxyReceivesRides
<1>2. CASE ~d.up
  <2>1. PICK c, m : m = d.msg /\ c = d.to
    OBVIOUS
  <2>2. SoundAnswer(c, m) /\ ClientReceives(c, m)
    BY <1>2, <2>1 DEF Sound, SoundLate, DeliverLate
  <2>3. c \in Clients /\ ~Solo(c)
    BY <1>0, <1>2, <2>1, <2>2 DEF SoundAnswer, Solo
  <2> QED BY <1>0, <2>2, <2>3, ClientReceivesRides
<1> QED BY <1>1, <1>2

(* A period more without an answer: nothing is on its way when it begins.           *)
LEMMA TickRides ==
  ASSUME LoginInv, Riding, strain < Broken, Tick
  PROVE  Riding'
<1>0. /\ UNCHANGED <<scene, client, up, down, late, lease, toMaster, toProxy, strain>>
      /\ Quiet /\ due = {} /\ Sound /\ LeaseInv /\ SessionInv /\ strain \in Nat
      /\ \A c \in Clients : up[c] = <<>> /\ down[c] = <<>>
      /\ due' = scene.clients \cup {p \in Ports : session[p] # NoSession}
  BY DEF Tick, wires, LoginInv, Broken, Riding
<1>1. Sound' /\ Grows
  BY <1>0, TickSound
<1>2. ASSUME NEW c \in Clients
      PROVE  Timely(c)' /\ (Solo(c) => Solo(c)') /\ (Sure(c) => Sure(c)')
  <2>1. /\ Timely(c) /\ (Settled(c) => Settled(c)')
    BY <1>0, <1>1, GrowsMeans DEF Riding
  <2>2. up[c] = <<>> /\ down[c] = <<>> /\ Range(up[c]) = {} /\ Range(down[c]) = {}
    BY <1>0 DEF Range
  <2>3. /\ ~Asking(c) /\ ~Telling(c) /\ ~Asking(c)' /\ ~Telling(c)' /\ ~Ponged(c)
        /\ \A types : ~Sends(c, types) /\ ~Asks(c, types)
    BY <1>0, <2>2 DEF Asking, Telling, Ponged, Sends, Asks, Quiet
  <2>4. Known(c) => c \in due'
    BY <1>0, PortOfKnown, ClientsAssumption DEF Sound, SoundPorts
  <2>5. TrackTimely(c)'
    <3>1. track[c].age <= strain
      BY <1>0, <2>1, <2>3 DEF Timely, TrackTimely
    <3>2. track[c].age \in Int
      BY <1>0, LimitsAssumption DEF LeaseInv, TrackType, NoTrack
    <3> QED BY <1>0, <2>4, <3>1, <3>2, TickTracks DEF TrackTimely
  <2>6. SessionTimely(c)'
    <3> SUFFICES ASSUME Joined(c)' PROVE SessionTimely(c)'
      BY DEF SessionTimely
    <3>1. Known(c) /\ track'[c].port = track[c].port
      BY <1>0, TickTracks DEF Joined
    <3>2. track[c].port \in Ports
      BY <1>0, <3>1, PortOfKnown
    <3>3. session[track[c].port].id = c
      BY <1>0, <3>1, <3>2, TickAges DEF Joined, At
    <3>4. Joined(c) /\ At(c) # NoSession
      BY <3>1, <3>3, ClientsAssumption DEF Joined, At, NoSession
    <3>5. At(c).age <= strain /\ At(c)'.age = At(c).age + 1 /\ At(c).age \in Int
      <4>1. At(c).age <= strain
        BY <1>0, <2>1, <2>3, <3>4 DEF Timely, SessionTimely
      <4>2. At(c)'.age = At(c).age + 1
        BY <1>0, <3>1, <3>2, <3>4, TickAges DEF At
      <4>3. At(c) \in SessionType
        BY <1>0, <3>2, <3>3, HasSession DEF At
      <4> QED BY <4>1, <4>2, <4>3 DEF SessionType
    <3> QED BY <1>0, <2>4, <3>1, <3>5 DEF SessionTimely
  <2>7. PingTimely(c)'
    <3>1. Unanswered(c) <= strain
      BY <1>0, <2>1, <2>3 DEF Timely, PingTimely
    <3> QED BY <1>0, <3>1 DEF PingTimely, Unanswered
  <2>8. Solo(c) => Solo(c)'
    BY <1>0, <2>1, <2>2, <2>3 DEF Solo
  <2>9. Sure(c) => Sure(c)'
    <3>1. /\ \A types : ~Sends(c, types)' /\ ~Asks(c, types)'
      BY <1>0, <2>2, <2>3 DEF Sends, Asks
    <3>2. ~Asks(c, {"RPTC"}) /\ ~Sends(c, {"RPTC"}) /\ ~Asks(c, {"RPTP"})'
      BY <2>3, <3>1
    <3> QED BY <1>0, <2>1, <2>2, <3>2 DEF Sure
  <2> QED BY <2>1, <2>5, <2>6, <2>7, <2>8, <2>9 DEF Timely
<1> QED BY <1>0, <1>1, <1>2 DEF Riding

(* The one fault: what it takes or repeats is one packet of one client.              *)
LEMMA OneFault ==
  ASSUME LoginInv, Riding, NEW c \in Clients, Lose(c) \/ Repeat(c), strain' < Broken
  PROVE  /\ strain = 0 /\ strain' = 1 /\ Quiet
         /\ UNCHANGED <<scene, client, track, lease, toMaster, toProxy, session, due>>
         /\ \A e \in Clients : Timely(e)' /\ Solo(e) /\ Sure(e)
<1>1. /\ strain = 0 /\ strain' = 1 /\ Quiet
      /\ UNCHANGED <<scene, client, track, lease, toMaster, toProxy, session, due>>
  BY DEF Lose, Repeat, NetworkFault, Fault, Broken, LoginInv, proxyVars, masterVars
<1>2. \A e \in Clients : Timely(e) /\ Solo(e) /\ Sure(e)
  BY <1>1 DEF Riding, Broken
<1>3. ASSUME NEW e \in Clients PROVE Timely(e)'
  <2>1. UNCHANGED <<At(e), Unanswered(e), track[e]>> /\ (Joined(e)' <=> Joined(e))
    BY <1>1 DEF At, Unanswered, Joined, Known
  <2>2. /\ track[e].age \in Int /\ Unanswered(e) \in Int
        /\ Joined(e) => At(e).age \in Int
    <3>1. Joined(e) => At(e) \in SessionType
      BY PortOfKnown, HasSession DEF LoginInv, Joined, At
    <3> QED BY <3>1, LimitsAssumption DEF LoginInv, LeaseInv, TrackType, NoTrack, SessionType,
                                          ClientInv, ClientType, Unanswered
  <2>3. /\ track[e].age <= 1 /\ Unanswered(e) <= 1
        /\ Joined(e) => At(e).age <= 1
    BY <1>1, <1>2, <2>2 DEF Timely, TrackTimely, SessionTimely, PingTimely
  <2> QED BY <1>1, <2>1, <2>3 DEF Timely, TrackTimely, SessionTimely, PingTimely
<1> QED BY <1>1, <1>2, <1>3

LEMMA LoseRides ==
  ASSUME LoginInv, Riding, NEW c \in Clients, Lose(c), strain' < Broken
  PROVE  Riding'
<1>0. /\ strain = 0 /\ strain' = 1 /\ Sound /\ late' = late
      /\ UNCHANGED <<client, track, toMaster, toProxy, session, due>>
      /\ \A e \in Clients : Timely(e)' /\ Solo(e)
  BY OneFault DEF Riding, Broken, Lose
<1>1. Sound'
  BY <1>0, LoseSound
<1>2. /\ \A e \in Clients : e # c => up'[e] = up[e] /\ down'[e] = down[e]
      /\ \/ up'[c] = Tail(up[c]) /\ up[c] # <<>> /\ down'[c] = down[c]
         \/ up'[c] = up[c] /\ down[c] # <<>> /\ down'[c] = Tail(down[c])
  BY <1>0 DEF Lose, LoginInv, WireInv, Sound, SoundDown
<1>3. ASSUME NEW e \in Clients, e # c PROVE Solo(e)'
  <2>1. Apart(e)
    BY <1>0, <1>2, <1>3 DEF Apart, At
  <2> QED BY <1>0, <2>1, ApartSolo
<1>4. Solo(c)'
  <2>1. \A x : Tail(<<x>>) = <<>>
    OBVIOUS
  <2>2. /\ up'[c] = <<>> \/ up'[c] = up[c]
        /\ down'[c] = <<>> \/ down'[c] = down[c]
    <3>1. /\ up[c] # <<>> => \E x : up[c] = <<x>>
          /\ down[c] # <<>> => \E x : down[c] = <<x>>
      BY <1>0 DEF Solo
    <3> QED BY <1>2, <2>1, <3>1
  <2>3. Settled(c)' <=> Settled(c)
    BY <1>0 DEF Settled, Joined, At, Known
  <2>4. /\ \A m : FitsRequest(c, m)' <=> FitsRequest(c, m)
        /\ \A m : FitsAnswer(c, m)' <=> FitsAnswer(c, m)
    BY <1>0, <2>3 DEF FitsRequest, FitsAnswer
  <2>5. /\ Asking(c)' <=> Asking(c)
        /\ Telling(c)' <=> Telling(c)
    BY <1>0 DEF Asking, Telling
  <2>6. /\ up'[c] = <<>> \/ (up'[c] = <<Head(up'[c])>> /\ FitsRequest(c, Head(up[c]))')
        /\ down'[c] = <<>> \/ (down'[c] = <<Head(down'[c])>> /\ FitsAnswer(c, Head(down[c]))')
        /\ Asking(c)' => FitsRequest(c, Head(toMaster).msg)'
        /\ Telling(c)' => FitsAnswer(c, Head(toProxy).msg)'
    BY <1>0, <2>2, <2>3, <2>5 DEF Solo, FitsRequest, FitsAnswer
  <2> QED BY <1>0, <2>2, <2>3, <2>5, <2>6 DEF Solo
<1> QED BY <1>0, <1>1, <1>3, <1>4 DEF Riding

LEMMA RepeatRides ==
  ASSUME LoginInv, Riding, NEW c \in Clients, Repeat(c), strain' < Broken
  PROVE  Riding'
<1>0. /\ strain = 0 /\ strain' = 1 /\ Sound /\ Quiet
      /\ UNCHANGED <<client, up, down, track, toMaster, toProxy, session, due>>
      /\ \A e \in Clients : Timely(e)' /\ Solo(e) /\ Sure(e)
  BY OneFault DEF Riding, Broken, Repeat
<1>1. Sound'
  BY <1>0, RepeatSound
<1>2. up[c] # <<>> => Head(up[c]).id = c /\ up[c] \in Seq(Range(up[c]))
  BY AddressedTail DEF LoginInv, WireInv, Addressed
<1>3. \A d \in late' :
        \/ d \in late
        \/ up[c] # <<>> /\ d = [up |-> TRUE, to |-> c, msg |-> Head(up[c])]
        \/ d = [up |-> FALSE, to |-> c, msg |-> Head(down[c])]
  BY DEF Repeat
<1>4. ASSUME NEW e \in Clients, e # c PROVE Solo(e)'
  <2>1. \A d \in late' : Mine(e, d) => d \in late
    BY <1>2, <1>3, <1>4 DEF Mine
  <2>2. Apart(e)
    BY <1>0, <2>1 DEF Apart, At
  <2> QED BY <1>0, <2>2, ApartSolo
<1>5. Sure(c)'
  <2>1. /\ ~Asks(c, {"RPTC"}) /\ ~Asks(c, {"RPTP"})'
        /\ Sends(c, {"RPTC"})' <=> Sends(c, {"RPTC"})
        /\ Settled(c)' <=> Settled(c)
    BY <1>0 DEF Asks, Asking, Sends, Settled, Joined, At, Known, Quiet
  <2>2. CASE Settled(c)
    BY <2>1, <2>2 DEF Sure
  <2>3. CASE ~Settled(c)
    <3>1. /\ client[c].conn \in {"CONFIG-SENT", "OPTIONS-SENT", "YES"} => Sends(c, {"RPTC"})
          /\ Ahead(up[c])
          /\ \A d \in late : ~(d.up /\ d.msg.id = c /\ d.msg.type = "RPTP")
      BY <1>0, <2>1, <2>3 DEF Sure
    <3>2. up[c] # <<>> => Head(up[c]).type # "RPTP"
      BY <1>2, <3>1, AheadTail
    <3>3. \A d \in late' : ~(d.up /\ d.msg.id = c /\ d.msg.type = "RPTP")
      BY <1>3, <3>1, <3>2
    <3> QED BY <1>0, <2>1, <3>1, <3>3 DEF Sure
  <2> QED BY <2>2, <2>3
<1> QED BY <1>0, <1>1, <1>4, <1>5 DEF Riding

LEMMA RidingInit ==
  ASSUME Init
  PROVE  Riding
<1>0. /\ strain = 0 /\ scene.clients \subseteq Clients /\ LoginInv
      /\ due = scene.clients /\ toMaster = <<>> /\ toProxy = <<>> /\ late = {}
      /\ lease = [p \in Ports |-> Free] /\ session = [p \in Ports |-> NoSession]
      /\ down = [c \in Clients |-> <<>>]
  BY LoginInit DEF Init, LoginInv, SceneInv
<1>1. ASSUME NEW c \in Clients
      PROVE  /\ up[c] = <<>> /\ down[c] = <<>> /\ Range(up[c]) = {} /\ Range(down[c]) = {}
             /\ ~Known(c) /\ track[c].age = 0 /\ client[c] = Offline
             /\ ~Asking(c) /\ ~Telling(c) /\ Addressed(down[c], c)
  <2>1. Range(<<>>) = {} /\ <<>> \in Seq({})
    BY DEF Range
  <2> QED BY <2>1 DEF Init, Known, NoTrack, Asking, Telling, Addressed
<1>2. Sound
  <2>1. SoundPorts
    BY <1>0 DEF SoundPorts
  <2>2. SoundUp /\ SoundDown /\ SoundToMaster /\ SoundToProxy /\ SoundLate
    BY <1>0, <1>1 DEF SoundUp, SoundDown, SoundToMaster, SoundToProxy, SoundLate
  <2>3. \A c \in Clients : SoundClient(c)
    BY <1>1 DEF SoundClient, Offline
  <2> QED BY <2>1, <2>2, <2>3 DEF Sound
<1>3. ASSUME NEW c \in Clients PROVE Timely(c) /\ Solo(c) /\ Sure(c)
  <2>1. Timely(c)
    BY <1>0, <1>1 DEF Timely, TrackTimely, SessionTimely, PingTimely, Joined, Unanswered, Offline
  <2>2. Solo(c)
    BY <1>0, <1>1 DEF Solo, Offline
  <2>3. Sure(c)
    <3>1. Ahead(<<>>)
      BY DEF Ahead
    <3> QED BY <1>0, <1>1, <3>1 DEF Sure, Offline, Asks
  <2> QED BY <2>1, <2>2, <2>3
<1> QED BY <1>0, <1>2, <1>3 DEF Riding

LEMMA RidingStutters ==
  ASSUME LoginInv, Riding, Sound, due' \subseteq due, strain' = strain, strain < Broken,
         \A c \in Clients : c \in due' <=> c \in due,
         UNCHANGED <<scene, client, up, down, late, track, lease, toMaster, toProxy, session>>
  PROVE  Riding'
<1>1. Sound'
  BY LoopSound
<1>2. \A c \in Clients : Apart(c)
  BY DEF Apart, At
<1>3. \A c \in Clients : /\ Timely(c)' /\ (Solo(c) => Solo(c)') /\ (Sure(c) => Sure(c)')
  BY <1>2, ApartTimely, ApartSolo, ApartSure DEF Riding
<1> QED BY <1>1, <1>3 DEF Riding

LEMMA StrainStep ==
  ASSUME [Next]_vars
  PROVE  strain' \in {strain, strain + 1, Broken}
<1>1. System \/ UNCHANGED vars => strain' = strain
  BY DEF System, ClientLoop, Deliver, ProxyReceives, ClientReceives, ProxyTimeout, ProxyFromMaster,
         MasterReceives, MasterLoop, Tick, vars
<1>2. Faults => strain' = strain \/ Restart \/ \E m : NetworkFault(m)
  BY DEF Faults, Lose, Repeat, ClientRestart, ProxyRestart, MasterRestart, DeliverLate, ProxyReceives,
         ClientReceives
<1>3. Restart \/ (\E m : NetworkFault(m)) => strain' \in {strain, strain + 1, Broken}
  BY DEF Restart, NetworkFault
<1> QED BY <1>1, <1>2, <1>3 DEF Next

(* Strain is never taken back, so all of this holds up to the second fault.        *)
LEMMA RidingStep ==
  ASSUME LoginInv, Riding, MaxMissed >= 3, Timeout >= 3, [Next]_vars
  PROVE  Riding' /\ (strain' < Broken => strain < Broken /\ Sound /\ Grows)
<1>0. strain \in 0 .. Broken /\ (Broken < Broken <=> FALSE) /\ LeaseInv
  BY DEF LoginInv, Broken
<1> SUFFICES ASSUME strain' < Broken PROVE Riding' /\ strain < Broken /\ Sound /\ Grows
  BY DEF Riding
<1>1. strain < Broken /\ Sound /\ \A c \in Clients : Timely(c)
  <2>1. strain < Broken
    BY <1>0, StrainStep DEF Broken
  <2> QED BY <2>1 DEF Riding
<1>2. ASSUME NEW c \in Clients, Keeps(c), strain' = strain, Sound', Grows
      PROVE  Riding' /\ Grows
  BY <1>1, <1>2, KeepsRiding
<1>3. ASSUME NEW c \in Clients, ClientLoop(c) PROVE Riding' /\ Grows
  <2>1. strain' = strain
    BY <1>3 DEF ClientLoop
  <2> QED BY <1>1, <1>2, <1>3, <2>1, ClientLoopRides, ClientLoopSound
<1>4. ASSUME NEW c \in Clients, Deliver(c) PROVE Riding' /\ Grows
  <2>1. strain' = strain
    BY <1>4 DEF Deliver, ProxyReceives, ClientReceives
  <2> QED BY <1>1, <1>2, <1>4, <2>1, DeliverRides, DeliverSound
<1>5. ASSUME NEW c \in Clients, ProxyTimeout(c) PROVE FALSE
  BY <1>1, <1>5, TimeoutSpares
<1>6. ASSUME ProxyFromMaster PROVE Riding' /\ Grows
  <2>1. strain' = strain
    BY <1>6 DEF ProxyFromMaster
  <2> QED BY <1>1, <1>2, <1>6, <2>1, ProxyFromMasterRides, ProxyFromMasterSound
<1>7. ASSUME MasterReceives PROVE Riding' /\ Grows
  <2>1. strain' = strain
    BY <1>7 DEF MasterReceives
  <2> QED BY <1>1, <1>2, <1>7, <2>1, MasterReceivesRides, MasterReceivesSound
<1>8. ASSUME NEW p \in Ports, MasterLoop(p) PROVE Riding' /\ Grows
  <2>1. /\ UNCHANGED <<scene, client, up, down, late, track, lease, toMaster, toProxy, session, strain>>
        /\ due' = due \ {p}
    BY <1>1, <1>8, LoopSpares
  <2>2. due' \subseteq due /\ \A c \in Clients : c \in due' <=> c \in due
    BY <2>1, ClientsAssumption
  <2> QED BY <1>1, <2>1, <2>2, RidingStutters, NoGrowth
<1>9. ASSUME Tick PROVE Riding' /\ Grows
  BY <1>1, <1>9, TickRides, TickSound
<1>10. ASSUME NEW c \in Clients, Lose(c) PROVE Riding' /\ Grows
  BY <1>1, <1>10, LoseRides, LoseSound
<1>11. ASSUME NEW c \in Clients, Repeat(c) PROVE Riding' /\ Grows
  BY <1>1, <1>11, RepeatRides, RepeatSound
<1>12. ASSUME NEW d \in late, DeliverLate(d) PROVE Riding' /\ Grows
  <2>1. strain' = strain
    BY <1>12 DEF DeliverLate, ProxyReceives, ClientReceives
  <2> QED BY <1>1, <1>2, <1>12, <2>1, DeliverLateRides, DeliverLateSound
<1>13. ~Restart
  BY <1>0 DEF Restart, Broken
<1>14. CASE UNCHANGED vars
  <2>1. UNCHANGED <<scene, client, up, down, late, track, lease, toMaster, toProxy, session, due, strain>>
    BY <1>14 DEF vars
  <2> QED BY <1>1, <2>1, RidingStutters, NoGrowth
<1>15. Riding' /\ Grows
  BY <1>3, <1>4, <1>5, <1>6, <1>7, <1>8, <1>9, <1>10, <1>11, <1>12, <1>13, <1>14
     DEF Next, System, Faults, ClientRestart, ProxyRestart, MasterRestart
<1> QED BY <1>1, <1>15

(* Being in service is up to the client and the system.                           *)
LEMMA ServedMeans ==
  ASSUME LeaseInv, NEW c \in Clients
  PROVE  Served(c) <=> client[c].conn = "YES" /\ Settled(c)
<1>1. Known(c) => track[c].port \in Ports
  BY PortOfKnown
<1>2. Known(c) => (Serving[track[c].port] = c <=> At(c).conn = "YES" /\ At(c).id = c)
  BY <1>1, ClientsAssumption DEF Serving, At
<1> QED BY <1>2 DEF Served, Settled, Joined

LEMMA StaysIn ==
  ASSUME LoginInv, Riding, MaxMissed >= 3, Sound, strain < Broken, strain' < Broken, [Next]_vars,
         NEW c \in Clients, client[c].conn = "YES"
  PROVE  client'[c].conn = "YES"
<1>0. ClientInv /\ scene.clients \subseteq Clients /\ strain \in {0, 1} /\ Timely(c) /\ MaxMissed \in Nat
  BY LimitsAssumption DEF LoginInv, SceneInv, Broken, Riding
<1>1. ASSUME NEW e \in Clients, ClientLoop(e) PROVE client'[c].conn = "YES"
  <2>1. CASE e # c
    BY <1>0, <1>1, <2>1, ClientLoopDoes
  <2>2. CASE e = c
    <3>1. Unanswered(c) \in Int
      BY <1>0 DEF ClientInv, ClientType, Unanswered
    <3>2. Unanswered(c) <= strain
      BY <1>0, <1>1, <2>2, ClientLoopDoes DEF Timely, PingTimely
    <3> QED BY <1>0, <1>1, <2>2, <3>1, <3>2, ClientLoopDoes
  <2> QED BY <2>1, <2>2
<1>2. ASSUME NEW e \in Clients, NEW m, SoundAnswer(e, m), ClientReceives(e, m)
      PROVE  client'[c].conn = "YES"
  BY <1>0, <1>2, ClientReceivesDoes DEF Turn
<1>3. ASSUME NEW e \in Clients, Deliver(e) PROVE client'[c].conn = "YES"
  <2>1. CASE down[e] # <<>> /\ ClientReceives(e, Head(down[e]))
    <3>1. PICK m : m = Head(down[e])
      OBVIOUS
    <3>2. down[e] \in Seq(Range(down[e]))
      BY DEF Sound, SoundDown, Addressed
    <3>3. m \in Range(down[e])
      BY <2>1, <3>1, <3>2, TailRange
    <3>4. SoundAnswer(e, m)
      BY <3>3 DEF Sound, SoundDown
    <3> QED BY <1>2, <2>1, <3>1, <3>4
  <2>2. CASE client' = client
    BY <2>2
  <2> QED BY <1>3, <2>1, <2>2 DEF Deliver, ProxyReceives
<1>4. ASSUME NEW d \in late, DeliverLate(d) PROVE client'[c].conn = "YES"
  <2>1. CASE ~d.up
    <3>1. PICK e, m : e = d.to /\ m = d.msg
      OBVIOUS
    <3>2. SoundAnswer(e, m) /\ ClientReceives(e, m)
      BY <1>4, <2>1, <3>1 DEF Sound, SoundLate, DeliverLate
    <3> QED BY <1>0, <1>2, <3>2 DEF SoundAnswer
  <2>2. CASE client' = client
    BY <2>2
  <2> QED BY <1>4, <2>1, <2>2 DEF DeliverLate, ProxyReceives
<1>5. ~Restart
  BY DEF Restart, Broken
<1>6. CASE client' = client
  BY <1>6
<1>7. \/ client' = client
      \/ \E e \in Clients : ClientLoop(e) \/ Deliver(e)
      \/ \E d \in late : DeliverLate(d)
  BY <1>5 DEF Next, System, Faults, vars, ProxyTimeout, ProxyFromMaster, MasterReceives, MasterLoop,
              Tick, Lose, Repeat, ClientRestart, ProxyRestart, MasterRestart
<1> QED BY <1>1, <1>3, <1>4, <1>6, <1>7

(* A hotspot in service rides out the first fault of the network: a packet lost or    *)
(* repeated, of a login or a ping, and the copy whenever it turns up.  Three missed    *)
(* periods is what the client and the proxy allow.                               *)
THEOREM SessionRides ==
  ASSUME MaxMissed >= 3, Timeout >= 3
  PROVE  Spec => RidesOut
<1>1. Init => Riding
  BY RidingInit
<1>2. LoginInv /\ Riding /\ [Next]_vars => Riding'
  BY RidingStep
<1>3. ASSUME LoginInv, Riding, [Next]_vars
      PROVE  \A c \in Clients : strain' < Broken /\ Served(c) => Served(c)'
  <2> SUFFICES ASSUME NEW c \in Clients, strain' < Broken, Served(c) PROVE Served(c)'
    OBVIOUS
  <2>1. strain < Broken /\ Sound /\ Grows /\ LeaseInv /\ LeaseInv'
    BY <1>3, RidingStep, LoginStep DEF LoginInv
  <2>2. client[c].conn = "YES" /\ Settled(c)
    BY <2>1, ServedMeans
  <2>3. client'[c].conn = "YES"
    BY <1>3, <2>1, <2>2, StaysIn
  <2>4. Settled(c)'
    BY <2>1, <2>2, GrowsMeans
  <2>5. LeaseInv' => (Served(c)' <=> client'[c].conn = "YES" /\ Settled(c)')
    <3>1. ASSUME LeaseInv' PROVE Known(c)' => track'[c].port \in Ports
      BY <3>1, TrackedIsKnown DEF LeaseInv, Known, TrackType
    <3>2. ASSUME LeaseInv', Known(c)'
          PROVE  Serving'[track'[c].port] = c <=> At(c)'.conn = "YES" /\ At(c)'.id = c
      BY <3>1, <3>2, ClientsAssumption DEF Serving, At
    <3> QED BY <3>2 DEF Served, Settled, Joined
  <2> QED BY <2>1, <2>3, <2>4, <2>5
<1>4. LoginInv /\ Riding /\ [Next]_vars =>
        [\A c \in Clients : strain' < Broken /\ Served(c) => Served(c)']_vars
  BY <1>3
<1> QED BY <1>1, <1>2, <1>4, LoginInvariant, PTL DEF Spec, RidesOut

=============================================================================
