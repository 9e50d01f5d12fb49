---------------------------- MODULE HotspotLogin ----------------------------
(***************************************************************************)
(* How a hotspot gets and keeps its session: a client (a system in PEER mode), *)
(* the hotspot proxy, and the systems of the server behind the proxy's ports,  *)
(* each with room for one hotspot.                                           *)
(*                                                                         *)
(*   client  --up[c]-->    proxy  --toMaster-->  system behind a port        *)
(*           <--down[c]--         <--toProxy--                               *)
(*                                                                         *)
(* up and down cross the internet; packets there may be lost, repeated and     *)
(* delayed, and each of the three programs may be restarted, within a budget   *)
(* of faults.  The proxy and the server share a machine: a packet between      *)
(* them is handled before anything else happens.  Time is counted in periods   *)
(* of PING_TIME, 10 s: every loop runs once a period.                         *)
(***************************************************************************)
EXTENDS Integers, SequencesExt

CONSTANTS
    Clients,       \* hotspots, by RADIO_ID
    Ports,         \* the proxy's ports, a system of the server behind each
    Free,          \* connTrack False: a port nobody holds
    WithOptions,   \* clients with OPTIONS to send
    Scenes,        \* which clients and ports take part, and how many faults they meet
    MaxMissed,     \* MAX_MISSED, 3
    Timeout,       \* the proxy's timeout, 30 s
    Salts          \* the salts drawn for a login, 0 .. Salts - 1 in turn

ASSUME ClientsAssumption ==
    Free \notin Clients /\ Clients \cap Ports = {} /\ WithOptions \subseteq Clients
ASSUME ScenesAssumption ==
    \A s \in Scenes : s.clients \subseteq Clients /\ s.ports \subseteq Ports /\ s.faults \in Nat
ASSUME LimitsAssumption ==
    MaxMissed \in Nat \ {0} /\ Timeout \in Nat \ {0} /\ Salts \in Nat \ {0}

VARIABLES
    scene,         \* the clients and ports that take part
    client,        \* _stats of a client: conn, PING_OUTSTANDING, NUM_OUTSTANDING
    up, down,      \* packets between client and proxy
    track,         \* the proxy's peerTrack: client -> port, CONNECTION, age of the timer
    lease,         \* connTrack: port -> client or Free
    toMaster,      \* packets between proxy and server
    toProxy,
    session,       \* PEERS of the system behind a port: one record or NoSession
    salt,          \* the next salt
    due,           \* clients and ports whose loop has yet to run in this period
    late,          \* copies of packets that are still on their way
    faults,        \* how many more there will be
    strain         \* history: the network faults met, at most Broken

wires      == <<up, down, late>>
proxyVars  == <<track, lease>>
masterVars == <<session, salt>>
vars == <<scene, client, up, down, track, lease, toMaster, toProxy, session, salt, due, late,
          faults, strain>>

NoTrack   == [port |-> Free, conn |-> "NO", age |-> 0]
NoSession == [id |-> Free, conn |-> "NO", salt |-> 0, age |-> 0]
Offline   == [conn |-> "NO", outstanding |-> FALSE, missed |-> 0]

(* Strain beyond one lost or repeated packet: more of them, a restart, or a      *)
(* second copy of a packet that ends a session.                              *)
Broken == 2
Endings == {"RPTCL", "MSTNAK", "MSTCL"}

(* What an ACK carries is a salt, or the radio id, written Own.                *)
Own == -1
Packet(type, c)      == [type |-> type, id |-> c, val |-> Own]
Salted(type, c, val) == [type |-> type, id |-> c, val |-> val]

Quiet == toMaster = <<>> /\ toProxy = <<>>

Send(c, m) == up' = [up EXCEPT ![c] = Append(@, m)]

Init ==
    /\ scene \in {[clients |-> s.clients, ports |-> s.ports] : s \in Scenes}
    /\ \E s \in Scenes : s.clients = scene.clients /\ s.ports = scene.ports /\ faults = s.faults
    /\ client = [c \in Clients |-> Offline]
    /\ up = [c \in Clients |-> <<>>] /\ down = [c \in Clients |-> <<>>]
    /\ track = [c \in Clients |-> NoTrack]
    /\ lease = [p \in Ports |-> Free]
    /\ toMaster = <<>> /\ toProxy = <<>>
    /\ session = [p \in Ports |-> NoSession]
    /\ salt = 0
    /\ due = scene.clients
    /\ late = {}
    /\ strain = 0

-----------------------------------------------------------------------------
(* The client.                                                              *)

(* Mutant: one ping more may be lost.                                        *)
GivesUpLate(c, n) == client[c].conn # "YES" \/ n > MaxMissed

(* A client that is not in, or has heard nothing for too long, logs in anew.     *)
GivesUp(c, n) == client[c].conn # "YES" \/ n >= MaxMissed

ClientLoop(c) ==
    LET n == client[c].missed + (IF client[c].outstanding THEN 1 ELSE 0) IN
    /\ Quiet /\ c \in due
    /\ due' = due \ {c}
    /\ \/ /\ GivesUp(c, n)
          /\ client' = [client EXCEPT ![c] = [Offline EXCEPT !.conn = "RPTL_SENT"]]
          /\ Send(c, Packet("RPTL", c))
       \/ /\ ~GivesUp(c, n)
          /\ client' = [client EXCEPT ![c].missed = n, ![c].outstanding = TRUE]
          /\ Send(c, Packet("RPTP", c))
    /\ UNCHANGED <<scene, down, late, proxyVars, toMaster, toProxy, masterVars, faults, strain>>

Becomes(c, conn) == client' = [client EXCEPT ![c].conn = conn]

(* An ACK means what the client last asked for.                               *)
ClientAcked(c, m) ==
    LET conn == client[c].conn IN
    \/ /\ conn = "RPTL_SENT"
       /\ Send(c, Salted("RPTK", c, m.val)) /\ Becomes(c, "AUTHENTICATED")
    \/ /\ conn = "AUTHENTICATED" /\ m = Packet("RPTACK", c)
       /\ Send(c, Packet("RPTC", c)) /\ Becomes(c, "CONFIG-SENT")
    \/ /\ conn = "CONFIG-SENT" /\ m = Packet("RPTACK", c) /\ c \in WithOptions
       /\ Send(c, Packet("RPTO", c)) /\ Becomes(c, "OPTIONS-SENT")
    \/ /\ \/ conn = "CONFIG-SENT" /\ c \notin WithOptions
          \/ conn = "OPTIONS-SENT"
       /\ m = Packet("RPTACK", c)
       /\ Becomes(c, "YES") /\ UNCHANGED up
    \/ /\ conn \in {"AUTHENTICATED", "CONFIG-SENT", "OPTIONS-SENT"} /\ m # Packet("RPTACK", c)
       /\ Becomes(c, "NO") /\ UNCHANGED up
    \/ /\ conn \in {"NO", "YES"}
       /\ UNCHANGED <<client, up>>

ClientReceives(c, m) ==
    /\ \/ m.type = "RPTACK" /\ ClientAcked(c, m)
       \/ m.type \in {"MSTNAK", "MSTCL"} /\ Becomes(c, "NO") /\ UNCHANGED up
       \/ /\ m.type = "MSTPONG"
          /\ client' = [client EXCEPT ![c].outstanding = FALSE, ![c].missed = 0]
          /\ UNCHANGED up
    /\ UNCHANGED <<scene, proxyVars, toMaster, toProxy, masterVars, due, faults, strain>>

-----------------------------------------------------------------------------
(* The proxy.                                                               *)

(* The proxy follows the login to know what a MSTNAK will mean.                *)
AfterRequest(conn, type) ==
    CASE type = "RPTL" -> "RPTL_SENT"
      [] type = "RPTK" -> "WAITING_CONFIG"
      [] type = "RPTC" -> "CONFIG_SENT"
      [] type = "RPTP" -> "YES"
      [] OTHER -> conn

(* The first packet of an unknown client does the same, but that a RPTC counts   *)
(* as an established session.                                                *)
AtFirst(type) ==
    CASE type = "RPTL" -> "RPTL_SENT"
      [] type = "RPTK" -> "WAITING_CONFIG"
      [] OTHER -> "YES"

AfterAck(conn) ==
    CASE conn = "RPTL_SENT"      -> "CHALLENGE_SENT"
      [] conn = "WAITING_CONFIG" -> "AUTH_ACKED"
      [] conn = "CONFIG_SENT"    -> "YES"
      [] OTHER -> conn

Known(c)   == c \in Clients /\ track[c] # NoTrack
MidLogin(c) == Known(c) /\ track[c].conn # "YES"
ToMaster(p, m) == toMaster' = Append(toMaster, [port |-> p, msg |-> m])

(* Mutant: any port will do.                                                 *)
FreePortsAny == scene.ports

FreePorts == {p \in scene.ports : lease[p] = Free}

(* A packet from a client.  An unknown client's ping, and a packet that finds no  *)
(* free port, are dropped.                                                   *)
ProxyReceives(c, m) ==
    /\ \/ /\ Known(c)
          /\ track' = [track EXCEPT ![c].conn = AfterRequest(@, m.type), ![c].age = 0]
          /\ ToMaster(track[c].port, m)
          /\ UNCHANGED lease
       \/ /\ ~Known(c) /\ m.type # "RPTP"
          /\ \E p \in FreePorts :
                /\ track' = [track EXCEPT ![c] =
                                [port |-> p, conn |-> AtFirst(m.type), age |-> 0]]
                /\ lease' = [lease EXCEPT ![p] = c]
                /\ ToMaster(p, m)
       \/ /\ ~Known(c) /\ (m.type = "RPTP" \/ FreePorts = {})
          /\ UNCHANGED <<track, lease, toMaster>>
    /\ UNCHANGED <<scene, client, toProxy, masterVars, due, faults, strain>>

(* Mutant: the reaper frees the port and still forwards for the client.        *)
ReapedTracked(c) ==
    /\ ToMaster(track[c].port, Packet("RPTCL", c))
    /\ lease' = [lease EXCEPT ![track[c].port] = Free]
    /\ track' = [track EXCEPT ![c].age = 0]

(* The reaper closes the session at the server and frees the port.             *)
Reaped(c) ==
    /\ ToMaster(track[c].port, Packet("RPTCL", c))
    /\ lease' = [lease EXCEPT ![track[c].port] = Free]
    /\ track' = [track EXCEPT ![c] = NoTrack]

Forward(c, m) == down' = [down EXCEPT ![c] = Append(@, m)]

(* Whose packet it is: the radio id it names, or for a salt the lease of the port. *)
Addressee(p, m) ==
    IF m.type = "RPTACK" /\ (m.val # Own \/ ~Known(m.id)) THEN lease[p] ELSE m.id

(* A packet from the server.                                                 *)
ProxyFromMaster ==
    /\ toMaster = <<>> /\ toProxy # <<>>
    /\ toProxy' = Tail(toProxy)
    /\ LET p == Head(toProxy).port
           m == Head(toProxy).msg
           c == Addressee(p, m)
       IN
       \/ /\ ~Known(c)
          /\ UNCHANGED <<track, lease, toMaster, down>>
       \/ /\ Known(c) /\ m.type = "RPTACK"
          /\ track' = [track EXCEPT ![c].conn = AfterAck(@)]
          /\ Forward(c, m)
          /\ UNCHANGED <<lease, toMaster>>
       \/ /\ Known(c) /\ (m.type = "MSTPONG" \/ (m.type = "MSTNAK" /\ MidLogin(c)))
          /\ Forward(c, m)
          /\ UNCHANGED <<track, lease, toMaster>>
       \/ /\ Known(c) /\ m.type = "MSTNAK" /\ ~MidLogin(c)
          /\ Forward(c, m)
          /\ Reaped(c)
       \/ /\ Known(c) /\ m.type = "MSTCL"
          /\ Forward(c, Packet("MSTCL", c))
          /\ Reaped(c)
    /\ UNCHANGED <<scene, client, up, masterVars, due, late, faults, strain>>

ProxyTimeout(c) ==
    /\ Quiet
    /\ Known(c) /\ track[c].age >= Timeout
    /\ Reaped(c)
    /\ Forward(c, Packet("MSTCL", c))
    /\ UNCHANGED <<scene, client, up, toProxy, masterVars, due, late, faults, strain>>

-----------------------------------------------------------------------------
(* The systems of the server.                                                *)

Reply(p, m) == toProxy' = Append(toProxy, [port |-> p, msg |-> m])
Refresh(p)  == session' = [session EXCEPT ![p].age = 0]
Discard(p)   == session' = [session EXCEPT ![p] = NoSession]
Step(p, conn) == session' = [session EXCEPT ![p].conn = conn, ![p].age = 0]

(* Mutant: a repeated login request starts over.                              *)
RepeatedRPTLNever(p, c) == FALSE

(* A login request of the client whose login is under way is answered as before.  *)
RepeatedRPTL(p, c) == session[p].id = c

MasterRPTL(p, c) ==
    \/ /\ RepeatedRPTL(p, c)
       /\ Refresh(p)
       /\ Reply(p, IF session[p].conn = "CHALLENGE_SENT" THEN Salted("RPTACK", c, session[p].salt)
                   ELSE Packet("RPTACK", c))
       /\ UNCHANGED salt
    \/ /\ ~RepeatedRPTL(p, c) /\ session[p].id \in {Free, c}
       /\ session' = [session EXCEPT ![p] =
                         [id |-> c, conn |-> "CHALLENGE_SENT", salt |-> salt, age |-> 0]]
       /\ salt' = (salt + 1) % Salts
       /\ Reply(p, Salted("RPTACK", c, salt))
    \/ /\ session[p].id \notin {Free, c}
       /\ Reply(p, Packet("MSTNAK", c))
       /\ UNCHANGED masterVars

MasterRPTK(p, c, val) ==
    \/ /\ session[p].id = c /\ session[p].conn \in {"WAITING_CONFIG", "YES"}
       /\ Refresh(p) /\ Reply(p, Packet("RPTACK", c))
    \/ /\ session[p].id = c /\ session[p].conn = "CHALLENGE_SENT" /\ val = session[p].salt
       /\ Step(p, "WAITING_CONFIG") /\ Reply(p, Packet("RPTACK", c))
    \/ /\ session[p].id = c /\ session[p].conn = "CHALLENGE_SENT" /\ val # session[p].salt
       /\ Discard(p) /\ Reply(p, Packet("MSTNAK", c))
    \/ /\ session[p].id # c
       /\ Reply(p, Packet("MSTNAK", c)) /\ UNCHANGED session

MasterRPTC(p, c) ==
    \/ /\ session[p].id = c /\ session[p].conn \in {"WAITING_CONFIG", "YES"}
       /\ Step(p, "YES") /\ Reply(p, Packet("RPTACK", c))
    \/ /\ session[p].id # c \/ session[p].conn = "CHALLENGE_SENT"
       /\ Reply(p, Packet("MSTNAK", c)) /\ UNCHANGED session

(* Mutant: a system without a session answers the ping of any client.           *)
EstablishedAny(p, c) == session[p].id = Free \/ (session[p].id = c /\ session[p].conn = "YES")

Established(p, c) == session[p].id = c /\ session[p].conn = "YES"

(* A session that is not established is not closed, and the packet not answered.  *)
MasterRPTCL(p, c) ==
    IF Established(p, c)
    THEN Discard(p) /\ Reply(p, Packet("MSTNAK", c))
    ELSE UNCHANGED <<session, toProxy>>

MasterRPTO(p, c) ==
    /\ Reply(p, Packet(IF session[p].id = c THEN "RPTACK" ELSE "MSTNAK", c))
    /\ UNCHANGED session

(* The ping of a client without a session gets no answer.                      *)
MasterRPTP(p, c) ==
    IF Established(p, c)
    THEN Refresh(p) /\ Reply(p, Packet("MSTPONG", c))
    ELSE UNCHANGED <<session, toProxy>>

MasterReceives ==
    /\ toMaster # <<>>
    /\ toMaster' = Tail(toMaster)
    /\ LET p == Head(toMaster).port
           m == Head(toMaster).msg
       IN  \/ m.type = "RPTL"  /\ MasterRPTL(p, m.id)
           \/ m.type = "RPTK"  /\ MasterRPTK(p, m.id, m.val) /\ UNCHANGED salt
           \/ m.type = "RPTC"  /\ MasterRPTC(p, m.id) /\ UNCHANGED salt
           \/ m.type = "RPTCL" /\ MasterRPTCL(p, m.id) /\ UNCHANGED salt
           \/ m.type = "RPTO"  /\ MasterRPTO(p, m.id) /\ UNCHANGED salt
           \/ m.type = "RPTP"  /\ MasterRPTP(p, m.id) /\ UNCHANGED salt
    /\ UNCHANGED <<scene, client, wires, proxyVars, due, faults, strain>>

(* The maintenance loop of a system.  After MaxMissed periods the deadline has    *)
(* passed or not, depending on when in the period the last packet came.          *)
MasterLoop(p) ==
    /\ Quiet /\ p \in due
    /\ due' = due \ {p}
    /\ \/ /\ session[p].age <= MaxMissed
          /\ UNCHANGED <<session, toProxy>>
       \/ /\ session[p].age >= MaxMissed
          /\ Discard(p)
          /\ Reply(p, Packet("MSTCL", session[p].id))
    /\ UNCHANGED <<scene, client, wires, proxyVars, toMaster, salt, faults, strain>>

-----------------------------------------------------------------------------
(* The network and its faults.                                               *)

Deliver(c) ==
    /\ Quiet
    /\ UNCHANGED late
    /\ \/ /\ up[c] # <<>>
          /\ up' = [up EXCEPT ![c] = Tail(@)]
          /\ ProxyReceives(c, Head(up[c]))
          /\ UNCHANGED down
       \/ /\ down[c] # <<>>
          /\ down' = [down EXCEPT ![c] = Tail(@)]
          /\ ClientReceives(c, Head(down[c]))

DeliverLate(d) ==
    /\ Quiet /\ d \in late
    /\ late' = late \ {d}
    /\ UNCHANGED down
    /\ IF d.up THEN ProxyReceives(d.msg.id, d.msg) /\ UNCHANGED up
       ELSE ClientReceives(d.to, d.msg)

Fault == Quiet /\ faults > 0 /\ faults' = faults - 1

NetworkFault(m) ==
    /\ Fault
    /\ strain' = IF m.type \in Endings \/ strain = Broken THEN Broken ELSE strain + 1

Restart == Fault /\ strain' = Broken

Lose(c) ==
    /\ \/ /\ up[c] # <<>> /\ NetworkFault(Head(up[c]))
          /\ up' = [up EXCEPT ![c] = Tail(@)] /\ UNCHANGED down
       \/ /\ down[c] # <<>> /\ NetworkFault(Head(down[c]))
          /\ down' = [down EXCEPT ![c] = Tail(@)] /\ UNCHANGED up
    /\ UNCHANGED <<scene, client, late, proxyVars, toMaster, toProxy, masterVars, due>>

Repeat(c) ==
    /\ \/ /\ up[c] # <<>> /\ NetworkFault(Head(up[c]))
          /\ late' = late \cup {[up |-> TRUE, to |-> c, msg |-> Head(up[c])]}
       \/ /\ down[c] # <<>> /\ NetworkFault(Head(down[c]))
          /\ late' = late \cup {[up |-> FALSE, to |-> c, msg |-> Head(down[c])]}
    /\ UNCHANGED <<scene, client, up, down, proxyVars, toMaster, toProxy, masterVars, due>>

(* The client is closed and started again, or crashes.                         *)
ClientRestart(c) ==
    /\ Restart /\ c \in scene.clients
    /\ client' = [client EXCEPT ![c] = Offline]
    /\ due' = due \cup {c}
    /\ Send(c, Packet("RPTCL", c)) \/ UNCHANGED up
    /\ UNCHANGED <<scene, down, late, proxyVars, toMaster, toProxy, masterVars>>

ProxyRestart ==
    /\ Restart
    /\ track' = [c \in Clients |-> NoTrack]
    /\ lease' = [p \in Ports |-> Free]
    /\ UNCHANGED <<scene, client, wires, toMaster, toProxy, masterVars, due>>

(* The server, all of its systems, is closed or crashes.                       *)
MasterRestart ==
    /\ Restart
    /\ session' = [p \in Ports |-> NoSession]
    /\ toProxy' \in {<<>>, SetToSeq({[port |-> p, msg |-> Packet("MSTCL", session[p].id)] :
                                       p \in {q \in Ports : session[q] # NoSession}})}
    /\ UNCHANGED <<scene, client, wires, proxyVars, toMaster, salt, due>>

Tick ==
    /\ Quiet /\ due = {}
    /\ \A c \in Clients : up[c] = <<>> /\ down[c] = <<>> /\ track[c].age < Timeout
    /\ due' = scene.clients \cup {p \in Ports : session[p] # NoSession}
    /\ track' = [c \in Clients |-> IF Known(c) THEN [track[c] EXCEPT !.age = @ + 1] ELSE NoTrack]
    /\ session' = [p \in Ports |-> IF session[p] # NoSession
                                   THEN [session[p] EXCEPT !.age = @ + 1] ELSE NoSession]
    /\ UNCHANGED <<scene, client, wires, lease, toMaster, toProxy, salt, faults, strain>>

System ==
    \/ \E c \in Clients : ClientLoop(c) \/ Deliver(c) \/ ProxyTimeout(c)
    \/ ProxyFromMaster \/ MasterReceives
    \/ \E p \in Ports : MasterLoop(p)
    \/ Tick

Faults ==
    \/ \E c \in Clients : Lose(c) \/ Repeat(c) \/ ClientRestart(c)
    \/ ProxyRestart \/ MasterRestart
    \/ \E d \in late : DeliverLate(d)

Next == System \/ Faults

Spec == Init /\ [][Next]_vars

FairSpec == Spec /\ WF_vars(System)
-----------------------------------------------------------------------------
Connections == {"NO", "RPTL_SENT", "AUTHENTICATED", "CONFIG-SENT", "OPTIONS-SENT", "YES"}
ProxyStates == {"RPTL_SENT", "CHALLENGE_SENT", "WAITING_CONFIG", "AUTH_ACKED", "CONFIG_SENT", "YES"}

(* Every program keeps its tables in shape, and no session outlives the deadline  *)
(* of master_maintenance_loop by more than a period.                          *)
TypeOK ==
    /\ client \in [Clients -> [conn : Connections, outstanding : BOOLEAN,
                               missed : 0 .. MaxMissed - 1]]
    /\ track \in [Clients -> {NoTrack} \cup [port : Ports, conn : ProxyStates, age : 0 .. Timeout]]
    /\ lease \in [Ports -> Clients \cup {Free}]
    /\ session \in [Ports -> {NoSession} \cup
                       [id : Clients, conn : {"CHALLENGE_SENT", "WAITING_CONFIG", "YES"},
                        salt : 0 .. Salts - 1, age : 0 .. MaxMissed + 1]]
    /\ salt \in 0 .. Salts - 1
    /\ strain \in 0 .. Broken

(* connTrack and peerTrack tell the same story, whatever came between a lease and *)
(* its end: a port is held by the one client that is tracked on it.             *)
LeasesTracked ==
    /\ \A c \in Clients : Known(c) => lease[track[c].port] = c
    /\ \A p \in Ports : lease[p] # Free => Known(lease[p]) /\ track[lease[p]].port = p

(* A system only admits the client that holds its port: what PortLease states.   *)
Serving == [p \in Ports |-> IF session[p].conn = "YES" THEN session[p].id ELSE Free]
Leases  == INSTANCE PortLease WITH holder <- lease, serving <- Serving
LeaseSpec == Leases!Spec

(* The hotspot is in service: client, proxy and system agree that it is.         *)
Served(c) == Known(c) /\ client[c].conn = "YES" /\ Serving[track[c].port] = c

(* A hotspot in service stays so when the network loses, repeats or delays a      *)
(* packet, of a login or a ping, and whenever the copy turns up: CHANGELOG.md     *)
(* 145, "without incorrectly resetting peer state".                           *)
RidesOut == [][\A c \in Clients : strain' < Broken /\ Served(c) => Served(c)']_vars

(* When the faults are over every hotspot gets into service and stays there, as   *)
(* long as there are ports: nothing that was lost, left behind or restarted keeps *)
(* it out (hblink.py 1378, "silence -> missed pongs -> RPTL").                  *)
InService == {c \in scene.clients : Served(c)}
ServiceReturns ==
    <>[](InService = scene.clients \/ Cardinality(InService) >= Cardinality(scene.ports))
=============================================================================
