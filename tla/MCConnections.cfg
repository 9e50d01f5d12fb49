\* Hotspots behind the proxy, and an OpenBridge link, while packets and programs fail.
SPECIFICATION ConnectionsSpec
CONSTANTS
    c1 = c1
    c2 = c2
    p1 = p1
    p2 = p2
    Clients = {c1, c2}
    Ports = {p1, p2}
    Free = Free
    WithOptions = {c2}
    Scenes <- MCScenes
    MaxMissed = 3
    Timeout = 3
    Salts = 2
    eA = eA
    eB = eB
    sG = sG
    sX = sX
    Ends = {eA, eB}
    Streams = {sG, sX}
    Nowhere = Nowhere
    Pairs <- MCPairs
    Newest = 5
    Silent = 2
    VerPeriods = 2
    MaxPacketAge = 1
INVARIANTS
    TypeOK
    LeasesTracked
    LinkTypeOK
    QuenchHonest
PROPERTIES
    LeaseSpec
    RidesOut
    ServiceReturns
    LinkRidesOut
    LinkReturns
