\* Streams that arrive twice, meet on a leg, are refused, or are for one radio.
SPECIFICATION DataSpec
CONSTANTS
    O1 = O1
    O2 = O2
    H1 = H1
    H2 = H2
    s1 = s1
    s2 = s2
    s3 = s3
    d1 = d1
    d2 = d2
    r1 = r1
    r2 = r2
    r3 = r3
    r4 = r4
    g1 = g1
    g2 = g2
    p1 = p1
    OBPs = {O1, O2}
    HBPs = {H1, H2}
    Streams = {s1, s2, s3, d1, d2}
    VoiceStreams = {s1, s2, s3}
    Peers = {p1}
    NoStream = NoStream
    NoPeer = NoPeer
    Src <- Radios
    Dst <- To
    TG <- Groups
    PeerOf <- OneHotspot
    OwnHotspot <- Owned
    Networks <- Mixed
    Final = 3
    BurstC = {1}
    SeqMod = 6
    StreamTO = 1
    ClaimTO = 2
    KeepTO = 2
    Hang = 2
    QuietTO = 3
    CallTO = 3
    DayTO = 4
INVARIANTS
    DataTypeOK
    NoMutualYield
    ClaimHonest
    DataReachesHotspot
PROPERTIES
    HotspotWaits
    OnlyOwnTermEnds
    GapRecovers
    LineageKept
    DataFromFirst
