\* Liveness: one single-mode hotspot with a static talkgroup, links and on-demand bridges.
SPECIFICATION LiveSpec
CONSTANTS
    Hotspots = {h1}
    IPSCs = {}
    OBPs = {OBP}
    TGs = {91, 92, 1000000}
    Callers = {c1}
    NoOwner = NoOwner
    LinkOf <- NoLinks
    SingleMode = {h1}
    LegIdle = 1
    BridgeIdle = 1
    Configured <- StaticConfig
    GenStat = FALSE
    GroupTGs = {9, 92}
    GroupSlots = {2}
    PrivateDsts = {91, 92, 1000000, 4000}
    PrivateSlots = {2}
    ObpTGs = {}
    OptionSets = {}
PROPERTIES LinksEnd StaticsReturn
