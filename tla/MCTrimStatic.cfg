\* A static talkgroup set on a bridge that OpenBridge traffic made.
SPECIFICATION Spec
CONSTANTS
    Hotspots = {h1}
    IPSCs = {}
    OBPs = {OBP}
    TGs = {91}
    Callers = {c1}
    NoOwner = NoOwner
    LinkOf <- NoLinks
    SingleMode = {h1}
    LegIdle = 1
    BridgeIdle = 1
    Configured <- NoConfig
    GenStat = TRUE
    GroupTGs = {}
    GroupSlots = {2}
    PrivateDsts = {}
    PrivateSlots = {2}
    ObpTGs = {91}
    OptionSets <- StaticOptions
INVARIANTS StaticLegKept
