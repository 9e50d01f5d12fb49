\* A hotspot linked to one of two repeaters.
SPECIFICATION LiveSpec
CONSTANTS
    Hotspots = {h1}
    IPSCs = {i1, i2}
    OBPs = {OBP}
    TGs = {92}
    Callers = {c1}
    NoOwner = NoOwner
    LinkOf <- OneLinked
    SingleMode = {i1}
    LegIdle = 1
    BridgeIdle = 1
    Configured <- NoConfig
    GenStat = FALSE
    GroupTGs = {9, 92}
    GroupSlots = {2}
    PrivateDsts = {}
    PrivateSlots = {2}
    ObpTGs = {}
    OptionSets = {}
PROPERTIES KeyupIsLocal LinksEnd
