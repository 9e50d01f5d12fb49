\* A selfcare disconnect of a hotspot linked to a repeater.
SPECIFICATION Spec
CONSTANTS
    Hotspots = {h1}
    IPSCs = {i1}
    OBPs = {OBP}
    TGs = {91}
    Callers = {c1}
    NoOwner = NoOwner
    LinkOf <- AllLinked
    SingleMode = {h1}
    LegIdle = 1
    BridgeIdle = 1
    Configured <- NoConfig
    GenStat = FALSE
    GroupTGs = {91}
    GroupSlots = {2}
    PrivateDsts = {}
    PrivateSlots = {2}
    ObpTGs = {91}
    OptionSets = {}
PROPERTIES SelfcareDropsLinked
