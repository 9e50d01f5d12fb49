\* Private calls to reflectors on both slots.
SPECIFICATION Spec
CONSTANTS
    Hotspots = {h1}
    IPSCs = {}
    OBPs = {}
    TGs = {91, 92}
    Callers = {c1}
    NoOwner = NoOwner
    LinkOf <- NoLinks
    SingleMode = {h1}
    LegIdle = 1
    BridgeIdle = 1
    Configured <- NoConfig
    GenStat = FALSE
    GroupTGs = {}
    GroupSlots = {2}
    PrivateDsts = {91, 92}
    PrivateSlots = {1, 2}
    ObpTGs = {}
    OptionSets = {}
INVARIANTS OneDynamicReflector
