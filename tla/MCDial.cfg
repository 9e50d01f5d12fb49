\* Dial-a-tg reflectors of one hotspot, with a default reflector configured.
SPECIFICATION Spec
CONSTANTS
    Hotspots = {h1}
    IPSCs = {}
    OBPs = {OBP}
    TGs = {91, 92, 1000000}
    Callers = {c1, c2}
    NoOwner = NoOwner
    LinkOf <- NoLinks
    SingleMode = {h1}
    LegIdle = 1
    BridgeIdle = 1
    Configured <- DialConfig
    GenStat = FALSE
    GroupTGs = {9, 91}
    GroupSlots = {2}
    PrivateDsts = {91, 92, 1000000, 4000, 5000}
    PrivateSlots = {2}
    ObpTGs = {91}
    OptionSets <- DialOptions
INVARIANTS TypeOK IndexConsistent RoutingComplete OneDynamicReflector OwnerOnlyWhileLinked
PROPERTIES GroupCallSparesOthersTimer
