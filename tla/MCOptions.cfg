\* A generated hotspot slot and an IPSC slot whose peers come and go.
SPECIFICATION OptionsLiveSpec
CONSTANTS
    Hotspots = {h1}
    IPSCs = {i1}
    OBPs = {}
    TGs = {91}
    Callers = {c1}
    NoOwner = NoOwner
    LinkOf <- NoLinks
    SingleMode = {}
    LegIdle = 1
    BridgeIdle = 1
    Configured <- StaticConfig
    GenStat = FALSE
    GroupTGs = {}
    GroupSlots = {2}
    PrivateDsts = {}
    PrivateSlots = {2}
    ObpTGs = {}
    OptionSets <- OneTimer
    Generated = {h1}
    Strings <- SentOptions
INVARIANTS OptionsTypeOK NoLostOptions StaticLegKept
PROPERTIES OptionsApplied
