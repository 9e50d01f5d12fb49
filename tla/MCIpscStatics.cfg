\* A static talkgroup configured on an IPSC slot.
SPECIFICATION OptionsSpec
CONSTANTS
    Hotspots = {}
    IPSCs = {i1}
    OBPs = {}
    TGs = {91}
    Callers = {c1}
    NoOwner = NoOwner
    LinkOf <- NoLinks
    SingleMode = {}
    LegIdle = 1
    BridgeIdle = 1
    Configured <- StaticConfig
    GenStat = FALSE
    GroupTGs = {}
    GroupSlots = {2}
    PrivateDsts = {}
    PrivateSlots = {2}
    ObpTGs = {}
    OptionSets <- OneTimer
    Generated = {}
    Strings <- SentOptions
PROPERTIES OptionsHaveSource
