\* The timer tick that finds no mark.
SPECIFICATION OptionsSpec
CONSTANTS
    Hotspots = {h1}
    IPSCs = {}
    OBPs = {}
    TGs = {91}
    Callers = {c1}
    NoOwner = NoOwner
    LinkOf <- NoLinks
    SingleMode = {}
    LegIdle = 1
    BridgeIdle = 1
    Configured <- StaticConfig
    GenStat = FALSE
    GroupTGs = {}
    GroupSlots = {2}
    PrivateDsts = {}
    PrivateSlots = {2}
    ObpTGs = {}
    OptionSets <- OneTimer
    Generated = {h1}
    Strings <- SentOptions
PROPERTIES UnchangedTickSkipped
