\* A single-mode hotspot: a static talkgroup, an on-demand or STAT bridge.
SPECIFICATION Spec
CONSTANTS
    Hotspots = {h1}
    IPSCs = {}
    OBPs = {OBP}
    TGs = {91, 92}
    Callers = {c1}
    NoOwner = NoOwner
    LinkOf <- NoLinks
    SingleMode = {h1}
    LegIdle = 2
    BridgeIdle = 1
    Configured <- StaticConfig
    GenStat = TRUE
    GroupTGs = {91, 92}
    GroupSlots = {2}
    PrivateDsts = {92}
    PrivateSlots = {2}
    ObpTGs = {92}
    OptionSets <- StaticOptions
INVARIANTS IndexConsistent StaticLegKept
PROPERTIES SingleModeLeavesOne TrimSparesActiveLinks
