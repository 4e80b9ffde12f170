CONSTANTS
    WriteBufSize = 136
    Wrap = 16
    Period = 3
    MsPerSec = 5
    Timeouts <- MCTimeouts
    Seconds <- MCSeconds
    Bits <- MCBits
    SizeWrap = 100000
    InterfaceWrap = 3
    LoopBack = "127.0.0.1"
    DoubleColon = {"::1"}
    Keys = {"k1", "k2"}
    MaxTokens = 2
    Others = {"similar", "different"}
    Similar = {"similar"}
    MaxVersion = 2
    MaxDepth = 2
SPECIFICATION Spec
INVARIANTS PacketsExact TopicsMatch TimersExact PollingSleeps JobsExact DocumentsWhole ValuesFound CoreFound VersionIsKnown
PROPERTY HandedInOrder
