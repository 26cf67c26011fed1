CONSTANTS
    s1 = s1
    s2 = s2
    r = r
    Cores = {0, 1, 2}
    Tasks <- MCTasks
    CoreOf <- MCCoreOf
    PortOf <- MCPortOf
    TargetOf <- MCTargetOf
    ChannelOf <- MCChannelOf
    Receives <- MCReceives
    NOC_PACKET_SLOTS = 5
    PacketsArg <- MCPacketsArg
    TurnsPerSlot = 1
    Packets = 2
    MessagesOf <- MCMessagesOf
    MaxMalformed = 1
    NetSlots = 1
    Created = {s1, s2}
    MayTimeOut = {s1}
    MayDestroy = {r}
    NULL = NULL
    FREED = FREED
CHECK_DEADLOCK FALSE
SPECIFICATION FairSpec
INVARIANTS
    BuffersConserved
    MessageIntact
    AckIsForThisMessage
    FlowControlled
PROPERTIES
    SendsComplete
