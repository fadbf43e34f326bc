CONSTANTS
    Listener = {a}
    Spooling = {a}
    Peeking = {}
    Consumers = {}
    Shrinks = FALSE
    HostTransports <- Hosts
    ChannelCounts = {1}
    MaxSamples = 3
    Garbage = 4
    MaxPacket = 0
    MaxCommands = 2
    MaxInfos = 0
    FifoSize = 2
    FifoLeast = 1
    PacketCapacity = 1
    MaxCalls = 4
    MaxCallSize = 2
SPECIFICATION StreamSpec
INVARIANT
    CommandsAreApplied
PROPERTIES
    PlayheadIsRight
    StreamEnds
