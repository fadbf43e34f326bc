CONSTANTS
    Listener = {a}
    Spooling = {a}
    Peeking = {a}
    Consumers <- Growing
    Shrinks = FALSE
    HostTransports <- AtRest
    ChannelCounts = {2}
    MaxSamples = 4
    Garbage = 5
    MaxPacket = 2
    MaxCommands = 3
    MaxInfos = 1
SPECIFICATION Spec
INVARIANTS
    HistoryInPlace
    NothingForgotten
PROPERTY
    BatchFinishes
