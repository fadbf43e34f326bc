CONSTANTS
    Listener = {a, b}
    Spooling = {}
    Peeking = {a}
    Consumers <- NoHistory
    Shrinks = TRUE
    HostTransports <- AtRest
    ChannelCounts = {1, 2}
    MaxSamples = 3
    Garbage = 4
    MaxPacket = 1
    MaxCommands = 3
    MaxInfos = 2
SPECIFICATION Spec
PROPERTIES
    RemovedIsQuiet
    AudioAsTold
    BeforeIsLastTold
    HearsEverySample
