CONSTANTS
    Listeners = {l1, l2}
    Callers = {ui, audio}
    noListener = noListener
    noCaller = noCaller
    SlotCount = 2
    UI = ui
    Views = {v1}
    MaxValue = 1
    MaxInput = 2
    MaxUpdates = 2
SPECIFICATION ParamSpec
INVARIANTS
    RemovedIsQuiet
    AddedIsKept
    StaleIsPending
    HostAgrees
PROPERTY ViewsCatchUp
