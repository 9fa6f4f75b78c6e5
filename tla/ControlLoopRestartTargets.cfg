\* A setpoint, a mode change and a restart, nothing fails.
CONSTANTS
    DhwRequests = {}
    HeatRequests = {4000}
    ModeRequests = {1}
    PriorityRequests = {}
    OccupancyRequests = {}
    BootDevice <- MCBootDevice
    PanelWrites <- NoPanelWrites
    PrioritySupported = TRUE
    Missing = Missing
    PartialSaves = {}
    QueueRoom = 2
    MaxRequests = 2
    MaxFaults = 0
    MaxPanel = 0
    MaxRestarts = 1
SPECIFICATION Spec
INVARIANTS
    SetpointsSurviveRestart
