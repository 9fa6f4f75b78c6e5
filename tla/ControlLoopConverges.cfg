\* Two requests, one failed transfer, one knob and one restart, in any order,
\* then peace.
CONSTANTS
    DhwRequests = {5205}
    HeatRequests = {}
    ModeRequests = {0, 1, 2, 3}
    PriorityRequests = {}
    OccupancyRequests = {}
    BootDevice <- MCBootDevice
    PanelWrites <- MCPanelWrites
    PrioritySupported = TRUE
    Missing = Missing
    PartialSaves = {}
    QueueRoom = 2
    MaxRequests = 2
    MaxFaults = 1
    MaxPanel = 1
    MaxRestarts = 1
SPECIFICATION Spec
INVARIANTS
    CleanTurnEnforces
PROPERTIES
    Converges
