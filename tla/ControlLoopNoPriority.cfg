\* Firmware without the priority register; nothing else fails.
CONSTANTS
    DhwRequests = {}
    HeatRequests = {}
    ModeRequests = {3}
    PriorityRequests = {}
    OccupancyRequests = {}
    BootDevice <- MCBootDevice
    PanelWrites <- NoPanelWrites
    PrioritySupported = FALSE
    Missing = Missing
    PartialSaves = {}
    QueueRoom = 1
    MaxRequests = 1
    MaxFaults = 0
    MaxPanel = 0
    MaxRestarts = 0
SPECIFICATION Spec
PROPERTIES
    EventuallyOnline
