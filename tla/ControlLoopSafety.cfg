\* Three requests (a round trip between two modes with a setpoint in it), one
\* failed transfer and one restart, in any order; requests out of range among them.
CONSTANTS
    DhwRequests = {3990, 5205}
    HeatRequests = {4000, 6310}
    ModeRequests = {0, 1, 2, 3, 7}
    PriorityRequests = {0, 1}
    OccupancyRequests = {1, 3}
    BootDevice <- MCBootDevice
    PanelWrites <- NoPanelWrites
    PrioritySupported = TRUE
    Missing = Missing
    PartialSaves <- MCPartialSaves
    QueueRoom = 2
    MaxRequests = 3
    MaxFaults = 1
    MaxPanel = 0
    MaxRestarts = 1
SPECIFICATION Spec
INVARIANTS
    TypeOK
    LegalTargets
    SetpointKept
PROPERTIES
    RestartKeepsMode
