\* Two processes, any number of starts and crashes, one save, on either system.
CONSTANTS
    Proc = {p1, p2}
    CommandLines <- MCCommandLines
    MaxSaves = 1
    MaxAttempts = 3
    Keys = 2
    Garbled = Garbled
    Panel = Panel
SPECIFICATION Spec
INVARIANTS
    OneController
    OffIsLast
PROPERTIES
    DeviceOwned
    SettingsReturn
    SignalEnds
