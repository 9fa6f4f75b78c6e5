\* Two clicks and one mishap: a command of another client, a failed request or
\* an outage.
CONSTANTS
    StartModes = {1, 3}
    StartPriorities = {"dhw"}
    ClickModes = {0, 4}
    OtherCommands <- MCOtherCommands
    QueueRoom = 1
    MaxRetries = 1
    MaxClicks = 2
    MaxFaults = 1
    None = None
SPECIFICATION Spec
INVARIANTS
    FirstChoiceShown
PROPERTIES
    PageConverges
    LastClickWins
    OutageShown
