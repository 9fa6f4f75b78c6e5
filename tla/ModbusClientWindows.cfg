\* The serial client on Windows, where CreateFileW opens the port exclusively.
CONSTANTS
    Kinds = {"serial"}
    Addrs = {a}
    Vals = {v, w}
    NoValue = NoValue
    Absent = {}
    MaxAttempts = 2
    Exclusive = TRUE
    MaxOpen = 2
    MaxLate = 0
SPECIFICATION Spec
PROPERTIES
    ReconnectSucceeds
