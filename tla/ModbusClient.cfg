\* Both clients, two registers and one the firmware lacks, three attempts, and
\* one answer that comes late; a device file can be opened again (POSIX), until
\* the process has two descriptors open.
CONSTANTS
    Kinds = {"tcp", "serial"}
    Addrs = {a, b, x}
    Vals = {v, w}
    NoValue = NoValue
    Absent = {x}
    MaxAttempts = 3
    Exclusive = FALSE
    MaxOpen = 2
    MaxLate = 1
SPECIFICATION Spec
INVARIANTS
    TypeOK
    ReadGenuine
    WriteVerified
    OneLateAnswerHarmless
PROPERTIES
    CallsReturn
    SilenceNoticed
