\* Three targets, one of them the test value, two values to mistake for them
\* (one looks like the right device), the right device and a wrong one; runs, crashes and knobs without bound.
CONSTANTS
    Targets = {400, 450, 500}
    TestValue = 450
    Foreign = {8, 420}
    DeviceTypes = {6, 8}
SPECIFICATION Spec
INVARIANTS
    TypeOK
    RestoredOrReported
    VerdictSound
