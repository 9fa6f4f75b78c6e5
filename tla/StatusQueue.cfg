\* Three slots and counters that wrap at six; ten snapshots go once round the
\* counters and more than three times round the ring.
CONSTANTS
    Capacity = 3
    Modulus = 6
    MaxPush = 10
    Torn = Torn
SPECIFICATION Spec
INVARIANTS
    SnapshotWhole
PROPERTIES
    NeverBackwards
    LatestShown
