\* A queue of two, two connect attempts and waits of two and three ticks, one
\* spurious wake-up; the link fails and returns at any I/O.  No fairness on time
\* or on the device in Spec: only kicks need end a wait.  CommandTaken adds
\* both as a premise.
CONSTANTS
    Room = 2
    MaxRetries = 2
    ReconnectTicks = 2
    IntervalTicks = 3
    MaxSpurious = 1
SPECIFICATION Spec
INVARIANTS
    TypeOK
    NoLostWakeup
    KickNeverWaitsForIO
    WaitBounded
PROPERTIES
    KickSuffices
    StopCompletes
    CommandTaken
