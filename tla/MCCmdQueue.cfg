\* A ring of four slots: three pending commands of two kinds, the indices
\* wrap, and both threads can lag a full lap behind.  No counter is bounded:
\* the threads push and pop for ever.
CONSTANTS
    Command = {c1, c2}
    Capacity = 4
    Nothing = Nothing
    Torn = Torn
SPECIFICATION Spec
INVARIANTS
    TypeOK
    RingOrder
    NoSlotRace
PROPERTIES
    ImplementsFifo
