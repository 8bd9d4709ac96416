\* Six messages, one of them unparsed, in packets of up to three, whole or cut
\* short, arriving in any order, any number of times.
SPECIFICATION Spec
CONSTANTS
    MaxSeq = 6
    MaxCount = 3
    MaxPackets = 2
    Unparsed = {2}
    SnapshotInterval = 2
INVARIANTS
    InOrderOnce
    DeficitCounted
    QueueExact
    Drained
    StopComesLate
PROPERTIES
    EnqueuedGetsProcessed
    ShutdownCompletes
