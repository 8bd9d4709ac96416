\* Every type, cut at every length and with one byte more than it has.
SPECIFICATION Spec
CONSTANT
    Base = 3
INVARIANTS
    NoOverread
    RoundTrip
    CutIsRejected
CHECK_DEADLOCK FALSE
