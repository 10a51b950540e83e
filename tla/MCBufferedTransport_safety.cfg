SPECIFICATION Spec
CONSTANTS
    Streams <- MCAllStreams
    Coalesce = TRUE
INVARIANTS
    TypeOK
    InOrder
    BufferAligned
    NothingBehindBadFrame
    TruthfulWithoutCRLF
PROPERTIES
    ClosedIsFinal
    ImplementsDelivery
\* A released or unwound handle has nothing left to do.
CHECK_DEADLOCK FALSE
