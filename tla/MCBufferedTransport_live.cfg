SPECIFICATION FairSpec
CONSTANTS
    Streams <- MCLiveStreams
    Coalesce = FALSE
INVARIANTS
    NothingStranded
PROPERTIES
    EventuallySeen
\* A released or unwound handle has nothing left to do.
CHECK_DEADLOCK FALSE
