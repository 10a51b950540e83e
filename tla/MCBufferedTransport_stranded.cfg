SPECIFICATION FairSpec
CONSTANTS
    Streams <- MCLiveStreams
    Coalesce = TRUE
PROPERTIES
    EventuallySeen
\* A released or unwound handle has nothing left to do.
CHECK_DEADLOCK FALSE
