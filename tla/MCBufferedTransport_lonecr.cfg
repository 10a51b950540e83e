SPECIFICATION Spec
CONSTANTS
    Streams <- MCFollowedStreams
    Coalesce = TRUE
INVARIANTS
    ParserErrorIsTruthful
\* A released or unwound handle has nothing left to do.
CHECK_DEADLOCK FALSE
