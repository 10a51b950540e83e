SPECIFICATION Growth
CONSTANTS
    Letters = {"M"}
    MaxLength = 1
    Starts <- MCStarts
    Pieces <- MCPieces
    MaxPieces = 6
    Completions <- MCCompletions
INVARIANTS
    FindsFrames
    IncompleteIsViable
PROPERTIES
    DecisionsStand
\* The buffer has reached its bound.
CHECK_DEADLOCK FALSE
