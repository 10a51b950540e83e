SPECIFICATION Spec
CONSTANTS
    Symbols <- MCSymbols
    Messages <- MCMessages
    Frames <- MCFrames
    MaxHops = 3
    MaxLength = 12
INVARIANTS
    TransactionSurvives
\* A message that has gone far enough, or is none any more, stops.
CHECK_DEADLOCK FALSE
