SPECIFICATION FairSpec
CONSTANTS
    nobody = nobody
    Coalesce = FALSE
    Credentials <- MCCredentials
    Accepted <- MCCredentials
    ClientSends = 0
    ServerSends = 0
    Retries = 0
    Offers <- MCOffers
    Visits = 4
INVARIANTS
    CleanEnd
    SoundWithoutBreak
    AnswersInStep
    LoopHearsTheSession
PROPERTIES
    BothEnd
    TaskEnds
\* The programs end.
CHECK_DEADLOCK FALSE
