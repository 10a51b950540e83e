SPECIFICATION FairSpec
CONSTANTS
    Coalesce = TRUE
    Credentials = {right, wrong}
    Accepted = {right}
    ClientSends = 4
    ServerSends = 4
    Retries = 2
INVARIANTS
    TypeOK
    Agreement
    SessionPerLogin
    ServerHearsAll
    ClientHearsAll
    OneConnected
PROPERTIES
    ImplementsConversation
    ConnectSettles
    WaitSettles
\* Both ends may be gone.
CHECK_DEADLOCK FALSE
