SPECIFICATION Spec
CONSTANTS
    right = right
    wrong = wrong
    Coalesce = TRUE
    Accepted = {right}
    Offers <- MCOffers
    ClientWrites = 3
    ServerSends = 2
    Retries = 2
INVARIANTS
    ReadsOnFromConnect
    LoginsAreOffered
    SessionsMatchLogins
\* The server may be gone.
CHECK_DEADLOCK FALSE
