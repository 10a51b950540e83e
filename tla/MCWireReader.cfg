SPECIFICATION Spec
CONSTANTS
    Letters = {"M", "U"}
    MaxLength = 9
    Wires <- MCWires
    Known <- MCKnown
    Intrusions = 1
INVARIANTS
    TypeOK
    ReportsWhatWasSent
    EarlyErrorsAreLineEndings
    InSendingOrder
PROPERTIES
    ImplementsTransport
