SPECIFICATION Spec
CONSTANTS
    MaxRetries = 1
    MaxSequence = 7
INVARIANTS
    TypeOK
    LiveBooksFollow
    WaitingBooksAreAskedFor
PROPERTIES
    ImplementsBook
