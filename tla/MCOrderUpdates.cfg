CONSTANTS
    Orders = {o1}
    Asks <- MCAsks
    Foreign <- MCForeign
    Size = 2
    PartialCancels = {"canceled", "partial-canceled"}
    NoOrder = NoOrder
SPECIFICATION Spec
INVARIANTS
    TypeOK
    UpdatesSayWhatWasAsked
    PostOnlyNeverTakes
    StatusTellsTheEnd
    OpenOrdersAreKnown
    FillsComeWithUpdates
    StreamTimesTellTheOrder
