SPECIFICATION Spec
CONSTANTS
    Orders = {o1, o2}
    Requests = {r1, r2, r3, r4}
    NoOrder = none
    ServerErrorsAreFinal = TRUE
SYMMETRY ActionSymmetry
INVARIANTS
    EveryRequestIsAnsweredOnce
    AcceptedOrdersReachedTheExchange
    RejectedOrdersNeverLive
    AcceptedCancelsTookHold
