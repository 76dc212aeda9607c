SPECIFICATION Spec
CONSTANTS
    Orders = {o1, o2}
    RetryLogon = TRUE
    OrdersMayVanish = TRUE
    NewestOnly = TRUE
SYMMETRY OrderSymmetry
INVARIANTS
    TypeOK
    CounterMatchesInflight
    StaleOrdersAreAskedFor
    OnlyRefusedLogonIsFatal
    ReadyIsSubscribed
    ReadyAnswersAreCurrent
    UndisturbedReadyIsComplete
PROPERTIES
    ImplementsSession
