SPECIFICATION FairSpec
CONSTANTS
    Orders = {o1}
    RetryLogon = FALSE
    OrdersMayVanish = FALSE
    NewestOnly = FALSE
CHECK_DEADLOCK FALSE
INVARIANTS
    ReadyAnswersAreCovered
    AwaitedIsUnderWay
PROPERTIES
    AcceptedLoginCompletes
    StaleOrdersAreSent
