SPECIFICATION Spec
CONSTANTS
    Enabled = TRUE
    DEFAULT_BACKOFF = 2
    BLOCKED_BACKOFF = 5
    Offset = 4
    Remains <- MCRemains
    Expires <- MCExpires
    Horizon = 8
INVARIANTS
    ExhaustedQuotaIsRespected
    BlockIsNotCutShort
PROPERTIES
    SuspensionIsNotShortened
