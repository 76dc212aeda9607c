CONSTANTS
    Symbol = "btcusdt"
SPECIFICATION Spec
INVARIANTS FramesAreHandledAsMeant OnlyUnnamedOrRefusedIsFatal
CHECK_DEADLOCK FALSE
