SPECIFICATION Spec
CONSTANTS
    Symbol = {s1, s2, s3}
    Discarded = {s3}
    MaxSubscriptions = 2
    Halting = {s1}
    Downloads <- MCDownloads
    Subscribes <- MCLists
INVARIANTS
    DisabledMarketsAreHalted
