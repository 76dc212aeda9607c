SPECIFICATION FairSpec
CONSTANTS
    MaxInflight = 4
    SequenceSize = 4
    RetryRuns = TRUE
INVARIANTS
    TypeOK
    ReadyMeansDone
    EachStateIsHandledOnce
    DownloadIsWaitedFor
PROPERTIES
    ConnectionGetsReady
