\* Safety, liveness and refinement of the indexer main loop, header
\* goroutine, flush and crash/restart.  No RPC retry is assumed to succeed,
\* except where CatchUpWhenFetchesSucceed says so.
CONSTANTS
    MaxHeight <- MCMaxHeight
    InitHeight <- MCInitHeight
    EarliestHeight <- MCEarliestHeight
    FailureThreshold <- MCFailureThreshold
    MaxRestarts <- MCMaxRestarts
SPECIFICATION Spec
INVARIANT TypeOK
INVARIANT GiveUpOnlyAtStartup
PROPERTY EventuallyReady
PROPERTY CatchUpWhenFetchesSucceed
PROPERTY IndexerRefinement
