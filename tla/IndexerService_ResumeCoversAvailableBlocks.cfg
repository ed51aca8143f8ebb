CONSTANTS
    MaxHeight <- MCMaxHeight
    InitHeight <- MCInitHeight
    EarliestHeight <- MCEarliestHeight
    FailureThreshold <- MCFailureThreshold
    MaxRestarts <- MCMaxRestarts
SPECIFICATION Spec
INVARIANT ResumeCoversAvailableBlocks
