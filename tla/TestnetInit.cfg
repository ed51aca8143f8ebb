CONSTANTS
    NumValidators <- MCNumValidators
    NumNormalAccounts <- MCNumNormalAccounts
    MaxFailures <- MCMaxFailures
    MaxRuns <- MCMaxRuns
    NodeDirPrefixes <- MCNodeDirPrefixes
SPECIFICATION Spec
INVARIANT TypeOK
INVARIANT GenesisBalancesDistinct
INVARIANT GenesisFilesCanonical
INVARIANT GentxsWithinRunNodes
