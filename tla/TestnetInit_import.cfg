CONSTANTS
    NumValidators <- MCNumValidators
    NumNormalAccounts <- MCNumNormalAccounts
    MaxFailures <- MCMaxFailures
    MaxRuns <- MCMaxRuns
    NodeDirPrefixes <- MCNodeDirPrefixes
SPECIFICATION Spec
INVARIANT ImportFailureReturnsError
