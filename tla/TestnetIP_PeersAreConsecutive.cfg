CONSTANTS
    StartingIP <- MCStartingIP
    NumValidators <- MCNumValidators
SPECIFICATION Spec
INVARIANT PeersAreConsecutive
