CONSTANTS
    NumCommands <- MCNumCommands
    FlagValues <- MCFlagValues
    MinimumValue <- MCMinimumValue
SPECIFICATION Spec
INVARIANT TypeOK
INVARIANT EveryGasAdjustmentRaised
