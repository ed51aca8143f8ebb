CONSTANTS
    Payloads <- MCPayloads
    Hrps <- MCHrps
    Bech32Prefix <- MCBech32Prefix
    NextArgs <- MCNextArgs
SPECIFICATION Spec
INVARIANT LabelsMatchAddresses
