CONSTANTS
    Payloads <- MCPayloads
    Hrps <- MCHrps
    Bech32Prefix <- MCBech32Prefix
    NextArgs <- MCNextArgs
    MaxHeight <- MCMaxHeight
    Args <- MCArgs
SPECIFICATION Spec
INVARIANT TypeOK
PROPERTY RefusesExactlyUnservable
PROPERTY PrintsNullExactlyUnstored
