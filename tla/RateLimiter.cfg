SPECIFICATION EitherSpec
CONSTANTS
    None = None
    OneInBasisPoints = 10
    MaxU64 = 4
    Amounts = {1, 2}
    ConfigParams <- MCConfigParams
    MaxTime = 3
    MaxAllowance = 4
    Nonces = {1, 2}
    Sizes = {1, 2, 3}
    Settings <- MCSettings
    SendsBack = {1}
    MaxElapsed = 4
INVARIANT FlowWithinAllowance
PROPERTIES FillsByItself DelayedNotLost
