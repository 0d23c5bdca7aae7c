SPECIFICATION Spec
CONSTANTS
    None = None
    OneInBasisPoints = 10
    MaxU64 = 40
    Rates = {1, 3}
    AmountsAsked = {1, 3, 7, 12}
    MinAmounts = {None, 2}
    FeeBps = {0, 3}
    TransferFeeChoices <- MCTransferFees
INVARIANT MessagesCarryShared
