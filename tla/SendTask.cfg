SPECIFICATION Spec
CONSTANTS
    None = None
    OneInBasisPoints = 10
    MaxU64 = 40
    Rates = {1, 3, 4}
    AmountsAsked = {1, 2, 3, 4, 5, 7, 8, 11, 12, 13, 19, 30, 37}
    MinAmounts = {None, 2}
    FeeBps = {0, 3}
    TransferFeeChoices <- MCTransferFees
INVARIANTS DebitWithinAsked DetailsAddUp MessageCarriesAll DebitIsLeast
    DefaultMinimumIsExact
