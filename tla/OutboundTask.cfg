SPECIFICATION TasksSpec
CONSTANTS
    None = None
    OneInBasisPoints = 4
    MaxU64 = 3
    admin = admin
    keeper = keeper
    Accounts = {admin, keeper}
    Operators = {admin}
    sepolia = sepolia
    base = base
    Eids = {sepolia, base}
    Sepolia = sepolia
    Limits <- MCLimits
    MaxRuns = 2
    a1 = a1
    Addresses = {a1}
    ZeroAddress = a1
    store = store
    Authorities = {store}
    StoreAuthority = store
    OptionItems = {}
    OpenPaths <- MCOpenPaths
    Scale <- MCScale
    InitialSupply = 1
    Decimals = {0}
    SharedDecimals = {0}
    SendAmounts = {1}
    MinAmounts = {0}
    MessageAmounts = {1}
    FeeBps = {}
    TransferFeeChoices <- MCTransferFees
    LimitParams = {None}
    WithdrawAmounts = {}
    Donations = {}
    Composed = {FALSE}
    NewAccounts = {admin, keeper}
    Guardians = {}
    NewAuthorities = {}
    MaxVerified = 1
    MaxSent = 1
    MaxTime = 1
PROPERTIES OutboundLimitsItsPeer
