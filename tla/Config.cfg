SPECIFICATION TasksSpec
CONSTANTS
    None = None
    OneInBasisPoints = 4
    MaxU64 = 3
    admin = admin
    keeper = keeper
    Accounts = {admin, keeper}
    e1 = e1
    e2 = e2
    Eids = {e1, e2}
    Sepolia = e1
    Operators = {admin}
    Limits <- MCLimits
    MaxRuns = 1
    a1 = a1
    Addresses = {a1}
    ZeroAddress = a1
    store = store
    Authorities = {store}
    StoreAuthority = store
    gas = gas
    OptionItems = {gas}
    OpenPaths <- MCOpenPaths
    Scale <- MCScale
    InitialSupply = 1
    Decimals = {0}
    SharedDecimals = {0}
    SendAmounts = {1}
    MinAmounts = {0}
    MessageAmounts = {1}
    FeeBps = {}
    TransferFeeChoices <- MCTransferFees
    LimitParams = {}
    WithdrawAmounts = {}
    Donations = {}
    Composed = {TRUE, FALSE}
    NewAccounts = {admin, keeper}
    Guardians = {keeper}
    NewAuthorities = {}
    MaxVerified = 1
    MaxSent = 1
    MaxTime = 0
PROPERTIES PauseStopsTraffic EnforcedOptionsTravel InboundLimitsItsPeer
