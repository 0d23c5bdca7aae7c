SPECIFICATION OmniSpec
CONSTANTS
    None = None
    OneInBasisPoints = 4
    MaxU64 = 31
    admin = admin
    Accounts = {admin}
    e1 = e1
    e2 = e2
    Eids = {e1}
    zero = zero
    a1 = a1
    Addresses = {zero, a1}
    ZeroAddress = zero
    store = store
    Authorities = {store}
    StoreAuthority = store
    OpenPaths <- MCOpenPaths
    Scale <- MCScale
    InitialSupply = 0
    Decimals = {1}
    SharedDecimals = {0}
    SendAmounts = {3, 4}
    MinAmounts = {0}
    MessageAmounts = {}
    FeeBps = {2}
    TransferFeeChoices <- MCTransferFees
    LimitParams = {}
    OptionItems = {}
    WithdrawAmounts = {1}
    Donations = {}
    Composed = {FALSE}
    NewAccounts = {admin}
    Guardians = {}
    NewAuthorities = {}
    MaxVerified = 1
    MaxSent = 2
    MaxTime = 1
    Chains = {e1, e2}
    user = user
    owner = owner
    p1 = p1
    p2 = p2
    Users = {user}
    Owner = owner
    Proxies = {p1, p2}
    FirstProxy = p1
    ConversionRate = 2
    Amounts = {5}
    MaxTransfers = 2
    MaxRotations = 2
    ContractOf <- MCContractOf
PROPERTY BridgeKeepsLedger
CHECK_DEADLOCK FALSE
