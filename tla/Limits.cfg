SPECIFICATION Spec
CONSTANTS
    None = None
    OneInBasisPoints = 4
    MaxU64 = 6
    admin = admin
    Accounts = {admin}
    e1 = e1
    Eids = {e1}
    a1 = a1
    Addresses = {a1}
    ZeroAddress = a1
    store = store
    Authorities = {store}
    StoreAuthority = store
    OpenPaths <- MCOpenPaths
    Scale <- MCScale
    InitialSupply = 6
    Decimals = {1}
    SharedDecimals = {0}
    SendAmounts = {3}
    MinAmounts = {0}
    MessageAmounts = {1}
    FeeBps = {0}
    TransferFeeChoices <- MCTransferFees
    LimitParams <- MCLimitParams
    OptionItems = {}
    WithdrawAmounts = {}
    Donations = {}
    Composed = {FALSE}
    NewAccounts = {admin}
    Guardians = {admin}
    NewAuthorities = {}
    MaxVerified = 1
    MaxSent = 2
    MaxTime = 2
PROPERTIES PeersAreLimited TrafficIsMetered
