SPECIFICATION DeliverySpec
CONSTANTS
    None = None
    OneInBasisPoints = 4
    MaxU64 = 6
    admin = admin
    Accounts = {admin}
    e1 = e1
    Eids = {e1}
    a1 = a1
    Addresses = {a1}
    ZeroAddress = a1
    store = store
    wallet = wallet
    Authorities = {store, wallet}
    StoreAuthority = store
    executor = executor
    retrier = retrier
    Workers = {executor, retrier}
    Executor = executor
    OpenPaths <- MCOpenPaths
    Scale <- MCScale
    InitialSupply = 4
    Decimals = {1}
    SharedDecimals = {0}
    SendAmounts = {4}
    MinAmounts = {0}
    MessageAmounts = {1}
    FeeBps = {4}
    TransferFeeChoices <- MCTransferFees
    LimitParams = {}
    OptionItems = {}
    WithdrawAmounts = {}
    Donations = {}
    Composed = {TRUE, FALSE}
    NewAccounts = {admin}
    Guardians = {}
    NewAuthorities = {wallet}
    MaxVerified = 2
    MaxSent = 1
    MaxTime = 1
INVARIANT ReceivedOnce
PROPERTIES DeliveredWhenPossible
