SPECIFICATION Spec
CONSTANTS
    None = None
    OneInBasisPoints = 4
    MaxU64 = 15
    admin = admin
    other = other
    Accounts = {admin, other}
    e1 = e1
    Eids = {e1}
    zero = zero
    a1 = a1
    Addresses = {zero, a1}
    ZeroAddress = zero
    store = store
    wallet = wallet
    Authorities = {store, wallet}
    StoreAuthority = store
    OpenPaths <- MCOpenPaths
    Scale <- MCScale
    InitialSupply = 6
    Decimals = {1}
    SharedDecimals = {0}
    SendAmounts = {3, 5}
    MinAmounts = {2}
    MessageAmounts = {1, 2}
    FeeBps = {0, 2}
    TransferFeeChoices <- MCTransferFees
    LimitParams = {}
    OptionItems = {}
    WithdrawAmounts = {1}
    Donations = {1}
    Composed = {TRUE}
    NewAccounts = {admin}
    Guardians = {}
    NewAuthorities = {wallet}
    MaxVerified = 2
    MaxSent = 2
    MaxTime = 1
INVARIANTS TypeOK FlowsBalance EscrowCoversTvl
PROPERTIES ReleasesClearPackets ComposeTellsCredit
