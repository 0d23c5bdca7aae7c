SPECIFICATION AnySpec
CONSTANTS
    None = None
    hex = hex
    Sources = {"EVM", "SOLANA"}
    Texts <- MCTexts
    MinTexts <- MCMinTexts
    OptionTexts = {None, hex}
    Base = 2
    Decimals = 2
    SharedDecimals = 1
    InitialBalance = 7
    NativeFees = {1, 2}
    MaxRuns = 2
    RecentFees <- MCRecentFees
    UsedUnits = {0, 1, 9, 21}
    Estimates <- MCEstimates
    ScaleFactors <- MCScaleFactors
    Eids = {"SOLANA", "SEPOLIA"}
    TableEids = {"SOLANA"}
    RetryUnits = {0, 200000}
    RetryPrices = {0, 1}
    Graph <- MCGraph
    SolanaEids = {"SOLANA"}
    UlnProgram = uln
    Libraries = {uln, lib}
    Settings = {old, new}
    MaxChanges = 2
    Contracts = {"AlloOFTUpgradeable", "AlloOFTUpgradeableV2"}
    AlloOFTUpgradeable = "AlloOFTUpgradeable"
    Endpoint = endpoint
    Deployer = deployer
    Safe = safe
    ICS20_PROXY_ADDRESS = ics20
    OtherProxy = other
    MaxImplementations = 4
    MaxProxies = 2
    Operators = {o1, o2}
    SystemProgram = system
    Names = {"", "ALLO"}
    Fees = {0, 1}
    MaxTransactions = 2
INVARIANTS
    AmountsAsTyped SuccessMeansSent QuotingErrorMeansUnsent
    BudgetSuffices EntriesWereInForce RenouncedIsFinal
PROPERTY UpdatesWhatIsGiven
CHECK_DEADLOCK FALSE
