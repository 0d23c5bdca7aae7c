SPECIFICATION Spec
CONSTANTS
    None = None
    Eids = {"SEPOLIA", "SOLANA"}
    SolanaEids = {"SOLANA"}
    Pathways <- MCPathways
    Deployer = deployer
    NewOwner = newOwner
    MaxStores = 2
    MaxMishaps = 1
    MaxPackets = 1
INVARIANTS InitBeforeWire OwnerMovesLast NothingStuckOnceWired
PROPERTIES CompleteIsWired
CHECK_DEADLOCK FALSE
