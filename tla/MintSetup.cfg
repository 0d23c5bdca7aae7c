SPECIFICATION Spec
CONSTANTS
    none = none
    alice = alice
    bob = bob
    token = token
    None = none
    Operators = {alice, bob}
    Others = {}
    Existing = {token}
    FirstAuthorities <- MCFirstAuthorities
    MinterLists <- MCMinterLists
    FreezeAuthorities <- MCFreezeAuthorities
    MaxSigners = 11
    MaxRuns = 2
INVARIANTS
    MintAuthorityAlive
    FilesAreUsable
    OnlyStoreMints
    ListedOperatorKeepsControl
    CreatorLetsGo
CHECK_DEADLOCK FALSE
