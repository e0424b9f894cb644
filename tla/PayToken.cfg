SPECIFICATION Spec
CONSTANTS
    alice = alice
    bob = bob
    Account = {alice, bob}
    Contract = Contract
    NoAddress = NoAddress
    NewAdmins = {alice, bob}
    ActivationDelay = 1
    I128Max = 1
    Amounts <- Signs
    Caps = {1}
    Recipients = {bob, Contract}
    Owners = {bob}
    Spenders = {alice, bob}
    Batches <- MixedBatches
    Approvals <- MixedApprovals
    MaxNonce = 1
    MaxLedger = 2
CHECK_DEADLOCK FALSE
INVARIANTS
    HoldersCovered
    AllowanceIndexExact
PROPERTIES
    SupplyFollowsBalances
