SPECIFICATION Spec
CONSTANTS
    alice = alice
    bob = bob
    Account = {alice, bob}
    Contract = Contract
    NoAddress = NoAddress
    NewAdmins = {alice, bob}
    ActivationDelay = 2
    I128Max = 2
    Amounts = {0, 1, 2}
    Recipients = {alice, bob, Contract}
    Spenders = {bob}
    Cosigners = {Contract}
    Caps = {0, 1, 2}
    MaxLedger = 2
CHECK_DEADLOCK FALSE
INVARIANTS
    TypeOK
    SupplyIsSum
    SupplyWithinCap
    AllowanceIndexed
PROPERTIES
    PoolNeverDrained
    PauseStopsTransfers
    DelayHolds
