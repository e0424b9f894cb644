SPECIFICATION ExportedSpec
CONSTANTS
    alice = alice
    bob = bob
    Account = {alice, bob}
    Contract = Contract
    NoAddress = NoAddress
    NewAdmins = {alice}
    ActivationDelay = 1
    I128Max = 2
    Amounts = {0, 1, 2}
    Recipients = {alice, bob, Contract}
    Spenders = {bob}
    Cosigners = {bob}
    Caps = {0}
    MaxLedger = 1
    PermitOwners = {bob}
    DividendAmounts = {}
    MaxNonce = 1
    MaxBatch = 2
CHECK_DEADLOCK FALSE
PROPERTIES
    PauseStopsAllTransfers
