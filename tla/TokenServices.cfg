SPECIFICATION ServicesSpec
CONSTANTS
    alice = alice
    bob = bob
    Account = {alice, bob}
    Contract = Contract
    NoAddress = NoAddress
    NewAdmins = {alice}
    ActivationDelay = 1
    I128Max = 5
    Amounts = {0, 2}
    Recipients = {alice, bob, Contract}
    Spenders = {bob}
    Cosigners = {}
    Caps = {0}
    MaxLedger = 1
    PermitOwners = {bob, Contract}
    DividendAmounts <- Dividends
    MaxNonce = 1
    MaxBatch = 2
CHECK_DEADLOCK FALSE
CONSTRAINT SmallSurplus
PROPERTIES
    SupplyStaysCovered
    PoolSpentAsApproved
