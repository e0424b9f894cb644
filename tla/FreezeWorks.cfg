SPECIFICATION FreezeSpec
CONSTANTS
    alice = alice
    bob = bob
    Account = {alice, bob}
    Contract = Contract
    NoAddress = NoAddress
    NewAdmins = {alice, bob}
    ActivationDelay = 2
    I128Max = 3
    Amounts = {1, 2}
    Recipients = {alice, bob, Contract}
    Spenders = {}
    Cosigners = {alice, Contract}
    Caps = {0, 1, 3}
    MaxLedger = 3
CHECK_DEADLOCK FALSE
INVARIANTS
    FreezeWorks
