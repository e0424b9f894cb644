SPECIFICATION LiveSpec
CONSTANTS
    alice = alice
    bob = bob
    carol = carol
    Account = {alice, bob, carol}
    Contract = Contract
    NoResolver = NoResolver
    Admin = carol
    InitialBalance <- AliceTwo
    Amounts = {1}
    Beneficiaries = {bob, Contract}
    Resolvers = {alice, carol, Contract}
    WarningWindow = 1
    MaxEscrows = 1
    MaxLedger = 3
    MaxDisputes = 1
CHECK_DEADLOCK FALSE
PROPERTIES
    EveryDisputeEnds
