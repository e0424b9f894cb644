SPECIFICATION LiveSpec
CONSTANTS
    alice = alice
    bob = bob
    carol = carol
    Account = {alice, bob, carol}
    Contract = Contract
    NoResolver = NoResolver
    Admin = carol
    InitialBalance <- AliceTwo
    Amounts = {1, 2}
    Beneficiaries = {bob, Contract}
    Resolvers = {alice, carol}
    WarningWindow = 1
    MaxEscrows = 2
    MaxLedger = 1
    MaxDisputes = 2
CHECK_DEADLOCK FALSE
INVARIANTS
    TypeOK
    OutcomeRecorded
    LinkIsOpenDispute
    OneDisputePerEscrow
    OpenIndexExact
    DepositorIndexExact
    HoldersExact
PROPERTIES
    ImplementsCustody
    SettlementIsFinal
    RefundClosesDispute
    DisputedEscrowSettles
