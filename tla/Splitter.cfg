SPECIFICATION Spec
CONSTANTS
    alice = alice
    bob = bob
    carol = carol
    Account = {alice, bob, carol}
    Contract = Contract
    Admin = bob
    InitialBalance <- SixTokens
    Amounts = {3}
    Beneficiaries = {bob, carol}
    RecipientLists <- Lists
    WarningWindow = 0
    MaxEscrows = 2
    MaxSplits = 2
    MaxRecipients = 3
    MaxBulk = 2
    MaxLedger = 0
CHECK_DEADLOCK FALSE
CONSTRAINT ThreeClaims
INVARIANTS
    StatsMatchRecords
    RecipientIndexExact
PROPERTIES
    ImplementsCustody
    FairShares
