SPECIFICATION LiveSpec
CONSTANTS
    alice = alice
    bob = bob
    carol = carol
    Account = {alice, bob, carol}
    Contract = Contract
    NoArbiter = NoArbiter
    NeverOpened = NeverOpened
    Admin = carol
    InitialFunds <- TwoAndStranded
    Amounts = {1}
    Depositors = {alice}
    Parties = {bob}
    Creditors = {carol}
    Arbiters = {carol}
    FeeChoices = {5000, 15000}
    SplitRequests <- Halves
    ShareLists <- TwoParts
    RevenueRequests <- Thirds
    MinEscrowAmount = 1
    Cooldown = 1
    MaxPerDepositor = 1
    MaxEscrows = 1
    AppealWindow = 0
    ExpireAfter = 1
    MaxDisputes = 2
    SplitLists <- Uneven
    PauseChoices = {}
    Intervals = {}
    Limits = {}
    MaxExecutions = 0
    MaxRecurring = 0
    Freezable = {}
    MaxSplits = 0
    MaxMulti = 0
    MaxVestings = 0
    MaxLedger = 2
CHECK_DEADLOCK FALSE
INVARIANTS
    RecordsConsistent
    DisputeKeysAgree
PROPERTIES
    PoolFollowsClaims
    SettlementIsFinal
    DisputeEnds
