SPECIFICATION Spec
CONSTANTS
    alice = alice
    bob = bob
    carol = carol
    Account = {alice, bob, carol}
    Contract = Contract
    NoArbiter = NoArbiter
    NeverOpened = NeverOpened
    Admin = carol
    InitialFunds <- AliceThree
    Amounts = {1}
    Depositors = {alice}
    Parties = {carol}
    Creditors = {carol}
    Arbiters = {}
    FeeChoices = {}
    SplitRequests <- Halves
    ShareLists <- TwoParts
    RevenueRequests <- Thirds
    MinEscrowAmount = 1
    Cooldown = 1
    MaxPerDepositor = 2
    MaxEscrows = 2
    AppealWindow = 0
    ExpireAfter = 1
    MaxDisputes = 0
    SplitLists <- Uneven
    PauseChoices = {TRUE, FALSE}
    Intervals = {0, 1}
    Limits = {0, 1}
    MaxExecutions = 2
    MaxRecurring = 1
    Freezable = {bob}
    MaxSplits = 1
    MaxMulti = 1
    MaxVestings = 1
    MaxLedger = 1
CHECK_DEADLOCK FALSE
CONSTRAINT TwoClaims
INVARIANTS
    IndexesExact
PROPERTIES
    CounterFollowsRecords
    PoolFollowsClaims
    RecurringsInStep
