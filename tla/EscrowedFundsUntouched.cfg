SPECIFICATION Spec
CONSTANTS
    alice = alice
    bob = bob
    carol = carol
    Account = {alice, bob, carol}
    Contract = Contract
    NoArbiter = NoArbiter
    NeverOpened = NeverOpened
    Admin = carol
    InitialFunds <- AliceThree
    Amounts = {1}
    Depositors = {alice}
    Parties = {bob}
    Creditors = {carol}
    Arbiters = {carol}
    FeeChoices = {}
    SplitRequests <- Halves
    ShareLists <- TwoParts
    RevenueRequests <- Thirds
    MinEscrowAmount = 1
    Cooldown = 1
    MaxPerDepositor = 1
    MaxEscrows = 1
    AppealWindow = 0
    ExpireAfter = 1
    MaxDisputes = 0
    SplitLists <- Uneven
    PauseChoices = {}
    Intervals = {}
    Limits = {}
    MaxExecutions = 0
    MaxRecurring = 0
    Freezable = {}
    MaxSplits = 0
    MaxMulti = 0
    MaxVestings = 0
    MaxLedger = 1
CHECK_DEADLOCK FALSE
PROPERTIES
    EscrowedFundsUntouched
