SPECIFICATION LiveSpec
CONSTANTS
    alice = alice
    bob = bob
    Account = {alice, bob}
    Contract = Contract
    InitialBalance <- TwoEach
    Amounts = {1}
    Intervals = {1, 2}
    MaxRecurring = 2
    MaxLedger = 3
CHECK_DEADLOCK FALSE
INVARIANTS
    NeverChargedAhead
    PayerIndexExact
PROPERTIES
    CancelIsFinal
    ArrearsAreCollected
