\* Two concurrent rounds sharing two accounts and their balances.
CONSTANTS
    a1 = a1  a2 = a2  a3 = a3  h1 = h1  h2 = h2  m1 = m1  m2 = m2
    Accounts <- MCTwoAccounts
    Hashes <- MCHashes
    MetadataIds <- MCTwoRounds
    Seeds = {0}
    MaxParticipants = 2
    RevealWindowLength = 1
    NoHash = NoHash
    NoWindow = NoWindow
    FundsToLock = 1
    Reward = 2
    EnforceBurningTokens = FALSE
    ExistentialDeposit = 0
    InitialBalance = 2
    DispatchRollsBack = TRUE
    MaxBlock = 3
SPECIFICATION Spec
INVARIANT LocksMatchCommitments
PROPERTY SettlementMatchesSpec RevealWindowClosesWithOutcome RoundLifecycleRefined
\* The chain stops only at the explored horizon, once no window is open.
CHECK_DEADLOCK FALSE
