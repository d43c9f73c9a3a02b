\* A positive existential deposit and an account committing its whole free balance.
CONSTANTS
    a1 = a1  a2 = a2  a3 = a3  h1 = h1  h2 = h2  m1 = m1  m2 = m2
    Accounts <- MCAccounts
    Hashes <- MCHashes
    MetadataIds <- MCOneRound
    Seeds = {0}
    MaxParticipants = 3
    RevealWindowLength = 1
    NoHash = NoHash
    NoWindow = NoWindow
    FundsToLock = 1
    Reward = 2
    EnforceBurningTokens = FALSE
    ExistentialDeposit = 1
    InitialBalance = 1
    DispatchRollsBack = TRUE
    MaxBlock = 5
SPECIFICATION Spec

PROPERTY SettlementMatchesSpec
\* The chain stops only at the explored horizon, once no window is open.
CHECK_DEADLOCK FALSE
