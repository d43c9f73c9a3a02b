\* One round, three participants, both majorities, burning enforced; handlers
\* called without a storage layer, so an incorrect reveal is penalised.
CONSTANTS
    a1 = a1  a2 = a2  a3 = a3  h1 = h1  h2 = h2  m1 = m1  m2 = m2
    Accounts <- MCAccounts
    Hashes <- MCHashes
    MetadataIds <- MCOneRound
    Seeds = {0}
    MaxParticipants = 3
    RevealWindowLength = 1
    NoHash = NoHash
    NoWindow = NoWindow
    FundsToLock = 1
    Reward = 2
    EnforceBurningTokens = TRUE
    ExistentialDeposit = 0
    InitialBalance = 1
    DispatchRollsBack = FALSE
    MaxBlock = 5
SPECIFICATION Spec
INVARIANT TypeOK CommitIndexInSync LocksMatchCommitments
PROPERTY SettlementMatchesSpec RevealWindowClosesWithOutcome WindowEventuallyDecided RoundLifecycleRefined
\* The chain stops only at the explored horizon, once no window is open.
CHECK_DEADLOCK FALSE
