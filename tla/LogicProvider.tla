---------------------------- MODULE LogicProvider ----------------------------
(***************************************************************************)
(* The logic-provider pallet (pallets/logic-provider/src/lib.rs) together  *)
(* with the commitments pallet it drives and the balance locks it takes:   *)
(* the on-chain commit-reveal consensus engine.                            *)
(*                                                                         *)
(* One step is one dispatched extrinsic or one block's on_finalize hook.   *)
(* A dispatched extrinsic that returns an error leaves no storage effect   *)
(* (FRAME wraps every dispatch in a storage layer), so each handler is an  *)
(* action on its success path and its guard is the conjunction of the     *)
(* handler's checks.  The hook calls issue_rewards directly, outside any   *)
(* storage layer, so there partial effects are kept.                       *)
(***************************************************************************)
EXTENDS Commitments, Integers, SequencesExt, FiniteSets

CONSTANTS
    MetadataIds,          \* round keys (MetadataId, u64)
    FundsToLock,          \* Config::FundsToLock
    Reward,               \* Config::Reward
    EnforceBurningTokens, \* Config::EnforceBurningTokens
    ExistentialDeposit,   \* pallet_balances::Config::ExistentialDeposit
    InitialBalance,       \* genesis free balance of every account
    DispatchRollsBack,    \* TRUE: extrinsics run inside a storage layer
    MaxBlock              \* horizon: blocks explored while no window is open

ASSUME /\ FundsToLock \in Nat \ {0} /\ Reward \in Nat
       /\ EnforceBurningTokens \in BOOLEAN /\ DispatchRollsBack \in BOOLEAN
       /\ ExistentialDeposit \in Nat /\ InitialBalance \in Nat
       /\ MaxBlock \in Nat

VARIABLES
    blockNumber,             \* frame_system::block_number
    commits,                 \* pallet_commitments::Commits
    commitmentBlockNumbers,  \* CommitmentBlockNumbers: <<account, block>>
    revealWindow,            \* pallet_commitments::RevealWindow (start)
    roundStates,             \* RoundStates ("None" when absent)
    processedHashes,         \* ProcessedHashes
    majorityType,            \* MajorityType
    freeBalance,             \* free balance of each account
    locks                    \* ids of the balance locks held by each account

vars == <<blockNumber, commits, commitmentBlockNumbers, revealWindow,
          roundStates, processedHashes, majorityType, freeBalance, locks>>

RoundStateValues == {"None", "Completed", "Disputed", "ManuallyResolved"}
Majorities == {"TwoThirds", "OneHalf"}

(* Majority::to_ratio, as <<numerator, denominator>>.                      *)
ToRatio(majority) == IF majority = "OneHalf" THEN <<50, 100>> ELSE <<66, 100>>

(* Ratio::new_raw(n, d) > r for positive denominators.                     *)
RatioGreater(n, d, r) == n * r[2] > r[1] * d

(* The storage of both pallets as one record, so that the handlers that    *)
(* chain several helpers (issue_rewards, the hook) can thread it.          *)
Chain ==
    [commits |-> commits, blocks |-> commitmentBlockNumbers,
     window |-> revealWindow, state |-> roundStates,
     processed |-> processedHashes, free |-> freeBalance, locks |-> locks]

SetChain(s) ==
    /\ commits' = s.commits
    /\ commitmentBlockNumbers' = s.blocks
    /\ revealWindow' = s.window
    /\ roundStates' = s.state
    /\ processedHashes' = s.processed
    /\ freeBalance' = s.free
    /\ locks' = s.locks

-----------------------------------------------------------------------------
(* Balances.  Every lock of this pallet has amount FundsToLock and the     *)
(* frozen amount is the largest lock.                                      *)
Frozen(lk, a) == IF lk[a] = {} THEN 0 ELSE FundsToLock

(* Fault variant of ReleaseTokens: one lock id shared by all rounds.      *)
ReleaseTokensAllRounds(s, m, a) == [s EXCEPT !.locks[a] = {}]

(* release_tokens: remove_lock(metadata_id, who).                          *)
ReleaseTokens(s, m, a) == [s EXCEPT !.locks[a] = @ \ {m}]

(* burn_tokens: settle(burn(FundsToLock), KeepAlive).  settle fails, and   *)
(* the burn is only logged, when the free balance is short, when it would  *)
(* drop below the existential deposit, or below the frozen amount.         *)
BurnTokens(s, a) ==
    LET bal == s.free[a]
        newFree == bal - FundsToLock
    IN IF /\ bal >= FundsToLock
          /\ newFree >= ExistentialDeposit \/ bal < ExistentialDeposit
          /\ newFree >= Frozen(s.locks, a)
       THEN [s EXCEPT !.free[a] = newFree]
       ELSE s

(* do_issue_rewards: mint `reward` to every entry of `winners`.            *)
DoIssueRewards(s, winners, reward) ==
    [s EXCEPT !.free = FoldLeft(LAMBDA f, a : [f EXCEPT ![a] = @ + reward],
                                @, winners)]

(* release_tokens_of_participants: every submitter in Commits[m].          *)
ReleaseTokensOfParticipants(s, m) ==
    FoldLeft(LAMBDA t, c : ReleaseTokens(t, m, c.submitter), s, s.commits[m])

(* Fault variant of BurnEligibleAccountTokens: EnforceBurningTokens is    *)
(* ignored, so late revealers of the right hash keep their stake.          *)
BurnEligibleIgnoresEnforce(s, correctHash, m) ==
    LET eligible == SelectSeq(s.commits[m], LAMBDA c : c.fulfillment # correctHash)
    IN FoldLeft(LAMBDA t, c : BurnTokens(t, c.submitter), s, eligible)

(* burn_eligible_account_tokens: wrong answer, or (when enforced) not      *)
(* revealed in the reveal period.  A commitment never revealed has         *)
(* fulfillment None, which differs from Some(correct_hash).                *)
BurnEligibleAccountTokens(s, correctHash, m) ==
    LET eligible == SelectSeq(s.commits[m],
                      LAMBDA c : \/ c.fulfillment # correctHash
                                 \/ EnforceBurningTokens /\ ~c.inRevealPeriod)
    IN FoldLeft(LAMBDA t, c : BurnTokens(t, c.submitter), s, eligible)

-----------------------------------------------------------------------------
(* get_most_frequent_hash.  NoHash stands for ConsensusNotReached.  Which  *)
(* of several equally frequent hashes max_by_key returns does not matter:  *)
(* a tied hash has at most half of the votes and fails both thresholds.    *)
MostFrequentHash(final, force, majority) ==
    IF force # NoHash THEN force
    ELSE LET hs == {final[i][2] : i \in DOMAIN final}
             Count(h) == Cardinality({i \in DOMAIN final : final[i][2] = h})
             top == CHOOSE h \in hs : \A g \in hs : Count(g) <= Count(h)
         IN IF RatioGreater(Count(top), Len(final), ToRatio(majority))
            THEN top ELSE NoHash

(* The in-period revealed submissions as (submitter, hash) pairs, in      *)
(* commit order: the `final_submissions` of calculate_rewards.             *)
FinalSubmissions(s, m) ==
    LET inPeriod == SelectSeq(s.commits[m],
                      LAMBDA c : c.fulfillment # NoHash /\ c.inRevealPeriod)
    IN [i \in DOMAIN inPeriod |-> <<inPeriod[i].submitter, inPeriod[i].fulfillment>>]

(* Fault variant of FastestCohort: the same-block filter runs over the     *)
(* whole sorted list instead of what follows the first correct entry, so   *)
(* the first winner is listed twice.                                       *)
FastestCohortCountsFirstTwice(sorted, correct, first) ==
    LET rest == SelectSeq(sorted,
                  LAMBDA x : x[1] \in correct /\ x[2] = sorted[first][2])
    IN [i \in DOMAIN rest |-> rest[i][1]] \o <<sorted[first][1]>>

(* The winners: the correct submitters committed in the same block as the  *)
(* first correct one (found by `find`), the rest in order, then the first. *)
FastestCohort(sorted, correct, first) ==
    LET rest == SelectSeq(SubSeq(sorted, first + 1, Len(sorted)),
                  LAMBDA x : x[1] \in correct /\ x[2] = sorted[first][2])
    IN [i \in DOMAIN rest |-> rest[i][1]] \o <<sorted[first][1]>>

(* The reward split once a consensus hash is known.                        *)
RewardOutcome(winners) ==
    [ok |-> TRUE, winners |-> winners, reward |-> Reward \div Len(winners)]

(* The lookup of correct submitters in the block-sorted commit list.       *)
CohortOutcome(sorted, correct) ==
    LET hits == {i \in DOMAIN sorted : sorted[i][1] \in correct}
    IN IF hits = {} THEN [ok |-> FALSE, error |-> "ConsensusError"]
       ELSE RewardOutcome(FastestCohort(sorted, correct,
                            CHOOSE i \in hits : \A j \in hits : i <= j))

(* The outcome once the final submissions and the answer are known.        *)
RewardsFrom(committed, final, answer) ==
    CASE committed = <<>> -> [ok |-> FALSE, error |-> "NoSolutionProvided"]
      [] final = <<>>     -> [ok |-> FALSE, error |-> "ConsensusNotReached"]
      [] answer = NoHash  -> [ok |-> FALSE, error |-> "ConsensusNotReached"]
      [] OTHER -> CohortOutcome(SortSeq(committed, LAMBDA x, y : x[2] < y[2]),
                    {final[i][1] : i \in {j \in DOMAIN final : final[j][2] = answer}})

(* The answer is taken from the final submissions computed once.         *)
RewardsFromFinal(committed, final, force, majority) ==
    RewardsFrom(committed, final, MostFrequentHash(final, force, majority))

(* calculate_rewards: the fastest cohort of correct in-period revealers.   *)
CalculateRewards(s, m, force, majority) ==
    RewardsFromFinal(s.blocks[m], FinalSubmissions(s, m), force, majority)

(* The winning hash is archived and the round's storage cleared: the tail *)
(* of issue_rewards after the locks are released and the burn is done.     *)
ArchiveRound(s, m, wh) ==
    [ok |-> TRUE,
     chain |-> [s EXCEPT !.commits[m] = <<>>, !.blocks[m] = <<>>,
                         !.processed[m] = wh]]

(* Fault variant of SettleRound: storage is cleaned up before the locks    *)
(* are released, so release_tokens_of_participants finds nobody.           *)
SettleRoundCleansBeforeRelease(s, m, wh) ==
    LET res == ArchiveRound(BurnEligibleAccountTokens(s, wh, m), m, wh)
    IN [ok |-> TRUE, chain |-> ReleaseTokensOfParticipants(res.chain, m)]

(* Locks released, ineligible stakes burned, then storage archived.       *)
SettleRound(s, m, wh) ==
    ArchiveRound(BurnEligibleAccountTokens(ReleaseTokensOfParticipants(s, m), wh, m), m, wh)

(* After minting: look the first winner's revealed hash up again.  A miss  *)
(* is a ConsensusError returned after the minting and the Completed state. *)
SettleAfterMint(s, m, wi) ==
    IF wi = 0 THEN [ok |-> FALSE, chain |-> s]
    ELSE SettleRound(s, m, s.commits[m][wi].fulfillment)

(* issue_rewards given calculate_rewards' result.                          *)
IssueRewardsWith(s, m, r) ==
    IF ~r.ok THEN [ok |-> FALSE, chain |-> s]
    ELSE LET s1 == [DoIssueRewards(s, r.winners, r.reward) EXCEPT !.state[m] = "Completed"]
         IN SettleAfterMint(s1, m, SubmitterIndex(s1.commits[m], r.winners[1]))

(* issue_rewards as the hook calls it.  The lookup of the winning hash     *)
(* runs after the rewards are minted and the state set to Completed; its   *)
(* ConsensusError is not rolled back.                                      *)
IssueRewards(s, m, majority) ==
    IssueRewardsWith(s, m, CalculateRewards(s, m, NoHash, majority))

-----------------------------------------------------------------------------
(* Fault variant of Expired: strictly after the window's last block.      *)
ExpiredAfterEnd(s, m) ==
    s.window[m] # NoWindow /\ blockNumber > s.window[m] + RevealWindowLength

(* A window is due when the hook sees block_number >= start + length.      *)
Expired(s, m) ==
    s.window[m] # NoWindow /\ blockNumber >= s.window[m] + RevealWindowLength

(* Fault variant of OnFinalizeRound: a failed issue_rewards is only       *)
(* logged, as in the commented-out line of issue_rewards' error branch.    *)
OnFinalizeRoundNoDispute(s, m) ==
    [IssueRewards(s, m, majorityType).chain EXCEPT !.window[m] = NoWindow]

(* The hook's handling of issue_rewards' result: an error disputes the    *)
(* round; either way the window is removed.                                *)
CloseRound(m, res) ==
    [(IF res.ok THEN res.chain ELSE [res.chain EXCEPT !.state[m] = "Disputed"])
        EXCEPT !.window[m] = NoWindow]

(* One iteration of on_finalize's loop over RevealWindow.                  *)
OnFinalizeRound(s, m) == CloseRound(m, IssueRewards(s, m, majorityType))

(* Fault variant of FinalizeInOrder: only one due round per block.        *)
FinalizeFirstOnly(s, order) ==
    IF order = <<>> THEN s ELSE OnFinalizeRound(s, Head(order))

(* The loop body applied to the due rounds in the given order.            *)
RECURSIVE FinalizeInOrder(_, _)
FinalizeInOrder(s, order) ==
    IF order = <<>> THEN s
    ELSE FinalizeInOrder(OnFinalizeRound(s, Head(order)), Tail(order))

(* The explored horizon: blocks up to MaxBlock, and beyond it only while   *)
(* some reveal window is still open.                                       *)
Producing == blockNumber < MaxBlock \/ \E m \in MetadataIds : revealWindow[m] # NoWindow

Init ==
    /\ blockNumber = 1
    /\ commits = [m \in MetadataIds |-> <<>>]
    /\ commitmentBlockNumbers = [m \in MetadataIds |-> <<>>]
    /\ revealWindow = [m \in MetadataIds |-> NoWindow]
    /\ roundStates = [m \in MetadataIds |-> "None"]
    /\ processedHashes = [m \in MetadataIds |-> NoHash]
    /\ majorityType = "TwoThirds"
    /\ freeBalance = [a \in Accounts |-> InitialBalance]
    /\ locks = [a \in Accounts |-> {}]

(* do_commit_processing_result_hash: the round must have no RoundState;   *)
(* Commit::commit pushes the commitment, the (who, block) entry is pushed, *)
(* and if the share of committers now exceeds the majority and no window  *)
(* is scheduled, the window starts RevealWindowLength blocks ahead.        *)
DoCommitProcessingResultHash(m, hash, who) ==
    LET blocks == Append(commitmentBlockNumbers[m], <<who, blockNumber>>)
    IN
    /\ roundStates[m] = "None"
    /\ CanCommit(commits[m])
    /\ commits' = [commits EXCEPT ![m] = Commit(@, hash, who)]
    /\ commitmentBlockNumbers' = [commitmentBlockNumbers EXCEPT ![m] = blocks]
    /\ revealWindow' =
          IF /\ RatioGreater(Len(blocks), MaxParticipants, ToRatio(majorityType))
             /\ revealWindow[m] = NoWindow
          THEN [revealWindow EXCEPT ![m] = blockNumber + RevealWindowLength]
          ELSE revealWindow

(* commit_processing_result_hash: its guards in source order, then        *)
(* do_commit_processing_result_hash, then lock_tokens.                     *)
CommitProcessingResultHash(who, m, answer, randomSeed) ==
    /\ Producing
    /\ Len(commitmentBlockNumbers[m]) < MaxParticipants
    /\ who \notin Submitters(commits[m])
    /\ processedHashes[m] = NoHash
    /\ ~IsInRevealWindow(revealWindow[m], blockNumber)
    /\ freeBalance[who] >= FundsToLock
    /\ freeBalance[who] - FundsToLock >= Frozen(locks, who)
    /\ DoCommitProcessingResultHash(m, RecreateCommitHash(answer, randomSeed), who)
    /\ locks' = [locks EXCEPT ![who] = @ \cup {m}]
    /\ UNCHANGED <<blockNumber, roundStates, processedHashes, majorityType, freeBalance>>

(* reveal_processing_result_hash when Reveal::reveal succeeds.             *)
RevealProcessingResultHash(who, m, answer, randomSeed) ==
    /\ Producing
    /\ RevealOutcome(commits[m], who, answer, randomSeed) = "Ok"
    /\ commits' = [commits EXCEPT ![m] =
                     Reveal(@, who, answer, IsInRevealWindow(revealWindow[m], blockNumber))]
    /\ UNCHANGED <<blockNumber, commitmentBlockNumbers, revealWindow, roundStates,
                   processedHashes, majorityType, freeBalance, locks>>

(* The first index of `who` in a CommitmentBlockNumbers list, 0 if none.  *)
BlockEntryIndex(blocks, who) ==
    IF \E j \in DOMAIN blocks : blocks[j][1] = who
    THEN CHOOSE j \in DOMAIN blocks :
            blocks[j][1] = who /\ \A k \in 1..(j - 1) : blocks[k][1] # who
    ELSE 0

(* Fault variant of ExciseSubmitter: the CommitmentBlockNumbers entry is   *)
(* left behind.                                                            *)
ExciseFromCommitsOnly(s, m, who) ==
    LET cIdx == SubmitterIndex(s.commits[m], who)
    IN IF cIdx = 0 THEN s ELSE [s EXCEPT !.commits[m] = RemoveAt(@, cIdx)]

(* The two try_mutate blocks: remove who from CommitmentBlockNumbers, then *)
(* from Commits; a missing entry is NoCommitmentFound and stops there.     *)
ExciseSubmitter(s, m, who) ==
    LET bIdx == BlockEntryIndex(s.blocks[m], who)
        cIdx == SubmitterIndex(s.commits[m], who)
    IN CASE bIdx = 0 -> s
         [] cIdx = 0 -> [s EXCEPT !.blocks[m] = RemoveAt(@, bIdx)]
         [] OTHER    -> [s EXCEPT !.blocks[m] = RemoveAt(@, bIdx),
                                  !.commits[m] = RemoveAt(@, cIdx)]

(* The IncorrectRevealedHash branch: release, burn, excise.                *)
PenaliseIncorrectReveal(s, m, who) ==
    ExciseSubmitter(BurnTokens(ReleaseTokens(s, m, who), who), m, who)

(* reveal_processing_result_hash on IncorrectRevealedHash, which returns   *)
(* the error after the penalty.  Under a storage layer the error undoes    *)
(* the penalty, so the step exists only when the handler is called without *)
(* one (as the pallet's unit tests call it).                               *)
RevealIncorrectHash(who, m, answer, randomSeed) ==
    /\ ~DispatchRollsBack
    /\ Producing
    /\ RevealOutcome(commits[m], who, answer, randomSeed) = "IncorrectRevealedHash"
    /\ SetChain(PenaliseIncorrectReveal(Chain, m, who))
    /\ UNCHANGED <<blockNumber, majorityType>>

(* set_majority_type (ForceOrigin).                                        *)
SetMajorityType(majority) ==
    /\ Producing
    /\ majorityType' = majority
    /\ UNCHANGED <<blockNumber, commits, commitmentBlockNumbers, revealWindow,
                   roundStates, processedHashes, freeBalance, locks>>

(* Fault variant of ResolveMetadataDispute: CommitmentBlockNumbers is     *)
(* removed twice and Commits never.                                        *)
ResolveMetadataDisputeKeepsCommits(m, forceHash) ==
    LET r == CalculateRewards(Chain, m, forceHash, majorityType)
        s1 == [DoIssueRewards(Chain, r.winners, r.reward)
                 EXCEPT !.state[m] = "ManuallyResolved"]
        s2 == BurnEligibleAccountTokens(ReleaseTokensOfParticipants(s1, m),
                                        forceHash, m)
    IN
    /\ Producing
    /\ roundStates[m] = "Disputed"
    /\ r.ok
    /\ SetChain([s2 EXCEPT !.blocks[m] = <<>>])
    /\ UNCHANGED <<blockNumber, majorityType>>

(* resolve_metadata_dispute (ForceOrigin): settle a Disputed round on the  *)
(* forced hash.  It does not write ProcessedHashes.                        *)
ResolveMetadataDispute(m, forceHash) ==
    LET r == CalculateRewards(Chain, m, forceHash, majorityType)
        s1 == [DoIssueRewards(Chain, r.winners, r.reward)
                 EXCEPT !.state[m] = "ManuallyResolved"]
        s2 == BurnEligibleAccountTokens(ReleaseTokensOfParticipants(s1, m),
                                        forceHash, m)
    IN
    /\ Producing
    /\ roundStates[m] = "Disputed"
    /\ r.ok
    /\ SetChain([s2 EXCEPT !.commits[m] = <<>>, !.blocks[m] = <<>>])
    /\ UNCHANGED <<blockNumber, majorityType>>

(* on_finalize of the current block, then the next block.  The hook visits *)
(* the due rounds in the storage map's hash order, which the model leaves  *)
(* open.                                                                   *)
OnFinalize ==
    /\ Producing
    /\ \E order \in SetToSeqs({m \in MetadataIds : Expired(Chain, m)}) :
          SetChain(FinalizeInOrder(Chain, order))
    /\ blockNumber' = blockNumber + 1
    /\ UNCHANGED majorityType

Next ==
    \/ \E who \in Accounts, m \in MetadataIds, h \in Hashes, sd \in Seeds :
          \/ CommitProcessingResultHash(who, m, h, sd)
          \/ RevealProcessingResultHash(who, m, h, sd)
          \/ RevealIncorrectHash(who, m, h, sd)
    \/ \E maj \in Majorities : SetMajorityType(maj)
    \/ \E m \in MetadataIds, h \in Hashes : ResolveMetadataDispute(m, h)
    \/ OnFinalize

(* Blocks keep being produced; users and the ForceOrigin owe nothing.      *)
(* Only OnFinalize advances blockNumber and it is enabled exactly when     *)
(* Producing holds, so weak fairness of BlockProduction on blockNumber is  *)
(* weak fairness of OnFinalize (stated this way because TLC evaluates      *)
(* ENABLED of the hook's settlement far more slowly).                      *)
BlockProduction == Producing /\ blockNumber' = blockNumber + 1

Spec == Init /\ [][Next]_vars /\ WF_blockNumber(BlockProduction)

-----------------------------------------------------------------------------
(* Properties                                                              *)

TypeOK ==
    /\ blockNumber \in Nat
    /\ commits \in [MetadataIds -> CommitsValue]
    /\ commitmentBlockNumbers \in [MetadataIds -> Seq(Accounts \X Nat)]
    /\ revealWindow \in [MetadataIds -> Nat \cup {NoWindow}]
    /\ roundStates \in [MetadataIds -> RoundStateValues]
    /\ processedHashes \in [MetadataIds -> Hashes \cup {NoHash}]
    /\ majorityType \in Majorities
    /\ freeBalance \in [Accounts -> Nat]
    /\ locks \in [Accounts -> SUBSET MetadataIds]

(* CommitmentBlockNumbers is a secondary index of Commits: both lists of a *)
(* round name the same submitters, each once.  It must survive commits,    *)
(* the incorrect-reveal excision, the hook's cleanup and the dispute       *)
(* resolution's cleanup.                                                   *)
CommitIndexInSync ==
    \A m \in MetadataIds :
        /\ Len(commits[m]) = Len(commitmentBlockNumbers[m])
        /\ Submitters(commits[m]) =
              {commitmentBlockNumbers[m][i][1] : i \in DOMAIN commitmentBlockNumbers[m]}
        /\ Cardinality(Submitters(commits[m])) = Len(commits[m])

(* An account holds the lock of a round exactly while it has a commitment  *)
(* in that round: lock_tokens at commit, and release_tokens on every path  *)
(* that drops the commitment (excision, issue_rewards, dispute resolution).*)
LocksMatchCommitments ==
    \A a \in Accounts, m \in MetadataIds :
        (m \in locks[a]) <=> (a \in Submitters(commits[m]))

(* The reward set the spec defines (section 4.2 step 5): among the         *)
(* accounts that revealed `h` in the reveal period, those whose commit     *)
(* block is the earliest.                                                  *)
SpecWinners(m, h) ==
    LET correct == {commits[m][i].submitter :
                      i \in {j \in DOMAIN commits[m] :
                               commits[m][j].fulfillment = h /\ commits[m][j].inRevealPeriod}}
        BlockOf(a) == commitmentBlockNumbers[m][CHOOSE i \in DOMAIN commitmentBlockNumbers[m] :
                                                   commitmentBlockNumbers[m][i][1] = a][2]
        earliest == CHOOSE b \in {BlockOf(a) : a \in correct} :
                       \A a \in correct : b <= BlockOf(a)
    IN {a \in correct : BlockOf(a) = earliest}

(* The burn set the spec defines (section 9): wrong or missing answer, or  *)
(* (when enforced) an answer revealed outside the period.                  *)
SpecBurned(m, h) ==
    {commits[m][i].submitter :
        i \in {j \in DOMAIN commits[m] :
                 \/ commits[m][j].fulfillment # h
                 \/ EnforceBurningTokens /\ ~commits[m][j].inRevealPeriod}}

SpecPayout(m, h, a) ==
    LET w == SpecWinners(m, h)
    IN (IF a \in w THEN Reward \div Cardinality(w) ELSE 0)
       - (IF a \in SpecBurned(m, h) THEN FundsToLock ELSE 0)

HasMajority(m, h) ==
    LET inPeriod == {i \in DOMAIN commits[m] :
                       commits[m][i].fulfillment # NoHash /\ commits[m][i].inRevealPeriod}
        votes == {i \in inPeriod : commits[m][i].fulfillment = h}
    IN RatioGreater(Cardinality(votes), Cardinality(inPeriod), ToRatio(majorityType))

Settles(m) ==
    /\ roundStates[m] \in {"None", "Disputed"}
    /\ roundStates'[m] \in {"Completed", "ManuallyResolved"}

Excised(m) == Submitters(commits[m]) \ Submitters(commits'[m])

(* Settlement follows the spec: a round completes only on a hash revealed  *)
(* in period by more than the majority share and archives that hash; and   *)
(* every change of a free balance is the spec's payout (reward to the      *)
(* earliest correct cohort, FundsToLock burned from the wrong, missing or  *)
(* late) of the rounds settling in the step, or the FundsToLock penalty of *)
(* an excised incorrect revealer.  This is what calculate_rewards'         *)
(* iterator chain, do_issue_rewards and the burn/release order implement.  *)
SettlementMatchesSpec ==
    [][LET settled == {m \in MetadataIds : Settles(m)}
           penalised == UNION {Excised(m) : m \in MetadataIds \ settled}
       IN \E ans \in [settled -> Hashes] :
            /\ \A m \in settled : roundStates'[m] = "Completed" =>
                    /\ ans[m] = processedHashes'[m]
                    /\ HasMajority(m, ans[m])
            /\ \A a \in Accounts :
                 freeBalance'[a] - freeBalance[a] =
                    MapThenSumSet(LAMBDA m : SpecPayout(m, ans[m], a), settled)
                    - (IF a \in penalised THEN FundsToLock ELSE 0)
      ]_vars

(* The hook closes a reveal window in the block where it ends,             *)
(* start + RevealWindowLength, and never without recording an outcome:     *)
(* Completed, or Disputed when issue_rewards fails.                        *)
RevealWindowClosesWithOutcome ==
    [][\A m \in MetadataIds :
         revealWindow[m] # NoWindow /\ revealWindow'[m] = NoWindow =>
            /\ blockNumber = revealWindow[m] + RevealWindowLength
            /\ roundStates'[m] \in {"Completed", "Disputed"}
      ]_vars

(* Once a round's reveal window is scheduled the round is eventually       *)
(* decided, given only that blocks keep being finalised.                   *)
WindowEventuallyDecided ==
    \A m \in MetadataIds : revealWindow[m] # NoWindow ~> roundStates[m] # "None"

(* Section 4.2: resolve_metadata_dispute "always succeeds at picking a     *)
(* winner": a Disputed round has a forced hash that settles it.            *)
DisputeAlwaysResolvable ==
    \A m \in MetadataIds :
        roundStates[m] = "Disputed" =>
            \E h \in Hashes : CalculateRewards(Chain, m, h, majorityType).ok

-----------------------------------------------------------------------------
(* Refinement of the round lifecycle (RoundLifecycle).  A round's phase is *)
(* its RoundStates entry once set, and before that whether RevealWindow    *)
(* holds an entry; its participants are the submitters in Commits; its     *)
(* archive is ProcessedHashes.                                             *)
RoundPhase(m) ==
    CASE roundStates[m] = "Completed"        -> "Completed"
      [] roundStates[m] = "Disputed"         -> "Disputed"
      [] roundStates[m] = "ManuallyResolved" -> "ManuallyResolved"
      [] revealWindow[m] # NoWindow          -> "RevealWindowOpen"
      [] OTHER                               -> "Open"

RL == INSTANCE RoundLifecycle
        WITH Rounds <- MetadataIds, Answers <- Hashes, None <- NoHash,
             phase <- [m \in MetadataIds |-> RoundPhase(m)],
             participants <- [m \in MetadataIds |-> Submitters(commits[m])],
             archive <- processedHashes

(* Every step of the pallet, the hook's settlement of several rounds in   *)
(* one block included, is a step of the specification's per-round state   *)
(* machine: windows are scheduled only by a commit, a window closes only   *)
(* into Completed (answer archived, commitments purged) or Disputed        *)
(* (commitments kept), only a Disputed round is resolved, and the archive  *)
(* is written once.                                                        *)
RoundLifecycleRefined == RL!Spec

==============================================================================
