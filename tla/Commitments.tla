----------------------------- MODULE Commitments -----------------------------
(***************************************************************************)
(* The commitments pallet (pallets/commitments/src/lib.rs): the per-round  *)
(* list of commitments and the reveal-window arithmetic.  The pallet has   *)
(* no extrinsics of its own; the logic-provider pallet calls these         *)
(* operators from its handlers, so they are written as pure operators over *)
(* the storage values they read and return.                                *)
(***************************************************************************)
EXTENDS Naturals, Sequences

CONSTANTS
    Accounts,            \* submitters (AccountId)
    Hashes,              \* answers a submitter can commit to and reveal
    Seeds,               \* the u8 random seed mixed into a commit hash
    MaxParticipants,     \* Config::MaxParticipants, bound of Commits
    RevealWindowLength,  \* Config::RevealWindowLength (u8)
    NoHash,              \* None for an Option<Hash>
    NoWindow             \* None for RevealWindow's OptionQuery

ASSUME MaxParticipants \in Nat \ {0} /\ RevealWindowLength \in Nat

(* blake2_256(answer.encode() ++ [random_seed]).  The hash is modelled by  *)
(* what the protocol relies on: it is injective, so a commit hash is the   *)
(* pair it was made from.                                                  *)
RecreateCommitHash(answer, randomSeed) == <<answer, randomSeed>>

CommitHashes == Hashes \X Seeds

Commitment ==
    [commit: CommitHashes, fulfillment: Hashes \cup {NoHash},
     submitter: Accounts, inRevealPeriod: BOOLEAN]

(* The value type of Commits: a BoundedVec of at most MaxParticipants     *)
(* commitments (ValueQuery: an absent key reads as the empty list).        *)
CommitsValue == UNION {[1..n -> Commitment] : n \in 0..MaxParticipants}

(* Fault variant of NewCommitment: the commit hash is stored as the        *)
(* fulfillment too.                                                        *)
NewCommitmentFulfilled(commitHash, who) ==
    [commit |-> commitHash, fulfillment |-> commitHash,
     submitter |-> who, inRevealPeriod |-> FALSE]

NewCommitment(commitHash, who) ==
    [commit |-> commitHash, fulfillment |-> NoHash,
     submitter |-> who, inRevealPeriod |-> FALSE]

(* is_in_reveal_window: the window is [start, start + RevealWindowLength], *)
(* both ends included.                                                     *)
IsInRevealWindow(windowStart, currentBlock) ==
    /\ windowStart # NoWindow
    /\ windowStart <= currentBlock
    /\ currentBlock <= windowStart + RevealWindowLength

(* get_reveal_window, the runtime API the off-chain poller queries.        *)
GetRevealWindow(windowStart) ==
    IF windowStart = NoWindow THEN NoWindow
    ELSE <<windowStart, windowStart + RevealWindowLength>>

(* Commit::commit: try_push onto the BoundedVec; a full list is an error   *)
(* (reported as NoCommitmentFound by the code).                            *)
CanCommit(commits) == Len(commits) < MaxParticipants

Commit(commits, commitHash, who) == Append(commits, NewCommitment(commitHash, who))

(* Reveal::reveal walks the list and acts on the first commitment of who.  *)
SubmitterIndex(commits, who) ==
    IF \E i \in DOMAIN commits : commits[i].submitter = who
    THEN CHOOSE i \in DOMAIN commits :
            /\ commits[i].submitter = who
            /\ \A j \in 1..(i - 1) : commits[j].submitter # who
    ELSE 0

RevealOutcome(commits, who, answer, randomSeed) ==
    LET i == SubmitterIndex(commits, who)
    IN CASE i = 0                                   -> "NoCommitmentFound"
         [] commits[i].fulfillment # NoHash         -> "AlreadyRevealed"
         [] commits[i].commit # RecreateCommitHash(answer, randomSeed)
                                                    -> "IncorrectRevealedHash"
         [] OTHER                                   -> "Ok"

(* Commitment::fulfill and Commitment::set_reveal_status.                 *)
Fulfill(c, fulfillment) == [c EXCEPT !.fulfillment = fulfillment]

SetRevealStatus(c) == [c EXCEPT !.inRevealPeriod = TRUE]

(* The successful reveal: fulfil, then set the reveal status if the window *)
(* is open at the current block.                                           *)
Reveal(commits, who, answer, inWindow) ==
    LET i == SubmitterIndex(commits, who)
    IN [commits EXCEPT ![i] = IF inWindow THEN SetRevealStatus(Fulfill(@, answer))
                                          ELSE Fulfill(@, answer)]

Submitters(commits) == {commits[i].submitter : i \in DOMAIN commits}
==============================================================================
