--------------------------- MODULE OffchainAgent ---------------------------
(***************************************************************************)
(* One node's off-chain plugin (offchain-plugin/src) beside the chain it   *)
(* drives.  Two tokio loops share the node's offchain LocalStorage behind  *)
(* one mutex:                                                              *)
(*   - run_service (service.rs): each tick commits a hash for a fresh      *)
(*     metadata id, then store_key and store_commit_info (offchain.rs),    *)
(*     each under its own lock acquisition;                                *)
(*   - check_keys (state_poller.rs): snapshot TRACKED_STORAGE_KEYS, drop   *)
(*     the lock, walk the keys with awaits on runtime queries and reveal   *)
(*     submissions, then Vec::remove the revealed indices and write the   *)
(*     list back.                                                          *)
(* Every await is a step boundary, so the other loop and block production *)
(* interleave there.  The chain is reduced to what the poller reads and    *)
(* what decides whether a reveal counts: the reveal window of each id, its *)
(* removal by on_finalize, and the block a reveal transaction lands in.    *)
(***************************************************************************)
EXTENDS Naturals, Sequences, SequencesExt

CONSTANTS
    NumTicks,            \* run_service ticks explored; tick n commits id n
    RevealWindowLength,  \* T::RevealWindowLength of the runtime
    MaxBlock,            \* blocks explored
    NoWindow,            \* RevealWindow has no entry
    NoList,              \* TRACKED_STORAGE_KEYS has never been written
    MaxRestarts,         \* node restarts explored
    Seeds,               \* random_seed values of create_commit_hash
    DataHashes           \* reveal hashes get_data can return

ASSUME NumTicks \in Nat /\ RevealWindowLength \in Nat \ {0} /\ MaxBlock \in Nat
       /\ MaxRestarts \in Nat

\* metadata_id = whole seconds since start at the tick: tick n of one run of
\* the node gets id n, and a restarted node counts from its own start again.
MetadataIds == 1..NumTicks

VARIABLES
    bestBlock,      \* client.info().best_number
    windowStart,    \* pallet_commitments::RevealWindow start per id
    windowRemoved,  \* on_finalize has removed the window
    pool,           \* reveal transactions submitted and not yet in a block
    landed,         \* block that included the id's first reveal, 0 if none
    committed,      \* ids whose commit submit_call returned Ok
    tracked,        \* TRACKED_STORAGE_KEYS in offchain storage
    info,           \* OffchainCommitmentInfo per id: (random_seed, reveal_hash) or <<>>
    svc,            \* run_service: stage, id and (seed, hash) of the current tick
    nextTick,       \* id of the next run_service tick
    poller,         \* check_keys: stage, snapshot, loop index, to_remove
    sent,           \* reveal submissions per id; 2 stands for "more than once"
    restarts,       \* node restarts so far
    secret          \* (random_seed, reveal_hash) behind the id's commitment on chain

chainVars == <<bestBlock, windowStart, windowRemoved, pool, landed>>
vars == <<bestBlock, windowStart, windowRemoved, pool, landed, committed,
          tracked, info, svc, nextTick, poller, sent, restarts, secret>>

TrackedIds == IF tracked = NoList THEN {} ELSE ToSet(tracked)

(* The extrinsic send_commitment_reveal submits for id k: the encoded     *)
(* MapToCall payload inside the pallet call of the same name.              *)
RevealCall(k) ==
    [fn |-> "reveal_processing_result_hash",
     payload |-> [kind |-> "RevealHash", revealHash |-> info[k][2],
                  randomSeed |-> info[k][1], metadataId |-> k]]

(* verify_call_public_key_commit / _reveal: the signature over the payload *)
(* is the node's own, so the call is valid, with priority MAX and the tag  *)
(* it provides: (public, commit_hash) or (public, random_seed,             *)
(* reveal_hash), under the call's tag prefix.  Neither tag holds the       *)
(* metadata id.  One node signs with one public key, left out of the tag.  *)
VerifyCallPublicKeyCommit(payload) ==
    [valid |-> TRUE, provides |-> <<"LogicProviderCommit", payload.hash>>]

VerifyCallPublicKeyReveal(payload) ==
    [valid |-> TRUE,
     provides |-> <<"LogicProviderReveal", payload.randomSeed, payload.revealHash>>]

(* validate_unsigned: a call whose payload decodes to the other variant,   *)
(* or any other call, is InvalidTransaction::Call.                         *)
ValidateUnsigned(call) ==
    CASE call.fn = "commit_processing_result_hash" /\ call.payload.kind = "CommitHash"
            -> VerifyCallPublicKeyCommit(call.payload)
      [] call.fn = "reveal_processing_result_hash" /\ call.payload.kind = "RevealHash"
            -> VerifyCallPublicKeyReveal(call.payload)
      [] OTHER -> [valid |-> FALSE, provides |-> <<>>]

(* create_extrinsic_from_external_call: submit_unsigned_transaction        *)
(* returns Err when the pool refuses the import.  The pool imports a valid *)
(* transaction only if no pooled one of equal priority (all are MAX)       *)
(* provides the same tag.                                                  *)
PoolAdmits(k) ==
    LET v == ValidateUnsigned(RevealCall(k)) IN
    /\ v.valid
    /\ \A j \in pool : ValidateUnsigned(RevealCall(j)).provides # v.provides

(* Fault variant of WithinRevealWindowForKey: only the end of the window  *)
(* is checked.                                                             *)
WithinRevealWindowEndOnly(k) ==
    /\ windowStart[k] # NoWindow
    /\ ~windowRemoved[k]
    /\ bestBlock <= windowStart[k] + RevealWindowLength

(* get_reveal_window at the best block, then the range check of            *)
(* within_reveal_window_for_key: the window exists and                     *)
(* start <= best_number <= start + length.                                 *)
WithinRevealWindowForKey(k) ==
    /\ windowStart[k] # NoWindow
    /\ ~windowRemoved[k]
    /\ windowStart[k] <= bestBlock
    /\ bestBlock <= windowStart[k] + RevealWindowLength

(* The for_each over to_remove: Vec::remove of each index, in the order    *)
(* pushed, on the list as already shortened; an index past the end panics. *)
RECURSIVE RemoveIndices(_, _)
RemoveIndices(keys, toRemove) ==
    IF toRemove = <<>> THEN [panic |-> FALSE, keys |-> keys]
    ELSE IF Head(toRemove) > Len(keys) THEN [panic |-> TRUE, keys |-> keys]
    ELSE RemoveIndices(RemoveAt(keys, Head(toRemove)), Tail(toRemove))

Init ==
    /\ bestBlock = 1
    /\ windowStart = [k \in MetadataIds |-> NoWindow]
    /\ windowRemoved = [k \in MetadataIds |-> FALSE]
    /\ pool = {}
    /\ landed = [k \in MetadataIds |-> 0]
    /\ committed = {}
    /\ tracked = NoList
    /\ info = [k \in MetadataIds |-> <<>>]
    /\ svc = [pc |-> "idle", key |-> 0, info |-> <<>>]
    /\ nextTick = 1
    /\ poller = [pc |-> "idle", local |-> <<>>, idx |-> 0, toRemove |-> <<>>]
    /\ sent = [k \in MetadataIds |-> 0]
    /\ restarts = 0
    /\ secret = [k \in MetadataIds |-> <<>>]

(* A block: some pooled reveals are included (a repeated reveal of an id   *)
(* fails AlreadyRevealed), some committed ids reach the majority and get a *)
(* window starting RevealWindowLength blocks on, and on_finalize removes   *)
(* the windows whose last block this is.                                   *)
ProduceBlock ==
    LET b == bestBlock + 1 IN
    /\ bestBlock < MaxBlock
    /\ \E included \in SUBSET pool,
          opened \in SUBSET {k \in committed : windowStart[k] = NoWindow} :
          /\ pool' = pool \ included
          /\ landed' = [k \in MetadataIds |->
                          IF k \in included /\ landed[k] = 0 THEN b ELSE landed[k]]
          /\ windowStart' = [k \in MetadataIds |->
                               IF k \in opened THEN b + RevealWindowLength
                               ELSE windowStart[k]]
    /\ windowRemoved' = [k \in MetadataIds |->
                           \/ windowRemoved[k]
                           \/ windowStart[k] # NoWindow /\ b >= windowStart[k] + RevealWindowLength]
    /\ bestBlock' = b
    /\ UNCHANGED <<restarts, secret, committed, tracked, info, svc, nextTick, poller, sent>>

(* run_service tick: get_data and create_commit_hash, then submit_call of  *)
(* the commit.  If get_data yields nothing or the submission fails, the    *)
(* tick ends.  submit_call is Ok once the pool imports the commit, which   *)
(* validate_unsigned checks by signature only; the pallet then refuses a   *)
(* second commit of an id this account has committed (AlreadyCommitted,   *)
(* IllegalState or AlreadyProcessedMetadata), and the agent never learns. *)
ServiceTick ==
    /\ svc.pc = "idle"
    /\ nextTick <= NumTicks
    /\ nextTick' = nextTick + 1
    /\ \/ UNCHANGED <<committed, svc, secret>>
       \/ \E s \in Seeds, d \in DataHashes :
             /\ svc' = [pc |-> "storeKey", key |-> nextTick, info |-> <<s, d>>]
             /\ \/ nextTick \in committed /\ UNCHANGED <<committed, secret>>
                \/ /\ nextTick \notin committed
                   /\ committed' = committed \cup {nextTick}
                   /\ secret' = [secret EXCEPT ![nextTick] = <<s, d>>]
    /\ UNCHANGED <<restarts, chainVars, tracked, info, poller, sent>>

(* Fault variant of StoreKey: the id is appended without the contains    *)
(* check.                                                                  *)
StoreKeyAppendAlways ==
    LET k == svc.key IN
    /\ svc.pc = "storeKey"
    /\ tracked' = IF tracked = NoList THEN <<k>> ELSE Append(tracked, k)
    /\ svc' = [svc EXCEPT !.pc = "storeInfo"]
    /\ UNCHANGED <<restarts, secret, chainVars, committed, info, nextTick, poller, sent>>

(* store_key, under the storage lock: append the id unless present.        *)
StoreKey ==
    LET k == svc.key IN
    /\ svc.pc = "storeKey"
    /\ tracked' = IF tracked = NoList THEN <<k>>
                  ELSE IF k \in ToSet(tracked) THEN tracked
                  ELSE Append(tracked, k)
    /\ svc' = [svc EXCEPT !.pc = "storeInfo"]
    /\ UNCHANGED <<restarts, secret, chainVars, committed, info, nextTick, poller, sent>>

(* store_commit_info, under the storage lock: the info is set only when    *)
(* the id has none, so a later tick with the same id keeps the first.      *)
StoreCommitInfo ==
    /\ svc.pc = "storeInfo"
    /\ info' = IF info[svc.key] = <<>> THEN [info EXCEPT ![svc.key] = svc.info]
               ELSE info
    /\ svc' = [pc |-> "idle", key |-> 0, info |-> <<>>]
    /\ UNCHANGED <<restarts, secret, chainVars, committed, tracked, nextTick, poller, sent>>

(* check_keys entry: read TRACKED_STORAGE_KEYS under the lock and drop the *)
(* lock; with no list the tick returns Ok(None) and changes nothing.       *)
CheckKeysStart ==
    /\ poller.pc = "idle"
    /\ tracked # NoList
    /\ poller' = [pc |-> "scan", local |-> tracked, idx |-> 1, toRemove |-> <<>>]
    /\ UNCHANGED <<restarts, secret, chainVars, committed, tracked, info, svc, nextTick, sent>>

(* One loop iteration up to the reveal: within_reveal_window_for_key, then *)
(* get_offchain_data_for_key.  A key outside its window, or without commit *)
(* info, is skipped and stays tracked.                                     *)
CheckKey ==
    LET k == poller.local[poller.idx] IN
    /\ poller.pc = "scan"
    /\ poller.idx <= Len(poller.local)
    /\ poller' = IF WithinRevealWindowForKey(k) /\ info[k] # <<>>
                 THEN [poller EXCEPT !.pc = "send"]
                 ELSE [poller EXCEPT !.idx = @ + 1]
    /\ UNCHANGED <<restarts, secret, chainVars, committed, tracked, info, svc, nextTick, sent>>

(* Fault variant of SendCommitmentReveal: the index pushed to to_remove is *)
(* one less than the key's position.                                       *)
SendCommitmentRevealOffByOne ==
    LET k == poller.local[poller.idx] IN
    /\ poller.pc = "send"
    /\ PoolAdmits(k)
    /\ pool' = pool \cup {k}
    /\ sent' = [sent EXCEPT ![k] = IF @ < 2 THEN @ + 1 ELSE 2]
    /\ poller' = [poller EXCEPT !.pc = "scan", !.idx = @ + 1,
                                !.toRemove = Append(@, poller.idx - 1)]
    /\ UNCHANGED <<restarts, secret, bestBlock, windowStart, windowRemoved, landed, committed,
                   tracked, info, svc, nextTick>>

(* send_commitment_reveal succeeds: submit_call at the then best block     *)
(* puts the reveal in the pool; the index is pushed to to_remove.          *)
SendCommitmentReveal ==
    LET k == poller.local[poller.idx] IN
    /\ poller.pc = "send"
    /\ PoolAdmits(k)
    /\ pool' = pool \cup {k}
    /\ sent' = [sent EXCEPT ![k] = IF @ < 2 THEN @ + 1 ELSE 2]
    /\ poller' = [poller EXCEPT !.pc = "scan", !.idx = @ + 1,
                                !.toRemove = Append(@, poller.idx)]
    /\ UNCHANGED <<restarts, secret, bestBlock, windowStart, windowRemoved, landed, committed,
                   tracked, info, svc, nextTick>>

(* A `?` in the loop: the runtime query or the reveal's get_keypair or     *)
(* submit_call fails (the pool rejects a reveal whose tag is pooled), and  *)
(* check_keys returns before the write-back.                               *)
CheckKeysError ==
    /\ poller.pc \in {"scan", "send"}
    /\ poller.pc = "scan" => poller.idx <= Len(poller.local)
    /\ poller' = [pc |-> "idle", local |-> <<>>, idx |-> 0, toRemove |-> <<>>]
    /\ UNCHANGED <<restarts, secret, chainVars, committed, tracked, info, svc, nextTick, sent>>

(* After the loop: remove the collected indices from the snapshot and set  *)
(* TRACKED_STORAGE_KEYS to the result under the lock.  A panic in remove   *)
(* ends the polling task.                                                  *)
CheckKeysWriteBack ==
    LET r == RemoveIndices(poller.local, poller.toRemove) IN
    /\ poller.pc = "scan"
    /\ poller.idx > Len(poller.local)
    /\ IF r.panic
       THEN /\ poller' = [poller EXCEPT !.pc = "panicked"]
            /\ UNCHANGED tracked
       ELSE /\ tracked' = r.keys
            /\ poller' = [pc |-> "idle", local |-> <<>>, idx |-> 0, toRemove |-> <<>>]
    /\ UNCHANGED <<restarts, secret, chainVars, committed, info, svc, nextTick, sent>>

(* The node restarts.  Offchain storage (tracked keys, commit info) is on *)
(* disk and the chain goes on; the loops start again from idle, whatever  *)
(* step they were in, and the in-memory transaction pool keeps only the    *)
(* reveals already gossiped to peers (propagate(true)), any subset.        *)
(* start takes a new Instant, so run_service's ids count from 1 again.     *)
NodeRestart ==
    /\ restarts < MaxRestarts
    /\ restarts' = restarts + 1
    /\ \E kept \in SUBSET pool : pool' = kept
    /\ svc' = [pc |-> "idle", key |-> 0, info |-> <<>>]
    /\ nextTick' = 1
    /\ poller' = [pc |-> "idle", local |-> <<>>, idx |-> 0, toRemove |-> <<>>]
    /\ UNCHANGED <<bestBlock, windowStart, windowRemoved, landed, committed,
                   tracked, info, sent, secret>>

Next ==
    \/ NodeRestart
    \/ ProduceBlock
    \/ ServiceTick \/ StoreKey \/ StoreCommitInfo
    \/ CheckKeysStart \/ CheckKey \/ SendCommitmentReveal
    \/ CheckKeysError \/ CheckKeysWriteBack

Spec == Init /\ [][Next]_vars

-----------------------------------------------------------------------------

TypeOK ==
    /\ bestBlock \in 1..MaxBlock
    /\ windowStart \in [MetadataIds -> Nat \cup {NoWindow}]
    /\ windowRemoved \in [MetadataIds -> BOOLEAN]
    /\ pool \subseteq MetadataIds
    /\ landed \in [MetadataIds -> 0..MaxBlock]
    /\ committed \subseteq MetadataIds
    /\ tracked \in Seq(MetadataIds) \cup {NoList}
    /\ info \in [MetadataIds -> (Seeds \X DataHashes) \cup {<<>>}]
    /\ svc \in [pc : {"idle", "storeKey", "storeInfo"}, key : 0..NumTicks,
               info : (Seeds \X DataHashes) \cup {<<>>}]
    /\ nextTick \in 1..(NumTicks + 1)
    /\ poller.pc \in {"idle", "scan", "send", "panicked"}
    /\ poller.local \in Seq(MetadataIds)
    /\ poller.toRemove \in Seq(Nat \ {0})
    /\ sent \in [MetadataIds -> 0..2]
    /\ restarts \in 0..MaxRestarts
    /\ secret \in [MetadataIds -> (Seeds \X DataHashes) \cup {<<>>}]

(* TRACKED_STORAGE_KEYS never holds an id twice, whatever the restarts    *)
(* that bring ids round again and the write-backs of stale snapshots: a    *)
(* repeated id would be revealed twice in one check_keys pass, and the     *)
(* pool's refusal of the second reveal would abort every such pass.  It     *)
(* also bounds the list by the ids in use.                                 *)
TrackedKeysDistinct == tracked # NoList => IsInjective(tracked)

(* A reveal never lands before its window opens: check_keys submits only   *)
(* once get_reveal_window at the best block shows start <= best_number,    *)
(* so the pallet's reveal marks it in-period rather than burning the vote  *)
(* on an early, out-of-period reveal (Reveal::reveal allows one reveal).   *)
RevealNeverEarly ==
    \A k \in MetadataIds :
        landed[k] # 0 => windowStart[k] # NoWindow /\ landed[k] >= windowStart[k]

(* Spec 4.4 step 3: on successful submission the key is removed from the   *)
(* tracked list, and keys not yet revealed stay tracked.  So every id      *)
(* store_key has written is still tracked or has had its reveal sent.      *)
TrackedKeyNotLost ==
    \A k \in committed :
        \/ svc.pc = "storeKey" /\ svc.key = k
        \/ k \in TrackedIds
        \/ sent[k] > 0

(* The polling task never dies: the removal loop of check_keys never       *)
(* indexes past the end of tracked_keys.                                   *)
PollerNeverPanics == poller.pc # "panicked"

(* Spec 4.4 step 3: at-most-once reveal submission per key by this agent.  *)
AtMostOnceReveal == \A k \in MetadataIds : sent[k] <= 1

(* Spec 2: a RoundKey is unique while its round is in flight, and the      *)
(* agent caches its OffchainCommitmentInfo so that it can build its own    *)
(* reveal later.  So the info stored for a committed id is the seed and    *)
(* hash behind that id's commitment on chain, whatever restarts happen.    *)
RevealMatchesCommitment ==
    \A k \in committed : info[k] # <<>> => info[k] = secret[k]

=============================================================================
