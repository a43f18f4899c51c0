# dchat: a TLA+ verification project

dchat is a decentralised chat system in Rust: end-to-end encrypted messaging
over relays, a chat chain and a currency chain, off-chain payment channels, and
a bridge that moves value between the chains and to Solana. This project models
the parts whose correctness depends on the *order* of things (lock sections,
messages, signatures, deadlines, retries), checks them with TLC on small
instances, and proves the most important properties with TLAPS for every
instance.

Paths below are relative to `src/crates/`. `PROJECT.json` gives, for every
definition, the lines it models, and lists runs, mutants, findings, hazards and
theorems.

- [1. Inventory](#1-inventory)
- [2. Modules and how they correspond to the code](#2-modules-and-how-they-correspond-to-the-code)
- [3. Runs](#3-runs)
- [4. Bounds](#4-bounds)
- [5. Fairness](#5-fairness)
- [6. Proofs](#6-proofs)
- [7. Disagreements between the code and what it says of itself](#7-disagreements-between-the-code-and-what-it-says-of-itself)
- [8. Not modelled](#8-not-modelled)
- [9. Plan](#9-plan)

## 1. Inventory

| Component | State | Operations | Hard because | Correct means |
|---|---|---|---|---|
| **Payment channels** `dchat-blockchain/src/payment_channels.rs` | per channel: status, current state (nonce, two balances), latest update signed by both; pending unilateral close; challenges; fraud events. Four maps behind four locks | create / apply payments, unilateral close, challenge, finalise, cooperative close, mark slashed | an operation releases one lock before it takes the next; updates can be replayed; a dispute window; wrapping sums | no replay short of the last nonce, capacity conserved, no accusation without proof, one payout |
| **Finality tracker** `dchat-bridge/src/finality.rs` | registered BLS keys, pending and finalized proofs by hash | register, initiate proof, submit signature, clean up | the threshold counts signatures; aggregation can fail after the push; keys are copied | final = M different registered signers, for ever |
| **Bridge manager** `dchat-bridge/src/lib.rs` | transactions and statuses, an older map of proofs, the tracker | initiate, submit proof, BLS calls, mark ready, execute, roll back, sweep timeouts | two sources of finality, calls in any order, timeout against execution | nothing executed before a final proof, executed once |
| **Cross-chain sync** `dchat-bridge/src/crosschain_sync.rs` | operations, a queue per chain, completed history, adapters | create, update, complete, fail, `process_chain`, `run` | clones used across awaits, several callers, adapters that fail, queue limit, batches | submitted once and only when final; maps agree; deadlines are noticed |
| **Message ordering** `dchat-messaging/src/ordering.rs` | expected number and waiting messages per conversation | register, next number, gaps | early, late, duplicate messages; sending and receiving share a counter | a resequencer |
| **Solana bridge** `dchat-bridge/src/solana_bridge.rs` | transfers with validator signatures, status and Solana signature | initiate, sign, `execute_mint`, `wait_and_execute`, `update_confirmations`, `submit_operation` | clones used across RPC calls; a 60 s time-out followed by a retry; late signatures | no mint without its quorum; Completed means final; a submission returns, with its own mint |
| **Watchtower** `dchat-blockchain/src/watchtower.rs` | registrations, latest update, fraud attempts; the monitor's last block | register, update, check, challenge, the monitor loop | a pass of many lock sections and awaits against closes and re-registration | what is shown as challenged was challenged; the monitor keeps up |
| **Two-stage finality** `dchat-blockchain/src/hardened_consensus/two_stage_finality.rs` | block statuses, finalized list, challenges, anomaly scores and level, each behind its own lock | register, vote, set a stage, tick, challenge, prune | stages move by votes, by time, by challenges and by other engines; presets go stale | a stage is backed by its votes or was set from outside; a challenged block does not become Deep by itself |
| **HardenedTSC** `dchat-blockchain/src/hardened_consensus/{integration,sharded_state}.rs` | votes per hash in a sharded map, tracker by hash, checkpoints | initialize block, vote, checkpoint | get / modify / insert without a lock; LRU eviction; numbers taken from a length | finality is a block's own, unless its initialization raced; a checkpoint had a quorum |
| **Double ratchet** `dchat-crypto/src/ratchet/` | root, sending and receiving chains, skipped keys | encrypt, decrypt, clean up | loss, reordering, repetition; a limited and ageing store; a ratchet step before authentication | forward secrecy; a first delivery opens |
| Multi-signatures, slashing `dchat-bridge/src/{multisig,slashing}.rs` | configuration, per-transaction signature sets; stake records | init, sign, rotate; slash | rotation while signatures are collected | a completed set met the threshold of one configuration |
| Vote persistence `dchat-blockchain/src/vote_persistence.rs` | votes on disk | record, load | crash between two writes | no double vote after a restart |
| Delivery tracking, offline queues `dchat-messaging/src/{delivery,queue}.rs` | statuses, proofs; bounded queues | acknowledge, retry; push, drain | late acknowledgements, limits | nothing dropped silently |

How they interact. `BridgeManager` owns a `FinalityTracker` and asks it in
`check_finality`. `CrossChainSyncManager` calls chain adapters; the Solana
adapter's `submit_operation` makes a transfer, and its error leaves the
operation in the queue, to be submitted again as a new transfer. The watchtower
holds channel updates and calls `challenge_close` on the channel manager.
`HardenedTSC` drives the finality tracker by hash; so do the PoT and PoRW engines
beside it. `MessageOrder` is a public part of the messaging crate that only its
tests call so far. The bridge manager, the message order and
a ratchet session are called through `&mut self`; the others are shared between
tasks and guard their maps with separate locks, so their operations interleave.

The other crates (network, storage, identity, governance, marketplace, privacy,
DPL, bots, SDKs...) are listed in `PROJECT.json` with the reason they are left
out.

## 2. Modules and how they correspond to the code

Conventions. A map is a function to sets of at most one value, an `Option` a
set. One action stands for one uninterrupted stretch: a `&mut self` method, or
what is done under one lock (nested locks included) and the local computation
that goes with it. The clone a call carries over an unlock or an await is part
of the state. Deadlines are kept as ticks left, so that time needs no bound. An
operation that returns an error and changes nothing is a step that is not
taken; an error after a change is modelled with the change. A definition whose
name ends in `Slip` is a plausible mistake in the definition that follows it;
no specification uses it: it is there to show which property would notice.

- **PaymentChannel**: one channel and its manager. `updates` is the set of
  signed updates in existence; any caller may hand any of them to any operation,
  at any time and repeatedly. `closing`, `challenging` and `finalizing` are the
  local variables of calls between two lock sections: `InitiateClose` /
  `RecordClose`, `ChallengeClose` / `PushFraud` / `MarkChallenged` /
  `MarkDisputed` / `RecordChallenge`, `FinalizeClose` / `SettleClose`.
  Signatures are abstracted to whether they verify; balances and nonces are
  kept, and `Total` and `NextNonce` wrap at `Word` (2^64 in the code) as in a
  release build.
  History variables: `applied`, `closed`, `payouts`.
- **FinalityTracker**: a signature parses or is malformed; no operation verifies
  it before the proof is final, so that is all that matters to the state.
  `AddSignature` pushes before it aggregates, as the code does.
- **BridgeManager** extends FinalityTracker: the tracker's actions are steps of
  the bridge (`Tracker`), and `CheckFinality` reads both kinds of proof.
  History: `evidence`, `executions`.
- **CrossChainSync**: `worker[w]` is a call of `process_chain`, with its step,
  the ids left of its batch, and the clone of the operation it is at. The task
  in `run()` goes through `ChainOrder`; `Caller` are other callers of the public
  `process_chain`. Adapters are external: any answer, or an error. `ApiCall` are
  the other public operations, called by anybody.
- **SolanaBridge**: transfers are numbered in the order they are made, `ledger` is
  Solana (external: transactions with their confirmations, or gone). `call[c]` is a
  `submit_operation` or `execute_mint` in progress with its clone's transfer and
  signature, `watch[m]` an `update_confirmations`. Every await is a boundary
  between actions: `Check` / `Send` / `Record`, `UpdateConfirmations` / `Answer` /
  `WriteConfirmations`. The signatures of a transfer are a list, which
  `add_validator_signature` searches for the validator (`Duplicate`). The adapter retries an operation that failed
  (`SubmitOperation` after `err`), which is how the sync manager uses it.
- **Watchtower** extends PaymentChannel with the tower and its monitor task. `pass`
  is `poll_close_events` with its local variables; `challenge_close` runs in
  PaymentChannel's own sections (`ChallengeClose`, then `Challenging`), so closes,
  pay-outs, updates and new registrations fall between them. The currency chain
  is external: a sequence of close events, a block each.
- **DoubleRatchet**: two sessions and every message ever sent. Cryptography is
  symbolic: a root key is the sequence of DH outputs mixed in, a chain key a root
  and an index, and a ciphertext opens with exactly the key it was sealed with. A
  message may be delivered never, late or repeatedly. `Store` gives every store that
  `evict_oldest` and the insertion after it may leave, since keys of one age are in
  the order of a hash map, and `StoreMany` what a run of them may leave. `decrypt` is four actions by the branch it takes; the ratchet step
  stays even if the ciphertext then fails to open, as in the code.
- **TwoStageFinality**: `submit_challenge` is four actions (`ReadBlock`,
  `RegisterChallenge`, `ReportAnomaly`, `SubmitChallenge`), `tick` two (`TickRead`,
  `TickRun`), one per lock. Times are ages; `Recent` is what popping expired reports from
  the front leaves of the anomaly scores, `Total` their sum. `UpgradeFinality` is
  what other engines call: any stage, at any time. A status carries three history
  fields: which registration it is, whether a challenge against that registration
  expired, and the stage `upgrade_finality` set last (`asserted`).
- **HardenedTSC**: `submit_vote` is `ReadVotes` / `VoteLooksUp` / `VoteRaises` /
  `WriteBack` on a clone, `initialize_block` with `track_block` is `InitializeBlock` /
  `ReadLength` / `Register` / `Index`, `create_checkpoint` is `ReadQuorum` /
  `CreateCheckpoint` / `CheckpointLooksUp` / `CheckpointRaises`, one action per lock of
  the tracker. A `get` that times out drops the vote. A partition of the sharded
  state keeps `Capacity` blocks (16 in the code): `Insert` evicts the one used
  longest ago first, the votes of the block it is about to write included. `older`
  is its access order, as a relation. History: `quorum`, the blocks whose quorum
  was computed, and `contended`, the blocks whose initialization overlapped
  another.
- **MessageOrder** and **Resequencer**: one conversation; the conversations share
  nothing. Resequencer is the abstract specification: a message that is the next
  one moves the counter to the least later number that has not arrived, and a
  number that is handed out to the sender is passed over. MessageOrder, sending
  and receiving, implements it (`Ideal`, `Resequences`).
- **…MC** modules hold the constants of the instances, **…_proofs** modules the
  theorems.

## 3. Runs

Passing runs:

| Run | Shows |
|---|---|
| `channel_offchain` | `NoReplay`: whatever mixture of `update_state` and `process_payment`, with repeated, reordered and stray updates, the applied nonces strictly increase from one time the channel stands at the last nonce of the word to the next. `OpenStateIsBacked`: an open channel's state is signed and adds up to the capacity. |
| `channel_dispute` | Two closes, two challengers, a finalisation and a cooperative close interleaved section by section. `FraudIsProved`: every fraud event names somebody who submitted that close, against a newer state both signed, although other closes replace the one that was cloned. `ClosingIsBacked`: status and pending close, under different locks, agree. |
| `bridge` | The bridge with its tracker, three validators of which two finalize. `FinalizedByQuorum`, `QuorumIsNoticed` and `FinalIsForever`, with re-registration, expiry and malformed signatures. `ProvedBeforeExecution`, though proofs may be replaced by weaker ones and transactions revived after a roll-back or a timeout; a proof is final by the requirement of its own chain, which need not be the transaction's (section 7). |
| `sync` | `SubmittedOnce`: with `run()` as the only caller of `process_chain`, an operation is submitted at most once, across adapter failures, passes that abort half-way and completions or failures by other tasks. `QueuesMatchOperations`. `DeadlineIsNoticed` (liveness): an operation that is past its deadline and stays among the first of its queue, as many as a batch takes, is marked or completed; what is behind a batch of timed-out operations starves (section 7). |
| `sync_concurrent` | A second caller of `process_chain` on the same operations. `SubmissionIsSettled`, `SubmitsOnlyFinal` hold. `SubmittedOnce` is *not* claimed here: two calls that both fetched the operation both submit it. Nothing in the repository calls `process_chain` beside `run()`, which is why it is a restriction of the run and not a finding. |
| `order` | Sending interleaved with receiving. `Resequences`: MessageOrder implements Resequencer. `NothingIsLost`: what arrived was accepted or waits, except under a number that was handed out for sending. `AcceptedInOrder`, and `GapsAreReported`: `check_gaps` misses no number that is still to come. |
| `watch` | The monitor against two parties. `ChallengedIsRecorded`: an attempt marked challenged was answered in the manager with a state at least as new as the one it was detected with, although the state, the party and the attempt are read and written in different sections. `BlocksAreProcessed` (liveness): a running monitor gets past every block, whatever is refused or fails. |
| `ratchet` | `ForwardSecrecy`: neither session can derive the key of an opened message, so none opens twice. `FirstDeliveryOpens`: a first delivery opens the message, within `max_skip` and the age and size of the store, until some session has stepped back to an old ratchet key; `StepsBackAreRepeats`: that takes a repeated message or a dropped key. |
| `solana` | `QuorumBehindMint`, `CompletedWasFinal` and `ReturnsOwnMint` through a time-out and a retry, with a second caller of `execute_mint`, late, malformed and repeated signatures of three validators, two of whom are required, and transactions that vanish. `SubmissionReturns` (liveness). |
| `finality` | `StageIsBacked`, `InvalidNeverDeep`, `ChallengeHolds` and `EscalationCovers` with votes, stages set from outside, ticks, challenges, expiry, re-registration and pruning in any order. The first three say what the tracker does by itself, whatever `upgrade_finality` did before. |
| `tsc` | `FinalityIsOwn` and `CheckpointHadQuorum` with votes that overwrite each other, blocks initialized again and by two tasks at once, a partition that evicts and a tracker that is full. Two blocks initialized at once can get one number, and one is then final on the other's votes (section 7); `FinalityIsOwn` says that this stays between them. |

`bridge_rollback`, which expects a violation, is the subject of section 7.

Every property of a passing run has at least one mutant: a mapped definition
replaced by its `Slip`, under which TLC finds the property violated.

CHECK_DEADLOCK is switched off where the bounds, not the code, end a behaviour:
in `watch`, `ratchet`, `solana`, `finality` and `tsc` every further step needs
another event, message, transfer, challenge or vote than the instance has. In
the other runs the clock, or another arrival, can always step.

## 4. Bounds

Each bound is a named constant.

- *PaymentChannel.* Capacity 2 with amounts 1 and 2 reaches exact spending and
  overspending; two payments (`MaxNonce`) and four applications (`MaxApplied`) give
  every order of two updates, the jump to the last nonce and the wrap after it,
  with an update applied again. Two
  closes (`MaxCloses`) let one replace the other during a challenge; two
  callers of each kind interleave. `Word` = 8 makes wrapping reachable with small
  numbers, and `StrayUpdates` supplies updates `create_payment` never makes.
  `DisputeWindow` = 1 tick: before and after the deadline are the only cases
  the code tells apart. The proofs need none of these bounds.
- *BridgeManager with FinalityTracker.* Two of three validators; one hash, since
  hashes do not interact; confirmations below, at and above the requirement;
  two chains that ask for 1 and 2. Validators are symmetric. `executions`
  counts to two, enough to tell once from twice. Here too the proofs cover the
  rest.
- *CrossChainSync.* `sync` has two operations, two chains (one external) and a batch
  and a limit of 1 (10 and `MAX_PENDING_SYNCS`, 1000, in the code). The limit is
  checked under a lock that is released before the push, so both operations can
  be in one queue, which then exceeds the batch and the limit. `sync_concurrent` has
  two operations on one chain with two transactions each, batch and limit 2: a queue
  fits its batch, and two callers work on it. The history holds 1.
  `retry_count` is counted by the code and read by nothing, and is left
  out. `ApiStates` is one state other than TimedOut: `process_chain` never reads
  the state, so the others would behave alike.
- *MessageOrder.* Numbers 0..4 and five waiting messages: every permutation of
  five messages and every duplicate of one or more of them.
- *SolanaBridge.* One operation with one retry (`MaxTransfers` 2), another caller of
  `execute_mint`, one monitor, two transactions: a first transfer minted after its
  submission timed out, and a second one, are both reached. Two of three
  validators are required; two of them send signatures of full length, the third a
  short one, and three entries in all (`MaxSignatures`) reach a quorum of entries
  without one of full signatures, a quorum, and a late entry after it. One
  confirmation suffices.
- *Watchtower.* Three signed states, the last of them by the sender only, one close,
  two close events and two registrations: a stored state that `challenge_close`
  refuses, an event without a close, two events in one range, a registration
  replaced during a challenge. `MaxPayouts` 1, `MaxFraud` 2.
- *DoubleRatchet.* Six messages and seven DH keys: three turns of the conversation,
  with several messages of a chain overtaking each other and the next chain.
  `MaxSkip` 2 and `MaxStored` 2 (1000 and 10000 in the code) put both limits within
  reach, and a full store in which an entry is replaced after a step back.
- *TwoStageFinality.* Two blocks, one of them a checkpoint, two registrations in
  all, two challenges, each enough to escalate to a level that asks for TSC votes
  everywhere, and one call of `upgrade_finality`, to Global or Deep, the stages the
  engines ask for. Two PoRW votes make the threshold, one TSC vote does. `Window`
  is one tick, and ages are capped at the longest window the level can ask for;
  weights are capped at the highest threshold, beyond which they make no difference.
- *HardenedTSC.* Three blocks in one partition with room for two, three
  initializations by two tasks, two stakers who make the quorum only together (or
  one by voting twice), two voters with three votes, one creator that asks for a
  checkpoint height and another one, and a tracker with room for two: two blocks
  under one number, an eviction between a vote and its write-back, and a full
  tracker are all reached. Hashes, voters and initializers are symmetric.

The instances of modules with proofs only find mistakes early: the theorems
have no bounds.

## 5. Fairness

*CrossChainSync*: weak fairness of `RunStart \/ WorkerStep(Run)`. `run()` is a loop
without an exit that swallows every error of `process_chain`, and it is scheduled
by Tokio; the assumption about the outside is that an adapter's call returns, with
an answer or an error, which `SubmissionReturns` shows for the Solana adapter.
Nothing is assumed of other callers, of adapters' answers or of the clock: an
operation is required to be noticed once its deadline has passed.

*SolanaBridge*: weak fairness of the steps of a `submit_operation` call and of its
time-out. The task is scheduled, RPC requests return (the HTTP client of
`solana/rpc.rs` has a time-out of 30 seconds), and the clock runs. Nothing is assumed of validators, of Solana or of
other callers.

*Watchtower*: weak fairness of the monitor's steps, and strong fairness of `Height`: a
height query that is made for ever is answered now and then. Without the latter
the chain might never answer, and no monitor could keep up.

The other modules claim no liveness: their operations are calls somebody else
decides to make.

## 6. Proofs

All theorems are proved by TLAPS with no bound on the constants except the named
assumptions (`ChannelAssumption`, `StrayAssumption`, `TrackerAssumption`,
`BridgeAssumption`, `RatchetAssumption`, `SolanaAssumption`, `FinalityAssumption`,
`TSCAssumption`, `SyncAssumption`, `OrderAssumption`, `TowerAssumption`), which only
give types, finite sets where they are counted or a maximum is taken (`Block`: block
numbers are `u64`), `Capacity < Word`, different parties, positive thresholds and
windows, and that the tracker is given the chat chain's confirmations, as in
`initiate_bls_finality`. TLC evaluates them in the runs.

Every invariant, every action property and both refinements are stated by a
theorem; only the three liveness properties are left to TLC. `retain`, `sort` and `sum` are recursive functions or order statistics in
the models, and what they compute for every input is proved by induction over the
naturals: `NatLeast` (from the library's theorem on well-founded orders) gives
`Induction` for *sets* of naturals, which the provers can instantiate where they
cannot instantiate a predicate.

**PaymentChannel_proofs.** `TypeCorrect` is inductive alone. `Safety` proves
`SafetyInv`:

- `NoReplay` is not inductive: it needs `AppliedUpToState`, that the last applied
  nonce is that of an open channel's state and no other exceeds it, except those
  applied before the channel last stood at the end of the word. "Open" matters:
  `cooperative_close` does take the state back, but it also closes the channel,
  and nothing reopens it (`OffChainStep`).
- `FraudIsProved` needs to know of calls in flight: `ClosesSubmitted` (every
  close that is pending, about to be inserted or held by a call was submitted)
  and `ChallengesProved` (every clone a challenge holds already amounts to
  proof). This is why the clone, and not the close in the map, is the right
  thing to accuse: the mutant that reads the close again breaks it.

`NeverReplayed`, `OpenStateAlwaysBacked` and `FraudAlwaysProved` follow;
`ClosingAlwaysBacked` has a direct induction.

The same module proves the **Watchtower**, which extends the channel. Each step of the
tower is an operation of the channel's manager or leaves the channel alone
(`TowerMovesChannel`): `TowerRefinesChannel` is `WatchSpec => Spec`, and `SafetyInv` holds
with a tower at work (`TowerAccusesWithProof`). `ChallengedAlwaysRecorded` says that an
attempt shown as challenged was answered with a state at least as new. A pass reads the
state, the party and the attempt in different sections, so `TowerInv` follows the pass:
the state it has read covers the last attempt even if the channel was registered
again or updated since (`StateCoversAttempt`, which needs `AttemptsAreOlder`), only the
monitor challenges, and only while it waits (`OnlyMonitorChallenges`), and the call it
waits for has pushed its fraud event, or still has to (`CallAnswers`).

**BridgeManager_proofs.** First the tracker alone. `TrackerInv` adds to `FinalizedByQuorum` that the
signers of *pending* proofs are distinct and registered (`PendingSound`) and that
no hash is both pending and finalized (`NeverBoth`). `QuorumIsNoticed` is its
counterpart for pending proofs: with `FinalizedByQuorum` it says that a proof is
final exactly when it has its quorum, malformed signatures apart.
`FinalAlwaysForever` is an action property that follows. Then the bridge: every bridge step is a tracker step or leaves the
tracker alone (`BridgeMovesTracker`), so `TrackerInv` is inherited. `BridgeInv` adds
`EvidenceComplete` (every proof that counts as final now is in the history) and
`ExecutedIsKnown`. `ProvedAlwaysBefore` is the result, and `BridgeFinalByQuorum` the
tracker's quorum inside the bridge.

**DoubleRatchet_proofs.** `ForwardSecrecyHolds` is the theorem with the longest way to
it. That an opened key is not derivable is not inductive: no later step may bring
the key back. A root only grows, by a DH output at each ratchet step, so its length
serves as a clock. `GivenUp(s, k)` says that session `s` cannot derive `k` and that the
root of `k` is no longer than that of `s`; `Recedes` that a step of a session makes
derivable only keys with longer roots, so what is given up stays given up. `IInv`
says that a sender has given up the key of every message it sent and both have
given up the keys of what was opened, together with `Shape`: the receiving chain
and the stored keys have shorter roots than the session, a stored key lies below
the chain it was skipped on, and no key is stored twice. It holds although a
session can be made to step back: what it then derives has a longer root.

`FirstDeliveryAlwaysOpens` and `StepsBackAlwaysRepeats` need the correspondence of the two
sessions, `Linked`, which holds as long as neither has stepped back. The sessions
take turns: one of them is `Ahead`, its root is the other's with the DH output of the
two present keys added, and the other has seen all its keys but the present one.
So a key that is new to a session is the other's present one, and the receiving chain
it derives is the other's sending chain. What a session has of the other's chains
agrees with them (`Agree`), and every message with a key it has seen was given to it,
has its key stored or still to come, or had it dropped (`AllProvided`). The latter
rests on `pn`: when the ahead session left its previous chain, `pn` was the number of
messages in it, so that the keys stored on the ratchet step are all that chain owes.
`StoreManyLeaves` shows, by induction over the keys to be stored, that there is always
enough to evict, so a ratchet step is refused for `max_skip` alone.

**SolanaBridge_proofs.** `MintHasQuorum` rests on a call that is past its check
having the quorum (signatures are only ever added) and on `OneEach`, that the list of
a transfer names no validator twice: only then are the full entries `execute_mint`
counts as many validators (`Signers`). `CompletedIsFinal` rests on a monitor
asking about a transaction of the transfer it watches, and on confirmations that
never shrink once final; `ReturnsItsMint` on the signature a call or a transfer
carries being that of a mint for the same transfer, and on a transfer keeping the
operation it was made for.

**TwoStageFinality_proofs.** `Inv` has four parts: types, at most one status per
block (`Single`), `AllGood` (votes back what exceeds the stage set from outside, and an
invalid registration is challenged, and Deep only if it was set so), and `OnRecord` / `OnTheWay` (while a challenge is recorded, or a call that
has registered it is under way, the registration it was made against is marked).
The registration number is what makes the last part inductive: without it a
block registered anew would look like an unmarked one under challenge.
`EscalationAlwaysCovers` is an argument about sums: the entries that expire are a
prefix of the queue, the sum of what is left is at most the sum before
(`SuffixTotal`, `RecentTotal`), and the level grows with the sum (`LevelGrows`), so a
level that was enough stays enough while nothing is reported.

**HardenedTSC_proofs.** `CheckpointsHadQuorum` needs `Reached`: whatever says "quorum", the
votes in the map, a clone on its way back or a creator about to act, says so of a
block for which it was computed. `TypeCorrect` and `FinalityIsItsOwn` hold for any number
of initializing tasks. `Numbered(k)` says that the numbers in use are 1..k without a
gap and that no call in flight knows another one, except a `track_block` that is
about to register k + 1: numbers may be shared, but the next one is always unused.
`Owned(k)` says of a block that never raced that no other block is indexed under its
number, no initialization is about to take it, no vote or checkpoint of another
block is on its way to it, and its stage is Pending or it has its quorum (`OwnNumber`);
and of a call that initializes a block alone that the same will hold (`Fresh`).
`QuietStep` says that this survives every step that moves no number.

**CrossChainSync_proofs.** For any number of callers of `process_chain`. `MapsInv` is
the agreement of the operations map, the queues, the additions between check and push, and the
history; with what `retain` leaves of a queue (an induction over its length) it gives
`QueuesAlwaysMatch`. It needs the ids to be fresh: an id that is being added is in no map.
`ClonesInv` says of every call in flight that what it works on was in the map before and,
past the confirmations, that its clone's own transaction was reported final; that
makes `SubmitsFinalOnly` true although `set_source_tx` may change the map meanwhile.
`SubmissionsAreSettled` follows with `SubmittedInv`: what was submitted is never added
again. `AloneSubmitsOnce` assumes `Caller = {}`, that is `run()` as the only caller, and adds
`AloneInv`: the rest of its batch was not submitted. Without that assumption it is
false (section 3).

**MessageOrder_proofs.** `DeliverPendingDelivers` and its companions say what `sort` and one pass of
`retain` do for a vector of any length: the counter moves over waiting numbers only,
stops at the first that does not wait, and what is not passed over is kept. With
it `NeverLost`, `AlwaysAcceptedInOrder` and `GapsAlwaysReported` are inductive or follow,
and `ConversationResequences` is the refinement: the initial state is the abstract one,
and every step is a step of Resequencer or a stutter. That the vector is sorted is
what makes one pass enough. `NothingIsLost` asks for more than the counter knows: `Kept`
says that what arrived is behind the counter or waits, `Accounted` that what is behind
it was accepted or handed out.

**Only model-checked.** `DeadlineIsNoticed`, `SubmissionReturns` and
`BlocksAreProcessed`: liveness under fairness is out of the prover's reach. The finding
of section 7 is a counterexample of TLC. The inductive invariants of
CrossChainSync, MessageOrder, Watchtower and TwoStageFinality and the ratchet's
`Linked` have also been checked with TLC, on the instances of the runs.

## 7. Disagreements between the code and what it says of itself

`bridge_rollback` is a run that TLC refutes: `rollback_transaction` rolls back an
executed transaction, which its comment calls "Rollback a failed transaction".
`PROJECT.json` quotes the lines.

The same models reach the following states, for which no run is kept; the
properties above are stated so as to be true beside them.

| The code | says |
|---|---|
| `cooperative_close` takes an older state (`payment_channels.rs:814`); after a jump to the last `u64`, which `update_state` accepts with the sender's signature, `process_payment` asks for nonce 0 (`:540`), and old updates can be applied again | "Monotonically increasing nonces prevent replay attacks" |
| a transaction from the currency chain is executed on a proof that names the chat chain, or on a BLS proof, with the chat chain's fewer confirmations (`lib.rs:338`, `:352`) | "Get the required confirmations for finality on this chain" (`lib.rs:121`) |
| a challenge checked in time marks the channel Disputed after it was paid out (`payment_channels.rs:735`) | "Close was challenged, cannot finalize" |
| a batch of timed-out operations is processed for ever, and nothing behind it (`crosschain_sync.rs:506`) | "Process pending operations for a chain" |
| sending moves the counter onto a waiting message, which then stays, or past one that has not arrived, which is then dropped as a duplicate (`ordering.rs:98`, `:64`) | "Deliver all consecutive messages", "Duplicate or very old message, ignore" |
| `upgrade_finality` sets any stage: without votes, and Deep for a block that is challenged or was invalidated (`two_stage_finality.rs:839`) | "Can only go forward, not backward" (`:103`) |
| a Deep block that is challenged goes back to Pending when nobody answers (`two_stage_finality.rs:1032`), and a late vote takes it back to Global (`:845`) | "Is block deeply finalized (irreversible)?", "Can only go forward, not backward" |
| a repeated vote counts again (`integration.rs:1169`) | "51% of total stake power required for TSC" |

Further places where the model shows the code to promise less than a reader
might expect; they are described with the hazards, and the properties above are
stated so as to leave them out:

- a cooperative close leaves a pending unilateral close that can be finalised too;
- `process_payment` stores an update whose receiver signature it did not verify;
- the sum of the balances wraps (`OpenStateIsBacked` is in the code's arithmetic);
- a malformed signature stays in a proof and blocks it (`QuorumIsNoticed` excepts it);
- a signer registered after a proof was created is missing from the proof's keys;
- `mark_ready_to_execute` accepts an executed transaction;
- an older proof with too few confirmations hides the tracker's finalized one, and
  one chain's requirement is applied to another chain's transaction;
- the limit on pending operations is checked under a lock that is released before
  the push, and `can_retry` is never asked;
- after a time-out the first Solana transfer can still be executed, and the retry
  mints again; a late signature sets a minted transfer back to ReadyToExecute; one
  burn on Solana can be named by several transfers;
- a message of an old chain that is delivered again, or late, takes a ratchet
  session back to a key it has left, after which the two sessions do not agree;
- a challenge whose bond is too low leaves the block challenged for good; a
  challenge expires on whatever registration has the number by then; a block that
  becomes Deep on a vote is not entered in `finalized`; nothing calls `tick`;
- two `submit_vote` calls on one block lose a vote, and so does an eviction; two
  `track_block` calls take one number, and one block is then final on the other's
  votes; a checkpoint is filed under whatever height the caller gives;
- the watchtower's monitor skips the blocks of a query or a challenge that failed,
  looks at the first close event of a range only, forgets fraud attempts when a
  channel is registered again, and ignores a `stop()` that comes before `start()`;
- a stale duplicate in `pending_messages` makes `check_gaps` report accepted
  numbers (`GapsAreReported` is about the others).

## 8. Not modelled

Cryptography is abstracted to whether a signature parses and verifies, and in the
ratchet to symbolic keys. Creation of a payment channel is its initial state, and
several channels would share nothing. Of the bridge manager, the stake register
and the append-only `sync_state` log are left out, as no modelled operation reads
them; of the sync manager, `DeltaSync`, a digest over a list; of the Solana bridge,
the validators map and the queries; of two-stage finality, `submit_response` and
`resolve_challenge`, which its tracker does not reach, and `finalize_checkpoint`,
which nothing calls; of the ratchet, serialisation, X3DH and forged messages (every
header in the model is genuine, so what an unauthenticated ratchet step does on a
forged one is not covered). SolanaBridge is not
composed with CrossChainSync in one specification: the adapter's interface is small
(a call returns a signature or an error), and each side states what the other
assumes.

Of the remaining components: delivery tracking is one field overwritten by
whatever arrives last, offline queues are sequential, vote persistence is a
database's business, slashing is two append-only maps, and the multi-signatures
repeat the finality tracker's threshold with a configuration snapshot. The
repository's larger part, by lines, is I/O over third-party stacks (network,
storage), user interfaces and SDKs, command-line programs, serialised types, and
arithmetic over stakes and fees; `PROJECT.json` lists each with its reason. These
have little state that several actors change in an order that matters, which is
what this project is about.

## 9. Plan

In the order of their worth:

1. An abstract bridge of "final, then executed" that BridgeManager and SolanaBridge
   both implement.
2. Further candidates: escrow in the marketplace, proposals in governance, the
   multi-signature rotation.
