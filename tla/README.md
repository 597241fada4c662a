# A TLA+ verification of deadmkt-node

deadmkt-node is the peer of a batch-auction exchange. Each node trades for one
NFT. Time is cut into batches of blocks; a batch has four phases. In Commit a
node asks its strategy for orders and gossips their hashes, in Reveal it gossips
the orders, in Match every node runs the same matching engine over the reveals
it holds, and in Swap the gas payer of each match submits it to the settlement
contract. There is no leader: what the nodes agree on, they agree on because
each computes it from the same input.

This directory holds the TLA+ modules of that system, the TLC runs that check
them, and the TLAPS proofs. `PROJECT.json` relates every definition to the lines
it models, every run to its properties, and every hazard of the code to the
properties that would catch it.

    tlc -config SettlementNode.cfg MCSettlement     # one of the runs
    tlapm SettlementProofs.tla                      # one of the proof modules

## Inventory

| Component | State | Operations | Interacts with | Correct if | Module |
|---|---|---|---|---|---|
| EscrowTracker (`crates/escrow_tracker`) | per token: confirmed, pending_out, pending_in, earmarked | reserve, track inflow, confirm, release, earmark, release earmark, apply_match | called by SettlementManager under a mutex | reservations are covered; no half entry; credits are real | EscrowTracker |
| SettlementManager (`crates/settlement/src/lib.rs`) | pending map | register, skip, confirm by event, fail, expire, mark submitted, backstop | run loop, tracker | pending map and tracker agree; every entry ends | Settlement |
| Settlement worker (`worker.rs`) | two bounded channels, verification tasks | submit, verify, report | run loop by channels; chain | a match is submitted once; late results do no harm | Settlement, TxSenders |
| Matching engine (`crates/matching`) | books, indices, remainders | sort, self-trade skip, dust skip, fill | called by the orchestrator | deterministic, legal, complete, ends | Matching |
| Orchestrator (`crates/orchestrator`) | committed orders, current matches | four phase handlers, chain events | run loop, bridge, matching | matches what was revealed | BatchRound |
| GossipValidator, GossipBridge (`src/run.rs`) | dedup sets, counters, key cache, stores | accept commit, accept reveal, expire, fetch keys | gossip task by channels | accepts each authentic reveal once | BatchRound |
| Run loop (`src/run.rs`) | last block, phase, batch, pool, event cursor | three select arms, batch boundary | everything | phases in order, nothing lost that cannot be recovered | BatchRound, Settlement, NodeLife |
| Strategy server (`crates/strategy/src/server.rs`) | connection, three channels | accept, authenticate, forward, request with timeout | run loop, token worker, external bot | an answer belongs to its request; nobody waits for ever | StrategyLink |
| Order conversion (`crates/strategy/src/convert.rs`) | cumulative outflows of a Commit answer | parse, convert, value, validate | run loop, tracker | what is accepted can be reserved | OrderIntake |
| Transaction senders (`worker.rs`, `token_worker.rs`, heartbeat, commands) | cached sequence number, lock | submit, wait | chain | no two pending transactions with one number; no lasting gap | TxSenders |
| Boundary duties, node state, gas manager (`src/run.rs`, `crates/node_state`, `crates/gas_manager`) | epoch, balance, pause flag, state | refetch, heartbeat, liveness check, pause | run loop, chain | the NFT stays active; commits only with gas | NodeLife |
| Setup (`crates/setup`, `src/setup_bridge.rs`, `crates/keystore`, `crates/config`, `src/main.rs`) | keystore.json, config.json, setup.json | four modes of setup, each step of them | chain, operator | no key is lost; a configuration is true; repeating works | SetupChain, Setup |
| Not called by the node | `batch_state`, `gossip_validation`, `storage`, `chain/src/poller.rs` | | | | none |

What is hard here: the run loop awaits RPC calls while the workers, their
verification tasks and the chain move on; channels drop or block when full; an
RPC error says nothing about whether a transaction was accepted; events may be
missed; a node that is slow misses phases and whole batches; gossip loses,
repeats and reorders; five senders share one sequence number; a strategy may be
slow, silent or gone; setup may die between any two transactions; nothing but
two files is persisted.

## Modules

**EscrowTracker** models the tracker. A `HashMap<match_hash, amount>` is the set
of its keys, because the amount is a function of the match (`OutAmount`,
`InAmount`). A buyer reserves at its own limit price and the settlement happens
at the midpoint, so the amounts differ. The value of a fill is exact in
`QuoteValue` and cut to a word, as `as u64` does, in `QuoteAmount`; the chain
pays the exact one. `saturating_sub` is kept. The start-up reading passes
through an f64 (`Seeds`).

**Settlement** extends it with the manager, the worker, the run loop's Swap
handler and steps 8d (results) and 8e (events), and the chain. One iteration of
the loop is cut at its awaits: `BlockUpdate` (skip-ahead, expiry, taking the
matches), `SwapRefused`/`SwapRegistered`/`SwapSkipped` per match, `DrainResult`
per result, `PollEvents`, `HandleEvent` per event, `IterationDone`. Between any
two of them `WorkerSubmit`, `WorkerSend`, `VerifyFailed`, `VerifySilent` and the
chain's actions may happen. `BackstopSubmit`, `EarmarkWithdrawal` and
`ReleaseEarmark` are operations of the two crates that `run.rs` does not call;
constants turn them on. `Restart` forgets everything and reads the balances
again. The chain and the contracts are external: a transaction is executed,
aborted with a code, or dropped, and a match is settled at most once.

**HeldFunds** is the abstract specification: holds within what is available,
holds that end without a credit, restarts, and credits. A credit uses up the
unread event of a trade that happened, and is the inflow of a held match alike
in all the event reports (`Reported`: batch, parties, quantity); an event that
was read or missed never counts again. That the match is the one the event is of
is not promised, because the lookup of `on_settlement_confirmed` cannot tell
(`SettlementTwin.cfg`). `Settlement!ImplementsHeldFunds` maps `confirmed`,
`pending`, `earmarked`, `settled` and the events on their way or fetched to it.

**Matching** is `run_matching`: one step per turn of the two-pointer loop. Order
hashes are numbers, since they are compared; match hashes are the triples they
are computed from. Prices are added modulo `Modulus` (2^64). **MatchingNodes**
runs two instances on rearranged reveals. The calls share nothing, so the order
of their turns makes no difference and the two take them together; a node that
has finished waits for the other.

**BatchRound** is the commit-reveal-match round of several nodes: block arm,
gossip arms, validator, bridge and phase handlers. An order is its NFT, the
batch it was made for and its index. `net` is the set of all published messages;
`Deliver` may take any of them at any time, again and again, and losing one is
never delivering it. Besides the nodes there are participants that run another
program (`Stray`). `PublishStray` puts what they send on the network: an order
never committed, an order of another batch than the message's, another's reveal
once more, an order in a node's name without its signature. They have no
node's key, and that is all that limits them, for the code compares no reveal
with a commit and no order's batch with its message's. A node may jump to any later block. A transition is cut in
two, `EnterPhase` (batch boundary: validator, key fetch, pool) and the handler,
because messages that arrive during the boundary's awaits are drained by the
handler. `StaleBlock` is the wake-up without a newer block.

**SetupChain** is the chain as setup sees it: accounts, NFT, escrow and token
contracts (external) and `SupraSetupClient`. A view that fails returns its
default (`Sees`), a transaction the client stopped waiting for is an `orphan`
that may still be executed. **Setup** is the wizard and the three modes without
prompts (fresh, assisted, restore): one action per step, each followed by its
wait. `Crash` may happen at every step and the operator may run any mode again.
`todo` is the rest of a deposit, `overwritten` the keys the wizard wrote over.

**TxSenders** has the five senders of the account: settlement worker (with its
cached `next_seq`), token worker, auto-claim, run loop and one command beside
the node. Each acquires the lock if it uses it, takes a number, submits, and
waits or not. Numbers are relative to the account's, so executing a transaction
moves all of them down. The mempool is external: a number may be taken, below or
ahead of the account's; a pending transaction is executed in order or expires.
`beat` is what the loop knows of its heartbeats: none are sent without capital at
the start (`StartCapital`), and none for an interval after a confirmed
settlement, whoever paid for it (`SettlementConfirmed`, `IntervalOver`).

**StrategyLink** is the connection: acceptor, handler, the three channels, the
run loop as far as it sends events and waits for answers, the token worker and
the lock it shares with the settlement worker. Asks are numbered so that a late
answer can be recognised, which the code cannot do. The bot is assumed to answer
each ask at most once and in order: the server would forward an unsolicited or a
repeated Commit or Reveal just the same.

**NodeLife** is one iteration of the loop per block with everything a batch
boundary does in its order: epoch refetch (two calls, either may fail), gas,
heartbeat, liveness check, pause; then the node state machine and the Commit
phase. The contract reaps an NFT whose last heartbeat is older than `Timeout`
batches. The start reads gas and escrow, and either view may fail; `has_capital`
is not read again, so that a node that saw no escrow sends no heartbeat for its
whole run. A settlement that confirms a pending match sets
`last_settlement_batch`; it refreshed this NFT if it was its own trade
(`TradeSettled`), and did not if it was of two others (`OthersSettled`). The chain
refuses transactions when the gas is gone, and a reactivation also because of
the escrow, the grace period or the holding period (`Refusals`). `missed` counts
the heartbeats left out or refused for these causes since the last refresh; it
is the model's, not the code's. `params` is the loop's epoch and `bridge` the one inside the
orchestrator. Phases after Commit are one phase here.

**OrderIntake** takes a Commit answer from text to reservations. A decimal is
its integer part, its fraction and the number of places; the base is a constant
and `Pow` its powers, and the word is a constant: what is a u64 in the code is taken modulo `Word`, which is
what the release build does. The accepted orders are then filled in any split
and at their limit price, as `apply_match` reserves a buyer, while fills of
earlier batches are confirmed or released and matches of two other NFTs of the
pool are booked beside them as sales of this node (`RegisterOther`, counted per
token in `others`).

**SettlementProofs**, **MatchingProofs**, **BatchRoundProofs**, **SetupProofs**,
**TxSendersProofs** and **NodeLifeProofs** hold the theorems about the modules
they are named after, **StrategyProofs** those about the two modules of the
strategy crate, StrategyLink and OrderIntake, which is why the state of
OrderIntake has names of its own (`intakeVars`, `IntakeSpec`). **Sums** holds
what the others need of sums over finite sets and of induction. **MCSettlement**, **MCMatching**,
**MCBatchRound**, **MCSetup**, **MCTxSenders**, **MCStrategyLink**,
**MCNodeLife**, **MCOrderIntake** are the instances. Definitions
marked `Mutant:` are wrong variants of the definition that follows; each makes
one property fail.

The modules share the chain, not their variables: BatchRound, Settlement and
NodeLife each contain the part of the block arm they need, cut at the awaits
that matter to it, and each allows the jumps over blocks the others allow.

## Runs

Passing runs:

| Run | Shows | Bounds |
|---|---|---|
| settlement_node | the pipeline as wired: type invariant, `ReservationsMatchPending`, `SubmittedAtMostOnce`, refinement of HeldFunds, `PendingResolved` | 3 matches in 2 batches (one listed twice), channels of capacity 1, event limit 1, 8 blocks; 169,829 states |
| settlement_api | `Solvent` and the refinement with backstop, withdrawals, a restart, lossy seeding and matches settled by peers, one of them between third parties | 2 matches, 5 blocks, 1 restart; 496,801 states |
| matching | legality, agreement of two nodes, termination; no overfill and unique hashes for orders revealed once; completeness and priority without duplicates | every set of at most 4 of 10 orders plus one with a duplicate, second node in every arrangement; 25,059 states |
| round | validator bookkeeping, key fetch in time; what is matched is the node's own or was signed by its owner and revealed for that batch, and a node's name is only on what it committed | 2 nodes, one trading, and a stray with 2 messages, 3 batches of 4 blocks, change of pool in the second; 2,346,278 states |
| setup | the NFT's key is kept, the configuration agrees with keystore and chain, no step is skipped, setup completes | 2 keys, 1 foreign mint, 1 fault; 298,130 states |
| tx_senders | senders that wait under the lock never collide; a gap closes, for a node with capital at its start and no further settlement sent or confirmed | 5 senders, numbers at most one ahead, 1 fault; 690,624 states |
| strategy_link | a late answer is behind by no more than the timeouts; run loop and settlement worker come back | channels of capacity 1, 2 batches, 1 token action, 1 chain event; 224,372 states |
| node_life | reaped only for a named cause, recovers or is refused in time, pauses in time, state follows the connection | 28 blocks and a jump of at most 5, batches of 2 or 3, 2 changes of the world, 1 fault; 2,881,097 states |
| order_intake | a fill of an accepted order can be reserved unless an amount wrapped or a match of others took of its token; conversion only rounds down | 2 batches of 2 orders, one match of others per token and batch, words of 3 bits; 3,316,365 states |

Violation runs, each for one sentence of the code's own documentation:

| Run | Sentence | What happens |
|---|---|---|
| settlement_third_party | the tracker is "for this node's NFT" | `register_match` books a match of two other NFTs as a sale |
| round_selective | same reveals, same match list | a node matches its own orders that it did not reveal |
| params_drift | "the snapshot stays consistent with the phase + batch_id we just transitioned into" (`src/run.rs:1543`) | after a change of `blocks_per_batch` the loop uses the new epoch and the bridge the old one |

### Configurations to run by hand

These configurations are kept beside the runs. Each checks one more sentence,
and TLC finds it violated:

| Configuration | Sentence | What happens |
|---|---|---|
| `SettlementProjected.cfg` (MCSettlement) | `confirmed` is the "On-chain confirmed balance" (`escrow_tracker/src/lib.rs:63`) | `confirm_settlement` adds the inflow and never deducts the outflow |
| `SettlementOutage.cfg` (MCSettlement) | "trade DID settle. Don't reverse outflow." (`settlement/src/lib.rs:17`) | expiry runs before the event poll of a node that was away |
| `SettlementTwin.cfg` (MCSettlement) | "Find the pending map key that matches a BatchTradeSettledEvent." (`settlement/src/lib.rs:890`) | the field scan ignores the market |
| `RoundDedup.cfg` (MCBatchRound) | "Safe because old batches are already outside the window." (`src/run.rs:309`) | hashes of batches inside the window are cleared, too |
| `TxCollision.cfg` (MCTxSenders) | "Shared lock prevents sequence number collisions between token worker and settlement worker" (`src/run.rs:885`) | the settlement worker releases the lock (`worker.rs:162`) when its transaction is submitted, not executed; the token worker then reads the same number |
| `StrategyBlocks.cfg` (MCStrategyLink) | "Timeout = skip, never block" (`strategy/src/server.rs:7`) | `send_event` blocks when the event channel is full and no strategy reads it, and with it the loop and its heartbeats |
| `LifeRefreshed.cfg` (MCNodeLife) | "Settlement is an implicit heartbeat on-chain. Track it so we can skip redundant explicit heartbeats." (`src/run.rs:2325`) | the settlement of a booked match of two other NFTs is tracked, too, and refreshes nothing |
| `OrdersPayable.cfg` (MCOrderIntake) | "Orders validated before signing (pair active, price>0, qty≥min, balance)" (`strategy/src/convert.rs:6`) | the outflow is cut to u64 (`convert.rs:189`) and the sum wraps (`convert.rs:267`), so that orders the balance cannot pay are accepted |

`RoundStrays.cfg` (MCBatchRound) is one more that TLC finds true: the matching
input with a stray that also repeats a node's reveal in another pool and in the
next batch, for nodes that never share a pool (771,267 states).

### Bounds

The constants of the code are scaled down with the ratios that matter kept.
Settlement: two blocks per batch, the second one Swap, so that every boundary,
the jump over more than two batches and expiry (100 batches in the code, 1 here)
happen; capacity 1 makes every channel full; `EventLimit` 1 (50) cuts a poll
off. `ContractMaxAge`, the age up to which the contract settles, is at most the
expiry age. In settlement_node and settlement_api expiry and contract age are
equal; in `SettlementOutage.cfg` the contract settles only in the match's own batch
and the trace needs a node that is away for longer than the expiry age.
BatchRound: `BATCH_WINDOW` 2 (5), `PUBKEY_FETCH_INTERVAL` 1 (3), rate limit 3
(10), skip-ahead after 1 batch (2), batches 2 to 4, start in the Swap phase of
batch 2: a window boundary, a periodic clear of the hashes, a skipped batch, a
full counter and a failed fetch are all reached. Matching: four orders are the
smallest number with a partial fill on both sides next to a self-trade or dust.
Setup: balances are small numbers with the fee 3 and a transfer of 5, so that
70 per cent of the balance read before the fee may be more than what is left; a
second key is enough for an overwritten keystore, one foreign mint for a wrong
id. One fault per behaviour is one failed call, timeout, crash or wrong
password, at any step. TxSenders: with numbers one ahead of the account a lost
settlement, its gap and the filler are all there. StrategyLink: capacity 1 (32)
makes every channel full; two batches are four asks, so that a late answer can
be read as the answer to the same kind of ask of the next batch. NodeLife:
heartbeat every 3 batches (10) against a timeout of 9 (50), liveness check every
3 (50), gas every 3 (10); the assumption `Timeout >= (2 + MaxFaults + Spare) *
Interval` holds in the code for faults in a row and missed heartbeats of
together at most 3. OrderIntake: binary digits and
words of 3 bits, where a product and a sum both leave the word.
`MaxHeight`, `MaxBlock`, `MaxRestarts`, `MaxReveals`, `MaxMoves`, `MaxBatch`,
`MaxOthers` and `MaxFaults` only cut the exploration. No run uses symmetry. NodeLife and
OrderIntake end at their bounds and are run without the deadlock check.

In the settlement runs `TradeIdIsKey` is FALSE, so that every confirmation takes
the field scan, and `Word` is 8, which no amount reaches; the proofs are for
every word. The matches of settlement_node and settlement_api differ in the
scanned fields. Matches that do not are in `SettlementTwin.cfg`, and the
refinement theorem does not exclude them.

### Fairness

`FairSpec` of Settlement: weak fairness of `ChainTick` (the chain produces
blocks) and of the run loop as one task (`LoopStep`). No worker, verification
task, transaction or event is assumed to succeed. `StableHeight` is the height
from which the loop is at most two batches behind: without it a node that is
for ever too far behind would skip every boundary and expire nothing, which the
code permits. `NodesSpec` of Matching: each call of `run_matching` is executed
to its end. `FairSpec` of Setup: the process runs, blocks are
made, holds end, and an operator without a configuration funds the key and runs
the wizard again ("You can re-run 'deadmkt-node setup' to try again.",
`main.rs:120`); which password is typed and which call fails is free. `FairSpec`
of TxSenders: a heartbeat when one is due, the end of the interval that a
settlement keeps it quiet, the tasks of the node, block production, and strong
fairness for the lock, which tokio's mutex hands out in order; the strategy and
the command owe nothing. No heartbeat is owed without capital at the start or
during the interval after a confirmed settlement, so `GapCloses` is about a node
that had capital and has no further settlement sent or confirmed. It also takes
for granted gas for the heartbeat: an account that stays without any sends
nothing that could close the gap.
`LiveSpec` of StrategyLink: the node's tasks, and a strategy that connects again
when its connection is gone or stuck. `FairSpec` leaves the strategy out, and
under it the loop may stop for ever (`StrategyBlocks.cfg`). The bounds in
NodeLife take the place of fairness: its three promises count batches.

## Proofs

Every theorem below holds for every value of the constants that satisfies the
named assumptions of the modules it is about (`TradeAssumption`,
`DivisorAssumption`, `SettlementAssumption`, `SwapListsAssumption`;
`MatchingAssumption`; `RoundAssumption`; `SetupChainAssumption`,
`SetupAssumption`; `TxSendersAssumption`; `LinkAssumption`; `LifeAssumption`;
`IntakeAssumption`). TLC evaluates these on every run. They are types and
positive divisors, but for six: base and quote of a trade differ, the keys of
setup are finitely many, `NoKey` is not a key, `Timeout` is at least
`2 + MaxFaults + Spare` heartbeat intervals, a quote token has no more decimals
than base token and price together, and a stray is no node and publishes as
itself (`StrayAssumption`). Some theorems have a hypothesis of their own, named
in the statement: `PricesFit`, and in NodeLife `OutagesWithin`, `EpochFetched`
and one batch length. The conditions that are part of a property are in its
definition: `RevealedOnce` of the orders concerned in `NoOverfill` and
`UniqueMatchHashes`, `DistinctReveals` and `OneSided` in `NothingLeft` and
`PriorityKept`. Each invariant was checked
with TLC before it was proved.

**Settlement** (SettlementProofs). `TypeCorrect` and `ReservationsAgree` come
from `SettlementInv`: the type invariant, `LoopConsistent` and the agreement
itself. `LoopConsistent` is needed because the Swap handler takes the head of its
list and the poll a prefix of the events. The type invariant holds
`submitted \subseteq pending`, so it is not only about shapes.
`ReleaseKeepsAgreement` and `ConfirmKeepsAgreement` carry the argument for abort,
expiry and confirmation. A refused registration leaves nothing behind because,
under the agreement, a match without a reserved outflow has no tracked inflow
either: the early return between the two calls of `apply_match` is never taken.

* `SubmittedOnce`, from `OnceInv`: a match is queued at most once, and a queued
  one was taken by a Swap phase and has no transaction yet; a match no Swap phase
  took is unknown to the manager and the chain; and the rest of the list a Swap
  phase works on is either pending already (the second copy of a match, which
  `register_match` refuses) or was never queued.
* `AlwaysSolvent`, from `SolventInv`: the pending map is finite and what is
  reserved is covered. That is a statement about a sum over the pending map, and
  finiteness is a part of the invariant since a sum over an infinite set is
  nothing. `Outflows` and `ProjectedExact` say how the sum moves when a match
  enters or leaves; under `Solvent` the saturating subtractions of `projected()`
  are exact, which the bound on a new reservation needs.
* `RefinesHeldFunds`: every step is a step of HeldFunds or a stutter, with no
  hypothesis on the matches. The step that credits needs `EventsHappened`: what is
  polled or fetched was settled, and there is one event for each trade, either
  fetched or not, so that handling one uses it up. What the lookup compares is
  what makes the credited match alike with the event's (`ConfirmCredits`).

**Matching** (MatchingProofs). `MatchingInv` adds to the types that the books
hold orders of one symbol and of their side; `MatchingTypeCorrect` follows, and
`MatchesAreLegal` under `PricesFit` (twice a price stays below the modulus).
Without `PricesFit` the midpoint wraps and the statement is false.

* `NeverOverfilled`, from `LedgerInv`: the books hold every revealed order of
  their symbol, best price first and once if it was revealed once (`BookInv`),
  and the fills of such an order and its remainder at the pointer add up to its
  quantity, while orders behind the pointer and of later symbols have no fill
  (`CountInv`). Fills are a sum over the list of matches. Nothing is assumed of
  the other orders: a reveal that is stored twice, as `RoundDedup.cfg` shows it
  can be, may overfill its own order and no other.
* `MatchHashesUnique`, from `PairInv`: the pointers have passed every matched
  pair of orders revealed once.
* `NothingLeftOver` and `PriorityAlwaysKept`, from `DrainInv`: when no order is
  revealed twice and nobody trades with himself, an order the pointer has passed has less than the minimum left,
  and of two crossing orders of a finished symbol one is drained or both are in
  the books. That the books are sorted is what makes the end of the loop mean
  something: an order that no longer crosses is followed by none that does.

* `NodesAlwaysAgree`, about the two nodes of MatchingNodes. The sort is defined
  by what it returns, some arrangement in which no order stands before one that
  goes first. `ListsInOrder` shows that there is only one, with a pigeonhole: if
  two arrangements differed in place k, the second would have to put the k first
  orders of the first into fewer than k places. Price and hash order any two
  different orders, and copies of one order cannot be told apart, so no
  assumption on duplicates is needed. `SameBook` carries this over the
  rearrangement of the reveals; then `SameRun`, that both nodes are at the same
  place, is preserved by every turn.

**Sums.** The fold over a finite set is defined with a choice of the next
element, so the provers know nothing of it. `SumUnique` shows that any two orders
of adding give the same number, `SumExists` that there is one, `SumAdd`,
`SumRemove`, `SumMono` and `SumCongruence` are what the other modules use. Each is
an induction over finite sets, done as a least counterexample (`MinimalSet`),
because the library's induction rules cannot be instantiated.

**BatchRound** (BatchRoundProofs), all from `RoundInv`, for every set of strays
and of messages they may send. `InputAuthentic` is about the matching input, and
its evidence was published long before: `StoreHonest` says that what is stored
for a batch was revealed with its owner's signature in a message of that batch,
`NetHonest` that a node's signature is only on orders the node committed, however
often others repeat it, and `OwnCommitted` the same of the node's own orders. It
does not say that a stray's order was committed or made for the batch: no check
in the code does. `KeyFetchedInTime` needs
`QueuedSince` (who is queued was heard since the last fetch). `SeenIsStored` and
`CountsMatchStore` carry each other: the limiter's slot, the dedup entry and the
stored message are taken, undone and expired together.

**Setup** (SetupProofs), all from `SetupInv`. The wait after a transaction and
the crash at every step make the difficulty: a transaction sent by a run that
is gone may be executed during the next. `LiveTx` and `SignedByKnown` relate the
mempool to the key on disk and to the process, `AnswersHold` says that an answer
the process has not read yet is still true of the chain, and `StageDone` and
`OwnNft` what each step may rely on. `MintBound`, which the type of the NFT ids
needs, counts the owners of NFTs.

**TxSenders** (TxSendersProofs), from `SendersInv`: a pending transaction with an
owner means that its owner waits for it (`OwnersWait`), and a sender that waits
holds the lock (`LockHeld`).

**StrategyLink** (StrategyProofs), from `LinkInv`: the numbers of the asks
under way rise along the path from the run loop's receive to the node's send
(`Ordered`), and those older than the current one are no more than the waits
that timed out (`Recent`). `LagIsBounded` is an action property.

**NodeLife** (NodeLifeProofs), from `LifeInv`: the anchor of every copy of the
epoch parameters lies in the past (`Anchors`), so that no batch computed from
half-new parameters is too large, and the counters fit the batches.

The three promises (`NftKept`, `NftRecovers`, `TradingPauses`) are one argument
about a duty that is due every k batches. `Slack(k, r)` is the most batches that
can have passed since it was last served: the distance between chain and loop,
plus the batches since the loop was last in a batch of the schedule, plus k for
every fault that has done its harm. A fault is a failed call, a restart or an
outage, and an outage does its harm only when the loop has jumped over the
missed batches (`Unspent`), which is why the slack is not simply `k * faults`.
`SlackStep` shows, step by step, that a new batch raises the slack by what it
raises the age of the duty, that no other step lowers it, and that an iteration
either serves the duty, fails at the price of a fault, or is not due. It never
passes `k * (1 + faults)` (`SlackBound`).
`BeatsInv` then bounds the age of the last heartbeat by the slack, one interval
less one batch, for heartbeats left out because of a settlement that was one, and
one interval for each heartbeat missed; with `Timeout >= (2 + MaxFaults + Spare)
* Interval` that is within the timeout as long as no more than `Spare` are missed
(`WithinTimeout`). So `NftKept` says why an NFT is reaped: the node saw no escrow
at its start, took settlements of others for heartbeats, or had no gas.
`NftRecovers` promises an answer to a reactivation, not its success: the chain may
refuse it for good. `WaitsInv` and `PauseInv` do the same for an inactive NFT and
for gas. `CommitAtBoundary` is needed for the last: the commit phase begins at a
batch boundary, where the pause flag is set anew from the balance.

The hypotheses are about what a fault may cost. `OutagesWithin(k)`: one outage is
no longer than k batches of any length; a longer one would have to count as
several faults. `[]EpochFetched`: after an iteration the loop has the chain's
parameters. A failed refetch right after a change of `blocks_per_batch` breaks
it, and until the next boundary the loop then numbers batches differently from
the chain, so that a schedule modulo k says nothing in terms of the chain's
batches. Without such a change it holds (`OneLengthFetched`), and `PromisesKept`
states the three promises without it. On the instance of the node_life run, where
the length does change and a fetch may fail, TLC finds them true anyway.
`OneLengthAgrees` is the counterpart of the params_drift run: without a change of
`blocks_per_batch` bridge and loop are always in the same batch.

**OrderIntake** (StrategyProofs), from `IntakeInv`.

* `TextsFloored` rests on `ParseFloors`, a fact about `parse_decimal_to_fixed` for
  every text, number of places and number of decimals. The powers are a recursive
  function, so its equation has to be proved first (`PowUnique`, `PowExists`,
  `PowStep`: any two tables of powers agree, there is one of every length, and
  `Pow` is their union), and then `PowSum`, which moves the point. Each is a
  least counterexample in the naturals (`LeastNat`).
* `AcceptedFillsReserved` follows an amount through three forms. While the answer
  is validated the running sum is the cost of the accepted orders and the balance
  they are compared with is what is not reserved (`CheckedInv`); while they are
  matched, what is reserved and what the orders may still cost are covered
  together, for every token of which no match of others took (`CoveredInv`). A fill moves an amount from the second to the first,
  and may do so because the parts of an order cost no more than the whole, each
  being rounded down (`OutflowSplit`). `Backed` is needed for a batch with a
  wrapped amount, after which the next batch must start from sound reservations,
  and `FittingInv` for `as u64` to be the identity on every part of an order
  whose whole fits. Reservations are a sum over a bag (`ReservedMore`,
  `ReservedLess`), costs a sum over a sequence (`NeedsAppend`, `NeedsFill`).
* `PayableUnlessWrapped` is the counterpart of `OrdersPayable.cfg`: if nothing
  wrapped, the accepted orders can be paid, so wrapping is the only cause.

Only model-checked: liveness (`PendingResolved`, `MatchingEnds`, `SetupCompletes`,
`GapCloses`, `LoopReturns`, `SettleReturns`), which is out of the prover's reach.
Every invariant and action property of the passing runs, and the refinement, is
proved.

## What is not modelled

The components marked not_modelled in `PROJECT.json`: the crates `batch_state`,
`gossip_validation` and `storage`, which no code of the running node calls, the
status endpoint, which nothing reads back, and the bots, which are clients. And
within the modelled ones:

* Settlement and BatchRound: the isolation counters of the manager; encodings,
  hashes and signatures (identities and a flag); the price divisor's exponent (a
  constant); epochs are fixed in a run; an f64 reading above 2^53; strategy
  choice (nondeterministic). A reveal list that names one index twice publishes
  the same message twice, which `Deliver` covers.
* Setup: the mainnet funding loop, which waits for a token list that
  `get_all_balances` always leaves empty; prompts whose answer no later step
  depends on; the amounts of the mint beyond their sum. The restore mode writes
  a configuration from the chain without the checks its comment lists, which is
  why `ConfiguredMeansReady` excepts it; an id that cannot be read is 0, which
  `ConfigMatchesKeystore` allows.
* TxSenders: what a transaction does, and that it may be refused for want of gas;
  every command is the submission it ends with. The expiry of a transaction is a step of its own, not a clock.
* StrategyLink: answers the bot was not asked for, or gives twice; the WebSocket
  frames; a message `from_json` cannot read is
  dropped there. Every wait may time out at any time.
* NodeLife: the relay (bootstrap) mode, the refetch of the heartbeat interval
  every 100 batches, the governance pause of the contracts, and the states
  Paused, Limited and Shutdown of the node state machine, which `run()` never
  enters.
* OrderIntake: decimals that could not be fetched (the code assumes 5), and a
  quote token with more decimals than base token and price together, where the
  exponent underflows (`convert.rs:188`): `IntakeAssumption` excludes it.

## Plan

1. Model: a composition of BatchRound and Matching; pool mixing by a node that
   is behind and orders matched outside their batch, with changing epochs.
2. Proofs: the promises of NodeLife through a change of the batch length with a
   failed refetch, with the slack counted in blocks.
