----------------------------- MODULE Settlement ------------------------------
(***************************************************************************)
(* The settlement pipeline of one node: SettlementManager                  *)
(* (crates/settlement/src/lib.rs), the background worker                   *)
(* (crates/settlement/src/worker.rs), the part of the run loop that feeds  *)
(* and drains them (src/run.rs, arm 2, the Swap handler and steps 8d and   *)
(* 8e), over the balances of module EscrowTracker.                         *)
(*                                                                         *)
(* The run loop is one task.  Between two of its awaits the worker, the    *)
(* verification tasks and the chain move freely, so one iteration of the   *)
(* loop is cut at its awaits and at every item it takes from a channel:    *)
(*   wait    -> a block arrives (expiry at a batch boundary)               *)
(*   swap    -> one match of the batch at a time                           *)
(*   results -> one worker result at a time, then the event poll           *)
(*   events  -> one fetched BatchTradeSettled event at a time              *)
(*                                                                         *)
(* The chain is external: it executes, aborts or drops transactions, it    *)
(* settles the matches other nodes pay the gas for, and it rejects a       *)
(* second settlement of a match.                                           *)
(***************************************************************************)
EXTENDS EscrowTracker, Sequences, SequencesExt

CONSTANTS
  BlocksPerBatch,     \* BatchParams::blocks_per_batch
  SwapStart,          \* first block of the batch in the Swap phase
  SettlementMaxAge,   \* the age the run loop passes to expire_stale
  ContractMaxAge,     \* the age up to which the contract settles a match
  SwapLists,          \* SwapLists[b]: match lists a Swap phase of batch b may take
  SettleCap,          \* capacity of the request channel
  ResultCap,          \* capacity of the result channel
  EventLimit,         \* limit of one get_events call
  AbortCode,          \* abort codes the contract may answer with
  TradeIdIsKey,       \* does the event's trade_id equal the pending map's key?
  PollMayFail,        \* may get_events return an error?
  BackstopWired,      \* does the node call backstop_submit?
  Withdrawals,        \* amounts the owner may earmark for a withdrawal
  InitBalance,        \* escrow balances on chain at start-up
  MaxHeight,          \* bound: chain height
  StableHeight,       \* from this height on the loop is at most two batches behind
  MaxRestarts         \* bound: restarts of the node

ASSUME SettlementAssumption ==
  /\ BlocksPerBatch \in Nat \ {0}
  /\ SwapStart \in 0..(BlocksPerBatch - 1)
  /\ SettlementMaxAge \in Nat /\ ContractMaxAge \in Nat
  /\ SettleCap \in Nat /\ ResultCap \in Nat /\ EventLimit \in Nat
  /\ {TradeIdIsKey, PollMayFail, BackstopWired} \subseteq BOOLEAN
  /\ Withdrawals \subseteq Nat
  /\ InitBalance \in [Token -> Nat]
  /\ MaxHeight \in Nat /\ StableHeight \in Nat /\ MaxRestarts \in Nat
  /\ AbortCode \intersect {"none", "mempool", "ok", "dropped"} = {}
  /\ "AlreadySettled" \in AbortCode

ASSUME SwapListsAssumption ==
  \A b \in DOMAIN SwapLists : /\ SwapLists[b] \subseteq Seq(Match)
                              /\ <<>> \in SwapLists[b]

VARIABLES
  \* SettlementManager
  pending,        \* keys of the pending map
  submitted,      \* pending entries with tx_hash set
  eligible_at,    \* PendingSettlement::backstop_eligible_at
  \* run loop
  stage,          \* where the loop is in its iteration
  block,          \* last_block
  event_range,    \* how many of the unpolled events lie at or below block
  swap_queue,     \* matches of this Swap phase still to be handled
  fetched,        \* events returned by get_events, still to be handled
  taken,          \* matches a Swap phase has taken from the orchestrator
  \* worker
  settle_queue,   \* SettleRequest channel
  worker_out,     \* result the worker is about to send, if any
  result_queue,   \* SettleResult channel
  verifying,      \* matches with a running verification task
  \* chain
  height,         \* current block height
  tx,             \* state of this node's transaction for each match
  settled,        \* matches the contract has settled
  events,         \* BatchTradeSettled events above last_event_block
  chain_balance,  \* this NFT's escrow balance on chain
  restarts

managerVars == <<pending, submitted, eligible_at>>
loopVars == <<stage, block, event_range, swap_queue, fetched, taken>>
workerVars == <<settle_queue, worker_out, result_queue, verifying>>
chainVars == <<height, tx, settled, events, chain_balance>>
vars == <<trackerVars, managerVars, loopVars, workerVars, chainVars, restarts>>

TxState == {"none", "mempool", "ok", "dropped"} \union AbortCode

SettleResult == [kind : {"Submitted", "RpcError"}, match : Match]
                  \union [kind : {"Failed"}, match : Match, code : AbortCode]

\* Every variable keeps the type its Rust counterpart has.
TypeOK ==
  /\ TrackerTypeOK
  /\ pending \subseteq Match
  /\ submitted \subseteq pending
  /\ eligible_at \in [Match -> Nat]
  /\ stage \in {"wait", "swap", "results", "events"}
  /\ block \in Nat /\ height \in Nat
  /\ event_range \in Nat
  /\ swap_queue \in Seq(Match)
  /\ fetched \in Seq(Match)
  /\ taken \subseteq Match
  /\ settle_queue \in Seq(Match)
  /\ worker_out \in Seq(SettleResult)
  /\ result_queue \in Seq(SettleResult)
  /\ verifying \subseteq Match
  /\ tx \in [Match -> TxState]
  /\ settled \subseteq Match
  /\ events \in Seq(Match)
  /\ chain_balance \in [Token -> Nat]
  /\ restarts \in Nat

Batch(h) == h \div BlocksPerBatch
InSwapPhase(h) == h % BlocksPerBatch >= SwapStart

Init ==
  /\ confirmed \in Seeds(InitBalance)
  /\ pending_out = [t \in Token |-> {}]
  /\ pending_in = [t \in Token |-> {}]
  /\ earmarked = [t \in Token |-> 0]
  /\ pending = {} /\ submitted = {}
  /\ eligible_at = [m \in Match |-> 0]
  /\ stage = "wait" /\ block = 0 /\ event_range = 0
  /\ swap_queue = <<>> /\ fetched = <<>> /\ taken = {}
  /\ settle_queue = <<>> /\ worker_out = <<>> /\ result_queue = <<>>
  /\ verifying = {}
  /\ height = 0
  /\ tx = [m \in Match |-> "none"]
  /\ settled = {} /\ events = <<>>
  /\ chain_balance = InitBalance
  /\ restarts = 0

-----------------------------------------------------------------------------
(* SettlementManager: the operations on the pending map.                   *)

\* Mutant: the tracker is released, the pending entry stays.
release_tracker_only(S) ==
  /\ release_pending(S \intersect pending)
  /\ UNCHANGED managerVars

\* release_pending_internal for every match of S (those not pending are
\* ignored); also the effect of register_skipped on one match.
release_pending_internal(S) ==
  /\ pending' = pending \ S
  /\ submitted' = submitted \ S
  /\ release_pending(S \intersect pending)
  /\ UNCHANGED eligible_at

\* E_ALREADY_SETTLED and E_INSUFFICIENT_BALANCE keep the entry, every other
\* code releases it.  The returned SettlementAction is only logged.
KeepsPending(code) == code \in {"AlreadySettled", "InsufficientBalance"}

on_settlement_failed(m, code) ==
  IF KeepsPending(code) THEN UNCHANGED <<trackerVars, managerVars>>
                        ELSE release_pending_internal({m})

\* Mutant: a late result marks a match that is no longer pending.
mark_submitted_late(m) ==
  /\ submitted' = submitted \union {m}
  /\ UNCHANGED <<trackerVars, pending, eligible_at>>

mark_submitted(m) ==
  /\ submitted' = submitted \union ({m} \intersect pending)
  /\ UNCHANGED <<trackerVars, pending, eligible_at>>

\* Mutant: a submitted settlement is left to the event poll alone.
StaleUnsubmitted(b) ==
  {m \in pending \ submitted : b > Trade[m].batch + SettlementMaxAge}

\* The entries whose batch is too old at a boundary into batch b.
Stale(b) == {m \in pending : b > Trade[m].batch + SettlementMaxAge}

expire_stale(b) == release_pending_internal(Stale(b))

\* Mutant: the scan compares batch and parties as a set.
SameParties(k, e) ==
  /\ Trade[k].batch = Trade[e].batch
  /\ {Trade[k].buyer, Trade[k].seller} = {Trade[e].buyer, Trade[e].seller}

SameFields(k, e) ==
  /\ Trade[k].batch = Trade[e].batch
  /\ Trade[k].buyer = Trade[e].buyer
  /\ Trade[k].seller = Trade[e].seller
  /\ Trade[k].fill = Trade[e].fill

\* The keys the lookup may return for the event of match e: the scan takes
\* whichever entry the hash map yields first.
find_pending_for_event(e) ==
  IF TradeIdIsKey /\ e \in pending THEN {e}
  ELSE {k \in pending : SameFields(k, e)}

on_settlement_confirmed(e) ==
  LET found == find_pending_for_event(e) IN
  \/ /\ found = {}
     /\ UNCHANGED <<trackerVars, managerVars>>
  \/ \E k \in found :
       /\ confirm_settlement(k)
       /\ pending' = pending \ {k}
       /\ submitted' = submitted \ {k}
       /\ UNCHANGED eligible_at

-----------------------------------------------------------------------------
(* The run loop.                                                           *)

PhaseChanged ==
  \/ Batch(height) # Batch(block)
  \/ InSwapPhase(height) # InSwapPhase(block)

\* A block above last_block arrives.  A jump of more than two batches skips
\* the iteration.  A new batch expires stale settlements; an entered Swap
\* phase takes the orchestrator's matches.
BlockUpdate ==
  /\ stage = "wait"
  /\ height > block
  /\ block' = height
  /\ IF Batch(height) > Batch(block) + 2
     THEN UNCHANGED <<trackerVars, managerVars, stage, event_range,
                      swap_queue, taken>>
     ELSE /\ IF Batch(height) # Batch(block)
             THEN expire_stale(Batch(height))
             ELSE UNCHANGED <<trackerVars, managerVars>>
          /\ event_range' = Len(events)
          /\ \/ /\ PhaseChanged /\ InSwapPhase(height)
                /\ Batch(height) \in DOMAIN SwapLists
                /\ \E list \in SwapLists[Batch(height)] :
                     /\ ToSet(list) \intersect taken = {}
                     /\ swap_queue' = list
                     /\ taken' = taken \union ToSet(list)
                     /\ stage' = IF list = <<>> THEN "results" ELSE "swap"
             \/ /\ ~ (PhaseChanged /\ InSwapPhase(height)
                       /\ Batch(height) \in DOMAIN SwapLists)
                /\ stage' = "results"
                /\ UNCHANGED <<swap_queue, taken>>
  /\ UNCHANGED <<fetched, workerVars, chainVars, restarts>>

\* The watch channel fires without a newer block.
StaleBlock ==
  /\ stage = "wait"
  /\ height = block
  /\ UNCHANGED vars

AfterSwapItem ==
  /\ swap_queue' = Tail(swap_queue)
  /\ stage' = IF Len(swap_queue) = 1 THEN "results" ELSE "swap"
  /\ UNCHANGED <<block, event_range, fetched, taken>>

\* register_match refuses the match: the loop continues with the next one.
SwapRefused ==
  /\ stage = "swap"
  /\ LET m == Head(swap_queue) IN
       /\ ~ apply_match_ok(m)
       /\ apply_match(m)
  /\ AfterSwapItem
  /\ UNCHANGED <<managerVars, workerVars, chainVars, restarts>>

\* register_match accepts the match.  Only the gas payer queues a request;
\* try_send drops it when the channel is full.
SwapRegistered ==
  /\ stage = "swap"
  /\ LET m == Head(swap_queue) IN
       /\ apply_match_ok(m)
       /\ apply_match(m)
       /\ pending' = pending \union {m}
       /\ submitted' = submitted \ {m}
       /\ eligible_at' = [eligible_at EXCEPT ![m] = block + BlocksPerBatch]
       /\ settle_queue' = IF Trade[m].gas_payer = OwnNft
                               /\ Len(settle_queue) < SettleCap
                          THEN Append(settle_queue, m) ELSE settle_queue
  /\ AfterSwapItem
  /\ UNCHANGED <<worker_out, result_queue, verifying, chainVars, restarts>>

\* register_match accepts a match this node pays for, but the is-active cache
\* says a party is inactive: register_skipped takes the registration back.
SwapSkipped ==
  /\ stage = "swap"
  /\ LET m == Head(swap_queue) IN
       /\ Trade[m].gas_payer = OwnNft
       /\ apply_match_ok(m)
       /\ release_pending({m})
       /\ pending' = pending \ {m}
       /\ submitted' = submitted \ {m}
  /\ AfterSwapItem
  /\ UNCHANGED <<eligible_at, workerVars, chainVars, restarts>>

\* 8d: one result of the worker.
DrainResult ==
  /\ stage = "results"
  /\ result_queue # <<>>
  /\ LET r == Head(result_queue) IN
       \/ r.kind = "Submitted" /\ mark_submitted(r.match)
       \/ r.kind = "Failed" /\ on_settlement_failed(r.match, r.code)
       \/ r.kind = "RpcError" /\ UNCHANGED <<trackerVars, managerVars>>
  /\ result_queue' = Tail(result_queue)
  /\ UNCHANGED <<loopVars, settle_queue, worker_out, verifying, chainVars,
                 restarts>>

\* 8e: fetch the events up to block.  last_event_block advances to block
\* whether the call succeeds or not, and whatever the limit cuts off.
PollEvents ==
  /\ stage = "results"
  /\ result_queue = <<>>
  /\ stage' = "events"
  /\ \/ fetched' = SubSeq(events, 1,
                     IF event_range < EventLimit THEN event_range ELSE EventLimit)
     \/ PollMayFail /\ fetched' = <<>>
  /\ events' = SubSeq(events, event_range + 1, Len(events))
  /\ event_range' = 0
  /\ UNCHANGED <<trackerVars, managerVars, block, swap_queue, taken, workerVars,
                 height, tx, settled, chain_balance, restarts>>

HandleEvent ==
  /\ stage = "events"
  /\ fetched # <<>>
  /\ on_settlement_confirmed(Head(fetched))
  /\ fetched' = Tail(fetched)
  /\ UNCHANGED <<stage, block, event_range, swap_queue, taken, workerVars,
                 chainVars, restarts>>

IterationDone ==
  /\ stage = "events"
  /\ fetched = <<>>
  /\ stage' = "wait"
  /\ UNCHANGED <<trackerVars, managerVars, block, event_range, swap_queue,
                 fetched, taken, workerVars, chainVars, restarts>>

-----------------------------------------------------------------------------
(* The worker and its verification tasks.                                  *)

\* Mutant: a request stays in the queue after an RPC error.
WorkerSubmitRetry ==
  /\ settle_queue # <<>>
  /\ worker_out = <<>>
  /\ LET m == Head(settle_queue) IN
       \/ /\ tx' = [tx EXCEPT ![m] = "mempool"]
          /\ worker_out' = <<[kind |-> "Submitted", match |-> m]>>
          /\ verifying' = verifying \union {m}
          /\ settle_queue' = Tail(settle_queue)
       \/ /\ tx' \in {tx, [tx EXCEPT ![m] = "mempool"]}
          /\ worker_out' = <<[kind |-> "RpcError", match |-> m]>>
          /\ UNCHANGED <<verifying, settle_queue>>
  /\ UNCHANGED <<trackerVars, managerVars, loopVars, result_queue, height,
                 settled, events, chain_balance, restarts>>

\* Direct submission.  An error may be reported for a transaction the RPC
\* node has accepted; the request is gone in either case.
WorkerSubmit ==
  /\ settle_queue # <<>>
  /\ worker_out = <<>>
  /\ LET m == Head(settle_queue) IN
       \/ /\ tx' = [tx EXCEPT ![m] = "mempool"]
          /\ worker_out' = <<[kind |-> "Submitted", match |-> m]>>
          /\ verifying' = verifying \union {m}
       \/ /\ tx' \in {tx, [tx EXCEPT ![m] = "mempool"]}
          /\ worker_out' = <<[kind |-> "RpcError", match |-> m]>>
          /\ UNCHANGED verifying
  /\ settle_queue' = Tail(settle_queue)
  /\ UNCHANGED <<trackerVars, managerVars, loopVars, result_queue, height,
                 settled, events, chain_balance, restarts>>

\* result_tx.send waits for room in the channel.
WorkerSend ==
  /\ worker_out # <<>>
  /\ Len(result_queue) < ResultCap
  /\ result_queue' = result_queue \o worker_out
  /\ worker_out' = <<>>
  /\ UNCHANGED <<trackerVars, managerVars, loopVars, settle_queue, verifying,
                 chainVars, restarts>>

\* wait_for_tx reports an abort.
VerifyFailed(m) ==
  /\ m \in verifying
  /\ tx[m] \in AbortCode
  /\ Len(result_queue) < ResultCap
  /\ result_queue' = Append(result_queue,
                       [kind |-> "Failed", match |-> m, code |-> tx[m]])
  /\ verifying' = verifying \ {m}
  /\ UNCHANGED <<trackerVars, managerVars, loopVars, settle_queue, worker_out,
                 chainVars, restarts>>

\* wait_for_tx reports success, or gives up after its timeout.
VerifySilent(m) ==
  /\ m \in verifying
  /\ verifying' = verifying \ {m}
  /\ UNCHANGED <<trackerVars, managerVars, loopVars, settle_queue, worker_out,
                 result_queue, chainVars, restarts>>

-----------------------------------------------------------------------------
(* Operations of the manager and the tracker that run.rs does not call.    *)

\* backstop_submit by the party that does not pay the gas: simulate, then
\* submit.  The caller hands an abort to on_settlement_failed.
BackstopSubmit(m) ==
  /\ BackstopWired
  /\ stage = "wait"
  /\ m \in pending \ submitted
  /\ Trade[m].gas_payer # OwnNft
  /\ block >= eligible_at[m]
  /\ \/ /\ m \notin settled
        /\ tx' = [tx EXCEPT ![m] = "mempool"]
        /\ mark_submitted(m)
     \/ /\ m \notin settled
        /\ \E code \in AbortCode \ {"AlreadySettled"} :
             on_settlement_failed(m, code)
        /\ UNCHANGED tx
  /\ UNCHANGED <<loopVars, workerVars, height, settled, events, chain_balance,
                 restarts>>

EarmarkWithdrawal(t, amount) ==
  /\ stage = "wait"
  /\ earmarked[t] = 0
  /\ earmark_withdrawal(t, amount)
  /\ UNCHANGED <<managerVars, loopVars, workerVars, chainVars, restarts>>

\* The withdrawal is cancelled, or executed on chain.
ReleaseEarmark(t, executed) ==
  /\ stage = "wait"
  /\ earmarked[t] > 0
  /\ executed => earmarked[t] <= chain_balance[t]
  /\ release_earmark(t, earmarked[t], executed)
  /\ chain_balance' = IF executed
                      THEN [chain_balance EXCEPT ![t] = @ - earmarked[t]]
                      ELSE chain_balance
  /\ UNCHANGED <<managerVars, loopVars, workerVars, height, tx, settled, events,
                 restarts>>

-----------------------------------------------------------------------------
(* The chain (external).                                                   *)

ChainTick ==
  /\ height < MaxHeight
  /\ height >= StableHeight => height < block + 2 * BlocksPerBatch
  /\ height' = height + 1
  /\ UNCHANGED <<trackerVars, managerVars, loopVars, workerVars, tx, settled,
                 events, chain_balance, restarts>>

\* What settle_match moves: the quote side moves at the settlement price, in
\* full.
ChainEffect(m) ==
  LET quote == QuoteValue(Trade[m].fill, Trade[m].settlement_price)
      sign(nft) == IF nft = Trade[m].buyer THEN 1 ELSE -1
  IN IF OwnNft \notin {Trade[m].buyer, Trade[m].seller} THEN chain_balance
     ELSE [chain_balance EXCEPT
             ![Trade[m].base] = @ + sign(OwnNft) * Trade[m].fill,
             ![Trade[m].quote] = @ - sign(OwnNft) * quote]

ContractAccepts(m) ==
  /\ m \notin settled
  /\ Batch(height) <= Trade[m].batch + ContractMaxAge
  /\ \A t \in Token : ChainEffect(m)[t] >= 0

ExecuteSettlement(m) ==
  /\ ContractAccepts(m)
  /\ settled' = settled \union {m}
  /\ events' = Append(events, m)
  /\ chain_balance' = ChainEffect(m)

\* The node's own transaction is executed, aborted or never included.
ChainExecute(m) ==
  /\ tx[m] = "mempool"
  /\ \/ /\ ExecuteSettlement(m)
        /\ tx' = [tx EXCEPT ![m] = "ok"]
     \/ /\ tx' \in {[tx EXCEPT ![m] = c] : c \in
                      IF m \in settled THEN {"AlreadySettled", "dropped"}
                      ELSE (AbortCode \ {"AlreadySettled"}) \union {"dropped"}}
        /\ UNCHANGED <<settled, events, chain_balance>>
  /\ UNCHANGED <<trackerVars, managerVars, loopVars, workerVars, height, restarts>>

\* Another node pays the gas: its submission is executed.
PeerSettles(m) ==
  /\ Trade[m].gas_payer # OwnNft
  /\ height >= Trade[m].batch * BlocksPerBatch + SwapStart
  /\ ExecuteSettlement(m)
  /\ UNCHANGED <<trackerVars, managerVars, loopVars, workerVars, height, tx,
                 restarts>>

-----------------------------------------------------------------------------
(* The node crashes and starts again: nothing is persisted, the tracker is *)
(* seeded from chain and the event poll starts at the current height.      *)

Restart ==
  /\ restarts < MaxRestarts
  /\ restarts' = restarts + 1
  /\ seed_tracker(chain_balance)
  /\ pending' = {} /\ submitted' = {}
  /\ eligible_at' = [m \in Match |-> 0]
  /\ stage' = "wait" /\ block' = height /\ event_range' = 0
  /\ swap_queue' = <<>> /\ fetched' = <<>>
  /\ settle_queue' = <<>> /\ worker_out' = <<>> /\ result_queue' = <<>>
  /\ verifying' = {}
  /\ events' = <<>>
  /\ UNCHANGED <<taken, height, tx, settled, chain_balance>>

LoopStep ==
  \/ BlockUpdate \/ SwapRefused \/ SwapRegistered \/ SwapSkipped
  \/ DrainResult \/ PollEvents \/ HandleEvent \/ IterationDone

Next ==
  \/ LoopStep
  \/ StaleBlock
  \/ WorkerSubmit \/ WorkerSend
  \/ \E m \in Match : VerifyFailed(m) \/ VerifySilent(m) \/ BackstopSubmit(m)
                        \/ ChainExecute(m) \/ PeerSettles(m)
  \/ \E t \in Token, a \in Withdrawals : EarmarkWithdrawal(t, a)
  \/ \E t \in Token, x \in BOOLEAN : ReleaseEarmark(t, x)
  \/ ChainTick
  \/ Restart

Spec == Init /\ [][Next]_vars

\* The chain produces blocks and the run loop, a single task, is scheduled.
Fairness == WF_vars(ChainTick) /\ WF_vars(LoopStep)

FairSpec == Spec /\ Fairness

-----------------------------------------------------------------------------
(* Properties.                                                             *)

\* The manager's pending map and the tracker's maps agree: a match waits for
\* settlement exactly if its outflow is reserved on the one token it pays
\* with and its inflow is tracked on the one token it receives.  No abort,
\* expiry, confirmation, skip or refused registration leaves half an entry.
ReservationsMatchPending ==
  \A t \in Token :
    /\ pending_out[t] = {m \in pending : OutToken(m) = t}
    /\ pending_in[t] = {m \in pending : InToken(m) = t}

\* The reserved outflows and the earmark of a token are covered by its
\* confirmed balance: the saturating subtraction in projected() never cuts
\* anything off.
Solvent ==
  \A t \in Token : total_pending_out(t) + earmarked[t] <= confirmed[t]

InQueue(q, m) == {i \in DOMAIN q : q[i] = m}

\* A match is submitted by this node at most once, although the list of
\* matches may hold it twice and the outcome of an earlier submission may be
\* unknown: at most one request is queued, and none after a submission.
SubmittedAtMostOnce ==
  \A m \in Match :
    /\ Cardinality(InQueue(settle_queue, m)) <= 1
    /\ InQueue(settle_queue, m) # {} => tx[m] = "none"

\* No outflow is reserved for ever: whatever is lost (a request dropped by a
\* full channel, an RPC error, an aborted or dropped transaction, a missed
\* event), the match leaves the pending map by confirmation, abort or expiry.
PendingResolved == \A m \in Match : m \in pending ~> m \notin pending

\* What a BatchTradeSettled event tells of its trade, but for its trade_id.
Reported(m) == [f \in {"batch", "buyer", "seller", "fill"} |-> Trade[m][f]]

\* The pipeline implements the abstract specification of held funds: a balance
\* grows only by the inflow of a held match when the event of a trade that
\* happened on chain, alike in batch, parties and quantity, is read, and no
\* event is used twice.
Promise == INSTANCE HeldFunds WITH
  balance <- confirmed, held <- pending, marked <- earmarked,
  happened <- settled, unread <- ToSet(fetched) \union ToSet(events)

ImplementsHeldFunds == Promise!Spec

\* The balance of a token grows only when the settlement of a pending match
\* has really happened on chain, and by that match's inflow (a restart, which
\* reads the balances again, aside).
CreditBacked ==
  [][\A t \in Token : confirmed'[t] > confirmed[t] /\ restarts' = restarts =>
       \E m \in settled \intersect pending :
         /\ m \notin pending'
         /\ t = InToken(m)
         /\ confirmed'[t] = confirmed[t] + InAmount(m)]_vars

\* A trade that happened on chain is never treated as failed: its outflow is
\* not given back without the inflow being credited.
SettledNotReleased ==
  [][\A m \in pending \ pending' : m \in settled /\ restarts' = restarts =>
       confirmed' # confirmed]_vars

\* The tracker holds only the trades of this node's NFT.
OnlyOwnTrades ==
  \A m \in pending : OwnNft \in {Trade[m].buyer, Trade[m].seller}

\* What the node believes it can spend is in its escrow on chain.
ProjectedBacked == \A t \in Token : projected(t) <= chain_balance[t]
=============================================================================
