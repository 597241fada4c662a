----------------------------- MODULE BatchRound ------------------------------
(***************************************************************************)
(* The commit-reveal-match round of a network of nodes: the block arm and  *)
(* the gossip arms of each node's run loop (src/run.rs), its               *)
(* GossipValidator and GossipBridge, and the phase handlers of the         *)
(* orchestrator (crates/orchestrator/src/lib.rs).                          *)
(*                                                                         *)
(* Each node reads block heights at its own pace and may jump over any     *)
(* number of them, so nodes lag behind each other and miss phases.  The    *)
(* gossip network is external: a published message reaches a subscriber    *)
(* of its pool's topic any number of times, in any order, or never (the    *)
(* drops of the two channels between loop and swarm task are losses).      *)
(* Participants that do not run this program publish on it as well.        *)
(*                                                                         *)
(* One transition of the loop is cut in two, the batch boundary and the    *)
(* phase handler: the handler drains the messages that came in during the  *)
(* awaits of the boundary.  The epoch and the batch parameters are fixed.  *)
(***************************************************************************)
EXTENDS Integers, Sequences, FiniteSets, SequencesExt

CONSTANTS
  Node,                   \* the nodes, each trading for one NFT
  Trader,                 \* the nodes with a strategy that commits orders
  Stray,                  \* NFTs whose owner runs another program
  StrayMessages,          \* what the strays may publish
  PoolOf,                 \* PoolOf[n][b]: compute_pool_assignment
  CommitBlocks, RevealBlocks, MatchBlocks, BlocksPerBatch,  \* BatchParams
  CommitsPerBatch,        \* orders a strategy may commit in a batch
  MaxIndex,               \* bound: indices a strategy may ask to reveal
  SkipAhead,              \* batches a node may miss before it skips ahead
  BATCH_WINDOW,
  PUBKEY_FETCH_INTERVAL,
  MAX_MSGS_PER_NFT_PER_BATCH,
  FirstBatch,             \* batch of block 0
  StartBlock,             \* height at which the nodes start
  MaxBlock                \* bound: block height

Block == 0..MaxBlock
\* compute_batch_id and compute_phase, with the epoch anchored at block 0.
BatchAt(h) == FirstBatch + (h \div BlocksPerBatch)
PhaseAt(h) ==
  LET i == h % BlocksPerBatch IN
  CASE i < CommitBlocks -> "Commit"
    [] i >= CommitBlocks /\ i < CommitBlocks + RevealBlocks -> "Reveal"
    [] i >= CommitBlocks + RevealBlocks
         /\ i < CommitBlocks + RevealBlocks + MatchBlocks -> "Match"
    [] OTHER -> "Swap"

Batch == FirstBatch..BatchAt(MaxBlock)
Pool == UNION {{PoolOf[n][b] : b \in Batch} : n \in Node}
Nft == Node \union Stray

ASSUME RoundAssumption ==
  /\ Trader \subseteq Node
  /\ {CommitBlocks, RevealBlocks, MatchBlocks, CommitsPerBatch, MaxIndex} \subseteq Nat
  /\ BlocksPerBatch \in Nat \ {0}
  /\ CommitsPerBatch <= MaxIndex
  /\ SkipAhead \in Nat /\ FirstBatch \in Nat /\ MaxBlock \in Nat
  /\ StartBlock \in 0..MaxBlock
  /\ BATCH_WINDOW \in Nat \ {0}
  /\ PUBKEY_FETCH_INTERVAL \in Nat \ {0}
  /\ MAX_MSGS_PER_NFT_PER_BATCH \in Nat

\* An order is known by its NFT, the batch it was made for and its index; its
\* nonce makes its bytes, and so its hash, unique.
Order == [nft : Nft, batch : Batch, idx : 1..MaxIndex]

\* GossipMessage::Commitment and GossipMessage::Reveal, with the participant
\* that publishes it (the swarm does not hand a node its own messages).  The
\* batch of the message and the batch of its order are two fields.  A reveal
\* is signed if it carries its order's signature by the key of the order's
\* NFT; a node's own is unless it is the placeholder of an index without a
\* committed order.
CommitMessage == [kind : {"commit"}, by : Nft, batch : Batch, pool : Pool, order : Order]
RevealMessage == [kind : {"reveal"}, by : Nft, batch : Batch, pool : Pool, order : Order,
                  signed : BOOLEAN]

ASSUME StrayAssumption ==
  /\ Node \intersect Stray = {}
  /\ StrayMessages \subseteq CommitMessage \union RevealMessage
  /\ \A m \in StrayMessages : m.by \in Stray

VARIABLES
  net,                \* every message published so far
  \* run loop
  block,              \* last_block (last_phase and last_batch_id follow)
  stage,              \* "wait" for a block, or "phase": handler to run
  my_pool,            \* my_pool
  topics,             \* pools whose topic the swarm is subscribed to
  \* orchestrator
  committed,          \* committed_orders
  input,              \* what the last Match phase matched, until Swap takes it
  inbound_commits,    \* GossipBridge::inbound_commits
  inbound_reveals,    \* GossipBridge::inbound_reveals
  \* GossipValidator
  vbatch,             \* current_batch_id
  seen_commits,       \* seen_commit_hashes
  seen_reveals,       \* seen_reveal_hashes
  msg_counts,
  known,              \* keys of nft_pubkeys
  unknown,            \* unknown_nfts
  last_fetch,         \* last_pubkey_fetch_batch
  heard_at            \* history: vbatch when an NFT's key was last missed

loopVars == <<block, stage, my_pool, topics>>
orcVars == <<committed, input>>
storeVars == <<inbound_commits, inbound_reveals>>
dedupVars == <<seen_commits, seen_reveals, msg_counts>>
keyVars == <<known, unknown, last_fetch, heard_at>>
vars == <<net, loopVars, orcVars, storeVars, dedupVars, vbatch, keyVars>>

NoInput == [batch |-> 0, orders |-> <<>>]

\* Every variable keeps the type its Rust counterpart has, a counter stays
\* within its limit, and no NFT is both known and queued for a key fetch.
RoundTypeOK ==
  /\ net \subseteq CommitMessage \union RevealMessage
  /\ block \in [Node -> Block]
  /\ stage \in [Node -> {"wait", "phase"}]
  /\ my_pool \in [Node -> Pool]
  /\ topics \in [Node -> SUBSET Pool]
  /\ committed \in [Node -> Seq(Order)]
  /\ \A n \in Node : /\ input[n].batch \in Batch \union {0}
                     /\ input[n].orders \in Seq(Order)
  /\ inbound_commits \in [Node -> [Batch -> Seq(Order)]]
  /\ inbound_reveals \in [Node -> [Batch -> Seq(Order)]]
  /\ vbatch \in [Node -> Batch]
  /\ seen_commits \in [Node -> SUBSET Order]
  /\ seen_reveals \in [Node -> SUBSET Order]
  /\ msg_counts \in [Node -> [Nft -> [Batch -> 0..MAX_MSGS_PER_NFT_PER_BATCH]]]
  /\ known \in [Node -> SUBSET Nft]
  /\ unknown \in [Node -> SUBSET Nft]
  /\ \A n \in Node : known[n] \intersect unknown[n] = {}
  /\ last_fetch \in [Node -> Batch \union {0}]
  /\ heard_at \in [Node -> [Nft -> Batch]]

Init ==
  /\ net = {}
  /\ block = [n \in Node |-> StartBlock]
  /\ stage = [n \in Node |-> "wait"]
  /\ my_pool = [n \in Node |-> PoolOf[n][BatchAt(StartBlock)]]
  /\ topics = [n \in Node |-> {PoolOf[n][BatchAt(StartBlock)]}]
  /\ committed = [n \in Node |-> <<>>]
  /\ input = [n \in Node |-> NoInput]
  /\ inbound_commits = [n \in Node |-> [b \in Batch |-> <<>>]]
  /\ inbound_reveals = [n \in Node |-> [b \in Batch |-> <<>>]]
  /\ vbatch = [n \in Node |-> BatchAt(StartBlock)]
  /\ seen_commits = [n \in Node |-> {}]
  /\ seen_reveals = [n \in Node |-> {}]
  /\ msg_counts = [n \in Node |-> [p \in Nft |-> [b \in Batch |-> 0]]]
  /\ known = [n \in Node |-> {}]
  /\ unknown = [n \in Node |-> {}]
  /\ last_fetch = [n \in Node |-> 0]
  /\ heard_at = [n \in Node |-> [p \in Nft |-> BatchAt(StartBlock)]]

-----------------------------------------------------------------------------
(* Inbound gossip: process_inbound_gossip and the validator.               *)

is_batch_in_range(n, b) ==
  \/ vbatch[n] = 0
  \/ b >= vbatch[n] - BATCH_WINDOW /\ b <= vbatch[n] + BATCH_WINDOW

\* Mutant: the limit itself is let through.
UnderOrAtRateLimit(n, m) ==
  msg_counts[n][m.order.nft][m.batch] <= MAX_MSGS_PER_NFT_PER_BATCH

UnderRateLimit(n, m) ==
  msg_counts[n][m.order.nft][m.batch] < MAX_MSGS_PER_NFT_PER_BATCH

\* check_rate_limit's increment.
Count(n, m) ==
  msg_counts' = [msg_counts EXCEPT ![n][m.order.nft][m.batch] = @ + 1]

\* A message the validator rejects leaves no trace but its hash: a commit
\* over the rate limit stays marked as seen, a reveal does not.
accept_commit(n, m) ==
  /\ is_batch_in_range(n, m.batch)
  /\ m.order \notin seen_commits[n]
  /\ seen_commits' = [seen_commits EXCEPT ![n] = @ \union {m.order}]
  /\ IF UnderRateLimit(n, m)
       THEN /\ Count(n, m)
            /\ inbound_commits' =
                 [inbound_commits EXCEPT ![n][m.batch] = Append(@, m.order)]
       ELSE UNCHANGED <<msg_counts, inbound_commits>>
  /\ UNCHANGED <<seen_reveals, inbound_reveals, keyVars>>

StoreReveal(n, m) ==
  /\ seen_reveals' = [seen_reveals EXCEPT ![n] = @ \union {m.order}]
  /\ Count(n, m)
  /\ inbound_reveals' = [inbound_reveals EXCEPT ![n][m.batch] = Append(@, m.order)]
  /\ UNCHANGED keyVars

\* Mutant: the hash of the rejected reveal stays in the dedup set.
RejectUnknownKeepsHash(n, m) ==
  /\ unknown' = [unknown EXCEPT ![n] = @ \union {m.order.nft}]
  /\ seen_reveals' = [seen_reveals EXCEPT ![n] = @ \union {m.order}]
  /\ UNCHANGED <<known, last_fetch, heard_at, msg_counts, inbound_reveals>>

\* Mutant: the rejected reveal stays counted.
RejectUnknownKeepsCount(n, m) ==
  /\ unknown' = [unknown EXCEPT ![n] = @ \union {m.order.nft}]
  /\ Count(n, m)
  /\ UNCHANGED <<known, last_fetch, heard_at, seen_reveals, inbound_reveals>>

\* The sender's key is not cached: queue it, undo hash and count.
RejectUnknown(n, m) ==
  /\ unknown' = [unknown EXCEPT ![n] = @ \union {m.order.nft}]
  /\ heard_at' = IF m.order.nft \in unknown[n]
                   THEN heard_at
                   ELSE [heard_at EXCEPT ![n][m.order.nft] = vbatch[n]]
  /\ UNCHANGED <<known, last_fetch, seen_reveals, msg_counts, inbound_reveals>>

\* Mutant: a reveal of a known NFT is stored without checking its signature.
accept_reveal_unverified(n, m) ==
  /\ is_batch_in_range(n, m.batch)
  /\ m.order \notin seen_reveals[n]
  /\ UnderRateLimit(n, m)
  /\ \/ m.order.nft \in known[n] /\ StoreReveal(n, m)
     \/ m.order.nft \notin known[n] /\ RejectUnknown(n, m)
  /\ UNCHANGED <<seen_commits, inbound_commits>>

accept_reveal(n, m) ==
  /\ is_batch_in_range(n, m.batch)
  /\ m.order \notin seen_reveals[n]
  /\ UnderRateLimit(n, m)
  /\ \/ m.order.nft \in known[n] /\ m.signed /\ StoreReveal(n, m)
     \/ m.order.nft \notin known[n] /\ RejectUnknown(n, m)
  /\ UNCHANGED <<seen_commits, inbound_commits>>

\* A message of a subscribed topic arrives and is processed: by the eager
\* arm, the periodic drain, or a drain of the block arm.  Nothing compares a
\* reveal with a commit, its order's batch with the message's, or its NFT with
\* the node's own.
Deliver(n, m) ==
  /\ m.by # n
  /\ m.pool \in topics[n]
  /\ \/ m.kind = "commit" /\ accept_commit(n, m)
     \/ m.kind = "reveal" /\ accept_reveal(n, m)
  /\ UNCHANGED <<net, loopVars, orcVars, vbatch>>

-----------------------------------------------------------------------------
(* A new block: arm 2 of the run loop up to the phase handlers.            *)

\* expire_old_batches, after update_batch has set current_batch_id to b.
expire_old_batches(n, b) ==
  /\ msg_counts' = [msg_counts EXCEPT ![n] =
       [p \in Nft |-> [c \in Batch |->
          IF c >= b - BATCH_WINDOW THEN msg_counts[n][p][c] ELSE 0]]]
  /\ IF b % BATCH_WINDOW = 0
       THEN /\ seen_commits' = [seen_commits EXCEPT ![n] = {}]
            /\ seen_reveals' = [seen_reveals EXCEPT ![n] = {}]
       ELSE UNCHANGED <<seen_commits, seen_reveals>>

Retained(store, b) ==
  [c \in Batch |-> IF c >= b - BATCH_WINDOW THEN store[c] ELSE <<>>]

\* Mutant: one batch late.
should_fetch_later(n, b) ==
  unknown[n] # {} /\ b > last_fetch[n] + PUBKEY_FETCH_INTERVAL

should_fetch_pubkeys(n, b) ==
  unknown[n] # {} /\ b >= last_fetch[n] + PUBKEY_FETCH_INTERVAL

\* Every queued key is fetched; the NFTs whose fetch fails are queued again,
\* those with a malformed key are dropped until they are heard of again.
FetchPubkeys(n, b) ==
  \/ /\ should_fetch_pubkeys(n, b)
     /\ \E failed \in SUBSET unknown[n] : \E got \in SUBSET (unknown[n] \ failed) :
          /\ known' = [known EXCEPT ![n] = @ \union got]
          /\ unknown' = [unknown EXCEPT ![n] = failed]
          /\ heard_at' = [heard_at EXCEPT ![n] =
               [p \in Nft |-> IF p \in failed THEN b ELSE heard_at[n][p]]]
     /\ last_fetch' = [last_fetch EXCEPT ![n] = b]
  \/ ~should_fetch_pubkeys(n, b) /\ UNCHANGED keyVars

\* The subscribe and unsubscribe commands; a full command channel drops one.
ReassignPool(n, b) ==
  LET new == PoolOf[n][b] IN
  /\ my_pool' = [my_pool EXCEPT ![n] = new]
  /\ IF new = my_pool[n] THEN UNCHANGED topics
     ELSE \E left \in {{my_pool[n]}, {}}, joined \in {{new}, {}} :
            topics' = [topics EXCEPT ![n] = (@ \ left) \union joined]

Transition(n, h) == <<PhaseAt(h), BatchAt(h)>> # <<PhaseAt(block[n]), BatchAt(block[n])>>
SkipsTo(n, h) == BatchAt(h) > BatchAt(block[n]) + SkipAhead

\* The watch channel fires without a newer block.
StaleBlock(n) == stage[n] = "wait" /\ UNCHANGED vars

\* A block in the same phase, or so far ahead that the loop skips to it.
PassBlock(n, h) ==
  /\ stage[n] = "wait" /\ h > block[n]
  /\ ~Transition(n, h) \/ SkipsTo(n, h)
  /\ block' = [block EXCEPT ![n] = h]
  /\ UNCHANGED <<net, stage, my_pool, topics, orcVars, storeVars, dedupVars, vbatch, keyVars>>

\* A block of the next phase; at a batch boundary the validator moves on.
EnterPhase(n, h) ==
  /\ stage[n] = "wait" /\ h > block[n]
  /\ Transition(n, h) /\ ~SkipsTo(n, h)
  /\ block' = [block EXCEPT ![n] = h]
  /\ stage' = [stage EXCEPT ![n] = "phase"]
  /\ IF BatchAt(h) = BatchAt(block[n])
       THEN UNCHANGED <<my_pool, topics, storeVars, dedupVars, vbatch, keyVars>>
       ELSE LET b == BatchAt(h) IN
            /\ vbatch' = [vbatch EXCEPT ![n] = b]
            /\ expire_old_batches(n, b)
            /\ inbound_commits' = [inbound_commits EXCEPT ![n] = Retained(@, b)]
            /\ inbound_reveals' = [inbound_reveals EXCEPT ![n] = Retained(@, b)]
            /\ FetchPubkeys(n, b)
            /\ ReassignPool(n, b)
  /\ UNCHANGED <<net, orcVars>>

-----------------------------------------------------------------------------
(* The phase handlers.  Node n is in batch b, pool PoolOf[n][b].           *)

InPhase(n, phase) ==
  /\ stage[n] = "phase" /\ PhaseAt(block[n]) = phase
  /\ stage' = [stage EXCEPT ![n] = "wait"]
  /\ UNCHANGED <<block, my_pool, topics, storeVars, dedupVars, vbatch, keyVars>>

\* on_commit_phase; k = 0 when the node may not commit, its strategy is away
\* or late, or every order fails validation.
CommitPhase(n) ==
  LET b == BatchAt(block[n]) IN
  /\ InPhase(n, "Commit")
  /\ \E k \in IF n \in Trader THEN 0..CommitsPerBatch ELSE {0} :
       LET orders == [i \in 1..k |-> [nft |-> n, batch |-> b, idx |-> i]] IN
       /\ committed' = [committed EXCEPT ![n] = orders]
       /\ net' = net \union {[kind |-> "commit", by |-> n, batch |-> b,
                              pool |-> PoolOf[n][b], order |-> orders[i]] : i \in 1..k}
  /\ UNCHANGED input

\* The reveal of index i: a committed order, or an unsigned placeholder.
RevealOf(n, b, i) ==
  LET real == i <= Len(committed[n]) IN
  [kind |-> "reveal", by |-> n, batch |-> b, pool |-> PoolOf[n][b], signed |-> real,
   order |-> IF real THEN committed[n][i] ELSE [nft |-> n, batch |-> b, idx |-> i]]

\* on_reveal_phase; the strategy is asked only if something was committed,
\* and its silence reveals everything.
RevealPhase(n) ==
  LET b == BatchAt(block[n]) IN
  /\ InPhase(n, "Reveal")
  /\ \E indices \in IF committed[n] = <<>> THEN {{}} ELSE SUBSET (1..MaxIndex) :
       net' = net \union {RevealOf(n, b, i) : i \in indices}
  /\ UNCHANGED orcVars

\* on_match_phase: the node's committed orders and its peers' reveals.
MatchPhase(n) ==
  LET b == BatchAt(block[n]) IN
  /\ InPhase(n, "Match")
  /\ input' = [input EXCEPT ![n] =
       [batch |-> b, orders |-> committed[n] \o inbound_reveals[n][b]]]
  /\ UNCHANGED <<net, committed>>

\* on_swap_phase and take_matches.
SwapPhase(n) ==
  /\ InPhase(n, "Swap")
  /\ input' = [input EXCEPT ![n] = NoInput]
  /\ UNCHANGED <<net, committed>>

-----------------------------------------------------------------------------
(* The other participants of the network.                                  *)

SignedReveal(m) == m.kind = "reveal" /\ m.signed

\* A stray publishes what it likes, in any batch and pool: a reveal it never
\* committed, a commit in another's name, a reveal once more under another
\* batch.  It has no node's key: a node's signature it can only repeat.
PublishStray(m) ==
  /\ SignedReveal(m) =>
       \/ m.order.nft \in Stray
       \/ \E r \in net : SignedReveal(r) /\ r.order = m.order
  /\ net' = net \union {m}
  /\ UNCHANGED <<loopVars, orcVars, storeVars, dedupVars, vbatch, keyVars>>

Next ==
  \/ \E n \in Node :
       \/ \E m \in net : Deliver(n, m)
       \/ \E h \in Block : PassBlock(n, h) \/ EnterPhase(n, h)
       \/ StaleBlock(n)
       \/ CommitPhase(n) \/ RevealPhase(n) \/ MatchPhase(n) \/ SwapPhase(n)
  \/ \E m \in StrayMessages : PublishStray(m)

Spec == Init /\ [][Next]_vars

-----------------------------------------------------------------------------
(* Properties.                                                             *)

\* Order o was revealed with its signature, in a message of batch b.
Revealed(o, b) == \E r \in net : SignedReveal(r) /\ r.order = o /\ r.batch = b

\* The owner of order o committed it.
Committed(o) == \E c \in net : c.kind = "commit" /\ c.order = o /\ c.by = o.nft

Stored(n, o) == \E b \in Batch : o \in ToSet(inbound_reveals[n][b])

\* A reveal hash is remembered only for a reveal the node holds, or held
\* until the batch it was revealed for left the window.  Otherwise a reveal
\* rejected for a missing key would be taken for a duplicate when it is sent
\* again.
SeenIsStored ==
  \A n \in Node : \A o \in seen_reveals[n] :
    \/ Stored(n, o)
    \/ \E b \in Batch : b < vbatch[n] - BATCH_WINDOW /\ Revealed(o, b)

From(p, s) == Cardinality({i \in DOMAIN s : s[i].nft = p})

\* The rate limiter counts exactly the messages of a sender and batch that
\* the node stores: rejected messages are uncounted, expired ones forgotten
\* together with what was stored.
CountsMatchStore ==
  \A n \in Node, p \in Nft : \A b \in Batch :
    msg_counts[n][p][b] = From(p, inbound_commits[n][b]) + From(p, inbound_reveals[n][b])

\* What a node matches is its own committed orders and orders somebody
\* revealed, with their owner's signature, in messages of that batch: no
\* placeholder, nothing stored for another batch.  An order in the name of a
\* node that runs this program is one that node committed, whatever the
\* strays publish; of a stray's order nothing says that it was committed.
InputAuthentic ==
  \A n \in Node : \A o \in ToSet(input[n].orders) :
    /\ o.nft = n \/ Revealed(o, input[n].batch)
    /\ o.nft \in Node => Committed(o)

\* The key of an NFT the validator could not verify is fetched, or its fetch
\* has failed, before PUBKEY_FETCH_INTERVAL batch boundaries have passed,
\* even if other NFTs were fetched in between and batches were skipped.
KeyFetchedInTime ==
  \A n \in Node : \A p \in unknown[n] :
    vbatch[n] < heard_at[n][p] + PUBKEY_FETCH_INTERVAL

\* The reveals of batch b that node n knows of: its own and those it stored.
RevealsKnown(n, b) ==
  {m.order : m \in {r \in net : r.kind = "reveal" /\ r.signed
                                  /\ r.batch = b /\ r.by = n}}
    \union ToSet(inbound_reveals[n][b])

\* "Every node with the same set of revealed orders MUST produce the exact
\* same match list": two nodes that have just matched the same batch in the
\* same pool from the same reveals matched the same orders.
SameRevealsSameInput ==
  \A n, p \in Node :
    LET b == input[n].batch IN
    (/\ b # 0 /\ input[p].batch = b /\ PoolOf[n][b] = PoolOf[p][b]
     /\ RevealsKnown(n, b) = RevealsKnown(p, b))
      => ToSet(input[n].orders) = ToSet(input[p].orders)

\* "Safe because old batches are already outside the window": after the
\* periodic clear of the content hashes, too, no order is matched twice.
EachOrderOnce == \A n \in Node : IsInjective(input[n].orders)
==============================================================================
