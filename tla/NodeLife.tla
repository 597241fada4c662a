------------------------------ MODULE NodeLife ------------------------------
(***************************************************************************)
(* How a running node stays alive and trades: one iteration of the run     *)
(* loop per block, with the work of a batch boundary (parameters and epoch *)
(* fetched again, gas, heartbeat, liveness check, trading pause), the node *)
(* state machine, and the chain that reaps an NFT whose heartbeat is late. *)
(*                                                                         *)
(* Gas, escrow, the strategy and settlements change at any time (at most   *)
(* MaxMoves times); a call that fails, an outage of the poller and a       *)
(* restart cost one of MaxFaults. What the chain refuses, a start that     *)
(* could not read the escrow, and heartbeats left out for a settlement of  *)
(* other NFTs are no faults: they are counted in `missed`.                 *)
(***************************************************************************)
EXTENDS Integers, FiniteSets

CONSTANTS
    Nft,              \* nft_id, which offsets the schedules
    Interval,         \* heartbeat_interval (10), in batches
    Timeout,          \* heartbeat timeout of the contract (50), in batches
    LivenessEvery,    \* liveness_check_interval (50)
    GasEvery,         \* batches between two looks at the gas balance (10)
    BlocksPerBatch,   \* the values blocks_per_batch may have
    Spare,            \* heartbeats the timeout leaves time to miss, beside the faults
    MaxBlock, MaxJump, MaxMoves, MaxFaults

ASSUME LifeAssumption ==
    /\ Nft \in Nat /\ Interval \in Nat \ {0} /\ LivenessEvery \in Nat \ {0} /\ GasEvery \in Nat \ {0}
    /\ Timeout \in Nat /\ Timeout >= (2 + MaxFaults + Spare) * Interval
    /\ Spare \in Nat
    /\ BlocksPerBatch \subseteq Nat \ {0, 1} /\ BlocksPerBatch # {}
    /\ MaxBlock \in Nat /\ MaxJump \in Nat /\ MaxMoves \in Nat /\ MaxFaults \in Nat

VARIABLES
    \* The chain.
    block, chain_params, active, last_beat, capital, gas,
    \* The strategy's connection and an event of a settlement not yet polled.
    connected, event,
    \* The run loop.
    params, bridge, last_block, last_phase, last_batch_id,
    gas_seen, trading_paused, has_capital, last_settlement_batch, committed,
    \* The node state machine.
    state, was_connected, first_batch_entered,
    \* Batches the gas has been critical, and batches an NFT has been inactive
    \* without an answer of the chain to a reactivation.
    critical_for, inactive_for,
    \* Heartbeats left out or refused since the last one on chain.
    missed,
    moves, faults

chain == <<block, chain_params, active, last_beat, capital, gas>>
world == <<connected, event>>
clock == <<params, bridge, last_block, last_phase, last_batch_id>>
duties == <<gas_seen, trading_paused, has_capital, last_settlement_batch, committed>>
machine == <<state, was_connected, first_batch_entered>>
counts == <<critical_for, inactive_for, missed>>
vars == <<chain, world, clock, duties, machine, counts, moves, faults>>

(* Gas balances by GasStatus. *)
Critical == 0
Low == 1
Normal == 2

-----------------------------------------------------------------------------
(* blocks_since / blocks_per_batch, counted from the epoch's anchor. *)
BlocksSince(b, p) == IF b > p.anchor_block THEN b - p.anchor_block ELSE 0

compute_batch_id(b, p) == p.anchor_batch + BlocksSince(b, p) \div p.blocks

(* The first block of a batch is for commits; the phases after it are one here. *)
compute_phase(b, p) == IF BlocksSince(b, p) % p.blocks = 0 THEN "commit" ELSE "later"

ChainBatch == compute_batch_id(block, chain_params)

Horizon == MaxBlock + MaxJump

(* A batch has at least two blocks, and the first is 1. *)
MaxBatch == 1 + Horizon \div 2

ParamSets == [blocks : BlocksPerBatch, anchor_block : 0 .. Horizon, anchor_batch : 1 .. MaxBatch]

LifeTypeOK ==
    /\ block \in 0 .. Horizon
    /\ chain_params \in ParamSets /\ params \in ParamSets /\ bridge \in ParamSets
    /\ {active, capital, connected, has_capital, trading_paused, committed} \subseteq BOOLEAN
    /\ {was_connected, first_batch_entered} \subseteq BOOLEAN
    /\ {last_beat, event, last_batch_id, last_settlement_batch} \subseteq 0 .. MaxBatch
    /\ {gas, gas_seen} \subseteq {Critical, Low, Normal}
    /\ last_block \in 0 .. block
    /\ last_phase \in {"commit", "later"}
    /\ state \in {"Connected", "Observing", "Trading"}
    /\ {critical_for, inactive_for} \subseteq 0 .. MaxBatch
    /\ missed \in 0 .. last_block
    /\ moves \in 0 .. MaxMoves /\ faults \in 0 .. MaxFaults

(* The balance on chain, or what the caller has when it cannot be read. *)
fetch_supra_balance(read, otherwise) == IF read THEN gas ELSE otherwise

(* The start of run(): balances and parameters are read from the chain; a gas
   balance that cannot be read counts as none, and so does an escrow balance, which
   is not read again. *)
Started(gas_read, escrow_read) ==
    /\ params' = chain_params /\ bridge' = chain_params
    /\ last_block' = block
    /\ last_phase' = compute_phase(block, chain_params)
    /\ last_batch_id' = ChainBatch
    /\ gas_seen' = fetch_supra_balance(gas_read, Critical)
    /\ trading_paused' = FALSE
    /\ has_capital' = (capital /\ escrow_read)
    /\ last_settlement_batch' = 0
    /\ committed' = FALSE
    /\ state' = "Connected" /\ was_connected' = FALSE /\ first_batch_entered' = FALSE

Init ==
    /\ block = 0
    /\ chain_params \in [blocks : BlocksPerBatch, anchor_block : {0}, anchor_batch : {1}]
    /\ active = TRUE /\ last_beat = 1 /\ capital \in BOOLEAN /\ gas = Normal
    /\ connected \in BOOLEAN /\ event = 0
    /\ params = chain_params /\ bridge = chain_params
    /\ last_block = 0 /\ last_phase = "commit" /\ last_batch_id = 1
    /\ gas_seen = Normal /\ trading_paused = FALSE /\ has_capital \in {FALSE, capital}
    /\ last_settlement_batch = 0 /\ committed = FALSE
    /\ state = "Connected" /\ was_connected = FALSE /\ first_batch_entered = FALSE
    /\ critical_for = 0 /\ inactive_for = 0 /\ missed = 0
    /\ moves = 0 /\ faults = 0

Fault == faults < MaxFaults /\ faults' = faults + 1

Move == moves < MaxMoves /\ moves' = moves + 1

-----------------------------------------------------------------------------
(***************************************************************************)
(* The chain and the world.                                                *)
(***************************************************************************)

(* Blocks up to b are made. When a batch ends, an NFT whose last heartbeat is
   more than Timeout batches old is reaped. *)
Blocks(b, p) ==
    /\ block' = b
    /\ chain_params' = p
    /\ LET old == ChainBatch
           new == compute_batch_id(b, p)
       IN /\ active' = (active /\ new - last_beat <= Timeout)
          /\ critical_for' = IF gas = Critical THEN critical_for + (new - old) ELSE 0
          /\ inactive_for' = IF ~active' THEN inactive_for + (new - old) ELSE 0
    /\ UNCHANGED <<last_beat, capital, gas, world, clock, duties, machine, missed>>

(* The node keeps up with the chain: its poller looks every 200 ms. *)
NewBlock ==
    /\ block < MaxBlock /\ last_block = block
    /\ Blocks(block + 1, chain_params)
    /\ UNCHANGED <<moves, faults>>

(* The poller backs off after errors and misses some blocks. *)
PollerOutage ==
    /\ block < MaxBlock /\ last_block = block /\ Fault
    /\ \E n \in 2 .. MaxJump : Blocks(block + n, chain_params)
    /\ UNCHANGED moves

(* Governance changes blocks_per_batch: the next batch begins with the next
   block and is the anchor of the new epoch. *)
Govern ==
    /\ block < MaxBlock /\ last_block = block /\ Move
    /\ compute_batch_id(block + 1, chain_params) # ChainBatch
    /\ \E n \in BlocksPerBatch \ {chain_params.blocks} :
        Blocks(block + 1,
               [blocks |-> n, anchor_block |-> block + 1, anchor_batch |-> ChainBatch + 1])
    /\ UNCHANGED faults

(* The batches whose settlement may be confirmed now to a node that booked the
   match. With nothing seeded into its tracker it books none. *)
Confirmable == IF has_capital THEN {ChainBatch, ChainBatch - 1} \ {0} ELSE {}

(* A trade of this node in this or the previous batch is settled, by either party:
   an implicit heartbeat. The node may have forgotten the match in a restart. *)
TradeSettled ==
    /\ active /\ capital /\ event = 0 /\ Move
    /\ event' \in Confirmable \cup {0}
    /\ last_beat' = ChainBatch /\ missed' = 0
    /\ UNCHANGED <<block, chain_params, active, capital, gas, connected, clock, duties, machine,
                   critical_for, inactive_for, faults>>

(* A match of two other NFTs, which the node has booked like its own, is settled:
   no heartbeat of this NFT. *)
OthersSettled ==
    /\ event = 0 /\ Move
    /\ event' \in Confirmable
    /\ UNCHANGED <<chain, connected, clock, duties, machine, counts, faults>>

GasMoves ==
    /\ Move
    /\ gas' \in {Critical, Low, Normal} \ {gas}
    /\ critical_for' = 0
    /\ UNCHANGED <<block, chain_params, active, last_beat, capital, world, clock, duties, machine,
                   inactive_for, missed, faults>>

Deposited ==
    /\ ~capital /\ Move
    /\ capital' = TRUE
    /\ UNCHANGED <<block, chain_params, active, last_beat, gas, world, clock, duties, machine, counts, faults>>

StrategyMoves ==
    /\ Move
    /\ connected' = ~connected
    /\ UNCHANGED <<chain, event, clock, duties, machine, counts, faults>>

Restart ==
    /\ Fault
    /\ \E gas_read, escrow_read \in BOOLEAN : Started(gas_read, escrow_read)
    /\ event' = 0
    /\ UNCHANGED <<chain, connected, counts, moves>>

-----------------------------------------------------------------------------
(***************************************************************************)
(* One iteration of the run loop. F is the set of calls that fail in it, R *)
(* the set of transactions the chain refuses.                              *)
(***************************************************************************)

Calls == {"params", "epoch", "gas", "heartbeat", "liveness", "events"}

Failures == {F \in SUBSET Calls : Cardinality(F) <= MaxFaults}

NewBatch == compute_batch_id(block, params)

NewPhase == compute_phase(block, params)

(* More than two batches missed: the iteration ends at once. *)
SkipsAhead == NewBatch > last_batch_id + 2

Transition == ~SkipsAhead /\ (NewPhase # last_phase \/ NewBatch # last_batch_id)

Boundary == ~SkipsAhead /\ NewBatch # last_batch_id

(* A failure counts only of a call that is made: events are polled in every
   iteration, which matters when there is one, the others at a boundary. *)
CallsMade == {c \in Calls : IF c = "events" THEN ~SkipsAhead /\ event # 0 ELSE Boundary}

(* Mutant: a node that loses its strategy starts from Setup. *)
SetupAgain(s, e) ==
    CASE s = "Connected" /\ e = "StrategyConnected" -> "Observing"
      [] s \in {"Observing", "Trading"} /\ e = "StrategyDisconnected" -> "Setup"
      [] s = "Observing" /\ e = "FirstBatchEntered" -> "Trading"
      [] OTHER -> s

(* NodeStateMachine::transition for the events that run() sends. An event that
   does not fit the state is an error and changes nothing. *)
transition(s, e) ==
    CASE s = "Connected" /\ e = "StrategyConnected" -> "Observing"
      [] s \in {"Observing", "Trading"} /\ e = "StrategyDisconnected" -> "Connected"
      [] s = "Observing" /\ e = "FirstBatchEntered" -> "Trading"
      [] OTHER -> s

Comes == connected /\ ~was_connected
Goes == ~connected /\ was_connected

Tracked ==
    IF Comes THEN transition(state, "StrategyConnected")
    ELSE IF Goes THEN transition(state, "StrategyDisconnected") ELSE state

(* Mutant: the first batch is remembered over a disconnection. *)
FirstKept == first_batch_entered

FirstAfterTracking == IF Goes THEN FALSE ELSE first_batch_entered

(* In the commit phase an observing node begins to trade. *)
TrackStrategy ==
    LET enters == Transition /\ NewPhase = "commit" /\ ~FirstAfterTracking /\ Tracked = "Observing"
    IN /\ was_connected' = connected
       /\ state' = IF enters THEN transition(Tracked, "FirstBatchEntered") ELSE Tracked
       /\ first_batch_entered' = (enters \/ FirstAfterTracking)

(* Parameters and epoch are two calls; the orchestrator's bridge keeps the ones
   of the start. *)
RefetchParams(F) ==
    /\ params' = IF ~Boundary THEN params ELSE
            [blocks       |-> IF "params" \in F THEN params.blocks ELSE chain_params.blocks,
             anchor_block |-> IF "epoch" \in F THEN params.anchor_block ELSE chain_params.anchor_block,
             anchor_batch |-> IF "epoch" \in F THEN params.anchor_batch ELSE chain_params.anchor_batch]
    /\ UNCHANGED bridge

(* Mutant: the balance is read at the start only. *)
NeverRefreshed(F) == UNCHANGED gas_seen

RefreshGas(F) ==
    gas_seen' = IF Boundary /\ NewBatch % GasEvery = 0
                THEN fetch_supra_balance("gas" \notin F, gas_seen)
                ELSE gas_seen

(* Pause at Critical, resume at Normal only. *)
GasPause ==
    trading_paused' =
        IF ~Boundary THEN trading_paused
        ELSE gas_seen' = Critical \/ (trading_paused /\ gas_seen' # Normal)

(* Mutant: a settlement ever seen makes heartbeats unnecessary. *)
RefreshedOnce == last_settlement_batch > 0

(* A settlement of the last `Interval` batches is taken for a heartbeat, whoever's
   it was. *)
settlement_refreshed == last_settlement_batch > 0 /\ NewBatch - last_settlement_batch < Interval

(* escrow_balances, and with it has_capital, is read at the start only. *)
HeartbeatDue ==
    /\ Boundary
    /\ has_capital
    /\ ~settlement_refreshed
    /\ NewBatch % Interval = Nft % Interval

(* Mutant: the check is for batches a multiple of the NFT's number apart. *)
LivenessByNft == Boundary /\ NewBatch % LivenessEvery = Nft

LivenessDue == Boundary /\ NewBatch % LivenessEvery = Nft % LivenessEvery

(* The transactions the chain may refuse: any for want of gas, a reactivation also
   because of the escrow, the grace period or the end of the holding period. *)
Refusals ==
    {R \in SUBSET {"heartbeat", "liveness"} :
        (R # {} => Boundary) /\ ("heartbeat" \in R => gas = Critical)}

(* A heartbeat is left out, though the NFT needs it, by a node that saw no escrow
   at its start or takes a settlement of others for a heartbeat; or is refused. *)
SlotMissed(R) ==
    /\ active /\ Boundary /\ NewBatch % Interval = Nft % Interval
    /\ \/ ~has_capital
       \/ settlement_refreshed /\ last_settlement_batch > last_beat
       \/ "heartbeat" \in R

(* The chain refuses the heartbeat of an inactive NFT, and the reactivation of one
   without escrow; any answer ends the wait for a reactivation. A call that fails
   (in F) leaves nothing on chain here; one that got there all the same would only
   refresh the NFT sooner. *)
KeepAlive(F, R) ==
    LET beats   == active /\ HeartbeatDue /\ "heartbeat" \notin F \cup R
        asks    == ~active /\ LivenessDue /\ "liveness" \notin F
        revives == asks /\ capital /\ "liveness" \notin R
    IN /\ last_beat' = IF beats \/ revives THEN ChainBatch ELSE last_beat
       /\ active' = (active \/ revives)
       /\ inactive_for' = IF asks THEN 0 ELSE inactive_for
       /\ missed' = IF beats \/ revives THEN 0
                    ELSE IF SlotMissed(R) THEN missed + 1 ELSE missed

(* The events of the block's settlements, of matches the node has booked; an error
   loses them. *)
PollEvents(F) ==
    IF SkipsAhead \/ event = 0 THEN UNCHANGED <<event, last_settlement_batch>>
    ELSE /\ event' = 0
         /\ last_settlement_batch' = IF "events" \in F THEN last_settlement_batch ELSE event

CommitPhase ==
    committed' = (/\ Transition /\ NewPhase = "commit"
                  /\ state' = "Trading" /\ ~trading_paused' /\ connected)

BlockUpdate ==
    /\ last_block < block
    /\ \E F \in Failures :
        /\ F \subseteq CallsMade /\ Cardinality(F) <= MaxFaults - faults
        /\ faults' = faults + Cardinality(F)
        /\ RefetchParams(F) /\ RefreshGas(F) /\ PollEvents(F)
        /\ \E R \in Refusals : KeepAlive(F, R)
    /\ TrackStrategy /\ GasPause /\ CommitPhase
    /\ last_block' = block /\ last_phase' = NewPhase /\ last_batch_id' = NewBatch
    /\ UNCHANGED <<block, chain_params, capital, gas, connected, has_capital, critical_for, moves>>

Next ==
    \/ BlockUpdate \/ Restart
    \/ NewBlock \/ PollerOutage \/ Govern
    \/ TradeSettled \/ OthersSettled \/ GasMoves \/ Deposited \/ StrategyMoves

Spec == Init /\ [][Next]_vars

-----------------------------------------------------------------------------
(***************************************************************************)
(* Properties.                                                             *)
(***************************************************************************)

(* An NFT is reaped for a named cause only: more than Spare of its heartbeats were
   left out by a node that saw no escrow at its start, or for settlements of other
   NFTs, or were refused for want of gas. The schedule, heartbeats left out for a
   settlement that did refresh the NFT, missed batches, restarts and failed
   submissions together never make the last heartbeat older than the timeout, when
   that is at least 2 + MaxFaults + Spare intervals. *)
ReapedForCause == ~active => missed > Spare

(* A reaped NFT is reactivated, or its reactivation refused by the chain, at the next
   liveness check that works. (A node that saw no escrow at its start sends no
   heartbeat after a deposit, since has_capital is not read again, and depends on
   this.) *)
RecoversInTime == inactive_for <= LivenessEvery * (1 + faults)

(* Orders are committed with the gas gone only until the balance is looked at. *)
PausesInTime == committed => critical_for <= GasEvery * (1 + faults)

(* The state machine follows the connection the loop saw: no strategy, no trading,
   and a node that waits for its first batch enters it. *)
StateTracksStrategy ==
    /\ was_connected <=> state \in {"Observing", "Trading"}
    /\ state = "Observing" => ~first_batch_entered

(* "pool_id is computed from orchestrator at this exact boundary so the snapshot
   stays consistent with the phase + batch_id we just transitioned into": the
   bridge's batch is the loop's. *)
BridgeAgrees == last_block = block => compute_batch_id(block, bridge) = last_batch_id

(* "Settlement is an implicit heartbeat on-chain. Track it so we can skip redundant
   explicit heartbeats": the settlement remembered did refresh this NFT. *)
SettlementRefreshed == last_settlement_batch <= last_beat
=============================================================================
