--------------------------- MODULE NodeLifeProofs ---------------------------
(***************************************************************************)
(* Machine-checked facts about NodeLife, for every schedule, every set of  *)
(* batch lengths and all bounds.                                           *)
(***************************************************************************)
EXTENDS NodeLife, FiniteSetTheorems, TLAPS

(* An epoch's anchor is not in the future, and not numbered beyond what its block
   allows, since a batch has at least two blocks. *)
Anchored(p, b) ==
    /\ p \in [blocks : BlocksPerBatch, anchor_block : Nat, anchor_batch : Nat \ {0}]
    /\ p.anchor_block <= b
    /\ 2 * (p.anchor_batch - 1) <= p.anchor_block

(* The parameters in use are a mixture of ones the chain had. *)
Anchors == Anchored(chain_params, block) /\ Anchored(params, block) /\ Anchored(bridge, block)

(* What is counted in batches began with batch 1 at the earliest. *)
CountsFit == critical_for <= ChainBatch - 1 /\ inactive_for <= ChainBatch - 1

(* A node without a strategy has forgotten its first batch, so that it enters one
   again when the strategy is back. *)
FirstForgotten == state = "Connected" => ~first_batch_entered

(* The types, variable by variable; the parameters' follow from Anchors. *)
ChainTypes ==
    /\ block \in 0 .. Horizon
    /\ active \in BOOLEAN /\ capital \in BOOLEAN
    /\ last_beat \in 0 .. MaxBatch
    /\ gas \in {Critical, Low, Normal}
    /\ critical_for \in Nat /\ inactive_for \in Nat

LoopTypes ==
    /\ last_block \in 0 .. block
    /\ last_phase \in {"commit", "later"}
    /\ last_batch_id \in 0 .. MaxBatch
    /\ gas_seen \in {Critical, Low, Normal}
    /\ trading_paused \in BOOLEAN /\ has_capital \in BOOLEAN /\ committed \in BOOLEAN
    /\ last_settlement_batch \in 0 .. MaxBatch

MachineTypes ==
    /\ state \in {"Connected", "Observing", "Trading"}
    /\ was_connected \in BOOLEAN /\ first_batch_entered \in BOOLEAN

OtherTypes ==
    /\ connected \in BOOLEAN /\ event \in 0 .. MaxBatch
    /\ missed \in 0 .. last_block
    /\ moves \in 0 .. MaxMoves /\ faults \in 0 .. MaxFaults

(* The inductive invariant. *)
LifeInv == /\ ChainTypes /\ LoopTypes /\ MachineTypes /\ OtherTypes
           /\ Anchors /\ CountsFit /\ StateTracksStrategy /\ FirstForgotten

-----------------------------------------------------------------------------
(* Batches.                                                                *)

(* Whole batches of n >= 2 blocks. *)
LEMMA Division ==
    ASSUME NEW s \in Nat, NEW n \in Nat \ {0, 1}
    PROVE  s \div n \in Nat /\ 2 * (s \div n) <= s
BY Z3

(* The batch of a later block is not an earlier batch. *)
LEMMA DivisionGrows ==
    ASSUME NEW s \in Nat, NEW r \in Nat, s <= r, NEW n \in Nat \ {0, 1}
    PROVE  s \div n <= r \div n
BY Z3

(* The number of a batch (compute_batch_id) is within what its block allows. *)
LEMMA BatchFits ==
    ASSUME NEW b \in Nat, NEW c \in Nat, b <= c, NEW p, Anchored(p, b)
    PROVE  /\ compute_batch_id(b, p) \in Nat \ {0}
           /\ 2 * (compute_batch_id(b, p) - 1) <= b
           /\ compute_batch_id(b, p) <= compute_batch_id(c, p)
<1> DEFINE s == BlocksSince(b, p) r == BlocksSince(c, p) n == p.blocks
<1>1. /\ n \in Nat \ {0, 1} /\ p.anchor_block \in Nat /\ p.anchor_batch \in Nat \ {0}
      /\ p.anchor_block <= b /\ 2 * (p.anchor_batch - 1) <= p.anchor_block
  BY LifeAssumption DEF Anchored
<1>2. s = b - p.anchor_block /\ r = c - p.anchor_block /\ s \in Nat /\ r \in Nat /\ s <= r
  BY <1>1 DEF BlocksSince
<1>3. s \div n \in Nat /\ 2 * (s \div n) <= s /\ s \div n <= r \div n /\ r \div n \in Nat
  BY <1>1, <1>2, Division, DivisionGrows
<1>4. compute_batch_id(b, p) = p.anchor_batch + s \div n /\ compute_batch_id(c, p) = p.anchor_batch + r \div n
  BY DEF compute_batch_id
<1> DEFINE q == s \div n u == r \div n
<1> HIDE DEF s, r, n, q, u
<1>5. q \in Nat /\ 2 * q <= s /\ q <= u /\ u \in Nat
  BY <1>3 DEF q, u
<1> QED BY <1>1, <1>2, <1>4, <1>5 DEF q, u

(* Such a number is a batch number, if its block is within the horizon. *)
LEMMA WithinMax ==
    ASSUME NEW n \in Nat \ {0}, NEW b \in 0 .. Horizon, 2 * (n - 1) <= b
    PROVE  n \in 1 .. MaxBatch /\ MaxBatch \in Nat
<1>1. Horizon \in Nat
  BY LifeAssumption DEF Horizon
<1>2. Horizon \div 2 \in Nat /\ n - 1 <= Horizon \div 2
  BY <1>1, Z3
<1> QED BY <1>2 DEF MaxBatch

(* Parameters with such an anchor are parameters. *)
LEMMA AnchoredType ==
    ASSUME NEW b \in 0 .. Horizon, NEW p, Anchored(p, b)
    PROVE  p \in ParamSets
<1>1. /\ p \in [blocks : BlocksPerBatch, anchor_block : Nat, anchor_batch : Nat \ {0}]
      /\ p.anchor_block <= b /\ 2 * (p.anchor_batch - 1) <= p.anchor_block
  BY DEF Anchored
<1>2. p.anchor_block \in 0 .. Horizon /\ Horizon \in Nat
  BY <1>1, LifeAssumption DEF Horizon
<1>3. p.anchor_batch \in 1 .. MaxBatch
  BY <1>1, <1>2, WithinMax
<1> QED BY <1>1, <1>2, <1>3 DEF ParamSets

(* Anchors stay in the past. *)
LEMMA AnchoredLater ==
    ASSUME NEW b \in Nat, NEW c \in Nat, b <= c, NEW p, Anchored(p, b)
    PROVE  Anchored(p, c)
BY DEF Anchored

(* The chain's and the loop's number of the current batch. *)
LEMMA CurrentBatch ==
    ASSUME LifeInv
    PROVE  /\ ChainBatch \in 1 .. MaxBatch /\ NewBatch \in 1 .. MaxBatch /\ MaxBatch \in Nat
           /\ block \in Nat
<1>1. block \in 0 .. Horizon /\ block \in Nat /\ Anchored(chain_params, block) /\ Anchored(params, block)
  BY LifeAssumption DEF LifeInv, ChainTypes, Anchors, Horizon
<1>2. /\ ChainBatch \in Nat \ {0} /\ 2 * (ChainBatch - 1) <= block
      /\ NewBatch \in Nat \ {0} /\ 2 * (NewBatch - 1) <= block
  BY <1>1, BatchFits DEF ChainBatch, NewBatch
<1> QED BY <1>1, <1>2, WithinMax

(* The parts make up the type invariant of NodeLife. *)
LEMMA LifeTypes == ASSUME LifeInv PROVE LifeTypeOK
<1>1. chain_params \in ParamSets /\ params \in ParamSets /\ bridge \in ParamSets
  BY AnchoredType DEF LifeInv, ChainTypes, Anchors
<1>2. critical_for \in 0 .. MaxBatch /\ inactive_for \in 0 .. MaxBatch
  BY CurrentBatch DEF LifeInv, ChainTypes, CountsFit
<1>3. /\ {active, capital, connected, has_capital, trading_paused, committed} \subseteq BOOLEAN
      /\ {was_connected, first_batch_entered} \subseteq BOOLEAN
  BY Zenon DEF LifeInv, ChainTypes, LoopTypes, MachineTypes, OtherTypes
<1>4. /\ {last_beat, event, last_batch_id, last_settlement_batch} \subseteq 0 .. MaxBatch
      /\ {gas, gas_seen} \subseteq {Critical, Low, Normal}
      /\ {critical_for, inactive_for} \subseteq 0 .. MaxBatch
  BY <1>2, Zenon DEF LifeInv, ChainTypes, LoopTypes, MachineTypes, OtherTypes
<1> QED BY <1>1, <1>3, <1>4 DEF LifeInv, ChainTypes, LoopTypes, MachineTypes, OtherTypes, LifeTypeOK

(* Faults and moves stay within their bounds. *)
LEMMA Budgets ==
    ASSUME LifeInv
    PROVE  /\ Fault => faults' \in 0 .. MaxFaults
           /\ Move => moves' \in 0 .. MaxMoves
BY LifeAssumption DEF LifeInv, OtherTypes, Fault, Move

-----------------------------------------------------------------------------
(* One lemma for each group of actions.                                    *)

(* The start of the node. *)
LEMMA InitInv == Init => LifeInv
<1> SUFFICES ASSUME Init PROVE LifeInv
  OBVIOUS
<1>1. Anchored(chain_params, 0) /\ chain_params.anchor_block = 0 /\ chain_params.anchor_batch = 1
  BY DEF Init, Anchored
<1>2. block = 0 /\ 0 \in 0 .. Horizon /\ MaxBatch \in Nat \ {0}
  <2>1. Horizon \in Nat
    BY LifeAssumption DEF Horizon
  <2>2. 1 \in 1 .. MaxBatch /\ MaxBatch \in Nat
    <3>1. 1 \in Nat \ {0} /\ 0 \in 0 .. Horizon /\ 2 * (1 - 1) <= 0
      BY <2>1
    <3> QED BY <3>1, WithinMax
  <2> QED BY <2>1, <2>2 DEF Init
<1>3. Anchors
  BY <1>1, <1>2 DEF Init, Anchors
<1>4. ChainBatch \in Nat \ {0}
  BY <1>1, <1>2, BatchFits DEF ChainBatch
<1>5. ChainTypes /\ LoopTypes
  <2>1. /\ active \in BOOLEAN /\ capital \in BOOLEAN /\ trading_paused \in BOOLEAN
        /\ has_capital \in BOOLEAN /\ committed \in BOOLEAN
    BY Zenon DEF Init
  <2>2. /\ block \in 0 .. Horizon /\ last_beat \in 0 .. MaxBatch /\ last_block \in 0 .. block
        /\ last_batch_id \in 0 .. MaxBatch /\ last_settlement_batch \in 0 .. MaxBatch
        /\ gas \in {Critical, Low, Normal} /\ gas_seen \in {Critical, Low, Normal}
        /\ last_phase \in {"commit", "later"}
        /\ critical_for \in Nat /\ inactive_for \in Nat
    BY <1>2 DEF Init
  <2> QED BY <2>1, <2>2 DEF ChainTypes, LoopTypes
<1>6. MachineTypes /\ OtherTypes /\ StateTracksStrategy /\ FirstForgotten
  <2>1. MachineTypes /\ connected \in BOOLEAN
    BY Zenon DEF Init, MachineTypes
  <2>2. event \in 0 .. MaxBatch /\ missed \in 0 .. last_block /\ moves \in 0 .. MaxMoves /\ faults \in 0 .. MaxFaults
    BY <1>2, LifeAssumption DEF Init
  <2>3. StateTracksStrategy /\ FirstForgotten
    BY DEF Init, StateTracksStrategy, FirstForgotten
  <2> QED BY <2>1, <2>2, <2>3 DEF OtherTypes
<1>7. CountsFit
  BY <1>4 DEF Init, CountsFit
<1> QED BY <1>3, <1>5, <1>6, <1>7 DEF LifeInv

(* Blocks are made under the node. *)
LEMMA BlocksInv ==
    ASSUME LifeInv, NEW b \in block .. Horizon, NEW p, Anchored(p, b),
           ChainBatch <= compute_batch_id(b, p), Blocks(b, p),
           faults' \in 0 .. MaxFaults, moves' \in 0 .. MaxMoves
    PROVE  LifeInv'
<1> DEFINE old == ChainBatch new == compute_batch_id(b, p)
<1>1. /\ block' = b /\ chain_params' = p
      /\ active' = (active /\ new - last_beat <= Timeout)
      /\ critical_for' = IF gas = Critical THEN critical_for + (new - old) ELSE 0
      /\ inactive_for' = IF ~active' THEN inactive_for + (new - old) ELSE 0
      /\ UNCHANGED <<last_beat, capital, gas, missed, connected, event>>
      /\ UNCHANGED <<params, bridge, last_block, last_phase, last_batch_id>>
      /\ UNCHANGED <<gas_seen, trading_paused, has_capital, last_settlement_batch, committed>>
      /\ UNCHANGED <<state, was_connected, first_batch_entered>>
  BY DEF Blocks, world, clock, duties, machine
<1>2. block \in Nat /\ b \in Nat /\ block <= b /\ old \in Nat /\ new \in Nat \ {0} /\ old <= new
  BY CurrentBatch, BatchFits
<1>3. critical_for' \in Nat /\ inactive_for' \in Nat /\ critical_for' <= new - 1 /\ inactive_for' <= new - 1
  <2>1. critical_for \in Nat /\ inactive_for \in Nat /\ critical_for <= old - 1 /\ inactive_for <= old - 1
    BY DEF LifeInv, ChainTypes, CountsFit
  <2> HIDE DEF old, new
  <2> QED BY <1>1, <1>2, <2>1
<1>4. CountsFit'
  BY <1>1, <1>3 DEF CountsFit, ChainBatch
<1>5. Anchors'
  BY <1>1, <1>2, AnchoredLater DEF LifeInv, Anchors
<1>6. ChainTypes'
  <2>1. active' \in BOOLEAN
    BY <1>1
  <2>2. block' \in 0 .. Horizon
    BY <1>1, <1>2
  <2> QED BY <1>1, <1>3, <2>1, <2>2 DEF LifeInv, ChainTypes
<1>7. LoopTypes'
  BY <1>1, <1>2 DEF LifeInv, LoopTypes
<1>8. MachineTypes' /\ OtherTypes' /\ StateTracksStrategy' /\ FirstForgotten'
  BY <1>1 DEF LifeInv, MachineTypes, OtherTypes, StateTracksStrategy, FirstForgotten
<1> QED BY <1>4, <1>5, <1>6, <1>7, <1>8 DEF LifeInv

(* The three ways blocks are made. *)
LEMMA ChainMakesBlocks == ASSUME LifeInv, NewBlock \/ PollerOutage \/ Govern PROVE LifeInv'
<1>0. /\ block \in Nat /\ block < MaxBlock /\ MaxBlock \in Nat /\ MaxJump \in Nat /\ Horizon = MaxBlock + MaxJump
      /\ Anchored(chain_params, block)
      /\ moves \in 0 .. MaxMoves /\ faults \in 0 .. MaxFaults
  BY CurrentBatch, LifeAssumption
  DEF LifeInv, Anchors, OtherTypes, NewBlock, PollerOutage, Govern, Horizon
<1>1. ASSUME NEW n \in Nat \ {0}, block + n <= Horizon
      PROVE  /\ block + n \in block .. Horizon /\ Anchored(chain_params, block + n)
             /\ ChainBatch <= compute_batch_id(block + n, chain_params)
  BY <1>0, <1>1, AnchoredLater, BatchFits DEF ChainBatch
<1>2. CASE NewBlock
  BY <1>0, <1>1, <1>2, BlocksInv DEF NewBlock
<1>3. CASE PollerOutage
  <2>1. PICK n \in 2 .. MaxJump : Blocks(block + n, chain_params)
    BY <1>3 DEF PollerOutage
  <2> QED BY <1>0, <1>1, <1>3, <2>1, BlocksInv, Budgets DEF PollerOutage
<1>4. CASE Govern
  <2>1. PICK n \in BlocksPerBatch \ {chain_params.blocks} :
            Blocks(block + 1, [blocks |-> n, anchor_block |-> block + 1, anchor_batch |-> ChainBatch + 1])
    BY <1>4 DEF Govern
  <2> DEFINE p == [blocks |-> n, anchor_block |-> block + 1, anchor_batch |-> ChainBatch + 1]
             next == compute_batch_id(block + 1, chain_params)
  <2>2. ChainBatch \in Nat \ {0}
    BY CurrentBatch
  <2>3. /\ next \in Nat \ {0} /\ 2 * (next - 1) <= block + 1 /\ ChainBatch <= next
        /\ next # ChainBatch
    BY <1>0, <1>1, <1>4, BatchFits DEF Govern
  <2>4. 2 * ChainBatch <= block + 1
    <3> HIDE DEF next
    <3> QED BY <1>0, <2>2, <2>3
  <2>5. Anchored(p, block + 1)
    BY <1>0, <2>2, <2>4 DEF Anchored
  <2>6. compute_batch_id(block + 1, p) = ChainBatch + 1
    <3>1. BlocksSince(block + 1, p) = 0
      BY <1>0 DEF BlocksSince
    <3>2. 0 \div n = 0
      <4>1. n \in Nat \ {0, 1}
        BY LifeAssumption
      <4> QED BY <4>1, Division
    <3> QED BY <2>2, <3>1, <3>2 DEF compute_batch_id
  <2>7. block + 1 \in block .. Horizon /\ moves' \in 0 .. MaxMoves /\ faults' \in 0 .. MaxFaults
    BY <1>0, <1>4, Budgets DEF Govern
  <2> HIDE DEF p
  <2> QED BY <2>1, <2>2, <2>5, <2>6, <2>7, BlocksInv DEF p
<1> QED BY <1>2, <1>3, <1>4

(* What moves without the node. *)
LEMMA WorldInv ==
    ASSUME LifeInv, TradeSettled \/ OthersSettled \/ GasMoves \/ Deposited \/ StrategyMoves
    PROVE  LifeInv'
<1>0. /\ UNCHANGED <<block, chain_params, params, bridge, last_block, last_phase, last_batch_id>>
      /\ UNCHANGED <<gas_seen, trading_paused, has_capital, last_settlement_batch, committed>>
      /\ UNCHANGED <<state, was_connected, first_batch_entered, active, inactive_for, faults>>
      /\ Move
  BY DEF TradeSettled, OthersSettled, GasMoves, Deposited, StrategyMoves, chain, world, clock, duties, machine, counts
<1>1. /\ last_beat' \in {last_beat, ChainBatch} /\ event' \in {event, 0, ChainBatch, ChainBatch - 1}
      /\ missed' \in {missed, 0}
      /\ gas' \in {Critical, Low, Normal} /\ critical_for' \in {critical_for, 0}
      /\ capital' \in {capital, TRUE} /\ connected' \in {connected, ~connected}
  BY DEF TradeSettled, OthersSettled, GasMoves, Deposited, StrategyMoves, Confirmable, chain, world, counts, LifeInv, ChainTypes
<1>2. ChainBatch \in 1 .. MaxBatch /\ MaxBatch \in Nat /\ ChainBatch' = ChainBatch
  BY <1>0, CurrentBatch DEF ChainBatch
<1>3. Anchors' /\ CountsFit'
  BY <1>0, <1>1, <1>2 DEF LifeInv, Anchors, CountsFit, ChainTypes
<1>4. ChainTypes'
  <2>1. capital' \in BOOLEAN
    BY <1>1 DEF LifeInv, ChainTypes
  <2>2. last_beat' \in 0 .. MaxBatch /\ critical_for' \in Nat
    BY <1>1, <1>2 DEF LifeInv, ChainTypes
  <2> QED BY <1>0, <1>1, <2>1, <2>2 DEF LifeInv, ChainTypes
<1>5. LoopTypes'
  BY <1>0 DEF LifeInv, LoopTypes
<1>6. MachineTypes' /\ StateTracksStrategy' /\ FirstForgotten'
  BY <1>0 DEF LifeInv, MachineTypes, StateTracksStrategy, FirstForgotten
<1>7. OtherTypes'
  <2>1. connected' \in BOOLEAN
    BY <1>1 DEF LifeInv, OtherTypes
  <2>2. event' \in 0 .. MaxBatch
    BY <1>1, <1>2 DEF LifeInv, OtherTypes
  <2>3. missed' \in 0 .. last_block'
    BY <1>0, <1>1 DEF LifeInv, OtherTypes, LoopTypes
  <2> QED BY <1>0, <2>1, <2>2, <2>3, Budgets DEF LifeInv, OtherTypes
<1> QED BY <1>3, <1>4, <1>5, <1>6, <1>7 DEF LifeInv

(* A restart reads the chain again. *)
LEMMA RestartInv == ASSUME LifeInv, Restart PROVE LifeInv'
<1>1. PICK gas_read \in BOOLEAN, escrow_read \in BOOLEAN : Started(gas_read, escrow_read)
  BY DEF Restart
<1>2. /\ UNCHANGED <<block, chain_params, active, last_beat, capital, gas, connected, moves>>
      /\ UNCHANGED <<critical_for, inactive_for, missed>>
      /\ event' = 0 /\ faults' \in 0 .. MaxFaults
  BY Budgets DEF Restart, chain, counts
<1>3. ChainBatch \in 1 .. MaxBatch /\ MaxBatch \in Nat /\ ChainBatch' = ChainBatch /\ block \in Nat
  BY <1>2, CurrentBatch DEF ChainBatch
<1>4. Anchors' /\ CountsFit' /\ ChainTypes'
  BY <1>1, <1>2, <1>3 DEF LifeInv, Anchors, CountsFit, ChainTypes, Started
<1>5. LoopTypes'
  <2>1. trading_paused' \in BOOLEAN /\ has_capital' \in BOOLEAN /\ committed' \in BOOLEAN
    BY <1>1, Zenon DEF Started, LifeInv, ChainTypes
  <2>2. gas_seen' \in {Critical, Low, Normal}
    BY <1>1 DEF Started, fetch_supra_balance, LifeInv, ChainTypes
  <2>3. last_phase' \in {"commit", "later"}
    BY <1>1 DEF Started, compute_phase
  <2>4. /\ last_block' \in 0 .. block' /\ last_batch_id' \in 0 .. MaxBatch
        /\ last_settlement_batch' \in 0 .. MaxBatch
    BY <1>1, <1>2, <1>3 DEF Started
  <2> QED BY <2>1, <2>2, <2>3, <2>4 DEF LoopTypes
<1>6. MachineTypes' /\ StateTracksStrategy' /\ FirstForgotten'
  BY <1>1 DEF Started, MachineTypes, StateTracksStrategy, FirstForgotten
<1>7. OtherTypes'
  <2>1. missed' \in 0 .. last_block'
    BY <1>1, <1>2, <1>3 DEF Started, LifeInv, OtherTypes, LoopTypes
  <2> QED BY <1>2, <1>3, <2>1 DEF LifeInv, OtherTypes
<1> QED BY <1>4, <1>5, <1>6, <1>7 DEF LifeInv

(* The state machine and its flags over one iteration (NodeStateMachine::transition,
   TrackStrategy): an event that does not fit its state never happens, so state and
   flags stay together. *)
LEMMA TrackInv ==
    ASSUME LifeInv, TrackStrategy
    PROVE  MachineTypes' /\ StateTracksStrategy' /\ FirstForgotten'
<1>0. /\ state \in {"Connected", "Observing", "Trading"}
      /\ connected \in BOOLEAN /\ was_connected \in BOOLEAN /\ first_batch_entered \in BOOLEAN
      /\ StateTracksStrategy /\ FirstForgotten
  BY DEF LifeInv, MachineTypes, OtherTypes
<1>1. /\ Tracked \in {"Connected", "Observing", "Trading"}
      /\ connected <=> Tracked \in {"Observing", "Trading"}
      /\ FirstAfterTracking \in BOOLEAN
      /\ Tracked # "Trading" => ~FirstAfterTracking
  BY <1>0 DEF FirstForgotten, Tracked, Comes, Goes, transition, StateTracksStrategy, FirstAfterTracking
<1> QED
  BY <1>0, <1>1 DEF TrackStrategy, transition, StateTracksStrategy, FirstForgotten, MachineTypes

(* The calls of an iteration that fail can be counted. *)
LEMMA CallsCounted ==
    ASSUME NEW F \in SUBSET Calls
    PROVE  Cardinality(F) \in Nat /\ (Cardinality(F) = 0 <=> F = {})
<1>1. IsFiniteSet(Calls)
  <2> DEFINE A == {"params"} \cup {"epoch"}
             B == A \cup {"gas"}
             C == B \cup {"heartbeat"}
             D == C \cup {"liveness"}
  <2>1. IsFiniteSet({"params"})
    BY FS_Singleton
  <2>2. IsFiniteSet(A)
    BY <2>1, FS_AddElement
  <2>3. IsFiniteSet(B)
    <3> HIDE DEF A
    <3> QED BY <2>2, FS_AddElement
  <2>4. IsFiniteSet(C)
    <3> HIDE DEF B
    <3> QED BY <2>3, FS_AddElement
  <2>5. IsFiniteSet(D)
    <3> HIDE DEF C
    <3> QED BY <2>4, FS_AddElement
  <2>6. IsFiniteSet(D \cup {"events"})
    <3> HIDE DEF D
    <3> QED BY <2>5, FS_AddElement
  <2>7. Calls = D \cup {"events"}
    BY DEF Calls
  <2> QED BY <2>6, <2>7
<1> QED BY <1>1, FS_Subset, FS_CardinalityType, FS_EmptySet

(* One iteration of the run loop. *)
LEMMA UpdateInv == ASSUME LifeInv, BlockUpdate PROVE LifeInv'
<1>1. PICK F \in SUBSET Calls :
        /\ Cardinality(F) <= MaxFaults - faults
        /\ faults' = faults + Cardinality(F)
        /\ RefetchParams(F) /\ RefreshGas(F) /\ PollEvents(F)
        /\ \E R \in Refusals : KeepAlive(F, R)
  BY DEF BlockUpdate, Failures
<1>2. /\ TrackStrategy /\ GasPause /\ CommitPhase
      /\ last_block' = block /\ last_phase' = NewPhase /\ last_batch_id' = NewBatch
      /\ UNCHANGED <<block, chain_params, capital, gas, connected, has_capital, critical_for, moves>>
      /\ last_block < block
  BY DEF BlockUpdate, Failures
<1>3. /\ ChainBatch \in 1 .. MaxBatch /\ NewBatch \in 1 .. MaxBatch /\ MaxBatch \in Nat /\ block \in Nat
      /\ ChainBatch' = ChainBatch
  BY <1>2, CurrentBatch DEF ChainBatch
<1>4. MachineTypes' /\ StateTracksStrategy' /\ FirstForgotten'
  BY <1>2, TrackInv
<1>5. Anchors'
  <2>1. Anchored(chain_params, block) /\ Anchored(params, block) /\ Anchored(bridge, block)
    BY DEF LifeInv, Anchors
  <2> DEFINE n == IF "params" \in F THEN params.blocks ELSE chain_params.blocks
             a == IF "epoch" \in F THEN params.anchor_block ELSE chain_params.anchor_block
             c == IF "epoch" \in F THEN params.anchor_batch ELSE chain_params.anchor_batch
             p == [blocks |-> n, anchor_block |-> a, anchor_batch |-> c]
  <2>2. n \in BlocksPerBatch /\ a \in Nat /\ c \in Nat \ {0} /\ a <= block /\ 2 * (c - 1) <= a
    BY <2>1 DEF Anchored
  <2>3. Anchored(p, block)
    <3> HIDE DEF n, a, c
    <3> QED BY <2>2 DEF Anchored
  <2>4. params' = params \/ params' = p
    BY <1>1 DEF RefetchParams
  <2>5. bridge' = bridge
    BY <1>1 DEF RefetchParams
  <2> HIDE DEF p
  <2> QED BY <1>2, <2>1, <2>3, <2>4, <2>5 DEF Anchors
<1>6. /\ last_beat' \in {last_beat, ChainBatch} /\ inactive_for' \in {inactive_for, 0}
      /\ active' \in BOOLEAN
      /\ missed' \in {0, missed, missed + 1}
  BY <1>1 DEF KeepAlive
<1>7. ChainTypes' /\ CountsFit'
  <2>1. last_beat' \in 0 .. MaxBatch /\ inactive_for' \in Nat
    BY <1>3, <1>6 DEF LifeInv, ChainTypes
  <2>2. ChainTypes'
    BY <1>2, <1>6, <2>1 DEF LifeInv, ChainTypes
  <2>3. CountsFit'
    BY <1>2, <1>3, <1>6 DEF LifeInv, CountsFit, ChainTypes
  <2> QED BY <2>2, <2>3
<1>8. /\ event' \in 0 .. MaxBatch /\ last_settlement_batch' \in 0 .. MaxBatch
  <2>1. event \in 0 .. MaxBatch /\ last_settlement_batch \in 0 .. MaxBatch
    BY DEF LifeInv, OtherTypes, LoopTypes
  <2> QED BY <1>1, <1>3, <2>1 DEF PollEvents
<1>9. LoopTypes'
  <2>1. trading_paused' \in BOOLEAN /\ committed' \in BOOLEAN
    BY <1>2 DEF GasPause, CommitPhase, LifeInv, LoopTypes
  <2>2. gas_seen' \in {Critical, Low, Normal}
    BY <1>1 DEF RefreshGas, fetch_supra_balance, LifeInv, LoopTypes, ChainTypes
  <2>3. last_phase' \in {"commit", "later"}
    BY <1>2 DEF NewPhase, compute_phase
  <2> QED BY <1>2, <1>3, <1>8, <2>1, <2>2, <2>3 DEF LifeInv, LoopTypes
<1>10. OtherTypes'
  <2>1. faults' \in 0 .. MaxFaults
    <3>1. faults \in 0 .. MaxFaults /\ MaxFaults \in Nat
      BY LifeAssumption DEF LifeInv, OtherTypes
    <3>2. Cardinality(F) \in Nat
      BY CallsCounted
    <3> QED BY <1>1, <3>1, <3>2
  <2>2. missed' \in 0 .. last_block'
    BY <1>2, <1>3, <1>6 DEF LifeInv, OtherTypes, LoopTypes
  <2> QED BY <1>2, <1>8, <2>1, <2>2 DEF LifeInv, OtherTypes
<1> QED BY <1>4, <1>5, <1>7, <1>9, <1>10 DEF LifeInv

-----------------------------------------------------------------------------
(* The theorems.                                                           *)

(* The invariant holds through outages, restarts, changes of the batch length and
   failed calls. *)
THEOREM LifeInvariant == Spec => []LifeInv
<1>1. LifeInv /\ [Next]_vars => LifeInv'
  <2> SUFFICES ASSUME LifeInv, [Next]_vars PROVE LifeInv'
    OBVIOUS
  <2>1. CASE BlockUpdate
    BY <2>1, UpdateInv
  <2>2. CASE Restart
    BY <2>2, RestartInv
  <2>3. CASE NewBlock \/ PollerOutage \/ Govern
    BY <2>3, ChainMakesBlocks
  <2>4. CASE TradeSettled \/ OthersSettled \/ GasMoves \/ Deposited \/ StrategyMoves
    BY <2>4, WorldInv
  <2>5. CASE UNCHANGED vars
    <3>1. /\ UNCHANGED <<block, chain_params, active, last_beat, capital, gas, connected, event>>
          /\ UNCHANGED <<params, bridge, last_block, last_phase, last_batch_id, gas_seen, trading_paused>>
          /\ UNCHANGED <<has_capital, last_settlement_batch, committed, state, was_connected>>
          /\ UNCHANGED <<first_batch_entered, critical_for, inactive_for, missed, moves, faults>>
      BY <2>5 DEF vars, chain, world, clock, duties, machine, counts
    <3>2. ChainTypes' /\ LoopTypes' /\ MachineTypes' /\ OtherTypes'
      BY <3>1 DEF LifeInv, ChainTypes, LoopTypes, MachineTypes, OtherTypes
    <3>3. Anchors' /\ CountsFit' /\ StateTracksStrategy' /\ FirstForgotten'
      BY <3>1 DEF LifeInv, Anchors, CountsFit, ChainBatch, StateTracksStrategy, FirstForgotten
    <3> QED BY <3>2, <3>3 DEF LifeInv
  <2> QED BY <2>1, <2>2, <2>3, <2>4, <2>5 DEF Next
<1> QED BY <1>1, InitInv, PTL DEF Spec

(* Every variable keeps its type: no batch number, of the chain or of parameters
   that were fetched half before and half after a change, passes what the block
   allows. *)
THEOREM LifeTypeCorrect == Spec => []LifeTypeOK
BY LifeInvariant, LifeTypes, PTL

(* The state machine follows the strategy's connection (NodeStateMachine). *)
THEOREM StateFollowsStrategy == Spec => []StateTracksStrategy
<1>1. LifeInv => StateTracksStrategy
  BY DEF LifeInv
<1> QED BY <1>1, LifeInvariant, PTL

-----------------------------------------------------------------------------
(* The schedules. A duty of the loop (heartbeat, liveness check, look at the gas)
   is served at the boundary of every k-th batch, counted from r; an outage may
   jump over that batch and a call may fail, each at the price of a fault.  *)

(* The hypothesis of the promises: after an iteration the loop has the chain's
   parameters. Only a failed fetch right after a change of blocks_per_batch
   breaks it. *)
EpochFetched == last_block = block => params = chain_params

(* The other hypothesis: an outage is no longer than one period of the schedule. *)
OutagesWithin(k) == \A n \in BlocksPerBatch : MaxJump <= n * k

(* Batches since the last one in which a schedule was due. *)
Since(b, k, r) == (b - r) % k

(* With the chain in batch c and the loop in batch l: an outage whose missed batches
   the loop has not yet jumped over. *)
Unspent(c, l) == IF c > l + 1 THEN 1 ELSE 0

(* After f faults, the most batches that can have passed since a duty was served. *)
SlackOf(c, l, f, k, r) == (c - l) + Since(l, k, r) + k * (f - Unspent(c, l))

Slack(k, r) == SlackOf(ChainBatch, last_batch_id, faults, k, r)

(* The duty is attempted in this iteration. *)
Served(k, r) == Boundary /\ NewBatch % k = r % k

(* The loop numbers batches as the chain does. *)
Synced == /\ NewBatch = ChainBatch
          /\ Anchored(params, last_block)
          /\ last_batch_id = compute_batch_id(last_block, params)
          /\ ChainBatch \in Nat /\ last_batch_id \in 0 .. ChainBatch
          /\ Unspent(ChainBatch, last_batch_id) <= faults

Near(k) == ChainBatch - last_batch_id <= k

(* Division with remainder. *)
LEMMA Remainder ==
    ASSUME NEW x \in Int, NEW k \in Nat \ {0}
    PROVE  x % k \in 0 .. k - 1 /\ x \div k \in Int /\ x = k * (x \div k) + (x % k)
BY Z3

(* A multiple of k between -k and 2k. *)
LEMMA SmallQuotient ==
    ASSUME NEW k \in Nat \ {0}, NEW q \in Int, NEW d \in Int, d = k * q, d < 2 * k, d > - k
    PROVE  d = 0 \/ d = k
<1>1. q <= 1
  <2> SUFFICES ASSUME q >= 2 PROVE FALSE
    OBVIOUS
  <2>1. k * q >= k * 2
    BY Z3
  <2> QED BY <2>1
<1>2. q >= 0
  <2> SUFFICES ASSUME q <= -1 PROVE FALSE
    OBVIOUS
  <2>1. k * q <= k * (-1)
    BY Z3
  <2> QED BY <2>1
<1>3. q = 0 \/ q = 1
  BY <1>1, <1>2
<1> QED BY <1>3, Z3

(* A due batch is less than a period ago. *)
LEMMA SinceType ==
    ASSUME NEW b \in Nat, NEW k \in Nat \ {0}, NEW r \in Nat
    PROVE  Since(b, k, r) \in 0 .. k - 1
BY Remainder DEF Since

(* Up to one period later, at most one period has been forgotten. *)
LEMMA SinceGrows ==
    ASSUME NEW a \in Nat, NEW b \in Nat, NEW k \in Nat \ {0}, NEW r \in Nat, a <= b, b <= a + k
    PROVE  Since(a, k, r) + (b - a) <= Since(b, k, r) + k
<1> DEFINE x == a - r y == b - r p == x \div k q == y \div k u == x % k v == y % k
<1>1. x \in Int /\ y \in Int /\ x <= y /\ y <= x + k
  OBVIOUS
<1>2. u \in 0 .. k - 1 /\ p \in Int /\ x = k * p + u
  BY <1>1, Remainder
<1>3. v \in 0 .. k - 1 /\ q \in Int /\ y = k * q + v
  BY <1>1, Remainder
<1> HIDE DEF p, q, u, v
<1>4. k * (q - p) = k * q - k * p /\ k * p \in Int /\ k * q \in Int /\ q - p \in Int
  BY <1>2, <1>3, Z3
<1>5. k * (q - p) = (y - v) - (x - u)
  BY <1>1, <1>2, <1>3, <1>4
<1> DEFINE d == (y - v) - (x - u)
<1>6. d \in Int /\ d < 2 * k /\ d > - k
  BY <1>1, <1>2, <1>3
<1>7. d = 0 \/ d = k
  <2> HIDE DEF d
  <2> QED BY <1>4, <1>5, <1>6, SmallQuotient DEF d
<1>8. u + (b - a) <= v + k
  BY <1>2, <1>3, <1>7
<1> QED BY <1>8 DEF u, v, Since

(* Only a batch in which the schedule is due starts the count again. *)
LEMMA SinceNext ==
    ASSUME NEW a \in Nat, NEW k \in Nat \ {0}, NEW r \in Nat, (a + 1) % k # r % k
    PROVE  Since(a + 1, k, r) = Since(a, k, r) + 1
<1> DEFINE x == a - r y == a + 1 - r p == x \div k q == y \div k u == x % k v == y % k
<1>1. x \in Int /\ y \in Int /\ y = x + 1
  OBVIOUS
<1>2. u \in 0 .. k - 1 /\ p \in Int /\ x = k * p + u
  BY <1>1, Remainder
<1>3. v \in 0 .. k - 1 /\ q \in Int /\ y = k * q + v
  BY <1>1, Remainder
<1>9. v # 0
  <2> SUFFICES ASSUME v = 0 PROVE FALSE
    OBVIOUS
  <2> DEFINE c == a + 1 s == c \div k t == r \div k m == c % k n == r % k
  <2>1. c \in Int /\ m \in 0 .. k - 1 /\ s \in Int /\ c = k * s + m
    BY Remainder
  <2>2. n \in 0 .. k - 1 /\ t \in Int /\ r = k * t + n
    BY Remainder
  <2>3. m # n
    OBVIOUS
  <2> HIDE DEF s, t, m, n, q, v
  <2>4. k * (s - t - q) = k * s - k * t - k * q /\ k * s \in Int /\ k * t \in Int /\ k * q \in Int /\ s - t - q \in Int
    BY <1>3, <2>1, <2>2, Z3
  <2>5. k * (s - t - q) = n - m /\ n - m \in Int /\ n - m < k /\ n - m > -k
    BY <1>3, <2>1, <2>2, <2>4
  <2>6. n - m = 0 \/ n - m = k
    BY <2>4, <2>5, SmallQuotient
  <2> QED BY <2>1, <2>2, <2>3, <2>6
<1> HIDE DEF p, q, u, v
<1>4. k * (q - p) = k * q - k * p /\ k * p \in Int /\ k * q \in Int /\ q - p \in Int
  BY <1>2, <1>3, Z3
<1>5. k * (q - p) = (y - v) - (x - u)
  BY <1>1, <1>2, <1>3, <1>4
<1> DEFINE d == (y - v) - (x - u)
<1>6. d \in Int /\ d < 2 * k /\ d > - k
  BY <1>1, <1>2, <1>3
<1>7. d = 0 \/ d = k
  <2> HIDE DEF d
  <2> QED BY <1>4, <1>5, <1>6, SmallQuotient DEF d
<1>8. v = u + 1
  BY <1>1, <1>2, <1>3, <1>7, <1>9
<1> QED BY <1>8 DEF u, v, Since

(* The blocks of at most k batches pass at most k batch boundaries. *)
LEMMA JumpFits ==
    ASSUME NEW s \in Nat, NEW n \in Nat \ {0, 1}, NEW k \in Nat, NEW j \in Nat, j <= n * k
    PROVE  (s + j) \div n <= s \div n + k
<1> DEFINE t == s + j p == s \div n q == t \div n u == s % n v == t % n
<1>1. u \in 0 .. n - 1 /\ p \in Int /\ s = n * p + u
  BY Remainder
<1>2. v \in 0 .. n - 1 /\ q \in Int /\ t = n * q + v /\ t \in Nat
  <2>1. t \in Int /\ t \in Nat /\ n \in Nat \ {0}
    OBVIOUS
  <2> HIDE DEF t
  <2> QED BY <2>1, Remainder
<1> HIDE DEF p, q, u, v
<1>3. SUFFICES ASSUME q >= p + k + 1 PROVE FALSE
  BY <1>1, <1>2 DEF p, q
<1>4. n * q >= n * (p + k + 1)
  BY <1>1, <1>2, <1>3, Z3
<1>5. n * (p + k + 1) = n * p + n * k + n /\ n * p \in Int /\ n * k \in Int /\ n * q \in Int
  BY <1>1, <1>2, Z3
<1> QED BY <1>1, <1>2, <1>4, <1>5

(* The slack is never more than a period, and one more for every fault. *)
LEMMA SlackBound ==
    ASSUME NEW c \in Nat, NEW l \in Nat, NEW f \in Nat, NEW k \in Nat \ {0}, NEW r \in Nat,
           l <= c, c <= l + k, Unspent(c, l) <= f
    PROVE  SlackOf(c, l, f, k, r) \in Nat /\ SlackOf(c, l, f, k, r) <= k * (1 + f)
<1> DEFINE u == Unspent(c, l) s == Since(l, k, r) x == SlackOf(c, l, f, k, r)
<1>1. u \in {0, 1} /\ f - u \in Nat /\ (u = 0 => c <= l + 1)
  BY DEF Unspent
<1>2. s \in 0 .. k - 1
  BY SinceType
<1>3. x = (c - l) + s + k * (f - u)
  BY DEF SlackOf
<1> HIDE DEF u, s, x
<1>4. k * (f - u) \in Nat /\ k * (f - u) = k * f - k * u /\ k * (1 + f) = k + k * f /\ k * f \in Nat
  BY <1>1, Z3
<1>5. k * 0 = 0 /\ k * 1 = k
  BY Z3
<1>6. ASSUME u = 0 PROVE x <= k * (1 + f)
  BY <1>1, <1>2, <1>3, <1>4, <1>5, <1>6
<1>7. ASSUME u = 1 PROVE x <= k * (1 + f)
  BY <1>1, <1>2, <1>3, <1>4, <1>5, <1>7
<1>8. x \in Nat
  BY <1>1, <1>2, <1>3, <1>4
<1> QED BY <1>1, <1>6, <1>7, <1>8 DEF x

(* The chain gets ahead of a loop that was up to date. *)
LEMMA SlackAhead ==
    ASSUME NEW c \in Nat, NEW l \in Nat, NEW f \in Nat, NEW g \in Nat, NEW k \in Nat \ {0}, NEW r \in Nat,
           l <= c, f + Unspent(c, l) <= g
    PROVE  SlackOf(c, l, g, k, r) >= SlackOf(l, l, f, k, r) + (c - l)
<1> DEFINE u == Unspent(c, l) s == Since(l, k, r)
<1>1. u \in {0, 1} /\ Unspent(l, l) = 0
  BY DEF Unspent
<1>2. s \in 0 .. k - 1
  BY SinceType
<1>3. SlackOf(c, l, g, k, r) = (c - l) + s + k * (g - u) /\ SlackOf(l, l, f, k, r) = (l - l) + s + k * (f - 0)
  BY <1>1 DEF SlackOf
<1> HIDE DEF u, s
<1>4. k * (g - u) >= k * f /\ k * (g - u) \in Nat /\ k * f \in Nat
  <2>1. g - u \in Nat /\ g - u >= f
    BY <1>1 DEF u
  <2> QED BY <2>1, Z3
<1> QED BY <1>2, <1>3, <1>4

(* The loop jumps to the chain's batch: a fault makes up for at most one period. *)
LEMMA SlackSpent ==
    ASSUME NEW c \in Nat, NEW l \in Nat, NEW f \in Nat, NEW g \in Nat, NEW k \in Nat \ {0}, NEW r \in Nat,
           l <= c, c <= l + k, Unspent(c, l) <= f, f - Unspent(c, l) < g
    PROVE  SlackOf(c, c, g, k, r) >= SlackOf(c, l, f, k, r)
<1> DEFINE u == Unspent(c, l) s == Since(l, k, r) t == Since(c, k, r) h == f - u
<1>1. u \in {0, 1} /\ Unspent(c, c) = 0 /\ h \in Nat /\ h < g
  BY DEF Unspent
<1>2. s \in 0 .. k - 1 /\ t \in 0 .. k - 1 /\ s + (c - l) <= t + k
  BY SinceType, SinceGrows
<1>3. SlackOf(c, l, f, k, r) = (c - l) + s + k * h /\ SlackOf(c, c, g, k, r) = (c - c) + t + k * (g - 0)
  BY <1>1 DEF SlackOf
<1> HIDE DEF u, s, t, h
<1>4. k * g >= k * (h + 1) /\ k * (h + 1) = k * h + k /\ k * h \in Nat /\ k * g \in Nat
  BY <1>1, Z3
<1> QED BY <1>2, <1>3, <1>4

(* Whatever the loop does, an iteration makes up for at most one period. *)
LEMMA SlackPeriod ==
    ASSUME NEW c \in Nat, NEW l \in Nat, NEW f \in Nat, NEW g \in Nat, NEW k \in Nat \ {0}, NEW r \in Nat,
           l <= c, c <= l + k, Unspent(c, l) <= f, f <= g
    PROVE  SlackOf(c, c, g, k, r) + k >= SlackOf(c, l, f, k, r)
<1> DEFINE u == Unspent(c, l) s == Since(l, k, r) t == Since(c, k, r) h == f - u
<1>1. u \in {0, 1} /\ Unspent(c, c) = 0 /\ h \in Nat /\ h <= g
  BY DEF Unspent
<1>2. s \in 0 .. k - 1 /\ t \in 0 .. k - 1 /\ s + (c - l) <= t + k
  BY SinceType, SinceGrows
<1>3. SlackOf(c, l, f, k, r) = (c - l) + s + k * h /\ SlackOf(c, c, g, k, r) = (c - c) + t + k * (g - 0)
  BY <1>1 DEF SlackOf
<1> HIDE DEF u, s, t, h
<1>4. k * g >= k * h /\ k * h \in Nat /\ k * g \in Nat
  BY <1>1, Z3
<1> QED BY <1>2, <1>3, <1>4

(* The loop enters a batch in which nothing is due. *)
LEMMA SlackIdle ==
    ASSUME NEW c \in Nat, NEW l \in Nat, NEW f \in Nat, NEW g \in Nat, NEW k \in Nat \ {0}, NEW r \in Nat,
           c = l \/ (c = l + 1 /\ c % k # r % k), f <= g
    PROVE  SlackOf(c, c, g, k, r) >= SlackOf(c, l, f, k, r)
<1> DEFINE s == Since(l, k, r) t == Since(c, k, r)
<1>1. Unspent(c, c) = 0 /\ Unspent(c, l) = 0
  BY DEF Unspent
<1>2. s \in 0 .. k - 1 /\ t \in 0 .. k - 1
  BY SinceType
<1>3. t = s + (c - l)
  <2>1. CASE c = l
    BY <1>2, <2>1
  <2>2. CASE c = l + 1 /\ c % k # r % k
    BY <1>2, <2>2, SinceNext
  <2> QED BY <2>1, <2>2
<1>4. SlackOf(c, l, f, k, r) = (c - l) + s + k * (f - 0) /\ SlackOf(c, c, g, k, r) = (c - c) + t + k * (g - 0)
  BY <1>1 DEF SlackOf
<1> HIDE DEF s, t
<1>5. k * g >= k * f /\ k * f \in Nat /\ k * g \in Nat
  BY Z3
<1> QED BY <1>2, <1>3, <1>4, <1>5

(* What the loop's and the chain's numbers have in common. *)
LEMMA SyncedFacts ==
    ASSUME LifeInv, Synced
    PROVE  /\ ChainBatch \in Nat /\ last_batch_id \in Nat /\ last_batch_id <= ChainBatch
           /\ last_block = block => last_batch_id = ChainBatch
           /\ faults \in Nat /\ block \in Nat /\ last_block \in Nat
<1>1. ChainBatch \in Nat /\ block \in Nat /\ last_block \in Nat /\ last_block <= block
  BY CurrentBatch DEF LifeInv, LoopTypes
<1>2. /\ last_batch_id \in Nat /\ last_batch_id <= ChainBatch
      /\ last_block = block => last_batch_id = ChainBatch
  BY <1>1, BatchFits DEF Synced, NewBatch
<1>3. faults \in Nat
  BY DEF LifeInv, OtherTypes
<1> QED BY <1>1, <1>2, <1>3

(* How far j more blocks, the blocks of at most k batches, take the batch number. *)
LEMMA BatchJumps ==
    ASSUME NEW b \in Nat, NEW p, Anchored(p, b), NEW j \in Nat, NEW k \in Nat, j <= p.blocks * k
    PROVE  compute_batch_id(b + j, p) <= compute_batch_id(b, p) + k
<1> DEFINE s == BlocksSince(b, p) n == p.blocks
<1>1. n \in Nat \ {0, 1} /\ p.anchor_block \in Nat /\ p.anchor_batch \in Nat /\ p.anchor_block <= b
  BY LifeAssumption DEF Anchored
<1>2. s \in Nat /\ BlocksSince(b + j, p) = s + j
  BY <1>1 DEF BlocksSince
<1>3. (s + j) \div n <= s \div n + k /\ (s + j) \div n \in Nat /\ s \div n \in Nat
  <2>1. s \in Nat /\ s + j \in Nat /\ n \in Nat \ {0, 1} /\ j <= n * k
    BY <1>1, <1>2
  <2> HIDE DEF s, n
  <2> QED BY <2>1, JumpFits, Division
<1>4. /\ compute_batch_id(b + j, p) = p.anchor_batch + (s + j) \div n
      /\ compute_batch_id(b, p) = p.anchor_batch + s \div n
  BY <1>2 DEF compute_batch_id
<1> DEFINE q == s \div n u == (s + j) \div n
<1> HIDE DEF s, n, q, u
<1>5. q \in Nat /\ u \in Nat /\ u <= q + k
  BY <1>3 DEF q, u
<1> QED BY <1>1, <1>4, <1>5 DEF q, u

(* The first batch of an epoch has the number of its anchor. *)
LEMMA AnchorBatch ==
    ASSUME NEW b \in Nat, NEW c \in Nat, NEW n \in BlocksPerBatch
    PROVE  compute_batch_id(b, [blocks |-> n, anchor_block |-> b, anchor_batch |-> c]) = c
<1> DEFINE p == [blocks |-> n, anchor_block |-> b, anchor_batch |-> c]
<1>1. BlocksSince(b, p) = 0
  BY DEF BlocksSince
<1>2. 0 \div n = 0
  <2>1. n \in Nat \ {0, 1}
    BY LifeAssumption
  <2> QED BY <2>1, Division
<1> QED BY <1>1, <1>2 DEF compute_batch_id

(* Blocks are made while the loop is up to date: the slack grows with the chain. *)
LEMMA SlackBlocks ==
    ASSUME LifeInv, LifeInv', Synced, last_block = block, NEW k \in Nat \ {0}, NEW r \in Nat,
           NEW b \in Nat, block <= b, NEW p, Blocks(b, p), NEW new \in Nat,
           new = compute_batch_id(b, p), new = compute_batch_id(b, params),
           new <= ChainBatch + k,
           \/ faults' = faults /\ new <= ChainBatch + 1
           \/ faults' = faults + 1
    PROVE  /\ Synced' /\ Near(k)'
           /\ ChainBatch <= ChainBatch'
           /\ Slack(k, r)' >= Slack(k, r) + (ChainBatch' - ChainBatch)
<1> DEFINE l == last_batch_id f == faults g == faults'
<1>1. /\ block' = b /\ chain_params' = p /\ params' = params /\ last_block' = last_block
      /\ last_batch_id' = l
  BY DEF Blocks, clock
<1>2. l \in Nat /\ f \in Nat /\ block \in Nat /\ ChainBatch = l
  BY SyncedFacts
<1>3. ChainBatch' = new /\ NewBatch' = new
  BY <1>1 DEF ChainBatch, NewBatch
<1>4. l <= new
  <2>1. Anchored(params, block) /\ l = compute_batch_id(block, params)
    BY DEF LifeInv, Anchors, Synced
  <2> QED BY <1>2, <2>1, BatchFits
<1>5. g \in Nat /\ f + Unspent(new, l) <= g /\ Unspent(new, l) \in {0, 1}
  BY <1>2, <1>4 DEF Unspent
<1>6. Synced'
  <2>1. Unspent(new, l) <= g
    <3> HIDE DEF g
    <3> QED BY <1>2, <1>5
  <2>2. l \in 0 .. new
    BY <1>2, <1>4
  <2> QED BY <1>1, <1>3, <2>1, <2>2 DEF Synced
<1>7. Near(k)'
  BY <1>1, <1>2, <1>3, <1>4 DEF Near
<1>8. SlackOf(new, l, g, k, r) >= SlackOf(l, l, f, k, r) + (new - l)
  <2> HIDE DEF g
  <2> QED BY <1>2, <1>4, <1>5, SlackAhead
<1>9. Slack(k, r)' >= Slack(k, r) + (ChainBatch' - ChainBatch)
  BY <1>1, <1>2, <1>3, <1>8 DEF Slack
<1> QED BY <1>2, <1>3, <1>4, <1>6, <1>7, <1>9

(* The three ways blocks are made. *)
LEMMA SlackChain ==
    ASSUME LifeInv, LifeInv', Synced, EpochFetched, NEW k \in Nat \ {0}, NEW r \in Nat,
           OutagesWithin(k), NewBlock \/ PollerOutage \/ Govern
    PROVE  /\ Synced' /\ Near(k)'
           /\ ChainBatch <= ChainBatch'
           /\ Slack(k, r)' >= Slack(k, r) + (ChainBatch' - ChainBatch)
<1>0. /\ block \in Nat /\ last_block = block /\ params = chain_params /\ faults \in Nat
      /\ ChainBatch \in Nat
      /\ Anchored(chain_params, block) /\ chain_params.blocks \in Nat \ {0, 1}
      /\ MaxJump <= chain_params.blocks * k
  <2>1. last_block = block
    BY DEF NewBlock, PollerOutage, Govern
  <2>2. block \in Nat /\ ChainBatch \in Nat /\ faults \in Nat
    BY SyncedFacts
  <2>3. Anchored(chain_params, block)
    BY DEF LifeInv, Anchors
  <2>4. chain_params.blocks \in BlocksPerBatch
    BY <2>3 DEF Anchored
  <2> QED BY <2>1, <2>2, <2>3, <2>4, LifeAssumption DEF EpochFetched, OutagesWithin
<1>1. ASSUME NEW j \in Nat, NEW m \in Nat, j <= chain_params.blocks * m
      PROVE  /\ compute_batch_id(block + j, chain_params) \in Nat
             /\ ChainBatch <= compute_batch_id(block + j, chain_params)
             /\ compute_batch_id(block + j, chain_params) <= ChainBatch + m
  <2>1. block + j \in Nat /\ block <= block + j
    BY <1>0
  <2>2. /\ compute_batch_id(block + j, chain_params) <= compute_batch_id(block, chain_params) + m
        /\ compute_batch_id(block, chain_params) <= compute_batch_id(block + j, chain_params)
    BY <1>0, <1>1, <2>1, BatchJumps, BatchFits
  <2>3. compute_batch_id(block + j, chain_params) \in Nat
    BY <1>0, <2>1, AnchoredLater, BatchFits
  <2> QED BY <2>2, <2>3 DEF ChainBatch
<1>2. LET c == compute_batch_id(block + 1, chain_params)
      IN  c \in Nat /\ ChainBatch <= c /\ c <= ChainBatch + 1 /\ c <= ChainBatch + k
  <2>1. 1 <= chain_params.blocks * 1
    BY <1>0, Z3
  <2>2. LET c == compute_batch_id(block + 1, chain_params)
        IN  c \in Nat /\ ChainBatch <= c /\ c <= ChainBatch + 1
    BY <1>1, <2>1
  <2> QED BY <1>0, <2>2
<1>3. CASE NewBlock
  <2>1. Blocks(block + 1, chain_params) /\ faults' = faults
    BY <1>3 DEF NewBlock
  <2> QED BY <1>0, <1>2, <2>1, SlackBlocks
<1>4. CASE PollerOutage
  <2>1. PICK n \in 2 .. MaxJump : Blocks(block + n, chain_params)
    BY <1>4 DEF PollerOutage
  <2>2. n \in Nat /\ n <= chain_params.blocks * k /\ block + n \in Nat /\ block <= block + n
    <3>1. chain_params.blocks * k \in Nat /\ MaxJump \in Nat
      BY <1>0, LifeAssumption
    <3> QED BY <1>0, <3>1
  <2>3. faults' = faults + 1
    BY <1>4 DEF PollerOutage, Fault
  <2>4. /\ compute_batch_id(block + n, chain_params) \in Nat
        /\ compute_batch_id(block + n, chain_params) <= ChainBatch + k
    BY <1>1, <2>2
  <2> QED BY <1>0, <2>1, <2>2, <2>3, <2>4, SlackBlocks
<1>5. CASE Govern
  <2>1. PICK n \in BlocksPerBatch \ {chain_params.blocks} :
            Blocks(block + 1, [blocks |-> n, anchor_block |-> block + 1, anchor_batch |-> ChainBatch + 1])
    BY <1>5 DEF Govern
  <2> DEFINE p == [blocks |-> n, anchor_block |-> block + 1, anchor_batch |-> ChainBatch + 1]
  <2>2. compute_batch_id(block + 1, chain_params) # ChainBatch /\ faults' = faults
    BY <1>5 DEF Govern
  <2>3. compute_batch_id(block + 1, chain_params) = ChainBatch + 1
    BY <1>0, <1>2, <2>2
  <2>4. compute_batch_id(block + 1, p) = ChainBatch + 1
    BY <1>0, AnchorBatch
  <2>5. /\ Blocks(block + 1, p) /\ block + 1 \in Nat /\ block <= block + 1 /\ ChainBatch + 1 \in Nat
        /\ ChainBatch + 1 <= ChainBatch + k
    BY <1>0, <2>1
  <2> HIDE DEF p
  <2> QED BY <1>0, <2>2, <2>3, <2>4, <2>5, SlackBlocks
<1> QED BY <1>3, <1>4, <1>5

(* The world moves, or nothing does: what the slack is made of stays. *)
LEMMA SlackStays ==
    ASSUME Synced, NEW k, NEW r, Near(k),
           TradeSettled \/ OthersSettled \/ GasMoves \/ Deposited \/ StrategyMoves \/ UNCHANGED vars
    PROVE  Synced' /\ Near(k)' /\ ChainBatch' = ChainBatch /\ Slack(k, r)' = Slack(k, r)
<1>1. /\ UNCHANGED <<block, chain_params, params, last_block, last_batch_id, faults>>
  BY DEF TradeSettled, OthersSettled, GasMoves, Deposited, StrategyMoves, vars, chain, world, clock
<1>2. ChainBatch' = ChainBatch /\ NewBatch' = NewBatch
  BY <1>1 DEF ChainBatch, NewBatch
<1> QED BY <1>1, <1>2 DEF Synced, Near, Slack

(* A restarted node begins in the chain's batch; the restart is a fault. *)
LEMMA SlackRestart ==
    ASSUME LifeInv, Synced, NEW k \in Nat \ {0}, NEW r \in Nat, Near(k), Restart
    PROVE  /\ Synced' /\ Near(k)' /\ ChainBatch' = ChainBatch
           /\ Slack(k, r)' >= Slack(k, r)
<1> DEFINE c == ChainBatch l == last_batch_id f == faults
<1>1. /\ block' = block /\ chain_params' = chain_params /\ params' = chain_params /\ last_block' = block
      /\ last_batch_id' = c /\ faults' = f + 1
  BY DEF Restart, Started, chain, Fault
<1>2. c \in Nat /\ l \in Nat /\ f \in Nat /\ l <= c /\ c <= l + k /\ Unspent(c, l) <= f
  BY SyncedFacts DEF Near, Synced
<1>3. ChainBatch' = c /\ NewBatch' = c
  BY <1>1 DEF ChainBatch, NewBatch
<1>4. Unspent(c, l) \in {0, 1} /\ Unspent(c, c) = 0
  BY <1>2 DEF Unspent
<1>5. Synced'
  <2>1. Anchored(chain_params, block)
    BY DEF LifeInv, Anchors
  <2>2. c = compute_batch_id(block, chain_params)
    BY DEF ChainBatch
  <2>3. Unspent(c, c) <= f + 1
    BY <1>2, <1>4
  <2>4. c \in Nat /\ c \in 0 .. c
    BY <1>2
  <2> HIDE DEF c
  <2> QED BY <1>1, <1>3, <2>1, <2>2, <2>3, <2>4 DEF Synced
<1>6. Near(k)'
  BY <1>1, <1>2, <1>3 DEF Near
<1>7. SlackOf(c, c, f + 1, k, r) >= SlackOf(c, l, f, k, r)
  <2>1. f + 1 \in Nat /\ f - Unspent(c, l) < f + 1
    BY <1>2, <1>4
  <2> HIDE DEF c, l, f
  <2> QED BY <1>2, <2>1, SlackSpent
<1> QED BY <1>1, <1>3, <1>5, <1>6, <1>7 DEF Slack

(* An iteration either serves the duty, or had nothing due, or a fault was spent. *)
LEMMA SlackUpdate ==
    ASSUME LifeInv, Synced, EpochFetched', NEW k \in Nat \ {0}, NEW r \in Nat, Near(k), BlockUpdate
    PROVE  /\ Synced' /\ Near(k)' /\ ChainBatch' = ChainBatch
           /\ Slack(k, r)' + k >= Slack(k, r)
           /\ (Served(k, r) /\ faults' = faults) \/ Slack(k, r)' >= Slack(k, r)
<1> DEFINE c == ChainBatch l == last_batch_id f == faults g == faults'
<1>1. /\ block' = block /\ chain_params' = chain_params /\ last_block' = block
      /\ last_batch_id' = c
  BY DEF BlockUpdate, Synced
<1>2. params' = chain_params
  BY <1>1 DEF EpochFetched
<1>3. c \in Nat /\ l \in Nat /\ f \in Nat /\ l <= c /\ c <= l + k /\ Unspent(c, l) <= f /\ NewBatch = c
  BY SyncedFacts DEF Near, Synced
<1>4. ChainBatch' = c /\ NewBatch' = c
  BY <1>1, <1>2 DEF ChainBatch, NewBatch
<1>5. g \in Nat /\ f <= g
  <2>1. PICK F \in SUBSET Calls : faults' = faults + Cardinality(F)
    BY DEF BlockUpdate, Failures
  <2> QED BY <1>3, <2>1, CallsCounted
<1>6. Unspent(c, l) \in {0, 1} /\ Unspent(c, c) = 0 /\ (Unspent(c, l) = 0 => c <= l + 1)
  BY <1>3 DEF Unspent
<1>7. Synced'
  <2>1. Anchored(chain_params, block)
    BY DEF LifeInv, Anchors
  <2>2. c = compute_batch_id(block, chain_params)
    BY DEF ChainBatch
  <2>3. Unspent(c, c) <= g
    <3> HIDE DEF c, g
    <3> QED BY <1>3, <1>5, <1>6
  <2>4. c \in Nat /\ c \in 0 .. c
    BY <1>3
  <2> HIDE DEF c
  <2> QED BY <1>1, <1>2, <1>4, <2>1, <2>2, <2>3, <2>4 DEF Synced
<1>8. Near(k)'
  BY <1>1, <1>3, <1>4 DEF Near
<1>9. (Served(k, r) /\ g = f) \/ SlackOf(c, c, g, k, r) >= SlackOf(c, l, f, k, r)
  <2> DEFINE u == Unspent(c, l)
  <2>1. ASSUME f - u < g PROVE SlackOf(c, c, g, k, r) >= SlackOf(c, l, f, k, r)
    <3> HIDE DEF c, l, f, g
    <3> QED BY <1>3, <1>5, <2>1, SlackSpent
  <2>2. ASSUME u = 0, g = f, ~Served(k, r) PROVE SlackOf(c, c, g, k, r) >= SlackOf(c, l, f, k, r)
    <3>1. c <= l + 1
      BY <1>6, <2>2
    <3>2. c = l + 1 => c % k # r % k
      <4> SUFFICES ASSUME c = l + 1 PROVE Boundary
        BY <1>3, <2>2 DEF Served
      <4>1. ~(c > l + 2) /\ c # l
        BY <1>3
      <4> HIDE DEF c, l
      <4>2. NewBatch = c /\ last_batch_id = l
        BY <1>3 DEF l
      <4> QED BY <4>1, <4>2 DEF Boundary, SkipsAhead
    <3>3. c = l \/ (c = l + 1 /\ c % k # r % k)
      BY <1>3, <3>1, <3>2
    <3> HIDE DEF c, l, f, g
    <3> QED BY <1>3, <1>5, <3>3, SlackIdle
  <2>3. f - u < g \/ (u = 0 /\ g = f)
    <3> HIDE DEF u, g, f
    <3> QED BY <1>3, <1>5, <1>6 DEF u
  <2> QED BY <2>1, <2>2, <2>3
<1>10. SlackOf(c, c, g, k, r) + k >= SlackOf(c, l, f, k, r)
  <2> HIDE DEF c, l, f, g
  <2> QED BY <1>3, <1>5, SlackPeriod
<1> QED BY <1>1, <1>4, <1>7, <1>8, <1>9, <1>10 DEF Slack

(* The steps that are not iterations of the loop and make no blocks. *)
OtherSteps == TradeSettled \/ OthersSettled \/ GasMoves \/ Deposited \/ StrategyMoves \/ Restart \/ UNCHANGED vars

(* Every step keeps the numbers together, and lets no more batches pass than the
   slack grows by, unless it serves the duty without a fault. *)
LEMMA SlackStep ==
    ASSUME LifeInv, LifeInv', Synced, EpochFetched, EpochFetched', NEW k \in Nat \ {0}, NEW r \in Nat,
           OutagesWithin(k), Near(k), [Next]_vars
    PROVE  /\ Synced' /\ Near(k)'
           /\ Slack(k, r) \in Nat /\ Slack(k, r)' \in Nat /\ Slack(k, r)' <= k * (1 + faults')
           /\ \/ /\ NewBlock \/ PollerOutage \/ Govern
                 /\ ChainBatch <= ChainBatch'
                 /\ Slack(k, r)' >= Slack(k, r) + (ChainBatch' - ChainBatch)
              \/ OtherSteps /\ ChainBatch' = ChainBatch /\ Slack(k, r)' >= Slack(k, r)
              \/ /\ BlockUpdate /\ ChainBatch' = ChainBatch /\ Slack(k, r)' + k >= Slack(k, r)
                 /\ (Served(k, r) /\ faults' = faults) \/ Slack(k, r)' >= Slack(k, r)
<1> DEFINE c == ChainBatch' l == last_batch_id' f == faults'
<1>0. ASSUME Synced', Near(k)'
      PROVE  Slack(k, r)' \in Nat /\ Slack(k, r)' <= k * (1 + faults')
  <2>1. c \in Nat /\ l \in 0 .. c /\ Unspent(c, l) <= f /\ c - l <= k
    BY <1>0 DEF Synced, Near
  <2>2. f \in Nat
    BY DEF LifeInv, OtherTypes
  <2>3. SlackOf(c, l, f, k, r) \in Nat /\ SlackOf(c, l, f, k, r) <= k * (1 + f)
    <3> HIDE DEF c, l, f
    <3>1. l \in Nat /\ l <= c /\ c <= l + k
      BY <2>1
    <3> QED BY <2>1, <2>2, <3>1, SlackBound
  <2> QED BY <2>3 DEF Slack
<1> HIDE DEF c, l, f
<1>1. ChainBatch \in Nat /\ Slack(k, r) \in Nat
  <2>1. /\ ChainBatch \in Nat /\ last_batch_id \in Nat /\ faults \in Nat /\ last_batch_id <= ChainBatch
    BY SyncedFacts
  <2>2. ChainBatch <= last_batch_id + k /\ Unspent(ChainBatch, last_batch_id) <= faults
    BY <2>1 DEF Near, Synced
  <2> QED BY <2>1, <2>2, SlackBound DEF Slack
<1>2. CASE NewBlock \/ PollerOutage \/ Govern
  BY <1>0, <1>1, <1>2, SlackChain
<1>3. CASE TradeSettled \/ OthersSettled \/ GasMoves \/ Deposited \/ StrategyMoves \/ UNCHANGED vars
  <2>1. Synced' /\ Near(k)' /\ ChainBatch' = ChainBatch /\ Slack(k, r)' = Slack(k, r)
    BY <1>3, SlackStays
  <2>2. Slack(k, r)' >= Slack(k, r)
    BY <1>1, <2>1
  <2> QED BY <1>0, <1>1, <1>3, <2>1, <2>2 DEF OtherSteps
<1>4. CASE Restart
  BY <1>0, <1>1, <1>4, SlackRestart DEF OtherSteps
<1>5. CASE BlockUpdate
  BY <1>0, <1>1, <1>5, SlackUpdate
<1> QED BY <1>2, <1>3, <1>4, <1>5 DEF Next

(* At the start nothing is owed. *)
LEMMA InitSynced ==
    ASSUME Init, NEW k \in Nat \ {0}, NEW r \in Nat
    PROVE  Synced /\ Near(k) /\ ChainBatch = 1 /\ Slack(k, r) \in Nat
<1>1. PICK n \in BlocksPerBatch : chain_params = [blocks |-> n, anchor_block |-> 0, anchor_batch |-> 1]
  BY DEF Init
<1>2. /\ block = 0 /\ last_block = 0 /\ params = chain_params /\ last_batch_id = 1 /\ faults = 0
  BY DEF Init
<1>3. compute_batch_id(0, chain_params) = 1
  BY <1>1, AnchorBatch
<1>4. ChainBatch = 1 /\ NewBatch = 1
  BY <1>2, <1>3 DEF ChainBatch, NewBatch
<1>5. Unspent(1, 1) = 0
  BY DEF Unspent
<1>6. Synced
  <2>1. Anchored(params, 0)
    BY <1>1, <1>2 DEF Anchored
  <2>2. 1 \in Nat /\ 1 \in 0 .. 1 /\ Unspent(1, 1) <= 0
    BY <1>5
  <2> QED BY <1>2, <1>3, <1>4, <2>1, <2>2 DEF Synced
<1>7. Near(k)
  BY <1>2, <1>4 DEF Near
<1>8. Slack(k, r) \in Nat
  <2>1. 1 <= 1 + k /\ 0 \in Nat /\ Unspent(1, 1) <= 0
    BY <1>5
  <2>2. SlackOf(1, 1, 0, k, r) \in Nat
    BY <2>1, SlackBound
  <2> QED BY <1>2, <1>4, <2>2 DEF Slack
<1> QED BY <1>4, <1>6, <1>7, <1>8

-----------------------------------------------------------------------------
(* The promises of the loop, each from the schedule of its duty.           *)

(* What the chain does to the NFT and the counters when it makes blocks. *)
LEMMA BlocksEffect ==
    ASSUME NewBlock \/ PollerOutage \/ Govern
    PROVE  /\ active' = (active /\ ChainBatch' - last_beat <= Timeout)
           /\ critical_for' = IF gas = Critical THEN critical_for + (ChainBatch' - ChainBatch) ELSE 0
           /\ inactive_for' = IF ~active' THEN inactive_for + (ChainBatch' - ChainBatch) ELSE 0
           /\ UNCHANGED <<last_beat, capital, gas, missed, event, has_capital, gas_seen>>
           /\ UNCHANGED <<last_settlement_batch, committed>>
<1>1. PICK b, p : Blocks(b, p)
  BY DEF NewBlock, PollerOutage, Govern
<1>2. ChainBatch' = compute_batch_id(b, p)
  BY <1>1 DEF Blocks, ChainBatch
<1> QED BY <1>1, <1>2 DEF Blocks, world, duties

(* The heartbeats of the NFT: the last one on chain is at most one interval, for
   those left out for a settlement that was one, and one for each of the missed
   ones, older than the schedule allows. A reaped NFT has missed more than Spare. *)
BeatsInv ==
    /\ last_beat <= ChainBatch
    /\ active => ChainBatch - last_beat <= Slack(Interval, Nft) + (Interval - 1) + Interval * missed
    /\ ~active => missed > Spare

(* A heartbeat within the slack is within the timeout of the contract, while no more
   than Spare are missed. *)
LEMMA WithinTimeout ==
    ASSUME NEW x \in Nat, NEW f \in 0 .. MaxFaults, x <= Interval * (1 + f), NEW m \in 0 .. Spare
    PROVE  x + (Interval - 1) + Interval * m <= Timeout
<1> DEFINE i == Interval h == MaxFaults
<1>1. /\ i \in Nat \ {0} /\ h \in Nat /\ f \in Nat /\ f <= h /\ Timeout \in Nat
      /\ Spare \in Nat /\ m \in Nat /\ m <= Spare /\ Timeout >= (2 + h + Spare) * i
  BY LifeAssumption
<1> HIDE DEF i, h
<1>2. /\ i * (1 + f) <= i * (1 + h) /\ (2 + h + Spare) * i = i * (1 + h) + i + i * Spare
      /\ i * m <= i * Spare
      /\ i * (1 + f) \in Nat /\ i * (1 + h) \in Nat /\ i * m \in Nat /\ i * Spare \in Nat
  BY <1>1, Z3
<1>3. x <= i * (1 + f)
  BY DEF i
<1>4. x + (i - 1) + i * m <= Timeout
  BY <1>1, <1>2, <1>3
<1> QED BY <1>4 DEF i

(* What is missed, in batches. *)
LEMMA MissedBatches ==
    ASSUME NEW m \in Nat
    PROVE  Interval * m \in Nat /\ Interval * (m + 1) = Interval * m + Interval
BY LifeAssumption, Z3

(* Blocks are made. *)
LEMMA BeatsBlocks ==
    ASSUME LifeInv, LifeInv', Synced, Synced', BeatsInv, NewBlock \/ PollerOutage \/ Govern,
           ChainBatch <= ChainBatch',
           Slack(Interval, Nft) \in Nat, Slack(Interval, Nft)' \in Nat,
           Slack(Interval, Nft)' <= Interval * (1 + faults'),
           Slack(Interval, Nft)' >= Slack(Interval, Nft) + (ChainBatch' - ChainBatch)
    PROVE  BeatsInv'
<1> DEFINE c == ChainBatch d == ChainBatch' x == Slack(Interval, Nft) y == Slack(Interval, Nft)'
           z == Interval * missed
<1>1. /\ active' = (active /\ d - last_beat <= Timeout)
      /\ last_beat' = last_beat /\ missed' = missed
  BY BlocksEffect
<1>2. c \in Nat /\ d \in Nat /\ last_beat \in Nat /\ last_beat <= c /\ missed \in Nat
  BY DEF Synced, LifeInv, ChainTypes, OtherTypes, LoopTypes, BeatsInv
<1>3. /\ x \in Nat /\ y \in Nat /\ y >= x + (d - c) /\ Interval \in Nat \ {0} /\ c <= d
      /\ Spare \in Nat /\ z \in Nat /\ Timeout \in Nat
  BY <1>2, LifeAssumption, MissedBatches
<1>4. ASSUME active PROVE d - last_beat <= y + (Interval - 1) + z
  <2>1. c - last_beat <= x + (Interval - 1) + z
    BY <1>4 DEF BeatsInv
  <2> HIDE DEF c, d, x, y, z
  <2> QED BY <1>2, <1>3, <2>1
<1>5. ASSUME missed <= Spare PROVE y + (Interval - 1) + z <= Timeout
  <2>1. faults' \in 0 .. MaxFaults /\ missed \in 0 .. Spare
    BY <1>2, <1>3, <1>5 DEF LifeInv, OtherTypes
  <2> QED BY <2>1, WithinTimeout
<1>6. last_beat <= d
  <2> HIDE DEF c, d
  <2> QED BY <1>2, <1>3
<1>7. ASSUME ~active' PROVE missed > Spare
  <2>1. CASE ~active
    BY <2>1 DEF BeatsInv
  <2>2. CASE active /\ ~(d - last_beat <= Timeout)
    <3>1. d - last_beat <= y + (Interval - 1) + z
      BY <1>4, <2>2
    <3>2. ~(y + (Interval - 1) + z <= Timeout)
      <4> HIDE DEF d, y, z
      <4> QED BY <1>2, <1>3, <2>2, <3>1
    <3> QED BY <1>2, <1>3, <1>5, <3>2
  <2> QED BY <1>1, <1>7, <2>1, <2>2
<1>8. active' => d - last_beat' <= y + (Interval - 1) + Interval * missed'
  BY <1>1, <1>4
<1> QED BY <1>1, <1>6, <1>7, <1>8 DEF BeatsInv

(* The world moves, or the node restarts, or nothing happens. *)
LEMMA BeatsWorld ==
    ASSUME LifeInv, Synced, BeatsInv, ChainBatch' = ChainBatch,
           Slack(Interval, Nft) \in Nat, Slack(Interval, Nft)' \in Nat,
           Slack(Interval, Nft)' >= Slack(Interval, Nft),
           OtherSteps
    PROVE  BeatsInv'
<1> DEFINE c == ChainBatch x == Slack(Interval, Nft) y == Slack(Interval, Nft)' z == Interval * missed
<1>1. /\ active' = active
      /\ \/ last_beat' = last_beat /\ missed' = missed
         \/ last_beat' = c /\ missed' = 0 /\ active
  BY DEF OtherSteps, TradeSettled, OthersSettled, GasMoves, Deposited, StrategyMoves, Restart, vars,
         chain, counts
<1>2. c \in Nat /\ last_beat \in Nat /\ last_beat <= c /\ missed \in Nat
  BY DEF Synced, LifeInv, ChainTypes, LoopTypes, OtherTypes, BeatsInv
<1>3. x \in Nat /\ y \in Nat /\ x <= y /\ Interval \in Nat \ {0} /\ z \in Nat /\ Interval * 0 = 0
  BY <1>2, LifeAssumption, MissedBatches
<1>4. CASE last_beat' = last_beat /\ missed' = missed
  <2>1. ASSUME active PROVE c - last_beat <= y + (Interval - 1) + z
    <3>1. c - last_beat <= x + (Interval - 1) + z
      BY <2>1 DEF BeatsInv
    <3> HIDE DEF c, x, y, z
    <3> QED BY <1>2, <1>3, <3>1
  <2> QED BY <1>1, <1>4, <2>1 DEF BeatsInv
<1>5. CASE last_beat' = c /\ missed' = 0 /\ active
  <2>1. c <= c /\ c - c <= y + (Interval - 1) + 0
    <3> HIDE DEF c, y
    <3> QED BY <1>2, <1>3
  <2> QED BY <1>1, <1>3, <1>5, <2>1 DEF BeatsInv
<1> QED BY <1>1, <1>4, <1>5

(* One iteration: a heartbeat that is due is sent, unless a settlement refreshed the
   NFT, or it is missed, or the call fails, which is a fault. *)
LEMMA BeatsUpdate ==
    ASSUME LifeInv, Synced, BeatsInv, BlockUpdate, ChainBatch' = ChainBatch,
           Slack(Interval, Nft) \in Nat, Slack(Interval, Nft)' \in Nat,
           Slack(Interval, Nft)' + Interval >= Slack(Interval, Nft),
           \/ Served(Interval, Nft) /\ faults' = faults
           \/ Slack(Interval, Nft)' >= Slack(Interval, Nft)
    PROVE  BeatsInv'
<1> DEFINE c == ChainBatch x == Slack(Interval, Nft) y == Slack(Interval, Nft)' z == Interval * missed
<1>1. PICK F \in SUBSET Calls :
        faults' = faults + Cardinality(F) /\ \E R \in Refusals : KeepAlive(F, R)
  BY DEF BlockUpdate, Failures
<1>2. PICK R \in Refusals : KeepAlive(F, R)
  BY <1>1
<1> DEFINE beats   == active /\ HeartbeatDue /\ "heartbeat" \notin F \cup R
           asks    == ~active /\ LivenessDue /\ "liveness" \notin F
           revives == asks /\ capital /\ "liveness" \notin R
<1>3. /\ last_beat' = IF beats \/ revives THEN c ELSE last_beat
      /\ active' = (active \/ revives)
      /\ missed' = IF beats \/ revives THEN 0 ELSE IF SlotMissed(R) THEN missed + 1 ELSE missed
  BY <1>2 DEF KeepAlive
<1>4. /\ c \in Nat /\ last_beat \in Nat /\ last_beat <= c /\ missed \in Nat /\ faults \in Nat
      /\ last_settlement_batch \in Nat
  BY DEF Synced, LifeInv, ChainTypes, LoopTypes, OtherTypes, BeatsInv
<1>5. /\ x \in Nat /\ y \in Nat /\ y + Interval >= x /\ Interval \in Nat \ {0} /\ z \in Nat
      /\ Interval * 0 = 0 /\ Interval * (missed + 1) = z + Interval /\ Spare \in Nat
  BY <1>4, LifeAssumption, MissedBatches
<1>6. ASSUME active PROVE c - last_beat <= x + (Interval - 1) + z
  BY <1>6 DEF BeatsInv
<1>7. CASE beats \/ revives
  <2>1. last_beat' = c /\ missed' = 0 /\ active'
    BY <1>3, <1>7
  <2>2. c <= c /\ c - c <= y + (Interval - 1) + 0
    <3> HIDE DEF c, y
    <3> QED BY <1>4, <1>5
  <2> QED BY <1>5, <2>1, <2>2 DEF BeatsInv
<1>8. CASE ~(beats \/ revives) /\ SlotMissed(R)
  <2>1. last_beat' = last_beat /\ missed' = missed + 1 /\ (active' <=> active)
    BY <1>3, <1>8
  <2>2. active => c - last_beat <= y + (Interval - 1) + (z + Interval)
    <3> HIDE DEF c, x, y, z
    <3> QED BY <1>4, <1>5, <1>6
  <2>3. ~active => missed + 1 > Spare
    BY <1>4, <1>5 DEF BeatsInv
  <2> QED BY <1>4, <1>5, <2>1, <2>2, <2>3 DEF BeatsInv
<1>9. CASE ~(beats \/ revives) /\ ~SlotMissed(R)
  <2>1. last_beat' = last_beat /\ missed' = missed /\ (active' <=> active)
    BY <1>3, <1>9
  <2>2. ASSUME active PROVE c - last_beat <= y + (Interval - 1) + z
    <3>1. CASE y >= x
      <4> HIDE DEF c, x, y, z
      <4> QED BY <1>4, <1>5, <1>6, <2>2, <3>1
    <3>2. CASE Served(Interval, Nft) /\ faults' = faults
      <4>1. F = {}
        BY <1>1, <1>4, <3>2, CallsCounted
      <4>2. has_capital /\ "heartbeat" \notin R
        BY <1>9, <2>2, <3>2 DEF SlotMissed, Served
      <4>3. settlement_refreshed
        BY <1>9, <2>2, <3>2, <4>1, <4>2 DEF HeartbeatDue, Served
      <4>4. last_settlement_batch <= last_beat
        BY <1>4, <1>9, <2>2, <3>2, <4>3 DEF SlotMissed, Served
      <4>5. c - last_settlement_batch < Interval
        BY <4>3 DEF settlement_refreshed, Synced
      <4> HIDE DEF c, x, y, z
      <4> QED BY <1>4, <1>5, <4>4, <4>5
    <3> QED BY <3>1, <3>2
  <2> QED BY <1>4, <2>1, <2>2 DEF BeatsInv
<1> QED BY <1>7, <1>8, <1>9

(* Every step keeps the heartbeats in time. *)
LEMMA BeatsStep ==
    ASSUME OutagesWithin(Interval), LifeInv, LifeInv', Synced, Near(Interval), BeatsInv,
           EpochFetched, EpochFetched', [Next]_vars
    PROVE  Synced' /\ Near(Interval)' /\ BeatsInv'
<1>1. Interval \in Nat \ {0} /\ Nft \in Nat
  BY LifeAssumption
<1> DEFINE k == Interval r == Nft
<1>2. /\ Synced' /\ Near(k)'
      /\ Slack(k, r) \in Nat /\ Slack(k, r)' \in Nat /\ Slack(k, r)' <= k * (1 + faults')
      /\ \/ /\ NewBlock \/ PollerOutage \/ Govern
            /\ ChainBatch <= ChainBatch'
            /\ Slack(k, r)' >= Slack(k, r) + (ChainBatch' - ChainBatch)
         \/ OtherSteps /\ ChainBatch' = ChainBatch /\ Slack(k, r)' >= Slack(k, r)
         \/ /\ BlockUpdate /\ ChainBatch' = ChainBatch /\ Slack(k, r)' + k >= Slack(k, r)
            /\ (Served(k, r) /\ faults' = faults) \/ Slack(k, r)' >= Slack(k, r)
  BY <1>1, SlackStep
<1> QED BY <1>2, BeatsBlocks, BeatsWorld, BeatsUpdate

(* If no outage is longer than a heartbeat interval, and the loop has the chain's
   parameters after every iteration, an NFT is reaped only after more than Spare of
   its heartbeats were left out by a node that saw no escrow at its start or for
   settlements of others, or were refused for want of gas: schedule, heartbeats left
   out for a settlement that refreshed it, missed batches, restarts and failed
   submissions together stay within the contract's timeout. *)
THEOREM NftKept == OutagesWithin(Interval) => (Spec /\ []EpochFetched => []ReapedForCause)
<1> SUFFICES ASSUME OutagesWithin(Interval) PROVE Spec /\ []EpochFetched => []ReapedForCause
  OBVIOUS
<1> DEFINE I == LifeInv /\ Synced /\ Near(Interval) /\ BeatsInv
<1>1. Init => I
  <2> SUFFICES ASSUME Init PROVE I
    OBVIOUS
  <2>1. Synced /\ Near(Interval) /\ ChainBatch = 1 /\ Slack(Interval, Nft) \in Nat
    BY LifeAssumption, InitSynced
  <2>2. active = TRUE /\ last_beat = 1 /\ missed = 0
    BY DEF Init
  <2>3. 1 - 1 <= Slack(Interval, Nft) + (Interval - 1) + 0 /\ Interval * 0 = 0
    BY <2>1, LifeAssumption
  <2>4. BeatsInv
    BY <2>1, <2>2, <2>3 DEF BeatsInv
  <2> QED BY <2>1, <2>4, InitInv
<1>2. I /\ LifeInv' /\ EpochFetched /\ EpochFetched' /\ [Next]_vars => I'
  BY BeatsStep
<1>3. I => ReapedForCause
  BY DEF BeatsInv, ReapedForCause
<1> QED BY <1>1, <1>2, <1>3, LifeInvariant, PTL DEF Spec

(* An inactive NFT waits for the next liveness check that works; an active one waits
   for nothing. *)
WaitsInv ==
    /\ active => inactive_for = 0
    /\ inactive_for <= Slack(LivenessEvery, Nft)

(* Every step keeps the reactivation in time. *)
LEMMA WaitsStep ==
    ASSUME OutagesWithin(LivenessEvery), LifeInv, LifeInv', Synced, Near(LivenessEvery), WaitsInv,
           EpochFetched, EpochFetched', [Next]_vars
    PROVE  /\ Synced' /\ Near(LivenessEvery)' /\ WaitsInv'
           /\ inactive_for' <= LivenessEvery * (1 + faults')
<1> DEFINE k == LivenessEvery r == Nft x == Slack(k, r) y == Slack(k, r)' c == ChainBatch d == ChainBatch'
           w == inactive_for'
<1>1. k \in Nat \ {0} /\ r \in Nat
  BY LifeAssumption
<1>2. /\ Synced' /\ Near(k)'
      /\ x \in Nat /\ y \in Nat /\ y <= k * (1 + faults')
      /\ \/ /\ NewBlock \/ PollerOutage \/ Govern
            /\ c <= d /\ y >= x + (d - c)
         \/ OtherSteps /\ d = c /\ y >= x
         \/ /\ BlockUpdate /\ d = c
            /\ (Served(k, r) /\ faults' = faults) \/ y >= x
  BY <1>1, SlackStep
<1>3. c \in Nat /\ d \in Nat /\ inactive_for \in Nat /\ w \in Nat /\ inactive_for <= x /\ faults \in Nat
  BY <1>2 DEF Synced, LifeInv, ChainTypes, WaitsInv, OtherTypes
<1>4. ASSUME NewBlock \/ PollerOutage \/ Govern, c <= d, y >= x + (d - c)
      PROVE  (active' => w = 0) /\ w <= y
  <2>1. w = IF ~active' THEN inactive_for + (d - c) ELSE 0
    BY <1>4, BlocksEffect
  <2>2. active' => w = 0
    BY <2>1
  <2>3. w = inactive_for + (d - c) \/ w = 0
    BY <2>1
  <2>4. w <= y
    <3> HIDE DEF w, x, y, c, d
    <3> QED BY <1>2, <1>3, <1>4, <2>3
  <2> QED BY <2>2, <2>4
<1>5. ASSUME OtherSteps, y >= x
      PROVE  (active' => w = 0) /\ w <= y
  <2>1. w = inactive_for /\ active' = active
    BY <1>5 DEF OtherSteps, TradeSettled, OthersSettled, GasMoves, Deposited, StrategyMoves, Restart, vars, chain, counts
  <2>2. active' => w = 0
    BY <2>1 DEF WaitsInv
  <2>3. w <= y
    <3> HIDE DEF w, x, y
    <3> QED BY <1>2, <1>3, <1>5, <2>1
  <2> QED BY <2>2, <2>3
<1>6. ASSUME BlockUpdate, (Served(k, r) /\ faults' = faults) \/ y >= x
      PROVE  (active' => w = 0) /\ w <= y
  <2>1. PICK F \in SUBSET Calls : faults' = faults + Cardinality(F) /\ \E R \in Refusals : KeepAlive(F, R)
    BY <1>6 DEF BlockUpdate, Failures
  <2> DEFINE asks == ~active /\ LivenessDue /\ "liveness" \notin F
  <2>2. (active' => active \/ asks) /\ w = IF asks THEN 0 ELSE inactive_for
    BY <2>1 DEF KeepAlive
  <2>3. active' => w = 0
    BY <2>2 DEF WaitsInv
  <2>4. (Served(k, r) /\ faults' = faults) => w = 0
    <3> SUFFICES ASSUME Served(k, r), faults' = faults, ~active PROVE asks
      BY <2>2 DEF WaitsInv
    <3>1. F = {}
      BY <1>3, <2>1, CallsCounted
    <3> QED BY <3>1 DEF Served, LivenessDue
  <2>5. w = 0 \/ (w = inactive_for /\ y >= x)
    BY <1>6, <2>2, <2>4
  <2>6. w <= y
    <3> HIDE DEF w, x, y
    <3> QED BY <1>2, <1>3, <2>5
  <2> QED BY <2>3, <2>6
<1>7. (active' => w = 0) /\ w <= y
  BY <1>2, <1>4, <1>5, <1>6
<1>8. w <= k * (1 + faults')
  <2> DEFINE z == k * (1 + faults')
  <2>1. z \in Nat /\ y <= z
    <3> DEFINE f == faults'
    <3>1. f \in Nat
      BY DEF LifeInv, OtherTypes
    <3> HIDE DEF f
    <3>2. k * (1 + f) \in Nat
      BY <1>1, <3>1, Z3
    <3> QED BY <1>2, <3>2 DEF f
  <2> HIDE DEF w, y, z
  <2>2. w <= z
    BY <1>2, <1>3, <1>7, <2>1
  <2> QED BY <2>2 DEF z
<1> QED BY <1>2, <1>7, <1>8 DEF WaitsInv

(* If no outage is longer than the period of the liveness check, and the loop has the
   chain's parameters after every iteration, the chain has been asked to
   reactivate a reaped NFT, and has done so or refused, within one period, and one
   more for every fault. *)
THEOREM NftRecovers == OutagesWithin(LivenessEvery) => (Spec /\ []EpochFetched => []RecoversInTime)
<1> SUFFICES ASSUME OutagesWithin(LivenessEvery) PROVE Spec /\ []EpochFetched => []RecoversInTime
  OBVIOUS
<1> DEFINE I == LifeInv /\ Synced /\ Near(LivenessEvery) /\ WaitsInv /\ RecoversInTime
<1>1. Init => I
  <2> SUFFICES ASSUME Init PROVE I
    OBVIOUS
  <2>1. Synced /\ Near(LivenessEvery) /\ Slack(LivenessEvery, Nft) \in Nat
    BY LifeAssumption, InitSynced
  <2>2. inactive_for = 0 /\ faults = 0
    BY DEF Init
  <2>3. WaitsInv
    BY <2>1, <2>2 DEF WaitsInv
  <2>4. RecoversInTime
    BY <2>2, LifeAssumption DEF RecoversInTime
  <2> QED BY <2>1, <2>3, <2>4, InitInv
<1>2. I /\ LifeInv' /\ EpochFetched /\ EpochFetched' /\ [Next]_vars => I'
  BY WaitsStep DEF RecoversInTime
<1>3. I => RecoversInTime
  OBVIOUS
<1> QED BY <1>1, <1>2, <1>3, LifeInvariant, PTL DEF Spec

(* Gas that is not critical has not been for any time; a loop that believes it is not
   critical looks again in time; and only such a loop commits. *)
PauseInv ==
    /\ gas # Critical => critical_for = 0
    /\ gas_seen # Critical => critical_for <= Slack(GasEvery, 0)
    /\ committed => gas_seen # Critical

(* The first block of a batch is not in the batch of an earlier block: the commit
   phase is entered at a boundary. *)
LEMMA CommitAtBoundary ==
    ASSUME LifeInv, Synced, last_block < block, Transition, NewPhase = "commit"
    PROVE  Boundary
<1> DEFINE n == params.blocks a == params.anchor_block s == block - a t == last_block - a
<1>1. /\ n \in Nat \ {0, 1} /\ a \in Nat /\ a <= last_block /\ params.anchor_batch \in Nat
      /\ block \in Nat /\ last_block \in Nat
  BY SyncedFacts, LifeAssumption DEF Synced, Anchored
<1>2. s \in Nat /\ t \in Nat /\ t < s /\ BlocksSince(block, params) = s /\ BlocksSince(last_block, params) = t
  BY <1>1 DEF BlocksSince
<1>3. s % n = 0
  BY <1>2 DEF NewPhase, compute_phase
<1>4. NewBatch = params.anchor_batch + s \div n /\ last_batch_id = params.anchor_batch + t \div n
  BY <1>2 DEF Synced, NewBatch, compute_batch_id
<1> DEFINE p == s \div n q == t \div n v == t % n
<1>5. p \in Int /\ s = n * p + 0 /\ q \in Int /\ v \in 0 .. n - 1 /\ t = n * q + v
  <2>1. s \in Int /\ t \in Int /\ n \in Nat \ {0}
    BY <1>1, <1>2
  <2> HIDE DEF s, t, n
  <2>2. p \in Int /\ s = n * p + (s % n)
    BY <2>1, Remainder
  <2>3. q \in Int /\ v \in 0 .. n - 1 /\ t = n * q + v
    BY <2>1, Remainder
  <2> QED BY <1>3, <2>2, <2>3
<1>6. NewBatch # last_batch_id
  <2> SUFFICES ASSUME p = q PROVE FALSE
    <3> HIDE DEF p, q
    <3> QED BY <1>1, <1>4, <1>5 DEF p, q
  <2> HIDE DEF s, t, p, q, v
  <2>1. n * q \in Int
    BY <1>1, <1>5
  <2> QED BY <1>1, <1>2, <1>5, <2>1
<1> QED BY <1>6 DEF Boundary, Transition

(* Every step keeps the pause in time. *)
LEMMA PauseStep ==
    ASSUME OutagesWithin(GasEvery), LifeInv, LifeInv', Synced, Near(GasEvery), PauseInv,
           EpochFetched, EpochFetched', [Next]_vars
    PROVE  /\ Synced' /\ Near(GasEvery)' /\ PauseInv'
           /\ gas_seen' # Critical => critical_for' <= GasEvery * (1 + faults')
<1> DEFINE k == GasEvery x == Slack(k, 0) y == Slack(k, 0)' c == ChainBatch d == ChainBatch'
           w == critical_for'
<1>1. k \in Nat \ {0} /\ 0 \in Nat
  BY LifeAssumption
<1>2. /\ Synced' /\ Near(k)'
      /\ x \in Nat /\ y \in Nat /\ y <= k * (1 + faults')
      /\ \/ /\ NewBlock \/ PollerOutage \/ Govern
            /\ c <= d /\ y >= x + (d - c)
         \/ OtherSteps /\ d = c /\ y >= x
         \/ /\ BlockUpdate /\ d = c
            /\ (Served(k, 0) /\ faults' = faults) \/ y >= x
  BY <1>1, SlackStep
<1>3. c \in Nat /\ d \in Nat /\ critical_for \in Nat /\ w \in Nat /\ faults \in Nat
  BY <1>2 DEF Synced, LifeInv, ChainTypes, OtherTypes
<1>4. ASSUME NewBlock \/ PollerOutage \/ Govern, c <= d, y >= x + (d - c)
      PROVE  /\ gas' # Critical => w = 0
             /\ gas_seen' # Critical => w <= y
             /\ committed' => gas_seen' # Critical
  <2>1. /\ w = (IF gas = Critical THEN critical_for + (d - c) ELSE 0)
        /\ gas' = gas /\ gas_seen' = gas_seen /\ committed' = committed
    BY <1>4, BlocksEffect
  <2>2. ASSUME gas_seen # Critical PROVE w <= y
    <3>1. critical_for <= x
      BY <2>2 DEF PauseInv
    <3>2. w = critical_for + (d - c) \/ w = 0
      BY <2>1
    <3> HIDE DEF w, x, y, c, d
    <3> QED BY <1>2, <1>3, <1>4, <3>1, <3>2
  <2> QED BY <2>1, <2>2 DEF PauseInv
<1>5. ASSUME OtherSteps, y >= x
      PROVE  /\ gas' # Critical => w = 0
             /\ gas_seen' # Critical => w <= y
             /\ committed' => gas_seen' # Critical
  <2>1. ASSUME w = critical_for, gas' = gas, gas_seen' = gas_seen, committed' = committed
        PROVE  /\ gas' # Critical => w = 0
               /\ gas_seen' # Critical => w <= y
               /\ committed' => gas_seen' # Critical
    <3>1. ASSUME gas_seen # Critical PROVE w <= y
      <4>1. critical_for <= x
        BY <3>1 DEF PauseInv
      <4> HIDE DEF w, x, y
      <4> QED BY <1>2, <1>3, <1>5, <2>1, <4>1
    <3> QED BY <2>1, <3>1 DEF PauseInv
  <2>2. CASE GasMoves
    <3>1. w = 0 /\ gas_seen' = gas_seen /\ committed' = committed
      BY <2>2 DEF GasMoves, duties
    <3>2. w <= y
      <4> HIDE DEF w, y
      <4> QED BY <1>2, <3>1
    <3> QED BY <3>1, <3>2 DEF PauseInv
  <2>3. CASE Restart
    <3>1. /\ w = critical_for /\ gas' = gas /\ committed' = FALSE
          /\ gas_seen' = gas \/ gas_seen' = Critical
      BY <2>3 DEF Restart, Started, fetch_supra_balance, chain, counts
    <3>2. ASSUME gas_seen' # Critical PROVE w = 0
      BY <3>1, <3>2 DEF PauseInv
    <3>3. ASSUME w = 0 PROVE w <= y
      <4> HIDE DEF w, y
      <4> QED BY <1>2, <3>3
    <3> QED BY <3>1, <3>2, <3>3 DEF PauseInv
  <2>4. CASE TradeSettled \/ OthersSettled \/ Deposited \/ StrategyMoves \/ UNCHANGED vars
    <3>1. w = critical_for /\ gas' = gas /\ gas_seen' = gas_seen /\ committed' = committed
      BY <2>4 DEF TradeSettled, OthersSettled, Deposited, StrategyMoves, vars, chain, duties, counts
    <3> QED BY <2>1, <3>1
  <2> QED BY <1>5, <2>2, <2>3, <2>4 DEF OtherSteps
<1>6. ASSUME BlockUpdate, (Served(k, 0) /\ faults' = faults) \/ y >= x
      PROVE  /\ gas' # Critical => w = 0
             /\ gas_seen' # Critical => w <= y
             /\ committed' => gas_seen' # Critical
  <2>1. PICK F \in SUBSET Calls : faults' = faults + Cardinality(F) /\ RefreshGas(F)
    BY <1>6 DEF BlockUpdate, Failures
  <2>2. w = critical_for /\ gas' = gas /\ last_block < block /\ GasPause /\ CommitPhase
    BY <1>6 DEF BlockUpdate, Failures
  <2>3. Served(k, 0) <=> Boundary /\ NewBatch % GasEvery = 0
    <3>1. 0 % k = 0
      BY <1>1, Z3
    <3> QED BY <3>1 DEF Served
  <2>4. gas_seen' = gas \/ gas_seen' = gas_seen
    BY <2>1 DEF RefreshGas, fetch_supra_balance
  <2>5. (Served(k, 0) /\ faults' = faults) => gas_seen' = gas
    <3> SUFFICES ASSUME Served(k, 0), faults' = faults PROVE gas_seen' = gas
      OBVIOUS
    <3>1. F = {}
      BY <1>3, <2>1, CallsCounted
    <3> QED BY <2>1, <2>3, <3>1 DEF RefreshGas, fetch_supra_balance
  <2>6. ASSUME gas_seen' # Critical PROVE w <= y
    <3>1. CASE gas_seen' = gas
      <4>1. w = 0
        BY <2>2, <2>6, <3>1 DEF PauseInv
      <4> HIDE DEF w, y
      <4> QED BY <1>2, <4>1
    <3>2. CASE gas_seen' = gas_seen /\ y >= x
      <4>1. w <= x
        BY <2>2, <2>6, <3>2 DEF PauseInv
      <4> HIDE DEF w, x, y
      <4> QED BY <1>2, <1>3, <3>2, <4>1
    <3> QED BY <1>6, <2>4, <2>5, <3>1, <3>2
  <2>7. committed' => gas_seen' # Critical
    <3> SUFFICES ASSUME committed' PROVE gas_seen' # Critical
      OBVIOUS
    <3>1. Transition /\ NewPhase = "commit" /\ ~trading_paused'
      BY <2>2 DEF CommitPhase
    <3>2. Boundary
      BY <2>2, <3>1, CommitAtBoundary
    <3> QED BY <2>2, <3>1, <3>2 DEF GasPause
  <2>8. gas' # Critical => w = 0
    BY <2>2 DEF PauseInv
  <2> QED BY <2>6, <2>7, <2>8
<1>7. /\ gas' # Critical => w = 0
      /\ gas_seen' # Critical => w <= y
      /\ committed' => gas_seen' # Critical
  BY <1>2, <1>4, <1>5, <1>6
<1>8. gas_seen' # Critical => w <= k * (1 + faults')
  <2> DEFINE f == faults' z == k * (1 + faults')
  <2>1. z \in Nat /\ y <= z
    <3>1. f \in Nat
      BY DEF LifeInv, OtherTypes
    <3> HIDE DEF f
    <3>2. k * (1 + f) \in Nat
      BY <1>1, <3>1, Z3
    <3> QED BY <1>2, <3>2 DEF f
  <2>2. w <= y => w <= z
    <3> HIDE DEF w, y, z
    <3> QED BY <1>2, <1>3, <2>1
  <2> QED BY <1>7, <2>2
<1> QED BY <1>2, <1>7, <1>8 DEF PauseInv

(* If no outage is longer than the time between two looks at the gas, and the loop has
   the chain's parameters after every iteration, orders are committed with the gas
   gone for at most that time, and once more for every fault. *)
THEOREM TradingPauses == OutagesWithin(GasEvery) => (Spec /\ []EpochFetched => []PausesInTime)
<1> SUFFICES ASSUME OutagesWithin(GasEvery) PROVE Spec /\ []EpochFetched => []PausesInTime
  OBVIOUS
<1> DEFINE I == /\ LifeInv /\ Synced /\ Near(GasEvery) /\ PauseInv
                /\ gas_seen # Critical => critical_for <= GasEvery * (1 + faults)
<1>1. Init => I
  <2> SUFFICES ASSUME Init PROVE I
    OBVIOUS
  <2>1. Synced /\ Near(GasEvery) /\ Slack(GasEvery, 0) \in Nat
    BY LifeAssumption, InitSynced
  <2>2. critical_for = 0 /\ committed = FALSE /\ faults = 0
    BY DEF Init
  <2>3. PauseInv
    BY <2>1, <2>2 DEF PauseInv
  <2>4. critical_for <= GasEvery * (1 + faults)
    BY <2>2, LifeAssumption
  <2> QED BY <2>1, <2>3, <2>4, InitInv
<1>2. I /\ LifeInv' /\ EpochFetched /\ EpochFetched' /\ [Next]_vars => I'
  BY PauseStep
<1>3. I => PausesInTime
  BY DEF PauseInv, PausesInTime
<1> QED BY <1>1, <1>2, <1>3, LifeInvariant, PTL DEF Spec

(* With one batch length the epoch never changes, and a failed fetch does no harm. *)
THEOREM OneLengthFetched == (\A m, n \in BlocksPerBatch : m = n) => (Spec => []EpochFetched)
<1> SUFFICES ASSUME \A m, n \in BlocksPerBatch : m = n PROVE Spec => []EpochFetched
  OBVIOUS
<1> DEFINE I == LifeInv /\ params = chain_params
<1>1. Init => I
  BY InitInv DEF Init
<1>2. I /\ LifeInv' /\ [Next]_vars => I'
  <2> SUFFICES ASSUME I, LifeInv', [Next]_vars PROVE params' = chain_params'
    OBVIOUS
  <2>0. chain_params \in [blocks : BlocksPerBatch, anchor_block : Nat, anchor_batch : Nat \ {0}]
    BY DEF LifeInv, Anchors, Anchored
  <2>1. CASE BlockUpdate
    <3>1. PICK F \in SUBSET Calls : RefetchParams(F)
      BY <2>1 DEF BlockUpdate, Failures
    <3> QED BY <2>0, <2>1, <3>1 DEF BlockUpdate, RefetchParams
  <2>2. CASE Restart
    BY <2>2 DEF Restart, Started, chain
  <2>3. CASE NewBlock \/ PollerOutage
    BY <2>3 DEF NewBlock, PollerOutage, Blocks, clock
  <2>4. CASE Govern
    BY <2>0, <2>4 DEF Govern
  <2>5. CASE TradeSettled \/ OthersSettled \/ GasMoves \/ Deposited \/ StrategyMoves \/ UNCHANGED vars
    BY <2>5 DEF TradeSettled, OthersSettled, GasMoves, Deposited, StrategyMoves, vars, chain, clock
  <2> QED BY <2>1, <2>2, <2>3, <2>4, <2>5 DEF Next
<1>3. I => EpochFetched
  BY DEF EpochFetched
<1> QED BY <1>1, <1>2, <1>3, LifeInvariant, PTL DEF Spec

(* The three promises without a hypothesis on the run: they hold, whatever fails, as
   long as blocks_per_batch is never changed and no outage passes a period. *)
THEOREM PromisesKept ==
    (/\ OutagesWithin(Interval) /\ OutagesWithin(LivenessEvery) /\ OutagesWithin(GasEvery)
     /\ \A m, n \in BlocksPerBatch : m = n)
    => (Spec => [](ReapedForCause /\ RecoversInTime /\ PausesInTime))
<1> SUFFICES ASSUME OutagesWithin(Interval), OutagesWithin(LivenessEvery), OutagesWithin(GasEvery),
                    \A m, n \in BlocksPerBatch : m = n
             PROVE  Spec => [](ReapedForCause /\ RecoversInTime /\ PausesInTime)
  OBVIOUS
<1>1. Spec => []EpochFetched
  BY OneLengthFetched
<1>2. Spec /\ []EpochFetched => []ReapedForCause
  BY NftKept
<1>3. Spec /\ []EpochFetched => []RecoversInTime
  BY NftRecovers
<1>4. Spec /\ []EpochFetched => []PausesInTime
  BY TradingPauses
<1> QED BY <1>1, <1>2, <1>3, <1>4, PTL

(* What the snapshot's comment says (run.rs, "stays consistent with the phase +
   batch_id we just transitioned into") is true as long as blocks_per_batch is never
   changed, through every failed fetch, outage and restart: ParamsDrift.cfg needs a
   change of it. *)
THEOREM OneLengthAgrees == (\A m, n \in BlocksPerBatch : m = n) => (Spec => []BridgeAgrees)
<1> SUFFICES ASSUME \A m, n \in BlocksPerBatch : m = n PROVE Spec => []BridgeAgrees
  OBVIOUS
<1> DEFINE I == /\ LifeInv /\ params = chain_params /\ bridge = chain_params
                /\ last_batch_id = compute_batch_id(last_block, params)
<1>1. Init => I
  <2> SUFFICES ASSUME Init PROVE last_batch_id = compute_batch_id(last_block, params)
    BY InitInv DEF Init
  <2>1. /\ last_batch_id = 1 /\ last_block = 0
        /\ params \in [blocks : BlocksPerBatch, anchor_block : {0}, anchor_batch : {1}]
    BY DEF Init
  <2>2. params.anchor_batch = 1 /\ params.anchor_block = 0 /\ params.blocks \in Nat \ {0, 1}
    BY <2>1, LifeAssumption
  <2>3. BlocksSince(0, params) = 0
    BY <2>2 DEF BlocksSince
  <2>4. 0 \div params.blocks = 0
    BY <2>2, Division
  <2> QED BY <2>1, <2>2, <2>3, <2>4 DEF compute_batch_id
<1>2. I /\ LifeInv' /\ [Next]_vars => I'
  <2> SUFFICES ASSUME I, LifeInv', [Next]_vars
               PROVE  /\ params' = chain_params' /\ bridge' = chain_params'
                      /\ last_batch_id' = compute_batch_id(last_block', params')
    OBVIOUS
  <2>0. chain_params \in [blocks : BlocksPerBatch, anchor_block : Nat, anchor_batch : Nat \ {0}]
    BY DEF LifeInv, Anchors, Anchored
  <2>1. CASE BlockUpdate
    <3>1. PICK F \in SUBSET Calls : RefetchParams(F)
      BY <2>1 DEF BlockUpdate, Failures
    <3>2. params' = params /\ bridge' = bridge
      BY <2>0, <3>1 DEF RefetchParams
    <3>3. chain_params' = chain_params /\ last_block' = block /\ last_batch_id' = compute_batch_id(block, params)
      BY <2>1 DEF BlockUpdate, NewBatch
    <3> QED BY <3>2, <3>3
  <2>2. CASE Restart
    BY <2>2 DEF Restart, Started, chain, ChainBatch
  <2>3. CASE NewBlock \/ PollerOutage
    BY <2>3 DEF NewBlock, PollerOutage, Blocks, clock
  <2>4. CASE Govern
    BY <2>0, <2>4 DEF Govern
  <2>5. CASE TradeSettled \/ OthersSettled \/ GasMoves \/ Deposited \/ StrategyMoves \/ UNCHANGED vars
    BY <2>5 DEF TradeSettled, OthersSettled, GasMoves, Deposited, StrategyMoves, vars, chain, clock
  <2> QED BY <2>1, <2>2, <2>3, <2>4, <2>5 DEF Next
<1>3. I => BridgeAgrees
  BY DEF BridgeAgrees
<1> QED BY <1>1, <1>2, <1>3, LifeInvariant, PTL DEF Spec
=============================================================================
