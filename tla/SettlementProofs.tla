-------------------------- MODULE SettlementProofs ---------------------------
(***************************************************************************)
(* Machine-checked facts about Settlement, for every set of tokens and     *)
(* matches, every capacity and every bound.                                *)
(***************************************************************************)
EXTENDS Settlement, Sums, SequenceTheorems, FiniteSetTheorems, TLAPS

\* The Swap handler is in its loop only while matches are left, and the
\* range of the next event poll lies within the events the chain has emitted.
LoopConsistent ==
  /\ stage = "swap" => swap_queue # <<>>
  /\ event_range <= Len(events)

\* The inductive invariant behind type correctness and the agreement of the
\* pending map with the tracker.
SettlementInv == TypeOK /\ LoopConsistent /\ ReservationsMatchPending

\* The Swap handler's list is empty after an item only if it was the last.
LEMMA TailNotEmpty ==
  ASSUME NEW S, NEW s \in Seq(S), s # <<>>, Len(s) # 1
  PROVE  Tail(s) # <<>>
<1>1. Len(Tail(s)) = Len(s) - 1 /\ Len(s) \in Nat
  BY HeadTailProperties, LenProperties
<1>2. Len(Tail(s)) # 0
  BY <1>1
<1>3. Len(<<>>) = 0
  BY EmptySeq
<1> QED BY <1>2, <1>3, Zenon

-----------------------------------------------------------------------------
(* What a match moves is well typed.                                       *)

\* The amounts and tokens derived from a match (apply_match) are well typed,
\* and the token paid differs from the token received.
LEMMA MatchAmounts ==
  ASSUME NEW m \in Match
  PROVE  /\ OutToken(m) \in Token /\ InToken(m) \in Token
         /\ OutToken(m) # InToken(m)
         /\ InAmount(m) \in Nat /\ OutAmount(m) \in Nat
         /\ Trade[m].batch \in Nat
<1>1. /\ Trade[m] \in TradeRecord
      /\ Trade[m].base # Trade[m].quote
  BY TradeAssumption
<1>2. \A a, b \in Nat : QuoteAmount(a, b) \in Nat
  <2>1. \A a, b \in Nat : a * b \in Nat
    OBVIOUS
  <2>2. \A c \in Nat : c \div Divisor \in Nat /\ c % Word \in Nat
    BY DivisorAssumption
  <2> QED BY <2>1, <2>2 DEF QuoteAmount, QuoteValue
<1> QED
  BY <1>1, <1>2
  DEF TradeRecord, OutToken, InToken, OutAmount, InAmount, my_side

-----------------------------------------------------------------------------
(* Release and confirmation keep the two maps in step.                     *)

\* Removing the matches of S from the pending map and from the tracker
\* (release_pending_internal) keeps the tracker's part of the invariant.
LEMMA ReleaseKeepsAgreement ==
  ASSUME TypeOK, ReservationsMatchPending, NEW S, release_pending_internal(S)
  PROVE  /\ TrackerTypeOK' /\ ReservationsMatchPending'
         /\ pending' \subseteq Match /\ submitted' \subseteq pending'
         /\ eligible_at' = eligible_at
BY DEF TypeOK, TrackerTypeOK, ReservationsMatchPending, release_pending_internal,
       release_pending

\* Confirming one pending match (on_settlement_confirmed) keeps it as well.
LEMMA ConfirmKeepsAgreement ==
  ASSUME TypeOK, ReservationsMatchPending, NEW e \in Match,
         on_settlement_confirmed(e)
  PROVE  /\ TrackerTypeOK' /\ ReservationsMatchPending'
         /\ pending' \subseteq Match /\ submitted' \subseteq pending'
         /\ eligible_at' = eligible_at
<1>1. CASE UNCHANGED <<trackerVars, managerVars>>
  BY <1>1 DEF TypeOK, TrackerTypeOK, ReservationsMatchPending, trackerVars, managerVars
<1>2. CASE \E k \in find_pending_for_event(e) :
             /\ confirm_settlement(k)
             /\ pending' = pending \ {k}
             /\ submitted' = submitted \ {k}
             /\ UNCHANGED eligible_at
  <2>1. PICK k \in find_pending_for_event(e) :
             /\ confirm_settlement(k)
             /\ pending' = pending \ {k}
             /\ submitted' = submitted \ {k}
             /\ UNCHANGED eligible_at
    BY <1>2
  <2>2. k \in Match
    BY DEF find_pending_for_event, TypeOK
  <2>3. InAmount(k) \in Nat
    BY <2>2, MatchAmounts
  <2>4. TrackerTypeOK'
    BY <2>1, <2>3 DEF confirm_settlement, TypeOK, TrackerTypeOK
  <2>5. ReservationsMatchPending'
    BY <2>1 DEF confirm_settlement, ReservationsMatchPending
  <2> QED BY <2>1, <2>4, <2>5 DEF TypeOK
<1> QED BY <1>1, <1>2 DEF on_settlement_confirmed

-----------------------------------------------------------------------------
(* The inductive invariant.                                                *)

\* Whatever the start-up loses of a balance, it reads a natural number.
LEMMA SeedsAreBalances ==
  ASSUME NEW balance \in [Token -> Nat], NEW s \in Seeds(balance)
  PROVE  s \in [Token -> Nat]
<1>1. \A t \in Token : SeedAmounts(balance[t]) \subseteq Nat
  BY DEF SeedAmounts, saturating_sub
<1> QED BY <1>1 DEF Seeds

\* The pipeline starts empty.
LEMMA InitInv == Init => SettlementInv
BY SettlementAssumption, SeedsAreBalances
DEF Init, SettlementInv, TypeOK, TrackerTypeOK, LoopConsistent,
    ReservationsMatchPending, TxState

\* A new block: expiry at a batch boundary, then the Swap phase's matches.
LEMMA BlockUpdateInv == SettlementInv /\ BlockUpdate => SettlementInv'
<1> SUFFICES ASSUME SettlementInv, BlockUpdate PROVE SettlementInv'
  OBVIOUS
<1> USE DEF SettlementInv
<1>1. /\ TrackerTypeOK' /\ ReservationsMatchPending'
      /\ pending' \subseteq Match /\ submitted' \subseteq pending'
      /\ eligible_at' = eligible_at
  <2>1. CASE UNCHANGED <<trackerVars, managerVars>>
    BY <2>1 DEF TypeOK, TrackerTypeOK, ReservationsMatchPending, trackerVars,
                managerVars
  <2>2. CASE expire_stale(Batch(height))
    BY <2>2, ReleaseKeepsAgreement DEF expire_stale
  <2> QED BY <2>1, <2>2 DEF BlockUpdate, trackerVars, managerVars
<1>2. /\ stage' \in {"wait", "swap", "results", "events"}
      /\ block' \in Nat
      /\ event_range' \in Nat /\ event_range' <= Len(events')
      /\ swap_queue' \in Seq(Match) /\ taken' \subseteq Match
      /\ stage' = "swap" => swap_queue' # <<>>
  <2>1. CASE Batch(height) > Batch(block) + 2
    BY <2>1 DEF BlockUpdate, TypeOK, LoopConsistent, chainVars
  <2>2. CASE ~ (Batch(height) > Batch(block) + 2)
    <3>1. /\ block' \in Nat /\ event_range' = Len(events) /\ events' = events
      BY <2>2 DEF BlockUpdate, TypeOK, chainVars
    <3>2. CASE /\ stage' = "results"
               /\ UNCHANGED <<swap_queue, taken>>
      BY <3>1, <3>2 DEF TypeOK
    <3>3. CASE /\ Batch(height) \in DOMAIN SwapLists
               /\ \E list \in SwapLists[Batch(height)] :
                    /\ swap_queue' = list
                    /\ taken' = taken \union ToSet(list)
                    /\ stage' = IF list = <<>> THEN "results" ELSE "swap"
      <4>1. PICK list \in SwapLists[Batch(height)] :
                    /\ swap_queue' = list
                    /\ taken' = taken \union ToSet(list)
                    /\ stage' = IF list = <<>> THEN "results" ELSE "swap"
        BY <3>3
      <4>2. list \in Seq(Match)
        BY <3>3, SwapListsAssumption
      <4>3. ToSet(list) \subseteq Match
        BY <4>2 DEF ToSet
      <4> QED BY <3>1, <4>1, <4>2, <4>3 DEF TypeOK
    <3> QED BY <2>2, <3>2, <3>3 DEF BlockUpdate
  <2> QED BY <2>1, <2>2
<1>3. UNCHANGED <<fetched, workerVars, chainVars, restarts>>
  BY DEF BlockUpdate
<1> QED
  BY <1>1, <1>2, <1>3 DEF TypeOK, LoopConsistent, workerVars, chainVars

\* One match of the Swap phase, whatever becomes of it.
LEMMA SwapInv ==
  SettlementInv /\ (SwapRefused \/ SwapRegistered \/ SwapSkipped) => SettlementInv'
<1> SUFFICES ASSUME SettlementInv, SwapRefused \/ SwapRegistered \/ SwapSkipped
             PROVE  SettlementInv'
  OBVIOUS
<1> USE DEF SettlementInv
<1> DEFINE m == Head(swap_queue)
<1>1. stage = "swap" /\ AfterSwapItem
  BY DEF SwapRefused, SwapRegistered, SwapSkipped
<1>2. m \in Match /\ swap_queue # <<>> /\ swap_queue \in Seq(Match)
  BY <1>1 DEF TypeOK, LoopConsistent
<1>3. /\ OutToken(m) \in Token /\ InToken(m) \in Token
  BY <1>2, MatchAmounts
<1>4. /\ swap_queue' \in Seq(Match)
      /\ stage' \in {"results", "swap"}
      /\ stage' = "swap" => swap_queue' # <<>>
      /\ UNCHANGED <<block, event_range, fetched, taken>>
  <2>1. /\ Tail(swap_queue) \in Seq(Match)
        /\ Len(Tail(swap_queue)) = Len(swap_queue) - 1
        /\ Len(swap_queue) \in Nat \ {0}
    BY <1>2, HeadTailProperties, EmptySeq
  <2>2. Len(swap_queue) # 1 => Tail(swap_queue) # <<>>
    BY <1>2, TailNotEmpty
  <2> QED BY <1>1, <2>1, <2>2 DEF AfterSwapItem
<1> HIDE DEF m
<1>5. CASE SwapRefused
  <2>1. ~ apply_match_ok(m) /\ apply_match(m)
    BY <1>5 DEF SwapRefused, m
  <2>2. UNCHANGED <<managerVars, workerVars, chainVars, restarts>>
    BY <1>5 DEF SwapRefused
  <2>3. ~ reserve_outflow_ok(m)
    <3>1. m \notin pending_out[OutToken(m)] => m \notin pending_in[InToken(m)]
      BY <1>2, <1>3 DEF ReservationsMatchPending
    <3> QED BY <2>1, <3>1 DEF apply_match_ok, reserve_outflow_ok, track_inflow_ok
  <2>4. UNCHANGED trackerVars
    BY <2>1, <2>3 DEF apply_match, trackerVars
  <2> QED
    BY <1>4, <2>2, <2>4
    DEF TypeOK, TrackerTypeOK, LoopConsistent, ReservationsMatchPending,
        trackerVars, managerVars, workerVars, chainVars
<1>6. CASE SwapRegistered
  <2>1. /\ apply_match_ok(m) /\ apply_match(m)
        /\ pending' = pending \union {m}
        /\ submitted' = submitted \ {m}
        /\ eligible_at' = [eligible_at EXCEPT ![m] = block + BlocksPerBatch]
        /\ settle_queue' \in {settle_queue, Append(settle_queue, m)}
        /\ UNCHANGED <<worker_out, result_queue, verifying, chainVars, restarts>>
    BY <1>6 DEF SwapRegistered, m
  <2>2. /\ pending_out' = [pending_out EXCEPT ![OutToken(m)] = @ \union {m}]
        /\ pending_in' = [pending_in EXCEPT ![InToken(m)] = @ \union {m}]
        /\ UNCHANGED <<confirmed, earmarked>>
    BY <2>1 DEF apply_match, apply_match_ok
  <2>3. TrackerTypeOK'
    BY <1>2, <1>3, <2>2 DEF TypeOK, TrackerTypeOK
  <2>4. ReservationsMatchPending'
    BY <1>2, <1>3, <2>1, <2>2 DEF TypeOK, TrackerTypeOK, ReservationsMatchPending
  <2>5. eligible_at' \in [Match -> Nat]
    <3>1. block + BlocksPerBatch \in Nat
      BY SettlementAssumption DEF TypeOK
    <3> QED BY <1>2, <2>1, <3>1 DEF TypeOK
  <2>6. settle_queue' \in Seq(Match)
    <3>1. settle_queue \in Seq(Match)
      BY DEF TypeOK
    <3>2. Append(settle_queue, m) \in Seq(Match)
      BY <1>2, <3>1, AppendProperties
    <3> QED BY <2>1, <3>1, <3>2
  <2> QED
    BY <1>2, <1>4, <2>1, <2>3, <2>4, <2>5, <2>6 DEF TypeOK, LoopConsistent, chainVars
<1>7. CASE SwapSkipped
  <2>1. /\ release_pending({m})
        /\ pending' = pending \ {m}
        /\ submitted' = submitted \ {m}
        /\ UNCHANGED <<eligible_at, workerVars, chainVars, restarts>>
    BY <1>7 DEF SwapSkipped, m
  <2>2. TrackerTypeOK' /\ ReservationsMatchPending'
    BY <2>1 DEF release_pending, TypeOK, TrackerTypeOK, ReservationsMatchPending
  <2> QED
    BY <1>4, <2>1, <2>2 DEF TypeOK, LoopConsistent, workerVars, chainVars
<1> QED BY <1>5, <1>6, <1>7

\* One result of the worker: an abort may release the match.
LEMMA DrainResultInv == SettlementInv /\ DrainResult => SettlementInv'
<1> SUFFICES ASSUME SettlementInv, DrainResult PROVE SettlementInv'
  OBVIOUS
<1> USE DEF SettlementInv
<1> DEFINE r == Head(result_queue)
<1>1. result_queue \in Seq(SettleResult) /\ result_queue # <<>>
  BY DEF DrainResult, TypeOK
<1>2. r \in SettleResult /\ Tail(result_queue) \in Seq(SettleResult)
  BY <1>1, HeadTailProperties
<1>3. r.match \in Match
  BY <1>2 DEF SettleResult
<1>4. /\ TrackerTypeOK' /\ ReservationsMatchPending'
      /\ pending' \subseteq Match /\ submitted' \subseteq pending'
      /\ eligible_at' = eligible_at
  <2>1. CASE mark_submitted(r.match)
    BY <2>1 DEF mark_submitted, TypeOK, TrackerTypeOK, ReservationsMatchPending,
                trackerVars
  <2>2. CASE UNCHANGED <<trackerVars, managerVars>>
    BY <2>2 DEF TypeOK, TrackerTypeOK, ReservationsMatchPending, trackerVars,
                managerVars
  <2>3. CASE release_pending_internal({r.match})
    BY <2>3, ReleaseKeepsAgreement
  <2> QED BY <2>1, <2>2, <2>3 DEF DrainResult, on_settlement_failed
<1>5. result_queue' = Tail(result_queue)
  BY DEF DrainResult
<1>6. UNCHANGED <<loopVars, settle_queue, worker_out, verifying, chainVars, restarts>>
  BY DEF DrainResult
<1> QED
  BY <1>2, <1>4, <1>5, <1>6 DEF TypeOK, LoopConsistent, loopVars, chainVars

\* The event poll and the handling of what it returned.
LEMMA EventInv ==
  SettlementInv /\ (PollEvents \/ HandleEvent \/ IterationDone) => SettlementInv'
<1> SUFFICES ASSUME SettlementInv, PollEvents \/ HandleEvent \/ IterationDone
             PROVE  SettlementInv'
  OBVIOUS
<1> USE DEF SettlementInv
<1>1. CASE PollEvents
  <2> DEFINE n == IF event_range < EventLimit THEN event_range ELSE EventLimit
  <2>1. /\ events \in Seq(Match) /\ Len(events) \in Nat
        /\ event_range \in Nat /\ event_range <= Len(events)
        /\ \A i \in 1..Len(events) : events[i] \in Match
    BY LenProperties, ElementOfSeq DEF TypeOK, LoopConsistent
  <2>2. SubSeq(events, 1, n) \in Seq(Match)
    <3>1. n \in Int /\ \A i \in 1..n : events[i] \in Match
      BY <2>1, SettlementAssumption
    <3> HIDE DEF n
    <3> QED BY <3>1, SubSeqProperties
  <2>3. /\ SubSeq(events, event_range + 1, Len(events)) \in Seq(Match)
        /\ Len(SubSeq(events, event_range + 1, Len(events))) \in Nat
    <3>1. /\ event_range + 1 \in Int /\ Len(events) \in Int
          /\ \A i \in (event_range + 1)..Len(events) : events[i] \in Match
      BY <2>1
    <3>2. SubSeq(events, event_range + 1, Len(events)) \in Seq(Match)
      BY <3>1, SubSeqProperties
    <3> QED BY <3>2, LenProperties
  <2>4. /\ fetched' \in {SubSeq(events, 1, n), <<>>}
        /\ events' = SubSeq(events, event_range + 1, Len(events))
        /\ event_range' = 0 /\ stage' = "events"
        /\ UNCHANGED <<trackerVars, managerVars, block, swap_queue, taken,
                       workerVars, height, tx, settled, chain_balance, restarts>>
    BY <1>1 DEF PollEvents
  <2> HIDE DEF n
  <2>5. fetched' \in Seq(Match)
    BY <2>2, <2>4, EmptySeq
  <2>6. LoopConsistent'
    <3>1. /\ event_range' = 0 /\ stage' = "events" /\ Len(events') \in Nat
      BY <2>3, <2>4
    <3> QED BY <3>1 DEF LoopConsistent
  <2>7. TrackerTypeOK' /\ ReservationsMatchPending'
    BY <2>4 DEF TypeOK, TrackerTypeOK, ReservationsMatchPending, trackerVars,
                managerVars
  <2>8. TypeOK'
    BY <2>3, <2>4, <2>5, <2>7 DEF TypeOK, trackerVars, managerVars, workerVars
  <2> QED BY <2>6, <2>7, <2>8
<1>2. CASE HandleEvent
  <2>1. Head(fetched) \in Match /\ Tail(fetched) \in Seq(Match)
    BY <1>2, HeadTailProperties DEF HandleEvent, TypeOK
  <2>2. on_settlement_confirmed(Head(fetched))
    BY <1>2 DEF HandleEvent
  <2>3. /\ TrackerTypeOK' /\ ReservationsMatchPending'
        /\ pending' \subseteq Match /\ submitted' \subseteq pending'
        /\ eligible_at' = eligible_at
    BY <2>1, <2>2, ConfirmKeepsAgreement
  <2> QED
    BY <1>2, <2>1, <2>3 DEF HandleEvent, TypeOK, LoopConsistent, workerVars, chainVars
<1>3. CASE IterationDone
  BY <1>3 DEF IterationDone, TypeOK, TrackerTypeOK, LoopConsistent,
     ReservationsMatchPending, trackerVars, managerVars, workerVars, chainVars
<1> QED BY <1>1, <1>2, <1>3

\* The worker and its verification tasks touch only their queues and the
\* transaction table.
LEMMA WorkerInv ==
  SettlementInv /\ (WorkerSubmit \/ WorkerSend
                     \/ \E m \in Match : VerifyFailed(m) \/ VerifySilent(m))
    => SettlementInv'
<1> SUFFICES ASSUME SettlementInv,
                    WorkerSubmit \/ WorkerSend
                      \/ \E m \in Match : VerifyFailed(m) \/ VerifySilent(m)
             PROVE  SettlementInv'
  OBVIOUS
<1> USE DEF SettlementInv
<1>1. CASE WorkerSubmit
  <2>1. Head(settle_queue) \in Match /\ Tail(settle_queue) \in Seq(Match)
    BY <1>1, HeadTailProperties DEF WorkerSubmit, TypeOK
  <2>2. worker_out' \in Seq(SettleResult)
    <3>1. PICK r \in SettleResult : worker_out' = <<r>>
      <4>1. \A k \in {"Submitted", "RpcError"} :
               [kind |-> k, match |-> Head(settle_queue)] \in SettleResult
        BY <2>1 DEF SettleResult
      <4> QED BY <1>1, <4>1 DEF WorkerSubmit
    <3> QED BY <3>1
  <2>3. tx' \in [Match -> TxState] /\ verifying' \subseteq Match
    BY <1>1, <2>1 DEF WorkerSubmit, TypeOK, TxState
  <2>4. /\ settle_queue' = Tail(settle_queue)
        /\ UNCHANGED <<trackerVars, managerVars, loopVars, result_queue, height,
                       settled, events, chain_balance, restarts>>
    BY <1>1 DEF WorkerSubmit
  <2> QED
    BY <2>1, <2>2, <2>3, <2>4 DEF TypeOK, TrackerTypeOK, LoopConsistent,
       ReservationsMatchPending, trackerVars, managerVars, loopVars
<1>2. CASE WorkerSend
  <2>1. result_queue' \in Seq(SettleResult) /\ worker_out' \in Seq(SettleResult)
    BY <1>2, ConcatProperties, EmptySeq DEF WorkerSend, TypeOK
  <2> QED
    BY <1>2, <2>1 DEF WorkerSend, TypeOK, TrackerTypeOK, LoopConsistent,
       ReservationsMatchPending, trackerVars, managerVars, loopVars, chainVars
<1>3. ASSUME NEW m \in Match, VerifyFailed(m) PROVE SettlementInv'
  <2>1. [kind |-> "Failed", match |-> m, code |-> tx[m]] \in SettleResult
    BY <1>3 DEF VerifyFailed, SettleResult
  <2>2. result_queue' \in Seq(SettleResult)
    BY <1>3, <2>1, AppendProperties DEF VerifyFailed, TypeOK
  <2> QED
    BY <1>3, <2>2 DEF VerifyFailed, TypeOK, TrackerTypeOK, LoopConsistent,
       ReservationsMatchPending, trackerVars, managerVars, loopVars, chainVars
<1>4. ASSUME NEW m \in Match, VerifySilent(m) PROVE SettlementInv'
  BY <1>4 DEF VerifySilent, TypeOK, TrackerTypeOK, LoopConsistent,
     ReservationsMatchPending, trackerVars, managerVars, loopVars, chainVars
<1> QED BY <1>1, <1>2, <1>3, <1>4

\* The chain only appends events and never lets a balance become negative.
LEMMA ChainInv ==
  SettlementInv /\ (ChainTick \/ \E m \in Match : ChainExecute(m) \/ PeerSettles(m))
    => SettlementInv'
<1> SUFFICES ASSUME SettlementInv,
                    ChainTick \/ \E m \in Match : ChainExecute(m) \/ PeerSettles(m)
             PROVE  SettlementInv'
  OBVIOUS
<1> USE DEF SettlementInv
<1>1. CASE ChainTick
  BY <1>1 DEF ChainTick, TypeOK, TrackerTypeOK, LoopConsistent,
     ReservationsMatchPending, trackerVars, managerVars, loopVars, workerVars
<1>2. ASSUME NEW m \in Match, ExecuteSettlement(m)
      PROVE  /\ settled' \subseteq Match /\ events' \in Seq(Match)
             /\ chain_balance' \in [Token -> Nat]
             /\ event_range <= Len(events')
  <2>1. ChainEffect(m) \in [Token -> Int]
    <3>1. QuoteValue(Trade[m].fill, Trade[m].settlement_price) \in Int
      <4>1. Trade[m].fill \in Nat /\ Trade[m].settlement_price \in Nat
        BY TradeAssumption DEF TradeRecord
      <4>2. Trade[m].fill * Trade[m].settlement_price \in Nat
        BY <4>1
      <4> QED BY <4>2, DivisorAssumption DEF QuoteValue
    <3>2. Trade[m].fill \in Int
      BY TradeAssumption DEF TradeRecord
    <3> DEFINE q == QuoteValue(Trade[m].fill, Trade[m].settlement_price)
               s == IF OwnNft = Trade[m].buyer THEN 1 ELSE -1
               a == s * Trade[m].fill
               b == s * q
    <3>3. a \in Int /\ b \in Int
      BY <3>1, <3>2
    <3>4. ChainEffect(m) =
            IF OwnNft \notin {Trade[m].buyer, Trade[m].seller} THEN chain_balance
            ELSE [chain_balance EXCEPT ![Trade[m].base] = @ + a,
                                       ![Trade[m].quote] = @ - b]
      BY DEF ChainEffect
    <3> HIDE DEF q, s, a, b
    <3>5. chain_balance \in [Token -> Int]
      BY DEF TypeOK
    <3>6. Trade[m].base \in Token /\ Trade[m].quote \in Token
      BY TradeAssumption DEF TradeRecord
    <3>7. [chain_balance EXCEPT ![Trade[m].base] = @ + a,
                                ![Trade[m].quote] = @ - b] \in [Token -> Int]
      BY <3>3, <3>5, <3>6
    <3> QED BY <3>4, <3>5, <3>7
  <2>2. chain_balance' \in [Token -> Nat]
    BY <1>2, <2>1 DEF ExecuteSettlement, ContractAccepts
  <2>3. events' \in Seq(Match) /\ Len(events') = Len(events) + 1
    BY <1>2, AppendProperties DEF ExecuteSettlement, TypeOK
  <2>4. event_range <= Len(events')
    BY <2>3, LenProperties DEF TypeOK, LoopConsistent
  <2> QED BY <1>2, <2>2, <2>3, <2>4 DEF ExecuteSettlement, TypeOK
<1>3. ASSUME NEW m \in Match, ChainExecute(m) PROVE SettlementInv'
  <2>1. tx' \in [Match -> TxState]
    <3>1. \E c \in TxState : tx' = [tx EXCEPT ![m] = c]
      BY <1>3, SettlementAssumption DEF ChainExecute, TxState
    <3> QED BY <3>1 DEF TypeOK
  <2>2. /\ settled' \subseteq Match /\ events' \in Seq(Match)
        /\ chain_balance' \in [Token -> Nat]
        /\ event_range <= Len(events')
    BY <1>2, <1>3 DEF ChainExecute, TypeOK, LoopConsistent
  <2>3. UNCHANGED <<trackerVars, managerVars, loopVars, workerVars, height, restarts>>
    BY <1>3 DEF ChainExecute
  <2> QED
    BY <2>1, <2>2, <2>3 DEF TypeOK, TrackerTypeOK, LoopConsistent,
       ReservationsMatchPending, trackerVars, managerVars, loopVars, workerVars
<1>4. ASSUME NEW m \in Match, PeerSettles(m) PROVE SettlementInv'
  <2>1. ExecuteSettlement(m)
    BY <1>4 DEF PeerSettles
  <2>2. UNCHANGED <<trackerVars, managerVars, loopVars, workerVars, height, tx, restarts>>
    BY <1>4 DEF PeerSettles
  <2> QED
    BY <1>2, <2>1, <2>2 DEF TypeOK, TrackerTypeOK, LoopConsistent,
       ReservationsMatchPending, trackerVars, managerVars, loopVars, workerVars
<1> QED BY <1>1, <1>3, <1>4

\* The operations the run loop does not call yet keep the invariant as well.
LEMMA ApiInv ==
  ASSUME SettlementInv
  PROVE  /\ \A m \in Match : BackstopSubmit(m) => SettlementInv'
         /\ \A t \in Token, a \in Withdrawals : EarmarkWithdrawal(t, a) => SettlementInv'
         /\ \A t \in Token, x \in BOOLEAN : ReleaseEarmark(t, x) => SettlementInv'
<1> USE DEF SettlementInv
<1>1. ASSUME NEW m \in Match, BackstopSubmit(m) PROVE SettlementInv'
  <2>1. /\ TrackerTypeOK' /\ ReservationsMatchPending'
        /\ pending' \subseteq Match /\ submitted' \subseteq pending'
        /\ eligible_at' = eligible_at
    <3>1. CASE mark_submitted(m)
      BY <3>1 DEF mark_submitted, TypeOK, TrackerTypeOK, ReservationsMatchPending,
                  trackerVars
    <3>2. CASE UNCHANGED <<trackerVars, managerVars>>
      BY <3>2 DEF TypeOK, TrackerTypeOK, ReservationsMatchPending, trackerVars,
                  managerVars
    <3>3. CASE release_pending_internal({m})
      BY <3>3, ReleaseKeepsAgreement
    <3> QED BY <1>1, <3>1, <3>2, <3>3 DEF BackstopSubmit, on_settlement_failed
  <2>2. tx' \in [Match -> TxState]
    BY <1>1 DEF BackstopSubmit, TypeOK, TxState
  <2>3. UNCHANGED <<loopVars, workerVars, height, settled, events, chain_balance,
                    restarts>>
    BY <1>1 DEF BackstopSubmit
  <2> QED BY <2>1, <2>2, <2>3 DEF TypeOK, LoopConsistent, loopVars, workerVars
<1>2. ASSUME NEW t \in Token, NEW a \in Withdrawals, EarmarkWithdrawal(t, a)
      PROVE  SettlementInv'
  <2>1. a \in Nat
    BY SettlementAssumption
  <2>2. earmarked' \in [Token -> Nat] /\ UNCHANGED <<confirmed, pending_out, pending_in>>
    BY <1>2, <2>1 DEF EarmarkWithdrawal, earmark_withdrawal, TypeOK, TrackerTypeOK
  <2> QED
    BY <1>2, <2>2 DEF EarmarkWithdrawal, TypeOK, TrackerTypeOK, LoopConsistent,
       ReservationsMatchPending, managerVars, loopVars, workerVars, chainVars
<1>3. ASSUME NEW t \in Token, NEW x \in BOOLEAN, ReleaseEarmark(t, x)
      PROVE  SettlementInv'
  <2>1. /\ earmarked[t] \in Nat /\ confirmed[t] \in Nat /\ chain_balance[t] \in Nat
        /\ earmarked \in [Token -> Nat] /\ confirmed \in [Token -> Nat]
        /\ chain_balance \in [Token -> Nat]
    BY DEF TypeOK, TrackerTypeOK
  <2>2. saturating_sub(earmarked[t], earmarked[t]) \in Nat
    BY <2>1 DEF saturating_sub
  <2>3. saturating_sub(confirmed[t], earmarked[t]) \in Nat
    BY <2>1 DEF saturating_sub
  <2>4. /\ earmarked' \in [Token -> Nat] /\ confirmed' \in [Token -> Nat]
        /\ UNCHANGED <<pending_out, pending_in>>
    BY <1>3, <2>1, <2>2, <2>3 DEF ReleaseEarmark, release_earmark
  <2>5. chain_balance' \in [Token -> Nat]
    <3>1. CASE x
      <4>1. chain_balance[t] - earmarked[t] \in Nat
        BY <1>3, <2>1, <3>1 DEF ReleaseEarmark
      <4> QED BY <1>3, <2>1, <3>1, <4>1 DEF ReleaseEarmark
    <3>2. CASE ~ x
      BY <1>3, <2>1, <3>2 DEF ReleaseEarmark
    <3> QED BY <3>1, <3>2
  <2>6. UNCHANGED <<managerVars, loopVars, workerVars, height, tx, settled, events,
                    restarts>>
    BY <1>3 DEF ReleaseEarmark
  <2> QED
    BY <2>4, <2>5, <2>6 DEF TypeOK, TrackerTypeOK, LoopConsistent,
       ReservationsMatchPending, managerVars, loopVars, workerVars
<1> QED BY <1>1, <1>2, <1>3

\* A restart forgets everything the node knew and reads the balances again.
LEMMA RestartInv == SettlementInv /\ Restart => SettlementInv'
<1> SUFFICES ASSUME SettlementInv, Restart PROVE SettlementInv'
  OBVIOUS
<1> USE DEF SettlementInv
<1>1. TrackerTypeOK' /\ ReservationsMatchPending'
  BY SeedsAreBalances
  DEF Restart, seed_tracker, TypeOK, TrackerTypeOK, ReservationsMatchPending
<1>2. LoopConsistent'
  BY EmptySeq DEF Restart, LoopConsistent
<1>3. TypeOK'
  BY <1>1, EmptySeq DEF Restart, TypeOK
<1> QED BY <1>1, <1>2, <1>3

\* Every step of the pipeline, the worker and the chain keeps the invariant.
LEMMA NextInv == SettlementInv /\ [Next]_vars => SettlementInv'
<1> SUFFICES ASSUME SettlementInv, [Next]_vars PROVE SettlementInv'
  OBVIOUS
<1>1. CASE UNCHANGED vars
  BY <1>1 DEF SettlementInv, TypeOK, TrackerTypeOK, LoopConsistent,
     ReservationsMatchPending, vars, trackerVars, managerVars, loopVars,
     workerVars, chainVars
<1>2. CASE LoopStep
  BY <1>2, BlockUpdateInv, SwapInv, DrainResultInv, EventInv DEF LoopStep
<1>3. CASE WorkerSubmit \/ WorkerSend
             \/ \E m \in Match : VerifyFailed(m) \/ VerifySilent(m)
  BY <1>3, WorkerInv
<1>4. CASE ChainTick \/ \E m \in Match : ChainExecute(m) \/ PeerSettles(m)
  BY <1>4, ChainInv
<1>5. /\ \A m \in Match : BackstopSubmit(m) => SettlementInv'
      /\ \A t \in Token, a \in Withdrawals : EarmarkWithdrawal(t, a) => SettlementInv'
      /\ \A t \in Token, x \in BOOLEAN : ReleaseEarmark(t, x) => SettlementInv'
  BY ApiInv
<1>6. CASE Restart
  BY <1>6, RestartInv
<1>7. CASE StaleBlock
  BY <1>1, <1>7 DEF StaleBlock
<1> QED BY <1>1, <1>2, <1>3, <1>4, <1>5, <1>6, <1>7 DEF Next

\* The invariant holds in every reachable state.
LEMMA SettlementInvariant == Spec => []SettlementInv
BY InitInv, NextInv, PTL DEF Spec

\* Every reachable state of the pipeline is well typed: in particular only
\* pending matches are marked as submitted and no balance is ever negative.
THEOREM TypeCorrect == Spec => []TypeOK
<1>1. SettlementInv => TypeOK
  BY DEF SettlementInv
<1> QED BY <1>1, SettlementInvariant, PTL

\* SettlementManager's pending map and the tracker's two maps agree in every
\* reachable state, whatever is aborted, expired, confirmed, skipped, lost or
\* restarted.
THEOREM ReservationsAgree == Spec => []ReservationsMatchPending
<1>1. SettlementInv => ReservationsMatchPending
  BY DEF SettlementInv
<1> QED BY <1>1, SettlementInvariant, PTL

-----------------------------------------------------------------------------
(* A match is submitted at most once.                                      *)

\* No request occurs twice in the channel.
Distinct(q) == \A i, j \in DOMAIN q : q[i] = q[j] => i = j

\* Only the gas payer queues a request, for a match it took from the
\* orchestrator and has not submitted.
RequestsFresh ==
  \A m \in ToSet(settle_queue) :
    Trade[m].gas_payer = OwnNft /\ m \in taken /\ tx[m] = "none"

\* A match the node has not taken is unknown to the worker and the manager.
UntakenUnknown == \A m \in Match \ taken : tx[m] = "none" /\ m \notin pending

\* A match the Swap loop still has to handle was not seen before, or it is the
\* second copy of a match that is pending and so will be refused.
SwapFresh ==
  stage = "swap" =>
    \A m \in ToSet(swap_queue) :
      /\ m \in taken
      /\ m \in pending \/ (tx[m] = "none" /\ m \notin ToSet(settle_queue))

OnceInv == Distinct(settle_queue) /\ RequestsFresh /\ UntakenUnknown /\ SwapFresh

\* The members of a sequence after an Append and after a Tail.
LEMMA AppendSet ==
  ASSUME NEW q \in Seq(Match), NEW m \in Match
  PROVE  /\ \A x \in ToSet(Append(q, m)) : x \in ToSet(q) \/ x = m
         /\ Distinct(q) /\ m \notin ToSet(q) => Distinct(Append(q, m))
<1>1. /\ Len(q) \in Nat /\ DOMAIN q = 1 .. Len(q)
      /\ DOMAIN Append(q, m) = 1 .. Len(q) + 1
      /\ Append(q, m)[Len(q) + 1] = m
      /\ \A i \in 1 .. Len(q) : Append(q, m)[i] = q[i]
  BY AppendProperties, LenProperties
<1>2. \A x \in ToSet(Append(q, m)) : x \in ToSet(q) \/ x = m
  BY <1>1 DEF ToSet
<1>3. ASSUME Distinct(q), m \notin ToSet(q) PROVE Distinct(Append(q, m))
  BY <1>1, <1>3 DEF Distinct, ToSet
<1> QED BY <1>2, <1>3

\* An appended match is added to the members.
LEMMA AppendAdds ==
  ASSUME NEW q \in Seq(Match), NEW m \in Match
  PROVE  ToSet(Append(q, m)) = ToSet(q) \union {m}
<1>1. /\ Len(q) \in Nat /\ DOMAIN q = 1 .. Len(q)
      /\ DOMAIN Append(q, m) = 1 .. Len(q) + 1
      /\ Append(q, m)[Len(q) + 1] = m
      /\ \A i \in 1 .. Len(q) : Append(q, m)[i] = q[i]
  BY AppendProperties, LenProperties
<1>2. m \in ToSet(Append(q, m)) /\ ToSet(q) \subseteq ToSet(Append(q, m))
  BY <1>1 DEF ToSet
<1> QED BY <1>2, AppendSet

\* The members of a sequence after a Tail.
LEMMA TailSet ==
  ASSUME NEW q \in Seq(Match), q # <<>>
  PROVE  /\ ToSet(Tail(q)) \subseteq ToSet(q)
         /\ Head(q) \in ToSet(q)
         /\ \A x \in ToSet(q) : x = Head(q) \/ x \in ToSet(Tail(q))
         /\ Distinct(q) => Distinct(Tail(q)) /\ Head(q) \notin ToSet(Tail(q))
<1>1. /\ Len(q) \in Nat \ {0} /\ DOMAIN q = 1 .. Len(q) /\ Head(q) = q[1]
      /\ DOMAIN Tail(q) = 1 .. Len(q) - 1
      /\ \A i \in 1 .. Len(q) - 1 : Tail(q)[i] = q[i + 1]
  <2>1. /\ Len(q) \in Nat /\ DOMAIN q = 1 .. Len(q) /\ Head(q) = q[1]
    BY LenProperties
  <2>2. Len(q) # 0
    BY EmptySeq
  <2>3. /\ Tail(q) \in Seq(Match) /\ Len(Tail(q)) = Len(q) - 1
        /\ \A i \in 1 .. Len(q) - 1 : Tail(q)[i] = q[i + 1]
    BY HeadTailProperties
  <2> QED BY <2>1, <2>2, <2>3, LenProperties
<1>2. ToSet(Tail(q)) \subseteq ToSet(q) /\ Head(q) \in ToSet(q)
  BY <1>1 DEF ToSet
<1>3. ASSUME Distinct(q) PROVE Distinct(Tail(q)) /\ Head(q) \notin ToSet(Tail(q))
  BY <1>1, <1>3 DEF Distinct, ToSet
<1>4. ASSUME NEW x \in ToSet(q) PROVE x = Head(q) \/ x \in ToSet(Tail(q))
  <2>1. PICK i \in 1 .. Len(q) : x = q[i]
    BY <1>1 DEF ToSet
  <2>2. CASE i = 1
    BY <1>1, <2>1, <2>2
  <2>3. CASE i # 1
    <3>1. i - 1 \in 1 .. Len(q) - 1 /\ Tail(q)[i - 1] = x
      BY <1>1, <2>1, <2>3
    <3> QED BY <1>1, <3>1 DEF ToSet
  <2> QED BY <2>2, <2>3
<1> QED BY <1>2, <1>3, <1>4

\* The empty sequence.
LEMMA EmptySet == Distinct(<<>>) /\ ToSet(<<>>) = {}
BY EmptySeq DEF Distinct, ToSet

\* What the invariant says of one match.
LEMMA OnceImplies == ASSUME SettlementInv, OnceInv PROVE SubmittedAtMostOnce
<1> SUFFICES ASSUME NEW m \in Match
             PROVE  /\ Cardinality(InQueue(settle_queue, m)) <= 1
                    /\ InQueue(settle_queue, m) # {} => tx[m] = "none"
  BY DEF SubmittedAtMostOnce
<1> DEFINE Q == InQueue(settle_queue, m)
<1>1. CASE Q = {}
  BY <1>1, FS_EmptySet
<1>2. CASE Q # {}
  <2>1. PICK i \in Q : TRUE
    BY <1>2
  <2>2. Q = {i}
    BY <2>1 DEF InQueue, OnceInv, Distinct
  <2>3. m \in ToSet(settle_queue)
    BY <2>1 DEF InQueue, ToSet
  <2>4. Cardinality({i}) = 1
    BY FS_Singleton
  <2>5. tx[m] = "none"
    BY <2>3 DEF OnceInv, RequestsFresh
  <2>6. Cardinality(Q) = 1
    BY <2>2, <2>4, Zenon
  <2> HIDE DEF Q
  <2>7. Cardinality(Q) <= 1
    BY <2>6
  <2> QED BY <2>5, <2>7 DEF Q
<1> QED BY <1>1, <1>2

\* Steps that leave the requests, the transactions and the taken matches alone
\* keep the invariant if they only let go of pending matches outside the Swap
\* loop, and only consume the Swap loop's list inside it.
LEMMA OnceFrame ==
  ASSUME OnceInv, UNCHANGED <<settle_queue, tx, taken>>, pending' \subseteq pending,
         stage' = "swap" => /\ stage = "swap" /\ pending' = pending
                            /\ ToSet(swap_queue') \subseteq ToSet(swap_queue)
  PROVE  OnceInv'
BY DEF OnceInv, Distinct, RequestsFresh, UntakenUnknown, SwapFresh

\* The Swap phase takes matches no earlier phase has taken.
LEMMA OnceBlockUpdate ==
  ASSUME SettlementInv, OnceInv, BlockUpdate PROVE OnceInv'
<1>1. UNCHANGED <<settle_queue, tx>> /\ pending' \subseteq pending /\ stage = "wait"
  BY DEF BlockUpdate, expire_stale, release_pending_internal, workerVars, chainVars,
         managerVars
<1>2. CASE UNCHANGED <<taken>> /\ stage' # "swap"
  BY <1>1, <1>2, OnceFrame
<1>3. CASE \E list \in SwapLists[Batch(height)] :
              /\ ToSet(list) \intersect taken = {}
              /\ swap_queue' = list
              /\ taken' = taken \union ToSet(list)
  <2>1. PICK list \in SwapLists[Batch(height)] :
              /\ ToSet(list) \intersect taken = {}
              /\ swap_queue' = list
              /\ taken' = taken \union ToSet(list)
    BY <1>3
  <2>2. swap_queue' \in Seq(Match)
    BY BlockUpdateInv DEF SettlementInv, TypeOK
  <2>3. ToSet(list) \subseteq Match
    BY <2>1, <2>2, ElementOfSeq, LenProperties DEF ToSet
  <2>4. \A m \in ToSet(list) : m \notin ToSet(settle_queue) /\ tx[m] = "none"
    BY <2>1, <2>3 DEF OnceInv, RequestsFresh, UntakenUnknown
  <2>5. Distinct(settle_queue)' /\ RequestsFresh'
    BY <1>1, <2>1 DEF OnceInv, Distinct, RequestsFresh
  <2>6. UntakenUnknown'
    BY <1>1, <2>1 DEF OnceInv, UntakenUnknown
  <2>7. SwapFresh'
    BY <1>1, <2>1, <2>4 DEF SwapFresh
  <2> QED BY <2>5, <2>6, <2>7 DEF OnceInv
<1> QED BY <1>1, <1>2, <1>3 DEF BlockUpdate

\* The Swap handler registers, refuses or skips one match.
LEMMA OnceSwap ==
  ASSUME SettlementInv, OnceInv, SwapRefused \/ SwapRegistered \/ SwapSkipped
  PROVE  OnceInv'
<1> DEFINE m == Head(swap_queue)
<1>1. /\ stage = "swap" /\ swap_queue \in Seq(Match) /\ swap_queue # <<>>
      /\ settle_queue \in Seq(Match)
  BY DEF SwapRefused, SwapRegistered, SwapSkipped, SettlementInv, TypeOK,
         LoopConsistent
<1>2. /\ m \in Match /\ m \in ToSet(swap_queue)
      /\ ToSet(Tail(swap_queue)) \subseteq ToSet(swap_queue)
  BY <1>1, TailSet, HeadTailProperties
<1>3. UNCHANGED <<taken, tx>> /\ swap_queue' = Tail(swap_queue)
  BY DEF SwapRefused, SwapRegistered, SwapSkipped, AfterSwapItem, chainVars
<1>4. ASSUME apply_match_ok(m) PROVE m \notin pending
  BY <1>2, <1>4, MatchAmounts
  DEF apply_match_ok, reserve_outflow_ok, SettlementInv, ReservationsMatchPending
<1>5. CASE SwapRefused
  BY <1>1, <1>2, <1>3, <1>5, OnceFrame DEF SwapRefused, managerVars, workerVars
<1>6. CASE SwapSkipped
  <2>1. pending' = pending
    BY <1>4, <1>6 DEF SwapSkipped
  <2> QED BY <1>1, <1>2, <1>3, <1>6, <2>1, OnceFrame DEF SwapSkipped, workerVars
<1>7. CASE SwapRegistered
  <2>1. /\ apply_match_ok(m) /\ pending' = pending \union {m}
        /\ \/ settle_queue' = settle_queue
           \/ Trade[m].gas_payer = OwnNft /\ settle_queue' = Append(settle_queue, m)
    BY <1>7 DEF SwapRegistered
  <2>2. m \notin pending
    BY <1>4, <2>1
  <2>3. m \in taken /\ tx[m] = "none" /\ m \notin ToSet(settle_queue)
    BY <1>1, <1>2, <2>2 DEF OnceInv, SwapFresh
  <2>4. /\ \A x \in ToSet(settle_queue') : x \in ToSet(settle_queue)
              \/ (x = m /\ Trade[m].gas_payer = OwnNft)
        /\ Distinct(settle_queue')
    BY <1>1, <1>2, <2>1, <2>3, AppendSet DEF OnceInv
  <2> HIDE DEF m
  <2>5. RequestsFresh'
    BY <1>3, <2>3, <2>4 DEF OnceInv, RequestsFresh
  <2>6. UntakenUnknown'
    BY <1>3, <2>1, <2>3 DEF OnceInv, UntakenUnknown
  <2>7. SwapFresh'
    BY <1>1, <1>2, <1>3, <2>1, <2>4 DEF OnceInv, SwapFresh
  <2> QED BY <2>4, <2>5, <2>6, <2>7 DEF OnceInv, Distinct
<1> QED BY <1>5, <1>6, <1>7

\* The worker takes a request off the channel before it submits it.
LEMMA OnceWorkerSubmit ==
  ASSUME SettlementInv, OnceInv, WorkerSubmit PROVE OnceInv'
<1> DEFINE m == Head(settle_queue)
<1>1. settle_queue \in Seq(Match) /\ settle_queue # <<>>
  BY DEF WorkerSubmit, SettlementInv, TypeOK
<1>2. /\ settle_queue' = Tail(settle_queue)
      /\ tx' \in {tx, [tx EXCEPT ![m] = "mempool"]}
      /\ UNCHANGED <<pending, stage, swap_queue, taken>>
  BY DEF WorkerSubmit, managerVars, loopVars
<1>3. /\ Distinct(settle_queue') /\ m \notin ToSet(settle_queue')
      /\ ToSet(settle_queue') \subseteq ToSet(settle_queue)
      /\ m \in ToSet(settle_queue) /\ m \in Match
  BY <1>1, <1>2, TailSet, HeadTailProperties DEF OnceInv
<1>4. tx \in [Match -> TxState]
  BY DEF SettlementInv, TypeOK
<1> HIDE DEF m
<1>5. \A x \in Match : x # m => tx'[x] = tx[x]
  BY <1>2, <1>3, <1>4
<1>6. \A x \in ToSet(settle_queue) : x \in Match
  BY <1>1, ElementOfSeq, LenProperties DEF ToSet
<1>7. RequestsFresh'
  BY <1>2, <1>3, <1>5, <1>6 DEF OnceInv, RequestsFresh
<1>8. UntakenUnknown'
  BY <1>2, <1>3, <1>5 DEF OnceInv, RequestsFresh, UntakenUnknown
<1>9. SwapFresh'
  <2>1. \A x \in ToSet(swap_queue) : x \in Match
    BY ElementOfSeq, LenProperties DEF ToSet, SettlementInv, TypeOK
  <2> QED BY <1>2, <1>3, <1>5, <2>1 DEF OnceInv, SwapFresh
<1> QED BY <1>3, <1>7, <1>8, <1>9 DEF OnceInv, Distinct

\* A transaction that changes its state on chain, or that the backstop submits,
\* belongs to a match that is not in the request channel.
LEMMA OnceTx ==
  ASSUME SettlementInv, OnceInv, NEW m \in Match,
         m \in taken, m \notin ToSet(settle_queue),
         stage = "swap" => tx[m] # "none",
         \E c : tx' = [tx EXCEPT ![m] = c],
         UNCHANGED <<pending, stage, swap_queue, taken, settle_queue>>
  PROVE  OnceInv'
<1>1. \A x \in Match : x # m => tx'[x] = tx[x]
  BY DEF SettlementInv, TypeOK
<1>2. \A x \in ToSet(settle_queue) : x \in Match
  BY ElementOfSeq, LenProperties DEF ToSet, SettlementInv, TypeOK
<1>3. \A x \in ToSet(swap_queue) : x \in Match
  BY ElementOfSeq, LenProperties DEF ToSet, SettlementInv, TypeOK
<1> QED BY <1>1, <1>2, <1>3
        DEF OnceInv, Distinct, RequestsFresh, UntakenUnknown, SwapFresh

\* Every step keeps the invariant.
LEMMA OnceNext ==
  ASSUME SettlementInv, OnceInv, [Next]_vars PROVE OnceInv'
<1>1. CASE UNCHANGED vars
  BY <1>1, OnceFrame DEF vars, managerVars, loopVars, workerVars, chainVars
<1>2. CASE LoopStep
  <2>1. CASE DrainResult
    <3>1. pending' \subseteq pending /\ stage' = "results"
      BY <2>1 DEF DrainResult, mark_submitted, on_settlement_failed,
         release_pending_internal, managerVars, loopVars
    <3> QED BY <2>1, <3>1, OnceFrame DEF DrainResult, loopVars, chainVars
  <2>2. CASE PollEvents
    BY <2>2, OnceFrame DEF PollEvents, managerVars, workerVars
  <2>3. CASE HandleEvent
    <3>1. pending' \subseteq pending /\ stage' = "events"
      BY <2>3 DEF HandleEvent, on_settlement_confirmed, managerVars
    <3> QED BY <2>3, <3>1, OnceFrame DEF HandleEvent, workerVars, chainVars
  <2>4. CASE IterationDone
    BY <2>4, OnceFrame DEF IterationDone, managerVars, workerVars, chainVars
  <2> QED BY <1>2, <2>1, <2>2, <2>3, <2>4, OnceBlockUpdate, OnceSwap DEF LoopStep
<1>3. CASE StaleBlock
  BY <1>1, <1>3 DEF StaleBlock
<1>4. CASE WorkerSubmit
  BY <1>4, OnceWorkerSubmit
<1>5. CASE WorkerSend
  BY <1>5, OnceFrame DEF WorkerSend, managerVars, loopVars, chainVars
<1>6. ASSUME NEW m \in Match, VerifyFailed(m) \/ VerifySilent(m) PROVE OnceInv'
  BY <1>6, OnceFrame DEF VerifyFailed, VerifySilent, managerVars, loopVars, chainVars
<1>7. ASSUME NEW m \in Match, BackstopSubmit(m) PROVE OnceInv'
  <2>1. /\ stage = "wait" /\ m \in pending /\ Trade[m].gas_payer # OwnNft
        /\ UNCHANGED <<stage, swap_queue, taken, settle_queue>>
    BY <1>7 DEF BackstopSubmit, loopVars, workerVars
  <2>2. m \in taken /\ m \notin ToSet(settle_queue)
    BY <2>1 DEF OnceInv, UntakenUnknown, RequestsFresh
  <2>3. CASE tx' = [tx EXCEPT ![m] = "mempool"] /\ mark_submitted(m)
    BY <2>1, <2>2, <2>3, OnceTx DEF mark_submitted
  <2>4. CASE UNCHANGED tx /\ \E code \in AbortCode : on_settlement_failed(m, code)
    <3>1. pending' \subseteq pending
      BY <2>4 DEF on_settlement_failed, release_pending_internal, managerVars
    <3> QED BY <2>1, <2>4, <3>1, OnceFrame
  <2> QED BY <1>7, <2>3, <2>4 DEF BackstopSubmit
<1>8. ASSUME NEW m \in Match, ChainExecute(m) PROVE OnceInv'
  <2>1. /\ tx[m] = "mempool" /\ \E c : tx' = [tx EXCEPT ![m] = c]
        /\ UNCHANGED <<pending, stage, swap_queue, taken, settle_queue>>
    BY <1>8 DEF ChainExecute, managerVars, loopVars, workerVars
  <2>2. m \in taken /\ m \notin ToSet(settle_queue) /\ tx[m] # "none"
    BY <2>1 DEF OnceInv, UntakenUnknown, RequestsFresh
  <2> QED BY <2>1, <2>2, OnceTx
<1>9. ASSUME NEW m \in Match, PeerSettles(m) PROVE OnceInv'
  BY <1>9, OnceFrame DEF PeerSettles, managerVars, loopVars, workerVars
<1>10. ASSUME NEW t, NEW a, EarmarkWithdrawal(t, a) PROVE OnceInv'
  BY <1>10, OnceFrame DEF EarmarkWithdrawal, managerVars, loopVars, workerVars,
     chainVars
<1>11. ASSUME NEW t, NEW x, ReleaseEarmark(t, x) PROVE OnceInv'
  BY <1>11, OnceFrame DEF ReleaseEarmark, managerVars, loopVars, workerVars
<1>12. CASE ChainTick
  BY <1>12, OnceFrame DEF ChainTick, managerVars, loopVars, workerVars
<1>13. CASE Restart
  <2>1. /\ pending' = {} /\ stage' = "wait" /\ settle_queue' = <<>>
        /\ UNCHANGED <<taken, tx>>
    BY <1>13 DEF Restart
  <2> QED BY <2>1, EmptySet
          DEF OnceInv, Distinct, RequestsFresh, UntakenUnknown, SwapFresh
<1> QED BY <1>1, <1>2, <1>3, <1>4, <1>5, <1>6, <1>7, <1>8, <1>9, <1>10, <1>11,
           <1>12, <1>13 DEF Next

\* A match is submitted by this node at most once, for every list the Swap
\* phases may take, every channel capacity and any number of restarts: at most
\* one request is queued, and none after a submission, even one whose outcome
\* the worker could not tell.
THEOREM SubmittedOnce == Spec => []SubmittedAtMostOnce
<1>1. Init => OnceInv
  BY EmptySet
  DEF Init, OnceInv, Distinct, RequestsFresh, UntakenUnknown, SwapFresh
<1>2. SettlementInv /\ OnceInv /\ [Next]_vars => OnceInv'
  BY OnceNext
<1>3. SettlementInv /\ OnceInv => SubmittedAtMostOnce
  BY OnceImplies
<1> QED BY <1>1, <1>2, <1>3, SettlementInvariant, PTL DEF Spec
-----------------------------------------------------------------------------
(* The pipeline implements HeldFunds.                                      *)

\* Every event the node polls or has fetched is of a trade the contract settled,
\* and there is one event for each.
EventsHappened ==
  /\ ToSet(events) \subseteq settled /\ ToSet(fetched) \subseteq settled
  /\ Distinct(events) /\ Distinct(fetched)
  /\ ToSet(events) \intersect ToSet(fetched) = {}

\* A part of a sequence has no other members, and none twice that the whole has
\* once.
LEMMA SubSeqSet ==
  ASSUME NEW q \in Seq(Match), NEW i \in Nat \ {0}, NEW j \in Nat, j <= Len(q)
  PROVE  /\ ToSet(SubSeq(q, i, j)) \subseteq ToSet(q)
         /\ \A x \in ToSet(SubSeq(q, i, j)) : \E k \in i .. j : x = q[k]
         /\ Distinct(q) => Distinct(SubSeq(q, i, j))
<1> DEFINE s == SubSeq(q, i, j)
<1>1. Len(q) \in Nat /\ DOMAIN q = 1 .. Len(q)
  BY LenProperties
<1>2. \A k \in i .. j : q[k] \in Match
  BY <1>1, ElementOfSeq
<1>3. /\ s \in Seq(Match) /\ Len(s) = IF i <= j THEN j - i + 1 ELSE 0
      /\ \A k \in 1 .. j - i + 1 : s[k] = q[i + k - 1]
  BY <1>2, SubSeqProperties
<1>4. DOMAIN s = 1 .. Len(s)
  BY <1>3, LenProperties
<1>5. \A k \in DOMAIN s : k \in Nat /\ s[k] = q[i + k - 1] /\ i + k - 1 \in i .. j
  BY <1>1, <1>3, <1>4
<1>6. \A k \in i .. j : k \in DOMAIN q
  BY <1>1
<1> HIDE DEF s
<1>7. ToSet(s) \subseteq ToSet(q)
  BY <1>5, <1>6 DEF ToSet
<1>8. \A x \in ToSet(s) : \E k \in i .. j : x = q[k]
  BY <1>5 DEF ToSet
<1>9. ASSUME Distinct(q), NEW k \in DOMAIN s, NEW l \in DOMAIN s, s[k] = s[l] PROVE k = l
  <2>1. i + k - 1 = i + l - 1
    BY <1>5, <1>6, <1>9 DEF Distinct
  <2> QED BY <1>5, <2>1
<1>10. Distinct(q) => Distinct(s)
  BY <1>9 DEF Distinct
<1> QED BY <1>7, <1>8, <1>10 DEF s

\* A poll keeps or drops events and finds no others.
LEMMA PollReads ==
  ASSUME SettlementInv, PollEvents
  PROVE  ToSet(fetched') \subseteq ToSet(events) /\ ToSet(events') \subseteq ToSet(events)
<1> DEFINE n == IF event_range < EventLimit THEN event_range ELSE EventLimit
<1>1. /\ events \in Seq(Match) /\ event_range \in Nat /\ Len(events) \in Nat
      /\ event_range <= Len(events)
  BY LenProperties DEF SettlementInv, TypeOK, LoopConsistent
<1>2. n \in Nat /\ n <= Len(events) /\ event_range + 1 \in Nat \ {0}
  BY <1>1, SettlementAssumption
<1>3. /\ fetched' \in {SubSeq(events, 1, n), <<>>}
      /\ events' = SubSeq(events, event_range + 1, Len(events))
  BY DEF PollEvents
<1> HIDE DEF n
<1>4. ToSet(SubSeq(events, 1, n)) \subseteq ToSet(events)
  BY <1>1, <1>2, SubSeqSet
<1>5. ToSet(events') \subseteq ToSet(events)
  BY <1>1, <1>2, <1>3, SubSeqSet
<1> QED BY <1>3, <1>4, <1>5, EmptySet

\* The contract emits an event exactly when it settles, and the poll passes on
\* what it read.
LEMMA EventsNext ==
  ASSUME SettlementInv, EventsHappened, [Next]_vars PROVE EventsHappened'
<1>1. CASE UNCHANGED <<events, fetched, settled>>
  BY <1>1 DEF EventsHappened, ToSet, Distinct
<1>2. CASE PollEvents
  <2> DEFINE n == IF event_range < EventLimit THEN event_range ELSE EventLimit
  <2>1. /\ events \in Seq(Match) /\ event_range \in Nat /\ Len(events) \in Nat
        /\ event_range <= Len(events)
    BY LenProperties DEF SettlementInv, TypeOK, LoopConsistent
  <2>2. n \in Nat /\ n <= Len(events) /\ n <= event_range /\ event_range + 1 \in Nat \ {0}
    BY <2>1, SettlementAssumption
  <2>3. /\ fetched' \in {SubSeq(events, 1, n), <<>>}
        /\ events' = SubSeq(events, event_range + 1, Len(events))
        /\ settled' = settled
    BY <1>2 DEF PollEvents
  <2> HIDE DEF n
  <2> DEFINE first == SubSeq(events, 1, n)
             rest == SubSeq(events, event_range + 1, Len(events))
  <2>4. /\ ToSet(first) \subseteq ToSet(events) /\ (Distinct(events) => Distinct(first))
        /\ \A x \in ToSet(first) : \E k \in 1 .. n : x = events[k]
    BY <2>1, <2>2, SubSeqSet
  <2>5. /\ ToSet(rest) \subseteq ToSet(events) /\ (Distinct(events) => Distinct(rest))
        /\ \A x \in ToSet(rest) : \E k \in event_range + 1 .. Len(events) : x = events[k]
    BY <2>1, <2>2, SubSeqSet
  <2>6. fetched' \in {first, <<>>} /\ events' = rest /\ settled' = settled
    BY <2>3
  <2> HIDE DEF first, rest
  <2>7. ToSet(rest) \intersect ToSet(first) = {}
    <3> SUFFICES ASSUME NEW x \in ToSet(rest), x \in ToSet(first) PROVE FALSE
      OBVIOUS
    <3>1. PICK k \in 1 .. n : x = events[k]
      BY <2>4
    <3>2. PICK l \in event_range + 1 .. Len(events) : x = events[l]
      BY <2>5
    <3>3. k # l /\ k \in 1 .. Len(events) /\ l \in 1 .. Len(events)
      BY <2>1, <2>2
    <3>4. DOMAIN events = 1 .. Len(events)
      BY <2>1, LenProperties
    <3> QED BY <3>1, <3>2, <3>3, <3>4 DEF EventsHappened, Distinct
  <2>8. ToSet(events) \subseteq settled /\ Distinct(events)
    BY DEF EventsHappened
  <2>9. CASE fetched' = first
    BY <2>4, <2>5, <2>6, <2>7, <2>8, <2>9 DEF EventsHappened
  <2>10. CASE fetched' = <<>>
    BY <2>5, <2>6, <2>8, <2>10, EmptySet DEF EventsHappened
  <2> QED BY <2>6, <2>9, <2>10
<1>3. CASE HandleEvent
  <2>1. fetched' = Tail(fetched) /\ UNCHANGED <<events, settled>>
    BY <1>3 DEF HandleEvent, chainVars
  <2>2. /\ ToSet(Tail(fetched)) \subseteq ToSet(fetched)
        /\ Distinct(fetched) => Distinct(Tail(fetched))
    BY <1>3, TailSet DEF HandleEvent, SettlementInv, TypeOK
  <2> QED BY <2>1, <2>2 DEF EventsHappened
<1>4. ASSUME NEW m \in Match, ExecuteSettlement(m), UNCHANGED fetched
      PROVE  EventsHappened'
  <2>1. events' = Append(events, m) /\ settled' = settled \union {m} /\ m \notin settled
    BY <1>4 DEF ExecuteSettlement, ContractAccepts
  <2>2. /\ \A x \in ToSet(events') : x \in ToSet(events) \/ x = m
        /\ Distinct(events) /\ m \notin ToSet(events) => Distinct(events')
    BY <2>1, AppendSet DEF SettlementInv, TypeOK
  <2> QED BY <1>4, <2>1, <2>2 DEF EventsHappened
<1>5. ASSUME NEW m \in Match, ChainExecute(m) \/ PeerSettles(m) PROVE EventsHappened'
  BY <1>1, <1>4, <1>5 DEF ChainExecute, PeerSettles, loopVars
<1>6. CASE Restart
  BY <1>6, EmptySet DEF Restart, EventsHappened
<1>7. CASE LoopStep
  BY <1>1, <1>2, <1>3, <1>7
  DEF LoopStep, BlockUpdate, SwapRefused, SwapRegistered, SwapSkipped, AfterSwapItem,
      DrainResult, IterationDone, loopVars, chainVars
<1>8. CASE StaleBlock \/ UNCHANGED vars
  BY <1>1, <1>8 DEF StaleBlock, vars, loopVars, chainVars
<1>9. CASE WorkerSubmit \/ WorkerSend \/ ChainTick
  BY <1>1, <1>9 DEF WorkerSubmit, WorkerSend, ChainTick, loopVars, chainVars
<1>10. ASSUME NEW m \in Match, VerifyFailed(m) \/ VerifySilent(m) \/ BackstopSubmit(m)
       PROVE  EventsHappened'
  BY <1>1, <1>10 DEF VerifyFailed, VerifySilent, BackstopSubmit, loopVars, chainVars
<1>11. ASSUME NEW t, NEW x, EarmarkWithdrawal(t, x) \/ ReleaseEarmark(t, x)
       PROVE  EventsHappened'
  BY <1>1, <1>11 DEF EarmarkWithdrawal, ReleaseEarmark, loopVars, chainVars
<1> QED BY <1>5, <1>6, <1>7, <1>8, <1>9, <1>10, <1>11 DEF Next

\* What the tracker projects is what the abstract specification has available.
LEMMA ProjectedIsAvailable ==
  ASSUME SettlementInv, NEW t \in Token PROVE Promise!Available(t) = projected(t)
<1>1. Promise!HeldIn(t) = pending_out[t]
  BY DEF Promise!HeldIn, SettlementInv, ReservationsMatchPending
<1> QED BY <1>1 DEF Promise!Available, projected, saturating_sub, total_pending_out

\* Letting go of matches (abort, expiry) returns holds.
LEMMA ReleaseReturns ==
  ASSUME SettlementInv, NEW S, release_pending_internal(S),
         UNCHANGED <<events, fetched, settled>>
  PROVE  Promise!Next
<1>1. S \intersect pending \in SUBSET Match
  BY DEF SettlementInv, TypeOK
<1>2. Promise!Return(S \intersect pending)
  BY DEF Promise!Return, release_pending_internal, release_pending
<1> QED BY <1>1, <1>2 DEF Promise!Next

\* The events the node has not handled.
Unread == ToSet(fetched) \union ToSet(events)

\* A confirmation uses up an event for the credit of a held match alike in all
\* the event reports, or without effect.
LEMMA ConfirmCredits ==
  ASSUME SettlementInv, NEW e \in Match, e \in Unread, Unread' = Unread \ {e},
         on_settlement_confirmed(e), settled' = settled
  PROVE  Promise!Next
<1>1. CASE UNCHANGED <<trackerVars, managerVars>>
  <2>1. Promise!Miss
    BY <1>1 DEF Unread, trackerVars, managerVars, Promise!Miss
  <2> QED BY <2>1 DEF Promise!Next
<1>2. ASSUME NEW k \in find_pending_for_event(e), confirm_settlement(k),
             pending' = pending \ {k}
      PROVE  Promise!Next
  <2>1. k \in pending /\ k \in Match
    BY DEF find_pending_for_event, SettlementInv, TypeOK
  <2>2. Reported(k) = Reported(e)
    BY DEF find_pending_for_event, SameFields, Reported
  <2>3. confirmed' = [confirmed EXCEPT ![InToken(k)] = @ + InAmount(k)]
    BY <1>2, <2>1, MatchAmounts
    DEF confirm_settlement, SettlementInv, TypeOK, TrackerTypeOK,
        ReservationsMatchPending
  <2>4. Promise!Credit(k, e)
    BY <1>2, <2>1, <2>2, <2>3 DEF Promise!Credit, Unread, confirm_settlement
  <2> QED BY <2>1, <2>4 DEF Promise!Next
<1> QED BY <1>1, <1>2 DEF on_settlement_confirmed

\* Registering a match is a hold, refusing or skipping one is a stutter.
LEMMA SwapHolds ==
  ASSUME SettlementInv, SwapRefused \/ SwapRegistered \/ SwapSkipped
  PROVE  Promise!Next \/ UNCHANGED Promise!heldVars
<1> DEFINE m == Head(swap_queue)
<1>1. m \in Match
  BY HeadTailProperties
  DEF SwapRefused, SwapRegistered, SwapSkipped, SettlementInv, TypeOK, LoopConsistent
<1>2. ASSUME apply_match_ok(m) PROVE m \notin pending
  BY <1>1, <1>2, MatchAmounts
  DEF apply_match_ok, reserve_outflow_ok, SettlementInv, ReservationsMatchPending
<1>3. CASE SwapRefused
  BY <1>3
  DEF SwapRefused, AfterSwapItem, apply_match, managerVars, chainVars, Promise!heldVars
<1>4. CASE SwapSkipped
  BY <1>2, <1>4
  DEF SwapSkipped, AfterSwapItem, release_pending, managerVars, chainVars, Promise!heldVars
<1>5. CASE SwapRegistered
  <2>1. /\ apply_match_ok(m) /\ pending' = pending \union {m}
        /\ UNCHANGED <<confirmed, earmarked, settled, events, fetched>>
    BY <1>5 DEF SwapRegistered, AfterSwapItem, apply_match, chainVars
  <2>2. OutAmount(m) <= Promise!Available(OutToken(m))
    <3>1. OutToken(m) \in Token
      BY <1>1, MatchAmounts
    <3>2. Promise!Available(OutToken(m)) = projected(OutToken(m))
      BY <3>1, ProjectedIsAvailable
    <3> QED BY <2>1, <3>2, Zenon DEF apply_match_ok, reserve_outflow_ok
  <2>3. Promise!Hold(m)
    BY <1>2, <2>1, <2>2 DEF Promise!Hold
  <2> QED BY <1>1, <2>3 DEF Promise!Next
<1> QED BY <1>3, <1>4, <1>5

\* Withdrawals: earmark and release.
LEMMA WithdrawalMarks ==
  ASSUME SettlementInv, NEW t \in Token
  PROVE  /\ \A a \in Withdrawals : EarmarkWithdrawal(t, a) => Promise!Next
         /\ \A x \in BOOLEAN : ReleaseEarmark(t, x) => Promise!Next
<1>1. /\ earmarked \in [Token -> Nat] /\ confirmed \in [Token -> Nat]
      /\ earmarked[t] \in Nat /\ confirmed[t] \in Nat
  BY DEF SettlementInv, TypeOK, TrackerTypeOK
<1>2. ASSUME NEW a \in Withdrawals, EarmarkWithdrawal(t, a) PROVE Promise!Next
  <2>1. /\ a \in Nat /\ a <= projected(t)
        /\ earmarked' = [earmarked EXCEPT ![t] = @ + a]
        /\ UNCHANGED <<confirmed, pending, settled, events, fetched>>
    BY <1>2, SettlementAssumption
    DEF EarmarkWithdrawal, earmark_withdrawal, managerVars, loopVars, chainVars
  <2>2. earmarked'[t] - earmarked[t] = a
    BY <1>1, <2>1
  <2>3. a <= Promise!Available(t)
    BY <2>1, ProjectedIsAvailable, Zenon
  <2>4. Promise!Mark(t)
    BY <2>1, <2>2, <2>3 DEF Promise!Mark
  <2> QED BY <2>4 DEF Promise!Next
<1>3. ASSUME NEW x \in BOOLEAN, ReleaseEarmark(t, x) PROVE Promise!Next
  <2>1. /\ earmarked' = [earmarked EXCEPT ![t] = saturating_sub(@, earmarked[t])]
        /\ confirmed' = IF x
                        THEN [confirmed EXCEPT ![t] = saturating_sub(@, earmarked[t])]
                        ELSE confirmed
        /\ UNCHANGED <<pending, settled, events, fetched>>
    BY <1>3 DEF ReleaseEarmark, release_earmark, managerVars, loopVars
  <2>2. saturating_sub(earmarked[t], earmarked[t]) = 0
    BY <1>1 DEF saturating_sub
  <2>3. earmarked' = [earmarked EXCEPT ![t] = 0]
    BY <2>1, <2>2
  <2>4. Promise!Unmark(t, x)
    BY <2>1, <2>3 DEF Promise!Unmark, saturating_sub
  <2> QED BY <2>4 DEF Promise!Next
<1> QED BY <1>2, <1>3

\* Every step of the pipeline, the worker, the chain and the owner is a step of
\* HeldFunds or leaves its variables unchanged.
LEMMA StepRefines ==
  ASSUME SettlementInv, EventsHappened, [Next]_vars
  PROVE  [Promise!Next]_Promise!heldVars
<1> SUFFICES Promise!Next \/ UNCHANGED Promise!heldVars
  OBVIOUS
<1>1. CASE UNCHANGED <<confirmed, pending, earmarked, settled, events, fetched>>
  BY <1>1 DEF Promise!heldVars
<1>2. CASE LoopStep
  <2>1. CASE BlockUpdate
    <3>1. \/ UNCHANGED <<trackerVars, managerVars>>
          \/ release_pending_internal(Stale(Batch(height)))
      BY <2>1 DEF BlockUpdate, expire_stale, trackerVars, managerVars
    <3>2. UNCHANGED <<events, fetched, settled>>
      BY <2>1 DEF BlockUpdate, chainVars
    <3> QED BY <1>1, <3>1, <3>2, ReleaseReturns DEF trackerVars, managerVars
  <2>2. CASE DrainResult
    <3>1. \/ UNCHANGED <<confirmed, pending, earmarked>>
          \/ release_pending_internal({Head(result_queue).match})
      BY <2>2 DEF DrainResult, mark_submitted, on_settlement_failed, trackerVars,
         managerVars
    <3>2. UNCHANGED <<events, fetched, settled>>
      BY <2>2 DEF DrainResult, loopVars, chainVars
    <3> QED BY <1>1, <3>1, <3>2, ReleaseReturns
  <2>3. CASE HandleEvent
    <3> DEFINE e == Head(fetched)
    <3>1. /\ fetched \in Seq(Match) /\ fetched # <<>> /\ UNCHANGED <<events, settled>>
          /\ fetched' = Tail(fetched) /\ on_settlement_confirmed(e)
      BY <2>3 DEF HandleEvent, SettlementInv, TypeOK, chainVars
    <3>2. e \in Match /\ e \in ToSet(fetched)
      BY <3>1, TailSet, HeadTailProperties
    <3>3. ToSet(Tail(fetched)) = ToSet(fetched) \ {e}
      BY <3>1, TailSet DEF EventsHappened
    <3>4. e \notin ToSet(events)
      BY <3>2 DEF EventsHappened
    <3> HIDE DEF e
    <3>5. e \in Unread /\ Unread' = Unread \ {e}
      BY <3>1, <3>2, <3>3, <3>4 DEF Unread
    <3> QED BY <3>1, <3>2, <3>5, ConfirmCredits
  <2>4. CASE PollEvents
    <3>1. ToSet(fetched') \subseteq ToSet(events) /\ ToSet(events') \subseteq ToSet(events)
      BY <2>4, PollReads
    <3>2. UNCHANGED <<confirmed, pending, earmarked, settled>>
      BY <2>4 DEF PollEvents, trackerVars, managerVars
    <3>3. Promise!Miss
      BY <3>1, <3>2 DEF Promise!Miss
    <3> QED BY <3>3 DEF Promise!Next
  <2>5. CASE IterationDone
    BY <1>1, <2>5 DEF IterationDone, trackerVars, managerVars, chainVars
  <2> QED BY <1>2, <2>1, <2>2, <2>3, <2>4, <2>5, SwapHolds DEF LoopStep
<1>3. CASE StaleBlock \/ UNCHANGED vars
  BY <1>1, <1>3 DEF StaleBlock, vars, trackerVars, managerVars, loopVars, chainVars
<1>4. CASE WorkerSubmit \/ WorkerSend \/ ChainTick
  BY <1>1, <1>4
  DEF WorkerSubmit, WorkerSend, ChainTick, trackerVars, managerVars, loopVars, chainVars
<1>5. ASSUME NEW m \in Match, VerifyFailed(m) \/ VerifySilent(m)
      PROVE  Promise!Next \/ UNCHANGED Promise!heldVars
  BY <1>1, <1>5
  DEF VerifyFailed, VerifySilent, trackerVars, managerVars, loopVars, chainVars
<1>6. ASSUME NEW m \in Match, BackstopSubmit(m)
      PROVE  Promise!Next \/ UNCHANGED Promise!heldVars
  <2>1. \/ UNCHANGED <<confirmed, pending, earmarked>>
        \/ release_pending_internal({m})
    BY <1>6 DEF BackstopSubmit, mark_submitted, on_settlement_failed, trackerVars,
       managerVars
  <2>2. UNCHANGED <<events, fetched, settled>>
    BY <1>6 DEF BackstopSubmit, loopVars
  <2> QED BY <1>1, <2>1, <2>2, ReleaseReturns
<1>7. ASSUME NEW m \in Match, ChainExecute(m) \/ PeerSettles(m)
      PROVE  Promise!Next \/ UNCHANGED Promise!heldVars
  <2>1. UNCHANGED <<confirmed, pending, earmarked, fetched>>
    BY <1>7 DEF ChainExecute, PeerSettles, trackerVars, managerVars, loopVars
  <2>2. CASE UNCHANGED <<settled, events>>
    BY <1>1, <2>1, <2>2
  <2>3. CASE ExecuteSettlement(m)
    <3>1. /\ m \notin settled /\ settled' = settled \union {m}
          /\ events' = Append(events, m) /\ events \in Seq(Match)
      BY <2>3 DEF ExecuteSettlement, ContractAccepts, SettlementInv, TypeOK
    <3>2. ToSet(events') = ToSet(events) \union {m}
      BY <3>1, AppendAdds
    <3>3. Promise!Happen(m)
      BY <2>1, <3>1, <3>2 DEF Promise!Happen
    <3> QED BY <3>3 DEF Promise!Next
  <2> QED BY <1>7, <2>2, <2>3 DEF ChainExecute, PeerSettles
<1>8. CASE Restart
  <2>1. /\ confirmed' \in [Token -> Nat] /\ pending' = {}
        /\ earmarked' = [t \in Token |-> 0] /\ settled' = settled
        /\ fetched' = <<>> /\ events' = <<>>
    BY <1>8, SeedsAreBalances DEF Restart, seed_tracker, SettlementInv, TypeOK
  <2> QED BY <2>1, EmptySet DEF Promise!Reseed, Promise!Next
<1> QED BY <1>2, <1>3, <1>4, <1>5, <1>6, <1>7, <1>8, WithdrawalMarks DEF Next

\* The pipeline implements HeldFunds: whatever the queues, the worker, the chain
\* and restarts do, an outflow is held only within what is available, and a
\* balance grows only by the inflow of a held match when the event of a trade of
\* the same batch, parties and quantity that happened on chain is read, each
\* event counting once.  That it is the event of that very match is not promised:
\* on_settlement_confirmed compares these fields and no others.
THEOREM RefinesHeldFunds == Spec => ImplementsHeldFunds
<1>1. Init => Promise!Init
  BY SettlementAssumption, SeedsAreBalances, EmptySet DEF Init, Promise!Init
<1>2. Init => EventsHappened
  BY EmptySet DEF Init, EventsHappened
<1>3. SettlementInv /\ EventsHappened /\ [Next]_vars => EventsHappened'
  BY EventsNext
<1>4. SettlementInv /\ EventsHappened /\ [Next]_vars
        => [Promise!Next]_Promise!heldVars
  BY StepRefines
<1> QED BY <1>1, <1>2, <1>3, <1>4, SettlementInvariant, PTL
        DEF Spec, ImplementsHeldFunds, Promise!Spec
-----------------------------------------------------------------------------
(* The reservations are covered.                                           *)

OutAmounts == [m \in Match |-> OutAmount(m)]

\* total_pending_out adds up the outflows of the matches in the map.
LEMMA SumOutIsSum ==
  ASSUME NEW S \in SUBSET Match, IsFiniteSet(S)
  PROVE  SumOut(S) = SumOver(OutAmounts, S)
<1> DEFINE I(f) == f = [s \in SUBSET S |->
                         IF s = {} THEN 0
                         ELSE OutAmount(FirstOf(s)) + f[s \ {FirstOf(s)}]]
           F == CHOOSE f : I(f)
<1>1. SumOut(S) = F[S]
  BY DEF SumOut, MapThenSumSet, MapThenFoldSet, FirstOf
<1>2. \A s \in SUBSET S : s # {} => OutAmounts[FirstOf(s)] = OutAmount(FirstOf(s))
  BY DEF OutAmounts, FirstOf
<1>3. \A f : I(f) <=> IsSum(f, OutAmounts, S)
  BY <1>2 DEF IsSum
<1>4. \E f : I(f)
  BY <1>3, SumExists
<1>5. IsSum(F, OutAmounts, S)
  BY <1>3, <1>4
<1> HIDE DEF F
<1> QED BY <1>1, <1>5, SumIs

\* The outflow of nothing, of one match more, and of a part.
LEMMA Outflows ==
  ASSUME NEW S \in SUBSET Match, IsFiniteSet(S)
  PROVE  /\ SumOut({}) = 0 /\ SumOut(S) \in Nat
         /\ \A m \in Match \ S : SumOut(S \union {m}) = SumOut(S) + OutAmount(m)
         /\ \A T \in SUBSET S : SumOut(T) \in Nat /\ SumOut(T) <= SumOut(S)
<1>1. OutAmounts \in [Match -> Nat]
  BY MatchAmounts DEF OutAmounts
<1>2. \A T \in SUBSET Match : IsFiniteSet(T) => SumOut(T) = SumOver(OutAmounts, T)
  BY SumOutIsSum
<1>3. SumOut({}) = 0
  BY <1>2, FS_EmptySet, SumStep
<1>4. SumOut(S) \in Nat
  BY <1>1, <1>2, SumNat
<1>5. ASSUME NEW m \in Match \ S
      PROVE  SumOut(S \union {m}) = SumOut(S) + OutAmount(m)
  <2>1. IsFiniteSet(S \union {m}) /\ S \union {m} \in SUBSET Match
    BY FS_AddElement
  <2>2. SumOver(OutAmounts, S \union {m}) = SumOver(OutAmounts, S) + OutAmounts[m]
    BY <1>1, SumAdd
  <2>3. SumOut(S \union {m}) = SumOver(OutAmounts, S \union {m})
        /\ SumOut(S) = SumOver(OutAmounts, S)
    BY <1>2, <2>1
  <2> QED BY <2>2, <2>3 DEF OutAmounts
<1>6. ASSUME NEW T \in SUBSET S PROVE SumOut(T) \in Nat /\ SumOut(T) <= SumOut(S)
  <2>1. IsFiniteSet(T) /\ T \in SUBSET Match
    BY FS_Subset
  <2>2. SumOver(OutAmounts, T) \in Nat /\ SumOver(OutAmounts, T) <= SumOver(OutAmounts, S)
    BY <1>1, <2>1, SumNat, SumMono
  <2> QED BY <1>2, <2>1, <2>2
<1> QED BY <1>3, <1>4, <1>5, <1>6

\* The pending map is finite; what is reserved and earmarked is covered.
SolventInv == IsFiniteSet(pending) /\ Solvent

\* What is reserved on a token, a finite set of matches.
LEMMA ReservedFinite ==
  ASSUME SettlementInv, IsFiniteSet(pending), NEW t \in Token
  PROVE  /\ pending_out[t] \in SUBSET Match /\ IsFiniteSet(pending_out[t])
         /\ SumOut(pending_out[t]) \in Nat
         /\ confirmed[t] \in Nat /\ earmarked[t] \in Nat
<1>1. /\ pending_out[t] \in SUBSET Match /\ pending_out[t] \in SUBSET pending
      /\ confirmed[t] \in Nat /\ earmarked[t] \in Nat
  BY DEF SettlementInv, TypeOK, TrackerTypeOK, ReservationsMatchPending
<1>2. IsFiniteSet(pending_out[t])
  BY <1>1, FS_Subset
<1> QED BY <1>1, <1>2, Outflows

\* Covered reservations leave the saturating subtractions of projected exact.
LEMMA ProjectedExact ==
  ASSUME SettlementInv, SolventInv, NEW t \in Token
  PROVE  projected(t) = confirmed[t] - SumOut(pending_out[t]) - earmarked[t]
<1>1. /\ SumOut(pending_out[t]) \in Nat
      /\ confirmed[t] \in Nat /\ earmarked[t] \in Nat
  BY ReservedFinite DEF SolventInv
<1>2. SumOut(pending_out[t]) + earmarked[t] <= confirmed[t]
  BY DEF SolventInv, Solvent, total_pending_out
<1> QED BY <1>1, <1>2 DEF projected, saturating_sub, total_pending_out

\* Steps that reserve and earmark nothing and take nothing out of a balance keep
\* it covered.
LEMMA SolventShrinks ==
  ASSUME SettlementInv, SolventInv, pending' \subseteq pending,
         \A t \in Token : /\ pending_out'[t] \subseteq pending_out[t]
                          /\ confirmed'[t] \in Nat /\ confirmed[t] <= confirmed'[t],
         earmarked' = earmarked
  PROVE  SolventInv'
<1>1. IsFiniteSet(pending')
  BY FS_Subset DEF SolventInv
<1>2. ASSUME NEW t \in Token
      PROVE  SumOut(pending_out'[t]) + earmarked'[t] <= confirmed'[t]
  <2>1. /\ pending_out[t] \in SUBSET Match /\ IsFiniteSet(pending_out[t])
        /\ SumOut(pending_out[t]) \in Nat
        /\ confirmed[t] \in Nat /\ earmarked[t] \in Nat
    BY ReservedFinite DEF SolventInv
  <2>2. /\ SumOut(pending_out'[t]) \in Nat
        /\ SumOut(pending_out'[t]) <= SumOut(pending_out[t])
    BY <2>1, Outflows
  <2>3. SumOut(pending_out[t]) + earmarked[t] <= confirmed[t]
    BY DEF SolventInv, Solvent, total_pending_out
  <2> QED BY <2>1, <2>2, <2>3
<1> QED BY <1>1, <1>2 DEF SolventInv, Solvent, total_pending_out

\* Abort and expiry.
LEMMA SolventRelease ==
  ASSUME SettlementInv, SolventInv, NEW S, release_pending_internal(S)
  PROVE  SolventInv'
BY SolventShrinks
DEF release_pending_internal, release_pending, SettlementInv, TypeOK, TrackerTypeOK

\* Confirmation: the outflow goes, the inflow is added, the balance that was
\* confirmed stays.
LEMMA SolventConfirm ==
  ASSUME SettlementInv, SolventInv, NEW e \in Match, on_settlement_confirmed(e)
  PROVE  SolventInv'
<1>1. CASE UNCHANGED <<trackerVars, managerVars>>
  BY <1>1 DEF trackerVars, managerVars, SolventInv, Solvent, total_pending_out
<1>2. ASSUME NEW k \in find_pending_for_event(e), confirm_settlement(k),
             pending' = pending \ {k}
      PROVE  SolventInv'
  <2>1. InAmount(k) \in Nat
    BY MatchAmounts DEF find_pending_for_event, SettlementInv, TypeOK
  <2>2. ASSUME NEW t \in Token
        PROVE  /\ pending_out'[t] \subseteq pending_out[t]
               /\ confirmed'[t] \in Nat /\ confirmed[t] <= confirmed'[t]
    <3>1. confirmed[t] \in Nat
      BY DEF SettlementInv, TypeOK, TrackerTypeOK
    <3>2. /\ pending_out'[t] = pending_out[t] \ {k}
          /\ confirmed'[t] = IF k \in pending_in[t] THEN confirmed[t] + InAmount(k)
                             ELSE confirmed[t]
      BY <1>2 DEF confirm_settlement
    <3> QED BY <2>1, <3>1, <3>2
  <2> QED BY <1>2, <2>2, SolventShrinks DEF confirm_settlement
<1> QED BY <1>1, <1>2 DEF on_settlement_confirmed

\* Registration compares the outflow with what the other reservations and the
\* earmark leave.
LEMMA SolventSwap ==
  ASSUME SettlementInv, SolventInv, SwapRefused \/ SwapRegistered \/ SwapSkipped
  PROVE  SolventInv'
<1> DEFINE m == Head(swap_queue)
<1>1. m \in Match
  BY HeadTailProperties
  DEF SwapRefused, SwapRegistered, SwapSkipped, SettlementInv, TypeOK, LoopConsistent
<1>2. /\ OutToken(m) \in Token /\ OutAmount(m) \in Nat
      /\ m \in pending_out[OutToken(m)] <=> m \in pending
      /\ m \in pending_in[InToken(m)] <=> m \in pending
  BY <1>1, MatchAmounts DEF SettlementInv, ReservationsMatchPending
<1>3. CASE SwapRefused
  <2>1. ~ apply_match_ok(m) /\ apply_match(m) /\ pending' = pending
    BY <1>3 DEF SwapRefused, managerVars
  <2>2. ~ reserve_outflow_ok(m)
    BY <1>2, <2>1 DEF apply_match_ok, reserve_outflow_ok, track_inflow_ok
  <2>3. UNCHANGED <<pending_out, confirmed, earmarked>>
    BY <2>1, <2>2 DEF apply_match
  <2> QED BY <2>1, <2>3 DEF SolventInv, Solvent, total_pending_out
<1>4. CASE SwapSkipped
  BY <1>4, SolventShrinks
  DEF SwapSkipped, release_pending, SettlementInv, TypeOK, TrackerTypeOK
<1>5. CASE SwapRegistered
  <2>1. /\ apply_match_ok(m) /\ pending' = pending \union {m}
        /\ pending_out' = [pending_out EXCEPT ![OutToken(m)] = @ \union {m}]
        /\ UNCHANGED <<confirmed, earmarked>>
    BY <1>5 DEF SwapRegistered, apply_match, apply_match_ok
  <2>2. IsFiniteSet(pending')
    BY <2>1, FS_AddElement DEF SolventInv
  <2> HIDE DEF m
  <2>3. ASSUME NEW t \in Token
        PROVE  SumOut(pending_out'[t]) + earmarked[t] <= confirmed[t]
    <3>1. SumOut(pending_out[t]) + earmarked[t] <= confirmed[t]
      BY DEF SolventInv, Solvent, total_pending_out
    <3>2. pending_out \in [Token -> SUBSET Match]
      BY DEF SettlementInv, TypeOK, TrackerTypeOK
    <3>3. CASE t # OutToken(m)
      BY <2>1, <3>1, <3>2, <3>3
    <3>4. CASE t = OutToken(m)
      <4>1. m \notin pending_out[t] /\ OutAmount(m) <= projected(t)
        BY <2>1, <3>4 DEF apply_match_ok, reserve_outflow_ok
      <4>2. pending_out'[t] = pending_out[t] \union {m}
        BY <1>2, <2>1, <3>2, <3>4
      <4>3. /\ pending_out[t] \in SUBSET Match /\ IsFiniteSet(pending_out[t])
            /\ SumOut(pending_out[t]) \in Nat
            /\ confirmed[t] \in Nat /\ earmarked[t] \in Nat
        BY ReservedFinite DEF SolventInv
      <4>4. SumOut(pending_out[t] \union {m}) = SumOut(pending_out[t]) + OutAmount(m)
        BY <1>1, <4>1, <4>3, Outflows
      <4>5. SumOut(pending_out'[t]) = SumOut(pending_out[t]) + OutAmount(m)
        BY <4>2, <4>4, Zenon
      <4>6. projected(t) = confirmed[t] - SumOut(pending_out[t]) - earmarked[t]
        BY ProjectedExact
      <4>7. OutAmount(m) <= confirmed[t] - SumOut(pending_out[t]) - earmarked[t]
        BY <4>1, <4>6, Zenon
      <4> QED BY <1>2, <4>3, <4>5, <4>7
    <3> QED BY <3>3, <3>4
  <2> QED BY <2>1, <2>2, <2>3 DEF SolventInv, Solvent, total_pending_out
<1> QED BY <1>3, <1>4, <1>5

\* Withdrawals are earmarked within what the reservations leave.
LEMMA SolventWithdrawal ==
  ASSUME SettlementInv, SolventInv, NEW t \in Token
  PROVE  /\ \A a \in Withdrawals : EarmarkWithdrawal(t, a) => SolventInv'
         /\ \A x \in BOOLEAN : ReleaseEarmark(t, x) => SolventInv'
<1>1. /\ earmarked \in [Token -> Nat] /\ confirmed \in [Token -> Nat]
  BY DEF SettlementInv, TypeOK, TrackerTypeOK
<1>2. \A u \in Token : /\ SumOut(pending_out[u]) \in Nat
                       /\ confirmed[u] \in Nat /\ earmarked[u] \in Nat
                       /\ SumOut(pending_out[u]) + earmarked[u] <= confirmed[u]
  BY ReservedFinite DEF SolventInv, Solvent, total_pending_out
<1>3. ASSUME NEW a \in Withdrawals, EarmarkWithdrawal(t, a) PROVE SolventInv'
  <2>1. /\ a \in Nat /\ a <= projected(t)
        /\ earmarked' = [earmarked EXCEPT ![t] = @ + a]
        /\ UNCHANGED <<confirmed, pending_out, pending>>
    BY <1>3, SettlementAssumption
    DEF EarmarkWithdrawal, earmark_withdrawal, managerVars
  <2>2. a <= confirmed[t] - SumOut(pending_out[t]) - earmarked[t]
    BY <2>1, ProjectedExact, Zenon
  <2>3. ASSUME NEW u \in Token
        PROVE  SumOut(pending_out[u]) + earmarked'[u] <= confirmed[u]
    <3>1. CASE u = t
      <4>1. earmarked'[u] = earmarked[u] + a
        BY <1>1, <2>1, <3>1
      <4> QED BY <1>2, <2>1, <2>2, <3>1, <4>1
    <3>2. CASE u # t
      BY <1>1, <1>2, <2>1, <3>2
    <3> QED BY <3>1, <3>2
  <2> QED BY <2>1, <2>3 DEF SolventInv, Solvent, total_pending_out
<1>4. ASSUME NEW x \in BOOLEAN, ReleaseEarmark(t, x) PROVE SolventInv'
  <2>1. /\ earmarked' = [earmarked EXCEPT ![t] = saturating_sub(@, earmarked[t])]
        /\ confirmed' = IF x
                        THEN [confirmed EXCEPT ![t] = saturating_sub(@, earmarked[t])]
                        ELSE confirmed
        /\ UNCHANGED <<pending_out, pending>>
    BY <1>4 DEF ReleaseEarmark, release_earmark, managerVars
  <2>2. /\ saturating_sub(earmarked[t], earmarked[t]) = 0
        /\ saturating_sub(confirmed[t], earmarked[t]) = confirmed[t] - earmarked[t]
    BY <1>2 DEF saturating_sub
  <2>3. ASSUME NEW u \in Token
        PROVE  SumOut(pending_out[u]) + earmarked'[u] <= confirmed'[u]
    <3>1. CASE u = t
      <4>1. /\ earmarked'[u] = 0
            /\ confirmed'[u] \in {confirmed[u], confirmed[u] - earmarked[u]}
        BY <1>1, <2>1, <2>2, <3>1
      <4> QED BY <1>2, <3>1, <4>1
    <3>2. CASE u # t
      <4>1. earmarked'[u] = earmarked[u] /\ confirmed'[u] = confirmed[u]
        BY <1>1, <2>1, <3>2
      <4> QED BY <1>2, <4>1
    <3> QED BY <3>1, <3>2
  <2> QED BY <2>1, <2>3 DEF SolventInv, Solvent, total_pending_out
<1> QED BY <1>3, <1>4

\* Every step keeps the reservations covered.
LEMMA SolventNext ==
  ASSUME SettlementInv, SolventInv, [Next]_vars PROVE SolventInv'
<1>1. CASE UNCHANGED <<confirmed, pending_out, earmarked, pending>>
  BY <1>1 DEF SolventInv, Solvent, total_pending_out
<1>2. CASE LoopStep
  <2>1. CASE BlockUpdate
    <3>1. \/ UNCHANGED <<trackerVars, managerVars>>
          \/ release_pending_internal(Stale(Batch(height)))
      BY <2>1 DEF BlockUpdate, expire_stale, trackerVars, managerVars
    <3> QED BY <1>1, <3>1, SolventRelease DEF trackerVars, managerVars
  <2>2. CASE DrainResult
    <3>1. \/ UNCHANGED <<confirmed, pending_out, earmarked, pending>>
          \/ release_pending_internal({Head(result_queue).match})
      BY <2>2 DEF DrainResult, mark_submitted, on_settlement_failed, trackerVars,
         managerVars
    <3> QED BY <1>1, <3>1, SolventRelease
  <2>3. CASE HandleEvent
    <3>1. Head(fetched) \in Match /\ on_settlement_confirmed(Head(fetched))
      BY <2>3, HeadTailProperties DEF HandleEvent, SettlementInv, TypeOK
    <3> QED BY <3>1, SolventConfirm
  <2>4. CASE PollEvents \/ IterationDone
    BY <1>1, <2>4 DEF PollEvents, IterationDone, trackerVars, managerVars
  <2> QED BY <1>2, <2>1, <2>2, <2>3, <2>4, SolventSwap DEF LoopStep
<1>3. CASE StaleBlock \/ UNCHANGED vars
  BY <1>1, <1>3 DEF StaleBlock, vars, trackerVars, managerVars
<1>4. CASE WorkerSubmit \/ WorkerSend \/ ChainTick
  BY <1>1, <1>4 DEF WorkerSubmit, WorkerSend, ChainTick, trackerVars, managerVars
<1>5. ASSUME NEW m \in Match,
             VerifyFailed(m) \/ VerifySilent(m) \/ ChainExecute(m) \/ PeerSettles(m)
      PROVE  SolventInv'
  BY <1>1, <1>5
  DEF VerifyFailed, VerifySilent, ChainExecute, PeerSettles, trackerVars, managerVars
<1>6. ASSUME NEW m \in Match, BackstopSubmit(m) PROVE SolventInv'
  <2>1. \/ UNCHANGED <<confirmed, pending_out, earmarked, pending>>
        \/ release_pending_internal({m})
    BY <1>6 DEF BackstopSubmit, mark_submitted, on_settlement_failed, trackerVars,
       managerVars
  <2> QED BY <1>1, <2>1, SolventRelease
<1>7. CASE Restart
  <2>1. /\ confirmed' \in [Token -> Nat] /\ pending' = {}
        /\ pending_out' = [t \in Token |-> {}] /\ earmarked' = [t \in Token |-> 0]
    BY <1>7, SeedsAreBalances DEF Restart, seed_tracker, SettlementInv, TypeOK
  <2>2. SumOut({}) = 0 /\ IsFiniteSet({})
    BY FS_EmptySet, Outflows
  <2> QED BY <2>1, <2>2 DEF SolventInv, Solvent, total_pending_out
<1> QED BY <1>2, <1>3, <1>4, <1>5, <1>6, <1>7, SolventWithdrawal DEF Next

\* The reservations and the earmark of every token are covered by its confirmed
\* balance in every reachable state, for every trade, balance and history of
\* aborts, expiries, confirmations, withdrawals and restarts: the saturating
\* subtractions of projected() never cut anything off.
THEOREM AlwaysSolvent == Spec => []Solvent
<1>1. Init => SolventInv
  <2>1. SumOut({}) = 0 /\ IsFiniteSet({})
    BY FS_EmptySet, Outflows
  <2> QED BY <2>1, SettlementAssumption, SeedsAreBalances
          DEF Init, SolventInv, Solvent, total_pending_out
<1>2. SettlementInv /\ SolventInv /\ [Next]_vars => SolventInv'
  BY SolventNext
<1>3. SolventInv => Solvent
  BY DEF SolventInv
<1> QED BY <1>1, <1>2, <1>3, SettlementInvariant, PTL DEF Spec
=============================================================================
