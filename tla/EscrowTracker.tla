---------------------------- MODULE EscrowTracker ----------------------------
(***************************************************************************)
(* The projected-balance tracker of the node's own NFT                     *)
(* (crates/escrow_tracker/src/lib.rs).                                     *)
(*                                                                         *)
(* The tracker keeps, for every token, the balance last confirmed on       *)
(* chain, the outflows and the inflows of the matches that wait for        *)
(* settlement (two maps keyed by the match hash) and an amount earmarked   *)
(* for withdrawals.  The amounts a match moves are a function of the       *)
(* match, so each map is modelled by the set of its keys.  A token that    *)
(* was never touched has no entry in the code and a zero entry here.       *)
(*                                                                         *)
(* The operations are action fragments over the four variables; module     *)
(* Settlement conjoins them with the rest of the node's state.             *)
(***************************************************************************)
EXTENDS Integers, FiniteSets, FiniteSetsExt

CONSTANTS
  Token,      \* token symbols
  Nft,        \* NFT ids of the traders in this pool
  OwnNft,     \* SettlementManager::own_nft_id
  Match,      \* match hashes
  Trade,      \* Trade[m]: the fields of the Match whose hash is m
  Divisor,    \* 10^(base_decimals + 8 - quote_decimals)
  Word,       \* 2^64: `as u64` keeps the remainder
  SeedLoses   \* may reading the balances at start-up lose something?

TradeRecord ==
  [ batch : Nat, buyer : Nft, seller : Nft, gas_payer : Nft,
    base : Token, quote : Token,
    fill : Nat, buyer_price : Nat, settlement_price : Nat ]

ASSUME TradeAssumption ==
  /\ OwnNft \in Nft
  /\ Trade \in [Match -> TradeRecord]
  /\ \A m \in Match : Trade[m].base # Trade[m].quote

ASSUME DivisorAssumption ==
  Divisor \in Nat \ {0} /\ Word \in Nat \ {0} /\ SeedLoses \in BOOLEAN

VARIABLES
  confirmed,    \* [Token -> Nat], TokenBalance::confirmed
  pending_out,  \* [Token -> SUBSET Match], keys of TokenBalance::pending_out
  pending_in,   \* [Token -> SUBSET Match], keys of TokenBalance::pending_in
  earmarked     \* [Token -> Nat], TokenBalance::earmarked

trackerVars == <<confirmed, pending_out, pending_in, earmarked>>

TrackerTypeOK ==
  /\ confirmed \in [Token -> Nat]
  /\ pending_out \in [Token -> SUBSET Match]
  /\ pending_in \in [Token -> SUBSET Match]
  /\ earmarked \in [Token -> Nat]

-----------------------------------------------------------------------------
(* What a match moves.                                                     *)

\* register_match: every match whose buyer is not this node is a sale.
my_side(m) == IF Trade[m].buyer = OwnNft THEN "Buy" ELSE "Sell"

QuoteValue(quantity, price) == (quantity * price) \div Divisor

\* The value is computed in a u128 and cut down to a u64.
QuoteAmount(quantity, price) == QuoteValue(quantity, price) % Word

\* A buyer reserves at its own limit price, the worst case.
OutToken(m) == IF my_side(m) = "Buy" THEN Trade[m].quote ELSE Trade[m].base
OutAmount(m) ==
  IF my_side(m) = "Buy" THEN QuoteAmount(Trade[m].fill, Trade[m].buyer_price)
                        ELSE Trade[m].fill

InToken(m) == IF my_side(m) = "Buy" THEN Trade[m].base ELSE Trade[m].quote
InAmount(m) ==
  IF my_side(m) = "Buy" THEN Trade[m].fill
  ELSE QuoteAmount(Trade[m].fill, Trade[m].settlement_price)

-----------------------------------------------------------------------------
(* Balances.                                                               *)

saturating_sub(a, b) == IF b <= a THEN a - b ELSE 0

SumOut(S) == MapThenSumSet(OutAmount, S)

total_pending_out(t) == SumOut(pending_out[t])

projected(t) ==
  saturating_sub(saturating_sub(confirmed[t], total_pending_out(t)), earmarked[t])

-----------------------------------------------------------------------------
(* apply_match: reserve_outflow, then track_inflow.  Either may refuse the *)
(* match; a refusal of the second leaves the effect of the first.          *)

\* Mutant: the outflow is compared with the confirmed balance.
reserve_against_confirmed(m) ==
  /\ m \notin pending_out[OutToken(m)]
  /\ OutAmount(m) <= confirmed[OutToken(m)]

reserve_outflow_ok(m) ==
  /\ m \notin pending_out[OutToken(m)]
  /\ OutAmount(m) <= projected(OutToken(m))

track_inflow_ok(m) == m \notin pending_in[InToken(m)]

apply_match_ok(m) == reserve_outflow_ok(m) /\ track_inflow_ok(m)

apply_match(m) ==
  /\ pending_out' = IF reserve_outflow_ok(m)
                    THEN [pending_out EXCEPT ![OutToken(m)] = @ \union {m}]
                    ELSE pending_out
  /\ pending_in' = IF apply_match_ok(m)
                   THEN [pending_in EXCEPT ![InToken(m)] = @ \union {m}]
                   ELSE pending_in
  /\ UNCHANGED <<confirmed, earmarked>>

\* The chain executed the settlement of m.
confirm_settlement(m) ==
  /\ pending_out' = [t \in Token |-> pending_out[t] \ {m}]
  /\ pending_in' = [t \in Token |-> pending_in[t] \ {m}]
  /\ confirmed' = [t \in Token |-> IF m \in pending_in[t]
                                   THEN confirmed[t] + InAmount(m)
                                   ELSE confirmed[t]]
  /\ UNCHANGED earmarked

\* Mutant: only the outflow of a failed settlement is released.
release_outflow_only(S) ==
  /\ pending_out' = [t \in Token |-> pending_out[t] \ S]
  /\ UNCHANGED <<confirmed, pending_in, earmarked>>

\* The settlements of the matches in S failed or expired.
release_pending(S) ==
  /\ pending_out' = [t \in Token |-> pending_out[t] \ S]
  /\ pending_in' = [t \in Token |-> pending_in[t] \ S]
  /\ UNCHANGED <<confirmed, earmarked>>

\* Mutant: a withdrawal may use funds that are reserved for settlements.
earmark_against_confirmed(t, amount) ==
  /\ amount <= confirmed[t]
  /\ earmarked' = [earmarked EXCEPT ![t] = @ + amount]
  /\ UNCHANGED <<confirmed, pending_out, pending_in>>

earmark_withdrawal(t, amount) ==
  /\ amount <= projected(t)
  /\ earmarked' = [earmarked EXCEPT ![t] = @ + amount]
  /\ UNCHANGED <<confirmed, pending_out, pending_in>>

\* Mutant: an executed withdrawal leaves the earmark behind.
release_keeps_earmark(t, amount, executed) ==
  /\ earmarked' = IF executed THEN earmarked
                  ELSE [earmarked EXCEPT ![t] = saturating_sub(@, amount)]
  /\ confirmed' = IF executed
                  THEN [confirmed EXCEPT ![t] = saturating_sub(@, amount)]
                  ELSE confirmed
  /\ UNCHANGED <<pending_out, pending_in>>

release_earmark(t, amount, executed) ==
  /\ earmarked' = [earmarked EXCEPT ![t] = saturating_sub(@, amount)]
  /\ confirmed' = IF executed
                  THEN [confirmed EXCEPT ![t] = saturating_sub(@, amount)]
                  ELSE confirmed
  /\ UNCHANGED <<pending_out, pending_in>>

\* What the start-up may read for an escrow balance: the amount passes
\* through a decimal f64 that is cut off to an integer, which may lose its
\* last unit, and a failed view call leaves the token unseeded.
SeedAmounts(amount) ==
  IF SeedLoses THEN {amount, saturating_sub(amount, 1), 0} ELSE {amount}

Seeds(balance) ==
  {s \in [Token -> UNION {SeedAmounts(balance[t]) : t \in Token}] :
     \A t \in Token : s[t] \in SeedAmounts(balance[t])}

\* EscrowTracker::new() followed by set_confirmed for every token.
seed_tracker(balance) ==
  /\ confirmed' \in Seeds(balance)
  /\ pending_out' = [t \in Token |-> {}]
  /\ pending_in' = [t \in Token |-> {}]
  /\ earmarked' = [t \in Token |-> 0]

=============================================================================
