------------------------------ MODULE Matching -------------------------------
(***************************************************************************)
(* The matching engine (crates/matching/src/lib.rs): one call of           *)
(* run_matching over the reveals of a batch, one step per turn of its      *)
(* two-pointer loop.                                                       *)
(*                                                                         *)
(* An order is identified by its hash, a number: hashes are compared to    *)
(* break ties and to choose the gas payer.  A match hash is a function of  *)
(* the batch, the two order hashes and the filled quantity; a call works   *)
(* on one batch.                                                           *)
(***************************************************************************)
EXTENDS Integers, Sequences, SequencesExt

CONSTANTS
  Order,        \* order hashes
  Fields,       \* Fields[o]: nft, symbol, side, price and quantity of order o
  Symbol,       \* symbols, ordered
  MinQuantity,  \* MarketConfig: minimum fill of every known symbol
  Modulus,      \* 2^64: prices are added in u64
  Arrivals      \* the reveals of a batch, in the order a node holds them

OrderFields ==
  [nft : Nat, symbol : Symbol, side : {"Buy", "Sell"}, price : Nat, quantity : Nat]

ASSUME MatchingAssumption ==
  /\ Order \subseteq Nat /\ Symbol \subseteq Nat
  /\ Fields \in [Order -> OrderFields]
  /\ DOMAIN MinQuantity \subseteq Symbol
  /\ \A s \in DOMAIN MinQuantity : MinQuantity[s] \in Nat
  /\ Modulus \in Nat \ {0}
  /\ Arrivals \subseteq Seq(Order)

VARIABLES
  arrival,         \* MatchingInput::reveals
  todo,            \* symbols still to be matched
  buys, sells,     \* sorted books of the current symbol
  buy_idx, sell_idx,
  buy_remaining, sell_remaining,
  matches          \* matches found so far

matchVars == <<arrival, todo, buys, sells, buy_idx, sell_idx, buy_remaining,
               sell_remaining, matches>>

Price(o) == Fields[o].price
Quantity(o) == Fields[o].quantity
Owner(o) == Fields[o].nft

MatchRecord == [buyer : Order, seller : Order, fill : Nat, price : Nat, gas_payer : Nat]

\* Every variable keeps the type its Rust counterpart has.
MatchingTypeOK ==
  /\ arrival \in Seq(Order)
  /\ todo \subseteq Symbol
  /\ buys \in Seq(Order) /\ sells \in Seq(Order)
  /\ buy_idx \in Nat \ {0} /\ sell_idx \in Nat \ {0}
  /\ buy_remaining \in Nat /\ sell_remaining \in Nat
  /\ matches \in Seq(MatchRecord)

-----------------------------------------------------------------------------
(* sort_orders.                                                            *)

\* Mutant: ties are not broken by the order hash.
BuyBeforeNoTiebreak(a, b) == Price(a) > Price(b)

\* Mutant: the lowest bid comes first.
BuyBeforeAscending(a, b) == Price(a) < Price(b) \/ (Price(a) = Price(b) /\ a < b)

BuyBefore(a, b) == Price(a) > Price(b) \/ (Price(a) = Price(b) /\ a < b)

SellBefore(a, b) == Price(a) < Price(b) \/ (Price(a) = Price(b) /\ a < b)

\* Where the orders of one side of a symbol stand among the reveals.
Positions(sym, side) ==
  {i \in DOMAIN arrival : /\ Fields[arrival[i]].symbol = sym
                          /\ Fields[arrival[i]].side = side}

Before(side, a, b) == IF side = "Buy" THEN BuyBefore(a, b) ELSE SellBefore(a, b)

\* The books that list all orders of a side, none before a smaller one.
sort_orders(sym, side) ==
  LET P == Positions(sym, side)
      slots == 1..Cardinality(P)
  IN
  {[k \in slots |-> arrival[f[k]]] :
     f \in {g \in Bijection(slots, P) :
             \A k, l \in slots : k < l => ~ Before(side, arrival[g[l]], arrival[g[k]])}}

-----------------------------------------------------------------------------
(* generate_matches.                                                       *)

remaining(book, i) == IF i \in DOMAIN book THEN Quantity(book[i]) ELSE 0

Buy == buys[buy_idx]
Sell == sells[sell_idx]

Crossing ==
  /\ buy_idx \in DOMAIN buys /\ sell_idx \in DOMAIN sells
  /\ Price(Buy) >= Price(Sell)

\* Mutant: orders of one owner are matched like any others.
SelfTradeAllowed == FALSE

SelfTrade == Owner(Buy) = Owner(Sell)

min_quantity == MinQuantity[Fields[Buy].symbol]

\* Mutant: the larger of the two quantities.
fill_qty_larger ==
  IF buy_remaining > sell_remaining THEN buy_remaining ELSE sell_remaining

fill_qty == IF buy_remaining < sell_remaining THEN buy_remaining ELSE sell_remaining

\* Has the top buy a crossing counterparty with another owner left?
buy_has_alt ==
  \E j \in DOMAIN sells : /\ j >= sell_idx
                          /\ Price(Buy) >= Price(sells[j])
                          /\ Owner(sells[j]) # Owner(Buy)

sell_has_alt ==
  \E i \in DOMAIN buys : /\ i >= buy_idx
                         /\ Price(buys[i]) >= Price(Sell)
                         /\ Owner(buys[i]) # Owner(Sell)

advance_buy ==
  /\ buy_idx' = buy_idx + 1
  /\ buy_remaining' = remaining(buys, buy_idx + 1)
  /\ UNCHANGED <<sell_idx, sell_remaining>>

advance_sell ==
  /\ sell_idx' = sell_idx + 1
  /\ sell_remaining' = remaining(sells, sell_idx + 1)
  /\ UNCHANGED <<buy_idx, buy_remaining>>

determine_gas_payer(b, s) == IF b < s THEN Owner(b) ELSE Owner(s)

\* The two top orders belong to one owner: one of them is passed over.
SkipSelf ==
  /\ Crossing /\ SelfTrade
  /\ IF buy_has_alt /\ ~ sell_has_alt THEN advance_sell ELSE advance_buy
  /\ UNCHANGED <<arrival, todo, buys, sells, matches>>

\* Mutant: dust is not passed over.
SkipDustStays ==
  /\ Crossing /\ ~ SelfTrade
  /\ fill_qty < min_quantity
  /\ UNCHANGED matchVars

\* Mutant: the larger side is passed over.
SkipDustLarger ==
  /\ Crossing /\ ~ SelfTrade
  /\ fill_qty < min_quantity
  /\ IF buy_remaining <= sell_remaining THEN advance_sell ELSE advance_buy
  /\ UNCHANGED <<arrival, todo, buys, sells, matches>>

\* The smaller side is below the minimum: it is passed over.
SkipDust ==
  /\ Crossing /\ ~ SelfTrade
  /\ fill_qty < min_quantity
  /\ IF buy_remaining <= sell_remaining THEN advance_buy ELSE advance_sell
  /\ UNCHANGED <<arrival, todo, buys, sells, matches>>

\* Mutant: a partly filled buy keeps its whole quantity.
AfterFillKeepsBuy ==
  LET s == sell_remaining - fill_qty
  IN /\ buy_idx' = IF buy_remaining = fill_qty THEN buy_idx + 1 ELSE buy_idx
     /\ buy_remaining' = IF buy_remaining = fill_qty
                         THEN remaining(buys, buy_idx + 1) ELSE buy_remaining
     /\ sell_idx' = IF s = 0 THEN sell_idx + 1 ELSE sell_idx
     /\ sell_remaining' = IF s = 0 THEN remaining(sells, sell_idx + 1) ELSE s

\* Mutant: the filled quantity is not deducted.
AfterFillNoDeduction == UNCHANGED <<buy_idx, sell_idx, buy_remaining, sell_remaining>>

\* What is left of both sides after a fill.
AfterFill ==
  LET b == buy_remaining - fill_qty
      s == sell_remaining - fill_qty
  IN /\ buy_idx' = IF b = 0 THEN buy_idx + 1 ELSE buy_idx
     /\ buy_remaining' = IF b = 0 THEN remaining(buys, buy_idx + 1) ELSE b
     /\ sell_idx' = IF s = 0 THEN sell_idx + 1 ELSE sell_idx
     /\ sell_remaining' = IF s = 0 THEN remaining(sells, sell_idx + 1) ELSE s

settlement_price == ((Price(Buy) + Price(Sell)) % Modulus) \div 2

Fill ==
  /\ Crossing /\ ~ SelfTrade
  /\ fill_qty >= min_quantity
  /\ matches' = Append(matches,
       [buyer |-> Buy, seller |-> Sell, fill |-> fill_qty,
        price |-> settlement_price, gas_payer |-> determine_gas_payer(Buy, Sell)])
  /\ AfterFill
  /\ UNCHANGED <<arrival, todo, buys, sells>>

-----------------------------------------------------------------------------
(* run_matching.                                                           *)

Init ==
  /\ arrival \in Arrivals
  /\ todo = {Fields[arrival[i]].symbol : i \in DOMAIN arrival}
  /\ buys = <<>> /\ sells = <<>>
  /\ buy_idx = 1 /\ sell_idx = 1
  /\ buy_remaining = 0 /\ sell_remaining = 0
  /\ matches = <<>>

\* The loop over one symbol has ended: sort the books of the next one, in
\* the order of the symbols.  A symbol without market is dropped.
NextSymbol ==
  /\ ~ Crossing
  /\ \E sym \in todo :
       /\ \A other \in todo : sym <= other
       /\ todo' = todo \ {sym}
       /\ IF sym \in DOMAIN MinQuantity
          THEN /\ buys' \in sort_orders(sym, "Buy")
               /\ sells' \in sort_orders(sym, "Sell")
          ELSE buys' = <<>> /\ sells' = <<>>
  /\ buy_idx' = 1 /\ sell_idx' = 1
  /\ buy_remaining' = remaining(buys', 1)
  /\ sell_remaining' = remaining(sells', 1)
  /\ UNCHANGED <<arrival, matches>>

Done == ~ Crossing /\ todo = {}

Next == NextSymbol \/ SkipSelf \/ SkipDust \/ Fill

Spec == Init /\ [][Next]_matchVars

-----------------------------------------------------------------------------
(* Properties.                                                             *)

\* An order is not among the reveals twice.
RevealedOnce(o) ==
  \A i, j \in DOMAIN arrival : arrival[i] = o /\ arrival[j] = o => i = j

\* No duplicates among the reveals.
DistinctReveals == \A i, j \in DOMAIN arrival : arrival[i] = arrival[j] => i = j

\* Nobody both buys and sells, so self-trade skips cannot happen.
OneSided ==
  \A i, j \in DOMAIN arrival :
    Owner(arrival[i]) = Owner(arrival[j]) =>
      Fields[arrival[i]].side = Fields[arrival[j]].side

Filled(o) ==
  LET mine == {i \in DOMAIN matches : o \in {matches[i].buyer, matches[i].seller}}
  IN MapThenSumSet(LAMBDA i : matches[i].fill, mine)

Residual(o) == Quantity(o) - Filled(o)

\* Every match is one the contract can accept: a buy and a sell of the same
\* known symbol, of two owners, crossing, at least the minimum, at a price
\* both agreed to, with one of the two paying the gas.
FillsLegal ==
  \A i \in DOMAIN matches :
    LET m == matches[i] IN
    /\ Fields[m.buyer].side = "Buy" /\ Fields[m.seller].side = "Sell"
    /\ Fields[m.buyer].symbol = Fields[m.seller].symbol
    /\ Fields[m.buyer].symbol \in DOMAIN MinQuantity
    /\ m.fill >= MinQuantity[Fields[m.buyer].symbol]
    /\ Owner(m.buyer) # Owner(m.seller)
    /\ m.price \in Price(m.seller)..Price(m.buyer)
    /\ m.gas_payer \in {Owner(m.buyer), Owner(m.seller)}

\* An order that is revealed once is not filled beyond its quantity, over all
\* its matches and whatever other reveals are repeated.  (A repeated reveal is
\* matched as two orders: run_matching does not compare the orders it is given.)
NoOverfill ==
  \A i \in DOMAIN arrival : RevealedOnce(arrival[i]) => Residual(arrival[i]) >= 0

\* No two matches of orders that are revealed once have the same match hash, the
\* key under which the settlement pipeline tracks them, whatever other reveals
\* are repeated.
UniqueMatchHashes ==
  \A i, j \in DOMAIN matches :
    /\ RevealedOnce(matches[i].buyer) /\ RevealedOnce(matches[i].seller)
    /\ matches[i].buyer = matches[j].buyer
    /\ matches[i].seller = matches[j].seller
    /\ matches[i].fill = matches[j].fill
    => i = j

\* When nobody trades with himself the engine leaves no trade on the table:
\* at the end no crossing pair has the market's minimum left on both sides.
NothingLeft ==
  Done /\ DistinctReveals /\ OneSided =>
    \A i, j \in DOMAIN arrival :
      LET b == arrival[i]
          s == arrival[j]
      IN ~ /\ Fields[b].side = "Buy" /\ Fields[s].side = "Sell"
           /\ Fields[b].symbol = Fields[s].symbol
           /\ Fields[b].symbol \in DOMAIN MinQuantity
           /\ Price(b) >= Price(s)
           /\ Residual(b) > 0 /\ Residual(b) >= MinQuantity[Fields[b].symbol]
           /\ Residual(s) > 0 /\ Residual(s) >= MinQuantity[Fields[b].symbol]

\* Price priority: a buy is filled only if every buy of the symbol with a
\* better price has less than the minimum left.
PriorityKept ==
  DistinctReveals /\ OneSided =>
    \A i, j \in DOMAIN arrival :
      LET better == arrival[i]
          worse == arrival[j]
      IN /\ Fields[better].side = "Buy" /\ Fields[worse].side = "Buy"
         /\ Fields[better].symbol = Fields[worse].symbol
         /\ Price(better) > Price(worse)
         /\ Filled(worse) > 0
         => \/ Residual(better) = 0
            \/ Residual(better) < MinQuantity[Fields[better].symbol]
=============================================================================
