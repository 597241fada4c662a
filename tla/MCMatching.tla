----------------------------- MODULE MCMatching ------------------------------
(***************************************************************************)
(* Instances of MatchingNodes for TLC.  The pool of orders has price ties, *)
(* dust, partial fills, an owner on both sides and two symbols, one of     *)
(* them without a market.                                                  *)
(***************************************************************************)
EXTENDS MatchingNodes

CONSTANT MaxReveals   \* bound: reveals in a batch

O(nft, symbol, side, price, quantity) ==
  [nft |-> nft, symbol |-> symbol, side |-> side, price |-> price,
   quantity |-> quantity]

MCOrder == 1..10
MCFields ==
  << O(1, 1, "Buy", 5, 4), O(2, 1, "Sell", 3, 3), O(3, 1, "Buy", 5, 3),
     O(4, 1, "Sell", 4, 4), O(1, 1, "Sell", 3, 5), O(3, 1, "Buy", 6, 1),
     O(5, 2, "Buy", 7, 2), O(6, 2, "Sell", 6, 2), O(2, 3, "Sell", 1, 2),
     O(5, 1, "Buy", 4, 3) >>
MCMin == 1 :> 2 @@ 2 :> 1

\* Every set of reveals up to the bound, held by the first node in the order
\* of the hashes; and one batch in which an order was received twice.
MCArrivals ==
  {SetToSortSeq(S, <) : S \in {T \in SUBSET MCOrder : Cardinality(T) <= MaxReveals}}
    \union {<<1, 1, 2, 4>>}
=============================================================================
