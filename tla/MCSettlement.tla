---------------------------- MODULE MCSettlement -----------------------------
(***************************************************************************)
(* Instances of Settlement for TLC.  Two tokens and the NFTs 1 (this       *)
(* node), 2 and 3; batches of two blocks, the second one being the Swap    *)
(* phase.  Prices are chosen so that the buyer's worst case differs from   *)
(* what it pays, and balances so that not every match can be afforded.     *)
(***************************************************************************)
EXTENDS Settlement

MCTrade == [
  bought |-> [batch |-> 0, buyer |-> 1, seller |-> 2, gas_payer |-> 1,
              base |-> "BASE", quote |-> "QUOTE",
              fill |-> 2, buyer_price |-> 2, settlement_price |-> 1],
  sold   |-> [batch |-> 0, buyer |-> 2, seller |-> 1, gas_payer |-> 2,
              base |-> "BASE", quote |-> "QUOTE",
              fill |-> 1, buyer_price |-> 3, settlement_price |-> 2],
  third  |-> [batch |-> 0, buyer |-> 2, seller |-> 3, gas_payer |-> 3,
              base |-> "BASE", quote |-> "QUOTE",
              fill |-> 1, buyer_price |-> 2, settlement_price |-> 2],
  later  |-> [batch |-> 1, buyer |-> 1, seller |-> 3, gas_payer |-> 1,
              base |-> "BASE", quote |-> "QUOTE",
              fill |-> 1, buyer_price |-> 3, settlement_price |-> 3]]

\* Same parties, batch and quantity as "bought", another market.
Twin == [MCTrade["bought"] EXCEPT !.base = "OTHER", !.buyer_price = 1]

TradesOf(S) == [m \in S |-> IF m = "twin" THEN Twin ELSE MCTrade[m]]

MCBalance == [BASE |-> 1, QUOTE |-> 6]
TwinBalance == MCBalance @@ "OTHER" :> 0
MCAbortCode == {"AlreadySettled", "BuyerInactive"}

\* The node: three matches of batch 0 (one listed twice) and a late batch 1.
NodeMatch == {"bought", "sold", "later"}
NodeTrade == TradesOf(NodeMatch)
NodeLists == 0 :> {<<>>, <<"bought", "sold", "bought">>} @@ 1 :> {<<>>, <<"later">>}

\* The matches other nodes settle.
PeerMatch == {"sold", "third"}
PeerTrade == TradesOf(PeerMatch)
PeerLists == 0 :> {<<>>, <<"sold", "third">>, <<"third", "sold">>}

OneMatch == {"bought"}
OneTrade == TradesOf(OneMatch)
OneLists == 0 :> {<<>>, <<"bought">>}

TwinMatch == {"bought", "twin"}
TwinTrade == TradesOf(TwinMatch)
TwinLists == 0 :> {<<>>, <<"bought", "twin">>}
=============================================================================
