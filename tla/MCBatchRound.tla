---------------------------- MODULE MCBatchRound -----------------------------
(***************************************************************************)
(* Instances of BatchRound for TLC.                                        *)
(***************************************************************************)
EXTENDS BatchRound

CONSTANTS n1, n2, n3

\* The nodes share pool 0 in every batch but the second, where n1 is in pool 1.
TwoPools == [n \in Node |-> [b \in Batch |-> IF n = n1 /\ b = FirstBatch + 1 THEN 1 ELSE 0]]

\* The nodes never share a pool: n1 hears of n2 through the stray alone.
Apart == [n \in Node |-> [b \in Batch |-> IF n = n1 THEN 1 ELSE 0]]

\* What the stray publishes in n1's pool of the second batch: an order of the
\* first that it never committed, and one in n2's name without n2's signature.
StrayReveal(b, signed, order) ==
  [kind |-> "reveal", by |-> n3, batch |-> b, pool |-> 1, signed |-> signed, order |-> order]
SecondBatch == FirstBatch + 1
StrayPair ==
  {StrayReveal(SecondBatch, TRUE, [nft |-> n3, batch |-> FirstBatch, idx |-> 1]),
   StrayReveal(SecondBatch, FALSE, [nft |-> n2, batch |-> FirstBatch, idx |-> 1])}

\* And n2's reveal, from the other pool and once more in the third batch.
StrayMix ==
  StrayPair \union
    {StrayReveal(b, TRUE, [nft |-> n2, batch |-> SecondBatch, idx |-> 1]) :
       b \in {SecondBatch, SecondBatch + 1}}
==============================================================================
