---------------------------- MODULE MatchingNodes ----------------------------
(***************************************************************************)
(* Two nodes that hold the same reveals, received in different orders, run *)
(* the matching engine independently.  Variables with the prefix peer_ are *)
(* those of the second node.                                               *)
(***************************************************************************)
EXTENDS Matching

VARIABLES peer_arrival, peer_todo, peer_buys, peer_sells, peer_buy_idx,
          peer_sell_idx, peer_buy_remaining, peer_sell_remaining, peer_matches

peerVars == <<peer_arrival, peer_todo, peer_buys, peer_sells, peer_buy_idx,
              peer_sell_idx, peer_buy_remaining, peer_sell_remaining, peer_matches>>

Peer == INSTANCE Matching WITH
  arrival <- peer_arrival, todo <- peer_todo, buys <- peer_buys,
  sells <- peer_sells, buy_idx <- peer_buy_idx, sell_idx <- peer_sell_idx,
  buy_remaining <- peer_buy_remaining, sell_remaining <- peer_sell_remaining,
  matches <- peer_matches

\* The second node holds a rearrangement of the first one's reveals.
SameReveals ==
  peer_arrival \in {[i \in DOMAIN arrival |-> arrival[p[i]]] :
                      p \in Bijection(DOMAIN arrival, DOMAIN arrival)}

NodesInit ==
  /\ Init
  /\ SameReveals
  /\ peer_todo = todo
  /\ peer_buys = <<>> /\ peer_sells = <<>>
  /\ peer_buy_idx = 1 /\ peer_sell_idx = 1
  /\ peer_buy_remaining = 0 /\ peer_sell_remaining = 0
  /\ peer_matches = <<>>

\* The two calls share nothing, so the order of their turns makes no difference:
\* they take them together, and a node that has finished waits for the other.
NodeStep == Next \/ (Done /\ UNCHANGED matchVars)
PeerStep == Peer!Next \/ (Peer!Done /\ UNCHANGED peerVars)

NodesNext == NodeStep /\ PeerStep

\* Each call of run_matching runs to its end on its own node.
NodesSpec ==
  /\ NodesInit /\ [][NodesNext]_<<matchVars, peerVars>>
  /\ WF_<<matchVars, peerVars>>(NodesNext)

\* Every node with the same revealed orders produces the same match list,
\* whatever the order in which the reveals arrived.
NodesAgree == Done /\ Peer!Done => matches = peer_matches

\* The loop ends: every turn passes over or exhausts an order.
MatchingEnds == <>(Done /\ Peer!Done)
=============================================================================
