--------------------------- MODULE MCStrategyLink ---------------------------
(* Channels of one message: every sender can find its channel full. *)
EXTENDS StrategyLink
=============================================================================
