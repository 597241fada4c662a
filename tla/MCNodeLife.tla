----------------------------- MODULE MCNodeLife -----------------------------
(* Batches of two or three blocks; every schedule comes round several times. *)
EXTENDS NodeLife
=============================================================================
