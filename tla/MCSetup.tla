------------------------------ MODULE MCSetup ------------------------------
(* Two key pairs, so that a keystore can be replaced once. *)
EXTENDS Setup
=============================================================================
