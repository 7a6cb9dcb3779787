----------------------------- MODULE MCReceiving ----------------------------
(* Finite instances of Receiving for TLC: see the .cfg files.              *)
EXTENDS Receiving
=============================================================================
