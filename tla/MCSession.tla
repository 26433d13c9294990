------------------------------ MODULE MCSession ------------------------------
(* A connection with a small client, for TLC. *)
EXTENDS Session
=============================================================================
