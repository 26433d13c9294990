------------------------------ MODULE MCStartup ------------------------------
(* Short command lines and a coarse clock, for TLC. *)
EXTENDS Startup
=============================================================================
