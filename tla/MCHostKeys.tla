------------------------------ MODULE MCHostKeys ------------------------------
(* Three runs of makekey, two crashes and two signatures, for TLC. *)
EXTENDS HostKeys
=============================================================================
