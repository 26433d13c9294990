-------------------------------- MODULE Trial --------------------------------
(***************************************************************************)
(* An algorithm and its input, the one that is being tried.                *)
(***************************************************************************)
VARIABLE trial   \* the name of the algorithm, and the input

Of(name) == trial[1] = name
input == trial[2]
==============================================================================
