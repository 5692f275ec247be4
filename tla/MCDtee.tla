-------------------------------- MODULE MCDtee --------------------------------
(* Output files for the run of Dtee.                                       *)
EXTENDS Dtee

MCFilter == [f \in Files |-> IF f = "out" THEN "STDOUT" ELSE "STDERR"]
==============================================================================
