------------------------------ MODULE MCDispatch ------------------------------
(* Output files for the runs of Dispatch: one for standard output that is  *)
(* overwritten, and one for both streams that is appended to.              *)
EXTENDS Dispatch

TwoFiles == {"out", "combined"}
OneFile == {"combined"}
MCFilter == [f \in Files |-> IF f = "out" THEN "STDOUT" ELSE "COMBINED"]
==============================================================================
