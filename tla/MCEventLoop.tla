----------------------------- MODULE MCEventLoop -----------------------------
(* The ways the command ends in the runs of EventLoop: success, failure,   *)
(* and by a signal (SIGINT is replicated).                                 *)
EXTENDS EventLoop

MCEnds == {<<0, -1>>, <<42, -1>>, <<-1, 2>>, <<-1, 9>>}
==============================================================================
