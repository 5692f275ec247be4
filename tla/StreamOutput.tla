----------------------------- MODULE StreamOutput -----------------------------
(***************************************************************************)
(* StreamOutput (stream_output.cpp): dtee's own standard output and        *)
(* standard error, the "original" outputs.                                 *)
(***************************************************************************)
EXTENDS DteeTypes, Sequences

(* A unit that was written to one of the two descriptors. *)
Shown == [fd : OutputType, type : OutputType, seq : Nat]

VARIABLES
  stream,       \* what reached dtee's stdout and stderr, in the order of the writes
  nonblocking,  \* which of the two descriptors have O_NONBLOCK set
  ioFailed      \* history: a call on the original outputs or the buffer file failed

(* What one write() of n units may return: an error (-1), or how many were *)
(* taken.  Only n is success; anything less is treated as an error.        *)
WriteReturns(n) == -1..n

(* Units of the message written through descriptor fd. *)
Tagged(fd, units) ==
  [i \in 1..Len(units) |-> [fd |-> fd, type |-> units[i].type, seq |-> units[i].seq]]

(* StreamOutput::output(): one write, never resumed.  The set of possible  *)
(* effects on the descriptor with the value returned.                      *)
StreamResults(fd, units) ==
  {[out |-> Tagged(fd, SubSeq(units, 1, ret)), ok |-> ret = Len(units)] :
     ret \in WriteReturns(Len(units))}

(* Mutant: only stdout is made blocking.                                   *)
StreamOpenStdoutOnly(ok) ==
  /\ ok /\ nonblocking' = nonblocking \ {"STDOUT"}
  /\ UNCHANGED <<stream, ioFailed>>

(* StreamOutput::open(): set_blocking() on stdout, then on stderr.         *)
StreamOpen(ok) ==
  /\ \/ ok /\ nonblocking' = {}
     \/ ~ok /\ nonblocking' \in {nonblocking, nonblocking \ {"STDOUT"}}
  /\ ioFailed' = (ioFailed \/ ~ok)
  /\ UNCHANGED stream

(* The outputs of dtee without cron mode: every message goes straight to   *)
(* the descriptor it was written to.                                       *)
StreamOnly(type, units, ok) ==
  /\ \E w \in StreamResults(type, units) :
       /\ stream' = stream \o w.out
       /\ ok = w.ok
  /\ ioFailed' = (ioFailed \/ ~ok)
  /\ UNCHANGED nonblocking

StreamTypeOK ==
  /\ stream \in Seq(Shown)
  /\ nonblocking \in SUBSET OutputType
  /\ ioFailed \in BOOLEAN
==============================================================================
