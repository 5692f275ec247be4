--------------------------------- MODULE Cron ---------------------------------
(***************************************************************************)
(* Cron (cron.cpp): in cron mode the original outputs are replaced by a    *)
(* temporary file that holds everything back until there is a reason to    *)
(* show it.  From then on messages go straight to the original outputs.    *)
(*                                                                         *)
(* A Cron is also a ResultHandler and privately a Process: result is its   *)
(* own copy of what happened, kept apart from Application's process_.      *)
(* Each method is one action; ok is the value it returns.                  *)
(***************************************************************************)
EXTENDS StreamOutput, Process

CONSTANT Chunk   \* units read back from the buffer file at a time, min(BUFSIZ, PIPE_BUF)

ASSUME ChunkAssumption == Chunk \in Nat \ {0}

VARIABLES
  buffered,   \* buffered_: the buffer file is open and in use
  report,     \* report_: there is something to report
  spool,      \* content of the buffer file
  result,     \* the Process base of Cron
  notices     \* the lines report() appended to standard error

cronVars == <<buffered, report, spool, result, notices, stream, nonblocking, ioFailed>>

CronInit ==
  /\ buffered = FALSE
  /\ report = FALSE
  /\ spool = <<>>
  /\ result = NewProcess
  /\ notices = <<>>

(* Which units of an n unit buffer file unspool_buffer_file() gets out.    *)
(* The file is read in chunks and each chunk is one write: a failed seek   *)
(* or read gives up on the rest, a failed write loses the tail of its own  *)
(* chunk and the loop goes on with the next one.                           *)
Survivors(n) ==
  UNION {{f \in [1..k -> 1..n] :
            /\ \A i, j \in 1..k : i < j => f[i] < f[j]
            /\ \A i \in 1..k :
                 \/ f[i] % Chunk = 1 % Chunk
                 \/ i > 1 /\ f[i - 1] = f[i] - 1} : k \in 0..n}

(* The possible effects of reading back a buffer file with this content.   *)
Readback(content) ==
  {[out |-> Tagged("STDOUT", content), ok |-> TRUE]} \cup
  {[out |-> Tagged("STDOUT", [i \in DOMAIN f |-> content[f[i]]]), ok |-> FALSE] :
     f \in Survivors(Len(content))}

(* Cron::unspool_buffer_file(), which does nothing unless buffered_.       *)
Unspooled ==
  IF buffered THEN Readback(spool) ELSE {[out |-> <<>>, ok |-> TRUE]}

BufferClosed == buffered' = FALSE /\ spool' = <<>>

(* Cron::unspool_buffer_file() throws, with this content of the buffer     *)
(* file: what came out before stays out, and buffered_ stays set.          *)
UnspoolThrows(held) ==
  /\ buffered
  /\ report' = TRUE
  /\ \E r \in Readback(held) : stream' = stream \o r.out
  /\ spool' = held
  /\ ioFailed' = TRUE
  /\ UNCHANGED <<buffered, notices, nonblocking>>

(* Cron::open() *)
CronOpen(ok) ==
  /\ buffered' = ok
  /\ ioFailed' = (ioFailed \/ ~ok)
  /\ UNCHANGED <<report, spool, result, notices, stream, nonblocking>>

(* Cron::output(), standard output goes to the buffer file and all of it   *)
(* is taken.                                                               *)
CronSpools(type, units, ok) ==
  /\ buffered /\ type = "STDOUT" /\ ok
  /\ spool' = spool \o units
  /\ UNCHANGED <<buffered, report, stream, ioFailed>>

(* Cron::output(), the buffer file takes only part of the message (or none *)
(* of it): everything held is shown and the rest of the message follows.   *)
CronSpoolFails(type, units, ok) ==
  /\ buffered /\ type = "STDOUT" /\ ~ok
  /\ \E ret \in WriteReturns(Len(units)) \ {Len(units)} :
     \E r \in Readback(spool \o SubSeq(units, 1, ret)) :
     \E w \in StreamResults(type, SubSeq(units, IF ret < 0 THEN 1 ELSE ret + 1, Len(units))) :
       stream' = stream \o r.out \o w.out
  /\ report' = TRUE
  /\ ioFailed' = TRUE
  /\ BufferClosed

(* Mutant: the message is written before what was held back.               *)
CronShowsLate(type, units, ok) ==
  /\ type = "STDERR" \/ ~buffered
  /\ \E r \in Unspooled, w \in StreamResults(type, units) :
       /\ stream' = stream \o w.out \o r.out
       /\ ok = (r.ok /\ w.ok)
  /\ ioFailed' = (ioFailed \/ ~ok)
  /\ report' = (report \/ type = "STDERR")
  /\ BufferClosed

(* Cron::output(), standard error shows everything held and goes straight  *)
(* to its descriptor, as does every message once nothing is held back.     *)
CronShows(type, units, ok) ==
  /\ type = "STDERR" \/ ~buffered
  /\ \E r \in Unspooled, w \in StreamResults(type, units) :
       /\ stream' = stream \o r.out \o w.out
       /\ ok = (r.ok /\ w.ok)
  /\ ioFailed' = (ioFailed \/ ~ok)
  /\ report' = (report \/ type = "STDERR")
  /\ BufferClosed

(* Cron::output() *)
CronOutput(type, units, ok) ==
  /\ \/ CronSpools(type, units, ok)
     \/ CronSpoolFails(type, units, ok)
     \/ CronShows(type, units, ok)
  /\ UNCHANGED <<notices, nonblocking>>

(* Cron::output() throws as it prints that the buffer file took only part  *)
(* of the message, before report_ is set.                                  *)
SpoolThrows(held) ==
  /\ buffered
  /\ spool' = held
  /\ ioFailed' = TRUE
  /\ UNCHANGED <<buffered, report, stream, notices, nonblocking>>

(* Cron::output() throws while the buffer file is still in use.            *)
CronOutputThrows(type, units) ==
  \/ type = "STDERR" /\ UnspoolThrows(spool)
  \/ /\ type = "STDOUT"
     /\ \E ret \in WriteReturns(Len(units)) \ {Len(units)} :
          \/ SpoolThrows(spool \o SubSeq(units, 1, ret))
          \/ UnspoolThrows(spool \o SubSeq(units, 1, ret))

(* Mutant: a command killed by a signal, with status -1, is no failure.    *)
CronTerminatedPositive(status, signum) ==
  /\ result' = Terminated(result, status, signum)
  /\ report' = (report \/ status > EXIT_SUCCESS)
  /\ UNCHANGED <<buffered, spool, notices, stream, nonblocking, ioFailed>>

(* Cron::terminated() *)
CronTerminated(status, signum) ==
  /\ result' = Terminated(result, status, signum)
  /\ report' = (report \/ status # EXIT_SUCCESS)
  /\ UNCHANGED <<buffered, spool, notices, stream, nonblocking, ioFailed>>

(* report_ = true and unspool_buffer_file(), result ignored. *)
Reveal ==
  /\ report' = TRUE
  /\ \E r \in Unspooled :
       /\ stream' = stream \o r.out
       /\ ioFailed' = (ioFailed \/ ~r.ok)
  /\ BufferClosed
  /\ UNCHANGED <<notices, nonblocking>>

(* Mutant: Process::interrupted() is not called.                           *)
CronInterruptedForgotten(signum) == Reveal /\ UNCHANGED result

(* Cron::interrupted() *)
CronInterrupted(signum) ==
  /\ result' = Interrupted(result, signum)
  /\ Reveal

(* Cron::error(): errors writing to other output files reveal nothing.     *)
CronError(type) ==
  /\ result' = Error(result, type)
  /\ \/ type # "WRITE_OUTPUT" /\ Reveal
     \/ type = "WRITE_OUTPUT" /\ UNCHANGED <<buffered, report, spool, notices, stream, nonblocking, ioFailed>>

(* Cron::interrupted() and Cron::error() throw in unspool_buffer_file().   *)
CronInterruptedThrows(signum) ==
  /\ result' = Interrupted(result, signum)
  /\ UnspoolThrows(spool)

CronErrorThrows(type) ==
  /\ result' = Error(result, type)
  /\ UnspoolThrows(spool)

(* The lines report() prints: the signal dtee received, then the status or *)
(* the signal the command ended with.                                      *)
ReportLines(p) ==
  (IF p.interrupt_signum >= 0 THEN << <<"received", p.interrupt_signum>> >> ELSE <<>>) \o
  (IF p.exit_status >= 0 THEN << <<"exited", p.exit_status>> >>
   ELSE IF p.exit_signum >= 0 THEN << <<"killed", p.exit_signum>> >> ELSE <<>>)

(* Mutant: report_ is not looked at.                                       *)
CronReportAlways ==
  /\ \E r \in Unspooled :
       /\ stream' = stream \o r.out
       /\ ioFailed' = (ioFailed \/ ~r.ok)
  /\ notices' = ReportLines(result)
  /\ BufferClosed
  /\ UNCHANGED <<report, result, nonblocking>>

(* Cron::report(): silent when the command succeeded and nothing happened. *)
CronReport ==
  IF result.terminated /\ ~report
  THEN UNCHANGED cronVars
  ELSE /\ \E r \in Unspooled :
            /\ stream' = stream \o r.out
            /\ ioFailed' = (ioFailed \/ ~r.ok)
       /\ notices' = ReportLines(result)
       /\ BufferClosed
       /\ UNCHANGED <<report, result, nonblocking>>

CronTypeOK ==
  /\ buffered \in BOOLEAN /\ report \in BOOLEAN
  /\ spool \in Seq(Unit)
  /\ result \in ProcessType
  /\ notices \in Seq({"received", "exited", "killed"} \X Int)
==============================================================================
