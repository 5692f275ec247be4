------------------------------- MODULE Process -------------------------------
(***************************************************************************)
(* Process (process.cpp): what is known of how the command ended, and what *)
(* dtee itself makes of it when it exits.  A Process object is a record;   *)
(* each method that changes it is a function from record to record.  The   *)
(* core dump flag only changes the wording of a message and is left out.   *)
(***************************************************************************)
EXTENDS DteeTypes

ProcessType ==
  [terminated       : BOOLEAN,
   exit_status      : ExitCode \cup {-1},
   exit_signum      : SignalNumber \cup {-1},
   interrupt_signum : SignalNumber \cup {-1},
   error            : ErrorType]

NewProcess ==
  [terminated |-> FALSE, exit_status |-> -1, exit_signum |-> -1,
   interrupt_signum |-> -1, error |-> "NONE"]

(* Mutant: the wait status itself is kept, not WEXITSTATUS() of it.        *)
TerminatedRawStatus(p, status, signum) ==
  [p EXCEPT !.terminated = TRUE, !.exit_signum = signum,
            !.exit_status = IF status >= 0 THEN 256 * status ELSE status]

Terminated(p, status, signum) ==
  [p EXCEPT !.terminated = TRUE, !.exit_status = status, !.exit_signum = signum]

Interrupted(p, signum) == [p EXCEPT !.interrupt_signum = signum]

Error(p, type) == [p EXCEPT !.error = type]

ErrorExitCode(type) ==
  CASE type = "OPEN_OUTPUT" -> EX_CANTCREAT
    [] type \in {"OPEN_INPUT", "SIGNAL_HANDLER"} -> EX_UNAVAILABLE
    [] type = "FORK" -> EX_OSERR
    [] type \in {"CLOSE_OUTPUT", "READ_INPUT", "WRITE_OUTPUT"} -> EX_IOERR
    [] type = "EXECUTE_COMMAND" -> EX_NOINPUT
    [] type = "MAIN_LOOP_EXCEPTION" -> EX_SOFTWARE

(* Process::exit_status(): an internal error wins, then a signal received  *)
(* by dtee, then the command's own status or death.                        *)
ExitStatus(p) ==
  IF p.error # "NONE" THEN ErrorExitCode(p.error)
  ELSE IF p.interrupt_signum >= 0 THEN SHELL_EXIT_CODE_SIGNAL + p.interrupt_signum
  ELSE IF p.exit_status >= 0 THEN p.exit_status
  ELSE IF p.exit_signum >= 0 THEN SHELL_EXIT_CODE_SIGNAL + p.exit_signum
  ELSE EX_SOFTWARE

(* Process::exit_by_interrupt(): the signals it raises, unless an earlier  *)
(* one has already killed dtee.                                            *)
Raised(p) ==
  ({p.interrupt_signum} \cap ReplicatedSignals) \cup ({p.exit_signum} \cap {SIGINT})
==============================================================================
