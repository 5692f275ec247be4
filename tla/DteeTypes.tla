------------------------------ MODULE DteeTypes ------------------------------
(***************************************************************************)
(* The vocabulary shared by every dtee module: the two logical output      *)
(* streams, the kinds of internal error, the signals dtee knows about and  *)
(* the sysexits.h codes it may return.                                     *)
(***************************************************************************)
EXTENDS Integers

OutputType == {"STDOUT", "STDERR"}

(* Data are units: a unit is a run of bytes the command wrote in one call, *)
(* known by the stream it was written to and its place in the order of     *)
(* everything the command wrote.  A message of several units can be cut    *)
(* short between them.                                                     *)
Unit == [type : OutputType, seq : Nat]

FileOutputType == OutputType \cup {"COMBINED"}

ErrorType ==
  {"NONE", "CLOSE_OUTPUT", "EXECUTE_COMMAND", "FORK", "MAIN_LOOP_EXCEPTION",
   "OPEN_INPUT", "OPEN_OUTPUT", "READ_INPUT", "SIGNAL_HANDLER", "WRITE_OUTPUT"}

(* Signal numbers of the platform's <signal.h> (Linux values). *)
SIGHUP  == 1
SIGINT  == 2
SIGPIPE == 13
SIGTERM == 15
SIGCHLD == 17
SignalNumber == 1..64

(* The signals exit_by_interrupt() may replicate. *)
ReplicatedSignals == {SIGHUP, SIGINT, SIGPIPE, SIGTERM}

(* Exit codes: a command's status is one byte, 128 + n reports signal n. *)
EXIT_SUCCESS           == 0
ExitCode               == 0..255
SHELL_EXIT_CODE_SIGNAL == 128
EX_NOINPUT             == 66
EX_UNAVAILABLE         == 69
EX_SOFTWARE            == 70
EX_OSERR               == 71
EX_CANTCREAT           == 73
EX_IOERR               == 74
==============================================================================
