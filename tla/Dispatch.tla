------------------------------- MODULE Dispatch -------------------------------
(***************************************************************************)
(* Dispatch (dispatch.cpp) with everything behind it, and the order in     *)
(* which Application::run() uses it: open the outputs, set up the input    *)
(* and the signal handling, pass on messages and events while the main     *)
(* loop runs, report, and exit.                                            *)
(*                                                                         *)
(* What Input and SignalHandler would call, and when, is left open here:   *)
(* any message or event may come next.  EventLoop says what really comes.  *)
(***************************************************************************)
EXTENDS Cron, FileOutput

CONSTANTS
  Modes,             \* which values of cron_mode() are considered
  StartNonblocking,  \* the descriptors dtee is started with in O_NONBLOCK mode
  ExitCodes,         \* exit codes of the command
  DeathSignals,      \* signals that terminate the command
  SentSignals,       \* signals somebody else sends to dtee
  MaxUnits,          \* bound: units the command writes altogether
  MaxLength          \* bound: units in one message (0 is an empty message)

ASSUME DispatchAssumption ==
  /\ Modes \subseteq BOOLEAN
  /\ StartNonblocking \subseteq OutputType
  /\ ExitCodes \subseteq ExitCode
  /\ DeathSignals \subseteq SignalNumber
  /\ SentSignals \subseteq SignalNumber
  /\ MaxUnits \in Nat /\ MaxLength \in Nat

VARIABLES
  cron_mode,  \* CommandLine::cron_mode()
  phase,      \* how far Application::run() has come
  process,    \* Application's process_
  looping,    \* io_context::stop() has not been called
  received,   \* history: the stream of every unit received, in order
  alarms,     \* history: what came besides standard output, see Alarm
  outcome     \* how dtee ended

vars == <<cronVars, fileVars, cron_mode, phase, process, looping, received, alarms, outcome>>

(* Only in cron mode does dtee catch the four, see SignalHandler::open().  *)
(* SIGCHLD interrupts when waitpid() has no status to give.                *)
InterruptSignals ==
  {SIGCHLD} \cup (IF cron_mode THEN SentSignals \cap ReplicatedSignals ELSE {})

(* A message on standard error, an error other than in an output file, and *)
(* one that may have lost a message.                                       *)
AlarmType == {"STDERR", "ERROR", "EXCEPTION"}
Alarm(type) == IF type = "MAIN_LOOP_EXCEPTION" THEN "EXCEPTION" ELSE "ERROR"

Running == [status |-> -1, signal |-> -1]
Exited(status) == [status |-> status, signal |-> -1]
Killed(signum) == [status |-> -1, signal |-> signum]

Init ==
  /\ CronInit
  /\ FilesInit
  /\ stream = <<>>
  /\ nonblocking = StartNonblocking
  /\ ioFailed = FALSE
  /\ cron_mode \in Modes
  /\ phase = "open"
  /\ process = NewProcess
  /\ looping = TRUE
  /\ received = <<>>
  /\ alarms = {}
  /\ outcome = Running
------------------------------------------------------------------------------
(* The first of outputs_: Cron in cron mode, the original outputs if not.  *)
FirstOpen(ok) ==
  IF cron_mode THEN CronOpen(ok)
  ELSE StreamOpen(ok) /\ UNCHANGED <<buffered, report, spool, result, notices>>

FirstOutput(type, units, ok) ==
  IF cron_mode THEN CronOutput(type, units, ok)
  ELSE StreamOnly(type, units, ok) /\ UNCHANGED <<buffered, report, spool, notices>>

(* Dispatch::error(): to process_, and in cron mode to Cron as well.       *)
DispatchError(type) ==
  /\ process' = Error(process, type)
  /\ IF cron_mode THEN CronError(type) ELSE UNCHANGED cronVars
  /\ alarms' = alarms \cup {Alarm(type)}

(* Dispatch::open() up to its call of error(): every output is opened,     *)
(* whatever became of the ones before it.                                  *)
Open ==
  /\ phase = "open"
  /\ \E ok1, ok2 \in BOOLEAN :
       /\ FirstOpen(ok1)
       /\ FilesOpen(ok2)
       /\ phase' = IF ok1 /\ ok2 THEN "setup" ELSE "openFailed"
  /\ UNCHANGED <<cron_mode, process, looping, received, alarms, outcome>>

(* Without cron mode, run() returns now. *)
GiveUp(p) == IF cron_mode THEN outcome' = outcome ELSE outcome' = Exited(ExitStatus(p))

(* Dispatch::open(), error(OPEN_OUTPUT): in cron mode dtee carries on.     *)
OpenFails ==
  /\ phase = "openFailed"
  /\ DispatchError("OPEN_OUTPUT")
  /\ phase' = IF cron_mode THEN "setup" ELSE "exited"
  /\ GiveUp(process')
  /\ UNCHANGED <<fileVars, cron_mode, looping, received>>

(* Input::open() or SignalHandler::open() fails.  In cron mode dtee then   *)
(* becomes the command, with its own outputs.                              *)
SetupFails ==
  /\ phase = "setup"
  /\ \E type \in {"OPEN_INPUT", "SIGNAL_HANDLER"} : DispatchError(type)
  /\ phase' = IF cron_mode THEN "execute" ELSE "exited"
  /\ GiveUp(process')
  /\ UNCHANGED <<fileVars, cron_mode, looping, received>>

(* Application::fork() fails: only process_ is told. *)
ForkFails ==
  /\ phase = "setup"
  /\ process' = Error(process, "FORK")
  /\ alarms' = alarms \cup {Alarm("FORK")}
  /\ phase' = IF cron_mode THEN "execute" ELSE "exited"
  /\ GiveUp(process')
  /\ UNCHANGED <<cronVars, fileVars, cron_mode, looping, received>>

(* fork() succeeds; SignalHandler::start() follows in the parent.          *)
ForkSucceeds ==
  /\ phase = "setup"
  /\ phase' = "forked"
  /\ UNCHANGED <<cronVars, fileVars, cron_mode, process, looping, received, alarms, outcome>>

(* Input::fork_parent(): close_outputs() may fail, dtee carries on.        *)
CloseFails ==
  /\ phase = "forked"
  /\ DispatchError("CLOSE_OUTPUT")
  /\ UNCHANGED <<fileVars, cron_mode, phase, looping, received, outcome>>

(* Input::start() and main_loop().                                         *)
StartLoop ==
  /\ phase = "forked"
  /\ phase' = "loop"
  /\ UNCHANGED <<cronVars, fileVars, cron_mode, process, looping, received, alarms, outcome>>
------------------------------------------------------------------------------
(* The next units the command wrote, all of them to one stream.            *)
Message(type, len) ==
  [i \in 1..len |-> [type |-> type, seq |-> Len(received) + i]]

Receive(type, len) ==
  /\ Len(received) + len <= MaxUnits
  /\ received' = received \o [i \in 1..len |-> type]

(* Mutant: success is what the last output returned.                       *)
DispatchOutputLast(type, units) ==
  \E ok1, ok2 \in BOOLEAN :
    /\ FirstOutput(type, units, ok1)
    /\ FilesOutput(type, units, ok2)
    /\ IF ok2
       THEN UNCHANGED <<process, result>>
       ELSE /\ process' = Error(process, "WRITE_OUTPUT")
            /\ result' = IF cron_mode THEN Error(result, "WRITE_OUTPUT") ELSE result

(* Mutant: success = success && output->output(...), as in a short-circuit.*)
DispatchOutputShort(type, units) ==
  \E ok1, ok2 \in BOOLEAN :
    /\ FirstOutput(type, units, ok1)
    /\ IF ok1 THEN FilesOutput(type, units, ok2) ELSE ~ok2 /\ UNCHANGED fileVars
    /\ IF ok2
       THEN UNCHANGED <<process, result>>
       ELSE /\ process' = Error(process, "WRITE_OUTPUT")
            /\ result' = IF cron_mode THEN Error(result, "WRITE_OUTPUT") ELSE result

(* Dispatch::output(): every output gets the message whatever the ones     *)
(* before it returned, and one error(WRITE_OUTPUT) stands for all.         *)
DispatchOutput(type, units) ==
  \E ok1, ok2 \in BOOLEAN :
    /\ FirstOutput(type, units, ok1)
    /\ FilesOutput(type, units, ok2)
    /\ IF ok1 /\ ok2
       THEN UNCHANGED <<process, result>>
       ELSE /\ process' = Error(process, "WRITE_OUTPUT")
            /\ result' = IF cron_mode THEN Error(result, "WRITE_OUTPUT") ELSE result

Output(type, len) ==
  /\ phase = "loop"
  /\ Receive(type, len)
  /\ DispatchOutput(type, Message(type, len))
  /\ alarms' = alarms \cup ({type} \cap {"STDERR"})
  /\ UNCHANGED <<cron_mode, phase, looping, outcome>>

(* Dispatch::terminated(); handle_child_exited() runs once and then calls  *)
(* io_->stop().                                                            *)
CommandTerminated(status, signum) ==
  /\ phase = "loop"
  /\ ~process.terminated
  /\ process' = Terminated(process, status, signum)
  /\ IF cron_mode THEN CronTerminated(status, signum) ELSE UNCHANGED cronVars
  /\ looping' = FALSE
  /\ UNCHANGED <<fileVars, cron_mode, phase, received, alarms, outcome>>

(* Dispatch::interrupted(), followed by io_->stop(). *)
DteeInterrupted(signum) ==
  /\ phase = "loop"
  /\ process' = Interrupted(process, signum)
  /\ IF cron_mode THEN CronInterrupted(signum) ELSE UNCHANGED cronVars
  /\ looping' = FALSE
  /\ UNCHANGED <<fileVars, cron_mode, phase, received, alarms, outcome>>

(* handle_receive_from() gets an error and calls io_->stop().              *)
ReadFails ==
  /\ phase = "loop"
  /\ DispatchError("READ_INPUT")
  /\ looping' = FALSE
  /\ UNCHANGED <<fileVars, cron_mode, phase, received, outcome>>

(* An exception leaves the main loop at once.  What the handler that threw *)
(* had done before it did stays done.                                      *)
Throw ==
  /\ phase = "loop"
  /\ phase' = "threw"
  /\ UNCHANGED <<cron_mode, looping, outcome>>

(* ... in the reactor, or in a handler before it has done anything.        *)
LoopThrows ==
  /\ Throw
  /\ alarms' = alarms \cup {"EXCEPTION"}
  /\ UNCHANGED <<cronVars, fileVars, process, received>>

(* ... in handle_receive_from(), with a message that no output has had,    *)
(* that the first output or some of the files are just having (all of      *)
(* these throw as they print an error, the first one also when it reads    *)
(* back the buffer file), or that all have had.                            *)
OutputThrows(type, len) ==
  /\ Throw
  /\ Receive(type, len)
  /\ \/ UNCHANGED <<cronVars, fileVars, process>>
     \/ /\ \/ cron_mode /\ CronOutputThrows(type, Message(type, len))
           \/ FirstOutput(type, Message(type, len), FALSE)
        /\ UNCHANGED <<fileVars, process, result>>
     \/ /\ \E ok \in BOOLEAN : FirstOutput(type, Message(type, len), ok)
        /\ FilesOutputThrows(type, Message(type, len))
        /\ UNCHANGED <<process, result>>
     \/ DispatchOutput(type, Message(type, len))
  /\ alarms' = alarms \cup ({type} \cap {"STDERR"}) \cup {"EXCEPTION"}

(* ... in Dispatch::error(), called by handle_receive_from().              *)
ReadFailsThrows ==
  /\ Throw
  /\ process' = Error(process, "READ_INPUT")
  /\ cron_mode /\ CronErrorThrows("READ_INPUT")
  /\ alarms' = alarms \cup {"ERROR", "EXCEPTION"}
  /\ UNCHANGED <<fileVars, received>>

(* ... in or after Dispatch::interrupted().                                *)
InterruptedThrows(signum) ==
  /\ Throw
  /\ process' = Interrupted(process, signum)
  /\ IF cron_mode
     THEN CronInterrupted(signum) \/ CronInterruptedThrows(signum)
     ELSE UNCHANGED cronVars
  /\ alarms' = alarms \cup {"EXCEPTION"}
  /\ UNCHANGED <<fileVars, received>>

(* ... in handle_child_exited(), after Dispatch::terminated().             *)
TerminatedThrows(status, signum) ==
  /\ Throw
  /\ ~process.terminated
  /\ process' = Terminated(process, status, signum)
  /\ IF cron_mode THEN CronTerminated(status, signum) ELSE UNCHANGED cronVars
  /\ alarms' = alarms \cup {"EXCEPTION"}
  /\ UNCHANGED <<fileVars, received>>

(* main_loop() catches it.  A readback that was interrupted begins again.  *)
MainLoopException ==
  /\ phase = "threw"
  /\ DispatchError("MAIN_LOOP_EXCEPTION")
  /\ phase' = "looped"
  /\ UNCHANGED <<fileVars, cron_mode, looping, received, outcome>>

(* main_loop() returns once stopped, with nothing left to do.              *)
LoopEnds ==
  /\ phase = "loop" /\ ~looping
  /\ phase' = "looped"
  /\ UNCHANGED <<cronVars, fileVars, cron_mode, process, looping, received, alarms, outcome>>

Report ==
  /\ phase = "looped"
  /\ IF cron_mode THEN CronReport ELSE UNCHANGED cronVars
  /\ phase' = "reported"
  /\ UNCHANGED <<fileVars, cron_mode, process, looping, received, alarms, outcome>>

(* exit_by_interrupt() and, when raise() did not kill dtee, exit_status(). *)
Exit ==
  /\ phase = "reported"
  /\ \/ \E signum \in Raised(process) : outcome' = Killed(signum)
     \/ outcome' = Exited(ExitStatus(process))
  /\ phase' = "exited"
  /\ UNCHANGED <<cronVars, fileVars, cron_mode, process, looping, received, alarms>>

(* dtee has exited, or has become the command.                             *)
Done == phase \in {"exited", "execute"} /\ UNCHANGED vars

Next ==
  \/ Open \/ OpenFails \/ SetupFails \/ ForkFails \/ ForkSucceeds
  \/ CloseFails \/ StartLoop
  \/ \E type \in OutputType, len \in 0..MaxLength :
       Output(type, len) \/ OutputThrows(type, len)
  \/ \E status \in ExitCodes : CommandTerminated(status, -1) \/ TerminatedThrows(status, -1)
  \/ \E signum \in DeathSignals : CommandTerminated(-1, signum) \/ TerminatedThrows(-1, signum)
  \/ \E signum \in InterruptSignals : DteeInterrupted(signum) \/ InterruptedThrows(signum)
  \/ ReadFails \/ ReadFailsThrows \/ LoopThrows \/ MainLoopException
  \/ LoopEnds \/ Report \/ Exit \/ Done

Spec == Init /\ [][Next]_vars
------------------------------------------------------------------------------
TypeOK ==
  /\ StreamTypeOK /\ CronTypeOK /\ FilesTypeOK
  /\ process \in ProcessType
  /\ cron_mode \in BOOLEAN /\ looping \in BOOLEAN
  /\ phase \in {"open", "openFailed", "setup", "execute", "forked", "loop",
                "threw", "looped", "reported", "exited"}
  /\ received \in Seq(OutputType)
  /\ alarms \subseteq AlarmType
  /\ outcome \in [status : ExitCode \cup {-1}, signal : SignalNumber \cup {-1}]

InSequence(s) == \A i, j \in DOMAIN s : i < j => s[i].seq < s[j].seq
Holds(s, n) == \E i \in DOMAIN s : s[i].seq = n

(* In order from the beginning up to some place, and again from there.     *)
Restarts(s) ==
  \E k \in 0..Len(s) :
    \A i, j \in DOMAIN s : i < j /\ (j <= k \/ i > k) => s[i].seq < s[j].seq

(* The original outputs show what the command wrote in the order it wrote  *)
(* it, across both streams, nothing twice, each unit on its own stream:    *)
(* also when it was held in the buffer file, when a write to the buffer    *)
(* file was cut short, and when parts were lost to errors.  Only an        *)
(* exception in the middle of reading back the buffer file makes cron mode *)
(* show it from its beginning again, and that at most once.                *)
ShownInOrder ==
  /\ IF cron_mode /\ "EXCEPTION" \in alarms THEN Restarts(stream) ELSE InSequence(stream)
  /\ \A i \in DOMAIN stream :
       /\ stream[i].seq \in 1..Len(received)
       /\ stream[i].fd = received[stream[i].seq]

(* dtee never returns success with output missing: everything received is  *)
(* then in every file that should have it, and has been shown unless it    *)
(* is all still held back.  Whatever failed on the way must have been      *)
(* recorded, although unspool_buffer_file()'s result is often ignored.     *)
NoSilentLoss ==
  outcome.status = EXIT_SUCCESS =>
    \A n \in 1..Len(received) :
      /\ buffered \/ Holds(stream, n)
      /\ \A f \in Files : Takes(f, received[n]) => Holds(content[f], n)

(* An output file misses only what it failed to write itself: no failure   *)
(* of another output, the buffer file or the original outputs keeps a      *)
(* message from it.                                                        *)
FilesIndependent ==
  "EXCEPTION" \notin alarms =>
    \A f \in Files \ hurt, n \in 1..Len(received) :
      Takes(f, received[n]) <=> Holds(content[f], n)

(* When the command succeeds without a message on standard error, dtee is  *)
(* not interrupted and no error other than in an output file occurred,     *)
(* cron mode shows nothing of the command's output and no line of the      *)
(* report.  (The messages that dtee itself prints about such an output     *)
(* file come out all the same.)                                            *)
QuietOnSuccess ==
  /\ cron_mode /\ phase = "exited"
  /\ process.exit_status = EXIT_SUCCESS /\ process.interrupt_signum < 0
  /\ alarms = {} /\ ~ioFailed
  => stream = <<>> /\ notices = <<>>

(* Cron mode shows everything, and the command's exit code after it, when  *)
(* the command fails, is killed, or writes to standard error (and dtee's   *)
(* own I/O works).                                                         *)
RevealedOnFailure ==
  /\ cron_mode /\ phase = "exited" /\ ~ioFailed
  /\ "EXCEPTION" \notin alarms
  /\ process.terminated
  /\ process.exit_status # EXIT_SUCCESS \/ "STDERR" \in alarms
  => /\ \A n \in 1..Len(received) : Holds(stream, n)
     /\ IF process.exit_status >= 0
        THEN \E i \in DOMAIN notices : notices[i] = <<"exited", process.exit_status>>
        ELSE \E i \in DOMAIN notices : notices[i] = <<"killed", process.exit_signum>>

(* The original outputs are never written to in non-blocking mode: the     *)
(* main loop starts after StreamOutput::open() made them blocking.         *)
StreamsBlocking == phase = "loop" => nonblocking = {}

(* What Cron reports and what dtee exits with are the same story: Cron's   *)
(* own Process never differs from process_ while both exist.               *)
ReportAgrees == cron_mode /\ phase # "execute" => result = process
==============================================================================
