------------------------------ MODULE EventLoop ------------------------------
(***************************************************************************)
(* The main loop of dtee (application.cpp) with the handlers it runs:      *)
(* SignalHandler (signal_handler.cpp) and Input (input.cpp), between the   *)
(* fork and the exit of dtee, next to the processes it serves: the         *)
(* command, whatever the command leaves running in the background, and     *)
(* anybody who sends dtee a signal.                                        *)
(*                                                                         *)
(* The loop runs one handler at a time.  Data waiting in the socket and    *)
(* signals caught meanwhile are handled in any order.  What the outputs do *)
(* with a message is left to Dispatch: here it is counted.                 *)
(***************************************************************************)
EXTENDS Process, Sequences

CONSTANTS
  Modes,             \* values of handle_signals_, which is set in cron mode
  IgnoreInterrupts,  \* ignore_sigint_
  Stoppable,         \* the command may be stopped and continued (job control)
  Background,        \* the command may leave another writer behind
  Ends,              \* <<exit status, signal>>: the ways the command may end
  SentSignals,       \* signals somebody else sends to dtee, each at most once
  MaxWrites,         \* bound: messages the command writes
  Capacity           \* messages the input socket holds

ASSUME EventLoopAssumption ==
  /\ Modes \subseteq BOOLEAN /\ IgnoreInterrupts \in BOOLEAN
  /\ Stoppable \in BOOLEAN /\ Background \in BOOLEAN
  /\ Ends \subseteq (ExitCode \X {-1}) \cup ({-1} \X SignalNumber)
  /\ SentSignals \subseteq SignalNumber \ {SIGCHLD}
  /\ MaxWrites \in Nat /\ Capacity \in Nat \ {0}

VARIABLES
  cron_mode,   \* handle_signals_
  child,       \* the command
  background,  \* there is a writer in the background
  written,     \* messages the command has written
  ended,       \* how the command ended
  socket,      \* the input socket: n for message n of the command, 0 for others
  delivered,   \* history: messages of the command passed on to the outputs
  handled,     \* the signals dtee has a handler for
  caught,      \* signals whose handler in the loop has not been run yet
  sent,        \* history: the signals sent to dtee
  receiving,   \* an async_receive_from() is outstanding
  stopped,     \* io.stopped()
  ran,         \* the current io.poll() has run a handler
  phase,       \* how far Application::run() has come
  process      \* process_

commandVars == <<child, background, written, ended>>
loopVars == <<receiving, stopped, ran>>
vars ==
  <<cron_mode, commandVars, socket, delivered, handled, caught, sent, loopVars, phase, process>>

(* interrupt_signals_ and, in cron mode only, pipe_signal_.                *)
InterruptSignals ==
  IF cron_mode
  THEN {SIGHUP, SIGTERM} \cup (IF IgnoreInterrupts THEN {} ELSE {SIGINT})
  ELSE {}
PipeSignals == IF cron_mode THEN {SIGPIPE} ELSE {}

(* SignalHandler::open(), with ignored_signals_ as the last. *)
Handled ==
  {SIGCHLD} \cup InterruptSignals \cup PipeSignals
    \cup (IF IgnoreInterrupts THEN {SIGINT} ELSE {})

(* fork() has returned in the parent: the handlers are in place and their  *)
(* signals blocked, so that they stay pending until start().  In cron mode *)
(* an output may have failed to open.                                      *)
Init ==
  /\ cron_mode \in Modes
  /\ child = "running" /\ background = FALSE
  /\ written = 0 /\ ended = <<-1, -1>>
  /\ socket = <<>> /\ delivered = 0
  /\ handled = Handled /\ caught = {} /\ sent = {}
  /\ receiving = FALSE /\ stopped = FALSE /\ ran = FALSE
  /\ phase = "forked"
  /\ process \in {NewProcess} \cup (IF cron_mode THEN {Error(NewProcess, "OPEN_OUTPUT")} ELSE {})

Gone == phase \in {"exited", "killed"}
------------------------------------------------------------------------------
(* The processes around dtee.                                              *)

(* A datagram is sent whole, once there is room for it. *)
Send(message) ==
  /\ ~Gone /\ Len(socket) < Capacity
  /\ socket' = Append(socket, message)

CommandWrites ==
  /\ child = "running" /\ written < MaxWrites
  /\ Send(written + 1)
  /\ written' = written + 1
  /\ UNCHANGED <<cron_mode, child, background, ended, delivered, handled, caught, sent,
                 loopVars, phase, process>>

CommandForks ==
  /\ Background /\ child = "running"
  /\ background' = TRUE
  /\ UNCHANGED <<cron_mode, child, written, ended, socket, delivered, handled, caught,
                 sent, loopVars, phase, process>>

BackgroundWrites ==
  /\ background
  /\ Send(0)
  /\ UNCHANGED <<cron_mode, commandVars, delivered, handled, caught, sent, loopVars, phase,
                 process>>

BackgroundEnds ==
  /\ background
  /\ background' = FALSE
  /\ UNCHANGED <<cron_mode, child, written, ended, socket, delivered, handled, caught,
                 sent, loopVars, phase, process>>

(* The kernel sends SIGCHLD when a child stops, continues or ends: there   *)
(* is no SA_NOCLDSTOP.  Without a handler it is ignored.                   *)
ChildSignal == caught' = caught \cup ({SIGCHLD} \cap handled)

CommandEnds ==
  /\ child \in {"running", "stopped"}
  /\ child' = "zombie"
  /\ ended' \in Ends
  /\ child = "stopped" => ended'[1] < 0
  /\ ChildSignal
  /\ UNCHANGED <<cron_mode, background, written, socket, delivered, handled, sent,
                 loopVars, phase, process>>

CommandStops ==
  /\ Stoppable /\ child = "running"
  /\ child' = "stopped"
  /\ ChildSignal
  /\ UNCHANGED <<cron_mode, background, written, ended, socket, delivered, handled, sent,
                 loopVars, phase, process>>

CommandContinues ==
  /\ child = "stopped"
  /\ child' = "running"
  /\ ChildSignal
  /\ UNCHANGED <<cron_mode, background, written, ended, socket, delivered, handled, sent,
                 loopVars, phase, process>>

(* A signal is caught, or kills dtee. *)
SendSignal(signum) ==
  /\ ~Gone /\ signum \notin sent
  /\ sent' = sent \cup {signum}
  /\ IF signum \in handled
     THEN caught' = caught \cup {signum} /\ UNCHANGED phase
     ELSE phase' = "killed" /\ UNCHANGED caught
  /\ UNCHANGED <<cron_mode, commandVars, socket, delivered, handled, loopVars, process>>
------------------------------------------------------------------------------
(* Input::fork_parent(): close_outputs() may fail, dtee carries on.        *)
CloseFails ==
  /\ phase = "forked"
  /\ process' = Error(process, "CLOSE_OUTPUT")
  /\ UNCHANGED <<cron_mode, commandVars, socket, delivered, handled, caught, sent,
                 loopVars, phase>>

(* Mutant: signals that came before start() are lost.                      *)
StartLate ==
  /\ phase = "forked"
  /\ phase' = "run"
  /\ receiving' = TRUE /\ caught' = {}
  /\ UNCHANGED <<cron_mode, commandVars, socket, delivered, handled, sent, stopped, ran,
                 process>>

(* SignalHandler::start(), which unblocks the signals, Input::start() and  *)
(* the first io.run().                                                     *)
Start ==
  /\ phase = "forked"
  /\ phase' = "run"
  /\ receiving' = TRUE
  /\ UNCHANGED <<cron_mode, commandVars, socket, delivered, handled, caught, sent, stopped,
                 ran, process>>

(* A handler can run. *)
Looping == phase \in {"run", "poll"} /\ ~stopped

(* Mutant: the next receive is not started.                                *)
ReceiveOnce ==
  /\ Looping /\ receiving /\ socket # <<>>
  /\ socket' = Tail(socket)
  /\ delivered' = IF Head(socket) > 0 THEN Head(socket) ELSE delivered
  /\ receiving' = FALSE /\ ran' = TRUE
  /\ UNCHANGED <<cron_mode, commandVars, handled, caught, sent, stopped, phase, process>>

(* Input::handle_receive_from(), where some output may fail. *)
Receive ==
  /\ Looping /\ receiving /\ socket # <<>>
  /\ socket' = Tail(socket)
  /\ delivered' = IF Head(socket) > 0 THEN Head(socket) ELSE delivered
  /\ ran' = TRUE
  /\ process' \in {process, Error(process, "WRITE_OUTPUT")}
  /\ UNCHANGED <<cron_mode, commandVars, handled, caught, sent, receiving, stopped, phase>>

(* Mutant: the error is not recorded.                                      *)
ReceiveFailsSilently ==
  /\ Looping /\ receiving
  /\ receiving' = FALSE /\ stopped' = TRUE /\ ran' = TRUE
  /\ UNCHANGED <<cron_mode, commandVars, socket, delivered, handled, caught, sent, phase,
                 process>>

(* Input::handle_receive_from() with an error: nothing more is received.   *)
ReceiveFails ==
  /\ Looping /\ receiving
  /\ process' = Error(process, "READ_INPUT")
  /\ receiving' = FALSE /\ stopped' = TRUE /\ ran' = TRUE
  /\ UNCHANGED <<cron_mode, commandVars, socket, delivered, handled, caught, sent, phase>>

(* waitpid() with what follows: the command has ended, or waitpid() has    *)
(* nothing to say.                                                         *)
WaitForChild ==
  /\ SIGCHLD \in caught
  /\ IF child = "zombie"
     THEN child' = "reaped" /\ process' = Terminated(process, ended[1], ended[2])
     ELSE UNCHANGED child /\ process' = Interrupted(process, SIGCHLD)
  /\ caught' = caught \ {SIGCHLD}

(* SignalHandler::handle_child_exited(): either way no other SIGCHLD is    *)
(* awaited.                                                                *)
ChildExited ==
  /\ Looping
  /\ WaitForChild
  /\ handled' = handled \ {SIGCHLD}
  /\ stopped' = TRUE /\ ran' = TRUE
  /\ UNCHANGED <<cron_mode, background, written, ended, socket, delivered, sent, receiving,
                 phase>>

(* Mutant: the set is cleared with the signal, like child_exited_.         *)
InterruptClears(signum) ==
  /\ Looping /\ signum \in caught
  /\ process' = Interrupted(process, signum)
  /\ caught' = caught \ (InterruptSignals \cup {signum})
  /\ stopped' = TRUE /\ ran' = TRUE
  /\ UNCHANGED <<cron_mode, commandVars, socket, delivered, handled, sent, receiving, phase>>

(* SignalHandler::handle_interrupt_signals() and handle_pipe_signal()      *)
Interrupt(signum) ==
  /\ Looping /\ signum \in caught
  /\ process' = Interrupted(process, signum)
  /\ caught' = caught \ {signum}
  /\ stopped' = TRUE /\ ran' = TRUE
  /\ UNCHANGED <<cron_mode, commandVars, socket, delivered, handled, sent, receiving, phase>>

InterruptSignal == \E signum \in InterruptSignals : Interrupt(signum)
PipeSignal == \E signum \in PipeSignals : Interrupt(signum)

(* An exception leaves the loop at once, in the reactor or in a handler,   *)
(* which does not arrange for its next call and does not stop the loop.    *)
Throw ==
  /\ Looping
  /\ phase' = "threw"
  /\ UNCHANGED <<cron_mode, background, written, ended, delivered, handled, sent, stopped, ran>>

LoopThrows == Throw /\ UNCHANGED <<child, socket, caught, receiving, process>>

(* A message that was being passed on is gone. *)
ReceiveThrows ==
  /\ Throw
  /\ receiving /\ socket # <<>>
  /\ socket' = Tail(socket)
  /\ process' \in {process, Error(process, "WRITE_OUTPUT")}
  /\ receiving' = FALSE
  /\ UNCHANGED <<child, caught>>

ReceiveFailsThrows ==
  /\ Throw
  /\ receiving
  /\ process' = Error(process, "READ_INPUT")
  /\ receiving' = FALSE
  /\ UNCHANGED <<child, socket, caught>>

ChildExitedThrows ==
  /\ Throw
  /\ WaitForChild
  /\ UNCHANGED <<socket, receiving>>

InterruptThrows(signum) ==
  /\ Throw
  /\ signum \in caught
  /\ process' = Interrupted(process, signum)
  /\ caught' = caught \ {signum}
  /\ UNCHANGED <<child, socket, receiving>>

(* main_loop() catches it. *)
MainLoopException ==
  /\ phase = "threw"
  /\ process' = Error(process, "MAIN_LOOP_EXCEPTION")
  /\ phase' = "looped"
  /\ UNCHANGED <<cron_mode, commandVars, socket, delivered, handled, caught, sent, loopVars>>

(* Mutant: there is no polling after io.run().                             *)
RunReturnsForGood ==
  /\ phase = "run" /\ stopped
  /\ phase' = "looped"
  /\ UNCHANGED <<cron_mode, commandVars, socket, delivered, handled, caught, sent,
                 loopVars, process>>

(* io.run() has returned: io.restart(), io.poll().                         *)
RunReturns ==
  /\ phase = "run" /\ stopped
  /\ phase' = "poll"
  /\ stopped' = FALSE /\ ran' = FALSE
  /\ UNCHANGED <<cron_mode, commandVars, socket, delivered, handled, caught, sent,
                 receiving, process>>

(* A handler is ready to run. *)
Ready ==
  \/ receiving /\ socket # <<>>
  \/ caught \cap ({SIGCHLD} \cup InterruptSignals \cup PipeSignals) # {}

(* Mutant: io.poll() is called only once.                                  *)
PollOnce ==
  /\ phase = "poll" /\ (stopped \/ ~Ready) /\ ran
  /\ phase' = "looped"
  /\ UNCHANGED <<cron_mode, commandVars, socket, delivered, handled, caught, sent,
                 loopVars, process>>

(* io.poll() returns when a handler has stopped it or when none is ready,  *)
(* and is called again as long as it has run any.                          *)
PollAgain ==
  /\ phase = "poll" /\ (stopped \/ ~Ready) /\ ran
  /\ stopped' = FALSE /\ ran' = FALSE
  /\ UNCHANGED <<cron_mode, commandVars, socket, delivered, handled, caught, sent,
                 receiving, phase, process>>

PollDone ==
  /\ phase = "poll" /\ ~Ready /\ ~ran
  /\ phase' = "looped"
  /\ UNCHANGED <<cron_mode, commandVars, socket, delivered, handled, caught, sent,
                 loopVars, process>>

(* Mutant: what was still to be handled stays queued.                      *)
StopSignalsKeep ==
  /\ phase = "looped"
  /\ phase' = "reporting"
  /\ handled' = handled \ InterruptSignals
  /\ UNCHANGED <<cron_mode, commandVars, socket, delivered, caught, sent, loopVars, process>>

(* Mutant: the handler of SIGPIPE is removed as well.                      *)
StopAllSignals ==
  /\ phase = "looped"
  /\ phase' = "reporting"
  /\ handled' = {} /\ caught' = {}
  /\ UNCHANGED <<cron_mode, commandVars, socket, delivered, sent, loopVars, process>>

(* SignalHandler::stop(); what was still to be handled is forgotten.  Then *)
(* cron mode reports.                                                      *)
StopSignals ==
  /\ phase = "looped"
  /\ phase' = "reporting"
  /\ handled' = handled \ InterruptSignals
  /\ caught' = caught \ InterruptSignals
  /\ UNCHANGED <<cron_mode, commandVars, socket, delivered, sent, loopVars, process>>

(* signal_handler.reset(): every signal has its default action again.      *)
ResetSignals ==
  /\ phase = "reporting"
  /\ phase' = "exiting"
  /\ handled' = {} /\ caught' = {}
  /\ UNCHANGED <<cron_mode, commandVars, socket, delivered, sent, loopVars, process>>

(* exit_by_interrupt() and, should raise() fail, the return of             *)
(* exit_status().                                                          *)
Exit ==
  /\ phase = "exiting"
  /\ phase' \in {"exited"} \cup (IF Raised(process) # {} THEN {"killed"} ELSE {})
  /\ UNCHANGED <<cron_mode, commandVars, socket, delivered, handled, caught, sent,
                 loopVars, process>>

Done == Gone /\ UNCHANGED vars

Environment ==
  \/ CommandWrites \/ CommandForks \/ CommandEnds \/ CommandStops \/ CommandContinues
  \/ BackgroundWrites \/ BackgroundEnds
  \/ \E signum \in SentSignals : SendSignal(signum)

Handler == Receive \/ ChildExited \/ InterruptSignal \/ PipeSignal

Next ==
  \/ Environment
  \/ CloseFails \/ Start \/ Handler \/ ReceiveFails
  \/ LoopThrows \/ ReceiveThrows \/ ReceiveFailsThrows \/ ChildExitedThrows
  \/ \E signum \in InterruptSignals \cup PipeSignals : InterruptThrows(signum)
  \/ MainLoopException
  \/ RunReturns \/ PollAgain \/ PollDone
  \/ StopSignals \/ ResetSignals \/ Exit
  \/ Done

Spec == Init /\ [][Next]_vars

(* dtee is one thread that does not stop by itself: it takes its next step *)
(* when there is one, and the reactor starves none of its handlers.        *)
Fairness ==
  /\ WF_vars(Start) /\ WF_vars(Receive) /\ WF_vars(ChildExited)
  /\ WF_vars(InterruptSignal) /\ WF_vars(PipeSignal)
  /\ WF_vars(MainLoopException) /\ WF_vars(RunReturns) /\ WF_vars(PollAgain) /\ WF_vars(PollDone)
  /\ WF_vars(StopSignals) /\ WF_vars(ResetSignals) /\ WF_vars(Exit)

FairSpec == Spec /\ Fairness

(* Whatever runs in the background ends at some time. *)
FiniteBackgroundSpec == FairSpec /\ WF_vars(BackgroundEnds)
------------------------------------------------------------------------------
TypeOK ==
  /\ child \in {"running", "stopped", "zombie", "reaped"}
  /\ background \in BOOLEAN
  /\ written \in 0..MaxWrites /\ delivered \in 0..written
  /\ ended \in Ends \cup {<<-1, -1>>}
  /\ socket \in Seq(0..written) /\ Len(socket) <= Capacity
  /\ handled \subseteq Handled /\ caught \subseteq handled
  /\ sent \subseteq SentSignals
  /\ receiving \in BOOLEAN /\ stopped \in BOOLEAN /\ ran \in BOOLEAN
  /\ phase \in {"forked", "run", "poll", "threw", "looped", "reporting", "exiting", "exited", "killed"}
  /\ process \in ProcessType
  /\ cron_mode \in Modes

Looped == phase \in {"looped", "reporting", "exiting", "exited"}

(* The errors after which messages are lost. *)
Deaf == process.error \in {"READ_INPUT", "MAIN_LOOP_EXCEPTION"}

(* Once the main loop is over and the command's end is known, everything   *)
(* the command wrote has been passed on: its SIGCHLD may overtake data in  *)
(* the socket, other signals may stop the loop before or after, and        *)
(* outputs may fail.                                                       *)
Drained == Looped /\ process.terminated /\ ~Deaf => delivered = written

(* A dtee that nobody sends a signal to and that meets no error exits only *)
(* after the command, with the command's exit status (or that of the       *)
(* signal that killed it) and all of its output copied.                    *)
Transparent ==
  phase = "exited" /\ sent = {} /\ process.error = "NONE" =>
    /\ child = "reaped"
    /\ delivered = written
    /\ ExitStatus(process) =
         IF ended[1] >= 0 THEN ended[1] ELSE SHELL_EXIT_CODE_SIGNAL + ended[2]

(* The main loop never ends without a reason to exit that exit_status()    *)
(* can tell.                                                               *)
Explained ==
  Looped => process.terminated \/ process.interrupt_signum >= 0 \/ process.error # "NONE"

(* As long as io.run() waits, it has been told of all that happened since  *)
(* fork(), before start() or after: it listens, and every signal and the   *)
(* end of the command have a handler that is due.  Afterwards, in the last *)
(* poll(), each signal is still due or an interruption has been recorded.  *)
NothingForgotten ==
  /\ phase = "run" /\ ~stopped =>
       /\ receiving /\ child # "reaped"
       /\ child = "zombie" => SIGCHLD \in caught
       /\ sent \subseteq caught
  /\ phase = "poll" =>
       \/ sent \cap (InterruptSignals \cup PipeSignals) \subseteq caught
       \/ process.interrupt_signum >= 0

(* When the command has ended, dtee does too: the SIGCHLD is not missed,   *)
(* even when it comes before start() or together with other events.        *)
Finishes == child = "zombie" ~> Gone

(* A command that waits for room in the socket does not wait for ever.     *)
WritesProceed == 
  Len(socket) = Capacity ~> Len(socket) < Capacity \/ Deaf \/ Gone

(* Each signal that comes before the last poll() has returned is handled,  *)
(* also one that came before start() or after the loop was stopped by      *)
(* something else or by another signal: only an exception in the loop can  *)
(* prevent it.  One is swallowed at most between the loop and stop().      *)
SignalsHonoured ==
  \A signum \in SentSignals :
    phase \in {"forked", "run", "poll"} /\ signum \in caught \cap (InterruptSignals \cup PipeSignals)
      ~> \/ process.interrupt_signum = signum
         \/ process.error = "MAIN_LOOP_EXCEPTION"
         \/ phase = "killed"

(* SIGPIPE does not kill dtee in cron mode before it has reported, as the  *)
(* report is written after stop().                                         *)
ReportNotCut ==
  [][cron_mode /\ SIGPIPE \in sent' \ sent /\ phase # "exiting" => phase' # "killed"]_vars
==============================================================================
