---------------------------------- MODULE Dtee ----------------------------------
(***************************************************************************)
(* Dispatch and EventLoop put together: Application::run() from the        *)
(* opening of the outputs to the exit, where the messages and events that  *)
(* reach Dispatch are those the main loop finds, next to a command that    *)
(* writes and ends and to others who send signals.                         *)
(*                                                                         *)
(* Each step of dtee is one step of both modules, which share process_.    *)
(* dtee as a whole does what Tee says.                                     *)
(***************************************************************************)
EXTENDS Process, Sequences, SequencesExt

CONSTANTS
  Files, Filter, Appending,                          \* see FileOutput
  Chunk,                                             \* see Cron
  StartNonblocking, ExitCodes, DeathSignals, SentSignals, MaxUnits, MaxLength,
                                                     \* see Dispatch
  Modes, IgnoreInterrupts, Stoppable, MaxWrites, Capacity
                                                     \* see EventLoop

VARIABLES
  buffered, report, spool, result, notices, stream, nonblocking, ioFailed,
  opened, failed, content, hurt,
  cron_mode, phase, looping, received, alarms, outcome,  \* of Dispatch
  child, background, written, ended, socket, delivered,
  handled, caught, sent, receiving, stopped, ran,        \* of EventLoop
  place,     \* phase of EventLoop
  process,   \* of both
  messages,  \* history: the type of each message of the command, how many units it
             \* has and how many were written before it
  input      \* history: the types of all the units it has written

D == INSTANCE Dispatch

L == INSTANCE EventLoop WITH
  phase <- place, Background <- FALSE,
  Ends <- (ExitCodes \X {-1}) \cup ({-1} \X DeathSignals)

ASSUME DteeAssumption ==
  /\ D!ChunkAssumption /\ D!FilesAssumption /\ D!DispatchAssumption
  /\ L!EventLoopAssumption

dispatchVars ==
  <<buffered, report, spool, result, notices, stream, nonblocking, ioFailed,
    opened, failed, content, hurt, cron_mode, phase, looping, received, alarms, outcome>>
loopVars ==
  <<child, background, written, ended, socket, delivered, handled, caught, sent,
    receiving, stopped, ran, place>>
history == <<messages, input>>
vars == <<dispatchVars, loopVars, process, history>>

Init == D!Init /\ L!Init /\ messages = <<>> /\ input = <<>>

Forked == phase \notin {"open", "openFailed", "setup", "execute"} /\ D!Running = outcome

(* Before fork() there is no command and no loop. *)
Setup ==
  /\ D!Open \/ D!OpenFails \/ D!SetupFails \/ D!ForkFails \/ D!ForkSucceeds
  /\ UNCHANGED <<loopVars, history>>

CommandWrites ==
  /\ Forked
  /\ \E type \in OutputType, len \in 0..MaxLength :
       /\ Len(input) + len <= MaxUnits
       /\ messages' =
            Append(messages, [type |-> type, len |-> len, from |-> Len(input)])
       /\ input' = input \o [i \in 1..len |-> type]
  /\ L!CommandWrites
  /\ UNCHANGED dispatchVars

CommandChanges ==
  /\ Forked
  /\ L!CommandEnds \/ L!CommandStops \/ L!CommandContinues
  /\ UNCHANGED <<dispatchVars, history>>

SendSignal(signum) ==
  /\ Forked
  /\ L!SendSignal(signum)
  /\ UNCHANGED <<dispatchVars, history>>

CloseFails == D!CloseFails /\ L!CloseFails /\ UNCHANGED history
Start == D!StartLoop /\ L!Start /\ UNCHANGED history

(* Input::handle_receive_from() *)
Receive ==
  /\ socket # <<>>
  /\ D!Output(messages[Head(socket)].type, messages[Head(socket)].len)
  /\ L!Receive
  /\ UNCHANGED history

ReceiveFails == D!ReadFails /\ L!ReceiveFails /\ UNCHANGED history

(* SignalHandler::handle_child_exited() *)
ChildExited ==
  /\ IF child = "zombie" THEN D!CommandTerminated(ended[1], ended[2])
     ELSE D!DteeInterrupted(SIGCHLD)
  /\ L!ChildExited
  /\ UNCHANGED history

Interrupt(signum) ==
  /\ D!DteeInterrupted(signum)
  /\ L!Interrupt(signum)
  /\ UNCHANGED history

(* An exception in the reactor or in one of the handlers, which main_loop()*)
(* catches.                                                                *)
LoopThrows == D!LoopThrows /\ L!LoopThrows /\ UNCHANGED history

ReceiveThrows ==
  /\ socket # <<>>
  /\ D!OutputThrows(messages[Head(socket)].type, messages[Head(socket)].len)
  /\ L!ReceiveThrows
  /\ UNCHANGED history

ReceiveFailsThrows == D!ReadFailsThrows /\ L!ReceiveFailsThrows /\ UNCHANGED history

ChildExitedThrows ==
  /\ IF child = "zombie" THEN D!TerminatedThrows(ended[1], ended[2])
     ELSE D!InterruptedThrows(SIGCHLD)
  /\ L!ChildExitedThrows
  /\ UNCHANGED history

InterruptThrows(signum) ==
  /\ D!InterruptedThrows(signum)
  /\ L!InterruptThrows(signum)
  /\ UNCHANGED history

MainLoopException == D!MainLoopException /\ L!MainLoopException /\ UNCHANGED history

LoopTurns ==
  /\ L!RunReturns \/ L!PollAgain
  /\ UNCHANGED <<dispatchVars, history>>

(* Mutant: there is no polling after io.run().                             *)
LoopEndsUnpolled == D!LoopEnds /\ L!RunReturnsForGood /\ UNCHANGED history

LoopEnds == D!LoopEnds /\ L!PollDone /\ UNCHANGED history

StopSignals ==
  /\ L!StopSignals
  /\ UNCHANGED <<dispatchVars, history>>

Report ==
  /\ place = "reporting"
  /\ D!Report
  /\ UNCHANGED <<loopVars, history>>

ResetSignals ==
  /\ phase = "reported"
  /\ L!ResetSignals
  /\ UNCHANGED <<dispatchVars, history>>

(* raise() kills dtee, or exit_status() is returned. *)
Exit ==
  /\ D!Exit /\ L!Exit
  /\ place' = "killed" <=> outcome'.signal >= 0
  /\ UNCHANGED history

Done == (D!Done \/ L!Gone) /\ UNCHANGED vars

Next ==
  \/ Setup \/ CloseFails \/ Start
  \/ CommandWrites \/ CommandChanges \/ \E signum \in SentSignals : SendSignal(signum)
  \/ Receive \/ ReceiveFails \/ ChildExited
  \/ \E signum \in L!InterruptSignals \cup L!PipeSignals :
       Interrupt(signum) \/ InterruptThrows(signum)
  \/ LoopThrows \/ ReceiveThrows \/ ReceiveFailsThrows \/ ChildExitedThrows
  \/ MainLoopException
  \/ LoopTurns \/ LoopEnds \/ StopSignals \/ Report \/ ResetSignals \/ Exit
  \/ Done

Spec == Init /\ [][Next]_vars
--------------------------------------------------------------------------------
Seqs(s) == [i \in DOMAIN s |-> s[i].seq]

T == INSTANCE Tee WITH
  Streams <- OutputType,
  Wants <- D!Takes,
  written <- input,
  taken <- Len(received),
  shown <- Seqs(stream),
  held <- IF buffered THEN ToSet(Seqs(spool)) ELSE {},
  kept <- [f \in Files |-> ToSet(Seqs(content[f])) \ {0}],
  trouble <- \/ process.error # "NONE" \/ process.interrupt_signum >= 0
             \/ process.terminated /\ process.exit_status # EXIT_SUCCESS
             \/ "EXCEPTION" \in alarms,
  broken <- "EXCEPTION" \in alarms,
  status <- outcome.status

(* dtee, with all its parts, does what Tee promises.                       *)
TeeSpec == T!Spec

(* In cron mode everything that a failing command wrote is on the original *)
(* outputs when dtee exits, also what was still in the socket when the     *)
(* command ended and what a signal or an error of an output file came in   *)
(* between, unless reading, writing or the loop itself failed.             *)
NothingUnseen ==
  /\ cron_mode /\ phase = "exited"
  /\ process.terminated /\ process.exit_status # EXIT_SUCCESS
  /\ ~ioFailed /\ ~L!Deaf
  => ToSet(Seqs(stream)) = 1..Len(input)

(* How dtee ends because the command did.                                  *)
CommandsEnd ==
  IF ended[1] >= 0 THEN {D!Exited(ended[1])}
  ELSE {D!Exited(SHELL_EXIT_CODE_SIGNAL + ended[2])} \cup {D!Killed(s) : s \in {ended[2]} \cap {SIGINT}}

(* A dtee that was not interrupted and met no error has not been in the    *)
(* way of its command: it ends as the command did, whether that succeeded  *)
(* or not, and all that was written is in the files and has been shown,    *)
(* unless cron mode holds it back or could not read back what it held.     *)
Unobtrusive ==
  phase = "exited" /\ process.error = "NONE" /\ process.interrupt_signum < 0 =>
    /\ outcome \in CommandsEnd
    /\ received = input
    /\ \A f \in Files, n \in DOMAIN input : D!Takes(f, input[n]) => n \in ToSet(Seqs(content[f]))
    /\ buffered \/ (cron_mode /\ ioFailed) \/ ToSet(Seqs(stream)) = DOMAIN input
================================================================================
