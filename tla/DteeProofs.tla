----------------------------- MODULE DteeProofs -----------------------------
(***************************************************************************)
(* Proofs about dtee as a whole: it does what Tee says, for every number   *)
(* of messages, units, output files and signals, and nothing that a        *)
(* failing command wrote stays unseen in cron mode.                        *)
(*                                                                         *)
(* The invariants of the parts come from the proofs about them.  Those     *)
(* are instances of their own of the modules Dtee is made of: the first    *)
(* two lemmas say that both are the same.                                  *)
(***************************************************************************)
EXTENDS Dtee, SequenceTheorems, TLAPS

DP == INSTANCE DispatchLossProofs
LP == INSTANCE EventLoopProofs WITH
  phase <- place, Background <- FALSE,
  Ends <- (ExitCodes \X {-1}) \cup ({-1} \X DeathSignals)

(* A step of Dispatch is one of the Dispatch that is proved about.         *)
LEMMA SameDispatch ==
  /\ D!Init => DP!Init
  /\ D!Next => DP!Next
  /\ (UNCHANGED D!vars => UNCHANGED DP!vars)
<1>1. \A p, t : D!Error(p, t) = DP!Error(p, t)
  BY Zenon DEF D!Error, DP!Error
<1>2. \A p, s : D!Interrupted(p, s) = DP!Interrupted(p, s)
  BY Zenon DEF D!Interrupted, DP!Interrupted
<1>3. \A p, c, s : D!Terminated(p, c, s) = DP!Terminated(p, c, s)
  BY Zenon DEF D!Terminated, DP!Terminated
<1>4. \A t : D!ErrorExitCode(t) = DP!ErrorExitCode(t)
  BY SMT DEF D!ErrorExitCode, DP!ErrorExitCode, D!EX_CANTCREAT, DP!EX_CANTCREAT, D!EX_IOERR,
     DP!EX_IOERR, D!EX_NOINPUT, DP!EX_NOINPUT, D!EX_OSERR, DP!EX_OSERR, D!EX_SOFTWARE,
     DP!EX_SOFTWARE, D!EX_UNAVAILABLE, DP!EX_UNAVAILABLE
<1>5. \A p : D!ExitStatus(p) = DP!ExitStatus(p)
  BY <1>4, SMT DEF D!ExitStatus, DP!ExitStatus, D!EX_SOFTWARE, DP!EX_SOFTWARE,
     D!SHELL_EXIT_CODE_SIGNAL, DP!SHELL_EXIT_CODE_SIGNAL
<1>6. \A p : D!Raised(p) = DP!Raised(p)
  BY SMT DEF D!Raised, DP!Raised, D!ReplicatedSignals, DP!ReplicatedSignals, D!SIGHUP, DP!SIGHUP,
     D!SIGINT, DP!SIGINT, D!SIGPIPE, DP!SIGPIPE, D!SIGTERM, DP!SIGTERM
<1>7. \A t, u, ok : D!CronSpools(t, u, ok) <=> DP!CronSpools(t, u, ok)
  BY Zenon DEF D!CronSpools, DP!CronSpools
<1>8. \A t, u, ok : D!CronSpoolFails(t, u, ok) <=> DP!CronSpoolFails(t, u, ok)
  BY Zenon DEF D!CronSpoolFails, DP!CronSpoolFails, D!BufferClosed, DP!BufferClosed, D!Readback,
     DP!Readback, D!StreamResults, DP!StreamResults, D!Survivors, DP!Survivors, D!Tagged,
     DP!Tagged, D!WriteReturns, DP!WriteReturns
<1>9. \A t, u, ok : D!CronShows(t, u, ok) <=> DP!CronShows(t, u, ok)
  BY Zenon DEF D!CronShows, DP!CronShows, D!BufferClosed, DP!BufferClosed, D!Readback, DP!Readback,
     D!StreamResults, DP!StreamResults, D!Survivors, DP!Survivors, D!Tagged, DP!Tagged,
     D!Unspooled, DP!Unspooled, D!WriteReturns, DP!WriteReturns
<1>10. \A t, u, ok : D!CronOutput(t, u, ok) <=> DP!CronOutput(t, u, ok)
  BY <1>7, <1>8, <1>9, Zenon DEF D!CronOutput, DP!CronOutput
<1>11. \A t, u, ok : D!FirstOutput(t, u, ok) <=> DP!FirstOutput(t, u, ok)
  BY <1>10, Zenon DEF D!FirstOutput, DP!FirstOutput, D!StreamOnly, DP!StreamOnly, D!StreamResults,
     DP!StreamResults, D!Tagged, DP!Tagged, D!WriteReturns, DP!WriteReturns
<1>12. \A t, u, ok : D!FilesOutput(t, u, ok) <=> DP!FilesOutput(t, u, ok)
  BY Zenon DEF D!FilesOutput, DP!FilesOutput, D!Takes, DP!Takes
<1>13. \A t, n : D!Message(t, n) = DP!Message(t, n)
  BY Zenon DEF D!Message, DP!Message
<1>14. \A t, n : D!Receive(t, n) <=> DP!Receive(t, n)
  BY Zenon DEF D!Receive, DP!Receive
<1>15. \A h : D!UnspoolThrows(h) <=> DP!UnspoolThrows(h)
  BY Zenon DEF D!UnspoolThrows, DP!UnspoolThrows, D!Readback, DP!Readback, D!StreamResults,
     DP!StreamResults, D!Survivors, DP!Survivors, D!Tagged, DP!Tagged, D!WriteReturns,
     DP!WriteReturns
<1>16. \A h : D!SpoolThrows(h) <=> DP!SpoolThrows(h)
  BY Zenon DEF D!SpoolThrows, DP!SpoolThrows
<1>17. \A t, u : D!CronOutputThrows(t, u) <=> DP!CronOutputThrows(t, u)
  BY <1>15, <1>16, Zenon DEF D!CronOutputThrows, DP!CronOutputThrows, D!WriteReturns,
     DP!WriteReturns
<1>18. \A s : D!CronInterruptedThrows(s) <=> DP!CronInterruptedThrows(s)
  BY <1>2, <1>15, Zenon DEF D!CronInterruptedThrows, DP!CronInterruptedThrows
<1>19. \A t : D!CronErrorThrows(t) <=> DP!CronErrorThrows(t)
  BY <1>1, <1>15, Zenon DEF D!CronErrorThrows, DP!CronErrorThrows
<1>20. \A t, u : D!FilesOutputThrows(t, u) <=> DP!FilesOutputThrows(t, u)
  BY Zenon DEF D!FilesOutputThrows, DP!FilesOutputThrows, D!Takes, DP!Takes
<1> USE DEF
         D!OutputType, DP!OutputType, D!SIGHUP, DP!SIGHUP, D!SIGINT, DP!SIGINT,
         D!SIGPIPE, DP!SIGPIPE, D!SIGTERM, DP!SIGTERM, D!SIGCHLD, DP!SIGCHLD,
         D!ReplicatedSignals, DP!ReplicatedSignals, D!EXIT_SUCCESS, DP!EXIT_SUCCESS,
         D!Tagged, DP!Tagged, D!StreamOpen, DP!StreamOpen, D!NewProcess,
         DP!NewProcess, D!cronVars, DP!cronVars, D!CronInit, DP!CronInit,
         D!Survivors, DP!Survivors, D!Readback, DP!Readback, D!Unspooled,
         DP!Unspooled, D!BufferClosed, DP!BufferClosed, D!CronOpen, DP!CronOpen,
         D!CronTerminated, DP!CronTerminated, D!Reveal, DP!Reveal,
         D!CronInterrupted, DP!CronInterrupted, D!CronError, DP!CronError,
         D!ReportLines, DP!ReportLines, D!CronReport, DP!CronReport, D!fileVars,
         DP!fileVars, D!Existing, DP!Existing, D!FilesInit, DP!FilesInit,
         D!FilesOpen, DP!FilesOpen, D!vars, DP!vars, D!InterruptSignals,
         DP!InterruptSignals, D!Alarm, DP!Alarm, D!Running, DP!Running, D!Exited,
         DP!Exited, D!Killed, DP!Killed, D!Init, DP!Init, D!FirstOpen, DP!FirstOpen,
         D!DispatchError, DP!DispatchError, D!Open, DP!Open, D!GiveUp, DP!GiveUp,
         D!OpenFails, DP!OpenFails, D!SetupFails, DP!SetupFails, D!ForkFails,
         DP!ForkFails, D!ForkSucceeds, DP!ForkSucceeds, D!CloseFails, DP!CloseFails,
         D!StartLoop, DP!StartLoop, D!DispatchOutput, DP!DispatchOutput, D!Output,
         DP!Output, D!CommandTerminated, DP!CommandTerminated, D!DteeInterrupted,
         DP!DteeInterrupted, D!ReadFails, DP!ReadFails, D!Throw, DP!Throw,
         D!LoopThrows, DP!LoopThrows, D!OutputThrows, DP!OutputThrows,
         D!ReadFailsThrows, DP!ReadFailsThrows, D!InterruptedThrows,
         DP!InterruptedThrows, D!TerminatedThrows, DP!TerminatedThrows,
         D!MainLoopException, DP!MainLoopException, D!LoopEnds, DP!LoopEnds,
         D!Report, DP!Report, D!Exit, DP!Exit, D!Done, DP!Done
<1>21. D!Init => DP!Init
  BY Zenon
<1>22. D!Open => DP!Open
  BY Zenon
<1>23. D!OpenFails => DP!OpenFails
  BY <1>1, <1>5, Zenon
<1>24. D!SetupFails => DP!SetupFails
  BY <1>1, <1>5, Zenon
<1>25. D!ForkFails => DP!ForkFails
  BY <1>1, <1>5, Zenon
<1>26. D!ForkSucceeds => DP!ForkSucceeds
  BY Zenon
<1>27. D!CloseFails => DP!CloseFails
  BY <1>1, Zenon
<1>28. D!StartLoop => DP!StartLoop
  BY Zenon
<1>29. D!ReadFails => DP!ReadFails
  BY <1>1, Zenon
<1>30. D!LoopEnds => DP!LoopEnds
  BY Zenon
<1>31. D!Report => DP!Report
  BY Zenon
<1>32. D!Exit => DP!Exit
  BY <1>5, <1>6, Zenon
<1>33. D!Done => DP!Done
  BY Zenon
<1>34. \A x, y : D!Output(x, y) => DP!Output(x, y)
  BY <1>1, <1>11, <1>12, <1>13, <1>14, Zenon
<1>35. D!MainLoopException => DP!MainLoopException
  BY <1>1, Zenon
<1>36. \A x, y : D!CommandTerminated(x, y) => DP!CommandTerminated(x, y)
  BY <1>3, Zenon
<1>37. \A x : D!DteeInterrupted(x) => DP!DteeInterrupted(x)
  BY <1>2, Zenon
<1>38. D!InterruptSignals = DP!InterruptSignals
  BY Zenon
<1>39. UNCHANGED D!vars => UNCHANGED DP!vars
  BY Zenon
<1>40. D!LoopThrows => DP!LoopThrows
  BY Zenon
<1>41. \A t, u : D!DispatchOutput(t, u) => DP!DispatchOutput(t, u)
  BY <1>1, <1>11, <1>12, Zenon
<1>42. (D!Throw => DP!Throw) /\ D!cronVars = DP!cronVars /\ D!fileVars = DP!fileVars
  BY Zenon
<1>43. D!ReadFailsThrows => DP!ReadFailsThrows
  BY <1>1, <1>19, Zenon
<1>44. \A x : D!InterruptedThrows(x) => DP!InterruptedThrows(x)
  BY <1>2, <1>18, Zenon
<1>45. \A x, y : D!TerminatedThrows(x, y) => DP!TerminatedThrows(x, y)
  BY <1>3, Zenon
<1> HIDE DEF
         D!Init, DP!Init, D!Open, DP!Open, D!OpenFails, DP!OpenFails, D!SetupFails,
         DP!SetupFails, D!ForkFails, DP!ForkFails, D!ForkSucceeds, DP!ForkSucceeds,
         D!CloseFails, DP!CloseFails, D!StartLoop, DP!StartLoop, D!Output,
         DP!Output, D!CommandTerminated, DP!CommandTerminated, D!DteeInterrupted,
         DP!DteeInterrupted, D!ReadFails, DP!ReadFails, D!LoopThrows,
         DP!LoopThrows, D!OutputThrows, DP!OutputThrows, D!ReadFailsThrows,
         DP!ReadFailsThrows, D!InterruptedThrows, DP!InterruptedThrows,
         D!TerminatedThrows, DP!TerminatedThrows, D!MainLoopException,
         DP!MainLoopException, D!LoopEnds, DP!LoopEnds, D!Report, DP!Report, D!Exit,
         DP!Exit, D!Done, DP!Done
<1>46. \A x, y : D!OutputThrows(x, y) => DP!OutputThrows(x, y)
  <2> HIDE DEF D!DispatchOutput, DP!DispatchOutput, D!Throw, DP!Throw
  <2>1. SUFFICES ASSUME NEW x, NEW y, D!OutputThrows(x, y) PROVE DP!OutputThrows(x, y)
    OBVIOUS
  <2>2. /\ DP!Throw /\ DP!Receive(x, y)
        /\ alarms' = alarms \cup ({x} \cap {"STDERR"}) \cup {"EXCEPTION"}
    BY <1>14, <1>42, <2>1, Zenon DEF D!OutputThrows
  <2> QED BY <1>11, <1>13, <1>17, <1>20, <1>41, <1>42, <2>1, <2>2, Zenon
      DEF D!OutputThrows, DP!OutputThrows
<1> QED BY <1>21, <1>22, <1>23, <1>24, <1>25, <1>26, <1>27, <1>28, <1>29, <1>30, <1>31, <1>32,
   <1>33, <1>34, <1>35, <1>36, <1>37, <1>38, <1>39, <1>40, <1>43, <1>44, <1>45, <1>46, Zenon
   DEF D!Next, DP!Next

(* The same for the main loop. *)
LEMMA SameLoop ==
  /\ L!Init => LP!Init
  /\ L!Next => LP!Next
  /\ (UNCHANGED L!vars => UNCHANGED LP!vars)
<1>1. \A p, t : L!Error(p, t) = LP!Error(p, t)
  BY Zenon DEF L!Error, LP!Error
<1>2. \A p, s : L!Interrupted(p, s) = LP!Interrupted(p, s)
  BY Zenon DEF L!Interrupted, LP!Interrupted
<1>3. \A p, c, s : L!Terminated(p, c, s) = LP!Terminated(p, c, s)
  BY Zenon DEF L!Terminated, LP!Terminated
<1>4. L!NewProcess = LP!NewProcess
  BY Zenon DEF L!NewProcess, LP!NewProcess
<1>5. L!InterruptSignals = LP!InterruptSignals
  BY SMT DEF L!InterruptSignals, LP!InterruptSignals, L!SIGHUP, LP!SIGHUP, L!SIGINT, LP!SIGINT,
     L!SIGTERM, LP!SIGTERM
<1>6. L!PipeSignals = LP!PipeSignals
  BY Zenon DEF L!PipeSignals, LP!PipeSignals, L!SIGPIPE, LP!SIGPIPE
<1>7. L!Handled = LP!Handled
  BY <1>5, <1>6, SMT DEF L!Handled, LP!Handled, L!SIGCHLD, LP!SIGCHLD, L!SIGINT, LP!SIGINT
<1>8. \A p : L!Raised(p) = LP!Raised(p)
  BY SMT DEF L!Raised, LP!Raised, L!ReplicatedSignals, LP!ReplicatedSignals, L!SIGHUP, LP!SIGHUP,
     L!SIGINT, LP!SIGINT, L!SIGPIPE, LP!SIGPIPE, L!SIGTERM, LP!SIGTERM
<1> USE DEF
         L!SIGCHLD, LP!SIGCHLD, L!commandVars, LP!commandVars, L!loopVars,
         LP!loopVars, L!vars, LP!vars, L!Init, LP!Init, L!Gone, LP!Gone, L!Send,
         LP!Send, L!CommandWrites, LP!CommandWrites, L!CommandForks,
         LP!CommandForks, L!BackgroundWrites, LP!BackgroundWrites, L!BackgroundEnds,
         LP!BackgroundEnds, L!ChildSignal, LP!ChildSignal, L!CommandEnds,
         LP!CommandEnds, L!CommandStops, LP!CommandStops, L!CommandContinues,
         LP!CommandContinues, L!SendSignal, LP!SendSignal, L!CloseFails,
         LP!CloseFails, L!Start, LP!Start, L!Looping, LP!Looping, L!Receive,
         LP!Receive, L!ReceiveFails, LP!ReceiveFails, L!WaitForChild,
         LP!WaitForChild, L!ChildExited, LP!ChildExited,
         L!Interrupt, LP!Interrupt, L!InterruptSignal, LP!InterruptSignal,
         L!PipeSignal, LP!PipeSignal, L!Throw, LP!Throw, L!LoopThrows,
         LP!LoopThrows, L!ReceiveThrows, LP!ReceiveThrows, L!ReceiveFailsThrows,
         LP!ReceiveFailsThrows, L!ChildExitedThrows, LP!ChildExitedThrows,
         L!InterruptThrows, LP!InterruptThrows, L!MainLoopException, LP!MainLoopException,
         L!RunReturns, LP!RunReturns, L!Ready, LP!Ready, L!PollAgain, LP!PollAgain,
         L!PollDone, LP!PollDone, L!StopSignals, LP!StopSignals, L!ResetSignals,
         LP!ResetSignals, L!Exit, LP!Exit, L!Done, LP!Done, L!Environment,
         LP!Environment, L!Handler, LP!Handler
<1>9. L!Init => LP!Init
  BY <1>1, <1>4, <1>7, Zenon
<1>10. L!CommandWrites => LP!CommandWrites
  BY Zenon
<1>11. L!CommandForks => LP!CommandForks
  BY Zenon
<1>12. L!CommandEnds => LP!CommandEnds
  BY Zenon
<1>13. L!CommandStops => LP!CommandStops
  BY Zenon
<1>14. L!CommandContinues => LP!CommandContinues
  BY Zenon
<1>15. L!BackgroundWrites => LP!BackgroundWrites
  BY Zenon
<1>16. L!BackgroundEnds => LP!BackgroundEnds
  BY Zenon
<1>17. L!CloseFails => LP!CloseFails
  BY <1>1, Zenon
<1>18. L!Start => LP!Start
  BY Zenon
<1>19. L!Receive => LP!Receive
  BY <1>1, Zenon
<1>20. L!ReceiveFails => LP!ReceiveFails
  BY <1>1, Zenon
<1>21. L!ChildExited => LP!ChildExited
  BY <1>2, <1>3, Zenon
<1>22. L!InterruptSignal => LP!InterruptSignal
  BY <1>2, <1>5, Zenon
<1>23. L!PipeSignal => LP!PipeSignal
  BY <1>2, <1>6, Zenon
<1>24. L!MainLoopException => LP!MainLoopException
  BY <1>1, Zenon
<1>25. L!RunReturns => LP!RunReturns
  BY Zenon
<1>26. L!PollAgain => LP!PollAgain
  BY <1>5, <1>6, Zenon
<1>27. L!PollDone => LP!PollDone
  BY <1>5, <1>6, Zenon
<1>28. L!StopSignals => LP!StopSignals
  BY <1>5, Zenon
<1>29. L!ResetSignals => LP!ResetSignals
  BY Zenon
<1>30. L!Exit => LP!Exit
  BY <1>8, Zenon
<1>31. L!Done => LP!Done
  BY Zenon
<1>32. \A x : L!SendSignal(x) => LP!SendSignal(x)
  BY Zenon
<1>33. UNCHANGED L!vars => UNCHANGED LP!vars
  BY Zenon
<1>34. L!LoopThrows => LP!LoopThrows
  BY Zenon
<1>35. L!ReceiveThrows => LP!ReceiveThrows
  BY <1>1, Zenon
<1>36. L!ReceiveFailsThrows => LP!ReceiveFailsThrows
  BY <1>1, Zenon
<1>37. L!ChildExitedThrows => LP!ChildExitedThrows
  BY <1>2, <1>3, Zenon
<1>38. \A x : L!InterruptThrows(x) => LP!InterruptThrows(x)
  BY <1>2, Zenon
<1> HIDE DEF
         L!Init, LP!Init, L!CommandWrites, LP!CommandWrites, L!CommandForks,
         LP!CommandForks, L!BackgroundWrites, LP!BackgroundWrites, L!BackgroundEnds,
         LP!BackgroundEnds, L!CommandEnds, LP!CommandEnds, L!CommandStops,
         LP!CommandStops, L!CommandContinues, LP!CommandContinues, L!SendSignal,
         LP!SendSignal, L!CloseFails, LP!CloseFails, L!Start, LP!Start, L!Receive,
         LP!Receive, L!ReceiveFails, LP!ReceiveFails, L!ChildExited, LP!ChildExited,
         L!InterruptSignal, LP!InterruptSignal, L!PipeSignal, LP!PipeSignal,
         L!LoopThrows, LP!LoopThrows, L!ReceiveThrows, LP!ReceiveThrows,
         L!ReceiveFailsThrows, LP!ReceiveFailsThrows, L!ChildExitedThrows,
         LP!ChildExitedThrows, L!InterruptThrows, LP!InterruptThrows,
         L!MainLoopException, LP!MainLoopException, L!RunReturns, LP!RunReturns,
         L!PollAgain, LP!PollAgain, L!PollDone, LP!PollDone, L!StopSignals,
         LP!StopSignals, L!ResetSignals, LP!ResetSignals, L!Exit, LP!Exit, L!Done,
         LP!Done
<1> QED BY <1>9, <1>10, <1>11, <1>12, <1>13, <1>14, <1>15, <1>16, <1>17, <1>18, <1>19, <1>20,
   <1>21, <1>22, <1>23, <1>24, <1>25, <1>26, <1>27, <1>28, <1>29, <1>30, <1>31, <1>32, <1>33,
   <1>5, <1>6, <1>34, <1>35, <1>36, <1>37, <1>38, Zenon DEF L!Next, LP!Next

LEMMA Assumptions ==
  DP!ChunkAssumption /\ DP!FilesAssumption /\ DP!DispatchAssumption /\ LP!EventLoopAssumption
<1>1. DP!ChunkAssumption
  BY DteeAssumption DEF DteeAssumption, D!ChunkAssumption, DP!ChunkAssumption
<1>2. DP!FilesAssumption
  BY DteeAssumption DEF DteeAssumption, D!FilesAssumption, DP!FilesAssumption,
     D!FileOutputType, DP!FileOutputType, D!OutputType, DP!OutputType
<1>3. DP!DispatchAssumption
  BY DteeAssumption DEF DteeAssumption, D!DispatchAssumption, DP!DispatchAssumption,
     D!OutputType, DP!OutputType, D!ExitCode, DP!ExitCode, D!SignalNumber, DP!SignalNumber
<1>4. LP!EventLoopAssumption
  BY DteeAssumption DEF DteeAssumption, L!EventLoopAssumption, LP!EventLoopAssumption,
     L!ExitCode, LP!ExitCode, L!SignalNumber, LP!SignalNumber, L!SIGCHLD, LP!SIGCHLD
<1> QED BY <1>1, <1>2, <1>3, <1>4
------------------------------------------------------------------------------
(* The types of this module are those of the parts.                        *)
LEMMA Types ==
  /\ MaxLength \in Nat /\ SentSignals \subseteq SignalNumber
  /\ DP!OutputType = OutputType /\ DP!EXIT_SUCCESS = 0 /\ EXIT_SUCCESS = 0
BY DteeAssumption DEF DteeAssumption, D!DispatchAssumption, D!SignalNumber, SignalNumber,
   DP!OutputType, OutputType, DP!EXIT_SUCCESS, EXIT_SUCCESS

(* What has been copied.                                                   *)
Copied == DP!LossInv /\ DP!Early /\ DP!Thrown /\ DP!FailuresTold

(* The main loop is not there before fork(), and of no interest after.     *)
Unforked == phase \in {"open", "openFailed", "setup"}
Served == phase \in {"forked", "loop", "threw", "looped", "reported"}
Loop ==
  /\ Unforked => L!Init /\ (phase # "setup" => process = NewProcess)
  /\ Served => LP!TypeOK /\ LP!Reason /\ LP!DrainInv

(* Only what may come does.                                                *)
Expected ==
  /\ caught \subseteq SentSignals \cup {SIGCHLD}
  /\ child \in {"zombie", "reaped"} => ended \in (ExitCodes \X {-1}) \cup ({-1} \X DeathSignals)

(* The messages follow each other without a gap, those in the socket are   *)
(* the last of them, and all units before these have been received.        *)
MessageType == [type : OutputType, len : 0..MaxLength, from : Nat]
From(k) == IF k > Len(messages) THEN Len(input) ELSE messages[k].from
Written ==
  /\ input \in Seq(OutputType)
  /\ messages \in Seq(MessageType) /\ Len(messages) = written
  /\ \A k \in 1..written :
       /\ From(k + 1) = messages[k].from + messages[k].len
       /\ From(k + 1) <= Len(input)
       /\ \A i \in 1..messages[k].len : input[messages[k].from + i] = messages[k].type
Waiting ==
  /\ socket \in Seq(Nat) /\ Len(socket) <= written
  /\ \A i \in 1..Len(socket) : socket[i] = written - Len(socket) + i
Taken ==
  /\ received \in Seq(OutputType)
  /\ Len(received) = From(written - Len(socket) + 1)
  /\ Len(received) <= Len(input)
  /\ \A n \in 1..Len(received) : received[n] = input[n]
Link == Written /\ Waiting /\ Taken

(* What dtee knows of the command's end is true.                           *)
Known ==
  process.terminated =>
    child = "reaped" /\ process.exit_status = ended[1] /\ process.exit_signum = ended[2]

(* A dtee that has exited did so by what it knew, also of what became of   *)
(* the command's output.                                                   *)
Final ==
  phase = "exited" =>
    /\ outcome # D!Running
    /\ \/ outcome = D!Exited(D!ExitStatus(process))
       \/ \E signum \in D!Raised(process) : outcome = D!Killed(signum)
    /\ LP!Recorded
    /\ process.terminated /\ ~L!Deaf => Len(received) = Len(input)

DteeInv == Copied /\ Loop /\ Expected /\ Known /\ Link /\ Final

LEMMA InitInv == Init => DteeInv
<1> SUFFICES ASSUME Init PROVE DteeInv
  OBVIOUS
<1>1. DP!Init /\ L!Init
  BY SameDispatch DEF Init
<1>2. DP!LossInv
  BY <1>1, Assumptions, DP!LossInit
<1>3. DP!Early
  BY <1>1, Zenon DEF DP!Early, DP!Init
<1>7. DP!Thrown
  <2>1. alarms = {}
    BY <1>1, Zenon DEF DP!Init
  <2> QED BY <2>1 DEF DP!Thrown
<1>8. Final
  <2>1. phase = "open"
    BY <1>1, Zenon DEF DP!Init
  <2> QED BY <2>1 DEF Final
<1>9. DP!FailuresTold
  BY <1>1, Assumptions, DP!ToldInit
<1>10. Known
  BY <1>1 DEF Known, Init, D!Init, D!NewProcess
<1>4. Loop
  BY <1>1 DEF Loop, Unforked, Served, Init, D!Init, D!NewProcess, NewProcess
<1>5. Expected
  BY <1>1 DEF Expected, L!Init
<1>6. Link
  <2>1. input = <<>> /\ messages = <<>> /\ socket = <<>> /\ written = 0 /\ received = <<>>
    BY <1>1 DEF Init, L!Init, D!Init
  <2> QED BY <2>1, EmptySeq DEF Link, Written, Waiting, Taken, From
<1> QED BY <1>2, <1>3, <1>4, <1>5, <1>6, <1>7, <1>8, <1>9, <1>10 DEF DteeInv, Copied

(* A message that is received is one of the command's.                     *)
LEMMA HeadMessage ==
  ASSUME DteeInv, socket # <<>>
  PROVE  /\ socket[1] = Head(socket) /\ Head(socket) \in 1..written
         /\ messages[Head(socket)] \in MessageType
         /\ messages[Head(socket)].type \in OutputType
         /\ messages[Head(socket)].len \in 0..MaxLength
         /\ Head(socket) = written - Len(socket) + 1
         /\ Tail(socket) \in Seq(Nat) /\ Len(Tail(socket)) = Len(socket) - 1
         /\ \A i \in 1..(Len(socket) - 1) : Tail(socket)[i] = socket[i + 1]
         /\ written \in Nat /\ Len(socket) \in Nat \ {0}
<1>1. socket \in Seq(Nat) /\ Len(socket) <= written /\ Len(messages) = written
      /\ messages \in Seq(MessageType)
      /\ \A i \in 1..Len(socket) : socket[i] = written - Len(socket) + i
  BY DEF DteeInv, Link, Written, Waiting
<1>2. written \in Nat /\ Len(socket) \in Nat \ {0} /\ socket[1] = Head(socket)
  BY <1>1, LenProperties, EmptySeq
<1>3. Tail(socket) \in Seq(Nat) /\ Len(Tail(socket)) = Len(socket) - 1
      /\ \A i \in 1..(Len(socket) - 1) : Tail(socket)[i] = socket[i + 1]
  BY <1>1, HeadTailProperties
<1>4. Head(socket) = written - Len(socket) + 1 /\ Head(socket) \in 1..written
  BY <1>1, <1>2
<1>5. messages[Head(socket)] \in MessageType
  BY <1>1, <1>4, ElementOfSeq
<1> QED BY <1>2, <1>3, <1>4, <1>5 DEF MessageType

(* The signals of the main loop are those Dispatch expects.                *)
LEMMA InterruptsExpected ==
  ASSUME DteeInv, NEW signum \in L!InterruptSignals \cup L!PipeSignals, signum \in caught
  PROVE  signum \in D!InterruptSignals
BY DEF DteeInv, Expected, L!InterruptSignals, L!PipeSignals, D!InterruptSignals,
   D!ReplicatedSignals, D!SIGCHLD, D!SIGHUP, D!SIGINT, D!SIGPIPE, D!SIGTERM,
   L!SIGHUP, L!SIGINT, L!SIGPIPE, L!SIGTERM, SIGCHLD

(* What each step of dtee is to Dispatch.                                  *)
LEMMA DispatchStep ==
  ASSUME DteeInv, [Next]_vars
  PROVE  D!Next \/ UNCHANGED <<dispatchVars, process>>
<1>1. CASE Setup
  BY <1>1 DEF Setup, D!Next
<1>2. CASE CommandWrites \/ CommandChanges \/ \E signum \in SentSignals : SendSignal(signum)
  BY <1>2 DEF CommandWrites, CommandChanges, SendSignal, L!CommandWrites, L!CommandEnds,
     L!CommandStops, L!CommandContinues, L!SendSignal
<1>3. CASE \/ CloseFails \/ Start \/ ReceiveFails \/ ReceiveFailsThrows \/ LoopThrows
           \/ MainLoopException \/ LoopEnds \/ Report \/ Exit
  BY <1>3 DEF CloseFails, Start, ReceiveFails, ReceiveFailsThrows, LoopThrows, MainLoopException,
     LoopEnds, Report, Exit, D!Next
<1>4. CASE Receive \/ ReceiveThrows
  <2>1. /\ socket # <<>>
        /\ \/ D!Output(messages[Head(socket)].type, messages[Head(socket)].len)
           \/ D!OutputThrows(messages[Head(socket)].type, messages[Head(socket)].len)
    BY <1>4 DEF Receive, ReceiveThrows
  <2>2. messages[Head(socket)].type \in D!OutputType /\ messages[Head(socket)].len \in 0..MaxLength
    BY <2>1, HeadMessage DEF OutputType, D!OutputType
  <2> QED BY <2>1, <2>2 DEF D!Next
<1>5. CASE ChildExited \/ ChildExitedThrows
  <2>1. CASE child = "zombie"
    <3>1. D!CommandTerminated(ended[1], ended[2]) \/ D!TerminatedThrows(ended[1], ended[2])
      BY <1>5, <2>1 DEF ChildExited, ChildExitedThrows
    <3>2. \/ ended[1] \in ExitCodes /\ ended[2] = -1
          \/ ended[1] = -1 /\ ended[2] \in DeathSignals
      BY <2>1 DEF DteeInv, Expected
    <3> QED BY <3>1, <3>2 DEF D!Next
  <2>2. CASE child # "zombie"
    <3>1. /\ D!DteeInterrupted(SIGCHLD) \/ D!InterruptedThrows(SIGCHLD)
          /\ SIGCHLD \in D!InterruptSignals
      BY <1>5, <2>2 DEF ChildExited, ChildExitedThrows, D!InterruptSignals, D!SIGCHLD, SIGCHLD
    <3> QED BY <3>1 DEF D!Next
  <2> QED BY <2>1, <2>2
<1>6. CASE \E signum \in L!InterruptSignals \cup L!PipeSignals :
             Interrupt(signum) \/ InterruptThrows(signum)
  <2>1. PICK signum \in L!InterruptSignals \cup L!PipeSignals :
          Interrupt(signum) \/ InterruptThrows(signum)
    BY <1>6
  <2>2. (D!DteeInterrupted(signum) \/ D!InterruptedThrows(signum)) /\ signum \in caught
    BY <2>1 DEF Interrupt, L!Interrupt, InterruptThrows, L!InterruptThrows
  <2>3. signum \in D!InterruptSignals
    BY <2>1, <2>2, InterruptsExpected
  <2> QED BY <2>2, <2>3 DEF D!Next
<1>7. CASE LoopTurns \/ StopSignals \/ ResetSignals
  BY <1>7 DEF LoopTurns, StopSignals, ResetSignals, L!RunReturns, L!PollAgain, L!StopSignals,
     L!ResetSignals
<1>8. CASE Done \/ UNCHANGED vars
  BY <1>8 DEF Done, vars
<1> QED BY <1>1, <1>2, <1>3, <1>4, <1>5, <1>6, <1>7, <1>8 DEF Next

LEMMA CopiedStep ==
  ASSUME DteeInv, [Next]_vars
  PROVE  [DP!Next]_(DP!vars) /\ Copied'
<1>1. D!Next \/ UNCHANGED D!vars
  BY DispatchStep DEF dispatchVars, D!vars, D!cronVars, D!fileVars
<1>2. [DP!Next]_(DP!vars)
  BY <1>1, SameDispatch
<1>3. DP!LossInv'
  BY <1>2, Assumptions, DP!LossNext DEF DteeInv, Copied
<1>4. DP!Early'
  BY <1>2, Assumptions, DP!EarlyNext DEF DteeInv, Copied, DP!LossInv
<1>5. DP!Thrown'
  BY <1>2, Assumptions, DP!ThrownNext DEF DteeInv, Copied, DP!LossInv, DP!OrderInv
<1>6. DP!FailuresTold'
  BY <1>2, Assumptions, DP!ToldNext DEF DteeInv, Copied, DP!LossInv
<1> QED BY <1>2, <1>3, <1>4, <1>5, <1>6 DEF Copied

(* What it is to the main loop, between fork() and the report.             *)
LEMMA LoopStep ==
  ASSUME DteeInv, [Next]_vars, Served
  PROVE  L!Next \/ UNCHANGED L!vars
<1>1. CASE Setup
  BY <1>1 DEF Setup, Served, D!Open, D!OpenFails, D!SetupFails, D!ForkFails, D!ForkSucceeds
<1>2. CASE CommandWrites \/ CommandChanges \/ \E signum \in SentSignals : SendSignal(signum)
  BY <1>2 DEF CommandWrites, CommandChanges, SendSignal, L!Environment, L!Next
<1>3. CASE CloseFails \/ Start \/ ReceiveFails \/ LoopEnds \/ Exit \/ Receive \/ ChildExited
  BY <1>3 DEF CloseFails, Start, ReceiveFails, LoopEnds, Exit, Receive, ChildExited, L!Handler,
     L!Next
<1>4. CASE \E signum \in L!InterruptSignals \cup L!PipeSignals :
             Interrupt(signum) \/ InterruptThrows(signum)
  BY <1>4 DEF Interrupt, InterruptThrows, L!InterruptSignal, L!PipeSignal, L!Handler, L!Next
<1>5. CASE \/ LoopThrows \/ ReceiveThrows \/ ReceiveFailsThrows \/ ChildExitedThrows
           \/ MainLoopException \/ LoopTurns \/ StopSignals \/ ResetSignals
  BY <1>5 DEF LoopThrows, ReceiveThrows, ReceiveFailsThrows, ChildExitedThrows, MainLoopException,
     LoopTurns, StopSignals, ResetSignals, L!Next
<1>6. CASE Report
  BY <1>6 DEF Report, loopVars, D!Report, L!vars, L!commandVars, L!loopVars
<1>7. CASE Done \/ UNCHANGED vars
  BY <1>7 DEF Done, vars, loopVars, dispatchVars, L!vars, L!commandVars, L!loopVars
<1> QED BY <1>1, <1>2, <1>3, <1>4, <1>5, <1>6, <1>7 DEF Next

LEMMA LoopInitInv == ASSUME L!Init PROVE LP!TypeOK /\ LP!Reason /\ LP!DrainInv
<1>1. LP!Init
  BY SameLoop
<1>2. LP!Reason
  BY <1>1 DEF LP!Init, LP!Reason, LP!Looped
<1> QED BY <1>1, <1>2, Assumptions, LP!InitType, LP!InitDrain

LEMMA LoopNextInv ==
  ASSUME LP!TypeOK, LP!Reason, LP!DrainInv, L!Next \/ UNCHANGED L!vars
  PROVE  LP!TypeOK' /\ LP!Reason' /\ LP!DrainInv'
<1>1. [LP!Next]_(LP!vars)
  BY SameLoop
<1> QED BY <1>1, Assumptions, LP!StepType, LP!StepReason, LP!StepDrain

LEMMA LoopKept ==
  ASSUME DteeInv, [Next]_vars
  PROVE  Loop'
<1>1. CASE Setup
  <2>0. UNCHANGED loopVars
    BY <1>1 DEF Setup
  <2>1. CASE D!Open
    BY <1>1, <2>0, <2>1 DEF DteeInv, Loop, Unforked, Served, D!Open, loopVars, L!Init, L!Handled,
       L!InterruptSignals, L!PipeSignals
  <2>2. CASE D!OpenFails
    BY <1>1, <2>0, <2>2 DEF DteeInv, Loop, Unforked, Served, D!OpenFails, D!DispatchError,
       loopVars,
       L!Init, L!Handled, L!InterruptSignals, L!PipeSignals, D!Error, L!Error, NewProcess,
       L!NewProcess
  <2>3. CASE D!SetupFails \/ D!ForkFails
    BY <2>3 DEF Loop, Unforked, Served, D!SetupFails, D!ForkFails
  <2>4. CASE D!ForkSucceeds
    <3>1. L!Init /\ UNCHANGED L!vars
      BY <2>0, <2>4 DEF DteeInv, Loop, Unforked, D!ForkSucceeds, loopVars, L!vars, L!commandVars,
         L!loopVars
    <3>2. LP!TypeOK' /\ LP!Reason' /\ LP!DrainInv'
      BY <3>1, LoopInitInv, LoopNextInv
    <3> QED BY <2>4, <3>2 DEF Loop, Unforked, D!ForkSucceeds
  <2> QED BY <1>1, <2>1, <2>2, <2>3, <2>4 DEF Setup, D!CloseFails
<1>2. CASE ~Setup /\ Served
  <2>1. LP!TypeOK' /\ LP!Reason' /\ LP!DrainInv'
    BY <1>2, LoopStep, LoopNextInv DEF DteeInv, Loop
  <2>2. ~Unforked'
    BY <1>2, DispatchStep DEF Served, Unforked, dispatchVars, D!Next, D!Open, D!OpenFails,
       D!SetupFails, D!ForkFails, D!ForkSucceeds, D!CloseFails, D!StartLoop, D!Output,
       D!Throw, D!LoopThrows, D!OutputThrows, D!ReadFailsThrows, D!InterruptedThrows,
       D!TerminatedThrows, D!MainLoopException, D!CommandTerminated, D!DteeInterrupted,
       D!ReadFails, D!LoopEnds, D!Report, D!Exit, D!Done, D!vars
  <2> QED BY <2>1, <2>2 DEF Loop
<1>3. CASE ~Setup /\ Unforked
  <2>1. L!Init
    BY <1>3 DEF DteeInv, Loop
  <2>2. UNCHANGED vars
    BY <1>3, <2>1 DEF Unforked, L!Init, Next, CommandWrites, CommandChanges, SendSignal, Forked,
       CloseFails, D!CloseFails, Start, D!StartLoop, Receive, L!Receive, L!Looping, ReceiveFails,
       L!ReceiveFails, ChildExited, L!ChildExited, Interrupt, L!Interrupt, LoopThrows,
       L!LoopThrows, ReceiveThrows, L!ReceiveThrows, ReceiveFailsThrows, L!ReceiveFailsThrows,
       ChildExitedThrows, L!ChildExitedThrows, InterruptThrows, L!InterruptThrows, L!Throw,
       MainLoopException, L!MainLoopException, LoopTurns, L!RunReturns, L!PollAgain, LoopEnds, L!PollDone,
       StopSignals, L!StopSignals, Report, ResetSignals, Exit, D!Exit, Done
  <2>3. L!Init'
    BY <2>1, <2>2 DEF vars, dispatchVars, loopVars, L!Init, L!Handled, L!InterruptSignals,
       L!PipeSignals
  <2>4. phase' = phase /\ process' = process
    BY <2>2 DEF vars, dispatchVars
  <2> QED BY <1>3, <2>3, <2>4 DEF DteeInv, Loop, Unforked, Served
<1>4. CASE ~Served /\ ~Unforked
  <2>1. phase' = phase
    BY <1>4, DispatchStep DEF Served, Unforked, dispatchVars, D!Next, D!Open, D!OpenFails,
       D!SetupFails, D!ForkFails, D!ForkSucceeds, D!CloseFails, D!StartLoop, D!Output,
       D!Throw, D!LoopThrows, D!OutputThrows, D!ReadFailsThrows, D!InterruptedThrows,
       D!TerminatedThrows, D!MainLoopException, D!CommandTerminated, D!DteeInterrupted,
       D!ReadFails, D!LoopEnds, D!Report, D!Exit, D!Done, D!vars
  <2> QED BY <1>4, <2>1 DEF Loop, Served, Unforked
<1> QED BY <1>1, <1>2, <1>3, <1>4

(* An exception leaves the main loop. *)
ThrowsAway ==
  \/ LoopThrows \/ ReceiveThrows \/ ReceiveFailsThrows \/ ChildExitedThrows
  \/ \E signum \in L!InterruptSignals \cup L!PipeSignals : InterruptThrows(signum)

LEMMA ExpectedKept ==
  ASSUME DteeInv, [Next]_vars
  PROVE  Expected'
<1> USE DEF DteeInv, Expected
<1>1. CASE CommandWrites \/ CommandChanges
  BY <1>1 DEF CommandWrites, CommandChanges, L!CommandWrites, L!CommandEnds, L!CommandStops,
     L!CommandContinues, L!ChildSignal, L!SIGCHLD, SIGCHLD
<1>2. CASE \E signum \in SentSignals : SendSignal(signum)
  BY <1>2 DEF SendSignal, L!SendSignal, L!commandVars
<1>3. CASE Setup \/ Report \/ Done \/ UNCHANGED vars
  BY <1>3 DEF Setup, Report, Done, vars, loopVars
<1>4. CASE CloseFails \/ Start \/ ReceiveFails \/ LoopEnds \/ Exit \/ Receive
  BY <1>4 DEF CloseFails, Start, ReceiveFails, LoopEnds, Exit, Receive, L!CloseFails, L!Start,
     L!ReceiveFails, L!PollDone, L!Exit, L!Receive, L!commandVars
<1>5. CASE ChildExited \/ \E signum \in L!InterruptSignals \cup L!PipeSignals : Interrupt(signum)
  BY <1>5 DEF ChildExited, Interrupt, L!ChildExited, L!WaitForChild, L!Interrupt, L!commandVars
<1>6. CASE ThrowsAway
  BY <1>6 DEF ThrowsAway, LoopThrows, ReceiveThrows, ReceiveFailsThrows, ChildExitedThrows,
     InterruptThrows, L!Throw, L!LoopThrows, L!ReceiveThrows, L!ReceiveFailsThrows,
     L!ChildExitedThrows, L!WaitForChild, L!InterruptThrows
<1>7. CASE MainLoopException \/ LoopTurns \/ StopSignals \/ ResetSignals
  BY <1>7 DEF MainLoopException, LoopTurns, StopSignals, ResetSignals, L!MainLoopException,
     L!RunReturns, L!PollAgain, L!StopSignals, L!ResetSignals, L!commandVars
<1> QED BY <1>1, <1>2, <1>3, <1>4, <1>5, <1>6, <1>7 DEF Next, ThrowsAway

(* What is recorded besides the end of the command does not change it.     *)
LEMMA EndKept ==
  ASSUME NEW p \in DP!ProcessType, NEW type, NEW signum
  PROVE  /\ D!Error(p, type).terminated = p.terminated
         /\ D!Error(p, type).exit_status = p.exit_status
         /\ D!Error(p, type).exit_signum = p.exit_signum
         /\ D!Interrupted(p, signum).terminated = p.terminated
         /\ D!Interrupted(p, signum).exit_status = p.exit_status
         /\ D!Interrupted(p, signum).exit_signum = p.exit_signum
BY DEF DP!ProcessType, D!Error, D!Interrupted

LEMMA KnownKept ==
  ASSUME DteeInv, [Next]_vars
  PROVE  Known'
<1>0. Known /\ process \in DP!ProcessType
  BY Zenon DEF DteeInv, Copied, DP!LossInv, DP!OrderInv, DP!TypeOK
<1>a. ASSUME UNCHANGED <<child, ended>>,
             \/ process' = process
             \/ \E type : process' = D!Error(process, type)
             \/ \E signum : process' = D!Interrupted(process, signum)
      PROVE  Known'
  BY <1>0, <1>a, EndKept DEF Known
<1>1. CASE CommandWrites \/ \E signum \in SentSignals : SendSignal(signum)
  BY <1>1, <1>a DEF CommandWrites, SendSignal, L!CommandWrites, L!SendSignal, L!commandVars
<1>2. CASE CommandChanges
  <2>1. process' = process /\ child # "reaped"
    BY <1>2 DEF CommandChanges, L!CommandEnds, L!CommandStops, L!CommandContinues
  <2> QED BY <1>0, <2>1 DEF Known
<1>3. CASE Setup
  <2>1. UNCHANGED <<child, ended>>
    BY <1>3 DEF Setup, loopVars
  <2>2. process' = process \/ \E type : process' = D!Error(process, type)
    BY <1>3 DEF Setup, D!Open, D!OpenFails, D!SetupFails, D!ForkFails, D!ForkSucceeds, D!DispatchError
  <2> QED BY <1>a, <2>1, <2>2
<1>4. CASE CloseFails \/ ReceiveFails \/ MainLoopException
  <2>1. UNCHANGED <<child, ended>>
    BY <1>4 DEF CloseFails, ReceiveFails, MainLoopException, L!CloseFails, L!ReceiveFails,
       L!MainLoopException, L!commandVars
  <2>2. \E type : process' = D!Error(process, type)
    BY <1>4 DEF CloseFails, ReceiveFails, MainLoopException, D!CloseFails, D!ReadFails,
       D!MainLoopException, D!DispatchError
  <2> QED BY <1>a, <2>1, <2>2
<1>5. CASE Receive
  <2>1. UNCHANGED <<child, ended>>
    BY <1>5 DEF Receive, L!Receive, L!commandVars
  <2>2. process' = process \/ process' = D!Error(process, "WRITE_OUTPUT")
    BY <1>5 DEF Receive, D!Output, D!DispatchOutput
  <2> QED BY <1>a, <2>1, <2>2
<1>6. CASE ChildExited \/ ChildExitedThrows
  <2>1. CASE child = "zombie"
    <3>1. child' = "reaped" /\ ended' = ended /\ process' = D!Terminated(process, ended[1], ended[2])
      BY <1>6, <2>1 DEF ChildExited, L!ChildExited, D!CommandTerminated, ChildExitedThrows,
         L!ChildExitedThrows, L!Throw, L!WaitForChild, D!TerminatedThrows
    <3>2. process'.exit_status = ended[1] /\ process'.exit_signum = ended[2]
      BY <1>0, <3>1 DEF D!Terminated, DP!ProcessType
    <3> QED BY <3>1, <3>2 DEF Known
  <2>2. CASE child # "zombie"
    BY <1>6, <1>a, <2>2 DEF ChildExited, L!ChildExited, D!DteeInterrupted, ChildExitedThrows,
       L!ChildExitedThrows, L!Throw, L!WaitForChild, D!InterruptedThrows
  <2> QED BY <2>1, <2>2
<1>7. ASSUME NEW signum, Interrupt(signum) \/ InterruptThrows(signum)
      PROVE  Known'
  BY <1>7, <1>a DEF Interrupt, L!Interrupt, D!DteeInterrupted, L!commandVars, InterruptThrows,
     L!InterruptThrows, L!Throw, D!InterruptedThrows
<1>8. CASE LoopThrows \/ ReceiveThrows \/ ReceiveFailsThrows
  <2>1. UNCHANGED <<child, ended>>
    BY <1>8 DEF LoopThrows, ReceiveThrows, ReceiveFailsThrows, L!Throw, L!LoopThrows,
       L!ReceiveThrows, L!ReceiveFailsThrows
  <2>2. process' = process \/ \E type : process' = D!Error(process, type)
    BY <1>8 DEF LoopThrows, ReceiveThrows, ReceiveFailsThrows, D!LoopThrows, D!OutputThrows,
       D!DispatchOutput, D!ReadFailsThrows
  <2> QED BY <1>a, <2>1, <2>2
<1>9. CASE Start \/ LoopEnds \/ Exit \/ Report
  BY <1>9, <1>a DEF Start, LoopEnds, Exit, Report, D!StartLoop, D!LoopEnds, D!Exit, D!Report,
     L!Start, L!PollDone, L!Exit, L!commandVars, loopVars
<1>10. CASE LoopTurns \/ StopSignals \/ ResetSignals \/ Done \/ UNCHANGED vars
  BY <1>10, <1>a DEF LoopTurns, StopSignals, ResetSignals, Done, vars, loopVars, L!RunReturns,
     L!PollAgain, L!StopSignals, L!ResetSignals, L!commandVars
<1> QED BY <1>1, <1>2, <1>3, <1>4, <1>5, <1>6, <1>7, <1>9, <1>10, <1>8 DEF Next

(* What a step may do to the messages on their way. *)
Sends(type, len) ==
  /\ messages' = Append(messages, [type |-> type, len |-> len, from |-> Len(input)])
  /\ input' = input \o [i \in 1..len |-> type]
  /\ socket' = Append(socket, written + 1)
  /\ written' = written + 1
  /\ UNCHANGED received
Consumes ==
  /\ socket # <<>> /\ socket' = Tail(socket)
  /\ D!Receive(messages[Head(socket)].type, messages[Head(socket)].len)
  /\ UNCHANGED <<messages, input, written>>
TakesNothing == UNCHANGED <<received, messages, input, socket, written>>

LEMMA OnTheWay ==
  ASSUME DteeInv, [Next]_vars
  PROVE  \/ \E type \in OutputType, len \in 0..MaxLength : Sends(type, len)
         \/ Consumes \/ TakesNothing
<1>1. CASE CommandWrites
  BY <1>1 DEF CommandWrites, L!CommandWrites, L!Send, Sends, dispatchVars
<1>2. CASE Receive \/ ReceiveThrows
  BY <1>2 DEF Receive, D!Output, L!Receive, L!commandVars, ReceiveThrows, D!OutputThrows,
     L!ReceiveThrows, L!Throw, Consumes, history
<1> USE DEF TakesNothing, history
<1>3. CASE MainLoopException \/ (ThrowsAway /\ ~ReceiveThrows)
  BY <1>3 DEF MainLoopException, D!MainLoopException, L!MainLoopException, L!commandVars,
     ThrowsAway, LoopThrows, D!LoopThrows, L!LoopThrows, ReceiveFailsThrows, D!ReadFailsThrows,
     L!ReceiveFailsThrows, ChildExitedThrows, D!TerminatedThrows, D!InterruptedThrows,
     L!ChildExitedThrows, InterruptThrows, L!InterruptThrows, L!Throw
<1>4. CASE Setup \/ Report
  BY <1>4 DEF Setup, Report, loopVars, D!Open, D!OpenFails, D!SetupFails, D!ForkFails,
     D!ForkSucceeds, D!Report
<1>5. CASE CommandChanges \/ \E signum \in SentSignals : SendSignal(signum)
  BY <1>5 DEF CommandChanges, SendSignal, dispatchVars, L!CommandEnds, L!CommandStops,
     L!CommandContinues, L!SendSignal, L!commandVars
<1>6. CASE CloseFails \/ Start \/ ReceiveFails \/ LoopEnds \/ Exit
  BY <1>6 DEF CloseFails, Start, ReceiveFails, LoopEnds, Exit, L!CloseFails, L!Start,
     L!ReceiveFails, L!PollDone, L!Exit, L!commandVars, D!CloseFails, D!StartLoop, D!ReadFails,
     D!LoopEnds, D!Exit
<1>7. CASE ChildExited \/ \E signum \in L!InterruptSignals \cup L!PipeSignals : Interrupt(signum)
  BY <1>7 DEF ChildExited, Interrupt, L!ChildExited, L!Interrupt, L!commandVars,
     D!CommandTerminated, D!DteeInterrupted
<1>8. CASE LoopTurns \/ StopSignals \/ ResetSignals
  BY <1>8 DEF LoopTurns, StopSignals, ResetSignals, L!RunReturns, L!PollAgain, L!StopSignals,
     L!ResetSignals, L!commandVars, dispatchVars
<1>9. CASE Done \/ UNCHANGED vars
  BY <1>9 DEF Done, vars, loopVars, dispatchVars
<1> QED BY <1>1, <1>2, <1>3, <1>4, <1>5, <1>6, <1>7, <1>8, <1>9 DEF Next, ThrowsAway

(* Units that are added to a sequence.                                     *)
LEMMA Added ==
  ASSUME NEW s \in Seq(OutputType), NEW type \in OutputType, NEW len \in Nat
  PROVE  /\ s \o [i \in 1..len |-> type] \in Seq(OutputType)
         /\ Len(s \o [i \in 1..len |-> type]) = Len(s) + len
         /\ \A i \in 1..Len(s) : (s \o [j \in 1..len |-> type])[i] = s[i]
         /\ \A i \in 1..len : (s \o [j \in 1..len |-> type])[Len(s) + i] = type
<1> DEFINE more == [i \in 1..len |-> type]
<1>1. more \in Seq(OutputType) /\ Len(more) = len /\ \A i \in 1..len : more[i] = type
  OBVIOUS
<1> HIDE DEF more
<1>2. Len(s) \in Nat
  BY LenProperties
<1>3. /\ s \o more \in Seq(OutputType) /\ Len(s \o more) = Len(s) + len
      /\ \A i \in 1..(Len(s) + len) : (s \o more)[i] = IF i <= Len(s) THEN s[i] ELSE more[i - Len(s)]
  BY <1>1, ConcatProperties
<1>4. \A i \in 1..Len(s) : (s \o more)[i] = s[i]
  BY <1>2, <1>3
<1>5. ASSUME NEW i \in 1..len
      PROVE  (s \o more)[Len(s) + i] = type
  <2>1. Len(s) + i \in 1..(Len(s) + len) /\ ~(Len(s) + i <= Len(s)) /\ Len(s) + i - Len(s) = i
    BY <1>2
  <2> QED BY <1>1, <1>3, <2>1
<1> QED BY <1>3, <1>4, <1>5 DEF more

LEMMA LinkNothing ==
  ASSUME DteeInv, TakesNothing
  PROVE  Link'
BY DEF DteeInv, Link, Written, Waiting, Taken, TakesNothing, From

LEMMA LinkConsumes ==
  ASSUME DteeInv, Consumes
  PROVE  Link'
<1>1. socket # <<>>
  BY DEF Consumes
<1>0. PICK k \in 1..written : k = Head(socket)
  BY <1>1, HeadMessage
<1>2. /\ k \in 1..written /\ messages[k].type \in OutputType /\ messages[k].len \in Nat
      /\ k = written - Len(socket) + 1 /\ written \in Nat /\ Len(socket) \in Nat \ {0}
      /\ messages[k] \in MessageType
  BY <1>0, <1>1, HeadMessage
<1>3. /\ Tail(socket) \in Seq(Nat) /\ Len(Tail(socket)) = Len(socket) - 1
      /\ \A i \in 1..(Len(socket) - 1) : Tail(socket)[i] = socket[i + 1]
  BY <1>1, HeadMessage
<1>4. Written'
  BY DEF DteeInv, Link, Written, From, Consumes
<1>5. Waiting'
  <2>1. socket' = Tail(socket) /\ written' = written
    BY DEF Consumes
  <2>2. ASSUME NEW i \in 1..Len(socket')
        PROVE  socket'[i] = written - Len(socket') + i
    <3>1. i + 1 \in 1..Len(socket) /\ i \in 1..(Len(socket) - 1)
      BY <1>2, <1>3, <2>1
    <3>2. socket[i + 1] = written - Len(socket) + (i + 1)
      BY <3>1 DEF DteeInv, Link, Waiting
    <3>3. socket'[i] = socket[i + 1] /\ Len(socket') = Len(socket) - 1
      BY <1>3, <2>1, <3>1
    <3>4. i \in Int
      OBVIOUS
    <3> QED BY <1>2, <3>2, <3>3, <3>4
  <2>3. Len(socket) <= written
    BY DEF DteeInv, Link, Waiting
  <2>4. socket' \in Seq(Nat) /\ Len(socket') <= written
    BY <1>2, <1>3, <2>1, <2>3
  <2> QED BY <2>1, <2>2, <2>4 DEF Waiting
<1>6. Taken'
  <2>0. PICK type \in OutputType, len \in Nat : type = messages[k].type /\ len = messages[k].len
    BY <1>2
  <2>1. received \in Seq(OutputType) /\ received' = received \o [i \in 1..len |-> type]
    BY <1>0, <2>0 DEF DteeInv, Link, Taken, Consumes, D!Receive
  <2>2. /\ received' \in Seq(OutputType) /\ Len(received') = Len(received) + len
        /\ \A i \in 1..Len(received) : received'[i] = received[i]
        /\ \A i \in 1..len : received'[Len(received) + i] = type
    BY <2>1, Added
  <2>3. Len(messages) = written /\ Len(received) \in Nat /\ messages[k].from \in Nat
    BY <1>2, <2>1, LenProperties DEF DteeInv, Link, Written, MessageType
  <2>4. Len(received) = messages[k].from
    BY <1>2, <2>3 DEF DteeInv, Link, Taken, From
  <2>5. /\ From(k + 1) = messages[k].from + len
        /\ From(k + 1) <= Len(input)
        /\ \A i \in 1..len : input[messages[k].from + i] = type
    BY <1>2, <2>0 DEF DteeInv, Link, Written
  <2>6. written' - Len(socket') + 1 = k + 1
    BY <1>2, <1>3 DEF Consumes
  <2>7. ASSUME NEW n \in 1..Len(received')
        PROVE  received'[n] = input[n]
    <3>1. CASE n <= Len(received)
      <4>1. n \in 1..Len(received)
        BY <2>3, <3>1
      <4> QED BY <2>2, <4>1 DEF DteeInv, Link, Taken
    <3>2. CASE ~(n <= Len(received))
      <4>1. n - Len(received) \in 1..len /\ Len(received) + (n - Len(received)) = n
        BY <1>2, <2>2, <2>3, <3>2
      <4>2. received'[n] = type
        BY <2>2, <4>1
      <4>3. input[n] = type
        BY <2>4, <2>5, <4>1
      <4> QED BY <4>2, <4>3
    <3> QED BY <3>1, <3>2
  <2>8. Len(received') = From(k + 1)
    BY <2>2, <2>4, <2>5
  <2>9. UNCHANGED <<messages, input, written>>
    BY DEF Consumes
  <2>10. Len(received') = From(written - Len(socket) + 1)'
    BY <2>6, <2>8, <2>9 DEF From
  <2> QED BY <2>2, <2>5, <2>7, <2>8, <2>9, <2>10 DEF Taken
<1> QED BY <1>4, <1>5, <1>6 DEF Link

LEMMA LinkSends ==
  ASSUME DteeInv, NEW type \in OutputType, NEW len \in 0..MaxLength, Sends(type, len)
  PROVE  Link'
<1> DEFINE m == [type |-> type, len |-> len, from |-> Len(input)]
<1>0. len \in Nat /\ input \in Seq(OutputType) /\ Len(input) \in Nat
  BY Types, LenProperties DEF DteeInv, Link, Written
<1>1. /\ messages \in Seq(MessageType) /\ Len(messages) = written /\ written \in Nat
      /\ m \in MessageType
  <2>1. messages \in Seq(MessageType) /\ Len(messages) = written
    BY DEF DteeInv, Link, Written
  <2>2. m \in MessageType
    BY <1>0 DEF MessageType
  <2> QED BY <2>1, <2>2, LenProperties
<1>2. m.type = type /\ m.len = len /\ m.from = Len(input)
  OBVIOUS
<1>3. messages' = Append(messages, m)
  BY DEF Sends
<1> HIDE DEF m
<1>4. /\ messages' \in Seq(MessageType) /\ Len(messages') = written + 1
      /\ \A k \in 1..written : messages'[k] = messages[k]
      /\ messages'[written + 1] = m
  BY <1>1, <1>3, AppendProperties
<1>5. /\ input' \in Seq(OutputType) /\ Len(input') = Len(input) + len
      /\ \A i \in 1..Len(input) : input'[i] = input[i]
      /\ \A i \in 1..len : input'[Len(input) + i] = type
  BY <1>0, Added DEF Sends
<1>6. written' = written + 1
  BY DEF Sends
(* What follows the messages written so far is the new one. *)
<1>7. ASSUME NEW k \in 1..(written + 1)
      PROVE  From(k)' = From(k)
  <2>1. CASE k <= written
    <3>1. k \in 1..written /\ ~(k > written) /\ ~(k > written + 1)
      BY <1>1, <2>1
    <3> QED BY <1>1, <1>4, <3>1 DEF From
  <2>2. CASE k = written + 1
    <3>1. k > written /\ ~(k > written + 1)
      BY <1>1, <2>2
    <3> QED BY <1>1, <1>2, <1>4, <2>2, <3>1 DEF From
  <2> QED BY <1>1, <2>1, <2>2
<1>8. Written'
  <2>1. ASSUME NEW k \in 1..written'
        PROVE  /\ From(k + 1)' = messages'[k].from + messages'[k].len
               /\ From(k + 1)' <= Len(input')
               /\ \A i \in 1..messages'[k].len : input'[messages'[k].from + i] = messages'[k].type
    <3>1. CASE k <= written
      <4>1. k \in 1..written /\ k + 1 \in 1..(written + 1)
        BY <1>1, <3>1
      <4>2. messages[k] \in MessageType /\ messages'[k] = messages[k]
        BY <1>1, <1>4, <4>1, ElementOfSeq
      <4>3. /\ From(k + 1) = messages[k].from + messages[k].len
            /\ From(k + 1) <= Len(input)
            /\ \A i \in 1..messages[k].len : input[messages[k].from + i] = messages[k].type
        BY <4>1 DEF DteeInv, Link, Written
      <4>4. From(k + 1)' = From(k + 1)
        BY <1>7, <4>1
      <4>5. messages[k].from \in Nat /\ messages[k].len \in Nat
        BY <4>2, Types DEF MessageType
      <4>6. ASSUME NEW i \in 1..messages[k].len
            PROVE  input'[messages[k].from + i] = messages[k].type
        <5>0. PICK a \in Nat, b \in Nat : a = messages[k].from /\ b = messages[k].len
          BY <4>5
        <5>2. i \in 1..b /\ a + b <= Len(input)
          BY <4>3, <4>6, <5>0
        <5>3. a + i \in 1..Len(input)
          BY <1>0, <5>2
        <5>1. messages[k].from + i \in 1..Len(input)
          BY <5>0, <5>3
        <5> QED BY <1>5, <4>3, <5>1
      <4> QED BY <1>0, <1>5, <4>2, <4>3, <4>4, <4>5, <4>6
    <3>2. CASE k = written + 1
      <4>1. messages'[k] = m
        BY <1>4, <3>2
      <4>2. k + 1 > Len(messages')
        BY <1>1, <1>4, <3>2
      <4>3. From(k + 1)' = Len(input')
        BY <4>2 DEF From
      <4>4. From(k + 1)' = Len(input) + len /\ From(k + 1)' <= Len(input')
        BY <1>0, <1>5, <4>3
      <4> QED BY <1>2, <1>5, <4>1, <4>4
    <3> QED BY <1>1, <1>6, <3>1, <3>2
  <2> QED BY <1>4, <1>5, <1>6, <2>1 DEF Written
<1>9. Waiting'
  <2>1. /\ socket \in Seq(Nat) /\ Len(socket) \in Nat /\ Len(socket) <= written
        /\ \A i \in 1..Len(socket) : socket[i] = written - Len(socket) + i
    BY LenProperties DEF DteeInv, Link, Waiting
  <2>2. /\ socket' \in Seq(Nat) /\ Len(socket') = Len(socket) + 1
        /\ \A i \in 1..Len(socket) : socket'[i] = socket[i]
        /\ socket'[Len(socket) + 1] = written + 1
    <3>1. socket' = Append(socket, written + 1) /\ written + 1 \in Nat
      BY <1>1 DEF Sends
    <3> QED BY <2>1, <3>1, AppendProperties
  <2>3. ASSUME NEW i \in 1..Len(socket')
        PROVE  socket'[i] = written' - Len(socket') + i
    <3>1. CASE i <= Len(socket)
      <4>1. i \in 1..Len(socket) /\ i \in Int
        BY <2>1, <3>1
      <4> QED BY <1>1, <1>6, <2>1, <2>2, <4>1
    <3>2. CASE i = Len(socket) + 1
      BY <1>1, <1>6, <2>1, <2>2, <3>2
    <3> QED BY <2>1, <2>2, <3>1, <3>2
  <2> QED BY <1>1, <1>6, <2>1, <2>2, <2>3 DEF Waiting
<1>10. Taken'
  <2>1. Len(socket) \in Nat /\ Len(socket) <= written /\ Len(socket') = Len(socket) + 1
    <3>1. socket \in Seq(Nat) /\ Len(socket) <= written
      BY DEF DteeInv, Link, Waiting
    <3>2. socket' = Append(socket, written + 1) /\ written + 1 \in Nat
      BY <1>1 DEF Sends
    <3> QED BY <3>1, <3>2, LenProperties, AppendProperties
  <2>2. PICK k \in 1..(written + 1) : k = written - Len(socket) + 1
    BY <1>1, <2>1
  <2>3. written' - Len(socket') + 1 = k
    BY <1>1, <1>6, <2>1, <2>2
  <2>4. From(k)' = From(k)
    BY <1>7
  <2>5. /\ received \in Seq(OutputType) /\ Len(received) = From(k) /\ Len(received) <= Len(input)
        /\ \A n \in 1..Len(received) : received[n] = input[n]
    BY <2>2 DEF DteeInv, Link, Taken
  <2>6. received' = received /\ Len(received) \in Nat
    BY <2>5, LenProperties DEF Sends
  <2>7. Len(received') = From(written - Len(socket) + 1)'
    BY <2>3, <2>4, <2>5, <2>6 DEF From
  <2>8. \A n \in 1..Len(received) : n \in 1..Len(input)
    BY <1>0, <2>5, <2>6
  <2> QED BY <1>0, <1>5, <2>5, <2>6, <2>7, <2>8 DEF Taken
<1> QED BY <1>8, <1>9, <1>10 DEF Link

(* The main loop leaves nothing behind once it knows of the command's end. *)
LEMMA AllTaken ==
  ASSUME DteeInv, Served, place = "exiting", process.terminated, ~L!Deaf
  PROVE  Len(received) = Len(input)
<1>1. delivered = written /\ LP!Queued
  <2>1. LP!DrainInv
    BY DEF DteeInv, Loop
  <2>2. LP!Queued /\ LP!Drained
    BY <2>1, Zenon DEF LP!DrainInv
  <2>3. ~LP!Deaf
    BY DEF L!Deaf, LP!Deaf
  <2> QED BY <2>2, <2>3 DEF LP!Drained, LP!Looped
<1>2. socket = <<>>
  <2> SUFFICES ASSUME socket # <<>> PROVE FALSE
    OBVIOUS
  <2>1. socket[1] \in 1..written /\ written \in Nat /\ Len(socket) \in Nat \ {0}
    BY HeadMessage
  <2>2. socket \in Seq(Nat)
    BY DEF DteeInv, Link, Waiting
  <2>3. 1 \in DOMAIN socket
    BY <2>1, <2>2, LenProperties
  <2>4. socket[1] > 0 => socket[1] > written
    BY <1>1, <2>3 DEF LP!Queued, LP!Messages
  <2> QED BY <2>1, <2>4
<1>3. Len(socket) = 0 /\ Len(messages) = written /\ written \in Nat
  <2>1. messages \in Seq(MessageType) /\ Len(messages) = written
    BY DEF DteeInv, Link, Written
  <2> QED BY <1>2, <2>1, LenProperties, EmptySeq
<1>4. Len(received) = From(written - Len(socket) + 1)
  BY DEF DteeInv, Link, Taken
<1>5. written - Len(socket) + 1 = written + 1 /\ written + 1 > Len(messages)
  BY <1>3
<1> QED BY <1>4, <1>5 DEF From

(* An exit status, or a signal. *)
LEMMA Ended ==
  ASSUME NEW p \in DP!ProcessType
  PROVE  /\ D!ExitStatus(p) \in 0..255 /\ D!Exited(D!ExitStatus(p)) # D!Running
         /\ \A signum \in D!Raised(p) : signum \in 1..64 /\ D!Killed(signum) # D!Running
<1>1. DP!ExitStatus(p) \in 0..255
  BY Assumptions, DP!ProcessProperties DEF DP!ExitCode
<1>2. D!ExitStatus(p) = DP!ExitStatus(p)
  BY DEF D!ExitStatus, DP!ExitStatus, D!EX_SOFTWARE, DP!EX_SOFTWARE, D!SHELL_EXIT_CODE_SIGNAL,
     DP!SHELL_EXIT_CODE_SIGNAL, D!ErrorExitCode, DP!ErrorExitCode, D!EX_CANTCREAT, DP!EX_CANTCREAT,
     D!EX_IOERR, DP!EX_IOERR, D!EX_NOINPUT, DP!EX_NOINPUT, D!EX_OSERR, DP!EX_OSERR,
     D!EX_UNAVAILABLE, DP!EX_UNAVAILABLE
<1>3. D!Raised(p) \subseteq 1..64
  BY DEF D!Raised, D!ReplicatedSignals, D!SIGHUP, D!SIGINT, D!SIGPIPE, D!SIGTERM
<1>4. \A n \in 0..255 : D!Exited(n) # D!Running
  BY DEF D!Exited, D!Running
<1>5. \A n \in 1..64 : D!Killed(n) # D!Running
  BY DEF D!Killed, D!Running
<1> QED BY <1>1, <1>2, <1>3, <1>4, <1>5

LEMMA FinalKept ==
  ASSUME DteeInv, [Next]_vars
  PROVE  Final'
<1>0. process \in DP!ProcessType /\ process' \in DP!ProcessType
  <2>1. DP!TypeOK /\ DP!TypeOK'
    BY CopiedStep DEF DteeInv, Copied, DP!LossInv, DP!OrderInv
  <2> QED BY <2>1 DEF DP!TypeOK
<1>1. CASE Setup /\ phase' = "exited"
  <2>1. /\ Unforked /\ outcome' = D!Exited(D!ExitStatus(process'))
        /\ \E type \in DP!ErrorType \ {"NONE"} : process' = D!Error(process, type)
    BY <1>1 DEF DP!ErrorType, Setup, D!Open, D!OpenFails, D!SetupFails, D!ForkFails,
       D!ForkSucceeds, D!GiveUp,
       D!DispatchError, Unforked
  <2>2. ~process.terminated
    BY <2>1 DEF DteeInv, Loop, Unforked, L!Init, L!Error, L!NewProcess, NewProcess
  <2>3. ~process'.terminated /\ process'.error # "NONE"
    BY <1>0, <2>1, <2>2 DEF D!Error, DP!ProcessType
  <2> HIDE DEF D!ExitStatus, D!Exited, D!Raised, D!Killed
  <2>4. outcome' # D!Running
    BY <1>0, <2>1, Ended
  <2> QED BY <2>1, <2>3, <2>4 DEF Final, LP!Recorded
<1>2. CASE Exit
  <2>1. /\ phase = "reported" /\ place = "exiting" /\ process' = process
        /\ \/ \E signum \in D!Raised(process) : outcome' = D!Killed(signum)
           \/ outcome' = D!Exited(D!ExitStatus(process))
        /\ received' = received /\ input' = input
    BY <1>2 DEF Exit, D!Exit, L!Exit, history
  <2>2. outcome' # D!Running
    BY <1>0, <2>1, Ended
  <2>3. process.terminated /\ ~L!Deaf => Len(received) = Len(input)
    BY <2>1, AllTaken DEF Served
  <2>4. LP!Recorded
    BY <2>1, Zenon DEF DteeInv, Loop, Served, LP!Reason, LP!Looped
  <2> QED BY <2>1, <2>2, <2>3, <2>4 DEF Final, L!Deaf, D!Running, LP!Recorded
<1>3. CASE phase = "exited"
  <2>1. UNCHANGED <<outcome, process, received, phase>>
    BY <1>3, DispatchStep DEF dispatchVars, D!Next, D!Open, D!OpenFails, D!SetupFails, D!ForkFails,
       D!ForkSucceeds, D!CloseFails, D!StartLoop, D!Output, D!Throw, D!LoopThrows, D!OutputThrows,
       D!ReadFailsThrows, D!InterruptedThrows, D!TerminatedThrows, D!MainLoopException,
       D!CommandTerminated, D!DteeInterrupted, D!ReadFails, D!LoopEnds, D!Report, D!Exit, D!Done,
       D!vars
  <2>2. ~CommandWrites
    BY <1>3 DEF DteeInv, Final, CommandWrites, Forked
  <2>3. input' = input
    BY <2>2 DEF Next, Setup, CommandChanges, SendSignal, CloseFails, Start, Receive, ReceiveFails,
       ChildExited, Interrupt, LoopThrows, ReceiveThrows, ReceiveFailsThrows, ChildExitedThrows,
       InterruptThrows, MainLoopException, LoopTurns, LoopEnds, StopSignals, Report,
       ResetSignals, Exit, Done, vars, history
  <2> QED BY <1>3, <2>1, <2>3 DEF DteeInv, Final, L!Deaf, D!Running, LP!Recorded
<1>4. CASE phase # "exited" /\ ~Setup /\ ~Exit
  <2>1. phase' # "exited"
    BY <1>4 DEF Next, CommandWrites, CommandChanges, SendSignal, CloseFails, Start, Receive,
       ReceiveFails, ChildExited, Interrupt, LoopThrows, ReceiveThrows, ReceiveFailsThrows,
       ChildExitedThrows, InterruptThrows, MainLoopException, LoopTurns, LoopEnds, StopSignals,
       Report, ResetSignals, Done, vars, dispatchVars, D!CloseFails, D!StartLoop, D!Output,
       D!ReadFails, D!CommandTerminated, D!DteeInterrupted, D!Throw, D!LoopThrows,
       D!OutputThrows, D!ReadFailsThrows, D!InterruptedThrows, D!TerminatedThrows,
       D!MainLoopException, D!LoopEnds,
       D!Report
  <2> QED BY <2>1 DEF Final
<1>5. CASE phase' # "exited"
  BY <1>5 DEF Final
<1> QED BY <1>1, <1>2, <1>3, <1>4, <1>5

LEMMA NextInv == DteeInv /\ [Next]_vars => DteeInv'
<1> SUFFICES ASSUME DteeInv, [Next]_vars PROVE DteeInv'
  OBVIOUS
<1>1. Link'
  BY OnTheWay, LinkSends, LinkConsumes, LinkNothing
<1> QED BY <1>1, CopiedStep, LoopKept, ExpectedKept, KnownKept, FinalKept DEF DteeInv
------------------------------------------------------------------------------
(* dtee does what Tee says *)

LEMMA IsShown == \A s, n : n \in ToSet(Seqs(s)) <=> DP!Holds(s, n)
BY DEF ToSet, Seqs, DP!Holds

LEMMA TroubleIs ==
  DP!Trouble <=> \/ process.error # "NONE" \/ process.interrupt_signum >= 0
                 \/ process.terminated /\ process.exit_status # EXIT_SUCCESS
BY Types DEF DP!Trouble

LEMMA TakesIs == \A f, type : D!Takes(f, type) <=> DP!Takes(f, type)
BY DEF D!Takes, DP!Takes

LEMMA TeeState ==
  ASSUME DteeInv
  PROVE  T!Genuine /\ T!InOrder /\ (~DP!Trouble /\ "EXCEPTION" \notin alarms => T!Complete)
<1>0. /\ DP!LossInv /\ DP!Early /\ DP!OrderInv /\ DP!FilesInv
      /\ received \in Seq(OutputType) /\ Len(received) \in Nat /\ Len(received) <= Len(input)
      /\ \A n \in 1..Len(received) : received[n] = input[n]
      /\ Len(input) \in Nat
  BY LenProperties DEF DteeInv, Copied, DP!LossInv, Link, Taken, Written
<1>1. stream \in Seq(DP!Shown) /\ DOMAIN stream = 1..Len(stream)
  BY <1>0, LenProperties DEF DP!OrderInv, DP!TypeOK, DP!StreamTypeOK
<1>2. /\ DOMAIN Seqs(stream) = DOMAIN stream
      /\ \A i \in DOMAIN stream : Seqs(stream)[i] = stream[i].seq
  BY DEF Seqs
<1>3. DP!ShownInOrder
  BY <1>0, Assumptions, DP!OrderImpliesShown
<1>4. \A i \in DOMAIN stream : stream[i].seq \in 1..Len(received)
  BY <1>3 DEF DP!ShownInOrder
<1>5. Len(Seqs(stream)) = Len(stream) /\ Len(stream) \in Nat
  BY <1>1, <1>2, LenProperties DEF Seqs
<1>6. T!InOrder
  <2>1. CASE "EXCEPTION" \notin alarms
    <3>1. phase # "threw"
      BY <1>0, <2>1 DEF DP!OrderInv, DP!Breaking
    <3>2. buffered => stream = <<>>
      BY <1>0, <3>1 DEF DP!OrderInv, DP!Buffering
    <3>3. Seqs(<<>>) = <<>>
      BY DEF Seqs
    <3>4. \A i, j \in DOMAIN stream : i < j => stream[i].seq < stream[j].seq
      BY <1>3, <2>1 DEF DP!ShownInOrder, DP!InSequence
    <3>5. \A i, j \in DOMAIN Seqs(stream) : i < j => Seqs(stream)[i] < Seqs(stream)[j]
      BY <1>2, <3>4
    <3>6. Seqs(stream) # <<>> => ~buffered
      BY <3>2, <3>3
    <3> QED BY <2>1, <3>5, <3>6 DEF T!InOrder
  <2>2. CASE "EXCEPTION" \in alarms
    <3>1. \E k \in 0..Len(stream) :
            \A i, j \in DOMAIN stream : i < j /\ (j <= k \/ i > k) => stream[i].seq < stream[j].seq
      <4>1. CASE cron_mode
        BY <1>3, <2>2, <4>1 DEF DP!ShownInOrder, DP!Restarts
      <4>2. CASE ~cron_mode
        <5>1. 0 \in 0..Len(stream)
          BY <1>5
        <5>2. DP!InSequence(stream)
          BY <1>3, <4>2 DEF DP!ShownInOrder
        <5> QED BY <5>1, <5>2 DEF DP!InSequence
      <4> QED BY <4>1, <4>2
    <3>2. PICK k \in 0..Len(stream) :
            \A i, j \in DOMAIN stream : i < j /\ (j <= k \/ i > k) => stream[i].seq < stream[j].seq
      BY <3>1
    <3>3. \A i, j \in DOMAIN Seqs(stream) :
            i < j /\ (j <= k \/ i > k) => Seqs(stream)[i] < Seqs(stream)[j]
      BY <1>2, <3>2
    <3>4. k \in 0..Len(Seqs(stream))
      BY <1>5
    <3> QED BY <2>2, <3>3, <3>4, Zenon DEF T!InOrder
  <2> QED BY <2>1, <2>2
<1>7. T!ShownUnits = {stream[i].seq : i \in DOMAIN stream}
  BY <1>2 DEF T!ShownUnits
<1>8. \A n : buffered /\ n \in ToSet(Seqs(spool)) => n \in 1..Len(received)
  BY <1>0, Assumptions, DP!HeldIsReceived, IsShown
<1>9. ASSUME NEW f \in Files, NEW n \in ToSet(Seqs(content[f])) \ {0}
      PROVE  n \in 1..Len(received) /\ D!Takes(f, input[n])
  <2>1. DP!Holds(content[f], n) /\ n # 0
    BY <1>9, IsShown
  <2>2. n \in 1..Len(received) /\ DP!Takes(f, received[n])
    BY <1>0, <2>1, Assumptions, DP!KeptIsMeant
  <2> QED BY <1>0, <2>2, TakesIs
<1>10. T!Genuine
  BY <1>0, <1>4, <1>7, <1>8, <1>9 DEF T!Genuine
<1>11. ASSUME ~DP!Trouble, "EXCEPTION" \notin alarms, NEW n \in 1..Len(received)
      PROVE  /\ n \in T!ShownUnits \cup (IF buffered THEN ToSet(Seqs(spool)) ELSE {})
             /\ \A f \in Files : D!Takes(f, input[n]) => n \in ToSet(Seqs(content[f])) \ {0}
  <2>0. phase # "threw"
    BY <1>0, <1>11 DEF DP!OrderInv, DP!Breaking
  <2>1. /\ buffered \/ DP!Holds(stream, n)
        /\ \A f \in Files : DP!Takes(f, received[n]) => DP!Holds(content[f], n)
    BY <1>0, <1>11, <2>0, Assumptions, DP!NoTroubleNoLoss
  <2>2. n # 0 /\ received[n] = input[n]
    BY <1>0
  <2>3. DP!Holds(stream, n) => n \in T!ShownUnits
    BY <1>7 DEF DP!Holds
  <2>4. buffered => n \in ToSet(Seqs(spool))
    BY <1>0, <2>0, Assumptions, DP!HeldIsAll, IsShown
  <2> QED BY <2>1, <2>2, <2>3, <2>4, IsShown, TakesIs
<1>12. ~DP!Trouble /\ "EXCEPTION" \notin alarms => T!Complete
  BY <1>11 DEF T!Complete
<1> QED BY <1>6, <1>10, <1>12

(* A longer sequence of units has a longer sequence of numbers. *)
LEMMA ExtendsIs ==
  ASSUME NEW S, NEW T1, NEW a \in Seq(S), NEW b \in Seq(T1), DP!Begins(a, b)
  PROVE  T!Extends(Seqs(b), Seqs(a))
<1>1. /\ Len(a) \in Nat /\ DOMAIN a = 1..Len(a) /\ Len(b) \in Nat /\ DOMAIN b = 1..Len(b)
      /\ Len(a) <= Len(b) /\ \A i \in 1..Len(a) : b[i] = a[i]
  BY LenProperties DEF DP!Begins
<1>2. Len(Seqs(a)) = Len(a) /\ Len(Seqs(b)) = Len(b)
  BY <1>1 DEF Seqs
<1>3. SubSeq(Seqs(b), 1, Len(a)) = [i \in 1..Len(a) |-> b[i].seq]
  BY <1>1, <1>2 DEF Seqs
<1>4. Seqs(a) = [i \in 1..Len(a) |-> b[i].seq]
  BY <1>1 DEF Seqs
<1> QED BY <1>1, <1>2, <1>3, <1>4 DEF T!Extends

LEMMA InitTee == Init => T!Init
<1> SUFFICES ASSUME Init PROVE T!Init
  OBVIOUS
<1>1. /\ D!Init /\ input = <<>>
  BY DEF Init
<1>2. /\ received = <<>> /\ stream = <<>> /\ buffered = FALSE /\ outcome = D!Running /\ alarms = {}
      /\ content = [f \in Files |-> D!Existing] /\ process = D!NewProcess
  BY <1>1 DEF D!Init, D!CronInit, D!FilesInit
<1>3. ToSet(Seqs(D!Existing)) \ {0} = {}
  BY DEF ToSet, Seqs, D!Existing
<1>4. Seqs(<<>>) = <<>>
  BY DEF Seqs
<1> QED BY <1>1, <1>2, <1>3, <1>4, EmptySeq DEF T!Init, D!Running, D!NewProcess

LEMMA CleanSuccess ==
  DP!LossInv /\ outcome.status = 0 => ~DP!Trouble /\ "EXCEPTION" \notin alarms
BY Assumptions, DP!SuccessIsClean, Types DEF DP!EXIT_SUCCESS

LEMMA Grows ==
  ASSUME DteeInv, [Next]_vars
  PROVE  Len(received') >= Len(received)
<1>0. received \in Seq(OutputType) /\ Len(received) \in Nat
  BY LenProperties DEF DteeInv, Link, Taken
<1>1. ASSUME NEW type \in OutputType, NEW len \in Nat, D!Receive(type, len)
      PROVE  Len(received') >= Len(received)
  BY <1>0, <1>1, Added DEF D!Receive
<1>2. CASE Consumes
  BY <1>1, <1>2, HeadMessage, Types DEF Consumes
<1>3. CASE received' = received
  BY <1>0, <1>3
<1> QED BY <1>2, <1>3, OnTheWay DEF Sends, TakesNothing

(* What the command writes is written. *)
LEMMA WriteStep ==
  ASSUME DteeInv, CommandWrites
  PROVE  [T!Next]_(T!vars)
<1>1. UNCHANGED <<dispatchVars, process>>
  BY DEF CommandWrites, L!CommandWrites
<1>2. PICK type \in OutputType, len \in 0..MaxLength : input' = input \o [i \in 1..len |-> type]
  BY DEF CommandWrites
<1>3. input \in Seq(OutputType) /\ Len(input) \in Nat /\ len \in Nat /\ DOMAIN input = 1..Len(input)
  BY Types, LenProperties DEF DteeInv, Link, Written
<1>4. /\ input' \in Seq(OutputType) /\ Len(input') = Len(input) + len
      /\ \A i \in 1..Len(input) : input'[i] = input[i]
  BY <1>2, <1>3, Added
<1>5. SubSeq(input', 1, Len(input)) = input
  <2>1. SubSeq(input', 1, Len(input)) = [i \in 1..Len(input) |-> input'[i]]
    BY <1>3, <1>4
  <2>2. input = [i \in 1..Len(input) |-> input[i]]
    BY <1>3
  <2> QED BY <1>4, <2>1, <2>2
<1>6. UNCHANGED <<received, stream, buffered, spool, content, process, alarms, outcome>>
  BY <1>1 DEF dispatchVars
<1>7. CASE len > 0
  BY <1>3, <1>4, <1>5, <1>6, <1>7 DEF T!Next, T!Write, T!Extends
<1>8. CASE len = 0
  <2>1. input' = input
    <3>1. Len(input') = Len(input) /\ DOMAIN input' = 1..Len(input')
      BY <1>3, <1>4, <1>8, LenProperties
    <3>2. input' = SubSeq(input', 1, Len(input))
      BY <1>4, <3>1
    <3> QED BY <1>5, <3>2
  <2> QED BY <1>6, <2>1 DEF T!vars
<1> QED BY <1>3, <1>7, <1>8

Troubled == \/ process.error # "NONE" \/ process.interrupt_signum >= 0
            \/ process.terminated /\ process.exit_status # EXIT_SUCCESS
            \/ "EXCEPTION" \in alarms

(* What holds of every state holds of the next one, too. *)
LEMMA NextState ==
  DteeInv' =>
    /\ T!Genuine' /\ T!InOrder' /\ (~Troubled' => T!Complete')
    /\ outcome'.status = 0 => ~Troubled'
<1>1. DP!Trouble \/ "EXCEPTION" \in alarms <=> Troubled
  BY TroubleIs DEF Troubled
<1>2. DteeInv => T!Genuine /\ T!InOrder /\ (~Troubled => T!Complete)
  BY <1>1, TeeState
<1>3. (DteeInv => T!Genuine /\ T!InOrder /\ (~Troubled => T!Complete))'
  BY <1>2, PTL
<1>4. DP!LossInv /\ outcome.status = 0 => ~Troubled
  BY <1>1, CleanSuccess
<1>5. (DP!LossInv /\ outcome.status = 0 => ~Troubled)'
  BY <1>4, PTL
<1> QED BY <1>3, <1>5 DEF DteeInv, Copied

LEMMA TroubleKept == DteeInv /\ [Next]_vars /\ Troubled => Troubled'
<1>1. DP!TypeOK /\ DP!Trouble /\ [DP!Next]_(DP!vars) => DP!Trouble'
  BY Assumptions, DP!TroubleStays
<1>2. DteeInv => DP!TypeOK
  BY DEF DteeInv, Copied, DP!LossInv, DP!OrderInv
<1>3. DP!Trouble \/ "EXCEPTION" \in alarms <=> Troubled
  BY TroubleIs DEF Troubled
<1>4. (DP!Trouble \/ "EXCEPTION" \in alarms <=> Troubled)'
  BY <1>3, PTL
<1>5. DteeInv /\ [Next]_vars => [DP!Next]_(DP!vars)
  BY CopiedStep
<1>6. [DP!Next]_(DP!vars) => alarms \subseteq alarms'
  BY Assumptions, DP!AlarmsStay
<1> QED BY <1>1, <1>2, <1>3, <1>4, <1>5, <1>6

(* What dtee does with it is copying. *)
LEMMA CopyStep ==
  ASSUME DteeInv, DteeInv', [Next]_vars, input' = input,
         outcome'.status = -1, outcome.status = -1
  PROVE  T!Copy
<1>0. /\ [DP!Next]_(DP!vars) /\ DP!OrderInv /\ DP!FilesInv
      /\ DP!TypeOK /\ DP!TypeOK'
  BY CopiedStep DEF DteeInv, Copied, DP!LossInv, DP!OrderInv
<1>1. T!Extends(Seqs(stream'), Seqs(stream))
  <2>1. stream \in Seq(DP!Shown) /\ stream' \in Seq(DP!Shown)
    BY <1>0 DEF DP!TypeOK, DP!StreamTypeOK
  <2>2. DP!Begins(stream, stream')
    BY <1>0, Assumptions, DP!ShownStays
  <2> QED BY <2>1, <2>2, ExtendsIs
<1>2. ASSUME NEW f \in Files, NEW n \in ToSet(Seqs(content[f])) \ {0}
      PROVE  n \in ToSet(Seqs(content'[f])) \ {0}
  <2>1. DP!Holds(content[f], n) /\ n # 0
    BY IsShown
  <2>2. n \in 1..Len(received) /\ Len(received) \in Nat
    BY <1>0, <2>1, Assumptions, DP!KeptIsMeant, LenProperties DEF DteeInv, Link, Taken
  <2>3. n \in Nat \ {0}
    BY <2>2
  <2>4. DP!Holds(content'[f], n)
    BY <1>0, <2>1, <2>3, Assumptions, DP!KeptStays
  <2> QED BY <2>1, <2>4, IsShown
<1>3. T!Genuine' /\ T!InOrder' /\ (~Troubled' => T!Complete')
  BY NextState
<1>4. Troubled => Troubled'
  BY TroubleKept
<1>5. Len(received') >= Len(received)
  BY Grows
<1>6. \A f \in Files :
        [g \in Files |-> ToSet(Seqs(content[g])) \ {0}][f]
          \subseteq [g \in Files |-> ToSet(Seqs(content'[g])) \ {0}][f]
  BY <1>2
<1>7. "EXCEPTION" \in alarms => "EXCEPTION" \in alarms'
  BY <1>0, Assumptions, DP!AlarmsStay
<1> QED BY <1>1, <1>3, <1>4, <1>5, <1>6, <1>7 DEF T!Copy, Troubled

(* dtee exits with success only when all is well. *)
LEMMA ExitStep ==
  ASSUME DteeInv, DteeInv', [Next]_vars, input' = input, outcome.status = -1, outcome'.status # -1
  PROVE  T!Exit
<1>0. [DP!Next]_(DP!vars) /\ DP!LossInv /\ DP!TypeOK'
  BY CopiedStep DEF DteeInv, Copied, DP!LossInv, DP!OrderInv
<1>1. outcome'.status \in Nat
  <2>1. outcome' \in [status : DP!ExitCode \cup {-1}, signal : DP!SignalNumber \cup {-1}]
    BY <1>0, Zenon DEF DP!TypeOK
  <2>2. outcome'.status \in DP!ExitCode \cup {-1}
    BY <2>1
  <2> QED BY <2>2 DEF DP!ExitCode
<1>2. /\ UNCHANGED <<stream, spool, buffered, content, received>>
      /\ "EXCEPTION" \in alarms' <=> "EXCEPTION" \in alarms
  BY <1>0, Assumptions, DP!ExitIsLast
<1>3. ASSUME outcome'.status = 0
      PROVE  ~Troubled' /\ Len(received') = Len(input')
  <2>1. ~Troubled'
    BY <1>3, NextState
  <2>2. phase' = "exited"
    BY DEF DteeInv, Copied, DP!LossInv, DP!Story, DP!FailuresKnown
  <2>3. process'.terminated /\ process'.error = "NONE"
    BY <2>1, <2>2, Zenon DEF DteeInv, Final, LP!Recorded, Troubled
  <2>4. ~L!Deaf'
    BY <2>3 DEF L!Deaf
  <2> QED BY <2>1, <2>2, <2>3, <2>4, Zenon DEF DteeInv, Final
<1>4. Troubled => Troubled'
  BY TroubleKept
<1> QED BY <1>1, <1>2, <1>3, <1>4 DEF T!Exit, Troubled

LEMMA TeeStep ==
  ASSUME DteeInv, DteeInv', [Next]_vars
  PROVE  [T!Next]_(T!vars)
<1>0. [DP!Next]_(DP!vars) /\ DP!LossInv
  BY CopiedStep DEF DteeInv, Copied
<1>1. CASE CommandWrites
  BY <1>1, WriteStep
<1>2. ASSUME ~CommandWrites
      PROVE  input' = input
  BY <1>2 DEF Next, Setup, CommandChanges, SendSignal, CloseFails, Start, Receive, ReceiveFails,
     ChildExited, Interrupt, LoopThrows, ReceiveThrows, ReceiveFailsThrows, ChildExitedThrows,
     InterruptThrows, MainLoopException, LoopTurns, LoopEnds, StopSignals, Report,
     ResetSignals, Exit, Done, vars, history
<1>3. CASE ~CommandWrites /\ outcome.status # -1
  <2>1. UNCHANGED DP!vars
    BY <1>0, <1>3, Assumptions, DP!ExitIsLast
  <2>2. UNCHANGED <<received, stream, buffered, spool, content, process, alarms, outcome>>
    BY <2>1, Zenon DEF DP!vars, DP!cronVars, DP!fileVars
  <2> QED BY <1>2, <1>3, <2>2 DEF T!vars
<1>4. CASE ~CommandWrites /\ outcome.status = -1 /\ outcome'.status # -1
  BY <1>2, <1>4, ExitStep DEF T!Next
<1>5. CASE ~CommandWrites /\ outcome.status = -1 /\ outcome'.status = -1
  BY <1>2, <1>5, CopyStep DEF T!Next
<1> QED BY <1>1, <1>3, <1>4, <1>5

(* All of dtee does what Tee says, for every command: its output is shown  *)
(* and kept in order, nothing is lost without trouble, and success means   *)
(* that everything it wrote has been dealt with.                           *)
THEOREM DteeIsATee == Spec => TeeSpec
<1>1. DteeInv /\ DteeInv' /\ [Next]_vars => [T!Next]_(T!vars)
  BY TeeStep
<1> QED BY <1>1, InitInv, NextInv, InitTee, PTL DEF Spec, TeeSpec, T!Spec

(* Dispatch allows any message or event at any time.  dtee, whose loop and *)
(* command decide on them, is a case of it: all that is said of Dispatch   *)
(* holds of dtee as a whole.                                               *)
THEOREM DteeIsADispatch == Spec => D!Spec
<1>1. DteeInv /\ [Next]_vars => [D!Next]_(D!vars)
  BY DispatchStep DEF dispatchVars, D!vars, D!cronVars, D!fileVars
<1>2. Init => D!Init
  BY DEF Init
<1> QED BY <1>1, <1>2, InitInv, NextInv, PTL DEF Spec, D!Spec

(* What a failing command wrote, to its last message, is seen.             *)
THEOREM EverythingSeen == Spec => []NothingUnseen
<1>1. DteeInv => NothingUnseen
  <2> SUFFICES ASSUME DteeInv, cron_mode, phase = "exited", process.terminated,
                      process.exit_status # EXIT_SUCCESS, ~ioFailed, ~L!Deaf
               PROVE  ToSet(Seqs(stream)) = 1..Len(input)
    BY DEF NothingUnseen
  <2>1. Len(received) = Len(input)
    BY DEF DteeInv, Final
  <2>2. "EXCEPTION" \notin alarms
    BY DEF DteeInv, Copied, DP!Thrown, L!Deaf
  <2>3. ~buffered
    BY Types DEF DteeInv, Copied, DP!LossInv, DP!Story, DP!CronReports
  <2>4. \A n \in 1..Len(received) : DP!Holds(stream, n)
    BY <2>2, <2>3 DEF DteeInv, Copied, DP!LossInv, DP!ShowsInv, DP!Shows
  <2>5. \A n : DP!Holds(stream, n) => n \in 1..Len(received)
    <3>1. DP!ShownInOrder
      BY Assumptions, DP!OrderImpliesShown DEF DteeInv, Copied, DP!LossInv
    <3> QED BY <3>1 DEF DP!ShownInOrder, DP!Holds
  <2> QED BY <2>1, <2>4, <2>5, IsShown
<1> QED BY <1>1, InitInv, NextInv, PTL DEF Spec

(* What dtee is told of the command's end is its own.                      *)
LEMMA EndIsTheCommands ==
  ASSUME DteeInv, phase = "exited", process.error = "NONE", process.interrupt_signum < 0
  PROVE  process.terminated /\ outcome \in CommandsEnd
<1>1. process \in DP!ProcessType
  BY Zenon DEF DteeInv, Copied, DP!LossInv, DP!OrderInv, DP!TypeOK
<1>2. ~(process.interrupt_signum >= 0)
  BY <1>1 DEF DP!ProcessType, DP!SignalNumber
<1>3. process.terminated
  BY <1>2 DEF DteeInv, Final, LP!Recorded
<1>4. /\ child = "reaped" /\ process.exit_status = ended[1] /\ process.exit_signum = ended[2]
      /\ \/ ended[1] \in ExitCodes /\ ended[2] = -1
         \/ ended[1] = -1 /\ ended[2] \in DeathSignals
  BY <1>3 DEF DteeInv, Known, Expected
<1>5. (ended[1] \in Nat /\ ended[2] = -1) \/ (ended[1] = -1 /\ ended[2] \in Nat)
  <2>1. (\A status \in ExitCodes : status \in Nat) /\ (\A signum \in DeathSignals : signum \in Nat)
    BY Assumptions DEF DP!DispatchAssumption, DP!ExitCode, DP!SignalNumber
  <2> QED BY <1>4, <2>1, Zenon
<1>6. D!ExitStatus(process) =
        IF ended[1] >= 0 THEN ended[1] ELSE SHELL_EXIT_CODE_SIGNAL + ended[2]
  BY <1>2, <1>4, <1>5 DEF D!ExitStatus, D!SHELL_EXIT_CODE_SIGNAL, SHELL_EXIT_CODE_SIGNAL
<1>7. ASSUME NEW signum \in D!Raised(process)
      PROVE  signum = ended[2] /\ signum = SIGINT
  BY <1>1, <1>2, <1>4, <1>7 DEF D!Raised, D!ReplicatedSignals, D!SIGHUP, D!SIGINT, D!SIGPIPE,
     D!SIGTERM, SIGINT
<1>8. ended[1] >= 0 => ended[2] # SIGINT
  BY <1>5 DEF SIGINT
<1>9. \/ outcome = D!Exited(D!ExitStatus(process))
      \/ \E signum \in D!Raised(process) : outcome = D!Killed(signum)
  BY DEF DteeInv, Final
<1> HIDE DEF D!Exited, D!Killed
<1>10. CASE outcome = D!Exited(D!ExitStatus(process))
  BY <1>3, <1>6, <1>10 DEF CommandsEnd
<1>11. ASSUME NEW signum \in D!Raised(process), outcome = D!Killed(signum)
       PROVE  outcome \in CommandsEnd
  BY <1>7, <1>8, <1>11 DEF CommandsEnd
<1> QED BY <1>3, <1>9, <1>10, <1>11

(* Without an error or an interruption dtee is not in the way of any       *)
(* command: it ends as the command did, and has kept and shown everything. *)
THEOREM DteeIsUnobtrusive == Spec => []Unobtrusive
<1>1. DteeInv => Unobtrusive
  <2> SUFFICES ASSUME DteeInv, phase = "exited", process.error = "NONE",
                      process.interrupt_signum < 0
               PROVE  /\ outcome \in CommandsEnd
                      /\ received = input
                      /\ \A f \in Files, n \in DOMAIN input :
                           D!Takes(f, input[n]) => n \in ToSet(Seqs(content[f]))
                      /\ \/ buffered \/ (cron_mode /\ ioFailed)
                         \/ ToSet(Seqs(stream)) = DOMAIN input
    BY DEF Unobtrusive
  <2>1. process.terminated /\ outcome \in CommandsEnd
    BY EndIsTheCommands
  <2>2. ~L!Deaf
    BY DEF L!Deaf
  <2>3. /\ received \in Seq(OutputType) /\ input \in Seq(OutputType)
        /\ Len(received) = Len(input) /\ \A n \in 1..Len(received) : received[n] = input[n]
    BY <2>1, <2>2 DEF DteeInv, Final, Link, Taken, Written
  <2>4. received = input /\ DOMAIN input = 1..Len(received)
    BY <2>3, SeqEqual, LenProperties
  <2>5. /\ "EXCEPTION" \notin alarms /\ hurt = {} /\ (ioFailed => cron_mode)
    BY DEF DteeInv, Copied, DP!Thrown, DP!FailuresTold
  <2>6. ASSUME NEW f \in Files, NEW n \in DOMAIN input, D!Takes(f, input[n])
        PROVE  n \in ToSet(Seqs(content[f]))
    <3>1. DP!Takes(f, received[n]) /\ n \in 1..Len(received)
      BY <2>4, <2>6, TakesIs
    <3>2. DP!Holds(content[f], n)
      BY <2>5, <3>1 DEF DteeInv, Copied, DP!LossInv, DP!FilesInv, DP!Whole
    <3> QED BY <3>2, IsShown
  <2>7. ASSUME ~buffered, ~(cron_mode /\ ioFailed)
        PROVE  ToSet(Seqs(stream)) = DOMAIN input
    <3>1. \A n \in 1..Len(received) : DP!Holds(stream, n)
      BY <2>5, <2>7 DEF DteeInv, Copied, DP!LossInv, DP!ShowsInv, DP!Shows
    <3>2. DP!ShownInOrder
      BY Assumptions, DP!OrderImpliesShown DEF DteeInv, Copied, DP!LossInv
    <3>3. \A n : DP!Holds(stream, n) => n \in 1..Len(received)
      BY <3>2 DEF DP!ShownInOrder, DP!Holds
    <3> QED BY <2>4, <3>1, <3>3, IsShown
  <2> QED BY <2>1, <2>4, <2>6, <2>7
<1> QED BY <1>1, InitInv, NextInv, PTL DEF Spec
=============================================================================
