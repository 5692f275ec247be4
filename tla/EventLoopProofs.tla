---------------------------- MODULE EventLoopProofs ----------------------------
(***************************************************************************)
(* Proofs about EventLoop: what holds however many messages the command    *)
(* writes, however large the socket is, whatever signals are sent and in   *)
(* whatever way the command ends.                                          *)
(***************************************************************************)
EXTENDS EventLoop, SequenceTheorems, TLAPS

(* Process: what its methods do to a well typed Process. *)
LEMMA ProcessMethods ==
  ASSUME NEW p \in ProcessType
  PROVE  /\ \A type \in ErrorType :
              /\ Error(p, type) \in ProcessType
              /\ Error(p, type).error = type
              /\ Error(p, type).terminated = p.terminated
              /\ Error(p, type).interrupt_signum = p.interrupt_signum
              /\ Error(p, type).exit_status = p.exit_status
              /\ Error(p, type).exit_signum = p.exit_signum
         /\ \A signum \in SignalNumber :
              /\ Interrupted(p, signum) \in ProcessType
              /\ Interrupted(p, signum).interrupt_signum = signum
              /\ Interrupted(p, signum).error = p.error
              /\ Interrupted(p, signum).terminated = p.terminated
              /\ Interrupted(p, signum).exit_status = p.exit_status
              /\ Interrupted(p, signum).exit_signum = p.exit_signum
         /\ \A status \in ExitCode \cup {-1}, signum \in SignalNumber \cup {-1} :
              /\ Terminated(p, status, signum) \in ProcessType
              /\ Terminated(p, status, signum).terminated
              /\ Terminated(p, status, signum).exit_status = status
              /\ Terminated(p, status, signum).exit_signum = signum
              /\ Terminated(p, status, signum).error = p.error
              /\ Terminated(p, status, signum).interrupt_signum = p.interrupt_signum
<1>1. \A type \in ErrorType : Error(p, type) \in ProcessType
  BY DEF ProcessType, Error
<1>2. \A signum \in SignalNumber : Interrupted(p, signum) \in ProcessType
  BY DEF ProcessType, Interrupted
<1>3. \A status \in ExitCode \cup {-1}, signum \in SignalNumber \cup {-1} :
        Terminated(p, status, signum) \in ProcessType
  BY DEF ProcessType, Terminated
<1> QED BY <1>1, <1>2, <1>3 DEF ProcessType, Error, Interrupted, Terminated

(* The signals dtee may have a handler for. *)
LEMMA HandledSignals ==
  /\ Handled \subseteq SignalNumber
  /\ InterruptSignals \subseteq Handled /\ PipeSignals \subseteq Handled
  /\ SIGCHLD \notin InterruptSignals \cup PipeSignals
BY DEF Handled, InterruptSignals, PipeSignals, SignalNumber,
       SIGHUP, SIGINT, SIGPIPE, SIGTERM, SIGCHLD

(* The ways the command ends. *)
LEMMA EndsType ==
  ASSUME NEW e \in Ends
  PROVE  /\ e \in (ExitCode \cup {-1}) \X (SignalNumber \cup {-1})
         /\ e[1] >= 0 \/ e[2] >= 0
         /\ e = <<e[1], e[2]>>
BY EventLoopAssumption DEF EventLoopAssumption, ExitCode, SignalNumber

(* The errors recorded here are errors.                                    *)
LEMMA Errors ==
  /\ "OPEN_OUTPUT" \in ErrorType /\ "CLOSE_OUTPUT" \in ErrorType
  /\ "WRITE_OUTPUT" \in ErrorType /\ "READ_INPUT" \in ErrorType
  /\ "MAIN_LOOP_EXCEPTION" \in ErrorType
  /\ NewProcess \in ProcessType
BY DEF ErrorType, NewProcess, ProcessType
------------------------------------------------------------------------------
(* Types *)

LEMMA InitType == Init => TypeOK
<1> SUFFICES ASSUME Init
             PROVE  TypeOK
  OBVIOUS
<1>1. process \in ProcessType
  <2>1. process = NewProcess \/ process = Error(NewProcess, "OPEN_OUTPUT")
    BY DEF Init
  <2>2. Error(NewProcess, "OPEN_OUTPUT") \in ProcessType
    BY Errors, ProcessMethods
  <2> QED BY <2>1, <2>2, Errors
<1>2. socket \in Seq(0..written) /\ Len(socket) <= Capacity
  BY EventLoopAssumption DEF Init, EventLoopAssumption
<1>3. written \in 0..MaxWrites /\ delivered \in 0..written
  BY EventLoopAssumption DEF Init, EventLoopAssumption
<1> QED BY <1>1, <1>2, <1>3 DEF Init, TypeOK

(* A message enters the socket. *)
LEMMA SendType ==
  ASSUME TypeOK, NEW n \in written..(written + 1), NEW message \in 0..n, Send(message)
  PROVE  socket' \in Seq(0..n) /\ Len(socket') <= Capacity
<1>1. socket \in Seq(0..written) /\ Len(socket) < Capacity /\ written \in Nat
  BY DEF TypeOK, Send
<1>2. socket \in Seq(0..n)
  BY <1>1
<1>3. socket' = Append(socket, message)
  BY DEF Send
<1>4. Capacity \in Nat
  BY EventLoopAssumption DEF EventLoopAssumption
<1> QED BY <1>1, <1>2, <1>3, <1>4, AppendProperties

(* A message leaves the socket. *)
LEMMA TailType ==
  ASSUME TypeOK, socket # <<>>
  PROVE  /\ Tail(socket) \in Seq(0..written) /\ Len(Tail(socket)) <= Capacity
         /\ Head(socket) \in 0..written
<1>1. socket \in Seq(0..written) /\ Len(socket) <= Capacity
  BY DEF TypeOK
<1>2. Capacity \in Nat
  BY EventLoopAssumption DEF EventLoopAssumption
<1>3. Len(socket) \in Nat
  BY <1>1, LenProperties
<1>4. Tail(socket) \in Seq(0..written) /\ Head(socket) \in 0..written
  BY <1>1, HeadTailProperties
<1>5. Len(Tail(socket)) = Len(socket) - 1
  BY <1>1, HeadTailProperties
<1> QED BY <1>1, <1>2, <1>3, <1>4, <1>5

(* Cron mode stays what it is, and with it the signals that are handled.   *)
LEMMA ModeKept ==
  [Next]_vars => /\ cron_mode' = cron_mode /\ Handled' = Handled
                 /\ PipeSignals' = PipeSignals
<1> SUFFICES ASSUME [Next]_vars
             PROVE  /\ cron_mode' = cron_mode /\ Handled' = Handled
                    /\ PipeSignals' = PipeSignals
  OBVIOUS
<1>1. cron_mode' = cron_mode
  BY DEF Next, Environment, Handler, Done, CommandWrites, CommandForks, CommandEnds, CommandStops,
     CommandContinues, BackgroundWrites, BackgroundEnds, SendSignal, CloseFails, Start, Receive,
     ReceiveFails, ChildExited, InterruptSignal, PipeSignal, Interrupt, Throw, LoopThrows,
     ReceiveThrows, ReceiveFailsThrows, ChildExitedThrows, InterruptThrows, MainLoopException,
     RunReturns, PollAgain, PollDone, StopSignals, ResetSignals, Exit, vars
<1> QED BY <1>1 DEF Handled, InterruptSignals, PipeSignals

(* The handler of SIGCHLD records the end of the command or an interruption.*)
LEMMA WaitForChildRecords ==
  ASSUME TypeOK, WaitForChild
  PROVE  /\ process' \in ProcessType /\ process'.error = process.error
         /\ \/ /\ child = "zombie" /\ child' = "reaped"
               /\ process'.terminated
               /\ process'.exit_status = ended[1] /\ process'.exit_signum = ended[2]
               /\ process'.interrupt_signum = process.interrupt_signum
            \/ /\ child # "zombie" /\ child' = child
               /\ process'.terminated = process.terminated
               /\ process'.exit_status = process.exit_status
               /\ process'.exit_signum = process.exit_signum
               /\ process'.interrupt_signum = SIGCHLD
<1>1. process \in ProcessType /\ SIGCHLD \in SignalNumber
  BY DEF TypeOK, SIGCHLD, SignalNumber
<1>2. ended[1] \in ExitCode \cup {-1} /\ ended[2] \in SignalNumber \cup {-1}
  <2>1. CASE ended \in Ends
    BY <2>1, EndsType
  <2>2. CASE ended = <<-1, -1>>
    BY <2>2
  <2> QED BY <2>1, <2>2 DEF TypeOK
<1>3. CASE child = "zombie"
  <2>1. child' = "reaped" /\ process' = Terminated(process, ended[1], ended[2])
    BY <1>3 DEF WaitForChild
  <2>2. /\ process' \in ProcessType /\ process'.error = process.error
        /\ process'.terminated
        /\ process'.exit_status = ended[1] /\ process'.exit_signum = ended[2]
        /\ process'.interrupt_signum = process.interrupt_signum
    BY <1>1, <1>2, <2>1, ProcessMethods
  <2> QED BY <1>3, <2>1, <2>2
<1>4. CASE child # "zombie"
  <2>1. child' = child /\ process' = Interrupted(process, SIGCHLD)
    BY <1>4 DEF WaitForChild
  <2>2. /\ process' \in ProcessType /\ process'.error = process.error
        /\ process'.terminated = process.terminated
        /\ process'.exit_status = process.exit_status
        /\ process'.exit_signum = process.exit_signum
        /\ process'.interrupt_signum = SIGCHLD
    BY <1>1, <2>1, ProcessMethods
  <2> QED BY <1>4, <2>1, <2>2
<1> QED BY <1>3, <1>4

(* An exception leaves the loop. *)
Throws ==
  \/ LoopThrows \/ ReceiveThrows \/ ReceiveFailsThrows \/ ChildExitedThrows
  \/ \E signum \in InterruptSignals \cup PipeSignals : InterruptThrows(signum)

LEMMA ThrowsIsThrow == Throws => Throw
BY DEF Throws, LoopThrows, ReceiveThrows, ReceiveFailsThrows, ChildExitedThrows, InterruptThrows

(* An exception in another handler than that of SIGCHLD leaves an error or *)
(* an interruption at most.                                                *)
LEMMA ThrowsRecord ==
  ASSUME TypeOK, Throws, ~ChildExitedThrows
  PROVE  /\ process' \in ProcessType
         /\ process'.terminated = process.terminated
         /\ process'.exit_status = process.exit_status
         /\ process'.exit_signum = process.exit_signum
         /\ UNCHANGED child
         /\ \/ caught' = caught /\ process'.interrupt_signum = process.interrupt_signum
            \/ \E signum \in caught \cap (InterruptSignals \cup PipeSignals) :
                 caught' = caught \ {signum}
<1>1. process \in ProcessType
  BY DEF TypeOK
<1>2. CASE LoopThrows
  BY <1>1, <1>2 DEF LoopThrows
<1>3. CASE ReceiveThrows \/ ReceiveFailsThrows
  <2>1. UNCHANGED <<child, caught>>
    BY <1>3 DEF ReceiveThrows, ReceiveFailsThrows
  <2>2. PICK type \in ErrorType : process' = process \/ process' = Error(process, type)
    BY <1>3, Errors DEF ReceiveThrows, ReceiveFailsThrows
  <2> QED BY <1>1, <2>1, <2>2, ProcessMethods
<1>4. ASSUME NEW signum \in InterruptSignals \cup PipeSignals, InterruptThrows(signum)
      PROVE  /\ process' \in ProcessType
             /\ process'.terminated = process.terminated
             /\ process'.exit_status = process.exit_status
             /\ process'.exit_signum = process.exit_signum
             /\ UNCHANGED child
             /\ signum \in caught /\ caught' = caught \ {signum}
  <2>1. signum \in SignalNumber
    BY HandledSignals
  <2>2. process' = Interrupted(process, signum)
    BY <1>4 DEF InterruptThrows
  <2> QED BY <1>1, <1>4, <2>1, <2>2, ProcessMethods DEF InterruptThrows
<1> QED BY <1>2, <1>3, <1>4 DEF Throws

LEMMA ThrowsType ==
  ASSUME TypeOK, Throws, [Next]_vars
  PROVE  TypeOK'
<1>1. /\ phase' = "threw"
      /\ UNCHANGED <<cron_mode, background, written, ended, delivered, handled, sent, stopped, ran>>
  BY ThrowsIsThrow DEF Throw
<1>2. process' \in ProcessType /\ child' \in {child, "reaped"} /\ caught' \subseteq caught
  <2>1. CASE ChildExitedThrows
    BY <2>1, WaitForChildRecords DEF ChildExitedThrows, WaitForChild
  <2>2. CASE ~ChildExitedThrows
    BY <2>2, ThrowsRecord
  <2> QED BY <2>1, <2>2
<1>3. socket' = socket \/ (socket # <<>> /\ socket' = Tail(socket))
  BY DEF Throws, LoopThrows, ReceiveThrows, ReceiveFailsThrows, ChildExitedThrows, InterruptThrows
<1>4. receiving' \in BOOLEAN
  BY DEF TypeOK, Throws, LoopThrows, ReceiveThrows, ReceiveFailsThrows, ChildExitedThrows,
     InterruptThrows
<1>5. socket' \in Seq(0..written') /\ Len(socket') <= Capacity
  BY <1>1, <1>3, TailType DEF TypeOK
<1> QED BY <1>1, <1>2, <1>4, <1>5, ModeKept DEF TypeOK

LEMMA StepType == TypeOK /\ [Next]_vars => TypeOK'
<1> SUFFICES ASSUME TypeOK, [Next]_vars
             PROVE  TypeOK'
  OBVIOUS
<1> USE ModeKept DEF TypeOK
<1>1. CASE CommandWrites
  <2>1. written + 1 \in 0..MaxWrites /\ written' = written + 1
    BY <1>1, EventLoopAssumption DEF CommandWrites, EventLoopAssumption
  <2>2. socket' \in Seq(0..written') /\ Len(socket') <= Capacity
    BY <1>1, <2>1, SendType DEF CommandWrites
  <2>3. delivered \in 0..written'
    BY <2>1
  <2> QED BY <1>1, <2>1, <2>2, <2>3 DEF CommandWrites, commandVars, loopVars
<1>2. CASE CommandForks \/ BackgroundEnds \/ CommandStops \/ CommandContinues
  BY <1>2 DEF CommandForks, BackgroundEnds, CommandStops, CommandContinues, ChildSignal, loopVars
<1>3. CASE BackgroundWrites
  <2>1. socket' \in Seq(0..written) /\ Len(socket') <= Capacity
    BY <1>3, SendType DEF BackgroundWrites
  <2> QED BY <1>3, <2>1 DEF BackgroundWrites, commandVars, loopVars
<1>4. CASE CommandEnds
  BY <1>4 DEF CommandEnds, ChildSignal, loopVars
<1>5. CASE \E signum \in SentSignals : SendSignal(signum)
  BY <1>5 DEF SendSignal, commandVars, loopVars
<1>6. CASE CloseFails
  BY <1>6, Errors, ProcessMethods DEF CloseFails, commandVars, loopVars
<1>7. CASE Start
  BY <1>7 DEF Start, commandVars
<1>8. CASE Receive
  <2>1. socket # <<>>
    BY <1>8 DEF Receive
  <2>2. process' \in ProcessType
    <3>1. Error(process, "WRITE_OUTPUT") \in ProcessType
      BY Errors, ProcessMethods
    <3> QED BY <1>8, <3>1 DEF Receive
  <2>3. socket' \in Seq(0..written) /\ Len(socket') <= Capacity /\ Head(socket) \in 0..written
    BY <1>8, <2>1, TailType DEF Receive
  <2>4. delivered' \in 0..written
    BY <1>8, <2>3 DEF Receive
  <2> QED BY <1>8, <2>2, <2>3, <2>4 DEF Receive, commandVars
<1>9. CASE ReceiveFails
  BY <1>9, Errors, ProcessMethods DEF ReceiveFails, commandVars
<1>10. CASE ChildExited
  <2>1. process' \in ProcessType /\ child' \in {child, "reaped"} /\ caught' = caught \ {SIGCHLD}
    BY <1>10, WaitForChildRecords DEF ChildExited, WaitForChild
  <2> QED BY <1>10, <2>1 DEF ChildExited
<1>11. CASE InterruptSignal \/ PipeSignal
  <2>1. PICK signum \in SignalNumber : Interrupt(signum)
    BY <1>11, HandledSignals DEF InterruptSignal, PipeSignal
  <2>2. process' \in ProcessType
    BY <2>1, ProcessMethods DEF Interrupt
  <2> QED BY <2>1, <2>2 DEF Interrupt, commandVars
<1>12. CASE MainLoopException
  <2>1. process' \in ProcessType
    BY <1>12, Errors, ProcessMethods DEF MainLoopException
  <2> QED BY <1>12, <2>1 DEF MainLoopException, commandVars, loopVars
<1>13. CASE RunReturns \/ PollAgain \/ PollDone
  BY <1>13 DEF RunReturns, PollAgain, PollDone, commandVars, loopVars
<1>14. CASE StopSignals \/ ResetSignals \/ Exit
  BY <1>14 DEF StopSignals, ResetSignals, Exit, commandVars, loopVars
<1>15. CASE Throws
  BY <1>15, ThrowsType
<1>16. CASE UNCHANGED vars
  BY <1>16 DEF vars, commandVars, loopVars
<1> QED
  BY <1>1, <1>2, <1>3, <1>4, <1>5, <1>6, <1>7, <1>8, <1>9, <1>10, <1>11, <1>12, <1>13, <1>14, <1>15,
     <1>16
  DEF Next, Environment, Handler, Throws, Done

(* Every variable of the loop stays within its type; the signals that wait *)
(* for a handler always have one.                                          *)
THEOREM LoopTypes == Spec => []TypeOK
<1>1. Init => TypeOK
  BY InitType
<1>2. TypeOK /\ [Next]_vars => TypeOK'
  BY StepType
<1> QED BY <1>1, <1>2, PTL DEF Spec
------------------------------------------------------------------------------
(* The end of the main loop *)

Recorded ==
  process.terminated \/ process.interrupt_signum >= 0 \/ process.error # "NONE"

(* The loop is only ever left for a reason that has been recorded.         *)
Reason == stopped \/ phase = "poll" \/ Looped => Recorded

LEMMA StepReason == TypeOK /\ Reason /\ [Next]_vars => Reason'
<1> SUFFICES ASSUME TypeOK, Reason, [Next]_vars
             PROVE  Reason'
  OBVIOUS
<1>0. process \in ProcessType /\ SIGCHLD \in SignalNumber
  BY DEF TypeOK, SIGCHLD, SignalNumber
<1> USE DEF Reason, Looped
<1>1. CASE stopped' = stopped /\ process' = process /\ phase' \in {phase, "killed", "run"}
  BY <1>1 DEF Recorded
<1>2. CASE process'.error # "NONE"
  BY <1>2 DEF Recorded
<1>3. CASE Receive
  <2>1. stopped' = stopped /\ phase' = phase
    BY <1>3 DEF Receive
  <2>2. CASE process' = process
    BY <1>1, <2>1, <2>2
  <2>3. CASE process' = Error(process, "WRITE_OUTPUT")
    <3>1. process'.error = "WRITE_OUTPUT"
      BY <1>0, <2>3 DEF Error, ProcessType
    <3> QED BY <1>2, <3>1
  <2> QED BY <1>3, <2>2, <2>3 DEF Receive
<1>4. CASE ChildExited
  <2>1. process'.terminated \/ process'.interrupt_signum = SIGCHLD
    BY <1>4, WaitForChildRecords DEF ChildExited
  <2> QED BY <2>1 DEF Recorded, SIGCHLD
<1>5. CASE InterruptSignal \/ PipeSignal
  <2>1. PICK signum \in SignalNumber : Interrupt(signum)
    BY <1>5, HandledSignals DEF InterruptSignal, PipeSignal
  <2>2. process'.interrupt_signum = signum
    BY <1>0, <2>1, ProcessMethods DEF Interrupt
  <2> QED BY <2>2 DEF Recorded, SignalNumber
<1>6. CASE RunReturns \/ PollAgain \/ PollDone \/ StopSignals \/ ResetSignals \/ Exit
  <2>1. Recorded /\ UNCHANGED process
    BY <1>6 DEF RunReturns, PollAgain, PollDone, StopSignals, ResetSignals, Exit, loopVars
  <2> QED BY <2>1 DEF Recorded
<1>7. CASE Environment
  <2>1. stopped' = stopped /\ process' = process /\ phase' \in {phase, "killed"}
    BY <1>7 DEF Environment, CommandWrites, CommandForks, CommandEnds, CommandStops,
         CommandContinues, BackgroundWrites, BackgroundEnds, SendSignal, loopVars
  <2> QED BY <1>1, <2>1
<1>8. CASE CloseFails \/ ReceiveFails \/ MainLoopException
  <2>1. PICK type \in {"CLOSE_OUTPUT", "READ_INPUT", "MAIN_LOOP_EXCEPTION"} :
          process' = Error(process, type)
    BY <1>8 DEF CloseFails, ReceiveFails, MainLoopException
  <2>2. type \in ErrorType /\ type # "NONE"
    BY Errors
  <2>3. process'.error = type
    BY <1>0, <2>1, <2>2, ProcessMethods
  <2> QED BY <1>2, <2>2, <2>3
<1>9. CASE Start
  BY <1>1, <1>9 DEF Start
<1>10. CASE UNCHANGED vars
  <2>1. stopped' = stopped /\ process' = process /\ phase' = phase
    BY <1>10 DEF vars, loopVars
  <2> QED BY <1>1, <2>1
<1>11. CASE Throws
  <2>1. ~stopped' /\ phase' = "threw"
    BY <1>11, ThrowsIsThrow DEF Throw, Looping, TypeOK
  <2> QED BY <2>1
<1> QED
  BY <1>3, <1>4, <1>5, <1>6, <1>7, <1>8, <1>9, <1>10, <1>11 DEF Next, Handler, Throws, Done

(* The main loop always ends for a reason that exit_status() can tell.     *)
THEOREM LoopEndsForAReason == Spec => []Explained
<1>1. Init => Reason
  BY DEF Init, Reason, Looped
<1>2. TypeOK /\ Reason /\ [Next]_vars => Reason'
  BY StepReason
<1>3. Reason => Explained
  BY DEF Reason, Explained, Recorded
<1> QED BY <1>1, <1>2, <1>3, LoopTypes, PTL DEF Spec
------------------------------------------------------------------------------
(* What waits in the socket *)

Messages == DOMAIN socket

(* No exception has left the loop. *)
Unbroken == phase \notin {"threw", "killed"} /\ process.error # "MAIN_LOOP_EXCEPTION"

(* The messages of the command wait in the order they were written, and    *)
(* those not passed on yet are all there unless an exception has lost one. *)
Queued ==
  /\ \A i, j \in Messages : i < j /\ socket[i] > 0 /\ socket[j] > 0 => socket[i] < socket[j]
  /\ \A i \in Messages : socket[i] > 0 => socket[i] > delivered
  /\ Unbroken =>
       \A n \in 1..written : n > delivered => \E i \in Messages : socket[i] = n

(* Only the loop throws, and no handler runs after that.                   *)
Over == process.error = "MAIN_LOOP_EXCEPTION" => phase \notin {"forked", "run", "poll"}

(* A message that is sent comes last. *)
LEMMA QueuedSend ==
  ASSUME TypeOK, Queued, UNCHANGED <<delivered, phase, process>>,
         \/ Send(written + 1) /\ written' = written + 1
         \/ Send(0) /\ written' = written
  PROVE  Queued'
<1> DEFINE m == IF written' = written THEN 0 ELSE written + 1
<1>1. /\ written \in Nat /\ delivered \in 0..written /\ socket \in Seq(0..written)
      /\ m \in Nat /\ socket' = Append(socket, m)
      /\ (m = 0 /\ written' = written) \/ (m = written + 1 /\ written' = written + 1)
  <2>1. written \in Nat /\ delivered \in 0..written /\ socket \in Seq(0..written)
    BY DEF TypeOK
  <2> QED BY <2>1 DEF Send
<1>2. socket \in Seq(Nat) /\ Len(socket) \in Nat /\ DOMAIN socket = 1..Len(socket)
  BY <1>1, LenProperties
<1>3. \A i \in 1..Len(socket) : socket[i] \in 0..written
  BY <1>1, ElementOfSeq
<1>4. /\ DOMAIN socket' = 1..(Len(socket) + 1)
      /\ \A i \in 1..Len(socket) : socket'[i] = socket[i]
      /\ socket'[Len(socket) + 1] = m
  <2>1. Append(socket, m) \in Seq(Nat) /\ Len(Append(socket, m)) = Len(socket) + 1
    BY <1>1, <1>2, AppendProperties
  <2>2. DOMAIN Append(socket, m) = 1..(Len(socket) + 1)
    BY <2>1, LenProperties
  <2>3. /\ \A i \in 1..Len(socket) : Append(socket, m)[i] = socket[i]
        /\ Append(socket, m)[Len(socket) + 1] = m
    BY <1>1, <1>2, AppendProperties
  <2> QED BY <1>1, <2>2, <2>3
<1> HIDE DEF m
<1>5. \A i, j \in Messages' :
        i < j /\ socket'[i] > 0 /\ socket'[j] > 0 => socket'[i] < socket'[j]
  BY <1>1, <1>2, <1>3, <1>4 DEF Queued, Messages
<1>6. \A i \in Messages' : socket'[i] > 0 => socket'[i] > delivered'
  BY <1>1, <1>2, <1>3, <1>4 DEF Queued, Messages
<1>7. ASSUME Unbroken, NEW n \in 1..written', n > delivered
      PROVE  \E i \in Messages' : socket'[i] = n
  <2>1. CASE n <= written
    <3>1. n \in 1..written
      BY <1>1, <2>1
    <3>2. PICK i \in Messages : socket[i] = n
      BY <1>7, <3>1 DEF Queued
    <3> QED BY <1>2, <1>4, <3>2 DEF Messages
  <2>2. CASE n > written
    <3>1. n = m
      BY <1>1, <2>2
    <3> QED BY <1>2, <1>4, <3>1 DEF Messages
  <2>3. n \in Int /\ written \in Int
    BY <1>1
  <2>4. n <= written \/ n > written
    BY <2>3
  <2> QED BY <2>1, <2>2, <2>4
<1> QED BY <1>5, <1>6, <1>7 DEF Queued, Unbroken

(* The oldest message is taken out. *)
LEMMA TailElements ==
  ASSUME TypeOK, socket # <<>>, socket' = Tail(socket)
  PROVE  /\ Len(socket) \in Nat \ {0} /\ Messages = 1..Len(socket)
         /\ Messages' = 1..(Len(socket) - 1)
         /\ \A i \in 1..(Len(socket) - 1) : socket'[i] = socket[i + 1]
         /\ \A i \in Messages : socket[i] \in Nat
         /\ Head(socket) = socket[1]
<1>1. socket \in Seq(0..written) /\ written \in Nat
  BY DEF TypeOK
<1>2. Len(socket) \in Nat /\ DOMAIN socket = 1..Len(socket)
  BY <1>1, LenProperties
<1>3. Len(socket) # 0
  BY <1>1, EmptySeq
<1>4. /\ Tail(socket) \in Seq(0..written) /\ Len(Tail(socket)) = Len(socket) - 1
      /\ \A i \in 1..Len(Tail(socket)) : Tail(socket)[i] = socket[i + 1]
  BY <1>1, HeadTailProperties
<1>5. DOMAIN Tail(socket) = 1..Len(Tail(socket))
  BY <1>4, LenProperties
<1>6. \A i \in 1..Len(socket) : socket[i] \in Nat
  BY <1>1, ElementOfSeq
<1>7. Head(socket) = socket[1]
  BY <1>1
<1> QED BY <1>2, <1>3, <1>4, <1>5, <1>6, <1>7 DEF Messages

(* Passing on the oldest message of the command. *)
LEMMA QueuedReceive ==
  ASSUME TypeOK, Queued, Over, Receive
  PROVE  Queued'
<1>1. /\ socket # <<>> /\ socket' = Tail(socket) /\ written' = written
      /\ delivered' = IF Head(socket) > 0 THEN Head(socket) ELSE delivered
      /\ process' = process \/ process' = Error(process, "WRITE_OUTPUT")
  BY DEF Receive, commandVars
<1>2. /\ Len(socket) \in Nat \ {0} /\ Messages = 1..Len(socket)
      /\ Messages' = 1..(Len(socket) - 1)
      /\ \A i \in 1..(Len(socket) - 1) : socket'[i] = socket[i + 1]
      /\ \A i \in Messages : socket[i] \in Nat
      /\ Head(socket) = socket[1]
  BY <1>1, TailElements
<1>3. written \in Nat /\ delivered \in Nat
  BY DEF TypeOK
<1>4. Unbroken
  BY DEF Receive, Looping, Over, Unbroken
<1>5. delivered' \in Nat /\ delivered' >= delivered
  BY <1>1, <1>2, <1>3 DEF Queued
<1>6. \A i, j \in Messages' :
        i < j /\ socket'[i] > 0 /\ socket'[j] > 0 => socket'[i] < socket'[j]
  BY <1>2 DEF Queued
<1>7. \A i \in Messages' : socket'[i] > 0 => socket'[i] > delivered'
  BY <1>1, <1>2, <1>3 DEF Queued
<1>8. ASSUME NEW n \in 1..written, n > delivered'
      PROVE  \E i \in Messages' : socket'[i] = n
  <2>1. n > delivered
    BY <1>3, <1>5, <1>8
  <2>2. PICK i \in Messages : socket[i] = n
    BY <1>4, <2>1 DEF Queued
  <2>3. i # 1
    BY <1>1, <1>2, <1>3, <1>5, <1>8, <2>2
  <2>4. i - 1 \in 1..(Len(socket) - 1) /\ socket'[i - 1] = n
    BY <1>2, <2>2, <2>3
  <2> QED BY <1>2, <2>4
<1> QED BY <1>1, <1>6, <1>7, <1>8 DEF Queued

(* Fewer messages wait, and one may have been lost. *)
LEMMA QueuedThrows ==
  ASSUME TypeOK, Queued, Throws
  PROVE  Queued'
<1>1. delivered' = delivered /\ written' = written /\ phase' = "threw"
  BY ThrowsIsThrow DEF Throw
<1>2. CASE socket' = socket
  BY <1>1, <1>2 DEF Queued, Messages, Unbroken
<1>3. CASE socket # <<>> /\ socket' = Tail(socket)
  <2>1. /\ Len(socket) \in Nat \ {0} /\ Messages = 1..Len(socket)
        /\ Messages' = 1..(Len(socket) - 1)
        /\ \A i \in 1..(Len(socket) - 1) : socket'[i] = socket[i + 1]
    BY <1>3, TailElements
  <2>2. \A i, j \in Messages' :
          i < j /\ socket'[i] > 0 /\ socket'[j] > 0 => socket'[i] < socket'[j]
    BY <2>1 DEF Queued
  <2>3. \A i \in Messages' : socket'[i] > 0 => socket'[i] > delivered'
    BY <1>1, <2>1 DEF Queued
  <2> QED BY <1>1, <2>2, <2>3 DEF Queued, Unbroken
<1> QED
  BY <1>2, <1>3
  DEF Throws, LoopThrows, ReceiveThrows, ReceiveFailsThrows, ChildExitedThrows, InterruptThrows

(* While the loop runs a receive is outstanding, unless one has failed.    *)
Listening == phase \in {"run", "poll"} => receiving \/ Deaf

(* dtee knows how the command ended only from waitpid(). *)
Reaped == process.terminated => child = "reaped"

DrainInv == Queued /\ Over /\ Listening /\ Reaped /\ Drained

(* What the environment does. *)
LEMMA DrainEnvironment ==
  ASSUME TypeOK, DrainInv, Environment
  PROVE  DrainInv'
<1>1. /\ UNCHANGED <<delivered, process, receiving>>
      /\ phase' = phase \/ phase' = "killed"
      /\ child = "reaped" => child' = "reaped"
  BY DEF Environment, CommandWrites, CommandForks, CommandEnds, CommandStops,
     CommandContinues, BackgroundWrites, BackgroundEnds, SendSignal, commandVars, loopVars
<1>2. \/ Send(written + 1) /\ written' = written + 1 /\ child = "running"
      \/ Send(0) /\ written' = written
      \/ socket' = socket /\ written' = written
  BY DEF Environment, CommandWrites, CommandForks, CommandEnds, CommandStops,
     CommandContinues, BackgroundWrites, BackgroundEnds, SendSignal, commandVars
<1>3. Queued'
  <2>1. CASE socket' = socket /\ written' = written
    BY <1>1, <2>1 DEF DrainInv, Queued, Messages, Unbroken
  <2>2. CASE \/ Send(written + 1) /\ written' = written + 1
             \/ Send(0) /\ written' = written
    <3>1. phase' = phase
      BY <2>2 DEF Environment, CommandWrites, CommandForks, CommandEnds, CommandStops,
         CommandContinues, BackgroundWrites, BackgroundEnds, SendSignal, Send
    <3> QED BY <1>1, <2>2, <3>1, QueuedSend DEF DrainInv
  <2> QED BY <1>2, <2>1, <2>2
<1>4. Over' /\ Listening' /\ Reaped'
  BY <1>1 DEF DrainInv, Over, Listening, Reaped, Deaf
<1>5. Drained'
  <2>1. Looped' => Looped
    BY <1>1 DEF Looped
  <2>2. process.terminated => child = "reaped"
    BY DEF DrainInv, Reaped
  <2>3. process.terminated => written' = written
    BY <1>2, <2>2
  <2>4. delivered' = delivered /\ process' = process
    BY <1>1
  <2> QED BY <2>1, <2>3, <2>4 DEF DrainInv, Drained, Deaf
<1> QED BY <1>3, <1>4, <1>5 DEF DrainInv

(* What a handler of the loop does, other than reading. *)
LEMMA DrainHandler ==
  ASSUME TypeOK, DrainInv, ChildExited \/ InterruptSignal \/ PipeSignal
  PROVE  DrainInv'
<1>0. process \in ProcessType
  BY DEF TypeOK
<1>1. Looping /\ UNCHANGED <<socket, delivered, written, receiving, phase>>
  BY DEF ChildExited, InterruptSignal, PipeSignal, Interrupt, commandVars
<1>2. process'.error = process.error /\ (process'.terminated => child' = "reaped")
  <2>1. CASE ChildExited
    BY <2>1, WaitForChildRecords DEF ChildExited, DrainInv, Reaped
  <2>2. CASE InterruptSignal \/ PipeSignal
    BY <1>0, <2>2 DEF InterruptSignal, PipeSignal, Interrupt, Interrupted, ProcessType,
       commandVars, DrainInv, Reaped
  <2> QED BY <2>1, <2>2
<1>3. Queued'
  BY <1>1, <1>2 DEF DrainInv, Queued, Messages, Unbroken
<1>4. ~Looped'
  BY <1>1 DEF Looping, Looped
<1> QED BY <1>1, <1>2, <1>3, <1>4 DEF DrainInv, Over, Listening, Reaped, Drained, Deaf

LEMMA StepDrain == TypeOK /\ DrainInv /\ [Next]_vars => DrainInv'
<1> SUFFICES ASSUME TypeOK, DrainInv, [Next]_vars
             PROVE  DrainInv'
  OBVIOUS
<1>0. process \in ProcessType
  BY DEF TypeOK
<1>1. CASE Environment
  BY <1>1, DrainEnvironment
<1>2. CASE ChildExited \/ InterruptSignal \/ PipeSignal
  BY <1>2, DrainHandler
<1>3. CASE Receive
  <2>1. Queued'
    BY <1>3, QueuedReceive DEF DrainInv
  <2>2. /\ UNCHANGED <<child, receiving, phase>> /\ Looping /\ receiving
        /\ process' = process \/ process' = Error(process, "WRITE_OUTPUT")
    BY <1>3 DEF Receive, commandVars
  <2>3. process'.terminated = process.terminated /\ process'.error \in {process.error, "WRITE_OUTPUT"}
    BY <1>0, <2>2 DEF Error, ProcessType
  <2>4. Over' /\ Listening' /\ Reaped' /\ ~Looped'
    BY <2>2, <2>3 DEF DrainInv, Over, Listening, Reaped, Looping, Looped
  <2> QED BY <2>1, <2>4 DEF DrainInv, Drained
<1>4. CASE CloseFails \/ ReceiveFails
  <2>1. UNCHANGED <<child, socket, delivered, written, phase>> /\ phase \in {"forked", "run", "poll"}
    BY <1>4 DEF CloseFails, ReceiveFails, commandVars, Looping
  <2>2. /\ process'.terminated = process.terminated
        /\ \/ phase = "forked" /\ process'.error = "CLOSE_OUTPUT"
           \/ process'.error = "READ_INPUT"
    BY <1>0, <1>4 DEF CloseFails, ReceiveFails, Error, ProcessType
  <2>3. Queued'
    BY <2>1 DEF DrainInv, Queued, Messages, Over, Unbroken
  <2>4. Over' /\ Listening' /\ Reaped' /\ ~Looped'
    BY <2>1, <2>2 DEF DrainInv, Over, Listening, Reaped, Looped, Deaf
  <2> QED BY <2>3, <2>4 DEF DrainInv, Drained
<1>5. CASE MainLoopException
  <2>1. UNCHANGED <<child, socket, delivered, written>> /\ phase' = "looped"
    BY <1>5 DEF MainLoopException, commandVars
  <2>2. process'.error = "MAIN_LOOP_EXCEPTION" /\ process'.terminated = process.terminated
    BY <1>0, <1>5 DEF MainLoopException, Error, ProcessType
  <2>3. Queued'
    BY <2>1, <2>2 DEF DrainInv, Queued, Messages, Unbroken
  <2> QED BY <2>1, <2>2, <2>3 DEF DrainInv, Over, Listening, Reaped, Drained, Deaf
<1>6. CASE Start \/ RunReturns \/ PollAgain
  <2>1. UNCHANGED <<child, socket, delivered, written, process>>
    BY <1>6 DEF Start, RunReturns, PollAgain, commandVars
  <2>2. /\ phase \in {"forked", "run", "poll"} /\ phase' \in {"run", "poll"}
        /\ receiving' \/ (phase # "forked" /\ receiving' = receiving)
    BY <1>6 DEF Start, RunReturns, PollAgain
  <2>3. Queued'
    BY <2>1, <2>2 DEF DrainInv, Queued, Messages, Unbroken
  <2> QED BY <2>1, <2>2, <2>3 DEF DrainInv, Over, Listening, Reaped, Looped, Drained, Deaf
<1>7. CASE PollDone
  <2>1. UNCHANGED <<child, socket, delivered, written, process, receiving>>
    BY <1>7 DEF PollDone, commandVars, loopVars
  <2>2. phase = "poll" /\ phase' = "looped" /\ (receiving => socket = <<>>)
    BY <1>7 DEF PollDone, Ready
  <2>3. Queued'
    BY <2>1, <2>2 DEF DrainInv, Queued, Messages, Unbroken
  <2>4. ASSUME ~Deaf
        PROVE  delivered = written
    <3>1. socket = <<>>
      BY <2>2, <2>4 DEF DrainInv, Listening
    <3>2. ~(\E n \in 1..written : n > delivered)
      BY <2>2, <2>4, <3>1 DEF DrainInv, Queued, Messages, Unbroken, Deaf
    <3>3. delivered \in 0..written /\ written \in Nat
      BY DEF TypeOK
    <3> QED BY <3>2, <3>3
  <2> QED BY <2>1, <2>2, <2>3, <2>4 DEF DrainInv, Over, Listening, Reaped, Drained, Deaf
<1>8. CASE StopSignals \/ ResetSignals \/ Exit
  <2>1. UNCHANGED <<child, socket, delivered, written, process, receiving>>
    BY <1>8 DEF StopSignals, ResetSignals, Exit, commandVars, loopVars
  <2>2. Looped /\ phase' \in {"reporting", "exiting", "exited", "killed"}
    BY <1>8 DEF StopSignals, ResetSignals, Exit, Looped
  <2>3. Queued'
    BY <2>1, <2>2 DEF DrainInv, Queued, Messages, Looped, Unbroken
  <2> QED BY <2>1, <2>2, <2>3 DEF DrainInv, Over, Listening, Reaped, Drained, Deaf
<1>9. CASE UNCHANGED vars
  <2>1. UNCHANGED <<child, socket, delivered, written, process, receiving, phase>>
    BY <1>9 DEF vars, commandVars, loopVars
  <2>2. Queued'
    BY <2>1 DEF DrainInv, Queued, Messages, Unbroken
  <2> QED BY <2>1, <2>2 DEF DrainInv, Over, Listening, Reaped, Drained, Deaf, Looped
<1>10. CASE Throws
  <2>1. Queued'
    BY <1>10, QueuedThrows DEF DrainInv
  <2>2. phase' = "threw"
    BY <1>10, ThrowsIsThrow DEF Throw
  <2>3. Reaped'
    <3>1. CASE ChildExitedThrows
      BY <3>1, WaitForChildRecords DEF ChildExitedThrows, DrainInv, Reaped
    <3>2. CASE ~ChildExitedThrows
      BY <1>10, <3>2, ThrowsRecord DEF DrainInv, Reaped
    <3> QED BY <3>1, <3>2
  <2> QED BY <2>1, <2>2, <2>3 DEF DrainInv, Over, Listening, Drained, Looped
<1> QED
  BY <1>1, <1>2, <1>3, <1>4, <1>5, <1>6, <1>7, <1>8, <1>9, <1>10 DEF Next, Handler, Throws, Done

LEMMA InitDrain == Init => DrainInv
<1> SUFFICES ASSUME Init
             PROVE  DrainInv
  OBVIOUS
<1>1. socket = <<>> /\ written = 0 /\ phase = "forked"
  BY DEF Init
<1>2. process.error # "MAIN_LOOP_EXCEPTION" /\ ~process.terminated
  BY Errors DEF Init, NewProcess, Error, ProcessType
<1>3. Queued
  BY <1>1 DEF Queued, Messages
<1> QED BY <1>1, <1>2, <1>3 DEF DrainInv, Over, Listening, Reaped, Drained, Looped

(* Once the main loop is over and the command's end is known, everything   *)
(* the command wrote has been passed on.                                   *)
THEOREM LoopDrains == Spec => []Drained
<1>1. Init => DrainInv
  BY InitDrain
<1>2. TypeOK /\ DrainInv /\ [Next]_vars => DrainInv'
  BY StepDrain
<1>3. DrainInv => Drained
  BY DEF DrainInv
<1> QED BY <1>1, <1>2, <1>3, LoopTypes, PTL DEF Spec
------------------------------------------------------------------------------
(* An undisturbed dtee *)

(* Without job control, SIGCHLD means that the command has ended, and what *)
(* dtee knows of its end is true.  Nothing else is ever caught unless      *)
(* somebody sends a signal.                                                *)
Account ==
  /\ child # "stopped"
  /\ child \in {"zombie", "reaped"} => ended \in Ends
  /\ process.terminated =>
       child = "reaped" /\ process.exit_status = ended[1] /\ process.exit_signum = ended[2]
  /\ SIGCHLD \in caught => child = "zombie"
  /\ sent = {} => caught \subseteq {SIGCHLD} /\ process.interrupt_signum < 0

LEMMA InitAccount == Init => Account
<1> SUFFICES ASSUME Init
             PROVE  Account
  OBVIOUS
<1>1. ~process.terminated /\ process.interrupt_signum = -1
  BY Errors DEF Init, NewProcess, Error, ProcessType
<1> QED BY <1>1 DEF Init, Account

LEMMA StepAccount ==
  ASSUME ~Stoppable, TypeOK, Account, [Next]_vars
  PROVE  Account'
<1>0. process \in ProcessType
  BY DEF TypeOK
<1>1. CASE CommandEnds
  <2>1. child = "running" /\ child' = "zombie" /\ ended' \in Ends
    BY <1>1 DEF CommandEnds, Account
  <2>2. UNCHANGED <<process, sent>> /\ caught' \subseteq caught \cup {SIGCHLD}
    BY <1>1 DEF CommandEnds, ChildSignal
  <2>3. ~process.terminated
    BY <2>1 DEF Account
  <2> QED BY <2>1, <2>2, <2>3 DEF Account
<1>2. CASE \E signum \in SentSignals : SendSignal(signum)
  <2>1. PICK signum \in SentSignals : SendSignal(signum)
    BY <1>2
  <2>2. signum # SIGCHLD
    BY EventLoopAssumption DEF EventLoopAssumption
  <2>3. UNCHANGED <<child, ended, process>> /\ sent' # {} /\ caught' \subseteq caught \cup {signum}
    BY <2>1 DEF SendSignal, commandVars
  <2> QED BY <2>2, <2>3 DEF Account
<1>3. CASE ChildExited \/ ChildExitedThrows
  <2>1. WaitForChild
    BY <1>3 DEF ChildExited, ChildExitedThrows
  <2>2. UNCHANGED <<ended, sent>> /\ caught' = caught \ {SIGCHLD} /\ child = "zombie"
    BY <1>3, <2>1 DEF ChildExited, ChildExitedThrows, Throw, WaitForChild, Account
  <2>3. /\ child' = "reaped"
        /\ process'.exit_status = ended[1] /\ process'.exit_signum = ended[2]
        /\ process'.interrupt_signum = process.interrupt_signum
    BY <2>1, <2>2, WaitForChildRecords
  <2> QED BY <2>2, <2>3 DEF Account
<1>4. CASE InterruptSignal \/ PipeSignal
  <2>1. PICK signum \in InterruptSignals \cup PipeSignals : Interrupt(signum)
    BY <1>4 DEF InterruptSignal, PipeSignal
  <2>2. signum # SIGCHLD /\ signum \in caught
    BY <2>1, HandledSignals DEF Interrupt
  <2>3. UNCHANGED <<child, ended, sent>> /\ caught' \subseteq caught
    BY <2>1 DEF Interrupt, commandVars
  <2>4. /\ process'.terminated = process.terminated
        /\ process'.exit_status = process.exit_status /\ process'.exit_signum = process.exit_signum
    BY <1>0, <2>1 DEF Interrupt, Interrupted, ProcessType
  <2> QED BY <2>2, <2>3, <2>4 DEF Account
<1>5. CASE CloseFails \/ ReceiveFails \/ Receive \/ MainLoopException
  <2>1. UNCHANGED <<child, ended, sent, caught>>
    BY <1>5 DEF CloseFails, ReceiveFails, Receive, MainLoopException, commandVars
  <2>2. PICK type \in ErrorType : process' = process \/ process' = Error(process, type)
    <3>1. CASE CloseFails
      BY <3>1, Errors DEF CloseFails
    <3>2. CASE ReceiveFails
      BY <3>2, Errors DEF ReceiveFails
    <3>3. CASE Receive
      BY <3>3, Errors DEF Receive
    <3>4. CASE MainLoopException
      BY <3>4, Errors DEF MainLoopException
    <3> QED BY <1>5, <3>1, <3>2, <3>3, <3>4
  <2>3. /\ process'.terminated = process.terminated
        /\ process'.exit_status = process.exit_status /\ process'.exit_signum = process.exit_signum
        /\ process'.interrupt_signum = process.interrupt_signum
    BY <1>0, <2>2 DEF Error, ProcessType
  <2> QED BY <2>1, <2>3 DEF Account
<1>6. CASE \/ CommandWrites \/ CommandForks \/ BackgroundWrites \/ BackgroundEnds
           \/ Start \/ RunReturns \/ PollAgain \/ PollDone
           \/ StopSignals \/ ResetSignals \/ Exit \/ UNCHANGED vars
  <2>1. UNCHANGED <<child, ended, sent, process>>
    BY <1>6 DEF CommandWrites, CommandForks, BackgroundWrites, BackgroundEnds, Start, RunReturns,
       PollAgain, PollDone, StopSignals, ResetSignals, Exit, commandVars, vars
  <2>2. caught' \subseteq caught
    BY <1>6 DEF CommandWrites, CommandForks, BackgroundWrites, BackgroundEnds, Start, RunReturns,
       PollAgain, PollDone, StopSignals, ResetSignals, Exit, commandVars, vars
  <2> QED BY <2>1, <2>2 DEF Account
<1>7. ~CommandStops /\ ~CommandContinues
  BY DEF CommandStops, CommandContinues, Account
<1>8. CASE Throws /\ ~ChildExitedThrows
  <2>1. UNCHANGED <<child, ended, sent>>
    BY <1>8, ThrowsIsThrow, ThrowsRecord DEF Throw
  <2>2. /\ process'.terminated = process.terminated
        /\ process'.exit_status = process.exit_status /\ process'.exit_signum = process.exit_signum
        /\ caught' \subseteq caught
    BY <1>8, ThrowsRecord
  <2>3. sent = {} => caught' = caught /\ process'.interrupt_signum = process.interrupt_signum
    BY <1>8, ThrowsRecord, HandledSignals DEF Account
  <2> QED BY <2>1, <2>2, <2>3 DEF Account
<1> QED
  BY <1>1, <1>2, <1>3, <1>4, <1>5, <1>6, <1>7, <1>8 DEF Next, Environment, Handler, Throws, Done

LEMMA AccountIsTransparent ==
  ASSUME TypeOK, Explained, Drained, Account
  PROVE  Transparent
<1> SUFFICES ASSUME phase = "exited", sent = {}, process.error = "NONE"
             PROVE  /\ child = "reaped" /\ delivered = written
                    /\ ExitStatus(process) =
                         IF ended[1] >= 0 THEN ended[1] ELSE SHELL_EXIT_CODE_SIGNAL + ended[2]
  BY DEF Transparent
<1>1. process.terminated /\ ~(process.interrupt_signum >= 0)
  <2>1. process \in ProcessType
    BY DEF TypeOK
  <2>2. process.interrupt_signum \in SignalNumber \cup {-1}
    BY <2>1 DEF ProcessType
  <2>3. process.interrupt_signum \in Int
    BY <2>2 DEF SignalNumber
  <2>4. process.interrupt_signum < 0
    BY DEF Account
  <2>5. ~(process.interrupt_signum >= 0)
    BY <2>3, <2>4
  <2> QED BY <2>5 DEF Explained, Looped
<1>2. delivered = written
  BY <1>1 DEF Drained, Looped, Deaf
<1>3. child = "reaped" /\ process.exit_status = ended[1] /\ process.exit_signum = ended[2]
  BY <1>1 DEF Account
<1>4. ended[1] >= 0 \/ ended[2] >= 0
  BY <1>3, EndsType DEF Account
<1>5. ExitStatus(process) =
        IF ended[1] >= 0 THEN ended[1] ELSE SHELL_EXIT_CODE_SIGNAL + ended[2]
  BY <1>1, <1>3, <1>4 DEF ExitStatus
<1> QED BY <1>2, <1>3, <1>5

(* A dtee that nobody disturbs is transparent, unless there is job control.*)
THEOREM LoopIsTransparent == ~Stoppable => (Spec => []Transparent)
<1> SUFFICES ASSUME ~Stoppable
             PROVE  Spec => []Transparent
  OBVIOUS
<1>1. Init => Account
  BY InitAccount
<1>2. TypeOK /\ Account /\ [Next]_vars => Account'
  BY StepAccount
<1>3. TypeOK /\ Explained /\ Drained /\ Account => Transparent
  BY AccountIsTransparent
<1> QED BY <1>1, <1>2, <1>3, LoopTypes, LoopEndsForAReason, LoopDrains, PTL DEF Spec
------------------------------------------------------------------------------
(* SIGPIPE while reporting *)

(* The handler of SIGPIPE is in place until reset().                       *)
PipeCaught ==
  phase \in {"exiting", "exited", "killed"} \/ PipeSignals \subseteq handled

LEMMA PipeNotInterrupt == PipeSignals \cap (InterruptSignals \cup {SIGCHLD}) = {}
BY DEF PipeSignals, InterruptSignals, SIGHUP, SIGINT, SIGPIPE, SIGTERM, SIGCHLD

LEMMA StepPipeCaught == PipeCaught /\ [Next]_vars => PipeCaught'
<1> SUFFICES ASSUME PipeCaught, [Next]_vars
             PROVE  PipeCaught'
  OBVIOUS
<1> USE ModeKept DEF PipeCaught
<1>1. CASE ChildExited \/ StopSignals
  BY <1>1, PipeNotInterrupt DEF ChildExited, StopSignals
<1>2. CASE ResetSignals \/ Exit
  BY <1>2 DEF ResetSignals, Exit
<1>3. CASE Environment
  BY <1>3 DEF Environment, CommandWrites, CommandForks, CommandEnds, CommandStops,
     CommandContinues, BackgroundWrites, BackgroundEnds, SendSignal
<1>4. CASE CloseFails \/ Start \/ Receive \/ InterruptSignal \/ PipeSignal \/ ReceiveFails
  BY <1>4 DEF CloseFails, Start, Receive, InterruptSignal, PipeSignal, Interrupt, ReceiveFails, Looping
<1>5. CASE MainLoopException \/ RunReturns \/ PollAgain \/ PollDone
  BY <1>5 DEF MainLoopException, RunReturns, PollAgain, PollDone, Looping
<1>6. CASE Throws
  BY <1>6, ThrowsIsThrow DEF Throw, Looping
<1>7. CASE UNCHANGED vars
  BY <1>7 DEF vars
<1> QED BY <1>1, <1>2, <1>3, <1>4, <1>5, <1>6, <1>7 DEF Next, Handler, Throws, Done

LEMMA PipeStep ==
  ASSUME PipeCaught, [Next]_vars,
         cron_mode, SIGPIPE \in sent' \ sent, phase # "exiting"
  PROVE  phase' # "killed"
<1>1. sent' # sent
  OBVIOUS
<1>2. PICK signum \in SentSignals : SendSignal(signum)
  <2>1. ~UNCHANGED vars
    BY <1>1 DEF vars
  <2>2. ~Throws
    BY <1>1, ThrowsIsThrow DEF Throw
  <2>3. Environment
    BY <1>1, <2>1, <2>2 DEF Next, Done, CloseFails, Start, Handler, Receive, ChildExited,
       InterruptSignal, PipeSignal, Interrupt, ReceiveFails, Throws, MainLoopException,
       RunReturns, PollAgain, PollDone, StopSignals, ResetSignals, Exit
  <2> QED BY <1>1, <2>3 DEF Environment, CommandWrites, CommandForks, CommandEnds,
       CommandStops, CommandContinues, BackgroundWrites, BackgroundEnds
<1>3. signum = SIGPIPE /\ ~Gone
  BY <1>2 DEF SendSignal
<1>4. SIGPIPE \in handled
  BY <1>3 DEF PipeCaught, PipeSignals, Gone
<1> QED BY <1>2, <1>3, <1>4 DEF SendSignal, Gone

(* In cron mode SIGPIPE does not end dtee before it has reported.          *)
THEOREM ReportSurvives == Spec => ReportNotCut
<1>1. Init => PipeCaught
  BY DEF Init, PipeCaught, Handled, PipeSignals
<1>2. PipeCaught /\ [Next]_vars => PipeCaught'
  BY StepPipeCaught
<1>3. PipeCaught /\ [Next]_vars =>
        [cron_mode /\ SIGPIPE \in sent' \ sent /\ phase # "exiting" => phase' # "killed"]_vars
  BY PipeStep
<1> QED BY <1>1, <1>2, <1>3, PTL DEF Spec, ReportNotCut
------------------------------------------------------------------------------
(* Nothing is forgotten *)

(* Nothing has stopped the loop yet: all handlers are due that can be.     *)
Due ==
  phase \in {"forked", "run"} /\ ~stopped =>
    /\ phase = "run" => receiving
    /\ SIGCHLD \in handled /\ child # "reaped"
    /\ child = "zombie" => SIGCHLD \in caught
    /\ sent \subseteq caught

(* A signal for the loop is due until an interruption has been recorded.   *)
DueOrKnown ==
  phase \in {"forked", "run", "poll"} =>
    \/ sent \cap (InterruptSignals \cup PipeSignals) \subseteq caught
    \/ process.interrupt_signum >= 0

LEMMA StepDue == TypeOK /\ Due /\ [Next]_vars => Due'
<1> SUFFICES ASSUME TypeOK, Due, [Next]_vars
             PROVE  Due'
  OBVIOUS
<1>1. CASE CommandWrites \/ CommandForks \/ BackgroundWrites \/ BackgroundEnds
  BY <1>1 DEF Due, CommandWrites, CommandForks, BackgroundWrites, BackgroundEnds, commandVars,
     loopVars
<1>2. CASE CommandEnds \/ CommandStops \/ CommandContinues
  BY <1>2 DEF Due, CommandEnds, CommandStops, CommandContinues, ChildSignal, loopVars
<1>3. ASSUME NEW signum \in SentSignals, SendSignal(signum)
      PROVE  Due'
  BY <1>3 DEF Due, SendSignal, commandVars, loopVars
<1>4. CASE CloseFails \/ Start
  BY <1>4 DEF Due, CloseFails, Start, commandVars, loopVars
<1>5. CASE Receive
  BY <1>5 DEF Due, Receive, commandVars
<1>6. CASE ReceiveFails \/ ChildExited
  BY <1>6 DEF Due, ReceiveFails, ChildExited
<1>7. CASE InterruptSignal \/ PipeSignal
  BY <1>7 DEF Due, InterruptSignal, PipeSignal, Interrupt
<1>8. CASE \/ MainLoopException \/ RunReturns \/ PollAgain \/ PollDone
           \/ StopSignals \/ ResetSignals \/ Exit
  BY <1>8 DEF Due, MainLoopException, RunReturns, PollAgain, PollDone, StopSignals, ResetSignals,
     Exit
<1>9. CASE Throws
  BY <1>9, ThrowsIsThrow DEF Due, Throw
<1>10. CASE UNCHANGED vars
  BY <1>10 DEF Due, vars, commandVars, loopVars
<1> QED
  BY <1>1, <1>2, <1>3, <1>4, <1>5, <1>6, <1>7, <1>8, <1>9, <1>10
  DEF Next, Environment, Handler, Throws, Done

LEMMA StepDueOrKnown == TypeOK /\ DueOrKnown /\ [Next]_vars => DueOrKnown'
<1> SUFFICES ASSUME TypeOK, DueOrKnown, [Next]_vars
             PROVE  DueOrKnown'
  OBVIOUS
<1> DEFINE mine == InterruptSignals \cup PipeSignals
<1>0. /\ process \in ProcessType /\ mine' = mine
      /\ mine \subseteq SignalNumber /\ SIGCHLD \notin mine
  BY ModeKept, HandledSignals DEF TypeOK, InterruptSignals, PipeSignals
<1>1. CASE CommandWrites \/ CommandForks \/ BackgroundWrites \/ BackgroundEnds \/ Start
  BY <1>0, <1>1 DEF DueOrKnown, CommandWrites, CommandForks, BackgroundWrites, BackgroundEnds,
     Start
<1>2. CASE CommandEnds \/ CommandStops \/ CommandContinues
  BY <1>0, <1>2 DEF DueOrKnown, CommandEnds, CommandStops, CommandContinues, ChildSignal
<1>3. ASSUME NEW signum \in SentSignals, SendSignal(signum)
      PROVE  DueOrKnown'
  BY <1>0, <1>3 DEF DueOrKnown, SendSignal
<1>4. CASE CloseFails \/ Receive \/ ReceiveFails
  <2>1. \A type \in ErrorType : Error(process, type).interrupt_signum = process.interrupt_signum
    BY <1>0, ProcessMethods
  <2> QED BY <1>0, <1>4, <2>1, Errors DEF DueOrKnown, CloseFails, Receive, ReceiveFails, Looping
<1>5. CASE ChildExited
  <2>1. CASE process'.interrupt_signum = process.interrupt_signum
    BY <1>0, <1>5, <2>1 DEF DueOrKnown, ChildExited, WaitForChild, Looping
  <2>2. CASE process'.interrupt_signum = SIGCHLD
    BY <2>2 DEF DueOrKnown, SIGCHLD
  <2> QED BY <1>5, <2>1, <2>2, WaitForChildRecords DEF ChildExited
<1>6. CASE InterruptSignal \/ PipeSignal
  <2>1. PICK signum \in mine : Interrupt(signum)
    BY <1>6 DEF InterruptSignal, PipeSignal
  <2>2. process'.interrupt_signum = signum /\ signum \in SignalNumber
    BY <1>0, <2>1 DEF Interrupt, Interrupted, ProcessType
  <2> QED BY <2>2 DEF DueOrKnown, SignalNumber
<1>7. CASE RunReturns \/ PollAgain
  BY <1>0, <1>7 DEF DueOrKnown, RunReturns, PollAgain
<1>8. CASE MainLoopException \/ PollDone \/ StopSignals \/ ResetSignals \/ Exit
  BY <1>8 DEF DueOrKnown, MainLoopException, PollDone, StopSignals, ResetSignals, Exit
<1>9. CASE Throws
  BY <1>9, ThrowsIsThrow DEF DueOrKnown, Throw
<1>10. CASE UNCHANGED vars
  BY <1>0, <1>10 DEF DueOrKnown, vars
<1> QED
  BY <1>1, <1>2, <1>3, <1>4, <1>5, <1>6, <1>7, <1>8, <1>9, <1>10
  DEF Next, Environment, Handler, Throws, Done

(* The loop never waits when something has happened that it would not hear *)
(* of: what is behind Finishes, WritesProceed and SignalsHonoured besides  *)
(* fairness.                                                               *)
THEOREM LoopForgetsNothing == Spec => []NothingForgotten
<1>1. Init => Due /\ DueOrKnown
  BY DEF Init, Due, DueOrKnown, Handled
<1>2. TypeOK /\ Due /\ DueOrKnown => NothingForgotten
  BY DEF Due, DueOrKnown, NothingForgotten
<1> QED BY <1>1, <1>2, StepDue, StepDueOrKnown, LoopTypes, PTL DEF Spec
==============================================================================
