------------------------------- MODULE Startup -------------------------------
(***************************************************************************)
(* How dtee becomes two processes: Application::run() from the opening of  *)
(* the outputs to the main loop in the parent and to execute() in the      *)
(* child (application.cpp), with SignalHandler::open() and its destructor  *)
(* (signal_handler.cpp) and SignalBlock (signal_block.cpp).                *)
(*                                                                         *)
(* Signals may be sent to either process between any two steps.  Those     *)
(* dtee handles have their handlers before the fork, so that the end of    *)
(* the command is not missed, and must not be consumed by the copy of the  *)
(* handlers in the child, which is about to become the command.            *)
(***************************************************************************)
EXTENDS Process, Sequences

CONSTANTS
  Modes,             \* values of handle_signals_, which is set in cron mode
  IgnoreInterrupts,  \* ignore_sigint_
  InitiallyIgnored,  \* signals dtee is started with SIG_IGN for
  InitiallyBlocked,  \* signals dtee is started with blocked
  SentSignals        \* signals somebody sends to either process

ASSUME StartupAssumption ==
  /\ Modes \subseteq BOOLEAN /\ IgnoreInterrupts \in BOOLEAN
  /\ InitiallyIgnored \subseteq SignalNumber
  /\ InitiallyBlocked \subseteq SignalNumber
  /\ SentSignals \subseteq SignalNumber \ {SIGCHLD}

Processes == {"dtee", "child"}

VARIABLES
  cron_mode,    \* handle_signals_
  place,        \* where each process is in run(); the child is "none" before the fork
  disposition,  \* of each signal: "default", "ignore", or "handle" for the one of Boost.Asio
  blocked,      \* the signal mask
  pending,      \* signals that wait for being unblocked
  caught,       \* signals a handler has consumed
  added,        \* SignalBlock's sigset_
  process,      \* process_
  sent          \* history: signals that arrived and were not ignored

signalVars == <<disposition, blocked, pending, caught, added>>
vars == <<cron_mode, place, signalVars, process, sent>>

(* The calls of SignalHandler::add() that open() makes, in their order.    *)
Adds ==
  <<SIGCHLD>> \o
  (IF cron_mode
   THEN <<SIGHUP, SIGTERM>> \o (IF IgnoreInterrupts THEN <<>> ELSE <<SIGINT>>) \o <<SIGPIPE>>
   ELSE <<>>) \o
  (IF IgnoreInterrupts THEN <<SIGINT>> ELSE <<>>)

AddedSignals == {Adds[i] : i \in DOMAIN Adds}

(* The signals that can play a part. *)
Signals == {SIGCHLD, SIGHUP, SIGINT, SIGPIPE, SIGTERM} \cup SentSignals

NoSignals == [p \in Processes |-> {}]

Init ==
  /\ cron_mode \in Modes
  /\ place = [p \in Processes |-> IF p = "dtee" THEN "outputs" ELSE "none"]
  /\ disposition = [p \in Processes |-> [s \in Signals |->
                      IF s \in InitiallyIgnored THEN "ignore" ELSE "default"]]
  /\ blocked = [p \in Processes |-> InitiallyBlocked]
  /\ pending = NoSignals /\ caught = NoSignals /\ added = NoSignals
  /\ process = [p \in Processes |-> NewProcess]
  /\ sent = NoSignals

Goto(p, next) == place' = [place EXCEPT ![p] = next]
SetError(p, type) == process' = [process EXCEPT ![p] = Error(@, type)]

(* After an error that ends the setup, only dtee in cron mode goes on, to  *)
(* execute the command itself; either way its SignalHandler is destroyed.  *)
Fails(type) == SetError("dtee", type) /\ Goto("dtee", "reset")
------------------------------------------------------------------------------
(* Signals.                                                                *)

(* The signals among these that would kill process p, unless blocked.      *)
Fatal(p, signals) ==
  {s \in signals : disposition[p][s] = "default" /\ s # SIGCHLD}

(* SIGCHLD for the parent of a process that ends. *)
ChildGone ==
  IF SIGCHLD \in blocked["dtee"]
  THEN pending' = [pending EXCEPT !["dtee"] = @ \cup {SIGCHLD}] /\ UNCHANGED caught
  ELSE IF disposition["dtee"][SIGCHLD] = "handle"
  THEN caught' = [caught EXCEPT !["dtee"] = @ \cup {SIGCHLD}] /\ UNCHANGED pending
  ELSE UNCHANGED <<pending, caught>>

(* Process p is killed. *)
Dies(p) ==
  /\ Goto(p, "killed")
  /\ IF p = "child" THEN ChildGone ELSE UNCHANGED <<pending, caught>>

(* In run(), but not yet in the main loop. *)
Starting(p) == place[p] \notin {"none", "loop", "command", "exited", "killed"}

SendSignal(p, s) ==
  /\ Starting(p) /\ s \notin sent[p]
  /\ s \in blocked[p] \/ disposition[p][s] # "ignore"
  /\ sent' = [sent EXCEPT ![p] = @ \cup {s}]
  /\ \/ /\ s \in blocked[p]
        /\ pending' = [pending EXCEPT ![p] = @ \cup {s}]
        /\ UNCHANGED <<place, caught>>
     \/ /\ s \notin blocked[p] /\ disposition[p][s] = "handle"
        /\ caught' = [caught EXCEPT ![p] = @ \cup {s}]
        /\ UNCHANGED <<place, pending>>
     \/ /\ s \notin blocked[p] /\ s \in Fatal(p, {s})
        /\ Dies(p)
  /\ UNCHANGED <<cron_mode, disposition, blocked, added, process>>

(* SignalBlock::clear(): signals that waited now have their effect.  Those *)
(* that were blocked before dtee started are unblocked as well.            *)
Unblocks(p, next) ==
  LET waiting == pending[p] \cap added[p]
  IN  /\ blocked' = [blocked EXCEPT ![p] = @ \ added[p]]
      /\ added' = [added EXCEPT ![p] = {}]
      /\ \/ /\ Fatal(p, waiting) # {}
            /\ Dies(p)
         \/ /\ Fatal(p, waiting) = {}
            /\ pending' = [pending EXCEPT ![p] = @ \ added[p]]
            /\ caught' = [caught EXCEPT ![p] =
                            @ \cup {s \in waiting : disposition[p][s] = "handle"}]
            /\ Goto(p, next)
------------------------------------------------------------------------------
(* Application::run()                                                      *)

(* Mutant: errors opening the outputs are left to the report.              *)
OpenOutputsAnyway ==
  /\ place["dtee"] = "outputs"
  /\ \/ Goto("dtee", "input") /\ UNCHANGED process
     \/ SetError("dtee", "OPEN_OUTPUT") /\ Goto("dtee", "input")
  /\ UNCHANGED <<cron_mode, signalVars, sent>>

(* output->open() *)
OpenOutputs ==
  /\ place["dtee"] = "outputs"
  /\ \/ Goto("dtee", "input") /\ UNCHANGED process
     \/ SetError("dtee", "OPEN_OUTPUT") /\ Goto("dtee", IF cron_mode THEN "input" ELSE "reset")
  /\ UNCHANGED <<cron_mode, signalVars, sent>>

(* Mutant: cron mode is not looked at.                                     *)
OpenInputReturns ==
  /\ place["dtee"] = "input"
  /\ \/ Goto("dtee", "signals") /\ UNCHANGED process
     \/ SetError("dtee", "OPEN_INPUT") /\ Goto("dtee", "exited")
  /\ UNCHANGED <<cron_mode, signalVars, sent>>

(* input->open() *)
OpenInput ==
  /\ place["dtee"] = "input"
  /\ \/ Goto("dtee", "signals") /\ UNCHANGED process
     \/ Fails("OPEN_INPUT")
  /\ UNCHANGED <<cron_mode, signalVars, sent>>

(* The signal the next call of add() is for. *)
Handles(s) == disposition["dtee"][s] = "handle"
NextAdd(s) ==
  \E i \in DOMAIN Adds :
    /\ s = Adds[i] /\ ~Handles(s)
    /\ \A j \in 1..(i - 1) : Handles(Adds[j])

(* Mutant: sigprocmask() is not called. *)
AddBlocksNothing ==
  /\ place["dtee"] = "signals"
  /\ \E s \in AddedSignals :
       /\ NextAdd(s) /\ s \notin added["dtee"]
       /\ added' = [added EXCEPT !["dtee"] = @ \cup {s}]
  /\ UNCHANGED <<cron_mode, place, disposition, blocked, pending, caught, process, sent>>

(* SignalHandler::add(), SignalBlock::add() *)
AddBlocks ==
  /\ place["dtee"] = "signals"
  /\ \E s \in AddedSignals :
       /\ NextAdd(s) /\ s \notin added["dtee"]
       /\ blocked' = [blocked EXCEPT !["dtee"] = @ \cup {s}]
       /\ added' = [added EXCEPT !["dtee"] = @ \cup {s}]
  /\ UNCHANGED <<cron_mode, place, disposition, pending, caught, process, sent>>

(* SignalHandler::add(), signal_set.add() succeeds; or it fails, perhaps   *)
(* only after it has installed the handler, and open() gives up.           *)
AddInstalls ==
  /\ place["dtee"] = "signals"
  /\ \E s \in added["dtee"] :
       /\ NextAdd(s)
       /\ \/ /\ disposition' = [disposition EXCEPT !["dtee"][s] = "handle"]
             /\ UNCHANGED <<place, process>>
          \/ /\ disposition' \in {disposition, [disposition EXCEPT !["dtee"][s] = "handle"]}
             /\ Fails("SIGNAL_HANDLER")
  /\ UNCHANGED <<cron_mode, blocked, pending, caught, added, sent>>

(* Application::fork() fails. *)
ForkFails ==
  /\ place["dtee"] = "signals" /\ \A s \in AddedSignals : Handles(s)
  /\ Fails("FORK")
  /\ UNCHANGED <<cron_mode, signalVars, sent>>

(* Application::fork(): the child has everything of its parent except the  *)
(* pending signals.                                                        *)
ForkSucceeds ==
  /\ place["dtee"] = "signals" /\ \A s \in AddedSignals : Handles(s)
  /\ place' = [p \in Processes |-> IF p = "dtee" THEN "start" ELSE "child"]
  /\ disposition' = [disposition EXCEPT !["child"] = disposition["dtee"]]
  /\ blocked' = [blocked EXCEPT !["child"] = blocked["dtee"]]
  /\ added' = [added EXCEPT !["child"] = added["dtee"]]
  /\ process' = [process EXCEPT !["child"] = process["dtee"]]
  /\ UNCHANGED <<cron_mode, pending, caught, sent>>

(* Mutant: the parent does not return from run() but goes on as the child. *)
StartFallsThrough ==
  /\ place["dtee"] = "start"
  /\ Unblocks("dtee", "reset")
  /\ UNCHANGED <<cron_mode, disposition, process, sent>>

(* Mutant: signals that came before start() are dropped. *)
StartForgets ==
  /\ place["dtee"] = "start"
  /\ blocked' = [blocked EXCEPT !["dtee"] = @ \ added["dtee"]]
  /\ added' = [added EXCEPT !["dtee"] = {}]
  /\ pending' = [pending EXCEPT !["dtee"] = {}]
  /\ Goto("dtee", "loop")
  /\ UNCHANGED <<cron_mode, disposition, caught, process, sent>>

(* signal_handler->start() in the parent. *)
Start ==
  /\ place["dtee"] = "start"
  /\ Unblocks("dtee", "loop")
  /\ UNCHANGED <<cron_mode, disposition, process, sent>>

(* process_->fork_child() and input->fork_child() in the child, where      *)
(* closing a socket may fail.                                              *)
ForkChild ==
  /\ place["child"] = "child"
  /\ \E type \in {"NONE", "CLOSE_OUTPUT"} : SetError("child", type)
  /\ Goto("child", "reset")
  /\ UNCHANGED <<cron_mode, signalVars, sent>>

NoHandlers(p) ==
  disposition' = [disposition EXCEPT ![p] = [s \in Signals |->
                    IF @[s] = "handle" THEN "default" ELSE @[s]]]

(* Mutant: the signal_sets are destroyed after the SignalBlock.            *)
RemoveHandlersLate(p) ==
  /\ place[p] = "reset"
  /\ Unblocks(p, "unblock")
  /\ UNCHANGED <<cron_mode, disposition, process, sent>>

(* Mutant: signal_handler.reset() is missing in run(). *)
RemoveHandlersNever(p) ==
  /\ place[p] = "reset"
  /\ Goto(p, IF p = "child" \/ cron_mode THEN "execute" ELSE "exited")
  /\ UNCHANGED <<cron_mode, signalVars, process, sent>>

(* ~SignalHandler(): the signal_sets are destroyed first, which gives the  *)
(* signals their default action, whatever it was before.                   *)
RemoveHandlers(p) ==
  /\ place[p] = "reset"
  /\ NoHandlers(p)
  /\ Goto(p, "unblock")
  /\ UNCHANGED <<cron_mode, blocked, pending, caught, added, process, sent>>

(* ~SignalBlock().  Without cron mode, dtee is about to return from run(). *)
UnblockSignals(p) ==
  /\ place[p] = "unblock"
  /\ Unblocks(p, IF p = "child" \/ cron_mode THEN "execute" ELSE "exited")
  /\ UNCHANGED <<cron_mode, disposition, process, sent>>

(* Application::execute(): execvp() keeps the mask, the pending signals    *)
(* and what is ignored, or fails.                                          *)
Execute(p) ==
  /\ place[p] = "execute"
  /\ \/ /\ Goto(p, "command")
        /\ NoHandlers(p)
        /\ UNCHANGED <<process, pending, caught>>
     \/ /\ Goto(p, "exited") /\ SetError(p, "EXECUTE_COMMAND")
        /\ IF p = "child" THEN ChildGone ELSE UNCHANGED <<pending, caught>>
        /\ UNCHANGED disposition
  /\ UNCHANGED <<cron_mode, blocked, added, sent>>

(* The child is the command now, which ends at some time. *)
CommandEnds ==
  /\ place["child"] = "command"
  /\ Goto("child", "exited")
  /\ ChildGone
  /\ UNCHANGED <<cron_mode, disposition, blocked, added, process, sent>>

(* dtee's part is done: EventLoop has the rest of it. *)
Done ==
  /\ \A p \in Processes : ~Starting(p)
  /\ place["child"] # "command"
  /\ UNCHANGED vars

Step ==
  \/ OpenOutputs \/ OpenInput \/ AddBlocks \/ AddInstalls
  \/ ForkFails \/ ForkSucceeds \/ Start \/ ForkChild
  \/ \E p \in Processes : RemoveHandlers(p) \/ UnblockSignals(p) \/ Execute(p)

Next ==
  \/ Step
  \/ \E p \in Processes, s \in SentSignals : SendSignal(p, s)
  \/ CommandEnds
  \/ Done

Spec == Init /\ [][Next]_vars

(* Neither process stops between its steps. *)
Fairness ==
  /\ WF_vars(OpenOutputs) /\ WF_vars(OpenInput) /\ WF_vars(AddBlocks) /\ WF_vars(AddInstalls)
  /\ WF_vars(ForkFails \/ ForkSucceeds) /\ WF_vars(Start) /\ WF_vars(ForkChild)
  /\ \A p \in Processes : WF_vars(RemoveHandlers(p) \/ UnblockSignals(p) \/ Execute(p))

FairSpec == Spec /\ Fairness
------------------------------------------------------------------------------
TypeOK ==
  /\ cron_mode \in Modes
  /\ place \in [Processes -> {"none", "outputs", "input", "signals", "start", "loop", "child",
                              "reset", "unblock", "execute", "command", "exited", "killed"}]
  /\ disposition \in [Processes -> [Signals -> {"default", "ignore", "handle"}]]
  /\ \A v \in {blocked, pending, caught, added, sent} : v \in [Processes -> SUBSET SignalNumber]
  /\ process \in [Processes -> ProcessType]
  /\ \A p \in Processes : Starting(p) => pending[p] \cup added[p] \subseteq blocked[p]

(* A signal that reaches a process before it becomes the command is never  *)
(* consumed by dtee's handlers there: it kills the process, or it is still *)
(* pending for the command because it was blocked from the start.          *)
NothingSwallowed ==
  \A p \in Processes : place[p] = "command" => sent[p] \subseteq pending[p] \cup InitiallyIgnored

(* When the main loop begins, every signal since dtee was started, and the *)
(* end of a child that was quicker than start(), is with its handler.      *)
NothingMissed ==
  place["dtee"] = "loop" =>
    /\ sent["dtee"] \subseteq caught["dtee"] \cup pending["dtee"]
    /\ place["child"] \in {"exited", "killed"} => SIGCHLD \in caught["dtee"]

(* The command does not start with signals blocked that dtee has blocked,  *)
(* whichever process becomes it and whatever has failed before.            *)
CleanCommand ==
  \A p \in Processes : place[p] = "command" => blocked[p] \subseteq InitiallyBlocked

(* Whatever fails, dtee never executes the command when a child was made   *)
(* to do so.                                                               *)
ExecutedOnce == place["child"] # "none" => place["dtee"] \notin {"execute", "command"}

(* Without cron mode the command is not started after an error.            *)
NotAfterError ==
  ~cron_mode /\ place["child"] # "none" => process["dtee"].error = "NONE"

(* "If we're running from cron then we have output an error message but    *)
(* must continue to execute the requested command": whatever else fails,   *)
(* the child, or dtee when there is no child, tries to execute the command *)
(* unless a signal kills that very process first.                          *)
Attempts(p) == place[p] \in {"command", "killed"} \/ process[p].error = "EXECUTE_COMMAND"
CronExecutes ==
  cron_mode => <>(Attempts("child") \/ (place["child"] = "none" /\ Attempts("dtee")))
==============================================================================
