----------------------------- MODULE StartupProofs -----------------------------
(***************************************************************************)
(* Proofs of the safety properties of Startup: what holds whatever signals *)
(* are sent, ignored or blocked when dtee begins, with or without cron     *)
(* mode, and whichever step fails.                                         *)
(***************************************************************************)
EXTENDS Startup, SequenceTheorems, TLAPS

(* Once there is a child, dtee is on its way to the main loop.             *)
Once == place["child"] # "none" => place["dtee"] \in {"start", "loop", "killed"}

Early == {"outputs", "input", "signals", "start", "loop"}

ErrorFree ==
  ~cron_mode /\ (place["dtee"] \in Early \/ place["child"] # "none") =>
    process["dtee"].error = "NONE"

(* What is blocked was so before or is to be unblocked.                    *)
Masks(p) ==
  /\ blocked[p] \subseteq InitiallyBlocked \cup added[p]
  /\ place[p] \in {"execute", "command"} => added[p] = {}

(* A signal with a handler is blocked until the main loop begins.          *)
Handlers(p) ==
  /\ added[p] \subseteq AddedSignals
  /\ \A s \in Signals :
       /\ disposition[p][s] = "handle" =>
            (s \in added[p] \/ place[p] \in {"loop", "killed"})
            /\ place[p] \notin {"unblock", "execute", "command"}
       /\ disposition[p][s] = "ignore" => s \in InitiallyIgnored

(* A signal sent is pending or caught, but caught only in the main loop.   *)
Kept(p) ==
  /\ sent[p] \subseteq SentSignals
  /\ place[p] \notin {"loop", "killed"} => caught[p] \subseteq {SIGCHLD}
  /\ place[p] # "killed" => sent[p] \subseteq pending[p] \cup caught[p] \cup InitiallyIgnored
  /\ place[p] = "none" => sent[p] = {} /\ pending[p] = {} /\ caught[p] = {}

Gone == place["child"] \in {"exited", "killed"}

(* No signal has been lost on the way of dtee to the main loop.            *)
OnTheWay ==
  /\ place["dtee"] \in Early => sent["dtee"] \subseteq pending["dtee"] \cup caught["dtee"]
  /\ place["dtee"] = "start" =>
       /\ SIGCHLD \in added["dtee"]
       /\ \A s \in added["dtee"] : Handles(s)
       /\ Gone => SIGCHLD \in pending["dtee"]
  /\ place["dtee"] = "loop" =>
       /\ Handles(SIGCHLD) /\ SIGCHLD \notin blocked["dtee"]
       /\ Gone => SIGCHLD \in caught["dtee"]

IInv ==
  /\ TypeOK /\ Once /\ ErrorFree /\ OnTheWay
  /\ \A p \in Processes : Masks(p) /\ Handlers(p) /\ Kept(p)
------------------------------------------------------------------------------
Five == {SIGCHLD, SIGHUP, SIGINT, SIGPIPE, SIGTERM}

(* open() adds SIGCHLD first, and nothing but these five. *)
LEMMA AddsFive ==
  /\ SIGCHLD \in AddedSignals
  /\ AddedSignals \subseteq Five /\ Five \subseteq SignalNumber
  /\ Five \cup SentSignals \subseteq Signals
<1> DEFINE rest == (IF cron_mode
                    THEN <<SIGHUP, SIGTERM>> \o (IF IgnoreInterrupts THEN <<>> ELSE <<SIGINT>>) \o <<SIGPIPE>>
                    ELSE <<>>)
           last == IF IgnoreInterrupts THEN <<SIGINT>> ELSE <<>>
<1>1. rest \in Seq(Five) /\ last \in Seq(Five) /\ <<SIGCHLD>> \in Seq(Five)
  <2>1. /\ <<SIGCHLD>> \in Seq(Five) /\ <<SIGHUP, SIGTERM>> \in Seq(Five) /\ <<SIGPIPE>> \in Seq(Five)
        /\ <<SIGINT>> \in Seq(Five) /\ <<>> \in Seq(Five)
    BY DEF Five
  <2> QED BY <2>1, ConcatProperties
<1>2. Adds = <<SIGCHLD>> \o rest \o last
  BY DEF Adds
<1> HIDE DEF rest, last
<1>3. <<SIGCHLD>> \o rest \in Seq(Five) /\ Len(<<SIGCHLD>> \o rest) = 1 + Len(rest)
      /\ (<<SIGCHLD>> \o rest)[1] = SIGCHLD
  BY <1>1, ConcatProperties
<1>4. Adds \in Seq(Five) /\ Len(Adds) = 1 + Len(rest) + Len(last) /\ Adds[1] = SIGCHLD
  <2>1. Len(rest) \in Nat
    BY <1>1, LenProperties
  <2> QED BY <1>1, <1>2, <1>3, <2>1, ConcatProperties
<1>5. DOMAIN Adds = 1..Len(Adds) /\ 1 \in DOMAIN Adds
  BY <1>1, <1>4, LenProperties
<1>6. \A i \in DOMAIN Adds : Adds[i] \in Five
  BY <1>4, <1>5, ElementOfSeq
<1>7. Five \subseteq SignalNumber
  BY DEF Five, SignalNumber, SIGCHLD, SIGHUP, SIGINT, SIGPIPE, SIGTERM
<1> QED BY <1>4, <1>5, <1>6, <1>7 DEF AddedSignals, Signals, Five

(* Signals somebody sends are not SIGCHLD.                                 *)
LEMMA Sent ==
  /\ SentSignals \subseteq SignalNumber /\ SentSignals \subseteq Signals
  /\ SIGCHLD \notin SentSignals /\ SIGCHLD \in Signals /\ SIGCHLD \in SignalNumber
  /\ Signals \subseteq SignalNumber
  /\ InitiallyIgnored \subseteq SignalNumber /\ InitiallyBlocked \subseteq SignalNumber
BY AddsFive, StartupAssumption DEF StartupAssumption, Signals, Five

LEMMA Errors ==
  /\ NewProcess \in ProcessType
  /\ \A p \in ProcessType, type \in ErrorType : Error(p, type) \in ProcessType
  /\ {"OPEN_OUTPUT", "OPEN_INPUT", "SIGNAL_HANDLER", "FORK", "EXECUTE_COMMAND", "NONE", "CLOSE_OUTPUT"}
       \subseteq ErrorType
BY DEF ErrorType, NewProcess, ProcessType, Error

(* Cron mode stays what it is, and with it the signals added.              *)
LEMMA ModeKept == [Next]_vars => cron_mode' = cron_mode /\ AddedSignals' = AddedSignals
<1> SUFFICES ASSUME [Next]_vars
             PROVE  cron_mode' = cron_mode /\ AddedSignals' = AddedSignals
  OBVIOUS
<1>1. cron_mode' = cron_mode
  BY DEF Next, Step, OpenOutputs, OpenInput, AddBlocks, AddInstalls, ForkFails, ForkSucceeds,
     Start, ForkChild, RemoveHandlers, UnblockSignals, Execute, SendSignal, CommandEnds, Done, vars
<1> QED BY <1>1 DEF AddedSignals, Adds
------------------------------------------------------------------------------
LEMMA InitIInv == Init => IInv
<1> SUFFICES ASSUME Init
             PROVE  IInv
  OBVIOUS
<1> USE DEF Init, NoSignals, Processes
<1>1. TypeOK
  BY Sent, Errors DEF TypeOK, Starting
<1>2. \A p \in Processes : Masks(p) /\ Handlers(p) /\ Kept(p)
  BY DEF Masks, Handlers, Kept
<1>3. Once /\ ErrorFree /\ OnTheWay
  BY DEF Once, ErrorFree, OnTheWay, NewProcess
<1> QED BY <1>1, <1>2, <1>3 DEF IInv

(* Steps that only change where a process is, and errors.                  *)
LEMMA Moves ==
  ASSUME IInv, [Next]_vars, OpenOutputs \/ OpenInput \/ ForkFails \/ ForkChild
  PROVE  IInv'
<1>0. PICK p \in Processes, next \in {"input", "reset", "signals"} :
        /\ place' = [place EXCEPT ![p] = next]
        /\ place[p] \in {"outputs", "input", "signals", "child"}
        /\ p = "child" <=> place[p] = "child"
  BY DEF OpenOutputs, OpenInput, ForkFails, ForkChild, Fails, Goto, SetError, Processes
<1>1. /\ UNCHANGED <<cron_mode, disposition, blocked, pending, caught, added, sent>>
      /\ AddedSignals' = AddedSignals
  BY ModeKept DEF OpenOutputs, OpenInput, ForkFails, ForkChild, signalVars
<1>2. TypeOK
  BY DEF IInv
<1>3. process' \in [Processes -> ProcessType]
  BY <1>2, Errors DEF TypeOK, OpenOutputs, OpenInput, ForkFails, ForkChild, Fails, SetError, Processes
<1>4. TypeOK'
  BY <1>0, <1>1, <1>2, <1>3 DEF TypeOK, Starting
<1>5. \A q \in Processes : Masks(q)' /\ Handlers(q)' /\ Kept(q)'
  BY <1>0, <1>1, <1>2 DEF IInv, TypeOK, Masks, Handlers, Kept
<1>6. Once' /\ OnTheWay'
  BY <1>0, <1>1, <1>2 DEF IInv, TypeOK, Once, OnTheWay, Handles, Gone, Early, Processes
<1>7. ErrorFree'
  BY <1>1, <1>2 DEF IInv, TypeOK, Once, ErrorFree, Early, OpenOutputs, OpenInput, ForkFails,
     ForkChild, Fails, Goto, SetError, Processes
<1> QED BY <1>4, <1>5, <1>6, <1>7 DEF IInv

LEMMA AddBlocksKeeps ==
  ASSUME IInv, [Next]_vars, AddBlocks
  PROVE  IInv'
<1>0. PICK s \in AddedSignals :
        /\ blocked' = [blocked EXCEPT !["dtee"] = @ \cup {s}]
        /\ added' = [added EXCEPT !["dtee"] = @ \cup {s}]
        /\ s \in SignalNumber
  BY AddsFive DEF AddBlocks
<1>1. /\ UNCHANGED <<cron_mode, place, disposition, pending, caught, process, sent>>
      /\ AddedSignals' = AddedSignals /\ place["dtee"] = "signals"
  BY ModeKept DEF AddBlocks
<1>2. TypeOK
  BY DEF IInv
<1>3. TypeOK'
  BY <1>0, <1>1, <1>2 DEF TypeOK, Starting, Processes
<1>4. \A q \in Processes : Masks(q)' /\ Handlers(q)' /\ Kept(q)'
  BY <1>0, <1>1, <1>2 DEF IInv, TypeOK, Masks, Handlers, Kept, Processes
<1>5. Once' /\ OnTheWay' /\ ErrorFree'
  BY <1>0, <1>1, <1>2 DEF IInv, TypeOK, Once, ErrorFree, OnTheWay, Early, Processes
<1> QED BY <1>3, <1>4, <1>5 DEF IInv

LEMMA AddInstallsKeeps ==
  ASSUME IInv, [Next]_vars, AddInstalls
  PROVE  IInv'
<1>0. PICK s \in added["dtee"] :
        \/ /\ disposition' = [disposition EXCEPT !["dtee"][s] = "handle"]
           /\ UNCHANGED <<place, process>>
        \/ /\ disposition' \in {disposition, [disposition EXCEPT !["dtee"][s] = "handle"]}
           /\ Fails("SIGNAL_HANDLER")
  BY DEF AddInstalls
<1>1. /\ UNCHANGED <<cron_mode, blocked, pending, caught, added, sent>>
      /\ AddedSignals' = AddedSignals /\ place["dtee"] = "signals"
  BY ModeKept DEF AddInstalls
<1>2. TypeOK
  BY DEF IInv
<1>3. s \in Signals
  BY <1>2, AddsFive DEF IInv, Handlers, Processes
<1>4. /\ disposition' \in [Processes -> [Signals -> {"default", "ignore", "handle"}]]
      /\ disposition'["child"] = disposition["child"]
      /\ \A r \in Signals : disposition'["dtee"][r] \in {disposition["dtee"][r], "handle"}
      /\ \A r \in Signals : r # s => disposition'["dtee"][r] = disposition["dtee"][r]
  BY <1>0, <1>2, <1>3 DEF TypeOK, Processes
<1>5. /\ place' = place \/ place' = [place EXCEPT !["dtee"] = "reset"]
      /\ process' = process \/ process' = [process EXCEPT !["dtee"] = Error(@, "SIGNAL_HANDLER")]
      /\ place' = place => process' = process
  BY <1>0, <1>1, <1>2 DEF TypeOK, Fails, Goto, SetError, Processes
<1>6. process' \in [Processes -> ProcessType]
  BY <1>2, <1>5, Errors DEF TypeOK, Processes
<1>7. TypeOK'
  BY <1>1, <1>2, <1>4, <1>5, <1>6 DEF TypeOK, Starting, Processes
<1>8. \A q \in Processes : Masks(q)' /\ Handlers(q)' /\ Kept(q)'
  BY <1>1, <1>2, <1>4, <1>5 DEF IInv, TypeOK, Masks, Handlers, Kept, Processes
<1>9. Once' /\ OnTheWay' /\ ErrorFree'
  BY <1>1, <1>2, <1>5 DEF IInv, TypeOK, Once, ErrorFree, OnTheWay, Early, Processes
<1> QED BY <1>7, <1>8, <1>9 DEF IInv

(* The child begins as its parent is, but nothing is pending for it.  All  *)
(* signals added have their handlers, and SIGCHLD is one of them.          *)
LEMMA ForkSucceedsKeeps ==
  ASSUME IInv, [Next]_vars, ForkSucceeds
  PROVE  IInv'
<1>1. /\ UNCHANGED <<cron_mode, pending, caught, sent>>
      /\ AddedSignals' = AddedSignals /\ place["dtee"] = "signals"
      /\ \A s \in AddedSignals : Handles(s)
  BY ModeKept DEF ForkSucceeds
<1>2. TypeOK
  BY DEF IInv
<1>3. /\ place' = [p \in Processes |-> IF p = "dtee" THEN "start" ELSE "child"]
      /\ disposition' = [disposition EXCEPT !["child"] = disposition["dtee"]]
      /\ blocked' = [blocked EXCEPT !["child"] = blocked["dtee"]]
      /\ added' = [added EXCEPT !["child"] = added["dtee"]]
      /\ process' = [process EXCEPT !["child"] = process["dtee"]]
  BY DEF ForkSucceeds
<1>4. place["child"] = "none"
  BY <1>1, <1>2 DEF IInv, Once
<1>5. sent["child"] = {} /\ pending["child"] = {} /\ caught["child"] = {}
  BY <1>4 DEF IInv, Kept, Processes
<1>6. TypeOK'
  BY <1>1, <1>2, <1>3, <1>5 DEF TypeOK, Starting, Processes
<1>7. \A q \in Processes : Masks(q)' /\ Handlers(q)' /\ Kept(q)'
  BY <1>1, <1>2, <1>3, <1>5 DEF IInv, TypeOK, Masks, Handlers, Kept, Processes
<1>8. Once' /\ ErrorFree'
  BY <1>1, <1>2, <1>3 DEF IInv, TypeOK, Once, ErrorFree, Early, Processes
<1>9. SIGCHLD \in added["dtee"] /\ \A s \in added["dtee"] : Handles(s)
  BY <1>1, AddsFive DEF IInv, Handlers, Handles, Processes
<1>10. OnTheWay'
  BY <1>1, <1>2, <1>3, <1>9 DEF IInv, TypeOK, OnTheWay, Handles, Gone, Early, Processes
<1> QED BY <1>6, <1>7, <1>8, <1>10 DEF IInv
------------------------------------------------------------------------------
(* The child is gone                                                       *)

(* SIGCHLD waits or is caught, depending on how far dtee is.               *)
LEMMA ChildGoneEffect ==
  ASSUME IInv, ChildGone
  PROVE  /\ pending' \in [Processes -> SUBSET SignalNumber]
         /\ caught' \in [Processes -> SUBSET SignalNumber]
         /\ pending'["child"] = pending["child"] /\ caught'["child"] = caught["child"]
         /\ \/ /\ SIGCHLD \in blocked["dtee"]
               /\ pending'["dtee"] = pending["dtee"] \cup {SIGCHLD} /\ caught'["dtee"] = caught["dtee"]
            \/ /\ SIGCHLD \notin blocked["dtee"] /\ Handles(SIGCHLD)
               /\ caught'["dtee"] = caught["dtee"] \cup {SIGCHLD} /\ pending'["dtee"] = pending["dtee"]
            \/ /\ SIGCHLD \notin blocked["dtee"] /\ ~Handles(SIGCHLD)
               /\ pending'["dtee"] = pending["dtee"] /\ caught'["dtee"] = caught["dtee"]
<1>1. /\ pending \in [Processes -> SUBSET SignalNumber]
      /\ caught \in [Processes -> SUBSET SignalNumber]
  BY DEF IInv, TypeOK
<1>2. CASE SIGCHLD \in blocked["dtee"]
  BY <1>1, <1>2, Sent DEF ChildGone, Processes
<1>3. CASE SIGCHLD \notin blocked["dtee"] /\ disposition["dtee"][SIGCHLD] = "handle"
  BY <1>1, <1>3, Sent DEF ChildGone, Processes, Handles
<1>4. CASE SIGCHLD \notin blocked["dtee"] /\ disposition["dtee"][SIGCHLD] # "handle"
  BY <1>1, <1>4, Sent DEF ChildGone, Processes, Handles
<1> QED BY <1>2, <1>3, <1>4

(* Whatever dtee is doing then, its SIGCHLD is not lost.                   *)
LEMMA ChildGoneKeeps ==
  ASSUME IInv, [Next]_vars, ChildGone, place["child"] # "none",
         place'["child"] \in {"exited", "killed"}, place'["dtee"] = place["dtee"],
         disposition'["dtee"] = disposition["dtee"], blocked'["dtee"] = blocked["dtee"],
         added'["dtee"] = added["dtee"], sent'["dtee"] = sent["dtee"]
  PROVE  /\ Masks("dtee")' /\ Handlers("dtee")' /\ Kept("dtee")'
         /\ OnTheWay' /\ Once'
         /\ Starting("dtee")' => (pending["dtee"] \cup added["dtee"])' \subseteq blocked'["dtee"]
<1>1. AddedSignals' = AddedSignals /\ cron_mode' = cron_mode
  BY ModeKept
<1>2. /\ place["dtee"] \in {"start", "loop", "killed"}
      /\ Starting("dtee") => pending["dtee"] \cup added["dtee"] \subseteq blocked["dtee"]
  BY DEF IInv, Once, TypeOK, Processes
<1>3. Masks("dtee") /\ Handlers("dtee") /\ Kept("dtee") /\ OnTheWay
  BY DEF IInv, Processes
<1>4. Masks("dtee")' /\ Handlers("dtee")' /\ Once'
  BY <1>1, <1>2, <1>3 DEF Masks, Handlers, Once
<1>5. /\ pending["dtee"] \subseteq pending'["dtee"] /\ caught["dtee"] \subseteq caught'["dtee"]
      /\ place["dtee"] = "start" => caught'["dtee"] = caught["dtee"] /\ SIGCHLD \in pending'["dtee"]
      /\ place["dtee"] = "loop" => SIGCHLD \in caught'["dtee"]
  BY <1>2, <1>3, ChildGoneEffect DEF OnTheWay, Starting
<1>6. Kept("dtee")'
  BY <1>2, <1>3, <1>5 DEF Kept
<1>7. OnTheWay'
  BY <1>2, <1>3, <1>5 DEF OnTheWay, Handles, Gone
<1>8. Starting("dtee")' => (pending["dtee"] \cup added["dtee"])' \subseteq blocked'["dtee"]
  BY <1>2, ChildGoneEffect DEF Starting
<1> QED BY <1>4, <1>6, <1>7, <1>8

(* The child, or what it has become, ends without any other change.        *)
LEMMA ChildEndsKeeps ==
  ASSUME IInv, [Next]_vars, CommandEnds \/ (Execute("child") /\ place'["child"] = "exited")
  PROVE  IInv'
<1>1. /\ UNCHANGED <<cron_mode, disposition, blocked, added, sent>>
      /\ place' = [place EXCEPT !["child"] = "exited"]
      /\ place["child"] \in {"execute", "command"}
      /\ ChildGone
      /\ process' = process \/ process' = [process EXCEPT !["child"] = Error(@, "EXECUTE_COMMAND")]
  BY DEF CommandEnds, Execute, Goto, SetError, IInv, TypeOK, Processes
<1>2. TypeOK
  BY DEF IInv
<1>3. place'["child"] = "exited" /\ place'["dtee"] = place["dtee"]
  BY <1>1, <1>2 DEF TypeOK, Processes
<1>4. /\ Masks("dtee")' /\ Handlers("dtee")' /\ Kept("dtee")' /\ OnTheWay' /\ Once'
      /\ Starting("dtee")' => (pending["dtee"] \cup added["dtee"])' \subseteq blocked'["dtee"]
  BY <1>1, <1>3, ChildGoneKeeps
<1>5. Masks("child")' /\ Handlers("child")' /\ Kept("child")'
  BY <1>1, <1>2, <1>3, ChildGoneEffect, ModeKept DEF IInv, TypeOK, Masks, Handlers, Kept, Processes
<1>6. process' \in [Processes -> ProcessType] /\ process'["dtee"] = process["dtee"]
  BY <1>1, <1>2, Errors DEF TypeOK, Processes
<1>7. TypeOK'
  <2>1. /\ pending' \in [Processes -> SUBSET SignalNumber]
        /\ caught' \in [Processes -> SUBSET SignalNumber]
    BY <1>1, ChildGoneEffect
  <2>2. place' \in [Processes -> {"none", "outputs", "input", "signals", "start", "loop", "child",
                            "reset", "unblock", "execute", "command", "exited", "killed"}]
    BY <1>1, <1>2 DEF TypeOK
  <2>3. ~Starting("child")'
    BY <1>3 DEF Starting
  <2>4. \A p \in Processes : Starting(p)' => (pending[p] \cup added[p])' \subseteq blocked'[p]
    BY <1>4, <2>3 DEF Processes
  <2> QED BY <1>1, <1>2, <1>6, <2>1, <2>2, <2>4 DEF TypeOK, Starting
<1>8. ErrorFree'
  BY <1>1, <1>3, <1>6 DEF IInv, ErrorFree
<1> QED BY <1>4, <1>5, <1>7, <1>8 DEF IInv, Processes
------------------------------------------------------------------------------
(* The end of the setup                                                    *)

LEMMA RemoveHandlersKeeps ==
  ASSUME IInv, [Next]_vars, NEW p \in Processes, RemoveHandlers(p)
  PROVE  IInv'
<1>1. /\ UNCHANGED <<cron_mode, blocked, pending, caught, added, process, sent>>
      /\ place' = [place EXCEPT ![p] = "unblock"] /\ place[p] = "reset"
      /\ AddedSignals' = AddedSignals
  BY ModeKept DEF RemoveHandlers, Goto
<1>2. TypeOK
  BY DEF IInv
<1>3. /\ disposition' \in [Processes -> [Signals -> {"default", "ignore", "handle"}]]
      /\ \A q \in Processes : q # p => disposition'[q] = disposition[q]
      /\ \A s \in Signals :
           disposition'[p][s] = IF disposition[p][s] = "handle" THEN "default" ELSE disposition[p][s]
  BY <1>2 DEF RemoveHandlers, NoHandlers, TypeOK
<1>4. TypeOK'
  BY <1>1, <1>2, <1>3 DEF TypeOK, Starting
<1>5. \A q \in Processes : Masks(q)' /\ Handlers(q)' /\ Kept(q)'
  BY <1>1, <1>2, <1>3 DEF IInv, TypeOK, Masks, Handlers, Kept
<1>6. Once' /\ ErrorFree' /\ OnTheWay'
  BY <1>1, <1>2, <1>3 DEF IInv, TypeOK, Once, ErrorFree, OnTheWay, Handles, Gone, Early, Processes
<1> QED BY <1>4, <1>5, <1>6 DEF IInv

LEMMA ExecuteKeeps ==
  ASSUME IInv, [Next]_vars, NEW p \in Processes, Execute(p)
  PROVE  IInv'
<1>1. /\ UNCHANGED <<cron_mode, blocked, added, sent>> /\ place[p] = "execute"
      /\ AddedSignals' = AddedSignals
  BY ModeKept DEF Execute
<1>2. TypeOK
  BY DEF IInv
<1>3. CASE place' = [place EXCEPT ![p] = "command"] /\ NoHandlers(p) /\ UNCHANGED <<process, pending, caught>>
  <2>1. /\ disposition' \in [Processes -> [Signals -> {"default", "ignore", "handle"}]]
        /\ \A q \in Processes : q # p => disposition'[q] = disposition[q]
        /\ \A s \in Signals :
             disposition'[p][s] = IF disposition[p][s] = "handle" THEN "default" ELSE disposition[p][s]
    BY <1>2, <1>3 DEF NoHandlers, TypeOK
  <2>2. TypeOK'
    BY <1>1, <1>2, <1>3, <2>1 DEF TypeOK, Starting
  <2>3. \A q \in Processes : Masks(q)' /\ Handlers(q)' /\ Kept(q)'
    BY <1>1, <1>2, <1>3, <2>1 DEF IInv, TypeOK, Masks, Handlers, Kept
  <2>4. Once' /\ ErrorFree' /\ OnTheWay'
    BY <1>1, <1>2, <1>3, <2>1 DEF IInv, TypeOK, Once, ErrorFree, OnTheWay, Handles, Gone, Early, Processes
  <2> QED BY <2>2, <2>3, <2>4 DEF IInv
<1>4. CASE p = "child" /\ place' = [place EXCEPT ![p] = "exited"]
  BY <1>2, <1>4, ChildEndsKeeps DEF TypeOK
<1>5. CASE /\ p = "dtee" /\ place' = [place EXCEPT ![p] = "exited"]
           /\ process' = [process EXCEPT ![p] = Error(@, "EXECUTE_COMMAND")]
           /\ UNCHANGED <<disposition, pending, caught>>
  <2>1. place["child"] = "none"
    BY <1>1, <1>5 DEF IInv, Once
  <2>2. process' \in [Processes -> ProcessType]
    BY <1>2, <1>5, Errors DEF TypeOK
  <2>3. TypeOK'
    BY <1>1, <1>2, <1>5, <2>2 DEF TypeOK, Starting
  <2>4. \A q \in Processes : Masks(q)' /\ Handlers(q)' /\ Kept(q)'
    BY <1>1, <1>2, <1>5 DEF IInv, TypeOK, Masks, Handlers, Kept
  <2>5. Once' /\ ErrorFree' /\ OnTheWay'
    BY <1>1, <1>2, <1>5, <2>1 DEF IInv, TypeOK, Once, ErrorFree, OnTheWay, Handles, Gone, Early, Processes
  <2> QED BY <2>3, <2>4, <2>5 DEF IInv
<1> QED BY <1>3, <1>4, <1>5 DEF Execute, Goto, SetError, Processes

(* Signals that waited are caught if they have a handler, and vanish only  *)
(* if they were ignored from the start.                                    *)
LEMMA UnblocksKeeps ==
  ASSUME IInv, [Next]_vars, NEW p \in Processes, Start \/ UnblockSignals(p),
         p = "dtee" \/ ~Start
  PROVE  IInv'
<1> DEFINE next == IF Start THEN "loop" ELSE IF p = "child" \/ cron_mode THEN "execute" ELSE "exited"
<1>0. /\ Unblocks(p, next)
      /\ UNCHANGED <<cron_mode, disposition, process, sent>>
      /\ (place[p] = "start" /\ next = "loop" /\ p = "dtee")
         \/ (place[p] = "unblock" /\ next \in {"execute", "exited"} /\ (p = "child" => next = "execute"))
      /\ AddedSignals' = AddedSignals
  BY ModeKept DEF Start, UnblockSignals, Processes
<1> HIDE DEF next
<1>1. TypeOK
  BY DEF IInv
<1>2. /\ blocked' = [blocked EXCEPT ![p] = @ \ added[p]]
      /\ added' = [added EXCEPT ![p] = {}]
      /\ \/ place' = [place EXCEPT ![p] = "killed"]
            /\ IF p = "child" THEN ChildGone ELSE UNCHANGED <<pending, caught>>
         \/ /\ \A s \in pending[p] \cap added[p] : s = SIGCHLD \/ disposition[p][s] # "default"
            /\ pending' = [pending EXCEPT ![p] = @ \ added[p]]
            /\ caught' = [caught EXCEPT ![p] =
                            @ \cup {s \in pending[p] \cap added[p] : disposition[p][s] = "handle"}]
            /\ place' = [place EXCEPT ![p] = next]
  BY <1>0 DEF Unblocks, Fatal, Dies, Goto
<1>3. /\ blocked'[p] = blocked[p] \ added[p] /\ added'[p] = {}
      /\ \A q \in Processes : q # p => blocked'[q] = blocked[q] /\ added'[q] = added[q]
      /\ blocked' \in [Processes -> SUBSET SignalNumber] /\ added' \in [Processes -> SUBSET SignalNumber]
  BY <1>1, <1>2 DEF TypeOK
<1>4. ErrorFree'
  BY <1>0, <1>1, <1>2 DEF IInv, TypeOK, Once, ErrorFree, Early, Processes
<1>5. CASE p = "child" /\ place' = [place EXCEPT ![p] = "killed"] /\ ChildGone
  <2>1. place["child"] # "none" /\ place'["child"] = "killed" /\ place'["dtee"] = place["dtee"]
    BY <1>0, <1>1, <1>5 DEF TypeOK, Processes
  <2>2. /\ Masks("dtee")' /\ Handlers("dtee")' /\ Kept("dtee")' /\ OnTheWay' /\ Once'
        /\ Starting("dtee")' => (pending["dtee"] \cup added["dtee"])' \subseteq blocked'["dtee"]
    BY <1>0, <1>3, <1>5, <2>1, ChildGoneKeeps DEF Processes
  <2>3. Masks("child")' /\ Handlers("child")' /\ Kept("child")'
    BY <1>0, <1>1, <1>3, <1>5, <2>1, ChildGoneEffect DEF IInv, TypeOK, Masks, Handlers, Kept, Processes
  <2>4. TypeOK'
    <3>1. /\ pending' \in [Processes -> SUBSET SignalNumber]
          /\ caught' \in [Processes -> SUBSET SignalNumber]
      BY <1>5, ChildGoneEffect
    <3>2. place' \in [Processes -> {"none", "outputs", "input", "signals", "start", "loop", "child",
                              "reset", "unblock", "execute", "command", "exited", "killed"}]
      BY <1>1, <1>5 DEF TypeOK
    <3>3. ~Starting("child")'
      BY <2>1 DEF Starting
    <3>4. \A q \in Processes : Starting(q)' => (pending[q] \cup added[q])' \subseteq blocked'[q]
      BY <2>2, <3>3 DEF Processes
    <3> QED BY <1>0, <1>1, <1>3, <3>1, <3>2, <3>4 DEF TypeOK, Starting
  <2> QED BY <1>4, <2>2, <2>3, <2>4 DEF IInv, Processes
<1>6. CASE p = "dtee" /\ place' = [place EXCEPT ![p] = "killed"] /\ UNCHANGED <<pending, caught>>
  <2>1. TypeOK'
    BY <1>0, <1>1, <1>3, <1>6 DEF TypeOK, Starting, Processes
  <2>2. \A q \in Processes : Masks(q)' /\ Handlers(q)' /\ Kept(q)'
    BY <1>0, <1>1, <1>3, <1>6 DEF IInv, TypeOK, Masks, Handlers, Kept, Processes
  <2>3. Once' /\ OnTheWay'
    BY <1>0, <1>1, <1>6 DEF IInv, TypeOK, Once, OnTheWay, Early, Processes
  <2> QED BY <1>4, <2>1, <2>2, <2>3 DEF IInv
<1>7. CASE /\ \A s \in pending[p] \cap added[p] : s = SIGCHLD \/ disposition[p][s] # "default"
           /\ pending' = [pending EXCEPT ![p] = @ \ added[p]]
           /\ caught' = [caught EXCEPT ![p] =
                           @ \cup {s \in pending[p] \cap added[p] : disposition[p][s] = "handle"}]
           /\ place' = [place EXCEPT ![p] = next]
  <2>1. /\ pending'[p] = pending[p] \ added[p]
        /\ caught'[p] = caught[p] \cup {s \in pending[p] \cap added[p] : disposition[p][s] = "handle"}
        /\ place'[p] = next
        /\ \A q \in Processes : q # p =>
             pending'[q] = pending[q] /\ caught'[q] = caught[q] /\ place'[q] = place[q]
        /\ pending' \in [Processes -> SUBSET SignalNumber]
        /\ caught' \in [Processes -> SUBSET SignalNumber]
        /\ place' \in [Processes -> {"none", "outputs", "input", "signals", "start", "loop", "child",
                              "reset", "unblock", "execute", "command", "exited", "killed"}]
    BY <1>0, <1>1, <1>7 DEF TypeOK
  <2>2. \A q \in Processes : Starting(q)' => (pending[q] \cup added[q])' \subseteq blocked'[q]
    BY <1>0, <1>1, <1>3, <2>1 DEF TypeOK, Starting
  <2>3. TypeOK'
    BY <1>0, <1>1, <1>3, <2>1, <2>2 DEF TypeOK, Starting
  <2>4. \A q \in Processes : Masks(q)' /\ Handlers(q)'
    BY <1>0, <1>1, <1>3, <2>1 DEF IInv, Masks, Handlers
  <2>5. \A q \in Processes : Kept(q)'
    <3>1. \A q \in Processes : q # p => Kept(q)'
      BY <1>0, <2>1 DEF IInv, Kept
    <3>2. \A s \in sent[p] : s \in Signals /\ s # SIGCHLD
      BY Sent DEF IInv, Kept
    <3>3. \A s \in Signals : disposition[p][s] \in {"default", "ignore", "handle"}
      BY <1>1 DEF TypeOK
    <3>4. ASSUME NEW s \in sent[p]
          PROVE  s \in pending'[p] \cup caught'[p] \cup InitiallyIgnored
      <4>1. s \in pending[p] \cup caught[p] \cup InitiallyIgnored
        BY <1>0 DEF IInv, Kept
      <4>2. CASE s \in pending[p] \cap added[p]
        <5>1. disposition[p][s] \in {"ignore", "handle"}
          BY <1>7, <3>2, <3>3, <4>2
        <5>2. disposition[p][s] = "ignore" => s \in InitiallyIgnored
          BY <3>2 DEF IInv, Handlers
        <5> QED BY <2>1, <4>2, <5>1, <5>2
      <4> QED BY <2>1, <4>1, <4>2
    <3>5. place'[p] \notin {"loop", "killed"} => caught'[p] \subseteq {SIGCHLD}
      <4>1. SUFFICES ASSUME place[p] = "unblock"
                     PROVE  caught'[p] \subseteq {SIGCHLD}
        BY <1>0, <2>1
      <4>2. \A s \in pending[p] \cap added[p] : disposition[p][s] # "handle"
        BY <4>1, AddsFive DEF IInv, Handlers
      <4> QED BY <2>1, <4>1, <4>2 DEF IInv, Kept
    <3>6. sent'[p] = sent[p] /\ place'[p] # "none" /\ sent[p] \subseteq SentSignals
      BY <1>0, <2>1 DEF IInv, Kept
    <3>7. Kept(p)'
      BY <3>4, <3>5, <3>6 DEF Kept
    <3> QED BY <3>1, <3>7
  <2>6. Once'
    BY <1>0, <2>1 DEF IInv, Once, Processes
  <2>7. OnTheWay'
    <3>1. CASE p = "child"
      BY <1>0, <1>3, <2>1, <3>1 DEF IInv, OnTheWay, Handles, Gone, Processes
    <3>2. CASE p = "dtee" /\ place[p] = "unblock"
      BY <1>0, <2>1, <3>2 DEF OnTheWay, Early
    <3>3. CASE p = "dtee" /\ place[p] = "start"
      <4>1. /\ sent["dtee"] \subseteq pending["dtee"] \cup caught["dtee"]
            /\ SIGCHLD \in added["dtee"] /\ \A s \in added["dtee"] : Handles(s)
            /\ Gone => SIGCHLD \in pending["dtee"]
        BY <3>3 DEF IInv, OnTheWay, Early
      <4>2. /\ sent'["dtee"] \subseteq pending'["dtee"] \cup caught'["dtee"]
            /\ SIGCHLD \notin blocked'["dtee"] /\ Handles(SIGCHLD)'
            /\ Gone' => SIGCHLD \in caught'["dtee"]
        BY <1>0, <1>3, <2>1, <3>3, <4>1 DEF Handles, Gone, Processes
      <4>3. place'["dtee"] = "loop"
        BY <1>0, <2>1, <3>3
      <4> QED BY <4>2, <4>3 DEF OnTheWay
    <3> QED BY <1>0, <3>1, <3>2, <3>3 DEF Processes
  <2> QED BY <1>4, <2>3, <2>4, <2>5, <2>6, <2>7 DEF IInv
<1> QED BY <1>2, <1>5, <1>6, <1>7 DEF Processes

------------------------------------------------------------------------------
(* A signal reaches a process that is not in the main loop and not yet the *)
(* command: one with a handler is blocked, so that it waits.               *)
LEMMA SendSignalKeeps ==
  ASSUME IInv, [Next]_vars, NEW p \in Processes, NEW s \in SentSignals, SendSignal(p, s)
  PROVE  IInv'
<1>0. /\ Starting(p) /\ sent' = [sent EXCEPT ![p] = @ \cup {s}]
      /\ UNCHANGED <<cron_mode, disposition, blocked, added, process>>
      /\ AddedSignals' = AddedSignals
  BY ModeKept DEF SendSignal
<1>1. TypeOK /\ s \in Signals /\ s # SIGCHLD /\ s \in SignalNumber
  BY Sent DEF IInv
<1>2. sent' \in [Processes -> SUBSET SignalNumber] /\ sent'[p] = sent[p] \cup {s}
      /\ \A q \in Processes : q # p => sent'[q] = sent[q]
  BY <1>0, <1>1 DEF TypeOK
<1>3. CASE /\ s \in blocked[p]
           /\ pending' = [pending EXCEPT ![p] = @ \cup {s}]
           /\ UNCHANGED <<place, caught>>
  <2>1. TypeOK'
    BY <1>0, <1>1, <1>2, <1>3 DEF TypeOK, Starting
  <2>2. \A q \in Processes : Masks(q)' /\ Handlers(q)' /\ Kept(q)'
    BY <1>0, <1>1, <1>2, <1>3 DEF IInv, TypeOK, Masks, Handlers, Kept, Starting
  <2>3. Once' /\ ErrorFree' /\ OnTheWay'
    BY <1>0, <1>1, <1>2, <1>3 DEF IInv, TypeOK, Once, ErrorFree, OnTheWay, Handles, Gone, Early, Processes
  <2> QED BY <2>1, <2>2, <2>3 DEF IInv
<1>4. CASE s \notin blocked[p] /\ disposition[p][s] = "handle"
  <2>1. s \in added[p] /\ added[p] \subseteq blocked[p]
    BY <1>0, <1>1, <1>4 DEF IInv, Handlers, TypeOK, Starting
  <2> QED BY <1>4, <2>1
<1>5. CASE Dies(p)
  <2>1. place' = [place EXCEPT ![p] = "killed"]
    BY <1>5 DEF Dies, Goto
  <2>2. place'[p] = "killed" /\ \A q \in Processes : q # p => place'[q] = place[q]
    BY <1>1, <2>1 DEF TypeOK
  <2>3. place' \in [Processes -> {"none", "outputs", "input", "signals", "start", "loop", "child",
                              "reset", "unblock", "execute", "command", "exited", "killed"}]
    BY <1>1, <2>1 DEF TypeOK
  <2>4. ErrorFree'
    BY <1>0, <2>2 DEF IInv, ErrorFree, Early, Processes, Starting
  <2>5. CASE p = "child"
    <3>0. ChildGone /\ place["child"] # "none"
      BY <1>0, <1>5, <2>5 DEF Dies, Starting
    <3>1. /\ Masks("dtee")' /\ Handlers("dtee")' /\ Kept("dtee")' /\ OnTheWay' /\ Once'
          /\ Starting("dtee")' => (pending["dtee"] \cup added["dtee"])' \subseteq blocked'["dtee"]
      BY <1>0, <1>2, <2>2, <2>5, <3>0, ChildGoneKeeps DEF Processes
    <3>2. Masks("child")' /\ Handlers("child")' /\ Kept("child")'
      BY <1>0, <1>2, <2>2, <2>5 DEF IInv, Masks, Handlers, Kept, Processes, Starting
    <3>3. /\ pending' \in [Processes -> SUBSET SignalNumber]
          /\ caught' \in [Processes -> SUBSET SignalNumber]
      BY <3>0, ChildGoneEffect
    <3>4. \A q \in Processes : Starting(q)' => (pending[q] \cup added[q])' \subseteq blocked'[q]
      BY <2>2, <2>5, <3>1 DEF Processes, Starting
    <3>5. TypeOK'
      BY <1>0, <1>1, <1>2, <2>3, <3>3, <3>4 DEF TypeOK, Starting
    <3> QED BY <2>4, <3>1, <3>2, <3>5 DEF IInv, Processes
  <2>6. CASE p = "dtee"
    <3>0. UNCHANGED <<pending, caught>>
      BY <1>5, <2>6 DEF Dies
    <3>1. TypeOK'
      BY <1>0, <1>1, <1>2, <2>2, <2>3, <3>0 DEF TypeOK, Starting
    <3>2. \A q \in Processes : Masks(q)' /\ Handlers(q)' /\ Kept(q)'
      BY <1>0, <1>1, <1>2, <2>2, <3>0 DEF IInv, Masks, Handlers, Kept, Starting
    <3>3. Once' /\ OnTheWay'
      BY <2>2, <2>6 DEF IInv, Once, OnTheWay, Early, Processes
    <3> QED BY <2>4, <3>1, <3>2, <3>3 DEF IInv
  <2> QED BY <2>5, <2>6 DEF Processes
<1> QED BY <1>3, <1>4, <1>5 DEF SendSignal

LEMMA StutterKeeps == IInv /\ UNCHANGED vars => IInv'
<1> SUFFICES ASSUME IInv, UNCHANGED vars
             PROVE  IInv'
  OBVIOUS
<1>1. UNCHANGED <<cron_mode, place, disposition, blocked, pending, caught, added, process, sent>>
  BY DEF vars, signalVars
<1>2. AddedSignals' = AddedSignals
  BY <1>1 DEF AddedSignals, Adds
<1>3. TypeOK'
  BY <1>1 DEF IInv, TypeOK, Starting
<1>4. \A p \in Processes : Masks(p)' /\ Handlers(p)' /\ Kept(p)'
  BY <1>1, <1>2 DEF IInv, Masks, Handlers, Kept
<1>5. Once' /\ ErrorFree' /\ OnTheWay'
  BY <1>1 DEF IInv, Once, ErrorFree, OnTheWay, Handles, Gone
<1> QED BY <1>3, <1>4, <1>5 DEF IInv

LEMMA StepIInv == IInv /\ [Next]_vars => IInv'
<1> SUFFICES ASSUME IInv, [Next]_vars
             PROVE  IInv'
  OBVIOUS
<1>1. CASE OpenOutputs \/ OpenInput \/ ForkFails \/ ForkChild
  BY <1>1, Moves
<1>2. CASE AddBlocks
  BY <1>2, AddBlocksKeeps
<1>3. CASE AddInstalls
  BY <1>3, AddInstallsKeeps
<1>4. CASE ForkSucceeds
  BY <1>4, ForkSucceedsKeeps
<1>5. CASE Start
  BY <1>5, UnblocksKeeps DEF Processes
<1>6. ASSUME NEW p \in Processes, RemoveHandlers(p)
      PROVE  IInv'
  BY <1>6, RemoveHandlersKeeps
<1>7. ASSUME NEW p \in Processes, UnblockSignals(p)
      PROVE  IInv'
  <2>1. ~Start
    BY <1>7 DEF Start, UnblockSignals, Unblocks, Dies, Goto, IInv, TypeOK, Processes
  <2> QED BY <1>7, <2>1, UnblocksKeeps
<1>8. ASSUME NEW p \in Processes, Execute(p)
      PROVE  IInv'
  BY <1>8, ExecuteKeeps
<1>9. ASSUME NEW p \in Processes, NEW s \in SentSignals, SendSignal(p, s)
      PROVE  IInv'
  BY <1>9, SendSignalKeeps
<1>10. CASE CommandEnds
  BY <1>10, ChildEndsKeeps
<1>11. CASE Done \/ UNCHANGED vars
  BY <1>11, StutterKeeps DEF Done
<1> QED BY <1>1, <1>2, <1>3, <1>4, <1>5, <1>6, <1>7, <1>8, <1>9, <1>10, <1>11 DEF Next, Step

LEMMA Invariance == Spec => []IInv
BY InitIInv, StepIInv, PTL DEF Spec
------------------------------------------------------------------------------
(* The dispositions, masks and pending signals of both processes keep      *)
(* their types, and what waits in a process that starts is blocked there.  *)
THEOREM StartupTypes == Spec => []TypeOK
<1>1. IInv => TypeOK
  BY DEF IInv
<1> QED BY <1>1, Invariance, PTL

(* dtee's handlers consume no signal that is meant for the command.        *)
THEOREM NoneSwallowed == Spec => []NothingSwallowed
<1>1. IInv => NothingSwallowed
  <2> SUFFICES ASSUME IInv, NEW p \in Processes, place[p] = "command"
               PROVE  sent[p] \subseteq pending[p] \cup InitiallyIgnored
    BY DEF NothingSwallowed
  <2>1. caught[p] \subseteq {SIGCHLD} /\ sent[p] \subseteq SentSignals
        /\ sent[p] \subseteq pending[p] \cup caught[p] \cup InitiallyIgnored
    BY DEF IInv, Kept
  <2> QED BY <2>1, Sent
<1> QED BY <1>1, Invariance, PTL

(* No signal, and no end of the child, is lost before the main loop.       *)
THEOREM NoneMissed == Spec => []NothingMissed
<1>1. IInv => NothingMissed
  BY DEF IInv, OnTheWay, NothingMissed, Gone, Early
<1> QED BY <1>1, Invariance, PTL

(* The command starts with no signal blocked that dtee has blocked.        *)
THEOREM CommandIsClean == Spec => []CleanCommand
<1>1. IInv => CleanCommand
  BY DEF IInv, Masks, CleanCommand
<1> QED BY <1>1, Invariance, PTL

(* The command is never executed by both processes.                        *)
THEOREM OneExecution == Spec => []ExecutedOnce
<1>1. IInv => ExecutedOnce
  BY DEF IInv, Once, ExecutedOnce
<1> QED BY <1>1, Invariance, PTL

(* Without cron mode there is no child after an error.                     *)
THEOREM NoneAfterError == Spec => []NotAfterError
<1>1. IInv => NotAfterError
  BY DEF IInv, ErrorFree, NotAfterError
<1> QED BY <1>1, Invariance, PTL

(* In cron mode dtee does not come to its end without having tried to      *)
(* execute the command or having made a child that does.                   *)
Handed ==
  /\ place["dtee"] # "none"
  /\ place["dtee"] \in {"start", "loop"} => place["child"] # "none"
  /\ cron_mode /\ place["dtee"] = "exited" => process["dtee"].error = "EXECUTE_COMMAND"

LEMMA StepHanded == IInv /\ Handed /\ [Next]_vars => Handed'
<1> SUFFICES ASSUME IInv, Handed, [Next]_vars PROVE Handed'
  OBVIOUS
<1>0. /\ place \in [Processes -> {"none", "outputs", "input", "signals", "start", "loop", "child",
                                  "reset", "unblock", "execute", "command", "exited", "killed"}]
      /\ process \in [Processes -> ProcessType]
      /\ cron_mode' = cron_mode
  BY ModeKept DEF IInv, TypeOK
<1>1. CASE OpenOutputs \/ OpenInput \/ AddBlocks \/ AddInstalls \/ ForkFails
  BY <1>0, <1>1 DEF Handed, OpenOutputs, OpenInput, AddBlocks, AddInstalls, ForkFails, Fails,
     Goto, SetError, Processes
<1>2. CASE ForkSucceeds
  BY <1>0, <1>2 DEF Handed, ForkSucceeds, Processes
<1>3. CASE Start
  BY <1>0, <1>3 DEF Handed, Start, Unblocks, Dies, Goto, Processes
<1>4. CASE ForkChild
  BY <1>0, <1>4 DEF Handed, ForkChild, Goto, SetError, Processes
<1>5. ASSUME NEW p \in Processes, RemoveHandlers(p) \/ UnblockSignals(p)
      PROVE  Handed'
  BY <1>0, <1>5 DEF Handed, RemoveHandlers, UnblockSignals, Unblocks, Dies, Goto, Processes
<1>6. ASSUME NEW p \in Processes, Execute(p)
      PROVE  Handed'
  BY <1>0, <1>6 DEF Handed, Execute, Goto, SetError, Error, ProcessType, Processes
<1>7. ASSUME NEW p \in Processes, NEW s \in SentSignals, SendSignal(p, s)
      PROVE  Handed'
  BY <1>0, <1>7 DEF Handed, SendSignal, Starting, Dies, Goto, Processes
<1>8. CASE CommandEnds
  BY <1>0, <1>8 DEF Handed, CommandEnds, Goto, Processes
<1>9. CASE Done \/ UNCHANGED vars
  BY <1>9 DEF Handed, Done, vars
<1> QED BY <1>1, <1>2, <1>3, <1>4, <1>5, <1>6, <1>7, <1>8, <1>9 DEF Next, Step

(* The safety half of CronExecutes: whatever fails in cron mode, dtee is   *)
(* not done with run() unless a child was made, or it has tried to execute *)
(* the command itself, or was killed.  That it gets there is for TLC.      *)
THEOREM CronDoesNotGiveUp ==
  Spec => [](cron_mode /\ ~Starting("dtee") => place["child"] # "none" \/ Attempts("dtee"))
<1>1. Init => Handed
  BY DEF Init, Handed, Processes
<1>2. IInv /\ Handed =>
        (cron_mode /\ ~Starting("dtee") => place["child"] # "none" \/ Attempts("dtee"))
  <2> SUFFICES ASSUME IInv, Handed, cron_mode, ~Starting("dtee"), place["child"] = "none"
               PROVE  Attempts("dtee")
    OBVIOUS
  <2> QED BY DEF Handed, Starting, Attempts
<1> QED BY <1>1, <1>2, Invariance, StepHanded, PTL DEF Spec
==============================================================================
