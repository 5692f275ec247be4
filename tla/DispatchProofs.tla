--------------------------- MODULE DispatchProofs ---------------------------
(***************************************************************************)
(* Proofs about Dispatch: its types, the order of what it shows, and the   *)
(* two records of the end of the command, for every set of output files,   *)
(* every number and length of messages, and every chunk size of the buffer *)
(* file.                                                                   *)
(***************************************************************************)
EXTENDS Dispatch, SequenceTheorems, TLAPS

(* A function on 1..n is a sequence of length n.                           *)
LEMMA FunctionIsSeq ==
  ASSUME NEW S, NEW n \in Nat, NEW f \in [1..n -> S]
  PROVE  f \in Seq(S) /\ Len(f) = n
OBVIOUS

(* What write() was given and what the descriptor received. *)
LEMMA TaggedProperties ==
  ASSUME NEW fd \in OutputType, NEW units \in Seq(Unit)
  PROVE  /\ Tagged(fd, units) \in Seq(Shown)
         /\ Len(Tagged(fd, units)) = Len(units)
         /\ \A i \in 1..Len(units) : /\ Tagged(fd, units)[i].fd = fd
                                     /\ Tagged(fd, units)[i].seq = units[i].seq
<1>1. \A i \in 1..Len(units) : units[i] \in Unit
  BY ElementOfSeq
<1>2. \A i \in 1..Len(units) :
        [fd |-> fd, type |-> units[i].type, seq |-> units[i].seq] \in Shown
  BY <1>1 DEF Unit, Shown
<1>3. Len(units) \in Nat
  BY LenProperties
<1>4. Tagged(fd, units) \in [1..Len(units) -> Shown]
  BY <1>2 DEF Tagged
<1>5. \A i \in 1..Len(units) : Tagged(fd, units)[i].fd = fd /\ Tagged(fd, units)[i].seq = units[i].seq
  BY <1>3 DEF Tagged
<1> QED BY <1>3, <1>4, <1>5, FunctionIsSeq

(* The beginning of a message. *)
LEMMA TakenProperties ==
  ASSUME NEW S, NEW units \in Seq(S), NEW ret \in -1..Len(units)
  PROVE  /\ SubSeq(units, 1, ret) \in Seq(S)
         /\ Len(SubSeq(units, 1, ret)) = IF 1 <= ret THEN ret ELSE 0
         /\ \A i \in 1..ret : SubSeq(units, 1, ret)[i] = units[i]
<1>1. \A i \in 1..ret : units[i] \in S
  BY ElementOfSeq
<1>2. ret \in Int /\ Len(units) \in Nat
  BY LenProperties
<1> QED BY <1>1, <1>2, SubSeqProperties

LEMMA RestProperties ==
  ASSUME NEW S, NEW units \in Seq(S), NEW first \in 1..(Len(units) + 1)
  PROVE  /\ SubSeq(units, first, Len(units)) \in Seq(S)
         /\ Len(SubSeq(units, first, Len(units))) = Len(units) - first + 1
         /\ \A i \in 1..(Len(units) - first + 1) :
              SubSeq(units, first, Len(units))[i] = units[first + i - 1]
<1>1. \A i \in first..Len(units) : units[i] \in S
  BY ElementOfSeq
<1>2. Len(units) \in Nat
  BY LenProperties
<1> QED BY <1>1, <1>2, SubSeqProperties

LEMMA StreamResultsType ==
  ASSUME NEW fd \in OutputType, NEW units \in Seq(Unit), NEW w \in StreamResults(fd, units)
  PROVE  w.out \in Seq(Shown) /\ w.ok \in BOOLEAN
<1>1. PICK ret \in -1..Len(units) :
        w = [out |-> Tagged(fd, SubSeq(units, 1, ret)), ok |-> ret = Len(units)]
  BY DEF StreamResults, WriteReturns
<1>2. SubSeq(units, 1, ret) \in Seq(Unit)
  BY TakenProperties
<1> QED BY <1>1, <1>2, TaggedProperties

LEMMA ReadbackType ==
  ASSUME NEW held \in Seq(Unit), NEW r \in Readback(held)
  PROVE  r.out \in Seq(Shown) /\ r.ok \in BOOLEAN
<1>0. "STDOUT" \in OutputType
  BY DEF OutputType
<1>1. CASE r = [out |-> Tagged("STDOUT", held), ok |-> TRUE]
  BY <1>0, <1>1, TaggedProperties
<1>2. CASE \E f \in Survivors(Len(held)) :
             r = [out |-> Tagged("STDOUT", [i \in DOMAIN f |-> held[f[i]]]), ok |-> FALSE]
  <2>1. PICK k \in 0..Len(held) : \E f \in [1..k -> 1..Len(held)] :
          r = [out |-> Tagged("STDOUT", [i \in DOMAIN f |-> held[f[i]]]), ok |-> FALSE]
    BY <1>2 DEF Survivors
  <2>. PICK f \in [1..k -> 1..Len(held)] :
          r = [out |-> Tagged("STDOUT", [i \in DOMAIN f |-> held[f[i]]]), ok |-> FALSE]
    BY <2>1
  <2>2. \A i \in 1..k : held[f[i]] \in Unit
    BY ElementOfSeq
  <2>3. [i \in DOMAIN f |-> held[f[i]]] \in Seq(Unit)
    BY <2>2
  <2> QED BY <1>0, <2>3, TaggedProperties
<1> QED BY <1>1, <1>2 DEF Readback
------------------------------------------------------------------------------
(* Process: each method keeps a Process well typed, and what it makes of   *)
(* an exit fits an exit status.                                            *)
LEMMA ProcessProperties ==
  ASSUME NEW p \in ProcessType
  PROVE  /\ \A type \in ErrorType : Error(p, type) \in ProcessType
         /\ \A signum \in SignalNumber : Interrupted(p, signum) \in ProcessType
         /\ \A status \in ExitCode \cup {-1}, signum \in SignalNumber \cup {-1} :
              Terminated(p, status, signum) \in ProcessType
         /\ ExitStatus(p) \in ExitCode
         /\ Raised(p) \subseteq SignalNumber
<1>1. \A type \in ErrorType : Error(p, type) \in ProcessType
  BY DEF ProcessType, Error
<1>2. \A signum \in SignalNumber : Interrupted(p, signum) \in ProcessType
  BY DEF ProcessType, Interrupted
<1>3. \A status \in ExitCode \cup {-1}, signum \in SignalNumber \cup {-1} :
        Terminated(p, status, signum) \in ProcessType
  BY DEF ProcessType, Terminated
<1>4. ExitStatus(p) \in ExitCode
  BY DEF ProcessType, ExitStatus, ErrorExitCode, ErrorType, ExitCode, SignalNumber,
         SHELL_EXIT_CODE_SIGNAL, EX_NOINPUT, EX_UNAVAILABLE, EX_SOFTWARE, EX_OSERR,
         EX_CANTCREAT, EX_IOERR
<1>5. Raised(p) \subseteq SignalNumber
  BY DEF Raised, ReplicatedSignals, SignalNumber, SIGHUP, SIGINT, SIGPIPE, SIGTERM
<1> QED BY <1>1, <1>2, <1>3, <1>4, <1>5

LEMMA NewProcessType == NewProcess \in ProcessType
BY DEF NewProcess, ProcessType, ErrorType

LEMMA ReportLinesType ==
  ASSUME NEW p \in ProcessType
  PROVE  ReportLines(p) \in Seq({"received", "exited", "killed"} \X Int)
<1> DEFINE Notice == {"received", "exited", "killed"} \X Int
<1>1. <<"received", p.interrupt_signum>> \in Notice
  BY DEF ProcessType, SignalNumber
<1>2. <<"exited", p.exit_status>> \in Notice
  BY DEF ProcessType, ExitCode
<1>3. <<"killed", p.exit_signum>> \in Notice
  BY DEF ProcessType, SignalNumber
<1> HIDE DEF Notice
<1>4. (IF p.interrupt_signum >= 0 THEN << <<"received", p.interrupt_signum>> >> ELSE <<>>) \in Seq(Notice)
  BY <1>1
<1>5. (IF p.exit_status >= 0 THEN << <<"exited", p.exit_status>> >>
       ELSE IF p.exit_signum >= 0 THEN << <<"killed", p.exit_signum>> >> ELSE <<>>) \in Seq(Notice)
  BY <1>2, <1>3
<1>6. ReportLines(p) \in Seq(Notice)
  BY <1>4, <1>5, ConcatProperties DEF ReportLines
<1> QED BY <1>6 DEF Notice

(* Errors and signals are what Process expects them to be.                 *)
LEMMA SignalTypes ==
  /\ InterruptSignals \subseteq SignalNumber
  /\ ExitCodes \subseteq ExitCode
  /\ DeathSignals \subseteq SignalNumber
BY DispatchAssumption DEF InterruptSignals, ReplicatedSignals, SignalNumber,
   SIGHUP, SIGINT, SIGPIPE, SIGTERM, SIGCHLD
------------------------------------------------------------------------------
(* What Cron holds, apart from its Process.                                *)
Held ==
  /\ buffered \in BOOLEAN /\ report \in BOOLEAN
  /\ spool \in Seq(Unit)
  /\ notices \in Seq({"received", "exited", "killed"} \X Int)

(* What an output call may do to the types of Cron and the streams.        *)
HeldOK == StreamTypeOK /\ Held

LEMMA UnspooledType ==
  ASSUME Held, NEW r \in Unspooled
  PROVE  r.out \in Seq(Shown) /\ r.ok \in BOOLEAN
<1>1. CASE buffered
  BY <1>1, ReadbackType DEF Unspooled, Held
<1>2. CASE ~buffered
  <2>1. r = [out |-> <<>>, ok |-> TRUE]
    BY <1>2 DEF Unspooled
  <2>2. <<>> \in Seq(Shown)
    BY EmptySeq
  <2> QED BY <2>1, <2>2
<1> QED BY <1>1, <1>2

LEMMA ClosedType ==
  ASSUME BufferClosed
  PROVE  buffered' \in BOOLEAN /\ spool' \in Seq(Unit)
BY EmptySeq DEF BufferClosed

LEMMA RevealType ==
  ASSUME HeldOK, Reveal
  PROVE  HeldOK'
<1>1. PICK r \in Unspooled : stream' = stream \o r.out /\ ioFailed' = (ioFailed \/ ~r.ok)
  BY DEF Reveal
<1>2. r.out \in Seq(Shown)
  BY UnspooledType DEF HeldOK
<1>3. stream' \in Seq(Shown)
  BY <1>1, <1>2, ConcatProperties DEF HeldOK, StreamTypeOK
<1>4. ioFailed' \in BOOLEAN
  BY <1>1
<1> QED BY <1>3, <1>4, ClosedType DEF Reveal, HeldOK, StreamTypeOK, Held

LEMMA CronOutputType ==
  ASSUME HeldOK, NEW type \in OutputType, NEW units \in Seq(Unit), NEW ok \in BOOLEAN,
         CronOutput(type, units, ok)
  PROVE  HeldOK'
<1>1. CASE CronSpools(type, units, ok)
  BY <1>1, ConcatProperties DEF CronSpools, CronOutput, HeldOK, StreamTypeOK, Held
<1>2. CASE CronSpoolFails(type, units, ok)
  <2>1. PICK ret \in WriteReturns(Len(units)) \ {Len(units)} :
        \E r \in Readback(spool \o SubSeq(units, 1, ret)) :
        \E w \in StreamResults(type, SubSeq(units, IF ret < 0 THEN 1 ELSE ret + 1, Len(units))) :
          stream' = stream \o r.out \o w.out
    BY <1>2 DEF CronSpoolFails
  <2> DEFINE first == IF ret < 0 THEN 1 ELSE ret + 1
             rest == SubSeq(units, first, Len(units))
  <2>2. Len(units) \in Nat /\ ret \in -1..Len(units) /\ ret # Len(units)
    BY <2>1, LenProperties DEF WriteReturns
  <2>3. first \in Int /\ \A i \in first..Len(units) : units[i] \in Unit
    BY <2>2, ElementOfSeq
  <2>4. rest \in Seq(Unit)
    BY <2>2, <2>3, SubSeqProperties
  <2>5. spool \o SubSeq(units, 1, ret) \in Seq(Unit)
    BY <2>2, TakenProperties, ConcatProperties DEF HeldOK, Held
  <2> HIDE DEF first
  <2>6. PICK r \in Readback(spool \o SubSeq(units, 1, ret)), w \in StreamResults(type, rest) :
          stream' = stream \o r.out \o w.out
    BY <2>1 DEF first
  <2>7. r.out \in Seq(Shown) /\ w.out \in Seq(Shown)
    BY <2>4, <2>5, ReadbackType, StreamResultsType
  <2>8. stream' \in Seq(Shown)
    BY <2>6, <2>7, ConcatProperties DEF HeldOK, StreamTypeOK
  <2> QED BY <1>2, <2>8, ClosedType DEF CronSpoolFails, CronOutput, HeldOK, StreamTypeOK, Held
<1>3. CASE CronShows(type, units, ok)
  <2>1. PICK r \in Unspooled, w \in StreamResults(type, units) :
          stream' = stream \o r.out \o w.out
    BY <1>3 DEF CronShows
  <2>2. r.out \in Seq(Shown) /\ w.out \in Seq(Shown)
    BY UnspooledType, StreamResultsType DEF HeldOK
  <2>3. stream' \in Seq(Shown)
    BY <2>1, <2>2, ConcatProperties DEF HeldOK, StreamTypeOK
  <2>4. ioFailed' \in BOOLEAN /\ report' \in BOOLEAN
    BY <1>3 DEF CronShows
  <2> QED BY <1>3, <2>3, <2>4, ClosedType DEF CronShows, CronOutput, HeldOK, StreamTypeOK, Held
<1> QED BY <1>1, <1>2, <1>3 DEF CronOutput

LEMMA UnspoolThrowsType ==
  ASSUME HeldOK, NEW held \in Seq(Unit), UnspoolThrows(held)
  PROVE  HeldOK'
<1>1. PICK r \in Readback(held) : stream' = stream \o r.out
  BY DEF UnspoolThrows
<1>2. stream' \in Seq(Shown)
  BY <1>1, ReadbackType, ConcatProperties DEF HeldOK, StreamTypeOK
<1> QED BY <1>2 DEF UnspoolThrows, HeldOK, StreamTypeOK, Held

LEMMA CronOutputThrowsType ==
  ASSUME HeldOK, NEW type, NEW units \in Seq(Unit), CronOutputThrows(type, units)
  PROVE  HeldOK'
<1>1. CASE UnspoolThrows(spool)
  BY <1>1, UnspoolThrowsType DEF HeldOK, Held
<1>2. ASSUME NEW ret \in WriteReturns(Len(units))
      PROVE  spool \o SubSeq(units, 1, ret) \in Seq(Unit)
  <2>1. ret \in -1..Len(units)
    BY DEF WriteReturns
  <2> QED BY <2>1, TakenProperties, ConcatProperties DEF HeldOK, Held
<1>3. ASSUME NEW held \in Seq(Unit), SpoolThrows(held)
      PROVE  HeldOK'
  BY <1>3 DEF SpoolThrows, HeldOK, StreamTypeOK, Held
<1> QED BY <1>1, <1>2, <1>3, UnspoolThrowsType DEF CronOutputThrows

LEMMA FirstOutputType ==
  ASSUME HeldOK, NEW type \in OutputType, NEW units \in Seq(Unit), NEW ok \in BOOLEAN,
         FirstOutput(type, units, ok)
  PROVE  HeldOK'
<1>1. CASE cron_mode
  BY <1>1, CronOutputType DEF FirstOutput
<1>2. CASE ~cron_mode
  <2>1. StreamOnly(type, units, ok) /\ UNCHANGED <<buffered, report, spool, notices>>
    BY <1>2 DEF FirstOutput
  <2>2. PICK w \in StreamResults(type, units) : stream' = stream \o w.out
    BY <2>1 DEF StreamOnly
  <2>3. stream' \in Seq(Shown)
    BY <2>2, StreamResultsType, ConcatProperties DEF HeldOK, StreamTypeOK
  <2> QED BY <2>1, <2>3 DEF StreamOnly, HeldOK, StreamTypeOK, Held
<1> QED BY <1>1, <1>2

LEMMA FirstOpenType ==
  ASSUME HeldOK, result \in ProcessType, NEW ok \in BOOLEAN, FirstOpen(ok)
  PROVE  HeldOK' /\ result' \in ProcessType
<1>1. CASE cron_mode
  BY <1>1 DEF FirstOpen, CronOpen, HeldOK, StreamTypeOK, Held
<1>2. CASE ~cron_mode
  <2>1. nonblocking' \in SUBSET OutputType /\ ioFailed' \in BOOLEAN
    BY <1>2 DEF FirstOpen, StreamOpen, HeldOK, StreamTypeOK
  <2> QED BY <1>2, <2>1 DEF FirstOpen, StreamOpen, HeldOK, StreamTypeOK, Held
<1> QED BY <1>1, <1>2

LEMMA CronReportType ==
  ASSUME HeldOK, result \in ProcessType, CronReport
  PROVE  HeldOK' /\ result' \in ProcessType
<1>1. CASE UNCHANGED cronVars
  BY <1>1 DEF cronVars, HeldOK, StreamTypeOK, Held
<1>2. CASE ~UNCHANGED cronVars
  <2>1. PICK r \in Unspooled : stream' = stream \o r.out /\ ioFailed' = (ioFailed \/ ~r.ok)
    BY <1>2 DEF CronReport
  <2>2. stream' \in Seq(Shown)
    BY <2>1, UnspooledType, ConcatProperties DEF HeldOK, StreamTypeOK
  <2>3. ioFailed' \in BOOLEAN
    BY <2>1
  <2>4. notices' = ReportLines(result) /\ BufferClosed /\ UNCHANGED <<report, result, nonblocking>>
    BY <1>2 DEF CronReport
  <2> QED BY <2>2, <2>3, <2>4, ReportLinesType, ClosedType DEF HeldOK, StreamTypeOK, Held
<1> QED BY <1>1, <1>2

LEMMA FilesOpenType ==
  ASSUME FilesTypeOK, NEW ok, FilesOpen(ok)
  PROVE  FilesTypeOK'
<1>1. <<>> \in Seq(Unit)
  BY EmptySeq
<1> QED BY <1>1 DEF FilesOpen, FilesTypeOK

LEMMA FilesOutputThrowsType ==
  ASSUME FilesTypeOK, NEW type, NEW units \in Seq(Unit), FilesOutputThrows(type, units)
  PROVE  FilesTypeOK'
<1> DEFINE Wrote(f, before, ret) ==
             LET short == {g \in DOMAIN ret : ret[g] # Len(units)}
             IN  /\ f \in short
                 /\ content' = [g \in Files |->
                                  IF g \in DOMAIN ret
                                  THEN content[g] \o SubSeq(units, 1, ret[g])
                                  ELSE content[g]]
                 /\ failed' = (failed \ before) \cup (short \ {f})
                 /\ hurt' = hurt \cup short
<1>0. PICK f \in {g \in opened \ failed : Takes(g, type)} :
        \E before \in SUBSET ({g \in opened : Takes(g, type)} \ {f}) :
        \E ret \in [before \cup {f} -> -1..Len(units)] : Wrote(f, before, ret)
  BY DEF FilesOutputThrows
<1>1. PICK before \in SUBSET ({g \in opened : Takes(g, type)} \ {f}) :
        \E ret \in [before \cup {f} -> -1..Len(units)] : Wrote(f, before, ret)
  BY <1>0
<1>2. PICK ret \in [before \cup {f} -> -1..Len(units)] :
        /\ content' = [g \in Files |->
                         IF g \in DOMAIN ret
                         THEN content[g] \o SubSeq(units, 1, ret[g])
                         ELSE content[g]]
        /\ failed' \subseteq failed \cup DOMAIN ret
        /\ hurt' \subseteq hurt \cup DOMAIN ret
  BY <1>1
<1>3. DOMAIN ret \subseteq Files
  BY DEF FilesTypeOK
<1>4. \A g \in DOMAIN ret : content[g] \o SubSeq(units, 1, ret[g]) \in Seq(Unit)
  <2>1. ASSUME NEW g \in DOMAIN ret
        PROVE  content[g] \o SubSeq(units, 1, ret[g]) \in Seq(Unit)
    <3>1. ret[g] \in -1..Len(units) /\ content[g] \in Seq(Unit)
      BY <1>3, <2>1 DEF FilesTypeOK
    <3> QED BY <3>1, TakenProperties, ConcatProperties
  <2> QED BY <2>1
<1>5. content' \in [Files -> Seq(Unit)]
  BY <1>2, <1>4 DEF FilesTypeOK
<1>6. failed' \subseteq Files /\ hurt' \subseteq Files
  BY <1>2, <1>3 DEF FilesTypeOK
<1> QED BY <1>5, <1>6 DEF FilesOutputThrows, FilesTypeOK

LEMMA FilesOutputType ==
  ASSUME FilesTypeOK, NEW type, NEW units \in Seq(Unit), NEW ok, FilesOutput(type, units, ok)
  PROVE  FilesTypeOK'
<1>1. PICK ret \in [{f \in opened : Takes(f, type)} -> -1..Len(units)] :
        LET short == {f \in DOMAIN ret : ret[f] # Len(units)}
        IN  /\ content' = [f \in Files |->
                             IF f \in DOMAIN ret
                             THEN content[f] \o SubSeq(units, 1, ret[f])
                             ELSE content[f]]
            /\ failed' = (failed \ DOMAIN ret) \cup short
            /\ hurt' = hurt \cup short
  BY DEF FilesOutput
<1>2. \A f \in DOMAIN ret : content[f] \o SubSeq(units, 1, ret[f]) \in Seq(Unit)
  <2>1. ASSUME NEW f \in DOMAIN ret
        PROVE  content[f] \o SubSeq(units, 1, ret[f]) \in Seq(Unit)
    <3>1. ret[f] \in -1..Len(units) /\ content[f] \in Seq(Unit)
      BY <2>1 DEF FilesTypeOK
    <3> QED BY <3>1, TakenProperties, ConcatProperties
  <2> QED BY <2>1
<1>3. content' \in [Files -> Seq(Unit)]
  BY <1>1, <1>2 DEF FilesTypeOK
<1>4. failed' \subseteq Files /\ hurt' \subseteq Files
  BY <1>1 DEF FilesTypeOK
<1> QED BY <1>3, <1>4 DEF FilesOutput, FilesTypeOK
------------------------------------------------------------------------------
(* The variables of Dispatch itself. *)
Rest ==
  /\ process \in ProcessType
  /\ cron_mode \in BOOLEAN /\ looping \in BOOLEAN
  /\ phase \in {"open", "openFailed", "setup", "execute", "forked", "loop",
                "threw", "looped", "reported", "exited"}
  /\ received \in Seq(OutputType)
  /\ alarms \subseteq AlarmType
  /\ outcome \in [status : ExitCode \cup {-1}, signal : SignalNumber \cup {-1}]

LEMMA TypeOKParts == TypeOK <=> HeldOK /\ result \in ProcessType /\ FilesTypeOK /\ Rest
BY DEF TypeOK, HeldOK, Held, CronTypeOK, Rest

LEMMA AlarmTypes ==
  /\ \A type : Alarm(type) \in AlarmType
  /\ \A type : {type} \cap {"STDERR"} \subseteq AlarmType
BY DEF Alarm, AlarmType

LEMMA ExitedType ==
  ASSUME NEW p \in ProcessType
  PROVE  Exited(ExitStatus(p)) \in [status : ExitCode \cup {-1}, signal : SignalNumber \cup {-1}]
BY ProcessProperties DEF Exited

LEMMA MessageType ==
  ASSUME NEW type \in OutputType, NEW len \in Nat, received \in Seq(OutputType)
  PROVE  /\ Message(type, len) \in Seq(Unit)
         /\ Receive(type, len) => received' \in Seq(OutputType)
<1>1. Len(received) \in Nat
  BY LenProperties
<1>2. \A i \in 1..len : [type |-> type, seq |-> Len(received) + i] \in Unit
  BY <1>1 DEF Unit
<1>3. Message(type, len) \in Seq(Unit)
  <2>1. Message(type, len) \in [1..len -> Unit]
    BY <1>2 DEF Message
  <2> QED BY <2>1, FunctionIsSeq
<1>4. [i \in 1..len |-> type] \in Seq(OutputType)
  OBVIOUS
<1>5. Receive(type, len) => received' \in Seq(OutputType)
  BY <1>4, ConcatProperties DEF Receive
<1> QED BY <1>3, <1>5

LEMMA DispatchErrorType ==
  ASSUME TypeOK, NEW type \in ErrorType, DispatchError(type)
  PROVE  /\ HeldOK' /\ result' \in ProcessType /\ process' \in ProcessType
         /\ alarms' \subseteq AlarmType
<1>1. HeldOK /\ result \in ProcessType /\ process \in ProcessType /\ alarms \subseteq AlarmType
  BY TypeOKParts DEF Rest
<1>2. process' \in ProcessType /\ alarms' \subseteq AlarmType
  BY <1>1, ProcessProperties, AlarmTypes DEF DispatchError
<1>3. CASE cron_mode
  <2>1. CronError(type)
    BY <1>3 DEF DispatchError
  <2>2. result' \in ProcessType
    BY <1>1, <2>1, ProcessProperties DEF CronError
  <2>3. CASE Reveal
    BY <1>1, <1>2, <2>2, <2>3, RevealType
  <2>4. CASE UNCHANGED <<buffered, report, spool, notices, stream, nonblocking, ioFailed>>
    BY <1>1, <1>2, <2>2, <2>4 DEF HeldOK, StreamTypeOK, Held
  <2> QED BY <1>2, <2>1, <2>2, <2>3, <2>4 DEF CronError
<1>4. CASE ~cron_mode
  BY <1>1, <1>2, <1>4 DEF DispatchError, cronVars, HeldOK, StreamTypeOK, Held
<1> QED BY <1>3, <1>4

LEMMA DispatchOutputType ==
  ASSUME TypeOK, NEW type \in OutputType, NEW len \in Nat,
         DispatchOutput(type, Message(type, len))
  PROVE  HeldOK' /\ FilesTypeOK' /\ process' \in ProcessType /\ result' \in ProcessType
<1>0. HeldOK /\ result \in ProcessType /\ FilesTypeOK /\ Rest
  BY TypeOKParts
<1>1. PICK ok1 \in BOOLEAN, ok2 \in BOOLEAN :
        /\ FirstOutput(type, Message(type, len), ok1)
        /\ FilesOutput(type, Message(type, len), ok2)
        /\ IF ok1 /\ ok2
           THEN UNCHANGED <<process, result>>
           ELSE /\ process' = Error(process, "WRITE_OUTPUT")
                /\ result' = IF cron_mode THEN Error(result, "WRITE_OUTPUT") ELSE result
  BY DEF DispatchOutput
<1>2. Message(type, len) \in Seq(Unit)
  BY <1>0, MessageType DEF Rest
<1>3. HeldOK' /\ FilesTypeOK'
  BY <1>0, <1>1, <1>2, FirstOutputType, FilesOutputType
<1>4. process' \in ProcessType /\ result' \in ProcessType
  <2>1. "WRITE_OUTPUT" \in ErrorType
    BY DEF ErrorType
  <2> QED BY <1>0, <1>1, <2>1, ProcessProperties DEF Rest
<1> QED BY <1>3, <1>4

LEMMA OutputThrowsType ==
  ASSUME TypeOK, NEW type \in OutputType, NEW len \in Nat, OutputThrows(type, len)
  PROVE  HeldOK' /\ FilesTypeOK' /\ process' \in ProcessType /\ result' \in ProcessType
<1> DEFINE units == Message(type, len)
<1>0. HeldOK /\ result \in ProcessType /\ FilesTypeOK /\ process \in ProcessType
  BY TypeOKParts DEF Rest
<1>1. units \in Seq(Unit)
  BY TypeOKParts, MessageType DEF Rest
<1>2. CASE UNCHANGED <<cronVars, fileVars, process>>
  BY <1>0, <1>2 DEF cronVars, fileVars, HeldOK, StreamTypeOK, Held, FilesTypeOK
<1>3. CASE /\ \/ CronOutputThrows(type, units)
              \/ FirstOutput(type, units, FALSE)
           /\ UNCHANGED <<fileVars, process, result>>
  <2>1. HeldOK'
    BY <1>0, <1>1, <1>3, CronOutputThrowsType, FirstOutputType
  <2>2. FilesTypeOK'
    BY <1>0, <1>3 DEF fileVars, FilesTypeOK
  <2> QED BY <1>0, <1>3, <2>1, <2>2
<1>4. CASE /\ \E ok \in BOOLEAN : FirstOutput(type, units, ok)
           /\ FilesOutputThrows(type, units)
           /\ UNCHANGED <<process, result>>
  <2>1. HeldOK' /\ FilesTypeOK'
    BY <1>0, <1>1, <1>4, FirstOutputType, FilesOutputThrowsType
  <2> QED BY <1>0, <1>4, <2>1
<1>5. CASE DispatchOutput(type, units)
  BY <1>5, DispatchOutputType
<1> QED BY <1>2, <1>3, <1>4, <1>5 DEF OutputThrows

LEMMA InitType == Init => TypeOK
<1> SUFFICES ASSUME Init PROVE TypeOK
  OBVIOUS
<1>1. HeldOK /\ result \in ProcessType
  BY EmptySeq, NewProcessType, DispatchAssumption
     DEF Init, CronInit, HeldOK, StreamTypeOK, Held
<1>2. FilesTypeOK
  BY DEF Init, FilesInit, FilesTypeOK, Existing, Unit, OutputType
<1>3. Rest
  BY EmptySeq, NewProcessType, DispatchAssumption DEF Init, Rest, Running
<1> QED BY <1>1, <1>2, <1>3, TypeOKParts

LEMMA NextType == TypeOK /\ [Next]_vars => TypeOK'
<1> SUFFICES ASSUME TypeOK, [Next]_vars PROVE TypeOK'
  OBVIOUS
<1> USE DEF Rest
<1>0. HeldOK /\ result \in ProcessType /\ FilesTypeOK /\ Rest
  BY TypeOKParts
<1>a. ASSUME HeldOK', result' \in ProcessType, FilesTypeOK', Rest'
      PROVE  TypeOK'
  BY <1>a DEF TypeOK, HeldOK, Held, CronTypeOK
<1>b. ASSUME UNCHANGED fileVars PROVE FilesTypeOK'
  BY <1>0, <1>b DEF fileVars, FilesTypeOK
<1>c. ASSUME UNCHANGED cronVars PROVE HeldOK' /\ result' \in ProcessType
  BY <1>0, <1>c DEF cronVars, HeldOK, StreamTypeOK, Held
<1>d. \A type \in {"OPEN_OUTPUT", "OPEN_INPUT", "SIGNAL_HANDLER", "FORK", "CLOSE_OUTPUT",
                   "READ_INPUT", "WRITE_OUTPUT", "MAIN_LOOP_EXCEPTION"} : type \in ErrorType
  BY DEF ErrorType
<1>e. ASSUME process' \in ProcessType, GiveUp(process')
      PROVE  outcome' \in [status : ExitCode \cup {-1}, signal : SignalNumber \cup {-1}]
  BY <1>0, <1>e, ExitedType DEF GiveUp
<1>1. CASE Open
  <2>1. PICK ok1 \in BOOLEAN, ok2 \in BOOLEAN :
          FirstOpen(ok1) /\ FilesOpen(ok2) /\ phase' = IF ok1 /\ ok2 THEN "setup" ELSE "openFailed"
    BY <1>1 DEF Open
  <2>2. HeldOK' /\ result' \in ProcessType /\ FilesTypeOK'
    BY <1>0, <2>1, FirstOpenType, FilesOpenType
  <2> QED BY <1>0, <1>1, <1>a, <2>1, <2>2 DEF Open
<1>2. CASE OpenFails
  BY <1>0, <1>2, <1>a, <1>b, <1>d, <1>e, DispatchErrorType DEF OpenFails
<1>3. CASE SetupFails
  <2>1. PICK type \in {"OPEN_INPUT", "SIGNAL_HANDLER"} : DispatchError(type)
    BY <1>3 DEF SetupFails
  <2>2. HeldOK' /\ result' \in ProcessType /\ process' \in ProcessType /\ alarms' \subseteq AlarmType
    BY <1>d, <2>1, DispatchErrorType
  <2> QED BY <1>0, <1>3, <1>a, <1>b, <1>e, <2>2 DEF SetupFails
<1>4. CASE ForkFails
  <2>1. process' \in ProcessType /\ alarms' \subseteq AlarmType
    BY <1>0, <1>4, <1>d, ProcessProperties, AlarmTypes DEF ForkFails
  <2> QED BY <1>0, <1>4, <1>a, <1>b, <1>c, <1>e, <2>1 DEF ForkFails
<1>5. CASE ForkSucceeds
  BY <1>0, <1>5, <1>a, <1>b, <1>c DEF ForkSucceeds
<1>6. CASE CloseFails
  BY <1>0, <1>6, <1>a, <1>b, <1>d, DispatchErrorType DEF CloseFails
<1>7. CASE StartLoop
  BY <1>0, <1>7, <1>a, <1>b, <1>c DEF StartLoop
<1>8. ASSUME NEW type \in OutputType, NEW len \in 0..MaxLength, Output(type, len)
      PROVE  TypeOK'
  <2>0. len \in Nat
    BY DispatchAssumption
  <2>1. received' \in Seq(OutputType)
    BY <1>0, <1>8, <2>0, MessageType DEF Output
  <2>2. HeldOK' /\ FilesTypeOK' /\ process' \in ProcessType /\ result' \in ProcessType
    BY <1>8, <2>0, DispatchOutputType DEF Output
  <2>3. alarms' \subseteq AlarmType
    BY <1>0, <1>8, AlarmTypes DEF Output
  <2> QED BY <1>0, <1>8, <1>a, <2>1, <2>2, <2>3 DEF Output
<1>f. {"ERROR", "EXCEPTION"} \subseteq AlarmType
  BY DEF AlarmType
<1>g. ASSUME Throw PROVE cron_mode' = cron_mode /\ looping' = looping /\ outcome' = outcome /\ phase' = "threw"
  BY <1>g DEF Throw
<1>9. ASSUME NEW type \in OutputType, NEW len \in 0..MaxLength, OutputThrows(type, len)
      PROVE  TypeOK'
  <2>0. len \in Nat
    BY DispatchAssumption
  <2>1. received' \in Seq(OutputType)
    BY <1>0, <1>9, <2>0, MessageType DEF OutputThrows
  <2>2. HeldOK' /\ FilesTypeOK' /\ process' \in ProcessType /\ result' \in ProcessType
    BY <1>9, <2>0, OutputThrowsType
  <2>3. alarms' \subseteq AlarmType
    BY <1>0, <1>9, <1>f, AlarmTypes DEF OutputThrows
  <2>4. Throw
    BY <1>9 DEF OutputThrows
  <2> QED BY <1>0, <1>a, <1>g, <2>1, <2>2, <2>3, <2>4
<1>10. ASSUME NEW status \in ExitCode \cup {-1}, NEW signum \in SignalNumber \cup {-1},
              CommandTerminated(status, signum) \/ TerminatedThrows(status, signum)
       PROVE  TypeOK'
  <2>0. process' = Terminated(process, status, signum)
    BY <1>10 DEF CommandTerminated, TerminatedThrows
  <2>1. process' \in ProcessType
    BY <1>0, <2>0, ProcessProperties
  <2>2. HeldOK' /\ result' \in ProcessType
    <3>1. CASE cron_mode
      <4>1. CronTerminated(status, signum)
        BY <1>10, <3>1 DEF CommandTerminated, TerminatedThrows
      <4> QED BY <1>0, <4>1, ProcessProperties DEF CronTerminated, HeldOK, StreamTypeOK, Held
    <3>2. CASE ~cron_mode
      BY <1>10, <1>c, <3>2 DEF CommandTerminated, TerminatedThrows
    <3> QED BY <3>1, <3>2
  <2>3. CASE CommandTerminated(status, signum)
    BY <1>0, <1>a, <1>b, <2>1, <2>2, <2>3 DEF CommandTerminated
  <2>4. CASE TerminatedThrows(status, signum)
    BY <1>0, <1>a, <1>b, <1>f, <1>g, <2>1, <2>2, <2>4 DEF TerminatedThrows
  <2> QED BY <1>10, <2>3, <2>4
<1>11. ASSUME NEW signum \in InterruptSignals, DteeInterrupted(signum) \/ InterruptedThrows(signum)
       PROVE  TypeOK'
  <2>1. process' \in ProcessType
    BY <1>0, <1>11, SignalTypes, ProcessProperties DEF DteeInterrupted, InterruptedThrows
  <2>2. HeldOK' /\ result' \in ProcessType
    <3>1. CASE cron_mode
      <4>1. CronInterrupted(signum) \/ CronInterruptedThrows(signum)
        BY <1>11, <3>1 DEF DteeInterrupted, InterruptedThrows
      <4>2. result' \in ProcessType
        BY <1>0, <4>1, SignalTypes, ProcessProperties DEF CronInterrupted, CronInterruptedThrows
      <4>3. spool \in Seq(Unit)
        BY <1>0 DEF HeldOK, Held
      <4>4. HeldOK'
        BY <1>0, <4>1, <4>3, RevealType, UnspoolThrowsType DEF CronInterrupted, CronInterruptedThrows
      <4> QED BY <4>2, <4>4
    <3>2. CASE ~cron_mode
      BY <1>11, <1>c, <3>2 DEF DteeInterrupted, InterruptedThrows
    <3> QED BY <3>1, <3>2
  <2>3. CASE DteeInterrupted(signum)
    BY <1>0, <1>a, <1>b, <2>1, <2>2, <2>3 DEF DteeInterrupted
  <2>4. CASE InterruptedThrows(signum)
    BY <1>0, <1>a, <1>b, <1>f, <1>g, <2>1, <2>2, <2>4 DEF InterruptedThrows
  <2> QED BY <1>11, <2>3, <2>4
<1>12. CASE ReadFails
  BY <1>0, <1>12, <1>a, <1>b, <1>d, DispatchErrorType DEF ReadFails
<1>13. CASE LoopEnds
  BY <1>0, <1>13, <1>a, <1>b, <1>c DEF LoopEnds
<1>14. CASE Report
  <2>1. HeldOK' /\ result' \in ProcessType
    BY <1>0, <1>14, <1>c, CronReportType DEF Report
  <2> QED BY <1>0, <1>14, <1>a, <1>b, <2>1 DEF Report
<1>15. CASE Exit
  <2>1. \A signum \in SignalNumber :
          Killed(signum) \in [status : ExitCode \cup {-1}, signal : SignalNumber \cup {-1}]
    BY DEF Killed
  <2>2. outcome' \in [status : ExitCode \cup {-1}, signal : SignalNumber \cup {-1}]
    BY <1>0, <1>15, <2>1, ProcessProperties, ExitedType DEF Exit
  <2> QED BY <1>0, <1>15, <1>a, <1>b, <1>c, <2>2 DEF Exit
<1>16. CASE UNCHANGED vars
  BY <1>0, <1>16, <1>a, <1>b, <1>c DEF vars
<1>17. ASSUME NEW status \in ExitCodes,
              CommandTerminated(status, -1) \/ TerminatedThrows(status, -1)
       PROVE  TypeOK'
  BY <1>10, <1>17, SignalTypes
<1>18. ASSUME NEW signum \in DeathSignals,
              CommandTerminated(-1, signum) \/ TerminatedThrows(-1, signum)
       PROVE  TypeOK'
  BY <1>10, <1>18, SignalTypes
<1>19. CASE LoopThrows
  BY <1>0, <1>19, <1>a, <1>b, <1>c, <1>f, <1>g DEF LoopThrows
<1>20. CASE ReadFailsThrows
  <2>1. process' \in ProcessType /\ result' \in ProcessType
    BY <1>0, <1>20, <1>d, ProcessProperties DEF ReadFailsThrows, CronErrorThrows
  <2>2. HeldOK'
    BY <1>0, <1>20, UnspoolThrowsType DEF ReadFailsThrows, CronErrorThrows, HeldOK, Held
  <2> QED BY <1>0, <1>20, <1>a, <1>b, <1>f, <1>g, <2>1, <2>2 DEF ReadFailsThrows
<1>21. CASE MainLoopException
  BY <1>0, <1>21, <1>a, <1>b, <1>d, DispatchErrorType DEF MainLoopException
<1> QED
  BY <1>1, <1>2, <1>3, <1>4, <1>5, <1>6, <1>7, <1>8, <1>9, <1>11, <1>12, <1>13, <1>14,
     <1>15, <1>16, <1>17, <1>18, <1>19, <1>20, <1>21 DEF Next, Done

(* Every variable of Dispatch keeps its type, whatever the outputs return  *)
(* and in whatever order messages and events come.                         *)
THEOREM TypeCorrect == Spec => []TypeOK
BY InitType, NextType, PTL DEF Spec

(***************************************************************************)
(* The output of the command is shown in order, and the two records of how *)
(* it ended agree.                                                         *)
(***************************************************************************)

(* A run of shown units, in order, with numbers above lo and up to hi,     *)
(* each on the stream kinds says it was written to.                        *)
Ordered(s, lo, hi, kinds) ==
  /\ s \in Seq(Shown)
  /\ \A i, j \in 1..Len(s) : i < j => s[i].seq < s[j].seq
  /\ \A i \in 1..Len(s) : s[i].seq \in (lo + 1)..hi /\ s[i].fd = kinds[s[i].seq]

(* Units that follow the first base units without a gap. *)
Numbered(units, base) == \A i \in 1..Len(units) : units[i].seq = base + i

LEMMA OrderedEmpty ==
  ASSUME NEW lo, NEW hi, NEW kinds
  PROVE  Ordered(<<>>, lo, hi, kinds)
BY EmptySeq DEF Ordered

LEMMA OrderedExtend ==
  ASSUME NEW lo \in Nat, NEW hi \in Nat, NEW hi2 \in Nat, NEW kinds, NEW kinds2, NEW s,
         Ordered(s, lo, hi, kinds), hi <= hi2, \A n \in 1..hi : kinds2[n] = kinds[n]
  PROVE  Ordered(s, lo, hi2, kinds2)
<1>1. ASSUME NEW i \in 1..Len(s)
      PROVE  s[i].seq \in (lo + 1)..hi2 /\ s[i].fd = kinds2[s[i].seq]
  BY <1>1 DEF Ordered
<1> QED BY <1>1 DEF Ordered

LEMMA OrderedConcat ==
  ASSUME NEW lo \in Nat, NEW mid \in Nat, NEW hi \in Nat, lo <= mid, mid <= hi, NEW kinds,
         NEW a, Ordered(a, lo, mid, kinds), NEW b, Ordered(b, mid, hi, kinds)
  PROVE  Ordered(a \o b, lo, hi, kinds)
<1> DEFINE c == a \o b
<1>1. a \in Seq(Shown) /\ b \in Seq(Shown) /\ Len(a) \in Nat /\ Len(b) \in Nat
  BY LenProperties DEF Ordered
<1>2. /\ c \in Seq(Shown) /\ Len(c) = Len(a) + Len(b)
      /\ \A i \in 1..Len(c) : c[i] = IF i <= Len(a) THEN a[i] ELSE b[i - Len(a)]
  BY <1>1, ConcatProperties
<1> HIDE DEF c
<1>3. ASSUME NEW i \in 1..Len(c)
      PROVE  /\ i <= Len(a) => c[i].seq \in (lo + 1)..mid
             /\ i > Len(a) => c[i].seq \in (mid + 1)..hi
             /\ c[i].fd = kinds[c[i].seq]
  <2>1. CASE i <= Len(a)
    BY <1>1, <1>2, <2>1 DEF Ordered
  <2>2. CASE i > Len(a)
    <3>1. i - Len(a) \in 1..Len(b) /\ c[i] = b[i - Len(a)]
      BY <1>1, <1>2, <2>2
    <3> QED BY <1>1, <2>2, <3>1 DEF Ordered
  <2> QED BY <1>1, <1>2, <2>1, <2>2
<1>4. ASSUME NEW i \in 1..Len(c), NEW j \in 1..Len(c), i < j
      PROVE  c[i].seq < c[j].seq
  <2>1. CASE j <= Len(a)
    <3>1. i \in 1..Len(a) /\ c[i] = a[i] /\ j \in 1..Len(a) /\ c[j] = a[j]
      BY <1>1, <1>2, <1>4, <2>1
    <3> QED BY <1>4, <3>1 DEF Ordered
  <2>2. CASE i > Len(a)
    <3>1. i - Len(a) \in 1..Len(b) /\ j - Len(a) \in 1..Len(b) /\ i - Len(a) < j - Len(a)
      BY <1>1, <1>2, <1>4, <2>2
    <3>2. c[i] = b[i - Len(a)] /\ c[j] = b[j - Len(a)]
      BY <1>1, <1>2, <1>4, <2>2
    <3>3. b[i - Len(a)].seq < b[j - Len(a)].seq
      BY <3>1 DEF Ordered
    <3> QED BY <3>2, <3>3
  <2>3. CASE i <= Len(a) /\ j > Len(a)
    BY <1>3, <2>3
  <2> QED BY <1>1, <1>2, <2>1, <2>2, <2>3
<1>5. ASSUME NEW i \in 1..Len(c)
      PROVE  c[i].seq \in (lo + 1)..hi /\ c[i].fd = kinds[c[i].seq]
  <2>1. i <= Len(a) \/ i > Len(a)
    BY <1>1, <1>2
  <2>2. \A n : n \in (lo + 1)..mid \/ n \in (mid + 1)..hi => n \in (lo + 1)..hi
    OBVIOUS
  <2> QED BY <1>3, <2>1, <2>2
<1>6. Ordered(c, lo, hi, kinds)
  BY <1>2, <1>4, <1>5 DEF Ordered
<1> QED BY <1>6 DEF c

(* Consecutive numbers are in order. *)
LEMMA OrderedRun ==
  ASSUME NEW s \in Seq(Shown), NEW base \in Nat, NEW hi \in Nat, NEW kinds,
         base + Len(s) <= hi,
         \A i \in 1..Len(s) : s[i].seq = base + i /\ s[i].fd = kinds[base + i]
  PROVE  Ordered(s, base, hi, kinds)
<1>1. Len(s) \in Nat
  BY LenProperties
<1>2. ASSUME NEW i \in 1..Len(s)
      PROVE  s[i].seq \in (base + 1)..hi /\ s[i].fd = kinds[s[i].seq]
  <2>1. s[i].seq = base + i /\ s[i].fd = kinds[base + i]
    OBVIOUS
  <2>2. base + i \in (base + 1)..hi
    BY <1>1
  <2> QED BY <2>1, <2>2
<1>3. ASSUME NEW i \in 1..Len(s), NEW j \in 1..Len(s), i < j
      PROVE  s[i].seq < s[j].seq
  <2>1. s[i].seq = base + i /\ s[j].seq = base + j
    OBVIOUS
  <2> QED BY <1>1, <1>3, <2>1
<1> QED BY <1>2, <1>3 DEF Ordered

(* One write shows the beginning of its message. *)
LEMMA StreamResultsOrdered ==
  ASSUME NEW fd \in OutputType, NEW units \in Seq(Unit), NEW base \in Nat, NEW kinds,
         Numbered(units, base), \A i \in 1..Len(units) : kinds[base + i] = fd,
         NEW w \in StreamResults(fd, units)
  PROVE  Ordered(w.out, base, base + Len(units), kinds)
<1>1. PICK ret \in -1..Len(units) :
        w = [out |-> Tagged(fd, SubSeq(units, 1, ret)), ok |-> ret = Len(units)]
  BY DEF StreamResults, WriteReturns
<1> DEFINE taken == SubSeq(units, 1, ret)
<1>2. Len(units) \in Nat
  BY LenProperties
<1>3. /\ taken \in Seq(Unit) /\ Len(taken) = IF 1 <= ret THEN ret ELSE 0
      /\ \A i \in 1..ret : taken[i] = units[i]
  BY TakenProperties
<1> HIDE DEF taken
<1>4. \A i \in 1..Len(taken) : taken[i].seq = base + i /\ i \in 1..Len(units)
  BY <1>2, <1>3 DEF Numbered
<1>5. /\ w.out \in Seq(Shown) /\ Len(w.out) = Len(taken)
      /\ \A i \in 1..Len(taken) : w.out[i].fd = fd /\ w.out[i].seq = taken[i].seq
  <2> DEFINE out == Tagged(fd, taken)
  <2>1. /\ out \in Seq(Shown) /\ Len(out) = Len(taken)
        /\ \A i \in 1..Len(taken) : out[i].fd = fd /\ out[i].seq = taken[i].seq
    BY <1>3, TaggedProperties
  <2>2. w.out = out
    BY <1>1 DEF taken
  <2> HIDE DEF out
  <2> QED BY <2>1, <2>2
<1>6. \A i \in 1..Len(taken) : w.out[i].seq = base + i /\ w.out[i].fd = fd
  BY <1>4, <1>5
<1>7. \A i \in 1..Len(w.out) : w.out[i].seq = base + i /\ w.out[i].fd = kinds[base + i]
  BY <1>4, <1>5, <1>6
<1>8. base + Len(w.out) <= base + Len(units) /\ base + Len(units) \in Nat
  BY <1>2, <1>3, <1>5
<1> QED BY <1>5, <1>7, <1>8, OrderedRun

(* Reading back the buffer file shows what it gets out of it in order.     *)
LEMMA ReadbackOrdered ==
  ASSUME NEW held \in Seq(Unit), NEW kinds, Numbered(held, 0),
         \A i \in 1..Len(held) : kinds[i] = "STDOUT", NEW r \in Readback(held)
  PROVE  Ordered(r.out, 0, Len(held), kinds)
<1>0. "STDOUT" \in OutputType /\ Len(held) \in Nat
  BY LenProperties DEF OutputType
<1>1. CASE r = [out |-> Tagged("STDOUT", held), ok |-> TRUE]
  <2> DEFINE out == Tagged("STDOUT", held)
  <2>1. /\ out \in Seq(Shown) /\ Len(out) = Len(held)
        /\ \A i \in 1..Len(held) : out[i].fd = "STDOUT" /\ out[i].seq = held[i].seq
    BY <1>0, TaggedProperties
  <2>2. r.out = out
    BY <1>1
  <2> HIDE DEF out
  <2>3. ASSUME NEW i \in 1..Len(out)
        PROVE  out[i].seq = 0 + i /\ out[i].fd = kinds[0 + i]
    <3>1. i \in 1..Len(held) /\ 0 + i = i
      BY <1>0, <2>1
    <3>2. held[i].seq = 0 + i
      BY <3>1 DEF Numbered
    <3> QED BY <2>1, <3>1, <3>2
  <2>4. 0 \in Nat /\ 0 + Len(out) <= Len(held)
    BY <1>0, <2>1
  <2>5. Ordered(out, 0, Len(held), kinds)
    BY <1>0, <2>1, <2>3, <2>4, OrderedRun
  <2> QED BY <2>2, <2>5
<1>2. CASE \E f \in Survivors(Len(held)) :
             r = [out |-> Tagged("STDOUT", [i \in DOMAIN f |-> held[f[i]]]), ok |-> FALSE]
  <2>1. PICK k \in 0..Len(held) : \E f \in [1..k -> 1..Len(held)] :
          /\ \A i, j \in 1..k : i < j => f[i] < f[j]
          /\ r = [out |-> Tagged("STDOUT", [i \in DOMAIN f |-> held[f[i]]]), ok |-> FALSE]
    BY <1>2 DEF Survivors
  <2>2. PICK f \in [1..k -> 1..Len(held)] :
          /\ \A i, j \in 1..k : i < j => f[i] < f[j]
          /\ r = [out |-> Tagged("STDOUT", [i \in DOMAIN f |-> held[f[i]]]), ok |-> FALSE]
    BY <2>1
  <2> DEFINE kept == [i \in 1..k |-> held[f[i]]]
  <2>3. \A i \in 1..k : held[f[i]] \in Unit
    BY ElementOfSeq
  <2>4. kept \in Seq(Unit) /\ Len(kept) = k
    <3>1. kept \in [1..k -> Unit]
      BY <2>3
    <3> QED BY <1>0, <3>1, FunctionIsSeq
  <2>5. r.out = Tagged("STDOUT", kept)
    BY <2>2
  <2>6. \A i \in 1..k : kept[i].seq = f[i]
    BY <1>0 DEF Numbered
  <2> HIDE DEF kept
  <2>7. /\ r.out \in Seq(Shown) /\ Len(r.out) = k
        /\ \A i \in 1..k : r.out[i].fd = "STDOUT" /\ r.out[i].seq = kept[i].seq
    <3> DEFINE out == Tagged("STDOUT", kept)
    <3>1. /\ out \in Seq(Shown) /\ Len(out) = Len(kept)
          /\ \A i \in 1..Len(kept) : out[i].fd = "STDOUT" /\ out[i].seq = kept[i].seq
      BY <1>0, <2>4, TaggedProperties
    <3> HIDE DEF out
    <3>2. r.out = out
      BY <2>5 DEF out
    <3> QED BY <2>4, <3>1, <3>2
  <2>8. \A i \in 1..k : r.out[i].seq = f[i] /\ r.out[i].fd = "STDOUT"
    BY <2>6, <2>7
  <2>9. \A i, j \in 1..k : i < j => r.out[i].seq < r.out[j].seq
    BY <2>2, <2>8
  <2>10. \A i \in 1..k : f[i] \in 1..Len(held)
    OBVIOUS
  <2>11. \A i \in 1..k : r.out[i].seq \in (0 + 1)..Len(held) /\ r.out[i].fd = kinds[r.out[i].seq]
    BY <1>0, <2>8, <2>10
  <2> QED BY <2>7, <2>9, <2>11 DEF Ordered
<1> QED BY <1>1, <1>2 DEF Readback

(* Pieces of numbered units, and two of them joined, are numbered.         *)
LEMMA NumberedTaken ==
  ASSUME NEW units \in Seq(Unit), NEW base \in Nat, Numbered(units, base),
         NEW ret \in -1..Len(units)
  PROVE  /\ SubSeq(units, 1, ret) \in Seq(Unit)
         /\ Len(SubSeq(units, 1, ret)) = IF ret < 0 THEN 0 ELSE ret
         /\ Numbered(SubSeq(units, 1, ret), base)
<1>1. Len(units) \in Nat
  BY LenProperties
<1> DEFINE taken == SubSeq(units, 1, ret)
<1>2. /\ taken \in Seq(Unit) /\ Len(taken) = IF 1 <= ret THEN ret ELSE 0
      /\ \A i \in 1..ret : taken[i] = units[i]
  BY TakenProperties
<1> HIDE DEF taken
<1>3. Len(taken) = IF ret < 0 THEN 0 ELSE ret
  BY <1>1, <1>2
<1>4. \A i \in 1..Len(taken) : i \in 1..ret /\ i \in 1..Len(units)
  BY <1>1, <1>3
<1>5. Numbered(taken, base)
  BY <1>2, <1>4 DEF Numbered
<1> QED BY <1>2, <1>3, <1>5 DEF taken

LEMMA NumberedRest ==
  ASSUME NEW units \in Seq(Unit), NEW base \in Nat, Numbered(units, base),
         NEW m \in 1..(Len(units) + 1)
  PROVE  /\ SubSeq(units, m, Len(units)) \in Seq(Unit)
         /\ Len(SubSeq(units, m, Len(units))) = Len(units) - m + 1
         /\ Numbered(SubSeq(units, m, Len(units)), base + m - 1)
<1>1. Len(units) \in Nat
  BY LenProperties
<1> DEFINE rest == SubSeq(units, m, Len(units))
<1>2. /\ rest \in Seq(Unit) /\ Len(rest) = Len(units) - m + 1
      /\ \A i \in 1..(Len(units) - m + 1) : rest[i] = units[m + i - 1]
  BY RestProperties
<1> HIDE DEF rest
<1>3. ASSUME NEW i \in 1..Len(rest)
      PROVE  rest[i].seq = base + m - 1 + i
  <2>1. i \in 1..(Len(units) - m + 1) /\ m + i - 1 \in 1..Len(units)
    BY <1>1, <1>2
  <2>2. rest[i].seq = base + (m + i - 1)
    BY <1>2, <2>1 DEF Numbered
  <2> QED BY <1>1, <2>2
<1>4. Numbered(rest, base + m - 1)
  BY <1>3 DEF Numbered
<1> QED BY <1>2, <1>4 DEF rest

LEMMA NumberedConcat ==
  ASSUME NEW a \in Seq(Unit), NEW b \in Seq(Unit), Numbered(a, 0), Numbered(b, Len(a))
  PROVE  a \o b \in Seq(Unit) /\ Len(a \o b) = Len(a) + Len(b) /\ Numbered(a \o b, 0)
<1>1. Len(a) \in Nat /\ Len(b) \in Nat
  BY LenProperties
<1> DEFINE c == a \o b
<1>2. /\ c \in Seq(Unit) /\ Len(c) = Len(a) + Len(b)
      /\ \A i \in 1..(Len(a) + Len(b)) : c[i] = IF i <= Len(a) THEN a[i] ELSE b[i - Len(a)]
  BY ConcatProperties
<1> HIDE DEF c
<1>3. ASSUME NEW i \in 1..Len(c)
      PROVE  c[i].seq = 0 + i
  <2>1. CASE i <= Len(a)
    <3>1. i \in 1..Len(a) /\ c[i] = a[i]
      BY <1>1, <1>2, <2>1
    <3>2. a[i].seq = 0 + i
      BY <3>1 DEF Numbered
    <3> QED BY <3>1, <3>2
  <2>2. CASE i > Len(a)
    <3>1. i - Len(a) \in 1..Len(b) /\ c[i] = b[i - Len(a)]
      BY <1>1, <1>2, <2>2
    <3>2. b[i - Len(a)].seq = Len(a) + (i - Len(a))
      BY <3>1 DEF Numbered
    <3> QED BY <1>1, <3>1, <3>2
  <2> QED BY <1>1, <1>2, <2>1, <2>2
<1>4. Numbered(c, 0)
  BY <1>3 DEF Numbered
<1> QED BY <1>2, <1>4 DEF c
------------------------------------------------------------------------------
(* The same with at most one restart, from what is shown at the time.      *)
Twice(s, hi, kinds) ==
  /\ s \in Seq(Shown)
  /\ Restarts(s)
  /\ \A i \in 1..Len(s) : s[i].seq \in 1..hi /\ s[i].fd = kinds[s[i].seq]

LEMMA OrderedOnce ==
  ASSUME NEW s, NEW hi \in Nat, NEW kinds, Ordered(s, 0, hi, kinds)
  PROVE  Twice(s, hi, kinds)
<1>1. DOMAIN s = 1..Len(s) /\ Len(s) \in Nat
  BY LenProperties DEF Ordered
<1>2. Len(s) \in 0..Len(s)
  BY <1>1
<1>3. Restarts(s)
  BY <1>1, <1>2 DEF Restarts, Ordered
<1>4. 0 + 1 = 1
  OBVIOUS
<1> QED BY <1>3, <1>4 DEF Twice, Ordered

LEMMA OrderedTwice ==
  ASSUME NEW a, NEW b, NEW hi \in Nat, NEW kinds, Ordered(a, 0, hi, kinds), Ordered(b, 0, hi, kinds)
  PROVE  Twice(a \o b, hi, kinds)
<1> DEFINE c == a \o b
<1>1. a \in Seq(Shown) /\ b \in Seq(Shown) /\ Len(a) \in Nat /\ Len(b) \in Nat
  BY LenProperties DEF Ordered
<1>2. /\ c \in Seq(Shown) /\ Len(c) = Len(a) + Len(b)
      /\ \A i \in 1..Len(c) : c[i] = IF i <= Len(a) THEN a[i] ELSE b[i - Len(a)]
  BY <1>1, ConcatProperties
<1>3. DOMAIN c = 1..Len(c)
  BY <1>2, LenProperties
<1> HIDE DEF c
<1>4. ASSUME NEW i \in 1..Len(c)
      PROVE  c[i].seq \in 1..hi /\ c[i].fd = kinds[c[i].seq]
  <2>1. CASE i <= Len(a)
    BY <1>1, <1>2, <2>1 DEF Ordered
  <2>2. CASE i > Len(a)
    <3>1. i - Len(a) \in 1..Len(b) /\ c[i] = b[i - Len(a)]
      BY <1>1, <1>2, <2>2
    <3> QED BY <3>1 DEF Ordered
  <2> QED BY <1>1, <1>2, <2>1, <2>2
<1>5. ASSUME NEW i \in 1..Len(c), NEW j \in 1..Len(c), i < j, j <= Len(a) \/ i > Len(a)
      PROVE  c[i].seq < c[j].seq
  <2>1. CASE j <= Len(a)
    <3>1. i \in 1..Len(a) /\ c[i] = a[i] /\ j \in 1..Len(a) /\ c[j] = a[j]
      BY <1>1, <1>2, <1>5, <2>1
    <3> QED BY <1>5, <3>1 DEF Ordered
  <2>2. CASE i > Len(a)
    <3>1. i - Len(a) \in 1..Len(b) /\ j - Len(a) \in 1..Len(b) /\ i - Len(a) < j - Len(a)
      BY <1>1, <1>2, <1>5, <2>2
    <3>2. c[i] = b[i - Len(a)] /\ c[j] = b[j - Len(a)]
      BY <1>1, <1>2, <1>5, <2>2
    <3>3. b[i - Len(a)].seq < b[j - Len(a)].seq
      BY <3>1 DEF Ordered
    <3> QED BY <3>2, <3>3
  <2> QED BY <1>5, <2>1, <2>2
<1>6. Len(a) \in 0..Len(c)
  BY <1>1, <1>2
<1>7. Restarts(c)
  BY <1>3, <1>5, <1>6 DEF Restarts
<1>8. Twice(c, hi, kinds)
  BY <1>2, <1>4, <1>7 DEF Twice
<1> QED BY <1>8 DEF c

(* What is held back is the beginning of what was received, all of it      *)
(* standard output.                                                        *)
StillHeld ==
  buffered =>
    /\ cron_mode
    /\ Numbered(spool, 0) /\ Len(spool) <= Len(received)
    /\ \A i \in 1..Len(spool) : received[i] = "STDOUT"

(* Unless an exception has just left the main loop, all that was received  *)
(* is held back and nothing has been shown.                                *)
Buffering ==
  /\ StillHeld
  /\ buffered /\ phase # "threw" => stream = <<>> /\ Len(spool) = Len(received)
  /\ phase = "open" => stream = <<>> /\ spool = <<>> /\ received = <<>>

(* No exception has left the main loop; main_loop() has caught one.        *)
Unbroken == phase # "threw" /\ "EXCEPTION" \notin alarms
Caught == phase # "threw" /\ "EXCEPTION" \in alarms

Breaking ==
  /\ phase = "threw" => "EXCEPTION" \in alarms
  /\ Caught => ~buffered /\ phase \in {"looped", "reported", "exited"}

StreamOrdered ==
  IF cron_mode /\ Caught
  THEN Twice(stream, Len(received), received)
  ELSE Ordered(stream, 0, Len(received), received)

OrderInv == TypeOK /\ Buffering /\ Breaking /\ StreamOrdered

LEMMA OrderImpliesShown == OrderInv => ShownInOrder
<1> SUFFICES ASSUME OrderInv PROVE ShownInOrder
  OBVIOUS
<1>1. DOMAIN stream = 1..Len(stream) /\ Len(received) \in Nat
  BY LenProperties DEF OrderInv, TypeOK, StreamTypeOK
<1>2. CASE Ordered(stream, 0, Len(received), received)
  <2>1. Twice(stream, Len(received), received)
    BY <1>1, <1>2, OrderedOnce
  <2>2. InSequence(stream)
    BY <1>1, <1>2 DEF Ordered, InSequence
  <2> QED BY <1>1, <2>1, <2>2 DEF ShownInOrder, Twice
<1>3. CASE cron_mode /\ Caught /\ Twice(stream, Len(received), received)
  BY <1>1, <1>3 DEF ShownInOrder, Twice, Caught
<1> QED BY <1>2, <1>3 DEF OrderInv, StreamOrdered

LEMMA BeforeTheEnd ==
  ASSUME OrderInv, phase \notin {"threw", "looped", "reported", "exited"}
  PROVE  Unbroken
BY DEF OrderInv, Breaking, Caught, Unbroken

LEMMA UnbrokenOrdered ==
  ASSUME OrderInv, Unbroken
  PROVE  Ordered(stream, 0, Len(received), received)
BY DEF OrderInv, StreamOrdered, Caught, Unbroken

LEMMA OrderInit == Init => OrderInv
<1> SUFFICES ASSUME Init PROVE OrderInv
  OBVIOUS
<1>1. Buffering /\ Breaking
  BY DEF Init, CronInit, Buffering, StillHeld, Breaking, Caught
<1>2. StreamOrdered
  BY OrderedEmpty DEF Init, StreamOrdered, Caught
<1> QED BY <1>1, <1>2, InitType DEF OrderInv

(* What is received is appended to what was, and numbered after it.        *)
LEMMA ReceiveProperties ==
  ASSUME TypeOK, NEW type \in OutputType, NEW len \in Nat
  PROVE  /\ Message(type, len) \in Seq(Unit) /\ Len(Message(type, len)) = len
         /\ Numbered(Message(type, len), Len(received))
         /\ \A i \in 1..len : Message(type, len)[i].type = type
         /\ Receive(type, len) =>
              /\ received' \in Seq(OutputType) /\ Len(received') = Len(received) + len
              /\ \A i \in 1..Len(received) : received'[i] = received[i]
              /\ \A i \in 1..len : received'[Len(received) + i] = type
<1>1. received \in Seq(OutputType) /\ Len(received) \in Nat
  BY LenProperties DEF TypeOK
<1>2. Message(type, len) \in Seq(Unit) /\ Len(Message(type, len)) = len
  <2>1. \A i \in 1..len : [type |-> type, seq |-> Len(received) + i] \in Unit
    BY <1>1 DEF Unit
  <2>2. Message(type, len) \in [1..len -> Unit]
    BY <2>1 DEF Message
  <2> QED BY <2>2, FunctionIsSeq
<1>3. \A i \in 1..len : /\ Message(type, len)[i].type = type
                        /\ Message(type, len)[i].seq = Len(received) + i
  BY DEF Message
<1>4. ASSUME Receive(type, len)
      PROVE  /\ received' \in Seq(OutputType) /\ Len(received') = Len(received) + len
             /\ \A i \in 1..Len(received) : received'[i] = received[i]
             /\ \A i \in 1..len : received'[Len(received) + i] = type
  <2> DEFINE more == [i \in 1..len |-> type]
  <2>1. more \in Seq(OutputType) /\ Len(more) = len /\ \A i \in 1..len : more[i] = type
    BY FunctionIsSeq
  <2> HIDE DEF more
  <2>2. received' = received \o more
    BY <1>4 DEF Receive, more
  <2>3. /\ received' \in Seq(OutputType) /\ Len(received') = Len(received) + len
        /\ \A i \in 1..(Len(received) + len) :
             received'[i] = IF i <= Len(received) THEN received[i] ELSE more[i - Len(received)]
    BY <1>1, <2>1, <2>2, ConcatProperties
  <2>4. ASSUME NEW i \in 1..len
        PROVE  received'[Len(received) + i] = type
    <3>1. /\ Len(received) + i \in 1..(Len(received) + len)
          /\ ~(Len(received) + i <= Len(received)) /\ (Len(received) + i) - Len(received) = i
      BY <1>1
    <3> QED BY <2>1, <2>3, <3>1
  <2>5. ASSUME NEW i \in 1..Len(received)
        PROVE  received'[i] = received[i]
    <3>1. i \in 1..(Len(received) + len) /\ i <= Len(received)
      BY <1>1
    <3> QED BY <2>3, <3>1
  <2> QED BY <2>3, <2>4, <2>5
<1> QED BY <1>2, <1>3, <1>4 DEF Numbered

(* What is read back is in order in itself. *)
LEMMA UnspooledInside ==
  ASSUME OrderInv, NEW r \in Unspooled
  PROVE  Ordered(r.out, 0, Len(received), received)
<1>0. spool \in Seq(Unit) /\ Len(received) \in Nat /\ Len(spool) \in Nat
  BY LenProperties DEF OrderInv, TypeOK, CronTypeOK
<1>1. CASE buffered
  <2>1. Numbered(spool, 0) /\ Len(spool) <= Len(received) /\ r \in Readback(spool)
        /\ \A i \in 1..Len(spool) : received[i] = "STDOUT"
    BY <1>1 DEF OrderInv, Buffering, StillHeld, Unspooled
  <2>2. Ordered(r.out, 0, Len(spool), received)
    BY <1>0, <2>1, ReadbackOrdered
  <2>3. 0 \in Nat /\ \A n \in 1..Len(spool) : received[n] = received[n]
    OBVIOUS
  <2> QED BY <1>0, <2>1, <2>2, <2>3, OrderedExtend
<1>2. CASE ~buffered
  BY <1>2, OrderedEmpty DEF Unspooled
<1> QED BY <1>1, <1>2

(* Reading back what is held keeps what is shown in order. *)
LEMMA UnspooledOrdered ==
  ASSUME OrderInv, Unbroken, NEW r \in Unspooled
  PROVE  Ordered(stream \o r.out, 0, Len(received), received)
<1>0. stream \in Seq(Shown)
  BY DEF OrderInv, TypeOK, StreamTypeOK
<1>1. CASE buffered
  <2>1. stream = <<>>
    BY <1>1 DEF OrderInv, Buffering, Unbroken
  <2>2. Ordered(r.out, 0, Len(received), received)
    BY UnspooledInside
  <2>3. stream \o r.out = r.out
    BY <2>1, <2>2, ConcatEmptySeq DEF Ordered
  <2> QED BY <2>2, <2>3
<1>2. CASE ~buffered
  <2>1. r.out = <<>>
    BY <1>2 DEF Unspooled
  <2>2. stream \o r.out = stream
    BY <1>0, <2>1, ConcatEmptySeq
  <2> QED BY <2>2, UnbrokenOrdered
<1> QED BY <1>1, <1>2

(* Nothing is shown, and more may have been received. *)
LEMMA ReceivedOrdered ==
  ASSUME TypeOK, NEW s, Ordered(s, 0, Len(received), received),
         NEW type \in OutputType, NEW len \in Nat, Receive(type, len)
  PROVE  Ordered(s, 0, Len(received'), received')
<1>1. Len(received) \in Nat /\ Len(received') = Len(received) + len
      /\ \A i \in 1..Len(received) : received'[i] = received[i]
  BY ReceiveProperties, LenProperties DEF TypeOK
<1> QED BY <1>1, OrderedExtend

(* A message written after everything before it. *)
LEMMA WrittenOrdered ==
  ASSUME TypeOK, NEW s, Ordered(s, 0, Len(received), received),
         NEW type \in OutputType, NEW len \in Nat, Receive(type, len),
         NEW w \in StreamResults(type, Message(type, len))
  PROVE  Ordered(s \o w.out, 0, Len(received'), received')
<1> DEFINE units == Message(type, len)
<1>0. Len(received) \in Nat /\ Len(received) + len \in Nat /\ Len(received) <= Len(received) + len
  BY LenProperties DEF TypeOK
<1>1. /\ units \in Seq(Unit) /\ Len(units) = len /\ Numbered(units, Len(received))
      /\ Len(received') = Len(received) + len
      /\ \A i \in 1..Len(received) : received'[i] = received[i]
      /\ \A i \in 1..len : received'[Len(received) + i] = type
  BY ReceiveProperties
<1>2. w \in StreamResults(type, units)
  OBVIOUS
<1> HIDE DEF units
<1>3. Ordered(s, 0, Len(received), received')
  <2>1. Len(received) <= Len(received) /\ 0 \in Nat
    BY <1>0
  <2> QED BY <1>0, <1>1, <2>1, OrderedExtend
<1>4. Ordered(w.out, Len(received), Len(received) + Len(units), received')
  <2>1. \A i \in 1..Len(units) : received'[Len(received) + i] = type
    BY <1>1
  <2> QED BY <1>0, <1>1, <1>2, <2>1, StreamResultsOrdered
<1>5. Ordered(s \o w.out, 0, Len(received) + len, received')
  BY <1>0, <1>1, <1>3, <1>4, OrderedConcat
<1> QED BY <1>1, <1>5

(* More standard output leaves all of it standard output. *)
LEMMA ReceivedStdout ==
  ASSUME TypeOK, \A i \in 1..Len(received) : received[i] = "STDOUT",
         NEW len \in Nat, Receive("STDOUT", len)
  PROVE  \A i \in 1..Len(received') : received'[i] = "STDOUT"
<1>0. "STDOUT" \in OutputType /\ Len(received) \in Nat
  BY LenProperties DEF OutputType, TypeOK
<1>1. /\ Len(received') = Len(received) + len
      /\ \A i \in 1..Len(received) : received'[i] = received[i]
      /\ \A i \in 1..len : received'[Len(received) + i] = "STDOUT"
  BY <1>0, ReceiveProperties
<1> SUFFICES ASSUME NEW i \in 1..Len(received') PROVE received'[i] = "STDOUT"
  OBVIOUS
<1>2. CASE i <= Len(received)
  BY <1>0, <1>1, <1>2
<1>3. CASE i > Len(received)
  <2>1. i - Len(received) \in 1..len /\ Len(received) + (i - Len(received)) = i
    BY <1>0, <1>1, <1>3
  <2> QED BY <1>1, <2>1
<1> QED BY <1>0, <1>1, <1>2, <1>3

(* What the buffer file took of a message, then the rest of it.            *)
LEMMA SpoolFailsOrdered ==
  ASSUME OrderInv, Unbroken, NEW len \in Nat, Receive("STDOUT", len), NEW ok,
         CronSpoolFails("STDOUT", Message("STDOUT", len), ok)
  PROVE  Ordered(stream', 0, Len(received'), received')
<1> DEFINE units == Message("STDOUT", len)
           base == Len(received)
<1>0. "STDOUT" \in OutputType /\ TypeOK /\ spool \in Seq(Unit) /\ base \in Nat
  BY LenProperties DEF OutputType, OrderInv, TypeOK, CronTypeOK
<1>1. units \in Seq(Unit) /\ Len(units) = len /\ Numbered(units, base) /\ Len(received') = base + len
  BY <1>0, ReceiveProperties
<1>2. stream = <<>> /\ Len(spool) = base /\ Numbered(spool, 0)
  BY DEF CronSpoolFails, OrderInv, Buffering, StillHeld, Unbroken
<1>3. \A i \in 1..(base + len) : received'[i] = "STDOUT"
  BY <1>0, <1>1, <1>2, ReceivedStdout DEF CronSpoolFails, OrderInv, Buffering, StillHeld
<1>4. PICK ret \in WriteReturns(Len(units)) \ {Len(units)} :
        \E r \in Readback(spool \o SubSeq(units, 1, ret)) :
        \E w \in StreamResults("STDOUT", SubSeq(units, IF ret < 0 THEN 1 ELSE ret + 1, Len(units))) :
          stream' = stream \o r.out \o w.out
  BY DEF CronSpoolFails
<1> HIDE DEF units, base
<1> DEFINE written == IF ret < 0 THEN 0 ELSE ret
           first == IF ret < 0 THEN 1 ELSE ret + 1
           taken == SubSeq(units, 1, ret)
           held == spool \o taken
           rest == SubSeq(units, first, Len(units))
<1>5. ret \in -1..Len(units) /\ ret # len
  BY <1>1 DEF WriteReturns
<1>6. /\ written \in Nat /\ written <= len /\ first = written + 1 /\ first \in 1..(Len(units) + 1)
      /\ base + written \in Nat
  <2>1. ret \in Int /\ ret < len /\ Len(units) = len
    BY <1>1, <1>5
  <2>2. written \in Nat /\ written <= len /\ first = written + 1
    BY <2>1
  <2> HIDE DEF written, first
  <2> QED BY <1>0, <2>1, <2>2
<1>7. taken \in Seq(Unit) /\ Len(taken) = written /\ Numbered(taken, base)
  BY <1>0, <1>1, <1>5, NumberedTaken
<1>8. rest \in Seq(Unit) /\ Len(rest) = Len(units) - first + 1 /\ Numbered(rest, base + first - 1)
  BY <1>0, <1>1, <1>6, NumberedRest
<1>9. PICK r \in Readback(held), w \in StreamResults("STDOUT", rest) : stream' = stream \o r.out \o w.out
  BY <1>4
<1> HIDE DEF written, first, taken, rest
<1>10. held \in Seq(Unit) /\ Len(held) = base + written /\ Numbered(held, 0)
  BY <1>0, <1>2, <1>7, NumberedConcat
<1> HIDE DEF held
<1>11. Len(rest) = len - written /\ Numbered(rest, base + written)
  <2>1. base + first - 1 = base + written /\ Len(units) - first + 1 = len - written
    BY <1>0, <1>1, <1>6
  <2> QED BY <1>8, <2>1
<1>12. Ordered(r.out, 0, base + written, received')
  <2>1. \A i \in 1..Len(held) : received'[i] = "STDOUT"
    BY <1>0, <1>1, <1>3, <1>6, <1>10
  <2>2. Ordered(r.out, 0, Len(held), received')
    BY <1>10, <2>1, ReadbackOrdered
  <2> QED BY <1>10, <2>2
<1>13. Ordered(w.out, base + written, base + len, received')
  <2>1. \A i \in 1..Len(rest) : received'[base + written + i] = "STDOUT"
    <3>1. \A i \in 1..Len(rest) : base + written + i \in 1..(base + len)
      BY <1>0, <1>1, <1>6, <1>11
    <3> QED BY <1>3, <3>1
  <2>2. base + written + Len(rest) = base + len
    BY <1>0, <1>1, <1>6, <1>11
  <2>3. Ordered(w.out, base + written, base + written + Len(rest), received')
    BY <1>0, <1>6, <1>8, <1>11, <2>1, StreamResultsOrdered
  <2> QED BY <2>2, <2>3
<1>14. Ordered(r.out \o w.out, 0, base + len, received')
  <2>1. 0 <= base + written /\ base + written <= base + len /\ base + len \in Nat
    BY <1>0, <1>6
  <2> QED BY <1>6, <1>12, <1>13, <2>1, OrderedConcat
<1>15. stream' = r.out \o w.out
  BY <1>2, <1>9, <1>12, <1>13, ConcatEmptySeq DEF Ordered
<1> QED BY <1>1, <1>14, <1>15

(* What the first output does with a message. *)
LEMMA FirstOutputOrdered ==
  ASSUME OrderInv, Unbroken, NEW type \in OutputType, NEW len \in Nat, Receive(type, len),
         NEW ok, FirstOutput(type, Message(type, len), ok)
  PROVE  /\ Ordered(stream', 0, Len(received'), received')
         /\ buffered' =>
              /\ cron_mode /\ stream' = <<>>
              /\ Len(spool') = Len(received') /\ Numbered(spool', 0)
              /\ \A i \in 1..Len(received') : received'[i] = "STDOUT"
<1>0. TypeOK /\ Len(received) \in Nat /\ spool \in Seq(Unit)
  BY LenProperties DEF OrderInv, TypeOK, CronTypeOK
<1> DEFINE units == Message(type, len)
<1>1. CASE ~cron_mode
  <2>1. StreamOnly(type, units, ok) /\ UNCHANGED buffered
    BY <1>1 DEF FirstOutput
  <2>2. PICK w \in StreamResults(type, units) : stream' = stream \o w.out
    BY <2>1 DEF StreamOnly
  <2>3. Ordered(stream', 0, Len(received'), received')
    BY <1>0, <2>2, WrittenOrdered, UnbrokenOrdered
  <2> QED BY <1>1, <2>1, <2>3 DEF OrderInv, Buffering, StillHeld
<1>2. CASE cron_mode /\ CronSpools(type, units, ok)
  <2>1. buffered /\ type = "STDOUT" /\ stream' = stream /\ spool' = spool \o units
    BY <1>2 DEF CronSpools
  <2>2. Ordered(stream', 0, Len(received'), received')
    BY <1>0, <2>1, ReceivedOrdered, UnbrokenOrdered
  <2>3. /\ Len(spool) = Len(received) /\ Numbered(spool, 0)
        /\ units \in Seq(Unit) /\ Len(units) = len /\ Numbered(units, Len(received))
        /\ Len(received') = Len(received) + len
    BY <1>0, <2>1, ReceiveProperties DEF OrderInv, Buffering, StillHeld, Unbroken
  <2> HIDE DEF units
  <2>4. Len(spool') = Len(received') /\ Numbered(spool', 0)
    BY <1>0, <2>1, <2>3, NumberedConcat
  <2>5. \A i \in 1..Len(received') : received'[i] = "STDOUT"
    BY <1>0, <2>1, <2>3, ReceivedStdout DEF OrderInv, Buffering, StillHeld
  <2>6. stream' = <<>>
    BY <2>1 DEF OrderInv, Buffering, Unbroken
  <2> QED BY <1>2, <2>2, <2>4, <2>5, <2>6 DEF Numbered
<1>3. CASE cron_mode /\ CronSpoolFails(type, units, ok)
  <2>1. type = "STDOUT" /\ ~buffered'
    BY <1>3 DEF CronSpoolFails, BufferClosed
  <2> QED BY <1>3, <2>1, SpoolFailsOrdered
<1>4. CASE cron_mode /\ CronShows(type, units, ok)
  <2>1. PICK r \in Unspooled, w \in StreamResults(type, units) : stream' = stream \o r.out \o w.out
    BY <1>4 DEF CronShows
  <2>2. Ordered(stream \o r.out, 0, Len(received), received)
    BY UnspooledOrdered
  <2>3. Ordered(stream', 0, Len(received'), received')
    BY <1>0, <2>1, <2>2, WrittenOrdered
  <2>4. ~buffered'
    BY <1>4 DEF CronShows, BufferClosed
  <2> QED BY <2>3, <2>4
<1> QED BY <1>1, <1>2, <1>3, <1>4 DEF FirstOutput, CronOutput

(* An exception while the buffer file is in use shows some of it at most.  *)
LEMMA ThrownOrdered ==
  ASSUME stream = <<>>, NEW held \in Seq(Unit), Numbered(held, 0),
         received' \in Seq(OutputType), Len(held) <= Len(received'),
         \A i \in 1..Len(held) : received'[i] = "STDOUT",
         SpoolThrows(held) \/ UnspoolThrows(held)
  PROVE  /\ Ordered(stream', 0, Len(received'), received')
         /\ spool' = held
<1>1. CASE SpoolThrows(held)
  BY <1>1, OrderedEmpty DEF SpoolThrows
<1>2. CASE UnspoolThrows(held)
  <2>1. PICK r \in Readback(held) : stream' = stream \o r.out
    BY <1>2 DEF UnspoolThrows
  <2>2. Ordered(r.out, 0, Len(held), received')
    BY ReadbackOrdered
  <2>3. stream' = r.out
    BY <2>1, <2>2, ConcatEmptySeq DEF Ordered
  <2>4. 0 \in Nat /\ Len(held) \in Nat /\ Len(received') \in Nat
    BY LenProperties
  <2>5. \A n \in 1..Len(held) : received'[n] = received'[n]
    OBVIOUS
  <2>6. Ordered(r.out, 0, Len(received'), received')
    BY <2>2, <2>4, <2>5, OrderedExtend
  <2> QED BY <1>2, <2>3, <2>6 DEF UnspoolThrows
<1> QED BY <1>1, <1>2

LEMMA CronThrowsOrdered ==
  ASSUME OrderInv, Unbroken, cron_mode' = cron_mode,
         NEW type \in OutputType, NEW len \in Nat, Receive(type, len),
         CronOutputThrows(type, Message(type, len))
  PROVE  Ordered(stream', 0, Len(received'), received') /\ StillHeld'
<1> DEFINE units == Message(type, len)
           base == Len(received)
<1>0. TypeOK /\ base \in Nat /\ spool \in Seq(Unit)
  BY LenProperties DEF OrderInv, TypeOK, CronTypeOK
<1>1. /\ units \in Seq(Unit) /\ Len(units) = len /\ Numbered(units, base)
      /\ received' \in Seq(OutputType) /\ Len(received') = base + len
      /\ \A i \in 1..base : received'[i] = received[i]
  BY <1>0, ReceiveProperties
<1>2. CronOutputThrows(type, units)
  OBVIOUS
<1>3. buffered /\ buffered' = buffered
  BY <1>2 DEF CronOutputThrows, SpoolThrows, UnspoolThrows
<1>4. /\ cron_mode /\ stream = <<>> /\ Len(spool) = base /\ Numbered(spool, 0)
      /\ \A i \in 1..base : received[i] = "STDOUT"
  BY <1>3 DEF OrderInv, Buffering, StillHeld, Unbroken
<1> HIDE DEF units
<1>5. ASSUME NEW held \in Seq(Unit), Numbered(held, 0), Len(held) <= Len(received'),
             \A i \in 1..Len(held) : received'[i] = "STDOUT",
             SpoolThrows(held) \/ UnspoolThrows(held)
      PROVE  Ordered(stream', 0, Len(received'), received') /\ StillHeld'
  <2>1. Ordered(stream', 0, Len(received'), received') /\ spool' = held
    BY <1>1, <1>4, <1>5, ThrownOrdered
  <2> QED BY <1>4, <1>5, <2>1 DEF StillHeld, Numbered
<1>6. CASE type = "STDERR" /\ UnspoolThrows(spool)
  <2>1. Len(spool) <= Len(received') /\ \A i \in 1..Len(spool) : received'[i] = "STDOUT"
    BY <1>0, <1>1, <1>4
  <2> QED BY <1>0, <1>4, <1>5, <1>6, <2>1
<1>7. ASSUME type = "STDOUT", NEW ret \in WriteReturns(Len(units)) \ {Len(units)},
             SpoolThrows(spool \o SubSeq(units, 1, ret)) \/ UnspoolThrows(spool \o SubSeq(units, 1, ret))
      PROVE  Ordered(stream', 0, Len(received'), received') /\ StillHeld'
  <2> DEFINE taken == SubSeq(units, 1, ret)
             held == spool \o taken
  <2>1. ret \in -1..Len(units)
    BY DEF WriteReturns
  <2>2. taken \in Seq(Unit) /\ Len(taken) = (IF ret < 0 THEN 0 ELSE ret) /\ Numbered(taken, base)
    BY <1>0, <1>1, <2>1, NumberedTaken
  <2>3. SpoolThrows(held) \/ UnspoolThrows(held)
    BY <1>7
  <2> HIDE DEF taken
  <2>4. held \in Seq(Unit) /\ Len(held) = base + Len(taken) /\ Numbered(held, 0)
    BY <1>0, <1>4, <2>2, NumberedConcat
  <2> HIDE DEF held
  <2>5. Len(taken) <= len
    BY <1>1, <2>1, <2>2
  <2>6. Len(taken) \in Nat /\ Len(held) <= Len(received')
    BY <1>0, <1>1, <2>1, <2>2, <2>4, <2>5
  <2>7. \A i \in 1..Len(received') : received'[i] = "STDOUT"
    BY <1>0, <1>4, <1>7, ReceivedStdout
  <2>8. \A i \in 1..Len(held) : received'[i] = "STDOUT"
    BY <1>0, <1>1, <2>4, <2>6, <2>7
  <2> QED BY <1>5, <2>3, <2>4, <2>6, <2>8
<1> QED BY <1>2, <1>6, <1>7 DEF CronOutputThrows

(* Errors reveal what is held, or change nothing that is shown.            *)
LEMMA ErrorOrdered ==
  ASSUME OrderInv, Unbroken, NEW type \in ErrorType, DispatchError(type),
         type \notin {"WRITE_OUTPUT", "MAIN_LOOP_EXCEPTION"}
  PROVE  /\ Ordered(stream', 0, Len(received), received) /\ ~buffered'
         /\ "EXCEPTION" \notin alarms'
<1>0. "EXCEPTION" \notin alarms'
  BY DEF DispatchError, Alarm, Unbroken
<1>1. CASE cron_mode
  <2>1. Reveal
    BY <1>1 DEF DispatchError, CronError
  <2>2. PICK r \in Unspooled : stream' = stream \o r.out
    BY <2>1 DEF Reveal
  <2> QED BY <1>0, <2>1, <2>2, UnspooledOrdered DEF Reveal, BufferClosed
<1>2. CASE ~cron_mode
  BY <1>0, <1>2, UnbrokenOrdered DEF DispatchError, cronVars, OrderInv, Buffering, StillHeld
<1> QED BY <1>1, <1>2

(* The readback begins again after an exception. *)
LEMMA CaughtOrdered ==
  ASSUME OrderInv, phase = "threw", DispatchError("MAIN_LOOP_EXCEPTION")
  PROVE  /\ "EXCEPTION" \in alarms' /\ ~buffered'
         /\ IF cron_mode
            THEN Twice(stream', Len(received), received)
            ELSE Ordered(stream', 0, Len(received), received)
<1>0. Ordered(stream, 0, Len(received), received) /\ Len(received) \in Nat
  BY LenProperties DEF OrderInv, StreamOrdered, Caught, TypeOK
<1>1. "EXCEPTION" \in alarms'
  BY DEF DispatchError, Alarm
<1>2. CASE cron_mode
  <2>1. Reveal
    BY <1>2 DEF DispatchError, CronError
  <2>2. PICK r \in Unspooled : stream' = stream \o r.out
    BY <2>1 DEF Reveal
  <2>3. Twice(stream', Len(received), received)
    BY <1>0, <2>2, UnspooledInside, OrderedTwice
  <2> QED BY <1>1, <1>2, <2>1, <2>3 DEF Reveal, BufferClosed
<1>3. CASE ~cron_mode
  BY <1>0, <1>1, <1>3 DEF DispatchError, cronVars, OrderInv, Buffering, StillHeld
<1> QED BY <1>2, <1>3

LEMMA OrderNext == OrderInv /\ [Next]_vars => OrderInv'
<1> SUFFICES ASSUME OrderInv, [Next]_vars PROVE OrderInv'
  OBVIOUS
<1>0. TypeOK /\ TypeOK' /\ Len(received) \in Nat
  BY NextType, LenProperties DEF OrderInv, TypeOK
(* Nothing is held back any more. *)
<1>a. ASSUME Ordered(stream', 0, Len(received'), received'), ~buffered',
             phase' \notin {"open", "threw"}, "EXCEPTION" \notin alarms'
      PROVE  OrderInv'
  BY <1>0, <1>a DEF OrderInv, StreamOrdered, Buffering, StillHeld, Breaking, Caught
(* Neither what is received, what is held nor what is shown changes.       *)
<1>b. ASSUME UNCHANGED <<stream, spool, buffered, received, cron_mode>>,
             phase' = "open" => phase = "open", phase # "threw", phase' # "threw",
             "EXCEPTION" \in alarms' <=> "EXCEPTION" \in alarms,
             Caught => phase' \in {"looped", "reported", "exited"}
      PROVE  OrderInv'
  <2>0. Caught' <=> Caught
    BY <1>b DEF Caught
  <2>1. StreamOrdered'
    BY <1>b, <2>0 DEF OrderInv, StreamOrdered
  <2>2. Buffering'
    BY <1>b DEF OrderInv, Buffering, StillHeld
  <2>3. Breaking'
    BY <1>b, <2>0 DEF OrderInv, Breaking
  <2> QED BY <1>0, <2>1, <2>2, <2>3 DEF OrderInv
(* An exception leaves what is shown in order. *)
<1>c. ASSUME phase' = "threw", "EXCEPTION" \in alarms', StillHeld',
             Ordered(stream', 0, Len(received'), received')
      PROVE  OrderInv'
  BY <1>0, <1>c DEF OrderInv, StreamOrdered, Buffering, Breaking, Caught
<1>d. ASSUME phase \in {"open", "openFailed", "setup", "execute", "forked", "loop"}
      PROVE  Unbroken /\ Ordered(stream, 0, Len(received), received) /\ "EXCEPTION" \notin alarms
  BY <1>d, BeforeTheEnd, UnbrokenOrdered DEF Unbroken
<1>1. CASE Open
  <2>1. stream = <<>> /\ spool = <<>> /\ received = <<>> /\ Unbroken
    BY <1>1, <1>d DEF Open, OrderInv, Buffering
  <2>2. /\ stream' = stream /\ spool' = spool /\ received' = received
        /\ phase' \notin {"open", "threw"} /\ alarms' = alarms
        /\ cron_mode' = cron_mode /\ (buffered' => cron_mode)
    BY <1>1 DEF Open, FirstOpen, CronOpen, StreamOpen, OrderInv, Buffering, StillHeld
  <2>3. ~Caught'
    BY <2>1, <2>2 DEF Caught, Unbroken
  <2>4. StreamOrdered' /\ Breaking'
    BY <2>1, <2>2, <2>3, UnbrokenOrdered DEF StreamOrdered, Breaking
  <2>5. Numbered(<<>>, 0)
    BY EmptySeq DEF Numbered
  <2>6. Buffering'
    BY EmptySeq, <2>1, <2>2, <2>5 DEF Buffering, StillHeld
  <2> QED BY <1>0, <2>4, <2>6 DEF OrderInv
<1>2. CASE OpenFails
  <2>1. Ordered(stream', 0, Len(received), received) /\ ~buffered' /\ "EXCEPTION" \notin alarms'
    BY <1>2, <1>d, ErrorOrdered DEF OpenFails, ErrorType
  <2> QED BY <1>2, <1>a, <2>1 DEF OpenFails
<1>3. CASE SetupFails
  <2>1. PICK type \in {"OPEN_INPUT", "SIGNAL_HANDLER"} : DispatchError(type)
    BY <1>3 DEF SetupFails
  <2>2. Ordered(stream', 0, Len(received), received) /\ ~buffered' /\ "EXCEPTION" \notin alarms'
    BY <1>3, <1>d, <2>1, ErrorOrdered DEF SetupFails, ErrorType
  <2> QED BY <1>3, <1>a, <2>2 DEF SetupFails
<1>4. CASE ForkFails
  <2>1. "EXCEPTION" \notin alarms' /\ "EXCEPTION" \notin alarms
    BY <1>4, <1>d DEF ForkFails, Alarm
  <2> QED BY <1>4, <1>b, <2>1 DEF ForkFails, cronVars, Caught
<1>5. CASE ForkSucceeds \/ StartLoop \/ LoopEnds \/ Exit
  BY <1>5, <1>b, <1>d DEF ForkSucceeds, StartLoop, LoopEnds, Exit, cronVars, Caught
<1>6. CASE CloseFails
  <2>1. Ordered(stream', 0, Len(received), received) /\ ~buffered' /\ "EXCEPTION" \notin alarms'
    BY <1>6, <1>d, ErrorOrdered DEF CloseFails, ErrorType
  <2> QED BY <1>6, <1>a, <2>1 DEF CloseFails
<1>7. ASSUME NEW type \in OutputType, NEW len \in 0..MaxLength, Output(type, len)
      PROVE  OrderInv'
  <2>0. Unbroken /\ "EXCEPTION" \notin alarms'
    BY <1>7, <1>d DEF Output
  <2>1. len \in Nat
    BY DispatchAssumption
  <2>2. PICK ok \in BOOLEAN : FirstOutput(type, Message(type, len), ok)
    BY <1>7 DEF Output, DispatchOutput
  <2>3. Receive(type, len) /\ phase' = "loop" /\ cron_mode' = cron_mode
    BY <1>7 DEF Output
  <2>4. /\ Ordered(stream', 0, Len(received'), received')
        /\ buffered' =>
             /\ cron_mode /\ stream' = <<>>
             /\ Len(spool') = Len(received') /\ Numbered(spool', 0)
             /\ \A i \in 1..Len(received') : received'[i] = "STDOUT"
    BY <2>0, <2>1, <2>2, <2>3, FirstOutputOrdered
  <2>5. Len(received') \in Nat
    BY <1>0, LenProperties DEF TypeOK
  <2>6. ~Caught'
    BY <2>0 DEF Caught
  <2>7. StillHeld'
    BY <2>3, <2>4, <2>5 DEF StillHeld
  <2> QED BY <1>0, <2>3, <2>4, <2>6, <2>7 DEF OrderInv, StreamOrdered, Buffering, Breaking
<1>8. ASSUME NEW type \in OutputType, NEW len \in 0..MaxLength, OutputThrows(type, len)
      PROVE  OrderInv'
  <2> DEFINE units == Message(type, len)
  <2>1. len \in Nat
    BY DispatchAssumption
  <2>2. /\ Receive(type, len) /\ phase = "loop" /\ phase' = "threw" /\ cron_mode' = cron_mode
        /\ "EXCEPTION" \in alarms'
    BY <1>8 DEF OutputThrows, Throw
  <2>3. Unbroken /\ Ordered(stream, 0, Len(received), received)
    BY <1>d, <2>2
  <2>4. /\ received' \in Seq(OutputType) /\ Len(received') = Len(received) + len
        /\ \A i \in 1..Len(received) : received'[i] = received[i]
    BY <1>0, <2>1, <2>2, ReceiveProperties
  <2>5. CASE UNCHANGED cronVars
    <3>1. Ordered(stream', 0, Len(received'), received')
      BY <1>0, <2>1, <2>2, <2>3, <2>5, ReceivedOrdered DEF cronVars
    <3>2. Len(spool) \in Nat /\ (buffered => Len(spool) <= Len(received))
      BY LenProperties DEF OrderInv, Buffering, StillHeld, TypeOK, CronTypeOK
    <3>3. buffered => Len(spool) <= Len(received') /\ \A i \in 1..Len(spool) : received'[i] = received[i]
      BY <1>0, <2>1, <2>4, <3>2
    <3>4. StillHeld'
      BY <2>2, <2>5, <3>3 DEF OrderInv, Buffering, StillHeld, cronVars
    <3> QED BY <1>c, <2>2, <3>1, <3>4
  <2>6. CASE CronOutputThrows(type, units)
    BY <1>c, <2>1, <2>2, <2>3, <2>6, CronThrowsOrdered
  <2>7. ASSUME NEW ok \in BOOLEAN, FirstOutput(type, units, ok)
        PROVE  OrderInv'
    <3>1. /\ Ordered(stream', 0, Len(received'), received')
          /\ buffered' =>
               /\ cron_mode /\ stream' = <<>>
               /\ Len(spool') = Len(received') /\ Numbered(spool', 0)
               /\ \A i \in 1..Len(received') : received'[i] = "STDOUT"
      BY <2>1, <2>2, <2>3, <2>7, FirstOutputOrdered
    <3>2. Len(received') \in Nat
      BY <2>4, LenProperties
    <3>3. StillHeld'
      BY <2>2, <3>1, <3>2 DEF StillHeld
    <3> QED BY <1>c, <2>2, <3>1, <3>3
  <2> QED BY <1>8, <2>5, <2>6, <2>7 DEF OutputThrows, DispatchOutput
<1>9. ASSUME NEW status, NEW signum, CommandTerminated(status, signum)
      PROVE  OrderInv'
  BY <1>9, <1>b, <1>d DEF CommandTerminated, CronTerminated, cronVars, Caught
(* Nothing is written, or what is held is read back in vain.               *)
<1>e. ASSUME Throw, UNCHANGED received, "EXCEPTION" \in alarms',
             UNCHANGED <<stream, spool, buffered>> \/ UnspoolThrows(spool)
      PROVE  OrderInv'
  <2>1. phase = "loop" /\ phase' = "threw" /\ cron_mode' = cron_mode
    BY <1>e DEF Throw
  <2>2. Unbroken /\ Ordered(stream, 0, Len(received), received)
    BY <1>d, <2>1
  <2>3. CASE UNCHANGED <<stream, spool, buffered>>
    BY <1>c, <1>e, <2>1, <2>2, <2>3 DEF OrderInv, Buffering, StillHeld
  <2>4. CASE UnspoolThrows(spool)
    <3>1. buffered /\ buffered'
      BY <2>4 DEF UnspoolThrows
    <3>2. /\ stream = <<>> /\ Numbered(spool, 0) /\ Len(spool) <= Len(received) /\ cron_mode
          /\ \A i \in 1..Len(spool) : received[i] = "STDOUT"
      BY <2>2, <3>1 DEF OrderInv, Buffering, StillHeld, Unbroken
    <3>3. spool \in Seq(Unit) /\ received \in Seq(OutputType)
      BY <1>0 DEF TypeOK, CronTypeOK
    <3>4. Ordered(stream', 0, Len(received'), received') /\ spool' = spool
      BY <1>e, <2>4, <3>2, <3>3, ThrownOrdered
    <3>5. StillHeld'
      BY <1>e, <2>1, <3>2, <3>4 DEF StillHeld, Numbered
    <3> QED BY <1>c, <1>e, <2>1, <3>4, <3>5
  <2> QED BY <1>e, <2>3, <2>4
<1>f. ASSUME Unbroken, Reveal
      PROVE  Ordered(stream', 0, Len(received), received) /\ ~buffered'
  <2>1. PICK r \in Unspooled : stream' = stream \o r.out
    BY <1>f DEF Reveal
  <2> QED BY <1>f, <2>1, UnspooledOrdered DEF Reveal, BufferClosed
<1>10. ASSUME NEW signum, DteeInterrupted(signum)
       PROVE  OrderInv'
  <2>1. CASE cron_mode
    <3>1. Reveal /\ Unbroken /\ "EXCEPTION" \notin alarms
      BY <1>10, <1>d, <2>1 DEF DteeInterrupted, CronInterrupted
    <3>2. Ordered(stream', 0, Len(received), received) /\ ~buffered'
      BY <1>f, <3>1
    <3> QED BY <1>10, <1>a, <3>1, <3>2 DEF DteeInterrupted
  <2>2. CASE ~cron_mode
    BY <1>10, <1>b, <1>d, <2>2 DEF DteeInterrupted, cronVars, Caught
  <2> QED BY <2>1, <2>2
<1>11. CASE ReadFails
  <2>1. Ordered(stream', 0, Len(received), received) /\ ~buffered' /\ "EXCEPTION" \notin alarms'
    BY <1>11, <1>d, ErrorOrdered DEF ReadFails, ErrorType
  <2> QED BY <1>11, <1>a, <2>1 DEF ReadFails
<1>12. CASE Report
  <2>0. phase = "looped" /\ phase' = "reported" /\ UNCHANGED <<received, alarms, cron_mode>>
    BY <1>12 DEF Report
  <2>1. CASE UNCHANGED cronVars
    BY <1>b, <2>0, <2>1 DEF cronVars
  <2>2. CASE cron_mode /\ ~(result.terminated /\ ~report)
    <3>1. PICK r \in Unspooled : stream' = stream \o r.out
      BY <1>12, <2>2 DEF Report, CronReport
    <3>2. BufferClosed
      BY <1>12, <2>2 DEF Report, CronReport
    <3>3. CASE Unbroken
      <4>1. Ordered(stream', 0, Len(received), received)
        BY <3>1, <3>3, UnspooledOrdered
      <4> QED BY <1>a, <2>0, <3>2, <3>3, <4>1 DEF BufferClosed, Unbroken
    <3>4. CASE Caught
      <4>1. ~buffered /\ Twice(stream, Len(received), received)
        BY <2>2, <3>4 DEF OrderInv, Breaking, StreamOrdered
      <4>2. stream \in Seq(Shown)
        BY <1>0 DEF TypeOK, StreamTypeOK
      <4>3. stream' = stream
        BY <3>1, <4>1, <4>2, ConcatEmptySeq DEF Unspooled
      <4>4. StreamOrdered' /\ Breaking' /\ Buffering'
        BY <2>0, <2>2, <3>2, <3>4, <4>1, <4>3
           DEF StreamOrdered, Breaking, Buffering, StillHeld, Caught, BufferClosed
      <4> QED BY <1>0, <4>4 DEF OrderInv
    <3> QED BY <2>0, <3>3, <3>4 DEF Unbroken, Caught
  <2> QED BY <1>12, <2>1, <2>2 DEF Report, CronReport
<1>13. CASE UNCHANGED vars
  BY <1>13 DEF vars, cronVars, OrderInv, StreamOrdered, Buffering, StillHeld, Breaking, Caught,
     TypeOK, StreamTypeOK, CronTypeOK, FilesTypeOK, fileVars
<1>14. CASE LoopThrows
  BY <1>14, <1>e DEF LoopThrows, cronVars
<1>15. CASE ReadFailsThrows
  BY <1>15, <1>e DEF ReadFailsThrows, CronErrorThrows
<1>16. ASSUME NEW status, NEW signum, TerminatedThrows(status, signum)
       PROVE  OrderInv'
  BY <1>16, <1>e DEF TerminatedThrows, CronTerminated, cronVars
<1>17. ASSUME NEW signum, InterruptedThrows(signum)
       PROVE  OrderInv'
  <2>1. CASE cron_mode /\ CronInterrupted(signum)
    <3>1. /\ Reveal /\ Unbroken /\ phase' = "threw" /\ UNCHANGED <<received, cron_mode>>
          /\ "EXCEPTION" \in alarms'
      BY <1>17, <1>d, <2>1 DEF InterruptedThrows, CronInterrupted, Throw
    <3>2. Ordered(stream', 0, Len(received), received) /\ ~buffered'
      BY <1>f, <3>1
    <3> QED BY <1>c, <3>1, <3>2 DEF StillHeld
  <2>2. CASE cron_mode /\ CronInterruptedThrows(signum)
    BY <1>17, <1>e, <2>2 DEF InterruptedThrows, CronInterruptedThrows
  <2>3. CASE ~cron_mode
    BY <1>17, <1>e, <2>3 DEF InterruptedThrows, cronVars
  <2> QED BY <1>17, <2>1, <2>2, <2>3 DEF InterruptedThrows
<1>18. CASE MainLoopException
  <2>1. /\ phase = "threw" /\ phase' = "looped" /\ DispatchError("MAIN_LOOP_EXCEPTION")
        /\ UNCHANGED <<received, cron_mode>>
    BY <1>18 DEF MainLoopException
  <2>2. /\ "EXCEPTION" \in alarms' /\ ~buffered'
        /\ IF cron_mode
           THEN Twice(stream', Len(received), received)
           ELSE Ordered(stream', 0, Len(received), received)
    BY <2>1, CaughtOrdered
  <2> QED BY <1>0, <2>1, <2>2 DEF OrderInv, StreamOrdered, Buffering, StillHeld, Breaking, Caught
<1> QED
  BY <1>1, <1>2, <1>3, <1>4, <1>5, <1>6, <1>7, <1>8, <1>9, <1>10, <1>11, <1>12, <1>13,
     <1>14, <1>15, <1>16, <1>17, <1>18 DEF Next, Done

(* The original outputs show what the command wrote in the order it wrote  *)
(* it, whatever was held back and whatever StreamOutput, Cron and the      *)
(* buffer file lost on the way; after an exception cron mode may show it   *)
(* from its beginning once more.                                           *)
THEOREM ShownOrdered == Spec => []ShownInOrder
<1>1. Spec => []OrderInv
  BY OrderInit, OrderNext, PTL DEF Spec
<1> QED BY <1>1, OrderImpliesShown, PTL
------------------------------------------------------------------------------
AgreeInv == TypeOK /\ ReportAgrees

LEMMA AgreeNext == AgreeInv /\ [Next]_vars => AgreeInv'
<1> SUFFICES ASSUME TypeOK, ReportAgrees, [Next]_vars PROVE AgreeInv'
  BY DEF AgreeInv
<1>0. TypeOK'
  BY NextType
<1>a. ASSUME cron_mode' = cron_mode, phase' # "execute" => phase # "execute",
             cron_mode /\ phase # "execute" /\ phase' # "execute" =>
               (result = process => result' = process')
      PROVE  AgreeInv'
  BY <1>0, <1>a DEF AgreeInv, ReportAgrees
(* Both records get the same error. *)
<1>b. ASSUME NEW type, DispatchError(type), cron_mode
      PROVE  result = process => result' = process'
  BY <1>b DEF DispatchError, CronError
<1>1. CASE Open
  BY <1>1, <1>a DEF Open, FirstOpen, CronOpen
<1>2. CASE OpenFails
  BY <1>2, <1>a, <1>b DEF OpenFails
<1>3. CASE SetupFails
  BY <1>3, <1>a DEF SetupFails
<1>4. CASE ForkFails
  BY <1>4, <1>a DEF ForkFails
<1>5. CASE ForkSucceeds \/ StartLoop \/ LoopEnds \/ Exit
  BY <1>5, <1>a DEF ForkSucceeds, StartLoop, LoopEnds, Exit, cronVars
<1>6. CASE CloseFails \/ ReadFails
  BY <1>6, <1>a, <1>b DEF CloseFails, ReadFails
<1>7. ASSUME NEW type, NEW len, Output(type, len)
      PROVE  AgreeInv'
  BY <1>7, <1>a DEF Output, DispatchOutput
<1>8. ASSUME NEW type, NEW len, OutputThrows(type, len)
      PROVE  AgreeInv'
  BY <1>8, <1>a DEF OutputThrows, Throw, DispatchOutput, cronVars
<1>9. ASSUME NEW status, NEW signum, CommandTerminated(status, signum) \/ TerminatedThrows(status, signum)
      PROVE  AgreeInv'
  BY <1>9, <1>a DEF CommandTerminated, TerminatedThrows, Throw, CronTerminated
<1>10. ASSUME NEW signum, DteeInterrupted(signum) \/ InterruptedThrows(signum)
       PROVE  AgreeInv'
  BY <1>10, <1>a DEF DteeInterrupted, InterruptedThrows, Throw, CronInterrupted, CronInterruptedThrows
<1>11. CASE Report
  BY <1>11, <1>a DEF Report, CronReport, cronVars
<1>12. CASE UNCHANGED vars
  BY <1>12, <1>a DEF vars, cronVars
<1>13. CASE MainLoopException
  BY <1>13, <1>a, <1>b DEF MainLoopException
<1>14. CASE LoopThrows \/ ReadFailsThrows
  BY <1>14, <1>a DEF LoopThrows, ReadFailsThrows, Throw, CronErrorThrows, cronVars
<1> QED
  BY <1>1, <1>2, <1>3, <1>4, <1>5, <1>6, <1>7, <1>8, <1>9, <1>10, <1>11, <1>12, <1>13, <1>14
     DEF Next, Done

(* Cron's own Process and the one Application exits by never differ, so    *)
(* that what is reported is what dtee exits with.                          *)
THEOREM ReportsAgree == Spec => []ReportAgrees
<1>1. Init => AgreeInv
  BY InitType DEF Init, CronInit, AgreeInv, ReportAgrees
<1>2. Spec => []AgreeInv
  BY <1>1, AgreeNext, PTL DEF Spec
<1>3. AgreeInv => ReportAgrees
  BY DEF AgreeInv
<1> QED BY <1>2, <1>3, PTL
==============================================================================
