----------------------------- MODULE Descriptors -----------------------------
(***************************************************************************)
(* Where the file descriptors of dtee and of the command point to, from    *)
(* main() (main.cpp) to the main loop of the one and the execvp() of the   *)
(* other: StreamOutput::create_missing_fds() (stream_output.cpp), the      *)
(* files and sockets dtee opens (file_output.cpp, temp_file.cpp,           *)
(* input.cpp), with the temporary directory of the sockets                 *)
(* (temp_directory.cpp), and Input::fork_child().                          *)
(*                                                                         *)
(* The kernel gives out the lowest number that is free, which is why a     *)
(* missing standard descriptor matters.  dtee closes by number.            *)
(***************************************************************************)
EXTENDS Integers, FiniteSets

CONSTANTS
  CronMode,    \* dtee has a buffer file, and executes the command itself if need be
  OutputFiles, \* names of output files
  MaxFd        \* bound: the highest file descriptor there is

STDOUT_FILENO == 1
STDERR_FILENO == 2
Fd == 0..MaxFd

Sockets == {"input", "out", "err"}
Files == (IF CronMode THEN {"buffer"} ELSE {}) \cup OutputFiles

(* What dtee keeps the number of, "reactor" for what Boost.Asio opens.     *)
Owned == {"reactor"} \cup Sockets \cup Files

(* What the caller of dtee may have opened. *)
Usual == [n \in 0..3 |-> CASE n = 0 -> "stdin" [] n = 1 -> "stdout" [] n = 2 -> "stderr" [] n = 3 -> "other"]
Foreign == {Usual[n] : n \in 0..3} \cup {"null", "none"}

ASSUME DescriptorsAssumption ==
  /\ CronMode \in BOOLEAN /\ IsFiniteSet(OutputFiles)
  /\ OutputFiles \cap ({"reactor", "buffer"} \cup Sockets \cup Foreign) = {}
  /\ MaxFd \in Nat /\ MaxFd >= Cardinality(OutputFiles) + 9

Processes == {"dtee", "child"}

VARIABLES
  place,      \* how far each process is; the child is "none" before the fork
  given,      \* history: what the descriptors were when dtee was started
  table,      \* what the descriptors of each process are, "none" if closed
  held,       \* the numbers kept for what is Owned, -1 if there is none
  toOpen,     \* outputs that are still to be opened
  failed,     \* Dispatch::open() will return false
  duplicated, \* history: the calls of dup2() in fork_child() that worked
  directory,  \* the temporary directory exists
  names,      \* what is in it
  files       \* TempDirectory's files_

dirVars == <<directory, names, files>>
vars == <<place, given, table, held, toOpen, failed, duplicated, dirVars>>

Init ==
  /\ place = [p \in Processes |-> IF p = "dtee" THEN "stdout" ELSE "none"]
  /\ given \in {[n \in Fd |-> IF n \in open THEN Usual[n] ELSE "none"] : open \in SUBSET (0..3)}
  /\ table = [p \in Processes |-> given]
  /\ held = [p \in Processes |-> [o \in Owned |-> -1]]
  /\ toOpen = {} /\ failed = FALSE /\ duplicated = {}
  /\ directory = FALSE /\ names = {} /\ files = {}

Goto(p, next) == place' = [place EXCEPT ![p] = next]

LowestFree(t, n) == t[n] = "none" /\ \A m \in 0..(n - 1) : t[m] # "none"

(* Process p opens what is owned as o. *)
Opens(p, o) ==
  \E n \in Fd :
    /\ LowestFree(table[p], n)
    /\ table' = [table EXCEPT ![p][n] = o]
    /\ held' = [held EXCEPT ![p][o] = n]

(* Process p closes these, by number. *)
Closes(p, owned) ==
  /\ table' = [table EXCEPT ![p] = [n \in Fd |->
                 IF \E o \in owned : held[p][o] = n THEN "none" ELSE @[n]]]
  /\ held' = [held EXCEPT ![p] = [o \in Owned |-> IF o \in owned THEN -1 ELSE @[o]]]
------------------------------------------------------------------------------
(* main()                                                                  *)

(* Mutant: the check is for standard output only.                          *)
CreateMissingStdoutOnly(fd, next) ==
  /\ table' = IF fd = STDERR_FILENO \/ table["dtee"][fd] # "none" THEN table
              ELSE [table EXCEPT !["dtee"][fd] = "null"]
  /\ Goto("dtee", next)

(* Mutant: the descriptor of /dev/null is not moved to its place.          *)
CreateMissingAnywhere(fd, next) ==
  /\ IF table["dtee"][fd] # "none" THEN UNCHANGED table
     ELSE \E n \in Fd : /\ LowestFree(table["dtee"], n)
                        /\ table' = [table EXCEPT !["dtee"][n] = "null"]
  /\ Goto("dtee", next)

(* StreamOutput::create_missing_fds() for one of the two descriptors: when *)
(* /dev/null has got another number, it is duplicated and that number is   *)
(* free again.  After any error main() returns.                            *)
CreateMissing(fd, next) ==
  \/ /\ table["dtee"][fd] # "none"
     /\ Goto("dtee", next) /\ UNCHANGED table
  \/ /\ table["dtee"][fd] = "none"
     /\ table' = [table EXCEPT !["dtee"][fd] = "null"]
     /\ Goto("dtee", next)
  \/ Goto("dtee", "exited") /\ UNCHANGED table

CreateMissingFds ==
  /\ \/ place["dtee"] = "stdout" /\ CreateMissing(STDOUT_FILENO, "stderr")
     \/ place["dtee"] = "stderr" /\ CreateMissing(STDERR_FILENO, "application")
  /\ UNCHANGED <<given, held, toOpen, failed, duplicated, dirVars>>

(* Application::run() creates the io_context and what belongs to it.       *)
CreateContext ==
  /\ place["dtee"] = "application"
  /\ Opens("dtee", "reactor")
  /\ toOpen' = Files
  /\ Goto("dtee", "outputs")
  /\ UNCHANGED <<given, failed, duplicated, dirVars>>

(* TempFile::open() of the buffer file, whose name is unlinked at once, or *)
(* FileOutput::open(), called by Dispatch::open(), the buffer file first.  *)
OpenOutput ==
  /\ place["dtee"] = "outputs"
  /\ \E o \in toOpen :
       /\ "buffer" \in toOpen => o = "buffer"
       /\ toOpen' = toOpen \ {o}
       /\ \/ Opens("dtee", o) /\ UNCHANGED failed
          \/ failed' = TRUE /\ UNCHANGED <<table, held>>
  /\ UNCHANGED <<place, given, duplicated, dirVars>>

(* Dispatch::open() returns; TempDirectory::TempDirectory() in             *)
(* Input::open(), which may fail.                                          *)
OpenInput ==
  /\ place["dtee"] = "outputs" /\ toOpen = {}
  /\ IF failed /\ ~CronMode
     THEN Goto("dtee", "exited") /\ UNCHANGED dirVars
     ELSE \/ /\ Goto("dtee", "input")
             /\ directory' = TRUE /\ UNCHANGED <<names, files>>
          \/ Goto("dtee", "failed") /\ UNCHANGED dirVars
  /\ UNCHANGED <<given, table, held, toOpen, failed, duplicated>>

(* Each socket has a place of its own: open_input(), then open_output()    *)
(* for standard output and for standard error.                             *)
After(socket) ==
  CASE socket = "input" -> "out"
    [] socket = "out"   -> "err"
    [] socket = "err"   -> "inputOpened"

(* Mutant: the name is registered when the socket is ready.                *)
OpenSocketThenRegister(s) ==
  /\ place["dtee"] = s
  /\ Opens("dtee", s)
  /\ names' = names \cup {s}
  /\ \/ files' = files \cup {s} /\ Goto("dtee", After(s))
     \/ UNCHANGED files /\ Goto("dtee", "inputFailed")
  /\ UNCHANGED <<given, toOpen, failed, duplicated, directory>>

(* The name is registered, the socket is opened, bound to the name,        *)
(* connected and configured, each of which may throw.                      *)
OpenSocket(s) ==
  /\ place["dtee"] = s
  /\ files' = files \cup {s}
  /\ \/ /\ Opens("dtee", s) /\ names' = names \cup {s}
        /\ \/ Goto("dtee", After(s))
           \/ Goto("dtee", "inputFailed")
     \/ /\ Goto("dtee", "inputFailed") /\ UNCHANGED names
        /\ Opens("dtee", s) \/ UNCHANGED <<table, held>>
  /\ UNCHANGED <<given, toOpen, failed, duplicated, directory>>

(* Input::open() returns: TempDirectory::~TempDirectory() unlinks the      *)
(* registered files; rmdir() needs the directory to be empty.              *)
InputOpened ==
  /\ \/ place["dtee"] = "inputOpened" /\ Goto("dtee", "fork")
     \/ place["dtee"] = "inputFailed" /\ Goto("dtee", "failed")
  /\ names' = names \ files
  /\ directory' = (names' # {})
  /\ files' = {}
  /\ UNCHANGED <<given, table, held, toOpen, failed, duplicated>>

(* SignalHandler::open() or fork() fails. *)
SetupFails ==
  /\ place["dtee"] = "fork"
  /\ Goto("dtee", "failed")
  /\ UNCHANGED <<given, table, held, toOpen, failed, duplicated, dirVars>>

Fork ==
  /\ place["dtee"] = "fork"
  /\ place' = [p \in Processes |-> IF p = "dtee" THEN "parent" ELSE "dup2"]
  /\ table' = [table EXCEPT !["child"] = table["dtee"]]
  /\ held' = [held EXCEPT !["child"] = held["dtee"]]
  /\ UNCHANGED <<given, toOpen, failed, duplicated, dirVars>>

(* Input::fork_parent(), Input::start() *)
ForkParent ==
  /\ place["dtee"] = "parent"
  /\ Closes("dtee", {"out", "err"})
  /\ Goto("dtee", "loop")
  /\ UNCHANGED <<given, toOpen, failed, duplicated, dirVars>>

(* Input::fork_child(): out_, then err_, each replacing what is there; an  *)
(* error is printed and nothing else.                                      *)
Duplicate ==
  /\ place["child"] = "dup2"
  /\ \E done \in SUBSET {STDOUT_FILENO, STDERR_FILENO} :
       LET t == table["child"]
           t1 == IF STDOUT_FILENO \in done THEN [t EXCEPT ![STDOUT_FILENO] = t[held["child"]["out"]]] ELSE t
           t2 == IF STDERR_FILENO \in done THEN [t1 EXCEPT ![STDERR_FILENO] = t1[held["child"]["err"]]] ELSE t1
       IN  duplicated' = done /\ table' = [table EXCEPT !["child"] = t2]
  /\ Goto("child", "close")
  /\ UNCHANGED <<given, held, toOpen, failed, dirVars>>

(* Mutant: the sockets are left open.                                      *)
CloseSomeInChild ==
  /\ place["child"] = "close"
  /\ Closes("child", Owned \ {"out", "err"})
  /\ Goto("child", "command")
  /\ UNCHANGED <<given, toOpen, failed, duplicated, dirVars>>

(* The rest of Input::fork_child(), and the resets in run(): the outputs,  *)
(* the sockets and the io_context are destroyed, or closed by execvp().    *)
CloseInChild ==
  /\ place["child"] = "close"
  /\ Closes("child", Owned)
  /\ Goto("child", "command")
  /\ UNCHANGED <<given, toOpen, failed, duplicated, dirVars>>

(* The setup has failed: in cron mode dtee itself becomes the command.     *)
CloseInDtee ==
  /\ place["dtee"] = "failed"
  /\ Closes("dtee", Owned)
  /\ Goto("dtee", IF CronMode THEN "command" ELSE "exited")
  /\ UNCHANGED <<given, toOpen, failed, duplicated, dirVars>>

Ended(p) == place[p] \in {"none", "loop", "command", "exited"}

Done == (\A p \in Processes : Ended(p)) /\ UNCHANGED vars

Next ==
  \/ CreateMissingFds \/ CreateContext \/ OpenOutput
  \/ OpenInput \/ InputOpened
  \/ \E s \in Sockets : OpenSocket(s)
  \/ SetupFails \/ Fork \/ ForkParent
  \/ Duplicate \/ CloseInChild \/ CloseInDtee
  \/ Done

Spec == Init /\ [][Next]_vars
------------------------------------------------------------------------------
Places == Sockets \cup
  {"none", "stdout", "stderr", "application", "outputs", "inputOpened", "inputFailed",
   "fork", "parent", "loop", "failed", "dup2", "close", "command", "exited"}

(* dtee closes by number: until a process has closed everything, whatever  *)
(* it has kept the number of must still be what that number stands for.    *)
TypeOK ==
  /\ place \in [Processes -> Places] /\ given \in [Fd -> Foreign]
  /\ table \in [Processes -> [Fd -> Foreign \cup Owned]]
  /\ held \in [Processes -> [Owned -> Fd \cup {-1}]]
  /\ toOpen \subseteq Files /\ failed \in BOOLEAN /\ directory \in BOOLEAN
  /\ names \subseteq Sockets /\ files \subseteq Sockets
  /\ \A p \in Processes, o \in Owned : held[p][o] >= 0 => table[p][held[p][o]] = o

(* Whatever was missing when dtee was started, nothing it opens itself is  *)
(* ever at its standard output or standard error: what it shows, and its   *)
(* diagnostics, cannot end up in an output file, the buffer file or its    *)
(* own input socket.                                                       *)
OutputsAreNotReused ==
  place["dtee"] \notin {"stdout", "stderr", "exited"} =>
    /\ table["dtee"][STDOUT_FILENO] \in {"stdout", "null"}
    /\ table["dtee"][STDERR_FILENO] \in {"stderr", "null"}

(* The command gets the two sockets as its standard output and error, also *)
(* when some of the three standard descriptors were missing.               *)
CommandWritesToSockets ==
  place["child"] = "command" =>
    /\ STDOUT_FILENO \in duplicated => table["child"][STDOUT_FILENO] = "out"
    /\ STDERR_FILENO \in duplicated => table["child"][STDERR_FILENO] = "err"

(* Of all other descriptors the command has those dtee was given, and none *)
(* of dtee's own, also when dtee itself becomes the command.               *)
NothingLeaks ==
  \A p \in Processes : place[p] = "command" =>
    \A n \in Fd \ {STDOUT_FILENO, STDERR_FILENO} : table[p][n] = given[n]

(* However opening the input ends, no temporary file or directory is left. *)
TemporaryRemoved ==
  place["dtee"] \notin Sockets \cup {"inputOpened", "inputFailed"} => ~directory /\ names = {}
==============================================================================
