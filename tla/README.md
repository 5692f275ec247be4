# dtee, modelled in TLA+

dtee runs a command with its standard output and standard error connected to
two Unix datagram sockets, reads both from a third one, so that the order of
the messages is kept, and copies them to its own outputs and to files. In cron
mode (`-q`, `cronty`) nothing is shown unless the command fails, writes to
standard error, or something goes wrong.

## The system

| part | state | operations | talks to |
|---|---|---|---|
| `Application` | `process_`, `cron_`, the order of `run()` | `run`, `fork`, `main_loop`, `execute` | creates and drives all others |
| `Input` | three sockets, `buffer_`, whether a receive is outstanding | `open`, `fork_parent`, `start`, `fork_child`, `handle_receive_from` | the command (datagrams), `Dispatch` (messages, errors), the io_context |
| `SignalHandler`, `SignalBlock` | installed handlers, blocked signals, the child's pid | `open`, `start`, `stop`, three handlers | the kernel (signals, `waitpid`), `Dispatch` (results), the io_context |
| `Dispatch` | the lists of outputs and result handlers | `open`, `output`, `terminated`, `interrupted`, `error` | `Cron` or `StreamOutput`, `FileOutput`s, `Process` |
| `Cron` | `buffered_`, `report_`, the buffer file, a `Process` of its own | the five of an output and a result handler, `report` | `StreamOutput`, `TempFile` |
| `FileOutput` | `fd_`, `failed_`, the file | `open`, `output` | the file system |
| `StreamOutput` | none; the two descriptors and their flags | `create_missing_fds`, `open`, `output` | the descriptors dtee was given |
| `Process` | how the command ended, what interrupted dtee, the last error | `terminated`, `interrupted`, `error`, `exit_by_interrupt`, `exit_status` | |
| `TempDirectory`, `TempFile` | names to be removed | construction, `register_file`, `open`, destruction | the file system |
| `CommandLine` | the parsed options, the command, `cron_mode_` | `parse`, with `end_of_opts_parser` | Boost.Program_options, which calls it back at every argument |

What is hard about it:

* **partial failure**: every `write`, `read`, `lseek` and `open` may fail or do
  less than it was asked. The functions return `bool`, and a good many of the
  results are ignored because something else is supposed to have recorded the
  failure already. An exception can leave a handler half done, and
  `main_loop()`, which catches it, calls into the same objects once more;
* **ordering**: what was held back in the buffer file, what could not be put
  there and what follows must come out in the order the command wrote it;
* **interleaving**: data in the socket, SIGCHLD and other signals are handled in
  any order by one loop, which any of them may stop, while the command and
  whatever it left running in the background go on;
* **two records of one story**: `Cron` is a `Process` besides `process_`; one is
  reported, the other makes the exit status;
* **liveness**: dtee must exit after the command, and the command must not wait
  for dtee for ever;
* **boundaries**: where the options of dtee end and the command begins, and how
  large a datagram can get.

What makes each part correct is listed with the properties below; the hazards,
at the lines where they bite, are in `PROJECT.json`.

## Modules

| module | models |
|---|---|
| `DteeTypes` | streams, error types, signal numbers, exit codes, units of output |
| `Process` | `process.cpp`, as functions on records, since there are two `Process` objects |
| `StreamOutput` | `stream_output.cpp`: `open()`, `output()` |
| `FileOutput` | `file_output.cpp`: all files of the command line together |
| `Cron` | `cron.cpp`: one action per method; `ok` is the value it returns |
| `Dispatch` | `dispatch.cpp`, and the order in which `Application::run()` uses it. What `Input` and `SignalHandler` would call is left open: any message or event may come next |
| `EventLoop` | `application.cpp` `main_loop()`, `signal_handler.cpp`, `input.cpp`, from the return of `fork()` in the parent to the exit; the command, a background process and senders of signals are its environment |
| `Dtee` | `application.cpp` `run()`: `Dispatch` and `EventLoop` together, in one process |
| `Tee` | what dtee promises: the abstract specification that `Dtee` implements |
| `Startup` | `application.cpp` `run()`, `fork()`, `execute()`, `signal_handler.cpp` `open()`, `start()` and destruction, `signal_block.cpp`: both processes and every signal that reaches them until the one is in the main loop and the other is the command |
| `Descriptors` | `main.cpp`, `stream_output.cpp` `create_missing_fds()`, `input.cpp` `open()`, `fork_parent()`, `fork_child()`, `temp_directory.cpp`, the opening of `temp_file.cpp` and `file_output.cpp`: the descriptor tables of both processes over the same stretch |
| `ReceiveBuffer` | `input.cpp` `open_input()`, `open_outputs()`, `prepare_buffer()` and the switches of `platform.h` they depend on: the sizes of the sockets' buffers and of `buffer_` |
| `CommandLine` | `command_line.cpp` `parse()`, `end_of_opts_parser()` and what they make of the arguments |
| `DispatchProofs` | the types of `Dispatch`, lemmas about its helpers, and proofs of `ShownInOrder` and `ReportAgrees` |
| `DispatchLossProofs` | proofs of the other properties of `Dispatch`, which failures `process_` has been told of, and what a step adds to the outputs |
| `EventLoopProofs` | proofs of the safety properties of `EventLoop` |
| `StartupProofs` | proofs of the safety properties of `Startup` |
| `DescriptorsProofs` | proofs of all properties of `Descriptors` |
| `ReceiveBufferProofs` | proofs of all properties of `ReceiveBuffer` |
| `CommandLineProofs` | proofs of all properties of `CommandLine` |
| `DteeProofs` | proof that `Dtee` implements `Tee`, and of `NothingUnseen` and `Unobtrusive` |
| `MCDispatch`, `MCEventLoop`, `MCDtee` | constants for TLC |

`Dispatch`, `EventLoop` and `Startup` have the mode, `cron_mode`, as a variable
that `Init` chooses from the constant `Modes` and nothing changes.

### State and steps of `Dispatch`

Output is a sequence of *units*: unit `n` is the `n`th run of bytes the command
wrote, with the stream it was written to. A message is a sequence of units, so
it can be cut short by a `write()` that takes less than all, and a message of
no units is an empty datagram. A write of `n` units returns anything in
`-1..n`. `stream` is what reached dtee's descriptors 1 and 2 in the order of
the writes; `content` is what each output file holds; `spool` is Cron's buffer
file. `unspool_buffer_file()` reads in chunks of `Chunk` units and each chunk
may be cut short, so what it gets out of the file is the set `Survivors`.

`phase` is the place in `Application::run()`:
`open -> setup -> forked -> loop -> looped -> reported -> exited`, with
`openFailed` between the two halves of `Dispatch::open()`, and `execute` where
dtee, in cron mode, becomes the command because it could not set itself up.

An exception in the main loop takes two steps. The one in which it is thrown
leads from `loop` to `threw`, and keeps whatever the handler had done before:
`OutputThrows` any of what `Dispatch::output()` does to the first output and the
files (each prints an error, and that can throw), `ReadFailsThrows`,
`InterruptedThrows` and `TerminatedThrows` the same for the other events, and
`LoopThrows` nothing, when it is the reactor or no output has been called yet. In
`Cron` it is `UnspoolThrows` that matters: part of the buffer file has been
shown and `buffered_` is still true, since the statement that clears it is not
reached. The second step, `MainLoopException`, is the `catch` of `main_loop()`:
its `error()` then reads the buffer file back from the beginning.

`received`, `alarms`, `hurt` and `ioFailed` are history variables. They are
read only by properties, and by the numbering of messages.

### State and steps of `EventLoop`

`socket` holds the datagrams not received yet, by number for those of the
command. `handled` are the signals with a handler, `caught` those whose handler
in the loop has not been run: signals that come before `start()` are blocked and
stay pending, which is the same thing as seen from the loop. `stopped` is
`io.stopped()`, `ran` tells whether the current `io.poll()` has run a handler.
The handlers are single steps because there is only one thread. What the
outputs do with a message is left to `Dispatch`; here it may record
WRITE_OUTPUT. An output that failed to open has left OPEN_OUTPUT in `process`
when the loop begins, which only cron mode goes on with, and `CloseFails` is the
error of `Input::fork_parent()`. `delivered` and `sent` are history variables.

`WaitForChild` is `waitpid()` and what `handle_child_exited()` makes of its
answer. The steps that end in `Throws` are the same handlers when an exception
leaves them: what they took from the socket or from `caught` is gone, what they
told `process_` stays, but the receive is not asked for again, `SIGCHLD` not
given up and the loop not stopped. `MainLoopException` is the `catch`.

### State and steps of `Dtee`, and `Tee`

`Dtee` has the variables of `Dispatch` and of `EventLoop`, which share `process`
and `cron_mode`; `phase` is that of `Dispatch`, `place` that of `EventLoop`.
Each step of dtee is a step of both where both see it: receiving a message is
`Output` of `Dispatch` and `Receive` of `EventLoop`, so a WRITE_OUTPUT that
`EventLoop` may record is recorded exactly when an output fails; the end of the
command is `CommandTerminated` or, if it was only stopped, `DteeInterrupted` by
SIGCHLD. The handlers that throw are paired in the same way. Steps of the setup
are `Dispatch`'s alone, those of the command and of
senders of signals `EventLoop`'s alone. `Report` comes between `StopSignals` and
`ResetSignals`, and a signal can kill dtee before or after it. `messages` and
`input` are history: the messages of the command, and the stream of every unit
it wrote.

`Tee` knows nothing of sockets, signals, loops or buffer files. A command writes
units; `Copy` takes some, shows some and keeps some in files, in any portions;
`Exit` sets a status. What `Copy` may do is said of the state it leads to:
nothing is made up (`Genuine`), what is shown is in the order of writing and
nothing is shown while anything is held back (`InOrder`), and as long as there
is no trouble, everything taken is shown or held, and in the files that want it
(`Complete`). What is shown is never taken back, trouble never forgotten, and
status 0 means that there was none and that everything written was taken. A
`broken` tee, which is one of the kinds of trouble, may begin again with what it
shows, but once only: `InOrder` then asks for two runs in order instead of one.

The refinement mapping is at the end of `Dtee`: `shown` is `stream` by numbers,
`held` the buffer file while it is in use, `kept` the files, `trouble` an error,
an interruption or a command that failed, `broken` an exception in the main
loop, and `status` the exit status. A dtee that is killed has none.

### State and steps of `Startup`

`place` is where each of the two processes, `dtee` and `child`, is in `run()`;
the child is at `none` before `fork()`. Each has its signal dispositions, mask
and pending signals, and the two sets dtee itself keeps: `added`, the `sigset_`
of `SignalBlock`, and `caught`, what the handlers of Boost.Asio have consumed.
`SignalHandler::add()` is two steps, because a signal may come between
`sigprocmask()` and `sigaction()`; the destructor of `SignalHandler` is two
steps for the same reason, in the order of the declarations in
`signal_handler.h`. Removing a handler gives a signal its default action and
`clear()` unblocks it, also when it was ignored or blocked before dtee began;
nothing in the documentation speaks of that. `sent` is a history variable.

### State and steps of `Descriptors`

`table` says what each descriptor of each process points to, `held` which
number dtee keeps for each thing it opened. The kernel gives out the lowest
number that is free and dtee closes by number, which is all that matters here;
the several descriptors of the io_context are one, `reactor`. `place` is the
call that comes next; each of the three sockets has a place of its own, because
a failure in one leaves those before it open. `/dev/null` is opened, moved and
closed in one step, since nothing else happens meanwhile. A name in the
temporary directory is registered before the socket is bound to it, so `files`
may have a name that `names` has not. `given` and `duplicated` are history
variables.

### State and steps of `ReceiveBuffer`

The kernel has a limit for what may be asked for (`limit`), and sizes of its own
(`rcvbuf`, `sndbuf`). On Linux it doubles what is asked for, grants no less than
`Least` and tells the doubled size, of which Boost.Asio makes the half
(`platform.doubled`); elsewhere it refuses what is too large. Where the options
do not exist (`platform.have_size`), the minimum is taken. The sizes of the
kernel are external, modelled from what `input.cpp` and `platform.h` say of
them.

### State and steps of `CommandLine`

`args` is what Boost has not come to yet. It asks `end_of_opts_parser()` first
(`Capture`), and takes what that leaves for an option, its value or a positional
argument (`Parse`); at the end of `argv`, `Store` is `po::store()`, which accepts
a switch only once, and the rest of `parse()`. How Boost goes through `argv` is
external, modelled as far as `parse()` depends on it. `options` has the values
of each option in the order Boost met them; all of the command is under the key
that `end_of_opts_parser()` and the positional description use. The properties
compare the result with the manual's reading of a command line, which needs no
parser: `Own` are the positions before the first argument that ends dtee's part,
and `Listed` puts the arguments at some positions in order. `Unambiguous` leaves
out what only Boost could decide, and only in dtee's own part.

## Runs

| run | question | bounds |
|---|---|---|
| `cron` | cron mode: order, loss, silence, revelation, the report | 3 units in messages of 0 to 2, a chunk of 1 unit, one file for both streams, exit codes 0 and 42, death by SIGINT, SIGTERM or SIGCHLD to dtee |
| `files` | the same outputs without cron mode | 2 units, a file for standard output that is overwritten, a file for both that is appended to, both descriptors non-blocking at the start |
| `cron_nonblocking` | is anything non-blocking in cron mode? (violated) | 1 unit |
| `loop` | the main loop with everything the environment can do, cron mode: is anything lost or forgotten? | 2 messages, a socket of 2, four signals, stops and background |
| `loop_liveness` | dtee exits, undisturbed with the status of the command; writers proceed, signals are honoured, the report is not cut short | 2 messages, a socket of 2, both modes, `-i`, three signals, a background that ends |
| `command_stopped` | what happens when the command is stopped (violated) | no signals, no background |
| `background_starves` | does dtee exit if the background never ends? (violated) | no signals, a socket of 1 |
| `startup` | signals and the single execution between `run()` and the main loop | both modes, `-i`; SIGHUP ignored and SIGINT blocked when dtee is started; SIGHUP, SIGINT, SIGPIPE and SIGTERM once to each process; any step may fail |
| `descriptors` | where every descriptor points to, and the temporary directory | cron mode; every subset of descriptors 0 to 3 open at the start; two files; any step may fail |
| `command_line` | what is dtee's and what is the command's | at most 4 arguments of 11 kinds: words, empty, `--`, `-`, `--=text`, two file options, three switches and an unknown option |
| `receive_buffer` | does every datagram fit? | a minimum of 4, an `INT_MAX` of 15, sizes and limits around them, with and without doubling |
| `dtee` | the whole of dtee: does it do what `Tee` says, and is it in nobody's way? | both modes, one file, 2 units in messages of 0 or 1, a socket of 2, exit codes 0 and 42, death by SIGINT, SIGTERM to dtee, a command that may be stopped |

Why the bounds are enough: a signal may be handled by dtee or not, and have
been ignored or blocked before dtee began or neither; one arrival of each is
enough, since signals do not queue. For descriptors, the four that may be given
cover every gap a number can fall into, and the proofs are for any number of
files and with or without cron mode. In `Dispatch` and `EventLoop` a unit has
no content, and everything said of order is about two units and everything said
of loss about one. Three units let one be in the buffer file, one be cut off
its message, and one follow. `Chunk = 1` lets any subset of the buffer file be
lost, which contains what a larger chunk can lose. A socket of two messages can
be empty, full and in between, and with a background process or a command that
goes on writing it is full while another message waits. Four arguments let an
option and its value come before `--`, and something that looks like an option
after it; the empty argument can be first, in the middle and last. The sizes of
`receive_buffer` lie on both sides of the minimum, its half, its double and the
largest number. `dtee` is as small as it is because it has all of this at once:
two messages let one be received and the other be in the socket when the
command ends, and the theorems are for any number.

### Properties

`Dispatch`:

* `ShownInOrder`: what is shown is in the order it was written, nothing twice,
  each unit on its own stream, whatever was held back, cut short or lost. There
  is one exception, in the C++ sense too: if one is thrown in the middle of
  `unspool_buffer_file()`, `error()` in `main_loop()` shows the buffer file again
  from the beginning. No document or comment rules this out, so the property says
  how far it can go: in cron mode only, and once at most;
* `NoSilentLoss`: with exit status 0, everything received is in every file that
  should have it, and was shown unless all of it is still held back;
* `FilesIndependent`: a file misses only what it failed to write itself;
* `QuietOnSuccess`: when there is no reason to, cron mode shows nothing of the
  command's output and prints no line of the report. This includes a failing
  output file, which is in the exit status only. The messages that dtee itself
  prints about such a file come out nevertheless, as
  `tests/output/cron-file-write-failure-recovery-exit-0.err.txt` has them; they
  are not modelled;
* `RevealedOnFailure`: cron mode shows everything and the status of the command
  when it fails, is killed, or wrote to standard error;
* `ReportAgrees`: Cron's own `Process` and `process_` are always equal;
* `StreamsBlocking`: while the main loop runs, the original outputs are blocking.

`EventLoop`:

* `Drained`: when the command's end is known and the loop is over, all it wrote
  has been passed on;
* `Transparent`: undisturbed, dtee exits after the command, with its status, and
  all it wrote has been passed on;
* `Explained`: the loop ends only with a reason `exit_status()` can tell;
* `NothingForgotten`: while the loop waits, everything that has happened since
  `fork()` has a handler that is due (no wake-up is lost), and in the last
  `poll()` each signal is still due or has been recorded;
* `ReportNotCut`: SIGPIPE does not kill dtee in cron mode before it has reported,
  since `stop()` leaves its handler in place;
* `Finishes`, `WritesProceed`, `SignalsHonoured`: the liveness properties. A
  signal is honoured, that is, `process_` has it as the interruption at some
  time, each of several signals for itself, if it comes before the last `poll()`
  has returned and no exception ends the loop; between that and `stop()` it is
  swallowed, which is what the code does.

`Dtee`:

* `TeeSpec`: dtee, with all its parts, implements `Tee`;
* `NothingUnseen`: when the command fails in cron mode, all that it wrote is on
  the original outputs when dtee exits, also what was still in the socket when
  the command ended, unless reading, writing or the loop itself failed;
* `Unobtrusive`: a dtee that has recorded neither an error nor an interruption
  ends just as the command did, has received all that it wrote, has it in every
  file that wants it, and has shown it, unless cron mode holds it back or failed
  to write it. This is how the exit status can be trusted from outside: whatever
  went wrong, `process_` has been told.

`Startup`:

* `NothingSwallowed`: a signal sent to a process before it becomes the command
  kills it or stays pending for the command; no handler of dtee's consumes it;
* `NothingMissed`: when the main loop begins, its handlers have every signal sent
  to dtee so far, and SIGCHLD if the child is gone already;
* `CleanCommand`: the command has no signal blocked that dtee blocked;
* `ExecutedOnce`: dtee never executes the command itself when it has a child;
* `NotAfterError`: without cron mode there is no child after an error;
* `CronExecutes`: in cron mode one process or the other does try to execute the
  command, whatever fails, unless a signal kills it first.

`Descriptors`:

* `OutputsAreNotReused`: nothing dtee opens is its own descriptor 1 or 2;
* `CommandWritesToSockets`: descriptors 1 and 2 of the command are the sockets;
* `NothingLeaks`: all others are what dtee was given;
* `TemporaryRemoved`: the temporary directory is gone once `Input::open()` has
  returned, or has not been created yet.

`CommandLine`:

* `CommandAsWritten`: from the first word, empty argument or `--` on, every
  argument reaches the command unchanged and in order;
* `OptionsBeforeCommand`: nothing from there on has any effect on dtee, and
  everything before it has;
* `RunsWhenItShould`: dtee runs something exactly when its options are known,
  complete and not repeated, and there is a command, which is never empty.

`ReceiveBuffer`:

* `WholeDatagrams`: `buffer_` holds any datagram the command's sockets accept;
* `BufferInRange`: its size is at least the minimum and no `int` overflows;
* `MinimumAccepted`: the command can send the minimum in one write as far as the
  limits of the kernel permit.

Each property of a passing run has a mutant of a modelled definition in
`PROJECT.json`, a plausible bug in that code, for which TLC reports the property
violated.

### Fairness

dtee is one thread that never waits except for events, so each of its steps is
weakly fair: if a handler can run, or the loop can move on, it does. The reactor
(epoll) reports all ready descriptors and starves none of its handlers.
`Startup` assumes the same of both processes: neither stops between its steps.
An exception is caught (`MainLoopException` is fair), but none need be thrown.
Nothing is assumed of the command, of the senders of signals, or of failures.
`FiniteBackgroundSpec` also assumes that a background process ends at some time;
`background_starves` shows that `Finishes` needs that.

### What the violated runs show

* `command_stopped`: SIGCHLD is also sent when a child is stopped. `waitpid()`
  then returns 0, `handle_child_exited()` takes it for an interruption and
  stops the loop: dtee exits with status 145 while the command lives on.
* `background_starves`: the poll after the loop goes on for as long as each
  `poll()` finds something to do, which a background writer can ensure.
* `cron_nonblocking`: in cron mode `StreamOutput::open()` is never called.

## Proofs

All safety properties of the passing runs are proved for every value of the
constants. The assumptions are those the modules name with `ASSUME`, which TLC
evaluates in the runs.

### Dispatch

For every set of files, every number and length of messages, every chunk size
and all exit codes and signals, from `ChunkAssumption`, `FilesAssumption` and
`DispatchAssumption`:

* `TypeCorrect`: `Spec => []TypeOK`;
* `ShownOrdered`: `Spec => []ShownInOrder`;
* `ReportsAgree`: `Spec => []ReportAgrees`;
* `LossIsNotSilent`: `Spec => []NoSilentLoss`;
* `FilesAlone`: `Spec => []FilesIndependent`;
* `CronReveals`: `Spec => []RevealedOnFailure`;
* `CronKeepsQuiet`: `Spec => []QuietOnSuccess`;
* `BlockingWithoutCron`: `Spec => []StreamsBlocking` if cron mode is not used,
  which `cron_nonblocking` shows is needed.

TypeOK is inductive as it stands. The proof follows the structure of the model:
lemmas about what a write or a readback of the buffer file may return
(`StreamResultsType`, `ReadbackType`), one lemma per method of an output, and
one step per action. ReportAgrees is inductive with it.

ShownInOrder is not inductive: a readback appends the buffer file to what is
shown, so the order of the buffer file matters as well, and that nothing was
shown before it. `OrderInv` adds `Buffering`: while output is held back, the
buffer file is all standard output and numbered without a gap (`StillHeld`), and
unless an exception has just been thrown, it has everything received and nothing
has been shown. The steps that show something then append, to a sequence that is
`Ordered` up to some number, one that is `Ordered` from there on
(`OrderedConcat`): a readback whatever is lost of it (`ReadbackOrdered`), the
beginning of one message (`StreamResultsOrdered`), and, when the buffer file took
part of a message, a readback and then the rest of the message
(`SpoolFailsOrdered`). A readback that is interrupted leaves the beginning of
one, and `StreamOrdered` as it was. The `catch` then appends a whole one, which
makes two (`OrderedTwice`), and `Breaking` says that nothing can follow: the
buffer file is out of use and the main loop is over.

What is lost and what is reported hang together, so the rest follows from one
invariant, `LossInv`: `FilesInv` says of each file that it holds only what it
takes, and misses nothing unless it is `hurt` or the loop threw; `ShowsInv` that
the original outputs miss nothing unless output is held back, dtee's own I/O
failed or the loop threw; and `Story` that each of these failures has been
recorded in `process_` by the time dtee exits, that the exit status comes from
there, and that Cron has a report exactly when there is reason for one. A
success then means that none of the failures happened (`SuccessIsClean`), and so
that nothing is missing. `FailuresTold` is the same from the side of `process_`:
as long as it has no error, no file is `hurt`, and dtee's own I/O has failed only
in cron mode, where `Cron` keeps the failure to its report.

### EventLoop

For any number of messages, any capacity of the socket and any signals, from
`EventLoopAssumption`: `LoopTypes`, `LoopDrains` (`Drained`),
`LoopEndsForAReason` (`Explained`), `ReportSurvives` (`ReportNotCut`), and
`LoopIsTransparent` (`Transparent`) for a command that cannot be stopped, which
`command_stopped` shows is needed.

`Drained` needs to know what is in the socket: `Queued` says that the messages
wait there in the order of writing, and, as long as no exception has been thrown
(`Unbroken`), that all those not delivered are there; `Listening` that a receive
is outstanding until reading fails; and `Reaped` that once the end of the
command is known it writes no more. The last `poll()` ends only with nothing
ready, which with these three means nothing left. `Transparent` adds `Account`:
SIGCHLD means that the command has ended, and what `process_` knows of the end
is true. `LoopForgetsNothing` (`NothingForgotten`) rests on two invariants:
until the loop is stopped for the first time no handler but that of a message
has run, so all the others are still due (`Due`); and a signal leaves `caught`
only through a handler that records it (`DueOrKnown`).

### Startup

For any signals sent, ignored or blocked, from `StartupAssumption`:
`StartupTypes`, `NoneSwallowed`, `NoneMissed`, `CommandIsClean`, `OneExecution`,
`NoneAfterError` and `CronDoesNotGiveUp`, which is the safety half of
`CronExecutes`: dtee in cron mode is not done unless there is a child, or it has
tried to execute the command itself, or it was killed. The invariant `IInv` has
three statements about each process: what is blocked was so before or is in
`added` (`Masks`); a signal that has a handler is in `added`, and so blocked,
until the main loop begins (`Handlers`); and a signal that was sent is pending
or caught, and caught only in the main loop (`Kept`). That is the point of the
order in which `SignalBlock` and `SignalHandler` do and undo things. `OnTheWay`
says what dtee needs to have done when it calls `start()`, and `Once` and
`ErrorFree` say how far it is when there is a child.

### Descriptors

For any number of output files and whatever descriptors are open when dtee is
started, `DescriptorsProofs` proves every property of `Descriptors`, from
`DescriptorsAssumption`: `DescriptorTypes`, `OutputsNotReused`,
`CommandConnected`, `NoLeaks` and `TemporaryGone`. None of them is inductive.
What is, is `IInv`, and its heart is `Tidy`, a statement about one process: each
number kept is that of the thing it was opened as, none is 1 or 2, and every
other descriptor is either kept or as it was given. Opening keeps a process
tidy as long as 1 and 2 are taken (`OpenKeepsTidy`), which is what
`create_missing_fds()` is there for; closing does because no two things have one
number (`CloseKeepsTidy`); and `dup2()` does because it only touches 1 and 2
(`StandardKeepsTidy`).

### ReceiveBuffer

`DatagramsWhole`, `BufferRange` and `MinimumFits` hold for any minimum, any sizes
and limits, and any `INT_MAX` of at least twice the minimum
(`ReceiveBufferAssumption`). The invariant says, for each step, how the kernel's
sizes relate to what dtee has been told.

### Dtee

`DteeIsATee` is `Spec => TeeSpec`: dtee as a whole implements `Tee`, for any
files, messages, units, capacity, signals and ends of the command
(`DteeAssumption`, which is the assumptions of the parts). `EverythingSeen` is
`Spec => []NothingUnseen`, `DteeIsUnobtrusive` is `Spec => []Unobtrusive`, and
`DteeIsADispatch` is `Spec => D!Spec`: every theorem about `Dispatch`, where any
message or event may come at any time, holds of the whole.

The invariants of the parts are used as they are. They are lemmas of modules
that are instances of their own (`DP`, `LP`), so `SameDispatch` and `SameLoop`
first show, definition by definition, that a step of the part in `Dtee` is a
step of the part that is proved about. `DteeInv` then has `Copied`, the
invariant of `Dispatch`; `Loop`, that of `EventLoop` as long as there is a loop;
`Link`, which neither part can say: the messages follow each other without a
gap, the socket holds the last of them, and exactly the units before these have
been received; `Expected` and `Known`: the command ended in one of the ways it
can, and what `process_` says of that is true; and `Final`: a dtee that has
exited did so with `exit_status()` or a signal of `exit_by_interrupt()`, had a
reason, and, if it knew the end of the command and could hear, has received all
units (`AllTaken`: `Drained` and `Queued` leave nothing but an empty socket, and
`Link` makes of that that every unit is in).

Every step is then a `Write`, a `Copy`, an `Exit` or none of these (`TeeStep`),
also those in which a handler throws or the exception is caught; `broken` says
which of the two forms of `InOrder` the state must meet, `OrderInv` that it does.
`ShownStays`, `KeptStays` and `TroubleStays` say that nothing is taken back,
`ExitIsLast` that the exit changes no output, `TeeState` that the state is one
`Tee` allows, and `SuccessIsClean` with `Final` that success means what it
should. For `Unobtrusive`, `EndIsTheCommands` reads the end of dtee off `Final`
and `Known`; `Taken` and `FailuresTold` then say that it has everything.

### CommandLine

For any words, any arguments and any length of the command line, from
`CommandLineAssumption` (a word is nothing that dtee or Boost has a meaning for):
`CommandLineTypes`, `CommandIsWhatWasWritten` (`CommandAsWritten`),
`OptionsEndWithCommand` (`OptionsBeforeCommand`) and `RunsExactlyWhenItShould`
(`RunsWhenItShould`).

The properties speak of the whole of `argv`, the parser sees it one argument at
a time. `CommandLineInv` says what it has found so far, after `n` arguments:
they are dtee's own and acceptable, and `options` is what the manual's reading
makes of the positions `1..n` (`Read`); it has come to an argument that is not a
value, and the command has only the positional ones so far (`Reading`), or
nothing is left and the command is complete (`Finished`). `Decided` is about the
outcome. No induction over sequences is needed, because the steps are the
induction: a list of arguments is a function from their ranks (`Nth`, `Listed`),
and an argument later than all in the list adds one at its end (`NthExtend`,
`ListedExtend`). From there `SwitchRead`, `FileRead` and `PositionalRead` follow
one argument each, and `CommandRead` the step that takes all that is left.

## Only model-checked

Liveness and `ENABLED` are out of the prover's reach: `Finishes`,
`WritesProceed`, `SignalsHonoured` and `CronExecutes` stay with TLC. What they
need of safety is proved, `NothingForgotten` of the first three and
`CronDoesNotGiveUp` of the last; that the steps which are then possible are
taken is fairness.

## Not modelled

* **Texts**: diagnostics and their translation (`print_error.cpp`, `i18n.cpp`),
  help, version and the output of `--debug-options`, the wording of the report
  (which lines it has is modelled). They keep no state.
* **Names**: the pattern of the names of temporary files and directories, and
  what OpenBSD, GNU Hurd and Cygwin need for the paths of sockets.
  `handle_receive_from()` compares the sender's path with those of the two
  sockets; a datagram from neither is ignored, as if it had not been sent.
* **Boost.Program_options**: long options with `=` (one argument, like a switch)
  and a file option directly followed by an option or `--`, where it is Boost
  that decides what is the value.
* **Exceptions outside the main loop**: during the setup, in `report()`, or a
  second one in the `error()` that `main_loop()` calls for the first. They end
  the process through `main()`, and none of dtee's state is used again.
* **Killing dtee while the temporary directory exists** leaves the directory
  behind: signals are not blocked yet, and the code makes no attempt.
* **The build**, coverage switches, packaging, translations, documentation and
  tests.

## Plan

What could still be refined:

* Cron call by call (each `lseek()`, `read()` and `write()` a step). The methods
  run to completion in one thread and catch no signal that changes their state,
  so no interleaving would be added; `Readback` already has every outcome of
  those calls.
* A `write()` to a pipe that a signal cuts short. `StreamOutput` has this as a
  short write, which is what it returns; that output is lost then, with an
  error, is what the code does.
