------------------------------ MODULE CommandLine ------------------------------
(***************************************************************************)
(* CommandLine::parse() (command_line.cpp): which arguments are dtee's own *)
(* and which are the command.  Boost.Program_options goes through argv and *)
(* asks end_of_opts_parser() first, at every argument it has come to;      *)
(* what that leaves it takes for an option, or for a positional argument   *)
(* that may be followed by more options.                                   *)
(*                                                                         *)
(* An argument is its text.  Of the long names, "--out-append=FILE" and    *)
(* the like are left out: they are one argument, like a switch.            *)
(***************************************************************************)
EXTENDS Naturals, SequencesExt

CONSTANTS
  Words,     \* arguments that do not begin with "-" and are not empty
  Arguments, \* what argv is made of
  MaxArgs    \* bound: the length of argv, without the program name

FileOption ==
  [t \in {"-o", "-O", "-e", "-E", "-c", "-C"} |->
     CASE t = "-o" -> "out-append"      [] t = "-O" -> "out-overwrite"
       [] t = "-e" -> "err-append"      [] t = "-E" -> "err-overwrite"
       [] t = "-c" -> "combined-append" [] t = "-C" -> "combined-overwrite"]

Switch ==
  [t \in {"-i", "-q", "-h", "-V", "--debug-options"} |->
     CASE t = "-i" -> "ignore-interrupts" [] t = "-q" -> "cron"
       [] t = "-h" -> "help"              [] t = "-V" -> "version"
       [] t = "--debug-options" -> "debug-options"]

BOOST_COMMAND_OPT == "-"

(* What Boost takes for positional: "-", and "--=TEXT" for TEXT.           *)
Positional == [t \in {"", "-", "--=text"} |-> IF t = "--=text" THEN "text" ELSE t]

Keys == {BOOST_COMMAND_OPT} \cup Range(Switch) \cup Range(FileOption)

(* A word is nothing that dtee or Boost has a meaning for.                 *)
ASSUME CommandLineAssumption ==
  /\ MaxArgs \in Nat
  /\ \A t \in {"", "-", "--", "--=text"} \cup DOMAIN Switch \cup DOMAIN FileOption : t \notin Words

VARIABLES
  name,       \* the name dtee was called by
  argv,       \* the arguments dtee was given
  args,       \* those Boost has not come to
  options,    \* the values of each option in the others, in their order
  cron_mode,  \* cron_mode_
  outcome     \* "run", or how parse() exits

vars == <<name, argv, args, options, cron_mode, outcome>>

(* The manual's reading of a command line, without parsing it: the command *)
(* begins at the first argument that is neither an option nor its value.   *)
IsValue(a, i) == i > 1 /\ a[i - 1] \in DOMAIN FileOption
Ends(a, i) == ~IsValue(a, i) /\ a[i] \in Words \cup {"", "--"}
Own(a) == {i \in DOMAIN a : \A j \in 1..i : ~Ends(a, j)}
CommandPart(a) ==
  LET rest == SubSeq(a, Cardinality(Own(a)) + 1, Len(a))
  IN  IF rest # <<>> /\ rest[1] = "--" THEN Tail(rest) ELSE rest

(* Whether Boost would take an option for the value of a file option is    *)
(* its own affair: no such argv is considered.                             *)
Unambiguous(a) ==
  \A i \in Own(a) :
    a[i] \in DOMAIN FileOption /\ i < Len(a) => a[i + 1] \in Words \cup {""}

(* update_name() *)
Init ==
  /\ name \in {"dtee", "cronty"}
  /\ argv \in SeqOf(Arguments, MaxArgs) /\ Unambiguous(argv)
  /\ args = argv
  /\ options = [key \in Keys |-> <<>>]
  /\ cron_mode = (name = "cronty")
  /\ outcome = "parsing"

(* Mutant: string_key is not set.                                          *)
GivenUnnamed(key, values) == ("" :> values) @@ options

Given(key, values) == [options EXCEPT ![key] = @ \o values]
------------------------------------------------------------------------------
(* end_of_opts_parser(): whether these arguments, all that is left, are    *)
(* the command.  An empty argument counts unless it is the last one.       *)
Captures(a) ==
  /\ a # <<>>
  /\ \/ a[1] = "" /\ Len(a) > 1
     \/ a[1] = "--"
     \/ a[1] \in Words

(* Mutant: "--" is not skipped.                                            *)
CaptureAll ==
  /\ outcome = "parsing" /\ Captures(args)
  /\ options' = Given(BOOST_COMMAND_OPT, args)
  /\ args' = <<>>
  /\ UNCHANGED <<name, argv, cron_mode, outcome>>

(* end_of_opts_parser() captures everything that is left. *)
Capture ==
  /\ outcome = "parsing" /\ Captures(args)
  /\ options' = Given(BOOST_COMMAND_OPT, IF args[1] = "--" THEN Tail(args) ELSE args)
  /\ args' = <<>>
  /\ UNCHANGED <<name, argv, cron_mode, outcome>>

(* Boost takes the next argument, and the one after it as a value.         *)
Parse ==
  /\ outcome = "parsing" /\ args # <<>> /\ ~Captures(args)
  /\ LET arg == args[1] IN
     \/ /\ arg \in DOMAIN Switch
        /\ options' = Given(Switch[arg], <<"">>)
        /\ args' = Tail(args) /\ UNCHANGED outcome
     \/ /\ arg \in DOMAIN FileOption /\ Len(args) > 1
        /\ options' = Given(FileOption[arg], <<args[2]>>)
        /\ args' = Tail(Tail(args)) /\ UNCHANGED outcome
     \/ /\ arg \in DOMAIN Positional
        /\ options' = Given(BOOST_COMMAND_OPT, <<Positional[arg]>>)
        /\ args' = Tail(args) /\ UNCHANGED outcome
     \/ /\ arg \notin DOMAIN Switch \cup DOMAIN Positional
        /\ arg \in DOMAIN FileOption => Len(args) = 1
        /\ outcome' = "EX_USAGE" /\ UNCHANGED <<options, args>>
  /\ UNCHANGED <<name, argv, cron_mode>>

(* list() and flag() *)
List(key) == options[key]
Flag(key) == List(key) # <<>>
Command == List(BOOST_COMMAND_OPT)

Repeated == \E t \in DOMAIN Switch : Len(List(Switch[t])) > 1

(* Mutant: -q decides alone. *)
StoreForgetsName ==
  /\ outcome = "parsing" /\ args = <<>>
  /\ outcome' = IF Repeated THEN "EX_USAGE"
                ELSE IF Flag("help") \/ Flag("version") \/ Flag("debug-options") THEN "EXIT_SUCCESS"
                ELSE IF Command = <<>> THEN "EX_USAGE"
                ELSE "run"
  /\ cron_mode' = IF outcome' = "run" THEN Flag("cron") ELSE cron_mode
  /\ UNCHANGED <<name, argv, args, options>>

(* Mutant: that there is a command is not checked.                         *)
StoreAnyCommand ==
  /\ outcome = "parsing" /\ args = <<>>
  /\ outcome' = IF Repeated THEN "EX_USAGE"
                ELSE IF Flag("help") \/ Flag("version") \/ Flag("debug-options") THEN "EXIT_SUCCESS"
                ELSE "run"
  /\ cron_mode' = (cron_mode \/ (outcome' = "run" /\ Flag("cron")))
  /\ UNCHANGED <<name, argv, args, options>>

(* po::store(), which accepts a switch only once, and the rest of parse(). *)
Store ==
  /\ outcome = "parsing" /\ args = <<>>
  /\ outcome' = IF Repeated THEN "EX_USAGE"
                ELSE IF Flag("help") \/ Flag("version") \/ Flag("debug-options") THEN "EXIT_SUCCESS"
                ELSE IF Command = <<>> THEN "EX_USAGE"
                ELSE "run"
  /\ cron_mode' = (cron_mode \/ (outcome' = "run" /\ Flag("cron")))
  /\ UNCHANGED <<name, argv, args, options>>

Done == outcome # "parsing" /\ UNCHANGED vars

Next == Capture \/ Parse \/ Store \/ Done

Spec == Init /\ [][Next]_vars
------------------------------------------------------------------------------
(* What is left of argv is the end of it. *)
TypeOK ==
  /\ args \in Seq(Arguments) /\ Len(args) <= Len(argv)
  /\ args = SubSeq(argv, Len(argv) - Len(args) + 1, Len(argv))
  /\ options \in [Keys -> Seq(Range(Positional) \cup Arguments)]
  /\ cron_mode \in BOOLEAN
  /\ outcome \in {"parsing", "run", "EXIT_SUCCESS", "EX_USAGE"}

(* The arguments at some positions, in their order.                        *)
IsPositional(a, i) == ~IsValue(a, i) /\ a[i] \in DOMAIN Positional
Text(a, i) == IF IsPositional(a, i) THEN Positional[a[i]] ELSE a[i]
Nth(P, k) == {i \in P : Cardinality({j \in P : j <= i}) = k}
Listed(a, P) == [k \in 1..Cardinality(P) |-> Text(a, CHOOSE i \in Nth(P, k) : TRUE)]

Positionals(a) == {i \in Own(a) : IsPositional(a, i)}
Values(a, t) == {i \in Own(a) : IsValue(a, i) /\ a[i - 1] = t}
Places(a, t) == {i \in Own(a) : a[i] = t}
Acceptable(a, i) ==
  /\ IsValue(a, i) \/ a[i] \in DOMAIN Switch \cup DOMAIN FileOption \cup DOMAIN Positional
  /\ a[i] \in DOMAIN FileOption => i < Len(a)

(* From the first word, empty argument or "--" on, which is not passed on, *)
(* every argument reaches the command, unchanged and in order: also empty  *)
(* ones, a second "--" and those that look like options of dtee.  Only     *)
(* what Boost makes positional by itself comes before them.                *)
CommandAsWritten == outcome = "run" => Command = Listed(argv, Positionals(argv)) \o CommandPart(argv)

(* Nothing after that point has any effect on dtee, and everything before  *)
(* it has: the output files in their order, and the two modes, of which    *)
(* cronty implies one.                                                     *)
OptionsBeforeCommand ==
  outcome = "run" =>
    /\ \A t \in DOMAIN FileOption : List(FileOption[t]) = Listed(argv, Values(argv, t))
    /\ Flag("ignore-interrupts") <=> Places(argv, "-i") # {}
    /\ cron_mode <=> name = "cronty" \/ Places(argv, "-q") # {}

(* dtee runs something unless it must not: with an option it does not know *)
(* or cannot complete, or one that only asks for information; there is     *)
(* always a first argument for execute() to take.                          *)
RunsWhenItShould ==
  outcome \in {"run", "EX_USAGE"} =>
    (outcome = "run" <=>
       /\ \A i \in Own(argv) : Acceptable(argv, i)
       /\ \A t \in DOMAIN Switch : \A i, j \in Places(argv, t) : i = j
       /\ Listed(argv, Positionals(argv)) \o CommandPart(argv) # <<>>)
==============================================================================
