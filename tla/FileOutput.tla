------------------------------ MODULE FileOutput ------------------------------
(***************************************************************************)
(* FileOutput (file_output.cpp): the files named by -o, -O, -e, -E, -c and *)
(* -C.  Each keeps the messages of one stream, or of both (COMBINED).      *)
(***************************************************************************)
EXTENDS DteeTypes, Sequences

CONSTANTS
  Files,      \* the output files of the command line
  Filter,     \* what each of them keeps
  Appending   \* those opened with O_APPEND, the others with O_TRUNC

ASSUME FilesAssumption ==
  Filter \in [Files -> FileOutputType] /\ Appending \subseteq Files

VARIABLES
  opened,   \* the files with fd_ >= 0
  failed,   \* the files with failed_ set: their latest write failed
  content,  \* what each file holds
  hurt      \* history: the files on which some call failed

fileVars == <<opened, failed, content, hurt>>

(* What a file already holds when dtee starts. *)
Existing == <<[type |-> "STDOUT", seq |-> 0]>>

FilesInit ==
  /\ opened = {}
  /\ failed = {}
  /\ content = [f \in Files |-> Existing]
  /\ hurt = {}

(* ~filtered_ || type == filter_type_ *)
Takes(f, type) == Filter[f] \in {type, "COMBINED"}

(* FileOutput::open() of every file, in turn: the others are opened even   *)
(* when one of them fails.                                                 *)
FilesOpen(ok) ==
  /\ opened' \in SUBSET Files
  /\ content' = [f \in Files |->
                   IF f \in opened' \ Appending THEN <<>> ELSE content[f]]
  /\ hurt' = hurt \cup (Files \ opened')
  /\ ok = (opened' = Files)
  /\ UNCHANGED failed

(* Mutant: a write that takes only part of a message is not an error.      *)
FilesOutputShort(type, units, ok) ==
  /\ \E ret \in [{f \in opened : Takes(f, type)} -> -1..Len(units)] :
       LET short == {f \in DOMAIN ret : ret[f] # Len(units)}
           wrong == {f \in short : ret[f] < 0}
       IN  /\ content' = [f \in Files |->
                            IF f \in DOMAIN ret
                            THEN content[f] \o SubSeq(units, 1, ret[f])
                            ELSE content[f]]
           /\ failed' = (failed \ DOMAIN ret) \cup wrong
           /\ hurt' = hurt \cup short
  /\ ok = (failed' = {})
  /\ UNCHANGED opened

(* FileOutput::output() of every file: each open file that takes the       *)
(* message writes it once.  A file that takes nothing still returns the    *)
(* failure of its latest write.                                            *)
FilesOutput(type, units, ok) ==
  /\ \E ret \in [{f \in opened : Takes(f, type)} -> -1..Len(units)] :
       LET short == {f \in DOMAIN ret : ret[f] # Len(units)}
       IN  /\ content' = [f \in Files |->
                            IF f \in DOMAIN ret
                            THEN content[f] \o SubSeq(units, 1, ret[f])
                            ELSE content[f]]
           /\ failed' = (failed \ DOMAIN ret) \cup short
           /\ hurt' = hurt \cup short
  /\ ok = (failed' = {})
  /\ UNCHANGED opened

(* FileOutput::output() of file f throws as it prints its first error in a *)
(* row: the files before it have had the message, those after it have not. *)
FilesOutputThrows(type, units) ==
  /\ \E f \in {g \in opened \ failed : Takes(g, type)} :
     \E before \in SUBSET ({g \in opened : Takes(g, type)} \ {f}) :
     \E ret \in [before \cup {f} -> -1..Len(units)] :
       LET short == {g \in DOMAIN ret : ret[g] # Len(units)}
       IN  /\ f \in short
           /\ content' = [g \in Files |->
                            IF g \in DOMAIN ret
                            THEN content[g] \o SubSeq(units, 1, ret[g])
                            ELSE content[g]]
           /\ failed' = (failed \ before) \cup (short \ {f})
           /\ hurt' = hurt \cup short
  /\ UNCHANGED opened

FilesTypeOK ==
  /\ opened \subseteq Files /\ failed \subseteq Files /\ hurt \subseteq Files
  /\ content \in [Files -> Seq(Unit)]
==============================================================================
