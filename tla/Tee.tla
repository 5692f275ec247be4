---------------------------------- MODULE Tee ----------------------------------
(***************************************************************************)
(* What dtee promises, without saying how: everything a command writes is  *)
(* taken in order, shown (or held back as a whole, as in cron mode) and    *)
(* kept in the files that are to have it.  Output may be lost, but not     *)
(* without trouble, and dtee reports success only when there was none.     *)
(* Should dtee break down, it may show once more what it has shown before. *)
(***************************************************************************)
EXTENDS Integers, Sequences

CONSTANTS
  Streams,      \* the streams a command writes to
  Files,        \* the output files
  Wants(_, _)   \* Wants(f, s): file f keeps what is written to stream s

VARIABLES
  written,  \* the stream of each unit written
  taken,    \* how many of them have reached dtee
  shown,    \* those on the original outputs, in the order they came out
  held,     \* those held back
  kept,     \* those in each file
  trouble,  \* something has happened that is no success
  broken,   \* in particular, dtee itself has broken down
  status    \* the exit status, or -1

vars == <<written, taken, shown, held, kept, trouble, broken, status>>

Init ==
  /\ written = <<>> /\ taken = 0
  /\ shown = <<>> /\ held = {} /\ kept = [f \in Files |-> {}]
  /\ trouble = FALSE /\ broken = FALSE /\ status = -1

Extends(longer, s) ==
  Len(longer) >= Len(s) /\ SubSeq(longer, 1, Len(s)) = s

(* The command writes. *)
Write ==
  /\ Len(written') > Len(written) /\ Extends(written', written)
  /\ written' \in Seq(Streams)
  /\ UNCHANGED <<taken, shown, held, kept, trouble, broken, status>>

ShownUnits == {shown[i] : i \in DOMAIN shown}

(* Units are seen in the order they were written, and only when none are   *)
(* held back, unless dtee has broken down and begins again, once.          *)
InOrder ==
  IF broken
  THEN \E k \in 0..Len(shown) :
         \A i, j \in DOMAIN shown : i < j /\ (j <= k \/ i > k) => shown[i] < shown[j]
  ELSE /\ \A i, j \in DOMAIN shown : i < j => shown[i] < shown[j]
       /\ shown # <<>> => held = {}

(* Nothing has been lost. *)
Complete ==
  \A n \in 1..taken :
    /\ n \in ShownUnits \cup held
    /\ \A f \in Files : Wants(f, written[n]) => n \in kept[f]

(* Nothing has been made up. *)
Genuine ==
  /\ taken \in 0..Len(written)
  /\ ShownUnits \cup held \subseteq 1..taken
  /\ \A f \in Files : kept[f] \subseteq {n \in 1..taken : Wants(f, written[n])}

(* dtee copies what it takes.  What is out cannot be taken back.           *)
Copy ==
  /\ status = -1
  /\ UNCHANGED <<written, status>>
  /\ taken' >= taken
  /\ Extends(shown', shown)
  /\ \A f \in Files : kept[f] \subseteq kept'[f]
  /\ trouble \/ broken' => trouble'
  /\ broken => broken'
  /\ Genuine' /\ InOrder' /\ (~trouble' => Complete')

(* dtee exits, maybe because of trouble just met.  Success means that all  *)
(* of the output has been dealt with.                                      *)
Exit ==
  /\ status = -1
  /\ status' \in Nat
  /\ trouble => trouble'
  /\ status' = 0 => ~trouble' /\ taken = Len(written)
  /\ UNCHANGED <<written, taken, shown, held, kept, broken>>

Next == Write \/ Copy \/ Exit

Spec == Init /\ [][Next]_vars
================================================================================
