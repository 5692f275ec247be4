-------------------------- MODULE DescriptorsProofs --------------------------
(***************************************************************************)
(* Proofs about Descriptors: whichever descriptors dtee is started with,   *)
(* and however many files it opens.                                        *)
(*                                                                         *)
(* The argument is one about a single process, Tidy: every number kept is  *)
(* that of an open descriptor of dtee's, never 1 or 2, and every other     *)
(* descriptor is as it was when dtee was started.  Opening keeps it so     *)
(* because 1 and 2 are not free, and closing by number because no two      *)
(* things have the same number.                                            *)
(***************************************************************************)
EXTENDS Descriptors, FiniteSetTheorems, TLAPS

Other == Fd \ {STDOUT_FILENO, STDERR_FILENO}

(* What the descriptors g a process began with, its table t of descriptors *)
(* and the numbers h it keeps have to do with each other.                  *)
Tidy(g, t, h) ==
  /\ t \in [Fd -> Foreign \cup Owned]
  /\ h \in [Owned -> Fd \cup {-1}]
  /\ \A o \in Owned : h[o] >= 0 => t[h[o]] = o
  /\ \A o \in Owned : h[o] \notin {STDOUT_FILENO, STDERR_FILENO}
  /\ \A n \in Other : \/ t[n] = g[n]
                      \/ g[n] = "none" /\ t[n] \in Owned /\ h[t[n]] = n

LEMMA FdType == Fd \subseteq Nat /\ 1 \in Fd /\ 2 \in Fd
<1>1. Cardinality(OutputFiles) \in Nat
  BY DescriptorsAssumption, FS_CardinalityType
<1> QED BY <1>1, DescriptorsAssumption DEF Fd

LEMMA OwnedIsNotForeign ==
  /\ Owned \cap Foreign = {}
  /\ Foreign = {"stdin", "stdout", "stderr", "other", "null", "none"}
<1>1. Foreign = {"stdin", "stdout", "stderr", "other", "null", "none"}
  <2>1. {Usual[n] : n \in 0..3} = {Usual[0], Usual[1], Usual[2], Usual[3]}
    OBVIOUS
  <2>2. /\ Usual[0] = "stdin" /\ Usual[1] = "stdout"
        /\ Usual[2] = "stderr" /\ Usual[3] = "other"
    BY DEF Usual
  <2> QED BY <2>1, <2>2 DEF Foreign
<1> QED BY <1>1, DescriptorsAssumption DEF Owned, Files, Sockets

(* Opening something that is not open yet, when 1 and 2 are taken. *)
LEMMA OpenKeepsTidy ==
  ASSUME NEW g, NEW t, NEW h, Tidy(g, t, h),
         t[1] # "none", t[2] # "none",
         NEW o \in Owned, h[o] = -1,
         NEW n \in Fd, t[n] = "none"
  PROVE  /\ Tidy(g, [t EXCEPT ![n] = o], [h EXCEPT ![o] = n])
         /\ [t EXCEPT ![n] = o][1] = t[1]
         /\ [t EXCEPT ![n] = o][2] = t[2]
<1> DEFINE t2 == [t EXCEPT ![n] = o]
           h2 == [h EXCEPT ![o] = n]
<1>1. n \in Other
  BY FdType DEF Other, STDOUT_FILENO, STDERR_FILENO
<1>2. "none" \notin Owned
  BY OwnedIsNotForeign
<1>3. /\ t2 \in [Fd -> Foreign \cup Owned] /\ h2 \in [Owned -> Fd \cup {-1}]
      /\ t2[n] = o /\ h2[o] = n
      /\ \A m \in Fd : m # n => t2[m] = t[m]
      /\ \A q \in Owned : q # o => h2[q] = h[q]
  BY DEF Tidy
<1>4. \A q \in Owned : h2[q] >= 0 => t2[h2[q]] = q
  BY <1>2, <1>3, FdType DEF Tidy
<1>5. \A q \in Owned : h2[q] \notin {STDOUT_FILENO, STDERR_FILENO}
  BY <1>1, <1>3 DEF Tidy, Other
<1>6. ASSUME NEW m \in Other
      PROVE  t2[m] = g[m] \/ (g[m] = "none" /\ t2[m] \in Owned /\ h2[t2[m]] = m)
  <2>1. m \in Fd
    BY DEF Other
  <2>2. CASE m = n
    BY <2>2, <1>1, <1>2, <1>3 DEF Tidy
  <2>3. CASE m # n
    <3>1. t2[m] = t[m]
      BY <2>1, <2>3, <1>3
    <3>2. CASE t[m] = g[m]
      BY <3>1, <3>2
    <3>3. CASE g[m] = "none" /\ t[m] \in Owned /\ h[t[m]] = m
      BY <3>1, <3>3, <1>3, <2>1, FdType
    <3> QED BY <3>2, <3>3 DEF Tidy
  <2> QED BY <2>2, <2>3
<1>7. t2[1] = t[1] /\ t2[2] = t[2]
  BY <1>1, <1>3, FdType DEF Other, STDOUT_FILENO, STDERR_FILENO
<1> QED BY <1>3, <1>4, <1>5, <1>6, <1>7 DEF Tidy

(* Closing by number. *)
ClosedTable(t, h, owned) ==
  [n \in Fd |-> IF \E o \in owned : h[o] = n THEN "none" ELSE t[n]]
ClosedNumbers(h, owned) ==
  [o \in Owned |-> IF o \in owned THEN -1 ELSE h[o]]

LEMMA CloseKeepsTidy ==
  ASSUME NEW g \in [Fd -> Foreign], NEW t, NEW h, Tidy(g, t, h), NEW owned \in SUBSET Owned
  PROVE  /\ Tidy(g, ClosedTable(t, h, owned), ClosedNumbers(h, owned))
         /\ ClosedTable(t, h, owned)[1] = t[1]
         /\ ClosedTable(t, h, owned)[2] = t[2]
<1> DEFINE t2 == ClosedTable(t, h, owned)
           h2 == ClosedNumbers(h, owned)
<1>0. /\ t2 \in [Fd -> Foreign \cup Owned] /\ h2 \in [Owned -> Fd \cup {-1}]
      /\ \A n \in Fd : t2[n] = IF \E o \in owned : h[o] = n THEN "none" ELSE t[n]
      /\ \A o \in Owned : h2[o] = IF o \in owned THEN -1 ELSE h[o]
  BY OwnedIsNotForeign DEF Tidy, ClosedTable, ClosedNumbers
<1> HIDE DEF t2, h2
<1>1. \A o \in Owned : h[o] \in Fd \cup {-1} /\ h[o] # 1 /\ h[o] # 2
  BY DEF Tidy, STDOUT_FILENO, STDERR_FILENO
<1>2. t2[1] = t[1] /\ t2[2] = t[2]
  BY <1>0, <1>1, FdType
<1>4. ASSUME NEW o \in Owned, h2[o] >= 0
      PROVE  t2[h2[o]] = o
  <2>1. o \notin owned /\ h2[o] = h[o] /\ h[o] \in Fd /\ t[h[o]] = o
    BY <1>0, <1>1, <1>4 DEF Tidy
  <2>2. \A q \in owned : h[q] # h[o]
    <3>1. ASSUME NEW q \in owned, h[q] = h[o]
          PROVE  FALSE
      <4>0. h[o] \in Nat
        BY <2>1, FdType
      <4>1. q \in Owned /\ h[q] >= 0
        BY <4>0, <3>1
      <4>2. t[h[q]] = q
        BY <4>1 DEF Tidy
      <4> QED BY <4>2, <3>1, <2>1
    <3> QED BY <3>1
  <2> QED BY <1>0, <2>1, <2>2
<1>5. \A o \in Owned : h2[o] \notin {STDOUT_FILENO, STDERR_FILENO}
  BY <1>0, <1>1 DEF STDOUT_FILENO, STDERR_FILENO
<1>6. ASSUME NEW n \in Other
      PROVE  t2[n] = g[n] \/ (g[n] = "none" /\ t2[n] \in Owned /\ h2[t2[n]] = n)
  <2>1. n \in Fd /\ n \in Nat
    BY FdType DEF Other
  <2>2. CASE \E o \in owned : h[o] = n
    <3>1. PICK o \in owned : h[o] = n
      BY <2>2
    <3>2. t[n] = o /\ t2[n] = "none"
      BY <1>0, <3>1, <2>1 DEF Tidy
    <3>3. CASE t[n] = g[n]
      BY <3>1, <3>2, <3>3, <2>1, OwnedIsNotForeign
    <3>4. CASE g[n] = "none"
      BY <3>2, <3>4
    <3> QED BY <3>3, <3>4 DEF Tidy
  <2>3. CASE ~\E o \in owned : h[o] = n
    <3>1. t2[n] = t[n]
      BY <1>0, <2>1, <2>3
    <3>2. CASE t[n] = g[n]
      BY <3>1, <3>2
    <3>3. CASE g[n] = "none" /\ t[n] \in Owned /\ h[t[n]] = n
      BY <1>0, <3>1, <3>3, <2>3
    <3> QED BY <3>2, <3>3 DEF Tidy
  <2> QED BY <2>2, <2>3
<1>7. Tidy(g, t2, h2)
  BY <1>0, <1>4, <1>5, <1>6 DEF Tidy
<1> QED BY <1>2, <1>7 DEF t2, h2
------------------------------------------------------------------------------
(* The inductive invariant.                                                *)

TypeInv ==
  /\ place \in [Processes -> Places] /\ given \in [Fd -> Foreign]
  /\ place["dtee"] \notin {"none", "dup2", "close"}
  /\ place["child"] \in {"none", "dup2", "close", "command"}
  /\ table \in [Processes -> [Fd -> Foreign \cup Owned]]
  /\ held \in [Processes -> [Owned -> Fd \cup {-1}]]
  /\ toOpen \subseteq Files /\ failed \in BOOLEAN /\ directory \in BOOLEAN
  /\ names \subseteq Sockets /\ files \subseteq Sockets

AllTidy == \A p \in Processes : Tidy(given, table[p], held[p])

(* Which of dtee's own descriptors 1 and 2 have been seen to so far.       *)
StandardInv ==
  /\ place["dtee"] = "stdout" => table["dtee"][1] \in {"stdout", "none"}
  /\ place["dtee"] = "stderr" => table["dtee"][1] \in {"stdout", "null"}
  /\ place["dtee"] \in {"stdout", "stderr"} => table["dtee"][2] \in {"stderr", "none"}
  /\ OutputsAreNotReused

(* What has and what has not been opened yet, or is closed again.          *)
OpenedInv ==
  /\ place["dtee"] \in {"stdout", "stderr", "application"} =>
       \A o \in Owned : held["dtee"][o] = -1
  /\ place["dtee"] = "outputs" => \A o \in Sockets \cup toOpen : held["dtee"][o] = -1
  /\ place["dtee"] = "input" => \A o \in Sockets : held["dtee"][o] = -1
  /\ place["dtee"] = "out" => \A o \in {"out", "err"} : held["dtee"][o] = -1
  /\ place["dtee"] = "err" => held["dtee"]["err"] = -1 /\ held["dtee"]["out"] >= 0
  /\ place["dtee"] \in {"inputOpened", "fork"} =>
       held["dtee"]["out"] >= 0 /\ held["dtee"]["err"] >= 0
  /\ place["child"] = "dup2" => held["child"]["out"] >= 0 /\ held["child"]["err"] >= 0
  /\ \A p \in Processes : place[p] = "command" => \A o \in Owned : held[p][o] = -1

DuplicatedInv ==
  place["child"] \in {"close", "command"} =>
    /\ STDOUT_FILENO \in duplicated => table["child"][STDOUT_FILENO] = "out"
    /\ STDERR_FILENO \in duplicated => table["child"][STDERR_FILENO] = "err"

TemporaryInv == names \subseteq files /\ TemporaryRemoved

IInv == TypeInv /\ AllTidy /\ StandardInv /\ OpenedInv /\ DuplicatedInv /\ TemporaryInv
------------------------------------------------------------------------------
(* What the steps that open and close do to all of this.                   *)

LEMMA OpensStep ==
  ASSUME TypeInv, AllTidy, NEW o \in Owned, held["dtee"][o] = -1,
         table["dtee"][1] # "none", table["dtee"][2] # "none",
         Opens("dtee", o), UNCHANGED given
  PROVE  /\ AllTidy'
         /\ table' \in [Processes -> [Fd -> Foreign \cup Owned]]
         /\ held' \in [Processes -> [Owned -> Fd \cup {-1}]]
         /\ table'["child"] = table["child"] /\ held'["child"] = held["child"]
         /\ table'["dtee"][1] = table["dtee"][1] /\ table'["dtee"][2] = table["dtee"][2]
         /\ held'["dtee"][o] \in Fd
         /\ \A q \in Owned : q # o => held'["dtee"][q] = held["dtee"][q]
<1>1. PICK n \in Fd :
        /\ LowestFree(table["dtee"], n)
        /\ table' = [table EXCEPT !["dtee"][n] = o]
        /\ held' = [held EXCEPT !["dtee"][o] = n]
  BY DEF Opens
<1>2. table["dtee"][n] = "none"
  BY <1>1 DEF LowestFree
<1>3. "dtee" \in Processes /\ "child" \in Processes
  BY DEF Processes
<1>4. /\ table' \in [Processes -> [Fd -> Foreign \cup Owned]]
      /\ held' \in [Processes -> [Owned -> Fd \cup {-1}]]
      /\ table'["dtee"] = [table["dtee"] EXCEPT ![n] = o]
      /\ held'["dtee"] = [held["dtee"] EXCEPT ![o] = n]
      /\ table'["child"] = table["child"] /\ held'["child"] = held["child"]
  BY <1>1, <1>3 DEF TypeInv
<1>5. Tidy(given, table["dtee"], held["dtee"]) /\ Tidy(given, table["child"], held["child"])
  BY <1>3 DEF AllTidy
<1>6. /\ Tidy(given, [table["dtee"] EXCEPT ![n] = o], [held["dtee"] EXCEPT ![o] = n])
      /\ [table["dtee"] EXCEPT ![n] = o][1] = table["dtee"][1]
      /\ [table["dtee"] EXCEPT ![n] = o][2] = table["dtee"][2]
  BY <1>2, <1>5, OpenKeepsTidy
<1>7. AllTidy'
  <2>1. Tidy(given', table'["dtee"], held'["dtee"])
    BY <1>4, <1>6
  <2>2. Tidy(given', table'["child"], held'["child"])
    BY <1>4, <1>5
  <2>3. \A p \in Processes : p = "dtee" \/ p = "child"
    BY DEF Processes
  <2>4. \A p \in Processes : Tidy(given', table'[p], held'[p])
    BY <2>1, <2>2, <2>3
  <2> QED BY <2>4 DEF AllTidy, Tidy
<1>8. held'["dtee"][o] = n /\ \A q \in Owned : q # o => held'["dtee"][q] = held["dtee"][q]
  BY <1>3, <1>4 DEF TypeInv
<1> QED BY <1>4, <1>6, <1>7, <1>8

LEMMA ClosesStep ==
  ASSUME TypeInv, AllTidy, NEW p \in Processes, NEW owned \in SUBSET Owned,
         Closes(p, owned), UNCHANGED given
  PROVE  /\ AllTidy'
         /\ table' \in [Processes -> [Fd -> Foreign \cup Owned]]
         /\ held' \in [Processes -> [Owned -> Fd \cup {-1}]]
         /\ \A q \in Processes : q # p => table'[q] = table[q] /\ held'[q] = held[q]
         /\ table'[p][1] = table[p][1] /\ table'[p][2] = table[p][2]
         /\ \A o \in owned : held'[p][o] = -1
<1> DEFINE t2 == ClosedTable(table[p], held[p], owned)
           h2 == ClosedNumbers(held[p], owned)
<1>1. table' = [table EXCEPT ![p] = t2] /\ held' = [held EXCEPT ![p] = h2]
  BY DEF Closes, ClosedTable, ClosedNumbers
<1>2. given \in [Fd -> Foreign]
  BY DEF TypeInv
<1>3. \A q \in Processes : Tidy(given, table[q], held[q])
  BY DEF AllTidy
<1>4. Tidy(given, t2, h2) /\ t2[1] = table[p][1] /\ t2[2] = table[p][2]
  BY <1>2, <1>3, CloseKeepsTidy
<1>5. \A o \in owned : h2[o] = -1
  BY DEF ClosedNumbers
<1>6. t2 \in [Fd -> Foreign \cup Owned] /\ h2 \in [Owned -> Fd \cup {-1}]
  BY <1>4 DEF Tidy
<1> HIDE DEF t2, h2
<1>7. /\ table' \in [Processes -> [Fd -> Foreign \cup Owned]]
      /\ held' \in [Processes -> [Owned -> Fd \cup {-1}]]
      /\ table'[p] = t2 /\ held'[p] = h2
      /\ \A q \in Processes : q # p => table'[q] = table[q] /\ held'[q] = held[q]
  BY <1>1, <1>6 DEF TypeInv
<1>8. AllTidy'
  <2>1. \A q \in Processes : Tidy(given', table'[q], held'[q])
    <3>1. Tidy(given', table'[p], held'[p])
      BY <1>4, <1>7
    <3>2. ASSUME NEW q \in Processes, q # p
          PROVE  Tidy(given', table'[q], held'[q])
      BY <1>3, <1>7, <3>2
    <3> QED BY <3>1, <3>2
  <2> QED BY <2>1 DEF AllTidy, Tidy
<1> QED BY <1>4, <1>5, <1>7, <1>8

(* Changing descriptors 1 and 2 alone, which nothing kept points to.       *)
LEMMA StandardKeepsTidy ==
  ASSUME NEW g, NEW t, NEW h, Tidy(g, t, h),
         NEW t2 \in [Fd -> Foreign \cup Owned],
         \A n \in Other : t2[n] = t[n]
  PROVE  Tidy(g, t2, h)
<1>1. \A o \in Owned : h[o] >= 0 => h[o] \in Other
  <2>1. \A o \in Owned : h[o] \in Fd \cup {-1}
    BY DEF Tidy
  <2>2. ~(-1 >= 0)
    OBVIOUS
  <2> QED BY <2>1, <2>2 DEF Tidy, Other
<1> QED BY <1>1 DEF Tidy
------------------------------------------------------------------------------
LEMMA InitInv == Init => IInv
<1> SUFFICES ASSUME Init
             PROVE  IInv
  OBVIOUS
<1>1. PICK open \in SUBSET (0..3) : given = [n \in Fd |-> IF n \in open THEN Usual[n] ELSE "none"]
  BY DEF Init
<1>2. /\ Usual[1] = "stdout" /\ Usual[2] = "stderr"
      /\ \A n \in 0..3 : Usual[n] \in Foreign
  BY DEF Usual, Foreign
<1>3. /\ given \in [Fd -> Foreign]
      /\ given[1] \in {"stdout", "none"} /\ given[2] \in {"stderr", "none"}
  BY <1>1, <1>2, FdType, OwnedIsNotForeign
<1>4. /\ place["dtee"] = "stdout" /\ place["child"] = "none"
      /\ place \in [Processes -> Places]
  BY DEF Init, Processes, Places
<1>a. /\ \A p \in Processes : table[p] = given /\ \A o \in Owned : held[p][o] = -1
      /\ table \in [Processes -> [Fd -> Foreign \cup Owned]]
      /\ held \in [Processes -> [Owned -> Fd \cup {-1}]]
  BY <1>3 DEF Init
<1>5. TypeInv
  BY <1>3, <1>4, <1>a DEF Init, TypeInv
<1>6. AllTidy
  BY <1>4, <1>a DEF AllTidy, Tidy, STDOUT_FILENO, STDERR_FILENO
<1>7. table["dtee"] = given
  BY <1>4, <1>a DEF Processes
<1>8. StandardInv
  BY <1>3, <1>4, <1>7 DEF StandardInv, OutputsAreNotReused
<1>9. OpenedInv
  BY <1>4, <1>a DEF OpenedInv, Processes
<1>10. DuplicatedInv
  BY <1>4, <1>a DEF DuplicatedInv
<1>11. TemporaryInv
  BY DEF Init, TemporaryInv, TemporaryRemoved
<1> QED BY <1>5, <1>6, <1>8, <1>9, <1>10, <1>11 DEF IInv

LEMMA GotoStep ==
  ASSUME TypeInv, NEW p \in Processes, NEW next \in Places, Goto(p, next)
  PROVE  /\ place' \in [Processes -> Places]
         /\ place'[p] = next
         /\ \A q \in Processes : q # p => place'[q] = place[q]
BY DEF TypeInv, Goto

LEMMA CreateMissingFdsInv ==
  ASSUME IInv, CreateMissingFds
  PROVE  IInv'
<1> USE DEF STDOUT_FILENO, STDERR_FILENO
<1>1. PICK fd \in {1, 2}, next \in {"stderr", "application"} :
        /\ fd = 1 => place["dtee"] = "stdout" /\ next = "stderr"
        /\ fd = 2 => place["dtee"] = "stderr" /\ next = "application"
        /\ CreateMissing(fd, next)
  BY DEF CreateMissingFds
<1>2. UNCHANGED <<given, held, toOpen, failed, duplicated, dirVars>>
  BY DEF CreateMissingFds
<1>3. "dtee" \in Processes /\ "child" \in Processes /\ "dtee" # "child"
  BY DEF Processes
<1>4. PICK at \in {next, "exited"} :
        /\ Goto("dtee", at)
        /\ \/ table' = table /\ (at # "exited" => table["dtee"][fd] # "none")
           \/ table' = [table EXCEPT !["dtee"][fd] = "null"]
  BY <1>1 DEF CreateMissing
<1>5. /\ place'["dtee"] = at /\ place'["child"] = place["child"]
      /\ place' \in [Processes -> Places]
  <2>1. at \in Places
    BY DEF Places
  <2> QED BY <1>3, <1>4, <2>1, GotoStep DEF IInv
<1>6. /\ table \in [Processes -> [Fd -> Foreign \cup Owned]]
      /\ fd \in Fd /\ "null" \in Foreign
  BY FdType, OwnedIsNotForeign DEF IInv, TypeInv
<1>7. /\ table' \in [Processes -> [Fd -> Foreign \cup Owned]]
      /\ table'["child"] = table["child"]
      /\ \A n \in Fd : n # fd => table'["dtee"][n] = table["dtee"][n]
      /\ at # "exited" => \/ table'["dtee"][fd] = table["dtee"][fd] /\ table["dtee"][fd] # "none"
                          \/ table'["dtee"][fd] = "null"
  <2>1. CASE table' = table /\ (at # "exited" => table["dtee"][fd] # "none")
    BY <1>6, <2>1
  <2>2. CASE table' = [table EXCEPT !["dtee"][fd] = "null"]
    BY <1>3, <1>6, <2>2
  <2> QED BY <1>4, <2>1, <2>2
<1>8. TypeInv'
  BY <1>1, <1>2, <1>5, <1>7 DEF IInv, TypeInv, dirVars
<1>9. AllTidy'
  <2>1. ASSUME NEW p \in Processes
        PROVE  Tidy(given, table'[p], held[p])
    <3>1. Tidy(given, table[p], held[p])
      BY DEF IInv, AllTidy
    <3>2. \A n \in Other : table'[p][n] = table[p][n]
      BY <1>7 DEF Other, Processes
    <3>3. table'[p] \in [Fd -> Foreign \cup Owned]
      BY <1>7
    <3> QED BY <3>1, <3>2, <3>3, StandardKeepsTidy
  <2> QED BY <1>2, <2>1 DEF AllTidy, Tidy
<1>10. StandardInv'
  BY <1>1, <1>5, <1>7, FdType DEF IInv, StandardInv, OutputsAreNotReused
<1>11. OpenedInv'
  BY <1>1, <1>2, <1>3, <1>5 DEF IInv, OpenedInv, TypeInv, Processes
<1>12. DuplicatedInv'
  BY <1>2, <1>5, <1>7 DEF IInv, DuplicatedInv
<1>13. TemporaryInv'
  BY <1>1, <1>2, <1>5 DEF IInv, TemporaryInv, TemporaryRemoved, dirVars, Sockets
<1> QED BY <1>8, <1>9, <1>10, <1>11, <1>12, <1>13 DEF IInv

LEMMA CreateContextInv ==
  ASSUME IInv, CreateContext
  PROVE  IInv'
<1> USE DEF STDOUT_FILENO, STDERR_FILENO
<1>1. /\ place["dtee"] = "application" /\ Opens("dtee", "reactor")
      /\ toOpen' = Files /\ Goto("dtee", "outputs")
      /\ UNCHANGED <<given, failed, duplicated, directory, names, files>>
  BY DEF CreateContext, dirVars
<1>2. /\ "dtee" \in Processes /\ "child" \in Processes /\ "outputs" \in Places
      /\ "reactor" \in Owned /\ "reactor" \notin Sockets /\ Sockets \subseteq Owned
      /\ Files \subseteq Owned /\ "reactor" \notin Files
  BY DescriptorsAssumption DEF Processes, Places, Owned, Files, Sockets
<1>3. /\ place'["dtee"] = "outputs" /\ place'["child"] = place["child"]
      /\ place' \in [Processes -> Places]
  BY <1>1, <1>2, GotoStep DEF IInv, Processes
<1>4. /\ held["dtee"]["reactor"] = -1
      /\ table["dtee"][1] \in {"stdout", "null"} /\ table["dtee"][2] \in {"stderr", "null"}
  BY <1>1, <1>2 DEF IInv, OpenedInv, StandardInv, OutputsAreNotReused
<1>5. /\ AllTidy'
      /\ table' \in [Processes -> [Fd -> Foreign \cup Owned]]
      /\ held' \in [Processes -> [Owned -> Fd \cup {-1}]]
      /\ table'["child"] = table["child"] /\ held'["child"] = held["child"]
      /\ table'["dtee"][1] = table["dtee"][1] /\ table'["dtee"][2] = table["dtee"][2]
      /\ \A q \in Owned : q # "reactor" => held'["dtee"][q] = held["dtee"][q]
  BY <1>1, <1>2, <1>4, OpensStep DEF IInv
<1>6. TypeInv'
  BY <1>1, <1>3, <1>5 DEF IInv, TypeInv
<1>7. StandardInv'
  BY <1>3, <1>4, <1>5 DEF StandardInv, OutputsAreNotReused
<1>8. OpenedInv'
  <2>1. \A o \in Sockets \cup Files : held'["dtee"][o] = -1
    BY <1>1, <1>2, <1>5 DEF IInv, OpenedInv
  <2> QED BY <1>1, <1>3, <1>5, <2>1 DEF IInv, OpenedInv, Processes
<1>9. DuplicatedInv'
  BY <1>1, <1>3, <1>5 DEF IInv, DuplicatedInv
<1>10. TemporaryInv'
  BY <1>1, <1>3 DEF IInv, TemporaryInv, TemporaryRemoved, Sockets
<1> QED BY <1>5, <1>6, <1>7, <1>8, <1>9, <1>10 DEF IInv

LEMMA OpenOutputInv ==
  ASSUME IInv, OpenOutput
  PROVE  IInv'
<1> USE DEF STDOUT_FILENO, STDERR_FILENO
<1>1. PICK o \in toOpen :
        /\ toOpen' = toOpen \ {o}
        /\ \/ Opens("dtee", o) /\ UNCHANGED failed
           \/ failed' = TRUE /\ UNCHANGED <<table, held>>
  BY DEF OpenOutput
<1>2. /\ place["dtee"] = "outputs"
      /\ UNCHANGED <<place, given, duplicated, directory, names, files>>
  BY DEF OpenOutput, dirVars
<1>3. /\ "dtee" \in Processes /\ "child" \in Processes
      /\ o \in Owned /\ o \notin Sockets /\ Sockets \subseteq Owned /\ toOpen \subseteq Owned
  BY DescriptorsAssumption DEF Processes, Owned, Files, Sockets, IInv, TypeInv
<1>4. /\ held["dtee"][o] = -1
      /\ table["dtee"][1] \in {"stdout", "null"} /\ table["dtee"][2] \in {"stderr", "null"}
  BY <1>2 DEF IInv, OpenedInv, StandardInv, OutputsAreNotReused
<1>5. /\ AllTidy' /\ failed' \in BOOLEAN
      /\ table' \in [Processes -> [Fd -> Foreign \cup Owned]]
      /\ held' \in [Processes -> [Owned -> Fd \cup {-1}]]
      /\ table'["child"] = table["child"] /\ held'["child"] = held["child"]
      /\ table'["dtee"][1] = table["dtee"][1] /\ table'["dtee"][2] = table["dtee"][2]
      /\ \A q \in Owned : q # o => held'["dtee"][q] = held["dtee"][q]
  <2>1. CASE Opens("dtee", o) /\ UNCHANGED failed
    BY <1>2, <1>3, <1>4, <2>1, OpensStep DEF IInv, TypeInv
  <2>2. CASE failed' = TRUE /\ UNCHANGED <<table, held>>
    BY <1>2, <2>2 DEF IInv, TypeInv, AllTidy, Tidy
  <2> QED BY <1>1, <2>1, <2>2
<1>6. TypeInv'
  BY <1>1, <1>2, <1>5 DEF IInv, TypeInv
<1>7. StandardInv'
  BY <1>2, <1>4, <1>5 DEF StandardInv, OutputsAreNotReused
<1>8. OpenedInv'
  <2>1. \A q \in Sockets \cup toOpen' : held'["dtee"][q] = -1
    BY <1>1, <1>2, <1>3, <1>5 DEF IInv, OpenedInv
  <2> QED BY <1>2, <1>5, <2>1 DEF IInv, OpenedInv, Processes
<1>9. DuplicatedInv'
  BY <1>2, <1>5 DEF IInv, DuplicatedInv
<1>10. TemporaryInv'
  BY <1>2 DEF IInv, TemporaryInv, TemporaryRemoved
<1> QED BY <1>5, <1>6, <1>7, <1>8, <1>9, <1>10 DEF IInv

LEMMA OpenInputInv ==
  ASSUME IInv, OpenInput
  PROVE  IInv'
<1>1. /\ place["dtee"] = "outputs"
      /\ UNCHANGED <<given, table, held, toOpen, failed, duplicated, names, files>>
  BY DEF OpenInput, dirVars
<1>2. PICK at \in {"input", "failed", "exited"} :
        /\ Goto("dtee", at)
        /\ IF at = "input" THEN directory' = TRUE ELSE directory' = directory
  BY DEF OpenInput, dirVars
<1>3. "dtee" \in Processes /\ "child" \in Processes /\ at \in Places
  BY DEF Processes, Places, Sockets
<1>4. /\ place'["dtee"] = at /\ place'["child"] = place["child"]
      /\ place' \in [Processes -> Places]
  BY <1>2, <1>3, GotoStep DEF IInv, Processes
<1>5. TypeInv'
  BY <1>1, <1>2, <1>4 DEF IInv, TypeInv
<1>6. AllTidy'
  BY <1>1 DEF IInv, AllTidy, Tidy
<1>7. StandardInv'
  BY <1>1, <1>4 DEF IInv, StandardInv, OutputsAreNotReused
<1>8. OpenedInv'
  BY <1>1, <1>4 DEF IInv, OpenedInv, Processes
<1>9. DuplicatedInv'
  BY <1>1, <1>4 DEF IInv, DuplicatedInv
<1>10. TemporaryInv'
  BY <1>1, <1>2, <1>4 DEF IInv, TemporaryInv, TemporaryRemoved, Sockets
<1> QED BY <1>5, <1>6, <1>7, <1>8, <1>9, <1>10 DEF IInv

LEMMA OpenSocketInv ==
  ASSUME IInv, NEW s \in Sockets, OpenSocket(s)
  PROVE  IInv'
<1> USE DEF STDOUT_FILENO, STDERR_FILENO
<1>1. /\ place["dtee"] = s /\ files' = files \cup {s}
      /\ UNCHANGED <<given, toOpen, failed, duplicated, directory>>
  BY DEF OpenSocket
<1>2. PICK at \in {After(s), "inputFailed"} :
        /\ Goto("dtee", at)
        /\ \/ Opens("dtee", s) /\ names' \in {names, names \cup {s}}
           \/ at = "inputFailed" /\ UNCHANGED <<table, held, names>>
  BY DEF OpenSocket
<1>3. /\ "dtee" \in Processes /\ "child" \in Processes
      /\ s \in Owned /\ Sockets \subseteq Owned /\ at \in Places
      /\ s = "input" => After(s) = "out"
      /\ s = "out" => After(s) = "err"
      /\ s = "err" => After(s) = "inputOpened"
      /\ s \in {"input", "out", "err"}
  BY DEF Processes, Places, Owned, Sockets, After
<1>4. /\ place'["dtee"] = at /\ place'["child"] = place["child"]
      /\ place' \in [Processes -> Places]
  BY <1>2, <1>3, GotoStep DEF IInv, Processes
<1>5. /\ held["dtee"][s] = -1
      /\ table["dtee"][1] \in {"stdout", "null"} /\ table["dtee"][2] \in {"stderr", "null"}
  BY <1>1, <1>3 DEF IInv, OpenedInv, StandardInv, OutputsAreNotReused
<1>6. /\ AllTidy'
      /\ table' \in [Processes -> [Fd -> Foreign \cup Owned]]
      /\ held' \in [Processes -> [Owned -> Fd \cup {-1}]]
      /\ table'["child"] = table["child"] /\ held'["child"] = held["child"]
      /\ table'["dtee"][1] = table["dtee"][1] /\ table'["dtee"][2] = table["dtee"][2]
      /\ at # "inputFailed" => held'["dtee"][s] \in Fd
      /\ \A q \in Owned : q # s => held'["dtee"][q] = held["dtee"][q]
      /\ names' \in {names, names \cup {s}}
  <2>1. CASE Opens("dtee", s) /\ names' \in {names, names \cup {s}}
    BY <1>1, <1>3, <1>5, <2>1, OpensStep DEF IInv
  <2>2. CASE at = "inputFailed" /\ UNCHANGED <<table, held, names>>
    BY <1>1, <2>2 DEF IInv, TypeInv, AllTidy, Tidy
  <2> QED BY <1>2, <2>1, <2>2
<1>7. TypeInv'
  BY <1>1, <1>2, <1>3, <1>4, <1>6 DEF IInv, TypeInv
<1>8. StandardInv'
  BY <1>2, <1>3, <1>4, <1>5, <1>6 DEF StandardInv, OutputsAreNotReused
<1>9. OpenedInv'
  <2>1. \A n \in Fd : n >= 0
    BY FdType
  <2>2. {"input", "out", "err"} \subseteq Owned /\ Sockets = {"input", "out", "err"}
    BY <1>3 DEF Sockets
  <2> QED BY <1>1, <1>2, <1>3, <1>4, <1>6, <2>1, <2>2 DEF IInv, OpenedInv, Processes
<1>10. DuplicatedInv'
  BY <1>1, <1>4, <1>6 DEF IInv, DuplicatedInv
<1>11. TemporaryInv'
  BY <1>1, <1>2, <1>3, <1>4, <1>6 DEF IInv, TemporaryInv, TemporaryRemoved, Sockets
<1> QED BY <1>6, <1>7, <1>8, <1>9, <1>10, <1>11 DEF IInv

LEMMA InputOpenedInv ==
  ASSUME IInv, InputOpened
  PROVE  IInv'
<1>1. /\ names' = names \ files /\ directory' = (names' # {}) /\ files' = {}
      /\ UNCHANGED <<given, table, held, toOpen, failed, duplicated>>
  BY DEF InputOpened
<1>2. PICK at \in {"fork", "failed"} :
        Goto("dtee", at) /\ (at = "fork" => place["dtee"] = "inputOpened")
                         /\ (at = "failed" => place["dtee"] = "inputFailed")
  BY DEF InputOpened
<1>3. "dtee" \in Processes /\ "child" \in Processes /\ at \in Places
  BY DEF Processes, Places
<1>4. /\ place'["dtee"] = at /\ place'["child"] = place["child"]
      /\ place' \in [Processes -> Places]
  BY <1>2, <1>3, GotoStep DEF IInv, Processes
<1>5. names' = {} /\ directory' = FALSE
  BY <1>1 DEF IInv, TemporaryInv
<1>6. TypeInv'
  BY <1>1, <1>2, <1>4, <1>5 DEF IInv, TypeInv
<1>7. AllTidy'
  BY <1>1 DEF IInv, AllTidy, Tidy
<1>8. StandardInv'
  BY <1>1, <1>2, <1>4 DEF IInv, StandardInv, OutputsAreNotReused
<1>9. OpenedInv'
  BY <1>1, <1>2, <1>4 DEF IInv, OpenedInv, Processes
<1>10. DuplicatedInv'
  BY <1>1, <1>4 DEF IInv, DuplicatedInv
<1>11. TemporaryInv'
  BY <1>1, <1>5 DEF TemporaryInv, TemporaryRemoved
<1> QED BY <1>6, <1>7, <1>8, <1>9, <1>10, <1>11 DEF IInv

LEMMA SetupFailsInv ==
  ASSUME IInv, SetupFails
  PROVE  IInv'
<1>1. /\ place["dtee"] = "fork" /\ Goto("dtee", "failed")
      /\ UNCHANGED <<given, table, held, toOpen, failed, duplicated, directory, names, files>>
  BY DEF SetupFails, dirVars
<1>2. "dtee" \in Processes /\ "child" \in Processes /\ "failed" \in Places
  BY DEF Processes, Places
<1>3. /\ place'["dtee"] = "failed" /\ place'["child"] = place["child"]
      /\ place' \in [Processes -> Places]
  BY <1>1, <1>2, GotoStep DEF IInv, Processes
<1>4. TypeInv'
  BY <1>1, <1>3 DEF IInv, TypeInv
<1>5. AllTidy'
  BY <1>1 DEF IInv, AllTidy, Tidy
<1>6. StandardInv' /\ OpenedInv'
  BY <1>1, <1>3 DEF IInv, StandardInv, OutputsAreNotReused, OpenedInv, Processes
<1>7. DuplicatedInv' /\ TemporaryInv'
  BY <1>1, <1>3 DEF IInv, DuplicatedInv, TemporaryInv, TemporaryRemoved, Sockets
<1> QED BY <1>4, <1>5, <1>6, <1>7 DEF IInv

LEMMA ForkInv ==
  ASSUME IInv, Fork
  PROVE  IInv'
<1>1. /\ place["dtee"] = "fork"
      /\ place' = [p \in Processes |-> IF p = "dtee" THEN "parent" ELSE "dup2"]
      /\ table' = [table EXCEPT !["child"] = table["dtee"]]
      /\ held' = [held EXCEPT !["child"] = held["dtee"]]
      /\ UNCHANGED <<given, toOpen, failed, duplicated, directory, names, files>>
  BY DEF Fork, dirVars
<1>2. "dtee" \in Processes /\ "child" \in Processes /\ "parent" \in Places /\ "dup2" \in Places
  BY DEF Processes, Places
<1>3. /\ place'["dtee"] = "parent" /\ place'["child"] = "dup2"
      /\ place' \in [Processes -> Places]
  BY <1>1, <1>2
<1>4. /\ table' \in [Processes -> [Fd -> Foreign \cup Owned]]
      /\ held' \in [Processes -> [Owned -> Fd \cup {-1}]]
      /\ \A p \in Processes : table'[p] = table["dtee"] /\ held'[p] = held["dtee"]
  BY <1>1, <1>2 DEF IInv, TypeInv, Processes
<1>5. TypeInv'
  BY <1>1, <1>3, <1>4 DEF IInv, TypeInv
<1>6. AllTidy'
  <2>1. Tidy(given, table["dtee"], held["dtee"])
    BY <1>2 DEF IInv, AllTidy
  <2>2. \A p \in Processes : Tidy(given', table'[p], held'[p])
    BY <1>1, <1>4, <2>1
  <2> QED BY <2>2 DEF AllTidy, Tidy
<1>7. StandardInv' /\ OpenedInv'
  BY <1>1, <1>2, <1>3, <1>4 DEF IInv, StandardInv, OutputsAreNotReused, OpenedInv, Processes
<1>8. DuplicatedInv' /\ TemporaryInv'
  BY <1>1, <1>3 DEF IInv, DuplicatedInv, TemporaryInv, TemporaryRemoved, Sockets
<1> QED BY <1>5, <1>6, <1>7, <1>8 DEF IInv

LEMMA ForkParentInv ==
  ASSUME IInv, ForkParent
  PROVE  IInv'
<1>1. /\ place["dtee"] = "parent" /\ Closes("dtee", {"out", "err"}) /\ Goto("dtee", "loop")
      /\ UNCHANGED <<given, toOpen, failed, duplicated, directory, names, files>>
  BY DEF ForkParent, dirVars
<1>2. /\ "dtee" \in Processes /\ "child" \in Processes /\ "loop" \in Places
      /\ {"out", "err"} \in SUBSET Owned
  BY DEF Processes, Places, Owned, Sockets
<1>3. /\ place'["dtee"] = "loop" /\ place'["child"] = place["child"]
      /\ place' \in [Processes -> Places]
  BY <1>1, <1>2, GotoStep DEF IInv, Processes
<1>4. /\ AllTidy'
      /\ table' \in [Processes -> [Fd -> Foreign \cup Owned]]
      /\ held' \in [Processes -> [Owned -> Fd \cup {-1}]]
      /\ table'["child"] = table["child"] /\ held'["child"] = held["child"]
      /\ table'["dtee"][1] = table["dtee"][1] /\ table'["dtee"][2] = table["dtee"][2]
  BY <1>1, <1>2, ClosesStep DEF IInv, Processes
<1>5. TypeInv'
  BY <1>1, <1>3, <1>4 DEF IInv, TypeInv
<1>6. StandardInv' /\ OpenedInv'
  BY <1>1, <1>2, <1>3, <1>4
  DEF IInv, StandardInv, OutputsAreNotReused, OpenedInv, Processes, STDOUT_FILENO, STDERR_FILENO
<1>7. DuplicatedInv' /\ TemporaryInv'
  BY <1>1, <1>3, <1>4 DEF IInv, DuplicatedInv, TemporaryInv, TemporaryRemoved, Sockets
<1> QED BY <1>4, <1>5, <1>6, <1>7 DEF IInv

LEMMA DuplicateInv ==
  ASSUME IInv, Duplicate
  PROVE  IInv'
<1> USE DEF STDOUT_FILENO, STDERR_FILENO
<1>1. /\ place["child"] = "dup2" /\ Goto("child", "close")
      /\ UNCHANGED <<given, held, toOpen, failed, directory, names, files>>
  BY DEF Duplicate, dirVars
<1> DEFINE t == table["child"]
           h == held["child"]
           t1(done) == IF 1 \in done THEN [t EXCEPT ![1] = t[h["out"]]] ELSE t
           t2(done) == IF 2 \in done THEN [t1(done) EXCEPT ![2] = t1(done)[h["err"]]] ELSE t1(done)
<1>2. PICK done \in SUBSET {1, 2} :
        duplicated' = done /\ table' = [table EXCEPT !["child"] = t2(done)]
  BY DEF Duplicate
<1>3. /\ "dtee" \in Processes /\ "child" \in Processes /\ "close" \in Places
      /\ "out" \in Owned /\ "err" \in Owned
  BY DEF Processes, Places, Owned, Sockets
<1>4. /\ place'["child"] = "close" /\ place'["dtee"] = place["dtee"]
      /\ place' \in [Processes -> Places]
  BY <1>1, <1>3, GotoStep DEF IInv, Processes
<1>5. Tidy(given, t, h) /\ t \in [Fd -> Foreign \cup Owned]
  BY <1>3 DEF IInv, AllTidy, Tidy
<1>6. /\ h["out"] \in Other /\ t[h["out"]] = "out"
      /\ h["err"] \in Other /\ t[h["err"]] = "err"
  <2>1. h["out"] >= 0 /\ h["err"] >= 0
    BY <1>1 DEF IInv, OpenedInv
  <2>2. h["out"] \in Fd \cup {-1} /\ h["err"] \in Fd \cup {-1}
    BY <1>3, <1>5 DEF Tidy
  <2> QED BY <1>3, <1>5, <2>1, <2>2 DEF Tidy, Other
<1>7. /\ t1(done) \in [Fd -> Foreign \cup Owned]
      /\ \A n \in Fd : n # 1 => t1(done)[n] = t[n]
      /\ 1 \in done => t1(done)[1] = "out"
  BY <1>3, <1>5, <1>6, FdType
<1> HIDE DEF t, h, t1
<1>8. /\ t2(done) \in [Fd -> Foreign \cup Owned]
      /\ \A n \in Other : t2(done)[n] = t[n]
      /\ 1 \in done => t2(done)[1] = "out"
      /\ 2 \in done => t2(done)[2] = "err"
  BY <1>3, <1>6, <1>7, FdType DEF Other
<1> HIDE DEF t2
<1>9. /\ table' \in [Processes -> [Fd -> Foreign \cup Owned]]
      /\ table'["child"] = t2(done) /\ table'["dtee"] = table["dtee"]
  BY <1>2, <1>3, <1>8 DEF IInv, TypeInv
<1>10. TypeInv'
  BY <1>1, <1>4, <1>9 DEF IInv, TypeInv
<1>11. AllTidy'
  <2>1. Tidy(given, t2(done), h)
    BY <1>5, <1>8, StandardKeepsTidy
  <2>2. Tidy(given', table'["child"], held'["child"])
    BY <1>1, <1>9, <2>1 DEF h
  <2>3. Tidy(given', table'["dtee"], held'["dtee"])
    BY <1>1, <1>3, <1>9 DEF IInv, AllTidy
  <2>4. \A p \in Processes : Tidy(given', table'[p], held'[p])
    BY <2>2, <2>3 DEF Processes
  <2> QED BY <2>4 DEF AllTidy, Tidy
<1>12. StandardInv' /\ OpenedInv'
  BY <1>1, <1>4, <1>9 DEF IInv, StandardInv, OutputsAreNotReused, OpenedInv, Processes
<1>13. DuplicatedInv'
  BY <1>2, <1>8, <1>9 DEF DuplicatedInv
<1>14. TemporaryInv'
  BY <1>1, <1>4 DEF IInv, TemporaryInv, TemporaryRemoved
<1> QED BY <1>10, <1>11, <1>12, <1>13, <1>14 DEF IInv

LEMMA CloseInChildInv ==
  ASSUME IInv, CloseInChild
  PROVE  IInv'
<1>1. /\ place["child"] = "close" /\ Closes("child", Owned) /\ Goto("child", "command")
      /\ UNCHANGED <<given, toOpen, failed, duplicated, directory, names, files>>
  BY DEF CloseInChild, dirVars
<1>2. "dtee" \in Processes /\ "child" \in Processes /\ "command" \in Places
  BY DEF Processes, Places
<1>3. /\ place'["child"] = "command" /\ place'["dtee"] = place["dtee"]
      /\ place' \in [Processes -> Places]
  BY <1>1, <1>2, GotoStep DEF IInv, Processes
<1>4. /\ AllTidy'
      /\ table' \in [Processes -> [Fd -> Foreign \cup Owned]]
      /\ held' \in [Processes -> [Owned -> Fd \cup {-1}]]
      /\ table'["dtee"] = table["dtee"] /\ held'["dtee"] = held["dtee"]
      /\ table'["child"][1] = table["child"][1] /\ table'["child"][2] = table["child"][2]
      /\ \A o \in Owned : held'["child"][o] = -1
  BY <1>1, <1>2, ClosesStep DEF IInv, Processes
<1>5. TypeInv'
  BY <1>1, <1>3, <1>4 DEF IInv, TypeInv
<1>6. StandardInv' /\ OpenedInv'
  BY <1>1, <1>3, <1>4 DEF IInv, StandardInv, OutputsAreNotReused, OpenedInv, Processes
<1>7. DuplicatedInv' /\ TemporaryInv'
  BY <1>1, <1>3, <1>4
  DEF IInv, DuplicatedInv, TemporaryInv, TemporaryRemoved, STDOUT_FILENO, STDERR_FILENO
<1> QED BY <1>4, <1>5, <1>6, <1>7 DEF IInv

LEMMA CloseInDteeInv ==
  ASSUME IInv, CloseInDtee
  PROVE  IInv'
<1>1. /\ place["dtee"] = "failed" /\ Closes("dtee", Owned)
      /\ UNCHANGED <<given, toOpen, failed, duplicated, directory, names, files>>
  BY DEF CloseInDtee, dirVars
<1>2. PICK at \in {"command", "exited"} : Goto("dtee", at)
  BY DEF CloseInDtee
<1>3. "dtee" \in Processes /\ "child" \in Processes /\ at \in Places
  BY DEF Processes, Places
<1>4. /\ place'["dtee"] = at /\ place'["child"] = place["child"]
      /\ place' \in [Processes -> Places]
  BY <1>2, <1>3, GotoStep DEF IInv, Processes
<1>5. /\ AllTidy'
      /\ table' \in [Processes -> [Fd -> Foreign \cup Owned]]
      /\ held' \in [Processes -> [Owned -> Fd \cup {-1}]]
      /\ table'["child"] = table["child"] /\ held'["child"] = held["child"]
      /\ table'["dtee"][1] = table["dtee"][1] /\ table'["dtee"][2] = table["dtee"][2]
      /\ \A o \in Owned : held'["dtee"][o] = -1
  BY <1>1, <1>3, ClosesStep DEF IInv, Processes
<1>6. TypeInv'
  BY <1>1, <1>2, <1>4, <1>5 DEF IInv, TypeInv
<1>7. StandardInv' /\ OpenedInv'
  BY <1>1, <1>2, <1>4, <1>5
  DEF IInv, StandardInv, OutputsAreNotReused, OpenedInv, Processes, STDOUT_FILENO, STDERR_FILENO
<1>8. DuplicatedInv' /\ TemporaryInv'
  BY <1>1, <1>4, <1>5 DEF IInv, DuplicatedInv, TemporaryInv, TemporaryRemoved, Sockets
<1> QED BY <1>5, <1>6, <1>7, <1>8 DEF IInv

LEMMA StutterInv ==
  ASSUME IInv, UNCHANGED vars
  PROVE  IInv'
<1>1. UNCHANGED <<place, given, table, held, toOpen, failed, duplicated, directory, names, files>>
  BY DEF vars, dirVars
<1>2. TypeInv' /\ AllTidy'
  BY <1>1 DEF IInv, TypeInv, AllTidy, Tidy
<1>3. StandardInv' /\ OpenedInv'
  BY <1>1 DEF IInv, StandardInv, OutputsAreNotReused, OpenedInv
<1>4. DuplicatedInv' /\ TemporaryInv'
  BY <1>1 DEF IInv, DuplicatedInv, TemporaryInv, TemporaryRemoved
<1> QED BY <1>2, <1>3, <1>4 DEF IInv

LEMMA Invariance == Spec => []IInv
<1>1. IInv /\ [Next]_vars => IInv'
  <2> SUFFICES ASSUME IInv, [Next]_vars
               PROVE  IInv'
    OBVIOUS
  <2>1. CASE CreateMissingFds
    BY <2>1, CreateMissingFdsInv
  <2>2. CASE CreateContext
    BY <2>2, CreateContextInv
  <2>3. CASE OpenOutput
    BY <2>3, OpenOutputInv
  <2>4. CASE OpenInput
    BY <2>4, OpenInputInv
  <2>5. CASE InputOpened
    BY <2>5, InputOpenedInv
  <2>6. CASE \E s \in Sockets : OpenSocket(s)
    BY <2>6, OpenSocketInv
  <2>7. CASE SetupFails
    BY <2>7, SetupFailsInv
  <2>8. CASE Fork
    BY <2>8, ForkInv
  <2>9. CASE ForkParent
    BY <2>9, ForkParentInv
  <2>10. CASE Duplicate
    BY <2>10, DuplicateInv
  <2>11. CASE CloseInChild
    BY <2>11, CloseInChildInv
  <2>12. CASE CloseInDtee
    BY <2>12, CloseInDteeInv
  <2>13. CASE UNCHANGED vars
    BY <2>13, StutterInv
  <2> QED
    BY <2>1, <2>2, <2>3, <2>4, <2>5, <2>6, <2>7, <2>8, <2>9, <2>10, <2>11, <2>12, <2>13
    DEF Next, Done
<1> QED BY <1>1, InitInv, PTL DEF Spec
------------------------------------------------------------------------------
(* Whatever dtee keeps the number of is still what it was opened as when   *)
(* that number is used, in dtee and in the child.                          *)
THEOREM DescriptorTypes == Spec => []TypeOK
<1>1. IInv => TypeOK
  BY DEF IInv, TypeInv, AllTidy, Tidy, TypeOK
<1> QED BY <1>1, Invariance, PTL

(* Nothing dtee opens is ever its own standard output or standard error.   *)
THEOREM OutputsNotReused == Spec => []OutputsAreNotReused
<1>1. IInv => OutputsAreNotReused
  BY DEF IInv, StandardInv
<1> QED BY <1>1, Invariance, PTL

(* The command writes to the two sockets, unless dup2() failed.            *)
THEOREM CommandConnected == Spec => []CommandWritesToSockets
<1>1. IInv => CommandWritesToSockets
  BY DEF IInv, DuplicatedInv, CommandWritesToSockets
<1> QED BY <1>1, Invariance, PTL

(* The command inherits what dtee was given and nothing of dtee's own.     *)
THEOREM NoLeaks == Spec => []NothingLeaks
<1>1. IInv => NothingLeaks
  <2> SUFFICES ASSUME IInv,
                      NEW p \in Processes, place[p] = "command",
                      NEW n \in Fd \ {STDOUT_FILENO, STDERR_FILENO}
               PROVE  table[p][n] = given[n]
    BY DEF NothingLeaks
  <2>1. \A o \in Owned : held[p][o] = -1
    BY DEF IInv, OpenedInv
  <2>2. n >= 0
    BY FdType
  <2>3. \/ table[p][n] = given[n]
        \/ table[p][n] \in Owned /\ held[p][table[p][n]] = n
    BY DEF IInv, AllTidy, Tidy, Other
  <2> QED BY <2>1, <2>2, <2>3
<1> QED BY <1>1, Invariance, PTL

(* No temporary directory outlives the opening of the input, whichever     *)
(* step of it fails.                                                       *)
THEOREM TemporaryGone == Spec => []TemporaryRemoved
<1>1. IInv => TemporaryRemoved
  BY DEF IInv, TemporaryInv
<1> QED BY <1>1, Invariance, PTL
==============================================================================
