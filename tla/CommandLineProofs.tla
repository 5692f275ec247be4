-------------------------- MODULE CommandLineProofs --------------------------
(***************************************************************************)
(* Proofs about CommandLine, for every set of words and arguments and any  *)
(* length of the command line.                                             *)
(***************************************************************************)
EXTENDS CommandLine, SequenceTheorems, FiniteSetTheorems, TLAPS

(* Which texts are options, and that no two of them share a key.           *)
LEMMA OptionTexts ==
  /\ DOMAIN FileOption = {"-o", "-O", "-e", "-E", "-c", "-C"}
  /\ DOMAIN Switch = {"-i", "-q", "-h", "-V", "--debug-options"}
  /\ DOMAIN Positional = {"", "-", "--=text"}
BY DEF FileOption, Switch, Positional

LEMMA SwitchKeys ==
  /\ Switch["-i"] = "ignore-interrupts" /\ Switch["-q"] = "cron"
  /\ Switch["-h"] = "help" /\ Switch["-V"] = "version"
  /\ Switch["--debug-options"] = "debug-options"
BY DEF Switch

LEMMA FileKeys ==
  /\ FileOption["-o"] = "out-append" /\ FileOption["-O"] = "out-overwrite"
  /\ FileOption["-e"] = "err-append" /\ FileOption["-E"] = "err-overwrite"
  /\ FileOption["-c"] = "combined-append" /\ FileOption["-C"] = "combined-overwrite"
BY DEF FileOption

LEMMA KeysDiffer ==
  /\ \A t, u \in DOMAIN Switch : Switch[t] = Switch[u] => t = u
  /\ \A t, u \in DOMAIN FileOption : FileOption[t] = FileOption[u] => t = u
  /\ \A t \in DOMAIN Switch, u \in DOMAIN FileOption : Switch[t] # FileOption[u]
  /\ \A t \in DOMAIN Switch : Switch[t] # BOOST_COMMAND_OPT
  /\ \A t \in DOMAIN FileOption : FileOption[t] # BOOST_COMMAND_OPT
<1>1. ASSUME NEW t \in DOMAIN Switch
      PROVE  \/ t = "-i" /\ Switch[t] = "ignore-interrupts"
             \/ t = "-q" /\ Switch[t] = "cron"
             \/ t = "-h" /\ Switch[t] = "help"
             \/ t = "-V" /\ Switch[t] = "version"
             \/ t = "--debug-options" /\ Switch[t] = "debug-options"
  BY OptionTexts, SwitchKeys, Zenon
<1>2. ASSUME NEW t \in DOMAIN FileOption
      PROVE  \/ t = "-o" /\ FileOption[t] = "out-append"
             \/ t = "-O" /\ FileOption[t] = "out-overwrite"
             \/ t = "-e" /\ FileOption[t] = "err-append"
             \/ t = "-E" /\ FileOption[t] = "err-overwrite"
             \/ t = "-c" /\ FileOption[t] = "combined-append"
             \/ t = "-C" /\ FileOption[t] = "combined-overwrite"
  BY OptionTexts, FileKeys, Zenon
<1>3. ASSUME NEW t \in DOMAIN Switch, NEW u \in DOMAIN Switch, Switch[t] = Switch[u]
      PROVE  t = u
  BY <1>1, <1>3
<1>4. ASSUME NEW t \in DOMAIN FileOption, NEW u \in DOMAIN FileOption,
             FileOption[t] = FileOption[u]
      PROVE  t = u
  BY <1>2, <1>4
<1>5. ASSUME NEW t \in DOMAIN Switch, NEW u \in DOMAIN FileOption
      PROVE  Switch[t] # FileOption[u]
  BY <1>1, <1>2
<1>6. /\ \A t \in DOMAIN Switch : Switch[t] # BOOST_COMMAND_OPT
      /\ \A t \in DOMAIN FileOption : FileOption[t] # BOOST_COMMAND_OPT
  BY <1>1, <1>2 DEF BOOST_COMMAND_OPT
<1> QED BY <1>3, <1>4, <1>5, <1>6

LEMMA AreKeys ==
  /\ BOOST_COMMAND_OPT \in Keys
  /\ \A t \in DOMAIN Switch : Switch[t] \in Keys
  /\ \A t \in DOMAIN FileOption : FileOption[t] \in Keys
BY DEF Keys, Range

(* The places of positions among P, and that of one more.                 *)
Extends(Q, P, n) ==
  /\ Cardinality(P) \in Nat /\ Cardinality(Q) = Cardinality(P) + 1
  /\ \A k \in 1..Cardinality(P) : Nth(Q, k) = Nth(P, k)
  /\ Nth(Q, Cardinality(P) + 1) = {n}

(* A later position is the last one of a larger set of positions.          *)
LEMMA NthExtend ==
  ASSUME NEW m \in Nat, NEW P \in SUBSET (1..m), NEW n \in Nat, n > m,
         NEW Q, Q = P \cup {n}
  PROVE  Extends(Q, P, n)
<1> DEFINE c == Cardinality(P)
<1>1. IsFiniteSet(P) /\ c \in Nat
  <2>1. IsFiniteSet(1..m)
    BY FS_Interval
  <2>2. IsFiniteSet(P)
    BY <2>1, FS_Subset
  <2> QED BY <2>2, FS_CardinalityType
<1>2. n \notin P /\ Cardinality(Q) = c + 1
  BY <1>1, FS_AddElement
<1>3. {j \in Q : j <= n} = Q
  <2>1. \A j \in Q : j <= n
    OBVIOUS
  <2> QED BY <2>1, Zenon
<1>4. ASSUME NEW i \in P
      PROVE  {j \in Q : j <= i} = {j \in P : j <= i} /\ Cardinality({j \in P : j <= i}) <= c
  <2>1. {j \in Q : j <= i} = {j \in P : j <= i}
    OBVIOUS
  <2>2. {j \in P : j <= i} \in SUBSET P
    OBVIOUS
  <2>3. Cardinality({j \in P : j <= i}) <= c
    BY <1>1, <2>2, FS_Subset
  <2> QED BY <2>1, <2>3
<1> DEFINE Up(S, i) == Cardinality({j \in S : j <= i})
<1>5. Up(Q, n) = c + 1
  BY <1>2, <1>3
<1>6. \A i \in P : Up(Q, i) = Up(P, i) /\ Up(P, i) <= c
  BY <1>4
<1>7. ASSUME NEW i \in P
      PROVE  Up(P, i) \in Nat
  <2>1. {j \in P : j <= i} \in SUBSET P
    OBVIOUS
  <2> QED BY <1>1, <2>1, FS_Subset, FS_CardinalityType
<1>8. \A k : Nth(Q, k) = {i \in Q : Up(Q, i) = k} /\ Nth(P, k) = {i \in P : Up(P, i) = k}
  BY DEF Nth
<1> HIDE DEF Up, c
<1>9. ASSUME NEW k \in 1..c
      PROVE  Nth(Q, k) = Nth(P, k)
  <2>1. Up(Q, n) # k
    BY <1>1, <1>5
  <2>2. {i \in Q : Up(Q, i) = k} = {i \in P : Up(P, i) = k}
    BY <1>6, <2>1
  <2> QED BY <1>8, <2>2
<1>10. Nth(Q, c + 1) = {n}
  <2>1. \A i \in P : Up(Q, i) # c + 1
    BY <1>1, <1>6, <1>7
  <2>2. {i \in Q : Up(Q, i) = c + 1} = {n}
    BY <1>5, <2>1, Zenon
  <2> QED BY <1>8, <2>2
<1> QED BY <1>1, <1>2, <1>9, <1>10 DEF c, Extends

(* What is listed grows by the text at a later position.                   *)
LEMMA ListedExtend ==
  ASSUME NEW a, NEW m \in Nat, NEW P \in SUBSET (1..m), NEW n \in Nat, n > m,
         NEW Q, Q = P \cup {n}, NEW S, Listed(a, P) \in Seq(S), Text(a, n) \in S
  PROVE  Listed(a, Q) = Listed(a, P) \o <<Text(a, n)>>
<1> DEFINE c == Cardinality(P)
<1>1. /\ c \in Nat /\ Cardinality(Q) = c + 1
      /\ \A k \in 1..c : Nth(Q, k) = Nth(P, k)
      /\ Nth(Q, c + 1) = {n}
  <2>1. Extends(Q, P, n)
    BY NthExtend
  <2> QED BY <2>1, Zenon DEF Extends
<1>2. Len(Listed(a, P)) = c
  BY <1>1 DEF Listed
<1>3. <<Text(a, n)>> \in Seq(S) /\ Len(<<Text(a, n)>>) = 1 /\ <<Text(a, n)>>[1] = Text(a, n)
  OBVIOUS
<1> DEFINE both == Listed(a, P) \o <<Text(a, n)>>
<1>4. /\ both \in Seq(S) /\ Len(both) = c + 1
      /\ \A k \in 1..(c + 1) : both[k] = IF k <= c THEN Listed(a, P)[k] ELSE Text(a, n)
  BY <1>1, <1>2, <1>3, ConcatProperties
<1> HIDE DEF both, c
<1>5. ASSUME NEW k \in 1..c
      PROVE  Listed(a, Q)[k] = Listed(a, P)[k]
  <2>1. k \in 1..Cardinality(Q) /\ k \in 1..Cardinality(P)
    BY <1>1 DEF c
  <2>2. Listed(a, Q)[k] = Text(a, CHOOSE i \in Nth(Q, k) : TRUE)
    BY <2>1, Zenon DEF Listed
  <2>3. Listed(a, P)[k] = Text(a, CHOOSE i \in Nth(P, k) : TRUE)
    BY <2>1, Zenon DEF Listed
  <2>4. Nth(Q, k) = Nth(P, k)
    BY <1>1
  <2> QED BY <2>2, <2>3, <2>4, Zenon
<1>6. Listed(a, Q)[c + 1] = Text(a, n)
  <2>1. Listed(a, Q)[c + 1] = Text(a, CHOOSE i \in Nth(Q, c + 1) : TRUE)
    BY <1>1 DEF Listed
  <2>2. (CHOOSE i \in {n} : TRUE) = n
    OBVIOUS
  <2> QED BY <1>1, <2>1, <2>2
<1>7. Listed(a, Q) = [k \in 1..(c + 1) |-> Listed(a, Q)[k]]
  BY <1>1 DEF Listed
<1>8. both = [k \in 1..(c + 1) |-> both[k]]
  BY <1>1, <1>4
<1>9. ASSUME NEW k \in 1..(c + 1)
      PROVE  Listed(a, Q)[k] = both[k]
  <2>1. CASE k <= c
    <3>1. k \in 1..c
      BY <1>1, <2>1
    <3> QED BY <1>4, <1>5, <2>1, <3>1
  <2>2. CASE k > c
    <3>1. k = c + 1 /\ ~(k <= c)
      BY <1>1, <2>2
    <3> QED BY <1>4, <1>6, <3>1
  <2> QED BY <1>1, <2>1, <2>2
<1> QED BY <1>7, <1>8, <1>9 DEF both

LEMMA ListedNothing == \A a : Listed(a, {}) = <<>>
BY FS_EmptySet DEF Listed

(* A set of positions with at most one element.                            *)
LEMMA AtMostOne ==
  ASSUME NEW P, IsFiniteSet(P)
  PROVE  Cardinality(P) > 1 <=> \E i, j \in P : i # j
<1>1. Cardinality(P) \in Nat
  BY FS_CardinalityType
<1>2. Cardinality(P) = 0 => P = {}
  BY FS_EmptySet
<1>3. Cardinality(P) = 1 <=> \E i : P = {i}
  BY FS_Singleton
<1>4. ASSUME NEW i \in P, NEW j \in P, i # j, Cardinality(P) <= 1
      PROVE  FALSE
  BY <1>1, <1>2, <1>3, <1>4
<1>5. ASSUME Cardinality(P) > 1
      PROVE  \E i, j \in P : i # j
  <2>1. P # {}
    BY <1>5, FS_EmptySet
  <2>2. PICK i \in P : TRUE
    BY <2>1
  <2>3. P # {i}
    BY <1>3, <1>5
  <2> QED BY <2>2, <2>3
<1> QED BY <1>1, <1>4, <1>5

(* How many arguments Boost has come to.                                   *)
Consumed == Len(argv) - Len(args)

(* The command lines that are considered.                                  *)
Legible(a) == a \in Seq(Arguments) /\ Unambiguous(a)

(* The first n arguments are options of dtee, which are known by opts.     *)
Read(a, opts, n) ==
  /\ 1..n \subseteq Own(a)
  /\ \A i \in 1..n : Acceptable(a, i)
  /\ \A t \in DOMAIN FileOption : opts[FileOption[t]] = Listed(a, Values(a, t) \cap (1..n))
  /\ \A t \in DOMAIN Switch : Len(opts[Switch[t]]) = Cardinality(Places(a, t) \cap (1..n))

(* Boost is still among the options, at one that is not a value.           *)
Reading(a, opts, n) ==
  /\ Read(a, opts, n)
  /\ opts[BOOST_COMMAND_OPT] = Listed(a, Positionals(a) \cap (1..n))
  /\ ~IsValue(a, n + 1)

(* The command, too, is where it belongs.                                  *)
Finished(a, opts) ==
  /\ Read(a, opts, Cardinality(Own(a)))
  /\ opts[BOOST_COMMAND_OPT] = Listed(a, Positionals(a)) \o CommandPart(a)

(* What is decided from that.                                              *)
Decided ==
  /\ outcome = "parsing" => (cron_mode <=> name = "cronty")
  /\ outcome = "run" =>
       /\ args = <<>> /\ ~Repeated /\ Command # <<>>
       /\ cron_mode <=> name = "cronty" \/ Flag("cron")
  /\ outcome = "EX_USAGE" =>
       \/ \E i \in Own(argv) : ~Acceptable(argv, i)
       \/ args = <<>> /\ (Repeated \/ Command = <<>>)

CommandLineInv ==
  /\ TypeOK
  /\ Legible(argv)
  /\ Reading(argv, options, Consumed) \/ (args = <<>> /\ Finished(argv, options))
  /\ Decided


(* dtee's own arguments are the first ones.                                *)
LEMMA OwnExtend ==
  ASSUME NEW a, Legible(a), NEW n \in Nat, n < Len(a), 1..n \subseteq Own(a), ~Ends(a, n + 1)
  PROVE  1..(n + 1) \subseteq Own(a) /\ n + 1 \in Own(a)
<1>1. Len(a) \in Nat /\ DOMAIN a = 1..Len(a)
  BY LenProperties DEF Legible
<1>2. \A j \in 1..n : ~Ends(a, j)
  <2>1. ASSUME NEW j \in 1..n
        PROVE  ~Ends(a, j)
    <3>1. j \in Own(a) /\ j \in 1..j
      OBVIOUS
    <3> QED BY <3>1, Zenon DEF Own
  <2> QED BY <2>1
<1>3. ASSUME NEW i \in 1..(n + 1)
      PROVE  i \in Own(a)
  <2>1. i \in DOMAIN a
    BY <1>1
  <2>2. ASSUME NEW j \in 1..i
        PROVE  ~Ends(a, j)
    <3>1. CASE j = n + 1
      BY <3>1
    <3>2. CASE j # n + 1
      <4>1. j \in 1..n
        BY <3>2
      <4> QED BY <1>2, <4>1
    <3> QED BY <3>1, <3>2
  <2> QED BY <2>1, <2>2, Zenon DEF Own
<1>4. n + 1 \in 1..(n + 1)
  OBVIOUS
<1> QED BY <1>3, <1>4

LEMMA OwnEnds ==
  ASSUME NEW a, Legible(a), NEW n \in Nat, n <= Len(a), 1..n \subseteq Own(a),
         n = Len(a) \/ Ends(a, n + 1)
  PROVE  Own(a) = 1..n /\ Cardinality(Own(a)) = n
<1>1. Len(a) \in Nat /\ DOMAIN a = 1..Len(a)
  BY LenProperties DEF Legible
<1>2. ASSUME NEW i \in Own(a)
      PROVE  i \in 1..n
  <2>0. i \in 1..Len(a)
    BY <1>1, Zenon DEF Own
  <2>1. \A j \in 1..i : ~Ends(a, j)
    BY Zenon DEF Own
  <2>2. CASE n = Len(a)
    BY <2>0, <2>2
  <2>3. CASE Ends(a, n + 1)
    <3>1. n + 1 \notin 1..i
      BY <2>1, <2>3
    <3>2. i \in Nat /\ i >= 1
      BY ONLY <1>1, <2>0
    <3> QED BY <3>1, <3>2
  <2> QED BY <2>2, <2>3
<1>3. Own(a) = 1..n
  BY <1>2
<1>4. Cardinality(1..n) = n
  BY FS_Interval
<1> QED BY <1>3, <1>4

LEMMA OwnFinite ==
  ASSUME NEW a, Legible(a)
  PROVE  /\ Own(a) \subseteq 1..Len(a) /\ IsFiniteSet(Own(a))
         /\ Cardinality(Own(a)) \in Nat /\ Cardinality(Own(a)) <= Len(a)
<1>1. Len(a) \in Nat /\ DOMAIN a = 1..Len(a)
  BY LenProperties DEF Legible
<1>2. Own(a) \in SUBSET (1..Len(a))
  BY <1>1 DEF Own
<1>3. IsFiniteSet(1..Len(a)) /\ Cardinality(1..Len(a)) = Len(a)
  <2>1. /\ IsFiniteSet(1..Len(a))
        /\ Cardinality(1..Len(a)) = IF 1 > Len(a) THEN 0 ELSE Len(a) - 1 + 1
    BY <1>1, FS_Interval
  <2> QED BY <1>1, <2>1
<1>4. IsFiniteSet(Own(a)) /\ Cardinality(Own(a)) <= Len(a)
  BY <1>2, <1>3, FS_Subset
<1> QED BY <1>2, <1>4, FS_CardinalityType

(* Where Boost is in argv.                                                 *)
LEMMA Position ==
  ASSUME TypeOK, argv \in Seq(Arguments)
  PROVE  /\ Len(argv) \in Nat /\ Len(args) \in Nat /\ Consumed \in Nat
         /\ Consumed + Len(args) = Len(argv)
         /\ args = SubSeq(argv, Consumed + 1, Len(argv))
         /\ \A k \in 1..Len(args) : args[k] = argv[Consumed + k]
         /\ \A k \in 1..Len(argv) : argv[k] \in Arguments
<1>1. /\ Len(argv) \in Nat /\ Len(args) \in Nat /\ Len(args) <= Len(argv)
      /\ \A k \in 1..Len(argv) : argv[k] \in Arguments
  BY LenProperties, ElementOfSeq DEF TypeOK
<1>2. Consumed \in Nat /\ Consumed + Len(args) = Len(argv)
  BY <1>1 DEF Consumed
<1>3. args = SubSeq(argv, Consumed + 1, Len(argv))
  BY Zenon DEF TypeOK, Consumed
<1>4. \A k \in (Consumed + 1)..Len(argv) : argv[k] \in Arguments
  BY <1>1, <1>2
<1>5. \A k \in 1..(Len(argv) - (Consumed + 1) + 1) : args[k] = argv[Consumed + 1 + k - 1]
  <2>1. PICK m \in Int, l \in Int : m = Consumed + 1 /\ l = Len(argv)
    BY <1>1, <1>2
  <2>2. \A k \in m..l : argv[k] \in Arguments
    BY <1>4, <2>1
  <2>3. \A k \in 1..(l - m + 1) : SubSeq(argv, m, l)[k] = argv[m + k - 1]
    BY <2>2, SubSeqProperties
  <2> QED BY <1>3, <2>1, <2>3
<1>6. \A k \in 1..Len(args) : args[k] = argv[Consumed + k]
  <2>1. ASSUME NEW k \in 1..Len(args)
        PROVE  args[k] = argv[Consumed + k]
    <3>1. /\ k \in 1..(Len(argv) - (Consumed + 1) + 1)
          /\ Consumed + 1 + k - 1 = Consumed + k
      BY <1>1, <1>2
    <3> QED BY <1>5, <3>1
  <2> QED BY <2>1
<1> QED BY <1>1, <1>2, <1>3, <1>6

(* What is left after the next argument. *)
LEMMA TailPosition ==
  ASSUME NEW n \in Nat, argv \in Seq(Arguments), n < Len(argv), NEW s,
         s = SubSeq(argv, n + 1, Len(argv))
  PROVE  /\ Tail(s) = SubSeq(argv, n + 2, Len(argv))
         /\ Tail(s) \in Seq(Arguments) /\ Len(Tail(s)) = Len(argv) - (n + 1)
<1>1. Len(argv) \in Nat /\ n + 1 \in 1..Len(argv) /\ Len(argv) \in (n + 1)..Len(argv)
  BY LenProperties
<1>2. \A k \in (n + 2)..Len(argv) : argv[k] \in Arguments
  BY <1>1, ElementOfSeq
<1>3. Tail(s) = SubSeq(argv, (n + 1) + 1, Len(argv))
  BY <1>1, HeadTailOfSubSeq
<1>4. (n + 1) + 1 = n + 2
  OBVIOUS
<1>5. /\ SubSeq(argv, n + 2, Len(argv)) \in Seq(Arguments)
      /\ Len(SubSeq(argv, n + 2, Len(argv))) =
           IF n + 2 <= Len(argv) THEN Len(argv) - (n + 2) + 1 ELSE 0
  BY <1>1, <1>2, SubSeqProperties
<1>6. Tail(s) = SubSeq(argv, n + 2, Len(argv))
  BY <1>3, <1>4
<1>7. (IF n + 2 <= Len(argv) THEN Len(argv) - (n + 2) + 1 ELSE 0) = Len(argv) - (n + 1)
  BY <1>1
<1> QED BY <1>5, <1>6, <1>7

(* What the texts that are not words have in common.                       *)
LEMMA TextsDiffer ==
  /\ \A t \in Words : t \notin DOMAIN Switch \cup DOMAIN FileOption \cup DOMAIN Positional
  /\ \A t \in Words : t # "--"
  /\ \A t \in DOMAIN Switch : t \notin DOMAIN FileOption \cup DOMAIN Positional \cup {"--"}
  /\ \A t \in DOMAIN FileOption : t \notin DOMAIN Positional \cup {"--"}
<1>1. \A t \in Words : t \notin DOMAIN Switch \cup DOMAIN FileOption \cup DOMAIN Positional
  BY CommandLineAssumption, OptionTexts
<1>2. \A t \in Words : t # "--"
  BY CommandLineAssumption
<1>3. \A t \in DOMAIN Switch : t \notin DOMAIN FileOption \cup DOMAIN Positional \cup {"--"}
  BY OptionTexts
<1>4. \A t \in DOMAIN FileOption : t \notin DOMAIN Positional \cup {"--"}
  BY OptionTexts
<1> QED BY <1>1, <1>2, <1>3, <1>4

OptionsType == [Keys -> Seq(Range(Positional) \cup Arguments)]

(* One more position is one that a set of positions has or not.            *)
LEMMA UpToNext ==
  ASSUME NEW n \in Nat, NEW P
  PROVE  /\ n + 1 \in P => P \cap (1..(n + 1)) = (P \cap (1..n)) \cup {n + 1}
         /\ n + 1 \notin P => P \cap (1..(n + 1)) = P \cap (1..n)
<1>1. 1..(n + 1) = (1..n) \cup {n + 1}
  OBVIOUS
<1>2. P \cap (1..(n + 1)) = P \cap ((1..n) \cup {n + 1})
  BY <1>1
<1> QED BY <1>2, Zenon

LEMMA CountNext ==
  ASSUME NEW n \in Nat, NEW P
  PROVE  Cardinality(P \cap (1..(n + 1))) =
           Cardinality(P \cap (1..n)) + (IF n + 1 \in P THEN 1 ELSE 0)
<1>1. P \cap (1..n) \in SUBSET (1..n)
  OBVIOUS
<1>2. IsFiniteSet(P \cap (1..n))
  <2>1. IsFiniteSet(1..n)
    BY FS_Interval
  <2> QED BY <1>1, <2>1, FS_Subset
<1>3. n + 1 \notin P \cap (1..n)
  OBVIOUS
<1>4. Cardinality(P \cap (1..n)) \in Nat
  BY <1>2, FS_CardinalityType
<1>5. CASE n + 1 \in P
  <2>1. Cardinality((P \cap (1..n)) \cup {n + 1}) = Cardinality(P \cap (1..n)) + 1
    BY <1>2, <1>3, FS_AddElement
  <2> QED BY <1>5, <2>1, UpToNext
<1>6. CASE n + 1 \notin P
  <2>1. P \cap (1..(n + 1)) = P \cap (1..n)
    BY <1>6, UpToNext
  <2> QED BY <1>4, <1>6, <2>1
<1> QED BY <1>5, <1>6

LEMMA ListedNext ==
  ASSUME NEW a, NEW n \in Nat, NEW P, n + 1 \in P,
         NEW S, Listed(a, P \cap (1..n)) \in Seq(S), Text(a, n + 1) \in S
  PROVE  Listed(a, P \cap (1..(n + 1))) = Listed(a, P \cap (1..n)) \o <<Text(a, n + 1)>>
<1>1. P \cap (1..n) \in SUBSET (1..n)
  OBVIOUS
<1>2. P \cap (1..(n + 1)) = (P \cap (1..n)) \cup {n + 1}
  BY UpToNext
<1>3. n + 1 \in Nat /\ n + 1 > n
  OBVIOUS
<1> QED BY <1>1, <1>2, <1>3, ListedExtend

LEMMA OneElement ==
  ASSUME NEW S, NEW x \in S
  PROVE  <<x>> \in Seq(S) /\ Len(<<x>>) = 1 /\ <<x>>[1] = x
OBVIOUS

LEMMA Below ==
  ASSUME NEW n \in Nat, NEW i \in 1..(n + 1)
  PROVE  i = n + 1 \/ i \in 1..n
OBVIOUS

(* What was given for one option. *)
GivenTo(opts, opts2, key, values) == opts2 = [opts EXCEPT ![key] = @ \o values]

LEMMA GivenProperties ==
  ASSUME NEW opts \in OptionsType, NEW key \in Keys,
         NEW values \in Seq(Range(Positional) \cup Arguments),
         NEW opts2, GivenTo(opts, opts2, key, values)
  PROVE  /\ opts2 \in OptionsType
         /\ opts2[key] = opts[key] \o values
<1>1. opts[key] \in Seq(Range(Positional) \cup Arguments)
  BY DEF OptionsType
<1>2. opts[key] \o values \in Seq(Range(Positional) \cup Arguments)
  BY <1>1, ConcatProperties
<1>3. opts2 = [opts EXCEPT ![key] = opts[key] \o values]
  BY DEF GivenTo
<1>4. PICK new : new = opts[key] \o values
  OBVIOUS
<1>5. opts2 = [opts EXCEPT ![key] = new] /\ new \in Seq(Range(Positional) \cup Arguments)
  BY <1>2, <1>3, <1>4
<1>6. opts2 \in OptionsType /\ opts2[key] = new
  BY <1>5 DEF OptionsType
<1> QED BY <1>4, <1>6

LEMMA GivenOthers ==
  ASSUME NEW opts \in OptionsType, NEW key, NEW values, NEW opts2, GivenTo(opts, opts2, key, values),
         NEW k \in Keys, k # key
  PROVE  opts2[k] = opts[k]
<1>1. PICK new : new = opts[key] \o values
  OBVIOUS
<1>2. opts2 = [opts EXCEPT ![key] = new]
  BY <1>1 DEF GivenTo
<1>3. k \in DOMAIN opts
  BY DEF OptionsType
<1> QED BY <1>2, <1>3, Zenon

(* The position is dtee's own when its text does not end the options.      *)
LEMMA NextIsOwn ==
  ASSUME NEW a, Legible(a), NEW n \in Nat, n < Len(a), NEW opts, Reading(a, opts, n),
         a[n + 1] \notin Words, a[n + 1] # "", a[n + 1] # "--"
  PROVE  1..(n + 1) \subseteq Own(a) /\ n + 1 \in Own(a)
<1>1. ~Ends(a, n + 1)
  BY Zenon DEF Ends
<1>2. 1..n \subseteq Own(a)
  BY DEF Reading, Read
<1> QED BY <1>1, <1>2, OwnExtend

LEMMA AfterOption ==
  ASSUME NEW a, NEW n \in Nat, a[n + 1] \notin DOMAIN FileOption
  PROVE  ~IsValue(a, (n + 1) + 1)
<1>1. ((n + 1) + 1) - 1 = n + 1
  OBVIOUS
<1> QED BY <1>1, Zenon DEF IsValue

(* Boost takes a switch. *)
LEMMA SwitchRead ==
  ASSUME NEW a, Legible(a), NEW n \in Nat, n < Len(a),
         NEW opts \in OptionsType, Reading(a, opts, n), a[n + 1] \in DOMAIN Switch, NEW v \in Range(Positional) \cup Arguments,
         NEW opts2, GivenTo(opts, opts2, Switch[a[n + 1]], <<v>>)
  PROVE  Reading(a, opts2, n + 1)
<1> DEFINE arg == a[n + 1]
<1>a. arg \in DOMAIN Switch
  OBVIOUS
<1>c. <<v>> \in Seq(Range(Positional) \cup Arguments) /\ Len(<<v>>) = 1
  BY OneElement
<1>1. 1..(n + 1) \subseteq Own(a) /\ n + 1 \in Own(a)
  <2>1. arg \notin Words /\ arg # "" /\ arg # "--"
    BY TextsDiffer, OptionTexts
  <2> QED BY <2>1, NextIsOwn
<1>2. ~IsValue(a, n + 1) /\ arg \notin DOMAIN FileOption /\ arg \notin DOMAIN Positional
  BY TextsDiffer DEF Reading
<1>3. Acceptable(a, n + 1)
  BY <1>2, Zenon DEF Acceptable
<1>4. Switch[arg] \in Keys
  BY <1>a, AreKeys
<1>5. opts2[Switch[arg]] = opts[Switch[arg]] \o <<v>>
  BY <1>c, <1>4, GivenProperties
<1>6. ASSUME NEW t \in DOMAIN FileOption
      PROVE  opts2[FileOption[t]] = Listed(a, Values(a, t) \cap (1..(n + 1)))
  <2>1. n + 1 \notin Values(a, t)
    BY <1>2, Zenon DEF Values
  <2>2. Values(a, t) \cap (1..(n + 1)) = Values(a, t) \cap (1..n)
    BY <2>1, UpToNext
  <2>3. FileOption[t] \in Keys /\ FileOption[t] # Switch[arg]
    BY <1>a, AreKeys, KeysDiffer
  <2>4. opts2[FileOption[t]] = opts[FileOption[t]]
    BY <2>3, GivenOthers
  <2> QED BY <2>2, <2>4, Zenon DEF Reading, Read
<1>7. ASSUME NEW t \in DOMAIN Switch
      PROVE  Len(opts2[Switch[t]]) = Cardinality(Places(a, t) \cap (1..(n + 1)))
  <2>1. Len(opts[Switch[t]]) = Cardinality(Places(a, t) \cap (1..n))
    BY DEF Reading, Read
  <2>2. Switch[t] \in Keys
    BY AreKeys
  <2>3. opts[Switch[t]] \in Seq(Range(Positional) \cup Arguments)
    BY <2>2 DEF OptionsType
  <2>4. n + 1 \in Places(a, t) <=> t = arg
    BY <1>1, Zenon DEF Places
  <2>5. CASE t = arg
    <3>1. Len(opts2[Switch[t]]) = Len(opts[Switch[t]]) + 1
      <4>1. opts2[Switch[t]] = opts[Switch[t]] \o <<v>>
        BY <1>5, <2>5
      <4>2. Len(opts[Switch[t]] \o <<v>>) = Len(opts[Switch[t]]) + Len(<<v>>)
        BY <1>c, <2>3, ConcatProperties
      <4> QED BY <1>c, <4>1, <4>2
    <3> QED BY <2>1, <2>4, <2>5, <3>1, CountNext
  <2>6. CASE t # arg
    <3>1. Switch[t] # Switch[arg]
      BY <1>a, <2>6, KeysDiffer
    <3>2. opts2[Switch[t]] = opts[Switch[t]]
      BY <2>2, <3>1, GivenOthers
    <3>3. Places(a, t) \cap (1..(n + 1)) = Places(a, t) \cap (1..n)
      BY <2>4, <2>6, UpToNext
    <3> QED BY <2>1, <3>2, <3>3
  <2> QED BY <2>5, <2>6
<1>8. opts2[BOOST_COMMAND_OPT] = Listed(a, Positionals(a) \cap (1..(n + 1)))
  <2>1. n + 1 \notin Positionals(a)
    BY <1>2, Zenon DEF Positionals, IsPositional
  <2>2. Positionals(a) \cap (1..(n + 1)) = Positionals(a) \cap (1..n)
    BY <2>1, UpToNext
  <2>3. BOOST_COMMAND_OPT \in Keys /\ BOOST_COMMAND_OPT # Switch[arg]
    BY <1>a, AreKeys, KeysDiffer
  <2>4. opts2[BOOST_COMMAND_OPT] = opts[BOOST_COMMAND_OPT]
    BY <2>3, GivenOthers
  <2> QED BY <2>2, <2>4 DEF Reading
<1>9. ~IsValue(a, (n + 1) + 1)
  BY <1>2, AfterOption
<1>10. ASSUME NEW i \in 1..(n + 1)
       PROVE  Acceptable(a, i)
  <2>1. i = n + 1 \/ i \in 1..n
    BY Below
  <2> QED BY <1>3, <2>1, Zenon DEF Reading, Read
<1> HIDE DEF arg
<1> QED BY <1>1, <1>6, <1>7, <1>8, <1>9, <1>10, Zenon DEF Reading, Read

(* Boost takes a file option and its value. *)
LEMMA FileRead ==
  ASSUME NEW a, Legible(a), NEW n \in Nat, n + 1 < Len(a),
         NEW opts \in OptionsType, Reading(a, opts, n), a[n + 1] \in DOMAIN FileOption,
         NEW opts2, GivenTo(opts, opts2, FileOption[a[n + 1]], <<a[(n + 1) + 1]>>)
  PROVE  Reading(a, opts2, (n + 1) + 1)
<1> DEFINE arg == a[n + 1]
<1>a. PICK m \in Nat : m = n + 1
  OBVIOUS
<1>b. arg \in DOMAIN FileOption /\ arg = a[m]
  BY <1>a
<1>c. m > 1 \/ m = 1
  BY <1>a
<1>d. Len(a) \in Nat /\ DOMAIN a = 1..Len(a) /\ n < Len(a) /\ m < Len(a)
  BY <1>a, LenProperties DEF Legible
<1>1. 1..m \subseteq Own(a) /\ m \in Own(a)
  <2>1. arg \notin Words /\ arg # "" /\ arg # "--"
    BY TextsDiffer, OptionTexts
  <2> QED BY <1>a, <1>d, <2>1, NextIsOwn
<1>2. IsValue(a, m + 1) /\ (m + 1) - 1 = m
  BY <1>a, <1>b DEF IsValue
<1>3. 1..(m + 1) \subseteq Own(a) /\ m + 1 \in Own(a)
  <2>1. ~Ends(a, m + 1)
    BY <1>2, Zenon DEF Ends
  <2> QED BY <1>1, <1>d, <2>1, OwnExtend
<1>4. ~IsValue(a, m) /\ arg \notin DOMAIN Switch /\ arg \notin DOMAIN Positional
  BY <1>a, TextsDiffer DEF Reading
<1>5. /\ a[m + 1] \in Words \cup {""} /\ a[m + 1] \in Arguments
      /\ a[m + 1] \notin DOMAIN FileOption /\ a[m + 1] \notin DOMAIN Switch
  <2>1. a[m + 1] \in Words \cup {""}
    BY <1>1, <1>b, <1>d DEF Legible, Unambiguous
  <2>2. m + 1 \in 1..Len(a)
    BY <1>d
  <2>3. a[m + 1] \in Arguments
    BY <2>2, ElementOfSeq DEF Legible
  <2>4. "" \notin DOMAIN FileOption /\ "" \notin DOMAIN Switch
    BY OptionTexts
  <2> QED BY <2>1, <2>3, <2>4, TextsDiffer
<1>6. FileOption[arg] \in Keys
  BY <1>b, AreKeys
<1>7. <<a[m + 1]>> \in Seq(Range(Positional) \cup Arguments)
  BY <1>5, OneElement
<1>8. GivenTo(opts, opts2, FileOption[arg], <<a[m + 1]>>)
  BY <1>a
<1>9. opts2[FileOption[arg]] = opts[FileOption[arg]] \o <<a[m + 1]>>
  BY <1>6, <1>7, <1>8, GivenProperties
<1>10. ASSUME NEW t \in DOMAIN FileOption
       PROVE  opts2[FileOption[t]] = Listed(a, Values(a, t) \cap (1..(m + 1)))
  <2>1. Values(a, t) \cap (1..m) = Values(a, t) \cap (1..n)
    <3>1. m \notin Values(a, t)
      BY <1>4, Zenon DEF Values
    <3> QED BY <1>a, <3>1, UpToNext
  <2>2. opts[FileOption[t]] = Listed(a, Values(a, t) \cap (1..m))
    BY <2>1 DEF Reading, Read
  <2>3. m + 1 \in Values(a, t) <=> t = arg
    BY <1>2, <1>3, <1>b, Zenon DEF Values
  <2>4. CASE t = arg
    <3>1. opts[FileOption[t]] \in Seq(Range(Positional) \cup Arguments)
      BY AreKeys DEF OptionsType
    <3>2. Text(a, m + 1) = a[m + 1]
      BY <1>2, Zenon DEF Text, IsPositional
    <3>3. Text(a, m + 1) \in Range(Positional) \cup Arguments
      BY <1>5, <3>2
    <3>4. Listed(a, Values(a, t) \cap (1..(m + 1)))
             = Listed(a, Values(a, t) \cap (1..m)) \o <<Text(a, m + 1)>>
      BY <2>2, <2>3, <2>4, <3>1, <3>3, ListedNext
    <3> QED BY <1>9, <2>2, <2>4, <3>2, <3>4
  <2>5. CASE t # arg
    <3>1. FileOption[t] \in Keys /\ FileOption[t] # FileOption[arg]
      BY <1>b, <2>5, AreKeys, KeysDiffer
    <3>2. opts2[FileOption[t]] = opts[FileOption[t]]
      BY <1>8, <3>1, GivenOthers
    <3>3. Values(a, t) \cap (1..(m + 1)) = Values(a, t) \cap (1..m)
      BY <2>3, <2>5, UpToNext
    <3> QED BY <2>2, <3>2, <3>3
  <2> QED BY <2>4, <2>5
<1>11. ASSUME NEW t \in DOMAIN Switch
       PROVE  Len(opts2[Switch[t]]) = Cardinality(Places(a, t) \cap (1..(m + 1)))
  <2>1. Switch[t] \in Keys /\ Switch[t] # FileOption[arg]
    BY <1>b, AreKeys, KeysDiffer
  <2>2. opts2[Switch[t]] = opts[Switch[t]]
    BY <1>8, <2>1, GivenOthers
  <2>3. m \notin Places(a, t) /\ m + 1 \notin Places(a, t)
    BY <1>4, <1>5, <1>b, Zenon DEF Places
  <2>4. Places(a, t) \cap (1..(m + 1)) = Places(a, t) \cap (1..m)
    BY <2>3, UpToNext
  <2>5. Places(a, t) \cap (1..m) = Places(a, t) \cap (1..n)
    BY <1>a, <2>3, UpToNext
  <2>6. Len(opts[Switch[t]]) = Cardinality(Places(a, t) \cap (1..n))
    BY DEF Reading, Read
  <2> QED BY <2>2, <2>4, <2>5, <2>6
<1>12. opts2[BOOST_COMMAND_OPT] = Listed(a, Positionals(a) \cap (1..(m + 1)))
  <2>1. m \notin Positionals(a) /\ m + 1 \notin Positionals(a)
    BY <1>2, <1>4, <1>b, Zenon DEF Positionals, IsPositional
  <2>2. Positionals(a) \cap (1..(m + 1)) = Positionals(a) \cap (1..m)
    BY <2>1, UpToNext
  <2>3. Positionals(a) \cap (1..m) = Positionals(a) \cap (1..n)
    BY <1>a, <2>1, UpToNext
  <2>4. BOOST_COMMAND_OPT \in Keys /\ BOOST_COMMAND_OPT # FileOption[arg]
    BY <1>b, AreKeys, KeysDiffer
  <2>5. opts2[BOOST_COMMAND_OPT] = opts[BOOST_COMMAND_OPT]
    BY <1>8, <2>4, GivenOthers
  <2>6. opts[BOOST_COMMAND_OPT] = Listed(a, Positionals(a) \cap (1..n))
    BY DEF Reading
  <2> QED BY <2>2, <2>3, <2>5, <2>6
<1>13. ~IsValue(a, (m + 1) + 1)
  BY <1>5, AfterOption
<1>14. Acceptable(a, m) /\ Acceptable(a, m + 1)
  BY <1>2, <1>5, <1>b, <1>d, Zenon DEF Acceptable
<1>15. ASSUME NEW i \in 1..(m + 1)
       PROVE  Acceptable(a, i)
  <2>1. i = m + 1 \/ i \in 1..m
    BY Below
  <2>2. i \in 1..m => i = m \/ i \in 1..n
    BY <1>a, Below
  <2> QED BY <1>14, <2>1, <2>2, Zenon DEF Reading, Read
<1> HIDE DEF arg
<1>16. Reading(a, opts2, m + 1)
  BY <1>3, <1>10, <1>11, <1>12, <1>13, <1>15, Zenon DEF Reading, Read
<1> QED BY <1>a, <1>16

(* Boost takes an argument for positional. *)
LEMMA PositionalRead ==
  ASSUME NEW a, Legible(a), NEW n \in Nat, n < Len(a),
         NEW opts \in OptionsType, Reading(a, opts, n),
         a[n + 1] \in DOMAIN Positional, ~Ends(a, n + 1),
         NEW opts2, GivenTo(opts, opts2, BOOST_COMMAND_OPT, <<Positional[a[n + 1]]>>)
  PROVE  Reading(a, opts2, n + 1)
<1> DEFINE arg == a[n + 1]
<1>a. arg \in DOMAIN Positional
  OBVIOUS
<1>1. 1..(n + 1) \subseteq Own(a) /\ n + 1 \in Own(a)
  <2>1. 1..n \subseteq Own(a)
    BY DEF Reading, Read
  <2> QED BY <2>1, OwnExtend
<1>2. ~IsValue(a, n + 1) /\ arg \notin DOMAIN FileOption /\ arg \notin DOMAIN Switch
  BY TextsDiffer DEF Reading
<1>3. Acceptable(a, n + 1)
  BY <1>2, Zenon DEF Acceptable
<1>4. Text(a, n + 1) = Positional[arg] /\ n + 1 \in Positionals(a)
  BY <1>1, <1>2, Zenon DEF Text, IsPositional, Positionals
<1>5. Text(a, n + 1) \in Range(Positional) \cup Arguments
  BY <1>a, <1>4 DEF Range
<1>6. GivenTo(opts, opts2, BOOST_COMMAND_OPT, <<Text(a, n + 1)>>)
  BY <1>4
<1>7. opts2[BOOST_COMMAND_OPT] = Listed(a, Positionals(a) \cap (1..(n + 1)))
  <2>1. <<Text(a, n + 1)>> \in Seq(Range(Positional) \cup Arguments)
    BY <1>5, OneElement
  <2>2. opts2[BOOST_COMMAND_OPT] = opts[BOOST_COMMAND_OPT] \o <<Text(a, n + 1)>>
    BY <1>6, <2>1, AreKeys, GivenProperties
  <2>3. opts[BOOST_COMMAND_OPT] = Listed(a, Positionals(a) \cap (1..n))
    BY DEF Reading
  <2>4. opts[BOOST_COMMAND_OPT] \in Seq(Range(Positional) \cup Arguments)
    BY AreKeys DEF OptionsType
  <2>5. Listed(a, Positionals(a) \cap (1..(n + 1)))
           = Listed(a, Positionals(a) \cap (1..n)) \o <<Text(a, n + 1)>>
    BY <1>4, <1>5, <2>3, <2>4, ListedNext
  <2> QED BY <2>2, <2>3, <2>5
<1>8. ASSUME NEW t \in DOMAIN FileOption
      PROVE  opts2[FileOption[t]] = Listed(a, Values(a, t) \cap (1..(n + 1)))
  <2>1. n + 1 \notin Values(a, t)
    BY <1>2, Zenon DEF Values
  <2>2. Values(a, t) \cap (1..(n + 1)) = Values(a, t) \cap (1..n)
    BY <2>1, UpToNext
  <2>3. FileOption[t] \in Keys /\ FileOption[t] # BOOST_COMMAND_OPT
    BY AreKeys, KeysDiffer
  <2>4. opts2[FileOption[t]] = opts[FileOption[t]]
    BY <2>3, GivenOthers
  <2> QED BY <2>2, <2>4, Zenon DEF Reading, Read
<1>9. ASSUME NEW t \in DOMAIN Switch
      PROVE  Len(opts2[Switch[t]]) = Cardinality(Places(a, t) \cap (1..(n + 1)))
  <2>1. n + 1 \notin Places(a, t)
    BY <1>2, Zenon DEF Places
  <2>2. Places(a, t) \cap (1..(n + 1)) = Places(a, t) \cap (1..n)
    BY <2>1, UpToNext
  <2>3. Switch[t] \in Keys /\ Switch[t] # BOOST_COMMAND_OPT
    BY AreKeys, KeysDiffer
  <2>4. opts2[Switch[t]] = opts[Switch[t]]
    BY <2>3, GivenOthers
  <2> QED BY <2>2, <2>4, Zenon DEF Reading, Read
<1>10. ~IsValue(a, (n + 1) + 1)
  BY <1>2, AfterOption
<1>11. ASSUME NEW i \in 1..(n + 1)
       PROVE  Acceptable(a, i)
  <2>1. i = n + 1 \/ i \in 1..n
    BY Below
  <2> QED BY <1>3, <2>1, Zenon DEF Reading, Read
<1> HIDE DEF arg
<1> QED BY <1>1, <1>7, <1>8, <1>9, <1>10, <1>11, Zenon DEF Reading, Read

(* All that is dtee's own is before the n-th argument. *)
LEMMA OwnParts ==
  ASSUME NEW a, NEW n \in Nat, Own(a) = 1..n
  PROVE  /\ Positionals(a) \cap (1..n) = Positionals(a)
         /\ \A t : Values(a, t) \cap (1..n) = Values(a, t) /\ Places(a, t) \cap (1..n) = Places(a, t)
BY DEF Positionals, Values, Places

(* There is nothing but options. *)
LEMMA NoCommandRead ==
  ASSUME NEW a, Legible(a), NEW opts \in OptionsType, Reading(a, opts, Len(a))
  PROVE  Finished(a, opts)
<1>1. Len(a) \in Nat
  BY LenProperties DEF Legible
<1>2. Own(a) = 1..Len(a) /\ Cardinality(Own(a)) = Len(a)
  BY <1>1, OwnEnds DEF Reading, Read
<1>3. CommandPart(a) = <<>>
  <2>1. SubSeq(a, Len(a) + 1, Len(a)) = <<>>
    BY <1>1, SubSeqEmpty
  <2> QED BY <1>2, <2>1 DEF CommandPart
<1>4. opts[BOOST_COMMAND_OPT] = Listed(a, Positionals(a))
  BY <1>1, <1>2, OwnParts DEF Reading
<1>5. opts[BOOST_COMMAND_OPT] \o <<>> = opts[BOOST_COMMAND_OPT]
  <2>1. opts[BOOST_COMMAND_OPT] \in Seq(Range(Positional) \cup Arguments)
    BY AreKeys DEF OptionsType
  <2> QED BY <2>1, ConcatEmptySeq
<1>6. opts[BOOST_COMMAND_OPT] = Listed(a, Positionals(a)) \o CommandPart(a)
  BY <1>3, <1>4, <1>5
<1>7. Read(a, opts, Cardinality(Own(a)))
  BY <1>2 DEF Reading
<1> QED BY <1>6, <1>7 DEF Finished

LEMMA SeqWiden ==
  ASSUME NEW S, NEW T, NEW s \in Seq(S)
  PROVE  s \in Seq(T \cup S)
OBVIOUS

(* The command is taken as it is. *)
LEMMA CommandRead ==
  ASSUME NEW a, Legible(a), NEW n \in Nat, n < Len(a),
         NEW opts \in OptionsType, Reading(a, opts, n), Ends(a, n + 1),
         NEW rest \in Seq(Arguments),
         \/ a[n + 1] = "--" /\ rest = Tail(SubSeq(a, n + 1, Len(a)))
         \/ a[n + 1] # "--" /\ rest = SubSeq(a, n + 1, Len(a)),
         NEW opts2, GivenTo(opts, opts2, BOOST_COMMAND_OPT, rest)
  PROVE  Finished(a, opts2)
<1>1. Len(a) \in Nat
  BY LenProperties DEF Legible
<1>3. Own(a) = 1..n /\ Cardinality(Own(a)) = n
  BY <1>1, OwnEnds DEF Reading, Read
<1>4. CommandPart(a) = rest
  <2>1. SubSeq(a, n + 1, Len(a)) # <<>> /\ SubSeq(a, n + 1, Len(a))[1] = a[n + 1]
    <3>1. \A i \in (n + 1)..Len(a) : a[i] \in Arguments
      BY <1>1, ElementOfSeq DEF Legible
    <3>2. /\ Len(SubSeq(a, n + 1, Len(a))) = Len(a) - (n + 1) + 1
          /\ SubSeq(a, n + 1, Len(a))[1] = a[n + 1 + 1 - 1]
      BY <1>1, <3>1, SubSeqProperties
    <3>3. n + 1 + 1 - 1 = n + 1 /\ Len(a) - (n + 1) + 1 # 0
      BY <1>1
    <3>4. Len(SubSeq(a, n + 1, Len(a))) # 0
      BY <3>2, <3>3, Zenon
    <3>5. SubSeq(a, n + 1, Len(a)) # <<>>
      BY <3>4, EmptySeq
    <3> QED BY <3>2, <3>3, <3>5, Zenon
  <2> QED BY <1>3, <2>1 DEF CommandPart
<1>5. rest \in Seq(Range(Positional) \cup Arguments)
  BY SeqWiden
<1>6. opts2[BOOST_COMMAND_OPT] = Listed(a, Positionals(a)) \o CommandPart(a)
  <2>1. opts2[BOOST_COMMAND_OPT] = opts[BOOST_COMMAND_OPT] \o rest
    BY <1>5, AreKeys, GivenProperties
  <2>2. opts[BOOST_COMMAND_OPT] = Listed(a, Positionals(a))
    BY <1>3, OwnParts DEF Reading
  <2> QED BY <1>4, <2>1, <2>2
<1>7. ASSUME NEW t \in DOMAIN FileOption
      PROVE  opts2[FileOption[t]] = opts[FileOption[t]]
  <2>1. FileOption[t] \in Keys /\ FileOption[t] # BOOST_COMMAND_OPT
    BY AreKeys, KeysDiffer
  <2> QED BY <2>1, GivenOthers
<1>8. ASSUME NEW t \in DOMAIN Switch
      PROVE  opts2[Switch[t]] = opts[Switch[t]]
  <2>1. Switch[t] \in Keys /\ Switch[t] # BOOST_COMMAND_OPT
    BY AreKeys, KeysDiffer
  <2> QED BY <2>1, GivenOthers
<1>9. Read(a, opts, n)
  BY DEF Reading
<1>10. Read(a, opts2, n)
  BY <1>7, <1>8, <1>9, Zenon DEF Read
<1> QED BY <1>3, <1>6, <1>10 DEF Finished

ArgsOK ==
  /\ args \in Seq(Arguments) /\ Len(args) <= Len(argv)
  /\ args = SubSeq(argv, Len(argv) - Len(args) + 1, Len(argv))

(* Boost has come to the k-th argument.                                    *)
LEMMA Advance ==
  ASSUME argv \in Seq(Arguments), argv' = argv, NEW k \in Nat, k <= Len(argv),
         args' \in Seq(Arguments), Len(args') = Len(argv) - k,
         args' = SubSeq(argv, k + 1, Len(argv))
  PROVE  ArgsOK' /\ Consumed' = k
<1>1. Len(argv) \in Nat
  BY LenProperties
<1>2. /\ Len(argv) - Len(args') = k /\ Len(args') <= Len(argv)
  BY <1>1
<1>3. Len(argv') - Len(args') = k /\ Len(args') <= Len(argv')
  BY <1>2
<1>4. args' = SubSeq(argv', Len(argv') - Len(args') + 1, Len(argv'))
  BY <1>3, Zenon
<1> QED BY <1>3, <1>4, Zenon DEF ArgsOK, Consumed

(* The same when all that is left goes to the command. *)
LEMMA AdvanceToEnd ==
  ASSUME argv \in Seq(Arguments), argv' = argv, args' = <<>>
  PROVE  ArgsOK' /\ Consumed' = Len(argv)
<1>1. Len(argv) \in Nat /\ Len(<<>>) = 0
  BY LenProperties
<1>2. SubSeq(argv, Len(argv) + 1, Len(argv)) = <<>>
  BY <1>1, SubSeqEmpty
<1>3. args' \in Seq(Arguments) /\ Len(args') = Len(argv) - Len(argv)
  BY <1>1, EmptySeq
<1> QED BY <1>1, <1>2, <1>3, Advance

(* Nothing has been read at first. *)
LEMMA InitInv == Init => CommandLineInv
<1> SUFFICES ASSUME Init PROVE CommandLineInv
  OBVIOUS
<1>1. argv \in Seq(Arguments) /\ Len(argv) \in Nat
  <2>1. PICK m \in 0..MaxArgs : argv \in [1..m -> Arguments]
    BY DEF Init, SeqOf
  <2>2. m \in Nat
    <3>1. MaxArgs \in Nat
      BY CommandLineAssumption, Zenon
    <3> QED BY <3>1
  <2> QED BY <2>1, <2>2
<1>2. Legible(argv)
  BY <1>1 DEF Init, Legible
<1>3. Consumed = 0 /\ args = argv
  BY <1>1 DEF Init, Consumed
<1>4. ArgsOK
  <2>1. Len(argv) - Len(args) + 1 = 1 /\ Len(args) <= Len(argv)
    BY <1>1, <1>3
  <2>2. SubSeq(argv, 1, Len(argv)) = argv
    BY <1>1, SubSeqFull
  <2> QED BY <1>1, <1>3, <2>1, <2>2, Zenon DEF ArgsOK
<1>5. \A k \in Keys : options[k] = <<>>
  BY DEF Init
<1>6. options \in OptionsType
  <2>1. <<>> \in Seq(Range(Positional) \cup Arguments)
    BY EmptySeq
  <2> QED BY <2>1, Zenon DEF Init, OptionsType
<1>7. TypeOK
  BY <1>4, <1>6 DEF Init, TypeOK, ArgsOK, OptionsType
<1>8. 1..0 = {} /\ \A P : P \cap (1..0) = {}
  OBVIOUS
<1>9. ~IsValue(argv, 0 + 1)
  BY DEF IsValue
<1>10. /\ \A t \in DOMAIN FileOption :
            options[FileOption[t]] = Listed(argv, Values(argv, t) \cap (1..0))
       /\ options[BOOST_COMMAND_OPT] = Listed(argv, Positionals(argv) \cap (1..0))
  BY <1>5, <1>8, AreKeys, ListedNothing
<1>11. \A t \in DOMAIN Switch : Len(options[Switch[t]]) = Cardinality(Places(argv, t) \cap (1..0))
  <2>1. Len(<<>>) = 0 /\ Cardinality({}) = 0
    BY FS_EmptySet
  <2> QED BY <1>5, <1>8, <2>1, AreKeys
<1>12. Reading(argv, options, Consumed)
  BY <1>3, <1>8, <1>9, <1>10, <1>11 DEF Reading, Read
<1>13. Decided
  BY DEF Init, Decided
<1> QED BY <1>2, <1>7, <1>12, <1>13 DEF CommandLineInv

(* What every step of Boost has in common.                                 *)
LEMMA Ahead ==
  ASSUME CommandLineInv, args # <<>>
  PROVE  /\ Consumed \in Nat /\ Consumed < Len(argv) /\ Len(argv) \in Nat
         /\ Reading(argv, options, Consumed) /\ options \in OptionsType
         /\ args = SubSeq(argv, Consumed + 1, Len(argv)) /\ args[1] = argv[Consumed + 1]
         /\ Len(args) = Len(argv) - Consumed /\ Len(args) \in Nat
<1>1. TypeOK /\ argv \in Seq(Arguments)
  BY DEF CommandLineInv, Legible
<1>2. args \in Seq(Arguments) /\ options \in OptionsType
  BY <1>1 DEF TypeOK, OptionsType
<1>3. Len(args) > 0
  BY <1>2, EmptySeq
<1>4. /\ Len(argv) \in Nat /\ Len(args) \in Nat /\ Consumed \in Nat
      /\ Consumed + Len(args) = Len(argv)
      /\ args = SubSeq(argv, Consumed + 1, Len(argv))
  BY <1>1, Position
<1>5. args[1] = argv[Consumed + 1]
  <2>1. 1 \in 1..Len(args)
    BY <1>3, <1>4
  <2> QED BY <1>1, <2>1, Position
<1> HIDE DEF Consumed
<1> QED BY <1>2, <1>3, <1>4, <1>5 DEF CommandLineInv

(* The next argument, and that the rest is still the end of argv.          *)
LEMMA AheadOne ==
  ASSUME CommandLineInv, args # <<>>, argv' = argv, args' = Tail(args)
  PROVE  ArgsOK' /\ Consumed' = Consumed + 1
<1>1. argv \in Seq(Arguments)
  BY DEF CommandLineInv, Legible
<1>2. PICK n : n = Consumed
  OBVIOUS
<1>3. /\ n \in Nat /\ n < Len(argv) /\ Len(argv) \in Nat
      /\ args = SubSeq(argv, n + 1, Len(argv))
  BY <1>2, Ahead
<1>4. /\ args' \in Seq(Arguments) /\ Len(args') = Len(argv) - (n + 1)
      /\ args' = SubSeq(argv, n + 2, Len(argv))
  BY <1>1, <1>3, TailPosition
<1>5. n + 1 \in Nat /\ n + 1 <= Len(argv) /\ (n + 1) + 1 = n + 2
  BY <1>3
<1>6. ArgsOK' /\ Consumed' = n + 1
  BY <1>1, <1>4, <1>5, Advance
<1> QED BY <1>2, <1>6

LEMMA AheadTwo ==
  ASSUME CommandLineInv, args # <<>>, Len(args) > 1, argv' = argv, args' = Tail(Tail(args))
  PROVE  /\ ArgsOK' /\ Consumed' = (Consumed + 1) + 1
         /\ args[2] = argv[(Consumed + 1) + 1] /\ args[2] \in Arguments
         /\ Consumed + 1 < Len(argv)
<1>1. TypeOK /\ argv \in Seq(Arguments) /\ args \in Seq(Arguments)
  BY DEF CommandLineInv, Legible, TypeOK
<1>2. PICK n : n = Consumed
  OBVIOUS
<1>3. /\ n \in Nat /\ n < Len(argv) /\ Len(argv) \in Nat
      /\ args = SubSeq(argv, n + 1, Len(argv)) /\ Len(args) = Len(argv) - n
  BY <1>2, Ahead
<1>4. n + 1 \in Nat /\ n + 1 < Len(argv) /\ (n + 1) + 1 = n + 2 /\ (n + 1) + 2 = n + 3
  BY <1>3
<1>5. PICK s : s = Tail(args)
  OBVIOUS
<1>6. s = SubSeq(argv, (n + 1) + 1, Len(argv))
  BY <1>1, <1>3, <1>4, <1>5, TailPosition
<1>7. /\ Tail(s) \in Seq(Arguments) /\ Len(Tail(s)) = Len(argv) - ((n + 1) + 1)
      /\ Tail(s) = SubSeq(argv, (n + 1) + 2, Len(argv))
  BY <1>1, <1>4, <1>6, TailPosition
<1>8. /\ args' \in Seq(Arguments) /\ Len(args') = Len(argv) - ((n + 1) + 1)
      /\ args' = SubSeq(argv, ((n + 1) + 1) + 1, Len(argv))
  <2>1. args' = Tail(s)
    BY <1>5
  <2>2. (n + 1) + 2 = ((n + 1) + 1) + 1
    BY <1>3
  <2> QED BY <1>7, <2>1, <2>2, Zenon
<1>9. (n + 1) + 1 \in Nat /\ (n + 1) + 1 <= Len(argv)
  BY <1>3, <1>4
<1>10. ArgsOK' /\ Consumed' = (n + 1) + 1
  BY <1>1, <1>8, <1>9, Advance
<1>11. args[2] = argv[Consumed + 2] /\ args[2] \in Arguments
  <2>1. 2 \in 1..Len(args)
    BY <1>3, <1>4
  <2> QED BY <1>1, <2>1, Position, ElementOfSeq
<1>12. Consumed + 2 = (n + 1) + 1
  BY <1>2, <1>4
<1> QED BY <1>2, <1>4, <1>10, <1>11, <1>12

(* A step that reads something and decides nothing.                        *)
LEMMA ReadKeeps ==
  ASSUME CommandLineInv, outcome = "parsing", UNCHANGED <<name, argv, cron_mode, outcome>>,
         ArgsOK', options' \in OptionsType,
         Reading(argv, options', Consumed') \/ (args' = <<>> /\ Finished(argv, options'))
  PROVE  CommandLineInv'
<1>1. TypeOK'
  BY DEF TypeOK, ArgsOK, OptionsType, CommandLineInv
<1>2. Legible(argv)'
  BY DEF CommandLineInv
<1>3. Decided'
  BY DEF CommandLineInv, Decided
<1>4. (Reading(argv, options, Consumed) \/ (args = <<>> /\ Finished(argv, options)))'
  BY Zenon
<1> QED BY <1>1, <1>2, <1>3, <1>4 DEF CommandLineInv

LEMMA CaptureKeeps ==
  ASSUME CommandLineInv, Capture
  PROVE  CommandLineInv'
<1> DEFINE rest == IF args[1] = "--" THEN Tail(args) ELSE args
<1>1. /\ outcome = "parsing" /\ args # <<>> /\ UNCHANGED <<name, argv, cron_mode, outcome>>
      /\ args' = <<>>
  BY DEF Capture, Captures
<1>2. PICK n : n = Consumed
  OBVIOUS
<1>3. /\ n \in Nat /\ n < Len(argv) /\ Reading(argv, options, n) /\ options \in OptionsType
      /\ args = SubSeq(argv, n + 1, Len(argv)) /\ args[1] = argv[n + 1]
  BY <1>1, <1>2, Ahead
<1>4. Legible(argv) /\ argv \in Seq(Arguments) /\ args \in Seq(Arguments)
  BY DEF CommandLineInv, Legible, TypeOK
<1>5. Ends(argv, n + 1)
  <2>1. argv[n + 1] \in Words \cup {"", "--"}
    BY <1>3, Zenon DEF Capture, Captures
  <2> QED BY <1>3, <2>1, Zenon DEF Ends, Reading
<1>6. PICK r : r = rest
  OBVIOUS
<1>7. GivenTo(options, options', BOOST_COMMAND_OPT, r)
  BY <1>6, Zenon DEF Capture, Given, GivenTo
<1>8. \/ argv[n + 1] = "--" /\ r = Tail(SubSeq(argv, n + 1, Len(argv)))
      \/ argv[n + 1] # "--" /\ r = SubSeq(argv, n + 1, Len(argv))
  BY <1>3, <1>6, Zenon
<1>9. r \in Seq(Arguments)
  <2>1. Tail(args) \in Seq(Arguments)
    BY <1>1, <1>4, HeadTailProperties
  <2> QED BY <1>4, <1>6, <2>1
<1>10. Finished(argv, options')
  BY <1>3, <1>4, <1>5, <1>7, <1>8, <1>9, CommandRead
<1>11. options' \in OptionsType
  BY <1>3, <1>7, <1>9, SeqWiden, AreKeys, GivenProperties
<1>12. ArgsOK'
  BY <1>1, <1>4, AdvanceToEnd
<1> QED BY <1>1, <1>10, <1>11, <1>12, ReadKeeps

LEMMA ParseKeeps ==
  ASSUME CommandLineInv, Parse
  PROVE  CommandLineInv'
<1> DEFINE arg == args[1]
<1>1. /\ outcome = "parsing" /\ args # <<>> /\ UNCHANGED <<name, argv, cron_mode>>
      /\ ~Captures(args)
  BY DEF Parse
<1>2. PICK n : n = Consumed
  OBVIOUS
<1>3. /\ n \in Nat /\ n < Len(argv) /\ Reading(argv, options, n) /\ options \in OptionsType
      /\ args = SubSeq(argv, n + 1, Len(argv)) /\ arg = argv[n + 1]
      /\ Len(args) = Len(argv) - n /\ Len(argv) \in Nat
  BY <1>1, <1>2, Ahead
<1>4. Legible(argv) /\ argv \in Seq(Arguments) /\ args \in Seq(Arguments)
  BY DEF CommandLineInv, Legible, TypeOK
<1>5. ASSUME arg \in DOMAIN Switch, options' = Given(Switch[arg], <<"">>),
             args' = Tail(args), UNCHANGED outcome
      PROVE  CommandLineInv'
  <2>1. ArgsOK' /\ Consumed' = n + 1
    BY <1>1, <1>2, <1>5, AheadOne
  <2>2. PICK v : v = ""
    OBVIOUS
  <2>3. v \in Range(Positional) \cup Arguments
    BY <2>2 DEF Range, Positional
  <2>4. GivenTo(options, options', Switch[arg], <<v>>)
    BY <1>5, <2>2, Zenon DEF Given, GivenTo
  <2>5. UNCHANGED outcome /\ arg \in DOMAIN Switch
    BY <1>5
  <2>6. argv[n + 1] \in DOMAIN Switch /\ GivenTo(options, options', Switch[argv[n + 1]], <<v>>)
    BY <1>3, <2>4, <2>5, Zenon
  <2>7. Reading(argv, options', n + 1)
    BY ONLY <1>3, <1>4, <2>3, <2>6, SwitchRead
  <2>8. options' \in OptionsType
    BY ONLY <1>3, <2>3, <2>6, OneElement, AreKeys, GivenProperties
  <2> QED BY <1>1, <2>1, <2>5, <2>7, <2>8, ReadKeeps, Zenon
<1>6. ASSUME arg \in DOMAIN FileOption, Len(args) > 1,
             options' = Given(FileOption[arg], <<args[2]>>),
             args' = Tail(Tail(args)), UNCHANGED outcome
      PROVE  CommandLineInv'
  <2>1. /\ ArgsOK' /\ Consumed' = (n + 1) + 1
        /\ args[2] = argv[(n + 1) + 1] /\ args[2] \in Arguments
        /\ n + 1 < Len(argv)
    BY <1>1, <1>2, <1>6, AheadTwo
  <2>2. GivenTo(options, options', FileOption[argv[n + 1]], <<argv[(n + 1) + 1]>>)
    BY <1>3, <1>6, <2>1, Zenon DEF Given, GivenTo
  <2>3. Reading(argv, options', (n + 1) + 1)
    BY <1>3, <1>4, <1>6, <2>1, <2>2, FileRead
  <2>4. options' \in OptionsType
    <3>1. <<argv[(n + 1) + 1]>> \in Seq(Range(Positional) \cup Arguments)
      BY <2>1, OneElement
    <3> QED BY <1>3, <1>6, <2>2, <3>1, AreKeys, GivenProperties
  <2> QED BY <1>1, <1>6, <2>1, <2>3, <2>4, ReadKeeps, Zenon
<1>7. ASSUME arg \in DOMAIN Positional,
             options' = Given(BOOST_COMMAND_OPT, <<Positional[arg]>>),
             args' = Tail(args), UNCHANGED outcome
      PROVE  CommandLineInv'
  <2>1. ArgsOK' /\ Consumed' = n + 1
    BY <1>1, <1>2, <1>7, AheadOne
  <2>2. GivenTo(options, options', BOOST_COMMAND_OPT, <<Positional[arg]>>)
    BY <1>7, Zenon DEF Given, GivenTo
  <2>3. Positional[arg] \in Range(Positional)
    BY <1>7 DEF Range
  <2>4. options' \in OptionsType
    BY <1>3, <2>2, <2>3, OneElement, AreKeys, GivenProperties
  <2>5. CASE ~Ends(argv, n + 1)
    <3>1. Reading(argv, options', n + 1)
      BY <1>3, <1>4, <1>7, <2>2, <2>5, PositionalRead
    <3> QED BY <1>1, <1>7, <2>1, <2>4, <3>1, ReadKeeps, Zenon
  <2>6. CASE Ends(argv, n + 1)
    <3>1. arg = "" /\ ~(Len(args) > 1)
      <4>1. arg \in Words \cup {"", "--"}
        BY <1>3, <2>6, Zenon DEF Ends
      <4>2. arg = ""
        BY <1>7, <4>1, TextsDiffer, OptionTexts
      <4>3. ~(Len(args) > 1)
        BY <1>1, <4>2, Zenon DEF Captures
      <4> QED BY <4>2, <4>3
    <3>2. n + 1 = Len(argv) /\ Len(args) = 1
      <4>1. ~(Len(args) > 1)
        BY <3>1
      <4> QED BY ONLY <1>3, <4>1
    <3>3. args' = <<>>
      <4>1. args' \in Seq(Arguments) /\ Len(args') = 0
        BY <1>1, <1>4, <1>7, <3>2, HeadTailProperties
      <4> QED BY <4>1, EmptySeq
    <3>4. PICK v : v = arg
      OBVIOUS
    <3>5. Positional[arg] = arg /\ arg # "--"
      BY <3>1 DEF Positional
    <3>6. args = <<v>>
      <4>1. v \in Arguments /\ args[1] = v
        <5>1. 1 \in 1..Len(args)
          BY ONLY <3>2
        <5> QED BY ONLY <1>4, <3>4, <5>1, ElementOfSeq
      <4> QED BY <1>4, <3>2, <4>1, OneElement, SeqEqual
    <3>7. GivenTo(options, options', BOOST_COMMAND_OPT, args)
      BY <2>2, <3>4, <3>5, <3>6, Zenon
    <3>8. argv[n + 1] # "--" /\ args = SubSeq(argv, n + 1, Len(argv))
      BY <1>3, <3>5, Zenon
    <3>9. Finished(argv, options')
      BY ONLY <1>3, <1>4, <2>6, <3>7, <3>8, CommandRead
    <3> QED BY <1>1, <1>7, <2>1, <2>4, <3>3, <3>9, ReadKeeps, Zenon
  <2> QED BY <2>5, <2>6
<1>8. ASSUME arg \notin DOMAIN Switch \cup DOMAIN Positional,
             arg \in DOMAIN FileOption => Len(args) = 1,
             outcome' = "EX_USAGE", UNCHANGED <<options, args>>
      PROVE  CommandLineInv'
  <2>1. ~IsValue(argv, n + 1)
    BY <1>3 DEF Reading
  <2>2. ~Ends(argv, n + 1)
    <3>1. arg \notin Words /\ arg # "--"
      BY <1>1, Zenon DEF Captures
    <3>2. arg # ""
      BY <1>8, OptionTexts
    <3> QED BY <1>3, <3>1, <3>2, Zenon DEF Ends
  <2>3. n + 1 \in Own(argv)
    BY <1>3, <1>4, <2>2, OwnExtend DEF Reading, Read
  <2>4. ~Acceptable(argv, n + 1)
    <3>1. arg \in DOMAIN FileOption => ~(n + 1 < Len(argv))
      BY <1>3, <1>8
    <3> QED BY <1>3, <1>8, <2>1, <3>1, Zenon DEF Acceptable
  <2>5. TypeOK'
    BY <1>1, <1>8 DEF TypeOK, CommandLineInv
  <2>6. Decided'
    BY <1>1, <1>8, <2>3, <2>4 DEF Decided
  <2>7. Legible(argv)' /\ Reading(argv, options, Consumed)'
    BY <1>1, <1>2, <1>3, <1>4, <1>8 DEF Consumed
  <2> QED BY <2>5, <2>6, <2>7 DEF CommandLineInv
<1> QED BY <1>5, <1>6, <1>7, <1>8, Zenon DEF Parse

LEMMA StoreKeeps ==
  ASSUME CommandLineInv, Store
  PROVE  CommandLineInv'
<1>1. /\ outcome = "parsing" /\ args = <<>>
      /\ UNCHANGED <<name, argv, args, options>>
      /\ TypeOK /\ Decided
  BY DEF Store, CommandLineInv
<1>2. /\ Repeated' <=> Repeated
      /\ \A key : Flag(key)' <=> Flag(key)
      /\ Command' = Command
  BY <1>1 DEF Repeated, Flag, List, Command
<1>3. CASE Repeated
  <2>1. outcome' = "EX_USAGE" /\ (cron_mode' <=> cron_mode)
    BY <1>3 DEF Store
  <2>2. TypeOK' /\ Decided'
    BY <1>1, <1>2, <1>3, <2>1 DEF TypeOK, Decided
  <2> QED BY <1>1, <2>2 DEF CommandLineInv, Consumed
<1>4. CASE ~Repeated /\ (Flag("help") \/ Flag("version") \/ Flag("debug-options"))
  <2>1. outcome' = "EXIT_SUCCESS" /\ (cron_mode' <=> cron_mode)
    BY <1>4 DEF Store
  <2>2. TypeOK' /\ Decided'
    BY <1>1, <2>1 DEF TypeOK, Decided
  <2> QED BY <1>1, <2>2 DEF CommandLineInv, Consumed
<1>5. CASE /\ ~Repeated /\ ~(Flag("help") \/ Flag("version") \/ Flag("debug-options"))
           /\ Command = <<>>
  <2>1. outcome' = "EX_USAGE" /\ (cron_mode' <=> cron_mode)
    BY <1>5 DEF Store
  <2>2. TypeOK' /\ Decided'
    BY <1>1, <1>2, <1>5, <2>1 DEF TypeOK, Decided
  <2> QED BY <1>1, <2>2 DEF CommandLineInv, Consumed
<1>6. CASE /\ ~Repeated /\ ~(Flag("help") \/ Flag("version") \/ Flag("debug-options"))
           /\ Command # <<>>
  <2>1. outcome' = "run" /\ (cron_mode' <=> cron_mode \/ Flag("cron")) /\ cron_mode' \in BOOLEAN
    BY <1>6 DEF Store
  <2>2. cron_mode' <=> name = "cronty" \/ Flag("cron")
    BY <1>1, <2>1 DEF Decided
  <2>3. TypeOK' /\ Decided'
    BY <1>1, <1>2, <1>6, <2>1, <2>2 DEF TypeOK, Decided
  <2> QED BY <1>1, <2>3 DEF CommandLineInv, Consumed
<1> QED BY <1>3, <1>4, <1>5, <1>6

LEMMA NextInv == CommandLineInv /\ [Next]_vars => CommandLineInv'
<1> SUFFICES ASSUME CommandLineInv, [Next]_vars PROVE CommandLineInv'
  OBVIOUS
<1>1. CASE UNCHANGED vars
  BY <1>1 DEF vars, CommandLineInv, TypeOK, Decided, Consumed, Repeated, Flag, List, Command
<1>2. CASE Capture
  BY <1>2, CaptureKeeps
<1>3. CASE Parse
  BY <1>3, ParseKeeps
<1>4. CASE Store
  BY <1>4, StoreKeeps
<1> QED BY <1>1, <1>2, <1>3, <1>4 DEF Next, Done

LEMMA CommandLineInvariant == Spec => []CommandLineInv
<1> QED BY InitInv, NextInv, PTL DEF Spec

(* What there is to read when there is nothing left.                       *)
LEMMA AllRead ==
  ASSUME CommandLineInv, args = <<>>
  PROVE  Finished(argv, options)
<1>1. TypeOK /\ argv \in Seq(Arguments) /\ Legible(argv)
  BY DEF CommandLineInv, Legible
<1>2. Consumed = Len(argv)
  <2>1. Len(argv) \in Nat /\ Len(args) = 0
    BY <1>1, LenProperties
  <2> QED BY <2>1 DEF Consumed
<1>3. options \in OptionsType
  BY <1>1 DEF TypeOK, OptionsType
<1> QED BY <1>1, <1>2, <1>3, NoCommandRead DEF CommandLineInv

(* The parts of argv that are dtee's, from what has been read of them.     *)
LEMMA AllOwn ==
  ASSUME CommandLineInv, args = <<>>
  PROVE  /\ \A i \in Own(argv) : Acceptable(argv, i)
         /\ \A t \in DOMAIN FileOption : List(FileOption[t]) = Listed(argv, Values(argv, t))
         /\ \A t \in DOMAIN Switch : /\ IsFiniteSet(Places(argv, t))
                                     /\ Len(List(Switch[t])) = Cardinality(Places(argv, t))
         /\ Command = Listed(argv, Positionals(argv)) \o CommandPart(argv)
<1>1. Finished(argv, options) /\ Legible(argv)
  BY AllRead DEF CommandLineInv
<1>2. PICK c : c = Cardinality(Own(argv))
  OBVIOUS
<1>3. IsFiniteSet(Own(argv)) /\ c \in Nat
  BY <1>1, <1>2, OwnFinite
<1>4. Own(argv) = 1..c
  <2>1. 1..c \in SUBSET Own(argv)
    BY <1>1, <1>2 DEF Finished, Read
  <2>2. Cardinality(1..c) = c
    BY <1>3, FS_Interval
  <2> QED BY <1>2, <1>3, <2>1, <2>2, FS_Subset
<1>5. Read(argv, options, c)
  BY <1>1, <1>2 DEF Finished
<1>6. \A t \in DOMAIN FileOption : List(FileOption[t]) = Listed(argv, Values(argv, t))
  BY <1>3, <1>4, <1>5, OwnParts DEF Read, List
<1>7. ASSUME NEW t \in DOMAIN Switch
      PROVE  /\ IsFiniteSet(Places(argv, t))
             /\ Len(List(Switch[t])) = Cardinality(Places(argv, t))
  <2>1. Places(argv, t) \in SUBSET Own(argv)
    BY DEF Places
  <2>2. IsFiniteSet(Places(argv, t))
    BY <1>3, <2>1, FS_Subset
  <2>3. Places(argv, t) \cap (1..c) = Places(argv, t)
    BY <1>3, <1>4, OwnParts
  <2> QED BY <1>5, <2>2, <2>3 DEF Read, List
<1>8. \A i \in Own(argv) : Acceptable(argv, i)
  BY <1>4, <1>5 DEF Read
<1> QED BY <1>1, <1>6, <1>7, <1>8 DEF Finished, Command, List

(* What is left to read is always the end of argv, and every argument that *)
(* has been read is kept with an option that parse() knows.                *)
THEOREM CommandLineTypes == Spec => []TypeOK
<1>1. CommandLineInv => TypeOK
  BY DEF CommandLineInv
<1> QED BY <1>1, CommandLineInvariant, PTL

(* The command that dtee runs is what was written, however long the        *)
(* command line is.                                                        *)
THEOREM CommandIsWhatWasWritten == Spec => []CommandAsWritten
<1>1. ASSUME CommandLineInv
      PROVE  CommandAsWritten
  BY <1>1, AllOwn DEF CommandLineInv, Decided, CommandAsWritten
<1> QED BY <1>1, CommandLineInvariant, PTL

(* A switch has been given when it is somewhere among dtee's arguments.    *)
LEMMA FlagGiven ==
  ASSUME CommandLineInv, args = <<>>, NEW t \in DOMAIN Switch
  PROVE  Flag(Switch[t]) <=> Places(argv, t) # {}
<1>1. /\ IsFiniteSet(Places(argv, t))
      /\ Len(List(Switch[t])) = Cardinality(Places(argv, t))
  BY AllOwn
<1>2. List(Switch[t]) \in Seq(Range(Positional) \cup Arguments)
  BY AreKeys DEF CommandLineInv, TypeOK, List
<1>3. List(Switch[t]) = <<>> <=> Len(List(Switch[t])) = 0
  BY <1>2, EmptySeq
<1>4. Cardinality(Places(argv, t)) = 0 <=> Places(argv, t) = {}
  BY <1>1, FS_EmptySet
<1> QED BY <1>1, <1>3, <1>4, Zenon DEF Flag

(* No argument of the command is an option of dtee, and no option of dtee  *)
(* is lost, out of order or left to the command.                           *)
THEOREM OptionsEndWithCommand == Spec => []OptionsBeforeCommand
<1>1. ASSUME CommandLineInv
      PROVE  OptionsBeforeCommand
  <2>1. ASSUME outcome = "run"
        PROVE  /\ \A t \in DOMAIN FileOption :
                    List(FileOption[t]) = Listed(argv, Values(argv, t))
               /\ Flag("ignore-interrupts") <=> Places(argv, "-i") # {}
               /\ cron_mode <=> name = "cronty" \/ Places(argv, "-q") # {}
    <3>1. args = <<>> /\ (cron_mode <=> name = "cronty" \/ Flag("cron"))
      BY <1>1, <2>1 DEF CommandLineInv, Decided
    <3>2. \A t \in DOMAIN FileOption : List(FileOption[t]) = Listed(argv, Values(argv, t))
      BY <1>1, <3>1, AllOwn
    <3>3. "-i" \in DOMAIN Switch /\ "-q" \in DOMAIN Switch
      BY OptionTexts
    <3>4. Flag("ignore-interrupts") <=> Places(argv, "-i") # {}
      BY <1>1, <3>1, <3>3, SwitchKeys, FlagGiven
    <3>5. Flag("cron") <=> Places(argv, "-q") # {}
      BY <1>1, <3>1, <3>3, SwitchKeys, FlagGiven
    <3> QED BY <3>1, <3>2, <3>4, <3>5, Zenon
  <2> QED BY <2>1, Zenon DEF OptionsBeforeCommand
<1> QED BY <1>1, CommandLineInvariant, PTL

(* A switch that is given twice is given at two positions. *)
LEMMA RepeatedGiven ==
  ASSUME CommandLineInv, args = <<>>
  PROVE  Repeated <=> \E t \in DOMAIN Switch : \E i, j \in Places(argv, t) : i # j
<1>1. ASSUME NEW t \in DOMAIN Switch
      PROVE  Len(List(Switch[t])) > 1 <=> \E i, j \in Places(argv, t) : i # j
  BY AllOwn, AtMostOne
<1> QED BY <1>1, Zenon DEF Repeated

(* dtee runs the command exactly when its own arguments make sense and     *)
(* there is a command to run, unless it was asked for information.         *)
THEOREM RunsExactlyWhenItShould == Spec => []RunsWhenItShould
<1>1. ASSUME CommandLineInv
      PROVE  RunsWhenItShould
  <2>1. ASSUME outcome = "run"
        PROVE  /\ \A i \in Own(argv) : Acceptable(argv, i)
               /\ \A t \in DOMAIN Switch : \A i, j \in Places(argv, t) : i = j
               /\ Listed(argv, Positionals(argv)) \o CommandPart(argv) # <<>>
    <3>1. args = <<>> /\ ~Repeated /\ Command # <<>>
      BY <1>1, <2>1 DEF CommandLineInv, Decided
    <3>2. \A t \in DOMAIN Switch : \A i, j \in Places(argv, t) : i = j
      BY <1>1, <3>1, RepeatedGiven, Zenon
    <3> QED BY <1>1, <3>1, <3>2, AllOwn
  <2>2. ASSUME outcome = "EX_USAGE"
        PROVE  ~ /\ \A i \in Own(argv) : Acceptable(argv, i)
                 /\ \A t \in DOMAIN Switch : \A i, j \in Places(argv, t) : i = j
                 /\ Listed(argv, Positionals(argv)) \o CommandPart(argv) # <<>>
    <3>1. \/ \E i \in Own(argv) : ~Acceptable(argv, i)
          \/ args = <<>> /\ (Repeated \/ Command = <<>>)
      BY <1>1, <2>2 DEF CommandLineInv, Decided
    <3>2. CASE args = <<>> /\ Repeated
      BY <1>1, <3>2, RepeatedGiven, Zenon
    <3>3. CASE args = <<>> /\ Command = <<>>
      BY <1>1, <3>3, AllOwn
    <3> QED BY <3>1, <3>2, <3>3, Zenon
  <2> QED BY <2>1, <2>2 DEF RunsWhenItShould
<1> QED BY <1>1, CommandLineInvariant, PTL
==============================================================================
